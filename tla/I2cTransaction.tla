--------------------------- MODULE I2cTransaction ---------------------------
(***************************************************************************)
(* I2cBus::transaction of src/rust_bridge/rp-asm-hal/src/lib.rs, the       *)
(* blocking drivers of src/src/i2c.S it calls, one per operation, and the  *)
(* controller and target behind them.                                      *)
(*                                                                         *)
(* The controller is modelled from how the code uses it (src/docs/i2c.md): *)
(* its first command after IC_ENABLE goes from 0 to 1 carries the address, *)
(* it keeps the bus over that toggle if no STOP was asked for, it reports  *)
(* MST_ACTIVITY while commands are left to execute, and an abort empties   *)
(* its TX FIFO and releases the bus.  CPU and controller run side by side. *)
(***************************************************************************)
EXTENDS Integers, SequencesExt

CONSTANTS
  Programs,        \* The lists of operations asked for.
  FifoDepth,       \* Both FIFOs hold so many entries.
  MaxTransactions, \* Bound: calls of transaction.
  RefusesReads,    \* May the target refuse its address for a read?
  LongInterrupts   \* May the CPU be away while the RX FIFO fills?

Operation == [kind : {"write", "read"}, len : Nat]
ASSUME I2cAssumption ==
  /\ Programs \subseteq Seq(Operation)
  /\ FifoDepth \in Nat \ {0} /\ MaxTransactions \in Nat
  /\ RefusesReads \in BOOLEAN /\ LongInterrupts \in BOOLEAN

VARIABLES
  ops,       \* The operations of the transaction,
  k,         \* the one in progress,
  left,      \* its commands not yet pushed (r5 of a write, r6 of a read),
  got,       \* and the bytes it has popped (r0 of a read).
  pc,        \* Where the CPU is.
  result,    \* What the last transaction returned.
  buffer,    \* The bytes stored for its caller (history).
  calls,     \* Transactions so far (bound).
  txf, rxf,  \* The controller's FIFOs.
  addressed, \* Has it sent the address since it was enabled?
  clocked,   \* Data bytes since then.
  held,      \* Does it hold the bus?
  abrt,      \* IC_TX_ABRT_SOURCE # 0.
  wire       \* What went over the bus in this transaction (history).

cpu == <<ops, k, left, got, pc, result, buffer, calls>>
controller == <<txf, rxf, addressed, clocked, held, abrt, wire>>
vars == <<cpu, controller>>

Event(what, op, n) == [what |-> what, op |-> op, n |-> n]

\* I2cBus::new: the controller is up, idle and enabled.
Init ==
  /\ ops = <<>> /\ k = 0 /\ left = 0 /\ got = 0
  /\ pc = "ready" /\ result = "none" /\ buffer = <<>> /\ calls = 0
  /\ txf = <<>> /\ rxf = <<>>
  /\ addressed = FALSE /\ clocked = 0 /\ held = FALSE /\ abrt = FALSE
  /\ wire = <<>>

-----------------------------------------------------------------------------
(* The transaction: one call of a driver per operation.                    *)

Begin ==
  /\ pc = "ready"
  /\ calls < MaxTransactions
  /\ \E p \in Programs :
       /\ ops' = p
       /\ pc' = IF p = <<>> THEN "ready" ELSE "open"
       /\ result' = IF p = <<>> THEN "Ok" ELSE "none"
  /\ k' = 1
  /\ calls' = calls + 1
  /\ buffer' = <<>>
  /\ wire' = <<>>
  /\ UNCHANGED <<left, got, txf, rxf, addressed, clocked, held, abrt>>

\* Mutant of Nostop: every operation ends with a STOP.
NostopNever == k > Len(ops)

\* Every operation but the very last leaves the bus to its successor.
Nostop == k < Len(ops)

\* The driver returns: -1 ends the transaction, a count goes on to the next
\* operation.
Returned(failed) ==
  /\ k' = k + 1
  /\ pc' = IF failed \/ k = Len(ops) THEN "ready" ELSE "open"
  /\ result' = CASE failed -> "Err" [] ~failed /\ k = Len(ops) -> "Ok"
                 [] OTHER -> result

-----------------------------------------------------------------------------
(* i2c_write_blocking and i2c_read_blocking.                               *)

\* Mutant of Tfnf: the bit is read one entry late.
TfnfLate == Len(txf) <= FifoDepth

Tfnf == Len(txf) < FifoDepth
Rfne == rxf # <<>>
Active == txf # <<>>

\* IC_ENABLE = 0 empties the FIFOs; IC_TAR; IC_ENABLE = 1.
Open ==
  /\ pc = "open"
  /\ txf' = <<>> /\ rxf' = <<>>
  /\ addressed' = FALSE /\ clocked' = 0
  /\ left' = ops[k].len
  /\ got' = 0
  /\ pc' = IF ops[k].len = 0 THEN "wait" ELSE ops[k].kind
  /\ UNCHANGED <<ops, k, result, buffer, calls, held, abrt, wire>>

Command == [read |-> ops[k].kind = "read", op |-> k,
            n |-> ops[k].len - left + 1, stop |-> left = 1 /\ ~Nostop]

\* While an abort is pending the TX FIFO takes nothing.
Push == txf' = IF abrt THEN txf ELSE Append(txf, Command)

PushWrite ==
  /\ pc = "write"
  /\ Tfnf
  /\ Push
  /\ left' = left - 1
  /\ pc' = IF left = 1 THEN "wait" ELSE "write"
  /\ UNCHANGED <<ops, k, got, result, buffer, calls>>
  /\ UNCHANGED <<rxf, addressed, clocked, held, abrt, wire>>

PushRead ==
  /\ pc = "read"
  /\ Tfnf
  /\ Push
  /\ left' = left - 1
  /\ pc' = "drain"
  /\ UNCHANGED <<ops, k, got, result, buffer, calls>>
  /\ UNCHANGED <<rxf, addressed, clocked, held, abrt, wire>>

\* Mutant of Pop: it waits for one byte more than it asked for.
PopOneMore ==
  /\ pc = "drain"
  /\ Rfne
  /\ buffer' = Append(buffer, Head(rxf))
  /\ rxf' = Tail(rxf)
  /\ got' = got + 1
  /\ pc' = IF got = ops[k].len THEN "wait" ELSE "drain"
  /\ UNCHANGED <<ops, k, left, result, calls>>
  /\ UNCHANGED <<txf, addressed, clocked, held, abrt, wire>>

Pop ==
  /\ pc = "drain"
  /\ Rfne
  /\ buffer' = Append(buffer, Head(rxf))
  /\ rxf' = Tail(rxf)
  /\ got' = got + 1
  /\ pc' = IF got + 1 = ops[k].len THEN "wait" ELSE "drain"
  /\ UNCHANGED <<ops, k, left, result, calls>>
  /\ UNCHANGED <<txf, addressed, clocked, held, abrt, wire>>

\* Nothing to pop: push the next command, or poll again if there is none.
NothingYet ==
  /\ pc = "drain"
  /\ ~Rfne
  /\ left > 0
  /\ pc' = "read"
  /\ UNCHANGED <<ops, k, left, got, result, buffer, calls, controller>>

\* Mutant of Finish: the abort is reported but not cleared.
FinishKeepsAbort ==
  /\ pc = "wait"
  /\ ~Active
  /\ Returned(abrt)
  /\ UNCHANGED <<ops, left, got, buffer, calls, controller>>

\* The master is idle again: report an abort, and clear it.
Finish ==
  /\ pc = "wait"
  /\ ~Active
  /\ Returned(abrt)
  /\ abrt' = FALSE
  /\ UNCHANGED <<ops, left, got, buffer, calls>>
  /\ UNCHANGED <<txf, rxf, addressed, clocked, held, wire>>

Cpu == Begin \/ Open \/ PushWrite \/ PushRead \/ Pop \/ NothingYet \/ Finish

-----------------------------------------------------------------------------
(* The controller and the target.                                          *)

Said(what) == wire' = Append(wire, Event(what, Head(txf).op, clocked'))

\* A NACK: everything queued is dropped and the bus released.
Abort ==
  /\ txf' = <<>>
  /\ abrt' = TRUE
  /\ held' = FALSE
  /\ UNCHANGED clocked
  /\ Said("nack")

Address ==
  /\ Active /\ ~addressed
  /\ addressed' = TRUE
  /\ held' = TRUE
  /\ UNCHANGED <<clocked, txf, rxf, abrt, cpu>>
  /\ Said(IF held THEN "restart" ELSE "start")

AddressRefused ==
  /\ Active /\ ~addressed
  /\ Head(txf).read => RefusesReads
  /\ addressed' = TRUE
  /\ Abort
  /\ UNCHANGED <<rxf, cpu>>

\* The data byte of the command at the head, and the STOP it may carry.
Clock ==
  /\ Active /\ addressed
  /\ clocked' = clocked + 1
  /\ held' = ~Head(txf).stop
  /\ txf' = Tail(txf)
  /\ wire' = Append(wire, Event(IF Head(txf).read THEN "read" ELSE "write",
                                Head(txf).op, Head(txf).n))
             \o (IF Head(txf).stop
                 THEN <<Event("stop", Head(txf).op, Head(txf).n)>> ELSE <<>>)

WriteByte ==
  /\ Clock
  /\ ~Head(txf).read
  /\ UNCHANGED <<rxf, addressed, abrt, cpu>>

WriteRefused ==
  /\ Active /\ addressed
  /\ ~Head(txf).read
  /\ Abort
  /\ UNCHANGED <<rxf, addressed, cpu>>

\* The target sends its next byte; a full RX FIFO loses it.
ReadByte ==
  /\ Clock
  /\ Head(txf).read
  /\ Len(rxf) < FifoDepth \/ LongInterrupts
  /\ rxf' = IF Len(rxf) < FifoDepth
            THEN Append(rxf, <<Head(txf).op, clocked'>>) ELSE rxf
  /\ UNCHANGED <<addressed, abrt, cpu>>

Controller ==
  Address \/ AddressRefused \/ WriteByte \/ WriteRefused \/ ReadByte

Next == Cpu \/ Controller

\* The loops of the drivers go on, and the controller executes what it has.
Spec == Init /\ [][Next]_vars /\ WF_vars(Cpu) /\ WF_vars(Controller)

-----------------------------------------------------------------------------
(* Properties.                                                             *)

Commands == [read : BOOLEAN, op : 1 .. Len(ops), n : Nat \ {0}, stop : BOOLEAN]

\* The state is well formed, and neither FIFO ever holds more than it can.
TypeOK ==
  /\ ops \in Programs \cup {<<>>}
  /\ k \in 0 .. Len(ops) + 1 /\ left \in Nat /\ got \in Nat
  /\ pc \in {"ready", "open", "write", "read", "drain", "wait"}
  /\ result \in {"none", "Ok", "Err"}
  /\ calls \in 0 .. MaxTransactions
  /\ txf \in Seq(Commands) /\ Len(txf) <= FifoDepth
  /\ rxf \in Seq(Nat \X Nat) /\ Len(rxf) <= FifoDepth
  /\ addressed \in BOOLEAN /\ held \in BOOLEAN /\ abrt \in BOOLEAN
  /\ clocked \in Nat

OnTheWire(p) ==
  FlattenSeq([i \in DOMAIN p |->
    <<Event(IF i = 1 THEN "start" ELSE "restart", i, 0)>>
    \o [n \in 1 .. p[i].len |-> Event(p[i].kind, i, n)]])
  \o (IF p = <<>> THEN <<>>
      ELSE <<Event("stop", Len(p), Last(p).len)>>)
ReadFrom(p) ==
  FlattenSeq([i \in DOMAIN p |->
    IF p[i].kind = "read" THEN [n \in 1 .. p[i].len |-> <<i, n>>] ELSE <<>>])

Over == pc = "ready" /\ calls > 0

\* When transaction returns Ok, every operation went over the bus whole and
\* in order, the bus held from the first START to the one STOP, and every
\* byte the target sent is in the caller's buffers, once and in order.
OkMeansDone ==
  Over /\ result = "Ok" => wire = OnTheWire(ops) /\ buffer = ReadFrom(ops)

\* It returns Err exactly when the target refused something in this very
\* transaction; nothing follows the NACK; and either way the bus is free,
\* the controller idle and no abort left behind for the next caller.
ErrMeansRefused ==
  Over => /\ result = "Err" <=> wire # <<>> /\ Last(wire).what = "nack"
          /\ \A i \in 1 .. Len(wire) - 1 : wire[i].what # "nack"
          /\ ~held /\ ~abrt /\ txf = <<>> /\ rxf = <<>>

\* Every transaction returns: no loop of the drivers waits for a byte or a
\* FIFO slot that does not come.
TransactionEnds == pc # "ready" ~> pc = "ready"

\* The HAL's comment on transaction: between operations of the same
\* direction there is no restart.
RestartOnlyToTurn ==
  \A i \in DOMAIN wire : wire[i].what = "restart"
    => ops[wire[i].op].kind # ops[wire[i].op - 1].kind
=============================================================================
