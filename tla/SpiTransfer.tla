---------------------------- MODULE SpiTransfer ----------------------------
(***************************************************************************)
(* The SpiBus of src/rust_bridge/rp-asm-hal/src/lib.rs, the blocking loops *)
(* of src/src/spi.S under it, and the PL022 they drive: a TX FIFO, a shift *)
(* register that exchanges one byte with the target per frame, and an RX   *)
(* FIFO that loses a byte which finds it full.                             *)
(*                                                                         *)
(* Frames run beside the CPU.  A CPU that is not interrupted looks at the  *)
(* RX FIFO at least once per frame; over one call it may fall behind by    *)
(* Late frames more.                                                       *)
(***************************************************************************)
EXTENDS Integers, SequencesExt

CONSTANTS
  Calls,     \* The calls made: [kind, out, in], lengths of the two slices.
  FifoDepth, \* SPI_FIFO_DEPTH.
  Late,      \* Frames an interrupted CPU may fall behind in one call.
  MaxCalls   \* Bound: calls.

Kind == {"read", "write", "transfer", "transfer_in_place"}
ASSUME SpiAssumption ==
  /\ Calls \subseteq [kind : Kind, out : Nat, in : Nat]
  /\ FifoDepth \in Nat \ {0} /\ Late \in Nat /\ MaxCalls \in Nat

VARIABLES
  call,     \* The call in progress, or the last one.
  src, dst, \* The slices it was given; one and the same in place.
  tx, rx,   \* Bytes pushed and bytes received (r12 and r8; r7 of a write).
  pc,       \* Where the CPU is.
  calls,    \* Calls so far (bound).
  txf, shift, rxf, \* The PL022; shift holds at most one byte.
  mosi,     \* The bytes clocked out in this call (history).
  lag,      \* Has a frame ended since the CPU last looked at the RX FIFO?
  late      \* Frames it may still fall behind.

cpu == <<call, src, dst, tx, rx, pc, calls>>
pl022 == <<txf, shift, rxf, mosi>>
vars == <<cpu, pl022, lag, late>>

\* The caller's i-th byte; 0 is what read sends and -1 an empty slot.
Out(i) == 100 + i
Blank == -1

\* Mutant of Tnf: the bit is read one entry late.
TnfLate == Len(txf) <= FifoDepth

Tnf == Len(txf) < FifoDepth
Rne == rxf # <<>>
Bsy == txf # <<>> \/ shift # <<>>

\* Spi::new: the controller is up, idle and empty.
Init ==
  /\ call = [kind |-> "write", out |-> 0, in |-> 0]
  /\ src = <<>> /\ dst = <<>> /\ tx = 0 /\ rx = 0
  /\ pc = "ready" /\ calls = 0
  /\ txf = <<>> /\ shift = <<>> /\ rxf = <<>> /\ mosi = <<>>
  /\ lag = FALSE /\ late = 0

-----------------------------------------------------------------------------
(* The calls of SpiBus.                                                    *)

\* transfer runs for the shorter of its slices.
Size(c) == IF c.kind = "read" \/ (c.kind = "transfer" /\ c.in < c.out)
           THEN c.in ELSE c.out
n == Size(call)
InPlace == call.kind = "transfer_in_place"

Call ==
  /\ pc = "ready"
  /\ calls < MaxCalls
  /\ calls' = calls + 1
  /\ \E c \in Calls :
       /\ call' = c
       /\ src' = IF c.kind = "read" THEN [i \in 1 .. c.in |-> 0]
                 ELSE [i \in 1 .. c.out |-> Out(i)]
       /\ dst' = IF c.kind = "transfer_in_place" THEN src'
                 ELSE [i \in 1 .. c.in |-> Blank]
       /\ pc' = IF Size(c) = 0 THEN "ready"
                ELSE IF c.kind = "write" THEN "push" ELSE "send"
  /\ tx' = 0 /\ rx' = 0
  /\ mosi' = <<>>
  /\ lag' = FALSE /\ late' = Late
  /\ UNCHANGED <<txf, shift, rxf>>

-----------------------------------------------------------------------------
(* spi_write_blocking.                                                     *)

Push ==
  /\ pc = "push"
  /\ Tnf
  /\ txf' = Append(txf, src[tx + 1])
  /\ tx' = tx + 1
  /\ pc' = "drain"
  /\ UNCHANGED <<call, src, dst, rx, calls, shift, rxf, mosi, lag, late>>

Drain ==
  /\ pc \in {"drain", "empty"}
  /\ Rne
  /\ rxf' = Tail(rxf)
  /\ lag' = FALSE
  /\ UNCHANGED <<cpu, txf, shift, mosi, late>>

Drained ==
  /\ pc = "drain"
  /\ ~Rne
  /\ pc' = IF tx < n THEN "push" ELSE "wait"
  /\ lag' = FALSE
  /\ UNCHANGED <<call, src, dst, tx, rx, calls, pl022, late>>

Idle ==
  /\ pc = "wait"
  /\ ~Bsy
  /\ pc' = "empty"
  /\ UNCHANGED <<call, src, dst, tx, rx, calls, pl022, lag, late>>

WriteReturns ==
  /\ pc = "empty"
  /\ ~Rne
  /\ pc' = "ready"
  /\ UNCHANGED <<call, src, dst, tx, rx, calls, pl022, lag, late>>

-----------------------------------------------------------------------------
(* The loop of spi_read_blocking and spi_write_read_blocking.              *)

\* Mutant of Send: TNF is not looked at, and a full FIFO drops the byte.
SendBlindly ==
  /\ pc = "send"
  /\ tx < n
  /\ txf' = IF Tnf THEN Append(txf, src[tx + 1]) ELSE txf
  /\ tx' = tx + 1
  /\ pc' = "receive"
  /\ UNCHANGED <<call, src, dst, rx, calls, shift, rxf, mosi, lag, late>>

Send ==
  /\ pc = "send"
  /\ tx < n /\ Tnf
  /\ txf' = Append(txf, src[tx + 1])
  /\ tx' = tx + 1
  /\ pc' = "receive"
  /\ UNCHANGED <<call, src, dst, rx, calls, shift, rxf, mosi, lag, late>>

SkipTx ==
  /\ pc = "send"
  /\ ~(tx < n /\ Tnf)
  /\ pc' = "receive"
  /\ UNCHANGED <<call, src, dst, tx, rx, calls, pl022, lag, late>>

\* Mutant of Receive: the byte is stored where the next one to send is.
ReceiveAhead ==
  /\ pc = "receive"
  /\ Rne
  /\ dst' = IF tx < n THEN [dst EXCEPT ![tx + 1] = Head(rxf)]
            ELSE [dst EXCEPT ![rx + 1] = Head(rxf)]
  /\ src' = IF InPlace THEN dst' ELSE src
  /\ rxf' = Tail(rxf)
  /\ rx' = rx + 1
  /\ lag' = FALSE
  /\ pc' = IF rx + 1 < n THEN "send" ELSE "ready"
  /\ UNCHANGED <<call, tx, calls, txf, shift, mosi, late>>

Receive ==
  /\ pc = "receive"
  /\ Rne
  /\ dst' = [dst EXCEPT ![rx + 1] = Head(rxf)]
  /\ src' = IF InPlace THEN dst' ELSE src
  /\ rxf' = Tail(rxf)
  /\ rx' = rx + 1
  /\ lag' = FALSE
  /\ pc' = IF rx + 1 < n THEN "send" ELSE "ready"
  /\ UNCHANGED <<call, tx, calls, txf, shift, mosi, late>>

SkipRx ==
  /\ pc = "receive"
  /\ ~Rne
  /\ lag' = FALSE
  /\ pc' = "send"
  /\ UNCHANGED <<call, src, dst, tx, rx, calls, pl022, late>>

Cpu == Call \/ Push \/ Drain \/ Drained \/ Idle \/ WriteReturns
       \/ Send \/ SkipTx \/ Receive \/ SkipRx

-----------------------------------------------------------------------------
(* The PL022 and the target, whose i-th byte of a call is i.               *)

Load ==
  /\ shift = <<>> /\ txf # <<>>
  /\ shift' = <<Head(txf)>>
  /\ txf' = Tail(txf)
  /\ UNCHANGED <<cpu, rxf, mosi, lag, late>>

\* The CPU polls a status bit and does nothing else.
Spins == (pc = "push" /\ ~Tnf) \/ (pc = "wait" /\ Bsy)

EndOfFrame ==
  /\ shift # <<>>
  /\ lag /\ ~Spins => late > 0
  /\ late' = IF lag /\ ~Spins THEN late - 1 ELSE late
  /\ lag' = TRUE
  /\ mosi' = Append(mosi, Head(shift))
  /\ rxf' = IF Len(rxf) < FifoDepth THEN Append(rxf, Len(mosi')) ELSE rxf
  /\ shift' = <<>>
  /\ UNCHANGED <<cpu, txf>>

Pl022 == Load \/ EndOfFrame

Next == Cpu \/ Pl022

\* The loops go on, and so does the clock.
Spec == Init /\ [][Next]_vars /\ WF_vars(Cpu) /\ WF_vars(Pl022)

-----------------------------------------------------------------------------
(* Properties.                                                             *)

\* The state is well formed, and no byte is received before it is sent.
TypeOK ==
  /\ call \in Calls \cup {[kind |-> "write", out |-> 0, in |-> 0]}
  /\ src \in Seq(Nat) /\ dst \in Seq(Nat \cup {Blank})
  /\ tx \in 0 .. n /\ rx \in 0 .. tx
  /\ pc \in {"ready", "push", "drain", "wait", "empty", "send", "receive"}
  /\ calls \in 0 .. MaxCalls
  /\ Len(txf) <= FifoDepth /\ Len(shift) <= 1 /\ Len(rxf) <= FifoDepth
  /\ late \in 0 .. Late /\ lag \in BOOLEAN

Sent == IF call.kind = "read" THEN [i \in 1 .. n |-> 0]
        ELSE [i \in 1 .. n |-> Out(i)]

\* A call that has returned has clocked out exactly the bytes it was given,
\* in order and none overwritten in place before it was sent, and has stored
\* in order the byte that came back with each of them.  It leaves nothing
\* under way, and nothing to be taken for an answer to the next call: what
\* makes flush a no-op.
Exchanged ==
  pc = "ready" =>
    /\ mosi = Sent
    /\ call.kind # "write" => SubSeq(dst, 1, n) = [i \in 1 .. n |-> i]
    /\ ~Bsy /\ ~Rne

\* Every call returns.
TransferEnds == pc # "ready" ~> pc = "ready"
=============================================================================
