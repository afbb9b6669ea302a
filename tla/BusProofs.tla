----------------------------- MODULE BusProofs -----------------------------
(***************************************************************************)
(* Proofs about the two serial buses of the HAL, which share their shape:  *)
(* a blocking driver on the CPU, a pair of FIFOs, and a controller that    *)
(* runs beside it.                                                         *)
(*                                                                         *)
(* First I2cTransaction, for every list of non-empty operations, FIFOs of  *)
(* any depth, and a target that may refuse anything.  Then, as Spi!,       *)
(* SpiTransfer, for calls of any kind and length, FIFOs of any depth, and  *)
(* a CPU that never falls behind by a whole FIFO.                          *)
(***************************************************************************)
EXTENDS I2cTransaction, FiniteSetTheorems, SequenceTheorems, TLAPS

-----------------------------------------------------------------------------
(* Joining sequences of sequences.                                         *)

\* Induction, for a set instead of a formula: were m the first number not in
\* S, the numbers up to m that are would map one to one to all of them but 0.
LEMMA SetInduction ==
  ASSUME NEW S, 0 \in S, \A n \in Nat : n \in S => n + 1 \in S
  PROVE  Nat \subseteq S
<1> SUFFICES ASSUME NEW m \in Nat, m \notin S PROVE FALSE
  OBVIOUS
<1> DEFINE A == {x \in 0 .. m : x \in S}
           f == [x \in A |-> x + 1]
<1>1. IsFiniteSet(0 .. m)
  BY FS_Interval
<1>2. 0 \in A /\ A \in SUBSET (0 .. m)
  OBVIOUS
<1>3. f \in [A -> A \ {0}] /\ \A x, y \in A : f[x] = f[y] => x = y
  OBVIOUS
<1> HIDE DEF A, f
<1>4. IsFiniteSet(A)
  BY <1>1, <1>2, FS_Subset
<1>5. IsFiniteSet(A \ {0}) /\ Cardinality(A \ {0}) = Cardinality(A) - 1
  BY <1>2, <1>4, FS_RemoveElement
<1>6. Cardinality(A) \in Nat
  BY <1>4, FS_CardinalityType
<1>7. \E x, y \in A : x # y /\ f[x] = f[y]
  BY <1>3, <1>4, <1>5, <1>6, FS_PigeonHole
<1>8. QED
  BY <1>3, <1>7

-----------------------------------------------------------------------------
(* The invariant.                                                          *)

\* A driver is in its loops.
Working == pc \in {"write", "read", "drain", "wait"}
Reading == ops[k].kind = "read"

\* Where the CPU is says what is left of the operation.
Places ==
  /\ pc # "ready" => /\ ops \in Programs /\ k \in 1 .. Len(ops)
                     /\ result = "none" /\ calls > 0
  /\ Working => left \in 0 .. ops[k].len /\ got \in 0 .. ops[k].len
  /\ pc = "write" => ~Reading /\ left > 0
  /\ pc \in {"read", "drain"} => Reading /\ got < ops[k].len
  /\ pc = "read" => left > 0
  /\ pc \in {"ready", "open"} => txf = << >>

TypeInv == TypeOK /\ Places

\* No operation of a transaction is empty.
NonEmpty == \A p \in Programs : \A i \in DOMAIN p : p[i].len > 0

\* The events and the bytes of operation i, and those of the first i.
Events == [what : {"start", "restart", "read", "write", "stop", "nack"},
           op : Nat, n : Nat]
Sent(p, i, m) == [n \in 1 .. m |-> Event(p[i].kind, i, n)]
Stored(i, m) == [n \in 1 .. m |-> <<i, n>>]
Started(i) == Event(IF i = 1 THEN "start" ELSE "restart", i, 0)
WirePieces(p) ==
  [i \in DOMAIN p |-> <<Started(i)>> \o Sent(p, i, p[i].len)]
ReadPieces(p) ==
  [i \in DOMAIN p |-> IF p[i].kind = "read" THEN Stored(i, p[i].len)
                      ELSE << >>]

\* The first i pieces of s joined, as FlattenSeq joins all of them.
Upto(s, i) ==
  LET flatten[j \in 1 .. Len(s)] ==
        IF j = 1 THEN s[j] ELSE flatten[j - 1] \o s[j]
  IN  IF i = 0 THEN << >> ELSE flatten[i]
Wired(p, i) == Upto(WirePieces(p), i)
Fetched(p, i) == Upto(ReadPieces(p), i)

\* The command for byte n of operation i.
CommandFor(p, i, n) == [read |-> p[i].kind = "read", op |-> i, n |-> n,
                        stop |-> n = p[i].len /\ i = Len(p)]

\* The TX FIFO holds the commands pushed and not yet executed; an abort
\* leaves none, and a read that was aborted has clocked nothing.
Queue ==
  Working =>
    /\ abrt => txf = << >> /\ addressed /\ (Reading => clocked = 0)
    /\ ~abrt => /\ Len(txf) = ops[k].len - left - clocked
                /\ \A j \in 1 .. Len(txf) :
                     txf[j] = CommandFor(ops, k, clocked + j)
                /\ ~addressed => clocked = 0

\* All bytes of this operation are clocked; all of the transaction.
Complete == addressed /\ clocked = ops[k].len
Ended == k = Len(ops) /\ Complete

\* The bus is held from the first address to the last byte or an abort.
Holding ==
  /\ Working => (held <=> ~abrt /\ (addressed \/ k > 1) /\ ~Ended)
  /\ pc = "open" => (held <=> k > 1) /\ ~abrt
  /\ pc = "ready" => ~held /\ ~abrt

\* No NACK went over the wire, or the last event is the only one.
Clean(w) == \A i \in 1 .. Len(w) : w[i].what # "nack"
Nacked(w) ==
  /\ w # << >> /\ w[Len(w)].what = "nack"
  /\ \A i \in 1 .. Len(w) - 1 : w[i].what # "nack"

\* What went over the wire: the operations before this one whole, and of this
\* one the address, the bytes clocked and the STOP.
InProgress ==
  (IF addressed THEN <<Started(k)>> \o Sent(ops, k, clocked) ELSE << >>)
  \o (IF Ended THEN <<Event("stop", k, clocked)>> ELSE << >>)
Outward ==
  /\ wire \in Seq(Events)
  /\ pc = "open" => wire = Wired(ops, k - 1) /\ Clean(wire)
  /\ Working => IF abrt THEN Nacked(wire)
                ELSE wire = Wired(ops, k - 1) \o InProgress /\ Clean(wire)

\* What came back is stored or in the RX FIFO, unless that lost a byte: then
\* less has come back than was clocked.
Inward ==
  /\ ~(Working /\ Reading) => rxf = << >>
  /\ pc = "open" \/ (Working /\ ~Reading) => buffer = Fetched(ops, k - 1)
  /\ Working /\ Reading =>
       /\ got + Len(rxf) <= clocked
       /\ got + Len(rxf) = clocked =>
            /\ \A i \in 1 .. Len(rxf) : rxf[i] = <<k, got + i>>
            /\ buffer = Fetched(ops, k - 1) \o Stored(k, got)
  /\ pc = "wait" => IF Reading THEN got = ops[k].len ELSE left = 0

\* What transaction returned last.
Outcome ==
  Over => \/ /\ result = "Ok" /\ Clean(wire)
             /\ wire = OnTheWire(ops) /\ buffer = ReadFrom(ops)
          \/ result = "Err" /\ Nacked(wire)

DoneInv == Queue /\ Holding /\ Outward /\ Inward /\ Outcome
-----------------------------------------------------------------------------
(* Sequences put together of pieces.                                       *)

\* What Upto says of piece j, said of any function g.
Joins(s, g, j) == g[j] = IF j = 1 THEN s[j] ELSE g[j - 1] \o s[j]

\* There is a function that joins all pieces.
LEMMA JoinExists ==
  ASSUME NEW s, Len(s) \in Nat
  PROVE  \E g : g = [j \in 1 .. Len(s) |->
                       IF j = 1 THEN s[j] ELSE g[j - 1] \o s[j]]
<1> DEFINE S == {n \in Nat : \E g : \A j \in 1 .. n : Joins(s, g, j)}
<1>1. 0 \in S
  OBVIOUS
<1>2. ASSUME NEW n \in Nat, n \in S PROVE n + 1 \in S
  <2>1. PICK g : \A j \in 1 .. n : Joins(s, g, j)
    BY <1>2
  <2> DEFINE h == [j \in 1 .. n + 1 |->
                     IF j <= n THEN g[j]
                     ELSE IF j = 1 THEN s[j] ELSE g[j - 1] \o s[j]]
  <2>2. ASSUME NEW j \in 1 .. n + 1 PROVE Joins(s, h, j)
    <3>1. CASE j <= n
      <4>1. h[j] = g[j] /\ (j # 1 => h[j - 1] = g[j - 1]) /\ Joins(s, g, j)
        BY <2>1, <3>1
      <4>2. QED
        BY <4>1 DEF Joins
    <3>2. CASE ~(j <= n)
      <4>1. h[j] = (IF j = 1 THEN s[j] ELSE g[j - 1] \o s[j])
            /\ (j # 1 => h[j - 1] = g[j - 1])
        BY <3>2
      <4>2. QED
        BY <4>1 DEF Joins
    <3>3. QED
      BY <3>1, <3>2
  <2> HIDE DEF h
  <2>3. \E f : \A j \in 1 .. n + 1 : Joins(s, f, j)
    BY <2>2
  <2>4. QED
    BY <2>3
<1>3. Len(s) \in S
  <2> HIDE DEF S
  <2>1. QED
    BY <1>1, <1>2, SetInduction
<1>4. PICK g : \A j \in 1 .. Len(s) : Joins(s, g, j)
  BY <1>3
<1> DEFINE h == [j \in 1 .. Len(s) |-> g[j]]
<1>5. \A j \in 1 .. Len(s) : h[j] = IF j = 1 THEN s[j] ELSE h[j - 1] \o s[j]
  BY <1>4 DEF Joins
<1>6. h = [j \in 1 .. Len(s) |-> h[j]]
  OBVIOUS
<1> HIDE DEF h
<1>7. h = [j \in 1 .. Len(s) |-> IF j = 1 THEN s[j] ELSE h[j - 1] \o s[j]]
  BY <1>5, <1>6
<1>8. QED
  BY <1>7

\* Upto adds piece after piece, and with the last one it is FlattenSeq.
LEMMA UptoJoins ==
  ASSUME NEW T, NEW s \in Seq(Seq(T))
  PROVE  /\ Upto(s, 0) = << >>
         /\ \A i \in 1 .. Len(s) : Upto(s, i) = Upto(s, i - 1) \o s[i]
         /\ \A i \in 0 .. Len(s) : Upto(s, i) \in Seq(T)
         /\ FlattenSeq(s) = Upto(s, Len(s))
<1>1. Len(s) \in Nat /\ \A i \in 1 .. Len(s) : s[i] \in Seq(T)
  OBVIOUS
<1> DEFINE f == CHOOSE g : g = [j \in 1 .. Len(s) |->
                                 IF j = 1 THEN s[j] ELSE g[j - 1] \o s[j]]
<1>2. f = [j \in 1 .. Len(s) |-> IF j = 1 THEN s[j] ELSE f[j - 1] \o s[j]]
  BY <1>1, JoinExists
<1>3. \A i : Upto(s, i) = IF i = 0 THEN << >> ELSE f[i]
  BY DEF Upto
<1>4. FlattenSeq(s) = IF Len(s) = 0 THEN s ELSE f[Len(s)]
  BY DEF FlattenSeq
<1> HIDE DEF f
<1>5. Upto(s, 0) = << >>
  BY <1>3
<1>6. ASSUME NEW i \in 1 .. Len(s) PROVE Upto(s, i) = Upto(s, i - 1) \o s[i]
  <2>0. f[i] = IF i = 1 THEN s[i] ELSE f[i - 1] \o s[i]
    BY <1>2
  <2>1. Upto(s, i) = IF i = 1 THEN s[i] ELSE f[i - 1] \o s[i]
    <3>1. i # 0
      OBVIOUS
    <3>2. QED
      BY <1>3, <2>0, <3>1, Zenon
  <2>2. CASE i = 1
    <3>1. << >> \o s[i] = s[i]
      BY <1>1, ConcatEmptySeq
    <3>2. QED
      BY <1>5, <2>1, <2>2, <3>1
  <2>3. CASE i # 1
    <3>1. i - 1 # 0
      BY <2>3
    <3>2. Upto(s, i - 1) = f[i - 1]
      BY <1>3, <3>1, Zenon
    <3>3. QED
      BY <2>1, <2>3, <3>2, Zenon
  <2>4. QED
    BY <2>2, <2>3
<1>7. \A i \in 0 .. Len(s) : Upto(s, i) \in Seq(T)
  <2> DEFINE S == {n \in Nat : n <= Len(s) => Upto(s, n) \in Seq(T)}
  <2>1. 0 \in S
    <3>1. << >> \in Seq(T)
      OBVIOUS
    <3>2. QED
      BY <1>5, <3>1
  <2>2. ASSUME NEW n \in Nat, n \in S PROVE n + 1 \in S
    <3> SUFFICES ASSUME n + 1 <= Len(s) PROVE Upto(s, n + 1) \in Seq(T)
      OBVIOUS
    <3>1. n + 1 \in 1 .. Len(s) /\ (n + 1) - 1 = n /\ Upto(s, n) \in Seq(T)
      BY <1>1, <2>2
    <3>2. Upto(s, n + 1) = Upto(s, n) \o s[n + 1] /\ s[n + 1] \in Seq(T)
      BY <1>1, <1>6, <3>1
    <3>3. QED
      BY <3>1, <3>2, ConcatProperties
  <2>3. Nat \subseteq S
    <3> HIDE DEF S
    <3>1. QED
      BY <2>1, <2>2, SetInduction
  <2>4. QED
    BY <1>1, <2>3
<1>8. FlattenSeq(s) = Upto(s, Len(s))
  <2>1. Len(s) = 0 => s = << >>
    BY EmptySeq
  <2>2. QED
    BY <1>3, <1>4, <2>1
<1>9. QED
  BY <1>5, <1>6, <1>7, <1>8

\* One event more.
LEMMA SentMore ==
  ASSUME NEW p, NEW i, NEW m \in Nat
  PROVE  /\ Sent(p, i, m + 1) = Sent(p, i, m) \o <<Event(p[i].kind, i, m + 1)>>
         /\ Sent(p, i, 0) = << >>
BY DEF Sent

\* One more byte stored, and none.
LEMMA StoredMore ==
  ASSUME NEW i, NEW m \in Nat
  PROVE  /\ Stored(i, m + 1) = Stored(i, m) \o << <<i, m + 1>> >>
         /\ Stored(i, 0) = << >>
BY DEF Stored

-----------------------------------------------------------------------------
(* Type correctness.                                                       *)

\* The operation in progress is one of the program's.
LEMMA InProgram ==
  ASSUME TypeInv, pc # "ready"
  PROVE  /\ ops \in Seq(Operation) /\ ops \in Programs /\ Len(ops) \in Nat
         /\ k \in 1 .. Len(ops) /\ k \in DOMAIN ops
         /\ ops[k].len \in Nat /\ ops[k].kind \in {"read", "write"}
<1>1. ops \in Seq(Operation) /\ ops \in Programs /\ k \in 1 .. Len(ops)
  BY I2cAssumption DEF TypeInv, Places
<1>2. ops[k] \in Operation /\ DOMAIN ops = 1 .. Len(ops) /\ Len(ops) \in Nat
  BY <1>1
<1>3. QED
  BY <1>1, <1>2 DEF Operation

\* A new transaction finds the TX FIFO empty, whatever its operations are.
LEMMA TypeBegin == TypeInv /\ Begin => TypeInv'
<1> SUFFICES ASSUME TypeInv, Begin PROVE TypeInv'
  OBVIOUS
<1>1. /\ pc = "ready" /\ calls < MaxTransactions /\ ops' \in Programs
      /\ pc' = IF ops' = << >> THEN "ready" ELSE "open"
      /\ result' = IF ops' = << >> THEN "Ok" ELSE "none"
      /\ k' = 1 /\ calls' = calls + 1
      /\ UNCHANGED <<left, got, txf, rxf, addressed, clocked, held, abrt>>
  BY DEF Begin
<1>2. txf = << >> /\ << >> \in Seq(Commands')
  BY <1>1 DEF TypeInv, Places
<1>3. ops' \in Seq(Operation) /\ Len(ops') \in Nat
      /\ (ops' # << >> => Len(ops') # 0)
  BY <1>1, I2cAssumption, EmptySeq
<1>4. calls' \in 1 .. MaxTransactions
  BY <1>1, I2cAssumption DEF TypeInv, TypeOK
<1>5. TypeOK'
  BY <1>1, <1>2, <1>3, <1>4 DEF TypeInv, TypeOK
<1>6. Places'
  BY <1>1, <1>2, <1>3, <1>4 DEF TypeInv, TypeOK, Places, Working
<1>7. QED
  BY <1>5, <1>6 DEF TypeInv

\* A driver goes from place to place with as much left as the place says.
LEMMA TypeCpu ==
  TypeInv /\ (Open \/ PushWrite \/ PushRead \/ Pop \/ NothingYet \/ Finish)
    => TypeInv'
<1> SUFFICES ASSUME TypeInv, Open \/ PushWrite \/ PushRead \/ Pop
                             \/ NothingYet \/ Finish
             PROVE  TypeInv'
  OBVIOUS
<1>0. ops' = ops /\ pc # "ready"
  BY DEF Open, PushWrite, PushRead, Pop, NothingYet, Finish
<1> DEFINE len == ops[k].len
<1>p. /\ ops \in Programs /\ Len(ops) \in Nat /\ k \in 1 .. Len(ops)
      /\ len \in Nat /\ ops[k].kind \in {"read", "write"}
  BY <1>0, InProgram
<1>t. Commands' = Commands
  BY <1>0 DEF Commands
<1>1. CASE Open
  <2>1. /\ pc = "open" /\ txf' = << >> /\ rxf' = << >>
        /\ addressed' = FALSE /\ clocked' = 0 /\ left' = len /\ got' = 0
        /\ pc' = IF len = 0 THEN "wait" ELSE ops[k].kind
        /\ UNCHANGED <<ops, k, result, buffer, calls, held, abrt, wire>>
    BY <1>1 DEF Open
  <2> HIDE DEF len
  <2>2. txf' \in Seq(Commands') /\ Len(txf') = 0 /\ Len(rxf') = 0
    BY <2>1
  <2>3. rxf' \in Seq(Nat \X Nat) /\ Len(txf') <= FifoDepth
        /\ Len(rxf') <= FifoDepth
    BY <2>1, <2>2, I2cAssumption
  <2>4. pc' \in {"read", "write", "wait"} /\ left' \in Nat /\ got' \in Nat
    BY <1>p, <2>1
  <2>5. TypeOK'
    BY <1>p, <2>1, <2>2, <2>3, <2>4 DEF TypeInv, TypeOK
  <2>6. Places'
    BY <1>p, <2>1 DEF TypeInv, TypeOK, Places, Working, Reading, len
  <2>7. QED
    BY <2>5, <2>6 DEF TypeInv
<1>2. CASE PushWrite \/ PushRead
  <2>1. /\ pc \in {"write", "read"} /\ Len(txf) < FifoDepth
        /\ txf' = IF abrt THEN txf ELSE Append(txf, Command)
        /\ left' = left - 1
        /\ pc = "write" => pc' = IF left = 1 THEN "wait" ELSE "write"
        /\ pc = "read" => pc' = "drain"
        /\ UNCHANGED <<ops, k, got, result, buffer, calls>>
        /\ UNCHANGED <<rxf, addressed, clocked, held, abrt, wire>>
    BY <1>2 DEF PushWrite, PushRead, Push, Tfnf
  <2>2. left \in 1 .. len
    BY <2>1 DEF TypeInv, Places, Working
  <2>3. Command \in Commands
    <3>1. len - left + 1 \in Nat \ {0}
      BY <1>p, <2>2
    <3>2. QED
      BY <1>p, <3>1 DEF Command, Commands
  <2>4. txf' \in Seq(Commands) /\ Len(txf') <= FifoDepth
    <3>1. txf \in Seq(Commands) /\ Len(txf) <= FifoDepth
      BY DEF TypeInv, TypeOK
    <3>2. Append(txf, Command) \in Seq(Commands)
          /\ Len(Append(txf, Command)) = Len(txf) + 1 /\ Len(txf) \in Nat
      BY <2>3, <3>1
    <3>3. QED
      BY <2>1, <3>1, <3>2, I2cAssumption
  <2>5. TypeOK'
    BY <1>p, <1>t, <2>1, <2>2, <2>4 DEF TypeInv, TypeOK
  <2>6. Places'
    BY <1>p, <2>1, <2>2 DEF TypeInv, TypeOK, Places, Working, Reading
  <2>7. QED
    BY <2>5, <2>6 DEF TypeInv
<1>3. CASE Pop
  <2>1. /\ pc = "drain" /\ rxf # << >> /\ rxf' = Tail(rxf)
        /\ got' = got + 1
        /\ pc' = IF got + 1 = len THEN "wait" ELSE "drain"
        /\ UNCHANGED <<ops, k, left, result, calls>>
        /\ UNCHANGED <<txf, addressed, clocked, held, abrt, wire>>
    BY <1>3 DEF Pop, Rfne
  <2>2. got \in 0 .. len /\ got < len /\ left \in 0 .. len /\ Reading
    BY <2>1 DEF TypeInv, Places, Working
  <2>3. rxf' \in Seq(Nat \X Nat) /\ Len(rxf') <= FifoDepth
    <3>1. rxf \in Seq(Nat \X Nat) /\ Len(rxf) <= FifoDepth
      BY DEF TypeInv, TypeOK
    <3>2. /\ Tail(rxf) \in Seq(Nat \X Nat) /\ Len(Tail(rxf)) = Len(rxf) - 1
          /\ Len(rxf) \in Nat
      BY <2>1, <3>1, HeadTailProperties
    <3>3. QED
      BY <2>1, <3>1, <3>2, I2cAssumption
  <2>4. TypeOK'
    BY <1>p, <1>t, <2>1, <2>2, <2>3 DEF TypeInv, TypeOK
  <2>5. Places'
    BY <1>p, <2>1, <2>2 DEF TypeInv, TypeOK, Places, Working, Reading
  <2>6. QED
    BY <2>4, <2>5 DEF TypeInv
<1>4. CASE NothingYet
  <2>1. /\ pc = "drain" /\ left > 0 /\ pc' = "read"
        /\ UNCHANGED <<ops, k, left, got, result, buffer, calls, controller>>
    BY <1>4 DEF NothingYet
  <2>2. TypeOK'
    BY <1>t, <2>1 DEF TypeInv, TypeOK, controller
  <2>3. Places'
    BY <1>p, <2>1 DEF TypeInv, TypeOK, Places, Working, Reading, controller
  <2>4. QED
    BY <2>2, <2>3 DEF TypeInv
<1>5. CASE Finish
  <2>1. /\ pc = "wait" /\ txf = << >> /\ k' = k + 1 /\ abrt' = FALSE
        /\ pc' = IF abrt \/ k = Len(ops) THEN "ready" ELSE "open"
        /\ result' = IF abrt THEN "Err"
                     ELSE IF k = Len(ops) THEN "Ok" ELSE result
        /\ UNCHANGED <<ops, left, got, buffer, calls>>
        /\ UNCHANGED <<txf, rxf, addressed, clocked, held, wire>>
    BY <1>5 DEF Finish, Returned, Active
  <2>2. TypeOK'
    <3>1. k' \in 0 .. Len(ops) + 1
      BY <1>p, <2>1
    <3>2. pc' \in {"ready", "open"} /\ result' \in {"none", "Ok", "Err"}
      BY <2>1 DEF TypeInv, TypeOK
    <3>3. QED
      BY <1>t, <2>1, <3>1, <3>2 DEF TypeInv, TypeOK
  <2>3. Places'
    BY <1>p, <2>1 DEF TypeInv, TypeOK, Places, Working, Reading
  <2>4. QED
    BY <2>2, <2>3 DEF TypeInv
<1>6. QED
  BY <1>1, <1>2, <1>3, <1>4, <1>5

\* The controller only takes from the TX FIFO, and never fills up the RX FIFO
\* beyond its depth.
LEMMA TypeController == TypeInv /\ Controller => TypeInv'
<1> SUFFICES ASSUME TypeInv, Controller PROVE TypeInv'
  OBVIOUS
<1>0. /\ Len(txf) <= FifoDepth /\ txf \in Seq(Commands)
      /\ rxf \in Seq(Nat \X Nat) /\ Len(rxf) <= FifoDepth
      /\ addressed \in BOOLEAN /\ held \in BOOLEAN /\ abrt \in BOOLEAN
      /\ clocked \in Nat
  BY DEF TypeInv, TypeOK
<1>1. txf # << >> /\ UNCHANGED cpu
  BY DEF Controller, Address, AddressRefused, WriteByte, WriteRefused,
     ReadByte, Clock, Active
<1>2. Commands' = Commands
  BY <1>1 DEF Commands, cpu
<1>3. Tail(txf) \in Seq(Commands) /\ Len(Tail(txf)) = Len(txf) - 1
      /\ Len(txf) \in Nat /\ Head(txf) \in Commands
  BY <1>0, <1>1
<1>4. Head(txf).op \in Nat /\ Head(txf).stop \in BOOLEAN
  <2>1. Len(ops) \in Nat
    BY <1>1, I2cAssumption DEF TypeInv, TypeOK
  <2>2. QED
    BY <1>3, <2>1 DEF Commands
<1>5. /\ txf' \in {txf, << >>, Tail(txf)}
      /\ addressed' \in BOOLEAN /\ held' \in BOOLEAN /\ abrt' \in BOOLEAN
      /\ clocked' \in {clocked, clocked + 1}
  BY <1>0 DEF Controller, Address, AddressRefused, WriteByte, WriteRefused,
     ReadByte, Clock, Abort
<1>6. txf' \in Seq(Commands) /\ Len(txf') <= FifoDepth
  <2>1. CASE txf' = txf
    BY <1>0, <2>1
  <2>2. CASE txf' = << >>
    BY <2>2, I2cAssumption
  <2>3. CASE txf' = Tail(txf)
    BY <1>0, <1>3, <2>3, I2cAssumption
  <2>4. QED
    BY <1>5, <2>1, <2>2, <2>3
<1>7. rxf' \in Seq(Nat \X Nat) /\ Len(rxf') <= FifoDepth
  <2>1. \/ rxf' = rxf
        \/ /\ Len(rxf) < FifoDepth
           /\ rxf' = Append(rxf, <<Head(txf).op, clocked + 1>>)
    BY DEF Controller, Address, AddressRefused, WriteByte, WriteRefused,
       ReadByte, Clock
  <2>2. CASE rxf' = rxf
    BY <1>0, <2>2
  <2>3. CASE /\ Len(rxf) < FifoDepth
             /\ rxf' = Append(rxf, <<Head(txf).op, clocked + 1>>)
    <3>1. <<Head(txf).op, clocked + 1>> \in Nat \X Nat
      BY <1>0, <1>4
    <3>2. Len(rxf') = Len(rxf) + 1 /\ Len(rxf) \in Nat
      BY <1>0, <2>3, <3>1
    <3>3. QED
      BY <1>0, <2>3, <3>1, <3>2, I2cAssumption
  <2>4. QED
    BY <2>1, <2>2, <2>3
<1>8. TypeOK'
  <2>1. clocked' \in Nat
    BY <1>0, <1>5
  <2>2. QED
    BY <1>1, <1>2, <1>5, <1>6, <1>7, <2>1 DEF TypeInv, TypeOK, cpu
<1>9. Places'
  BY <1>1 DEF TypeInv, Places, Working, Reading, cpu
<1>10. QED
  BY <1>8, <1>9 DEF TypeInv

\* The strengthening: types, and what is left at each place of the drivers.
LEMMA TypeInvariance == Spec => []TypeInv
<1>1. Init => TypeInv
  <2> SUFFICES ASSUME Init PROVE TypeInv
    OBVIOUS
  <2>1. << >> \in Seq(Commands) /\ << >> \in Seq(Nat \X Nat)
        /\ Len(<< >>) = 0
    OBVIOUS
  <2>2. TypeOK
    <3>1. k \in 0 .. Len(ops) + 1 /\ calls \in 0 .. MaxTransactions
          /\ Len(txf) <= FifoDepth /\ Len(rxf) <= FifoDepth
      BY <2>1, I2cAssumption DEF Init
    <3>2. QED
      BY <2>1, <3>1 DEF Init, TypeOK
  <2>3. Places
    BY DEF Init, Places, Working
  <2>4. QED
    BY <2>2, <2>3 DEF TypeInv
<1>2. TypeInv /\ [Next]_vars => TypeInv'
  <2>1. TypeInv /\ UNCHANGED vars => TypeInv'
    BY DEF vars, cpu, controller, TypeInv, TypeOK, Places, Working, Reading,
       Commands
  <2>2. QED
    BY <2>1, TypeBegin, TypeCpu, TypeController DEF Next, Cpu
<1>3. QED
  BY <1>1, <1>2, PTL DEF Spec

\* The state is well formed, and neither FIFO ever holds more than it can,
\* for every list of operations and every depth of the FIFOs.
THEOREM I2cTypeCorrect == Spec => []TypeOK
<1>1. TypeInv => TypeOK
  BY DEF TypeInv
<1>2. QED
  BY <1>1, TypeInvariance, PTL

-----------------------------------------------------------------------------
(* What the operations put on the bus and bring back.                      *)

\* The events of an operation, of which only one is a NACK.
LEMMA EventTypes ==
  ASSUME NEW p \in Seq(Operation), NEW i \in 1 .. Len(p), NEW m \in Nat
  PROVE  /\ Started(i) \in Events /\ Started(i).what # "nack"
         /\ Event(p[i].kind, i, m) \in Events
         /\ Event(p[i].kind, i, m).what # "nack"
         /\ Event("stop", i, m) \in Events /\ Event("stop", i, m).what # "nack"
         /\ Event("nack", i, m) \in Events /\ Event("nack", i, m).what = "nack"
         /\ <<i, m>> \in Nat \X Nat
<1>1. p[i].kind \in {"read", "write"} /\ i \in Nat
  <2>1. p[i] \in Operation
    OBVIOUS
  <2>2. QED
    BY <2>1 DEF Operation
<1>2. QED
  BY <1>1 DEF Started, Event, Events

\* The wire and the buffers, one operation at a time.
LEMMA Pieces ==
  ASSUME NEW p \in Seq(Operation)
  PROVE  /\ Wired(p, 0) = << >> /\ Fetched(p, 0) = << >>
         /\ \A i \in 1 .. Len(p) :
              /\ Wired(p, i) = Wired(p, i - 1)
                               \o (<<Started(i)>> \o Sent(p, i, p[i].len))
              /\ Fetched(p, i) = Fetched(p, i - 1)
                   \o (IF p[i].kind = "read" THEN Stored(i, p[i].len)
                       ELSE << >>)
         /\ \A i \in 0 .. Len(p) : /\ Wired(p, i) \in Seq(Events)
                                   /\ Fetched(p, i) \in Seq(Nat \X Nat)
         /\ OnTheWire(p) = Wired(p, Len(p))
              \o (IF p = << >> THEN << >>
                  ELSE <<Event("stop", Len(p), p[Len(p)].len)>>)
         /\ ReadFrom(p) = Fetched(p, Len(p))
<1>1. DOMAIN p = 1 .. Len(p) /\ Len(p) \in Nat
  OBVIOUS
<1> DEFINE w(i) == <<Started(i)>> \o Sent(p, i, p[i].len)
           r(i) == IF p[i].kind = "read" THEN Stored(i, p[i].len) ELSE << >>
<1>2. ASSUME NEW i \in 1 .. Len(p)
      PROVE  w(i) \in Seq(Events) /\ r(i) \in Seq(Nat \X Nat)
  <2>1. p[i].len \in Nat
    <3>1. p[i] \in Operation
      OBVIOUS
    <3>2. QED
      BY <3>1 DEF Operation
  <2>2. Sent(p, i, p[i].len) \in Seq(Events)
    <3>1. ASSUME NEW n \in 1 .. p[i].len
          PROVE  Event(p[i].kind, i, n) \in Events
      <4>1. n \in Nat
        BY <2>1
      <4>2. QED
        BY <4>1, EventTypes
    <3>2. QED
      BY <2>1, <3>1 DEF Sent
  <2>3. <<Started(i)>> \in Seq(Events)
    <3>1. Started(i) \in Events
      BY EventTypes
    <3>2. QED
      BY <3>1
  <2>4. Stored(i, p[i].len) \in Seq(Nat \X Nat) /\ << >> \in Seq(Nat \X Nat)
    <3>1. \A n \in 1 .. p[i].len : <<i, n>> \in Nat \X Nat
      OBVIOUS
    <3>2. QED
      BY <2>1, <3>1 DEF Stored
  <2>5. QED
    BY <2>2, <2>3, <2>4, ConcatProperties
<1>3. WirePieces(p) = [i \in 1 .. Len(p) |-> w(i)]
      /\ ReadPieces(p) = [i \in 1 .. Len(p) |-> r(i)]
  BY <1>1 DEF WirePieces, ReadPieces
<1> HIDE DEF w, r
<1>4. /\ WirePieces(p) \in Seq(Seq(Events)) /\ Len(WirePieces(p)) = Len(p)
      /\ \A i \in 1 .. Len(p) : WirePieces(p)[i] = w(i)
  BY <1>1, <1>2, <1>3
<1>5. /\ ReadPieces(p) \in Seq(Seq(Nat \X Nat)) /\ Len(ReadPieces(p)) = Len(p)
      /\ \A i \in 1 .. Len(p) : ReadPieces(p)[i] = r(i)
  BY <1>1, <1>2, <1>3
<1>6. /\ Wired(p, 0) = << >>
      /\ \A i \in 1 .. Len(p) : Wired(p, i) = Wired(p, i - 1) \o w(i)
      /\ \A i \in 0 .. Len(p) : Wired(p, i) \in Seq(Events)
      /\ FlattenSeq(WirePieces(p)) = Wired(p, Len(p))
  BY <1>4, UptoJoins DEF Wired
<1>7. /\ Fetched(p, 0) = << >>
      /\ \A i \in 1 .. Len(p) : Fetched(p, i) = Fetched(p, i - 1) \o r(i)
      /\ \A i \in 0 .. Len(p) : Fetched(p, i) \in Seq(Nat \X Nat)
      /\ FlattenSeq(ReadPieces(p)) = Fetched(p, Len(p))
  BY <1>5, UptoJoins DEF Fetched
<1>8. OnTheWire(p) = FlattenSeq(WirePieces(p))
         \o (IF p = << >> THEN << >>
             ELSE <<Event("stop", Len(p), p[Len(p)].len)>>)
  BY DEF OnTheWire, WirePieces, Started, Sent, Last
<1>9. ReadFrom(p) = FlattenSeq(ReadPieces(p))
  BY DEF ReadFrom, ReadPieces, Stored
<1>10. QED
  BY <1>6, <1>7, <1>8, <1>9 DEF w, r

\* One more event keeps the wire clean, or ends it with the NACK.
LEMMA CleanMore ==
  ASSUME NEW w \in Seq(Events), NEW e \in Events, Clean(w)
  PROVE  /\ e.what # "nack" => Clean(Append(w, e))
         /\ e.what = "nack" => Nacked(Append(w, e))
<1>1. /\ Len(w) \in Nat /\ Len(Append(w, e)) = Len(w) + 1
      /\ \A i \in 1 .. Len(w) : Append(w, e)[i] = w[i]
      /\ Append(w, e)[Len(w) + 1] = e
  OBVIOUS
<1>2. Append(w, e) # << >>
  BY <1>1
<1>3. QED
  BY <1>1, <1>2 DEF Clean, Nacked

\* The data bytes of an operation are events.
LEMMA SentTyped ==
  ASSUME NEW p \in Seq(Operation), NEW i \in 1 .. Len(p), NEW m \in Nat
  PROVE  Sent(p, i, m) \in Seq(Events)
<1>1. ASSUME NEW n \in 1 .. m PROVE Event(p[i].kind, i, n) \in Events
  <2>1. n \in Nat
    OBVIOUS
  <2>2. QED
    BY <2>1, EventTypes
<1>2. QED
  BY <1>1 DEF Sent

\* So are its address and its bytes.
LEMMA PartTyped ==
  ASSUME NEW p \in Seq(Operation), NEW i \in 1 .. Len(p), NEW m \in Nat
  PROVE  /\ <<Started(i)>> \o Sent(p, i, m) \in Seq(Events)
         /\ << >> \in Seq(Events)
<1>1. Started(i) \in Events
  BY EventTypes
<1>2. <<Started(i)>> \in Seq(Events)
  BY <1>1
<1>3. QED
  BY <1>2, SentTyped, ConcatProperties

\* What a command carries.
LEMMA CommandFields ==
  ASSUME NEW c, NEW p, NEW i, NEW n, c = CommandFor(p, i, n)
  PROVE  /\ c.op = i /\ c.n = n
         /\ c.read <=> p[i].kind = "read"
         /\ c.stop <=> n = p[i].len /\ i = Len(p)
BY DEF CommandFor

-----------------------------------------------------------------------------
(* What Ok and Err mean.                                                   *)

\* The operation in progress asks for a byte at least.
LEMMA Whole ==
  ASSUME TypeInv, NonEmpty, pc # "ready"
  PROVE  /\ ops \in Seq(Operation) /\ Len(ops) \in Nat /\ k \in 1 .. Len(ops)
         /\ ops[k].len \in Nat \ {0} /\ ops[k].kind \in {"read", "write"}
<1>1. /\ ops \in Seq(Operation) /\ ops \in Programs /\ Len(ops) \in Nat
      /\ k \in 1 .. Len(ops) /\ k \in DOMAIN ops
      /\ ops[k].len \in Nat /\ ops[k].kind \in {"read", "write"}
  BY InProgram
<1>2. ops[k].len > 0
  BY <1>1 DEF NonEmpty
<1>3. QED
  BY <1>1, <1>2

\* A new transaction finds the controller idle.
LEMMA DoneBegin == TypeInv /\ DoneInv /\ Begin => DoneInv'
<1> SUFFICES ASSUME TypeInv, DoneInv, Begin PROVE DoneInv'
  OBVIOUS
<1>1. /\ pc = "ready" /\ ops' \in Programs
      /\ pc' = IF ops' = << >> THEN "ready" ELSE "open"
      /\ result' = IF ops' = << >> THEN "Ok" ELSE "none"
      /\ k' = 1 /\ buffer' = << >> /\ wire' = << >>
      /\ UNCHANGED <<left, got, txf, rxf, addressed, clocked, held, abrt>>
  BY DEF Begin
<1>2. /\ ops' \in Seq(Operation)
      /\ Wired(ops', 0) = << >> /\ Fetched(ops', 0) = << >>
      /\ << >> \in Seq(Events) /\ Clean(<< >>)
  <2>1. ops' \in Seq(Operation)
    BY <1>1, I2cAssumption
  <2>2. << >> \in Seq(Events) /\ Len(<< >>) = 0
    OBVIOUS
  <2>3. Clean(<< >>)
    BY <2>2 DEF Clean
  <2>4. QED
    BY <2>1, <2>2, <2>3, Pieces
<1>3. ~Working' /\ ~held /\ ~abrt /\ rxf = << >>
  BY <1>1 DEF Working, DoneInv, Holding, Inward
<1>4. Queue'
  BY <1>3 DEF Queue
<1>5. Holding'
  BY <1>1, <1>3 DEF Holding
<1>6. Outward'
  <2>1. k' - 1 = 0
    BY <1>1
  <2>2. QED
    BY <1>1, <1>2, <1>3, <2>1 DEF Outward
<1>7. Inward'
  <2>1. k' - 1 = 0 /\ pc' # "wait"
    BY <1>1
  <2>2. QED
    BY <1>1, <1>2, <1>3, <2>1 DEF Inward
<1>8. Outcome'
  <2>1. CASE ops' = << >>
    <3>1. Len(ops') = 0 /\ << >> \o << >> = << >>
      BY <2>1
    <3>2. OnTheWire(ops') = << >> /\ ReadFrom(ops') = << >>
      BY <1>2, <2>1, <3>1, Pieces
    <3>3. QED
      BY <1>1, <1>2, <2>1, <3>2 DEF Outcome
  <2>2. CASE ops' # << >>
    BY <1>1, <2>2 DEF Outcome, Over
  <2>3. QED
    BY <2>1, <2>2
<1>9. QED
  BY <1>4, <1>5, <1>6, <1>7, <1>8 DEF DoneInv

\* A driver that opens has nothing in the FIFOs.
LEMMA DoneOpen == TypeInv /\ NonEmpty /\ DoneInv /\ Open => DoneInv'
<1> SUFFICES ASSUME TypeInv, NonEmpty, DoneInv, Open PROVE DoneInv'
  OBVIOUS
<1>1. /\ pc = "open" /\ txf' = << >> /\ rxf' = << >>
      /\ addressed' = FALSE /\ clocked' = 0 /\ left' = ops[k].len /\ got' = 0
      /\ pc' = IF ops[k].len = 0 THEN "wait" ELSE ops[k].kind
      /\ UNCHANGED <<ops, k, result, buffer, calls, held, abrt, wire>>
  BY DEF Open
<1>2. /\ ops \in Seq(Operation) /\ Len(ops) \in Nat /\ k \in 1 .. Len(ops)
      /\ ops[k].len \in Nat \ {0} /\ ops[k].kind \in {"read", "write"}
  BY <1>1, Whole
<1>3. /\ pc' \in {"read", "write"} /\ Working' /\ Len(<< >>) = 0
      /\ Wired(ops, k - 1) \in Seq(Events)
      /\ Fetched(ops, k - 1) \in Seq(Nat \X Nat)
  <2>1. k - 1 \in 0 .. Len(ops) /\ Len(<< >>) = 0
    BY <1>2
  <2>2. pc' \in {"read", "write"} /\ Working'
    BY <1>1, <1>2 DEF Working
  <2>3. QED
    BY <1>2, <2>1, <2>2, Pieces
<1>4. Queue'
  BY <1>1, <1>2, <1>3 DEF Queue, DoneInv, Holding
<1>5. Holding'
  BY <1>1, <1>2, <1>3 DEF Holding, DoneInv, Ended, Complete
<1>6. Outward'
  <2>1. InProgress' = << >> \o << >>
    BY <1>1 DEF InProgress, Ended, Complete
  <2>2. Wired(ops, k - 1) \o (<< >> \o << >>) = Wired(ops, k - 1)
    BY <1>3, ConcatEmptySeq
  <2>3. QED
    BY <1>1, <1>3, <2>1, <2>2 DEF Outward, DoneInv, Holding
<1>7. Inward'
  <2>1. Stored(k, 0) = << >>
    BY StoredMore
  <2>2. Fetched(ops, k - 1) \o << >> = Fetched(ops, k - 1)
    BY <1>3, ConcatEmptySeq
  <2>3. QED
    BY <1>1, <1>3, <2>1, <2>2 DEF Inward, DoneInv
<1>8. Outcome'
  BY <1>3 DEF Outcome, Over
<1>9. QED
  BY <1>4, <1>5, <1>6, <1>7, <1>8 DEF DoneInv

\* A command is pushed behind the ones before it.
LEMMA DonePush ==
  TypeInv /\ NonEmpty /\ DoneInv /\ (PushWrite \/ PushRead) => DoneInv'
<1> SUFFICES ASSUME TypeInv, NonEmpty, DoneInv, PushWrite \/ PushRead
             PROVE  DoneInv'
  OBVIOUS
<1>1. /\ pc \in {"write", "read"}
      /\ txf' = IF abrt THEN txf ELSE Append(txf, Command)
      /\ left' = left - 1
      /\ pc = "write" => pc' = IF left = 1 THEN "wait" ELSE "write"
      /\ pc = "read" => pc' = "drain"
      /\ UNCHANGED <<ops, k, got, result, buffer, calls>>
      /\ UNCHANGED <<rxf, addressed, clocked, held, abrt, wire>>
  BY DEF PushWrite, PushRead, Push
<1>2. /\ Len(ops) \in Nat /\ k \in 1 .. Len(ops) /\ ops[k].len \in Nat \ {0}
  BY <1>1, Whole
<1>3. /\ Working /\ Working' /\ left \in 1 .. ops[k].len
      /\ (pc = "write" => ~Reading) /\ (pc = "read" => Reading)
      /\ Reading' = Reading /\ clocked \in Nat /\ abrt \in BOOLEAN
  BY <1>1 DEF TypeInv, TypeOK, Places, Working, Reading
<1>4. Queue'
  <2>1. CASE abrt
    BY <1>1, <1>3, <2>1 DEF DoneInv, Queue
  <2>2. CASE ~abrt
    <3>1. txf \in Seq(Commands) /\ Len(txf) \in Nat
      BY DEF TypeInv, TypeOK
    <3>2. /\ Len(txf') = Len(txf) + 1 /\ txf'[Len(txf) + 1] = Command
          /\ \A j \in 1 .. Len(txf) : txf'[j] = txf[j]
      BY <1>1, <2>2, <3>1
    <3>3. /\ Len(txf) = ops[k].len - left - clocked
          /\ \A j \in 1 .. Len(txf) : txf[j] = CommandFor(ops, k, clocked + j)
          /\ ~addressed => clocked = 0
      BY <1>3, <2>2 DEF DoneInv, Queue
    <3>4. Command = CommandFor(ops, k, clocked + (Len(txf) + 1))
      <4>1. clocked + (Len(txf) + 1) = ops[k].len - left + 1
        BY <1>2, <1>3, <3>3
      <4>2. (left = 1 /\ ~Nostop) <=>
              (ops[k].len - left + 1 = ops[k].len /\ k = Len(ops))
        BY <1>2, <1>3 DEF Nostop
      <4>3. QED
        BY <4>1, <4>2 DEF Command, CommandFor
    <3>5. \A j \in 1 .. Len(txf') : txf'[j] = CommandFor(ops, k, clocked + j)
      <4>1. \A j \in 1 .. Len(txf') : j \in 1 .. Len(txf) \/ j = Len(txf) + 1
        BY <3>1, <3>2
      <4>2. QED
        BY <3>2, <3>3, <3>4, <4>1
    <3>6. Len(txf') = ops[k].len - left' - clocked
      BY <1>1, <1>2, <1>3, <3>2, <3>3
    <3>7. QED
      BY <1>1, <2>2, <3>3, <3>5, <3>6 DEF Queue
  <2>3. QED
    BY <1>3, <2>1, <2>2
<1>5. Holding'
  BY <1>1, <1>3 DEF Holding, DoneInv, Ended, Complete, Working
<1>6. Outward'
  BY <1>1, <1>3 DEF Outward, DoneInv, InProgress, Ended, Complete, Working
<1>7. Inward'
  BY <1>1, <1>3 DEF Inward, DoneInv, Working
<1>8. Outcome'
  BY <1>1 DEF Outcome, Over
<1>9. QED
  BY <1>4, <1>5, <1>6, <1>7, <1>8 DEF DoneInv

\* The byte popped is the next of the operation.
LEMMA DonePop == TypeInv /\ NonEmpty /\ DoneInv /\ Pop => DoneInv'
<1> SUFFICES ASSUME TypeInv, NonEmpty, DoneInv, Pop PROVE DoneInv'
  OBVIOUS
<1>1. /\ pc = "drain" /\ rxf # << >> /\ rxf' = Tail(rxf)
      /\ buffer' = Append(buffer, Head(rxf))
      /\ got' = got + 1
      /\ pc' = IF got + 1 = ops[k].len THEN "wait" ELSE "drain"
      /\ UNCHANGED <<ops, k, left, result, calls>>
      /\ UNCHANGED <<txf, addressed, clocked, held, abrt, wire>>
  BY DEF Pop, Rfne
<1>2. /\ ops \in Seq(Operation) /\ Len(ops) \in Nat /\ k \in 1 .. Len(ops)
      /\ ops[k].len \in Nat \ {0}
  BY <1>1, Whole
<1>3. /\ Working /\ Working' /\ Reading /\ Reading'
      /\ got \in Nat /\ clocked \in Nat /\ rxf \in Seq(Nat \X Nat)
  BY <1>1 DEF TypeInv, TypeOK, Places, Working, Reading
<1>4. Queue'
  BY <1>1, <1>3 DEF Queue, DoneInv
<1>5. Holding'
  BY <1>1, <1>3 DEF Holding, DoneInv, Ended, Complete
<1>6. Outward'
  BY <1>1, <1>3 DEF Outward, DoneInv, InProgress, Ended, Complete
<1>7. Inward'
  <2>1. /\ Len(rxf) \in Nat \ {0} /\ Len(Tail(rxf)) = Len(rxf) - 1
        /\ \A i \in 1 .. Len(Tail(rxf)) : Tail(rxf)[i] = rxf[i + 1]
        /\ Head(rxf) = rxf[1]
    BY <1>1, <1>3
  <2>2. got + Len(rxf) <= clocked
    BY <1>3 DEF DoneInv, Inward
  <2>3. ASSUME got + 1 + Len(Tail(rxf)) = clocked
        PROVE  /\ \A i \in 1 .. Len(Tail(rxf)) :
                    Tail(rxf)[i] = <<k, got + 1 + i>>
               /\ buffer' = Fetched(ops, k - 1) \o Stored(k, got + 1)
    <3>1. got + Len(rxf) = clocked
      <4>1. \A n, m \in Int : n = m - 1 => got + 1 + n = got + m
        BY <1>3
      <4>2. Len(Tail(rxf)) \in Int /\ Len(rxf) \in Int
        BY <2>1
      <4>3. QED
        BY <2>1, <2>3, <4>1, <4>2
    <3>2. /\ \A i \in 1 .. Len(rxf) : rxf[i] = <<k, got + i>>
          /\ buffer = Fetched(ops, k - 1) \o Stored(k, got)
      BY <1>3, <3>1 DEF DoneInv, Inward
    <3>3. ASSUME NEW i \in 1 .. Len(Tail(rxf))
          PROVE  Tail(rxf)[i] = <<k, got + 1 + i>>
      <4>1. i + 1 \in 1 .. Len(rxf) /\ got + (i + 1) = got + 1 + i
        BY <1>3, <2>1
      <4>2. QED
        BY <2>1, <3>2, <4>1
    <3>4. Head(rxf) = <<k, got + 1>>
      BY <2>1, <3>2
    <3>5. Fetched(ops, k - 1) \in Seq(Nat \X Nat)
      <4>1. k - 1 \in 0 .. Len(ops)
        BY <1>2
      <4>2. QED
        BY <1>2, <4>1, Pieces
    <3>6. Stored(k, got) \in Seq(Nat \X Nat) /\ <<k, got + 1>> \in Nat \X Nat
      <4>1. \A n \in 1 .. got : <<k, n>> \in Nat \X Nat
        BY <1>2, <1>3
      <4>2. QED
        BY <1>2, <1>3, <4>1 DEF Stored
    <3>7. Append(Fetched(ops, k - 1) \o Stored(k, got), <<k, got + 1>>)
            = Fetched(ops, k - 1) \o (Stored(k, got) \o << <<k, got + 1>> >>)
      <4> DEFINE stored == Stored(k, got)
                 before == Fetched(ops, k - 1)
                 byte == <<k, got + 1>>
                 Bytes == Nat \X Nat
      <4>1. stored \in Seq(Bytes) /\ before \in Seq(Bytes) /\ byte \in Bytes
        BY <3>5, <3>6
      <4> HIDE DEF stored, before, byte, Bytes
      <4>2. before \o stored \in Seq(Bytes) /\ <<byte>> \in Seq(Bytes)
        BY <4>1, ConcatProperties
      <4>3. Append(before \o stored, byte) = (before \o stored) \o <<byte>>
        BY <4>1, <4>2, AppendIsConcat
      <4>4. (before \o stored) \o <<byte>> = before \o (stored \o <<byte>>)
        BY <4>1, <4>2, ConcatAssociative
      <4>5. QED
        BY <4>3, <4>4 DEF stored, before, byte
    <3>8. Stored(k, got) \o << <<k, got + 1>> >> = Stored(k, got + 1)
      BY <1>3, StoredMore
    <3>9. QED
      BY <1>1, <3>2, <3>3, <3>4, <3>7, <3>8
  <2>4. got + 1 + Len(Tail(rxf)) <= clocked
    BY <1>3, <2>1, <2>2
  <2>5. pc' = "wait" => got' = ops[k].len
    BY <1>1
  <2>6. QED
    BY <1>1, <1>3, <2>3, <2>4, <2>5 DEF Inward
<1>8. Outcome'
  BY <1>1 DEF Outcome, Over
<1>9. QED
  BY <1>4, <1>5, <1>6, <1>7, <1>8 DEF DoneInv

\* An empty RX FIFO sends the driver back to push.
LEMMA DoneNothing == TypeInv /\ DoneInv /\ NothingYet => DoneInv'
<1> SUFFICES ASSUME TypeInv, DoneInv, NothingYet PROVE DoneInv'
  OBVIOUS
<1>1. /\ pc = "drain" /\ pc' = "read"
      /\ UNCHANGED <<ops, k, left, got, result, buffer, calls, controller>>
  BY DEF NothingYet
<1>2. Working /\ Working' /\ Reading' = Reading /\ UNCHANGED controller
      /\ Ended' = Ended /\ InProgress' = InProgress
  BY <1>1 DEF Working, Reading, Ended, Complete, InProgress, controller
<1>3. Queue'
  BY <1>1, <1>2 DEF Queue, DoneInv, controller
<1>4. Holding'
  BY <1>1, <1>2 DEF Holding, DoneInv, controller
<1>5. Outward'
  BY <1>1, <1>2 DEF Outward, DoneInv, controller
<1>6. Inward'
  BY <1>1, <1>2 DEF Inward, DoneInv, controller
<1>7. Outcome'
  BY <1>1 DEF Outcome, Over
<1>8. QED
  BY <1>3, <1>4, <1>5, <1>6, <1>7 DEF DoneInv

\* When the driver returns and nothing was refused, its operation is complete.
LEMMA DoneFinish == TypeInv /\ NonEmpty /\ DoneInv /\ Finish => DoneInv'
<1> SUFFICES ASSUME TypeInv, NonEmpty, DoneInv, Finish PROVE DoneInv'
  OBVIOUS
<1> DEFINE len == ops[k].len
<1>1. /\ pc = "wait" /\ txf = << >> /\ k' = k + 1 /\ abrt' = FALSE
      /\ pc' = IF abrt \/ k = Len(ops) THEN "ready" ELSE "open"
      /\ result' = IF abrt THEN "Err"
                   ELSE IF k = Len(ops) THEN "Ok" ELSE result
      /\ UNCHANGED <<ops, left, got, buffer, calls>>
      /\ UNCHANGED <<txf, rxf, addressed, clocked, held, wire>>
  BY DEF Finish, Returned, Active
<1>2. /\ ops \in Seq(Operation) /\ Len(ops) \in Nat /\ k \in 1 .. Len(ops)
      /\ len \in Nat \ {0}
  BY <1>1, Whole
<1> HIDE DEF len
<1>3. /\ Working /\ ~Working' /\ pc' \in {"ready", "open"} /\ pc' # "wait"
      /\ got \in Nat /\ clocked \in Nat /\ rxf \in Seq(Nat \X Nat)
      /\ left \in 0 .. len /\ Len(rxf) \in Nat /\ abrt \in BOOLEAN
  BY <1>1 DEF TypeInv, TypeOK, Places, Working, len
<1>4. Reading => got = len /\ got + Len(rxf) <= clocked
  BY <1>1, <1>3 DEF DoneInv, Inward, len
<1>5. ~Reading => left = 0 /\ rxf = << >> /\ buffer = Fetched(ops, k - 1)
  BY <1>1, <1>3 DEF DoneInv, Inward
<1>6. wire \in Seq(Events)
  BY DEF DoneInv, Outward
<1>7. Queue'
  BY <1>3 DEF Queue
<1>8. CASE abrt
  <2>1. Nacked(wire) /\ ~held /\ (Reading => clocked = 0)
    BY <1>3, <1>8 DEF DoneInv, Outward, Holding, Queue
  <2>2. ~Reading
    BY <1>2, <1>3, <1>4, <2>1
  <2>3. pc' = "ready" /\ result' = "Err"
    BY <1>1, <1>8
  <2>4. Holding'
    BY <1>1, <1>3, <2>1, <2>3 DEF Holding
  <2>5. Outward'
    BY <1>1, <1>3, <1>6, <2>3 DEF Outward
  <2>6. Inward'
    BY <1>1, <1>3, <1>5, <2>2, <2>3 DEF Inward
  <2>7. Outcome'
    BY <1>1, <2>1, <2>3 DEF Outcome
  <2>8. QED
    BY <1>7, <2>4, <2>5, <2>6, <2>7 DEF DoneInv
<1>9. CASE ~abrt
  <2>1. /\ 0 = len - left - clocked /\ (~addressed => clocked = 0)
        /\ wire = Wired(ops, k - 1) \o InProgress /\ Clean(wire)
        /\ held <=> (addressed \/ k > 1) /\ ~Ended
    <3>1. Len(txf) = 0
      BY <1>1
    <3>2. QED
      BY <1>3, <1>9, <3>1 DEF DoneInv, Queue, Outward, Holding, len
  <2>2. clocked = len /\ addressed /\ (Reading => Len(rxf) = 0)
    <3>1. left = 0
      BY <1>2, <1>3, <1>4, <1>5, <2>1
    <3>2. QED
      BY <1>2, <1>3, <1>4, <2>1, <3>1
  <2>3. rxf = << >>
    BY <1>3, <1>5, <2>2, EmptySeq
  <2>4. Ended <=> k = Len(ops)
    BY <2>2 DEF Ended, Complete, len
  <2>5. buffer = Fetched(ops, k)
    <3>1. CASE Reading
      <4>1. buffer = Fetched(ops, k - 1) \o Stored(k, len)
        <5>1. got + Len(rxf) = clocked
          BY <1>3, <1>4, <2>2, <3>1
        <5>2. QED
          BY <1>3, <1>4, <3>1, <5>1 DEF DoneInv, Inward
      <4>2. QED
        BY <1>2, <3>1, <4>1, Pieces DEF Reading, len
    <3>2. CASE ~Reading
      <4>1. k - 1 \in 0 .. Len(ops)
        BY <1>2
      <4>2. Fetched(ops, k - 1) \o << >> = Fetched(ops, k - 1)
        BY <1>2, <4>1, Pieces, ConcatEmptySeq
      <4>3. QED
        BY <1>2, <1>5, <3>2, <4>2, Pieces DEF Reading
    <3>3. QED
      BY <3>1, <3>2
  <2> DEFINE piece == <<Started(k)>> \o Sent(ops, k, len)
             end == IF k = Len(ops) THEN <<Event("stop", k, len)>> ELSE << >>
  <2>6. InProgress = piece \o end
    BY <2>2, <2>4 DEF InProgress
  <2>7. piece \in Seq(Events) /\ end \in Seq(Events)
        /\ Wired(ops, k - 1) \in Seq(Events)
    <3>1. Started(k) \in Events /\ Event("stop", k, len) \in Events
      BY <1>2, EventTypes
    <3>2. Sent(ops, k, len) \in Seq(Events)
      <4>1. \A n \in 1 .. len : n \in Nat
        BY <1>2
      <4>2. \A n \in 1 .. len : Event(ops[k].kind, k, n) \in Events
        BY <1>2, <4>1, EventTypes
      <4>3. QED
        BY <1>2, <4>2 DEF Sent
    <3>3. <<Started(k)>> \in Seq(Events) /\ end \in Seq(Events)
      BY <3>1
    <3>4. k - 1 \in 0 .. Len(ops)
      BY <1>2
    <3>5. QED
      BY <1>2, <3>2, <3>3, <3>4, Pieces, ConcatProperties
  <2>8. Wired(ops, k) = Wired(ops, k - 1) \o piece
    BY <1>2, Pieces DEF len
  <2>9. wire = Wired(ops, k) \o end
    <3> HIDE DEF piece, end
    <3>1. (Wired(ops, k - 1) \o piece) \o end
            = Wired(ops, k - 1) \o (piece \o end)
      BY <2>7, ConcatAssociative
    <3>2. QED
      BY <2>1, <2>6, <2>8, <3>1
  <2>10. CASE k = Len(ops)
    <3>1. pc' = "ready" /\ result' = "Ok" /\ ~held
      BY <1>1, <1>9, <2>1, <2>4, <2>10
    <3>2. wire = OnTheWire(ops) /\ buffer = ReadFrom(ops)
      <4>1. ops # << >>
        BY <1>2
      <4>2. QED
        BY <1>2, <2>5, <2>9, <2>10, <4>1, Pieces DEF len
    <3>3. Holding'
      BY <1>1, <1>3, <3>1 DEF Holding
    <3>4. Outward'
      BY <1>1, <1>3, <1>6, <3>1 DEF Outward
    <3>5. Inward'
      BY <1>1, <1>3, <2>3, <3>1 DEF Inward
    <3>6. Outcome'
      BY <1>1, <2>1, <3>1, <3>2 DEF Outcome
    <3>7. QED
      BY <1>7, <3>3, <3>4, <3>5, <3>6 DEF DoneInv
  <2>11. CASE k # Len(ops)
    <3>1. pc' = "open" /\ held /\ k' > 1 /\ k' - 1 = k
      BY <1>1, <1>2, <1>9, <2>1, <2>2, <2>4, <2>11
    <3>2. wire = Wired(ops, k)
      <4>1. Wired(ops, k) \o << >> = Wired(ops, k)
        BY <1>2, Pieces, ConcatEmptySeq
      <4>2. QED
        BY <2>9, <2>11, <4>1
    <3>3. Holding'
      BY <1>1, <1>3, <3>1 DEF Holding
    <3>4. Outward'
      BY <1>1, <1>3, <1>6, <2>1, <3>1, <3>2 DEF Outward
    <3>5. Inward'
      BY <1>1, <1>3, <2>3, <2>5, <3>1 DEF Inward
    <3>6. Outcome'
      BY <3>1 DEF Outcome, Over
    <3>7. QED
      BY <1>7, <3>3, <3>4, <3>5, <3>6 DEF DoneInv
  <2>12. QED
    BY <2>10, <2>11
<1>10. QED
  BY <1>3, <1>8, <1>9

-----------------------------------------------------------------------------
(* The controller's steps.                                                 *)

\* The command at the head is the next one of the operation in progress.
LEMMA AtHead ==
  ASSUME TypeInv, NonEmpty, DoneInv, Active
  PROVE  /\ Working /\ ~abrt /\ ops \in Seq(Operation) /\ Len(ops) \in Nat
         /\ k \in 1 .. Len(ops) /\ clocked \in Nat /\ clocked < ops[k].len
         /\ ops[k].len \in Nat /\ ops[k].kind \in {"read", "write"}
         /\ left \in Nat
         /\ Head(txf) = CommandFor(ops, k, clocked + 1)
         /\ Len(txf) \in Nat \ {0} /\ Len(Tail(txf)) = Len(txf) - 1
         /\ Len(txf) = ops[k].len - left - clocked
         /\ \A j \in 1 .. Len(Tail(txf)) :
              Tail(txf)[j] = CommandFor(ops, k, clocked + 1 + j)
         /\ ~addressed => clocked = 0
         /\ held <=> addressed \/ k > 1
         /\ ~Ended /\ Clean(wire) /\ wire \in Seq(Events)
         /\ Wired(ops, k - 1) \in Seq(Events)
         /\ wire = Wired(ops, k - 1) \o
              (IF addressed THEN <<Started(k)>> \o Sent(ops, k, clocked)
               ELSE << >>)
<1>1. /\ txf # << >> /\ txf \in Seq(Commands) /\ Working /\ clocked \in Nat
  BY DEF Active, TypeInv, TypeOK, Places, Working
<1>2. /\ ops \in Seq(Operation) /\ Len(ops) \in Nat /\ k \in 1 .. Len(ops)
      /\ ops[k].len \in Nat \ {0} /\ ops[k].kind \in {"read", "write"}
  BY <1>1, Whole DEF Working
<1>3. ~abrt
  BY <1>1 DEF DoneInv, Queue
<1>4. /\ Len(txf) = ops[k].len - left - clocked
      /\ \A j \in 1 .. Len(txf) : txf[j] = CommandFor(ops, k, clocked + j)
      /\ ~addressed => clocked = 0
  BY <1>1, <1>3 DEF DoneInv, Queue
<1>5. left \in 0 .. ops[k].len
  BY <1>1 DEF TypeInv, Places
<1>6. /\ Len(txf) \in Nat \ {0} /\ Len(Tail(txf)) = Len(txf) - 1
      /\ Head(txf) = txf[1]
      /\ \A j \in 1 .. Len(Tail(txf)) : Tail(txf)[j] = txf[j + 1]
  BY <1>1
<1>7. clocked < ops[k].len
  BY <1>1, <1>2, <1>4, <1>5, <1>6
<1>8. Head(txf) = CommandFor(ops, k, clocked + 1)
  BY <1>4, <1>6
<1>9. ASSUME NEW j \in 1 .. Len(Tail(txf))
      PROVE  Tail(txf)[j] = CommandFor(ops, k, clocked + 1 + j)
  <2>1. j + 1 \in 1 .. Len(txf) /\ clocked + (j + 1) = clocked + 1 + j
    BY <1>1, <1>6
  <2>2. QED
    BY <1>4, <1>6, <2>1
<1>10. ~Ended
  BY <1>1, <1>2, <1>7 DEF Ended, Complete
<1>11. held <=> addressed \/ k > 1
  BY <1>1, <1>3, <1>10 DEF DoneInv, Holding
<1>12. Clean(wire) /\ wire \in Seq(Events)
       /\ wire = Wired(ops, k - 1) \o InProgress
  BY <1>1, <1>3 DEF DoneInv, Outward
<1>13. Wired(ops, k - 1) \in Seq(Events)
  <2>1. k - 1 \in 0 .. Len(ops)
    BY <1>2
  <2>2. QED
    BY <1>2, <2>1, Pieces
<1> DEFINE part == IF addressed THEN <<Started(k)>> \o Sent(ops, k, clocked)
                   ELSE << >>
<1>14. InProgress = part \o << >>
  BY <1>10 DEF InProgress
<1>15. part \in Seq(Events)
  BY <1>1, <1>2, PartTyped
<1>16. InProgress = part
  <2> HIDE DEF part
  <2>1. QED
    BY <1>14, <1>15, ConcatEmptySeq
<1>17. left \in Nat
  BY <1>5
<1>18. QED
  BY <1>1, <1>2, <1>3, <1>4, <1>6, <1>7, <1>8, <1>9, <1>10, <1>11, <1>12,
     <1>13, <1>16, <1>17

\* The controller sends the address.
LEMMA DoneAddress == TypeInv /\ NonEmpty /\ DoneInv /\ Address => DoneInv'
<1> SUFFICES ASSUME TypeInv, NonEmpty, DoneInv, Address PROVE DoneInv'
  OBVIOUS
<1>1. /\ Active /\ ~addressed /\ addressed' = TRUE /\ held' = TRUE
      /\ UNCHANGED <<clocked, txf, rxf, abrt, cpu>>
      /\ wire' = Append(wire, Event(IF held THEN "restart" ELSE "start",
                                    Head(txf).op, clocked))
  BY DEF Address, Said
<1>2. /\ Working /\ ~abrt /\ ops \in Seq(Operation) /\ Len(ops) \in Nat
      /\ k \in 1 .. Len(ops) /\ ops[k].len \in Nat /\ clocked < ops[k].len
      /\ Head(txf) = CommandFor(ops, k, clocked + 1) /\ clocked = 0
      /\ held <=> k > 1
      /\ Clean(wire) /\ wire \in Seq(Events)
      /\ Wired(ops, k - 1) \in Seq(Events) /\ wire = Wired(ops, k - 1) \o << >>
  BY <1>1, AtHead
<1>3. Working' /\ Reading' = Reading /\ pc' = pc /\ pc \notin {"ready", "open"}
      /\ UNCHANGED <<ops, k, left, got, result, buffer, calls>>
  BY <1>1, <1>2 DEF Working, Reading, cpu
<1>4. ~Ended'
  BY <1>1, <1>2, <1>3 DEF Ended, Complete
<1>5. wire' = Append(wire, Started(k))
  <2>1. Head(txf).op = k
    BY <1>2 DEF CommandFor
  <2>2. QED
    BY <1>1, <1>2, <2>1 DEF Started
<1>6. wire' = Wired(ops, k - 1) \o InProgress'
  <2>1. InProgress' = (<<Started(k)>> \o << >>) \o << >>
    <3>1. Sent(ops, k, 0) = << >>
      BY SentMore
    <3>2. QED
      BY <1>1, <1>2, <1>3, <1>4, <3>1 DEF InProgress
  <2>2. wire = Wired(ops, k - 1)
    BY <1>2, ConcatEmptySeq
  <2>3. Started(k) \in Events /\ Started(k).what # "nack"
    BY <1>2, EventTypes
  <2>4. Append(Wired(ops, k - 1), Started(k)) = Wired(ops, k - 1) \o <<Started(k)>>
    BY <1>2, <2>3, AppendIsConcat
  <2>5. (<<Started(k)>> \o << >>) \o << >> = <<Started(k)>>
    BY <2>3
  <2>6. QED
    BY <1>5, <2>1, <2>2, <2>4, <2>5
<1>7. Clean(wire') /\ wire' \in Seq(Events)
  <2>1. Started(k) \in Events /\ Started(k).what # "nack"
    BY <1>2, EventTypes
  <2>2. QED
    BY <1>2, <1>5, <2>1, CleanMore, AppendProperties
<1>8. Queue'
  BY <1>1, <1>2, <1>3 DEF Queue, DoneInv
<1>9. Holding'
  BY <1>1, <1>2, <1>3, <1>4 DEF Holding
<1>10. Outward'
  BY <1>1, <1>2, <1>3, <1>6, <1>7 DEF Outward
<1>11. Inward'
  BY <1>1, <1>2, <1>3 DEF Inward, DoneInv
<1>12. Outcome'
  BY <1>3 DEF Outcome, Over
<1>13. QED
  BY <1>8, <1>9, <1>10, <1>11, <1>12 DEF DoneInv

\* The target refuses its address or a byte written.
LEMMA DoneRefused ==
  TypeInv /\ NonEmpty /\ DoneInv /\ (AddressRefused \/ WriteRefused)
    => DoneInv'
<1> SUFFICES ASSUME TypeInv, NonEmpty, DoneInv, AddressRefused \/ WriteRefused
             PROVE  DoneInv'
  OBVIOUS
<1>1. /\ Active /\ (addressed => ~Head(txf).read) /\ addressed' = TRUE
      /\ txf' = << >> /\ abrt' = TRUE /\ held' = FALSE
      /\ UNCHANGED <<clocked, rxf, cpu>>
      /\ wire' = Append(wire, Event("nack", Head(txf).op, clocked))
  <2>1. addressed \in BOOLEAN
    BY DEF TypeInv, TypeOK
  <2>2. QED
    BY <2>1 DEF AddressRefused, WriteRefused, Abort, Said
<1>2. /\ Working /\ ops \in Seq(Operation) /\ Len(ops) \in Nat
      /\ k \in 1 .. Len(ops) /\ clocked \in Nat
      /\ Head(txf) = CommandFor(ops, k, clocked + 1)
      /\ ~addressed => clocked = 0
      /\ Clean(wire) /\ wire \in Seq(Events)
  BY <1>1, AtHead
<1>3. Head(txf).op = k /\ Head(txf).read = Reading
  BY <1>2 DEF CommandFor, Reading
<1>4. Working' /\ Reading' = Reading /\ pc' = pc /\ pc \notin {"ready", "open"}
      /\ UNCHANGED <<ops, k, left, got, result, buffer, calls>>
  BY <1>1, <1>2 DEF Working, Reading, cpu
<1>5. Nacked(wire') /\ wire' \in Seq(Events)
  <2>1. Event("nack", k, clocked) \in Events
        /\ Event("nack", k, clocked).what = "nack"
    BY <1>2, EventTypes
  <2>2. QED
    BY <1>1, <1>2, <1>3, <2>1, CleanMore, AppendProperties
<1>6. Reading => clocked = 0
  BY <1>1, <1>2, <1>3
<1>7. Queue'
  BY <1>1, <1>4, <1>6 DEF Queue
<1>8. Holding'
  BY <1>1, <1>4 DEF Holding
<1>9. Outward'
  BY <1>1, <1>4, <1>5 DEF Outward
<1>10. Inward'
  BY <1>1, <1>2, <1>4 DEF Inward, DoneInv
<1>11. Outcome'
  BY <1>4 DEF Outcome, Over
<1>12. QED
  BY <1>7, <1>8, <1>9, <1>10, <1>11 DEF DoneInv

\* A byte is clocked, and with the last one the STOP.
LEMMA DoneClock ==
  ASSUME TypeInv, NonEmpty, DoneInv, Clock, UNCHANGED <<addressed, abrt, cpu>>
  PROVE  Queue' /\ Holding' /\ Outward' /\ Outcome'
<1>1. /\ Active /\ addressed /\ clocked' = clocked + 1
      /\ held' = ~Head(txf).stop /\ txf' = Tail(txf)
      /\ wire' = Append(wire, Event(IF Head(txf).read THEN "read" ELSE "write",
                                    Head(txf).op, Head(txf).n))
                 \o (IF Head(txf).stop
                     THEN <<Event("stop", Head(txf).op, Head(txf).n)>>
                     ELSE << >>)
  BY DEF Clock
<1>2. /\ Working /\ ~abrt /\ ops \in Seq(Operation) /\ Len(ops) \in Nat
      /\ k \in 1 .. Len(ops) /\ clocked \in Nat /\ clocked < ops[k].len
      /\ ops[k].len \in Nat /\ ops[k].kind \in {"read", "write"}
      /\ left \in Nat
      /\ Head(txf) = CommandFor(ops, k, clocked + 1)
      /\ Len(txf) \in Nat \ {0} /\ Len(Tail(txf)) = Len(txf) - 1
      /\ Len(txf) = ops[k].len - left - clocked
      /\ \A j \in 1 .. Len(Tail(txf)) :
           Tail(txf)[j] = CommandFor(ops, k, clocked + 1 + j)
      /\ Clean(wire) /\ wire \in Seq(Events)
      /\ Wired(ops, k - 1) \in Seq(Events)
      /\ wire = Wired(ops, k - 1) \o (<<Started(k)>> \o Sent(ops, k, clocked))
  BY <1>1, AtHead
<1>3. Working' /\ Reading' = Reading /\ pc' = pc /\ pc \notin {"ready", "open"}
      /\ UNCHANGED <<ops, k, left, got, result, buffer, calls, addressed, abrt>>
  BY <1>2 DEF Working, Reading, cpu
<1> DEFINE m == clocked + 1
           last == m = ops[k].len /\ k = Len(ops)
           byte == Event(ops[k].kind, k, m)
           stop == Event("stop", k, m)
           end == IF last THEN <<stop>> ELSE << >>
<1>4. /\ Head(txf).stop <=> last
      /\ wire' = Append(wire, byte) \o end
  <2>1. /\ Head(txf).op = k /\ Head(txf).n = m
        /\ Head(txf).read <=> ops[k].kind = "read"
        /\ Head(txf).stop <=> last
    <3>1. Head(txf) = CommandFor(ops, k, m)
      BY <1>2
    <3> HIDE DEF m
    <3>2. QED
      BY <3>1, CommandFields
  <2>2. Event(IF Head(txf).read THEN "read" ELSE "write", Head(txf).op,
              Head(txf).n) = byte
    BY <1>2, <2>1
  <2>3. (IF Head(txf).stop THEN <<Event("stop", Head(txf).op, Head(txf).n)>>
         ELSE << >>) = end
    BY <2>1
  <2> HIDE DEF byte, end, last
  <2>4. QED
    BY <1>1, <2>1, <2>2, <2>3
<1>5. Ended' <=> last
  BY <1>1, <1>3 DEF Ended, Complete
<1>6. Queue'
  <2>1. Len(txf') = ops[k].len - left - m
    <3>1. \A a, b, c, d \in Int : a = b - c - d => a - 1 = b - c - (d + 1)
      OBVIOUS
    <3>2. Len(txf) \in Int /\ ops[k].len \in Int /\ left \in Int
          /\ clocked \in Int /\ Len(txf) = ops[k].len - left - clocked
          /\ Len(txf') = Len(txf) - 1
      BY <1>1, <1>2
    <3>3. QED
      BY <3>1, <3>2
  <2>2. \A j \in 1 .. Len(txf') : txf'[j] = CommandFor(ops, k, clocked' + j)
    BY <1>1, <1>2
  <2>3. ~abrt' /\ addressed' /\ left' = left /\ ops' = ops /\ k' = k
    BY <1>1, <1>2, <1>3
  <2>4. QED
    BY <1>1, <1>3, <2>1, <2>2, <2>3 DEF Queue
<1>7. Holding'
  <2> HIDE DEF last
  <2>1. held' <=> ~Ended'
    BY <1>1, <1>4, <1>5, Zenon
  <2>2. QED
    BY <1>1, <1>2, <1>3, <2>1 DEF Holding
<1>m. m \in Nat
  BY <1>2
<1>8. /\ m \in Nat /\ byte \in Events /\ byte.what # "nack"
      /\ stop \in Events /\ stop.what # "nack" /\ Started(k) \in Events
  <2> HIDE DEF m
  <2>1. QED
    BY <1>2, <1>m, EventTypes
<1> HIDE DEF byte, stop, last
<1>9. Append(wire, byte) = Wired(ops, k - 1)
                           \o (<<Started(k)>> \o Sent(ops, k, m))
  <2> DEFINE sent == Sent(ops, k, clocked)
             start == <<Started(k)>>
             before == Wired(ops, k - 1)
  <2>1. sent \in Seq(Events) /\ start \in Seq(Events)
        /\ start \o sent \in Seq(Events) /\ before \in Seq(Events)
    <3>1. sent \in Seq(Events) /\ start \in Seq(Events)
      BY <1>2, <1>8, SentTyped
    <3>2. QED
      BY <1>2, <3>1, ConcatProperties
  <2>2. sent \o <<byte>> = Sent(ops, k, m)
    BY <1>2, SentMore DEF byte
  <2> HIDE DEF sent, start, before
  <2>3. (start \o sent) \o <<byte>> = start \o (sent \o <<byte>>)
        /\ <<byte>> \in Seq(Events)
    BY <1>8, <2>1, ConcatAssociative
  <2>4. (before \o (start \o sent)) \o <<byte>>
          = before \o ((start \o sent) \o <<byte>>)
    BY <2>1, <2>3, ConcatAssociative
  <2>5. wire = before \o (start \o sent)
    BY <1>2 DEF before, start, sent
  <2>6. Append(wire, byte) = wire \o <<byte>>
    BY <1>2, <1>8, AppendIsConcat
  <2>7. QED
    BY <2>2, <2>3, <2>4, <2>5, <2>6 DEF before, start
<1>10. wire' = Wired(ops, k - 1) \o InProgress'
  <2>1. InProgress' = (<<Started(k)>> \o Sent(ops, k, m)) \o end
    BY <1>1, <1>3, <1>5 DEF InProgress, stop
  <2> DEFINE piece == <<Started(k)>> \o Sent(ops, k, m)
             before == Wired(ops, k - 1)
  <2>2. piece \in Seq(Events) /\ end \in Seq(Events) /\ before \in Seq(Events)
    <3>1. Sent(ops, k, m) \in Seq(Events) /\ <<Started(k)>> \in Seq(Events)
          /\ end \in Seq(Events)
      BY <1>2, <1>8, SentTyped
    <3>2. QED
      BY <1>2, <3>1, ConcatProperties
  <2>3. wire' = (before \o piece) \o end
    BY <1>4, <1>9
  <2>4. InProgress' = piece \o end
    BY <2>1
  <2> HIDE DEF piece, before, end
  <2>5. (before \o piece) \o end = before \o (piece \o end)
    BY <2>2, ConcatAssociative
  <2>6. QED
    BY <2>3, <2>4, <2>5 DEF before
<1>11. Clean(wire') /\ wire' \in Seq(Events)
  <2>1. Append(wire, byte) \in Seq(Events) /\ Clean(Append(wire, byte))
    BY <1>2, <1>8, CleanMore, AppendProperties
  <2>2. CASE last
    <3>1. wire' = Append(Append(wire, byte), stop)
      BY <1>4, <1>8, <2>1, <2>2, AppendIsConcat
    <3>2. QED
      BY <1>8, <2>1, <3>1, CleanMore, AppendProperties
  <2>3. CASE ~last
    BY <1>4, <2>1, <2>3, ConcatEmptySeq
  <2>4. QED
    BY <2>2, <2>3
<1>12. Outward'
  BY <1>2, <1>3, <1>10, <1>11 DEF Outward
<1>13. Outcome'
  BY <1>3 DEF Outcome, Over
<1>14. QED
  BY <1>6, <1>7, <1>12, <1>13

\* A byte written, or one that came back and was kept or lost.
LEMMA DoneByte ==
  TypeInv /\ NonEmpty /\ DoneInv /\ (WriteByte \/ ReadByte) => DoneInv'
<1> SUFFICES ASSUME TypeInv, NonEmpty, DoneInv, WriteByte \/ ReadByte
             PROVE  DoneInv'
  OBVIOUS
<1>1. /\ Clock /\ Active /\ clocked' = clocked + 1
      /\ UNCHANGED <<addressed, abrt, cpu>>
      /\ ~Head(txf).read => rxf' = rxf
      /\ Head(txf).read =>
           rxf' \in {rxf, Append(rxf, <<Head(txf).op, clocked + 1>>)}
  BY DEF WriteByte, ReadByte, Clock
<1>2. Queue' /\ Holding' /\ Outward' /\ Outcome'
  BY <1>1, DoneClock
<1>3. /\ Working /\ clocked \in Nat /\ k \in 1 .. Len(ops) /\ Len(ops) \in Nat
      /\ Head(txf) = CommandFor(ops, k, clocked + 1)
  BY <1>1, AtHead
<1>4. Head(txf).op = k /\ (Head(txf).read <=> Reading)
  BY <1>3, CommandFields DEF Reading
<1>5. /\ Working' /\ Reading' = Reading
      /\ UNCHANGED <<ops, k, left, got, pc, result, buffer, calls>>
      /\ pc \notin {"ready", "open"}
  BY <1>1, <1>3 DEF Working, Reading, cpu
<1>6. CASE ~Reading
  <2>1. rxf' = rxf
    BY <1>1, <1>4, <1>6
  <2>2. Inward'
    BY <1>3, <1>5, <1>6, <2>1 DEF Inward, DoneInv
  <2>3. QED
    BY <1>2, <2>2 DEF DoneInv
<1>7. CASE Reading
  <2>1. /\ rxf \in Seq(Nat \X Nat) /\ Len(rxf) \in Nat
        /\ got \in Nat /\ <<k, clocked + 1>> \in Nat \X Nat
    BY <1>3 DEF TypeInv, TypeOK
  <2>2. /\ got + Len(rxf) <= clocked
        /\ got + Len(rxf) = clocked =>
             /\ \A i \in 1 .. Len(rxf) : rxf[i] = <<k, got + i>>
             /\ buffer = Fetched(ops, k - 1) \o Stored(k, got)
    BY <1>3, <1>7 DEF DoneInv, Inward
  <2>3. CASE rxf' = rxf
    <3>1. got + Len(rxf') <= clocked' /\ got + Len(rxf') # clocked'
      BY <1>1, <1>3, <2>1, <2>2, <2>3
    <3>2. QED
      BY <1>2, <1>5, <1>7, <3>1 DEF Inward, DoneInv
  <2>4. CASE rxf' = Append(rxf, <<k, clocked + 1>>)
    <3>1. /\ Len(rxf') = Len(rxf) + 1
          /\ \A i \in 1 .. Len(rxf) : rxf'[i] = rxf[i]
          /\ rxf'[Len(rxf) + 1] = <<k, clocked + 1>>
      BY <2>1, <2>4
    <3>2. /\ got + Len(rxf') <= clocked'
          /\ got + Len(rxf') = clocked' => got + Len(rxf) = clocked
      <4>1. \A a, b, c \in Int : (a + b <= c => a + (b + 1) <= c + 1)
                                 /\ (a + (b + 1) = c + 1 => a + b = c)
        OBVIOUS
      <4>2. got \in Int /\ Len(rxf) \in Int /\ clocked \in Int
        BY <1>3, <2>1
      <4>3. got + Len(rxf) <= clocked
        BY <2>2
      <4>4. QED
        BY <1>1, <3>1, <4>1, <4>2, <4>3
    <3>3. ASSUME got + Len(rxf) = clocked, NEW i \in 1 .. Len(rxf')
          PROVE  rxf'[i] = <<k, got + i>>
      <4>1. CASE i \in 1 .. Len(rxf)
        BY <2>2, <3>1, <3>3, <4>1
      <4>2. CASE i = Len(rxf) + 1
        <5>1. got + i = clocked + 1
          BY <1>3, <2>1, <3>3, <4>2
        <5>2. QED
          BY <3>1, <4>2, <5>1
      <4>3. QED
        BY <2>1, <3>1, <4>1, <4>2
    <3>4. QED
      BY <1>2, <1>5, <1>7, <2>2, <3>2, <3>3 DEF Inward, DoneInv
  <2>5. Inward'
    BY <1>1, <1>4, <1>7, <2>3, <2>4 DEF DoneInv
  <2>6. QED
    BY <1>2, <2>5 DEF DoneInv
<1>8. QED
  BY <1>2, <1>6, <1>7 DEF DoneInv

\* The strengthening that says what has been sent, stored and refused.
LEMMA DoneInvariance ==
  ASSUME NonEmpty
  PROVE  Spec => []DoneInv
<1>1. Init => DoneInv
  <2> SUFFICES ASSUME Init PROVE DoneInv
    OBVIOUS
  <2>1. << >> \in Seq(Events)
    OBVIOUS
  <2>2. ~Working /\ ~Over
    BY DEF Init, Working, Over
  <2>3. QED
    BY <2>1, <2>2 DEF Init, DoneInv, Queue, Holding, Outward, Inward, Outcome
<1>2. TypeInv /\ DoneInv /\ UNCHANGED vars => DoneInv'
  <2> SUFFICES ASSUME DoneInv, UNCHANGED vars PROVE DoneInv'
    OBVIOUS
  <2>1. /\ UNCHANGED cpu /\ UNCHANGED controller
        /\ Working' = Working /\ Reading' = Reading /\ Ended' = Ended
        /\ InProgress' = InProgress /\ Over' = Over
    BY DEF vars, cpu, controller, Working, Reading, Ended, Complete,
       InProgress, Over
  <2>2. QED
    BY <2>1 DEF DoneInv, Queue, Holding, Outward, Inward, Outcome, cpu,
       controller
<1>3. TypeInv /\ DoneInv /\ [Next]_vars => DoneInv'
  BY <1>2, DoneBegin, DoneOpen, DonePush, DonePop, DoneNothing, DoneFinish,
     DoneAddress, DoneRefused, DoneByte DEF Next, Cpu, Controller
<1>4. QED
  BY <1>1, <1>3, TypeInvariance, PTL DEF Spec

\* When transaction returns Ok, every operation went over the bus whole and
\* in order and every byte is in the caller's buffers, for any programs of
\* non-empty operations, any FIFO depth and any target, also when the CPU is
\* away while the RX FIFO overflows.
THEOREM OkIsDone ==
  ASSUME NonEmpty
  PROVE  Spec => []OkMeansDone
<1>1. DoneInv => OkMeansDone
  BY DEF DoneInv, Outcome, OkMeansDone
<1>2. QED
  BY <1>1, DoneInvariance, PTL

\* It returns Err exactly when the target refused something in this very
\* transaction, and leaves nothing behind for the next caller.
THEOREM ErrIsRefused ==
  ASSUME NonEmpty
  PROVE  Spec => []ErrMeansRefused
<1>1. TypeInv /\ DoneInv => ErrMeansRefused
  <2> SUFFICES ASSUME TypeInv, DoneInv, Over PROVE ErrMeansRefused
    BY DEF ErrMeansRefused
  <2>1. ~held /\ ~abrt /\ txf = << >> /\ rxf = << >>
    BY DEF Over, TypeInv, Places, DoneInv, Holding, Inward, Working
  <2>2. wire \in Seq(Events)
    BY DEF DoneInv, Outward
  <2>3. CASE result = "Ok" /\ Clean(wire)
    <3>1. wire # << >> => Len(wire) \in 1 .. Len(wire)
      BY <2>2
    <3>2. QED
      BY <2>1, <2>3, <3>1 DEF ErrMeansRefused, Clean, Last
  <2>4. CASE result = "Err" /\ Nacked(wire)
    BY <2>1, <2>4 DEF ErrMeansRefused, Nacked, Last
  <2>5. QED
    BY <2>3, <2>4 DEF DoneInv, Outcome
<1>2. QED
  BY <1>1, TypeInvariance, DoneInvariance, PTL

-----------------------------------------------------------------------------
(* A read driver polls RFNE and nothing else once its commands are pushed. *)

\* If the target refuses no read and no byte is lost, a read has not been
\* aborted, and all that was clocked is stored or in the RX FIFO.
NothingLost ==
  Working /\ Reading => ~abrt /\ got + Len(rxf) = clocked

\* The driver polls for a byte and has no more commands to push.
Polling == pc = "drain" /\ ~Rfne /\ left = 0

\* No step loses a byte or aborts a read.
LEMMA LostNothing ==
  ASSUME NonEmpty, ~RefusesReads, ~LongInterrupts,
         TypeInv, DoneInv, NothingLost, [Next]_vars
  PROVE  NothingLost'
<1>0. /\ clocked \in Nat /\ got \in Nat /\ rxf \in Seq(Nat \X Nat)
      /\ Len(rxf) \in Nat
  BY DEF TypeInv, TypeOK
<1>1. CASE Begin \/ Finish
  <2>1. pc' \in {"ready", "open"}
    BY <1>1 DEF Begin, Finish, Returned
  <2>2. QED
    BY <2>1 DEF NothingLost, Working
<1>2. CASE Open
  <2>1. pc = "open" /\ clocked' = 0 /\ got' = 0 /\ rxf' = << >> /\ abrt' = abrt
    BY <1>2 DEF Open
  <2>2. ~abrt /\ Len(<< >>) = 0
    BY <2>1 DEF DoneInv, Holding
  <2>3. QED
    BY <2>1, <2>2 DEF NothingLost
<1>3. CASE PushWrite \/ PushRead \/ NothingYet \/ Address \/ UNCHANGED vars
  <2>1. /\ UNCHANGED <<ops, k, got, rxf, clocked, abrt>>
        /\ pc' # pc => pc \in {"write", "read", "drain"}
    BY <1>3 DEF PushWrite, PushRead, NothingYet, Address, vars, cpu, controller
  <2>2. Reading' = Reading /\ (Working' => Working)
    BY <2>1 DEF Reading, Working
  <2>3. QED
    BY <2>1, <2>2 DEF NothingLost
<1>4. CASE Pop
  <2>1. /\ pc = "drain" /\ rxf # << >> /\ rxf' = Tail(rxf) /\ got' = got + 1
        /\ UNCHANGED <<ops, k, clocked, abrt>>
    BY <1>4 DEF Pop, Rfne
  <2>2. Working /\ Reading' = Reading
    BY <2>1 DEF Working, Reading
  <2>3. Len(rxf') = Len(rxf) - 1
    BY <1>0, <2>1, HeadTailProperties
  <2>4. got' + Len(rxf') = got + Len(rxf)
    <3>1. \A g, a, b \in Int : b = a - 1 => g + 1 + b = g + a
      OBVIOUS
    <3>2. Len(rxf') \in Int /\ Len(rxf) \in Int /\ got \in Int
      BY <1>0, <2>3
    <3>3. QED
      BY <2>1, <2>3, <3>1, <3>2
  <2>5. QED
    BY <2>1, <2>2, <2>4 DEF NothingLost
<1>5. CASE AddressRefused \/ WriteRefused \/ WriteByte
  <2>1. /\ Active /\ UNCHANGED cpu /\ ~Head(txf).read
    BY <1>5 DEF AddressRefused, WriteRefused, WriteByte, Clock
  <2>2. Head(txf) = CommandFor(ops, k, clocked + 1)
    BY <2>1, AtHead
  <2>3. ~Reading'
    BY <2>1, <2>2, CommandFields DEF Reading, cpu
  <2>4. QED
    BY <2>3 DEF NothingLost
<1>6. CASE ReadByte
  <2>1. /\ Active /\ clocked' = clocked + 1 /\ UNCHANGED <<abrt, cpu>>
        /\ rxf' = Append(rxf, <<Head(txf).op, clocked + 1>>)
    BY <1>6 DEF ReadByte, Clock
  <2>2. Len(rxf') = Len(rxf) + 1
    <3>1. Head(txf).op \in Nat
      <4>1. Head(txf) = CommandFor(ops, k, clocked + 1) /\ k \in Nat
        BY <2>1, AtHead
      <4>2. QED
        BY <4>1, CommandFields
    <3>2. <<Head(txf).op, clocked + 1>> \in Nat \X Nat
      BY <1>0, <3>1
    <3>3. QED
      BY <1>0, <2>1, <3>2, AppendProperties
  <2>3. Working' = Working /\ Reading' = Reading /\ got' = got
    BY <2>1 DEF Working, Reading, cpu
  <2>4. got + Len(rxf) = clocked => got + Len(rxf') = clocked + 1
    <3>1. \A g, a, c \in Int : g + a = c => g + (a + 1) = c + 1
      OBVIOUS
    <3>2. QED
      BY <1>0, <2>2, <3>1
  <2>5. QED
    BY <2>1, <2>3, <2>4 DEF NothingLost
<1>7. QED
  BY <1>1, <1>2, <1>3, <1>4, <1>5, <1>6 DEF Next, Cpu, Controller

\* i2c_read_blocking never polls for a byte that does not come: whenever it
\* has pushed everything and found nothing, the controller still has commands
\* to execute.  It needs a target that refuses no read and a CPU that keeps up
\* with the RX FIFO: the safety half of TransactionEnds.
THEOREM ReadsAreAnswered ==
  ASSUME NonEmpty, ~RefusesReads, ~LongInterrupts
  PROVE  Spec => [](Polling => Active)
<1>1. Init => NothingLost
  BY DEF Init, NothingLost, Working
<1>2. TypeInv /\ DoneInv /\ NothingLost /\ [Next]_vars => NothingLost'
  BY LostNothing
<1>3. TypeInv /\ DoneInv /\ NothingLost => (Polling => Active)
  <2> SUFFICES ASSUME TypeInv, DoneInv, NothingLost, Polling PROVE Active
    OBVIOUS
  <2>1. Working /\ Reading /\ got \in 0 .. ops[k].len /\ got < ops[k].len
    BY DEF Polling, TypeInv, Places, Working
  <2>2. ops[k].len \in Nat /\ clocked \in Nat /\ Len(rxf) = 0 /\ left = 0
    BY InProgram DEF Polling, Rfne, TypeInv, TypeOK
  <2>3. ~abrt /\ got + 0 = clocked
    BY <2>1, <2>2 DEF NothingLost
  <2>4. Len(txf) = ops[k].len - 0 - clocked
    BY <2>1, <2>2, <2>3 DEF DoneInv, Queue
  <2>5. Len(txf) # 0
    BY <2>1, <2>2, <2>3, <2>4
  <2>6. QED
    BY <2>5 DEF Active
<1>4. QED
  BY <1>1, <1>2, <1>3, TypeInvariance, DoneInvariance, PTL DEF Spec

-----------------------------------------------------------------------------
(* SPI.  The CPU, its place and the two FIFOs go by the names they have    *)
(* above; the rest of the state is that of SpiTransfer alone.              *)

CONSTANTS Calls, Late, MaxCalls
VARIABLES call, src, dst, tx, rx, shift, mosi, lag, late

Spi == INSTANCE SpiTransfer

\* The CPU keeps pace: what can pile up while it is away fits the RX FIFO.
KeepsPace == Late < FifoDepth

\* The i-th byte the call was given to send.
SpiGiven(i) == IF call.kind = "read" THEN 0 ELSE Spi!Out(i)

SpiShape ==
  /\ call \in [kind : Spi!Kind, out : Nat, in : Nat]
  /\ call \in Calls \cup {[kind |-> "write", out |-> 0, in |-> 0]}
  /\ tx \in 0 .. Spi!n /\ rx \in 0 .. Spi!n /\ calls \in 0 .. MaxCalls
  /\ src \in Seq(Nat) /\ dst \in Seq(Nat \cup {Spi!Blank})
  /\ Spi!n <= Len(src) /\ (call.kind # "write" => Spi!n <= Len(dst))
  /\ Spi!InPlace => dst = src
  /\ txf \in Seq(Nat) /\ shift \in Seq(Nat) /\ rxf \in Seq(Nat)
  /\ mosi \in Seq(Nat)
  /\ Len(txf) <= FifoDepth /\ Len(shift) <= 1 /\ Len(rxf) <= FifoDepth
  /\ late \in 0 .. Late /\ lag \in BOOLEAN

\* The bytes pushed are the bytes given, and each is on the wire, in the
\* shift register or in the TX FIFO; those not pushed are still in the slice.
SpiOutward ==
  /\ tx = Len(mosi) + Len(shift) + Len(txf)
  /\ \A i \in 1 .. Len(mosi) : mosi[i] = SpiGiven(i)
  /\ \A i \in 1 .. Len(shift) : shift[i] = SpiGiven(Len(mosi) + i)
  /\ \A i \in 1 .. Len(txf) : txf[i] = SpiGiven(Len(mosi) + Len(shift) + i)
  /\ \A i \in 1 .. Spi!n : i > tx => src[i] = SpiGiven(i)

\* What came back is stored or in the RX FIFO, and the FIFO holds no more
\* than the frames the CPU is behind.
SpiInward ==
  call.kind # "write" =>
    /\ rx + Len(rxf) = Len(mosi)
    /\ \A i \in 1 .. Len(rxf) : rxf[i] = rx + i
    /\ \A i \in 1 .. rx : dst[i] = i
    /\ Len(rxf) <= Late - late + (IF lag THEN 1 ELSE 0)

SpiPlaces ==
  /\ pc \in {"ready", "push", "drain", "wait", "empty", "send", "receive"}
  /\ pc = "ready" => /\ tx = Spi!n /\ (call.kind # "write" => rx = Spi!n)
                     /\ txf = << >> /\ shift = << >> /\ rxf = << >>
  /\ pc \in {"push", "drain", "wait", "empty"} => call.kind = "write"
  /\ pc \in {"send", "receive"} => call.kind # "write" /\ rx < Spi!n
  /\ pc = "push" => tx < Spi!n
  /\ pc \in {"wait", "empty"} => tx = Spi!n
  /\ pc = "empty" => txf = << >> /\ shift = << >>
  /\ call.kind = "write" => rx = 0

SpiInv == SpiShape /\ SpiOutward /\ SpiInward /\ SpiPlaces

-----------------------------------------------------------------------------
(* Sequences of naturals.                                                  *)

\* What Append does.
LEMMA Appending ==
  ASSUME NEW s \in Seq(Nat), NEW e \in Nat
  PROVE  /\ Append(s, e) \in Seq(Nat) /\ Len(Append(s, e)) = Len(s) + 1
         /\ \A i \in 1 .. Len(s) + 1 :
              Append(s, e)[i] = IF i <= Len(s) THEN s[i] ELSE e
<1>1. /\ Append(s, e) \in Seq(Nat) /\ Len(Append(s, e)) = Len(s) + 1
      /\ \A i \in 1 .. Len(s) : Append(s, e)[i] = s[i]
      /\ Append(s, e)[Len(s) + 1] = e
  BY AppendProperties
<1>2. Len(s) \in Nat
  BY LenProperties
<1>3. QED
  BY <1>1, <1>2

\* What Head and Tail do.
LEMMA Taking ==
  ASSUME NEW s \in Seq(Nat), s # << >>
  PROVE  /\ Head(s) = s[1] /\ s[1] \in Nat /\ Tail(s) \in Seq(Nat)
         /\ Len(s) \in Nat \ {0} /\ Len(Tail(s)) = Len(s) - 1
         /\ \A i \in 1 .. Len(s) - 1 : Tail(s)[i] = s[i + 1]
BY HeadTailProperties, LenProperties, EmptySeq

\* A sequence of one.
LEMMA One ==
  ASSUME NEW e \in Nat
  PROVE  <<e>> \in Seq(Nat) /\ Len(<<e>>) = 1 /\ <<e>>[1] = e
OBVIOUS

\* A sequence of none.
LEMMA Nothing == << >> \in Seq(Nat) /\ Len(<< >>) = 0
OBVIOUS

\* The lengths of slices and FIFOs are numbers, and 0 only of what is empty.
LEMMA Lengths ==
  ASSUME SpiShape
  PROVE  /\ Len(txf) \in Nat /\ Len(shift) \in Nat /\ Len(rxf) \in Nat
         /\ Len(mosi) \in Nat /\ Len(src) \in Nat /\ Len(dst) \in Nat
         /\ Spi!n \in Nat
         /\ (txf = << >>) = (Len(txf) = 0) /\ (shift = << >>) = (Len(shift) = 0)
         /\ (rxf = << >>) = (Len(rxf) = 0)
<1>1. Spi!n \in Nat
  BY DEF SpiShape, Spi!n, Spi!Size
<1>2. QED
  BY <1>1, LenProperties, EmptySeq DEF SpiShape

-----------------------------------------------------------------------------
(* The steps of SPI.                                                       *)

\* The controller starts empty, after a write of nothing.
LEMMA SpiInitially ==
  ASSUME Spi!SpiAssumption, Spi!Init
  PROVE  SpiInv
<1>1. Spi!n = 0 /\ ~Spi!InPlace /\ call.kind = "write"
      /\ call \in [kind : Spi!Kind, out : Nat, in : Nat]
  BY DEF Spi!Init, Spi!n, Spi!Size, Spi!InPlace, Spi!Kind
<1>2. << >> \in Seq(Nat) /\ << >> \in Seq(Nat \cup {Spi!Blank}) /\ Len(<< >>) = 0
  BY Nothing, EmptySeq
<1>3. SpiShape
  <2>1. /\ call = [kind |-> "write", out |-> 0, in |-> 0] /\ tx = 0 /\ rx = 0
        /\ calls = 0 /\ src = << >> /\ dst = << >> /\ txf = << >> /\ shift = << >>
        /\ rxf = << >> /\ mosi = << >> /\ late = 0 /\ lag = FALSE
    BY DEF Spi!Init
  <2>2. 0 \in 0 .. MaxCalls /\ 0 \in 0 .. Late /\ 0 \in 0 .. 0 /\ 0 <= FifoDepth
    BY DEF Spi!SpiAssumption
  <2>3. /\ call \in Calls \cup {[kind |-> "write", out |-> 0, in |-> 0]}
        /\ tx \in 0 .. Spi!n /\ rx \in 0 .. Spi!n /\ calls \in 0 .. MaxCalls
    BY <1>1, <2>1, <2>2
  <2>4. /\ src \in Seq(Nat) /\ dst \in Seq(Nat \cup {Spi!Blank})
        /\ txf \in Seq(Nat) /\ shift \in Seq(Nat) /\ rxf \in Seq(Nat)
        /\ mosi \in Seq(Nat)
    BY <1>2, <2>1
  <2>5. /\ Spi!n <= Len(src) /\ Len(txf) <= FifoDepth /\ Len(shift) <= 1
        /\ Len(rxf) <= FifoDepth
    BY <1>1, <1>2, <2>1, <2>2
  <2>6. late \in 0 .. Late
    BY <2>1, <2>2
  <2>7. lag \in BOOLEAN
    BY <2>1
  <2>8. QED
    BY <1>1, <2>3, <2>4, <2>5, <2>6, <2>7 DEF SpiShape
<1>4. SpiOutward
  BY <1>1, <1>2 DEF Spi!Init, SpiOutward
<1>5. SpiInward /\ SpiPlaces
  BY <1>1 DEF Spi!Init, SpiInward, SpiPlaces
<1>6. QED
  BY <1>3, <1>4, <1>5 DEF SpiInv

\* A call finds the controller empty and starts from the caller's bytes.
LEMMA CallStep ==
  ASSUME Spi!SpiAssumption, SpiInv, Spi!Call
  PROVE  SpiInv'
<1> USE DEF Spi!SpiAssumption
<1>1. PICK c \in Calls :
        /\ call' = c
        /\ src' = IF c.kind = "read" THEN [i \in 1 .. c.in |-> 0]
                  ELSE [i \in 1 .. c.out |-> Spi!Out(i)]
        /\ dst' = IF c.kind = "transfer_in_place" THEN src'
                  ELSE [i \in 1 .. c.in |-> Spi!Blank]
        /\ pc' = IF Spi!Size(c) = 0 THEN "ready"
                 ELSE IF c.kind = "write" THEN "push" ELSE "send"
  BY DEF Spi!Call
<1>2. /\ pc = "ready" /\ tx' = 0 /\ rx' = 0 /\ mosi' = << >> /\ lag' = FALSE
      /\ late' = Late /\ txf' = txf /\ shift' = shift /\ rxf' = rxf
      /\ calls' = calls + 1 /\ calls < MaxCalls
  BY DEF Spi!Call
<1>3. txf = << >> /\ shift = << >> /\ rxf = << >> /\ calls \in Nat
  BY <1>2 DEF SpiInv, SpiPlaces, SpiShape
<1>4. /\ c \in [kind : Spi!Kind, out : Nat, in : Nat]
      /\ Spi!n' = Spi!Size(c) /\ Spi!Size(c) \in Nat
      /\ c.in \in Nat /\ c.out \in Nat
  BY <1>1 DEF Spi!n, Spi!Size
<1>5. /\ src' \in Seq(Nat) /\ Len(src') = IF c.kind = "read" THEN c.in ELSE c.out
      /\ \A i \in 1 .. Len(src') : src'[i] = SpiGiven(i)'
  BY <1>1, <1>4 DEF SpiGiven, Spi!Out
<1>6. /\ dst' \in Seq(Nat \cup {Spi!Blank})
      /\ Len(dst') = IF c.kind = "transfer_in_place" THEN c.out ELSE c.in
  <2>1. CASE c.kind = "transfer_in_place"
    BY <1>1, <1>5, <2>1
  <2>2. CASE c.kind # "transfer_in_place"
    BY <1>1, <1>4, <2>2
  <2>3. QED
    BY <2>1, <2>2
<1>7. Spi!Size(c) <= Len(src') /\ (c.kind # "write" => Spi!Size(c) <= Len(dst'))
  BY <1>4, <1>5, <1>6 DEF Spi!Size, Spi!Kind
<1>8. Spi!InPlace' => dst' = src'
  BY <1>1 DEF Spi!InPlace
<1>9. SpiShape'
  <2>1. /\ call' \in [kind : Spi!Kind, out : Nat, in : Nat] /\ call' \in Calls
        /\ (call.kind)' = c.kind
    BY <1>1, <1>4
  <2>2. calls' \in 0 .. MaxCalls /\ tx' \in 0 .. Spi!n' /\ rx' \in 0 .. Spi!n'
    BY <1>2, <1>3, <1>4
  <2>3. late' \in 0 .. Late /\ lag' \in BOOLEAN
    <3>1. late' \in 0 .. Late
      BY <1>2
    <3>2. lag' \in BOOLEAN
      BY <1>2
    <3>3. QED
      BY <3>1, <3>2
  <2>4. /\ Len(txf)' <= FifoDepth /\ Len(shift)' <= 1 /\ Len(rxf)' <= FifoDepth
        /\ txf' \in Seq(Nat) /\ shift' \in Seq(Nat) /\ rxf' \in Seq(Nat)
        /\ mosi' \in Seq(Nat)
    BY <1>2, <1>3, Nothing
  <2>5. QED
    BY <1>4, <1>5, <1>6, <1>7, <1>8, <2>1, <2>2, <2>3, <2>4 DEF SpiShape
<1>10. SpiOutward'
  BY <1>2, <1>3, <1>4, <1>5, <1>7, Nothing DEF SpiOutward
<1>11. SpiInward' /\ SpiPlaces'
  BY <1>1, <1>2, <1>3, <1>4, Nothing DEF SpiInward, SpiPlaces
<1>12. QED
  BY <1>9, <1>10, <1>11 DEF SpiInv

\* A step that leaves the caller's slices and the FIFOs alone and only goes
\* elsewhere, having looked at the RX FIFO or not.
LEMMA Moving ==
  ASSUME Spi!SpiAssumption, SpiInv, SpiPlaces',
         UNCHANGED <<call, src, dst, tx, rx, calls, Spi!pl022, late>>,
         lag' = lag \/ (lag' = FALSE /\ (call.kind # "write" => rxf = << >>))
  PROVE  SpiInv'
<1>1. /\ call' = call /\ src' = src /\ dst' = dst /\ tx' = tx /\ rx' = rx
      /\ calls' = calls /\ txf' = txf /\ shift' = shift /\ rxf' = rxf
      /\ mosi' = mosi /\ late' = late
  BY DEF Spi!pl022
<1>2. Spi!n' = Spi!n /\ Spi!InPlace' = Spi!InPlace
  BY <1>1 DEF Spi!n, Spi!InPlace
<1>3. SpiShape'
  BY <1>1, <1>2 DEF SpiInv, SpiShape
<1>4. SpiOutward'
  BY <1>1, <1>2 DEF SpiInv, SpiOutward, SpiGiven
<1>5. SpiInward'
  <2>1. call.kind # "write" => lag' = lag \/ Len(rxf) = 0
    BY Nothing
  <2>2. late \in Int /\ Late \in Int /\ late <= Late
    BY DEF Spi!SpiAssumption, SpiInv, SpiShape
  <2>3. lag' = lag \/ lag' = FALSE
    OBVIOUS
  <2>4. QED
    BY <1>1, <2>1, <2>2, <2>3 DEF SpiInv, SpiInward
<1>6. QED
  BY <1>3, <1>4, <1>5 DEF SpiInv

\* One more byte given to the TX FIFO.
LEMMA Pushing ==
  ASSUME Spi!SpiAssumption, SpiInv, tx < Spi!n, Spi!Tnf,
         txf' = Append(txf, src[tx + 1]), tx' = tx + 1,
         SpiPlaces',
         UNCHANGED <<call, src, dst, rx, calls, shift, rxf, mosi, lag, late>>
  PROVE  SpiInv'
<1>1. Spi!n' = Spi!n /\ Spi!InPlace' = Spi!InPlace /\ Spi!n \in Nat /\ tx \in Nat
  BY Lengths DEF Spi!n, Spi!InPlace, SpiInv, SpiShape
<1>2. tx + 1 \in 1 .. Spi!n /\ tx + 1 \in 1 .. Len(src)
  BY <1>1, Lengths DEF SpiInv, SpiShape
<1>3. src[tx + 1] \in Nat /\ src[tx + 1] = SpiGiven(tx + 1)
  <2>1. src[tx + 1] \in Nat
    BY <1>2, ElementOfSeq DEF SpiInv, SpiShape
  <2>2. tx + 1 > tx
    BY <1>1
  <2>3. QED
    BY <1>2, <2>1, <2>2 DEF SpiInv, SpiOutward
<1>4. /\ txf' \in Seq(Nat) /\ Len(txf') = Len(txf) + 1
      /\ \A i \in 1 .. Len(txf) + 1 :
           txf'[i] = IF i <= Len(txf) THEN txf[i] ELSE src[tx + 1]
  BY <1>3, Appending DEF SpiInv, SpiShape
<1>5. SpiShape'
  <2>1. Len(txf') <= FifoDepth /\ tx' \in 0 .. Spi!n
    BY <1>1, <1>4, Lengths DEF Spi!SpiAssumption, Spi!Tnf, SpiInv
  <2>2. QED
    BY <1>1, <1>4, <2>1 DEF SpiInv, SpiShape
<1>6. SpiOutward'
  <2>1. tx' = Len(mosi) + Len(shift) + Len(txf')
    BY <1>4, Lengths DEF SpiInv, SpiOutward
  <2>2. ASSUME NEW i \in 1 .. Len(txf')
        PROVE  txf'[i] = SpiGiven(Len(mosi) + Len(shift) + i)
    <3> DEFINE a == Len(mosi)  b == Len(shift)  c == Len(txf)
    <3>0. a \in Nat /\ b \in Nat /\ c \in Nat /\ i \in 1 .. c + 1 /\ tx = a + b + c
      BY <1>4, Lengths DEF SpiInv, SpiOutward
    <3>i. txf'[i] = IF i <= c THEN txf[i] ELSE src[tx + 1]
      BY <1>4, <3>0
    <3>o. \A j \in 1 .. c : txf[j] = SpiGiven(a + b + j)
      BY DEF SpiInv, SpiOutward
    <3> HIDE DEF a, b, c
    <3>1. CASE i <= c
      <4>1. i \in 1 .. c
        BY <3>0, <3>1
      <4>2. txf'[i] = SpiGiven(a + b + i)
        BY <3>1, <3>i, <3>o, <4>1
      <4>3. QED
        BY <4>2 DEF a, b
    <3>2. CASE ~(i <= c)
      <4>1. tx + 1 = a + b + i
        BY <3>0, <3>2
      <4>2. txf'[i] = SpiGiven(a + b + i)
        BY <3>2, <3>i, <1>3, <4>1
      <4>3. QED
        BY <4>2 DEF a, b
    <3>3. QED
      BY <3>1, <3>2
  <2>3. \A i \in 1 .. Spi!n : i > tx' => src[i] = SpiGiven(i)
    BY <1>1 DEF SpiInv, SpiOutward
  <2>4. QED
    BY <1>1, <2>1, <2>2, <2>3 DEF SpiInv, SpiOutward, SpiGiven
<1>7. SpiInward'
  BY DEF SpiInv, SpiInward
<1>8. QED
  BY <1>5, <1>6, <1>7 DEF SpiInv

\* The TX FIFO's next byte goes to the shift register.
LEMMA LoadStep ==
  ASSUME Spi!SpiAssumption, SpiInv, Spi!Load
  PROVE  SpiInv'
<1>1. /\ shift = << >> /\ txf # << >> /\ shift' = <<Head(txf)>> /\ txf' = Tail(txf)
      /\ UNCHANGED <<call, src, dst, tx, rx, pc, calls, rxf, mosi, lag, late>>
  BY DEF Spi!Load, Spi!cpu
<1>2. Spi!n' = Spi!n /\ Spi!InPlace' = Spi!InPlace
  BY <1>1 DEF Spi!n, Spi!InPlace
<1>3. /\ Head(txf) = txf[1] /\ txf[1] \in Nat /\ txf' \in Seq(Nat)
      /\ Len(txf) \in Nat \ {0} /\ Len(txf') = Len(txf) - 1
      /\ \A i \in 1 .. Len(txf) - 1 : txf'[i] = txf[i + 1]
  BY <1>1, Taking DEF SpiInv, SpiShape
<1>4. shift' \in Seq(Nat) /\ Len(shift') = 1 /\ shift'[1] = txf[1] /\ Len(shift) = 0
  BY <1>1, <1>3, One, Nothing
<1>5. SpiShape'
  <2>1. Len(txf') <= FifoDepth /\ Len(shift') <= 1
    BY <1>3, <1>4 DEF Spi!SpiAssumption, SpiInv, SpiShape
  <2>2. QED
    BY <1>1, <1>2, <1>3, <1>4, <2>1 DEF SpiInv, SpiShape
<1>6. SpiOutward'
  <2> DEFINE a == Len(mosi)  c == Len(txf)
  <2>1. a \in Nat /\ c \in Nat \ {0} /\ tx = a + 0 + c
    BY <1>3, <1>4, Lengths DEF SpiInv, SpiOutward
  <2>2. \A j \in 1 .. c : txf[j] = SpiGiven(a + 0 + j)
    BY <1>4 DEF SpiInv, SpiOutward
  <2> HIDE DEF a, c
  <2>3. tx = a + 1 + (c - 1)
    BY <2>1
  <2>4. \A i \in 1 .. 1 : shift'[i] = SpiGiven(a + i)
    <3>1. 1 \in 1 .. c /\ a + 0 + 1 = a + 1
      BY <2>1
    <3>2. shift'[1] = SpiGiven(a + 1)
      BY <1>4, <2>2, <3>1
    <3>3. QED
      BY <3>2
  <2>5. ASSUME NEW i \in 1 .. c - 1
        PROVE  txf'[i] = SpiGiven(a + 1 + i)
    <3>1. i + 1 \in 1 .. c /\ a + 0 + (i + 1) = a + 1 + i
      BY <2>1
    <3>2. txf'[i] = txf[i + 1]
      BY <1>3 DEF c
    <3>3. QED
      BY <2>2, <3>1, <3>2
  <2>6. Len(mosi') = a /\ Len(shift') = 1 /\ Len(txf') = c - 1
    BY <1>1, <1>3, <1>4 DEF a, c
  <2>7. /\ \A i \in 1 .. Len(mosi) : mosi[i] = SpiGiven(i)
        /\ \A i \in 1 .. Spi!n : i > tx => src[i] = SpiGiven(i)
    BY DEF SpiInv, SpiOutward
  <2>8. QED
    BY <1>1, <1>2, <2>3, <2>4, <2>5, <2>6, <2>7 DEF SpiOutward, SpiGiven
<1>7. SpiInward' /\ SpiPlaces'
  BY <1>1, <1>2 DEF SpiInv, SpiInward, SpiPlaces
<1>8. QED
  BY <1>5, <1>6, <1>7 DEF SpiInv

\* A frame: the byte of the shift register goes out, and the one that comes
\* back finds room unless it does not matter.
LEMMA FrameStep ==
  ASSUME Spi!SpiAssumption, KeepsPace, SpiInv, Spi!EndOfFrame
  PROVE  SpiInv'
<1>1. /\ shift # << >> /\ shift' = << >> /\ mosi' = Append(mosi, Head(shift))
      /\ rxf' = IF Len(rxf) < FifoDepth THEN Append(rxf, Len(mosi')) ELSE rxf
      /\ lag /\ ~Spi!Spins => late > 0
      /\ late' = IF lag /\ ~Spi!Spins THEN late - 1 ELSE late
      /\ lag' = TRUE
      /\ UNCHANGED <<call, src, dst, tx, rx, pc, calls, txf>>
  BY DEF Spi!EndOfFrame, Spi!cpu
<1>2. Spi!n' = Spi!n /\ Spi!InPlace' = Spi!InPlace
  BY <1>1 DEF Spi!n, Spi!InPlace
<1>3. /\ Head(shift) = shift[1] /\ shift[1] \in Nat /\ Len(shift) = 1
  <2>1. shift \in Seq(Nat) /\ Len(shift) <= 1
    BY DEF SpiInv, SpiShape
  <2>2. Head(shift) = shift[1] /\ shift[1] \in Nat /\ Len(shift) \in Nat \ {0}
    BY <1>1, <2>1, Taking
  <2>3. \A m \in Nat \ {0} : m <= 1 => m = 1
    OBVIOUS
  <2>4. QED
    BY <2>1, <2>2, <2>3
<1>4. /\ mosi' \in Seq(Nat) /\ Len(mosi') = Len(mosi) + 1 /\ Len(mosi) \in Nat
      /\ \A i \in 1 .. Len(mosi) + 1 :
           mosi'[i] = IF i <= Len(mosi) THEN mosi[i] ELSE shift[1]
  BY <1>1, <1>3, Appending, Lengths DEF SpiInv, SpiShape
<1>5. /\ Append(rxf, Len(mosi')) \in Seq(Nat)
      /\ Len(Append(rxf, Len(mosi'))) = Len(rxf) + 1 /\ Len(rxf) \in Nat
      /\ \A i \in 1 .. Len(rxf) + 1 :
           Append(rxf, Len(mosi'))[i] = IF i <= Len(rxf) THEN rxf[i] ELSE Len(mosi')
  BY <1>4, Appending, Lengths DEF SpiInv, SpiShape
<1>6. late \in Int /\ late' \in 0 .. Late /\ lag \in BOOLEAN
  <2>1. late \in 0 .. Late /\ lag \in BOOLEAN
    BY DEF SpiInv, SpiShape
  <2>2. CASE lag /\ ~Spi!Spins
    BY <1>1, <2>1, <2>2 DEF Spi!SpiAssumption
  <2>3. CASE ~(lag /\ ~Spi!Spins)
    BY <1>1, <2>1, <2>3 DEF Spi!SpiAssumption
  <2>4. QED
    BY <2>1, <2>2, <2>3
<1>7. SpiShape'
  <2>1. rxf' \in Seq(Nat) /\ Len(rxf') <= FifoDepth
    BY <1>1, <1>5 DEF Spi!SpiAssumption, SpiInv, SpiShape
  <2>2. lag' \in BOOLEAN
    BY <1>1
  <2>3. Len(shift') <= 1 /\ shift' \in Seq(Nat)
    BY <1>1, Nothing
  <2>4. QED
    BY <1>1, <1>2, <1>4, <1>6, <2>1, <2>2, <2>3 DEF SpiInv, SpiShape
<1>8. SpiOutward'
  <2> DEFINE a == Len(mosi)  c == Len(txf)
  <2>1. a \in Nat /\ c \in Nat /\ tx = a + 1 + c
    BY <1>3, <1>4, Lengths DEF SpiInv, SpiOutward
  <2>2. /\ \A j \in 1 .. a : mosi[j] = SpiGiven(j)
        /\ shift[1] = SpiGiven(a + 1)
        /\ \A j \in 1 .. c : txf[j] = SpiGiven(a + 1 + j)
    BY <1>3 DEF SpiInv, SpiOutward
  <2>3. Len(mosi') = a + 1 /\ Len(shift') = 0 /\ Len(txf') = c
    BY <1>1, <1>4, Nothing
  <2>4. \A i \in 1 .. a + 1 : mosi'[i] = IF i <= a THEN mosi[i] ELSE shift[1]
    BY <1>4
  <2>5. \A i \in 1 .. Spi!n : i > tx => src[i] = SpiGiven(i)
    BY DEF SpiInv, SpiOutward
  <2> HIDE DEF a, c
  <2>6. tx = (a + 1) + 0 + c
    BY <2>1
  <2>7. ASSUME NEW i \in 1 .. a + 1
        PROVE  mosi'[i] = SpiGiven(i)
    <3>1. i \in 1 .. a \/ i = a + 1
      BY <2>1
    <3>2. CASE i \in 1 .. a
      BY <2>1, <2>2, <2>4, <3>2
    <3>3. CASE i = a + 1
      BY <2>1, <2>2, <2>4, <3>3
    <3>4. QED
      BY <3>1, <3>2, <3>3
  <2>8. ASSUME NEW i \in 1 .. c
        PROVE  txf[i] = SpiGiven((a + 1) + 0 + i)
    <3>1. (a + 1) + 0 + i = a + 1 + i
      BY <2>1
    <3>2. QED
      BY <2>2, <3>1
  <2>9. QED
    <3>1. \A i \in 1 .. Len(shift') : FALSE
      BY <2>3
    <3>2. \A i : SpiGiven(i)' = SpiGiven(i)
      BY <1>1 DEF SpiGiven
    <3>3. tx' = Len(mosi') + Len(shift') + Len(txf')
      BY <1>1, <2>3, <2>6
    <3>4. \A i \in 1 .. Len(mosi') : mosi'[i] = SpiGiven(i)
      BY <2>3, <2>7
    <3>5. \A i \in 1 .. Len(txf') :
            txf'[i] = SpiGiven(Len(mosi') + Len(shift') + i)
      BY <1>1, <2>3, <2>8
    <3>6. \A i \in 1 .. Spi!n' : i > tx' => src'[i] = SpiGiven(i)
      BY <1>1, <1>2, <2>5
    <3>7. QED
      BY <3>1, <3>2, <3>3, <3>4, <3>5, <3>6 DEF SpiOutward
<1>9. SpiInward'
  <2> SUFFICES ASSUME call.kind # "write" PROVE SpiInward'
    BY <1>1 DEF SpiInward
  <2>1. /\ rx + Len(rxf) = Len(mosi) /\ rx \in Nat
        /\ \A i \in 1 .. Len(rxf) : rxf[i] = rx + i
        /\ \A i \in 1 .. rx : dst[i] = i
        /\ Len(rxf) <= Late - late + (IF lag THEN 1 ELSE 0)
    BY Lengths DEF SpiInv, SpiInward, SpiShape
  <2>2. ~Spi!Spins
    BY DEF Spi!Spins, SpiInv, SpiPlaces
  <2>3. late' = IF lag THEN late - 1 ELSE late
    BY <1>1, <2>2
  <2>4. Len(rxf) < FifoDepth /\ Len(rxf) + 1 <= Late - late' + 1
    <3>1. CASE lag
      BY <1>1, <1>5, <1>6, <2>1, <2>2, <2>3, <3>1 DEF Spi!SpiAssumption, KeepsPace
    <3>2. CASE ~lag
      BY <1>1, <1>5, <1>6, <2>1, <2>2, <2>3, <3>2 DEF Spi!SpiAssumption, KeepsPace
    <3>3. QED
      BY <3>1, <3>2
  <2>5. /\ Len(rxf') = Len(rxf) + 1
        /\ \A i \in 1 .. Len(rxf) + 1 : rxf'[i] = IF i <= Len(rxf) THEN rxf[i] ELSE Len(mosi')
    BY <1>1, <1>5, <2>4
  <2>6. \A i \in 1 .. Len(rxf') : rxf'[i] = rx + i
    <3> SUFFICES ASSUME NEW i \in 1 .. Len(rxf') PROVE rxf'[i] = rx + i
      OBVIOUS
    <3>1. i \in 1 .. Len(rxf) \/ i = Len(rxf) + 1
      BY <1>5, <2>5
    <3>2. CASE i \in 1 .. Len(rxf)
      BY <1>5, <2>1, <2>5, <3>2
    <3>3. CASE i = Len(rxf) + 1
      <4>1. ~(i <= Len(rxf)) /\ i \in 1 .. Len(rxf) + 1
        BY <1>5, <3>3
      <4>2. rxf'[i] = Len(mosi')
        BY <2>5, <4>1
      <4>3. rx + i = Len(mosi) + 1
        <5>1. rx \in Int /\ Len(rxf) \in Int /\ rx + Len(rxf) = Len(mosi)
          BY <1>5, <2>1
        <5>2. QED
          BY <5>1, <3>3
      <4>4. QED
        BY <1>4, <4>2, <4>3
    <3>4. QED
      BY <3>1, <3>2, <3>3
  <2>7. rx + Len(rxf') = Len(mosi')
    <3>1. rx \in Int /\ Len(rxf) \in Int /\ rx + Len(rxf) = Len(mosi)
      BY <1>5, <2>1
    <3>2. Len(rxf') = Len(rxf) + 1 /\ Len(mosi') = Len(mosi) + 1
      BY <1>4, <2>5
    <3>3. QED
      BY <3>1, <3>2
  <2>8. QED
    BY <1>1, <2>1, <2>4, <2>5, <2>6, <2>7 DEF SpiInward
<1>10. SpiPlaces'
  <2>1. pc # "ready" /\ pc # "empty"
    BY <1>1 DEF SpiInv, SpiPlaces
  <2>2. QED
    BY <1>1, <1>2, <2>1 DEF SpiInv, SpiPlaces
<1>11. QED
  BY <1>7, <1>8, <1>9, <1>10 DEF SpiInv

\* The byte at the head of the RX FIFO is stored behind the others, where a
\* byte still to be sent never lies.
LEMMA ReceiveStep ==
  ASSUME Spi!SpiAssumption, SpiInv, Spi!Receive
  PROVE  SpiInv'
<1> USE DEF Spi!SpiAssumption
<1>1. /\ pc = "receive" /\ rxf # << >> /\ dst' = [dst EXCEPT ![rx + 1] = Head(rxf)]
      /\ src' = IF Spi!InPlace THEN dst' ELSE src
      /\ rxf' = Tail(rxf) /\ rx' = rx + 1 /\ lag' = FALSE
      /\ pc' = IF rx + 1 < Spi!n THEN "send" ELSE "ready"
      /\ UNCHANGED <<call, tx, calls, txf, shift, mosi, late>>
  BY DEF Spi!Receive, Spi!Rne
<1>2. Spi!n' = Spi!n /\ Spi!InPlace' = Spi!InPlace /\ Spi!n \in Nat
  BY <1>1, Lengths DEF Spi!n, Spi!InPlace, SpiInv
<1>3. /\ call.kind # "write" /\ rx \in Nat /\ rx < Spi!n /\ Spi!n <= Len(dst)
      /\ dst \in Seq(Nat \cup {Spi!Blank}) /\ Len(dst) \in Nat /\ tx \in Nat /\ tx <= Spi!n
  BY <1>1, <1>2, Lengths DEF SpiInv, SpiPlaces, SpiShape
<1>4. /\ Head(rxf) = rxf[1] /\ rxf[1] \in Nat /\ rxf' \in Seq(Nat)
      /\ Len(rxf) \in Nat \ {0} /\ Len(rxf') = Len(rxf) - 1
      /\ \A i \in 1 .. Len(rxf) - 1 : rxf'[i] = rxf[i + 1]
  BY <1>1, Taking DEF SpiInv, SpiShape
<1>5. /\ rx + Len(rxf) = Len(mosi) /\ rxf[1] = rx + 1
      /\ \A i \in 1 .. Len(rxf) : rxf[i] = rx + i
      /\ \A i \in 1 .. rx : dst[i] = i
      /\ Len(rxf) <= Late - late + (IF lag THEN 1 ELSE 0)
  BY <1>3, <1>4 DEF SpiInv, SpiInward
<1>6. /\ Len(mosi) \in Nat /\ Len(shift) \in Nat /\ Len(txf) \in Nat
      /\ tx = Len(mosi) + Len(shift) + Len(txf)
  BY Lengths DEF SpiInv, SpiOutward
<1>7. rx + 1 <= Len(mosi) /\ rx + 1 <= tx /\ rx + 1 \in 1 .. Len(dst)
  <2>1. \A x, m, s, t \in Nat, r \in Nat \ {0} :
          x + r = m => x + 1 <= m /\ x + 1 <= m + s + t
    OBVIOUS
  <2>2. rx + 1 <= Len(mosi) /\ rx + 1 <= tx
    BY <1>3, <1>4, <1>5, <1>6, <2>1
  <2>3. QED
    BY <1>2, <1>3, <2>2
<1>8. /\ dst' \in Seq(Nat \cup {Spi!Blank}) /\ Len(dst') = Len(dst)
      /\ \A i \in 1 .. Len(dst) : dst'[i] = IF i = rx + 1 THEN rx + 1 ELSE dst[i]
  <2>1. dst' = [dst EXCEPT ![rx + 1] = rx + 1]
    BY <1>1, <1>4, <1>5
  <2>2. rx + 1 \in Nat \cup {Spi!Blank}
    BY <1>3
  <2>3. QED
    BY <1>3, <1>7, <2>1, <2>2, ExceptSeq
<1>9. /\ src' \in Seq(Nat) /\ Len(src') = Len(src)
      /\ \A i \in 1 .. Spi!n : i > tx => src'[i] = src[i]
  <2>1. CASE Spi!InPlace
    <3>1. dst = src /\ src \in Seq(Nat) /\ src' = [src EXCEPT ![rx + 1] = rx + 1]
      BY <1>1, <1>4, <1>5, <2>1 DEF SpiInv, SpiShape
    <3>2. src' \in Seq(Nat) /\ Len(src') = Len(src)
      BY <1>3, <1>7, <3>1, ExceptSeq
    <3>3. \A i \in 1 .. Spi!n : i > tx => src'[i] = src[i]
      BY <1>1, <1>2, <1>3, <1>7, <1>8, <2>1, <3>1
    <3>4. QED
      BY <3>2, <3>3
  <2>2. CASE ~Spi!InPlace
    BY <1>1, <2>2 DEF SpiInv, SpiShape
  <2>3. QED
    BY <2>1, <2>2
<1>10. SpiShape'
  <2>1. rx' \in 0 .. Spi!n' /\ Len(rxf') <= FifoDepth
    BY <1>1, <1>2, <1>3, <1>4 DEF SpiInv, SpiShape
  <2>2. Spi!InPlace' => dst' = src'
    BY <1>1, <1>2
  <2>3. lag' \in BOOLEAN
    BY <1>1
  <2>4. /\ call' = call /\ tx' = tx /\ calls' = calls /\ txf' = txf /\ shift' = shift
        /\ mosi' = mosi /\ late' = late
    BY <1>1
  <2>5. Spi!n' <= Len(src') /\ Spi!n' <= Len(dst')
    BY <1>2, <1>3, <1>8, <1>9 DEF SpiInv, SpiShape
  <2>6. QED
    BY <1>2, <1>4, <1>8, <1>9, <2>1, <2>2, <2>3, <2>4, <2>5 DEF SpiInv, SpiShape
<1>11. SpiOutward'
  <2>1. \A i \in 1 .. Spi!n' : i > tx' => src'[i] = SpiGiven(i)
    BY <1>1, <1>2, <1>9 DEF SpiInv, SpiOutward
  <2>2. QED
    BY <1>1, <1>2, <2>1 DEF SpiInv, SpiOutward, SpiGiven
<1>12. SpiInward'
  <2>1. rx' + Len(rxf') = Len(mosi')
    BY <1>1, <1>3, <1>4, <1>5
  <2>2. \A i \in 1 .. Len(rxf') : rxf'[i] = rx' + i
    <3> SUFFICES ASSUME NEW i \in 1 .. Len(rxf) - 1 PROVE rxf'[i] = rx + 1 + i
      BY <1>1, <1>4
    <3>1. i + 1 \in 1 .. Len(rxf) /\ rx + (i + 1) = rx + 1 + i
      BY <1>3, <1>4
    <3>2. QED
      BY <1>4, <1>5, <3>1
  <2>3. \A i \in 1 .. rx' : dst'[i] = i
    <3> SUFFICES ASSUME NEW i \in 1 .. rx + 1 PROVE dst'[i] = i
      BY <1>1
    <3>1. i \in 1 .. Len(dst) /\ (i # rx + 1 => i \in 1 .. rx)
      BY <1>3, <1>7
    <3>2. QED
      BY <1>5, <1>8, <3>1
  <2>4. Len(rxf') <= Late - late' + (IF lag' THEN 1 ELSE 0)
    <3>1. late \in Int
      BY DEF SpiInv, SpiShape
    <3>2. QED
      BY <1>1, <1>4, <1>5, <3>1
  <2>5. QED
    BY <2>1, <2>2, <2>3, <2>4 DEF SpiInward
<1>13. SpiPlaces'
  <2>1. CASE rx + 1 < Spi!n
    BY <1>1, <1>2, <1>3, <2>1 DEF SpiInv, SpiPlaces
  <2>2. CASE ~(rx + 1 < Spi!n)
    <3>1. rx + 1 = Spi!n /\ tx = Spi!n /\ Len(rxf') = 0 /\ Len(shift) = 0 /\ Len(txf) = 0
      BY <1>2, <1>3, <1>4, <1>5, <1>6, <1>7, <2>2
    <3>2. rxf' = << >> /\ shift = << >> /\ txf = << >>
      BY <1>4, <3>1, Lengths, EmptySeq DEF SpiInv
    <3>3. QED
      BY <1>1, <1>2, <1>3, <2>2, <3>1, <3>2 DEF SpiInv, SpiPlaces
  <2>3. QED
    BY <2>1, <2>2
<1>14. QED
  BY <1>10, <1>11, <1>12, <1>13 DEF SpiInv

\* Of a write, the bytes that come back are thrown away.
LEMMA DrainStep ==
  ASSUME Spi!SpiAssumption, SpiInv, Spi!Drain
  PROVE  SpiInv'
<1>1. /\ pc \in {"drain", "empty"} /\ rxf # << >> /\ rxf' = Tail(rxf) /\ lag' = FALSE
      /\ UNCHANGED <<call, src, dst, tx, rx, pc, calls, txf, shift, mosi, late>>
  BY DEF Spi!Drain, Spi!Rne, Spi!cpu
<1>2. Spi!n' = Spi!n /\ Spi!InPlace' = Spi!InPlace /\ call.kind = "write"
  BY <1>1 DEF Spi!n, Spi!InPlace, SpiInv, SpiPlaces
<1>3. rxf' \in Seq(Nat) /\ Len(rxf') <= FifoDepth
  <2>1. rxf' \in Seq(Nat) /\ Len(rxf) \in Nat /\ Len(rxf') = Len(rxf) - 1
    BY <1>1, Taking DEF SpiInv, SpiShape
  <2>2. QED
    BY <2>1 DEF Spi!SpiAssumption, SpiInv, SpiShape
<1>4. lag' \in BOOLEAN
  BY <1>1
<1>5. SpiShape'
  BY <1>1, <1>2, <1>3, <1>4 DEF SpiInv, SpiShape
<1>6. SpiOutward'
  BY <1>1, <1>2 DEF SpiInv, SpiOutward, SpiGiven
<1>7. SpiInward' /\ SpiPlaces'
  BY <1>1, <1>2 DEF SpiInv, SpiInward, SpiPlaces
<1>8. QED
  BY <1>5, <1>6, <1>7 DEF SpiInv

\* Every other step of the CPU pushes a byte or only goes elsewhere.
LEMMA CpuStep ==
  ASSUME Spi!SpiAssumption, SpiInv, Spi!Cpu
  PROVE  SpiInv'
<1>0. Spi!n \in Nat /\ tx \in Nat /\ tx <= Spi!n
  BY Lengths DEF SpiInv, SpiShape
<1>1. CASE Spi!Push
  <2>1. tx < Spi!n /\ Spi!n' = Spi!n
    BY <1>1 DEF Spi!Push, Spi!n, SpiInv, SpiPlaces
  <2>2. SpiPlaces'
    BY <1>1, <2>1 DEF Spi!Push, SpiInv, SpiPlaces
  <2>3. QED
    BY <1>1, <2>1, <2>2, Pushing DEF Spi!Push
<1>2. CASE Spi!Send
  <2>1. Spi!n' = Spi!n
    BY <1>2 DEF Spi!Send, Spi!n
  <2>2. SpiPlaces'
    BY <1>2, <2>1 DEF Spi!Send, SpiInv, SpiPlaces
  <2>3. QED
    BY <1>2, <2>2, Pushing DEF Spi!Send
<1>3. CASE Spi!Drained
  <2>1. Spi!n' = Spi!n /\ call.kind = "write"
    BY <1>3 DEF Spi!Drained, Spi!n, SpiInv, SpiPlaces
  <2>2. SpiPlaces'
    BY <1>3, <2>1, <1>0 DEF Spi!Drained, SpiInv, SpiPlaces, Spi!pl022
  <2>3. QED
    BY <1>3, <2>1, <2>2, Moving DEF Spi!Drained
<1>4. CASE Spi!Idle
  <2>1. Spi!n' = Spi!n
    BY <1>4 DEF Spi!Idle, Spi!n
  <2>2. SpiPlaces'
    BY <1>4, <2>1 DEF Spi!Idle, Spi!Bsy, SpiInv, SpiPlaces, Spi!pl022
  <2>3. QED
    BY <1>4, <2>2, Moving DEF Spi!Idle
<1>5. CASE Spi!WriteReturns
  <2>1. Spi!n' = Spi!n
    BY <1>5 DEF Spi!WriteReturns, Spi!n
  <2>2. SpiPlaces'
    BY <1>5, <2>1 DEF Spi!WriteReturns, Spi!Rne, SpiInv, SpiPlaces, Spi!pl022
  <2>3. QED
    BY <1>5, <2>2, Moving DEF Spi!WriteReturns
<1>6. CASE Spi!SkipTx
  <2>1. Spi!n' = Spi!n
    BY <1>6 DEF Spi!SkipTx, Spi!n
  <2>2. SpiPlaces'
    BY <1>6, <2>1 DEF Spi!SkipTx, SpiInv, SpiPlaces, Spi!pl022
  <2>3. QED
    BY <1>6, <2>2, Moving DEF Spi!SkipTx
<1>7. CASE Spi!SkipRx
  <2>1. Spi!n' = Spi!n
    BY <1>7 DEF Spi!SkipRx, Spi!n
  <2>2. SpiPlaces'
    BY <1>7, <2>1 DEF Spi!SkipRx, SpiInv, SpiPlaces, Spi!pl022
  <2>3. QED
    BY <1>7, <2>2, Moving DEF Spi!SkipRx, Spi!Rne
<1>8. QED
  BY <1>1, <1>2, <1>3, <1>4, <1>5, <1>6, <1>7, CallStep, ReceiveStep, DrainStep
  DEF Spi!Cpu

-----------------------------------------------------------------------------
(* What an SPI call has done.                                              *)

\* Every step keeps the invariant.
LEMMA SpiStep ==
  ASSUME Spi!SpiAssumption, KeepsPace, SpiInv, [Spi!Next]_Spi!vars
  PROVE  SpiInv'
<1>1. CASE UNCHANGED Spi!vars
  <2>1. UNCHANGED <<call, src, dst, tx, rx, pc, calls, Spi!pl022, late, lag>>
    BY <1>1 DEF Spi!vars, Spi!cpu
  <2>2. Spi!n' = Spi!n
    BY <2>1 DEF Spi!n
  <2>3. SpiPlaces'
    BY <2>1, <2>2 DEF SpiInv, SpiPlaces, Spi!pl022
  <2>4. QED
    BY <2>1, <2>3, Moving
<1>2. QED
  BY <1>1, CpuStep, LoadStep, FrameStep DEF Spi!Next, Spi!Pl022

\* The state is well formed, and no byte is received before it is sent.
THEOREM SpiTypeCorrect ==
  ASSUME Spi!SpiAssumption, KeepsPace
  PROVE  Spi!Spec => []Spi!TypeOK
<1>1. SpiInv => Spi!TypeOK
  <2> SUFFICES ASSUME SpiInv PROVE Spi!TypeOK
    OBVIOUS
  <2>1. rx \in 0 .. tx
    <3>1. CASE call.kind = "write"
      BY <3>1, Lengths DEF SpiInv, SpiPlaces, SpiShape
    <3>2. CASE call.kind # "write"
      <4>1. \A x, r, m, s, t \in Nat : x + r = m => x \in 0 .. m + s + t
        OBVIOUS
      <4>2. rx \in Nat
        BY Lengths DEF SpiInv, SpiShape
      <4>3. QED
        BY <3>2, <4>1, <4>2, Lengths DEF SpiInv, SpiInward, SpiOutward
    <3>3. QED
      BY <3>1, <3>2
  <2>2. QED
    BY <2>1 DEF SpiInv, SpiShape, SpiPlaces, Spi!TypeOK
<1>2. SpiInv /\ [Spi!Next]_Spi!vars => SpiInv'
  BY SpiStep
<1>3. QED
  BY SpiInitially, <1>1, <1>2, PTL DEF Spi!Spec

\* Every call of SpiBus that returns has exchanged exactly its bytes and left
\* nothing behind, for slices of any length, as long as the CPU keeps pace.
THEOREM CallsExchange ==
  ASSUME Spi!SpiAssumption, KeepsPace
  PROVE  Spi!Spec => []Spi!Exchanged
<1>1. SpiInv => Spi!Exchanged
  <2> SUFFICES ASSUME SpiInv, pc = "ready"
               PROVE  /\ mosi = Spi!Sent
                      /\ call.kind # "write" =>
                           SubSeq(dst, 1, Spi!n) = [i \in 1 .. Spi!n |-> i]
                      /\ ~Spi!Bsy /\ ~Spi!Rne
    BY DEF Spi!Exchanged
  <2>1. /\ tx = Spi!n /\ (call.kind # "write" => rx = Spi!n)
        /\ txf = << >> /\ shift = << >> /\ rxf = << >> /\ Spi!n \in Nat
    BY Lengths DEF SpiInv, SpiPlaces
  <2>2. mosi = Spi!Sent
    <3>1. Spi!Sent = [i \in 1 .. Spi!n |-> SpiGiven(i)]
      BY DEF Spi!Sent, SpiGiven
    <3>2. \A i \in 1 .. Spi!n : SpiGiven(i) \in Nat
      BY DEF SpiGiven, Spi!Out
    <3>3. Spi!Sent \in Seq(Nat) /\ Len(Spi!Sent) = Spi!n
          /\ \A i \in 1 .. Spi!n : Spi!Sent[i] = SpiGiven(i)
      BY <2>1, <3>1, <3>2
    <3>4. Len(mosi) = Spi!n /\ mosi \in Seq(Nat)
          /\ \A i \in 1 .. Spi!n : mosi[i] = SpiGiven(i)
      BY <2>1, Lengths DEF SpiInv, SpiOutward, SpiShape
    <3>5. QED
      BY <3>3, <3>4, SeqEqual
  <2>3. ASSUME call.kind # "write"
        PROVE  SubSeq(dst, 1, Spi!n) = [i \in 1 .. Spi!n |-> i]
    <3>1. \A i \in 1 .. Spi!n : dst[i] = i /\ dst[i] \in Nat
      BY <2>1, <2>3 DEF SpiInv, SpiInward
    <3>2. /\ SubSeq(dst, 1, Spi!n) \in Seq(Nat)
          /\ Len(SubSeq(dst, 1, Spi!n)) = Spi!n
          /\ \A i \in 1 .. Spi!n : SubSeq(dst, 1, Spi!n)[i] = i
      <4>1. 1 \in Int /\ Spi!n \in Int /\ \A i \in 1 .. Spi!n : dst[i] \in Nat
        BY <2>1, <3>1
      <4>2. /\ SubSeq(dst, 1, Spi!n) \in Seq(Nat)
            /\ Len(SubSeq(dst, 1, Spi!n))
                 = IF 1 <= Spi!n THEN Spi!n - 1 + 1 ELSE 0
            /\ \A i \in 1 .. Spi!n - 1 + 1 :
                 SubSeq(dst, 1, Spi!n)[i] = dst[1 + i - 1]
        BY <4>1, SubSeqProperties
      <4>3. Spi!n - 1 + 1 = Spi!n /\ \A i \in 1 .. Spi!n : 1 + i - 1 = i
        BY <2>1
      <4>4. Len(SubSeq(dst, 1, Spi!n)) = Spi!n
        BY <2>1, <4>2
      <4>5. QED
        BY <3>1, <4>2, <4>3, <4>4
    <3>3. /\ [i \in 1 .. Spi!n |-> i] \in Seq(Nat)
          /\ Len([i \in 1 .. Spi!n |-> i]) = Spi!n
          /\ \A j \in 1 .. Spi!n : [i \in 1 .. Spi!n |-> i][j] = j
      BY <2>1
    <3>4. QED
      BY <3>2, <3>3, SeqEqual
  <2>4. QED
    BY <2>1, <2>2, <2>3 DEF Spi!Bsy, Spi!Rne
<1>2. SpiInv /\ [Spi!Next]_Spi!vars => SpiInv'
  BY SpiStep
<1>3. QED
  BY SpiInitially, <1>1, <1>2, PTL DEF Spi!Spec

\* The loop of spi_write_read_blocking never waits for a byte that does not
\* come: when all is pushed and nothing received, frames are still under way.
\* The safety half of TransferEnds for the calls that receive.
THEOREM ExchangesAreAnswered ==
  ASSUME Spi!SpiAssumption, KeepsPace
  PROVE  Spi!Spec => [](/\ pc \in {"send", "receive"} /\ tx = Spi!n
                        /\ ~Spi!Rne
                        => Spi!Bsy)
<1>1. SpiInv => (pc \in {"send", "receive"} /\ tx = Spi!n /\ ~Spi!Rne
                   => Spi!Bsy)
  <2> SUFFICES ASSUME SpiInv, pc \in {"send", "receive"}, tx = Spi!n, ~Spi!Rne,
                      ~Spi!Bsy
               PROVE  FALSE
    OBVIOUS
  <2>1. txf = << >> /\ shift = << >> /\ rxf = << >>
    BY DEF Spi!Rne, Spi!Bsy
  <2>2. Len(txf) = 0 /\ Len(shift) = 0 /\ Len(rxf) = 0
    BY <2>1, Nothing
  <2>3. call.kind # "write" /\ rx < Spi!n /\ rx \in Nat /\ Len(mosi) \in Nat
        /\ Spi!n \in Nat
    BY Lengths DEF SpiInv, SpiPlaces, SpiShape
  <2>4. tx = Len(mosi) + 0 + 0 /\ rx + 0 = Len(mosi)
    BY <2>2, <2>3 DEF SpiInv, SpiOutward, SpiInward
  <2>5. QED
    BY <2>3, <2>4
<1>2. SpiInv /\ [Spi!Next]_Spi!vars => SpiInv'
  BY SpiStep
<1>3. QED
  BY SpiInitially, <1>1, <1>2, PTL DEF Spi!Spec

=============================================================================
