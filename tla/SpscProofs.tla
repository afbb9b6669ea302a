----------------------------- MODULE SpscProofs -----------------------------
(***************************************************************************)
(* Proofs about Spsc for every ring size and every set of byte values.     *)
(***************************************************************************)
EXTENDS Spsc, TLAPS

-----------------------------------------------------------------------------
(* Masking is a conditional: the two index operators without "%".          *)

\* The index after i, as spsc.S computes it with "adds; and mask".
LEMMA AfterValue ==
  ASSUME NEW i \in Index
  PROVE  After(i) = IF i = Size - 1 THEN 0 ELSE i + 1
BY SizeAssumption DEF After, Index

\* The distance from t to h, as spsc_byte_count computes it.
LEMMA DistanceValue ==
  ASSUME NEW h \in Index, NEW t \in Index
  PROVE  Distance(h, t) = IF h >= t THEN h - t ELSE h - t + Size
BY SizeAssumption DEF Distance, Index

\* Both stay inside the ring.
LEMMA InRange ==
  ASSUME NEW h \in Index, NEW t \in Index
  PROVE  After(h) \in Index /\ Distance(h, t) \in Index
<1>1. After(h) = IF h = Size - 1 THEN 0 ELSE h + 1
  BY AfterValue
<1>2. Distance(h, t) = IF h >= t THEN h - t ELSE h - t + Size
  BY DistanceValue
<1>3. QED
  BY <1>1, <1>2, SizeAssumption DEF Index

\* Pushing into a ring with room buffers one byte more.
LEMMA DistanceAfterHead ==
  ASSUME NEW h \in Index, NEW t \in Index, After(h) # t
  PROVE  Distance(After(h), t) = Distance(h, t) + 1
<1>1. After(h) = IF h = Size - 1 THEN 0 ELSE h + 1
  BY AfterValue
<1>2. Distance(h, t) = IF h >= t THEN h - t ELSE h - t + Size
  BY DistanceValue
<1>3. After(h) \in Index
  BY InRange
<1>4. Distance(After(h), t)
        = IF After(h) >= t THEN After(h) - t ELSE After(h) - t + Size
  BY <1>3, DistanceValue
<1>5. QED
  BY <1>1, <1>2, <1>4, SizeAssumption DEF Index

\* Popping from a ring that is not empty buffers one byte less.
LEMMA DistanceAfterTail ==
  ASSUME NEW h \in Index, NEW t \in Index, h # t
  PROVE  Distance(h, After(t)) = Distance(h, t) - 1
<1>1. After(t) = IF t = Size - 1 THEN 0 ELSE t + 1
  BY AfterValue
<1>2. Distance(h, t) = IF h >= t THEN h - t ELSE h - t + Size
  BY DistanceValue
<1>3. After(t) \in Index
  BY InRange
<1>4. Distance(h, After(t))
        = IF h >= After(t) THEN h - After(t) ELSE h - After(t) + Size
  BY <1>3, DistanceValue
<1>5. QED
  BY <1>1, <1>2, <1>4, SizeAssumption DEF Index

-----------------------------------------------------------------------------

\* The inductive invariant holds initially.
LEMMA InitInv == Init => IInv
BY SizeAssumption DEF Init, IInv, TypeOK, ProducerInv, ConsumerInv, Index

\* Every step of the producer, of the consumer and of a reset keeps it.
LEMMA NextInv == IInv /\ [Next]_vars => IInv'
<1> SUFFICES ASSUME IInv, [Next]_vars PROVE IInv'
  OBVIOUS
<1> USE DEF IInv, TypeOK, ProducerInv, ConsumerInv, queueVars, prodVars,
            consVars
<1>1. CASE PushLoadHead
  BY <1>1 DEF PushLoadHead, Used
<1>2. CASE PushLoadTail
  BY <1>2 DEF PushLoadTail, Used
<1>3. CASE PushStoreData
  BY <1>3 DEF PushStoreData, Used
<1>4. CASE PushPublish
  <2>1. head' \in Index /\ tail' = tail /\ head' # tail
    BY <1>4, InRange DEF PushPublish
  <2>2. cpc = "countTail" => Distance(cTail, tail) <= Used'
    <3>1. Distance(After(head), tail) = Distance(head, tail) + 1
      BY <1>4, DistanceAfterHead DEF PushPublish
    <3>2. Distance(head, tail) \in Index /\ Distance(cTail, tail) \in Index
      BY InRange
    <3>3. Used' = Used + 1
      BY <1>4, <3>1 DEF PushPublish, Used
    <3>4. QED
      BY <3>2, <3>3 DEF Used, Index
  <2>3. QED
    BY <1>4, <2>1, <2>2 DEF PushPublish
<1>5. CASE PopLoadTail
  BY <1>5 DEF PopLoadTail, Used
<1>6. CASE PopLoadHead
  BY <1>6 DEF PopLoadHead, Used
<1>7. CASE PopLoadData
  BY <1>7 DEF PopLoadData, Used
<1>8. CASE PopStoreTail
  <2>1. tail' \in Index /\ tail' = After(tail)
    BY <1>8, InRange DEF PopStoreTail
  <2>2. ppc \in {"storeData", "publish"} => After(head) # tail'
    <3>1. /\ After(head) = IF head = Size - 1 THEN 0 ELSE head + 1
          /\ After(tail) = IF tail = Size - 1 THEN 0 ELSE tail + 1
      BY AfterValue
    <3>2. head # tail
      BY <1>8 DEF PopStoreTail
    <3>3. QED
      BY <2>1, <3>1, <3>2, SizeAssumption DEF Index
  <2>3. QED
    BY <1>8, <2>1, <2>2 DEF PopStoreTail
<1>9. CASE ProducerCountLoadHead
  BY <1>9 DEF ProducerCountLoadHead, Used
<1>10. CASE ProducerCountLoadTail
  <2>1. pCount' = Distance(pHead, tail)
    BY <1>10 DEF ProducerCountLoadTail, Count, Distance
  <2>2. QED
    BY <1>10, <2>1, InRange DEF ProducerCountLoadTail, Used
<1>11. CASE ConsumerCountLoadHead
  <2>1. Distance(head, tail) \in Index
    BY InRange
  <2>2. Distance(head, tail) <= Distance(head, tail)
    BY <2>1 DEF Index
  <2>3. QED
    BY <1>11, <2>2 DEF ConsumerCountLoadHead, Used
<1>12. CASE ConsumerCountLoadTail
  <2>1. cCount' = Distance(cTail, tail)
    BY <1>12 DEF ConsumerCountLoadTail, Count, Distance
  <2>2. QED
    BY <1>12, <2>1, InRange DEF ConsumerCountLoadTail, Used
<1>13. CASE Reset
  BY <1>13, SizeAssumption DEF Reset, Index
<1>14. CASE UNCHANGED vars
  BY <1>14 DEF vars, Used
<1>15. QED
  BY <1>1, <1>2, <1>3, <1>4, <1>5, <1>6, <1>7, <1>8, <1>9, <1>10, <1>11,
     <1>12, <1>13, <1>14 DEF Next, Producer, Consumer

\* The invariant is invariant.
THEOREM Invariance == Spec => []IInv
BY InitInv, NextInv, PTL DEF Spec

\* Type correctness of the queue words, buffer and registers.
THEOREM TypeCorrect == Spec => []TypeOK
<1>1. IInv => TypeOK
  BY DEF IInv
<1>2. QED
  BY <1>1, Invariance, PTL

\* The producer and the consumer never work on the same slot (spsc.inc: one
\* slot is reserved to tell full from empty).
THEOREM SlotsAreExclusive == Spec => []NoSharedSlot
<1>1. IInv => NoSharedSlot
  BY DEF IInv, TypeOK, ProducerInv, ConsumerInv, NoSharedSlot
<1>2. QED
  BY <1>1, Invariance, PTL

-----------------------------------------------------------------------------
(* The ring implements ByteFifo.                                           *)

\* Where the i-th buffered byte lies.
LEMMA SlotValue ==
  ASSUME tail \in Index, NEW i \in 1 .. Size
  PROVE  /\ Slot(i) \in Index
         /\ Slot(i) = IF tail + i - 1 < Size THEN tail + i - 1
                                             ELSE tail + i - 1 - Size
BY SizeAssumption DEF Slot, Index

\* The slot after the last buffered byte is the one at head.
LEMMA SlotAtHead ==
  ASSUME head \in Index, tail \in Index
  PROVE  /\ Slot(Used + 1) = head
         /\ \A i \in 1 .. Used : Slot(i) # head
<1>1. Used = IF head >= tail THEN head - tail ELSE head - tail + Size
  BY DistanceValue DEF Used
<1>2. Used \in 0 .. Size - 1
  BY InRange DEF Used, Index
<1>3. Slot(Used + 1) = IF tail + Used < Size THEN tail + Used
                                             ELSE tail + Used - Size
  BY <1>2, SizeAssumption DEF Slot, Index
<1>4. ASSUME NEW i \in 1 .. Used PROVE Slot(i) # head
  <2>1. i \in 1 .. Size
    BY <1>2, SizeAssumption
  <2>2. Slot(i) = IF tail + i - 1 < Size THEN tail + i - 1
                                         ELSE tail + i - 1 - Size
    BY <2>1, SlotValue
  <2>3. QED
    BY <1>1, <1>2, <2>2, SizeAssumption DEF Index
<1>5. QED
  BY <1>1, <1>2, <1>3, <1>4, SizeAssumption DEF Index

\* The abstract queue is a sequence of at most Size - 1 bytes.
LEMMA ContentsType ==
  ASSUME TypeOK
  PROVE  /\ Contents \in Seq(Byte)
         /\ Len(Contents) = Used
         /\ Used \in 0 .. Size - 1
<1>1. Used \in 0 .. Size - 1
  BY InRange DEF Used, Index, TypeOK
<1>2. \A i \in 1 .. Used : data[Slot(i)] \in Byte
  BY <1>1, SlotValue, SizeAssumption DEF TypeOK
<1>3. QED
  BY <1>1, <1>2 DEF Contents

\* A step that leaves the indices and the buffered slots alone is no step of
\* the abstract queue.
LEMMA SameContents ==
  ASSUME tail' = tail, head' = head, data' = data
  PROVE  Contents' = Contents
BY DEF Contents, Used, Slot

\* Publishing head appends the byte stored before it.
LEMMA PublishAppends ==
  ASSUME IInv, PushPublish
  PROVE  Fifo!Push
<1> USE DEF IInv
<1>1. Contents \in Seq(Byte) /\ Len(Contents) = Used /\ Used \in 0 .. Size - 1
  BY ContentsType
<1>2. After(head) # tail /\ data[head] = pByte /\ pHead = head
  BY DEF PushPublish, ProducerInv
<1>3. Used' = Used + 1
  BY <1>2, DistanceAfterHead DEF TypeOK, PushPublish, Used
<1>4. Used < Size - 1
  <2>1. After(head) \in Index
    BY InRange DEF TypeOK
  <2>2. Distance(After(head), tail) \in Index
    BY <2>1, InRange DEF TypeOK
  <2>3. QED
    BY <1>1, <1>2, <1>3, <2>2, SizeAssumption DEF Index, PushPublish, Used
<1>5. Slot(Used + 1) = head
  BY SlotAtHead DEF TypeOK
<1>6. Contents' = Append(Contents, pByte)
  <2>1. Contents' = [i \in 1 .. Used + 1 |-> data[Slot(i)]]
    BY <1>3 DEF Contents, Slot, PushPublish
  <2>2. Contents = [i \in 1 .. Used |-> data[Slot(i)]]
    BY DEF Contents
  <2>3. data[Slot(Used + 1)] = pByte
    BY <1>2, <1>5
  <2>4. QED
    BY <1>1, <2>1, <2>2, <2>3
<1>7. QED
  BY <1>1, <1>4, <1>6 DEF Fifo!Push, PushPublish, TypeOK, consVars

\* Storing tail removes the oldest byte, the one read before it.
LEMMA StoreTailRemoves ==
  ASSUME IInv, PopStoreTail
  PROVE  Fifo!Pop
<1> USE DEF IInv
<1>1. Contents \in Seq(Byte) /\ Len(Contents) = Used /\ Used \in 0 .. Size - 1
  BY ContentsType
<1>2. head # tail /\ cByte = data[tail] /\ cTail = tail
  BY DEF PopStoreTail, ConsumerInv
<1>3. Used' = Used - 1
  BY <1>2, DistanceAfterTail DEF TypeOK, PopStoreTail, Used
<1>4. Used >= 1
  <2>1. Used = IF head >= tail THEN head - tail ELSE head - tail + Size
    BY DistanceValue DEF Used, TypeOK
  <2>2. QED
    BY <1>2, <2>1, SizeAssumption DEF Index, TypeOK
<1>5. Contents[1] = cByte
  <2>1. Slot(1) = tail
    BY SizeAssumption DEF Slot, Index, TypeOK
  <2>2. QED
    BY <1>1, <1>2, <1>4, <2>1 DEF Contents
<1>6. Contents' = Tail(Contents)
  <2>1. ASSUME NEW i \in 1 .. Used - 1 PROVE Slot(i)' = Slot(i + 1)
    <3>1. tail' \in Index /\ tail' = IF tail = Size - 1 THEN 0 ELSE tail + 1
      BY <1>2, AfterValue, InRange DEF PopStoreTail, TypeOK
    <3>2. Slot(i)' = (tail' + i - 1) % Size
      BY DEF Slot
    <3>3. Slot(i + 1) = (tail + i) % Size
      BY <1>1, <2>1 DEF Slot, Index, TypeOK
    <3>4. QED
      BY <1>1, <3>1, <3>2, <3>3, SizeAssumption DEF Index, TypeOK
  <2>2. Contents' = [i \in 1 .. Used - 1 |-> data[Slot(i + 1)]]
    <3>1. data' = data
      BY DEF PopStoreTail
    <3>2. QED
      BY <1>3, <2>1, <3>1 DEF Contents
  <2>3. Contents = [i \in 1 .. Used |-> data[Slot(i)]]
    BY DEF Contents
  <2>4. QED
    BY <1>1, <1>4, <2>2, <2>3
<1>7. QED
  BY <1>1, <1>4, <1>5, <1>6 DEF Fifo!Pop, PopStoreTail, prodVars

\* A full check that finds the ring full is right about it.
LEMMA FullIsFull ==
  ASSUME IInv, PushLoadTail, After(pHead) = tail
  PROVE  Fifo!PushFull
<1> USE DEF IInv
<1>1. pHead = head
  BY DEF PushLoadTail, ProducerInv
<1>2. /\ After(head) = IF head = Size - 1 THEN 0 ELSE head + 1
      /\ Used = IF head >= tail THEN head - tail ELSE head - tail + Size
  BY AfterValue, DistanceValue DEF TypeOK, Used
<1>3. Used = Size - 1
  BY <1>1, <1>2, SizeAssumption DEF TypeOK, Index
<1>4. Len(Contents) = Size - 1
  BY <1>3, ContentsType
<1>5. Contents' = Contents
  BY SameContents DEF PushLoadTail, queueVars
<1>6. QED
  BY <1>4, <1>5 DEF Fifo!PushFull, PushLoadTail, consVars

\* An empty check that finds the ring empty is right about it.
LEMMA EmptyIsEmpty ==
  ASSUME IInv, PopLoadHead, cTail = head
  PROVE  Fifo!PopEmpty
<1> USE DEF IInv
<1>1. tail = head
  BY DEF PopLoadHead, ConsumerInv
<1>2. Used = 0
  BY <1>1, DistanceValue DEF TypeOK, Used, Index
<1>3. Contents = << >>
  BY <1>2, ContentsType
<1>4. Contents' = Contents
  BY SameContents DEF PopLoadHead, queueVars
<1>5. QED
  BY <1>3, <1>4 DEF Fifo!PopEmpty, PopLoadHead, prodVars, Fifo!None, None

\* Storing a byte that is not published yet changes nothing a pop can see.
LEMMA StoreDataIsInvisible ==
  ASSUME IInv, PushStoreData
  PROVE  Contents' = Contents
<1> USE DEF IInv
<1>1. pHead = head /\ data' = [data EXCEPT ![head] = pByte]
  BY DEF PushStoreData, ProducerInv
<1>2. \A i \in 1 .. Used : Slot(i) # head
  BY SlotAtHead DEF TypeOK
<1>3. \A i \in 1 .. Used : Slot(i) \in Index
  <2>1. Used \in 0 .. Size - 1
    BY ContentsType
  <2>2. QED
    BY <2>1, SlotValue, SizeAssumption DEF TypeOK
<1>4. \A i \in 1 .. Used : data'[Slot(i)] = data[Slot(i)]
  BY <1>1, <1>2, <1>3 DEF TypeOK
<1>5. Used' = Used /\ \A i \in 1 .. Used : Slot(i)' = Slot(i)
  BY DEF PushStoreData, Used, Slot
<1>6. QED
  BY <1>4, <1>5 DEF Contents

\* A reset empties the abstract queue.
LEMMA ResetEmpties ==
  ASSUME IInv, Reset
  PROVE  Fifo!Reset
<1>1. head' = 0 /\ tail' = 0
  BY DEF Reset
<1>2. Used' = 0
  <2>1. Used' = (head' - tail') % Size
    BY DEF Used, Distance
  <2>2. QED
    BY <1>1, <2>1, SizeAssumption
<1>3. Contents' = << >>
  BY <1>2 DEF Contents
<1>4. QED
  BY <1>3 DEF Fifo!Reset, Reset, prodVars, consVars

\* The ring starts as the empty queue.
LEMMA InitRefines == Init => Fifo!Init
<1> SUFFICES ASSUME Init PROVE Fifo!Init
  OBVIOUS
<1>1. Used = 0
  <2>1. 0 \in Index
    BY SizeAssumption DEF Index
  <2>2. QED
    BY <2>1, DistanceValue DEF Init, Used
<1>2. Contents = << >>
  BY <1>1 DEF Contents
<1>3. QED
  BY <1>2 DEF Init, Fifo!Init, Fifo!None, None

\* Every instruction of spsc.S is one step of the queue or none.
LEMMA StepRefines == IInv /\ [Next]_vars => [Fifo!Next]_(Fifo!vars)
<1> SUFFICES ASSUME IInv, [Next]_vars PROVE [Fifo!Next]_(Fifo!vars)
  OBVIOUS
<1>1. CASE PushLoadHead
  BY <1>1, SameContents DEF PushLoadHead, Fifo!Next, Fifo!Offer, queueVars,
     consVars
<1>2. CASE PushLoadTail
  <2>1. CASE After(pHead) = tail
    BY <1>2, <2>1, FullIsFull DEF Fifo!Next
  <2>2. CASE After(pHead) # tail
    BY <1>2, <2>2, SameContents DEF PushLoadTail, Fifo!vars, queueVars, consVars
  <2>3. QED
    BY <2>1, <2>2
<1>3. CASE PushStoreData
  BY <1>3, StoreDataIsInvisible DEF PushStoreData, Fifo!vars, consVars
<1>4. CASE PushPublish
  BY <1>4, PublishAppends DEF Fifo!Next
<1>5. CASE PopLoadTail
  BY <1>5, SameContents DEF PopLoadTail, Fifo!vars, queueVars, prodVars
<1>6. CASE PopLoadHead
  <2>1. CASE cTail = head
    BY <1>6, <2>1, EmptyIsEmpty DEF Fifo!Next
  <2>2. CASE cTail # head
    BY <1>6, <2>2, SameContents DEF PopLoadHead, Fifo!vars, queueVars, prodVars
  <2>3. QED
    BY <2>1, <2>2
<1>7. CASE PopLoadData
  BY <1>7, SameContents DEF PopLoadData, Fifo!vars, queueVars, prodVars
<1>8. CASE PopStoreTail
  BY <1>8, StoreTailRemoves DEF Fifo!Next
<1>9. CASE ProducerCountLoadHead
  BY <1>9, SameContents DEF ProducerCountLoadHead, Fifo!vars, queueVars, consVars
<1>10. CASE ProducerCountLoadTail
  BY <1>10, SameContents DEF ProducerCountLoadTail, Fifo!vars, queueVars, consVars
<1>11. CASE ConsumerCountLoadHead
  BY <1>11, SameContents DEF ConsumerCountLoadHead, Fifo!vars, queueVars, prodVars
<1>12. CASE ConsumerCountLoadTail
  BY <1>12, SameContents DEF ConsumerCountLoadTail, Fifo!vars, queueVars, prodVars
<1>13. CASE Reset
  BY <1>13, ResetEmpties DEF Fifo!Next
<1>14. CASE UNCHANGED vars
  BY <1>14, SameContents DEF vars, Fifo!vars
<1>15. QED
  BY <1>1, <1>2, <1>3, <1>4, <1>5, <1>6, <1>7, <1>8, <1>9, <1>10, <1>11,
     <1>12, <1>13, <1>14 DEF Next, Producer, Consumer

\* spsc.S implements a FIFO of Size - 1 bytes, for every ring size and under
\* every interleaving of its two sides.
THEOREM RingImplementsFifo == Spec => IsFifo
<1>1. QED
  BY Invariance, InitRefines, StepRefines, PTL DEF Spec, IsFifo, Fifo!Spec

\* A count the consumer takes does not exceed what is buffered.
LEMMA ConsumerCount ==
  ASSUME IInv, [Next]_vars
  PROVE  cpc = "countTail" /\ cpc' = "idle" => cCount' <= Used
BY DEF Count, Distance, IInv, ConsumerInv, Next, Producer, Consumer, PushLoadHead,
   PushLoadTail, PushStoreData, PushPublish, PopLoadTail, PopLoadHead,
   PopLoadData, PopStoreTail, ProducerCountLoadHead, ProducerCountLoadTail,
   ConsumerCountLoadHead, ConsumerCountLoadTail, Reset, vars, prodVars,
   consVars, queueVars

\* A count the producer takes does not understate what is buffered.
LEMMA ProducerCount ==
  ASSUME IInv, [Next]_vars
  PROVE  ppc = "countTail" /\ ppc' = "idle" => pCount' >= Used
<1>1. ASSUME ProducerCountLoadTail
      PROVE  pCount' >= Used
  <2>1. pCount' = Used
    BY <1>1 DEF IInv, ProducerInv, ProducerCountLoadTail, Used, Count, Distance
  <2>2. Used \in Int
    BY InRange DEF IInv, TypeOK, Used, Index
  <2>3. QED
    BY <2>1, <2>2
<1>2. QED
  BY <1>1 DEF Next, Producer, Consumer, PushLoadHead,
     PushLoadTail, PushStoreData, PushPublish, PopLoadTail, PopLoadHead,
     PopLoadData, PopStoreTail, ProducerCountLoadHead,
     ConsumerCountLoadHead, ConsumerCountLoadTail, Reset, vars, prodVars,
     consVars, queueVars

\* A drain loop bounded by spsc_byte_count never meets an empty ring, and the
\* room a producer computes from it is really there.
THEOREM CountsAreSound == Spec => CountsAreSafe
<1>1. ASSUME IInv, [Next]_vars
      PROVE  [/\ cpc = "countTail" /\ cpc' = "idle" => cCount' <= Used
              /\ ppc = "countTail" /\ ppc' = "idle" => pCount' >= Used]_vars
  BY <1>1, ConsumerCount, ProducerCount
<1>2. QED
  BY <1>1, Invariance, PTL DEF Spec, CountsAreSafe

=============================================================================
