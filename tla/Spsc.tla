-------------------------------- MODULE Spsc --------------------------------
(***************************************************************************)
(* src/spsc.S at the granularity of its memory accesses: one action for    *)
(* each load or store of a word the other side can write, with the values  *)
(* held in registers between them.  The producer (a hardware ISR) and the  *)
(* consumer (a soft task) interleave freely, which covers either of them   *)
(* preempting the other at any instruction boundary.                       *)
(***************************************************************************)
EXTENDS Integers, Sequences

CONSTANTS
  Byte,   \* The values a slot can hold.
  Size    \* mask + 1, the number of slots (a power of two in spsc.inc).

ASSUME SizeAssumption == Size \in Nat /\ Size >= 2

None == -1
ASSUME NoneIsNoByte == None \notin Byte

Index == 0 .. Size - 1

\* (i + 1) & mask: the index after i, wrapping at the end of the buffer.
After(i) == (i + 1) % Size

\* Mutant of Count: the operands of the subtraction are swapped.
CountSwapped(h, t) == (t - h) % Size

\* (head - tail) & mask.
Count(h, t) == (h - t) % Size

\* The number of slots from t up to but excluding h.
Distance(h, t) == (h - t) % Size

VARIABLES
  head,     \* Index the producer writes next; stored by the producer only.
  tail,     \* Index the consumer reads next; stored by the consumer only.
  data,     \* The slots.
  ppc,      \* Where the producer is inside a call.
  pByte,    \* r1 of spsc_byte_push.
  pHead,    \* head as the producer loaded it (r2 of push, r1 of count).
  pCount,   \* r0 of the producer's last spsc_byte_count.
  pushed,   \* r0 of the producer's last completed push.
  cpc,      \* Where the consumer is inside a call.
  cTail,    \* r1 of spsc_byte_pop: tail as loaded (of count: head as loaded).
  cByte,    \* r12 of spsc_byte_pop: the byte read.
  cCount,   \* r0 of the consumer's last spsc_byte_count.
  popped    \* r0 of the consumer's last completed pop.

queueVars == <<head, tail, data>>
prodVars == <<ppc, pByte, pHead, pCount, pushed>>
consVars == <<cpc, cTail, cByte, cCount, popped>>
vars == <<head, tail, data, ppc, pByte, pHead, pCount, pushed,
          cpc, cTail, cByte, cCount, popped>>

Init ==
  /\ head = 0
  /\ tail = 0
  /\ \E b \in Byte : data = [i \in Index |-> b]
  /\ ppc = "idle"
  /\ pByte \in Byte
  /\ pHead = 0
  /\ pCount = 0
  /\ pushed = 0
  /\ cpc = "idle"
  /\ cTail = 0
  /\ cByte \in Byte
  /\ cCount = 0
  /\ popped = None

-----------------------------------------------------------------------------
(* spsc_byte_push, called by the producer.                                 *)

PushLoadHead ==
  /\ ppc = "idle"
  /\ ppc' = "loadTail"
  /\ pByte' \in Byte
  /\ pHead' = head
  /\ UNCHANGED <<queueVars, pCount, pushed, consVars>>

\* Mutant of PushLoadTail: the queue is never found full.
PushLoadTailUnchecked ==
  /\ ppc = "loadTail"
  /\ ppc' = "storeData"
  /\ UNCHANGED <<queueVars, pByte, pHead, pCount, pushed, consVars>>

PushLoadTail ==
  /\ ppc = "loadTail"
  /\ IF After(pHead) = tail
       THEN /\ ppc' = "idle"
            /\ pushed' = 0
       ELSE /\ ppc' = "storeData"
            /\ UNCHANGED pushed
  /\ UNCHANGED <<queueVars, pByte, pHead, pCount, consVars>>

\* Mutant of PushStoreData: the byte goes to the index after head (r12, not r2).
PushStoreDataAtNext ==
  /\ ppc = "storeData"
  /\ ppc' = "publish"
  /\ data' = [data EXCEPT ![After(pHead)] = pByte]
  /\ UNCHANGED <<head, tail, pByte, pHead, pCount, pushed, consVars>>

PushStoreData ==
  /\ ppc = "storeData"
  /\ ppc' = "publish"
  /\ data' = [data EXCEPT ![pHead] = pByte]
  /\ UNCHANGED <<head, tail, pByte, pHead, pCount, pushed, consVars>>

PushPublish ==
  /\ ppc = "publish"
  /\ ppc' = "idle"
  /\ head' = After(pHead)
  /\ pushed' = 1
  /\ UNCHANGED <<tail, data, pByte, pHead, pCount, consVars>>

-----------------------------------------------------------------------------
(* spsc_byte_pop, called by the consumer.                                  *)

PopLoadTail ==
  /\ cpc = "idle"
  /\ cpc' = "loadHead"
  /\ cTail' = tail
  /\ UNCHANGED <<queueVars, prodVars, cByte, cCount, popped>>

PopLoadHead ==
  /\ cpc = "loadHead"
  /\ IF cTail = head
       THEN /\ cpc' = "idle"
            /\ popped' = None
       ELSE /\ cpc' = "loadData"
            /\ UNCHANGED popped
  /\ UNCHANGED <<queueVars, prodVars, cTail, cByte, cCount>>

PopLoadData ==
  /\ cpc = "loadData"
  /\ cpc' = "storeTail"
  /\ cByte' = data[cTail]
  /\ UNCHANGED <<queueVars, prodVars, cTail, cCount, popped>>

PopStoreTail ==
  /\ cpc = "storeTail"
  /\ cpc' = "idle"
  /\ tail' = After(cTail)
  /\ popped' = cByte
  /\ UNCHANGED <<head, data, prodVars, cTail, cByte, cCount>>

-----------------------------------------------------------------------------
(* spsc_byte_count, called from either side: head is loaded first.         *)

ProducerCountLoadHead ==
  /\ ppc = "idle"
  /\ ppc' = "countTail"
  /\ pHead' = head
  /\ UNCHANGED <<queueVars, pByte, pCount, pushed, consVars>>

ProducerCountLoadTail ==
  /\ ppc = "countTail"
  /\ ppc' = "idle"
  /\ pCount' = Count(pHead, tail)
  /\ UNCHANGED <<queueVars, pByte, pHead, pushed, consVars>>

ConsumerCountLoadHead ==
  /\ cpc = "idle"
  /\ cpc' = "countTail"
  /\ cTail' = head
  /\ UNCHANGED <<queueVars, prodVars, cByte, cCount, popped>>

ConsumerCountLoadTail ==
  /\ cpc = "countTail"
  /\ cpc' = "idle"
  /\ cCount' = Count(cTail, tail)
  /\ UNCHANGED <<queueVars, prodVars, cTail, cByte, popped>>

-----------------------------------------------------------------------------
\* spsc_reset, under its documented condition: no push or pop in progress.
Reset ==
  /\ ppc = "idle"
  /\ cpc = "idle"
  /\ head' = 0
  /\ tail' = 0
  /\ UNCHANGED <<data, prodVars, consVars>>

Producer ==
  \/ PushLoadHead \/ PushLoadTail \/ PushStoreData \/ PushPublish
  \/ ProducerCountLoadHead \/ ProducerCountLoadTail

Consumer ==
  \/ PopLoadTail \/ PopLoadHead \/ PopLoadData \/ PopStoreTail
  \/ ConsumerCountLoadHead \/ ConsumerCountLoadTail

Next == Producer \/ Consumer \/ Reset

Spec == Init /\ [][Next]_vars

-----------------------------------------------------------------------------
(* Type correctness of the header words, the buffer and the registers.     *)
TypeOK ==
  /\ head \in Index
  /\ tail \in Index
  /\ data \in [Index -> Byte]
  /\ ppc \in {"idle", "loadTail", "storeData", "publish", "countTail"}
  /\ pByte \in Byte
  /\ pHead \in Index
  /\ pCount \in Index
  /\ pushed \in {0, 1}
  /\ cpc \in {"idle", "loadHead", "loadData", "storeTail", "countTail"}
  /\ cTail \in Index
  /\ cByte \in Byte
  /\ cCount \in Index
  /\ popped \in Byte \cup {None}

\* The number of bytes buffered now, whoever asks.
Used == Distance(head, tail)

\* The i-th slot in use, counting from the oldest.
Slot(i) == (tail + i - 1) % Size

\* The buffered bytes, oldest first: what the ring stands for.
Contents == [i \in 1 .. Used |-> data[Slot(i)]]

Fifo == INSTANCE ByteFifo WITH
  Capacity <- Size - 1, queue <- Contents, byte <- pByte

(***************************************************************************)
(* The ring is a FIFO buffer of Size - 1 bytes: whatever the two sides     *)
(* interleave, no byte is lost, repeated, reordered or read half written,  *)
(* "full" is answered only when Size - 1 bytes are buffered and "empty"    *)
(* only when none is (spsc.S, spsc_byte_push and spsc_byte_pop).           *)
(***************************************************************************)
IsFifo == Fifo!Spec

(***************************************************************************)
(* A slot is never accessed from both sides at once: while the producer is *)
(* between its full check and the publication of head, the slot it writes  *)
(* is not one the consumer has chosen to read (the reserved slot of        *)
(* spsc.inc is what separates them).                                       *)
(***************************************************************************)
NoSharedSlot ==
  ~ /\ ppc \in {"storeData", "publish"}
    /\ cpc \in {"loadData", "storeTail"}
    /\ pHead = cTail

(***************************************************************************)
(* Counts err on the safe side, although the other side moves between the  *)
(* two loads of spsc_byte_count.  A count the consumer takes is never more *)
(* than it can pop: a drain loop that runs so many times never meets an    *)
(* empty queue.  A count the producer takes never understates what is      *)
(* buffered: the room it computes, Size - 1 minus the count, is there.     *)
(***************************************************************************)
CountsAreSafe ==
  [][/\ cpc = "countTail" /\ cpc' = "idle" => cCount' <= Used
     /\ ppc = "countTail" /\ ppc' = "idle" => pCount' >= Used]_vars

(***************************************************************************)
(* The strengthening that makes NoSharedSlot and the refinement inductive: *)
(* each side's loaded index is still the index it owns, a writing producer *)
(* has room, a reading consumer has a byte, the byte in a register is the  *)
(* byte in the ring, and a head loaded for a count can only be too old.    *)
(***************************************************************************)
ProducerInv ==
  /\ ppc # "idle" => pHead = head
  /\ ppc \in {"storeData", "publish"} => After(head) # tail
  /\ ppc = "publish" => data[head] = pByte

ConsumerInv ==
  /\ cpc \in {"loadHead", "loadData", "storeTail"} => cTail = tail
  /\ cpc \in {"loadData", "storeTail"} => head # tail
  /\ cpc = "storeTail" => cByte = data[tail]
  /\ cpc = "countTail" => Distance(cTail, tail) <= Used

IInv == TypeOK /\ ProducerInv /\ ConsumerInv

=============================================================================
