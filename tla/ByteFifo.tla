------------------------------ MODULE ByteFifo ------------------------------
(***************************************************************************)
(* What the byte queue of spsc.inc promises, with no ring, no indices and  *)
(* no interleaving: a first-in first-out buffer of at most Capacity bytes. *)
(* A push either appends its byte and answers 1 or finds the buffer full   *)
(* and answers 0; a pop either removes the oldest byte and answers it or   *)
(* finds the buffer empty and answers -1.  Each happens in one step.       *)
(* Spsc.tla, the instruction-level model of spsc.S, implements this.       *)
(***************************************************************************)
EXTENDS Integers, Sequences

CONSTANTS
  Byte,      \* The values a slot can hold.
  Capacity   \* The number of bytes the queue can hold.

\* spsc.S: -1 (movs r0, #0; mvns r0, r0) is the answer of a pop that finds
\* nothing; it is outside 0..255, so no byte can be taken for it.
None == -1

VARIABLES
  queue,    \* The buffered bytes, oldest first.
  byte,     \* The byte offered to the push in progress.
  pushed,   \* r0 of the last completed push: 1 or 0.
  popped    \* r0 of the last completed pop: a byte, or None.

vars == <<queue, byte, pushed, popped>>

TypeOK ==
  /\ queue \in Seq(Byte)
  /\ byte \in Byte
  /\ pushed \in {0, 1}
  /\ popped \in Byte \cup {None}

Init ==
  /\ queue = << >>
  /\ byte \in Byte
  /\ pushed = 0
  /\ popped = None

\* A call of push, with a byte of the caller's.
Offer ==
  /\ byte' \in Byte
  /\ UNCHANGED <<queue, pushed, popped>>

Push ==
  /\ Len(queue) < Capacity
  /\ queue' = Append(queue, byte)
  /\ pushed' = 1
  /\ UNCHANGED <<byte, popped>>

PushFull ==
  /\ Len(queue) = Capacity
  /\ pushed' = 0
  /\ UNCHANGED <<queue, byte, popped>>

Pop ==
  /\ queue # << >>
  /\ popped' = Head(queue)
  /\ queue' = Tail(queue)
  /\ UNCHANGED <<byte, pushed>>

PopEmpty ==
  /\ queue = << >>
  /\ popped' = None
  /\ UNCHANGED <<queue, byte, pushed>>

Reset ==
  /\ queue' = << >>
  /\ UNCHANGED <<byte, pushed, popped>>

Next == Offer \/ Push \/ PushFull \/ Pop \/ PopEmpty \/ Reset

Spec == Init /\ [][Next]_vars

=============================================================================
