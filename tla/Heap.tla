-------------------------------- MODULE Heap --------------------------------
(***************************************************************************)
(* What a heap that never frees promises its callers, with no bump index,  *)
(* no compare-and-swap and no preemption: a call is answered in one step,  *)
(* with a block of its own or, only when nothing of that size fits above   *)
(* what has been given away, with the null pointer.                        *)
(* BumpHeap.tla, the allocator of rp-asm-rt, implements this.              *)
(***************************************************************************)
EXTENDS Integers

CONSTANTS
  Caller,   \* Who may have a call in progress.
  Request,  \* The layouts they ask for: [size, align] records.
  Base,     \* The address of the first byte of the region.
  Room      \* The size of the region.

NoCall == [size |-> 0, align |-> 1]
Null == 0
Address == Base .. Base + Room

VARIABLES
  asked,    \* The layout each caller is waiting for, or NoCall.
  answer,   \* The last address each caller was given, or Null.
  blocks    \* Every block given away: [at, size] records, at an address.

vars == <<asked, answer, blocks>>

\* Two blocks have no byte in common.
Apart(b, c) == b.at + b.size <= c.at \/ c.at + c.size <= b.at

\* A place for a request that overlaps no block.
Fits(at, r) ==
  /\ at + r.size <= Base + Room
  /\ at % r.align = 0
  /\ \A b \in blocks : Apart(b, [at |-> at, size |-> r.size])

\* A place above all blocks.
FitsAbove(at, r) ==
  /\ at + r.size <= Base + Room
  /\ at % r.align = 0
  /\ \A b \in blocks : b.at + b.size <= at

Init ==
  /\ asked = [c \in Caller |-> NoCall]
  /\ answer = [c \in Caller |-> Null]
  /\ blocks = {}

Ask(c) ==
  /\ asked[c] = NoCall
  /\ \E r \in Request : asked' = [asked EXCEPT ![c] = r]
  /\ UNCHANGED <<answer, blocks>>

Grant(c) ==
  /\ asked[c] # NoCall
  /\ \E at \in Address :
       /\ Fits(at, asked[c])
       /\ answer' = [answer EXCEPT ![c] = at]
       /\ blocks' = blocks \cup {[at |-> at, size |-> asked[c].size]}
  /\ asked' = [asked EXCEPT ![c] = NoCall]

Refuse(c) ==
  /\ asked[c] # NoCall
  /\ \A at \in Address : ~FitsAbove(at, asked[c])
  /\ answer' = [answer EXCEPT ![c] = Null]
  /\ asked' = [asked EXCEPT ![c] = NoCall]
  /\ UNCHANGED blocks

Next == \E c \in Caller : Ask(c) \/ Grant(c) \/ Refuse(c)

Spec == Init /\ [][Next]_vars

=============================================================================
