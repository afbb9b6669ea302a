------------------------------ MODULE BumpHeap ------------------------------
(***************************************************************************)
(* The bump allocator of src/rust_bridge/rp-asm-rt/src/lib.rs, called from *)
(* the main program and from interrupt handlers that preempt it and each   *)
(* other.  Only the innermost context runs, so a context stands still      *)
(* between its load of HEAP_NEXT and its compare-and-swap while all those  *)
(* above it allocate.                                                      *)
(*                                                                         *)
(* compare_exchange_weak is an LDREX/STREX pair: taking an exception       *)
(* clears the exclusive monitor, so the swap may also fail although        *)
(* HEAP_NEXT has not changed.                                              *)
(***************************************************************************)
EXTENDS Integers

CONSTANTS
  Request,   \* The layouts asked for: [size, align] records.
  HeapSize,  \* HEAP_SIZE.
  Base,      \* Where the linker placed HEAP.
  Nest,      \* How many handlers may be active at once.
  MaxEvents  \* Bound: calls of alloc and exceptions.

ASSUME HeapAssumption ==
  /\ HeapSize \in Nat /\ Base \in Nat \ {0}
  /\ Nest \in Nat /\ MaxEvents \in Nat
ASSUME RequestAssumption ==
  \A r \in Request : r = [size |-> r.size, align |-> r.align]
                     /\ r.size \in Nat \ {0} /\ r.align \in Nat \ {0}
\* Layout guarantees it; the masks of alloc compute AlignUp only then.
ASSUME LayoutAssumption ==
  \A r \in Request : r.align \in {2^k : k \in 0 .. 15}

\* HEAP is align(8): true of every request up to that alignment, and of no
\* wider one the linker does not happen to satisfy.
BaseAligned == \A r \in Request : Base % r.align = 0

Context == 0 .. Nest  \* 0 is main, c + 1 the handler that preempted c.
Idle == [size |-> 0, align |-> 1]
Null == 0

VARIABLES
  heapNext,  \* HEAP_NEXT.
  top,       \* The context that runs.
  pc,        \* Where each context is in alloc.
  layout,    \* Its argument.
  current,   \* Its local variable.
  disturbed, \* Has an exception come since it last tried to swap?
  answer,    \* The pointer its last call returned.
  blocks,    \* The blocks given away so far (history).
  events     \* Calls and exceptions so far (bound).

locals == <<layout, current>>
vars == <<heapNext, top, pc, locals, disturbed, answer, blocks, events>>

Init ==
  /\ heapNext = 0
  /\ top = 0
  /\ pc = [c \in Context |-> "idle"]
  /\ layout = [c \in Context |-> Idle]
  /\ current = [c \in Context |-> 0]
  /\ disturbed = [c \in Context |-> FALSE]
  /\ answer = [c \in Context |-> Null]
  /\ blocks = {}
  /\ events = 0

-----------------------------------------------------------------------------
(* What alloc computes.                                                    *)

\* (current + align - 1) & !(align - 1), align a power of two.
AlignUp(x, align) == (x + align - 1) - ((x + align - 1) % align)

Aligned(c) == AlignUp(current[c], layout[c].align)
End(c) == Aligned(c) + layout[c].size

\* Some(n) if n <= HEAP_SIZE; an overflow of checked_add is far beyond it.
Enough(c) == End(c) <= HeapSize

-----------------------------------------------------------------------------
(* alloc, one action per access of HEAP_NEXT.                              *)

Runs(c, place) == top = c /\ pc[c] = place

Call(c) ==
  /\ Runs(c, "idle")
  /\ events < MaxEvents
  /\ events' = events + 1
  /\ \E r \in Request : layout' = [layout EXCEPT ![c] = r]
  /\ pc' = [pc EXCEPT ![c] = "load"]
  /\ UNCHANGED <<heapNext, top, current, disturbed, answer, blocks>>

Load(c) ==
  /\ Runs(c, "load")
  /\ current' = [current EXCEPT ![c] = heapNext]
  /\ pc' = [pc EXCEPT ![c] = "try"]
  /\ UNCHANGED <<heapNext, top, layout, disturbed, answer, blocks, events>>

\* Not enough left above the value it has seen.
ReturnNull(c) ==
  /\ Runs(c, "try")
  /\ ~Enough(c)
  /\ answer' = [answer EXCEPT ![c] = Null]
  /\ layout' = [layout EXCEPT ![c] = Idle]
  /\ pc' = [pc EXCEPT ![c] = "idle"]
  /\ UNCHANGED <<heapNext, top, current, disturbed, blocks, events>>

\* Mutant of Swap: a plain store, without the comparison.
SwapBlindly(c) ==
  /\ Runs(c, "try")
  /\ Enough(c)
  /\ heapNext' = End(c)
  /\ answer' = [answer EXCEPT ![c] = Base + Aligned(c)]
  /\ blocks' = blocks \cup
       {[at |-> Base + Aligned(c), size |-> layout[c].size]}
  /\ layout' = [layout EXCEPT ![c] = Idle]
  /\ pc' = [pc EXCEPT ![c] = "idle"]
  /\ UNCHANGED <<top, current, disturbed, events>>

\* Ok(_): the block is the caller's.
Swap(c) ==
  /\ Runs(c, "try")
  /\ Enough(c)
  /\ heapNext = current[c]
  /\ heapNext' = End(c)
  /\ answer' = [answer EXCEPT ![c] = Base + Aligned(c)]
  /\ blocks' = blocks \cup
       {[at |-> Base + Aligned(c), size |-> layout[c].size]}
  /\ layout' = [layout EXCEPT ![c] = Idle]
  /\ pc' = [pc EXCEPT ![c] = "idle"]
  /\ UNCHANGED <<top, current, disturbed, events>>

\* Mutant of SwapFails: the loop goes on with the value it had.
SwapFailsForgetsNow(c) ==
  /\ Runs(c, "try")
  /\ Enough(c)
  /\ heapNext # current[c] \/ disturbed[c]
  /\ disturbed' = [disturbed EXCEPT ![c] = FALSE]
  /\ UNCHANGED <<heapNext, top, pc, locals, answer, blocks, events>>

\* Err(now): somebody was faster, or the monitor was cleared.
SwapFails(c) ==
  /\ Runs(c, "try")
  /\ Enough(c)
  /\ heapNext # current[c] \/ disturbed[c]
  /\ current' = [current EXCEPT ![c] = heapNext]
  /\ disturbed' = [disturbed EXCEPT ![c] = FALSE]
  /\ UNCHANGED <<heapNext, top, pc, layout, answer, blocks, events>>

Alloc(c) == Load(c) \/ ReturnNull(c) \/ Swap(c) \/ SwapFails(c)

-----------------------------------------------------------------------------
(* Preemption, by handlers that may or may not allocate.                   *)

Preempt ==
  /\ top < Nest
  /\ events < MaxEvents
  /\ top' = top + 1
  /\ events' = events + 1
  /\ disturbed' = [disturbed EXCEPT ![top] = TRUE]
  /\ UNCHANGED <<heapNext, pc, locals, answer, blocks>>

Return ==
  /\ top > 0
  /\ pc[top] = "idle"
  /\ top' = top - 1
  /\ UNCHANGED <<heapNext, pc, locals, disturbed, answer, blocks, events>>

Next ==
  \/ \E c \in Context : Call(c) \/ Alloc(c)
  \/ Preempt
  \/ Return

(***************************************************************************)
(* Fairness: the innermost context goes on, and a handler that is done     *)
(* returns.  Nobody has to call or to interrupt.                           *)
(***************************************************************************)
Spec ==
  Init /\ [][Next]_vars /\ WF_vars(\E c \in Context : Alloc(c)) /\ WF_vars(Return)

-----------------------------------------------------------------------------
Block == [at : Nat, size : Nat]

TypeOK ==
  /\ heapNext \in 0 .. HeapSize
  /\ top \in Context
  /\ pc \in [Context -> {"idle", "load", "try"}]
  /\ layout \in [Context -> Request \cup {Idle}]
  /\ current \in [Context -> 0 .. HeapSize]
  /\ disturbed \in [Context -> BOOLEAN]
  /\ answer \in [Context -> Nat]
  /\ blocks \subseteq Block
  /\ events \in 0 .. MaxEvents

Region == INSTANCE Heap WITH Caller <- Context, Room <- HeapSize,
                             asked <- layout

(***************************************************************************)
(* The allocator is a heap whose calls take one step: whatever preempts a  *)
(* call, its block is aligned, inside HEAP and apart from all others, and  *)
(* it is refused only when nothing of the size fits above the last block.  *)
(***************************************************************************)
IsHeap == Region!Spec

(***************************************************************************)
(* No byte of the heap belongs to two owners.                              *)
(***************************************************************************)
BlocksApart ==
  \A b, d \in blocks : b # d => Region!Apart(b, d)

(***************************************************************************)
(* heap_used: what it reports covers every block given away, and ends with *)
(* one, although handlers allocate while another call is in its loop.      *)
(***************************************************************************)
UsedIsExact ==
  /\ \A b \in blocks : b.at + b.size <= Base + heapNext
  /\ heapNext = 0 \/ \E b \in blocks : b.at + b.size = Base + heapNext

(***************************************************************************)
(* A call returns: each retry is paid for by an exception or by somebody   *)
(* else's block, and neither goes on for ever.                             *)
(***************************************************************************)
AllocReturns == \A c \in Context : pc[c] # "idle" ~> pc[c] = "idle"

-----------------------------------------------------------------------------
(* The strengthening: a caller in its loop has a layout and has seen a     *)
(* value HEAP_NEXT has really had.                                         *)

Seen ==
  \A c \in Context :
    /\ pc[c] = "try" => current[c] <= heapNext
    /\ pc[c] # "idle" => layout[c] \in Request
    /\ pc[c] = "idle" <=> layout[c] = Idle

IInv == TypeOK /\ Seen /\ UsedIsExact /\ BlocksApart

=============================================================================
