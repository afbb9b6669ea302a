--------------------------- MODULE BumpHeapProofs ---------------------------
(***************************************************************************)
(* Proofs about BumpHeap for every heap size, set of layouts, depth of     *)
(* preemption and number of calls.                                         *)
(***************************************************************************)
EXTENDS BumpHeap, TLAPS

-----------------------------------------------------------------------------
(* The arithmetic of alloc, for any alignment, not only powers of two.     *)

\* Quotient and remainder.
LEMMA Euclid ==
  ASSUME NEW x \in Nat, NEW a \in Nat \ {0}
  PROVE  /\ x \div a \in Nat /\ x % a \in 0 .. a - 1
         /\ x = a * (x \div a) + (x % a)
OBVIOUS

\* Multiplication by an alignment is monotone.
LEMMA Mono ==
  ASSUME NEW a \in Nat \ {0}, NEW p \in Int, NEW q \in Int, p <= q
  PROVE  a * p <= a * q
OBVIOUS

\* Multiplication distributes over a sum.
LEMMA Dist ==
  ASSUME NEW a \in Int, NEW p \in Int, NEW q \in Int
  PROVE  a * (p + q) = a * p + a * q
OBVIOUS

\* A multiple plus a residue leaves the residue.
LEMMA Residue ==
  ASSUME NEW a \in Nat \ {0}, NEW k \in Nat, NEW r \in 0 .. a-1
  PROVE  (a * k + r) % a = r
OBVIOUS

\* Rounding up never rounds down, and adds less than the alignment.
LEMMA AlignUpBounds ==
  ASSUME NEW x \in Nat, NEW a \in Nat \ {0}
  PROVE  /\ AlignUp(x, a) \in Nat
         /\ x <= AlignUp(x, a) /\ AlignUp(x, a) < x + a
BY DEF AlignUp

\* What alloc computes is a multiple of the alignment.
LEMMA AlignUpAligned ==
  ASSUME NEW x \in Nat, NEW a \in Nat \ {0}
  PROVE  AlignUp(x, a) % a = 0
<1> DEFINE y == x + a - 1
<1>1. y \in Nat
  OBVIOUS
<1>2. y \div a \in Nat /\ y = a * (y \div a) + (y % a)
  BY <1>1, Euclid
<1>3. AlignUp(x, a) = a * (y \div a)
  <2>1. y % a \in Int /\ a * (y \div a) \in Int
    BY <1>1, <1>2, Euclid
  <2>2. AlignUp(x, a) = y - (y % a)
    BY DEF AlignUp
  <2>3. QED
    BY <1>1, <1>2, <2>1, <2>2
<1>4. a * (y \div a) + 0 = a * (y \div a)
  BY <1>2
<1>5. QED
  BY <1>2, <1>3, <1>4, Residue

\* An aligned number is a multiple.
LEMMA Quotient ==
  ASSUME NEW y \in Nat, NEW a \in Nat \ {0}, y % a = 0
  PROVE  \E q \in Nat : y = a * q
<1>1. y \div a \in Nat /\ y = a * (y \div a) + (y % a)
  BY Euclid
<1>2. a * (y \div a) \in Int
  BY <1>1
<1>3. y = a * (y \div a)
  BY <1>1, <1>2
<1>4. QED
  BY <1>1, <1>3, Zenon

\* No aligned number in between: alloc wastes no more than it must.
LEMMA AlignUpLeast ==
  ASSUME NEW x \in Nat, NEW a \in Nat \ {0}, NEW at \in Nat, x <= at, at % a = 0
  PROVE  AlignUp(x, a) <= at
<1>1. PICK q \in Nat : AlignUp(x, a) = a * q
  BY AlignUpBounds, AlignUpAligned, Quotient
<1>2. PICK m \in Nat : at = a * m
  BY Quotient
<1>3. a * q < a * m + a
  <2>1. AlignUp(x, a) < at + a
    BY AlignUpBounds
  <2>2. QED
    BY <1>1, <1>2, <2>1, Zenon
<1>4. q \in Int /\ m \in Int /\ m + 1 \in Int
  OBVIOUS
<1>5. CASE q <= m
  <2>1. a * q <= a * m
    BY <1>4, <1>5, Mono, Zenon
  <2>2. QED
    BY <1>1, <1>2, <2>1, Zenon
<1>6. CASE m + 1 <= q
  <2>1. a * (m + 1) <= a * q
    BY <1>4, <1>6, Mono, Zenon
  <2>2. a * (m + 1) = a * m + a
    BY <1>4, Dist
  <2>3. a * m \in Int /\ a * q \in Int
    BY <1>4
  <2>4. QED
    BY <1>3, <2>1, <2>2, <2>3
<1>7. QED
  BY <1>4, <1>5, <1>6

\* Alignment of an offset from an aligned base.
LEMMA SumAligned ==
  ASSUME NEW x \in Nat, NEW y \in Nat, NEW a \in Nat \ {0}, x % a = 0
  PROVE  (x + y) % a = y % a
<1>1. PICK m \in Nat : x = a * m
  BY Quotient
<1> DEFINE n == y \div a
           r == y % a
<1>2. n \in Nat /\ r \in 0 .. a - 1 /\ y = a * n + r
  BY Euclid
<1> HIDE DEF n, r
<1>3. a * (m + n) = a * m + a * n
  <2>1. a \in Int /\ m \in Int /\ n \in Int
    BY <1>2
  <2>2. QED
    BY <2>1, Dist, Zenon
<1>4. x + y = a * (m + n) + r
  <2>1. a * m \in Int /\ a * n \in Int /\ r \in Int
    BY <1>2
  <2>2. x + y = (a * m) + (a * n + r)
    BY <1>1, <1>2, Zenon
  <2>3. QED
    BY <1>3, <2>1, <2>2
<1>5. m + n \in Nat
  BY <1>2
<1>6. (x + y) % a = r
  BY <1>2, <1>4, <1>5, Residue, Zenon
<1>7. QED
  BY <1>6 DEF r
-----------------------------------------------------------------------------
(* The inductive invariant.                                                *)

\* The initial state is typed, and nothing is given away.
LEMMA InitInv == Init => IInv
BY HeapAssumption DEF Init, IInv, TypeOK, Seen, UsedIsExact, BlocksApart,
   Context, Block, locals, Null

\* A layout asked for is not the idle one.
LEMMA RequestShape ==
  ASSUME NEW r \in Request
  PROVE  r # Idle /\ r.size \in Nat \ {0} /\ r.align \in Nat \ {0}
BY RequestAssumption DEF Idle

\* A caller in its loop computes a place at or above the value it saw.
LEMMA PlaceAbove ==
  ASSUME IInv, NEW c \in Context, pc[c] = "try"
  PROVE  /\ layout[c] \in Request /\ layout[c].size \in Nat \ {0}
         /\ layout[c].align \in Nat \ {0}
         /\ current[c] \in Nat /\ current[c] <= heapNext
         /\ Aligned(c) \in Nat /\ current[c] <= Aligned(c)
         /\ End(c) \in Nat /\ Aligned(c) < End(c)
<1>1. /\ layout[c] \in Request /\ current[c] \in Nat
      /\ current[c] <= heapNext
  BY HeapAssumption DEF IInv, TypeOK, Seen
<1>2. layout[c].size \in Nat \ {0} /\ layout[c].align \in Nat \ {0}
  BY <1>1, RequestShape
<1>3. Aligned(c) \in Nat /\ current[c] <= Aligned(c)
  BY <1>1, <1>2, AlignUpBounds DEF Aligned
<1>4. QED
  BY <1>1, <1>2, <1>3 DEF End

\* What does not touch the heap keeps its invariants.
LEMMA HeapSame ==
  ASSUME IInv, UNCHANGED <<heapNext, blocks>>
  PROVE  UsedIsExact' /\ BlocksApart'
BY DEF IInv, UsedIsExact, BlocksApart, Region!Apart

LEMMA CallInv ==
  ASSUME IInv, NEW c \in Context, Call(c)
  PROVE  IInv'
<1>1. PICK r \in Request : layout' = [layout EXCEPT ![c] = r]
  BY DEF Call
<1>2. r # Idle
  BY RequestShape
<1>3. TypeOK'
  BY <1>1, HeapAssumption DEF Call, IInv, TypeOK
<1>4. Seen'
  BY <1>1, <1>2 DEF Call, IInv, TypeOK, Seen, Runs
<1>5. QED
  BY <1>3, <1>4, HeapSame DEF Call, IInv

LEMMA LoadInv ==
  ASSUME IInv, NEW c \in Context, Load(c)
  PROVE  IInv'
<1>1. TypeOK'
  BY DEF Load, IInv, TypeOK
<1>2. Seen'
  BY HeapAssumption DEF Load, IInv, TypeOK, Seen, Runs
<1>3. QED
  BY <1>1, <1>2, HeapSame DEF Load, IInv

LEMMA ReturnNullInv ==
  ASSUME IInv, NEW c \in Context, ReturnNull(c)
  PROVE  IInv'
<1>1. TypeOK'
  BY DEF ReturnNull, IInv, TypeOK, Null
<1>2. Seen'
  BY DEF ReturnNull, IInv, TypeOK, Seen, Runs
<1>3. QED
  BY <1>1, <1>2, HeapSame DEF ReturnNull, IInv

LEMMA SwapFailsInv ==
  ASSUME IInv, NEW c \in Context, SwapFails(c)
  PROVE  IInv'
<1>1. TypeOK'
  BY DEF SwapFails, IInv, TypeOK
<1>2. Seen'
  BY HeapAssumption DEF SwapFails, IInv, TypeOK, Seen, Runs
<1>3. QED
  BY <1>1, <1>2, HeapSame DEF SwapFails, IInv

\* The block just swapped in lies above all the others.
LEMMA SwapInv ==
  ASSUME IInv, NEW c \in Context, Swap(c)
  PROVE  IInv'
<1> DEFINE new == [at |-> Base + Aligned(c), size |-> layout[c].size]
<1>1. pc[c] = "try" /\ Enough(c) /\ heapNext = current[c]
  BY DEF Swap, Runs
<1>2. /\ layout[c].size \in Nat \ {0} /\ Aligned(c) \in Nat
      /\ heapNext <= Aligned(c) /\ End(c) \in Nat /\ Aligned(c) < End(c)
      /\ End(c) <= HeapSize /\ End(c) = Aligned(c) + layout[c].size
  BY <1>1, PlaceAbove DEF Enough, End
<1>3. new \in Block
  BY <1>2, HeapAssumption DEF Block
<1>4. heapNext' = End(c) /\ blocks' = blocks \cup {new}
  BY DEF Swap
<1>5. TypeOK'
  BY <1>2, <1>3, <1>4, HeapAssumption DEF Swap, IInv, TypeOK, Block
<1>6. Seen'
  <2>1. ASSUME NEW d \in Context
        PROVE  /\ pc'[d] = "try" => current'[d] <= heapNext'
               /\ pc'[d] # "idle" => layout'[d] \in Request
               /\ pc'[d] = "idle" <=> layout'[d] = Idle
    BY <1>2, <1>4, HeapAssumption DEF Swap, IInv, TypeOK, Seen
  <2>2. QED
    BY <2>1 DEF Seen
<1>7. new.at + new.size = Base + heapNext'
  BY <1>2, <1>4, HeapAssumption
<1>8. \A b \in blocks : b.at + b.size <= Base + heapNext
  BY DEF IInv, UsedIsExact
<1>9. heapNext \in Nat /\ \A b \in blocks : b.at \in Nat /\ b.size \in Nat
  BY HeapAssumption DEF IInv, TypeOK, Block
<1>10. UsedIsExact'
  <2>1. ASSUME NEW b \in blocks'
        PROVE  b.at + b.size <= Base + heapNext'
    BY <1>2, <1>4, <1>7, <1>8, <1>9, HeapAssumption
  <2>2. QED
    BY <1>4, <1>7, <2>1 DEF UsedIsExact
<1>11. \A b \in blocks : b.at + b.size <= new.at
  BY <1>2, <1>8, <1>9, HeapAssumption
<1>12. BlocksApart'
  BY <1>4, <1>11 DEF IInv, BlocksApart, Region!Apart
<1>13. QED
  BY <1>5, <1>6, <1>10, <1>12 DEF IInv

LEMMA PreemptionInv ==
  ASSUME IInv, Preempt \/ Return
  PROVE  IInv'
<1>1. TypeOK'
  <2>1. CASE Preempt
    BY <2>1, HeapAssumption DEF Preempt, IInv, TypeOK, Context, locals
  <2>2. CASE Return
    BY <2>2, HeapAssumption DEF Return, IInv, TypeOK, Context, locals
  <2>3. QED
    BY <2>1, <2>2
<1>2. Seen'
  BY DEF Preempt, Return, IInv, Seen, locals
<1>3. QED
  BY <1>1, <1>2, HeapSame DEF Preempt, Return, IInv

\* Every step of any context, and every exception, keeps the invariant.
LEMMA StepInv == IInv /\ [Next]_vars => IInv'
<1> SUFFICES ASSUME IInv, [Next]_vars PROVE IInv'
  OBVIOUS
<1>1. ASSUME NEW c \in Context, Call(c) \/ Alloc(c) PROVE IInv'
  BY <1>1, CallInv, LoadInv, ReturnNullInv, SwapInv, SwapFailsInv DEF Alloc
<1>2. CASE Preempt \/ Return
  BY <1>2, PreemptionInv
<1>3. CASE UNCHANGED vars
  <2>1. TypeOK' /\ Seen'
    BY <1>3 DEF vars, locals, IInv, TypeOK, Seen
  <2>2. QED
    BY <1>3, <2>1, HeapSame DEF vars, IInv
<1>4. QED
  BY <1>1, <1>2, <1>3 DEF Next

\* The allocator keeps its invariant whatever preempts whom.
THEOREM Invariance == Spec => []IInv
<1>1. QED
  BY InitInv, StepInv, PTL DEF Spec

\* HEAP_NEXT stays inside the heap, and every context is in a known place.
THEOREM TypeCorrect == Spec => []TypeOK
<1>1. IInv => TypeOK
  BY DEF IInv
<1>2. QED
  BY <1>1, Invariance, PTL

\* No byte of the heap is ever given to two callers.
THEOREM BlocksNeverOverlap == Spec => []BlocksApart
<1>1. IInv => BlocksApart
  BY DEF IInv
<1>2. QED
  BY <1>1, Invariance, PTL

\* heap_used covers exactly what has been given away and its padding.
THEOREM UsedCoversBlocks == Spec => []UsedIsExact
<1>1. IInv => UsedIsExact
  BY DEF IInv
<1>2. QED
  BY <1>1, Invariance, PTL

-----------------------------------------------------------------------------
(* The refinement.                                                         *)

LEMMA InitRefines == Init => Region!Init
BY DEF Init, locals, Region!Init, Region!NoCall, Region!Null, Idle, Null

\* A caller refused finds no room above the blocks, whatever HEAP_NEXT has
\* become since it looked.
LEMMA NullMeansFull ==
  ASSUME BaseAligned, IInv, NEW c \in Context, ReturnNull(c),
         NEW at \in Region!Address
  PROVE  ~Region!FitsAbove(at, layout[c])
<1> SUFFICES ASSUME Region!FitsAbove(at, layout[c]) PROVE FALSE
  OBVIOUS
<1> DEFINE a == layout[c].align
           off == at - Base
<1>1. pc[c] = "try" /\ ~Enough(c)
  BY DEF ReturnNull, Runs
<1>2. /\ layout[c] \in Request /\ layout[c].size \in Nat \ {0}
      /\ a \in Nat \ {0} /\ current[c] \in Nat /\ current[c] <= heapNext
  BY <1>1, PlaceAbove
<1>3. at \in Nat /\ off \in Nat /\ at = Base + off
  BY HeapAssumption DEF Region!Address
<1>4. /\ at + layout[c].size <= Base + HeapSize /\ at % a = 0
      /\ \A b \in blocks : b.at + b.size <= at
  BY DEF Region!FitsAbove
<1>5. heapNext <= off
  <2>1. CASE heapNext = 0
    BY <1>3, <2>1
  <2>2. CASE \E b \in blocks : b.at + b.size = Base + heapNext
    BY <1>3, <1>4, <2>2, HeapAssumption DEF IInv, TypeOK
  <2>3. QED
    BY <2>1, <2>2 DEF IInv, UsedIsExact
<1>6. current[c] <= off
  BY <1>2, <1>3, <1>5, HeapAssumption DEF IInv, TypeOK
<1>7. off % a = 0
  <2>1. Base % a = 0 /\ Base \in Nat
    BY <1>2, HeapAssumption DEF BaseAligned
  <2>2. (Base + off) % a = off % a
    BY <1>2, <1>3, <2>1, SumAligned
  <2>3. QED
    BY <1>3, <1>4, <2>2
<1>8. Aligned(c) <= off
  BY <1>2, <1>3, <1>6, <1>7, AlignUpLeast DEF Aligned
<1>9. Aligned(c) \in Nat
  BY <1>1, PlaceAbove
<1>10. End(c) <= HeapSize
  BY <1>2, <1>3, <1>4, <1>8, <1>9, HeapAssumption DEF End
<1>11. QED
  BY <1>1, <1>10 DEF Enough

LEMMA RefusalRefines ==
  ASSUME BaseAligned, IInv, NEW c \in Context, ReturnNull(c)
  PROVE  Region!Refuse(c)
<1>1. layout[c] # Region!NoCall
  BY PlaceAbove, RequestShape DEF ReturnNull, Runs, Region!NoCall, Idle
<1>2. \A at \in Region!Address : ~Region!FitsAbove(at, layout[c])
  BY NullMeansFull
<1>3. QED
  BY <1>1, <1>2 DEF ReturnNull, Region!Refuse, Region!Null, Region!NoCall, Null,
     Idle

LEMMA GrantRefines ==
  ASSUME BaseAligned, IInv, NEW c \in Context, Swap(c)
  PROVE  Region!Grant(c)
<1> DEFINE at == Base + Aligned(c)
           a == layout[c].align
<1>1. pc[c] = "try" /\ Enough(c) /\ heapNext = current[c]
  BY DEF Swap, Runs
<1>2. /\ layout[c] \in Request /\ layout[c].size \in Nat \ {0}
      /\ a \in Nat \ {0} /\ current[c] \in Nat
      /\ Aligned(c) \in Nat /\ heapNext <= Aligned(c)
      /\ Aligned(c) + layout[c].size <= HeapSize
  BY <1>1, PlaceAbove DEF Enough, End
<1>3. at \in Region!Address /\ at + layout[c].size <= Base + HeapSize
  BY <1>2, HeapAssumption DEF Region!Address
<1>4. at % a = 0
  <2>1. Base % a = 0 /\ Base \in Nat
    BY <1>2, HeapAssumption DEF BaseAligned
  <2>2. Aligned(c) % a = 0
    BY <1>2, AlignUpAligned DEF Aligned
  <2>3. QED
    BY <1>2, <2>1, <2>2, SumAligned
<1>5. \A b \in blocks : b.at + b.size <= at
  <2>1. heapNext \in Nat
    BY HeapAssumption DEF IInv, TypeOK
  <2>2. \A b \in blocks : /\ b.at \in Nat /\ b.size \in Nat
                          /\ b.at + b.size <= Base + heapNext
    BY DEF IInv, TypeOK, Block, UsedIsExact
  <2>3. QED
    BY <1>2, <2>1, <2>2, HeapAssumption
<1>6. Region!Fits(at, layout[c])
  BY <1>3, <1>4, <1>5 DEF Region!Fits, Region!Apart
<1>7. layout[c] # Region!NoCall
  BY <1>2, RequestShape DEF Region!NoCall, Idle
<1>8. /\ answer' = [answer EXCEPT ![c] = at]
      /\ blocks' = blocks \cup {[at |-> at, size |-> layout[c].size]}
      /\ layout' = [layout EXCEPT ![c] = Region!NoCall]
  BY DEF Swap, Idle, Region!NoCall
<1>9. QED
  BY <1>3, <1>6, <1>7, <1>8 DEF Region!Grant

LEMMA CallRefines ==
  ASSUME IInv, NEW c \in Context, Call(c)
  PROVE  Region!Ask(c)
<1>1. layout[c] = Region!NoCall
  BY DEF IInv, Seen, Call, Runs, Region!NoCall, Idle
<1>2. QED
  BY <1>1 DEF Call, Region!Ask

LEMMA StepRefines == BaseAligned /\ IInv /\ [Next]_vars => [Region!Next]_Region!vars
<1> SUFFICES ASSUME BaseAligned, IInv, [Next]_vars
             PROVE  Region!Next \/ UNCHANGED Region!vars
  OBVIOUS
<1>1. ASSUME NEW c \in Context, Call(c) \/ Alloc(c)
      PROVE  Region!Next \/ UNCHANGED Region!vars
  <2>1. CASE Call(c)
    BY <2>1, CallRefines DEF Region!Next
  <2>2. CASE ReturnNull(c)
    BY <2>2, RefusalRefines DEF Region!Next
  <2>3. CASE Swap(c)
    BY <2>3, GrantRefines DEF Region!Next
  <2>4. CASE Load(c) \/ SwapFails(c)
    BY <2>4 DEF Load, SwapFails, Region!vars, locals
  <2>5. QED
    BY <1>1, <2>1, <2>2, <2>3, <2>4 DEF Alloc
<1>2. CASE Preempt \/ Return \/ UNCHANGED vars
  BY <1>2 DEF Preempt, Return, vars, locals, Region!vars
<1>3. QED
  BY <1>1, <1>2 DEF Next

\* The allocator is a heap with one-step calls, if HEAP is placed at an
\* address aligned for every layout asked for.
THEOREM BumpImplementsHeap == ASSUME BaseAligned PROVE Spec => IsHeap
<1>1. IInv /\ [Next]_vars => [Region!Next]_Region!vars
  BY StepRefines, BaseAligned
<1>2. QED
  BY <1>1, Invariance, InitRefines, PTL DEF Spec, IsHeap, Region!Spec

=============================================================================
