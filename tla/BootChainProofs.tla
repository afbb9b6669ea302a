-------------------------- MODULE BootChainProofs --------------------------
(***************************************************************************)
(* Proofs about BootChain for every set of builds, slot size and bound.    *)
(***************************************************************************)
EXTENDS BootChain, TLAPS

-----------------------------------------------------------------------------
(* The inductive invariant: what the TSBL has found out about flash is     *)
(* still so when it acts on it, since flash changes only in BOOTSEL; and   *)
(* scratch 6 and the registers still speak of the attempt before.          *)

Piece == [slot : Slot, at : 0 .. Pages, footer : Footers]

InTsbl == pc \in {"validateA", "validateB", "select", "mark", "handoff"}

Validated ==
  /\ InTsbl => WholeBuild("T")
  /\ pc \in {"validateB", "select"} /\ ok["A"] => WholeBuild("A")
  /\ pc = "select" /\ ok["B"] => WholeBuild("B")
  /\ pc \in {"mark", "handoff"} => WholeBuild(pick)
  /\ At("app") => WholeBuild(vtor)

Try(s) == IF s = "A" THEN "tryA" ELSE "tryB"

AttemptKept ==
  /\ ~boots.before.confirmed => boots.before.slot \in App
  /\ pc = "bootsel" => boots.before.confirmed
  /\ pc = "handoff" => scratch6 = Try(pick)
  /\ pc \in {"app", "parked"} =>
       /\ boots.now.slot = pick
       /\ ~boots.now.confirmed => scratch6 = Try(pick)
  /\ pc \in {"ssbl", "validateA", "validateB", "select"}
       /\ ~boots.before.confirmed => scratch6 = Try(boots.before.slot)
  /\ pc \in {"mark", "handoff"} /\ ~boots.before.confirmed =>
       pick # boots.before.slot

IInv ==
  /\ TypeOK
  /\ job \in Seq(Piece)
  /\ Validated
  /\ AttemptKept

-----------------------------------------------------------------------------
(* What validation finds out.                                              *)

\* What a footer names.
LEMMA FooterBuild ==
  ASSUME NEW f \in Footers
  PROVE  f.build \in Build \cup {Erased} /\ (f.magic => f.build \in Build)
<1>1. CASE f = NoFooter
  <2>1. f.build = Erased /\ f.magic = FALSE
    BY <1>1 DEF NoFooter
  <2>2. QED
    BY <2>1
<1>2. CASE f \in [magic : {TRUE}, build : Build, seq : Seqs, bad : BOOLEAN]
  BY <1>2
<1>3. QED
  BY <1>1, <1>2, Zenon DEF Footers

LEMMA ValidIsWhole ==
  ASSUME TypeOK, NEW s \in Slot, Valid(s)
  PROVE  WholeBuild(s)
<1>1. flash[s].footer \in Footers
  BY DEF TypeOK, Images
<1>2. flash[s].footer.build \in Build
  BY <1>1, FooterBuild DEF Valid
<1>3. Size[flash[s].footer.build] \in Nat /\ Pages \in Nat
  BY <1>2, BuildAssumption
<1>4. QED
  BY <1>3 DEF Valid, CrcMatches, WholeBuild

\* tsbl_ab_select answers a slot that validated, and never the slot whose
\* attempt scratch 6 records.
LEMMA SelectAbAnswers ==
  ASSUME NEW okA \in BOOLEAN, NEW okB \in BOOLEAN, NEW s6
  PROVE  LET chosen == SelectAb(okA, okB, s6)
         IN  /\ chosen \in App \cup {"none"}
             /\ chosen = "A" => okA
             /\ chosen = "B" => okB
             /\ s6 = "tryA" => chosen # "A"
             /\ s6 = "tryB" => chosen # "B"
BY DEF SelectAb, App

-----------------------------------------------------------------------------
\* The next piece of an update.
LEMMA HeadOfJob ==
  ASSUME job \in Seq(Piece), job # NoJob
  PROVE  Head(job) \in Piece
BY DEF NoJob

\* What the registers hold is of the types TypeOK gives them.
LEMMA TypeStep ==
  ASSUME IInv, [Next]_vars
  PROVE  TypeOK'
<1> USE DEF IInv, TypeOK, At, Goto, App, Slot, Booted, NoBoot
<1>1. CASE SsblCheck
  BY <1>1 DEF SsblCheck
<1>2. CASE TsblValidateA
  BY <1>2 DEF TsblValidateA, Validate, Valid, CrcMatches
<1>3. CASE TsblValidateB
  BY <1>3 DEF TsblValidateB, Validate, Valid, CrcMatches
<1>4. CASE TsblSelect
  BY <1>4, SelectAbAnswers DEF TsblSelect
<1>5. CASE TsblMark
  BY <1>5 DEF TsblMark
<1>6. CASE TsblHandoff
  BY <1>6 DEF TsblHandoff
<1>7. CASE AppConfirm
  BY <1>7 DEF AppConfirm
<1>8. CASE AppWatchdogEnable
  BY <1>8 DEF AppWatchdogEnable
<1>9. CASE AppWatchdogDisable
  BY <1>9 DEF AppWatchdogDisable, RunningHealthy
<1>10. ASSUME NEW flag \in {"dfu", "bootsel"}, AppRequest(flag)
       PROVE  TypeOK'
  <2>1. CASE Wired
    <3>1. boots' \in [now : Booted, before : Booted]
      <4>1. boots.now \in Booted /\ NoBoot \in Booted
        OBVIOUS
      <4>2. boots' = [now |-> NoBoot, before |-> boots.now]
        BY <1>10, <2>1 DEF AppRequest, Reset
      <4>3. QED
        BY <4>1, <4>2
    <3>2. QED
      BY <1>10, <2>1, <3>1 DEF AppRequest, Reset
  <2>2. CASE ~Wired
    BY <1>10, <2>2 DEF AppRequest, RunningHealthy
  <2>3. QED
    BY <2>1, <2>2
<1>11. CASE WatchdogFires
  BY <1>11 DEF WatchdogFires, Reset
<1>12. CASE PowerCycle
  BY <1>12 DEF PowerCycle
<1>13. ASSUME NEW s \in Slot, NEW b \in Build, NEW q \in Seqs,
            NEW bad \in BOOLEAN, UpdateBegins(s, Footer(b, q, bad))
     PROVE  TypeOK'
  BY <1>13 DEF UpdateBegins
<1>14. CASE UpdateWrites
  <2> DEFINE w == Head(job)
  <2>1. w \in Piece
    BY <1>14, HeadOfJob DEF UpdateWrites
  <2>2. w.slot \in Slot /\ w.at \in 0 .. Pages /\ w.footer \in Footers
    BY <2>1 DEF Piece
  <2>3. w.at # 0 => w.at \in 1 .. Pages /\ w.footer.build \in Build \cup {Erased}
    <3>1. w.footer.build \in Build \cup {Erased}
      BY <2>2, FooterBuild
    <3>2. QED
      BY <2>2, <3>1, BuildAssumption
  <2>4. flash' = IF w.at = 0
                 THEN [flash EXCEPT ![w.slot].footer = w.footer]
                 ELSE [flash EXCEPT ![w.slot].page[w.at] = w.footer.build]
    BY <1>14 DEF UpdateWrites
  <2> HIDE DEF w
  <2>5. flash[w.slot] \in Images
    BY <2>2
  <2>6. CASE w.at = 0
    <3>1. [flash[w.slot] EXCEPT !.footer = w.footer] \in Images
      BY <2>2, <2>5 DEF Images
    <3>2. flash' \in [Slot -> Images]
      BY <2>2, <2>4, <2>6, <3>1
    <3>3. QED
      BY <1>14, <3>2 DEF UpdateWrites
  <2>7. CASE w.at # 0
    <3>1. [flash[w.slot] EXCEPT !.page[w.at] = w.footer.build] \in Images
      BY <2>3, <2>5, <2>7 DEF Images
    <3>2. flash' \in [Slot -> Images]
      BY <2>2, <2>4, <2>7, <3>1
    <3>3. QED
      BY <1>14, <3>2 DEF UpdateWrites
  <2>8. QED
    BY <2>6, <2>7
<1>15. CASE UNCHANGED vars
  BY <1>15 DEF vars
<1>16. QED
  BY <1>1, <1>2, <1>3, <1>4, <1>5, <1>6, <1>7, <1>8, <1>9, <1>10, <1>11, <1>12, <1>13, <1>14, <1>15 DEF Next, Boot

\* An update is made of pieces of the slot.
LEMMA JobStep ==
  ASSUME IInv, [Next]_vars
  PROVE  job' \in Seq(Piece)
<1> USE DEF IInv
<1>1. CASE SsblCheck
  BY <1>1 DEF SsblCheck
<1>2. CASE TsblValidateA
  BY <1>2 DEF TsblValidateA, Validate
<1>3. CASE TsblValidateB
  BY <1>3 DEF TsblValidateB, Validate
<1>4. CASE TsblSelect
  BY <1>4 DEF TsblSelect
<1>5. CASE TsblMark
  BY <1>5 DEF TsblMark
<1>6. CASE TsblHandoff
  BY <1>6 DEF TsblHandoff
<1>7. CASE AppConfirm
  BY <1>7 DEF AppConfirm
<1>8. CASE AppWatchdogEnable
  BY <1>8 DEF AppWatchdogEnable
<1>9. CASE AppWatchdogDisable
  BY <1>9 DEF AppWatchdogDisable
<1>10. ASSUME NEW flag \in {"dfu", "bootsel"}, AppRequest(flag)
       PROVE  job' \in Seq(Piece)
  BY <1>10 DEF AppRequest, Reset
<1>11. CASE WatchdogFires
  BY <1>11 DEF WatchdogFires, Reset
<1>12. CASE PowerCycle
  BY <1>12 DEF PowerCycle, NoJob
<1>13. ASSUME NEW s \in Slot, NEW b \in Build, NEW q \in Seqs,
            NEW bad \in BOOLEAN, UpdateBegins(s, Footer(b, q, bad))
     PROVE  job' \in Seq(Piece)
  <2> DEFINE f == Footer(b, q, bad)
  <2>1. f \in Footers /\ f.build = b
    <3>1. f \in Footers
      BY <1>13 DEF Footers, Footer
    <3>2. f.build = b
      BY DEF Footer
    <3>3. QED
      BY <3>1, <3>2
  <2>2. Size[b] \in Nat /\ Pages \in Nat /\ Size[b] <= Pages
    BY <1>13, BuildAssumption DEF UpdateBegins, Footer
  <2> HIDE DEF f
  <2>3. \A p \in 1 .. Size[b] + 1 :
          [slot |-> s, at |-> IF p > Size[b] THEN 0 ELSE p, footer |-> f]
            \in Piece
    BY <1>13, <2>1, <2>2 DEF Piece
  <2>4. Pieces(s, f) \in [1 .. Size[b] + 1 -> Piece]
    BY <2>1, <2>3 DEF Pieces
  <2>5. Pieces(s, f) \in Seq(Piece)
    BY <2>2, <2>4
  <2>6. QED
    BY <1>13, <2>5 DEF UpdateBegins, f
<1>14. CASE UpdateWrites
  BY <1>14 DEF UpdateWrites, NoJob
<1>15. CASE UNCHANGED vars
  BY <1>15 DEF vars
<1>16. QED
  BY <1>1, <1>2, <1>3, <1>4, <1>5, <1>6, <1>7, <1>8, <1>9, <1>10, <1>11, <1>12, <1>13, <1>14, <1>15 DEF Next, Boot

\* What was found out about flash stays so.
LEMMA ValidatedStep ==
  ASSUME IInv, [Next]_vars
  PROVE  Validated'
<1> USE DEF IInv, Validated, InTsbl, WholeBuild, At, Goto
<1>1. CASE SsblCheck
  BY <1>1, ValidIsWhole DEF SsblCheck, Slot, App
<1>2. CASE TsblValidateA
  BY <1>2, ValidIsWhole DEF TsblValidateA, Validate, WholeBuild, TypeOK, App, Slot
<1>3. CASE TsblValidateB
  BY <1>3, ValidIsWhole DEF TsblValidateB, Validate, TypeOK, App, Slot
<1>4. CASE TsblSelect
  BY <1>4, SelectAbAnswers DEF TsblSelect, TypeOK, App
<1>5. CASE TsblMark
  BY <1>5 DEF TsblMark
<1>6. CASE TsblHandoff
  BY <1>6 DEF TsblHandoff
<1>7. CASE AppConfirm
  BY <1>7 DEF AppConfirm
<1>8. CASE AppWatchdogEnable
  BY <1>8 DEF AppWatchdogEnable
<1>9. CASE AppWatchdogDisable
  BY <1>9 DEF AppWatchdogDisable
<1>10. ASSUME NEW flag \in {"dfu", "bootsel"}, AppRequest(flag)
       PROVE  Validated'
  BY <1>10 DEF AppRequest, Reset
<1>11. CASE WatchdogFires
  BY <1>11 DEF WatchdogFires, Reset
<1>12. CASE PowerCycle
  BY <1>12 DEF PowerCycle
<1>13. ASSUME NEW s \in Slot, NEW b \in Build, NEW q \in Seqs,
            NEW bad \in BOOLEAN, UpdateBegins(s, Footer(b, q, bad))
     PROVE  Validated'
  BY <1>13 DEF UpdateBegins
<1>14. CASE UpdateWrites
  BY <1>14 DEF UpdateWrites
<1>15. CASE UNCHANGED vars
  BY <1>15 DEF vars
<1>16. QED
  BY <1>1, <1>2, <1>3, <1>4, <1>5, <1>6, <1>7, <1>8, <1>9, <1>10, <1>11, <1>12, <1>13, <1>14, <1>15 DEF Next, Boot

\* Scratch 6 and the registers go on speaking of the attempt before.
LEMMA AttemptStep ==
  ASSUME IInv, [Next]_vars
  PROVE  AttemptKept'
<1> USE DEF IInv, TypeOK, AttemptKept, Try, At, Goto, App, Booted, NoBoot
<1>1. CASE SsblCheck
  BY <1>1 DEF SsblCheck
<1>2. CASE TsblValidateA
  BY <1>2 DEF TsblValidateA, Validate
<1>3. CASE TsblValidateB
  BY <1>3 DEF TsblValidateB, Validate
<1>4. CASE TsblSelect
  BY <1>4, SelectAbAnswers DEF TsblSelect
<1>5. CASE TsblMark
  BY <1>5 DEF TsblMark
<1>6. CASE TsblHandoff
  BY <1>6 DEF TsblHandoff
<1>7. CASE AppConfirm
  BY <1>7 DEF AppConfirm, RunningHealthy
<1>8. CASE AppWatchdogEnable
  BY <1>8 DEF AppWatchdogEnable
<1>9. CASE AppWatchdogDisable
  BY <1>9 DEF AppWatchdogDisable
<1>10. ASSUME NEW flag \in {"dfu", "bootsel"}, AppRequest(flag)
       PROVE  AttemptKept'
  BY <1>10 DEF AppRequest, Reset, RunningHealthy
<1>11. CASE WatchdogFires
  BY <1>11 DEF WatchdogFires, Reset
<1>12. CASE PowerCycle
  BY <1>12 DEF PowerCycle
<1>13. ASSUME NEW s \in Slot, NEW b \in Build, NEW q \in Seqs,
            NEW bad \in BOOLEAN, UpdateBegins(s, Footer(b, q, bad))
     PROVE  AttemptKept'
  BY <1>13 DEF UpdateBegins
<1>14. CASE UpdateWrites
  BY <1>14 DEF UpdateWrites
<1>15. CASE UNCHANGED vars
  BY <1>15 DEF vars
<1>16. QED
  BY <1>1, <1>2, <1>3, <1>4, <1>5, <1>6, <1>7, <1>8, <1>9, <1>10, <1>11, <1>12, <1>13, <1>14, <1>15 DEF Next, Boot

-----------------------------------------------------------------------------
(***************************************************************************)
(* The strengthened invariant holds: types, and what the boot chain knows  *)
(* of the slots and of the attempt before.                                 *)
(***************************************************************************)
THEOREM Invariance == Spec => []IInv
<1>1. Init => IInv
  <2> SUFFICES ASSUME Init PROVE IInv
    OBVIOUS
  <2>1. \A s \in Slot : flash[s] \in Images
    <3> SUFFICES ASSUME NEW s \in Slot PROVE flash[s] \in Images
      OBVIOUS
    <3>1. CASE flash[s] = Blank
      BY <3>1 DEF Blank, Images, Footers
    <3>2. CASE flash[s] \in {Whole(b, q) : b \in Build, q \in Seqs}
      <4>1. PICK b \in Build, q \in Seqs : flash[s] = Whole(b, q)
        BY <3>2
      <4>2. Footer(b, q, FALSE) \in Footers
        BY DEF Footers, Footer
      <4>3. QED
        <5> DEFINE page == [p \in 1 .. Pages |-> IF p <= Size[b] THEN b ELSE Erased]
                   footer == Footer(b, q, FALSE)
        <5>1. page \in [1 .. Pages -> Build \cup {Erased}]
          OBVIOUS
        <5>2. flash[s] = [page |-> page, footer |-> footer]
          BY <4>1 DEF Whole
        <5>3. footer \in Footers
          BY <4>2
        <5> HIDE DEF page, footer
        <5>4. QED
          BY <5>1, <5>2, <5>3 DEF Images
    <3>3. QED
      BY <3>1, <3>2 DEF Init
  <2>2. TypeOK
    <3>1. flash \in [Slot -> Images]
      BY <2>1 DEF Init
    <3>2. boots \in [now : Booted, before : Booted]
      BY DEF Init, Booted, NoBoot
    <3>3. QED
      BY <3>1, <3>2 DEF Init, TypeOK, App
  <2>3. job \in Seq(Piece)
    BY DEF Init, NoJob
  <2>4. Validated /\ AttemptKept
    BY DEF Init, Validated, InTsbl, AttemptKept, At, NoBoot
  <2>5. QED
    BY <2>2, <2>3, <2>4 DEF IInv
<1>2. IInv /\ [Next]_vars => IInv'
  BY TypeStep, JobStep, ValidatedStep, AttemptStep DEF IInv
<1>3. QED
  BY <1>1, <1>2, PTL DEF Spec

\* Flash, registers and places of the boot code are well formed, and what runs
\* is the slot that was picked.
THEOREM TypeCorrect == Spec => []TypeOK
<1>1. IInv => TypeOK
  BY DEF IInv
<1>2. QED
  BY <1>1, Invariance, PTL

(***************************************************************************)
(* What runs is one whole build, after any updates and power cycles.       *)
(***************************************************************************)
THEOREM NoTornImageHolds == Spec => []NoTornImage
<1>1. IInv => NoTornImage
  BY DEF IInv, Validated, InTsbl, NoTornImage
<1>2. QED
  BY <1>1, Invariance, PTL

(***************************************************************************)
(* An application that a warm reset ended before it confirmed is not       *)
(* started by the next boot.                                               *)
(***************************************************************************)
THEOREM NoRetryHolds == Spec => NoRetry
<1>1. IInv => ~(TsblHandoff /\ ~boots.before.confirmed
                  /\ pick = boots.before.slot)
  BY DEF IInv, AttemptKept, TsblHandoff, At
<1>2. IInv /\ [Next]_vars =>
        [TsblHandoff /\ ~boots.before.confirmed
           => pick # boots.before.slot]_vars
  BY <1>1
<1>3. QED
  BY <1>2, Invariance, PTL DEF Spec, NoRetry

-----------------------------------------------------------------------------
(* The refinement.  It needs the converse of Validated: the registers hold *)
(* exactly what validation would find now.                                 *)

Agrees ==
  /\ InTsbl => Valid("T")
  /\ pc \in {"validateB", "select"} => (ok["A"] <=> Valid("A"))
  /\ pc = "select" => (ok["B"] <=> Valid("B"))
  /\ pc = "mark" => /\ pick = SelectAb(Valid("A"), Valid("B"), scratch6)
                    /\ pick # "none"
  /\ pc = "bootsel" => scratch6 = "none"

\* A step that leaves flash alone leaves what validation finds alone.
LEMMA SameFlash ==
  ASSUME flash' = flash
  PROVE  /\ \A s \in Slot : Valid(s)' <=> Valid(s)
         /\ \A s \in App : flash'[s].footer.seq = flash[s].footer.seq
BY DEF Valid, CrcMatches

\* The same selection, whatever the flags it is given are made of.
LEMMA SelectAbSame ==
  ASSUME NEW okA \in BOOLEAN, NEW okB \in BOOLEAN, NEW vA, NEW vB, NEW s6,
         okA <=> vA, okB <=> vB
  PROVE  SelectAb(okA, okB, s6) = SelectAb(vA, vB, s6)
BY DEF SelectAb

LEMMA AgreesStep ==
  ASSUME IInv, Agrees, [Next]_vars
  PROVE  Agrees'
<1> USE DEF Agrees, InTsbl, At, Goto
<1>1. CASE SsblCheck
  BY <1>1, SameFlash DEF SsblCheck, Slot, App
<1>2. CASE TsblValidateA
  BY <1>2, SameFlash DEF TsblValidateA, Validate, IInv, TypeOK, Slot, App
<1>3. CASE TsblValidateB
  BY <1>3, SameFlash DEF TsblValidateB, Validate, IInv, TypeOK, Slot, App
<1>4. CASE TsblSelect
  <2>1. flash' = flash /\ scratch6' = scratch6
    BY <1>4 DEF TsblSelect
  <2>2. ok["A"] \in BOOLEAN /\ ok["B"] \in BOOLEAN
    BY DEF IInv, TypeOK, App
  <2>3. SelectAb(ok["A"], ok["B"], scratch6)
          = SelectAb(Valid("A"), Valid("B"), scratch6)
    BY <1>4, <2>2, SelectAbSame DEF TsblSelect
  <2>4. SelectAb(Valid("A"), Valid("B"), scratch6)'
          = SelectAb(Valid("A"), Valid("B"), scratch6)
    BY <2>1 DEF SelectAb, Valid, CrcMatches
  <2>5. QED
    BY <1>4, <2>1, <2>3, <2>4, SameFlash DEF TsblSelect, Slot
<1>5. CASE TsblMark
  BY <1>5, SameFlash DEF TsblMark, Slot
<1>6. CASE TsblHandoff
  BY <1>6, SameFlash DEF TsblHandoff, Slot
<1>7. CASE AppConfirm
  BY <1>7, SameFlash DEF AppConfirm, RunningHealthy, Slot
<1>8. CASE AppWatchdogEnable
  BY <1>8, SameFlash DEF AppWatchdogEnable, Slot
<1>9. CASE AppWatchdogDisable
  BY <1>9, SameFlash DEF AppWatchdogDisable, RunningHealthy, Slot
<1>10. ASSUME NEW flag \in {"dfu", "bootsel"}, AppRequest(flag)
       PROVE  Agrees'
  BY <1>10 DEF AppRequest, Reset, RunningHealthy
<1>11. CASE WatchdogFires
  BY <1>11 DEF WatchdogFires, Reset
<1>12. CASE PowerCycle
  BY <1>12 DEF PowerCycle
<1>13. ASSUME NEW s \in Slot, NEW b \in Build, NEW q \in Seqs,
              NEW bad \in BOOLEAN, UpdateBegins(s, Footer(b, q, bad))
       PROVE  Agrees'
  BY <1>13 DEF UpdateBegins
<1>14. CASE UpdateWrites
  BY <1>14 DEF UpdateWrites
<1>15. CASE UNCHANGED vars
  <2>1. flash' = flash /\ scratch6' = scratch6 /\ pc' = pc
        /\ ok' = ok /\ pick' = pick
    BY <1>15 DEF vars
  <2>2. SelectAb(Valid("A"), Valid("B"), scratch6)'
          = SelectAb(Valid("A"), Valid("B"), scratch6)
    BY <2>1 DEF SelectAb, Valid, CrcMatches
  <2>3. QED
    BY <2>1, <2>2, SameFlash DEF Slot, App
<1>16. QED
  BY <1>1, <1>2, <1>3, <1>4, <1>5, <1>6, <1>7, <1>8, <1>9, <1>10, <1>11, <1>12, <1>13, <1>14, <1>15 DEF Next, Boot

\* What an abstract boot sees of the slots.
LEMMA SlotsValue ==
  ASSUME NEW s \in App
  PROVE  Slots[s].valid = Valid(s) /\ Slots[s].seq = flash[s].footer.seq
BY DEF Slots

\* A step that leaves flash alone leaves all that alone.
LEMMA SlotsSame ==
  ASSUME flash' = flash
  PROVE  Slots' = Slots /\ Valid("T")' = Valid("T")
BY DEF Slots, Valid, CrcMatches

LEMMA SlotsType ==
  ASSUME TypeOK
  PROVE  Slots \in [App -> [valid : BOOLEAN, seq : Nat]]
<1> SUFFICES ASSUME NEW s \in App
             PROVE  Valid(s) \in BOOLEAN /\ flash[s].footer.seq \in Nat
  BY DEF Slots
<1>1. flash[s].footer \in Footers
  BY DEF TypeOK, Images, Slot
<1>2. flash[s].footer.seq \in Nat
  <2>1. CASE flash[s].footer = NoFooter
    BY <2>1 DEF NoFooter
  <2>2. CASE flash[s].footer
               \in [magic : {TRUE}, build : Build, seq : Seqs, bad : BOOLEAN]
    BY <2>2, BuildAssumption
  <2>3. QED
    BY <1>1, <2>1, <2>2, Zenon DEF Footers
<1>3. QED
  BY <1>2 DEF Valid, CrcMatches

\* tsbl_ab_select chooses as the policy does.
LEMMA SelectIsPolicy ==
  ASSUME TypeOK
  PROVE  LET chosen == SelectAb(Valid("A"), Valid("B"), scratch6)
         IN  /\ chosen = "none" <=> Policy!Candidates = {}
             /\ chosen # "none" =>
                  /\ chosen \in Policy!Candidates
                  /\ \A t \in Policy!Candidates \ {chosen} :
                       Policy!Preferred(chosen, t)
<1>1. /\ Slots["A"].valid = Valid("A") /\ Slots["B"].valid = Valid("B")
      /\ Slots["A"].seq = flash["A"].footer.seq
      /\ Slots["B"].seq = flash["B"].footer.seq
  BY SlotsValue DEF App
<1>2. Slots["A"].seq \in Nat /\ Slots["B"].seq \in Nat
  BY SlotsType DEF App
<1>3. Valid("A") \in BOOLEAN /\ Valid("B") \in BOOLEAN
  BY DEF Valid, CrcMatches
<1>4. scratch6 \in {"none", "tryA", "tryB"}
  BY DEF TypeOK
<1>5. QED
  BY <1>1, <1>2, <1>3, <1>4 DEF SelectAb, Attempt, Policy!Candidates,
     Policy!Preferred, Policy!App

\* The same after a step.
LEMMA SlotsTypeNext ==
  TypeOK' => (Slots \in [App -> [valid : BOOLEAN, seq : Nat]])'
<1>1. TypeOK => Slots \in [App -> [valid : BOOLEAN, seq : Nat]]
  BY SlotsType
<1>2. QED
  BY <1>1, PTL

\* Every step is a step of the policy, or a stutter.
LEMMA PolicyStep ==
  ASSUME IInv, Agrees, [Next]_vars
  PROVE  [Policy!Next]_(Policy!vars)
<1> USE DEF Active, Attempt, At, Goto
<1> DEFINE Stutter == /\ flash' = flash
                      /\ Attempt' = Attempt
                      /\ Active' = Active
<1>0. Stutter => UNCHANGED Policy!vars
  BY SlotsSame DEF Policy!vars
<1>a. flash' = flash => UNCHANGED <<Valid("T"), Slots>>
  BY SlotsSame
<1> HIDE DEF Active, Attempt
<1>1. CASE SsblCheck
  <2>1. CASE Valid("T")
    BY <1>1, <1>0, <2>1 DEF Active, Attempt, SsblCheck
  <2>2. CASE ~Valid("T")
    <3>1. Policy!Halt
      BY <1>1, <1>a, <2>2 DEF Active, Attempt, SsblCheck, Policy!Halt, Policy!None
    <3>2. QED
      BY <3>1 DEF Policy!Next
  <2>3. QED
    BY <2>1, <2>2
<1>2. CASE TsblValidateA
  BY <1>2, <1>0 DEF Active, Attempt, TsblValidateA, Validate
<1>3. CASE TsblValidateB
  BY <1>3, <1>0 DEF Active, Attempt, TsblValidateB, Validate
<1>4. CASE TsblSelect
  <2> DEFINE chosen == SelectAb(ok["A"], ok["B"], scratch6)
  <2>1. chosen = SelectAb(Valid("A"), Valid("B"), scratch6)
    <3>1. ok["A"] \in BOOLEAN /\ ok["B"] \in BOOLEAN
      BY DEF IInv, TypeOK, App
    <3>2. QED
      BY <1>4, <3>1, SelectAbSame DEF TsblSelect, Agrees
  <2>2. pc = "select" /\ pick' = chosen /\ flash' = flash
        /\ scratch6' = scratch6
        /\ pc' = IF chosen = "none" THEN "halt" ELSE "mark"
    BY <1>4 DEF TsblSelect
  <2> HIDE DEF chosen
  <2>3. CASE chosen = "none"
    <3>1. Policy!Candidates = {}
      BY <2>1, <2>3, SelectIsPolicy DEF IInv
    <3>2. Policy!Halt
      BY <1>a, <2>2, <2>3, <3>1 DEF Active, Attempt, Policy!Halt, Policy!None
    <3>3. QED
      BY <3>2 DEF Policy!Next
  <2>4. CASE chosen # "none"
    BY <1>0, <2>2, <2>4 DEF Active, Attempt
  <2>5. QED
    BY <2>3, <2>4
<1>5. CASE TsblMark
  <2>1. /\ pc = "mark" /\ pc' = "handoff" /\ flash' = flash /\ pick' = pick
        /\ scratch6' = IF pick = "A" THEN "tryA" ELSE "tryB"
    BY <1>5 DEF TsblMark
  <2>2. pick \in {"A", "B"}
    BY <2>1 DEF IInv, TypeOK, App
  <2>3. /\ pick \in Policy!Candidates
        /\ \A t \in Policy!Candidates \ {pick} : Policy!Preferred(pick, t)
    BY <2>1, SelectIsPolicy DEF IInv, Agrees
  <2>4. Active = "none" /\ Active' = pick /\ Attempt' = pick /\ Valid("T")
    BY <2>1, <2>2 DEF Active, Attempt, Agrees, InTsbl
  <2>5. Policy!Boot
    BY <1>a, <2>1, <2>3, <2>4 DEF Policy!Boot, Policy!None
  <2>6. QED
    BY <2>5 DEF Policy!Next
<1>6. CASE TsblHandoff
  BY <1>6, <1>0 DEF Active, Attempt, TsblHandoff
<1>7. CASE AppConfirm
  <2>1. Active \in App /\ Active' = Active /\ Attempt' = "none"
        /\ flash' = flash
    BY <1>7 DEF Active, Attempt, AppConfirm, RunningHealthy, IInv, TypeOK
  <2>2. Policy!Confirm
    BY <1>a, <2>1 DEF Policy!Confirm, Policy!App, Policy!None, App
  <2>3. QED
    BY <2>2 DEF Policy!Next
<1>8. CASE AppWatchdogEnable
  BY <1>8, <1>0 DEF Active, Attempt, AppWatchdogEnable
<1>9. CASE AppWatchdogDisable
  BY <1>9, <1>0 DEF Active, Attempt, AppWatchdogDisable
<1>10. ASSUME NEW flag \in {"dfu", "bootsel"}, AppRequest(flag)
       PROVE  [Policy!Next]_(Policy!vars)
  <2>1. CASE Wired
    <3>1. Active \in App /\ Active' = "none" /\ Attempt' = Attempt
          /\ flash' = flash
      BY <1>10, <2>1
         DEF Active, Attempt, AppRequest, Reset, RunningHealthy, IInv, TypeOK
    <3>2. Policy!WarmReset
      BY <1>a, <3>1 DEF Policy!WarmReset, Policy!App, Policy!None, App
    <3>3. QED
      BY <3>2 DEF Policy!Next
  <2>2. CASE ~Wired
    BY <1>10, <1>0, <2>2 DEF Active, Attempt, AppRequest, RunningHealthy
  <2>3. QED
    BY <2>1, <2>2
<1>11. CASE WatchdogFires
  <2>1. Active \in App /\ Active' = "none" /\ Attempt' = Attempt
        /\ flash' = flash
    BY <1>11
       DEF Active, Attempt, WatchdogFires, Reset, RunningHealthy, IInv, TypeOK
  <2>2. Policy!WarmReset
    BY <1>a, <2>1 DEF Policy!WarmReset, Policy!App, Policy!None, App
  <2>3. QED
    BY <2>2 DEF Policy!Next
<1>12. CASE PowerCycle
  <2>1. Active' = "none" /\ Attempt' = "none" /\ flash' = flash
    BY <1>12 DEF Active, Attempt, PowerCycle
  <2>2. Policy!PowerCycle
    BY <1>a, <2>1 DEF Policy!PowerCycle, Policy!None
  <2>3. QED
    BY <2>2 DEF Policy!Next
<1>13. ASSUME NEW s \in Slot, NEW b \in Build, NEW q \in Seqs,
              NEW bad \in BOOLEAN, UpdateBegins(s, Footer(b, q, bad))
       PROVE  [Policy!Next]_(Policy!vars)
  BY <1>13, <1>0 DEF Active, Attempt, UpdateBegins
<1>14. CASE UpdateWrites
  <2>1. Active = "none" /\ Active' = "none"
        /\ Attempt = "none" /\ Attempt' = "none"
    BY <1>14 DEF Active, Attempt, UpdateWrites, Agrees
  <2>2. TypeOK'
    BY TypeStep
  <2>3. Slots' \in [App -> [valid : BOOLEAN, seq : Nat]]
    BY <2>2, SlotsTypeNext
  <2>4. Valid("T")' \in BOOLEAN
    BY DEF Valid, CrcMatches
  <2>5. Policy!Update
    BY <2>1, <2>3, <2>4 DEF Policy!Update, Policy!None, Policy!App, App
  <2>6. QED
    BY <2>5 DEF Policy!Next
<1>15. CASE UNCHANGED vars
  <2>1. flash' = flash /\ scratch6' = scratch6 /\ pc' = pc /\ pick' = pick
    BY <1>15 DEF vars
  <2>2. QED
    BY <1>0, <2>1 DEF Active, Attempt
<1>16. QED
  BY <1>1, <1>2, <1>3, <1>4, <1>5, <1>6, <1>7, <1>8, <1>9, <1>10, <1>11, <1>12, <1>13, <1>14, <1>15 DEF Next, Boot

(***************************************************************************)
(* The boot chain follows the A/B policy: every step is one of AbPolicy's, *)
(* or changes nothing it speaks of.                                        *)
(***************************************************************************)
THEOREM Refinement == Spec => ImplementsPolicy
<1>1. Init => Agrees
  BY DEF Init, Agrees, InTsbl
<1>2. IInv /\ Agrees /\ [Next]_vars => Agrees'
  BY AgreesStep
<1>3. IInv /\ Init => Policy!Init
  <2> SUFFICES ASSUME IInv, Init PROVE Policy!Init
    OBVIOUS
  <2>1. Attempt = "none" /\ Active = "none"
    BY DEF Init, Attempt, Active
  <2>2. Valid("T") \in BOOLEAN
    BY DEF Valid, CrcMatches
  <2>3. QED
    BY <2>1, <2>2, SlotsType DEF IInv, Policy!Init, Policy!None, Policy!App, App
<1>4. IInv /\ Agrees /\ [Next]_vars => [Policy!Next]_(Policy!vars)
  BY PolicyStep
<1>5. QED
  BY <1>1, <1>2, <1>3, <1>4, Invariance, PTL
     DEF Spec, ImplementsPolicy, Policy!Spec

=============================================================================
