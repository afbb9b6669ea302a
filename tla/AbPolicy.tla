------------------------------ MODULE AbPolicy ------------------------------
(***************************************************************************)
(* What the A/B bootloader promises (the selection rules at the head of    *)
(* tsbl_ab.S), with no registers and no stages: a boot starts the newest   *)
(* valid application, except one whose last attempt was never confirmed.   *)
(* BootChain.tla implements it.                                            *)
(***************************************************************************)
EXTENDS Integers

App == {"A", "B"}
None == "none"

VARIABLES
  loader,   \* Is the bootloader itself valid?
  slots,    \* For each application slot, whether it is valid and its seq.
  attempt,  \* The slot whose attempt is not confirmed, or None.
  active    \* The slot running, None during a boot, or "halted".

vars == <<loader, slots, attempt, active>>

Other(s) == IF s = "A" THEN "B" ELSE "A"

\* a is preferred to b: newer, or as new and first.
Preferred(a, b) ==
  \/ slots[a].seq > slots[b].seq
  \/ slots[a].seq = slots[b].seq /\ a = "A"

\* The slots a boot may choose from: never one that failed to confirm.
Candidates == {s \in App : slots[s].valid /\ s # attempt}

Init ==
  /\ loader \in BOOLEAN
  /\ slots \in [App -> [valid : BOOLEAN, seq : Nat]]
  /\ attempt = None
  /\ active = None

\* An attempt is recorded as it starts.
Boot ==
  /\ active = None
  /\ loader
  /\ \E s \in Candidates :
       /\ \A t \in Candidates \ {s} : Preferred(s, t)
       /\ active' = s
       /\ attempt' = s
  /\ UNCHANGED <<loader, slots>>

\* With no candidate, or a bootloader that does not validate, nothing starts.
Halt ==
  /\ active = None
  /\ loader => Candidates = {}
  /\ active' = "halted"
  /\ UNCHANGED <<loader, slots, attempt>>

Confirm ==
  /\ active \in App
  /\ attempt' = None
  /\ UNCHANGED <<loader, slots, active>>

\* A reset that keeps the attempt.
WarmReset ==
  /\ active \in App
  /\ active' = None
  /\ UNCHANGED <<loader, slots, attempt>>

PowerCycle ==
  /\ attempt' = None
  /\ active' = None
  /\ UNCHANGED <<loader, slots>>

\* New images, before anything boots.
Update ==
  /\ active = None
  /\ attempt = None
  /\ loader' \in BOOLEAN
  /\ slots' \in [App -> [valid : BOOLEAN, seq : Nat]]
  /\ UNCHANGED <<attempt, active>>

Next == Boot \/ Halt \/ Confirm \/ WarmReset \/ PowerCycle \/ Update

Spec == Init /\ [][Next]_vars

=============================================================================
