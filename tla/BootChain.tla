----------------------------- MODULE BootChain -----------------------------
(***************************************************************************)
(* The boot chain of src/ssbl/ssbl.S and src/tsbl/tsbl_ab.S, with the      *)
(* application side of src/boot_api.S and src/watchdog.S: the SSBL         *)
(* validates the TSBL, the TSBL validates both application slots, selects  *)
(* one, records the attempt in watchdog scratch 6 and hands off.  Around   *)
(* it: applications that confirm or hang, watchdog resets that keep the    *)
(* scratch registers, power cycles that clear them, and BOOTSEL updates    *)
(* that a power cycle may cut short.                                       *)
(*                                                                         *)
(* Flash is seen in pages; a page holds a piece of one build.  The CRC of  *)
(* a footer matches when every page it covers is of the footer's build.    *)
(***************************************************************************)
EXTENDS Integers, Sequences

CONSTANTS
  Build,      \* The programs that can be flashed.
  Healthy,    \* Those that run well and confirm; the others hang.
  Size,       \* The pages of each build (payload_size).
  Pages,      \* The pages of a slot, its footer apart.
  Seqs,       \* The sequence numbers mkmanifest is given.
  Wired,      \* Has the application set PSM_WDSEL, so that the watchdog
              \* resets the chip?
  MaxUpdates, \* Bound: images flashed.
  MaxCycles,  \* Bound: power cycles.
  MaxEarly    \* Bound: resets of a healthy application before it confirms.

ASSUME BuildAssumption ==
  /\ Healthy \subseteq Build
  /\ Size \in [Build -> Nat \ {0}]
  /\ Pages \in Nat \ {0}
  /\ Seqs \subseteq Nat
  /\ Wired \in BOOLEAN
ASSUME BoundAssumption ==
  MaxUpdates \in Nat /\ MaxCycles \in Nat /\ MaxEarly \in Nat

VARIABLES
  flash,    \* What each slot holds: pages and footer.
  scratch6, \* WATCHDOG_SCRATCH[6]: "none", "tryA" or "tryB".
  scratch7, \* WATCHDOG_SCRATCH[7]: "none", "dfu" or "bootsel".
  watchdog, \* Is the watchdog enabled?
  pc,       \* The stage, and the place in the TSBL.
  ok,       \* r4 and r5 of _tsbl_reset: which slots validated.
  pick,     \* r0 of tsbl_ab_select.
  vtor,     \* The slot whose vectors are installed.
  job,      \* What is left of the update in progress in BOOTSEL.
  boots,    \* History: the slot this boot runs and whether it confirmed,
            \* and those of the boot before, if a warm reset ended it.
  count     \* Updates, power cycles and early resets so far (bounds).

vars == <<flash, scratch6, scratch7, watchdog, pc, ok, pick, vtor, job, boots,
          count>>

App == {"A", "B"}
Slot == App \cup {"T"}
Erased == "erased"
NoFooter == [magic |-> FALSE, build |-> Erased, seq |-> 0, bad |-> FALSE]
NoBoot == [slot |-> "none", confirmed |-> TRUE]
NoJob == << >>

\* A slot erased, and one that holds the whole of a build.
Blank == [page |-> [p \in 1 .. Pages |-> Erased], footer |-> NoFooter]
Footer(b, q, bad) == [magic |-> TRUE, build |-> b, seq |-> q, bad |-> bad]
Whole(b, q) ==
  [page |-> [p \in 1 .. Pages |-> IF p <= Size[b] THEN b ELSE Erased],
   footer |-> Footer(b, q, FALSE)]

\* mkfirmware: any slot may be left out.
Init ==
  /\ flash \in [Slot -> {Blank} \cup {Whole(b, q) : b \in Build, q \in Seqs}]
  /\ scratch6 = "none" /\ scratch7 = "none"
  /\ watchdog = FALSE
  /\ pc = "ssbl"
  /\ ok = [s \in App |-> FALSE]
  /\ pick = "none" /\ vtor = "none"
  /\ job = NoJob
  /\ boots = [now |-> NoBoot, before |-> NoBoot]
  /\ count = [updates |-> 0, cycles |-> 0, early |-> 0]

-----------------------------------------------------------------------------
(* The boot chain.                                                         *)

\* crc32_compute over what the footer covers, against what it records.
CrcMatches(s) ==
  LET b == flash[s].footer.build
  IN  \A p \in 1 .. Size[b] : flash[s].page[p] = b

\* Mutant of Valid: the payload is not checked.
ValidFooter(s) ==
  LET f == flash[s].footer IN f.magic /\ Size[f.build] <= Pages

\* tsbl_validate, and the same checks in _ssbl_reset.
Valid(s) ==
  LET f == flash[s].footer
  IN  f.magic /\ Size[f.build] <= Pages /\ CrcMatches(s)

At(label) == pc = label
Goto(label) == pc' = label

\* _ssbl_reset.
SsblCheck ==
  /\ At("ssbl")
  /\ IF Valid("T") THEN Goto("validateA") /\ vtor' = "T"
                   ELSE Goto("halt") /\ UNCHANGED vtor
  /\ UNCHANGED <<flash, scratch6, scratch7, watchdog, ok, pick, job, boots,
                 count>>

\* _tsbl_reset, the call of tsbl_validate for s.
Validate(s, label, next) ==
  /\ At(label)
  /\ ok' = [ok EXCEPT ![s] = Valid(s)]
  /\ Goto(next)
  /\ UNCHANGED <<flash, scratch6, scratch7, watchdog, pick, vtor, job, boots,
                 count>>

TsblValidateA == Validate("A", "validateA", "validateB")
TsblValidateB == Validate("B", "validateB", "select")

\* Mutants of SelectAb: a failed slot is tried again if the other is
\* invalid; ties go to B.
SelectAbRetry(okA, okB, s6) ==
  LET newerB == flash["B"].footer.seq > flash["A"].footer.seq
      takesA == okA /\ (s6 = "tryB" \/ ~okB \/ (s6 = "none" /\ ~newerB))
      takesB == okB /\ (s6 = "tryA" \/ ~okA \/ (s6 = "none" /\ newerB))
  IN  IF takesA THEN "A" ELSE IF takesB THEN "B" ELSE "none"

SelectAbTieB(okA, okB, s6) ==
  LET newerB == flash["B"].footer.seq >= flash["A"].footer.seq
      takesA == okA /\ s6 # "tryA" /\ (s6 = "tryB" \/ ~okB \/ ~newerB)
      takesB == okB /\ s6 # "tryB" /\ (s6 = "tryA" \/ ~okA \/ newerB)
  IN  IF takesA THEN "A" ELSE IF takesB THEN "B" ELSE "none"

\* tsbl_ab_select: an attempt that did not confirm gives way to the other
\* slot, or to none; otherwise the higher seq, and A among equals.
SelectAb(okA, okB, s6) ==
  LET newerB == flash["B"].footer.seq > flash["A"].footer.seq
      takesA == okA /\ s6 # "tryA" /\ (s6 = "tryB" \/ ~okB \/ ~newerB)
      takesB == okB /\ s6 # "tryB" /\ (s6 = "tryA" \/ ~okA \/ newerB)
  IN  IF takesA THEN "A" ELSE IF takesB THEN "B" ELSE "none"

TsblSelect ==
  /\ At("select")
  /\ LET chosen == SelectAb(ok["A"], ok["B"], scratch6)
     IN  /\ pick' = chosen
         /\ Goto(IF chosen = "none" THEN "halt" ELSE "mark")
  /\ UNCHANGED <<flash, scratch6, scratch7, watchdog, ok, vtor, job, boots,
                 count>>

\* Mutant of TsblMark: the first slot is always recorded.
TsblMarkA ==
  /\ At("mark")
  /\ scratch6' = "tryA"
  /\ Goto("handoff")
  /\ UNCHANGED <<flash, scratch7, watchdog, ok, pick, vtor, job, boots, count>>

\* Scratch 6 records the attempt before the jump.
TsblMark ==
  /\ At("mark")
  /\ scratch6' = IF pick = "A" THEN "tryA" ELSE "tryB"
  /\ Goto("handoff")
  /\ UNCHANGED <<flash, scratch7, watchdog, ok, pick, vtor, job, boots, count>>

TsblHandoff ==
  /\ At("handoff")
  /\ vtor' = pick
  /\ boots' = [boots EXCEPT !.now = [slot |-> pick, confirmed |-> FALSE]]
  /\ Goto("app")
  /\ UNCHANGED <<flash, scratch6, scratch7, watchdog, ok, pick, job, count>>

Boot ==
  \/ SsblCheck
  \/ TsblValidateA \/ TsblValidateB
  \/ TsblSelect \/ TsblMark \/ TsblHandoff

-----------------------------------------------------------------------------
(* The application.                                                        *)

RunningHealthy == At("app") /\ flash[vtor].footer.build \in Healthy

\* boot_confirm.
AppConfirm ==
  /\ RunningHealthy
  /\ scratch6' = "none"
  /\ boots' = [boots EXCEPT !.now.confirmed = TRUE]
  /\ UNCHANGED <<flash, scratch7, watchdog, pc, ok, pick, vtor, job, count>>

\* watchdog_enable, by any application, and watchdog_disable.
AppWatchdogEnable ==
  /\ At("app")
  /\ watchdog' = TRUE
  /\ UNCHANGED <<flash, scratch6, scratch7, pc, ok, pick, vtor, job, boots,
                 count>>

AppWatchdogDisable ==
  /\ RunningHealthy
  /\ watchdog' = FALSE
  /\ UNCHANGED <<flash, scratch6, scratch7, pc, ok, pick, vtor, job, boots,
                 count>>

\* A healthy application confirms in time, but for a few resets.
Early ==
  IF RunningHealthy /\ ~boots.now.confirmed
  THEN count.early < MaxEarly /\ count' = [count EXCEPT !.early = @ + 1]
  ELSE UNCHANGED count

\* A warm reset: scratch registers and flash survive.
Reset ==
  /\ Goto("ssbl")
  /\ vtor' = "none"
  /\ watchdog' = FALSE
  /\ boots' = [now |-> NoBoot, before |-> boots.now]

\* boot_request_dfu and boot_request_bootsel: the flag, then
\* _boot_watchdog_reset, which parks if the watchdog resets nothing.
AppRequest(flag) ==
  /\ RunningHealthy
  /\ Early
  /\ scratch7' = flag
  /\ IF Wired THEN Reset
     ELSE Goto("parked") /\ UNCHANGED <<vtor, watchdog, boots>>
  /\ UNCHANGED <<flash, scratch6, ok, pick, job>>

-----------------------------------------------------------------------------
(* The chip and its user.                                                  *)

\* The watchdog runs out.  A healthy application feeds it, but may be late.
WatchdogFires ==
  /\ At("app") /\ watchdog /\ Wired
  /\ Early
  /\ Reset
  /\ UNCHANGED <<flash, scratch6, scratch7, ok, pick, job>>

\* Power off and on, at any time; with the button held, into BOOTSEL.
PowerCycle ==
  /\ count.cycles < MaxCycles
  /\ count' = [count EXCEPT !.cycles = @ + 1]
  /\ pc' \in {"ssbl", "bootsel"}
  /\ scratch6' = "none" /\ scratch7' = "none"
  /\ watchdog' = FALSE
  /\ vtor' = "none" /\ job' = NoJob
  /\ boots' = [now |-> NoBoot, before |-> NoBoot]
  /\ UNCHANGED <<flash, ok, pick>>

\* A UF2 image for slot s, its blocks in ascending order (firmware.Pack):
\* the pages of the build, then the footer.  After the last the ROM reboots.
Pieces(s, f) ==
  [p \in 1 .. Size[f.build] + 1 |->
     [slot |-> s, at |-> IF p > Size[f.build] THEN 0 ELSE p, footer |-> f]]

UpdateBegins(s, f) ==
  /\ At("bootsel") /\ job = NoJob
  /\ Size[f.build] <= Pages
  /\ count.updates < MaxUpdates
  /\ count' = [count EXCEPT !.updates = @ + 1]
  /\ job' = Pieces(s, f)
  /\ UNCHANGED <<flash, scratch6, scratch7, watchdog, pc, ok, pick, vtor,
                 boots>>

UpdateWrites ==
  /\ At("bootsel") /\ job # NoJob
  /\ LET w == Head(job)
     IN  flash' = IF w.at = 0
                  THEN [flash EXCEPT ![w.slot].footer = w.footer]
                  ELSE [flash EXCEPT ![w.slot].page[w.at] = w.footer.build]
  /\ job' = Tail(job)
  /\ Goto(IF job' = NoJob THEN "ssbl" ELSE "bootsel")
  /\ UNCHANGED <<scratch6, scratch7, watchdog, ok, pick, vtor, boots, count>>

Next ==
  \/ Boot
  \/ AppConfirm \/ AppWatchdogEnable \/ AppWatchdogDisable
  \/ \E flag \in {"dfu", "bootsel"} : AppRequest(flag)
  \/ WatchdogFires
  \/ PowerCycle
  \/ \E s \in Slot, b \in Build, q \in Seqs, bad \in BOOLEAN :
       UpdateBegins(s, Footer(b, q, bad))
  \/ UpdateWrites

(***************************************************************************)
(* Fairness: the processor runs; a healthy application confirms; one that  *)
(* hangs has enabled the watchdog, as blinky_buggy_demo.S does, and it     *)
(* runs out.                                                               *)
(***************************************************************************)
Hangs == At("app") /\ ~RunningHealthy
Fairness ==
  /\ WF_vars(Boot)
  /\ WF_vars(AppConfirm /\ scratch6 # "none")
  /\ WF_vars(Hangs /\ AppWatchdogEnable /\ ~watchdog)
  /\ WF_vars(Hangs /\ WatchdogFires)

Spec == Init /\ [][Next]_vars /\ Fairness

-----------------------------------------------------------------------------
Footers ==
  {NoFooter} \cup
  [magic : {TRUE}, build : Build, seq : Seqs, bad : BOOLEAN]
Images == [page : [1 .. Pages -> Build \cup {Erased}], footer : Footers]
Booted == [slot : App \cup {"none"}, confirmed : BOOLEAN]

TypeOK ==
  /\ flash \in [Slot -> Images]
  /\ scratch6 \in {"none", "tryA", "tryB"}
  /\ scratch7 \in {"none", "dfu", "bootsel"}
  /\ watchdog \in BOOLEAN
  /\ pc \in {"ssbl", "validateA", "validateB", "select", "mark", "handoff",
             "app", "parked", "halt", "bootsel"}
  /\ ok \in [App -> BOOLEAN]
  /\ pick \in App \cup {"none"}
  /\ vtor \in Slot \cup {"none"}
  /\ boots \in [now : Booted, before : Booted]
  /\ pc \in {"mark", "handoff"} => pick \in App
  /\ pc \in {"app", "parked"} => vtor = pick /\ pick \in App

(***************************************************************************)
(* No torn image runs: the TSBL, and then the application, is one whole    *)
(* build, whenever an update was cut short and whatever validated before.  *)
(***************************************************************************)
WholeBuild(s) ==
  /\ flash[s].footer.magic
  /\ \A p \in 1 .. Size[flash[s].footer.build] :
       p <= Pages /\ flash[s].page[p] = flash[s].footer.build

NoTornImage ==
  /\ pc \in {"validateA", "validateB", "select", "mark", "handoff"} =>
       WholeBuild("T")
  /\ At("app") => WholeBuild(vtor)

(***************************************************************************)
(* Rollback: an application that a warm reset ended before it confirmed is *)
(* not started again by the next boot.                                     *)
(***************************************************************************)
NoRetry ==
  [][TsblHandoff /\ ~boots.before.confirmed => pick # boots.before.slot]_vars

(***************************************************************************)
(* Boot by boot, the chain follows the A/B policy.                         *)
(***************************************************************************)
Slots == [s \in App |-> [valid |-> Valid(s), seq |-> flash[s].footer.seq]]
Attempt ==
  IF scratch6 = "tryA" THEN "A" ELSE IF scratch6 = "tryB" THEN "B" ELSE "none"
Active ==
  IF pc \in {"handoff", "app", "parked"} THEN pick
  ELSE IF pc = "halt" THEN "halted" ELSE "none"

Policy == INSTANCE AbPolicy WITH
  loader <- Valid("T"), slots <- Slots, attempt <- Attempt, active <- Active

ImplementsPolicy == Policy!Spec

(***************************************************************************)
(* With two valid applications, one of them healthy, a healthy one comes   *)
(* to run and confirms: "the rollback still recovers gracefully every      *)
(* time" (docs/bootloader.md), until the next power cycle.                 *)
(***************************************************************************)
Recoverable ==
  /\ \A s \in Slot : Valid(s)
  /\ \E s \in App : flash[s].footer.build \in Healthy
  /\ pc \notin {"bootsel", "halt", "parked"}

RollbackRecovers ==
  Recoverable ~> \/ RunningHealthy /\ boots.now.confirmed
                 \/ At("bootsel")

(***************************************************************************)
(* A request left in scratch 7 is acted on and cleared: "The TSBL is       *)
(* responsible for clearing the scratch after consuming the request"       *)
(* (docs/bootloader.md).                                                   *)
(***************************************************************************)
RequestConsumed == scratch7 # "none" ~> scratch7 = "none"

(***************************************************************************)
(* A slot that confirmed is the one the next warm reset boots again        *)
(* (examples/blinky_confirmed_demo.S).                                     *)
(***************************************************************************)
ConfirmedIsKept ==
  [][TsblHandoff /\ boots.before.confirmed /\ boots.before.slot # "none"
       => pick = boots.before.slot]_vars

(***************************************************************************)
(* "failed; do not boot" (bootloader.inc): a footer marked BAD keeps its   *)
(* slot from being started.                                                *)
(***************************************************************************)
BadNeverBoots == At("app") => ~flash[vtor].footer.bad

=============================================================================
