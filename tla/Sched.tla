------------------------------- MODULE Sched --------------------------------
(***************************************************************************)
(* The NVIC-priority kernel: src/sched.S, the parts of src/nvic.S and      *)
(* src/startup.S it stands on, and the Cortex-M33 exception model it uses  *)
(* as its dispatcher.  Every task is an interrupt line; so is every        *)
(* peripheral whose ISR posts tasks.  Contexts are stacked: thread mode at *)
(* the bottom, each preempting handler above the one it preempted.  One    *)
(* step is one access to NVIC, vector table or mask register, so a handler *)
(* may preempt between any two of them.                                    *)
(***************************************************************************)
EXTENDS Integers, Sequences, FiniteSets, SequencesExt

CONSTANTS
  Task,         \* Task ids in use, a subset of 0 .. MAX_TASKS - 1.
  Device,       \* Other interrupt lines with a handler; lower numbers.
  Prio,         \* Priority bands in use; 0 is the highest (byte 0x00).
  Threshold,    \* BASEPRI bands in use; 0 is BASEPRI = 0, "no masking".
  MainOps,      \* Bound: kernel calls main makes after sched_init.
  MaxOps,       \* Bound: kernel calls one activation of a handler makes.
  MaxNest,      \* Bound: critical sections one context holds at once.
  NestWeaker    \* May a BASEPRI section be opened inside a stricter one?

\* sched.inc and startup.S.
SCHED_BASE_IRQ == 48
TableIrqs == 52          \* External entries in _vectors and _ram_vectors.

Line == Task \cup Device
Irq(l) == IF l \in Task THEN SCHED_BASE_IRQ + l ELSE l

\* A device line is named by its (negative) stand-in, below every task line.
ASSUME LineAssumption ==
  /\ Task \subseteq 0 .. 7
  /\ Device \subseteq {-2, -1}
  /\ Prio \subseteq Nat
  /\ Threshold \subseteq Nat \ {0}

ASSUME BoundAssumption == MainOps \in Nat /\ MaxOps \in Nat /\ MaxNest \in Nat

Thread == 99              \* The bottom context; no line has this number.

VARIABLES
  vector,    \* What the vector entry of each line holds.
  ipr,       \* NVIC_IPR, one byte per line.
  enabled,   \* NVIC_ISER: the enabled lines.
  pending,   \* NVIC_ISPR: the pending lines.
  primask,   \* PRIMASK.
  basepri,   \* BASEPRI.
  stack,     \* The active contexts; the running one is the last.
  asked,     \* The priority each line was created with (history).
  running    \* Has main reached the WFI loop of sched_run?

vars == <<vector, ipr, enabled, pending, primask, basepri, stack, asked,
          running>>
nvic == <<vector, ipr, enabled, pending>>
mask == <<primask, basepri>>

NoOp == [kind |-> "none"]
Frame(who, ops, pm, bp) ==
  [who |-> who, ops |-> ops, op |-> NoOp, held |-> << >>,
   primask |-> pm, basepri |-> bp]

top == Len(stack)
Running == stack[top]

\* The lines with a handler active, and the lines never created.
Active == {stack[i].who : i \in 2 .. top}
Fresh == {l \in Line : vector[l] = "halt"}

\* main's first kernel call is sched_init; handlers run after it.
Ready == Running.who = Thread => Running.ops <= MainOps

\* The priority of l is above the execution priority: above that of every
\* active handler, with PRIMASK clear (it boosts execution to priority 0)
\* and above BASEPRI unless it is 0.
Preempts(l) ==
  /\ \A a \in Active : ipr[l] < ipr[a]
  /\ ~primask
  /\ basepri # 0 => ipr[l] < basepri

Beats(h, l) == ipr[h] < ipr[l] \/ (ipr[h] = ipr[l] /\ h < l)
Waiting(l) == l \in enabled /\ l \in pending

Init ==
  /\ vector = [l \in Line |-> "halt"]
  /\ ipr = [l \in Line |-> 0]
  /\ enabled = {}
  /\ pending \in SUBSET Line       \* no guarantee about a fresh boot
  /\ primask = FALSE
  /\ basepri = 0
  /\ stack = << Frame(Thread, MainOps + 1, FALSE, 0) >>
  /\ asked = [l \in Line |-> 0]
  /\ running = FALSE

\* The running context changes; those below it do not.
Become(context) == stack' = [stack EXCEPT ![top] = context]

\* The running context makes a kernel call: one operation of its budget.
Call(op) ==
  /\ Running.op = NoOp
  /\ Running.ops > 0
  /\ Become([Running EXCEPT !.op = op, !.ops = @ - 1])

\* The running context goes on with the call it is in.
Continue(kind, op) ==
  /\ Running.op.kind = kind
  /\ Become([Running EXCEPT !.op = op])

-----------------------------------------------------------------------------
(* Setting up: sched_init and task_create, called by main.                 *)

\* sched_init: ICPR1 = 0x00FF0000, then SEVONPEND (which only concerns the
\* wake-up of WFI and is not modelled further).  main's first kernel call.
sched_init ==
  /\ Running.who = Thread
  /\ ~Ready
  /\ Call(NoOp)
  /\ pending' = pending \ Task
  /\ UNCHANGED <<vector, ipr, enabled, mask, asked, running>>

\* Mutant of CreateInstall: the line is enabled before its priority is set.
CreateInstallEnabled ==
  /\ Running.who = Thread
  /\ Ready
  /\ \E l \in Fresh, p \in Prio :
       /\ Call([kind |-> "install", line |-> l, prio |-> p])
       /\ vector' = [vector EXCEPT ![l] = "handler"]
       /\ asked' = [asked EXCEPT ![l] = p]
       /\ enabled' = enabled \cup {l}
  /\ UNCHANGED <<ipr, pending, mask, running>>

\* task_create, first store: nvic_install_handler writes fn | 1 at
\* VTOR + 0x40 + 4 * irq, whatever lies there.
CreateInstall ==
  /\ Running.who = Thread
  /\ Ready
  /\ \E l \in Fresh, p \in Prio :
       /\ Call([kind |-> "install", line |-> l, prio |-> p])
       /\ vector' = [vector EXCEPT ![l] = "handler"]
       /\ asked' = [asked EXCEPT ![l] = p]
  /\ UNCHANGED <<ipr, enabled, pending, mask, running>>

\* Mutant of CreatePriority: the byte index misses the line's number.
CreatePriorityMisplaced ==
  /\ Continue("install", [Running.op EXCEPT !.kind = "priority"])
  /\ ipr' = [ipr EXCEPT ![CHOOSE l \in Line : TRUE] = Running.op.prio]
  /\ UNCHANGED <<vector, enabled, pending, mask, asked, running>>

\* task_create, second store: the byte NVIC_IPR[irq].
CreatePriority ==
  /\ Continue("install", [Running.op EXCEPT !.kind = "priority"])
  /\ ipr' = [ipr EXCEPT ![Running.op.line] = Running.op.prio]
  /\ UNCHANGED <<vector, enabled, pending, mask, asked, running>>

\* task_create, third store: nvic_enable_irq sets the ISER bit.
CreateEnable ==
  /\ Continue("priority", NoOp)
  /\ enabled' = enabled \cup {Running.op.line}
  /\ UNCHANGED <<vector, ipr, pending, mask, asked, running>>

\* sched_run: cpsie i, then WFI for ever.
sched_run ==
  /\ Running.who = Thread
  /\ Running.op = NoOp
  /\ Running.held = << >>
  /\ Ready
  /\ ~running
  /\ running' = TRUE
  /\ primask' = FALSE
  /\ Become([Running EXCEPT !.ops = 0])
  /\ UNCHANGED <<nvic, basepri, asked>>

-----------------------------------------------------------------------------
(* Posting, from any context that is set up.                               *)

\* task_post_n; task_post is the case of one id.  Writing ISPR only adds.
task_post_n ==
  /\ Ready
  /\ Call(NoOp)
  /\ \E ids \in SUBSET Task : ids # {} /\ pending' = pending \cup ids
  /\ UNCHANGED <<vector, ipr, enabled, mask, asked, running>>

task_clear ==
  /\ Ready
  /\ Call(NoOp)
  /\ \E id \in Task : pending' = pending \ {id}
  /\ UNCHANGED <<vector, ipr, enabled, mask, asked, running>>

-----------------------------------------------------------------------------
(* Critical sections.  "held" is what the caller keeps between enter and   *)
(* exit: the value enter returned, and the guarantee it asked for.         *)

Section(kind, level, saved) == [kind |-> kind, level |-> level, saved |-> saved]

\* The context of frame f holds a section that promises to keep l out.
KeepsOut(f, l) == \E i \in DOMAIN f.held : f.held[i].level <= asked[l]

\* Mutant of EnterReadPrimask: PRIMASK is read after CPSID.
EnterReadPrimaskLate ==
  /\ Ready
  /\ Len(Running.held) < MaxNest
  /\ Call([kind |-> "cpsid", saved |-> TRUE])
  /\ UNCHANGED <<nvic, mask, asked, running>>

\* critical_enter: MRS r0, PRIMASK ...
EnterReadPrimask ==
  /\ Ready
  /\ Len(Running.held) < MaxNest
  /\ Call([kind |-> "cpsid", saved |-> primask])
  /\ UNCHANGED <<nvic, mask, asked, running>>

\* ... CPSID i.
EnterCpsid ==
  /\ Running.op.kind = "cpsid"
  /\ primask' = TRUE
  /\ Become([Running EXCEPT !.op = NoOp,
       !.held = Append(@, Section("primask", 0, Running.op.saved))])
  /\ UNCHANGED <<nvic, basepri, asked, running>>

\* critical_enter_basepri(prio): MRS r1, BASEPRI ...
EnterReadBasepri ==
  /\ Ready
  /\ Len(Running.held) < MaxNest
  /\ \E t \in Threshold :
       /\ NestWeaker \/ \A i \in DOMAIN Running.held :
              Running.held[i].kind = "basepri" => t <= Running.held[i].level
       /\ Call([kind |-> "msr", saved |-> basepri, level |-> t])
  /\ UNCHANGED <<nvic, mask, asked, running>>

\* ... MSR BASEPRI, r0: the new threshold replaces the old one.
EnterMsr ==
  /\ Running.op.kind = "msr"
  /\ basepri' = Running.op.level
  /\ Become([Running EXCEPT !.op = NoOp,
       !.held = Append(@, Section("basepri", Running.op.level,
                                  Running.op.saved))])
  /\ UNCHANGED <<nvic, primask, asked, running>>

\* critical_exit: MSR PRIMASK, r0 with the value of the matching enter.
critical_exit ==
  /\ Running.op = NoOp
  /\ Running.held # << >>
  /\ Last(Running.held).kind = "primask"
  /\ primask' = Last(Running.held).saved
  /\ Become([Running EXCEPT !.held = Front(@)])
  /\ UNCHANGED <<nvic, basepri, asked, running>>

\* Mutant of critical_exit_basepri: unmasks instead of restoring.
critical_exit_basepri_zero ==
  /\ Running.op = NoOp
  /\ Running.held # << >>
  /\ Last(Running.held).kind = "basepri"
  /\ basepri' = 0
  /\ Become([Running EXCEPT !.held = Front(@)])
  /\ UNCHANGED <<nvic, primask, asked, running>>

\* critical_exit_basepri: MSR BASEPRI, r0.
critical_exit_basepri ==
  /\ Running.op = NoOp
  /\ Running.held # << >>
  /\ Last(Running.held).kind = "basepri"
  /\ basepri' = Last(Running.held).saved
  /\ Become([Running EXCEPT !.held = Front(@)])
  /\ UNCHANGED <<nvic, primask, asked, running>>

-----------------------------------------------------------------------------
(* The hardware: exception entry and return, and device requests.          *)

\* The NVIC enters the best waiting line if it beats what is executing, and
\* clears its pending bit.
Enter(l) ==
  /\ Waiting(l)
  /\ \A k \in Line : Waiting(k) => ~Beats(k, l)
  /\ Preempts(l)
  /\ pending' = pending \ {l}
  /\ stack' = Append(stack, Frame(l, MaxOps, primask, basepri))
  /\ UNCHANGED <<vector, ipr, enabled, mask, asked, running>>

\* A handler returns: with every section closed (the task body contract).
Return ==
  /\ Running.who # Thread
  /\ Running.op = NoOp
  /\ Running.held = << >>
  /\ stack' = Front(stack)
  /\ UNCHANGED <<nvic, mask, asked, running>>

\* A peripheral raises its line at any time.
Request(d) ==
  /\ d \notin pending
  /\ pending' = pending \cup {d}
  /\ UNCHANGED <<vector, ipr, enabled, mask, stack, asked, running>>

\* The owner of the .bss words that follow _ram_vectors stores to them.
NeighbourStore ==
  /\ \E l \in Line :
       /\ Irq(l) >= TableIrqs
       /\ vector[l] = "handler"
       /\ vector' = [vector EXCEPT ![l] = "data"]
  /\ UNCHANGED <<ipr, enabled, pending, mask, stack, asked, running>>

\* What the running context does: kernel calls, then return.
Progress ==
  \/ sched_init \/ CreateInstall \/ CreatePriority \/ CreateEnable
  \/ sched_run \/ task_post_n \/ task_clear
  \/ EnterReadPrimask \/ EnterCpsid \/ critical_exit
  \/ EnterReadBasepri \/ EnterMsr \/ critical_exit_basepri
  \/ Return

Dispatch == \E l \in Line : Enter(l)

Next ==
  \/ Progress
  \/ Dispatch
  \/ \E d \in Device : Request(d)
  \/ NeighbourStore

(***************************************************************************)
(* Fairness: the core executes (a context that can go on does; its budget  *)
(* makes every activation end, the "no blocking" rule of docs/sched.md)    *)
(* and the NVIC enters a line it can enter.  Devices need not request.     *)
(***************************************************************************)
Spec == Init /\ [][Next]_vars /\ WF_vars(Progress) /\ WF_vars(Dispatch)

-----------------------------------------------------------------------------
(* Types. *)
Op ==
  {NoOp}
  \cup [kind : {"install", "priority"}, line : Line, prio : Prio]
  \cup [kind : {"cpsid"}, saved : BOOLEAN]
  \cup [kind : {"msr"}, saved : Threshold \cup {0}, level : Threshold]

HeldSection ==
  [kind : {"primask"}, level : {0}, saved : BOOLEAN]
  \cup [kind : {"basepri"}, level : Threshold, saved : Threshold \cup {0}]

Context ==
  [who : Line \cup {Thread}, ops : Nat, op : Op, held : Seq(HeldSection),
   primask : BOOLEAN, basepri : Threshold \cup {0}]

TypeOK ==
  /\ vector \in [Line -> {"halt", "handler", "data"}]
  /\ ipr \in [Line -> Prio \cup {0}]
  /\ enabled \in SUBSET Line
  /\ pending \in SUBSET Line
  /\ primask \in BOOLEAN
  /\ basepri \in Threshold \cup {0}
  /\ stack \in Seq(Context)
  /\ asked \in [Line -> Prio \cup {0}]
  /\ running \in BOOLEAN

(***************************************************************************)
(* What makes OnlyHigherPreempts and EntersAsCreated inductive: main is at *)
(* the bottom and it alone creates tasks, an active line is enabled, each  *)
(* handler has a strictly better IPR byte than every one below it, and a   *)
(* line is enabled only once its vector and its byte are as asked for.     *)
(***************************************************************************)
StackInv ==
  /\ top >= 1
  /\ stack[1].who = Thread
  /\ \A i \in 2 .. top : stack[i].who \in enabled
  /\ \A i, j \in 2 .. top : i < j => ipr[stack[j].who] < ipr[stack[i].who]

Creating(i) == stack[i].op.kind \in {"install", "priority"}

CreateInv ==
  /\ \A l \in enabled : ipr[l] = asked[l] /\ vector[l] # "halt"
  /\ \A i \in 1 .. top : Creating(i) =>
       /\ i = 1
       /\ stack[i].op.line \in Line \ enabled
       /\ vector[stack[i].op.line] # "halt"
       /\ asked[stack[i].op.line] = stack[i].op.prio
       /\ stack[i].op.kind = "priority" =>
            ipr[stack[i].op.line] = stack[i].op.prio
  /\ \A l \in Line : vector[l] = "data" => Irq(l) >= TableIrqs

IInv == TypeOK /\ StackInv /\ CreateInv

(* Handler l is entered by this step; the running handler returns.         *)
Entered(l) == Len(stack') > top /\ stack'[Len(stack')].who = l
Returned == Len(stack') < top

(***************************************************************************)
(* Run to completion: a handler is only ever preempted by one that was     *)
(* created with a strictly higher priority, so tasks of one priority never *)
(* race and no task is re-entered (sched.S, "Tasks at the same priority    *)
(* can't race").  It depends on task_create giving each line its byte.     *)
(***************************************************************************)
OnlyHigherPreempts ==
  \A i, j \in 2 .. top : i < j => asked[stack[j].who] < asked[stack[i].who]

(***************************************************************************)
(* A line is entered only with the handler and at the priority task_create *)
(* was asked for, although a post may be waiting while it is being created *)
(* and the creation can be preempted between its three stores.             *)
(***************************************************************************)
EntersAsCreated ==
  [][\A l \in Line : Entered(l) =>
       ipr[l] = asked[l] /\ (Irq(l) < TableIrqs => vector[l] = "handler")]_vars

(***************************************************************************)
(* The same of every slot task_create accepts ("IRQ 48..55 = tasks 0..7"), *)
(* also where the vector table has no entry for it.                        *)
(***************************************************************************)
EverySlotEntersAsCreated ==
  [][\A l \in Line : Entered(l) => vector[l] = "handler"]_vars

(***************************************************************************)
(* While a critical section is open in any active context, no handler that *)
(* it promises to keep out is entered: none for critical_enter, none at or *)
(* below its threshold for critical_enter_basepri.  Sections nest, and a   *)
(* preempting handler opens and closes its own in between.                 *)
(***************************************************************************)
SectionsHold ==
  [][\A l \in Line : Entered(l) =>
       \A i \in 1 .. top : ~KeepsOut(stack[i], l)]_vars

(***************************************************************************)
(* A handler leaves PRIMASK and BASEPRI as it found them, which is what    *)
(* makes the two-instruction read-then-write of the enter functions safe   *)
(* against preemption between the two.                                     *)
(***************************************************************************)
MasksRestored ==
  [][Returned => primask = Running.primask /\ basepri = Running.basepri]_vars

(***************************************************************************)
(* A waiting line is starved only by lines that beat it: if it waits for   *)
(* ever from some point on, lines of higher priority (or of equal priority *)
(* and lower number) are entered for ever.  In particular no critical      *)
(* section, finished or not, keeps the processor masked.                   *)
(***************************************************************************)
OnlyBetterLinesStarve ==
  \A l \in Line :
    <>[]Waiting(l) => []<><<\E h \in Line : Beats(h, l) /\ Entered(h)>>_vars

=============================================================================
