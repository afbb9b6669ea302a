---------------------------- MODULE SchedProofs -----------------------------
(***************************************************************************)
(* Proofs about Sched for every set of tasks, devices, priority bands and  *)
(* thresholds and every bound.  IInv, the shape of the stack and of what a *)
(* half-created task looks like, is inductive by itself; MaskInv, what the *)
(* open sections saved, and SectionInv, whom they let in, rest on it.      *)
(***************************************************************************)
EXTENDS Sched, TLAPS

USE DEF top, Running, NoOp, Thread

\* The initial state: only main is active and nothing is enabled.
LEMMA InitInv == Init => IInv
<1> SUFFICES ASSUME Init PROVE IInv
  OBVIOUS
<1>1. Frame(Thread, MainOps + 1, FALSE, 0) \in Context
  <2>1. NoOp \in Op
    BY DEF Op
  <2>2. MainOps + 1 \in Nat /\ << >> \in Seq(HeldSection)
    BY BoundAssumption
  <2>3. QED
    BY <2>1, <2>2 DEF Frame, Context
<1>2. TypeOK
  <2>1. stack \in Seq(Context)
    <3>1. stack = << Frame(Thread, MainOps + 1, FALSE, 0) >>
      BY DEF Init
    <3>2. \A c \in Context : << c >> \in Seq(Context)
      OBVIOUS
    <3>3. QED
      BY <1>1, <3>1, <3>2
  <2>2. QED
    BY <2>1 DEF Init, TypeOK
<1>3. StackInv
  BY DEF Init, StackInv, Frame
<1>4. CreateInv
  BY DEF Init, CreateInv, Creating, Frame
<1>5. QED
  BY <1>2, <1>3, <1>4 DEF IInv

-----------------------------------------------------------------------------
(* Types.                                                                  *)

\* Replacing the running context keeps the stack a stack of contexts.
LEMMA BecomeType ==
  ASSUME TypeOK, top >= 1, NEW c \in Context, Become(c)
  PROVE  stack' \in Seq(Context)
BY DEF Become, TypeOK

\* The running context and its fields.
LEMMA RunningType ==
  ASSUME TypeOK, top >= 1
  PROVE  /\ Running \in Context
         /\ Running.who \in Line \cup {Thread}
         /\ Running.ops \in Nat
         /\ Running.op \in Op
         /\ Running.held \in Seq(HeldSection)
<1>1. Running \in Context
  BY DEF TypeOK
<1>2. QED
  BY <1>1 DEF Context

\* A kernel call leaves a context behind.
LEMMA CallType ==
  ASSUME TypeOK, top >= 1, NEW op \in Op, Call(op)
  PROVE  stack' \in Seq(Context)
<1>1. Running \in Context /\ Running.ops - 1 \in Nat
  BY RunningType DEF Call
<1>2. [Running EXCEPT !.op = op, !.ops = @ - 1] \in Context
  BY <1>1 DEF Context
<1>3. QED
  BY <1>2, BecomeType DEF Call

\* So does going on with it.
LEMMA ContinueType ==
  ASSUME TypeOK, top >= 1, NEW kind, NEW op \in Op, Continue(kind, op)
  PROVE  stack' \in Seq(Context)
<1>1. [Running EXCEPT !.op = op] \in Context
  BY RunningType DEF Context
<1>2. QED
  BY <1>1, BecomeType DEF Continue

\* Opening and closing a section keep the list of held sections a list.
LEMMA OpenType ==
  ASSUME TypeOK, top >= 1, NEW s \in HeldSection,
         Become([Running EXCEPT !.op = NoOp, !.held = Append(@, s)])
  PROVE  stack' \in Seq(Context)
<1>1. NoOp \in Op
  BY DEF Op
<1>2. Running \in Context /\ Append(Running.held, s) \in Seq(HeldSection)
  BY RunningType
<1>3. [Running EXCEPT !.op = NoOp, !.held = Append(@, s)] \in Context
  BY <1>1, <1>2 DEF Context
<1>4. QED
  BY <1>3, BecomeType

LEMMA CloseType ==
  ASSUME TypeOK, top >= 1, Running.held # << >>,
         Become([Running EXCEPT !.held = Front(@)])
  PROVE  /\ stack' \in Seq(Context)
         /\ Last(Running.held) \in HeldSection
<1>1. Running \in Context /\ Running.held \in Seq(HeldSection)
  BY RunningType
<1>2. /\ Front(Running.held) \in Seq(HeldSection)
      /\ Last(Running.held) \in HeldSection
  BY <1>1 DEF Front, Last
<1>3. [Running EXCEPT !.held = Front(@)] \in Context
  BY <1>1, <1>2 DEF Context
<1>4. QED
  BY <1>2, <1>3, BecomeType

\* The kinds of a call in progress tell its fields apart.
LEMMA OpFields ==
  ASSUME NEW op \in Op
  PROVE  /\ op.kind \in {"install", "priority"} =>
              op.line \in Line /\ op.prio \in Prio
         /\ op.kind = "cpsid" => op.saved \in BOOLEAN
         /\ op.kind = "msr" =>
              op.saved \in Threshold \cup {0} /\ op.level \in Threshold
BY DEF Op

LEMMA TypeStep == TypeOK /\ top >= 1 /\ [Next]_vars => TypeOK'
<1> SUFFICES ASSUME TypeOK, top >= 1, [Next]_vars PROVE TypeOK'
  OBVIOUS
<1> USE DEF nvic, mask
<1>a. Running \in Context /\ Running.op \in Op
  BY RunningType
<1>b. NoOp \in Op
  BY DEF Op
<1>1. CASE sched_init
  BY <1>1, <1>b, CallType DEF sched_init, TypeOK
<1>2. CASE CreateInstall
  <2>1. PICK l \in Fresh, p \in Prio :
          /\ Call([kind |-> "install", line |-> l, prio |-> p])
          /\ vector' = [vector EXCEPT ![l] = "handler"]
          /\ asked' = [asked EXCEPT ![l] = p]
    BY <1>2 DEF CreateInstall
  <2>2. [kind |-> "install", line |-> l, prio |-> p] \in Op
    BY DEF Op, Fresh
  <2>3. QED
    BY <1>2, <2>1, <2>2, CallType DEF CreateInstall, TypeOK, Fresh
<1>3. CASE CreatePriority
  <2>1. Running.op.line \in Line /\ Running.op.prio \in Prio
    BY <1>3, <1>a, OpFields DEF CreatePriority, Continue
  <2>2. [Running.op EXCEPT !.kind = "priority"] \in Op
    BY <1>3, <1>a DEF CreatePriority, Continue, Op
  <2>3. QED
    BY <1>3, <2>1, <2>2, ContinueType DEF CreatePriority, TypeOK
<1>4. CASE CreateEnable
  <2>1. Running.op.line \in Line
    BY <1>4, <1>a, OpFields DEF CreateEnable, Continue
  <2>2. QED
    BY <1>4, <1>b, <2>1, ContinueType DEF CreateEnable, TypeOK
<1>5. CASE sched_run
  <2>1. [Running EXCEPT !.ops = 0] \in Context
    BY <1>a DEF Context
  <2>2. QED
    BY <1>5, <2>1, BecomeType DEF sched_run, TypeOK
<1>6. CASE task_post_n
  BY <1>6, <1>b, CallType DEF task_post_n, TypeOK, Line
<1>7. CASE task_clear
  BY <1>7, <1>b, CallType DEF task_clear, TypeOK
<1>8. CASE EnterReadPrimask
  <2>1. [kind |-> "cpsid", saved |-> primask] \in Op
    BY DEF Op, TypeOK
  <2>2. QED
    BY <1>8, <2>1, CallType DEF EnterReadPrimask, TypeOK
<1>9. CASE EnterCpsid
  <2>1. Section("primask", 0, Running.op.saved) \in HeldSection
    BY <1>9, <1>a, OpFields DEF EnterCpsid, Section, HeldSection
  <2>2. QED
    BY <1>9, <2>1, OpenType DEF EnterCpsid, TypeOK
<1>10. CASE critical_exit
  <2>1. stack' \in Seq(Context) /\ Last(Running.held) \in HeldSection
    BY <1>10, CloseType DEF critical_exit
  <2>2. Last(Running.held).saved \in BOOLEAN
    BY <1>10, <2>1 DEF critical_exit, HeldSection
  <2>3. QED
    BY <1>10, <2>1, <2>2 DEF critical_exit, TypeOK
<1>11. CASE EnterReadBasepri
  <2>1. \A t \in Threshold :
          [kind |-> "msr", saved |-> basepri, level |-> t] \in Op
    BY DEF Op, TypeOK
  <2>2. QED
    BY <1>11, <2>1, CallType DEF EnterReadBasepri, TypeOK
<1>12. CASE EnterMsr
  <2>1. /\ Running.op.saved \in Threshold \cup {0}
        /\ Running.op.level \in Threshold
    BY <1>12, <1>a, OpFields DEF EnterMsr
  <2>2. Section("basepri", Running.op.level, Running.op.saved) \in HeldSection
    BY <2>1 DEF Section, HeldSection
  <2>3. QED
    BY <1>12, <2>1, <2>2, OpenType DEF EnterMsr, TypeOK
<1>13. CASE critical_exit_basepri
  <2>1. stack' \in Seq(Context) /\ Last(Running.held) \in HeldSection
    BY <1>13, CloseType DEF critical_exit_basepri
  <2>2. Last(Running.held).saved \in Threshold \cup {0}
    BY <1>13, <2>1 DEF critical_exit_basepri, HeldSection
  <2>3. QED
    BY <1>13, <2>1, <2>2 DEF critical_exit_basepri, TypeOK
<1>14. CASE Return
  <2>1. Front(stack) \in Seq(Context)
    BY DEF TypeOK, Front
  <2>2. QED
    BY <1>14, <2>1 DEF Return, TypeOK
<1>15. CASE Dispatch
  <2>1. PICK l \in Line : Enter(l)
    BY <1>15 DEF Dispatch
  <2>2. Frame(l, MaxOps, primask, basepri) \in Context
    BY <1>b, BoundAssumption DEF Frame, Context, TypeOK
  <2>3. QED
    BY <2>1, <2>2 DEF Enter, TypeOK
<1>16. CASE \E d \in Device : Request(d)
  BY <1>16 DEF Request, Line, TypeOK
<1>17. CASE NeighbourStore
  BY <1>17 DEF NeighbourStore, TypeOK
<1>18. CASE UNCHANGED vars
  BY <1>18 DEF vars, TypeOK
<1>19. QED
  BY <1>1, <1>2, <1>3, <1>4, <1>5, <1>6, <1>7, <1>8, <1>9, <1>10, <1>11,
     <1>12, <1>13, <1>14, <1>15, <1>16, <1>17, <1>18 DEF Next, Progress

-----------------------------------------------------------------------------
(* Who is active, and which lines are enabled.                             *)

\* What replacing the running context by one of the same owner does.
LEMMA BecomeKeepsOwners ==
  ASSUME TypeOK, top >= 1, NEW c, c.who = Running.who, Become(c)
  PROVE  /\ Len(stack') = top
         /\ stack'[top] = c
         /\ \A i \in 1 .. top - 1 : stack'[i] = stack[i]
         /\ \A i \in 1 .. top : stack'[i].who = stack[i].who
BY DEF Become, TypeOK

\* A kernel call that neither creates a task nor touches the tables keeps
\* the order of the stack and the state of the creations.
LEMMA QuietStep ==
  ASSUME IInv, NEW c, c.who = Running.who, Become(c),
         c.op.kind \notin {"install", "priority"},
         UNCHANGED <<vector, ipr, enabled, asked>>
  PROVE  StackInv' /\ CreateInv'
<1> USE DEF IInv
<1>1. /\ Len(stack') = top
      /\ stack'[top] = c
      /\ \A i \in 1 .. top - 1 : stack'[i] = stack[i]
      /\ \A i \in 1 .. top : stack'[i].who = stack[i].who
  BY BecomeKeepsOwners DEF StackInv
<1>2. top \in Nat
  BY DEF TypeOK
<1>3. StackInv'
  <2>1. stack'[1].who = Thread
    BY <1>1, <1>2 DEF StackInv
  <2>2. ASSUME NEW i \in 2 .. top PROVE stack'[i].who \in enabled'
    BY <1>1, <1>2 DEF StackInv
  <2>3. ASSUME NEW i \in 2 .. top, NEW j \in 2 .. top, i < j
        PROVE  ipr'[stack'[j].who] < ipr'[stack'[i].who]
    <3>1. stack'[i].who = stack[i].who /\ stack'[j].who = stack[j].who
      BY <1>1, <1>2
    <3>2. QED
      BY <2>3, <3>1 DEF StackInv
  <2>4. QED
    BY <1>1, <2>1, <2>2, <2>3 DEF StackInv
<1>4. \A i \in 1 .. top : Creating(i)' => Creating(i) /\ stack'[i] = stack[i]
  BY <1>1, <1>2 DEF Creating
<1>5. CreateInv'
  BY <1>1, <1>4 DEF CreateInv
<1>6. QED
  BY <1>3, <1>5

\* A kernel call replaces the running context by one that is in the call.
LEMMA CallBecomes ==
  ASSUME TypeOK, top >= 1, NEW op, Call(op)
  PROVE  \E c : Become(c) /\ c.who = Running.who /\ c.op = op
<1> DEFINE c == [Running EXCEPT !.op = op, !.ops = @ - 1]
<1>1. c.who = Running.who /\ c.op = op
  BY RunningType DEF Context
<1>2. Become(c)
  BY DEF Call
<1>3. QED
  BY <1>1, <1>2

\* A call outside task_create is a quiet step.
LEMMA QuietCall ==
  ASSUME IInv, NEW op, Call(op), op.kind \notin {"install", "priority"},
         UNCHANGED <<vector, ipr, enabled, asked>>
  PROVE  StackInv' /\ CreateInv'
<1>1. PICK c : Become(c) /\ c.who = Running.who /\ c.op = op
  BY CallBecomes DEF IInv, StackInv
<1>2. QED
  BY <1>1, QuietStep

\* Thread mode runs only when no handler is active.
LEMMA ThreadIsAlone ==
  ASSUME IInv
  PROVE  /\ Thread \notin Line
         /\ Running.who = Thread => top = 1
         /\ Creating(top) => top = 1
<1>1. Thread \notin Line
  BY LineAssumption DEF Line
<1>2. top \in Nat /\ top >= 1
  BY DEF IInv, TypeOK, StackInv
<1>3. top >= 2 => stack[top].who \in Line
  BY <1>2 DEF IInv, TypeOK, StackInv
<1>4. ASSUME Running.who = Thread PROVE top = 1
  <2>1. top >= 2 => Thread \in Line
    BY <1>3, <1>4
  <2>2. ~(top >= 2)
    BY <1>1, <2>1
  <2>3. \A n \in Nat : n >= 1 /\ ~(n >= 2) => n = 1
    OBVIOUS
  <2>4. QED
    BY ONLY <1>2, <2>2, <2>3
<1>5. Creating(top) => top = 1
  <2>1. top \in 1 .. top
    BY <1>2
  <2>2. QED
    BY <2>1 DEF IInv, CreateInv
<1>6. QED
  BY <1>1, <1>4, <1>5

\* The first store of task_create: only the new line's vector changes.
LEMMA InstallStep == IInv /\ CreateInstall => StackInv' /\ CreateInv'
<1> SUFFICES ASSUME IInv, CreateInstall PROVE StackInv' /\ CreateInv'
  OBVIOUS
<1>1. PICK l \in Fresh, p \in Prio :
        /\ Call([kind |-> "install", line |-> l, prio |-> p])
        /\ vector' = [vector EXCEPT ![l] = "handler"]
        /\ asked' = [asked EXCEPT ![l] = p]
  BY DEF CreateInstall
<1>2. top = 1 /\ TypeOK
  BY ThreadIsAlone DEF CreateInstall, IInv
<1>3. l \in Line \ enabled
  BY DEF Fresh, IInv, CreateInv
<1>4. PICK c : /\ Become(c)
               /\ c.who = Running.who
               /\ c.op = [kind |-> "install", line |-> l, prio |-> p]
  BY <1>1, <1>2, CallBecomes
<1>5. Len(stack') = 1 /\ stack'[1] = c /\ stack'[1].who = Thread
  BY <1>2, <1>4, BecomeKeepsOwners DEF IInv, StackInv
<1>6. StackInv'
  BY <1>5 DEF StackInv
<1>7. UNCHANGED <<ipr, enabled>>
  BY DEF CreateInstall
<1>8. \A k \in enabled' : ipr'[k] = asked'[k] /\ vector'[k] # "halt"
  <2>1. ASSUME NEW k \in enabled
        PROVE  ipr[k] = asked[k] /\ vector[k] # "halt" /\ k \in Line /\ k # l
    BY <1>2, <1>3 DEF IInv, CreateInv, TypeOK
  <2>2. \A k \in Line : k # l => vector'[k] = vector[k] /\ asked'[k] = asked[k]
    BY <1>1, <1>2 DEF TypeOK
  <2>3. QED
    BY <1>7, <2>1, <2>2
<1>9. asked'[l] = p /\ vector'[l] = "handler"
  BY <1>1, <1>2, <1>3 DEF TypeOK
<1>10. \A k \in Line : vector'[k] = "data" => Irq(k) >= TableIrqs
  BY <1>1, <1>2 DEF IInv, CreateInv, TypeOK
<1>11. CreateInv'
  BY <1>3, <1>4, <1>5, <1>7, <1>8, <1>9, <1>10 DEF CreateInv, Creating
<1>12. QED
  BY <1>6, <1>11

\* The second store: the byte of a line that is not enabled yet.
LEMMA PriorityStep == IInv /\ CreatePriority => StackInv' /\ CreateInv'
<1> SUFFICES ASSUME IInv, CreatePriority PROVE StackInv' /\ CreateInv'
  OBVIOUS
<1>1. /\ Running.op.kind = "install"
      /\ Become([Running EXCEPT
                   !.op = [Running.op EXCEPT !.kind = "priority"]])
      /\ ipr' = [ipr EXCEPT ![Running.op.line] = Running.op.prio]
      /\ UNCHANGED <<vector, enabled, asked>>
  BY DEF CreatePriority, Continue, mask
<1>2. top = 1 /\ TypeOK
  BY <1>1, ThreadIsAlone DEF Creating, IInv
<1>3. /\ Running.op.line \in Line \ enabled
      /\ vector[Running.op.line] # "halt"
      /\ asked[Running.op.line] = Running.op.prio
  BY <1>1, <1>2 DEF Creating, IInv, CreateInv
<1>4. PICK c : c = [Running EXCEPT
                      !.op = [Running.op EXCEPT !.kind = "priority"]]
  OBVIOUS
<1>5. /\ Become(c)
      /\ c.who = Running.who
      /\ c.op.kind = "priority"
      /\ c.op.line = Running.op.line
      /\ c.op.prio = Running.op.prio
  <2>1. Running \in Context /\ Running.op \in [kind : {"install", "priority"},
                                               line : Line, prio : Prio]
    BY <1>1, <1>2, RunningType DEF Op
  <2>2. c.who = Running.who /\ c.op = [Running.op EXCEPT !.kind = "priority"]
    BY <1>4, <2>1 DEF Context
  <2>3. QED
    BY <1>1, <1>4, <2>1, <2>2
<1>6. Len(stack') = 1 /\ stack'[1] = c /\ stack'[1].who = Thread
  BY <1>2, <1>5, BecomeKeepsOwners DEF IInv, StackInv
<1>7. StackInv'
  BY <1>6 DEF StackInv
<1>8. ipr'[Running.op.line] = Running.op.prio
  BY <1>1, <1>2, <1>3 DEF TypeOK
<1>9. \A k \in enabled' : ipr'[k] = asked'[k] /\ vector'[k] # "halt"
  BY <1>1, <1>2, <1>3 DEF IInv, CreateInv, TypeOK
<1>10. CreateInv'
  BY <1>1, <1>3, <1>5, <1>6, <1>8, <1>9 DEF IInv, CreateInv, Creating
<1>11. QED
  BY <1>7, <1>10

\* The third store: the line is enabled with its vector and its byte set.
LEMMA EnableStep == IInv /\ CreateEnable => StackInv' /\ CreateInv'
<1> SUFFICES ASSUME IInv, CreateEnable PROVE StackInv' /\ CreateInv'
  OBVIOUS
<1>1. /\ Running.op.kind = "priority"
      /\ Become([Running EXCEPT !.op = NoOp])
      /\ enabled' = enabled \cup {Running.op.line}
      /\ UNCHANGED <<vector, ipr, asked>>
  BY DEF CreateEnable, Continue, mask
<1>2. top = 1 /\ TypeOK
  BY <1>1, ThreadIsAlone DEF Creating, IInv
<1>3. /\ vector[Running.op.line] # "halt"
      /\ asked[Running.op.line] = ipr[Running.op.line]
  BY <1>1, <1>2 DEF Creating, IInv, CreateInv
<1>4. PICK c : c = [Running EXCEPT !.op = NoOp]
  OBVIOUS
<1>5. Become(c) /\ c.who = Running.who /\ c.op = NoOp
  BY <1>1, <1>2, <1>4, RunningType DEF Context
<1>6. Len(stack') = 1 /\ stack'[1] = c /\ stack'[1].who = Thread
  BY <1>2, <1>5, BecomeKeepsOwners DEF IInv, StackInv
<1>7. StackInv'
  BY <1>6 DEF StackInv
<1>8. CreateInv'
  BY <1>1, <1>3, <1>5, <1>6 DEF IInv, CreateInv, Creating
<1>9. QED
  BY <1>7, <1>8

\* Exception entry stacks a handler that beats every active one.
LEMMA EnterStep ==
  ASSUME IInv, NEW l \in Line, Enter(l)
  PROVE  StackInv' /\ CreateInv'
<1>1. /\ l \in enabled
      /\ Preempts(l)
      /\ stack' = Append(stack, Frame(l, MaxOps, primask, basepri))
      /\ UNCHANGED <<vector, ipr, enabled, asked>>
  BY DEF Enter, Waiting
<1>2. /\ top \in Nat
      /\ Len(stack') = top + 1
      /\ \A i \in 1 .. top : stack'[i] = stack[i]
      /\ stack'[top + 1] = Frame(l, MaxOps, primask, basepri)
  BY <1>1 DEF IInv, TypeOK
<1>3. stack'[top + 1].who = l /\ stack'[top + 1].op = NoOp
  BY <1>2 DEF Frame
<1>4. \A i \in 2 .. top : ipr[l] < ipr[stack[i].who]
  BY <1>1 DEF Preempts, Active
<1>5. StackInv'
  <2>1. Len(stack') >= 1 /\ stack'[1].who = Thread
    BY <1>2 DEF IInv, StackInv
  <2>2. ASSUME NEW i \in 2 .. top + 1 PROVE stack'[i].who \in enabled'
    BY <1>1, <1>2, <1>3 DEF IInv, StackInv
  <2>3. ASSUME NEW i \in 2 .. top + 1, NEW j \in 2 .. top + 1, i < j
        PROVE  ipr'[stack'[j].who] < ipr'[stack'[i].who]
    <3>1. i \in 2 .. top /\ stack'[i] = stack[i]
      BY <1>2, <2>3
    <3>2. CASE j = top + 1
      BY <1>1, <1>3, <1>4, <3>1, <3>2
    <3>3. CASE j \in 2 .. top
      BY <1>1, <1>2, <2>3, <3>1, <3>3 DEF IInv, StackInv
    <3>4. QED
      BY <1>2, <3>2, <3>3
  <2>4. QED
    BY <1>2, <2>1, <2>2, <2>3 DEF StackInv
<1>6. \A i \in 1 .. top + 1 : Creating(i)' => i \in 1 .. top /\ Creating(i)
  BY <1>2, <1>3 DEF Creating
<1>7. CreateInv'
  BY <1>1, <1>2, <1>6 DEF IInv, CreateInv
<1>8. QED
  BY <1>5, <1>7

\* Exception return uncovers the handler below.
LEMMA ReturnStep == IInv /\ Return => StackInv' /\ CreateInv'
<1> SUFFICES ASSUME IInv, Return PROVE StackInv' /\ CreateInv'
  OBVIOUS
<1>1. /\ Running.who # Thread
      /\ stack' = SubSeq(stack, 1, top - 1)
      /\ UNCHANGED <<vector, ipr, enabled, asked>>
  BY DEF Return, Front, nvic
<1>2. top \in Nat /\ top >= 2
  BY <1>1 DEF IInv, TypeOK, StackInv
<1>3. Len(stack') = top - 1 /\ \A i \in 1 .. top - 1 : stack'[i] = stack[i]
  BY <1>1, <1>2 DEF IInv, TypeOK
<1>4. StackInv'
  <2>1. Len(stack') >= 1 /\ stack'[1].who = Thread
    BY <1>2, <1>3 DEF IInv, StackInv
  <2>2. QED
    BY <1>1, <1>2, <1>3, <2>1 DEF IInv, StackInv
<1>5. \A i \in 1 .. top - 1 : Creating(i)' => Creating(i)
  BY <1>3 DEF Creating
<1>6. CreateInv'
  BY <1>1, <1>2, <1>3, <1>5 DEF IInv, CreateInv
<1>7. QED
  BY <1>4, <1>6

\* A store to the words after the vector table.
LEMMA NeighbourStep == IInv /\ NeighbourStore => StackInv' /\ CreateInv'
<1> SUFFICES ASSUME IInv, NeighbourStore PROVE StackInv' /\ CreateInv'
  OBVIOUS
<1>1. PICK l \in Line : /\ Irq(l) >= TableIrqs
                        /\ vector' = [vector EXCEPT ![l] = "data"]
  BY DEF NeighbourStore
<1>2. UNCHANGED <<ipr, enabled, stack, asked>>
  BY DEF NeighbourStore
<1>3. StackInv'
  BY <1>2 DEF IInv, StackInv
<1>4. \A k \in Line : vector'[k] = IF k = l THEN "data" ELSE vector[k]
  BY <1>1 DEF IInv, TypeOK
<1>5. CreateInv'
  BY <1>1, <1>2, <1>4 DEF IInv, CreateInv, Creating, TypeOK
<1>6. QED
  BY <1>3, <1>5

LEMMA StackStep == IInv /\ [Next]_vars => StackInv' /\ CreateInv'
<1> SUFFICES ASSUME IInv, [Next]_vars PROVE StackInv' /\ CreateInv'
  OBVIOUS
<1> USE DEF nvic, mask
<1>0. TypeOK /\ top >= 1 /\ top \in Nat /\ Running \in Context
  BY RunningType DEF IInv, StackInv, TypeOK
<1>1. CASE sched_init
  BY <1>1, QuietCall DEF sched_init
<1>6. CASE task_post_n
  BY <1>6, QuietCall DEF task_post_n
<1>7. CASE task_clear
  BY <1>7, QuietCall DEF task_clear
<1>8. CASE EnterReadPrimask
  BY <1>8, QuietCall DEF EnterReadPrimask
<1>11. CASE EnterReadBasepri
  <2>1. PICK t \in Threshold :
          Call([kind |-> "msr", saved |-> basepri, level |-> t])
    BY <1>11 DEF EnterReadBasepri
  <2>2. QED
    BY <1>11, <2>1, QuietCall DEF EnterReadBasepri
<1>5. CASE sched_run
  <2>1. PICK c : c = [Running EXCEPT !.ops = 0]
    OBVIOUS
  <2>2. Become(c) /\ c.who = Running.who /\ c.op = NoOp
    BY <1>0, <1>5, <2>1 DEF sched_run, Context
  <2>3. QED
    BY <1>5, <2>2, QuietStep DEF sched_run
<1>9. CASE EnterCpsid
  <2>1. PICK c : /\ c = [Running EXCEPT !.op = NoOp,
                    !.held = Append(@, Section("primask", 0,
                                               Running.op.saved))]
    OBVIOUS
  <2>2. Become(c) /\ c.who = Running.who /\ c.op = NoOp
    BY <1>0, <1>9, <2>1 DEF EnterCpsid, Context
  <2>3. QED
    BY <1>9, <2>2, QuietStep DEF EnterCpsid
<1>12. CASE EnterMsr
  <2>1. PICK c : /\ c = [Running EXCEPT !.op = NoOp,
                    !.held = Append(@, Section("basepri", Running.op.level,
                                               Running.op.saved))]
    OBVIOUS
  <2>2. Become(c) /\ c.who = Running.who /\ c.op = NoOp
    BY <1>0, <1>12, <2>1 DEF EnterMsr, Context
  <2>3. QED
    BY <1>12, <2>2, QuietStep DEF EnterMsr
<1>10. CASE critical_exit \/ critical_exit_basepri
  <2>1. PICK c : c = [Running EXCEPT !.held = Front(@)]
    OBVIOUS
  <2>2. Become(c) /\ c.who = Running.who /\ c.op = NoOp
    BY <1>0, <1>10, <2>1 DEF critical_exit, critical_exit_basepri, Context
  <2>3. QED
    BY <1>10, <2>2, QuietStep DEF critical_exit, critical_exit_basepri
<1>13. CASE CreateInstall \/ CreatePriority \/ CreateEnable
  BY <1>13, InstallStep, PriorityStep, EnableStep
<1>14. CASE Return
  BY <1>14, ReturnStep
<1>15. CASE Dispatch
  BY <1>15, EnterStep DEF Dispatch
<1>16. CASE (\E d \in Device : Request(d)) \/ UNCHANGED vars
  <2>1. UNCHANGED <<vector, ipr, enabled, stack, asked>>
    BY <1>16 DEF Request, vars
  <2>2. QED
    BY <2>1 DEF IInv, StackInv, CreateInv, Creating
<1>17. CASE NeighbourStore
  BY <1>17, NeighbourStep
<1>18. QED
  BY <1>1, <1>5, <1>6, <1>7, <1>8, <1>9, <1>10, <1>11, <1>12, <1>13, <1>14,
     <1>15, <1>16, <1>17 DEF Next, Progress

-----------------------------------------------------------------------------

\* The invariant is invariant.
THEOREM Invariance == Spec => []IInv
<1>1. IInv => TypeOK /\ top >= 1
  BY DEF IInv, StackInv
<1>2. IInv /\ [Next]_vars => IInv'
  BY <1>1, TypeStep, StackStep DEF IInv
<1>3. QED
  BY <1>2, InitInv, PTL DEF Spec

\* The vector table, the registers and the stack of contexts are well formed.
THEOREM TypeCorrect == Spec => []TypeOK
<1>1. IInv => TypeOK
  BY DEF IInv
<1>2. QED
  BY <1>1, Invariance, PTL

\* Tasks created with the same priority never preempt each other and no task
\* is re-entered (sched.S, docs/sched.md "Run-to-completion").
THEOREM RunToCompletion == Spec => []OnlyHigherPreempts
<1>1. IInv => OnlyHigherPreempts
  BY DEF IInv, StackInv, CreateInv, OnlyHigherPreempts
<1>2. QED
  BY <1>1, Invariance, PTL

\* The stack grows only by exception entry and shrinks only by return.
LEMMA StackMoves ==
  ASSUME IInv, [Next]_vars
  PROVE  /\ \A l \in Line : Entered(l) => Enter(l)
         /\ Returned => Return
<1>0. TypeOK /\ top >= 1 /\ top \in Nat
  BY DEF IInv, StackInv, TypeOK
<1>1. CASE Dispatch
  <2>1. PICK k \in Line : Enter(k)
    BY <1>1 DEF Dispatch
  <2>2. Len(stack') = top + 1 /\ stack'[Len(stack')].who = k
    BY <1>0, <2>1 DEF Enter, Frame, TypeOK
  <2>3. QED
    BY <1>0, <2>1, <2>2 DEF Entered, Returned
<1>2. CASE Progress /\ ~Return
  <2>1. (\E c : Become(c)) => Len(stack') = top
    BY <1>0 DEF Become, TypeOK
  <2>2. \A op : Call(op) => \E c : Become(c)
    BY Zenon DEF Call
  <2>3. \A kind, op : Continue(kind, op) => \E c : Become(c)
    BY Zenon DEF Continue
  <2>4. ASSUME \/ sched_init \/ task_post_n \/ task_clear \/ CreateInstall
               \/ EnterReadPrimask \/ EnterReadBasepri
        PROVE  \E c : Become(c)
    <3>1. \E op : Call(op)
      BY Zenon, <2>4 DEF sched_init, task_post_n, task_clear,
         CreateInstall, EnterReadPrimask, EnterReadBasepri
    <3>2. QED
      BY <2>2, <3>1
  <2>5. ASSUME CreatePriority \/ CreateEnable
        PROVE  \E c : Become(c)
    <3>1. \E kind, op : Continue(kind, op)
      BY Zenon, <2>5 DEF CreatePriority, CreateEnable
    <3>2. QED
      BY <2>3, <3>1
  <2>6. ASSUME \/ sched_run \/ EnterCpsid \/ EnterMsr
               \/ critical_exit \/ critical_exit_basepri
        PROVE  \E c : Become(c)
    BY Zenon, <2>6 DEF sched_run, EnterCpsid, EnterMsr, critical_exit,
       critical_exit_basepri
  <2>7. Len(stack') = top
    BY <1>2, <2>1, <2>4, <2>5, <2>6 DEF Progress
  <2>8. QED
    BY <1>0, <2>7 DEF Entered, Returned
<1>3. CASE Return
  <2>1. Len(stack') <= top
    BY <1>0, <1>3 DEF Return, Front, TypeOK
  <2>2. QED
    BY <1>0, <1>3, <2>1 DEF Entered
<1>4. CASE UNCHANGED stack
  BY <1>0, <1>4 DEF Entered, Returned
<1>5. QED
  BY <1>1, <1>2, <1>3, <1>4 DEF Next, Request, NeighbourStore, vars

\* A line is entered only at the priority it was created with and, if it has
\* an entry in the vector table, with the handler it was created with.
THEOREM CreationIsSafe == Spec => EntersAsCreated
<1>1. ASSUME IInv, NEW l \in Line, Enter(l)
      PROVE  ipr[l] = asked[l] /\ (Irq(l) < TableIrqs => vector[l] = "handler")
  <2>1. l \in enabled
    BY <1>1 DEF Enter, Waiting
  <2>2. Irq(l) \in Int
    BY LineAssumption DEF Irq, Line, SCHED_BASE_IRQ
  <2>3. Irq(l) < TableIrqs => vector[l] # "data"
    BY <1>1, <2>2 DEF IInv, CreateInv, TableIrqs
  <2>4. QED
    BY <1>1, <2>1, <2>3 DEF IInv, TypeOK, CreateInv
<1>2. ASSUME IInv, [Next]_vars
      PROVE  [\A l \in Line : Entered(l) =>
                ipr[l] = asked[l]
                /\ (Irq(l) < TableIrqs => vector[l] = "handler")]_vars
  <2>1. ASSUME NEW l \in Line, Entered(l)
        PROVE  /\ ipr[l] = asked[l]
               /\ Irq(l) < TableIrqs => vector[l] = "handler"
    <3>1. Enter(l)
      BY <1>2, <2>1, StackMoves
    <3>2. QED
      BY <1>1, <1>2, <3>1
  <2>2. QED
    BY <2>1
<1>3. QED
  BY <1>2, Invariance, PTL DEF Spec, EntersAsCreated


-----------------------------------------------------------------------------
(* Critical sections.                                                      *)

\* PRIMASK as the sections 1 .. n of a context leave it: every context
\* begins with interrupts on.
Primasked(held, n) == \E k \in 1 .. n : held[k].kind = "primask"

\* b is BASEPRI as the sections 1 .. n leave it: the level of the last one
\* that sets it, or what the context began with.
IsBasepri(held, n, base, b) ==
  /\ (\A k \in 1 .. n : held[k].kind # "basepri") => b = base
  /\ \A k \in 1 .. n :
       /\ held[k].kind = "basepri"
       /\ \A m \in k + 1 .. n : held[m].kind # "basepri"
       => b = held[k].level

\* Each section saved the mask that the sections outside it had made, and
\* all of them together make the masks in force.
Saved(held, base, j) ==
  /\ held[j].kind = "primask" => (held[j].saved <=> Primasked(held, j - 1))
  /\ held[j].kind = "basepri" => IsBasepri(held, j - 1, base, held[j].saved)

Chain(held, base, pm, bp) ==
  /\ pm <=> Primasked(held, Len(held))
  /\ IsBasepri(held, Len(held), base, bp)
  /\ \A j \in 1 .. Len(held) : Saved(held, base, j)

\* A context f that runs, or would go on running, with the masks pm and bp.
MasksOf(f, pm, bp) ==
  /\ ~f.primask
  /\ Chain(f.held, f.basepri, pm, bp)
  /\ f.op.kind = "cpsid" => f.op.saved = pm
  /\ f.op.kind = "msr" => f.op.saved = bp

\* A context that was preempted will find the masks it left: what preempted
\* it has saved them.
PrimaskOf(i) == IF i = top THEN primask ELSE stack[i + 1].primask
BasepriOf(i) == IF i = top THEN basepri ELSE stack[i + 1].basepri
MaskInv == \A i \in 1 .. top : MasksOf(stack[i], PrimaskOf(i), BasepriOf(i))

\* Within a context thresholds only get stricter, and what preempted a
\* context is none of those its sections promise to keep out.
Stricter(f) ==
  /\ \A j, k \in 1 .. Len(f.held) :
       j < k /\ f.held[j].kind = "basepri" /\ f.held[k].kind = "basepri"
         => f.held[k].level <= f.held[j].level
  /\ f.op.kind = "msr" => \A j \in 1 .. Len(f.held) :
       f.held[j].kind = "basepri" => f.op.level <= f.held[j].level

SectionInv ==
  /\ \A i \in 1 .. top : Stricter(stack[i])
  /\ \A i \in 1 .. top - 1 : \A j \in 1 .. Len(stack[i].held) :
       ipr[stack[i + 1].who] < stack[i].held[j].level

\* Only the sections counted matter.
LEMMA SamePrefix ==
  ASSUME NEW n \in Nat, NEW h, NEW g, \A k \in 1 .. n : h[k] = g[k]
  PROVE  /\ Primasked(h, n) <=> Primasked(g, n)
         /\ \A base, b : IsBasepri(h, n, base, b) <=> IsBasepri(g, n, base, b)
<1>1. Primasked(h, n) <=> Primasked(g, n)
  BY DEF Primasked
<1>2. ASSUME NEW x, NEW y, NEW base, NEW b, IsBasepri(x, n, base, b),
             \A k \in 1 .. n : x[k] = y[k]
      PROVE  IsBasepri(y, n, base, b)
  <2>1. ASSUME NEW k \in 1 .. n, y[k].kind = "basepri",
               \A m \in k + 1 .. n : y[m].kind # "basepri"
        PROVE  b = y[k].level
    <3>1. x[k].kind = "basepri"
      BY <1>2, <2>1
    <3>2. ASSUME NEW m \in k + 1 .. n PROVE x[m].kind # "basepri"
      <4>1. m \in 1 .. n
        OBVIOUS
      <4>2. QED
        BY <1>2, <2>1, <4>1
    <3>3. QED
      BY <1>2, <3>1, <3>2 DEF IsBasepri
  <2>2. (\A k \in 1 .. n : y[k].kind # "basepri") => b = base
    BY <1>2 DEF IsBasepri
  <2>3. QED
    BY <2>1, <2>2 DEF IsBasepri
<1>3. QED
  BY <1>1, <1>2

\* One more section.
LEMMA NextSection ==
  ASSUME NEW n \in Nat, NEW h
  PROVE  /\ Primasked(h, n + 1) <=>
              Primasked(h, n) \/ h[n + 1].kind = "primask"
         /\ h[n + 1].kind = "basepri" =>
              \A base : IsBasepri(h, n + 1, base, h[n + 1].level)
         /\ h[n + 1].kind = "basepri" =>
              \A base, b : IsBasepri(h, n + 1, base, b) => b = h[n + 1].level
         /\ h[n + 1].kind # "basepri" =>
              \A base, b : IsBasepri(h, n, base, b)
                             <=> IsBasepri(h, n + 1, base, b)
<1>1. 1 .. n + 1 = (1 .. n) \cup {n + 1} /\ n + 1 \in 1 .. n + 1
  OBVIOUS
<1>2. Primasked(h, n + 1) <=> Primasked(h, n) \/ h[n + 1].kind = "primask"
  BY <1>1 DEF Primasked
<1>3. ASSUME h[n + 1].kind = "basepri", NEW base
      PROVE  /\ IsBasepri(h, n + 1, base, h[n + 1].level)
             /\ \A b : IsBasepri(h, n + 1, base, b) => b = h[n + 1].level
  <2>1. \A k \in 1 .. n : n + 1 \in k + 1 .. n + 1
    OBVIOUS
  <2>2. \A m \in (n + 1) + 1 .. n + 1 : FALSE
    OBVIOUS
  <2>3. ASSUME NEW k \in 1 .. n + 1,
               \A m \in k + 1 .. n + 1 : h[m].kind # "basepri"
        PROVE  k = n + 1
    BY <1>1, <1>3, <2>1, <2>3
  <2>4. IsBasepri(h, n + 1, base, h[n + 1].level)
    BY <1>1, <1>3, <2>3 DEF IsBasepri
  <2>5. ASSUME NEW b, IsBasepri(h, n + 1, base, b) PROVE b = h[n + 1].level
    BY <1>1, <1>3, <2>2, <2>5 DEF IsBasepri
  <2>6. QED
    BY <2>4, <2>5
<1>4. ASSUME h[n + 1].kind # "basepri", NEW base, NEW b
      PROVE  IsBasepri(h, n, base, b) <=> IsBasepri(h, n + 1, base, b)
  <2>1. (\A k \in 1 .. n : h[k].kind # "basepri")
          <=> \A k \in 1 .. n + 1 : h[k].kind # "basepri"
    BY <1>1, <1>4
  <2>2. ASSUME NEW k \in 1 .. n
        PROVE  (\A m \in k + 1 .. n : h[m].kind # "basepri")
                 <=> \A m \in k + 1 .. n + 1 : h[m].kind # "basepri"
    <3>1. k + 1 .. n + 1 = (k + 1 .. n) \cup {n + 1}
      OBVIOUS
    <3>2. QED
      BY <1>4, <3>1
  <2>3. (\A k \in 1 .. n : /\ h[k].kind = "basepri"
                           /\ \A m \in k + 1 .. n : h[m].kind # "basepri"
                           => b = h[k].level)
          <=> \A k \in 1 .. n + 1 :
                /\ h[k].kind = "basepri"
                /\ \A m \in k + 1 .. n + 1 : h[m].kind # "basepri"
                => b = h[k].level
    BY <1>1, <1>4, <2>2
  <2>4. QED
    BY <2>1, <2>3 DEF IsBasepri
<1>5. QED
  BY <1>2, <1>3, <1>4

\* Opening a section.
LEMMA Push ==
  ASSUME NEW held \in Seq(HeldSection), NEW s \in HeldSection,
         NEW base, NEW pm, NEW bp, Chain(held, base, pm, bp),
         NEW on, on = TRUE,
         s.kind = "primask" => s.saved = pm,
         s.kind = "basepri" => s.saved = bp
  PROVE  /\ s.kind = "primask" => Chain(Append(held, s), base, on, bp)
         /\ s.kind = "basepri" => Chain(Append(held, s), base, pm, s.level)
<1> DEFINE h == Append(held, s)
           n == Len(held)
<1>1. /\ n \in Nat /\ Len(h) = n + 1 /\ h[n + 1] = s
      /\ \A k \in 1 .. n : h[k] = held[k]
  OBVIOUS
<1> HIDE DEF h, n
<1>2. /\ Primasked(h, n) <=> pm
      /\ IsBasepri(h, n, base, bp)
  <2>1. (pm <=> Primasked(held, n)) /\ IsBasepri(held, n, base, bp)
    BY DEF Chain, n
  <2>2. QED
    BY <1>1, <2>1, SamePrefix
<1>3. ASSUME NEW j \in 1 .. n PROVE Saved(h, base, j)
  <2>1. Saved(held, base, j)
    BY DEF Chain, n
  <2>2. j - 1 \in Nat /\ \A k \in 1 .. j - 1 : h[k] = held[k]
    BY <1>1
  <2>3. h[j] = held[j]
    BY <1>1
  <2>4. QED
    BY <2>1, <2>2, <2>3, SamePrefix DEF Saved
<1>4. Saved(h, base, n + 1)
  <2>1. (n + 1) - 1 = n
    BY <1>1
  <2>2. QED
    BY <1>1, <1>2, <2>1 DEF Saved
<1>5. \A j \in 1 .. Len(h) : Saved(h, base, j)
  BY <1>1, <1>3, <1>4
<1>6. CASE s.kind = "primask"
  <2>1. Primasked(h, n + 1) /\ IsBasepri(h, n + 1, base, bp)
    BY <1>1, <1>2, <1>6, NextSection
  <2>2. Chain(h, base, on, bp)
    BY <1>1, <1>5, <2>1 DEF Chain
  <2>3. QED
    BY <1>6, <2>2 DEF h
<1>7. CASE s.kind = "basepri"
  <2>1. (Primasked(h, n + 1) <=> pm) /\ IsBasepri(h, n + 1, base, s.level)
    BY <1>1, <1>2, <1>7, NextSection
  <2>2. Chain(h, base, pm, s.level)
    BY <1>1, <1>5, <2>1 DEF Chain
  <2>3. QED
    BY <1>7, <2>2 DEF h
<1>8. QED
  BY <1>6, <1>7

\* Closing the innermost section brings back what it saved.
LEMMA Pop ==
  ASSUME NEW held \in Seq(HeldSection), held # << >>,
         NEW base, NEW pm, NEW bp, Chain(held, base, pm, bp)
  PROVE  LET s == Last(held)
         IN  /\ s.kind = "primask" => Chain(Front(held), base, s.saved, bp)
             /\ s.kind = "basepri" => Chain(Front(held), base, pm, s.saved)
<1> DEFINE s == Last(held)
           h == Front(held)
           n == Len(held) - 1
<1>1. /\ n \in Nat /\ Len(held) = n + 1 /\ Len(h) = n /\ held[n + 1] = s
      /\ \A k \in 1 .. n : h[k] = held[k]
  <2>1. Len(held) \in Nat /\ Len(held) # 0
    OBVIOUS
  <2>2. h = SubSeq(held, 1, n) /\ s = held[Len(held)]
    BY DEF Front, Last
  <2>3. n \in Nat /\ Len(held) = n + 1
    BY <2>1
  <2> HIDE DEF s, h, n
  <2>4. Len(h) = n /\ \A k \in 1 .. n : h[k] = held[k]
    BY <2>2, <2>3
  <2>5. QED
    BY <2>2, <2>3, <2>4
<1> HIDE DEF s, h, n
<1>2. /\ pm <=> Primasked(held, n + 1)
      /\ IsBasepri(held, n + 1, base, bp)
      /\ \A j \in 1 .. n + 1 : Saved(held, base, j)
  BY <1>1 DEF Chain
<1>3. /\ s.kind = "primask" => (s.saved <=> Primasked(held, n))
      /\ s.kind = "basepri" => IsBasepri(held, n, base, s.saved)
  <2>1. n + 1 \in 1 .. n + 1 /\ (n + 1) - 1 = n
    BY <1>1
  <2>2. Saved(held, base, n + 1)
    BY <1>2, <2>1
  <2>3. QED
    BY <1>1, <2>1, <2>2 DEF Saved
<1>4. /\ Primasked(h, n) <=> Primasked(held, n)
      /\ \A b : IsBasepri(h, n, base, b) <=> IsBasepri(held, n, base, b)
  BY <1>1, SamePrefix
<1>5. \A j \in 1 .. n : Saved(h, base, j)
  <2>1. SUFFICES ASSUME NEW j \in 1 .. n PROVE Saved(h, base, j)
    OBVIOUS
  <2>2. Saved(held, base, j) /\ h[j] = held[j]
    BY <1>1, <1>2
  <2>3. j - 1 \in Nat /\ \A k \in 1 .. j - 1 : h[k] = held[k]
    BY <1>1
  <2>4. QED
    BY <2>2, <2>3, SamePrefix DEF Saved
<1>6. CASE s.kind = "primask"
  <2>1. IsBasepri(held, n, base, bp)
    BY <1>1, <1>2, <1>6, NextSection
  <2>2. Chain(h, base, s.saved, bp)
    BY <1>1, <1>3, <1>4, <1>5, <1>6, <2>1 DEF Chain
  <2>3. QED
    BY <1>6, <2>2 DEF h, s
<1>7. CASE s.kind = "basepri"
  <2>1. pm <=> Primasked(held, n)
    BY <1>1, <1>2, <1>7, NextSection
  <2>2. Chain(h, base, pm, s.saved)
    BY <1>1, <1>3, <1>4, <1>5, <1>7, <2>1 DEF Chain
  <2>3. QED
    BY <1>7, <2>2 DEF h, s
<1>8. CASE s.kind \notin {"primask", "basepri"}
  BY <1>8 DEF s
<1>9. QED
  BY <1>6, <1>7, <1>8

\* The running context is replaced, and its masks with it.
LEMMA RunningMasks ==
  ASSUME TypeOK, top >= 1, MaskInv, NEW c, Become(c),
         c.primask = Running.primask, c.basepri = Running.basepri,
         MasksOf(c, primask', basepri')
  PROVE  MaskInv'
<1>1. /\ Len(stack') = top /\ top \in Nat /\ stack'[top] = c
      /\ \A i \in 1 .. top - 1 : stack'[i] = stack[i]
  BY DEF Become, TypeOK
<1>2. ASSUME NEW i \in 1 .. top
      PROVE  MasksOf(stack'[i], PrimaskOf(i)', BasepriOf(i)')
  <2>1. CASE i = top
    BY <1>1, <2>1 DEF PrimaskOf, BasepriOf
  <2>2. CASE i # top
    <3>1. i \in 1 .. top - 1 /\ i + 1 \in 1 .. top
      BY <1>1, <2>2
    <3>2. /\ stack'[i + 1].primask = stack[i + 1].primask
          /\ stack'[i + 1].basepri = stack[i + 1].basepri
      BY <1>1, <3>1
    <3>3. PrimaskOf(i)' = PrimaskOf(i) /\ BasepriOf(i)' = BasepriOf(i)
      BY <1>1, <2>2, <3>2 DEF PrimaskOf, BasepriOf
    <3>4. MasksOf(stack[i], PrimaskOf(i), BasepriOf(i))
      BY DEF MaskInv
    <3>5. QED
      BY <1>1, <3>1, <3>3, <3>4
  <2>3. QED
    BY <2>1, <2>2
<1>3. QED
  BY <1>1, <1>2 DEF MaskInv

\* The masks of the running context are the processor's.
LEMMA MasksNow ==
  ASSUME TypeOK, top >= 1, MaskInv
  PROVE  /\ MasksOf(Running, primask, basepri)
         /\ primask \in BOOLEAN /\ Running \in Context
         /\ Running.held \in Seq(HeldSection)
<1>1. top \in 1 .. top
  BY DEF TypeOK
<1>2. MasksOf(Running, primask, basepri)
  BY <1>1 DEF MaskInv, PrimaskOf, BasepriOf
<1>3. QED
  BY <1>2, RunningType DEF TypeOK

\* A kernel call changes neither the owner of a context nor its sections.
LEMMA CallFields ==
  ASSUME TypeOK, top >= 1, NEW op,
         Call(op) \/ Become([Running EXCEPT !.op = op])
  PROVE  \E c : /\ Become(c) /\ c.who = Running.who /\ c.op = op
                /\ c.held = Running.held /\ c.primask = Running.primask
                /\ c.basepri = Running.basepri
<1>1. Running \in Context
  BY RunningType
<1>2. CASE Become([Running EXCEPT !.op = op])
  <2>1. PICK c : c = [Running EXCEPT !.op = op]
    OBVIOUS
  <2>2. /\ c.who = Running.who /\ c.op = op /\ c.held = Running.held
        /\ c.primask = Running.primask /\ c.basepri = Running.basepri
    BY <1>1, <2>1 DEF Context
  <2>3. QED
    BY <1>2, <2>1, <2>2
<1>3. CASE Call(op)
  <2>1. PICK c : c = [Running EXCEPT !.op = op, !.ops = @ - 1]
    OBVIOUS
  <2>2. /\ c.who = Running.who /\ c.op = op /\ c.held = Running.held
        /\ c.primask = Running.primask /\ c.basepri = Running.basepri
    BY <1>1, <2>1 DEF Context
  <2>3. Become(c)
    BY <1>3, <2>1 DEF Call
  <2>4. QED
    BY <2>2, <2>3
<1>4. QED
  BY <1>2, <1>3

\* A kernel call leaves the masks alone; what it reads, it reads right.
LEMMA CallMasks ==
  ASSUME TypeOK, top >= 1, MaskInv, NEW op,
         Call(op) \/ Become([Running EXCEPT !.op = op]),
         UNCHANGED <<primask, basepri>>,
         op.kind = "cpsid" => op.saved = primask,
         op.kind = "msr" => op.saved = basepri
  PROVE  MaskInv'
<1>1. PICK c : /\ Become(c) /\ c.who = Running.who /\ c.op = op
               /\ c.held = Running.held /\ c.primask = Running.primask
               /\ c.basepri = Running.basepri
  BY CallFields
<1>2. MasksOf(Running, primask, basepri)
  BY MasksNow
<1>3. MasksOf(c, primask', basepri')
  BY <1>1, <1>2 DEF MasksOf
<1>4. QED
  BY <1>1, <1>3, RunningMasks

LEMMA MaskInit == Init => MaskInv
<1> SUFFICES ASSUME Init PROVE MaskInv
  OBVIOUS
<1>1. /\ top = 1 /\ ~primask /\ basepri = 0
      /\ stack[1] = Frame(Thread, MainOps + 1, FALSE, 0)
  BY DEF Init
<1>2. Chain(<< >>, 0, primask, 0)
  BY <1>1 DEF Chain, Primasked, IsBasepri
<1>3. MasksOf(stack[1], primask, basepri)
  BY <1>1, <1>2 DEF MasksOf, Frame
<1>4. ASSUME NEW i \in 1 .. top
      PROVE  MasksOf(stack[i], PrimaskOf(i), BasepriOf(i))
  <2>1. i = top
    BY <1>1
  <2>2. PrimaskOf(i) = primask /\ BasepriOf(i) = basepri
    BY <2>1 DEF PrimaskOf, BasepriOf
  <2>3. QED
    BY <1>1, <1>3, <2>1, <2>2
<1>5. QED
  BY <1>4 DEF MaskInv

\* The second half of critical_enter and of critical_enter_basepri.
LEMMA EnterMasks ==
  ASSUME TypeOK, top >= 1, MaskInv, EnterCpsid \/ EnterMsr
  PROVE  MaskInv'
<1>1. /\ Running \in Context /\ Running.op \in Op
      /\ Running.held \in Seq(HeldSection)
      /\ MasksOf(Running, primask, basepri)
  BY MasksNow, RunningType
<1>2. ASSUME NEW s \in HeldSection, NEW pm, NEW bp,
             Become([Running EXCEPT !.op = NoOp, !.held = Append(@, s)]),
             primask' = pm, basepri' = bp,
             Chain(Append(Running.held, s), Running.basepri, pm, bp)
      PROVE  MaskInv'
  <2>1. PICK c : c = [Running EXCEPT !.op = NoOp, !.held = Append(@, s)]
    OBVIOUS
  <2>2. /\ c.primask = Running.primask /\ c.basepri = Running.basepri
        /\ c.held = Append(Running.held, s) /\ c.op = NoOp
    BY <1>1, <2>1 DEF Context
  <2>3. MasksOf(c, primask', basepri')
    BY <1>1, <1>2, <2>2 DEF MasksOf
  <2>4. QED
    BY <1>2, <2>1, <2>2, <2>3, RunningMasks
<1>3. CASE EnterCpsid
  <2> DEFINE s == Section("primask", 0, Running.op.saved)
  <2>1. Running.op.kind = "cpsid"
    BY <1>3 DEF EnterCpsid
  <2>2. s \in HeldSection /\ s.kind = "primask" /\ s.saved = Running.op.saved
    BY <1>1, <2>1, OpFields DEF Section, HeldSection
  <2>3. /\ Become([Running EXCEPT !.op = NoOp, !.held = Append(@, s)])
        /\ primask' = TRUE /\ basepri' = basepri
    BY <1>3 DEF EnterCpsid
  <2>4. Running.op.saved = primask
    BY <1>1, <2>1 DEF MasksOf
  <2> HIDE DEF s
  <2>5. /\ s.kind = "primask" => s.saved = primask
        /\ s.kind = "basepri" => s.saved = basepri
    BY <2>2, <2>4
  <2>6. Chain(Running.held, Running.basepri, primask, basepri)
    BY <1>1 DEF MasksOf
  <2>7. Chain(Append(Running.held, s), Running.basepri, primask', basepri)
    BY <1>1, <2>2, <2>3, <2>5, <2>6, Push
  <2>8. QED
    BY <1>2, <2>2, <2>3, <2>7
<1>4. CASE EnterMsr
  <2> DEFINE s == Section("basepri", Running.op.level, Running.op.saved)
  <2>1. Running.op.kind = "msr"
    BY <1>4 DEF EnterMsr
  <2>2. /\ s \in HeldSection /\ s.kind = "basepri"
        /\ s.saved = Running.op.saved /\ s.level = Running.op.level
    BY <1>1, <2>1, OpFields DEF Section, HeldSection
  <2>3. /\ Become([Running EXCEPT !.op = NoOp, !.held = Append(@, s)])
        /\ primask' = primask /\ basepri' = Running.op.level
    BY <1>4 DEF EnterMsr
  <2>4. Running.op.saved = basepri
    BY <1>1, <2>1 DEF MasksOf
  <2> HIDE DEF s
  <2>5. s.saved = basepri
    BY <2>2, <2>4
  <2>6. Chain(Running.held, Running.basepri, primask, basepri)
    BY <1>1 DEF MasksOf
  <2>7. Chain(Append(Running.held, s), Running.basepri, primask, s.level)
    BY <1>1, <2>2, <2>5, <2>6, Push
  <2>8. basepri' = s.level
    BY <2>2, <2>3
  <2>9. QED
    BY <1>2, <2>2, <2>3, <2>7, <2>8
<1>5. QED
  BY <1>3, <1>4

\* critical_exit and critical_exit_basepri.
LEMMA ExitMasks ==
  ASSUME TypeOK, top >= 1, MaskInv, critical_exit \/ critical_exit_basepri
  PROVE  MaskInv'
<1> DEFINE s == Last(Running.held)
<1>1. /\ Running \in Context /\ Running.held \in Seq(HeldSection)
      /\ MasksOf(Running, primask, basepri)
  BY MasksNow
<1>2. /\ Running.op = NoOp /\ Running.held # << >>
      /\ Become([Running EXCEPT !.held = Front(@)])
  BY DEF critical_exit, critical_exit_basepri
<1>3. \/ s.kind = "primask" /\ primask' = s.saved /\ basepri' = basepri
      \/ s.kind = "basepri" /\ basepri' = s.saved /\ primask' = primask
  BY DEF critical_exit, critical_exit_basepri
<1>4. Chain(Running.held, Running.basepri, primask, basepri)
  BY <1>1 DEF MasksOf
<1>5. /\ s.kind = "primask" =>
           Chain(Front(Running.held), Running.basepri, s.saved, basepri)
      /\ s.kind = "basepri" =>
           Chain(Front(Running.held), Running.basepri, primask, s.saved)
  BY <1>1, <1>2, <1>4, Pop
<1> HIDE DEF s
<1>6. Chain(Front(Running.held), Running.basepri, primask', basepri')
  BY <1>3, <1>5
<1>7. PICK c : c = [Running EXCEPT !.held = Front(@)]
  OBVIOUS
<1>8. /\ c.primask = Running.primask /\ c.basepri = Running.basepri
      /\ c.held = Front(Running.held) /\ c.op = NoOp
  BY <1>1, <1>2, <1>7 DEF Context
<1>9. MasksOf(c, primask', basepri')
  BY <1>1, <1>6, <1>8 DEF MasksOf
<1>10. QED
  BY <1>2, <1>7, <1>8, <1>9, RunningMasks

\* Exception entry: the new context begins with the masks it finds, which
\* are those of the context it preempts.
LEMMA DispatchMasks ==
  ASSUME TypeOK, top >= 1, MaskInv, NEW l \in Line, Enter(l)
  PROVE  MaskInv'
<1>1. /\ ~primask /\ UNCHANGED <<primask, basepri>>
      /\ top \in Nat /\ Len(stack') = top + 1
      /\ \A i \in 1 .. top : stack'[i] = stack[i]
      /\ stack'[top + 1] = Frame(l, MaxOps, primask, basepri)
  BY DEF Enter, Preempts, TypeOK, mask
<1>2. PICK f : f = stack'[top + 1]
  OBVIOUS
<1>3. /\ f.primask = primask /\ f.basepri = basepri
      /\ f.held = << >> /\ f.op = NoOp
  BY <1>1, <1>2 DEF Frame
<1>4. MasksOf(f, primask, basepri)
  <2>1. Chain(<< >>, basepri, primask, basepri)
    BY <1>1 DEF Chain, Primasked, IsBasepri
  <2>2. QED
    BY <1>1, <1>3, <2>1 DEF MasksOf
<1>5. ASSUME NEW i \in 1 .. top + 1
      PROVE  MasksOf(stack'[i], PrimaskOf(i)', BasepriOf(i)')
  <2>1. CASE i = top + 1
    BY <1>1, <1>2, <1>4, <2>1 DEF PrimaskOf, BasepriOf
  <2>2. CASE i = top
    <3>1. PrimaskOf(i)' = primask /\ BasepriOf(i)' = basepri
      BY <1>1, <1>2, <1>3, <2>2 DEF PrimaskOf, BasepriOf
    <3>2. QED
      BY <1>1, <2>2, <3>1, MasksNow
  <2>3. CASE i \in 1 .. top - 1
    <3>1. i \in 1 .. top /\ i + 1 \in 1 .. top
      BY <1>1, <2>3
    <3>2. PrimaskOf(i)' = PrimaskOf(i) /\ BasepriOf(i)' = BasepriOf(i)
      BY <1>1, <2>3, <3>1 DEF PrimaskOf, BasepriOf
    <3>3. QED
      BY <1>1, <3>1, <3>2 DEF MaskInv
  <2>4. QED
    BY <1>1, <2>1, <2>2, <2>3
<1>6. QED
  BY <1>1, <1>5 DEF MaskInv

\* A handler that returns holds no section, so its masks are what it found.
LEMMA ReturnMasks ==
  ASSUME TypeOK, top >= 1, MaskInv, Return
  PROVE  /\ primask = Running.primask /\ basepri = Running.basepri
         /\ top >= 2 => MaskInv'
<1>1. /\ Running.held = << >> /\ stack' = SubSeq(stack, 1, top - 1)
      /\ UNCHANGED <<primask, basepri>> /\ top \in Nat
  BY DEF Return, Front, mask, TypeOK
<1>2. MasksOf(Running, primask, basepri) /\ primask \in BOOLEAN
      /\ Running \in Context
  BY MasksNow
<1>3. primask = Running.primask
  <2>1. ~primask /\ ~Running.primask
    BY <1>1, <1>2 DEF MasksOf, Chain, Primasked
  <2>2. Running.primask \in BOOLEAN
    BY <1>2 DEF Context
  <2>3. QED
    BY <1>2, <2>1, <2>2
<1>4. basepri = Running.basepri
  BY <1>1, <1>2 DEF MasksOf, Chain, IsBasepri
<1>5. ASSUME top >= 2 PROVE MaskInv'
  <2>1. Len(stack') = top - 1 /\ \A i \in 1 .. top - 1 : stack'[i] = stack[i]
    BY <1>1, <1>5 DEF TypeOK
  <2>2. ASSUME NEW i \in 1 .. top - 1
        PROVE  MasksOf(stack'[i], PrimaskOf(i)', BasepriOf(i)')
    <3>1. PrimaskOf(i)' = PrimaskOf(i) /\ BasepriOf(i)' = BasepriOf(i)
      <4>1. CASE i = top - 1
        <5>0. i = Len(stack')
          BY <2>1, <4>1
        <5>1. i + 1 = top /\ i # top
          BY <1>1, <4>1
        <5>2. PrimaskOf(i) = primask /\ BasepriOf(i) = basepri
          BY <1>3, <1>4, <5>1 DEF PrimaskOf, BasepriOf
        <5>3. QED
          BY <1>1, <5>0, <5>2 DEF PrimaskOf, BasepriOf
      <4>2. CASE i # top - 1
        <5>1. \A n \in Nat : \A k \in 1 .. n - 1 :
                k # n - 1 => k # n /\ k + 1 \in 1 .. n - 1
          OBVIOUS
        <5>2. i # top /\ i + 1 \in 1 .. top - 1
          BY <1>1, <4>2, <5>1
        <5>3. i # Len(stack') /\ stack'[i + 1] = stack[i + 1]
          BY <2>1, <4>2, <5>2
        <5>4. QED
          BY <5>2, <5>3 DEF PrimaskOf, BasepriOf
      <4>3. QED
        BY <4>1, <4>2
    <3>2. MasksOf(stack[i], PrimaskOf(i), BasepriOf(i))
      BY <1>1 DEF MaskInv
    <3>3. QED
      BY <2>1, <3>1, <3>2
  <2>3. QED
    BY <2>1, <2>2 DEF MaskInv
<1>6. QED
  BY <1>3, <1>4, <1>5

LEMMA MaskNext == IInv /\ MaskInv /\ [Next]_vars => MaskInv'
<1> SUFFICES ASSUME IInv, MaskInv, [Next]_vars PROVE MaskInv'
  OBVIOUS
<1> USE DEF mask
<1>0. TypeOK /\ top >= 1 /\ top \in Nat
  BY DEF IInv, StackInv, TypeOK
<1>1. CASE sched_init \/ task_post_n \/ task_clear
  <2>1. Call(NoOp) /\ UNCHANGED <<primask, basepri>>
    BY <1>1 DEF sched_init, task_post_n, task_clear
  <2>2. QED
    BY <1>0, <2>1, CallMasks
<1>2. CASE CreateInstall
  <2>1. PICK l \in Fresh, p \in Prio :
          Call([kind |-> "install", line |-> l, prio |-> p])
    BY <1>2 DEF CreateInstall
  <2>2. QED
    BY <1>0, <1>2, <2>1, CallMasks DEF CreateInstall
<1>3. CASE CreatePriority
  <2>1. PICK op : op = [Running.op EXCEPT !.kind = "priority"]
    OBVIOUS
  <2>2. /\ Running.op.kind = "install" /\ Become([Running EXCEPT !.op = op])
        /\ UNCHANGED <<primask, basepri>>
    BY <1>3, <2>1 DEF CreatePriority, Continue
  <2>3. op.kind = "priority"
    <3>1. Running.op \in Op
      BY <1>0, RunningType
    <3>2. Running.op \in [kind : {"install", "priority"}, line : Line,
                          prio : Prio]
      BY <2>2, <3>1 DEF Op
    <3>3. QED
      BY <2>1, <3>2
  <2>4. QED
    BY <1>0, <2>2, <2>3, CallMasks
<1>4. CASE CreateEnable
  <2>1. Become([Running EXCEPT !.op = NoOp]) /\ UNCHANGED <<primask, basepri>>
    BY <1>4 DEF CreateEnable, Continue
  <2>2. QED
    BY <1>0, <2>1, CallMasks
<1>5. CASE sched_run
  <2>1. PICK c : c = [Running EXCEPT !.ops = 0]
    OBVIOUS
  <2>2. /\ Running.op = NoOp /\ Running.held = << >> /\ Become(c)
        /\ primask' = FALSE /\ basepri' = basepri
    BY <1>5, <2>1 DEF sched_run
  <2>3. Running \in Context /\ MasksOf(Running, primask, basepri)
    BY <1>0, MasksNow
  <2>4. /\ c.primask = Running.primask /\ c.basepri = Running.basepri
        /\ c.held = Running.held /\ c.op = Running.op
    BY <2>1, <2>3 DEF Context
  <2>5. ~primask
    BY <2>2, <2>3 DEF MasksOf, Chain, Primasked
  <2>6. MasksOf(c, primask', basepri')
    BY <2>2, <2>3, <2>4, <2>5 DEF MasksOf, Chain
  <2>7. QED
    BY <1>0, <2>2, <2>4, <2>6, RunningMasks
<1>6. CASE EnterReadPrimask
  <2>1. /\ Call([kind |-> "cpsid", saved |-> primask])
        /\ UNCHANGED <<primask, basepri>>
    BY <1>6 DEF EnterReadPrimask
  <2>2. QED
    BY <1>0, <2>1, CallMasks
<1>7. CASE EnterReadBasepri
  <2>1. PICK t \in Threshold :
          Call([kind |-> "msr", saved |-> basepri, level |-> t])
    BY <1>7 DEF EnterReadBasepri
  <2>2. UNCHANGED <<primask, basepri>>
    BY <1>7 DEF EnterReadBasepri
  <2>3. QED
    BY <1>0, <2>1, <2>2, CallMasks
<1>8. CASE EnterCpsid \/ EnterMsr
  BY <1>0, <1>8, EnterMasks
<1>9. CASE critical_exit \/ critical_exit_basepri
  BY <1>0, <1>9, ExitMasks
<1>10. CASE Return
  <2>1. top >= 2
    BY <1>0, <1>10 DEF Return, IInv, StackInv
  <2>2. QED
    BY <1>0, <1>10, <2>1, ReturnMasks
<1>11. CASE Dispatch
  BY <1>0, <1>11, DispatchMasks DEF Dispatch
<1>12. CASE (\E d \in Device : Request(d)) \/ NeighbourStore
            \/ UNCHANGED vars
  <2>1. UNCHANGED <<stack, primask, basepri>>
    BY <1>12 DEF Request, NeighbourStore, vars
  <2>2. QED
    BY <2>1 DEF MaskInv, MasksOf, PrimaskOf, BasepriOf
<1>13. QED
  BY <1>1, <1>2, <1>3, <1>4, <1>5, <1>6, <1>7, <1>8, <1>9, <1>10, <1>11,
     <1>12 DEF Next, Progress

(***************************************************************************)
(* A handler leaves PRIMASK and BASEPRI as it found them, with sections    *)
(* nested in any way and preempted between reading a mask and setting it.  *)
(***************************************************************************)
THEOREM MasksAreRestored == Spec => MasksRestored
<1>1. IInv /\ MaskInv /\ [Next]_vars =>
        [Returned => primask = Running.primask
                     /\ basepri = Running.basepri]_vars
  <2> SUFFICES ASSUME IInv, MaskInv, [Next]_vars, Returned
               PROVE  primask = Running.primask /\ basepri = Running.basepri
    OBVIOUS
  <2>1. Return
    BY StackMoves
  <2>2. TypeOK /\ top >= 1
    BY DEF IInv, StackInv
  <2>3. QED
    BY <2>1, <2>2, ReturnMasks
<1>2. QED
  BY <1>1, MaskInit, MaskNext, Invariance, PTL DEF Spec, MasksRestored

\* The priority bands and thresholds are numbers.
LEMMA Bands ==
  /\ \A p \in Prio \cup {0} : p \in Nat
  /\ \A t \in Threshold \cup {0} : t \in Nat
<1>1. Prio \subseteq Nat /\ Threshold \subseteq Nat \ {0}
  BY LineAssumption
<1>2. ASSUME NEW p \in Prio \cup {0} PROVE p \in Nat
  <2>1. p \in Prio \/ p = 0
    OBVIOUS
  <2>2. QED
    BY <1>1, <2>1
<1>3. ASSUME NEW t \in Threshold \cup {0} PROVE t \in Nat
  <2>1. t \in Threshold \/ t = 0
    OBVIOUS
  <2>2. QED
    BY <1>1, <2>1
<1>4. QED
  BY <1>2, <1>3

\* The running context is replaced by one with stricter and stricter
\* sections, and no active handler changes its priority.
LEMMA RunningSections ==
  ASSUME IInv, SectionInv, NEW c, Become(c), c.who = Running.who, Stricter(c),
         \A k \in enabled : ipr'[k] = ipr[k]
  PROVE  SectionInv'
<1>1. /\ Len(stack') = top /\ top \in Nat /\ stack'[top] = c
      /\ \A i \in 1 .. top - 1 : stack'[i] = stack[i]
      /\ \A i \in 1 .. top : stack'[i].who = stack[i].who
  BY BecomeKeepsOwners DEF IInv, StackInv, TypeOK
<1>2. ASSUME NEW i \in 1 .. top PROVE Stricter(stack'[i])
  <2>1. CASE i = top
    BY <1>1, <2>1
  <2>2. CASE i # top
    BY <1>1, <2>2 DEF SectionInv
  <2>3. QED
    BY <2>1, <2>2
<1>3. ASSUME NEW i \in 1 .. top - 1, NEW j \in 1 .. Len(stack'[i].held)
      PROVE  ipr'[stack'[i + 1].who] < stack'[i].held[j].level
  <2>1. i + 1 \in 2 .. top /\ i + 1 \in 1 .. top
    BY <1>1
  <2>2. stack[i + 1].who \in enabled
    BY <2>1 DEF IInv, StackInv
  <2>3. /\ stack'[i] = stack[i] /\ stack'[i + 1].who = stack[i + 1].who
        /\ ipr'[stack[i + 1].who] = ipr[stack[i + 1].who]
    BY <1>1, <2>1, <2>2
  <2>4. ipr[stack[i + 1].who] < stack[i].held[j].level
    BY <1>3, <2>3 DEF SectionInv
  <2>5. QED
    BY <2>3, <2>4
<1>4. QED
  BY <1>1, <1>2, <1>3 DEF SectionInv

\* The running context holds stricter and stricter sections.
LEMMA RunningStricter ==
  ASSUME IInv, SectionInv
  PROVE  /\ Stricter(Running) /\ Running \in Context /\ Running.op \in Op
         /\ Running.held \in Seq(HeldSection)
<1>1. top \in 1 .. top /\ TypeOK /\ top >= 1
  BY DEF IInv, TypeOK, StackInv
<1>2. QED
  BY <1>1, RunningType DEF SectionInv

\* A step that changes neither sections nor the level asked for.
LEMMA CallSections ==
  ASSUME IInv, SectionInv, NEW op,
         Call(op) \/ Become([Running EXCEPT !.op = op]),
         op.kind = "msr" => \A j \in 1 .. Len(Running.held) :
           Running.held[j].kind = "basepri"
             => op.level <= Running.held[j].level,
         \A k \in enabled : ipr'[k] = ipr[k]
  PROVE  SectionInv'
<1>1. PICK c : /\ Become(c) /\ c.who = Running.who /\ c.op = op
               /\ c.held = Running.held
  BY CallFields DEF IInv, StackInv
<1>2. Stricter(Running)
  BY RunningStricter
<1>3. Stricter(c)
  BY <1>1, <1>2 DEF Stricter
<1>4. QED
  BY <1>1, <1>3, RunningSections

LEMMA SectionInit == Init => SectionInv
<1> SUFFICES ASSUME Init PROVE SectionInv
  OBVIOUS
<1>1. top = 1 /\ stack[1].held = << >> /\ stack[1].op = NoOp
  BY DEF Init, Frame
<1>2. ASSUME NEW i \in 1 .. top PROVE Stricter(stack[i])
  <2>1. i = 1
    BY <1>1
  <2>2. QED
    BY <1>1, <2>1 DEF Stricter
<1>3. QED
  BY <1>1, <1>2 DEF SectionInv

\* Opening a section: its level was compared with those it is inside of.
LEMMA OpenSections ==
  ASSUME IInv, SectionInv, EnterCpsid \/ EnterMsr
  PROVE  SectionInv'
<1>1. /\ Stricter(Running) /\ Running \in Context
      /\ Running.held \in Seq(HeldSection)
  BY RunningStricter
<1>2. PICK s : /\ Become([Running EXCEPT !.op = NoOp, !.held = Append(@, s)])
               /\ \/ s.kind = "primask"
                  \/ /\ s.kind = "basepri" /\ s.level = Running.op.level
                     /\ Running.op.kind = "msr"
  <2>1. CASE EnterCpsid
    <3>1. PICK s : s = Section("primask", 0, Running.op.saved)
      OBVIOUS
    <3>2. s.kind = "primask"
      BY <3>1 DEF Section
    <3>3. Become([Running EXCEPT !.op = NoOp, !.held = Append(@, s)])
      BY <2>1, <3>1 DEF EnterCpsid
    <3>4. QED
      BY <3>2, <3>3
  <2>2. CASE EnterMsr
    <3>1. PICK s : s = Section("basepri", Running.op.level, Running.op.saved)
      OBVIOUS
    <3>2. s.kind = "basepri" /\ s.level = Running.op.level
      BY <3>1 DEF Section
    <3>3. /\ Become([Running EXCEPT !.op = NoOp, !.held = Append(@, s)])
          /\ Running.op.kind = "msr"
      BY <2>2, <3>1 DEF EnterMsr
    <3>4. QED
      BY <3>2, <3>3
  <2>3. QED
    BY <2>1, <2>2
<1>3. PICK c : c = [Running EXCEPT !.op = NoOp, !.held = Append(@, s)]
  OBVIOUS
<1>4. c.who = Running.who /\ c.held = Append(Running.held, s) /\ c.op = NoOp
  BY <1>1, <1>3 DEF Context
<1> DEFINE n == Len(Running.held)
<1>5. /\ n \in Nat /\ Len(c.held) = n + 1 /\ c.held[n + 1] = s
      /\ \A k \in 1 .. n : c.held[k] = Running.held[k]
  BY <1>1, <1>4
<1>6. ASSUME NEW j \in 1 .. Len(c.held), NEW k \in 1 .. Len(c.held), j < k,
             c.held[j].kind = "basepri", c.held[k].kind = "basepri"
      PROVE  c.held[k].level <= c.held[j].level
  <2>1. j \in 1 .. n /\ c.held[j] = Running.held[j]
    BY <1>5, <1>6
  <2>2. CASE k = n + 1
    BY <1>1, <1>2, <1>5, <1>6, <2>1, <2>2 DEF Stricter
  <2>3. CASE k # n + 1
    <3>1. k \in 1 .. n /\ c.held[k] = Running.held[k]
      BY <1>5, <2>3
    <3>2. QED
      BY <1>1, <1>6, <2>1, <3>1 DEF Stricter
  <2>4. QED
    BY <2>2, <2>3
<1>7. Stricter(c)
  BY <1>4, <1>6 DEF Stricter
<1>8. UNCHANGED ipr
  BY DEF EnterCpsid, EnterMsr, nvic
<1>9. QED
  BY <1>2, <1>3, <1>4, <1>7, <1>8, RunningSections

\* Closing one.
LEMMA CloseSections ==
  ASSUME IInv, SectionInv, critical_exit \/ critical_exit_basepri
  PROVE  SectionInv'
<1>1. /\ Stricter(Running) /\ Running \in Context
      /\ Running.held \in Seq(HeldSection)
  BY RunningStricter
<1>2. /\ Running.op = NoOp /\ Running.held # << >>
      /\ Become([Running EXCEPT !.held = Front(@)]) /\ UNCHANGED ipr
  BY DEF critical_exit, critical_exit_basepri, nvic
<1>3. PICK c : c = [Running EXCEPT !.held = Front(@)]
  OBVIOUS
<1>4. c.who = Running.who /\ c.held = Front(Running.held) /\ c.op = NoOp
  BY <1>1, <1>2, <1>3 DEF Context
<1> DEFINE n == Len(Running.held)
<1>5. /\ n \in Nat /\ Len(c.held) = n - 1
      /\ \A k \in 1 .. n - 1 : c.held[k] = Running.held[k]
  <2>1. n \in Nat /\ n # 0 /\ c.held = SubSeq(Running.held, 1, n - 1)
    BY <1>1, <1>2, <1>4 DEF Front
  <2>2. QED
    BY <1>1, <2>1
<1> HIDE DEF n
<1>6. ASSUME NEW j \in 1 .. n - 1, NEW k \in 1 .. n - 1, j < k,
             c.held[j].kind = "basepri", c.held[k].kind = "basepri"
      PROVE  c.held[k].level <= c.held[j].level
  <2>1. j \in 1 .. n /\ k \in 1 .. n
    BY <1>5
  <2>2. QED
    BY <1>1, <1>5, <1>6, <2>1 DEF Stricter, n
<1>7. Stricter(c)
  BY <1>4, <1>5, <1>6 DEF Stricter
<1>8. QED
  BY <1>2, <1>3, <1>4, <1>7, RunningSections

\* The line the processor enters is none of those that the sections of the
\* running context keep out: PRIMASK is clear, so it has none of the first
\* kind, and BASEPRI is at the strictest of its levels.
LEMMA EnteredIsAllowed ==
  ASSUME IInv, MaskInv, SectionInv, NEW l \in Line, Enter(l)
  PROVE  \A j \in 1 .. Len(Running.held) : ipr[l] < Running.held[j].level
<1>1. /\ Stricter(Running) /\ MasksOf(Running, primask, basepri)
      /\ Running.held \in Seq(HeldSection) /\ ipr[l] \in Nat
  <2>1. TypeOK /\ top >= 1
    BY DEF IInv, StackInv
  <2>2. ipr[l] \in Prio \cup {0}
    BY <2>1 DEF TypeOK
  <2>3. QED
    BY <2>1, <2>2, RunningStricter, MasksNow, Bands
<1>2. ~primask /\ (basepri # 0 => ipr[l] < basepri)
  BY DEF Enter, Preempts
<1> DEFINE held == Running.held
           n == Len(held)
<1>3. /\ n \in Nat
      /\ \A k \in 1 .. n : held[k] \in HeldSection
  BY <1>1
<1>4. \A k \in 1 .. n : held[k].kind # "primask"
  BY <1>1, <1>2 DEF MasksOf, Chain, Primasked
<1>5. IsBasepri(held, n, Running.basepri, basepri)
  BY <1>1 DEF MasksOf, Chain
<1>6. \A j, k \in 1 .. n : j < k /\ held[j].kind = "basepri"
                             /\ held[k].kind = "basepri"
                             => held[k].level <= held[j].level
  BY <1>1 DEF Stricter
<1> HIDE DEF n, held
<1>7. ASSUME NEW k \in 1 .. n
      PROVE  held[k].kind = "basepri" /\ held[k].level \in Nat \ {0}
  <2>1. held[k] \in HeldSection /\ held[k].kind # "primask"
    BY <1>3, <1>4
  <2>2. held[k].kind = "basepri" /\ held[k].level \in Threshold
    BY <2>1 DEF HeldSection
  <2>3. QED
    BY <2>2, LineAssumption
<1>8. ASSUME NEW j \in 1 .. n PROVE ipr[l] < held[j].level
  <2>1. n \in 1 .. n /\ \A m \in n + 1 .. n : FALSE
    BY <1>3
  <2>2. basepri = held[n].level
    BY <1>5, <1>7, <2>1 DEF IsBasepri
  <2>3. ipr[l] < held[n].level
    BY <1>2, <1>7, <2>1, <2>2
  <2>4. held[n].level <= held[j].level
    <3>1. CASE j = n
      BY <1>7, <3>1
    <3>2. CASE j # n
      BY <1>3, <1>6, <1>7, <2>1, <3>2
    <3>3. QED
      BY <3>1, <3>2
  <2>5. QED
    BY <1>1, <1>7, <2>1, <2>3, <2>4
<1>9. QED
  BY <1>8 DEF n, held

\* Exception entry: the entered handler is outside every promise.
LEMMA DispatchSections ==
  ASSUME IInv, MaskInv, SectionInv, NEW l \in Line, Enter(l)
  PROVE  SectionInv'
<1>1. /\ UNCHANGED ipr /\ top \in Nat /\ Len(stack') = top + 1
      /\ \A i \in 1 .. top : stack'[i] = stack[i]
      /\ stack'[top + 1] = Frame(l, MaxOps, primask, basepri)
  BY DEF Enter, IInv, TypeOK
<1>2. PICK f : f = stack'[top + 1]
  OBVIOUS
<1>3. f.who = l /\ f.held = << >> /\ f.op = NoOp
  BY <1>1, <1>2 DEF Frame
<1>4. ASSUME NEW i \in 1 .. top + 1 PROVE Stricter(stack'[i])
  <2>1. CASE i = top + 1
    BY <1>2, <1>3, <2>1 DEF Stricter
  <2>2. CASE i # top + 1
    BY <1>1, <2>2 DEF SectionInv
  <2>3. QED
    BY <2>1, <2>2
<1>5. ASSUME NEW i \in 1 .. top, NEW j \in 1 .. Len(stack'[i].held)
      PROVE  ipr'[stack'[i + 1].who] < stack'[i].held[j].level
  <2>1. CASE i = top
    BY <1>1, <1>2, <1>3, <1>5, <2>1, EnteredIsAllowed
  <2>2. CASE i # top
    <3>1. i \in 1 .. top - 1 /\ i + 1 \in 1 .. top
      BY <1>1, <2>2
    <3>2. QED
      BY <1>1, <1>5, <3>1 DEF SectionInv
  <2>3. QED
    BY <2>1, <2>2
<1>6. QED
  BY <1>1, <1>4, <1>5 DEF SectionInv

LEMMA SectionNext ==
  ASSUME ~NestWeaker, IInv, MaskInv, SectionInv, [Next]_vars
  PROVE  SectionInv'
<1> USE DEF mask, nvic
<1>0. TypeOK /\ top >= 1 /\ top \in Nat /\ Running.op \in Op
  BY RunningType DEF IInv, StackInv, TypeOK
<1>1. CASE sched_init \/ task_post_n \/ task_clear
  <2>1. Call(NoOp) /\ UNCHANGED ipr
    BY <1>1 DEF sched_init, task_post_n, task_clear
  <2>2. QED
    BY <2>1, CallSections
<1>2. CASE CreateInstall
  <2>1. PICK l \in Fresh, p \in Prio :
          Call([kind |-> "install", line |-> l, prio |-> p])
    BY <1>2 DEF CreateInstall
  <2>2. QED
    BY <1>2, <2>1, CallSections DEF CreateInstall
<1>3. CASE CreatePriority
  <2>1. PICK op : op = [Running.op EXCEPT !.kind = "priority"]
    OBVIOUS
  <2>2. /\ Running.op.kind = "install" /\ Become([Running EXCEPT !.op = op])
        /\ ipr' = [ipr EXCEPT ![Running.op.line] = Running.op.prio]
    BY <1>3, <2>1 DEF CreatePriority, Continue
  <2>3. op.kind = "priority"
    <3>1. Running.op \in [kind : {"install", "priority"}, line : Line,
                          prio : Prio]
      BY <1>0, <2>2 DEF Op
    <3>2. QED
      BY <2>1, <3>1
  <2>4. Running.op.line \notin enabled
    <3>1. top \in 1 .. top
      BY <1>0
    <3>2. QED
      BY <2>2, <3>1 DEF IInv, CreateInv, Creating
  <2>5. \A k \in enabled : ipr'[k] = ipr[k]
    BY <1>0, <2>2, <2>4 DEF TypeOK
  <2>6. QED
    BY <2>2, <2>3, <2>5, CallSections
<1>4. CASE CreateEnable
  <2>1. Become([Running EXCEPT !.op = NoOp]) /\ UNCHANGED ipr
    BY <1>4 DEF CreateEnable, Continue
  <2>2. QED
    BY <2>1, CallSections
<1>5. CASE sched_run
  <2>1. PICK c : c = [Running EXCEPT !.ops = 0]
    OBVIOUS
  <2>2. Become(c) /\ UNCHANGED ipr
    BY <1>5, <2>1 DEF sched_run
  <2>3. Running \in Context /\ Stricter(Running)
    BY RunningStricter
  <2>4. c.who = Running.who /\ c.held = Running.held /\ c.op = Running.op
    BY <2>1, <2>3 DEF Context
  <2>5. Stricter(c)
    BY <2>3, <2>4 DEF Stricter
  <2>6. QED
    BY <2>2, <2>4, <2>5, RunningSections
<1>6. CASE EnterReadPrimask
  <2>1. Call([kind |-> "cpsid", saved |-> primask]) /\ UNCHANGED ipr
    BY <1>6 DEF EnterReadPrimask
  <2>2. QED
    BY <2>1, CallSections
<1>7. CASE EnterReadBasepri
  <2>1. PICK t \in Threshold :
          /\ \A i \in DOMAIN Running.held :
               Running.held[i].kind = "basepri" => t <= Running.held[i].level
          /\ Call([kind |-> "msr", saved |-> basepri, level |-> t])
    BY <1>7 DEF EnterReadBasepri
  <2>2. UNCHANGED ipr
    BY <1>7 DEF EnterReadBasepri
  <2>3. DOMAIN Running.held = 1 .. Len(Running.held)
    BY RunningStricter
  <2>4. QED
    BY <2>1, <2>2, <2>3, CallSections
<1>8. CASE EnterCpsid \/ EnterMsr
  BY <1>8, OpenSections
<1>9. CASE critical_exit \/ critical_exit_basepri
  BY <1>9, CloseSections
<1>10. CASE Return
  <2>1. /\ top >= 2 /\ stack' = SubSeq(stack, 1, top - 1) /\ UNCHANGED ipr
    BY <1>0, <1>10 DEF Return, Front, IInv, StackInv
  <2>2. Len(stack') = top - 1 /\ \A i \in 1 .. top - 1 : stack'[i] = stack[i]
    BY <1>0, <2>1 DEF TypeOK
  <2>3. ASSUME NEW i \in 1 .. top - 1 PROVE Stricter(stack'[i])
    BY <1>0, <2>2 DEF SectionInv
  <2>4. ASSUME NEW i \in 1 .. (top - 1) - 1,
               NEW j \in 1 .. Len(stack'[i].held)
        PROVE  ipr'[stack'[i + 1].who] < stack'[i].held[j].level
    <3>1. i \in 1 .. top - 1 /\ i + 1 \in 1 .. top - 1
      BY <1>0
    <3>2. QED
      BY <2>1, <2>2, <2>4, <3>1 DEF SectionInv
  <2>5. QED
    BY <2>2, <2>3, <2>4 DEF SectionInv
<1>11. CASE Dispatch
  BY <1>11, DispatchSections DEF Dispatch
<1>12. CASE (\E d \in Device : Request(d)) \/ NeighbourStore
            \/ UNCHANGED vars
  <2>1. UNCHANGED <<stack, ipr>>
    BY <1>12 DEF Request, NeighbourStore, vars
  <2>2. QED
    BY <2>1 DEF SectionInv, Stricter
<1>13. QED
  BY <1>1, <1>2, <1>3, <1>4, <1>5, <1>6, <1>7, <1>8, <1>9, <1>10, <1>11,
     <1>12 DEF Next, Progress

(***************************************************************************)
(* No handler enters that an open critical section, of whichever active    *)
(* context, promises to keep out.  It is assumed that no context opens a   *)
(* BASEPRI section inside a stricter one of its own; sections of different *)
(* contexts nest in any way.                                               *)
(***************************************************************************)
THEOREM SectionsKeepOut == ASSUME ~NestWeaker PROVE Spec => SectionsHold
<1>1. ASSUME IInv, MaskInv, SectionInv, NEW l \in Line, Enter(l),
             NEW i \in 1 .. top
      PROVE  ~KeepsOut(stack[i], l)
  <2>1. /\ TypeOK /\ top \in Nat /\ ipr[l] = asked[l] /\ l \in enabled
        /\ \A a \in Active : ipr[l] < ipr[a]
    BY <1>1 DEF IInv, TypeOK, CreateInv, Enter, Waiting, Preempts
  <2>2. \A k \in Line : ipr[k] \in Nat
    <3>1. \A k \in Line : ipr[k] \in Prio \cup {0}
      BY <2>1 DEF TypeOK
    <3>2. QED
      BY <3>1, Bands
  <2>3. stack[i].held \in Seq(HeldSection)
    <3>1. stack[i] \in Context
      BY <1>1, <2>1 DEF TypeOK
    <3>2. QED
      BY <3>1 DEF Context
  <2>4. ASSUME NEW j \in 1 .. Len(stack[i].held)
        PROVE  /\ ipr[l] < stack[i].held[j].level
               /\ stack[i].held[j].level \in Nat
    <3>1. stack[i].held[j].level \in Nat
      <4>1. stack[i].held[j] \in HeldSection
        BY <2>3, <2>4
      <4>2. stack[i].held[j].level \in Threshold \cup {0}
        BY <4>1 DEF HeldSection
      <4>3. QED
        BY <4>2, Bands
    <3>2. CASE i = top
      BY <1>1, <2>4, <3>1, <3>2, EnteredIsAllowed
    <3>3. CASE i # top
      <4>1. i \in 1 .. top - 1 /\ i + 1 \in 2 .. top
        BY <2>1, <3>3
      <4>2. stack[i + 1].who \in Active
        BY <4>1 DEF Active
      <4>3. stack[i + 1].who \in Line
        BY <1>1, <2>1, <4>1 DEF IInv, StackInv, TypeOK
      <4>4. ipr[stack[i + 1].who] < stack[i].held[j].level
        BY <1>1, <2>4, <4>1 DEF SectionInv
      <4>5. ipr[l] < ipr[stack[i + 1].who]
        BY <2>1, <4>2
      <4>6. ipr[l] \in Nat /\ ipr[stack[i + 1].who] \in Nat
        BY <2>2, <4>3
      <4>7. QED
        BY <3>1, <4>4, <4>5, <4>6
    <3>4. QED
      BY <3>2, <3>3
  <2>5. asked[l] \in Nat
    BY <2>1, <2>2
  <2>6. DOMAIN stack[i].held = 1 .. Len(stack[i].held)
    BY <2>3
  <2>7. \A j \in DOMAIN stack[i].held : ~(stack[i].held[j].level <= asked[l])
    BY <2>1, <2>4, <2>5, <2>6
  <2>8. QED
    BY <2>7 DEF KeepsOut
<1>2. IInv /\ MaskInv /\ SectionInv /\ [Next]_vars =>
        [\A l \in Line : Entered(l) =>
           \A i \in 1 .. top : ~KeepsOut(stack[i], l)]_vars
  <2> SUFFICES ASSUME IInv, MaskInv, SectionInv, [Next]_vars,
                      NEW l \in Line, Entered(l), NEW i \in 1 .. top
               PROVE  ~KeepsOut(stack[i], l)
    OBVIOUS
  <2>1. Enter(l)
    BY StackMoves
  <2>2. QED
    BY <1>1, <2>1
<1>3. IInv /\ MaskInv /\ SectionInv /\ [Next]_vars => SectionInv'
  BY SectionNext
<1>4. QED
  BY <1>2, <1>3, MaskInit, MaskNext, SectionInit, Invariance,
     PTL DEF Spec, SectionsHold
=============================================================================
