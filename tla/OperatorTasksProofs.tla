-------------------------- MODULE OperatorTasksProofs --------------------------
(***************************************************************************)
(* WorkIsEvidenced of the task board, for any tasks, callers, actions and  *)
(* outcomes: a task and its steps keep telling one story because every     *)
(* transaction names the statuses it was decided on.                       *)
(***************************************************************************)
EXTENDS OperatorTasks, FiniteSetTheorems, TLAPS

TaskStatus == DOMAIN TaskNext
StepStatus == DOMAIN StepNext
Step == [status : StepStatus, action : Actions \cup {"none"}, evidence : Seq(BOOLEAN)]

(* A step has evidence once it was recorded, and evidence that passed       *)
(* exactly when it completed.                                               *)
EvidenceFits(x) ==
    IF x.status = "completed" THEN x.evidence = <<TRUE>>
    ELSE IF x.status = "failed" THEN x.evidence \in {<<>>, <<FALSE>>}
    ELSE x.evidence = <<>>

(* One step has the status if the task has it, and none if not.             *)
Tally(s, status, st) ==
    IF st = status
    THEN \E n \in 1 .. Len(s) : \A m \in 1 .. Len(s) : s[m].status = status <=> m = n
    ELSE \A m \in 1 .. Len(s) : s[m].status # status

Sound(st, s) ==
    /\ s \in Seq(Step)
    /\ \A n \in 1 .. Len(s) : EvidenceFits(s[n])
    /\ Tally(s, "executing", st) /\ Tally(s, "completed", st)

(* What a call carries: a task, a status its transaction names, and a step  *)
(* that is there, since steps are never removed.                            *)
OnAStep == {"approve", "reject", "execute", "claim", "running"}
Frame == [pc : Transactions \cup {"idle", "execute", "allowed", "barred"},
          task : Tasks \cup {"none"}, n : Nat, was : TaskStatus \cup {"absent", "none"},
          action : Actions \cup {"none"}, stepWas : StepStatus \cup {"none"}]
Carries(f, ss) ==
    /\ f \in Frame
    /\ f.pc \in OnAStep \cup Transactions => f.task \in Tasks
    /\ f.pc \in OnAStep => f.n \in 1 .. Len(ss[f.task])
    /\ f.pc = "cancel" => f.n \in 0 .. Len(ss[f.task])
    /\ f.pc \in Transactions => f.was \in TaskStatus
    /\ f.pc \in {"approve", "reject"} => f.stepWas = "pending_approval"

TaskSound(t) ==
    /\ task[t] \in TaskStatus \cup {"absent"}
    /\ IF task[t] = "absent" THEN Len(steps[t]) = 0 ELSE Len(steps[t]) > 0
    /\ Sound(task[t], steps[t])
BoardInv ==
    /\ task \in [Tasks -> TaskStatus \cup {"absent"}]
    /\ steps \in [Tasks -> Seq(Step)]
    /\ \A t \in Tasks : TaskSound(t)
    /\ call \in [Callers -> Frame]
    /\ \A c \in Callers : Carries(call[c], steps)

-------------------------------------------------------------------------------
(* The shapes of a change of one task and its steps.                        *)

Quiet == {"pending", "queued", "awaiting_approval", "failed", "rejected", "cancelled", "absent"}
QuietStep == {"pending_approval", "approved", "rejected"}

LEMMA Statuses ==
    /\ TaskStatus = {"pending", "queued", "awaiting_approval", "executing", "completed",
                     "failed", "rejected", "cancelled"}
    /\ StepStatus = {"pending_approval", "approved", "executing", "completed", "failed", "rejected"}
  BY DEF TaskStatus, StepStatus, TaskNext, StepNext

(* The status of a task alone changes: it is cancelled.                     *)
LEMMA TaskOnly ==
    ASSUME NEW s, NEW st \in Quiet, NEW to \in Quiet, Sound(st, s)
    PROVE  Sound(to, s)
  BY DEF Sound, Tally, Quiet

(* A step is decided: no work begins or ends.                               *)
LEMMA StepDecided ==
    ASSUME NEW s, NEW st \in Quiet, NEW to \in Quiet, Sound(st, s),
           NEW n \in 1 .. Len(s), NEW x \in Step,
           x.status \in QuietStep, x.evidence = <<>>
    PROVE  Sound(to, [s EXCEPT ![n] = x])
<1> DEFINE s2 == [s EXCEPT ![n] = x]
<1>1. s2 \in Seq(Step) /\ Len(s2) = Len(s) /\ \A m \in 1 .. Len(s) : s2[m] = IF m = n THEN x ELSE s[m]
  BY DEF Sound
<1> HIDE DEF s2
<1>2. \A m \in 1 .. Len(s) : EvidenceFits(s[m]) /\ s[m].status \notin {"executing", "completed"}
  BY DEF Sound, Tally, Quiet
<1>3. EvidenceFits(x) /\ x.status \notin {"executing", "completed"}
  BY DEF QuietStep, EvidenceFits
<1>4. \A m \in 1 .. Len(s2) : EvidenceFits(s2[m]) /\ s2[m].status \notin {"executing", "completed"}
  BY <1>1, <1>2, <1>3
<1>5. Sound(to, s2)
  BY <1>1, <1>4 DEF Sound, Tally, Quiet
<1> QED
  BY <1>5 DEF s2

(* A step is claimed: the task executes with it.                            *)
LEMMA StepClaimed ==
    ASSUME NEW s, NEW st \in Quiet, Sound(st, s),
           NEW n \in 1 .. Len(s), NEW x \in Step,
           x.status = "executing", x.evidence = <<>>
    PROVE  Sound("executing", [s EXCEPT ![n] = x])
<1> DEFINE s2 == [s EXCEPT ![n] = x]
<1>1. s2 \in Seq(Step) /\ Len(s2) = Len(s) /\ \A m \in 1 .. Len(s) : s2[m] = IF m = n THEN x ELSE s[m]
  BY DEF Sound
<1> HIDE DEF s2
<1>2. \A m \in 1 .. Len(s) : EvidenceFits(s2[m])
  BY <1>1 DEF Sound, EvidenceFits
<1>3. \A m \in 1 .. Len(s2) : s2[m].status = "executing" <=> m = n
  BY <1>1 DEF Sound, Tally, Quiet
<1>4. \A m \in 1 .. Len(s2) : s2[m].status # "completed"
  BY <1>1 DEF Sound, Tally, Quiet
<1>5. Sound("executing", s2)
  BY <1>1, <1>2, <1>3, <1>4 DEF Sound, Tally
<1> QED
  BY <1>5 DEF s2

(* The step that executes is recorded: the task ends with it.               *)
LEMMA StepRecorded ==
    ASSUME NEW s, NEW to \in {"completed", "failed"}, Sound("executing", s),
           NEW n \in 1 .. Len(s), s[n].status = "executing",
           NEW x \in Step, x.status = to, EvidenceFits(x)
    PROVE  Sound(to, [s EXCEPT ![n] = x])
<1> DEFINE s2 == [s EXCEPT ![n] = x]
<1>1. s2 \in Seq(Step) /\ Len(s2) = Len(s) /\ \A m \in 1 .. Len(s) : s2[m] = IF m = n THEN x ELSE s[m]
  BY DEF Sound
<1> HIDE DEF s2
<1>2. \A m \in 1 .. Len(s) : s[m].status = "executing" <=> m = n
  BY DEF Sound, Tally
<1>3. \A m \in 1 .. Len(s) : s[m].status # "completed" /\ EvidenceFits(s[m])
  BY DEF Sound, Tally
<1>4. \A m \in 1 .. Len(s2) : EvidenceFits(s2[m]) /\ s2[m].status # "executing"
  BY <1>1, <1>2, <1>3
<1>5. \A m \in 1 .. Len(s2) : s2[m].status = "completed" <=> (to = "completed" /\ m = n)
  BY <1>1, <1>3
<1>6. Sound(to, s2)
  BY <1>1, <1>4, <1>5 DEF Sound, Tally
<1> QED
  BY <1>6 DEF s2

(* A step is added by a retry, or is the first of a new task.               *)
LEMMA StepAdded ==
    ASSUME NEW s, NEW st \in Quiet, NEW to \in Quiet, Sound(st, s), NEW x \in Step,
           x.status \in QuietStep, x.evidence = <<>>
    PROVE  Sound(to, Append(s, x)) /\ Len(Append(s, x)) = Len(s) + 1
<1>1. /\ s \in Seq(Step) /\ Append(s, x) \in Seq(Step) /\ Len(Append(s, x)) = Len(s) + 1
      /\ \A m \in 1 .. Len(s) + 1 : Append(s, x)[m] = IF m <= Len(s) THEN s[m] ELSE x
  BY DEF Sound
<1>2. \A m \in 1 .. Len(s) : EvidenceFits(s[m]) /\ s[m].status \notin {"executing", "completed"}
  BY DEF Sound, Tally, Quiet
<1>3. EvidenceFits(x) /\ x.status \notin {"executing", "completed"}
  BY DEF QuietStep, EvidenceFits
<1>4. \A m \in 1 .. Len(s) + 1 : \/ m \in 1 .. Len(s) /\ Append(s, x)[m] = s[m]
                                 \/ Append(s, x)[m] = x
  BY <1>1
<1>5. \A m \in 1 .. Len(s) + 1 : /\ EvidenceFits(Append(s, x)[m])
                                 /\ Append(s, x)[m].status \notin {"executing", "completed"}
  BY <1>2, <1>3, <1>4
<1> QED
  BY <1>1, <1>5 DEF Sound, Tally, Quiet
LEMMA FirstStep ==
    ASSUME NEW to \in Quiet, NEW x \in Step, x.status \in QuietStep, x.evidence = <<>>
    PROVE  Sound(to, <<x>>) /\ Len(<<x>>) = 1
<1> DEFINE s == <<x>>
<1>1. s \in Seq(Step) /\ Len(s) = 1 /\ s[1] = x
  OBVIOUS
<1>2. EvidenceFits(x) /\ x.status \notin {"executing", "completed"}
  BY DEF QuietStep, EvidenceFits
<1>3. to \notin {"executing", "completed"}
  BY DEF Quiet
<1> HIDE DEF s
<1>4. \A m \in 1 .. Len(s) : s[m] = x
  BY <1>1
<1>5. Sound(to, s)
  BY <1>1, <1>2, <1>3, <1>4 DEF Sound, Tally
<1> QED
  BY <1>1, <1>5 DEF s

-------------------------------------------------------------------------------
(* A transaction changes one task with its steps, and the frame of its call. *)
LEMMA TaskChanged ==
    ASSUME BoardInv, NEW t \in Tasks, NEW c \in Callers,
           task' \in [Tasks -> TaskStatus \cup {"absent"}], steps' \in [Tasks -> Seq(Step)],
           \A u \in Tasks : u # t => task'[u] = task[u] /\ steps'[u] = steps[u],
           task'[t] \in TaskStatus, Sound(task'[t], steps'[t]),
           Len(steps'[t]) > 0, Len(steps'[t]) >= Len(steps[t]),
           call' \in [Callers -> Frame], Carries(call'[c], steps'),
           \A d \in Callers : d # c => call'[d] = call[d]
    PROVE  BoardInv'
<1>1. ASSUME NEW u \in Tasks PROVE TaskSound(u)'
  <2>1. task'[u] \in TaskStatus \cup {"absent"}
    OBVIOUS
  <2>2. CASE u = t
    BY <2>1, <2>2, Statuses DEF TaskSound
  <2>3. CASE u # t
    BY <2>1, <2>3 DEF TaskSound, BoardInv
  <2> QED
    BY <2>2, <2>3
<1>2. \A u \in Tasks : Len(steps[u]) \in Nat /\ Len(steps'[u]) \in Nat /\ Len(steps'[u]) >= Len(steps[u])
  <2>1. \A u \in Tasks : steps[u] \in Seq(Step) /\ steps'[u] \in Seq(Step)
    BY DEF BoardInv
  <2>2. \A u \in Tasks : Len(steps[u]) \in Nat /\ Len(steps'[u]) \in Nat
    BY <2>1
  <2>3. ASSUME NEW u \in Tasks PROVE Len(steps'[u]) >= Len(steps[u])
    <3>1. u = t \/ Len(steps'[u]) = Len(steps[u])
      OBVIOUS
    <3> QED
      BY <2>2, <3>1
  <2> QED
    BY <2>2, <2>3
<1>3. ASSUME NEW d \in Callers PROVE Carries(call'[d], steps')
  <2>1. CASE d = c
    BY <2>1
  <2>2. CASE d # c
    <3>1. call'[d] = call[d] /\ Carries(call[d], steps)
      BY <2>2 DEF BoardInv
    <3> QED
      BY <3>1, <1>2 DEF Carries, OnAStep, Transactions
  <2> QED
    BY <2>1, <2>2
<1> QED
  BY <1>1, <1>3 DEF BoardInv

(* A call that only reads, or that ends, changes its own frame.             *)
LEMMA CallChanged ==
    ASSUME BoardInv, NEW c \in Callers, UNCHANGED <<task, steps>>,
           call' \in [Callers -> Frame], Carries(call'[c], steps),
           \A d \in Callers : d # c => call'[d] = call[d]
    PROVE  BoardInv'
<1>1. ASSUME NEW d \in Callers PROVE Carries(call'[d], steps')
  BY DEF BoardInv
<1>2. \A t \in Tasks : TaskSound(t)'
  BY DEF BoardInv, TaskSound
<1> QED
  BY <1>1, <1>2 DEF BoardInv

LEMMA Returned ==
    ASSUME BoardInv, NEW c \in Callers, Leave(c), NEW ss
    PROVE  /\ call' \in [Callers -> Frame] /\ Carries(call'[c], ss)
           /\ \A d \in Callers : d # c => call'[d] = call[d]
  BY Statuses DEF BoardInv, Leave, Idle, Frame, Carries, OnAStep, Transactions

LEMMA Gone ==
    ASSUME BoardInv, NEW c \in Callers, UNCHANGED <<task, steps>>, Leave(c)
    PROVE  BoardInv'
  BY CallChanged, Returned

(* What a call in a transaction has at hand.                                *)
LEMMA AtHand ==
    ASSUME BoardInv, NEW c \in Callers, call[c].pc \in OnAStep \cup Transactions
    PROVE  /\ T(c) \in Tasks /\ call[c] \in Frame /\ steps[T(c)] \in Seq(Step)
           /\ Sound(task[T(c)], steps[T(c)]) /\ Len(steps[T(c)]) \in Nat
           /\ call[c].pc \in OnAStep => call[c].n \in 1 .. Len(steps[T(c)])
           /\ call[c].pc = "cancel" => call[c].n \in 0 .. Len(steps[T(c)])
           /\ call[c].pc \in Transactions => call[c].was \in TaskStatus
           /\ call[c].pc \in {"approve", "reject"} => call[c].stepWas = "pending_approval"
<1>1. Carries(call[c], steps) /\ T(c) \in Tasks
  BY DEF BoardInv, Carries, T
<1>2. TaskSound(T(c)) /\ steps[T(c)] \in Seq(Step)
  BY <1>1 DEF BoardInv
<1> QED
  BY <1>1, <1>2 DEF Carries, TaskSound, T

(* The transitions that do not touch the work begin and end at quiet ones.  *)
LEMMA QuietMoves ==
    ASSUME NEW was \in TaskStatus,
           NEW to \in {"cancelled", "queued", "awaiting_approval", "rejected"}, to \in TaskNext[was]
    PROVE  was \in Quiet /\ to \in Quiet /\ to \in TaskStatus
  BY DEF TaskStatus, TaskNext, Quiet

LEMMA TaskMoved ==
    ASSUME BoardInv, NEW t \in Tasks, NEW was \in TaskStatus,
           NEW to \in TaskStatus, TransitionTask(t, was, to)
    PROVE  /\ task' \in [Tasks -> TaskStatus \cup {"absent"}]
           /\ task[t] = was /\ task'[t] = to /\ to \in TaskNext[was]
           /\ \A u \in Tasks : u # t => task'[u] = task[u]
           /\ Len(steps[t]) > 0
<1>1. task[t] = was /\ task[t] # "absent"
  BY Statuses DEF TransitionTask
<1>2. Len(steps[t]) > 0
  BY <1>1 DEF BoardInv, TaskSound
<1> QED
  BY <1>1, <1>2 DEF BoardInv, TransitionTask

LEMMA StepReplaced ==
    ASSUME BoardInv, NEW t \in Tasks, NEW s2 \in Seq(Step),
           steps' = [steps EXCEPT ![t] = s2]
    PROVE  /\ steps' \in [Tasks -> Seq(Step)] /\ steps'[t] = s2
           /\ \A u \in Tasks : u # t => steps'[u] = steps[u]
  BY DEF BoardInv

LEMMA StepMoved ==
    ASSUME NEW s \in Seq(Step), NEW n \in 1 .. Len(s), NEW to \in StepStatus
    PROVE  LET x == [s[n] EXCEPT !.status = to]
           IN  /\ x \in Step /\ x.status = to /\ x.evidence = s[n].evidence
               /\ [s EXCEPT ![n] = x] \in Seq(Step) /\ Len([s EXCEPT ![n] = x]) = Len(s)
<1>1. s[n] \in Step
  OBVIOUS
<1>2. [s[n] EXCEPT !.status = to] \in Step
  BY <1>1 DEF Step
<1> QED
  BY <1>1, <1>2 DEF Step

(* A transaction that also moves a step from where it was read.             *)
LEMMA StepRestatused ==
    ASSUME BoardInv, NEW t \in Tasks, NEW s \in Seq(Step), s = steps[t], NEW n \in 1 .. Len(s),
           NEW was \in StepStatus, NEW to \in StepStatus, TransitionStep(t, n, was, to)
    PROVE  LET x == [s[n] EXCEPT !.status = to]
           IN  /\ s[n].status = was /\ steps' = [steps EXCEPT ![t] = [s EXCEPT ![n] = x]]
               /\ steps' \in [Tasks -> Seq(Step)] /\ steps'[t] = [s EXCEPT ![n] = x]
               /\ \A u \in Tasks : u # t => steps'[u] = steps[u]
<1> DEFINE x == [s[n] EXCEPT !.status = to]
           s2 == [s EXCEPT ![n] = x]
<1>1. s2 \in Seq(Step)
  BY StepMoved
<1>2. s[n].status = was /\ steps' = [steps EXCEPT ![t] = s2]
  BY DEF TransitionStep, Restatus
<1> HIDE DEF s2
<1>3. steps' \in [Tasks -> Seq(Step)] /\ steps'[t] = s2 /\ \A u \in Tasks : u # t => steps'[u] = steps[u]
  BY <1>1, <1>2, StepReplaced
<1> QED
  BY <1>2, <1>3 DEF s2

-------------------------------------------------------------------------------
(* One lemma per action.                                                    *)

LEMMA NewStepFits ==
    ASSUME NEW action \in Actions \cup {"none"}
    PROVE  /\ NewStep(action) \in Step /\ NewStep(action).status \in QuietStep
           /\ NewStep(action).evidence = <<>>
           /\ Opened(action) \in Quiet \ {"absent"} /\ Opened(action) \in TaskStatus
<1>1. <<>> \in Seq(BOOLEAN)
  OBVIOUS
<1> QED
  BY <1>1, Statuses DEF NewStep, Step, QuietStep, Opened, Quiet

LEMMA CreateSteps ==
    ASSUME BoardInv, NEW c \in Callers, NEW t \in Tasks, NEW action \in Actions, CreateTask(c, t, action)
    PROVE  BoardInv'
<1> DEFINE x == NewStep(action)
           to == Opened(action)
<1>1. x \in Step /\ to \in TaskStatus /\ Sound(to, <<x>>) /\ Len(<<x>>) = 1 /\ <<x>> \in Seq(Step)
  BY NewStepFits, FirstStep
<1> HIDE DEF x, to
<1>2. /\ task' = [task EXCEPT ![t] = to] /\ steps' = [steps EXCEPT ![t] = <<x>>]
      /\ call' = [call EXCEPT ![c] = IF RequiresApproval(action) THEN Idle
                    ELSE [Idle EXCEPT !.pc = "execute", !.task = t, !.n = 1]]
      /\ task[t] = "absent"
  BY DEF CreateTask, x, to
<1>3. /\ task' \in [Tasks -> TaskStatus \cup {"absent"}] /\ task'[t] = to
      /\ \A u \in Tasks : u # t => task'[u] = task[u]
  BY <1>1, <1>2 DEF BoardInv
<1>4. /\ steps' \in [Tasks -> Seq(Step)] /\ steps'[t] = <<x>>
      /\ \A u \in Tasks : u # t => steps'[u] = steps[u]
  BY <1>1, <1>2, StepReplaced
<1>5. Len(steps'[t]) = 1 /\ Len(steps'[t]) > 0
  BY <1>1, <1>4
<1>6. /\ call' \in [Callers -> Frame] /\ Carries(call'[c], steps')
      /\ \A d \in Callers : d # c => call'[d] = call[d]
  <2>1. CASE RequiresApproval(action)
    <3>1. Leave(c)
      BY <1>2, <2>1 DEF Leave
    <3> QED
      BY <3>1, Returned
  <2>2. CASE ~RequiresApproval(action)
    <3>1. call' = [call EXCEPT ![c] = [Idle EXCEPT !.pc = "execute", !.task = t, !.n = 1]]
      BY <1>2, <2>2
    <3>2. [Idle EXCEPT !.pc = "execute", !.task = t, !.n = 1] \in Frame
      BY DEF Idle, Frame, Transactions
    <3>3. /\ call' \in [Callers -> Frame] /\ \A d \in Callers : d # c => call'[d] = call[d]
          /\ call'[c] = [Idle EXCEPT !.pc = "execute", !.task = t, !.n = 1]
      BY <3>1, <3>2 DEF BoardInv
    <3>4. call'[c].pc = "execute" /\ call'[c].task = t /\ call'[c].n = 1 /\ 1 \in 1 .. Len(steps'[t])
      BY <3>3, <1>5 DEF Idle
    <3> QED
      BY <3>2, <3>3, <3>4 DEF Carries, OnAStep, Transactions
  <2> QED
    BY <2>1, <2>2
<1>7. Len(steps[t]) = 0
  BY <1>2 DEF BoardInv, TaskSound
<1>8. Len(steps'[t]) >= Len(steps[t])
  BY <1>5, <1>7
<1>9. task'[t] \in TaskStatus /\ Sound(task'[t], steps'[t])
  BY <1>1, <1>3, <1>4
<1> QED
  BY <1>3, <1>4, <1>5, <1>6, <1>8, <1>9, TaskChanged

LEMMA AskSteps ==
    ASSUME BoardInv, NEW c \in Callers, Ask(c)
    PROVE  BoardInv'
<1>1. PICK t \in Tasks :
        \/ task[t] \in Cancellable /\ Begin(c, t, "cancel", PendingStep(t))
        \/ task[t] \in Retryable /\ Begin(c, t, "retry", Len(steps[t]) + 1)
        \/ \E n \in DOMAIN steps[t], decision \in {"approve", "reject"} :
             /\ task[t] = "awaiting_approval" /\ steps[t][n].status = "pending_approval"
             /\ Begin(c, t, decision, n)
  BY DEF Ask
<1>2. PICK s \in Seq(Step) : s = steps[t]
  BY DEF BoardInv
<1>3. task[t] \in TaskStatus \cup {"absent"} /\ (task[t] # "absent" => Len(s) \in 1 .. Len(s))
  BY <1>2 DEF BoardInv, TaskSound
<1>4. ASSUME NEW pc \in {"cancel", "retry", "approve", "reject"}, NEW n \in Nat,
             task[t] # "absent", Begin(c, t, pc, n),
             pc \in {"approve", "reject"} => n \in 1 .. Len(s) /\ s[n].status = "pending_approval",
             pc = "cancel" => n \in 0 .. Len(s)
      PROVE  BoardInv'
  <2> DEFINE was == IF n \in DOMAIN s THEN s[n].status ELSE "none"
             f == [pc |-> pc, task |-> t, n |-> n, was |-> task[t],
                   action |-> s[Len(s)].action, stepWas |-> was]
  <2>1. s[Len(s)] \in Step /\ task[t] \in TaskStatus
    BY <1>3, <1>4
  <2>2. was \in StepStatus \cup {"none"}
    <3>1. \A m \in 1 .. Len(s) : s[m] \in Step
      OBVIOUS
    <3>2. DOMAIN s = 1 .. Len(s)
      OBVIOUS
    <3> QED
      BY <3>1, <3>2 DEF Step
  <2>3. call' = [call EXCEPT ![c] = f] /\ UNCHANGED <<task, steps>>
    BY <1>2, <1>4 DEF Begin
  <2>4. pc \in {"approve", "reject"} => was = "pending_approval"
    BY <1>4
  <2> HIDE DEF was
  <2>5. f \in Frame
    BY <2>1, <2>2 DEF Frame, Transactions, Step
  <2>6. /\ f.pc = pc /\ f.task = t /\ f.n = n /\ f.was = task[t] /\ f.stepWas = was
    OBVIOUS
  <2> HIDE DEF f
  <2>7. Carries(f, steps)
    BY <1>2, <1>4, <2>1, <2>4, <2>5, <2>6 DEF Carries, OnAStep, Transactions
  <2>8. call' \in [Callers -> Frame] /\ call'[c] = f /\ \A d \in Callers : d # c => call'[d] = call[d]
    BY <2>3, <2>5 DEF BoardInv
  <2> QED
    BY <2>3, <2>7, <2>8, CallChanged
<1>5. CASE task[t] \in Cancellable /\ Begin(c, t, "cancel", PendingStep(t))
  <2>1. PendingStep(t) \in 0 .. Len(s) /\ PendingStep(t) \in Nat
    BY <1>2 DEF PendingStep
  <2>2. PICK n \in 0 .. Len(s) : n = PendingStep(t)
    BY <2>1
  <2> QED
    BY <1>4, <1>5, <2>2 DEF Cancellable
<1>6. CASE task[t] \in Retryable /\ Begin(c, t, "retry", Len(steps[t]) + 1)
  <2>1. Len(s) + 1 \in Nat
    OBVIOUS
  <2> QED
    BY <1>2, <1>4, <1>6, <2>1 DEF Retryable
<1>7. CASE \E n \in DOMAIN steps[t], decision \in {"approve", "reject"} :
             /\ task[t] = "awaiting_approval" /\ steps[t][n].status = "pending_approval"
             /\ Begin(c, t, decision, n)
  <2>1. PICK n \in 1 .. Len(s), decision \in {"approve", "reject"} :
             /\ task[t] = "awaiting_approval" /\ s[n].status = "pending_approval"
             /\ Begin(c, t, decision, n)
    BY <1>2, <1>7
  <2> QED
    BY <1>4, <2>1
<1> QED
  BY <1>1, <1>5, <1>6, <1>7

(* A call goes on to execute a step that is there.                          *)
LEMMA WentOn ==
    ASSUME BoardInv, NEW c \in Callers, Go(c, "execute"), NEW ss,
           T(c) \in Tasks, call[c].n \in 1 .. Len(ss[T(c)])
    PROVE  /\ call' \in [Callers -> Frame] /\ Carries(call'[c], ss)
           /\ \A d \in Callers : d # c => call'[d] = call[d]
<1>1. PICK f \in Frame : f = call[c]
  BY DEF BoardInv
<1> DEFINE g == [f EXCEPT !.pc = "execute"]
<1>2. g \in Frame /\ g.pc = "execute" /\ g.task = f.task /\ g.n = f.n
  BY DEF Frame
<1>3. call' = [call EXCEPT ![c] = g]
  BY <1>1 DEF Go
<1> HIDE DEF g
<1>4. call' \in [Callers -> Frame] /\ call'[c] = g /\ \A d \in Callers : d # c => call'[d] = call[d]
  BY <1>2, <1>3 DEF BoardInv
<1>5. Carries(g, ss)
  BY <1>1, <1>2 DEF Carries, OnAStep, Transactions, T
<1> QED
  BY <1>4, <1>5

LEMMA CancelSteps ==
    ASSUME BoardInv, NEW c \in Callers, CancelTask(c)
    PROVE  BoardInv'
<1>1. call[c].pc = "cancel" /\ Leave(c) /\ TransitionTask(T(c), call[c].was, "cancelled")
  BY DEF CancelTask
<1>2. PICK t \in Tasks, was \in TaskStatus, n \in Nat :
        t = T(c) /\ was = call[c].was /\ n = call[c].n /\ n \in 0 .. Len(steps[t])
  BY <1>1, AtHand DEF OnAStep, Transactions, Frame
<1>3. PICK s \in Seq(Step) : s = steps[t]
  BY DEF BoardInv
<1>4. /\ task' \in [Tasks -> TaskStatus \cup {"absent"}]
      /\ task[t] = was /\ task'[t] = "cancelled" /\ "cancelled" \in TaskNext[was]
      /\ \A u \in Tasks : u # t => task'[u] = task[u]
      /\ Len(steps[t]) > 0 /\ "cancelled" \in TaskStatus
  BY <1>1, <1>2, Statuses, TaskMoved
<1>5. was \in Quiet /\ "cancelled" \in Quiet /\ Sound(was, s)
  BY <1>3, <1>4, QuietMoves DEF BoardInv, TaskSound
<1>6. /\ call' \in [Callers -> Frame] /\ Carries(call'[c], steps')
      /\ \A d \in Callers : d # c => call'[d] = call[d]
  BY <1>1, Returned
<1>7. CASE n = 0
  <2>1. UNCHANGED steps /\ steps \in [Tasks -> Seq(Step)]
    BY <1>2, <1>7 DEF CancelTask, BoardInv
  <2>2. Sound("cancelled", s)
    BY <1>5, TaskOnly
  <2> QED
    BY <1>3, <1>4, <1>6, <2>1, <2>2, TaskChanged
<1>8. CASE n # 0
  <2>1. n \in 1 .. Len(s) /\ TransitionStep(t, n, "pending_approval", "rejected")
    BY <1>2, <1>3, <1>8 DEF CancelTask
  <2> DEFINE x == [s[n] EXCEPT !.status = "rejected"]
             s2 == [s EXCEPT ![n] = x]
  <2>2. /\ s[n].status = "pending_approval" /\ steps' \in [Tasks -> Seq(Step)] /\ steps'[t] = s2
        /\ \A u \in Tasks : u # t => steps'[u] = steps[u]
    <3>1. "pending_approval" \in StepStatus /\ "rejected" \in StepStatus
      BY Statuses
    <3> QED
      BY <1>3, <2>1, <3>1, StepRestatused
  <2>3. x \in Step /\ x.status = "rejected" /\ x.evidence = s[n].evidence /\ Len(s2) = Len(s)
    BY <2>1, Statuses, StepMoved
  <2>4. s[n].evidence = <<>>
    <3>1. EvidenceFits(s[n])
      BY <1>5, <2>1 DEF Sound
    <3> QED
      BY <2>2, <3>1 DEF EvidenceFits
  <2> HIDE DEF x
  <2>5. Sound("cancelled", s2)
    <3>1. x.status \in QuietStep /\ x.evidence = <<>>
      BY <2>3, <2>4 DEF QuietStep
    <3> QED
      BY <1>5, <2>1, <2>3, <3>1, StepDecided
  <2> HIDE DEF s2
  <2>6. Len(steps'[t]) > 0 /\ Len(steps'[t]) >= Len(steps[t])
    BY <1>3, <1>4, <2>2, <2>3
  <2> QED
    BY <1>4, <1>6, <2>2, <2>5, <2>6, TaskChanged
<1> QED
  BY <1>7, <1>8

LEMMA RetrySteps ==
    ASSUME BoardInv, NEW c \in Callers, RetryTask(c)
    PROVE  BoardInv'
<1>1. /\ call[c].pc = "retry" /\ TransitionTask(T(c), call[c].was, Opened(call[c].action))
      /\ call[c].n = Len(steps[T(c)]) + 1 /\ ExecuteUnlessGated(c)
      /\ steps' = [steps EXCEPT ![T(c)] = Append(@, NewStep(call[c].action))]
  BY DEF RetryTask
<1>2. PICK t \in Tasks, was \in TaskStatus, action \in Actions \cup {"none"} :
        t = T(c) /\ was = call[c].was /\ action = call[c].action
  BY <1>1, AtHand DEF OnAStep, Transactions, Frame
<1>3. PICK s \in Seq(Step) : s = steps[t]
  BY DEF BoardInv
<1> DEFINE x == NewStep(action)
           to == Opened(action)
           s2 == Append(s, x)
<1>4. /\ x \in Step /\ x.status \in QuietStep /\ x.evidence = <<>>
      /\ to \in {"queued", "awaiting_approval"} /\ to \in TaskStatus
  BY NewStepFits DEF Opened
<1>5. TransitionTask(t, was, to) /\ steps' = [steps EXCEPT ![t] = s2]
  BY <1>1, <1>2, <1>3
<1> HIDE DEF x, to
<1>6. /\ task' \in [Tasks -> TaskStatus \cup {"absent"}]
      /\ task[t] = was /\ task'[t] = to /\ to \in TaskNext[was]
      /\ \A u \in Tasks : u # t => task'[u] = task[u]
  BY <1>4, <1>5, TaskMoved
<1>7. was \in Quiet /\ to \in Quiet /\ Sound(was, s)
  BY <1>3, <1>4, <1>6, QuietMoves DEF BoardInv, TaskSound
<1>8. Sound(to, s2) /\ Len(s2) = Len(s) + 1 /\ s2 \in Seq(Step) /\ Len(s) \in Nat
  BY <1>4, <1>7, StepAdded
<1> HIDE DEF s2
<1>9. /\ steps' \in [Tasks -> Seq(Step)] /\ steps'[t] = s2
      /\ \A u \in Tasks : u # t => steps'[u] = steps[u]
  BY <1>5, <1>8, StepReplaced
<1>10. Len(steps'[t]) > 0 /\ Len(steps'[t]) >= Len(steps[t])
  BY <1>3, <1>8, <1>9
<1>11. /\ call' \in [Callers -> Frame] /\ Carries(call'[c], steps')
       /\ \A d \in Callers : d # c => call'[d] = call[d]
  <2>1. CASE Leave(c)
    BY <2>1, Returned
  <2>2. CASE Go(c, "execute")
    <3>1. call[c].n \in 1 .. Len(steps'[T(c)]) /\ T(c) \in Tasks
      BY <1>1, <1>2, <1>3, <1>8, <1>9
    <3> QED
      BY <2>2, <3>1, WentOn
  <2> QED
    BY <1>1, <2>1, <2>2 DEF ExecuteUnlessGated
<1> QED
  BY <1>4, <1>6, <1>8, <1>9, <1>10, <1>11, TaskChanged

LEMMA DecideSteps ==
    ASSUME BoardInv, NEW c \in Callers, NEW pc \in {"approve", "reject"},
           NEW stepTo \in {"approved", "rejected"}, NEW taskTo \in {"queued", "rejected"},
           Decide(c, pc, stepTo, taskTo),
           Leave(c) \/ Go(c, "execute")
    PROVE  BoardInv'
<1>1. /\ call[c].pc = pc /\ TransitionStep(T(c), call[c].n, call[c].stepWas, stepTo)
      /\ TransitionTask(T(c), call[c].was, taskTo)
  BY DEF Decide
<1>2. PICK t \in Tasks, was \in TaskStatus, n \in Nat :
        /\ t = T(c) /\ was = call[c].was /\ n = call[c].n /\ n \in 1 .. Len(steps[t])
        /\ call[c].stepWas = "pending_approval"
  BY <1>1, AtHand DEF OnAStep, Transactions, Frame
<1>3. PICK s \in Seq(Step) : s = steps[t]
  BY DEF BoardInv
<1>4. /\ "pending_approval" \in StepStatus /\ stepTo \in StepStatus /\ taskTo \in TaskStatus
      /\ n \in 1 .. Len(s)
      /\ TransitionStep(t, n, "pending_approval", stepTo) /\ TransitionTask(t, was, taskTo)
  BY <1>1, <1>2, <1>3, Statuses
<1>5. /\ task' \in [Tasks -> TaskStatus \cup {"absent"}]
      /\ task[t] = was /\ task'[t] = taskTo /\ taskTo \in TaskNext[was]
      /\ \A u \in Tasks : u # t => task'[u] = task[u]
      /\ Len(steps[t]) > 0
  BY <1>4, TaskMoved
<1>6. was \in Quiet /\ taskTo \in Quiet /\ Sound(was, s)
  BY <1>3, <1>5, QuietMoves DEF BoardInv, TaskSound
<1> DEFINE x == [s[n] EXCEPT !.status = stepTo]
           s2 == [s EXCEPT ![n] = x]
<1>7. /\ s[n].status = "pending_approval" /\ steps' \in [Tasks -> Seq(Step)] /\ steps'[t] = s2
      /\ \A u \in Tasks : u # t => steps'[u] = steps[u]
  BY <1>3, <1>4, StepRestatused
<1>8. x \in Step /\ x.status = stepTo /\ x.evidence = s[n].evidence /\ Len(s2) = Len(s)
  BY <1>4, StepMoved
<1>9. EvidenceFits(s[n])
  BY <1>4, <1>6 DEF Sound
<1> HIDE DEF x
<1>10. x.status \in QuietStep /\ x.evidence = <<>>
  BY <1>7, <1>8, <1>9 DEF EvidenceFits, QuietStep
<1>11. Sound(taskTo, s2)
  BY <1>4, <1>6, <1>8, <1>10, StepDecided
<1> HIDE DEF s2
<1>12. Len(steps'[t]) > 0 /\ Len(steps'[t]) >= Len(steps[t])
  BY <1>3, <1>5, <1>7, <1>8
<1>13. /\ call' \in [Callers -> Frame] /\ Carries(call'[c], steps')
       /\ \A d \in Callers : d # c => call'[d] = call[d]
  <2>1. call[c].n \in 1 .. Len(steps'[T(c)]) /\ T(c) \in Tasks
    BY <1>2, <1>4, <1>7, <1>8
  <2> QED
    BY <2>1, Returned, WentOn
<1> QED
  BY <1>4, <1>5, <1>7, <1>11, <1>12, <1>13, TaskChanged

LEMMA ReadSteps ==
    ASSUME BoardInv, NEW c \in Callers, ReadApproved(c)
    PROVE  BoardInv'
<1>1. CASE Leave(c)
  BY <1>1, Gone DEF ReadApproved
<1>2. CASE call' = [call EXCEPT ![c].pc = "claim", ![c].was = "queued", ![c].stepWas = "approved"]
  <2>1. PICK f \in Frame : f = call[c]
    BY DEF BoardInv
  <2> DEFINE g == [[[f EXCEPT !.pc = "claim"] EXCEPT !.was = "queued"] EXCEPT !.stepWas = "approved"]
  <2>2. /\ g \in Frame /\ g.pc = "claim" /\ g.task = f.task /\ g.n = f.n /\ g.was = "queued"
    BY Statuses DEF Frame, Transactions
  <2>3. call' = [call EXCEPT ![c] = g]
    BY <1>2, <2>1 DEF BoardInv
  <2> HIDE DEF g
  <2>4. /\ call' \in [Callers -> Frame] /\ call'[c] = g
        /\ \A d \in Callers : d # c => call'[d] = call[d]
    BY <2>2, <2>3 DEF BoardInv
  <2>5. Carries(f, steps) /\ f.pc = "execute"
    BY <2>1 DEF BoardInv, ReadApproved
  <2>6. Carries(g, steps)
    BY <2>2, <2>5, Statuses DEF Carries, OnAStep, Transactions
  <2> QED
    BY <2>4, <2>6, CallChanged DEF ReadApproved
<1> QED
  BY <1>1, <1>2 DEF ReadApproved

LEMMA ClaimSteps ==
    ASSUME BoardInv, NEW c \in Callers, ClaimStep(c)
    PROVE  BoardInv'
<1>1. /\ call[c].pc = "claim" /\ TransitionStep(T(c), call[c].n, "approved", "executing")
      /\ TransitionTask(T(c), "queued", "executing")
      /\ call' = [call EXCEPT ![c].pc = "running", ![c].was = "executing", ![c].stepWas = "executing"]
  BY DEF ClaimStep
<1>2. PICK t \in Tasks, n \in Nat : t = T(c) /\ n = call[c].n /\ n \in 1 .. Len(steps[t])
  BY <1>1, AtHand DEF OnAStep, Transactions, Frame
<1>3. PICK s \in Seq(Step) : s = steps[t]
  BY DEF BoardInv
<1>4. /\ {"approved", "executing"} \subseteq StepStatus /\ {"queued", "executing"} \subseteq TaskStatus
      /\ n \in 1 .. Len(s)
      /\ TransitionStep(t, n, "approved", "executing") /\ TransitionTask(t, "queued", "executing")
  BY <1>1, <1>2, <1>3, Statuses
<1>5. /\ task' \in [Tasks -> TaskStatus \cup {"absent"}]
      /\ task[t] = "queued" /\ task'[t] = "executing"
      /\ \A u \in Tasks : u # t => task'[u] = task[u]
      /\ Len(steps[t]) > 0
  BY <1>4, TaskMoved
<1>6. Sound("queued", s) /\ "queued" \in Quiet
  BY <1>3, <1>5 DEF BoardInv, TaskSound, Quiet
<1> DEFINE x == [s[n] EXCEPT !.status = "executing"]
           s2 == [s EXCEPT ![n] = x]
<1>7. /\ s[n].status = "approved" /\ steps' \in [Tasks -> Seq(Step)] /\ steps'[t] = s2
      /\ \A u \in Tasks : u # t => steps'[u] = steps[u]
  <2>1. "approved" \in StepStatus /\ "executing" \in StepStatus
    BY <1>4
  <2> QED
    BY <1>3, <1>4, <2>1, StepRestatused
<1>8. x \in Step /\ x.status = "executing" /\ x.evidence = s[n].evidence /\ Len(s2) = Len(s)
  BY <1>4, StepMoved
<1>9. EvidenceFits(s[n])
  BY <1>4, <1>6 DEF Sound
<1> HIDE DEF x
<1>10. x.evidence = <<>>
  BY <1>7, <1>8, <1>9 DEF EvidenceFits
<1>11. Sound("executing", s2)
  BY <1>4, <1>6, <1>8, <1>10, StepClaimed
<1> HIDE DEF s2
<1>12. Len(steps'[t]) > 0 /\ Len(steps'[t]) >= Len(steps[t])
  BY <1>3, <1>5, <1>7, <1>8
<1>13. /\ call' \in [Callers -> Frame] /\ Carries(call'[c], steps')
       /\ \A d \in Callers : d # c => call'[d] = call[d]
  <2>1. PICK f \in Frame : f = call[c]
    BY DEF BoardInv
  <2> DEFINE g == [[[f EXCEPT !.pc = "running"] EXCEPT !.was = "executing"] EXCEPT !.stepWas = "executing"]
  <2>2. /\ g \in Frame /\ g.pc = "running" /\ g.task = f.task /\ g.n = f.n /\ g.was = "executing"
    BY Statuses DEF Frame, Transactions
  <2>3. call' = [call EXCEPT ![c] = g]
    BY <1>1, <2>1 DEF BoardInv
  <2> HIDE DEF g
  <2>4. /\ call' \in [Callers -> Frame] /\ call'[c] = g
        /\ \A d \in Callers : d # c => call'[d] = call[d]
    BY <2>2, <2>3 DEF BoardInv
  <2>5. g.task = t /\ g.n = n /\ n \in 1 .. Len(steps'[t])
    BY <1>2, <1>4, <1>7, <1>8, <2>1, <2>2 DEF T
  <2>6. Carries(g, steps')
    BY <2>2, <2>5, Statuses DEF Carries, OnAStep, Transactions
  <2> QED
    BY <2>4, <2>6
<1> QED
  BY <1>4, <1>5, <1>7, <1>11, <1>12, <1>13, TaskChanged

(* What Record writes of an outcome.                                        *)
EvidenceOf(outcome) == IF outcome = "throws" THEN <<>> ELSE Append(<<>>, Passed(outcome))
LEMMA EvidenceWritten ==
    ASSUME NEW outcome
    PROVE  /\ EvidenceOf(outcome) \in Seq(BOOLEAN)
           /\ Passed(outcome) => EvidenceOf(outcome) = <<TRUE>>
           /\ ~Passed(outcome) => EvidenceOf(outcome) \in {<<>>, <<FALSE>>}
<1>1. Append(<<>>, TRUE) = <<TRUE>> /\ Append(<<>>, FALSE) = <<FALSE>>
  OBVIOUS
<1>2. CASE outcome = "throws"
  BY <1>2 DEF EvidenceOf, Passed
<1>3. CASE outcome = "clean"
  <2>1. EvidenceOf(outcome) = <<TRUE>> /\ Passed(outcome)
    BY <1>1, <1>3 DEF EvidenceOf, Passed
  <2> QED
    BY <2>1
<1>4. CASE outcome # "throws" /\ outcome # "clean"
  <2>1. EvidenceOf(outcome) = <<FALSE>> /\ ~Passed(outcome)
    BY <1>1, <1>4 DEF EvidenceOf, Passed
  <2> QED
    BY <2>1
<1> QED
  BY <1>2, <1>3, <1>4

LEMMA RecordSteps ==
    ASSUME BoardInv, NEW c \in Callers, NEW outcome \in Outcomes, Record(c, outcome)
    PROVE  BoardInv'
<1> DEFINE to == Result(outcome)
<1>1. call[c].pc = "running" /\ Leave(c) /\ TransitionTask(T(c), "executing", to)
  BY DEF Record
<1>2. PICK t \in Tasks, n \in Nat : t = T(c) /\ n = call[c].n /\ n \in 1 .. Len(steps[t])
  BY <1>1, AtHand DEF OnAStep, Transactions, Frame
<1>3. PICK s \in Seq(Step) : s = steps[t]
  BY DEF BoardInv
<1>4. to \in {"completed", "failed"} /\ to \in TaskStatus /\ to \in StepStatus /\ "executing" \in TaskStatus
  BY Statuses DEF Result
<1> DEFINE x == Recorded(s[n], outcome)
           s2 == [s EXCEPT ![n] = x]
<1>5. n \in 1 .. Len(s) /\ s[n] \in Step /\ s[n].status = "executing" /\ steps' = [steps EXCEPT ![t] = s2]
  <2>1. n \in 1 .. Len(s) /\ s[n].status = "executing"
    BY <1>2, <1>3 DEF Record, Mine
  <2>2. s[n] \in Step
    BY <2>1
  <2>3. steps' = [steps EXCEPT ![t] = s2]
    BY <1>2, <1>3 DEF Record
  <2> QED
    BY <2>1, <2>2, <2>3
<1>6. /\ task' \in [Tasks -> TaskStatus \cup {"absent"}]
      /\ task[t] = "executing" /\ task'[t] = to
      /\ \A u \in Tasks : u # t => task'[u] = task[u]
      /\ Len(steps[t]) > 0
  BY <1>1, <1>2, <1>4, TaskMoved
<1>7. Sound("executing", s)
  BY <1>3, <1>6 DEF BoardInv, TaskSound
<1>8. s[n].evidence = <<>>
  <2>1. EvidenceFits(s[n])
    BY <1>5, <1>7 DEF Sound
  <2> QED
    BY <1>5, <2>1 DEF EvidenceFits
<1>9. x.status = to /\ x.action = s[n].action /\ x.evidence = EvidenceOf(outcome)
  BY <1>5, <1>8 DEF Step, EvidenceOf, Recorded
<1>10. /\ x.evidence \in Seq(BOOLEAN)
       /\ to = "completed" => x.evidence = <<TRUE>>
       /\ to = "failed" => x.evidence \in {<<>>, <<FALSE>>}
  <2> HIDE DEF x
  <2>1. CASE Passed(outcome)
    BY <1>9, <2>1, EvidenceWritten DEF Result
  <2>2. CASE ~Passed(outcome)
    BY <1>9, <2>2, EvidenceWritten DEF Result
  <2> QED
    BY <2>1, <2>2
<1>11. x \in Step
  BY <1>4, <1>5, <1>9, <1>10 DEF Step, Recorded
<1> HIDE DEF x
<1>12. EvidenceFits(x)
  BY <1>4, <1>9, <1>10 DEF EvidenceFits
<1> HIDE DEF to
<1>13. Sound(to, s2)
  BY <1>4, <1>5, <1>7, <1>9, <1>11, <1>12, StepRecorded
<1>14. s2 \in Seq(Step) /\ Len(s2) = Len(s)
  BY <1>5, <1>11
<1> HIDE DEF s2
<1>15. /\ steps' \in [Tasks -> Seq(Step)] /\ steps'[t] = s2
       /\ \A u \in Tasks : u # t => steps'[u] = steps[u]
  BY <1>5, <1>14, StepReplaced
<1>16. Len(steps'[t]) > 0 /\ Len(steps'[t]) >= Len(steps[t])
  BY <1>3, <1>6, <1>14, <1>15
<1>17. /\ call' \in [Callers -> Frame] /\ Carries(call'[c], steps')
       /\ \A d \in Callers : d # c => call'[d] = call[d]
  BY <1>1, Returned
<1> QED
  BY <1>4, <1>6, <1>13, <1>15, <1>16, <1>17, TaskChanged

LEMMA RequestSteps ==
    ASSUME BoardInv, NEW c \in Callers, NEW command \in Commands, RequestReadonly(c, command)
    PROVE  BoardInv'
<1> DEFINE pc == IF Runnable(command) THEN "allowed" ELSE "barred"
           g == [Idle EXCEPT !.pc = pc]
<1>1. g \in Frame /\ g.pc = pc /\ pc \in {"allowed", "barred"}
  BY DEF Idle, Frame
<1>2. call' = [call EXCEPT ![c] = g] /\ UNCHANGED <<task, steps>>
  BY DEF RequestReadonly
<1> HIDE DEF pc, g
<1>3. /\ call' \in [Callers -> Frame] /\ call'[c] = g
      /\ \A d \in Callers : d # c => call'[d] = call[d]
  BY <1>1, <1>2 DEF BoardInv
<1>4. Carries(g, steps)
  BY <1>1 DEF Carries, OnAStep, Transactions
<1> QED
  BY <1>2, <1>3, <1>4, CallChanged

-------------------------------------------------------------------------------
LEMMA BoardInit == Init => BoardInv
<1> SUFFICES ASSUME Init PROVE BoardInv
  OBVIOUS
<1>1. /\ task \in [Tasks -> {"absent"}] /\ steps = [t \in Tasks |-> <<>>] /\ call = [c \in Callers |-> Idle]
  BY DEF Init
<1>2. <<>> \in Seq(Step) /\ Len(<<>>) = 0
  OBVIOUS
<1>3. \A t \in Tasks : steps[t] = <<>> /\ task[t] = "absent"
  BY <1>1
<1>4. Sound("absent", <<>>)
  BY <1>2 DEF Sound, Tally
<1>5. Idle \in Frame /\ Carries(Idle, steps)
  BY DEF Idle, Frame, Carries, OnAStep, Transactions
<1> QED
  BY <1>1, <1>2, <1>3, <1>4, <1>5 DEF BoardInv, TaskSound

LEMMA BoardNext == BoardInv /\ [Next]_vars => BoardInv'
<1> SUFFICES ASSUME BoardInv, [Next]_vars PROVE BoardInv'
  OBVIOUS
<1>1. CASE UNCHANGED vars
  BY <1>1 DEF vars, BoardInv, TaskSound
<1>2. ASSUME NEW c \in Callers, \E t \in Tasks, action \in Actions : CreateTask(c, t, action)
      PROVE  BoardInv'
  BY <1>2, CreateSteps
<1>3. ASSUME NEW c \in Callers, Ask(c) PROVE BoardInv'
  BY <1>3, AskSteps
<1>4. ASSUME NEW c \in Callers, CancelTask(c) \/ RetryTask(c) PROVE BoardInv'
  BY <1>4, CancelSteps, RetrySteps
<1>5. ASSUME NEW c \in Callers, ApproveStep(c) \/ RejectStep(c) PROVE BoardInv'
  BY <1>5, DecideSteps DEF ApproveStep, RejectStep
<1>6. ASSUME NEW c \in Callers, ReadApproved(c) \/ ClaimStep(c) PROVE BoardInv'
  BY <1>6, ReadSteps, ClaimSteps
<1>7. ASSUME NEW c \in Callers, \E outcome \in Outcomes : Record(c, outcome) PROVE BoardInv'
  BY <1>7, RecordSteps
<1>8. ASSUME NEW c \in Callers,
             \/ Refused(c) \/ AuditFails(c) \/ StoreReadonly(c) \/ (Crash /\ Leave(c))
      PROVE  BoardInv'
  BY <1>8, Gone DEF Refused, AuditFails, StoreReadonly, Crash
<1>9. CASE AttachToTask \/ \E c \in Callers, t \in Tasks : CreationFails(c, t)
  BY <1>9 DEF AttachToTask, CreationFails, BoardInv, TaskSound
<1>10. ASSUME NEW c \in Callers, \E command \in Commands : RequestReadonly(c, command) PROVE BoardInv'
  BY <1>10, RequestSteps
<1>11. CASE Crash
  BY <1>11, <1>8 DEF Crash
<1> QED
  BY <1>1, <1>2, <1>3, <1>4, <1>5, <1>6, <1>7, <1>8, <1>9, <1>10, <1>11 DEF Next

(* What a task's status says of its steps, counted.                          *)
LEMMA Counted ==
    ASSUME NEW t \in Tasks, NEW status \in {"executing", "completed"},
           Tally(steps[t], status, task[t]), steps[t] \in Seq(Step)
    PROVE  Cardinality(With(t, status)) = IF task[t] = status THEN 1 ELSE 0
<1>1. With(t, status) = {m \in 1 .. Len(steps[t]) : steps[t][m].status = status}
  BY DEF With
<1>2. CASE task[t] = status
  <2>1. PICK n \in 1 .. Len(steps[t]) : \A m \in 1 .. Len(steps[t]) : steps[t][m].status = status <=> m = n
    BY <1>2 DEF Tally
  <2>2. With(t, status) = {n}
    BY <1>1, <2>1
  <2> QED
    BY <1>2, <2>2, FS_Singleton
<1>3. CASE task[t] # status
  <2>1. With(t, status) = {}
    BY <1>1, <1>3 DEF Tally
  <2> QED
    BY <1>3, <2>1, FS_EmptySet
<1> QED
  BY <1>2, <1>3

LEMMA BoardEvidenced == BoardInv => WorkIsEvidenced
<1> SUFFICES ASSUME BoardInv, NEW t \in Tasks
    PROVE  /\ Cardinality(With(t, "executing")) = IF task[t] = "executing" THEN 1 ELSE 0
           /\ Cardinality(With(t, "completed")) = IF task[t] = "completed" THEN 1 ELSE 0
           /\ \A n \in DOMAIN steps[t] : /\ Len(steps[t][n].evidence) <= 1
                                         /\ n \in With(t, "completed") <=> steps[t][n].evidence = <<TRUE>>
  BY DEF WorkIsEvidenced
<1>1. Sound(task[t], steps[t]) /\ steps[t] \in Seq(Step)
  BY DEF BoardInv, TaskSound
<1>2. /\ Cardinality(With(t, "executing")) = IF task[t] = "executing" THEN 1 ELSE 0
      /\ Cardinality(With(t, "completed")) = IF task[t] = "completed" THEN 1 ELSE 0
  BY <1>1, Counted DEF Sound
<1>3. ASSUME NEW n \in DOMAIN steps[t]
      PROVE  /\ Len(steps[t][n].evidence) <= 1
             /\ n \in With(t, "completed") <=> steps[t][n].evidence = <<TRUE>>
  <2>1. EvidenceFits(steps[t][n])
    BY <1>1, <1>3 DEF Sound
  <2>2. Len(<<>>) = 0 /\ Len(<<TRUE>>) = 1 /\ Len(<<FALSE>>) = 1
    OBVIOUS
  <2>3. <<>> # <<TRUE>> /\ <<TRUE>> # <<FALSE>>
    <3>1. <<FALSE>>[1] # <<TRUE>>[1]
      OBVIOUS
    <3> QED
      BY <2>2, <3>1
  <2>4. n \in With(t, "completed") <=> steps[t][n].status = "completed"
    BY <1>3 DEF With
  <2>5. CASE steps[t][n].status = "completed"
    <3>1. steps[t][n].evidence = <<TRUE>>
      BY <2>1, <2>5 DEF EvidenceFits
    <3>2. Len(steps[t][n].evidence) = Len(<<TRUE>>)
      BY <3>1, Zenon
    <3>3. Len(steps[t][n].evidence) <= 1
      BY <2>2, <3>2
    <3> QED
      BY <2>4, <2>5, <3>1, <3>3, Zenon
  <2>6. CASE steps[t][n].status # "completed"
    <3>1. steps[t][n].evidence = <<>> \/ steps[t][n].evidence = <<FALSE>>
      BY <2>1, <2>6 DEF EvidenceFits
    <3>2. Len(steps[t][n].evidence) = Len(<<>>) \/ Len(steps[t][n].evidence) = Len(<<FALSE>>)
      BY <3>1, Zenon
    <3>3. Len(steps[t][n].evidence) <= 1
      <4>1. PICK k \in {0, 1} : Len(steps[t][n].evidence) = k
        BY <2>2, <3>2, Zenon
      <4>2. k <= 1
        OBVIOUS
      <4> QED
        BY <4>1, <4>2, Zenon
    <3>4. steps[t][n].evidence # <<TRUE>>
      BY <2>3, <3>1
    <3> QED
      BY <2>4, <2>6, <3>3, <3>4, Zenon
  <2> QED
    BY <2>5, <2>6
<1> QED
  BY <1>2, <1>3

(* WorkIsEvidenced holds of the task board (operatorService.ts) for any      *)
(* tasks, callers in any number of processes, actions, outcomes and crashes: *)
(* a task executes or is completed exactly with one of its steps, and on     *)
(* evidence that passed.                                                     *)
THEOREM WorkCorrect == Spec => []WorkIsEvidenced
<1>1. Spec => []BoardInv
  BY BoardInit, BoardNext, PTL DEF Spec
<1> QED
  BY <1>1, BoardEvidenced, PTL

-------------------------------------------------------------------------------
(* The board's closed value sets, and the bound on what is attached.         *)
LEMMA AttachedSteps ==
    ASSUME BoardAssumption, IsFiniteSet(attached), Cardinality(attached) <= MaxAttached, troubles \in 0..MaxTroubles,
           [Next]_vars
    PROVE  IsFiniteSet(attached') /\ Cardinality(attached') <= MaxAttached /\ troubles' \in 0..MaxTroubles
<1>0. Cardinality(attached) \in Nat /\ {MaxAttached, MaxTroubles} \subseteq Nat
  BY FS_CardinalityType DEF BoardAssumption
<1>1. ASSUME NEW t, NEW kind, NEW verdict, Attach(t, kind, verdict)
      PROVE  IsFiniteSet(attached') /\ Cardinality(attached') <= MaxAttached
  <2>1. IsFiniteSet(attached') /\ Cardinality(attached') \in {Cardinality(attached), Cardinality(attached) + 1}
    BY <1>1, FS_AddElement DEF Attach
  <2> QED
    BY <1>0, <1>1, <2>1 DEF Attach
<1>2. CASE AttachToTask
  BY <1>1, <1>2 DEF AttachToTask
<1>3. ASSUME NEW c \in Callers, StoreReadonly(c)
      PROVE  IsFiniteSet(attached') /\ Cardinality(attached') <= MaxAttached /\ troubles' \in 0..MaxTroubles
  BY <1>1, <1>3 DEF StoreReadonly
<1>4. CASE UNCHANGED <<attached, troubles>>
  BY <1>4
<1>5. ASSUME UNCHANGED attached, troubles < MaxTroubles, troubles' = troubles + 1
      PROVE  IsFiniteSet(attached') /\ Cardinality(attached') <= MaxAttached /\ troubles' \in 0..MaxTroubles
  BY <1>0, <1>5
<1>6. ASSUME NEW c \in Callers,
             \/ \E t \in Tasks, action \in Actions : CreateTask(c, t, action)
             \/ Ask(c) \/ CancelTask(c) \/ RetryTask(c) \/ ApproveStep(c) \/ RejectStep(c)
             \/ ReadApproved(c) \/ ClaimStep(c) \/ \E outcome \in Outcomes : Record(c, outcome)
             \/ Refused(c) \/ \E command \in Commands : RequestReadonly(c, command)
      PROVE  UNCHANGED <<attached, troubles>>
  BY <1>6 DEF CreateTask, Ask, Begin, CancelTask, RetryTask, ApproveStep, RejectStep, Decide, ReadApproved, ClaimStep,
              Record, Refused, RequestReadonly
<1>7. ASSUME NEW c \in Callers, AuditFails(c) \/ \E t \in Tasks : CreationFails(c, t)
      PROVE  UNCHANGED attached /\ troubles < MaxTroubles /\ troubles' = troubles + 1
  BY <1>7 DEF AuditFails, CreationFails
<1>8. CASE Crash
  BY <1>5, <1>8 DEF Crash
<1>9. CASE UNCHANGED vars
  BY <1>4, <1>9 DEF vars
<1>10. CASE AttachToTask
  BY <1>2, <1>10 DEF AttachToTask
<1> QED
  BY <1>3, <1>4, <1>5, <1>6, <1>7, <1>8, <1>9, <1>10 DEF Next

(* Tasks, steps and what is attached keep to the columns' closed value sets, *)
(* and no more is attached than the bound (db/schema.ts).                    *)
THEOREM BoardTypes == ASSUME BoardAssumption PROVE Spec => []TypeOK
<1> DEFINE Within == IsFiniteSet(attached) /\ Cardinality(attached) <= MaxAttached /\ troubles \in 0..MaxTroubles
<1>1. Init => Within
  BY FS_EmptySet DEF Init, BoardAssumption
<1>2. Within /\ [Next]_vars => Within'
  BY AttachedSteps
<1>3. BoardInv /\ Within => TypeOK
  <2> SUFFICES ASSUME BoardInv, Within PROVE TypeOK
    OBVIOUS
  <2>1. ASSUME NEW t \in Tasks PROVE task[t] \in DOMAIN TaskNext \cup {"absent"}
    BY <2>1 DEF BoardInv, TaskStatus
  <2>2. ASSUME NEW t \in Tasks, NEW n \in DOMAIN steps[t]
        PROVE  steps[t][n].status \in DOMAIN StepNext /\ steps[t][n].evidence \in Seq(BOOLEAN)
    <3>1. steps[t] \in Seq(Step)
      BY <2>2 DEF BoardInv
    <3>2. steps[t][n] \in Step
      <4> HIDE DEF Step
      <4> QED
        BY <2>2, <3>1
    <3>3. DOMAIN StepNext = StepStatus
      BY DEF StepStatus
    <3> HIDE DEF StepStatus, StepNext
    <3> QED
      BY <3>2, <3>3 DEF Step
  <2> QED
    BY <2>1, <2>2 DEF TypeOK
<1>4. Spec => []BoardInv
  BY BoardInit, BoardNext, PTL DEF Spec
<1> HIDE DEF Within
<1> QED
  BY <1>1, <1>2, <1>3, <1>4, PTL DEF Spec
================================================================================
