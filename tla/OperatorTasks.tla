----------------------------- MODULE OperatorTasks -----------------------------
(***************************************************************************)
(* The task board (services/operatorService.ts): tasks, their steps, the   *)
(* approval gate, the mock runner, what people attach to a task, the       *)
(* read-only command runner, and the integrity report over the database    *)
(* and the audit file.                                                     *)
(*                                                                         *)
(* Each method reads, then writes in one BEGIN IMMEDIATE transaction whose *)
(* updates name the status they were read with; callers are processes on   *)
(* one database.  Audit lines are appended inside the transaction but to a *)
(* file, so they stay when it is rolled back.                              *)
(***************************************************************************)
EXTENDS Naturals, Sequences, FiniteSets

CONSTANTS Tasks,        \* ids of tasks that may be created
          Actions,      \* action types asked for
          Callers,
          Outcomes,     \* what the runner does with a step
          Reports,      \* texts of commit reviews: what they report
          Commands,     \* commands previewed or run, each with its class
          MaxSteps, MaxAttached, MaxTroubles

BoardAssumption == {MaxSteps, MaxAttached, MaxTroubles} \subseteq Nat

VARIABLES task,     \* task_intents.status
          steps,    \* execution_steps of a task, with the evidence of each
          attached, \* validation evidence, reviews, previews and command results
          audit,    \* the tasks and steps the audit file refers to
          call, troubles

vars == <<task, steps, attached, audit, call, troubles>>

Idle == [pc |-> "idle", task |-> "none", n |-> 0, was |-> "none", stepWas |-> "none", action |-> "none"]
Init == /\ task = [t \in Tasks |-> "absent"] /\ steps = [t \in Tasks |-> <<>>]
        /\ attached = {} /\ audit = {} /\ call = [c \in Callers |-> Idle] /\ troubles = 0

RequiresApproval(action) == action \notin {"analysis", "read_file"}
TaskNext ==
  [pending |-> {"queued", "awaiting_approval", "cancelled"}, queued |-> {"executing", "cancelled"},
   awaiting_approval |-> {"queued", "rejected", "cancelled"}, executing |-> {"completed", "failed"},
   completed |-> {}, failed |-> {"queued", "awaiting_approval"},
   rejected |-> {"queued", "awaiting_approval"}, cancelled |-> {"queued", "awaiting_approval"}]
StepNext ==
  [pending_approval |-> {"approved", "rejected"}, approved |-> {"executing"},
   executing |-> {"completed", "failed"}, completed |-> {}, failed |-> {}, rejected |-> {}]

NewStep(action) ==
  [status |-> IF RequiresApproval(action) THEN "pending_approval" ELSE "approved",
   action |-> action, evidence |-> <<>>]
Opened(action) == IF RequiresApproval(action) THEN "awaiting_approval" ELSE "queued"

With(t, status) == {n \in DOMAIN steps[t] : steps[t][n].status = status}
T(c) == call[c].task
Mine(c) == steps[T(c)][call[c].n]
Go(c, pc) == call' = [call EXCEPT ![c].pc = pc]
Leave(c) == call' = [call EXCEPT ![c] = Idle]
(* A step without approval is executed right after it is stored.            *)
ExecuteUnlessGated(c) == IF RequiresApproval(call[c].action) THEN Leave(c) ELSE Go(c, "execute")

Log(refs) == audit' = audit \cup refs
OnTask(t) == [task |-> t, step |-> 0]
OnStep(t, n) == [task |-> t, step |-> n]

-------------------------------------------------------------------------------
(* The updates of a transaction hit only rows still as they were read.      *)

TransitionTaskBlindly(t, was, to) ==         \* seeded fault: WHERE id = ? alone
  to \in TaskNext[was] /\ task' = [task EXCEPT ![t] = to]
TransitionTask(t, was, to) ==
  /\ to \in TaskNext[was] /\ task[t] = was /\ task' = [task EXCEPT ![t] = to]
Restatus(t, n, to) == steps' = [steps EXCEPT ![t][n].status = to]
TransitionStep(t, n, was, to) ==
  /\ to \in StepNext[was] /\ steps[t][n].status = was /\ Restatus(t, n, to)

CreateTask(c, t, action) ==
  /\ call[c] = Idle /\ task[t] = "absent"
  /\ task' = [task EXCEPT ![t] = Opened(action)]
  /\ steps' = [steps EXCEPT ![t] = <<NewStep(action)>>]
  /\ Log({OnTask(t), OnStep(t, 1)})
  /\ call' = [call EXCEPT ![c] =
       IF RequiresApproval(action) THEN Idle ELSE [Idle EXCEPT !.pc = "execute", !.task = t, !.n = 1]]
  /\ UNCHANGED <<attached, troubles>>

(* What a method reads and refuses before its transaction.                  *)
Cancellable == {"pending", "queued", "awaiting_approval"}
Retryable == {"failed", "rejected", "cancelled"}
Begin(c, t, pc, n) ==
  /\ call' = [call EXCEPT ![c] =
       [pc |-> pc, task |-> t, n |-> n, was |-> task[t], action |-> steps[t][Len(steps[t])].action,
        stepWas |-> IF n \in DOMAIN steps[t] THEN steps[t][n].status ELSE "none"]]
  /\ UNCHANGED <<task, steps, attached, audit, troubles>>
PendingStep(t) == IF With(t, "pending_approval") = {} THEN 0 ELSE Len(steps[t])
Ask(c) ==
  /\ call[c] = Idle
  /\ \E t \in Tasks :
       \/ task[t] \in Cancellable /\ Begin(c, t, "cancel", PendingStep(t))
       \/ task[t] \in Retryable /\ Len(steps[t]) < MaxSteps /\ Begin(c, t, "retry", Len(steps[t]) + 1)
       \/ \E n \in DOMAIN steps[t], decision \in {"approve", "reject"} :
            /\ task[t] = "awaiting_approval" /\ steps[t][n].status = "pending_approval"
            /\ Begin(c, t, decision, n)

(* cancelTask also rejects the step it read as pending, always the last.    *)
CancelTask(c) ==
  /\ call[c].pc = "cancel" /\ TransitionTask(T(c), call[c].was, "cancelled")
  /\ IF call[c].n = 0 THEN UNCHANGED steps
     ELSE TransitionStep(T(c), call[c].n, "pending_approval", "rejected")
  /\ Log({OnTask(T(c))}) /\ Leave(c) /\ UNCHANGED <<attached, troubles>>

(* retryTask appends the step number it counted; a pair (task, number) is   *)
(* unique.                                                                  *)
RetryTask(c) ==
  /\ call[c].pc = "retry" /\ TransitionTask(T(c), call[c].was, Opened(call[c].action))
  /\ call[c].n = Len(steps[T(c)]) + 1
  /\ steps' = [steps EXCEPT ![T(c)] = Append(@, NewStep(call[c].action))]
  /\ Log({OnStep(T(c), call[c].n)}) /\ ExecuteUnlessGated(c) /\ UNCHANGED <<attached, troubles>>

Decide(c, pc, stepTo, taskTo) ==
  /\ call[c].pc = pc
  /\ TransitionStep(T(c), call[c].n, call[c].stepWas, stepTo) /\ TransitionTask(T(c), call[c].was, taskTo)
  /\ Log({OnStep(T(c), call[c].n)}) /\ UNCHANGED <<attached, troubles>>
ApproveStep(c) == Decide(c, "approve", "approved", "queued") /\ Go(c, "execute")
RejectStep(c) == Decide(c, "reject", "rejected", "rejected") /\ Leave(c)

-------------------------------------------------------------------------------
(* executeApprovedStep: read, claim, run, record.                           *)

ReadApproved(c) ==
  /\ call[c].pc = "execute"
  /\ IF task[T(c)] = "queued" /\ Mine(c).status = "approved"
     THEN call' = [call EXCEPT ![c].pc = "claim", ![c].was = "queued", ![c].stepWas = "approved"]
     ELSE Leave(c)
  /\ UNCHANGED <<task, steps, attached, audit, troubles>>
ClaimStep(c) ==
  /\ call[c].pc = "claim"
  /\ TransitionStep(T(c), call[c].n, "approved", "executing") /\ TransitionTask(T(c), "queued", "executing")
  /\ Log({OnStep(T(c), call[c].n)})
  /\ call' = [call EXCEPT ![c].pc = "running", ![c].was = "executing", ![c].stepWas = "executing"]
  /\ UNCHANGED <<attached, troubles>>

(* validateRunnerResult passes only an exit code 0 without error output.    *)
Passed(outcome) == outcome = "clean"
Result(outcome) == IF Passed(outcome) THEN "completed" ELSE "failed"
Recorded(step, outcome) ==
  [step EXCEPT !.status = Result(outcome),
               !.evidence = IF outcome = "throws" THEN @ ELSE Append(@, Passed(outcome))]
Record(c, outcome) ==
  /\ call[c].pc = "running" /\ Mine(c).status = "executing"
  /\ TransitionTask(T(c), "executing", Result(outcome))
  /\ steps' = [steps EXCEPT ![T(c)][call[c].n] = Recorded(@, outcome)]
  /\ Log({OnStep(T(c), call[c].n)}) /\ Leave(c) /\ UNCHANGED <<attached, troubles>>

(* A transaction that finds a row changed is refused as a whole.  One that  *)
(* fails after an audit line, at the next line or at COMMIT, is rolled      *)
(* back, but the line stays.                                                *)
Transactions == {"cancel", "retry", "approve", "reject", "claim", "running"}
Stale(c) ==
  \/ task[T(c)] # call[c].was
  \/ call[c].n \in DOMAIN steps[T(c)] /\ (call[c].pc = "retry" \/ Mine(c).status # call[c].stepWas)
Refused(c) == /\ call[c].pc \in Transactions /\ Stale(c) /\ Leave(c)
              /\ UNCHANGED <<task, steps, attached, audit, troubles>>
AuditFails(c) ==
  /\ troubles < MaxTroubles /\ troubles' = troubles + 1
  /\ call[c].pc \in Transactions /\ ~Stale(c)
  /\ Log({OnStep(T(c), call[c].n)}) /\ Leave(c) /\ UNCHANGED <<task, steps, attached>>
CreationFails(c, t) ==
  /\ troubles < MaxTroubles /\ troubles' = troubles + 1
  /\ call[c] = Idle /\ task[t] = "absent" /\ Log({OnTask(t)})
  /\ UNCHANGED <<task, steps, attached, call>>
Crash == /\ troubles < MaxTroubles /\ troubles' = troubles + 1
         /\ \E c \in Callers : call[c] # Idle /\ Leave(c)
         /\ UNCHANGED <<task, steps, attached, audit>>

-------------------------------------------------------------------------------
(* What is attached: pasted validation, a review judged by what it reports, *)
(* a command judged by the policy, a read-only command that was run.        *)

Gates == {"typecheck", "tests", "build", "diff"}
ClassifyVerdict(report) ==
  IF report.blocked THEN "blocked"
  ELSE IF report.doubtful \/ ~(Gates \subseteq report.passing) THEN "needs_review" ELSE "safe_to_review"
ClassifyRunnerPolicy(command) ==
  IF command.allowlisted THEN "allowed_readonly"
  ELSE IF command.validation THEN "requires_approval" ELSE "blocked"
(* The real runner: no metacharacters, then the same five commands, in a    *)
(* workspace that is there.                                                 *)
Runnable(command) == command.allowlisted /\ ~command.metacharacters /\ command.workspace

Attach(t, kind, verdict) ==
  /\ Cardinality(attached) < MaxAttached
  /\ attached' = attached \cup {[task |-> t, kind |-> kind, verdict |-> verdict]}
AttachToTask ==
  \E t \in Tasks :
    /\ task[t] # "absent" /\ Log({OnTask(t)}) /\ UNCHANGED <<task, steps, call, troubles>>
    /\ \/ \E status \in {"passed", "failed"} : Attach(t, "validation", status)
       \/ \E report \in Reports : Attach(t, "review", ClassifyVerdict(report))
       \/ \E command \in Commands : Attach(t, "preview", ClassifyRunnerPolicy(command))

(* The request is on the audit file, under a name that is no task's, before *)
(* the command runs.                                                        *)
RequestReadonly(c, command) ==
  /\ call[c] = Idle /\ Log({OnTask("p1-runner")})
  /\ call' = [call EXCEPT ![c] = [Idle EXCEPT !.pc = IF Runnable(command) THEN "allowed" ELSE "barred"]]
  /\ UNCHANGED <<task, steps, attached, troubles>>
StoreReadonly(c) ==
  /\ call[c].pc \in {"allowed", "barred"} /\ Leave(c)
  /\ \E done \in {"0", "1", "none"} :
       /\ call[c].pc = "barred" => done = "none"
       /\ Attach("p1-runner", IF call[c].pc = "allowed" THEN "allowed_readonly" ELSE "blocked", done)
  /\ UNCHANGED <<task, steps, audit, troubles>>

-------------------------------------------------------------------------------
Next ==
  \/ \E c \in Callers :
       \/ \E t \in Tasks, action \in Actions : CreateTask(c, t, action)
       \/ Ask(c) \/ CancelTask(c) \/ RetryTask(c) \/ ApproveStep(c) \/ RejectStep(c)
       \/ ReadApproved(c) \/ ClaimStep(c) \/ \E outcome \in Outcomes : Record(c, outcome)
       \/ Refused(c) \/ AuditFails(c) \/ \E t \in Tasks : CreationFails(c, t)
       \/ \E command \in Commands : RequestReadonly(c, command)
       \/ StoreReadonly(c)
  \/ AttachToTask \/ Crash

Spec == Init /\ [][Next]_vars
-------------------------------------------------------------------------------
(* The columns' closed value sets (db/schema.ts).                           *)
TypeOK ==
  /\ \A t \in Tasks : /\ task[t] \in DOMAIN TaskNext \cup {"absent"}
                      /\ \A n \in DOMAIN steps[t] : /\ steps[t][n].status \in DOMAIN StepNext
                                                    /\ steps[t][n].evidence \in Seq(BOOLEAN)
  /\ Cardinality(attached) <= MaxAttached /\ troubles \in 0..MaxTroubles

(* Work is done once and told truthfully, whoever decides, cancels or       *)
(* retries at the same time: a task executes exactly while one of its steps *)
(* does; it is completed exactly when one step is; and a step is completed  *)
(* exactly on one piece of evidence that passed, whatever was rolled back.  *)
WorkIsEvidenced ==
  \A t \in Tasks :
    /\ Cardinality(With(t, "executing")) = IF task[t] = "executing" THEN 1 ELSE 0
    /\ Cardinality(With(t, "completed")) = IF task[t] = "completed" THEN 1 ELSE 0
    /\ \A n \in DOMAIN steps[t] : /\ Len(steps[t][n].evidence) <= 1
                                  /\ n \in With(t, "completed") <=> steps[t][n].evidence = <<TRUE>>
=================================================================================
