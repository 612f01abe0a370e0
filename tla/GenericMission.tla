----------------------------- MODULE GenericMission -----------------------------
(***************************************************************************)
(* One mission of the generic lane (missions/genericMissionService.ts with *)
(* its journal and ledger): approval, the dispatch to the Loop Governor    *)
(* through the Agent Runtime, reconciliation after an interruption, the    *)
(* single safe retry, and stopping.                                        *)
(*                                                                         *)
(* Requests run in one process, each to its next await; a crash may fall   *)
(* between any two transactions.  The Runtime's claim, the request on its  *)
(* way and the Governor's loop are external.  Requests, crashes and        *)
(* dispatches are bounded by the constants.                                *)
(***************************************************************************)
EXTENDS Naturals, FiniteSets

CONSTANTS Callers, Approvers, MaxDispatches, MaxCrashes

None == "none"

GenericAssumption ==
  /\ MaxDispatches \in Nat /\ MaxCrashes \in Nat
  /\ Approvers # {} /\ None \notin Approvers

VARIABLES row,      \* operator_missions
          exec,     \* operator_mission_executions
          ledger,   \* the run's latest ledger status
          proc,     \* requests in flight
          claim,    \* the Runtime's execution claim
          loop,     \* the Governor's truth: none, task (partial) or loop
          wire,     \* dispatches the Governor has yet to see
          sent,     \* dispatches so far
          crashes

vars == <<row, exec, ledger, proc, claim, loop, wire, sent, crashes>>
durable == <<row, exec, ledger>>
external == <<claim, loop, wire, sent>>

-------------------------------------------------------------------------------
Next0 ==
  [absent |-> {}, approval_required |-> {"approved", "failed_terminal"},
   approved |-> {"execution_started", "failed_terminal"},
   execution_started |-> {"downstream_request_prepared", "failed_recoverable", "failed_terminal"},
   downstream_request_prepared |->
     {"downstream_result_observed", "failed_recoverable", "failed_terminal", "recovery_in_progress"},
   downstream_result_observed |->
     {"result_persisted", "failed_recoverable", "failed_terminal", "reconciliation_required",
      "recovery_in_progress"},
   result_persisted |-> {"completed"}, completed |-> {"completed"},
   failed_recoverable |-> {"recovery_in_progress", "failed_terminal"},
   recovery_in_progress |->
     {"downstream_request_prepared", "downstream_result_observed", "failed_recoverable",
      "failed_terminal", "reconciliation_required"},
   reconciliation_required |-> {"failed_terminal"}, failed_terminal |-> {}]
Final == {"completed", "failed_terminal"}

(* Seeded fault: a claimed recovery offers nothing.                         *)
PermittedOnce(e) ==
  CASE e.state = "approved" -> {"resume", "stop"}
    [] e.state \in {"execution_started", "downstream_request_prepared"} -> {"reconcile", "stop"}
    [] e.state \in {"downstream_result_observed", "result_persisted"} -> {"resume"}
    [] e.state = "failed_recoverable" -> {"reconcile", "stop"}
    [] OTHER -> {}
Permitted(e) ==
  CASE e.state = "approved" -> {"resume", "stop"}
    [] e.state \in {"execution_started", "downstream_request_prepared"} -> {"reconcile", "stop"}
    [] e.state \in {"downstream_result_observed", "result_persisted"} -> {"resume"}
    [] e.state = "failed_recoverable" ->
         {"reconcile", "stop"} \cup
         IF e.outcome \in {"not_found", "incomplete"} /\ e.retry = 0 THEN {"resume"} ELSE {}
    [] e.state = "reconciliation_required" -> {"stop"}
    [] e.state = "recovery_in_progress" -> {"reconcile"}
    [] OTHER -> {}

Idle == [pc |-> "idle", op |-> None, by |-> None, number |-> 0, kind |-> None]
SyncPoints == {"start", "prepare", "persist", "complete"}
Live(c) == proc[c].pc # "idle"
Turn(c) == \A d \in Callers \ {c} : proc[d].pc \notin SyncPoints
Goto(c, pc) == proc' = [proc EXCEPT ![c].pc = pc]
Return(c) == proc' = [proc EXCEPT ![c] = Idle]

(* One transition of the journal, or two in one transaction.                *)
Reaches(from, via, to) == IF via = None THEN to \in Next0[from] ELSE via \in Next0[from] /\ to \in Next0[via]
Journal(e, via) == Reaches(exec.state, via, e.state) /\ exec' = e
Ledger(status) == ledger' = status
(* prepareMissionRowForRecovery                                             *)
RowExecuting == row' = [row EXCEPT !.status = "executing", !.result = None]

Init ==
  /\ row = [status |-> "absent", by |-> None, result |-> None]
  /\ exec = [state |-> "absent", retry |-> 0, outcome |-> "not_started", ids |-> FALSE, seen |-> None]
  /\ ledger = None
  /\ proc = [c \in Callers |-> Idle]
  /\ claim = None /\ loop = "none" /\ wire = {} /\ sent = 0 /\ crashes = 0

-------------------------------------------------------------------------------
(* createMissionFromEnvelope; a replay finds the row and changes nothing.   *)
CreateMission ==
  /\ row.status = "absent"
  /\ row' = [row EXCEPT !.status = "approval_required"]
  /\ exec' = [exec EXCEPT !.state = "approval_required"]
  /\ Ledger("approval_required")
  /\ UNCHANGED <<proc, external, crashes>>

Approve(c, by) ==
  /\ ~Live(c) /\ Turn(c)
  /\ row.status = "approval_required" /\ row.result = None
  /\ row' = [row EXCEPT !.status = "executing", !.by = by]
  /\ Journal([exec EXCEPT !.state = "approved"], None) /\ Ledger("approved")
  /\ proc' = [proc EXCEPT ![c] = [Idle EXCEPT !.pc = "start", !.op = "approve", !.by = by]]
  /\ UNCHANGED <<external, crashes>>

StartExecution(c) ==
  /\ proc[c].pc = "start"
  /\ Journal([exec EXCEPT !.state = "execution_started"], None) /\ Ledger("running")
  /\ Goto(c, "prepare")
  /\ UNCHANGED <<row, external, crashes>>

PrepareRequest(c) ==
  /\ proc[c].pc = "prepare"
  /\ Journal([exec EXCEPT !.state = "downstream_request_prepared"], None)
  /\ Goto(c, "authority")
  /\ UNCHANGED <<row, ledger, external, crashes>>

-------------------------------------------------------------------------------
(* executePreparedMission: the approval authority, then the Runtime.        *)

PrepareApproval(c) ==
  /\ proc[c].pc = "authority" /\ Turn(c)
  /\ Goto(c, "execute")
  /\ UNCHANGED <<durable, external, crashes>>

Dispatch(c) ==
  /\ proc[c].pc = "execute" /\ claim = None /\ sent < MaxDispatches
  /\ claim' = "held" /\ sent' = sent + 1 /\ wire' = wire \cup {sent + 1}
  /\ proc' = [proc EXCEPT ![c] = [@ EXCEPT !.pc = "sent", !.number = sent + 1]]
  /\ UNCHANGED <<durable, loop, crashes>>

(* The Governor completes a task into a loop; an interrupted create leaves  *)
(* the task.  Creating again is harmless.                                   *)
GovernorCreates(d) ==
  /\ d \in wire /\ wire' = wire \ {d}
  /\ loop' \in IF loop = "loop" THEN {"loop"} ELSE {"task", "loop"}
  /\ UNCHANGED <<durable, proc, claim, sent, crashes>>

(* What the await can yield.  The Runtime refuses to enter under a claim    *)
(* that was never resolved, and repeats the result of one that was.         *)
Kinds(c) ==
  CASE proc[c].pc = "authority" -> {"failed"}
    [] proc[c].pc = "execute" -> {"failed", "denied"} \cup
         (IF claim = "held" THEN {"unavailable"} ELSE IF claim = "resolved" THEN {"succeeded"} ELSE {})
    [] proc[c].pc = "sent" -> {"failed", "unavailable"} \cup
         (IF proc[c].number \notin wire /\ loop = "loop" THEN {"succeeded", "unsafe"} ELSE {})
    [] OTHER -> {}
Status(kind) == IF kind = "unsafe" THEN "succeeded" ELSE kind
Resolves(c, kind) ==
  claim' = IF proc[c].pc = "sent" /\ kind \in {"succeeded", "unsafe"} /\ claim = "held"
           THEN "resolved" ELSE claim

(* Seeded fault: the ids the result carries are not verified.               *)
ObserveUnverified(c) ==
  /\ Turn(c)
  /\ \E kind \in Kinds(c) \cap {"succeeded", "unsafe"} :
       /\ Journal([exec EXCEPT !.state = "downstream_result_observed", !.ids = TRUE, !.seen = kind], None)
       /\ Ledger("validating")
       /\ Resolves(c, kind)
       /\ proc' = [proc EXCEPT ![c] = [Idle EXCEPT !.pc = "persist", !.kind = kind]]
  /\ UNCHANGED <<row, loop, wire, sent, crashes>>
(* persistRuntimeOutcome: verifiedDownstreamIds accepts only "succeeded".   *)
ObserveResult(c) ==
  /\ Turn(c) /\ "succeeded" \in Kinds(c)
  /\ Journal([exec EXCEPT !.state = "downstream_result_observed", !.ids = TRUE, !.seen = "succeeded"], None)
  /\ Ledger("validating")
  /\ Resolves(c, "succeeded")
  /\ proc' = [proc EXCEPT ![c] = [Idle EXCEPT !.pc = "persist", !.kind = "succeeded"]]
  /\ UNCHANGED <<row, loop, wire, sent, crashes>>

FailedState(kind) == IF kind \in {"unavailable", "failed"} THEN "failed_recoverable" ELSE "failed_terminal"
RecordFailure(c) ==
  /\ Turn(c) /\ row.status = "executing"
  /\ \E kind \in Kinds(c) \ {"succeeded"} :
       /\ Journal([exec EXCEPT !.state = FailedState(kind), !.seen = kind], None)
       /\ row' = [row EXCEPT !.status = Status(kind), !.result = kind]
       /\ Ledger(IF FailedState(kind) = "failed_recoverable" THEN "reconciliation_required" ELSE "failed")
       /\ Resolves(c, kind)
  /\ Return(c)
  /\ UNCHANGED <<loop, wire, sent, crashes>>

(* The mission has moved on: the answer is refused and lost.                *)
DiscardResult(c) ==
  /\ Turn(c)
  /\ \E kind \in Kinds(c) :
       /\ IF kind = "succeeded" THEN "downstream_result_observed" \notin Next0[exec.state]
          ELSE row.status # "executing" \/ FailedState(kind) \notin Next0[exec.state]
       /\ Resolves(c, kind)
  /\ Return(c)
  /\ UNCHANGED <<durable, loop, wire, sent, crashes>>

PersistResult(c) ==
  /\ proc[c].pc = "persist"
  /\ IF row.status = "executing" /\ row.result = None /\ "result_persisted" \in Next0[exec.state]
     THEN /\ row' = [row EXCEPT !.status = Status(proc[c].kind), !.result = proc[c].kind]
          /\ exec' = [exec EXCEPT !.state = "result_persisted"]
          /\ Goto(c, "complete")
     ELSE Return(c) /\ UNCHANGED <<row, exec>>
  /\ UNCHANGED <<ledger, external, crashes>>

CompleteMission(c) ==
  /\ proc[c].pc = "complete"
  /\ Journal([exec EXCEPT !.state = "completed"], None) /\ Ledger("completed")
  /\ Return(c)
  /\ UNCHANGED <<row, external, crashes>>

-------------------------------------------------------------------------------
(* reconcileMission: one transaction claims it, the Governor is asked, one  *)
(* transaction records the answer.                                          *)

CanReconcile(c) == ~Live(c) /\ Turn(c) /\ "reconcile" \in Permitted(exec) /\ row.by # None
RecoveryVia == IF exec.state = "failed_recoverable" THEN None ELSE "failed_recoverable"
Reconcile(c) ==
  /\ CanReconcile(c)
  /\ Journal([exec EXCEPT !.state = "recovery_in_progress"], RecoveryVia)
  /\ Ledger("running")
  /\ proc' = [proc EXCEPT ![c] = [Idle EXCEPT !.pc = "lookup", !.op = "reconcile"]]
  /\ UNCHANGED <<row, external, crashes>>

Lookup(c) ==
  /\ proc[c].pc = "lookup"
  /\ \E answer \in {"unavailable", "invalid", "payload_mismatch"} \cup
       {CASE loop = "loop" -> "unique" [] loop = "task" -> "incomplete" [] OTHER -> "not_found"} :
       proc' = [proc EXCEPT ![c].pc = "found", ![c].kind = answer]
  /\ UNCHANGED <<durable, external, crashes>>

LookupState(answer) ==
  CASE answer \in {"not_found", "incomplete", "unavailable"} -> "failed_recoverable"
    [] answer \in {"invalid", "payload_mismatch"} -> "failed_terminal"
    [] answer = "unique" -> "downstream_result_observed"
LookupLedger(answer) ==
  CASE LookupState(answer) = "failed_recoverable" -> "reconciliation_required"
    [] LookupState(answer) = "failed_terminal" -> "failed"
    [] OTHER -> "validating"
RecordLookup(c) ==
  LET answer == proc[c].kind IN
  /\ proc[c].pc = "found" /\ Turn(c)
  /\ IF LookupState(answer) \in Next0[exec.state]
     THEN /\ exec' = [exec EXCEPT !.state = LookupState(answer), !.outcome = answer,
                        !.ids = @ \/ answer = "unique",
                        !.seen = IF answer \in {"unique", "not_found", "incomplete"} THEN None ELSE @]
          /\ Ledger(LookupLedger(answer))
     ELSE UNCHANGED <<exec, ledger>>
  /\ Return(c)
  /\ UNCHANGED <<row, external, crashes>>

-------------------------------------------------------------------------------
(* resumeSafely.                                                            *)

CanResume(c) == ~Live(c) /\ Turn(c) /\ "resume" \in Permitted(exec) /\ row.by # None
Redispatch(c) == proc' = [proc EXCEPT ![c] = [Idle EXCEPT !.pc = "authority", !.op = "resume"]]

ResumePersisted(c) ==
  /\ CanResume(c) /\ exec.state = "result_persisted"
  /\ Journal([exec EXCEPT !.state = "completed"], None) /\ Ledger("completed")
  /\ UNCHANGED <<row, proc, external, crashes>>

ResumeObserved(c) ==
  /\ CanResume(c) /\ exec.state = "downstream_result_observed" /\ exec.seen # None
  /\ RowExecuting
  /\ proc' = [proc EXCEPT ![c] = [Idle EXCEPT !.pc = "persist", !.op = "resume", !.kind = exec.seen]]
  /\ UNCHANGED <<exec, ledger, external, crashes>>

ResumeApproved(c) ==
  /\ CanResume(c) /\ exec.state = "approved"
  /\ RowExecuting
  /\ Journal([exec EXCEPT !.state = "downstream_request_prepared"], "execution_started")
  /\ Ledger("running") /\ Redispatch(c)
  /\ UNCHANGED <<external, crashes>>

ResumeUnique(c) ==
  /\ CanResume(c) /\ exec.state = "downstream_result_observed" /\ exec.seen = None
  /\ exec.outcome = "unique"
  /\ RowExecuting
  /\ Journal([exec EXCEPT !.state = "downstream_request_prepared"], "recovery_in_progress")
  /\ Redispatch(c)
  /\ UNCHANGED <<ledger, external, crashes>>

(* The claim of an attempt that left nothing behind.                        *)
RetireClaim == claim' = IF claim = "held" THEN None ELSE claim
ResumeRetry(c) ==
  /\ CanResume(c) /\ exec.state = "failed_recoverable"
  /\ RowExecuting
  /\ RetireClaim
  /\ Journal([exec EXCEPT !.state = "downstream_request_prepared", !.retry = 1], "recovery_in_progress")
  /\ Ledger("running") /\ Redispatch(c)
  /\ UNCHANGED <<loop, wire, sent, crashes>>

(* Seeded fault: what was already over is stopped too.                      *)
StopAnything(c) ==
  /\ ~Live(c) /\ Turn(c) /\ row.by # None
  /\ row' = [row EXCEPT !.status = "failed"]
  /\ exec' = [exec EXCEPT !.state = "failed_terminal"] /\ Ledger("failed")
  /\ UNCHANGED <<proc, external, crashes>>
StopAndEscalate(c) ==
  /\ ~Live(c) /\ Turn(c) /\ "stop" \in Permitted(exec)
  /\ row' = [row EXCEPT !.status = "failed"]
  /\ Journal([exec EXCEPT !.state = "failed_terminal"], None) /\ Ledger("failed")
  /\ UNCHANGED <<proc, external, crashes>>

Crash ==
  /\ crashes < MaxCrashes /\ crashes' = crashes + 1
  /\ proc' = [c \in Callers |-> Idle]
  /\ UNCHANGED <<durable, external>>

Resume(c) == ResumePersisted(c) \/ ResumeObserved(c) \/ ResumeApproved(c) \/ ResumeUnique(c) \/ ResumeRetry(c)
Serve(c) ==
  \/ StartExecution(c) \/ PrepareRequest(c) \/ PrepareApproval(c) \/ Dispatch(c)
  \/ ObserveResult(c) \/ RecordFailure(c) \/ DiscardResult(c) \/ PersistResult(c) \/ CompleteMission(c)
  \/ Lookup(c) \/ RecordLookup(c)
Next ==
  \/ CreateMission \/ Crash
  \/ \E c \in Callers : \/ \E by \in Approvers : Approve(c, by)
                        \/ Serve(c) \/ Reconcile(c) \/ Resume(c) \/ StopAndEscalate(c)
  \/ \E d \in wire : GovernorCreates(d)
Spec == Init /\ [][Next]_vars
-------------------------------------------------------------------------------
TypeOK ==
  /\ row \in [status : {"absent", "approval_required", "executing", "succeeded", "failed", "denied", "unavailable"},
              by : Approvers \cup {None},
              result : {None, "succeeded", "unsafe", "failed", "denied", "unavailable"}]
  /\ exec.state \in DOMAIN Next0 /\ exec.retry \in 0..1 /\ exec.ids \in BOOLEAN
  /\ (row.status = "absent") = (exec.state = "absent")
  /\ \A c \in Callers : proc[c].pc \in SyncPoints \cup {"idle", "authority", "execute", "sent", "lookup", "found"}
  /\ claim \in {None, "held", "resolved"} /\ loop \in {"none", "task", "loop"}
  /\ wire \subseteq 1..sent /\ sent \in 0..MaxDispatches /\ crashes \in 0..MaxCrashes

(* The records never claim more than the Governor did: a mission with ids   *)
(* has its loop, and a completed one a verified result in every record      *)
(* (persistRuntimeOutcome, reconcileMission), whatever answers come late.   *)
CompletionIsReal ==
  /\ exec.ids => loop = "loop"
  /\ exec.state \in {"result_persisted", "completed"} =>
       /\ exec.ids /\ row.result = "succeeded" /\ row.status = "succeeded" /\ row.by # None
  /\ ledger = "completed" <=> exec.state = "completed"
  /\ ledger = "failed" <=> exec.state = "failed_terminal"

(* Whatever interrupted it, an unfinished mission that no request is        *)
(* working on accepts a recovery that changes something: a reconciliation   *)
(* the journal lets begin, or a resumption that knows where to go on.       *)
GoesOnFrom ==
  \/ exec.state \in {"approved", "result_persisted", "failed_recoverable"}
  \/ exec.state = "downstream_result_observed" /\ (exec.seen # None \/ exec.outcome = "unique")
NeverStuck ==
  \/ exec.state \in Final \cup {"absent", "approval_required"}
  \/ \E c \in Callers : Live(c)
  \/ \E c \in Callers :
       \/ CanReconcile(c) /\ Reaches(exec.state, RecoveryVia, "recovery_in_progress")
       \/ CanResume(c) /\ GoesOnFrom

(* For the graph the mission is a child mission.                            *)
StateOf(state) ==
  CASE state \in {"execution_started", "downstream_request_prepared"} -> "prepared"
    [] state \in {"downstream_result_observed", "result_persisted"} -> "observed"
    [] state = "failed_recoverable" -> "recoverable"
    [] state = "recovery_in_progress" -> "recovering"
    [] state = "reconciliation_required" -> "unresolved"
    [] state = "failed_terminal" -> "terminal"
    [] OTHER -> state
Child == INSTANCE ChildMission
  WITH ChildApprovers <- Approvers, child <- [state |-> StateOf(exec.state), by |-> row.by]
IsAChild == Child!Spec
=================================================================================
