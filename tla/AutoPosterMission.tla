-------------------------- MODULE AutoPosterMission --------------------------
(***************************************************************************)
(* One AutoPoster schedule mission after its creation: the durable row,    *)
(* the execution journal and the Agent Run ledger status that              *)
(* AutoPosterMissionService keeps, and the calls that work on them:        *)
(* approveAndExecute, reconcileMission, resumeSafely, stopAndEscalate.     *)
(*                                                                         *)
(* A caller is one request being served.  Its steps are the transactions   *)
(* of the service method; between two of them it is either at an await     *)
(* (any other caller may run) or inside one synchronous stretch of code.   *)
(* With SharedDatabase = FALSE all callers live in one Node process, so a  *)
(* synchronous stretch runs to completion, and a crash ends every call.    *)
(* With SharedDatabase = TRUE each caller is a process of its own on the   *)
(* same SQLite file, so only the transactions are atomic.                  *)
(*                                                                         *)
(* Left out: evidence references, reasons, typed errors, timestamps and    *)
(* redaction, which no decision below reads.                               *)
(***************************************************************************)
EXTENDS Integers, FiniteSets

CONSTANTS
    Callers,         \* concurrent requests
    Approvers,       \* identities that may approve
    MaxAttempts,     \* bound on idFactory: execution attempt identities
    MaxCrashes,      \* bound on process deaths
    MaxReplays,      \* bound on replays of a completed mission
    LookupFaults,    \* the lookup outcomes besides unique and not_found
    SharedDatabase,  \* several processes on one database file?
    None             \* SQL NULL

(* What a Runtime result says.  "forbidden" is a denial with a commercial
   reason code, "unsafe" a success whose queue evidence does not verify. *)
Kinds == {"succeeded", "duplicate", "unavailable", "failed",
          "denied", "forbidden", "unsafe"}

AllLookupFaults ==
    {"unavailable", "invalid", "mismatch", "conflict", "unusable"}

ASSUME ConstantsAssumption ==
    /\ MaxAttempts \in Nat \ {0}
    /\ MaxCrashes \in Nat
    /\ MaxReplays \in Nat
    /\ LookupFaults \subseteq AllLookupFaults
    /\ SharedDatabase \in BOOLEAN
    /\ None \notin Approvers \cup Kinds \cup {"unique"}

VARIABLES
    row,       \* autoposter_runtime_missions: status, approved_by, runtime_result_json
    exec,      \* autoposter_mission_executions
    journal,   \* the states and attempts autoposter_mission_journal names
    replays,   \* journal entries completed -> completed
    ledger,    \* status of the latest Agent Run ledger entry
    proc,      \* what each caller is doing
    attempts,  \* last attempt identity given out
    claim,     \* the Runtime's durable idempotency claim (external)
    wire,      \* attempts whose request AutoPoster has not handled (external)
    answers,   \* what AutoPoster did with each attempt (external)
    sent,      \* attempts whose request left the Runtime
    draft,     \* does AutoPoster hold the queue draft? (external)
    crashes

vars == <<row, exec, journal, replays, ledger, proc, attempts,
          claim, wire, answers, sent, draft, crashes>>
durable  == <<row, exec, journal, replays, ledger>>
external == <<claim, wire, answers, sent, draft>>

-----------------------------------------------------------------------------
(* The journal's state machine.                                            *)

States ==
    {"approval_required", "approved", "execution_started",
     "downstream_request_prepared", "downstream_result_observed",
     "result_persisted", "completed", "failed_recoverable",
     "recovery_in_progress", "reconciliation_required", "failed_terminal"}

Allowed ==
    [s \in States |->
       CASE s = "approval_required" -> {"approved", "failed_terminal"}
         [] s = "approved" -> {"execution_started", "failed_terminal"}
         [] s = "execution_started" ->
              {"downstream_request_prepared", "failed_recoverable", "failed_terminal"}
         [] s = "downstream_request_prepared" ->
              {"downstream_result_observed", "failed_recoverable", "failed_terminal",
               "reconciliation_required", "recovery_in_progress"}
         [] s = "downstream_result_observed" ->
              {"result_persisted", "failed_recoverable", "failed_terminal",
               "reconciliation_required", "recovery_in_progress"}
         [] s = "result_persisted" -> {"completed"}
         [] s = "completed" -> {"completed"}
         [] s = "failed_recoverable" -> {"recovery_in_progress", "failed_terminal"}
         [] s = "recovery_in_progress" ->
              {"downstream_request_prepared", "downstream_result_observed",
               "failed_recoverable", "failed_terminal", "reconciliation_required"}
         [] s = "reconciliation_required" -> {"failed_terminal", "recovery_in_progress"}
         [] s = "failed_terminal" -> {}]

Final == {"completed", "failed_terminal"}

(* Seeded fault: an interrupted recovery offers no action. *)
PermittedForgetsRecovery(e) ==
    CASE e.state = "approved" -> {"resume", "stop"}
      [] e.state \in {"execution_started", "downstream_request_prepared",
                      "failed_recoverable", "reconciliation_required"} ->
           {"reconcile", "stop"}
      [] e.state \in {"downstream_result_observed", "result_persisted"} -> {"resume"}
      [] OTHER -> {}

(* permittedRecoveryActions: which of Reconcile, Resume, Stop an execution accepts. *)
Permitted(e) ==
    CASE e.state = "approved" -> {"resume", "stop"}
      [] e.state \in {"execution_started", "downstream_request_prepared"} ->
           {"reconcile", "stop"}
      [] e.state \in {"downstream_result_observed", "result_persisted"} -> {"resume"}
      [] e.state = "failed_recoverable" ->
           IF e.outcome = "not_found" /\ e.retry = 0
             THEN {"reconcile", "resume", "stop"}
             ELSE {"reconcile", "stop"}
      [] e.state = "reconciliation_required" ->
           IF e.outcome = "conflict" THEN {"stop"} ELSE {"reconcile", "stop"}
      [] e.state = "recovery_in_progress" -> {"reconcile"}
      [] OTHER -> {}

(* A Runtime result: what it says, and the attempt it answers. *)
Results == [kind : Kinds, attempt : 1 .. MaxAttempts]
(* NULL is neither a result nor a queue identity. *)
ASSUME NullAssumption == None \notin Results /\ None # "post"
ResultStatus(r) ==
    CASE r.kind = "forbidden" -> "denied"
      [] r.kind = "unsafe" -> "succeeded"
      [] OTHER -> r.kind
Verified(r) == r.kind \in {"succeeded", "duplicate"}

(* The journal state persistRuntimeOutcome records for an unverified result. *)
FailedState(r) ==
    CASE r.kind = "unavailable" -> "reconciliation_required"
      [] r.kind \in {"failed", "forbidden"} -> "failed_recoverable"
      [] OTHER -> "failed_terminal"

-----------------------------------------------------------------------------
(* Callers.                                                                *)

SyncPoints  == {"called", "start", "prepare", "persist", "complete"}
AwaitPoints == {"authority", "execute", "sent", "lookup"}

Idle == [pc |-> "idle", op |-> None, by |-> None, seen |-> None,
         attempt |-> 0, recovered |-> FALSE, result |-> None, answer |-> None]

Live(c) == proc[c].pc # "idle"

(* Run to completion: in one process nobody runs inside another's synchronous stretch. *)
Turn(c) == SharedDatabase \/ \A d \in Callers \ {c} : proc[d].pc \notin SyncPoints

Goto(c, pc) == proc' = [proc EXCEPT ![c].pc = pc]
Return(c)   == proc' = [proc EXCEPT ![c] = Idle]

(* Seeded fault: the journal does not check the transition. *)
JournalUnchecked(e, via) ==
    /\ exec' = e
    /\ journal' = journal \cup {<<e.state, e.attempt>>}

(* One or two journal transitions, each legal, ending in execution record e. *)
Journal(e, via) ==
    /\ IF via = None
         THEN e.state \in Allowed[exec.state]
         ELSE via \in Allowed[exec.state] /\ e.state \in Allowed[via]
    /\ exec' = e
    /\ journal' = journal \cup {<<e.state, e.attempt>>} \cup
         (IF via = None THEN {}
          ELSE {<<via, IF via = "failed_recoverable" THEN exec.attempt ELSE e.attempt>>})

(* Seeded fault: the ledger is not told that work resumed. *)
LedgerForgetsRunning(status) ==
    ledger' = IF status = "running" /\ ledger # "approved" THEN ledger ELSE status

(* AutoPosterMissionLedger.append skips an entry whose status is already current. *)
Ledger(status) == ledger' = status

(* prepareLegacyMissionRowForRecovery *)
RowExecuting == row' = [row EXCEPT !.status = "executing", !.result = None]

Init ==
    /\ row = [status |-> "approval_required", approvedBy |-> None, result |-> None]
    /\ exec = [state |-> "approval_required", attempt |-> 1, retry |-> 0,
               outcome |-> "not_started", queueId |-> None, finalStatus |-> None,
               observation |-> None]
    /\ journal = {<<"approval_required", 1>>}
    /\ replays = 0
    /\ ledger = "approval_required"
    /\ proc = [c \in Callers |-> Idle]
    /\ attempts = 1
    /\ claim = [by |-> 0, resolved |-> FALSE]
    /\ wire = {} /\ sent = {} /\ draft = FALSE
    /\ answers = [a \in 1 .. MaxAttempts |-> None]
    /\ crashes = 0

-----------------------------------------------------------------------------
(* approveAndExecute.                                                      *)

(* assertCompletedReplayBinding, for the fields the model keeps. *)
ReplayAccepts(by) ==
    /\ row.result # None
    /\ exec.state = "completed"
    /\ row.approvedBy = by
    /\ exec.finalStatus = ResultStatus(row.result)
    /\ exec.observation = row.result
    /\ Verified(row.result) /\ exec.queueId # None
    /\ <<"result_persisted", exec.attempt>> \in journal
    /\ \E s \in {"execution_started", "downstream_request_prepared", "recovery_in_progress"} :
         <<s, exec.attempt>> \in journal

Replay(c) ==
    /\ ~Live(c) /\ Turn(c)
    /\ \E by \in Approvers : ReplayAccepts(by)
    /\ replays < MaxReplays
    /\ replays' = replays + 1
    /\ UNCHANGED <<row, exec, journal, ledger, proc, attempts, external, crashes>>

CallApprove(c, by) ==
    /\ ~Live(c) /\ Turn(c)
    /\ row.status = "approval_required" /\ exec.state = "approval_required"
    /\ proc' = [proc EXCEPT ![c] =
         [Idle EXCEPT !.pc = "called", !.op = "approve", !.by = by, !.attempt = exec.attempt]]
    /\ UNCHANGED <<durable, attempts, external, crashes>>

Approve(c) ==
    /\ proc[c].pc = "called" /\ proc[c].op = "approve" /\ Turn(c)
    /\ row.status = "approval_required" /\ row.result = None
    /\ row' = [row EXCEPT !.status = "executing", !.approvedBy = proc[c].by]
    /\ Journal([exec EXCEPT !.state = "approved"], None)
    /\ Ledger("approved")
    /\ Goto(c, "start")
    /\ UNCHANGED <<replays, attempts, external, crashes>>

StartExecution(c) ==
    /\ proc[c].pc = "start" /\ Turn(c)
    /\ Journal([exec EXCEPT !.state = "execution_started"], None)
    /\ Ledger("running")
    /\ Goto(c, "prepare")
    /\ UNCHANGED <<row, replays, attempts, external, crashes>>

PrepareRequest(c) ==
    /\ proc[c].pc = "prepare" /\ Turn(c)
    /\ Journal([exec EXCEPT !.state = "downstream_request_prepared"], None)
    /\ Goto(c, "authority")
    /\ UNCHANGED <<row, replays, ledger, attempts, external, crashes>>

-----------------------------------------------------------------------------
(* executePreparedMission: await the authority, await the Runtime.         *)

AuthorityGranted(c) ==
    /\ proc[c].pc = "authority" /\ Turn(c)
    /\ Goto(c, "execute")
    /\ UNCHANGED <<durable, attempts, external, crashes>>

(* The Runtime claims the mission durably, then calls the AutoPoster port. *)
RuntimeDispatch(c) ==
    /\ proc[c].pc = "execute" /\ ~proc[c].recovered
    /\ claim.by = 0
    /\ claim' = [by |-> proc[c].attempt, resolved |-> FALSE]
    /\ wire' = wire \cup {proc[c].attempt}
    /\ sent' = sent \cup {proc[c].attempt}
    /\ Goto(c, "sent")
    /\ UNCHANGED <<durable, attempts, answers, draft, crashes>>

(* What the await at c's program point can yield: a refused authority or an
   executor exception is "failed"; a recovered execution returns the recovered
   post; a lost or late answer is "unavailable". *)
Outcomes(c) ==
    CASE proc[c].pc = "authority" -> {"failed"}
      [] proc[c].pc = "execute" ->
           {"failed", "denied"} \cup (IF proc[c].recovered THEN {"duplicate"} ELSE {})
      [] proc[c].pc = "sent" ->
           {"failed", "unavailable"} \cup ({answers[proc[c].attempt]} \ {None})
      [] OTHER -> {}

ResultsFor(c) == [kind : Outcomes(c), attempt : {proc[c].attempt}]

(* The Runtime resolves its claim when the port returned a success. *)
SettleClaim(c, r) ==
    claim' = IF claim.by = proc[c].attempt /\ ~proc[c].recovered
                  /\ r.kind \in {"succeeded", "duplicate", "unsafe"}
               THEN [claim EXCEPT !.resolved = TRUE] ELSE claim

(* persistRuntimeOutcome, a verified queue result. *)
ObserveResult(c) ==
    /\ Turn(c)
    /\ \E r \in ResultsFor(c) :
         /\ Verified(r)
         /\ Journal([exec EXCEPT !.state = "downstream_result_observed",
                                 !.queueId = "post", !.observation = r], None)
         /\ Ledger("validating")
         /\ SettleClaim(c, r)
         /\ proc' = [proc EXCEPT ![c] = [@ EXCEPT !.pc = "persist", !.result = r]]
    /\ UNCHANGED <<row, replays, attempts, wire, answers, sent, draft, crashes>>

(* persistRuntimeOutcome, everything else. *)
RecordFailure(c) ==
    /\ Turn(c)
    /\ \E r \in ResultsFor(c) :
         /\ ~Verified(r)
         /\ row.status = "executing"
         /\ row' = [row EXCEPT !.status = ResultStatus(r), !.result = r]
         /\ Journal([exec EXCEPT !.state = FailedState(r), !.observation = r,
                                 !.finalStatus = ResultStatus(r)], None)
         /\ Ledger(IF FailedState(r) = "failed_terminal"
                     THEN "failed" ELSE "reconciliation_required")
         /\ SettleClaim(c, r)
    /\ Return(c)
    /\ UNCHANGED <<replays, attempts, wire, answers, sent, draft, crashes>>

(* The answer came, and the mission has moved on: the transaction rolls back
   and the call ends in a 409. *)
DiscardOutcome(c) ==
    /\ Turn(c)
    /\ \E r \in ResultsFor(c) :
         /\ IF Verified(r)
              THEN "downstream_result_observed" \notin Allowed[exec.state]
              ELSE \/ row.status # "executing"
                   \/ FailedState(r) \notin Allowed[exec.state]
         /\ SettleClaim(c, r)
    /\ Return(c)
    /\ UNCHANGED <<durable, attempts, wire, answers, sent, draft, crashes>>

(* persistObservedRuntimeResult, its two transactions. *)
PersistResult(c) ==
    /\ proc[c].pc = "persist" /\ Turn(c)
    /\ row.status = "executing" /\ row.result = None
    /\ LET r == proc[c].result IN
         /\ row' = [row EXCEPT !.status = ResultStatus(r), !.result = r]
         /\ Journal([exec EXCEPT !.state = "result_persisted",
                                 !.finalStatus = ResultStatus(r)], None)
    /\ Goto(c, "complete")
    /\ UNCHANGED <<replays, ledger, attempts, external, crashes>>

CompleteMission(c) ==
    /\ proc[c].pc = "complete" /\ Turn(c)
    /\ Journal([exec EXCEPT !.state = "completed"], None)
    /\ Ledger("completed")
    /\ replays' = IF exec.state = "completed" THEN replays + 1 ELSE replays
    /\ Return(c)
    /\ UNCHANGED <<row, attempts, external, crashes>>

-----------------------------------------------------------------------------
(* The recovery calls.  Entry reads the execution once (proc[c].seen); the *)
(* transaction that follows works on the current record.                   *)

CallRecovery(c, op) ==
    /\ ~Live(c) /\ Turn(c)
    /\ op \in Permitted(exec)
    /\ row.approvedBy # None \/ op = "stop"
    /\ op # "stop" => attempts < MaxAttempts
    /\ attempts' = IF op = "stop" THEN attempts ELSE attempts + 1
    /\ proc' = [proc EXCEPT ![c] =
         [Idle EXCEPT !.pc = "called", !.op = op, !.seen = exec, !.attempt = attempts']]
    /\ UNCHANGED <<durable, external, crashes>>

Called(c, op) == proc[c].pc = "called" /\ proc[c].op = op

(* reconcileMission, up to its lookup: an uncertain boundary is first recorded
   as failed_recoverable, then the recovery attempt is claimed. *)
ClaimReconciliation(c) ==
    /\ Called(c, "reconcile") /\ Turn(c)
    /\ Journal([exec EXCEPT !.state = "recovery_in_progress", !.attempt = proc[c].attempt],
               IF exec.state \in {"failed_recoverable", "reconciliation_required"}
                 THEN None ELSE "failed_recoverable")
    /\ Ledger("running")
    /\ proc' = [proc EXCEPT ![c] = [@ EXCEPT !.pc = "lookup", !.seen = None]]
    /\ UNCHANGED <<row, replays, attempts, external, crashes>>

(* AutoPoster evaluates the lookup; its answer travels back. *)
ServeLookup(c) ==
    /\ proc[c].pc = "lookup" /\ proc[c].answer = None
    /\ proc' = [proc EXCEPT ![c].answer = IF draft THEN "unique" ELSE "not_found"]
    /\ UNCHANGED <<durable, attempts, external, crashes>>

LookupOutcomes(c) == LookupFaults \cup ({proc[c].answer} \ {None})

(* Seeded fault: an unsafe record is bound. *)
ReconciledBindsUnsafe(o) ==
    CASE o \in {"unique", "unusable"} ->
           [exec EXCEPT !.state = "downstream_result_observed", !.outcome = "unique",
                        !.queueId = "post", !.observation = None]
      [] o = "not_found" -> [exec EXCEPT !.state = "failed_recoverable", !.outcome = o]
      [] OTHER -> [exec EXCEPT !.state = "reconciliation_required", !.outcome = o]

(* What reconcileMission records for each lookup outcome. *)
Reconciled(o) ==
    CASE o = "unique" ->
           [exec EXCEPT !.state = "downstream_result_observed", !.outcome = o,
                        !.queueId = "post", !.observation = None]
      [] o = "not_found" ->
           [exec EXCEPT !.state = "failed_recoverable", !.outcome = o,
                        !.observation = None]
      [] o \in {"unavailable", "conflict"} ->
           [exec EXCEPT !.state = "reconciliation_required", !.outcome = o]
      [] o = "mismatch" ->
           [exec EXCEPT !.state = "failed_terminal", !.outcome = o, !.observation = None]
      [] OTHER ->
           [exec EXCEPT !.state = "failed_terminal", !.outcome = "invalid"]

RecordReconciliation(c) ==
    /\ proc[c].pc = "lookup" /\ Turn(c)
    /\ \E o \in LookupOutcomes(c) :
         /\ Journal(Reconciled(o), None)
         /\ Ledger(CASE o = "unique" -> "validating"
                     [] o \in {"not_found", "unavailable", "conflict"} ->
                          "reconciliation_required"
                     [] OTHER -> "failed")
    /\ Return(c)
    /\ UNCHANGED <<row, replays, attempts, external, crashes>>

(* Seeded fault: a reconciliation that lost its claim looks up again. *)
DiscardReconciliationRetries(c) ==
    /\ proc[c].pc = "lookup" /\ Turn(c)
    /\ \E o \in LookupOutcomes(c) : Reconciled(o).state \notin Allowed[exec.state]
    /\ proc' = [proc EXCEPT ![c].answer = None]
    /\ UNCHANGED <<durable, attempts, external, crashes>>

DiscardReconciliation(c) ==
    /\ proc[c].pc = "lookup" /\ Turn(c)
    /\ \E o \in LookupOutcomes(c) : Reconciled(o).state \notin Allowed[exec.state]
    /\ Return(c)
    /\ UNCHANGED <<durable, attempts, external, crashes>>

(* resumeSafely: one action per durable state it can resume from. *)
ResumePersisted(c) ==
    /\ Called(c, "resume") /\ Turn(c)
    /\ proc[c].seen.state = "result_persisted"
    /\ Journal([exec EXCEPT !.state = "completed"], None)
    /\ Ledger("completed")
    /\ replays' = IF exec.state = "completed" THEN replays + 1 ELSE replays
    /\ Return(c)
    /\ UNCHANGED <<row, attempts, external, crashes>>

ResumeObserved(c) ==
    /\ Called(c, "resume") /\ Turn(c)
    /\ proc[c].seen.state = "downstream_result_observed" /\ proc[c].seen.observation # None
    /\ exec.state = "downstream_result_observed" /\ exec.observation # None
    /\ RowExecuting
    /\ proc' = [proc EXCEPT ![c] = [@ EXCEPT !.pc = "persist", !.seen = None,
                                             !.result = proc[c].seen.observation]]
    /\ UNCHANGED <<exec, journal, replays, ledger, attempts, external, crashes>>

ResumeApproved(c) ==
    /\ Called(c, "resume") /\ Turn(c)
    /\ proc[c].seen.state = "approved" /\ exec.state = "approved"
    /\ RowExecuting
    /\ Journal([exec EXCEPT !.state = "downstream_request_prepared",
                            !.attempt = proc[c].attempt], "execution_started")
    /\ Ledger("running")
    /\ proc' = [proc EXCEPT ![c] = [@ EXCEPT !.pc = "authority", !.seen = None]]
    /\ UNCHANGED <<replays, attempts, external, crashes>>

ResumeUnique(c) ==
    /\ Called(c, "resume") /\ Turn(c)
    /\ LET seen == proc[c].seen IN
         /\ seen.state = "downstream_result_observed" /\ seen.observation = None
         /\ seen.outcome = "unique"
    /\ exec.state = "downstream_result_observed" /\ exec.outcome = "unique"
    /\ RowExecuting
    /\ Journal([exec EXCEPT !.state = "recovery_in_progress",
                            !.attempt = proc[c].attempt], None)
    /\ proc' = [proc EXCEPT ![c] = [@ EXCEPT !.pc = "authority", !.seen = None,
                                             !.recovered = TRUE]]
    /\ UNCHANGED <<replays, ledger, attempts, external, crashes>>

(* Seeded fault: the retry is not counted. *)
ResumeNotFoundUncounted(c) ==
    /\ Called(c, "resume") /\ Turn(c)
    /\ exec.state = "failed_recoverable" /\ exec.outcome = "not_found" /\ exec.retry = 0
    /\ RowExecuting
    /\ claim' = IF claim.resolved THEN claim ELSE [by |-> 0, resolved |-> FALSE]
    /\ Journal([exec EXCEPT !.state = "downstream_request_prepared",
                            !.attempt = proc[c].attempt], "recovery_in_progress")
    /\ Ledger("running")
    /\ proc' = [proc EXCEPT ![c] = [@ EXCEPT !.pc = "authority", !.seen = None]]
    /\ UNCHANGED <<replays, attempts, wire, answers, sent, draft, crashes>>

(* The single safe retry; retireUnresolvedClaim frees a claim nobody resolved. *)
ResumeNotFound(c) ==
    /\ Called(c, "resume") /\ Turn(c)
    /\ proc[c].seen.state = "failed_recoverable"
    /\ exec.state = "failed_recoverable" /\ exec.outcome = "not_found" /\ exec.retry = 0
    /\ RowExecuting
    /\ claim' = IF claim.resolved THEN claim ELSE [by |-> 0, resolved |-> FALSE]
    /\ Journal([exec EXCEPT !.state = "downstream_request_prepared", !.retry = 1,
                            !.attempt = proc[c].attempt], "recovery_in_progress")
    /\ Ledger("running")
    /\ proc' = [proc EXCEPT ![c] = [@ EXCEPT !.pc = "authority", !.seen = None]]
    /\ UNCHANGED <<replays, attempts, wire, answers, sent, draft, crashes>>

(* Seeded fault: a status the mission row does not have. *)
StopWritesStopped(c) ==
    /\ Called(c, "stop") /\ Turn(c)
    /\ row' = [row EXCEPT !.status = "stopped"]
    /\ Journal([exec EXCEPT !.state = "failed_terminal"], None)
    /\ Ledger("failed")
    /\ Return(c)
    /\ UNCHANGED <<replays, attempts, external, crashes>>

StopAndEscalate(c) ==
    /\ Called(c, "stop") /\ Turn(c)
    /\ row' = [row EXCEPT !.status = "failed"]
    /\ Journal([exec EXCEPT !.state = "failed_terminal"], None)
    /\ Ledger("failed")
    /\ Return(c)
    /\ UNCHANGED <<replays, attempts, external, crashes>>

-----------------------------------------------------------------------------
(* A transaction whose guard fails rolls back, and the call ends in a 409. *)

Commits(c) ==
    LET seen == proc[c].seen
        allows(s) == s \in Allowed[exec.state]
    IN CASE proc[c].pc = "start" -> allows("execution_started")
         [] proc[c].pc = "prepare" -> allows("downstream_request_prepared")
         [] proc[c].pc = "persist" ->
              row.status = "executing" /\ row.result = None /\ allows("result_persisted")
         [] proc[c].pc = "complete" -> allows("completed")
         [] Called(c, "approve") -> row.status = "approval_required" /\ allows("approved")
         [] Called(c, "stop") -> allows("failed_terminal")
         [] Called(c, "reconcile") ->
              exec.state \in {"failed_recoverable", "reconciliation_required"}
                \/ allows("failed_recoverable")
         [] Called(c, "resume") ->
              CASE seen.state = "result_persisted" -> allows("completed")
                [] seen.state = "downstream_result_observed" ->
                     /\ exec.state = seen.state
                     /\ IF seen.observation # None
                          THEN exec.observation # None
                          ELSE seen.outcome = "unique" /\ exec.outcome = "unique"
                [] seen.state = "failed_recoverable" ->
                     exec.state = seen.state /\ exec.outcome = "not_found" /\ exec.retry = 0
                [] OTHER -> exec.state = seen.state
         [] OTHER -> TRUE

Refuse(c) ==
    /\ proc[c].pc \in SyncPoints /\ Turn(c)
    /\ ~Commits(c)
    /\ Return(c)
    /\ UNCHANGED <<durable, attempts, external, crashes>>

-----------------------------------------------------------------------------
(* AutoPoster: a create-only document per idempotency key, so a second create
   returns the first draft.  A request may also be refused or lost. *)

ServeCreate(a) ==
    /\ a \in wire
    /\ wire' = wire \ {a}
    /\ draft' = TRUE
    /\ \E kind \in {IF draft THEN "duplicate" ELSE "succeeded", "unsafe"} :
         answers' = [answers EXCEPT ![a] = kind]
    /\ UNCHANGED <<durable, proc, attempts, claim, sent, crashes>>

ServeRefuse(a) ==
    /\ a \in wire
    /\ wire' = wire \ {a}
    /\ \E kind \in {"denied", "forbidden"} : answers' = [answers EXCEPT ![a] = kind]
    /\ UNCHANGED <<durable, proc, attempts, claim, sent, draft, crashes>>

LoseRequest(a) ==
    /\ a \in wire
    /\ wire' = wire \ {a}
    /\ UNCHANGED <<durable, proc, attempts, claim, answers, sent, draft, crashes>>

(* A process dies: its calls vanish, committed rows and sent requests stay. *)
Crash(dead) ==
    /\ crashes < MaxCrashes
    /\ \E c \in dead : Live(c)
    /\ IF SharedDatabase THEN Cardinality(dead) = 1 ELSE dead = Callers
    /\ proc' = [c \in Callers |-> IF c \in dead THEN Idle ELSE proc[c]]
    /\ crashes' = crashes + 1
    /\ UNCHANGED <<durable, attempts, external>>

-----------------------------------------------------------------------------
(* Continue(c): what the event loop, the awaited answers and the executor's
   timeout make caller c do next. *)
Continue(c) ==
    \/ Approve(c) \/ StartExecution(c) \/ PrepareRequest(c)
    \/ AuthorityGranted(c) \/ RuntimeDispatch(c)
    \/ ObserveResult(c) \/ RecordFailure(c) \/ DiscardOutcome(c)
    \/ PersistResult(c) \/ CompleteMission(c)
    \/ ClaimReconciliation(c) \/ RecordReconciliation(c) \/ DiscardReconciliation(c)
    \/ ResumePersisted(c) \/ ResumeObserved(c) \/ ResumeApproved(c)
    \/ ResumeUnique(c) \/ ResumeNotFound(c)
    \/ StopAndEscalate(c) \/ Refuse(c)

Call(c) ==
    \/ Replay(c)
    \/ \E by \in Approvers : CallApprove(c, by)
    \/ \E op \in {"reconcile", "resume", "stop"} : CallRecovery(c, op)

AutoPoster ==
    \/ \E c \in Callers : ServeLookup(c)
    \/ \E a \in wire : ServeCreate(a) \/ ServeRefuse(a) \/ LoseRequest(a)

Next ==
    \/ \E c \in Callers : Call(c) \/ Continue(c)
    \/ AutoPoster
    \/ \E dead \in SUBSET Callers : Crash(dead)

Spec == Init /\ [][Next]_vars

(* Each await is answered or times out (AutoPoster calls carry a timeout, and
   a lookup is served), so a live call keeps moving. *)
Fairness == \A c \in Callers : WF_vars(Continue(c)) /\ WF_vars(ServeLookup(c))

FairSpec == Spec /\ Fairness

-----------------------------------------------------------------------------
(* Properties.                                                             *)

Attempts == 1 .. MaxAttempts
ResultStatuses == {"succeeded", "duplicate", "unavailable", "failed", "denied"}

Rows == [status : {"approval_required", "executing"} \cup ResultStatuses,
         approvedBy : {None} \cup Approvers, result : {None} \cup Results]
Executions ==
    [state : States, attempt : Attempts, retry : {0, 1},
     outcome : {"not_started", "unique", "not_found"} \cup AllLookupFaults,
     queueId : {None, "post"}, finalStatus : {None} \cup ResultStatuses,
     observation : {None} \cup Results]
Frames ==
    [pc : {"idle"} \cup SyncPoints \cup AwaitPoints,
     op : {None, "approve", "reconcile", "resume", "stop"},
     by : {None} \cup Approvers, seen : {None} \cup Executions,
     attempt : 0 .. MaxAttempts, recovered : BOOLEAN,
     result : {None} \cup Results, answer : {None, "unique", "not_found"}]

(* Every variable keeps the shape of its table's columns or its call frame. *)
TypeOK ==
    /\ row \in Rows /\ exec \in Executions
    /\ journal \subseteq States \X Attempts
    /\ replays \in Nat
    /\ ledger \in {"approval_required", "approved", "running", "validating",
                   "completed", "reconciliation_required", "failed"}
    /\ proc \in [Callers -> Frames]
    /\ attempts \in Attempts
    /\ claim \in [by : 0 .. MaxAttempts, resolved : BOOLEAN]
    /\ wire \subseteq Attempts /\ sent \subseteq Attempts
    /\ answers \in [Attempts -> {None} \cup Kinds]
    /\ draft \in BOOLEAN
    /\ crashes \in 0 .. MaxCrashes

(* The mission row, the execution journal and the Agent Run ledger are three
   tables written by separate code under different guards, and they always tell
   one story.  The ledger follows the journal.  While a request is prepared
   the row is still claimable by its answer, or persistObservedRuntimeResult
   would strand a real draft.  A completed mission can be replayed to its
   approver, whichever attempt's answer completed it. *)
LedgerAgreesWithJournal ==
    CASE exec.state \in {"execution_started", "downstream_request_prepared"} ->
           ledger = "running"
      [] exec.state \in {"downstream_result_observed", "result_persisted"} ->
           ledger = "validating"
      [] exec.state = "recovery_in_progress" -> ledger \in {"running", "validating"}
      [] exec.state \in {"failed_recoverable", "reconciliation_required"} ->
           ledger = "reconciliation_required"
      [] exec.state = "failed_terminal" -> ledger = "failed"
      [] OTHER -> ledger = exec.state
RowAgreesWithJournal ==
    /\ exec.state = "approval_required" <=> row.status = "approval_required"
    /\ exec.state # "approval_required" => row.approvedBy # None
    /\ exec.state \in {"approved", "execution_started", "downstream_request_prepared"} =>
         row.status = "executing" /\ row.result = None
    /\ exec.state \in {"result_persisted", "completed"} =>
         row.result # None /\ row.status = exec.finalStatus
CompletedIsReplayable ==
    exec.state = "completed" => ReplayAccepts(row.approvedBy)
RecordsAgree == LedgerAgreesWithJournal /\ RowAgreesWithJournal /\ CompletedIsReplayable

(* Whatever died or raced, a mission at rest is never stuck: it is finished,
   awaits an approval that will be accepted, can be stopped, or offers its
   approved owner a recovery whose transaction commits. *)
NeverStuck ==
    (\A c \in Callers : ~Live(c)) =>
       \/ exec.state \in Final
       \/ row.status = "approval_required" /\ row.result = None
            /\ exec.state = "approval_required"
       \/ "stop" \in Permitted(exec)
       \/ /\ row.approvedBy # None
          /\ \/ "reconcile" \in Permitted(exec)
             \/ exec.state = "result_persisted"
             \/ exec.state = "downstream_result_observed"
                  /\ (exec.observation # None \/ exec.outcome = "unique")

(* The number of requests that ever leave for AutoPoster is bounded by the one
   approved execution plus the one retry the journal has on record. *)
DispatchBudget == Cardinality(sent) <= 1 + exec.retry

(* Queue evidence is never invented: a bound queue identity means the draft
   exists downstream, although lookups and answers arrive late. *)
EvidenceIsReal == exec.queueId # None => draft

(* Late answers, stale lookups and abandoned calls never rewrite a finished
   mission: not its journal state, its row, its evidence or its ledger. *)
FinishedIsFinal ==
    [][exec.state \in Final => UNCHANGED <<row, exec, ledger>>]_vars

(* The mission implements DraftPromise: its journal state is a phase, the
   approval and the recorded retry are permits, the requests are spent. *)
Phase ==
    CASE exec.state = "approval_required" -> "waiting"
      [] exec.state = "completed" -> "completed"
      [] exec.state = "failed_terminal" -> "stopped"
      [] OTHER -> "working"
Permits == IF exec.state = "approval_required" THEN 0 ELSE 1 + exec.retry
Promise == INSTANCE DraftPromise WITH
    phase <- Phase, permits <- Permits, spent <- Cardinality(sent), draft <- draft
KeepsPromise == Promise!Spec

(* For the graph the mission is a child mission, like one of the generic lane
   (GenericMission): created, awaiting its approval when this module begins. *)
StateOf(state) ==
    CASE state \in {"execution_started", "downstream_request_prepared"} -> "prepared"
      [] state \in {"downstream_result_observed", "result_persisted"} -> "observed"
      [] state = "failed_recoverable" -> "recoverable"
      [] state = "recovery_in_progress" -> "recovering"
      [] state = "reconciliation_required" -> "unresolved"
      [] state = "failed_terminal" -> "terminal"
      [] OTHER -> state
Child == INSTANCE ChildMission WITH
    ChildApprovers <- Approvers,
    child <- [state |-> StateOf(exec.state),
              by |-> IF row.approvedBy = None THEN "none" ELSE row.approvedBy]
IsAChild == Child!SpecOnceCreated

(* Every call returns: no interleaving of answers and timeouts leaves a
   request waiting for ever. *)
CallsReturn == \A c \in Callers : Live(c) ~> ~Live(c)

(* The journal's own reason for failed_recoverable: "Runtime could not prove
   whether the downstream boundary completed; reconciliation is required
   before retry."  A retry then starts from a lookup's record, and the
   runtimeObservation of a failure is not still standing. *)
RetryFollowsReconciliation ==
    [][exec'.retry > exec.retry => exec.observation = None]_vars
=============================================================================
