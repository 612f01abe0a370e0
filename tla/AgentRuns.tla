------------------------------ MODULE AgentRuns ------------------------------
(***************************************************************************)
(* The two run contracts under agentRuntime/: the run manifest             *)
(* (agentRuntimeContract.ts, mockRuntime.ts, and the three adapters that   *)
(* map a product's report to a manifest), and the runtime task of the      *)
(* runtime bridge (runtimeBridge/tasks.ts), whose transition table is the  *)
(* imported package chanter-agent-runtime.                                 *)
(*                                                                         *)
(* Every operation is a pure function from one value to the next; a caller *)
(* holds one manifest and one task and may call the operations in any      *)
(* order.                                                                  *)
(***************************************************************************)
EXTENDS Naturals

CONSTANTS None, MaxClock, MaxEvidence


VARIABLES manifest, task, now

vars == <<manifest, task, now>>

Stage == [PLAN |-> 1, EXECUTE |-> 2, VALIDATE |-> 3, EVIDENCE |-> 4, HUMAN_REVIEW |-> 5, COMPLETE |-> 6]
Stages == DOMAIN Stage
RunAssumption == {MaxClock, MaxEvidence} \subseteq Nat /\ None \notin Nat
                 /\ None \notin Stages \cup {"passed", "failed", "success"}
Retried == {"EXECUTE", "VALIDATE"}                  \* retry.retryableStates of every policy built

-------------------------------------------------------------------------------
(* Moving a manifest.                                                       *)

IsValidTransition(from, to) ==
  /\ from # "COMPLETE"
  /\ from = "HUMAN_REVIEW" => to = "COMPLETE"
  /\ Stage[to] >= Stage[from] \/ to \in Retried

(* Stamps that are there never go back; all of them are there.              *)
Ordered(stamps) ==
  \A s, t \in Stages :
    Stage[s] < Stage[t] /\ stamps[s] # None /\ stamps[t] # None => stamps[s] <= stamps[t]
VerifyCompleted(m) ==
  /\ m.state = "COMPLETE" /\ m.validation = "passed" /\ m.evidence > 0
  /\ \A s \in Stages : m.stamps[s] # None
  /\ Ordered(m.stamps)

RecordFailure(m, at) == [m EXCEPT !.failure = at]
MockCompleteUnverified(m) == m                      \* seeded fault: no verification
MockComplete(m) == IF VerifyCompleted(m) THEN m ELSE RecordFailure(m, "COMPLETE")
(* What the mock runtime does on entering a state, after the stamp.         *)
Enter(m, to) ==
  LET stamped == [m EXCEPT !.state = to, !.stamps[to] = now]
  IN CASE to = "VALIDATE" -> [stamped EXCEPT !.validation = "passed"]
       [] to = "EVIDENCE" -> [stamped EXCEPT !.evidence = @ + 2]
       [] to = "COMPLETE" -> MockComplete(stamped)
       [] OTHER -> stamped

EmptyManifest ==
  [product |-> "operator", verdict |-> None, state |-> "PLAN", validation |-> None, evidence |-> 0,
   failure |-> None, stamps |-> [s \in Stages |-> IF s = "PLAN" THEN now ELSE None]]

CreateEmptyManifest == manifest = None /\ manifest' = EmptyManifest /\ UNCHANGED <<task, now>>
Transition(to) ==
  /\ manifest # None /\ IsValidTransition(manifest.state, to)
  /\ manifest.evidence <= MaxEvidence
  /\ manifest' = Enter(manifest, to) /\ UNCHANGED <<task, now>>
(* execute runs through every later state at once; none of those moves is   *)
(* refused.                                                                 *)
Pass(m, to) == IF Stage[m.state] < Stage[to] THEN Enter(m, to) ELSE m
Execute ==
  /\ manifest # None
  /\ manifest' = Pass(Pass(Pass(Pass(Pass(manifest, "EXECUTE"), "VALIDATE"), "EVIDENCE"), "HUMAN_REVIEW"),
                      "COMPLETE")
  /\ UNCHANGED <<task, now>>
(* A cancelled run keeps its state, and one that may not be cancelled is    *)
(* marked as failed there too.                                              *)
CancelRun ==
  /\ manifest # None /\ manifest' = RecordFailure(manifest, manifest.state)
  /\ UNCHANGED <<task, now>>

-------------------------------------------------------------------------------
(* The adapters: a product's state, and what its report carries.            *)

LoopState ==
  [planned |-> "PLAN", created |-> "PLAN", running |-> "EXECUTE", iterating |-> "EXECUTE",
   validating |-> "VALIDATE", collecting_evidence |-> "EVIDENCE", awaiting_review |-> "HUMAN_REVIEW",
   completed |-> "COMPLETE", closed |-> "COMPLETE", failed |-> "COMPLETE", cancelled |-> "COMPLETE"]
ReviewState ==
  [review_created |-> "PLAN", diff_received |-> "PLAN", analyzing_diff |-> "EXECUTE",
   classifying_risk |-> "EXECUTE", validating |-> "VALIDATE", checks_running |-> "VALIDATE",
   evidence_collected |-> "EVIDENCE", report_ready |-> "EVIDENCE",
   awaiting_human_review |-> "HUMAN_REVIEW", recommendation_ready |-> "HUMAN_REVIEW",
   accepted |-> "COMPLETE", rejected |-> "COMPLETE", blocked |-> "COMPLETE", completed |-> "COMPLETE"]
PostState ==
  [campaign_created |-> "PLAN", job_created |-> "PLAN", draft_ready |-> "PLAN",
   preparing_payload |-> "EXECUTE", generating_variants |-> "EXECUTE", queueing_job |-> "EXECUTE",
   validating_content |-> "VALIDATE", checking_schedule |-> "VALIDATE",
   checking_account_scope |-> "VALIDATE", preview_ready |-> "EVIDENCE",
   evidence_collected |-> "EVIDENCE", job_recorded |-> "EVIDENCE",
   awaiting_human_review |-> "HUMAN_REVIEW", approval_required |-> "HUMAN_REVIEW",
   queued |-> "COMPLETE", scheduled |-> "COMPLETE", published |-> "COMPLETE",
   failed |-> "COMPLETE", cancelled |-> "COMPLETE"]
Fruitless == {"failed", "cancelled"}

(* States up to the reported one are stamped with what the report says, or  *)
(* now; later ones only with what it says.                                  *)
BuildStamps(state, given) ==
  [s \in Stages |-> IF given[s] = None /\ Stage[s] <= Stage[state] THEN now ELSE given[s]]
Mapped(product, verdict, state, report, extra, failed) ==
  [product |-> product, verdict |-> verdict, state |-> state, validation |-> report.validation,
   evidence |-> report.evidence + extra, failure |-> IF failed \/ report.failed THEN state ELSE None,
   stamps |-> BuildStamps(state, report.stamps)]
Accept(m, verified) ==
  /\ Ordered(m.stamps) /\ (verified => VerifyCompleted(m))
  /\ manifest' = m /\ UNCHANGED <<task, now>>
(* Identities, and no forbidden word or path anywhere in the report.        *)
Clean(report) == report.clean
Finished(state, report) == state = "COMPLETE" => report.validation # None /\ report.evidence > 0

MapLoopGovernorRun(source, report) ==
  LET state == LoopState[source]
  IN /\ Clean(report) /\ Finished(state, report)
     /\ Accept(Mapped("loop_governor", None, state, report, 0, source \in Fruitless),
               state = "COMPLETE" /\ source \notin Fruitless)
(* Only an accepted review is verified as a completed run.                  *)
MapSafeCommitReview(source, report, verdict) ==
  LET state == ReviewState[source]
  IN /\ Clean(report) /\ Finished(state, report) /\ (state = "COMPLETE" => verdict # None)
     /\ Accept(Mapped("safecommit", verdict, state, report, report.extra, verdict \in {"rejected", "blocked"}),
               state = "COMPLETE" /\ verdict = "accepted")
MapAutoPosterRun(source, report) ==
  LET state == PostState[source]
  IN /\ Clean(report) /\ Finished(state, report)
     /\ source \in {"queued", "scheduled", "published"} => report.extra > 0      \* an account scope
     /\ Accept(Mapped("autoposter", None, state, report, report.extra, source \in Fruitless),
               state = "COMPLETE" /\ source \notin Fruitless)

-------------------------------------------------------------------------------
(* The runtime task.  `gated` is approvalRequired, decided at creation;     *)
(* `approved` remembers whether it was approved since its last plan.        *)

TaskNext(gated) ==
  [draft |-> {"planned", "blocked", "cancelled"},
   planned |-> {IF gated THEN "approval_required" ELSE "executing", "blocked", "cancelled"},
   approval_required |-> {"approved", "blocked", "cancelled"}, approved |-> {"executing", "blocked", "cancelled"},
   executing |-> {"validating", "blocked", "cancelled"},
   validating |-> {"completed", "failed", "blocked", "cancelled"}, blocked |-> {"planned", "cancelled"},
   completed |-> {}, failed |-> {}, cancelled |-> {}]
Terminal == {"completed", "failed", "cancelled"}

CreateTask(gated) ==
  /\ task = None /\ UNCHANGED <<manifest, now>>
  /\ task' = [status |-> "draft", gated |-> gated, approved |-> FALSE, validation |-> None,
              result |-> None, evidence |-> 0]
Move(to, next) == /\ task # None /\ to \in TaskNext(task.gated)[task.status]
                  /\ task' = [next EXCEPT !.status = to] /\ UNCHANGED <<manifest, now>>
AttachPlan == task # None /\ Move("planned", [task EXCEPT !.approved = FALSE])
RequireApproval == Move("approval_required", task)
ApproveTask == task # None /\ Move("approved", [task EXCEPT !.approved = TRUE])
StartExecution == Move("executing", task)
StartValidation == Move("validating", task)
BlockTask == Move("blocked", task)
CancelTask == task # None /\ Move("cancelled", [task EXCEPT !.result = "failure"])
FailTask == task # None /\ task.status = "validating" /\ Move("failed", [task EXCEPT !.result = "failure"])
CompleteTask ==
  /\ task # None /\ task.status = "validating" /\ task.validation = "passed"
  /\ Move("completed", [task EXCEPT !.result = "success"])
(* checks: how many were run, and how many passed.                          *)
RecordValidation(verdict) ==
  /\ task # None /\ task.status = "validating"
  /\ task' = [task EXCEPT !.validation = verdict] /\ UNCHANGED <<manifest, now>>
BuildValidation(checks, passed) == IF checks > 0 /\ passed = checks THEN "passed" ELSE "failed"
PassValidation(checks, passed) ==
  BuildValidation(checks, passed) = "passed" /\ RecordValidation("passed")
FailValidation(checks, passed) ==
  BuildValidation(checks, passed) = "failed" /\ RecordValidation("failed")
AttachEvidence ==
  /\ task # None /\ task.status \notin Terminal /\ task.evidence < MaxEvidence
  /\ task' = [task EXCEPT !.evidence = @ + 1] /\ UNCHANGED <<manifest, now>>

Tick == now < MaxClock /\ now' = now + 1 /\ UNCHANGED <<manifest, task>>

Given == {[s \in Stages |-> None], [s \in Stages |-> IF s = "VALIDATE" THEN 0 ELSE None]}
Reports == [validation : {None, "passed", "failed"}, evidence : {0, 1}, failed : BOOLEAN,
            stamps : Given, clean : BOOLEAN, extra : {0, 1}]
Init == manifest = None /\ task = None /\ now = 0
RunNext ==
  \/ CreateEmptyManifest \/ Execute \/ CancelRun \/ Tick \/ \E to \in Stages : Transition(to)
  \/ manifest = None /\ \E report \in Reports :
       \/ \E source \in DOMAIN LoopState : MapLoopGovernorRun(source, report)
       \/ \E source \in DOMAIN ReviewState, verdict \in {None, "accepted", "rejected", "blocked", "needs_human_review"} :
            MapSafeCommitReview(source, report, verdict)
       \/ \E source \in DOMAIN PostState : MapAutoPosterRun(source, report)
BridgeNext ==
  \/ \E gated \in BOOLEAN : CreateTask(gated)
  \/ AttachPlan \/ RequireApproval \/ ApproveTask \/ StartExecution \/ StartValidation
  \/ BlockTask \/ CancelTask \/ FailTask \/ CompleteTask \/ AttachEvidence
  \/ \E checks \in 0..1, passed \in 0..1 : PassValidation(checks, passed) \/ FailValidation(checks, passed)
Next == RunNext \/ BridgeNext

Spec == Init /\ [][Next]_vars
-------------------------------------------------------------------------------
(* Both values keep to their contracts' closed sets.                        *)
TypeOK ==
  /\ now \in 0..MaxClock
  /\ manifest = None \/ (manifest.state \in Stages /\ manifest.failure \in Stages \cup {None})
  /\ task = None \/ task.status \in DOMAIN TaskNext(TRUE)

(* However a run came here, by skips, retries, a cancellation or a product's *)
(* report: a manifest that is COMPLETE without a failure passed validation, *)
(* has evidence and was in every stage in order, unless it is a review with *)
(* another verdict than accepted; and a task works only on a plan that was  *)
(* approved if it has to be, and is completed only on a passed validation.  *)
CompletionIsEarned ==
  /\ manifest # None /\ manifest.state = "COMPLETE" /\ manifest.failure = None
     /\ (manifest.product # "safecommit" \/ manifest.verdict = "accepted")
     => /\ manifest.validation = "passed" /\ manifest.evidence > 0
        /\ \A s, t \in Stages : Stage[s] < Stage[t] => manifest.stamps[s] <= manifest.stamps[t]
  /\ task # None /\ task.status \in {"executing", "validating", "completed", "failed"}
     => /\ task.gated => task.approved
        /\ (task.status = "completed") = (task.result = "success")
        /\ task.status = "completed" => task.validation = "passed"
=============================================================================
