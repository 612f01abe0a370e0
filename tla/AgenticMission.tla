---------------------------- MODULE AgenticMission ----------------------------
(***************************************************************************)
(* The agentic execution fabric: one mission, compiled into a fixed plan,  *)
(* driven by the service of agentic/agenticMissionService.ts through the   *)
(* plan journal, with the external Loop Governor admitting nodes and the   *)
(* external Agent Runtime running one worker per admitted node.            *)
(*                                                                         *)
(* One Operator process serves several requests.  A request holds the      *)
(* process (`turn`) from one await to the next; what it does in between is *)
(* a `script` of journal savepoints, each committed on its own, so a crash *)
(* can fall between any two of them.  The process is free while requests   *)
(* wait for the Governor or for workers.                                   *)
(*                                                                         *)
(* Simplifications.  A mission prepares at most one candidate, so the      *)
(* candidate hash is a flag, and an approval is of that candidate.  A      *)
(* node's output is its verdict.  The source record is initial, ours,      *)
(* edited (ours, then changed), other (changed before us) or gone.         *)
(* Budgets, costs, evidence rows and value observations are left out.      *)
(***************************************************************************)
EXTENDS Naturals, Sequences, FiniteSets

CONSTANTS Kinds,           \* plans explored, among those of Plans below
          Requests,        \* concurrent HTTP requests
          MaxParallelism,  \* intent.maxParallelism
          Bounds           \* by plan: requests received after the submission, for how many
                           \* one counts that overlaps another, and crashes, failures and
                           \* outside changes

None == "none"

ASSUME BoundsAssumption ==
  /\ Kinds \subseteq {"artifact", "live", "compensated", "shadow"}
  /\ None \notin Requests
  /\ Bounds \in [Kinds -> [calls : Nat, overlap : Nat, troubles : Nat]]

-------------------------------------------------------------------------------
(* The compiled plans: what each node needs and which capability it runs.  *)

N(needs, runs) == [needs |-> needs, runs |-> runs]

ArtifactPlan ==
  [N1 |-> N({}, "collect"), N2 |-> N({"N1"}, "specialist"), N3 |-> N({"N1"}, "specialist"),
   N4 |-> N({"N2", "N3"}, "verify_claims"), N5 |-> N({"N4"}, "synthesize"),
   N6 |-> N({"N5"}, "authority"), N7 |-> N({"N6"}, "artifact_write"),
   N8 |-> N({"N7"}, "artifact_verify")]
LivePlan ==
  [X1 |-> N({}, "observe"), X2 |-> N({"X1"}, "compile"), X3 |-> N({"X2"}, "authority"),
   X4 |-> N({"X3"}, "apply"), X5 |-> N({"X4"}, "outcome_verify")]
CompensatedPlan ==
  [X1 |-> N({}, "observe"), X2 |-> N({"X1"}, "compile"), X3 |-> N({"X2"}, "authority"),
   X4 |-> N({"X3"}, "apply"), X5 |-> N({"X4"}, "outcome_verify"),
   X6 |-> N({"X5"}, "compensate"), X7 |-> N({"X6"}, "absence_verify")]
ShadowPlan ==
  [X1 |-> N({}, "observe"), X2 |-> N({"X1"}, "compile"), X3 |-> N({"X2"}, "authority"),
   X4 |-> N({"X3"}, "shadow_authorize"), X5 |-> N({"X4"}, "shadow_verify")]

Plan(k) == CASE k = "artifact" -> ArtifactPlan [] k = "live" -> LivePlan
             [] k = "compensated" -> CompensatedPlan [] k = "shadow" -> ShadowPlan
Nodes(k) == DOMAIN Plan(k)
TerminalVerifier(k) == CASE k = "artifact" -> "N8" [] k = "compensated" -> "X7" [] OTHER -> "X5"
Checkpoint(k) == IF k = "artifact" THEN "N6" ELSE "X3"
Composes(k) == IF k = "artifact" THEN "N5" ELSE "X2"     \* prepares the candidate
NodeIds == UNION {Nodes(k) : k \in Kinds}

SideEffect(cap) == cap \in {"artifact_write", "apply", "compensate"}
AttemptLimit(cap) == IF SideEffect(cap) \/ cap = "authority" THEN 1 ELSE 3
ReconciliationMode(cap) ==
  CASE cap \in {"apply", "compensate"} -> "connector"
    [] cap = "artifact_write" -> "artifact" [] OTHER -> "record"

(* Only the Firestore connector can compensate, and its action lookup needs *)
(* the target, which the service does not pass: the lookup refuses.         *)
LookupRefuses(k) == k = "compensated"

-------------------------------------------------------------------------------
PlanNext ==
  [absent |-> {}, approval_required |-> {"approved", "cancelled", "failed_terminal"},
   approved |-> {"running", "cancelled", "failed_terminal"},
   running |-> {"awaiting_authority", "completed", "failed_recoverable",
                "reconciliation_required", "failed_terminal", "cancelled"},
   awaiting_authority |-> {"running", "failed_recoverable", "reconciliation_required",
                           "failed_terminal", "cancelled"},
   failed_recoverable |-> {"running", "reconciliation_required", "failed_terminal", "cancelled"},
   reconciliation_required |-> {"running", "failed_recoverable", "failed_terminal", "cancelled"},
   completed |-> {}, failed_terminal |-> {}, cancelled |-> {}]
NodeNext ==
  [blocked |-> {"ready", "cancelled", "failed_terminal"},
   ready |-> {"running", "cancelled", "failed_terminal"},
   running |-> {"completed", "failed_recoverable", "reconciliation_required",
                "failed_terminal", "cancelled"},
   failed_recoverable |-> {"ready", "running", "reconciliation_required",
                           "failed_terminal", "cancelled"},
   reconciliation_required |-> {"running", "completed", "failed_recoverable",
                                "failed_terminal", "cancelled"},
   completed |-> {}, failed_terminal |-> {}, cancelled |-> {}]
Settled == {"completed", "failed_terminal", "cancelled"}
Verdicts == {"ok", "no", "edited"}

VARIABLES kind,     \* which plan the mission compiles to
          plan,     \* the mission row: status, candidate, approval, artifact row
          node,     \* the plan's node rows
          worker,   \* operator_agentic_worker_records: claim and recorded result
          world,    \* the artifact file and the connector's source record
          job,      \* workers running in this process, by request and node
          frame,    \* requests in flight
          turn,     \* the request that holds the process, or None
          script,   \* savepoints that request has still to commit
          spent     \* bounds used up

durable == <<kind, plan, node, worker>>
vars == <<kind, plan, node, worker, world, job, frame, turn, script, spent>>

Idle == [pc |-> "idle", todo |-> <<>>, snap |-> <<>>, batch |-> {}, aim |-> None]
NoJob == [at |-> "none", result |-> None]
NoJobs == [n \in Nodes(kind) |-> NoJob]
NewNode(needs) == [state |-> IF needs = {} THEN "ready" ELSE "blocked",
                   attempts |-> 0, out |-> None, finding |-> None]

Init ==
  /\ kind \in Kinds
  /\ plan = [status |-> "absent", candidate |-> FALSE, approved |-> FALSE, artifact |-> FALSE]
  /\ node = [n \in Nodes(kind) |-> NewNode(Plan(kind)[n].needs)]
  /\ worker = [n \in Nodes(kind) |-> [claimed |-> FALSE, recorded |-> None]]
  /\ world = [source |-> "initial", writes |-> 0, expired |-> FALSE]
  /\ job = [r \in Requests |-> NoJobs]
  /\ frame = [r \in Requests |-> Idle]
  /\ turn = None /\ script = <<>>
  /\ spent = [troubles |-> 0, calls |-> 0]

Runs(n) == Plan(kind)[n].runs
Free == turn = None
Acting(r, n) == job[r][n].at \in {"claimed", "acted"}
Live(n) == \E r \in Requests : Acting(r, n)

-------------------------------------------------------------------------------
(* Savepoints of the journal.                                              *)

Step(do, id, to, set) == [do |-> do, id |-> id, to |-> to, set |-> set]
NodeTo(n, to, set) == Step("node", n, to, set)
PlanTo(to) == Step("plan", None, to, <<>>)
PlanNote(set) == Step("note", None, None, set)
Converge(to) == Step("converge", None, to, <<>>)
Revive == Step("revive", None, "running", <<>>)
Retire(n) == Step("retire", n, None, <<>>)
Audit(n, found) == Step("audit", n, None, [finding |-> found])

Update(row, set) == [f \in DOMAIN row |-> IF f \in DOMAIN set THEN set[f] ELSE row[f]]

(* Severity is never lowered, and a state is not entered twice.            *)
Converged(to) == \/ plan.status = to
                 \/ plan.status = "reconciliation_required" /\ to = "failed_recoverable"
Halted == plan.status \in {"reconciliation_required", "failed_recoverable"}

MovesPlan(s) == \/ s.do = "plan"
                \/ s.do = "converge" /\ ~Converged(s.to)
                \/ s.do = "revive" /\ Halted
Permitted(s) == /\ s.do = "node" => s.to \in NodeNext[node[s.id].state]
                /\ MovesPlan(s) => s.to \in PlanNext[plan.status]

PlanAfter(s) == IF MovesPlan(s) THEN [plan EXCEPT !.status = s.to]
                ELSE IF s.do = "note" THEN Update(plan, s.set) ELSE plan
NodeAfter(s) == CASE s.do = "node" -> [node EXCEPT ![s.id] =
                                         [Update(@, s.set) EXCEPT !.state = s.to]]
                  [] s.do = "audit" -> [node EXCEPT ![s.id] = Update(@, s.set)]
                  [] OTHER -> node
WorkerAfter(s) == IF s.do = "retire" THEN [worker EXCEPT ![s.id].claimed = FALSE] ELSE worker

Commit ==
  /\ script # <<>> /\ Permitted(Head(script))
  /\ plan' = PlanAfter(Head(script))
  /\ node' = NodeAfter(Head(script))
  /\ worker' = WorkerAfter(Head(script))
  /\ script' = Tail(script)
  /\ turn' = IF Tail(script) = <<>> /\ frame[turn].pc = "idle" THEN None ELSE turn
  /\ UNCHANGED <<kind, world, job, frame, spent>>

(* A refused transition throws: the request ends, what it committed stays. *)
Refuse ==
  /\ script # <<>> /\ ~Permitted(Head(script))
  /\ script' = <<>> /\ turn' = None /\ frame' = [frame EXCEPT ![turn] = Idle]
  /\ UNCHANGED <<kind, plan, node, worker, world, job, spent>>

-------------------------------------------------------------------------------
(* Requests.                                                               *)

(* r takes the process at pc with these savepoints to commit.              *)
Enter(r, fields, steps) ==
  /\ frame' = [frame EXCEPT ![r] = Update(@, fields)]
  /\ turn' = r /\ script' = steps
Finish(r, steps) == /\ frame' = [frame EXCEPT ![r] = Idle]
                    /\ turn' = (IF steps = <<>> THEN None ELSE r) /\ script' = steps
Leave(r) == Finish(r, <<>>)
Await(r, fields) == /\ frame' = [frame EXCEPT ![r] = Update(@, fields)]
                    /\ turn' = None /\ script' = <<>>
Price == IF \A r \in Requests : frame[r].pc = "idle" THEN 1 ELSE Bounds[kind].overlap
Begins(r) == /\ Free /\ frame[r].pc = "idle" /\ spent.calls + Price <= Bounds[kind].calls
             /\ spent' = [spent EXCEPT !.calls = @ + Price]
Continues(r, pc) == turn = r /\ script = <<>> /\ frame[r].pc = pc

(* submit: the context is compiled before the mission row is inserted.     *)
Submit(r) ==
  /\ Free /\ frame[r].pc = "idle" /\ plan.status = "absent" /\ Price <= Bounds[kind].calls
  /\ Await(r, [pc |-> "compiling"])
  /\ UNCHANGED <<durable, world, job, spent>>

InsertMission(r) ==
  /\ Free /\ frame[r].pc = "compiling" /\ Leave(r)
  /\ plan' = IF plan.status = "absent" THEN [plan EXCEPT !.status = "approval_required"] ELSE plan
  /\ UNCHANGED <<kind, node, worker, world, job, spent>>

ApproveExecution(r) ==
  /\ Begins(r) /\ plan.status \in {"approval_required", "approved", "running"}
  /\ Enter(r, [pc |-> "tick"],
           IF plan.status = "approval_required" THEN <<PlanTo("approved")>> ELSE <<>>)
  /\ UNCHANGED <<durable, world, job>>

ApproveCandidate(r) ==
  LET cp == Checkpoint(kind) IN
  /\ Begins(r) /\ plan.status = "awaiting_authority" /\ plan.candidate
  /\ Enter(r, [pc |-> "tick"],
           <<PlanNote([approved |-> TRUE]), NodeTo(cp, "running", <<>>),
             NodeTo(cp, "completed", [out |-> "ok"]), PlanTo("running")>>)
  /\ UNCHANGED <<durable, world, job>>

-------------------------------------------------------------------------------
(* advance: ticks until the Governor admits nothing further.               *)

(* The steps for each of some nodes, in the order of their names.           *)
ForEach(steps) ==
  LET Of(n) == IF n \in DOMAIN steps THEN steps[n] ELSE <<>> IN
  Of("N1") \o Of("N2") \o Of("N3") \o Of("N4") \o Of("N5") \o Of("N6") \o Of("N7") \o Of("N8") \o
  Of("X1") \o Of("X2") \o Of("X3") \o Of("X4") \o Of("X5") \o Of("X6") \o Of("X7")
InOrder(S) == ForEach([n \in S |-> <<n>>])

DependenciesDone(nodes, n) == \A d \in Plan(kind)[n].needs : nodes[d].state = "completed"

Openable == {n \in Nodes(kind) : node[n].state = "blocked" /\ DependenciesDone(node, n)}
After(r, steps) == IF frame[r].todo = <<>> THEN Finish(r, steps)
                   ELSE Enter(r, [pc |-> "resume", snap |-> <<>>], steps)

(* One tick up to the Governor: open ready nodes, then ask about the rows.  *)
Tick(r) ==
  /\ Continues(r, "tick")
  /\ CASE plan.status = "approved" -> Enter(r, [pc |-> "tick"], <<PlanTo("running")>>)
       [] plan.status = "running" /\ Openable # {} ->
            Enter(r, [pc |-> "tick"], ForEach([n \in Openable |-> <<NodeTo(n, "ready", <<>>)>>]))
       [] plan.status = "running" /\ Openable = {} -> Await(r, [pc |-> "governing", snap |-> node])
       [] OTHER -> After(r, <<>>)
  /\ UNCHANGED <<durable, world, job, spent>>

(* The Governor's answer about a snapshot (external): what it may admit     *)
(* together, and whether some node can no longer be reached.                *)
Admissible(snap) ==
  {n \in DOMAIN snap : /\ snap[n].state \in {"ready", "failed_recoverable"}
                       /\ DependenciesDone(snap, n)
                       /\ snap[n].attempts < AttemptLimit(Runs(n))}
Capacity(snap) ==
  MaxParallelism - Cardinality({n \in DOMAIN snap : snap[n].state = "running"})
Admissions(snap) ==
  IF Capacity(snap) >= Cardinality(Admissible(snap)) THEN {Admissible(snap)}
  ELSE {A \in SUBSET Admissible(snap) : Cardinality(A) = Capacity(snap)}
Unreachable(snap) ==
  {n \in DOMAIN snap : /\ snap[n].state \notin Settled
                       /\ \E d \in Plan(kind)[n].needs :
                            snap[d].state \in {"failed_terminal", "cancelled"}}

(* Nothing admitted: the plan fails for good only if a node is out of reach. *)
Settle(snap) ==
  IF plan.status = "running" /\ Unreachable(snap) # {}
  THEN <<PlanTo("failed_terminal")>> ELSE <<>>

LeaseAgain(A, snap) ==
  ForEach([n \in A |-> <<NodeTo(n, "running", [attempts |-> snap[n].attempts + 2])>>])
LeaseSteps(A, snap) ==
  ForEach([n \in A |-> <<NodeTo(n, "running", [attempts |-> snap[n].attempts + 1])>>])

Governed(r) ==
  /\ Free /\ frame[r].pc = "governing"
  /\ \E A \in Admissions(frame[r].snap) :
       LET snap == frame[r].snap IN
       IF A = {} THEN After(r, Settle(snap))
       ELSE IF Checkpoint(kind) \in A
       THEN After(r, <<PlanTo("awaiting_authority")>>)
       ELSE Enter(r, [pc |-> "launch", batch |-> A], LeaseSteps(A, snap))
  /\ UNCHANGED <<durable, world, job, spent>>

(* The Governor cannot be reached: the request ends.                        *)
GovernorFails(r) ==
  /\ Free /\ frame[r].pc \in {"governing", "stopping"} /\ spent.troubles < Bounds[kind].troubles
  /\ Leave(r)
  /\ spent' = [spent EXCEPT !.troubles = @ + 1]
  /\ UNCHANGED <<durable, world, job>>

Launch(r) ==
  /\ Continues(r, "launch")
  /\ job' = [job EXCEPT ![r] = [n \in Nodes(kind) |->
               IF n \in frame[r].batch THEN [at |-> "starting", result |-> None] ELSE NoJob]]
  /\ Await(r, [pc |-> "batch", snap |-> <<>>])
  /\ UNCHANGED <<durable, world, spent>>

-------------------------------------------------------------------------------
(* One worker: claim, act, record.  The Runtime is external; the claim and  *)
(* the record are the store the journal gives it.                           *)

Claim(r, n) ==
  /\ Free /\ job[r][n].at = "starting"
  /\ IF worker[n].recorded # None
     THEN job' = [job EXCEPT ![r][n] = [at |-> "done", result |-> worker[n].recorded]] /\ UNCHANGED worker
     ELSE IF worker[n].claimed
     THEN job' = [job EXCEPT ![r][n] = [at |-> "done", result |-> "unavailable"]] /\ UNCHANGED worker
     ELSE /\ job' = [job EXCEPT ![r][n].at = "claimed"]
          /\ worker' = [worker EXCEPT ![n].claimed = TRUE]
  /\ UNCHANGED <<kind, plan, node, world, frame, turn, script, spent>>

Approved == plan.candidate /\ plan.approved
Contract == node["X2"].out = "ok"         \* an action contract was compiled
Given(n) == node[n].out                   \* what a worker is told of an earlier node
Wrote(source) == [world EXCEPT !.source = source, !.writes = @ + 1]
Same(result) == {<<result, world>>}

(* The connectors.  The simulated one keeps a log of the actions applied;   *)
(* the Firestore one creates and deletes a document under preconditions.    *)
SimulatedApply ==
  CASE world.writes > 0 -> Same("ok")
    [] world.writes = 0 /\ world.source = "initial" -> {<<"ok", Wrote("ours")>>}
    [] OTHER -> Same("error")
FirestoreApply ==
  CASE world.source \in {"ours", "edited"} -> Same("ok")
    [] world.source \in {"initial", "gone"} -> {<<"ok", Wrote("ours")>>}
    [] OTHER -> Same("error")
FirestoreDelete(revision) ==
  CASE world.source \in {"gone", "initial"} -> Same("ok")
    [] <<revision, world.source>> \in {<<"ok", "ours">>, <<"edited", "edited">>}
         -> {<<"ok", [world EXCEPT !.source = "gone"]>>}
    [] OTHER -> Same("error")

(* What each worker may report, with the world it leaves behind.            *)
Collected == Same("ok")
Specialised == Same("ok")
ClaimsVerified == Same("ok") \cup Same("no")
Synthesised == Same("ok")
ArtifactWritten == IF Approved THEN {<<"ok", Wrote("ours")>>} ELSE Same("error")
ArtifactVerified == Same(IF world.writes > 0 /\ plan.artifact THEN "ok" ELSE "no")
Observed == Same(IF world.source = "initial" THEN "ok" ELSE "no")
Compiled == Same(IF Given("X1") = "ok" THEN "ok" ELSE "error")
AppliedBlindly == IF ~Approved \/ ~Contract THEN Same("error") ELSE {<<"ok", Wrote("ours")>>}
Applied == IF ~Approved \/ ~Contract THEN Same("error")
           ELSE IF kind = "live" THEN SimulatedApply ELSE FirestoreApply
OutcomeVerified ==
  CASE world.source = "other" /\ kind = "compensated" -> Same("error")
    [] world.source = "ours" /\ Contract -> Same("ok")
    [] world.source = "edited" -> Same("edited")
    [] OTHER -> Same("no")
Compensated == IF ~Approved \/ Given("X5") \notin {"ok", "edited"} THEN Same("error")
               ELSE FirestoreDelete(Given("X5"))
AbsenceVerified == Same(IF world.source \in {"gone", "initial"} THEN "ok" ELSE "no")
ShadowAuthorized == Same(IF Approved THEN "ok" ELSE "error")
ShadowVerified == Same(IF world.source = "initial" THEN "ok" ELSE "no")

Outcomes(n) ==
  CASE Runs(n) = "collect" -> Collected
    [] Runs(n) = "specialist" -> Specialised
    [] Runs(n) = "verify_claims" -> ClaimsVerified
    [] Runs(n) = "synthesize" -> Synthesised
    [] Runs(n) = "artifact_write" -> ArtifactWritten
    [] Runs(n) = "artifact_verify" -> ArtifactVerified
    [] Runs(n) = "observe" -> Observed
    [] Runs(n) = "compile" -> Compiled
    [] Runs(n) = "apply" -> Applied
    [] Runs(n) = "outcome_verify" -> OutcomeVerified
    [] Runs(n) = "compensate" -> Compensated
    [] Runs(n) = "absence_verify" -> AbsenceVerified
    [] Runs(n) = "shadow_authorize" -> ShadowAuthorized
    [] Runs(n) = "shadow_verify" -> ShadowVerified

Work(r, n) ==
  /\ Free /\ job[r][n].at = "claimed"
  /\ \E o \in Outcomes(n) :
       /\ job' = [job EXCEPT ![r][n] = [at |-> "acted", result |-> o[1]]]
       /\ world' = o[2]
  /\ UNCHANGED <<kind, plan, node, worker, frame, turn, script, spent>>

(* The worker fails: before it acted, or after, its answer lost on the way. *)
WorkFails(r, n) ==
  /\ Free /\ Acting(r, n) /\ job[r][n].result # "error" /\ spent.troubles < Bounds[kind].troubles
  /\ job' = [job EXCEPT ![r][n] = [at |-> "acted", result |-> "error"]]
  /\ spent' = [spent EXCEPT !.troubles = @ + 1]
  /\ UNCHANGED <<kind, plan, node, worker, world, frame, turn, script>>

(* A result is recorded; a failure is recorded or its claim released.       *)
Record(r, n) ==
  /\ Free /\ job[r][n].at = "acted"
  /\ \/ worker' = [worker EXCEPT ![n] = [claimed |-> FALSE, recorded |-> job[r][n].result]]
     \/ job[r][n].result = "error" /\ worker' = [worker EXCEPT ![n].claimed = FALSE]
  /\ job' = [job EXCEPT ![r][n].at = "done"]
  /\ UNCHANGED <<kind, plan, node, world, frame, turn, script, spent>>

-------------------------------------------------------------------------------
(* Commitment of a batch's results, in the order the nodes were leased.     *)

CompletedUnread(n, verdict) ==
  <<NodeTo(n, "completed", [out |-> verdict])>>
  \o (IF n = Composes(kind) THEN <<PlanNote([candidate |-> TRUE])>> ELSE <<>>)
  \o (IF Runs(n) = "artifact_write" THEN <<PlanNote([artifact |-> TRUE])>> ELSE <<>>)
  \o (IF n = TerminalVerifier(kind) THEN <<PlanTo("completed")>> ELSE <<>>)
AfterSuccess(n, verdict) ==
  <<NodeTo(n, "completed", [out |-> verdict])>>
  \o (IF n = Composes(kind) THEN <<PlanNote([candidate |-> TRUE])>> ELSE <<>>)
  \o (IF Runs(n) = "artifact_write" THEN <<PlanNote([artifact |-> TRUE])>> ELSE <<>>)
  \o (IF n = TerminalVerifier(kind)
      THEN <<PlanTo(IF verdict = "ok" THEN "completed" ELSE "failed_terminal")>> ELSE <<>>)

Vetoed(n) == <<NodeTo(n, "failed_terminal", [out |-> "no"]), PlanTo("failed_terminal")>>

CommitNodeResult(n, result) ==
  CASE result = "unavailable" -> <<NodeTo(n, "reconciliation_required", <<>>),
                                   Converge("reconciliation_required")>>
    [] result = "error" -> <<NodeTo(n, "failed_recoverable", <<>>), Converge("failed_recoverable")>>
    [] result = "no" /\ Runs(n) = "verify_claims" -> Vetoed(n)
    [] OTHER -> AfterSuccess(n, result)

CommitBatch(r) ==
  /\ Free /\ frame[r].pc = "batch" /\ \A n \in frame[r].batch : job[r][n].at = "done"
  /\ Enter(r, [pc |-> "tick", batch |-> {}],
           ForEach([n \in frame[r].batch |-> CommitNodeResult(n, job[r][n].result)]))
  /\ job' = [job EXCEPT ![r] = NoJobs]
  /\ UNCHANGED <<durable, world, spent>>

-------------------------------------------------------------------------------
(* Recovery.                                                                *)

Ambiguous(n) == node[n].state \in {"reconciliation_required", "running"}
Reconcilable(n) == node[n].state \in {"running", "reconciliation_required", "failed_recoverable"}

Investigate(n) ==
  LET recorded == worker[n].recorded # None IN
  CASE ReconciliationMode(Runs(n)) = "connector" ->
         IF Contract /\ world.writes > 0 THEN "found"
         ELSE IF recorded THEN "conflict" ELSE "absent"
    [] ReconciliationMode(Runs(n)) = "artifact" ->
         IF plan.artifact THEN "found" ELSE IF recorded THEN "conflict" ELSE "absent"
    [] OTHER -> IF recorded THEN "found" ELSE "absent"

(* A claim without a result is retired only after the Runtime's window,     *)
(* which no live worker outlasts, and where nothing can have been done.      *)
RetirableAtOnce(n) == ~SideEffect(Runs(n)) \/ ReconciliationMode(Runs(n)) = "connector"
Retirable(n) == /\ ~Live(n)
                /\ \/ ~SideEffect(Runs(n))
                   \/ ReconciliationMode(Runs(n)) = "connector"

Lookup(n) ==
  IF LookupRefuses(kind) /\ ReconciliationMode(Runs(n)) = "connector" THEN {<<>>}
  ELSE LET found == Investigate(n) IN
    IF found = "absent" /\ worker[n].claimed
    THEN {<<Audit(n, "conflict")>>}
         \cup (IF Retirable(n) THEN {<<Retire(n), Audit(n, "absent")>>} ELSE {})
    ELSE {<<Audit(n, found)>>}

Suspect(n) ==
  IF \/ node[n].state = "running"
     \/ node[n].state = "failed_recoverable" /\ SideEffect(Runs(n))
  THEN <<NodeTo(n, "reconciliation_required", <<>>)>> ELSE <<>>

(* reconcile asks about every ambiguous node, reconcileNode about any one.  *)
Reconcile(r) ==
  /\ Begins(r) /\ plan.status # "absent"
  /\ \E S \in {{n} : n \in {m \in Nodes(kind) : Reconcilable(m)}}
             \cup ({{n \in Nodes(kind) : Ambiguous(n)}} \ {{}}) :
       \E found \in [S -> UNION {Lookup(n) : n \in S}] :
         /\ \A n \in S : found[n] \in Lookup(n)
         /\ Finish(r, ForEach([n \in S |-> Suspect(n) \o found[n]]))
  /\ UNCHANGED <<durable, world, job>>

(* resume asks for every halted node; resumeNode for any one.               *)
Pending == {n \in Nodes(kind) : node[n].state \in {"reconciliation_required", "failed_recoverable"}}
Resume(r) ==
  /\ Begins(r) /\ plan.status # "absent"
  /\ \/ Pending = {} /\ Enter(r, [pc |-> "tick"], <<>>)
     \/ Pending # {} /\ Enter(r, [pc |-> "resume", todo |-> InOrder(Pending)], <<>>)
     \/ \E n \in Nodes(kind) : Enter(r, [pc |-> "resume", todo |-> <<n>>], <<>>)
  /\ UNCHANGED <<durable, world, job>>

ResumeRefused(n) ==
  \/ node[n].state = "running"
  \/ node[n].state = "reconciliation_required" /\ node[n].finding = None
  \/ /\ SideEffect(Runs(n)) /\ node[n].finding = None
     /\ node[n].state \in {"failed_recoverable", "failed_terminal"}
  \/ node[n].finding = "conflict"
  \/ /\ node[n].finding = "found" /\ ReconciliationMode(Runs(n)) = "connector"
     /\ Investigate(n) # "found"
  \/ /\ node[n].state = "reconciliation_required" /\ node[n].finding = "found"
     /\ ReconciliationMode(Runs(n)) # "connector" /\ worker[n].recorded = None

(* What a recovered completion makes true besides itself.                   *)
Derived(n) == IF n = "N5" THEN <<PlanNote([candidate |-> TRUE])>> ELSE <<>>

Recovered(n) ==
  IF node[n].finding = "found" /\ ReconciliationMode(Runs(n)) = "connector"
  THEN <<NodeTo(n, "completed", [out |-> "ok"])>>
  ELSE IF node[n].state # "reconciliation_required" THEN <<>>
  ELSE IF node[n].finding = "found"
  THEN <<NodeTo(n, "completed", [out |-> worker[n].recorded])>> \o Derived(n)
  ELSE <<NodeTo(n, "failed_recoverable", <<>>)>>

ResumeNode(r) ==
  /\ Continues(r, "resume")
  /\ LET n == Head(frame[r].todo) IN
     IF ResumeRefused(n) THEN Leave(r)
     ELSE Enter(r, [pc |-> "tick", todo |-> Tail(frame[r].todo)], Recovered(n) \o <<Revive>>)
  /\ UNCHANGED <<durable, world, job, spent>>

-------------------------------------------------------------------------------
(* Stops.                                                                   *)

Dependents(n) ==
  LET Children(S) == {m \in Nodes(kind) : Plan(kind)[m].needs \cap S # {}}
      d1 == Children({n})  d2 == d1 \cup Children(d1)  d3 == d2 \cup Children(d2)
      d4 == d3 \cup Children(d3)
  IN d4 \cup Children(d4) \cup Children(Children(d4))
Cancelled(S) ==
  ForEach([n \in {m \in S : node[m].state \notin Settled} |-> <<NodeTo(n, "cancelled", <<>>)>>])

StopNode(r, n) ==
  /\ Begins(r) /\ plan.status # "absent"
  /\ Await(r, [pc |-> "stopping", aim |-> n, snap |-> node])
  /\ UNCHANGED <<durable, world, job>>

(* The node itself is judged by the row read before the Governor was asked. *)
StopDependents(r) ==
  LET n == frame[r].aim IN
  /\ Free /\ frame[r].pc = "stopping"
  /\ Finish(r,
           (IF frame[r].snap[n].state \in Settled THEN <<>>
            ELSE <<NodeTo(n, "failed_terminal", <<>>)>>)
           \o Cancelled(Dependents(n))
           \o (IF plan.status \in Settled THEN <<>> ELSE <<PlanTo("failed_terminal")>>))
  /\ UNCHANGED <<durable, world, job, spent>>

Stop(r) ==
  /\ Begins(r) /\ plan.status \notin Settled \cup {"absent"}
  /\ Finish(r, Cancelled(Nodes(kind)) \o <<PlanTo("cancelled")>>)
  /\ UNCHANGED <<durable, world, job>>

-------------------------------------------------------------------------------
(* The environment.                                                         *)

Crash ==
  /\ spent.troubles < Bounds[kind].troubles
  /\ frame' = [r \in Requests |-> Idle] /\ turn' = None /\ script' = <<>>
  /\ job' = [r \in Requests |-> NoJobs]
  /\ spent' = [spent EXCEPT !.troubles = @ + 1]
  /\ UNCHANGED <<durable, world>>

(* Someone else changes the source record.                                  *)
SourceMoves ==
  /\ kind # "artifact" /\ spent.troubles < Bounds[kind].troubles /\ world.source \in {"initial", "ours", "gone"}
  /\ world' = [world EXCEPT !.source = IF @ = "ours" THEN "edited" ELSE "other"]
  /\ spent' = [spent EXCEPT !.troubles = @ + 1]
  /\ UNCHANGED <<durable, job, frame, turn, script>>

(* The candidate approval passes its expiry.                                *)
ApprovalExpires ==
  /\ plan.approved /\ ~world.expired /\ spent.troubles < Bounds[kind].troubles
  /\ world' = [world EXCEPT !.expired = TRUE]
  /\ spent' = [spent EXCEPT !.troubles = @ + 1]
  /\ UNCHANGED <<durable, job, frame, turn, script>>

Handler(r) ==
  \/ Submit(r) \/ InsertMission(r) \/ ApproveExecution(r) \/ ApproveCandidate(r)
  \/ Tick(r) \/ Governed(r) \/ GovernorFails(r)
  \/ Launch(r) \/ CommitBatch(r) \/ Resume(r) \/ ResumeNode(r)
  \/ StopDependents(r) \/ Stop(r)
  \/ Reconcile(r) \/ \E n \in Nodes(kind) : StopNode(r, n)
RunWorker(r, n) == Claim(r, n) \/ Work(r, n) \/ WorkFails(r, n) \/ Record(r, n)

Next ==
  \/ \E r \in Requests : Handler(r)
  \/ \E r \in Requests, n \in Nodes(kind) : RunWorker(r, n)
  \/ Commit \/ Refuse \/ Crash \/ SourceMoves \/ ApprovalExpires

Spec == Init /\ [][Next]_vars
-------------------------------------------------------------------------------
(* Properties.                                                              *)

Results == Verdicts \cup {None, "error", "unavailable"}
FrameType ==
  [pc : {"idle", "compiling", "tick", "governing", "launch", "batch",
         "resume", "stopping"},
   todo : Seq(NodeIds), snap : {<<>>} \cup [Nodes(kind) -> [state : DOMAIN NodeNext,
     attempts : 0..3, out : Results, finding : {None, "found", "absent", "conflict"}]],
   batch : SUBSET NodeIds, aim : NodeIds \cup {None}]

(* Rows, worker records, jobs and requests keep the columns' value sets, no *)
(* node is leased past its attempt limit and only a request in a            *)
(* synchronous stretch holds the process.                                   *)
TypeOK ==
  /\ kind \in Kinds
  /\ plan \in [status : DOMAIN PlanNext, candidate : BOOLEAN, approved : BOOLEAN, artifact : BOOLEAN]
  /\ node \in [Nodes(kind) -> [state : DOMAIN NodeNext, attempts : 0..3, out : Results,
                               finding : {None, "found", "absent", "conflict"}]]
  /\ \A n \in Nodes(kind) : node[n].attempts <= AttemptLimit(Runs(n))
  /\ worker \in [Nodes(kind) -> [claimed : BOOLEAN, recorded : Results]]
  /\ world \in [source : {"initial", "ours", "edited", "other", "gone"}, writes : Nat, expired : BOOLEAN]
  /\ job \in [Requests -> [Nodes(kind) -> [at : {"none", "starting", "claimed", "acted", "done"}, result : Results]]]
  /\ frame \in [Requests -> FrameType]
  /\ turn = None => script = <<>>
  /\ turn # None => \/ frame[turn].pc \in {"tick", "launch", "resume"}
                    \/ frame[turn].pc = "idle" /\ script # <<>>

(* Whatever crashes, lost answers, reconciliations and overlapping requests  *)
(* do: nothing is written but the prepared candidate a person approved, a    *)
(* connector's record is changed at most once (the connectors look before    *)
(* they write), and once the artifact's write is on record no worker may     *)
(* still write it (connectorApplyWorker, artifactWriteWorker,                *)
(* recordArtifactWrite).                                                     *)
WrittenAsApproved ==
  /\ world.writes > 0 => plan.candidate /\ plan.approved
  /\ kind # "artifact" => world.writes <= 1
  /\ plan.artifact => ~Live("N7")

(* "Writes the approved artifact exactly once." (artifactWriteWorker,        *)
(* agenticWorkers.ts:705); its one attempt is by design, since a second       *)
(* automatic one "is exactly how one artifact becomes two"                   *)
(* (agenticPlanCompiler.ts:71-79).                                           *)
ArtifactWrittenOnce == kind = "artifact" => world.writes <= 1

(* A mission is completed only with every node completed, the terminal       *)
(* verifier satisfied, and the write really made: once through a connector,  *)
(* for an artifact with its row recorded, and for a shadow plan really not    *)
(* made (afterNodeSuccess, finishMission).                                   *)
CompletedIsVerified ==
  plan.status = "completed" =>
    /\ \A n \in Nodes(kind) : node[n].state = "completed"
    /\ node[TerminalVerifier(kind)].out = "ok"
    /\ CASE kind = "artifact" -> world.writes > 0 /\ plan.artifact
         [] kind = "shadow" -> world.writes = 0
         [] OTHER -> world.writes = 1

(* A worker that may still act holds the Runtime claim of its node, and is   *)
(* the only one: whatever overlapping requests lease, and although a         *)
(* reconciliation runs beside it, nobody takes the claim away while it lives *)
(* (claim, retireOrphanClaim, recordWorkerOutcome).                          *)
LiveHoldsClaim ==
  \A n \in Nodes(kind), r \in Requests : Acting(r, n) =>
    /\ worker[n].claimed /\ worker[n].recorded = None
    /\ \A q \in Requests : Acting(q, n) => q = r

(* "a failed verdict makes the node terminal ... must remove the possibility *)
(* of a write" (afterNodeSuccess, agenticMissionService.ts:1050-1056).       *)
VetoHolds == kind = "artifact" /\ worker["N4"].recorded = "no" => world.writes = 0

(* "A consequential node runs only when a durable human approval ... is       *)
(* unexpired" (agenticMissionService.ts:19-21).                              *)
WriteUnderLiveApproval == [][world'.writes > world.writes => ~world.expired]_vars

===============================================================================
