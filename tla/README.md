# chanter-operator: TLA+ models, model checking and proofs

chanter-operator (`apps/backend`) is a single-process Node service over one
SQLite file. It turns requests of a person into governed *missions*, dispatches
each to a product runtime (AutoPoster, Loop Governor, SafeCommit), and must be
able to say, after any crash, lost answer or race, what happened downstream. No
mission may be executed twice without a recorded permission, and none may be
lost. That is what the modules below are about.

Two facts shape every model:

* **Handlers interleave only at `await`.** SQLite calls are synchronous, so in
  one process everything between two `await`s is atomic with respect to other
  requests. `withTransaction` (`db/database.ts`) is `BEGIN IMMEDIATE .. COMMIT`,
  so each transaction is atomic in any case.
* **A crash can fall between two transactions**, also inside a synchronous
  stretch: what was committed stays, what a handler held in memory is gone.

## 1. Inventory

| Component | State it keeps | Operations | Talks to | Hard behaviours | What makes it correct | Module |
|---|---|---|---|---|---|---|
| AutoPoster mission (`runtimeMissions/`) | mission row, execution record and append-only journal, a ledger chain, the Runtime's idempotency claim | create, approve-and-execute, reconcile, resume, stop, replay | Agent Runtime, AutoPoster (create, lookup), Agent Run ledger | awaits in the middle of a mission, late and lost answers, crash between transactions, retry after an unknown outcome | bounded dispatches, evidence only of real drafts, three accounts (row, journal, ledger) that agree, finished is final, never stuck | `MissionIntake`, `AutoPosterMission`, `DraftPromise` |
| Approval authority (`persistedApprovalAuthority`, `approvalIssuer`, `approvalAuthorityCheckout`) | checkouts, checkpoint and decision of two scopes | bind, publish, mirror, execute | Runtime guard, the source repository | a decision publishes while another does, the source moves in between | one decision and one revision behind every execution | `ApprovalAuthority` |
| Schedule intake (`autoPosterScheduleInput`, `autoPosterGraphIntake`) | none of its own; the graph it stores | submit, dispatch to the child | AutoPoster account check, mission graph, AutoPoster mission | repeated hours later, overlapping at the await, four validations and three renderings | same intent, same answer; the child is what was asked | `ScheduleIntake` |
| Generic mission, Loop Governor (`missions/generic*`) | row, execution, journal, ledger chain | create, approve, evaluate, reconcile, resume, stop | Loop Governor process | await of an evaluation, crash, recovery | completion only with a verified result; never stuck; a child mission to the graph | `GenericMission`, `ChildMission` |
| Mission graph (`missionGraph*`) | graph, nodes, journal | compile, create, approve, advance, cancel, recover | generic and AutoPoster missions as children | child outcome racing cancellation, fan-in, crash between child and parent | nothing starts before its dependencies; results are the children's; it ends | `MissionGraph`, `GraphPromise` |
| Observation loop, result projection (`autoPosterObservation*`, `autoPosterResultProjection*`, `autoPosterMissionEvidence*`) | jobs, leases, attempts, escalations, projections, events, bundles | enqueue, claim, read, converge, refresh, acknowledge, resolve, cancel | AutoPoster status, worker timer | lease expiry against a late answer, contradicting answers | claims are evidenced; projections go forward; every job parks | `ObservationLoop` |
| SafeCommit closeout (`safeCommit/`) | authority record and its events | submit, approve, claim, complete, revoke, invalidate | external executor | revoke racing the claim, a repeated report | claim at most once, none after revocation | `SafeCommitCloseout` |
| Agent Run ledger (`agentRunLedger/`) | per-run entry chain, receipts and conflict records | append, ingest | every mission service, external producers | out-of-order, duplicated, conflicting deliveries | chain without holes, order of arrival does not matter | `AgentRunLedger` |
| Platform command (`platform/`) | command row | submit, execute | mission graph, AutoPoster | repeated and overlapping submissions, crash between command and graph | completed only on a linked result of its own graph | `PlatformCommand` |
| Agentic mission (`agentic/`) | plan, nodes, worker records, context, model charges, billing verdict | compile, admit, approve, advance, reconcile, resume, stop, reconcile billing | Loop Governor, model providers, connectors | crash around an external write, recorded results of dead requests, stale lookups | nothing written but what was approved, and once; completed only if verified; admitted missions can run | `AgenticMission`, `AgenticIntake` |
| OS control plane (`os/`) | none of its own | list, read, route a verb | Platform, direct and agentic lanes | three records written by three services | what it says is true of all of them; one identity | `OsControl` |
| Operator tasks (`services/`, `runners/`) | tasks, steps, approvals, evidence, audit lines | create, approve, reject, run, cancel, retry, attach | read-only runner | approval and cancellation changed while a run goes on | work is done once and told truthfully | `OperatorTasks` |
| Run contracts (`agentRuntime/`) | a manifest, a bridge task | execute, map a report, validate, complete | products' reports | skips, retries, cycles | complete means proven | `AgentRuns` |
| Storage (`db/`) | the SQLite file | open with migrations, `withTransaction` | processes that share it | a process dies between migrations, two open at once | an opened database is the reviewed one, with every row | `OperatorDatabase` |
| Tokens, API, wiring, tools, frontend | none | | | | stateless or I/O; not modelled | |

The components, with their files and status, are listed in `PROJECT.json`.

## 2. How the project is built

Each part is a module with its own variables, `Init`, one action per handler or
per transaction of it, `Next` and `Spec`, and its constants.
`AutoPosterMission`, `AgenticMission` and `MissionGraph` have an MC module each.
The other services keep tables of their own in one database and do not read each
other's: `Services` puts all of them beside each other, each as an instance with
its own variables, a step of `Services` being a step of one of them.
`MCServices` gives them small constants, and its variable `focus` says whose
requests arrive, so that one run checks every one of them (`Focuses`); the
proofs are about `Services`, where any of them moves at any time. Where parts do
interact, a module composes them:

* `OsControl` EXTENDS `PlatformCommand` and adds the mission under its graph.
* `MissionGraph` has its children move as `ChildStates` allows. `GenericMission`
  and `AutoPosterMission`, the two lanes of a child, are both shown to implement
  `ChildMission` (`IsAChild`), which says just that.
* In turn `GraphPromise` is what a command and the OS may rely on in a graph: it
  moves as the journal's table says (`GraphLifecycle`), completes only with the
  missions of all its nodes, and has no mission before it began. `MissionGraph`
  implements it (`KeepsPromise`); the graph inside `OsControl` does so too
  (`GraphAsPromised`), and is as free as it.
* `ScheduleIntake` goes from the caller's body over the graph to the child.
* `AutoPosterMission` implements `DraftPromise`.

| Run | Instance | Asks |
|---|---|---|
| `mission_one_process` | `AutoPosterMission_oneprocess` | do row, journal, ledger and evidence agree, and is the promise kept? |
| `mission_two_processes` | `AutoPosterMission_twoprocesses` | is there always a way on, and does every call return? |
| `agentic_plan` | `AgenticMission_plan` | written only as approved, completed only verified, live workers keep their claim |
| `services_safety` | `Services_safety` | the safety of the fourteen foci of `MCServices` |
| `services_liveness` | `Services_liveness` | what must happen in the end; approvals bound to a live tree |
| `mission_stale_absence`, `ledger_stray`, `agentic_veto`, `agentic_twice`, `agentic_budget`, `graph_stranded`, `os_two_identities` | as needed | the findings of section 15 |

## 3. The AutoPoster mission

`AutoPosterMission` starts when a mission has been created and stands in
`approval_required`. `row`, `exec`, `journal` and `ledger` are the three tables
and the ledger chain as `autoPosterMissionService.ts` reads them: of a row the
status, approver and stored result; of an execution its state, attempt
identity, retry count, reconciliation outcome, queue identity, final status and
Runtime observation; of the journal the set of (state, attempt) it names.
`proc` holds one call frame per concurrent request: a program counter, and what
the method keeps in locals across its awaits (`seen`, the execution read at
entry; `attempt`; `result`; the lookup's `answer`).

| Code | Actions |
|---|---|
| `approveAndExecute` | `Replay`, `CallApprove`, `Approve`, `StartExecution`, `PrepareRequest` |
| `executePreparedMission` | `AuthorityGranted`, `RuntimeDispatch`, outcomes in `Outcomes` |
| `persistRuntimeOutcome` | `ObserveResult`, `RecordFailure`, `DiscardOutcome` |
| `persistObservedRuntimeResult` | `PersistResult`, `CompleteMission` |
| `reconcileMission` | `CallRecovery`, `ClaimReconciliation`, `RecordReconciliation`, `DiscardReconciliation` |
| `resumeSafely` | `CallRecovery`, `ResumePersisted`, `ResumeObserved`, `ResumeApproved`, `ResumeUnique`, `ResumeNotFound` |
| `stopAndEscalate` | `CallRecovery`, `StopAndEscalate` |
| a guard that fails inside a transaction | `Refuse` (rollback and 409) |
| AutoPoster and the network (external) | `ServeLookup`, `ServeCreate`, `ServeRefuse`, `LoseRequest` |
| process death | `Crash` |

`SharedDatabase` chooses between one process (a synchronous stretch is not
interleaved: `Turn`; a crash ends every call) and several processes on one file
(every transaction may be interleaved; one dies at a time). AutoPoster's create
is idempotent per key, as the code relies on: a second create returns the first
draft. An answer may be lost, or come after the executor's timeout, in which
case the caller has already recorded `unavailable` or `failed`.

Left out: evidence references, reasons, typed errors, timestamps, redaction and
the approval authority's signatures; no decision modelled here reads them except
as "the authority grants or refuses", which is a choice.

### Properties

* `RecordsAgree`: the three accounts of a mission, written by different code
  under different guards, tell one story. The ledger follows the journal
  (`LedgerAgreesWithJournal`), a prepared request finds its row claimable and a
  finished one its result (`RowAgreesWithJournal`), and whichever attempt's
  answer completed the mission, the binding check of a later replay accepts it
  (`CompletedIsReplayable`). Proved for one process.
* `NeverStuck`: at rest, a mission is finished, waits for an approval that will
  be accepted, can be stopped, or offers its approved owner a recovery whose
  transaction will commit.
* `EvidenceIsReal`: a bound queue identity means there is a draft.
* `FinishedIsFinal`: nothing that answers late changes a finished mission.
* `KeepsPromise`: the whole implements `DraftPromise`, in which a mission is a
  phase, a number of permits and of dispatches, and a draft. Hence no more
  requests leave than one plus the retry on record (`DispatchBudget`).
* `IsAChild`: to the graph it is a `ChildMission`; proved, and no run's.
* `CallsReturn`: every call returns.

### Runs and bounds

`mission_one_process`: two requests, five attempt identities, one crash, lookup
faults unavailable, conflict and unusable. `mission_two_processes`: two
processes, three attempt identities, one crash, with fairness.
`mission_stale_absence`: the finding below.

Two requests suffice for every pairing of an in-flight call with another one,
and successive calls of one frame give longer histories: five attempt
identities allow approve, two reconciliations and two resumes in one behaviour,
which covers the single retry, its failure and the recovery of that. One crash
reaches every crash point; the state after a crash is again one from which calls
start. The other lookup faults lead to the same records as those enumerated
(`mismatch` and `invalid` to `failed_terminal`, as `unusable`). Deadlock is not
checked: a finished mission stops.

With a shared file two of the agreements do not hold, and are claimed for one
process only. `CompletedIsReplayable`: a reconciliation by a second process
between observing and persisting a result completes the mission with a result
its journal did not observe. `LedgerAgreesWithJournal`: a second process resumes
between two transactions of `approveAndExecute`, and the paused request then
moves `recovery_in_progress` back to `downstream_request_prepared` without a
ledger entry. The repository claims neither. `DispatchBudget`, `EvidenceIsReal`
and `FinishedIsFinal` hold in both modes, by the theorems below.

### Fairness

`FairSpec` assumes weak fairness of a caller's own next step and of serving its
lookup. The event loop runs every ready continuation, and each await is bounded:
the Runtime port and AutoPoster calls carry timeouts, whose expiry is an outcome
of the model (`unavailable`). Nothing is assumed of the network's requests.

## 4. Mission intake

`MissionIntake` is `createScheduleMission`. `missions` is the table, `calls`
the request each concurrent caller has under validation, `answers` what callers
were told. A request may leave out its mission id, trace, key and workspace; the
key defaults to one derived from the mission id. `Replay` answers before any
await; `AskAccount` is the await of `validateConnectedAccount`; `ReplayRaced`
and `Create` are the transaction after it, which looks again before it inserts;
`Abandon` is every way to fail in between, a crash included. The payload stands
for every field the binding compares, except the workspace, which AutoPoster
resolves when the request names none. The scheduled time is data here.

`AnswersBound`: no caller is told of a mission that differs from what it asked
for. `RetryFindsMission`: a request that names a mission or a key and lost its
answer gets the same mission, whatever other requests were served since and
whichever workspace was resolved. Proved beside them: an id, a trace and a key
name one mission however creates race (`IdentitiesUnique`), and a request that
names a mission or a key is created once (`CreatedOnce`). A request without
either names nothing and may create again: the code has no way to know it.

Focus `intake` of `services_safety`: two generated ids, two callers (two suffice
for every pair of transactions, and each may call again) and eight requests
chosen so that ids, traces, keys, workspaces and payloads collide in every
combination the lookup distinguishes, among them a key equal to the default of
another request's mission id.

## 5. SafeCommit closeout

`SafeCommitCloseout` is `SafeCommitCloseoutService`: a request waits for
approval of one plan hash, is approved, claimed by one executor, and completed,
failed, invalidated or revoked. Each method reads and checks (`CallSubmit`,
`CallApprove`, ...) and then commits a transaction guarded by the status it read
(`Submit`, `Approve`, ...); a guard that fails is `Conflict`. In one process
nothing comes between the two, since both are synchronous; the model lets any
number of processes share the file, as the guarded updates provide for. The
repetitions that are answered from the record (`SubmitReplays`, ...) change
nothing and appear in `LostAnswersReplay`; only a repeated claim is an action
(`ReplayClaim`), because it tells an executor that it holds the claim. A call
refused before its transaction changes nothing and is no action.

| Property | Says |
|---|---|
| `RowsStayUsable` | `assertRowIntegrity`, which every read runs, accepts every stored row; otherwise no later call could reach it |
| `OneHolder` | whoever was told it holds the claim is the executor on record, for the approved hash, and the approval was not revoked |
| `EventsTellStory` | the events are one chain that ends in the row's status and names the approval evidence on record |
| `LostAnswersReplay` | every call on record can be repeated, until a later decision supersedes it |

Proved only: `IdentitiesUnique` (a key and a plan belong to one request) and
`EndedIsFinal` (bindings never change, and nothing of an ended request does).

Closeouts are one of the services beside each other (focus `closeout` of
`services_safety`): two requests whose submissions share a key for two plans,
and two processes: one process suffices to overtake the transaction of the other
any number of times, since it may call again. Two founders, executors and
reports tell a repeated call from another one. `MaxIds` bounds approval evidence
ids.

## 6. Agent Run ledger

`AgentRunLedger` is `agentRunLedgerService.ts`: per run a log of transitions.
`AppendLocal` is `appendEntry` called by Operator's own missions. `ingestEntry`,
for external producers, is two transactions: `RecordConflict` or `CheckConflict`
looks for a receipt of the same event or sequence; then `Hold` keeps an early
entry, `Apply` appends a due one and drains the held ones behind it, and
`Refuse` rolls all of that back when an append throws. The model assumes that a
producer posts to its own runs; an event id that a mission uses may collide.
`Follows` is the table of status transitions, a parameter of the ledger.

`LedgerIsHistory`: whatever the order of arrival, a log is gapless, of one scope
and legal, and no event occurs twice; receipts are marked exactly when the log
has them, and none is left waiting right behind the log (proved, section 13).
`Delivered`: a legal
history gets into the log in whatever order it is posted and whatever is refused
beside it, unless something else is received into it.

Focus `ledger` posts a history of four entries with an altered one, an impostor
for an occupied sequence, one with an illegal status and one that carries a
mission's event id: each way in which an append or a receipt is refused. Four
sequence numbers allow a gap of two and a drain of three. The fairness is that a
producer posts an entry until it is stored and the server serves its posts (SF
of `Post`, since a post is not possible while the process works on another
entry), and that a process finishes what it checked (WF of `Ingest`, a
synchronous stretch of code). One process: with two, an event and a sequence are
not received once, since nothing ties the check for a conflict to the receipt;
the repository does not claim it for two.

## 7. Approval authority and schedule intake

`ApprovalAuthority`: a caller binds the mission to a revision (`IdentityFor`:
the checkpoint if there is one, else the live tree or a checkout published for
it), has the Runtime publish the immutable checkpoint, publishes the signed
decision against it and executes; a recovered result is executed in a second
scope, into which both records are mirrored one by one. Every published file is
immutable, every read of it before an await may be old. `OneAuthority`: one
decision and one revision stand behind every execution in either scope, and the
authority shown to the founder is the one it ran under. Two processes, two
revisions, two decisions (one a rejection), and commits to the source between
any two steps; `services_safety` binds to managed checkouts and
`services_liveness` to the live tree, and both check `OneAuthority`. Proved in
both modes.

`ScheduleIntake`: one idempotency key. `Submit` validates leniently and awaits
the account, `Confirmed` is the transaction that stores the graph or answers
from the stored one, `Dispatch` and `CreateChild` hand the input to
`createScheduleMission`. What a schedule is, is a record of the fields whose
coherence is decided (provider spelling, sound and its default, due time, proof,
media). `SameIntentSameAnswer`: the hours that passed, a due time that is over
or an overlapping call never turn a replay into a mismatch.
`ChildIsWhatWasAsked`: who was told that the graph is theirs gets the child they
asked for, in the workspace that was confirmed to them. Three bodies, two
overlapping calls, two workspaces, one hour.

## 8. Generic mission and mission graph

`GenericMission`: row, journal, ledger, Runtime claim, and the Governor's loop,
which may have been created, half created or not when the answer is lost.
`CompletionIsReal`: the records never claim more than the Governor did.
`NeverStuck` (run as `GenericNeverStuck`): an unfinished mission nobody works on
accepts a call that changes something: a reconciliation the journal lets begin,
or a resumption from a state that says where to go on. `IsAChild`: it is a
`ChildMission`, as is also proved. Two requests, one crash, two dispatches: the
one approved, and the one retry.

`MissionGraph`: a request holds the process (`turn`) from one await to the next,
and each journal savepoint is an action, so that a crash falls between any two.
Children move on by anybody's hand while nobody holds the process.
`ResultsAreHonest`: nothing is asked of a child before those it depends on
completed; a node and a graph report completed only what the children report;
and a settled graph has no node that could still start (one that runs already
may run on, section 15). `GraphSettlesMostly`: an interrupted graph that is
resumed again and again comes to its end, or waits for a reconciliation of its
child, or keeps a node `ready`; the last is the finding `graph_stranded`, and
`GraphSettles` is the same without it. Fairness: a request runs to its end (WF
of `Serve`; each await is a bounded child call), and resume is called again (SF
of `ResumeGraph`): the code has no timer for graphs, and what resume promises is
about being called. Two nodes, as a chain of two lanes with and without proof of
the draft, as independent nodes and as a cycle the compiler refuses; two
requests, two attempts per node, one crash or error.

## 9. Observation loop

`ObservationLoop`: jobs claimed in batches under a lease, one status read
between two transactions per attempt, and the projection of what was read. The
remote post moves from draft to upload, may answer with another identity or
contradict itself; leases lapse and jobs fall due as events (`Lapse`,
`FallDue`). `ClaimsAreEvidenced`: the confirmed snapshot, a standing review, an
escalation and a bundle that claims an upload all have their event in the
append-only log. `ProjectionGoesForward`: however late an answer, a projection
never returns to an older revision, nor replaces the snapshot of one.
`JobsSettle`: every completed node is observed until its job parks for good,
although the hook was lost or every attempt fails. Fairness: the worker's timer
goes on and reads are answered or time out (WF of `Observe` and `Answer`), time
passes (WF of `Clock`). One node, one batch and one reader for safety, two
batches without a reader for liveness, two attempts, two revisions.

## 10. Platform command and OS control plane

`PlatformCommand`: `Submit`, `Insert`, the validation, `SubmitGraph`, `Bind`,
`Execute`, `Approve` and `Link` are the statements on the row, each after an
await in which another request may have written it. `CompletionIsLinked`: the
graph was compiled from the row's payload, and the command reads as completed
only when that graph was approved by its own actor and completed with a result
that links.

A graph is also moved by requests that are not the command's: between two of its
awaits it is resumed, fails or is cancelled, and a mission that was being
created meanwhile comes to exist under a parked or settled graph (`Begun`). The
command meets every such graph, as `GraphPromise` allows it.

`OsControl` adds the AutoPoster mission under the graph and the OS's reading of
all three records. `OsAnswersHonestly`: completed, authoritative evidence, a
recorded failure and the offered actions are true of them, although three
services write them. `OneIdentity` is the finding `os_two_identities`. Two
callers, five bodies (the payload, others under the same intake key, and three
that describe no request), one failure or crash, one tick of the clock.

## 11. Agentic mission

`AgenticMission` is the fabric after admission: four compiled plans (artifact,
live, compensated, shadow), journal savepoints one by one (`script`), requests
that overlap while workers or the Governor are awaited, worker records that
outlive a request, and connectors that write, look up and undo. A crash falls
between any two savepoints. `WrittenAsApproved`: nothing is written before the
candidate was prepared and approved; through a connector, which looks before it
writes, at most once; and once an artifact's write is on record no worker may
still write it. `CompletedIsVerified`: a mission is completed only with every
node completed, the terminal verifier satisfied and the write really made, on
record for an artifact, or for a shadow plan not made.
`LiveHoldsClaim`: a worker that may still act holds the Runtime claim of its
node, which a reconciliation beside it does not take. That an artifact is
written once (`ArtifactWrittenOnce`), as the repository says in four places, is
the finding `agentic_twice`.

`agentic_plan`: two requests, with a worker job each for every node. `Bounds`
gives each kind the requests received after the submission (`calls`), the number
of them that one counts for which begins while another is under way
(`overlap`), and the troubles (crashes, failures and outside changes): artifact
5, 3, 1; live 4, 1, 1; compensated and shadow 4, 4, 2. Four requests are both
approvals, an advance and a recovery. So requests of a live plan overlap freely;
of an artifact plan one overlaps, at any moment between the approvals and the
write (`agentic_twice` finds its second write within the same bounds); and those
of the two longest plans come one at a time, with two troubles instead. The
proofs bound neither.

`AgenticIntake` is admission: the intent compiler's refusals one operator each,
the context compiler (an await per source), the router with bindings, and the
minimum durations, over the capability registry as data; then the charges of
model workers and the billing verdict. `AdmittedMissionsRun`: a body that
compiles is never refused later by the router, whose checks repeat the
compiler's from other tables; and a stored mission may run: effects lie behind
the human checkpoint, exact work has exact workers, money is spent only where
the body named the provider, required sources are in the bundle, a real write
comes with its undo. `VerdictIsBacked`: a mission reads as matched only if the
provider's record agrees with every charge, whichever overlapping reconciliation
wrote it. Sixteen bodies: one for each kind and policy, the least time for each,
and one for each reason to refuse. `PlanFitsBudget` is the finding
`agentic_budget`.

## 12. Operator tasks, run contracts, storage

`OperatorTasks`: each method reads and then writes in a transaction guarded by
the status it read; audit lines stay when it is rolled back. `WorkIsEvidenced`:
a task executes exactly while one of its steps does, is completed exactly when
one step is, and a step is completed exactly on one piece of evidence that
passed. Two callers, one task, two steps, three outcomes of a run.

`AgentRuns`: the run manifest, the mock runtime, the mappings of three adapters
and the bridge's tasks, called in any order. `CompletionIsEarned`: COMPLETE
without a failure means a passed validation, evidence and every stage in order,
unless it is a review with another verdict than accepted; a bridge task works
only on an approved plan and is completed only on a passed validation.

`OperatorDatabase`: `createDatabase`, each migration a look and a transaction.
`DatabaseIsReviewed`: a process is given only a database with the reviewed
tables and every row written before, and is refused one only for what was there
before the opens began. `OpensInTheEnd`: every process has its database in the
end (WF: a process that died or lost a race is started again). Two processes,
nine histories: untouched, the first version, half migrated, current, and four
with something no migration knows.

Bounds of `services_safety`: one trouble (crash, lost answer, failure) per
service, two concurrent callers. One crash reaches every crash point, and the
properties are about the rows it leaves, from which any further call starts.
`CHECK_DEADLOCK FALSE` in every run: finished services stop.

## 13. Proofs

Every safety invariant and action property that a passing run checks is also a
theorem, for every value of the constants and under the hypotheses named below;
the liveness properties, named at the end of this section, are not. A run
decides that a formula holds on an instance on which the interesting cases
happen, its inductive strengthening included; the proof then carries it to any
number of callers, requests, nodes, attempts, crashes.

| Proof module | About |
|---|---|
| `AutoPosterMissionProofs` | `AutoPosterMission`, and that it implements `DraftPromise` and `ChildMission` |
| `SafeCommitCloseoutProofs` | `SafeCommitCloseout`, which `Services` runs |
| `AgenticMissionProofs` | `AgenticMission` |
| `AgentRunLedgerProofs`, `OperatorTasksProofs`, `GenericMissionProofs` | the modules of those names, and that a generic mission implements `ChildMission` |
| `ServicesProofs` | `MissionIntake`, and of the instances in `Services` the approval authority, run contracts, database, schedule intake, observation loop and agentic intake; the theorems of the closeout, the ledger, the tasks and the generic mission for `Services` |
| `ExecutionProofs` | of the instances in `Services` the mission graph and the Platform command under the OS, with `GraphPromise` between them; and the types of all services, as `MCServices` checks them |

The last two prove a component as the instance `Services` makes of it. Each has
a theorem about the component alone (`A!Spec => []A!OneAuthority`) and one about
the component beside the others (`ServicesSpec => []OneAuthority`; named
`...Kept` or `...BesideOthers`). The second follows from the first because a
step of `Services` is a step of the component or leaves its variables alone.
Assumptions on constants are those named in the modules (`ServicesAssumption`
and the ones it lists), which TLC evaluates in every run.

`AutoPosterMissionProofs`, for any callers, approvers and bounds, in either
mode:

* `TypeCorrect`: `TypeOK`, inductive together with `FramesUsable`: a call frame
  carries what its program counter needs (a recovery call has read an execution,
  a persisting one holds a verified result). One lemma per kind of step.
* `EvidenceCorrect`: `EvidenceIsReal`, strengthened by what calls hold in
  flight: an answer or lookup that names a draft was given by the server, which
  never loses one.
* `FinishedCorrect`: `FinishedIsFinal`, from the guards of every transaction:
  each that changes the mission requires a state that is not finished.
* `BudgetCorrect`: `DispatchBudget`, from `PermitsCounted`: the calls that may
  still dispatch and the requests that left are together at most one more than
  the recorded retries. A resume that retires the claim records its retry in the
  same transaction, and does so once.
* `RecordsCorrect`: `RecordsAgree`, for one process (`~SharedDatabase`). What
  the three accounts say is not inductive. `RecordsInv` adds what makes a
  completion provable later (`Provable`: each state was journaled under its
  attempt, an observed one after a start of that attempt, and the result of a
  finished mission is the verified one it observed) and what a call in a
  synchronous stretch knows (`FramesHold`): nobody else is in one (`OneSync`),
  so the execution is as that call read or left it. With two processes this is
  what fails, as the bounds of section 3 describe.
* `NeverStuckCorrect`: `NeverStuck`. Nothing in it is `ENABLED`: it spells out
  the guards under which the transaction of each recovery commits. They rest on
  `ApprovalInv`: row and execution leave `approval_required` together, the row
  with its approver, and an execution that says a result was observed holds the
  observation or the unique draft of a lookup; so whoever is offered a recovery
  is turned away neither for want of an approval nor for want of a result. In
  either mode.
* `AutoPosterIsAChild`: `IsAChild`. Shown as `StateOf`, which merges the states
  the dispatcher does not tell apart, each action is a move of `ChildStates` or
  a stutter, in two processes as well.
* `PromiseKept`: `KeepsPromise`. The initial state maps to the initial state of
  `DraftPromise`, and each action to a step of it or to a stutter, under the
  invariants above.

`SafeCommitCloseoutProofs`, for any requests, actors and processes: one
inductive invariant, `CloseoutInv`, gives all six properties of section 5 and
`TypeOK`. Its strengthening is `FramesSound`, what a checked call still knows
when its transaction begins: those facts about the row no other call can change
(its hash, that it was approved, its approval evidence). The guard of the
transaction then makes what it commits one legal step of the request's life
(`Lives`, `CommitLives`), and each property is kept by a legal step, whoever
makes it (`LivesHolders`, `LivesStory`, `LivesReplays`). Assumed
(`ConstantsAssumption`): `MaxIds` is a number, and no value of a column is the
null value. `RowsKeptUsable`, `HolderKept`, `StoryKept` and `ReplayKept` carry
the four properties of the run into `Services`.

`AgenticMissionProofs`, for any plans, requests and bounds. `Inv` has five
parts: what a request carries and who holds the process (`FramesInv`); the
savepoints still to be journaled (`ScriptInv`: each is one that may be written
in any state it can be reached in, `Right`, and the plan is completed by none
before its terminal verifier is, `Closed`, wherever a crash cuts the script);
the rows (`NodesInv`: past its dependencies, within its attempts, completed with
the output its worker owes); the workers, recorded or still out (`WorkersInv`);
and what was done to the world (`WorldInv`). `TypesKept`, `ClaimsHeld`,
`WritesApproved` and `CompletionVerified` follow from it state by state, for all
four plans and however requests overlap. Two arguments carry the last two. A
connector looks at its log or at the document before it writes, so its second
write is impossible. The artifact writer does not look; but its row is put on
record only after a worker has reported (`Noted`), a recorded report is never
taken back (`Standing`, `NotedStays`), and nobody claims a recorded node again,
so whatever was written twice was written before it was on record. How often
that is the proofs leave open: the finding of section 15 is that it can be
twice.

`AgentRunLedgerProofs`, for any entries and runs. `LogsCorrect`, for any
processes: types, and `LogsAreHistories`; the append itself checks sequence,
scope, event and transition, and a drain only repeats it. `HistoryCorrect`, all
of `LedgerIsHistory`, for one process and producers that post to their own runs
(`OneProcess`, `OwnRuns`): `MarkInv` adds that every mark is of a receipt and
that what was checked for conflicts still has none, which only holds because
nothing else runs between the check and the receipt.

`OperatorTasksProofs`, for any tasks, actions, outcomes and callers in any
processes: `WorkCorrect`, `WorkIsEvidenced`. `BoardInv` reads it as a property
of one task and its steps (`Sound`: at most one step has the status of a task
that executes or is completed, and the evidence of a step fits its status), plus
what a call carries: a step that is there, as steps are never removed. Only five
shapes of change occur (`TaskOnly`, `StepDecided`, `StepClaimed`,
`StepRecorded`, `StepAdded`), and the guarded updates (`TransitionTask`,
`TransitionStep`) make each transaction one of them, whatever its call had read.

`GenericMissionProofs`, for any callers, approvers, dispatches and crashes, one
lemma per action of `GenericMission` on the inductive `Inv`: the values have
their types (`Typed`); row, execution and ledger say the same of each other
(`Agree`); ids and a resolved claim come from a loop the Governor has
(`Backed`); and what a request in flight carries is still true (`Knows`: who
persists or completes holds a verified success, who found a unique loop did find
one). `GenericTypeCorrect` and `CompletionCorrect` follow state by state. For
`ChildImplemented` the mission is mapped to what the graph is shown of it
(`Shown`: the state of the child, and who approved), and every action is shown
to be a step of `ChildMission` or a stutter (`ShownMoves`), under the same
invariant. `GenericNeverStuckCorrect` needs `OpenInv` besides: no path of this
lane leaves a mission in `reconciliation_required`, from which the recoveries
could not go on, and an observed one holds what was seen or the loop that was
found. Assumed (`GenericAssumption`): the bounds are numbers, and there are
approvers, none of them called `None`.

`ServicesProofs`, one component after the other:

* Mission intake, for any requests, callers and identities: `IntakeInv`
  (`TypeOK`, `IdentitiesUnique`, `AnswersBound`) is inductive, because the
  transaction of `Create` repeats the lookup. It implies `RetryFindsMission`
  state by state (`BoundIsFound`: a mission that agrees with a request is the
  one its lookup finds, since its identities are its own), and `CreatedOnce`
  follows from it: a second creation would have found the first.
* Approval authority, for any callers, revisions and decisions, in either mode:
  `AuthorityKept`, `OneAuthority` from `AuthorityInv`. Records are never
  replaced once published (`RecordsKept`), so what a caller knew before its
  await still holds (`KnowsKept`) and what was executed stays backed
  (`BackedKept`); each action publishes at most one record.
* Run contracts: `RunsKept`, from `RunInv`: a manifest that says COMPLETE
  without a failure has the proof of it (`Earned`), and a bridge task past its
  approval has it and succeeds on a passed validation only (`Allowed`).
* Database, for any histories of the file: `DatabaseKept`, from `DbInv`: an
  opener has behind it what its program counter passed (`Behind`), and since
  what is reviewed stays reviewed (`Grown`), whoever migrates beside it cannot
  take that away; what it read of the columns is still so when it writes
  (`ReadFor`).
* Schedule intake: `ScheduledAsAsked` in either mode, `AnswersKept` for one
  process (`~SharedDatabase`), from `ScheduleInv`: the stored graph is in the
  form that a second rendering leaves alone and still passes the strict
  validation (`GraphRight`), its child is that form handed on (`ChildRight`), a
  call under way holds a coherent body (`CallRight`), and in one process a call
  that stores is alone, so that a refusal is final (`OneAtATime`, `Refused`).
* Observation loop, for any posts, batches and readers: `LoopInv`. Evidence is
  only added to (`Kept`), so results, bundles, escalations and calls under way
  that rest on an event keep resting on it; `ProjectionOnlyAdvances` reads the
  same steps as an action property (`Forward`).
* Agentic intake: `BooksInv` (bills, charges and accountants) for
  `VerdictBackedBesideOthers`, `AdmissionInv` for `AdmittedRunBesideOthers`.
  That the router refuses nothing that compiled is an argument over both tables
  of capabilities: what the compiler chose satisfies each check the router
  repeats.

`ExecutionProofs`. First what the graph and those above it promise each other.
Each half is proved of its own module, and neither mentions the other's state:

* `GraphKeepsPromise`: `MissionGraph` implements `GraphPromise`. A graph is
  completed by a pass that found every node completed, which by `GraphInv` the
  missions then are; and a mission is created by a request that found the graph
  running, and whatever became of it since, it has begun (`NotBegunKept`).
* `OsMeetsEveryGraph`: in every reachable state of `OsControl`, whatever a graph
  that keeps the promise, or the mission under it, may do by anybody else's hand
  is a step of `OsControl` (until `MaxTroubles` of them were approvals or
  cancellations). So what holds of its answers holds over the real graph, which
  is one of these.
* `OsGraphAsPromised`: nor does its graph do anything else: every step of it,
  the command's and the OS's own included, is one of `GraphPromise`.

Then the invariants:

* Mission graph, for any graph, callers and crashes, and whatever the children
  do: `GraphsKept`, from `GraphInv`: what each request still has to do is right
  of the rows it will meet (`ListRight`), each node says what its child allows
  (`NodeRight`), the graph what its nodes allow (`GraphRight`), and a ready node
  has its dependencies completed (`ReadyRight`). What a request works through is
  a set or a `CHOOSE` of the least index, whose existence is `LeastOf`, from the
  well-foundedness of `<` (`LessIsWellFounded`).
* Platform command: `CommandsLinked` and `OsAnswersKept`, from `PlatformInv` (a
  call under way and the row agree on payload and binding, and neither is ever
  taken back: `Onward`) and `ChildInv` (a completed graph has a completed
  child).

Last the types. `ServicesTypeCorrect` is `ServicesTypeOK`, what the runs check
of the one service whose requests arrive; `EveryTypeCorrect` the same of all at
once, from one theorem per component. For two of them being well typed says
something about interleavings, and needs an invariant of its own:

* `LoopTypes`, from `LoopFits`: exactly a job under a lease has an owner, and no
  attempt is numbered beyond its job's counter. A call that awaits its answer
  holds such a number although the job may be leased to another meanwhile; it
  keeps it because counters only grow (`CountsGrow`).
* `GraphTypes`, from `GraphFits` with `GraphInv`: no node is tried beyond its
  budget, although the attempt is counted by another savepoint than the one that
  looked at the budget. What a request still has on its list are only nodes that
  were never tried, or only recoveries, which were counted when they were listed
  (`ListsFit`, `NodesFit`); and a request between two passes has a node left.
  What was compiled compiles, and so does the empty graph before it
  (`NoneNeeded`).

The others follow from invariants above (`RunTypes`, `DatabaseTypes`,
`ScheduleTypes`, `CommandTypes`, `AuthorityTypes`) or from their own types with
the loop over a finite set written out (`IntentTypes`; `BoardTypes`, in
`OperatorTasksProofs`, which counts what was attached).

The assumptions these proofs rest on are weak: bounds are numbers (`MaxMoves`,
`MaxTroubles`, `MaxRevision`), a batch has an owner, and AutoPoster answers with
one of the five statuses the projection tells apart (`Face`;
`autoPosterResultProjectionService.ts` reads pending, scheduled and ready
alike).

Only model-checked, as out of the prover's reach: liveness (`CallsReturn`,
`Delivered`, `GraphSettlesMostly`, `JobsSettle`, `OpensInTheEnd`). Conversely,
`IsAChild` of the AutoPoster mission, `KeepsPromise` of the graph and
`GraphAsPromised` of the OS are proved and are no property of a run.

## 14. Fairness, in one place

No specification assumes fairness of crashes, of people or of other services
beyond this: a call's own continuation runs (the event loop), an await ends
(each has a timeout whose expiry is an outcome of its model), the observation
timer goes on, producers post until they are told of success, a graph is resumed
again, and a process that lost a race to open the database is restarted.

## 15. Findings

Each is a run that violates what the repository says of itself.

1. `mission_stale_absence`: a `not_found` from an earlier reconciliation
   outlives a later failure of the original dispatch and still permits the
   retry.
2. `ledger_stray`: an entry is held after a check of its event and sequence
   only. If it cannot be applied in its turn, the legal entry before it is
   refused with it, at every attempt, and its receipt is rolled back.
3. `agentic_veto`: a verifier result that was recorded before a crash is
   committed as a completion by resume although its verdict is `failed`, and the
   mission goes on to write.
4. `agentic_budget`: one constant stands for the least duration of three
   exception plans; it admits a budget that a compensated plan exceeds.
5. `graph_stranded`: a crash between two savepoints of a dispatch leaves a node
   `ready`, which neither the scheduler nor resume picks up.
6. `os_two_identities`: get and list refuse the direct identity of a mission
   that a command owns; approve, reconcile, resume and stop do not.
7. `agentic_twice`: two requests advance one artifact mission and both await the
   Governor on its ready write node. One leases the node and writes; its outcome
   is lost at the deadline, which releases the claim and fails the node
   recoverably. The late answer of the other, about the rows it had read before
   it asked, then leases the node once more: `transitionNode` asks only whether
   a node may run again, and the attempt it is given is the old number plus one,
   so the limit of one attempt neither refuses nor counts it. The artifact is
   written a second time, with the same approved content.

Observed while modelling, and no run's question.

* AutoPoster mission: stop is not offered while a recovery is claimed, also when
  the claiming call has died (`autoPosterMissionService.ts:370`, README: stop
  "stays available throughout"); a stored result is not returned to another
  approver (`:1312`).
* Agentic: an approval's expiry is stored and never read at the write, although
  `agenticMissionService.ts:19` lists it among the conditions of a consequential
  node (`WriteUnderLiveApproval` in `AgenticMission` states it; checked, it
  fails); a recovered terminal verifier leaves the mission running; two
  requirements that name one source give two items if it changed between the
  reads.
* Observation: a crash in an attempt raises its number beyond the limit;
  `convergeJob`'s unguarded updates revive a cancelled job.
* Generic mission: a reconciliation that ends in `failed_terminal` leaves the
  row `executing`.
* Graph: cancel is possible while a recoverable node's child call is in flight;
  two overlapping requests can have two nodes running at once, and if one of
  them fails for good the graph is settled while the other runs on (no node is
  started after that, which is what `ResultsAreHonest` says); a child approved
  directly by another approver fails its node although it completes.
* Schedule intake: whether a sound was chosen or left to the default does not
  survive the envelope; a child may be created after its due time; with two
  processes an overlapping call can be told of a mismatch that is none.
* Platform: a submission that fails late, or a late `Bind`, writes over the
  progress of another request, though never to a false completion.
* Tasks: a crash between claim and record leaves a task executing for ever; a
  cancelled task or an audit line of a rolled back call makes the integrity
  report unhealthy.
* Bridge: `completeTask` accepts the passed validation of an earlier cycle.
* Storage: `checkAndMigrateCancelled` (`database.ts:586`) cannot succeed on a
  database whose tasks have steps.

## 16. Not modelled

Cryptography of the approval authority, text rules of the schedule input, health
probes, HTTP and its tokens, configuration and wiring, prompts and rendering,
the git connector, registry and readiness reports, the agentic lane of the OS,
the frontend and the tools: stateless, read-only, or pure I/O. Evidence
references, reasons, timestamps and redaction are left out where no decision
reads them. Several processes on one file are modelled where the code provides
for them (`SharedDatabase` of the AutoPoster mission, closeout, Platform
command, task board, storage, approval authority); the graph, generic and
agentic services are modelled in the one process they are written for.
