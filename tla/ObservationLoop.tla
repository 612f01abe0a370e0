--------------------------- MODULE ObservationLoop ----------------------------
(***************************************************************************)
(* Reading back what AutoPoster did with a scheduled post: the observation *)
(* jobs and their leases (missions/autoPosterObservationService.ts), the   *)
(* projection of each strict status read into durable result rows          *)
(* (autoPosterResultProjectionService.ts), and the evidence bundle made    *)
(* from both (autoPosterMissionEvidenceService.ts).                        *)
(*                                                                         *)
(* Batches of the poll worker and of HTTP callers, founder refreshes and   *)
(* evidence requests share the rows; each reads the remote post between    *)
(* two transactions, and the answer may be late.  A post is one of the     *)
(* constant Looks, seen at a revision; one queue job per node.  Time is    *)
(* two events: a waiting job falls due, a lease lapses.                    *)
(***************************************************************************)
EXTENDS Naturals, Sequences, FiniteSets, SequencesExt

CONSTANTS Nodes,        \* AutoPoster schedule nodes of the graphs
          Batches,      \* observation batches that may be under way at once
          Readers,      \* refresh and evidence requests under way at once
          Owner,        \* the lease owner each batch claims for
          Looks,        \* what a post may look like
          Face,         \* the fields of each look that the code reads
          Draft,        \* the look of a post when it was scheduled
          MaxAttempts, BatchSize, MaxRevision, MaxTroubles

None == "none"

LoopAssumption ==
  /\ IsFiniteSet(Nodes) /\ None \notin Looks
  /\ Batches \cap Readers = {} /\ Draft \in Looks /\ DOMAIN Owner = Batches /\ DOMAIN Face = Looks
  /\ MaxAttempts \in 1..12 /\ BatchSize \in 1..16 /\ MaxRevision \in Nat \ {0} /\ MaxTroubles \in Nat
  /\ \A b \in Batches : Owner[b] # None
  /\ \A look \in Looks :
       /\ Face[look].status \in {"scheduled", "processing", "posted", "failed", "outcome_unknown"}
       /\ Face[look].proven \in BOOLEAN /\ Face[look].started \in BOOLEAN

VARIABLES completed,  \* nodes the graph has completed with a queue binding
          job,        \* operator_autoposter_observation_jobs
          tried,      \* attempt rows: the numbers of the attempts that converged
          escalation, \* status of the one escalation a job may have
          projection, \* operator_autoposter_result_projections
          evidence,   \* operator_autoposter_result_events
          bundle,     \* the last evidence manifest of the node's graph
          post,       \* AutoPoster's own record of the post
          actor,      \* batches and requests in flight
          troubles    \* crashes, contradictions and cancellations so far

vars == <<completed, job, tried, escalation, projection, evidence, bundle, post, actor, troubles>>
rows == <<completed, job, tried, escalation>>
results == <<projection, evidence>>

Actors == Batches \cup Readers
Parked == {"converged", "escalation_required", "failed_terminal", "cancelled"}
Closed == {"resolved", "dismissed"}
NoJob == [status |-> "absent", count |-> 0, due |-> FALSE, owner |-> None, lapsed |-> FALSE]
NoProjection == [rev |-> 0, look |-> None, status |-> None]
NoBundle == [upload |-> FALSE, look |-> None]
NoAnswer == [rev |-> 0, look |-> None]
Idle == [pc |-> "idle", todo |-> <<>>, node |-> None, number |-> 0,
         answer |-> NoAnswer, seen |-> NoProjection, class |-> None]

Init ==
  /\ completed = {}
  /\ job = [n \in Nodes |-> NoJob] /\ tried = [n \in Nodes |-> {}]
  /\ escalation = [n \in Nodes |-> None]
  /\ projection = [n \in Nodes |-> NoProjection] /\ evidence = [n \in Nodes |-> {}]
  /\ bundle = [n \in Nodes |-> NoBundle]
  /\ post = [n \in Nodes |-> [rev |-> 1, look |-> Draft]]
  /\ actor = [a \in Actors |-> Idle] /\ troubles = 0

-------------------------------------------------------------------------------
(* Classification of a post, and of what its projection came to.           *)

(* A session was begun with the provider, and no proof says what became of  *)
(* it: whatever the operation is called.                                    *)
Ambiguous(face) ==
  /\ face.operation \notin {None, "completed_private", "contradictory_public", "provider_missing"}
  /\ \/ face.started
     \/ face.operation \in {"session_persisted", "uploading", "resumable", "outcome_unknown"}
OperationStatus(face) ==
  CASE face.operation = "completed_private" /\ face.proven -> "uploaded_private"
    [] face.operation = "completed_private" /\ ~face.proven -> "manual_review_required"
    [] face.operation = "contradictory_public" -> "manual_review_required"
    [] face.operation = "provider_missing" -> "outcome_unknown"
    [] Ambiguous(face) -> "outcome_unknown"
    [] OTHER -> None
QueueStatus(face) ==
  CASE face.status = "scheduled" /\ ~face.approved -> "awaiting_publish_approval"
    [] face.status = "scheduled" /\ face.approved /\ face.retrying -> "retry_scheduled"
    [] face.status = "scheduled" /\ face.approved /\ ~face.retrying -> "approved_for_publish"
    [] face.status = "posted" /\ face.manual -> "manually_reconciled"
    [] face.status = "posted" /\ ~face.manual /\ (~face.approved \/ face.provider = "youtube")
         -> "manual_review_required"
    [] face.status = "posted" -> "provider_accepted_unverified"
    [] OTHER -> face.status              \* processing, failed, outcome_unknown
Classified(look) ==
  LET face == Face[look] IN
  IF face.provider = "youtube" /\ OperationStatus(face) # None
  THEN OperationStatus(face) ELSE QueueStatus(face)
MustReauthorize(look) == Face[look].status = "failed" /\ Face[look].cause = "auth"

ClassOfStatus(status, reauthorize) ==
  CASE status \in {"approved_for_publish", "processing", "retry_scheduled"} -> "continue_observing"
    [] status = "uploaded_private" -> "converged"
    [] status = "failed" -> IF reauthorize THEN "escalation_required" ELSE "failed_terminal"
    [] status \in {"awaiting_publish_approval", "provider_accepted_unverified",
                   "manually_reconciled", "manual_review_required", "outcome_unknown"}
         -> "escalation_required"
    [] OTHER -> "failed_terminal"

-------------------------------------------------------------------------------
(* Jobs.                                                                    *)

Pending(n) == [NoJob EXCEPT !.status = "pending"]
(* The completion hook may be lost; every batch first makes up for it.      *)
CompleteNode(n) ==
  /\ n \notin completed
  /\ completed' = completed \cup {n}
  /\ \/ job' = [job EXCEPT ![n] = Pending(n)]
     \/ UNCHANGED job
  /\ UNCHANGED <<tried, escalation, results, bundle, post, actor, troubles>>

NoBackfill(n) == job[n]
Backfilled(n) == IF n \in completed /\ job[n].status = "absent" THEN Pending(n) ELSE job[n]
Claimable(j) == \/ j.status \in {"pending", "waiting"} /\ j.due
                \/ j.status \in {"leased", "observing"} /\ j.lapsed

RunBatch(b) ==
  LET now == [n \in Nodes |-> Backfilled(n)]
      due == {n \in Nodes : Claimable(now[n])} IN
  /\ actor[b].pc = "idle"
  /\ now # job \/ due # {}
  /\ \E S \in SUBSET due :
       /\ Cardinality(S) = IF Cardinality(due) > BatchSize THEN BatchSize ELSE Cardinality(due)
       /\ job' = [n \in Nodes |-> IF n \in S
                    THEN [now[n] EXCEPT !.status = "leased", !.owner = Owner[b], !.lapsed = FALSE]
                    ELSE now[n]]
       /\ \E order \in SetToSeqs(S) :
            actor' = [actor EXCEPT ![b] = IF S = {} THEN Idle
                                          ELSE [Idle EXCEPT !.pc = "next", !.todo = order]]
  /\ UNCHANGED <<completed, tried, escalation, results, bundle, post, troubles>>

(* The attempt is counted before the read; a lost lease ends the batch.     *)
BeginAttempt(b) ==
  LET n == Head(actor[b].todo) IN
  /\ actor[b].pc = "next"
  /\ IF job[n].status = "leased" /\ job[n].owner = Owner[b]
     THEN /\ job' = [job EXCEPT ![n].status = "observing", ![n].count = @ + 1]
          /\ actor' = [actor EXCEPT ![b].pc = "asked", ![b].node = n,
                                    ![b].number = job[n].count + 1]
     ELSE actor' = [actor EXCEPT ![b] = Idle] /\ UNCHANGED job
  /\ UNCHANGED <<completed, tried, escalation, results, bundle, post, troubles>>

-------------------------------------------------------------------------------
(* Status reads.  The remote answers at one moment, the answer is used at   *)
(* another.                                                                 *)

Answer(a) ==
  /\ actor[a].pc = "asked"
  /\ \/ actor' = [actor EXCEPT ![a].pc = "answered", ![a].answer = post[actor[a].node]]
        /\ UNCHANGED troubles
     \/ /\ troubles < MaxTroubles /\ troubles' = troubles + 1
        /\ \E failure \in {"unavailable", "foreign"} :
             actor' = [actor EXCEPT ![a].pc = "answered", ![a].answer = [rev |-> 0, look |-> failure]]
  /\ UNCHANGED <<rows, results, bundle, post>>

Event(kind, seen) == [kind |-> kind, rev |-> seen.rev, look |-> seen.look]
Review(n) == [projection EXCEPT ![n].status = "manual_review_required"]

Store(n, seen) ==
  /\ projection' = [projection EXCEPT ![n] =
                      [rev |-> seen.rev, look |-> seen.look, status |-> Classified(seen.look)]]
  /\ evidence' = [evidence EXCEPT ![n] = @ \cup {Event("observation", seen)}]

(* Seeded fault: whatever comes last is stored. *)
StoreLatest(n, seen) ==
  IF seen.rev = 0 \/ projection[n].rev = seen.rev THEN UNCHANGED results ELSE Store(n, seen)
(* What one answer does to the result rows.                                 *)
Persist(n, seen) ==
  CASE seen.look = "unavailable" -> UNCHANGED results
    [] seen.look = "foreign" ->
         /\ projection' = Review(n)
         /\ evidence' = [evidence EXCEPT ![n] = @ \cup {Event("identity_mismatch", seen)}]
    [] seen.rev > 0 /\ seen.rev < projection[n].rev -> UNCHANGED results
    [] seen.rev > 0 /\ seen.rev = projection[n].rev /\ seen.look = projection[n].look -> UNCHANGED results
    [] seen.rev > 0 /\ seen.rev = projection[n].rev /\ seen.look # projection[n].look ->
         /\ projection' = Review(n)
         /\ evidence' = [evidence EXCEPT ![n] = @ \cup {Event("contradiction", seen)}]
    [] seen.rev > projection[n].rev -> Store(n, seen)

Convergence(n, seen) ==
  CASE seen.look = "unavailable" -> "transport_retry"
    [] seen.look = "foreign" -> "failed_terminal"
    [] seen.rev > 0 /\ seen.rev = projection[n].rev /\ seen.look # projection[n].look -> "failed_terminal"
    [] OTHER -> ClassOfStatus(projection'[n].status, MustReauthorize(projection'[n].look))

Project(b) ==
  LET n == actor[b].node IN
  /\ b \in Batches /\ actor[b].pc = "answered"
  /\ Persist(n, actor[b].answer)
  /\ actor' = [actor EXCEPT ![b].pc = "projected", ![b].answer = NoAnswer,
                            ![b].class = Convergence(n, actor[b].answer)]
  /\ UNCHANGED <<rows, bundle, post, troubles>>

-------------------------------------------------------------------------------
(* Convergence of an attempt.  The job is written whatever became of it.    *)

Exhausted(b) == /\ actor[b].number >= MaxAttempts
                /\ actor[b].class \in {"continue_observing", "transport_retry"}
Verdict(b) == IF Exhausted(b) THEN "escalation_required" ELSE actor[b].class
NextStatus(class) ==
  IF class \in {"continue_observing", "transport_retry"} THEN "waiting" ELSE class
Converge(b) ==
  LET n == actor[b].node IN
  /\ actor[b].pc = "projected"
  /\ job' = [job EXCEPT ![n] = [@ EXCEPT !.status = NextStatus(Verdict(b)), !.due = FALSE,
                                         !.owner = None, !.lapsed = FALSE]]
  /\ tried' = [tried EXCEPT ![n] = @ \cup {actor[b].number}]
  /\ escalation' = [escalation EXCEPT ![n] =
                      IF Verdict(b) = "escalation_required" /\ @ = None THEN "open" ELSE @]
  /\ actor' = [actor EXCEPT ![b] = IF Len(@.todo) = 1 THEN Idle
                                   ELSE [Idle EXCEPT !.pc = "next", !.todo = Tail(actor[b].todo)]]
  /\ UNCHANGED <<completed, results, bundle, post, troubles>>

-------------------------------------------------------------------------------
(* Refreshes, evidence bundles and the founder's decisions.                 *)

Refresh(r, n) ==
  /\ actor[r].pc = "idle" /\ n \in completed
  /\ actor' = [actor EXCEPT ![r] = [Idle EXCEPT !.pc = "asked", !.node = n, !.class = "refresh"]]
  /\ UNCHANGED <<rows, results, bundle, post, troubles>>

(* A bundle quotes the projection it read before it asks for the live post. *)
GenerateEvidence(r, n) ==
  /\ actor[r].pc = "idle" /\ n \in completed
  /\ actor' = [actor EXCEPT ![r] = [Idle EXCEPT !.pc = "asked", !.node = n,
                                    !.class = "evidence", !.seen = projection[n]]]
  /\ UNCHANGED <<rows, results, bundle, post, troubles>>

FinishRefresh(r) ==
  /\ r \in Readers /\ actor[r].pc = "answered" /\ actor[r].class = "refresh"
  /\ Persist(actor[r].node, actor[r].answer)
  /\ actor' = [actor EXCEPT ![r] = Idle]
  /\ UNCHANGED <<rows, bundle, post, troubles>>

PrivateReceipt(look) ==
  look \in Looks /\ Face[look].operation = "completed_private" /\ Face[look].proven
Publishable(look) == \/ Face[look].status = "posted" /\ ~PrivateReceipt(look)
                     \/ Face[look].approved /\ Face[look].status \notin {"posted", "failed"}
(* One provider operation: its ids, its receipt and its last event agree,   *)
(* whatever else the post shows.                                            *)
SameOperation(x, y) ==
  /\ Face[x].operation # None /\ Face[y].operation # None
  /\ Face[x].trace = Face[y].trace
(* The live operation is the one the projection stored.                     *)
OperationAssumed(seen, answer) == TRUE
OperationPersisted(seen, answer) == seen.look \in Looks /\ SameOperation(seen.look, answer.look)
ExactlyOneUpload(r) == /\ PrivateReceipt(actor[r].answer.look)
                       /\ OperationPersisted(actor[r].seen, actor[r].answer)

WriteBundle(r) ==
  LET n == actor[r].node   answer == actor[r].answer IN
  /\ r \in Readers /\ actor[r].pc = "answered" /\ actor[r].class = "evidence"
  /\ bundle' = IF answer.look \in Looks /\ Publishable(answer.look) THEN bundle
               ELSE [bundle EXCEPT ![n] =
                       [upload |-> ExactlyOneUpload(r), look |-> answer.look]]
  /\ actor' = [actor EXCEPT ![r] = Idle]
  /\ UNCHANGED <<rows, results, post, troubles>>

Acknowledge(n) ==
  /\ escalation[n] = "open"
  /\ escalation' = [escalation EXCEPT ![n] = "acknowledged"]
  /\ UNCHANGED <<completed, job, tried, results, bundle, post, actor, troubles>>

Resolve(n) ==
  /\ escalation[n] \in {"open", "acknowledged"}
  /\ \E disposition \in Closed : escalation' = [escalation EXCEPT ![n] = disposition]
  /\ UNCHANGED <<completed, job, tried, results, bundle, post, actor, troubles>>

CancelJob(n) ==
  /\ job[n].status \notin Parked \cup {"absent"} /\ troubles < MaxTroubles
  /\ job' = [job EXCEPT ![n] = [@ EXCEPT !.status = "cancelled", !.due = FALSE,
                                         !.owner = None, !.lapsed = FALSE]]
  /\ troubles' = troubles + 1
  /\ UNCHANGED <<completed, tried, escalation, results, bundle, post, actor>>

-------------------------------------------------------------------------------
(* The environment.                                                         *)

FallDue(n) ==
  /\ job[n].status \in {"pending", "waiting"} /\ ~job[n].due
  /\ job' = [job EXCEPT ![n].due = TRUE]
  /\ UNCHANGED <<completed, tried, escalation, results, bundle, post, actor, troubles>>

Lapse(n) ==
  /\ job[n].status \in {"leased", "observing"} /\ ~job[n].lapsed
  /\ job' = [job EXCEPT ![n].lapsed = TRUE]
  /\ UNCHANGED <<completed, tried, escalation, results, bundle, post, actor, troubles>>

PostMoves(n) ==
  /\ post[n].rev < MaxRevision
  /\ \E look \in Looks \ {post[n].look} : post' = [post EXCEPT ![n] = [rev |-> @.rev + 1, look |-> look]]
  /\ UNCHANGED <<rows, results, bundle, actor, troubles>>

(* AutoPoster shows another snapshot under the revision it showed before.   *)
PostContradicts(n) ==
  /\ troubles < MaxTroubles /\ troubles' = troubles + 1
  /\ \E look \in Looks \ {post[n].look} : post' = [post EXCEPT ![n].look = look]
  /\ UNCHANGED <<rows, results, bundle, actor>>

Crash ==
  /\ troubles < MaxTroubles /\ troubles' = troubles + 1
  /\ actor' = [a \in Actors |-> Idle]
  /\ UNCHANGED <<rows, results, bundle, post>>

Observe(b) == RunBatch(b) \/ BeginAttempt(b) \/ Project(b) \/ Converge(b)
Finish(r) == FinishRefresh(r) \/ WriteBundle(r)
Clock(n) == FallDue(n) \/ Lapse(n)

Next ==
  \/ \E b \in Batches : Observe(b)
  \/ \E r \in Readers : Finish(r) \/ \E n \in Nodes : Refresh(r, n) \/ GenerateEvidence(r, n)
  \/ \E a \in Actors : Answer(a)
  \/ \E n \in Nodes : \/ Clock(n) \/ CompleteNode(n) \/ Acknowledge(n) \/ Resolve(n)
                      \/ CancelJob(n) \/ PostMoves(n) \/ PostContradicts(n)
  \/ Crash

(* The worker polls, reads are answered or time out, and time passes.       *)
Fairness == /\ \A b \in Batches : WF_vars(Observe(b))
            /\ \A r \in Readers : WF_vars(Finish(r))
            /\ \A a \in Actors : WF_vars(Answer(a))
            /\ \A n \in Nodes : WF_vars(Clock(n))
Spec == Init /\ [][Next]_vars
FairSpec == Spec /\ Fairness
-------------------------------------------------------------------------------
Statuses == {None, "uploaded_private", "manual_review_required", "outcome_unknown",
  "awaiting_publish_approval", "retry_scheduled", "approved_for_publish",
  "manually_reconciled", "provider_accepted_unverified", "processing", "failed"}
Seen == [rev : 0..MaxRevision, look : Looks \cup {None, "unavailable", "foreign"}]
Projections == [rev : 0..MaxRevision, look : Looks \cup {None}, status : Statuses]

(* Rows hold the columns' closed value sets, only leased jobs have an owner *)
(* and no attempt row is numbered beyond the job's counter.                 *)
TypeOK ==
  /\ completed \subseteq Nodes /\ troubles \in 0..MaxTroubles
  /\ \A n \in Nodes :
       /\ job[n].status \in Parked \cup {"absent", "pending", "waiting", "leased", "observing"}
       /\ (job[n].owner # None) = (job[n].status \in {"leased", "observing"})
       /\ tried[n] \subseteq 1..job[n].count
       /\ escalation[n] \in Closed \cup {None, "open", "acknowledged"}
       /\ projection[n] \in Projections /\ post[n] \in Seen
       /\ evidence[n] \subseteq [kind : {"observation", "contradiction", "identity_mismatch"},
                                 rev : 0..MaxRevision, look : Looks \cup {"foreign"}]
       /\ bundle[n].upload \in BOOLEAN
  /\ \A a \in Actors : actor[a].pc \in {"idle", "next", "asked", "answered", "projected"}

(* Everything the rows claim of a post is in the append-only evidence: the  *)
(* confirmed snapshot, a standing review, an escalation, and a bundle that  *)
(* claims an upload: its provider operation was observed                    *)
(* (refreshNode, persistMismatch, generateEvidenceBundle).                  *)
ClaimsAreEvidenced ==
  \A n \in Nodes :
    /\ projection[n].rev > 0 => Event("observation", projection[n]) \in evidence[n]
    /\ projection[n].rev = 0 /\ projection[n].status # None =>
         \E e \in evidence[n] : e.kind = "identity_mismatch"
    /\ job[n].status = "escalation_required" => escalation[n] # None
    /\ bundle[n].upload =>
         \E e \in evidence[n] :
           e.kind = "observation" /\ e.look \in Looks /\ SameOperation(e.look, bundle[n].look)

(* However late an answer comes, a projection never returns to an older     *)
(* revision and never replaces the snapshot confirmed for a revision.       *)
ProjectionGoesForward ==
  [][\A n \in Nodes : /\ projection'[n].rev >= projection[n].rev
                      /\ projection'[n].rev = projection[n].rev =>
                           projection'[n].look = projection[n].look]_vars

(* Every completed node is observed until its job parks, for good, although *)
(* hooks, leases and answers are lost (backfill, lapsed leases, the attempt *)
(* limit).                                                                  *)
JobsSettle == \A n \in Nodes : n \in completed ~> [](job[n].status \in Parked)
===============================================================================
