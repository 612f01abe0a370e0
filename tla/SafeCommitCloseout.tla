------------------------- MODULE SafeCommitCloseout -------------------------
(***************************************************************************)
(* The SafeCommit closeout authority: a founder approves one exact plan    *)
(* hash, one executor claims it, and the executor alone reports how it     *)
(* ended.  Every method of SafeCommitCloseoutService reads the row, checks *)
(* it, and then commits in a transaction guarded by the status it read, so *)
(* each is two steps here: processes sharing the database file interleave  *)
(* between them.  A call refused before its transaction changes nothing    *)
(* and is not an action.                                                   *)
(*                                                                         *)
(* Left out: texts, timestamps, notes, schema versions, the digests' bytes *)
(* and protected values, and the fixed reasons of invalidate and complete. *)
(* A report stands for a founder's reason, or for an evidence reference    *)
(* with its digest.                                                        *)
(***************************************************************************)
EXTENDS Integers, Sequences, FiniteSets

CONSTANTS
    Requests,     \* request ids
    Submissions,  \* what a submission binds: [key, plan, hash]
    Submitters,   \* actors with the submission token
    Founders,     \* actors with the control token
    Executors,    \* actors with the executor token
    Reports,      \* reasons and evidence references
    Processes,    \* Operator processes on the database file
    MaxIds,       \* bound on idFactory: approval evidence identities
    None          \* SQL NULL

VARIABLES
    rows,     \* operator_safecommit_closeouts
    events,   \* operator_safecommit_closeout_events
    proc,     \* the call each process has checked and not yet committed
    ids,      \* approval evidence identities given out
    granted   \* <<executor, request>>: was told it holds the claim

vars == <<rows, events, proc, ids, granted>>

-----------------------------------------------------------------------------
Statuses == {"approval_required", "approved", "execution_claimed", "completed",
             "failed_terminal", "invalidated", "revoked"}
(* isTerminal in assertRowIntegrity *)
Ended == {"completed", "failed_terminal", "invalidated", "revoked"}

Actors == Submitters \cup Founders \cup Executors
Hashes == {sub.hash : sub \in Submissions}

Rows == [bound : Submissions, requestedBy : Submitters, status : Statuses,
         approvedBy : {None} \cup Founders, approvedHash : {None} \cup Hashes,
         evidence : 0 .. MaxIds, claimedBy : {None} \cup Executors,
         endedBy : {None} \cup Actors, mutation : {None} \cup Reports,
         closeout : {None} \cup Reports,
         outcome : {None, "completed", "failed_terminal"}, reason : {None} \cup Reports]
Ops == {"submit", "approve", "revoke", "claim", "invalidate", "complete"}
Frames == [op : {None} \cup Ops,
           req : {None} \cup Requests, bound : {None} \cup Submissions,
           by : {None} \cup Actors, hash : {None} \cup Hashes, evidence : 0 .. MaxIds,
           seen : {None} \cup Statuses, report : {None} \cup Reports,
           outcome : {None, "completed", "failed_terminal"}]
Events == [prev : {None} \cup Statuses, new : Statuses, by : Actors,
           evidence : 0 .. MaxIds, report : {None} \cup Reports]

(* What the proofs assume of the constants. *)
ConstantsAssumption ==
    /\ \A s \in Submissions : DOMAIN s = {"key", "plan", "hash"}
    /\ MaxIds \in Nat
    /\ None \notin Actors \cup Reports \cup Hashes \cup Statuses \cup Ops \cup Rows

Stored == {r \in Requests : rows[r] # None}

NewRow(sub, by) ==
    [bound |-> sub, requestedBy |-> by, status |-> "approval_required",
     approvedBy |-> None, approvedHash |-> None, evidence |-> 0, claimedBy |-> None,
     endedBy |-> None, mutation |-> None, closeout |-> None, outcome |-> None,
     reason |-> None]

(* assertRowIntegrity: a row that fails it refuses every later call. *)
RowIntegrity(row) ==
    LET approved == row.approvedBy # None /\ row.evidence # 0 /\ row.approvedHash # None
        touched  == row.approvedBy # None \/ row.evidence # 0 \/ row.approvedHash # None
        claimed  == row.claimedBy # None
    IN /\ row.status \in Statuses
       /\ row.approvedHash # None => row.approvedHash = row.bound.hash
       /\ approved \/ row.status \in {"approval_required", "revoked"}
       /\ touched => approved /\ row.status # "approval_required"
       /\ row.status \in {"execution_claimed", "completed", "failed_terminal"} => claimed
       /\ row.status \in {"approval_required", "approved", "revoked"} => ~claimed
       /\ row.status \in Ended <=> row.endedBy # None
       /\ row.status = "invalidated" <=> row.mutation # None
       /\ IF row.status \in {"completed", "failed_terminal"}
            THEN row.outcome = row.status /\ row.closeout # None
            ELSE row.outcome = None /\ row.closeout = None

Usable(r) == r \in Stored /\ RowIntegrity(rows[r])

(* When a call that finds its own earlier effect is answered with the view. *)
SubmitReplays(row, sub, by) == row.bound = sub /\ row.requestedBy = by
ApproveReplays(row, f) ==
    /\ row.status \in {"approved", "execution_claimed", "completed", "failed_terminal"}
    /\ row.approvedBy = f
RevokeReplays(row, f, report) ==
    row.status = "revoked" /\ row.endedBy = f /\ row.reason = report
(* Seeded fault: a claim is replayed only while the execution is claimed. *)
ClaimReplaysWhileClaimed(row, e, evidence) ==
    row.evidence = evidence /\ row.status = "execution_claimed" /\ row.claimedBy = e
ClaimReplays(row, e, evidence) ==
    /\ row.evidence = evidence
    /\ row.status \in {"execution_claimed", "completed", "failed_terminal"}
    /\ row.claimedBy = e
InvalidateReplays(row, e, evidence, report) ==
    /\ row.evidence = evidence
    /\ row.status = "invalidated" /\ row.endedBy = e /\ row.mutation = report
CompleteReplays(row, e, evidence, outcome, report) ==
    /\ row.evidence = evidence
    /\ row.status = outcome /\ row.endedBy = e /\ row.closeout = report

-----------------------------------------------------------------------------
Idle == [op |-> None, req |-> None, bound |-> None, by |-> None, hash |-> None,
         evidence |-> 0, seen |-> None, report |-> None, outcome |-> None]

Free(p) == proc[p].op = None
Return(p) == proc' = [proc EXCEPT ![p] = Idle]

(* The checks passed on the row as read: the call goes on to its transaction. *)
Checked(p, frame) ==
    /\ proc' = [proc EXCEPT ![p] = frame]
    /\ UNCHANGED <<rows, events, granted>>

Append1(r, prev, new, by, evidence, report) ==
    events' = [events EXCEPT ![r] = Append(@,
      [prev |-> prev, new |-> new, by |-> by, evidence |-> evidence, report |-> report])]

Init ==
    /\ rows = [r \in Requests |-> None]
    /\ events = [r \in Requests |-> <<>>]
    /\ proc = [p \in Processes |-> Idle]
    /\ ids = 0
    /\ granted = {}

Taken(sub) ==
    \E r \in Stored : rows[r].bound.key = sub.key \/ rows[r].bound.plan = sub.plan

CallSubmit(p, r, sub, by) ==
    /\ Free(p)
    /\ rows[r] = None /\ ~Taken(sub)
    /\ Checked(p, [Idle EXCEPT !.op = "submit", !.req = r, !.bound = sub, !.by = by])
    /\ UNCHANGED ids

CallApprove(p, r, f) ==
    /\ Free(p) /\ Usable(r)
    /\ rows[r].status = "approval_required"
    /\ ids < MaxIds /\ ids' = ids + 1
    /\ Checked(p, [Idle EXCEPT !.op = "approve", !.req = r, !.by = f,
                               !.hash = rows[r].bound.hash, !.evidence = ids + 1])

CallRevoke(p, r, f, report) ==
    /\ Free(p) /\ Usable(r)
    /\ rows[r].status \in {"approval_required", "approved"}
    /\ Checked(p, [Idle EXCEPT !.op = "revoke", !.req = r, !.by = f,
                               !.seen = rows[r].status, !.report = report])
    /\ UNCHANGED ids

CallClaim(p, r, e) ==
    /\ Free(p) /\ Usable(r)
    /\ rows[r].status = "approved"
    /\ Checked(p, [Idle EXCEPT !.op = "claim", !.req = r, !.by = e,
                               !.evidence = rows[r].evidence])
    /\ UNCHANGED ids

CallInvalidate(p, r, e, report) ==
    /\ Free(p) /\ Usable(r)
    /\ rows[r].status \in {"approved", "execution_claimed"}
    /\ rows[r].claimedBy \in {None, e}
    /\ Checked(p, [Idle EXCEPT !.op = "invalidate", !.req = r, !.by = e,
                               !.seen = rows[r].status, !.report = report])
    /\ UNCHANGED ids

CallComplete(p, r, e, outcome, report) ==
    /\ Free(p) /\ Usable(r)
    /\ rows[r].status = "execution_claimed" /\ rows[r].claimedBy = e
    /\ Checked(p, [Idle EXCEPT !.op = "complete", !.req = r, !.by = e,
                               !.outcome = outcome, !.report = report])
    /\ UNCHANGED ids

-----------------------------------------------------------------------------
(* The guarded transactions. *)

Submit(p) ==
    LET r == proc[p].req  sub == proc[p].bound IN
    /\ proc[p].op = "submit"
    /\ rows[r] = None /\ ~Taken(sub)
    /\ rows' = [rows EXCEPT ![r] = NewRow(sub, proc[p].by)]
    /\ Append1(r, None, "approval_required", proc[p].by, 0, None)
    /\ Return(p)
    /\ UNCHANGED <<ids, granted>>

Approve(p) ==
    LET r == proc[p].req IN
    /\ proc[p].op = "approve"
    /\ rows[r].status = "approval_required"
    /\ rows' = [rows EXCEPT ![r] = [@ EXCEPT
         !.status = "approved", !.approvedBy = proc[p].by, !.approvedHash = proc[p].hash,
         !.evidence = proc[p].evidence]]
    /\ Append1(r, "approval_required", "approved", proc[p].by, proc[p].evidence, None)
    /\ Return(p)
    /\ UNCHANGED <<ids, granted>>

(* Seeded fault: the update is not guarded by the status that was read. *)
RevokeUnguarded(p) ==
    LET r == proc[p].req IN
    /\ proc[p].op = "revoke"
    /\ rows' = [rows EXCEPT ![r] = [@ EXCEPT
         !.status = "revoked", !.endedBy = proc[p].by, !.reason = proc[p].report]]
    /\ Append1(r, rows[r].status, "revoked", proc[p].by, 0, proc[p].report)
    /\ Return(p)
    /\ UNCHANGED <<ids, granted>>

(* Seeded fault: the event always says an approval was revoked. *)
RevokeMisreports(p) ==
    LET r == proc[p].req IN
    /\ proc[p].op = "revoke"
    /\ rows[r].status = proc[p].seen
    /\ rows' = [rows EXCEPT ![r] = [@ EXCEPT
         !.status = "revoked", !.endedBy = proc[p].by, !.reason = proc[p].report]]
    /\ Append1(r, "approved", "revoked", proc[p].by, 0, proc[p].report)
    /\ Return(p)
    /\ UNCHANGED <<ids, granted>>

Revoke(p) ==
    LET r == proc[p].req IN
    /\ proc[p].op = "revoke"
    /\ rows[r].status = proc[p].seen
    /\ rows' = [rows EXCEPT ![r] = [@ EXCEPT
         !.status = "revoked", !.endedBy = proc[p].by, !.reason = proc[p].report]]
    /\ Append1(r, proc[p].seen, "revoked", proc[p].by, 0, proc[p].report)
    /\ Return(p)
    /\ UNCHANGED <<ids, granted>>

(* The answer that grants the claim may be lost. *)
Claim(p) ==
    LET r == proc[p].req IN
    /\ proc[p].op = "claim"
    /\ rows[r].status = "approved"
    /\ rows' = [rows EXCEPT ![r] = [@ EXCEPT
         !.status = "execution_claimed", !.claimedBy = proc[p].by]]
    /\ Append1(r, "approved", "execution_claimed", proc[p].by, proc[p].evidence, None)
    /\ granted' \in {granted, granted \cup {<<proc[p].by, r>>}}
    /\ Return(p)
    /\ UNCHANGED ids

Invalidate(p) ==
    LET r == proc[p].req IN
    /\ proc[p].op = "invalidate"
    /\ rows[r].status = proc[p].seen
    /\ rows' = [rows EXCEPT ![r] = [@ EXCEPT
         !.status = "invalidated", !.endedBy = proc[p].by, !.mutation = proc[p].report]]
    /\ Append1(r, proc[p].seen, "invalidated", proc[p].by, 0, proc[p].report)
    /\ Return(p)
    /\ UNCHANGED <<ids, granted>>

(* Seeded fault: a completion without its evidence. *)
CompleteWithoutOutcome(p) ==
    LET r == proc[p].req IN
    /\ proc[p].op = "complete"
    /\ rows[r].status = "execution_claimed"
    /\ rows' = [rows EXCEPT ![r] = [@ EXCEPT
         !.status = proc[p].outcome, !.endedBy = proc[p].by, !.closeout = proc[p].report]]
    /\ Append1(r, "execution_claimed", proc[p].outcome, proc[p].by, 0, proc[p].report)
    /\ Return(p)
    /\ UNCHANGED <<ids, granted>>

Complete(p) ==
    LET r == proc[p].req IN
    /\ proc[p].op = "complete"
    /\ rows[r].status = "execution_claimed"
    /\ rows' = [rows EXCEPT ![r] = [@ EXCEPT
         !.status = proc[p].outcome, !.endedBy = proc[p].by, !.closeout = proc[p].report,
         !.outcome = proc[p].outcome]]
    /\ Append1(r, "execution_claimed", proc[p].outcome, proc[p].by, 0, proc[p].report)
    /\ Return(p)
    /\ UNCHANGED <<ids, granted>>

(* The row changed since it was read: nothing is written, the call ends in an
   error (assertChanged, or the UNIQUE columns of the table). *)
Committable(p) ==
    LET r == proc[p].req IN
    CASE proc[p].op = "submit" -> rows[r] = None /\ ~Taken(proc[p].bound)
      [] proc[p].op = "approve" -> rows[r].status = "approval_required"
      [] proc[p].op \in {"revoke", "invalidate"} -> rows[r].status = proc[p].seen
      [] proc[p].op = "claim" -> rows[r].status = "approved"
      [] OTHER -> rows[r].status = "execution_claimed"
Conflict(p) ==
    /\ ~Free(p) /\ ~Committable(p)
    /\ Return(p)
    /\ UNCHANGED <<rows, events, ids, granted>>

(* A process dies before its transaction. *)
Crash(p) ==
    /\ ~Free(p) /\ Committable(p)
    /\ Return(p)
    /\ UNCHANGED <<rows, events, ids, granted>>

(* A claim repeated by its executor, which may have lost the first answer or
   died since, is answered with the claim again. *)
ReplayClaim(e, r) ==
    /\ Usable(r) /\ ClaimReplays(rows[r], e, rows[r].evidence)
    /\ granted' = granted \cup {<<e, r>>}
    /\ UNCHANGED <<rows, events, proc, ids>>

-----------------------------------------------------------------------------
Call(p, r) ==
    \/ \E sub \in Submissions, by \in Submitters : CallSubmit(p, r, sub, by)
    \/ \E f \in Founders : CallApprove(p, r, f)
    \/ \E f \in Founders, report \in Reports : CallRevoke(p, r, f, report)
    \/ \E e \in Executors : CallClaim(p, r, e)
    \/ \E e \in Executors, report \in Reports : CallInvalidate(p, r, e, report)
    \/ \E e \in Executors, outcome \in {"completed", "failed_terminal"}, report \in Reports :
         CallComplete(p, r, e, outcome, report)

Commit(p) ==
    Submit(p) \/ Approve(p) \/ Revoke(p) \/ Claim(p) \/ Invalidate(p) \/ Complete(p)

Next ==
    \/ \E p \in Processes :
         \/ \E r \in Requests : Call(p, r)
         \/ Commit(p) \/ Conflict(p) \/ Crash(p)
    \/ \E e \in Executors, r \in Requests : ReplayClaim(e, r)

Spec == Init /\ [][Next]_vars

-----------------------------------------------------------------------------
(* Properties.                                                             *)

(* Rows, events and pending calls have the shape of their tables. *)
TypeOK ==
    /\ rows \in [Requests -> {None} \cup Rows]
    /\ events \in [Requests -> Seq(Events)]
    /\ proc \in [Processes -> Frames]
    /\ ids \in 0 .. MaxIds
    /\ granted \subseteq Executors \X Requests

(* However calls of several processes interleave, a stored row never fails
   the service's own integrity check, which would refuse every later call and
   leave the closeout unreachable. *)
RowsStayUsable == \A r \in Stored : RowIntegrity(rows[r])

(* Whoever was told it holds the claim is the one executor on record, for the
   plan hash the founder approved, and the approval was never revoked. *)
OneHolder ==
    \A g \in granted :
      LET row == rows[g[2]] IN
      /\ row # None /\ row.claimedBy = g[1]
      /\ row.status \in {"execution_claimed", "completed", "failed_terminal", "invalidated"}
      /\ row.approvedHash = row.bound.hash

(* The append-only events tell one unbroken life: each starts where the one
   before ended, the last one ends in the row's status, and a claim names the
   approval evidence on record. *)
EventsTellStory ==
    \A r \in Stored :
      LET log == events[r] IN
      /\ log # <<>> /\ log[1].prev = None
      /\ \A i \in 1 .. Len(log) - 1 : log[i + 1].prev = log[i].new
      /\ log[Len(log)].new = rows[r].status
      /\ \A i \in 1 .. Len(log) :
           log[i].new \in {"approved", "execution_claimed"} =>
             log[i].evidence = rows[r].evidence

(* Whatever is on record was asked for by a caller whose answer may be lost:
   repeating that call is answered with the record, until the approval has
   been revoked or invalidated. *)
LostAnswersReplay ==
    \A r \in Stored :
      LET row == rows[r] IN
      \A i \in DOMAIN events[r] :
        LET e == events[r][i] IN
        CASE e.new = "approval_required" -> SubmitReplays(row, row.bound, e.by)
          [] e.new = "approved" ->
               row.status \in {"revoked", "invalidated"} \/ ApproveReplays(row, e.by)
          [] e.new = "execution_claimed" ->
               row.status = "invalidated" \/ ClaimReplays(row, e.by, e.evidence)
          [] e.new = "revoked" -> RevokeReplays(row, e.by, e.report)
          [] e.new = "invalidated" -> InvalidateReplays(row, e.by, row.evidence, e.report)
          [] OTHER -> CompleteReplays(row, e.by, row.evidence, e.new, e.report)

(* An idempotency key and a plan belong to one request, whatever races. *)
IdentitiesUnique ==
    \A q, r \in Stored :
      q # r => /\ rows[q].bound.key # rows[r].bound.key
               /\ rows[q].bound.plan # rows[r].bound.plan

(* No step changes what a request was bound to, or anything of an ended one. *)
EndedIsFinal ==
    [][\A r \in Stored :
         /\ rows'[r].bound = rows[r].bound
         /\ rows[r].status \in Ended => rows'[r] = rows[r] /\ events'[r] = events[r]]_vars
=============================================================================
