---------------------- MODULE SafeCommitCloseoutProofs ----------------------
(***************************************************************************)
(* Machine-checked proofs about SafeCommitCloseout, for any number of      *)
(* requests, processes and actors.                                         *)
(*                                                                         *)
(* The argument: a call's frame says what the row held when it was read    *)
(* (FramesSound); the guard of its transaction makes what it commits one   *)
(* legal step of the request's life (Lives); and every property is kept by *)
(* a legal step, whoever makes it.                                         *)
(***************************************************************************)
EXTENDS SafeCommitCloseout, TLAPS

-----------------------------------------------------------------------------
(* What a checked call still knows when its transaction begins. *)
FrameSound(f, now) ==
    /\ f.op # None => f.req \in Requests
    /\ f.op = "submit" => f.bound \in Submissions /\ f.by \in Submitters
    /\ f.op \in Ops \ {"submit"} => now[f.req] # None
    /\ f.op = "approve" =>
         f.by \in Founders /\ f.hash = now[f.req].bound.hash /\ f.evidence \in 1 .. MaxIds
    /\ f.op = "revoke" =>
         f.by \in Founders /\ f.seen \in {"approval_required", "approved"}
    /\ f.op = "claim" =>
         /\ f.by \in Executors /\ now[f.req].status # "approval_required"
         /\ f.evidence = now[f.req].evidence
    /\ f.op = "invalidate" =>
         f.by \in Executors /\ f.seen \in {"approved", "execution_claimed"}
    /\ f.op = "complete" =>
         f.by \in Executors /\ f.outcome \in {"completed", "failed_terminal"}
    /\ f.op \in {"revoke", "invalidate", "complete"} => f.report \in Reports

FramesSound == \A p \in Processes : FrameSound(proc[p], rows)

NothingBefore == \A r \in Requests : rows[r] = None => events[r] = <<>>

CloseoutInv ==
    /\ TypeOK
    /\ FramesSound
    /\ NothingBefore
    /\ RowsStayUsable
    /\ OneHolder
    /\ EventsTellStory
    /\ LostAnswersReplay
    /\ IdentitiesUnique

(* One legal step of a request's life: the row before and after, and the event
   that tells it. *)
Legal(old, new, e) ==
    /\ new.status = "approved" =>
         old.status = "approval_required" /\ e.by = new.approvedBy /\ e.evidence = new.evidence
    /\ new.status = "execution_claimed" =>
         old.status = "approved" /\ e.by = new.claimedBy /\ e.evidence = new.evidence
    /\ new.status = "revoked" =>
         /\ old.status \in {"approval_required", "approved"}
         /\ e.by = new.endedBy /\ e.report = new.reason
    /\ new.status = "invalidated" =>
         /\ old.status \in {"approved", "execution_claimed"}
         /\ e.by = new.endedBy /\ e.report = new.mutation
    /\ new.status \in {"completed", "failed_terminal"} =>
         old.status = "execution_claimed" /\ e.by = new.endedBy /\ e.report = new.closeout

Told(old, new, e) ==
    /\ new \in Rows /\ RowIntegrity(new)
    /\ e \in Events /\ e.new = new.status
    /\ \/ /\ old = None
          /\ new.status = "approval_required" /\ ~Taken(new.bound)
          /\ e.prev = None /\ e.by = new.requestedBy
       \/ /\ old # None /\ old.status \notin Ended
          /\ new.status # "approval_required"
          /\ e.prev = old.status
          /\ new.bound = old.bound /\ new.requestedBy = old.requestedBy
          /\ old.status # "approval_required" =>
               new.evidence = old.evidence /\ new.approvedBy = old.approvedBy
          /\ old.claimedBy # None => new.claimedBy = old.claimedBy
          /\ Legal(old, new, e)

Lives(r, new, e) ==
    /\ r \in Requests
    /\ rows' = [rows EXCEPT ![r] = new]
    /\ events' = [events EXCEPT ![r] = Append(@, e)]
    /\ Told(rows[r], new, e)

-----------------------------------------------------------------------------
(* The transactions live up to it. *)

(* A submission that commits begins the life of its request. *)
LEMMA SubmitLives ==
    ASSUME ConstantsAssumption, CloseoutInv, NEW p \in Processes, Submit(p)
    PROVE  \E new, e : Lives(proc[p].req, new, e)
<1> DEFINE f == proc[p]
           new == NewRow(f.bound, f.by)
           e == [prev |-> None, new |-> "approval_required", by |-> f.by, evidence |-> 0,
                 report |-> None]
<1> USE DEF ConstantsAssumption
<1>1. f.op = "submit" /\ f \in Frames
  BY DEF CloseoutInv, TypeOK, Submit
<1>2. f.req \in Requests /\ f.bound \in Submissions /\ f.by \in Submitters
  BY <1>1 DEF ConstantsAssumption, CloseoutInv, FramesSound, FrameSound, Ops, Stored
<1>3. rows[f.req] = None /\ ~Taken(f.bound)
  BY DEF Submit
<1>4. rows' = [rows EXCEPT ![f.req] = new] /\ events' = [events EXCEPT ![f.req] = Append(@, e)]
  BY DEF Submit, Append1
<1>5. new \in Rows
  BY <1>2 DEF NewRow, Rows, Statuses
<1>6. RowIntegrity(new)
  BY <1>2 DEF NewRow, RowIntegrity, Statuses, Ended
<1>7. e \in Events /\ e.new = new.status
  BY <1>2 DEF Events, Statuses, Actors, NewRow
<1>8. new.status = "approval_required" /\ new.bound = f.bound /\ e.prev = None
        /\ e.by = new.requestedBy
  BY DEF NewRow
<1> HIDE DEF new, e, f
<1>9. Told(rows[f.req], new, e)
  BY <1>3, <1>5, <1>6, <1>7, <1>8 DEF Told
<1>10. Lives(f.req, new, e)
  BY <1>2, <1>4, <1>9 DEF Lives
<1> QED
  BY <1>10 DEF f

(* The row an approval writes. *)
LEMMA ApprovedRow ==
    ASSUME ConstantsAssumption, NEW old \in Rows, RowIntegrity(old), old.status = "approval_required",
           NEW by \in Founders, NEW evidence \in 1 .. MaxIds
    PROVE  LET new == [old EXCEPT !.status = "approved", !.approvedBy = by,
                                  !.approvedHash = old.bound.hash, !.evidence = evidence]
           IN new \in Rows /\ RowIntegrity(new)
<1> DEFINE new == [old EXCEPT !.status = "approved", !.approvedBy = by,
                              !.approvedHash = old.bound.hash, !.evidence = evidence]
<1>1. old.bound.hash \in Hashes /\ evidence \in 0 .. MaxIds /\ evidence # 0
  BY DEF ConstantsAssumption, Rows, Hashes
<1>2. new \in Rows
  BY <1>1 DEF Rows, Statuses
<1>3. by # None /\ old.bound.hash # None
  BY <1>1 DEF ConstantsAssumption, Actors
<1>4. RowIntegrity(new)
  BY <1>1, <1>3 DEF RowIntegrity, Rows, Statuses, Ended
<1> QED
  BY <1>2, <1>4

(* A founder's approval that commits. *)
LEMMA ApproveLives ==
    ASSUME ConstantsAssumption, CloseoutInv, NEW p \in Processes, Approve(p)
    PROVE  \E new, e : Lives(proc[p].req, new, e)
<1> DEFINE f == proc[p]
           old == rows[f.req]
           new == [old EXCEPT !.status = "approved", !.approvedBy = f.by,
                              !.approvedHash = f.hash, !.evidence = f.evidence]
           e == [prev |-> "approval_required", new |-> "approved", by |-> f.by,
                 evidence |-> f.evidence, report |-> None]
<1> USE DEF ConstantsAssumption
<1>1. f.op = "approve" /\ f \in Frames
  BY DEF CloseoutInv, TypeOK, Approve
<1>2. f.req \in Stored /\ f.by \in Founders /\ f.hash = old.bound.hash
        /\ f.evidence \in 1 .. MaxIds
  BY <1>1 DEF ConstantsAssumption, CloseoutInv, FramesSound, FrameSound, Ops, Stored
<1>3. old # None /\ old \in Rows /\ RowIntegrity(old) /\ f.req \in Requests
  BY <1>2 DEF CloseoutInv, TypeOK, RowsStayUsable, Stored
<1>4. old.status = "approval_required"
  BY DEF Approve
<1>5. rows' = [rows EXCEPT ![f.req] = new] /\ events' = [events EXCEPT ![f.req] = Append(@, e)]
  BY DEF Approve, Append1
<1>7. new \in Rows /\ RowIntegrity(new)
  BY <1>2, <1>3, <1>4, ApprovedRow
<1>9. e \in Events /\ e.new = new.status /\ e.prev = old.status
  BY <1>2, <1>3, <1>4 DEF Events, Statuses, Actors, Rows
<1>10. /\ new.status = "approved" /\ new.bound = old.bound
       /\ new.requestedBy = old.requestedBy /\ new.claimedBy = old.claimedBy
       /\ e.by = new.approvedBy /\ e.evidence = new.evidence
  BY <1>3 DEF Rows
<1> HIDE DEF new, e, f, old
<1>11. Told(old, new, e)
  BY <1>3, <1>4, <1>7, <1>9, <1>10 DEF Told, Legal, Ended
<1>12. Lives(f.req, new, e)
  BY <1>3, <1>5, <1>11 DEF Lives, old
<1> QED
  BY <1>12 DEF f

(* The row a revocation writes. *)
LEMMA RevokedRow ==
    ASSUME ConstantsAssumption, NEW old \in Rows, RowIntegrity(old), old.status \in {"approval_required", "approved"},
           NEW by \in Founders, NEW report \in Reports
    PROVE  LET new == [old EXCEPT !.status = "revoked", !.endedBy = by, !.reason = report]
           IN new \in Rows /\ RowIntegrity(new)
<1> DEFINE new == [old EXCEPT !.status = "revoked", !.endedBy = by, !.reason = report]
<1>1. by # None
  BY DEF ConstantsAssumption, Actors
<1>2. new \in Rows
  BY DEF Rows, Statuses, Actors
<1>3. RowIntegrity(new)
  BY <1>1 DEF RowIntegrity, Rows, Statuses, Ended
<1> QED
  BY <1>2, <1>3

(* A founder's revocation that commits. *)
LEMMA RevokeLives ==
    ASSUME ConstantsAssumption, CloseoutInv, NEW p \in Processes, Revoke(p)
    PROVE  \E new, e : Lives(proc[p].req, new, e)
<1> DEFINE f == proc[p]
           old == rows[f.req]
           new == [old EXCEPT !.status = "revoked", !.endedBy = f.by, !.reason = f.report]
           e == [prev |-> f.seen, new |-> "revoked", by |-> f.by,
                 evidence |-> 0, report |-> f.report]
<1> USE DEF ConstantsAssumption
<1>1. f.op = "revoke" /\ f \in Frames
  BY DEF CloseoutInv, TypeOK, Revoke
<1>2. f.req \in Stored /\ f.by \in Founders /\ f.report \in Reports
        /\ f.seen \in {"approval_required", "approved"}
  BY <1>1 DEF ConstantsAssumption, CloseoutInv, FramesSound, FrameSound, Ops, Stored
<1>3. old # None /\ old \in Rows /\ RowIntegrity(old) /\ f.req \in Requests
  BY <1>2 DEF CloseoutInv, TypeOK, RowsStayUsable, Stored
<1>4. old.status = f.seen
  BY DEF Revoke
<1>5. rows' = [rows EXCEPT ![f.req] = new] /\ events' = [events EXCEPT ![f.req] = Append(@, e)]
  BY DEF Revoke, Append1
<1>6. new \in Rows /\ RowIntegrity(new)
  BY <1>2, <1>3, <1>4, RevokedRow
<1>7. e \in Events /\ e.new = new.status /\ e.prev = old.status
  BY <1>1, <1>2, <1>3, <1>4 DEF Events, Frames, Statuses, Actors, Rows
<1>8. /\ new.status = "revoked" /\ new.bound = old.bound
      /\ new.requestedBy = old.requestedBy /\ new.evidence = old.evidence
      /\ new.approvedBy = old.approvedBy /\ new.claimedBy = old.claimedBy
      /\ e.by = new.endedBy /\ e.report = new.reason
  BY <1>1, <1>2, <1>3, <1>4 DEF Rows
<1> HIDE DEF new, e, f, old
<1>9. Told(old, new, e)
  BY <1>2, <1>3, <1>4, <1>6, <1>7, <1>8 DEF Told, Legal, Ended
<1>10. Lives(f.req, new, e)
  BY <1>3, <1>5, <1>9 DEF Lives, old
<1> QED
  BY <1>10 DEF f

(* The row a claim writes. *)
LEMMA ClaimedRow ==
    ASSUME ConstantsAssumption, NEW old \in Rows, RowIntegrity(old), old.status = "approved",
           NEW by \in Executors
    PROVE  LET new == [old EXCEPT !.status = "execution_claimed", !.claimedBy = by]
           IN new \in Rows /\ RowIntegrity(new)
<1> DEFINE new == [old EXCEPT !.status = "execution_claimed", !.claimedBy = by]
<1>1. by # None
  BY DEF ConstantsAssumption, Actors
<1>2. new \in Rows
  BY DEF Rows, Statuses, Actors
<1>3. RowIntegrity(new)
  BY <1>1 DEF RowIntegrity, Rows, Statuses, Ended
<1> QED
  BY <1>2, <1>3

(* An executor's claim that commits. *)
LEMMA ClaimLives ==
    ASSUME ConstantsAssumption, CloseoutInv, NEW p \in Processes, Claim(p)
    PROVE  \E new, e : Lives(proc[p].req, new, e)
<1> DEFINE f == proc[p]
           old == rows[f.req]
           new == [old EXCEPT !.status = "execution_claimed", !.claimedBy = f.by]
           e == [prev |-> "approved", new |-> "execution_claimed", by |-> f.by,
                 evidence |-> f.evidence, report |-> None]
<1> USE DEF ConstantsAssumption
<1>1. f.op = "claim" /\ f \in Frames
  BY DEF CloseoutInv, TypeOK, Claim
<1>2. f.req \in Stored /\ f.by \in Executors /\ f.evidence = old.evidence
  BY <1>1 DEF ConstantsAssumption, CloseoutInv, FramesSound, FrameSound, Ops, Stored
<1>3. old # None /\ old \in Rows /\ RowIntegrity(old) /\ f.req \in Requests
  BY <1>2 DEF CloseoutInv, TypeOK, RowsStayUsable, Stored
<1>4. old.status = "approved"
  BY DEF Claim
<1>5. rows' = [rows EXCEPT ![f.req] = new] /\ events' = [events EXCEPT ![f.req] = Append(@, e)]
  BY DEF Claim, Append1
<1>6. new \in Rows /\ RowIntegrity(new)
  BY <1>2, <1>3, <1>4, ClaimedRow
<1>7. e \in Events /\ e.new = new.status /\ e.prev = old.status
  BY <1>1, <1>2, <1>3, <1>4 DEF Events, Frames, Statuses, Actors, Rows
<1>8. /\ new.status = "execution_claimed" /\ new.bound = old.bound
      /\ new.requestedBy = old.requestedBy /\ new.evidence = old.evidence
      /\ new.approvedBy = old.approvedBy /\ old.claimedBy = None
      /\ e.by = new.claimedBy /\ e.evidence = new.evidence
  BY <1>1, <1>2, <1>3, <1>4 DEF Rows, RowIntegrity
<1> HIDE DEF new, e, f, old
<1>9. Told(old, new, e)
  BY <1>2, <1>3, <1>4, <1>6, <1>7, <1>8 DEF Told, Legal, Ended
<1>10. Lives(f.req, new, e)
  BY <1>3, <1>5, <1>9 DEF Lives, old
<1> QED
  BY <1>10 DEF f

(* The row a report that the repository changed writes. *)
LEMMA InvalidatedRow ==
    ASSUME ConstantsAssumption, NEW old \in Rows, RowIntegrity(old), old.status \in {"approved", "execution_claimed"},
           NEW by \in Executors, NEW report \in Reports
    PROVE  LET new == [old EXCEPT !.status = "invalidated", !.endedBy = by, !.mutation = report]
           IN new \in Rows /\ RowIntegrity(new)
<1> DEFINE new == [old EXCEPT !.status = "invalidated", !.endedBy = by, !.mutation = report]
<1>1. by # None /\ report # None
  BY DEF ConstantsAssumption, Actors
<1>2. new \in Rows
  BY DEF Rows, Statuses, Actors
<1>3. RowIntegrity(new)
  BY <1>1 DEF RowIntegrity, Rows, Statuses, Ended
<1> QED
  BY <1>2, <1>3

(* An executor's report of a changed repository that commits. *)
LEMMA InvalidateLives ==
    ASSUME ConstantsAssumption, CloseoutInv, NEW p \in Processes, Invalidate(p)
    PROVE  \E new, e : Lives(proc[p].req, new, e)
<1> DEFINE f == proc[p]
           old == rows[f.req]
           new == [old EXCEPT !.status = "invalidated", !.endedBy = f.by, !.mutation = f.report]
           e == [prev |-> f.seen, new |-> "invalidated", by |-> f.by,
                 evidence |-> 0, report |-> f.report]
<1> USE DEF ConstantsAssumption
<1>1. f.op = "invalidate" /\ f \in Frames
  BY DEF CloseoutInv, TypeOK, Invalidate
<1>2. f.req \in Stored /\ f.by \in Executors /\ f.report \in Reports
        /\ f.seen \in {"approved", "execution_claimed"}
  BY <1>1 DEF ConstantsAssumption, CloseoutInv, FramesSound, FrameSound, Ops, Stored
<1>3. old # None /\ old \in Rows /\ RowIntegrity(old) /\ f.req \in Requests
  BY <1>2 DEF CloseoutInv, TypeOK, RowsStayUsable, Stored
<1>4. old.status = f.seen
  BY DEF Invalidate
<1>5. rows' = [rows EXCEPT ![f.req] = new] /\ events' = [events EXCEPT ![f.req] = Append(@, e)]
  BY DEF Invalidate, Append1
<1>6. new \in Rows /\ RowIntegrity(new)
  BY <1>2, <1>3, <1>4, InvalidatedRow
<1>7. e \in Events /\ e.new = new.status /\ e.prev = old.status
  BY <1>1, <1>2, <1>3, <1>4 DEF Events, Frames, Statuses, Actors, Rows
<1>8. /\ new.status = "invalidated" /\ new.bound = old.bound
      /\ new.requestedBy = old.requestedBy /\ new.evidence = old.evidence
      /\ new.approvedBy = old.approvedBy /\ new.claimedBy = old.claimedBy
      /\ e.by = new.endedBy /\ e.report = new.mutation
  BY <1>1, <1>2, <1>3, <1>4 DEF Rows
<1> HIDE DEF new, e, f, old
<1>9. Told(old, new, e)
  BY <1>2, <1>3, <1>4, <1>6, <1>7, <1>8 DEF Told, Legal, Ended
<1>10. Lives(f.req, new, e)
  BY <1>3, <1>5, <1>9 DEF Lives, old
<1> QED
  BY <1>10 DEF f

(* The row a completion writes. *)
LEMMA CompletedRow ==
    ASSUME ConstantsAssumption, NEW old \in Rows, RowIntegrity(old), old.status = "execution_claimed",
           NEW by \in Executors, NEW report \in Reports,
           NEW outcome \in {"completed", "failed_terminal"}
    PROVE  LET new == [old EXCEPT !.status = outcome, !.endedBy = by, !.closeout = report, !.outcome = outcome]
           IN new \in Rows /\ RowIntegrity(new)
<1> DEFINE new == [old EXCEPT !.status = outcome, !.endedBy = by, !.closeout = report, !.outcome = outcome]
<1>1. by # None /\ report # None
  BY DEF ConstantsAssumption, Actors
<1>2. new \in Rows
  BY DEF Rows, Statuses, Actors
<1>3. RowIntegrity(new)
  BY <1>1 DEF RowIntegrity, Rows, Statuses, Ended
<1> QED
  BY <1>2, <1>3

(* An executor's completion that commits. *)
LEMMA CompleteLives ==
    ASSUME ConstantsAssumption, CloseoutInv, NEW p \in Processes, Complete(p)
    PROVE  \E new, e : Lives(proc[p].req, new, e)
<1> DEFINE f == proc[p]
           old == rows[f.req]
           new == [old EXCEPT !.status = f.outcome, !.endedBy = f.by, !.closeout = f.report,
                              !.outcome = f.outcome]
           e == [prev |-> "execution_claimed", new |-> f.outcome, by |-> f.by,
                 evidence |-> 0, report |-> f.report]
<1> USE DEF ConstantsAssumption
<1>1. f.op = "complete" /\ f \in Frames
  BY DEF CloseoutInv, TypeOK, Complete
<1>2. f.req \in Stored /\ f.by \in Executors /\ f.report \in Reports
        /\ f.outcome \in {"completed", "failed_terminal"}
  BY <1>1 DEF ConstantsAssumption, CloseoutInv, FramesSound, FrameSound, Ops, Stored
<1>3. old # None /\ old \in Rows /\ RowIntegrity(old) /\ f.req \in Requests
  BY <1>2 DEF CloseoutInv, TypeOK, RowsStayUsable, Stored
<1>4. old.status = "execution_claimed"
  BY DEF Complete
<1>5. rows' = [rows EXCEPT ![f.req] = new] /\ events' = [events EXCEPT ![f.req] = Append(@, e)]
  BY DEF Complete, Append1
<1>6. new \in Rows /\ RowIntegrity(new)
  BY <1>2, <1>3, <1>4, CompletedRow
<1>7. e \in Events /\ e.new = new.status /\ e.prev = old.status
  BY <1>1, <1>2, <1>3, <1>4 DEF Events, Frames, Statuses, Actors, Rows
<1>8. /\ new.status = f.outcome /\ new.bound = old.bound
      /\ new.requestedBy = old.requestedBy /\ new.evidence = old.evidence
      /\ new.approvedBy = old.approvedBy /\ new.claimedBy = old.claimedBy
      /\ e.by = new.endedBy /\ e.report = new.closeout
  BY <1>1, <1>2, <1>3, <1>4 DEF Rows
<1> HIDE DEF new, e, f, old
<1>9. Told(old, new, e)
  BY <1>2, <1>3, <1>4, <1>6, <1>7, <1>8 DEF Told, Legal, Ended
<1>10. Lives(f.req, new, e)
  BY <1>3, <1>5, <1>9 DEF Lives, old
<1> QED
  BY <1>10 DEF f

-----------------------------------------------------------------------------
(* What one legal step keeps, whoever makes it. *)

(* Rows and events keep their shape and pass the integrity check, and no key
   or plan is shared. *)
LEMMA LivesTables ==
    ASSUME ConstantsAssumption, CloseoutInv, NEW r, NEW new, NEW e, Lives(r, new, e)
    PROVE  /\ rows' \in [Requests -> {None} \cup Rows]
           /\ events' \in [Requests -> Seq(Events)]
           /\ RowsStayUsable' /\ IdentitiesUnique' /\ NothingBefore'
<1>1. new \in Rows /\ e \in Events /\ r \in Requests /\ RowIntegrity(new)
  BY DEF Lives, Told
<1>2. rows' \in [Requests -> {None} \cup Rows]
  BY <1>1 DEF CloseoutInv, TypeOK, Lives
<1>3. events' \in [Requests -> Seq(Events)]
  BY <1>1 DEF CloseoutInv, TypeOK, Lives
<1>4. \A q \in Requests : rows'[q] = IF q = r THEN new ELSE rows[q]
  BY DEF CloseoutInv, TypeOK, Lives
<1>5. RowsStayUsable'
  BY <1>1, <1>4 DEF CloseoutInv, RowsStayUsable, Stored
<1>6. IdentitiesUnique'
  <2>1. CASE rows[r] = None
    <3>1. ~Taken(new.bound)
      BY <2>1 DEF Lives, Told
    <3> QED
      BY <1>4, <3>1 DEF CloseoutInv, IdentitiesUnique, Stored, Taken
  <2>2. CASE rows[r] # None
    <3>1. new.bound = rows[r].bound
      BY <2>2 DEF Lives, Told
    <3> QED
      BY <1>1, <1>4, <2>2, <3>1 DEF CloseoutInv, IdentitiesUnique, Stored
  <2> QED
    BY <2>1, <2>2
<1>7. NothingBefore'
  BY <1>1, <1>4 DEF ConstantsAssumption, CloseoutInv, TypeOK, NothingBefore, Lives
<1> QED
  BY <1>2, <1>3, <1>5, <1>6, <1>7

(* Calls checked before the step still know what they know. *)
LEMMA LivesFrames ==
    ASSUME ConstantsAssumption, CloseoutInv, NEW r, NEW new, NEW e, Lives(r, new, e),
           NEW f \in Frames, FrameSound(f, rows)
    PROVE  FrameSound(f, rows')
<1>1. \A q \in Requests : rows'[q] = IF q = r THEN new ELSE rows[q]
  BY DEF CloseoutInv, TypeOK, Lives
<1>2. new # None
  BY DEF ConstantsAssumption, Lives, Told
<1>3. CASE rows[r] = None
  BY <1>1, <1>2, <1>3 DEF ConstantsAssumption, FrameSound, Ops, Frames
<1>4. CASE rows[r] # None
  <2>1. /\ new.bound = rows[r].bound /\ new.status # "approval_required"
        /\ rows[r].status # "approval_required" => new.evidence = rows[r].evidence
    BY <1>4 DEF Lives, Told
  <2> QED
    BY <1>1, <1>2, <2>1 DEF ConstantsAssumption, FrameSound, Ops, Frames
<1> QED
  BY <1>3, <1>4

(* The holder of a claim stays the holder; a claim that commits makes one. *)
LEMMA LivesHolders ==
    ASSUME ConstantsAssumption, CloseoutInv, NEW r, NEW new, NEW e, Lives(r, new, e),
           \A g \in granted' \ granted :
             g = <<new.claimedBy, r>> /\ new.status = "execution_claimed"
    PROVE  OneHolder'
<1>1. \A q \in Requests : rows'[q] = IF q = r THEN new ELSE rows[q]
  BY DEF CloseoutInv, TypeOK, Lives
<1>2. new \in Rows /\ new # None /\ RowIntegrity(new) /\ r \in Requests
  BY DEF ConstantsAssumption, Lives, Told
<1> SUFFICES ASSUME NEW g \in granted'
             PROVE  /\ rows'[g[2]] # None /\ rows'[g[2]].claimedBy = g[1]
                    /\ rows'[g[2]].status \in {"execution_claimed", "completed",
                                               "failed_terminal", "invalidated"}
                    /\ rows'[g[2]].approvedHash = rows'[g[2]].bound.hash
  BY DEF OneHolder
<1>3. ASSUME new.status \in {"execution_claimed", "completed", "failed_terminal", "invalidated"}
      PROVE  new.approvedHash = new.bound.hash
  BY <1>2, <1>3 DEF RowIntegrity
<1>4. CASE g \notin granted
  <2>1. g[1] = new.claimedBy /\ g[2] = r /\ new.status = "execution_claimed"
    BY <1>4
  <2> QED
    BY <1>1, <1>2, <1>3, <2>1
<1>5. CASE g \in granted
  <2>1. g[1] \in Executors /\ g[2] \in Requests
    BY <1>5 DEF CloseoutInv, TypeOK
  <2>2. /\ rows[g[2]] # None /\ rows[g[2]].claimedBy = g[1]
        /\ rows[g[2]].status \in {"execution_claimed", "completed", "failed_terminal",
                                  "invalidated"}
        /\ rows[g[2]].approvedHash = rows[g[2]].bound.hash
    BY <1>5 DEF CloseoutInv, OneHolder
  <2>3. CASE g[2] # r
    BY <1>1, <2>1, <2>2, <2>3
  <2>4. CASE g[2] = r
    <3>1. rows[r].status = "execution_claimed" /\ rows[r].claimedBy # None
      BY <2>1, <2>2, <2>4 DEF ConstantsAssumption, Lives, Told, Ended, Actors
    <3>2. new.claimedBy = g[1] /\ new.status \in {"completed", "failed_terminal", "invalidated"}
      BY <1>2, <2>2, <2>4, <3>1 DEF Lives, Told, Legal, Rows, Statuses
    <3> QED
      BY <1>1, <1>2, <1>3, <2>4, <3>2
  <2> QED
    BY <2>3, <2>4
<1> QED
  BY <1>4, <1>5

(* The log of the request that lives, entry by entry. *)
LEMMA LivesLog ==
    ASSUME ConstantsAssumption, CloseoutInv, NEW r, NEW new, NEW e, Lives(r, new, e)
    PROVE  /\ events[r] \in Seq(Events) /\ e \in Events
           /\ events'[r] = Append(events[r], e)
           /\ \A q \in Requests \ {r} : events'[q] = events[q]
           /\ Len(events'[r]) = Len(events[r]) + 1
           /\ events'[r][Len(events[r]) + 1] = e
           /\ \A i \in 1 .. Len(events[r]) : events'[r][i] = events[r][i]
<1>1. r \in Requests /\ e \in Events
  BY DEF Lives, Told
<1>2. events[r] \in Seq(Events)
  BY <1>1 DEF CloseoutInv, TypeOK
<1>3. events'[r] = Append(events[r], e) /\ \A q \in Requests \ {r} : events'[q] = events[q]
  BY <1>1 DEF CloseoutInv, TypeOK, Lives
<1> QED
  BY <1>1, <1>2, <1>3

(* Whatever was told before an approval is no approval and no claim. *)
LEMMA ApprovalIsFirst ==
    ASSUME ConstantsAssumption, CloseoutInv, NEW r \in Stored, rows[r].status = "approval_required",
           NEW i \in 1 .. Len(events[r])
    PROVE  events[r][i].new = "approval_required"
<1>1. events[r] \in Seq(Events) /\ i \in DOMAIN events[r]
  BY DEF CloseoutInv, TypeOK, Stored
<1>2. events[r][i] \in Events
  BY <1>1
<1> QED
  BY <1>1, <1>2 DEF CloseoutInv, LostAnswersReplay, Events, Statuses, ApproveReplays,
     ClaimReplays, RevokeReplays, InvalidateReplays, CompleteReplays

(* The story stays unbroken. *)
LEMMA LivesStory ==
    ASSUME ConstantsAssumption, CloseoutInv, NEW r, NEW new, NEW e, Lives(r, new, e)
    PROVE  EventsTellStory'
<1> DEFINE old == events[r]
           n == Len(old)
           log == events'[r]
<1>1. \A q \in Requests : rows'[q] = IF q = r THEN new ELSE rows[q]
  BY DEF CloseoutInv, TypeOK, Lives
<1>2. new \in Rows /\ new # None /\ RowIntegrity(new) /\ r \in Requests /\ e.new = new.status
  BY DEF ConstantsAssumption, Lives, Told
<1>3. /\ old \in Seq(Events) /\ n \in Nat /\ log = Append(old, e) /\ Len(log) = n + 1
      /\ log[n + 1] = e /\ \A i \in 1 .. n : log[i] = old[i]
  BY LivesLog
<1>4. /\ log # <<>> /\ log[1].prev = None
      /\ \A i \in 1 .. n : log[i + 1].prev = log[i].new
      /\ \A i \in 1 .. n + 1 :
           log[i].new \in {"approved", "execution_claimed"} => log[i].evidence = new.evidence
  <2>1. CASE rows[r] = None
    <3>1. old = <<>> /\ n = 0
      BY <1>2, <2>1 DEF CloseoutInv, NothingBefore
    <3>2. e.prev = None /\ e.new = "approval_required"
      BY <1>2, <2>1 DEF Lives, Told
    <3> QED
      BY <1>3, <3>1, <3>2
  <2>2. CASE rows[r] # None
    <3>1. /\ n # 0 /\ old[1].prev = None /\ old[n].new = rows[r].status
          /\ \A i \in 1 .. n - 1 : old[i + 1].prev = old[i].new
          /\ \A i \in 1 .. n :
               old[i].new \in {"approved", "execution_claimed"} =>
                 old[i].evidence = rows[r].evidence
      BY <1>2, <1>3, <2>2 DEF CloseoutInv, EventsTellStory, Stored
    <3>2. /\ e.prev = rows[r].status
          /\ rows[r].status # "approval_required" => new.evidence = rows[r].evidence
          /\ e.new \in {"approved", "execution_claimed"} => e.evidence = new.evidence
      BY <1>2, <2>2 DEF Lives, Told, Legal
    <3>3. rows[r].status = "approval_required" =>
            \A i \in 1 .. n : old[i].new = "approval_required"
      BY <1>2, <2>2, ApprovalIsFirst DEF Stored
    <3>4. log # <<>> /\ log[1].prev = None
      BY <1>3, <3>1
    <3>5. \A i \in 1 .. n : log[i + 1].prev = log[i].new
      <4>1. TAKE i \in 1 .. n
      <4>2. CASE i = n
        BY <1>3, <3>1, <3>2, <4>2
      <4>3. CASE i # n
        BY <1>3, <3>1, <4>3
      <4> QED
        BY <4>2, <4>3
    <3>6. \A i \in 1 .. n + 1 :
            log[i].new \in {"approved", "execution_claimed"} => log[i].evidence = new.evidence
      BY <1>3, <3>1, <3>2, <3>3
    <3> QED
      BY <3>4, <3>5, <3>6
  <2> QED
    BY <2>1, <2>2
<1>5. \A q \in Requests \ {r} : events'[q] = events[q]
  BY LivesLog
<1> HIDE DEF old, n, log
<1> SUFFICES ASSUME NEW q \in Requests, rows'[q] # None
             PROVE  /\ events'[q] # <<>> /\ events'[q][1].prev = None
                    /\ \A i \in 1 .. Len(events'[q]) - 1 :
                         events'[q][i + 1].prev = events'[q][i].new
                    /\ events'[q][Len(events'[q])].new = rows'[q].status
                    /\ \A i \in 1 .. Len(events'[q]) :
                         events'[q][i].new \in {"approved", "execution_claimed"} =>
                           events'[q][i].evidence = rows'[q].evidence
  BY DEF EventsTellStory, Stored
<1>6. CASE q = r
  <2>1. events'[q] = log /\ rows'[q] = new
    BY <1>1, <1>2, <1>6 DEF log
  <2>2. Len(log) - 1 = n /\ log[Len(log)].new = new.status
    BY <1>2, <1>3
  <2> QED
    BY <1>3, <1>4, <2>1, <2>2
<1>7. CASE q # r
  BY <1>1, <1>5, <1>7 DEF CloseoutInv, EventsTellStory, Stored
<1> QED
  BY <1>6, <1>7

(* Every answer of the past can still be asked for again, and the new one too. *)
LEMMA LivesReplays ==
    ASSUME ConstantsAssumption, CloseoutInv, NEW r, NEW new, NEW e, Lives(r, new, e)
    PROVE  LostAnswersReplay'
<1> DEFINE Answered(row, f) ==
             CASE f.new = "approval_required" -> SubmitReplays(row, row.bound, f.by)
               [] f.new = "approved" ->
                    row.status \in {"revoked", "invalidated"} \/ ApproveReplays(row, f.by)
               [] f.new = "execution_claimed" ->
                    row.status = "invalidated" \/ ClaimReplays(row, f.by, f.evidence)
               [] f.new = "revoked" -> RevokeReplays(row, f.by, f.report)
               [] f.new = "invalidated" -> InvalidateReplays(row, f.by, row.evidence, f.report)
               [] OTHER -> CompleteReplays(row, f.by, row.evidence, f.new, f.report)
<1>1. \A q \in Requests : rows'[q] = IF q = r THEN new ELSE rows[q]
  BY DEF CloseoutInv, TypeOK, Lives
<1>2. new \in Rows /\ new # None /\ RowIntegrity(new) /\ r \in Requests /\ e.new = new.status
  BY DEF ConstantsAssumption, Lives, Told
<1>3. \A q \in Requests : rows[q] # None => \A i \in DOMAIN events[q] : Answered(rows[q], events[q][i])
  BY DEF CloseoutInv, LostAnswersReplay, Stored
<1>4. Answered(new, e)
  <2>1. CASE new.status = "approval_required"
    BY <1>2, <2>1 DEF Lives, Told, SubmitReplays
  <2>2. CASE new.status # "approval_required"
    <3>1. Legal(rows[r], new, e)
      BY <2>2 DEF Lives, Told
    <3> QED
      BY <1>2, <2>2, <3>1 DEF Legal, Rows, Statuses, ApproveReplays, ClaimReplays,
         RevokeReplays, InvalidateReplays, CompleteReplays
  <2> QED
    BY <2>1, <2>2
<1>5. ASSUME rows[r] # None, NEW i \in 1 .. Len(events[r])
      PROVE  Answered(new, events[r][i])
  <2>1. events[r] \in Seq(Events) /\ i \in DOMAIN events[r] /\ rows[r] \in Rows
    BY <1>2, <1>5 DEF CloseoutInv, TypeOK
  <2>2. events[r][i] \in Events /\ Answered(rows[r], events[r][i])
    BY <1>2, <1>3, <1>5, <2>1
  <2>3. /\ new.bound = rows[r].bound /\ new.requestedBy = rows[r].requestedBy
        /\ rows[r].status \notin Ended /\ new.status # "approval_required"
        /\ rows[r].status # "approval_required" =>
             new.evidence = rows[r].evidence /\ new.approvedBy = rows[r].approvedBy
        /\ rows[r].claimedBy # None => new.claimedBy = rows[r].claimedBy
        /\ Legal(rows[r], new, e)
    BY <1>5 DEF Lives, Told
  <2>4. RowIntegrity(rows[r])
    BY <1>2, <1>5 DEF CloseoutInv, RowsStayUsable, Stored
  <2> DEFINE f == events[r][i]
  <2> SUFFICES Answered(new, f)
    OBVIOUS
  <2>5. f \in Events /\ Answered(rows[r], f)
    BY <2>2
  <2> HIDE DEF f
  <2>6. CASE f.new = "approval_required"
    BY <2>3, <2>5, <2>6 DEF SubmitReplays
  <2>7. CASE f.new = "approved"
    <3>1. rows[r].status \in {"approved", "execution_claimed"} /\ rows[r].approvedBy = f.by
      BY <2>3, <2>5, <2>7 DEF ApproveReplays, Ended
    <3>2. new.status \notin {"approval_required", "approved"}
      BY <2>3, <3>1 DEF Legal
    <3> QED
      BY <1>2, <2>3, <2>7, <3>1, <3>2 DEF ApproveReplays, Rows, Statuses
  <2>8. CASE f.new = "execution_claimed"
    <3>1. rows[r].status = "execution_claimed" /\ rows[r].claimedBy = f.by
            /\ rows[r].evidence = f.evidence /\ rows[r].claimedBy # None
      BY <2>3, <2>4, <2>5, <2>8 DEF ClaimReplays, Ended, RowIntegrity
    <3>2. new.status \in {"invalidated", "completed", "failed_terminal"}
      BY <1>2, <2>3, <3>1 DEF Legal, Rows, Statuses
    <3> QED
      BY <2>3, <2>8, <3>1, <3>2 DEF ClaimReplays
  <2>9. CASE f.new \notin {"approval_required", "approved", "execution_claimed"}
    BY <2>3, <2>5, <2>9 DEF Events, Statuses, Ended, RevokeReplays, InvalidateReplays,
       CompleteReplays
  <2> QED
    BY <2>6, <2>7, <2>8, <2>9
<1>6. ASSUME rows[r] = None PROVE Len(events[r]) = 0
  BY <1>2, <1>6 DEF CloseoutInv, NothingBefore
<1> SUFFICES ASSUME NEW q \in Requests, rows'[q] # None, NEW i \in DOMAIN events'[q]
             PROVE  Answered(rows'[q], events'[q][i])
  BY DEF LostAnswersReplay, Stored
<1> HIDE DEF Answered
<1>7. CASE q = r
  <2>1. i \in 1 .. Len(events[r]) + 1
    BY <1>7, LivesLog
  <2>2. CASE i = Len(events[r]) + 1
    BY <1>1, <1>4, <1>7, <2>2, LivesLog
  <2>3. CASE i # Len(events[r]) + 1
    <3>1. Len(events[r]) \in Nat /\ i \in 1 .. Len(events[r])
      BY <2>1, <2>3, LivesLog
    <3>2. rows[r] # None
      BY <1>6, <3>1
    <3>3. events'[q][i] = events[r][i]
      BY <1>7, <3>1, LivesLog
    <3> QED
      BY <1>1, <1>2, <1>5, <1>7, <3>1, <3>2, <3>3
  <2> QED
    BY <2>2, <2>3
<1>8. CASE q # r
  BY <1>1, <1>3, <1>8, LivesLog
<1> QED
  BY <1>7, <1>8

-----------------------------------------------------------------------------
(* The invariant. *)

(* It holds of empty tables. *)
LEMMA InitHolds == ASSUME ConstantsAssumption PROVE Init => CloseoutInv
<1> SUFFICES ASSUME Init PROVE CloseoutInv
  OBVIOUS
<1> USE DEF ConstantsAssumption, Init
<1>1. Idle \in Frames
  BY DEF Idle, Frames
<1>2. TypeOK
  BY <1>1 DEF TypeOK
<1>3. FramesSound
  BY DEF FramesSound, FrameSound, Idle, Ops
<1>4. Stored = {}
  BY DEF Stored
<1> QED
  BY <1>2, <1>3, <1>4 DEF CloseoutInv, NothingBefore, RowsStayUsable, OneHolder,
     EventsTellStory, LostAnswersReplay, IdentitiesUnique

(* A call that returns or passes its checks, the tables as they were. *)
LEMMA FramesOnly ==
    ASSUME ConstantsAssumption, CloseoutInv, NEW p \in Processes, NEW f \in Frames, FrameSound(f, rows),
           proc' = [proc EXCEPT ![p] = f], ids' \in 0 .. MaxIds,
           UNCHANGED <<rows, events, granted>>
    PROVE  CloseoutInv'
<1>1. TypeOK'
  BY DEF CloseoutInv, TypeOK
<1>2. FramesSound'
  BY DEF CloseoutInv, TypeOK, FramesSound
<1>3. Stored' = Stored
  BY DEF Stored
<1> QED
  BY <1>1, <1>2, <1>3 DEF CloseoutInv, NothingBefore, RowsStayUsable, OneHolder,
     EventsTellStory, LostAnswersReplay, IdentitiesUnique

(* The idle frame claims to know nothing. *)
LEMMA IdleSound ==
    ASSUME ConstantsAssumption
    PROVE  Idle \in Frames /\ FrameSound(Idle, rows) /\ FrameSound(Idle, rows')
  BY DEF ConstantsAssumption, Idle, Frames, FrameSound, Ops

(* A call that passes its checks knows what its frame says. *)
LEMMA CallKeeps ==
    ASSUME ConstantsAssumption, CloseoutInv, NEW p \in Processes, NEW r \in Requests, Call(p, r)
    PROVE  CloseoutInv'
<1> USE DEF ConstantsAssumption
<1>0. /\ Idle \in Frames
      /\ Idle.op = None /\ Idle.req = None /\ Idle.bound = None /\ Idle.by = None
      /\ Idle.hash = None /\ Idle.evidence = 0 /\ Idle.seen = None /\ Idle.report = None
      /\ Idle.outcome = None
  BY IdleSound DEF Idle
<1>a. Usable(r) => rows[r] \in Rows /\ rows[r] # None
  BY DEF CloseoutInv, TypeOK, Usable, Stored
<1>b. ids \in 0 .. MaxIds
  BY DEF CloseoutInv, TypeOK
<1>1. ASSUME NEW sub \in Submissions, NEW by \in Submitters, CallSubmit(p, r, sub, by)
      PROVE  CloseoutInv'
  <2> DEFINE f == [Idle EXCEPT !.op = "submit", !.req = r, !.bound = sub, !.by = by]
  <2>1. f \in Frames
    BY <1>0 DEF Frames, Ops, Actors
  <2>2. FrameSound(f, rows)
    BY <1>0 DEF FrameSound, Ops, Frames
  <2>3. proc' = [proc EXCEPT ![p] = f] /\ ids' = ids /\ UNCHANGED <<rows, events, granted>>
    BY <1>1 DEF CallSubmit, Checked
  <2> HIDE DEF f
  <2> QED
    BY <1>b, <2>1, <2>2, <2>3, FramesOnly
<1>2. ASSUME NEW by \in Founders, CallApprove(p, r, by)
      PROVE  CloseoutInv'
  <2> DEFINE f == [Idle EXCEPT !.op = "approve", !.req = r, !.by = by,
                               !.hash = rows[r].bound.hash, !.evidence = ids + 1]
  <2>1. rows[r].bound.hash \in Hashes /\ ids + 1 \in 1 .. MaxIds /\ rows[r] # None
    BY <1>2, <1>a, <1>b DEF CallApprove, Rows, Hashes
  <2>2. ids + 1 \in 0 .. MaxIds
    BY <2>1
  <2>3. f \in Frames
    BY <1>0, <2>1, <2>2 DEF Frames, Ops, Actors
  <2>4. FrameSound(f, rows)
    BY <1>0, <2>1 DEF FrameSound, Ops, Frames
  <2>5. proc' = [proc EXCEPT ![p] = f] /\ ids' = ids + 1 /\ UNCHANGED <<rows, events, granted>>
    BY <1>2 DEF CallApprove, Checked
  <2> HIDE DEF f
  <2> QED
    BY <2>2, <2>3, <2>4, <2>5, FramesOnly
<1>3. ASSUME NEW by \in Founders, NEW report \in Reports, CallRevoke(p, r, by, report)
      PROVE  CloseoutInv'
  <2> DEFINE f == [Idle EXCEPT !.op = "revoke", !.req = r, !.by = by,
                               !.seen = rows[r].status, !.report = report]
  <2>1. rows[r].status \in {"approval_required", "approved"} /\ rows[r] # None
    BY <1>3, <1>a DEF CallRevoke
  <2>2. f \in Frames
    BY <1>0, <2>1 DEF Frames, Ops, Actors, Statuses
  <2>3. FrameSound(f, rows)
    BY <1>0, <2>1 DEF FrameSound, Ops, Frames
  <2>4. proc' = [proc EXCEPT ![p] = f] /\ ids' = ids /\ UNCHANGED <<rows, events, granted>>
    BY <1>3 DEF CallRevoke, Checked
  <2> HIDE DEF f
  <2> QED
    BY <1>b, <2>2, <2>3, <2>4, FramesOnly
<1>4. ASSUME NEW by \in Executors, CallClaim(p, r, by)
      PROVE  CloseoutInv'
  <2> DEFINE f == [Idle EXCEPT !.op = "claim", !.req = r, !.by = by,
                               !.evidence = rows[r].evidence]
  <2>1. /\ rows[r].status = "approved" /\ rows[r] # None
        /\ rows[r].evidence \in 0 .. MaxIds
    BY <1>4, <1>a DEF CallClaim, Rows
  <2>2. f \in Frames
    BY <1>0, <2>1 DEF Frames, Ops, Actors
  <2>3. FrameSound(f, rows)
    BY <1>0, <2>1 DEF FrameSound, Ops, Frames
  <2>4. proc' = [proc EXCEPT ![p] = f] /\ ids' = ids /\ UNCHANGED <<rows, events, granted>>
    BY <1>4 DEF CallClaim, Checked
  <2> HIDE DEF f
  <2> QED
    BY <1>b, <2>2, <2>3, <2>4, FramesOnly
<1>5. ASSUME NEW by \in Executors, NEW report \in Reports, CallInvalidate(p, r, by, report)
      PROVE  CloseoutInv'
  <2> DEFINE f == [Idle EXCEPT !.op = "invalidate", !.req = r, !.by = by,
                               !.seen = rows[r].status, !.report = report]
  <2>1. rows[r].status \in {"approved", "execution_claimed"} /\ rows[r] # None
    BY <1>5, <1>a DEF CallInvalidate
  <2>2. f \in Frames
    BY <1>0, <2>1 DEF Frames, Ops, Actors, Statuses
  <2>3. FrameSound(f, rows)
    BY <1>0, <2>1 DEF FrameSound, Ops, Frames
  <2>4. proc' = [proc EXCEPT ![p] = f] /\ ids' = ids /\ UNCHANGED <<rows, events, granted>>
    BY <1>5 DEF CallInvalidate, Checked
  <2> HIDE DEF f
  <2> QED
    BY <1>b, <2>2, <2>3, <2>4, FramesOnly
<1>6. ASSUME NEW by \in Executors, NEW outcome \in {"completed", "failed_terminal"},
             NEW report \in Reports, CallComplete(p, r, by, outcome, report)
      PROVE  CloseoutInv'
  <2> DEFINE f == [Idle EXCEPT !.op = "complete", !.req = r, !.by = by,
                               !.outcome = outcome, !.report = report]
  <2>1. rows[r] # None
    BY <1>6, <1>a DEF CallComplete
  <2>2. f \in Frames
    BY <1>0 DEF Frames, Ops, Actors
  <2>3. FrameSound(f, rows)
    BY <1>0, <2>1 DEF FrameSound, Ops, Frames
  <2>4. proc' = [proc EXCEPT ![p] = f] /\ ids' = ids /\ UNCHANGED <<rows, events, granted>>
    BY <1>6 DEF CallComplete, Checked
  <2> HIDE DEF f
  <2> QED
    BY <1>b, <2>2, <2>3, <2>4, FramesOnly
<1> QED
  BY <1>1, <1>2, <1>3, <1>4, <1>5, <1>6 DEF Call

(* Every transaction is a legal step, grants a claim only by making it, and
   ends its call. *)
LEMMA CommitLives ==
    ASSUME ConstantsAssumption, CloseoutInv, NEW p \in Processes, Commit(p)
    PROVE  /\ Return(p) /\ ids' = ids /\ granted' \subseteq Executors \X Requests
           /\ \E new, e :
                /\ Lives(proc[p].req, new, e)
                /\ \A g \in granted' \ granted :
                     g = <<new.claimedBy, proc[p].req>> /\ new.status = "execution_claimed"
<1>1. CASE ~Claim(p)
  <2>1. Return(p) /\ UNCHANGED <<ids, granted>>
    BY <1>1 DEF Commit, Submit, Approve, Revoke, Invalidate, Complete
  <2>2. \E new, e : Lives(proc[p].req, new, e)
    BY <1>1, SubmitLives, ApproveLives, RevokeLives, InvalidateLives, CompleteLives DEF Commit
  <2> QED
    BY <2>1, <2>2 DEF CloseoutInv, TypeOK
<1>2. CASE Claim(p)
  <2>1. PICK new, e : Lives(proc[p].req, new, e)
    BY <1>2, ClaimLives
  <2>2. /\ Return(p) /\ ids' = ids /\ proc[p].op = "claim"
        /\ granted' \in {granted, granted \cup {<<proc[p].by, proc[p].req>>}}
    BY <1>2 DEF Claim
  <2>3. proc[p].req \in Requests /\ rows[proc[p].req] # None /\ proc[p].by \in Executors
    BY <2>2 DEF ConstantsAssumption, CloseoutInv, FramesSound, FrameSound, Ops
  <2>4. rows' = [rows EXCEPT ![proc[p].req] = [@ EXCEPT
          !.status = "execution_claimed", !.claimedBy = proc[p].by]]
    BY <1>2 DEF Claim
  <2>5. rows[proc[p].req] \in Rows
    BY <2>3 DEF CloseoutInv, TypeOK
  <2>6. new = rows'[proc[p].req]
    BY <2>1, <2>3 DEF Lives, CloseoutInv, TypeOK
  <2>7. new.status = "execution_claimed" /\ new.claimedBy = proc[p].by
    BY <2>3, <2>4, <2>5, <2>6 DEF Rows, CloseoutInv, TypeOK
  <2>8. granted' \subseteq Executors \X Requests
    BY <2>2, <2>3 DEF CloseoutInv, TypeOK
  <2>9. \A g \in granted' \ granted :
          g = <<new.claimedBy, proc[p].req>> /\ new.status = "execution_claimed"
    BY <2>2, <2>7
  <2> QED
    BY <2>1, <2>2, <2>8, <2>9
<1> QED
  BY <1>1, <1>2

(* So every transaction keeps the invariant. *)
LEMMA CommitKeeps ==
    ASSUME ConstantsAssumption, CloseoutInv, NEW p \in Processes, Commit(p)
    PROVE  CloseoutInv'
<1>1. /\ Return(p) /\ ids' = ids /\ granted' \subseteq Executors \X Requests
  BY CommitLives
<1>2. PICK new, e :
        /\ Lives(proc[p].req, new, e)
        /\ \A g \in granted' \ granted :
             g = <<new.claimedBy, proc[p].req>> /\ new.status = "execution_claimed"
  BY CommitLives
<1>3. /\ rows' \in [Requests -> {None} \cup Rows]
      /\ events' \in [Requests -> Seq(Events)]
      /\ RowsStayUsable' /\ IdentitiesUnique' /\ NothingBefore'
  BY <1>2, LivesTables
<1>4. proc' \in [Processes -> Frames]
  BY <1>1, IdleSound DEF Return, CloseoutInv, TypeOK
<1>5. FramesSound'
  <2> SUFFICES ASSUME NEW q \in Processes PROVE FrameSound(proc'[q], rows')
    BY DEF FramesSound
  <2>1. proc'[q] = IF q = p THEN Idle ELSE proc[q]
    BY <1>1 DEF Return, CloseoutInv, TypeOK
  <2>2. proc[q] \in Frames /\ FrameSound(proc[q], rows)
    BY DEF CloseoutInv, TypeOK, FramesSound
  <2>3. FrameSound(proc[q], rows')
    BY <1>2, <2>2, LivesFrames
  <2> QED
    BY <2>1, <2>3, IdleSound
<1>6. OneHolder'
  BY <1>2, LivesHolders
<1>7. EventsTellStory' /\ LostAnswersReplay'
  BY <1>2, LivesStory, LivesReplays
<1>8. TypeOK'
  BY <1>1, <1>3, <1>4 DEF CloseoutInv, TypeOK
<1> QED
  BY <1>3, <1>5, <1>6, <1>7, <1>8 DEF CloseoutInv

(* A claim answered again goes to its holder. *)
LEMMA ReplayKeeps ==
    ASSUME ConstantsAssumption, CloseoutInv, NEW e \in Executors, NEW r \in Requests, ReplayClaim(e, r)
    PROVE  CloseoutInv'
<1>1. Stored' = Stored /\ UNCHANGED <<rows, events, proc, ids>>
  BY DEF ReplayClaim, Stored
<1>2. TypeOK'
  BY DEF ReplayClaim, CloseoutInv, TypeOK
<1>3. /\ rows[r] # None /\ RowIntegrity(rows[r]) /\ rows[r].claimedBy = e
      /\ rows[r].status \in {"execution_claimed", "completed", "failed_terminal"}
  BY DEF ReplayClaim, Usable, Stored, ClaimReplays
<1>4. rows[r].approvedHash = rows[r].bound.hash
  BY <1>3 DEF RowIntegrity
<1>5. OneHolder'
  BY <1>1, <1>3, <1>4 DEF OneHolder, CloseoutInv, ReplayClaim
<1>6. FramesSound'
  BY <1>1 DEF CloseoutInv, FramesSound
<1> QED
  BY <1>1, <1>2, <1>5, <1>6 DEF CloseoutInv, NothingBefore, RowsStayUsable,
     EventsTellStory, LostAnswersReplay, IdentitiesUnique

(* Every step keeps the invariant. *)
LEMMA StepHolds ==
    ASSUME ConstantsAssumption
    PROVE  CloseoutInv /\ [Next]_vars => CloseoutInv'
<1> SUFFICES ASSUME CloseoutInv, [Next]_vars PROVE CloseoutInv'
  OBVIOUS
<1>1. ASSUME NEW p \in Processes, NEW r \in Requests, Call(p, r) PROVE CloseoutInv'
  BY <1>1, CallKeeps
<1>2. ASSUME NEW p \in Processes, Commit(p) PROVE CloseoutInv'
  BY <1>2, CommitKeeps
<1>3. ASSUME NEW p \in Processes, Conflict(p) \/ Crash(p) PROVE CloseoutInv'
  <2>1. ids' \in 0 .. MaxIds /\ UNCHANGED <<rows, events, granted>> /\ Return(p)
    BY <1>3 DEF Conflict, Crash, CloseoutInv, TypeOK
  <2> QED
    BY <2>1, IdleSound, FramesOnly DEF Return
<1>4. ASSUME NEW e \in Executors, NEW r \in Requests, ReplayClaim(e, r) PROVE CloseoutInv'
  BY <1>4, ReplayKeeps
<1>5. CASE UNCHANGED vars
  <2>1. Stored' = Stored /\ UNCHANGED <<rows, events, proc, ids, granted>>
    BY <1>5 DEF vars, Stored
  <2> QED
    BY <2>1 DEF CloseoutInv, TypeOK, FramesSound, NothingBefore, RowsStayUsable, OneHolder,
       EventsTellStory, LostAnswersReplay, IdentitiesUnique
<1> QED
  BY <1>1, <1>2, <1>3, <1>4, <1>5 DEF Next

-----------------------------------------------------------------------------
(* However the calls of any number of processes interleave and crash, the
   invariant holds in every reachable state. *)
THEOREM CloseoutCorrect ==
    ASSUME ConstantsAssumption PROVE Spec => []CloseoutInv
<1>1. Init => CloseoutInv
  BY InitHolds
<1>2. CloseoutInv /\ [Next]_vars => CloseoutInv'
  BY StepHolds
<1> QED
  BY <1>1, <1>2, PTL DEF Spec

(* The tables and the pending calls are well typed. *)
THEOREM CloseoutTypeCorrect ==
    ASSUME ConstantsAssumption PROVE Spec => []TypeOK
<1>1. CloseoutInv => TypeOK
  BY DEF CloseoutInv
<1> QED
  BY <1>1, CloseoutCorrect, PTL

(* No interleaving stores a row that the integrity check would refuse. *)
THEOREM UsableCorrect ==
    ASSUME ConstantsAssumption PROVE Spec => []RowsStayUsable
<1>1. CloseoutInv => RowsStayUsable
  BY DEF CloseoutInv
<1> QED
  BY <1>1, CloseoutCorrect, PTL

(* The claim has one holder, bound to the approved plan. *)
THEOREM HolderCorrect ==
    ASSUME ConstantsAssumption PROVE Spec => []OneHolder
<1>1. CloseoutInv => OneHolder
  BY DEF CloseoutInv
<1> QED
  BY <1>1, CloseoutCorrect, PTL

(* The events tell one unbroken life. *)
THEOREM StoryCorrect ==
    ASSUME ConstantsAssumption PROVE Spec => []EventsTellStory
<1>1. CloseoutInv => EventsTellStory
  BY DEF CloseoutInv
<1> QED
  BY <1>1, CloseoutCorrect, PTL

(* A caller that lost its answer gets it by asking again. *)
THEOREM ReplayCorrect ==
    ASSUME ConstantsAssumption PROVE Spec => []LostAnswersReplay
<1>1. CloseoutInv => LostAnswersReplay
  BY DEF CloseoutInv
<1> QED
  BY <1>1, CloseoutCorrect, PTL

(* No key and no plan is bound to two requests. *)
THEOREM IdentityCorrect ==
    ASSUME ConstantsAssumption PROVE Spec => []IdentitiesUnique
<1>1. CloseoutInv => IdentitiesUnique
  BY DEF CloseoutInv
<1> QED
  BY <1>1, CloseoutCorrect, PTL

(* What a request was bound to, and an ended request, never change. *)
THEOREM EndedCorrect ==
    ASSUME ConstantsAssumption PROVE Spec => EndedIsFinal
<1> DEFINE Final == \A r \in Stored :
             /\ rows'[r].bound = rows[r].bound
             /\ rows[r].status \in Ended => rows'[r] = rows[r] /\ events'[r] = events[r]
<1>1. CloseoutInv /\ [Next]_vars => [Final]_vars
  <2> SUFFICES ASSUME CloseoutInv, Next PROVE Final
    OBVIOUS
  <2>1. CASE UNCHANGED <<rows, events>>
    BY <2>1
  <2>2. ASSUME NEW p \in Processes, Commit(p) PROVE Final
    <3>1. PICK new, e : Lives(proc[p].req, new, e)
      BY <2>2, CommitLives
    <3>2. \A q \in Requests : rows'[q] = IF q = proc[p].req THEN new ELSE rows[q]
      BY <3>1 DEF CloseoutInv, TypeOK, Lives
    <3>3. \A q \in Requests \ {proc[p].req} : events'[q] = events[q]
      BY <3>1, LivesLog
    <3>4. rows[proc[p].req] # None =>
            new.bound = rows[proc[p].req].bound /\ rows[proc[p].req].status \notin Ended
      BY <3>1 DEF Lives, Told
    <3> QED
      BY <3>2, <3>3, <3>4 DEF Stored
  <2>3. CASE \A p \in Processes : ~Commit(p)
    <3>1. ASSUME NEW p \in Processes, NEW r \in Requests, Call(p, r)
          PROVE  UNCHANGED <<rows, events>>
      BY <3>1 DEF Call, CallSubmit, CallApprove, CallRevoke, CallClaim, CallInvalidate,
         CallComplete, Checked
    <3>2. ASSUME NEW p \in Processes, Conflict(p) \/ Crash(p)
          PROVE  UNCHANGED <<rows, events>>
      BY <3>2 DEF Conflict, Crash
    <3>3. ASSUME NEW e \in Executors, NEW r \in Requests, ReplayClaim(e, r)
          PROVE  UNCHANGED <<rows, events>>
      BY <3>3 DEF ReplayClaim
    <3>4. UNCHANGED <<rows, events>>
      BY <2>3, <3>1, <3>2, <3>3 DEF Next
    <3> QED
      BY <2>1, <3>4
  <2> QED
    BY <2>2, <2>3
<1> QED
  BY <1>1, CloseoutCorrect, PTL DEF Spec, EndedIsFinal
=============================================================================
