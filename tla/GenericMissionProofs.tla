------------------------- MODULE GenericMissionProofs --------------------------
(***************************************************************************)
(* TypeOK, CompletionIsReal and NeverStuck of GenericMission, and that it  *)
(* implements ChildMission, for any callers, approvers, dispatches and     *)
(* crashes.                                                                *)
(***************************************************************************)
EXTENDS GenericMission, TLAPS

States ==
  {"absent", "approval_required", "approved", "execution_started", "downstream_request_prepared",
   "downstream_result_observed", "result_persisted", "completed", "failed_recoverable",
   "recovery_in_progress", "reconciliation_required", "failed_terminal"}
Points == SyncPoints \cup {"idle", "authority", "execute", "sent", "lookup", "found"}
Answers == {"unavailable", "invalid", "payload_mismatch", "unique", "incomplete", "not_found"}
Results == {None, "succeeded", "unsafe", "failed", "denied", "unavailable"}
Early == {"absent", "approval_required"}

Rows ==
  [status : {"absent", "approval_required", "executing", "succeeded", "failed", "denied", "unavailable"},
   by : Approvers \cup {None}, result : Results]
Execs ==
  [state : States, retry : 0..1, outcome : Answers \cup {"not_started"}, ids : BOOLEAN, seen : Results]
Frames ==
  [pc : Points, op : {None, "approve", "reconcile", "resume"}, by : Approvers \cup {None},
   number : Nat, kind : Results \cup Answers]

Typed ==
  /\ row \in Rows /\ exec \in Execs /\ proc \in [Callers -> Frames]
  /\ claim \in {None, "held", "resolved"} /\ loop \in {"none", "task", "loop"}
  /\ wire \subseteq 1..sent /\ sent \in 0..MaxDispatches /\ crashes \in 0..MaxCrashes

(* What the row, the execution and the run's last ledger status say of each  *)
(* other.  The approval comes first: nobody works on a mission without it.   *)
Agree(r, e, l) ==
  /\ e.state \in Early <=> r.status \in Early
  /\ e.state \in Early => r.status = e.state /\ r.by = None
  /\ e.state \notin Early => r.by # None
  /\ e.state \in {"downstream_result_observed", "result_persisted", "completed"} => e.ids
  /\ e.state = "downstream_result_observed" => e.seen \in {None, "succeeded"}
  /\ e.state \in {"result_persisted", "completed"} => r.result = "succeeded" /\ r.status = "succeeded"
  /\ l = "completed" <=> e.state = "completed"
  /\ l = "failed" <=> e.state = "failed_terminal"

(* Ids, and a resolved claim, come from a loop the Governor has.            *)
Backed(e, k, lp) == (e.ids => lp = "loop") /\ (k = "resolved" => lp = "loop")

(* What a request in flight may rely on.                                    *)
Knows(x, e, lp) ==
  /\ e.state \in Early => x.pc = "idle"
  /\ x.pc \in {"persist", "complete"} => x.kind = "succeeded"
  /\ x.pc = "found" => x.kind \in Answers /\ (x.kind = "unique" => lp = "loop")

Inv ==
  /\ Typed
  /\ Agree(row, exec, ledger)
  /\ Backed(exec, claim, loop)
  /\ \A c \in Callers : Knows(proc[c], exec, loop)

-------------------------------------------------------------------------------
(* The journal's table, read once.                                          *)
LEMMA Table ==
  /\ DOMAIN Next0 = States
  /\ Next0["absent"] = {}
  /\ Next0["approval_required"] = {"approved", "failed_terminal"}
  /\ Next0["approved"] = {"execution_started", "failed_terminal"}
  /\ Next0["execution_started"] = {"downstream_request_prepared", "failed_recoverable", "failed_terminal"}
  /\ Next0["downstream_request_prepared"] =
       {"downstream_result_observed", "failed_recoverable", "failed_terminal", "recovery_in_progress"}
  /\ Next0["downstream_result_observed"] =
       {"result_persisted", "failed_recoverable", "failed_terminal", "reconciliation_required",
        "recovery_in_progress"}
  /\ Next0["result_persisted"] = {"completed"}
  /\ Next0["completed"] = {"completed"}
  /\ Next0["failed_recoverable"] = {"recovery_in_progress", "failed_terminal"}
  /\ Next0["recovery_in_progress"] =
       {"downstream_request_prepared", "downstream_result_observed", "failed_recoverable",
        "failed_terminal", "reconciliation_required"}
  /\ Next0["reconciliation_required"] = {"failed_terminal"}
  /\ Next0["failed_terminal"] = {}
BY DEF Next0, States

(* What one transition can and cannot do.                                   *)
LEMMA Transition ==
  ASSUME NEW from \in States, NEW to, to \in Next0[from]
  PROVE  /\ to \in States /\ to \notin Early /\ from \notin {"absent", "failed_terminal"}
         /\ from = "approval_required" => to \in {"approved", "failed_terminal"}
         /\ to = "approved" => from = "approval_required"
         /\ from \in {"result_persisted", "completed"} => to = "completed"
         /\ to = "completed" => from \in {"result_persisted", "completed"}
         /\ to = "result_persisted" => from = "downstream_result_observed"
BY Table DEF States, Early

(* A mission that has its approval moves as a child mission may.            *)
LEMMA ChildMoves ==
  ASSUME NEW from \in States, NEW to, to \in Next0[from], from # "approval_required"
  PROVE  StateOf(to) = StateOf(from) \/ StateOf(to) \in Child!Moves[StateOf(from)]
BY Table DEF States, StateOf, Child!Moves

-------------------------------------------------------------------------------
LEMMA GenericInit == ASSUME GenericAssumption PROVE Init => Inv
<1> SUFFICES ASSUME Init PROVE Inv
  OBVIOUS
<1> USE DEF Init, Inv, None
<1>1. Typed
  BY DEF Typed, Rows, Execs, Frames, Idle, States, Points, Results, Answers, GenericAssumption
<1>2. Agree(row, exec, ledger)
  BY DEF Agree, Early
<1>3. Backed(exec, claim, loop)
  BY DEF Backed
<1>4. ASSUME NEW c \in Callers PROVE Knows(proc[c], exec, loop)
  BY DEF Knows, Idle
<1> QED BY <1>1, <1>2, <1>3, <1>4

-------------------------------------------------------------------------------
(* What a request knows stays so: a mission does not lose its approval, nor  *)
(* the Governor a loop.                                                     *)
LEMMA KnowsKept ==
  ASSUME NEW x, NEW e, NEW f, NEW lp, NEW lq, Knows(x, e, lp),
         f.state \in Early => e.state \in Early, lp = "loop" => lq = "loop"
  PROVE  Knows(x, f, lq)
BY DEF Knows

LEMMA CallerStep ==
  ASSUME Inv, NEW c \in Callers, NEW y \in Frames, proc' = [proc EXCEPT ![c] = y],
         exec'.state \in Early => exec.state \in Early, loop = "loop" => loop' = "loop",
         Knows(y, exec', loop')
  PROVE  proc' \in [Callers -> Frames] /\ \A d \in Callers : Knows(proc'[d], exec', loop')
<1>1. proc \in [Callers -> Frames]
  BY DEF Inv, Typed
<1>2. proc' \in [Callers -> Frames]
  BY <1>1
<1>3. ASSUME NEW d \in Callers PROVE Knows(proc'[d], exec', loop')
  <2>1. CASE d = c
    <3>1. proc'[d] = y
      BY <1>1, <2>1
    <3> QED BY <3>1
  <2>2. CASE d # c
    <3>1. proc'[d] = proc[d]
      BY <1>1, <2>2
    <3>2. Knows(proc[d], exec, loop)
      BY DEF Inv
    <3>3. Knows(proc[d], exec', loop')
      BY <3>2, KnowsKept
    <3> QED BY <3>1, <3>3
  <2> QED BY <2>1, <2>2
<1> QED BY <1>2, <1>3

(* The frames the actions leave.                                            *)
To(x, pc) == [x EXCEPT !.pc = pc]
LEMMA ToFrame ==
  ASSUME NEW x \in Frames, NEW pc \in Points
  PROVE  To(x, pc) \in Frames /\ To(x, pc).pc = pc /\ To(x, pc).kind = x.kind
BY DEF To, Frames

Starts(by) == [Idle EXCEPT !.pc = "start", !.op = "approve", !.by = by]
Does(pc, op) == [Idle EXCEPT !.pc = pc, !.op = op]
Persists == [Idle EXCEPT !.pc = "persist", !.kind = "succeeded"]
Resumes(kind) == [Idle EXCEPT !.pc = "persist", !.op = "resume", !.kind = kind]
LEMMA StartsFrame ==
  ASSUME NEW by \in Approvers PROVE Starts(by) \in Frames /\ Starts(by).pc = "start"
BY DEF Starts, Frames, Idle, Points, SyncPoints, Results
LEMMA DoesFrame ==
  ASSUME NEW pc \in Points, NEW op \in {None, "approve", "reconcile", "resume"}
  PROVE  Does(pc, op) \in Frames /\ Does(pc, op).pc = pc
BY DEF Does, Frames, Idle, Results
LEMMA PersistsFrame == Persists \in Frames /\ Persists.pc = "persist" /\ Persists.kind = "succeeded"
BY DEF Persists, Frames, Idle, Points, SyncPoints, Results
LEMMA ResumesFrame ==
  ASSUME NEW kind \in Results
  PROVE  Resumes(kind) \in Frames /\ Resumes(kind).pc = "persist" /\ Resumes(kind).kind = kind
BY DEF Resumes, Frames, Idle, Points, SyncPoints

LEMMA IdleFrame == Idle \in Frames /\ Idle.pc = "idle"
BY DEF Idle, Frames, Points, Results

(* The journal moves an execution on, and never back before its approval.   *)
LEMMA Journaled ==
  ASSUME exec \in Execs, NEW e, NEW via \in States \cup {None}, Journal(e, via)
  PROVE  exec' = e /\ e.state \in States \ Early
<1>1. exec.state \in States
  BY DEF Execs
<1>2. CASE via = None
  <2>1. e.state \in Next0[exec.state] /\ exec' = e
    BY <1>2 DEF Journal, Reaches
  <2> QED BY <1>1, <2>1, Transition
<1>3. CASE via # None
  <2>1. e.state \in Next0[via] /\ exec' = e /\ via \in States
    BY <1>3 DEF Journal, Reaches
  <2> QED BY <2>1, Transition
<1> QED BY <1>2, <1>3

-------------------------------------------------------------------------------
(* One lemma per action.                                                    *)

LEMMA CreateKeeps == ASSUME Inv, CreateMission PROVE Inv'
<1> USE DEF CreateMission, Inv, external
<1>1. exec.state = "absent" /\ row.by = None /\ ledger # "completed" /\ ledger # "failed"
  BY DEF Agree, Early
<1>2. exec' \in Execs /\ exec'.state = "approval_required" /\ exec'.ids = exec.ids
  BY DEF Typed, Execs, States
<1>3. row' \in Rows /\ row'.status = "approval_required" /\ row'.by = None
  BY <1>1 DEF Typed, Rows
<1>4. Typed'
  BY <1>2, <1>3 DEF Typed
<1>5. Agree(row', exec', ledger')
  BY <1>2, <1>3 DEF Agree, Early, Ledger
<1>6. Backed(exec', claim', loop')
  BY <1>2 DEF Backed
<1>7. ASSUME NEW c \in Callers PROVE Knows(proc'[c], exec', loop')
  BY <1>1, KnowsKept DEF Early
<1> QED BY <1>4, <1>5, <1>6, <1>7

LEMMA ApproveKeeps ==
  ASSUME GenericAssumption, Inv, NEW c \in Callers, NEW by \in Approvers, Approve(c, by) PROVE Inv'
<1> USE DEF Approve, Inv, external
<1> DEFINE y == Starts(by)
<1>1. by # None
  BY DEF GenericAssumption
<1>2. exec.state = "approval_required"
  BY DEF Agree, Early
<1>3. exec' = [exec EXCEPT !.state = "approved"]
  BY DEF Journal
<1>4. exec' \in Execs /\ exec'.state = "approved" /\ exec'.ids = exec.ids
  BY <1>3 DEF Typed, Execs, States
<1>5. row' \in Rows /\ row'.status = "executing" /\ row'.by = by
  BY DEF Typed, Rows
<1>6. Agree(row', exec', ledger')
  BY <1>1, <1>4, <1>5 DEF Agree, Early, Ledger
<1>7. Backed(exec', claim', loop')
  BY <1>4 DEF Backed
<1>8. y \in Frames /\ y.pc = "start"
  BY StartsFrame
<1>9. proc' = [proc EXCEPT ![c] = y]
  BY DEF Starts
<1>11. Knows(y, exec', loop')
  BY <1>4, <1>8 DEF Knows, Early
<1> HIDE DEF y
<1>10. proc' \in [Callers -> Frames] /\ \A d \in Callers : Knows(proc'[d], exec', loop')
  BY <1>4, <1>8, <1>9, <1>11, CallerStep DEF Early
<1> QED BY <1>4, <1>5, <1>6, <1>7, <1>10 DEF Typed

(* Somebody works on it, so it has its approval.                            *)
LEMMA Working ==
  ASSUME Inv, NEW c \in Callers, proc[c].pc # "idle"
  PROVE  exec.state \notin Early
BY DEF Inv, Knows

LEMMA StartKeeps == ASSUME Inv, NEW c \in Callers, StartExecution(c) PROVE Inv'
<1> USE DEF StartExecution, Inv, external
<1> DEFINE y == To(proc[c], "prepare")
<1>1. proc[c] \in Frames /\ exec.state \notin Early
  BY Working DEF Typed
<1>2. exec' = [exec EXCEPT !.state = "execution_started"]
  BY DEF Journal
<1>3. exec' \in Execs /\ exec'.state = "execution_started" /\ exec'.ids = exec.ids
  BY <1>2 DEF Typed, Execs, States
<1>4. Agree(row', exec', ledger')
  BY <1>1, <1>3 DEF Agree, Early, Ledger
<1>5. Backed(exec', claim', loop')
  BY <1>3 DEF Backed
<1>6. y \in Frames /\ y.pc = "prepare"
  BY <1>1, ToFrame DEF Points, SyncPoints
<1>7. proc' = [proc EXCEPT ![c] = y]
  BY DEF Goto, To
<1>8. Knows(y, exec', loop')
  BY <1>3, <1>6 DEF Knows, Early
<1> HIDE DEF y
<1>9. proc' \in [Callers -> Frames] /\ \A d \in Callers : Knows(proc'[d], exec', loop')
  BY <1>3, <1>6, <1>7, <1>8, CallerStep DEF Early
<1> QED BY <1>3, <1>4, <1>5, <1>9 DEF Typed

LEMMA PrepareKeeps == ASSUME Inv, NEW c \in Callers, PrepareRequest(c) PROVE Inv'
<1> USE DEF PrepareRequest, Inv, external
<1> DEFINE y == To(proc[c], "authority")
<1>1. proc[c] \in Frames /\ exec \in Execs /\ exec.state \notin Early
  BY Working DEF Typed
<1>2. /\ exec' = [exec EXCEPT !.state = "downstream_request_prepared"]
      /\ "downstream_request_prepared" \in Next0[exec.state]
  BY DEF Journal, Reaches
<1>3. exec' \in Execs /\ exec'.state = "downstream_request_prepared" /\ exec'.ids = exec.ids
  BY <1>1, <1>2 DEF Execs, States
<1>4. exec.state \in States /\ exec.state \notin {"completed", "failed_terminal"}
  BY <1>1, <1>2, Transition DEF Execs
<1>5. Agree(row', exec', ledger')
  BY <1>1, <1>3, <1>4 DEF Agree, Early
<1>6. Backed(exec', claim', loop')
  BY <1>3 DEF Backed
<1>7. y \in Frames /\ y.pc = "authority"
  BY <1>1, ToFrame DEF Points, SyncPoints
<1>8. proc' = [proc EXCEPT ![c] = y]
  BY DEF Goto, To
<1>9. Knows(y, exec', loop')
  BY <1>3, <1>7 DEF Knows, Early
<1> HIDE DEF y
<1>10. proc' \in [Callers -> Frames] /\ \A d \in Callers : Knows(proc'[d], exec', loop')
  BY <1>3, <1>7, <1>8, <1>9, CallerStep DEF Early
<1> QED BY <1>3, <1>5, <1>6, <1>10 DEF Typed

LEMMA ApprovalKeeps == ASSUME Inv, NEW c \in Callers, PrepareApproval(c) PROVE Inv'
<1> USE DEF PrepareApproval, Inv, durable, external
<1> DEFINE y == To(proc[c], "execute")
<1>1. proc[c] \in Frames /\ exec.state \notin Early
  BY Working DEF Typed
<1>2. y \in Frames /\ y.pc = "execute"
  BY <1>1, ToFrame DEF Points
<1>3. proc' = [proc EXCEPT ![c] = y]
  BY DEF Goto, To
<1>4. Knows(y, exec', loop')
  BY <1>1, <1>2 DEF Knows
<1> HIDE DEF y
<1>5. proc' \in [Callers -> Frames] /\ \A d \in Callers : Knows(proc'[d], exec', loop')
  BY <1>2, <1>3, <1>4, CallerStep
<1> QED BY <1>5 DEF Typed

Sends(x, number) == [x EXCEPT !.pc = "sent", !.number = number]
LEMMA SendsFrame ==
  ASSUME NEW x \in Frames, NEW number \in Nat
  PROVE  Sends(x, number) \in Frames /\ Sends(x, number).pc = "sent"
BY DEF Sends, Frames, Points

LEMMA DispatchKeeps == ASSUME GenericAssumption, Inv, NEW c \in Callers, Dispatch(c) PROVE Inv'
<1> USE DEF Dispatch, Inv, durable
<1> DEFINE y == Sends(proc[c], sent + 1)
<1>1. proc[c] \in Frames /\ exec.state \notin Early
  BY Working DEF Typed
<1>2. sent + 1 \in 0..MaxDispatches /\ sent + 1 \in Nat /\ wire \cup {sent + 1} \subseteq 1..(sent + 1)
  BY DEF Typed, GenericAssumption
<1>3. y \in Frames /\ y.pc = "sent"
  BY <1>1, <1>2, SendsFrame
<1>4. proc' = [proc EXCEPT ![c] = y]
  BY DEF Sends
<1>5. Knows(y, exec', loop')
  BY <1>1, <1>3 DEF Knows
<1> HIDE DEF y
<1>6. proc' \in [Callers -> Frames] /\ \A d \in Callers : Knows(proc'[d], exec', loop')
  BY <1>3, <1>4, <1>5, CallerStep
<1>7. Backed(exec', claim', loop')
  BY DEF Backed
<1> QED BY <1>2, <1>6, <1>7 DEF Typed

LEMMA GovernorKeeps == ASSUME Inv, NEW d \in wire, GovernorCreates(d) PROVE Inv'
<1> USE DEF GovernorCreates, Inv, durable
<1>1. loop = "loop" => loop' = "loop"
  OBVIOUS
<1>2. loop' \in {"none", "task", "loop"} /\ wire' \subseteq 1..sent'
  BY DEF Typed
<1>3. Backed(exec', claim', loop')
  BY <1>1 DEF Backed
<1>4. ASSUME NEW c \in Callers PROVE Knows(proc'[c], exec', loop')
  BY <1>1, KnowsKept
<1> QED BY <1>2, <1>3, <1>4 DEF Typed

-------------------------------------------------------------------------------
(* An answer that carries ids has the Governor's loop behind it.            *)
LEMMA KindFacts ==
  ASSUME Inv, NEW c \in Callers, NEW kind \in Kinds(c)
  PROVE  /\ kind \in Results \ {None}
         /\ proc[c].pc # "idle"
         /\ kind = "succeeded" => loop = "loop"
         /\ proc[c].pc = "sent" /\ kind \in {"succeeded", "unsafe"} => loop = "loop"
<1>1. CASE proc[c].pc = "authority"
  BY <1>1 DEF Kinds, Results, None
<1>2. CASE proc[c].pc = "execute"
  BY <1>2 DEF Kinds, Results, None, Inv, Backed
<1>3. CASE proc[c].pc = "sent"
  BY <1>3 DEF Kinds, Results, None
<1>4. CASE proc[c].pc \notin {"authority", "execute", "sent"}
  BY <1>4 DEF Kinds
<1> QED BY <1>1, <1>2, <1>3, <1>4

LEMMA ResolvesBacked ==
  ASSUME Inv, NEW c \in Callers, NEW kind \in Kinds(c), Resolves(c, kind)
  PROVE  /\ claim' \in {None, "held", "resolved"}
         /\ claim' = "resolved" => loop = "loop"
<1>1. claim \in {None, "held", "resolved"} /\ (claim = "resolved" => loop = "loop")
  BY DEF Inv, Typed, Backed
<1>2. CASE proc[c].pc = "sent" /\ kind \in {"succeeded", "unsafe"} /\ claim = "held"
  BY <1>2, KindFacts DEF Resolves
<1>3. CASE ~(proc[c].pc = "sent" /\ kind \in {"succeeded", "unsafe"} /\ claim = "held")
  BY <1>1, <1>3 DEF Resolves
<1> QED BY <1>2, <1>3

Observes(e) == [e EXCEPT !.state = "downstream_result_observed", !.ids = TRUE, !.seen = "succeeded"]
LEMMA ObservesExec ==
  ASSUME NEW e \in Execs
  PROVE  /\ Observes(e) \in Execs /\ Observes(e).state = "downstream_result_observed"
         /\ Observes(e).ids = TRUE /\ Observes(e).seen = "succeeded"
BY DEF Observes, Execs, States, Results

LEMMA ObserveKeeps == ASSUME Inv, NEW c \in Callers, ObserveResult(c) PROVE Inv'
<1> USE DEF ObserveResult, Inv
<1> DEFINE y == Persists
<1>1. loop = "loop" /\ exec.state \notin Early /\ exec \in Execs
  BY KindFacts, Working DEF Typed
<1>2. exec' = Observes(exec)
  BY DEF Journal, Observes
<1>3. /\ exec' \in Execs /\ exec'.state = "downstream_result_observed"
      /\ exec'.ids = TRUE /\ exec'.seen = "succeeded"
  BY <1>1, <1>2, ObservesExec
<1>4. Agree(row', exec', ledger')
  BY <1>1, <1>3 DEF Agree, Early, Ledger
<1>5. claim' \in {None, "held", "resolved"}
  BY ResolvesBacked
<1>6. Backed(exec', claim', loop')
  BY <1>1 DEF Backed
<1>7. y \in Frames /\ y.pc = "persist" /\ y.kind = "succeeded"
  BY PersistsFrame
<1>8. proc' = [proc EXCEPT ![c] = y]
  BY DEF Persists
<1>9. Knows(y, exec', loop')
  BY <1>3, <1>7 DEF Knows, Early
<1> HIDE DEF y
<1>10. proc' \in [Callers -> Frames] /\ \A d \in Callers : Knows(proc'[d], exec', loop')
  BY <1>3, <1>7, <1>8, <1>9, CallerStep DEF Early
<1> QED BY <1>3, <1>4, <1>5, <1>6, <1>10 DEF Typed

Fails(e, kind) == [e EXCEPT !.state = FailedState(kind), !.seen = kind]
LEMMA FailsExec ==
  ASSUME NEW e \in Execs, NEW kind \in Results
  PROVE  /\ Fails(e, kind) \in Execs /\ Fails(e, kind).ids = e.ids
         /\ Fails(e, kind).state = FailedState(kind)
         /\ FailedState(kind) \in {"failed_recoverable", "failed_terminal"}
<1>1. FailedState(kind) \in {"failed_recoverable", "failed_terminal"}
  BY DEF FailedState
<1> QED BY <1>1 DEF Fails, Execs, States

Answered(r, status, result) == [r EXCEPT !.status = status, !.result = result]
LEMMA AnsweredRow ==
  ASSUME NEW r \in Rows, NEW kind \in Results \ {None}
  PROVE  /\ Answered(r, Status(kind), kind) \in Rows /\ Answered(r, Status(kind), kind).by = r.by
         /\ Answered(r, Status(kind), kind).status = Status(kind)
         /\ Answered(r, Status(kind), kind).result = kind
         /\ Status(kind) \notin Early
<1>1. Status(kind) \in {"succeeded", "failed", "denied", "unavailable"}
  BY DEF Status, Results
<1>2. Status(kind) \notin Early
  BY <1>1 DEF Early
<1> HIDE DEF Status
<1> QED BY <1>1, <1>2 DEF Answered, Rows

LEMMA ReturnStep ==
  ASSUME Inv, NEW c \in Callers, Return(c), exec'.state \in Early => exec.state \in Early, loop' = loop
  PROVE  proc' \in [Callers -> Frames] /\ \A d \in Callers : Knows(proc'[d], exec', loop')
<1>1. Idle \in Frames /\ Knows(Idle, exec', loop')
  BY IdleFrame DEF Knows
<1>2. proc' = [proc EXCEPT ![c] = Idle]
  BY DEF Return
<1> QED BY <1>1, <1>2, CallerStep

LEMMA FailureKeeps == ASSUME Inv, NEW c \in Callers, RecordFailure(c) PROVE Inv'
<1> USE DEF Inv
<1>1. PICK kind \in Kinds(c) \ {"succeeded"} :
        /\ Journal(Fails(exec, kind), None)
        /\ row' = Answered(row, Status(kind), kind)
        /\ Ledger(IF FailedState(kind) = "failed_recoverable" THEN "reconciliation_required" ELSE "failed")
        /\ Resolves(c, kind)
  BY DEF RecordFailure, Fails, Answered
<1>2. kind \in Results \ {None} /\ exec.state \notin Early /\ exec \in Execs /\ row \in Rows
  BY <1>1, KindFacts, Working DEF Typed
<1>3. exec' = Fails(exec, kind) /\ FailedState(kind) \in Next0[exec.state]
  BY <1>1, <1>2, FailsExec DEF Journal, Reaches
<1>4. /\ exec' \in Execs /\ exec'.ids = exec.ids /\ exec'.state = FailedState(kind)
      /\ FailedState(kind) \in {"failed_recoverable", "failed_terminal"}
  BY <1>2, <1>3, FailsExec
<1>5. row' \in Rows /\ row'.by = row.by /\ row'.status \notin Early
  BY <1>1, <1>2, AnsweredRow
<1>6. ledger' = IF exec'.state = "failed_recoverable" THEN "reconciliation_required" ELSE "failed"
  BY <1>1, <1>4 DEF Ledger
<1>7. Agree(row', exec', ledger')
  BY <1>2, <1>4, <1>5, <1>6 DEF Agree, Early
<1>8. claim' \in {None, "held", "resolved"} /\ (claim' = "resolved" => loop = "loop") /\ loop' = loop
  BY <1>1, ResolvesBacked DEF RecordFailure
<1>9. Backed(exec', claim', loop')
  BY <1>4, <1>8 DEF Backed
<1>10. proc' \in [Callers -> Frames] /\ \A d \in Callers : Knows(proc'[d], exec', loop')
  BY <1>4, <1>8, ReturnStep DEF Early, RecordFailure
<1>11. UNCHANGED <<loop, wire, sent, crashes>>
  BY DEF RecordFailure
<1> QED BY <1>4, <1>5, <1>7, <1>8, <1>9, <1>10, <1>11 DEF Typed

LEMMA DiscardKeeps == ASSUME Inv, NEW c \in Callers, DiscardResult(c) PROVE Inv'
<1> USE DEF Inv
<1>1. PICK kind \in Kinds(c) : Resolves(c, kind)
  BY DEF DiscardResult
<1>2. UNCHANGED <<row, exec, ledger, loop, wire, sent, crashes>> /\ Return(c)
  BY DEF DiscardResult, durable
<1>3. claim' \in {None, "held", "resolved"} /\ (claim' = "resolved" => loop = "loop")
  BY <1>1, ResolvesBacked
<1>4. Backed(exec', claim', loop')
  BY <1>2, <1>3 DEF Backed
<1>5. proc' \in [Callers -> Frames] /\ \A d \in Callers : Knows(proc'[d], exec', loop')
  BY <1>2, ReturnStep
<1> QED BY <1>2, <1>3, <1>4, <1>5 DEF Typed

Enters(e, state) == [e EXCEPT !.state = state]
LEMMA EntersExec ==
  ASSUME NEW e \in Execs, NEW state \in States
  PROVE  /\ Enters(e, state) \in Execs /\ Enters(e, state).state = state
         /\ Enters(e, state).ids = e.ids /\ Enters(e, state).seen = e.seen
BY DEF Enters, Execs

LEMMA PersistKeeps == ASSUME Inv, NEW c \in Callers, PersistResult(c) PROVE Inv'
<1> USE DEF Inv
<1>1. /\ proc[c].pc = "persist" /\ proc[c].kind = "succeeded" /\ proc[c] \in Frames
      /\ exec.state \notin Early /\ exec \in Execs /\ row \in Rows
  BY Working DEF PersistResult, Knows, Typed
<1>2. UNCHANGED <<ledger, claim, loop, wire, sent, crashes>>
  BY DEF PersistResult, external
<1>3. CASE row.status = "executing" /\ row.result = None /\ "result_persisted" \in Next0[exec.state]
  <2> DEFINE y == To(proc[c], "complete")
  <2>1. exec.state = "downstream_result_observed" /\ "result_persisted" \in States
    BY <1>1, <1>3, Transition DEF Execs
  <2>2. row' = Answered(row, Status("succeeded"), "succeeded") /\ exec' = Enters(exec, "result_persisted")
    BY <1>1, <1>3 DEF PersistResult, Answered, Enters
  <2>3. exec' \in Execs /\ exec'.state = "result_persisted" /\ exec'.ids = exec.ids
    BY <1>1, <2>1, <2>2, EntersExec
  <2>4. "succeeded" \in Results \ {None} /\ Status("succeeded") = "succeeded"
    BY DEF Results, None, Status
  <2>5. row' \in Rows /\ row'.by = row.by /\ row'.status = "succeeded" /\ row'.result = "succeeded"
    BY <1>1, <2>2, <2>4, AnsweredRow
  <2>6. Agree(row', exec', ledger')
    BY <1>2, <2>1, <2>3, <2>5 DEF Agree, Early
  <2>7. Backed(exec', claim', loop')
    BY <1>2, <2>3 DEF Backed
  <2>8. y \in Frames /\ y.pc = "complete" /\ y.kind = "succeeded"
    BY <1>1, ToFrame DEF Points, SyncPoints
  <2>9. proc' = [proc EXCEPT ![c] = y]
    BY <1>3 DEF PersistResult, Goto, To
  <2>10. Knows(y, exec', loop')
    BY <2>3, <2>8 DEF Knows, Early
  <2> HIDE DEF y
  <2>11. proc' \in [Callers -> Frames] /\ \A d \in Callers : Knows(proc'[d], exec', loop')
    BY <1>2, <2>3, <2>8, <2>9, <2>10, CallerStep DEF Early
  <2> QED BY <1>2, <2>3, <2>5, <2>6, <2>7, <2>11 DEF Typed
<1>4. CASE ~(row.status = "executing" /\ row.result = None /\ "result_persisted" \in Next0[exec.state])
  <2>1. Return(c) /\ UNCHANGED <<row, exec>>
    BY <1>4 DEF PersistResult
  <2>2. proc' \in [Callers -> Frames] /\ \A d \in Callers : Knows(proc'[d], exec', loop')
    BY <1>2, <2>1, ReturnStep
  <2> QED BY <1>2, <2>1, <2>2 DEF Typed
<1> QED BY <1>3, <1>4

LEMMA CompleteKeeps == ASSUME Inv, NEW c \in Callers, CompleteMission(c) PROVE Inv'
<1> USE DEF Inv
<1>1. exec.state \notin Early /\ exec \in Execs /\ "completed" \in States
  BY Working DEF CompleteMission, Typed, States
<1>2. /\ UNCHANGED <<row, claim, loop, wire, sent, crashes>> /\ Return(c)
      /\ exec' = Enters(exec, "completed") /\ "completed" \in Next0[exec.state] /\ ledger' = "completed"
  BY <1>1, EntersExec DEF CompleteMission, external, Journal, Reaches, Enters, Ledger
<1>3. exec.state \in {"result_persisted", "completed"}
  BY <1>1, <1>2, Transition DEF Execs
<1>4. exec' \in Execs /\ exec'.state = "completed" /\ exec'.ids = exec.ids
  BY <1>1, <1>2, EntersExec
<1>5. Agree(row', exec', ledger')
  BY <1>2, <1>3, <1>4 DEF Agree, Early
<1>6. Backed(exec', claim', loop')
  BY <1>2, <1>4 DEF Backed
<1>7. proc' \in [Callers -> Frames] /\ \A d \in Callers : Knows(proc'[d], exec', loop')
  BY <1>2, <1>4, ReturnStep DEF Early
<1> QED BY <1>2, <1>4, <1>5, <1>6, <1>7 DEF Typed

-------------------------------------------------------------------------------
(* reconcileMission.                                                        *)

LEMMA ReconcileStates ==
  ASSUME exec \in Execs, "reconcile" \in Permitted(exec)
  PROVE  exec.state \in {"execution_started", "downstream_request_prepared", "failed_recoverable",
                         "recovery_in_progress"}
BY DEF Permitted, Execs, States

LEMMA ReconcileKeeps == ASSUME Inv, NEW c \in Callers, Reconcile(c) PROVE Inv'
<1> USE DEF Inv
<1> DEFINE y == Does("lookup", "reconcile")
<1>1. exec \in Execs /\ "recovery_in_progress" \in States /\ "failed_recoverable" \in States
  BY DEF Typed, States
<1>2. exec.state \in {"execution_started", "downstream_request_prepared", "failed_recoverable",
                      "recovery_in_progress"}
  BY <1>1, ReconcileStates DEF Reconcile, CanReconcile
<1>3. exec' = Enters(exec, "recovery_in_progress") /\ ledger' = "running"
  BY DEF Reconcile, Journal, Enters, Ledger
<1>4. UNCHANGED <<row, claim, loop, wire, sent, crashes>>
  BY DEF Reconcile, external
<1>5. exec' \in Execs /\ exec'.state = "recovery_in_progress" /\ exec'.ids = exec.ids
  BY <1>1, <1>3, EntersExec
<1>6. Agree(row', exec', ledger')
  BY <1>2, <1>3, <1>4, <1>5 DEF Agree, Early
<1>7. Backed(exec', claim', loop')
  BY <1>4, <1>5 DEF Backed
<1>8. y \in Frames /\ y.pc = "lookup"
  BY DoesFrame DEF Points
<1>9. proc' = [proc EXCEPT ![c] = y]
  BY DEF Reconcile, Does
<1>10. Knows(y, exec', loop')
  BY <1>5, <1>8 DEF Knows, Early
<1> HIDE DEF y
<1>11. proc' \in [Callers -> Frames] /\ \A d \in Callers : Knows(proc'[d], exec', loop')
  BY <1>4, <1>5, <1>8, <1>9, <1>10, CallerStep DEF Early
<1> QED BY <1>4, <1>5, <1>6, <1>7, <1>11 DEF Typed

Finds(x, answer) == [x EXCEPT !.pc = "found", !.kind = answer]
LEMMA FindsFrame ==
  ASSUME NEW x \in Frames, NEW answer \in Answers
  PROVE  Finds(x, answer) \in Frames /\ Finds(x, answer).pc = "found" /\ Finds(x, answer).kind = answer
BY DEF Finds, Frames, Points

LEMMA LookupKeeps == ASSUME Inv, NEW c \in Callers, Lookup(c) PROVE Inv'
<1> USE DEF Inv
<1>1. proc[c].pc = "lookup" /\ proc \in [Callers -> Frames] /\ proc[c] \in Frames /\ exec.state \notin Early
  BY Working DEF Lookup, Typed
<1>2. UNCHANGED <<row, exec, ledger, claim, loop, wire, sent, crashes>>
  BY DEF Lookup, durable, external
<1>3. PICK answer \in {"unavailable", "invalid", "payload_mismatch"} \cup
           {CASE loop = "loop" -> "unique" [] loop = "task" -> "incomplete" [] OTHER -> "not_found"} :
        proc' = [proc EXCEPT ![c].pc = "found", ![c].kind = answer]
  BY DEF Lookup
<1>4. answer \in Answers /\ (answer = "unique" => loop = "loop")
  BY DEF Answers
<1> DEFINE y == Finds(proc[c], answer)
<1>5. y \in Frames /\ y.pc = "found" /\ y.kind = answer
  BY <1>1, <1>4, FindsFrame
<1>6. proc' = [proc EXCEPT ![c] = y]
  BY <1>1, <1>3 DEF Finds
<1>7. Knows(y, exec', loop')
  BY <1>1, <1>2, <1>4, <1>5 DEF Knows
<1> HIDE DEF y
<1>8. proc' \in [Callers -> Frames] /\ \A d \in Callers : Knows(proc'[d], exec', loop')
  BY <1>2, <1>5, <1>6, <1>7, CallerStep
<1> QED BY <1>2, <1>8 DEF Typed

Learns(e, answer) ==
  [e EXCEPT !.state = LookupState(answer), !.outcome = answer, !.ids = @ \/ answer = "unique",
            !.seen = IF answer \in {"unique", "not_found", "incomplete"} THEN None ELSE @]
LEMMA LearnsExec ==
  ASSUME NEW e \in Execs, NEW answer \in Answers
  PROVE  /\ Learns(e, answer) \in Execs
         /\ Learns(e, answer).state = LookupState(answer)
         /\ Learns(e, answer).ids = (e.ids \/ answer = "unique")
         /\ answer = "unique" => Learns(e, answer).seen = None
         /\ LookupState(answer) =
              CASE answer \in {"not_found", "incomplete", "unavailable"} -> "failed_recoverable"
                [] answer \in {"invalid", "payload_mismatch"} -> "failed_terminal"
                [] answer = "unique" -> "downstream_result_observed"
         /\ LookupState(answer) \in {"failed_recoverable", "failed_terminal", "downstream_result_observed"}
<1>1. LookupState(answer) \in {"failed_recoverable", "failed_terminal", "downstream_result_observed"}
  BY DEF LookupState, Answers
<1>2. (e.ids \/ answer = "unique") \in BOOLEAN
  OBVIOUS
<1>3. (IF answer \in {"unique", "not_found", "incomplete"} THEN None ELSE e.seen) \in Results
  BY DEF Execs, Results
<1>4. LookupState(answer) =
              CASE answer \in {"not_found", "incomplete", "unavailable"} -> "failed_recoverable"
                [] answer \in {"invalid", "payload_mismatch"} -> "failed_terminal"
                [] answer = "unique" -> "downstream_result_observed"
  BY DEF LookupState
<1> HIDE DEF LookupState
<1>5. Learns(e, answer) \in Execs
  BY <1>1, <1>2, <1>3 DEF Learns, Execs, States
<1>6. /\ Learns(e, answer).state = LookupState(answer)
      /\ Learns(e, answer).ids = (e.ids \/ answer = "unique")
      /\ answer = "unique" => Learns(e, answer).seen = None
  BY DEF Learns, Execs
<1> QED BY <1>1, <1>4, <1>5, <1>6

LEMMA RecordKeeps == ASSUME Inv, NEW c \in Callers, RecordLookup(c) PROVE Inv'
<1> USE DEF Inv
<1> DEFINE answer == proc[c].kind
<1>1. /\ proc[c].pc = "found" /\ exec.state \notin Early /\ exec \in Execs
      /\ answer \in Answers /\ (answer = "unique" => loop = "loop")
  BY Working DEF RecordLookup, Knows, Typed
<1>2. UNCHANGED <<row, claim, loop, wire, sent, crashes>> /\ Return(c)
  BY DEF RecordLookup, external
<1>3. CASE LookupState(answer) \in Next0[exec.state]
  <2>1. exec' = Learns(exec, answer) /\ ledger' = LookupLedger(answer)
    BY <1>3 DEF RecordLookup, Learns, Ledger
  <2> HIDE DEF answer
  <2>2. /\ exec' \in Execs /\ exec'.state = LookupState(answer) /\ exec'.ids = (exec.ids \/ answer = "unique")
        /\ exec'.state \in {"failed_recoverable", "failed_terminal", "downstream_result_observed"}
        /\ answer = "unique" => exec'.seen = None
    BY <1>1, <2>1, LearnsExec
  <2>3. exec'.state = "downstream_result_observed" => answer = "unique"
    BY <1>1, <2>2 DEF LookupState, Answers
  <2>4. ledger' # "completed" /\ (ledger' = "failed" <=> exec'.state = "failed_terminal")
    BY <2>1, <2>2 DEF LookupLedger
  <2>5. Agree(row', exec', ledger')
    BY <1>1, <1>2, <2>2, <2>3, <2>4 DEF Agree, Early
  <2>6. Backed(exec', claim', loop')
    BY <1>1, <1>2, <2>2 DEF Backed
  <2>7. proc' \in [Callers -> Frames] /\ \A d \in Callers : Knows(proc'[d], exec', loop')
    BY <1>2, <2>2, ReturnStep DEF Early
  <2> QED BY <1>2, <2>2, <2>5, <2>6, <2>7 DEF Typed
<1>4. CASE LookupState(answer) \notin Next0[exec.state]
  <2>1. UNCHANGED <<exec, ledger>>
    BY <1>4 DEF RecordLookup
  <2>2. proc' \in [Callers -> Frames] /\ \A d \in Callers : Knows(proc'[d], exec', loop')
    BY <1>2, <2>1, ReturnStep
  <2> QED BY <1>2, <2>1, <2>2 DEF Typed
<1> QED BY <1>3, <1>4

-------------------------------------------------------------------------------
(* resumeSafely.                                                            *)

LEMMA CompletedKeeps == ASSUME Inv, NEW c \in Callers, ResumePersisted(c) PROVE Inv'
<1> USE DEF Inv
<1>1. exec.state = "result_persisted" /\ exec \in Execs /\ "completed" \in States
  BY DEF ResumePersisted, Typed, States
<1>2. /\ UNCHANGED <<row, proc, claim, loop, wire, sent, crashes>>
      /\ exec' = Enters(exec, "completed") /\ ledger' = "completed"
  BY DEF ResumePersisted, external, Journal, Enters, Ledger
<1>3. exec' \in Execs /\ exec'.state = "completed" /\ exec'.ids = exec.ids
  BY <1>1, <1>2, EntersExec
<1>4. Agree(row', exec', ledger')
  BY <1>1, <1>2, <1>3 DEF Agree, Early
<1>5. Backed(exec', claim', loop')
  BY <1>2, <1>3 DEF Backed
<1>6. ASSUME NEW d \in Callers PROVE Knows(proc'[d], exec', loop')
  BY <1>2, <1>3, KnowsKept DEF Early
<1> QED BY <1>2, <1>3, <1>4, <1>5, <1>6 DEF Typed

Executes(r) == [r EXCEPT !.status = "executing", !.result = None]
LEMMA ExecutesRow ==
  ASSUME NEW r \in Rows
  PROVE  Executes(r) \in Rows /\ Executes(r).status = "executing" /\ Executes(r).by = r.by
BY DEF Executes, Rows, Results

LEMMA ObservedKeeps == ASSUME Inv, NEW c \in Callers, ResumeObserved(c) PROVE Inv'
<1> USE DEF Inv
<1> DEFINE y == Resumes(exec.seen)
<1>1. /\ exec.state = "downstream_result_observed" /\ exec.seen = "succeeded"
      /\ exec \in Execs /\ row \in Rows /\ exec.seen \in Results
  BY DEF ResumeObserved, Typed, Agree, Execs
<1>2. UNCHANGED <<exec, ledger, claim, loop, wire, sent, crashes>> /\ row' = Executes(row)
  BY DEF ResumeObserved, external, RowExecuting, Executes
<1>3. row' \in Rows /\ row'.status = "executing" /\ row'.by = row.by
  BY <1>1, <1>2, ExecutesRow
<1>4. Agree(row', exec', ledger')
  BY <1>1, <1>2, <1>3 DEF Agree, Early
<1>5. y \in Frames /\ y.pc = "persist" /\ y.kind = "succeeded"
  BY <1>1, ResumesFrame
<1>6. proc' = [proc EXCEPT ![c] = y]
  BY DEF ResumeObserved, Resumes
<1>7. Knows(y, exec', loop')
  BY <1>1, <1>2, <1>5 DEF Knows, Early
<1> HIDE DEF y
<1>8. proc' \in [Callers -> Frames] /\ \A d \in Callers : Knows(proc'[d], exec', loop')
  BY <1>2, <1>5, <1>6, <1>7, CallerStep
<1> QED BY <1>2, <1>3, <1>4, <1>8 DEF Typed

(* The three resumptions that dispatch again.                               *)
LEMMA RedispatchKeeps ==
  ASSUME Inv, NEW c \in Callers, Redispatch(c), RowExecuting,
         exec.state \in {"approved", "downstream_result_observed", "failed_recoverable"},
         exec' \in Execs, exec'.state = "downstream_request_prepared", exec'.ids = exec.ids,
         ledger' \in {ledger, "running"},
         claim' \in {claim, None}, UNCHANGED <<loop, wire, sent, crashes>>
  PROVE  Inv'
<1> USE DEF Inv
<1> DEFINE y == Does("authority", "resume")
<1>1. row \in Rows /\ row' = Executes(row)
  BY DEF Typed, RowExecuting, Executes
<1>2. row' \in Rows /\ row'.status = "executing" /\ row'.by = row.by
  BY <1>1, ExecutesRow
<1>3. Agree(row', exec', ledger')
  BY <1>2 DEF Agree, Early
<1>4. Backed(exec', claim', loop') /\ claim' \in {None, "held", "resolved"}
  BY DEF Backed, None, Typed
<1>5. y \in Frames /\ y.pc = "authority"
  BY DoesFrame DEF Points
<1>6. proc' = [proc EXCEPT ![c] = y]
  BY DEF Redispatch, Does
<1>7. Knows(y, exec', loop')
  BY <1>5 DEF Knows, Early
<1> HIDE DEF y
<1>8. proc' \in [Callers -> Frames] /\ \A d \in Callers : Knows(proc'[d], exec', loop')
  BY <1>5, <1>6, <1>7, CallerStep DEF Early
<1> QED BY <1>2, <1>3, <1>4, <1>8 DEF Typed

LEMMA PreparedKeeps ==
  ASSUME Inv, NEW c \in Callers, ResumeApproved(c) \/ ResumeUnique(c) PROVE Inv'
<1>1. exec \in Execs /\ "downstream_request_prepared" \in States
  BY DEF Inv, Typed, States
<1>2. /\ Redispatch(c) /\ RowExecuting /\ UNCHANGED <<claim, loop, wire, sent, crashes>>
      /\ exec.state \in {"approved", "downstream_result_observed"} /\ ledger' \in {ledger, "running"}
      /\ exec' = Enters(exec, "downstream_request_prepared")
  BY DEF ResumeApproved, ResumeUnique, external, Journal, Enters, Ledger
<1>3. exec' \in Execs /\ exec'.state = "downstream_request_prepared" /\ exec'.ids = exec.ids
  BY <1>1, <1>2, EntersExec
<1> QED BY <1>2, <1>3, RedispatchKeeps

Retries(e, number) == [e EXCEPT !.state = "downstream_request_prepared", !.retry = number]
LEMMA RetriesExec ==
  ASSUME NEW e \in Execs, NEW number \in 0..1
  PROVE  /\ Retries(e, number) \in Execs /\ Retries(e, number).state = "downstream_request_prepared"
         /\ Retries(e, number).ids = e.ids
<1>1. "downstream_request_prepared" \in States
  BY DEF States
<1> QED BY <1>1 DEF Retries, Execs

LEMMA RetryKeeps == ASSUME Inv, NEW c \in Callers, ResumeRetry(c) PROVE Inv'
<1>1. exec \in Execs
  BY DEF Inv, Typed
<1>2. /\ Redispatch(c) /\ RowExecuting /\ UNCHANGED <<loop, wire, sent, crashes>>
      /\ exec.state = "failed_recoverable" /\ ledger' = "running" /\ claim' \in {claim, None}
      /\ exec' = Retries(exec, 1)
  BY DEF ResumeRetry, Journal, Retries, Ledger, RetireClaim
<1>3. 1 \in 0..1
  OBVIOUS
<1>4. exec' \in Execs /\ exec'.state = "downstream_request_prepared" /\ exec'.ids = exec.ids
  BY <1>1, <1>2, <1>3, RetriesExec
<1>5. /\ exec.state \in {"approved", "downstream_result_observed", "failed_recoverable"}
      /\ ledger' \in {ledger, "running"}
  BY <1>2
<1> QED BY <1>2, <1>4, <1>5, RedispatchKeeps

-------------------------------------------------------------------------------
Stops(r) == [r EXCEPT !.status = "failed"]
LEMMA StopStates ==
  ASSUME exec \in Execs, "stop" \in Permitted(exec)
  PROVE  exec.state \in {"approved", "execution_started", "downstream_request_prepared",
                         "failed_recoverable", "reconciliation_required"}
BY DEF Permitted, Execs, States

LEMMA StopKeeps == ASSUME Inv, NEW c \in Callers, StopAndEscalate(c) PROVE Inv'
<1> USE DEF Inv
<1>1. exec \in Execs /\ "failed_terminal" \in States /\ row \in Rows
  BY DEF Typed, States
<1>2. exec.state \notin Early
  BY <1>1, StopStates DEF StopAndEscalate, Early
<1>3. /\ UNCHANGED <<proc, claim, loop, wire, sent, crashes>> /\ row' = Stops(row)
      /\ exec' = Enters(exec, "failed_terminal") /\ ledger' = "failed"
  BY DEF StopAndEscalate, external, Journal, Enters, Stops, Ledger
<1>4. exec' \in Execs /\ exec'.state = "failed_terminal" /\ exec'.ids = exec.ids
  BY <1>1, <1>3, EntersExec
<1>5. row' \in Rows /\ row'.status = "failed" /\ row'.by = row.by
  BY <1>1, <1>3 DEF Stops, Rows
<1>6. Agree(row', exec', ledger')
  BY <1>2, <1>3, <1>4, <1>5 DEF Agree, Early
<1>7. Backed(exec', claim', loop')
  BY <1>3, <1>4 DEF Backed
<1>8. ASSUME NEW d \in Callers PROVE Knows(proc'[d], exec', loop')
  BY <1>3, <1>4, KnowsKept DEF Early
<1> QED BY <1>3, <1>4, <1>5, <1>6, <1>7, <1>8 DEF Typed

LEMMA CrashKeeps == ASSUME GenericAssumption, Inv, Crash PROVE Inv'
<1> USE DEF Inv
<1>1. UNCHANGED <<row, exec, ledger, claim, loop, wire, sent>> /\ proc' = [c \in Callers |-> Idle]
  BY DEF Crash, durable, external
<1>2. crashes' \in 0..MaxCrashes
  BY DEF Crash, Typed, GenericAssumption
<1>3. proc' \in [Callers -> Frames] /\ \A d \in Callers : Knows(proc'[d], exec', loop')
  BY <1>1, IdleFrame DEF Knows
<1> QED BY <1>1, <1>2, <1>3 DEF Typed

-------------------------------------------------------------------------------
LEMMA NextKeeps == ASSUME GenericAssumption, Inv, [Next]_vars PROVE Inv'
<1>1. CASE CreateMission
  BY <1>1, CreateKeeps
<1>2. CASE Crash
  BY <1>2, CrashKeeps
<1>3. ASSUME NEW c \in Callers, NEW by \in Approvers, Approve(c, by) PROVE Inv'
  BY <1>3, ApproveKeeps
<1>4. ASSUME NEW c \in Callers, Serve(c) PROVE Inv'
  BY <1>4, StartKeeps, PrepareKeeps, ApprovalKeeps, DispatchKeeps, ObserveKeeps, FailureKeeps,
     DiscardKeeps, PersistKeeps, CompleteKeeps, LookupKeeps, RecordKeeps DEF Serve
<1>5. ASSUME NEW c \in Callers, Reconcile(c) PROVE Inv'
  BY <1>5, ReconcileKeeps
<1>6. ASSUME NEW c \in Callers, Resume(c) PROVE Inv'
  BY <1>6, CompletedKeeps, ObservedKeeps, PreparedKeeps, RetryKeeps DEF Resume
<1>7. ASSUME NEW c \in Callers, StopAndEscalate(c) PROVE Inv'
  BY <1>7, StopKeeps
<1>8. ASSUME NEW d \in wire, GovernorCreates(d) PROVE Inv'
  BY <1>8, GovernorKeeps
<1>9. CASE UNCHANGED vars
  BY <1>9 DEF vars, Inv, Typed
<1> QED BY <1>1, <1>2, <1>3, <1>4, <1>5, <1>6, <1>7, <1>8, <1>9 DEF Next

LEMMA InvImplies == ASSUME GenericAssumption, Inv PROVE TypeOK /\ CompletionIsReal
<1>1. TypeOK
  BY Table DEF Inv, Typed, Agree, Early, Rows, Execs, Frames, Points, Results, TypeOK
<1>2. CompletionIsReal
  BY DEF Inv, Agree, Backed, Early, CompletionIsReal
<1> QED BY <1>1, <1>2

(* Rows, requests and the Governor's side keep their value sets, and a      *)
(* mission has a row exactly when it has an execution.                      *)
THEOREM GenericTypeCorrect == ASSUME GenericAssumption PROVE Spec => []TypeOK
<1>1. Init => Inv
  BY GenericInit
<1>2. Inv /\ [Next]_vars => Inv'
  BY NextKeeps
<1>3. Inv => TypeOK
  BY InvImplies
<1> QED BY <1>1, <1>2, <1>3, PTL DEF Spec

(* No record claims more than the Governor did, whatever answers come late  *)
(* and wherever the process died (persistRuntimeOutcome, reconcileMission). *)
THEOREM CompletionCorrect == ASSUME GenericAssumption PROVE Spec => []CompletionIsReal
<1>1. Init => Inv
  BY GenericInit
<1>2. Inv /\ [Next]_vars => Inv'
  BY NextKeeps
<1>3. Inv => CompletionIsReal
  BY InvImplies
<1> QED BY <1>1, <1>2, <1>3, PTL DEF Spec

-------------------------------------------------------------------------------
(* The refinement.  What the graph sees of the mission:                     *)
Shown == [state |-> StateOf(exec.state), by |-> row.by]
ShownMoves ==
  /\ row'.by = row.by /\ exec.state # "approval_required"
  /\ \/ StateOf(exec'.state) = StateOf(exec.state)
     \/ StateOf(exec'.state) \in Child!Moves[StateOf(exec.state)]

LEMMA OneApproval ==
  ASSUME NEW state \in States
  PROVE  StateOf(state) = "approval_required" <=> state = "approval_required"
BY DEF States, StateOf

LEMMA ShownSteps ==
  ASSUME GenericAssumption, exec \in Execs, ShownMoves PROVE [Child!Step]_Shown
<1>1. PICK by \in Approvers : TRUE
  BY DEF GenericAssumption
<1>2. exec.state \in States /\ StateOf(exec.state) # "approval_required"
  BY OneApproval DEF Execs, ShownMoves
<1>3. CASE StateOf(exec'.state) = StateOf(exec.state)
  BY <1>3 DEF ShownMoves, Shown
<1>4. CASE StateOf(exec'.state) \in Child!Moves[StateOf(exec.state)]
  <2> DEFINE to == StateOf(exec'.state)
  <2>1. Shown' = Child!Moved(Shown, to, by)
    BY <1>2 DEF ShownMoves, Shown, Child!Moved
  <2>2. Child!Step
    BY <1>1, <1>4, <2>1 DEF Child!Step, Shown
  <2> QED BY <2>2
<1> QED BY <1>3, <1>4 DEF ShownMoves

LEMMA ShownStays ==
  ASSUME row'.by = row.by, exec'.state = exec.state PROVE [Child!Step]_Shown
BY DEF Shown

LEMMA JournalShown ==
  ASSUME GenericAssumption, exec \in Execs, NEW e, Journal(e, None),
         exec.state # "approval_required", row'.by = row.by
  PROVE  [Child!Step]_Shown
<1>1. exec.state \in States /\ e.state \in Next0[exec.state] /\ exec' = e
  BY DEF Execs, Journal, Reaches
<1>2. ShownMoves
  BY <1>1, ChildMoves DEF ShownMoves
<1> QED BY <1>2, ShownSteps

LEMMA CreateShown == ASSUME GenericAssumption, Inv, CreateMission PROVE [Child!Step]_Shown
<1>1. PICK by \in Approvers : TRUE
  BY DEF GenericAssumption
<1>2. exec.state = "absent" /\ exec \in Execs /\ row \in Rows
  BY DEF Inv, Typed, Agree, Early, CreateMission
<1>3. exec'.state = "approval_required" /\ row'.by = row.by
  BY <1>2 DEF CreateMission, Execs, Rows
<1>4. Shown.state = "absent" /\ Shown' = Child!Moved(Shown, "approval_required", by)
  BY <1>2, <1>3 DEF Shown, StateOf, Child!Moved
<1>5. "approval_required" \in Child!Moves["absent"]
  BY DEF Child!Moves
<1>6. Child!Step
  BY <1>1, <1>4, <1>5 DEF Child!Step, Shown
<1> QED BY <1>6

LEMMA ApproveShown ==
  ASSUME GenericAssumption, Inv, NEW c \in Callers, NEW by \in Approvers, Approve(c, by)
  PROVE  [Child!Step]_Shown
<1>1. exec.state = "approval_required" /\ exec \in Execs /\ row \in Rows
  BY DEF Inv, Typed, Agree, Early, Approve
<1>2. exec' = Enters(exec, "approved") /\ "approved" \in States
  BY DEF Approve, Journal, Enters, States
<1>3. exec'.state = "approved"
  BY <1>1, <1>2, EntersExec
<1>4. row'.by = by
  BY <1>1 DEF Approve, Rows
<1>5. Shown.state = "approval_required" /\ Shown' = Child!Moved(Shown, "approved", by)
  BY <1>1, <1>3, <1>4 DEF Shown, StateOf, Child!Moved
<1>6. "approved" \in Child!Moves["approval_required"]
  BY DEF Child!Moves
<1>7. Child!Step
  BY <1>5, <1>6 DEF Child!Step, Shown
<1> QED BY <1>7

(* A request's next step.                                                   *)
LEMMA ServeShown ==
  ASSUME GenericAssumption, Inv, NEW c \in Callers, Serve(c) PROVE [Child!Step]_Shown
<1>1. exec \in Execs /\ row \in Rows
  BY DEF Inv, Typed
<1>2. CASE StartExecution(c) \/ PrepareRequest(c) \/ CompleteMission(c)
  <2>1. exec.state # "approval_required" /\ row' = row
    BY <1>2, Working DEF StartExecution, PrepareRequest, CompleteMission, Early
  <2> QED BY <1>1, <1>2, <2>1, JournalShown DEF StartExecution, PrepareRequest, CompleteMission
<1>3. CASE ObserveResult(c)
  <2>1. exec.state # "approval_required" /\ row' = row
    BY <1>3, KindFacts, Working DEF ObserveResult, Early
  <2> QED BY <1>1, <1>3, <2>1, JournalShown DEF ObserveResult
<1>4. CASE RecordFailure(c)
  <2>1. PICK kind \in Kinds(c) \ {"succeeded"} :
          Journal(Fails(exec, kind), None) /\ row' = Answered(row, Status(kind), kind)
    BY <1>4 DEF RecordFailure, Fails, Answered
  <2>2. exec.state # "approval_required" /\ row'.by = row.by
    BY <1>1, <2>1, KindFacts, Working, AnsweredRow DEF Early
  <2> QED BY <1>1, <2>1, <2>2, JournalShown
<1>5. CASE PersistResult(c)
  <2>1. proc[c].kind = "succeeded" /\ exec.state \notin Early
    BY <1>5, Working DEF PersistResult, Inv, Knows
  <2>2. CASE row.status = "executing" /\ row.result = None /\ "result_persisted" \in Next0[exec.state]
    <3>1. row' = Answered(row, Status("succeeded"), "succeeded")
          /\ exec' = Enters(exec, "result_persisted")
      BY <1>5, <2>1, <2>2 DEF PersistResult, Answered, Enters
    <3>2. "succeeded" \in Results \ {None} /\ "result_persisted" \in States
      BY DEF Results, None, States
    <3>3. row'.by = row.by /\ exec'.state = "result_persisted"
      BY <1>1, <3>1, <3>2, AnsweredRow, EntersExec
    <3>4. Journal(exec', None)
      BY <2>2, <3>3 DEF Journal, Reaches
    <3> QED BY <1>1, <2>1, <3>3, <3>4, JournalShown DEF Early
  <2>3. CASE ~(row.status = "executing" /\ row.result = None /\ "result_persisted" \in Next0[exec.state])
    BY <1>5, <2>3, ShownStays DEF PersistResult
  <2> QED BY <2>2, <2>3
<1>6. CASE RecordLookup(c)
  <2>1. /\ row' = row /\ exec.state \notin Early /\ proc[c].kind \in Answers
    BY <1>6, Working DEF RecordLookup, Inv, Knows
  <2>2. CASE LookupState(proc[c].kind) \in Next0[exec.state]
    <3>1. exec' = Learns(exec, proc[c].kind)
      BY <1>6, <2>2 DEF RecordLookup, Learns
    <3>2. exec'.state = LookupState(proc[c].kind)
      BY <1>1, <2>1, <3>1, LearnsExec
    <3>3. Journal(exec', None)
      BY <2>2, <3>2 DEF Journal, Reaches
    <3> QED BY <1>1, <2>1, <3>3, JournalShown DEF Early
  <2>3. CASE LookupState(proc[c].kind) \notin Next0[exec.state]
    BY <1>6, <2>3, ShownStays DEF RecordLookup
  <2> QED BY <2>2, <2>3
<1>7. CASE PrepareApproval(c) \/ Dispatch(c) \/ DiscardResult(c) \/ Lookup(c)
  BY <1>7, ShownStays DEF PrepareApproval, Dispatch, DiscardResult, Lookup, durable
<1> QED BY <1>2, <1>3, <1>4, <1>5, <1>6, <1>7 DEF Serve

LEMMA ReconcileShown ==
  ASSUME GenericAssumption, Inv, NEW c \in Callers, Reconcile(c) PROVE [Child!Step]_Shown
<1>1. exec \in Execs /\ row' = row /\ "recovery_in_progress" \in States
  BY DEF Inv, Typed, Reconcile, States
<1>2. exec.state \in {"execution_started", "downstream_request_prepared", "failed_recoverable",
                      "recovery_in_progress"}
  BY <1>1, ReconcileStates DEF Reconcile, CanReconcile
<1>3. exec' = Enters(exec, "recovery_in_progress")
  BY DEF Reconcile, Journal, Enters
<1>4. exec'.state = "recovery_in_progress"
  BY <1>1, <1>3, EntersExec
<1>5. ShownMoves
  BY <1>1, <1>2, <1>4 DEF ShownMoves, StateOf, Child!Moves
<1> QED BY <1>1, <1>5, ShownSteps

LEMMA ResumeShown ==
  ASSUME GenericAssumption, Inv, NEW c \in Callers, Resume(c) PROVE [Child!Step]_Shown
<1>1. exec \in Execs /\ row \in Rows /\ "downstream_request_prepared" \in States
  BY DEF Inv, Typed, States
<1>2. CASE ResumePersisted(c)
  BY <1>1, <1>2, JournalShown DEF ResumePersisted
<1>3. CASE ResumeObserved(c)
  <2>1. row' = Executes(row) /\ exec' = exec
    BY <1>3 DEF ResumeObserved, RowExecuting, Executes
  <2> QED BY <1>1, <2>1, ExecutesRow, ShownStays
<1>4. CASE ResumeApproved(c) \/ ResumeUnique(c) \/ ResumeRetry(c)
  <2>1. /\ row' = Executes(row)
        /\ exec.state \in {"approved", "downstream_result_observed", "failed_recoverable"}
        /\ exec' = Enters(exec, "downstream_request_prepared") \/ exec' = Retries(exec, 1)
    BY <1>4 DEF ResumeApproved, ResumeUnique, ResumeRetry, RowExecuting, Executes, Journal, Enters, Retries
  <2>2. 1 \in 0..1
    OBVIOUS
  <2>3. exec'.state = "downstream_request_prepared" /\ row'.by = row.by
    BY <1>1, <2>1, <2>2, EntersExec, RetriesExec, ExecutesRow
  <2>4. ShownMoves
    BY <2>1, <2>3 DEF ShownMoves, StateOf, Child!Moves
  <2> QED BY <1>1, <2>4, ShownSteps
<1> QED BY <1>2, <1>3, <1>4 DEF Resume

LEMMA NextShown == ASSUME GenericAssumption, Inv, [Next]_vars PROVE [Child!Step]_Shown
<1>1. CASE CreateMission
  BY <1>1, CreateShown
<1>2. CASE Crash
  BY <1>2, ShownStays DEF Crash, durable
<1>3. ASSUME NEW c \in Callers, NEW by \in Approvers, Approve(c, by) PROVE [Child!Step]_Shown
  BY <1>3, ApproveShown
<1>4. ASSUME NEW c \in Callers, Serve(c) PROVE [Child!Step]_Shown
  BY <1>4, ServeShown
<1>5. ASSUME NEW c \in Callers, Reconcile(c) PROVE [Child!Step]_Shown
  BY <1>5, ReconcileShown
<1>6. ASSUME NEW c \in Callers, Resume(c) PROVE [Child!Step]_Shown
  BY <1>6, ResumeShown
<1>7. ASSUME NEW c \in Callers, StopAndEscalate(c) PROVE [Child!Step]_Shown
  <2>1. exec \in Execs /\ row \in Rows
    BY DEF Inv, Typed
  <2>2. exec.state # "approval_required"
    BY <1>7, <2>1, StopStates DEF StopAndEscalate
  <2>3. row'.by = row.by
    BY <1>7, <2>1 DEF StopAndEscalate, Rows
  <2> QED BY <1>7, <2>1, <2>2, <2>3, JournalShown DEF StopAndEscalate
<1>8. ASSUME NEW d \in wire, GovernorCreates(d) PROVE [Child!Step]_Shown
  BY <1>8, ShownStays DEF GovernorCreates, durable
<1>9. CASE UNCHANGED vars
  BY <1>9, ShownStays DEF vars
<1> QED BY <1>1, <1>2, <1>3, <1>4, <1>5, <1>6, <1>7, <1>8, <1>9 DEF Next

(* The mission implements what the graph takes a child mission to be        *)
(* (missionGraphChildDispatcher, readChildState).                           *)
THEOREM ChildImplemented == ASSUME GenericAssumption PROVE Spec => IsAChild
<1>1. Init => Inv
  BY GenericInit
<1>2. Inv /\ [Next]_vars => Inv'
  BY NextKeeps
<1>3. Init => Child!Init
  BY DEF Init, StateOf, Child!Init, Child!Absent, Child!NoOne, None
<1>4. Inv /\ [Next]_vars => [Child!Step]_Shown
  BY NextShown
<1> QED BY <1>1, <1>2, <1>3, <1>4, PTL DEF Spec, IsAChild, Child!Spec, Shown

-------------------------------------------------------------------------------
(* The way out.  An observed result says where to go on from, and the only   *)
(* state nobody may leave but by escalation is never entered; a mission that *)
(* was approved has somebody who can ask.                                    *)
Told(e) == e.state = "downstream_result_observed" => e.seen # None \/ e.outcome = "unique"
Open ==
  /\ exec.state # "reconciliation_required"
  /\ Told(exec)
  /\ exec.state \notin Early => Callers # {}
OpenInv == Inv /\ Open

LEMMA LearnsTold ==
  ASSUME NEW e \in Execs, NEW answer \in Answers
  PROVE  Told(Learns(e, answer)) /\ Learns(e, answer).state # "reconciliation_required"
<1>1. Learns(e, answer).outcome = answer
  BY DEF Learns, Execs
<1> QED BY <1>1, LearnsExec DEF Told, Answers

(* What a request writes leaves the way out open.                            *)
LEMMA WritesOpen ==
  ASSUME Open, NEW c \in Callers,
         exec' = exec \/ (Told(exec') /\ exec'.state # "reconciliation_required")
  PROVE  Open'
BY DEF Open

LEMMA ServeOpen == ASSUME OpenInv, NEW c \in Callers, Serve(c) PROVE Open'
<1>1. exec \in Execs /\ Open /\ Inv
  BY DEF OpenInv, Inv, Typed
<1>2. ASSUME NEW state \in States \ {"downstream_result_observed", "reconciliation_required"},
             exec' = Enters(exec, state)
      PROVE  Open'
  BY <1>1, <1>2, EntersExec, WritesOpen DEF Told
<1>3. CASE StartExecution(c) \/ PrepareRequest(c) \/ CompleteMission(c)
  BY <1>2, <1>3 DEF StartExecution, PrepareRequest, CompleteMission, Journal, Enters, States
<1>4. CASE ObserveResult(c)
  <2>1. exec' = Observes(exec)
    BY <1>4 DEF ObserveResult, Journal, Observes
  <2>2. Told(exec') /\ exec'.state # "reconciliation_required"
    BY <1>1, <2>1, ObservesExec DEF Told, None
  <2> QED BY <1>1, <2>2, WritesOpen
<1>5. CASE RecordFailure(c)
  <2>1. PICK kind \in Kinds(c) \ {"succeeded"} : Journal(Fails(exec, kind), None)
    BY <1>5 DEF RecordFailure, Fails
  <2>2. kind \in Results
    BY <1>1, <2>1, KindFacts
  <2>3. exec' = Fails(exec, kind)
    BY <2>1 DEF Journal
  <2>4. Told(exec') /\ exec'.state # "reconciliation_required"
    BY <1>1, <2>2, <2>3, FailsExec DEF Told
  <2> QED BY <1>1, <2>4, WritesOpen
<1>6. CASE PersistResult(c)
  <2>1. exec' = exec \/ exec' = Enters(exec, "result_persisted")
    BY <1>6 DEF PersistResult, Enters
  <2> QED BY <1>1, <1>2, <2>1, WritesOpen DEF States
<1>7. CASE RecordLookup(c)
  <2>1. proc[c].kind \in Answers
    BY <1>1, <1>7 DEF RecordLookup, Inv, Knows
  <2>2. exec' = exec \/ exec' = Learns(exec, proc[c].kind)
    BY <1>7 DEF RecordLookup, Learns
  <2>3. exec' = exec \/ (Told(exec') /\ exec'.state # "reconciliation_required")
    BY <1>1, <2>1, <2>2, LearnsTold
  <2> QED BY <1>1, <2>3, WritesOpen
<1>8. CASE PrepareApproval(c) \/ Dispatch(c) \/ DiscardResult(c) \/ Lookup(c)
  BY <1>1, <1>8, WritesOpen DEF PrepareApproval, Dispatch, DiscardResult, Lookup, durable
<1> QED BY <1>3, <1>4, <1>5, <1>6, <1>7, <1>8 DEF Serve

LEMMA NextOpen == ASSUME GenericAssumption, OpenInv, [Next]_vars PROVE Open'
<1>1. exec \in Execs /\ Open /\ Inv
  BY DEF OpenInv, Inv, Typed
<1>2. ASSUME NEW c \in Callers,
             NEW state \in States \ {"downstream_result_observed", "reconciliation_required"},
             exec' = Enters(exec, state)
      PROVE  Open'
  BY <1>1, <1>2, EntersExec, WritesOpen DEF Told
<1>3. CASE CreateMission
  <2>1. exec' = Enters(exec, "approval_required") /\ "approval_required" \in States
    BY <1>3 DEF CreateMission, Enters, States
  <2>2. exec'.state = "approval_required"
    BY <1>1, <2>1, EntersExec
  <2> QED BY <2>2 DEF Open, Told, Early
<1>4. CASE Crash \/ \E d \in wire : GovernorCreates(d)
  BY <1>1, <1>4 DEF Crash, GovernorCreates, durable, Open
<1>5. ASSUME NEW c \in Callers, NEW by \in Approvers, Approve(c, by) PROVE Open'
  BY <1>2, <1>5 DEF Approve, Journal, Enters, States
<1>6. ASSUME NEW c \in Callers, Serve(c) PROVE Open'
  BY <1>6, ServeOpen
<1>7. ASSUME NEW c \in Callers, Reconcile(c) PROVE Open'
  BY <1>2, <1>7 DEF Reconcile, Journal, Enters, States
<1>8. ASSUME NEW c \in Callers, Resume(c) PROVE Open'
  <2>1. CASE ResumePersisted(c) \/ ResumeApproved(c) \/ ResumeUnique(c)
    BY <1>2, <1>8, <2>1 DEF ResumePersisted, ResumeApproved, ResumeUnique, Journal, Enters, States
  <2>2. CASE ResumeObserved(c)
    BY <1>1, <1>8, <2>2, WritesOpen DEF ResumeObserved
  <2>3. CASE ResumeRetry(c)
    <3>1. exec' = Retries(exec, 1) /\ 1 \in 0..1
      BY <2>3 DEF ResumeRetry, Journal, Retries
    <3>2. Told(exec') /\ exec'.state # "reconciliation_required"
      BY <1>1, <3>1, RetriesExec DEF Told
    <3> QED BY <1>1, <1>8, <3>2, WritesOpen
  <2> QED BY <1>8, <2>1, <2>2, <2>3 DEF Resume
<1>9. ASSUME NEW c \in Callers, StopAndEscalate(c) PROVE Open'
  BY <1>2, <1>9 DEF StopAndEscalate, Journal, Enters, States
<1>10. CASE UNCHANGED vars
  BY <1>1, <1>10 DEF vars, Open
<1> QED BY <1>3, <1>4, <1>5, <1>6, <1>7, <1>8, <1>9, <1>10 DEF Next

(* With nobody at work every caller may take its turn.                       *)
LEMMA OpenImplies == ASSUME OpenInv PROVE NeverStuck
<1>1. SUFFICES ASSUME exec.state \notin Final \cup Early, \A c \in Callers : ~Live(c)
               PROVE  NeverStuck
  BY DEF NeverStuck, Early
<1>2. PICK c \in Callers : TRUE
  BY <1>1 DEF OpenInv, Open
<1>3. ~Live(c) /\ Turn(c) /\ row.by # None /\ exec \in Execs
  BY <1>1 DEF Live, Turn, SyncPoints, OpenInv, Inv, Agree, Typed
<1>4. exec.state \in {"approved", "execution_started", "downstream_request_prepared",
       "downstream_result_observed", "result_persisted", "failed_recoverable", "recovery_in_progress"}
  BY <1>1, <1>3 DEF OpenInv, Open, Execs, States, Final, Early
<1>5. CASE exec.state \in {"approved", "downstream_result_observed", "result_persisted"}
  <2>1. "resume" \in Permitted(exec)
    BY <1>5 DEF Permitted
  <2>2. CanResume(c) /\ GoesOnFrom
    BY <1>3, <1>5, <2>1 DEF CanResume, GoesOnFrom, OpenInv, Open, Told
  <2> QED BY <2>2 DEF NeverStuck
<1>6. CASE exec.state \in {"execution_started", "downstream_request_prepared", "failed_recoverable",
                           "recovery_in_progress"}
  <2>1. "reconcile" \in Permitted(exec)
    BY <1>6 DEF Permitted
  <2>2. Reaches(exec.state, RecoveryVia, "recovery_in_progress")
    BY <1>6, Table DEF Reaches, RecoveryVia, None
  <2>3. CanReconcile(c)
    BY <1>3, <2>1 DEF CanReconcile
  <2> QED BY <2>2, <2>3 DEF NeverStuck
<1> QED BY <1>4, <1>5, <1>6

(* A mission that was interrupted anywhere, with nobody at work on it, has a *)
(* recovery that goes on from its records (reconcileMission, resumeSafely):  *)
(* no crash, lost answer or refusal leaves it without one.                   *)
THEOREM GenericNeverStuckCorrect == ASSUME GenericAssumption PROVE Spec => []NeverStuck
<1>1. Init => OpenInv
  BY GenericInit DEF Init, OpenInv, Open, Told, Early
<1>2. OpenInv /\ [Next]_vars => OpenInv'
  BY NextKeeps, NextOpen DEF OpenInv
<1>3. OpenInv => NeverStuck
  BY OpenImplies
<1> QED BY <1>1, <1>2, <1>3, PTL DEF Spec
=================================================================================
