----------------------- MODULE AutoPosterMissionProofs -----------------------
(***************************************************************************)
(* Machine-checked proofs about AutoPosterMission, for any number of       *)
(* callers, attempts and crashes, in one process or several.               *)
(***************************************************************************)
EXTENDS AutoPosterMission, FiniteSetTheorems, TLAPS

-----------------------------------------------------------------------------
(* Type correctness.  TypeOK alone is not inductive: a transaction uses the
   attempt, the result and the execution its call frame carries. *)

FramesUsable ==
    \A c \in Callers :
      /\ Live(c) => proc[c].attempt \in Attempts
      /\ proc[c].pc = "persist" => proc[c].result \in Results
      /\ Called(c, "resume") => proc[c].seen \in Executions

TypeInv == TypeOK /\ FramesUsable

(* What ResultStatus and FailedState return. *)
LEMMA ResultStatusType ==
    ASSUME NEW r \in Results
    PROVE  ResultStatus(r) \in ResultStatuses
  BY DEF Results, Kinds, ResultStatus, ResultStatuses

(* A journal step records states of the machine under attempts that exist. *)
LEMMA JournalType ==
    ASSUME TypeOK, NEW e \in Executions, NEW via \in {None} \cup States, Journal(e, via)
    PROVE  exec' \in Executions /\ journal' \subseteq States \X Attempts
  BY DEF TypeOK, Journal, Executions

(* The initial state is well typed. *)
THEOREM InitTypes == Init => TypeInv
<1> SUFFICES ASSUME Init PROVE TypeInv
  OBVIOUS
<1> USE ConstantsAssumption DEF Init
<1>1. 1 \in Attempts
  BY DEF Attempts
<1>2. Idle \in Frames
  BY DEF Idle, Frames
<1>3. row \in Rows /\ exec \in Executions
  BY <1>1 DEF Rows, Executions, States
<1>4. journal \subseteq States \X Attempts
  BY <1>1 DEF States
<1>5. answers \in [Attempts -> {None} \cup Kinds]
  BY DEF Attempts
<1>6. proc \in [Callers -> Frames]
  BY <1>2
<1>7. claim \in [by : 0 .. MaxAttempts, resolved : BOOLEAN] /\ crashes \in 0 .. MaxCrashes
  OBVIOUS
<1>8. TypeOK
  BY <1>1, <1>3, <1>4, <1>5, <1>6, <1>7 DEF TypeOK
<1>9. FramesUsable
  BY DEF FramesUsable, Live, Called, Idle
<1> QED
  BY <1>8, <1>9 DEF TypeInv

(* A call that returns, or moves on without touching the rest of its frame. *)
LEMMA ReturnTypes ==
    ASSUME TypeInv, NEW c \in Callers, Return(c)
    PROVE  proc' \in [Callers -> Frames] /\ FramesUsable'
<1>1. Idle \in Frames
  BY ConstantsAssumption DEF Idle, Frames
<1> QED
  BY <1>1 DEF TypeInv, TypeOK, FramesUsable, Return, Live, Called, Idle

(* A call that only moves its program counter. *)
LEMMA GotoTypes ==
    ASSUME TypeInv, NEW c \in Callers, Live(c), Goto(c, "start") \/ Goto(c, "prepare")
             \/ Goto(c, "authority") \/ Goto(c, "execute") \/ Goto(c, "sent")
             \/ Goto(c, "complete")
    PROVE  proc' \in [Callers -> Frames] /\ FramesUsable'
<1>1. PICK pc \in {"start", "prepare", "authority", "execute", "sent", "complete"} :
        Goto(c, pc)
  OBVIOUS
<1>2. proc' \in [Callers -> Frames]
  BY <1>1 DEF TypeInv, TypeOK, Goto, Frames, SyncPoints, AwaitPoints
<1>3. FramesUsable'
  BY <1>1 DEF TypeInv, TypeOK, FramesUsable, Goto, Live, Called, Frames
<1> QED
  BY <1>2, <1>3

(* approveAndExecute and the awaits of executePreparedMission. *)
LEMMA ApproveCallTypes ==
    ASSUME TypeInv, NEW c \in Callers,
           \/ Replay(c) \/ Approve(c) \/ StartExecution(c) \/ PrepareRequest(c)
           \/ AuthorityGranted(c) \/ RuntimeDispatch(c)
           \/ \E by \in Approvers : CallApprove(c, by)
    PROVE  TypeInv'
<1> USE DEF TypeInv
<1>1. CASE Replay(c)
  BY <1>1 DEF Replay, TypeOK, FramesUsable, Live, Called, external
<1>2. CASE \E by \in Approvers : CallApprove(c, by)
  <2>1. PICK by \in Approvers : CallApprove(c, by)
    BY <1>2
  <2>4. exec.attempt \in 0 .. MaxAttempts
    BY DEF TypeOK, Executions, Attempts
  <2>2. proc' \in [Callers -> Frames]
    BY <2>1, <2>4 DEF CallApprove, TypeOK, Frames, Idle, SyncPoints
  <2>3. FramesUsable'
    BY <2>1 DEF CallApprove, TypeOK, FramesUsable, Live, Called, Idle, Executions
  <2> QED
    BY <2>1, <2>2, <2>3 DEF CallApprove, TypeOK, durable, external
<1>3. CASE Approve(c)
  <2>1. Live(c) /\ Goto(c, "start")
    BY <1>3 DEF Approve, Live
  <2>2. [exec EXCEPT !.state = "approved"] \in Executions
    BY DEF TypeOK, Executions, States
  <2>3. exec' \in Executions /\ journal' \subseteq States \X Attempts
    BY <1>3, <2>2, JournalType DEF Approve
  <2>4. row' \in Rows
    BY <1>3 DEF Approve, TypeOK, Rows, Frames
  <2> QED
    BY <1>3, <2>1, <2>3, <2>4, GotoTypes DEF Approve, Ledger, TypeOK, external
<1>4. CASE StartExecution(c)
  <2>1. Live(c) /\ Goto(c, "prepare")
    BY <1>4 DEF StartExecution, Live
  <2>2. [exec EXCEPT !.state = "execution_started"] \in Executions
    BY DEF TypeOK, Executions, States
  <2>3. exec' \in Executions /\ journal' \subseteq States \X Attempts
    BY <1>4, <2>2, JournalType DEF StartExecution
  <2> QED
    BY <1>4, <2>1, <2>3, GotoTypes DEF StartExecution, Ledger, TypeOK, external
<1>5. CASE PrepareRequest(c)
  <2>1. Live(c) /\ Goto(c, "authority")
    BY <1>5 DEF PrepareRequest, Live
  <2>2. [exec EXCEPT !.state = "downstream_request_prepared"] \in Executions
    BY DEF TypeOK, Executions, States
  <2>3. exec' \in Executions /\ journal' \subseteq States \X Attempts
    BY <1>5, <2>2, JournalType DEF PrepareRequest
  <2> QED
    BY <1>5, <2>1, <2>3, GotoTypes DEF PrepareRequest, TypeOK, external
<1>6. CASE AuthorityGranted(c)
  <2>1. Live(c) /\ Goto(c, "execute")
    BY <1>6 DEF AuthorityGranted, Live
  <2> QED
    BY <1>6, <2>1, GotoTypes DEF AuthorityGranted, TypeOK, durable, external
<1>7. CASE RuntimeDispatch(c)
  <2>1. Live(c) /\ Goto(c, "sent")
    BY <1>7 DEF RuntimeDispatch, Live
  <2>2. proc[c].attempt \in Attempts
    BY <2>1 DEF FramesUsable
  <2>3. claim' \in [by : 0 .. MaxAttempts, resolved : BOOLEAN]
    BY <1>7, <2>2 DEF RuntimeDispatch, Attempts
  <2>4. wire' \subseteq Attempts /\ sent' \subseteq Attempts
    BY <1>7, <2>2 DEF RuntimeDispatch, TypeOK
  <2> QED
    BY <1>7, <2>1, <2>3, <2>4, GotoTypes DEF RuntimeDispatch, TypeOK, durable
<1> QED
  BY <1>1, <1>2, <1>3, <1>4, <1>5, <1>6, <1>7

(* Only a live call gets an outcome, and every outcome is a result. *)
LEMMA OutcomeType ==
    ASSUME TypeInv, NEW c \in Callers, NEW r \in ResultsFor(c)
    PROVE  Live(c) /\ r \in Results
<1>1. Outcomes(c) # {}
  BY DEF ResultsFor
<1>2. Live(c)
  BY <1>1 DEF Outcomes, Live
<1>3. proc[c].attempt \in Attempts
  BY <1>2 DEF TypeInv, FramesUsable
<1>4. Outcomes(c) \subseteq Kinds
  BY <1>3 DEF Outcomes, Kinds, TypeInv, TypeOK
<1> QED
  BY <1>2, <1>3, <1>4 DEF ResultsFor, Results, Attempts

(* The claim keeps its shape. *)
LEMMA SettleType ==
    ASSUME TypeOK, NEW c \in Callers, NEW r, SettleClaim(c, r)
    PROVE  claim' \in [by : 0 .. MaxAttempts, resolved : BOOLEAN]
  BY DEF TypeOK, SettleClaim

(* persistRuntimeOutcome and persistObservedRuntimeResult. *)
LEMMA OutcomeTypes ==
    ASSUME TypeInv, NEW c \in Callers,
           \/ ObserveResult(c) \/ RecordFailure(c) \/ DiscardOutcome(c)
           \/ PersistResult(c) \/ CompleteMission(c)
    PROVE  TypeInv'
<1> USE DEF TypeInv
<1>1. CASE ObserveResult(c)
  <2>1. PICK r \in ResultsFor(c) :
          /\ Journal([exec EXCEPT !.state = "downstream_result_observed",
                                  !.queueId = "post", !.observation = r], None)
          /\ Ledger("validating")
          /\ SettleClaim(c, r)
          /\ proc' = [proc EXCEPT ![c] = [@ EXCEPT !.pc = "persist", !.result = r]]
    BY <1>1 DEF ObserveResult
  <2>2. r \in Results
    BY OutcomeType
  <2>3. [exec EXCEPT !.state = "downstream_result_observed",
                     !.queueId = "post", !.observation = r] \in Executions
    BY <2>2 DEF TypeOK, Executions, States
  <2>4. exec' \in Executions /\ journal' \subseteq States \X Attempts
    BY <2>1, <2>3, JournalType
  <2>5. claim' \in [by : 0 .. MaxAttempts, resolved : BOOLEAN]
    BY <2>1, SettleType
  <2>6. proc' \in [Callers -> Frames]
    <3>1. [proc[c] EXCEPT !.pc = "persist", !.result = r] \in Frames
      BY <2>2 DEF TypeOK, Frames, SyncPoints
    <3> QED
      BY <2>1, <3>1 DEF TypeOK
  <2>7. FramesUsable'
    BY <2>1, <2>2, OutcomeType DEF TypeOK, FramesUsable, Live, Called, Frames
  <2> QED
    BY <1>1, <2>1, <2>4, <2>5, <2>6, <2>7 DEF ObserveResult, Ledger, TypeOK
<1>2. CASE RecordFailure(c)
  <2>1. PICK r \in ResultsFor(c) :
          /\ row' = [row EXCEPT !.status = ResultStatus(r), !.result = r]
          /\ Journal([exec EXCEPT !.state = FailedState(r), !.observation = r,
                                  !.finalStatus = ResultStatus(r)], None)
          /\ Ledger(IF FailedState(r) = "failed_terminal"
                      THEN "failed" ELSE "reconciliation_required")
          /\ SettleClaim(c, r)
    BY <1>2 DEF RecordFailure
  <2>2. r \in Results /\ ResultStatus(r) \in ResultStatuses
    BY OutcomeType, ResultStatusType
  <2>3. [exec EXCEPT !.state = FailedState(r), !.observation = r,
                     !.finalStatus = ResultStatus(r)] \in Executions
    BY <2>2 DEF TypeOK, Executions, States, FailedState
  <2>4. exec' \in Executions /\ journal' \subseteq States \X Attempts
    BY <2>1, <2>3, JournalType
  <2>5. claim' \in [by : 0 .. MaxAttempts, resolved : BOOLEAN]
    BY <2>1, SettleType
  <2>6. row' \in Rows
    BY <2>1, <2>2 DEF TypeOK, Rows
  <2> QED
    BY <1>2, <2>1, <2>4, <2>5, <2>6, ReturnTypes DEF RecordFailure, Ledger, TypeOK
<1>3. CASE DiscardOutcome(c)
  <2>1. claim' \in [by : 0 .. MaxAttempts, resolved : BOOLEAN]
    BY <1>3, SettleType DEF DiscardOutcome
  <2> QED
    BY <1>3, <2>1, ReturnTypes DEF DiscardOutcome, TypeOK, durable
<1>4. CASE PersistResult(c)
  <2>1. Live(c) /\ Goto(c, "complete")
    BY <1>4 DEF PersistResult, Live
  <2>2. proc[c].result \in Results /\ ResultStatus(proc[c].result) \in ResultStatuses
    BY <1>4, ResultStatusType DEF PersistResult, FramesUsable
  <2>3. [exec EXCEPT !.state = "result_persisted",
                     !.finalStatus = ResultStatus(proc[c].result)] \in Executions
    BY <2>2 DEF TypeOK, Executions, States
  <2>4. exec' \in Executions /\ journal' \subseteq States \X Attempts
    BY <1>4, <2>3, JournalType DEF PersistResult
  <2>5. row' \in Rows
    BY <1>4, <2>2 DEF PersistResult, TypeOK, Rows
  <2> QED
    BY <1>4, <2>1, <2>4, <2>5, GotoTypes DEF PersistResult, TypeOK, external
<1>5. CASE CompleteMission(c)
  <2>1. [exec EXCEPT !.state = "completed"] \in Executions
    BY DEF TypeOK, Executions, States
  <2>2. exec' \in Executions /\ journal' \subseteq States \X Attempts
    BY <1>5, <2>1, JournalType DEF CompleteMission
  <2> QED
    BY <1>5, <2>2, ReturnTypes DEF CompleteMission, Ledger, TypeOK, external
<1> QED
  BY <1>1, <1>2, <1>3, <1>4, <1>5

(* The reconciliation: entry, claim, lookup, record. *)
LEMMA ReconcileTypes ==
    ASSUME TypeInv, NEW c \in Callers,
           \/ ClaimReconciliation(c) \/ ServeLookup(c)
           \/ RecordReconciliation(c) \/ DiscardReconciliation(c)
           \/ \E op \in {"reconcile", "resume", "stop"} : CallRecovery(c, op)
    PROVE  TypeInv'
<1> USE DEF TypeInv
<1>1. CASE \E op \in {"reconcile", "resume", "stop"} : CallRecovery(c, op)
  <2>1. PICK op \in {"reconcile", "resume", "stop"} : CallRecovery(c, op)
    BY <1>1
  <2>2. attempts' \in Attempts
    BY <2>1, ConstantsAssumption DEF CallRecovery, TypeOK, Attempts
  <2>3. attempts' \in 0 .. MaxAttempts
    BY <2>2, ConstantsAssumption DEF Attempts
  <2>4. proc' \in [Callers -> Frames]
    BY <2>1, <2>3 DEF CallRecovery, TypeOK, Frames, Idle, SyncPoints
  <2>5. FramesUsable'
    BY <2>1, <2>2 DEF CallRecovery, TypeOK, FramesUsable, Live, Called, Idle, Attempts
  <2> QED
    BY <2>1, <2>2, <2>4, <2>5 DEF CallRecovery, TypeOK, durable, external
<1>2. CASE ClaimReconciliation(c)
  <2>1. proc[c].attempt \in Attempts
    BY <1>2 DEF ClaimReconciliation, Called, Live, FramesUsable
  <2>2. [exec EXCEPT !.state = "recovery_in_progress",
                     !.attempt = proc[c].attempt] \in Executions
    BY <2>1 DEF TypeOK, Executions, States
  <2>3. exec' \in Executions /\ journal' \subseteq States \X Attempts
    BY <1>2, <2>2, JournalType DEF ClaimReconciliation, States
  <2>4. proc' \in [Callers -> Frames]
    <3>1. [proc[c] EXCEPT !.pc = "lookup", !.seen = None] \in Frames
      BY DEF TypeOK, Frames, AwaitPoints
    <3> QED
      BY <1>2, <3>1 DEF ClaimReconciliation, TypeOK
  <2>5. FramesUsable'
    BY <1>2 DEF ClaimReconciliation, TypeOK, FramesUsable, Live, Called, Frames
  <2> QED
    BY <1>2, <2>3, <2>4, <2>5 DEF ClaimReconciliation, Ledger, TypeOK, external
<1>3. CASE ServeLookup(c)
  <2>1. proc' \in [Callers -> Frames]
    BY <1>3 DEF ServeLookup, TypeOK, Frames
  <2>2. FramesUsable'
    BY <1>3 DEF ServeLookup, TypeOK, FramesUsable, Live, Called, Frames
  <2> QED
    BY <1>3, <2>1, <2>2 DEF ServeLookup, TypeOK, durable, external
<1>4. CASE RecordReconciliation(c)
  <2>1. PICK o \in LookupOutcomes(c) :
          /\ Journal(Reconciled(o), None)
          /\ Ledger(CASE o = "unique" -> "validating"
                      [] o \in {"not_found", "unavailable", "conflict"} ->
                           "reconciliation_required"
                      [] OTHER -> "failed")
    BY <1>4 DEF RecordReconciliation
  <2>2. Reconciled(o) \in Executions
    BY DEF Reconciled, TypeOK, Executions, States, AllLookupFaults
  <2>3. exec' \in Executions /\ journal' \subseteq States \X Attempts
    BY <2>1, <2>2, JournalType
  <2> QED
    BY <1>4, <2>1, <2>3, ReturnTypes DEF RecordReconciliation, Ledger, TypeOK, external
<1>5. CASE DiscardReconciliation(c)
  BY <1>5, ReturnTypes DEF DiscardReconciliation, TypeOK, durable, external
<1> QED
  BY <1>1, <1>2, <1>3, <1>4, <1>5

(* resumeSafely hands its frame to executePreparedMission. *)
LEMMA ResumeFrameTypes ==
    ASSUME TypeInv, NEW c \in Callers, Live(c), NEW b \in BOOLEAN,
           proc' = [proc EXCEPT ![c] =
                      [@ EXCEPT !.pc = "authority", !.seen = None, !.recovered = b]]
    PROVE  proc' \in [Callers -> Frames] /\ FramesUsable'
<1>1. proc[c] \in Frames
  BY DEF TypeInv, TypeOK
<1>2. [proc[c] EXCEPT !.pc = "authority", !.seen = None, !.recovered = b] \in Frames
  BY <1>1 DEF Frames, AwaitPoints
<1>3. proc' \in [Callers -> Frames]
  BY <1>2 DEF TypeInv, TypeOK
<1>4. FramesUsable'
  BY DEF TypeInv, TypeOK, FramesUsable, Live, Called, Frames
<1> QED
  BY <1>3, <1>4

(* resumeSafely. *)
LEMMA ResumeTypes ==
    ASSUME TypeInv, NEW c \in Callers,
           \/ ResumePersisted(c) \/ ResumeObserved(c) \/ ResumeApproved(c)
           \/ ResumeUnique(c) \/ ResumeNotFound(c)
    PROVE  TypeInv'
<1> USE DEF TypeInv
<1>1. Live(c) /\ proc[c].seen \in Executions /\ proc[c].attempt \in Attempts
  BY DEF FramesUsable, Called, Live, ResumePersisted, ResumeObserved, ResumeApproved,
         ResumeUnique, ResumeNotFound
<1>2. [row EXCEPT !.status = "executing", !.result = None] \in Rows
  BY DEF TypeOK, Rows
<1>3. proc[c].recovered \in BOOLEAN
  BY DEF TypeOK, Frames
<1>4. CASE ResumePersisted(c)
  <2>1. [exec EXCEPT !.state = "completed"] \in Executions
    BY DEF TypeOK, Executions, States
  <2>2. exec' \in Executions /\ journal' \subseteq States \X Attempts
    BY <1>4, <2>1, JournalType DEF ResumePersisted
  <2> QED
    BY <1>4, <2>2, ReturnTypes DEF ResumePersisted, Ledger, TypeOK, external
<1>5. CASE ResumeObserved(c)
  <2>1. proc[c].seen.observation \in Results
    BY <1>1, <1>5 DEF ResumeObserved, Executions
  <2>2. [proc[c] EXCEPT !.pc = "persist", !.seen = None,
                        !.result = proc[c].seen.observation] \in Frames
    BY <2>1 DEF TypeOK, Frames, SyncPoints
  <2>3. proc' \in [Callers -> Frames]
    BY <1>5, <2>2 DEF ResumeObserved, TypeOK
  <2>4. FramesUsable'
    BY <1>1, <1>5, <2>1 DEF ResumeObserved, TypeOK, FramesUsable, Live, Called, Frames
  <2> QED
    BY <1>2, <1>5, <2>3, <2>4 DEF ResumeObserved, RowExecuting, TypeOK, external
<1>6. CASE ResumeApproved(c)
  <2>1. [exec EXCEPT !.state = "downstream_request_prepared",
                     !.attempt = proc[c].attempt] \in Executions
    BY <1>1 DEF TypeOK, Executions, States
  <2>2. exec' \in Executions /\ journal' \subseteq States \X Attempts
    BY <1>6, <2>1, JournalType DEF ResumeApproved, States
  <2>3. proc' = [proc EXCEPT ![c] = [@ EXCEPT !.pc = "authority", !.seen = None,
                                              !.recovered = proc[c].recovered]]
    BY <1>6 DEF ResumeApproved, TypeOK, Frames
  <2>4. proc' \in [Callers -> Frames] /\ FramesUsable'
    BY <1>1, <1>3, <2>3, ResumeFrameTypes
  <2> QED
    BY <1>2, <1>6, <2>2, <2>4 DEF ResumeApproved, RowExecuting, Ledger, TypeOK, external
<1>7. CASE ResumeUnique(c)
  <2>1. [exec EXCEPT !.state = "recovery_in_progress",
                     !.attempt = proc[c].attempt] \in Executions
    BY <1>1 DEF TypeOK, Executions, States
  <2>2. exec' \in Executions /\ journal' \subseteq States \X Attempts
    BY <1>7, <2>1, JournalType DEF ResumeUnique
  <2>3. proc' \in [Callers -> Frames] /\ FramesUsable'
    BY <1>1, <1>7, ResumeFrameTypes DEF ResumeUnique
  <2> QED
    BY <1>2, <1>7, <2>2, <2>3 DEF ResumeUnique, RowExecuting, TypeOK, external
<1>8. CASE ResumeNotFound(c)
  <2>1. [exec EXCEPT !.state = "downstream_request_prepared", !.retry = 1,
                     !.attempt = proc[c].attempt] \in Executions
    BY <1>1 DEF TypeOK, Executions, States
  <2>2. exec' \in Executions /\ journal' \subseteq States \X Attempts
    BY <1>8, <2>1, JournalType DEF ResumeNotFound, States
  <2>3. proc' = [proc EXCEPT ![c] = [@ EXCEPT !.pc = "authority", !.seen = None,
                                              !.recovered = proc[c].recovered]]
    BY <1>8 DEF ResumeNotFound, TypeOK, Frames
  <2>4. proc' \in [Callers -> Frames] /\ FramesUsable'
    BY <1>1, <1>3, <2>3, ResumeFrameTypes
  <2>5. claim' \in [by : 0 .. MaxAttempts, resolved : BOOLEAN]
    BY <1>8, ConstantsAssumption DEF ResumeNotFound, TypeOK
  <2> QED
    BY <1>2, <1>8, <2>2, <2>4, <2>5 DEF ResumeNotFound, RowExecuting, Ledger, TypeOK
<1> QED
  BY <1>4, <1>5, <1>6, <1>7, <1>8

(* stopAndEscalate, and a refused call. *)
LEMMA StopTypes ==
    ASSUME TypeInv, NEW c \in Callers, StopAndEscalate(c) \/ Refuse(c)
    PROVE  TypeInv'
<1> USE DEF TypeInv
<1>1. CASE StopAndEscalate(c)
  <2>1. [exec EXCEPT !.state = "failed_terminal"] \in Executions
    BY DEF TypeOK, Executions, States
  <2>2. exec' \in Executions /\ journal' \subseteq States \X Attempts
    BY <1>1, <2>1, JournalType DEF StopAndEscalate
  <2>3. row' \in Rows
    BY <1>1 DEF StopAndEscalate, TypeOK, Rows, ResultStatuses
  <2> QED
    BY <1>1, <2>2, <2>3, ReturnTypes DEF StopAndEscalate, Ledger, TypeOK, external
<1>2. CASE Refuse(c)
  BY <1>2, ReturnTypes DEF Refuse, TypeOK, durable, external
<1> QED
  BY <1>1, <1>2

(* AutoPoster and the network; process death. *)
LEMMA EnvironmentTypes ==
    ASSUME TypeInv,
           \/ \E a \in wire : ServeCreate(a) \/ ServeRefuse(a) \/ LoseRequest(a)
           \/ \E dead \in SUBSET Callers : Crash(dead)
    PROVE  TypeInv'
<1> USE DEF TypeInv
<1>1. CASE \E a \in wire : ServeCreate(a) \/ ServeRefuse(a) \/ LoseRequest(a)
  <2>1. PICK a \in wire : ServeCreate(a) \/ ServeRefuse(a) \/ LoseRequest(a)
    BY <1>1
  <2>2. TypeOK'
    BY <2>1 DEF ServeCreate, ServeRefuse, LoseRequest, TypeOK, Kinds, durable
  <2>3. FramesUsable'
    BY <2>1 DEF ServeCreate, ServeRefuse, LoseRequest, FramesUsable, Live, Called
  <2> QED
    BY <2>2, <2>3
<1>2. CASE \E dead \in SUBSET Callers : Crash(dead)
  <2>1. PICK dead \in SUBSET Callers : Crash(dead)
    BY <1>2
  <2>2. Idle \in Frames
    BY ConstantsAssumption DEF Idle, Frames
  <2>3. crashes' \in 0 .. MaxCrashes
    BY <2>1, ConstantsAssumption DEF Crash, TypeOK
  <2>4. proc' \in [Callers -> Frames]
    BY <2>1, <2>2 DEF Crash, TypeOK
  <2>5. FramesUsable'
    BY <2>1 DEF Crash, FramesUsable, Live, Called, Idle
  <2> QED
    BY <2>1, <2>3, <2>4, <2>5 DEF Crash, TypeOK, durable, external
<1> QED
  BY <1>1, <1>2

(* Every step keeps the types. *)
LEMMA StepTypes == TypeInv /\ [Next]_vars => TypeInv'
<1> SUFFICES ASSUME TypeInv, [Next]_vars PROVE TypeInv'
  OBVIOUS
<1>1. CASE UNCHANGED vars
  BY <1>1 DEF vars, TypeInv, TypeOK, FramesUsable, Live, Called
<1>2. CASE Next
  BY <1>2, ApproveCallTypes, OutcomeTypes, ReconcileTypes, ResumeTypes, StopTypes,
     EnvironmentTypes DEF Next, Call, Continue, AutoPoster
<1> QED
  BY <1>1, <1>2

(* Every reachable state of the mission has the types of its tables. *)
THEOREM TypeCorrect == Spec => []TypeOK
<1>1. TypeInv => TypeOK
  BY DEF TypeInv
<1> QED
  BY InitTypes, StepTypes, <1>1, PTL DEF Spec

-----------------------------------------------------------------------------
(* What the journal's transition table says of the states that matter below. *)
LEMMA AllowedFacts ==
    ASSUME NEW s \in States
    PROVE  /\ s = "approval_required" => Allowed[s] = {"approved", "failed_terminal"}
           /\ s = "completed" => Allowed[s] = {"completed"}
           /\ s = "failed_terminal" => Allowed[s] = {}
           /\ "approval_required" \notin Allowed[s]
           /\ "approved" \in Allowed[s] => s = "approval_required"
           /\ "execution_started" \in Allowed[s] => s = "approved"
           /\ "result_persisted" \in Allowed[s] => s = "downstream_result_observed"
           /\ "completed" \in Allowed[s] => s \in {"result_persisted", "completed"}
  BY DEF Allowed, States

-----------------------------------------------------------------------------
(* Queue evidence is real.  What makes the invariant inductive is every place
   knowledge of the draft is kept: the record, the frames, the answers. *)

EvidenceInv ==
    /\ wire \subseteq sent
    /\ exec.queueId # None \/ exec.outcome = "unique"
         \/ exec.state \in {"downstream_result_observed", "result_persisted", "completed"}
       => draft
    /\ \A c \in Callers : proc[c].answer = "unique" \/ proc[c].recovered => draft
    /\ \A a \in Attempts : answers[a] \in {"succeeded", "duplicate"} => draft

(* Before approval there is neither evidence nor draft. *)
LEMMA InitEvidence == Init => EvidenceInv
  BY ConstantsAssumption DEF Init, EvidenceInv, Idle, Kinds, Attempts

(* Approving, dispatching and stopping bind no evidence. *)
LEMMA EvidenceApprove ==
    ASSUME TypeInv, EvidenceInv, NEW c \in Callers,
           \/ Call(c) \/ Approve(c) \/ StartExecution(c) \/ PrepareRequest(c)
           \/ AuthorityGranted(c) \/ RuntimeDispatch(c) \/ StopAndEscalate(c) \/ Refuse(c)
    PROVE  EvidenceInv'
<1> USE ConstantsAssumption DEF EvidenceInv
<1>0. exec \in Executions /\ proc \in [Callers -> Frames]
  BY DEF TypeInv, TypeOK
<1> USE <1>0
<1>1. CASE Replay(c)
  BY <1>1 DEF Replay, external
<1>2. CASE \E by \in Approvers : CallApprove(c, by)
  BY <1>2 DEF CallApprove, durable, external, Idle
<1>3. CASE \E op \in {"reconcile", "resume", "stop"} : CallRecovery(c, op)
  BY <1>3 DEF CallRecovery, durable, external, Idle
<1>4. CASE Approve(c)
  BY <1>4 DEF Approve, Journal, Goto, external, Executions, Frames
<1>5. CASE StartExecution(c)
  BY <1>5 DEF StartExecution, Journal, Goto, external, Executions, Frames
<1>6. CASE PrepareRequest(c)
  BY <1>6 DEF PrepareRequest, Journal, Goto, external, Executions, Frames
<1>7. CASE AuthorityGranted(c)
  BY <1>7 DEF AuthorityGranted, Goto, durable, external, Frames
<1>8. CASE RuntimeDispatch(c)
  BY <1>8 DEF RuntimeDispatch, Goto, durable, Frames
<1>9. CASE StopAndEscalate(c)
  BY <1>9 DEF StopAndEscalate, Journal, Return, external, Executions, Idle
<1>10. CASE Refuse(c)
  BY <1>10 DEF Refuse, Return, durable, external, Idle
<1> QED
  BY <1>1, <1>2, <1>3, <1>4, <1>5, <1>6, <1>7, <1>8, <1>9, <1>10 DEF Call

(* An answer binds evidence only over the draft it reports. *)
LEMMA EvidenceOutcome ==
    ASSUME TypeInv, EvidenceInv, NEW c \in Callers,
           \/ ObserveResult(c) \/ RecordFailure(c) \/ DiscardOutcome(c)
           \/ PersistResult(c) \/ CompleteMission(c)
    PROVE  EvidenceInv'
<1> USE ConstantsAssumption DEF EvidenceInv
<1>0. exec \in Executions /\ proc \in [Callers -> Frames]
  BY DEF TypeInv, TypeOK
<1> USE <1>0
<1>1. CASE ObserveResult(c)
  <2>1. PICK r \in ResultsFor(c) :
          /\ Verified(r)
          /\ Journal([exec EXCEPT !.state = "downstream_result_observed",
                                  !.queueId = "post", !.observation = r], None)
          /\ proc' = [proc EXCEPT ![c] = [@ EXCEPT !.pc = "persist", !.result = r]]
    BY <1>1 DEF ObserveResult
  <2>2. r.kind \in Outcomes(c) /\ r.kind \in {"succeeded", "duplicate"}
    BY <2>1 DEF ResultsFor, Verified
  <2>3. ASSUME proc[c].pc = "sent" PROVE draft
    <3>1. proc[c].attempt \in Attempts
      BY <2>3 DEF TypeInv, FramesUsable, Live
    <3>2. answers[proc[c].attempt] \in {"succeeded", "duplicate"}
      BY <2>2, <2>3 DEF Outcomes
    <3> QED
      BY <3>1, <3>2
  <2>4. ASSUME proc[c].pc # "sent" PROVE draft
    BY <2>2, <2>4 DEF Outcomes
  <2>5. draft
    BY <2>3, <2>4
  <2>6. UNCHANGED <<wire, answers, sent, draft>>
    BY <1>1 DEF ObserveResult
  <2> QED
    BY <2>5, <2>6
<1>2. CASE RecordFailure(c)
  <2>1. PICK r \in ResultsFor(c) :
          /\ ~Verified(r)
          /\ Journal([exec EXCEPT !.state = FailedState(r), !.observation = r,
                                  !.finalStatus = ResultStatus(r)], None)
    BY <1>2 DEF RecordFailure
  <2>2. FailedState(r) \in {"reconciliation_required", "failed_recoverable", "failed_terminal"}
    BY DEF FailedState
  <2> QED
    BY <1>2, <2>1, <2>2 DEF RecordFailure, Journal, Return, Executions, Idle
<1>3. CASE DiscardOutcome(c)
  BY <1>3 DEF DiscardOutcome, Return, durable, Idle
<1>4. CASE PersistResult(c)
  <2>1. exec.state \in States /\ "result_persisted" \in Allowed[exec.state]
    BY <1>4 DEF PersistResult, Journal, Executions
  <2>2. draft
    BY <2>1, AllowedFacts
  <2> QED
    BY <1>4, <2>2 DEF PersistResult, Journal, Goto, external, Executions, Frames
<1>5. CASE CompleteMission(c)
  <2>1. exec.state \in States /\ "completed" \in Allowed[exec.state]
    BY <1>5 DEF CompleteMission, Journal, Executions
  <2>2. draft
    BY <2>1, AllowedFacts
  <2> QED
    BY <1>5, <2>2 DEF CompleteMission, Journal, Return, external, Executions, Idle
<1> QED
  BY <1>1, <1>2, <1>3, <1>4, <1>5

(* A reconciliation binds evidence only after a lookup found the draft. *)
LEMMA EvidenceRecovery ==
    ASSUME TypeInv, EvidenceInv, NEW c \in Callers,
           \/ ClaimReconciliation(c) \/ ServeLookup(c)
           \/ RecordReconciliation(c) \/ DiscardReconciliation(c)
           \/ ResumePersisted(c) \/ ResumeObserved(c) \/ ResumeApproved(c)
           \/ ResumeUnique(c) \/ ResumeNotFound(c)
    PROVE  EvidenceInv'
<1> USE ConstantsAssumption DEF EvidenceInv
<1>0. exec \in Executions /\ proc \in [Callers -> Frames]
  BY DEF TypeInv, TypeOK
<1> USE <1>0
<1>1. CASE ClaimReconciliation(c)
  BY <1>1 DEF ClaimReconciliation, Journal, external, Executions, Frames
<1>2. CASE ServeLookup(c)
  BY <1>2 DEF ServeLookup, durable, external, Frames
<1>3. CASE RecordReconciliation(c)
  <2>1. PICK o \in LookupOutcomes(c) : Journal(Reconciled(o), None)
    BY <1>3 DEF RecordReconciliation
  <2>2. CASE o = "unique"
    <3>1. draft
      BY <2>2 DEF LookupOutcomes, AllLookupFaults
    <3> QED
      BY <1>3, <3>1 DEF RecordReconciliation, Return, external, Idle
  <2>3. CASE o # "unique"
    <3>1. /\ Reconciled(o).state \in
               {"failed_recoverable", "reconciliation_required", "failed_terminal"}
          /\ Reconciled(o).outcome # "unique"
          /\ Reconciled(o).queueId = exec.queueId
      BY <2>3 DEF Reconciled, Executions, AllLookupFaults
    <3> QED
      BY <1>3, <2>1, <3>1 DEF RecordReconciliation, Journal, Return, external, Idle
  <2> QED
    BY <2>2, <2>3
<1>4. CASE DiscardReconciliation(c)
  BY <1>4 DEF DiscardReconciliation, Return, durable, external, Idle
<1>5. CASE ResumePersisted(c)
  <2>1. exec.state \in States /\ "completed" \in Allowed[exec.state]
    BY <1>5 DEF ResumePersisted, Journal, Executions
  <2>2. draft
    BY <2>1, AllowedFacts
  <2> QED
    BY <1>5, <2>2 DEF ResumePersisted, Journal, Return, external, Executions, Idle
<1>6. CASE ResumeObserved(c)
  BY <1>6 DEF ResumeObserved, external, Frames
<1>7. CASE ResumeApproved(c)
  BY <1>7 DEF ResumeApproved, Journal, external, Executions, Frames
<1>8. CASE ResumeUnique(c)
  BY <1>8 DEF ResumeUnique, Journal, external, Executions, Frames
<1>9. CASE ResumeNotFound(c)
  BY <1>9 DEF ResumeNotFound, Journal, Executions, Frames
<1> QED
  BY <1>1, <1>2, <1>3, <1>4, <1>5, <1>6, <1>7, <1>8, <1>9

(* Every step keeps the evidence real. *)
LEMMA EvidenceStep == TypeInv /\ EvidenceInv /\ [Next]_vars => EvidenceInv'
<1> SUFFICES ASSUME TypeInv, EvidenceInv, [Next]_vars PROVE EvidenceInv'
  OBVIOUS
<1>1. CASE UNCHANGED vars
  BY <1>1 DEF vars, EvidenceInv
<1>2. CASE \E a \in wire : ServeCreate(a) \/ ServeRefuse(a) \/ LoseRequest(a)
  BY <1>2 DEF ServeCreate, ServeRefuse, LoseRequest, durable, TypeInv, TypeOK, EvidenceInv
<1>3. CASE \E dead \in SUBSET Callers : Crash(dead)
  BY <1>3, ConstantsAssumption DEF Crash, durable, external, EvidenceInv, Idle
<1> QED
  BY <1>1, <1>2, <1>3, EvidenceApprove, EvidenceOutcome, EvidenceRecovery
     DEF Next, Continue, AutoPoster

(* A bound queue identity always belongs to an existing draft. *)
THEOREM EvidenceCorrect == Spec => []EvidenceIsReal
<1>1. EvidenceInv => EvidenceIsReal
  BY DEF EvidenceInv, EvidenceIsReal
<1> QED
  BY InitTypes, StepTypes, InitEvidence, EvidenceStep, <1>1, PTL DEF Spec

-----------------------------------------------------------------------------
(* A finished mission is final: the only transaction left is completed ->
   completed, and it finds the ledger completed already. *)

CompletedInv == exec.state = "completed" => ledger = "completed"

StepKeepsFinal ==
    /\ exec.state \in Final => UNCHANGED <<row, exec, ledger>>
    /\ CompletedInv'

(* From a finished state the journal only moves from completed to completed. *)
LEMMA JournalFinal ==
    ASSUME TypeInv, NEW e, NEW via, Journal(e, via), exec.state \in Final
    PROVE  e.state = "completed" /\ exec.state = "completed"
  BY AllowedFacts DEF Journal, Final, TypeInv, TypeOK, Executions, States

(* Completing a mission closes its ledger with it. *)
LEMMA JournalCompletes ==
    ASSUME TypeInv, CompletedInv, Ledger("completed"),
           Journal([exec EXCEPT !.state = "completed"], None), UNCHANGED row
    PROVE  StepKeepsFinal
<1>1. [exec EXCEPT !.state = "completed"].state = "completed"
  BY DEF TypeInv, TypeOK, Executions
<1>2. exec.state = "completed" => exec' = exec
  BY DEF Journal, TypeInv, TypeOK, Executions
<1> QED
  BY <1>1, <1>2, JournalFinal DEF StepKeepsFinal, CompletedInv, Ledger

(* Every step keeps a finished mission. *)
LEMMA FinalStep == TypeInv /\ CompletedInv /\ [Next]_vars => StepKeepsFinal
<1> SUFFICES ASSUME TypeInv, CompletedInv, [Next]_vars PROVE StepKeepsFinal
  OBVIOUS
<1>0. exec \in Executions
  BY DEF TypeInv, TypeOK
<1> DEFINE Unfinished == exec.state \notin Final /\ exec'.state # "completed"
<1>1. ASSUME NEW c \in Callers,
             \/ Call(c) \/ AuthorityGranted(c) \/ RuntimeDispatch(c) \/ DiscardOutcome(c)
             \/ ServeLookup(c) \/ DiscardReconciliation(c) \/ Refuse(c)
      PROVE  UNCHANGED <<row, exec, ledger>>
  BY <1>1 DEF Call, Replay, CallApprove, CallRecovery, AuthorityGranted, RuntimeDispatch,
     DiscardOutcome, ServeLookup, DiscardReconciliation, Refuse, durable
<1>2. ASSUME NEW c \in Callers,
             \/ Approve(c) \/ StartExecution(c) \/ PrepareRequest(c) \/ ObserveResult(c)
             \/ PersistResult(c) \/ ClaimReconciliation(c) \/ ResumeApproved(c)
             \/ ResumeUnique(c) \/ ResumeNotFound(c) \/ StopAndEscalate(c)
      PROVE  Unfinished
  <2>0. exec.state \in Final => Allowed[exec.state] \subseteq {"completed"}
    BY <1>0, AllowedFacts DEF Final, Executions
  <2> USE <1>0, <2>0 DEF Executions, Journal
  <2>1. CASE Approve(c)
    BY <2>1 DEF Approve
  <2>2. CASE StartExecution(c)
    BY <2>2 DEF StartExecution
  <2>3. CASE PrepareRequest(c)
    BY <2>3 DEF PrepareRequest
  <2>4. CASE ObserveResult(c)
    BY <2>4 DEF ObserveResult
  <2>5. CASE PersistResult(c)
    BY <2>5 DEF PersistResult
  <2>6. CASE ClaimReconciliation(c)
    BY <2>6 DEF ClaimReconciliation
  <2>7. CASE ResumeApproved(c)
    BY <2>7 DEF ResumeApproved
  <2>8. CASE ResumeUnique(c)
    BY <2>8 DEF ResumeUnique
  <2>9. CASE ResumeNotFound(c)
    BY <2>9 DEF ResumeNotFound
  <2>10. CASE StopAndEscalate(c)
    BY <2>10 DEF StopAndEscalate
  <2> QED
    BY <1>2, <2>1, <2>2, <2>3, <2>4, <2>5, <2>6, <2>7, <2>8, <2>9, <2>10
<1>3. ASSUME NEW c \in Callers, RecordFailure(c)
      PROVE  Unfinished
  <2>1. PICK r \in ResultsFor(c) :
          Journal([exec EXCEPT !.state = FailedState(r), !.observation = r,
                               !.finalStatus = ResultStatus(r)], None)
    BY <1>3 DEF RecordFailure
  <2>2. FailedState(r) # "completed"
    BY DEF FailedState
  <2>3. exec.state \in Final => Allowed[exec.state] \subseteq {"completed"}
    BY <1>0, AllowedFacts DEF Final, Executions
  <2>4. exec' = [exec EXCEPT !.state = FailedState(r), !.observation = r,
                             !.finalStatus = ResultStatus(r)]
    BY <2>1 DEF Journal
  <2>5. exec'.state = FailedState(r)
    BY <1>0, <2>4 DEF Executions
  <2>6. exec'.state \in Allowed[exec.state]
    BY <2>1, <2>4 DEF Journal
  <2> QED
    BY <2>2, <2>3, <2>5, <2>6
<1>4. ASSUME NEW c \in Callers, RecordReconciliation(c)
      PROVE  Unfinished
  <2>1. PICK o \in LookupOutcomes(c) : Journal(Reconciled(o), None)
    BY <1>4 DEF RecordReconciliation
  <2>2. Reconciled(o).state # "completed"
    BY <1>0 DEF Reconciled, Executions
  <2> QED
    BY <2>1, <2>2, JournalFinal DEF Journal
<1>5. ASSUME NEW c \in Callers, CompleteMission(c) \/ ResumePersisted(c)
      PROVE  StepKeepsFinal
  BY <1>5, JournalCompletes DEF CompleteMission, ResumePersisted
<1>6. ASSUME NEW c \in Callers, ResumeObserved(c)
      PROVE  StepKeepsFinal
  BY <1>0, <1>6 DEF ResumeObserved, StepKeepsFinal, CompletedInv, Final
<1>7. ASSUME \/ UNCHANGED vars
             \/ \E a \in wire : ServeCreate(a) \/ ServeRefuse(a) \/ LoseRequest(a)
             \/ \E dead \in SUBSET Callers : Crash(dead)
      PROVE  UNCHANGED <<row, exec, ledger>>
  BY <1>7 DEF vars, ServeCreate, ServeRefuse, LoseRequest, Crash, durable
<1>8. Unfinished \/ UNCHANGED <<row, exec, ledger>> => StepKeepsFinal
  BY DEF StepKeepsFinal, CompletedInv
<1> HIDE DEF Unfinished
<1> QED
  BY <1>1, <1>2, <1>3, <1>4, <1>5, <1>6, <1>7, <1>8
     DEF Next, Continue, AutoPoster

(* No step of any caller, process or server changes a finished mission. *)
THEOREM FinishedCorrect == Spec => FinishedIsFinal
<1>1. Init => CompletedInv
  BY DEF Init, CompletedInv
<1>2. TypeInv /\ CompletedInv /\ [Next]_vars => CompletedInv'
  BY FinalStep DEF StepKeepsFinal
<1>3. TypeInv /\ CompletedInv /\ [Next]_vars
        => [exec.state \in Final => UNCHANGED <<row, exec, ledger>>]_vars
  BY FinalStep DEF StepKeepsFinal
<1> QED
  BY InitTypes, StepTypes, <1>1, <1>2, <1>3, PTL DEF Spec, FinishedIsFinal

-----------------------------------------------------------------------------
(* The dispatch budget.  A caller that may still dispatch holds a permit: one
   comes from the approval, one from the recorded retry, and dispatching
   spends it.  A recovered execution dispatches nothing. *)

Holders == {c \in Callers : /\ proc[c].pc \in {"prepare", "authority", "execute"}
                            /\ ~proc[c].recovered}

(* Before approval nobody works on the mission; until the execution is started
   no permit is out, and no retry has been granted. *)
NothingBeforeApproval ==
    /\ exec.state = "approval_required" =>
         \A c \in Callers : ~Live(c) \/ Called(c, "approve")
    /\ exec.state \in {"approval_required", "approved"} =>
         Holders = {} /\ sent = {} /\ exec.retry = 0

PermitsCounted ==
    /\ IsFiniteSet(Holders) /\ IsFiniteSet(sent)
    /\ Cardinality(Holders) + Cardinality(sent) <= 1 + exec.retry

BudgetInv == NothingBeforeApproval /\ PermitsCounted

(* Initially no permit is out. *)
LEMMA InitBudget == Init => BudgetInv
<1> SUFFICES ASSUME Init PROVE BudgetInv
  OBVIOUS
<1>1. Holders = {} /\ \A c \in Callers : ~Live(c)
  BY DEF Init, Holders, Idle, Live
<1>2. exec.retry = 0 /\ sent = {}
  BY DEF Init
<1> QED
  BY <1>1, <1>2, FS_EmptySet DEF BudgetInv, NothingBeforeApproval, PermitsCounted

(* Permits may be returned unspent: a call ends, fails or never dispatches. *)
LEMMA PermitsReturned ==
    ASSUME TypeInv, PermitsCounted, Holders' \subseteq Holders, UNCHANGED sent,
           exec'.retry \in {exec.retry, 1}, TypeInv'
    PROVE  PermitsCounted'
<1>1. IsFiniteSet(Holders') /\ Cardinality(Holders') <= Cardinality(Holders)
  BY FS_Subset DEF PermitsCounted
<1>2. /\ Cardinality(Holders) \in Nat /\ Cardinality(Holders') \in Nat
      /\ Cardinality(sent) \in Nat
  BY <1>1, FS_CardinalityType DEF PermitsCounted
<1>3. exec.retry \in {0, 1} /\ exec'.retry >= exec.retry
  BY DEF TypeInv, TypeOK, Executions
<1> QED
  BY <1>1, <1>2, <1>3 DEF PermitsCounted

(* One permit is given out: the execution starts, or the retry is recorded. *)
LEMMA PermitGiven ==
    ASSUME PermitsCounted, NEW c \in Callers, Holders' \subseteq Holders \cup {c},
           UNCHANGED sent, exec.retry \in Nat, exec'.retry \in Nat,
           \/ Holders = {} /\ sent = {}
           \/ exec'.retry = exec.retry + 1
    PROVE  PermitsCounted'
<1>1. /\ IsFiniteSet(Holders \cup {c})
      /\ Cardinality(Holders \cup {c}) <= Cardinality(Holders) + 1
      /\ Cardinality(Holders) \in Nat
  BY FS_AddElement, FS_CardinalityType DEF PermitsCounted
<1>2. /\ IsFiniteSet(Holders')
      /\ Cardinality(Holders') <= Cardinality(Holders) + 1
  BY <1>1, FS_Subset, FS_CardinalityType
<1>3. Cardinality(sent) \in Nat /\ Cardinality(Holders') \in Nat
  BY <1>2, FS_CardinalityType DEF PermitsCounted
<1>4. CASE Holders = {} /\ sent = {}
  BY <1>2, <1>3, <1>4, FS_EmptySet DEF PermitsCounted
<1>5. CASE exec'.retry = exec.retry + 1
  BY <1>1, <1>2, <1>3, <1>5 DEF PermitsCounted
<1> QED
  BY <1>4, <1>5

(* A dispatch spends the permit of its caller. *)
LEMMA PermitSpent ==
    ASSUME TypeInv, PermitsCounted, NEW c \in Holders, RuntimeDispatch(c)
    PROVE  PermitsCounted' /\ Holders' = Holders \ {c}
<1>1. exec' = exec
  BY DEF RuntimeDispatch, durable
<1>2. Holders' = Holders \ {c}
  <2>1. proc \in [Callers -> Frames] /\ proc' = [proc EXCEPT ![c].pc = "sent"]
    BY DEF RuntimeDispatch, Goto, TypeInv, TypeOK
  <2>2. c \in Callers /\ proc'[c].pc = "sent"
    BY <2>1 DEF Holders, Frames
  <2>3. \A d \in Callers \ {c} : proc'[d] = proc[d]
    BY <2>1
  <2> QED
    BY <2>2, <2>3 DEF Holders
<1>3. /\ IsFiniteSet(Holders') /\ Cardinality(Holders') = Cardinality(Holders) - 1
      /\ Cardinality(Holders) \in Nat
  BY <1>2, FS_RemoveElement, FS_CardinalityType DEF PermitsCounted
<1>4. /\ IsFiniteSet(sent') /\ Cardinality(sent') <= Cardinality(sent) + 1
      /\ Cardinality(sent) \in Nat /\ Cardinality(sent') \in Nat
  <2> DEFINE a == proc[c].attempt
  <2>1. sent' = sent \cup {a} /\ IsFiniteSet(sent)
    BY DEF RuntimeDispatch, PermitsCounted
  <2> HIDE DEF a
  <2>2. /\ IsFiniteSet(sent \cup {a}) /\ Cardinality(sent) \in Nat
        /\ Cardinality(sent \cup {a}) \in {Cardinality(sent), Cardinality(sent) + 1}
    BY <2>1, FS_AddElement, FS_CardinalityType
  <2> QED
    BY <2>1, <2>2
<1>5. exec.retry \in Nat
  BY DEF TypeInv, TypeOK, Executions
<1> QED
  BY <1>1, <1>2, <1>3, <1>4, <1>5 DEF PermitsCounted

(* Which frames hold a permit after caller c's frame became f. *)
LEMMA FrameChange ==
    ASSUME TypeInv, NEW c \in Callers, NEW f, proc' = [proc EXCEPT ![c] = f]
    PROVE  /\ Holders' \subseteq Holders \cup {c}
           /\ \/ f.pc \notin {"prepare", "authority", "execute"}
              \/ f.recovered
              \/ c \in Holders
              => Holders' \subseteq Holders
           /\ proc'[c] = f /\ \A d \in Callers \ {c} : proc'[d] = proc[d]
<1>1. proc'[c] = f /\ \A d \in Callers \ {c} : proc'[d] = proc[d]
  BY DEF TypeInv, TypeOK
<1> QED
  BY <1>1 DEF Holders

(* A step that gives out no permit and enters no early state keeps the budget. *)
LEMMA BudgetKept ==
    ASSUME TypeInv, TypeInv', BudgetInv, Holders' \subseteq Holders, UNCHANGED sent,
           exec'.retry = exec.retry,
           exec'.state \in {"approval_required", "approved"} =>
              exec.state \in {"approval_required", "approved"},
           exec'.state = "approval_required" =>
              \A c \in Callers : (~Live(c) \/ Called(c, "approve"))'
    PROVE  BudgetInv'
  BY PermitsReturned DEF BudgetInv, NothingBeforeApproval

(* The call returns, or waits elsewhere, and the journal moves on. *)
LEMMA BudgetMoved ==
    ASSUME TypeInv, TypeInv', BudgetInv, NEW c \in Callers, UNCHANGED sent,
           NEW f, proc' = [proc EXCEPT ![c] = f],
           \/ f.pc \notin {"prepare", "authority", "execute"}
           \/ f.recovered
           \/ c \in Holders,
           NEW e, NEW via, Journal(e, via),
           e.state \notin {"approval_required", "approved"}, e.retry = exec.retry
    PROVE  BudgetInv'
  BY FrameChange, BudgetKept DEF Journal

(* approveAndExecute up to the dispatch, stop and refusals. *)
LEMMA BudgetApprove ==
    ASSUME TypeInv, TypeInv', BudgetInv, NEW c \in Callers,
           \/ Call(c) \/ Approve(c) \/ StartExecution(c) \/ PrepareRequest(c)
           \/ AuthorityGranted(c) \/ RuntimeDispatch(c) \/ StopAndEscalate(c) \/ Refuse(c)
    PROVE  BudgetInv'
<1>0. exec \in Executions /\ proc \in [Callers -> Frames] /\ proc[c] \in Frames
  BY DEF TypeInv, TypeOK
<1>1. CASE Replay(c)
  BY <1>1 DEF Replay, external, BudgetInv, NothingBeforeApproval, PermitsCounted, Holders,
     Live, Called
<1>2. CASE \E by \in Approvers : CallApprove(c, by)
  <2>1. PICK by \in Approvers : CallApprove(c, by)
    BY <1>2
  <2> DEFINE f == [Idle EXCEPT !.pc = "called", !.op = "approve", !.by = by,
                               !.attempt = exec.attempt]
  <2>2. f.pc = "called" /\ f.op = "approve"
    BY DEF Idle
  <2>3. proc' = [proc EXCEPT ![c] = f] /\ UNCHANGED <<exec, sent>>
    BY <2>1 DEF CallApprove, durable, external
  <2> HIDE DEF f
  <2>4. Holders' \subseteq Holders /\ Called(c, "approve")'
        /\ \A d \in Callers \ {c} : proc'[d] = proc[d]
    BY <2>2, <2>3, FrameChange DEF Called
  <2>5. exec.state = "approval_required" =>
          \A d \in Callers : (~Live(d) \/ Called(d, "approve"))'
    BY <2>4 DEF BudgetInv, NothingBeforeApproval, Live, Called
  <2> QED
    BY <2>3, <2>4, <2>5, BudgetKept
<1>3. CASE \E op \in {"reconcile", "resume", "stop"} : CallRecovery(c, op)
  <2>1. PICK op \in {"reconcile", "resume", "stop"} : CallRecovery(c, op)
    BY <1>3
  <2> DEFINE f == [Idle EXCEPT !.pc = "called", !.op = op, !.seen = exec,
                               !.attempt = attempts']
  <2>2. f.pc = "called"
    BY DEF Idle
  <2>3. proc' = [proc EXCEPT ![c] = f] /\ UNCHANGED <<exec, sent>>
    BY <2>1 DEF CallRecovery, durable, external
  <2>4. exec.state # "approval_required"
    BY <2>1 DEF CallRecovery, Permitted
  <2> HIDE DEF f
  <2> QED
    BY <2>2, <2>3, <2>4, FrameChange, BudgetKept
<1>4. CASE Approve(c)
  <2>1. /\ exec' = [exec EXCEPT !.state = "approved"] /\ UNCHANGED sent
        /\ "approved" \in Allowed[exec.state]
    BY <1>4 DEF Approve, Journal, external
  <2>2. exec'.retry = exec.retry /\ exec'.state = "approved"
    BY <1>0, <2>1 DEF Executions
  <2>3. exec.state = "approval_required"
    BY <1>0, <2>1, AllowedFacts DEF Executions
  <2> DEFINE f == [proc[c] EXCEPT !.pc = "start"]
  <2>4. proc' = [proc EXCEPT ![c] = f] /\ f.pc = "start"
    BY <1>0, <1>4 DEF Approve, Goto, Frames
  <2> HIDE DEF f
  <2> QED
    BY <2>1, <2>2, <2>3, <2>4, FrameChange, BudgetKept
<1>5. CASE StartExecution(c)
  <2>1. /\ exec' = [exec EXCEPT !.state = "execution_started"] /\ UNCHANGED sent
        /\ "execution_started" \in Allowed[exec.state]
    BY <1>5 DEF StartExecution, Journal, external
  <2>2. exec'.retry = exec.retry /\ exec'.state = "execution_started"
    BY <1>0, <2>1 DEF Executions
  <2>3. Holders = {} /\ sent = {}
    BY <1>0, <2>1, AllowedFacts DEF Executions, BudgetInv, NothingBeforeApproval
  <2> DEFINE f == [proc[c] EXCEPT !.pc = "prepare"]
  <2>4. proc' = [proc EXCEPT ![c] = f]
    BY <1>5 DEF StartExecution, Goto
  <2> HIDE DEF f
  <2>5. exec.retry \in Nat /\ exec'.retry \in Nat
    BY <1>0, <2>2 DEF Executions
  <2> QED
    BY <2>1, <2>2, <2>3, <2>4, <2>5, FrameChange, PermitGiven
       DEF BudgetInv, NothingBeforeApproval
<1>6. CASE PrepareRequest(c)
  <2> DEFINE e == [exec EXCEPT !.state = "downstream_request_prepared"]
             f == [proc[c] EXCEPT !.pc = "authority"]
  <2>1. Journal(e, None) /\ UNCHANGED sent /\ proc' = [proc EXCEPT ![c] = f]
    BY <1>6 DEF PrepareRequest, Goto, external
  <2>2. f.recovered \/ c \in Holders
    BY <1>0, <1>6 DEF PrepareRequest, Holders, Frames
  <2>3. e.state = "downstream_request_prepared" /\ e.retry = exec.retry
    BY <1>0 DEF Executions
  <2> HIDE DEF e, f
  <2> QED
    BY <2>1, <2>2, <2>3, BudgetMoved
<1>7. CASE AuthorityGranted(c)
  <2> DEFINE f == [proc[c] EXCEPT !.pc = "execute"]
  <2>1. UNCHANGED <<exec, sent>> /\ proc' = [proc EXCEPT ![c] = f]
    BY <1>7 DEF AuthorityGranted, Goto, durable, external
  <2>2. f.recovered \/ c \in Holders
    BY <1>0, <1>7 DEF AuthorityGranted, Holders, Frames
  <2>3. exec.state # "approval_required"
    BY <1>7 DEF AuthorityGranted, BudgetInv, NothingBeforeApproval, Live, Called
  <2> HIDE DEF f
  <2> QED
    BY <2>1, <2>2, <2>3, FrameChange, BudgetKept
<1>8. CASE RuntimeDispatch(c)
  <2>1. c \in Holders /\ UNCHANGED exec
    BY <1>8 DEF RuntimeDispatch, Holders, durable
  <2> QED
    BY <1>8, <2>1, PermitSpent DEF BudgetInv, NothingBeforeApproval
<1>9. CASE StopAndEscalate(c)
  <2> DEFINE e == [exec EXCEPT !.state = "failed_terminal"]
  <2>1. Journal(e, None) /\ UNCHANGED sent /\ proc' = [proc EXCEPT ![c] = Idle]
    BY <1>9 DEF StopAndEscalate, Return, external
  <2>2. e.state = "failed_terminal" /\ e.retry = exec.retry /\ Idle.pc = "idle"
    BY <1>0 DEF Executions, Idle
  <2> HIDE DEF e
  <2> QED
    BY <2>1, <2>2, BudgetMoved
<1>10. CASE Refuse(c)
  <2>1. UNCHANGED <<exec, sent>> /\ proc' = [proc EXCEPT ![c] = Idle] /\ Idle.pc = "idle"
    BY <1>10 DEF Refuse, Return, durable, external, Idle
  <2>2. exec.state = "approval_required" =>
          \A d \in Callers : (~Live(d) \/ Called(d, "approve"))'
    BY <2>1, FrameChange DEF BudgetInv, NothingBeforeApproval, Live, Called
  <2> QED
    BY <2>1, <2>2, FrameChange, BudgetKept
<1> QED
  BY <1>1, <1>2, <1>3, <1>4, <1>5, <1>6, <1>7, <1>8, <1>9, <1>10 DEF Call

-----------------------------------------------------------------------------
(* Recording an outcome gives out no permit. *)
LEMMA BudgetOutcome ==
    ASSUME TypeInv, TypeInv', BudgetInv, NEW c \in Callers,
           \/ ObserveResult(c) \/ RecordFailure(c) \/ DiscardOutcome(c)
           \/ PersistResult(c) \/ CompleteMission(c)
    PROVE  BudgetInv'
<1>0. exec \in Executions /\ proc \in [Callers -> Frames] /\ proc[c] \in Frames
  BY DEF TypeInv, TypeOK
<1>1. CASE ObserveResult(c)
  <2>1. PICK r \in ResultsFor(c) :
          /\ Journal([exec EXCEPT !.state = "downstream_result_observed",
                                  !.queueId = "post", !.observation = r], None)
          /\ proc' = [proc EXCEPT ![c] = [@ EXCEPT !.pc = "persist", !.result = r]]
    BY <1>1 DEF ObserveResult
  <2> DEFINE e == [exec EXCEPT !.state = "downstream_result_observed",
                               !.queueId = "post", !.observation = r]
             f == [proc[c] EXCEPT !.pc = "persist", !.result = r]
  <2>2. Journal(e, None) /\ UNCHANGED sent /\ proc' = [proc EXCEPT ![c] = f]
    BY <1>0, <1>1, <2>1 DEF ObserveResult
  <2>3. /\ e.state = "downstream_result_observed" /\ e.retry = exec.retry
        /\ f.pc = "persist"
    BY <1>0 DEF Executions, Frames
  <2> HIDE DEF e, f
  <2> QED
    BY <2>2, <2>3, BudgetMoved
<1>2. CASE RecordFailure(c)
  <2>1. PICK r \in ResultsFor(c) :
          Journal([exec EXCEPT !.state = FailedState(r), !.observation = r,
                               !.finalStatus = ResultStatus(r)], None)
    BY <1>2 DEF RecordFailure
  <2> DEFINE e == [exec EXCEPT !.state = FailedState(r), !.observation = r,
                               !.finalStatus = ResultStatus(r)]
  <2>2. Journal(e, None) /\ UNCHANGED sent /\ proc' = [proc EXCEPT ![c] = Idle]
    BY <1>2, <2>1 DEF RecordFailure, Return
  <2>3. FailedState(r) \notin {"approval_required", "approved"}
    BY DEF FailedState
  <2>4. e.state = FailedState(r) /\ e.retry = exec.retry /\ Idle.pc = "idle"
    BY <1>0 DEF Executions, Idle
  <2> HIDE DEF e
  <2> QED
    BY <2>2, <2>3, <2>4, BudgetMoved
<1>3. CASE DiscardOutcome(c)
  <2>1. UNCHANGED <<exec, sent>> /\ proc' = [proc EXCEPT ![c] = Idle] /\ Idle.pc = "idle"
    BY <1>3 DEF DiscardOutcome, Return, durable, Idle
  <2>2. proc[c].pc \in {"authority", "execute", "sent"}
    BY <1>3 DEF DiscardOutcome, ResultsFor, Outcomes
  <2>3. exec.state # "approval_required"
    BY <2>2 DEF BudgetInv, NothingBeforeApproval, Live, Called
  <2> QED
    BY <2>1, <2>3, FrameChange, BudgetKept
<1>4. CASE PersistResult(c)
  <2> DEFINE e == [exec EXCEPT !.state = "result_persisted",
                               !.finalStatus = ResultStatus(proc[c].result)]
             f == [proc[c] EXCEPT !.pc = "complete"]
  <2>1. Journal(e, None) /\ UNCHANGED sent /\ proc' = [proc EXCEPT ![c] = f]
    BY <1>4 DEF PersistResult, Goto, external
  <2>2. e.state = "result_persisted" /\ e.retry = exec.retry /\ f.pc = "complete"
    BY <1>0 DEF Executions, Frames
  <2> HIDE DEF e, f
  <2> QED
    BY <2>1, <2>2, BudgetMoved
<1>5. CASE CompleteMission(c)
  <2> DEFINE e == [exec EXCEPT !.state = "completed"]
  <2>1. Journal(e, None) /\ UNCHANGED sent /\ proc' = [proc EXCEPT ![c] = Idle]
    BY <1>5 DEF CompleteMission, Return, external
  <2>2. e.state = "completed" /\ e.retry = exec.retry /\ Idle.pc = "idle"
    BY <1>0 DEF Executions, Idle
  <2> HIDE DEF e
  <2> QED
    BY <2>1, <2>2, BudgetMoved
<1> QED
  BY <1>1, <1>2, <1>3, <1>4, <1>5

(* A reconciliation gives out no permit. *)
LEMMA BudgetReconcile ==
    ASSUME TypeInv, TypeInv', BudgetInv, NEW c \in Callers,
           \/ ClaimReconciliation(c) \/ ServeLookup(c)
           \/ RecordReconciliation(c) \/ DiscardReconciliation(c)
    PROVE  BudgetInv'
<1>0. exec \in Executions /\ proc \in [Callers -> Frames] /\ proc[c] \in Frames
  BY DEF TypeInv, TypeOK
<1>1. CASE ClaimReconciliation(c)
  <2> DEFINE e == [exec EXCEPT !.state = "recovery_in_progress", !.attempt = proc[c].attempt]
             f == [proc[c] EXCEPT !.pc = "lookup", !.seen = None]
  <2>1. /\ \E via : Journal(e, via)
        /\ UNCHANGED sent /\ proc' = [proc EXCEPT ![c] = f]
    BY <1>0, <1>1 DEF ClaimReconciliation, external
  <2>2. e.state = "recovery_in_progress" /\ e.retry = exec.retry /\ f.pc = "lookup"
    BY <1>0 DEF Executions, Frames
  <2> HIDE DEF e, f
  <2> QED
    BY <2>1, <2>2, BudgetMoved
<1>2. CASE ServeLookup(c)
  <2> DEFINE f == [proc[c] EXCEPT !.answer = IF draft THEN "unique" ELSE "not_found"]
  <2>1. UNCHANGED <<exec, sent>> /\ proc' = [proc EXCEPT ![c] = f]
    BY <1>2 DEF ServeLookup, durable, external
  <2>2. f.pc = "lookup" /\ proc[c].pc = "lookup"
    BY <1>0, <1>2 DEF ServeLookup, Frames
  <2>3. exec.state # "approval_required"
    BY <2>2 DEF BudgetInv, NothingBeforeApproval, Live, Called
  <2> HIDE DEF f
  <2> QED
    BY <2>1, <2>2, <2>3, FrameChange, BudgetKept
<1>3. CASE RecordReconciliation(c)
  <2>1. PICK o \in LookupOutcomes(c) : Journal(Reconciled(o), None)
    BY <1>3 DEF RecordReconciliation
  <2>2. UNCHANGED sent /\ proc' = [proc EXCEPT ![c] = Idle] /\ Idle.pc = "idle"
    BY <1>3 DEF RecordReconciliation, Return, external, Idle
  <2>3. /\ Reconciled(o).state \notin {"approval_required", "approved"}
        /\ Reconciled(o).retry = exec.retry
    BY <1>0 DEF Reconciled, Executions
  <2> QED
    BY <2>1, <2>2, <2>3, BudgetMoved
<1>4. CASE DiscardReconciliation(c)
  <2>1. UNCHANGED <<exec, sent>> /\ proc' = [proc EXCEPT ![c] = Idle] /\ Idle.pc = "idle"
    BY <1>4 DEF DiscardReconciliation, Return, durable, external, Idle
  <2>2. exec.state # "approval_required"
    BY <1>4 DEF DiscardReconciliation, BudgetInv, NothingBeforeApproval, Live, Called
  <2> QED
    BY <2>1, <2>2, FrameChange, BudgetKept
<1> QED
  BY <1>1, <1>2, <1>3, <1>4

(* resumeSafely gives out a permit only where the approval or the retry pays for it. *)
LEMMA BudgetResume ==
    ASSUME TypeInv, TypeInv', BudgetInv, NEW c \in Callers,
           \/ ResumePersisted(c) \/ ResumeObserved(c) \/ ResumeApproved(c)
           \/ ResumeUnique(c) \/ ResumeNotFound(c)
    PROVE  BudgetInv'
<1>0. exec \in Executions /\ proc \in [Callers -> Frames] /\ proc[c] \in Frames
  BY DEF TypeInv, TypeOK
<1>1. CASE ResumePersisted(c)
  <2> DEFINE e == [exec EXCEPT !.state = "completed"]
  <2>1. Journal(e, None) /\ UNCHANGED sent /\ proc' = [proc EXCEPT ![c] = Idle]
    BY <1>1 DEF ResumePersisted, Return, external
  <2>2. e.state = "completed" /\ e.retry = exec.retry /\ Idle.pc = "idle"
    BY <1>0 DEF Executions, Idle
  <2> HIDE DEF e
  <2> QED
    BY <2>1, <2>2, BudgetMoved
<1>2. CASE ResumeObserved(c)
  <2> DEFINE f == [proc[c] EXCEPT !.pc = "persist", !.seen = None,
                                  !.result = proc[c].seen.observation]
  <2>1. /\ UNCHANGED <<exec, sent>> /\ proc' = [proc EXCEPT ![c] = f]
        /\ exec.state = "downstream_result_observed"
    BY <1>2 DEF ResumeObserved, external
  <2>2. f.pc = "persist"
    BY <1>0 DEF Frames
  <2> HIDE DEF f
  <2> QED
    BY <2>1, <2>2, FrameChange, BudgetKept
<1>3. CASE ResumeApproved(c)
  <2> DEFINE e == [exec EXCEPT !.state = "downstream_request_prepared",
                               !.attempt = proc[c].attempt]
             f == [proc[c] EXCEPT !.pc = "authority", !.seen = None]
  <2>1. exec' = e /\ UNCHANGED sent /\ proc' = [proc EXCEPT ![c] = f]
    BY <1>3 DEF ResumeApproved, Journal, external
  <2>2. e.state = "downstream_request_prepared" /\ e.retry = exec.retry /\ e.retry \in Nat
    BY <1>0 DEF Executions
  <2>3. Holders = {} /\ sent = {}
    BY <1>3 DEF ResumeApproved, BudgetInv, NothingBeforeApproval
  <2> HIDE DEF e, f
  <2> QED
    BY <2>1, <2>2, <2>3, FrameChange, PermitGiven DEF BudgetInv, NothingBeforeApproval
<1>4. CASE ResumeUnique(c)
  <2> DEFINE e == [exec EXCEPT !.state = "recovery_in_progress", !.attempt = proc[c].attempt]
             f == [proc[c] EXCEPT !.pc = "authority", !.seen = None, !.recovered = TRUE]
  <2>1. Journal(e, None) /\ UNCHANGED sent /\ proc' = [proc EXCEPT ![c] = f]
    BY <1>4 DEF ResumeUnique, external
  <2>2. e.state = "recovery_in_progress" /\ e.retry = exec.retry /\ f.recovered
    BY <1>0 DEF Executions, Frames
  <2> HIDE DEF e, f
  <2> QED
    BY <2>1, <2>2, BudgetMoved
<1>5. CASE ResumeNotFound(c)
  <2> DEFINE e == [exec EXCEPT !.state = "downstream_request_prepared", !.retry = 1,
                               !.attempt = proc[c].attempt]
             f == [proc[c] EXCEPT !.pc = "authority", !.seen = None]
  <2>1. /\ exec' = e /\ UNCHANGED sent /\ proc' = [proc EXCEPT ![c] = f]
        /\ exec.retry = 0
    BY <1>5 DEF ResumeNotFound, Journal
  <2>2. e.state = "downstream_request_prepared" /\ e.retry = 1
    BY <1>0 DEF Executions
  <2> HIDE DEF e, f
  <2>3. Holders' \subseteq Holders \cup {c}
    BY <2>1, FrameChange
  <2>4. exec.retry \in Nat /\ exec'.retry \in Nat /\ exec'.retry = exec.retry + 1
    BY <2>1, <2>2
  <2>5. PermitsCounted'
    BY <2>1, <2>3, <2>4, PermitGiven DEF BudgetInv
  <2> QED
    BY <2>1, <2>2, <2>5 DEF BudgetInv, NothingBeforeApproval
<1> QED
  BY <1>1, <1>2, <1>3, <1>4, <1>5

(* Every step keeps the budget. *)
LEMMA BudgetStep == TypeInv /\ TypeInv' /\ BudgetInv /\ [Next]_vars => BudgetInv'
<1> SUFFICES ASSUME TypeInv, TypeInv', BudgetInv, [Next]_vars PROVE BudgetInv'
  OBVIOUS
<1>1. CASE UNCHANGED vars
  BY <1>1 DEF vars, BudgetInv, NothingBeforeApproval, PermitsCounted, Holders, Live, Called
<1>2. CASE \E a \in wire : ServeCreate(a) \/ ServeRefuse(a) \/ LoseRequest(a)
  BY <1>2 DEF ServeCreate, ServeRefuse, LoseRequest, durable, BudgetInv,
     NothingBeforeApproval, PermitsCounted, Holders, Live, Called
<1>3. CASE \E dead \in SUBSET Callers : Crash(dead)
  <2>1. PICK dead \in SUBSET Callers : Crash(dead)
    BY <1>3
  <2>2. UNCHANGED <<exec, sent>> /\ \A d \in Callers : proc'[d] \in {Idle, proc[d]}
    BY <2>1 DEF Crash, durable, external
  <2>3. Idle.pc = "idle"
    BY DEF Idle
  <2>4. Holders' \subseteq Holders
    BY <2>2, <2>3 DEF Holders
  <2>5. exec.state = "approval_required" =>
          \A d \in Callers : (~Live(d) \/ Called(d, "approve"))'
    BY <2>2, <2>3 DEF BudgetInv, NothingBeforeApproval, Live, Called
  <2> QED
    BY <2>2, <2>4, <2>5, BudgetKept
<1> QED
  BY <1>1, <1>2, <1>3, BudgetApprove, BudgetOutcome, BudgetReconcile, BudgetResume
     DEF Next, Continue, AutoPoster

(* However many callers, processes and crashes: at most one request leaves for
   the approval, and one more for the recorded retry. *)
THEOREM BudgetCorrect == Spec => []DispatchBudget
<1>1. TypeInv /\ BudgetInv => DispatchBudget
  <2> SUFFICES ASSUME TypeInv, BudgetInv PROVE DispatchBudget
    OBVIOUS
  <2>1. /\ Cardinality(Holders) \in Nat /\ Cardinality(sent) \in Nat
        /\ exec.retry \in Nat
    BY FS_CardinalityType DEF BudgetInv, PermitsCounted, TypeInv, TypeOK, Executions
  <2> QED
    BY <2>1 DEF BudgetInv, PermitsCounted, DispatchBudget
<1> QED
  BY InitTypes, StepTypes, InitBudget, BudgetStep, <1>1, PTL DEF Spec

-----------------------------------------------------------------------------
(* The mission implements DraftPromise. *)

(* The initial mission is the initial promise. *)
LEMMA PromiseInit == Init => Promise!Init
  BY FS_EmptySet DEF Init, Promise!Init, Phase, Permits

(* Every step but an approval, a granted retry, a dispatch and a served create
   keeps permits, dispatches and draft, and approves nothing. *)
KeepsGrants ==
    /\ UNCHANGED <<sent, draft>> /\ exec'.retry = exec.retry
    /\ exec'.state = "approval_required" <=> exec.state = "approval_required"

(* Executing, recording outcomes and stopping. *)
LEMMA OutcomeKeepsGrants ==
    ASSUME TypeInv, BudgetInv, NEW c \in Callers,
           \/ StartExecution(c) \/ PrepareRequest(c) \/ ObserveResult(c) \/ RecordFailure(c)
           \/ PersistResult(c) \/ CompleteMission(c) \/ StopAndEscalate(c)
    PROVE  KeepsGrants
<1>0. exec \in Executions
  BY DEF TypeInv, TypeOK
<1>1. proc[c].pc # "idle" /\ ~Called(c, "approve") => exec.state # "approval_required"
  BY DEF BudgetInv, NothingBeforeApproval, Live
<1> USE <1>0, <1>1 DEF Executions, Journal, Called, external, KeepsGrants
<1>2. CASE StartExecution(c)
  BY <1>2 DEF StartExecution
<1>3. CASE PrepareRequest(c)
  BY <1>3 DEF PrepareRequest
<1>4. CASE ObserveResult(c)
  BY <1>4 DEF ObserveResult, ResultsFor, Outcomes
<1>5. CASE RecordFailure(c)
  BY <1>5 DEF RecordFailure, FailedState, ResultsFor, Outcomes
<1>6. CASE PersistResult(c)
  BY <1>6 DEF PersistResult
<1>7. CASE CompleteMission(c)
  BY <1>7 DEF CompleteMission
<1>8. CASE StopAndEscalate(c)
  BY <1>8 DEF StopAndEscalate
<1> QED
  BY <1>2, <1>3, <1>4, <1>5, <1>6, <1>7, <1>8

(* Reconciling and resuming. *)
LEMMA RecoveryKeepsGrants ==
    ASSUME TypeInv, BudgetInv, NEW c \in Callers,
           \/ ClaimReconciliation(c) \/ RecordReconciliation(c) \/ ResumePersisted(c)
           \/ ResumeObserved(c) \/ ResumeApproved(c) \/ ResumeUnique(c)
    PROVE  KeepsGrants
<1>0. exec \in Executions
  BY DEF TypeInv, TypeOK
<1>1. proc[c].pc # "idle" /\ ~Called(c, "approve") => exec.state # "approval_required"
  BY DEF BudgetInv, NothingBeforeApproval, Live
<1> USE <1>0, <1>1 DEF Executions, Journal, Called, external, KeepsGrants
<1>2. CASE ClaimReconciliation(c)
  BY <1>2 DEF ClaimReconciliation
<1>3. CASE RecordReconciliation(c)
  <2>1. PICK o \in LookupOutcomes(c) : exec' = Reconciled(o)
    BY <1>3 DEF RecordReconciliation
  <2>2. Reconciled(o).state # "approval_required" /\ Reconciled(o).retry = exec.retry
    BY DEF Reconciled
  <2> QED
    BY <1>3, <2>1, <2>2 DEF RecordReconciliation
<1>4. CASE ResumePersisted(c)
  BY <1>4 DEF ResumePersisted
<1>5. CASE ResumeObserved(c)
  BY <1>5 DEF ResumeObserved
<1>6. CASE ResumeApproved(c)
  BY <1>6 DEF ResumeApproved
<1>7. CASE ResumeUnique(c)
  BY <1>7 DEF ResumeUnique
<1> QED
  BY <1>2, <1>3, <1>4, <1>5, <1>6, <1>7

(* Calls, waits, refusals, lost requests and crashes. *)
LEMMA QuietKeepsGrants ==
    ASSUME \/ \E c \in Callers :
                \/ Call(c) \/ AuthorityGranted(c) \/ DiscardOutcome(c) \/ ServeLookup(c)
                \/ DiscardReconciliation(c) \/ Refuse(c)
           \/ \E a \in wire : ServeRefuse(a) \/ LoseRequest(a)
           \/ \E dead \in SUBSET Callers : Crash(dead)
           \/ UNCHANGED vars
    PROVE  KeepsGrants
  BY DEF Call, Replay, CallApprove, CallRecovery, AuthorityGranted, DiscardOutcome, ServeLookup,
     DiscardReconciliation, Refuse, ServeRefuse, LoseRequest, Crash, vars, durable, external,
     KeepsGrants

(* Such a step leaves the promise alone, or ends a mission that was working. *)
LEMMA KeptPromise ==
    ASSUME TypeInv, EvidenceInv', StepKeepsFinal, KeepsGrants
    PROVE  [Promise!Next]_Promise!vars
<1>1. Permits' = Permits /\ Cardinality(sent)' = Cardinality(sent) /\ draft' = draft
  BY DEF KeepsGrants, Permits
<1>2. CASE exec.state \in Final
  <2>1. Phase' = Phase
    BY <1>2 DEF StepKeepsFinal, Phase
  <2> QED
    BY <1>1, <2>1 DEF Promise!vars
<1>3. CASE exec.state = "approval_required"
  <2>1. Phase' = Phase
    BY <1>3 DEF KeepsGrants, Phase
  <2> QED
    BY <1>1, <2>1 DEF Promise!vars
<1>4. CASE exec.state \notin Final \cup {"approval_required"}
  <2>1. Phase = "working"
    BY <1>4 DEF Phase, Final
  <2>2. \/ Phase' = "working"
        \/ Phase' = "completed" /\ draft
        \/ Phase' = "stopped"
    BY <1>1, <1>4 DEF KeepsGrants, Phase, EvidenceInv
  <2> QED
    BY <1>1, <2>1, <2>2 DEF Promise!vars, Promise!Next, Promise!End
<1> QED
  BY <1>2, <1>3, <1>4

(* Every step of the mission is a step of the promise or a stutter. *)
LEMMA PromiseStep ==
    ASSUME TypeInv, EvidenceInv, EvidenceInv', BudgetInv, CompletedInv, [Next]_vars
    PROVE  [Promise!Next]_Promise!vars
<1>0. exec \in Executions
  BY DEF TypeInv, TypeOK
<1>1. ASSUME NEW c \in Callers, Approve(c)
      PROVE  Promise!Approve
  <2>1. /\ exec' = [exec EXCEPT !.state = "approved"] /\ UNCHANGED <<sent, draft>>
        /\ "approved" \in Allowed[exec.state]
    BY <1>1 DEF Approve, Journal, external
  <2>2. exec.state = "approval_required" /\ exec.retry = 0
    BY <1>0, <2>1, AllowedFacts DEF Executions, BudgetInv, NothingBeforeApproval
  <2>3. exec'.state = "approved" /\ exec'.retry = 0
    BY <1>0, <2>1, <2>2 DEF Executions
  <2> QED
    BY <2>1, <2>2, <2>3 DEF Promise!Approve, Phase, Permits
<1>2. ASSUME NEW c \in Callers, ResumeNotFound(c)
      PROVE  Promise!GrantRetry
  <2>1. /\ exec' = [exec EXCEPT !.state = "downstream_request_prepared", !.retry = 1,
                                !.attempt = proc[c].attempt]
        /\ exec.state = "failed_recoverable" /\ exec.retry = 0 /\ UNCHANGED <<sent, draft>>
    BY <1>2 DEF ResumeNotFound, Journal
  <2>2. exec'.state = "downstream_request_prepared" /\ exec'.retry = 1
    BY <1>0, <2>1 DEF Executions
  <2> QED
    BY <2>1, <2>2 DEF Promise!GrantRetry, Phase, Permits
<1>3. ASSUME NEW c \in Callers, RuntimeDispatch(c)
      PROVE  [Promise!Next]_Promise!vars
  <2> DEFINE a == proc[c].attempt
  <2>1. /\ c \in Holders /\ exec' = exec /\ draft' = draft
        /\ sent' = sent \cup {a} /\ IsFiniteSet(sent) /\ IsFiniteSet(Holders)
    BY <1>3 DEF RuntimeDispatch, Holders, durable, BudgetInv, PermitsCounted
  <2> HIDE DEF a
  <2>2. /\ Cardinality(sent) \in Nat
        /\ Cardinality(sent') \in {Cardinality(sent), Cardinality(sent) + 1}
    BY <2>1, FS_AddElement, FS_CardinalityType
  <2>3. Cardinality(Holders) \in Nat /\ Cardinality(Holders) # 0
    BY <2>1, FS_EmptySet, FS_CardinalityType
  <2>4. exec.state # "approval_required" /\ exec.retry \in Nat
    BY <1>0, <2>1 DEF Executions, BudgetInv, NothingBeforeApproval
  <2>5. Cardinality(sent) < 1 + exec.retry
    BY <2>2, <2>3, <2>4 DEF BudgetInv, PermitsCounted
  <2>6. Permits = 1 + exec.retry /\ Permits' = Permits /\ Phase' = Phase
    BY <2>1, <2>4 DEF Permits, Phase
  <2> QED
    BY <2>1, <2>2, <2>5, <2>6 DEF Promise!Next, Promise!Dispatch, Promise!vars
<1>4. ASSUME NEW a \in wire, ServeCreate(a)
      PROVE  Promise!CreateDraft
  <2>1. a \in sent /\ IsFiniteSet(sent)
    BY <1>4 DEF EvidenceInv, BudgetInv, PermitsCounted
  <2>2. Cardinality(sent) > 0
    BY <2>1, FS_EmptySet, FS_CardinalityType
  <2>3. UNCHANGED <<exec, sent>> /\ draft' = TRUE
    BY <1>4 DEF ServeCreate, durable
  <2> QED
    BY <2>2, <2>3 DEF Promise!CreateDraft, Phase, Permits
<1>5. StepKeepsFinal
  BY FinalStep
<1>6. KeepsGrants => [Promise!Next]_Promise!vars
  BY <1>5, KeptPromise
<1> QED
  BY <1>1, <1>2, <1>3, <1>4, <1>6, OutcomeKeepsGrants, RecoveryKeepsGrants, QuietKeepsGrants
     DEF Next, Continue, AutoPoster, Promise!Next

(* The mission, with all its tables, calls and recovery, is DraftPromise. *)
THEOREM PromiseKept == Spec => KeepsPromise
<1>1. Init => CompletedInv
  BY DEF Init, CompletedInv
<1>2. TypeInv /\ CompletedInv /\ [Next]_vars => CompletedInv'
  BY FinalStep DEF StepKeepsFinal
<1>3. TypeInv /\ EvidenceInv /\ EvidenceInv' /\ BudgetInv /\ CompletedInv /\ [Next]_vars
        => [Promise!Next]_Promise!vars
  BY PromiseStep
<1> QED
  BY InitTypes, StepTypes, InitEvidence, EvidenceStep, InitBudget, BudgetStep, PromiseInit,
     <1>1, <1>2, <1>3, PTL DEF Spec, KeepsPromise, Promise!Spec
-----------------------------------------------------------------------------
(* RecordsAgree: in one process, row, journal and ledger of a mission tell  *)
(* one story, for any number of callers, attempts and crashes.              *)

(* What makes a completion provable later: every state was journaled under  *)
(* its attempt, an observed one under an attempt that had started, and the  *)
(* result a finished mission holds is the verified one it observed.         *)
Observed == {"downstream_result_observed", "result_persisted", "completed"}
Started ==
    \E s \in {"execution_started", "downstream_request_prepared", "recovery_in_progress"} :
       <<s, exec.attempt>> \in journal
Provable ==
    /\ <<exec.state, exec.attempt>> \in journal
    /\ exec.state \in Observed => exec.queueId # None /\ Started
    /\ exec.state = "downstream_result_observed" =>
         exec.observation = None \/ Verified(exec.observation)
    /\ exec.state \in {"result_persisted", "completed"} =>
         /\ row.result # None /\ row.result = exec.observation /\ Verified(row.result)
         /\ exec.finalStatus = ResultStatus(row.result)
         /\ <<"result_persisted", exec.attempt>> \in journal

(* What a call in a synchronous stretch knows of the execution: nobody else *)
(* runs there.  A lookup is only asked about an approved mission.           *)
Holds(f, e) ==
    /\ f.pc = "called" /\ f.op = "approve" => f.by \in Approvers
    /\ f.pc = "called" /\ f.op # "approve" => f.seen = e /\ f.op \in Permitted(e)
    /\ f.pc = "start" => e.state = "approved"
    /\ f.pc = "prepare" => e.state = "execution_started"
    /\ f.pc = "persist" => e.state = "downstream_result_observed" /\ f.result = e.observation
    /\ f.pc = "complete" => e.state = "result_persisted"
    /\ f.pc = "lookup" => e.state # "approval_required"
OneSync ==
    \A c, d \in Callers : proc[c].pc \in SyncPoints /\ proc[d].pc \in SyncPoints => c = d
FramesHold == OneSync /\ \A c \in Callers : Holds(proc[c], exec)

Story == LedgerAgreesWithJournal /\ RowAgreesWithJournal /\ Provable
RecordsInv == Story /\ FramesHold

-----------------------------------------------------------------------------
(* The initial mission is one story, and nobody works on it. *)
LEMMA InitRecords == Init => RecordsInv
<1> SUFFICES ASSUME Init PROVE RecordsInv
  OBVIOUS
<1> USE ConstantsAssumption DEF Init
<1>1. LedgerAgreesWithJournal /\ RowAgreesWithJournal
  BY DEF LedgerAgreesWithJournal, RowAgreesWithJournal
<1>2. Provable
  BY DEF Provable, Observed
<1>3. FramesHold
  BY DEF FramesHold, OneSync, Holds, Idle, SyncPoints
<1> QED
  BY <1>1, <1>2, <1>3 DEF RecordsInv, Story

(* In one process only the caller whose turn it is can be in a synchronous
   stretch after its step, and approval is never taken back. *)
LEMMA CallerHolds ==
    ASSUME TypeInv, FramesHold, ~SharedDatabase, NEW c \in Callers, Turn(c),
           \A d \in Callers \ {c} : proc'[d] = proc[d],
           exec'.state = "approval_required" => exec.state = "approval_required",
           Holds(proc'[c], exec')
    PROVE  FramesHold'
<1>1. \A d \in Callers \ {c} : proc'[d].pc \notin SyncPoints
  BY DEF Turn
<1>2. OneSync'
  BY <1>1 DEF OneSync
<1>3. ASSUME NEW d \in Callers \ {c} PROVE Holds(proc'[d], exec')
  BY <1>1, <1>3 DEF Holds, FramesHold, SyncPoints
<1> QED
  BY <1>2, <1>3 DEF FramesHold

(* A step in which nobody enters a synchronous stretch and the records stay. *)
LEMMA QuietHolds ==
    ASSUME FramesHold, UNCHANGED exec,
           \A d \in Callers : \/ proc'[d] = proc[d]
                              \/ proc'[d].pc = "lookup" /\ proc[d].pc = "lookup"
                              \/ proc'[d].pc \in {"idle", "sent"}
    PROVE  FramesHold'
<1>1. OneSync'
  BY DEF OneSync, FramesHold, SyncPoints
<1>2. ASSUME NEW d \in Callers PROVE Holds(proc'[d], exec')
  BY DEF Holds, FramesHold
<1> QED
  BY <1>1, <1>2 DEF FramesHold

(* The records that only a write to them can make disagree. *)
LEMMA StoryStays == ASSUME Story, UNCHANGED durable PROVE Story'
  BY DEF Story, LedgerAgreesWithJournal, RowAgreesWithJournal, Provable, Observed, Started,
     durable

(* A call that returns. *)
LEMMA ReturnHolds ==
    ASSUME TypeInv, FramesHold, ~SharedDatabase, NEW c \in Callers, Turn(c), Return(c),
           exec'.state = "approval_required" => exec.state = "approval_required"
    PROVE  FramesHold'
<1>1. proc'[c] = Idle /\ \A d \in Callers \ {c} : proc'[d] = proc[d]
  BY DEF Return, TypeInv, TypeOK
<1>2. Holds(proc'[c], exec')
  BY <1>1 DEF Holds, Idle
<1> QED
  BY <1>1, <1>2, CallerHolds

(* A call that only moves its program counter. *)
LEMMA GotoHolds ==
    ASSUME TypeInv, FramesHold, ~SharedDatabase, NEW c \in Callers, Turn(c), NEW pc,
           Goto(c, pc),
           exec'.state = "approval_required" => exec.state = "approval_required",
           \/ pc = "start" /\ exec'.state = "approved"
           \/ pc = "prepare" /\ exec'.state = "execution_started"
           \/ pc = "complete" /\ exec'.state = "result_persisted"
           \/ pc \in {"authority", "execute", "sent"}
    PROVE  FramesHold'
<1>1. proc'[c].pc = pc /\ \A d \in Callers \ {c} : proc'[d] = proc[d]
  BY DEF Goto, TypeInv, TypeOK, Frames
<1>2. Holds(proc'[c], exec')
  BY <1>1 DEF Holds
<1> QED
  BY <1>1, <1>2, CallerHolds

(* A journal step: its record is written, no mission returns to before its
   approval, and a state that is not an observed one is provable as it is. *)
LEMMA Recorded ==
    ASSUME TypeInv, NEW e \in Executions, NEW via \in {None} \cup States, Journal(e, via)
    PROVE  /\ exec' = e /\ exec'.state # "approval_required"
           /\ <<exec'.state, exec'.attempt>> \in journal' /\ journal \subseteq journal'
           /\ via = None => e.state \in Allowed[exec.state]
           /\ e.state \notin Observed => Provable'
<1>1. exec' = e /\ <<exec'.state, exec'.attempt>> \in journal' /\ journal \subseteq journal'
  BY DEF Journal
<1>2. via = None => e.state \in Allowed[exec.state]
  BY DEF Journal
<1>3. exec.state \in States /\ (via = None \/ via \in States)
  BY DEF TypeInv, TypeOK, Executions
<1>4. e.state # "approval_required"
  BY <1>3, AllowedFacts DEF Journal
<1>5. e.state \notin Observed => Provable'
  BY <1>1 DEF Provable, Observed
<1> QED
  BY <1>1, <1>2, <1>4, <1>5

-----------------------------------------------------------------------------
(* approveAndExecute. *)
LEMMA ApproveRecords ==
    ASSUME TypeInv, RecordsInv, ~SharedDatabase, NEW c \in Callers,
           Approve(c) \/ StartExecution(c) \/ PrepareRequest(c)
    PROVE  RecordsInv'
<1>0. exec \in Executions /\ row \in Rows /\ Holds(proc[c], exec) /\ Story /\ FramesHold
  BY DEF TypeInv, TypeOK, RecordsInv, FramesHold
<1>1. CASE Approve(c)
  <2> DEFINE e == [exec EXCEPT !.state = "approved"]
  <2>1. e \in Executions /\ e.state = "approved"
    BY <1>0 DEF Executions, States
  <2>2. Journal(e, None) /\ Turn(c) /\ Goto(c, "start")
    BY <1>1 DEF Approve
  <2>3. exec'.state = "approved" /\ Provable'
    BY <2>1, <2>2, Recorded DEF Observed
  <2>4. row'.status = "executing" /\ row'.result = None /\ row'.approvedBy # None
    BY <1>0, <1>1, ConstantsAssumption DEF Approve, Rows, Holds
  <2>5. LedgerAgreesWithJournal' /\ RowAgreesWithJournal'
    BY <1>1, <2>3, <2>4 DEF Approve, Ledger, LedgerAgreesWithJournal, RowAgreesWithJournal
  <2>6. FramesHold'
    BY <1>0, <2>2, <2>3, GotoHolds
  <2> QED
    BY <2>3, <2>5, <2>6 DEF RecordsInv, Story
<1>2. CASE StartExecution(c)
  <2> DEFINE e == [exec EXCEPT !.state = "execution_started"]
  <2>1. e \in Executions /\ e.state = "execution_started"
    BY <1>0 DEF Executions, States
  <2>2. Journal(e, None) /\ Turn(c) /\ Goto(c, "prepare")
    BY <1>2 DEF StartExecution
  <2>3. exec'.state = "execution_started" /\ Provable'
    BY <2>1, <2>2, Recorded DEF Observed
  <2>4. exec.state = "approved"
    BY <1>0, <1>2 DEF StartExecution, Holds
  <2>5. LedgerAgreesWithJournal' /\ RowAgreesWithJournal'
    BY <1>0, <1>2, <2>3, <2>4
       DEF StartExecution, Ledger, Story, LedgerAgreesWithJournal, RowAgreesWithJournal
  <2>6. FramesHold'
    BY <1>0, <2>2, <2>3, GotoHolds
  <2> QED
    BY <2>3, <2>5, <2>6 DEF RecordsInv, Story
<1>3. CASE PrepareRequest(c)
  <2> DEFINE e == [exec EXCEPT !.state = "downstream_request_prepared"]
  <2>1. e \in Executions /\ e.state = "downstream_request_prepared"
    BY <1>0 DEF Executions, States
  <2>2. Journal(e, None) /\ Turn(c) /\ Goto(c, "authority")
    BY <1>3 DEF PrepareRequest
  <2>3. exec'.state = "downstream_request_prepared" /\ Provable'
    BY <2>1, <2>2, Recorded DEF Observed
  <2>4. exec.state = "execution_started"
    BY <1>0, <1>3 DEF PrepareRequest, Holds
  <2>5. LedgerAgreesWithJournal' /\ RowAgreesWithJournal'
    BY <1>0, <1>3, <2>3, <2>4
       DEF PrepareRequest, Story, LedgerAgreesWithJournal, RowAgreesWithJournal
  <2>6. FramesHold'
    BY <1>0, <2>2, <2>3, GotoHolds
  <2> QED
    BY <2>3, <2>5, <2>6 DEF RecordsInv, Story
<1> QED
  BY <1>1, <1>2, <1>3

-----------------------------------------------------------------------------
(* Two calls that write the same states: a failure, and an observed draft. *)
LEMMA FailureTold ==
    ASSUME TypeInv, Story, exec.state # "approval_required", Provable',
           row'.approvedBy = row.approvedBy, row'.status # "approval_required",
           \/ exec'.state = "failed_terminal" /\ ledger' = "failed"
           \/ exec'.state \in {"failed_recoverable", "reconciliation_required"}
                /\ ledger' = "reconciliation_required"
    PROVE  Story'
<1>1. LedgerAgreesWithJournal'
  BY DEF LedgerAgreesWithJournal
<1>2. RowAgreesWithJournal'
  BY DEF Story, RowAgreesWithJournal
<1> QED
  BY <1>1, <1>2 DEF Story

LEMMA ObservationTold ==
    ASSUME TypeInv, Story, NEW e \in Executions, Journal(e, None),
           e.state = "downstream_result_observed", e.attempt = exec.attempt,
           e.queueId = "post", e.observation = None \/ Verified(e.observation),
           ledger' = "validating", UNCHANGED row
    PROVE  Story' /\ exec' = e
<1>1. /\ exec' = e /\ <<exec'.state, exec'.attempt>> \in journal' /\ journal \subseteq journal'
      /\ "downstream_result_observed" \in Allowed[exec.state]
  BY Recorded
<1>2. exec.state \in {"downstream_request_prepared", "recovery_in_progress"}
  BY <1>1 DEF Allowed, States, TypeInv, TypeOK, Executions
<1>3. Started'
  BY <1>1, <1>2 DEF Story, Provable, Started
<1>4. Provable'
  BY <1>1, <1>3, NullAssumption DEF Provable
<1>5. LedgerAgreesWithJournal'
  BY <1>1 DEF LedgerAgreesWithJournal
<1>6. RowAgreesWithJournal'
  BY <1>1, <1>2 DEF Story, RowAgreesWithJournal
<1> QED
  BY <1>1, <1>4, <1>5, <1>6 DEF Story

(* A persisted result closes the mission. *)
LEMMA CompletionTold ==
    ASSUME TypeInv, Story, exec.state = "result_persisted", UNCHANGED row,
           Journal([exec EXCEPT !.state = "completed"], None), Ledger("completed")
    PROVE  Story' /\ exec'.state = "completed"
<1> DEFINE e == [exec EXCEPT !.state = "completed"]
<1>1. /\ e \in Executions /\ e.state = "completed" /\ e.attempt = exec.attempt
      /\ e.queueId = exec.queueId /\ e.observation = exec.observation
      /\ e.finalStatus = exec.finalStatus
  BY DEF TypeInv, TypeOK, Executions, States
<1> HIDE DEF e
<1>2. exec' = e /\ <<exec'.state, exec'.attempt>> \in journal' /\ journal \subseteq journal'
  BY <1>1, Recorded DEF e
<1>3. Started'
  BY <1>1, <1>2 DEF Story, Provable, Observed, Started
<1>4. Provable'
  BY <1>1, <1>2, <1>3 DEF Story, Provable, Observed
<1>5. LedgerAgreesWithJournal'
  BY <1>1, <1>2 DEF LedgerAgreesWithJournal, Ledger
<1>6. RowAgreesWithJournal'
  BY <1>1, <1>2 DEF Story, RowAgreesWithJournal
<1> QED
  BY <1>1, <1>2, <1>4, <1>5, <1>6 DEF Story

(* persistRuntimeOutcome and persistObservedRuntimeResult. *)
LEMMA OutcomeRecords ==
    ASSUME TypeInv, RecordsInv, ~SharedDatabase, NEW c \in Callers,
           \/ ObserveResult(c) \/ RecordFailure(c) \/ DiscardOutcome(c)
           \/ PersistResult(c) \/ CompleteMission(c)
    PROVE  RecordsInv'
<1>0. exec \in Executions /\ row \in Rows /\ Holds(proc[c], exec) /\ Story /\ FramesHold
  BY DEF TypeInv, TypeOK, RecordsInv, FramesHold
<1>1. CASE ObserveResult(c)
  <2>1. PICK r \in ResultsFor(c) :
          /\ Verified(r)
          /\ Journal([exec EXCEPT !.state = "downstream_result_observed",
                                  !.queueId = "post", !.observation = r], None)
          /\ Ledger("validating")
          /\ proc' = [proc EXCEPT ![c] = [@ EXCEPT !.pc = "persist", !.result = r]]
    BY <1>1 DEF ObserveResult
  <2> DEFINE e == [exec EXCEPT !.state = "downstream_result_observed",
                               !.queueId = "post", !.observation = r]
  <2>2. r \in Results
    BY OutcomeType
  <2>3. /\ e \in Executions /\ e.state = "downstream_result_observed" /\ e.queueId = "post"
        /\ e.observation = r /\ e.attempt = exec.attempt
    BY <1>0, <2>2 DEF Executions, States
  <2>4. Journal(e, None)
    BY <2>1
  <2> HIDE DEF e
  <2>5. Story' /\ exec' = e
    BY <1>0, <1>1, <2>1, <2>3, <2>4, ObservationTold DEF ObserveResult, Ledger
  <2>6. /\ proc'[c].pc = "persist" /\ proc'[c].result = r
        /\ \A d \in Callers \ {c} : proc'[d] = proc[d]
    BY <2>1 DEF TypeInv, TypeOK, Frames
  <2>7. Holds(proc'[c], exec')
    BY <2>3, <2>5, <2>6 DEF Holds
  <2> QED
    BY <1>0, <1>1, <2>3, <2>5, <2>6, <2>7, CallerHolds DEF ObserveResult, RecordsInv
<1>2. CASE RecordFailure(c)
  <2>1. PICK r \in ResultsFor(c) :
          /\ row.status = "executing"
          /\ row' = [row EXCEPT !.status = ResultStatus(r), !.result = r]
          /\ Journal([exec EXCEPT !.state = FailedState(r), !.observation = r,
                                  !.finalStatus = ResultStatus(r)], None)
          /\ Ledger(IF FailedState(r) = "failed_terminal"
                      THEN "failed" ELSE "reconciliation_required")
    BY <1>2 DEF RecordFailure
  <2> DEFINE e == [exec EXCEPT !.state = FailedState(r), !.observation = r,
                               !.finalStatus = ResultStatus(r)]
  <2>2. r \in Results /\ ResultStatus(r) \in ResultStatuses
    BY OutcomeType, ResultStatusType
  <2>3. FailedState(r) \in {"failed_terminal", "failed_recoverable", "reconciliation_required"}
    BY DEF FailedState
  <2>4. e \in Executions /\ e.state = FailedState(r)
    BY <1>0, <2>2, <2>3 DEF Executions, States
  <2>5. Journal(e, None)
    BY <2>1
  <2> HIDE DEF e
  <2>6. exec' = e /\ exec'.state # "approval_required" /\ Provable'
    BY <2>3, <2>4, <2>5, Recorded DEF Observed
  <2>7. row'.approvedBy = row.approvedBy /\ row'.status # "approval_required"
    BY <1>0, <2>1, <2>2 DEF Rows, ResultStatuses
  <2>8. exec.state # "approval_required"
    BY <1>0, <2>1 DEF Story, RowAgreesWithJournal
  <2>9. Story'
    BY <1>0, <2>1, <2>3, <2>4, <2>6, <2>7, <2>8, FailureTold DEF Ledger
  <2> QED
    BY <1>0, <1>2, <2>6, <2>9, ReturnHolds DEF RecordFailure, RecordsInv
<1>3. CASE DiscardOutcome(c)
  BY <1>0, <1>3, StoryStays, ReturnHolds DEF DiscardOutcome, RecordsInv, durable
<1>4. CASE PersistResult(c)
  <2> DEFINE r == proc[c].result
             e == [exec EXCEPT !.state = "result_persisted", !.finalStatus = ResultStatus(r)]
  <2>1. exec.state = "downstream_result_observed" /\ r = exec.observation /\ r \in Results
    BY <1>0, <1>4 DEF PersistResult, Holds, TypeInv, FramesUsable
  <2>2. ResultStatus(r) \in ResultStatuses /\ r # None
    BY <2>1, ResultStatusType, NullAssumption
  <2>3. /\ e \in Executions /\ e.state = "result_persisted" /\ e.attempt = exec.attempt
        /\ e.queueId = exec.queueId /\ e.observation = exec.observation
        /\ e.finalStatus = ResultStatus(r)
    BY <1>0, <2>2 DEF Executions, States
  <2>4. /\ Journal(e, None) /\ Turn(c) /\ Goto(c, "complete") /\ UNCHANGED ledger
        /\ row' = [row EXCEPT !.status = ResultStatus(r), !.result = r]
    BY <1>4 DEF PersistResult
  <2> HIDE DEF r, e
  <2>5. exec' = e /\ <<exec'.state, exec'.attempt>> \in journal' /\ journal \subseteq journal'
    BY <2>3, <2>4, Recorded
  <2>6. row'.status = ResultStatus(r) /\ row'.result = r /\ row'.approvedBy = row.approvedBy
    BY <1>0, <2>4 DEF Rows
  <2>7. Started' /\ Verified(r)
    BY <1>0, <2>1, <2>2, <2>3, <2>5 DEF Story, Provable, Observed, Started
  <2>8. Provable'
    BY <1>0, <2>1, <2>2, <2>3, <2>5, <2>6, <2>7 DEF Story, Provable, Observed
  <2>9. LedgerAgreesWithJournal'
    BY <1>0, <2>1, <2>3, <2>4, <2>5 DEF Story, LedgerAgreesWithJournal
  <2>10. RowAgreesWithJournal'
    BY <1>0, <2>1, <2>2, <2>3, <2>5, <2>6 DEF Story, RowAgreesWithJournal, ResultStatuses
  <2>11. FramesHold'
    BY <1>0, <2>3, <2>4, <2>5, GotoHolds
  <2> QED
    BY <2>8, <2>9, <2>10, <2>11 DEF RecordsInv, Story
<1>5. CASE CompleteMission(c)
  <2>1. exec.state = "result_persisted"
    BY <1>0, <1>5 DEF CompleteMission, Holds
  <2>2. Story' /\ exec'.state = "completed"
    BY <1>0, <1>5, <2>1, CompletionTold DEF CompleteMission
  <2> QED
    BY <1>0, <1>5, <2>2, ReturnHolds DEF CompleteMission, RecordsInv
<1> QED
  BY <1>1, <1>2, <1>3, <1>4, <1>5

-----------------------------------------------------------------------------
(* reconcileMission, and the entry of every recovery. *)
LEMMA ReconcileRecords ==
    ASSUME TypeInv, RecordsInv, ~SharedDatabase, NEW c \in Callers,
           \/ ClaimReconciliation(c) \/ RecordReconciliation(c) \/ DiscardReconciliation(c)
           \/ \E op \in {"reconcile", "resume", "stop"} : CallRecovery(c, op)
           \/ \E by \in Approvers : CallApprove(c, by)
    PROVE  RecordsInv'
<1>0. exec \in Executions /\ row \in Rows /\ Holds(proc[c], exec) /\ Story /\ FramesHold
  BY DEF TypeInv, TypeOK, RecordsInv, FramesHold
<1>1. CASE ClaimReconciliation(c)
  <2> DEFINE e == [exec EXCEPT !.state = "recovery_in_progress", !.attempt = proc[c].attempt]
             via == IF exec.state \in {"failed_recoverable", "reconciliation_required"}
                      THEN None ELSE "failed_recoverable"
  <2>1. proc[c].attempt \in Attempts
    BY <1>1 DEF ClaimReconciliation, Called, Live, TypeInv, FramesUsable
  <2>2. e \in Executions /\ e.state = "recovery_in_progress"
    BY <1>0, <2>1 DEF Executions, States
  <2>3. Journal(e, via) /\ via \in {None} \cup States /\ Turn(c) /\ ledger' = "running"
    BY <1>1 DEF ClaimReconciliation, States, Ledger
  <2> HIDE DEF e, via
  <2>4. exec'.state = "recovery_in_progress" /\ Provable'
    BY <2>2, <2>3, Recorded DEF Observed
  <2>5. exec.state # "approval_required"
    BY <1>0, <1>1 DEF ClaimReconciliation, Called, Holds, Permitted
  <2>6. LedgerAgreesWithJournal' /\ RowAgreesWithJournal'
    BY <1>0, <1>1, <2>3, <2>4, <2>5
       DEF ClaimReconciliation, Story, LedgerAgreesWithJournal, RowAgreesWithJournal
  <2>7. proc'[c].pc = "lookup" /\ \A d \in Callers \ {c} : proc'[d] = proc[d]
    BY <1>1 DEF ClaimReconciliation, TypeInv, TypeOK, Frames
  <2>8. Holds(proc'[c], exec')
    BY <2>4, <2>7 DEF Holds
  <2> QED
    BY <1>0, <2>3, <2>4, <2>6, <2>7, <2>8, CallerHolds DEF RecordsInv, Story
<1>2. CASE RecordReconciliation(c)
  <2>1. PICK o \in LookupOutcomes(c) :
          /\ Journal(Reconciled(o), None)
          /\ Ledger(CASE o = "unique" -> "validating"
                      [] o \in {"not_found", "unavailable", "conflict"} ->
                           "reconciliation_required"
                      [] OTHER -> "failed")
    BY <1>2 DEF RecordReconciliation
  <2>2. Reconciled(o) \in Executions
    BY <1>0 DEF Reconciled, Executions, States, AllLookupFaults
  <2>3. exec.state # "approval_required"
    BY <1>0, <1>2 DEF RecordReconciliation, Holds
  <2>4. Story' /\ exec' = Reconciled(o)
    <3>1. CASE o = "unique"
      <4>1. /\ Reconciled(o).state = "downstream_result_observed"
            /\ Reconciled(o).queueId = "post" /\ Reconciled(o).observation = None
            /\ Reconciled(o).attempt = exec.attempt
        BY <1>0, <3>1 DEF Reconciled, Executions
      <4>2. ledger' = "validating"
        BY <2>1, <3>1 DEF Ledger
      <4> QED
        BY <1>0, <1>2, <2>1, <2>2, <4>1, <4>2, ObservationTold DEF RecordReconciliation
    <3>2. CASE o # "unique"
      <4>1. \/ Reconciled(o).state = "failed_terminal" /\ ledger' = "failed"
            \/ Reconciled(o).state \in {"failed_recoverable", "reconciliation_required"}
                 /\ ledger' = "reconciliation_required"
        BY <1>0, <2>1, <3>2 DEF Reconciled, Executions, Ledger
      <4>2. exec' = Reconciled(o) /\ Provable'
        BY <2>1, <2>2, <4>1, Recorded DEF Observed
      <4>3. row'.approvedBy = row.approvedBy /\ row'.status # "approval_required"
        BY <1>0, <1>2, <2>3 DEF RecordReconciliation, Story, RowAgreesWithJournal
      <4> QED
        BY <1>0, <2>3, <4>1, <4>2, <4>3, FailureTold
    <3> QED
      BY <3>1, <3>2
  <2> QED
    BY <1>0, <1>2, <2>3, <2>4, <2>1, <2>2, Recorded, ReturnHolds
       DEF RecordReconciliation, RecordsInv
<1>3. CASE DiscardReconciliation(c)
  BY <1>0, <1>3, StoryStays, ReturnHolds DEF DiscardReconciliation, RecordsInv, durable
<1>4. CASE \E op \in {"reconcile", "resume", "stop"} : CallRecovery(c, op)
  <2>1. PICK op \in {"reconcile", "resume", "stop"} : CallRecovery(c, op)
    BY <1>4
  <2>2. /\ proc'[c].pc = "called" /\ proc'[c].op = op /\ proc'[c].seen = exec
        /\ \A d \in Callers \ {c} : proc'[d] = proc[d]
    BY <2>1 DEF CallRecovery, Idle, TypeInv, TypeOK
  <2>3. Turn(c) /\ op \in Permitted(exec) /\ UNCHANGED durable
    BY <2>1 DEF CallRecovery
  <2>4. Holds(proc'[c], exec')
    BY <2>2, <2>3 DEF Holds, durable
  <2> QED
    BY <1>0, <2>2, <2>3, <2>4, StoryStays, CallerHolds DEF RecordsInv, durable
<1>5. CASE \E by \in Approvers : CallApprove(c, by)
  <2>1. PICK by \in Approvers : CallApprove(c, by)
    BY <1>5
  <2>2. /\ proc'[c].pc = "called" /\ proc'[c].op = "approve" /\ proc'[c].by = by
        /\ \A d \in Callers \ {c} : proc'[d] = proc[d]
    BY <2>1 DEF CallApprove, Idle, TypeInv, TypeOK
  <2>3. Turn(c) /\ UNCHANGED durable
    BY <2>1 DEF CallApprove
  <2>4. Holds(proc'[c], exec')
    BY <2>2 DEF Holds
  <2> QED
    BY <1>0, <2>2, <2>3, <2>4, StoryStays, CallerHolds DEF RecordsInv, durable
<1> QED
  BY <1>1, <1>2, <1>3, <1>4, <1>5

-----------------------------------------------------------------------------
(* resumeSafely hands its call to executePreparedMission: the row executes
   again, and the execution works, under the attempt of the call. *)
LEMMA WorkTold ==
    ASSUME TypeInv, Story, exec.state # "approval_required", RowExecuting, Provable',
           \/ exec'.state = "downstream_request_prepared" /\ ledger' = "running"
           \/ exec'.state = "recovery_in_progress" /\ ledger' \in {"running", "validating"}
    PROVE  Story'
<1>1. LedgerAgreesWithJournal'
  BY DEF LedgerAgreesWithJournal
<1>2. row'.status = "executing" /\ row'.result = None /\ row'.approvedBy = row.approvedBy
  BY DEF RowExecuting, TypeInv, TypeOK, Rows
<1>3. RowAgreesWithJournal'
  BY <1>2 DEF Story, RowAgreesWithJournal
<1> QED
  BY <1>1, <1>3 DEF Story

LEMMA ResumeRecords ==
    ASSUME TypeInv, RecordsInv, ~SharedDatabase, NEW c \in Callers,
           \/ ResumePersisted(c) \/ ResumeObserved(c) \/ ResumeApproved(c)
           \/ ResumeUnique(c) \/ ResumeNotFound(c)
    PROVE  RecordsInv'
<1>0. exec \in Executions /\ row \in Rows /\ Holds(proc[c], exec) /\ Story /\ FramesHold
  BY DEF TypeInv, TypeOK, RecordsInv, FramesHold
<1>1. Called(c, "resume") /\ Turn(c)
  BY DEF ResumePersisted, ResumeObserved, ResumeApproved, ResumeUnique, ResumeNotFound
<1>2. proc[c].seen = exec /\ proc[c].attempt \in Attempts
  BY <1>0, <1>1 DEF Called, Holds, Live, TypeInv, FramesUsable
<1>3. ASSUME exec'.state # "approval_required", Story',
             \/ proc' = [proc EXCEPT ![c] = [@ EXCEPT !.pc = "authority", !.seen = None]]
             \/ proc' = [proc EXCEPT ![c] = [@ EXCEPT !.pc = "authority", !.seen = None,
                                                      !.recovered = TRUE]]
      PROVE  RecordsInv'
  <2>0. proc \in [Callers -> Frames]
    BY DEF TypeInv, TypeOK
  <2>1. proc'[c].pc = "authority" /\ \A d \in Callers \ {c} : proc'[d] = proc[d]
    <3>1. CASE proc' = [proc EXCEPT ![c] = [@ EXCEPT !.pc = "authority", !.seen = None]]
      BY <2>0, <3>1 DEF Frames
    <3>2. CASE proc' = [proc EXCEPT ![c] = [@ EXCEPT !.pc = "authority", !.seen = None,
                                                     !.recovered = TRUE]]
      BY <2>0, <3>2 DEF Frames
    <3> QED
      BY <1>3, <3>1, <3>2
  <2>2. Holds(proc'[c], exec')
    BY <2>1 DEF Holds
  <2> QED
    BY <1>0, <1>1, <1>3, <2>1, <2>2, CallerHolds DEF RecordsInv
<1>4. CASE ResumePersisted(c)
  <2>1. exec.state = "result_persisted"
    BY <1>2, <1>4 DEF ResumePersisted
  <2>2. Story' /\ exec'.state = "completed"
    BY <1>0, <1>4, <2>1, CompletionTold DEF ResumePersisted
  <2> QED
    BY <1>0, <1>4, <2>2, ReturnHolds DEF ResumePersisted, RecordsInv
<1>5. CASE ResumeObserved(c)
  <2>1. /\ exec.state = "downstream_result_observed" /\ UNCHANGED <<exec, journal, ledger>>
        /\ RowExecuting
    BY <1>5 DEF ResumeObserved
  <2>2. /\ proc'[c].pc = "persist" /\ proc'[c].result = exec.observation
        /\ \A d \in Callers \ {c} : proc'[d] = proc[d]
    BY <1>2, <1>5 DEF ResumeObserved, TypeInv, TypeOK, Frames
  <2>3. row'.status = "executing" /\ row'.result = None /\ row'.approvedBy = row.approvedBy
    BY <1>0, <2>1 DEF RowExecuting, Rows
  <2>4. LedgerAgreesWithJournal' /\ RowAgreesWithJournal'
    BY <1>0, <2>1, <2>3 DEF Story, LedgerAgreesWithJournal, RowAgreesWithJournal
  <2>5. Provable'
    BY <1>0, <2>1 DEF Story, Provable, Observed, Started
  <2>6. Holds(proc'[c], exec')
    BY <2>1, <2>2 DEF Holds
  <2> QED
    BY <1>0, <1>1, <2>1, <2>2, <2>4, <2>5, <2>6, CallerHolds DEF RecordsInv, Story
<1>6. CASE ResumeApproved(c)
  <2> DEFINE e == [exec EXCEPT !.state = "downstream_request_prepared",
                               !.attempt = proc[c].attempt]
  <2>1. e \in Executions /\ e.state = "downstream_request_prepared"
    BY <1>0, <1>2 DEF Executions, States
  <2>2. Journal(e, "execution_started") /\ "execution_started" \in {None} \cup States
    BY <1>6 DEF ResumeApproved, States
  <2> HIDE DEF e
  <2>3. exec'.state = "downstream_request_prepared" /\ Provable'
    BY <2>1, <2>2, Recorded DEF Observed
  <2>4. Story'
    BY <1>0, <1>6, <2>3, WorkTold DEF ResumeApproved, Ledger
  <2> QED
    BY <1>3, <1>6, <2>3, <2>4 DEF ResumeApproved
<1>7. CASE ResumeUnique(c)
  <2> DEFINE e == [exec EXCEPT !.state = "recovery_in_progress", !.attempt = proc[c].attempt]
  <2>1. e \in Executions /\ e.state = "recovery_in_progress"
    BY <1>0, <1>2 DEF Executions, States
  <2>2. Journal(e, None)
    BY <1>7 DEF ResumeUnique
  <2> HIDE DEF e
  <2>3. exec'.state = "recovery_in_progress" /\ Provable'
    BY <2>1, <2>2, Recorded DEF Observed
  <2>4. exec.state = "downstream_result_observed" /\ ledger' = "validating"
    BY <1>0, <1>7 DEF ResumeUnique, Story, LedgerAgreesWithJournal
  <2>5. Story'
    BY <1>0, <1>7, <2>3, <2>4, WorkTold DEF ResumeUnique
  <2> QED
    BY <1>3, <1>7, <2>3, <2>5 DEF ResumeUnique
<1>8. CASE ResumeNotFound(c)
  <2> DEFINE e == [exec EXCEPT !.state = "downstream_request_prepared", !.retry = 1,
                               !.attempt = proc[c].attempt]
  <2>1. e \in Executions /\ e.state = "downstream_request_prepared"
    BY <1>0, <1>2 DEF Executions, States
  <2>2. Journal(e, "recovery_in_progress") /\ "recovery_in_progress" \in {None} \cup States
    BY <1>8 DEF ResumeNotFound, States
  <2> HIDE DEF e
  <2>3. exec'.state = "downstream_request_prepared" /\ Provable'
    BY <2>1, <2>2, Recorded DEF Observed
  <2>4. Story'
    BY <1>0, <1>8, <2>3, WorkTold DEF ResumeNotFound, Ledger
  <2> QED
    BY <1>3, <1>8, <2>3, <2>4 DEF ResumeNotFound
<1> QED
  BY <1>4, <1>5, <1>6, <1>7, <1>8

(* stopAndEscalate, and the calls that are refused or only wait. *)
LEMMA StopRecords ==
    ASSUME TypeInv, RecordsInv, ~SharedDatabase, NEW c \in Callers,
           \/ StopAndEscalate(c) \/ Refuse(c) \/ AuthorityGranted(c) \/ Replay(c)
           \/ RuntimeDispatch(c) \/ ServeLookup(c)
    PROVE  RecordsInv'
<1>0. exec \in Executions /\ row \in Rows /\ Holds(proc[c], exec) /\ Story /\ FramesHold
  BY DEF TypeInv, TypeOK, RecordsInv, FramesHold
<1>1. CASE StopAndEscalate(c)
  <2> DEFINE e == [exec EXCEPT !.state = "failed_terminal"]
  <2>1. e \in Executions /\ e.state = "failed_terminal"
    BY <1>0 DEF Executions, States
  <2>2. Journal(e, None)
    BY <1>1 DEF StopAndEscalate
  <2> HIDE DEF e
  <2>3. exec'.state = "failed_terminal" /\ Provable'
    BY <2>1, <2>2, Recorded DEF Observed
  <2>4. row'.status = "failed" /\ row'.approvedBy = row.approvedBy /\ ledger' = "failed"
    BY <1>0, <1>1 DEF StopAndEscalate, Rows, Ledger
  <2>5. exec.state # "approval_required"
    BY <1>0, <1>1 DEF StopAndEscalate, Called, Holds, Permitted
  <2>6. Story'
    BY <1>0, <2>3, <2>4, <2>5, FailureTold
  <2> QED
    BY <1>0, <1>1, <2>3, <2>6, ReturnHolds DEF StopAndEscalate, RecordsInv
<1>2. CASE Refuse(c)
  BY <1>0, <1>2, StoryStays, ReturnHolds DEF Refuse, RecordsInv, durable
<1>3. CASE AuthorityGranted(c)
  BY <1>0, <1>3, StoryStays, GotoHolds DEF AuthorityGranted, RecordsInv, durable
<1>4. CASE Replay(c)
  <2>1. UNCHANGED <<row, exec, journal, ledger, proc>>
    BY <1>4 DEF Replay
  <2>2. FramesHold'
    BY <1>0, <2>1, QuietHolds
  <2>3. Story'
    BY <1>0, <2>1 DEF Story, LedgerAgreesWithJournal, RowAgreesWithJournal, Provable,
       Observed, Started
  <2> QED
    BY <2>2, <2>3 DEF RecordsInv
<1>5. CASE RuntimeDispatch(c)
  <2>1. \A d \in Callers : proc'[d] = proc[d] \/ proc'[d].pc = "sent"
    BY <1>5 DEF RuntimeDispatch, Goto, TypeInv, TypeOK, Frames
  <2> QED
    BY <1>0, <1>5, <2>1, StoryStays, QuietHolds DEF RuntimeDispatch, RecordsInv, durable
<1>6. CASE ServeLookup(c)
  <2>1. \A d \in Callers :
          proc'[d] = proc[d] \/ (proc'[d].pc = "lookup" /\ proc[d].pc = "lookup")
    BY <1>6 DEF ServeLookup, TypeInv, TypeOK, Frames
  <2> QED
    BY <1>0, <1>6, <2>1, StoryStays, QuietHolds DEF ServeLookup, RecordsInv, durable
<1> QED
  BY <1>1, <1>2, <1>3, <1>4, <1>5, <1>6

(* AutoPoster's side, a crash, and a step of nobody write no record. *)
LEMMA EnvironmentRecords ==
    ASSUME TypeInv, RecordsInv,
           \/ UNCHANGED vars
           \/ \E a \in wire : ServeCreate(a) \/ ServeRefuse(a) \/ LoseRequest(a)
           \/ \E dead \in SUBSET Callers : Crash(dead)
    PROVE  RecordsInv'
<1>1. UNCHANGED durable
  BY DEF vars, durable, ServeCreate, ServeRefuse, LoseRequest, Crash
<1>2. \A d \in Callers : proc'[d] = proc[d] \/ proc'[d].pc = "idle"
  BY DEF vars, ServeCreate, ServeRefuse, LoseRequest, Crash, Idle
<1> QED
  BY <1>1, <1>2, StoryStays, QuietHolds DEF RecordsInv, durable

(* Every step keeps the story, and what the calls hold of it. *)
LEMMA RecordsStep ==
    ASSUME TypeInv, RecordsInv, ~SharedDatabase, [Next]_vars PROVE RecordsInv'
<1>1. ASSUME NEW c \in Callers, Call(c) \/ Continue(c) PROVE RecordsInv'
  BY <1>1, ApproveRecords, OutcomeRecords, ReconcileRecords, ResumeRecords, StopRecords
     DEF Call, Continue
<1>2. ASSUME NEW c \in Callers, ServeLookup(c) PROVE RecordsInv'
  BY <1>2, StopRecords
<1> QED
  BY <1>1, <1>2, EnvironmentRecords DEF Next, AutoPoster

(* The story is what RecordsAgree says: the last binding check finds all it
   asks for. *)
LEMMA RecordsImply == Story => RecordsAgree
<1> SUFFICES ASSUME Story PROVE CompletedIsReplayable
  BY DEF Story, RecordsAgree
<1>1. ASSUME exec.state = "completed" PROVE ReplayAccepts(row.approvedBy)
  BY <1>1 DEF Story, Provable, Observed, Started, ReplayAccepts
<1> QED
  BY <1>1 DEF CompletedIsReplayable

(* In one process the row, the journal and the ledger always tell one story,
   and a completed mission passes the binding check of a replay
   (persistRuntimeOutcome, reconcileMission, resumeSafely, stopAndEscalate). *)
THEOREM RecordsCorrect == ASSUME ~SharedDatabase PROVE Spec => []RecordsAgree
<1>1. Init => TypeInv /\ RecordsInv
  BY InitTypes, InitRecords
<1>2. TypeInv /\ RecordsInv /\ [Next]_vars => (TypeInv /\ RecordsInv)'
  BY StepTypes, RecordsStep
<1>3. RecordsInv => RecordsAgree
  BY RecordsImply DEF RecordsInv
<1> QED
  BY <1>1, <1>2, <1>3, PTL DEF Spec
-----------------------------------------------------------------------------
(* NeverStuck and IsAChild, in one process or several.  Both rest on the    *)
(* approval: it is bound once, every call but an approval works on a        *)
(* mission that has it, and an observed result has an observation or a      *)
(* unique lookup behind it.                                                 *)

ObservationBacked(e) ==
    e.state = "downstream_result_observed" => e.observation # None \/ e.outcome = "unique"
ApprovalBound ==
    /\ exec.state = "approval_required" =>
         row.status = "approval_required" /\ row.result = None /\ row.approvedBy = None
    /\ exec.state # "approval_required" =>
         row.status # "approval_required" /\ row.approvedBy \in Approvers
WorksOn(f, e) ==
    /\ f.pc = "called" /\ f.op = "approve" => f.by \in Approvers
    /\ f.pc # "idle" /\ ~(f.pc = "called" /\ f.op = "approve") => e.state # "approval_required"
ApprovalInv ==
    ApprovalBound /\ ObservationBacked(exec) /\ \A c \in Callers : WorksOn(proc[c], exec)

(* What a step may do to the child mission the graph sees. *)
ShownMoves ==
    \/ exec'.state = exec.state /\ row'.approvedBy = row.approvedBy
    \/ exec.state = "approval_required" /\ exec'.state = "approved" /\ row'.approvedBy \in Approvers
    \/ /\ exec.state # "approval_required" /\ row'.approvedBy = row.approvedBy
       /\ \/ StateOf(exec'.state) = StateOf(exec.state)
          \/ StateOf(exec'.state) \in Child!Moves[StateOf(exec.state)]

LEMMA InitApproval == Init => ApprovalInv
  BY ConstantsAssumption
     DEF Init, ApprovalInv, ApprovalBound, ObservationBacked, WorksOn, Idle

(* The journal's table, read as the child's. *)
LEMMA ChildAllowed ==
    ASSUME NEW from \in States, NEW to, to \in Allowed[from], from # "approval_required"
    PROVE  StateOf(to) = StateOf(from) \/ StateOf(to) \in Child!Moves[StateOf(from)]
  BY DEF Allowed, States, StateOf, Child!Moves

(* A mission that has its approval keeps it, whatever the journal records. *)
LEMMA ApprovedStep ==
    ASSUME TypeInv, ApprovalInv, exec.state # "approval_required",
           NEW e \in Executions, NEW via \in {None} \cup States, Journal(e, via),
           ObservationBacked(e),
           via # None => \/ StateOf(e.state) = StateOf(exec.state)
                         \/ StateOf(e.state) \in Child!Moves[StateOf(exec.state)],
           row'.status # "approval_required", row'.approvedBy = row.approvedBy,
           \A d \in Callers : \/ proc'[d] = proc[d]
                              \/ ~(proc'[d].pc = "called" /\ proc'[d].op = "approve")
    PROVE  ApprovalInv' /\ ShownMoves
<1>1. exec.state \in States /\ (via = None \/ via \in States)
  BY DEF TypeInv, TypeOK, Executions
<1>2. exec' = e
  BY DEF Journal
<1>3. e.state # "approval_required"
  BY <1>1, AllowedFacts DEF Journal
<1>4. ASSUME NEW d \in Callers PROVE WorksOn(proc'[d], exec')
  BY <1>2, <1>3 DEF WorksOn, ApprovalInv
<1>5. ApprovalBound'
  BY <1>2, <1>3 DEF ApprovalBound, ApprovalInv
<1>6. via = None => StateOf(e.state) = StateOf(exec.state)
                    \/ StateOf(e.state) \in Child!Moves[StateOf(exec.state)]
  BY <1>1, ChildAllowed DEF Journal
<1>7. ObservationBacked(exec')
  BY <1>2
<1> QED
  BY <1>2, <1>4, <1>5, <1>6, <1>7 DEF ApprovalInv, ShownMoves

(* A step that writes neither record, of calls that return, go on or begin
   on the mission as it is. *)
LEMMA CallStep ==
    ASSUME ApprovalInv, UNCHANGED <<row, exec>>,
           \A d \in Callers : \/ proc'[d] = proc[d]
                              \/ WorksOn(proc'[d], exec)
    PROVE  ApprovalInv' /\ ShownMoves
  BY DEF ApprovalInv, ApprovalBound, ObservationBacked, ShownMoves

(* How the frame of the caller, and no other, changes. *)
LEMMA ReturnedFrame ==
    ASSUME TypeInv, NEW c \in Callers, Return(c)
    PROVE  \A d \in Callers : proc'[d] = proc[d] \/ proc'[d].pc = "idle"
  BY DEF TypeInv, TypeOK, Return, Idle
LEMMA GoneOnFrame ==
    ASSUME TypeInv, NEW c \in Callers, NEW pc, Goto(c, pc)
    PROVE  \A d \in Callers : proc'[d] = proc[d] \/ (d = c /\ proc'[d].pc = pc)
  BY DEF TypeInv, TypeOK, Goto, Frames

(* The approval itself. *)
LEMMA ApproveBinds ==
    ASSUME TypeInv, ApprovalInv, NEW c \in Callers, Approve(c)
    PROVE  ApprovalInv' /\ ShownMoves
<1>0. exec \in Executions /\ row \in Rows /\ WorksOn(proc[c], exec)
  BY DEF TypeInv, TypeOK, ApprovalInv
<1>1. exec.state = "approval_required"
  BY DEF Approve, ApprovalInv, ApprovalBound
<1>2. exec' = [exec EXCEPT !.state = "approved"]
  BY DEF Approve, Journal
<1>3. exec'.state = "approved"
  BY <1>0, <1>2 DEF Executions
<1>4. row'.status = "executing" /\ row'.approvedBy \in Approvers
  BY <1>0 DEF Approve, WorksOn, Rows
<1>5. \A d \in Callers : proc'[d] = proc[d] \/ proc'[d].pc = "start"
  BY GoneOnFrame DEF Approve
<1>6. ASSUME NEW d \in Callers PROVE WorksOn(proc'[d], exec')
  BY <1>3, <1>5 DEF WorksOn, ApprovalInv
<1> QED
  BY <1>1, <1>3, <1>4, <1>6 DEF ApprovalInv, ApprovalBound, ObservationBacked, ShownMoves

(* The rest of approveAndExecute and what comes of its awaits. *)
LEMMA ExecutionApproved ==
    ASSUME TypeInv, ApprovalInv, NEW c \in Callers,
           \/ StartExecution(c) \/ PrepareRequest(c)
           \/ ObserveResult(c) \/ RecordFailure(c)
           \/ PersistResult(c) \/ CompleteMission(c)
    PROVE  ApprovalInv' /\ ShownMoves
<1>0. exec \in Executions /\ row \in Rows /\ WorksOn(proc[c], exec)
  BY DEF TypeInv, TypeOK, ApprovalInv
<1>1. CASE StartExecution(c)
  <2>1. [exec EXCEPT !.state = "execution_started"] \in Executions
    BY <1>0 DEF Executions, States
  <2>2. exec.state # "approval_required"
    BY <1>0, <1>1 DEF StartExecution, WorksOn
  <2>3. row'.status # "approval_required" /\ row'.approvedBy = row.approvedBy
    BY <1>1, <2>2 DEF StartExecution, ApprovalInv, ApprovalBound
  <2>4. \A d \in Callers : proc'[d] = proc[d] \/ proc'[d].pc = "prepare"
    BY <1>1, GoneOnFrame DEF StartExecution
  <2> QED
    BY <1>0, <1>1, <2>1, <2>2, <2>3, <2>4, ApprovedStep
       DEF StartExecution, ObservationBacked, Executions
<1>2. CASE PrepareRequest(c)
  <2>1. [exec EXCEPT !.state = "downstream_request_prepared"] \in Executions
    BY <1>0 DEF Executions, States
  <2>2. exec.state # "approval_required"
    BY <1>0, <1>2 DEF PrepareRequest, WorksOn
  <2>3. row'.status # "approval_required" /\ row'.approvedBy = row.approvedBy
    BY <1>2, <2>2 DEF PrepareRequest, ApprovalInv, ApprovalBound
  <2>4. \A d \in Callers : proc'[d] = proc[d] \/ proc'[d].pc = "authority"
    BY <1>2, GoneOnFrame DEF PrepareRequest
  <2> QED
    BY <1>0, <1>2, <2>1, <2>2, <2>3, <2>4, ApprovedStep
       DEF PrepareRequest, ObservationBacked, Executions
<1>3. CASE ObserveResult(c)
  <2>1. PICK r \in ResultsFor(c) :
          /\ Verified(r)
          /\ Journal([exec EXCEPT !.state = "downstream_result_observed",
                                  !.queueId = "post", !.observation = r], None)
          /\ proc' = [proc EXCEPT ![c] = [@ EXCEPT !.pc = "persist", !.result = r]]
    BY <1>3 DEF ObserveResult
  <2>2. r \in Results /\ r # None /\ Live(c)
    BY OutcomeType, NullAssumption
  <2>3. exec.state # "approval_required"
    <3>1. proc[c].pc # "called"
      BY DEF ResultsFor, Outcomes
    <3> QED
      BY <1>0, <2>2, <3>1 DEF WorksOn, Live
  <2> DEFINE e == [exec EXCEPT !.state = "downstream_result_observed",
                               !.queueId = "post", !.observation = r]
  <2>4. e \in Executions /\ ObservationBacked(e)
    BY <1>0, <2>2 DEF Executions, States, ObservationBacked
  <2>8. UNCHANGED row
    BY <1>3 DEF ObserveResult
  <2>5. row'.status # "approval_required" /\ row'.approvedBy = row.approvedBy
    BY <2>3, <2>8 DEF ApprovalInv, ApprovalBound
  <2>6. \A d \in Callers : proc'[d] = proc[d] \/ proc'[d].pc = "persist"
    BY <2>1 DEF TypeInv, TypeOK, Frames
  <2> HIDE DEF e
  <2>7. Journal(e, None)
    BY <2>1 DEF e
  <2> QED
    BY <2>3, <2>4, <2>5, <2>6, <2>7, ApprovedStep
<1>4. CASE RecordFailure(c)
  <2>1. PICK r \in ResultsFor(c) :
          /\ ~Verified(r)
          /\ row.status = "executing"
          /\ row' = [row EXCEPT !.status = ResultStatus(r), !.result = r]
          /\ Journal([exec EXCEPT !.state = FailedState(r), !.observation = r,
                                  !.finalStatus = ResultStatus(r)], None)
    BY <1>4 DEF RecordFailure
  <2>2. r \in Results /\ ResultStatus(r) \in ResultStatuses
    BY OutcomeType, ResultStatusType
  <2>3. exec.state # "approval_required"
    BY <2>1 DEF ApprovalInv, ApprovalBound
  <2> DEFINE e == [exec EXCEPT !.state = FailedState(r), !.observation = r,
                               !.finalStatus = ResultStatus(r)]
  <2>4. e \in Executions /\ ObservationBacked(e)
    BY <1>0, <2>2 DEF Executions, States, FailedState, ObservationBacked
  <2>5. row'.status # "approval_required" /\ row'.approvedBy = row.approvedBy
    BY <1>0, <2>1, <2>2 DEF Rows, ResultStatuses
  <2>8. Return(c)
    BY <1>4 DEF RecordFailure
  <2>6. \A d \in Callers : proc'[d] = proc[d] \/ proc'[d].pc = "idle"
    BY <2>8, ReturnedFrame
  <2> HIDE DEF e
  <2>7. Journal(e, None)
    BY <2>1 DEF e
  <2> QED
    BY <2>3, <2>4, <2>5, <2>6, <2>7, ApprovedStep
<1>5. CASE PersistResult(c)
  <2> DEFINE e == [exec EXCEPT !.state = "result_persisted",
                               !.finalStatus = ResultStatus(proc[c].result)]
  <2>1. proc[c].result \in Results /\ ResultStatus(proc[c].result) \in ResultStatuses
    BY <1>5, ResultStatusType DEF PersistResult, TypeInv, FramesUsable
  <2>2. e \in Executions /\ ObservationBacked(e)
    BY <1>0, <2>1 DEF Executions, States, ObservationBacked
  <2>3. exec.state # "approval_required"
    BY <1>5 DEF PersistResult, ApprovalInv, ApprovalBound
  <2>4. row'.status # "approval_required" /\ row'.approvedBy = row.approvedBy
    BY <1>0, <1>5, <2>1 DEF PersistResult, Rows, ResultStatuses
  <2>5. \A d \in Callers : proc'[d] = proc[d] \/ proc'[d].pc = "complete"
    BY <1>5, GoneOnFrame DEF PersistResult
  <2>6. Journal(e, None)
    BY <1>5 DEF PersistResult
  <2> HIDE DEF e
  <2> QED
    BY <2>2, <2>3, <2>4, <2>5, <2>6, ApprovedStep
<1>6. CASE CompleteMission(c)
  <2>1. [exec EXCEPT !.state = "completed"] \in Executions
    BY <1>0 DEF Executions, States
  <2>2. exec.state # "approval_required"
    BY <1>0, <1>6 DEF CompleteMission, WorksOn
  <2>3. row'.status # "approval_required" /\ row'.approvedBy = row.approvedBy
    BY <1>6, <2>2 DEF CompleteMission, ApprovalInv, ApprovalBound
  <2>4. \A d \in Callers : proc'[d] = proc[d] \/ proc'[d].pc = "idle"
    BY <1>6, ReturnedFrame DEF CompleteMission
  <2> QED
    BY <1>0, <1>6, <2>1, <2>2, <2>3, <2>4, ApprovedStep
       DEF CompleteMission, ObservationBacked, Executions
<1> QED
  BY <1>1, <1>2, <1>3, <1>4, <1>5, <1>6

(* reconcileMission: a unique lookup is what backs the record it makes. *)
LEMMA ReconciliationApproved ==
    ASSUME TypeInv, ApprovalInv, NEW c \in Callers,
           ClaimReconciliation(c) \/ RecordReconciliation(c)
    PROVE  ApprovalInv' /\ ShownMoves
<1>0. /\ exec \in Executions /\ row \in Rows /\ WorksOn(proc[c], exec)
      /\ exec.state # "approval_required" /\ row' = row
      /\ row'.status # "approval_required"
  BY DEF TypeInv, TypeOK, ApprovalInv, ApprovalBound, WorksOn, Called,
         ClaimReconciliation, RecordReconciliation
<1>1. CASE ClaimReconciliation(c)
  <2> DEFINE e == [exec EXCEPT !.state = "recovery_in_progress", !.attempt = proc[c].attempt]
             via == IF exec.state \in {"failed_recoverable", "reconciliation_required"}
                      THEN None ELSE "failed_recoverable"
  <2>1. proc[c].attempt \in Attempts
    BY <1>1 DEF ClaimReconciliation, Called, Live, TypeInv, FramesUsable
  <2>2. e \in Executions /\ e.state = "recovery_in_progress" /\ ObservationBacked(e)
    BY <1>0, <2>1 DEF Executions, States, ObservationBacked
  <2>3. via \in {None} \cup States /\ Journal(e, via)
    BY <1>1 DEF ClaimReconciliation, States
  <2>4. exec.state \in States
    BY <1>0 DEF Executions
  <2>5. via # None => \/ StateOf(e.state) = StateOf(exec.state)
                      \/ StateOf(e.state) \in Child!Moves[StateOf(exec.state)]
    <3> SUFFICES ASSUME via # None, "failed_recoverable" \in Allowed[exec.state]
                 PROVE  \/ StateOf(e.state) = StateOf(exec.state)
                        \/ StateOf(e.state) \in Child!Moves[StateOf(exec.state)]
      BY <2>3 DEF Journal
    <3>1. exec.state \in {"execution_started", "downstream_request_prepared",
                          "downstream_result_observed", "recovery_in_progress"}
      BY <2>4 DEF Allowed, States
    <3> QED
      BY <2>2, <3>1 DEF StateOf, Child!Moves
  <2>6. \A d \in Callers : proc'[d] = proc[d] \/ proc'[d].pc = "lookup"
    BY <1>1 DEF ClaimReconciliation, TypeInv, TypeOK, Frames
  <2> HIDE DEF e, via
  <2> QED
    BY <1>0, <2>2, <2>3, <2>5, <2>6, ApprovedStep
<1>2. CASE RecordReconciliation(c)
  <2>1. PICK o \in LookupOutcomes(c) : Journal(Reconciled(o), None)
    BY <1>2 DEF RecordReconciliation
  <2>2. Reconciled(o) \in Executions /\ ObservationBacked(Reconciled(o))
    BY <1>0 DEF Reconciled, Executions, States, AllLookupFaults, ObservationBacked
  <2>3. \A d \in Callers : proc'[d] = proc[d] \/ proc'[d].pc = "idle"
    BY <1>2, ReturnedFrame DEF RecordReconciliation
  <2> QED
    BY <1>0, <2>1, <2>2, <2>3, ApprovedStep
<1> QED
  BY <1>1, <1>2

(* resumeSafely and stopAndEscalate. *)
LEMMA RecoveryApproved ==
    ASSUME TypeInv, ApprovalInv, NEW c \in Callers,
           \/ ResumePersisted(c) \/ ResumeObserved(c) \/ ResumeApproved(c)
           \/ ResumeUnique(c) \/ ResumeNotFound(c) \/ StopAndEscalate(c)
    PROVE  ApprovalInv' /\ ShownMoves
<1>0. exec \in Executions /\ row \in Rows /\ proc \in [Callers -> Frames]
      /\ exec.state # "approval_required"
  BY DEF TypeInv, TypeOK, ApprovalInv, WorksOn, Called, ResumePersisted, ResumeObserved,
         ResumeApproved, ResumeUnique, ResumeNotFound, StopAndEscalate
<1>1. /\ row' \in {row, [row EXCEPT !.status = "executing", !.result = None],
                    [row EXCEPT !.status = "failed"]}
      /\ Called(c, "resume") => proc[c].attempt \in Attempts
  BY DEF ResumePersisted, ResumeObserved, ResumeApproved, ResumeUnique, ResumeNotFound,
         StopAndEscalate, RowExecuting, TypeInv, FramesUsable, Called, Live
<1>2. row'.status # "approval_required" /\ row'.approvedBy = row.approvedBy
  BY <1>0, <1>1 DEF Rows, ApprovalInv, ApprovalBound
<1>3. CASE ResumePersisted(c)
  <2>1. [exec EXCEPT !.state = "completed"] \in Executions
    BY <1>0 DEF Executions, States
  <2>2. \A d \in Callers : proc'[d] = proc[d] \/ proc'[d].pc = "idle"
    BY <1>3, ReturnedFrame DEF ResumePersisted
  <2> QED
    BY <1>0, <1>2, <1>3, <2>1, <2>2, ApprovedStep
       DEF ResumePersisted, ObservationBacked, Executions
<1>4. CASE ResumeObserved(c)
  <2>1. exec' = exec /\ \A d \in Callers : proc'[d] = proc[d] \/ proc'[d].pc = "persist"
    BY <1>0, <1>4 DEF ResumeObserved, Frames
  <2>2. ASSUME NEW d \in Callers PROVE WorksOn(proc'[d], exec')
    BY <1>0, <2>1 DEF WorksOn, ApprovalInv
  <2>3. ApprovalBound' /\ ObservationBacked(exec')
    BY <1>0, <1>2, <2>1 DEF ApprovalInv, ApprovalBound
  <2> QED
    BY <1>2, <2>1, <2>2, <2>3 DEF ApprovalInv, ShownMoves
<1>5. CASE ResumeApproved(c)
  <2> DEFINE e == [exec EXCEPT !.state = "downstream_request_prepared",
                               !.attempt = proc[c].attempt]
  <2>1. e \in Executions /\ e.state = "downstream_request_prepared" /\ ObservationBacked(e)
    BY <1>0, <1>1, <1>5 DEF ResumeApproved, Executions, States, ObservationBacked
  <2>2. Journal(e, "execution_started") /\ exec.state = "approved"
    BY <1>5 DEF ResumeApproved
  <2>3. StateOf(e.state) \in Child!Moves[StateOf(exec.state)] /\ "execution_started" \in States
    BY <2>1, <2>2 DEF StateOf, Child!Moves, States
  <2>4. \A d \in Callers : proc'[d] = proc[d] \/ proc'[d].pc = "authority"
    BY <1>0, <1>5 DEF ResumeApproved, Frames
  <2> HIDE DEF e
  <2> QED
    BY <1>0, <1>2, <2>1, <2>2, <2>3, <2>4, ApprovedStep
<1>6. CASE ResumeUnique(c)
  <2> DEFINE e == [exec EXCEPT !.state = "recovery_in_progress", !.attempt = proc[c].attempt]
  <2>1. e \in Executions /\ ObservationBacked(e)
    BY <1>0, <1>1, <1>6 DEF ResumeUnique, Executions, States, ObservationBacked
  <2>2. Journal(e, None)
    BY <1>6 DEF ResumeUnique
  <2>3. \A d \in Callers : proc'[d] = proc[d] \/ proc'[d].pc = "authority"
    BY <1>0, <1>6 DEF ResumeUnique, Frames
  <2> HIDE DEF e
  <2> QED
    BY <1>0, <1>2, <2>1, <2>2, <2>3, ApprovedStep
<1>7. CASE ResumeNotFound(c)
  <2> DEFINE e == [exec EXCEPT !.state = "downstream_request_prepared", !.retry = 1,
                               !.attempt = proc[c].attempt]
  <2>1. e \in Executions /\ e.state = "downstream_request_prepared" /\ ObservationBacked(e)
    BY <1>0, <1>1, <1>7 DEF ResumeNotFound, Executions, States, ObservationBacked
  <2>2. Journal(e, "recovery_in_progress") /\ exec.state = "failed_recoverable"
    BY <1>7 DEF ResumeNotFound
  <2>3. StateOf(e.state) \in Child!Moves[StateOf(exec.state)] /\ "recovery_in_progress" \in States
    BY <2>1, <2>2 DEF StateOf, Child!Moves, States
  <2>4. \A d \in Callers : proc'[d] = proc[d] \/ proc'[d].pc = "authority"
    BY <1>0, <1>7 DEF ResumeNotFound, Frames
  <2> HIDE DEF e
  <2> QED
    BY <1>0, <1>2, <2>1, <2>2, <2>3, <2>4, ApprovedStep
<1>8. CASE StopAndEscalate(c)
  <2>1. [exec EXCEPT !.state = "failed_terminal"] \in Executions
    BY <1>0 DEF Executions, States
  <2>2. \A d \in Callers : proc'[d] = proc[d] \/ proc'[d].pc = "idle"
    BY <1>8, ReturnedFrame DEF StopAndEscalate
  <2> QED
    BY <1>0, <1>2, <1>8, <2>1, <2>2, ApprovedStep
       DEF StopAndEscalate, ObservationBacked, Executions
<1> QED
  BY <1>3, <1>4, <1>5, <1>6, <1>7, <1>8

(* Calls that begin, wait, are refused or vanish, and AutoPoster's side. *)
LEMMA QuietApproved ==
    ASSUME TypeInv, ApprovalInv,
           \/ UNCHANGED vars
           \/ \E c \in Callers : \/ Call(c) \/ AuthorityGranted(c) \/ RuntimeDispatch(c)
                                 \/ DiscardOutcome(c) \/ DiscardReconciliation(c)
                                 \/ Refuse(c) \/ ServeLookup(c)
           \/ \E a \in wire : ServeCreate(a) \/ ServeRefuse(a) \/ LoseRequest(a)
           \/ \E dead \in SUBSET Callers : Crash(dead)
    PROVE  ApprovalInv' /\ ShownMoves
<1>9. ASSUME NEW c \in Callers, DiscardOutcome(c) PROVE UNCHANGED <<row, exec>>
  BY <1>9 DEF DiscardOutcome, durable
<1>1. UNCHANGED <<row, exec>>
  BY <1>9 DEF vars, durable, Call, Replay, CallApprove, CallRecovery, AuthorityGranted,
         RuntimeDispatch, DiscardReconciliation, Refuse, ServeLookup,
         ServeCreate, ServeRefuse, LoseRequest, Crash
<1>2. \A d \in Callers : WorksOn(proc[d], exec) /\ WorksOn(Idle, exec)
  BY DEF ApprovalInv, WorksOn, Idle
<1>3. ASSUME NEW c \in Callers, Call(c)
      PROVE  \A d \in Callers : proc'[d] = proc[d] \/ WorksOn(proc'[d], exec)
  <2>1. CASE Replay(c)
    BY <2>1 DEF Replay
  <2>2. ASSUME NEW by \in Approvers, CallApprove(c, by)
        PROVE  \A d \in Callers : proc'[d] = proc[d] \/ WorksOn(proc'[d], exec)
    BY <2>2 DEF CallApprove, WorksOn, Idle, TypeInv, TypeOK
  <2>3. ASSUME NEW op \in {"reconcile", "resume", "stop"}, CallRecovery(c, op)
        PROVE  \A d \in Callers : proc'[d] = proc[d] \/ WorksOn(proc'[d], exec)
    <3>1. exec.state # "approval_required"
      BY <2>3 DEF CallRecovery, Permitted
    <3> QED
      BY <2>3, <3>1 DEF CallRecovery, WorksOn, Idle, TypeInv, TypeOK
  <2> QED
    BY <1>3, <2>1, <2>2, <2>3 DEF Call
<1>4. ASSUME NEW c \in Callers, AuthorityGranted(c) \/ RuntimeDispatch(c)
      PROVE  \A d \in Callers : proc'[d] = proc[d] \/ WorksOn(proc'[d], exec)
  <2>1. exec.state # "approval_required"
    BY <1>2, <1>4 DEF AuthorityGranted, RuntimeDispatch, WorksOn
  <2>2. \A d \in Callers : proc'[d] = proc[d] \/ proc'[d].pc \in {"execute", "sent"}
    BY <1>4, GoneOnFrame DEF AuthorityGranted, RuntimeDispatch
  <2> QED
    BY <2>1, <2>2 DEF WorksOn
<1>5. ASSUME NEW c \in Callers, DiscardOutcome(c) \/ DiscardReconciliation(c) \/ Refuse(c)
      PROVE  \A d \in Callers : proc'[d] = proc[d] \/ WorksOn(proc'[d], exec)
  <2>1. \A d \in Callers : proc'[d] = proc[d] \/ proc'[d].pc = "idle"
    BY <1>5, ReturnedFrame DEF DiscardOutcome, DiscardReconciliation, Refuse
  <2> QED
    BY <2>1 DEF WorksOn
<1>6. ASSUME NEW c \in Callers, ServeLookup(c)
      PROVE  \A d \in Callers : proc'[d] = proc[d] \/ WorksOn(proc'[d], exec)
  <2>1. exec.state # "approval_required"
    BY <1>2, <1>6 DEF ServeLookup, WorksOn
  <2>2. \A d \in Callers : proc'[d] = proc[d] \/ proc'[d].pc = "lookup"
    BY <1>6 DEF ServeLookup, TypeInv, TypeOK, Frames
  <2> QED
    BY <2>1, <2>2 DEF WorksOn
<1>7. CASE UNCHANGED vars \/ \E a \in wire : ServeCreate(a) \/ ServeRefuse(a) \/ LoseRequest(a)
  <2>1. proc' = proc
    BY <1>7 DEF vars, ServeCreate, ServeRefuse, LoseRequest
  <2> QED
    BY <1>1, <2>1, CallStep
<1>8. CASE \E dead \in SUBSET Callers : Crash(dead)
  <2>1. \A d \in Callers : proc'[d] = proc[d] \/ WorksOn(proc'[d], exec)
    BY <1>2, <1>8 DEF Crash
  <2> QED
    BY <1>1, <2>1, CallStep
<1> QED
  BY <1>1, <1>3, <1>4, <1>5, <1>6, <1>7, <1>8, CallStep

LEMMA ApprovalStep ==
    ASSUME TypeInv, ApprovalInv, [Next]_vars PROVE ApprovalInv' /\ ShownMoves
<1>1. ASSUME NEW c \in Callers, Continue(c) PROVE ApprovalInv' /\ ShownMoves
  BY <1>1, ApproveBinds, ExecutionApproved, ReconciliationApproved, RecoveryApproved,
     QuietApproved DEF Continue
<1>2. ASSUME NEW c \in Callers, Call(c) \/ ServeLookup(c) PROVE ApprovalInv' /\ ShownMoves
  BY <1>2, QuietApproved
<1> QED
  BY <1>1, <1>2, QuietApproved DEF Next, AutoPoster

(* A mission at rest always has a way on (permittedRecoveryActions,
   persistRuntimeOutcome, reconcileMission): whatever crashed or raced, in one
   process or several on one database. *)
THEOREM NeverStuckCorrect == Spec => []NeverStuck
<1>1. TypeInv /\ ApprovalInv => NeverStuck
  <2> SUFFICES ASSUME TypeInv, ApprovalInv PROVE NeverStuck
    OBVIOUS
  <2>1. exec.state \in States /\ None \notin Approvers
    BY ConstantsAssumption DEF TypeInv, TypeOK, Executions
  <2>2. CASE exec.state = "approval_required"
    BY <2>2 DEF NeverStuck, ApprovalInv, ApprovalBound
  <2>3. CASE exec.state # "approval_required"
    <3>1. row.approvedBy # None
      BY <2>1, <2>3 DEF ApprovalInv, ApprovalBound
    <3>2. \/ exec.state \in Final \cup {"result_persisted", "downstream_result_observed"}
          \/ "stop" \in Permitted(exec) \/ "reconcile" \in Permitted(exec)
      BY <2>1, <2>3 DEF States, Final, Permitted
    <3> QED
      BY <3>1, <3>2 DEF NeverStuck, ApprovalInv, ObservationBacked
  <2> QED
    BY <2>2, <2>3
<1> QED
  BY InitTypes, StepTypes, InitApproval, ApprovalStep, <1>1, PTL DEF Spec

(* What the graph sees of the mission. *)
ShownChild ==
    [state |-> StateOf(exec.state), by |-> IF row.approvedBy = None THEN "none" ELSE row.approvedBy]
LEMMA ShownStep ==
    ASSUME TypeInv, ApprovalInv, ApprovalInv', ShownMoves PROVE [Child!Step]_ShownChild
<1>0. exec.state \in States /\ None \notin Approvers
  BY ConstantsAssumption DEF TypeInv, TypeOK, Executions
<1>1. CASE exec'.state = exec.state /\ row'.approvedBy = row.approvedBy
  BY <1>1 DEF ShownChild
<1>2. CASE /\ exec.state = "approval_required" /\ exec'.state = "approved"
           /\ row'.approvedBy \in Approvers
  <2>1. ShownChild = [state |-> "approval_required", by |-> "none"]
    BY <1>2 DEF ShownChild, StateOf, ApprovalInv, ApprovalBound
  <2>2. ShownChild' = [state |-> "approved", by |-> row'.approvedBy]
    BY <1>0, <1>2 DEF ShownChild, StateOf
  <2>3. "approved" \in Child!Moves["approval_required"]
    BY DEF Child!Moves
  <2> QED
    BY <1>2, <2>1, <2>2, <2>3 DEF Child!Step, Child!Moved, ShownChild
<1>3. CASE /\ exec.state # "approval_required" /\ row'.approvedBy = row.approvedBy
           /\ \/ StateOf(exec'.state) = StateOf(exec.state)
              \/ StateOf(exec'.state) \in Child!Moves[StateOf(exec.state)]
  <2>1. CASE StateOf(exec'.state) = StateOf(exec.state)
    BY <1>3, <2>1 DEF ShownChild
  <2>2. CASE StateOf(exec'.state) \in Child!Moves[StateOf(exec.state)]
    <3>1. row.approvedBy \in Approvers /\ row.approvedBy # None
      BY <1>0, <1>3 DEF ApprovalInv, ApprovalBound
    <3>2. StateOf(exec.state) # "approval_required"
      BY <1>0, <1>3 DEF StateOf, States
    <3>3. ShownChild' = [state |-> StateOf(exec'.state), by |-> row.approvedBy]
          /\ ShownChild = [state |-> StateOf(exec.state), by |-> row.approvedBy]
      BY <1>3, <3>1 DEF ShownChild
    <3> QED
      BY <2>2, <3>1, <3>2, <3>3 DEF Child!Step, Child!Moved, ShownChild
  <2> QED
    BY <1>3, <2>1, <2>2
<1> QED
  BY <1>1, <1>2, <1>3 DEF ShownMoves

(* The mission implements what the graph takes a child mission to be
   (missionGraphChildDispatcher, readChildState), as one of the generic lane
   does: in one process or several. *)
THEOREM AutoPosterIsAChild == Spec => IsAChild
<1>1. Init => ShownChild = [state |-> "approval_required", by |-> "none"]
  BY DEF Init, ShownChild, StateOf
<1>2. TypeInv /\ ApprovalInv /\ ApprovalInv' /\ [Next]_vars => [Child!Step]_ShownChild
  BY ApprovalStep, ShownStep
<1> QED
  BY InitTypes, StepTypes, InitApproval, ApprovalStep, <1>1, <1>2, PTL
     DEF Spec, IsAChild, Child!SpecOnceCreated, Child!Created, Child!NoOne, ShownChild
=============================================================================
