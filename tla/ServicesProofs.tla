------------------------------ MODULE ServicesProofs ------------------------------
(***************************************************************************)
(* Machine-checked proofs about the services side by side, for every value  *)
(* of the constants: first the intake's own, then, for each service with    *)
(* theorems of its own, that whatever steps the others take it behaves as   *)
(* its module says, so that its theorems hold of the whole.                 *)
(***************************************************************************)
EXTENDS Services, FiniteSetTheorems, TLAPS

IntakeInv == TypeOK /\ IdentitiesUnique /\ AnswersBound

(* What a lookup finds is bound to the request, and is alone. *)
LEMMA FoundIsBound ==
    ASSUME NEW r \in Requests, NEW m, Finds(r, m)
    PROVE  m \in missions /\ Binds(m, r)
  BY DEF Finds, Existing, ByMission, ByKey

(* A new mission carries every identity its request named. *)
LEMMA ResolvedIsBound ==
    ASSUME NEW r \in Requests, NEW m \in NewMissions(r)
    PROVE  m \in Records /\ Binds(m, r)
  BY DEF NewMissions, Resolved, Binds, KeyOf

-----------------------------------------------------------------------------
LEMMA InitIntake == Init => IntakeInv
  BY DEF Init, IntakeInv, TypeOK, IdentitiesUnique, AnswersBound

LEMMA ReplayKeeps ==
    ASSUME IntakeInv, NEW r \in Requests, UNCHANGED missions,
           calls' \in [Callers -> {Unset} \cup Requests],
           NEW m \in missions, Finds(r, m), Answer(r, m, TRUE)
    PROVE  IntakeInv'
<1>1. m.mission \in MissionIds \ {Unset}
  BY DEF IntakeInv, TypeOK, Records
<1>2. TypeOK'
  <2>1. <<r, m.mission, TRUE>> \in Requests \X (MissionIds \ {Unset}) \X BOOLEAN
    BY <1>1
  <2>2. answers' \subseteq Requests \X (MissionIds \ {Unset}) \X BOOLEAN
    BY <2>1 DEF IntakeInv, TypeOK, Answer
  <2> QED
    BY <2>2 DEF IntakeInv, TypeOK
<1>3. IdentitiesUnique'
  BY DEF IntakeInv, IdentitiesUnique
<1>4. AnswersBound'
  <2> SUFFICES ASSUME NEW a \in answers'
               PROVE  \E n \in missions : n.mission = a[2] /\ Binds(n, a[1])
    BY DEF AnswersBound, Binds
  <2>1. CASE a \in answers
    BY <2>1 DEF IntakeInv, AnswersBound
  <2>2. CASE a = <<r, m.mission, TRUE>>
    BY <2>2, FoundIsBound
  <2> QED
    BY <2>1, <2>2 DEF Answer
<1> QED
  BY <1>2, <1>3, <1>4 DEF IntakeInv

LEMMA CreateKeeps ==
    ASSUME IntakeInv, NEW c \in Callers, Create(c)
    PROVE  IntakeInv'
<1> DEFINE r == calls[c]
<1>1. r \in Requests
  BY DEF IntakeInv, TypeOK, Create
<1>2. PICK m \in NewMissions(r) : /\ Available(m.mission, m.trace, m.key)
                                  /\ missions' = missions \cup {m}
                                  /\ Answer(r, m, FALSE)
  BY DEF Create
<1>3. m \in Records /\ Binds(m, r)
  BY <1>1, <1>2, ResolvedIsBound
<1> HIDE DEF r
<1>4. TypeOK'
  <2>1. m.mission \in MissionIds \ {Unset}
    BY <1>3 DEF Records
  <2>2. calls' \in [Callers -> {Unset} \cup Requests]
    BY DEF IntakeInv, TypeOK, Create, Return
  <2>3. <<r, m.mission, FALSE>> \in Requests \X (MissionIds \ {Unset}) \X BOOLEAN
    BY <1>1, <2>1
  <2>4. answers' \subseteq Requests \X (MissionIds \ {Unset}) \X BOOLEAN
    BY <1>2, <2>3 DEF IntakeInv, TypeOK, Answer
  <2>5. missions' \subseteq Records
    BY <1>2, <1>3 DEF IntakeInv, TypeOK
  <2> QED
    BY <2>2, <2>4, <2>5 DEF TypeOK
<1>5. IdentitiesUnique'
  BY <1>2 DEF IntakeInv, IdentitiesUnique, Available
<1>6. AnswersBound'
  <2> SUFFICES ASSUME NEW a \in answers'
               PROVE  \E n \in missions' : n.mission = a[2] /\ Binds(n, a[1])
    BY DEF AnswersBound, Binds
  <2>1. CASE a \in answers
    BY <1>2, <2>1 DEF IntakeInv, AnswersBound
  <2>2. CASE a = <<r, m.mission, FALSE>>
    BY <1>2, <1>3, <2>2
  <2> QED
    BY <1>2, <2>1, <2>2 DEF Answer
<1> QED
  BY <1>4, <1>5, <1>6 DEF IntakeInv

LEMMA QuietKeeps ==
    ASSUME IntakeInv, UNCHANGED <<missions, answers>>,
           calls' \in [Callers -> {Unset} \cup Requests]
    PROVE  IntakeInv'
  BY DEF IntakeInv, TypeOK, IdentitiesUnique, AnswersBound, Binds

LEMMA StepIntake == IntakeInv /\ [Next]_vars => IntakeInv'
<1> SUFFICES ASSUME IntakeInv, [Next]_vars PROVE IntakeInv'
  OBVIOUS
<1>1. calls \in [Callers -> {Unset} \cup Requests]
  BY DEF IntakeInv, TypeOK
<1>2. ASSUME NEW c \in Callers, NEW r \in Requests, Replay(c, r) PROVE IntakeInv'
  BY <1>1, <1>2, ReplayKeeps DEF Replay
<1>3. ASSUME NEW c \in Callers, NEW r \in Requests, AskAccount(c, r) PROVE IntakeInv'
  BY <1>1, <1>3, QuietKeeps DEF AskAccount
<1>4. ASSUME NEW c \in Callers, ReplayRaced(c) PROVE IntakeInv'
  <2>1. calls[c] \in Requests /\ calls' \in [Callers -> {Unset} \cup Requests]
    BY <1>1, <1>4 DEF ReplayRaced, Return
  <2> QED
    BY <1>4, <2>1, ReplayKeeps DEF ReplayRaced
<1>5. ASSUME NEW c \in Callers, Create(c) PROVE IntakeInv'
  BY <1>5, CreateKeeps
<1>6. ASSUME NEW c \in Callers, Abandon(c) PROVE IntakeInv'
  BY <1>1, <1>6, QuietKeeps DEF Abandon, Return
<1>7. CASE UNCHANGED vars
  BY <1>1, <1>7, QuietKeeps DEF vars
<1> QED
  BY <1>2, <1>3, <1>4, <1>5, <1>6, <1>7 DEF Next

(* The inductive invariant of the intake. *)
THEOREM IntakeCorrect == Spec => []IntakeInv
  BY InitIntake, StepIntake, PTL DEF Spec

(* Every reachable state is well typed. *)
THEOREM IntakeTypeCorrect == Spec => []TypeOK
<1>1. IntakeInv => TypeOK
  BY DEF IntakeInv
<1> QED
  BY <1>1, IntakeCorrect, PTL

(* However creates race across the await of createScheduleMission, a mission
   id, a trace and an idempotency key name one mission. *)
THEOREM UniqueCorrect == Spec => []IdentitiesUnique
<1>1. IntakeInv => IdentitiesUnique
  BY DEF IntakeInv
<1> QED
  BY <1>1, IntakeCorrect, PTL

(* Every answer of createScheduleMission is about a mission that agrees with
   all the request asked for. *)
THEOREM AnswersCorrect == Spec => []AnswersBound
<1>1. IntakeInv => AnswersBound
  BY DEF IntakeInv
<1> QED
  BY <1>1, IntakeCorrect, PTL

-----------------------------------------------------------------------------
(* A mission bound to a request that names it is what the lookup finds, since
   its identities are its own. *)
LEMMA BoundIsFound ==
    ASSUME TypeOK, IdentitiesUnique, NEW r \in Requests, KeyOf(r) # Unset,
           NEW m \in missions, Binds(m, r)
    PROVE  Finds(r, m)
<1>1. \A n \in missions : n.mission # Unset /\ n.trace # Unset
  BY DEF TypeOK, Records
<1>2. ByKey(r) = {m}
  BY DEF ByKey, Binds, IdentitiesUnique
<1>3. ByMission(r) \in {{}, {m}}
  BY <1>1 DEF ByMission, Binds, IdentitiesUnique
<1>4. ByTrace(r) \subseteq {m}
  BY <1>1 DEF ByTrace, Binds, IdentitiesUnique
<1> QED
  BY <1>2, <1>3, <1>4 DEF Finds, Existing

(* However often and concurrently createScheduleMission is called, a request
   that names a mission or a key and lost its answer is answered with the same
   mission. *)
THEOREM RetryCorrect == Spec => []RetryFindsMission
<1>1. IntakeInv => RetryFindsMission
  <2> SUFFICES ASSUME IntakeInv, NEW a \in answers, KeyOf(a[1]) # Unset
               PROVE  \E m \in missions : m.mission = a[2] /\ Finds(a[1], m)
    BY DEF RetryFindsMission
  <2>1. a[1] \in Requests
    BY DEF IntakeInv, TypeOK
  <2>2. PICK m \in missions : m.mission = a[2] /\ Binds(m, a[1])
    BY DEF IntakeInv, AnswersBound
  <2> QED
    BY <2>1, <2>2, BoundIsFound DEF IntakeInv
<1> QED
  BY <1>1, IntakeCorrect, PTL

(* A second creation for a request would have found what the first one made. *)
LEMMA StepOnce == IntakeInv /\ CreatedOnce /\ [Next]_vars => CreatedOnce'
<1> SUFFICES ASSUME IntakeInv, CreatedOnce, [Next]_vars,
                    NEW a \in answers', NEW b \in answers', a[1] = b[1],
                    KeyOf(a[1]) # Unset, a[3] = FALSE, b[3] = FALSE
             PROVE  a = b
  BY DEF CreatedOnce, KeyOf, DefaultKey
<1>1. CASE a \in answers /\ b \in answers
  BY <1>1 DEF CreatedOnce
<1>2. CASE ~(a \in answers /\ b \in answers)
  <2>1. PICK c \in Callers : Create(c)
    <3>0. ASSUME NEW r, NEW m, Answer(r, m, TRUE) PROVE FALSE
      <4> DEFINE x == <<r, m.mission, TRUE>>
      <4>1. x[3] = TRUE /\ answers' = answers \cup {x}
        BY <3>0 DEF Answer
      <4> HIDE DEF x
      <4>2. x \notin {a, b}
        BY <4>1
      <4> QED
        BY <1>2, <4>1, <4>2
    <3>1. ASSUME NEW c \in Callers, NEW r \in Requests, Replay(c, r) PROVE FALSE
      BY <3>0, <3>1 DEF Replay
    <3>2. ASSUME NEW c \in Callers, ReplayRaced(c) PROVE FALSE
      BY <3>0, <3>2 DEF ReplayRaced
    <3>3. ASSUME answers' = answers PROVE FALSE
      BY <1>2, <3>3
    <3> QED
      BY <3>1, <3>2, <3>3 DEF Next, AskAccount, Abandon, vars
  <2> DEFINE r == calls[c]
  <2>2. PICK x : answers' = answers \cup {x} /\ x[1] = r
    <3>1. PICK m \in NewMissions(r) : Answer(r, m, FALSE)
      BY <2>1 DEF Create
    <3>2. <<r, m.mission, FALSE>>[1] = r
      OBVIOUS
    <3> QED
      BY <3>1, <3>2 DEF Answer
  <2>3. ByKey(r) = {}
    BY <2>1 DEF Create, FindsNothing, Existing
  <2> HIDE DEF r
  <2>4. ASSUME NEW y \in answers, y[1] = r PROVE KeyOf(r) = Unset
    <3>1. PICK m \in missions : Binds(m, r)
      BY <2>4 DEF IntakeInv, AnswersBound
    <3> QED
      BY <2>3, <3>1 DEF ByKey, Binds
  <2> QED
    BY <1>2, <2>2, <2>4
<1> QED
  BY <1>1, <1>2

(* However often and concurrently createScheduleMission is called, a request
   that names a mission or a key is told of one creation at most. *)
THEOREM OnceCorrect == Spec => []CreatedOnce
<1>1. Init => CreatedOnce
  BY DEF Init, CreatedOnce
<1> QED
  BY <1>1, InitIntake, StepIntake, StepOnce, PTL DEF Spec

-------------------------------------------------------------------------------
(* A step of the services is a step of each of them, or leaves it alone.    *)
LEMMA IntakeSteps == [ServicesNext]_tables => [Next]_vars
BY DEF ServicesNext, IntakeStep, ApprovalStep, ObservationStep, GraphStep, GenericStep, CommandStep, BoardStep,
       RunStep, BridgeStep, DatabaseStep, ScheduleStep, LedgerStep, IntentStep, CloseoutStep, tables

LEMMA GenericSteps == [ServicesNext]_tables => [M!Next]_(M!vars)
BY DEF ServicesNext, IntakeStep, ApprovalStep, ObservationStep, GraphStep, GenericStep, CommandStep, BoardStep,
       RunStep, BridgeStep, DatabaseStep, ScheduleStep, LedgerStep, IntentStep, CloseoutStep, tables, generics, M!vars

LEMMA BoardSteps == [ServicesNext]_tables => [T!Next]_(T!vars)
BY DEF ServicesNext, IntakeStep, ApprovalStep, ObservationStep, GraphStep, GenericStep, CommandStep, BoardStep,
       RunStep, BridgeStep, DatabaseStep, ScheduleStep, LedgerStep, IntentStep, CloseoutStep, tables, boards, T!vars

LEMMA CloseoutSteps == [ServicesNext]_tables => [C!Next]_(C!vars)
BY DEF ServicesNext, IntakeStep, ApprovalStep, ObservationStep, GraphStep, GenericStep, CommandStep, BoardStep,
       RunStep, BridgeStep, DatabaseStep, ScheduleStep, LedgerStep, IntentStep, CloseoutStep, tables, closings, C!vars

LEMMA LedgerSteps == [ServicesNext]_tables => [L!Next]_(L!vars)
BY DEF ServicesNext, IntakeStep, ApprovalStep, ObservationStep, GraphStep, GenericStep, CommandStep, BoardStep,
       RunStep, BridgeStep, DatabaseStep, ScheduleStep, LedgerStep, IntentStep, CloseoutStep, tables, logs, L!vars

(* Beside the other services, the records of a generic mission never claim   *)
(* more than the Governor did (persistRuntimeOutcome, reconcileMission).     *)
THEOREM CompletionKept == ServicesSpec => []CompletionIsReal
<1>1. ServicesInit => M!Init
  BY DEF ServicesInit
<1>2. ServicesSpec => M!Spec
  BY <1>1, GenericSteps, PTL DEF ServicesSpec, M!Spec
<1>3. M!Spec => []M!CompletionIsReal
  BY ServicesAssumption, M!CompletionCorrect
<1> QED
  BY <1>2, <1>3, PTL DEF CompletionIsReal

(* Beside the other services, the generic mission is still the child mission *)
(* a graph waits for.                                                        *)
THEOREM ChildKept == ServicesSpec => IsAChild
<1>1. ServicesInit => M!Init
  BY DEF ServicesInit
<1>2. ServicesSpec => M!Spec
  BY <1>1, GenericSteps, PTL DEF ServicesSpec, M!Spec
<1>3. M!Spec => M!IsAChild
  BY ServicesAssumption, M!ChildImplemented
<1> QED
  BY <1>2, <1>3, PTL DEF IsAChild

(* Beside the other services, a generic mission that has not ended can still *)
(* be approved, dispatched, reconciled or cancelled, wherever it crashed.    *)
THEOREM GenericNeverStuckKept == ServicesSpec => []GenericNeverStuck
<1>1. ServicesInit => M!Init
  BY DEF ServicesInit
<1>2. ServicesSpec => M!Spec
  BY <1>1, GenericSteps, PTL DEF ServicesSpec, M!Spec
<1>3. M!Spec => []M!NeverStuck
  BY ServicesAssumption, M!GenericNeverStuckCorrect
<1> QED
  BY <1>2, <1>3, PTL DEF GenericNeverStuck

(* Beside the other services, a task is completed on one piece of evidence   *)
(* that passed, whoever decides, cancels or retries at the same time.        *)
THEOREM WorkKept == ServicesSpec => []WorkIsEvidenced
<1>1. ServicesInit => T!Init
  BY DEF ServicesInit
<1>2. ServicesSpec => T!Spec
  BY <1>1, BoardSteps, PTL DEF ServicesSpec, T!Spec
<1>3. T!Spec => []T!WorkIsEvidenced
  BY T!WorkCorrect
<1> QED
  BY <1>2, <1>3, PTL DEF WorkIsEvidenced

(* Beside the other services the closeout service runs by its own            *)
(* specification.                                                            *)
LEMMA CloseoutsRun == ServicesSpec => C!Spec
<1>1. ServicesInit => C!Init
  BY DEF ServicesInit
<1> QED
  BY <1>1, CloseoutSteps, PTL DEF ServicesSpec, C!Spec

(* Beside the other services, no interleaving of two processes' calls stores *)
(* a closeout row that the integrity check would refuse.                     *)
THEOREM RowsKeptUsable == ServicesSpec => []RowsStayUsable
<1>1. C!Spec => []C!RowsStayUsable
  BY ServicesAssumption, C!UsableCorrect
<1> QED
  BY <1>1, CloseoutsRun, PTL DEF RowsStayUsable

(* Beside the other services, a claimed closeout has one holder, bound to    *)
(* the plan that was approved and not revoked.                               *)
THEOREM HolderKept == ServicesSpec => []OneHolder
<1>1. C!Spec => []C!OneHolder
  BY ServicesAssumption, C!HolderCorrect
<1> QED
  BY <1>1, CloseoutsRun, PTL DEF OneHolder

(* Beside the other services, the events of a closeout tell one unbroken     *)
(* life that ends in the status of its row.                                  *)
THEOREM StoryKept == ServicesSpec => []EventsTellStory
<1>1. C!Spec => []C!EventsTellStory
  BY ServicesAssumption, C!StoryCorrect
<1> QED
  BY <1>1, CloseoutsRun, PTL DEF EventsTellStory

(* Beside the other services, a caller that lost the answer of a claim or of *)
(* a report gets it by asking again.                                         *)
THEOREM ReplayKept == ServicesSpec => []LostAnswersReplay
<1>1. C!Spec => []C!LostAnswersReplay
  BY ServicesAssumption, C!ReplayCorrect
<1> QED
  BY <1>1, CloseoutsRun, PTL DEF LostAnswersReplay

(* One process, to which each run is told by its own source: the receipts    *)
(* and the log of every run tell one story, beside the other services.       *)
THEOREM HistoryKept ==
    ASSUME L!OneProcess, L!OwnRuns
    PROVE  ServicesSpec => []LedgerIsHistory
<1>1. ServicesInit => L!Init
  BY DEF ServicesInit
<1>2. ServicesSpec => L!Spec
  BY <1>1, LedgerSteps, PTL DEF ServicesSpec, L!Spec
<1>3. L!Spec => []L!LedgerIsHistory
  BY ServicesAssumption, L!HistoryCorrect
<1> QED
  BY <1>2, <1>3, PTL DEF LedgerIsHistory

-------------------------------------------------------------------------------
(* The approval authority: a record once published is never replaced, so   *)
(* what a caller knew before its await is still so.                         *)
Points == {"idle", "identity", "build", "bound", "create", "publish", "mirror", "granted"}
Observations == [decision : Decisions, answers : Heads] \cup {A!NoObservation}
Frames == [pc : Points, scope : A!Scopes, head : Heads \cup {A!None},
           decision : Decisions \cup {A!NoDecision}, saw : Observations]
ScopedHeads == [A!Scopes -> Heads \cup {A!None}]
ScopedDecisions == [A!Scopes -> Observations]

AuthorityTyped ==
  /\ source \in Heads /\ checkouts \subseteq Heads
  /\ manifest \in ScopedHeads /\ observation \in ScopedDecisions
  /\ caller \in [Callers -> Frames]

(* What a caller still knows when it goes on.                               *)
Knows(x, m, o) ==
  /\ x.pc \in {"identity", "build", "bound", "create", "publish"} => x.decision \in Decisions
  /\ x.pc \in {"build", "bound", "create"} => x.head \in Heads
  /\ x.pc = "publish" => m["main"] # A!None
  /\ x.pc = "mirror" => /\ x.scope = "recovered" /\ x.saw = o["main"] /\ o["main"] # A!NoObservation
                        /\ m["recovered"] = m["main"]

(* The decision answers the checkpoint, and the second scope repeats both.  *)
Bound(m, o) ==
  /\ o["main"] # A!NoObservation =>
       /\ o["main"].answers = m["main"] /\ m["main"] # A!None /\ Signs /\ Trusts
  /\ m["recovered"] # A!None => m["recovered"] = m["main"] /\ o["main"] # A!NoObservation
  /\ o["recovered"] # A!NoObservation => o["recovered"] = o["main"] /\ m["recovered"] = m["main"]

(* An execution ran under the published records.                            *)
ExecutionBacked(e, m, o) ==
  /\ e.head = m["main"] /\ o["main"] # A!NoObservation
  /\ e.by = o["main"].decision.by /\ o["main"].decision.status = "approved"

AuthorityInv ==
  /\ AuthorityTyped
  /\ \A c \in Callers : Knows(caller[c], manifest, observation)
  /\ Bound(manifest, observation)
  /\ \A e \in admitted : ExecutionBacked(e, manifest, observation)

-------------------------------------------------------------------------------
(* Records that are kept once they are published.                           *)
RecordsKept(m, o, n, p) ==
  /\ \A s \in A!Scopes : m[s] # A!None => n[s] = m[s]
  /\ \A s \in A!Scopes : o[s] # A!NoObservation => p[s] = o[s]

LEMMA KnowsKept ==
  ASSUME NEW x \in Frames, NEW m \in ScopedHeads, NEW o \in ScopedDecisions, NEW n, NEW p,
         RecordsKept(m, o, n, p), Bound(m, o), Knows(x, m, o)
  PROVE  Knows(x, n, p)
<1>1. CASE x.pc = "mirror"
  <2>1. o["main"] # A!NoObservation /\ m["recovered"] = m["main"] /\ m["main"] # A!None
    BY <1>1 DEF Knows, Bound
  <2>2. p["main"] = o["main"] /\ n["main"] = m["main"] /\ n["recovered"] = m["recovered"]
    BY <2>1 DEF RecordsKept, A!Scopes
  <2> QED BY <1>1, <2>1, <2>2 DEF Knows
<1>2. CASE x.pc # "mirror"
  <2>1. m["main"] # A!None => n["main"] # A!None
    BY DEF RecordsKept, A!Scopes
  <2> QED BY <1>2, <2>1 DEF Knows
<1> QED BY <1>1, <1>2

LEMMA BackedKept ==
  ASSUME NEW e, NEW m, NEW o, NEW n, NEW p, RecordsKept(m, o, n, p), Bound(m, o), ExecutionBacked(e, m, o)
  PROVE  ExecutionBacked(e, n, p)
<1>1. o["main"] # A!NoObservation /\ m["main"] # A!None
  BY DEF ExecutionBacked, Bound
<1>2. p["main"] = o["main"] /\ n["main"] = m["main"]
  BY <1>1 DEF RecordsKept, A!Scopes
<1> QED BY <1>2 DEF ExecutionBacked

(* A step of one caller that keeps what is published.                       *)
LEMMA CallerSteps ==
  ASSUME AuthorityInv, NEW c \in Callers, NEW y \in Frames, caller' = [caller EXCEPT ![c] = y],
         source' \in Heads, checkouts' \subseteq Heads,
         manifest' \in ScopedHeads, observation' \in ScopedDecisions,
         \A e \in admitted' : e \in admitted \/ ExecutionBacked(e, manifest', observation'),
         RecordsKept(manifest, observation, manifest', observation'),
         Bound(manifest', observation'), Knows(y, manifest', observation')
  PROVE  AuthorityInv'
<1>1. AuthorityTyped'
  BY DEF AuthorityInv, AuthorityTyped
<1>2. ASSUME NEW d \in Callers PROVE Knows(caller'[d], manifest', observation')
  <2>1. CASE d = c
    <3>1. caller'[d] = y
      BY <2>1 DEF AuthorityInv, AuthorityTyped
    <3> QED BY <3>1
  <2>2. CASE d # c
    <3>1. caller'[d] = caller[d] /\ caller[d] \in Frames
      BY <2>2 DEF AuthorityInv, AuthorityTyped
    <3>2. Knows(caller[d], manifest, observation) /\ Bound(manifest, observation)
      BY DEF AuthorityInv
    <3>3. manifest \in ScopedHeads /\ observation \in ScopedDecisions
      BY DEF AuthorityInv, AuthorityTyped
    <3>4. Knows(caller[d], manifest', observation')
      BY <3>1, <3>2, <3>3, KnowsKept
    <3> QED BY <3>1, <3>4
  <2> QED BY <2>1, <2>2
<1>3. ASSUME NEW e \in admitted' PROVE ExecutionBacked(e, manifest', observation')
  <2>1. CASE e \in admitted
    <3>1. ExecutionBacked(e, manifest, observation) /\ Bound(manifest, observation)
      BY <2>1 DEF AuthorityInv
    <3> QED BY <3>1, BackedKept
  <2> QED BY <1>3, <2>1
<1> QED BY <1>1, <1>2, <1>3 DEF AuthorityInv

(* The frames the actions leave.                                            *)
To(x, pc) == [x EXCEPT !.pc = pc]
For(x, head, pc) == [x EXCEPT !.head = head, !.pc = pc]

LEMMA ToFrame ==
  ASSUME NEW x \in Frames, NEW pc \in Points
  PROVE  /\ To(x, pc) \in Frames
         /\ To(x, pc).pc = pc /\ To(x, pc).decision = x.decision /\ To(x, pc).head = x.head
BY DEF Frames, To

LEMMA ForFrame ==
  ASSUME NEW x \in Frames, NEW pc \in Points, NEW head \in Heads
  PROVE  /\ For(x, head, pc) \in Frames
         /\ For(x, head, pc).pc = pc /\ For(x, head, pc).head = head
         /\ For(x, head, pc).decision = x.decision
BY DEF Frames, For

LEMMA IdleFrame == A!Idle \in Frames /\ A!Idle.pc = "idle"
BY DEF A!Idle, Frames, Points, A!Scopes, Observations

LEMMA IdleKnows == ASSUME NEW m, NEW o PROVE Knows(A!Idle, m, o)
BY IdleFrame DEF Knows

LEMMA KeptSelf == ASSUME NEW m, NEW o PROVE RecordsKept(m, o, m, o)
BY DEF RecordsKept

(* Whoever gives up leaves nothing behind.                                  *)
LEMMA RefusalKeeps ==
  ASSUME AuthorityInv, NEW c \in Callers, A!Refuse(c), checkouts' \subseteq Heads,
         UNCHANGED <<source, A!store, admitted>>
  PROVE  AuthorityInv'
<1>1. source' \in Heads /\ manifest' \in ScopedHeads /\ observation' \in ScopedDecisions
  BY DEF AuthorityInv, AuthorityTyped, A!store
<1>2. manifest' = manifest /\ observation' = observation /\ admitted' = admitted
  BY DEF A!store
<1>3. RecordsKept(manifest, observation, manifest', observation') /\ Bound(manifest', observation')
  BY <1>2, KeptSelf DEF AuthorityInv
<1>4. Knows(A!Idle, manifest', observation')
  BY IdleKnows
<1> QED BY <1>1, <1>2, <1>3, <1>4, IdleFrame, CallerSteps DEF A!Refuse

(* A caller that goes on and publishes nothing.                             *)
LEMMA MovesOn ==
  ASSUME AuthorityInv, NEW c \in Callers, NEW y \in Frames, caller' = [caller EXCEPT ![c] = y],
         checkouts' \subseteq Heads, UNCHANGED <<source, A!store, admitted>>,
         Knows(y, manifest, observation)
  PROVE  AuthorityInv'
<1>1. source' \in Heads /\ manifest' \in ScopedHeads /\ observation' \in ScopedDecisions
  BY DEF AuthorityInv, AuthorityTyped, A!store
<1>2. manifest' = manifest /\ observation' = observation /\ admitted' = admitted
  BY DEF A!store
<1>3. RecordsKept(manifest, observation, manifest', observation') /\ Bound(manifest', observation')
  BY <1>2, KeptSelf DEF AuthorityInv
<1>4. Knows(y, manifest', observation')
  BY <1>2
<1> QED BY <1>1, <1>2, <1>3, <1>4, CallerSteps

(* Going to a point, with what has to be known there.                       *)
LEMMA GoesOn ==
  ASSUME AuthorityInv, NEW c \in Callers, NEW pc \in Points, A!Goto(c, pc),
         checkouts' \subseteq Heads, UNCHANGED <<source, A!store, admitted>>,
         Knows(To(caller[c], pc), manifest, observation)
  PROVE  AuthorityInv'
<1>1. caller \in [Callers -> Frames] /\ caller[c] \in Frames
  BY DEF AuthorityInv, AuthorityTyped
<1>2. caller' = [caller EXCEPT ![c] = To(caller[c], pc)]
  BY <1>1 DEF A!Goto, To, Frames
<1>3. To(caller[c], pc) \in Frames
  BY <1>1, ToFrame
<1> QED BY <1>2, <1>3, MovesOn

LEMMA BindsOn ==
  ASSUME AuthorityInv, NEW c \in Callers, NEW head \in Heads, NEW pc \in {"build", "bound"},
         caller' = [caller EXCEPT ![c].head = head, ![c].pc = pc],
         caller[c].decision \in Decisions,
         checkouts' \subseteq Heads, UNCHANGED <<source, A!store, admitted>>
  PROVE  AuthorityInv'
<1> DEFINE y == For(caller[c], head, pc)
<1>1. caller \in [Callers -> Frames] /\ caller[c] \in Frames
  BY DEF AuthorityInv, AuthorityTyped
<1>2. pc \in Points
  BY DEF Points
<1>3. y \in Frames /\ y.pc = pc /\ y.head = head /\ y.decision = caller[c].decision
  BY <1>1, <1>2, ForFrame
<1>4. caller' = [caller EXCEPT ![c] = y]
  BY <1>1 DEF For, Frames
<1> HIDE DEF y
<1>5. Knows(y, manifest, observation)
  BY <1>3 DEF Knows
<1> QED BY <1>3, <1>4, <1>5, MovesOn

-------------------------------------------------------------------------------
(* One lemma per action.                                                    *)

LEMMA PrepareKeeps ==
  ASSUME AuthorityInv, NEW c \in Callers, NEW d \in Decisions, A!PrepareApproved(c, d)
  PROVE  AuthorityInv'
<1> DEFINE y == [A!Idle EXCEPT !.pc = "identity", !.decision = d]
<1>1. y \in Frames /\ y.pc = "identity" /\ y.decision = d
  BY DEF A!Idle, Frames, Points, A!Scopes, Observations
<1>2. caller' = [caller EXCEPT ![c] = y] /\ checkouts' \subseteq Heads
  BY DEF A!PrepareApproved, AuthorityInv, AuthorityTyped
<1> HIDE DEF y
<1>3. Knows(y, manifest, observation)
  BY <1>1 DEF Knows
<1> QED BY <1>1, <1>2, <1>3, MovesOn DEF A!PrepareApproved

LEMMA IdentityKeeps ==
  ASSUME A!AuthorityAssumption, AuthorityInv, NEW c \in Callers, A!IdentityFor(c)
  PROVE  AuthorityInv'
<1>1. caller[c].decision \in Decisions
  BY DEF AuthorityInv, Knows, A!IdentityFor, A!At
<1>2. checkouts' \subseteq Heads /\ source \in Heads /\ UNCHANGED <<source, A!store, admitted>>
  BY DEF AuthorityInv, AuthorityTyped, A!IdentityFor
<1>3. CASE manifest["main"] # A!None /\ A!Bind(c, manifest["main"])
  <2>1. manifest["main"] \in Heads
    BY <1>3 DEF AuthorityInv, AuthorityTyped, ScopedHeads, A!Scopes
  <2> QED BY <1>1, <1>2, <1>3, <2>1, BindsOn DEF A!Bind
<1>4. CASE caller' = [caller EXCEPT ![c].head = source, ![c].pc = "build"]
  BY <1>1, <1>2, <1>4, BindsOn
<1>5. CASE A!Bind(c, source)
  BY <1>1, <1>2, <1>5, BindsOn DEF A!Bind
<1>6. CASE A!Refuse(c)
  BY <1>2, <1>6, RefusalKeeps
<1> QED BY <1>3, <1>4, <1>5, <1>6 DEF A!IdentityFor

LEMMA CheckoutKeeps ==
  ASSUME AuthorityInv, NEW c \in Callers, A!PublishCheckout(c)
  PROVE  AuthorityInv'
<1>1. caller[c].head \in Heads /\ caller[c].decision \in Decisions /\ caller[c] \in Frames
  BY DEF AuthorityInv, AuthorityTyped, Knows, A!PublishCheckout, A!At
<1>2. checkouts' \subseteq Heads /\ UNCHANGED <<source, A!store, admitted>>
  BY <1>1 DEF AuthorityInv, AuthorityTyped, A!PublishCheckout
<1>3. CASE A!Goto(c, "bound")
  <2>1. "bound" \in Points
    BY DEF Points
  <2>2. Knows(To(caller[c], "bound"), manifest, observation)
    BY <1>1, <2>1, ToFrame DEF Knows
  <2> QED BY <1>2, <1>3, <2>1, <2>2, GoesOn
<1>4. CASE A!Refuse(c)
  BY <1>2, <1>4, RefusalKeeps
<1> QED BY <1>3, <1>4 DEF A!PublishCheckout

LEMMA CheckpointLooked ==
  ASSUME AuthorityInv, NEW c \in Callers, A!HasCheckpoint(c)
  PROVE  AuthorityInv'
<1>1. caller[c].head \in Heads /\ caller[c].decision \in Decisions /\ caller[c] \in Frames
  BY DEF AuthorityInv, AuthorityTyped, Knows, A!HasCheckpoint, A!At
<1>2. checkouts' \subseteq Heads /\ UNCHANGED <<source, A!store, admitted>>
  BY DEF AuthorityInv, AuthorityTyped, A!HasCheckpoint
<1>3. CASE manifest["main"] # A!None /\ A!Goto(c, "publish")
  <2>1. "publish" \in Points
    BY DEF Points
  <2>2. Knows(To(caller[c], "publish"), manifest, observation)
    BY <1>1, <1>3, <2>1, ToFrame DEF Knows
  <2> QED BY <1>2, <1>3, <2>1, <2>2, GoesOn
<1>4. CASE A!Goto(c, "create")
  <2>1. "create" \in Points
    BY DEF Points
  <2>2. Knows(To(caller[c], "create"), manifest, observation)
    BY <1>1, <2>1, ToFrame DEF Knows
  <2> QED BY <1>2, <1>4, <2>1, <2>2, GoesOn
<1> QED BY <1>3, <1>4 DEF A!HasCheckpoint

LEMMA CheckpointCreated ==
  ASSUME A!AuthorityAssumption, AuthorityInv, NEW c \in Callers, A!CreateCheckpoint(c)
  PROVE  AuthorityInv'
<1> DEFINE head == caller[c].head
           y == To(caller[c], "publish")
<1>1. head \in Heads /\ caller[c].decision \in Decisions /\ caller[c] \in Frames
  BY DEF AuthorityInv, AuthorityTyped, Knows, A!CreateCheckpoint, A!At
<1>2. /\ checkouts' \subseteq Heads /\ source' \in Heads /\ observation' = observation
      /\ admitted' = admitted /\ source' = source
  BY DEF AuthorityInv, AuthorityTyped, A!CreateCheckpoint
<1>3. CASE /\ manifest["main"] \in {A!None, head}
           /\ manifest' = [manifest EXCEPT !["main"] = head] /\ A!Goto(c, "publish")
  <2>1. manifest \in ScopedHeads /\ observation \in ScopedDecisions /\ Bound(manifest, observation)
    BY DEF AuthorityInv, AuthorityTyped
  <2>2. head # A!None
    BY <1>1 DEF A!AuthorityAssumption
  <2>3. /\ manifest' \in ScopedHeads /\ manifest'["main"] = head
        /\ manifest'["recovered"] = manifest["recovered"]
    BY <1>1, <1>3, <2>1 DEF ScopedHeads, A!Scopes
  <2>4. RecordsKept(manifest, observation, manifest', observation')
    BY <1>2, <1>3, <2>3 DEF RecordsKept, A!Scopes
  <2>5. Bound(manifest', observation')
    BY <1>2, <1>3, <2>1, <2>2, <2>3 DEF Bound
  <2>6. y \in Frames /\ y.pc = "publish" /\ y.decision = caller[c].decision
    BY <1>1, ToFrame DEF Points
  <2>7. caller' = [caller EXCEPT ![c] = y]
    BY <1>3 DEF A!Goto, To, Frames
  <2> HIDE DEF y
  <2>8. Knows(y, manifest', observation')
    BY <1>1, <2>2, <2>3, <2>6 DEF Knows
  <2> QED BY <1>2, <2>1, <2>3, <2>4, <2>5, <2>6, <2>7, <2>8, CallerSteps
<1>4. CASE A!Refuse(c) /\ UNCHANGED manifest
  BY <1>2, <1>4, RefusalKeeps DEF A!store
<1> QED BY <1>3, <1>4 DEF A!CreateCheckpoint

LEMMA ObservationSet ==
  ASSUME NEW d \in Decisions, NEW head \in Heads, head # A!None
  PROVE  /\ A!Observation(d, head) \in Observations /\ A!Observation(d, head) # A!NoObservation
         /\ A!Observation(d, head).answers = head
BY DEF A!Observation, Observations, A!NoObservation

LEMMA PublishKeeps ==
  ASSUME A!AuthorityAssumption, AuthorityInv, NEW c \in Callers, A!PublishApproval(c)
  PROVE  AuthorityInv'
<1> DEFINE o == A!Observation(caller[c].decision, manifest["main"])
           y == To(caller[c], "granted")
<1>1. /\ caller[c].decision \in Decisions /\ caller[c] \in Frames
      /\ manifest["main"] # A!None /\ manifest["main"] \in Heads
  BY DEF AuthorityInv, AuthorityTyped, Knows, A!PublishApproval, A!At, ScopedHeads, A!Scopes
<1>2. /\ checkouts' \subseteq Heads /\ source' \in Heads /\ manifest' = manifest
      /\ admitted' = admitted /\ source' = source
  BY DEF AuthorityInv, AuthorityTyped, A!PublishApproval
<1>3. manifest \in ScopedHeads /\ observation \in ScopedDecisions /\ Bound(manifest, observation)
  BY DEF AuthorityInv, AuthorityTyped
<1>4. CASE A!Goto(c, "granted") /\ Signs /\ Trusts
  <2>1. y \in Frames /\ y.pc = "granted"
    BY <1>1, ToFrame DEF Points
  <2>2. caller' = [caller EXCEPT ![c] = y]
    BY <1>4 DEF A!Goto, To, Frames
  <2> HIDE DEF y
  <2>3. Knows(y, manifest', observation')
    BY <2>1 DEF Knows
  <2>4. CASE observation' = observation
    <3>1. RecordsKept(manifest, observation, manifest', observation') /\ Bound(manifest', observation')
      BY <1>2, <1>3, <2>4, KeptSelf
    <3> QED BY <1>2, <1>3, <2>1, <2>2, <2>3, <2>4, <3>1, CallerSteps
  <2>5. CASE observation["main"] = A!NoObservation /\ observation' = [observation EXCEPT !["main"] = o]
    <3>1. o \in Observations /\ o # A!NoObservation /\ o.answers = manifest["main"]
      BY <1>1, ObservationSet
    <3> HIDE DEF o
    <3>2. /\ observation' \in ScopedDecisions /\ observation'["main"] = o
          /\ observation'["recovered"] = observation["recovered"]
      BY <1>3, <2>5, <3>1 DEF ScopedDecisions, A!Scopes
    <3>3. RecordsKept(manifest, observation, manifest', observation')
      BY <1>2, <2>5, <3>2 DEF RecordsKept, A!Scopes
    <3>4. Bound(manifest', observation')
      BY <1>1, <1>2, <1>3, <1>4, <2>5, <3>1, <3>2 DEF Bound
    <3> QED BY <1>2, <1>3, <2>1, <2>2, <2>3, <3>2, <3>3, <3>4, CallerSteps
  <2> QED BY <2>4, <2>5 DEF A!PublishApproval
<1>5. CASE A!Refuse(c) /\ UNCHANGED observation
  BY <1>2, <1>5, RefusalKeeps DEF A!store
<1> QED BY <1>4, <1>5 DEF A!PublishApproval

LEMMA MirrorKeeps ==
  ASSUME A!AuthorityAssumption, AuthorityInv, NEW c \in Callers, A!MirrorManifest(c)
  PROVE  AuthorityInv'
<1> DEFINE y == [A!Idle EXCEPT !.pc = "mirror", !.scope = "recovered", !.saw = observation["main"]]
<1>1. manifest \in ScopedHeads /\ observation \in ScopedDecisions /\ Bound(manifest, observation)
  BY DEF AuthorityInv, AuthorityTyped
<1>2. /\ checkouts' \subseteq Heads /\ source' \in Heads /\ observation' = observation
      /\ admitted' = admitted /\ source' = source
  BY DEF AuthorityInv, AuthorityTyped, A!MirrorManifest
<1>3. manifest["main"] # A!None /\ observation["main"] # A!NoObservation
  BY DEF A!MirrorManifest
<1>4. CASE /\ manifest["recovered"] \in {A!None, manifest["main"]}
           /\ manifest' = [manifest EXCEPT !["recovered"] = manifest["main"]]
           /\ caller' = [caller EXCEPT ![c] = y]
  <2>1. observation["main"] \in Observations
    BY <1>1 DEF ScopedDecisions, A!Scopes
  <2>2. y \in Frames /\ y.pc = "mirror" /\ y.scope = "recovered" /\ y.saw = observation["main"]
    BY <2>1 DEF A!Idle, Frames, Points, A!Scopes
  <2> HIDE DEF y
  <2>3. /\ manifest' \in ScopedHeads /\ manifest'["main"] = manifest["main"]
        /\ manifest'["recovered"] = manifest["main"]
    BY <1>1, <1>4 DEF ScopedHeads, A!Scopes
  <2>4. RecordsKept(manifest, observation, manifest', observation')
    BY <1>2, <1>4, <2>3 DEF RecordsKept, A!Scopes
  <2>5. Bound(manifest', observation')
    BY <1>1, <1>2, <1>3, <2>3 DEF Bound
  <2>6. Knows(y, manifest', observation')
    BY <1>2, <1>3, <2>2, <2>3 DEF Knows
  <2> QED BY <1>1, <1>2, <1>4, <2>2, <2>3, <2>4, <2>5, <2>6, CallerSteps
<1>5. CASE UNCHANGED <<manifest, caller>>
  <2>1. UNCHANGED A!vars
    BY <1>5 DEF A!MirrorManifest, A!vars
  <2> QED BY <2>1 DEF A!vars, AuthorityInv, AuthorityTyped
<1> QED BY <1>4, <1>5 DEF A!MirrorManifest

LEMMA MirrorEndKeeps ==
  ASSUME A!AuthorityAssumption, AuthorityInv, NEW c \in Callers, A!MirrorObservation(c)
  PROVE  AuthorityInv'
<1>1. manifest \in ScopedHeads /\ observation \in ScopedDecisions /\ Bound(manifest, observation)
  BY DEF AuthorityInv, AuthorityTyped
<1>2. /\ checkouts' \subseteq Heads /\ source' \in Heads /\ manifest' = manifest
      /\ admitted' = admitted /\ source' = source
  BY DEF AuthorityInv, AuthorityTyped, A!MirrorObservation
<1>3. /\ caller[c].saw = observation["main"] /\ observation["main"] # A!NoObservation
      /\ manifest["recovered"] = manifest["main"] /\ caller[c] \in Frames
  BY DEF AuthorityInv, AuthorityTyped, Knows, A!MirrorObservation, A!At
<1>4. CASE /\ observation["recovered"] \in {A!NoObservation, caller[c].saw}
           /\ observation' = [observation EXCEPT !["recovered"] = caller[c].saw]
           /\ caller' = [caller EXCEPT ![c].pc = "granted", ![c].head = manifest["recovered"]]
  <2> DEFINE y == For(caller[c], manifest["main"], "granted")
  <2>1. manifest["main"] \in Heads
    BY <1>1, <1>3 DEF Bound, ScopedHeads, A!Scopes
  <2>2. y \in Frames /\ y.pc = "granted"
    BY <1>3, <2>1, ForFrame DEF Points
  <2>3. caller' = [caller EXCEPT ![c] = y]
    BY <1>3, <1>4 DEF For, Frames
  <2> HIDE DEF y
  <2>4. /\ observation' \in ScopedDecisions /\ observation'["main"] = observation["main"]
        /\ observation'["recovered"] = observation["main"]
    BY <1>1, <1>3, <1>4 DEF ScopedDecisions, A!Scopes
  <2>5. RecordsKept(manifest, observation, manifest', observation')
    BY <1>2, <1>3, <1>4, <2>4 DEF RecordsKept, A!Scopes
  <2>6. Bound(manifest', observation')
    BY <1>1, <1>2, <1>3, <2>4 DEF Bound
  <2>7. Knows(y, manifest', observation')
    BY <2>2 DEF Knows
  <2> QED BY <1>1, <1>2, <2>2, <2>3, <2>4, <2>5, <2>6, <2>7, CallerSteps
<1>5. CASE A!Refuse(c) /\ UNCHANGED observation
  BY <1>2, <1>5, RefusalKeeps DEF A!store
<1> QED BY <1>4, <1>5 DEF A!MirrorObservation

(* The Runtime's guard admits only what the published records say.          *)
LEMMA ExecutionKeeps ==
  ASSUME AuthorityInv, NEW c \in Callers, A!Execute(c)
  PROVE  AuthorityInv'
<1> DEFINE s == caller[c].scope
           e == [scope |-> s, head |-> caller[c].head, by |-> observation[s].decision.by]
<1>1. manifest \in ScopedHeads /\ observation \in ScopedDecisions /\ Bound(manifest, observation)
  BY DEF AuthorityInv, AuthorityTyped
<1>2. /\ checkouts' \subseteq Heads /\ source' \in Heads /\ manifest' = manifest
      /\ observation' = observation /\ source' = source
  BY DEF AuthorityInv, AuthorityTyped, A!Execute, A!store
<1>3. s \in A!Scopes
  BY DEF AuthorityInv, AuthorityTyped, Frames
<1>4. CASE A!Guard(c) /\ admitted' = admitted \cup {e}
  <2>1. caller[c].head = manifest[s] /\ observation[s].decision.status = "approved"
    BY <1>4 DEF A!Guard
  <2>2. observation[s] # A!NoObservation
    BY <2>1 DEF A!NoObservation, A!NoDecision, A!None
  <2>3. observation[s] = observation["main"] /\ manifest[s] = manifest["main"]
    BY <1>1, <1>3, <2>2 DEF Bound, A!Scopes
  <2>4. e.head = caller[c].head /\ e.by = observation[s].decision.by
    OBVIOUS
  <2> HIDE DEF e
  <2>5. ExecutionBacked(e, manifest', observation')
    BY <1>2, <2>1, <2>2, <2>3, <2>4 DEF ExecutionBacked
  <2>6. RecordsKept(manifest, observation, manifest', observation') /\ Bound(manifest', observation')
    BY <1>1, <1>2, KeptSelf
  <2>7. Knows(A!Idle, manifest', observation') /\ A!Idle \in Frames
    BY IdleFrame, IdleKnows
  <2>8. caller' = [caller EXCEPT ![c] = A!Idle]
    BY DEF A!Execute, A!Refuse
  <2>9. \A x \in admitted' : x \in admitted \/ ExecutionBacked(x, manifest', observation')
    BY <1>4, <2>5
  <2> QED BY <1>1, <1>2, <2>6, <2>7, <2>8, <2>9, CallerSteps
<1>5. CASE admitted' = admitted
  BY <1>2, <1>5, RefusalKeeps DEF A!Execute, A!store
<1> QED BY <1>4, <1>5 DEF A!Execute

LEMMA SourceKeeps ==
  ASSUME AuthorityInv, A!SourceMoves
  PROVE  AuthorityInv'
BY DEF AuthorityInv, AuthorityTyped, A!SourceMoves, A!store

LEMMA CallerGone ==
  ASSUME AuthorityInv, NEW c \in Callers, A!Crash(c)
  PROVE  AuthorityInv'
<1>1. checkouts' \subseteq Heads /\ A!Refuse(c) /\ UNCHANGED <<source, A!store, admitted>>
  BY DEF AuthorityInv, AuthorityTyped, A!Crash
<1> QED BY <1>1, RefusalKeeps

LEMMA AuthorityInit == A!Init => AuthorityInv
<1> SUFFICES ASSUME A!Init PROVE AuthorityInv
  OBVIOUS
<1>1. AuthorityTyped
  BY IdleFrame DEF A!Init, AuthorityTyped, ScopedHeads, ScopedDecisions, Observations
<1>2. \A c \in Callers : Knows(caller[c], manifest, observation)
  BY IdleKnows DEF A!Init
<1>3. Bound(manifest, observation) /\ admitted = {}
  BY DEF A!Init, Bound, A!Scopes
<1> QED BY <1>1, <1>2, <1>3 DEF AuthorityInv

LEMMA AuthorityStep == ASSUME A!AuthorityAssumption PROVE AuthorityInv /\ [A!Next]_(A!vars) => AuthorityInv'
<1> SUFFICES ASSUME AuthorityInv, [A!Next]_(A!vars) PROVE AuthorityInv'
  OBVIOUS
<1>1. CASE UNCHANGED A!vars
  BY <1>1 DEF A!vars, AuthorityInv, AuthorityTyped
<1>2. ASSUME NEW c \in Callers, NEW d \in Decisions, A!PrepareApproved(c, d) PROVE AuthorityInv'
  BY <1>2, PrepareKeeps
<1>3. ASSUME NEW c \in Callers, A!IdentityFor(c) PROVE AuthorityInv'
  BY <1>3, IdentityKeeps
<1>4. ASSUME NEW c \in Callers, A!PublishCheckout(c) PROVE AuthorityInv'
  BY <1>4, CheckoutKeeps
<1>5. ASSUME NEW c \in Callers, A!HasCheckpoint(c) PROVE AuthorityInv'
  BY <1>5, CheckpointLooked
<1>6. ASSUME NEW c \in Callers, A!CreateCheckpoint(c) PROVE AuthorityInv'
  BY <1>6, CheckpointCreated
<1>7. ASSUME NEW c \in Callers, A!PublishApproval(c) PROVE AuthorityInv'
  BY <1>7, PublishKeeps
<1>8. ASSUME NEW c \in Callers, A!MirrorManifest(c) PROVE AuthorityInv'
  BY <1>8, MirrorKeeps
<1>9. ASSUME NEW c \in Callers, A!MirrorObservation(c) PROVE AuthorityInv'
  BY <1>9, MirrorEndKeeps
<1>10. ASSUME NEW c \in Callers, A!Execute(c) PROVE AuthorityInv'
  BY <1>10, ExecutionKeeps
<1>11. ASSUME NEW c \in Callers, A!Crash(c) PROVE AuthorityInv'
  BY <1>11, CallerGone
<1>12. CASE A!SourceMoves
  BY <1>12, SourceKeeps
<1> QED BY <1>1, <1>2, <1>3, <1>4, <1>5, <1>6, <1>7, <1>8, <1>9, <1>10, <1>11, <1>12 DEF A!Next

(* The invariant says who executed with what; the report agrees.            *)
LEMMA AuthorityGives == ASSUME A!AuthorityAssumption PROVE AuthorityInv => A!OneAuthority
<1> SUFFICES ASSUME AuthorityInv PROVE A!OneAuthority
  OBVIOUS
<1>1. Bound(manifest, observation)
  BY DEF AuthorityInv
<1>2. ASSUME NEW s \in A!Scopes, observation[s] # A!NoObservation
      PROVE  observation[s] = observation["main"] /\ observation[s].answers = manifest[s]
  BY <1>1, <1>2 DEF Bound, A!Scopes
<1>3. ASSUME NEW e \in admitted
      PROVE  /\ A!RefusalCode = A!None /\ e.head = manifest["main"]
             /\ e.by = observation["main"].decision.by
  <2>1. ExecutionBacked(e, manifest, observation)
    BY <1>3 DEF AuthorityInv
  <2>2. Signs /\ Trusts /\ manifest["main"] # A!None /\ observation["main"] # A!NoObservation
    BY <1>1, <2>1 DEF ExecutionBacked, Bound
  <2>3. observation["main"].decision.status # "rejected"
    BY <2>1 DEF ExecutionBacked
  <2>4. A!RefusalCode = A!None
    BY <2>2, <2>3 DEF A!RefusalCode
  <2> QED BY <2>1, <2>4 DEF ExecutionBacked
<1> QED BY <1>2, <1>3 DEF A!OneAuthority

(* One decision and one revision stand behind every execution, for any      *)
(* number of callers, revisions and decisions, in either mode of binding    *)
(* (publishApproval, mirrorPersistedApprovalAuthority).                     *)
THEOREM AuthorityCorrect == ASSUME A!AuthorityAssumption PROVE A!Spec => []A!OneAuthority
<1>1. A!Init => AuthorityInv
  BY AuthorityInit
<1>2. AuthorityInv /\ [A!Next]_(A!vars) => AuthorityInv'
  BY AuthorityStep
<1>3. AuthorityInv => A!OneAuthority
  BY AuthorityGives
<1> QED BY <1>1, <1>2, <1>3, PTL DEF A!Spec

LEMMA ApprovalSteps == [ServicesNext]_tables => [A!Next]_(A!vars)
BY DEF ServicesNext, IntakeStep, ApprovalStep, ObservationStep, GraphStep, GenericStep, CommandStep, BoardStep,
       RunStep, BridgeStep, DatabaseStep, ScheduleStep, LedgerStep, IntentStep, CloseoutStep, tables, approvals, A!vars

(* Beside the other services, one decision and one revision stand behind     *)
(* every execution the approval authority admits (publishApproval).          *)
THEOREM AuthorityKept == ServicesSpec => []OneAuthority
<1>1. ServicesInit => A!Init
  BY DEF ServicesInit
<1>2. ServicesSpec => A!Spec
  BY <1>1, ApprovalSteps, PTL DEF ServicesSpec, A!Spec
<1>3. A!Spec => []A!OneAuthority
  BY ServicesAssumption, AuthorityCorrect
<1> QED
  BY <1>2, <1>3, PTL DEF OneAuthority

-------------------------------------------------------------------------------
(* The run contracts: whatever a manifest and a task went through.          *)
Manifests ==
  [product : {"operator", "loop_governor", "safecommit", "autoposter"},
   verdict : {Unset, "accepted", "rejected", "blocked", "needs_human_review"},
   state : R!Stages, validation : {Unset, "passed", "failed"}, evidence : Nat,
   failure : R!Stages \cup {Unset}, stamps : [R!Stages -> Nat \cup {Unset}]]
Proven(m) ==
  /\ m.validation = "passed" /\ m.evidence > 0
  /\ \A s, t \in R!Stages : R!Stage[s] < R!Stage[t] => m.stamps[s] <= m.stamps[t]
(* Who says COMPLETE without a failure has the proof of it.                 *)
Earned(m) ==
  /\ m.state = "COMPLETE" /\ m.failure = Unset
  /\ m.product # "safecommit" \/ m.verdict = "accepted"
  => Proven(m)
RunTasks ==
  [status : {"draft", "planned", "approval_required", "approved", "executing", "validating",
             "completed", "failed", "blocked", "cancelled"},
   gated : BOOLEAN, approved : BOOLEAN, validation : {Unset, "passed", "failed"},
   result : {Unset, "success", "failure"}, evidence : Nat]
(* A task that is past its approval has it, and says success only when      *)
(* completed on a passed validation.                                        *)
Allowed(k) ==
  /\ k.status \in {"approved", "executing", "validating", "completed", "failed"} /\ k.gated => k.approved
  /\ (k.status = "completed") <=> (k.result = "success")
  /\ k.status = "completed" => k.validation = "passed"
RunInv ==
  /\ now \in 0..MaxClock
  /\ run # Unset => run \in Manifests /\ Earned(run)
  /\ assignment # Unset => assignment \in RunTasks /\ Allowed(assignment)

LEMMA LifecycleFacts ==
  /\ R!Stages = {"PLAN", "EXECUTE", "VALIDATE", "EVIDENCE", "HUMAN_REVIEW", "COMPLETE"}
  /\ R!Stage["PLAN"] = 1 /\ R!Stage["EXECUTE"] = 2 /\ R!Stage["VALIDATE"] = 3 /\ R!Stage["EVIDENCE"] = 4
  /\ R!Stage["HUMAN_REVIEW"] = 5 /\ R!Stage["COMPLETE"] = 6
BY DEF R!Stages, R!Stage

(* verifyCompletedManifest asks for all that Proven says. *)
LEMMA VerifiedIsProven ==
  ASSUME NEW m, R!VerifyCompleted(m)
  PROVE  Proven(m)
BY DEF R!VerifyCompleted, R!Ordered, Proven

LEMMA FailureKeeps ==
  ASSUME R!RunAssumption, NEW m \in Manifests, NEW at \in R!Stages
  PROVE  R!RecordFailure(m, at) \in Manifests /\ Earned(R!RecordFailure(m, at))
<1>1. R!RecordFailure(m, at) \in Manifests
  BY DEF R!RecordFailure, Manifests
<1>2. R!RecordFailure(m, at).failure = at
  BY DEF R!RecordFailure, Manifests
<1> QED
  BY <1>1, <1>2 DEF Earned, R!RunAssumption

LEMMA EnterKeeps ==
  ASSUME R!RunAssumption, NEW m \in Manifests, NEW to \in R!Stages, now \in Nat
  PROVE  R!Enter(m, to) \in Manifests /\ R!Enter(m, to).state = to /\ Earned(R!Enter(m, to))
<1> DEFINE c == [m EXCEPT !.state = to, !.stamps[to] = now]
<1>1. c \in Manifests /\ c.state = to
  BY DEF Manifests
<1>2. CASE to = "VALIDATE"
  <2>1. R!Enter(m, to) = [c EXCEPT !.validation = "passed"]
    BY <1>2 DEF R!Enter
  <2> HIDE DEF c
  <2>2. R!Enter(m, to) \in Manifests /\ R!Enter(m, to).state = to
    BY <1>1, <2>1 DEF Manifests
  <2> QED
    BY <2>2, <1>2 DEF Earned
<1>3. CASE to = "EVIDENCE"
  <2>1. R!Enter(m, to) = [c EXCEPT !.evidence = @ + 2]
    BY <1>3 DEF R!Enter
  <2> HIDE DEF c
  <2>2. R!Enter(m, to) \in Manifests /\ R!Enter(m, to).state = to
    BY <1>1, <2>1 DEF Manifests
  <2> QED
    BY <2>2, <1>3 DEF Earned
<1>4. CASE to = "COMPLETE"
  <2>1. R!Enter(m, to) = R!MockComplete(c)
    BY <1>4 DEF R!Enter
  <2> HIDE DEF c
  <2>2. CASE R!VerifyCompleted(c)
    BY <1>1, <2>1, <2>2, VerifiedIsProven DEF R!MockComplete, Earned
  <2>3. CASE ~R!VerifyCompleted(c)
    <3>1. R!Enter(m, to) = R!RecordFailure(c, "COMPLETE") /\ "COMPLETE" \in R!Stages
      BY <2>1, <2>3, LifecycleFacts DEF R!MockComplete
    <3>2. R!RecordFailure(c, "COMPLETE").state = c.state
      BY <1>1 DEF R!RecordFailure, Manifests
    <3> QED
      BY <1>1, <3>1, <3>2, FailureKeeps
  <2> QED
    BY <2>2, <2>3
<1>5. CASE to \notin {"VALIDATE", "EVIDENCE", "COMPLETE"}
  <2>1. R!Enter(m, to) = c
    BY <1>5 DEF R!Enter
  <2> HIDE DEF c
  <2> QED
    BY <1>1, <1>5, <2>1 DEF Earned
<1> QED
  BY <1>2, <1>3, <1>4, <1>5

LEMMA PassKeeps ==
  ASSUME R!RunAssumption, NEW m \in Manifests, Earned(m), NEW to \in R!Stages, now \in Nat
  PROVE  R!Pass(m, to) \in Manifests /\ Earned(R!Pass(m, to))
BY EnterKeeps DEF R!Pass

LEMMA MappedKeeps ==
  ASSUME R!RunAssumption, now \in Nat,
         NEW product \in {"loop_governor", "safecommit", "autoposter"},
         NEW ruling \in {Unset, "accepted", "rejected", "blocked", "needs_human_review"},
         NEW state \in R!Stages, NEW report \in R!Reports, NEW extra \in Nat, NEW failed \in BOOLEAN
  PROVE  /\ R!Mapped(product, ruling, state, report, extra, failed) \in Manifests
         /\ failed => R!Mapped(product, ruling, state, report, extra, failed).failure # Unset
<1>1. R!BuildStamps(state, report.stamps) \in [R!Stages -> Nat \cup {Unset}]
  BY DEF R!BuildStamps, R!Reports, R!Given
<1>2. report.validation \in {Unset, "passed", "failed"} /\ report.evidence \in Nat
  BY DEF R!Reports
<1> QED
  BY <1>1, <1>2 DEF R!Mapped, Manifests, R!RunAssumption

-------------------------------------------------------------------------------
LEMMA RunsInit == ASSUME R!RunAssumption PROVE R!Init => RunInv
BY DEF R!Init, RunInv, R!RunAssumption

LEMMA EmptyKeeps ==
  ASSUME R!RunAssumption, RunInv, R!CreateEmptyManifest
  PROVE  RunInv'
<1>1. R!EmptyManifest \in Manifests /\ R!EmptyManifest.state = "PLAN"
  BY LifecycleFacts DEF R!EmptyManifest, Manifests, RunInv
<1>2. Earned(R!EmptyManifest)
  BY <1>1 DEF Earned
<1> QED
  BY <1>1, <1>2 DEF R!CreateEmptyManifest, RunInv

LEMMA TransitionKeeps ==
  ASSUME R!RunAssumption, RunInv, NEW to \in R!Stages, R!Transition(to)
  PROVE  RunInv'
BY EnterKeeps DEF R!Transition, RunInv

LEMMA ExecuteKeeps ==
  ASSUME R!RunAssumption, RunInv, R!Execute
  PROVE  RunInv'
<1> DEFINE a == R!Pass(run, "EXECUTE")
           b == R!Pass(a, "VALIDATE")
           c == R!Pass(b, "EVIDENCE")
           d == R!Pass(c, "HUMAN_REVIEW")
           e == R!Pass(d, "COMPLETE")
<1>0. now \in Nat /\ run' = e /\ run \in Manifests /\ Earned(run) /\ UNCHANGED <<assignment, now>>
  BY DEF R!Execute, RunInv
<1>1. a \in Manifests /\ Earned(a)
  BY <1>0, PassKeeps, LifecycleFacts
<1> HIDE DEF a
<1>2. b \in Manifests /\ Earned(b)
  BY <1>0, <1>1, PassKeeps, LifecycleFacts
<1> HIDE DEF b
<1>3. c \in Manifests /\ Earned(c)
  BY <1>0, <1>2, PassKeeps, LifecycleFacts
<1> HIDE DEF c
<1>4. d \in Manifests /\ Earned(d)
  BY <1>0, <1>3, PassKeeps, LifecycleFacts
<1> HIDE DEF d
<1>5. e \in Manifests /\ Earned(e)
  BY <1>0, <1>4, PassKeeps, LifecycleFacts
<1> QED
  BY <1>0, <1>5 DEF RunInv

LEMMA CancelRunKeeps ==
  ASSUME R!RunAssumption, RunInv, R!CancelRun
  PROVE  RunInv'
<1>1. run \in Manifests /\ run.state \in R!Stages
  BY DEF R!CancelRun, RunInv, Manifests
<1> QED
  BY <1>1, FailureKeeps DEF R!CancelRun, RunInv

(* What an adapter accepts is earned if it was verified wherever it counts. *)
LEMMA AcceptKeeps ==
  ASSUME RunInv, NEW m \in Manifests, NEW verified \in BOOLEAN, R!Accept(m, verified),
         m.state = "COMPLETE" /\ m.failure = Unset /\ (m.product # "safecommit" \/ m.verdict = "accepted")
           => verified
  PROVE  RunInv'
<1>1. Earned(m)
  BY VerifiedIsProven DEF R!Accept, Earned
<1> QED
  BY <1>1 DEF R!Accept, RunInv

LEMMA LoopKeeps ==
  ASSUME R!RunAssumption, RunInv, NEW reported \in DOMAIN R!LoopState, NEW report \in R!Reports,
         R!MapLoopGovernorRun(reported, report)
  PROVE  RunInv'
<1> DEFINE state == R!LoopState[reported]
           failed == reported \in R!Fruitless
           m == R!Mapped("loop_governor", Unset, state, report, 0, failed)
<1>1. state \in R!Stages
  BY LifecycleFacts DEF R!LoopState
<1>2. now \in Nat /\ failed \in BOOLEAN
  BY DEF RunInv
<1>3. R!Accept(m, state = "COMPLETE" /\ ~failed)
  BY DEF R!MapLoopGovernorRun
<1>4. m.state = state
  BY DEF R!Mapped
<1> HIDE DEF state, failed
<1>5. m \in Manifests /\ (failed => m.failure # Unset)
  BY <1>1, <1>2, MappedKeeps
<1> HIDE DEF m
<1> QED
  BY <1>3, <1>4, <1>5, AcceptKeeps

LEMMA ReviewKeeps ==
  ASSUME R!RunAssumption, RunInv, NEW reported \in DOMAIN R!ReviewState, NEW report \in R!Reports,
         NEW ruling \in {Unset, "accepted", "rejected", "blocked", "needs_human_review"},
         R!MapSafeCommitReview(reported, report, ruling)
  PROVE  RunInv'
<1> DEFINE state == R!ReviewState[reported]
           failed == ruling \in {"rejected", "blocked"}
           m == R!Mapped("safecommit", ruling, state, report, report.extra, failed)
<1>1. state \in R!Stages
  BY LifecycleFacts DEF R!ReviewState
<1>2. now \in Nat /\ failed \in BOOLEAN /\ report.extra \in Nat
  BY DEF RunInv, R!Reports
<1>3. R!Accept(m, state = "COMPLETE" /\ ruling = "accepted")
  BY DEF R!MapSafeCommitReview
<1>4. m.state = state /\ m.verdict = ruling /\ m.product = "safecommit"
  BY DEF R!Mapped
<1> HIDE DEF state, failed
<1>5. m \in Manifests
  BY <1>1, <1>2, MappedKeeps
<1> HIDE DEF m
<1> QED
  BY <1>3, <1>4, <1>5, AcceptKeeps

LEMMA PostKeeps ==
  ASSUME R!RunAssumption, RunInv, NEW reported \in DOMAIN R!PostState, NEW report \in R!Reports,
         R!MapAutoPosterRun(reported, report)
  PROVE  RunInv'
<1> DEFINE state == R!PostState[reported]
           failed == reported \in R!Fruitless
           m == R!Mapped("autoposter", Unset, state, report, report.extra, failed)
<1>1. state \in R!Stages
  BY LifecycleFacts DEF R!PostState
<1>2. now \in Nat /\ failed \in BOOLEAN /\ report.extra \in Nat
  BY DEF RunInv, R!Reports
<1>3. R!Accept(m, state = "COMPLETE" /\ ~failed)
  BY DEF R!MapAutoPosterRun
<1>4. m.state = state
  BY DEF R!Mapped
<1> HIDE DEF state, failed
<1>5. m \in Manifests /\ (failed => m.failure # Unset)
  BY <1>1, <1>2, MappedKeeps
<1> HIDE DEF m
<1> QED
  BY <1>3, <1>4, <1>5, AcceptKeeps

-------------------------------------------------------------------------------
LEMMA CreateTaskKeeps ==
  ASSUME R!RunAssumption, RunInv, NEW gated \in BOOLEAN, R!CreateTask(gated)
  PROVE  RunInv'
<1> DEFINE k == [status |-> "draft", gated |-> gated, approved |-> FALSE, validation |-> Unset,
                 result |-> Unset, evidence |-> 0]
<1>1. k \in RunTasks /\ Allowed(k)
  BY DEF RunTasks, Allowed, R!RunAssumption
<1>2. assignment' = k /\ UNCHANGED <<run, now>>
  BY DEF R!CreateTask
<1> HIDE DEF k
<1> QED
  BY <1>1, <1>2 DEF RunInv

(* Where transitionTo lets a task go. *)
LEMMA MoveGoes ==
  ASSUME RunInv, NEW to, NEW next, R!Move(to, next)
  PROVE  /\ assignment # Unset /\ assignment \in RunTasks /\ Allowed(assignment)
         /\ assignment' = [next EXCEPT !.status = to] /\ UNCHANGED <<run, now>>
         /\ assignment.status \notin R!Terminal
         /\ to \in {"approved"} => assignment.status = "approval_required"
         /\ to = "executing" => assignment.status = "approved" \/ (assignment.status = "planned" /\ ~assignment.gated)
         /\ to = "validating" => assignment.status = "executing"
         /\ to \in {"completed", "failed"} => assignment.status = "validating"
<1>1. assignment # Unset /\ assignment \in RunTasks /\ Allowed(assignment) /\ assignment.status \in DOMAIN R!TaskNext(assignment.gated)
  BY DEF R!Move, RunInv, RunTasks, R!TaskNext
<1>2. to \in R!TaskNext(assignment.gated)[assignment.status]
  BY DEF R!Move
<1> QED
  BY <1>1, <1>2 DEF R!Move, R!TaskNext, R!Terminal, RunTasks

LEMMA TaskKeeps ==
  ASSUME R!RunAssumption, RunInv,
         \/ R!AttachPlan \/ R!RequireApproval \/ R!ApproveTask \/ R!StartExecution \/ R!StartValidation
         \/ R!BlockTask \/ R!CancelTask \/ R!FailTask \/ R!CompleteTask
  PROVE  RunInv'
<1> SUFFICES assignment' # Unset => assignment' \in RunTasks /\ Allowed(assignment')
  BY DEF RunInv, R!AttachPlan, R!RequireApproval, R!ApproveTask, R!StartExecution, R!StartValidation,
         R!BlockTask, R!CancelTask, R!FailTask, R!CompleteTask, R!Move
<1>1. CASE R!AttachPlan
  <2> DEFINE n == [assignment EXCEPT !.approved = FALSE]
  <2>1. R!Move("planned", n)
    BY <1>1 DEF R!AttachPlan
  <2>2. assignment \in RunTasks /\ Allowed(assignment) /\ assignment.status \notin R!Terminal
    BY <2>1, MoveGoes
  <2>3. /\ n \in RunTasks /\ n.approved = FALSE /\ n.status = assignment.status /\ n.gated = assignment.gated
        /\ n.validation = assignment.validation /\ n.result = assignment.result
    BY <2>2 DEF RunTasks
  <2>4. assignment' = [n EXCEPT !.status = "planned"]
    BY <2>1, MoveGoes
  <2> HIDE DEF n
  <2> QED
    BY <2>2, <2>3, <2>4 DEF RunTasks, Allowed, R!Terminal
<1>2. CASE R!RequireApproval
  BY <1>2, MoveGoes DEF R!RequireApproval, RunTasks, Allowed, R!Terminal
<1>3. CASE R!ApproveTask
  <2> DEFINE n == [assignment EXCEPT !.approved = TRUE]
  <2>1. R!Move("approved", n)
    BY <1>3 DEF R!ApproveTask
  <2>2. assignment \in RunTasks /\ Allowed(assignment) /\ assignment.status \notin R!Terminal
    BY <2>1, MoveGoes
  <2>3. /\ n \in RunTasks /\ n.approved = TRUE /\ n.status = assignment.status /\ n.gated = assignment.gated
        /\ n.validation = assignment.validation /\ n.result = assignment.result
    BY <2>2 DEF RunTasks
  <2>4. assignment' = [n EXCEPT !.status = "approved"]
    BY <2>1, MoveGoes
  <2> HIDE DEF n
  <2> QED
    BY <2>2, <2>3, <2>4 DEF RunTasks, Allowed, R!Terminal
<1>4. CASE R!StartExecution
  BY <1>4, MoveGoes DEF R!StartExecution, RunTasks, Allowed, R!Terminal
<1>5. CASE R!StartValidation
  BY <1>5, MoveGoes DEF R!StartValidation, RunTasks, Allowed, R!Terminal
<1>6. CASE R!BlockTask
  BY <1>6, MoveGoes DEF R!BlockTask, RunTasks, Allowed, R!Terminal
<1>7. CASE R!CancelTask
  BY <1>7, MoveGoes DEF R!CancelTask, RunTasks, Allowed, R!Terminal
<1>8. CASE R!FailTask
  BY <1>8, MoveGoes DEF R!FailTask, RunTasks, Allowed, R!Terminal
<1>9. CASE R!CompleteTask
  BY <1>9, MoveGoes DEF R!CompleteTask, RunTasks, Allowed, R!Terminal
<1> QED
  BY <1>1, <1>2, <1>3, <1>4, <1>5, <1>6, <1>7, <1>8, <1>9

LEMMA RecordKeeps ==
  ASSUME R!RunAssumption, RunInv,
         R!AttachEvidence \/ \E ruling \in {"passed", "failed"} : R!RecordValidation(ruling)
  PROVE  RunInv'
<1>1. CASE R!AttachEvidence
  BY <1>1 DEF R!AttachEvidence, RunInv, RunTasks, Allowed
<1>2. ASSUME NEW ruling \in {"passed", "failed"}, R!RecordValidation(ruling) PROVE RunInv'
  BY <1>2 DEF R!RecordValidation, RunInv, RunTasks, Allowed
<1> QED
  BY <1>1, <1>2

LEMMA RunsNext ==
  ASSUME R!RunAssumption, RunInv, [R!Next]_(R!vars)
  PROVE  RunInv'
<1>1. CASE R!RunNext
  <2>1. CASE R!Tick
    BY <2>1 DEF R!Tick, RunInv, R!RunAssumption
  <2> QED
    BY <1>1, <2>1, EmptyKeeps, ExecuteKeeps, CancelRunKeeps, TransitionKeeps, LoopKeeps, ReviewKeeps, PostKeeps
    DEF R!RunNext
<1>2. CASE R!BridgeNext
  BY <1>2, CreateTaskKeeps, TaskKeeps, RecordKeeps DEF R!BridgeNext, R!PassValidation, R!FailValidation
<1>3. CASE UNCHANGED R!vars
  BY <1>3 DEF R!vars, RunInv
<1> QED
  BY <1>1, <1>2, <1>3 DEF R!Next

LEMMA RunsEarned == RunInv => R!CompletionIsEarned
BY DEF RunInv, Earned, Proven, Allowed, R!CompletionIsEarned

(* For any clock and evidence, by whatever operations and reports in any    *)
(* order, completion is earned (CompletionIsEarned).                        *)
THEOREM CompletionEarned == ASSUME R!RunAssumption PROVE R!Spec => []R!CompletionIsEarned
<1>1. R!Spec => []RunInv
  BY RunsInit, RunsNext, PTL DEF R!Spec
<1> QED
  BY <1>1, RunsEarned, PTL

LEMMA RunSteps == [ServicesNext]_tables => [R!Next]_(R!vars)
BY DEF ServicesNext, IntakeStep, ApprovalStep, ObservationStep, GraphStep, GenericStep, CommandStep, BoardStep,
       RunStep, BridgeStep, DatabaseStep, ScheduleStep, LedgerStep, IntentStep, CloseoutStep, tables, runs, R!vars, R!Next

(* Beside the other services, a manifest that is COMPLETE without a failure  *)
(* and a completed task have earned it (verifyCompletedManifest, tasks.ts).  *)
THEOREM RunsKept == ServicesSpec => []CompletionIsEarned
<1>1. ServicesInit => R!Init
  BY DEF ServicesInit
<1>2. ServicesSpec => R!Spec
  BY <1>1, RunSteps, PTL DEF ServicesSpec, R!Spec
<1>3. R!Spec => []R!CompletionIsEarned
  BY ServicesAssumption, CompletionEarned
<1> QED
  BY <1>2, <1>3, PTL DEF CompletionIsEarned

-------------------------------------------------------------------------------
(* The database: what each migration leaves for the ones after it.          *)
FromProof == {"sound", "replays", "lane", "cancelled", "nodes", "results", "observations", "commands", "open"}
FromSound == FromProof \ {"sound"}
FromReplays == FromSound \ {"replays"}
FromNodes == {"results", "observations", "commands", "open"}
Reviewed(d, these) == \A t \in these : d.added[t] = "reviewed"

(* What every migration a process has behind it has left in the file.       *)
Behind(o, d) ==
  /\ o.pc = "schema" \/ o.pc = "proof" \/ o.pc \in FromProof => Reviewed(d, D!CloseoutTables)
  /\ o.pc \in FromProof => d.proof = "there"
  /\ o.pc \in FromSound => d.sound = "reviewed"
  /\ o.pc \in FromReplays => (d.replayed > 0 => d.marked)
  /\ o.pc \in FromNodes => d.nodes = "2e"
  /\ o.pc \in FromNodes \ {"results"} => Reviewed(d, D!ResultTables)
  /\ o.pc \in {"commands", "open"} => Reviewed(d, D!ObservationTables)
  /\ o.pc = "open" => Reviewed(d, D!CommandTables)
(* What it has read for its next one: the other tables are there.           *)
ReadFor(o, d) ==
  o.pc \in DOMAIN D!Added /\ o.missing # {} => Reviewed(d, D!Added[o.pc] \ o.missing)
(* Nothing unknown comes into a file, and no row is lost.                   *)
Faithful(d) ==
  /\ \A t \in D!AddedTables : d.added[t] = "other" => begun.added[t] = "other"
  /\ d.nodes = "other" => begun.nodes = "other"
  /\ d.sound = "other" => begun.sound = "other"
  /\ d.replayed = begun.replayed
  /\ d.rows = written
DbInv ==
  /\ D!TypeOK /\ Faithful(db)
  /\ \A p \in Openers : Behind(opener[p], db) /\ ReadFor(opener[p], db)
                        /\ (opener[p].pc = "refused" => D!Unknown(begun))
(* What is reviewed in a file stays so.                                     *)
Grown(d, e) ==
  /\ \A t \in D!AddedTables : d.added[t] = "reviewed" => e.added[t] = "reviewed"
  /\ d.proof = "there" => e.proof = "there"
  /\ d.sound = "reviewed" => e.sound = "reviewed"
  /\ d.nodes = "2e" => e.nodes = "2e"
  /\ d.marked => e.marked
  /\ d.replayed = e.replayed
(* What the migration of a stage is there for.                              *)
Achieved(stage, d) ==
  /\ stage \in DOMAIN D!Added => Reviewed(d, D!Added[stage])
  /\ stage = "proof" => d.proof = "there"
  /\ stage = "sound" => d.sound = "reviewed"
  /\ stage = "replays" => (d.replayed > 0 => d.marked)
  /\ stage = "nodes" => d.nodes = "2e"
Anew(pc) == [pc |-> pc, missing |-> {}]
Pcs == DOMAIN D!Then \cup {"closed", "open", "refused", "lost"}
Columns == {"proof", "sound", "nodes"}
OpenerStates == [pc : Pcs, missing : SUBSET (D!AddedTables \cup Columns)]

LEMMA StageFacts ==
  /\ DOMAIN D!Added = {"closeouts", "results", "observations", "commands"}
  /\ D!Added["closeouts"] = D!CloseoutTables /\ D!Added["results"] = D!ResultTables
  /\ D!Added["observations"] = D!ObservationTables /\ D!Added["commands"] = D!CommandTables
  /\ D!AddedTables = D!CloseoutTables \cup D!ResultTables \cup D!ObservationTables \cup D!CommandTables
  /\ DOMAIN D!Then = {"closeouts", "schema", "proof", "sound", "replays", "lane", "cancelled", "nodes",
                    "results", "observations", "commands"}
  /\ \A s \in DOMAIN D!Then : D!Then[s] \in DOMAIN D!Then \cup {"open"}
<1>1. /\ DOMAIN D!Added = {"closeouts", "results", "observations", "commands"}
      /\ D!Added["closeouts"] = D!CloseoutTables /\ D!Added["results"] = D!ResultTables
      /\ D!Added["observations"] = D!ObservationTables /\ D!Added["commands"] = D!CommandTables
  BY DEF D!Added
<1>2. D!AddedTables = D!CloseoutTables \cup D!ResultTables \cup D!ObservationTables \cup D!CommandTables
  BY <1>1 DEF D!AddedTables
<1>3. /\ DOMAIN D!Then = {"closeouts", "schema", "proof", "sound", "replays", "lane", "cancelled", "nodes",
                        "results", "observations", "commands"}
      /\ \A s \in DOMAIN D!Then : D!Then[s] \in DOMAIN D!Then \cup {"open"}
  BY DEF D!Then
<1> QED
  BY <1>1, <1>2, <1>3

LEMMA GrownKeeps ==
  ASSUME NEW o, NEW d, NEW e, Grown(d, e)
  PROVE  (Behind(o, d) => Behind(o, e)) /\ (ReadFor(o, d) => ReadFor(o, e))
<1>1. \A these \in SUBSET D!AddedTables : Reviewed(d, these) => Reviewed(e, these)
  BY DEF Reviewed, Grown
<1>2. Behind(o, d) => Behind(o, e)
  BY <1>1, StageFacts DEF Behind, Grown
<1>3. ReadFor(o, d) => ReadFor(o, e)
  BY <1>1, StageFacts DEF ReadFor
<1> QED
  BY <1>2, <1>3

LEMMA GrownSelf == ASSUME NEW d PROVE Grown(d, d)
BY DEF Grown

(* A process that achieved its stage has it behind it in the next one.      *)
LEMMA NextBehind ==
  ASSUME NEW o, NEW d, o.pc \in DOMAIN D!Then, Behind(o, d), Achieved(o.pc, d)
  PROVE  Behind(Anew(D!Then[o.pc]), d)
<1> DEFINE n == Anew(D!Then[o.pc])
<1>1. n.pc = D!Then[o.pc]
  BY DEF Anew
<1>2. /\ D!Then["closeouts"] = "schema" /\ D!Then["schema"] = "proof" /\ D!Then["proof"] = "sound"
      /\ D!Then["sound"] = "replays" /\ D!Then["replays"] = "lane" /\ D!Then["lane"] = "cancelled"
      /\ D!Then["cancelled"] = "nodes" /\ D!Then["nodes"] = "results" /\ D!Then["results"] = "observations"
      /\ D!Then["observations"] = "commands" /\ D!Then["commands"] = "open"
  BY DEF D!Then
<1> HIDE DEF n
<1>3. Behind(n, d)
  BY <1>1, <1>2, StageFacts DEF Behind, Achieved, FromProof, FromSound, FromReplays, FromNodes
<1> QED
  BY <1>3 DEF n

LEMMA StartBehind ==
  ASSUME NEW d, NEW pc \in {"closed", "refused", "lost", "closeouts"}
  PROVE  Behind(Anew(pc), d)
<1>1. Anew(pc).pc = pc
  BY DEF Anew
<1> QED
  BY <1>1 DEF Behind, FromProof, FromSound, FromReplays, FromNodes

LEMMA AnewReads == ASSUME NEW d, NEW pc PROVE ReadFor(Anew(pc), d)
BY DEF Anew, ReadFor

LEMMA AnewTyped == ASSUME NEW pc \in Pcs PROVE Anew(pc) \in OpenerStates /\ Anew(pc).pc = pc
BY DEF Anew, OpenerStates

(* One process moves, and the file grows: all that held holds.              *)
LEMMA MoveKeeps ==
  ASSUME DbInv, NEW p \in Openers, NEW n \in OpenerStates, opener' = [opener EXCEPT ![p] = n],
         db' \in D!Files, Grown(db, db'), Faithful(db)', begun' = begun, written' \in Nat,
         deaths' \in 0..Troubles,
         Behind(n, db'), ReadFor(n, db'), n.pc = "refused" => D!Unknown(begun)
  PROVE  DbInv'
<1>1. D!TypeOK'
  BY DEF DbInv, D!TypeOK, OpenerStates, Pcs, Columns
<1>2. ASSUME NEW q \in Openers
      PROVE  /\ Behind(opener'[q], db') /\ ReadFor(opener'[q], db')
             /\ opener'[q].pc = "refused" => D!Unknown(begun')
  <2>1. CASE q = p
    <3>1. opener'[q] = n
      BY <2>1 DEF DbInv, D!TypeOK
    <3> QED
      BY <3>1
  <2>2. CASE q # p
    <3>1. opener'[q] = opener[q]
      BY <2>2 DEF DbInv, D!TypeOK
    <3>2. Behind(opener[q], db) /\ ReadFor(opener[q], db) /\ (opener[q].pc = "refused" => D!Unknown(begun))
      BY DEF DbInv
    <3> QED
      BY <3>1, <3>2, GrownKeeps
  <2> QED
    BY <2>1, <2>2
<1> QED
  BY <1>1, <1>2 DEF DbInv

(* The process goes elsewhere and the file is as it was.                    *)
LEMMA GoKeeps ==
  ASSUME DbInv, NEW p \in Openers, NEW pc \in Pcs, D!Go(p, pc),
         UNCHANGED <<db, begun, written>>, deaths' \in 0..Troubles,
         Behind(Anew(pc), db), pc = "refused" => D!Unknown(begun)
  PROVE  DbInv'
<1>1. opener' = [opener EXCEPT ![p] = Anew(pc)]
  BY DEF D!Go, Anew
<1>2. Anew(pc) \in OpenerStates /\ Anew(pc).pc = pc
  BY AnewTyped
<1>3. Faithful(db)' /\ db' \in D!Files /\ written' \in Nat /\ Grown(db, db')
  BY GrownSelf DEF DbInv, Faithful, D!TypeOK
<1>4. Behind(Anew(pc), db') /\ ReadFor(Anew(pc), db')
  BY AnewReads
<1> QED
  BY <1>1, <1>2, <1>3, <1>4, MoveKeeps

LEMMA OnwardKeeps ==
  ASSUME DbInv, NEW p \in Openers, opener[p].pc \in DOMAIN D!Then, D!Onward(p),
         db' \in D!Files, Grown(db, db'), Faithful(db)', UNCHANGED <<begun, written, deaths>>,
         Achieved(opener[p].pc, db')
  PROVE  DbInv'
<1> DEFINE n == Anew(D!Then[opener[p].pc])
<1>1. opener' = [opener EXCEPT ![p] = n]
  BY DEF D!Onward, D!Go, Anew
<1>2. n \in OpenerStates /\ n.pc = D!Then[opener[p].pc]
  BY AnewTyped, StageFacts DEF Pcs
<1>3. Behind(opener[p], db)
  BY DEF DbInv
<1>4. Behind(opener[p], db')
  BY <1>3, GrownKeeps
<1>5. Behind(n, db')
  BY <1>4, NextBehind
<1>6. ReadFor(n, db')
  BY AnewReads
<1>7. n.pc # "refused"
  BY <1>2, StageFacts
<1>8. written' \in Nat /\ deaths' \in 0..Troubles /\ begun' = begun
  BY DEF DbInv, D!TypeOK
<1> HIDE DEF n
<1> QED
  BY <1>1, <1>2, <1>5, <1>6, <1>7, <1>8, MoveKeeps

LEMMA ReadKeeps ==
  ASSUME DbInv, NEW p \in Openers, NEW missing \in SUBSET (D!AddedTables \cup Columns),
         opener' = [opener EXCEPT ![p].missing = missing], UNCHANGED <<db, begun, written, deaths>>,
         opener[p].pc \in DOMAIN D!Added => Reviewed(db, D!Added[opener[p].pc] \ missing)
  PROVE  DbInv'
<1> DEFINE n == [opener[p] EXCEPT !.missing = missing]
<1>1. opener[p] \in OpenerStates
  BY DEF DbInv, D!TypeOK, OpenerStates, Pcs, Columns
<1>2. opener' = [opener EXCEPT ![p] = n]
  OBVIOUS
<1>3. n \in OpenerStates /\ n.pc = opener[p].pc /\ n.missing = missing
  BY <1>1 DEF OpenerStates
<1>4. Behind(opener[p], db) /\ (opener[p].pc = "refused" => D!Unknown(begun))
  BY DEF DbInv
<1> HIDE DEF n
<1>5. Behind(n, db) /\ ReadFor(n, db) /\ (n.pc = "refused" => D!Unknown(begun))
  BY <1>3, <1>4 DEF Behind, ReadFor
<1>6. Faithful(db)' /\ db' \in D!Files /\ written' \in Nat /\ Grown(db, db') /\ deaths' \in 0..Troubles
  BY GrownSelf DEF DbInv, Faithful, D!TypeOK
<1> QED
  BY <1>2, <1>3, <1>5, <1>6, MoveKeeps

(* The file alone changes.                                                  *)
LEMMA FileKeeps ==
  ASSUME DbInv, UNCHANGED <<opener, begun, deaths>>, written' \in Nat,
         db' \in D!Files, Grown(db, db'), Faithful(db)'
  PROVE  DbInv'
<1>1. D!TypeOK'
  BY DEF DbInv, D!TypeOK
<1>2. ASSUME NEW q \in Openers PROVE Behind(opener[q], db') /\ ReadFor(opener[q], db')
  BY GrownKeeps DEF DbInv
<1> QED
  BY <1>1, <1>2 DEF DbInv

-------------------------------------------------------------------------------
LEMMA DbInit == ASSUME D!DatabaseAssumption PROVE D!Init => DbInv
<1> SUFFICES ASSUME D!Init PROVE DbInv
  OBVIOUS
<1>1. D!Empty \in D!Files
  BY DEF D!Empty, D!Files
<1>2. D!TypeOK
  BY <1>1 DEF D!Init, D!TypeOK, D!DatabaseAssumption, D!Files
<1>3. Faithful(db)
  BY DEF D!Init, Faithful
<1>4. \A p \in Openers : opener[p] = Anew("closed")
  BY DEF D!Init, Anew
<1>5. Anew("closed").pc = "closed"
  BY DEF Anew
<1> QED
  BY <1>2, <1>3, <1>4, <1>5, StartBehind, AnewReads DEF DbInv

LEMMA OpenKeeps == ASSUME DbInv, NEW p \in Openers, D!Open(p) PROVE DbInv'
<1>1. Behind(Anew("closeouts"), db) /\ "closeouts" \in Pcs /\ deaths' \in 0..Troubles
  BY StartBehind, StageFacts DEF Pcs, D!Open, DbInv, D!TypeOK
<1> QED
  BY <1>1, GoKeeps DEF D!Open

LEMMA LookKeeps == ASSUME DbInv, NEW p \in Openers, D!Look(p) PROVE DbInv'
<1> DEFINE stage == opener[p].pc
<1>1. stage \in DOMAIN D!Added /\ UNCHANGED <<db, begun, written, deaths>>
  BY DEF D!Look
<1>2. D!Added[stage] \subseteq D!AddedTables /\ stage \in DOMAIN D!Then
  BY <1>1, StageFacts
<1>3. CASE D!Lookalike(stage) /\ D!Go(p, "refused")
  <2>1. D!Unknown(begun)
    BY <1>2, <1>3 DEF D!Lookalike, DbInv, Faithful, D!Unknown
  <2>2. Behind(Anew("refused"), db) /\ "refused" \in Pcs /\ deaths' \in 0..Troubles
    BY <1>1, StartBehind DEF Pcs, DbInv, D!TypeOK
  <2> QED
    BY <1>1, <1>3, <2>1, <2>2, GoKeeps
<1>4. \A t \in D!Added[stage] : db.added[t] \in {"absent", "reviewed", "other"}
  BY <1>2 DEF DbInv, D!TypeOK, D!Files
<1>5. CASE ~D!Lookalike(stage) /\ D!Missing(stage) = {} /\ D!Onward(p)
  <2>1. Reviewed(db, D!Added[stage])
    BY <1>4, <1>5 DEF D!Lookalike, D!Missing, Reviewed
  <2>2. Achieved(stage, db)
    BY <1>1, <2>1, StageFacts DEF Achieved
  <2>3. Faithful(db)' /\ db' \in D!Files /\ Grown(db, db')
    BY <1>1, GrownSelf DEF DbInv, Faithful, D!TypeOK
  <2> QED
    BY <1>1, <1>2, <1>5, <2>2, <2>3, OnwardKeeps
<1>6. CASE ~D!Lookalike(stage) /\ opener' = [opener EXCEPT ![p].missing = D!Missing(stage)]
  <2>1. Reviewed(db, D!Added[stage] \ D!Missing(stage)) /\ D!Missing(stage) \subseteq D!AddedTables
    BY <1>2, <1>4, <1>6 DEF D!Lookalike, D!Missing, Reviewed
  <2> QED
    BY <1>1, <1>6, <2>1, ReadKeeps
<1> QED
  BY <1>3, <1>5, <1>6 DEF D!Look

LEMMA AddTablesKeeps == ASSUME DbInv, NEW p \in Openers, D!AddTables(p) PROVE DbInv'
<1> DEFINE stage == opener[p].pc
           missing == opener[p].missing
           added == [t \in D!AddedTables |-> IF t \in missing THEN "reviewed" ELSE db.added[t]]
<1>1. stage \in DOMAIN D!Added /\ missing # {} /\ UNCHANGED <<begun, written, deaths>>
  BY DEF D!AddTables
<1>2. D!Added[stage] \subseteq D!AddedTables /\ stage \in DOMAIN D!Then
  BY <1>1, StageFacts
<1>3. CASE (\A t \in missing : db.added[t] = "absent") /\ db' = [db EXCEPT !.added = added] /\ D!Onward(p)
  <2>1. db \in D!Files
    BY DEF DbInv, D!TypeOK
  <2>2. added \in [D!AddedTables -> {"absent", "reviewed", "other"}]
    BY <2>1 DEF D!Files
  <2>3. /\ db' \in D!Files /\ db'.added = added /\ db'.proof = db.proof /\ db'.sound = db.sound
        /\ db'.nodes = db.nodes /\ db'.marked = db.marked /\ db'.replayed = db.replayed /\ db'.rows = db.rows
    BY <1>3, <2>1, <2>2 DEF D!Files
  <2>4. /\ \A t \in D!AddedTables : db.added[t] = "reviewed" => added[t] = "reviewed"
        /\ \A t \in D!AddedTables : added[t] = "other" => db.added[t] = "other"
    OBVIOUS
  <2>5. Reviewed(db, D!Added[stage] \ missing)
    BY <1>1 DEF DbInv, ReadFor
  <2>6. \A t \in D!Added[stage] : added[t] = "reviewed"
    BY <1>2, <2>5 DEF Reviewed
  <2> HIDE DEF added
  <2>7. Grown(db, db')
    BY <2>3, <2>4 DEF Grown
  <2>8. Faithful(db)'
    BY <1>1, <2>3, <2>4 DEF DbInv, Faithful
  <2>9. Achieved(stage, db')
    BY <1>1, <2>3, <2>6, StageFacts DEF Achieved, Reviewed
  <2> QED
    BY <1>1, <1>2, <1>3, <2>3, <2>7, <2>8, <2>9, OnwardKeeps
<1>4. CASE D!Go(p, "lost") /\ UNCHANGED db
  <2>1. Behind(Anew("lost"), db) /\ "lost" \in Pcs /\ deaths' \in 0..Troubles
    BY <1>1, StartBehind DEF Pcs, DbInv, D!TypeOK
  <2> QED
    BY <1>1, <1>4, <2>1, GoKeeps
<1> QED
  BY <1>3, <1>4 DEF D!AddTables

LEMMA SchemaKeeps == ASSUME DbInv, NEW p \in Openers, D!Schema(p) PROVE DbInv'
<1>0. db \in D!Files /\ written' \in Nat /\ UNCHANGED <<begun, written, deaths>> /\ opener[p].pc = "schema"
  BY DEF DbInv, D!TypeOK, D!Schema, D!At
<1>1. CASE db' = [db EXCEPT !.tasks = "current"] /\ UNCHANGED opener
  <2>1. db' \in D!Files /\ Grown(db, db')
    BY <1>0, <1>1 DEF D!Files, Grown
  <2>2. Faithful(db)'
    BY <1>0, <1>1 DEF DbInv, Faithful, D!Files
  <2> QED
    BY <1>0, <1>1, <2>1, <2>2, FileKeeps
<1>2. CASE db.sound = "none" /\ db' = [db EXCEPT !.proof = "there", !.sound = "reviewed"] /\ UNCHANGED opener
  <2>1. db' \in D!Files /\ Grown(db, db')
    BY <1>0, <1>2 DEF D!Files, Grown
  <2>2. Faithful(db)'
    BY <1>0, <1>2 DEF DbInv, Faithful, D!Files
  <2> QED
    BY <1>0, <1>2, <2>1, <2>2, FileKeeps
<1>3. CASE db' = [db EXCEPT !.nodes = "2e"] /\ UNCHANGED opener
  <2>1. db' \in D!Files /\ Grown(db, db')
    BY <1>0, <1>3 DEF D!Files, Grown
  <2>2. Faithful(db)'
    BY <1>0, <1>3 DEF DbInv, Faithful, D!Files
  <2> QED
    BY <1>0, <1>3, <2>1, <2>2, FileKeeps
<1>4. CASE D!Onward(p) /\ UNCHANGED db
  <2>1. Achieved("schema", db) /\ "schema" \in DOMAIN D!Then
    BY StageFacts DEF Achieved
  <2>2. Faithful(db)' /\ db' \in D!Files /\ Grown(db, db')
    BY <1>0, <1>4, GrownSelf DEF DbInv, Faithful
  <2> QED
    BY <1>0, <1>4, <2>1, <2>2, OnwardKeeps
<1> QED
  BY <1>1, <1>2, <1>3, <1>4 DEF D!Schema

LEMMA LookColumnsKeeps == ASSUME DbInv, NEW p \in Openers, D!LookColumns(p) PROVE DbInv'
<1> DEFINE column == opener[p].pc
<1>0. /\ db \in D!Files /\ UNCHANGED <<db, begun, written, deaths>> /\ column \in {"proof", "sound"}
      /\ deaths' \in 0..Troubles /\ column \in DOMAIN D!Then /\ column \notin DOMAIN D!Added
  BY StageFacts DEF DbInv, D!TypeOK, D!LookColumns
<1>1. db["proof"] = db.proof /\ db["sound"] = db.sound
  OBVIOUS
<1>2. CASE db[column] = "other" /\ D!Go(p, "refused")
  <2>1. db.sound = "other"
    BY <1>0, <1>1, <1>2 DEF D!Files
  <2>2. D!Unknown(begun)
    BY <2>1 DEF DbInv, Faithful, D!Unknown
  <2>3. Behind(Anew("refused"), db) /\ "refused" \in Pcs
    BY StartBehind DEF Pcs
  <2> QED
    BY <1>0, <1>2, <2>2, <2>3, GoKeeps
<1>3. CASE db[column] \in {"there", "reviewed"} /\ D!Onward(p)
  <2>1. Achieved(column, db)
    BY <1>0, <1>1, <1>3 DEF D!Files, Achieved
  <2>2. Faithful(db)' /\ db' \in D!Files /\ Grown(db, db')
    BY <1>0, GrownSelf DEF DbInv, Faithful
  <2> QED
    BY <1>0, <1>3, <2>1, <2>2, OnwardKeeps
<1>4. CASE opener' = [opener EXCEPT ![p].missing = {column}]
  BY <1>0, <1>4, ReadKeeps DEF Columns
<1> QED
  BY <1>2, <1>3, <1>4 DEF D!LookColumns

LEMMA AddColumnsKeeps == ASSUME DbInv, NEW p \in Openers, D!AddColumns(p) PROVE DbInv'
<1> DEFINE column == opener[p].pc
<1>0. /\ db \in D!Files /\ UNCHANGED <<begun, written, deaths>> /\ column \in {"proof", "sound"}
      /\ deaths' \in 0..Troubles /\ column \in DOMAIN D!Then /\ column \notin DOMAIN D!Added
  BY StageFacts DEF DbInv, D!TypeOK, D!AddColumns
<1>1. CASE /\ db[column] = "absent" /\ D!Onward(p)
           /\ db' = [db EXCEPT ![column] = IF column = "proof" THEN "there" ELSE "reviewed"]
  <2>1. CASE column = "proof"
    <3>1. db' = [db EXCEPT !.proof = "there"]
      BY <1>1, <2>1
    <3>2. db' \in D!Files /\ Grown(db, db') /\ db'.proof = "there"
      BY <1>0, <3>1 DEF D!Files, Grown
    <3>3. Faithful(db)'
      BY <1>0, <3>1 DEF DbInv, Faithful, D!Files
    <3>4. Achieved(column, db')
      BY <1>0, <2>1, <3>2 DEF Achieved
    <3> QED
      BY <1>0, <1>1, <3>2, <3>3, <3>4, OnwardKeeps
  <2>2. CASE column = "sound"
    <3>1. db' = [db EXCEPT !.sound = "reviewed"]
      BY <1>1, <2>2
    <3>2. db' \in D!Files /\ Grown(db, db') /\ db'.sound = "reviewed"
      BY <1>0, <3>1 DEF D!Files, Grown
    <3>3. Faithful(db)'
      BY <1>0, <3>1 DEF DbInv, Faithful, D!Files
    <3>4. Achieved(column, db')
      BY <1>0, <2>2, <3>2 DEF Achieved
    <3> QED
      BY <1>0, <1>1, <3>2, <3>3, <3>4, OnwardKeeps
  <2> QED
    BY <1>0, <2>1, <2>2
<1>2. CASE D!Go(p, "lost") /\ UNCHANGED db
  <2>1. Behind(Anew("lost"), db) /\ "lost" \in Pcs
    BY StartBehind DEF Pcs
  <2> QED
    BY <1>0, <1>2, <2>1, GoKeeps
<1> QED
  BY <1>1, <1>2 DEF D!AddColumns

LEMMA MarkKeeps == ASSUME DbInv, NEW p \in Openers, D!MarkReplays(p) PROVE DbInv'
<1>0. /\ db \in D!Files /\ UNCHANGED <<begun, written, deaths>> /\ opener[p].pc = "replays"
      /\ deaths' \in 0..Troubles /\ "replays" \in DOMAIN D!Then /\ "replays" \notin DOMAIN D!Added
  BY StageFacts DEF DbInv, D!TypeOK, D!MarkReplays, D!At
<1>1. CASE db.replayed > 1 /\ D!Go(p, "refused") /\ UNCHANGED db
  <2>1. D!Unknown(begun)
    BY <1>1 DEF DbInv, Faithful, D!Unknown
  <2>2. Behind(Anew("refused"), db) /\ "refused" \in Pcs
    BY StartBehind DEF Pcs
  <2> QED
    BY <1>0, <1>1, <2>1, <2>2, GoKeeps
<1>2. CASE db.replayed <= 1 /\ D!Onward(p) /\ db' = [db EXCEPT !.marked = @ \/ db.replayed = 1]
  <2> DEFINE done == db.marked \/ db.replayed = 1
  <2>1. db' = [db EXCEPT !.marked = done] /\ done \in BOOLEAN /\ (db.marked => done)
    BY <1>0, <1>2 DEF D!Files
  <2>2. db.replayed > 0 => done
    BY <1>0, <1>2 DEF D!Files
  <2> HIDE DEF done
  <2>3. /\ db' \in D!Files /\ db'.added = db.added /\ db'.proof = db.proof /\ db'.sound = db.sound
        /\ db'.nodes = db.nodes /\ db'.marked = done /\ db'.replayed = db.replayed /\ db'.rows = db.rows
    BY <1>0, <2>1 DEF D!Files
  <2>4. Grown(db, db')
    BY <2>1, <2>3 DEF Grown
  <2>5. Faithful(db)'
    BY <1>0, <2>3 DEF DbInv, Faithful
  <2>6. Achieved("replays", db')
    BY <1>0, <2>2, <2>3 DEF Achieved
  <2> QED
    BY <1>0, <1>2, <2>3, <2>4, <2>5, <2>6, OnwardKeeps
<1> QED
  BY <1>1, <1>2 DEF D!MarkReplays

LEMMA TaskTableKeeps ==
  ASSUME DbInv, NEW p \in Openers, D!AddLane(p) \/ D!MigrateCancelled(p)
  PROVE  DbInv'
<1>0. /\ db \in D!Files /\ UNCHANGED <<begun, written, deaths>> /\ opener[p].pc \in {"lane", "cancelled"}
      /\ opener[p].pc \in DOMAIN D!Then /\ opener[p].pc \notin DOMAIN D!Added /\ D!Onward(p)
  BY StageFacts DEF DbInv, D!TypeOK, D!AddLane, D!MigrateCancelled, D!At
<1>1. PICK tasks \in {"absent", "first", "laned", "current"} : db' = [db EXCEPT !.tasks = tasks]
  <2>1. CASE D!AddLane(p)
    BY <1>0, <2>1 DEF D!AddLane, D!Files
  <2>2. CASE D!MigrateCancelled(p)
    BY <1>0, <2>2 DEF D!MigrateCancelled, D!Files
  <2> QED
    BY <2>1, <2>2
<1>2. db' \in D!Files /\ Grown(db, db')
  BY <1>0, <1>1 DEF D!Files, Grown
<1>3. Faithful(db)'
  BY <1>0, <1>1 DEF DbInv, Faithful, D!Files
<1>4. Achieved(opener[p].pc, db')
  BY <1>0 DEF Achieved
<1> QED
  BY <1>0, <1>2, <1>3, <1>4, OnwardKeeps

LEMMA LookNodesKeeps == ASSUME DbInv, NEW p \in Openers, D!LookNodes(p) PROVE DbInv'
<1>0. /\ db \in D!Files /\ UNCHANGED <<db, begun, written, deaths>> /\ opener[p].pc = "nodes"
      /\ deaths' \in 0..Troubles /\ "nodes" \in DOMAIN D!Then /\ "nodes" \notin DOMAIN D!Added
  BY StageFacts DEF DbInv, D!TypeOK, D!LookNodes, D!At
<1>1. CASE db.nodes = "other" /\ D!Go(p, "refused")
  <2>1. D!Unknown(begun)
    BY <1>1 DEF DbInv, Faithful, D!Unknown
  <2>2. Behind(Anew("refused"), db) /\ "refused" \in Pcs
    BY StartBehind DEF Pcs
  <2> QED
    BY <1>0, <1>1, <2>1, <2>2, GoKeeps
<1>2. CASE db.nodes = "2e" /\ D!Onward(p)
  <2>1. Achieved("nodes", db) /\ Faithful(db)' /\ db' \in D!Files /\ Grown(db, db')
    BY <1>0, <1>2, GrownSelf DEF Achieved, DbInv, Faithful
  <2> QED
    BY <1>0, <1>2, <2>1, OnwardKeeps
<1>3. CASE opener' = [opener EXCEPT ![p].missing = {"nodes"}]
  BY <1>0, <1>3, ReadKeeps DEF Columns
<1> QED
  BY <1>1, <1>2, <1>3 DEF D!LookNodes

LEMMA RebuildKeeps == ASSUME DbInv, NEW p \in Openers, D!RebuildNodes(p) PROVE DbInv'
<1>0. /\ db \in D!Files /\ UNCHANGED <<begun, written, deaths>> /\ opener[p].pc = "nodes" /\ D!Onward(p)
      /\ db' = [db EXCEPT !.nodes = "2e"] /\ "nodes" \in DOMAIN D!Then /\ "nodes" \notin DOMAIN D!Added
  BY StageFacts DEF DbInv, D!TypeOK, D!RebuildNodes, D!At
<1>1. db' \in D!Files /\ Grown(db, db') /\ db'.nodes = "2e"
  BY <1>0 DEF D!Files, Grown
<1>2. Faithful(db)'
  BY <1>0 DEF DbInv, Faithful, D!Files
<1>3. Achieved("nodes", db')
  BY <1>0, <1>1 DEF Achieved
<1> QED
  BY <1>0, <1>1, <1>2, <1>3, OnwardKeeps

LEMMA WorkKeeps == ASSUME DbInv, NEW p \in Openers, D!Work(p) PROVE DbInv'
<1>0. /\ db \in D!Files /\ UNCHANGED <<opener, begun, deaths>> /\ written \in Nat /\ written' = written + 1
      /\ db' = [db EXCEPT !.rows = db.rows + 1, !.board = TRUE]
  BY DEF DbInv, D!TypeOK, D!Work
<1>1. /\ db' \in D!Files /\ db'.added = db.added /\ db'.proof = db.proof /\ db'.sound = db.sound
      /\ db'.nodes = db.nodes /\ db'.marked = db.marked /\ db'.replayed = db.replayed
      /\ db'.rows = db.rows + 1
  <2> DEFINE more == [db EXCEPT !.rows = db.rows + 1]
  <2>1. /\ more \in D!Files /\ more.added = db.added /\ more.proof = db.proof /\ more.sound = db.sound
        /\ more.nodes = db.nodes /\ more.marked = db.marked /\ more.replayed = db.replayed
        /\ more.rows = db.rows + 1
    BY <1>0 DEF D!Files
  <2>2. db' = [more EXCEPT !.board = TRUE]
    BY <1>0
  <2> HIDE DEF more
  <2> QED
    BY <2>1, <2>2 DEF D!Files
<1>2. Grown(db, db')
  BY <1>1 DEF Grown
<1>3. Faithful(db)'
  BY <1>0, <1>1 DEF DbInv, Faithful
<1> QED
  BY <1>0, <1>1, <1>2, <1>3, FileKeeps

LEMMA StopKeeps ==
  ASSUME D!DatabaseAssumption, DbInv, NEW p \in Openers, D!Die(p) \/ D!StartAgain(p)
  PROVE  DbInv'
<1>1. D!Go(p, "closed") /\ UNCHANGED <<db, begun, written>> /\ deaths' \in 0..Troubles
  BY DEF D!Die, D!StartAgain, DbInv, D!TypeOK, D!DatabaseAssumption
<1>2. Behind(Anew("closed"), db) /\ "closed" \in Pcs
  BY StartBehind DEF Pcs
<1> QED
  BY <1>1, <1>2, GoKeeps

LEMMA DbNext == ASSUME D!DatabaseAssumption, DbInv, [D!Next]_(D!vars) PROVE DbInv'
<1>1. CASE D!Next
  BY <1>1, OpenKeeps, LookKeeps, AddTablesKeeps, SchemaKeeps, LookColumnsKeeps, AddColumnsKeeps, MarkKeeps,
     TaskTableKeeps, LookNodesKeeps, RebuildKeeps, WorkKeeps, StopKeeps
  DEF D!Next, D!Advance
<1>2. CASE UNCHANGED D!vars
  BY <1>2, GrownSelf, FileKeeps DEF D!vars, DbInv, D!TypeOK, Faithful
<1> QED
  BY <1>1, <1>2

LEMMA DbGives == DbInv => D!DatabaseIsReviewed
<1> SUFFICES ASSUME DbInv, NEW p \in Openers
             PROVE  /\ D!At(p, "open") => /\ \A t \in D!AddedTables : db.added[t] = "reviewed"
                                          /\ db.nodes = "2e" /\ db.sound = "reviewed" /\ db.proof = "there"
                                          /\ db.replayed > 0 => db.marked
                                          /\ db.rows = written
                    /\ D!At(p, "refused") => D!Unknown(begun)
  BY DEF D!DatabaseIsReviewed
<1>1. Behind(opener[p], db) /\ db.rows = written /\ (opener[p].pc = "refused" => D!Unknown(begun))
  BY DEF DbInv, Faithful
<1> QED
  BY <1>1, StageFacts DEF D!At, Behind, Reviewed, FromProof, FromSound, FromReplays, FromNodes

(* For any processes and any file an earlier version may have left, however  *)
(* opens race and die between migrations (createDatabase).                   *)
THEOREM DatabaseReviewed == ASSUME D!DatabaseAssumption PROVE D!Spec => []D!DatabaseIsReviewed
<1>1. D!Spec => []DbInv
  BY DbInit, DbNext, PTL DEF D!Spec
<1> QED
  BY <1>1, DbGives, PTL

LEMMA DatabaseSteps == [ServicesNext]_tables => [D!Next]_(D!vars)
BY DEF ServicesNext, IntakeStep, ApprovalStep, ObservationStep, GraphStep, GenericStep, CommandStep, BoardStep,
       RunStep, BridgeStep, DatabaseStep, ScheduleStep, LedgerStep, IntentStep, CloseoutStep, tables, files, D!vars

(* Beside the other services, a process is given only a reviewed database    *)
(* with all its rows, and none is refused for what an open has left.         *)
THEOREM DatabaseKept == ServicesSpec => []DatabaseIsReviewed
<1>1. ServicesInit => D!Init
  BY DEF ServicesInit
<1>2. ServicesSpec => D!Spec
  BY <1>1, DatabaseSteps, PTL DEF ServicesSpec, D!Spec
<1>3. D!Spec => []D!DatabaseIsReviewed
  BY ServicesAssumption, DatabaseReviewed
<1> QED
  BY <1>2, <1>3, PTL DEF DatabaseIsReviewed

-------------------------------------------------------------------------------
(* The schedule intake: what callers were told is what the database holds.   *)
(* What is stored for a body. *)
Written(b) == S!Json(S!Canonical(b))
(* The stored graph is the one this body asks for in this workspace. *)
Fits(b, w) ==
    /\ stored # Unset /\ S!Strict(Written(b), stored.requested)
    /\ stored = [input |-> Written(b), ws |-> w, requested |-> stored.requested]
(* No later call for a refused body can be answered otherwise. *)
Hopeless(b) ==
    /\ ~S!Strict(Written(b), instant)
    /\ \A c \in Intents : intent[c].pc = "store" => ~S!Strict(Written(b), intent[c].requested)
Answered(a) ==
    /\ a.body \in Schedules /\ S!Coherent(a.body) /\ a.answer \in {"graph", "refused"}
    /\ a.answer = "graph" => Fits(a.body, a.ws)
Refused(a) ==
    a.answer = "refused" => ~Fits(a.body, a.ws) /\ (stored = Unset => Hopeless(a.body))
IntakeCalls ==
    [pc : {"idle", "account", "store"}, body : Schedules \cup {Unset}, ws : Workspaces \cup {Unset},
     requested : 0..MaxHour]
CallRight(c) ==
    /\ intent[c].pc # "idle" => intent[c].body \in Schedules /\ S!Coherent(intent[c].body)
    /\ intent[c].pc = "store" => intent[c].ws \in Workspaces /\ intent[c].requested <= instant
GraphRight ==
    stored # Unset =>
      /\ stored \in S!Graphs /\ stored.requested <= instant
      /\ Written(stored.input) = stored.input /\ S!Strict(stored.input, stored.requested)
ChildRight ==
    /\ dispatch => stored # Unset /\ created = Unset
    /\ created # Unset =>
         stored # Unset /\ created = [payload |-> S!Canonical(S!Handed(S!Canonical(stored.input))), ws |-> stored.ws]
(* In one process a call that stores is alone, and so a refusal is final. *)
OneAtATime ==
    /\ \A c, d \in Intents : intent[c].pc = "store" /\ intent[d].pc = "store" => c = d
    /\ stored # Unset => \A c \in Intents : intent[c].pc = "store" => intent[c].requested = stored.requested
    /\ \A a \in told : Refused(a)
ScheduleInv ==
    /\ instant \in 0..MaxHour /\ account \in Workspaces /\ dispatch \in BOOLEAN
    /\ intent \in [Intents -> IntakeCalls]
    /\ \A c \in Intents : CallRight(c)
    /\ GraphRight /\ ChildRight
    /\ \A a \in told : Answered(a)
    /\ ~SharedDatabase => OneAtATime

-----------------------------------------------------------------------------
(* What a body becomes is read as what it was. *)
LEMMA ReadAgain ==
    ASSUME S!IntakeAssumption, NEW b \in Schedules, S!Coherent(b)
    PROVE  S!Canonical(Written(b)) = S!Canonical(b)
<1> DEFINE p == S!Canonical(b)
           j == S!Json(p)
<1>1. /\ p.provider = Spelling[b.provider] /\ p.title = b.title /\ p.due = b.due /\ p.media = b.media
      /\ p.sound = IF b.sound = Unset THEN "keep_original" ELSE b.sound
      /\ p.explicit = (b.sound # Unset) /\ p.proof = b.proof
  BY DEF S!Canonical
<1>2. /\ j.provider = p.provider /\ j.title = p.title /\ j.due = p.due
      /\ j.sound = (IF p.explicit THEN p.sound ELSE Unset)
      /\ j.proof = p.proof /\ j.media = (IF p.proof THEN p.media ELSE Unset)
  BY DEF S!Json
<1>3. j.media = b.media
  BY <1>1, <1>2 DEF S!Coherent
<1>4. j.sound = b.sound
  BY <1>1, <1>2
<1>5. Spelling[j.provider] = Spelling[b.provider]
  BY <1>1, <1>2 DEF S!IntakeAssumption
<1>6. j.title = b.title /\ j.due = b.due /\ j.proof = b.proof
  BY <1>1, <1>2
<1> HIDE DEF j
<1>7. S!Canonical(j) = S!Canonical(b)
  BY <1>3, <1>4, <1>5, <1>6 DEF S!Canonical
<1> QED
  BY <1>7 DEF Written, j

LEMMA WrittenFacts ==
    ASSUME S!IntakeAssumption, NEW b \in Schedules, S!Coherent(b)
    PROVE  /\ Written(b) \in S!Inputs /\ Written(b).due = b.due /\ b.due \in Nat
           /\ Written(Written(b)) = Written(b)
           /\ S!Coherent(Written(b)) /\ ~Written(b).extra
           /\ Spelling[Written(b).provider] = Written(b).provider
<1>1. Written(Written(b)) = Written(b)
  BY ReadAgain DEF Written
<1> DEFINE j == Written(b)
<1>2. /\ j.provider = Spelling[b.provider] /\ j.title = b.title /\ j.due = b.due
      /\ j.proof = b.proof /\ j.media = (IF b.proof THEN b.media ELSE Unset)
      /\ j.extra = FALSE
  BY DEF Written, S!Json, S!Canonical
<1>3. j.sound = b.sound
  <2>1. /\ S!Canonical(b).sound = IF b.sound = Unset THEN "keep_original" ELSE b.sound
        /\ S!Canonical(b).explicit = (b.sound # Unset)
    BY DEF S!Canonical
  <2>2. j.sound = (IF S!Canonical(b).explicit THEN S!Canonical(b).sound ELSE Unset)
    BY DEF Written, S!Json
  <2> QED
    BY <2>1, <2>2
<1>4. j.media = b.media
  BY <1>2 DEF S!Coherent
<1>5. j = [provider |-> j.provider, title |-> j.title, due |-> j.due, sound |-> j.sound, proof |-> j.proof,
           media |-> j.media, extra |-> FALSE]
  BY DEF Written, S!Json
<1>6. /\ j.provider \in DOMAIN Spelling /\ Spelling[j.provider] = j.provider /\ b.due \in Nat /\ b.proof \in BOOLEAN
  BY <1>2 DEF S!IntakeAssumption
<1>7. j.title \in {c.title : c \in Schedules} /\ j.due \in {c.due : c \in Schedules} /\ j.media \in {c.media : c \in Schedules}
  BY <1>2, <1>4
<1>8. j.sound \in {c.sound : c \in Schedules}
  BY <1>3
<1> HIDE DEF j
<1>9. j \in S!Inputs
  BY <1>2, <1>5, <1>6, <1>7, <1>8 DEF S!Inputs
<1>10. S!Coherent(j)
  BY <1>2, <1>4, <1>6 DEF S!Coherent
<1> QED
  BY <1>1, <1>2, <1>6, <1>9, <1>10 DEF j

(* The hop to the mission keeps all but whether the sound was chosen. *)
LEMMA HandedFacts ==
    ASSUME S!IntakeAssumption, NEW b \in Schedules
    PROVE  S!Asked(S!Canonical(S!Handed(S!Canonical(b)))) = S!Asked(S!Canonical(b))
<1> DEFINE p == S!Canonical(b)
           h == S!Handed(p)
           q == S!Canonical(h)
<1>1. /\ p.provider = Spelling[b.provider] /\ Spelling[p.provider] = p.provider
      /\ b.sound = Unset => p.sound = "keep_original"
      /\ p = [provider |-> p.provider, title |-> p.title, due |-> p.due, sound |-> p.sound,
              explicit |-> p.explicit, proof |-> p.proof, media |-> p.media]
  BY DEF S!Canonical, S!IntakeAssumption
<1>2. /\ h.provider = p.provider /\ h.title = p.title /\ h.due = p.due /\ h.sound = p.sound
      /\ h.proof = p.proof /\ h.media = p.media
  BY DEF S!Handed
<1>3. p.sound = Unset => "keep_original" = Unset
  BY DEF S!Canonical
<1> HIDE DEF h, p
<1>4. q = [provider |-> Spelling[p.provider], title |-> p.title, due |-> p.due,
           sound |-> IF p.sound = Unset THEN "keep_original" ELSE p.sound,
           explicit |-> p.sound # Unset, proof |-> p.proof, media |-> p.media]
  BY <1>2 DEF S!Canonical
<1>5. (IF p.sound = Unset THEN "keep_original" ELSE p.sound) = p.sound
  BY <1>3
<1>6. q = [provider |-> p.provider, title |-> p.title, due |-> p.due, sound |-> p.sound,
           explicit |-> p.sound # Unset, proof |-> p.proof, media |-> p.media]
  BY <1>1, <1>4, <1>5
<1> HIDE DEF q
<1>7. S!Asked(q) = S!Asked(p)
  BY <1>6 DEF S!Asked
<1> QED
  BY <1>7 DEF p, h, q

-----------------------------------------------------------------------------
LEMMA IntakeInit == ASSUME S!IntakeAssumption, S!Init PROVE ScheduleInv
<1>1. S!Idle \in IntakeCalls
  BY DEF S!Idle, IntakeCalls, S!IntakeAssumption
<1>2. \A c \in Intents : intent[c].pc = "idle"
  BY DEF S!Init, S!Idle
<1>3. intent \in [Intents -> IntakeCalls]
  BY <1>1 DEF S!Init
<1>4. GraphRight /\ ChildRight
  BY DEF S!Init, GraphRight, ChildRight
<1>5. OneAtATime
  BY <1>2 DEF S!Init, OneAtATime
<1>6. \A c \in Intents : CallRight(c)
  BY <1>2 DEF CallRight
<1>7. instant \in 0..MaxHour /\ account \in Workspaces /\ told = {}
  BY DEF S!Init, S!IntakeAssumption
<1>8. dispatch \in BOOLEAN
  BY Zenon DEF S!Init
<1> QED
  BY <1>3, <1>4, <1>5, <1>6, <1>7, <1>8 DEF ScheduleInv

(* One call goes where it does not store: what is known stays known. *)
LEMMA CallMoves ==
    ASSUME ScheduleInv, NEW c \in Intents, NEW m \in IntakeCalls, m.pc # "store",
           m.pc # "idle" => m.body \in Schedules /\ S!Coherent(m.body),
           intent' = [intent EXCEPT ![c] = m],
           UNCHANGED <<instant, account, stored, dispatch, created>>,
           told' = told
    PROVE  ScheduleInv'
<1>1. /\ intent' \in [Intents -> IntakeCalls] /\ intent'[c] = m
      /\ \A d \in Intents \ {c} : intent'[d] = intent[d]
  BY DEF ScheduleInv
<1>2. \A d \in Intents : intent'[d].pc = "store" => d # c /\ intent'[d] = intent[d] /\ intent[d].pc = "store"
  BY <1>1
<1>3. \A d \in Intents : CallRight(d)'
  BY <1>1, <1>2 DEF CallRight, ScheduleInv
<1>4. GraphRight' /\ ChildRight'
  BY DEF ScheduleInv, GraphRight, ChildRight
<1>5. \A a \in told' : Answered(a)'
  BY DEF ScheduleInv, Answered, Fits
<1>6. \A a \in told : Refused(a) => Refused(a)'
  BY <1>2 DEF Refused, Fits, Hopeless
<1>7. ~SharedDatabase => OneAtATime'
  BY <1>2, <1>6 DEF OneAtATime, ScheduleInv
<1> QED
  BY <1>1, <1>3, <1>4, <1>5, <1>7 DEF ScheduleInv

LEMMA SubmitKeeps ==
    ASSUME S!IntakeAssumption, ScheduleInv, NEW c \in Intents, S!Submit(c) PROVE ScheduleInv'
<1>1. PICK b \in Schedules :
        S!Coherent(b) /\ intent' = [intent EXCEPT ![c] = [S!Idle EXCEPT !.pc = "account", !.body = b]]
  BY DEF S!Submit
<1>2. [S!Idle EXCEPT !.pc = "account", !.body = b] = [pc |-> "account", body |-> b, ws |-> Unset, requested |-> 0]
  <2> DEFINE n == [S!Idle EXCEPT !.pc = "account"]
  <2>1. n = [pc |-> "account", body |-> Unset, ws |-> Unset, requested |-> 0]
    BY DEF S!Idle
  <2> HIDE DEF n
  <2>2. [n EXCEPT !.body = b] = [pc |-> "account", body |-> b, ws |-> Unset, requested |-> 0]
    BY <2>1
  <2> QED
    BY <2>2 DEF n
<1> DEFINE m == [pc |-> "account", body |-> b, ws |-> Unset, requested |-> 0]
<1>3. m \in IntakeCalls /\ m.pc = "account" /\ m.body = b
  BY DEF IntakeCalls, S!IntakeAssumption
<1>4. intent' = [intent EXCEPT ![c] = m]
  BY <1>1, <1>2
<1> HIDE DEF m
<1> QED
  BY <1>1, <1>3, <1>4, CallMoves DEF S!Submit

LEMMA IdleFacts == ASSUME S!IntakeAssumption PROVE S!Idle \in IntakeCalls /\ S!Idle.pc = "idle"
  BY DEF S!Idle, IntakeCalls, S!IntakeAssumption

LEMMA AbandonKeeps ==
    ASSUME S!IntakeAssumption, ScheduleInv, NEW c \in Intents, S!Abandon(c) PROVE ScheduleInv'
  BY IdleFacts, CallMoves DEF S!Abandon, S!Return

LEMMA ConfirmedKeeps ==
    ASSUME S!IntakeAssumption, ScheduleInv, NEW c \in Intents, S!Confirmed(c) PROVE ScheduleInv'
<1> DEFINE r == IF stored = Unset THEN instant ELSE stored.requested
           m == [intent[c] EXCEPT !.pc = "store", !.ws = account, !.requested = r]
<1>1. r \in 0..MaxHour /\ r <= instant /\ (stored = Unset => r = instant) /\ (stored # Unset => r = stored.requested)
  BY DEF ScheduleInv, GraphRight, S!Graphs, S!IntakeAssumption
<1> HIDE DEF r
<1>2. /\ m \in IntakeCalls /\ m.pc = "store" /\ m.ws = account /\ m.requested = r /\ m.body = intent[c].body
  BY <1>1 DEF ScheduleInv, IntakeCalls
<1>3. intent' = [intent EXCEPT ![c] = m] /\ intent[c].pc = "account"
  BY DEF S!Confirmed, r
<1> HIDE DEF m
<1>4. /\ intent' \in [Intents -> IntakeCalls] /\ intent'[c] = m
      /\ \A d \in Intents \ {c} : intent'[d] = intent[d]
  BY <1>2, <1>3 DEF ScheduleInv
<1>5. UNCHANGED <<instant, account, stored, dispatch, created, told>> /\ S!Free(c)
  BY DEF S!Confirmed
<1>6. \A d \in Intents : CallRight(d)'
  BY <1>1, <1>2, <1>3, <1>4, <1>5 DEF CallRight, ScheduleInv
<1>7. GraphRight' /\ ChildRight'
  BY <1>5 DEF ScheduleInv, GraphRight, ChildRight
<1>8. \A a \in told' : Answered(a)'
  BY <1>5 DEF ScheduleInv, Answered, Fits
<1>9. ASSUME ~SharedDatabase PROVE OneAtATime'
  <2>1. \A d \in Intents : intent'[d].pc = "store" => d = c
    BY <1>4, <1>5, <1>9 DEF S!Free
  <2>2. \A a \in told : Refused(a) => Refused(a)'
    BY <1>1, <1>2, <1>4, <1>5, <2>1 DEF Refused, Fits, Hopeless
  <2> QED
    BY <1>1, <1>2, <1>4, <1>5, <1>9, <2>1, <2>2 DEF OneAtATime, ScheduleInv
<1> QED
  BY <1>4, <1>5, <1>6, <1>7, <1>8, <1>9 DEF ScheduleInv

(* The envelope of a call is what the graph will be, compiled or not. *)
LEMMA EnvelopeFacts ==
    ASSUME S!IntakeAssumption, ScheduleInv, NEW c \in Intents, intent[c].pc = "store"
    PROVE  LET b == intent[c].body IN
           /\ b \in Schedules /\ S!Coherent(b) /\ intent[c].ws \in Workspaces
           /\ intent[c].requested \in 0..instant /\ S!Envelope(c) \in S!Graphs
           /\ S!Envelope(c) = [input |-> Written(b), ws |-> intent[c].ws, requested |-> intent[c].requested]
           /\ S!Compiled(S!Envelope(c)) = S!Envelope(c)
<1> DEFINE b == intent[c].body
           e == S!Envelope(c)
<1>1. /\ b \in Schedules /\ S!Coherent(b) /\ intent[c].ws \in Workspaces
      /\ intent[c].requested \in 0..MaxHour /\ intent[c].requested <= instant /\ instant \in Nat
  BY DEF ScheduleInv, CallRight, IntakeCalls, S!IntakeAssumption
<1>2. e = [input |-> Written(b), ws |-> intent[c].ws, requested |-> intent[c].requested]
  BY DEF S!Envelope, Written
<1>3. Written(b) \in S!Inputs /\ Written(Written(b)) = Written(b)
  BY <1>1, WrittenFacts
<1>4. e \in S!Graphs /\ e.input = Written(b)
  BY <1>1, <1>2, <1>3 DEF S!Graphs
<1>5. S!Json(S!Canonical(e.input)) = e.input
  BY <1>3, <1>4 DEF Written
<1>6. S!Compiled(e) = e
  <2>1. S!Compiled(e) = [e EXCEPT !.input = e.input]
    BY <1>5 DEF S!Compiled
  <2> HIDE DEF e
  <2> QED
    BY <2>1, <1>4 DEF S!Graphs
<1> QED
  BY <1>1, <1>2, <1>4, <1>6

LEMMA StoreKeeps ==
    ASSUME S!IntakeAssumption, ScheduleInv, NEW c \in Intents, S!Store(c) PROVE ScheduleInv'
<1> PICK b, w, r : b = intent[c].body /\ w = intent[c].ws /\ r = intent[c].requested
  OBVIOUS
<1> DEFINE e == [input |-> Written(b), ws |-> w, requested |-> r]
           new == [body |-> b, ws |-> w, answer |-> "graph"]
<1>1. intent[c].pc = "store"
  BY DEF S!Store
<1>2. /\ b \in Schedules /\ S!Coherent(b) /\ w \in Workspaces /\ r \in 0..instant /\ e \in S!Graphs
      /\ S!Envelope(c) = e /\ S!Compiled(S!Envelope(c)) = e
  BY <1>1, EnvelopeFacts
<1>3. /\ S!Strict(Written(b), r) /\ stored \in {Unset, e} /\ stored' = e
      /\ told' = told \cup {new} /\ intent' = [intent EXCEPT ![c] = S!Idle]
      /\ UNCHANGED <<instant, account, dispatch, created>>
  BY <1>2 DEF S!Store, S!Tell, S!Return
<1>4. e # Unset /\ e.input = Written(b) /\ e.ws = w /\ e.requested = r /\ Written(Written(b)) = Written(b)
  BY <1>2, WrittenFacts DEF S!IntakeAssumption
<1>5. new.body = b /\ new.ws = w /\ new.answer = "graph"
  OBVIOUS
<1>6. Fits(b, w)'
  BY <1>3, <1>4 DEF Fits
<1> HIDE DEF e, new
<1>7. /\ intent' \in [Intents -> IntakeCalls] /\ intent'[c].pc = "idle"
      /\ \A d \in Intents \ {c} : intent'[d] = intent[d]
  BY <1>3, IdleFacts DEF ScheduleInv
<1>8. \A d \in Intents : CallRight(d)'
  BY <1>3, <1>7 DEF CallRight, ScheduleInv
<1>9. GraphRight'
  BY <1>2, <1>3, <1>4 DEF GraphRight, ScheduleInv
<1>10. ChildRight'
  BY <1>3, <1>4 DEF ChildRight, ScheduleInv
<1>11. stored # Unset => stored' = stored
  BY <1>3
<1>12. \A a \in told' : Answered(a)'
  <2>1. \A a \in told : Answered(a)'
    BY <1>11, <1>3 DEF ScheduleInv, Answered, Fits
  <2>2. Answered(new)'
    BY <1>2, <1>5, <1>6 DEF Answered
  <2> QED
    BY <1>3, <2>1, <2>2
<1>13. ASSUME ~SharedDatabase PROVE OneAtATime'
  <2>1. \A d \in Intents : intent'[d].pc # "store"
    BY <1>1, <1>7, <1>13 DEF ScheduleInv, OneAtATime
  <2>2. ASSUME NEW a \in told PROVE Refused(a)'
    <3>1. Refused(a)
      BY <1>13 DEF ScheduleInv, OneAtATime
    <3>2. CASE stored # Unset
      BY <1>11, <1>3, <1>4, <3>1, <3>2 DEF Refused, Fits
    <3>3. CASE stored = Unset
      <4>1. a.answer = "refused" => ~S!Strict(Written(a.body), r)
        BY <1>1, <3>1, <3>3 DEF Refused, Hopeless
      <4>2. stored'.requested = r /\ stored' # Unset
        BY <1>3, <1>4
      <4> QED
        BY <4>1, <4>2 DEF Refused, Fits
    <3> QED
      BY <3>2, <3>3
  <2>3. Refused(new)'
    BY <1>5 DEF Refused
  <2> QED
    BY <1>3, <2>1, <2>2, <2>3 DEF OneAtATime
<1> QED
  BY <1>3, <1>7, <1>8, <1>9, <1>10, <1>12, <1>13 DEF ScheduleInv

(* Strict only gets harder as the request gets later. *)
LEMMA Later ==
    ASSUME S!IntakeAssumption, NEW b \in Schedules, S!Coherent(b), NEW r \in Nat, NEW t \in Nat, r <= t,
           ~S!Strict(Written(b), r)
    PROVE  ~S!Strict(Written(b), t)
  BY WrittenFacts DEF S!Strict

LEMMA RefuseKeeps ==
    ASSUME S!IntakeAssumption, ScheduleInv, NEW c \in Intents, S!Refuse(c) PROVE ScheduleInv'
<1> PICK b, w, r : b = intent[c].body /\ w = intent[c].ws /\ r = intent[c].requested
  OBVIOUS
<1> DEFINE e == [input |-> Written(b), ws |-> w, requested |-> r]
           new == [body |-> b, ws |-> w, answer |-> "refused"]
<1>1. intent[c].pc = "store"
  BY DEF S!Refuse
<1>2. /\ b \in Schedules /\ S!Coherent(b) /\ w \in Workspaces /\ r \in 0..instant /\ e \in S!Graphs
      /\ S!Envelope(c) = e /\ S!Compiled(S!Envelope(c)) = e
  BY <1>1, EnvelopeFacts
<1>3. /\ ~S!Strict(Written(b), r) \/ stored \notin {Unset, e}
      /\ told' = told \cup {new} /\ intent' = [intent EXCEPT ![c] = S!Idle]
      /\ UNCHANGED <<instant, account, dispatch, created, stored>>
  BY <1>2 DEF S!Refuse, S!Tell, S!Return
<1>4. new.body = b /\ new.ws = w /\ new.answer = "refused"
  OBVIOUS
<1> HIDE DEF new
<1>5. /\ intent' \in [Intents -> IntakeCalls] /\ intent'[c].pc = "idle"
      /\ \A d \in Intents \ {c} : intent'[d] = intent[d]
  BY <1>3, IdleFacts DEF ScheduleInv
<1>6. \A d \in Intents : CallRight(d)'
  BY <1>3, <1>5 DEF CallRight, ScheduleInv
<1>7. GraphRight' /\ ChildRight'
  BY <1>3 DEF GraphRight, ChildRight, ScheduleInv
<1>8. \A a \in told' : Answered(a)'
  <2>1. \A a \in told : Answered(a)'
    BY <1>3 DEF ScheduleInv, Answered, Fits
  <2>2. Answered(new)'
    BY <1>2, <1>4 DEF Answered
  <2> QED
    BY <1>3, <2>1, <2>2
<1>9. ASSUME ~SharedDatabase PROVE OneAtATime'
  <2>1. \A d \in Intents : intent'[d].pc # "store"
    BY <1>1, <1>5, <1>9 DEF ScheduleInv, OneAtATime
  <2>2. ASSUME NEW a \in told PROVE Refused(a)'
    <3>1. Refused(a)
      BY <1>9 DEF ScheduleInv, OneAtATime
    <3> QED
      BY <1>3, <2>1, <3>1 DEF Refused, Fits, Hopeless
  <2>3. stored # Unset => r = stored.requested
    BY <1>1, <1>9 DEF ScheduleInv, OneAtATime
  <2>4. ~Fits(b, w)
    BY <1>3, <2>3 DEF Fits
  <2>5. instant \in Nat /\ r \in Nat /\ r <= instant
    BY <1>2 DEF ScheduleInv, S!IntakeAssumption
  <2>6. stored = Unset => ~S!Strict(Written(b), instant)
    BY <1>2, <1>3, <2>5, Later
  <2>7. Refused(new)'
    BY <1>3, <1>4, <2>1, <2>4, <2>6 DEF Refused, Hopeless, Fits
  <2> QED
    BY <1>3, <2>1, <2>2, <2>7 DEF OneAtATime
<1> QED
  BY <1>3, <1>5, <1>6, <1>7, <1>8, <1>9 DEF ScheduleInv

(* The mission's side: the graph, the calls and the answers stay. *)
LEMMA MissionMoves ==
    ASSUME ScheduleInv, account' \in Workspaces, dispatch' \in BOOLEAN, ChildRight',
           UNCHANGED <<instant, intent, stored, told>>
    PROVE  ScheduleInv'
<1>1. \A c \in Intents : CallRight(c)'
  BY DEF CallRight, ScheduleInv
<1>2. \A a \in told' : Answered(a)'
  BY DEF ScheduleInv, Answered, Fits
<1>3. \A a \in told : Refused(a) => Refused(a)'
  BY DEF Refused, Fits, Hopeless
<1> QED
  BY <1>1, <1>2, <1>3 DEF ScheduleInv, GraphRight, OneAtATime

LEMMA MissionKeeps ==
    ASSUME ScheduleInv, S!Dispatch \/ S!CreateChild \/ S!ChildRefused \/ S!Reconnect PROVE ScheduleInv'
<1>1. CASE S!Dispatch
  BY <1>1, MissionMoves DEF S!Dispatch, ScheduleInv, ChildRight
<1>2. CASE S!CreateChild
  <2>1. dispatch' = FALSE
    BY <1>2 DEF S!CreateChild
  <2>2. ChildRight'
    BY <1>2, <2>1 DEF S!CreateChild, ScheduleInv, ChildRight
  <2> QED
    BY <1>2, <2>1, <2>2, MissionMoves DEF S!CreateChild, ScheduleInv
<1>3. CASE S!ChildRefused
  BY <1>3, MissionMoves DEF S!ChildRefused, ScheduleInv, ChildRight
<1>4. CASE S!Reconnect
  BY <1>4, MissionMoves DEF S!Reconnect, ScheduleInv, ChildRight
<1> QED
  BY <1>1, <1>2, <1>3, <1>4

LEMMA HourKeeps == ASSUME S!IntakeAssumption, ScheduleInv, S!Tick PROVE ScheduleInv'
<1>1. /\ instant \in Nat /\ instant' = instant + 1 /\ instant' \in 0..MaxHour
      /\ UNCHANGED <<account, intent, stored, dispatch, created, told>>
  BY DEF S!Tick, ScheduleInv, S!IntakeAssumption
<1>2. \A c \in Intents : CallRight(c)'
  BY <1>1 DEF CallRight, ScheduleInv, IntakeCalls
<1>3. GraphRight' /\ ChildRight'
  BY <1>1 DEF GraphRight, ChildRight, ScheduleInv, S!Graphs
<1>4. \A a \in told' : Answered(a)'
  BY <1>1 DEF ScheduleInv, Answered, Fits
<1>5. ASSUME NEW a \in told, Refused(a) PROVE Refused(a)'
  <2>1. a.body \in Schedules /\ S!Coherent(a.body)
    BY DEF ScheduleInv, Answered
  <2>2. ~S!Strict(Written(a.body), instant) => ~S!Strict(Written(a.body), instant + 1)
    BY <1>1, <2>1, Later
  <2> QED
    BY <1>1, <1>5, <2>2 DEF Refused, Fits, Hopeless
<1>6. ~SharedDatabase => OneAtATime'
  BY <1>1, <1>5 DEF OneAtATime, ScheduleInv
<1> QED
  BY <1>1, <1>2, <1>3, <1>4, <1>6 DEF ScheduleInv

(* What the schedule intake tells its callers is what the database holds, for *)
(* any bodies, intents and processes (intake, schedule).                      *)
THEOREM ScheduleKept ==
    ASSUME S!IntakeAssumption PROVE S!Spec => []ScheduleInv
<1>1. S!Init => ScheduleInv
  BY IntakeInit
<1>2. ScheduleInv /\ [S!Next]_(S!vars) => ScheduleInv'
  <2> SUFFICES ASSUME ScheduleInv, [S!Next]_(S!vars) PROVE ScheduleInv'
    OBVIOUS
  <2>1. CASE UNCHANGED S!vars
    BY <2>1 DEF S!vars, ScheduleInv, CallRight, GraphRight, ChildRight, Answered, Refused, Fits, Hopeless, OneAtATime
  <2>2. ASSUME NEW c \in Intents, S!Submit(c) \/ S!Confirmed(c) \/ S!Abandon(c) \/ S!Store(c) \/ S!Refuse(c)
        PROVE  ScheduleInv'
    BY <2>2, SubmitKeeps, ConfirmedKeeps, AbandonKeeps, StoreKeeps, RefuseKeeps
  <2> QED
    BY <2>1, <2>2, MissionKeeps, HourKeeps DEF S!Next
<1> QED
  BY <1>1, <1>2, PTL DEF S!Spec

LEMMA AnswersAgree == ASSUME ScheduleInv, ~SharedDatabase PROVE S!SameIntentSameAnswer
  BY DEF ScheduleInv, OneAtATime, Answered, Refused, S!SameIntentSameAnswer

LEMMA ChildIsAsked == ASSUME S!IntakeAssumption, ScheduleInv PROVE S!ChildIsWhatWasAsked
<1> SUFFICES ASSUME created # Unset, NEW a \in told, a.answer = "graph"
             PROVE  S!Asked(created.payload) = S!Asked(S!Canonical(a.body)) /\ created.ws = a.ws
  BY DEF S!ChildIsWhatWasAsked
<1>1. a.body \in Schedules /\ S!Coherent(a.body) /\ stored.input = Written(a.body) /\ stored.ws = a.ws
  BY DEF ScheduleInv, Answered, Fits
<1>2. created.payload = S!Canonical(S!Handed(S!Canonical(stored.input))) /\ created.ws = stored.ws
  BY DEF ScheduleInv, ChildRight
<1> QED
  BY <1>1, <1>2, ReadAgain, HandedFacts

(* In one process the same schedule gets the same answer however often and
   however late it is submitted. *)
THEOREM SameAnswer ==
    ASSUME S!IntakeAssumption, ~SharedDatabase PROVE S!Spec => []S!SameIntentSameAnswer
<1>1. ScheduleInv => S!SameIntentSameAnswer
  BY AnswersAgree
<1> QED
  BY <1>1, ScheduleKept, PTL

(* Whoever is told the graph is theirs gets the child they asked for. *)
THEOREM AskedAndGot == ASSUME S!IntakeAssumption PROVE S!Spec => []S!ChildIsWhatWasAsked
<1>1. ScheduleInv => S!ChildIsWhatWasAsked
  BY ChildIsAsked
<1> QED
  BY <1>1, ScheduleKept, PTL

LEMMA ScheduleSteps == [ServicesNext]_tables => [S!Next]_(S!vars)
BY DEF ServicesNext, IntakeStep, ApprovalStep, ObservationStep, GraphStep, GenericStep, CommandStep, BoardStep,
       RunStep, BridgeStep, DatabaseStep, ScheduleStep, LedgerStep, IntentStep, CloseoutStep, tables, schedules, S!vars

(* In one process a schedule asked for twice gets the same answer, beside the *)
(* other services too.                                                        *)
THEOREM AnswersKept == ASSUME ~SharedDatabase PROVE ServicesSpec => []SameIntentSameAnswer
<1>1. ServicesInit => S!Init
  BY DEF ServicesInit
<1>2. ServicesSpec => S!Spec
  BY <1>1, ScheduleSteps, PTL DEF ServicesSpec, S!Spec
<1>3. S!Spec => []S!SameIntentSameAnswer
  BY ServicesAssumption, SameAnswer
<1> QED
  BY <1>2, <1>3, PTL DEF SameIntentSameAnswer

(* The child the schedule's callers get is the one they asked for, in one     *)
(* process or several.                                                        *)
THEOREM ScheduledAsAsked == ServicesSpec => []ChildIsWhatWasAsked
<1>1. ServicesInit => S!Init
  BY DEF ServicesInit
<1>2. ServicesSpec => S!Spec
  BY <1>1, ScheduleSteps, PTL DEF ServicesSpec, S!Spec
<1>3. S!Spec => []S!ChildIsWhatWasAsked
  BY ServicesAssumption, AskedAndGot
<1> QED
  BY <1>2, <1>3, PTL DEF ChildIsWhatWasAsked

-------------------------------------------------------------------------------
(* The observation loop: what is claimed of a post, and on what evidence.     *)
CallFields == {"pc", "todo", "node", "number", "answer", "seen", "class"}

(* The projection of a post says no more than its evidence.                 *)
Confirmed(n) == O!Event("observation", projection[n]) \in evidence[n]
ResultRight(n) ==
    /\ DOMAIN projection[n] = {"rev", "look", "status"} /\ projection[n].rev \in Nat
    /\ projection[n].rev > 0 \/ projection[n].look # O!None => Confirmed(n)
    /\ projection[n].rev = 0 /\ projection[n].status # O!None =>
         \E e \in evidence[n] : e.kind = "identity_mismatch"
ResultsRight == DOMAIN projection = Watched /\ DOMAIN evidence = Watched /\ \A n \in Watched : ResultRight(n)

JobsRight ==
    /\ DOMAIN job = Watched /\ DOMAIN escalation = Watched
    /\ \A n \in Watched : "status" \in DOMAIN job[n]
    /\ \A n \in Watched : job[n].status = "escalation_required" => escalation[n] # O!None
PostsRight ==
    /\ DOMAIN post = Watched
    /\ \A n \in Watched : DOMAIN post[n] = {"rev", "look"} /\ post[n].rev \in Nat \ {0}
Observed(n, look) == \E e \in evidence[n] : e.kind = "observation" /\ e.look = look
Vouched(n, look) ==
    \E e \in evidence[n] : e.kind = "observation" /\ e.look \in Looks /\ O!SameOperation(e.look, look)
BundlesRight ==
    /\ DOMAIN bundle = Watched
    /\ \A n \in Watched : bundle[n].upload => Vouched(n, bundle[n].look)

(* What a call in flight knows is so.                                       *)
AnswerRight(answer) == answer.rev \in Nat /\ (answer.rev = 0 => answer.look \in {"unavailable", "foreign"})
LookerRight(a, m) ==
    /\ DOMAIN m = CallFields /\ m.todo \in Seq(Watched)
    /\ a \in Batches /\ m.pc # "idle" => m.todo # <<>>
    /\ m.pc \in {"asked", "answered", "projected"} => m.node \in Watched
    /\ m.pc = "answered" => AnswerRight(m.answer)
    /\ a \in Readers /\ m.pc # "idle" /\ m.class = "evidence" =>
         m.node \in Watched /\ (m.seen.look # O!None => Observed(m.node, m.seen.look))
CallsRight == DOMAIN actor = O!Actors /\ \A a \in O!Actors : LookerRight(a, actor[a])

LoopInv == completed \subseteq Watched /\ ResultsRight /\ JobsRight /\ PostsRight /\ BundlesRight /\ CallsRight

(* Evidence is only added to. *)
Kept == \A n \in Watched : evidence[n] \subseteq evidence'[n]
Forward ==
    \A n \in Watched : /\ projection'[n].rev >= projection[n].rev
                       /\ projection'[n].rev = projection[n].rev => projection'[n].look = projection[n].look

-----------------------------------------------------------------------------
LEMMA Shorter ==
    ASSUME NEW X, NEW q \in Seq(X), q # <<>>, Len(q) # 1 PROVE Tail(q) \in Seq(X) /\ Tail(q) # <<>>
<1>1. Len(q) \in Nat /\ Len(q) # 0
  OBVIOUS
<1>2. Tail(q) \in Seq(X) /\ Len(Tail(q)) = Len(q) - 1
  BY <1>1
<1> QED
  BY <1>1, <1>2

LEMMA NothingToDo == <<>> \in Seq(Watched)
  OBVIOUS

LEMMA IdleRight == ASSUME NEW a PROVE LookerRight(a, O!Idle) /\ LookerRight(a, O!Idle)'
  BY DEF O!Idle, LookerRight, CallFields

LEMMA LoopInit == ASSUME O!Init PROVE LoopInv
<1>1. ResultsRight
  BY DEF O!Init, ResultsRight, ResultRight, O!NoProjection
<1>2. JobsRight
  BY DEF O!Init, JobsRight, O!NoJob
<1>3. PostsRight
  BY DEF O!Init, PostsRight
<1>4. BundlesRight
  BY DEF O!Init, BundlesRight, O!NoBundle
<1>5. CallsRight
  BY IdleRight DEF O!Init, CallsRight
<1> QED
  BY <1>1, <1>2, <1>3, <1>4, <1>5 DEF O!Init, LoopInv

(* One call moves; the others keep what they know. *)
LEMMA LookerMoves ==
    ASSUME CallsRight, Kept, NEW a \in O!Actors, NEW m, actor' = [actor EXCEPT ![a] = m], LookerRight(a, m)'
    PROVE  CallsRight'
<1>1. DOMAIN actor' = O!Actors /\ actor'[a] = m /\ \A b \in O!Actors \ {a} : actor'[b] = actor[b]
  BY DEF CallsRight
<1>2. ASSUME NEW b \in O!Actors \ {a} PROVE LookerRight(b, actor[b])'
  <2>1. LookerRight(b, actor[b]) /\ actor'[b] = actor[b]
    BY <1>1 DEF CallsRight
  <2> QED
    BY <2>1 DEF LookerRight, Kept, Observed
<1>3. LookerRight(a, actor[a])'
  BY <1>1 DEF LookerRight
<1> QED
  BY <1>1, <1>2, <1>3 DEF CallsRight

LEMMA CallsStay == ASSUME CallsRight, Kept, UNCHANGED actor PROVE CallsRight'
  BY DEF CallsRight, LookerRight, Kept, Observed

LEMMA ResultsStay == ASSUME ResultsRight, UNCHANGED O!results PROVE ResultsRight' /\ Kept /\ Forward
<1>1. projection' = projection /\ evidence' = evidence
  BY DEF O!results
<1>2. ResultsRight'
  BY <1>1 DEF ResultsRight, ResultRight, Confirmed
<1>3. Forward
  BY <1>1 DEF Forward, ResultsRight, ResultRight
<1> QED
  BY <1>1, <1>2, <1>3 DEF Kept

LEMMA BundlesStay == ASSUME BundlesRight, Kept, UNCHANGED bundle PROVE BundlesRight'
  BY DEF BundlesRight, Kept, Vouched

(* Only a snapshot of a later revision replaces the one on record.          *)
LEMMA StoringKeeps ==
    ASSUME ResultsRight, NEW n \in Watched, NEW seen, seen.rev \in Nat, seen.rev > projection[n].rev, O!Store(n, seen)
    PROVE  ResultsRight' /\ Kept /\ Forward
<1> PICK p : p = [rev |-> seen.rev, look |-> seen.look, status |-> O!Classified(seen.look)]
  OBVIOUS
<1>1. DOMAIN p = {"rev", "look", "status"} /\ p.rev = seen.rev /\ p.look = seen.look
  OBVIOUS
<1>2. projection' = [projection EXCEPT ![n] = p]
  BY DEF O!Store
<1> PICK e : e = O!Event("observation", seen)
  OBVIOUS
<1>3. evidence' = [evidence EXCEPT ![n] = evidence[n] \cup {e}]
  BY DEF O!Store
<1>4. /\ DOMAIN projection' = Watched /\ projection'[n] = p /\ \A m \in Watched \ {n} : projection'[m] = projection[m]
      /\ DOMAIN evidence' = Watched /\ evidence'[n] = evidence[n] \cup {e}
      /\ \A m \in Watched \ {n} : evidence'[m] = evidence[m]
  BY <1>2, <1>3 DEF ResultsRight
<1>5. O!Event("observation", p) = e
  BY <1>1 DEF O!Event
<1>6. ResultRight(n)'
  <2>1. p.rev \in Nat /\ p.rev > 0
    BY <1>1 DEF ResultsRight, ResultRight
  <2>2. O!Event("observation", projection'[n]) \in evidence'[n]
    BY <1>4, <1>5
  <2> QED
    BY <1>1, <1>4, <2>1, <2>2 DEF ResultRight, Confirmed
<1>7. ASSUME NEW m \in Watched \ {n} PROVE ResultRight(m)'
  BY <1>4 DEF ResultsRight, ResultRight, Confirmed
<1>8. Forward
  BY <1>1, <1>4 DEF Forward, ResultsRight, ResultRight
<1> QED
  BY <1>4, <1>6, <1>7, <1>8 DEF ResultsRight, Kept

(* A review marks the projection and leaves its snapshot.                   *)
LEMMA ReviewingKeeps ==
    ASSUME ResultsRight, NEW n \in Watched, NEW e, e.kind = "identity_mismatch" \/ projection[n].rev > 0,
           projection' = O!Review(n), evidence' = [evidence EXCEPT ![n] = @ \cup {e}]
    PROVE  ResultsRight' /\ Kept /\ Forward
<1> PICK p : p = [projection[n] EXCEPT !.status = "manual_review_required"]
  OBVIOUS
<1>1. DOMAIN p = {"rev", "look", "status"} /\ p.rev = projection[n].rev /\ p.look = projection[n].look
  BY DEF ResultsRight, ResultRight
<1>2. projection' = [projection EXCEPT ![n] = p]
  BY DEF O!Review
<1>4. /\ DOMAIN projection' = Watched /\ projection'[n] = p /\ \A m \in Watched \ {n} : projection'[m] = projection[m]
      /\ DOMAIN evidence' = Watched /\ evidence'[n] = evidence[n] \cup {e}
      /\ \A m \in Watched \ {n} : evidence'[m] = evidence[m]
  BY <1>2 DEF ResultsRight
<1>5. O!Event("observation", p) = O!Event("observation", projection[n])
  BY <1>1 DEF O!Event
<1>6. ResultRight(n)'
  BY <1>1, <1>4, <1>5 DEF ResultsRight, ResultRight, Confirmed
<1>7. ASSUME NEW m \in Watched \ {n} PROVE ResultRight(m)'
  BY <1>4 DEF ResultsRight, ResultRight, Confirmed
<1>8. Forward
  BY <1>1, <1>4 DEF Forward, ResultsRight, ResultRight
<1> QED
  BY <1>4, <1>6, <1>7, <1>8 DEF ResultsRight, Kept

LEMMA PersistKeeps ==
    ASSUME ResultsRight, NEW n \in Watched, NEW seen, AnswerRight(seen), O!Persist(n, seen)
    PROVE  ResultsRight' /\ Kept /\ Forward
<1>1. seen.rev \in Nat /\ projection[n].rev \in Nat
  BY DEF AnswerRight, ResultsRight, ResultRight
<1>2. CASE UNCHANGED O!results
  BY <1>2, ResultsStay
<1>3. ASSUME NEW kind, kind = "identity_mismatch" \/ projection[n].rev > 0, projection' = O!Review(n),
             evidence' = [evidence EXCEPT ![n] = @ \cup {O!Event(kind, seen)}]
      PROVE  ResultsRight' /\ Kept /\ Forward
  <2>1. O!Event(kind, seen).kind = kind
    BY DEF O!Event
  <2> QED
    BY <1>3, <2>1, ReviewingKeeps
<1>4. CASE seen.rev > projection[n].rev /\ O!Store(n, seen)
  BY <1>1, <1>4, StoringKeeps
<1>5. \/ seen.look = "unavailable" \/ seen.look = "foreign"
      \/ seen.rev > 0 /\ seen.rev < projection[n].rev
      \/ seen.rev > 0 /\ seen.rev = projection[n].rev /\ seen.look = projection[n].look
      \/ seen.rev > 0 /\ seen.rev = projection[n].rev /\ seen.look # projection[n].look
      \/ seen.rev > projection[n].rev
  BY <1>1 DEF AnswerRight
<1>6. \/ UNCHANGED O!results
      \/ /\ projection' = O!Review(n)
         /\ evidence' = [evidence EXCEPT ![n] = @ \cup {O!Event("identity_mismatch", seen)}]
      \/ /\ seen.rev > 0 /\ seen.rev = projection[n].rev /\ projection' = O!Review(n)
         /\ evidence' = [evidence EXCEPT ![n] = @ \cup {O!Event("contradiction", seen)}]
      \/ seen.rev > projection[n].rev /\ O!Store(n, seen)
  BY <1>5 DEF O!Persist
<1> QED
  BY <1>1, <1>2, <1>3, <1>4, <1>6

-----------------------------------------------------------------------------
(* One lemma for each action that moves more than a clock. *)
LEMMA JobMoves ==
    ASSUME JobsRight, NEW n \in Watched, NEW r, "status" \in DOMAIN r, job' = [job EXCEPT ![n] = r],
           r.status = "escalation_required" => escalation'[n] # O!None,
           DOMAIN escalation' = Watched, \A m \in Watched : escalation[m] # O!None => escalation'[m] # O!None
    PROVE  JobsRight'
<1>1. DOMAIN job' = Watched /\ job'[n] = r /\ \A m \in Watched \ {n} : job'[m] = job[m]
  BY DEF JobsRight
<1> QED
  BY <1>1 DEF JobsRight

LEMMA JobsStay == ASSUME JobsRight, UNCHANGED <<job, escalation>> PROVE JobsRight'
  BY DEF JobsRight

(* The loop's module and this one count a set in the same way. *)
LEMMA SameFinite == ASSUME NEW X PROVE O!IsFiniteSet(X) = IsFiniteSet(X)
  BY Zenon DEF O!IsFiniteSet, IsFiniteSet

LEMMA SameSize == ASSUME NEW X PROVE O!Cardinality(X) = Cardinality(X)
  BY Zenon DEF O!Cardinality, Cardinality

LEMMA OrderIsSeq ==
    ASSUME O!LoopAssumption, NEW due \in SUBSET Watched, NEW listed \in O!SetToSeqs(due)
    PROVE  listed \in Seq(Watched) /\ (due # {} => listed # <<>>)
<1>1. IsFiniteSet(due)
  BY FS_Subset, SameFinite DEF O!LoopAssumption
<1>2. Cardinality(due) \in Nat /\ (Cardinality(due) = 0 <=> due = {})
  BY <1>1, FS_CardinalityType, FS_EmptySet
<1>3. listed \in [1..Cardinality(due) -> due]
  BY SameSize DEF O!SetToSeqs
<1>4. listed \in Seq(Watched) /\ Len(listed) = Cardinality(due)
  BY <1>2, <1>3
<1> QED
  BY <1>2, <1>4

LEMMA BackfillFacts ==
    ASSUME LoopInv, NEW n \in Watched
    PROVE  /\ "status" \in DOMAIN O!Backfilled(n)
           /\ O!Backfilled(n).status = "escalation_required" => escalation[n] # O!None
  BY DEF LoopInv, JobsRight, O!Backfilled, O!Pending, O!NoJob

LEMMA BatchKeeps == ASSUME O!LoopAssumption, LoopInv, NEW b \in Batches, O!RunBatch(b) PROVE LoopInv' /\ Forward
<1>1. UNCHANGED <<completed, tried, escalation, O!results, bundle, post>>
  BY DEF O!RunBatch
<1>2. ResultsRight' /\ Kept /\ Forward
  BY <1>1, ResultsStay DEF LoopInv
<1>3. PICK due \in SUBSET Watched :
        /\ job' = [n \in Watched |-> IF n \in due
                     THEN [O!Backfilled(n) EXCEPT !.status = "leased", !.owner = Owner[b], !.lapsed = FALSE]
                     ELSE O!Backfilled(n)]
        /\ \E listed \in O!SetToSeqs(due) :
             actor' = [actor EXCEPT ![b] = IF due = {} THEN O!Idle ELSE [O!Idle EXCEPT !.pc = "next", !.todo = listed]]
  BY DEF O!RunBatch
<1>4. PICK listed \in O!SetToSeqs(due) :
        actor' = [actor EXCEPT ![b] = IF due = {} THEN O!Idle ELSE [O!Idle EXCEPT !.pc = "next", !.todo = listed]]
  BY <1>3
<1>5. JobsRight'
  <2>1. ASSUME NEW n \in Watched
        PROVE  "status" \in DOMAIN job'[n] /\ (job'[n].status = "escalation_required" => escalation'[n] # O!None)
    <3>1. CASE n \in due
      <4> PICK r : r = [O!Backfilled(n) EXCEPT !.status = "leased", !.owner = Owner[b], !.lapsed = FALSE]
        OBVIOUS
      <4>1. "status" \in DOMAIN r /\ r.status = "leased"
        BY BackfillFacts
      <4> QED
        BY <1>3, <3>1, <4>1
    <3>2. CASE n \notin due
      BY <1>1, <1>3, <3>2, BackfillFacts
    <3> QED
      BY <3>1, <3>2
  <2>2. DOMAIN job' = Watched /\ DOMAIN escalation' = Watched
    BY <1>1, <1>3 DEF LoopInv, JobsRight
  <2> QED
    BY <2>1, <2>2 DEF JobsRight
<1>6. CallsRight'
  <2>1. CASE due = {}
    BY <1>2, <1>4, <2>1, IdleRight, LookerMoves DEF LoopInv, O!Actors
  <2>2. CASE due # {}
    <3> PICK m : m = [O!Idle EXCEPT !.pc = "next", !.todo = listed]
      OBVIOUS
    <3>1. DOMAIN m = CallFields /\ m.pc = "next" /\ m.todo = listed /\ m.class = O!None
      BY DEF O!Idle, CallFields
    <3>2. listed \in Seq(Watched) /\ listed # <<>>
      BY <2>2, OrderIsSeq
    <3>3. LookerRight(b, m)'
      BY <3>1, <3>2 DEF LookerRight, O!None
    <3>4. actor' = [actor EXCEPT ![b] = m]
      BY <1>4, <2>2
    <3> QED
      BY <1>2, <3>3, <3>4, LookerMoves DEF LoopInv, O!Actors
  <2> QED
    BY <2>1, <2>2
<1>7. BundlesRight' /\ PostsRight'
  BY <1>1, <1>2, BundlesStay DEF LoopInv, PostsRight
<1> QED
  BY <1>1, <1>2, <1>5, <1>6, <1>7 DEF LoopInv

LEMMA BeginKeeps == ASSUME O!LoopAssumption, LoopInv, NEW b \in Batches, O!BeginAttempt(b) PROVE LoopInv' /\ Forward
<1>1. UNCHANGED <<completed, tried, escalation, O!results, bundle, post>>
  BY DEF O!BeginAttempt
<1>2. ResultsRight' /\ Kept /\ Forward
  BY <1>1, ResultsStay DEF LoopInv
<1>3. b \in O!Actors /\ LookerRight(b, actor[b]) /\ actor[b].pc = "next"
  BY DEF LoopInv, CallsRight, O!Actors, O!BeginAttempt
<1> PICK n : n = Head(actor[b].todo)
  OBVIOUS
<1>4. n \in Watched
  BY <1>3 DEF LookerRight
<1>5. CASE job[n].status = "leased" /\ job[n].owner = Owner[b]
  <2>1. /\ job' = [job EXCEPT ![n].status = "observing", ![n].count = @ + 1]
        /\ actor' = [actor EXCEPT ![b].pc = "asked", ![b].node = n, ![b].number = job[n].count + 1]
    BY <1>5 DEF O!BeginAttempt
  <2> PICK r : r = [[job[n] EXCEPT !.status = "observing"] EXCEPT !.count = job[n].count + 1]
    OBVIOUS
  <2>2. "status" \in DOMAIN r /\ r.status = "observing"
    BY <1>4 DEF LoopInv, JobsRight
  <2>3. job' = [job EXCEPT ![n] = r]
    <3>1. [job EXCEPT ![n].status = "observing", ![n].count = @ + 1]
            = [job EXCEPT ![n] = [job[n] EXCEPT !.status = "observing", !.count = job[n].count + 1]]
      BY <1>4 DEF LoopInv, JobsRight
    <3> QED
      BY <2>1, <3>1
  <2>4. JobsRight'
    BY <1>1, <1>4, <2>2, <2>3, JobMoves DEF LoopInv, JobsRight
  <2> PICK m : m = [actor[b] EXCEPT !.pc = "asked", !.node = n, !.number = job[n].count + 1]
    OBVIOUS
  <2>5. DOMAIN m = CallFields /\ m.pc = "asked" /\ m.node = n /\ m.todo = actor[b].todo
    BY <1>3 DEF LookerRight, CallFields
  <2>6. actor' = [actor EXCEPT ![b] = m]
    BY <1>3, <2>1
  <2>7. LookerRight(b, m)'
    BY <1>3, <1>4, <2>5 DEF LookerRight, O!LoopAssumption
  <2>8. CallsRight'
    BY <1>2, <1>3, <2>6, <2>7, LookerMoves DEF LoopInv
  <2> QED
    BY <1>1, <1>2, <2>4, <2>8, BundlesStay DEF LoopInv, PostsRight
<1>6. CASE ~(job[n].status = "leased" /\ job[n].owner = Owner[b])
  <2>1. actor' = [actor EXCEPT ![b] = O!Idle] /\ UNCHANGED job
    BY <1>6 DEF O!BeginAttempt
  <2>2. CallsRight'
    BY <1>2, <1>3, <2>1, IdleRight, LookerMoves DEF LoopInv
  <2> QED
    BY <1>1, <1>2, <2>1, <2>2, BundlesStay, JobsStay DEF LoopInv, PostsRight
<1> QED
  BY <1>5, <1>6

LEMMA AnswerKeeps == ASSUME O!LoopAssumption, LoopInv, NEW a \in O!Actors, O!Answer(a) PROVE LoopInv' /\ Forward
<1>1. UNCHANGED <<O!rows, O!results, bundle, post>>
  BY DEF O!Answer
<1>2. ResultsRight' /\ Kept /\ Forward
  BY <1>1, ResultsStay DEF LoopInv
<1>3. LookerRight(a, actor[a]) /\ actor[a].pc = "asked"
  BY DEF LoopInv, CallsRight, O!Answer
<1>4. \E answer : /\ AnswerRight(answer)
                  /\ actor' = [actor EXCEPT ![a].pc = "answered", ![a].answer = answer]
  <2>1. CASE actor' = [actor EXCEPT ![a].pc = "answered", ![a].answer = post[actor[a].node]]
    <3>1. AnswerRight(post[actor[a].node])
      BY <1>3 DEF LookerRight, LoopInv, PostsRight, AnswerRight
    <3> QED
      BY <2>1, <3>1
  <2>2. ASSUME NEW failure \in {"unavailable", "foreign"},
               actor' = [actor EXCEPT ![a].pc = "answered", ![a].answer = [rev |-> 0, look |-> failure]]
        PROVE  \E answer : /\ AnswerRight(answer)
                           /\ actor' = [actor EXCEPT ![a].pc = "answered", ![a].answer = answer]
    <3>1. AnswerRight([rev |-> 0, look |-> failure])
      BY DEF AnswerRight
    <3> QED
      BY <2>2, <3>1
  <2> QED
    BY <2>1, <2>2 DEF O!Answer
<1>5. PICK answer : AnswerRight(answer) /\ actor' = [actor EXCEPT ![a].pc = "answered", ![a].answer = answer]
  BY <1>4
<1> PICK m : m = [actor[a] EXCEPT !.pc = "answered", !.answer = answer]
  OBVIOUS
<1>6. /\ DOMAIN m = CallFields /\ m.pc = "answered" /\ m.answer = answer /\ m.todo = actor[a].todo
      /\ m.node = actor[a].node /\ m.class = actor[a].class /\ m.seen = actor[a].seen
  BY <1>3 DEF LookerRight, CallFields
<1>7. actor' = [actor EXCEPT ![a] = m]
  BY <1>5
<1>8. LookerRight(a, m)'
  BY <1>2, <1>3, <1>5, <1>6 DEF LookerRight, Kept, Observed
<1>9. CallsRight'
  BY <1>2, <1>7, <1>8, LookerMoves DEF LoopInv
<1> QED
  BY <1>1, <1>2, <1>9, BundlesStay, JobsStay DEF LoopInv, PostsRight, O!rows

LEMMA ProjectKeeps == ASSUME O!LoopAssumption, LoopInv, NEW b \in Batches, O!Project(b) PROVE LoopInv' /\ Forward
<1>1. UNCHANGED <<O!rows, bundle, post>> /\ O!Persist(actor[b].node, actor[b].answer)
  BY DEF O!Project
<1>2. b \in O!Actors /\ LookerRight(b, actor[b]) /\ actor[b].pc = "answered"
  BY DEF LoopInv, CallsRight, O!Project, O!Actors
<1>3. ResultsRight' /\ Kept /\ Forward
  BY <1>1, <1>2, PersistKeeps DEF LoopInv, LookerRight
<1>4. PICK class : actor' = [actor EXCEPT ![b].pc = "projected", ![b].answer = O!NoAnswer, ![b].class = class]
  BY DEF O!Project
<1> PICK m : m = [actor[b] EXCEPT !.pc = "projected", !.answer = O!NoAnswer, !.class = class]
  OBVIOUS
<1>5. DOMAIN m = CallFields /\ m.pc = "projected" /\ m.todo = actor[b].todo /\ m.node = actor[b].node
  BY <1>2 DEF LookerRight, CallFields
<1>6. actor' = [actor EXCEPT ![b] = m]
  BY <1>4
<1>7. LookerRight(b, m)'
  BY <1>2, <1>5 DEF LookerRight, O!LoopAssumption
<1>8. CallsRight'
  BY <1>2, <1>3, <1>6, <1>7, LookerMoves DEF LoopInv
<1> QED
  BY <1>1, <1>3, <1>8, BundlesStay, JobsStay DEF LoopInv, PostsRight, O!rows

LEMMA ConvergeKeeps == ASSUME O!LoopAssumption, LoopInv, NEW b \in Batches, O!Converge(b) PROVE LoopInv' /\ Forward
<1>1. UNCHANGED <<completed, O!results, bundle, post>>
  BY DEF O!Converge
<1>2. b \in O!Actors /\ LookerRight(b, actor[b]) /\ actor[b].pc = "projected"
  BY DEF LoopInv, CallsRight, O!Converge, O!Actors
<1>3. ResultsRight' /\ Kept /\ Forward
  BY <1>1, ResultsStay DEF LoopInv
<1> PICK n : n = actor[b].node
  OBVIOUS
<1>4. n \in Watched
  BY <1>2 DEF LookerRight
<1>5. JobsRight'
  <2> PICK r : r = [job[n] EXCEPT !.status = O!NextStatus(O!Verdict(b)), !.due = FALSE, !.owner = O!None, !.lapsed = FALSE]
    OBVIOUS
  <2>1. "status" \in DOMAIN r /\ r.status = O!NextStatus(O!Verdict(b))
    BY <1>4 DEF LoopInv, JobsRight
  <2>2. job' = [job EXCEPT ![n] = r]
    BY DEF O!Converge
  <2>3. escalation' = [escalation EXCEPT ![n] = IF O!Verdict(b) = "escalation_required" /\ @ = O!None THEN "open" ELSE @]
    BY DEF O!Converge
  <2>4. DOMAIN escalation' = Watched /\ \A m \in Watched : escalation[m] # O!None => escalation'[m] # O!None
    BY <2>3 DEF LoopInv, JobsRight, O!None
  <2>5. r.status = "escalation_required" => escalation'[n] # O!None
    BY <1>4, <2>1, <2>3 DEF LoopInv, JobsRight, O!NextStatus, O!None
  <2> QED
    BY <1>4, <2>1, <2>2, <2>4, <2>5, JobMoves DEF LoopInv
<1>6. CallsRight'
  <2>1. actor[b].todo \in Seq(Watched) /\ actor[b].todo # <<>>
    BY <1>2 DEF LookerRight
  <2>2. CASE Len(actor[b].todo) = 1
    <3>1. actor' = [actor EXCEPT ![b] = O!Idle]
      BY <2>2 DEF O!Converge
    <3> QED
      BY <1>2, <1>3, <3>1, IdleRight, LookerMoves DEF LoopInv
  <2>3. CASE Len(actor[b].todo) # 1
    <3> PICK m : m = [O!Idle EXCEPT !.pc = "next", !.todo = Tail(actor[b].todo)]
      OBVIOUS
    <3>1. actor' = [actor EXCEPT ![b] = m]
      BY <2>3 DEF O!Converge
    <3>2. DOMAIN m = CallFields /\ m.pc = "next" /\ m.todo = Tail(actor[b].todo) /\ m.class = O!None
      BY DEF O!Idle, CallFields
    <3>3. Tail(actor[b].todo) \in Seq(Watched) /\ Tail(actor[b].todo) # <<>>
      BY <2>1, <2>3, Shorter
    <3>4. LookerRight(b, m)'
      BY <3>2, <3>3 DEF LookerRight, O!None
    <3> QED
      BY <1>2, <1>3, <3>1, <3>4, LookerMoves DEF LoopInv
  <2> QED
    BY <2>2, <2>3
<1> QED
  BY <1>1, <1>3, <1>5, <1>6, BundlesStay DEF LoopInv, PostsRight

LEMMA AskKeeps ==
    ASSUME O!LoopAssumption, LoopInv, NEW r \in Readers, NEW n \in Watched, O!Refresh(r, n) \/ O!GenerateEvidence(r, n)
    PROVE  LoopInv' /\ Forward
<1>1. UNCHANGED <<O!rows, O!results, bundle, post>> /\ n \in completed
  BY DEF O!Refresh, O!GenerateEvidence
<1>2. ResultsRight' /\ Kept /\ Forward
  BY <1>1, ResultsStay DEF LoopInv
<1>3. r \in O!Actors /\ r \notin Batches
  BY DEF O!Actors, O!LoopAssumption
<1>4. \E m : LookerRight(r, m)' /\ actor' = [actor EXCEPT ![r] = m]
  <2>1. CASE O!Refresh(r, n)
    <3> PICK m : m = [O!Idle EXCEPT !.pc = "asked", !.node = n, !.class = "refresh"]
      OBVIOUS
    <3>1. DOMAIN m = CallFields /\ m.pc = "asked" /\ m.node = n /\ m.class = "refresh" /\ m.todo = <<>>
      BY DEF O!Idle, CallFields
    <3>2. m.todo \in Seq(Watched) /\ m.pc \notin {"answered"} /\ m.class # "evidence"
      BY <3>1, NothingToDo
    <3>3. LookerRight(r, m)'
      BY <1>3, <3>1, <3>2 DEF LookerRight
    <3> QED
      BY <2>1, <3>3 DEF O!Refresh
  <2>2. CASE O!GenerateEvidence(r, n)
    <3> PICK m : m = [O!Idle EXCEPT !.pc = "asked", !.node = n, !.class = "evidence", !.seen = projection[n]]
      OBVIOUS
    <3>1. DOMAIN m = CallFields /\ m.pc = "asked" /\ m.node = n /\ m.seen = projection[n] /\ m.todo = <<>>
      BY DEF O!Idle, CallFields
    <3>2. projection[n].look # O!None => Observed(n, projection[n].look)
      BY DEF LoopInv, ResultsRight, ResultRight, Confirmed, Observed, O!Event
    <3>3. /\ m.todo \in Seq(Watched)
          /\ m.pc \notin {"answered"}
          /\ m.class = "evidence"
      <4>1. m.todo = <<>> /\ m.pc = "asked" /\ m.class = "evidence"
        BY <3>1
      <4> QED
        BY <4>1, NothingToDo
    <3>4. m.seen.look # O!None => Observed(m.node, m.seen.look)'
      BY <1>2, <3>1, <3>2 DEF Kept, Observed
    <3>5. LookerRight(r, m)'
      BY <1>3, <3>1, <3>3, <3>4 DEF LookerRight
    <3> QED
      BY <2>2, <3>5 DEF O!GenerateEvidence
  <2> QED
    BY <2>1, <2>2
<1>5. CallsRight'
  BY <1>2, <1>3, <1>4, LookerMoves DEF LoopInv
<1> QED
  BY <1>1, <1>2, <1>5, BundlesStay, JobsStay DEF LoopInv, PostsRight, O!rows

LEMMA FinishRefreshKeeps ==
    ASSUME O!LoopAssumption, LoopInv, NEW r \in Readers, O!FinishRefresh(r) PROVE LoopInv' /\ Forward
<1>1. UNCHANGED <<O!rows, bundle, post>> /\ O!Persist(actor[r].node, actor[r].answer) /\ actor' = [actor EXCEPT ![r] = O!Idle]
  BY DEF O!FinishRefresh
<1>2. r \in O!Actors /\ LookerRight(r, actor[r]) /\ actor[r].pc = "answered"
  BY DEF LoopInv, CallsRight, O!FinishRefresh, O!Actors
<1>3. ResultsRight' /\ Kept /\ Forward
  BY <1>1, <1>2, PersistKeeps DEF LoopInv, LookerRight
<1>4. CallsRight'
  BY <1>1, <1>2, <1>3, IdleRight, LookerMoves DEF LoopInv
<1> QED
  BY <1>1, <1>3, <1>4, BundlesStay, JobsStay DEF LoopInv, PostsRight, O!rows

LEMMA WriteKeeps ==
    ASSUME O!LoopAssumption, LoopInv, NEW r \in Readers, O!WriteBundle(r) PROVE LoopInv' /\ Forward
<1>1. UNCHANGED <<O!rows, O!results, post>> /\ actor' = [actor EXCEPT ![r] = O!Idle]
  BY DEF O!WriteBundle
<1>2. r \in O!Actors /\ LookerRight(r, actor[r]) /\ actor[r].pc = "answered" /\ actor[r].class = "evidence"
  BY DEF LoopInv, CallsRight, O!WriteBundle, O!Actors
<1>3. ResultsRight' /\ Kept /\ Forward
  BY <1>1, ResultsStay DEF LoopInv
<1>4. CallsRight'
  BY <1>1, <1>2, <1>3, IdleRight, LookerMoves DEF LoopInv
<1> PICK n : n = actor[r].node
  OBVIOUS
<1> PICK k : k = [upload |-> O!ExactlyOneUpload(r), look |-> actor[r].answer.look]
  OBVIOUS
<1>5. n \in Watched
  BY <1>2 DEF LookerRight
<1>6. k.upload => Vouched(n, k.look)
  <2>1. ASSUME O!ExactlyOneUpload(r) PROVE Vouched(n, actor[r].answer.look)
    <3>1. actor[r].seen.look \in Looks /\ O!SameOperation(actor[r].seen.look, actor[r].answer.look)
      BY <2>1 DEF O!ExactlyOneUpload, O!OperationPersisted
    <3>2. actor[r].seen.look # O!None
      BY <3>1 DEF O!LoopAssumption
    <3>3. Observed(n, actor[r].seen.look)
      BY <1>2, <3>2 DEF LookerRight
    <3> QED
      BY <3>1, <3>3 DEF Observed, Vouched
  <2>2. k.upload = O!ExactlyOneUpload(r) /\ k.look = actor[r].answer.look
    OBVIOUS
  <2> QED
    BY <2>1, <2>2
<1>7. bundle' = bundle \/ bundle' = [bundle EXCEPT ![n] = k]
  BY DEF O!WriteBundle
<1>8. BundlesRight'
  <2>1. CASE bundle' = bundle
    BY <1>3, <2>1, BundlesStay DEF LoopInv
  <2>2. CASE bundle' = [bundle EXCEPT ![n] = k]
    <3>1. DOMAIN bundle' = Watched /\ bundle'[n] = k /\ \A m \in Watched \ {n} : bundle'[m] = bundle[m]
      BY <1>5, <2>2 DEF LoopInv, BundlesRight
    <3> QED
      BY <1>3, <1>6, <3>1 DEF LoopInv, BundlesRight, Kept, Vouched
  <2> QED
    BY <1>7, <2>1, <2>2
<1> QED
  BY <1>1, <1>3, <1>4, <1>8, JobsStay DEF LoopInv, PostsRight, O!rows

LEMMA NodeKeeps ==
    ASSUME O!LoopAssumption, LoopInv, NEW n \in Watched,
           O!Clock(n) \/ O!CompleteNode(n) \/ O!Acknowledge(n) \/ O!Resolve(n) \/ O!CancelJob(n)
    PROVE  LoopInv' /\ Forward
<1>1. UNCHANGED <<O!results, bundle, post, actor>> /\ completed' \subseteq Watched
  BY DEF O!Clock, O!FallDue, O!Lapse, O!CompleteNode, O!Acknowledge, O!Resolve, O!CancelJob, LoopInv
<1>2. ResultsRight' /\ Kept /\ Forward
  BY <1>1, ResultsStay DEF LoopInv
<1>3. CASE O!Acknowledge(n) \/ O!Resolve(n)
  <2>1. PICK to \in O!Closed \cup {"acknowledged"} : escalation' = [escalation EXCEPT ![n] = to] /\ UNCHANGED job
    BY <1>3 DEF O!Acknowledge, O!Resolve
  <2>2. DOMAIN escalation' = Watched /\ \A m \in Watched : escalation[m] # O!None => escalation'[m] # O!None
    BY <2>1 DEF LoopInv, JobsRight, O!Closed, O!None
  <2> QED
    BY <1>1, <1>2, <2>1, <2>2, BundlesStay, CallsStay DEF LoopInv, PostsRight, JobsRight
<1>4. CASE UNCHANGED <<job, escalation>>
  BY <1>1, <1>2, <1>4, BundlesStay, CallsStay, JobsStay DEF LoopInv, PostsRight
<1>5. ASSUME NEW r, "status" \in DOMAIN r, job' = [job EXCEPT ![n] = r], UNCHANGED escalation,
             r.status = "escalation_required" => job[n].status = "escalation_required"
      PROVE  LoopInv' /\ Forward
  <2>1. JobsRight'
    BY <1>5, JobMoves DEF LoopInv, JobsRight
  <2> QED
    BY <1>1, <1>2, <2>1, BundlesStay, CallsStay DEF LoopInv, PostsRight
<1>6. "status" \in DOMAIN job[n]
  BY DEF LoopInv, JobsRight
<1>7. CASE O!CompleteNode(n)
  <2>1. "status" \in DOMAIN O!Pending(n) /\ O!Pending(n).status = "pending"
    BY DEF O!Pending, O!NoJob
  <2> QED
    BY <1>4, <1>5, <1>7, <2>1 DEF O!CompleteNode
<1>8. CASE O!CancelJob(n)
  <2> PICK r : r = [job[n] EXCEPT !.status = "cancelled", !.due = FALSE, !.owner = O!None, !.lapsed = FALSE]
    OBVIOUS
  <2>1. "status" \in DOMAIN r /\ r.status = "cancelled"
    BY <1>6
  <2> QED
    BY <1>5, <1>8, <2>1 DEF O!CancelJob
<1>9. CASE O!Clock(n)
  <2>1. PICK r \in {[job[n] EXCEPT !.due = TRUE], [job[n] EXCEPT !.lapsed = TRUE]} :
          job' = [job EXCEPT ![n] = r] /\ UNCHANGED escalation
    BY <1>9 DEF O!Clock, O!FallDue, O!Lapse
  <2>2. "status" \in DOMAIN r /\ r.status = job[n].status
    BY <1>6, <2>1
  <2> QED
    BY <1>5, <2>1, <2>2
<1> QED
  BY <1>3, <1>7, <1>8, <1>9

LEMMA PostChangeKeeps ==
    ASSUME O!LoopAssumption, LoopInv, NEW n \in Watched, O!PostMoves(n) \/ O!PostContradicts(n)
    PROVE  LoopInv' /\ Forward
<1>1. UNCHANGED <<O!rows, O!results, bundle, actor>>
  BY DEF O!PostMoves, O!PostContradicts
<1>2. ResultsRight' /\ Kept /\ Forward
  BY <1>1, ResultsStay DEF LoopInv
<1>3. \E p : DOMAIN p = {"rev", "look"} /\ p.rev \in Nat \ {0} /\ post' = [post EXCEPT ![n] = p]
  <2>1. DOMAIN post[n] = {"rev", "look"} /\ post[n].rev \in Nat \ {0}
    BY DEF LoopInv, PostsRight
  <2>2. CASE O!PostMoves(n)
    <3>1. PICK look : post' = [post EXCEPT ![n] = [rev |-> post[n].rev + 1, look |-> look]]
      BY <2>2 DEF O!PostMoves
    <3> PICK p : p = [rev |-> post[n].rev + 1, look |-> look]
      OBVIOUS
    <3>2. DOMAIN p = {"rev", "look"} /\ p.rev \in Nat \ {0}
      BY <2>1
    <3> QED
      BY <3>1, <3>2
  <2>3. CASE O!PostContradicts(n)
    <3>1. PICK look : post' = [post EXCEPT ![n].look = look]
      BY <2>3 DEF O!PostContradicts
    <3> PICK p : p = [post[n] EXCEPT !.look = look]
      OBVIOUS
    <3>2. DOMAIN p = {"rev", "look"} /\ p.rev \in Nat \ {0}
      BY <2>1
    <3> QED
      BY <3>1, <3>2
  <2> QED
    BY <2>2, <2>3
<1>4. PICK p : DOMAIN p = {"rev", "look"} /\ p.rev \in Nat \ {0} /\ post' = [post EXCEPT ![n] = p]
  BY <1>3
<1>5. PostsRight'
  <2>1. DOMAIN post' = Watched /\ post'[n] = p /\ \A m \in Watched \ {n} : post'[m] = post[m]
    BY <1>4 DEF LoopInv, PostsRight
  <2> QED
    BY <1>4, <2>1 DEF LoopInv, PostsRight
<1> QED
  BY <1>1, <1>2, <1>5, BundlesStay, CallsStay, JobsStay DEF LoopInv, O!rows

LEMMA CrashKeeps == ASSUME LoopInv, O!Crash PROVE LoopInv' /\ Forward
<1>1. UNCHANGED <<O!rows, O!results, bundle, post>> /\ actor' = [a \in O!Actors |-> O!Idle]
  BY DEF O!Crash
<1>2. ResultsRight' /\ Kept /\ Forward
  BY <1>1, ResultsStay DEF LoopInv
<1>3. CallsRight'
  BY <1>1, IdleRight DEF CallsRight
<1> QED
  BY <1>1, <1>2, <1>3, BundlesStay, JobsStay DEF LoopInv, PostsRight, O!rows

LEMMA StillKeeps == ASSUME LoopInv, UNCHANGED O!vars PROVE LoopInv' /\ Forward
<1>1. UNCHANGED <<O!rows, O!results, bundle, post, actor>>
  BY DEF O!vars, O!rows, O!results
<1>2. ResultsRight' /\ Kept /\ Forward
  BY <1>1, ResultsStay DEF LoopInv
<1> QED
  BY <1>1, <1>2, BundlesStay, CallsStay, JobsStay DEF LoopInv, PostsRight, O!rows

LEMMA LoopStep == ASSUME O!LoopAssumption, LoopInv, [O!Next]_(O!vars) PROVE LoopInv' /\ Forward
  BY BatchKeeps, BeginKeeps, AnswerKeeps, ProjectKeeps, ConvergeKeeps, AskKeeps, FinishRefreshKeeps, WriteKeeps,
     NodeKeeps, PostChangeKeeps, CrashKeeps, StillKeeps DEF O!Next, O!Observe, O!Finish

-----------------------------------------------------------------------------
(* Jobs, projections and bundles agree with the post, whatever is observed.  *)
THEOREM LoopKept == ASSUME O!LoopAssumption PROVE O!Spec => []LoopInv
  BY LoopInit, LoopStep, PTL DEF O!Spec

(* For any nodes and readers, what is claimed of a post is in its evidence   *)
(* (reviewObservation, converge).                                            *)
THEOREM ClaimsEvidenced == ASSUME O!LoopAssumption PROVE O!Spec => []O!ClaimsAreEvidenced
<1>1. ASSUME LoopInv PROVE O!ClaimsAreEvidenced
  BY <1>1 DEF LoopInv, ResultsRight, ResultRight, Confirmed, JobsRight, BundlesRight, Vouched, O!ClaimsAreEvidenced
<1> QED
  BY <1>1, LoopKept, PTL

(* No step takes a projection back to an earlier revision of its post.       *)
THEOREM GoesForward == ASSUME O!LoopAssumption PROVE O!Spec => O!ProjectionGoesForward
<1>1. ASSUME LoopInv, [O!Next]_(O!vars)
      PROVE  [\A n \in Watched : /\ projection'[n].rev >= projection[n].rev
                                 /\ projection'[n].rev = projection[n].rev =>
                                      projection'[n].look = projection[n].look]_(O!vars)
  BY <1>1, LoopStep DEF Forward
<1> QED
  BY <1>1, LoopKept, PTL DEF O!Spec, O!ProjectionGoesForward

LEMMA ObservationSteps == [ServicesNext]_tables => [O!Next]_(O!vars)
BY DEF ServicesNext, IntakeStep, ApprovalStep, ObservationStep, GraphStep, GenericStep, CommandStep, BoardStep,
       RunStep, BridgeStep, DatabaseStep, ScheduleStep, LedgerStep, IntentStep, CloseoutStep, tables, observations, O!vars

(* Beside the other services, what a projection, a bundle or an escalation    *)
(* claims of a post is in its evidence (reviewObservation, converge).         *)
THEOREM ClaimsEvidencedBesideOthers == ServicesSpec => []ClaimsAreEvidenced
<1>1. ServicesInit => O!Init
  BY DEF ServicesInit
<1>2. ServicesSpec => O!Spec
  BY <1>1, ObservationSteps, PTL DEF ServicesSpec, O!Spec
<1>3. O!Spec => []O!ClaimsAreEvidenced
  BY ServicesAssumption, ClaimsEvidenced
<1> QED
  BY <1>2, <1>3, PTL DEF ClaimsAreEvidenced

(* Beside the other services, a projection never goes back to an earlier      *)
(* revision of its post, nor changes its mind about one.                      *)
THEOREM ProjectionOnlyAdvances == ServicesSpec => ProjectionGoesForward
<1>1. ServicesInit => O!Init
  BY DEF ServicesInit
<1>2. ServicesSpec => O!Spec
  BY <1>1, ObservationSteps, PTL DEF ServicesSpec, O!Spec
<1>3. O!Spec => O!ProjectionGoesForward
  BY ServicesAssumption, GoesForward
<1> QED
  BY <1>2, <1>3, PTL DEF ProjectionGoesForward

-------------------------------------------------------------------------------
(* Agentic missions: what is admitted may run, and what the books say.       *)
(* What the books say of a charge, in its row or in a reconciliation's copy, *)
(* is what the provider's record says.  A reconciliation that began after    *)
(* the verdict has a copy of every charge.                                   *)
Backed(rows) == \A n \in DOMAIN rows : rows[n] \in I!Found /\ (rows[n] = "matched" => bill[n] = "matched")
ChargesRight ==
    /\ DOMAIN charge = I!Judging
    /\ \A n \in I!Judging : /\ DOMAIN charge[n] = {"at", "found"} /\ charge[n].found \in I!Found
                            /\ charge[n].found = "matched" => bill[n] = "matched"
BillRight == bill \in [I!Judging -> {"matched", "mismatched"}]
AccountRight(m) ==
    m.pc = "asking" =>
      /\ DOMAIN m.rows \subseteq I!Judging /\ m.todo \subseteq DOMAIN m.rows
      /\ Backed(m.rows)
      /\ m.seen # Unset => verdict # Unset /\ DOMAIN m.rows = I!Billed(charge)
AccountFields == {"pc", "todo", "rows", "seen"}
AccountsRight ==
    /\ DOMAIN accountant = Accountants
    /\ \A a \in Accountants : DOMAIN accountant[a] = AccountFields /\ AccountRight(accountant[a])
BooksInv == BillRight /\ ChargesRight /\ AccountsRight /\ I!VerdictIsBacked

-----------------------------------------------------------------------------
LEMMA FoundFinite == IsFiniteSet(I!Found)
<1>1. IsFiniteSet({"unavailable"}) /\ IsFiniteSet({"mismatched", "unavailable"})
      /\ IsFiniteSet({"matched", "mismatched", "unavailable"})
  <2>1. {"unavailable"} = {} \cup {"unavailable"}
        /\ {"mismatched", "unavailable"} = {"unavailable"} \cup {"mismatched"}
        /\ {"matched", "mismatched", "unavailable"} = {"mismatched", "unavailable"} \cup {"matched"}
    OBVIOUS
  <2>2. IsFiniteSet({"unavailable"})
    BY <2>1, FS_EmptySet, FS_AddElement
  <2>3. IsFiniteSet({"mismatched", "unavailable"})
    BY <2>1, <2>2, FS_AddElement
  <2> QED
    BY <2>1, <2>2, <2>3, FS_AddElement
<1>2. I!Found = {"matched", "mismatched", "unavailable"} \cup {"not_attempted"}
  BY DEF I!Found
<1> QED
  BY <1>1, <1>2, FS_AddElement

(* The module of the missions and this one count a set in the same way. *)
LEMMA SameFound == ASSUME NEW X PROVE I!IsFiniteSet(X) = IsFiniteSet(X)
  BY Zenon DEF I!IsFiniteSet, IsFiniteSet

LEMMA SameCount == ASSUME NEW X PROVE I!Cardinality(X) = Cardinality(X)
  BY Zenon DEF I!Cardinality, Cardinality

(* Only agreement about every charge reads as matched. *)
LEMMA OverallFacts ==
    ASSUME NEW founds \in SUBSET I!Found
    PROVE  /\ I!Overall(founds) \in I!Found \cup {"mixed"}
           /\ I!Overall(founds) = "matched" => \A f \in founds : f = "matched"
<1>1. IsFiniteSet(founds) /\ Cardinality(founds) \in Nat
  BY FoundFinite, FS_Subset, FS_CardinalityType
<1>2. CASE Cardinality(founds) = 0
  <2>1. founds = {}
    BY <1>1, <1>2, FS_EmptySet
  <2> QED
    BY <2>1, SameCount DEF I!Overall, I!Found
<1>3. CASE Cardinality(founds) = 1
  <2>1. PICK f \in I!Found : founds = {f}
    BY <1>1, <1>3, FS_Singleton
  <2>2. founds # {} /\ (CHOOSE g \in founds : TRUE) = f
    BY <2>1
  <2>3. I!Overall(founds) = f
    BY <1>3, <2>2, SameCount DEF I!Overall
  <2> QED
    BY <2>1, <2>3
<1>4. CASE Cardinality(founds) > 1
  <2>1. founds # {} /\ Cardinality(founds) # 1
    BY <1>1, <1>4, FS_EmptySet
  <2>2. I!Overall(founds) = "mixed"
    BY <1>4, <2>1, SameCount DEF I!Overall
  <2> QED
    BY <2>2
<1> QED
  BY <1>1, <1>2, <1>3, <1>4
LEMMA BooksInit == ASSUME I!IntakeAssumption, I!Init PROVE BooksInv
<1>1. BillRight /\ ChargesRight
  BY DEF I!Init, BillRight, ChargesRight, I!Found
<1>2. AccountsRight
  BY DEF I!Init, AccountsRight, AccountRight, AccountFields, I!Resting
<1>3. I!VerdictIsBacked
  BY DEF I!Init, I!VerdictIsBacked, I!IntakeAssumption, I!Found
<1> QED
  BY <1>1, <1>2, <1>3 DEF BooksInv

(* One reconciliation moves; what the others know stays so. *)
Standing == bill' = bill /\ I!Billed(charge)' = I!Billed(charge) /\ (verdict # Unset => verdict' # Unset)
LEMMA AccountMoves ==
    ASSUME AccountsRight, Standing, NEW a \in Accountants, NEW m, DOMAIN m = AccountFields,
           accountant' = [accountant EXCEPT ![a] = m], AccountRight(m)'
    PROVE  AccountsRight'
<1>1. DOMAIN accountant' = Accountants /\ accountant'[a] = m
      /\ \A b \in Accountants \ {a} : accountant'[b] = accountant[b]
  BY DEF AccountsRight
<1>2. ASSUME NEW b \in Accountants PROVE DOMAIN accountant'[b] = AccountFields /\ AccountRight(accountant[b])'
  <2>1. CASE b = a
    BY <1>1, <2>1 DEF AccountRight, Backed
  <2>2. CASE b # a
    BY <1>1, <2>2 DEF AccountsRight, AccountRight, Backed, Standing
  <2> QED
    BY <2>1, <2>2
<1> QED
  BY <1>1, <1>2 DEF AccountsRight

(* Nothing the books say is touched. *)
LEMMA BooksStay ==
    ASSUME BooksInv, UNCHANGED <<charge, verdict, accountant, bill>> PROVE BooksInv'
  BY DEF BooksInv, BillRight, ChargesRight, AccountsRight, AccountRight, Backed, I!Billed, I!VerdictIsBacked

LEMMA InvokeKeeps == ASSUME I!IntakeAssumption, BooksInv, NEW n \in I!Judging, I!Invoke(n) PROVE BooksInv'
<1>1. UNCHANGED <<verdict, accountant, bill>> /\ verdict = Unset
  BY DEF I!Invoke
<1>2. PICK at : charge' = [charge EXCEPT ![n].at = at]
  BY DEF I!Invoke
<1>3. DOMAIN charge' = I!Judging /\ \A x \in I!Judging : DOMAIN charge'[x] = {"at", "found"} /\ charge'[x].found = charge[x].found
  BY <1>2 DEF BooksInv, ChargesRight
<1>4. ChargesRight' /\ BillRight'
  BY <1>1, <1>3 DEF BooksInv, ChargesRight, BillRight
<1>5. AccountsRight'
  BY <1>1 DEF BooksInv, AccountsRight, AccountRight, Backed
<1>6. I!VerdictIsBacked'
  BY <1>1 DEF I!VerdictIsBacked, I!IntakeAssumption, I!Found
<1> QED
  BY <1>4, <1>5, <1>6 DEF BooksInv

LEMMA CompleteKeeps == ASSUME I!IntakeAssumption, BooksInv, I!Complete PROVE BooksInv'
<1> DEFINE founds == {charge[n].found : n \in I!Billed(charge)}
<1>1. UNCHANGED <<charge, accountant, bill>> /\ verdict = Unset /\ verdict' = I!Overall(founds)
  BY DEF I!Complete
<1>2. founds \in SUBSET I!Found
  BY DEF BooksInv, ChargesRight, I!Billed
<1>3. verdict' = "matched" => \A f \in founds : f = "matched"
  <2> HIDE DEF founds
  <2> QED
    BY <1>1, <1>2, OverallFacts
<1>4. I!VerdictIsBacked'
  BY <1>1, <1>3 DEF BooksInv, ChargesRight, I!VerdictIsBacked, I!Billed
<1>5. AccountsRight'
  BY <1>1 DEF BooksInv, AccountsRight, AccountRight, Backed
<1> QED
  BY <1>1, <1>4, <1>5 DEF BooksInv, ChargesRight, BillRight

LEMMA StartKeeps == ASSUME BooksInv, NEW a \in Accountants, I!StartReconcile(a) PROVE BooksInv'
<1> DEFINE m == [pc |-> "asking", seen |-> verdict, rows |-> [n \in I!Billed(charge) |-> charge[n].found],
                 todo |-> {n \in I!Billed(charge) : charge[n].found # "matched"}]
<1>1. UNCHANGED <<charge, verdict, bill>> /\ accountant' = [accountant EXCEPT ![a] = m]
  BY DEF I!StartReconcile
<1>2. AccountRight(m)
  BY DEF AccountRight, Backed, BooksInv, ChargesRight, I!Billed
<1>3. DOMAIN m = AccountFields
  BY DEF AccountFields
<1>4. PICK x : x = m
  OBVIOUS
<1>5. AccountRight(x)' /\ Standing
  <2>1. AccountRight(x)
    BY <1>2, <1>4
  <2> QED
    BY <1>1, <2>1 DEF AccountRight, Backed, I!Billed, Standing
<1>6. AccountsRight'
  BY <1>1, <1>3, <1>4, <1>5, AccountMoves DEF BooksInv
<1> QED
  BY <1>1, <1>6 DEF BooksInv, BillRight, ChargesRight, I!VerdictIsBacked, I!Billed

LEMMA LookUpKeeps == ASSUME BooksInv, NEW a \in Accountants, I!LookUp(a) PROVE BooksInv'
<1>1. UNCHANGED <<verdict, bill>> /\ accountant[a].pc = "asking"
  BY DEF I!LookUp
<1>2. PICK n \in accountant[a].todo : \E found \in {bill[n], "unavailable"} :
        /\ charge' = [charge EXCEPT ![n].found = found]
        /\ accountant' = [accountant EXCEPT ![a].todo = @ \ {n}, ![a].rows[n] = found]
  BY DEF I!LookUp
<1>3. PICK found \in {bill[n], "unavailable"} :
        /\ charge' = [charge EXCEPT ![n].found = found]
        /\ accountant' = [accountant EXCEPT ![a].todo = @ \ {n}, ![a].rows[n] = found]
  BY <1>2
<1>4. DOMAIN accountant[a].rows \subseteq I!Judging /\ n \in I!Judging /\ n \in DOMAIN accountant[a].rows
  BY <1>1, <1>2 DEF BooksInv, AccountsRight, AccountRight
<1>5. found \in I!Found /\ (found = "matched" => bill[n] = "matched")
  BY <1>4 DEF BooksInv, BillRight, I!Found
<1>6. DOMAIN charge' = I!Judging
      /\ \A x \in I!Judging : /\ DOMAIN charge'[x] = {"at", "found"} /\ charge'[x].at = charge[x].at
                               /\ charge'[x].found = IF x = n THEN found ELSE charge[x].found
  BY <1>3, <1>4 DEF BooksInv, ChargesRight
<1>7. ChargesRight' /\ I!Billed(charge)' = I!Billed(charge)
  BY <1>1, <1>5, <1>6 DEF BooksInv, ChargesRight, I!Billed
<1>8. PICK m : m = [accountant[a] EXCEPT !.todo = @ \ {n}, !.rows = [@ EXCEPT ![n] = found]]
  OBVIOUS
<1>9. accountant' = [accountant EXCEPT ![a] = m]
  BY <1>3, <1>8 DEF BooksInv, AccountsRight
<1>10. /\ DOMAIN m = AccountFields /\ m.pc = "asking" /\ m.seen = accountant[a].seen
       /\ m.todo = accountant[a].todo \ {n} /\ m.rows = [accountant[a].rows EXCEPT ![n] = found]
  BY <1>1, <1>8 DEF BooksInv, AccountsRight, AccountFields
<1>11. DOMAIN m.rows = DOMAIN accountant[a].rows /\ Backed(m.rows)
  BY <1>1, <1>5, <1>10 DEF BooksInv, AccountsRight, AccountRight, Backed
<1>12. AccountRight(m)'
  BY <1>1, <1>7, <1>10, <1>11 DEF BooksInv, AccountsRight, AccountRight, Backed
<1>13. Standing
  BY <1>1, <1>7 DEF Standing
<1>14. AccountsRight'
  BY <1>9, <1>10, <1>12, <1>13, AccountMoves DEF BooksInv
<1> QED
  BY <1>1, <1>7, <1>14 DEF BooksInv, BillRight, I!VerdictIsBacked

LEMMA FinishKeeps == ASSUME I!IntakeAssumption, BooksInv, NEW a \in Accountants, I!FinishReconcile(a) PROVE BooksInv'
<1>1. /\ UNCHANGED <<charge, bill>> /\ accountant[a].pc = "asking"
      /\ accountant' = [accountant EXCEPT ![a] = I!Resting]
      /\ verdict' = IF accountant[a].seen # Unset /\ I!Refreshed(a) # accountant[a].seen THEN I!Refreshed(a) ELSE verdict
  BY DEF I!FinishReconcile
<1>2. I!Range(accountant[a].rows) \in SUBSET I!Found
  BY <1>1 DEF BooksInv, AccountsRight, AccountRight, Backed, I!Range
<1>3. /\ I!Refreshed(a) # Unset
      /\ I!Refreshed(a) = "matched" => \A n \in DOMAIN accountant[a].rows : accountant[a].rows[n] = "matched"
  <2>1. /\ I!Refreshed(a) \in I!Found \cup {"mixed"}
        /\ I!Refreshed(a) = "matched" => \A f \in I!Range(accountant[a].rows) : f = "matched"
    BY <1>2, OverallFacts DEF I!Refreshed
  <2> QED
    BY <2>1 DEF I!Range, I!IntakeAssumption
<1>4. verdict # Unset => verdict' # Unset
  BY <1>1, <1>3
<1>5. I!VerdictIsBacked'
  <2>1. CASE verdict' = verdict
    BY <1>1, <2>1 DEF BooksInv, I!VerdictIsBacked, I!Billed
  <2>2. CASE accountant[a].seen # Unset /\ verdict' = I!Refreshed(a)
    BY <1>1, <1>3, <2>2 DEF BooksInv, AccountsRight, AccountRight, Backed, I!VerdictIsBacked, I!Billed
  <2> QED
    BY <1>1, <2>1, <2>2
<1>6. AccountRight(I!Resting)' /\ DOMAIN I!Resting = AccountFields
  BY DEF AccountRight, I!Resting, AccountFields
<1>7. Standing
  BY <1>1, <1>4 DEF I!Billed, Standing
<1>8. AccountsRight'
  BY <1>1, <1>6, <1>7, AccountMoves DEF BooksInv
<1> QED
  BY <1>1, <1>5, <1>8 DEF BooksInv, BillRight, ChargesRight

LEMMA BooksStep == ASSUME I!IntakeAssumption, BooksInv, [I!Next]_(I!vars) PROVE BooksInv'
<1>1. CASE UNCHANGED <<charge, verdict, accountant, bill>>
  BY <1>1, BooksStay
<1>2. ASSUME NEW c \in Callers, I!Submit(c) \/ I!ReadSource(c) \/ I!Store(c) PROVE BooksInv'
  BY <1>1, <1>2 DEF I!Submit, I!ReadSource, I!Store
<1>3. CASE I!SourceMoves \/ UNCHANGED I!vars
  BY <1>1, <1>3 DEF I!SourceMoves, I!vars
<1> QED
  BY <1>2, <1>3, InvokeKeeps, CompleteKeeps, StartKeeps, LookUpKeeps, FinishKeeps DEF I!Next

(* Charges, rows and verdicts agree, whoever writes the books when.          *)
THEOREM BooksKept == ASSUME I!IntakeAssumption PROVE I!Spec => []BooksInv
  BY BooksInit, BooksStep, PTL DEF I!Spec

(* Only agreement of the provider about every charge reads as matched        *)
(* (reconcileBilling).                                                       *)
THEOREM VerdictBacked == ASSUME I!IntakeAssumption PROVE I!Spec => []I!VerdictIsBacked
<1>1. BooksInv => I!VerdictIsBacked
  BY DEF BooksInv
<1> QED
  BY <1>1, BooksKept, PTL
-----------------------------------------------------------------------------
(* What the registry says of every capability: exact work has an exact worker,*)
(* and effects are those of four capabilities.                               *)
Effects == {"artifact.local.write", "connector.state.apply", "connector.state.apply_external",
            "connector.state.compensate"}
Externals == {"connector.state.apply_external", "connector.state.compensate"}
CapRight(name, c) ==
    /\ c.kinds[1] # "model_worker" /\ (c.judged \/ c.kinds[1] = "deterministic_tool")
    /\ c.effect # "none" => name \in Effects
    /\ c.effect = "external" => name \in Externals

LEMMA RegistryRight == ASSUME NEW cap \in DOMAIN I!Capability PROVE CapRight(cap, I!Capability[cap])
<1>1. CapRight(cap, I!Declared(cap))
  <2>1. CASE cap \in I!ReadingCapabilities \cup I!ComposingCapabilities
    BY <2>1 DEF I!ReadingCapabilities, I!ComposingCapabilities, CapRight, I!Declared, I!Tool, I!Specialist, I!Cap
  <2>2. CASE cap \in I!WritingCapabilities \cup I!ExceptionCapabilities
    BY <2>2 DEF I!WritingCapabilities, I!ExceptionCapabilities, CapRight, I!Declared, I!Tool, I!Gated, I!Cap, Effects
  <2>3. CASE cap \in I!ExternalCapabilities \cup I!JudgingCapabilities
    BY <2>3 DEF I!ExternalCapabilities, I!JudgingCapabilities, CapRight, I!Declared, I!Tool, I!Gated, I!Cap, Effects, Externals
  <2> QED
    BY <2>1, <2>2, <2>3 DEF I!Capability
<1> QED
  BY <1>1 DEF I!Capability

(* The stages of a plan, one by one. *)
LEMMA JoinTwo ==
    ASSUME NEW p, NEW q, NEW r, NEW a, NEW b, NEW s, s = <<p, q, r>> \o <<a, b>>
    PROVE  /\ DOMAIN s = 1..5
           /\ s[1] = p /\ s[2] = q /\ s[3] = r /\ s[4] = a /\ s[5] = b
  OBVIOUS
LEMMA JoinFour ==
    ASSUME NEW p, NEW q, NEW r, NEW a, NEW b, NEW c, NEW d, NEW s, s = <<p, q, r>> \o <<a, b, c, d>>
    PROVE  /\ DOMAIN s = 1..7
           /\ s[1] = p /\ s[2] = q /\ s[3] = r /\ s[4] = a /\ s[5] = b /\ s[6] = c /\ s[7] = d
  OBVIOUS
LEMMA LiveFacts ==
    /\ DOMAIN I!LiveStages = 1..5
    /\ I!LiveStages[1] = {"exception.state.observe"} /\ I!LiveStages[2] = {"exception.action.compile"}
    /\ I!LiveStages[3] = {I!Checkpoint} /\ I!LiveStages[4] = {"connector.state.apply"}
    /\ I!LiveStages[5] = {"exception.outcome.verify"}
  BY JoinTwo DEF I!LiveStages, I!Opening
LEMMA ShadowFacts ==
    /\ DOMAIN I!ShadowStages = 1..5
    /\ I!ShadowStages[1] = {"exception.state.observe"} /\ I!ShadowStages[2] = {"exception.action.compile"}
    /\ I!ShadowStages[3] = {I!Checkpoint} /\ I!ShadowStages[4] = {"exception.shadow.authorize"}
    /\ I!ShadowStages[5] = {"exception.shadow.verify"}
  BY JoinTwo DEF I!ShadowStages, I!Opening
LEMMA CompensatedFacts ==
    /\ DOMAIN I!CompensatedStages = 1..7
    /\ I!CompensatedStages[1] = {"exception.state.observe"} /\ I!CompensatedStages[2] = {"exception.action.compile"}
    /\ I!CompensatedStages[3] = {I!Checkpoint} /\ I!CompensatedStages[4] = {"connector.state.apply_external"}
    /\ I!CompensatedStages[5] = {"exception.outcome.verify"} /\ I!CompensatedStages[6] = {"connector.state.compensate"}
    /\ I!CompensatedStages[7] = {"exception.absence.verify"}
  BY JoinFour DEF I!CompensatedStages, I!Opening
LEMMA ArtifactFacts ==
    /\ DOMAIN I!ArtifactStages = 1..7
    /\ I!ArtifactStages[1] = {"repo.metadata.read"} /\ I!ArtifactStages[2] = {"architecture.analyze", "risk.analyze"}
    /\ I!ArtifactStages[3] = {"evidence.verify"} /\ I!ArtifactStages[4] = {"result.synthesize"}
    /\ I!ArtifactStages[5] = {I!Checkpoint} /\ I!ArtifactStages[6] = {"artifact.local.write"}
    /\ I!ArtifactStages[7] = {"outcome.verify"}
  BY DEF I!ArtifactStages

(* A plan is one of four. *)
LEMMA PlanCases ==
    ASSUME NEW b, I!Compiles(b)
    PROVE  \/ I!Stages(b) = I!ArtifactStages /\ I!Required(b) = I!ArtifactMissionCapabilities
           \/ /\ I!IsException(b) /\ I!Mode(b) = "shadow"
              /\ I!Stages(b) = I!ShadowStages /\ I!Required(b) = I!ShadowMissionCapabilities
           \/ /\ I!IsException(b) /\ I!Mode(b) = "live"
              /\ I!Stages(b) = I!LiveStages /\ I!Required(b) = I!LiveMissionCapabilities
           \/ /\ I!IsException(b) /\ I!Mode(b) = "live_compensated"
              /\ I!Stages(b) = I!CompensatedStages /\ I!Required(b) = I!CompensatedMissionCapabilities
<1>1. I!IsException(b) => I!Mode(b) \in {"shadow", "live", "live_compensated"}
  BY DEF I!Compiles, I!ContractMatchesKind, I!ExceptionIsDecidable, I!ExecutionModes
<1> HIDE DEF I!IsException, I!Mode, I!Compiles
<1>2. CASE ~I!IsException(b)
  BY <1>2 DEF I!Stages, I!Required
<1>3. CASE I!IsException(b) /\ I!Mode(b) = "shadow"
  BY <1>3 DEF I!Stages, I!Required
<1>4. CASE I!IsException(b) /\ I!Mode(b) = "live"
  BY <1>4 DEF I!Stages, I!Required
<1>5. CASE I!IsException(b) /\ I!Mode(b) = "live_compensated"
  BY <1>5 DEF I!Stages, I!Required
<1> QED
  BY <1>1, <1>2, <1>3, <1>4, <1>5

(* What a plan runs is what its submission had to permit. *)
LEMMA PlanIsRequired ==
    ASSUME NEW b, I!Compiles(b) PROVE I!PlanNodes(b) \subseteq I!Required(b) /\ I!Required(b) \subseteq DOMAIN I!Capability
<1>1. I!Required(b) \subseteq b.allowed \ b.forbidden /\ b.allowed \subseteq DOMAIN I!Capability
  BY DEF I!Compiles, I!CoversRequired, I!CapabilitiesAreRegistered
<1>2. ASSUME NEW cap \in I!PlanNodes(b) PROVE cap \in I!Required(b)
  <2>1. PICK i \in DOMAIN I!Stages(b) : cap \in I!Stages(b)[i] /\ cap # I!Checkpoint
    BY <1>2 DEF I!PlanNodes, I!Range
  <2>2. CASE I!Stages(b) = I!ArtifactStages /\ I!Required(b) = I!ArtifactMissionCapabilities
    BY <2>1, <2>2, ArtifactFacts DEF I!ArtifactMissionCapabilities
  <2>3. CASE I!Stages(b) = I!ShadowStages /\ I!Required(b) = I!ShadowMissionCapabilities
    BY <2>1, <2>3, ShadowFacts DEF I!ShadowMissionCapabilities
  <2>4. CASE I!Stages(b) = I!LiveStages /\ I!Required(b) = I!LiveMissionCapabilities
    BY <2>1, <2>4, LiveFacts DEF I!LiveMissionCapabilities
  <2>5. CASE I!Stages(b) = I!CompensatedStages /\ I!Required(b) = I!CompensatedMissionCapabilities
    BY <2>1, <2>5, CompensatedFacts DEF I!CompensatedMissionCapabilities
  <2> QED
    BY <2>2, <2>3, <2>4, <2>5, PlanCases
<1> QED
  BY <1>1, <1>2

(* Effects come after the checkpoint. *)
LEMMA EffectsAfterCheckpoint ==
    ASSUME NEW b, I!Compiles(b), NEW cap \in I!PlanNodes(b), cap \in Effects
    PROVE  I!Before(b, I!Checkpoint, cap)
<1>1. PICK j \in DOMAIN I!Stages(b) : cap \in I!Stages(b)[j]
  BY DEF I!PlanNodes, I!Range
<1>2. CASE I!Stages(b) = I!ArtifactStages
  <2>1. j = 6
    BY <1>1, <1>2, ArtifactFacts DEF Effects, I!Checkpoint
  <2> QED
    BY <1>1, <1>2, <2>1, ArtifactFacts DEF I!Before
<1>3. CASE I!Stages(b) = I!ShadowStages
  BY <1>1, <1>3, ShadowFacts DEF Effects, I!Checkpoint
<1>4. CASE I!Stages(b) = I!LiveStages
  <2>1. j = 4
    BY <1>1, <1>4, LiveFacts DEF Effects, I!Checkpoint
  <2> QED
    BY <1>1, <1>4, <2>1, LiveFacts DEF I!Before
<1>5. CASE I!Stages(b) = I!CompensatedStages
  <2>1. j = 4 \/ j = 6
    BY <1>1, <1>5, CompensatedFacts DEF Effects, I!Checkpoint
  <2> QED
    BY <1>1, <1>5, <2>1, CompensatedFacts DEF I!Before
<1> QED
  BY <1>2, <1>3, <1>4, <1>5, PlanCases

(* Only a compensated plan acts outside. *)
LEMMA ExternalIsCompensated ==
    ASSUME NEW b, I!Compiles(b), NEW cap \in I!PlanNodes(b), cap \in Externals
    PROVE  I!IsException(b) /\ I!Mode(b) = "live_compensated"
<1>1. cap \in I!Required(b)
  BY PlanIsRequired
<1>2. cap \notin I!ArtifactMissionCapabilities \cup I!ShadowMissionCapabilities \cup I!LiveMissionCapabilities
  BY DEF Externals, I!ArtifactMissionCapabilities, I!ShadowMissionCapabilities, I!LiveMissionCapabilities
<1> QED
  BY <1>1, <1>2, PlanCases

(* The router has nothing left to refuse. *)
LEMMA AllRoutable == ASSUME NEW b, I!Compiles(b), NEW cap \in I!PlanNodes(b) PROVE I!Routable(b, cap)
<1>1. cap \in DOMAIN I!Capability /\ cap \in b.allowed \ b.forbidden
  BY PlanIsRequired DEF I!Compiles, I!CoversRequired
<1> QED
  BY <1>1, RegistryRight DEF I!Routable, CapRight, I!Cheapest
(* A binding that costs is one the body named. *)
LEMMA PaidIsNamed ==
    ASSUME I!IntakeAssumption, NEW b \in Submissions, NEW cap, I!Authorized(cap) # <<>>, I!Chosen(b, cap) # "local"
    PROVE  [cap |-> cap, binding |-> I!Chosen(b, cap)] \in b.bindings
<1> DEFINE named == {s \in b.bindings : s.cap = cap}
<1>1. I!Authorized(cap)[1] = "local"
  BY DEF I!Authorized, I!Bindings
<1>2. named # {}
  BY <1>1 DEF I!Chosen
<1>3. PICK s : s = CHOOSE t \in named : TRUE
  OBVIOUS
<1>4. s \in named
  BY <1>2, <1>3
<1>5. I!Chosen(b, cap) = s.binding
  BY <1>2, <1>3 DEF I!Chosen
<1>6. s \in [cap : STRING, binding : STRING]
  BY <1>4 DEF I!IntakeAssumption
<1>7. s = [cap |-> s.cap, binding |-> s.binding]
  BY <1>6
<1> QED
  BY <1>4, <1>5, <1>7

(* What a submission read so far: every source it requires is read or still  *)
(* to be read.                                                               *)
Requirements == [source : Sources, required : BOOLEAN]
Covered(b, left, items) ==
    \A r \in I!Range(b.context) : r.required => r \in I!Range(left) \/ \E i \in items : i.source = r.source
ReadingRight(m) ==
    m.pc = "reading" =>
      /\ m.body \in Submissions /\ I!Compiles(m.body)
      /\ m.left \in Seq(Requirements) /\ Covered(m.body, m.left, m.items)
DeskFields == {"pc", "body", "left", "items"}
DesksRight ==
    /\ DOMAIN desk = Callers
    /\ \A c \in Callers : DOMAIN desk[c] = DeskFields /\ ReadingRight(desk[c])
AdmissionInv == DesksRight /\ (hired # Unset => I!MayRun(hired.body, hired.items, hired.plan))

LEMMA TailRange ==
    ASSUME NEW kind, NEW s \in Seq(kind), s # <<>>
    PROVE  Tail(s) \in Seq(kind) /\ \A r \in I!Range(s) : r = Head(s) \/ r \in I!Range(Tail(s))
<1>1. Tail(s) \in Seq(kind)
  OBVIOUS
<1>2. ASSUME NEW r \in I!Range(s), r # Head(s) PROVE r \in I!Range(Tail(s))
  <2>1. PICK i \in 1..Len(s) : r = s[i]
    BY DEF I!Range
  <2>2. i # 1
    BY <1>2, <2>1
  <2>3. i - 1 \in DOMAIN Tail(s) /\ Tail(s)[i - 1] = s[i]
    BY <2>1, <2>2
  <2> QED
    BY <2>1, <2>3 DEF I!Range
<1> QED
  BY <1>1, <1>2

LEMMA DeskMoves ==
    ASSUME DesksRight, NEW c \in Callers, NEW m, DOMAIN m = DeskFields, desk' = [desk EXCEPT ![c] = m], ReadingRight(m)
    PROVE  DesksRight'
  BY DEF DesksRight, ReadingRight, Covered
LEMMA AbsentIsRight == DOMAIN I!Absent = DeskFields /\ ReadingRight(I!Absent)
  BY DEF I!Absent, DeskFields, ReadingRight

LEMMA AdmissionInit == ASSUME I!Init PROVE AdmissionInv
  BY AbsentIsRight DEF I!Init, AdmissionInv, DesksRight

LEMMA SubmissionKeeps == ASSUME I!IntakeAssumption, AdmissionInv, NEW c \in Callers, I!Submit(c) PROVE AdmissionInv'
<1>1. PICK b \in Submissions : /\ I!Compiles(b)
        /\ desk' = [desk EXCEPT ![c] = [pc |-> "reading", body |-> b, left |-> b.context, items |-> {}]]
  BY DEF I!Submit
<1>2. PICK m : m = [pc |-> "reading", body |-> b, left |-> b.context, items |-> {}]
  OBVIOUS
<1>3. DOMAIN m = DeskFields /\ m.body = b /\ m.left = b.context
  BY <1>2 DEF DeskFields
<1>4. m.left \in Seq(Requirements)
  BY <1>3 DEF I!IntakeAssumption, Requirements
<1>5. ReadingRight(m)
  BY <1>1, <1>3, <1>4 DEF ReadingRight, Covered
<1>6. DesksRight'
  BY <1>1, <1>2, <1>3, <1>5, DeskMoves DEF AdmissionInv
<1> QED
  BY <1>6 DEF AdmissionInv, I!Submit

LEMMA SourceReadKeeps == ASSUME I!IntakeAssumption, AdmissionInv, NEW c \in Callers, I!ReadSource(c) PROVE AdmissionInv'
<1>1. hired' = hired /\ desk[c].pc = "reading" /\ desk[c].left # <<>>
  BY DEF I!ReadSource
<1>2. PICK next : next = Head(desk[c].left)
  OBVIOUS
<1>3. PICK content : content = I!Retrieved(next)
  OBVIOUS
<1>4. PICK m : m = IF content = Unset /\ next.required THEN I!Absent
       ELSE [desk[c] EXCEPT !.left = Tail(@),
                            !.items = IF content = Unset THEN @
                                      ELSE @ \cup {[source |-> next.source, content |-> content]}]
  OBVIOUS
<1>5. desk' = [desk EXCEPT ![c] = m]
  BY <1>2, <1>3, <1>4 DEF I!ReadSource
<1>6. DOMAIN m = DeskFields /\ ReadingRight(m)
  <2>1. CASE content = Unset /\ next.required
    BY <1>4, <2>1, AbsentIsRight
  <2>2. CASE ~(content = Unset /\ next.required)
    <3>1. /\ DOMAIN m = DeskFields /\ m.pc = "reading" /\ m.body = desk[c].body /\ m.left = Tail(desk[c].left)
          /\ m.items = IF content = Unset THEN desk[c].items
                       ELSE desk[c].items \cup {[source |-> next.source, content |-> content]}
      BY <1>1, <1>4, <2>2 DEF AdmissionInv, DesksRight, DeskFields
    <3>2. /\ desk[c].left \in Seq(Requirements) /\ Covered(desk[c].body, desk[c].left, desk[c].items)
          /\ desk[c].body \in Submissions /\ I!Compiles(desk[c].body)
      BY <1>1 DEF AdmissionInv, DesksRight, ReadingRight
    <3>3. m.left \in Seq(Requirements) /\ \A r \in I!Range(desk[c].left) : r = next \/ r \in I!Range(m.left)
      BY <1>1, <1>2, <3>1, <3>2, TailRange
    <3>4. next.required => \E i \in m.items : i.source = next.source
      <4>1. PICK i : i = [source |-> next.source, content |-> content]
        OBVIOUS
      <4>2. ASSUME next.required PROVE i \in m.items /\ i.source = next.source
        BY <2>2, <3>1, <4>1, <4>2
      <4> QED
        BY <4>2
    <3>5. \A i \in desk[c].items : i \in m.items
      BY <3>1
    <3>6. Covered(m.body, m.left, m.items)
      BY <3>1, <3>2, <3>3, <3>4, <3>5 DEF Covered
    <3> QED
      BY <3>1, <3>2, <3>3, <3>6 DEF ReadingRight
  <2> QED
    BY <2>1, <2>2
<1>7. DesksRight'
  BY <1>5, <1>6, DeskMoves DEF AdmissionInv
<1> QED
  BY <1>1, <1>7 DEF AdmissionInv

(* A plan that was routed may run. *)
LEMMA RoutedMayRun ==
    ASSUME I!IntakeAssumption, NEW b \in Submissions, I!Compiles(b), NEW items, Covered(b, <<>>, items),
           I!IsException(b) => I!ExceptionAdmitted(b)
    PROVE  I!MayRun(b, items, I!Routed(b))
<1>1. DOMAIN I!Routed(b) = I!PlanNodes(b)
  BY DEF I!Routed
<1>2. ASSUME NEW cap \in I!PlanNodes(b)
      PROVE  /\ cap \in b.allowed /\ cap \notin b.forbidden
             /\ I!Capability[cap].effect # "none" => I!Before(b, I!Checkpoint, cap)
             /\ I!Routed(b)[cap].worker = "model_worker" => I!Capability[cap].judged
             /\ I!Routed(b)[cap].binding \notin {Unset, "local"} =>
                  [cap |-> cap, binding |-> I!Routed(b)[cap].binding] \in b.bindings
             /\ I!Capability[cap].effect = "external" => Connector.compensate
  <2>1. cap \in DOMAIN I!Capability /\ CapRight(cap, I!Capability[cap])
    BY PlanIsRequired, RegistryRight
  <2>2. cap \in b.allowed /\ cap \notin b.forbidden
    BY AllRoutable DEF I!Routable
  <2>3. I!Capability[cap].effect # "none" => I!Before(b, I!Checkpoint, cap)
    BY <2>1, EffectsAfterCheckpoint DEF CapRight
  <2>4. I!WorkerKind(b, cap) = "model_worker" => I!Capability[cap].judged /\ I!Authorized(cap) # <<>>
    BY <2>1 DEF I!WorkerKind, CapRight, I!Cheapest
  <2>5. /\ I!Routed(b)[cap].worker = I!WorkerKind(b, cap)
        /\ I!Routed(b)[cap].binding = IF I!WorkerKind(b, cap) = "model_worker" THEN I!Chosen(b, cap) ELSE Unset
    BY DEF I!Routed
  <2>6. I!Routed(b)[cap].binding \notin {Unset, "local"} =>
           [cap |-> cap, binding |-> I!Routed(b)[cap].binding] \in b.bindings
    BY <2>4, <2>5, PaidIsNamed
  <2>7. I!Capability[cap].effect = "external" => Connector.compensate
    BY <2>1, ExternalIsCompensated DEF CapRight, I!ExceptionAdmitted, I!UndoIsBound
  <2> QED
    BY <2>2, <2>3, <2>4, <2>5, <2>6, <2>7
<1>3. I!Range(<<>>) = {}
  BY DEF I!Range
<1> HIDE DEF I!Routed
<1> QED
  BY <1>1, <1>2, <1>3 DEF I!MayRun, Covered

LEMMA AdmittingKeeps == ASSUME I!IntakeAssumption, AdmissionInv, NEW c \in Callers, I!Store(c) PROVE AdmissionInv'
<1>1. desk[c].pc = "reading" /\ desk[c].left = <<>> /\ desk' = [desk EXCEPT ![c] = I!Absent]
  BY DEF I!Store
<1>2. DesksRight'
  BY <1>1, AbsentIsRight, DeskMoves DEF AdmissionInv
<1>3. CASE hired' = hired
  BY <1>2, <1>3 DEF AdmissionInv
<1>4. CASE hired' # hired
  <2>1. PICK b : b = desk[c].body
    OBVIOUS
  <2>2. /\ I!IsException(b) => I!ExceptionAdmitted(b)
        /\ hired' = [body |-> b, items |-> desk[c].items, plan |-> I!Routed(b)]
    BY <1>4, <2>1 DEF I!Store
  <2>3. b \in Submissions /\ I!Compiles(b) /\ Covered(b, <<>>, desk[c].items)
    BY <1>1, <2>1 DEF AdmissionInv, DesksRight, ReadingRight
  <2>4. PICK items : items = desk[c].items
    OBVIOUS
  <2>5. I!MayRun(b, items, I!Routed(b))
    BY <2>2, <2>3, <2>4, RoutedMayRun
  <2>6. hired'.body = b /\ hired'.items = items /\ hired'.plan = I!Routed(b)
    BY <2>2, <2>4
  <2>7. I!MayRun(hired.body, hired.items, hired.plan)'
    BY <2>5, <2>6 DEF I!MayRun, I!Before
  <2> QED
    BY <1>2, <2>7 DEF AdmissionInv
<1> QED
  BY <1>3, <1>4

LEMMA AdmissionStep == ASSUME I!IntakeAssumption, AdmissionInv, [I!Next]_(I!vars) PROVE AdmissionInv'
<1>1. CASE UNCHANGED <<desk, hired>>
  BY <1>1 DEF AdmissionInv, DesksRight
<1>2. ASSUME NEW n \in I!Judging, I!Invoke(n) PROVE AdmissionInv'
  BY <1>1, <1>2 DEF I!Invoke
<1>3. ASSUME NEW a \in Accountants, I!StartReconcile(a) \/ I!LookUp(a) \/ I!FinishReconcile(a) PROVE AdmissionInv'
  BY <1>1, <1>3 DEF I!StartReconcile, I!LookUp, I!FinishReconcile
<1>4. CASE I!Complete \/ I!SourceMoves \/ UNCHANGED I!vars
  BY <1>1, <1>4 DEF I!Complete, I!SourceMoves, I!vars
<1> QED
  BY <1>2, <1>3, <1>4, SubmissionKeeps, SourceReadKeeps, AdmittingKeeps DEF I!Next

(* A submission on its way carries only what its body allows.                *)
THEOREM AdmissionKept == ASSUME I!IntakeAssumption PROVE I!Spec => []AdmissionInv
  BY AdmissionInit, AdmissionStep, PTL DEF I!Spec

(* What is admitted may run, for any bodies and sources (compile, admit).    *)
THEOREM AdmittedRun == ASSUME I!IntakeAssumption PROVE I!Spec => []I!AdmittedMissionsRun
<1>1. AdmissionInv => I!AdmittedMissionsRun
  BY AllRoutable DEF AdmissionInv, DesksRight, ReadingRight, I!AdmittedMissionsRun
<1> QED
  BY <1>1, AdmissionKept, PTL

LEMMA IntentSteps == [ServicesNext]_tables => [I!Next]_(I!vars)
BY DEF ServicesNext, IntakeStep, ApprovalStep, ObservationStep, GraphStep, GenericStep, CommandStep, BoardStep,
       RunStep, BridgeStep, DatabaseStep, ScheduleStep, LedgerStep, IntentStep, CloseoutStep, tables, intakes, I!vars

(* Beside the other services, a mission reads as matched only if the provider *)
(* agrees with every charge of it (reconcileBilling, refreshed).             *)
THEOREM VerdictBackedBesideOthers == ServicesSpec => []VerdictIsBacked
<1>1. ServicesInit => I!Init
  BY DEF ServicesInit
<1>2. ServicesSpec => I!Spec
  BY <1>1, IntentSteps, PTL DEF ServicesSpec, I!Spec
<1>3. I!Spec => []I!VerdictIsBacked
  BY ServicesAssumption, VerdictBacked
<1> QED
  BY <1>2, <1>3, PTL DEF VerdictIsBacked

(* Beside the other services, a body that compiles meets no refusal of the    *)
(* router, and a stored mission may run: effects behind the checkpoint, paid  *)
(* bindings named, required sources read, an undo for what is external.       *)
THEOREM AdmittedRunBesideOthers == ServicesSpec => []AdmittedMissionsRun
<1>1. ServicesInit => I!Init
  BY DEF ServicesInit
<1>2. ServicesSpec => I!Spec
  BY <1>1, IntentSteps, PTL DEF ServicesSpec, I!Spec
<1>3. I!Spec => []I!AdmittedMissionsRun
  BY ServicesAssumption, AdmittedRun
<1> QED
  BY <1>2, <1>3, PTL DEF AdmittedMissionsRun
===================================================================================
