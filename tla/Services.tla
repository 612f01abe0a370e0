-------------------------------- MODULE Services --------------------------------
(***************************************************************************)
(* The services that keep tables of their own in the one Operator           *)
(* database, side by side: mission intake, the approval authority, the      *)
(* observation loop, the mission graph, the generic mission, the Platform   *)
(* command under the OS control plane, the schedule intake, the task board, *)
(* the run contracts, the run ledger, the agentic intake, the SafeCommit    *)
(* closeouts and the opening of the database itself.  Each step is one      *)
(* service's own.                                                           *)
(*                                                                          *)
(* Where a component's theorems have a module of their own, that module is  *)
(* the one instantiated: the theorems come with it.                         *)
(***************************************************************************)
EXTENDS MissionIntake, Integers, Sequences

CONSTANTS Troubles,                               \* crashes and the like, of each service
          Heads, Decisions, Managed, Signs, Trusts, MaxMoves,            \* approval
          Watched, Batches, Readers, Owner, Looks, Face, Draft,          \* observation
          MaxAttempts, BatchSize, MaxRevision,
          Order, Envelopes, MaxNodeAttempts,                             \* graph
          Approvers, MaxDispatches,                                      \* generic mission
          Submitted, Offset, MaxClock,                                   \* Platform command
          Schedules, Intents, Spelling, SharedDatabase, MaxHour,         \* schedule intake
          Tasks, Actions, Outcomes, Findings, Commands, MaxSteps, MaxAttached,  \* task board
          MaxEvidence,                                                   \* run contracts
          External, Honest, Local, Runs, Follows, Processes, MaxSeq,     \* run ledger
          Submissions, Accountants, Contents, Sources, Connector, Configured,  \* agentic intake
          Closeouts, Proposals, Submitters, Founders, Executors, Reasons, MaxIds,  \* closeouts
          Openers, Histories, MaxWritten                                 \* database

VARIABLES source, checkouts, manifest, observation, caller, admitted, moves,
          completed, job, tried, escalation, projection, evidence, bundle, post, actor, lapses,
          compiled, graph, node, childOf, request, turn, upsets,
          row, exec, ledger, proc, claim, loop, wire, sent, crashes,
          command, carrier, order, hour, mishaps, child,
          task, steps, attached, audit, worker, breaks,
          run, assignment, now,
          instant, account, intent, stored, dispatch, created, told,
          db, opener, begun, written, deaths,
          log, accepted, applied, conflicts, ingest,
          desk, hired, shelf, charge, verdict, accountant, bill, moved,
          closeout, chronicle, checking, issued, holders

approvals == <<source, checkouts, manifest, observation, caller, admitted, moves>>
observations == <<completed, job, tried, escalation, projection, evidence, bundle, post, actor, lapses>>
graphs == <<compiled, graph, node, childOf, request, turn, upsets>>
generics == <<row, exec, ledger, proc, claim, loop, wire, sent, crashes>>
commands == <<command, carrier, order, hour, mishaps, child>>
boards == <<task, steps, attached, audit, worker, breaks>>
runs == <<run, assignment, now>>
files == <<db, opener, begun, written, deaths>>
logs == <<log, accepted, applied, conflicts, ingest>>
schedules == <<instant, account, intent, stored, dispatch, created, told>>
intakes == <<desk, hired, shelf, charge, verdict, accountant, bill, moved>>
closings == <<closeout, chronicle, checking, issued, holders>>
tables ==
  <<vars, approvals, observations, graphs, generics, commands, boards, runs, files, schedules, logs, intakes,
    closings>>

A == INSTANCE ApprovalAuthority
O == INSTANCE ObservationLoop WITH Nodes <- Watched, MaxTroubles <- Troubles, troubles <- lapses
G == INSTANCE MissionGraph
  WITH MaxTroubles <- Troubles, child <- childOf, call <- request, troubles <- upsets
M == INSTANCE GenericMissionProofs WITH MaxCrashes <- Troubles
P == INSTANCE OsControl
  WITH Bodies <- Submitted, None <- Unset, MaxTroubles <- Troubles,
       row <- command, graph <- carrier, call <- order, clock <- hour, troubles <- mishaps
S == INSTANCE ScheduleIntake
  WITH Bodies <- Schedules, None <- Unset, clock <- instant, connected <- account, graph <- stored, child <- created
T == INSTANCE OperatorTasksProofs
  WITH Reports <- Findings, MaxTroubles <- Troubles, call <- worker, troubles <- breaks
R == INSTANCE AgentRuns WITH None <- Unset, manifest <- run, task <- assignment
L == INSTANCE AgentRunLedgerProofs WITH None <- Unset, proc <- ingest
D == INSTANCE OperatorDatabase WITH MaxDeaths <- Troubles
I == INSTANCE AgenticIntake
  WITH MaxMoves <- Troubles, None <- Unset, mission <- hired, source <- shelf
C == INSTANCE SafeCommitCloseoutProofs
  WITH Requests <- Closeouts, Submissions <- Proposals, Reports <- Reasons, Processes <- Openers, None <- Unset,
       rows <- closeout, events <- chronicle, proc <- checking, ids <- issued, granted <- holders

ASSUME ServicesAssumption ==
  /\ A!AuthorityAssumption /\ O!LoopAssumption /\ G!GraphAssumption /\ M!GenericAssumption
  /\ P!PlatformAssumption /\ T!BoardAssumption /\ R!RunAssumption /\ D!DatabaseAssumption
  /\ S!IntakeAssumption /\ I!IntakeAssumption /\ L!ConstantsAssumption /\ C!ConstantsAssumption
-------------------------------------------------------------------------------
ServicesInit ==
  /\ Init /\ A!Init /\ O!Init /\ G!Init /\ M!Init /\ P!OsInit /\ T!Init /\ R!Init /\ D!Init
  /\ S!Init /\ L!Init /\ I!Init /\ C!Init

IntakeStep ==
  /\ Next
  /\ UNCHANGED <<approvals, observations, graphs, generics, commands, boards, runs, files, schedules, logs, intakes, closings>>
ApprovalStep ==
  /\ A!Next
  /\ UNCHANGED <<vars, observations, graphs, generics, commands, boards, runs, files, schedules, logs, intakes, closings>>
ObservationStep ==
  /\ O!Next
  /\ UNCHANGED <<vars, approvals, graphs, generics, commands, boards, runs, files, schedules, logs, intakes, closings>>
GraphStep ==
  /\ G!Next
  /\ UNCHANGED <<vars, approvals, observations, generics, commands, boards, runs, files, schedules, logs, intakes, closings>>
GenericStep ==
  /\ M!Next
  /\ UNCHANGED <<vars, approvals, observations, graphs, commands, boards, runs, files, schedules, logs, intakes, closings>>
CommandStep ==
  /\ P!OsNext
  /\ UNCHANGED <<vars, approvals, observations, graphs, generics, boards, runs, files, schedules, logs, intakes, closings>>
BoardStep ==
  /\ T!Next
  /\ UNCHANGED <<vars, approvals, observations, graphs, generics, commands, runs, files, schedules, logs, intakes, closings>>
RunStep ==
  /\ R!RunNext
  /\ UNCHANGED <<vars, approvals, observations, graphs, generics, commands, boards, files, schedules, logs, intakes, closings>>
BridgeStep ==
  /\ R!BridgeNext
  /\ UNCHANGED <<vars, approvals, observations, graphs, generics, commands, boards, files, schedules, logs, intakes, closings>>
DatabaseStep ==
  /\ D!Next
  /\ UNCHANGED <<vars, approvals, observations, graphs, generics, commands, boards, runs, schedules, logs, intakes, closings>>
ScheduleStep ==
  /\ S!Next
  /\ UNCHANGED <<vars, approvals, observations, graphs, generics, commands, boards, runs, files, logs, intakes, closings>>
LedgerStep ==
  /\ L!Next
  /\ UNCHANGED <<vars, approvals, observations, graphs, generics, commands, boards, runs, files, schedules, intakes, closings>>
IntentStep ==
  /\ I!Next
  /\ UNCHANGED <<vars, approvals, observations, graphs, generics, commands, boards, runs, files, schedules, logs, closings>>
CloseoutStep ==
  /\ C!Next
  /\ UNCHANGED <<vars, approvals, observations, graphs, generics, commands, boards, runs, files, schedules, logs, intakes>>

ServicesNext ==
  \/ IntakeStep \/ ApprovalStep \/ ObservationStep \/ GraphStep \/ GenericStep \/ CommandStep \/ BoardStep
  \/ RunStep \/ BridgeStep \/ DatabaseStep \/ ScheduleStep \/ LedgerStep \/ IntentStep
  \/ CloseoutStep
ServicesSpec == ServicesInit /\ [][ServicesNext]_tables
-------------------------------------------------------------------------------
(* Every table and every call in flight keeps to the values its module lists.*)
EveryTypeOK ==
  /\ TypeOK /\ A!TypeOK /\ O!TypeOK /\ G!TypeOK /\ M!TypeOK /\ P!OsTypeOK /\ T!TypeOK /\ R!TypeOK /\ D!TypeOK
  /\ S!TypeOK /\ L!TypeOK /\ I!TypeOK /\ C!TypeOK

(* The properties of the instances, as their modules state them.            *)
OneAuthority == A!OneAuthority
ClaimsAreEvidenced == O!ClaimsAreEvidenced
ProjectionGoesForward == O!ProjectionGoesForward
ResultsAreHonest == G!ResultsAreHonest
CompletionIsReal == M!CompletionIsReal
GenericNeverStuck == M!NeverStuck
IsAChild == M!IsAChild
CompletionIsLinked == P!CompletionIsLinked
OsAnswersHonestly == P!OsAnswersHonestly
OneIdentity == P!OneIdentity
DatabaseIsReviewed == D!DatabaseIsReviewed
WorkIsEvidenced == T!WorkIsEvidenced
SameIntentSameAnswer == S!SameIntentSameAnswer
ChildIsWhatWasAsked == S!ChildIsWhatWasAsked
AdmittedMissionsRun == I!AdmittedMissionsRun
VerdictIsBacked == I!VerdictIsBacked
PlanFitsBudget == I!PlanFitsBudget
LedgerIsHistory == L!LedgerIsHistory
GapCloses == L!GapCloses
CompletionIsEarned == R!CompletionIsEarned
RowsStayUsable == C!RowsStayUsable
OneHolder == C!OneHolder
EventsTellStory == C!EventsTellStory
LostAnswersReplay == C!LostAnswersReplay
=================================================================================
