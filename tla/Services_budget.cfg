\* The least time a compensated mission may be given, and the plan it is given for.
SPECIFICATION MCSpec
CONSTANTS
  m1 = m1  m2 = m2  t1 = t1  k1 = k1  w1 = w1  w2 = w2  film = film  reel = reel  Unset = Unset
  Requests <- Colliding
  Callers = {c1}
  Generated = {g1, g2, g3}
  Workspaces = {w1, w2}
  Focuses = {"intent"}
  Managed = TRUE
  Batches = {"b1"}
  Readers = {"q1"}
  MaxRevision = 2
  Envelopes <- SomeEnvelopes
  MaxNodeAttempts = 2
  External <- Posted
  MaxDispatches = 2
  Troubles = 1
  Heads = {"h1", "h2"}
  Decisions <- ApprovalDecisions
  Signs = TRUE
  Trusts = TRUE
  MaxMoves = 2
  Watched = {"n1"}
  Owner <- RunnerOwns
  Looks <- FaceNames
  Face <- Faces
  Draft = "draft"
  MaxAttempts = 2
  BatchSize = 2
  Order <- TwoNodes
  Approvers = {"ada"}
  Submitted <- SomeBodies
  Offset <- Sofia
  MaxClock = 1
  Schedules <- SomeSchedules
  Intents = {"a", "b"}
  Spelling <- Spellings
  SharedDatabase = FALSE
  MaxHour = 1
  Tasks = {"t1"}
  Actions = {"analysis", "shell_command"}
  Outcomes = {"clean", "exit", "throws"}
  Findings <- SomeReports
  Commands <- Previews
  MaxSteps = 2
  MaxAttached = 1
  MaxEvidence = 1
  Honest <- History
  Local <- OwnEntries
  Runs = {"r1", "r2"}
  Follows <- SomeFollows
  Processes = {"p1"}
  MaxSeq = 4
  Submissions <- SomeSubmissions
  Accountants = {"a1"}
  Contents = {"v1"}
  Sources = {"repo", "fixture"}
  Connector <- Sandbox
  Configured = {"local", "openrouter"}
  Closeouts = {"q1", "q2"}
  Proposals <- SameKey
  Submitters = {"s1"}
  Founders = {"f1", "f2"}
  Executors = {"e1", "e2"}
  Reasons = {"a", "b"}
  MaxIds = 2
  Openers = {"p1", "p2"}
  Histories <- SomeHistories
  MaxWritten = 2
INVARIANTS
  PlanFitsBudget
CHECK_DEADLOCK FALSE
