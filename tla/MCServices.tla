------------------------------- MODULE MCServices -------------------------------
(***************************************************************************)
(* Small instances of the services side by side.  `focus` is the service    *)
(* whose requests arrive: the others have none.                             *)
(***************************************************************************)
EXTENDS Services, TLC

CONSTANTS m1, m2, t1, k1, w1, w2, film, reel,     \* intake: identities and payloads
          Focuses                                 \* the services this instance exercises

VARIABLE focus

-------------------------------------------------------------------------------
(* Intake.  One mission asked for by its key, by its id (twice, with and    *)
(* without the key that its id implies) and by both; other payloads,        *)
(* workspaces, traces and ids under the same key; and one without identity. *)

Request(mission, trace, key, ws, payload) ==
  [mission |-> mission, trace |-> trace, key |-> key, ws |-> ws, payload |-> payload]
Colliding == {Request(Unset, Unset, k1, Unset, film), Request(Unset, Unset, k1, w1, film),
              Request(Unset, Unset, k1, Unset, reel), Request(m1, Unset, Unset, Unset, film),
              Request(m1, t1, k1, Unset, film), Request(m2, t1, Unset, w2, film),
              Request(Unset, Unset, DefaultKey(m1), Unset, film), Request(Unset, t1, Unset, Unset, film)}

(* Approval authority: two revisions, two decisions.                        *)
ApprovalDecisions == {[by |-> "ada", status |-> "approved"], [by |-> "bo", status |-> "rejected"]}

(* Observation: a draft, the upload it becomes, the same upload when its     *)
(* approval has been withdrawn, and an upload that failed half-way.         *)
Look(status, approved, operation, trace) ==
  [provider |-> "youtube", status |-> status, approved |-> approved, retrying |-> FALSE, manual |-> FALSE,
   operation |-> operation, trace |-> trace, started |-> operation # "none",
   proven |-> operation = "completed_private", cause |-> "other"]
Faces == [draft |-> Look("scheduled", TRUE, "none", "none"),
          posted |-> Look("posted", TRUE, "completed_private", "done"),
          withdrawn |-> Look("posted", FALSE, "completed_private", "done"),
          sunk |-> Look("failed", TRUE, "terminal_failure", "lost")]
FaceNames == DOMAIN Faces
RunnerOwns == [b \in Batches |-> "runner"]

(* Graph: a chain, two independent nodes, and a cycle that is refused.      *)
Envelope(a, b, laneA, laneB, proven) ==
  [needs |-> [a |-> a, b |-> b], lane |-> [a |-> laneA, b |-> laneB], proven |-> proven]
SomeEnvelopes ==
  {Envelope({}, {"a"}, "generic", "autoposter", {"b"}), Envelope({}, {}, "autoposter", "generic", {"a"}),
   Envelope({}, {"a"}, "generic", "autoposter", {}), Envelope({"b"}, {"a"}, "generic", "generic", {})}
TwoNodes == <<"a", "b">>

(* The Platform's command under the OS: the payload, two of the same intake *)
(* key that differ, and three that do not describe one request.             *)
Media(kind, signed) == [kind |-> kind, sha256 |-> "d1", signed |-> signed]
StagedFor(id) == Media("autoposter_staged_upload", <<id, "d1">>)
Body(id, media, due, offset) ==
  [command |-> id, media |-> media, zone |-> "Europe/Sofia", offset |-> offset, minutes |-> -120,
   due |-> due, requested |-> 0]
SomeBodies ==
  {Body("own", StagedFor("own"), 1, 120), Body("own", Media("public_url", <<>>), 2, 120),
   Body("own", StagedFor("own"), 2, 0), Body("own", StagedFor("other"), 2, 120),
   Body("other", StagedFor("own"), 2, 120)}
Sofia == [z \in {"Europe/Sofia"} |-> 120]

(* Schedule intake: one schedule spelt with and without a registered name,  *)
(* an unknown field and a workspace; with another sound; and with media.     *)
Ask(provider, sound, media, ws) ==
  [provider |-> provider, title |-> "t1", sound |-> sound, due |-> 1, proof |-> media # Unset,
   media |-> media, extra |-> provider = "YouTube", ws |-> ws]
SomeSchedules == {Ask("YouTube", Unset, Unset, Unset), Ask("youtube", "mute", Unset, w1), Ask("youtube", Unset, "d1", Unset)}
Spellings == [YouTube |-> "youtube", youtube |-> "youtube", tiktok |-> "tiktok"]

(* Task board: a task whose steps need approval or none, three outcomes.    *)
Preview(listed) ==
  [allowlisted |-> listed, validation |-> FALSE, metacharacters |-> ~listed, workspace |-> TRUE]
Gates == {"typecheck", "tests", "build", "diff"}
SomeReports == {[blocked |-> FALSE, doubtful |-> FALSE, passing |-> Gates]}
Previews == {Preview(TRUE), Preview(FALSE)}

(* The run ledger.  One legal history, to be delivered in any order; the     *)
(* event of another mission's run; another payload of e2; another event for  *)
(* sequence 3; an entry of another scope; a status out of order.             *)
Entry(event, on, seq, status, scope, payload) ==
  [event |-> event, run |-> on, seq |-> seq, status |-> status, scope |-> scope, payload |-> payload]
SomeFollows == {<<Unset, "created">>, <<"created", "approval_required">>,
                <<"approval_required", "approved">>, <<"approved", "running">>}
History == {Entry("e1", "r1", 1, "created", "sA", "a"), Entry("e2", "r1", 2, "approval_required", "sA", "a"),
            Entry("e3", "r1", 3, "approved", "sA", "a"), Entry("e4", "r1", 4, "running", "sA", "a")}
Thief == Entry("m2", "r1", 2, "approval_required", "sA", "a")
Altered == Entry("e2", "r1", 2, "approval_required", "sA", "b")
Impostor == Entry("x3", "r1", 3, "approved", "sA", "a")
Stray == Entry("y3", "r1", 3, "approved", "sB", "a")
Skipping == Entry("z2", "r1", 2, "running", "sA", "a")
OwnEntries == {Entry("m1", "r2", 1, "created", "sB", "a"), Entry("m2", "r2", 2, "approval_required", "sB", "a")}
Posted == History \cup {Thief, Altered, Impostor, Stray, Skipping}
WithStray == History \cup {Stray}
Disturbed == History \cup {Impostor, Skipping}

(* The database: untouched, left by the first version, half migrated, up to  *)
(* date, and four that no migration knows.                                  *)
Left(added, tasks, column, nodes, replayed) ==
  [added |-> [t \in {"closeouts", "closeout_events", "projections", "result_events",
                     "jobs", "attempts", "escalations", "commands"} |->
                IF t \in added THEN "reviewed" ELSE "absent"],
   tasks |-> tasks, board |-> tasks = "first", rows |-> IF nodes = "2d" THEN 1 ELSE 0,
   proof |-> column, sound |-> IF column = "there" THEN "reviewed" ELSE column,
   nodes |-> nodes, replayed |-> replayed, marked |-> FALSE]
First == Left({}, "first", "absent", "2d", 1)
Present ==
  Left({"closeouts", "closeout_events", "projections", "result_events",
        "jobs", "attempts", "escalations", "commands"}, "current", "there", "2e", 0)
SomeHistories ==
  {First, Left({"projections", "jobs"}, "laned", "absent", "2d", 1), Present,
   [First EXCEPT !.added["commands"] = "other"], [First EXCEPT !.sound = "other"],
   [First EXCEPT !.replayed = 2], [Present EXCEPT !.nodes = "other"]}

(* Agentic intake: an artifact by tools, by priced models and by unpriced    *)
(* ones, an exception in each mode, the least time for each, and bodies that *)
(* the compiler or the connector refuses.                                   *)
Needs(of, required) == [source |-> of, required |-> required]
Wants(mode, target) ==
  [connector |-> "crm", target |-> target, mode |-> mode, judged |-> {"status"},
   desired |-> <<[field |-> "status", value |-> "closed"]>>]
Artifact ==
  [kind |-> "artifact", constraints |-> {[subject |-> "tests", kind |-> "require"]},
   criteria |-> {[check |-> "artifact_section_present", parameter |-> TRUE]},
   sections |-> <<"summary", "risks">>, contract |-> Unset, risk |-> "local_write",
   allowed |-> {"repo.metadata.read", "architecture.analyze", "risk.analyze", "evidence.verify",
                "result.synthesize", "artifact.local.write", "outcome.verify"},
   forbidden |-> {}, gatedCaps |-> {"artifact.local.write"}, gatedRisks |-> {},
   policy |-> "cheapest_sufficient", bindings |-> {}, time |-> 185, parallel |-> 2,
   context |-> <<Needs("repo", TRUE), Needs("fixture", FALSE)>>]
Judged(bindings) ==
  [Artifact EXCEPT !.policy = "model_required_for_judgment", !.time = 575, !.bindings = bindings,
                   !.context = <<Needs("repo", TRUE)>>]
Buys(cap) == [cap |-> cap, binding |-> "openrouter"]
Exception(mode, target, allowed) ==
  [Artifact EXCEPT !.kind = "operational_exception", !.sections = Unset, !.contract = Wants(mode, target),
     !.risk = IF mode \in {"live", "live_compensated"} THEN "external_write" ELSE "read_only",
     !.allowed = {"exception.state.observe", "exception.action.compile"} \cup allowed,
     !.gatedCaps = {}, !.time = 65, !.parallel = 1, !.context = <<>>]
LiveOnly == {"connector.state.apply", "exception.outcome.verify"}
Undoing == {"connector.state.apply_external", "exception.outcome.verify",
            "connector.state.compensate", "exception.absence.verify"}
Shadowing == {"exception.shadow.authorize", "exception.shadow.verify"}
SomeSubmissions ==
  {Artifact, Judged({Buys("risk.analyze"), Buys("architecture.analyze")}), Judged({Buys("risk.analyze")}),
   Exception("live", "kept", LiveOnly), Exception(Unset, "kept", Shadowing),
   Exception("live_compensated", "new", Undoing), Exception("live_compensated", "kept", Undoing),
   Exception("shadow", "kept", LiveOnly), Exception("live_compensated", "new", LiveOnly),
   [Artifact EXCEPT !.bindings = {Buys("risk.analyze")}], [Artifact EXCEPT !.time = 184],
   [Artifact EXCEPT !.risk = "read_only"], [Artifact EXCEPT !.gatedCaps = {}],
   [Artifact EXCEPT !.forbidden = {"risk.analyze"}], [Artifact EXCEPT !.sections = <<"a", "a">>],
   [Artifact EXCEPT !.constraints = @ \cup {[subject |-> "tests", kind |-> "forbid"]}]}
Sandbox ==
  [id |-> "crm", enabled |-> TRUE, apply |-> TRUE, compensate |-> TRUE, undo |-> "delete_created",
   environment |-> "real_sandbox", records |-> [kept |-> [status |-> "open"]]]

(* Closeouts: one idempotency key for two plans.                            *)
Plan(plan, hash) == [key |-> "k", plan |-> plan, hash |-> hash]
SameKey == {Plan("n1", "h1"), Plan("n2", "h2")}
-------------------------------------------------------------------------------
(* The source starts at its first revision. *)
MCInit ==
  /\ ServicesInit /\ focus \in Focuses
  /\ source = "h1" /\ account = w1 /\ (focus # "database" => db = D!Empty)
  /\ shelf = [s \in {"repo", "fixture"} |-> "v1"]
  /\ bill["architecture.analyze"] = "matched" /\ (focus # "intent" => bill["risk.analyze"] = "matched")
MCNext ==
  /\ UNCHANGED focus
  /\ \/ focus = "intake" /\ IntakeStep
     \/ focus = "approval" /\ ApprovalStep
     \/ focus = "observation" /\ ObservationStep
     \/ focus = "graph" /\ GraphStep
     \/ focus = "generic" /\ GenericStep
     \/ focus = "command" /\ CommandStep
     \/ focus = "board" /\ BoardStep
     \/ focus = "run" /\ RunStep
     \/ focus = "bridge" /\ BridgeStep
     \/ focus = "database" /\ DatabaseStep
     \/ focus = "schedule" /\ ScheduleStep
     \/ focus = "ledger" /\ LedgerStep
     \/ focus = "intent" /\ IntentStep
     \/ focus = "closeout" /\ CloseoutStep
MCSpec == MCInit /\ [][MCNext]_<<focus, tables>>
(* A service without requests has nothing its fairness could ask for.       *)
MCFairSpec ==
  /\ MCSpec /\ O!Fairness /\ G!Fairness
  /\ \A p \in {"p1", "p2"} : WF_files(focus = "database" /\ D!Advance(p))
  /\ WF_logs(focus = "ledger" /\ L!Ingest("p1"))
  /\ \A e \in External : SF_logs(focus = "ledger" /\ L!Post(e))

Alike == Permutations(Callers)
-------------------------------------------------------------------------------
(* A service out of focus stays as it began: its rows need no second look.   *)
ServicesTypeOK ==
  /\ focus = "intake" => TypeOK
  /\ focus = "approval" => A!TypeOK
  /\ focus = "observation" => O!TypeOK
  /\ focus = "graph" => G!TypeOK
  /\ focus = "generic" => M!TypeOK
  /\ focus = "command" => P!OsTypeOK
  /\ focus = "board" => T!TypeOK
  /\ focus \in {"run", "bridge"} => R!TypeOK
  /\ focus = "database" => D!TypeOK
  /\ focus = "ledger" => L!TypeOK
  /\ focus = "schedule" => S!TypeOK
  /\ focus = "intent" => I!TypeOK
  /\ focus = "closeout" => C!TypeOK

(* What each owes in the end, as its module states it. *)
JobsSettle == O!JobsSettle
GraphSettlesMostly == G!GraphSettlesMostly
OpensInTheEnd == focus = "database" => D!OpensInTheEnd
Delivered == focus = "ledger" => L!Delivered
=================================================================================
