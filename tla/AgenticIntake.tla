----------------------------- MODULE AgenticIntake -----------------------------
(***************************************************************************)
(* Admission of an agentic mission and the books kept on its model calls.  *)
(* A submission is compiled against the capability registry, its context   *)
(* is read source by source (an await each), the connector is consulted,   *)
(* every node of its plan is routed to a worker and the mission is stored. *)
(* Model workers leave charges; the completed mission states a billing     *)
(* verdict, and reconciliations look the charges up and refresh it.        *)
(*                                                                         *)
(* Every submission here is of one mission id.  A node is named by its     *)
(* capability, a time is in seconds.  Identity fields, texts and hashes    *)
(* are left out.  Freshness policies are too: the one source port stamps a *)
(* read with the clock of the read, which no policy can then refuse.       *)
(***************************************************************************)
EXTENDS Naturals, Sequences, FiniteSets, SequencesExt, FiniteSetsExt, Functions

CONSTANTS Submissions,     \* request bodies
          Callers,         \* concurrent submissions
          Accountants,     \* concurrent billing reconciliations
          Contents,        \* what a context source may hold
          Sources,
          Connector,       \* the registered connector: its manifest, methods and records
          Configured,      \* provider bindings this deployment enables
          MaxMoves,        \* changes of a source
          None

-------------------------------------------------------------------------------
(* The capability registry.                                                *)

Cap(risk, gated, judged, kinds, effect, window) ==
  [risk |-> risk, gated |-> gated, judged |-> judged, kinds |-> kinds, effect |-> effect, window |-> window]
Tool(window) == Cap("read_only", FALSE, FALSE, <<"deterministic_tool">>, "none", window)
Gated(risk, effect, window) == Cap(risk, TRUE, FALSE, <<"deterministic_tool">>, effect, window)
Specialist == Cap("read_only", FALSE, TRUE, <<"structured_local_worker", "model_worker">>, "none", 45)
ModelWindow == 240

ReadingCapabilities == {"repo.metadata.read", "repo.file.read", "architecture.analyze", "risk.analyze"}
ComposingCapabilities == {"evidence.verify", "result.synthesize"}
WritingCapabilities == {"artifact.local.write", "outcome.verify"}
ExceptionCapabilities == {"exception.state.observe", "exception.action.compile", "connector.state.apply"}
ExternalCapabilities == {"connector.state.apply_external", "connector.state.compensate", "exception.absence.verify"}
JudgingCapabilities == {"exception.shadow.authorize", "exception.shadow.verify", "exception.outcome.verify"}
Declared(cap) ==
  CASE cap \in {"repo.metadata.read", "evidence.verify", "outcome.verify", "exception.outcome.verify"} -> Tool(20)
    [] cap = "repo.file.read" -> Tool(10)
    [] cap \in {"exception.state.observe", "exception.action.compile"} -> Tool(15)
    [] cap \in {"exception.absence.verify", "exception.shadow.verify"} -> Tool(30)
    [] cap \in {"architecture.analyze", "risk.analyze"} -> Specialist
    [] cap = "result.synthesize" -> [Tool(20) EXCEPT !.judged = TRUE]
    [] cap = "artifact.local.write" -> Gated("local_write", "local_artifact", 15)
    [] cap = "connector.state.apply" -> Gated("local_write", "simulated_external", 15)
    [] cap \in {"connector.state.apply_external", "connector.state.compensate"} ->
         Gated("external_write", "external", 60)
    [] cap = "exception.shadow.authorize" -> Gated("read_only", "none", 15)
Capability ==
  [cap \in ReadingCapabilities \cup ComposingCapabilities \cup WritingCapabilities \cup
           ExceptionCapabilities \cup ExternalCapabilities \cup JudgingCapabilities |-> Declared(cap)]

(* What the registry refuses to load with.                                  *)
RegistryIsConsistent ==
  \A cap \in Range(Capability) :
    /\ cap.kinds # <<>> /\ cap.risk # "irreversible"
    /\ cap.effect = "external" <=> cap.risk = "external_write"
    /\ cap.effect # "none" => cap.gated

(* What a provider's record may say of a charge; a verdict may be mixed too. *)
Found == {"not_attempted", "matched", "mismatched", "unavailable"}
IntakeAssumption ==
  /\ RegistryIsConsistent /\ IsFiniteSet(Submissions) /\ MaxMoves \in Nat
  /\ None \notin Submissions /\ None \notin Contents \cup Found \cup {"mixed"}
  /\ \A b \in Submissions : /\ b.bindings \subseteq [cap : STRING, binding : STRING]
                            /\ b.context \in Seq([source : Sources, required : BOOLEAN])

(* Provider bindings a capability may reach, by preference.                 *)
Bindings == <<"local", "openrouter", "sim-a", "sim-b">>
Authorized(cap) ==
  IF cap \in {"architecture.analyze", "risk.analyze"} THEN Bindings ELSE <<>>
Priced(binding) == binding # "local"
Enabled(binding) == binding \in Configured

-------------------------------------------------------------------------------
(* Plans: stages of nodes, each depending on the whole stage before it.     *)

Checkpoint == "authority"
ArtifactStages ==
  <<{"repo.metadata.read"}, {"architecture.analyze", "risk.analyze"}, {"evidence.verify"},
    {"result.synthesize"}, {Checkpoint}, {"artifact.local.write"}, {"outcome.verify"}>>
Opening == <<{"exception.state.observe"}, {"exception.action.compile"}, {Checkpoint}>>
LiveStages == Opening \o <<{"connector.state.apply"}, {"exception.outcome.verify"}>>
CompensatedStages ==
  Opening \o <<{"connector.state.apply_external"}, {"exception.outcome.verify"},
               {"connector.state.compensate"}, {"exception.absence.verify"}>>
ShadowStages == Opening \o <<{"exception.shadow.authorize"}, {"exception.shadow.verify"}>>

IsException(b) == b.kind = "operational_exception"
ExecutionModes == {"shadow", "live", "live_compensated"}
Mode(b) == IF b.contract.mode = None THEN "shadow" ELSE b.contract.mode
Stages(b) ==
  CASE ~IsException(b) -> ArtifactStages
    [] IsException(b) /\ Mode(b) = "shadow" -> ShadowStages
    [] IsException(b) /\ Mode(b) = "live_compensated" -> CompensatedStages
    [] IsException(b) /\ Mode(b) = "live" -> LiveStages
PlanNodes(b) == (UNION Range(Stages(b))) \ {Checkpoint}

(* The sets a submission must permit, declared apart from the plans.        *)
ArtifactMissionCapabilities ==
  {"repo.metadata.read", "architecture.analyze", "risk.analyze", "evidence.verify",
   "result.synthesize", "artifact.local.write", "outcome.verify"}
LiveMissionCapabilities ==
  {"exception.state.observe", "exception.action.compile", "connector.state.apply", "exception.outcome.verify"}
CompensatedMissionCapabilities ==
  {"exception.state.observe", "exception.action.compile", "connector.state.apply_external",
   "exception.outcome.verify", "connector.state.compensate", "exception.absence.verify"}
ShadowMissionCapabilities ==
  {"exception.state.observe", "exception.action.compile",
   "exception.shadow.authorize", "exception.shadow.verify"}
RequiredByKind(b) == IF IsException(b) THEN LiveMissionCapabilities ELSE ArtifactMissionCapabilities
Required(b) ==
  CASE ~IsException(b) -> ArtifactMissionCapabilities
    [] IsException(b) /\ Mode(b) = "shadow" -> ShadowMissionCapabilities
    [] IsException(b) /\ Mode(b) = "live_compensated" -> CompensatedMissionCapabilities
    [] IsException(b) /\ Mode(b) = "live" -> LiveMissionCapabilities

Window(cap, worker) == IF worker = "model_worker" THEN ModelWindow ELSE Capability[cap].window
ExceptionMinimum == 65
MinimumDuration(b) ==
  IF IsException(b) THEN ExceptionMinimum
  ELSE MapThenSumSet(
         LAMBDA cap : Window(cap, IF /\ b.policy = "model_required_for_judgment" /\ Capability[cap].judged
                                     /\ "model_worker" \in Range(Capability[cap].kinds)
                                  THEN "model_worker" ELSE None),
         ArtifactMissionCapabilities)

-------------------------------------------------------------------------------
(* compileAgenticIntent: each refusal of a body.                            *)

SupportedRisks == {"read_only", "local_write", "external_write"}
NoContradiction(b) == \A c, d \in b.constraints : c.subject = d.subject => c.kind = d.kind
CriteriaAreCheckable(b) ==
  /\ b.criteria # {}
  /\ \A c \in b.criteria :
       c.check \in {"artifact_section_present", "evidence_coverage_minimum"} => c.parameter
ContractIsUnambiguous(b) ==
  /\ b.sections # None /\ Len(b.sections) \in 1..16 /\ IsInjective(b.sections)
ExceptionIsDecidable(b) ==
  LET stated == [i \in DOMAIN b.contract.desired |-> b.contract.desired[i].field] IN
  /\ stated # <<>> /\ IsInjective(stated)
  /\ b.contract.judged # {} /\ b.contract.judged \subseteq Range(stated)
  /\ Mode(b) \in ExecutionModes
ContractMatchesKind(b) ==
  IF IsException(b) THEN b.sections = None /\ b.contract # None /\ ExceptionIsDecidable(b)
                    ELSE b.contract = None /\ ContractIsUnambiguous(b)
CapabilitiesAreRegistered(b) ==
  b.allowed # {} /\ b.allowed \cup b.forbidden \cup b.gatedCaps \subseteq DOMAIN Capability
WriteIsDeclared(b) ==
  /\ b.risk \in SupportedRisks /\ b.allowed \cap b.forbidden = {}
  /\ "artifact.local.write" \in b.allowed => b.risk = "local_write"
WriteIsGated(b) ==
  /\ b.gatedRisks \subseteq SupportedRisks
  /\ b.risk = "local_write" => b.gatedCaps # {} \/ "local_write" \in b.gatedRisks
CoversRequired(b) == Required(b) \subseteq b.allowed \ b.forbidden
Selectable(cap, binding) == binding \in Range(Authorized(cap))
PolicyCompiles(b) ==
  /\ \A s \in b.bindings : s.cap \in b.allowed /\ Selectable(s.cap, s.binding)
  /\ \A s, t \in b.bindings : s.cap = t.cap => s = t
  /\ b.policy = "cheapest_sufficient" => b.bindings = {}
FitsMinimum(b) ==
  b.time >= MinimumDuration(b) /\ b.parallel >= (IF IsException(b) THEN 1 ELSE 2)

Compiles(b) ==
  /\ NoContradiction(b) /\ CriteriaAreCheckable(b) /\ CapabilitiesAreRegistered(b)
  /\ ContractMatchesKind(b) /\ WriteIsDeclared(b) /\ WriteIsGated(b)
  /\ CoversRequired(b) /\ PolicyCompiles(b) /\ FitsMinimum(b)
  /\ IsException(b) \/ b.context # <<>>

-------------------------------------------------------------------------------
(* Intake of an exception, and the routing of a plan.                       *)

Writes(b) == Mode(b) \in {"live", "live_compensated"}
WriterIsBound(b) == Writes(b) => Connector.enabled /\ Connector.apply
UndoIsBound(b) ==
  Mode(b) = "live_compensated" =>
    Connector.compensate /\ Connector.undo # "none" /\ Connector.environment = "real_sandbox"
Holds(target) == target \in DOMAIN Connector.records
TargetIsAsExpected(b) == Holds(b.contract.target) <=> Mode(b) # "live_compensated"
Observed(target, field) ==
  IF Holds(target) /\ field \in DOMAIN Connector.records[target] THEN Connector.records[target][field] ELSE None
HasDelta(b) ==
  \E d \in Range(b.contract.desired) : Observed(b.contract.target, d.field) # d.value
ExceptionAdmitted(b) ==
  /\ Connector # None /\ Connector.id = b.contract.connector
  /\ WriterIsBound(b) /\ UndoIsBound(b) /\ TargetIsAsExpected(b) /\ HasDelta(b)

Cheapest(cap) == Capability[cap].kinds[1]
WorkerKind(b, cap) ==
  IF /\ Capability[cap].judged /\ b.policy = "model_required_for_judgment"
     /\ "model_worker" \in Range(Capability[cap].kinds) /\ Authorized(cap) # <<>>
  THEN "model_worker" ELSE Cheapest(cap)
Chosen(b, cap) ==
  LET named == {s \in b.bindings : s.cap = cap} IN
  IF named = {} THEN Authorized(cap)[1] ELSE (CHOOSE s \in named : TRUE).binding
Routable(b, cap) ==
  /\ cap \in b.allowed \ b.forbidden
  /\ Capability[cap].judged \/ Cheapest(cap) = "deterministic_tool"
Routed(b) ==
  [cap \in PlanNodes(b) |->
     [worker |-> WorkerKind(b, cap),
      binding |-> IF WorkerKind(b, cap) = "model_worker" THEN Chosen(b, cap) ELSE None]]

(* A node's deadline: everything before it, and its own window.             *)
Deadline(b, plan) ==
  FoldLeft(LAMBDA sum, stage :
             sum + Max({0} \cup {Window(cap, plan[cap].worker) : cap \in stage \ {Checkpoint}}),
           0, Stages(b))

-------------------------------------------------------------------------------
VARIABLES desk,        \* submissions between their awaits
          mission,     \* the stored mission, or None
          source,      \* context sources; None: not to be read
          charge,      \* operator_agentic_provider_usage, by judging node
          verdict,     \* billing verdict of the value observation, None before completion
          accountant,  \* billing reconciliations in flight
          bill,        \* what the provider's own record says of the charge
          moved

vars == <<desk, mission, source, charge, verdict, accountant, bill, moved>>
Judging == {"architecture.analyze", "risk.analyze"}
Absent == [pc |-> "idle", body |-> None, left |-> <<>>, items |-> {}]
Resting == [pc |-> "idle", todo |-> {}, rows |-> <<>>, seen |-> None]

Init ==
  /\ desk = [c \in Callers |-> Absent] /\ mission = None
  /\ source \in [Sources -> Contents]
  /\ charge = [n \in Judging |-> [at |-> "none", found |-> "not_attempted"]]
  /\ verdict = None /\ accountant = [a \in Accountants |-> Resting]
  /\ bill \in [Judging -> {"matched", "mismatched"}]
  /\ moved = 0

(* A known mission is replayed, or refused for another intent: no change.   *)
Submit(c) ==
  /\ desk[c].pc = "idle" /\ mission = None
  /\ \E b \in {s \in Submissions : Compiles(s)} :
       desk' = [desk EXCEPT ![c] = [pc |-> "reading", body |-> b, left |-> b.context, items |-> {}]]
  /\ UNCHANGED <<mission, source, charge, verdict, accountant, bill, moved>>

(* The port answers with what the source holds at the moment of the read.    *)
Retrieved(requirement) == source[requirement.source]

(* Equal contents of one source are one item; an optional one may be missing. *)
ReadSource(c) ==
  /\ desk[c].pc = "reading" /\ desk[c].left # <<>>
  /\ LET next == Head(desk[c].left) content == Retrieved(next) IN
     desk' = [desk EXCEPT ![c] =
       IF content = None /\ next.required THEN Absent
       ELSE [desk[c] EXCEPT !.left = Tail(@),
                            !.items = IF content = None THEN @
                                      ELSE @ \cup {[source |-> next.source, content |-> content]}]]
  /\ UNCHANGED <<mission, source, charge, verdict, accountant, bill, moved>>

(* Admitted, routed and inserted in one go; a second insert breaks the key. *)
Store(c) ==
  LET b == desk[c].body IN
  /\ desk[c].pc = "reading" /\ desk[c].left = <<>>
  /\ desk' = [desk EXCEPT ![c] = Absent]
  /\ mission' = IF /\ mission = None
                   /\ IF IsException(b) THEN ExceptionAdmitted(b) ELSE desk[c].items # {}
                   /\ \A cap \in PlanNodes(b) : Routable(b, cap)
                THEN [body |-> b, items |-> desk[c].items, plan |-> Routed(b)] ELSE mission
  /\ UNCHANGED <<source, charge, verdict, accountant, bill, moved>>

(* After the mission is stored nothing reads a source for it any more.      *)
SourceMoves ==
  /\ moved < MaxMoves /\ moved' = moved + 1 /\ mission = None
  /\ \E s \in Sources, content \in Contents \cup {None} :
       source[s] # content /\ source' = [source EXCEPT ![s] = content]
  /\ UNCHANGED <<desk, mission, charge, verdict, accountant, bill>>

-------------------------------------------------------------------------------
(* The books.                                                              *)

Model(n) == mission.plan[n].worker = "model_worker"
ModelNodes == {n \in Judging \cap DOMAIN mission.plan : Model(n)}

(* A call fails, or leaves a row: an unpriced one, or a charge.  A binding   *)
(* that is not configured fails; a failed node may be run again.            *)
Invoke(n) ==
  /\ mission # None /\ verdict = None /\ n \in ModelNodes /\ charge[n].at \in {"none", "failed"}
  /\ \E at \in {"failed", IF Priced(mission.plan[n].binding) THEN "priced" ELSE "unpriced"} :
       /\ at # "failed" => Enabled(mission.plan[n].binding)
       /\ charge' = [charge EXCEPT ![n].at = at]
  /\ UNCHANGED <<desk, mission, source, verdict, accountant, bill, moved>>

Billed(rows) == {n \in Judging : rows[n].at = "priced"}
Overall(founds) ==
  CASE founds = {} -> "not_attempted" [] Cardinality(founds) = 1 -> CHOOSE f \in founds : TRUE
    [] Cardinality(founds) > 1 -> "mixed"

Complete ==
  /\ mission # None /\ verdict = None
  /\ \A n \in ModelNodes : charge[n].at \in {"priced", "unpriced"}
  /\ verdict' = Overall({charge[n].found : n \in Billed(charge)})
  /\ UNCHANGED <<desk, mission, source, charge, accountant, bill, moved>>

(* reconcileBilling reads the mission and its rows once, then asks about    *)
(* each charge; a row that already matched is not asked about again, and a  *)
(* mission without charges is left as it is.                                *)
StartReconcile(a) ==
  /\ accountant[a].pc = "idle" /\ mission # None /\ Billed(charge) # {}
  /\ accountant' = [accountant EXCEPT ![a] =
       [pc |-> "asking", seen |-> verdict,
        rows |-> [n \in Billed(charge) |-> charge[n].found],
        todo |-> {n \in Billed(charge) : charge[n].found # "matched"}]]
  /\ UNCHANGED <<desk, mission, source, charge, verdict, bill, moved>>

LookUp(a) ==
  /\ accountant[a].pc = "asking"
  /\ \E n \in accountant[a].todo : \E found \in {bill[n], "unavailable"} :
       /\ charge' = [charge EXCEPT ![n].found = found]
       /\ accountant' = [accountant EXCEPT ![a].todo = @ \ {n}, ![a].rows[n] = found]
  /\ UNCHANGED <<desk, mission, source, verdict, bill, moved>>

Refreshed(a) == Overall(Range(accountant[a].rows))
FinishReconcileAnytime(a) ==
  /\ accountant[a].pc = "asking" /\ accountant[a].todo = {}
  /\ accountant' = [accountant EXCEPT ![a] = Resting]
  /\ verdict' = IF verdict # None THEN Refreshed(a) ELSE verdict
  /\ UNCHANGED <<desk, mission, source, charge, bill, moved>>
FinishReconcile(a) ==
  /\ accountant[a].pc = "asking" /\ accountant[a].todo = {}
  /\ accountant' = [accountant EXCEPT ![a] = Resting]
  /\ verdict' = IF /\ accountant[a].seen # None /\ Refreshed(a) # accountant[a].seen
                THEN Refreshed(a) ELSE verdict
  /\ UNCHANGED <<desk, mission, source, charge, bill, moved>>

Next ==
  \/ \E c \in Callers : Submit(c) \/ ReadSource(c) \/ Store(c)
  \/ \E n \in Judging : Invoke(n)
  \/ \E a \in Accountants : StartReconcile(a) \/ LookUp(a) \/ FinishReconcile(a)
  \/ Complete \/ SourceMoves
Spec == Init /\ [][Next]_vars

-------------------------------------------------------------------------------
Items == [source : Sources, content : Contents]
Rows == [Judging -> [at : {"none", "failed", "priced", "unpriced"}, found : Found]]
TypeOK ==
  /\ \A c \in Callers :
       /\ desk[c].pc \in {"idle", "reading"} /\ desk[c].body \in Submissions \cup {None}
       /\ desk[c].items \subseteq Items
  /\ mission # None => mission.body \in Submissions /\ mission.items \subseteq Items
  /\ source \in [Sources -> Contents \cup {None}]
  /\ charge \in Rows
  /\ verdict \in Found \cup {"mixed", None}
  /\ \A a \in Accountants : accountant[a].todo \subseteq Judging

(* A body that compiles never meets a refusal of the router, whose checks    *)
(* repeat the compiler's at the last point before nodes become durable; and *)
(* what is stored is a mission that may run: effects lie behind the human   *)
(* checkpoint, exact work is done by exact workers, money is spent only     *)
(* where the body named the priced provider, every source it requires is in *)
(* the bundle, and a real write comes with its undo.                        *)
Before(b, one, other) ==
  \E i, j \in DOMAIN Stages(b) : i < j /\ one \in Stages(b)[i] /\ other \in Stages(b)[j]
MayRun(b, items, plan) ==
  /\ \A cap \in DOMAIN plan :
       /\ cap \in b.allowed /\ cap \notin b.forbidden
       /\ Capability[cap].effect # "none" => Before(b, Checkpoint, cap)
       /\ plan[cap].worker = "model_worker" => Capability[cap].judged
       /\ plan[cap].binding \notin {None, "local"} =>
            [cap |-> cap, binding |-> plan[cap].binding] \in b.bindings
       /\ Capability[cap].effect = "external" => Connector.compensate
  /\ \A r \in Range(b.context) : r.required => \E i \in items : i.source = r.source
AdmittedMissionsRun ==
  /\ \A c \in Callers : desk[c].pc = "reading" =>
       \A cap \in PlanNodes(desk[c].body) : Routable(desk[c].body, cap)
  /\ mission # None => MayRun(mission.body, mission.items, mission.plan)

(* A mission reads as matched only if the provider's record agrees with      *)
(* every charge of it, whichever reconciliation wrote the verdict and       *)
(* whatever it had read before it asked.                                    *)
VerdictIsBacked == verdict = "matched" => \A n \in Billed(charge) : bill[n] = "matched"

(* The time budget of an admitted mission covers its plan, node by node: the *)
(* compiler refuses a budget below "the bound of the plan actually being     *)
(* compiled" (agenticIntentCompiler.ts:837).                                *)
PlanFitsBudget == mission # None => Deadline(mission.body, mission.plan) <= mission.body.time
=================================================================================
