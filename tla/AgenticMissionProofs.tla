-------------------------- MODULE AgenticMissionProofs --------------------------
(***************************************************************************)
(* Machine-checked proofs about AgenticMission, for any plans, requests and *)
(* bounds: types, the Runtime claims, what a write needs, and what a        *)
(* completed mission shows.                                                 *)
(***************************************************************************)
EXTENDS AgenticMission, TLAPS

Names == {"N1", "N2", "N3", "N4", "N5", "N6", "N7", "N8", "X1", "X2", "X3", "X4", "X5", "X6", "X7"}
NodeStates == DOMAIN NodeNext
PlanStates == DOMAIN PlanNext
Findings == {"found", "absent", "conflict"}

-------------------------------------------------------------------------------
(* The savepoints a request may have before it.                            *)

Sets == {<<>>} \cup [attempts : 1..3] \cup [out : Results] \cup [finding : Findings] \cup
        {[candidate |-> TRUE], [approved |-> TRUE], [artifact |-> TRUE]}
Steps == [do : {"node", "plan", "note", "converge", "revive", "retire", "audit"},
          id : Names \cup {None}, to : NodeStates \cup PlanStates \cup {None}, set : Sets]

(* Whose success shows that the outside world was written.                 *)
Witness(n) == \/ kind = "artifact" /\ n = "N8"
              \/ kind = "live" /\ n = "X5"
              \/ kind = "compensated" /\ n = "X4"
Lookless(n) == kind = "compensated" /\ n \in {"X4", "X6"}
ResultRight(n, result) ==
  /\ result \in Results
  /\ Witness(n) /\ result = "ok" => world.writes > 0 /\ (kind = "artifact" => plan.artifact)
  /\ kind = "compensated" /\ n = "X4" => result \in {None, "ok", "error", "unavailable"}
CompletionRight(n, out) ==
  /\ ResultRight(n, out)
  /\ kind = "compensated" /\ n = "X4" => out = "ok" /\ worker[n].recorded # None

(* The artifact's writer has said what it did.                              *)
Noted == kind = "artifact" /\ worker["N7"].recorded # None

NodeStepRight(s) ==
  /\ s.id \in Nodes(kind) /\ s.to \in NodeStates
  /\ s.set \in {<<>>} \cup [attempts : 1..AttemptLimit(Runs(s.id))] \cup [out : Results]
  /\ s.to = "ready" => DependenciesDone(node, s.id)
  /\ IF s.to = "completed" THEN "out" \in DOMAIN s.set /\ CompletionRight(s.id, s.set.out)
     ELSE "out" \in DOMAIN s.set => s.to = "failed_terminal" /\ Runs(s.id) = "verify_claims"
StepRight(s) ==
  CASE s.do = "node" -> NodeStepRight(s)
    [] s.do = "plan" -> s.to \in PlanStates
    [] s.do = "note" -> /\ s.set \in {[candidate |-> TRUE], [approved |-> TRUE], [artifact |-> TRUE]}
                        /\ "artifact" \in DOMAIN s.set => Noted
    [] s.do = "converge" -> s.to \in {"reconciliation_required", "failed_recoverable"}
    [] s.do = "revive" -> s.to = "running"
    [] s.do = "retire" -> s.id \in Nodes(kind) /\ ~Live(s.id)
    [] s.do = "audit" -> s.id \in Nodes(kind) /\ s.set \in [finding : Findings] /\ ~Lookless(s.id)
Right == {s \in Steps : StepRight(s)}

(* A mission is finished by its terminal verifier's success alone.          *)
Final == NodeTo(TerminalVerifier(kind), "completed", [out |-> "ok"])
Completing(s) == s.do = "plan" /\ s.to = "completed"
Closed == {s \in Seq(Right) : \A i \in DOMAIN s : Completing(s[i]) => \E j \in 1..(i - 1) : s[j] = Final}
Finished == node[TerminalVerifier(kind)].state = "completed" /\ node[TerminalVerifier(kind)].out = "ok"
ScriptInv == /\ script \in Seq(Right) /\ (Finished \/ script \in Closed)
             /\ plan.status = "completed" => Finished

-------------------------------------------------------------------------------
(* Rows, workers and the world.                                            *)

Rows == [state : NodeStates, attempts : 0..3, out : Results, finding : Findings \cup {None}]
NodesInv ==
  /\ kind \in Kinds
  /\ node \in [Nodes(kind) -> Rows]
  /\ plan \in [status : PlanStates, candidate : BOOLEAN, approved : BOOLEAN, artifact : BOOLEAN]
  /\ plan.artifact => Noted
  /\ \A n \in Nodes(kind) :
       /\ node[n].attempts <= AttemptLimit(Runs(n))
       /\ node[n].state \notin {"blocked", "cancelled", "failed_terminal"} => DependenciesDone(node, n)
       /\ node[n].state = "completed" => CompletionRight(n, node[n].out)
       /\ node[n].out # None => node[n].state = "completed" \/ Runs(n) = "verify_claims"
       /\ Lookless(n) => node[n].finding = None

JobRight(r, n) ==
  /\ job[r][n].at \in {"none", "starting", "claimed", "acted", "done"}
  /\ job[r][n].at # "none" => n # Checkpoint(kind)
  /\ ResultRight(n, job[r][n].result)
  /\ job[r][n].at \in {"acted", "done"} => job[r][n].result # None
  /\ job[r][n].at = "done" /\ job[r][n].result \notin {"error", "unavailable"} => worker[n].recorded # None
  /\ Acting(r, n) => /\ worker[n].claimed /\ worker[n].recorded = None
                     /\ \A q \in Requests : Acting(q, n) => q = r
WorkersInv ==
  /\ worker \in [Nodes(kind) -> [claimed : BOOLEAN, recorded : Results]]
  /\ \A n \in Nodes(kind) : ResultRight(n, worker[n].recorded)
  /\ job \in [Requests -> [Nodes(kind) -> [at : {"none", "starting", "claimed", "acted", "done"}, result : Results]]]
  /\ \A r \in Requests, n \in Nodes(kind) : JobRight(r, n)

WorldRight(w) ==
  /\ w \in [source : {"initial", "ours", "edited", "other", "gone"}, writes : Nat, expired : BOOLEAN]
  /\ w.writes > 0 => plan.candidate /\ plan.approved
  /\ kind # "artifact" => w.writes <= 1
  /\ kind = "shadow" => w.writes = 0
  /\ w.source \in {"ours", "edited", "gone"} => w.writes > 0
  /\ kind = "compensated" /\ w.source = "initial" => w.writes = 0
  /\ kind = "compensated" /\ w.source = "gone" => node["X4"].state = "completed"
  /\ kind # "compensated" => w.source # "gone"
WorldInv == WorldRight(world)

-------------------------------------------------------------------------------
(* Requests.                                                               *)

Frames == [pc : {"idle", "compiling", "tick", "governing", "launch", "batch", "resume", "stopping"},
           todo : Seq(Nodes(kind)), snap : {<<>>} \cup [Nodes(kind) -> Rows],
           batch : SUBSET (Nodes(kind) \ {Checkpoint(kind)}), aim : Nodes(kind) \cup {None}]
FrameRight(f) ==
  /\ f \in Frames
  /\ f.pc \in {"governing", "stopping"} => f.snap # <<>>
  /\ f.pc = "stopping" => f.aim # None
  /\ f.pc = "resume" => f.todo # <<>>
FramesInv ==
  /\ frame = [r \in Requests |-> frame[r]] /\ \A r \in Requests : FrameRight(frame[r])
  /\ turn \in Requests \cup {None}
  /\ turn = None => script = <<>>
  /\ turn # None => \/ frame[turn].pc \in {"tick", "launch", "resume"}
                    \/ frame[turn].pc = "idle" /\ script # <<>>

Inv == FramesInv /\ ScriptInv /\ NodesInv /\ WorkersInv /\ WorldInv

-------------------------------------------------------------------------------
(* Steps for each of some nodes, put one after the other. *)
LEMMA ForEachIn ==
    ASSUME NEW X, NEW f, <<>> \in X, \A s, t \in X : s \o t \in X, \A n \in DOMAIN f : f[n] \in X
    PROVE  ForEach(f) \in X
<1> DEFINE Of(n) == IF n \in DOMAIN f THEN f[n] ELSE <<>>
<1>1. \A n : Of(n) \in X
  OBVIOUS
<1>2. ForEach(f) = Of("N1") \o Of("N2") \o Of("N3") \o Of("N4") \o Of("N5") \o Of("N6") \o Of("N7") \o Of("N8") \o Of("X1") \o Of("X2") \o Of("X3") \o Of("X4") \o Of("X5") \o Of("X6") \o Of("X7")
  BY DEF ForEach
<1> HIDE DEF Of
<1>3. PICK p : p = Of("N1") \o Of("N2") \o Of("N3") \o Of("N4") \o Of("N5")
  OBVIOUS
<1>4. p \in X
  BY <1>1, <1>3
<1>5. PICK q : q = p \o Of("N6") \o Of("N7") \o Of("N8") \o Of("X1") \o Of("X2")
  OBVIOUS
<1>6. q \in X
  BY <1>1, <1>4, <1>5
<1>7. q \o Of("X3") \o Of("X4") \o Of("X5") \o Of("X6") \o Of("X7") \in X
  BY <1>1, <1>6
<1> QED
  BY <1>2, <1>3, <1>5, <1>7

(* One node's steps are somewhere among them. *)
LEMMA ForEachHas ==
    ASSUME NEW U, NEW X, NEW f, NEW n \in Names, n \in DOMAIN f, f[n] \in X,
           <<>> \in U, \A s, t \in U : s \o t \in U, \A m \in DOMAIN f : f[m] \in U,
           X \subseteq U, \A s \in X, t \in U : s \o t \in X /\ t \o s \in X
    PROVE  ForEach(f) \in X
<1> DEFINE Of(m) == IF m \in DOMAIN f THEN f[m] ELSE <<>>
<1>1. (\A m : Of(m) \in U) /\ Of(n) \in X
  OBVIOUS
<1>2. ForEach(f) = Of("N1") \o Of("N2") \o Of("N3") \o Of("N4") \o Of("N5") \o Of("N6") \o Of("N7") \o Of("N8") \o Of("X1") \o Of("X2") \o Of("X3") \o Of("X4") \o Of("X5") \o Of("X6") \o Of("X7")
  BY DEF ForEach
<1> HIDE DEF Of
<1>3. PICK p : p = Of("N1") \o Of("N2") \o Of("N3")
  OBVIOUS
<1>4. p \in U /\ (n \in {"N1", "N2", "N3"} => p \in X)
  BY <1>1, <1>3
<1>5. PICK q : q = p \o Of("N4") \o Of("N5") \o Of("N6")
  OBVIOUS
<1>6. q \in U /\ (n \in {"N1", "N2", "N3", "N4", "N5", "N6"} => q \in X)
  BY <1>1, <1>5, <1>4
<1>7. PICK r : r = q \o Of("N7") \o Of("N8") \o Of("X1")
  OBVIOUS
<1>8. r \in U /\ (n \in {"N1", "N2", "N3", "N4", "N5", "N6", "N7", "N8", "X1"} => r \in X)
  BY <1>1, <1>7, <1>6
<1>9. PICK t : t = r \o Of("X2") \o Of("X3") \o Of("X4")
  OBVIOUS
<1>10. t \in U /\ (n \in {"N1", "N2", "N3", "N4", "N5", "N6", "N7", "N8", "X1", "X2", "X3", "X4"} => t \in X)
  BY <1>1, <1>9, <1>8
<1>11. PICK w : w = t \o Of("X5") \o Of("X6") \o Of("X7")
  OBVIOUS
<1>12. w \in U /\ (n \in {"N1", "N2", "N3", "N4", "N5", "N6", "N7", "N8", "X1", "X2", "X3", "X4", "X5", "X6", "X7"} => w \in X)
  BY <1>1, <1>11, <1>10
<1> QED
  BY <1>2, <1>3, <1>4, <1>5, <1>6, <1>7, <1>8, <1>9, <1>10, <1>11, <1>12 DEF Names

(* What is known of the four plans. *)
KindRight == kind \in {"artifact", "live", "compensated", "shadow"}
Caps == {"collect", "specialist", "verify_claims", "synthesize", "authority", "artifact_write", "artifact_verify",
         "observe", "compile", "apply", "outcome_verify", "compensate", "absence_verify", "shadow_authorize",
         "shadow_verify"}
LEMMA ArtifactFacts ==
    ASSUME kind = "artifact"
    PROVE  /\ Nodes(kind) = {"N1", "N2", "N3", "N4", "N5", "N6", "N7", "N8"}
           /\ Plan(kind) = ArtifactPlan /\ TerminalVerifier(kind) = "N8" /\ Checkpoint(kind) = "N6"
           /\ Composes(kind) = "N5"
           /\ Runs("N1") = "collect" /\ Runs("N2") = "specialist" /\ Runs("N3") = "specialist"
           /\ Runs("N4") = "verify_claims" /\ Runs("N5") = "synthesize" /\ Runs("N6") = "authority"
           /\ Runs("N7") = "artifact_write" /\ Runs("N8") = "artifact_verify"
           /\ \A n \in Nodes(kind) : Plan(kind)[n].needs \subseteq Nodes(kind)
<1>1. Plan(kind) = ArtifactPlan
  BY DEF Plan
<1>2. Nodes(kind) = {"N1", "N2", "N3", "N4", "N5", "N6", "N7", "N8"}
  BY <1>1 DEF Nodes, ArtifactPlan
<1>3. \A n \in Nodes(kind) : Plan(kind)[n].needs \subseteq Nodes(kind)
  BY <1>1, <1>2 DEF ArtifactPlan, N
<1> QED
  BY <1>1, <1>2, <1>3 DEF ArtifactPlan, N, Runs, TerminalVerifier, Checkpoint, Composes
LEMMA LiveFacts ==
    ASSUME kind = "live"
    PROVE  /\ Nodes(kind) = {"X1", "X2", "X3", "X4", "X5"}
           /\ Plan(kind) = LivePlan /\ TerminalVerifier(kind) = "X5" /\ Checkpoint(kind) = "X3"
           /\ Composes(kind) = "X2"
           /\ Runs("X1") = "observe" /\ Runs("X2") = "compile" /\ Runs("X3") = "authority"
           /\ Runs("X4") = "apply" /\ Runs("X5") = "outcome_verify"
           /\ \A n \in Nodes(kind) : Plan(kind)[n].needs \subseteq Nodes(kind)
<1>1. Plan(kind) = LivePlan
  BY DEF Plan
<1>2. Nodes(kind) = {"X1", "X2", "X3", "X4", "X5"}
  BY <1>1 DEF Nodes, LivePlan
<1>3. \A n \in Nodes(kind) : Plan(kind)[n].needs \subseteq Nodes(kind)
  BY <1>1, <1>2 DEF LivePlan, N
<1> QED
  BY <1>1, <1>2, <1>3 DEF LivePlan, N, Runs, TerminalVerifier, Checkpoint, Composes
LEMMA CompensatedFacts ==
    ASSUME kind = "compensated"
    PROVE  /\ Nodes(kind) = {"X1", "X2", "X3", "X4", "X5", "X6", "X7"}
           /\ Plan(kind) = CompensatedPlan /\ TerminalVerifier(kind) = "X7" /\ Checkpoint(kind) = "X3"
           /\ Composes(kind) = "X2"
           /\ Runs("X1") = "observe" /\ Runs("X2") = "compile" /\ Runs("X3") = "authority"
           /\ Runs("X4") = "apply" /\ Runs("X5") = "outcome_verify"
           /\ Runs("X6") = "compensate" /\ Runs("X7") = "absence_verify"
           /\ \A n \in Nodes(kind) : Plan(kind)[n].needs \subseteq Nodes(kind)
<1>1. Plan(kind) = CompensatedPlan
  BY DEF Plan
<1>2. Nodes(kind) = {"X1", "X2", "X3", "X4", "X5", "X6", "X7"}
  BY <1>1 DEF Nodes, CompensatedPlan
<1>3. \A n \in Nodes(kind) : Plan(kind)[n].needs \subseteq Nodes(kind)
  BY <1>1, <1>2 DEF CompensatedPlan, N
<1> QED
  BY <1>1, <1>2, <1>3 DEF CompensatedPlan, N, Runs, TerminalVerifier, Checkpoint, Composes
LEMMA ShadowFacts ==
    ASSUME kind = "shadow"
    PROVE  /\ Nodes(kind) = {"X1", "X2", "X3", "X4", "X5"}
           /\ Plan(kind) = ShadowPlan /\ TerminalVerifier(kind) = "X5" /\ Checkpoint(kind) = "X3"
           /\ Composes(kind) = "X2"
           /\ Runs("X1") = "observe" /\ Runs("X2") = "compile" /\ Runs("X3") = "authority"
           /\ Runs("X4") = "shadow_authorize" /\ Runs("X5") = "shadow_verify"
           /\ \A n \in Nodes(kind) : Plan(kind)[n].needs \subseteq Nodes(kind)
<1>1. Plan(kind) = ShadowPlan
  BY DEF Plan
<1>2. Nodes(kind) = {"X1", "X2", "X3", "X4", "X5"}
  BY <1>1 DEF Nodes, ShadowPlan
<1>3. \A n \in Nodes(kind) : Plan(kind)[n].needs \subseteq Nodes(kind)
  BY <1>1, <1>2 DEF ShadowPlan, N
<1> QED
  BY <1>1, <1>2, <1>3 DEF ShadowPlan, N, Runs, TerminalVerifier, Checkpoint, Composes

LEMMA PlanFacts ==
    ASSUME KindRight
    PROVE  /\ Nodes(kind) \subseteq Names /\ None \notin Nodes(kind)
           /\ TerminalVerifier(kind) \in Nodes(kind) /\ Checkpoint(kind) \in Nodes(kind)
           /\ Composes(kind) \in Nodes(kind)
           /\ \A n \in Nodes(kind) : Runs(n) = "authority" <=> n = Checkpoint(kind)
           /\ \A n \in Nodes(kind) : Plan(kind)[n].needs \subseteq Nodes(kind)
           /\ \A n \in Nodes(kind) : Runs(n) \in Caps
           /\ \A n \in Names : Witness(n) => n \in Nodes(kind) /\ Runs(n) \notin {"verify_claims", "authority"}
           /\ ~Witness(Checkpoint(kind))
<1>1. None \notin Names
  BY DEF None, Names
<1>2. CASE kind = "artifact"
  BY <1>1, <1>2, ArtifactFacts DEF Names, Caps, Witness
<1>3. CASE kind = "live"
  BY <1>1, <1>3, LiveFacts DEF Names, Caps, Witness
<1>4. CASE kind = "compensated"
  BY <1>1, <1>4, CompensatedFacts DEF Names, Caps, Witness
<1>5. CASE kind = "shadow"
  BY <1>1, <1>5, ShadowFacts DEF Names, Caps, Witness
<1> QED
  BY <1>2, <1>3, <1>4, <1>5 DEF KindRight

LEMMA KindOf == ASSUME NodesInv PROVE KindRight
BY BoundsAssumption DEF NodesInv, KindRight

(* How a row is updated. *)
LEMMA Updated ==
    ASSUME NEW f, NEW set, NEW x \in DOMAIN f
    PROVE  /\ DOMAIN Update(f, set) = DOMAIN f
           /\ Update(f, set)[x] = IF x \in DOMAIN set THEN set[x] ELSE f[x]
BY DEF Update

(* A request that goes on keeps a usable frame. *)
LEMMA FrameUpdated ==
    ASSUME NEW f \in Frames, NEW set,
           "pc" \in DOMAIN set => set.pc \in {"idle", "compiling", "tick", "governing", "launch", "batch", "resume", "stopping"},
           "todo" \in DOMAIN set => set.todo \in Seq(Nodes(kind)),
           "snap" \in DOMAIN set => set.snap \in {<<>>} \cup [Nodes(kind) -> Rows],
           "batch" \in DOMAIN set => set.batch \subseteq Nodes(kind) \ {Checkpoint(kind)},
           "aim" \in DOMAIN set => set.aim \in Nodes(kind) \cup {None}
    PROVE  Update(f, set) \in Frames
<1> DEFINE g == [x \in {"pc", "todo", "snap", "batch", "aim"} |-> IF x \in DOMAIN set THEN set[x] ELSE f[x]]
<1>1. DOMAIN f = {"pc", "todo", "snap", "batch", "aim"}
  BY DEF Frames
<1>2. Update(f, set) = g
  BY <1>1 DEF Update
<1>3. /\ g.pc \in {"idle", "compiling", "tick", "governing", "launch", "batch", "resume", "stopping"}
      /\ g.todo \in Seq(Nodes(kind)) /\ g.snap \in {<<>>} \cup [Nodes(kind) -> Rows]
      /\ g.batch \subseteq Nodes(kind) \ {Checkpoint(kind)} /\ g.aim \in Nodes(kind) \cup {None}
  BY DEF Frames
<1>4. g = [pc |-> g.pc, todo |-> g.todo, snap |-> g.snap, batch |-> g.batch, aim |-> g.aim]
  OBVIOUS
<1> HIDE DEF g
<1>5. g \in Frames
  BY <1>3, <1>4 DEF Frames
<1> QED
  BY <1>2, <1>5

LEMMA FrameMoves ==
    ASSUME NEW f, FrameRight(f)
    PROVE  /\ \A p \in {"compiling", "tick"} : FrameRight(Update(f, [pc |-> p]))
           /\ \A s \in [Nodes(kind) -> Rows] : s # <<>> => FrameRight(Update(f, [pc |-> "governing", snap |-> s]))
           /\ f.todo # <<>> => FrameRight(Update(f, [pc |-> "resume", snap |-> <<>>]))
           /\ \A A \in SUBSET (Nodes(kind) \ {Checkpoint(kind)}) : FrameRight(Update(f, [pc |-> "launch", batch |-> A]))
           /\ FrameRight(Update(f, [pc |-> "batch", snap |-> <<>>]))
           /\ FrameRight(Update(f, [pc |-> "tick", batch |-> {}]))
           /\ \A t \in Seq(Nodes(kind)) : FrameRight(Update(f, [pc |-> "tick", todo |-> t]))
           /\ \A t \in Seq(Nodes(kind)) \ {<<>>} : FrameRight(Update(f, [pc |-> "resume", todo |-> t]))
           /\ \A n \in Nodes(kind), s \in [Nodes(kind) -> Rows] :
                n # None /\ s # <<>> => FrameRight(Update(f, [pc |-> "stopping", aim |-> n, snap |-> s]))
<1>1. f \in Frames /\ DOMAIN f = {"pc", "todo", "snap", "batch", "aim"}
  BY DEF FrameRight, Frames
<1>2. \A p \in {"compiling", "tick"} : FrameRight(Update(f, [pc |-> p]))
  <2> SUFFICES ASSUME NEW p \in {"compiling", "tick"} PROVE FrameRight(Update(f, [pc |-> p]))
    OBVIOUS
  <2>1. Update(f, [pc |-> p]) \in Frames
    BY <1>1, FrameUpdated
  <2>2. Update(f, [pc |-> p]).pc = p
    BY <1>1 DEF Update
  <2> QED
    BY <2>1, <2>2 DEF FrameRight
<1>3. \A s \in [Nodes(kind) -> Rows] : s # <<>> => FrameRight(Update(f, [pc |-> "governing", snap |-> s]))
  <2> SUFFICES ASSUME NEW s \in [Nodes(kind) -> Rows], s # <<>> PROVE FrameRight(Update(f, [pc |-> "governing", snap |-> s]))
    OBVIOUS
  <2>1. Update(f, [pc |-> "governing", snap |-> s]) \in Frames
    BY <1>1, FrameUpdated
  <2>2. Update(f, [pc |-> "governing", snap |-> s]).pc = "governing" /\ Update(f, [pc |-> "governing", snap |-> s]).snap = s
    BY <1>1 DEF Update
  <2> QED
    BY <2>1, <2>2 DEF FrameRight
<1>4. f.todo # <<>> => FrameRight(Update(f, [pc |-> "resume", snap |-> <<>>]))
  <2> SUFFICES ASSUME f.todo # <<>> PROVE FrameRight(Update(f, [pc |-> "resume", snap |-> <<>>]))
    OBVIOUS
  <2>1. Update(f, [pc |-> "resume", snap |-> <<>>]) \in Frames
    BY <1>1, FrameUpdated
  <2>2. Update(f, [pc |-> "resume", snap |-> <<>>]).pc = "resume" /\ Update(f, [pc |-> "resume", snap |-> <<>>]).todo = f.todo
    BY <1>1 DEF Update
  <2> QED
    BY <2>1, <2>2 DEF FrameRight
<1>5. \A A \in SUBSET (Nodes(kind) \ {Checkpoint(kind)}) : FrameRight(Update(f, [pc |-> "launch", batch |-> A]))
  <2> SUFFICES ASSUME NEW A \in SUBSET (Nodes(kind) \ {Checkpoint(kind)}) PROVE FrameRight(Update(f, [pc |-> "launch", batch |-> A]))
    OBVIOUS
  <2>1. Update(f, [pc |-> "launch", batch |-> A]) \in Frames
    BY <1>1, FrameUpdated
  <2>2. Update(f, [pc |-> "launch", batch |-> A]).pc = "launch"
    BY <1>1 DEF Update
  <2> QED
    BY <2>1, <2>2 DEF FrameRight
<1>6. FrameRight(Update(f, [pc |-> "batch", snap |-> <<>>]))
  <2>1. Update(f, [pc |-> "batch", snap |-> <<>>]) \in Frames
    BY <1>1, FrameUpdated
  <2>2. Update(f, [pc |-> "batch", snap |-> <<>>]).pc = "batch"
    BY <1>1 DEF Update
  <2> QED
    BY <2>1, <2>2 DEF FrameRight
<1>7. FrameRight(Update(f, [pc |-> "tick", batch |-> {}]))
  <2>1. Update(f, [pc |-> "tick", batch |-> {}]) \in Frames
    BY <1>1, FrameUpdated
  <2>2. Update(f, [pc |-> "tick", batch |-> {}]).pc = "tick"
    BY <1>1 DEF Update
  <2> QED
    BY <2>1, <2>2 DEF FrameRight
<1>8. \A t \in Seq(Nodes(kind)) : FrameRight(Update(f, [pc |-> "tick", todo |-> t]))
  <2> SUFFICES ASSUME NEW t \in Seq(Nodes(kind)) PROVE FrameRight(Update(f, [pc |-> "tick", todo |-> t]))
    OBVIOUS
  <2>1. Update(f, [pc |-> "tick", todo |-> t]) \in Frames
    BY <1>1, FrameUpdated
  <2>2. Update(f, [pc |-> "tick", todo |-> t]).pc = "tick"
    BY <1>1 DEF Update
  <2> QED
    BY <2>1, <2>2 DEF FrameRight
<1>9. \A t \in Seq(Nodes(kind)) \ {<<>>} : FrameRight(Update(f, [pc |-> "resume", todo |-> t]))
  <2> SUFFICES ASSUME NEW t \in Seq(Nodes(kind)) \ {<<>>} PROVE FrameRight(Update(f, [pc |-> "resume", todo |-> t]))
    OBVIOUS
  <2>1. Update(f, [pc |-> "resume", todo |-> t]) \in Frames
    BY <1>1, FrameUpdated
  <2>2. Update(f, [pc |-> "resume", todo |-> t]).pc = "resume" /\ Update(f, [pc |-> "resume", todo |-> t]).todo = t
    BY <1>1 DEF Update
  <2> QED
    BY <2>1, <2>2 DEF FrameRight
<1>10. \A n \in Nodes(kind), s \in [Nodes(kind) -> Rows] :
                n # None /\ s # <<>> => FrameRight(Update(f, [pc |-> "stopping", aim |-> n, snap |-> s]))
  <2> SUFFICES ASSUME NEW n \in Nodes(kind), NEW s \in [Nodes(kind) -> Rows], n # None, s # <<>> PROVE FrameRight(Update(f, [pc |-> "stopping", aim |-> n, snap |-> s]))
    OBVIOUS
  <2>1. Update(f, [pc |-> "stopping", aim |-> n, snap |-> s]) \in Frames
    BY <1>1, FrameUpdated
  <2>2. Update(f, [pc |-> "stopping", aim |-> n, snap |-> s]).pc = "stopping" /\ Update(f, [pc |-> "stopping", aim |-> n, snap |-> s]).aim = n /\ Update(f, [pc |-> "stopping", aim |-> n, snap |-> s]).snap = s
    BY <1>1 DEF Update
  <2> QED
    BY <2>1, <2>2 DEF FrameRight
<1> QED
  BY <1>2, <1>3, <1>4, <1>5, <1>6, <1>7, <1>8, <1>9, <1>10

-------------------------------------------------------------------------------
(* Savepoints that are right. *)
LEMMA NodeToRight ==
    ASSUME KindRight, NEW n \in Nodes(kind), NEW to, NEW set, NodeStepRight(NodeTo(n, to, set))
    PROVE  NodeTo(n, to, set) \in Right
<1>1. AttemptLimit(Runs(n)) \in 1..3 /\ n \in Names
  BY PlanFacts DEF AttemptLimit
<1>2. set \in Sets /\ to \in NodeStates
  BY <1>1 DEF NodeStepRight, NodeTo, Step, Sets
<1>3. NodeTo(n, to, set) \in Steps
  BY <1>1, <1>2 DEF NodeTo, Step, Steps
<1> QED
  BY <1>3 DEF Right, StepRight, NodeTo, Step

LEMMA OthersRight ==
    ASSUME KindRight
    PROVE  /\ \A to \in PlanStates : PlanTo(to) \in Right
           /\ PlanNote([candidate |-> TRUE]) \in Right /\ PlanNote([approved |-> TRUE]) \in Right
           /\ Noted => PlanNote([artifact |-> TRUE]) \in Right
           /\ \A to \in {"reconciliation_required", "failed_recoverable"} : Converge(to) \in Right
           /\ Revive \in Right
           /\ \A n \in Nodes(kind) : ~Live(n) => Retire(n) \in Right
           /\ \A n \in Nodes(kind), found \in Findings : ~Lookless(n) => Audit(n, found) \in Right
<1>1. \A to \in PlanStates : PlanTo(to) \in Right
  BY DEF PlanTo, Step, Steps, Right, StepRight, Sets
<1>2. /\ PlanNote([candidate |-> TRUE]) \in Right /\ PlanNote([approved |-> TRUE]) \in Right
      /\ Noted => PlanNote([artifact |-> TRUE]) \in Right
  <2>1. \A set \in {[candidate |-> TRUE], [approved |-> TRUE], [artifact |-> TRUE]} :
          PlanNote(set) \in Steps /\ PlanNote(set).do = "note" /\ PlanNote(set).set = set
    BY DEF PlanNote, Step, Steps, Sets
  <2>2. "artifact" \notin DOMAIN [candidate |-> TRUE] /\ "artifact" \notin DOMAIN [approved |-> TRUE]
    OBVIOUS
  <2> QED
    BY <2>1, <2>2 DEF Right, StepRight
<1>3. \A to \in {"reconciliation_required", "failed_recoverable"} : Converge(to) \in Right
  BY DEF Converge, Step, Steps, Right, StepRight, Sets, PlanStates, PlanNext
<1>4. Revive \in Right
  BY DEF Revive, Step, Steps, Right, StepRight, Sets, PlanStates, PlanNext
<1>5. \A n \in Nodes(kind) : ~Live(n) => Retire(n) \in Right
  BY PlanFacts DEF Retire, Step, Steps, Right, StepRight, Sets
<1>6. \A n \in Nodes(kind), found \in Findings : ~Lookless(n) => Audit(n, found) \in Right
  BY PlanFacts DEF Audit, Step, Steps, Right, StepRight, Sets
<1> QED
  BY <1>1, <1>2, <1>3, <1>4, <1>5, <1>6

(* What completes the mission. *)
LEMMA WhatCompletes ==
    /\ \A n, to, set : ~Completing(NodeTo(n, to, set))
    /\ \A to : Completing(PlanTo(to)) <=> to = "completed"
    /\ \A set : ~Completing(PlanNote(set))
    /\ \A to : ~Completing(Converge(to))
    /\ \A n, found : ~Completing(Retire(n)) /\ ~Completing(Audit(n, found))
    /\ ~Completing(Revive) /\ ~Completing(Final)
BY DEF Completing, NodeTo, PlanTo, PlanNote, Converge, Retire, Audit, Revive, Final, Step

-------------------------------------------------------------------------------
(* Scripts: completion only after the terminal verifier's success. *)
LEMMA ClosedNone == <<>> \in Closed
<1>1. <<>> \in Seq(Right) /\ DOMAIN <<>> = {}
  OBVIOUS
<1> QED
  BY <1>1 DEF Closed

LEMMA ClosedOne == ASSUME NEW s \in Right, ~Completing(s) PROVE <<s>> \in Closed
<1>1. <<s>> \in Seq(Right) /\ DOMAIN <<s>> = {1} /\ <<s>>[1] = s
  OBVIOUS
<1> QED
  BY <1>1 DEF Closed

LEMMA ClosedCat == ASSUME NEW s \in Closed, NEW t \in Closed PROVE s \o t \in Closed
<1> DEFINE u == s \o t
<1>1. s \in Seq(Right) /\ t \in Seq(Right)
  BY DEF Closed
<1>2. u \in Seq(Right) /\ Len(u) = Len(s) + Len(t)
      /\ (\A i \in 1..Len(s) : u[i] = s[i]) /\ (\A i \in 1..Len(t) : u[Len(s) + i] = t[i])
  BY <1>1
<1>3. DOMAIN u = 1..Len(u) /\ DOMAIN s = 1..Len(s) /\ DOMAIN t = 1..Len(t) /\ Len(s) \in Nat /\ Len(t) \in Nat
  BY <1>1, <1>2
<1> HIDE DEF u
<1>4. ASSUME NEW i \in DOMAIN u, Completing(u[i]) PROVE \E j \in 1..(i - 1) : u[j] = Final
  <2>1. CASE i <= Len(s)
    <3>1. i \in DOMAIN s /\ Completing(s[i])
      BY <1>2, <1>3, <1>4, <2>1
    <3>2. PICK j \in 1..(i - 1) : s[j] = Final
      BY <3>1 DEF Closed
    <3>3. j \in 1..Len(s)
      BY <1>3, <2>1, <3>2
    <3> QED
      BY <1>2, <3>2, <3>3
  <2>2. CASE i > Len(s)
    <3>1. PICK k \in DOMAIN t : i = Len(s) + k
      <4>1. i - Len(s) \in 1..Len(t) /\ i = Len(s) + (i - Len(s))
        BY <1>2, <1>3, <2>2
      <4> QED
        BY <4>1, <1>3
    <3>2. Completing(t[k])
      BY <1>2, <1>3, <1>4, <3>1
    <3>3. PICK j \in 1..(k - 1) : t[j] = Final
      BY <3>1, <3>2 DEF Closed
    <3>4. Len(s) + j \in 1..(i - 1) /\ u[Len(s) + j] = Final
      BY <1>2, <1>3, <3>1, <3>3
    <3> QED
      BY <3>4
  <2> QED
    BY <2>1, <2>2, <1>3
<1> QED
  BY <1>2, <1>4 DEF Closed, u

(* The last savepoint of a mission whose terminal verifier succeeded. *)
LEMMA ClosedEnd ==
    ASSUME NEW s \in Closed, NEW i \in DOMAIN s, s[i] = Final, NEW x \in Right
    PROVE  s \o <<x>> \in Closed
<1> DEFINE u == s \o <<x>>
<1>1. s \in Seq(Right)
  BY DEF Closed
<1>2. u \in Seq(Right) /\ Len(u) = Len(s) + 1 /\ (\A k \in 1..Len(s) : u[k] = s[k])
  BY <1>1
<1>3. DOMAIN u = 1..Len(u) /\ DOMAIN s = 1..Len(s) /\ Len(s) \in Nat
  BY <1>1, <1>2
<1> HIDE DEF u
<1>4. ASSUME NEW k \in DOMAIN u, Completing(u[k]) PROVE \E j \in 1..(k - 1) : u[j] = Final
  <2>1. CASE k <= Len(s)
    <3>1. k \in DOMAIN s /\ Completing(s[k])
      BY <1>2, <1>3, <1>4, <2>1
    <3>2. PICK j \in 1..(k - 1) : s[j] = Final
      BY <3>1 DEF Closed
    <3> QED
      BY <1>2, <1>3, <2>1, <3>2
  <2>2. CASE k = Len(s) + 1
    BY <1>2, <1>3, <2>2
  <2> QED
    BY <1>2, <1>3, <2>1, <2>2
<1> QED
  BY <1>2, <1>4 DEF Closed, u

(* Committing the first savepoint of a script leaves the rest of it closed. *)
LEMMA ClosedTail ==
    ASSUME NEW s \in Closed, s # <<>>
    PROVE  /\ Head(s) \in Right /\ ~Completing(Head(s)) /\ Tail(s) \in Seq(Right)
           /\ Head(s) # Final => Tail(s) \in Closed
<1>1. s \in Seq(Right)
  BY DEF Closed
<1>2. Head(s) = s[1] /\ 1 \in DOMAIN s /\ Head(s) \in Right /\ Tail(s) \in Seq(Right)
      /\ \A i \in DOMAIN Tail(s) : i + 1 \in DOMAIN s /\ i \in Nat \ {0} /\ Tail(s)[i] = s[i + 1]
  BY <1>1
<1>3. ~Completing(Head(s))
  BY <1>2 DEF Closed
<1>4. ASSUME Head(s) # Final, NEW i \in DOMAIN Tail(s), Completing(Tail(s)[i])
      PROVE  \E j \in 1..(i - 1) : Tail(s)[j] = Final
  <2>1. PICK j \in 1..i : s[j] = Final
    BY <1>2, <1>4 DEF Closed
  <2>2. j # 1
    BY <1>2, <1>4, <2>1
  <2>3. j - 1 \in 1..(i - 1) /\ j - 1 \in DOMAIN Tail(s) /\ j = (j - 1) + 1
    <3>1. j \in 2..i
      BY <1>2, <2>1, <2>2
    <3>2. DOMAIN Tail(s) = 1..Len(Tail(s)) /\ Len(Tail(s)) \in Nat
      BY <1>2
    <3> QED
      BY <1>2, <1>4, <3>1, <3>2
  <2> QED
    BY <1>2, <2>1, <2>3
<1> QED
  BY <1>2, <1>3, <1>4 DEF Closed

-------------------------------------------------------------------------------
(* What no step takes back: a node's completion, a write, the artifact's row, *)
(* a recorded result.                                                        *)
Standing ==
  /\ kind' = kind
  /\ \A n \in Nodes(kind) : node[n].state = "completed" => node'[n].state = "completed"
  /\ world.writes > 0 => world'.writes > 0
  /\ plan.artifact => plan'.artifact
  /\ \A n \in Nodes(kind) : worker[n].recorded # None => worker'[n].recorded # None

LEMMA RunsStay == ASSUME kind' = kind PROVE \A n : Runs(n)' = Runs(n)
BY DEF Runs

LEMMA ResultStays ==
    ASSUME Standing, NEW n, NEW result, ResultRight(n, result)
    PROVE  ResultRight(n, result)'
BY DEF Standing, ResultRight, Witness

LEMMA NotedStays == ASSUME Standing, Noted PROVE Noted'
BY ArtifactFacts DEF Standing, Noted

LEMMA CompletionStays ==
    ASSUME Standing, NEW n \in Nodes(kind), NEW out, CompletionRight(n, out)
    PROVE  CompletionRight(n, out)'
BY ResultStays DEF Standing, CompletionRight

LEMMA DoneStays ==
    ASSUME KindRight, Standing, NEW n \in Nodes(kind), DependenciesDone(node, n)
    PROVE  DependenciesDone(node, n)'
BY PlanFacts DEF Standing, DependenciesDone

LEMMA RightStays ==
    ASSUME KindRight, Standing, \A n \in Nodes(kind) : ~Live(n) => ~Live(n)', NEW s \in Right
    PROVE  s \in Right'
<1>1. s \in Steps /\ StepRight(s)
  BY DEF Right
<1>2. kind' = kind
  BY DEF Standing
<1>3. CASE s.do = "node"
  <2>1. NodeStepRight(s)
    BY <1>1, <1>3 DEF StepRight
  <2>2. s.id \in Nodes(kind) /\ Runs(s.id)' = Runs(s.id)
    BY <1>2, <2>1, RunsStay DEF NodeStepRight
  <2>3. s.to = "ready" => DependenciesDone(node, s.id)'
    BY <2>1, <2>2, DoneStays DEF NodeStepRight
  <2>4. s.to = "completed" => CompletionRight(s.id, s.set.out)'
    BY <2>1, <2>2, CompletionStays DEF NodeStepRight
  <2>5. NodeStepRight(s)'
    BY <1>2, <2>1, <2>2, <2>3, <2>4 DEF NodeStepRight
  <2> QED
    BY <1>1, <1>3, <2>5 DEF Right, StepRight
<1>4. CASE s.do = "retire"
  BY <1>1, <1>2, <1>4 DEF Right, StepRight
<1>5. CASE s.do = "audit"
  BY <1>1, <1>2, <1>5 DEF Right, StepRight, Lookless
<1>6. CASE s.do = "note"
  BY <1>1, <1>6, NotedStays DEF Right, StepRight
<1>7. CASE s.do \in {"plan", "converge", "revive"}
  BY <1>1, <1>7 DEF Right, StepRight
<1> QED
  BY <1>1, <1>3, <1>4, <1>5, <1>6, <1>7 DEF Steps

LEMMA ClosedStays ==
    ASSUME KindRight, Standing, \A n \in Nodes(kind) : ~Live(n) => ~Live(n)'
    PROVE  /\ \A s \in Seq(Right) : s \in Seq(Right')
           /\ \A s \in Closed : s \in Closed'
<1>1. Right \subseteq Right'
  BY RightStays
<1>2. \A s \in Seq(Right) : s \in Seq(Right')
  BY <1>1
<1>3. Final' = Final
  BY DEF Standing, Final, TerminalVerifier
<1>4. ASSUME NEW s \in Closed PROVE s \in Closed'
  <2>1. s \in Seq(Right')
    BY <1>2 DEF Closed
  <2>2. \A i \in DOMAIN s : Completing(s[i]) => \E j \in 1..(i - 1) : s[j] = Final
    BY DEF Closed
  <2> QED
    BY <1>3, <2>1, <2>2 DEF Closed
<1> QED
  BY <1>2, <1>4

LEMMA FinishedStays ==
    ASSUME NodesInv, kind' = kind, Finished,
           \A n \in Nodes(kind) : node[n].state = "completed" => /\ node'[n].state = "completed"
                                                                 /\ node'[n].out = node[n].out
    PROVE  Finished'
BY KindOf, PlanFacts DEF Finished, TerminalVerifier

-------------------------------------------------------------------------------
(* The invariant holds at first, and says that the values have their types.  *)
LEMMA IdleRight == ASSUME KindRight PROVE FrameRight(Idle)
<1>1. <<>> \in Seq(Nodes(kind))
  OBVIOUS
<1> QED
  BY <1>1 DEF FrameRight, Frames, Idle

LEMMA NoneTypes == None \in Results /\ None \notin {"completed"} /\ None \notin Verdicts
BY DEF None, Results, Verdicts

LEMMA InitInv == Init => Inv
<1> SUFFICES ASSUME Init PROVE Inv
  OBVIOUS
<1>1. KindRight /\ kind \in Kinds
  BY BoundsAssumption DEF Init, KindRight
<1>2. FramesInv
  <2>1. \A r \in Requests : FrameRight(frame[r])
    BY <1>1, IdleRight DEF Init
  <2> QED
    BY <2>1 DEF Init, FramesInv
<1>3. ScriptInv
  <2>1. script \in Seq(Right) /\ plan.status = "absent"
    BY DEF Init
  <2> QED
    BY <2>1, ClosedNone DEF Init, ScriptInv
<1>4. NodesInv
  <2>1. node \in [Nodes(kind) -> Rows]
    BY NoneTypes DEF Init, NewNode, Rows, NodeStates, NodeNext
  <2>2. /\ plan \in [status : PlanStates, candidate : BOOLEAN, approved : BOOLEAN, artifact : BOOLEAN]
        /\ ~plan.artifact
    BY DEF Init, PlanStates, PlanNext
  <2>3. ASSUME NEW n \in Nodes(kind)
        PROVE  /\ node[n].attempts <= AttemptLimit(Runs(n))
               /\ node[n].state \notin {"blocked", "cancelled", "failed_terminal"} => DependenciesDone(node, n)
               /\ node[n].state # "completed" /\ node[n].out = None /\ node[n].finding = None
    <3>1. node[n] = NewNode(Plan(kind)[n].needs)
      BY DEF Init
    <3>2. 0 <= AttemptLimit(Runs(n))
      BY DEF AttemptLimit
    <3> QED
      BY <3>1, <3>2 DEF NewNode, DependenciesDone
  <2> QED
    BY <1>1, <2>1, <2>2, <2>3 DEF NodesInv
<1>5. WorkersInv
  <2>1. worker = [n \in Nodes(kind) |-> [claimed |-> FALSE, recorded |-> None]]
    BY DEF Init
  <2>2. job = [r \in Requests |-> [n \in Nodes(kind) |-> [at |-> "none", result |-> None]]]
    BY DEF Init, NoJobs, NoJob
  <2>3. \A n \in Nodes(kind) : ResultRight(n, None)
    BY NoneTypes DEF ResultRight, None
  <2>4. \A r \in Requests, n \in Nodes(kind) : JobRight(r, n)
    BY <2>2, <2>3 DEF JobRight, Acting
  <2> QED
    BY <2>1, <2>2, <2>3, <2>4, NoneTypes DEF WorkersInv
<1>6. WorldInv
  BY DEF Init, WorldInv, WorldRight
<1> QED
  BY <1>2, <1>3, <1>4, <1>5, <1>6 DEF Inv

LEMMA InvTyped == Inv => TypeOK
<1> SUFFICES ASSUME Inv PROVE TypeOK
  OBVIOUS
<1>1. Nodes(kind) \subseteq NodeIds
  BY DEF Inv, NodesInv, NodeIds
<1>2. ASSUME NEW r \in Requests PROVE frame[r] \in FrameType
  <2>1. frame[r] \in Frames
    BY DEF Inv, FramesInv, FrameRight
  <2>2. Rows = [state : DOMAIN NodeNext, attempts : 0..3, out : Results, finding : {None, "found", "absent", "conflict"}]
    BY DEF Rows, NodeStates, Findings
  <2>3. frame[r].todo \in Seq(NodeIds)
    BY <1>1, <2>1 DEF Frames
  <2> QED
    BY <1>1, <2>1, <2>2, <2>3 DEF Frames, FrameType
<1>3. frame \in [Requests -> FrameType]
  BY <1>2 DEF Inv, FramesInv
<1>4. node \in [Nodes(kind) -> [state : DOMAIN NodeNext, attempts : 0..3, out : Results,
                                finding : {None, "found", "absent", "conflict"}]]
  BY DEF Inv, NodesInv, Rows, NodeStates, Findings
<1> QED
  BY <1>3, <1>4 DEF Inv, TypeOK, NodesInv, WorkersInv, WorldInv, WorldRight, FramesInv, PlanStates

-------------------------------------------------------------------------------
(* A handler's stretch: it moves its own frame and leaves savepoints.       *)
LEMMA FrameStep ==
    ASSUME KindRight, FramesInv, kind' = kind, NEW r \in Requests, NEW g, FrameRight(g),
           frame' = [frame EXCEPT ![r] = g],
           \/ turn' = None /\ script' = <<>>
           \/ turn' = r /\ (g.pc \in {"tick", "launch", "resume"} \/ (g.pc = "idle" /\ script' # <<>>))
    PROVE  FramesInv'
<1>1. \A f : FrameRight(f) => FrameRight(f)'
  BY DEF FrameRight, Frames
<1>2. frame' = [q \in Requests |-> frame'[q]]
  BY DEF FramesInv
<1>3. frame'[r] = g /\ \A q \in Requests : q # r => frame'[q] = frame[q]
  BY DEF FramesInv
<1>4. ASSUME NEW q \in Requests PROVE FrameRight(frame[q])'
  <2> PICK f : f = frame'[q]
    OBVIOUS
  <2>1. FrameRight(f)
    BY <1>3 DEF FramesInv
  <2>2. FrameRight(f)'
    BY <1>1, <2>1
  <2> QED
    BY <2>2 DEF FrameRight
<1>5. turn' \in Requests \cup {None} /\ (turn' = None => script' = <<>>)
  BY BoundsAssumption
<1>6. turn' # None => \/ frame'[turn'].pc \in {"tick", "launch", "resume"}
                      \/ frame'[turn'].pc = "idle" /\ script' # <<>>
  BY <1>3
<1> QED
  BY <1>2, <1>4, <1>5, <1>6 DEF FramesInv

LEMMA ScriptStep ==
    ASSUME KindRight, ScriptInv, UNCHANGED <<kind, node, worker, world>>,
           \A n \in Nodes(kind) : ~Live(n) => ~Live(n)',
           script' = <<>> \/ script' \in Closed, plan'.artifact = plan.artifact,
           plan'.status = "completed" => plan.status = "completed"
    PROVE  ScriptInv'
<1>1. Standing
  BY DEF Standing
<1>2. script' \in Closed
  BY ClosedNone
<1>3. script' \in Closed'
  BY <1>1, <1>2, ClosedStays
<1>4. script' \in Seq(Right')
  BY <1>3 DEF Closed
<1>5. Finished' = Finished
  BY DEF Finished, TerminalVerifier
<1> QED
  BY <1>3, <1>4, <1>5 DEF ScriptInv

LEMMA RowsStep ==
    ASSUME NodesInv, UNCHANGED <<kind, node, worker, world>>,
           plan' \in [status : PlanStates, candidate : BOOLEAN, approved : BOOLEAN, artifact : BOOLEAN],
           plan'.artifact = plan.artifact
    PROVE  NodesInv'
BY DEF NodesInv, Noted, CompletionRight, ResultRight, Witness, Lookless, Runs, DependenciesDone

LEMMA WorkersStep ==
    ASSUME WorkersInv, UNCHANGED <<kind, worker, world, job>>, plan.artifact => plan'.artifact
    PROVE  WorkersInv' /\ \A n : Live(n)' = Live(n)
BY DEF WorkersInv, JobRight, ResultRight, Witness, Acting, Live

LEMMA WorldStep ==
    ASSUME WorldInv, UNCHANGED <<kind, node, world>>,
           plan'.candidate = plan.candidate, plan'.approved = plan.approved
    PROVE  WorldInv'
BY DEF WorldInv, WorldRight

LEMMA HandlerKeeps ==
    ASSUME Inv, NEW r \in Requests, NEW g, FrameRight(g), frame' = [frame EXCEPT ![r] = g],
           \/ turn' = None /\ script' = <<>>
           \/ /\ turn' = r /\ script' \in Closed
              /\ g.pc \in {"tick", "launch", "resume"} \/ (g.pc = "idle" /\ script' # <<>>),
           UNCHANGED <<durable, world, job>>
    PROVE  Inv'
<1>1. UNCHANGED <<kind, plan, node, worker, world, job>>
  BY DEF durable
<1>2. KindRight
  BY KindOf DEF Inv
<1>3. FramesInv'
  BY <1>1, <1>2, FrameStep DEF Inv
<1>4. WorkersInv' /\ \A n : Live(n)' = Live(n)
  BY <1>1, WorkersStep DEF Inv
<1>5. ScriptInv'
  BY <1>1, <1>2, <1>4, ScriptStep DEF Inv
<1>6. NodesInv'
  BY <1>1, RowsStep DEF Inv, NodesInv
<1>7. WorldInv'
  BY <1>1, WorldStep DEF Inv
<1> QED
  BY <1>3, <1>4, <1>5, <1>6, <1>7 DEF Inv

LEMMA EnterKeeps ==
    ASSUME Inv, NEW r \in Requests, NEW fields, NEW steps \in Closed, Enter(r, fields, steps),
           FrameRight(Update(frame[r], fields)), Update(frame[r], fields).pc \in {"tick", "launch", "resume"},
           UNCHANGED <<durable, world, job>>
    PROVE  Inv'
<1>1. frame' = [frame EXCEPT ![r] = Update(frame[r], fields)]
  BY DEF Enter, Inv, FramesInv
<1> QED
  BY <1>1, HandlerKeeps DEF Enter

LEMMA FinishKeeps ==
    ASSUME Inv, NEW r \in Requests, NEW steps \in Closed, Finish(r, steps), UNCHANGED <<durable, world, job>>
    PROVE  Inv'
<1>1. FrameRight(Idle) /\ Idle.pc = "idle"
  BY KindOf, IdleRight DEF Inv, Idle
<1> QED
  BY <1>1, HandlerKeeps DEF Finish

LEMMA AwaitKeeps ==
    ASSUME Inv, NEW r \in Requests, NEW fields, Await(r, fields), FrameRight(Update(frame[r], fields)),
           UNCHANGED <<durable, world, job>>
    PROVE  Inv'
<1>1. frame' = [frame EXCEPT ![r] = Update(frame[r], fields)]
  BY DEF Await, Inv, FramesInv
<1> QED
  BY <1>1, HandlerKeeps DEF Await

LEMMA GoesTo ==
    ASSUME FramesInv, NEW r \in Requests, NEW fields, "pc" \in DOMAIN fields
    PROVE  FrameRight(frame[r]) /\ Update(frame[r], fields).pc = fields.pc
<1>1. FrameRight(frame[r]) /\ "pc" \in DOMAIN frame[r]
  BY DEF FramesInv, FrameRight, Frames
<1> QED
  BY <1>1, Updated

LEMMA QuietClosed ==
    ASSUME NEW s \in Seq(Right), \A i \in DOMAIN s : ~Completing(s[i])
    PROVE  s \in Closed
BY DEF Closed

LEMMA ForEachClosed ==
    ASSUME NEW f, \A n \in DOMAIN f : f[n] \in Closed
    PROVE  ForEach(f) \in Closed
BY ForEachIn, ClosedNone, ClosedCat

-------------------------------------------------------------------------------
(* The handlers, one lemma each. *)
LEMMA SubmitKeeps == ASSUME Inv, NEW r \in Requests, Submit(r) PROVE Inv'
<1>1. FrameRight(Update(frame[r], [pc |-> "compiling"]))
  BY GoesTo, FrameMoves DEF Inv
<1> QED
  BY <1>1, AwaitKeeps DEF Submit

LEMMA InsertKeeps == ASSUME Inv, NEW r \in Requests, InsertMission(r) PROVE Inv'
<1>1. KindRight /\ FrameRight(Idle)
  BY KindOf, IdleRight DEF Inv
<1>2. frame' = [frame EXCEPT ![r] = Idle] /\ turn' = None /\ script' = <<>>
      /\ UNCHANGED <<kind, node, worker, world, job>>
  BY DEF InsertMission, Leave, Finish
<1>3. /\ plan' \in [status : PlanStates, candidate : BOOLEAN, approved : BOOLEAN, artifact : BOOLEAN]
      /\ plan'.candidate = plan.candidate /\ plan'.approved = plan.approved /\ plan'.artifact = plan.artifact
      /\ plan'.status = "completed" => plan.status = "completed"
  BY DEF InsertMission, Inv, NodesInv, PlanStates, PlanNext
<1>4. FramesInv'
  BY <1>1, <1>2, FrameStep DEF Inv
<1>5. WorkersInv' /\ \A n : Live(n)' = Live(n)
  BY <1>2, <1>3, WorkersStep DEF Inv
<1>6. ScriptInv'
  BY <1>1, <1>2, <1>3, <1>5, ScriptStep DEF Inv
<1>7. NodesInv' /\ WorldInv'
  BY <1>2, <1>3, RowsStep, WorldStep DEF Inv
<1> QED
  BY <1>4, <1>5, <1>6, <1>7 DEF Inv

LEMMA ApproveExecutionKeeps == ASSUME Inv, NEW r \in Requests, ApproveExecution(r) PROVE Inv'
<1>1. KindRight /\ FrameRight(Update(frame[r], [pc |-> "tick"])) /\ Update(frame[r], [pc |-> "tick"]).pc = "tick"
  BY KindOf, GoesTo, FrameMoves DEF Inv
<1>2. PlanTo("approved") \in Right /\ ~Completing(PlanTo("approved"))
  BY <1>1, OthersRight, WhatCompletes DEF PlanStates, PlanNext
<1>3. <<PlanTo("approved")>> \in Closed /\ <<>> \in Closed
  BY <1>2, ClosedOne, ClosedNone
<1> QED
  BY <1>1, <1>3, EnterKeeps DEF ApproveExecution

LEMMA ApproveCandidateKeeps == ASSUME Inv, NEW r \in Requests, ApproveCandidate(r) PROVE Inv'
<1> DEFINE cp == Checkpoint(kind)
           a == PlanNote([approved |-> TRUE])  b == NodeTo(cp, "running", <<>>)
           c == NodeTo(cp, "completed", [out |-> "ok"])  d == PlanTo("running")
<1>1. KindRight /\ FrameRight(Update(frame[r], [pc |-> "tick"])) /\ Update(frame[r], [pc |-> "tick"]).pc = "tick"
  BY KindOf, GoesTo, FrameMoves DEF Inv
<1>2. cp \in Nodes(kind) /\ ~Witness(cp) /\ Runs(cp) = "authority"
  BY <1>1, PlanFacts
<1>3. ~(kind = "compensated" /\ cp = "X4")
  BY DEF Checkpoint
<1>4. CompletionRight(cp, "ok")
  BY <1>2, <1>3 DEF CompletionRight, ResultRight, Results, Verdicts
<1>5. NodeStepRight(b) /\ NodeStepRight(c)
  BY <1>2, <1>4 DEF NodeStepRight, NodeTo, Step, NodeStates, NodeNext, Results, Verdicts
<1>6. a \in Right /\ b \in Right /\ c \in Right /\ d \in Right
  BY <1>1, <1>2, <1>5, NodeToRight, OthersRight DEF PlanStates, PlanNext
<1>7. ~Completing(a) /\ ~Completing(b) /\ ~Completing(c) /\ ~Completing(d)
  BY WhatCompletes
<1>8. ApproveCandidate(r) => Enter(r, [pc |-> "tick"], <<a, b, c, d>>) /\ UNCHANGED <<durable, world, job>>
  BY DEF ApproveCandidate
<1> HIDE DEF a, b, c, d
<1>9. <<a, b, c, d>> \in Closed
  <2>1. <<a, b, c, d>> \in Seq(Right)
    BY <1>6
  <2>2. \A i \in DOMAIN <<a, b, c, d>> : <<a, b, c, d>>[i] \in {a, b, c, d}
    OBVIOUS
  <2> QED
    BY <1>7, <2>1, <2>2, QuietClosed
<1> QED
  BY <1>1, <1>8, <1>9, EnterKeeps

LEMMA AfterKeeps ==
    ASSUME Inv, NEW r \in Requests, NEW steps \in Closed, After(r, steps), UNCHANGED <<durable, world, job>>
    PROVE  Inv'
<1>1. CASE frame[r].todo = <<>>
  BY <1>1, FinishKeeps DEF After
<1>2. CASE frame[r].todo # <<>>
  <2>1. /\ FrameRight(Update(frame[r], [pc |-> "resume", snap |-> <<>>]))
        /\ Update(frame[r], [pc |-> "resume", snap |-> <<>>]).pc = "resume"
    BY <1>2, GoesTo, FrameMoves DEF Inv
  <2> QED
    BY <1>2, <2>1, EnterKeeps DEF After
<1> QED
  BY <1>1, <1>2

LEMMA TickKeeps == ASSUME Inv, NEW r \in Requests, Tick(r) PROVE Inv'
<1>1. KindRight /\ FrameRight(Update(frame[r], [pc |-> "tick"])) /\ Update(frame[r], [pc |-> "tick"]).pc = "tick"
  BY KindOf, GoesTo, FrameMoves DEF Inv
<1>2. UNCHANGED <<durable, world, job>>
  BY DEF Tick
<1>3. CASE Enter(r, [pc |-> "tick"], <<PlanTo("running")>>)
  <2>1. PlanTo("running") \in Right /\ ~Completing(PlanTo("running"))
    BY <1>1, OthersRight, WhatCompletes DEF PlanStates, PlanNext
  <2> QED
    BY <1>1, <1>2, <1>3, <2>1, ClosedOne, EnterKeeps
<1>4. CASE Enter(r, [pc |-> "tick"], ForEach([n \in Openable |-> <<NodeTo(n, "ready", <<>>)>>]))
  <2> DEFINE f == [n \in Openable |-> <<NodeTo(n, "ready", <<>>)>>]
  <2>1. ASSUME NEW n \in Openable PROVE f[n] \in Closed
    <3>1. n \in Nodes(kind) /\ DependenciesDone(node, n)
      BY DEF Openable
    <3>2. NodeStepRight(NodeTo(n, "ready", <<>>))
      BY <3>1 DEF NodeStepRight, NodeTo, Step, NodeStates, NodeNext
    <3>3. <<NodeTo(n, "ready", <<>>)>> \in Closed
      BY <1>1, <3>1, <3>2, NodeToRight, WhatCompletes, ClosedOne
    <3> QED
      BY <3>3
  <2>2. ForEach(f) \in Closed
    <3>1. DOMAIN f = Openable
      OBVIOUS
    <3> HIDE DEF f
    <3> QED
      BY <2>1, <3>1, ForEachClosed
  <2> QED
    BY <1>1, <1>2, <1>4, <2>2, EnterKeeps
<1>5. CASE Await(r, [pc |-> "governing", snap |-> node])
  <2>1. node \in [Nodes(kind) -> Rows] /\ node # <<>>
    <3>1. TerminalVerifier(kind) \in DOMAIN node /\ node \in [Nodes(kind) -> Rows]
      BY <1>1, PlanFacts DEF Inv, NodesInv
    <3>2. DOMAIN <<>> = {}
      OBVIOUS
    <3> QED
      BY <3>1, <3>2
  <2>2. FrameRight(Update(frame[r], [pc |-> "governing", snap |-> node]))
    BY <2>1, GoesTo, FrameMoves DEF Inv
  <2> QED
    BY <1>2, <1>5, <2>2, AwaitKeeps
<1>6. CASE After(r, <<>>)
  BY <1>2, <1>6, ClosedNone, AfterKeeps
<1> QED
  BY <1>3, <1>4, <1>5, <1>6 DEF Tick

(* Leases stay within the attempt limit the Governor was shown. *)
LEMMA LeaseRight ==
    ASSUME KindRight, NEW snap \in [Nodes(kind) -> Rows], NEW n \in Admissible(snap)
    PROVE  /\ n \in Nodes(kind)
           /\ NodeStepRight(NodeTo(n, "running", [attempts |-> snap[n].attempts + 1]))
<1>1. n \in Nodes(kind) /\ snap[n].attempts < AttemptLimit(Runs(n))
  BY DEF Admissible
<1>2. snap[n].attempts \in 0..3 /\ AttemptLimit(Runs(n)) \in 1..3
  BY <1>1 DEF Rows, AttemptLimit
<1>3. snap[n].attempts + 1 \in 1..AttemptLimit(Runs(n))
  BY <1>1, <1>2
<1> QED
  BY <1>1, <1>3 DEF NodeStepRight, NodeTo, Step, NodeStates, NodeNext

LEMMA GovernedKeeps == ASSUME Inv, NEW r \in Requests, Governed(r) PROVE Inv'
<1> DEFINE snap == frame[r].snap
<1>1. KindRight /\ UNCHANGED <<durable, world, job>> /\ frame[r].pc = "governing"
  BY KindOf DEF Inv, Governed
<1>2. snap \in [Nodes(kind) -> Rows]
  BY <1>1 DEF Inv, FramesInv, FrameRight, Frames
<1>3. PICK A \in Admissions(snap) :
        \/ After(r, Settle(snap))
        \/ After(r, <<PlanTo("awaiting_authority")>>)
        \/ Checkpoint(kind) \notin A /\ Enter(r, [pc |-> "launch", batch |-> A], LeaseSteps(A, snap))
  BY DEF Governed
<1>4. A \subseteq Admissible(snap)
  BY DEF Admissions
<1> HIDE DEF snap
<1>5. CASE After(r, Settle(snap))
  <2>1. PlanTo("failed_terminal") \in Right /\ ~Completing(PlanTo("failed_terminal"))
    BY <1>1, OthersRight, WhatCompletes DEF PlanStates, PlanNext
  <2>2. Settle(snap) \in Closed
    BY <2>1, ClosedOne, ClosedNone DEF Settle
  <2> QED
    BY <1>1, <1>5, <2>2, AfterKeeps
<1>6. CASE After(r, <<PlanTo("awaiting_authority")>>)
  <2>1. PlanTo("awaiting_authority") \in Right /\ ~Completing(PlanTo("awaiting_authority"))
    BY <1>1, OthersRight, WhatCompletes DEF PlanStates, PlanNext
  <2> QED
    BY <1>1, <1>6, <2>1, ClosedOne, AfterKeeps
<1>7. CASE Checkpoint(kind) \notin A /\ Enter(r, [pc |-> "launch", batch |-> A], LeaseSteps(A, snap))
  <2> DEFINE f == [n \in A |-> <<NodeTo(n, "running", [attempts |-> snap[n].attempts + 1])>>]
  <2>1. ASSUME NEW n \in A PROVE n \in Nodes(kind) /\ f[n] \in Closed
    <3>1. n \in Nodes(kind) /\ NodeStepRight(NodeTo(n, "running", [attempts |-> snap[n].attempts + 1]))
      BY <1>1, <1>2, <1>4, LeaseRight
    <3>2. <<NodeTo(n, "running", [attempts |-> snap[n].attempts + 1])>> \in Closed
      BY <1>1, <3>1, NodeToRight, WhatCompletes, ClosedOne
    <3> QED
      BY <3>1, <3>2
  <2>2. ForEach(f) \in Closed
    <3>1. DOMAIN f = A
      OBVIOUS
    <3> HIDE DEF f
    <3> QED
      BY <2>1, <3>1, ForEachClosed
  <2>3. LeaseSteps(A, snap) \in Closed
    BY <2>2 DEF LeaseSteps
  <2>4. A \in SUBSET (Nodes(kind) \ {Checkpoint(kind)})
    BY <1>7, <2>1
  <2>5. /\ FrameRight(Update(frame[r], [pc |-> "launch", batch |-> A]))
        /\ Update(frame[r], [pc |-> "launch", batch |-> A]).pc = "launch"
    BY <2>4, GoesTo, FrameMoves DEF Inv
  <2> QED
    BY <1>1, <1>7, <2>3, <2>5, EnterKeeps
<1> QED
  BY <1>3, <1>5, <1>6, <1>7

LEMMA GovernorFailsKeeps == ASSUME Inv, NEW r \in Requests, GovernorFails(r) PROVE Inv'
BY ClosedNone, FinishKeeps DEF GovernorFails, Leave

LEMMA CancelledClosed == ASSUME KindRight, NEW S \in SUBSET Nodes(kind) PROVE Cancelled(S) \in Closed
<1> DEFINE D == {m \in S : node[m].state \notin Settled}
           f == [n \in D |-> <<NodeTo(n, "cancelled", <<>>)>>]
<1>1. ASSUME NEW n \in D PROVE f[n] \in Closed
  <2>1. n \in Nodes(kind) /\ NodeStepRight(NodeTo(n, "cancelled", <<>>))
    BY DEF NodeStepRight, NodeTo, Step, NodeStates, NodeNext
  <2>2. <<NodeTo(n, "cancelled", <<>>)>> \in Closed
    BY <2>1, NodeToRight, WhatCompletes, ClosedOne
  <2> QED
    BY <2>2
<1>2. DOMAIN f = D /\ Cancelled(S) = ForEach(f)
  BY DEF Cancelled
<1> HIDE DEF f, D
<1> QED
  BY <1>1, <1>2, ForEachClosed

LEMMA StopKeeps == ASSUME Inv, NEW r \in Requests, Stop(r) PROVE Inv'
<1>1. KindRight
  BY KindOf DEF Inv
<1>2. <<PlanTo("cancelled")>> \in Closed
  BY <1>1, OthersRight, WhatCompletes, ClosedOne DEF PlanStates, PlanNext
<1>3. Cancelled(Nodes(kind)) \o <<PlanTo("cancelled")>> \in Closed
  BY <1>1, <1>2, CancelledClosed, ClosedCat
<1> QED
  BY <1>3, FinishKeeps DEF Stop

LEMMA StopNodeKeeps == ASSUME Inv, NEW r \in Requests, NEW n \in Nodes(kind), StopNode(r, n) PROVE Inv'
<1>1. KindRight /\ None \notin Nodes(kind)
  BY KindOf, PlanFacts DEF Inv
<1>2. node \in [Nodes(kind) -> Rows] /\ n \in DOMAIN node
  BY DEF Inv, NodesInv
<1>3. DOMAIN <<>> = {}
  OBVIOUS
<1>4. FrameRight(Update(frame[r], [pc |-> "stopping", aim |-> n, snap |-> node]))
  BY <1>1, <1>2, <1>3, GoesTo, FrameMoves DEF Inv
<1> QED
  BY <1>4, AwaitKeeps DEF StopNode

LEMMA StopDependentsKeeps == ASSUME Inv, NEW r \in Requests, StopDependents(r) PROVE Inv'
<1> DEFINE n == frame[r].aim
           a == IF frame[r].snap[n].state \in Settled THEN <<>> ELSE <<NodeTo(n, "failed_terminal", <<>>)>>
           b == Cancelled(Dependents(n))
           c == IF plan.status \in Settled THEN <<>> ELSE <<PlanTo("failed_terminal")>>
<1>1. KindRight /\ UNCHANGED <<durable, world, job>> /\ Finish(r, a \o b \o c)
  BY KindOf DEF Inv, StopDependents
<1>2. n \in Nodes(kind)
  BY DEF StopDependents, Inv, FramesInv, FrameRight, Frames
<1>3. a \in Closed
  <2>1. NodeStepRight(NodeTo(n, "failed_terminal", <<>>))
    BY <1>2 DEF NodeStepRight, NodeTo, Step, NodeStates, NodeNext
  <2> QED
    BY <1>1, <1>2, <2>1, NodeToRight, WhatCompletes, ClosedOne, ClosedNone
<1>4. b \in Closed
  <2>1. Dependents(n) \in SUBSET Nodes(kind)
    BY DEF Dependents
  <2> QED
    BY <1>1, <2>1, CancelledClosed
<1>5. c \in Closed
  BY <1>1, OthersRight, WhatCompletes, ClosedOne, ClosedNone DEF PlanStates, PlanNext
<1> HIDE DEF a, b, c
<1> QED
  BY <1>1, <1>3, <1>4, <1>5, ClosedCat, FinishKeeps

LEMMA InOrderIn ==
    ASSUME KindRight, NEW S \in SUBSET Nodes(kind)
    PROVE  InOrder(S) \in Seq(Nodes(kind)) /\ (S # {} => InOrder(S) # <<>>)
<1> DEFINE f == [n \in S |-> <<n>>]
           U == Seq(Nodes(kind))
           X == U \ {<<>>}
<1>1. InOrder(S) = ForEach(f) /\ DOMAIN f = S /\ \A n \in S : f[n] = <<n>>
  BY DEF InOrder
<1>2. \A n \in Nodes(kind) : <<n>> \in X
  OBVIOUS
<1>3. <<>> \in U /\ (\A s, t \in U : s \o t \in U) /\ X \subseteq U
  OBVIOUS
<1>4. \A s \in X, t \in U : s \o t \in X /\ t \o s \in X
  OBVIOUS
<1> HIDE DEF f, U, X
<1>5. \A n \in DOMAIN f : f[n] \in X /\ f[n] \in U
  BY <1>1, <1>2, <1>3
<1>6. ForEach(f) \in U
  BY <1>3, <1>5, ForEachIn
<1>7. ASSUME NEW n \in S PROVE ForEach(f) \in X
  <2>1. n \in Names /\ n \in DOMAIN f /\ f[n] \in X
    BY <1>1, <1>5, PlanFacts
  <2> QED
    BY <1>3, <1>4, <1>5, <2>1, ForEachHas
<1> QED
  BY <1>1, <1>6, <1>7 DEF U, X

LEMMA ResumeKeeps == ASSUME Inv, NEW r \in Requests, Resume(r) PROVE Inv'
<1>1. KindRight /\ UNCHANGED <<durable, world, job>>
  BY KindOf DEF Inv, Resume
<1>2. Pending \in SUBSET Nodes(kind)
  BY DEF Pending
<1>3. CASE Enter(r, [pc |-> "tick"], <<>>)
  <2>1. FrameRight(Update(frame[r], [pc |-> "tick"])) /\ Update(frame[r], [pc |-> "tick"]).pc = "tick"
    BY GoesTo, FrameMoves DEF Inv
  <2> QED
    BY <1>1, <1>3, <2>1, ClosedNone, EnterKeeps
<1>4. ASSUME NEW t \in Seq(Nodes(kind)) \ {<<>>}, Enter(r, [pc |-> "resume", todo |-> t], <<>>) PROVE Inv'
  <2>1. /\ FrameRight(Update(frame[r], [pc |-> "resume", todo |-> t]))
        /\ Update(frame[r], [pc |-> "resume", todo |-> t]).pc = "resume"
    BY GoesTo, FrameMoves DEF Inv
  <2> QED
    BY <1>1, <1>4, <2>1, ClosedNone, EnterKeeps
<1>5. CASE Pending # {} /\ Enter(r, [pc |-> "resume", todo |-> InOrder(Pending)], <<>>)
  BY <1>1, <1>2, <1>4, <1>5, InOrderIn
<1>6. CASE \E n \in Nodes(kind) : Enter(r, [pc |-> "resume", todo |-> <<n>>], <<>>)
  <2>1. PICK n \in Nodes(kind) : Enter(r, [pc |-> "resume", todo |-> <<n>>], <<>>)
    BY <1>6
  <2>2. <<n>> \in Seq(Nodes(kind)) \ {<<>>}
    OBVIOUS
  <2> QED
    BY <1>4, <2>1, <2>2
<1> QED
  BY <1>3, <1>5, <1>6 DEF Resume

(* Only connectors are looked up by their own action. *)
LEMMA ConnectorFacts ==
    ASSUME KindRight, NEW n \in Nodes(kind)
    PROVE  /\ Lookless(n) <=> LookupRefuses(kind) /\ ReconciliationMode(Runs(n)) = "connector"
           /\ ReconciliationMode(Runs(n)) = "connector" /\ ~Lookless(n) =>
                kind # "compensated" /\ ~Witness(n)
           /\ kind = "compensated" /\ n = "X4" => Lookless(n)
<1>1. CASE kind = "artifact"
  BY <1>1, ArtifactFacts DEF Lookless, LookupRefuses, ReconciliationMode, Witness
<1>2. CASE kind = "live"
  BY <1>2, LiveFacts DEF Lookless, LookupRefuses, ReconciliationMode, Witness
<1>3. CASE kind = "compensated"
  BY <1>3, CompensatedFacts DEF Lookless, LookupRefuses, ReconciliationMode, Witness
<1>4. CASE kind = "shadow"
  BY <1>4, ShadowFacts DEF Lookless, LookupRefuses, ReconciliationMode, Witness
<1> QED
  BY <1>1, <1>2, <1>3, <1>4 DEF KindRight

LEMMA RecoveredClosed ==
    ASSUME Inv, NEW n \in Nodes(kind), ~ResumeRefused(n)
    PROVE  Recovered(n) \in Closed
<1>1. KindRight /\ (Lookless(n) => node[n].finding = None)
  BY KindOf DEF Inv, NodesInv
<1>2. CASE node[n].finding = "found" /\ ReconciliationMode(Runs(n)) = "connector"
  <2>1. kind # "compensated" /\ ~Witness(n)
    BY <1>1, <1>2, ConnectorFacts DEF None
  <2>2. CompletionRight(n, "ok")
    BY <2>1 DEF CompletionRight, ResultRight, Results, Verdicts
  <2>3. NodeStepRight(NodeTo(n, "completed", [out |-> "ok"]))
    BY <2>2 DEF NodeStepRight, NodeTo, Step, NodeStates, NodeNext, Results, Verdicts
  <2>4. <<NodeTo(n, "completed", [out |-> "ok"])>> \in Closed
    BY <1>1, <2>3, NodeToRight, WhatCompletes, ClosedOne
  <2> QED
    BY <1>2, <2>4 DEF Recovered
<1>3. CASE /\ node[n].state = "reconciliation_required" /\ node[n].finding = "found"
           /\ ReconciliationMode(Runs(n)) # "connector"
  <2>1. worker[n].recorded # None /\ worker[n].recorded \in Results /\ ResultRight(n, worker[n].recorded)
    BY <1>3 DEF ResumeRefused, Inv, WorkersInv
  <2>2. CompletionRight(n, worker[n].recorded)
    BY <1>1, <1>3, <2>1, ConnectorFacts DEF CompletionRight
  <2>3. NodeStepRight(NodeTo(n, "completed", [out |-> worker[n].recorded]))
    BY <2>1, <2>2 DEF NodeStepRight, NodeTo, Step, NodeStates, NodeNext
  <2>4. <<NodeTo(n, "completed", [out |-> worker[n].recorded])>> \in Closed
    BY <1>1, <2>3, NodeToRight, WhatCompletes, ClosedOne
  <2>5. Derived(n) \in Closed
    <3>1. <<PlanNote([candidate |-> TRUE])>> \in Closed
      BY <1>1, OthersRight, WhatCompletes, ClosedOne
    <3> QED
      BY <3>1, ClosedNone DEF Derived
  <2> QED
    BY <1>3, <2>4, <2>5, ClosedCat DEF Recovered
<1>4. CASE node[n].state = "reconciliation_required" /\ node[n].finding # "found"
  <2>1. NodeStepRight(NodeTo(n, "failed_recoverable", <<>>))
    BY DEF NodeStepRight, NodeTo, Step, NodeStates, NodeNext
  <2>2. <<NodeTo(n, "failed_recoverable", <<>>)>> \in Closed
    BY <1>1, <2>1, NodeToRight, WhatCompletes, ClosedOne
  <2> QED
    BY <1>4, <2>2 DEF Recovered
<1>5. CASE /\ node[n].state # "reconciliation_required"
           /\ ~(node[n].finding = "found" /\ ReconciliationMode(Runs(n)) = "connector")
  BY <1>5, ClosedNone DEF Recovered
<1> QED
  BY <1>2, <1>3, <1>4, <1>5

LEMMA ResumeNodeKeeps == ASSUME Inv, NEW r \in Requests, ResumeNode(r) PROVE Inv'
<1> DEFINE n == Head(frame[r].todo)
           t == Tail(frame[r].todo)
<1>1. KindRight /\ UNCHANGED <<durable, world, job>>
  BY KindOf DEF Inv, ResumeNode
<1>2. frame[r].todo \in Seq(Nodes(kind)) /\ frame[r].todo # <<>>
  BY DEF ResumeNode, Continues, Inv, FramesInv, FrameRight, Frames
<1>3. n \in Nodes(kind) /\ t \in Seq(Nodes(kind))
  BY <1>2
<1>4. CASE ResumeRefused(n)
  BY <1>1, <1>4, ClosedNone, FinishKeeps DEF ResumeNode, Leave
<1>5. CASE ~ResumeRefused(n)
  <2>1. Enter(r, [pc |-> "tick", todo |-> t], Recovered(n) \o <<Revive>>)
    BY <1>5 DEF ResumeNode
  <2> HIDE DEF n, t
  <2>2. <<Revive>> \in Closed
    BY <1>1, OthersRight, WhatCompletes, ClosedOne
  <2>3. Recovered(n) \o <<Revive>> \in Closed
    BY <1>3, <1>5, <2>2, RecoveredClosed, ClosedCat
  <2>4. /\ FrameRight(Update(frame[r], [pc |-> "tick", todo |-> t]))
        /\ Update(frame[r], [pc |-> "tick", todo |-> t]).pc = "tick"
    BY <1>3, GoesTo, FrameMoves DEF Inv
  <2> QED
    BY <1>1, <2>1, <2>3, <2>4, EnterKeeps
<1> QED
  BY <1>4, <1>5

LEMMA LookupClosed ==
    ASSUME Inv, NEW n \in Nodes(kind), NEW s \in Lookup(n)
    PROVE  s \in Closed
<1>1. KindRight
  BY KindOf DEF Inv
<1>2. CASE Lookless(n)
  BY <1>1, <1>2, ConnectorFacts, ClosedNone DEF Lookup
<1>3. CASE ~Lookless(n)
  <2>1. \A found \in Findings : Audit(n, found) \in Right /\ <<Audit(n, found)>> \in Closed
    BY <1>1, <1>3, OthersRight, WhatCompletes, ClosedOne
  <2>2. ASSUME ~Live(n) PROVE <<Retire(n), Audit(n, "absent")>> \in Closed
    <3> DEFINE a == Retire(n)
               b == Audit(n, "absent")
    <3>1. a \in Right /\ b \in Right /\ ~Completing(a) /\ ~Completing(b)
      BY <1>1, <2>1, <2>2, OthersRight, WhatCompletes DEF Findings
    <3> HIDE DEF a, b
    <3>2. <<a, b>> \in Seq(Right) /\ \A i \in DOMAIN <<a, b>> : <<a, b>>[i] \in {a, b}
      BY <3>1
    <3>3. <<a, b>> \in Closed
      BY <3>1, <3>2, QuietClosed
    <3> QED
      BY <3>3 DEF a, b
  <2>3. Investigate(n) \in Findings
    BY DEF Investigate, Findings
  <2>4. \/ s = <<Audit(n, "conflict")>>
        \/ s = <<Retire(n), Audit(n, "absent")>> /\ ~Live(n)
        \/ s = <<Audit(n, Investigate(n))>>
    BY <1>1, <1>3, ConnectorFacts DEF Lookup, Retirable
  <2> QED
    BY <2>1, <2>2, <2>3, <2>4 DEF Findings
<1> QED
  BY <1>2, <1>3

LEMMA ReconcileKeeps == ASSUME Inv, NEW r \in Requests, Reconcile(r) PROVE Inv'
<1>1. KindRight /\ UNCHANGED <<durable, world, job>>
  BY KindOf DEF Inv, Reconcile
<1>2. PICK S \in SUBSET Nodes(kind) : \E found \in [S -> UNION {Lookup(n) : n \in S}] :
        /\ \A n \in S : found[n] \in Lookup(n)
        /\ Finish(r, ForEach([n \in S |-> Suspect(n) \o found[n]]))
  BY DEF Reconcile
<1>3. PICK found \in [S -> UNION {Lookup(n) : n \in S}] :
        /\ \A n \in S : found[n] \in Lookup(n)
        /\ Finish(r, ForEach([n \in S |-> Suspect(n) \o found[n]]))
  BY <1>2
<1> DEFINE f == [n \in S |-> Suspect(n) \o found[n]]
<1>4. ASSUME NEW n \in S PROVE f[n] \in Closed
  <2>1. NodeStepRight(NodeTo(n, "reconciliation_required", <<>>))
    BY DEF NodeStepRight, NodeTo, Step, NodeStates, NodeNext
  <2>2. Suspect(n) \in Closed
    BY <1>1, <2>1, NodeToRight, WhatCompletes, ClosedOne, ClosedNone DEF Suspect
  <2>3. found[n] \in Closed
    BY <1>3, LookupClosed
  <2> QED
    BY <2>2, <2>3, ClosedCat
<1>5. DOMAIN f = S /\ Finish(r, ForEach(f))
  BY <1>3
<1> HIDE DEF f
<1> QED
  BY <1>1, <1>4, <1>5, ForEachClosed, FinishKeeps

(* A request launches its workers, or has read all they said. *)
LEMMA JobsMove ==
    ASSUME WorkersInv, UNCHANGED <<kind, plan, worker, world>>, NEW r \in Requests, NEW j,
           j \in [Nodes(kind) -> [at : {"none", "starting"}, result : {None}]],
           \A n \in Nodes(kind) : j[n].at # "none" => n # Checkpoint(kind),
           job' = [job EXCEPT ![r] = j]
    PROVE  WorkersInv' /\ \A n \in Nodes(kind) : ~Live(n) => ~Live(n)'
<1>1. job'[r] = j /\ \A q \in Requests : q # r => job'[q] = job[q]
  BY DEF WorkersInv
<1>2. \A q \in Requests, n \in Nodes(kind) : Acting(q, n)' => Acting(q, n)
  BY <1>1 DEF Acting
<1>3. ASSUME NEW q \in Requests, NEW n \in Nodes(kind) PROVE JobRight(q, n)'
  <2>1. ResultRight(n, None)
    BY NoneTypes DEF ResultRight, None
  <2>2. JobRight(q, n)
    BY DEF WorkersInv
  <2>3. CASE q = r
    BY <1>1, <1>2, <2>1, <2>2, <2>3 DEF JobRight, ResultRight, Witness, Acting
  <2>4. CASE q # r
    <3>1. job'[q][n] = job[q][n]
      BY <1>1, <2>4
    <3> QED
      BY <1>2, <2>2, <3>1 DEF JobRight, ResultRight, Witness, Acting
  <2> QED
    BY <2>3, <2>4
<1>4. job' \in [Requests -> [Nodes(kind) -> [at : {"none", "starting", "claimed", "acted", "done"}, result : Results]]]
  <2>1. j \in [Nodes(kind) -> [at : {"none", "starting", "claimed", "acted", "done"}, result : Results]]
    BY NoneTypes
  <2> QED
    BY <2>1 DEF WorkersInv
<1> QED
  BY <1>2, <1>3, <1>4 DEF WorkersInv, Live, ResultRight, Witness

LEMMA JobsHandlerKeeps ==
    ASSUME Inv, NEW r \in Requests, NEW g, FrameRight(g), frame' = [frame EXCEPT ![r] = g],
           \/ turn' = None /\ script' = <<>>
           \/ /\ turn' = r /\ script' \in Closed
              /\ g.pc \in {"tick", "launch", "resume"},
           UNCHANGED <<durable, world>>, NEW j,
           j \in [Nodes(kind) -> [at : {"none", "starting"}, result : {None}]],
           \A n \in Nodes(kind) : j[n].at # "none" => n # Checkpoint(kind),
           job' = [job EXCEPT ![r] = j]
    PROVE  Inv'
<1>1. UNCHANGED <<kind, plan, node, worker, world>>
  BY DEF durable
<1>2. KindRight
  BY KindOf DEF Inv
<1>3. FramesInv'
  BY <1>1, <1>2, FrameStep DEF Inv
<1>4. WorkersInv' /\ \A n \in Nodes(kind) : ~Live(n) => ~Live(n)'
  BY <1>1, JobsMove DEF Inv
<1>5. ScriptInv'
  BY <1>1, <1>2, <1>4, ScriptStep DEF Inv
<1>6. NodesInv' /\ WorldInv'
  BY <1>1, RowsStep, WorldStep DEF Inv, NodesInv
<1> QED
  BY <1>3, <1>4, <1>5, <1>6 DEF Inv

LEMMA LaunchKeeps == ASSUME Inv, NEW r \in Requests, Launch(r) PROVE Inv'
<1> DEFINE j == [n \in Nodes(kind) |-> IF n \in frame[r].batch THEN [at |-> "starting", result |-> None] ELSE NoJob]
<1>1. frame[r].batch \subseteq Nodes(kind) \ {Checkpoint(kind)} /\ FrameRight(Update(frame[r], [pc |-> "batch", snap |-> <<>>]))
  BY GoesTo, FrameMoves DEF Inv, FramesInv, FrameRight, Frames
<1>2. /\ j \in [Nodes(kind) -> [at : {"none", "starting"}, result : {None}]]
      /\ \A n \in Nodes(kind) : j[n].at # "none" => n # Checkpoint(kind)
  BY <1>1 DEF NoJob
<1>3. /\ job' = [job EXCEPT ![r] = j] /\ UNCHANGED <<durable, world>>
      /\ frame' = [frame EXCEPT ![r] = Update(frame[r], [pc |-> "batch", snap |-> <<>>])]
      /\ turn' = None /\ script' = <<>>
  BY DEF Launch, Await, Inv, FramesInv
<1> HIDE DEF j
<1> QED
  BY <1>1, <1>2, <1>3, JobsHandlerKeeps

(* A worker's result is committed with what it makes true. *)
LEMMA SuccessClosed ==
    ASSUME KindRight, NEW n \in Nodes(kind), NEW verdict \in Verdicts, CompletionRight(n, verdict),
           Runs(n) = "artifact_write" => Noted
    PROVE  AfterSuccess(n, verdict) \in Closed
<1> DEFINE h == NodeTo(n, "completed", [out |-> verdict])
           a == IF n = Composes(kind) THEN <<PlanNote([candidate |-> TRUE])>> ELSE <<>>
           b == IF Runs(n) = "artifact_write" THEN <<PlanNote([artifact |-> TRUE])>> ELSE <<>>
           to == IF verdict = "ok" THEN "completed" ELSE "failed_terminal"
           c == IF n = TerminalVerifier(kind) THEN <<PlanTo(to)>> ELSE <<>>
<1>1. AfterSuccess(n, verdict) = <<h>> \o a \o b \o c
  BY DEF AfterSuccess
<1>2. h \in Right
  <2>1. NodeStepRight(h)
    BY DEF NodeStepRight, NodeTo, Step, NodeStates, NodeNext, Results
  <2> QED
    BY <2>1, NodeToRight
<1>3. a \in Closed /\ b \in Closed
  BY OthersRight, WhatCompletes, ClosedOne, ClosedNone
<1>4. PlanTo(to) \in Right
  BY OthersRight DEF PlanStates, PlanNext
<1>5. <<h>> \in Closed
  BY <1>2, WhatCompletes, ClosedOne
<1>6. CASE n = TerminalVerifier(kind) /\ verdict = "ok"
  <2>1. h = Final
    BY <1>6 DEF Final
  <2>2. c = <<PlanTo("completed")>> /\ PlanTo("completed") \in Right
    BY <1>4, <1>6
  <2> HIDE DEF h, a, b, c
  <2>3. PICK s : s = <<h>> \o a \o b
    OBVIOUS
  <2>4. s \in Closed
    BY <1>3, <1>5, <2>3, ClosedCat
  <2>5. 1 \in DOMAIN s /\ s[1] = h
    <3>1. a \in Seq(Right) /\ b \in Seq(Right)
      BY <1>3 DEF Closed
    <3> QED
      BY <1>2, <2>3, <3>1
  <2>6. s \o <<PlanTo("completed")>> \in Closed
    BY <2>1, <2>2, <2>4, <2>5, ClosedEnd
  <2> QED
    BY <1>1, <2>2, <2>3, <2>6
<1>7. CASE ~(n = TerminalVerifier(kind) /\ verdict = "ok")
  <2>1. c \in Closed
    BY <1>4, <1>7, WhatCompletes, ClosedOne, ClosedNone
  <2> HIDE DEF h, a, b, c
  <2> QED
    BY <1>1, <1>3, <1>5, <2>1, ClosedCat
<1> QED
  BY <1>6, <1>7

LEMMA WriterIs ==
    ASSUME KindRight, NEW n \in Nodes(kind), Runs(n) = "artifact_write"
    PROVE  kind = "artifact" /\ n = "N7"
<1>1. CASE kind = "artifact"
  BY <1>1, ArtifactFacts
<1>2. CASE kind = "live"
  BY <1>2, LiveFacts
<1>3. CASE kind = "compensated"
  BY <1>3, CompensatedFacts
<1>4. CASE kind = "shadow"
  BY <1>4, ShadowFacts
<1> QED
  BY <1>1, <1>2, <1>3, <1>4 DEF KindRight

LEMMA ResultClosed ==
    ASSUME Inv, NEW r \in Requests, NEW n \in Nodes(kind), job[r][n].at = "done"
    PROVE  CommitNodeResult(n, job[r][n].result) \in Closed
<1> DEFINE result == job[r][n].result
<1>1. KindRight
  BY KindOf DEF Inv
<1>2. JobRight(r, n)
  BY DEF Inv, WorkersInv
<1>3. result # None /\ ResultRight(n, result) /\ (result \notin {"error", "unavailable"} => worker[n].recorded # None)
  BY <1>2 DEF JobRight
<1> HIDE DEF result
<1>4. \A to \in {"reconciliation_required", "failed_recoverable"} :
        <<NodeTo(n, to, <<>>), Converge(to)>> \in Closed
  <2> SUFFICES ASSUME NEW to \in {"reconciliation_required", "failed_recoverable"}
               PROVE  <<NodeTo(n, to, <<>>), Converge(to)>> \in Closed
    OBVIOUS
  <2> DEFINE a == NodeTo(n, to, <<>>)
             b == Converge(to)
  <2>1. NodeStepRight(a)
    BY DEF NodeStepRight, NodeTo, Step, NodeStates, NodeNext
  <2>2. a \in Right /\ b \in Right /\ ~Completing(a) /\ ~Completing(b)
    BY <1>1, <2>1, NodeToRight, OthersRight, WhatCompletes
  <2> HIDE DEF a, b
  <2>3. <<a, b>> \in Seq(Right) /\ \A i \in DOMAIN <<a, b>> : <<a, b>>[i] \in {a, b}
    BY <2>2
  <2>4. <<a, b>> \in Closed
    BY <2>2, <2>3, QuietClosed
  <2> QED
    BY <2>4 DEF a, b
<1>5. CASE result = "no" /\ Runs(n) = "verify_claims"
  <2> DEFINE a == NodeTo(n, "failed_terminal", [out |-> "no"])
             b == PlanTo("failed_terminal")
  <2>1. NodeStepRight(a)
    BY <1>5 DEF NodeStepRight, NodeTo, Step, NodeStates, NodeNext, Results, Verdicts
  <2>2. a \in Right /\ b \in Right /\ ~Completing(a) /\ ~Completing(b)
    BY <1>1, <2>1, NodeToRight, OthersRight, WhatCompletes DEF PlanStates, PlanNext
  <2>3. Vetoed(n) = <<a, b>>
    BY DEF Vetoed
  <2> HIDE DEF a, b
  <2>4. <<a, b>> \in Seq(Right) /\ \A i \in DOMAIN <<a, b>> : <<a, b>>[i] \in {a, b}
    BY <2>2
  <2>5. <<a, b>> \in Closed
    BY <2>2, <2>4, QuietClosed
  <2> QED
    BY <1>5, <2>3, <2>5 DEF CommitNodeResult, result
<1>6. CASE result \notin {"error", "unavailable"} /\ ~(result = "no" /\ Runs(n) = "verify_claims")
  <2>1. result \in Verdicts
    BY <1>3, <1>6 DEF ResultRight, Results
  <2>2. CompletionRight(n, result)
    BY <1>3, <1>6 DEF CompletionRight, ResultRight
  <2>3. Runs(n) = "artifact_write" => Noted
    BY <1>1, <1>3, <1>6, WriterIs DEF Noted
  <2>4. AfterSuccess(n, result) \in Closed
    BY <1>1, <2>1, <2>2, <2>3, SuccessClosed
  <2> QED
    BY <1>6, <2>4 DEF CommitNodeResult, result
<1>7. CASE result \in {"error", "unavailable"}
  BY <1>4, <1>7 DEF CommitNodeResult, result
<1> QED
  BY <1>5, <1>6, <1>7

LEMMA CommitBatchKeeps == ASSUME Inv, NEW r \in Requests, CommitBatch(r) PROVE Inv'
<1> DEFINE f == [n \in frame[r].batch |-> CommitNodeResult(n, job[r][n].result)]
<1>1. /\ frame[r].batch \subseteq Nodes(kind) /\ \A n \in frame[r].batch : job[r][n].at = "done"
      /\ FrameRight(Update(frame[r], [pc |-> "tick", batch |-> {}]))
      /\ Update(frame[r], [pc |-> "tick", batch |-> {}]).pc = "tick"
  BY GoesTo, FrameMoves DEF Inv, FramesInv, FrameRight, Frames, CommitBatch
<1>2. DOMAIN f = frame[r].batch /\ \A n \in frame[r].batch : f[n] \in Closed
  BY <1>1, ResultClosed
<1>3. /\ job' = [job EXCEPT ![r] = NoJobs] /\ UNCHANGED <<durable, world>>
      /\ frame' = [frame EXCEPT ![r] = Update(frame[r], [pc |-> "tick", batch |-> {}])]
      /\ turn' = r /\ script' = ForEach(f)
  BY DEF CommitBatch, Enter, Inv, FramesInv
<1> HIDE DEF f
<1>4. script' \in Closed
  BY <1>2, <1>3, ForEachClosed
<1>5. /\ NoJobs \in [Nodes(kind) -> [at : {"none", "starting"}, result : {None}]]
      /\ \A n \in Nodes(kind) : NoJobs[n].at = "none"
  BY DEF NoJobs, NoJob
<1> QED
  BY <1>1, <1>3, <1>4, <1>5, JobsHandlerKeeps

-------------------------------------------------------------------------------
(* A worker's step: it moves its own job while no request holds the process. *)
LEMMA FreeScript ==
    ASSUME Inv, Free, UNCHANGED <<kind, plan, node, script, turn, frame>>
    PROVE  ScriptInv' /\ FramesInv'
<1>1. script' = <<>> /\ script = <<>>
  BY DEF Inv, FramesInv, Free
<1>2. <<>> \in Seq(Right') /\ DOMAIN <<>> = {}
  OBVIOUS
<1>3. script' \in Closed'
  BY <1>1, <1>2 DEF Closed
<1>4. Finished' = Finished
  BY DEF Finished, TerminalVerifier
<1> QED
  BY <1>1, <1>2, <1>3, <1>4 DEF Inv, ScriptInv, FramesInv, FrameRight, Frames

LEMMA RowsStand ==
    ASSUME NodesInv, Standing, UNCHANGED <<plan, node>>
    PROVE  NodesInv'
<1>1. KindRight /\ kind' = kind
  BY KindOf DEF Standing
<1>2. ASSUME NEW n \in Nodes(kind)
      PROVE  /\ node'[n].attempts <= AttemptLimit(Runs(n)')
             /\ node'[n].state \notin {"blocked", "cancelled", "failed_terminal"} => DependenciesDone(node, n)'
             /\ node'[n].state = "completed" => CompletionRight(n, node[n].out)'
             /\ node'[n].out # None => node'[n].state = "completed" \/ Runs(n)' = "verify_claims"
             /\ Lookless(n)' => node'[n].finding = None
  <2>1. Runs(n)' = Runs(n) /\ (Lookless(n)' <=> Lookless(n)) /\ (DependenciesDone(node, n)' <=> DependenciesDone(node, n))
    BY <1>1, RunsStay DEF Lookless, DependenciesDone
  <2>2. CompletionRight(n, node[n].out) => CompletionRight(n, node[n].out)'
    <3> PICK o : o = node[n].out /\ o = node'[n].out
      OBVIOUS
    <3>1. CompletionRight(n, o) => CompletionRight(n, o)'
      BY CompletionStays
    <3> QED
      BY <3>1 DEF CompletionRight, ResultRight, Witness
  <2> QED
    BY <2>1, <2>2 DEF NodesInv
<1>3. plan'.artifact => Noted'
  BY NotedStays DEF NodesInv
<1> QED
  BY <1>1, <1>2, <1>3 DEF NodesInv

JobShape == [at : {"none", "starting", "claimed", "acted", "done"}, result : Results]
LEMMA JobMoves ==
    ASSUME WorkersInv, Standing, NEW r \in Requests, NEW n \in Nodes(kind), NEW x \in JobShape, NEW w,
           w \in [claimed : BOOLEAN, recorded : Results],
           job' = [job EXCEPT ![r][n] = x], worker' = [worker EXCEPT ![n] = w],
           ResultRight(n, w.recorded)',
           x.at # "none" /\ job[r][n].at # "none", ResultRight(n, x.result)',
           x.at \in {"acted", "done"} => x.result # None,
           x.at = "done" /\ x.result \notin {"error", "unavailable"} => w.recorded # None,
           x.at \in {"claimed", "acted"} => /\ w.claimed /\ w.recorded = None
                                            /\ \A q \in Requests : Acting(q, n) => q = r,
           x.at \notin {"claimed", "acted"} /\ ~Acting(r, n) => w = worker[n]
    PROVE  WorkersInv'
<1>1. kind' = kind
  BY DEF Standing
<1>2. job'[r][n] = x /\ worker'[n] = w
  BY DEF WorkersInv
<1>3. /\ \A q \in Requests, m \in Nodes(kind) : ~(q = r /\ m = n) => job'[q][m] = job[q][m]
      /\ \A m \in Nodes(kind) : m # n => worker'[m] = worker[m]
  BY DEF WorkersInv
<1>4. job' \in [Requests -> [Nodes(kind) -> JobShape]]
  BY DEF WorkersInv, JobShape
<1>5. worker' \in [Nodes(kind) -> [claimed : BOOLEAN, recorded : Results]]
  BY DEF WorkersInv
<1>6. \A q \in Requests, m \in Nodes(kind) : ~(q = r /\ m = n) => (Acting(q, m)' <=> Acting(q, m))
  BY <1>3 DEF Acting
<1>7. Acting(r, n)' <=> x.at \in {"claimed", "acted"}
  BY <1>2 DEF Acting
<1>8. ASSUME NEW m \in Nodes(kind) PROVE ResultRight(m, worker[m].recorded)'
  <2>1. CASE m = n
    BY <1>2, <2>1 DEF ResultRight, Witness
  <2>2. CASE m # n
    <3> PICK o : o = worker[m].recorded
      OBVIOUS
    <3>1. ResultRight(m, o)'
      BY ResultStays DEF WorkersInv
    <3>2. worker'[m].recorded = o
      BY <1>3, <2>2
    <3> QED
      BY <3>1, <3>2 DEF ResultRight, Witness
  <2> QED
    BY <2>1, <2>2
<1>9. ASSUME NEW q \in Requests, NEW m \in Nodes(kind) PROVE JobRight(q, m)'
  <2>0. JobRight(q, m) /\ JobRight(r, n)
    BY DEF WorkersInv
  <2>1. CASE q = r /\ m = n
    <3>1. \A p \in Requests : Acting(p, n)' /\ Acting(r, n)' => p = r
      BY <1>6, <1>7
    <3>2. n # Checkpoint(kind)
      BY <2>0 DEF JobRight
    <3> QED
      BY <1>1, <1>2, <1>7, <2>1, <3>1, <3>2 DEF JobRight, ResultRight, Witness, JobShape
  <2>2. CASE m = n /\ q # r
    <3>1. job'[q][n] = job[q][n] /\ (Acting(q, n)' <=> Acting(q, n))
      BY <1>3, <1>6, <2>2
    <3> PICK o : o = job[q][n].result
      OBVIOUS
    <3>2. ResultRight(n, o)'
      BY <2>0, <2>2, ResultStays DEF JobRight
    <3>3. worker[n].recorded # None => w.recorded # None
      BY <1>2 DEF Standing
    <3>4. Acting(q, n) => /\ ~Acting(r, n) /\ x.at \notin {"claimed", "acted"} /\ w = worker[n]
      BY <2>0, <2>2 DEF JobRight
    <3>5. Acting(q, n)' => \A p \in Requests : Acting(p, n)' => p = q
      BY <1>6, <1>7, <2>0, <2>2, <3>1, <3>4 DEF JobRight
    <3> QED
      BY <1>1, <1>2, <2>0, <2>2, <3>1, <3>2, <3>3, <3>4, <3>5 DEF JobRight, ResultRight, Witness
  <2>3. CASE m # n
    <3>1. job'[q][m] = job[q][m] /\ worker'[m] = worker[m] /\ \A p \in Requests : Acting(p, m)' <=> Acting(p, m)
      BY <1>3, <1>6, <2>3
    <3> PICK o : o = job[q][m].result
      OBVIOUS
    <3>2. ResultRight(m, o)'
      BY <2>0, ResultStays DEF JobRight
    <3> QED
      BY <1>1, <2>0, <3>1, <3>2 DEF JobRight, ResultRight, Witness
  <2> QED
    BY <2>1, <2>2, <2>3
<1> QED
  BY <1>1, <1>4, <1>5, <1>8, <1>9 DEF WorkersInv, JobShape

LEMMA JobFacts ==
    ASSUME Inv, NEW r \in Requests, NEW n \in Nodes(kind)
    PROVE  /\ job[r][n] \in JobShape /\ job[r][n] = [at |-> job[r][n].at, result |-> job[r][n].result]
           /\ worker[n] \in [claimed : BOOLEAN, recorded : Results]
           /\ ResultRight(n, worker[n].recorded) /\ JobRight(r, n)
           /\ \A q \in Requests : Acting(q, n) => worker[n].claimed
           /\ \A q \in Requests : Acting(q, n) /\ Acting(r, n) => q = r
<1>1. job[r][n] \in JobShape /\ \A q \in Requests : JobRight(q, n)
  BY DEF Inv, WorkersInv, JobShape
<1> QED
  BY <1>1 DEF Inv, WorkersInv, JobRight, JobShape

LEMMA SameWorld ==
    ASSUME UNCHANGED <<kind, plan, world>>
    PROVE  \A n, o : ResultRight(n, o)' <=> ResultRight(n, o)
BY DEF ResultRight, Witness

(* One field of a row moves. *)
LEMMA RecAt ==
    ASSUME NEW j \in JobShape, NEW a
    PROVE  [j EXCEPT !.at = a] = [at |-> a, result |-> j.result]
BY DEF JobShape

LEMMA RecClaim ==
    ASSUME NEW w \in [claimed : BOOLEAN, recorded : Results], NEW c
    PROVE  [w EXCEPT !.claimed = c] = [claimed |-> c, recorded |-> w.recorded]
OBVIOUS

LEMMA AtMoves ==
    ASSUME WorkersInv, NEW r \in Requests, NEW n \in Nodes(kind), NEW a
    PROVE  [job EXCEPT ![r][n].at = a] = [job EXCEPT ![r][n] = [at |-> a, result |-> job[r][n].result]]
<1>1. job[r][n] \in JobShape
  BY DEF WorkersInv, JobShape
<1>2. [job[r][n] EXCEPT !.at = a] = [at |-> a, result |-> job[r][n].result]
  BY <1>1, RecAt
<1>3. [job EXCEPT ![r][n].at = a] = [job EXCEPT ![r][n] = [job[r][n] EXCEPT !.at = a]]
  BY DEF WorkersInv
<1> QED
  BY <1>2, <1>3

LEMMA ClaimMoves ==
    ASSUME WorkersInv, NEW n \in Nodes(kind), NEW c
    PROVE  [worker EXCEPT ![n].claimed = c] = [worker EXCEPT ![n] = [claimed |-> c, recorded |-> worker[n].recorded]]
<1>1. worker[n] \in [claimed : BOOLEAN, recorded : Results]
  BY DEF WorkersInv
<1>2. [worker[n] EXCEPT !.claimed = c] = [claimed |-> c, recorded |-> worker[n].recorded]
  BY <1>1, RecClaim
<1>3. [worker EXCEPT ![n].claimed = c] = [worker EXCEPT ![n] = [worker[n] EXCEPT !.claimed = c]]
  BY DEF WorkersInv
<1> QED
  BY <1>2, <1>3

LEMMA ClaimKeeps == ASSUME Inv, NEW r \in Requests, NEW n \in Nodes(kind), Claim(r, n) PROVE Inv'
<1>1. UNCHANGED <<kind, plan, node, world, frame, turn, script>> /\ Free /\ job[r][n].at = "starting"
  BY DEF Claim
<1>2. ~Acting(r, n) /\ job[r][n].at # "none" /\ WorkersInv
  BY <1>1 DEF Acting, Inv
<1>3. ResultRight(n, None)' /\ ResultRight(n, "unavailable")'
  <2>1. ResultRight(n, None) /\ ResultRight(n, "unavailable")
    BY NoneTypes DEF ResultRight, Results, None
  <2> QED
    BY <1>1, <2>1, SameWorld
<1> PICK o : o = worker[n].recorded
  OBVIOUS
<1> PICK p : p = job[r][n].result
  OBVIOUS
<1> PICK v : v = worker[n]
  OBVIOUS
<1>4. v \in [claimed : BOOLEAN, recorded : Results] /\ p \in Results /\ ResultRight(n, o)' /\ ResultRight(n, p)'
  <2>1. ResultRight(n, o) /\ ResultRight(n, p) /\ job[r][n] \in JobShape
    BY JobFacts DEF JobRight
  <2> QED
    BY <1>1, <2>1, SameWorld, JobFacts DEF JobShape
<1>5. Standing /\ WorkersInv'
  <2>1. CASE worker[n].recorded # None
    <3>1. PICK x : x = [at |-> "done", result |-> worker[n].recorded]
      OBVIOUS
    <3>2. job' = [job EXCEPT ![r][n] = x] /\ worker' = worker
      BY <2>1, <3>1 DEF Claim
    <3>3. x \in JobShape /\ worker' = [worker EXCEPT ![n] = v] /\ v = worker[n] /\ v.recorded = o /\ Standing
      BY <1>1, <1>2, <1>4, <3>1, <3>2 DEF JobShape, Standing, WorkersInv
    <3>4. x.at = "done" /\ x.result = o /\ o = worker[n].recorded
      BY <3>1
    <3>5. ResultRight(n, x.result)'
      BY <1>4, <3>4 DEF ResultRight, Witness
    <3> QED
      BY <1>2, <1>4, <2>1, <3>2, <3>3, <3>4, <3>5, JobMoves
  <2>2. CASE worker[n].recorded = None /\ worker[n].claimed
    <3>1. PICK x : x = [at |-> "done", result |-> "unavailable"]
      OBVIOUS
    <3>2. job' = [job EXCEPT ![r][n] = x] /\ worker' = worker
      BY <2>2, <3>1 DEF Claim
    <3>3. x \in JobShape /\ worker' = [worker EXCEPT ![n] = v] /\ v = worker[n] /\ v.recorded = o /\ Standing
      BY <1>1, <1>2, <3>1, <3>2 DEF JobShape, Standing, WorkersInv, Results
    <3>4. x.at = "done" /\ x.result = "unavailable" /\ x.result # None
      BY <3>1 DEF None
    <3>5. ResultRight(n, x.result)'
      BY <1>3, <3>4 DEF ResultRight, Witness
    <3>6. ResultRight(n, v.recorded)'
      BY <1>4, <3>3 DEF ResultRight, Witness
    <3> QED
      BY <1>2, <1>4, <2>2, <3>2, <3>3, <3>4, <3>5, <3>6, JobMoves
  <2>3. CASE worker[n].recorded = None /\ ~worker[n].claimed
    <3>1. PICK x : x = [at |-> "claimed", result |-> job[r][n].result]
      OBVIOUS
    <3>2. PICK w : w = [claimed |-> TRUE, recorded |-> worker[n].recorded]
      OBVIOUS
    <3>0. job' = [job EXCEPT ![r][n].at = "claimed"]
      BY <2>3 DEF Claim
    <3>3. job' = [job EXCEPT ![r][n] = x]
      <4>1. [job EXCEPT ![r][n].at = "claimed"] = [job EXCEPT ![r][n] = [at |-> "claimed", result |-> job[r][n].result]]
        BY <1>2, AtMoves
      <4> QED
        BY <3>0, <3>1, <4>1
    <3>4. worker' = [worker EXCEPT ![n] = w]
      BY <1>2, <2>3, <3>2, ClaimMoves DEF Claim
    <3>5. x \in JobShape /\ w \in [claimed : BOOLEAN, recorded : Results]
      BY <1>4, <3>1, <3>2 DEF JobShape
    <3>6. x.at = "claimed" /\ x.result = p /\ w.claimed /\ w.recorded = None
      BY <2>3, <3>1, <3>2
    <3>7. \A q \in Requests : ~Acting(q, n)
      BY <2>3, JobFacts
    <3>8. Standing
      BY <1>1, <1>2, <2>3, <3>4 DEF WorkersInv, Standing
    <3>9. ResultRight(n, x.result)' /\ ResultRight(n, w.recorded)'
      BY <1>3, <1>4, <3>6 DEF ResultRight, Witness
    <3> QED
      BY <1>2, <3>3, <3>4, <3>5, <3>6, <3>7, <3>8, <3>9, JobMoves
  <2> QED
    BY <1>4, <2>1, <2>2, <2>3
<1>6. ScriptInv' /\ FramesInv'
  BY <1>1, FreeScript
<1>7. NodesInv' /\ WorldInv'
  BY <1>1, <1>5, RowsStand, WorldStep DEF Inv
<1> QED
  BY <1>5, <1>6, <1>7 DEF Inv

LEMMA WorkFailsKeeps == ASSUME Inv, NEW r \in Requests, NEW n \in Nodes(kind), WorkFails(r, n) PROVE Inv'
<1>1. PICK x : x = [at |-> "acted", result |-> "error"]
  OBVIOUS
<1>2. UNCHANGED <<kind, plan, node, worker, world, frame, turn, script>> /\ Free /\ Acting(r, n)
      /\ job' = [job EXCEPT ![r][n] = x]
  BY <1>1 DEF WorkFails
<1>3. x \in JobShape /\ x.at = "acted" /\ x.result = "error" /\ x.result # None
  BY <1>1 DEF Results, JobShape, None
<1>4. Standing /\ worker' = [worker EXCEPT ![n] = worker[n]] /\ WorkersInv
  BY <1>2 DEF Standing, Inv, WorkersInv
<1>5. /\ worker[n] \in [claimed : BOOLEAN, recorded : Results] /\ worker[n].claimed /\ worker[n].recorded = None
      /\ job[r][n].at # "none" /\ \A q \in Requests : Acting(q, n) => q = r
  BY <1>2, JobFacts DEF JobRight, Acting
<1>6. ResultRight(n, "error")' /\ ResultRight(n, None)'
  BY NoneTypes DEF ResultRight, Results, None
<1>7. ResultRight(n, x.result)' /\ ResultRight(n, worker[n].recorded)'
  BY <1>2, <1>3, <1>5, <1>6 DEF ResultRight, Witness
<1>8. WorkersInv'
  BY <1>2, <1>3, <1>4, <1>5, <1>7, JobMoves
<1>9. ScriptInv' /\ FramesInv'
  BY <1>2, FreeScript
<1>10. NodesInv' /\ WorldInv'
  BY <1>2, <1>4, RowsStand, WorldStep DEF Inv
<1> QED
  BY <1>8, <1>9, <1>10 DEF Inv

LEMMA RecordKeeps == ASSUME Inv, NEW r \in Requests, NEW n \in Nodes(kind), Record(r, n) PROVE Inv'
<1>1. PICK x : x = [at |-> "done", result |-> job[r][n].result]
  OBVIOUS
<1>2. UNCHANGED <<kind, plan, node, world, frame, turn, script>> /\ Free /\ job[r][n].at = "acted" /\ WorkersInv
  BY DEF Record, Inv
<1>3. /\ Acting(r, n) /\ worker[n].claimed /\ worker[n].recorded = None /\ job[r][n].result # None
      /\ ResultRight(n, job[r][n].result) /\ job[r][n].result \in Results
  BY <1>2, JobFacts DEF Acting, JobRight, JobShape
<1>4. job' = [job EXCEPT ![r][n] = x] /\ x \in JobShape /\ x.at = "done" /\ x.result = job[r][n].result
  BY <1>1, <1>2, <1>3, AtMoves DEF JobShape, Record
<1>5. PICK w \in [claimed : BOOLEAN, recorded : Results] :
         /\ worker' = [worker EXCEPT ![n] = w]
         /\ w.recorded = job[r][n].result \/ (w.recorded = None /\ job[r][n].result = "error")
  <2>1. CASE worker' = [worker EXCEPT ![n] = [claimed |-> FALSE, recorded |-> job[r][n].result]]
    <3>1. [claimed |-> FALSE, recorded |-> job[r][n].result] \in [claimed : BOOLEAN, recorded : Results]
      BY <1>3
    <3> QED
      BY <2>1, <3>1
  <2>2. CASE job[r][n].result = "error" /\ worker' = [worker EXCEPT ![n].claimed = FALSE]
    <3>1. PICK w : w = [claimed |-> FALSE, recorded |-> worker[n].recorded]
      OBVIOUS
    <3>2. worker' = [worker EXCEPT ![n] = w]
      BY <1>2, <2>2, <3>1, ClaimMoves
    <3>3. w \in [claimed : BOOLEAN, recorded : Results] /\ w.recorded = None
      BY <1>3, <3>1, NoneTypes
    <3> QED
      BY <2>2, <3>2, <3>3
  <2> QED
    BY <2>1, <2>2 DEF Record
<1>6. Standing
  BY <1>2, <1>3, <1>5 DEF Standing, WorkersInv
<1>7. ResultRight(n, w.recorded)' /\ ResultRight(n, x.result)'
  <2>1. ResultRight(n, w.recorded) /\ ResultRight(n, x.result)
    BY <1>3, <1>4, <1>5, NoneTypes DEF ResultRight, None
  <2> QED
    BY <1>2, <2>1 DEF ResultRight, Witness
<1>8. \A q \in Requests : Acting(q, n) => q = r
  BY <1>3, JobFacts
<1>9. WorkersInv'
  BY <1>2, <1>3, <1>4, <1>5, <1>6, <1>7, <1>8, JobMoves
<1>10. ScriptInv' /\ FramesInv'
  BY <1>2, FreeScript
<1>11. NodesInv' /\ WorldInv'
  BY <1>2, <1>6, RowsStand, WorldStep DEF Inv
<1> QED
  BY <1>9, <1>10, <1>11 DEF Inv

(* What a worker does to the outside world, and may report of it. *)
Answers == {"ok", "no", "edited", "error"}
OutcomeRight(n, o) ==
  /\ o[1] \in Answers
  /\ kind = "compensated" /\ n = "X4" => o[1] \in {"ok", "error"}
  /\ Witness(n) /\ o[1] = "ok" => o[2].writes > 0 /\ (kind = "artifact" => plan.artifact)
  /\ world.writes > 0 => o[2].writes > 0

LEMMA NothingDone ==
    ASSUME WorldInv, NEW n, NEW a \in Answers, kind = "compensated" /\ n = "X4" => a \in {"ok", "error"},
           Witness(n) /\ a = "ok" => world.writes > 0 /\ (kind = "artifact" => plan.artifact)
    PROVE  \A o \in Same(a) : WorldRight(o[2]) /\ OutcomeRight(n, o)
BY DEF WorldInv, OutcomeRight, Same

LEMMA WriteRight ==
    ASSUME WorldInv, Approved, kind # "shadow", kind # "artifact" => world.writes = 0
    PROVE  WorldRight(Wrote("ours")) /\ Wrote("ours").writes > 0
<1>1. Wrote("ours") = [source |-> "ours", writes |-> world.writes + 1, expired |-> world.expired]
  <2> DEFINE g == [world EXCEPT !.source = "ours", !.writes = world.writes + 1]
  <2>1. DOMAIN g = {"source", "writes", "expired"} /\ g.source = "ours" /\ g.writes = world.writes + 1
        /\ g.expired = world.expired
    BY DEF WorldInv, WorldRight
  <2>2. g = [k \in {"source", "writes", "expired"} |-> g[k]]
    BY DEF WorldInv, WorldRight
  <2>3. Wrote("ours") = g
    BY DEF Wrote
  <2> HIDE DEF g
  <2> QED
    BY <2>1, <2>2, <2>3
<1>2. Wrote("ours").writes = world.writes + 1 /\ world.writes \in Nat
  BY <1>1 DEF WorldInv, WorldRight
<1> QED
  BY <1>1, <1>2 DEF Approved, WorldInv, WorldRight

LEMMA AppliedRight ==
    ASSUME Inv, NEW n \in Nodes(kind), Runs(n) = "apply", worker[n].recorded = None, NEW o \in Applied
    PROVE  WorldRight(o[2]) /\ OutcomeRight(n, o)
<1>1. KindRight /\ WorldInv
  BY KindOf DEF Inv
<1>2. (kind = "live" /\ n = "X4") \/ (kind = "compensated" /\ n = "X4")
  <2>1. CASE kind = "artifact"
    BY <2>1, ArtifactFacts
  <2>2. CASE kind = "live"
    BY <2>2, LiveFacts
  <2>3. CASE kind = "compensated"
    BY <2>3, CompensatedFacts
  <2>4. CASE kind = "shadow"
    BY <2>4, ShadowFacts
  <2> QED
    BY <1>1, <2>1, <2>2, <2>3, <2>4 DEF KindRight
<1>3. \A a \in Same("error") : WorldRight(a[2]) /\ OutcomeRight(n, a)
  BY <1>1, NothingDone DEF Answers
<1>4. CASE ~Approved \/ ~Contract
  BY <1>3, <1>4 DEF Applied
<1>5. ASSUME Approved, world.writes = 0, kind # "shadow", o = <<"ok", Wrote("ours")>>
      PROVE  WorldRight(o[2]) /\ OutcomeRight(n, o)
  BY <1>1, <1>2, <1>5, WriteRight DEF OutcomeRight, Answers
<1>6. CASE Approved /\ Contract /\ kind = "live"
  <2>1. o \in SimulatedApply
    BY <1>6 DEF Applied
  <2>2. ~Witness(n)
    BY <1>2, <1>6 DEF Witness
  <2>3. \A a \in Same("ok") : WorldRight(a[2]) /\ OutcomeRight(n, a)
    BY <1>1, <1>6, <2>2, NothingDone DEF Answers
  <2> QED
    BY <1>3, <1>5, <1>6, <2>1, <2>3 DEF SimulatedApply
<1>7. CASE Approved /\ Contract /\ kind = "compensated"
  <2>1. o \in FirestoreApply
    BY <1>7 DEF Applied
  <2>2. world.source # "gone"
    <3>1. node[n].state = "completed" => worker[n].recorded # None
      BY <1>2, <1>7 DEF Inv, NodesInv, CompletionRight
    <3> QED
      BY <1>1, <1>2, <1>7, <3>1 DEF WorldInv, WorldRight
  <2>3. CASE world.source \in {"ours", "edited"}
    <3>1. world.writes > 0
      BY <1>1, <2>3 DEF WorldInv, WorldRight
    <3>2. "ok" \in Answers /\ kind # "artifact"
      BY <1>7 DEF Answers
    <3>3. \A a \in Same("ok") : WorldRight(a[2]) /\ OutcomeRight(n, a)
      BY <1>1, <3>1, <3>2, NothingDone
    <3> QED
      BY <2>1, <2>3, <3>3 DEF FirestoreApply
  <2>4. CASE world.source = "initial"
    <3>1. world.writes = 0 /\ o = <<"ok", Wrote("ours")>>
      BY <1>1, <1>7, <2>1, <2>4 DEF WorldInv, WorldRight, FirestoreApply
    <3> QED
      BY <1>5, <1>7, <3>1
  <2>5. CASE world.source = "other"
    BY <1>3, <2>1, <2>5 DEF FirestoreApply
  <2> QED
    BY <1>1, <2>2, <2>3, <2>4, <2>5 DEF WorldInv, WorldRight
<1> QED
  BY <1>2, <1>4, <1>6, <1>7

LEMMA CompensatedRight ==
    ASSUME Inv, NEW n \in Nodes(kind), Runs(n) = "compensate", NEW o \in Compensated
    PROVE  WorldRight(o[2]) /\ OutcomeRight(n, o)
<1>1. KindRight /\ WorldInv
  BY KindOf DEF Inv
<1>2. kind = "compensated" /\ n = "X6"
  <2>1. CASE kind = "artifact"
    BY <2>1, ArtifactFacts
  <2>2. CASE kind = "live"
    BY <2>2, LiveFacts
  <2>3. CASE kind = "compensated"
    BY <2>3, CompensatedFacts
  <2>4. CASE kind = "shadow"
    BY <2>4, ShadowFacts
  <2> QED
    BY <1>1, <2>1, <2>2, <2>3, <2>4 DEF KindRight
<1>3. ~Witness(n)
  BY <1>2 DEF Witness
<1>4. \A x \in {"ok", "error"} : \A a \in Same(x) : WorldRight(a[2]) /\ OutcomeRight(n, a)
  BY <1>1, <1>3, NothingDone DEF Answers
<1>5. CASE ~Approved \/ Given("X5") \notin {"ok", "edited"}
  BY <1>4, <1>5 DEF Compensated
<1>6. CASE Approved /\ Given("X5") \in {"ok", "edited"}
  <2>1. o \in FirestoreDelete(Given("X5"))
    BY <1>6 DEF Compensated
  <2>2. node["X4"].state = "completed"
    <3>1. /\ Nodes(kind) = {"X1", "X2", "X3", "X4", "X5", "X6", "X7"} /\ Runs("X5") = "outcome_verify"
          /\ Plan(kind)["X5"].needs = {"X4"}
      BY <1>2, CompensatedFacts DEF CompensatedPlan, N
    <3>2. node["X5"].state = "completed"
      BY <1>6, <3>1 DEF Given, Inv, NodesInv, None
    <3> QED
      BY <3>1, <3>2 DEF Inv, NodesInv, DependenciesDone
  <2>3. ASSUME world.source \in {"ours", "edited"}, o = <<"ok", [world EXCEPT !.source = "gone"]>>
        PROVE  WorldRight(o[2]) /\ OutcomeRight(n, o)
    <3>1. o[2] = [source |-> "gone", writes |-> world.writes, expired |-> world.expired] /\ o[1] = "ok"
      BY <1>1, <2>3 DEF WorldInv, WorldRight
    <3>2. WorldRight(o[2]) /\ o[2].writes = world.writes
      BY <1>1, <1>2, <2>2, <2>3, <3>1 DEF WorldInv, WorldRight
    <3> QED
      BY <1>3, <3>1, <3>2 DEF OutcomeRight, Answers
  <2>4. \/ o \in Same("ok") \/ o \in Same("error")
        \/ world.source \in {"ours", "edited"} /\ o = <<"ok", [world EXCEPT !.source = "gone"]>>
    BY <2>1 DEF FirestoreDelete
  <2> QED
    BY <1>4, <2>3, <2>4
<1> QED
  BY <1>5, <1>6

LEMMA ArtifactWrittenRight ==
    ASSUME Inv, NEW n \in Nodes(kind), Runs(n) = "artifact_write", NEW o \in ArtifactWritten
    PROVE  WorldRight(o[2]) /\ OutcomeRight(n, o)
<1>1. KindRight /\ WorldInv
  BY KindOf DEF Inv
<1>2. kind = "artifact" /\ n = "N7" /\ ~Witness(n)
  BY <1>1, WriterIs DEF Witness
<1>3. CASE Approved
  <2>1. o = <<"ok", Wrote("ours")>>
    BY <1>3 DEF ArtifactWritten
  <2> QED
    BY <1>1, <1>2, <1>3, <2>1, WriteRight DEF OutcomeRight, Answers
<1>4. CASE ~Approved
  BY <1>1, <1>2, <1>4, NothingDone DEF ArtifactWritten, Answers
<1> QED
  BY <1>3, <1>4

(* Every other worker leaves the world as it found it. *)
LEMMA ReadersRight ==
    ASSUME Inv, NEW n \in Nodes(kind), Runs(n) \in Caps \ {"authority", "artifact_write", "apply", "compensate"},
           NEW o \in Outcomes(n)
    PROVE  WorldRight(o[2]) /\ OutcomeRight(n, o)
<1>1. KindRight /\ WorldInv
  BY KindOf DEF Inv
<1>2. ~(kind = "compensated" /\ n = "X4")
  BY CompensatedFacts
<1>3. PICK a \in Answers : /\ o \in Same(a)
                           /\ Witness(n) /\ a = "ok" => world.writes > 0 /\ (kind = "artifact" => plan.artifact)
  <2>1. CASE Runs(n) = "artifact_verify"
    <3>1. o \in Same(IF world.writes > 0 /\ plan.artifact THEN "ok" ELSE "no")
      BY <2>1 DEF Outcomes, ArtifactVerified
    <3> QED
      BY <3>1 DEF Answers
  <2>2. CASE Runs(n) = "outcome_verify"
    <3>1. /\ o \in Same("error") \cup Same("ok") \cup Same("edited") \cup Same("no")
          /\ o \in Same("ok") => world.source = "ours"
      BY <2>2 DEF Outcomes, OutcomeVerified, Same
    <3>2. (world.source = "ours" => world.writes > 0) /\ kind # "artifact"
      BY <1>1, <2>2, ArtifactFacts DEF WorldInv, WorldRight
    <3> QED
      BY <3>1, <3>2 DEF Answers
  <2>3. CASE Runs(n) \notin {"artifact_verify", "outcome_verify"}
    <3>1. ~Witness(n)
      BY <1>2, <2>3, ArtifactFacts, LiveFacts DEF Witness
    <3>2. \E a \in Answers : o \in Same(a)
      BY <2>3 DEF Caps, Answers, Outcomes, Collected, Specialised, ClaimsVerified, Synthesised, Observed, Compiled,
         AbsenceVerified, ShadowAuthorized, ShadowVerified
    <3> QED
      BY <3>1, <3>2
  <2> QED
    BY <2>1, <2>2, <2>3
<1> QED
  BY <1>1, <1>2, <1>3, NothingDone

LEMMA OutcomesRight ==
    ASSUME Inv, NEW n \in Nodes(kind), n # Checkpoint(kind), worker[n].recorded = None, NEW o \in Outcomes(n)
    PROVE  WorldRight(o[2]) /\ OutcomeRight(n, o)
<1>1. Runs(n) \in Caps \ {"authority"}
  BY KindOf, PlanFacts DEF Inv
<1>2. CASE Runs(n) = "artifact_write"
  BY <1>2, ArtifactWrittenRight DEF Outcomes
<1>3. CASE Runs(n) = "apply"
  BY <1>3, AppliedRight DEF Outcomes
<1>4. CASE Runs(n) = "compensate"
  BY <1>4, CompensatedRight DEF Outcomes
<1>5. CASE Runs(n) \notin {"artifact_write", "apply", "compensate"}
  BY <1>1, <1>5, ReadersRight
<1> QED
  BY <1>2, <1>3, <1>4, <1>5

LEMMA WorkKeeps == ASSUME Inv, NEW r \in Requests, NEW n \in Nodes(kind), Work(r, n) PROVE Inv'
<1>1. UNCHANGED <<kind, plan, node, worker, frame, turn, script>> /\ Free /\ job[r][n].at = "claimed" /\ WorkersInv
  BY DEF Work, Inv
<1>2. PICK o \in Outcomes(n) : job' = [job EXCEPT ![r][n] = [at |-> "acted", result |-> o[1]]] /\ world' = o[2]
  BY DEF Work
<1>3. Acting(r, n) /\ n # Checkpoint(kind) /\ worker[n].claimed /\ worker[n].recorded = None
  BY <1>1, JobFacts DEF Acting, JobRight
<1>4. WorldRight(o[2]) /\ OutcomeRight(n, o)
  BY <1>3, OutcomesRight
<1>5. WorldInv'
  BY <1>1, <1>2, <1>4 DEF WorldInv, WorldRight
<1>6. Standing
  BY <1>1, <1>2, <1>4 DEF Standing, OutcomeRight
<1>7. PICK x : x = [at |-> "acted", result |-> o[1]]
  OBVIOUS
<1> PICK v : v = worker[n]
  OBVIOUS
<1>8. x \in JobShape /\ x.at = "acted" /\ x.result = o[1] /\ x.result # None /\ x.result \in Results
  BY <1>4, <1>7 DEF JobShape, OutcomeRight, Answers, Results, Verdicts, None
<1>9. job' = [job EXCEPT ![r][n] = x] /\ worker' = [worker EXCEPT ![n] = v] /\ v \in [claimed : BOOLEAN, recorded : Results]
      /\ v.claimed /\ v.recorded = None
  BY <1>1, <1>2, <1>3, <1>7 DEF WorkersInv
<1>10. ResultRight(n, x.result)'
  BY <1>1, <1>2, <1>4, <1>8 DEF ResultRight, OutcomeRight, Witness
<1>11. ResultRight(n, v.recorded)'
  BY <1>9, NoneTypes DEF ResultRight, None
<1>12. job[r][n].at # "none" /\ \A q \in Requests : Acting(q, n) => q = r
  BY <1>1, <1>3, JobFacts
<1>13. WorkersInv'
  BY <1>1, <1>6, <1>8, <1>9, <1>10, <1>11, <1>12, JobMoves
<1>14. ScriptInv' /\ FramesInv'
  BY <1>1, FreeScript
<1>15. NodesInv'
  BY <1>1, <1>6, RowsStand DEF Inv
<1> QED
  BY <1>5, <1>13, <1>14, <1>15 DEF Inv

-------------------------------------------------------------------------------
(* One savepoint.                                                          *)
LEMMA RowMoves ==
    ASSUME NEW row \in Rows, NEW to \in NodeStates,
           NEW set, set \in {<<>>} \cup [attempts : 1..3] \cup [out : Results]
    PROVE  LET new == [Update(row, set) EXCEPT !.state = to] IN
           /\ new \in Rows /\ new.state = to /\ new.finding = row.finding
           /\ new.attempts = IF "attempts" \in DOMAIN set THEN set.attempts ELSE row.attempts
           /\ new.out = IF "out" \in DOMAIN set THEN set.out ELSE row.out
           /\ "attempts" \in DOMAIN set => set \in [attempts : 1..3]
           /\ "out" \in DOMAIN set => set \in [out : Results]
<1> DEFINE u == Update(row, set)
           new == [u EXCEPT !.state = to]
<1>1. DOMAIN row = {"state", "attempts", "out", "finding"}
  BY DEF Rows
<1>2. /\ "attempts" \in DOMAIN set => set \in [attempts : 1..3]
      /\ "out" \in DOMAIN set => set \in [out : Results]
      /\ "finding" \notin DOMAIN set
  <2>1. CASE set = <<>>
    BY <2>1
  <2>2. CASE set \in [attempts : 1..3]
    BY <2>2
  <2>3. CASE set \in [out : Results]
    BY <2>3
  <2> QED
    BY <2>1, <2>2, <2>3
<1>3. /\ DOMAIN u = {"state", "attempts", "out", "finding"}
      /\ u.attempts = IF "attempts" \in DOMAIN set THEN set.attempts ELSE row.attempts
      /\ u.out = IF "out" \in DOMAIN set THEN set.out ELSE row.out
      /\ u.finding = row.finding
  <2>1. DOMAIN u = DOMAIN row
    BY DEF Update
  <2>2. \A x \in DOMAIN row : u[x] = IF x \in DOMAIN set THEN set[x] ELSE row[x]
    BY DEF Update
  <2> HIDE DEF u
  <2> QED
    BY <1>1, <1>2, <2>1, <2>2
<1>4. DOMAIN new = {"state", "attempts", "out", "finding"} /\ new = [f \in DOMAIN u |-> new[f]]
      /\ new.state = to /\ new.attempts = u.attempts /\ new.out = u.out /\ new.finding = u.finding
  <2> HIDE DEF u
  <2> QED
    BY <1>3
<1>5. new \in Rows
  <2>1. /\ u.attempts \in 0..3 /\ u.out \in Results /\ u.finding \in Findings \cup {None}
    <3> HIDE DEF u
    <3> QED
      BY <1>2, <1>3 DEF Rows
  <2>2. new = [state |-> new.state, attempts |-> new.attempts, out |-> new.out, finding |-> new.finding]
    <3> HIDE DEF u, new
    <3> QED
      BY <1>3, <1>4
  <2> HIDE DEF u, new
  <2> QED
    BY <1>4, <2>1, <2>2 DEF Rows
<1> QED
  BY <1>2, <1>3, <1>4, <1>5

LEMMA RowAudited ==
    ASSUME NEW row \in Rows, NEW set \in [finding : Findings]
    PROVE  LET new == Update(row, set) IN
           /\ new \in Rows /\ new.state = row.state /\ new.attempts = row.attempts /\ new.out = row.out
           /\ new.finding \in Findings
<1> DEFINE u == Update(row, set)
<1>1. DOMAIN row = {"state", "attempts", "out", "finding"} /\ DOMAIN set = {"finding"}
  BY DEF Rows
<1>2. /\ DOMAIN u = {"state", "attempts", "out", "finding"} /\ u.state = row.state /\ u.attempts = row.attempts
      /\ u.out = row.out /\ u.finding = set.finding
  BY <1>1, Updated
<1>3. u = [f \in DOMAIN row |-> u[f]]
  BY DEF Update
<1>4. u = [state |-> row.state, attempts |-> row.attempts, out |-> row.out, finding |-> set.finding]
  <2> HIDE DEF u
  <2> QED
    BY <1>1, <1>2, <1>3
<1>5. u \in Rows /\ u.finding \in Findings
  <2> HIDE DEF u
  <2> QED
    BY <1>2, <1>4 DEF Rows
<1> QED
  BY <1>2, <1>5

(* What one savepoint does to one row. *)
LEMMA RowAfter ==
    ASSUME NodesInv, NEW s \in Right, Permitted(s), NEW n \in Nodes(kind)
    PROVE  LET new == NodeAfter(s)[n] IN
           \/ new = node[n] /\ ~(s.do = "node" /\ s.id = n)
           \/ /\ s.do = "audit" /\ s.id = n /\ ~Lookless(n)
              /\ new \in Rows /\ new.state = node[n].state /\ new.attempts = node[n].attempts /\ new.out = node[n].out
           \/ /\ s.do = "node" /\ s.id = n /\ NodeStepRight(s) /\ s.to \in NodeNext[node[n].state]
              /\ new \in Rows /\ new.state = s.to /\ new.finding = node[n].finding
              /\ IF "attempts" \in DOMAIN s.set
                 THEN new.attempts = s.set.attempts /\ s.set.attempts \in 1..AttemptLimit(Runs(n))
                 ELSE new.attempts = node[n].attempts
              /\ IF "out" \in DOMAIN s.set THEN new.out = s.set.out ELSE new.out = node[n].out
<1> DEFINE new == NodeAfter(s)[n]
<1>1. StepRight(s) /\ node \in [Nodes(kind) -> Rows] /\ node[n] \in Rows
  BY DEF Right, NodesInv
<1>2. CASE s.do = "audit"
  <2>1. NodeAfter(s) = [node EXCEPT ![s.id] = Update(node[s.id], s.set)]
    BY <1>1, <1>2 DEF NodeAfter
  <2>2. CASE s.id = n
    <3>1. new = Update(node[n], s.set)
      BY <1>1, <2>1, <2>2
    <3>2. s.set \in [finding : Findings] /\ ~Lookless(n)
      BY <1>1, <1>2, <2>2 DEF StepRight
    <3> QED
      BY <1>1, <1>2, <2>2, <3>1, <3>2, RowAudited
  <2>3. CASE s.id # n
    BY <1>1, <2>1, <2>3
  <2> QED
    BY <2>2, <2>3
<1>3. CASE s.do = "node"
  <2>1. NodeAfter(s) = [node EXCEPT ![s.id] = [Update(node[s.id], s.set) EXCEPT !.state = s.to]]
    BY <1>1, <1>3 DEF NodeAfter
  <2>2. NodeStepRight(s)
    BY <1>1, <1>3 DEF StepRight
  <2>3. CASE s.id = n
    <3>1. new = [Update(node[n], s.set) EXCEPT !.state = s.to]
      BY <1>1, <2>1, <2>3
    <3>2. AttemptLimit(Runs(n)) \in 1..3
      BY DEF AttemptLimit
    <3>3. s.set \in {<<>>} \cup [attempts : 1..AttemptLimit(Runs(n))] \cup [out : Results] /\ s.to \in NodeStates
      BY <2>2, <2>3 DEF NodeStepRight
    <3>4. s.set \in {<<>>} \cup [attempts : 1..3] \cup [out : Results]
      BY <3>2, <3>3
    <3>5. "attempts" \in DOMAIN s.set => s.set.attempts \in 1..AttemptLimit(Runs(n))
      <4>1. CASE s.set = <<>>
        BY <4>1
      <4>2. CASE s.set \in [out : Results]
        BY <4>2
      <4> QED
        BY <3>3, <4>1, <4>2
    <3>6. s.to \in NodeNext[node[n].state]
      BY <1>3, <2>3 DEF Permitted
    <3> QED
      BY <1>1, <1>3, <2>2, <2>3, <3>1, <3>3, <3>4, <3>5, <3>6, RowMoves
  <2>4. CASE s.id # n
    BY <1>1, <2>1, <2>4
  <2> QED
    BY <2>3, <2>4
<1>4. CASE s.do \notin {"audit", "node"}
  BY <1>4 DEF NodeAfter
<1> QED
  BY <1>2, <1>3, <1>4

LEMMA PlanAfterRight ==
    ASSUME NodesInv, NEW s \in Right, Permitted(s)
    PROVE  /\ PlanAfter(s) \in [status : PlanStates, candidate : BOOLEAN, approved : BOOLEAN, artifact : BOOLEAN]
           /\ plan.candidate => PlanAfter(s).candidate
           /\ plan.approved => PlanAfter(s).approved
           /\ plan.artifact => PlanAfter(s).artifact
           /\ PlanAfter(s).artifact => plan.artifact \/ Noted
           /\ PlanAfter(s).status = "completed" => plan.status = "completed" \/ Completing(s)
<1>1. StepRight(s) /\ plan \in [status : PlanStates, candidate : BOOLEAN, approved : BOOLEAN, artifact : BOOLEAN]
  BY DEF Right, NodesInv
<1>2. CASE MovesPlan(s)
  <2>1. s.to \in PlanNext[plan.status]
    BY <1>2 DEF Permitted
  <2>2. s.to \in PlanStates
    BY <1>1, <2>1 DEF PlanStates, PlanNext
  <2>3. s.to = "completed" => Completing(s)
    BY <1>1, <1>2 DEF MovesPlan, StepRight, Completing
  <2>4. PlanAfter(s) = [plan EXCEPT !.status = s.to]
    BY <1>2 DEF PlanAfter
  <2> QED
    BY <1>1, <2>2, <2>3, <2>4
<1>3. CASE ~MovesPlan(s) /\ s.do = "note"
  <2>1. /\ s.set \in {[candidate |-> TRUE], [approved |-> TRUE], [artifact |-> TRUE]}
        /\ "artifact" \in DOMAIN s.set => Noted
        /\ PlanAfter(s) = Update(plan, s.set)
    BY <1>1, <1>3 DEF StepRight, PlanAfter
  <2>2. DOMAIN plan = {"status", "candidate", "approved", "artifact"}
    BY <1>1
  <2> DEFINE u == Update(plan, s.set)
  <2>3. /\ DOMAIN u = DOMAIN plan /\ u = [f \in DOMAIN plan |-> u[f]]
        /\ \A f \in DOMAIN plan : u[f] = IF f \in DOMAIN s.set THEN s.set[f] ELSE plan[f]
    BY DEF Update
  <2> HIDE DEF u
  <2>4. /\ u.status = plan.status /\ u.candidate \in BOOLEAN /\ u.approved \in BOOLEAN /\ u.artifact \in BOOLEAN
        /\ plan.candidate => u.candidate
        /\ plan.approved => u.approved
        /\ plan.artifact => u.artifact
        /\ u.artifact => plan.artifact \/ Noted
    <3>1. CASE s.set = [candidate |-> TRUE]
      <4>1. DOMAIN s.set = {"candidate"} /\ s.set.candidate = TRUE
        BY <3>1
      <4> QED
        BY <1>1, <2>2, <2>3, <4>1
    <3>2. CASE s.set = [approved |-> TRUE]
      <4>1. DOMAIN s.set = {"approved"} /\ s.set.approved = TRUE
        BY <3>2
      <4> QED
        BY <1>1, <2>2, <2>3, <4>1
    <3>3. CASE s.set = [artifact |-> TRUE]
      <4>1. DOMAIN s.set = {"artifact"} /\ s.set.artifact = TRUE /\ Noted
        BY <2>1, <3>3
      <4> QED
        BY <1>1, <2>2, <2>3, <4>1
    <3> QED
      BY <2>1, <3>1, <3>2, <3>3
  <2>5. u = [status |-> u.status, candidate |-> u.candidate, approved |-> u.approved, artifact |-> u.artifact]
    BY <2>2, <2>3
  <2>6. u \in [status : PlanStates, candidate : BOOLEAN, approved : BOOLEAN, artifact : BOOLEAN]
    BY <1>1, <2>4, <2>5
  <2> QED
    BY <2>1, <2>4, <2>6 DEF u
<1>4. CASE ~MovesPlan(s) /\ s.do # "note"
  BY <1>1, <1>4 DEF PlanAfter
<1> QED
  BY <1>2, <1>3, <1>4

LEMMA CommitRows ==
    ASSUME Inv, NEW s \in Right, Permitted(s), node' = NodeAfter(s), plan' = PlanAfter(s), worker' = WorkerAfter(s),
           UNCHANGED <<kind, world, job>>
    PROVE  /\ Standing /\ NodesInv' /\ WorldInv'
           /\ \A n \in Nodes(kind) : node[n].state = "completed" =>
                node'[n].state = "completed" /\ node'[n].out = node[n].out
           /\ s = Final => Finished'
<1>1. KindRight /\ NodesInv /\ kind' = kind
  BY KindOf DEF Inv
<1>2. ASSUME NEW n \in Nodes(kind), node[n].state = "completed"
      PROVE  node'[n].state = "completed" /\ node'[n].out = node[n].out
  <2>1. NodeNext[node[n].state] = {}
    BY <1>2 DEF NodeNext
  <2> QED
    BY <1>1, <1>2, <2>1, RowAfter
<1>3. \A n \in Nodes(kind) : worker'[n].recorded = worker[n].recorded
  <2>1. \A n \in Nodes(kind) : worker[n] \in [claimed : BOOLEAN, recorded : Results]
    BY DEF Inv, WorkersInv
  <2>2. CASE s.do = "retire"
    <3>1. worker' = [worker EXCEPT ![s.id].claimed = FALSE]
      BY <2>2 DEF WorkerAfter
    <3> QED
      BY <2>1, <3>1 DEF Inv, WorkersInv
  <2>3. CASE s.do # "retire"
    BY <2>3 DEF WorkerAfter
  <2> QED
    BY <2>2, <2>3
<1>4. Standing
  BY <1>1, <1>2, <1>3, PlanAfterRight DEF Standing
<1>5. ASSUME NEW n \in Nodes(kind)
      PROVE  /\ node'[n] \in Rows /\ node'[n].attempts <= AttemptLimit(Runs(n)')
             /\ node'[n].state \notin {"blocked", "cancelled", "failed_terminal"} => DependenciesDone(node, n)'
             /\ node'[n].state = "completed" => CompletionRight(n, node[n].out)'
             /\ node'[n].out # None => node'[n].state = "completed" \/ Runs(n)' = "verify_claims"
             /\ Lookless(n)' => node'[n].finding = None
  <2>1. Runs(n)' = Runs(n) /\ (Lookless(n)' <=> Lookless(n)) /\ (DependenciesDone(node, n) => DependenciesDone(node, n)')
    BY <1>1, <1>4, RunsStay, DoneStays DEF Lookless
  <2> PICK old : old = node[n]
    OBVIOUS
  <2> PICK new : new = node'[n]
    OBVIOUS
  <2>2. /\ old \in Rows /\ old.attempts <= AttemptLimit(Runs(n)) /\ AttemptLimit(Runs(n)) \in 1..3
        /\ old.state \notin {"blocked", "cancelled", "failed_terminal"} => DependenciesDone(node, n)
        /\ old.state = "completed" => CompletionRight(n, old.out)'
        /\ old.out # None => old.state = "completed" \/ Runs(n) = "verify_claims"
        /\ Lookless(n) => old.finding = None
    <3>1. old.state = "completed" => CompletionRight(n, old.out)
      BY <1>1 DEF NodesInv
    <3> QED
      BY <1>1, <1>4, <3>1, CompletionStays DEF NodesInv, AttemptLimit
  <2>3. (new.state = "completed" => CompletionRight(n, new.out)')
        => (node'[n].state = "completed" => CompletionRight(n, node[n].out)')
    BY DEF CompletionRight, ResultRight, Witness
  <2>4. CASE new = old
    BY <2>1, <2>2, <2>3, <2>4
  <2>5. CASE /\ s.do = "audit" /\ s.id = n /\ ~Lookless(n)
             /\ new \in Rows /\ new.state = old.state /\ new.attempts = old.attempts /\ new.out = old.out
    BY <2>1, <2>2, <2>3, <2>5
  <2>6. CASE /\ s.do = "node" /\ s.id = n /\ NodeStepRight(s) /\ s.to \in NodeNext[old.state]
             /\ new \in Rows /\ new.state = s.to /\ new.finding = old.finding
             /\ IF "attempts" \in DOMAIN s.set
                THEN new.attempts = s.set.attempts /\ s.set.attempts \in 1..AttemptLimit(Runs(n))
                ELSE new.attempts = old.attempts
             /\ IF "out" \in DOMAIN s.set THEN new.out = s.set.out ELSE new.out = old.out
    <3>1. new.attempts <= AttemptLimit(Runs(n))
      BY <2>2, <2>6
    <3>2. new.state \notin {"blocked", "cancelled", "failed_terminal"} => DependenciesDone(node, n)'
      <4>1. CASE s.to = "ready"
        BY <2>1, <2>6, <4>1 DEF NodeStepRight
      <4>2. CASE s.to # "ready"
        <5>1. s.to \notin {"blocked", "cancelled", "failed_terminal"} => old.state \notin {"blocked", "cancelled", "failed_terminal"}
          BY <2>2, <2>6, <4>2 DEF NodeNext, Rows, NodeStates
        <5> QED
          BY <2>1, <2>2, <2>6, <5>1
      <4> QED
        BY <4>1, <4>2
    <3>3. new.state = "completed" => CompletionRight(n, new.out)'
      <4>1. s.to = "completed" => "out" \in DOMAIN s.set /\ CompletionRight(n, s.set.out)
        BY <2>6 DEF NodeStepRight
      <4>2. s.to = "completed" => CompletionRight(n, s.set.out)'
        BY <1>4, <4>1, CompletionStays
      <4> QED
        BY <2>6, <4>1, <4>2 DEF CompletionRight, ResultRight, Witness
    <3>4. new.out # None => new.state = "completed" \/ Runs(n) = "verify_claims"
      <4>1. old.state # "completed"
        BY <2>6 DEF NodeNext
      <4>2. CASE "out" \in DOMAIN s.set
        BY <2>6, <4>2 DEF NodeStepRight
      <4>3. CASE "out" \notin DOMAIN s.set
        BY <2>2, <2>6, <4>1, <4>3
      <4> QED
        BY <4>2, <4>3
    <3> QED
      BY <2>1, <2>2, <2>3, <2>6, <3>1, <3>2, <3>3, <3>4
  <2>7. node'[n] = NodeAfter(s)[n]
    OBVIOUS
  <2> QED
    BY <1>1, <2>4, <2>5, <2>6, <2>7, RowAfter
<1>6. node' \in [Nodes(kind) -> Rows]
  <2>1. node' = [n \in Nodes(kind) |-> node'[n]]
    BY <1>1 DEF NodeAfter, NodesInv
  <2> QED
    BY <1>5, <2>1
<1>7. NodesInv'
  <2>1. plan'.artifact => Noted'
    BY <1>1, <1>4, PlanAfterRight, NotedStays DEF NodesInv
  <2> QED
    BY <1>1, <1>5, <1>6, <2>1, PlanAfterRight DEF NodesInv
<1>8. WorldInv'
  <2>1. (plan.candidate => plan'.candidate) /\ (plan.approved => plan'.approved)
    BY <1>1, PlanAfterRight
  <2>2. kind = "compensated" /\ node["X4"].state = "completed" => node'["X4"].state = "completed"
    BY <1>2, CompensatedFacts
  <2> QED
    BY <1>1, <2>1, <2>2 DEF Inv, WorldInv, WorldRight
<1>9. ASSUME s = Final PROVE Finished'
  <2> DEFINE n == TerminalVerifier(kind)
  <2>1. n \in Nodes(kind) /\ s.do = "node" /\ s.id = n /\ s.to = "completed" /\ s.set = [out |-> "ok"]
    BY <1>1, <1>9, PlanFacts DEF Final, NodeTo, Step
  <2>2. "out" \in DOMAIN s.set /\ s.set.out = "ok"
    BY <2>1
  <2>3. node'[n].state = "completed" /\ node'[n].out = "ok"
    BY <1>1, <2>1, <2>2, RowAfter
  <2>4. TerminalVerifier(kind)' = n
    BY <1>1 DEF TerminalVerifier
  <2> QED
    BY <2>3, <2>4 DEF Finished
<1> QED
  BY <1>2, <1>4, <1>7, <1>8, <1>9


LEMMA CommitWorkers ==
    ASSUME Inv, Standing, NEW s \in Right, worker' = WorkerAfter(s), UNCHANGED <<kind, world, job>>
    PROVE  WorkersInv'
<1>1. StepRight(s) /\ WorkersInv /\ (plan.artifact => plan'.artifact)
  BY DEF Right, Inv, Standing
<1>2. CASE s.do = "retire"
  <2>1. s.id \in Nodes(kind) /\ ~Live(s.id)
    BY <1>1, <1>2 DEF StepRight
  <2>2. worker' = [worker EXCEPT ![s.id].claimed = FALSE]
    BY <1>2 DEF WorkerAfter
  <2>3. worker \in [Nodes(kind) -> [claimed : BOOLEAN, recorded : Results]]
    BY <1>1 DEF WorkersInv
  <2>4. worker' \in [Nodes(kind) -> [claimed : BOOLEAN, recorded : Results]]
    BY <2>1, <2>2, <2>3
  <2>5. \A n \in Nodes(kind) : worker'[n].recorded = worker[n].recorded
    BY <2>1, <2>2, <2>3
  <2>6. \A n \in Nodes(kind) : n # s.id => worker'[n] = worker[n]
    BY <2>1, <2>2, <2>3
  <2>7. ASSUME NEW n \in Nodes(kind) PROVE ResultRight(n, worker[n].recorded)'
    <3> PICK o : o = worker[n].recorded
      OBVIOUS
    <3>1. ResultRight(n, o) /\ worker'[n].recorded = o
      BY <1>1, <2>5 DEF WorkersInv
    <3> QED
      BY <1>1, <3>1 DEF ResultRight, Witness
  <2>8. ASSUME NEW r \in Requests, NEW n \in Nodes(kind) PROVE JobRight(r, n)'
    <3>1. JobRight(r, n) /\ worker'[n].recorded = worker[n].recorded
      BY <1>1, <2>5 DEF WorkersInv
    <3>2. \A q : Acting(q, n)' <=> Acting(q, n)
      BY DEF Acting
    <3>3. Acting(r, n) => n # s.id
      BY <2>1 DEF Live
    <3>4. Acting(r, n) => worker'[n] = worker[n]
      BY <2>6, <3>3
    <3> QED
      BY <1>1, <3>1, <3>2, <3>4 DEF JobRight, ResultRight, Witness, Checkpoint
  <2>9. job \in [Requests -> [Nodes(kind) -> [at : {"none", "starting", "claimed", "acted", "done"}, result : Results]]]
    BY <1>1 DEF WorkersInv
  <2> QED
    BY <2>4, <2>7, <2>8, <2>9 DEF WorkersInv
<1>3. CASE s.do # "retire"
  BY <1>1, <1>3, WorkersStep DEF WorkerAfter
<1> QED
  BY <1>2, <1>3

LEMMA CommitKeeps == ASSUME Inv, Commit PROVE Inv'
<1> DEFINE s == Head(script)
<1>1. KindRight /\ ScriptInv /\ FramesInv
  BY KindOf DEF Inv
<1>2. /\ script # <<>> /\ script' = Tail(script) /\ UNCHANGED <<kind, world, job, frame>>
      /\ Permitted(s) /\ plan' = PlanAfter(s) /\ node' = NodeAfter(s) /\ worker' = WorkerAfter(s)
      /\ turn' = IF Tail(script) = <<>> /\ frame[turn].pc = "idle" THEN None ELSE turn
  BY DEF Commit
<1>3. s \in Right /\ Tail(script) \in Seq(Right)
  BY <1>1, <1>2 DEF ScriptInv
<1> HIDE DEF s
<1>4. /\ Standing /\ NodesInv' /\ WorldInv'
      /\ Finished => Finished'
      /\ s = Final => Finished'
  BY <1>1, <1>2, <1>3, CommitRows, FinishedStays DEF Inv
<1>5. WorkersInv'
  BY <1>2, <1>3, <1>4, CommitWorkers
<1>6. \A n \in Nodes(kind) : ~Live(n) => ~Live(n)'
  BY <1>2 DEF Live, Acting
<1>7. ScriptInv'
  <2>1. script' \in Seq(Right')
    BY <1>1, <1>2, <1>3, <1>4, <1>6, ClosedStays
  <2>2. CASE Finished
    BY <1>4, <2>1, <2>2 DEF ScriptInv
  <2>3. CASE ~Finished
    <3>1. script \in Closed /\ plan.status # "completed"
      BY <1>1, <2>3 DEF ScriptInv
    <3>2. ~Completing(s) /\ (s # Final => Tail(script) \in Closed)
      BY <1>2, <3>1, ClosedTail DEF s
    <3>3. plan'.status # "completed"
      BY <1>2, <1>3, <3>1, <3>2, PlanAfterRight DEF Inv
    <3>4. s # Final => script' \in Closed'
      BY <1>1, <1>2, <1>4, <1>6, <3>2, ClosedStays
    <3> QED
      BY <1>4, <2>1, <3>3, <3>4 DEF ScriptInv
  <2> QED
    BY <2>2, <2>3
<1>8. FramesInv'
  <2>1. turn # None
    BY <1>1, <1>2 DEF FramesInv
  <2>2. \A f : FrameRight(f) => FrameRight(f)'
    BY <1>2 DEF FrameRight, Frames
  <2>3. ASSUME NEW q \in Requests PROVE FrameRight(frame[q])'
    <3> PICK f : f = frame[q]
      OBVIOUS
    <3>1. FrameRight(f)'
      BY <1>1, <2>2 DEF FramesInv
    <3> QED
      BY <1>2, <3>1 DEF FrameRight
  <2>4. turn' \in Requests \cup {None} /\ (turn' = None => script' = <<>>)
    <3>1. turn' = None => turn = None \/ Tail(script) = <<>>
      BY <1>2
    <3> QED
      BY <1>1, <1>2, <2>1, <3>1 DEF FramesInv
  <2>5. turn' # None => \/ frame'[turn'].pc \in {"tick", "launch", "resume"}
                        \/ frame'[turn'].pc = "idle" /\ script' # <<>>
    BY <1>1, <1>2, <2>1 DEF FramesInv
  <2>6. frame' = [r \in Requests |-> frame'[r]]
    BY <1>1, <1>2 DEF FramesInv
  <2> QED
    BY <2>3, <2>4, <2>5, <2>6 DEF FramesInv
<1> QED
  BY <1>4, <1>5, <1>7, <1>8 DEF Inv

LEMMA RefuseKeeps == ASSUME Inv, Refuse PROVE Inv'
<1>1. turn # None /\ turn \in Requests
  BY DEF Refuse, Inv, FramesInv
<1>2. FrameRight(Idle)
  BY KindOf, IdleRight DEF Inv
<1>3. UNCHANGED <<durable, world, job>>
  BY DEF Refuse, durable
<1> QED
  BY <1>1, <1>2, <1>3, HandlerKeeps DEF Refuse

(* The process stops: requests and workers are gone, the rows stay. *)
LEMMA CrashKeeps == ASSUME Inv, Crash PROVE Inv'
<1>1. KindRight /\ UNCHANGED <<kind, plan, node, worker, world>> /\ script' = <<>> /\ turn' = None
      /\ frame' = [r \in Requests |-> Idle] /\ job' = [r \in Requests |-> NoJobs]
  BY KindOf DEF Inv, Crash, durable
<1>2. FramesInv'
  <2>1. FrameRight(Idle)'
    BY <1>1, IdleRight DEF FrameRight, Frames, Idle
  <2>2. ASSUME NEW q \in Requests PROVE FrameRight(frame[q])'
    BY <1>1, <2>1 DEF FrameRight
  <2> QED
    BY <1>1, <2>2 DEF FramesInv
<1>3. job' = [r \in Requests |-> [n \in Nodes(kind) |-> [at |-> "none", result |-> None]]]
  BY <1>1 DEF NoJobs, NoJob
<1>4. WorkersInv'
  <2>1. ASSUME NEW n \in Nodes(kind) PROVE ResultRight(n, worker[n].recorded)'
    <3> PICK o : o = worker[n].recorded
      OBVIOUS
    <3>1. ResultRight(n, o) /\ worker'[n].recorded = o
      BY <1>1 DEF Inv, WorkersInv
    <3> QED
      BY <1>1, <3>1 DEF ResultRight, Witness
  <2>2. \A n \in Nodes(kind) : ResultRight(n, None)'
    BY NoneTypes DEF ResultRight, None
  <2>3. ASSUME NEW r \in Requests, NEW n \in Nodes(kind) PROVE JobRight(r, n)'
    <3>1. job'[r][n].at = "none" /\ job'[r][n].result = None
      BY <1>1, <1>3
    <3> QED
      BY <2>2, <3>1 DEF JobRight, Acting, ResultRight
  <2>4. worker' \in [Nodes(kind) -> [claimed : BOOLEAN, recorded : Results]]
    BY <1>1 DEF Inv, WorkersInv
  <2> QED
    BY <1>1, <1>3, <2>1, <2>3, <2>4, NoneTypes DEF WorkersInv
<1>5. \A n \in Nodes(kind) : ~Live(n)'
  BY <1>1, <1>3 DEF Live, Acting
<1>6. ScriptInv'
  BY <1>1, <1>5, ScriptStep DEF Inv
<1>7. NodesInv' /\ WorldInv'
  BY <1>1, RowsStep, WorldStep DEF Inv, NodesInv
<1> QED
  BY <1>2, <1>4, <1>6, <1>7 DEF Inv


(* What others do to the world counts no write and leaves the rest alone. *)
LEMMA WorldMoves ==
    ASSUME Inv, UNCHANGED <<durable, job, frame, turn, script>>, world'.writes = world.writes,
           WorldRight(world)'
    PROVE  Inv'
<1>1. KindRight /\ UNCHANGED <<kind, plan, node, worker, job, frame, turn, script>>
  BY KindOf DEF Inv, durable
<1>2. \A n, o : ResultRight(n, o) => ResultRight(n, o)'
  BY <1>1 DEF ResultRight, Witness
<1>3. FramesInv'
  BY <1>1 DEF Inv, FramesInv, FrameRight, Frames
<1>4. NodesInv'
  <2>1. \A n \in Nodes(kind) : node[n].state = "completed" => CompletionRight(n, node[n].out)'
    <3> SUFFICES ASSUME NEW n \in Nodes(kind), node[n].state = "completed" PROVE CompletionRight(n, node[n].out)'
      OBVIOUS
    <3> PICK o : o = node[n].out
      OBVIOUS
    <3>1. CompletionRight(n, o)
      BY DEF Inv, NodesInv
    <3> QED
      BY <1>1, <3>1 DEF CompletionRight, ResultRight, Witness
  <2> QED
    BY <1>1, <2>1 DEF Inv, NodesInv, Noted, Lookless, Runs, DependenciesDone
<1>5. WorkersInv'
  <2>1. ASSUME NEW n \in Nodes(kind) PROVE ResultRight(n, worker[n].recorded)'
    <3> PICK o : o = worker[n].recorded
      OBVIOUS
    <3>1. ResultRight(n, o)'
      BY <1>2 DEF Inv, WorkersInv
    <3> QED
      BY <1>1, <3>1 DEF ResultRight, Witness
  <2>2. ASSUME NEW r \in Requests, NEW n \in Nodes(kind) PROVE JobRight(r, n)'
    <3>1. JobRight(r, n)
      BY DEF Inv, WorkersInv
    <3> QED
      BY <1>1, <3>1 DEF JobRight, ResultRight, Witness, Acting
  <2> QED
    BY <1>1, <2>1, <2>2 DEF Inv, WorkersInv
<1>6. ScriptInv'
  <2>1. Standing
    BY <1>1 DEF Standing
  <2>2. \A n \in Nodes(kind) : ~Live(n) => ~Live(n)'
    BY <1>1 DEF Live, Acting
  <2>3. Finished' = Finished
    BY <1>1 DEF Finished, TerminalVerifier
  <2>4. script' \in Seq(Right') /\ (script \in Closed => script' \in Closed')
    BY <1>1, <2>1, <2>2, ClosedStays DEF Inv, ScriptInv
  <2> QED
    BY <1>1, <2>3, <2>4 DEF Inv, ScriptInv
<1> QED
  BY <1>3, <1>4, <1>5, <1>6 DEF Inv, WorldInv

LEMMA SourceMovesKeeps == ASSUME Inv, SourceMoves PROVE Inv'
<1>1. WorldRight(world) /\ kind # "artifact" /\ UNCHANGED <<kind, plan, node>>
  BY DEF Inv, WorldInv, SourceMoves, durable
<1>2. PICK w : w = world'
  OBVIOUS
<1>3. /\ w = [world EXCEPT !.source = IF world.source = "ours" THEN "edited" ELSE "other"]
      /\ world.source \in {"initial", "ours", "gone"}
  BY <1>1, <1>2 DEF SourceMoves, WorldRight
<1>4. w.writes = world.writes /\ WorldRight(w)
  BY <1>1, <1>3 DEF WorldRight
<1>5. WorldRight(world)'
  BY <1>1, <1>2, <1>4 DEF WorldRight
<1> QED
  BY <1>2, <1>4, <1>5, WorldMoves DEF SourceMoves

LEMMA ApprovalExpiresKeeps == ASSUME Inv, ApprovalExpires PROVE Inv'
<1>1. WorldRight(world) /\ UNCHANGED <<kind, plan, node>> /\ world' = [world EXCEPT !.expired = TRUE]
  BY DEF Inv, WorldInv, ApprovalExpires, durable
<1>2. world'.writes = world.writes /\ WorldRight(world)'
  BY <1>1 DEF WorldRight
<1> QED
  BY <1>2, WorldMoves DEF ApprovalExpires

(* Every step keeps the invariant. *)
LEMMA NextKeeps == Inv /\ [Next]_vars => Inv'
<1> SUFFICES ASSUME Inv, [Next]_vars PROVE Inv'
  OBVIOUS
<1>1. CASE \E r \in Requests : Handler(r)
  <2> PICK r \in Requests : Handler(r)
    BY <1>1
  <2>1. CASE Submit(r)
    BY <2>1, SubmitKeeps
  <2>2. CASE InsertMission(r)
    BY <2>2, InsertKeeps
  <2>3. CASE ApproveExecution(r)
    BY <2>3, ApproveExecutionKeeps
  <2>4. CASE ApproveCandidate(r)
    BY <2>4, ApproveCandidateKeeps
  <2>5. CASE Tick(r)
    BY <2>5, TickKeeps
  <2>6. CASE Governed(r)
    BY <2>6, GovernedKeeps
  <2>7. CASE GovernorFails(r)
    BY <2>7, GovernorFailsKeeps
  <2>8. CASE Launch(r)
    BY <2>8, LaunchKeeps
  <2>9. CASE CommitBatch(r)
    BY <2>9, CommitBatchKeeps
  <2>10. CASE Resume(r)
    BY <2>10, ResumeKeeps
  <2>11. CASE ResumeNode(r)
    BY <2>11, ResumeNodeKeeps
  <2>12. CASE StopDependents(r)
    BY <2>12, StopDependentsKeeps
  <2>13. CASE Stop(r)
    BY <2>13, StopKeeps
  <2>14. CASE Reconcile(r)
    BY <2>14, ReconcileKeeps
  <2>15. CASE \E n \in Nodes(kind) : StopNode(r, n)
    BY <2>15, StopNodeKeeps
  <2> QED
    BY <2>1, <2>2, <2>3, <2>4, <2>5, <2>6, <2>7, <2>8, <2>9, <2>10, <2>11, <2>12, <2>13, <2>14, <2>15 DEF Handler
<1>2. CASE \E r \in Requests, n \in Nodes(kind) : RunWorker(r, n)
  <2> PICK r \in Requests, n \in Nodes(kind) : RunWorker(r, n)
    BY <1>2
  <2> QED
    BY ClaimKeeps, WorkKeeps, WorkFailsKeeps, RecordKeeps DEF RunWorker
<1>3. CASE Commit
  BY <1>3, CommitKeeps
<1>4. CASE Refuse
  BY <1>4, RefuseKeeps
<1>5. CASE Crash
  BY <1>5, CrashKeeps
<1>6. CASE SourceMoves
  BY <1>6, SourceMovesKeeps
<1>7. CASE ApprovalExpires
  BY <1>7, ApprovalExpiresKeeps
<1>8. CASE UNCHANGED vars
  <2>1. UNCHANGED <<durable, job, frame, turn, script>> /\ world' = world
    BY <1>8 DEF vars, durable
  <2>2. WorldRight(world)'
    BY <2>1 DEF Inv, WorldInv, WorldRight, durable
  <2> QED
    BY <2>1, <2>2, WorldMoves
<1> QED
  BY <1>1, <1>2, <1>3, <1>4, <1>5, <1>6, <1>7, <1>8 DEF Next

LEMMA InvHolds == Spec => []Inv
BY InitInv, NextKeeps, PTL DEF Spec

-------------------------------------------------------------------------------
(* A finished mission's nodes are all completed: each needed the others.    *)
LEMMA AllCompleted ==
    ASSUME Inv, Finished
    PROVE  \A n \in Nodes(kind) : node[n].state = "completed"
<1>1. KindRight /\ node[TerminalVerifier(kind)].state = "completed"
  BY KindOf DEF Inv, Finished
<1>2. \A n \in Nodes(kind) : node[n].state = "completed" =>
        \A d \in Plan(kind)[n].needs : node[d].state = "completed"
  BY DEF Inv, NodesInv, DependenciesDone
<1>3. CASE kind = "artifact"
  <2>1. /\ Nodes(kind) = {"N1", "N2", "N3", "N4", "N5", "N6", "N7", "N8"} /\ TerminalVerifier(kind) = "N8"
        /\ "N7" \in Plan(kind)["N8"].needs /\ "N6" \in Plan(kind)["N7"].needs
        /\ "N5" \in Plan(kind)["N6"].needs /\ "N4" \in Plan(kind)["N5"].needs
        /\ {"N2", "N3"} \subseteq Plan(kind)["N4"].needs /\ "N1" \in Plan(kind)["N2"].needs
    BY <1>3, ArtifactFacts DEF ArtifactPlan, N
  <2>2. node["N7"].state = "completed" /\ node["N6"].state = "completed" /\ node["N5"].state = "completed"
    BY <1>1, <1>2, <2>1
  <2>3. node["N4"].state = "completed"
    BY <1>2, <2>1, <2>2
  <2>4. node["N2"].state = "completed" /\ node["N3"].state = "completed"
    BY <1>2, <2>1, <2>3
  <2>5. node["N1"].state = "completed"
    BY <1>2, <2>1, <2>4
  <2> QED
    BY <1>1, <2>1, <2>2, <2>3, <2>4, <2>5
<1>4. CASE kind = "live"
  <2>1. /\ Nodes(kind) = {"X1", "X2", "X3", "X4", "X5"} /\ TerminalVerifier(kind) = "X5"
        /\ "X4" \in Plan(kind)["X5"].needs /\ "X3" \in Plan(kind)["X4"].needs
        /\ "X2" \in Plan(kind)["X3"].needs /\ "X1" \in Plan(kind)["X2"].needs
    BY <1>4, LiveFacts DEF LivePlan, N
  <2>2. node["X4"].state = "completed" /\ node["X3"].state = "completed"
    BY <1>1, <1>2, <2>1
  <2>3. node["X2"].state = "completed" /\ node["X1"].state = "completed"
    BY <1>2, <2>1, <2>2
  <2> QED
    BY <1>1, <2>1, <2>2, <2>3
<1>5. CASE kind = "compensated"
  <2>1. /\ Nodes(kind) = {"X1", "X2", "X3", "X4", "X5", "X6", "X7"} /\ TerminalVerifier(kind) = "X7"
        /\ "X6" \in Plan(kind)["X7"].needs /\ "X5" \in Plan(kind)["X6"].needs
        /\ "X4" \in Plan(kind)["X5"].needs /\ "X3" \in Plan(kind)["X4"].needs
        /\ "X2" \in Plan(kind)["X3"].needs /\ "X1" \in Plan(kind)["X2"].needs
    BY <1>5, CompensatedFacts DEF CompensatedPlan, N
  <2>2. node["X6"].state = "completed" /\ node["X5"].state = "completed" /\ node["X4"].state = "completed"
    BY <1>1, <1>2, <2>1
  <2>3. node["X3"].state = "completed" /\ node["X2"].state = "completed" /\ node["X1"].state = "completed"
    BY <1>2, <2>1, <2>2
  <2> QED
    BY <1>1, <2>1, <2>2, <2>3
<1>6. CASE kind = "shadow"
  <2>1. /\ Nodes(kind) = {"X1", "X2", "X3", "X4", "X5"} /\ TerminalVerifier(kind) = "X5"
        /\ "X4" \in Plan(kind)["X5"].needs /\ "X3" \in Plan(kind)["X4"].needs
        /\ "X2" \in Plan(kind)["X3"].needs /\ "X1" \in Plan(kind)["X2"].needs
    BY <1>6, ShadowFacts DEF ShadowPlan, N
  <2>2. node["X4"].state = "completed" /\ node["X3"].state = "completed"
    BY <1>1, <1>2, <2>1
  <2>3. node["X2"].state = "completed" /\ node["X1"].state = "completed"
    BY <1>2, <2>1, <2>2
  <2> QED
    BY <1>1, <2>1, <2>2, <2>3
<1> QED
  BY <1>1, <1>3, <1>4, <1>5, <1>6 DEF KindRight

(* ... and the write was really made, or for a shadow plan really not. *)
LEMMA ReallyWritten ==
    ASSUME Inv, Finished
    PROVE  IF kind = "shadow" THEN world.writes = 0
           ELSE world.writes > 0 /\ (kind = "artifact" => plan.artifact)
<1>1. KindRight /\ \A n \in Nodes(kind) : node[n].state = "completed"
  BY KindOf, AllCompleted DEF Inv
<1>2. \A n \in Nodes(kind) : CompletionRight(n, node[n].out)
  BY <1>1 DEF Inv, NodesInv
<1>3. CASE kind = "artifact"
  <2>1. "N8" \in Nodes(kind) /\ node["N8"].out = "ok" /\ Witness("N8")
    BY <1>3, ArtifactFacts DEF Finished, Witness
  <2> QED
    BY <1>2, <1>3, <2>1 DEF CompletionRight, ResultRight
<1>4. CASE kind = "live"
  <2>1. "X5" \in Nodes(kind) /\ node["X5"].out = "ok" /\ Witness("X5")
    BY <1>4, LiveFacts DEF Finished, Witness
  <2> QED
    BY <1>2, <1>4, <2>1 DEF CompletionRight, ResultRight
<1>5. CASE kind = "compensated"
  <2>1. "X4" \in Nodes(kind) /\ Witness("X4")
    BY <1>5, CompensatedFacts DEF Witness
  <2> QED
    BY <1>2, <1>5, <2>1 DEF CompletionRight, ResultRight
<1>6. CASE kind = "shadow"
  BY <1>6 DEF Inv, WorldInv, WorldRight
<1> QED
  BY <1>1, <1>3, <1>4, <1>5, <1>6 DEF KindRight

LEMMA WriteStands ==
    ASSUME Inv
    PROVE  WrittenAsApproved /\ CompletedIsVerified
<1>1. /\ world.writes \in Nat /\ (world.writes > 0 => plan.candidate /\ plan.approved)
      /\ kind # "artifact" => world.writes <= 1
  BY DEF Inv, WorldInv, WorldRight
<1>2. plan.artifact => ~Live("N7")
  <2> SUFFICES ASSUME plan.artifact, NEW q \in Requests, Acting(q, "N7") PROVE FALSE
    BY DEF Live
  <2>1. "N7" \in Nodes(kind) /\ worker["N7"].recorded # None
    BY ArtifactFacts DEF Inv, NodesInv, Noted
  <2> QED
    BY <2>1 DEF Inv, WorkersInv, JobRight
<1>3. CASE plan.status = "completed"
  <2>1. Finished
    BY <1>3 DEF Inv, ScriptInv
  <2> QED
    BY <1>1, <1>2, <2>1, AllCompleted, ReallyWritten DEF WrittenAsApproved, CompletedIsVerified, Finished
<1> QED
  BY <1>1, <1>2, <1>3 DEF WrittenAsApproved, CompletedIsVerified

(* Rows, worker records, jobs and requests keep the columns' value sets, no  *)
(* node is leased past its attempt limit and only a request in a synchronous *)
(* stretch holds the process, for any plans, requests and bounds.            *)
THEOREM TypesKept == Spec => []TypeOK
BY InvHolds, InvTyped, PTL

(* A worker that may still act holds its node's Runtime claim, alone: no     *)
(* overlapping request, reconciliation or crash takes it away while it lives. *)
THEOREM ClaimsHeld == Spec => []LiveHoldsClaim
<1>1. Inv => LiveHoldsClaim
  BY DEF Inv, WorkersInv, JobRight, LiveHoldsClaim
<1> QED
  BY <1>1, InvHolds, PTL

(* However many requests overlap, fail or crash: nothing is written but the  *)
(* prepared and approved candidate, a connector's record is changed at most  *)
(* once, and once the artifact's write is on record no worker may still      *)
(* write it.                                                                 *)
THEOREM WritesApproved == Spec => []WrittenAsApproved
BY WriteStands, InvHolds, PTL

(* A completed mission has every node completed, its terminal verifier        *)
(* satisfied and its write really made, and for an artifact recorded.         *)
THEOREM CompletionVerified == Spec => []CompletedIsVerified
BY WriteStands, InvHolds, PTL
===============================================================================
