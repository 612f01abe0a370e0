------------------------------ MODULE MissionGraph ------------------------------
(***************************************************************************)
(* One mission graph (missions/missionGraphService.ts with its compiler,   *)
(* journal and child dispatcher): submission, the approval bound to the    *)
(* compiled graph, the dependency-aware scheduler, bounded recovery and    *)
(* cancellation.  Every node is carried out by a child mission.            *)
(*                                                                         *)
(* One process serves several requests.  A request holds the process       *)
(* (`turn`) from one await to the next; each journal transition is a       *)
(* savepoint of its own, so it is an action of its own and a crash can     *)
(* fall between any two.  The awaits are calls of child missions, which    *)
(* move on, by the hand of whoever calls them, only while nobody holds the *)
(* process.  A call comes back with the child's state or with an error.    *)
(*                                                                         *)
(* Left out: the pass bound of runScheduler, which a pass that completes   *)
(* no node never reaches, and the replay events.                           *)
(***************************************************************************)
EXTENDS Naturals, Sequences, Functions, GraphLifecycle, ChildStates

CONSTANTS Order,            \* the node ids, sorted
          Callers,          \* concurrent requests
          Envelopes,        \* what may be submitted: the dependencies, the lane of
                            \* each node, and the nodes whose AutoPoster child, if it
                            \* completes, proves one unapproved scheduled draft
          MaxNodeAttempts, MaxTroubles

Nodes == Range(Order)
Nobody == "nobody"

GraphAssumption ==
  /\ MaxNodeAttempts \in Nat \ {0} /\ MaxTroubles \in Nat /\ Order \in Seq(Nodes) /\ Nobody \notin Callers
  /\ \A e \in Envelopes : /\ e.needs \in [Nodes -> SUBSET (Nodes \cup {"unknown"})]
                          /\ e.lane \in [Nodes -> {"generic", "autoposter"}] /\ e.proven \subseteq Nodes

VARIABLES compiled, \* the compiled envelope
          graph,    \* operator_mission_graphs.status
          node,     \* operator_mission_graph_nodes: status and attempts
          child,    \* the child missions
          call,     \* requests in flight
          turn,     \* the request that holds the process
          troubles  \* crashes and cancellations so far

vars == <<compiled, graph, node, child, call, turn, troubles>>

Free == turn = Nobody
Idle == [pc |-> "idle", todo |-> {}]
NoGraph == [needs |-> [n \in Nodes |-> {}], lane |-> [n \in Nodes |-> "generic"], proven |-> {}]
Settled == {"completed", "failed_terminal", "cancelled"}

Init ==
  /\ compiled = NoGraph /\ graph = "absent"
  /\ node = [n \in Nodes |-> [status |-> "blocked", attempts |-> 0]]
  /\ child = [n \in Nodes |-> Absent]
  /\ call = [c \in Callers |-> Idle] /\ turn = Nobody /\ troubles = 0

-------------------------------------------------------------------------------
(* Compilation: detectCycle consumes the nodes whose dependencies are       *)
(* consumed, until nothing is left to consume.                              *)

Consumed(deps) ==
  LET wave[k \in 0..Len(Order)] ==
        IF k = 0 THEN {} ELSE {n \in Nodes : deps[n] \subseteq wave[k - 1]}
  IN wave[Len(Order)]
Compiles(deps) == /\ \A n \in Nodes : n \notin deps[n] /\ deps[n] \subseteq Nodes
                  /\ Consumed(deps) = Nodes

SubmitGraph(envelope) ==
  /\ Free /\ graph = "absent" /\ Compiles(envelope.needs)
  /\ compiled' = envelope /\ graph' = "approval_required"
  /\ UNCHANGED <<node, child, call, turn, troubles>>

-------------------------------------------------------------------------------
(* The journal refuses a transition its tables do not list; the graph's is   *)
(* in GraphLifecycle.                                                       *)

NodeNext ==
  [blocked |-> {"ready", "cancelled"}, ready |-> {"running", "cancelled"},
   running |-> {"completed", "failed_recoverable", "failed_terminal"},
   failed_recoverable |-> {"running", "failed_terminal", "cancelled"},
   completed |-> {}, failed_terminal |-> {}, cancelled |-> {}]

MayMove(n, to) == to \in NodeNext[node[n].status]
Become(n, to) == node' = [node EXCEPT ![n].status = to]
Claim(n, tries) == node' = [node EXCEPT ![n] = [status |-> "running", attempts |-> tries + 1]]

At(c, pc) == call[c].pc = pc /\ turn = c         \* c holds the process
Back(c, pc) == call[c].pc = pc /\ Free           \* c's await is over
Before(m, n) == \E i, j \in DOMAIN Order : i <= j /\ Order[i] = m /\ Order[j] = n
Item(c) == CHOOSE x \in call[c].todo : \A y \in call[c].todo : Before(x.id, y.id)

Go(c, pc) == call' = [call EXCEPT ![c].pc = pc] /\ turn' = c
Await(c, pc) == call' = [call EXCEPT ![c].pc = pc] /\ turn' = Nobody
Leave(c) == call' = [call EXCEPT ![c] = Idle] /\ turn' = Nobody
(* The rest of the scheduler's or the recovery's list.                      *)
Proceed(c) ==
  /\ turn' = c
  /\ call' = [call EXCEPT ![c] =
       IF @.todo # {Item(c)} THEN [pc |-> IF Item(c).was = "blocked" THEN "dispatch" ELSE "recover",
                                   todo |-> @.todo \ {Item(c)}]
       ELSE [Idle EXCEPT !.pc = "pass"]]
(* A dispatched node is judged before the next one, a recovered one is not. *)
Judge(c) == IF Item(c).was = "blocked" THEN Go(c, "judge") ELSE Proceed(c)

(* What is to be done, each node as it was when the list was made.          *)
Listed(S) == {[id |-> n, was |-> node[n].status, tries |-> node[n].attempts] : n \in S}

-------------------------------------------------------------------------------
(* Approval, and its replay by the same person.                             *)

ApproveGraph(c) ==
  /\ Free /\ call[c] = Idle
  /\ graph \in {"approval_required", "approved", "running"}
  /\ graph' = IF graph = "approval_required" THEN "approved" ELSE graph
  /\ Go(c, "pass")
  /\ UNCHANGED <<compiled, node, child, troubles>>

-------------------------------------------------------------------------------
(* A scheduler pass.                                                        *)

BeginRunning(c) ==
  /\ At(c, "pass") /\ graph = "approved"
  /\ graph' = "running"
  /\ UNCHANGED <<compiled, node, child, call, turn, troubles>>

(* What a child's state makes of its running node.  AutoPoster's success    *)
(* without its proof is a terminal failure.                                 *)
GenericOutcome(n) ==
  CASE child[n].state = "completed" -> "completed"
    [] child[n].state = "terminal" -> "failed_terminal"
    [] OTHER -> "failed_recoverable"
ProvesDraft(n) == n \in compiled.proven
AutoPosterOutcome(n) ==
  IF child[n].state = "completed" /\ ~ProvesDraft(n) THEN "failed_terminal" ELSE GenericOutcome(n)
Outcome(n) == IF compiled.lane[n] = "generic" THEN GenericOutcome(n) ELSE AutoPosterOutcome(n)
Unsynced == {n \in Nodes : /\ node[n].status = "running"
                           /\ child[n].state \in {"completed", "terminal", "recoverable", "unresolved"}}
SyncNode(c, n) ==
  /\ At(c, "pass") /\ graph = "running" /\ n \in Unsynced
  /\ Become(n, Outcome(n))
  /\ UNCHANGED <<compiled, graph, child, call, turn, troubles>>

Deciding(c) == At(c, "pass") /\ graph = "running" /\ Unsynced = {}
Some(status) == \E n \in Nodes : node[n].status = status

(* terminateGraphForNode and cancelGraph withdraw what has not run.         *)
Withdrawn == [n \in Nodes |->
  IF node[n].status \in {"blocked", "ready", "failed_recoverable"}
  THEN [node[n] EXCEPT !.status = "cancelled"] ELSE node[n]]
Terminate(c) ==
  /\ IF "failed_terminal" \in GraphNext[graph]
     THEN graph' = "failed_terminal" /\ node' = Withdrawn
     ELSE UNCHANGED <<graph, node>>
  /\ Leave(c)
Park(c) ==
  /\ graph' = IF "failed_recoverable" \in GraphNext[graph] THEN "failed_recoverable" ELSE graph
  /\ Leave(c)
  /\ UNCHANGED node

ReadyAnyway == {n \in Nodes : node[n].status = "blocked"}
Ready == {n \in Nodes : node[n].status = "blocked" /\ \A m \in compiled.needs[n] : node[m].status = "completed"}

EndPass(c) ==
  /\ \/ At(c, "pass") /\ graph \notin {"approved", "running"}
     \/ /\ Deciding(c) /\ ~Some("failed_terminal") /\ ~Some("failed_recoverable")
        /\ Some("running") \/ (Ready = {} /\ \E n \in Nodes : node[n].status # "completed")
  /\ Leave(c)
  /\ UNCHANGED <<compiled, graph, node, child, troubles>>

FailPass(c) ==
  /\ Deciding(c)
  /\ \/ Some("failed_terminal") /\ Terminate(c)
     \/ ~Some("failed_terminal") /\ Some("failed_recoverable") /\ Park(c)
  /\ UNCHANGED <<compiled, child, troubles>>

CompleteGraph(c) ==
  /\ Deciding(c) /\ \A n \in Nodes : node[n].status = "completed"
  /\ graph' = "completed" /\ Leave(c)
  /\ UNCHANGED <<compiled, node, child, troubles>>

StartWave(c) ==
  /\ Deciding(c) /\ Ready # {}
  /\ ~\E s \in {"failed_terminal", "failed_recoverable", "running"} : Some(s)
  /\ call' = [call EXCEPT ![c] = [pc |-> "dispatch", todo |-> Listed(Ready)]]
  /\ UNCHANGED <<compiled, graph, node, child, turn, troubles>>

-------------------------------------------------------------------------------
(* Dispatch of one node: two savepoints, then its child.                    *)

MarkReady(c) ==
  /\ At(c, "dispatch")
  /\ IF MayMove(Item(c).id, "ready") THEN Become(Item(c).id, "ready") /\ Go(c, "ready")
     ELSE Leave(c) /\ UNCHANGED node
  /\ UNCHANGED <<compiled, graph, child, troubles>>

MarkRunning(c) ==
  /\ At(c, "ready")
  /\ Claim(Item(c).id, Item(c).tries) /\ Await(c, "create")
  /\ UNCHANGED <<compiled, graph, child, troubles>>

(* createMissionFromEnvelope: the same envelope finds the same mission.     *)
CreateChild(c) ==
  LET n == Item(c).id IN
  /\ Back(c, "create")
  /\ child' = IF child[n] = Absent THEN [child EXCEPT ![n].state = "approval_required"] ELSE child
  /\ Await(c, "approve")
  /\ UNCHANGED <<compiled, graph, node, troubles>>

(* applyChildOutcome and recordChildDispatchError act on a running node;    *)
(* an error for another node ends the request.                              *)
Apply(c, to) ==
  /\ IF node[Item(c).id].status = "running" THEN Become(Item(c).id, to) ELSE UNCHANGED node
  /\ Judge(c)
RecordError(c, to) ==
  IF node[Item(c).id].status = "running" THEN Become(Item(c).id, to) /\ Judge(c)
  ELSE Leave(c) /\ UNCHANGED node

(* approveAndExecute of the child, up to its first await.                   *)
ApproveChild(c) ==
  LET n == Item(c).id IN
  CASE child[n].state = "approval_required" ->
         /\ child' = [child EXCEPT ![n] = Moved(@, "approved", "graph")]
         /\ Await(c, "approving") /\ UNCHANGED node
    [] child[n].state = "completed" /\ child[n].by = "graph" ->
         Apply(c, Outcome(n)) /\ UNCHANGED child
    [] child[n].state = "completed" /\ child[n].by # "graph" ->
         RecordError(c, "failed_terminal") /\ UNCHANGED child
    [] OTHER -> RecordError(c, "failed_recoverable") /\ UNCHANGED child

EnterApproval(c) ==
  /\ Back(c, "approve") /\ ApproveChild(c)
  /\ UNCHANGED <<compiled, graph, troubles>>

JudgeNode(c) ==
  LET status == node[Item(c).id].status IN
  /\ At(c, "judge")
  /\ \/ status = "failed_terminal" /\ Terminate(c)
     \/ status = "failed_recoverable" /\ Park(c)
     \/ status \notin {"failed_terminal", "failed_recoverable"} /\ Proceed(c) /\ UNCHANGED <<graph, node>>
  /\ UNCHANGED <<compiled, child, troubles>>

-------------------------------------------------------------------------------
(* Resume: refused while any child awaits reconciliation; then every node   *)
(* that was interrupted or failed recoverably when it began.                *)

AwaitingReconciliation == \E n \in Nodes : child[n].state = "unresolved"
(* Seeded fault: only the nodes that failed are recovered.                  *)
ResumeForgets(c) ==
  /\ Free /\ call[c] = Idle
  /\ graph \in {"approved", "running", "failed_recoverable"} /\ ~AwaitingReconciliation
  /\ graph' = IF graph = "failed_recoverable" THEN "running" ELSE graph
  /\ LET open == Listed({n \in Nodes : node[n].status = "failed_recoverable"}) IN
       call' = [call EXCEPT ![c] = [pc |-> IF open = {} THEN "pass" ELSE "recover", todo |-> open]]
  /\ turn' = c
  /\ UNCHANGED <<compiled, node, child, troubles>>
ResumeGraph(c) ==
  /\ Free /\ call[c] = Idle
  /\ graph \in {"approved", "running", "failed_recoverable"} /\ ~AwaitingReconciliation
  /\ graph' = IF graph = "failed_recoverable" THEN "running" ELSE graph
  /\ LET open == Listed({n \in Nodes : node[n].status \in {"running", "failed_recoverable"}}) IN
       call' = [call EXCEPT ![c] = [pc |-> IF open = {} THEN "pass" ELSE "recover", todo |-> open]]
  /\ turn' = c
  /\ UNCHANGED <<compiled, node, child, troubles>>

BudgetSpent(c) == Item(c).tries >= MaxNodeAttempts
(* The budget is judged by the list; where the node may go, by its row.     *)
ClaimRecovery(c) ==
  LET n == Item(c).id
      to == IF BudgetSpent(c) THEN "failed_terminal" ELSE "running"
  IN
  /\ At(c, "recover")
  /\ \/ Item(c).was = "running" /\ Go(c, "heal") /\ UNCHANGED node
     \/ Item(c).was = "failed_recoverable" /\ ~MayMove(n, to) /\ Leave(c) /\ UNCHANGED node
     \/ /\ Item(c).was = "failed_recoverable" /\ MayMove(n, to)
        /\ IF BudgetSpent(c) THEN Become(n, to) /\ Proceed(c)
           ELSE Claim(n, Item(c).tries) /\ Go(c, "heal")
  /\ UNCHANGED <<compiled, graph, child, troubles>>

(* recoverRunningNode.  A recoverable child permits Resume when its last    *)
(* lookup found nothing and its retry is left, which either may be.         *)
Heal(c) ==
  LET n == Item(c).id   state == child[n].state IN
  /\ At(c, "heal")
  /\ \/ state = "absent" /\ Await(c, "create") /\ UNCHANGED <<node, child>>
     \/ state = "approval_required" /\ ApproveChild(c)
     \/ state \in {"approved", "observed", "recoverable"} /\ Await(c, "resuming") /\ UNCHANGED <<node, child>>
     \/ state \in {"prepared", "recoverable"} /\ Await(c, "reconciling") /\ UNCHANGED <<node, child>>
     \/ state \in {"completed", "terminal", "recovering", "unresolved"}
          /\ Apply(c, Outcome(n)) /\ UNCHANGED child
  /\ UNCHANGED <<compiled, graph, troubles>>

(* The child's call comes back: at rest, or with an error.                  *)
ChildAnswers(c) ==
  LET state == child[Item(c).id].state IN
  /\ \E pc \in {"approving", "resuming", "reconciling"} : Back(c, pc)
  /\ \/ /\ state \in {"completed", "terminal", "recoverable", "unresolved", "observed"}
        /\ Apply(c, Outcome(Item(c).id))
     \/ /\ call[c].pc = "reconciling" /\ state \in {"observed", "recoverable"}
        /\ Await(c, "resuming") /\ UNCHANGED node
     \/ RecordError(c, "failed_recoverable")
  /\ UNCHANGED <<compiled, graph, child, troubles>>

(* AutoPoster refuses the account, or cannot be asked.                      *)
CreateFails(c) ==
  /\ Back(c, "create") /\ child[Item(c).id] = Absent /\ compiled.lane[Item(c).id] = "autoposter"
  /\ RecordError(c, "failed_recoverable")
  /\ UNCHANGED <<compiled, graph, child, troubles>>

-------------------------------------------------------------------------------
CancelGraph ==
  /\ Free /\ troubles < MaxTroubles
  /\ "cancelled" \in GraphNext[graph] /\ ~Some("running")
  /\ graph' = "cancelled" /\ node' = Withdrawn
  /\ troubles' = troubles + 1
  /\ UNCHANGED <<compiled, child, call, turn>>

(* Calls in flight and people at the mission's own endpoints.               *)
ChildMoves(n) ==
  /\ Free /\ child[n] # Absent
  /\ \E to \in Moves[child[n].state] : child' = [child EXCEPT ![n] = Moved(@, to, "person")]
  /\ UNCHANGED <<compiled, graph, node, call, turn, troubles>>

Crash ==
  /\ troubles < MaxTroubles /\ troubles' = troubles + 1
  /\ call' = [c \in Callers |-> Idle] /\ turn' = Nobody
  /\ UNCHANGED <<compiled, graph, node, child>>

Serve(c) ==
  \/ BeginRunning(c) \/ (\E n \in Nodes : SyncNode(c, n)) \/ EndPass(c) \/ FailPass(c)
  \/ CompleteGraph(c) \/ StartWave(c) \/ MarkReady(c) \/ MarkRunning(c) \/ CreateChild(c)
  \/ CreateFails(c) \/ EnterApproval(c) \/ JudgeNode(c) \/ ClaimRecovery(c) \/ Heal(c) \/ ChildAnswers(c)

Next ==
  \/ \E e \in Envelopes : SubmitGraph(e)
  \/ \E c \in Callers : ApproveGraph(c) \/ ResumeGraph(c) \/ Serve(c)
  \/ CancelGraph \/ Crash
  \/ \E n \in Nodes : ChildMoves(n)

(* A request makes progress, its calls return, and an interrupted graph is  *)
(* resumed again and again.                                                 *)
Fairness == \A c \in Callers : WF_vars(Serve(c)) /\ SF_vars(ResumeGraph(c))
Spec == Init /\ [][Next]_vars
FairSpec == Spec /\ Fairness
-------------------------------------------------------------------------------
TypeOK ==
  /\ graph \in DOMAIN GraphNext /\ compiled \in Envelopes \cup {NoGraph} /\ Compiles(compiled.needs)
  /\ node \in [Nodes -> [status : DOMAIN NodeNext, attempts : 0..MaxNodeAttempts]]
  /\ child \in [Nodes -> [state : States, by : {NoOne, "graph", "person"}]]
  /\ turn \in Callers \cup {Nobody} /\ troubles \in 0..MaxTroubles
  /\ \A c \in Callers : call[c] # Idle /\ call[c].pc # "pass" => call[c].todo # {}

(* Nothing is asked of a child before the children it depends on completed; *)
(* a node reports completed, and a graph too, only what its child reports   *)
(* (runScheduler, applyChildOutcome); a graph that has settled starts no    *)
(* node, and one that completed or was cancelled has none that could still  *)
(* move: in whatever order requests interleave.  (Two requests that overlap *)
(* can have two nodes running; if one of them fails the graph, the other    *)
(* runs on.)                                                                *)
ResultsAreHonest ==
  /\ \A n \in Nodes : child[n] # Absent => \A m \in compiled.needs[n] : node[m].status = "completed"
  /\ \A n \in Nodes : node[n].status = "completed" =>
       /\ child[n].state = "completed"
       /\ compiled.lane[n] = "autoposter" => n \in compiled.proven
  /\ graph = "completed" => \A n \in Nodes : node[n].status = "completed"
  /\ graph = "cancelled" => \A n \in Nodes : node[n].status \in Settled
  /\ graph \in Settled => \A n \in Nodes : node[n].status \notin {"blocked", "ready"}

(* The graph as the services above see it.                                  *)
Promise == INSTANCE GraphPromise WITH status <- graph, missions <- [n \in Nodes |-> child[n].state]
KeepsPromise == Promise!Spec

InProgress == graph \in {"approved", "running", "failed_recoverable"}
(* "Restart-safe resume derived from canonical durable state"               *)
GraphSettles == InProgress ~> graph \in Settled \/ AwaitingReconciliation
GraphSettlesMostly == InProgress ~> graph \in Settled \/ AwaitingReconciliation \/ Some("ready")
=================================================================================
