------------------------------ MODULE ExecutionProofs ------------------------------
(***************************************************************************)
(* Machine-checked proofs about how work is carried out beside the other   *)
(* services, for every value of the constants: the mission graph, the      *)
(* Platform command under the OS control plane, and what they promise each *)
(* other; then the types of every service, which only here are together.   *)
(***************************************************************************)
EXTENDS ServicesProofs, MCServices, WellFoundedInduction

-------------------------------------------------------------------------------
(* The mission graph: what its nodes and the graph itself report.            *)
NodeStates == {"blocked", "ready", "running", "completed", "failed_recoverable", "failed_terminal", "cancelled"}
GraphStates == {"absent", "approval_required", "approved", "running", "completed", "failed_recoverable",
                "failed_terminal", "cancelled"}
NodeRows == [status : NodeStates, attempts : Nat]
Children == [state : G!States, by : {G!NoOne, "graph", "person"}]
Items == [id : G!Nodes, was : NodeStates, tries : Nat]
(* Where a request holds the process, and where it awaits a child.          *)
Holding == {"pass", "dispatch", "ready", "judge", "recover", "heal"}
Awaiting == {"create", "approve", "approving", "resuming", "reconciling"}
Lists == [pc : Holding \cup Awaiting \cup {"idle"}, todo : SUBSET Items]

(* Every dependency of the node has completed.                              *)
Met(n) == \A m \in compiled.needs[n] : m \in G!Nodes /\ node[m].status = "completed"
ChildProven(n) == childOf[n].state = "completed" /\ (compiled.lane[n] = "autoposter" => n \in compiled.proven)

ListRight(c, r) ==
    /\ r.pc \in Holding => turn = c
    /\ r.pc \in (Holding \cup Awaiting) \ {"pass"} => r.todo # {}
    /\ \A x \in r.todo : Met(x.id)
NodeRight(n) ==
    /\ node[n].status \notin {"blocked", "cancelled"} => Met(n)
    /\ childOf[n] # G!Absent => Met(n)
    /\ node[n].status = "completed" => ChildProven(n)
StatusRight ==
    /\ graph = "absent" => /\ \A n \in G!Nodes : node[n].status = "blocked" /\ childOf[n] = G!Absent
                           /\ \A c \in Callers : request[c] = G!Idle
    /\ graph # "absent" => compiled.needs \in [G!Nodes -> SUBSET G!Nodes]
    /\ graph = "completed" => \A n \in G!Nodes : node[n].status = "completed"
    /\ graph = "cancelled" => \A n \in G!Nodes : node[n].status \in G!Settled
    /\ graph \in G!Settled => \A n \in G!Nodes : node[n].status \notin {"blocked", "ready"}
(* A node that is about to run was made ready while the process was held.   *)
ReadyRight == \A c \in Callers : request[c].pc = "ready" => node[G!Item(c).id].status = "ready"
GraphInv ==
    /\ graph \in GraphStates /\ turn \in Callers \cup {G!Nobody}
    /\ node \in [G!Nodes -> NodeRows] /\ childOf \in [G!Nodes -> Children] /\ request \in [Callers -> Lists]
    /\ \A c \in Callers : ListRight(c, request[c])
    /\ \A n \in G!Nodes : NodeRight(n)
    /\ StatusRight /\ ReadyRight

(* What no step takes back. *)
GraphGrown ==
    /\ compiled' = compiled
    /\ \A n \in G!Nodes : node[n].status = "completed" => node'[n].status = "completed"

-----------------------------------------------------------------------------
(* A set of numbers has a least one: < is a well-founded relation.          *)
LEMMA LessIsWellFounded ==
    \E below : IsWellFoundedOn(below, Nat) /\ \A a, b \in Nat : <<a, b>> \in below <=> a < b
<1>1. \A a, b \in Nat : <<a, b>> \in OpToRel(<, Nat) <=> a < b
  BY DEF OpToRel
<1> QED
  BY <1>1, NatLessThanWellFounded

LEMMA NoneBelow ==
    ASSUME NEW below, \A a, b \in Nat : <<a, b>> \in below <=> a < b,
           NEW indices, indices \subseteq Nat, NEW i \in indices, \A j \in indices : ~(<<j, i>> \in below)
    PROVE  \A j \in indices : i <= j
<1> TAKE j \in indices
<1>1. i \in Nat /\ j \in Nat
  OBVIOUS
<1>2. ~(j < i)
  BY <1>1
<1> QED
  BY <1>1, <1>2

LEMMA FirstBelow ==
    ASSUME NEW below, IsWellFoundedOn(below, Nat), NEW indices, indices \subseteq Nat, indices # {}
    PROVE  \E i \in indices : \A j \in indices : ~(<<j, i>> \in below)
  BY WFMin

LEMMA LeastOf == ASSUME NEW indices \in SUBSET Nat, indices # {} PROVE \E i \in indices : \A j \in indices : i <= j
<1>1. PICK below : IsWellFoundedOn(below, Nat) /\ \A a, b \in Nat : <<a, b>> \in below <=> a < b
  BY LessIsWellFounded
<1>2. indices \subseteq Nat
  OBVIOUS
<1>3. PICK i \in indices : \A j \in indices : ~(<<j, i>> \in below)
  BY <1>1, <1>2, FirstBelow
<1> QED
  BY <1>1, <1>2, <1>3, NoneBelow

(* A list that is not empty has a first node.                               *)
LEMMA FirstItem ==
    ASSUME Order \in Seq(G!Nodes), NEW chosen \in SUBSET Items, chosen # {}
    PROVE  \E x \in chosen : \A y \in chosen : G!Before(x.id, y.id)
<1> DEFINE indices == {i \in DOMAIN Order : \E x \in chosen : Order[i] = x.id}
<1>1. \A x \in chosen : \E i \in DOMAIN Order : Order[i] = x.id
  BY DEF Items, G!Nodes, G!Range
<1>2. DOMAIN Order \subseteq Nat
  OBVIOUS
<1>3. indices \in SUBSET Nat /\ indices # {}
  BY <1>1, <1>2
<1>4. PICK i \in indices : \A j \in indices : i <= j
  <2> HIDE DEF indices
  <2> QED
    BY <1>3, LeastOf
<1>5. PICK x \in chosen : Order[i] = x.id
  BY <1>4
<1>6. ASSUME NEW y \in chosen PROVE G!Before(x.id, y.id)
  <2>1. PICK j \in indices : Order[j] = y.id
    BY <1>1
  <2> QED
    BY <1>4, <1>5, <2>1 DEF G!Before
<1> QED
  BY <1>6

LEMMA ItemFacts ==
    ASSUME G!GraphAssumption, GraphInv, NEW c \in Callers, request[c].pc \in (Holding \cup Awaiting) \ {"pass"}
    PROVE  G!Item(c) \in request[c].todo /\ G!Item(c) \in Items /\ G!Item(c).id \in G!Nodes /\ Met(G!Item(c).id)
<1>1. request[c].todo # {} /\ request[c].todo \in SUBSET Items
  BY DEF GraphInv, ListRight, Lists
<1>2. \E x \in request[c].todo : \A y \in request[c].todo : G!Before(x.id, y.id)
  BY <1>1, FirstItem DEF G!GraphAssumption
<1>3. G!Item(c) \in request[c].todo
  BY <1>2 DEF G!Item
<1> QED
  BY <1>1, <1>3 DEF Items, GraphInv, ListRight

LEMMA GraphInit == ASSUME G!GraphAssumption, G!Init PROVE GraphInv
<1>1. G!Idle \in Lists /\ G!Idle.pc = "idle" /\ G!Idle.todo = {}
  BY DEF G!Idle, Lists
<1>2. G!Absent \in Children
  BY DEF G!Absent, Children, G!States
<1>3. /\ node \in [G!Nodes -> NodeRows] /\ \A n \in G!Nodes : node[n].status = "blocked"
  BY DEF G!Init, NodeRows, NodeStates
<1>4. childOf \in [G!Nodes -> Children] /\ \A n \in G!Nodes : childOf[n] = G!Absent
  BY <1>2 DEF G!Init
<1>5. request \in [Callers -> Lists] /\ \A c \in Callers : request[c] = G!Idle
  BY <1>1 DEF G!Init
<1>6. \A c \in Callers : ListRight(c, request[c])
  BY <1>1, <1>5 DEF ListRight, Holding, Awaiting
<1>7. \A n \in G!Nodes : NodeRight(n)
  BY <1>3, <1>4 DEF NodeRight
<1>8. StatusRight /\ ReadyRight
  BY <1>1, <1>3, <1>4, <1>5 DEF StatusRight, ReadyRight, G!Init, G!Settled
<1> QED
  BY <1>3, <1>4, <1>5, <1>6, <1>7, <1>8 DEF GraphInv, G!Init, GraphStates

(* One request goes on; the others, that hold nothing, keep what they know. *)
LEMMA ListsKept ==
    ASSUME G!GraphAssumption, GraphInv, GraphGrown, NEW c \in Callers, NEW r \in Lists, turn \in {c, G!Nobody},
           request' = [request EXCEPT ![c] = r], turn' \in {c, G!Nobody}, ListRight(c, r)'
    PROVE  /\ request' \in [Callers -> Lists] /\ turn' \in Callers \cup {G!Nobody}
           /\ \A d \in Callers : ListRight(d, request[d])'
           /\ request'[c] = r /\ \A d \in Callers \ {c} : request'[d].pc # "ready"
<1>1. request' \in [Callers -> Lists] /\ request'[c] = r /\ \A d \in Callers \ {c} : request'[d] = request[d]
  BY DEF GraphInv
<1>2. \A n : Met(n) => Met(n)'
  BY DEF Met, GraphGrown
<1>3. ASSUME NEW d \in Callers \ {c} PROVE ListRight(d, request[d])' /\ request'[d].pc # "ready"
  <2>1. ListRight(d, request[d]) /\ request'[d] = request[d] /\ turn # d
    BY <1>1 DEF GraphInv, G!GraphAssumption
  <2>2. request[d].pc \notin Holding
    BY <2>1 DEF ListRight
  <2> QED
    BY <1>2, <2>1, <2>2 DEF ListRight, Holding
<1>4. ListRight(c, request[c])'
  BY <1>1 DEF ListRight
<1> QED
  BY <1>1, <1>3, <1>4

(* Several ways on. *)
LEMMA GoOn ==
    ASSUME G!GraphAssumption, GraphInv, GraphGrown, NEW c \in Callers, turn \in {c, G!Nobody},
           request[c].pc \in (Holding \cup Awaiting) \ {"pass"},
           NEW pc \in (Holding \cup Awaiting) \ {"pass"},
           G!Go(c, pc) \/ (pc \in Awaiting /\ G!Await(c, pc))
    PROVE  /\ request' \in [Callers -> Lists] /\ turn' \in Callers \cup {G!Nobody}
           /\ \A d \in Callers : ListRight(d, request[d])'
           /\ request'[c] = [request[c] EXCEPT !.pc = pc] /\ \A d \in Callers \ {c} : request'[d].pc # "ready"
<1> PICK r : r = [request[c] EXCEPT !.pc = pc]
  OBVIOUS
<1>1. r \in Lists /\ r.pc = pc /\ r.todo = request[c].todo
  BY DEF GraphInv, Lists
<1>2. request' = [request EXCEPT ![c] = r] /\ turn' \in {c, G!Nobody} /\ (pc \in Holding => turn' = c)
  BY DEF G!Go, G!Await, Holding, Awaiting
<1>3. r.todo # {} /\ \A x \in r.todo : Met(x.id)
  BY <1>1 DEF GraphInv, ListRight
<1>4. \A n : Met(n) => Met(n)'
  BY DEF Met, GraphGrown
<1>5. ListRight(c, r)'
  BY <1>1, <1>2, <1>3, <1>4 DEF ListRight
<1> QED
  BY <1>1, <1>2, <1>5, ListsKept

LEMMA LeaveOff ==
    ASSUME G!GraphAssumption, GraphInv, GraphGrown, NEW c \in Callers, turn \in {c, G!Nobody}, G!Leave(c)
    PROVE  /\ request' \in [Callers -> Lists] /\ turn' \in Callers \cup {G!Nobody}
           /\ \A d \in Callers : ListRight(d, request[d])'
           /\ \A d \in Callers : request'[d].pc # "ready"
<1>1. G!Idle \in Lists /\ G!Idle.pc = "idle" /\ G!Idle.todo = {}
  BY DEF G!Idle, Lists
<1>2. request' = [request EXCEPT ![c] = G!Idle] /\ turn' = G!Nobody
  BY DEF G!Leave
<1> PICK r : r = G!Idle
  OBVIOUS
<1>3. ListRight(c, r)'
  BY <1>1 DEF ListRight, Holding, Awaiting
<1>4. /\ request' \in [Callers -> Lists] /\ turn' \in Callers \cup {G!Nobody}
      /\ \A d \in Callers : ListRight(d, request[d])'
      /\ request'[c] = r /\ \A d \in Callers \ {c} : request'[d].pc # "ready"
  BY <1>1, <1>2, <1>3, ListsKept
<1> QED
  BY <1>1, <1>4

LEMMA ProceedOn ==
    ASSUME G!GraphAssumption, GraphInv, GraphGrown, NEW c \in Callers, turn \in {c, G!Nobody},
           request[c].pc \in (Holding \cup Awaiting) \ {"pass"}, G!Proceed(c)
    PROVE  /\ request' \in [Callers -> Lists] /\ turn' \in Callers \cup {G!Nobody}
           /\ \A d \in Callers : ListRight(d, request[d])'
           /\ \A d \in Callers : request'[d].pc # "ready"
<1>1. turn' = c /\ request' = [request EXCEPT ![c] =
        IF request[c].todo # {G!Item(c)} THEN [pc |-> IF G!Item(c).was = "blocked" THEN "dispatch" ELSE "recover",
                                               todo |-> request[c].todo \ {G!Item(c)}]
        ELSE [G!Idle EXCEPT !.pc = "pass"]]
  BY DEF G!Proceed
<1>2. G!Item(c) \in request[c].todo /\ request[c].todo \in SUBSET Items /\ \A x \in request[c].todo : Met(x.id)
  BY ItemFacts DEF GraphInv, ListRight, Lists
<1>3. \A n : Met(n) => Met(n)'
  BY DEF Met, GraphGrown
<1>4. CASE request[c].todo # {G!Item(c)}
  <2> PICK r : r = [pc |-> IF G!Item(c).was = "blocked" THEN "dispatch" ELSE "recover",
                    todo |-> request[c].todo \ {G!Item(c)}]
    OBVIOUS
  <2>1. r \in Lists /\ r.pc \in {"dispatch", "recover"} /\ r.todo # {} /\ r.todo \subseteq request[c].todo
    BY <1>2, <1>4 DEF Lists, Holding
  <2>2. request' = [request EXCEPT ![c] = r]
    BY <1>1, <1>4
  <2>3. ListRight(c, r)'
    BY <1>1, <1>2, <1>3, <2>1 DEF ListRight
  <2>4. /\ request' \in [Callers -> Lists] /\ turn' \in Callers \cup {G!Nobody}
        /\ \A d \in Callers : ListRight(d, request[d])'
        /\ request'[c] = r /\ \A d \in Callers \ {c} : request'[d].pc # "ready"
    BY <1>1, <2>1, <2>2, <2>3, ListsKept
  <2> QED
    BY <2>1, <2>4
<1>5. CASE request[c].todo = {G!Item(c)}
  <2> PICK r : r = [G!Idle EXCEPT !.pc = "pass"]
    OBVIOUS
  <2>1. r \in Lists /\ r.pc = "pass" /\ r.todo = {}
    BY DEF Lists, Holding, G!Idle
  <2>2. request' = [request EXCEPT ![c] = r]
    BY <1>1, <1>5
  <2>3. ListRight(c, r)'
    BY <1>1, <2>1 DEF ListRight
  <2>4. /\ request' \in [Callers -> Lists] /\ turn' \in Callers \cup {G!Nobody}
        /\ \A d \in Callers : ListRight(d, request[d])'
        /\ request'[c] = r /\ \A d \in Callers \ {c} : request'[d].pc # "ready"
    BY <1>1, <2>1, <2>2, <2>3, ListsKept
  <2> QED
    BY <2>1, <2>4
<1> QED
  BY <1>4, <1>5

-----------------------------------------------------------------------------
(* Nothing of the graph moves. *)
SameTables == UNCHANGED <<compiled, graph, node, childOf>>
ListsRight ==
    /\ request \in [Callers -> Lists] /\ turn \in Callers \cup {G!Nobody}
    /\ \A d \in Callers : ListRight(d, request[d])
    /\ ReadyRight

LEMMA TablesStay ==
    ASSUME GraphInv, SameTables, graph # "absent", ListsRight' PROVE GraphInv'
<1>1. \A n \in G!Nodes : NodeRight(n)'
  BY DEF GraphInv, NodeRight, SameTables, Met, ChildProven
<1>2. StatusRight'
  BY DEF GraphInv, StatusRight, SameTables
<1> QED
  BY <1>1, <1>2 DEF GraphInv, SameTables, ListsRight

(* One node that is not settled moves on. *)
LEMMA NodeMoves ==
    ASSUME GraphInv, NEW n \in G!Nodes, NEW s \in NodeRows, node' = [node EXCEPT ![n] = s],
           UNCHANGED <<compiled, graph, childOf>>, graph # "absent",
           node[n].status \notin G!Settled, Met(n), s.status # "blocked",
           s.status = "completed" => ChildProven(n), s.status = "ready" => node[n].status \in {"blocked", "ready"},
           ListsRight'
    PROVE  GraphInv'
<1>1. node' \in [G!Nodes -> NodeRows] /\ node'[n] = s /\ \A m \in G!Nodes \ {n} : node'[m] = node[m]
  BY DEF GraphInv
<1>2. GraphGrown
  BY <1>1 DEF GraphGrown, G!Settled
<1>3. \A m : Met(m) => Met(m)'
  BY <1>2 DEF Met, GraphGrown
<1>4. \A m \in G!Nodes : NodeRight(m)'
  BY <1>1, <1>3 DEF GraphInv, NodeRight, ChildProven
<1>5. StatusRight'
  BY <1>1 DEF GraphInv, StatusRight, G!Settled
<1> QED
  BY <1>1, <1>4, <1>5 DEF GraphInv, ListsRight

LEMMA GrownByOne ==
    ASSUME GraphInv, NEW n \in G!Nodes, NEW s, node' = [node EXCEPT ![n] = s],
           node[n].status # "completed", compiled' = compiled
    PROVE  GraphGrown
  BY DEF GraphInv, GraphGrown

LEMMA BecomeFacts ==
    ASSUME GraphInv, NEW n \in G!Nodes, NEW to \in NodeStates, G!Become(n, to)
    PROVE  \E s \in NodeRows : s.status = to /\ node' = [node EXCEPT ![n] = s]
<1>1. [node[n] EXCEPT !.status = to] \in NodeRows /\ [node[n] EXCEPT !.status = to].status = to
  BY DEF GraphInv, NodeRows
<1>2. node' = [node EXCEPT ![n] = [node[n] EXCEPT !.status = to]]
  BY DEF G!Become
<1> QED
  BY <1>1, <1>2

(* A request that goes on, one that leaves, one that proceeds.              *)
Onwards(c) ==
    \/ \E pc \in (Holding \cup Awaiting) \ {"pass", "ready"} : G!Go(c, pc) \/ (pc \in Awaiting /\ G!Await(c, pc))
    \/ G!Leave(c) \/ G!Proceed(c)
LEMMA ListsGoOn ==
    ASSUME G!GraphAssumption, GraphInv, GraphGrown, NEW c \in Callers, turn \in {c, G!Nobody}, Onwards(c),
           request[c].pc \in (Holding \cup Awaiting) \ {"pass"} \/ G!Leave(c)
    PROVE  ListsRight'
<1>1. ASSUME NEW pc \in (Holding \cup Awaiting) \ {"pass", "ready"},
             request[c].pc \in (Holding \cup Awaiting) \ {"pass"}, G!Go(c, pc) \/ (pc \in Awaiting /\ G!Await(c, pc))
      PROVE  ListsRight'
  <2>1. /\ request' \in [Callers -> Lists] /\ turn' \in Callers \cup {G!Nobody}
        /\ \A d \in Callers : ListRight(d, request[d])'
        /\ request'[c] = [request[c] EXCEPT !.pc = pc] /\ \A d \in Callers \ {c} : request'[d].pc # "ready"
    BY <1>1, GoOn
  <2>2. request'[c].pc # "ready"
    BY <2>1 DEF GraphInv, Lists
  <2> QED
    BY <2>1, <2>2 DEF ListsRight, ReadyRight
<1>2. CASE G!Leave(c)
  <2>1. /\ request' \in [Callers -> Lists] /\ turn' \in Callers \cup {G!Nobody}
        /\ \A d \in Callers : ListRight(d, request[d])'
        /\ \A d \in Callers : request'[d].pc # "ready"
    BY <1>2, LeaveOff
  <2> QED
    BY <2>1 DEF ListsRight, ReadyRight
<1>3. ASSUME request[c].pc \in (Holding \cup Awaiting) \ {"pass"}, G!Proceed(c) PROVE ListsRight'
  <2>1. /\ request' \in [Callers -> Lists] /\ turn' \in Callers \cup {G!Nobody}
        /\ \A d \in Callers : ListRight(d, request[d])'
        /\ \A d \in Callers : request'[d].pc # "ready"
    BY <1>3, ProceedOn
  <2> QED
    BY <2>1 DEF ListsRight, ReadyRight
<1> QED
  BY <1>1, <1>2, <1>3 DEF Onwards

Busy(c) == request[c].pc \in (Holding \cup Awaiting) \ {"pass"}
LEMMA NotAbsent == ASSUME GraphInv, NEW c \in Callers, request[c].pc # "idle" PROVE graph # "absent"
  BY DEF GraphInv, StatusRight, G!Idle

LEMMA SyncedFacts ==
    ASSUME NEW n \in G!Nodes
    PROVE  /\ G!Outcome(n) \in {"completed", "failed_terminal", "failed_recoverable"}
           /\ G!Outcome(n) = "completed" => ChildProven(n)
  BY DEF G!Outcome, G!AutoPosterOutcome, G!GenericOutcome, G!ProvesDraft, ChildProven

(* A running node gets what became of it. *)
LEMMA OutcomeKeeps ==
    ASSUME G!GraphAssumption, GraphInv, NEW n \in G!Nodes, node[n].status = "running",
           NEW to \in {"completed", "failed_terminal", "failed_recoverable"}, to = "completed" => ChildProven(n),
           G!Become(n, to), UNCHANGED <<compiled, graph, childOf>>, GraphGrown => ListsRight'
    PROVE  GraphInv'
<1>1. PICK s \in NodeRows : s.status = to /\ node' = [node EXCEPT ![n] = s]
  BY BecomeFacts DEF NodeStates
<1>2. GraphGrown
  BY <1>1, GrownByOne
<1>3. graph # "absent" /\ Met(n)
  BY DEF GraphInv, StatusRight, NodeRight
<1> QED
  BY <1>1, <1>2, <1>3, NodeMoves DEF G!Settled

LEMMA SameLists ==
    ASSUME GraphInv, GraphGrown, UNCHANGED <<request, turn>>, \A c \in Callers : request[c].pc # "ready" PROVE ListsRight'
<1>1. \A n : Met(n) => Met(n)'
  BY DEF Met, GraphGrown
<1>2. ASSUME NEW c \in Callers PROVE ListRight(c, request[c])'
  BY <1>1 DEF GraphInv, ListRight
<1> QED
  BY <1>2 DEF GraphInv, ListsRight, ReadyRight

(* Whoever holds the process at another point, nobody is about to run a node. *)
LEMMA NoneReady ==
    ASSUME G!GraphAssumption, GraphInv, turn = G!Nobody \/ \E c \in Callers : turn = c /\ request[c].pc # "ready"
    PROVE  \A c \in Callers : request[c].pc # "ready"
  BY DEF GraphInv, ListRight, G!GraphAssumption, Holding

LEMMA StayGrown == ASSUME UNCHANGED <<compiled, node>> PROVE GraphGrown
  BY DEF GraphGrown

LEMMA SyncKeeps ==
    ASSUME G!GraphAssumption, GraphInv, NEW c \in Callers, NEW n \in G!Nodes, G!SyncNode(c, n) PROVE GraphInv'
<1>1. \A d \in Callers : request[d].pc # "ready"
  BY NoneReady DEF G!SyncNode, G!At
<1>2. GraphGrown => ListsRight'
  BY <1>1, SameLists DEF G!SyncNode
<1> QED
  BY <1>2, SyncedFacts, OutcomeKeeps DEF G!SyncNode, G!Unsynced

LEMMA ApplyKeeps ==
    ASSUME G!GraphAssumption, GraphInv, NEW c \in Callers, turn \in {c, G!Nobody}, Busy(c),
           NEW to \in {"completed", "failed_terminal", "failed_recoverable"}, to = "completed" => ChildProven(G!Item(c).id),
           G!Apply(c, to), UNCHANGED <<compiled, graph, childOf>>
    PROVE  GraphInv'
<1>1. Onwards(c)
  BY DEF G!Apply, G!Judge, Onwards, Holding
<1>2. GraphGrown => ListsRight'
  BY <1>1, ListsGoOn DEF Busy
<1>3. G!Item(c).id \in G!Nodes /\ graph # "absent"
  BY ItemFacts, NotAbsent DEF Busy, Holding, Awaiting
<1>4. CASE node[G!Item(c).id].status = "running"
  BY <1>2, <1>3, <1>4, OutcomeKeeps DEF G!Apply
<1>5. CASE node[G!Item(c).id].status # "running"
  BY <1>2, <1>3, <1>5, StayGrown, TablesStay DEF G!Apply, SameTables
<1> QED
  BY <1>4, <1>5

LEMMA ErrorKeeps ==
    ASSUME G!GraphAssumption, GraphInv, NEW c \in Callers, turn \in {c, G!Nobody}, Busy(c),
           NEW to \in {"failed_terminal", "failed_recoverable"},
           G!RecordError(c, to), UNCHANGED <<compiled, graph, childOf>>
    PROVE  GraphInv'
<1>1. Onwards(c)
  BY DEF G!RecordError, G!Judge, Onwards, Holding
<1>2. GraphGrown => ListsRight'
  BY <1>1, ListsGoOn DEF Busy
<1>3. G!Item(c).id \in G!Nodes /\ graph # "absent"
  BY ItemFacts, NotAbsent DEF Busy, Holding, Awaiting
<1>4. CASE node[G!Item(c).id].status = "running"
  BY <1>2, <1>3, <1>4, OutcomeKeeps DEF G!RecordError
<1>5. CASE node[G!Item(c).id].status # "running"
  BY <1>2, <1>3, <1>5, StayGrown, TablesStay DEF G!RecordError, SameTables
<1> QED
  BY <1>4, <1>5

(* A child that has not completed moves on. *)
LEMMA ChildGoes ==
    ASSUME GraphInv, NEW n \in G!Nodes, NEW s \in Children, childOf' = [childOf EXCEPT ![n] = s],
           childOf[n].state # "completed", Met(n), UNCHANGED <<compiled, graph, node>>, graph # "absent", ListsRight'
    PROVE  GraphInv'
<1>1. childOf' \in [G!Nodes -> Children] /\ \A m \in G!Nodes \ {n} : childOf'[m] = childOf[m]
  BY DEF GraphInv
<1>2. \A m \in G!Nodes : NodeRight(m)'
  BY <1>1 DEF GraphInv, NodeRight, Met, ChildProven
<1>3. StatusRight'
  BY DEF GraphInv, StatusRight
<1> QED
  BY <1>1, <1>2, <1>3 DEF GraphInv, ListsRight

LEMMA MovedFacts ==
    ASSUME NEW k \in Children, NEW to \in G!States, NEW by \in {"graph", "person"}
    PROVE  G!Moved(k, to, by) \in Children
  BY DEF G!Moved, Children

(* The graph's own status moves to one that is neither settled nor absent.  *)
LEMMA GraphGoes ==
    ASSUME GraphInv, graph # "absent", UNCHANGED <<compiled, node, childOf>>,
           graph' \in {"approved", "running", "failed_recoverable"} \/ graph' = graph, ListsRight'
    PROVE  GraphInv'
<1>1. \A n \in G!Nodes : NodeRight(n)'
  BY DEF GraphInv, NodeRight, Met, ChildProven
<1>2. StatusRight'
  BY DEF GraphInv, StatusRight, G!Settled
<1> QED
  BY <1>1, <1>2 DEF GraphInv, ListsRight, GraphStates

LEMMA WithdrawnFacts ==
    ASSUME GraphInv, node' = G!Withdrawn, compiled' = compiled
    PROVE  /\ node' \in [G!Nodes -> NodeRows] /\ GraphGrown
           /\ \A n \in G!Nodes : /\ node'[n].status \notin {"blocked", "ready", "failed_recoverable"}
                                 /\ node'[n].status # "cancelled" => node'[n] = node[n]
<1>1. ASSUME NEW n \in G!Nodes
      PROVE  /\ node'[n] \in NodeRows /\ node'[n].status \notin {"blocked", "ready", "failed_recoverable"}
             /\ node'[n].status # "cancelled" => node'[n] = node[n]
             /\ node[n].status = "completed" => node'[n].status = "completed"
  <2>1. node[n] \in NodeRows
    BY DEF GraphInv
  <2>2. node'[n] = IF node[n].status \in {"blocked", "ready", "failed_recoverable"}
                   THEN [node[n] EXCEPT !.status = "cancelled"] ELSE node[n]
    BY DEF G!Withdrawn
  <2> QED
    BY <2>1, <2>2 DEF NodeRows, NodeStates
<1>2. node' \in [G!Nodes -> NodeRows]
  BY <1>1 DEF G!Withdrawn
<1> QED
  BY <1>1, <1>2 DEF GraphGrown

LEMMA WithdrawnKeeps ==
    ASSUME GraphInv, node' = G!Withdrawn, UNCHANGED <<compiled, childOf>>, graph # "absent", ListsRight',
           graph' = "failed_terminal" \/ (graph' = "cancelled" /\ \A n \in G!Nodes : node[n].status # "running")
    PROVE  GraphInv'
<1>1. /\ node' \in [G!Nodes -> NodeRows] /\ GraphGrown
      /\ \A n \in G!Nodes : /\ node'[n].status \notin {"blocked", "ready", "failed_recoverable"}
                            /\ node'[n].status # "cancelled" => node'[n] = node[n]
  BY WithdrawnFacts
<1>2. \A n : Met(n) => Met(n)'
  BY <1>1 DEF Met, GraphGrown
<1>3. \A n \in G!Nodes : NodeRight(n)'
  BY <1>1, <1>2 DEF GraphInv, NodeRight, ChildProven
<1>4. StatusRight'
  BY <1>1 DEF GraphInv, StatusRight, G!Settled, NodeRows, NodeStates
<1> QED
  BY <1>1, <1>3, <1>4 DEF GraphInv, ListsRight, GraphStates

LEMMA TerminateKeeps ==
    ASSUME G!GraphAssumption, GraphInv, NEW c \in Callers, turn = c, graph # "absent", G!Terminate(c), UNCHANGED <<compiled, childOf>>
    PROVE  GraphInv'
<1>1. G!Leave(c)
  BY DEF G!Terminate
<1>2. GraphGrown => ListsRight'
  BY <1>1, ListsGoOn DEF Onwards
<1>3. CASE "failed_terminal" \in G!GraphNext[graph]
  BY <1>2, <1>3, WithdrawnFacts, WithdrawnKeeps DEF G!Terminate
<1>4. CASE "failed_terminal" \notin G!GraphNext[graph]
  BY <1>2, <1>4, StayGrown, TablesStay DEF G!Terminate, SameTables
<1> QED
  BY <1>3, <1>4

LEMMA ParkKeeps ==
    ASSUME G!GraphAssumption, GraphInv, NEW c \in Callers, turn = c, graph # "absent", G!Park(c), UNCHANGED <<compiled, childOf>>
    PROVE  GraphInv'
<1>1. ListsRight'
  BY ListsGoOn, StayGrown DEF Onwards, G!Park
<1> QED
  BY <1>1, GraphGoes DEF G!Park

(* A request that held nothing, or was at the pass, takes a list up.        *)
LEMMA TakeUp ==
    ASSUME G!GraphAssumption, GraphInv, GraphGrown, NEW c \in Callers, turn \in {c, G!Nobody}, turn' = c, NEW r \in Lists,
           request' = [request EXCEPT ![c] = r], r.pc \in Holding \ {"ready"}, r.pc # "pass" => r.todo # {},
           \A x \in r.todo : Met(x.id)
    PROVE  ListsRight'
<1>1. \A n : Met(n) => Met(n)'
  BY DEF Met, GraphGrown
<1>2. ListRight(c, r)'
  BY <1>1 DEF ListRight
<1>3. /\ request' \in [Callers -> Lists] /\ turn' \in Callers \cup {G!Nobody}
      /\ \A d \in Callers : ListRight(d, request[d])'
      /\ request'[c] = r /\ \A d \in Callers \ {c} : request'[d].pc # "ready"
  BY <1>2, ListsKept
<1> QED
  BY <1>3 DEF ListsRight, ReadyRight

LEMMA ListedFacts ==
    ASSUME GraphInv, NEW chosen \in SUBSET G!Nodes, \A n \in chosen : Met(n)
    PROVE  /\ G!Listed(chosen) \in SUBSET Items /\ (chosen # {} => G!Listed(chosen) # {})
           /\ \A x \in G!Listed(chosen) : Met(x.id)
<1>1. ASSUME NEW n \in chosen
      PROVE  [id |-> n, was |-> node[n].status, tries |-> node[n].attempts] \in Items
  BY DEF GraphInv, NodeRows, Items
<1>2. G!Listed(chosen) \in SUBSET Items
  BY <1>1 DEF G!Listed
<1>3. ASSUME NEW x \in G!Listed(chosen) PROVE Met(x.id)
  <2>1. PICK n \in chosen : x = [id |-> n, was |-> node[n].status, tries |-> node[n].attempts]
    BY <1>3 DEF G!Listed
  <2>2. x.id = n
    BY <2>1
  <2> QED
    BY <2>1, <2>2
<1>4. chosen # {} => G!Listed(chosen) # {}
  BY DEF G!Listed
<1> QED
  BY <1>2, <1>3, <1>4

LEMMA PassFacts ==
    ASSUME G!GraphAssumption, GraphInv, NEW c \in Callers, G!At(c, "pass")
    PROVE  /\ \A d \in Callers : request[d].pc # "ready"
           /\ graph # "absent" /\ turn = c
<1>1. request[c].pc = "pass" /\ turn = c
  BY DEF G!At
<1>2. graph # "absent"
  BY <1>1, NotAbsent
<1> QED
  BY <1>1, <1>2, NoneReady

-----------------------------------------------------------------------------
(* One lemma for each action. *)
LEMMA FirstGraphKeeps ==
    ASSUME G!GraphAssumption, GraphInv, NEW e \in Envelopes, G!SubmitGraph(e) PROVE GraphInv'
<1>1. \A n \in G!Nodes : node[n].status = "blocked" /\ childOf[n] = G!Absent
  BY DEF G!SubmitGraph, GraphInv, StatusRight
<1>2. \A c \in Callers : request[c] = G!Idle
  BY DEF G!SubmitGraph, GraphInv, StatusRight
<1>3. compiled'.needs \in [G!Nodes -> SUBSET G!Nodes]
  <2>1. e.needs \in [G!Nodes -> SUBSET (G!Nodes \cup {"unknown"})] /\ \A n \in G!Nodes : e.needs[n] \subseteq G!Nodes
    BY DEF G!SubmitGraph, G!Compiles, G!GraphAssumption
  <2>2. e.needs \in [G!Nodes -> SUBSET G!Nodes]
    BY <2>1
  <2> QED
    BY <2>2 DEF G!SubmitGraph
<1>4. \A n \in G!Nodes : NodeRight(n)'
  BY <1>1 DEF G!SubmitGraph, NodeRight
<1>5. StatusRight'
  BY <1>3 DEF G!SubmitGraph, StatusRight, G!Settled
<1>6. \A c \in Callers : ListRight(c, request[c])'
  BY <1>2 DEF G!SubmitGraph, ListRight, G!Idle, Holding, Awaiting
<1>7. ReadyRight'
  BY <1>2 DEF G!SubmitGraph, ReadyRight, G!Idle
<1> QED
  BY <1>4, <1>5, <1>6, <1>7 DEF GraphInv, G!SubmitGraph, GraphStates

LEMMA ApproveKeeps ==
    ASSUME G!GraphAssumption, GraphInv, NEW c \in Callers, G!ApproveGraph(c) PROVE GraphInv'
<1> PICK r : r = [G!Idle EXCEPT !.pc = "pass"]
  OBVIOUS
<1>1. r \in Lists /\ r.pc = "pass" /\ r.todo = {}
  BY DEF Lists, Holding, G!Idle
<1>2. request' = [request EXCEPT ![c] = r] /\ turn' = c /\ turn = G!Nobody
  <2>1. request' = [request EXCEPT ![c] = [request[c] EXCEPT !.pc = "pass"]] /\ request[c] = G!Idle
    BY DEF G!ApproveGraph, G!Go
  <2> QED
    BY <2>1 DEF G!ApproveGraph, G!Go, G!Free
<1>3. ListsRight'
  BY <1>1, <1>2, StayGrown, TakeUp DEF G!ApproveGraph, Holding
<1>4. graph # "absent" /\ (graph' = "approved" \/ graph' = graph)
  BY DEF G!ApproveGraph
<1> QED
  BY <1>3, <1>4, GraphGoes DEF G!ApproveGraph

LEMMA BeginRunKeeps ==
    ASSUME G!GraphAssumption, GraphInv, NEW c \in Callers, G!BeginRunning(c) PROVE GraphInv'
<1>1. ListsRight'
  BY PassFacts, StayGrown, SameLists DEF G!BeginRunning
<1> QED
  BY <1>1, PassFacts, GraphGoes DEF G!BeginRunning

LEMMA EndKeeps ==
    ASSUME G!GraphAssumption, GraphInv, NEW c \in Callers, G!EndPass(c) PROVE GraphInv'
<1>1. G!At(c, "pass") /\ G!Leave(c) /\ UNCHANGED <<compiled, graph, node, childOf>>
  BY DEF G!EndPass, G!Deciding
<1>2. ListsRight'
  BY <1>1, PassFacts, StayGrown, ListsGoOn DEF Onwards
<1> QED
  BY <1>1, <1>2, PassFacts, TablesStay DEF SameTables

LEMMA FailKeeps ==
    ASSUME G!GraphAssumption, GraphInv, NEW c \in Callers, G!FailPass(c) PROVE GraphInv'
<1>1. G!At(c, "pass") /\ (G!Terminate(c) \/ G!Park(c)) /\ UNCHANGED <<compiled, childOf>>
  BY DEF G!FailPass, G!Deciding
<1> QED
  BY <1>1, PassFacts, TerminateKeeps, ParkKeeps

LEMMA CompleteGraphKeeps ==
    ASSUME G!GraphAssumption, GraphInv, NEW c \in Callers, G!CompleteGraph(c) PROVE GraphInv'
<1>1. G!At(c, "pass") /\ G!Leave(c) /\ graph' = "completed" /\ UNCHANGED <<compiled, node, childOf>>
  BY DEF G!CompleteGraph, G!Deciding
<1>2. \A n \in G!Nodes : node[n].status = "completed"
  BY DEF G!CompleteGraph
<1>3. ListsRight'
  BY <1>1, PassFacts, StayGrown, ListsGoOn DEF Onwards
<1>4. \A n \in G!Nodes : NodeRight(n)'
  BY <1>1 DEF GraphInv, NodeRight, Met, ChildProven
<1>5. StatusRight'
  BY <1>1, <1>2, PassFacts DEF GraphInv, StatusRight, G!Settled
<1> QED
  BY <1>1, <1>3, <1>4, <1>5 DEF GraphInv, ListsRight, GraphStates

LEMMA WaveKeeps ==
    ASSUME G!GraphAssumption, GraphInv, NEW c \in Callers, G!StartWave(c) PROVE GraphInv'
<1>1. G!At(c, "pass") /\ UNCHANGED <<compiled, graph, node, childOf, turn>>
  BY DEF G!StartWave, G!Deciding
<1>2. G!Ready \in SUBSET G!Nodes /\ G!Ready # {}
  BY DEF G!StartWave, G!Ready
<1>3. ASSUME NEW n \in G!Ready PROVE Met(n)
  <2>1. compiled.needs[n] \subseteq G!Nodes
    BY <1>1, <1>2, PassFacts DEF GraphInv, StatusRight
  <2> QED
    BY <2>1 DEF G!Ready, Met
<1>4. G!Listed(G!Ready) \in SUBSET Items /\ G!Listed(G!Ready) # {} /\ \A x \in G!Listed(G!Ready) : Met(x.id)
  BY <1>2, <1>3, ListedFacts
<1> PICK r : r = [pc |-> "dispatch", todo |-> G!Listed(G!Ready)]
  OBVIOUS
<1>5. r \in Lists /\ r.pc = "dispatch" /\ r.todo = G!Listed(G!Ready)
  BY <1>4 DEF Lists, Holding
<1>6. request' = [request EXCEPT ![c] = r]
  BY DEF G!StartWave
<1>7. ListsRight'
  BY <1>1, <1>4, <1>5, <1>6, PassFacts, StayGrown, TakeUp DEF Holding
<1> QED
  BY <1>1, <1>7, PassFacts, TablesStay DEF SameTables

LEMMA ItemStays ==
    ASSUME NEW c \in Callers, request'[c].todo = request[c].todo PROVE G!Item(c)' = G!Item(c)
  BY DEF G!Item

LEMMA MarkReadyKeeps ==
    ASSUME G!GraphAssumption, GraphInv, NEW c \in Callers, G!MarkReady(c) PROVE GraphInv'
<1>1. Busy(c) /\ turn = c /\ UNCHANGED <<compiled, graph, childOf>>
  BY DEF G!MarkReady, G!At, Busy, Holding
<1>2. G!Item(c).id \in G!Nodes /\ Met(G!Item(c).id) /\ graph # "absent"
  BY <1>1, ItemFacts, NotAbsent DEF Busy, Holding, Awaiting
<1>3. CASE G!MayMove(G!Item(c).id, "ready")
  <2>1. G!Become(G!Item(c).id, "ready") /\ G!Go(c, "ready")
    BY <1>3 DEF G!MarkReady
  <2>2. node[G!Item(c).id].status = "blocked"
    BY <1>2, <1>3 DEF G!MayMove, G!NodeNext, GraphInv, NodeRows, NodeStates
  <2>3. PICK s \in NodeRows : s.status = "ready" /\ node' = [node EXCEPT ![G!Item(c).id] = s]
    BY <1>2, <2>1, BecomeFacts DEF NodeStates
  <2>4. GraphGrown
    BY <1>1, <1>2, <2>2, <2>3, GrownByOne
  <2>5. /\ request' \in [Callers -> Lists] /\ turn' \in Callers \cup {G!Nobody}
        /\ \A d \in Callers : ListRight(d, request[d])'
        /\ request'[c] = [request[c] EXCEPT !.pc = "ready"] /\ \A d \in Callers \ {c} : request'[d].pc # "ready"
    BY <1>1, <2>1, <2>4, GoOn DEF Busy, Holding
  <2>6. node'[G!Item(c).id].status = "ready"
    BY <1>2, <2>3 DEF GraphInv
  <2>7. request'[c].todo = request[c].todo
    BY <2>5 DEF GraphInv, Lists
  <2>8. node'[G!Item(c)'.id].status = "ready"
    BY <2>6, <2>7, ItemStays
  <2>9. ReadyRight'
    BY <2>5, <2>8 DEF ReadyRight
  <2>10. ListsRight'
    BY <2>5, <2>9 DEF ListsRight
  <2> QED
    BY <1>1, <1>2, <2>2, <2>3, <2>10, NodeMoves DEF G!Settled
<1>4. CASE ~G!MayMove(G!Item(c).id, "ready")
  <2>1. G!Leave(c) /\ UNCHANGED node
    BY <1>4 DEF G!MarkReady
  <2>2. ListsRight'
    BY <1>1, <2>1, StayGrown, ListsGoOn DEF Onwards
  <2> QED
    BY <1>1, <1>2, <2>1, <2>2, TablesStay DEF SameTables
<1> QED
  BY <1>3, <1>4

(* A claimed node is running. *)
LEMMA ClaimKeeps ==
    ASSUME G!GraphAssumption, GraphInv, NEW c \in Callers, turn \in {c, G!Nobody}, Busy(c),
           G!Claim(G!Item(c).id, G!Item(c).tries), node[G!Item(c).id].status \notin G!Settled,
           Onwards(c), UNCHANGED <<compiled, graph, childOf>>
    PROVE  GraphInv'
<1>1. G!Item(c) \in Items /\ G!Item(c).id \in G!Nodes /\ Met(G!Item(c).id) /\ graph # "absent"
  BY ItemFacts, NotAbsent DEF Busy, Holding, Awaiting
<1> PICK s : s = [status |-> "running", attempts |-> G!Item(c).tries + 1]
  OBVIOUS
<1>2. s \in NodeRows /\ s.status = "running"
  BY <1>1 DEF Items, NodeRows, NodeStates
<1>3. node' = [node EXCEPT ![G!Item(c).id] = s]
  BY DEF G!Claim
<1>4. GraphGrown
  BY <1>1, <1>3, GrownByOne DEF G!Settled
<1>5. ListsRight'
  BY <1>4, ListsGoOn DEF Busy
<1> QED
  BY <1>1, <1>2, <1>3, <1>5, NodeMoves

LEMMA MarkRunningKeeps ==
    ASSUME G!GraphAssumption, GraphInv, NEW c \in Callers, G!MarkRunning(c) PROVE GraphInv'
<1>1. Busy(c) /\ turn = c /\ UNCHANGED <<compiled, graph, childOf>>
  BY DEF G!MarkRunning, G!At, Busy, Holding
<1>2. node[G!Item(c).id].status = "ready"
  BY DEF G!MarkRunning, G!At, GraphInv, ReadyRight
<1>3. Onwards(c)
  BY DEF G!MarkRunning, Onwards, Awaiting
<1> QED
  BY <1>1, <1>2, <1>3, ClaimKeeps DEF G!MarkRunning, G!Settled

LEMMA CreateChildKeeps ==
    ASSUME G!GraphAssumption, GraphInv, NEW c \in Callers, G!CreateChild(c) PROVE GraphInv'
<1>1. Busy(c) /\ turn = G!Nobody /\ UNCHANGED <<compiled, graph, node>>
  BY DEF G!CreateChild, G!Back, G!Free, Busy, Awaiting
<1>2. G!Item(c).id \in G!Nodes /\ Met(G!Item(c).id) /\ graph # "absent"
  BY <1>1, ItemFacts, NotAbsent DEF Busy, Holding, Awaiting
<1>3. Onwards(c)
  BY DEF G!CreateChild, Onwards, Awaiting
<1>4. ListsRight'
  BY <1>1, <1>3, StayGrown, ListsGoOn DEF Busy
<1>5. CASE childOf[G!Item(c).id] = G!Absent
  <2> PICK s : s = [childOf[G!Item(c).id] EXCEPT !.state = "approval_required"]
    OBVIOUS
  <2>1. s \in Children
    BY <1>2 DEF GraphInv, Children, G!States
  <2>2. childOf' = [childOf EXCEPT ![G!Item(c).id] = s]
    BY <1>5 DEF G!CreateChild
  <2>3. childOf[G!Item(c).id].state # "completed"
    BY <1>5 DEF G!Absent
  <2> QED
    BY <1>1, <1>2, <1>4, <2>1, <2>2, <2>3, ChildGoes
<1>6. CASE childOf[G!Item(c).id] # G!Absent
  BY <1>1, <1>2, <1>4, <1>6, TablesStay DEF G!CreateChild, SameTables
<1> QED
  BY <1>5, <1>6

LEMMA CreateFailsKeeps ==
    ASSUME G!GraphAssumption, GraphInv, NEW c \in Callers, G!CreateFails(c) PROVE GraphInv'
<1>1. Busy(c) /\ turn = G!Nobody /\ UNCHANGED <<compiled, graph, childOf>> /\ G!RecordError(c, "failed_recoverable")
  BY DEF G!CreateFails, G!Back, G!Free, Busy, Awaiting
<1> QED
  BY <1>1, ErrorKeeps

LEMMA ApproveChildKeeps ==
    ASSUME G!GraphAssumption, GraphInv, NEW c \in Callers, turn \in {c, G!Nobody}, Busy(c), G!ApproveChild(c),
           UNCHANGED <<compiled, graph>>
    PROVE  GraphInv'
<1>1. G!Item(c).id \in G!Nodes /\ Met(G!Item(c).id) /\ graph # "absent"
  BY ItemFacts, NotAbsent DEF Busy, Holding, Awaiting
<1>2. CASE childOf[G!Item(c).id].state = "approval_required"
  <2>1. childOf' = [childOf EXCEPT ![G!Item(c).id] = G!Moved(@, "approved", "graph")] /\ G!Await(c, "approving") /\ UNCHANGED node
    BY <1>2 DEF G!ApproveChild
  <2> PICK s : s = G!Moved(childOf[G!Item(c).id], "approved", "graph")
    OBVIOUS
  <2>2. s \in Children
    BY <1>1, MovedFacts DEF GraphInv, G!States
  <2>3. childOf' = [childOf EXCEPT ![G!Item(c).id] = s]
    BY <2>1
  <2>4. ListsRight'
    BY <2>1, StayGrown, ListsGoOn DEF Busy, Onwards, Awaiting
  <2> QED
    BY <1>1, <1>2, <2>1, <2>2, <2>3, <2>4, ChildGoes
<1>3. CASE childOf[G!Item(c).id].state = "completed" /\ childOf[G!Item(c).id].by = "graph"
  <2>1. G!Apply(c, G!Outcome(G!Item(c).id)) /\ UNCHANGED childOf
    BY <1>3 DEF G!ApproveChild
  <2> QED
    BY <1>1, <2>1, SyncedFacts, ApplyKeeps
<1>4. CASE childOf[G!Item(c).id].state = "completed" /\ childOf[G!Item(c).id].by # "graph"
  <2>1. G!RecordError(c, "failed_terminal") /\ UNCHANGED childOf
    BY <1>4 DEF G!ApproveChild
  <2> QED
    BY <2>1, ErrorKeeps
<1>5. CASE childOf[G!Item(c).id].state \notin {"approval_required", "completed"}
  <2>1. G!RecordError(c, "failed_recoverable") /\ UNCHANGED childOf
    BY <1>5 DEF G!ApproveChild
  <2> QED
    BY <2>1, ErrorKeeps
<1> QED
  BY <1>2, <1>3, <1>4, <1>5

LEMMA EnterApprovalKeeps ==
    ASSUME G!GraphAssumption, GraphInv, NEW c \in Callers, G!EnterApproval(c) PROVE GraphInv'
<1>1. Busy(c) /\ turn = G!Nobody /\ G!ApproveChild(c) /\ UNCHANGED <<compiled, graph>>
  BY DEF G!EnterApproval, G!Back, G!Free, Busy, Awaiting
<1> QED
  BY <1>1, ApproveChildKeeps

LEMMA JudgeKeeps ==
    ASSUME G!GraphAssumption, GraphInv, NEW c \in Callers, G!JudgeNode(c) PROVE GraphInv'
<1>1. Busy(c) /\ turn = c /\ graph # "absent" /\ UNCHANGED <<compiled, childOf>>
  BY NotAbsent DEF G!JudgeNode, G!At, Busy, Holding, Awaiting
<1>2. CASE G!Terminate(c)
  BY <1>1, <1>2, TerminateKeeps
<1>3. CASE G!Park(c)
  BY <1>1, <1>3, ParkKeeps
<1>4. CASE G!Proceed(c) /\ UNCHANGED <<graph, node>>
  <2>1. ListsRight'
    BY <1>1, <1>4, StayGrown, ListsGoOn DEF Onwards, Busy
  <2> QED
    BY <1>1, <1>4, <2>1, TablesStay DEF SameTables
<1> QED
  BY <1>2, <1>3, <1>4 DEF G!JudgeNode

LEMMA ResumeKeeps ==
    ASSUME G!GraphAssumption, GraphInv, NEW c \in Callers, G!ResumeGraph(c) PROVE GraphInv'
<1> DEFINE Open == {n \in G!Nodes : node[n].status \in {"running", "failed_recoverable"}}
<1>1. graph # "absent" /\ (graph' = "running" \/ graph' = graph) /\ turn = G!Nobody /\ turn' = c
  BY DEF G!ResumeGraph, G!Free
<1>2. \A n \in Open : Met(n)
  BY DEF GraphInv, NodeRight
<1>3. G!Listed(Open) \in SUBSET Items /\ \A x \in G!Listed(Open) : Met(x.id)
  <2>1. Open \in SUBSET G!Nodes
    OBVIOUS
  <2> HIDE DEF Open
  <2> QED
    BY <1>2, <2>1, ListedFacts
<1> PICK r : r = [pc |-> IF G!Listed(Open) = {} THEN "pass" ELSE "recover", todo |-> G!Listed(Open)]
  OBVIOUS
<1>4. request' = [request EXCEPT ![c] = r]
  BY DEF G!ResumeGraph
<1> HIDE DEF Open
<1>5. r \in Lists /\ r.pc \in {"pass", "recover"} /\ r.todo = G!Listed(Open) /\ (r.pc # "pass" => r.todo # {})
  BY <1>3 DEF Lists, Holding
<1>6. ListsRight'
  BY <1>1, <1>3, <1>4, <1>5, StayGrown, TakeUp DEF Holding, G!ResumeGraph
<1> QED
  BY <1>1, <1>6, GraphGoes DEF G!ResumeGraph

LEMMA ClaimRecoveryKeeps ==
    ASSUME G!GraphAssumption, GraphInv, NEW c \in Callers, G!ClaimRecovery(c) PROVE GraphInv'
<1>1. Busy(c) /\ turn = c /\ UNCHANGED <<compiled, graph, childOf>>
  BY DEF G!ClaimRecovery, G!At, Busy, Holding
<1>2. G!Item(c).id \in G!Nodes /\ Met(G!Item(c).id) /\ graph # "absent"
  BY <1>1, ItemFacts, NotAbsent DEF Busy, Holding, Awaiting
<1>3. ASSUME G!Go(c, "heal") \/ G!Leave(c), UNCHANGED node PROVE GraphInv'
  <2>1. ListsRight'
    BY <1>1, <1>3, StayGrown, ListsGoOn DEF Onwards, Busy, Holding
  <2> QED
    BY <1>1, <1>2, <1>3, <2>1, TablesStay DEF SameTables
<1>4. ASSUME G!MayMove(G!Item(c).id, "running") \/ G!MayMove(G!Item(c).id, "failed_terminal")
      PROVE  node[G!Item(c).id].status \notin G!Settled
  BY <1>2, <1>4 DEF G!MayMove, G!NodeNext, G!Settled
<1>5. ASSUME G!MayMove(G!Item(c).id, "failed_terminal"), G!Become(G!Item(c).id, "failed_terminal"), G!Proceed(c) PROVE GraphInv'
  <2>1. PICK s \in NodeRows : s.status = "failed_terminal" /\ node' = [node EXCEPT ![G!Item(c).id] = s]
    BY <1>2, <1>5, BecomeFacts DEF NodeStates
  <2>2. GraphGrown
    BY <1>1, <1>2, <1>4, <1>5, <2>1, GrownByOne DEF G!Settled
  <2>3. ListsRight'
    BY <1>1, <1>5, <2>2, ListsGoOn DEF Onwards, Busy
  <2> QED
    BY <1>1, <1>2, <1>4, <1>5, <2>1, <2>3, NodeMoves
<1>6. ASSUME G!MayMove(G!Item(c).id, "running"), G!Claim(G!Item(c).id, G!Item(c).tries), G!Go(c, "heal") PROVE GraphInv'
  <2>1. Onwards(c)
    BY <1>6 DEF Onwards, Holding
  <2> QED
    BY <1>1, <1>4, <1>6, <2>1, ClaimKeeps
<1> QED
  BY <1>3, <1>5, <1>6 DEF G!ClaimRecovery

LEMMA HealKeeps ==
    ASSUME G!GraphAssumption, GraphInv, NEW c \in Callers, G!Heal(c) PROVE GraphInv'
<1>1. Busy(c) /\ turn = c /\ UNCHANGED <<compiled, graph>>
  BY DEF G!Heal, G!At, Busy, Holding
<1>2. G!Item(c).id \in G!Nodes /\ graph # "absent"
  BY <1>1, ItemFacts, NotAbsent DEF Busy, Holding, Awaiting
<1>3. ASSUME NEW pc \in Awaiting, G!Await(c, pc), UNCHANGED <<node, childOf>> PROVE GraphInv'
  <2>1. Onwards(c)
    BY <1>3 DEF Onwards, Awaiting
  <2>2. ListsRight'
    BY <1>1, <1>3, <2>1, StayGrown, ListsGoOn DEF Busy
  <2> QED
    BY <1>1, <1>2, <1>3, <2>2, TablesStay DEF SameTables
<1>4. ASSUME G!Apply(c, G!Outcome(G!Item(c).id)), UNCHANGED childOf PROVE GraphInv'
  BY <1>1, <1>2, <1>4, SyncedFacts, ApplyKeeps
<1>5. CASE G!ApproveChild(c)
  BY <1>1, <1>5, ApproveChildKeeps
<1> QED
  BY <1>3, <1>4, <1>5 DEF G!Heal, Awaiting

LEMMA AnswersKeep ==
    ASSUME G!GraphAssumption, GraphInv, NEW c \in Callers, G!ChildAnswers(c) PROVE GraphInv'
<1>1. Busy(c) /\ turn = G!Nobody /\ UNCHANGED <<compiled, graph, childOf>>
  BY DEF G!ChildAnswers, G!Back, G!Free, Busy, Awaiting
<1>2. G!Item(c).id \in G!Nodes /\ graph # "absent"
  BY <1>1, ItemFacts, NotAbsent DEF Busy, Holding, Awaiting
<1>3. CASE G!Apply(c, G!Outcome(G!Item(c).id))
  BY <1>1, <1>2, <1>3, SyncedFacts, ApplyKeeps
<1>4. CASE G!Await(c, "resuming") /\ UNCHANGED node
  <2>1. ListsRight'
    BY <1>1, <1>4, StayGrown, ListsGoOn DEF Busy, Onwards, Awaiting
  <2> QED
    BY <1>1, <1>2, <1>4, <2>1, TablesStay DEF SameTables
<1>5. CASE G!RecordError(c, "failed_recoverable")
  BY <1>1, <1>5, ErrorKeeps
<1> QED
  BY <1>3, <1>4, <1>5 DEF G!ChildAnswers

LEMMA WithdrawalKeeps == ASSUME G!GraphAssumption, GraphInv, G!CancelGraph PROVE GraphInv'
<1>1. GraphGrown
  BY WithdrawnFacts DEF G!CancelGraph
<1>2. ListsRight'
  BY <1>1, NoneReady, SameLists DEF G!CancelGraph, G!Free
<1>3. graph # "absent"
  BY DEF G!CancelGraph, G!GraphNext
<1>4. \A n \in G!Nodes : node[n].status # "running"
  BY DEF G!CancelGraph, G!Some
<1> QED
  BY <1>2, <1>3, <1>4, WithdrawnKeeps DEF G!CancelGraph

LEMMA ChildMoveKeeps ==
    ASSUME G!GraphAssumption, GraphInv, NEW n \in G!Nodes, G!ChildMoves(n) PROVE GraphInv'
<1>1. PICK to \in G!Moves[childOf[n].state] : childOf' = [childOf EXCEPT ![n] = G!Moved(@, to, "person")]
  BY DEF G!ChildMoves
<1>2. childOf[n] \in Children /\ childOf[n].state \in G!States
  BY DEF GraphInv, Children
<1>3. to \in G!States /\ childOf[n].state # "completed"
  BY <1>1, <1>2 DEF G!Moves, G!States
<1> PICK s : s = G!Moved(childOf[n], to, "person")
  OBVIOUS
<1>4. s \in Children /\ childOf' = [childOf EXCEPT ![n] = s]
  BY <1>1, <1>2, <1>3, MovedFacts
<1>5. Met(n)
  BY DEF GraphInv, NodeRight, G!ChildMoves
<1>6. graph # "absent"
  BY DEF GraphInv, StatusRight, G!ChildMoves
<1>7. ListsRight'
  BY NoneReady, StayGrown, SameLists DEF G!ChildMoves, G!Free
<1> QED
  BY <1>3, <1>4, <1>5, <1>6, <1>7, ChildGoes DEF G!ChildMoves

LEMMA GraphCrashKeeps == ASSUME G!GraphAssumption, GraphInv, G!Crash PROVE GraphInv'
<1>1. G!Idle \in Lists /\ G!Idle.pc = "idle" /\ G!Idle.todo = {}
  BY DEF G!Idle, Lists
<1>2. request' \in [Callers -> Lists] /\ \A c \in Callers : request'[c] = G!Idle
  BY <1>1 DEF G!Crash
<1>3. \A c \in Callers : ListRight(c, request[c])'
  BY <1>1, <1>2 DEF ListRight, Holding, Awaiting
<1>4. ReadyRight'
  BY <1>1, <1>2 DEF ReadyRight
<1>5. \A n \in G!Nodes : NodeRight(n)'
  BY DEF GraphInv, NodeRight, G!Crash, Met, ChildProven
<1>6. StatusRight'
  BY <1>2 DEF GraphInv, StatusRight, G!Crash
<1> QED
  BY <1>2, <1>3, <1>4, <1>5, <1>6 DEF GraphInv, G!Crash

LEMMA GraphStillKeeps == ASSUME GraphInv, UNCHANGED G!vars PROVE GraphInv'
<1>1. UNCHANGED <<compiled, graph, node, childOf, request, turn>>
  BY DEF G!vars
<1>2. \A n : Met(n)' <=> Met(n)
  BY <1>1 DEF Met
<1>3. \A n \in G!Nodes : NodeRight(n)'
  BY <1>1, <1>2 DEF GraphInv, NodeRight, ChildProven
<1>4. StatusRight'
  BY <1>1 DEF GraphInv, StatusRight
<1>5. \A c \in Callers : ListRight(c, request[c])'
  BY <1>1, <1>2 DEF GraphInv, ListRight
<1>6. ReadyRight'
  BY <1>1 DEF GraphInv, ReadyRight, G!Item
<1> QED
  BY <1>1, <1>3, <1>4, <1>5, <1>6 DEF GraphInv

LEMMA GraphStepKeeps == ASSUME G!GraphAssumption, GraphInv, [G!Next]_(G!vars) PROVE GraphInv'
<1>1. ASSUME NEW c \in Callers, G!Serve(c) PROVE GraphInv'
  BY <1>1, BeginRunKeeps, SyncKeeps, EndKeeps, FailKeeps, CompleteGraphKeeps, WaveKeeps, MarkReadyKeeps,
     MarkRunningKeeps, CreateChildKeeps, CreateFailsKeeps, EnterApprovalKeeps, JudgeKeeps, ClaimRecoveryKeeps,
     HealKeeps, AnswersKeep DEF G!Serve
<1> QED
  BY <1>1, FirstGraphKeeps, ApproveKeeps, ResumeKeeps, WithdrawalKeeps, GraphCrashKeeps, ChildMoveKeeps, GraphStillKeeps DEF G!Next

-----------------------------------------------------------------------------
(* Lists, nodes and graphs agree, whatever fails or overlaps.                *)
THEOREM GraphKept == ASSUME G!GraphAssumption PROVE G!Spec => []GraphInv
  BY GraphInit, GraphStepKeeps, PTL DEF G!Spec

(* What a node or its graph reports is so, for any graph (runScheduler,      *)
(* applyChildOutcome, cancelGraph).                                          *)
THEOREM ResultsHonest == ASSUME G!GraphAssumption PROVE G!Spec => []G!ResultsAreHonest
<1>1. ASSUME GraphInv PROVE G!ResultsAreHonest
  <2>1. \A n \in G!Nodes : childOf[n] # G!Absent => \A m \in compiled.needs[n] : node[m].status = "completed"
    BY <1>1 DEF GraphInv, NodeRight, Met
  <2>2. \A n \in G!Nodes : node[n].status = "completed" =>
          /\ childOf[n].state = "completed"
          /\ compiled.lane[n] = "autoposter" => n \in compiled.proven
    BY <1>1 DEF GraphInv, NodeRight, ChildProven
  <2> QED
    BY <1>1, <2>1, <2>2 DEF GraphInv, StatusRight, G!ResultsAreHonest
<1> QED
  BY <1>1, GraphKept, PTL

LEMMA GraphSteps == [ServicesNext]_tables => [G!Next]_(G!vars)
BY DEF ServicesNext, IntakeStep, ApprovalStep, ObservationStep, GraphStep, GenericStep, CommandStep, BoardStep,
       RunStep, BridgeStep, DatabaseStep, ScheduleStep, LedgerStep, IntentStep, CloseoutStep, tables, graphs, G!vars

(* Beside the other services, a node starts its child only when what it needs *)
(* has completed, and what a node or the graph reports is so (runScheduler,   *)
(* applyChildOutcome, cancelGraph).                                           *)
THEOREM GraphsKept == ServicesSpec => []ResultsAreHonest
<1>1. ServicesInit => G!Init
  BY DEF ServicesInit
<1>2. ServicesSpec => G!Spec
  BY <1>1, GraphSteps, PTL DEF ServicesSpec, G!Spec
<1>3. G!Spec => []G!ResultsAreHonest
  BY ServicesAssumption, ResultsHonest
<1> QED
  BY <1>2, <1>3, PTL DEF ResultsAreHonest

-----------------------------------------------------------------------------
(* The promise.  Before the graph has begun nothing of it has.               *)
Early == {"absent", "approval_required", "approved"}
NotBegun ==
    graph \in Early => /\ \A n \in G!Nodes : node[n].status = "blocked" /\ childOf[n] = G!Absent
                       /\ \A c \in Callers : request[c].pc \in {"idle", "pass"}
GraphCarried == [n \in G!Nodes |-> childOf[n].state]
GraphPromised == G!Promise!Submit \/ G!Promise!Advance \/ G!Promise!Carry
(* A step either leaves the missions or leaves the graph.                    *)
GraphRises ==
    /\ UNCHANGED childOf
    /\ graph' \in G!GraphNext[graph] \/ (graph = "absent" /\ graph' = "approval_required")
    /\ graph' = "completed" => \A n \in G!Nodes : childOf[n].state = "completed"
OneChildMoves ==
    /\ UNCHANGED graph /\ graph \notin Early
    /\ \E n \in G!Nodes : \E to \in G!Moves[childOf[n].state], by \in {"graph", "person"} :
         childOf' = [childOf EXCEPT ![n] = G!Moved(childOf[n], to, by)]
GraphEffects == UNCHANGED <<graph, childOf>> \/ GraphRises \/ OneChildMoves

LEMMA GraphNextTable ==
    /\ G!GraphNext["absent"] = {} /\ G!GraphNext["approval_required"] = {"approved", "cancelled"}
    /\ G!GraphNext["approved"] = {"running", "cancelled"}
    /\ G!GraphNext["running"] = {"completed", "failed_recoverable", "failed_terminal", "cancelled"}
    /\ G!GraphNext["failed_recoverable"] = {"running", "failed_terminal", "cancelled"}
    /\ G!GraphNext["completed"] = {} /\ G!GraphNext["failed_terminal"] = {} /\ G!GraphNext["cancelled"] = {}
  BY DEF G!GraphNext

(* The graph's own approval of a mission.                                    *)
LEMMA ApproveChildMoves ==
    ASSUME G!GraphAssumption, GraphInv, NotBegun, NEW c \in Callers, Busy(c), G!ApproveChild(c), UNCHANGED graph
    PROVE  GraphEffects
<1> PICK n : n = G!Item(c).id
  OBVIOUS
<1>1. n \in G!Nodes /\ graph \notin Early
  BY ItemFacts DEF Busy, NotBegun, Holding, Awaiting
<1>2. CASE childOf[n].state = "approval_required"
  <2>1. childOf' = [childOf EXCEPT ![n] = G!Moved(childOf[n], "approved", "graph")]
    BY <1>1, <1>2 DEF G!ApproveChild, GraphInv
  <2>2. "approved" \in G!Moves[childOf[n].state]
    BY <1>2 DEF G!Moves
  <2> QED
    BY <1>1, <1>2, <2>1, <2>2 DEF GraphEffects, OneChildMoves
<1>3. CASE childOf[n].state # "approval_required"
  BY <1>3 DEF G!ApproveChild, GraphEffects
<1> QED
  BY <1>2, <1>3

LEMMA CreateChildMoves ==
    ASSUME G!GraphAssumption, GraphInv, NotBegun, NEW c \in Callers, G!CreateChild(c) PROVE GraphEffects
<1> PICK n : n = G!Item(c).id
  OBVIOUS
<1>1. n \in G!Nodes /\ graph \notin Early /\ graph' = graph
  BY ItemFacts DEF G!CreateChild, G!Back, NotBegun, Holding, Awaiting
<1>2. CASE childOf[n] = G!Absent
  <2>1. childOf' = [childOf EXCEPT ![n] = G!Moved(childOf[n], "approval_required", "graph")]
    <3>1. childOf' = [childOf EXCEPT ![n] = [G!Absent EXCEPT !.state = "approval_required"]]
      BY <1>1, <1>2 DEF G!CreateChild, GraphInv
    <3>2. [G!Absent EXCEPT !.state = "approval_required"] = G!Moved(G!Absent, "approval_required", "graph")
      BY DEF G!Moved, G!Absent
    <3> QED
      BY <1>2, <3>1, <3>2
  <2>2. "approval_required" \in G!Moves[childOf[n].state]
    BY <1>2 DEF G!Moves, G!Absent
  <2> QED
    BY <1>1, <2>1, <2>2 DEF GraphEffects, OneChildMoves
<1>3. CASE childOf[n] # G!Absent
  BY <1>1, <1>3 DEF G!CreateChild, GraphEffects
<1> QED
  BY <1>2, <1>3

(* Failed, parked or unchanged.                                              *)
LEMMA JudgedMoves ==
    ASSUME NEW c, G!Terminate(c) \/ G!Park(c), UNCHANGED childOf PROVE GraphEffects
  BY DEF G!Terminate, G!Park, GraphEffects, GraphRises

LEMMA ServeMoves ==
    ASSUME G!GraphAssumption, GraphInv, NotBegun, NEW c \in Callers, G!Serve(c) PROVE GraphEffects
<1> USE DEF GraphEffects, GraphRises
<1>1. CASE G!BeginRunning(c)
  BY <1>1, GraphNextTable DEF G!BeginRunning
<1>2. CASE (\E n \in G!Nodes : G!SyncNode(c, n)) \/ G!EndPass(c) \/ G!StartWave(c)
  BY <1>2 DEF G!SyncNode, G!EndPass, G!StartWave
<1>3. CASE G!FailPass(c)
  BY <1>3, JudgedMoves DEF G!FailPass
<1>4. CASE G!CompleteGraph(c)
  BY <1>4, GraphNextTable DEF G!CompleteGraph, G!Deciding, GraphInv, NodeRight, ChildProven
<1>5. CASE G!MarkReady(c) \/ G!MarkRunning(c) \/ G!CreateFails(c) \/ G!ClaimRecovery(c) \/ G!ChildAnswers(c)
  BY <1>5 DEF G!MarkReady, G!MarkRunning, G!CreateFails, G!ClaimRecovery, G!ChildAnswers
<1>6. CASE G!CreateChild(c)
  BY <1>6, CreateChildMoves
<1>7. CASE G!EnterApproval(c)
  BY <1>7, ApproveChildMoves DEF G!EnterApproval, G!Back, Busy, Holding, Awaiting
<1>8. CASE G!JudgeNode(c)
  BY <1>8, JudgedMoves DEF G!JudgeNode
<1>9. CASE G!Heal(c)
  <2>1. CASE G!ApproveChild(c)
    BY <1>9, <2>1, ApproveChildMoves DEF G!Heal, G!At, Busy, Holding, Awaiting
  <2>2. CASE ~G!ApproveChild(c)
    BY <1>9, <2>2 DEF G!Heal
  <2> QED
    BY <2>1, <2>2
<1> QED
  BY <1>1, <1>2, <1>3, <1>4, <1>5, <1>6, <1>7, <1>8, <1>9 DEF G!Serve

LEMMA StepMoves ==
    ASSUME G!GraphAssumption, GraphInv, NotBegun, G!Next PROVE GraphEffects
<1> USE DEF GraphEffects, GraphRises
<1>1. ASSUME NEW e \in Envelopes, G!SubmitGraph(e) PROVE GraphEffects
  BY <1>1 DEF G!SubmitGraph
<1>2. ASSUME NEW c \in Callers, G!ApproveGraph(c) \/ G!ResumeGraph(c) PROVE GraphEffects
  BY <1>2, GraphNextTable DEF G!ApproveGraph, G!ResumeGraph
<1>3. ASSUME NEW c \in Callers, G!Serve(c) PROVE GraphEffects
  BY <1>3, ServeMoves
<1>4. CASE G!CancelGraph \/ G!Crash
  BY <1>4 DEF G!CancelGraph, G!Crash
<1>5. ASSUME NEW n \in G!Nodes, G!ChildMoves(n) PROVE GraphEffects
  <2>1. graph \notin Early
    BY <1>5 DEF G!ChildMoves, NotBegun
  <2>2. PICK to \in G!Moves[childOf[n].state] : childOf' = [childOf EXCEPT ![n] = G!Moved(childOf[n], to, "person")]
    BY <1>5 DEF G!ChildMoves, GraphInv
  <2> QED
    BY <1>5, <2>1, <2>2 DEF G!ChildMoves, OneChildMoves
<1> QED
  BY <1>1, <1>2, <1>3, <1>4, <1>5 DEF G!Next

LEMMA NotBegunByOne ==
    ASSUME NotBegun, graph \in Early, UNCHANGED <<node, childOf>>,
           \A c \in Callers : request'[c].pc \in {"idle", "pass"}
    PROVE  NotBegun'
  BY DEF NotBegun

(* Nothing begins before the graph does.                                     *)
LEMMA NotBegunKept ==
    ASSUME G!GraphAssumption, GraphInv, NotBegun, [G!Next]_(G!vars) PROVE NotBegun'
<1> SUFFICES ASSUME graph' \in Early PROVE NotBegun'
  BY DEF NotBegun
<1>1. CASE UNCHANGED G!vars
  BY <1>1 DEF G!vars, NotBegun
<1>2. ASSUME G!Next PROVE NotBegun'
  <2>1. graph \in Early
    <3>1. GraphEffects
      BY <1>2, StepMoves
    <3> QED
      BY <3>1, GraphNextTable DEF GraphEffects, GraphRises, OneChildMoves, Early, GraphInv, GraphStates
  <2>2. /\ \A n \in G!Nodes : node[n].status = "blocked" /\ childOf[n] = G!Absent
        /\ \A c \in Callers : request[c].pc \in {"idle", "pass"}
    BY <2>1 DEF NotBegun
  <2>4. ASSUME UNCHANGED <<node, childOf, request>> PROVE NotBegun'
    BY <2>2, <2>4 DEF NotBegun
  <2>3. request \in [Callers -> Lists]
    BY DEF GraphInv
  <2>5. ASSUME NEW c \in Callers, G!ApproveGraph(c) PROVE NotBegun'
    <3>1. \A d \in Callers : request'[d].pc \in {"idle", "pass"}
      BY <2>2, <2>3, <2>5 DEF G!ApproveGraph, G!Go, Lists
    <3>2. UNCHANGED <<node, childOf>>
      BY <2>5 DEF G!ApproveGraph
    <3> QED
      BY <2>1, <3>1, <3>2, NotBegunByOne
  <2>6. ASSUME NEW c \in Callers, G!ResumeGraph(c) PROVE NotBegun'
    <3>1. G!Listed({n \in G!Nodes : node[n].status \in {"running", "failed_recoverable"}}) = {}
      BY <2>2 DEF G!Listed
    <3>2. request' = [request EXCEPT ![c] = [pc |-> "pass", todo |-> {}]] /\ UNCHANGED <<node, childOf>>
      BY <2>6, <3>1 DEF G!ResumeGraph
    <3>3. \A d \in Callers : request'[d].pc \in {"idle", "pass"}
      BY <2>2, <2>3, <3>2
    <3> QED
      BY <2>1, <3>2, <3>3, NotBegunByOne
  <2>7. ASSUME NEW c \in Callers, G!Serve(c) PROVE NotBegun'
    <3>1. CASE G!BeginRunning(c)
      BY <2>4, <3>1 DEF G!BeginRunning
    <3>2. CASE G!EndPass(c)
      <4>1. \A d \in Callers : request'[d].pc \in {"idle", "pass"}
        BY <2>2, <2>3, <3>2 DEF G!EndPass, G!Leave, G!Idle
      <4>2. UNCHANGED <<node, childOf>>
        BY <3>2 DEF G!EndPass
      <4> QED
        BY <2>1, <4>1, <4>2, NotBegunByOne
    <3>3. ~Busy(c) /\ graph # "running"
      BY <2>1, <2>2 DEF Busy, Holding, Awaiting, Early
    <3> QED
      BY <2>7, <3>1, <3>2, <3>3 DEF G!Serve, G!SyncNode, G!FailPass, G!CompleteGraph, G!StartWave, G!Deciding,
         G!MarkReady, G!MarkRunning, G!CreateFails, G!ClaimRecovery, G!ChildAnswers, G!CreateChild, G!EnterApproval,
         G!JudgeNode, G!Heal, G!At, G!Back, Busy, Holding, Awaiting
  <2>8. CASE G!Crash
    BY <2>2, <2>8 DEF G!Crash, NotBegun, G!Idle
  <2>9. ASSUME NEW n \in G!Nodes, G!ChildMoves(n) PROVE NotBegun'
    BY <2>2, <2>9 DEF G!ChildMoves
  <2>10. CASE G!CancelGraph
    BY <2>10 DEF G!CancelGraph, Early
  <2>11. ASSUME NEW e \in Envelopes, G!SubmitGraph(e) PROVE NotBegun'
    BY <2>4, <2>11 DEF G!SubmitGraph
  <2> QED
    BY <1>2, <2>5, <2>6, <2>7, <2>8, <2>9, <2>10, <2>11 DEF G!Next
<1> QED
  BY <1>1, <1>2

LEMMA RisesPromised == ASSUME GraphRises PROVE GraphPromised
<1>1. G!Promise!GraphNext = G!GraphNext
  BY DEF G!Promise!GraphNext, G!GraphNext
<1> QED
  BY <1>1 DEF GraphRises, GraphPromised, G!Promise!Submit, G!Promise!Advance

LEMMA MissionPromised == ASSUME GraphInv, OneChildMoves PROVE GraphPromised
<1>1. G!Promise!Begun = G!Begun /\ G!Promise!Moves = G!Moves
  BY DEF G!Promise!Begun, G!Begun, G!Promise!Moves, G!Moves
<1> PICK n \in G!Nodes : \E to \in G!Moves[childOf[n].state], by \in {"graph", "person"} :
        childOf' = [childOf EXCEPT ![n] = G!Moved(childOf[n], to, by)]
  BY DEF OneChildMoves
<1>2. PICK to \in G!Moves[childOf[n].state], by \in {"graph", "person"} :
        childOf' = [childOf EXCEPT ![n] = G!Moved(childOf[n], to, by)]
  OBVIOUS
<1>3. graph' = graph /\ (childOf[n].state = "absent" => graph \in G!Begun)
  BY DEF OneChildMoves, GraphInv, GraphStates, StatusRight, NodeRight, ChildProven, Early, G!Begun
<1>4. G!Moved(childOf[n], to, by).state = to
  BY DEF G!Moved
<1>5. GraphCarried' = [GraphCarried EXCEPT ![n] = to]
  BY <1>2, <1>4 DEF GraphCarried, GraphInv
<1> QED
  BY <1>1, <1>2, <1>3, <1>5 DEF GraphPromised, G!Promise!Carry, GraphCarried

(* A graph keeps its promise to those above it: its status moves as the      *)
(* journal's table says, it completes only with the missions of all its      *)
(* nodes, and no mission exists before it has begun (runScheduler,           *)
(* dispatchNode, resumeGraph), in whatever order its requests interleave.    *)
THEOREM GraphKeepsPromise == ASSUME G!GraphAssumption PROVE G!Spec => G!KeepsPromise
<1>1. G!Init => NotBegun /\ G!Promise!Init
  BY DEF G!Init, G!Promise!Init, NotBegun, G!Absent, G!Idle
<1>2. GraphInv /\ NotBegun /\ [G!Next]_(G!vars) => NotBegun'
  BY NotBegunKept
<1>3. GraphInv /\ NotBegun /\ [G!Next]_(G!vars) => [GraphPromised]_<<graph, GraphCarried>>
  <2> SUFFICES ASSUME GraphInv, NotBegun, [G!Next]_(G!vars) PROVE [GraphPromised]_<<graph, GraphCarried>>
    OBVIOUS
  <2>1. CASE UNCHANGED <<graph, childOf>>
    BY <2>1 DEF GraphCarried
  <2>2. CASE G!Next
    BY <2>1, <2>2, StepMoves, RisesPromised, MissionPromised DEF GraphEffects
  <2> QED
    BY <2>1, <2>2 DEF G!vars
<1> QED
  BY <1>1, <1>2, <1>3, GraphKept, PTL
  DEF G!Spec, G!KeepsPromise, G!Promise!Spec, GraphPromised, GraphCarried

-------------------------------------------------------------------------------
(* The Platform command under the OS control plane.                          *)
(* What each record can hold. *)
CommandRows ==
    [payload : Submitted \cup {Unset}, bound : BOOLEAN,
     lifecycle : {"absent", "accepted", "approval_required", "executing", "failed_recoverable", "completed", "failed"},
     product : {"not_started", "recovery_required", "draft_created", "failed"},
     draft : {"required", "approved"}, evidence : BOOLEAN]
CarrierGraphs ==
    [status : P!Going \cup {"absent", "approval_required", "completed", "failed_terminal", "cancelled"},
     payload : Submitted \cup {Unset}, by : {"nobody", "actor", "other"}, links : BOOLEAN]
Waiting == {"insert", "validate", "bind", "approve", "running", "resumed", "link", "evidence"}
CommandCalls ==
    [pc : Waiting \cup {"idle"}, body : Submitted \cup {Unset},
     before : P!Going \cup {"none", "absent", "approval_required", "completed", "failed_terminal", "cancelled"}]

Stored == command.lifecycle # "absent"
(* Its own actor's, for good. *)
Actors == carrier.by = "actor" /\ carrier.status \notin {"absent", "approval_required"}
Finished == carrier.status = "completed" /\ carrier.by = "actor"
(* What a request at each of its awaits has seen, and no other undoes. *)
OrderRight(m) ==
    /\ m.pc = "insert" => m.body \in Submitted
    /\ m.pc = "validate" => Stored /\ m.body = command.payload
    /\ m.pc = "bind" => Stored /\ carrier.status # "absent"
    /\ m.pc \in {"approve", "running", "resumed", "link", "evidence"} => command.bound
    /\ m.pc \in {"running", "resumed"} => Actors
    /\ m.pc \in {"link", "evidence"} => Finished
    /\ m.pc = "evidence" => carrier.links
RowRight ==
    /\ Stored => command.payload \in Submitted
    /\ ~Stored => command = P!NoRow
    /\ command.bound => Stored /\ carrier.status # "absent"
    /\ carrier.status # "absent" => Stored /\ carrier.payload = command.payload
    /\ command.lifecycle = "completed" \/ command.evidence => command.bound /\ Finished /\ carrier.links
PlatformInv ==
    /\ command \in CommandRows /\ carrier \in CarrierGraphs /\ order \in [Callers -> CommandCalls]
    /\ \A c \in Callers : OrderRight(order[c])
    /\ RowRight

(* What no step takes back. *)
Onward ==
    /\ Stored => command'.lifecycle # "absent" /\ command'.payload = command.payload
    /\ command.bound => command'.bound
    /\ carrier.status # "absent" => carrier'.status # "absent"
    /\ Actors => Actors'
    /\ carrier.status = "completed" => carrier' = carrier

LEMMA NoRowFacts ==
    /\ P!NoRow \in CommandRows /\ P!NoRow.lifecycle = "absent" /\ ~P!NoRow.bound /\ ~P!NoRow.evidence /\ P!NoRow.payload = Unset
    /\ P!Idle \in CommandCalls /\ P!Idle.pc = "idle"
<1>1. P!NoRow \in CommandRows /\ P!NoRow.lifecycle = "absent" /\ P!NoRow.payload = Unset
  BY DEF P!NoRow, CommandRows
<1>2. ~P!NoRow.bound /\ ~P!NoRow.evidence
  BY Zenon DEF P!NoRow
<1>3. P!Idle \in CommandCalls /\ P!Idle.pc = "idle"
  BY DEF P!Idle, CommandCalls, Waiting
<1> QED
  BY <1>1, <1>2, <1>3

LEMMA CommandInit == ASSUME P!Init PROVE PlatformInv
<1>1. command \in CommandRows /\ ~Stored /\ ~command.bound /\ ~command.evidence /\ command.lifecycle # "completed" /\ command = P!NoRow
  BY NoRowFacts DEF P!Init, Stored
<1>2. carrier.status = "absent"
  BY DEF P!Init
<1>3. carrier \in CarrierGraphs
  BY DEF P!Init, CarrierGraphs
<1>4. order \in [Callers -> CommandCalls] /\ \A c \in Callers : order[c].pc = "idle"
  BY NoRowFacts DEF P!Init
<1> QED
  BY <1>1, <1>2, <1>3, <1>4 DEF PlatformInv, OrderRight, RowRight

(* One request moves to m; the others still know what they knew. *)
LEMMA OrdersKept ==
    ASSUME PlatformInv, Onward, NEW c \in Callers, NEW m \in CommandCalls, order' = [order EXCEPT ![c] = m],
           OrderRight(m)', command' \in CommandRows, carrier' \in CarrierGraphs, RowRight'
    PROVE  PlatformInv'
<1>1. order' \in [Callers -> CommandCalls] /\ order'[c] = m /\ \A d \in Callers \ {c} : order'[d] = order[d]
  BY DEF PlatformInv
<1>2. ASSUME NEW n, OrderRight(n) PROVE OrderRight(n)'
  BY <1>2 DEF OrderRight, Onward, Stored, Actors, Finished
<1>3. ASSUME NEW d \in Callers PROVE OrderRight(order[d])'
  <2> PICK n : n = order'[d]
    OBVIOUS
  <2>1. d # c => n = order[d]
    BY <1>1
  <2>2. OrderRight(n)'
    BY <1>1, <1>2, <2>1 DEF PlatformInv
  <2> QED
    BY <2>2 DEF OrderRight
<1> QED
  BY <1>1, <1>3 DEF PlatformInv

LEMMA GoFacts ==
    ASSUME PlatformInv, NEW c \in Callers, NEW pc \in Waiting, P!Go(c, pc)
    PROVE  \E m \in CommandCalls : order' = [order EXCEPT ![c] = m] /\ m.pc = pc /\ m.body = order[c].body
<1>1. order' = [order EXCEPT ![c] = [order[c] EXCEPT !.pc = pc]]
  BY DEF P!Go
<1>2. [order[c] EXCEPT !.pc = pc] \in CommandCalls /\ [order[c] EXCEPT !.pc = pc].pc = pc
      /\ [order[c] EXCEPT !.pc = pc].body = order[c].body
  BY DEF PlatformInv, CommandCalls
<1> QED
  BY <1>1, <1>2

LEMMA LeaveFacts ==
    ASSUME NEW c \in Callers, P!Leave(c)
    PROVE  \E m \in CommandCalls : order' = [order EXCEPT ![c] = m] /\ m.pc = "idle"
  BY NoRowFacts DEF P!Leave

Lifecycles == {"absent", "accepted", "approval_required", "executing", "failed_recoverable", "completed", "failed"}
Products == {"not_started", "recovery_required", "draft_created", "failed"}
Rewritten(r, l, p, d) == [r EXCEPT !.lifecycle = l, !.product = p, !.draft = d]
(* A row rewritten: its payload, its graph and its evidence stay. *)
LEMMA RowMoves ==
    ASSUME NEW r \in CommandRows, NEW l \in Lifecycles, NEW p \in Products, NEW d \in {"required", "approved"}
    PROVE  /\ Rewritten(r, l, p, d) \in CommandRows /\ Rewritten(r, l, p, d).lifecycle = l
           /\ Rewritten(r, l, p, d).payload = r.payload
           /\ Rewritten(r, l, p, d).bound = r.bound /\ Rewritten(r, l, p, d).evidence = r.evidence
<1> DEFINE q == [r EXCEPT !.lifecycle = l]
           t == [q EXCEPT !.product = p]
           s == [t EXCEPT !.draft = d]
<1>1. /\ q \in CommandRows /\ q.lifecycle = l /\ q.payload = r.payload
      /\ q.bound = r.bound /\ q.evidence = r.evidence
  BY DEF CommandRows, Lifecycles
<1> HIDE DEF q
<1>2. /\ t \in CommandRows /\ t.lifecycle = l /\ t.payload = r.payload
      /\ t.bound = r.bound /\ t.evidence = r.evidence
  BY <1>1 DEF CommandRows, Products
<1> HIDE DEF t
<1>3. /\ s \in CommandRows /\ s.lifecycle = l /\ s.payload = r.payload
      /\ s.bound = r.bound /\ s.evidence = r.evidence
  BY <1>2 DEF CommandRows
<1>4. Rewritten(r, l, p, d) = s
  BY DEF Rewritten, q, t
<1> QED
  BY <1>3, <1>4

(* The row of a stored command gets another lifecycle, not the last one. *)
LEMMA LifecycleMoves ==
    ASSUME PlatformInv, Stored, command' \in CommandRows, command'.payload = command.payload, command'.bound = command.bound,
           command'.evidence = command.evidence, command'.lifecycle \notin {"absent", "completed"}, carrier' = carrier
    PROVE  Onward /\ RowRight'
  BY DEF PlatformInv, RowRight, Onward, Stored, Actors, Finished

LEMMA StayFacts ==
    ASSUME PlatformInv, command' = command, carrier' = carrier
    PROVE  Onward /\ RowRight' /\ command' \in CommandRows /\ carrier' \in CarrierGraphs
  BY DEF PlatformInv, RowRight, Onward, Stored, Actors, Finished

LEMMA SubmitCommandKeeps ==
    ASSUME PlatformInv, NEW c \in Callers, NEW b \in Submitted, P!Submit(c, b)
    PROVE  PlatformInv'
<1> PICK m : m = [P!Idle EXCEPT !.pc = IF command = P!NoRow THEN "insert" ELSE "validate", !.body = b]
  OBVIOUS
<1>1. m \in CommandCalls /\ m.pc = (IF command = P!NoRow THEN "insert" ELSE "validate") /\ m.body = b
  BY DEF P!Idle, CommandCalls, Waiting
<1>2. order' = [order EXCEPT ![c] = m] /\ command' = command /\ carrier' = carrier /\ (command # P!NoRow => command.payload = b)
  BY DEF P!Submit, P!SamePayload
<1>3. OrderRight(m)'
  BY <1>1, <1>2 DEF OrderRight, Stored, PlatformInv, RowRight
<1> QED
  BY <1>1, <1>2, <1>3, StayFacts, OrdersKept

LEMMA CommandFailureKeeps ==
    ASSUME PlatformInv, Stored, NEW c \in Callers, NEW d \in {"required", "approved"},
           P!PersistFailure(d), P!Leave(c), carrier' = carrier
    PROVE  PlatformInv'
<1>1. command' \in CommandRows /\ command'.payload = command.payload /\ command'.bound = command.bound
      /\ command'.evidence = command.evidence /\ command'.lifecycle = "failed"
  <2>1. command \in CommandRows /\ "failed" \in Lifecycles /\ "failed" \in Products
    BY DEF PlatformInv, Lifecycles, Products
  <2>2. command' = Rewritten(command, "failed", "failed", d)
    BY DEF P!PersistFailure, Rewritten
  <2> QED
    BY <2>1, <2>2, RowMoves
<1>2. Onward /\ RowRight'
  BY <1>1, LifecycleMoves
<1>3. PICK m \in CommandCalls : order' = [order EXCEPT ![c] = m] /\ m.pc = "idle"
  BY LeaveFacts
<1>4. OrderRight(m)'
  BY <1>3 DEF OrderRight
<1>5. carrier' \in CarrierGraphs
  BY DEF PlatformInv
<1> QED
  BY <1>1, <1>2, <1>3, <1>4, <1>5, OrdersKept

(* Only the caller moves on, to what it has seen. *)
LEMMA GoKeepsCommand ==
    ASSUME PlatformInv, NEW c \in Callers, NEW pc \in Waiting, P!Go(c, pc), command' = command, carrier' = carrier,
           NEW m, m.pc = pc, m.body = order[c].body, OrderRight(m)
    PROVE  PlatformInv'
<1>1. PICK n \in CommandCalls : order' = [order EXCEPT ![c] = n] /\ n.pc = pc /\ n.body = order[c].body
  BY GoFacts
<1>2. OrderRight(n)'
  BY <1>1 DEF OrderRight, Stored, Actors, Finished
<1> QED
  BY <1>1, <1>2, StayFacts, OrdersKept

LEMMA LeaveKeepsCommand ==
    ASSUME PlatformInv, NEW c \in Callers, P!Leave(c), command' = command, carrier' = carrier
    PROVE  PlatformInv'
<1>1. PICK m \in CommandCalls : order' = [order EXCEPT ![c] = m] /\ m.pc = "idle"
  BY LeaveFacts
<1>2. OrderRight(m)'
  BY <1>1 DEF OrderRight
<1> QED
  BY <1>1, <1>2, StayFacts, OrdersKept

LEMMA InsertKeeps ==
    ASSUME PlatformInv, NEW c \in Callers, P!Insert(c)
    PROVE  PlatformInv'
<1> PICK b : b = order[c].body
  OBVIOUS
<1>1. order[c].pc = "insert" /\ b \in Submitted /\ carrier' = carrier
  BY DEF P!Insert, PlatformInv, OrderRight
<1>2. ASSUME command = P!NoRow, P!Go(c, "validate"), command' = [P!NoRow EXCEPT !.payload = b, !.lifecycle = "accepted"]
      PROVE  PlatformInv'
  <2>1. ~Stored /\ ~command.bound /\ carrier.status = "absent"
    BY <1>2, NoRowFacts DEF Stored, PlatformInv, RowRight
  <2>3. command' \in CommandRows /\ command'.lifecycle = "accepted" /\ command'.payload = b /\ ~command'.bound /\ ~command'.evidence
    <3> DEFINE n == [P!NoRow EXCEPT !.payload = b]
    <3>1. n \in CommandRows /\ n.payload = b /\ n.bound = P!NoRow.bound /\ n.evidence = P!NoRow.evidence
      BY <1>1, NoRowFacts DEF CommandRows
    <3>2. command' = [n EXCEPT !.lifecycle = "accepted"]
      BY <1>2
    <3> HIDE DEF n
    <3> QED
      BY <3>1, <3>2, NoRowFacts DEF CommandRows
  <2>5. Onward /\ RowRight'
    BY <1>1, <2>1, <2>3 DEF Onward, RowRight, Stored, Actors, Finished
  <2>6. PICK m \in CommandCalls : order' = [order EXCEPT ![c] = m] /\ m.pc = "validate" /\ m.body = b
    BY <1>2, GoFacts DEF Waiting
  <2>7. OrderRight(m)'
    BY <2>3, <2>6 DEF OrderRight, Stored
  <2>8. carrier' \in CarrierGraphs
    BY <1>1 DEF PlatformInv
  <2> QED
    BY <2>3, <2>5, <2>6, <2>7, <2>8, OrdersKept
<1>3. ASSUME command # P!NoRow, command.payload = b, P!Go(c, "validate"), command' = command PROVE PlatformInv'
  <2>1. Stored
    BY <1>3 DEF PlatformInv, RowRight
  <2> PICK m : m = [pc |-> "validate", body |-> b]
    OBVIOUS
  <2>2. m.pc = "validate" /\ m.body = order[c].body /\ OrderRight(m)
    BY <1>3, <2>1 DEF OrderRight
  <2> QED
    BY <1>1, <1>3, <2>2, GoKeepsCommand DEF Waiting
<1>4. ASSUME P!Leave(c), command' = command PROVE PlatformInv'
  BY <1>1, <1>4, LeaveKeepsCommand
<1> QED
  BY <1>2, <1>3, <1>4 DEF P!Insert, P!SamePayload

LEMMA ValidationKeeps ==
    ASSUME PlatformInv, NEW c \in Callers, P!ValidationFails(c) PROVE PlatformInv'
<1>1. Stored
  BY DEF P!ValidationFails, PlatformInv, OrderRight
<1> QED
  BY <1>1, CommandFailureKeeps DEF P!ValidationFails

Statuses == P!Going \cup {"absent", "approval_required", "completed", "failed_terminal", "cancelled"}
Restated(g, to) == [g EXCEPT !.status = to]
LEMMA GraphStatus ==
    ASSUME NEW g \in CarrierGraphs, NEW to \in Statuses
    PROVE  /\ Restated(g, to) \in CarrierGraphs /\ Restated(g, to).status = to
           /\ Restated(g, to).payload = g.payload /\ Restated(g, to).by = g.by /\ Restated(g, to).links = g.links
  BY DEF CarrierGraphs, Statuses, P!Going, Restated

(* The graph moves under a request that moves to m, or under none. *)
LEMMA GraphMovesOn ==
    ASSUME PlatformInv, command' = command, carrier' \in CarrierGraphs, carrier'.payload = carrier.payload,
           carrier.status # "absent", carrier'.status # "absent", carrier.status # "completed",
           carrier.by = "actor" /\ carrier.status # "approval_required"
             => carrier'.by = "actor" /\ carrier'.status # "approval_required"
    PROVE  Onward /\ RowRight'
  BY DEF PlatformInv, RowRight, Onward, Stored, Actors, Finished

LEMMA GraphAlone ==
    ASSUME PlatformInv, Onward, RowRight', command' = command, carrier' \in CarrierGraphs, order' = order
    PROVE  PlatformInv'
<1>1. ASSUME NEW c \in Callers PROVE OrderRight(order[c])'
  BY DEF PlatformInv, OrderRight, Onward, Stored, Actors, Finished
<1> QED
  BY <1>1 DEF PlatformInv

LEMMA SubmitGraphKeeps ==
    ASSUME PlatformInv, NEW c \in Callers, P!SubmitGraph(c) PROVE PlatformInv'
<1>1. Stored /\ order[c].pc = "validate" /\ order[c].body = command.payload /\ command.payload \in Submitted
  BY DEF P!SubmitGraph, PlatformInv, OrderRight, RowRight
<1>2. ASSUME carrier.status = "absent", P!Go(c, "bind"), command' = command,
             carrier' = [carrier EXCEPT !.status = "approval_required", !.payload = order[c].body]
      PROVE  PlatformInv'
  <2> DEFINE g == Restated(carrier, "approval_required")
  <2>1. g \in CarrierGraphs /\ g.status = "approval_required"
    BY GraphStatus DEF PlatformInv, Statuses
  <2>2. carrier' = [g EXCEPT !.payload = command.payload]
    BY <1>1, <1>2 DEF Restated
  <2> HIDE DEF g
  <2>3. carrier' \in CarrierGraphs /\ carrier'.status = "approval_required" /\ carrier'.payload = command.payload
    BY <1>1, <2>1, <2>2 DEF CarrierGraphs
  <2>4. Onward /\ RowRight'
    BY <1>1, <1>2, <2>3 DEF PlatformInv, RowRight, Onward, Stored, Actors, Finished
  <2>5. PICK m \in CommandCalls : order' = [order EXCEPT ![c] = m] /\ m.pc = "bind"
    BY <1>2, GoFacts DEF Waiting
  <2>6. OrderRight(m)'
    BY <1>1, <1>2, <2>3, <2>5 DEF OrderRight, Stored
  <2>7. command' \in CommandRows
    BY <1>2 DEF PlatformInv
  <2> QED
    BY <2>3, <2>4, <2>5, <2>6, <2>7, OrdersKept
<1>3. ASSUME carrier.status # "absent", P!Go(c, "bind"), command' = command, carrier' = carrier PROVE PlatformInv'
  <2> PICK m : m = [pc |-> "bind", body |-> order[c].body]
    OBVIOUS
  <2>1. m.pc = "bind" /\ m.body = order[c].body /\ OrderRight(m)
    BY <1>1, <1>3 DEF OrderRight
  <2> QED
    BY <1>3, <2>1, GoKeepsCommand DEF Waiting
<1>4. ASSUME P!PersistFailure("required"), P!Leave(c), carrier' = carrier PROVE PlatformInv'
  BY <1>1, <1>4, CommandFailureKeeps
<1> QED
  BY <1>2, <1>3, <1>4 DEF P!SubmitGraph

LEMMA BindKeeps ==
    ASSUME PlatformInv, NEW c \in Callers, P!Bind(c) PROVE PlatformInv'
<1>1. Stored /\ carrier.status # "absent" /\ carrier' = carrier /\ command \in CommandRows
  BY DEF P!Bind, PlatformInv, OrderRight
<1> DEFINE r == [command EXCEPT !.bound = TRUE]
<1>2. r \in CommandRows /\ r.bound /\ r.payload = command.payload /\ r.evidence = command.evidence /\ r.lifecycle = command.lifecycle
  BY <1>1 DEF CommandRows
<1> HIDE DEF r
<1>3. /\ command' \in CommandRows /\ command'.bound /\ command'.payload = command.payload /\ command'.evidence = command.evidence
      /\ command'.lifecycle = "completed" => command.lifecycle = "completed"
      /\ command'.lifecycle # "absent"
  <2>1. CASE command.lifecycle = "completed"
    <3>1. command' = r
      BY <2>1 DEF P!Bind, r
    <3> QED
      BY <1>2, <2>1, <3>1
  <2>2. CASE command.lifecycle # "completed"
    <3> DEFINE q == [r EXCEPT !.lifecycle = "approval_required"]
    <3>1. q \in CommandRows /\ q.bound /\ q.payload = command.payload /\ q.evidence = command.evidence
          /\ q.lifecycle = "approval_required"
      BY <1>2 DEF CommandRows
    <3>2. command' = [q EXCEPT !.product = "not_started"]
      BY <2>2 DEF P!Bind, r
    <3> HIDE DEF q
    <3> QED
      BY <3>1, <3>2 DEF CommandRows
  <2> QED
    BY <2>1, <2>2
<1>4. Onward /\ RowRight'
  BY <1>1, <1>3 DEF PlatformInv, RowRight, Onward, Stored, Actors, Finished
<1>5. PICK m \in CommandCalls : order' = [order EXCEPT ![c] = m] /\ m.pc = "idle"
  BY LeaveFacts DEF P!Bind
<1>6. OrderRight(m)' /\ carrier' \in CarrierGraphs
  BY <1>1, <1>5 DEF OrderRight, PlatformInv
<1> QED
  BY <1>3, <1>4, <1>5, <1>6, OrdersKept

LEMMA ExecuteCommandKeeps ==
    ASSUME PlatformInv, NEW c \in Callers, P!Execute(c) PROVE PlatformInv'
<1>1. Stored /\ command.bound /\ carrier' = carrier /\ command \in CommandRows
  BY DEF P!Execute, PlatformInv, RowRight
<1> DEFINE r == [command EXCEPT !.lifecycle = "executing"]
<1>2. r \in CommandRows /\ r.bound = command.bound /\ r.payload = command.payload /\ r.evidence = command.evidence
      /\ r.lifecycle = "executing"
  BY <1>1 DEF CommandRows
<1>3. command' = [r EXCEPT !.draft = "approved"]
  BY DEF P!Execute
<1> HIDE DEF r
<1>4. command' \in CommandRows /\ command'.bound = command.bound /\ command'.payload = command.payload /\ command'.evidence = command.evidence
      /\ command'.lifecycle = "executing"
  BY <1>2, <1>3 DEF CommandRows
<1>5. Onward /\ RowRight'
  BY <1>1, <1>4, LifecycleMoves
<1>6. PICK m \in CommandCalls : order' = [order EXCEPT ![c] = m] /\ m.pc = "approve"
  BY GoFacts DEF P!Execute, Waiting
<1>7. OrderRight(m)' /\ carrier' \in CarrierGraphs
  BY <1>1, <1>4, <1>6 DEF OrderRight, PlatformInv
<1> QED
  BY <1>4, <1>5, <1>6, <1>7, OrdersKept

LEMMA ExecutionFailureKeeps ==
    ASSUME PlatformInv, Stored, NEW c \in Callers, P!ExecutionFails(c), carrier' = carrier PROVE PlatformInv'
<1>1. CASE carrier.status \notin P!Going
  BY <1>1, CommandFailureKeeps DEF P!ExecutionFails
<1>2. CASE carrier.status \in P!Going
  <2> PICK p : p = IF command.product = "draft_created" THEN command.product ELSE "recovery_required"
    OBVIOUS
  <2>1. command' = Rewritten(command, "failed_recoverable", p, "approved")
    <3>1. command' = [command EXCEPT !.lifecycle = "failed_recoverable", !.draft = "approved",
                             !.product = IF @ = "draft_created" THEN @ ELSE "recovery_required"]
      BY <1>2 DEF P!ExecutionFails
    <3> QED
      BY <3>1 DEF Rewritten, PlatformInv, CommandRows
  <2>2. command \in CommandRows /\ p \in Products /\ "failed_recoverable" \in Lifecycles
    BY DEF PlatformInv, Products, Lifecycles
  <2>3. command' \in CommandRows /\ command'.payload = command.payload /\ command'.bound = command.bound
        /\ command'.evidence = command.evidence /\ command'.lifecycle = "failed_recoverable"
    BY <2>1, <2>2, RowMoves
  <2>4. Onward /\ RowRight'
    BY <2>3, LifecycleMoves
  <2>5. PICK m \in CommandCalls : order' = [order EXCEPT ![c] = m] /\ m.pc = "idle"
    BY LeaveFacts DEF P!ExecutionFails
  <2>6. OrderRight(m)' /\ carrier' \in CarrierGraphs
    BY <2>5 DEF OrderRight, PlatformInv
  <2> QED
    BY <2>3, <2>4, <2>5, <2>6, OrdersKept
<1> QED
  BY <1>1, <1>2

LEMMA ApproveCommandKeeps ==
    ASSUME PlatformInv, NEW c \in Callers, P!Approve(c) PROVE PlatformInv'
<1>1. Stored /\ command.bound /\ carrier.status # "absent" /\ carrier \in CarrierGraphs
  BY DEF P!Approve, PlatformInv, OrderRight, RowRight
<1>2. ASSUME order' = [order EXCEPT ![c].pc = "running", ![c].before = carrier.status]
      PROVE  \E m \in CommandCalls : order' = [order EXCEPT ![c] = m] /\ m.pc = "running"
  <2> DEFINE n == [order[c] EXCEPT !.pc = "running"]
             m == [n EXCEPT !.before = carrier.status]
  <2>1. n \in CommandCalls /\ n.pc = "running"
    BY DEF PlatformInv, CommandCalls, Waiting
  <2>2. order' = [order EXCEPT ![c] = m]
    BY <1>2 DEF PlatformInv
  <2> HIDE DEF n
  <2>3. m \in CommandCalls /\ m.pc = "running"
    BY <1>1, <2>1 DEF CommandCalls, CarrierGraphs
  <2> QED
    BY <2>2, <2>3
<1>3. ASSUME carrier.status = "approval_required", command' = command,
             carrier' = [carrier EXCEPT !.status = "approved", !.by = "actor"],
             order' = [order EXCEPT ![c].pc = "running", ![c].before = carrier.status]
      PROVE  PlatformInv'
  <2> DEFINE g == Restated(carrier, "approved")
  <2>1. g \in CarrierGraphs /\ g.status = "approved" /\ g.payload = carrier.payload
    BY <1>1, GraphStatus DEF Statuses, P!Going
  <2>2. carrier' = [g EXCEPT !.by = "actor"]
    BY <1>3 DEF Restated
  <2> HIDE DEF g
  <2>3. carrier' \in CarrierGraphs /\ carrier'.status = "approved" /\ carrier'.payload = carrier.payload /\ carrier'.by = "actor"
    BY <2>1, <2>2 DEF CarrierGraphs
  <2>4. Onward /\ RowRight'
    BY <1>1, <1>3, <2>3, GraphMovesOn
  <2>5. PICK m \in CommandCalls : order' = [order EXCEPT ![c] = m] /\ m.pc = "running"
    BY <1>2, <1>3
  <2>6. OrderRight(m)' /\ command' \in CommandRows
    BY <1>1, <1>3, <2>3, <2>5 DEF OrderRight, Actors, PlatformInv
  <2> QED
    BY <2>3, <2>4, <2>5, <2>6, OrdersKept
<1>4. ASSUME carrier.status \in P!Going \cup {"completed"}, carrier.by = "actor", command' = command, carrier' = carrier,
             order' = [order EXCEPT ![c].pc = "running", ![c].before = carrier.status]
      PROVE  PlatformInv'
  <2>1. PICK m \in CommandCalls : order' = [order EXCEPT ![c] = m] /\ m.pc = "running"
    BY <1>2, <1>4
  <2>2. OrderRight(m)'
    BY <1>1, <1>4, <2>1 DEF OrderRight, Actors, P!Going
  <2> QED
    BY <1>4, <2>1, <2>2, StayFacts, OrdersKept
<1>5. ASSUME P!ExecutionFails(c), carrier' = carrier PROVE PlatformInv'
  BY <1>1, <1>5, ExecutionFailureKeeps
<1> QED
  BY <1>3, <1>4, <1>5 DEF P!Approve

LEMMA LinkingKeeps ==
    ASSUME PlatformInv, NEW c \in Callers, P!Go(c, "link"), command' = command, carrier' = carrier,
           command.bound, Actors, carrier.status = "completed"
    PROVE  PlatformInv'
<1> PICK m : m = [pc |-> "link", body |-> order[c].body]
  OBVIOUS
<1>1. m.pc = "link" /\ m.body = order[c].body /\ OrderRight(m)
  BY DEF OrderRight, Actors, Finished
<1> QED
  BY <1>1, GoKeepsCommand DEF Waiting

LEMMA AnsweredKeeps ==
    ASSUME PlatformInv, NEW c \in Callers, P!Answered(c) \/ P!AnsweredAgain(c) PROVE PlatformInv'
<1>1. Stored /\ command.bound /\ Actors /\ carrier \in CarrierGraphs
  BY DEF P!Answered, P!AnsweredAgain, PlatformInv, OrderRight, RowRight
<1>2. ASSUME carrier.status = "completed", P!Go(c, "link"), command' = command, carrier' = carrier PROVE PlatformInv'
  BY <1>1, <1>2, LinkingKeeps
<1>3. ASSUME P!ExecutionFails(c), carrier' = carrier PROVE PlatformInv'
  BY <1>1, <1>3, ExecutionFailureKeeps
<1>4. ASSUME carrier.status \in P!Going, P!Go(c, "resumed"), command' = command,
             carrier' = IF carrier.status = "failed_recoverable" THEN Restated(carrier, "running") ELSE carrier
      PROVE  PlatformInv'
  <2>1. /\ carrier' \in CarrierGraphs /\ carrier'.payload = carrier.payload /\ carrier'.by = "actor"
        /\ carrier'.status \in P!Going
    BY <1>1, <1>4, GraphStatus DEF Statuses, P!Going, Actors
  <2>2. Onward /\ RowRight'
    BY <1>1, <1>4, <2>1, GraphMovesOn DEF P!Going
  <2>3. PICK m \in CommandCalls : order' = [order EXCEPT ![c] = m] /\ m.pc = "resumed"
    BY <1>4, GoFacts DEF Waiting
  <2>4. OrderRight(m)' /\ command' \in CommandRows
    BY <1>1, <1>4, <2>1, <2>3 DEF OrderRight, Actors, PlatformInv, P!Going
  <2> QED
    BY <2>1, <2>2, <2>3, <2>4, OrdersKept
<1> QED
  BY <1>2, <1>3, <1>4 DEF P!Answered, P!AnsweredAgain, Restated

LEMMA LinkKeeps ==
    ASSUME PlatformInv, NEW c \in Callers, P!Link(c) PROVE PlatformInv'
<1>1. Stored /\ command.bound /\ Finished /\ carrier' = carrier /\ command \in CommandRows /\ carrier \in CarrierGraphs
  BY DEF P!Link, PlatformInv, OrderRight, RowRight
<1>2. ASSUME carrier.links, P!Go(c, "evidence"),
             command' = [command EXCEPT !.lifecycle = "completed", !.product = "draft_created", !.draft = "approved"]
      PROVE  PlatformInv'
  <2>1. command' = Rewritten(command, "completed", "draft_created", "approved")
    BY <1>2 DEF Rewritten
  <2>2. command' \in CommandRows /\ command'.payload = command.payload /\ command'.bound = command.bound
        /\ command'.evidence = command.evidence /\ command'.lifecycle = "completed"
    <3>1. "completed" \in Lifecycles /\ "draft_created" \in Products
      BY DEF Lifecycles, Products
    <3> QED
      BY <1>1, <2>1, <3>1, RowMoves
  <2>3. Onward /\ RowRight'
    BY <1>1, <1>2, <2>2 DEF PlatformInv, RowRight, Onward, Stored, Actors, Finished
  <2>4. PICK m \in CommandCalls : order' = [order EXCEPT ![c] = m] /\ m.pc = "evidence"
    BY <1>2, GoFacts DEF Waiting
  <2>5. OrderRight(m)'
    BY <1>1, <1>2, <2>2, <2>4 DEF OrderRight, Finished
  <2> QED
    BY <1>1, <2>2, <2>3, <2>4, <2>5, OrdersKept
<1>3. ASSUME P!ExecutionFails(c) PROVE PlatformInv'
  BY <1>1, <1>3, ExecutionFailureKeeps
<1> QED
  BY <1>2, <1>3 DEF P!Link

LEMMA EvidenceCommandKeeps ==
    ASSUME PlatformInv, NEW c \in Callers, P!Evidence(c) PROVE PlatformInv'
<1>1. /\ Stored /\ command.bound /\ Finished /\ carrier.links /\ carrier' = carrier
      /\ command \in CommandRows /\ carrier \in CarrierGraphs
  BY DEF P!Evidence, PlatformInv, OrderRight, RowRight
<1>2. ASSUME command' = [command EXCEPT !.evidence = TRUE], P!Leave(c) PROVE PlatformInv'
  <2>1. command' \in CommandRows /\ command'.payload = command.payload /\ command'.bound = command.bound
        /\ command'.evidence /\ command'.lifecycle = command.lifecycle
    BY <1>1, <1>2 DEF CommandRows
  <2>2. Onward /\ RowRight'
    BY <1>1, <1>2, <2>1 DEF PlatformInv, RowRight, Onward, Stored, Actors, Finished
  <2>3. PICK m \in CommandCalls : order' = [order EXCEPT ![c] = m] /\ m.pc = "idle"
    BY <1>2, LeaveFacts
  <2>4. OrderRight(m)'
    BY <2>3 DEF OrderRight
  <2> QED
    BY <1>1, <2>1, <2>2, <2>3, <2>4, OrdersKept
<1>3. ASSUME P!Leave(c), command' = command PROVE PlatformInv'
  BY <1>1, <1>3, LeaveKeepsCommand
<1>4. ASSUME P!ExecutionFails(c) PROVE PlatformInv'
  BY <1>1, <1>4, ExecutionFailureKeeps
<1> QED
  BY <1>2, <1>3, <1>4 DEF P!Evidence

(* The journal's table of the graph, read once.                             *)
LEMMA GraphTable ==
    /\ P!GraphNext["absent"] = {} /\ P!GraphNext["approval_required"] = {"approved", "cancelled"}
    /\ P!GraphNext["approved"] = {"running", "cancelled"}
    /\ P!GraphNext["running"] = {"completed", "failed_recoverable", "failed_terminal", "cancelled"}
    /\ P!GraphNext["failed_recoverable"] = {"running", "failed_terminal", "cancelled"}
    /\ P!GraphNext["completed"] = {} /\ P!GraphNext["failed_terminal"] = {} /\ P!GraphNext["cancelled"] = {}
  BY DEF P!GraphNext

(* Cancelled, by whoever, or approved by another. *)
LEMMA CancelKeeps ==
    ASSUME PlatformInv, "cancelled" \in P!GraphNext[carrier.status],
           carrier' = [carrier EXCEPT !.status = "cancelled"], command' = command, order' = order
    PROVE  PlatformInv'
<1>0. carrier.status \in {"approval_required", "approved", "running", "failed_recoverable"}
  BY GraphTable DEF PlatformInv, CarrierGraphs, P!Going
<1>1. carrier' = Restated(carrier, "cancelled")
  BY DEF Restated
<1>2. /\ carrier' \in CarrierGraphs /\ carrier'.payload = carrier.payload /\ carrier'.by = carrier.by
      /\ carrier'.status = "cancelled"
  BY <1>1, GraphStatus DEF Statuses, PlatformInv
<1>3. Onward /\ RowRight'
  BY <1>0, <1>2, GraphMovesOn
<1> QED
  BY <1>2, <1>3, GraphAlone

LEMMA ElsewhereKeeps ==
    ASSUME PlatformInv, P!UsedElsewhere PROVE PlatformInv'
<1>1. ASSUME carrier.status = "approval_required", carrier' = [carrier EXCEPT !.status = "approved", !.by = "other"]
      PROVE  PlatformInv'
  <2> DEFINE g == Restated(carrier, "approved")
  <2>1. g \in CarrierGraphs /\ g.status = "approved" /\ g.payload = carrier.payload
    BY GraphStatus DEF Statuses, P!Going, PlatformInv
  <2>2. carrier' = [g EXCEPT !.by = "other"]
    BY <1>1 DEF Restated
  <2> HIDE DEF g
  <2>3. carrier' \in CarrierGraphs /\ carrier'.status = "approved" /\ carrier'.payload = carrier.payload
    BY <2>1, <2>2 DEF CarrierGraphs
  <2>4. Onward /\ RowRight'
    BY <1>1, <2>3, GraphMovesOn DEF P!UsedElsewhere
  <2> QED
    BY <2>3, <2>4, GraphAlone DEF P!UsedElsewhere
<1> QED
  BY <1>1, CancelKeeps DEF P!UsedElsewhere

LEMMA GraphMovesKeep ==
    ASSUME PlatformInv, P!GraphMoves PROVE PlatformInv'
<1>1. PICK to \in P!GraphNext[carrier.status] \ {"approved", "cancelled"}, links \in BOOLEAN :
        carrier' = [carrier EXCEPT !.status = to, !.links = links]
  BY DEF P!GraphMoves
<1>2. /\ carrier.status \in {"approved", "running", "failed_recoverable"}
      /\ to \in {"running", "completed", "failed_recoverable", "failed_terminal"}
  BY <1>1, GraphTable DEF PlatformInv, CarrierGraphs, P!Going
<1> DEFINE g == Restated(carrier, to)
<1>3. g \in CarrierGraphs /\ g.status = to /\ g.payload = carrier.payload /\ g.by = carrier.by
  BY <1>2, GraphStatus DEF Statuses, P!Going, PlatformInv
<1>4. carrier' = [g EXCEPT !.links = links]
  BY <1>1 DEF Restated
<1> HIDE DEF g
<1>5. /\ carrier' \in CarrierGraphs /\ carrier'.status = to
      /\ carrier'.payload = carrier.payload /\ carrier'.by = carrier.by
  BY <1>3, <1>4 DEF CarrierGraphs
<1>6. Onward /\ RowRight'
  BY <1>2, <1>5, GraphMovesOn DEF P!GraphMoves
<1> QED
  BY <1>5, <1>6, GraphAlone DEF P!GraphMoves

LEMMA CrashKeepsCommand == ASSUME PlatformInv, P!Crash \/ P!Tick PROVE PlatformInv'
<1>1. CASE P!Crash
  BY <1>1, NoRowFacts DEF P!Crash, PlatformInv, OrderRight, RowRight, Stored, Finished
<1>2. CASE P!Tick
  BY <1>2 DEF P!Tick, PlatformInv, OrderRight, RowRight, Stored, Finished, Actors
<1> QED
  BY <1>1, <1>2

-----------------------------------------------------------------------------
(* The graph is completed only with its child, which then is over.          *)
ChildRecords == [state : P!C!States, again : BOOLEAN, stopped : BOOLEAN, lane : {"none", "platform", "direct"}]
ChildInv ==
    /\ child \in ChildRecords
    /\ carrier.status = "completed" => child.state = "completed"

LEMMA MovesFacts ==
    /\ \A from \in P!C!States : P!C!Moves[from] \subseteq P!C!States
    /\ P!C!Moves["completed"] = {} /\ "recovering" \in P!C!States /\ "completed" \in P!C!States /\ "absent" \in P!C!States
  BY DEF P!C!Moves, P!C!States

LEMMA OsStepKeeps == ASSUME PlatformInv, ChildInv, P!OsNext PROVE PlatformInv' /\ ChildInv'
<1>1. ASSUME NEW c \in Callers, UNCHANGED child,
             \/ \E b \in Submitted : P!Submit(c, b)
             \/ P!Insert(c) \/ P!ValidationFails(c) \/ P!SubmitGraph(c) \/ P!Bind(c)
             \/ P!Execute(c) \/ P!Approve(c) \/ P!Answered(c) \/ P!AnsweredAgain(c) \/ P!Link(c) \/ P!Evidence(c)
      PROVE  PlatformInv' /\ ChildInv'
  <2>1. PlatformInv'
    BY <1>1, SubmitCommandKeeps, InsertKeeps, ValidationKeeps, SubmitGraphKeeps, BindKeeps, ExecuteCommandKeeps,
       ApproveCommandKeeps, AnsweredKeeps, LinkKeeps, EvidenceCommandKeeps
  <2>2. carrier'.status = "completed" => carrier.status = "completed"
    <3>1. CASE carrier' = carrier
      BY <3>1
    <3>2. CASE P!SubmitGraph(c) /\ carrier' = [carrier EXCEPT !.status = "approval_required", !.payload = order[c].body]
      BY <3>2 DEF PlatformInv, CarrierGraphs
    <3>3. CASE P!Approve(c) /\ carrier' = [carrier EXCEPT !.status = "approved", !.by = "actor"]
      BY <3>3 DEF PlatformInv, CarrierGraphs
    <3>4. CASE carrier' = [carrier EXCEPT !.status = "running"]
      BY <3>4 DEF PlatformInv, CarrierGraphs
    <3> QED
      BY <1>1, <3>1, <3>2, <3>3, <3>4
      DEF P!Submit, P!Insert, P!ValidationFails, P!SubmitGraph, P!Bind, P!Execute, P!Approve, P!Answered, P!AnsweredAgain, P!Link, P!Evidence
  <2> QED
    BY <1>1, <2>1, <2>2 DEF ChildInv
<1>2. ASSUME UNCHANGED child, P!UsedElsewhere \/ P!Crash \/ P!Tick PROVE PlatformInv' /\ ChildInv'
  <2>1. carrier'.status = "completed" => carrier.status = "completed"
    BY <1>2 DEF P!UsedElsewhere, P!Crash, P!Tick, PlatformInv, CarrierGraphs
  <2> QED
    BY <1>2, <2>1, ElsewhereKeeps, CrashKeepsCommand DEF ChildInv
<1>3. CASE P!GraphAdvances
  BY <1>3, GraphMovesKeep DEF P!GraphAdvances, ChildInv
<1>4. CASE P!OsStop
  <2>1. carrier'.status = "cancelled"
    BY <1>4 DEF P!OsStop, PlatformInv, CarrierGraphs
  <2> QED
    BY <1>4, <2>1, CancelKeeps DEF P!OsStop, ChildInv
<1>5. ASSUME UNCHANGED P!vars, child.state # "completed", child' \in ChildRecords PROVE PlatformInv' /\ ChildInv'
  BY <1>5 DEF P!vars, ChildInv, PlatformInv, OrderRight, RowRight, Stored, Finished, Actors
<1>6. CASE P!ChildCreated
  <2>1. child' \in ChildRecords
    BY <1>6 DEF P!ChildCreated, P!C!States, ChildInv, ChildRecords
  <2> QED
    BY <1>5, <1>6, <2>1 DEF P!ChildCreated
<1>7. CASE P!ChildMoves
  <2>1. PICK to \in P!C!Moves[child.state], again \in BOOLEAN, stopped \in BOOLEAN :
          child' = [state |-> to, again |-> again, stopped |-> stopped, lane |-> "none"]
    BY <1>7 DEF P!ChildMoves
  <2>2. child.state \in P!C!States /\ to \in P!C!States /\ child.state # "completed"
    BY <2>1, MovesFacts DEF ChildInv, ChildRecords
  <2>3. child' \in ChildRecords
    BY <2>1, <2>2 DEF ChildRecords
  <2> QED
    BY <1>5, <1>7, <2>2, <2>3 DEF P!ChildMoves
<1>8. CASE P!OsReconcile
  <2> DEFINE d == [child EXCEPT !.state = "recovering"]
             e == [d EXCEPT !.again = FALSE]
  <2>1. d \in ChildRecords /\ child.state # "completed"
    BY <1>8, MovesFacts DEF P!OsReconcile, ChildInv, ChildRecords
  <2>2. child' = [e EXCEPT !.lane = "platform"]
    BY <1>8 DEF P!OsReconcile
  <2> HIDE DEF d
  <2>3. e \in ChildRecords
    BY <2>1 DEF ChildRecords
  <2> HIDE DEF e
  <2>4. child' \in ChildRecords
    BY <2>2, <2>3 DEF ChildRecords
  <2> QED
    BY <1>5, <1>8, <2>1, <2>4 DEF P!OsReconcile
<1>9. CASE P!OsDirect
  <2>1. PICK verb \in P!SpineActions, to \in P!C!Moves[child.state] :
          child' = [state |-> to, again |-> FALSE, stopped |-> verb = "stop", lane |-> "direct"]
    BY <1>9 DEF P!OsDirect
  <2>2. child.state \in P!C!States /\ to \in P!C!States /\ child.state # "completed"
    BY <2>1, MovesFacts DEF ChildInv, ChildRecords
  <2>3. PICK stopped \in BOOLEAN : stopped <=> verb = "stop"
    OBVIOUS
  <2>4. child' \in ChildRecords
    BY <2>1, <2>2 DEF ChildRecords
  <2> QED
    BY <1>5, <1>9, <2>2, <2>4 DEF P!OsDirect
<1> QED
  BY <1>1, <1>2, <1>3, <1>4, <1>6, <1>7, <1>8, <1>9 DEF P!OsNext

LEMMA OsInitially == ASSUME P!OsInit PROVE PlatformInv /\ ChildInv
<1>1. child = [state |-> "absent", again |-> FALSE, stopped |-> FALSE, lane |-> "none"] /\ carrier.status = "absent"
  BY DEF P!OsInit, P!Init
<1>2. child \in ChildRecords
  BY <1>1, MovesFacts DEF ChildRecords
<1> QED
  BY <1>1, <1>2, CommandInit DEF P!OsInit, ChildInv

(* The command, its graph and its child agree in every phase.                *)
THEOREM CommandKept == P!OsSpec => [](PlatformInv /\ ChildInv)
<1> DEFINE Inv == PlatformInv /\ ChildInv
<1>1. P!OsInit => Inv
  BY OsInitially
<1>2. Inv /\ [P!OsNext]_(P!osVars) => Inv'
  <2> SUFFICES ASSUME Inv, [P!OsNext]_(P!osVars) PROVE Inv'
    OBVIOUS
  <2>1. CASE UNCHANGED P!osVars
    BY <2>1 DEF P!osVars, PlatformInv, ChildInv, OrderRight, RowRight, Stored, Finished, Actors
  <2> QED
    BY <2>1, OsStepKeeps
<1> QED
  BY <1>1, <1>2, PTL DEF P!OsSpec

(* A command's graph carries its payload, and completion is linked. *)
THEOREM CompletionLinked == P!OsSpec => []P!CompletionIsLinked
<1>1. PlatformInv => P!CompletionIsLinked
  BY NoRowFacts DEF PlatformInv, RowRight, Stored, Finished, P!CompletionIsLinked
<1> QED
  BY <1>1, CommandKept, PTL

LEMMA HonestAnswers == ASSUME PlatformInv, ChildInv PROVE P!OsAnswersHonestly
<1> USE DEF P!Graph, P!Shown
<1>1. child.state \in P!C!States /\ command.lifecycle \in Lifecycles /\ carrier.status \in Statuses
  BY DEF ChildInv, ChildRecords, PlatformInv, CommandRows, CarrierGraphs, Lifecycles, Statuses
<1>2. P!Reached = "completed" => child.state = "completed"
  BY <1>1 DEF P!Reached, P!OsStateFromExecutionState, P!OsStateFromGraphState, P!Journaled, P!C!States, ChildInv, Statuses, P!Going
<1>3. P!PlatformStatus = "completed" => child.state = "completed"
  BY <1>1, <1>2 DEF P!PlatformStatus, PlatformInv, RowRight, Finished, ChildInv, Lifecycles
<1>4. P!EvidenceStatus = "authoritative" => carrier.links
  BY DEF P!EvidenceStatus, PlatformInv, RowRight
<1>5. command.lifecycle = "failed_recoverable"
        => P!PlatformStatus \in {"failed_recoverable", "reconciliation_required", "failed_terminal", "stopped"}
  BY DEF P!PlatformStatus
<1>6. "resume" \in P!PlatformActions /\ P!Shown => child.state \notin {"prepared", "unresolved", "recovering"}
  BY <1>1 DEF P!PlatformActions, P!ChildOwnsExecution, P!ChildPermits, P!C!States
<1>7. P!PlatformActions = {} <=> P!PlatformStatus \in P!OsTerminal \cup {"submitted"}
  BY DEF P!PlatformActions, P!OsTerminal
<1> QED
  BY <1>3, <1>4, <1>5, <1>6, <1>7 DEF P!OsAnswersHonestly

(* What the OS says is true of all three records. *)
THEOREM AnswersHonest == P!OsSpec => []P!OsAnswersHonestly
<1>1. PlatformInv /\ ChildInv => P!OsAnswersHonestly
  BY HonestAnswers
<1> QED
  BY <1>1, CommandKept, PTL

-----------------------------------------------------------------------------
(* What the command relies on: of its graph and the mission under it the OS  *)
(* model allows nothing but what GraphPromise does.                          *)
OsCarried == [n \in {"own"} |-> child.state]
OsPromised == P!Promise!Submit \/ P!Promise!Advance \/ P!Promise!Carry

LEMMA StatusPromised ==
    ASSUME PlatformInv, carrier'.status \in P!GraphNext[carrier.status], UNCHANGED child,
           carrier'.status = "completed" => child.state = "completed"
    PROVE  P!Promise!Advance
<1>1. P!Promise!GraphNext = P!GraphNext
  BY DEF P!Promise!GraphNext, P!GraphNext
<1> QED
  BY <1>1 DEF P!Promise!Advance

LEMMA CancelPromised ==
    ASSUME PlatformInv, "cancelled" \in P!GraphNext[carrier.status], UNCHANGED child,
           carrier' = [carrier EXCEPT !.status = "cancelled"]
    PROVE  P!Promise!Advance
<1>1. carrier'.status = "cancelled"
  BY DEF PlatformInv, CarrierGraphs
<1> QED
  BY <1>1, StatusPromised

LEMMA ChildPromised ==
    ASSUME ChildInv, NEW to \in P!C!Moves[child.state], child'.state = to,
           child.state = "absent" => carrier.status \in P!Begun, carrier' = carrier
    PROVE  P!Promise!Carry
<1>1. P!Promise!Begun = P!Begun /\ P!Promise!Moves = P!C!Moves
  BY DEF P!Promise!Begun, P!Begun, P!Promise!Moves, P!C!Moves
<1>2. OsCarried' = [OsCarried EXCEPT !["own"] = to]
  BY DEF OsCarried
<1> QED
  BY <1>1, <1>2 DEF P!Promise!Carry, OsCarried

LEMMA RequestPromised ==
    ASSUME PlatformInv, NEW c \in Callers, UNCHANGED child,
             \/ \E b \in Submitted : P!Submit(c, b)
             \/ P!Insert(c) \/ P!ValidationFails(c) \/ P!SubmitGraph(c) \/ P!Bind(c)
             \/ P!Execute(c) \/ P!Approve(c) \/ P!Answered(c) \/ P!AnsweredAgain(c) \/ P!Link(c) \/ P!Evidence(c)
    PROVE  [OsPromised]_<<carrier.status, OsCarried>>
<1>1. CASE carrier' = carrier
  BY <1>1 DEF OsCarried
<1>2. CASE /\ P!SubmitGraph(c) /\ carrier.status = "absent"
           /\ carrier' = [carrier EXCEPT !.status = "approval_required", !.payload = order[c].body]
  <2>1. carrier'.status = "approval_required"
    BY <1>2 DEF PlatformInv, CarrierGraphs
  <2>2. P!Promise!Submit
    BY <1>2, <2>1 DEF P!Promise!Submit
  <2> QED
    BY <2>2 DEF OsPromised
<1>3. CASE /\ carrier.status = "approval_required"
           /\ carrier' = [carrier EXCEPT !.status = "approved", !.by = "actor"]
  <2>1. carrier'.status = "approved"
    BY <1>3 DEF PlatformInv, CarrierGraphs
  <2> QED
    BY <1>3, <2>1, GraphTable, StatusPromised DEF OsPromised
<1>4. CASE carrier.status = "failed_recoverable" /\ carrier' = [carrier EXCEPT !.status = "running"]
  <2>1. carrier'.status = "running"
    BY <1>4 DEF PlatformInv, CarrierGraphs
  <2> QED
    BY <1>4, <2>1, GraphTable, StatusPromised DEF OsPromised
<1> QED
  BY <1>1, <1>2, <1>3, <1>4
  DEF P!Submit, P!Insert, P!ValidationFails, P!SubmitGraph, P!Bind, P!Execute, P!Approve, P!Answered, P!AnsweredAgain, P!Link, P!Evidence

LEMMA OsStepPromised ==
    ASSUME PlatformInv, ChildInv, P!OsNext PROVE [OsPromised]_<<carrier.status, OsCarried>>
<1>1. ASSUME NEW c \in Callers, UNCHANGED child,
             \/ \E b \in Submitted : P!Submit(c, b)
             \/ P!Insert(c) \/ P!ValidationFails(c) \/ P!SubmitGraph(c) \/ P!Bind(c)
             \/ P!Execute(c) \/ P!Approve(c) \/ P!Answered(c) \/ P!AnsweredAgain(c) \/ P!Link(c) \/ P!Evidence(c)
      PROVE  [OsPromised]_<<carrier.status, OsCarried>>
  BY <1>1, RequestPromised
<1>2. ASSUME UNCHANGED child, P!UsedElsewhere \/ P!Crash \/ P!Tick
      PROVE  [OsPromised]_<<carrier.status, OsCarried>>
  <2>1. CASE carrier' = carrier
    BY <1>2, <2>1 DEF OsCarried
  <2>2. CASE carrier.status = "approval_required" /\ carrier' = [carrier EXCEPT !.status = "approved", !.by = "other"]
    <3>1. carrier'.status = "approved"
      BY <2>2 DEF PlatformInv, CarrierGraphs
    <3> QED
      BY <1>2, <2>2, <3>1, GraphTable, StatusPromised DEF OsPromised
  <2>3. CASE "cancelled" \in P!GraphNext[carrier.status] /\ carrier' = [carrier EXCEPT !.status = "cancelled"]
    BY <1>2, <2>3, CancelPromised DEF OsPromised
  <2> QED
    BY <1>2, <2>1, <2>2, <2>3 DEF P!UsedElsewhere, P!Crash, P!Tick
<1>3. CASE P!GraphAdvances
  <2>1. PICK to \in P!GraphNext[carrier.status], links \in BOOLEAN :
          carrier' = [carrier EXCEPT !.status = to, !.links = links]
    BY <1>3 DEF P!GraphAdvances, P!GraphMoves
  <2>2. carrier'.status = to
    BY <2>1 DEF PlatformInv, CarrierGraphs
  <2> QED
    BY <1>3, <2>1, <2>2, StatusPromised DEF P!GraphAdvances, OsPromised
<1>4. CASE P!OsStop
  BY <1>4, CancelPromised DEF P!OsStop, OsPromised
<1>5. ASSUME NEW to \in P!C!Moves[child.state], child'.state = to,
             child.state = "absent" => carrier.status \in P!Begun, UNCHANGED P!vars
      PROVE  [OsPromised]_<<carrier.status, OsCarried>>
  BY <1>5, ChildPromised DEF P!vars, OsPromised
<1>6. CASE P!ChildCreated
  <2>1. child'.state = "approval_required" /\ "approval_required" \in P!C!Moves["absent"]
    BY <1>6 DEF P!ChildCreated, ChildInv, ChildRecords, P!C!Moves
  <2> QED
    BY <1>5, <1>6, <2>1 DEF P!ChildCreated
<1>7. CASE P!ChildMoves
  BY <1>5, <1>7 DEF P!ChildMoves
<1>8. CASE P!OsReconcile
  <2>1. child'.state = "recovering" /\ child.state # "absent"
    BY <1>8 DEF P!OsReconcile, P!Shown, ChildInv, ChildRecords
  <2> QED
    BY <1>5, <1>8, <2>1 DEF P!OsReconcile
<1>9. CASE P!OsDirect
  BY <1>5, <1>9 DEF P!OsDirect
<1> QED
  BY <1>1, <1>2, <1>3, <1>4, <1>6, <1>7, <1>8, <1>9 DEF P!OsNext

(* A command's graph and the mission under it do nothing that GraphPromise   *)
(* excludes, whichever verb of the OS, request of the command or other route *)
(* moves them (platformAutoPosterCommandService, osMissionControlService).   *)
THEOREM OsGraphAsPromised == P!OsSpec => P!GraphAsPromised
<1>1. P!OsInit => P!Promise!Init
  BY DEF P!OsInit, P!Init, P!Promise!Init
<1>2. (PlatformInv /\ ChildInv) /\ [P!OsNext]_(P!osVars) => [OsPromised]_<<carrier.status, OsCarried>>
  BY OsStepPromised DEF P!osVars, OsCarried
<1> QED
  BY <1>1, <1>2, CommandKept, PTL DEF P!OsSpec, P!GraphAsPromised, P!Promise!Spec, OsPromised, OsCarried

(* A step of the graph, or of the mission under it, by anybody else's hand:  *)
(* the command's row and calls see nothing of it.                            *)
GraphByOthers(links) ==
    /\ links => carrier'.status = "completed"
    /\ P!Promise!Advance /\ UNCHANGED <<command, order, hour, child>>
    /\ CASE carrier'.status = "approved" ->
               carrier' = [carrier EXCEPT !.status = "approved", !.by = "other"] /\ mishaps' = mishaps + 1
         [] carrier'.status = "cancelled" ->
               carrier' = [carrier EXCEPT !.status = "cancelled"] /\ mishaps' = mishaps + 1
         [] OTHER ->
               /\ carrier' = [carrier EXCEPT !.status = carrier'.status, !.links = links]
               /\ UNCHANGED mishaps
MissionByOthers(again) ==
    /\ again => child'.state \in {"recoverable", "unresolved"}
    /\ P!Promise!Carry /\ UNCHANGED <<command, order, hour, carrier, mishaps>>
    /\ child' = IF child.state = "absent" THEN [child EXCEPT !.state = "approval_required"]
                ELSE [state |-> child'.state, again |-> again, stopped |-> FALSE, lane |-> "none"]

LEMMA GraphIsMet ==
    ASSUME PlatformInv, mishaps < Troubles, NEW links \in BOOLEAN, GraphByOthers(links) PROVE P!OsNext
<1> PICK to : to = carrier'.status
  OBVIOUS
<1>1. to \in P!GraphNext[carrier.status] /\ (to = "completed" => child.state = "completed")
  BY DEF GraphByOthers, P!Promise!Advance, P!Promise!GraphNext, P!GraphNext
<1>2. CASE to = "approved"
  <2>1. carrier.status = "approval_required"
    BY <1>1, <1>2, GraphTable DEF PlatformInv, CarrierGraphs, P!Going
  <2> QED
    BY <1>2, <2>1 DEF GraphByOthers, P!UsedElsewhere, P!OsNext
<1>3. CASE to = "cancelled"
  BY <1>1, <1>3 DEF GraphByOthers, P!UsedElsewhere, P!OsNext
<1>4. CASE to \notin {"approved", "cancelled"}
  <2>1. /\ carrier' = [carrier EXCEPT !.status = to, !.links = links] /\ (links => to = "completed")
        /\ UNCHANGED <<command, order, hour, child, mishaps>>
    BY <1>4 DEF GraphByOthers
  <2>2. P!GraphMoves
    BY <1>1, <1>4, <2>1 DEF P!GraphMoves
  <2> QED
    BY <1>1, <2>1, <2>2 DEF P!GraphAdvances, P!OsNext
<1> QED
  BY <1>2, <1>3, <1>4

LEMMA MissionIsMet ==
    ASSUME ChildInv, NEW again \in BOOLEAN, MissionByOthers(again) PROVE P!OsNext
<1>1. UNCHANGED P!vars
  BY DEF MissionByOthers, P!vars
<1>2. PICK to : /\ to \in P!C!Moves[child.state]
                /\ child.state = "absent" => carrier.status \in P!Begun
                /\ OsCarried' = [OsCarried EXCEPT !["own"] = to]
  BY DEF MissionByOthers, P!Promise!Carry, P!Promise!Begun, P!Begun, P!Promise!Moves, P!C!Moves, OsCarried
<1>3. child'.state = to
  BY <1>2 DEF OsCarried
<1>4. CASE child.state = "absent"
  <2>1. P!ChildCreated
    BY <1>1, <1>2, <1>4 DEF MissionByOthers, P!ChildCreated
  <2> QED
    BY <2>1 DEF P!OsNext
<1>5. CASE child.state # "absent"
  <2>1. child' = [state |-> to, again |-> again, stopped |-> FALSE, lane |-> "none"]
    BY <1>3, <1>5 DEF MissionByOthers
  <2>2. P!ChildMoves
    BY <1>1, <1>2, <1>3, <1>5, <2>1 DEF MissionByOthers, P!ChildMoves
  <2> QED
    BY <2>2 DEF P!OsNext
<1> QED
  BY <1>4, <1>5

(* Conversely the OS and the command are ready for every graph that keeps    *)
(* GraphPromise: at any moment before the bound on mishaps is reached,       *)
(* whatever such a graph, or the mission under it, may do by anybody else's  *)
(* hand is a step of the model (runScheduler, cancelGraph, approveGraph and  *)
(* the child's services, called for the graph by other routes).              *)
THEOREM OsMeetsEveryGraph ==
    ASSUME PlatformInv, ChildInv, mishaps < Troubles, NEW links \in BOOLEAN, NEW again \in BOOLEAN,
           GraphByOthers(links) \/ MissionByOthers(again)
    PROVE  P!OsNext
  BY GraphIsMet, MissionIsMet

LEMMA CommandSteps == [ServicesNext]_tables => [P!OsNext]_(P!osVars)
BY DEF ServicesNext, IntakeStep, ApprovalStep, ObservationStep, GraphStep, GenericStep, CommandStep, BoardStep,
       RunStep, BridgeStep, DatabaseStep, ScheduleStep, LedgerStep, IntentStep, CloseoutStep, tables, commands, P!osVars

(* Beside the other services, a command that is completed is linked to the    *)
(* result of its own graph, approved in its actor's name (completeLinkage).   *)
THEOREM CommandsLinked == ServicesSpec => []CompletionIsLinked
<1>1. ServicesInit => P!OsInit
  BY DEF ServicesInit
<1>2. ServicesSpec => P!OsSpec
  BY <1>1, CommandSteps, PTL DEF ServicesSpec, P!OsSpec
<1>3. P!OsSpec => []P!CompletionIsLinked
  BY ServicesAssumption, CompletionLinked
<1> QED
  BY <1>2, <1>3, PTL DEF CompletionIsLinked

(* Beside the other services, what the OS control plane answers of a command, *)
(* its graph and its child is true of all three.                              *)
THEOREM OsAnswersKept == ServicesSpec => []OsAnswersHonestly
<1>1. ServicesInit => P!OsInit
  BY DEF ServicesInit
<1>2. ServicesSpec => P!OsSpec
  BY <1>1, CommandSteps, PTL DEF ServicesSpec, P!OsSpec
<1>3. P!OsSpec => []P!OsAnswersHonestly
  BY ServicesAssumption, AnswersHonest
<1> QED
  BY <1>2, <1>3, PTL DEF OsAnswersHonestly

-------------------------------------------------------------------------------
(* The approval authority's rows and calls hold the listed values.           *)
THEOREM AuthorityTypes == ASSUME A!AuthorityAssumption PROVE A!Spec => []A!TypeOK
<1> DEFINE Counted == moves \in 0..MaxMoves
<1>1. A!Init => AuthorityInv /\ Counted
  BY AuthorityInit DEF A!Init, A!AuthorityAssumption
<1>2. Counted /\ [A!Next]_(A!vars) => Counted'
  <2> SUFFICES ASSUME Counted, [A!Next]_(A!vars) PROVE Counted'
    OBVIOUS
  <2>1. MaxMoves \in Nat
    BY DEF A!AuthorityAssumption
  <2>2. CASE UNCHANGED moves
    BY <2>2
  <2>3. CASE moves < MaxMoves /\ moves' = moves + 1
    BY <2>1, <2>3
  <2>4. ASSUME NEW c \in Callers,
               \/ (\E decision \in Decisions : A!PrepareApproved(c, decision)) \/ A!Execute(c)
               \/ A!IdentityFor(c) \/ A!PublishCheckout(c) \/ A!HasCheckpoint(c)
               \/ A!CreateCheckpoint(c) \/ A!PublishApproval(c) \/ A!MirrorManifest(c) \/ A!MirrorObservation(c)
        PROVE  UNCHANGED moves
    BY <2>4 DEF A!PrepareApproved, A!IdentityFor, A!PublishCheckout, A!HasCheckpoint, A!CreateCheckpoint,
                A!PublishApproval, A!MirrorManifest, A!MirrorObservation, A!Execute
  <2>5. CASE (\E c \in Callers : A!Crash(c)) \/ A!SourceMoves
    BY <2>2, <2>3, <2>5 DEF A!Crash, A!SourceMoves
  <2> HIDE DEF Counted
  <2> QED
    BY <2>2, <2>4, <2>5 DEF A!Next, A!vars
<1>3. AuthorityInv /\ [A!Next]_(A!vars) => AuthorityInv'
  BY AuthorityStep
<1>4. AuthorityInv /\ Counted => A!TypeOK
  <2> SUFFICES ASSUME AuthorityInv, Counted PROVE A!TypeOK
    OBVIOUS
  <2>1. \A s \in A!Scopes : manifest[s] \in Heads \cup {A!None} /\ observation[s] \in Observations
    BY DEF AuthorityInv, AuthorityTyped, ScopedHeads, ScopedDecisions
  <2>2. \A s \in A!Scopes : observation[s].decision \in Decisions \cup {A!NoDecision}
    BY <2>1 DEF Observations, A!NoObservation
  <2>3. \A c \in Callers : caller[c].pc \in Points
    BY DEF AuthorityInv, AuthorityTyped, Frames
  <2> QED
    BY <2>1, <2>2, <2>3 DEF AuthorityInv, AuthorityTyped, A!TypeOK, Points
<1> HIDE DEF Counted
<1> QED
  BY <1>1, <1>2, <1>3, <1>4, PTL DEF A!Spec

(* Manifests and tasks keep to their contracts' closed sets.                 *)
THEOREM RunTypes == ASSUME R!RunAssumption PROVE R!Spec => []R!TypeOK
<1>1. R!Spec => []RunInv
  BY RunsInit, RunsNext, PTL DEF R!Spec
<1>2. RunInv => R!TypeOK
  BY DEF RunInv, Manifests, RunTasks, R!TypeOK, R!TaskNext
<1> QED
  BY <1>1, <1>2, PTL

(* A file holds what the versions' migrations made of it.                    *)
THEOREM DatabaseTypes == ASSUME D!DatabaseAssumption PROVE D!Spec => []D!TypeOK
<1>1. D!Spec => []DbInv
  BY DbInit, DbNext, PTL DEF D!Spec
<1>2. DbInv => D!TypeOK
  BY DEF DbInv
<1> QED
  BY <1>1, <1>2, PTL

(* The stored graph is one every later hop accepts and reads alike.          *)
THEOREM ScheduleTypes == ASSUME S!IntakeAssumption PROVE S!Spec => []S!TypeOK
<1>1. ScheduleInv => S!TypeOK
  BY DEF ScheduleInv, CallRight, IntakeCalls, GraphRight, ChildRight, Written, S!Graphs, S!TypeOK
<1> QED
  BY <1>1, ScheduleKept, PTL

(* Beside the others, each service runs by its own specification.            *)
LEMMA EachRuns ==
    ServicesSpec => /\ Spec /\ A!Spec /\ O!Spec /\ M!Spec /\ T!Spec /\ R!Spec /\ D!Spec /\ S!Spec /\ L!Spec /\ I!Spec
<1>1. ServicesInit => /\ Init /\ A!Init /\ O!Init /\ M!Init /\ T!Init /\ R!Init /\ D!Init /\ S!Init /\ L!Init /\ I!Init
  BY DEF ServicesInit
<1> QED
  BY <1>1, IntakeSteps, ApprovalSteps, ObservationSteps, GenericSteps, BoardSteps, RunSteps, DatabaseSteps,
     ScheduleSteps, LedgerSteps, IntentSteps, PTL
  DEF ServicesSpec, Spec, A!Spec, O!Spec, M!Spec, T!Spec, R!Spec, D!Spec, S!Spec, L!Spec, I!Spec

-------------------------------------------------------------------------------
(* The agentic intake's types: a desk reads sources of its body, a charge is  *)
(* one of a judging node.                                                     *)
DeskRows ==
  [pc : {"idle", "reading"}, body : Submissions \cup {Unset}, left : Seq(Requirements), items : SUBSET I!Items]
IntentTyped ==
  /\ desk \in [Callers -> DeskRows]
  /\ hired # Unset => hired.body \in Submissions /\ hired.items \subseteq I!Items
  /\ shelf \in [Sources -> Contents \cup {Unset}]
  /\ charge \in I!Rows /\ verdict \in I!Found \cup {"mixed", Unset}
  /\ \A a \in Accountants : accountant[a].todo \subseteq I!Judging

LEMMA AbsentIsTyped == I!Absent \in DeskRows
  BY DEF I!Absent, DeskRows

LEMMA IntentInit == ASSUME I!IntakeAssumption, I!Init PROVE IntentTyped
<1>1. desk \in [Callers -> DeskRows]
  BY AbsentIsTyped DEF I!Init
<1>2. charge \in I!Rows
  BY DEF I!Init, I!Rows, I!Found
<1>3. \A a \in Accountants : accountant[a].todo \subseteq I!Judging
  BY DEF I!Init, I!Resting
<1> QED
  BY <1>1, <1>2, <1>3 DEF I!Init, IntentTyped

LEMMA SubmitIsTyped == ASSUME I!IntakeAssumption, IntentTyped, NEW c \in Callers, I!Submit(c) PROVE IntentTyped'
<1>1. PICK b \in Submissions :
        desk' = [desk EXCEPT ![c] = [pc |-> "reading", body |-> b, left |-> b.context, items |-> {}]]
  BY DEF I!Submit
<1>2. [pc |-> "reading", body |-> b, left |-> b.context, items |-> {}] \in DeskRows
  BY DEF I!IntakeAssumption, Requirements, DeskRows
<1>3. desk' \in [Callers -> DeskRows]
  BY <1>1, <1>2 DEF IntentTyped
<1> QED
  BY <1>3 DEF IntentTyped, I!Submit

LEMMA ReadIsTyped == ASSUME IntentTyped, NEW c \in Callers, I!ReadSource(c) PROVE IntentTyped'
<1>1. desk[c] \in DeskRows /\ desk[c].left \in Seq(Requirements) /\ desk[c].left # <<>> /\ desk[c].items \subseteq I!Items
  BY DEF IntentTyped, I!ReadSource, DeskRows
<1>2. PICK next : next = Head(desk[c].left)
  OBVIOUS
<1>3. next \in Requirements /\ Tail(desk[c].left) \in Seq(Requirements)
  BY <1>1, <1>2
<1>4. PICK content : content = I!Retrieved(next)
  OBVIOUS
<1>5. content \in Contents \cup {Unset} /\ next.source \in Sources
  BY <1>3, <1>4 DEF I!Retrieved, IntentTyped, Requirements
<1>6. PICK found : found = IF content = Unset THEN desk[c].items
                           ELSE desk[c].items \cup {[source |-> next.source, content |-> content]}
  OBVIOUS
<1>7. found \subseteq I!Items
  BY <1>1, <1>5, <1>6 DEF I!Items
<1>8. PICK m : m = IF content = Unset /\ next.required THEN I!Absent
                   ELSE [desk[c] EXCEPT !.left = Tail(@), !.items = found]
  OBVIOUS
<1>9. m \in DeskRows
  BY <1>1, <1>3, <1>7, <1>8, AbsentIsTyped DEF DeskRows
<1>10. desk' = [desk EXCEPT ![c] = m]
  BY <1>2, <1>4, <1>6, <1>8 DEF I!ReadSource
<1>11. desk' \in [Callers -> DeskRows]
  BY <1>9, <1>10 DEF IntentTyped
<1> QED
  BY <1>11 DEF IntentTyped, I!ReadSource

LEMMA StoreIsTyped ==
    ASSUME AdmissionInv, IntentTyped, NEW c \in Callers, I!Store(c) PROVE IntentTyped'
<1>1. desk[c].body \in Submissions /\ desk[c].items \subseteq I!Items
  BY DEF IntentTyped, AdmissionInv, DesksRight, ReadingRight, I!Store, DeskRows
<1>2. desk' \in [Callers -> DeskRows]
  BY AbsentIsTyped DEF IntentTyped, I!Store
<1>3. hired' = hired \/ (hired'.body = desk[c].body /\ hired'.items = desk[c].items)
  BY DEF I!Store
<1> QED
  BY <1>1, <1>2, <1>3 DEF IntentTyped, I!Store

LEMMA InvokeIsTyped == ASSUME IntentTyped, NEW n \in I!Judging, I!Invoke(n) PROVE IntentTyped'
<1>1. PICK at \in {"failed", "priced", "unpriced"} : charge' = [charge EXCEPT ![n].at = at]
  BY DEF I!Invoke
<1>2. charge' \in I!Rows
  BY <1>1 DEF IntentTyped, I!Rows
<1> QED
  BY <1>2 DEF IntentTyped, I!Invoke

LEMMA CompleteIsTyped == ASSUME IntentTyped, I!Complete PROVE IntentTyped'
<1> DEFINE founds == {charge[n].found : n \in I!Billed(charge)}
<1>1. founds \in SUBSET I!Found
  BY DEF IntentTyped, I!Billed, I!Rows
<1>2. verdict' = I!Overall(founds)
  BY DEF I!Complete
<1> HIDE DEF founds
<1>3. verdict' \in I!Found \cup {"mixed", Unset}
  BY <1>1, <1>2, OverallFacts
<1> QED
  BY <1>3 DEF IntentTyped, I!Complete

LEMMA BookIsTyped ==
    ASSUME BooksInv, IntentTyped, NEW a \in Accountants, I!StartReconcile(a) \/ I!LookUp(a) \/ I!FinishReconcile(a)
    PROVE  IntentTyped'
<1>1. DOMAIN accountant = Accountants /\ DOMAIN accountant[a] = AccountFields /\ AccountRight(accountant[a])
  BY DEF BooksInv, AccountsRight
<1>2. CASE I!StartReconcile(a)
  <2> DEFINE todo == {n \in I!Billed(charge) : charge[n].found # "matched"}
             m == [pc |-> "asking", seen |-> verdict, rows |-> [n \in I!Billed(charge) |-> charge[n].found],
                   todo |-> todo]
  <2>1. m.todo \subseteq I!Judging /\ accountant' = [accountant EXCEPT ![a] = m]
    BY <1>2 DEF I!StartReconcile, I!Billed
  <2> HIDE DEF m
  <2>2. \A b \in Accountants : accountant'[b].todo \subseteq I!Judging
    BY <1>1, <2>1 DEF IntentTyped
  <2> QED
    BY <1>2, <2>2 DEF IntentTyped, I!StartReconcile
<1>3. CASE I!LookUp(a)
  <2>1. PICK n \in accountant[a].todo, found \in I!Found :
          /\ charge' = [charge EXCEPT ![n].found = found]
          /\ accountant' = [accountant EXCEPT ![a].todo = @ \ {n}, ![a].rows[n] = found]
    BY <1>3 DEF I!LookUp, IntentTyped, BooksInv, BillRight, I!Found
  <2>2. n \in I!Judging
    BY SMTT(30) DEF IntentTyped
  <2>3. charge' \in I!Rows
    BY <2>1, <2>2 DEF IntentTyped, I!Rows
  <2>4. accountant'[a].todo = accountant[a].todo \ {n} /\ \A b \in Accountants \ {a} : accountant'[b] = accountant[b]
    BY <1>1, <2>1 DEF AccountFields
  <2>5. \A b \in Accountants : accountant'[b].todo \subseteq I!Judging
    BY <2>4 DEF IntentTyped
  <2> QED
    BY <1>3, <2>3, <2>5 DEF IntentTyped, I!LookUp
<1>4. CASE I!FinishReconcile(a)
  <2>1. I!Range(accountant[a].rows) \in SUBSET I!Found
    BY <1>1, <1>4 DEF AccountRight, Backed, I!Range, I!FinishReconcile
  <2>2. I!Refreshed(a) \in I!Found \cup {"mixed"}
    BY <2>1, OverallFacts DEF I!Refreshed
  <2>3. verdict' \in I!Found \cup {"mixed", Unset}
    BY <1>4, <2>2 DEF IntentTyped, I!FinishReconcile
  <2>4. accountant' = [accountant EXCEPT ![a] = I!Resting] /\ I!Resting.todo = {}
    BY <1>4 DEF I!FinishReconcile, I!Resting
  <2>5. \A b \in Accountants : accountant'[b].todo \subseteq I!Judging
    BY <1>1, <2>4 DEF IntentTyped
  <2> QED
    BY <1>4, <2>3, <2>5 DEF IntentTyped, I!FinishReconcile
<1> QED
  BY <1>2, <1>3, <1>4

LEMMA IntentStepTyped ==
    ASSUME I!IntakeAssumption, AdmissionInv, BooksInv, IntentTyped, [I!Next]_(I!vars) PROVE IntentTyped'
<1>1. CASE I!SourceMoves
  <2>1. shelf' \in [Sources -> Contents \cup {Unset}]
    BY <1>1 DEF I!SourceMoves, IntentTyped
  <2> QED
    BY <1>1, <2>1 DEF IntentTyped, I!SourceMoves
<1>2. CASE UNCHANGED I!vars
  BY <1>2 DEF IntentTyped, I!vars
<1> QED
  BY <1>1, <1>2, SubmitIsTyped, ReadIsTyped, StoreIsTyped, InvokeIsTyped, CompleteIsTyped, BookIsTyped DEF I!Next

(* A mission's rows, its desk and its books hold the listed values.          *)
THEOREM IntentTypes == ASSUME I!IntakeAssumption PROVE I!Spec => []I!TypeOK
<1>1. I!Init => IntentTyped
  BY IntentInit
<1>2. AdmissionInv /\ BooksInv /\ IntentTyped /\ [I!Next]_(I!vars) => IntentTyped'
  BY IntentStepTyped
<1>3. IntentTyped => I!TypeOK
  BY DEF IntentTyped, DeskRows, I!TypeOK
<1> QED
  BY <1>1, <1>2, <1>3, AdmissionKept, BooksKept, PTL DEF I!Spec

-------------------------------------------------------------------------------
(* The observation loop: the closed value sets of its rows, and what a call   *)
(* in flight holds.  A job's counter only grows, so the number of an attempt  *)
(* under way stays within it, whoever else works on the job.                  *)
Held == {"leased", "observing"}
JobStates == O!Parked \cup {"absent", "pending", "waiting"} \cup Held
Verdicts == {"continue_observing", "converged", "escalation_required", "failed_terminal", "transport_retry"}
LoopPoints == {"idle", "next", "asked", "answered", "projected"}
Escalations == O!Closed \cup {O!None, "open", "acknowledged"}
Posts == [rev : 1..MaxRevision, look : Looks]
Answers == Posts \cup [rev : {0}, look : {"unavailable", "foreign"}]
LoopEvents == [kind : {"observation", "contradiction", "identity_mismatch"},
               rev : 0..MaxRevision, look : Looks \cup {"foreign"}]

RowFits(j, numbers) ==
    /\ DOMAIN j = {"status", "count", "due", "owner", "lapsed"}
    /\ j.status \in JobStates /\ j.count \in Nat
    /\ j.owner # O!None <=> j.status \in Held
    /\ numbers \subseteq 1..j.count
    /\ j.status = "absent" => j.count = 0
JobsFit ==
    /\ DOMAIN job = Watched /\ DOMAIN tried = Watched
    /\ \A n \in Watched : RowFits(job[n], tried[n]) /\ (n \notin completed => job[n].status = "absent")
LooksFit ==
    /\ post \in [Watched -> Posts] /\ escalation \in [Watched -> Escalations]
    /\ projection \in [Watched -> O!Projections] /\ evidence \in [Watched -> SUBSET LoopEvents]
BundlesFit == DOMAIN bundle = Watched /\ \A n \in Watched : bundle[n].upload \in BOOLEAN
CallFits(a, m) ==
    /\ m.pc \in LoopPoints
    /\ a \in Batches /\ m.pc \in {"asked", "answered", "projected"} => m.number \in 1..job[m.node].count
    /\ m.pc = "answered" => m.answer \in Answers
    /\ m.pc = "projected" => a \in Batches /\ m.class \in Verdicts
CallsFit == \A a \in O!Actors : CallFits(a, actor[a])
LoopFits == JobsFit /\ LooksFit /\ BundlesFit /\ CallsFit /\ lapses \in 0..Troubles

CountsGrow == \A n \in Watched : job'[n].count >= job[n].count

-------------------------------------------------------------------------------
LEMMA IdleFits == ASSUME NEW a PROVE CallFits(a, O!Idle) /\ CallFits(a, O!Idle)'
  BY DEF O!Idle, CallFits, LoopPoints

LEMMA SettledCall ==
    /\ O!Idle.pc = "idle"
    /\ \A rest : [O!Idle EXCEPT !.pc = "next", !.todo = rest].pc = "next"
  BY DEF O!Idle

LEMMA LoopFitsFirst == ASSUME O!LoopAssumption, O!Init PROVE LoopFits
<1>1. JobsFit
  BY DEF O!Init, JobsFit, RowFits, O!NoJob, JobStates, Held, O!None
<1>2. LooksFit
  <2>1. [rev |-> 1, look |-> Draft] \in Posts
    BY DEF O!LoopAssumption, Posts
  <2>2. O!NoProjection \in O!Projections
    BY DEF O!NoProjection, O!Projections, O!Statuses, O!LoopAssumption
  <2>3. O!None \in Escalations /\ {} \in SUBSET LoopEvents
    BY DEF Escalations
  <2> HIDE DEF Posts, LoopEvents, Escalations
  <2> QED
    BY <2>1, <2>2, <2>3 DEF O!Init, LooksFit
<1>3. BundlesFit
  BY DEF O!Init, BundlesFit, O!NoBundle
<1>4. CallsFit
  BY IdleFits DEF O!Init, CallsFit
<1> QED
  BY <1>1, <1>2, <1>3, <1>4 DEF LoopFits, O!Init, O!LoopAssumption

(* One call moves, or none.                                                 *)
LEMMA CallMovesFit ==
    ASSUME LoopInv, JobsFit, JobsFit', CallsFit, CountsGrow, NEW a \in O!Actors, NEW m,
           actor' = [actor EXCEPT ![a] = m], CallFits(a, m)'
    PROVE  CallsFit'
<1>1. actor'[a] = m /\ \A b \in O!Actors \ {a} : actor'[b] = actor[b]
  BY DEF LoopInv, CallsRight
<1>2. ASSUME NEW b \in O!Actors \ {a} PROVE CallFits(b, actor[b])'
  <2>1. CallFits(b, actor[b]) /\ LookerRight(b, actor[b]) /\ actor'[b] = actor[b]
    BY <1>1 DEF CallsFit, LoopInv, CallsRight
  <2>2. ASSUME b \in Batches, actor[b].pc \in {"asked", "answered", "projected"}
        PROVE  actor[b].number \in 1..job'[actor[b].node].count
    <3>1. actor[b].node \in Watched /\ actor[b].number \in 1..job[actor[b].node].count
      BY <2>1, <2>2 DEF CallFits, LookerRight
    <3>2. job[actor[b].node].count \in Nat /\ job'[actor[b].node].count \in Nat
      BY <3>1 DEF JobsFit, RowFits
    <3> QED
      BY <3>1, <3>2 DEF CountsGrow
  <2> QED
    BY <2>1, <2>2 DEF CallFits
<1>3. CallFits(a, actor[a])'
  BY <1>1 DEF CallFits
<1> QED
  BY <1>2, <1>3 DEF CallsFit

LEMMA CallsStayFit ==
    ASSUME LoopInv, JobsFit, JobsFit', CallsFit, CountsGrow, UNCHANGED actor
    PROVE  CallsFit'
<1>1. ASSUME NEW b \in O!Actors PROVE CallFits(b, actor[b])'
  <2>1. CallFits(b, actor[b]) /\ LookerRight(b, actor[b]) /\ actor'[b] = actor[b]
    BY DEF CallsFit, LoopInv, CallsRight
  <2>2. ASSUME b \in Batches, actor[b].pc \in {"asked", "answered", "projected"}
        PROVE  actor[b].number \in 1..job'[actor[b].node].count
    <3>1. actor[b].node \in Watched /\ actor[b].number \in 1..job[actor[b].node].count
      BY <2>1, <2>2 DEF CallFits, LookerRight
    <3>2. job[actor[b].node].count \in Nat /\ job'[actor[b].node].count \in Nat
      BY <3>1 DEF JobsFit, RowFits
    <3> QED
      BY <3>1, <3>2 DEF CountsGrow
  <2> QED
    BY <2>1, <2>2 DEF CallFits
<1> QED
  BY <1>1 DEF CallsFit

LEMMA JobsStayFit == ASSUME JobsFit, UNCHANGED <<job, tried, completed>> PROVE JobsFit' /\ CountsGrow
<1>1. JobsFit'
  BY DEF JobsFit, RowFits
<1>2. CountsGrow
  BY DEF JobsFit, RowFits, CountsGrow
<1> QED
  BY <1>1, <1>2

(* One job's row moves.                                                     *)
LEMMA RowMovesFit ==
    ASSUME JobsFit, NEW n \in Watched, NEW r, NEW s, job' = [job EXCEPT ![n] = r],
           tried' = [tried EXCEPT ![n] = s] \/ (tried' = tried /\ s = tried[n]),
           RowFits(r, s), r.count >= job[n].count, completed \subseteq completed',
           n \notin completed' => r.status = "absent"
    PROVE  JobsFit' /\ CountsGrow
<1>1. /\ DOMAIN job' = Watched /\ job'[n] = r /\ \A m \in Watched \ {n} : job'[m] = job[m]
      /\ DOMAIN tried' = Watched /\ tried'[n] = s /\ \A m \in Watched \ {n} : tried'[m] = tried[m]
  BY DEF JobsFit
<1>2. RowFits(job[n], tried[n])'
  BY <1>1 DEF RowFits
<1>3. ASSUME NEW m \in Watched \ {n} PROVE RowFits(job[m], tried[m])'
  BY <1>1 DEF RowFits, JobsFit
<1>4. CountsGrow
  BY <1>1 DEF RowFits, JobsFit, CountsGrow
<1> QED
  BY <1>1, <1>2, <1>3, <1>4 DEF JobsFit

(* What the code makes of a post is one of the listed statuses and verdicts. *)
LEMMA ClassifiedTyped == ASSUME O!LoopAssumption, NEW look \in Looks PROVE O!Classified(look) \in O!Statuses
<1> PICK face : face = Face[look]
  OBVIOUS
<1>1. face.status \in {"scheduled", "processing", "posted", "failed", "outcome_unknown"} /\ face.proven \in BOOLEAN
  BY DEF O!LoopAssumption
<1>2. O!OperationStatus(face) \in O!Statuses
  BY <1>1 DEF O!OperationStatus, O!Statuses
<1>3. O!QueueStatus(face) \in O!Statuses
  BY <1>1 DEF O!QueueStatus, O!Statuses
<1> QED
  BY <1>2, <1>3 DEF O!Classified

LEMMA VerdictTyped == ASSUME NEW n, NEW seen PROVE O!Convergence(n, seen) \in Verdicts
<1>1. ASSUME NEW status, NEW again PROVE O!ClassOfStatus(status, again) \in Verdicts
  BY DEF O!ClassOfStatus, Verdicts
<1> QED
  BY <1>1 DEF O!Convergence, Verdicts

-------------------------------------------------------------------------------
(* One lemma for each action that moves more than a clock.                  *)
LEMMA BatchFits ==
    ASSUME O!LoopAssumption, LoopInv, LoopFits, NEW b \in Batches, O!RunBatch(b) PROVE LoopFits'
<1>1. UNCHANGED <<completed, tried, escalation, O!results, bundle, post, lapses>>
  BY DEF O!RunBatch
<1>2. PICK due \in SUBSET Watched :
        /\ job' = [n \in Watched |-> IF n \in due
                     THEN [O!Backfilled(n) EXCEPT !.status = "leased", !.owner = Owner[b], !.lapsed = FALSE]
                     ELSE O!Backfilled(n)]
        /\ \A n \in due : O!Claimable(O!Backfilled(n))
        /\ \E listed \in O!SetToSeqs(due) :
             actor' = [actor EXCEPT ![b] = IF due = {} THEN O!Idle ELSE [O!Idle EXCEPT !.pc = "next", !.todo = listed]]
  BY DEF O!RunBatch
<1>3. ASSUME NEW n \in Watched
      PROVE  /\ RowFits(O!Backfilled(n), tried[n]) /\ O!Backfilled(n).count = job[n].count
             /\ n \notin completed => O!Backfilled(n).status = "absent"
  BY DEF LoopFits, JobsFit, RowFits, O!Backfilled, O!Pending, O!NoJob, JobStates, Held
<1>4. ASSUME NEW n \in Watched
      PROVE  RowFits(job'[n], tried[n]) /\ job'[n].count = job[n].count /\ (n \notin completed => job'[n].status = "absent")
  <2>1. CASE n \in due
    <3> PICK w : w = O!Backfilled(n)
      OBVIOUS
    <3> PICK r : r = [w EXCEPT !.status = "leased", !.owner = Owner[b], !.lapsed = FALSE]
      OBVIOUS
    <3>1. RowFits(w, tried[n]) /\ w.count = job[n].count /\ (n \notin completed => w.status = "absent")
      BY <1>3
    <3>2. DOMAIN r = {"status", "count", "due", "owner", "lapsed"} /\ r.status = "leased" /\ r.owner = Owner[b] /\ r.count = w.count
      BY <3>1 DEF RowFits
    <3>3. Owner[b] # O!None
      BY DEF O!LoopAssumption
    <3>4. w.status # "absent"
      BY <1>2, <2>1 DEF O!Claimable
    <3>5. job'[n] = r
      BY <1>2, <2>1
    <3> QED
      BY <3>1, <3>2, <3>3, <3>4, <3>5 DEF RowFits, JobStates, Held
  <2>2. CASE n \notin due
    BY <1>2, <1>3, <2>2
  <2> QED
    BY <2>1, <2>2
<1>5. JobsFit' /\ CountsGrow
  <2>1. DOMAIN job' = Watched /\ DOMAIN tried' = Watched
    BY <1>1, <1>2 DEF LoopFits, JobsFit
  <2>2. JobsFit'
    BY <1>1, <1>4, <2>1 DEF JobsFit, RowFits
  <2>3. CountsGrow
    BY <1>4 DEF CountsGrow, RowFits
  <2> QED
    BY <2>2, <2>3
<1>6. PICK m : actor' = [actor EXCEPT ![b] = m] /\ m.pc \in {"idle", "next"}
  BY <1>2, SettledCall
<1>7. CallFits(b, m)'
  BY <1>6 DEF CallFits, LoopPoints
<1>8. CallsFit'
  BY <1>5, <1>6, <1>7, CallMovesFit DEF LoopFits, O!Actors
<1> QED
  BY <1>1, <1>5, <1>8 DEF LoopFits, LooksFit, BundlesFit, O!results

LEMMA BeginFits ==
    ASSUME O!LoopAssumption, LoopInv, LoopFits, NEW b \in Batches, O!BeginAttempt(b) PROVE LoopFits'
<1>1. UNCHANGED <<completed, tried, escalation, O!results, bundle, post, lapses>>
  BY SMTT(30) DEF O!BeginAttempt
<1>2. b \in O!Actors /\ LookerRight(b, actor[b]) /\ actor[b].pc = "next"
  BY DEF LoopInv, CallsRight, O!Actors, O!BeginAttempt
<1>n. PICK n : n = Head(actor[b].todo)
  OBVIOUS
<1>3. n \in Watched
  BY <1>2, <1>n DEF LookerRight
<1>4. CASE job[n].status = "leased" /\ job[n].owner = Owner[b]
  <2>1. /\ job' = [job EXCEPT ![n].status = "observing", ![n].count = @ + 1]
        /\ actor' = [actor EXCEPT ![b].pc = "asked", ![b].node = n, ![b].number = job[n].count + 1]
    BY SMTT(30), <1>n, <1>4 DEF O!BeginAttempt
  <2>r. PICK r : r = [[job[n] EXCEPT !.status = "observing"] EXCEPT !.count = job[n].count + 1]
    OBVIOUS
  <2>2. RowFits(job[n], tried[n]) /\ job[n].status # "absent" /\ n \in completed
    BY <1>3, <1>4 DEF LoopFits, JobsFit
  <2>3. /\ DOMAIN r = {"status", "count", "due", "owner", "lapsed"}
        /\ r.status = "observing" /\ r.count = job[n].count + 1 /\ r.owner = job[n].owner
    BY <2>r, <2>2 DEF RowFits
  <2>4. job' = [job EXCEPT ![n] = r]
    <3>1. [job EXCEPT ![n].status = "observing", ![n].count = @ + 1]
            = [job EXCEPT ![n] = [job[n] EXCEPT !.status = "observing", !.count = job[n].count + 1]]
      BY <1>3 DEF LoopFits, JobsFit
    <3> QED
      BY <2>r, <2>1, <3>1
  <2>5. RowFits(r, tried[n]) /\ r.count >= job[n].count
    <3>1. job[n].count \in Nat /\ tried[n] \subseteq 1..job[n].count
      BY <2>2 DEF RowFits
    <3>2. tried[n] \subseteq 1..(job[n].count + 1)
      BY <3>1
    <3>3. r.count >= job[n].count /\ r.count \in Nat
      BY <2>3, <3>1
    <3>4. r.owner # O!None
      BY <1>4, <2>3 DEF O!LoopAssumption
    <3> QED
      BY <2>3, <3>2, <3>3, <3>4 DEF RowFits, JobStates, Held
  <2>7. JobsFit' /\ CountsGrow
    <3> QED
      BY <1>1, <1>3, <2>2, <2>4, <2>5, RowMovesFit DEF LoopFits
  <2>m. PICK m : m = [actor[b] EXCEPT !.pc = "asked", !.node = n, !.number = job[n].count + 1]
    OBVIOUS
  <2>8. m.pc = "asked" /\ m.node = n /\ m.number = job[n].count + 1
    BY <1>2, <2>m DEF LookerRight, CallFields
  <2>9. actor' = [actor EXCEPT ![b] = m]
    BY <2>m, <1>2, <2>1
  <2>10. m.number \in 1..job'[n].count
    <3>1. job'[n].count = job[n].count + 1 /\ job[n].count \in Nat
      BY <1>3, <2>2, <2>3, <2>4 DEF LoopFits, JobsFit, RowFits
    <3> QED
      BY <2>8, <3>1
  <2>11. CallFits(b, m)'
    BY <2>8, <2>10 DEF CallFits, LoopPoints
  <2>12. CallsFit'
    BY <1>2, <2>7, <2>9, <2>11, CallMovesFit DEF LoopFits
  <2> QED
    BY <1>1, <2>7, <2>12 DEF LoopFits, LooksFit, BundlesFit, O!results
<1>5. CASE ~(job[n].status = "leased" /\ job[n].owner = Owner[b])
  <2>1. actor' = [actor EXCEPT ![b] = O!Idle] /\ UNCHANGED job
    BY SMTT(30), <1>n, <1>5 DEF O!BeginAttempt
  <2>2. JobsFit' /\ CountsGrow
    BY <1>1, <2>1, JobsStayFit DEF LoopFits
  <2>3. CallsFit'
    BY <1>2, <2>1, <2>2, IdleFits, CallMovesFit DEF LoopFits
  <2> QED
    BY <1>1, <2>2, <2>3 DEF LoopFits, LooksFit, BundlesFit, O!results
<1> QED
  BY <1>4, <1>5

LEMMA AnswerFits ==
    ASSUME O!LoopAssumption, LoopInv, LoopFits, NEW a \in O!Actors, O!Answer(a) PROVE LoopFits'
<1>1. UNCHANGED <<O!rows, O!results, bundle, post>>
  BY DEF O!Answer
<1>2. LookerRight(a, actor[a]) /\ CallFits(a, actor[a]) /\ actor[a].pc = "asked"
  BY DEF LoopInv, CallsRight, LoopFits, CallsFit, O!Answer
<1>3. lapses' \in 0..Troubles
  BY DEF O!Answer, LoopFits, O!LoopAssumption
<1>4. PICK answer \in Answers : actor' = [actor EXCEPT ![a].pc = "answered", ![a].answer = answer]
  <2>1. CASE actor' = [actor EXCEPT ![a].pc = "answered", ![a].answer = post[actor[a].node]]
    <3>1. post[actor[a].node] \in Posts
      BY <1>2 DEF LookerRight, LoopFits, LooksFit
    <3> QED
      BY <2>1, <3>1 DEF Answers
  <2>2. ASSUME NEW failure \in {"unavailable", "foreign"},
               actor' = [actor EXCEPT ![a].pc = "answered", ![a].answer = [rev |-> 0, look |-> failure]]
        PROVE  \E answer \in Answers : actor' = [actor EXCEPT ![a].pc = "answered", ![a].answer = answer]
    <3>1. [rev |-> 0, look |-> failure] \in Answers
      BY DEF Answers
    <3> QED
      BY <2>2, <3>1
  <2> QED
    BY <2>1, <2>2 DEF O!Answer
<1> PICK m : m = [actor[a] EXCEPT !.pc = "answered", !.answer = answer]
  OBVIOUS
<1>5. m.pc = "answered" /\ m.answer = answer /\ m.node = actor[a].node /\ m.number = actor[a].number
  BY <1>2 DEF LookerRight, CallFields
<1>6. actor' = [actor EXCEPT ![a] = m]
  BY <1>4
<1>7. JobsFit' /\ CountsGrow
  BY <1>1, JobsStayFit DEF LoopFits, O!rows
<1>8. CallFits(a, m)'
  <2>1. job' = job
    BY <1>1 DEF O!rows
  <2> HIDE DEF Answers
  <2> QED
    BY <1>2, <1>5, <2>1 DEF CallFits, LoopPoints
<1>9. CallsFit'
  BY <1>6, <1>7, <1>8, CallMovesFit DEF LoopFits
<1> QED
  BY <1>1, <1>3, <1>7, <1>9 DEF LoopFits, LooksFit, BundlesFit, O!results, O!rows

(* What an answer writes keeps to the projection's and the evidence's sets. *)
LEMMA PersistFits ==
    ASSUME O!LoopAssumption, LooksFit, NEW n \in Watched, NEW seen \in Answers, O!Persist(n, seen),
           UNCHANGED <<post, escalation>>
    PROVE  LooksFit'
<1>1. CASE UNCHANGED O!results
  BY <1>1 DEF O!results, LooksFit
<1>2. ASSUME NEW p \in O!Projections, NEW e \in LoopEvents, projection' = [projection EXCEPT ![n] = p],
             evidence' = [evidence EXCEPT ![n] = @ \cup {e}]
      PROVE  LooksFit'
  <2> HIDE DEF LoopEvents, Posts, Escalations
  <2>1. evidence[n] \cup {e} \in SUBSET LoopEvents
    BY <1>2 DEF LooksFit
  <2> QED
    BY <1>2, <2>1 DEF LooksFit
<1>3. MaxRevision \in Nat \ {0} /\ seen.rev \in 0..MaxRevision /\ (seen.look \in Looks \/ seen.look \in {"unavailable", "foreign"})
  BY DEF Answers, Posts, O!LoopAssumption
<1>4. ASSUME NEW kind \in {"contradiction", "identity_mismatch"}, seen.look \in Looks \cup {"foreign"},
             projection' = O!Review(n), evidence' = [evidence EXCEPT ![n] = @ \cup {O!Event(kind, seen)}]
      PROVE  LooksFit'
  <2> PICK p : p = [projection[n] EXCEPT !.status = "manual_review_required"]
    OBVIOUS
  <2>1. p \in O!Projections
    BY DEF LooksFit, O!Projections, O!Statuses
  <2>2. O!Event(kind, seen) \in LoopEvents
    BY <1>3, <1>4 DEF O!Event, LoopEvents
  <2> QED
    BY <1>2, <1>4, <2>1, <2>2 DEF O!Review
<1>5. CASE seen.rev > projection[n].rev /\ O!Store(n, seen)
  <2>1. projection[n].rev \in Nat
    BY DEF LooksFit, O!Projections
  <2>2. seen.rev > 0
    BY <1>3, <1>5, <2>1
  <2>3. seen.look \in Looks /\ O!Classified(seen.look) \in O!Statuses
    BY <2>2, ClassifiedTyped DEF Answers, Posts
  <2>4. [rev |-> seen.rev, look |-> seen.look, status |-> O!Classified(seen.look)] \in O!Projections
    BY <1>3, <2>3 DEF O!Projections
  <2>5. O!Event("observation", seen) \in LoopEvents
    BY <1>3, <2>3 DEF O!Event, LoopEvents
  <2> QED
    BY <1>2, <1>5, <2>4, <2>5 DEF O!Store
<1>6. projection[n].rev \in Nat /\ seen.rev \in Nat /\ (seen.rev = 0 => seen.look \in {"unavailable", "foreign"})
      /\ (seen.rev > 0 => seen.look \in Looks)
  BY <1>3 DEF LooksFit, O!Projections, Answers, Posts
<1>7. \/ seen.look = "unavailable" \/ seen.look = "foreign"
      \/ seen.rev > 0 /\ seen.rev < projection[n].rev
      \/ seen.rev > 0 /\ seen.rev = projection[n].rev /\ seen.look = projection[n].look
      \/ seen.rev > 0 /\ seen.rev = projection[n].rev /\ seen.look # projection[n].look
      \/ seen.rev > projection[n].rev
  BY <1>6
<1>8. \/ UNCHANGED O!results
      \/ /\ seen.look = "foreign" /\ projection' = O!Review(n)
         /\ evidence' = [evidence EXCEPT ![n] = @ \cup {O!Event("identity_mismatch", seen)}]
      \/ /\ seen.rev > 0 /\ projection' = O!Review(n)
         /\ evidence' = [evidence EXCEPT ![n] = @ \cup {O!Event("contradiction", seen)}]
      \/ seen.rev > projection[n].rev /\ O!Store(n, seen)
  BY <1>7 DEF O!Persist
<1> QED
  BY <1>1, <1>4, <1>5, <1>6, <1>8

LEMMA ProjectFits ==
    ASSUME O!LoopAssumption, LoopInv, LoopFits, NEW b \in Batches, O!Project(b) PROVE LoopFits'
<1>1. UNCHANGED <<O!rows, bundle, post, lapses>> /\ O!Persist(actor[b].node, actor[b].answer)
  BY DEF O!Project
<1>2. b \in O!Actors /\ LookerRight(b, actor[b]) /\ CallFits(b, actor[b]) /\ actor[b].pc = "answered"
  BY DEF LoopInv, CallsRight, LoopFits, CallsFit, O!Project, O!Actors
<1>3. LooksFit'
  BY <1>1, <1>2, PersistFits DEF LoopFits, LookerRight, CallFits, O!rows
<1>4. PICK class \in Verdicts :
        actor' = [actor EXCEPT ![b].pc = "projected", ![b].answer = O!NoAnswer, ![b].class = class]
  BY VerdictTyped DEF O!Project
<1> PICK m : m = [actor[b] EXCEPT !.pc = "projected", !.answer = O!NoAnswer, !.class = class]
  OBVIOUS
<1>5. m.pc = "projected" /\ m.class = class /\ m.node = actor[b].node /\ m.number = actor[b].number
  BY <1>2 DEF LookerRight, CallFields
<1>6. actor' = [actor EXCEPT ![b] = m]
  BY <1>4
<1>7. JobsFit' /\ CountsGrow
  BY <1>1, JobsStayFit DEF LoopFits, O!rows
<1>8. CallFits(b, m)'
  BY <1>1, <1>2, <1>5 DEF CallFits, LoopPoints, O!rows
<1>9. CallsFit'
  BY <1>2, <1>6, <1>7, <1>8, CallMovesFit DEF LoopFits
<1> QED
  BY <1>1, <1>3, <1>7, <1>9 DEF LoopFits, BundlesFit

LEMMA ConvergeFits ==
    ASSUME O!LoopAssumption, LoopInv, LoopFits, NEW b \in Batches, O!Converge(b) PROVE LoopFits'
<1>1. UNCHANGED <<completed, O!results, bundle, post, lapses>>
  BY DEF O!Converge
<1>2. b \in O!Actors /\ LookerRight(b, actor[b]) /\ CallFits(b, actor[b]) /\ actor[b].pc = "projected"
  BY DEF LoopInv, CallsRight, LoopFits, CallsFit, O!Converge, O!Actors
<1> PICK n : n = actor[b].node
  OBVIOUS
<1>3. n \in Watched /\ RowFits(job[n], tried[n]) /\ (n \notin completed => job[n].status = "absent")
  BY <1>2 DEF LookerRight, LoopFits, JobsFit
<1>4. actor[b].number \in 1..job[n].count /\ actor[b].class \in Verdicts
  BY <1>2 DEF CallFits
<1>5. job[n].status # "absent" /\ n \in completed
  BY <1>3, <1>4 DEF RowFits
<1>6. O!NextStatus(O!Verdict(b)) \in {"waiting", "converged", "escalation_required", "failed_terminal"}
  BY <1>4 DEF O!NextStatus, O!Verdict, Verdicts
<1> PICK r : r = [job[n] EXCEPT !.status = O!NextStatus(O!Verdict(b)), !.due = FALSE, !.owner = O!None, !.lapsed = FALSE]
  OBVIOUS
<1>7. /\ DOMAIN r = {"status", "count", "due", "owner", "lapsed"} /\ r.status = O!NextStatus(O!Verdict(b))
      /\ r.count = job[n].count /\ r.owner = O!None
  BY <1>3 DEF RowFits
<1> PICK s : s = tried[n] \cup {actor[b].number}
  OBVIOUS
<1>8. RowFits(r, s) /\ r.count >= job[n].count
  <2>1. s \subseteq 1..job[n].count /\ job[n].count \in Nat
    BY <1>3, <1>4 DEF RowFits
  <2> QED
    BY <1>6, <1>7, <2>1 DEF RowFits, JobStates, Held, O!Parked
<1>9. job' = [job EXCEPT ![n] = r] /\ tried' = [tried EXCEPT ![n] = s]
  BY DEF O!Converge
<1>10. JobsFit' /\ CountsGrow
  BY <1>1, <1>3, <1>5, <1>8, <1>9, RowMovesFit DEF LoopFits
<1>11. LooksFit'
  <2>1. escalation' = [escalation EXCEPT ![n] = IF O!Verdict(b) = "escalation_required" /\ @ = O!None THEN "open" ELSE @]
    BY DEF O!Converge
  <2>2. escalation' \in [Watched -> Escalations]
    BY <1>3, <2>1 DEF LoopFits, LooksFit, Escalations
  <2> QED
    BY <1>1, <2>2 DEF LoopFits, LooksFit, O!results
<1>12. PICK m : actor' = [actor EXCEPT ![b] = m] /\ m.pc \in {"idle", "next"}
  <2>1. actor' = [actor EXCEPT ![b] = O!Idle] \/ \E rest : actor' = [actor EXCEPT ![b] = [O!Idle EXCEPT !.pc = "next", !.todo = rest]]
    BY DEF O!Converge
  <2> QED
    BY <2>1, SettledCall
<1>13. CallFits(b, m)'
  BY <1>12 DEF CallFits, LoopPoints
<1>14. CallsFit'
  BY <1>2, <1>10, <1>12, <1>13, CallMovesFit DEF LoopFits
<1> QED
  BY <1>1, <1>10, <1>11, <1>14 DEF LoopFits, BundlesFit

LEMMA AskFits ==
    ASSUME O!LoopAssumption, LoopInv, LoopFits, NEW r \in Readers, NEW n \in Watched,
           O!Refresh(r, n) \/ O!GenerateEvidence(r, n)
    PROVE  LoopFits'
<1>1. UNCHANGED <<O!rows, O!results, bundle, post, lapses>>
  BY DEF O!Refresh, O!GenerateEvidence
<1>2. r \in O!Actors /\ r \notin Batches
  BY DEF O!Actors, O!LoopAssumption
<1>3. PICK m : actor' = [actor EXCEPT ![r] = m] /\ m.pc = "asked"
  <2>1. CASE O!Refresh(r, n)
    <3> PICK m : m = [O!Idle EXCEPT !.pc = "asked", !.node = n, !.class = "refresh"]
      OBVIOUS
    <3>1. m.pc = "asked"
      BY DEF O!Idle
    <3>2. actor' = [actor EXCEPT ![r] = m]
      BY <2>1 DEF O!Refresh
    <3> QED
      BY <3>1, <3>2
  <2>2. CASE O!GenerateEvidence(r, n)
    <3> PICK m : m = [O!Idle EXCEPT !.pc = "asked", !.node = n, !.class = "evidence", !.seen = projection[n]]
      OBVIOUS
    <3>1. m.pc = "asked"
      BY DEF O!Idle
    <3>2. actor' = [actor EXCEPT ![r] = m]
      BY <2>2 DEF O!GenerateEvidence
    <3> QED
      BY <3>1, <3>2
  <2> QED
    BY <2>1, <2>2
<1>4. JobsFit' /\ CountsGrow
  BY <1>1, JobsStayFit DEF LoopFits, O!rows
<1>5. CallFits(r, m)'
  BY <1>2, <1>3 DEF CallFits, LoopPoints
<1>6. CallsFit'
  BY <1>2, <1>3, <1>4, <1>5, CallMovesFit DEF LoopFits
<1> QED
  BY <1>1, <1>4, <1>6 DEF LoopFits, LooksFit, BundlesFit, O!results, O!rows

LEMMA FinishFits ==
    ASSUME O!LoopAssumption, LoopInv, LoopFits, NEW r \in Readers, O!Finish(r) PROVE LoopFits'
<1>1. UNCHANGED <<O!rows, post, lapses>> /\ actor' = [actor EXCEPT ![r] = O!Idle] /\ actor[r].pc = "answered"
  BY DEF O!Finish, O!FinishRefresh, O!WriteBundle
<1>2. r \in O!Actors /\ LookerRight(r, actor[r]) /\ CallFits(r, actor[r])
  BY DEF LoopInv, CallsRight, LoopFits, CallsFit, O!Actors
<1>3. JobsFit' /\ CountsGrow
  BY <1>1, JobsStayFit DEF LoopFits, O!rows
<1>4. CallsFit'
  BY <1>1, <1>2, <1>3, IdleFits, CallMovesFit DEF LoopFits
<1>5. LooksFit' /\ BundlesFit'
  <2>1. CASE O!FinishRefresh(r)
    <3>1. O!Persist(actor[r].node, actor[r].answer) /\ UNCHANGED bundle
      BY <2>1 DEF O!FinishRefresh
    <3> QED
      BY <1>1, <1>2, <3>1, PersistFits DEF LoopFits, LookerRight, CallFits, O!rows, BundlesFit
  <2>2. CASE O!WriteBundle(r)
    <3>1. O!ExactlyOneUpload(r) \in BOOLEAN
      BY DEF O!ExactlyOneUpload, O!PrivateReceipt, O!OperationPersisted, O!SameOperation
    <3> PICK k : k = [upload |-> O!ExactlyOneUpload(r), look |-> actor[r].answer.look]
      OBVIOUS
    <3>2. k.upload \in BOOLEAN /\ (bundle' = bundle \/ bundle' = [bundle EXCEPT ![actor[r].node] = k]) /\ UNCHANGED O!results
      BY <2>2, <3>1 DEF O!WriteBundle
    <3>3. BundlesFit'
      BY <3>2 DEF LoopFits, BundlesFit
    <3> QED
      BY <1>1, <3>2, <3>3 DEF LoopFits, LooksFit, O!results, O!rows
  <2> QED
    BY <2>1, <2>2 DEF O!Finish
<1> QED
  BY <1>1, <1>3, <1>4, <1>5 DEF LoopFits

LEMMA NodeFits ==
    ASSUME O!LoopAssumption, LoopInv, LoopFits, NEW n \in Watched,
           \/ O!Clock(n) \/ O!CompleteNode(n) \/ O!Acknowledge(n) \/ O!Resolve(n) \/ O!CancelJob(n)
           \/ O!PostMoves(n) \/ O!PostContradicts(n)
    PROVE  LoopFits'
<1>1. UNCHANGED <<O!results, bundle, actor>> /\ BundlesFit'
  BY DEF O!Clock, O!FallDue, O!Lapse, O!CompleteNode, O!Acknowledge, O!Resolve, O!CancelJob, O!PostMoves,
         O!PostContradicts, LoopFits, BundlesFit
<1>2. RowFits(job[n], tried[n]) /\ (n \notin completed => job[n].status = "absent")
  BY DEF LoopFits, JobsFit
<1>3. lapses' \in 0..Troubles
  BY DEF O!Clock, O!FallDue, O!Lapse, O!CompleteNode, O!Acknowledge, O!Resolve, O!CancelJob, O!PostMoves,
         O!PostContradicts, LoopFits, O!LoopAssumption
<1>4. ASSUME JobsFit', CountsGrow, UNCHANGED <<post, escalation>> PROVE LoopFits'
  BY <1>1, <1>3, <1>4, CallsStayFit DEF LoopFits, LooksFit, O!results
<1>5. ASSUME UNCHANGED <<completed, job, tried>>, LooksFit' PROVE LoopFits'
  BY <1>1, <1>3, <1>5, JobsStayFit, CallsStayFit DEF LoopFits
<1>6. ASSUME NEW r, RowFits(r, tried[n]), r.count = job[n].count, r.status # "absent", job' = [job EXCEPT ![n] = r],
             n \in completed', completed \subseteq completed', UNCHANGED <<tried, post, escalation>>
      PROVE  LoopFits'
  <2>1. r.count >= job[n].count
    BY <1>2, <1>6 DEF RowFits
  <2>2. JobsFit' /\ CountsGrow
    BY <1>6, <2>1, RowMovesFit DEF LoopFits
  <2> QED
    BY <1>4, <1>6, <2>2
<1>7. CASE O!CompleteNode(n)
  <2>1. completed' = completed \cup {n} /\ n \notin completed /\ UNCHANGED <<tried, escalation, post>>
    BY <1>7 DEF O!CompleteNode
  <2>2. job[n].count = 0 /\ tried[n] = {}
    BY <1>2, <2>1 DEF RowFits
  <2>3. CASE job' = [job EXCEPT ![n] = O!Pending(n)]
    <3>1. RowFits(O!Pending(n), tried[n]) /\ O!Pending(n).count = job[n].count /\ O!Pending(n).status # "absent"
      BY <2>2 DEF RowFits, O!Pending, O!NoJob, JobStates, Held
    <3> QED
      BY <1>6, <2>1, <2>3, <3>1
  <2>4. CASE UNCHANGED job
    <3>1. JobsFit' /\ CountsGrow
      BY <2>1, <2>4 DEF LoopFits, JobsFit, CountsGrow, RowFits
    <3> QED
      BY <1>4, <2>1, <3>1
  <2> QED
    BY <1>7, <2>3, <2>4 DEF O!CompleteNode
<1>8. CASE O!CancelJob(n)
  <2> PICK r : r = [job[n] EXCEPT !.status = "cancelled", !.due = FALSE, !.owner = O!None, !.lapsed = FALSE]
    OBVIOUS
  <2>1. /\ DOMAIN r = {"status", "count", "due", "owner", "lapsed"} /\ r.status = "cancelled"
        /\ r.count = job[n].count /\ r.owner = O!None
    BY <1>2 DEF RowFits
  <2>2. RowFits(r, tried[n])
    BY <1>2, <2>1 DEF RowFits, JobStates, Held, O!Parked
  <2>3. n \in completed /\ job' = [job EXCEPT ![n] = r] /\ UNCHANGED <<completed, tried, post, escalation>>
    BY <1>2, <1>8 DEF O!CancelJob
  <2> QED
    BY <1>6, <2>1, <2>2, <2>3
<1>9. CASE O!Clock(n)
  <2>1. PICK r : /\ r \in {[job[n] EXCEPT !.due = TRUE], [job[n] EXCEPT !.lapsed = TRUE]} /\ job' = [job EXCEPT ![n] = r]
                 /\ job[n].status # "absent" /\ UNCHANGED <<completed, tried, post, escalation>>
    BY <1>9 DEF O!Clock, O!FallDue, O!Lapse
  <2>2. /\ DOMAIN r = {"status", "count", "due", "owner", "lapsed"} /\ r.status = job[n].status
        /\ r.count = job[n].count /\ r.owner = job[n].owner
    BY <1>2, <2>1 DEF RowFits
  <2>3. RowFits(r, tried[n])
    BY <1>2, <2>2 DEF RowFits
  <2> QED
    BY <1>2, <1>6, <2>1, <2>2, <2>3
<1>10. CASE O!Acknowledge(n) \/ O!Resolve(n)
  <2>1. PICK to \in O!Closed \cup {"acknowledged"} : escalation' = [escalation EXCEPT ![n] = to]
    BY <1>10 DEF O!Acknowledge, O!Resolve
  <2>2. UNCHANGED <<completed, job, tried, post>>
    BY <1>10 DEF O!Acknowledge, O!Resolve
  <2>3. escalation' \in [Watched -> Escalations]
    BY <2>1 DEF LoopFits, LooksFit, Escalations
  <2> QED
    BY <1>1, <1>5, <2>2, <2>3 DEF LoopFits, LooksFit, O!results
<1>11. CASE O!PostMoves(n)
  <2>1. PICK look \in Looks : post' = [post EXCEPT ![n] = [rev |-> @.rev + 1, look |-> look]] /\ post[n].rev < MaxRevision
    BY <1>11 DEF O!PostMoves
  <2>2. [rev |-> post[n].rev + 1, look |-> look] \in Posts
    BY <2>1 DEF LoopFits, LooksFit, Posts, O!LoopAssumption
  <2>3. post' \in [Watched -> Posts] /\ UNCHANGED <<completed, job, tried, escalation>>
    BY <1>11, <2>1, <2>2 DEF LoopFits, LooksFit, O!PostMoves, O!rows
  <2> QED
    BY <1>1, <1>5, <2>3 DEF LoopFits, LooksFit, O!results
<1>12. CASE O!PostContradicts(n)
  <2>1. PICK look \in Looks : post' = [post EXCEPT ![n].look = look]
    BY <1>12 DEF O!PostContradicts
  <2>2. [post[n] EXCEPT !.look = look] \in Posts
    BY DEF LoopFits, LooksFit, Posts
  <2>3. post' \in [Watched -> Posts] /\ UNCHANGED <<completed, job, tried, escalation>>
    BY <1>12, <2>1, <2>2 DEF LoopFits, LooksFit, O!PostContradicts, O!rows
  <2> QED
    BY <1>1, <1>5, <2>3 DEF LoopFits, LooksFit, O!results
<1> QED
  BY <1>7, <1>8, <1>9, <1>10, <1>11, <1>12

LEMMA LoopFitsNext ==
    ASSUME O!LoopAssumption, LoopInv, LoopFits, [O!Next]_(O!vars) PROVE LoopFits'
<1>1. CASE O!Crash
  <2>1. UNCHANGED <<O!rows, O!results, bundle, post>> /\ lapses' \in 0..Troubles
    BY <1>1 DEF O!Crash, LoopFits, O!LoopAssumption
  <2>2. CallsFit'
    BY <1>1, IdleFits DEF O!Crash, CallsFit
  <2> QED
    BY <2>1, <2>2, JobsStayFit DEF LoopFits, LooksFit, BundlesFit, O!results, O!rows
<1>2. CASE UNCHANGED O!vars
  <2>1. JobsFit' /\ CountsGrow
    BY <1>2, JobsStayFit DEF LoopFits, O!vars
  <2> QED
    BY <1>2, <2>1, CallsStayFit DEF LoopFits, LooksFit, BundlesFit, O!vars
<1> QED
  BY <1>1, <1>2, BatchFits, BeginFits, AnswerFits, ProjectFits, ConvergeFits, AskFits, FinishFits, NodeFits
  DEF O!Next, O!Observe

(* The loop's rows keep to the columns' closed value sets, only leased jobs  *)
(* have an owner, and no attempt row is numbered beyond the job's counter,   *)
(* whoever took the lease meanwhile (autoPosterObservationService.ts).       *)
THEOREM LoopTypes == ASSUME O!LoopAssumption PROVE O!Spec => []O!TypeOK
<1>1. O!Init => LoopFits
  BY LoopFitsFirst
<1>2. LoopInv /\ LoopFits /\ [O!Next]_(O!vars) => LoopFits'
  BY LoopFitsNext
<1>3. LoopInv /\ LoopFits => O!TypeOK
  <2> SUFFICES ASSUME LoopInv, LoopFits PROVE O!TypeOK
    OBVIOUS
  <2>1. ASSUME NEW n \in Watched
        PROVE  /\ job[n].status \in O!Parked \cup {"absent", "pending", "waiting", "leased", "observing"}
               /\ (job[n].owner # O!None) = (job[n].status \in {"leased", "observing"})
               /\ tried[n] \subseteq 1..job[n].count
    BY DEF LoopFits, JobsFit, RowFits, JobStates, Held
  <2>2. ASSUME NEW n \in Watched
        PROVE  /\ escalation[n] \in O!Closed \cup {O!None, "open", "acknowledged"}
               /\ projection[n] \in O!Projections /\ post[n] \in O!Seen
               /\ evidence[n] \subseteq LoopEvents
    <3>1. post[n] \in Posts
      BY DEF LoopFits, LooksFit
    <3>2. post[n] \in O!Seen
      BY <3>1 DEF Posts, O!Seen
    <3> HIDE DEF LoopEvents
    <3> QED
      BY <3>2 DEF LoopFits, LooksFit, Escalations
  <2>3. ASSUME NEW a \in O!Actors PROVE actor[a].pc \in {"idle", "next", "asked", "answered", "projected"}
    BY DEF LoopFits, CallsFit, CallFits, LoopPoints
  <2> QED
    BY <2>1, <2>2, <2>3 DEF O!TypeOK, LoopFits, BundlesFit, LoopInv, LoopEvents
<1> QED
  BY <1>1, <1>2, <1>3, LoopKept, PTL DEF O!Spec

-------------------------------------------------------------------------------
(* The closed value sets of the graph's rows.  A request's list holds nodes   *)
(* that were all blocked, and so never tried, or none that was: a first try   *)
(* is the first, and a recovery was counted against the budget as listed.     *)
ListFits(r) ==
    /\ r.pc = "idle" => r = G!Idle
    /\ r.pc \in {"dispatch", "ready"} => \A x \in r.todo : x.was = "blocked"
    /\ \A x, y \in r.todo : x.was = "blocked" => y.was = "blocked"
    /\ \A x \in r.todo : x.was = "blocked" => x.tries = 0
TriesFit(s) == s.attempts <= MaxNodeAttempts /\ (s.status = "blocked" => s.attempts = 0)
NodesFit == \A n \in G!Nodes : TriesFit(node[n])
ListsFit == \A c \in Callers : ListFits(request[c])
CompiledFits == compiled \in Envelopes \cup {G!NoGraph} /\ G!Compiles(compiled.needs)
GraphFits == NodesFit /\ ListsFit /\ CompiledFits /\ upsets \in 0..Troubles

(* A graph without dependencies compiles: one wave consumes every node.      *)
LEMMA NoneNeeded == ASSUME G!GraphAssumption PROVE G!Compiles(G!NoGraph.needs)
<1> DEFINE deps == [n \in G!Nodes |-> {}]
           Wave(w) == w = [k \in 0..Len(Order) |-> IF k = 0 THEN {} ELSE {n \in G!Nodes : deps[n] \subseteq w[k - 1]}]
<1>1. Len(Order) \in Nat /\ (Len(Order) = 0 => G!Nodes = {})
  BY DEF G!GraphAssumption, G!Nodes, G!Range
<1>2. \E w : Wave(w)
  <2> DEFINE w == [k \in 0..Len(Order) |-> IF k = 0 THEN {} ELSE G!Nodes]
  <2>1. ASSUME NEW k \in 0..Len(Order), k # 0 PROVE {n \in G!Nodes : deps[n] \subseteq w[k - 1]} = G!Nodes
    OBVIOUS
  <2>2. Wave(w)
    BY <2>1
  <2> QED
    BY <2>2
<1>3. ASSUME NEW w, Wave(w) PROVE w[Len(Order)] = G!Nodes
  BY <1>1, <1>3
<1>4. G!Consumed(deps) = G!Nodes
  <2>1. G!Consumed(deps) = (CHOOSE w : Wave(w))[Len(Order)]
    BY DEF G!Consumed
  <2>2. Wave(CHOOSE w : Wave(w))
    BY <1>2
  <2> HIDE DEF Wave
  <2> QED
    BY <1>3, <2>1, <2>2
<1>5. G!NoGraph.needs = deps
  BY DEF G!NoGraph
<1> QED
  BY <1>4, <1>5 DEF G!Compiles

LEMMA IdleListFits == ListFits(G!Idle)
  BY DEF ListFits, G!Idle

LEMMA GraphFitsFirst == ASSUME G!GraphAssumption, G!Init PROVE GraphFits
<1>1. NodesFit
  BY DEF G!Init, NodesFit, TriesFit, G!GraphAssumption
<1>2. ListsFit
  BY IdleListFits DEF G!Init, ListsFit
<1>3. CompiledFits
  BY NoneNeeded DEF G!Init, CompiledFits
<1> QED
  BY <1>1, <1>2, <1>3 DEF GraphFits, G!Init, G!GraphAssumption

(* The list of one request changes.                                         *)
LEMMA ListChanges ==
    ASSUME GraphInv, ListsFit, NEW c \in Callers, NEW r, request' = [request EXCEPT ![c] = r], ListFits(r)
    PROVE  ListsFit'
  BY DEF GraphInv, ListsFit

(* A request turns to another point with the list it has.                   *)
LEMMA TurnsFit ==
    ASSUME GraphInv, ListsFit, NEW c \in Callers, NEW pc, pc # "idle",
           pc \in {"dispatch", "ready"} => request[c].pc = "dispatch", G!Go(c, pc) \/ G!Await(c, pc)
    PROVE  ListsFit'
<1> PICK r : r = [request[c] EXCEPT !.pc = pc]
  OBVIOUS
<1>1. r.pc = pc /\ r.todo = request[c].todo
  BY DEF GraphInv, Lists
<1>2. ListFits(r)
  BY <1>1 DEF ListsFit, ListFits
<1>3. request' = [request EXCEPT ![c] = r]
  BY DEF G!Go, G!Await
<1> QED
  BY <1>2, <1>3, ListChanges

LEMMA LeavesFit == ASSUME GraphInv, ListsFit, NEW c \in Callers, G!Leave(c) PROVE ListsFit'
  BY IdleListFits, ListChanges DEF G!Leave

LEMMA ProceedsFit ==
    ASSUME G!GraphAssumption, GraphInv, ListsFit, NEW c \in Callers, Busy(c), G!Proceed(c)
    PROVE  ListsFit'
<1>1. request' = [request EXCEPT ![c] =
        IF request[c].todo # {G!Item(c)} THEN [pc |-> IF G!Item(c).was = "blocked" THEN "dispatch" ELSE "recover",
                                               todo |-> request[c].todo \ {G!Item(c)}]
        ELSE [G!Idle EXCEPT !.pc = "pass"]]
  BY DEF G!Proceed
<1>2. G!Item(c) \in request[c].todo /\ ListFits(request[c])
  BY ItemFacts DEF Busy, ListsFit
<1>3. CASE request[c].todo # {G!Item(c)}
  <2> PICK r : r = [pc |-> IF G!Item(c).was = "blocked" THEN "dispatch" ELSE "recover",
                    todo |-> request[c].todo \ {G!Item(c)}]
    OBVIOUS
  <2>1. r.pc = (IF G!Item(c).was = "blocked" THEN "dispatch" ELSE "recover") /\ r.todo = request[c].todo \ {G!Item(c)}
    OBVIOUS
  <2>2. ListFits(r)
    BY <1>2, <2>1 DEF ListFits
  <2> QED
    BY <1>1, <1>3, <2>2, ListChanges
<1>4. CASE request[c].todo = {G!Item(c)}
  <2> PICK r : r = [G!Idle EXCEPT !.pc = "pass"]
    OBVIOUS
  <2>1. r.pc = "pass" /\ r.todo = {}
    BY DEF G!Idle
  <2>2. ListFits(r)
    BY <2>1 DEF ListFits
  <2> QED
    BY <1>1, <1>4, <2>2, ListChanges
<1> QED
  BY <1>3, <1>4

LEMMA OnwardsFit ==
    ASSUME G!GraphAssumption, GraphInv, ListsFit, NEW c \in Callers, Busy(c),
           \/ \E pc \in {"judge", "heal", "create", "approve", "approving", "resuming", "reconciling"} : G!Go(c, pc) \/ G!Await(c, pc)
           \/ G!Leave(c) \/ G!Proceed(c)
    PROVE  ListsFit'
  BY TurnsFit, LeavesFit, ProceedsFit

(* What a request lists, it lists as it is.                                 *)
LEMMA ListedFit ==
    ASSUME GraphInv, NodesFit, ListsFit, NEW c \in Callers, NEW chosen \in SUBSET G!Nodes, NEW pc,
           pc # "idle", \A n \in chosen : node[n].status = "blocked" <=> pc = "dispatch", pc # "ready",
           request' = [request EXCEPT ![c] = [pc |-> pc, todo |-> G!Listed(chosen)]]
    PROVE  ListsFit'
<1> PICK r : r = [pc |-> pc, todo |-> G!Listed(chosen)]
  OBVIOUS
<1>1. r.pc = pc /\ r.todo = G!Listed(chosen)
  OBVIOUS
<1>2. ASSUME NEW x \in r.todo PROVE (x.was = "blocked" <=> pc = "dispatch") /\ (x.was = "blocked" => x.tries = 0)
  <2>1. PICK n \in chosen : x = [id |-> n, was |-> node[n].status, tries |-> node[n].attempts]
    BY <1>1, <1>2 DEF G!Listed
  <2>2. x.was = node[n].status /\ x.tries = node[n].attempts
    BY <2>1
  <2> QED
    BY <2>2 DEF NodesFit, TriesFit
<1>3. ListFits(r)
  BY <1>1, <1>2 DEF ListFits
<1> QED
  BY <1>3, ListChanges

(* A node's status moves, and not back to blocked; or it is claimed.        *)
LEMMA BecomesFit ==
    ASSUME GraphInv, NodesFit, NEW n \in G!Nodes, NEW to, to # "blocked", G!Become(n, to)
    PROVE  NodesFit'
<1> PICK s : s = [node[n] EXCEPT !.status = to]
  OBVIOUS
<1>1. s.status = to /\ s.attempts = node[n].attempts
  BY DEF GraphInv, NodeRows
<1>2. node' = [node EXCEPT ![n] = s]
  BY DEF G!Become
<1> QED
  BY <1>1, <1>2 DEF GraphInv, NodesFit, TriesFit

LEMMA ClaimsFit ==
    ASSUME GraphInv, NodesFit, NEW n \in G!Nodes, NEW tries, tries + 1 <= MaxNodeAttempts, G!Claim(n, tries)
    PROVE  NodesFit'
<1> PICK s : s = [status |-> "running", attempts |-> tries + 1]
  OBVIOUS
<1>1. s.status = "running" /\ s.attempts = tries + 1
  OBVIOUS
<1>2. node' = [node EXCEPT ![n] = s]
  BY DEF G!Claim
<1> QED
  BY <1>1, <1>2 DEF GraphInv, NodesFit, TriesFit

LEMMA WithdrawsFit == ASSUME GraphInv, NodesFit, node' = G!Withdrawn PROVE NodesFit'
<1>1. ASSUME NEW n \in G!Nodes PROVE TriesFit(node'[n])
  <2>1. node[n] \in NodeRows /\ TriesFit(node[n])
    BY DEF GraphInv, NodesFit
  <2>2. node'[n] = node[n] \/ node'[n] = [node[n] EXCEPT !.status = "cancelled"]
    BY DEF G!Withdrawn
  <2> QED
    BY <2>1, <2>2 DEF TriesFit, NodeRows
<1> QED
  BY <1>1 DEF NodesFit

LEMMA StaysFit == ASSUME NodesFit, UNCHANGED node PROVE NodesFit'
  BY DEF NodesFit

LEMMA OutcomeFits == ASSUME GraphInv, NodesFit, NEW n \in G!Nodes, G!Become(n, G!Outcome(n)) PROVE NodesFit'
  BY SyncedFacts, BecomesFit

(* One lemma for each action that touches nodes or lists.                   *)
LEMMA ApplyFits ==
    ASSUME G!GraphAssumption, GraphInv, NodesFit, ListsFit, NEW c \in Callers, Busy(c),
           NEW to, to # "blocked", G!Apply(c, to) \/ G!RecordError(c, to)
    PROVE  NodesFit' /\ ListsFit'
<1>1. G!Item(c).id \in G!Nodes
  BY ItemFacts DEF Busy
<1>2. NodesFit'
  BY <1>1, BecomesFit, StaysFit DEF G!Apply, G!RecordError
<1>3. ListsFit'
  BY OnwardsFit DEF G!Apply, G!RecordError, G!Judge
<1> QED
  BY <1>2, <1>3

LEMMA ApproveChildFits ==
    ASSUME G!GraphAssumption, GraphInv, NodesFit, ListsFit, NEW c \in Callers, Busy(c), G!ApproveChild(c)
    PROVE  NodesFit' /\ ListsFit'
<1>1. G!Item(c).id \in G!Nodes
  BY ItemFacts DEF Busy
<1>2. \/ G!Await(c, "approving") /\ UNCHANGED node
      \/ \E to \in {"completed", "failed_terminal", "failed_recoverable"} : G!Apply(c, to) \/ G!RecordError(c, to)
  BY <1>1, SyncedFacts DEF G!ApproveChild
<1> QED
  BY <1>2, ApplyFits, OnwardsFit, StaysFit

LEMMA TerminateFits ==
    ASSUME GraphInv, NodesFit, ListsFit, NEW c \in Callers, G!Terminate(c) \/ G!Park(c)
    PROVE  NodesFit' /\ ListsFit'
  BY LeavesFit, WithdrawsFit, StaysFit DEF G!Terminate, G!Park

LEMMA PassFits ==
    ASSUME G!GraphAssumption, GraphInv, NodesFit, ListsFit, NEW c \in Callers,
           \/ G!BeginRunning(c) \/ (\E n \in G!Nodes : G!SyncNode(c, n)) \/ G!EndPass(c) \/ G!FailPass(c)
           \/ G!CompleteGraph(c) \/ G!StartWave(c)
    PROVE  NodesFit' /\ ListsFit'
<1>1. CASE G!BeginRunning(c)
  BY <1>1 DEF G!BeginRunning, NodesFit, ListsFit
<1>2. ASSUME NEW n \in G!Nodes, G!SyncNode(c, n) PROVE NodesFit' /\ ListsFit'
  BY <1>2, OutcomeFits DEF G!SyncNode, ListsFit
<1>3. CASE G!EndPass(c) \/ G!CompleteGraph(c)
  BY <1>3, LeavesFit, StaysFit DEF G!EndPass, G!CompleteGraph
<1>4. CASE G!FailPass(c)
  BY <1>4, TerminateFits DEF G!FailPass
<1>5. CASE G!StartWave(c)
  <2>1. G!Ready \in SUBSET G!Nodes /\ \A n \in G!Ready : node[n].status = "blocked"
    BY DEF G!Ready
  <2> QED
    BY <1>5, <2>1, ListedFit, StaysFit DEF G!StartWave
<1> QED
  BY <1>1, <1>2, <1>3, <1>4, <1>5

LEMMA DispatchFits ==
    ASSUME G!GraphAssumption, GraphInv, NodesFit, ListsFit, NEW c \in Callers,
           \/ G!MarkReady(c) \/ G!MarkRunning(c) \/ G!CreateChild(c) \/ G!CreateFails(c) \/ G!EnterApproval(c) \/ G!JudgeNode(c)
    PROVE  NodesFit' /\ ListsFit'
<1>1. Busy(c)
  BY DEF G!MarkReady, G!MarkRunning, G!CreateChild, G!CreateFails, G!EnterApproval, G!JudgeNode, G!At, G!Back,
         Busy, Holding, Awaiting
<1>2. G!Item(c) \in request[c].todo /\ G!Item(c).id \in G!Nodes /\ ListFits(request[c])
  BY <1>1, ItemFacts DEF Busy, ListsFit
<1>3. CASE G!MarkReady(c)
  BY <1>2, <1>3, BecomesFit, StaysFit, TurnsFit, LeavesFit DEF G!MarkReady, G!At
<1>4. CASE G!MarkRunning(c)
  <2>1. G!Item(c).tries = 0
    BY <1>2, <1>4 DEF G!MarkRunning, G!At, ListFits
  <2>2. G!Item(c).tries + 1 <= MaxNodeAttempts
    BY <2>1 DEF G!GraphAssumption
  <2> QED
    BY <1>1, <1>2, <1>4, <2>2, ClaimsFit, OnwardsFit DEF G!MarkRunning
<1>5. CASE G!CreateChild(c)
  BY <1>1, <1>5, OnwardsFit, StaysFit DEF G!CreateChild
<1>6. CASE G!CreateFails(c)
  BY <1>1, <1>6, ApplyFits DEF G!CreateFails
<1>7. CASE G!EnterApproval(c)
  BY <1>1, <1>7, ApproveChildFits DEF G!EnterApproval
<1>8. CASE G!JudgeNode(c)
  BY <1>1, <1>8, TerminateFits, OnwardsFit, StaysFit DEF G!JudgeNode
<1> QED
  BY <1>3, <1>4, <1>5, <1>6, <1>7, <1>8

LEMMA RecoveryFits ==
    ASSUME G!GraphAssumption, GraphInv, NodesFit, ListsFit, NEW c \in Callers,
           G!ClaimRecovery(c) \/ G!Heal(c) \/ G!ChildAnswers(c)
    PROVE  NodesFit' /\ ListsFit'
<1>1. Busy(c)
  BY DEF G!ClaimRecovery, G!Heal, G!ChildAnswers, G!At, G!Back, Busy, Holding, Awaiting
<1>2. G!Item(c) \in Items /\ G!Item(c).id \in G!Nodes
  BY <1>1, ItemFacts DEF Busy
<1>3. G!Outcome(G!Item(c).id) \in {"completed", "failed_terminal", "failed_recoverable"}
  BY <1>2, SyncedFacts
<1>4. CASE G!ClaimRecovery(c)
  <2>1. CASE UNCHANGED node /\ (G!Go(c, "heal") \/ G!Leave(c))
    BY <1>1, <2>1, OnwardsFit, StaysFit
  <2>2. CASE G!Become(G!Item(c).id, "failed_terminal") /\ G!Proceed(c)
    BY <1>1, <1>2, <2>2, OnwardsFit, BecomesFit
  <2>3. CASE ~G!BudgetSpent(c) /\ G!Claim(G!Item(c).id, G!Item(c).tries) /\ G!Go(c, "heal")
    <3>1. G!Item(c).tries + 1 <= MaxNodeAttempts
      BY <1>2, <2>3 DEF G!BudgetSpent, Items, G!GraphAssumption
    <3> QED
      BY <1>1, <1>2, <2>3, <3>1, ClaimsFit, OnwardsFit
  <2> QED
    BY <1>4, <2>1, <2>2, <2>3 DEF G!ClaimRecovery
<1>5. CASE G!Heal(c)
  BY <1>1, <1>3, <1>5, ApproveChildFits, ApplyFits, OnwardsFit, StaysFit DEF G!Heal
<1>6. CASE G!ChildAnswers(c)
  BY <1>1, <1>3, <1>6, ApplyFits, OnwardsFit, StaysFit DEF G!ChildAnswers
<1> QED
  BY <1>4, <1>5, <1>6

LEMMA RequestFits ==
    ASSUME G!GraphAssumption, GraphInv, NodesFit, ListsFit, NEW c \in Callers, G!ApproveGraph(c) \/ G!ResumeGraph(c)
    PROVE  NodesFit' /\ ListsFit'
<1>1. CASE G!ApproveGraph(c)
  BY <1>1, TurnsFit, StaysFit DEF G!ApproveGraph
<1>2. CASE G!ResumeGraph(c)
  <2> DEFINE open == {n \in G!Nodes : node[n].status \in {"running", "failed_recoverable"}}
  <2>1. PICK pc \in {"pass", "recover"} : request' = [request EXCEPT ![c] = [pc |-> pc, todo |-> G!Listed(open)]]
    BY <1>2 DEF G!ResumeGraph
  <2>2. open \in SUBSET G!Nodes /\ \A n \in open : node[n].status # "blocked"
    OBVIOUS
  <2>3. UNCHANGED node
    BY <1>2 DEF G!ResumeGraph
  <2>4. ListsFit'
    <3> HIDE DEF open
    <3> QED
      BY <2>1, <2>2, ListedFit
  <2> QED
    BY <2>3, <2>4, StaysFit
<1> QED
  BY <1>1, <1>2

LEMMA GraphFitsNext ==
    ASSUME G!GraphAssumption, GraphInv, GraphFits, [G!Next]_(G!vars) PROVE GraphFits'
<1>1. CASE UNCHANGED <<node, request, compiled, upsets>>
  BY <1>1 DEF GraphFits, NodesFit, ListsFit, CompiledFits
<1>2. ASSUME NEW c \in Callers, G!ApproveGraph(c) \/ G!ResumeGraph(c) \/ G!Serve(c) PROVE GraphFits'
  <2>1. NodesFit' /\ ListsFit'
    BY <1>2, RequestFits, PassFits, DispatchFits, RecoveryFits DEF G!Serve, GraphFits
  <2>2. UNCHANGED <<compiled, upsets>>
    BY <1>2 DEF G!ApproveGraph, G!ResumeGraph, G!Serve, G!BeginRunning, G!SyncNode, G!EndPass, G!FailPass, G!CompleteGraph,
                G!StartWave, G!MarkReady, G!MarkRunning, G!CreateChild, G!CreateFails, G!EnterApproval, G!JudgeNode,
                G!ClaimRecovery, G!Heal, G!ChildAnswers
  <2> QED
    BY <2>1, <2>2 DEF GraphFits, CompiledFits
<1>3. ASSUME NEW e \in Envelopes, G!SubmitGraph(e) PROVE GraphFits'
  BY <1>3 DEF G!SubmitGraph, GraphFits, NodesFit, ListsFit, CompiledFits
<1>4. upsets < Troubles /\ upsets' = upsets + 1 /\ upsets \in 0..Troubles => upsets' \in 0..Troubles
  BY DEF G!GraphAssumption
<1>5. CASE G!CancelGraph
  BY <1>4, <1>5, WithdrawsFit DEF G!CancelGraph, GraphFits, ListsFit, CompiledFits
<1>6. CASE G!Crash
  BY <1>4, <1>6, StaysFit, IdleListFits DEF G!Crash, GraphFits, ListsFit, CompiledFits
<1>7. ASSUME NEW n \in G!Nodes, G!ChildMoves(n) PROVE GraphFits'
  BY <1>1, <1>7 DEF G!ChildMoves
<1> QED
  BY <1>1, <1>2, <1>3, <1>5, <1>6, <1>7 DEF G!Next, G!vars

(* The graph's rows keep to their closed value sets: what was compiled        *)
(* compiles, no node is tried more often than its budget, and a request that *)
(* is not at its pass has something left to do, however requests interleave  *)
(* (missionGraphService.ts, missionGraphJournal.ts).                          *)
THEOREM GraphTypes == ASSUME G!GraphAssumption PROVE G!Spec => []G!TypeOK
<1>1. G!Init => GraphFits
  BY GraphFitsFirst
<1>2. GraphInv /\ GraphFits /\ [G!Next]_(G!vars) => GraphFits'
  BY GraphFitsNext
<1>3. GraphInv /\ GraphFits => G!TypeOK
  <2> SUFFICES ASSUME GraphInv, GraphFits PROVE G!TypeOK
    OBVIOUS
  <2>1. graph \in DOMAIN G!GraphNext
    BY GraphNextTable DEF GraphInv, GraphStates, G!GraphNext
  <2>2. node \in [G!Nodes -> [status : DOMAIN G!NodeNext, attempts : 0..MaxNodeAttempts]]
    <3>1. DOMAIN G!NodeNext = NodeStates
      BY DEF G!NodeNext, NodeStates
    <3>2. \A n \in G!Nodes : node[n] \in [status : DOMAIN G!NodeNext, attempts : 0..MaxNodeAttempts]
      BY <3>1 DEF GraphInv, GraphFits, NodesFit, TriesFit, NodeRows, G!GraphAssumption
    <3>3. node \in [G!Nodes -> NodeRows]
      BY DEF GraphInv
    <3> HIDE DEF NodeRows
    <3> QED
      BY <3>2, <3>3
  <2>3. ASSUME NEW c \in Callers, request[c] # G!Idle, request[c].pc # "pass" PROVE request[c].todo # {}
    BY <2>3 DEF GraphInv, GraphFits, ListsFit, ListFits, ListRight, Lists
  <2> QED
    BY <2>1, <2>2, <2>3 DEF G!TypeOK, GraphInv, GraphFits, CompiledFits, Children
<1> QED
  BY <1>1, <1>2, <1>3, GraphKept, PTL DEF G!Spec

-------------------------------------------------------------------------------
(* The command's row, its graph and its mission keep to their closed value     *)
(* sets (osMissionControlService.ts, db/schema.ts).                            *)
THEOREM CommandTypes == ASSUME P!PlatformAssumption PROVE P!OsSpec => []P!OsTypeOK
<1> DEFINE Bounds == hour \in 0..MaxClock /\ mishaps \in 0..Troubles
<1>0. MaxClock \in Nat /\ Troubles \in Nat
  BY DEF P!PlatformAssumption
<1>1. P!OsInit => Bounds
  BY <1>0 DEF P!OsInit, P!Init
<1>2. Bounds /\ [P!OsNext]_(P!osVars) => Bounds'
  <2> SUFFICES ASSUME Bounds, [P!OsNext]_(P!osVars) PROVE Bounds'
    OBVIOUS
  <2>1. CASE UNCHANGED <<hour, mishaps>>
    BY <2>1
  <2>2. ASSUME NEW c \in Callers,
               \/ \E b \in Submitted : P!Submit(c, b)
               \/ P!Insert(c) \/ P!ValidationFails(c) \/ P!SubmitGraph(c) \/ P!Bind(c)
               \/ P!Execute(c) \/ P!Approve(c) \/ P!Answered(c) \/ P!AnsweredAgain(c) \/ P!Link(c) \/ P!Evidence(c)
        PROVE  UNCHANGED <<hour, mishaps>>
    BY <2>2 DEF P!Submit, P!Insert, P!ValidationFails, P!SubmitGraph, P!Bind, P!Execute, P!Approve, P!Answered,
                P!AnsweredAgain, P!Link, P!Evidence
  <2>3. CASE P!UsedElsewhere \/ P!Crash \/ P!OsStop \/ P!Tick
    BY <1>0, <2>3 DEF P!UsedElsewhere, P!Crash, P!OsStop, P!Tick
  <2>4. CASE P!GraphAdvances \/ P!ChildCreated \/ P!ChildMoves \/ P!OsReconcile \/ P!OsDirect
    BY <2>4 DEF P!GraphAdvances, P!GraphMoves, P!ChildCreated, P!ChildMoves, P!OsReconcile, P!OsDirect, P!vars
  <2>5. CASE UNCHANGED P!osVars
    BY <2>1, <2>5 DEF P!osVars
  <2> HIDE DEF Bounds
  <2> QED
    BY <2>1, <2>2, <2>3, <2>4, <2>5 DEF P!OsNext
<1>3. PlatformInv /\ ChildInv /\ Bounds => P!OsTypeOK
  <2> SUFFICES ASSUME PlatformInv, ChildInv, Bounds PROVE P!OsTypeOK
    OBVIOUS
  <2>1. {command.bound, command.evidence, carrier.links} \subseteq BOOLEAN
    BY Zenon DEF PlatformInv, CommandRows, CarrierGraphs
  <2>2. /\ command.payload \in Submitted \cup {Unset}
        /\ command.lifecycle \in {"absent", "accepted", "approval_required", "executing", "failed_recoverable", "completed", "failed"}
        /\ command.product \in {"not_started", "recovery_required", "draft_created", "failed"}
        /\ command.draft \in {"required", "approved"}
        /\ carrier.status \in P!Going \cup {"absent", "approval_required", "completed", "failed_terminal", "cancelled"}
        /\ carrier.payload \in Submitted \cup {Unset} /\ carrier.by \in {"nobody", "actor", "other"}
    BY DEF PlatformInv, CommandRows, CarrierGraphs
  <2> QED
    BY <2>1, <2>2 DEF P!OsTypeOK, P!TypeOK, ChildInv, ChildRecords
<1> HIDE DEF Bounds
<1> QED
  BY <1>1, <1>2, <1>3, CommandKept, PTL DEF P!OsSpec

-------------------------------------------------------------------------------
(* Beside the others every service keeps its tables and its calls in flight   *)
(* to the value sets its module lists.                                        *)
THEOREM EveryTypeCorrect == ServicesSpec => []EveryTypeOK
<1>1. ServicesInit => G!Init /\ P!OsInit
  BY DEF ServicesInit
<1>2. ServicesSpec => G!Spec /\ P!OsSpec
  BY <1>1, GraphSteps, CommandSteps, PTL DEF ServicesSpec, G!Spec, P!OsSpec
<1>3. Spec => []TypeOK
  BY ServicesAssumption, IntakeTypeCorrect
<1>4. A!Spec => []A!TypeOK
  BY ServicesAssumption, AuthorityTypes
<1>5. O!Spec => []O!TypeOK
  BY ServicesAssumption, LoopTypes
<1>6. G!Spec => []G!TypeOK
  BY ServicesAssumption, GraphTypes
<1>7. M!Spec => []M!TypeOK
  BY ServicesAssumption, M!GenericTypeCorrect
<1>8. P!OsSpec => []P!OsTypeOK
  BY ServicesAssumption, CommandTypes
<1>9. T!Spec => []T!TypeOK
  BY ServicesAssumption, T!BoardTypes
<1>10. R!Spec => []R!TypeOK
  BY ServicesAssumption, RunTypes
<1>11. D!Spec => []D!TypeOK
  BY ServicesAssumption, DatabaseTypes
<1>12. S!Spec => []S!TypeOK
  BY ServicesAssumption, ScheduleTypes
<1>13. L!Spec => [](L!TypeOK /\ L!LogsAreHistories)
  BY ServicesAssumption, L!LogsCorrect
<1>14. I!Spec => []I!TypeOK
  BY ServicesAssumption, IntentTypes
<1>15. C!Spec => []C!TypeOK
  BY ServicesAssumption, C!CloseoutTypeCorrect
<1> QED
  BY <1>2, <1>3, <1>4, <1>5, <1>6, <1>7, <1>8, <1>9, <1>10, <1>11, <1>12, <1>13, <1>14, <1>15, EachRuns, CloseoutsRun,
     PTL
  DEF EveryTypeOK

(* What the runs check of the one service whose requests arrive follows.      *)
THEOREM ServicesTypeCorrect == MCSpec => []ServicesTypeOK
<1>1. MCInit => ServicesInit
  BY DEF MCInit
<1>2. [MCNext]_<<focus, tables>> => [ServicesNext]_tables
  BY DEF MCNext, ServicesNext
<1>3. EveryTypeOK => ServicesTypeOK
  BY DEF EveryTypeOK, ServicesTypeOK
<1> QED
  BY <1>1, <1>2, <1>3, EveryTypeCorrect, PTL DEF MCSpec, ServicesSpec
===================================================================================
