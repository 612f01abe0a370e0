------------------------------ MODULE GraphPromise ------------------------------
(***************************************************************************)
(* What the services above rely on in a mission graph: its status moves as *)
(* the journal's table says; it completes only with the missions of all    *)
(* its nodes; and a mission exists only once the graph has begun and then  *)
(* moves as ChildStates says.  MissionGraph.tla refines it, and so does    *)
(* OsControl.tla, which takes the graph of a Platform command to be one.   *)
(***************************************************************************)
EXTENDS GraphLifecycle, ChildStates

CONSTANT Nodes
VARIABLES status,     \* of the graph
          missions    \* the state of each node's mission

Init == status = "absent" /\ missions = [n \in Nodes |-> "absent"]

Submit == status = "absent" /\ status' = "approval_required" /\ UNCHANGED missions
Advance ==
  /\ status' \in GraphNext[status] /\ UNCHANGED missions
  /\ status' = "completed" => \A n \in Nodes : missions[n] = "completed"
Carry ==
  /\ \E n \in Nodes : \E to \in Moves[missions[n]] :
       /\ missions[n] = "absent" => status \in Begun
       /\ missions' = [missions EXCEPT ![n] = to]
  /\ UNCHANGED status

Spec == Init /\ [][Submit \/ Advance \/ Carry]_<<status, missions>>
=================================================================================
