------------------------------ MODULE ChildMission ------------------------------
(***************************************************************************)
(* What the mission graph relies on in a child mission: it moves only as   *)
(* ChildStates says, and its approval is bound once.  MissionGraph.tla is  *)
(* built on it; GenericMission.tla and AutoPosterMission.tla refine it.    *)
(***************************************************************************)
EXTENDS ChildStates

CONSTANT ChildApprovers     \* whose approval a mission may carry
VARIABLE child

Init == child = Absent
Step == \E to \in Moves[child.state], by \in ChildApprovers : child' = Moved(child, to, by)
Spec == Init /\ [][Step]_child
(* The same, of one that was created already.                               *)
Created == child = [state |-> "approval_required", by |-> NoOne]
SpecOnceCreated == Created /\ [][Step]_child
=================================================================================
