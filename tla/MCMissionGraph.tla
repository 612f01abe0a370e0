----------------------------- MODULE MCMissionGraph -----------------------------
(* A chain of two generic nodes, for the graph that no resume brings to its end. *)
EXTENDS MissionGraph

MCOrder == <<"a", "b">>
Chain == {[needs |-> [a |-> {}, b |-> {"a"}], lane |-> [a |-> "generic", b |-> "generic"], proven |-> {}]}
=================================================================================
