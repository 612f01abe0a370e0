----------------------------- MODULE GraphLifecycle -----------------------------
(***************************************************************************)
(* The status of a mission graph (missions/missionGraphJournal.ts),        *)
(* whoever moves it: where it may go from where it is, and where a request *)
(* that is executing its nodes may still find it.                          *)
(***************************************************************************)
(* The journal refuses a transition its table does not list.                *)
GraphNext ==
  [absent |-> {}, approval_required |-> {"approved", "cancelled"}, approved |-> {"running", "cancelled"},
   running |-> {"completed", "failed_recoverable", "failed_terminal", "cancelled"},
   failed_recoverable |-> {"running", "failed_terminal", "cancelled"},
   completed |-> {}, failed_terminal |-> {}, cancelled |-> {}]

(* A node's mission is created after an await, during which another request *)
(* may have failed the graph, or parked it and then cancelled it.           *)
Begun == {"running", "failed_recoverable", "failed_terminal", "cancelled"}
=================================================================================
