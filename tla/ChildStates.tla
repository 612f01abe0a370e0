------------------------------ MODULE ChildStates -------------------------------
(***************************************************************************)
(* The durable execution states of a child mission, whichever service runs *)
(* it (missions/genericMissionJournal.ts, as missionGraphChildDispatcher   *)
(* .ts presents them), and the moves between them.                         *)
(*                                                                         *)
(* execution_started and downstream_request_prepared are one state here    *)
(* ("prepared"), downstream_result_observed and result_persisted another   *)
(* ("observed"): the graph treats the members of a pair alike.             *)
(***************************************************************************)
NoOne == "none"
Absent == [state |-> "absent", by |-> NoOne]

States ==
  {"absent", "approval_required", "approved", "prepared", "observed", "recoverable",
   "recovering", "unresolved", "completed", "terminal"}

(* Where one step of the child's own service, whoever called it, may take it. *)
Moves ==
  [absent |-> {"approval_required"},
   approval_required |-> {"approved"},
   approved |-> {"prepared", "terminal"},
   prepared |-> {"observed", "recoverable", "terminal", "unresolved", "recovering"},
   observed |-> {"completed", "prepared", "recoverable", "terminal", "unresolved", "recovering"},
   recoverable |-> {"prepared", "recovering", "terminal"},
   recovering |-> {"prepared", "observed", "recoverable", "terminal", "unresolved"},
   unresolved |-> {"recovering", "terminal"},
   completed |-> {}, terminal |-> {}]

(* The approval is bound once, on the way out of approval_required.         *)
Moved(c, to, by) ==
  [state |-> to, by |-> IF c.state = "approval_required" /\ to = "approved" THEN by ELSE c.by]
=================================================================================
