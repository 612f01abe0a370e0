------------------------------- MODULE OsControl --------------------------------
(***************************************************************************)
(* The Platform and direct lanes of the OS mission control plane           *)
(* (os/osMissionControlService.ts over os/osMissionContract.ts).           *)
(*                                                                         *)
(* The OS keeps no state.  Its verbs are the lane's own operations, and    *)
(* what it says of a mission is read off three records that are written by *)
(* three services: the command's row and its graph (PlatformCommand) and   *)
(* the AutoPoster mission under the graph's node, which moves as           *)
(* ChildStates says, whoever calls it.                                     *)
(***************************************************************************)
EXTENDS PlatformCommand

C == INSTANCE ChildStates

VARIABLE child   \* that mission: its state, whether looking or trying again may still
                 \* help, whether a person stopped it, and which lane's verb moved it last

osVars == <<row, graph, call, clock, troubles, child>>

OsInit == Init /\ child = [state |-> "absent", again |-> FALSE, stopped |-> FALSE, lane |-> "none"]

-------------------------------------------------------------------------------
(* What the OS says.  Its states are those of the execution journal, with   *)
(* two pairs read alike and a human stop told from a failure.               *)

OsStateFromExecutionState(state, stopped) ==
  CASE state \in {"downstream_result_observed", "result_persisted"} -> "downstream_result_observed"
    [] state \in {"recovery_in_progress", "failed_recoverable"} -> "failed_recoverable"
    [] state = "failed_terminal" -> IF stopped THEN "stopped" ELSE "failed_terminal"
    [] OTHER -> state
OsStateFromGraphState(status) ==
  CASE status = "running" -> "execution_started" [] status = "cancelled" -> "stopped" [] OTHER -> status
OsTerminal == {"completed", "failed_terminal", "stopped"}

(* The child's journal state, by the name ChildStates gives its pair.       *)
Journaled ==
  [approval_required |-> "approval_required", approved |-> "approved",
   prepared |-> "downstream_request_prepared", observed |-> "downstream_result_observed",
   recoverable |-> "failed_recoverable", recovering |-> "recovery_in_progress",
   unresolved |-> "reconciliation_required", completed |-> "completed", terminal |-> "failed_terminal"]

(* A command without its graph shows no child, though one may exist.        *)
Shown == row.bound /\ child.state # "absent"
Graph == IF row.bound THEN graph.status ELSE "none"
ChildPermits ==
  CASE child.state = "approved" -> {"resume", "stop"}
    [] child.state = "prepared" -> {"reconcile", "stop"}
    [] child.state = "observed" -> {"resume"}
    [] child.state = "recoverable" -> {"reconcile", "stop"} \cup IF child.again THEN {"resume"} ELSE {}
    [] child.state = "unresolved" -> {"stop"} \cup IF child.again THEN {"reconcile"} ELSE {}
    [] child.state = "recovering" -> {"reconcile"}
    [] OTHER -> {}
ChildOwnsExecution == Shown /\ child.state \notin {"completed", "terminal"}

(* How far execution got, by the deepest record there is; a recorded        *)
(* failure gives way only to something worse.                               *)
Reached == CASE Shown -> OsStateFromExecutionState(Journaled[child.state], child.stopped)
             [] ~Shown /\ row.bound -> OsStateFromGraphState(graph.status)
             [] OTHER -> "approved"
PlatformStatus ==
  CASE Graph = "cancelled" -> "stopped"
    [] Graph # "cancelled" /\ row.lifecycle = "accepted" -> "submitted"
    [] Graph # "cancelled" /\ row.lifecycle = "failed" -> "failed_terminal"
    [] Graph # "cancelled" /\ row.lifecycle = "executing" -> Reached
    [] Graph # "cancelled" /\ row.lifecycle = "failed_recoverable" ->
         IF Reached \in {"reconciliation_required", "failed_terminal", "stopped"} THEN Reached
         ELSE "failed_recoverable"
    [] OTHER -> row.lifecycle

PlatformActionsAlways ==                     \* seeded fault: resume on top of what the child permits
  CASE PlatformStatus = "approval_required" -> {"approve"}
    [] PlatformStatus \in OsTerminal \cup {"submitted"} -> {}
    [] OTHER -> {"resume", "stop"} \cup IF ChildOwnsExecution THEN ChildPermits ELSE {}
PlatformActions ==
  CASE PlatformStatus = "approval_required" -> {"approve"}
    [] PlatformStatus \in OsTerminal \cup {"submitted"} -> {}
    [] PlatformStatus \notin OsTerminal \cup {"submitted", "approval_required"} ->
         IF ChildOwnsExecution THEN ChildPermits \cup {"stop"} ELSE {"resume", "stop"}
EvidenceStatus ==
  CASE PlatformStatus = "completed" -> IF row.evidence THEN "authoritative" ELSE "pending"
    [] PlatformStatus \in {"failed_terminal", "stopped"} -> "failed"
    [] PlatformStatus \in {"failed_recoverable", "reconciliation_required"} -> "reconciliation_required"
    [] OTHER -> "pending"

-------------------------------------------------------------------------------
(* The verbs.  Submit is the command's own; approve and resume both execute *)
(* it; the other two go to its mission and to its graph.                    *)

OsReconcile ==
  /\ Shown /\ "reconcile" \in ChildPermits /\ "recovering" \in C!Moves[child.state]
  /\ child' = [child EXCEPT !.state = "recovering", !.again = FALSE, !.lane = "platform"]
  /\ UNCHANGED vars
OsStop ==
  /\ row.bound /\ "cancelled" \in GraphNext[graph.status] /\ troubles < MaxTroubles
  /\ graph' = [graph EXCEPT !.status = "cancelled"] /\ troubles' = troubles + 1
  /\ UNCHANGED <<row, call, clock, child>>

(* The graph's node creates the mission and completes only with it.         *)
GraphAdvances ==
  /\ GraphMoves /\ (graph'.status = "completed" => child.state = "completed")
  /\ UNCHANGED child
ChildCreated ==
  /\ graph.status \in Begun /\ child.state = "absent"
  /\ child' = [child EXCEPT !.state = "approval_required"] /\ UNCHANGED vars
ChildMoves ==
  /\ \E to \in C!Moves[child.state], again \in BOOLEAN, stopped \in BOOLEAN :
       /\ child.state # "absent"
       /\ again => to \in {"recoverable", "unresolved"}
       /\ stopped => to = "terminal" /\ "stop" \in ChildPermits
       /\ child' = [state |-> to, again |-> again, stopped |-> stopped, lane |-> "none"]
  /\ UNCHANGED vars

(* Under the direct lane's identity the same mission answers to its own     *)
(* service.  Reading it there is refused once a command owns it, and it is  *)
(* listed there no more; the verbs do not ask.                              *)
Owned == row.bound
SpineActions == IF child.state = "approval_required" THEN {"approve"} ELSE ChildPermits
Verbs == [approve |-> {"approved"}, reconcile |-> {"recovering"}, resume |-> {"prepared", "completed"},
          stop |-> {"terminal"}]
OsDirect ==
  /\ child.state # "absent"
  /\ \E verb \in SpineActions : \E to \in Verbs[verb] \cap C!Moves[child.state] :
       child' = [state |-> to, again |-> FALSE, stopped |-> verb = "stop", lane |-> "direct"]
  /\ UNCHANGED vars

OsNext ==
  \/ /\ \/ \E c \in Callers :
             \/ \E b \in Bodies : Submit(c, b)
             \/ Insert(c) \/ ValidationFails(c) \/ SubmitGraph(c) \/ Bind(c)
             \/ Execute(c) \/ Approve(c) \/ Answered(c) \/ AnsweredAgain(c) \/ Link(c) \/ Evidence(c)
        \/ UsedElsewhere \/ Crash \/ Tick
     /\ UNCHANGED child
  \/ GraphAdvances \/ ChildCreated \/ ChildMoves \/ OsReconcile \/ OsStop \/ OsDirect

OsSpec == OsInit /\ [][OsNext]_osVars
-------------------------------------------------------------------------------
OsTypeOK ==
  /\ TypeOK
  /\ child \in [state : C!States, again : BOOLEAN, stopped : BOOLEAN, lane : {"none", "platform", "direct"}]

(* The graph with its one node, and the mission under it, do nothing but    *)
(* what the graph's own module promises.                                    *)
Promise == INSTANCE GraphPromise
  WITH Nodes <- {"own"}, status <- graph.status, missions <- [n \in {"own"} |-> child.state]
GraphAsPromised == Promise!Spec

(* What the OS says is true of all three records, though three services     *)
(* write them: a mission it calls completed has its mission completed, and  *)
(* authoritative evidence a result that links; one with a recorded failure  *)
(* never reads as unattempted or finished; resume is not offered while what *)
(* happened downstream is unknown, nor anything at all once it is over; and *)
(* a mission that is not over has an action unless it awaits its first.     *)
OsAnswersHonestly ==
  row # NoRow =>
    /\ PlatformStatus = "completed" => child.state = "completed"
    /\ EvidenceStatus = "authoritative" => graph.links
    /\ row.lifecycle = "failed_recoverable"
         => PlatformStatus \in {"failed_recoverable", "reconciliation_required", "failed_terminal", "stopped"}
    /\ "resume" \in PlatformActions /\ Shown
         => child.state \notin {"prepared", "unresolved", "recovering"}
    /\ PlatformActions = {} <=> PlatformStatus \in OsTerminal \cup {"submitted"}

(* A mission owned by a command "is addressable only through that command's *)
(* OS identity" (osMissionControlService.ts:1279): from when it is bound no *)
(* verb under the direct lane's identity moves it.                          *)
OneIdentity == [][child' # child /\ child'.lane = "direct" => ~Owned]_osVars
=================================================================================
