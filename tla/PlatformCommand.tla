---------------------------- MODULE PlatformCommand ----------------------------
(***************************************************************************)
(* One command of the Platform (platform/platformAutoPosterCommandService):*)
(* the row that binds a canonical payload to the mission graph that        *)
(* carries it out.  A command is submitted (its payload stored, the        *)
(* account checked, the graph compiled and bound) and executed (the graph  *)
(* approved in the actor's name, or resumed, and its result linked).       *)
(*                                                                         *)
(* Requests overlap at their awaits, in one process or in several on the   *)
(* database; each statement on the row is an action.  The graph is one     *)
(* node; it moves on as MissionGraph says, by these requests or by those   *)
(* who use the graph's own routes.                                         *)
(***************************************************************************)
EXTENDS Integers, GraphLifecycle

CONSTANTS Callers,      \* concurrent requests
          Bodies,       \* the bodies submitted under one intake key
          Offset,       \* a zone's offset from UTC at the scheduled instant
          None, MaxClock, MaxTroubles

PlatformAssumption ==
  /\ MaxClock \in Nat /\ MaxTroubles \in Nat
  /\ \A b \in Bodies : b.zone \in DOMAIN Offset /\ {b.due, b.requested} \subseteq Nat

VARIABLES row,      \* the command's row in operator_platform_autoposter_commands
          graph,    \* its mission graph: status, payload, approver, whether its result links
          call, clock, troubles

vars == <<row, graph, call, clock, troubles>>

NoRow == [payload |-> None, bound |-> FALSE, lifecycle |-> "absent", product |-> "not_started",
          draft |-> "required", evidence |-> FALSE]
Idle == [pc |-> "idle", body |-> None, before |-> "none"]
Init == /\ row = NoRow /\ clock = 0 /\ troubles = 0
        /\ graph = [status |-> "absent", payload |-> None, by |-> "nobody", links |-> FALSE]
        /\ call = [c \in Callers |-> Idle]

Go(c, pc) == call' = [call EXCEPT ![c].pc = pc]
Leave(c) == call' = [call EXCEPT ![c] = Idle]

-------------------------------------------------------------------------------
(* What parseCommand asks of a body.  The staged file is signed for this    *)
(* command and for the bytes it claims; the timestamp, the zone's name and  *)
(* the offset in minutes describe one instant; the schedule is ahead of the *)
(* request, and of the clock unless the command is already stored.          *)

MediaBound(b) == b.media.kind = "autoposter_staged_upload" => b.media.signed = <<b.command, b.media.sha256>>
OneInstant(b) == b.offset = -b.minutes /\ Offset[b.zone] = -b.minutes
Ahead(b) == b.due > b.requested /\ (row = NoRow => b.due > clock)
Parses(b) == b.command = "own" /\ MediaBound(b) /\ OneInstant(b) /\ Ahead(b)

(* assertExistingIntegrity: an identity stays with its canonical payload.   *)
SamePayload(b) == row.payload = b

(* submit up to its transaction: a stored command that has its graph is     *)
(* answered from the row.                                                   *)
Submit(c, b) ==
  /\ call[c].pc = "idle" /\ Parses(b)
  /\ row # NoRow => SamePayload(b) /\ ~row.bound
  /\ call' = [call EXCEPT ![c] = [Idle EXCEPT !.pc = IF row = NoRow THEN "insert" ELSE "validate", !.body = b]]
  /\ UNCHANGED <<row, graph, clock, troubles>>

(* The transaction looks again: a raced row counts only with this payload.  *)
Insert(c) ==
  /\ call[c].pc = "insert"
  /\ \/ row = NoRow /\ Go(c, "validate")
        /\ row' = [NoRow EXCEPT !.payload = call[c].body, !.lifecycle = "accepted"]
     \/ row # NoRow /\ SamePayload(call[c].body) /\ Go(c, "validate") /\ UNCHANGED row
     \/ row # NoRow /\ ~SamePayload(call[c].body) /\ Leave(c) /\ UNCHANGED row
  /\ UNCHANGED <<graph, clock, troubles>>

(* persistFailure writes whatever the row has become meanwhile.             *)
PersistFailure(draft) ==
  row' = [row EXCEPT !.lifecycle = "failed", !.product = "failed", !.draft = draft]

ValidationFails(c) ==
  /\ call[c].pc = "validate" /\ PersistFailure("required") /\ Leave(c)
  /\ UNCHANGED <<graph, clock, troubles>>

(* The account is connected and ready: submitGraph creates the graph, or    *)
(* answers with the one compiled from the same envelope.                    *)
SubmitGraph(c) ==
  /\ call[c].pc = "validate"
  /\ \/ /\ graph.status = "absent" /\ Go(c, "bind") /\ UNCHANGED row
        /\ graph' = [graph EXCEPT !.status = "approval_required", !.payload = call[c].body]
     \/ /\ graph.status # "absent" /\ graph.payload = call[c].body
        /\ Go(c, "bind") /\ UNCHANGED <<row, graph>>
     \/ /\ graph.status # "absent" /\ graph.payload # call[c].body
        /\ PersistFailure("required") /\ Leave(c) /\ UNCHANGED graph
  /\ UNCHANGED <<clock, troubles>>

Bind(c) ==
  /\ call[c].pc = "bind"
  /\ row' = IF row.lifecycle = "completed" THEN [row EXCEPT !.bound = TRUE]
            ELSE [row EXCEPT !.bound = TRUE, !.lifecycle = "approval_required", !.product = "not_started"]
  /\ Leave(c) /\ UNCHANGED <<graph, clock, troubles>>

-------------------------------------------------------------------------------
(* Execution under the graph's exact hash.                                  *)

Execute(c) ==
  /\ call[c].pc = "idle" /\ row.bound
  /\ row' = [row EXCEPT !.lifecycle = "executing", !.draft = "approved"]
  /\ Go(c, "approve") /\ UNCHANGED <<graph, clock, troubles>>

Going == {"approved", "running", "failed_recoverable"}
(* A graph that can go on makes the failure recoverable; a created draft    *)
(* stays on record.                                                         *)
ExecutionFails(c) ==
  /\ IF graph.status \notin Going THEN PersistFailure("approved")
     ELSE row' = [row EXCEPT !.lifecycle = "failed_recoverable", !.draft = "approved",
                             !.product = IF @ = "draft_created" THEN @ ELSE "recovery_required"]
  /\ Leave(c)

ApproveAnyone(c) ==                          \* seeded fault: a replay need not be the approver's
  /\ call[c].pc = "approve"
  /\ \/ /\ graph.status \notin {"cancelled", "failed_terminal"} /\ UNCHANGED row
        /\ graph' = IF graph.status = "approval_required"
                    THEN [graph EXCEPT !.status = "approved", !.by = "actor"] ELSE graph
        /\ call' = [call EXCEPT ![c].pc = "running", ![c].before = graph.status]
     \/ graph.status \in {"cancelled", "failed_terminal"} /\ ExecutionFails(c) /\ UNCHANGED graph
  /\ UNCHANGED <<clock, troubles>>

(* getGraph and approveGraph: approved now, or a replay by its approver.    *)
Approve(c) ==
  /\ call[c].pc = "approve"
  /\ \/ /\ graph.status = "approval_required" /\ UNCHANGED row
        /\ graph' = [graph EXCEPT !.status = "approved", !.by = "actor"]
        /\ call' = [call EXCEPT ![c].pc = "running", ![c].before = graph.status]
     \/ /\ graph.status \in Going \cup {"completed"} /\ graph.by = "actor"
        /\ call' = [call EXCEPT ![c].pc = "running", ![c].before = graph.status]
        /\ UNCHANGED <<row, graph>>
     \/ /\ graph.status \in {"cancelled", "failed_terminal"} \/ graph.by = "other"
        /\ ExecutionFails(c) /\ UNCHANGED graph
  /\ UNCHANGED <<clock, troubles>>

(* The graph answers.  One that was approved before is resumed, unless a    *)
(* child awaits reconciliation.                                             *)
Answered(c) ==
  /\ call[c].pc = "running"
  /\ LET stuck == call[c].before # "approval_required" /\ graph.status \in Going IN
     \/ /\ stuck /\ Go(c, "resumed") /\ UNCHANGED row
        /\ graph' = IF graph.status = "failed_recoverable" THEN [graph EXCEPT !.status = "running"] ELSE graph
     \/ graph.status = "completed" /\ Go(c, "link") /\ UNCHANGED <<row, graph>>
     \/ graph.status # "completed" /\ ExecutionFails(c) /\ UNCHANGED graph
  /\ UNCHANGED <<clock, troubles>>

AnsweredAgain(c) ==
  /\ call[c].pc = "resumed"
  /\ \/ graph.status = "completed" /\ Go(c, "link") /\ UNCHANGED row
     \/ graph.status # "completed" /\ ExecutionFails(c)
  /\ UNCHANGED <<graph, clock, troubles>>

(* completeLinkage: the child's mission, its result and the identities the  *)
(* graph reports agree, and the draft is still unapproved; or it refuses.   *)
Link(c) ==
  /\ call[c].pc = "link"
  /\ \/ /\ graph.links /\ Go(c, "evidence")
        /\ row' = [row EXCEPT !.lifecycle = "completed", !.product = "draft_created", !.draft = "approved"]
     \/ ~graph.links /\ ExecutionFails(c)
  /\ UNCHANGED <<graph, clock, troubles>>

(* The bundle is stored, could not be refreshed, or was refused.            *)
Evidence(c) ==
  /\ call[c].pc = "evidence"
  /\ \/ row' = [row EXCEPT !.evidence = TRUE] /\ Leave(c)
     \/ Leave(c) /\ UNCHANGED row
     \/ ExecutionFails(c)
  /\ UNCHANGED <<graph, clock, troubles>>

-------------------------------------------------------------------------------
(* The graph runs, or is approved or cancelled through its own routes.      *)

GraphMoves ==
  /\ \E to \in GraphNext[graph.status] \ {"approved", "cancelled"}, links \in BOOLEAN :
       /\ links => to = "completed"
       /\ graph' = [graph EXCEPT !.status = to, !.links = links]
  /\ UNCHANGED <<row, call, clock, troubles>>
UsedElsewhere ==
  /\ troubles < MaxTroubles /\ troubles' = troubles + 1
  /\ \/ graph.status = "approval_required" /\ graph' = [graph EXCEPT !.status = "approved", !.by = "other"]
     \/ "cancelled" \in GraphNext[graph.status] /\ graph' = [graph EXCEPT !.status = "cancelled"]
  /\ UNCHANGED <<row, call, clock>>
Crash ==
  /\ troubles < MaxTroubles /\ troubles' = troubles + 1
  /\ call' = [c \in Callers |-> Idle] /\ UNCHANGED <<row, graph, clock>>
Tick == clock < MaxClock /\ clock' = clock + 1 /\ UNCHANGED <<row, graph, call, troubles>>

Next ==
  \/ \E c \in Callers :
       \/ \E b \in Bodies : Submit(c, b)
       \/ Insert(c) \/ ValidationFails(c) \/ SubmitGraph(c) \/ Bind(c)
       \/ Execute(c) \/ Approve(c) \/ Answered(c) \/ AnsweredAgain(c) \/ Link(c) \/ Evidence(c)
  \/ GraphMoves \/ UsedElsewhere \/ Crash \/ Tick

Spec == Init /\ [][Next]_vars
-------------------------------------------------------------------------------
(* The columns' closed value sets (db/schema.ts).                           *)
TypeOK ==
  /\ row.payload \in Bodies \cup {None}
  /\ row.lifecycle \in {"absent", "accepted", "approval_required", "executing", "failed_recoverable",
                        "completed", "failed"}
  /\ row.product \in {"not_started", "recovery_required", "draft_created", "failed"}
  /\ row.draft \in {"required", "approved"} /\ {row.bound, row.evidence, graph.links} \subseteq BOOLEAN
  /\ graph.status \in Going \cup {"absent", "approval_required", "completed", "failed_terminal", "cancelled"}
  /\ graph.payload \in Bodies \cup {None} /\ graph.by \in {"nobody", "actor", "other"}
  /\ clock \in 0..MaxClock /\ troubles \in 0..MaxTroubles

(* The graph that carries a command out was compiled from the payload the   *)
(* row holds, whoever raced to submit under the same intake key; and the    *)
(* command reads as completed, or keeps evidence, only when that graph was  *)
(* approved by its own actor and has completed with a result that links:    *)
(* never on the word of one approved by someone else, cancelled or running. *)
CompletionIsLinked ==
  /\ graph.status # "absent" => row # NoRow /\ graph.payload = row.payload
  /\ row.lifecycle = "completed" \/ row.evidence
       => row.bound /\ graph.status = "completed" /\ graph.by = "actor" /\ graph.links
=================================================================================
