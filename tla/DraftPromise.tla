---------------------------- MODULE DraftPromise ----------------------------
(***************************************************************************)
(* What a governed AutoPoster mission promises, without its tables, calls  *)
(* and recovery: nothing leaves before a human approves; the approval buys *)
(* one dispatch and at most one retry is ever added; the mission reports   *)
(* completion only over an existing draft; an ended mission has ended.     *)
(***************************************************************************)
EXTENDS Naturals

VARIABLES phase,    \* "waiting" for approval, "working", "completed", "stopped"
          permits,  \* dispatches authorised so far
          spent,    \* dispatches made
          draft     \* does the downstream draft exist?

vars == <<phase, permits, spent, draft>>

Init == phase = "waiting" /\ permits = 0 /\ spent = 0 /\ draft = FALSE

Approve ==
    /\ phase = "waiting"
    /\ phase' = "working" /\ permits' = 1
    /\ UNCHANGED <<spent, draft>>

GrantRetry ==
    /\ phase = "working" /\ permits = 1
    /\ permits' = 2
    /\ UNCHANGED <<phase, spent, draft>>

(* A dispatch under way is not called back when the mission is stopped. *)
Dispatch ==
    /\ spent < permits
    /\ spent' = spent + 1
    /\ UNCHANGED <<phase, permits, draft>>

CreateDraft ==
    /\ spent > 0
    /\ draft' = TRUE
    /\ UNCHANGED <<phase, permits, spent>>

End ==
    /\ phase = "working"
    /\ \/ phase' = "completed" /\ draft
       \/ phase' = "stopped"
    /\ UNCHANGED <<permits, spent, draft>>

Next == Approve \/ GrantRetry \/ Dispatch \/ CreateDraft \/ End

Spec == Init /\ [][Next]_vars
=============================================================================
