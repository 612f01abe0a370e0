---------------------------- MODULE MissionIntake ----------------------------
(***************************************************************************)
(* createScheduleMission: a caller proposes a mission and may name its     *)
(* mission id, trace id and idempotency key.  A mission that is already    *)
(* there answers for it if every binding agrees; otherwise AutoPoster is   *)
(* asked for the connected account, and after that await one transaction   *)
(* looks again and inserts the row, its execution and its ledger run.      *)
(* Calls interleave at the await, in one process or several.               *)
(*                                                                         *)
(* Left out: validation of the input's fields, protected values, the       *)
(* clock.  The payload stands for every field the binding compares and the *)
(* payload hash covers, except the workspace.                              *)
(***************************************************************************)
EXTENDS Naturals, FiniteSets

CONSTANTS
    Requests,    \* [mission, trace, key, ws, payload], identities and ws or Unset
    Callers,     \* concurrent calls
    Generated,   \* ids idFactory may give out
    Workspaces,  \* what AutoPoster may resolve
    Unset

DefaultKey(id) == <<"operator-autoposter", id>>

Payloads == {r.payload : r \in Requests}
MissionIds == {r.mission : r \in Requests} \cup Generated
TraceIds == {r.trace : r \in Requests} \cup Generated
Keys == {r.key : r \in Requests} \cup {DefaultKey(id) : id \in MissionIds}
Records ==
    [mission : MissionIds \ {Unset}, trace : TraceIds \ {Unset}, key : Keys \ {Unset},
     ws : Workspaces, payload : Payloads]

ASSUME ConstantsAssumption ==
    /\ \A r \in Requests : DOMAIN r = {"mission", "trace", "key", "ws", "payload"}
    /\ \A r \in Requests : Generated \cap {r.mission, r.trace} = {}
    /\ \A r \in Requests : r.ws \in Workspaces \cup {Unset}
    /\ Unset \notin Generated \cup Workspaces \cup Requests
    /\ \A id \in MissionIds : DefaultKey(id) # Unset

VARIABLES
    missions,  \* autoposter_runtime_missions, with their execution and ledger run
    calls,     \* the request each caller has under validation
    answers    \* <<request, mission id, replayed>> returned to callers

vars == <<missions, calls, answers>>

-----------------------------------------------------------------------------
(* The key a request stands for. *)
KeyOf(r) ==
    IF r.key # Unset THEN r.key
    ELSE IF r.mission # Unset THEN DefaultKey(r.mission) ELSE Unset

ByMission(r) == {m \in missions : m.mission = r.mission}
ByKey(r) == {m \in missions : m.key = KeyOf(r)}
ByTrace(r) == {m \in missions : m.trace = r.trace}
Existing(r) == IF ByMission(r) # {} THEN ByMission(r) ELSE ByKey(r)

(* assertExistingCreateBinding *)
Binds(m, r) ==
    /\ r.mission \in {Unset, m.mission}
    /\ KeyOf(r) \in {Unset, m.key}
    /\ r.trace \in {Unset, m.trace}
    /\ r.ws \in {Unset, m.ws}
    /\ r.payload = m.payload

(* Seeded fault: what the identities find is answered without comparing the rest. *)
FindsUnbound(r, m) == Existing(r) = {m} /\ ByTrace(r) \subseteq {m}

(* findExistingCreate answers with mission m; finds nothing; or throws. *)
Finds(r, m) ==
    /\ Existing(r) = {m}
    /\ ByMission(r) # {} /\ ByKey(r) # {} => ByMission(r) = ByKey(r)
    /\ ByTrace(r) \subseteq {m}
    /\ Binds(m, r)
FindsNothing(r) == Existing(r) = {} /\ ByTrace(r) = {}

(* assertIdentifiersAvailable, for the resolved identities. *)
Available(id, trace, key) ==
    \A m \in missions : m.mission # id /\ m.trace # trace /\ m.key # key

-----------------------------------------------------------------------------
Init ==
    /\ missions = {}
    /\ calls = [c \in Callers |-> Unset]
    /\ answers = {}

Answer(r, m, replayed) == answers' = answers \cup {<<r, m.mission, replayed>>}
Return(c) == calls' = [calls EXCEPT ![c] = Unset]

(* The mission is there: answered before any await. *)
Replay(c, r) ==
    /\ calls[c] = Unset
    /\ \E m \in missions : Finds(r, m) /\ Answer(r, m, TRUE)
    /\ UNCHANGED <<missions, calls>>

(* Nothing there: AutoPoster is asked. *)
AskAccount(c, r) ==
    /\ calls[c] = Unset
    /\ FindsNothing(r)
    /\ calls' = [calls EXCEPT ![c] = r]
    /\ UNCHANGED <<missions, answers>>

(* The transaction after the await, a workspace confirmed: the race was lost. *)
ReplayRaced(c) ==
    /\ calls[c] # Unset
    /\ \E m \in missions : Finds(calls[c], m) /\ Answer(calls[c], m, TRUE)
    /\ Return(c)
    /\ UNCHANGED missions

Resolved(r, m) ==
    /\ m.mission \in IF r.mission = Unset THEN Generated ELSE {r.mission}
    /\ m.trace \in IF r.trace = Unset THEN Generated ELSE {r.trace}
    /\ m.trace # m.mission \/ m.mission \notin Generated
    /\ m.key = IF KeyOf(r) = Unset THEN DefaultKey(m.mission) ELSE KeyOf(r)
    /\ r.ws \in {Unset, m.ws}
    /\ m.payload = r.payload

NewMissions(r) == {m \in Records : Resolved(r, m)}

(* Seeded faults: the key is always the default one; identities are not checked. *)
CreateRekeys(c) ==
    LET r == calls[c] IN
    /\ r # Unset /\ FindsNothing(r)
    /\ \E m \in NewMissions(r) :
         /\ Available(m.mission, m.trace, m.key)
         /\ missions' = missions \cup {[m EXCEPT !.key = DefaultKey(m.mission)]}
         /\ Answer(r, m, FALSE)
    /\ Return(c)
CreateWithoutIds(c) ==
    LET r == calls[c] IN
    /\ r # Unset /\ FindsNothing(r)
    /\ \E m \in NewMissions(r) :
         /\ missions' = missions \cup {[m EXCEPT !.mission = r.mission]}
         /\ Answer(r, m, FALSE)
    /\ Return(c)

(* It inserts the mission. *)
Create(c) ==
    LET r == calls[c] IN
    /\ r # Unset /\ FindsNothing(r)
    /\ \E m \in NewMissions(r) :
         /\ Available(m.mission, m.trace, m.key)
         /\ missions' = missions \cup {m}
         /\ Answer(r, m, FALSE)
    /\ Return(c)

(* The account is not confirmed, an identity is bound to something else by now,
   or the process dies: nothing is written. *)
Abandon(c) ==
    /\ calls[c] # Unset
    /\ Return(c)
    /\ UNCHANGED <<missions, answers>>

Next ==
    \E c \in Callers :
      \/ \E r \in Requests : Replay(c, r) \/ AskAccount(c, r)
      \/ ReplayRaced(c) \/ Create(c) \/ Abandon(c)

Spec == Init /\ [][Next]_vars

-----------------------------------------------------------------------------
(* Properties.                                                             *)

(* Missions are complete rows; calls and answers are about requests. *)
TypeOK ==
    /\ missions \subseteq Records
    /\ calls \in [Callers -> {Unset} \cup Requests]
    /\ answers \subseteq Requests \X (MissionIds \ {Unset}) \X BOOLEAN

(* However creates race, a mission id, a trace and a key name one mission. *)
IdentitiesUnique ==
    \A m, n \in missions :
      m.mission = n.mission \/ m.trace = n.trace \/ m.key = n.key => m = n

(* Whatever a caller was answered agrees with everything it asked for: no
   answer reveals a mission bound to another payload, trace or workspace. *)
AnswersBound ==
    \A a \in answers : \E m \in missions : m.mission = a[2] /\ Binds(m, a[1])

(* A request that names a mission or a key is told of one creation at most,
   however often and concurrently it is made. *)
CreatedOnce ==
    \A a, b \in answers :
      a[1] = b[1] /\ KeyOf(a[1]) # Unset /\ a[3] = FALSE /\ b[3] = FALSE => a = b

(* A caller that lost its answer asks again and is answered with the same
   mission, whatever was created since and whichever workspace AutoPoster
   resolved. *)
RetryFindsMission ==
    \A a \in answers :
      KeyOf(a[1]) # Unset => \E m \in missions : m.mission = a[2] /\ Finds(a[1], m)
=============================================================================
