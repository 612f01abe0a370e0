---------------------------- MODULE ScheduleIntake ----------------------------
(***************************************************************************)
(* From a caller's flat schedule to the child mission: the body is         *)
(* validated leniently, AutoPoster is asked for the account, the canonical *)
(* payload becomes the only node of a graph whose identity is the caller's *)
(* idempotency key, and once approved the node's input goes, twice         *)
(* validated, into createScheduleMission.  One idempotency key; calls      *)
(* interleave at the await, and, where processes share the database,       *)
(* between reading the graph's requestedAt and storing the graph.          *)
(*                                                                         *)
(* Left out: field lengths and characters, URLs, trace and actor, and the  *)
(* graph's own life between its approval and its node (MissionGraph).      *)
(***************************************************************************)
EXTENDS Naturals

CONSTANTS
    Bodies,          \* what callers send, each with the workspace it names or None
    Intents,         \* concurrent calls
    Workspaces,      \* where the account may be connected
    Spelling,        \* each way to write a provider, and the provider it is
    SharedDatabase,  \* calls may run in different processes
    MaxHour,         \* bound on the clock
    None

Fields == {"provider", "title", "sound", "due", "proof", "media", "extra"}
(* What a stored envelope holds. *)
Inputs == [provider : DOMAIN Spelling, title : {b.title : b \in Bodies}, due : {b.due : b \in Bodies},
           sound : {b.sound : b \in Bodies} \cup {"keep_original"}, proof : BOOLEAN,
           media : {b.media : b \in Bodies}, extra : {FALSE}]
Graphs == [input : Inputs, ws : Workspaces, requested : Nat]

IntakeAssumption ==
    /\ \A b \in Bodies : DOMAIN b = Fields \cup {"ws"} /\ b.provider \in DOMAIN Spelling
    /\ \A b \in Bodies : b.due \in Nat /\ b.proof \in BOOLEAN /\ b.ws \in Workspaces \cup {None}
    /\ \A s \in DOMAIN Spelling : Spelling[s] \in DOMAIN Spelling /\ Spelling[Spelling[s]] = Spelling[s]
    /\ MaxHour \in Nat /\ SharedDatabase \in BOOLEAN
    /\ None \notin Graphs

VARIABLES
    clock,      \* hours since the start
    connected,  \* the workspace AutoPoster resolves for the account
    intent,     \* intake calls: [pc, body, ws, requested]
    graph,      \* the stored graph: [input, ws, requested], or None
    dispatch,   \* the node's call is waiting for the account
    child,      \* the child mission: [payload, ws], or None
    told        \* what callers were answered: [body, ws, answer]

vars == <<clock, connected, intent, graph, dispatch, child, told>>

-----------------------------------------------------------------------------
(* validateAutoPosterScheduleInput.  A graph's input is strict: no field it *)
(* does not know, the provider as it is written in the registry, and due    *)
(* after the graph was requested.                                           *)

Coherent(input) ==
    LET provider == Spelling[input.provider] IN
    /\ provider = "youtube" <=> input.title # None
    /\ input.proof => provider = "youtube"
    /\ input.proof <=> input.media # None
Strict(input, requested) ==
    /\ Coherent(input)
    /\ ~input.extra /\ Spelling[input.provider] = input.provider
    /\ input.due > requested

(* Its answer, the canonical payload. *)
Canonical(input) ==
    [provider |-> Spelling[input.provider], title |-> input.title, due |-> input.due,
     sound |-> IF input.sound = None THEN "keep_original" ELSE input.sound,
     explicit |-> input.sound # None,
     proof |-> input.proof, media |-> input.media]

(* autoPosterSchedulePayloadJson *)
Json(payload) ==
    [provider |-> payload.provider, title |-> payload.title, due |-> payload.due,
     sound |-> IF payload.explicit THEN payload.sound ELSE None,
     proof |-> payload.proof, media |-> IF payload.proof THEN payload.media ELSE None,
     extra |-> FALSE]

(* The envelope's payload as createScheduleMission reads it: soundMode is   *)
(* always there, and fields the schedule does not know come with it.        *)
Handed(payload) ==
    [provider |-> payload.provider, title |-> payload.title, due |-> payload.due,
     sound |-> payload.sound, proof |-> payload.proof, media |-> payload.media, extra |-> TRUE]

-----------------------------------------------------------------------------
Idle == [pc |-> "idle", body |-> None, ws |-> None, requested |-> 0]

Init ==
    /\ clock = 0 /\ connected \in Workspaces
    /\ intent = [c \in Intents |-> Idle]
    /\ graph = None /\ child = None /\ dispatch = FALSE
    /\ told = {}

(* What runs without an await is not interrupted within one process. *)
Free(c) == SharedDatabase \/ \A d \in Intents \ {c} : intent[d].pc # "store"

Return(c) == intent' = [intent EXCEPT ![c] = Idle]
Tell(c, answer) ==
    /\ told' = told \cup {[body |-> intent[c].body, ws |-> intent[c].ws, answer |-> answer]}
    /\ Return(c)
    /\ UNCHANGED <<clock, connected, dispatch, child>>

(* The body is read and the account asked for. *)
Submit(c) ==
    /\ intent[c].pc = "idle" /\ Free(c)
    /\ \E b \in Bodies :
         /\ Coherent(b)
         /\ intent' = [intent EXCEPT ![c] = [Idle EXCEPT !.pc = "account", !.body = b]]
    /\ UNCHANGED <<clock, connected, graph, dispatch, child, told>>

(* Seeded fault: every submission is requested now. *)
RequestsAnew(c) ==
    /\ intent[c].pc = "account" /\ Free(c)
    /\ intent[c].body.ws \in {None, connected}
    /\ intent' = [intent EXCEPT ![c] =
                    [@ EXCEPT !.pc = "store", !.ws = connected, !.requested = clock]]
    /\ UNCHANGED <<clock, connected, graph, dispatch, child, told>>

(* The account is confirmed; a graph that is there keeps its requestedAt. *)
Confirmed(c) ==
    /\ intent[c].pc = "account" /\ Free(c)
    /\ intent[c].body.ws \in {None, connected}
    /\ intent' = [intent EXCEPT ![c] =
                    [@ EXCEPT !.pc = "store", !.ws = connected,
                              !.requested = IF graph = None THEN clock ELSE graph.requested]]
    /\ UNCHANGED <<clock, connected, graph, dispatch, child, told>>

(* It is not, or the process dies: nothing is written. *)
Abandon(c) ==
    /\ intent[c].pc = "account"
    /\ Return(c)
    /\ UNCHANGED <<clock, connected, graph, dispatch, child, told>>

Envelope(c) ==
    [input |-> Json(Canonical(intent[c].body)), ws |-> intent[c].ws, requested |-> intent[c].requested]
Compiled(envelope) == [envelope EXCEPT !.input = Json(Canonical(envelope.input))]

(* submitGraph compiles the envelope, then stores it or finds it stored. *)
Store(c) ==
    LET envelope == Envelope(c) IN
    /\ intent[c].pc = "store"
    /\ Strict(envelope.input, envelope.requested)
    /\ graph \in {None, Compiled(envelope)}
    /\ graph' = Compiled(envelope)
    /\ Tell(c, "graph")

(* It refuses an input that does not compile, and another graph's identity. *)
Refuse(c) ==
    LET envelope == Envelope(c) IN
    /\ intent[c].pc = "store"
    /\ \/ ~Strict(envelope.input, envelope.requested)
       \/ graph \notin {None, Compiled(envelope)}
    /\ Tell(c, "refused")
    /\ UNCHANGED graph

(* The approved node: its input is validated again, against requestedAt, and
   the child, unless it is there, must still be due. *)
Dispatch ==
    /\ graph # None /\ child = None /\ ~dispatch
    /\ Strict(graph.input, graph.requested)
    /\ Coherent(Handed(Canonical(graph.input)))
    /\ graph.input.due > clock
    /\ dispatch' = TRUE
    /\ UNCHANGED <<clock, connected, intent, graph, child, told>>

(* Seeded fault: the child goes where the account is connected by now. *)
CreatesAnywhere ==
    /\ dispatch
    /\ child' = [payload |-> Canonical(Handed(Canonical(graph.input))), ws |-> connected]
    /\ dispatch' = FALSE
    /\ UNCHANGED <<clock, connected, intent, graph, told>>

(* After the await nothing looks at the clock again. *)
CreateChild ==
    /\ dispatch
    /\ connected = graph.ws
    /\ child' = [payload |-> Canonical(Handed(Canonical(graph.input))), ws |-> graph.ws]
    /\ dispatch' = FALSE
    /\ UNCHANGED <<clock, connected, intent, graph, told>>

(* The account is elsewhere: the node fails and may be tried again. *)
ChildRefused ==
    /\ dispatch
    /\ connected # graph.ws
    /\ dispatch' = FALSE
    /\ UNCHANGED <<clock, connected, intent, graph, child, told>>

Tick == clock < MaxHour /\ clock' = clock + 1 /\ UNCHANGED <<connected, intent, graph, dispatch, child, told>>
Reconnect ==
    /\ \E w \in Workspaces \ {connected} : connected' = w
    /\ UNCHANGED <<clock, intent, graph, dispatch, child, told>>

Next ==
    \/ \E c \in Intents : Submit(c) \/ Confirmed(c) \/ Abandon(c) \/ Store(c) \/ Refuse(c)
    \/ Dispatch \/ CreateChild \/ ChildRefused \/ Tick \/ Reconnect

Spec == Init /\ [][Next]_vars

-----------------------------------------------------------------------------
(* Properties.                                                             *)

(* A stored graph is a complete envelope whose input every later hop still
   accepts and reads as the same payload. *)
TypeOK ==
    /\ clock \in 0..MaxHour /\ connected \in Workspaces /\ dispatch \in BOOLEAN
    /\ \A c \in Intents :
         /\ intent[c].pc \in {"idle", "account", "store"}
         /\ intent[c].requested \in 0..MaxHour
    /\ graph # None =>
         /\ graph.input \in Inputs /\ graph.ws \in Workspaces
         /\ Strict(graph.input, graph.requested) /\ Json(Canonical(graph.input)) = graph.input
    /\ child # None => graph # None /\ ~dispatch

(* The same schedule for the same workspace gets the same answer whenever it
   is asked for: neither the hours that passed, nor a due time that is over,
   nor a call that overlaps turns a replay into a payload mismatch. *)
SameIntentSameAnswer ==
    \A a, b \in told : a.body = b.body /\ a.ws = b.ws => a.answer = b.answer

(* What a payload asks AutoPoster for; whether the sound was chosen or left to
   the default does not survive the envelope. *)
Asked(payload) ==
    [provider |-> payload.provider, title |-> payload.title, due |-> payload.due,
     sound |-> payload.sound, proof |-> payload.proof, media |-> payload.media]

(* Everyone who was told that the graph is theirs gets the child they asked
   for, through four validations and three renderings, in the workspace that
   was confirmed to them. *)
ChildIsWhatWasAsked ==
    child # None =>
      \A a \in told : a.answer = "graph" =>
        /\ Asked(child.payload) = Asked(Canonical(a.body))
        /\ child.ws = a.ws
=============================================================================
