---------------------------- MODULE ApprovalAuthority ----------------------------
(***************************************************************************)
(* How one human decision becomes the authority an execution resumes with  *)
(* (runtimeMissions/persistedApprovalAuthority.ts, approvalAuthorityCheck- *)
(* out.ts, approvalIssuer.ts).  Processes that share the state directory   *)
(* bind the mission to a repository revision, have the Runtime publish the *)
(* immutable checkpoint, publish the signed decision against it, and carry *)
(* both into the scope in which a recovered result is executed.  Each file *)
(* is published atomically, and the source repository moves meanwhile.     *)
(***************************************************************************)
EXTENDS Naturals, FiniteSets

CONSTANTS Callers, Heads, Decisions,    \* [by, status]: what the callers carry
          Managed,                      \* bound to isolated checkouts, not to a live tree
          Signs, Trusts,                \* an issuer, and a trust store, are configured
          MaxMoves                      \* commits to the source, and crashes

None == "none"
Scopes == {"main", "recovered"}

AuthorityAssumption ==
  /\ Managed \in BOOLEAN /\ Signs \in BOOLEAN /\ Trusts \in BOOLEAN /\ None \notin Heads
  /\ \A d \in Decisions : d.status \in {"approved", "rejected"}
  /\ MaxMoves \in Nat

VARIABLES source,       \* committed HEAD of the live repository
          checkouts,    \* revisions with a published checkout
          manifest,     \* the immutable checkpoint of each scope: the revision bound
          observation,  \* the immutable decision of each scope, and what it answers
          caller,       \* requests in flight
          admitted,     \* executions the Runtime admitted
          moves
vars == <<source, checkouts, manifest, observation, caller, admitted, moves>>
store == <<manifest, observation>>

NoDecision == [by |-> None, status |-> None]
NoObservation == [decision |-> NoDecision, answers |-> None]
Idle == [pc |-> "idle", scope |-> "main", head |-> None, decision |-> NoDecision, saw |-> NoObservation]

Init ==
  /\ source \in Heads /\ checkouts = {}
  /\ manifest = [s \in Scopes |-> None] /\ observation = [s \in Scopes |-> NoObservation]
  /\ caller = [c \in Callers |-> Idle] /\ admitted = {} /\ moves = 0

At(c, pc) == caller[c].pc = pc
Goto(c, pc) == caller' = [caller EXCEPT ![c].pc = pc]
Refuse(c) == caller' = [caller EXCEPT ![c] = Idle]
Bind(c, head) == caller' = [caller EXCEPT ![c].head = head, ![c].pc = "bound"]

-------------------------------------------------------------------------------
(* prepareApprovedRuntimeAuthority                                          *)

PrepareApproved(c, d) ==
  /\ At(c, "idle")
  /\ caller' = [caller EXCEPT ![c] = [Idle EXCEPT !.pc = "identity", !.decision = d]]
  /\ UNCHANGED <<source, checkouts, store, admitted, moves>>

(* identityFor: the checkpoint is the identity once it is there; before, it *)
(* is the live revision, in managed mode of a checkout published for it.    *)
IdentityFor(c) ==
  /\ At(c, "identity")
  /\ \/ manifest["main"] # None /\ Bind(c, manifest["main"])
     \/ /\ manifest["main"] = None
        /\ IF Managed /\ source \notin checkouts
           THEN caller' = [caller EXCEPT ![c].head = source, ![c].pc = "build"]
           ELSE Bind(c, source)
     \/ manifest["main"] = None /\ Refuse(c)         \* no source, no clean tree
  /\ UNCHANGED <<source, checkouts, store, admitted, moves>>

(* Built aside and renamed; whoever renames first publishes for both.       *)
PublishCheckout(c) ==
  /\ At(c, "build")
  /\ \/ checkouts' = checkouts \cup {caller[c].head} /\ Goto(c, "bound")
     \/ Refuse(c) /\ UNCHANGED checkouts
  /\ UNCHANGED <<source, store, admitted, moves>>

HasCheckpoint(c) ==
  /\ At(c, "bound")
  /\ Goto(c, IF manifest["main"] # None THEN "publish" ELSE "create")
  /\ UNCHANGED <<source, checkouts, store, admitted, moves>>

(* What the Runtime inspects when it is handed a revision.                  *)
Live(head) == IF Managed THEN head \in checkouts ELSE head = source
(* The Runtime publishes the first valid checkpoint and never another.      *)
CreateCheckpoint(c) ==
  LET head == caller[c].head IN
  /\ At(c, "create")
  /\ \/ /\ Live(head) /\ manifest["main"] \in {None, head}
        /\ manifest' = [manifest EXCEPT !["main"] = head]
        /\ Goto(c, "publish")
     \/ Refuse(c) /\ UNCHANGED manifest
  /\ UNCHANGED <<source, checkouts, observation, admitted, moves>>

Observation(d, head) == [decision |-> d, answers |-> head]
(* publishApproval: one decision is bound, every later call is given it.    *)
PublishApproval(c) ==
  /\ At(c, "publish")
  /\ IF Signs /\ Trusts
     THEN /\ observation' = IF observation["main"] # NoObservation THEN observation
                            ELSE [observation EXCEPT !["main"] =
                                    Observation(caller[c].decision, manifest["main"])]
          /\ Goto(c, "granted")
     ELSE Refuse(c) /\ UNCHANGED observation
  /\ UNCHANGED <<source, checkouts, manifest, admitted, moves>>

-------------------------------------------------------------------------------
(* mirrorPersistedApprovalAuthority: the two records are copied one by one. *)

MirrorManifest(c) ==
  /\ At(c, "idle") /\ manifest["main"] # None /\ observation["main"] # NoObservation
  /\ IF manifest["recovered"] \in {None, manifest["main"]}
     THEN /\ manifest' = [manifest EXCEPT !["recovered"] = manifest["main"]]
          /\ caller' = [caller EXCEPT ![c] = [Idle EXCEPT !.pc = "mirror", !.scope = "recovered",
                                                          !.saw = observation["main"]]]
     ELSE UNCHANGED <<manifest, caller>>
  /\ UNCHANGED <<source, checkouts, observation, admitted, moves>>

(* Seeded fault: the recovered scope is given the revision of the day.      *)
MirrorAfresh(c) ==
  /\ At(c, "mirror")
  /\ observation' = [observation EXCEPT !["recovered"] = Observation(caller[c].saw.decision, source)]
  /\ caller' = [caller EXCEPT ![c].pc = "granted", ![c].head = manifest["recovered"]]
  /\ UNCHANGED <<source, checkouts, manifest, admitted, moves>>
MirrorObservation(c) ==
  /\ At(c, "mirror")
  /\ IF observation["recovered"] \in {NoObservation, caller[c].saw}
     THEN /\ observation' = [observation EXCEPT !["recovered"] = caller[c].saw]
          /\ caller' = [caller EXCEPT ![c].pc = "granted", ![c].head = manifest["recovered"]]
     ELSE Refuse(c) /\ UNCHANGED observation
  /\ UNCHANGED <<source, checkouts, manifest, admitted, moves>>

-------------------------------------------------------------------------------
(* The Runtime's guard before the adapter: the tuple is the checkpoint's,   *)
(* the revision is still the live one, the decision is an approval.         *)
Guard(c) ==
  LET s == caller[c].scope IN
  /\ Live(caller[c].head) /\ caller[c].head = manifest[s]
  /\ observation[s].decision.status = "approved"

Execute(c) ==
  /\ At(c, "granted")
  /\ admitted' = IF ~Guard(c) THEN admitted
                 ELSE admitted \cup {[scope |-> caller[c].scope, head |-> caller[c].head,
                                      by |-> observation[caller[c].scope].decision.by]}
  /\ Refuse(c)
  /\ UNCHANGED <<source, checkouts, store, moves>>

SourceMoves ==
  /\ moves < MaxMoves /\ moves' = moves + 1
  /\ source' \in Heads \ {source}
  /\ UNCHANGED <<checkouts, store, caller, admitted>>
Crash(c) ==
  /\ moves < MaxMoves /\ moves' = moves + 1 /\ ~At(c, "idle")
  /\ Refuse(c)
  /\ UNCHANGED <<source, checkouts, store, admitted>>

Next ==
  \/ \E c \in Callers :
       \/ \E d \in Decisions : PrepareApproved(c, d)
       \/ IdentityFor(c) \/ PublishCheckout(c) \/ HasCheckpoint(c) \/ CreateCheckpoint(c)
       \/ PublishApproval(c) \/ MirrorManifest(c) \/ MirrorObservation(c) \/ Execute(c) \/ Crash(c)
  \/ SourceMoves
Spec == Init /\ [][Next]_vars
-------------------------------------------------------------------------------
(* describePersistedApprovalAuthority: why the authority does not hold.     *)
RefusalCode ==
  CASE ~Signs -> "issuer" [] Signs /\ ~Trusts -> "trust_store"
    [] Signs /\ Trusts /\ manifest["main"] = None -> "checkpoint_missing"
    [] Signs /\ Trusts /\ manifest["main"] # None /\ observation["main"] = NoObservation -> "observation_missing"
    [] observation["main"].decision.status = "rejected" -> "rejected"
    [] OTHER -> None

TypeOK ==
  /\ source \in Heads /\ checkouts \subseteq Heads /\ moves \in 0..MaxMoves
  /\ \A s \in Scopes : /\ manifest[s] \in Heads \cup {None}
                       /\ observation[s].decision \in Decisions \cup {NoDecision}
  /\ \A c \in Callers : caller[c].pc \in {"idle", "identity", "build", "bound", "create",
                                          "publish", "mirror", "granted"}

(* However callers race and the source moves, one decision and one revision *)
(* stand behind every execution, in either scope, each decision answers its *)
(* scope's checkpoint, and the founder is shown the authority it ran under  *)
(* (publishApproval, mirrorPersistedApprovalAuthority).                     *)
OneAuthority ==
  /\ \A s \in Scopes : observation[s] # NoObservation =>
       observation[s] = observation["main"] /\ observation[s].answers = manifest[s]
  /\ \A e \in admitted : /\ RefusalCode = None
                         /\ e.head = manifest["main"] /\ e.by = observation["main"].decision.by
=================================================================================
