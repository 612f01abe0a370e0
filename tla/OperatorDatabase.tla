---------------------------- MODULE OperatorDatabase ----------------------------
(***************************************************************************)
(* Opening the Operator database (db/database.ts, createDatabase): a       *)
(* database left by any earlier version is brought to the reviewed schema  *)
(* by a row of migrations, or refused.                                     *)
(*                                                                         *)
(* Every migration looks at the tables first and changes them in one       *)
(* transaction of its own; a process may die after any of them, and others *)
(* open and use the file meanwhile.  Definitions are compared as text, so  *)
(* a table is absent, reviewed, one of the versions a migration knows, or  *)
(* something else.                                                         *)
(***************************************************************************)
EXTENDS Naturals

CONSTANTS Openers,      \* processes that open the file
          Histories,    \* what earlier versions may have left
          MaxWritten, MaxDeaths

VARIABLES db,       \* the file: definitions, and the rows that migrations could lose
          opener,   \* how far each process is, and what it has read for its next transaction
          begun, written, deaths

vars == <<db, opener, begun, written, deaths>>

-------------------------------------------------------------------------------
(* The tables a migration adds as a whole, and the ones CREATE IF NOT       *)
(* EXISTS makes, in the order of the open.                                  *)

CloseoutTables == {"closeouts", "closeout_events"}
ResultTables == {"projections", "result_events"}
ObservationTables == {"jobs", "attempts", "escalations"}
CommandTables == {"commands"}
Added == [closeouts |-> CloseoutTables, results |-> ResultTables,
          observations |-> ObservationTables, commands |-> CommandTables]
AddedTables == UNION {Added[m] : m \in DOMAIN Added}
Then ==
  [closeouts |-> "schema", schema |-> "proof", proof |-> "sound", sound |-> "replays",
   replays |-> "lane", lane |-> "cancelled", cancelled |-> "nodes", nodes |-> "results",
   results |-> "observations", observations |-> "commands", commands |-> "open"]

(* A database no version has touched.                                       *)
Empty ==
  [added |-> [t \in AddedTables |-> "absent"], tasks |-> "absent", board |-> FALSE,
   proof |-> "none", sound |-> "none", nodes |-> "absent", rows |-> 0,
   replayed |-> 0, marked |-> FALSE]
(* What no migration knows: a lookalike, or one graph replayed twice.       *)
Unknown(d) ==
  \/ "other" \in {d.added[t] : t \in AddedTables} \cup {d.nodes, d.sound}
  \/ d.replayed > 1

(* What a file may hold: a proof column is taken whatever its definition.   *)
Files ==
  [added : [AddedTables -> {"absent", "reviewed", "other"}],
   tasks : {"absent", "first", "laned", "current"}, board : BOOLEAN,
   proof : {"none", "absent", "there"}, sound : {"none", "absent", "reviewed", "other"},
   nodes : {"absent", "2d", "2e", "other"}, rows : Nat, replayed : Nat, marked : BOOLEAN]
DatabaseAssumption ==
  {MaxWritten, MaxDeaths} \subseteq Nat /\ Histories # {} /\ Histories \subseteq Files

At(p, stage) == opener[p].pc = stage
Go(p, pc) == opener' = [opener EXCEPT ![p] = [pc |-> pc, missing |-> {}]]
Onward(p) == Go(p, Then[opener[p].pc])
Init == /\ db \in Histories \cup {Empty} /\ begun = db /\ written = db.rows /\ deaths = 0
        /\ opener = [p \in Openers |-> [pc |-> "closed", missing |-> {}]]

Open(p) == At(p, "closed") /\ Go(p, "closeouts") /\ UNCHANGED <<db, begun, written, deaths>>

-------------------------------------------------------------------------------
(* A migration that adds tables (SafeCommit, 2E-B, 2E-C, Platform): it      *)
(* refuses a lookalike, is done if all are there, and creates the missing   *)
(* ones together.  CREATE fails if another process was faster.              *)

Missing(stage) == {t \in Added[stage] : db.added[t] = "absent"}
Lookalike(stage) == \E t \in Added[stage] : db.added[t] = "other"
Look(p) ==
  /\ opener[p].pc \in DOMAIN Added /\ opener[p].missing = {}
  /\ LET stage == opener[p].pc IN
     \/ Lookalike(stage) /\ Go(p, "refused")
     \/ ~Lookalike(stage) /\ Missing(stage) = {} /\ Onward(p)
     \/ ~Lookalike(stage) /\ Missing(stage) # {} /\ opener' = [opener EXCEPT ![p].missing = Missing(stage)]
  /\ UNCHANGED <<db, begun, written, deaths>>
AddTables(p) ==
  /\ opener[p].missing # {} /\ opener[p].pc \in DOMAIN Added
  /\ \/ /\ \A t \in opener[p].missing : db.added[t] = "absent"
        /\ db' = [db EXCEPT !.added = [t \in AddedTables |-> IF t \in opener[p].missing THEN "reviewed" ELSE @[t]]]
        /\ Onward(p)
     \/ /\ \E t \in opener[p].missing : db.added[t] # "absent"
        /\ Go(p, "lost") /\ UNCHANGED db
  /\ UNCHANGED <<begun, written, deaths>>

(* The aggregate schema is a script of CREATE IF NOT EXISTS, outside any    *)
(* transaction: a death in the middle leaves what is made so far.           *)
Schema(p) ==
  /\ At(p, "schema")
  /\ \/ /\ db.tasks = "absent" /\ db' = [db EXCEPT !.tasks = "current"] /\ UNCHANGED opener
     \/ /\ db.tasks # "absent" /\ db.sound = "none" /\ UNCHANGED opener
        /\ db' = [db EXCEPT !.proof = "there", !.sound = "reviewed"]
     \/ /\ db.tasks # "absent" /\ db.sound # "none" /\ db.nodes = "absent" /\ UNCHANGED opener
        /\ db' = [db EXCEPT !.nodes = "2e"]
     \/ /\ "absent" \notin {db.tasks, db.nodes} /\ db.sound # "none" /\ Onward(p) /\ UNCHANGED db
  /\ UNCHANGED <<begun, written, deaths>>

(* Columns are added together to the missions of an earlier version.  A     *)
(* sound column of another definition is refused, a proof column taken.     *)
LookColumns(p) ==
  /\ opener[p].pc \in {"proof", "sound"} /\ opener[p].missing = {}
  /\ LET column == opener[p].pc IN
     \/ db[column] = "other" /\ Go(p, "refused")
     \/ db[column] \in {"there", "reviewed"} /\ Onward(p)
     \/ db[column] = "absent" /\ opener' = [opener EXCEPT ![p].missing = {column}]
  /\ UNCHANGED <<db, begun, written, deaths>>
AddColumns(p) ==
  /\ opener[p].pc \in {"proof", "sound"} /\ opener[p].missing # {}
  /\ LET column == opener[p].pc IN
     \/ /\ db[column] = "absent" /\ Onward(p)
        /\ db' = [db EXCEPT ![column] = IF column = "proof" THEN "there" ELSE "reviewed"]
     \/ db[column] # "absent" /\ Go(p, "lost") /\ UNCHANGED db
  /\ UNCHANGED <<begun, written, deaths>>

(* Every replay of a submission on record is marked; duplicates are refused.*)
MarkReplays(p) ==
  /\ At(p, "replays")
  /\ \/ db.replayed > 1 /\ Go(p, "refused") /\ UNCHANGED db
     \/ db.replayed <= 1 /\ Onward(p) /\ db' = [db EXCEPT !.marked = @ \/ db.replayed = 1]
  /\ UNCHANGED <<begun, written, deaths>>

(* Two migrations of the task table may fail without a word: its column     *)
(* exists already; or its rows have steps, which the rebuilt table's DROP   *)
(* would leave without their task.                                          *)
AddLane(p) ==
  /\ At(p, "lane") /\ Onward(p)
  /\ db' = [db EXCEPT !.tasks = IF @ = "first" THEN "laned" ELSE @]
  /\ UNCHANGED <<begun, written, deaths>>
MigrateCancelled(p) ==
  /\ At(p, "cancelled") /\ Onward(p)
  /\ db' = [db EXCEPT !.tasks = IF db.board THEN @ ELSE "current"]
  /\ UNCHANGED <<begun, written, deaths>>

(* The graph's nodes are rebuilt to take the AutoPoster product; the copy   *)
(* is of the rows there are when it is made.                                *)
LookNodesStrictly(p) ==                      \* seeded fault: the earlier version is not known
  /\ At(p, "nodes") /\ opener[p].missing = {}
  /\ IF db.nodes = "2e" THEN Onward(p) ELSE Go(p, "refused")
  /\ UNCHANGED <<db, begun, written, deaths>>
LookNodes(p) ==
  /\ At(p, "nodes") /\ opener[p].missing = {}
  /\ \/ db.nodes = "other" /\ Go(p, "refused")
     \/ db.nodes = "2e" /\ Onward(p)
     \/ db.nodes = "2d" /\ opener' = [opener EXCEPT ![p].missing = {"nodes"}]
  /\ UNCHANGED <<db, begun, written, deaths>>
RebuildNodesPiecemeal(p) ==                  \* seeded fault: the old table is dropped first
  /\ At(p, "nodes") /\ opener[p].missing # {}
  /\ \/ db.nodes # "absent" /\ db' = [db EXCEPT !.nodes = "absent", !.rows = 0] /\ UNCHANGED opener
     \/ db.nodes = "absent" /\ db' = [db EXCEPT !.nodes = "2e", !.rows = written] /\ Onward(p)
  /\ UNCHANGED <<begun, written, deaths>>
RebuildNodes(p) ==
  /\ At(p, "nodes") /\ opener[p].missing # {}
  /\ db' = [db EXCEPT !.nodes = "2e"] /\ Onward(p)
  /\ UNCHANGED <<begun, written, deaths>>

-------------------------------------------------------------------------------
(* A process works with its database, stops, or dies; a refused one starts  *)
(* again.                                                                   *)
Work(p) ==
  /\ At(p, "open") /\ written < MaxWritten /\ written' = written + 1
  /\ db' = [db EXCEPT !.rows = @ + 1, !.board = TRUE] /\ UNCHANGED <<opener, begun, deaths>>
Die(p) ==
  /\ ~At(p, "closed") /\ deaths < MaxDeaths /\ deaths' = deaths + 1
  /\ Go(p, "closed") /\ UNCHANGED <<db, begun, written>>
StartAgain(p) ==
  /\ opener[p].pc \in {"lost", "refused"} /\ Go(p, "closed") /\ UNCHANGED <<db, begun, written, deaths>>

Advance(p) ==
  \/ Open(p) \/ Look(p) \/ AddTables(p) \/ Schema(p) \/ LookColumns(p) \/ AddColumns(p)
  \/ MarkReplays(p) \/ AddLane(p) \/ MigrateCancelled(p) \/ LookNodes(p) \/ RebuildNodes(p)
  \/ StartAgain(p)
Next == \E p \in Openers : Advance(p) \/ Work(p) \/ Die(p)
Spec == Init /\ [][Next]_vars
(* A started process runs on, and is started again when it ended early.     *)
Fairness == \A p \in Openers : WF_vars(Advance(p))
FairSpec == Spec /\ Fairness
-------------------------------------------------------------------------------
TypeOK ==
  /\ begun \in Histories \cup {Empty} /\ written \in Nat /\ deaths \in 0..MaxDeaths
  /\ db \in Files
  /\ opener \in [Openers -> [pc : DOMAIN Then \cup {"closed", "open", "refused", "lost"},
                            missing : SUBSET (AddedTables \cup {"proof", "sound", "nodes"})]]

(* A process is given only a database whose tables are the reviewed ones    *)
(* and whose replays are all marked, with every row any version or process  *)
(* has written to it; and one is refused for what was there before, never   *)
(* for what an open that died or raced has left (createDatabase).           *)
DatabaseIsReviewed ==
  /\ \A p \in Openers : At(p, "open") =>
       /\ \A t \in AddedTables : db.added[t] = "reviewed"
       /\ db.nodes = "2e" /\ db.sound = "reviewed" /\ db.proof = "there"
       /\ db.replayed > 0 => db.marked
       /\ db.rows = written
  /\ \A p \in Openers : At(p, "refused") => Unknown(begun)

(* Every process has its database in the end, if earlier versions left only *)
(* what is known: who lost a race finds the winner's tables.                *)
OpensInTheEnd == \A p \in Openers : ~Unknown(begun) => <>(At(p, "open"))
=================================================================================
