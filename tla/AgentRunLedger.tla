--------------------------- MODULE AgentRunLedger ---------------------------
(***************************************************************************)
(* The Agent Run ledger: an append-only log of transitions per run.        *)
(* Operator's own missions append in sequence (appendEntry); external      *)
(* producers post entries that may arrive late, twice or out of order      *)
(* (ingestEntry): a receipt is kept, and applied once its predecessors     *)
(* are.                                                                    *)
(*                                                                         *)
(* ingestEntry runs two transactions, one that looks for a conflicting     *)
(* receipt and one that stores and applies.  In one process nothing comes  *)
(* between them; two processes on the database file may interleave there.  *)
(* A crash between the two is a call never made and needs no action.       *)
(*                                                                         *)
(* Left out: protected values, validation of an entry's fields, filters,   *)
(* timestamps, causation ids.  Two entries are equal when their payload    *)
(* hashes are.                                                             *)
(***************************************************************************)
EXTENDS Naturals, Sequences

CONSTANTS
    External,   \* entries posted by producers: [event, run, seq, status, scope, payload]
    Honest,     \* those of them that are one legal history per run
    Local,      \* entries Operator's own missions write
    Runs,       \* run ids
    Follows,    \* external contract: <<status, next status>>, None first
    Processes,  \* Operator processes on the database file
    MaxSeq,     \* bound on sequence numbers
    None

Entries == External \cup Local

ConstantsAssumption ==
    /\ MaxSeq \in Nat
    /\ Honest \subseteq External
    /\ None \notin Entries
    /\ \A e \in Entries : e.run \in Runs /\ e.seq \in 1 .. MaxSeq

VARIABLES
    log,        \* agent_run_ledger_transitions by run; its last entry is the run's row
    accepted,   \* ingest receipts with outcome accepted
    applied,    \* event ids of the accepted receipts marked applied
    conflicts,  \* ingest receipts with outcome conflicted
    proc        \* the entry each process has checked and not yet ingested

vars == <<log, accepted, applied, conflicts, proc>>

-----------------------------------------------------------------------------
Logged(r) == {log[r][i] : i \in 1 .. Len(log[r])}
EventsLogged == UNION {{x.event : x \in Logged(r)} : r \in Runs}

(* Seeded fault: assertSummaryScope is not called. *)
ChainsAnyScope(history) ==
    /\ \A i \in 1 .. Len(history) : history[i].seq = i
    /\ \A i, j \in 1 .. Len(history) : i # j => history[i].event # history[j].event
    /\ \A i \in 1 .. Len(history) :
         <<IF i = 1 THEN None ELSE history[i - 1].status, history[i].status>> \in Follows

(* What appendEntry, called in turn, has accepted of one run. *)
Chains(history) ==
    /\ \A i \in 1 .. Len(history) : history[i].seq = i
    /\ \A i \in 1 .. Len(history) : history[i].scope = history[1].scope
    /\ \A i, j \in 1 .. Len(history) : i # j => history[i].event # history[j].event
    /\ \A i \in 1 .. Len(history) :
         <<IF i = 1 THEN None ELSE history[i - 1].status, history[i].status>> \in Follows

(* Seeded fault: see ChainsAnyScope. *)
MayFollowAnyScope(r, entries) ==
    /\ \A i \in 1 .. Len(entries) : entries[i].event \notin EventsLogged
    /\ ChainsAnyScope(log[r] \o entries)

(* New entries may follow what run r has: no event of theirs is bound already. *)
MayFollow(r, entries) ==
    /\ \A i \in 1 .. Len(entries) : entries[i].event \notin EventsLogged
    /\ Chains(log[r] \o entries)

(* The entry is in the log already, an exact replay. *)
Replays(e) == e \in Logged(e.run)

(* detectAndRecordIngestConflict *)
Conflicting(e) ==
    \/ \E x \in accepted : x.event = e.event /\ x # e
    \/ /\ \A x \in accepted : x.event # e.event
       /\ \E x \in accepted : x.run = e.run /\ x.seq = e.seq

(* The receipts after e's own is stored. *)
Received(e) ==
    IF \E x \in accepted : x.event = e.event THEN accepted ELSE accepted \cup {e}

(* Unapplied receipts that could be drained at sequence n of e's run. *)
Waiting(e, n) ==
    {x \in Received(e) : x.run = e.run /\ x.seq = n /\ x.event \notin applied \cup {e.event}}

(* Seeded fault: one waiting receipt is drained, then the call returns. *)
DrainsOne(e, from, tail) ==
    /\ Len(tail) <= 1
    /\ \A i \in 1 .. Len(tail) : tail[i] \in Waiting(e, from + i)
    /\ Len(tail) = 0 => Waiting(e, from + 1) = {}

(* drainRun takes the receipts waiting right behind sequence "from", to the
   first gap. *)
Drains(e, from, tail) ==
    /\ \A i \in 1 .. Len(tail) : tail[i] \in Waiting(e, from + i)
    /\ Waiting(e, from + Len(tail) + 1) = {}

(* What e and the drain behind it add to the log of its run. *)
Additions(e) ==
    LET own  == IF Replays(e) THEN <<>> ELSE <<e>>
        from == Len(log[e.run]) + Len(own)
        tails == UNION {[1 .. k -> Received(e)] : k \in 0 .. MaxSeq}
    IN {own \o tail : tail \in {t \in tails : Drains(e, from, t)}}

Early(e) == e.seq > Len(log[e.run]) + 1

(* ingestValidatedEntry commits: e applied or replayed, and all it drains. *)
Fits(e, added) ==
    /\ Replays(e) \/ e.seq = Len(log[e.run]) + 1
    /\ MayFollow(e.run, added)

-----------------------------------------------------------------------------
Init ==
    /\ log = [r \in Runs |-> <<>>]
    /\ accepted = {} /\ applied = {} /\ conflicts = {}
    /\ proc = [p \in Processes |-> None]

Return(p) == proc' = [proc EXCEPT ![p] = None]

(* ingestEntry, first transaction: a conflict is kept as evidence and refused. *)
RecordConflict(p, e) ==
    /\ proc[p] = None /\ Conflicting(e)
    /\ conflicts' = conflicts \cup {e}
    /\ UNCHANGED <<log, accepted, applied, proc>>

CheckConflict(p, e) ==
    /\ proc[p] = None /\ ~Conflicting(e)
    /\ proc' = [proc EXCEPT ![p] = e]
    /\ UNCHANGED <<log, accepted, applied, conflicts>>

(* The second transaction: a future entry is held. *)
Hold(p) ==
    LET e == proc[p] IN
    /\ e # None /\ Early(e)
    /\ accepted' = Received(e)
    /\ Return(p)
    /\ UNCHANGED <<log, applied, conflicts>>

(* A due entry is applied or replayed, and the receipts behind it drained. *)
Apply(p) ==
    LET e == proc[p] IN
    /\ e # None /\ ~Early(e)
    /\ \E added \in Additions(e) :
         /\ Fits(e, added)
         /\ log' = [log EXCEPT ![e.run] = @ \o added]
         /\ accepted' = Received(e)
         /\ applied' = applied \cup {e.event} \cup {added[i].event : i \in 1 .. Len(added)}
    /\ Return(p)
    /\ UNCHANGED conflicts

(* appendEntry throws for the entry or for one it drains: all is rolled back,
   its own receipt included. *)
Refuse(p) ==
    LET e == proc[p] IN
    /\ e # None /\ ~Early(e)
    /\ \E added \in Additions(e) : ~Fits(e, added)
    /\ Return(p)
    /\ UNCHANGED <<log, accepted, applied, conflicts>>

(* appendEntry from a mission, in the mission's own transaction. *)
AppendLocal(e) ==
    /\ e.seq = Len(log[e.run]) + 1 /\ MayFollow(e.run, <<e>>)
    /\ log' = [log EXCEPT ![e.run] = Append(@, e)]
    /\ UNCHANGED <<accepted, applied, conflicts, proc>>

Ingest(p) == Hold(p) \/ Apply(p) \/ Refuse(p)

Next ==
    \/ \E p \in Processes :
         \/ \E e \in External : RecordConflict(p, e) \/ CheckConflict(p, e)
         \/ Ingest(p)
    \/ \E e \in Local : AppendLocal(e)

Spec == Init /\ [][Next]_vars

(* A producer posts each entry until it is stored, and the server serves every
   post; after that the producer posts it no more. *)
Post(e) == e \notin accepted /\ \E p \in Processes : CheckConflict(p, e)
Fairness ==
    /\ \A p \in Processes : WF_vars(Ingest(p))
    /\ \A e \in External : SF_vars(Post(e))
FairSpec == Spec /\ Fairness

-----------------------------------------------------------------------------
(* Properties.                                                             *)

(* The tables hold entries; marks are event ids. *)
TypeOK ==
    /\ log \in [Runs -> Seq(Entries)]
    /\ accepted \subseteq External /\ conflicts \subseteq External
    /\ applied \subseteq {x.event : x \in External}
    /\ proc \in [Processes -> {None} \cup External]

(* In whatever order entries came, each run's log is one legal history: gapless,
   of one scope, every status allowed after the one before; and no event is
   bound twice in the whole ledger. *)
LogsAreHistories ==
    /\ \A r \in Runs : Chains(log[r])
    /\ \A q, r \in Runs : q # r => \A x \in Logged(q), y \in Logged(r) : x.event # y.event

(* An event and a sequence of a run are received once, the first receipt stays,
   and it is marked applied exactly when the log has it. *)
MarksMatchLog ==
    /\ \A x, y \in accepted :
         x.event = y.event \/ (x.run = y.run /\ x.seq = y.seq) => x = y
    /\ \A x \in accepted : x.event \in applied <=> x \in Logged(x.run)

(* No receipt is left waiting right behind its run's log: gaps close as soon
   as the missing entry is applied. *)
Drained ==
    \A x \in accepted : x.seq = Len(log[x.run]) + 1 => x.event \in applied

(* The receipts and the log of every run tell one story. *)
LedgerIsHistory == LogsAreHistories /\ MarksMatchLog /\ Drained

(* A legal history ends up in the log, in whatever order its entries are
   posted and whatever else is posted and refused, if nothing else is received
   into it. *)
Delivered == [](accepted \subseteq Honest) => <>[](\A e \in Honest : Replays(e))

(* "closes automatically once the missing predecessor arrives": an entry that
   may follow the log now is not refused for what waits behind it. *)
GapCloses ==
    \A e \in External :
      ~Conflicting(e) /\ e.seq = Len(log[e.run]) + 1 /\ MayFollow(e.run, <<e>>) =>
        \A added \in Additions(e) : Fits(e, added)
=============================================================================
