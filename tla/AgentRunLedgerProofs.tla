------------------------- MODULE AgentRunLedgerProofs -------------------------
(***************************************************************************)
(* The logs of AgentRunLedger are legal histories, for any entries and     *)
(* processes; in one process their receipts and marks match them.          *)
(***************************************************************************)
EXTENDS AgentRunLedger, SequenceTheorems, TLAPS

-------------------------------------------------------------------------------
(* Sequences of entries.                                                    *)
LEMMA LogType ==
    ASSUME TypeOK, NEW r \in Runs
    PROVE  log[r] \in Seq(Entries) /\ Len(log[r]) \in Nat
  BY LenProperties DEF TypeOK

(* The entries of a log that has grown: those it had, and those added.      *)
LEMMA Grown ==
    ASSUME NEW s \in Seq(Entries), NEW t \in Seq(Entries)
    PROVE  /\ s \o t \in Seq(Entries) /\ Len(s \o t) = Len(s) + Len(t)
           /\ {(s \o t)[i] : i \in 1 .. Len(s \o t)} =
                {s[i] : i \in 1 .. Len(s)} \cup {t[i] : i \in 1 .. Len(t)}
<1> DEFINE S == {s[i] : i \in 1 .. Len(s)}
           T == {t[i] : i \in 1 .. Len(t)}
           ST == {(s \o t)[i] : i \in 1 .. Len(s \o t)}
<1>1. /\ s \o t \in Seq(Entries) /\ Len(s \o t) = Len(s) + Len(t)
      /\ \A i \in 1 .. Len(s) + Len(t) :
           (s \o t)[i] = IF i <= Len(s) THEN s[i] ELSE t[i - Len(s)]
      /\ Len(s) \in Nat /\ Len(t) \in Nat
  BY ConcatProperties, LenProperties
<1>2. ASSUME NEW x \in ST PROVE x \in S \cup T
  <2>1. PICK i \in 1 .. Len(s) + Len(t) : x = (s \o t)[i]
    BY <1>1
  <2>2. i <= Len(s) \/ i - Len(s) \in 1 .. Len(t)
    BY <1>1
  <2> QED
    BY <1>1, <2>1, <2>2
<1>3. ASSUME NEW x \in S PROVE x \in ST
  <2>1. PICK i \in 1 .. Len(s) : x = s[i]
    OBVIOUS
  <2>2. i \in 1 .. Len(s) + Len(t) /\ (s \o t)[i] = x
    BY <1>1, <2>1
  <2> QED
    BY <1>1, <2>2
<1>4. ASSUME NEW x \in T PROVE x \in ST
  <2>1. PICK i \in 1 .. Len(t) : x = t[i]
    OBVIOUS
  <2>2. /\ Len(s) + i \in 1 .. Len(s) + Len(t) /\ ~(Len(s) + i <= Len(s))
        /\ (Len(s) + i) - Len(s) = i
    BY <1>1
  <2>3. (s \o t)[Len(s) + i] = x
    BY <1>1, <2>1, <2>2
  <2> QED
    BY <1>1, <2>2, <2>3
<1> HIDE DEF S, T, ST
<1>5. ST = S \cup T
  BY <1>2, <1>3, <1>4
<1> QED
  BY <1>1, <1>5 DEF S, T, ST

-------------------------------------------------------------------------------
(* Every append is checked against the whole ledger in its own transaction,  *)
(* so this much holds whatever two processes do between their transactions.  *)

Inv == TypeOK /\ LogsAreHistories

LEMMA AppendKeeps ==
    ASSUME ConstantsAssumption, Inv, NEW r \in Runs, NEW added \in Seq(Entries),
           MayFollow(r, added), log' = [log EXCEPT ![r] = @ \o added]
    PROVE  /\ log' \in [Runs -> Seq(Entries)] /\ LogsAreHistories'
           /\ Len(log'[r]) = Len(log[r]) + Len(added)
           /\ Logged(r)' = Logged(r) \cup {added[i] : i \in 1 .. Len(added)}
           /\ \A q \in Runs : q # r => log'[q] = log[q]
<1>1. log \in [Runs -> Seq(Entries)] /\ log[r] \in Seq(Entries)
  BY DEF Inv, TypeOK
<1>2. /\ log'[r] = log[r] \o added /\ log'[r] \in Seq(Entries)
      /\ Len(log'[r]) = Len(log[r]) + Len(added)
  BY <1>1, Grown
<1>3. \A q \in Runs : q # r => log'[q] = log[q]
  BY <1>1
<1>4. log' \in [Runs -> Seq(Entries)]
  BY <1>1, <1>2
<1>5. Logged(r)' = Logged(r) \cup {added[i] : i \in 1 .. Len(added)}
  <2>1. Logged(r)' = {(log[r] \o added)[i] : i \in 1 .. Len(log[r] \o added)}
    BY <1>2, Zenon DEF Logged
  <2> QED
    BY <1>1, <2>1, Grown DEF Logged
<1>6. \A q \in Runs : q # r => Logged(q)' = Logged(q)
  <2> SUFFICES ASSUME NEW q \in Runs, q # r PROVE Logged(q)' = Logged(q)
    OBVIOUS
  <2>1. log'[q] = log[q]
    BY <1>3
  <2> QED
    BY <2>1, Zenon DEF Logged
<1>7. \A q \in Runs : Chains(log'[q])
  <2>1. Chains(log[r] \o added)
    BY DEF MayFollow
  <2>2. Chains(log'[r])
    BY <1>2, <2>1, Zenon
  <2>3. ASSUME NEW q \in Runs, q # r PROVE Chains(log'[q])
    BY <1>3, <2>3, Zenon DEF Inv, LogsAreHistories
  <2> QED
    BY <2>2, <2>3
<1>8. ASSUME NEW q \in Runs, q # r, NEW x \in Logged(r)', NEW y \in Logged(q)'
      PROVE  x.event # y.event
  <2>1. y \in Logged(q) /\ y.event \in EventsLogged
    BY <1>6, <1>8 DEF EventsLogged
  <2>2. CASE x \in Logged(r)
    BY <1>8, <2>1, <2>2 DEF Inv, LogsAreHistories
  <2>3. CASE \E i \in 1 .. Len(added) : x = added[i]
    BY <2>1, <2>3 DEF MayFollow
  <2> QED
    BY <1>5, <2>2, <2>3
<1>9. LogsAreHistories'
  <2>1. ASSUME NEW p \in Runs, NEW q \in Runs, p # q,
               NEW x \in Logged(p)', NEW y \in Logged(q)'
        PROVE  x.event # y.event
    <3>1. CASE p = r
      BY <1>8, <2>1, <3>1
    <3>2. CASE q = r
      BY <1>8, <2>1, <3>2
    <3>3. CASE p # r /\ q # r
      BY <1>6, <2>1, <3>3 DEF Inv, LogsAreHistories
    <3> QED
      BY <3>1, <3>2, <3>3
  <2> QED
    BY <1>7, <2>1 DEF LogsAreHistories
<1> QED
  BY <1>2, <1>3, <1>4, <1>5, <1>9

(* What is added is received, of the run of the entry that came; the entry   *)
(* is among it unless the log had it; and nothing waits behind it.           *)
LEMMA AddedType ==
    ASSUME TypeOK, NEW e \in External, NEW added \in Additions(e), ConstantsAssumption
    PROVE  /\ Received(e) \subseteq External /\ e.run \in Runs
           /\ added \in Seq(External) /\ added \in Seq(Entries)
           /\ \A i \in 1 .. Len(added) :
                added[i] = e \/ (added[i] \in Received(e) /\ added[i].run = e.run)
           /\ ~Replays(e) => \E i \in 1 .. Len(added) : added[i] = e
           /\ Waiting(e, Len(log[e.run]) + Len(added) + 1) = {}
<1>1. Received(e) \subseteq External /\ e.run \in Runs /\ External \subseteq Entries
  BY DEF Received, TypeOK, ConstantsAssumption, Entries
<1>2. PICK own, tail :
        /\ own = IF Replays(e) THEN <<>> ELSE <<e>>
        /\ added = own \o tail /\ Drains(e, Len(log[e.run]) + Len(own), tail)
        /\ \E k \in 0 .. MaxSeq : tail \in [1 .. k -> Received(e)]
  BY DEF Additions
<1>3. tail \in Seq(Received(e))
  <2>1. \A k \in 0 .. MaxSeq : k \in Nat
    BY DEF ConstantsAssumption
  <2> QED
    BY <1>2, <2>1, SeqDef
<1>4. /\ own \in Seq(External) /\ Len(own) \in {0, 1}
      /\ Len(own) = 1 => own = <<e>>
      /\ ~Replays(e) => own = <<e>> /\ Len(own) = 1
  BY <1>2
<1>5. tail \in Seq(External) /\ Len(tail) \in Nat
  BY <1>1, <1>3, SeqMonotonic, LenProperties
<1>6. /\ added \in Seq(External) /\ Len(added) = Len(own) + Len(tail)
      /\ \A i \in 1 .. Len(own) + Len(tail) :
           added[i] = IF i <= Len(own) THEN own[i] ELSE tail[i - Len(own)]
  BY <1>2, <1>4, <1>5, ConcatProperties
<1>7. added \in Seq(Entries)
  BY <1>1, <1>6, SeqMonotonic
<1>8. ASSUME NEW i \in 1 .. Len(added)
      PROVE  added[i] = e \/ (added[i] \in Received(e) /\ added[i].run = e.run)
  <2>1. CASE i <= Len(own)
    <3>0. Len(own) = 1 /\ i = 1
      BY <1>4, <1>5, <1>6, <2>1
    <3>1. own = <<e>> /\ own[1] = e
      BY <1>4, <3>0
    <3> QED
      BY <1>5, <1>6, <3>0, <3>1
  <2>2. CASE ~(i <= Len(own))
    <3>1. i - Len(own) \in 1 .. Len(tail) /\ added[i] = tail[i - Len(own)]
      BY <1>4, <1>5, <1>6, <2>2
    <3>2. tail[i - Len(own)] \in Waiting(e, Len(log[e.run]) + Len(own) + (i - Len(own)))
      BY <1>2, <3>1 DEF Drains
    <3> QED
      BY <3>1, <3>2 DEF Waiting
  <2> QED
    BY <2>1, <2>2
<1>9. ~Replays(e) => \E i \in 1 .. Len(added) : added[i] = e
  <2> SUFFICES ASSUME ~Replays(e) PROVE 1 \in 1 .. Len(added) /\ added[1] = e
    OBVIOUS
  <2>1. own = <<e>> /\ Len(own) = 1 /\ own[1] = e
    BY <1>4
  <2> QED
    BY <1>5, <1>6, <2>1
<1>10. Waiting(e, Len(log[e.run]) + Len(added) + 1) = {}
  <2>1. Len(log[e.run]) \in Nat
    BY <1>1, LogType
  <2>2. PICK n \in Nat : n = Len(log[e.run])
    BY <2>1
  <2>3. Len(own) \in Nat /\ Len(tail) \in Nat /\ Len(added) = Len(own) + Len(tail)
    BY <1>4, <1>5, <1>6
  <2>4. n + Len(own) + Len(tail) + 1 = n + Len(added) + 1
    BY <2>3
  <2> QED
    BY <1>2, <2>2, <2>4 DEF Drains
<1> QED
  BY <1>1, <1>6, <1>7, <1>8, <1>9, <1>10

LEMMA ApplyType ==
    ASSUME ConstantsAssumption, TypeOK, NEW p \in Processes, proc[p] # None
    PROVE  proc[p] \in External
  BY DEF TypeOK

LEMMA ReceivedType ==
    ASSUME TypeOK, NEW e \in External
    PROVE  Received(e) \subseteq External
  BY DEF TypeOK, Received

(* What a transaction that applies an entry adds, and what it leaves.        *)
Applies(e, added) ==
  /\ added \in Seq(External) /\ MayFollow(e.run, added)
  /\ applied' = applied \cup {e.event} \cup {added[i].event : i \in 1 .. Len(added)}
  /\ log' \in [Runs -> Seq(Entries)] /\ LogsAreHistories'
  /\ Len(log'[e.run]) = Len(log[e.run]) + Len(added)
  /\ Logged(e.run)' = Logged(e.run) \cup {added[i] : i \in 1 .. Len(added)}
  /\ \A q \in Runs : q # e.run => log'[q] = log[q]

LEMMA Applied ==
    ASSUME ConstantsAssumption, Inv, NEW p \in Processes, NEW e \in External,
           e = proc[p], Apply(p)
    PROVE  ~Early(e) /\ \E added \in Additions(e) : Applies(e, added)
<1>1. ~Early(e) /\ TypeOK
  BY DEF Apply, Inv
<1>2. PICK added \in Additions(e) :
        /\ Fits(e, added) /\ log' = [log EXCEPT ![e.run] = @ \o added]
        /\ applied' = applied \cup {e.event} \cup {added[i].event : i \in 1 .. Len(added)}
  BY DEF Apply
<1>3. added \in Seq(External) /\ added \in Seq(Entries) /\ e.run \in Runs
  BY <1>1, AddedType
<1>4. MayFollow(e.run, added)
  BY <1>2 DEF Fits
<1>5. /\ log' \in [Runs -> Seq(Entries)] /\ LogsAreHistories'
      /\ Len(log'[e.run]) = Len(log[e.run]) + Len(added)
      /\ Logged(e.run)' = Logged(e.run) \cup {added[i] : i \in 1 .. Len(added)}
      /\ \A q \in Runs : q # e.run => log'[q] = log[q]
  BY <1>2, <1>3, <1>4, AppendKeeps
<1>6. Applies(e, added)
  BY <1>2, <1>3, <1>4, <1>5 DEF Applies
<1> QED
  BY <1>1, <1>6

(* Operator's own entry.                                                     *)
LEMMA OwnAppended ==
    ASSUME ConstantsAssumption, Inv, NEW e \in Local, AppendLocal(e)
    PROVE  /\ log' \in [Runs -> Seq(Entries)] /\ LogsAreHistories'
           /\ \A q \in Runs : q # e.run => log'[q] = log[q]
<1>1. e.run \in Runs /\ <<e>> \in Seq(Entries)
  BY DEF ConstantsAssumption, Entries
<1>2. log[e.run] \in Seq(Entries) /\ Append(log[e.run], e) = log[e.run] \o <<e>>
  BY <1>1, AppendIsConcat DEF Inv, TypeOK, Entries
<1>3. log' = [log EXCEPT ![e.run] = @ \o <<e>>]
  BY <1>2 DEF AppendLocal
<1> QED
  BY <1>1, <1>3, AppendKeeps DEF AppendLocal

(* A step that appends nothing.                                              *)
LEMMA LogStays ==
    ASSUME LogsAreHistories, UNCHANGED log PROVE LogsAreHistories'
<1>1. \A r \in Runs : Chains(log'[r])
  BY Zenon DEF LogsAreHistories
<1>2. \A r \in Runs : Logged(r)' = Logged(r)
  BY Zenon DEF Logged
<1> QED
  BY <1>1, <1>2, Zenon DEF LogsAreHistories

LEMMA InvInit == ConstantsAssumption /\ Init => Inv
<1> SUFFICES ASSUME ConstantsAssumption, Init PROVE Inv
  OBVIOUS
<1>1. TypeOK
  BY EmptySeq DEF Init, TypeOK
<1>2. \A r \in Runs : log[r] = <<>> /\ Len(log[r]) = 0
  BY DEF Init
<1>3. LogsAreHistories
  BY <1>2 DEF LogsAreHistories, Chains, Logged
<1> QED
  BY <1>1, <1>3 DEF Inv

(* The marks an apply leaves are ids of entries that were posted.            *)
LEMMA MarksType ==
    ASSUME TypeOK, NEW e \in External, NEW added \in Seq(External),
           applied' = applied \cup {e.event} \cup {added[i].event : i \in 1 .. Len(added)}
    PROVE  applied' \subseteq {x.event : x \in External}
<1>1. \A i \in 1 .. Len(added) : added[i] \in External
  BY ElementOfSeq
<1> QED
  BY <1>1 DEF TypeOK

LEMMA InvKept ==
    ASSUME ConstantsAssumption, Inv, [Next]_vars PROVE Inv'
<1>1. CASE UNCHANGED vars
  BY <1>1, LogStays DEF Inv, TypeOK, vars
<1>2. ASSUME NEW p \in Processes,
             Hold(p) \/ Refuse(p) \/ \E e \in External : RecordConflict(p, e) \/ CheckConflict(p, e)
      PROVE  Inv'
  <2>1. log' = log
    BY <1>2 DEF Hold, Refuse, RecordConflict, CheckConflict
  <2>2. TypeOK'
    <3>1. CASE Hold(p)
      <4>1. accepted' \subseteq External
        BY <3>1, ApplyType, ReceivedType DEF Hold, Inv
      <4> QED
        BY <3>1, <4>1 DEF Hold, Return, Inv, TypeOK
    <3>2. CASE Refuse(p)
      BY <3>2 DEF Refuse, Return, Inv, TypeOK
    <3>3. CASE \E e \in External : RecordConflict(p, e) \/ CheckConflict(p, e)
      BY <3>3 DEF RecordConflict, CheckConflict, Inv, TypeOK
    <3> QED
      BY <1>2, <3>1, <3>2, <3>3
  <2>3. LogsAreHistories'
    BY <2>1, LogStays DEF Inv
  <2> QED
    BY <2>2, <2>3 DEF Inv
<1>3. ASSUME NEW p \in Processes, Apply(p) PROVE Inv'
  <2>1. PICK e \in External : e = proc[p]
    BY <1>3, ApplyType DEF Apply, Inv
  <2>2. PICK added \in Additions(e) : Applies(e, added)
    BY <1>3, <2>1, Applied
  <2>3. accepted' \subseteq External
    BY <1>3, <2>1, ReceivedType DEF Apply, Inv
  <2>4. applied' \subseteq {x.event : x \in External}
    BY <2>2, MarksType DEF Inv, Applies
  <2>5. proc' \in [Processes -> {None} \cup External] /\ conflicts' \subseteq External
    BY <1>3 DEF Apply, Return, Inv, TypeOK
  <2> QED
    BY <2>2, <2>3, <2>4, <2>5 DEF Inv, TypeOK, Applies
<1>4. ASSUME NEW e \in Local, AppendLocal(e) PROVE Inv'
  <2>1. log' \in [Runs -> Seq(Entries)] /\ LogsAreHistories'
    BY <1>4, OwnAppended
  <2> QED
    BY <1>4, <2>1 DEF AppendLocal, Inv, TypeOK
<1> QED
  BY <1>1, <1>2, <1>3, <1>4 DEF Next, Ingest

(* However producers, missions and processes interleave, the log of a run is *)
(* one legal history and no event is bound twice (appendEntry, ingestEntry). *)
THEOREM LogsCorrect == ASSUME ConstantsAssumption PROVE Spec => [](TypeOK /\ LogsAreHistories)
<1>1. Init => Inv
  BY InvInit
<1>2. Inv /\ [Next]_vars => Inv'
  BY InvKept
<1> QED
  BY <1>1, <1>2, PTL DEF Spec, Inv

-------------------------------------------------------------------------------
(* One process: nothing is received between the check for a conflict and the *)
(* receipt.  Producers post to runs of their own.                            *)
OneProcess == \A p, q \in Processes : p = q
OwnRuns == \A x \in External, y \in Local : x.run # y.run

(* A mark is of a receipt, and what was checked still has no conflict.       *)
MarkInv ==
  /\ Inv /\ MarksMatchLog /\ Drained
  /\ \A v \in applied : \E x \in accepted : x.event = v
  /\ \A p \in Processes : proc[p] # None => ~Conflicting(proc[p])

(* An entry without conflict adds its receipt, and no second one.            *)
LEMMA Receipts ==
    ASSUME MarksMatchLog, NEW e, ~Conflicting(e)
    PROVE  /\ Received(e) = accepted \cup {e}
           /\ \A x, y \in Received(e) :
                x.event = y.event \/ (x.run = y.run /\ x.seq = y.seq) => x = y
<1>1. \A x \in accepted : x.event = e.event => x = e
  BY DEF Conflicting
<1>2. CASE e \in accepted
  BY <1>2 DEF Received, MarksMatchLog
<1>3. CASE e \notin accepted
  <2>1. \A x \in accepted : x.event # e.event
    BY <1>1, <1>3
  <2>2. \A x \in accepted : ~(x.run = e.run /\ x.seq = e.seq)
    BY <2>1 DEF Conflicting
  <2>3. Received(e) = accepted \cup {e}
    BY <2>1 DEF Received
  <2> QED
    BY <2>1, <2>2, <2>3 DEF MarksMatchLog
<1> QED
  BY <1>2, <1>3

(* An early entry is not in the log, which has no gap.                       *)
LEMMA EarlyIsNew ==
    ASSUME ConstantsAssumption, Inv, NEW e \in External, Early(e)
    PROVE  e \notin Logged(e.run) /\ e.seq # Len(log[e.run]) + 1
<1>1. e.run \in Runs /\ e.seq \in Nat
  BY DEF ConstantsAssumption, Entries
<1>2. Len(log[e.run]) \in Nat
  BY <1>1, LogType DEF Inv
<1>3. \A i \in 1 .. Len(log[e.run]) : log[e.run][i].seq = i
  BY <1>1 DEF Inv, LogsAreHistories, Chains
<1> QED
  BY <1>1, <1>2, <1>3 DEF Early, Logged

LEMMA HoldMarks ==
    ASSUME ConstantsAssumption, MarkInv, NEW e \in External, ~Conflicting(e), Early(e),
           accepted' = Received(e), UNCHANGED <<log, applied>>
    PROVE  /\ MarksMatchLog' /\ Drained'
           /\ \A v \in applied' : \E x \in accepted' : x.event = v
<1>1. /\ accepted' = accepted \cup {e}
      /\ \A x, y \in accepted' :
           x.event = y.event \/ (x.run = y.run /\ x.seq = y.seq) => x = y
  BY Receipts DEF MarkInv
<1>2. e \notin Logged(e.run) /\ e.seq # Len(log[e.run]) + 1
  BY EarlyIsNew DEF MarkInv
<1>3. e \notin accepted => e.event \notin applied
  BY DEF MarkInv, Conflicting
<1>4. \A r : Logged(r)' = Logged(r)
  BY Zenon DEF Logged
<1>5. \A x \in accepted' : x.event \in applied <=> x \in Logged(x.run)
  BY <1>1, <1>2, <1>3 DEF MarkInv, MarksMatchLog
<1>6. \A x \in accepted' : x.event \in applied' <=> x \in Logged(x.run)'
  BY <1>4, <1>5
<1>7. MarksMatchLog'
  BY <1>1, <1>6 DEF MarksMatchLog
<1>8. Drained'
  BY <1>1, <1>2 DEF MarkInv, Drained
<1> QED
  BY <1>1, <1>7, <1>8 DEF MarkInv

LEMMA ApplyMarks ==
    ASSUME ConstantsAssumption, MarkInv, NEW e \in External, ~Conflicting(e),
           NEW added \in Additions(e), Applies(e, added), accepted' = Received(e)
    PROVE  /\ MarksMatchLog' /\ Drained'
           /\ \A v \in applied' : \E x \in accepted' : x.event = v
<1>1. /\ accepted' = accepted \cup {e}
      /\ \A x, y \in accepted' :
           x.event = y.event \/ (x.run = y.run /\ x.seq = y.seq) => x = y
  BY Receipts DEF MarkInv
<1>2. /\ e.run \in Runs /\ accepted' \subseteq External
      /\ \A i \in 1 .. Len(added) : added[i] \in accepted' /\ added[i].run = e.run
      /\ ~Replays(e) => \E i \in 1 .. Len(added) : added[i] = e
      /\ Waiting(e, Len(log[e.run]) + Len(added) + 1) = {}
  <2>1. TypeOK
    BY DEF MarkInv, Inv
  <2>2. /\ Received(e) \subseteq External /\ e.run \in Runs
        /\ \A i \in 1 .. Len(added) :
             added[i] = e \/ (added[i] \in Received(e) /\ added[i].run = e.run)
        /\ ~Replays(e) => \E i \in 1 .. Len(added) : added[i] = e
        /\ Waiting(e, Len(log[e.run]) + Len(added) + 1) = {}
    BY <2>1, AddedType
  <2>3. e \in accepted' /\ accepted' = Received(e)
    BY <1>1
  <2> QED
    BY <2>2, <2>3
<1>3. /\ applied' = applied \cup {e.event} \cup {added[i].event : i \in 1 .. Len(added)}
      /\ Len(log'[e.run]) = Len(log[e.run]) + Len(added)
      /\ Logged(e.run)' = Logged(e.run) \cup {added[i] : i \in 1 .. Len(added)}
      /\ \A q \in Runs : q # e.run => log'[q] = log[q]
  BY DEF Applies
<1>4. \A q \in Runs : q # e.run => Logged(q)' = Logged(q)
  <2> SUFFICES ASSUME NEW q \in Runs, q # e.run PROVE Logged(q)' = Logged(q)
    OBVIOUS
  <2>1. log'[q] = log[q]
    BY <1>3
  <2> QED
    BY <2>1, Zenon DEF Logged
<1>5. \A q \in Runs : Logged(q) \subseteq Logged(q)'
  BY <1>3, <1>4
<1>6. e \in Logged(e.run)'
  BY <1>2, <1>3 DEF Replays
<1>7. \A x \in External : x.run \in Runs
  BY DEF ConstantsAssumption, Entries
<1>8. ASSUME NEW x \in accepted', x.event \in applied' PROVE x \in Logged(x.run)'
  <2>1. CASE x.event \in applied
    <3>1. PICK y \in accepted : y.event = x.event
      BY <2>1 DEF MarkInv
    <3>2. x = y
      BY <1>1, <3>1
    <3>3. x \in Logged(x.run) /\ x.run \in Runs
      BY <1>2, <1>7, <2>1, <3>1, <3>2 DEF MarkInv, MarksMatchLog
    <3> QED
      BY <1>5, <3>3
  <2>2. CASE x.event = e.event
    <3>1. x = e
      BY <1>1, <2>2
    <3> QED
      BY <1>6, <3>1
  <2>3. CASE \E i \in 1 .. Len(added) : x.event = added[i].event
    <3>1. PICK i \in 1 .. Len(added) : x.event = added[i].event
      BY <2>3
    <3>2. x = added[i] /\ x.run = e.run
      BY <1>1, <1>2, <3>1
    <3> QED
      BY <1>3, <3>2
  <2> QED
    BY <1>3, <1>8, <2>1, <2>2, <2>3
<1>9. ASSUME NEW x \in accepted', x \in Logged(x.run)' PROVE x.event \in applied'
  <2>1. CASE x = e
    BY <1>3, <2>1
  <2>2. CASE x # e /\ x \in Logged(x.run)
    BY <1>1, <1>3, <2>2 DEF MarkInv, MarksMatchLog
  <2>3. CASE x \notin Logged(x.run)
    <3>1. x.run \in Runs
      BY <1>2, <1>7
    <3>2. x.run = e.run
      BY <1>4, <1>9, <2>3, <3>1
    <3>3. PICK i \in 1 .. Len(added) : x = added[i]
      BY <1>3, <1>9, <2>3, <3>2
    <3> QED
      BY <1>3, <3>3
  <2> QED
    BY <2>1, <2>2, <2>3
<1>10. MarksMatchLog'
  BY <1>1, <1>8, <1>9 DEF MarksMatchLog
<1>11. ASSUME NEW x \in accepted', x.seq = Len(log'[x.run]) + 1 PROVE x.event \in applied'
  <2>1. CASE x.run # e.run
    <3>1. x.run \in Runs /\ x \in accepted
      BY <1>1, <1>2, <1>7, <2>1
    <3>2. x.seq = Len(log[x.run]) + 1
      BY <1>3, <1>11, <2>1, <3>1
    <3> QED
      BY <1>3, <3>1, <3>2 DEF MarkInv, Drained
  <2>2. CASE x.run = e.run
    <3>1. x.seq = Len(log[e.run]) + Len(added) + 1
      BY <1>3, <1>11, <2>2
    <3>2. x.event \in applied \cup {e.event}
      BY <1>2, <2>2, <3>1 DEF Waiting
    <3> QED
      BY <1>3, <3>2
  <2> QED
    BY <2>1, <2>2
<1>12. Drained'
  BY <1>11 DEF Drained
<1>13. \A v \in applied' : \E x \in accepted' : x.event = v
  <2>1. \A v \in applied : \E x \in accepted' : x.event = v
    BY <1>1 DEF MarkInv
  <2>2. e \in accepted'
    BY <1>1
  <2> QED
    BY <1>2, <1>3, <2>1, <2>2
<1> QED
  BY <1>10, <1>12, <1>13

(* Steps that add neither a receipt nor a mark, nor to the log of a run that *)
(* has receipts.                                                             *)
LEMMA QuietMarks ==
    ASSUME ConstantsAssumption, MarkInv, UNCHANGED <<accepted, applied>>,
           \A x \in External : log'[x.run] = log[x.run]
    PROVE  /\ MarksMatchLog' /\ Drained'
           /\ \A v \in applied' : \E x \in accepted' : x.event = v
<1>1. accepted \subseteq External
  BY DEF MarkInv, Inv, TypeOK
<1>2. \A x \in accepted : Logged(x.run)' = Logged(x.run)
  <2> SUFFICES ASSUME NEW x \in accepted PROVE Logged(x.run)' = Logged(x.run)
    OBVIOUS
  <2>1. log'[x.run] = log[x.run]
    BY <1>1
  <2> QED
    BY <2>1, Zenon DEF Logged
<1>3. MarksMatchLog'
  BY <1>2 DEF MarkInv, MarksMatchLog
<1>4. Drained'
  BY <1>1 DEF MarkInv, Drained
<1> QED
  BY <1>3, <1>4 DEF MarkInv

LEMMA MarkKept ==
    ASSUME ConstantsAssumption, OneProcess, OwnRuns, MarkInv, [Next]_vars PROVE MarkInv'
<1>0. Inv /\ Inv'
  BY InvKept DEF MarkInv
<1> DEFINE Checked == \A p \in Processes : proc[p] # None => ~Conflicting(proc[p])
           Backed == \A v \in applied : \E x \in accepted : x.event = v
<1>1. CASE UNCHANGED vars
  <2>1. MarksMatchLog' /\ Drained' /\ Backed'
    BY <1>1, QuietMarks DEF vars
  <2>2. Checked'
    BY <1>1 DEF vars, MarkInv, Conflicting
  <2> QED
    BY <1>0, <2>1, <2>2 DEF MarkInv
<1>2. ASSUME NEW p \in Processes, Ingest(p) PROVE MarkInv'
  <2>1. PICK e \in External : e = proc[p]
    BY <1>0, <1>2, ApplyType DEF Ingest, Hold, Apply, Refuse, Inv
  <2>2. ~Conflicting(e)
    <3>1. proc[p] # None
      BY <1>2 DEF Ingest, Hold, Apply, Refuse
    <3> QED
      BY <2>1, <3>1 DEF MarkInv
  <2>3. Checked'
    <3>1. \A q \in Processes : proc'[q] = None
      BY <1>0, <1>2 DEF Ingest, Hold, Apply, Refuse, Return, OneProcess, Inv, TypeOK
    <3> QED
      BY <3>1
  <2>4. MarksMatchLog' /\ Drained' /\ Backed'
    <3>1. CASE Hold(p)
      BY <2>1, <2>2, <3>1, HoldMarks DEF Hold
    <3>2. CASE Apply(p)
      <4>1. PICK added \in Additions(e) : Applies(e, added)
        BY <1>0, <2>1, <3>2, Applied
      <4>2. accepted' = Received(e)
        BY <2>1, <3>2 DEF Apply
      <4> QED
        BY <2>2, <4>1, <4>2, ApplyMarks
    <3>3. CASE Refuse(p)
      BY <3>3, QuietMarks DEF Refuse
    <3> QED
      BY <1>2, <3>1, <3>2, <3>3 DEF Ingest
  <2> QED
    BY <1>0, <2>3, <2>4 DEF MarkInv
<1>3. ASSUME NEW p \in Processes, NEW e \in External, RecordConflict(p, e) \/ CheckConflict(p, e)
      PROVE  MarkInv'
  <2>1. MarksMatchLog' /\ Drained' /\ Backed'
    BY <1>3, QuietMarks DEF RecordConflict, CheckConflict
  <2>2. \A q \in Processes : proc'[q] = proc[q] \/ (proc'[q] = e /\ ~Conflicting(e))
    BY <1>0, <1>3 DEF RecordConflict, CheckConflict, Inv, TypeOK
  <2>3. accepted' = accepted
    BY <1>3 DEF RecordConflict, CheckConflict
  <2>4. Checked'
    BY <2>2, <2>3 DEF MarkInv, Conflicting
  <2> QED
    BY <1>0, <2>1, <2>4 DEF MarkInv
<1>4. ASSUME NEW e \in Local, AppendLocal(e) PROVE MarkInv'
  <2>1. \A x \in External : x.run \in Runs /\ x.run # e.run
    BY DEF OwnRuns, ConstantsAssumption, Entries
  <2>2. \A x \in External : log'[x.run] = log[x.run]
    BY <1>0, <1>4, <2>1, OwnAppended
  <2>3. MarksMatchLog' /\ Drained' /\ Backed'
    BY <1>4, <2>2, QuietMarks DEF AppendLocal
  <2>4. Checked'
    BY <1>4 DEF AppendLocal, MarkInv, Conflicting
  <2> QED
    BY <1>0, <2>3, <2>4 DEF MarkInv
<1> QED
  BY <1>1, <1>2, <1>3, <1>4 DEF Next

(* In one process the log, the receipts and the marks tell one story in      *)
(* whatever order the entries of a run arrive (ingestEntry, drainRun).       *)
THEOREM HistoryCorrect ==
    ASSUME ConstantsAssumption, OneProcess, OwnRuns
    PROVE  Spec => []LedgerIsHistory
<1>1. Init => MarkInv
  <2> SUFFICES ASSUME Init PROVE MarkInv
    OBVIOUS
  <2>1. Inv
    BY InvInit
  <2> QED
    BY <2>1 DEF MarkInv, Init, MarksMatchLog, Drained
<1>2. MarkInv /\ [Next]_vars => MarkInv'
  BY MarkKept
<1>3. MarkInv => LedgerIsHistory
  BY DEF MarkInv, Inv, LedgerIsHistory
<1> QED
  BY <1>1, <1>2, <1>3, PTL DEF Spec
===============================================================================
