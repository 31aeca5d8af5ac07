---------------------------- MODULE TerminalProofs ----------------------------
(***************************************************************************)
(* Theorems about TerminalExport, for any dispatches, exporters and bounds.  *)
(*                                                                         *)
(* The argument: only the run that holds the lock writes the sink           *)
(* (LockHeld), it writes what it read at one revision, and the ledger's      *)
(* revision grows with every commit.  So at the ledger's revision a record   *)
(* can only be what the ledger holds now (SinkAgrees), and a run that merges *)
(* into the sink finds there an older record or what it writes itself        *)
(* (RunFits).  A capture outlives the commit it is of; it stays true because  *)
(* what a dispatch accounts for changes only under a new accounting revision  *)
(* (CleanRemembered, RunRemembers).                                          *)
(***************************************************************************)
EXTENDS TerminalExport, TLAPS

USE AbsentAssumption, NobodyAssumption

Running(x) == At(x, "check") \/ At(x, "upsert")

\* Only the holder of the lock runs.
LockHeld == \A x \in Exporters : ~At(x, "idle") => lock = x

\* Nothing in the sink is ahead of the ledger.
SinkBehind ==
  /\ cursor <= revision
  /\ \A d \in Dispatches :
       sink[d] # NoRecord =>
         /\ rows[d] # NoRow
         /\ sink[d].source <= revision
         /\ sink[d].accounting <= rows[d].accounting
         /\ Valid(sink[d])

\* A record of the ledger's own revision is what the ledger holds.
SinkAgrees ==
  \A d \in Dispatches :
    sink[d] # NoRecord /\ sink[d].source = revision =>
      /\ Candidate(d) # NoRecord
      /\ SameContent(sink[d], Candidate(d))
      /\ Merged(sink[d], Candidate(d)) = sink[d]

\* What a run read is of one revision, which the cursor has not passed.
RunBehind ==
  \A x \in Exporters :
    Running(x) =>
      /\ exporter[x].source <= revision
      /\ cursor <= exporter[x].source
      /\ \A d \in Dispatches :
           exporter[x].todo[d] # NoRecord =>
             /\ exporter[x].todo[d].source = exporter[x].source
             /\ rows[d] # NoRow
             /\ exporter[x].todo[d].accounting <= rows[d].accounting
             /\ Valid(exporter[x].todo[d])

\* A run that read the ledger's own revision has written or will write all of it.
RunAgrees ==
  \A x \in Exporters :
    Running(x) /\ exporter[x].source = revision =>
      \A d \in Dispatches :
        \/ exporter[x].todo[d] = Candidate(d)
        \/ /\ exporter[x].todo[d] = NoRecord
           /\ sink[d] # NoRecord
           /\ sink[d].source = revision

\* What a run writes is newer than the sink, or the same.
RunFits ==
  \A x \in Exporters :
    Running(x) =>
      \A d \in Dispatches :
        sink[d] # NoRecord =>
          /\ sink[d].source <= exporter[x].source
          /\ exporter[x].todo[d] # NoRecord =>
               /\ sink[d].accounting <= exporter[x].todo[d].accounting
               /\ sink[d].source = exporter[x].source =>
                    Merged(sink[d], exporter[x].todo[d]) = sink[d]

\* The cursor at the ledger's revision stands for records of that revision.
CursorAgrees ==
  cursor = revision =>
    \A d \in Dispatches :
      Candidate(d) # NoRecord => sink[d] # NoRecord /\ sink[d].source = revision

\* A clean health captured at this accounting, of which this much is exact, is of a
\* commit that was clean.
Remembered(h, d, accounting, exact) ==
  h # NoHealth /\ h.clean /\ h.accounting = accounting /\ exact =>
    <<d, accounting>> \in cleanSeen

\* The present commit is remembered, and with it what a capture says of it.
CleanRemembered ==
  \A d \in Dispatches :
    rows[d] # NoRow =>
      /\ rows[d].eligible /\ rows[d].exact /\ healthy /\ Isolated(rows, connections) =>
           <<d, rows[d].accounting>> \in cleanSeen
      /\ sink[d] # NoRecord /\ sink[d].attributable # NoHealth =>
           /\ sink[d].attributable.accounting <= rows[d].accounting
           /\ Remembered(sink[d].attributable, d, rows[d].accounting, rows[d].exact)

\* So are the captures that a run will merge.
RunRemembers ==
  \A x \in Exporters :
    Running(x) =>
      \A d \in Dispatches :
        LET new == exporter[x].todo[d]
        IN  new # NoRecord =>
              /\ Remembered(new.attributable, d, new.accounting, new.exact)
              /\ new.attributable # NoHealth =>
                   /\ new.attributable.accounting <= rows[d].accounting
                   /\ Remembered(new.attributable, d, rows[d].accounting, rows[d].exact)
              /\ sink[d] # NoRecord =>
                   Remembered(sink[d].attributable, d, new.accounting, new.exact)

CleanInv == CleanRemembered /\ RunRemembers /\ CleanIsHonest

ExportInv ==
  /\ TypeOK /\ LockHeld /\ SinkBehind /\ SinkAgrees
  /\ RunBehind /\ RunAgrees /\ RunFits /\ CursorAgrees /\ NeverRefused

----------------------------------------------------------------------------
(* Records.                                                                  *)

\* A candidate is a record of the ledger's revision and of the dispatch's own.
LEMMA CandidateFacts ==
  ASSUME TypeOK, NEW d \in Dispatches
  PROVE  /\ Candidate(d) \in Record \cup {NoRecord}
         /\ Candidate(d) # NoRecord =>
              /\ rows[d] # NoRow
              /\ Candidate(d) \in Record
              /\ Candidate(d).source = revision
              /\ Candidate(d).accounting = rows[d].accounting
              /\ Valid(Candidate(d))
              /\ Candidate(d).exact = rows[d].exact
              /\ Candidate(d).attributable # NoHealth =>
                   /\ Candidate(d).attributable.accounting = rows[d].accounting
                   /\ Candidate(d).attributable.clean =>
                        rows[d].eligible /\ healthy /\ Isolated(rows, connections)
PROOF
<1>1. CASE d \in Present(rows) /\ rows[d].eligible
  <2> DEFINE captured == Isolated(rows, connections)
  <2>1. captured \in BOOLEAN
    BY DEF Isolated
  <2>2. rows[d] \in Row /\ rows[d] # NoRow
    BY <1>1 DEF TypeOK, Present
  <2> DEFINE h == IF captured
                  THEN [source |-> revision, accounting |-> rows[d].accounting,
                        clean |-> healthy]
                  ELSE NoHealth
  <2>3. h \in Health \cup {NoHealth}
    BY <2>1, <2>2 DEF TypeOK, Row, Health
  <2>4. Candidate(d) =
          [source |-> revision, accounting |-> rows[d].accounting,
           exact |-> rows[d].exact, current |-> healthy,
           attributable |-> h, clean |-> captured /\ healthy /\ rows[d].exact]
    BY <1>1 DEF Candidate
  <2>6. h # NoHealth =>
          captured /\ h.accounting = rows[d].accounting /\ (h.clean => healthy)
    OBVIOUS
  <2>9. /\ h # NoHealth => h.source = revision
        /\ (captured /\ healthy /\ rows[d].exact) =
             CleanBy(h, rows[d].accounting, rows[d].exact)
    BY <2>1, <2>2, <2>3 DEF CleanBy, Health, TypeOK, Row
  <2> HIDE DEF h
  <2>10. rows[d].accounting \in Nat /\ revision \in Nat
    BY <2>2 DEF TypeOK, Row
  <2>11. Valid(Candidate(d))
    <3>1. h # NoHealth => h.source <= revision /\ h.accounting <= rows[d].accounting
      BY <2>6, <2>9, <2>10
    <3> QED BY <2>4, <2>9, <3>1 DEF Valid
  <2>7. Candidate(d) # NoRecord =>
          /\ Candidate(d).exact = rows[d].exact
          /\ Candidate(d).attributable = h
          /\ Candidate(d).source = revision
          /\ Candidate(d).accounting = rows[d].accounting
    BY <2>4
  <2>8. Candidate(d).attributable # NoHealth =>
          /\ Candidate(d).attributable.accounting = rows[d].accounting
          /\ Candidate(d).attributable.clean =>
               rows[d].eligible /\ healthy /\ Isolated(rows, connections)
    BY <1>1, <2>4, <2>6
  <2> HIDE DEF captured
  <2>5. Candidate(d) \in Record
    BY <2>1, <2>2, <2>3, <2>4 DEF TypeOK, Row, Record
  <2> QED BY <2>2, <2>5, <2>7, <2>8, <2>11
<1>2. CASE ~(d \in Present(rows) /\ rows[d].eligible)
  BY <1>2 DEF Candidate
<1> QED BY <1>1, <1>2

\* Merging yields a record with the content of the new one, and merging again the same.
LEMMA MergedFacts ==
  ASSUME NEW old \in Record \cup {NoRecord}, NEW new \in Record
  PROVE  /\ Merged(old, new) \in Record
         /\ SameContent(Merged(old, new), new)
         /\ Merged(Merged(old, new), new) = Merged(old, new)
         /\ \/ Merged(old, new).attributable = new.attributable
            \/ old # NoRecord /\ Merged(old, new).attributable = old.attributable
         /\ Merged(old, new).clean =
              CleanBy(Merged(old, new).attributable, Merged(old, new).accounting,
                      Merged(old, new).exact)
PROOF
<1> DEFINE h == Retained(old, new)
           ok == CleanBy(h, new.accounting, new.exact)
           merged == [new EXCEPT !.attributable = h, !.clean = ok]
<1>1. Merged(old, new) = merged
  BY DEF Merged
<1>2. h \in Health \cup {NoHealth}
  BY DEF Record, Retained
<1>3. ok \in BOOLEAN
  BY DEF CleanBy
<1> HIDE DEF h, ok
<1>4. /\ merged \in Record
      /\ merged.source = new.source /\ merged.accounting = new.accounting
      /\ merged.exact = new.exact /\ merged.current = new.current
      /\ merged.attributable = h /\ merged.clean = ok
  BY <1>2, <1>3 DEF Record
<1>5. merged # NoRecord
  BY <1>4
<1>6. Retained(merged, new) = h
  BY <1>4, <1>5 DEF Retained, h
<1>7. Merged(merged, new) = merged
  BY <1>6 DEF Merged, ok
<1>8. h = new.attributable \/ (old # NoRecord /\ h = old.attributable)
  BY DEF h, Retained
<1>9. merged.clean = CleanBy(merged.attributable, merged.accounting, merged.exact)
  BY <1>4 DEF ok
<1> HIDE DEF merged
<1> QED BY <1>1, <1>4, <1>7, <1>8, <1>9 DEF SameContent

\* Merging valid records, the new one not behind the old one, yields a valid one.
LEMMA MergedValid ==
  ASSUME NEW old \in Record \cup {NoRecord}, NEW new \in Record, Valid(new),
         old # NoRecord => /\ Valid(old) /\ old.source <= new.source
                           /\ old.accounting <= new.accounting
  PROVE  Valid(Merged(old, new))
PROOF
<1> DEFINE merged == Merged(old, new)
<1>1. /\ merged \in Record /\ SameContent(merged, new)
      /\ \/ merged.attributable = new.attributable
         \/ old # NoRecord /\ merged.attributable = old.attributable
      /\ merged.clean = CleanBy(merged.attributable, merged.accounting, merged.exact)
  BY MergedFacts
<1> HIDE DEF merged
<1>2. merged.source = new.source /\ merged.accounting = new.accounting
  BY <1>1 DEF SameContent
<1>3. merged.source \in Nat /\ merged.accounting \in Nat
  BY <1>1 DEF Record
<1> DEFINE Past == merged.attributable # NoHealth =>
                     /\ merged.attributable.source <= merged.source
                     /\ merged.attributable.accounting <= merged.accounting
<1>4. ASSUME merged.attributable = new.attributable PROVE Past
  BY <1>2, <1>4 DEF Valid
<1>5. ASSUME old # NoRecord, merged.attributable = old.attributable PROVE Past
  <2>1. /\ old.source \in Nat /\ old.accounting \in Nat
        /\ old.attributable # NoHealth =>
             old.attributable.source \in Nat /\ old.attributable.accounting \in Nat
    BY <1>5 DEF Record, Health
  <2> QED BY <1>2, <1>3, <1>5, <2>1 DEF Valid
<1>6. Past
  BY <1>1, <1>4, <1>5
<1>7. Valid(merged)
  BY <1>1, <1>6 DEF Valid
<1> QED BY <1>7 DEF merged

----------------------------------------------------------------------------
(* Steps.                                                                    *)

\* A row changes what it accounts for only under a new revision of its own.
Follows(old, new) ==
  /\ new.accounting >= old.accounting
  /\ new.accounting = old.accounting => new.exact = old.exact

\* What every commit of the ledger does, whichever transaction it is.
WriterStep ==
  /\ revision' = revision + 1
  /\ rows' \in [Dispatches -> Row \cup {NoRow}]
  /\ connections' \in 0 .. 2 /\ healthy' \in BOOLEAN
  /\ cleanSeen' \subseteq Dispatches \X Nat
  /\ \A d \in Dispatches :
       rows[d] # NoRow => rows'[d] # NoRow /\ Follows(rows[d], rows'[d])
  /\ cleanSeen \subseteq cleanSeen'
  /\ \A d \in Dispatches :
       /\ rows'[d] # NoRow /\ rows'[d].eligible /\ rows'[d].exact
       /\ healthy' /\ Isolated(rows', connections')
       => <<d, rows'[d].accounting>> \in cleanSeen'
  /\ UNCHANGED <<sinkVars, runVars>>

\* A commit of well-formed tables that lose no row is such a step.
LEMMA CommittedStep ==
  ASSUME TypeOK, NEW tbl \in [Dispatches -> Row \cup {NoRow}],
         NEW conns \in 0 .. 2, NEW health \in BOOLEAN, Committed(tbl, conns, health),
         \A d \in Dispatches :
           rows[d] # NoRow => tbl[d] # NoRow /\ Follows(rows[d], tbl[d])
  PROVE  WriterStep
PROOF
<1>1. \A d \in Present(tbl) : d \in Dispatches /\ tbl[d].accounting \in Nat
  BY DEF Present, Row
<1>2. cleanSeen' \subseteq Dispatches \X Nat
  BY <1>1 DEF Committed, TypeOK
<1>3. cleanSeen \subseteq cleanSeen'
  BY DEF Committed
<1>4. \A d \in Dispatches :
        tbl[d] # NoRow /\ tbl[d].eligible /\ tbl[d].exact /\ health /\ Isolated(tbl, conns)
        => <<d, tbl[d].accounting>> \in cleanSeen'
  BY DEF Committed, Present
<1>5. rows' = tbl /\ connections' = conns /\ healthy' = health
  BY DEF Committed
<1> QED BY <1>2, <1>3, <1>4, <1>5 DEF Committed, WriterStep

\* Changing who is eligible keeps the rows' type and accounting.
LEMMA WithEligibleFacts ==
  ASSUME TypeOK, NEW eligible
  PROVE  /\ WithEligible(eligible) \in [Dispatches -> Row \cup {NoRow}]
         /\ \A d \in Dispatches :
              rows[d] # NoRow =>
                /\ WithEligible(eligible)[d] # NoRow
                /\ WithEligible(eligible)[d].accounting = rows[d].accounting
                /\ WithEligible(eligible)[d].exact = rows[d].exact
PROOF
<1>1. ASSUME NEW d \in Dispatches, rows[d] # NoRow
      PROVE  /\ WithEligible(eligible)[d] \in Row
             /\ WithEligible(eligible)[d].accounting = rows[d].accounting
             /\ WithEligible(eligible)[d].exact = rows[d].exact
  <2>1. rows[d] \in Row
    BY <1>1 DEF TypeOK
  <2> DEFINE e == d \in eligible
  <2>2. WithEligible(eligible)[d] = [rows[d] EXCEPT !.eligible = e]
    BY <1>1 DEF WithEligible, Present
  <2>3. e \in BOOLEAN
    OBVIOUS
  <2> HIDE DEF e
  <2> QED BY <2>1, <2>2, <2>3 DEF Row
<1>2. ASSUME NEW d \in Dispatches, rows[d] = NoRow
      PROVE  WithEligible(eligible)[d] = NoRow
  BY <1>2 DEF WithEligible, Present
<1>3. WithEligible(eligible) = [d \in Dispatches |-> WithEligible(eligible)[d]]
  BY DEF WithEligible
<1> QED BY <1>1, <1>2, <1>3

\* Every transaction is such a step.
LEMMA WriterSteps ==
  ASSUME TypeOK, Writer
  PROVE  WriterStep
PROOF
<1>1. CASE RegisterConnection
  <2>1. connections + 1 \in 0 .. 2
    BY <1>1 DEF RegisterConnection, TypeOK
  <2> QED BY <1>1, <2>1, CommittedStep DEF RegisterConnection, TypeOK, Row, Follows
<1>2. ASSUME NEW d \in Dispatches, RecordSubmission(d)
      PROVE  WriterStep
  <2> DEFINE row == [accounting |-> 0, eligible |-> FALSE, exact |-> FALSE]
             tbl == [rows EXCEPT ![d] = row]
  <2>1. row \in Row
    BY DEF Row
  <2>2. tbl \in [Dispatches -> Row \cup {NoRow}] /\ tbl[d] = row
    BY <2>1 DEF TypeOK
  <2>3. \A e \in Dispatches :
          rows[e] # NoRow => tbl[e] = rows[e] /\ rows[e].accounting \in Nat
    BY <1>2 DEF RecordSubmission, TypeOK, Row
  <2>4. Committed(tbl, connections, healthy)
    BY <1>2 DEF RecordSubmission
  <2> HIDE DEF tbl
  <2>5. \A e \in Dispatches :
          rows[e] # NoRow => tbl[e] # NoRow /\ Follows(rows[e], tbl[e])
    BY <2>3 DEF Follows
  <2> QED BY <2>2, <2>4, <2>5, CommittedStep DEF TypeOK
<1>3. ASSUME NEW eligible, NEW health \in BOOLEAN, ChangeHealth(eligible, health)
      PROVE  WriterStep
  <2>1. \A e \in Dispatches : rows[e] # NoRow => rows[e].accounting \in Nat
    BY DEF TypeOK, Row
  <2>2. Committed(WithEligible(eligible), connections, health)
    BY <1>3 DEF ChangeHealth
  <2>3. connections \in 0 .. 2
    BY DEF TypeOK
  <2> QED BY <2>1, <2>2, <2>3, WithEligibleFacts, CommittedStep DEF Follows
<1>4. ASSUME NEW changed, NEW eligible, NEW exact, NEW health \in BOOLEAN,
             ChangeDispatches(changed, eligible, exact, health)
      PROVE  WriterStep
  <2> DEFINE row(d) == [accounting |-> rows[d].accounting + 1,
                        eligible |-> d \in eligible, exact |-> d \in exact]
             tbl == [d \in Dispatches |->
                       IF d \in changed THEN row(d) ELSE WithEligible(eligible)[d]]
  <2>1. \A d \in Dispatches : rows[d] # NoRow => rows[d].accounting \in Nat
    BY DEF TypeOK, Row
  <2>2. \A d \in changed : d \in Dispatches /\ rows[d] # NoRow
    BY <1>4 DEF ChangeDispatches, Present
  <2>3. \A d \in changed : row(d) \in Row /\ row(d).accounting = rows[d].accounting + 1
    BY <2>1, <2>2 DEF Row
  <2> HIDE DEF row
  <2>4. tbl \in [Dispatches -> Row \cup {NoRow}]
    BY <2>3, WithEligibleFacts
  <2>5. \A d \in Dispatches :
          rows[d] # NoRow => tbl[d] # NoRow /\ Follows(rows[d], tbl[d])
    <3> SUFFICES ASSUME NEW d \in Dispatches, rows[d] # NoRow
                 PROVE  tbl[d] # NoRow /\ Follows(rows[d], tbl[d])
      OBVIOUS
    <3>1. CASE d \in changed
      BY <3>1, <2>1, <2>3 DEF Follows
    <3>2. CASE d \notin changed
      BY <3>2, <2>1, WithEligibleFacts DEF Follows
    <3> QED BY <3>1, <3>2
  <2>6. Committed(tbl, connections, health)
    BY <1>4 DEF ChangeDispatches, row
  <2>7. connections \in 0 .. 2
    BY DEF TypeOK
  <2> HIDE DEF tbl
  <2> QED BY <2>4, <2>5, <2>6, <2>7, CommittedStep
<1> QED BY <1>1, <1>2, <1>3, <1>4 DEF Writer

----------------------------------------------------------------------------
(* Type correctness.                                                         *)

\* Ending a run keeps the types.
LEMMA ReleaseType ==
  ASSUME TypeOK, NEW x \in Exporters, Release(x)
  PROVE  /\ exporter' \in [Exporters -> Local]
         /\ lock' \in Exporters \cup {Nobody}
PROOF
<1>1. Idle \in Local
  BY DEF Idle, Local, Nothing
<1> QED BY <1>1 DEF TypeOK, Release

\* Every step keeps the types.
LEMMA TypeStep ==
  ASSUME TypeOK, [Next]_vars
  PROVE  TypeOK'
PROOF
<1>1. CASE Writer
  <2>1. WriterStep
    BY <1>1, WriterSteps
  <2> QED BY <2>1 DEF WriterStep, TypeOK, sinkVars, runVars
<1>2. ASSUME NEW x \in Exporters, Lock(x)
      PROVE  TypeOK'
  <2>1. [exporter[x] EXCEPT !.at = "read"] \in Local
    BY DEF TypeOK, Local
  <2>2. exporter' = [exporter EXCEPT ![x] = [exporter[x] EXCEPT !.at = "read"]]
    BY <1>2 DEF Lock
  <2> QED BY <1>2, <2>1, <2>2 DEF Lock, TypeOK, ledgerVars, sinkVars
<1>3. ASSUME NEW x \in Exporters, ReadSource(x)
      PROVE  TypeOK'
  <2>1. [d \in Dispatches |-> Candidate(d)] \in [Dispatches -> Record \cup {NoRecord}]
    BY CandidateFacts
  <2>2. [at |-> "check", source |-> revision,
         todo |-> [d \in Dispatches |-> Candidate(d)]] \in Local
    BY <2>1 DEF TypeOK, Local
  <2> QED BY <1>3, <2>2 DEF ReadSource, TypeOK, ledgerVars, sinkVars
<1>4. ASSUME NEW x \in Exporters, CheckCursor(x)
      PROVE  TypeOK'
  <2>1. UNCHANGED <<ledgerVars, sinkVars, failures>>
    BY <1>4 DEF CheckCursor
  <2>2. CASE Release(x) /\ refused' = (refused \/ exporter[x].source < cursor)
    BY <2>1, <2>2, ReleaseType DEF TypeOK, ledgerVars, sinkVars
  <2>3. CASE /\ exporter' = [exporter EXCEPT ![x].at = "upsert"]
             /\ UNCHANGED <<lock, refused>>
    <3>1. [exporter[x] EXCEPT !.at = "upsert"] \in Local
      BY DEF TypeOK, Local
    <3>2. exporter' = [exporter EXCEPT ![x] = [exporter[x] EXCEPT !.at = "upsert"]]
      BY <2>3
    <3> QED BY <2>1, <2>3, <3>1, <3>2 DEF TypeOK, ledgerVars, sinkVars
  <2> QED BY <1>4, <2>2, <2>3 DEF CheckCursor
<1>5. ASSUME NEW x \in Exporters, NEW d \in Dispatches, Upsert(x, d)
      PROVE  TypeOK'
  <2> DEFINE new == exporter[x].todo[d]
  <2>1. UNCHANGED <<ledgerVars, cursor, failures>> /\ new # NoRecord
    BY <1>5 DEF Upsert
  <2>2. CASE Release(x) /\ refused' = TRUE /\ UNCHANGED sink
    BY <2>1, <2>2, ReleaseType DEF TypeOK, ledgerVars
  <2>3. CASE /\ sink' = [sink EXCEPT ![d] = Merged(sink[d], new)]
             /\ exporter' = [exporter EXCEPT ![x].todo[d] = NoRecord]
             /\ UNCHANGED <<lock, refused>>
    <3> DEFINE todo == [exporter[x].todo EXCEPT ![d] = NoRecord]
    <3>1. todo \in [Dispatches -> Record \cup {NoRecord}] /\ new \in Record
      BY <2>1 DEF TypeOK, Local
    <3>2. [exporter[x] EXCEPT !.todo = todo] \in Local
      BY <3>1 DEF TypeOK, Local
    <3>3. exporter' = [exporter EXCEPT ![x] = [exporter[x] EXCEPT !.todo = todo]]
      BY <2>3
    <3>4. exporter' \in [Exporters -> Local]
      BY <3>2, <3>3 DEF TypeOK
    <3>5. Merged(sink[d], new) \in Record
      BY <3>1, MergedFacts DEF TypeOK
    <3>6. sink' \in [Dispatches -> Record \cup {NoRecord}]
      BY <2>3, <3>5 DEF TypeOK
    <3> QED BY <2>1, <2>3, <3>4, <3>6 DEF TypeOK, ledgerVars
  <2> QED BY <1>5, <2>2, <2>3 DEF Upsert
<1>6. ASSUME NEW x \in Exporters, AdvanceCursor(x)
      PROVE  TypeOK'
  <2>1. exporter[x].source \in Nat
    BY DEF TypeOK, Local
  <2> QED BY <1>6, <2>1, ReleaseType DEF AdvanceCursor, TypeOK, ledgerVars
<1>7. ASSUME NEW x \in Exporters, Fail(x)
      PROVE  TypeOK'
  BY <1>7, ReleaseType DEF Fail, TypeOK, ledgerVars, sinkVars
<1>8. CASE UNCHANGED vars
  BY <1>8 DEF TypeOK, vars, ledgerVars, sinkVars, runVars
<1> QED BY <1>1, <1>2, <1>3, <1>4, <1>5, <1>6, <1>7, <1>8 DEF Next, Export

\* The initial state is of the types.
LEMMA TypeInit ==
  ASSUME Init
  PROVE  TypeOK
PROOF
<1>1. Nothing \in [Dispatches -> Record \cup {NoRecord}]
  BY DEF Nothing
<1>2. Idle \in Local
  BY <1>1 DEF Idle, Local
<1>3. cleanSeen \subseteq Dispatches \X Nat
  BY DEF Init
<1>4. rows \in [Dispatches -> Row \cup {NoRow}]
  BY DEF Init
<1>5. exporter \in [Exporters -> Local]
  BY <1>2 DEF Init
<1>6. /\ revision \in Nat /\ cursor \in Nat /\ failures \in Nat
      /\ connections \in 0 .. 2
  BY DEF Init
<1>7. healthy \in BOOLEAN /\ refused \in BOOLEAN /\ lock \in Exporters \cup {Nobody}
  BY DEF Init
<1>8. sink \in [Dispatches -> Record \cup {NoRecord}]
  BY <1>1 DEF Init
<1> QED BY <1>3, <1>4, <1>5, <1>6, <1>7, <1>8 DEF TypeOK

\* Every variable keeps its type.
THEOREM TypeCorrect == Spec => []TypeOK
  BY TypeInit, TypeStep, PTL DEF Spec

----------------------------------------------------------------------------
(* The inductive invariant.                                                  *)

\* It holds before anything is exported.
LEMMA InvInit ==
  ASSUME Init, TypeOK
  PROVE  ExportInv
PROOF
<1>1. \A d \in Dispatches : sink[d] = NoRecord
  BY DEF Init, Nothing
<1>2. \A x \in Exporters : At(x, "idle") /\ ~Running(x)
  BY DEF Init, At, Idle, Running
<1>3. cursor = 0 /\ revision = 1 /\ ~refused
  BY DEF Init
<1> QED
  BY <1>1, <1>2, <1>3 DEF ExportInv, LockHeld, SinkBehind, SinkAgrees, RunBehind,
     RunAgrees, RunFits, CursorAgrees, NeverRefused

\* A commit leaves everything that was exported or read behind it.
LEMMA WriterInv ==
  ASSUME ExportInv, WriterStep, TypeOK'
  PROVE  ExportInv'
PROOF
<1> USE DEF At, Running
<1>1. revision' = revision + 1 /\ revision \in Nat /\ cursor \in Nat
  BY DEF WriterStep, ExportInv, TypeOK
<1>2. /\ sink' = sink /\ cursor' = cursor /\ lock' = lock /\ exporter' = exporter
      /\ refused' = refused
  BY DEF WriterStep, sinkVars, runVars
<1>3. \A d \in Dispatches :
        rows[d] # NoRow => rows'[d] # NoRow /\ rows'[d].accounting >= rows[d].accounting
  BY DEF WriterStep, Follows
<1>4. \A d \in Dispatches :
        /\ rows[d] # NoRow => rows[d].accounting \in Nat
        /\ rows'[d] # NoRow => rows'[d].accounting \in Nat
        /\ sink[d] # NoRecord => sink[d].source \in Nat /\ sink[d].accounting \in Nat
        /\ \A x \in Exporters :
             /\ exporter[x].source \in Nat
             /\ exporter[x].todo[d] # NoRecord =>
                  exporter[x].todo[d].accounting \in Nat
  BY DEF ExportInv, TypeOK, Row, Record, Local
<1>5. \A x \in Exporters : exporter[x].source \in Nat
  BY DEF ExportInv, TypeOK, Local
<1>6. LockHeld' /\ NeverRefused'
  BY <1>2 DEF ExportInv, LockHeld, NeverRefused
<1>7. SinkBehind'
  BY <1>1, <1>2, <1>3, <1>4 DEF ExportInv, SinkBehind
<1>8. SinkAgrees' /\ CursorAgrees'
  BY <1>1, <1>2, <1>4 DEF ExportInv, SinkBehind, SinkAgrees, CursorAgrees
<1>9. RunBehind'
  BY <1>1, <1>2, <1>3, <1>4, <1>5 DEF ExportInv, RunBehind
<1>10. RunAgrees'
  BY <1>1, <1>2, <1>5 DEF ExportInv, RunBehind, RunAgrees
<1>11. RunFits'
  BY <1>2 DEF ExportInv, RunFits
<1> QED BY <1>6, <1>7, <1>8, <1>9, <1>10, <1>11 DEF ExportInv

\* An exporter that writes nothing and ends, or takes the lock, keeps it.
LEMMA RunsOnlyInv ==
  ASSUME ExportInv, TypeOK', UNCHANGED <<ledgerVars, sinkVars>>, ~refused',
         LockHeld',
         \A x \in Exporters :
           Running(x)' => Running(x) /\ /\ exporter'[x].source = exporter[x].source
                                        /\ exporter'[x].todo = exporter[x].todo
  PROVE  ExportInv'
PROOF
<1>1. /\ sink' = sink /\ cursor' = cursor /\ revision' = revision /\ rows' = rows
      /\ healthy' = healthy /\ connections' = connections
  BY DEF ledgerVars, sinkVars
<1>2. \A d \in Dispatches : Candidate(d)' = Candidate(d)
  BY <1>1 DEF Candidate
<1>3. SinkBehind' /\ SinkAgrees' /\ CursorAgrees'
  BY <1>1, <1>2 DEF ExportInv, SinkBehind, SinkAgrees, CursorAgrees
<1>4. RunBehind'
  BY <1>1 DEF ExportInv, RunBehind
<1>5. RunAgrees'
  BY <1>1, <1>2 DEF ExportInv, RunAgrees
<1>6. RunFits'
  BY <1>1 DEF ExportInv, RunFits
<1> QED BY <1>3, <1>4, <1>5, <1>6 DEF ExportInv, NeverRefused

\* Reading a revision under the lock.
LEMMA ReadSourceInv ==
  ASSUME ExportInv, NEW x \in Exporters, ReadSource(x), TypeOK'
  PROVE  ExportInv'
PROOF
<1> USE DEF At, Running
<1>1. UNCHANGED <<ledgerVars, sinkVars, lock, refused>> /\ ~At(x, "idle")
  BY DEF ReadSource
<1>2. /\ sink' = sink /\ cursor' = cursor /\ revision' = revision /\ rows' = rows
      /\ healthy' = healthy /\ connections' = connections /\ lock' = lock
  BY <1>1 DEF ledgerVars, sinkVars
<1>3. \A d \in Dispatches : Candidate(d)' = Candidate(d)
  BY <1>2 DEF Candidate
<1>4. /\ exporter'[x] = [at |-> "check", source |-> revision,
                         todo |-> [d \in Dispatches |-> Candidate(d)]]
      /\ \A y \in Exporters \ {x} : exporter'[y] = exporter[y]
  BY DEF ReadSource, ExportInv, TypeOK
<1>5. /\ exporter'[x].source = revision
      /\ \A d \in Dispatches : exporter'[x].todo[d] = Candidate(d)
  BY <1>4
<1>6. \A y \in Exporters \ {x} : ~Running(y)'
  BY <1>1, <1>4 DEF ExportInv, LockHeld
<1>7. LockHeld'
  BY <1>1, <1>4 DEF ExportInv, LockHeld
<1>8. SinkBehind' /\ SinkAgrees' /\ CursorAgrees'
  BY <1>2, <1>3 DEF ExportInv, SinkBehind, SinkAgrees, CursorAgrees
<1>9. RunBehind'
  <2>1. \A d \in Dispatches : rows[d] # NoRow => rows[d].accounting \in Nat
    BY DEF ExportInv, TypeOK, Row
  <2>2. revision \in Nat
    BY DEF ExportInv, TypeOK
  <2>3. \A d \in Dispatches :
          Candidate(d) # NoRecord =>
            /\ rows[d] # NoRow
            /\ Candidate(d).source = revision
            /\ Candidate(d).accounting <= rows[d].accounting
            /\ Valid(Candidate(d))
    BY <2>1, CandidateFacts DEF ExportInv
  <2>4. \A d \in Dispatches :
          exporter'[x].todo[d] # NoRecord => Valid(exporter[x].todo[d])'
    BY <1>5, <2>3 DEF Valid
  <2> QED BY <1>2, <1>5, <1>6, <2>2, <2>3, <2>4 DEF ExportInv, SinkBehind, RunBehind
<1>10. RunAgrees'
  BY <1>3, <1>5, <1>6 DEF RunAgrees
<1>11. RunFits'
  <2>1. \A d \in Dispatches :
          Candidate(d) # NoRecord => Candidate(d).accounting = rows[d].accounting
    BY CandidateFacts DEF ExportInv
  <2> QED BY <1>2, <1>5, <1>6, <2>1 DEF ExportInv, SinkBehind, SinkAgrees, RunFits
<1> QED
  BY <1>1, <1>7, <1>8, <1>9, <1>10, <1>11 DEF ExportInv, NeverRefused

\* Comparing with the cursor: a run that ends finds its revision exported.
LEMMA CheckCursorInv ==
  ASSUME ExportInv, NEW x \in Exporters, CheckCursor(x), TypeOK'
  PROVE  ExportInv'
PROOF
<1> USE DEF At, Running
<1>1. /\ exporter[x].source \in Nat /\ cursor \in Nat
      /\ exporter \in [Exporters -> Local]
  BY DEF ExportInv, TypeOK, Local
<1>2. cursor <= exporter[x].source /\ ~refused
  BY DEF ExportInv, RunBehind, NeverRefused, CheckCursor
<1>3. UNCHANGED <<ledgerVars, sinkVars>>
  BY DEF CheckCursor
<1>4. CASE /\ exporter' = [exporter EXCEPT ![x].at = "upsert"]
           /\ UNCHANGED <<lock, refused>>
  <2>1. /\ exporter'[x].source = exporter[x].source
        /\ exporter'[x].todo = exporter[x].todo
        /\ exporter'[x].at = "upsert"
        /\ \A y \in Exporters \ {x} : exporter'[y] = exporter[y]
    BY <1>1, <1>4 DEF Local
  <2>2. exporter[x].at = "check"
    BY DEF CheckCursor
  <2>3. LockHeld'
    BY <1>4, <2>1, <2>2 DEF ExportInv, LockHeld
  <2> QED BY <1>2, <1>3, <1>4, <2>1, <2>2, <2>3, RunsOnlyInv
<1>5. CASE Release(x) /\ refused' = (refused \/ exporter[x].source < cursor)
  <2>1. /\ exporter'[x] = Idle
        /\ \A y \in Exporters \ {x} : exporter'[y] = exporter[y]
    BY <1>1, <1>5 DEF Release
  <2>2. ~(exporter[x].source < cursor)
    BY <1>1, <1>2
  <2>3. LockHeld'
    BY <1>5, <2>1 DEF ExportInv, LockHeld, Release, Idle
  <2>4. ~refused'
    BY <1>2, <1>5, <2>2
  <2> QED BY <1>3, <2>1, <2>3, <2>4, RunsOnlyInv DEF Idle
<1> QED BY <1>4, <1>5 DEF CheckCursor

\* Writing one record never meets a newer or a different one.
LEMMA UpsertInv ==
  ASSUME ExportInv, NEW x \in Exporters, NEW d \in Dispatches, Upsert(x, d), TypeOK'
  PROVE  ExportInv'
PROOF
<1> USE DEF At, Running
<1> DEFINE new == exporter[x].todo[d]
<1>1. /\ new \in Record /\ new # NoRecord
      /\ exporter[x].at = "upsert" /\ lock = x
      /\ UNCHANGED <<ledgerVars, cursor>>
  BY DEF Upsert, ExportInv, TypeOK, Local, LockHeld
<1>2. /\ new.source = exporter[x].source /\ new.source <= revision
      /\ cursor <= new.source
      /\ rows[d] # NoRow /\ new.accounting <= rows[d].accounting
  BY <1>1 DEF ExportInv, RunBehind
<1>3. ~Refuses(sink[d], new)
  <2>1. sink[d] # NoRecord => /\ sink[d].source \in Nat /\ sink[d].accounting \in Nat
                              /\ new.source \in Nat /\ new.accounting \in Nat
    BY <1>1 DEF ExportInv, TypeOK, Record
  <2>2. sink[d] # NoRecord =>
          /\ sink[d].source <= new.source /\ sink[d].accounting <= new.accounting
          /\ sink[d].source = new.source => Merged(sink[d], new) = sink[d]
    BY <1>1, <1>2 DEF ExportInv, RunFits
  <2>3. Valid(new) /\ (sink[d] # NoRecord => Valid(sink[d]))
    BY <1>1 DEF ExportInv, RunBehind, SinkBehind
  <2>4. Valid(Merged(sink[d], new))
    BY <1>1, <2>2, <2>3, MergedValid DEF ExportInv, TypeOK
  <2>5. sink[d] # NoRecord => ~(new.source < sink[d].source)
                              /\ ~(new.accounting < sink[d].accounting)
    BY <2>1, <2>2
  <2> QED BY <2>2, <2>3, <2>4, <2>5 DEF Refuses
<1>4. /\ sink' = [sink EXCEPT ![d] = Merged(sink[d], new)]
      /\ exporter' = [exporter EXCEPT ![x].todo[d] = NoRecord]
      /\ UNCHANGED <<lock, refused>>
  BY <1>3 DEF Upsert
<1> DEFINE merged == Merged(sink[d], new)
<1>5. /\ merged \in Record /\ SameContent(merged, new)
      /\ Merged(merged, new) = merged
  BY <1>1, MergedFacts DEF ExportInv, TypeOK
<1>6. /\ sink'[d] = merged /\ merged # NoRecord
      /\ \A e \in Dispatches \ {d} : sink'[e] = sink[e]
  BY <1>4, <1>5 DEF ExportInv, TypeOK
<1>7. /\ exporter'[x].at = "upsert" /\ exporter'[x].source = exporter[x].source
      /\ exporter'[x].todo[d] = NoRecord
      /\ \A e \in Dispatches \ {d} : exporter'[x].todo[e] = exporter[x].todo[e]
      /\ \A y \in Exporters \ {x} : exporter'[y] = exporter[y] /\ exporter[y].at = "idle"
  BY <1>1, <1>4 DEF ExportInv, TypeOK, Local, LockHeld
<1>8. /\ cursor' = cursor /\ revision' = revision /\ rows' = rows
      /\ healthy' = healthy /\ connections' = connections
  BY <1>1 DEF ledgerVars
<1>9. \A e \in Dispatches : Candidate(e)' = Candidate(e)
  BY <1>8 DEF Candidate
<1>10. merged.source = new.source /\ merged.accounting = new.accounting
  BY <1>5 DEF SameContent
<1> HIDE DEF new, merged
<1>11. LockHeld'
  BY <1>1, <1>4, <1>7 DEF ExportInv, LockHeld
<1>12. SinkBehind'
  <2>1. Valid(merged)
    BY <1>3 DEF Refuses, merged
  <2>2. \A e \in Dispatches : sink'[e] # NoRecord => Valid(sink[e])'
    BY <1>6, <2>1 DEF ExportInv, SinkBehind, Valid
  <2> QED BY <1>2, <1>6, <1>8, <1>10, <2>2 DEF ExportInv, SinkBehind
<1>13. SinkAgrees'
  <2>1. new.source = revision => new = Candidate(d)
    BY <1>1, <1>2 DEF ExportInv, RunAgrees, new
  <2>2. merged.source = revision =>
          /\ Candidate(d) # NoRecord /\ SameContent(merged, Candidate(d))
          /\ Merged(merged, Candidate(d)) = merged
    BY <1>1, <1>5, <1>10, <2>1
  <2> QED BY <1>6, <1>8, <1>9, <2>2 DEF ExportInv, SinkAgrees
<1>14. RunBehind'
  BY <1>1, <1>7, <1>8 DEF ExportInv, RunBehind
<1>15. RunAgrees'
  BY <1>1, <1>2, <1>6, <1>7, <1>8, <1>9, <1>10 DEF ExportInv, RunAgrees
<1>16. RunFits'
  <2>1. new.source <= exporter[x].source
    BY <1>1, <1>2 DEF Record
  <2> QED BY <1>1, <1>6, <1>7, <1>10, <2>1 DEF ExportInv, RunFits
<1>17. CursorAgrees'
  <2>1. cursor = revision => new.source = revision
    BY <1>1, <1>2 DEF ExportInv, TypeOK, Record
  <2> QED BY <1>6, <1>8, <1>9, <1>10, <2>1 DEF ExportInv, CursorAgrees
<1> QED
  BY <1>4, <1>11, <1>12, <1>13, <1>14, <1>15, <1>16, <1>17 DEF ExportInv, NeverRefused

\* The cursor is written when every record is.
LEMMA AdvanceCursorInv ==
  ASSUME ExportInv, NEW x \in Exporters, AdvanceCursor(x), TypeOK'
  PROVE  ExportInv'
PROOF
<1> USE DEF At, Running
<1>1. /\ exporter[x].at = "upsert" /\ exporter[x].todo = Nothing
      /\ cursor' = exporter[x].source /\ Release(x)
      /\ UNCHANGED <<ledgerVars, sink, refused>>
  BY DEF AdvanceCursor
<1>2. /\ sink' = sink /\ revision' = revision /\ rows' = rows
      /\ healthy' = healthy /\ connections' = connections
  BY <1>1 DEF ledgerVars
<1>3. \A d \in Dispatches : Candidate(d)' = Candidate(d)
  BY <1>2 DEF Candidate
<1>4. /\ exporter'[x] = Idle
      /\ \A y \in Exporters \ {x} : exporter'[y] = exporter[y]
  BY <1>1 DEF Release, ExportInv, TypeOK
<1>5. \A y \in Exporters : exporter'[y].at = "idle"
  BY <1>1, <1>4 DEF ExportInv, LockHeld, Idle
<1>6. LockHeld' /\ RunBehind' /\ RunAgrees' /\ RunFits'
  BY <1>5 DEF LockHeld, RunBehind, RunAgrees, RunFits
<1>7. SinkBehind' /\ SinkAgrees'
  BY <1>1, <1>2, <1>3 DEF ExportInv, SinkBehind, SinkAgrees, RunBehind
<1>8. CursorAgrees'
  <2> SUFFICES ASSUME exporter[x].source = revision, NEW d \in Dispatches,
                      Candidate(d) # NoRecord
               PROVE  sink[d] # NoRecord /\ sink[d].source = revision
    BY <1>1, <1>2, <1>3 DEF CursorAgrees
  <2>1. exporter[x].todo[d] = NoRecord
    BY <1>1 DEF Nothing
  <2> QED BY <1>1, <2>1 DEF ExportInv, RunAgrees
<1> QED BY <1>1, <1>6, <1>7, <1>8 DEF ExportInv, NeverRefused

\* Every step keeps the invariant.
LEMMA InvStep ==
  ASSUME ExportInv, [Next]_vars
  PROVE  ExportInv'
PROOF
<1>1. TypeOK'
  BY TypeStep DEF ExportInv
<1>2. CASE Writer
  BY <1>1, <1>2, WriterSteps, WriterInv DEF ExportInv
<1>3. ASSUME NEW x \in Exporters, Lock(x)
      PROVE  ExportInv'
  <2>1. /\ UNCHANGED <<ledgerVars, sinkVars, refused>> /\ lock = Nobody /\ lock' = x
        /\ At(x, "idle")
    BY <1>3 DEF Lock
  <2>2. \A y \in Exporters : At(y, "idle")
    BY <2>1 DEF ExportInv, LockHeld
  <2>3. /\ exporter'[x].at = "read"
        /\ \A y \in Exporters \ {x} : exporter'[y] = exporter[y]
    BY <1>3 DEF Lock, ExportInv, TypeOK, Local
  <2>4. LockHeld'
    BY <2>1, <2>2, <2>3 DEF LockHeld, At
  <2>5. \A y \in Exporters : ~Running(y)'
    BY <2>2, <2>3 DEF Running, At
  <2>6. ~refused'
    BY <2>1 DEF ExportInv, NeverRefused
  <2> QED BY <1>1, <2>1, <2>4, <2>5, <2>6, RunsOnlyInv
<1>4. ASSUME NEW x \in Exporters, Fail(x)
      PROVE  ExportInv'
  <2>1. /\ UNCHANGED <<ledgerVars, sinkVars, refused>> /\ Release(x)
    BY <1>4 DEF Fail
  <2>2. /\ exporter'[x] = Idle
        /\ \A y \in Exporters \ {x} : exporter'[y] = exporter[y]
    BY <2>1 DEF Release, ExportInv, TypeOK
  <2>3. LockHeld'
    BY <2>1, <2>2 DEF ExportInv, LockHeld, At, Release, Idle
  <2>4. ~refused'
    BY <2>1 DEF ExportInv, NeverRefused
  <2>5. \A y \in Exporters :
          Running(y)' => /\ Running(y) /\ exporter'[y].source = exporter[y].source
                         /\ exporter'[y].todo = exporter[y].todo
    BY <2>2 DEF Running, At, Idle
  <2> QED BY <1>1, <2>1, <2>3, <2>4, <2>5, RunsOnlyInv
<1>5. CASE UNCHANGED vars
  <2>1. UNCHANGED <<ledgerVars, sinkVars>> /\ exporter' = exporter /\ lock' = lock
        /\ refused' = refused
    BY <1>5 DEF vars, runVars
  <2>2. LockHeld' /\ ~refused'
    BY <2>1 DEF ExportInv, LockHeld, At, NeverRefused
  <2>3. \A y \in Exporters :
          Running(y)' => /\ Running(y) /\ exporter'[y].source = exporter[y].source
                         /\ exporter'[y].todo = exporter[y].todo
    BY <2>1 DEF Running, At
  <2> QED BY <1>1, <2>1, <2>2, <2>3, RunsOnlyInv
<1> QED
  BY <1>1, <1>2, <1>3, <1>4, <1>5, ReadSourceInv, CheckCursorInv, UpsertInv,
     AdvanceCursorInv DEF Next, Export

\* The invariant holds in every behaviour.
LEMMA InvAlways == Spec => []ExportInv
PROOF
<1>1. Init => TypeOK
  BY TypeInit
<1>2. Init => ExportInv
  BY <1>1, InvInit
<1> QED BY <1>2, InvStep, PTL DEF Spec

----------------------------------------------------------------------------
(* Captured health.                                                          *)

\* A commit can contradict a capture only under a new accounting.
LEMMA WriterClean ==
  ASSUME ExportInv, CleanInv, WriterStep, TypeOK'
  PROVE  CleanInv'
PROOF
<1> USE DEF At, Running
<1>1. sink' = sink /\ exporter' = exporter
  BY DEF WriterStep, sinkVars, runVars
<1>2. \A d \in Dispatches : rows[d] # NoRow => rows'[d] # NoRow /\ Follows(rows[d], rows'[d])
  BY DEF WriterStep
<1>3. \A d \in Dispatches :
        /\ rows[d] # NoRow => rows[d].accounting \in Nat
        /\ rows'[d] # NoRow => rows'[d].accounting \in Nat
        /\ sink[d] # NoRecord /\ sink[d].attributable # NoHealth =>
             sink[d].attributable.accounting \in Nat
        /\ \A x \in Exporters :
             exporter[x].todo[d] # NoRecord
             /\ exporter[x].todo[d].attributable # NoHealth =>
               exporter[x].todo[d].attributable.accounting \in Nat
  BY DEF ExportInv, TypeOK, Row, Record, Health, Local
<1>4. cleanSeen \subseteq cleanSeen'
  BY DEF WriterStep
<1>5. ASSUME NEW d \in Dispatches, rows[d] # NoRow, NEW h,
             h # NoHealth, h.accounting \in Nat, h.accounting <= rows[d].accounting,
             Remembered(h, d, rows[d].accounting, rows[d].exact)
      PROVE  /\ h.accounting <= rows'[d].accounting
             /\ Remembered(h, d, rows[d].accounting, rows[d].exact)'
  <2>1. rows[d].accounting \in Nat /\ rows'[d].accounting \in Nat
    BY <1>2, <1>3, <1>5
  <2>2. Follows(rows[d], rows'[d])
    BY <1>2, <1>5
  <2>3. h.accounting <= rows'[d].accounting
    BY <1>5, <2>1, <2>2 DEF Follows
  <2>4. h.accounting = rows'[d].accounting => rows'[d].accounting = rows[d].accounting
    BY <1>5, <2>1, <2>2 DEF Follows
  <2> QED BY <1>4, <1>5, <2>2, <2>3, <2>4 DEF Follows, Remembered
<1>6. CleanRemembered'
  <2> SUFFICES ASSUME NEW d \in Dispatches, rows'[d] # NoRow,
                      sink[d] # NoRecord, sink[d].attributable # NoHealth
               PROVE  /\ sink[d].attributable.accounting <= rows'[d].accounting
                      /\ Remembered(sink[d].attributable, d, rows[d].accounting,
                                    rows[d].exact)'
    BY <1>1 DEF WriterStep, CleanRemembered, Remembered
  <2>1. rows[d] # NoRow
    BY DEF ExportInv, SinkBehind
  <2> QED BY <1>1, <1>3, <1>5, <2>1 DEF CleanInv, CleanRemembered, Remembered
<1>7. RunRemembers'
  <2> SUFFICES ASSUME NEW x \in Exporters, Running(x), NEW d \in Dispatches,
                      exporter[x].todo[d] # NoRecord
               PROVE  LET new == exporter[x].todo[d]
                      IN /\ Remembered(new.attributable, d, new.accounting, new.exact)'
                         /\ new.attributable # NoHealth =>
                              /\ new.attributable.accounting <= rows'[d].accounting
                              /\ Remembered(new.attributable, d, rows[d].accounting,
                                            rows[d].exact)'
                         /\ sink[d] # NoRecord =>
                              Remembered(sink[d].attributable, d, new.accounting,
                                         new.exact)'
    BY <1>1 DEF RunRemembers, Remembered
  <2> DEFINE new == exporter[x].todo[d]
  <2>1. rows[d] # NoRow
    BY DEF ExportInv, RunBehind
  <2>2. /\ Remembered(new.attributable, d, new.accounting, new.exact)
        /\ new.attributable # NoHealth =>
             /\ new.attributable.accounting <= rows[d].accounting
             /\ Remembered(new.attributable, d, rows[d].accounting, rows[d].exact)
        /\ sink[d] # NoRecord =>
             Remembered(sink[d].attributable, d, new.accounting, new.exact)
    BY DEF CleanInv, RunRemembers
  <2>3. new.attributable # NoHealth =>
          /\ new.attributable.accounting <= rows'[d].accounting
          /\ Remembered(new.attributable, d, rows[d].accounting, rows[d].exact)'
    BY <1>1, <1>3, <1>5, <2>1, <2>2 DEF Remembered
  <2>4. /\ Remembered(new.attributable, d, new.accounting, new.exact)'
        /\ sink[d] # NoRecord =>
             Remembered(sink[d].attributable, d, new.accounting, new.exact)'
    BY <1>1, <1>4, <2>2 DEF Remembered
  <2> QED BY <2>3, <2>4
<1>8. CleanIsHonest'
  BY <1>1, <1>4 DEF CleanInv, CleanIsHonest
<1> QED BY <1>6, <1>7, <1>8 DEF CleanInv

\* A step that neither reads nor writes a record keeps what is remembered.
LEMMA RunsOnlyClean ==
  ASSUME CleanInv, UNCHANGED <<ledgerVars, sink>>,
         \A x \in Exporters :
           Running(x)' => Running(x) /\ exporter'[x].todo = exporter[x].todo
  PROVE  CleanInv'
PROOF
<1>1. /\ sink' = sink /\ rows' = rows /\ cleanSeen' = cleanSeen
      /\ healthy' = healthy /\ connections' = connections
  BY DEF ledgerVars
<1>2. CleanRemembered' /\ CleanIsHonest'
  BY <1>1 DEF CleanInv, CleanRemembered, CleanIsHonest, Remembered
<1>3. RunRemembers'
  BY <1>1 DEF CleanInv, RunRemembers, Remembered
<1> QED BY <1>2, <1>3 DEF CleanInv

\* A candidate says of its capture what the present commit is remembered for.
LEMMA ReadSourceClean ==
  ASSUME ExportInv, CleanInv, NEW x \in Exporters, ReadSource(x)
  PROVE  CleanInv'
PROOF
<1> USE DEF At, Running
<1>1. UNCHANGED <<ledgerVars, sinkVars>> /\ ~At(x, "idle")
  BY DEF ReadSource
<1>2. /\ sink' = sink /\ rows' = rows /\ cleanSeen' = cleanSeen
      /\ healthy' = healthy /\ connections' = connections
  BY <1>1 DEF ledgerVars, sinkVars
<1>3. /\ \A d \in Dispatches : exporter'[x].todo[d] = Candidate(d)
      /\ \A y \in Exporters \ {x} : exporter'[y] = exporter[y]
  BY DEF ReadSource, ExportInv, TypeOK
<1>4. \A y \in Exporters \ {x} : ~Running(y)'
  BY <1>1, <1>3 DEF ExportInv, LockHeld
<1>5. CleanRemembered' /\ CleanIsHonest'
  BY <1>2 DEF CleanInv, CleanRemembered, CleanIsHonest, Remembered
<1>6. ASSUME NEW d \in Dispatches, Candidate(d) # NoRecord
      PROVE  LET new == Candidate(d)
             IN  /\ Remembered(new.attributable, d, new.accounting, new.exact)
                 /\ new.attributable # NoHealth =>
                      /\ new.attributable.accounting <= rows[d].accounting
                      /\ Remembered(new.attributable, d, rows[d].accounting,
                                    rows[d].exact)
                 /\ sink[d] # NoRecord =>
                      Remembered(sink[d].attributable, d, new.accounting, new.exact)
  <2> DEFINE new == Candidate(d)
  <2>1. /\ rows[d] # NoRow /\ new.accounting = rows[d].accounting
        /\ new.exact = rows[d].exact
        /\ new.attributable # NoHealth =>
             /\ new.attributable.accounting = rows[d].accounting
             /\ new.attributable.clean =>
                  rows[d].eligible /\ healthy /\ Isolated(rows, connections)
    BY <1>6, CandidateFacts DEF ExportInv
  <2>2. rows[d].accounting \in Nat
    BY <2>1 DEF ExportInv, TypeOK, Row
  <2> HIDE DEF new
  <2>3. Remembered(new.attributable, d, rows[d].accounting, rows[d].exact)
    BY <2>1 DEF CleanInv, CleanRemembered, Remembered
  <2>4. sink[d] # NoRecord =>
          Remembered(sink[d].attributable, d, rows[d].accounting, rows[d].exact)
    BY <2>1 DEF CleanInv, CleanRemembered, Remembered
  <2>5. new.attributable # NoHealth => new.attributable.accounting <= rows[d].accounting
    BY <2>1, <2>2
  <2> QED BY <2>1, <2>3, <2>4, <2>5 DEF new
<1>7. RunRemembers'
  BY <1>2, <1>3, <1>4, <1>6 DEF RunRemembers, Remembered
<1> QED BY <1>5, <1>7 DEF CleanInv

\* A merged record is clean only by a capture that is remembered.
LEMMA UpsertClean ==
  ASSUME ExportInv, CleanInv, NEW x \in Exporters, NEW d \in Dispatches, Upsert(x, d)
  PROVE  CleanInv'
PROOF
<1> USE DEF At, Running
<1> DEFINE new == exporter[x].todo[d]
           merged == Merged(sink[d], new)
<1>1. /\ new \in Record /\ new # NoRecord
      /\ exporter[x].at = "upsert" /\ lock = x /\ UNCHANGED ledgerVars
  BY DEF Upsert, ExportInv, TypeOK, Local, LockHeld
<1>2. CASE Release(x) /\ UNCHANGED sink
  <2>1. \A y \in Exporters :
          Running(y)' => Running(y) /\ exporter'[y].todo = exporter[y].todo
    BY <1>2 DEF Release, Idle, ExportInv, TypeOK
  <2> QED BY <1>1, <1>2, <2>1, RunsOnlyClean
<1>3. CASE /\ sink' = [sink EXCEPT ![d] = merged]
           /\ exporter' = [exporter EXCEPT ![x].todo[d] = NoRecord]
  <2>1. /\ rows' = rows /\ cleanSeen' = cleanSeen
        /\ healthy' = healthy /\ connections' = connections
    BY <1>1 DEF ledgerVars
  <2>2. /\ sink'[d] = merged
        /\ \A e \in Dispatches \ {d} : sink'[e] = sink[e]
    BY <1>3 DEF ExportInv, TypeOK
  <2>3. /\ exporter'[x].todo[d] = NoRecord
        /\ \A e \in Dispatches \ {d} : exporter'[x].todo[e] = exporter[x].todo[e]
        /\ \A y \in Exporters \ {x} : exporter'[y] = exporter[y] /\ exporter[y].at = "idle"
    BY <1>1, <1>3 DEF ExportInv, TypeOK, Local, LockHeld
  <2>4. /\ merged.accounting = new.accounting /\ merged.exact = new.exact
        /\ \/ merged.attributable = new.attributable
           \/ sink[d] # NoRecord /\ merged.attributable = sink[d].attributable
        /\ merged.clean =
             CleanBy(merged.attributable, merged.accounting, merged.exact)
    BY <1>1, MergedFacts DEF ExportInv, TypeOK, SameContent
  <2>5. /\ rows[d] # NoRow
        /\ Remembered(new.attributable, d, new.accounting, new.exact)
        /\ new.attributable # NoHealth =>
             /\ new.attributable.accounting <= rows[d].accounting
             /\ Remembered(new.attributable, d, rows[d].accounting, rows[d].exact)
        /\ sink[d] # NoRecord =>
             Remembered(sink[d].attributable, d, new.accounting, new.exact)
    BY <1>1 DEF ExportInv, RunBehind, CleanInv, RunRemembers
  <2> HIDE DEF new, merged
  <2>6. merged.clean => merged.exact /\ <<d, merged.accounting>> \in cleanSeen
    BY <2>4, <2>5 DEF Remembered, CleanBy
  <2>7. CleanIsHonest'
    BY <2>1, <2>2, <2>6 DEF CleanInv, CleanIsHonest
  <2>8. merged.attributable # NoHealth =>
          /\ merged.attributable.accounting <= rows[d].accounting
          /\ Remembered(merged.attributable, d, rows[d].accounting, rows[d].exact)
    BY <2>4, <2>5 DEF CleanInv, CleanRemembered
  <2>9. CleanRemembered'
    BY <2>1, <2>2, <2>8 DEF CleanInv, CleanRemembered, Remembered
  <2>10. RunRemembers'
    BY <1>1, <2>1, <2>2, <2>3 DEF CleanInv, RunRemembers, Remembered
  <2> QED BY <2>7, <2>9, <2>10 DEF CleanInv
<1> QED BY <1>2, <1>3 DEF Upsert

\* Every step keeps what is remembered.
LEMMA CleanStep ==
  ASSUME ExportInv, CleanInv, [Next]_vars
  PROVE  CleanInv'
PROOF
<1>1. CASE Writer
  BY <1>1, WriterSteps, WriterClean, TypeStep DEF ExportInv
<1>2. ASSUME NEW x \in Exporters, Lock(x)
      PROVE  CleanInv'
  <2>1. \A y \in Exporters :
          Running(y)' => Running(y) /\ exporter'[y].todo = exporter[y].todo
    BY <1>2 DEF Lock, ExportInv, TypeOK, Local, Running, At
  <2> QED BY <1>2, <2>1, RunsOnlyClean DEF Lock, sinkVars
<1>3. ASSUME NEW x \in Exporters, CheckCursor(x)
      PROVE  CleanInv'
  <2>1. \A y \in Exporters :
          Running(y)' => Running(y) /\ exporter'[y].todo = exporter[y].todo
    BY <1>3 DEF CheckCursor, Release, Idle, ExportInv, TypeOK, Local, Running, At
  <2> QED BY <1>3, <2>1, RunsOnlyClean DEF CheckCursor, sinkVars
<1>4. ASSUME NEW x \in Exporters, AdvanceCursor(x) \/ Fail(x)
      PROVE  CleanInv'
  <2>1. \A y \in Exporters :
          Running(y)' => Running(y) /\ exporter'[y].todo = exporter[y].todo
    BY <1>4 DEF AdvanceCursor, Fail, Release, Idle, ExportInv, TypeOK, Running, At
  <2> QED BY <1>4, <2>1, RunsOnlyClean DEF AdvanceCursor, Fail, sinkVars
<1>5. CASE UNCHANGED vars
  BY <1>5, RunsOnlyClean DEF vars, sinkVars, runVars, Running, At
<1> QED
  BY <1>1, <1>2, <1>3, <1>4, <1>5, ReadSourceClean, UpsertClean DEF Next, Export

\* It holds at first, when nothing is finished.
LEMMA CleanInit ==
  ASSUME Init
  PROVE  CleanInv
PROOF
<1>1. /\ \A d \in Dispatches : sink[d] = NoRecord /\ rows[d] = NoRow
      /\ \A x \in Exporters : ~Running(x)
  BY DEF Init, Nothing, Idle, Running, At
<1> QED BY <1>1 DEF CleanInv, CleanRemembered, RunRemembers, CleanIsHonest

----------------------------------------------------------------------------
(* The theorems.                                                             *)

\* A run is never refused, whichever run died before it and whatever the ledger
\* committed beside them.
THEOREM RunsAreNeverRefused == Spec => []NeverRefused
PROOF
<1>1. ExportInv => NeverRefused
  BY DEF ExportInv
<1> QED BY <1>1, InvAlways, PTL

\* When the cursor is at the ledger's revision, every finished dispatch has its
\* record as the ledger has it.
THEOREM CursorIsHonest == Spec => []CursorCovers
PROOF
<1>1. ExportInv => CursorCovers
  BY DEF ExportInv, CursorAgrees, SinkAgrees, CursorCovers
<1> QED BY <1>1, InvAlways, PTL

\* No record and not the cursor ever steps back.
THEOREM ExportsAreMonotone == Spec => NothingRegresses
PROOF
<1> DEFINE Forward ==
      /\ cursor' >= cursor
      /\ \A d \in Dispatches :
           sink[d] # NoRecord =>
             /\ sink'[d] # NoRecord
             /\ sink'[d].source >= sink[d].source
             /\ sink'[d].accounting >= sink[d].accounting
<1>1. ASSUME ExportInv, [Next]_vars
      PROVE  Forward
  <2>1. /\ cursor \in Nat
        /\ \A d \in Dispatches :
             sink[d] # NoRecord => sink[d].source \in Nat /\ sink[d].accounting \in Nat
    BY <1>1 DEF ExportInv, TypeOK, Record
  <2>2. CASE UNCHANGED sinkVars
    BY <2>1, <2>2 DEF sinkVars
  <2>3. ASSUME NEW x \in Exporters, AdvanceCursor(x)
        PROVE  Forward
    <3>1. cursor <= exporter[x].source /\ exporter[x].source \in Nat
      BY <1>1, <2>3 DEF AdvanceCursor, ExportInv, RunBehind, Running, TypeOK, Local
    <3> QED BY <2>1, <2>3, <3>1 DEF AdvanceCursor
  <2>4. ASSUME NEW x \in Exporters, NEW d \in Dispatches, Upsert(x, d)
        PROVE  Forward
    <3> DEFINE new == exporter[x].todo[d]
    <3>1. new \in Record /\ cursor' = cursor
      BY <1>1, <2>4 DEF Upsert, ExportInv, TypeOK, Local
    <3>2. CASE sink' = sink
      BY <2>1, <3>1, <3>2
    <3>3. CASE ~Refuses(sink[d], new) /\ sink' = [sink EXCEPT ![d] = Merged(sink[d], new)]
      <4>1. /\ Merged(sink[d], new) \in Record
            /\ Merged(sink[d], new).source = new.source
            /\ Merged(sink[d], new).accounting = new.accounting
        BY <1>1, <3>1, MergedFacts DEF ExportInv, TypeOK, SameContent
      <4>2. new.source \in Nat /\ new.accounting \in Nat
        BY <3>1 DEF Record
      <4>3. sink[d] # NoRecord =>
              new.source >= sink[d].source /\ new.accounting >= sink[d].accounting
        BY <2>1, <3>3, <4>2 DEF Refuses
      <4>4. /\ sink'[d] = Merged(sink[d], new)
            /\ \A e \in Dispatches \ {d} : sink'[e] = sink[e]
        BY <1>1, <3>3 DEF ExportInv, TypeOK
      <4> QED BY <2>1, <3>1, <4>1, <4>3, <4>4
    <3> QED BY <2>4, <3>2, <3>3 DEF Upsert
  <2>5. ASSUME NEW x \in Exporters, Lock(x) \/ ReadSource(x) \/ CheckCursor(x) \/ Fail(x)
        PROVE  UNCHANGED sinkVars
    BY <2>5 DEF Lock, ReadSource, CheckCursor, Fail
  <2>6. Writer => UNCHANGED sinkVars
    BY <1>1, WriterSteps DEF WriterStep, ExportInv
  <2> QED
    BY <1>1, <2>2, <2>3, <2>4, <2>5, <2>6 DEF Next, Export, vars
<1>2. ASSUME ExportInv, [Next]_vars
      PROVE  [Forward]_vars
  BY <1>1, <1>2
<1>3. Spec => [][Forward]_vars
  BY <1>2, InvAlways, PTL DEF Spec
<1> QED BY <1>3 DEF NothingRegresses

\* A record is clean only if the dispatch was, in some commit: finished and exact at
\* that accounting, alone in a project with a clean health.
THEOREM CleanRecordsAreHonest == Spec => []CleanIsHonest
PROOF
<1>1. CleanInv => CleanIsHonest
  BY DEF CleanInv
<1> QED BY <1>1, CleanInit, CleanStep, InvAlways, PTL DEF Spec
=============================================================================
