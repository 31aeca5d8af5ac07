---------------------------- MODULE TerminalExport ----------------------------
(***************************************************************************)
(* The offline export of finished dispatches: export_terminal_observations  *)
(* and class TerminalObservationSink.  An exporter is one run of the        *)
(* command; several may run at once, each may die at any step, and the      *)
(* ledger's writer commits beside them.                                     *)
(*                                                                         *)
(* A step is one durable write, one read of the ledger (a read transaction) *)
(* or of the sink, or the lock.                                             *)
(*                                                                         *)
(* What is abstracted:                                                     *)
(*  - of the ledger, what a projection is made of: its two revisions, the   *)
(*    rows of the project and whether its health is clean;                  *)
(*  - exact stands for exact coverage without a conflict, all that the      *)
(*    clean summary asks of the accounting;                                 *)
(*  - a write is atomic and durable, which _atomic_write obtains by fsync   *)
(*    and rename; a failing one is an exporter that dies before it.         *)
(* The ledger's file is not replaced by another one, so the identity the    *)
(* cursor names is left out.                                                *)
(***************************************************************************)
EXTENDS Naturals, FiniteSets

CONSTANTS
  Dispatches,   \* dispatch ids of the project
  Exporters,    \* runs of the export command
  MaxRevision,  \* bound on the commits of the ledger
  MaxFailures,  \* bound on the exporters that die
  NoRow,        \* the ledger has no row of the dispatch
  NoHealth,     \* no health was captured
  NoRecord,     \* the sink has no record of the dispatch
  Nobody        \* the export lock is free

ASSUME RevisionAssumption == MaxRevision \in Nat
ASSUME FailureAssumption == MaxFailures \in Nat
ASSUME NobodyAssumption == Nobody \notin Exporters

VARIABLES
  revision,     \* metadata.snapshot_revision
  rows,         \* the dispatches of the ledger
  connections,  \* the project has no, one or more connections: 0, 1 or 2
  healthy,      \* _health_snapshot_clean of the project's health
  sink,         \* the record in each observation file
  cursor,       \* cursor.json, 0 before it is written
  lock,         \* the exporter that holds export.lock
  exporter,     \* program counter and local variables of the exporters
  failures,     \* exporters that died
  refused,      \* history: an exporter raised for an inconsistent revision
  cleanSeen     \* history: what was clean and isolated in some commit

ledgerVars == <<revision, rows, connections, healthy, cleanSeen>>
sinkVars == <<sink, cursor>>
runVars == <<lock, exporter, failures, refused>>
vars == <<ledgerVars, sinkVars, runVars>>

Row == [accounting : Nat, eligible : BOOLEAN, exact : BOOLEAN]
Health == [source : Nat, accounting : Nat, clean : BOOLEAN]
Record ==
  [source : Nat, accounting : Nat, exact : BOOLEAN, current : BOOLEAN,
   attributable : Health \cup {NoHealth}, clean : BOOLEAN]
Local ==
  [at : {"idle", "read", "check", "upsert"}, source : Nat,
   todo : [Dispatches -> Record \cup {NoRecord}]]

ASSUME AbsentAssumption ==
  NoRow \notin Row /\ NoHealth \notin Health /\ NoRecord \notin Record

At(x, label) == exporter[x].at = label
Nothing == [d \in Dispatches |-> NoRecord]
Idle == [at |-> "idle", source |-> 0, todo |-> Nothing]

----------------------------------------------------------------------------
(* The ledger: every transaction increases the global revision, and one that *)
(* changes what a dispatch accounts for also that dispatch's own.  It may do  *)
(* so more than once; nobody sees that, so it is one step here.              *)

Present(tbl) == {d \in Dispatches : tbl[d] # NoRow}

\* The project has one dispatch and one connection, so its health is theirs.
Isolated(tbl, conns) == Cardinality(Present(tbl)) = 1 /\ conns = 1

\* The transaction commits the given tables.
Committed(tbl, conns, health) ==
  /\ revision < MaxRevision
  /\ revision' = revision + 1
  /\ rows' = tbl /\ connections' = conns /\ healthy' = health
  /\ cleanSeen' = cleanSeen \cup
       {<<d, tbl[d].accounting>> : d \in {e \in Present(tbl) :
          tbl[e].eligible /\ tbl[e].exact /\ health /\ Isolated(tbl, conns)}}
  /\ UNCHANGED <<sinkVars, runVars>>

\* Mutant: the row is inserted without its own revision.
RecordSubmissionUnnumbered(d) ==
  /\ rows[d] = NoRow
  /\ Committed([rows EXCEPT ![d] =
                  [accounting |-> NoRow, eligible |-> FALSE, exact |-> FALSE]],
               connections, healthy)

RecordSubmission(d) ==
  /\ rows[d] = NoRow
  /\ Committed([rows EXCEPT ![d] =
                  [accounting |-> 0, eligible |-> FALSE, exact |-> FALSE]],
               connections, healthy)

RegisterConnection ==
  /\ connections < 2
  /\ Committed(rows, connections + 1, healthy)

\* No dispatch is eligible before a source was connected.
Drained(eligible) == eligible \subseteq Present(rows) /\ (eligible # {} => connections > 0)

\* The rows when only who is eligible changes.
WithEligible(eligible) ==
  [d \in Dispatches |->
     IF d \in Present(rows) THEN [rows[d] EXCEPT !.eligible = d \in eligible]
     ELSE NoRow]

\* A transaction with _bump_dispatch for the dispatches of changed: receipts,
\* bindings, projections, gaps, disconnects.  What is already eligible, terminal and
\* with all bindings closed, can only get worse.
ChangeDispatches(changed, eligible, exact, health) ==
  /\ changed \subseteq Present(rows) /\ changed # {}
  /\ exact \subseteq changed
  /\ Drained(eligible)
  /\ \A d \in changed \cap eligible \cap exact : rows[d].eligible => rows[d].exact
  /\ Committed([d \in Dispatches |->
                  IF d \in changed
                  THEN [accounting |-> rows[d].accounting + 1,
                        eligible |-> d \in eligible, exact |-> d \in exact]
                  ELSE WithEligible(eligible)[d]],
               connections, health)

\* Mutant: the health changes under the old revision.
ChangeHealthSilently(eligible, health) ==
  /\ Drained(eligible)
  /\ rows' = WithEligible(eligible)
  /\ healthy' = health
  /\ UNCHANGED <<revision, connections, cleanSeen, sinkVars, runVars>>

\* One without it: the health of the project, or a source that connects again or
\* has rows pending.
ChangeHealth(eligible, health) ==
  /\ Drained(eligible)
  /\ Committed(WithEligible(eligible), connections, health)

----------------------------------------------------------------------------
(* An exporter.                                                              *)

\* _terminal_candidate: terminal, closed, disconnected and drained.
Candidate(d) ==
  IF d \in Present(rows) /\ rows[d].eligible
  THEN LET captured == Isolated(rows, connections)
       IN  [source |-> revision, accounting |-> rows[d].accounting,
            exact |-> rows[d].exact, current |-> healthy,
            attributable |->
              IF captured
              THEN [source |-> revision, accounting |-> rows[d].accounting,
                    clean |-> healthy]
              ELSE NoHealth,
            clean |-> captured /\ healthy /\ rows[d].exact]
  ELSE NoRecord

\* Mutant: the lock is not waited for.
LockAlways(x) ==
  /\ At(x, "idle")
  /\ lock' = x
  /\ exporter' = [exporter EXCEPT ![x].at = "read"]
  /\ UNCHANGED <<ledgerVars, sinkVars, failures, refused>>

Lock(x) ==
  /\ At(x, "idle")
  /\ lock = Nobody
  /\ lock' = x
  /\ exporter' = [exporter EXCEPT ![x].at = "read"]
  /\ UNCHANGED <<ledgerVars, sinkVars, failures, refused>>

\* terminal_projection_snapshot: one revision of all tables.
ReadSource(x) ==
  /\ At(x, "read")
  /\ exporter' = [exporter EXCEPT ![x] =
       [at |-> "check", source |-> revision,
        todo |-> [d \in Dispatches |-> Candidate(d)]]]
  /\ UNCHANGED <<ledgerVars, sinkVars, lock, failures, refused>>

\* The run ends and its lock is released, also when it dies.
Release(x) ==
  /\ exporter' = [exporter EXCEPT ![x] = Idle]
  /\ lock' = IF lock = x THEN Nobody ELSE lock

\* The cursor is at this revision, so there is nothing to do, or behind it; a
\* cursor ahead of it raises.
CheckCursor(x) ==
  /\ At(x, "check")
  /\ \/ /\ exporter[x].source > cursor
        /\ exporter' = [exporter EXCEPT ![x].at = "upsert"]
        /\ UNCHANGED <<lock, refused>>
     \/ /\ exporter[x].source <= cursor
        /\ Release(x)
        /\ refused' = (refused \/ exporter[x].source < cursor)
  /\ UNCHANGED <<ledgerVars, sinkVars, failures>>

\* Mutant: a retained capture stays clean when the accounting moved on.
CleanByAny(h, accounting, exact) == h # NoHealth /\ h.clean /\ exact

\* A record is clean by a clean capture of its own accounting.
CleanBy(h, accounting, exact) ==
  h # NoHealth /\ h.clean /\ h.accounting = accounting /\ exact

\* The capture that a merged record has: one made earlier is retained.
Retained(old, new) ==
  IF new.attributable = NoHealth /\ old # NoRecord
  THEN old.attributable ELSE new.attributable

\* _merged_record.
Merged(old, new) ==
  [new EXCEPT !.attributable = Retained(old, new),
              !.clean = CleanBy(Retained(old, new), new.accounting, new.exact)]

\* _validate_projection: a capture is not of the record's future, and clean is what
\* it follows from.
Valid(record) ==
  /\ record.attributable # NoHealth =>
       /\ record.attributable.source <= record.source
       /\ record.attributable.accounting <= record.accounting
  /\ record.clean = CleanBy(record.attributable, record.accounting, record.exact)

\* _merged_record raises: a record is not valid, a revision steps back, or one
\* revision has two contents.
Refuses(old, new) ==
  \/ ~Valid(new) \/ ~Valid(Merged(old, new))
  \/ /\ old # NoRecord
     /\ \/ ~Valid(old)
        \/ new.source < old.source
        \/ new.accounting < old.accounting
        \/ new.source = old.source /\ Merged(old, new) # old

\* upsert of one candidate, in the order of identities that mean nothing.
Upsert(x, d) ==
  LET new == exporter[x].todo[d]
  IN  /\ At(x, "upsert")
      /\ new # NoRecord
      /\ \/ /\ ~Refuses(sink[d], new)
            /\ sink' = [sink EXCEPT ![d] = Merged(sink[d], new)]
            /\ exporter' = [exporter EXCEPT ![x].todo[d] = NoRecord]
            /\ UNCHANGED <<lock, refused>>
         \/ /\ Refuses(sink[d], new)
            /\ Release(x)
            /\ refused' = TRUE
            /\ UNCHANGED sink
      /\ UNCHANGED <<ledgerVars, cursor, failures>>

\* Mutant: the cursor is written before the records.
AdvanceCursorFirst(x) ==
  /\ At(x, "upsert")
  /\ cursor # exporter[x].source \/ exporter[x].todo = Nothing
  /\ cursor' = exporter[x].source
  /\ IF exporter[x].todo = Nothing THEN Release(x) ELSE UNCHANGED <<lock, exporter>>
  /\ UNCHANGED <<ledgerVars, sink, failures, refused>>

\* "This is intentionally the final durable write."
AdvanceCursor(x) ==
  /\ At(x, "upsert")
  /\ exporter[x].todo = Nothing
  /\ cursor' = exporter[x].source
  /\ Release(x)
  /\ UNCHANGED <<ledgerVars, sink, failures, refused>>

\* Mutant: the lock is a file that outlives its process.
FailLocked(x) ==
  /\ ~At(x, "idle")
  /\ failures < MaxFailures
  /\ failures' = failures + 1
  /\ exporter' = [exporter EXCEPT ![x] = Idle]
  /\ UNCHANGED <<ledgerVars, sinkVars, lock, refused>>

\* A write fails, or the process is killed.
Fail(x) ==
  /\ ~At(x, "idle")
  /\ failures < MaxFailures
  /\ failures' = failures + 1
  /\ Release(x)
  /\ UNCHANGED <<ledgerVars, sinkVars, refused>>

----------------------------------------------------------------------------
\* The project is registered, which was the first commit.
Init ==
  /\ revision = 1
  /\ rows = [d \in Dispatches |-> NoRow]
  /\ connections = 0
  /\ healthy = TRUE
  /\ sink = Nothing
  /\ cursor = 0
  /\ lock = Nobody
  /\ exporter = [x \in Exporters |-> Idle]
  /\ failures = 0
  /\ refused = FALSE
  /\ cleanSeen = {}

Writer ==
  \/ RegisterConnection
  \/ \E d \in Dispatches : RecordSubmission(d)
  \/ \E eligible \in SUBSET Dispatches, health \in BOOLEAN :
       \/ ChangeHealth(eligible, health)
       \/ \E changed, exact \in SUBSET Dispatches :
            ChangeDispatches(changed, eligible, exact, health)

Export(x) ==
  \/ Lock(x) \/ ReadSource(x) \/ CheckCursor(x) \/ AdvanceCursor(x)
  \/ \E d \in Dispatches : Upsert(x, d)

Next == Writer \/ \E x \in Exporters : Export(x) \/ Fail(x)

Spec == Init /\ [][Next]_vars

\* The command is run again and again, and a run that began goes on.
FairSpec == Spec /\ \A x \in Exporters : WF_vars(Export(x))

----------------------------------------------------------------------------
(* Properties.                                                               *)

\* The type invariant.
TypeOK ==
  /\ revision \in Nat
  /\ rows \in [Dispatches -> Row \cup {NoRow}]
  /\ connections \in 0 .. 2
  /\ healthy \in BOOLEAN
  /\ sink \in [Dispatches -> Record \cup {NoRecord}]
  /\ cursor \in Nat
  /\ lock \in Exporters \cup {Nobody}
  /\ exporter \in [Exporters -> Local]
  /\ failures \in Nat
  /\ refused \in BOOLEAN
  /\ cleanSeen \subseteq Dispatches \X Nat

\* What a reader compares of a record and a candidate: everything but the health
\* captured earlier and the verdict that rests on it.
SameContent(record, candidate) ==
  /\ record.source = candidate.source
  /\ record.accounting = candidate.accounting
  /\ record.exact = candidate.exact
  /\ record.current = candidate.current

\* The cursor says what it covers: once it is at the ledger's revision, where the
\* next run will find nothing to do, every finished dispatch has its record as
\* the ledger has it, whichever run died between two of its writes.
CursorCovers ==
  cursor = revision =>
    \A d \in Dispatches :
      Candidate(d) # NoRecord =>
        sink[d] # NoRecord /\ SameContent(sink[d], Candidate(d))

\* A run that starts, or starts again after one that died, is never refused: the
\* cursor and the records are never ahead of the ledger, and a replay of one
\* revision finds what it wrote.
NeverRefused == ~refused

\* A record is clean only if some commit of the ledger was: at that accounting
\* revision the dispatch was finished and exact, and alone with a clean project.
CleanIsHonest ==
  \A d \in Dispatches :
    sink[d] # NoRecord /\ sink[d].clean =>
      sink[d].exact /\ <<d, sink[d].accounting>> \in cleanSeen

\* "Later corrections update the same task file": a record never disappears, and
\* neither it nor the cursor steps back.
NothingRegresses ==
  [][/\ cursor' >= cursor
     /\ \A d \in Dispatches :
          sink[d] # NoRecord =>
            /\ sink'[d] # NoRecord
            /\ sink'[d].source >= sink[d].source
            /\ sink'[d].accounting >= sink[d].accounting]_vars

\* "Interrupted exports can be retried": when the ledger is quiet and no more runs
\* die, the export catches up with it.
CatchesUp == <>[](cursor = revision)

=============================================================================
