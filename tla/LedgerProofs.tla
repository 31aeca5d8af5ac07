----------------------------- MODULE LedgerProofs -----------------------------
(***************************************************************************)
(* Theorems about Ledger, for every value of its constants.                 *)
(***************************************************************************)
EXTENDS Ledger, FiniteSetTheorems, TLAPS

\* Raising a coverage level keeps the type and never improves a level.
LEMMA RaisedType ==
  ASSUME NEW cov \in [Dispatches -> UNKNOWN .. CONFLICT], NEW S,
         NEW level \in UNKNOWN .. CONFLICT
  PROVE  Raised(cov, S, level) \in [Dispatches -> UNKNOWN .. CONFLICT]
  BY DEF Raised, UNKNOWN, CONFLICT

\* Ending bindings keeps the type of the table.
LEMMA EndBindingsType ==
  ASSUME TypeOK, NEW B \in SUBSET Active, NEW s \in {"closed", "revoked"},
         EndBindings(B, s)
  PROVE  bindings' \in [BindingIds -> BindingRow \cup {NoBinding}]
  BY DEF TypeOK, EndBindings, Active, Bound, BindingRow

\* Starting new revisions keeps the type of the exports.
LEMMA BumpType ==
  ASSUME TypeOK, NEW S, Bump(S)
  PROVE  publication' \in [Dispatches -> ExportRow \cup {NoManifest}]
  BY DEF TypeOK, Bump

\* Accepting projections of the pending table keeps the types of the three tables.
LEMMA AcceptType ==
  ASSUME TypeOK, NEW A \in SUBSET PendingRow, IsFiniteSet(A),
         NEW d \in Dispatches, Accept(A, d)
  PROVE  /\ dedup' \subseteq DedupRow
         /\ completions' \subseteq CompletionRow
         /\ activity' \in [Dispatches -> Nat]
PROOF
<1>1. \A r \in A : /\ r.event \in Projections
                   /\ r.event.kind \in Kinds
                   /\ r.event.stream \in Streams
  BY ProjectionsAssumption DEF PendingRow
<1>2. dedup' \subseteq DedupRow
  BY <1>1 DEF TypeOK, Accept, DedupRow
<1>3. completions' \subseteq CompletionRow
  BY <1>1 DEF TypeOK, Accept, CompletionRow
<1>4. Cardinality(A \ {r \in A : r.event.kind = "completion"}) \in Nat
  BY FS_Subset, FS_CardinalityType
<1>5. activity' \in [Dispatches -> Nat]
  BY <1>4 DEF TypeOK, Accept
<1> QED BY <1>2, <1>3, <1>5

----------------------------------------------------------------------------
(* Type correctness.                                                         *)

\* The constants that levels and gap sets are made of.
LEMMA LevelFacts ==
  /\ UNKNOWN \in UNKNOWN .. CONFLICT /\ OBSERVED \in UNKNOWN .. CONFLICT
  /\ KNOWN_GAP \in UNKNOWN .. CONFLICT /\ CONFLICT \in UNKNOWN .. CONFLICT
  BY DEF UNKNOWN, OBSERVED, KNOWN_GAP, CONFLICT

\* An enabled project is registered, so its connections have a generation.
LEMMA SourceOfGeneration ==
  ASSUME TypeOK, Enabled, NEW c \in Conns
  PROVE  <<generation, c>> \in Sources
  BY DEF TypeOK, Enabled, Sources, Generations

\* What is dropped of pending rows are streams of sources.
LEMMA DroppedType ==
  ASSUME NEW rows \in SUBSET PendingRow
  PROVE  Dropped(rows) \subseteq Sources \X Streams
  BY ProjectionsAssumption DEF Dropped, PendingRow

\* The freshly created schema has the types of its tables.
THEOREM InitTypeOK == Init => TypeOK
<1> SUFFICES ASSUME Init PROVE TypeOK
  OBVIOUS
<1>1. IsFiniteSet({})
  BY FS_EmptySet
<1>2. generation \in IF regState = "absent" THEN {0} ELSE Generations
  BY DEF Init
<1>3. /\ conn \in [Sources -> {"absent", "connected", "disconnected"}]
      /\ schema \in [Sources -> {"compatible", "incompatible"}]
  BY DEF Init
<1>4. /\ lifecycle \in [Dispatches -> LifecycleStates \cup {"none"}]
      /\ coverage \in [Dispatches -> UNKNOWN .. CONFLICT]
      /\ activity \in [Dispatches -> Nat]
      /\ available \in [Dispatches -> BOOLEAN]
      /\ publication \in [Dispatches -> ExportRow \cup {NoManifest}]
  BY LevelFacts DEF Init
<1>5. bindings \in [BindingIds -> BindingRow \cup {NoBinding}]
  BY DEF Init
<1> QED
  BY <1>1, <1>2, <1>3, <1>4, <1>5 DEF Init, TypeOK

\* Registration, keys, capacity and the writer process keep the types.
LEMMA RegistryTypeOK ==
  ASSUME TypeOK, Registry
  PROVE  TypeOK'
PROOF
<1>1. ASSUME NEW g \in Generations, NEW state \in {"enabled", "revoked"},
             RegisterProject(g, state)
      PROVE  TypeOK'
  <2>1. CASE regState = "absent"
    BY <1>1, <2>1 DEF RegisterProject, TypeOK, Generations, eventVars
  <2>2. CASE regState # "absent"
    <3>1. Retire
      BY <1>1, <2>2 DEF RegisterProject
    <3> DEFINE ended == {b \in Active : bindings[b].source[1] = generation}
    <3>2. bindings' \in [BindingIds -> BindingRow \cup {NoBinding}]
      BY <3>1, EndBindingsType DEF Retire
    <3>3. publication' \in [Dispatches -> ExportRow \cup {NoManifest}]
      BY <3>1, BumpType DEF Retire
    <3>4. coverage' \in [Dispatches -> UNKNOWN .. CONFLICT]
      BY <3>1, RaisedType, LevelFacts DEF Retire, TypeOK
    <3>5. /\ conn' \in [Sources -> {"absent", "connected", "disconnected"}]
          /\ knownGap' \in BOOLEAN
      BY <3>1 DEF Retire, TypeOK
    <3> HIDE DEF ended
    <3> QED
      BY <1>1, <2>2, <3>2, <3>3, <3>4, <3>5
      DEF RegisterProject, TypeOK, Generations, eventVars
  <2> QED BY <2>1, <2>2
<1>2. CASE KeyFile
  BY <1>2 DEF KeyFile, TypeOK, sourceVars, eventVars
<1>3. CASE MarkKeyUnavailable
  BY <1>3 DEF MarkKeyUnavailable, TypeOK, sourceVars, eventVars
<1>4. CASE SourceFingerprinter
  BY <1>4 DEF SourceFingerprinter, TypeOK, sourceVars, eventVars
<1>5. CASE Stop
  BY <1>5 DEF Stop, TypeOK, sourceVars, eventVars
<1>6. CASE OpenWriter
  <2> DEFINE left == {src \in Sources : Connected(src)}
             ended == {b \in Active : bindings[b].source \in left}
             targets == IF left = {} THEN {} ELSE DisconnectTargets(ended, FALSE)
  <2>1. EndBindings(ended, "closed") /\ Bump(targets)
        /\ coverage' = Raised(coverage, targets, KNOWN_GAP)
    BY <1>6 DEF OpenWriter
  <2>2. bindings' \in [BindingIds -> BindingRow \cup {NoBinding}]
    BY <2>1, EndBindingsType
  <2>3. publication' \in [Dispatches -> ExportRow \cup {NoManifest}]
    BY <2>1, BumpType
  <2>4. coverage' \in [Dispatches -> UNKNOWN .. CONFLICT]
    BY <2>1, RaisedType, LevelFacts DEF TypeOK
  <2>5. /\ conn' \in [Sources -> {"absent", "connected", "disconnected"}]
        /\ knownGap' \in BOOLEAN /\ recovery' \in BOOLEAN
    BY <1>6 DEF OpenWriter, TypeOK
  <2> HIDE DEF left, ended, targets
  <2> QED
    BY <1>6, <2>2, <2>3, <2>4, <2>5 DEF OpenWriter, TypeOK, eventVars
<1>7. CASE PersistCapacityBlocked
  <2>1. publication' \in [Dispatches -> ExportRow \cup {NoManifest}]
    BY <1>7, BumpType DEF PersistCapacityBlocked
  <2>2. coverage' \in [Dispatches -> UNKNOWN .. CONFLICT]
    BY <1>7, RaisedType, LevelFacts DEF PersistCapacityBlocked, TypeOK
  <2> QED
    BY <1>7, <2>1, <2>2 DEF PersistCapacityBlocked, TypeOK, sourceVars, eventVars
<1> QED
  BY <1>1, <1>2, <1>3, <1>4, <1>5, <1>6, <1>7 DEF Registry

\* Connections and projections keep the types.
LEMMA SourceTypeOK ==
  ASSUME TypeOK, Source
  PROVE  TypeOK'
PROOF
<1>1. ASSUME NEW c \in Conns, RegisterConnection(c)
      PROVE  TypeOK'
  BY <1>1, SourceOfGeneration DEF RegisterConnection, TypeOK, registryVars, eventVars
<1>2. ASSUME NEW c \in Conns, MarkSourceIncompatible(c)
      PROVE  TypeOK'
  <2>1. publication' \in [Dispatches -> ExportRow \cup {NoManifest}]
    BY <1>2, BumpType DEF MarkSourceIncompatible
  <2>2. coverage' \in [Dispatches -> UNKNOWN .. CONFLICT]
    BY <1>2, RaisedType, LevelFacts DEF MarkSourceIncompatible, TypeOK
  <2> QED
    BY <1>2, <2>1, <2>2, SourceOfGeneration
    DEF MarkSourceIncompatible, TypeOK, registryVars, eventVars
<1>3. ASSUME NEW src \in Sources, NEW expected \in BOOLEAN,
             MarkSourceDisconnected(src, expected)
      PROVE  TypeOK'
  <2> DEFINE ended == {b \in Active : bindings[b].source = src}
             targets == DisconnectTargets(ended, expected)
  <2>1. EndBindings(ended, "closed") /\ Bump(targets)
        /\ coverage' = Raised(coverage, targets, KNOWN_GAP)
    BY <1>3 DEF MarkSourceDisconnected
  <2>2. bindings' \in [BindingIds -> BindingRow \cup {NoBinding}]
    BY <2>1, EndBindingsType
  <2>3. publication' \in [Dispatches -> ExportRow \cup {NoManifest}]
    BY <2>1, BumpType
  <2>4. coverage' \in [Dispatches -> UNKNOWN .. CONFLICT]
    BY <2>1, RaisedType, LevelFacts DEF TypeOK
  <2>5. knownGap' \in BOOLEAN
    BY <1>3 DEF MarkSourceDisconnected, TypeOK
  <2> HIDE DEF ended, targets
  <2> QED
    BY <1>3, <2>2, <2>3, <2>4, <2>5
    DEF MarkSourceDisconnected, TypeOK, registryVars, eventVars
<1>4. ASSUME NEW overdue \in SUBSET pending, ExpirePending(overdue)
      PROVE  TypeOK'
  <2>1. publication' \in [Dispatches -> ExportRow \cup {NoManifest}]
    BY <1>4, BumpType DEF ExpirePending
  <2>2. coverage' \in [Dispatches -> UNKNOWN .. CONFLICT]
    BY <1>4, RaisedType, LevelFacts DEF ExpirePending, TypeOK
  <2>3. pending' \subseteq PendingRow /\ IsFiniteSet(pending')
    BY <1>4, FS_Subset DEF ExpirePending, TypeOK
  <2>4. missed' \subseteq Sources \X Streams
    BY <1>4, DroppedType DEF ExpirePending, TypeOK
  <2> QED
    BY <1>4, <2>1, <2>2, <2>3, <2>4
    DEF ExpirePending, TypeOK, registryVars, sourceVars, eventVars
<1>5. ASSUME NEW src \in Sources, NEW overdue \in SUBSET pending,
             IngestRejected(src, overdue)
      PROVE  TypeOK'
  BY <1>4, <1>5 DEF IngestRejected
<1>6. ASSUME NEW src \in Sources, NEW overdue \in SUBSET pending,
             NEW p \in Projections, IngestPending(p, src, overdue)
      PROVE  TypeOK'
  <2> DEFINE row == [source |-> src, event |-> p]
  <2>1. publication' \in [Dispatches -> ExportRow \cup {NoManifest}]
    BY <1>6, BumpType DEF IngestPending
  <2>2. coverage' \in [Dispatches -> UNKNOWN .. CONFLICT]
    BY <1>6, RaisedType, LevelFacts DEF IngestPending, TypeOK
  <2>3. row \in PendingRow
    BY DEF PendingRow
  <2>4. pending' \subseteq PendingRow /\ IsFiniteSet(pending')
    <3>1. IsFiniteSet(pending \ overdue) /\ IsFiniteSet((pending \ overdue) \cup {row})
      BY FS_Subset, FS_AddElement DEF TypeOK
    <3>2. pending' = pending \ overdue \/ pending' = (pending \ overdue) \cup {row}
      BY <1>6 DEF IngestPending
    <3> QED BY <2>3, <3>1, <3>2 DEF TypeOK
  <2>5. missed' \subseteq Sources \X Streams
    <3>1. /\ Dropped(overdue) \subseteq Sources \X Streams
          /\ Dropped({row}) \subseteq Sources \X Streams
      BY <2>3, DroppedType DEF TypeOK
    <3>2. missed' \subseteq missed \cup Dropped(overdue) \cup Dropped({row})
      BY <1>6 DEF IngestPending
    <3> QED BY <3>1, <3>2 DEF TypeOK
  <2>6. knownGap' \in BOOLEAN
    BY <1>6 DEF IngestPending, TypeOK
  <2>7. UNCHANGED <<registryVars, sourceVars, eventVars, lifecycle, bindings>>
    BY <1>6 DEF IngestPending
  <2> QED
    BY <2>1, <2>2, <2>4, <2>5, <2>6, <2>7
    DEF TypeOK, registryVars, sourceVars, eventVars
<1>7. ASSUME NEW src \in Sources, NEW overdue \in SUBSET pending,
             NEW p \in Projections, NEW b \in BindingIds,
             IngestBound(p, src, b, overdue)
      PROVE  TypeOK'
  <2> DEFINE r == [source |-> src, event |-> p]
             d == bindings[b].dispatch
             accepted == Prior(p) = {} /\ schema[src] = "compatible"
             A == IF accepted THEN {r} ELSE {}
  <2>1. publication' \in [Dispatches -> ExportRow \cup {NoManifest}]
    BY <1>7, BumpType DEF IngestBound
  <2>2. coverage' \in [Dispatches -> UNKNOWN .. CONFLICT]
    <3> DEFINE inner == Raised(coverage, ExpiryTargets(overdue), KNOWN_GAP)
    <3>1. inner \in [Dispatches -> UNKNOWN .. CONFLICT]
      BY RaisedType, LevelFacts DEF TypeOK
    <3>2. coverage' = Raised(inner, IF Conflicts(r, d) THEN {d} ELSE {}, CONFLICT)
      BY <1>7 DEF IngestBound
    <3> HIDE DEF inner
    <3> QED BY <3>1, <3>2, RaisedType, LevelFacts
  <2>3. d \in Dispatches
    BY <1>7 DEF IngestBound, Owners, Active, Bound, TypeOK, BindingRow
  <2>4. r \in PendingRow
    BY DEF PendingRow
  <2>5. A \in SUBSET PendingRow /\ IsFiniteSet(A)
    BY <2>4, FS_EmptySet, FS_Singleton
  <2>6. Accept(A, d)
    BY <1>7 DEF IngestBound
  <2>7. /\ dedup' \subseteq DedupRow
        /\ completions' \subseteq CompletionRow
        /\ activity' \in [Dispatches -> Nat]
    <3> HIDE DEF A, d
    <3> QED BY <2>3, <2>5, <2>6, AcceptType
  <2>8. pending' \subseteq PendingRow /\ IsFiniteSet(pending')
    BY <1>7, FS_Subset DEF IngestBound, TypeOK
  <2>9. missed' \subseteq Sources \X Streams
    <3>1. Dropped(overdue) \subseteq Sources \X Streams
      BY DroppedType DEF TypeOK
    <3>2. missed' \subseteq missed \cup Dropped(overdue) \cup {<<src, p.stream>>}
      BY <1>7 DEF IngestBound
    <3> QED BY <3>1, <3>2, ProjectionsAssumption DEF TypeOK
  <2>10. knownGap' \in BOOLEAN
    BY <1>7 DEF IngestBound, TypeOK
  <2>11. UNCHANGED <<registryVars, sourceVars, available, lifecycle, bindings>>
    BY <1>7 DEF IngestBound
  <2> QED
    BY <2>1, <2>2, <2>7, <2>8, <2>9, <2>10, <2>11
    DEF TypeOK, registryVars, sourceVars
<1>8. CASE SetQueueOverflow
  BY <1>8 DEF SetQueueOverflow, TypeOK, registryVars, sourceVars, eventVars
<1>9. CASE RecordHealthGap
  <2>1. publication' \in [Dispatches -> ExportRow \cup {NoManifest}]
    BY <1>9, BumpType DEF RecordHealthGap, MarkGap
  <2>2. coverage' \in [Dispatches -> UNKNOWN .. CONFLICT]
    BY <1>9, RaisedType, LevelFacts DEF RecordHealthGap, MarkGap, TypeOK
  <2> QED
    BY <1>9, <2>1, <2>2
    DEF RecordHealthGap, MarkGap, TypeOK, registryVars, sourceVars, eventVars
<1> QED
  BY <1>1, <1>2, <1>3, <1>4, <1>5, <1>6, <1>7, <1>8, <1>9 DEF Source

\* Submissions, receipts, bindings and reported gaps keep the types.
LEMMA SupervisorTypeOK ==
  ASSUME TypeOK, Supervisor
  PROVE  TypeOK'
PROOF
<1>1. ASSUME NEW d \in Dispatches, RecordSubmission(d)
      PROVE  TypeOK'
  BY <1>1
  DEF RecordSubmission, TypeOK, LifecycleStates, registryVars, sourceVars, eventVars
<1>2. ASSUME NEW d \in Dispatches, NEW clockGap \in BOOLEAN, NEW state \in Reported,
             RecordLifecycle(d, state, clockGap)
      PROVE  TypeOK'
  <2>1. publication' \in [Dispatches -> ExportRow \cup {NoManifest}]
    BY <1>2, BumpType DEF RecordLifecycle
  <2>2. coverage' \in [Dispatches -> UNKNOWN .. CONFLICT]
    BY <1>2, RaisedType, LevelFacts DEF RecordLifecycle, TypeOK
  <2>3. lifecycle' \in [Dispatches -> LifecycleStates \cup {"none"}]
    BY <1>2, ReportedAssumption DEF RecordLifecycle, TypeOK
  <2> QED
    BY <1>2, <2>1, <2>2, <2>3
    DEF RecordLifecycle, TypeOK, registryVars, sourceVars, eventVars
<1>3. ASSUME NEW b \in BindingIds, NEW c \in Conns, NEW d \in Dispatches,
             NEW s \in Streams, BindRuntime(b, c, d, s)
      PROVE  TypeOK'
  <2> DEFINE src == <<generation, c>>
             compatible == schema[src] = "compatible"
             matched == Matched(src, s)
             fresh == {r \in matched : Prior(r.event) = {}}
             conflicting == {r \in matched : Conflicts(r, d)}
             promoted == Raised(coverage, IF compatible THEN {d} ELSE {}, FirstCoverage)
             A == IF compatible THEN fresh ELSE {}
  <2>1. src \in Sources
    BY <1>3, SourceOfGeneration DEF BindRuntime
  <2>2. bindings' \in [BindingIds -> BindingRow \cup {NoBinding}]
    BY <1>3, <2>1 DEF BindRuntime, TypeOK, BindingRow
  <2>3. publication' \in [Dispatches -> ExportRow \cup {NoManifest}]
    BY <1>3, BumpType DEF BindRuntime
  <2>4. coverage' \in [Dispatches -> UNKNOWN .. CONFLICT]
    <3>1. FirstCoverage \in UNKNOWN .. CONFLICT
      BY LevelFacts DEF FirstCoverage
    <3>2. promoted \in [Dispatches -> UNKNOWN .. CONFLICT]
      BY <3>1, RaisedType DEF TypeOK
    <3>3. coverage' = Raised(promoted, IF conflicting # {} THEN {d} ELSE {}, CONFLICT)
      BY <1>3 DEF BindRuntime
    <3> HIDE DEF promoted, conflicting
    <3> QED BY <3>2, <3>3, RaisedType, LevelFacts
  <2>5. A \in SUBSET PendingRow /\ IsFiniteSet(A)
    BY FS_Subset, FS_EmptySet DEF TypeOK, Matched
  <2>6. Accept(A, d)
    BY <1>3 DEF BindRuntime
  <2>7. /\ dedup' \subseteq DedupRow
        /\ completions' \subseteq CompletionRow
        /\ activity' \in [Dispatches -> Nat]
    <3> HIDE DEF A
    <3> QED BY <2>5, <2>6, AcceptType
  <2>8. pending' \subseteq PendingRow /\ IsFiniteSet(pending')
    BY <1>3, FS_Subset DEF BindRuntime, TypeOK
  <2>9. missed' \subseteq Sources \X Streams
    <3>1. missed' \subseteq missed \cup {<<src, s>>}
      BY <1>3 DEF BindRuntime
    <3> HIDE DEF src
    <3> QED BY <2>1, <3>1 DEF TypeOK
  <2>10. available' \in [Dispatches -> BOOLEAN]
    <3>1. available' = [available EXCEPT ![d] = @ \/ compatible]
      BY <1>3 DEF BindRuntime, MakeAvailable
    <3> HIDE DEF compatible
    <3> QED BY <3>1 DEF TypeOK
  <2>11. UNCHANGED <<registryVars, sourceVars, knownGap, lifecycle>>
    BY <1>3 DEF BindRuntime
  <2> QED
    BY <2>2, <2>3, <2>4, <2>7, <2>8, <2>9, <2>10, <2>11
    DEF TypeOK, registryVars, sourceVars
<1>4. ASSUME NEW targets \in SUBSET Dispatches, MarkGap(targets)
      PROVE  TypeOK'
  <2>1. publication' \in [Dispatches -> ExportRow \cup {NoManifest}]
    BY <1>4, BumpType DEF MarkGap
  <2>2. coverage' \in [Dispatches -> UNKNOWN .. CONFLICT]
    BY <1>4, RaisedType, LevelFacts DEF MarkGap, TypeOK
  <2> QED
    BY <1>4, <2>1, <2>2 DEF MarkGap, TypeOK, registryVars, sourceVars, eventVars
<1> QED
  BY <1>1, <1>2, <1>3, <1>4 DEF Supervisor

\* Rendering, staging and confirming an export keep the types.
LEMMA PublisherTypeOK ==
  ASSUME TypeOK, Publisher
  PROVE  TypeOK'
PROOF
<1>1. ASSUME NEW d \in Dispatches, RenderManifest(d)
      PROVE  TypeOK'
  <2>1. View(d) \in [lifecycle : LifecycleStates, coverage : UNKNOWN .. CONFLICT,
                     cycles : SUBSET CompletionRow, activity : Nat,
                     available : BOOLEAN, configured : SUBSET BindingIds]
    BY <1>1 DEF RenderManifest, View, TypeOK, Known, Nonterminal, Bound
  <2>2. [view |-> View(d), step |-> "read"] \in ExportRow
    BY <2>1 DEF ExportRow
  <2> QED
    BY <1>1, <2>2 DEF RenderManifest, TypeOK, registryVars, sourceVars, eventVars
<1>2. ASSUME NEW d \in Dispatches, NEW step \in {"staged", "confirmed"},
             publication[d] # NoManifest,
             publication' = [publication EXCEPT ![d].step = step],
             UNCHANGED <<registryVars, sourceVars, eventVars, knownGap, lifecycle,
                         coverage, bindings, pending, missed>>
      PROVE  TypeOK'
  <2>1. publication[d] \in ExportRow
    BY <1>2 DEF TypeOK
  <2>2. [publication[d] EXCEPT !.step = step] \in ExportRow
    BY <2>1 DEF ExportRow
  <2> QED
    BY <1>2, <2>2 DEF TypeOK, registryVars, sourceVars, eventVars
<1>3. ASSUME NEW d \in Dispatches, StagePublicationManifest(d)
      PROVE  TypeOK'
  BY <1>2, <1>3 DEF StagePublicationManifest
<1>4. ASSUME NEW d \in Dispatches, ConfirmPublication(d)
      PROVE  TypeOK'
  BY <1>2, <1>4 DEF ConfirmPublication
<1> QED
  BY <1>1, <1>3, <1>4 DEF Publisher

\* Every step keeps the types.
LEMMA NextTypeOK == TypeOK /\ [Next]_vars => TypeOK'
  BY RegistryTypeOK, SourceTypeOK, SupervisorTypeOK, PublisherTypeOK
  DEF Next, TypeOK, vars, registryVars, sourceVars, eventVars

\* Type correctness of the ledger: every reachable state of Spec has the types of
\* its tables, for any set of dispatches, sources, streams and projections.
THEOREM TypeCorrect == Spec => []TypeOK
  BY InitTypeOK, NextTypeOK, PTL DEF Spec

----------------------------------------------------------------------------
(* The honesty of coverage.  The inductive invariant is TypeOK, BindingsLive,  *)
(* GapsRemembered, PendingUnclaimed and HonestCoverage, each preserved with    *)
(* the help of those before it.                                                *)

\* A gap raises a level or leaves it alone, and never makes it OBSERVED.
LEMMA RaisedFacts ==
  ASSUME NEW cov \in [Dispatches -> UNKNOWN .. CONFLICT], NEW S,
         NEW level \in {KNOWN_GAP, CONFLICT}, NEW d \in Dispatches
  PROVE  /\ Raised(cov, S, level)[d] = OBSERVED => cov[d] = OBSERVED /\ d \notin S
         /\ Raised(cov, S, level)[d] >= cov[d]
         /\ d \in S => Raised(cov, S, level)[d] >= level
         /\ d \notin S => Raised(cov, S, level)[d] = cov[d]
  BY DEF Raised, UNKNOWN, OBSERVED, KNOWN_GAP, CONFLICT

\* Ending bindings changes their state and nothing else.
LEMMA EndBindingsFacts ==
  ASSUME TypeOK, NEW B \in SUBSET Active, NEW s \in {"closed", "revoked"},
         EndBindings(B, s)
  PROVE  /\ Bound' = Bound
         /\ Active' = Active \ B
         /\ \A b \in Bound : /\ bindings'[b].source = bindings[b].source
                             /\ bindings'[b].stream = bindings[b].stream
                             /\ bindings'[b].dispatch = bindings[b].dispatch
PROOF
<1>1. \A b \in Bound : bindings[b] \in BindingRow
  BY DEF TypeOK, Bound
<1>2. \A b \in B : /\ bindings'[b] = [bindings[b] EXCEPT !.state = s]
                   /\ bindings'[b] \in BindingRow
                   /\ bindings'[b].state = s
                   /\ bindings'[b].source = bindings[b].source
                   /\ bindings'[b].stream = bindings[b].stream
                   /\ bindings'[b].dispatch = bindings[b].dispatch
  BY <1>1 DEF EndBindings, Active, Bound, BindingRow
<1>3. \A b \in BindingIds \ B : bindings'[b] = bindings[b]
  BY DEF EndBindings
<1>4. \A b \in BindingIds : bindings'[b] # NoBinding <=> bindings[b] # NoBinding
  <2> SUFFICES ASSUME NEW b \in BindingIds
               PROVE  bindings'[b] # NoBinding <=> bindings[b] # NoBinding
    OBVIOUS
  <2>1. CASE b \in B
    BY <1>2, <2>1, AbsentAssumption DEF Active, Bound
  <2>2. CASE b \notin B
    BY <1>3, <2>2
  <2> QED BY <2>1, <2>2
<1>5. Bound' = Bound
  BY <1>4 DEF Bound
<1>6. \A b \in BindingIds : bindings'[b].state = "active" <=>
                              (bindings[b].state = "active" /\ b \notin B)
  BY <1>2, <1>3 DEF Active, Bound
<1>7. Active' = Active \ B
  BY <1>5, <1>6 DEF Active, Bound
<1> QED BY <1>2, <1>3, <1>5, <1>7 DEF Bound

\* The new row of bind_runtime.
LEMMA BindFacts ==
  ASSUME TypeOK, NEW b \in BindingIds, NEW c \in Conns, NEW d \in Dispatches,
         NEW s \in Streams, BindRuntime(b, c, d, s)
  PROVE  /\ <<generation, c>> \in Sources
         /\ Bound' = Bound \cup {b} /\ Active' = Active \cup {b} /\ b \notin Bound
         /\ bindings'[b] = [source |-> <<generation, c>>, stream |-> s, dispatch |-> d,
                            state |-> "active"]
         /\ \A o \in Bound : bindings'[o] = bindings[o]
PROOF
<1>1. <<generation, c>> \in Sources
  BY SourceOfGeneration DEF BindRuntime
<1> DEFINE row == [source |-> <<generation, c>>, stream |-> s, dispatch |-> d,
                   state |-> "active"]
<1>2. row \in BindingRow
  BY <1>1 DEF BindingRow
<1>3. bindings' = [bindings EXCEPT ![b] = row] /\ b \notin Bound
  BY DEF BindRuntime
<1>4. bindings'[b] = row /\ \A o \in BindingIds \ {b} : bindings'[o] = bindings[o]
  BY <1>3 DEF TypeOK
<1>5. row # NoBinding /\ row.state = "active"
  BY <1>2, AbsentAssumption
<1> HIDE DEF row
<1>6. Bound' = Bound \cup {b}
  BY <1>4, <1>5 DEF Bound
<1>7. Active' = Active \cup {b}
  BY <1>3, <1>4, <1>5, <1>6 DEF Active, Bound
<1> QED BY <1>1, <1>3, <1>4, <1>6, <1>7 DEF Bound, row

\* A step that touches neither the bindings, their sources, the tables of events
\* nor any coverage; an export may be rendered, staged or confirmed.
Quiet ==
  /\ UNCHANGED <<bindings, conn, schema, generation, lifecycle, coverage, pending,
                 missed, blocked, eventVars>>
  /\ knownGap => knownGap'
  /\ Publisher \/ UNCHANGED publication

\* A step that drops some pending rows and gaps the dispatches in S.
GapStep(S) ==
  /\ UNCHANGED <<bindings, conn, schema, generation, lifecycle, blocked, eventVars>>
  /\ ~blocked
  /\ knownGap' = TRUE
  /\ Bump(S)
  /\ coverage' = Raised(coverage, S, KNOWN_GAP)
  /\ pending' \subseteq pending
  /\ missed' = missed \cup Dropped(pending \ pending')
  /\ pending' # pending => Nonterminal \subseteq S

\* The cases the proofs below distinguish.
LEMMA StepCases ==
  ASSUME TypeOK, [Next]_vars
  PROVE  \/ Quiet
         \/ \E S \in SUBSET Known : GapStep(S)
         \/ \E g \in Generations, state \in {"enabled", "revoked"} :
              RegisterProject(g, state)
         \/ OpenWriter
         \/ PersistCapacityBlocked
         \/ \E c \in Conns : RegisterConnection(c) \/ MarkSourceIncompatible(c)
         \/ \E src \in Sources, expected \in BOOLEAN :
              MarkSourceDisconnected(src, expected)
         \/ \E src \in Sources, overdue \in SUBSET pending, p \in Projections :
              IngestPending(p, src, overdue)
         \/ \E src \in Sources, overdue \in SUBSET pending, p \in Projections,
               b \in BindingIds : IngestBound(p, src, b, overdue)
         \/ \E d \in Dispatches : RecordSubmission(d)
         \/ \E d \in Dispatches, clockGap \in BOOLEAN, state \in Reported :
              RecordLifecycle(d, state, clockGap)
         \/ \E b \in BindingIds, c \in Conns, d \in Dispatches, s \in Streams :
              BindRuntime(b, c, d, s)
PROOF
<1>1. CASE KeyFile \/ MarkKeyUnavailable \/ SourceFingerprinter \/ Stop
           \/ SetQueueOverflow \/ UNCHANGED vars
  <2>1. Quiet
    BY <1>1
    DEF KeyFile, MarkKeyUnavailable, SourceFingerprinter, Stop, SetQueueOverflow,
        Quiet, vars, registryVars, sourceVars, eventVars
  <2> QED BY <2>1
<1>2. CASE Publisher
  <2>1. Quiet
    BY <1>2
    DEF Publisher, RenderManifest, StagePublicationManifest, ConfirmPublication,
        Quiet, registryVars, sourceVars, eventVars
  <2> QED BY <2>1
<1>3. ASSUME NEW S \in SUBSET Dispatches, MarkGap(S)
      PROVE  S \in SUBSET Known /\ GapStep(S)
  BY <1>3 DEF MarkGap, GapStep, Dropped, Transaction, registryVars, sourceVars
<1>4. ASSUME RecordHealthGap
      PROVE  \E S \in SUBSET Known : GapStep(S)
  <2> DEFINE S == Nonterminal \cup DispatchesOf(Active)
  <2>1. MarkGap(S) /\ S \subseteq Known
    BY <1>4 DEF RecordHealthGap, MarkGap
  <2>2. S \in SUBSET Dispatches
    BY <2>1 DEF Known
  <2> HIDE DEF S
  <2> QED BY <1>3, <2>1, <2>2
<1>5. ASSUME NEW overdue \in SUBSET pending, ExpirePending(overdue)
      PROVE  \E S \in SUBSET Known : GapStep(S)
  <2>1. overdue = pending \ pending' /\ Nonterminal \in SUBSET Known
    BY <1>5 DEF ExpirePending, Nonterminal
  <2>2. GapStep(Nonterminal)
    BY <1>5, <2>1 DEF ExpirePending, GapStep, Transaction, registryVars, sourceVars
  <2> QED BY <2>1, <2>2
<1>6. CASE Registry
  BY <1>1, <1>6 DEF Registry
<1>7. CASE Source
  BY <1>1, <1>4, <1>5, <1>7 DEF Source, IngestRejected
<1>8. CASE Supervisor
  BY <1>3, <1>8 DEF Supervisor
<1> QED
  BY <1>1, <1>2, <1>6, <1>7, <1>8 DEF Next

\* Bindings live on while neither they nor their sources change.
LEMMA BindingsLiveFrame ==
  ASSUME BindingsLive, UNCHANGED <<bindings, conn, generation>>, Known \subseteq Known'
  PROVE  BindingsLive'
  BY DEF BindingsLive, Bound, Active, Connected

\* Every step keeps bindings and sources together.
LEMMA BindingsLiveStep ==
  ASSUME TypeOK, BindingsLive, [Next]_vars
  PROVE  BindingsLive'
PROOF
<1>1. ASSUME NEW g \in Generations, NEW state \in {"enabled", "revoked"},
             RegisterProject(g, state)
      PROVE  BindingsLive'
  <2>1. Known' = Known
    BY <1>1 DEF RegisterProject, Known
  <2>2. CASE regState = "absent"
    <3>1. UNCHANGED <<bindings, conn>>
      BY <1>1, <2>2 DEF RegisterProject
    <3>2. Active = {}
      \* Nothing is bound before the project is registered.
      <4> SUFFICES ASSUME NEW b \in Active PROVE FALSE
        OBVIOUS
      <4>1. bindings[b].source[1] = 0 /\ bindings[b] \in BindingRow
        BY <2>2 DEF BindingsLive, TypeOK, Active, Bound
      <4> QED BY <4>1 DEF BindingRow, Sources, Generations
    <3>3. Bound' = Bound /\ Active' = Active
      BY <3>1 DEF Bound, Active
    <3> QED BY <2>1, <3>1, <3>2, <3>3 DEF BindingsLive
  <2>3. CASE regState # "absent"
    <3> DEFINE ended == {b \in Active : bindings[b].source[1] = generation}
    <3>1. /\ EndBindings(ended, "revoked")
          /\ conn' = [src \in Sources |->
                        IF src[1] = generation /\ Connected(src)
                        THEN "disconnected" ELSE conn[src]]
      BY <1>1, <2>3 DEF RegisterProject, Retire
    <3>2. ended = Active
      BY DEF BindingsLive, Active
    <3>3. /\ Bound' = Bound /\ Active' = {}
          /\ \A b \in Bound : /\ bindings'[b].source = bindings[b].source
                              /\ bindings'[b].dispatch = bindings[b].dispatch
      BY <3>1, <3>2, EndBindingsFacts
    <3>4. \A b \in Bound : bindings[b].source \in Sources
      BY DEF Bound, TypeOK, BindingRow
    <3>5. \A b \in Bound : conn'[bindings[b].source] = "disconnected"
      BY <3>1, <3>4 DEF BindingsLive, Connected
    <3> QED BY <2>1, <3>3, <3>5 DEF BindingsLive
  <2> QED BY <2>2, <2>3
<1>2. ASSUME NEW c \in Conns, RegisterConnection(c)
      PROVE  BindingsLive'
  <2> DEFINE src == <<generation, c>>
  <2>1. /\ conn[src] = "absent" /\ conn' = [conn EXCEPT ![src] = "connected"]
        /\ UNCHANGED <<generation, lifecycle, bindings>>
    BY <1>2 DEF RegisterConnection, registryVars
  <2>2. \A b \in Bound : bindings[b].source # src
    BY <2>1 DEF BindingsLive, Connected
  <2>3. \A b \in Bound : conn'[bindings[b].source] = conn[bindings[b].source]
    <3> HIDE DEF src
    <3> QED BY <2>1, <2>2 DEF TypeOK, Bound, BindingRow
  <2> QED
    BY <2>1, <2>3 DEF BindingsLive, Bound, Active, Known, Connected
<1>3. ASSUME NEW src \in Sources, NEW expected \in BOOLEAN,
             MarkSourceDisconnected(src, expected)
      PROVE  BindingsLive'
  <2> DEFINE ended == {b \in Active : bindings[b].source = src}
  <2>1. /\ EndBindings(ended, "closed")
        /\ conn' = [conn EXCEPT ![src] = "disconnected"]
        /\ UNCHANGED <<generation, lifecycle>>
    BY <1>3 DEF MarkSourceDisconnected, registryVars
  <2>2. /\ Bound' = Bound /\ Active' = Active \ ended
        /\ \A b \in Bound : /\ bindings'[b].source = bindings[b].source
                            /\ bindings'[b].dispatch = bindings[b].dispatch
    BY <2>1, EndBindingsFacts
  <2>3. \A o \in Sources : conn'[o] = IF o = src THEN "disconnected" ELSE conn[o]
    BY <2>1 DEF TypeOK
  <2>4. \A b \in Bound : bindings[b].source \in Sources
    BY DEF Bound, TypeOK, BindingRow
  <2>5. Known' = Known
    BY <2>1 DEF Known
  <2> QED
    BY <2>1, <2>2, <2>3, <2>4, <2>5 DEF BindingsLive, Active, Connected
<1>4. CASE OpenWriter
  <2> DEFINE left == {src \in Sources : Connected(src)}
             ended == {b \in Active : bindings[b].source \in left}
  <2>1. /\ EndBindings(ended, "closed")
        /\ conn' = [src \in Sources |->
                      IF src \in left THEN "disconnected" ELSE conn[src]]
        /\ UNCHANGED <<generation, lifecycle>>
    BY <1>4 DEF OpenWriter
  <2>2. /\ Bound' = Bound /\ Active' = Active \ ended
        /\ \A b \in Bound : /\ bindings'[b].source = bindings[b].source
                            /\ bindings'[b].dispatch = bindings[b].dispatch
    BY <2>1, EndBindingsFacts
  <2>3. \A b \in Bound : bindings[b].source \in Sources
    BY DEF Bound, TypeOK, BindingRow
  <2>4. ended = Active
    BY <2>3 DEF BindingsLive, Active
  <2>5. Known' = Known
    BY <2>1 DEF Known
  <2>6. \A b \in Bound : conn'[bindings[b].source] = "disconnected"
    BY <2>1, <2>3 DEF BindingsLive
  <2> QED
    BY <2>1, <2>2, <2>4, <2>5, <2>6 DEF BindingsLive
<1>5. ASSUME NEW b \in BindingIds, NEW c \in Conns, NEW d \in Dispatches,
             NEW s \in Streams, BindRuntime(b, c, d, s)
      PROVE  BindingsLive'
  <2> DEFINE src == <<generation, c>>
  <2>1. /\ d \in Known /\ Connected(src)
        /\ UNCHANGED <<generation, conn, lifecycle>>
    BY <1>5 DEF BindRuntime, registryVars, sourceVars
  <2>2. /\ Bound' = Bound \cup {b} /\ Active' = Active \cup {b} /\ b \notin Bound
        /\ bindings'[b] = [source |-> src, stream |-> s, dispatch |-> d,
                           state |-> "active"]
        /\ \A o \in Bound : bindings'[o] = bindings[o]
    BY <1>5, BindFacts
  <2>3. src[1] = generation
    OBVIOUS
  <2>4. Known' = Known
    BY <2>1 DEF Known
  <2> HIDE DEF src
  <2> QED
    BY <2>1, <2>2, <2>3, <2>4 DEF BindingsLive, Connected
<1>6. ASSUME NEW d \in Dispatches, RecordSubmission(d)
      PROVE  BindingsLive'
  <2>1. UNCHANGED <<bindings, conn, generation>> /\ Known \subseteq Known'
    BY <1>6 DEF RecordSubmission, registryVars, sourceVars, TypeOK, Known
  <2> QED BY <2>1, BindingsLiveFrame
<1>7. ASSUME NEW d \in Dispatches, NEW clockGap \in BOOLEAN, NEW state \in Reported,
             RecordLifecycle(d, state, clockGap)
      PROVE  BindingsLive'
  <2>1. state # "none"
    BY ReportedAssumption DEF LifecycleStates, TerminalStates
  <2>2. UNCHANGED <<bindings, conn, generation>> /\ Known \subseteq Known'
    BY <1>7, <2>1 DEF RecordLifecycle, registryVars, sourceVars, TypeOK, Known
  <2> QED BY <2>2, BindingsLiveFrame
<1>8. ASSUME UNCHANGED <<bindings, conn, generation, lifecycle>>
      PROVE  BindingsLive'
  BY <1>8, BindingsLiveFrame DEF Known
<1>9. ASSUME Quiet \/ \E S \in SUBSET Known : GapStep(S)
      PROVE  BindingsLive'
  BY <1>8, <1>9 DEF Quiet, GapStep
<1>10. ASSUME NEW c \in Conns, MarkSourceIncompatible(c)
       PROVE  BindingsLive'
  BY <1>8, <1>10 DEF MarkSourceIncompatible, registryVars
<1>11. CASE PersistCapacityBlocked
  BY <1>8, <1>11 DEF PersistCapacityBlocked, sourceVars
<1>12. ASSUME NEW src \in Sources, NEW overdue \in SUBSET pending,
              NEW p \in Projections, IngestPending(p, src, overdue)
       PROVE  BindingsLive'
  BY <1>8, <1>12 DEF IngestPending, registryVars, sourceVars
<1>13. ASSUME NEW src \in Sources, NEW overdue \in SUBSET pending,
              NEW p \in Projections, NEW b \in BindingIds,
              IngestBound(p, src, b, overdue)
       PROVE  BindingsLive'
  BY <1>8, <1>13 DEF IngestBound, registryVars, sourceVars
<1> QED
  BY StepCases, <1>1, <1>2, <1>3, <1>4, <1>5, <1>6, <1>7, <1>9, <1>10, <1>11, <1>12,
     <1>13

\* A step after which the project still knows its gaps, no new source is
\* incompatible and no dispatch is OBSERVED that was not.
LEMMA GapsRememberedFrame ==
  ASSUME TypeOK, GapsRemembered, schema' = schema, knownGap => knownGap',
         missed' # {} => missed # {} \/ knownGap',
         \A d \in Dispatches : coverage'[d] = OBSERVED => coverage[d] = OBSERVED,
         \A d \in Dispatches \ Known' : d \notin Known /\ coverage'[d] = coverage[d]
  PROVE  GapsRemembered'
  BY DEF GapsRemembered

\* The coverage part of that frame, for a step that only raises the dispatches in
\* S, all of them known, to a gap or a conflict.
LEMMA RaisedFrame ==
  ASSUME TypeOK, NEW S \in SUBSET Known, NEW level \in {KNOWN_GAP, CONFLICT},
         coverage' = Raised(coverage, S, level), Known' = Known
  PROVE  /\ \A d \in Dispatches : coverage'[d] = OBSERVED => coverage[d] = OBSERVED
         /\ \A d \in Dispatches \ Known' : d \notin Known /\ coverage'[d] = coverage[d]
  BY RaisedFacts DEF TypeOK

\* A bound dispatch was submitted.
LEMMA BoundDispatchesKnown ==
  ASSUME BindingsLive, NEW B \in SUBSET Active
  PROVE  DispatchesOf(B) \subseteq Known
  BY DEF BindingsLive, DispatchesOf, Active

\* Every step remembers the gaps there are.
LEMMA GapsRememberedStep ==
  ASSUME TypeOK, BindingsLive, GapsRemembered, [Next]_vars
  PROVE  GapsRemembered'
PROOF
<1>1. CASE Quiet
  BY <1>1 DEF Quiet, GapsRemembered, Known
<1>2. ASSUME NEW S \in SUBSET Known, GapStep(S)
      PROVE  GapsRemembered'
  <2>1. Known' = Known
    BY <1>2 DEF GapStep, Known
  <2> QED
    BY <1>2, <2>1, RaisedFrame, GapsRememberedFrame DEF GapStep
<1>3. ASSUME NEW g \in Generations, NEW state \in {"enabled", "revoked"},
             RegisterProject(g, state)
      PROVE  GapsRemembered'
  <2>1. Known' = Known /\ schema' = schema /\ missed' = missed
    BY <1>3 DEF RegisterProject, Known
  <2>2. CASE regState = "absent"
    BY <1>3, <2>1, <2>2 DEF RegisterProject, GapsRemembered
  <2>3. CASE regState # "absent"
    <3> DEFINE ended == {b \in Active : bindings[b].source[1] = generation}
    <3>1. /\ knownGap => knownGap'
          /\ coverage' = Raised(coverage, DispatchesOf(ended), KNOWN_GAP)
      BY <1>3, <2>3 DEF RegisterProject, Retire
    <3>2. DispatchesOf(ended) \in SUBSET Known
      BY BoundDispatchesKnown
    <3> QED
      BY <2>1, <3>1, <3>2, RaisedFrame, GapsRememberedFrame
  <2> QED BY <2>2, <2>3
<1>4. CASE OpenWriter
  <2> DEFINE left == {src \in Sources : Connected(src)}
             ended == {b \in Active : bindings[b].source \in left}
             targets == IF left = {} THEN {} ELSE DisconnectTargets(ended, FALSE)
  <2>1. /\ Known' = Known /\ schema' = schema /\ missed' = missed
        /\ knownGap => knownGap'
        /\ coverage' = Raised(coverage, targets, KNOWN_GAP)
    BY <1>4 DEF OpenWriter, Known
  <2>2. targets \in SUBSET Known
    BY BoundDispatchesKnown DEF DisconnectTargets, Nonterminal
  <2> HIDE DEF targets
  <2> QED
    BY <2>1, <2>2, RaisedFrame, GapsRememberedFrame
<1>5. CASE PersistCapacityBlocked
  <2>1. /\ Known' = Known /\ schema' = schema /\ missed' = missed
        /\ knownGap'
        /\ coverage' = Raised(coverage, Known, KNOWN_GAP)
    BY <1>5 DEF PersistCapacityBlocked, sourceVars, Known
  <2> QED
    BY <2>1, RaisedFrame, GapsRememberedFrame
<1>6. ASSUME NEW c \in Conns, RegisterConnection(c)
      PROVE  GapsRemembered'
  BY <1>6 DEF RegisterConnection, GapsRemembered, Known
<1>7. ASSUME NEW c \in Conns, MarkSourceIncompatible(c)
      PROVE  GapsRemembered'
  <2>1. /\ Known' = Known /\ missed' = missed /\ knownGap' = TRUE
        /\ coverage' = Raised(coverage, Known, KNOWN_GAP)
    BY <1>7 DEF MarkSourceIncompatible, Known
  <2>2. \A d \in Known : coverage'[d] # OBSERVED
    BY <2>1, RaisedFacts DEF TypeOK, Known
  <2>3. \A d \in Dispatches \ Known : coverage'[d] = UNKNOWN
    BY <2>1, RaisedFacts DEF TypeOK, GapsRemembered
  <2>4. \A d \in Dispatches : coverage'[d] # OBSERVED
    BY <2>2, <2>3 DEF UNKNOWN, OBSERVED
  <2> QED
    BY <2>1, <2>3, <2>4 DEF GapsRemembered
<1>8. ASSUME NEW src \in Sources, NEW expected \in BOOLEAN,
             MarkSourceDisconnected(src, expected)
      PROVE  GapsRemembered'
  <2> DEFINE ended == {b \in Active : bindings[b].source = src}
             targets == DisconnectTargets(ended, expected)
  <2>1. /\ Known' = Known /\ schema' = schema /\ missed' = missed
        /\ knownGap => knownGap'
        /\ coverage' = Raised(coverage, targets, KNOWN_GAP)
    BY <1>8 DEF MarkSourceDisconnected, Known
  <2>2. targets \in SUBSET Known
    BY BoundDispatchesKnown DEF DisconnectTargets, Nonterminal
  <2> HIDE DEF targets
  <2> QED
    BY <2>1, <2>2, RaisedFrame, GapsRememberedFrame
<1>9. ASSUME NEW src \in Sources, NEW overdue \in SUBSET pending,
             NEW p \in Projections, IngestPending(p, src, overdue)
      PROVE  GapsRemembered'
  <2> DEFINE known == \E r \in pending \ overdue :
                         r.event.kind = p.kind /\ r.event.event = p.event
             overflow == ~known /\ Cardinality(pending \ overdue) >= MaxPending
             gapped == ExpiryTargets(overdue)
                         \cup (IF overflow THEN Nonterminal ELSE {})
  <2>1. /\ Known' = Known /\ schema' = schema
        /\ knownGap' = (knownGap \/ overdue # {} \/ overflow)
        /\ missed' = missed \cup Dropped(overdue)
              \cup (IF overflow THEN Dropped({[source |-> src, event |-> p]}) ELSE {})
        /\ coverage' = Raised(coverage, gapped, KNOWN_GAP)
    BY <1>9 DEF IngestPending, sourceVars, Known
  <2>2. gapped \in SUBSET Known
    BY DEF ExpiryTargets, Nonterminal
  <2>3. missed' # {} => missed # {} \/ knownGap'
    BY <2>1 DEF Dropped
  <2>4. knownGap => knownGap'
    BY <2>1
  <2> HIDE DEF gapped, overflow
  <2> QED
    BY <2>1, <2>2, <2>3, <2>4, RaisedFrame, GapsRememberedFrame
<1>10. ASSUME NEW src \in Sources, NEW overdue \in SUBSET pending,
              NEW p \in Projections, NEW b \in BindingIds,
              IngestBound(p, src, b, overdue)
       PROVE  GapsRemembered'
  <2> DEFINE d == bindings[b].dispatch
             conflict == IF Conflicts([source |-> src, event |-> p], d)
                         THEN {d} ELSE {}
             inner == Raised(coverage, ExpiryTargets(overdue), KNOWN_GAP)
  <2>1. /\ Known' = Known /\ schema' = schema
        /\ knownGap' = (knownGap \/ overdue # {})
        /\ missed' \subseteq missed \cup Dropped(overdue)
             \cup (IF schema[src] = "compatible" THEN {} ELSE {<<src, p.stream>>})
        /\ coverage' = Raised(inner, conflict, CONFLICT)
    BY <1>10 DEF IngestBound, sourceVars, Known
  <2>2. d \in Known
    BY <1>10 DEF IngestBound, Owners, Active, BindingsLive
  <2>3. schema[src] # "compatible" => knownGap
    BY DEF GapsRemembered, TypeOK
  <2>4. missed' # {} => missed # {} \/ knownGap'
    BY <2>1, <2>3 DEF Dropped
  <2>5. inner \in [Dispatches -> UNKNOWN .. CONFLICT]
    BY RaisedType, LevelFacts DEF TypeOK
  <2>6. \A e \in Dispatches : inner[e] = OBSERVED => coverage[e] = OBSERVED
    BY RaisedFacts DEF TypeOK
  <2>7. \A e \in Dispatches \ Known : inner[e] = coverage[e]
    BY RaisedFacts DEF TypeOK, ExpiryTargets, Nonterminal
  <2> HIDE DEF inner, d
  <2>8. conflict \subseteq Known
    BY <2>2
  <2> HIDE DEF conflict
  <2>9. \A e \in Dispatches : coverage'[e] = OBSERVED => coverage[e] = OBSERVED
    BY <2>1, <2>5, <2>6, RaisedFacts
  <2>10. \A e \in Dispatches \ Known : coverage'[e] = coverage[e]
    BY <2>1, <2>5, <2>7, <2>8, RaisedFacts
  <2> QED
    BY <2>1, <2>4, <2>9, <2>10, GapsRememberedFrame
<1>11. ASSUME NEW d \in Dispatches, RecordSubmission(d)
       PROVE  GapsRemembered'
  <2>1. UNCHANGED <<missed, knownGap, schema, coverage>> /\ Known \subseteq Known'
    BY <1>11 DEF RecordSubmission, sourceVars, TypeOK, Known
  <2> QED
    BY <2>1 DEF GapsRemembered
<1>12. ASSUME NEW d \in Dispatches, NEW clockGap \in BOOLEAN, NEW state \in Reported,
              RecordLifecycle(d, state, clockGap)
       PROVE  GapsRemembered'
  <2>1. state # "none"
    BY ReportedAssumption DEF LifecycleStates, TerminalStates
  <2>2. Known' = Known
    BY <1>12, <2>1 DEF RecordLifecycle, TypeOK, Known
  <2> DEFINE S == IF clockGap THEN {d} ELSE {}
  <2>3. /\ schema' = schema /\ missed' = missed
        /\ knownGap => knownGap'
        /\ coverage' = Raised(coverage, S, KNOWN_GAP) /\ S \in SUBSET Known
    BY <1>12 DEF RecordLifecycle, sourceVars
  <2> HIDE DEF S
  <2> QED
    BY <2>2, <2>3, RaisedFrame, GapsRememberedFrame
<1>13. ASSUME NEW b \in BindingIds, NEW c \in Conns, NEW d \in Dispatches,
              NEW s \in Streams, BindRuntime(b, c, d, s)
       PROVE  GapsRemembered'
  <2> DEFINE src == <<generation, c>>
             compatible == schema[src] = "compatible"
             promoted == Raised(coverage, IF compatible THEN {d} ELSE {}, FirstCoverage)
             S == IF {r \in Matched(src, s) : Conflicts(r, d)} # {} THEN {d} ELSE {}
  <2>1. src \in Sources
    BY <1>13, BindFacts
  <2>2. /\ Known' = Known /\ schema' = schema /\ knownGap' = knownGap /\ d \in Known
        /\ compatible => missed' = missed
        /\ coverage' = Raised(promoted, S, CONFLICT)
    BY <1>13 DEF BindRuntime, sourceVars, Known
  <2>3. ~compatible => knownGap
    BY <2>1 DEF GapsRemembered, TypeOK
  <2>4. promoted \in [Dispatches -> UNKNOWN .. CONFLICT]
    BY RaisedType, LevelFacts DEF TypeOK, FirstCoverage
  <2>5. \A e \in Dispatches : promoted[e] = OBSERVED => coverage[e] = OBSERVED \/ ~knownGap
    BY DEF Raised, FirstCoverage, KNOWN_GAP, OBSERVED
  <2>6. \A e \in Dispatches \ Known : promoted[e] = coverage[e]
    BY <2>2 DEF Raised
  <2>7. S \subseteq Known
    BY <2>2
  <2> HIDE DEF promoted, S, compatible
  <2>8. \A e \in Dispatches :
          coverage'[e] = OBSERVED => coverage[e] = OBSERVED \/ ~knownGap
    BY <2>2, <2>4, <2>5, RaisedFacts
  <2>9. \A e \in Dispatches \ Known : coverage'[e] = coverage[e]
    BY <2>2, <2>4, <2>6, <2>7, RaisedFacts
  <2>10. missed' # {} => knownGap'
    BY <2>2, <2>3 DEF GapsRemembered
  <2>11. (\E o \in Sources : schema'[o] = "incompatible") =>
           knownGap' /\ \A e \in Dispatches : coverage'[e] # OBSERVED
    BY <2>2, <2>8 DEF GapsRemembered
  <2>12. \A e \in Dispatches \ Known' : coverage'[e] = UNKNOWN
    BY <2>2, <2>9 DEF GapsRemembered
  <2> QED
    BY <2>10, <2>11, <2>12 DEF GapsRemembered
<1> QED
  BY StepCases, <1>1, <1>2, <1>3, <1>4, <1>5, <1>6, <1>7, <1>8, <1>9, <1>10, <1>11,
     <1>12, <1>13

\* No projection of a connected source is pending beside a binding of its stream:
\* if the stream has a binding, the join of _find_binding finds it.
LEMMA OwnerFound ==
  ASSUME TypeOK, BindingsLive, NEW src \in Sources, NEW s, Connected(src),
         Owners(src, s) = {}, NEW b \in Bound, bindings[b].source = src
  PROVE  bindings[b].stream # s
  BY DEF BindingsLive, Owners, Connected

\* Every step leaves the pending rows without an owner.
LEMMA PendingUnclaimedStep ==
  ASSUME TypeOK, BindingsLive, PendingUnclaimed, [Next]_vars
  PROVE  PendingUnclaimed'
PROOF
<1>1. ASSUME pending' \subseteq pending, bindings' = bindings
      PROVE  PendingUnclaimed'
  BY <1>1 DEF PendingUnclaimed, Bound
<1>2. ASSUME pending' = pending, NEW B \in SUBSET Active,
             NEW state \in {"closed", "revoked"}, EndBindings(B, state)
      PROVE  PendingUnclaimed'
  BY <1>2, EndBindingsFacts DEF PendingUnclaimed
<1>3. ASSUME NEW g \in Generations, NEW state \in {"enabled", "revoked"},
             RegisterProject(g, state)
      PROVE  PendingUnclaimed'
  <2> DEFINE ended == {b \in Active : bindings[b].source[1] = generation}
  <2>1. pending' = pending /\ (bindings' = bindings \/ EndBindings(ended, "revoked"))
    BY <1>3 DEF RegisterProject, Retire
  <2> QED
    BY <1>1, <1>2, <2>1
<1>4. CASE OpenWriter
  <2> DEFINE ended == {b \in Active : bindings[b].source \in
                                        {src \in Sources : Connected(src)}}
  <2>1. pending' = pending /\ EndBindings(ended, "closed")
    BY <1>4 DEF OpenWriter
  <2> QED
    BY <1>2, <2>1
<1>5. ASSUME NEW src \in Sources, NEW expected \in BOOLEAN,
             MarkSourceDisconnected(src, expected)
      PROVE  PendingUnclaimed'
  <2> DEFINE ended == {b \in Active : bindings[b].source = src}
  <2>1. pending' = pending /\ EndBindings(ended, "closed")
    BY <1>5 DEF MarkSourceDisconnected
  <2> QED
    BY <1>2, <2>1
<1>6. ASSUME NEW src \in Sources, NEW overdue \in SUBSET pending,
             NEW p \in Projections, IngestPending(p, src, overdue)
      PROVE  PendingUnclaimed'
  <2> DEFINE row == [source |-> src, event |-> p]
  <2>1. /\ Connected(src) /\ Owners(src, p.stream) = {} /\ bindings' = bindings
        /\ pending' \subseteq pending \cup {row}
    BY <1>6 DEF IngestPending
  <2>2. \A b \in Bound : ~(bindings[b].source = src /\ bindings[b].stream = p.stream)
    BY <2>1, OwnerFound
  <2>3. row.source = src /\ row.event.stream = p.stream
    OBVIOUS
  <2> HIDE DEF row
  <2> QED
    BY <2>1, <2>2, <2>3 DEF PendingUnclaimed, Bound
<1>7. ASSUME NEW b \in BindingIds, NEW c \in Conns, NEW d \in Dispatches,
             NEW s \in Streams, BindRuntime(b, c, d, s)
      PROVE  PendingUnclaimed'
  <2> DEFINE src == <<generation, c>>
  <2>1. /\ Bound' = Bound \cup {b}
        /\ bindings'[b] = [source |-> src, stream |-> s, dispatch |-> d,
                           state |-> "active"]
        /\ \A o \in Bound : bindings'[o] = bindings[o]
    BY <1>7, BindFacts
  <2>2. pending' = pending \ Matched(src, s)
    BY <1>7 DEF BindRuntime
  <2>3. \A r \in pending' : r \in pending /\ ~(r.source = src /\ r.event.stream = s)
    BY <2>2 DEF Matched
  <2> HIDE DEF src
  <2> QED
    BY <2>1, <2>3 DEF PendingUnclaimed
<1>8. CASE Quiet \/ \E S \in SUBSET Known : GapStep(S)
  BY <1>1, <1>8 DEF Quiet, GapStep
<1>9. CASE PersistCapacityBlocked
  BY <1>1, <1>9 DEF PersistCapacityBlocked
<1>10. ASSUME NEW c \in Conns, RegisterConnection(c) \/ MarkSourceIncompatible(c)
       PROVE  PendingUnclaimed'
  BY <1>1, <1>10 DEF RegisterConnection, MarkSourceIncompatible
<1>11. ASSUME NEW src \in Sources, NEW overdue \in SUBSET pending,
              NEW p \in Projections, NEW b \in BindingIds,
              IngestBound(p, src, b, overdue)
       PROVE  PendingUnclaimed'
  BY <1>1, <1>11 DEF IngestBound
<1>12. ASSUME NEW d \in Dispatches, RecordSubmission(d)
       PROVE  PendingUnclaimed'
  BY <1>1, <1>12 DEF RecordSubmission
<1>13. ASSUME NEW d \in Dispatches, NEW clockGap \in BOOLEAN, NEW state \in Reported,
              RecordLifecycle(d, state, clockGap)
       PROVE  PendingUnclaimed'
  BY <1>1, <1>13 DEF RecordLifecycle
<1> QED
  BY StepCases, <1>3, <1>4, <1>5, <1>6, <1>7, <1>8, <1>9, <1>10, <1>11, <1>12, <1>13

\* No step but a binding makes a coverage exact.
LEMMA ExactByBindingOnly ==
  ASSUME TypeOK, [Next]_vars, NEW d \in Dispatches,
         coverage'[d] = OBSERVED, coverage[d] # OBSERVED
  PROVE  \E b \in BindingIds, c \in Conns, e \in Dispatches, s \in Streams :
           BindRuntime(b, c, e, s)
PROOF
<1>1. ASSUME NEW S, NEW level \in {KNOWN_GAP, CONFLICT},
             coverage' = Raised(coverage, S, level)
      PROVE  FALSE
  BY <1>1, RaisedFacts DEF TypeOK
<1>2. coverage' # coverage
  OBVIOUS
<1>3. ~Quiet
  BY <1>2 DEF Quiet
<1>4. ~\E S \in SUBSET Known : GapStep(S)
  BY <1>1 DEF GapStep
<1>5. ~\E g \in Generations, state \in {"enabled", "revoked"} : RegisterProject(g, state)
  BY <1>1, <1>2 DEF RegisterProject, Retire
<1>6. ~OpenWriter
  BY <1>1 DEF OpenWriter
<1>7. ~PersistCapacityBlocked
  BY <1>1 DEF PersistCapacityBlocked
<1>8. ~\E c \in Conns : RegisterConnection(c) \/ MarkSourceIncompatible(c)
  BY <1>1, <1>2 DEF RegisterConnection, MarkSourceIncompatible
<1>9. ~\E src \in Sources, expected \in BOOLEAN : MarkSourceDisconnected(src, expected)
  BY <1>1 DEF MarkSourceDisconnected
<1>10. ~\E src \in Sources, overdue \in SUBSET pending, p \in Projections :
          IngestPending(p, src, overdue)
  <2>1. ASSUME NEW src, NEW overdue, NEW p PROVE ~IngestPending(p, src, overdue)
    BY <1>1, <2>1 DEF IngestPending
  <2> QED BY <2>1
<1>11. ASSUME NEW src \in Sources, NEW overdue \in SUBSET pending,
              NEW p \in Projections, NEW b \in BindingIds,
              IngestBound(p, src, b, overdue)
       PROVE  FALSE
  <2> DEFINE inner == Raised(coverage, ExpiryTargets(overdue), KNOWN_GAP)
             conflict == IF Conflicts([source |-> src, event |-> p], bindings[b].dispatch)
                         THEN {bindings[b].dispatch} ELSE {}
  <2>1. coverage' = Raised(inner, conflict, CONFLICT)
    BY <1>11 DEF IngestBound
  <2>2. inner \in [Dispatches -> UNKNOWN .. CONFLICT]
    BY RaisedType, LevelFacts DEF TypeOK
  <2>3. inner[d] # OBSERVED
    BY RaisedFacts DEF TypeOK
  <2> HIDE DEF inner, conflict
  <2> QED BY <2>1, <2>2, <2>3, RaisedFacts
<1>12. ~\E e \in Dispatches : RecordSubmission(e)
  BY <1>2 DEF RecordSubmission
<1>13. ~\E e \in Dispatches, clockGap \in BOOLEAN, state \in Reported :
          RecordLifecycle(e, state, clockGap)
  BY <1>1 DEF RecordLifecycle
<1> QED
  BY StepCases, <1>3, <1>4, <1>5, <1>6, <1>7, <1>8, <1>9, <1>10, <1>11, <1>12, <1>13

\* A step that keeps the bound streams, makes nothing exact, and drops pending rows
\* or projections of the streams in X, which are not bound to exact dispatches.
LEMMA HonestCoverageFrame ==
  ASSUME TypeOK, PendingUnclaimed, HonestCoverage, Bound' = Bound,
         \A b \in Bound : /\ bindings'[b].source = bindings[b].source
                          /\ bindings'[b].stream = bindings[b].stream
                          /\ bindings'[b].dispatch = bindings[b].dispatch,
         \A d \in Dispatches : coverage'[d] = OBSERVED => coverage[d] = OBSERVED,
         NEW D \in SUBSET pending, NEW X,
         missed' \subseteq missed \cup Dropped(D) \cup X,
         \A b \in Bound : <<bindings[b].source, bindings[b].stream>> \in X
                            => coverage[bindings[b].dispatch] # OBSERVED
  PROVE  HonestCoverage'
PROOF
<1>1. \A b \in Bound : <<bindings[b].source, bindings[b].stream>> \notin Dropped(D)
  BY DEF PendingUnclaimed, Dropped
<1>2. \A b \in Bound : bindings[b].dispatch \in Dispatches
  BY DEF TypeOK, Bound, BindingRow
<1> QED
  BY <1>1, <1>2 DEF HonestCoverage

\* Every step keeps coverage honest.
LEMMA HonestCoverageStep ==
  ASSUME TypeOK, BindingsLive, GapsRemembered, PendingUnclaimed, HonestCoverage,
         [Next]_vars
  PROVE  HonestCoverage'
PROOF
<1>1. ASSUME NEW b \in BindingIds, NEW c \in Conns, NEW d \in Dispatches,
             NEW s \in Streams, BindRuntime(b, c, d, s)
      PROVE  HonestCoverage'
  <2> DEFINE src == <<generation, c>>
             compatible == schema[src] = "compatible"
             level == FirstCoverage
             promoted == Raised(coverage, IF compatible THEN {d} ELSE {}, level)
             S == IF {r \in Matched(src, s) : Conflicts(r, d)} # {} THEN {d} ELSE {}
  <2>1. /\ src \in Sources
        /\ Bound' = Bound \cup {b} /\ b \notin Bound
        /\ bindings'[b] = [source |-> src, stream |-> s, dispatch |-> d,
                           state |-> "active"]
        /\ \A o \in Bound : bindings'[o] = bindings[o]
    BY <1>1, BindFacts
  <2>2. /\ coverage' = Raised(promoted, S, CONFLICT)
        /\ missed' \subseteq missed \cup (IF compatible THEN {} ELSE {<<src, s>>})
    BY <1>1 DEF BindRuntime
  <2>3. promoted \in [Dispatches -> UNKNOWN .. CONFLICT]
    BY RaisedType, LevelFacts DEF TypeOK, FirstCoverage
  <2>4. \A o \in Bound : bindings[o].dispatch \in Dispatches
    BY DEF TypeOK, Bound, BindingRow
  <2>5. CASE ~compatible
    <3>1. \A e \in Dispatches : coverage[e] # OBSERVED
      BY <2>1, <2>5 DEF GapsRemembered, TypeOK
    <3>2. \A e \in Dispatches : promoted[e] = coverage[e]
      BY <2>5 DEF Raised
    <3> HIDE DEF promoted, S
    <3>3. \A e \in Dispatches : coverage'[e] # OBSERVED
      BY <2>2, <2>3, <3>1, <3>2, RaisedFacts
    <3> HIDE DEF src
    <3> QED BY <2>1, <2>4, <3>3 DEF HonestCoverage
  <2>6. CASE compatible /\ missed = {}
    <3>1. missed' = {}
      BY <2>2, <2>6
    <3> QED BY <3>1 DEF HonestCoverage
  <2>7. CASE compatible /\ missed # {}
    <3>1. level = KNOWN_GAP
      BY <2>7 DEF GapsRemembered, FirstCoverage
    <3>2. promoted = Raised(coverage, {d}, KNOWN_GAP)
      BY <2>7, <3>1
    <3>3. \A e \in Dispatches : promoted[e] = OBSERVED => coverage[e] = OBSERVED /\ e # d
      BY <3>2, RaisedFacts DEF TypeOK
    <3>4. missed' \subseteq missed
      BY <2>2, <2>7
    <3> HIDE DEF promoted, S
    <3>5. \A e \in Dispatches : coverage'[e] = OBSERVED => coverage[e] = OBSERVED /\ e # d
      BY <2>2, <2>3, <3>3, RaisedFacts
    <3>6. bindings'[b].dispatch = d
      BY <2>1
    <3> HIDE DEF src
    <3> QED
      BY <2>1, <2>4, <3>4, <3>5, <3>6 DEF HonestCoverage
  <2> QED BY <2>5, <2>6, <2>7
<1> SUFFICES ASSUME ~\E b \in BindingIds, c \in Conns, d \in Dispatches, s \in Streams :
                       BindRuntime(b, c, d, s)
             PROVE  HonestCoverage'
  BY <1>1
<1>2. \A d \in Dispatches : coverage'[d] = OBSERVED => coverage[d] = OBSERVED
  BY ExactByBindingOnly
<1>3. ASSUME bindings' = bindings, NEW D \in SUBSET pending,
             missed' \subseteq missed \cup Dropped(D)
      PROVE  HonestCoverage'
  <2> DEFINE X == {}
  <2>1. Bound' = Bound /\ missed' \subseteq missed \cup Dropped(D) \cup X
    BY <1>3 DEF Bound
  <2>2. \A b \in Bound : <<bindings[b].source, bindings[b].stream>> \notin X
    OBVIOUS
  <2> HIDE DEF X
  <2> QED
    BY <1>2, <1>3, <2>1, <2>2, HonestCoverageFrame
<1>4. ASSUME missed' = missed, NEW B \in SUBSET Active,
             NEW state \in {"closed", "revoked"}, EndBindings(B, state)
      PROVE  HonestCoverage'
  <2>1. /\ Bound' = Bound
        /\ \A b \in Bound : /\ bindings'[b].source = bindings[b].source
                            /\ bindings'[b].stream = bindings[b].stream
                            /\ bindings'[b].dispatch = bindings[b].dispatch
    BY <1>4, EndBindingsFacts
  <2>2. \A b \in Bound : bindings[b].dispatch \in Dispatches
    BY DEF TypeOK, Bound, BindingRow
  <2> QED
    BY <1>2, <1>4, <2>1, <2>2 DEF HonestCoverage
<1>5. ASSUME bindings' = bindings, missed' = missed
      PROVE  HonestCoverage'
  BY <1>3, <1>5
<1>6. ASSUME NEW S \in SUBSET Known, GapStep(S)
      PROVE  HonestCoverage'
  BY <1>3, <1>6 DEF GapStep
<1>7. ASSUME NEW g \in Generations, NEW state \in {"enabled", "revoked"},
             RegisterProject(g, state)
      PROVE  HonestCoverage'
  <2> DEFINE ended == {b \in Active : bindings[b].source[1] = generation}
  <2>1. missed' = missed /\ (bindings' = bindings \/ EndBindings(ended, "revoked"))
    BY <1>7 DEF RegisterProject, Retire
  <2> QED
    BY <1>4, <1>5, <2>1
<1>8. CASE OpenWriter
  <2> DEFINE ended == {b \in Active : bindings[b].source \in
                                        {src \in Sources : Connected(src)}}
  <2>1. missed' = missed /\ EndBindings(ended, "closed")
    BY <1>8 DEF OpenWriter
  <2> QED
    BY <1>4, <2>1
<1>9. ASSUME NEW src \in Sources, NEW expected \in BOOLEAN,
             MarkSourceDisconnected(src, expected)
      PROVE  HonestCoverage'
  <2> DEFINE ended == {b \in Active : bindings[b].source = src}
  <2>1. missed' = missed /\ EndBindings(ended, "closed")
    BY <1>9 DEF MarkSourceDisconnected
  <2> QED
    BY <1>4, <2>1
<1>10. ASSUME NEW src \in Sources, NEW overdue \in SUBSET pending,
              NEW p \in Projections, IngestPending(p, src, overdue)
       PROVE  HonestCoverage'
  <2> DEFINE row == [source |-> src, event |-> p]
  <2>1. /\ Connected(src) /\ Owners(src, p.stream) = {} /\ bindings' = bindings
        /\ missed' \subseteq missed \cup Dropped(overdue) \cup Dropped({row})
    BY <1>10 DEF IngestPending
  <2>2. \A b \in Bound : ~(bindings[b].source = src /\ bindings[b].stream = p.stream)
    BY <2>1, OwnerFound
  <2>3. \A b \in Bound : <<bindings[b].source, bindings[b].stream>> \notin Dropped({row})
    BY <2>2 DEF Dropped
  <2>4. Bound' = Bound
    BY <2>1 DEF Bound
  <2> HIDE DEF row
  <2> QED
    BY <1>2, <2>1, <2>3, <2>4, HonestCoverageFrame
<1>11. ASSUME NEW src \in Sources, NEW overdue \in SUBSET pending,
              NEW p \in Projections, NEW b \in BindingIds,
              IngestBound(p, src, b, overdue)
       PROVE  HonestCoverage'
  <2> DEFINE X == IF schema[src] = "compatible" THEN {} ELSE {<<src, p.stream>>}
  <2>1. /\ bindings' = bindings
        /\ missed' \subseteq missed \cup Dropped(overdue) \cup X
    BY <1>11 DEF IngestBound
  <2>2. X # {} => \A d \in Dispatches : coverage[d] # OBSERVED
    BY DEF GapsRemembered, TypeOK
  <2>3. \A o \in Bound : bindings[o].dispatch \in Dispatches
    BY DEF TypeOK, Bound, BindingRow
  <2>4. Bound' = Bound
    BY <2>1 DEF Bound
  <2> HIDE DEF X
  <2>5. \A o \in Bound : <<bindings[o].source, bindings[o].stream>> \in X
                           => coverage[bindings[o].dispatch] # OBSERVED
    BY <2>2, <2>3
  <2> QED
    BY <1>2, <2>1, <2>4, <2>5, HonestCoverageFrame
<1>12. CASE Quiet
  BY <1>5, <1>12 DEF Quiet
<1>13. CASE PersistCapacityBlocked
  BY <1>5, <1>13 DEF PersistCapacityBlocked
<1>14. ASSUME NEW c \in Conns, RegisterConnection(c) \/ MarkSourceIncompatible(c)
       PROVE  HonestCoverage'
  BY <1>5, <1>14 DEF RegisterConnection, MarkSourceIncompatible
<1>15. ASSUME NEW d \in Dispatches, RecordSubmission(d)
       PROVE  HonestCoverage'
  BY <1>5, <1>15 DEF RecordSubmission
<1>16. ASSUME NEW d \in Dispatches, NEW clockGap \in BOOLEAN, NEW state \in Reported,
              RecordLifecycle(d, state, clockGap)
       PROVE  HonestCoverage'
  BY <1>5, <1>16 DEF RecordLifecycle
<1> QED
  BY StepCases, <1>6, <1>7, <1>8, <1>9, <1>10, <1>11, <1>12, <1>13, <1>14, <1>15, <1>16

----------------------------------------------------------------------------

\* The inductive invariant behind honest coverage.
HonestInv ==
  TypeOK /\ BindingsLive /\ GapsRemembered /\ PendingUnclaimed /\ HonestCoverage

\* The inductive invariant holds of the empty ledger.
LEMMA InitHonestInv == Init => HonestInv
<1> SUFFICES ASSUME Init PROVE HonestInv
  OBVIOUS
<1>1. Bound = {} /\ Active = {}
  BY DEF Init, Bound, Active
<1>2. BindingsLive /\ PendingUnclaimed /\ HonestCoverage
  BY <1>1 DEF BindingsLive, PendingUnclaimed, HonestCoverage
<1>3. GapsRemembered
  BY DEF Init, GapsRemembered
<1> QED
  BY <1>2, <1>3, InitTypeOK DEF HonestInv

\* The inductive invariant: what the ledger must keep for coverage to stay honest.
THEOREM HonestInvariant == Spec => []HonestInv
<1>1. HonestInv /\ [Next]_vars => HonestInv'
  BY NextTypeOK, BindingsLiveStep, GapsRememberedStep, PendingUnclaimedStep,
     HonestCoverageStep
  DEF HonestInv
<1> QED
  BY <1>1, InitHonestInv, PTL DEF Spec

\* Honest coverage: whatever is lost and whenever it is bound, the dispatch that
\* owns a stream with a dropped projection never claims exact coverage.
THEOREM CoverageIsHonest == Spec => []HonestCoverage
  BY HonestInvariant, PTL DEF HonestInv

\* No projection is stranded in the pending table beside a binding of its stream.
THEOREM NothingStranded == Spec => []PendingUnclaimed
  BY HonestInvariant, PTL DEF HonestInv

\* A binding is active exactly while a connected source of the current generation
\* feeds it.
THEOREM BindingsFollowSources == Spec => []BindingsLive
  BY HonestInvariant, PTL DEF HonestInv

\* A loss leaves a known gap that no later dispatch or binding forgets.
THEOREM GapsAreRemembered == Spec => []GapsRemembered
  BY HonestInvariant, PTL DEF HonestInv

----------------------------------------------------------------------------
(* What follows from that invariant: exact coverage has a live source, blocked *)
(* admission is visible, and a pending projection is never lost silently.      *)

\* A terminal lifecycle state is final.
LEMMA TerminalIsFinal ==
  ASSUME NEW d \in Dispatches, NEW state, Allowed(lifecycle[d], state),
         lifecycle[d] \in TerminalStates
  PROVE  state = lifecycle[d]
  BY DEF Allowed, TerminalStates

\* Every step leaves exact coverage of work in progress a live source.
LEMMA LiveSourceStep ==
  ASSUME TypeOK, BindingsLive, GapsRemembered, ExactCoverageHasLiveSource, [Next]_vars
  PROVE  ExactCoverageHasLiveSource'
PROOF
<1> DEFINE Feeds(b, d) == /\ bindings[b].dispatch = d
                          /\ bindings[b].source[1] = generation
                          /\ Connected(bindings[b].source)
                          /\ schema[bindings[b].source] = "compatible"
<1>a. \A b \in Bound : bindings[b] \in BindingRow
  BY DEF TypeOK, Bound
<1>1. ASSUME NEW d \in Dispatches, d \in Nonterminal', coverage'[d] = OBSERVED,
             d \in Nonterminal, coverage[d] = OBSERVED,
             UNCHANGED <<bindings, conn, generation, schema>>
      PROVE  \E b \in Active' : Feeds(b, d)'
  BY <1>1 DEF ExactCoverageHasLiveSource, Active, Bound, Connected
<1>2. ASSUME UNCHANGED <<bindings, conn, generation, schema, lifecycle>>,
             NEW S \in SUBSET Known, NEW level \in {KNOWN_GAP, CONFLICT},
             coverage' = Raised(coverage, S, level)
      PROVE  ExactCoverageHasLiveSource'
  <2>1. Nonterminal' = Nonterminal /\ Known' = Known
    BY <1>2 DEF Nonterminal, Known
  <2>2. \A d \in Dispatches : coverage'[d] = OBSERVED => coverage[d] = OBSERVED
    BY <1>2, RaisedFacts DEF TypeOK
  <2>3. \A d \in Nonterminal : d \in Dispatches
    BY DEF Nonterminal, Known
  <2> QED BY <1>1, <1>2, <2>1, <2>2, <2>3 DEF ExactCoverageHasLiveSource
<1>3. CASE Quiet
  <2>1. Nonterminal' = Nonterminal /\ coverage' = coverage
    BY <1>3 DEF Quiet, Nonterminal, Known
  <2> QED
    BY <1>3, <2>1 DEF Quiet, ExactCoverageHasLiveSource, Active, Bound, Connected
<1>4. ASSUME NEW S \in SUBSET Known, GapStep(S)
      PROVE  ExactCoverageHasLiveSource'
  BY <1>2, <1>4 DEF GapStep
\* Ending bindings whose dispatches are raised leaves the others their sources.
<1>5. ASSUME NEW B \in SUBSET Active, NEW state \in {"closed", "revoked"},
             EndBindings(B, state), NEW S, coverage' = Raised(coverage, S, KNOWN_GAP),
             DispatchesOf(B) \cap Nonterminal \subseteq S, schema' = schema,
             lifecycle' = lifecycle, generation' = generation \/ B = Active,
             \A src \in Sources : conn'[src] = conn[src]
                \/ \A b \in Active : bindings[b].source = src => b \in B
      PROVE  ExactCoverageHasLiveSource'
  <2>1. /\ Active' = Active \ B /\ Bound' = Bound
        /\ \A b \in Bound : /\ bindings'[b].source = bindings[b].source
                            /\ bindings'[b].dispatch = bindings[b].dispatch
    BY <1>5, EndBindingsFacts
  <2>2. Nonterminal' = Nonterminal
    BY <1>5 DEF Nonterminal, Known
  <2> SUFFICES ASSUME NEW d \in Nonterminal, coverage'[d] = OBSERVED
               PROVE  \E b \in Active' : Feeds(b, d)'
    BY <2>2 DEF ExactCoverageHasLiveSource
  <2>3. d \in Dispatches
    BY DEF Nonterminal, Known
  <2>4. coverage[d] = OBSERVED /\ d \notin S
    BY <1>5, <2>3, RaisedFacts DEF TypeOK
  <2>5. PICK b \in Active : Feeds(b, d)
    BY <2>4 DEF ExactCoverageHasLiveSource
  <2>6. b \notin B
    BY <1>5, <2>4, <2>5 DEF DispatchesOf
  <2>7. b \in Bound /\ bindings[b].source \in Sources
    BY <1>a DEF Active, BindingRow
  <2>8. conn'[bindings[b].source] = conn[bindings[b].source]
    BY <1>5, <2>6, <2>7
  <2>9. Feeds(b, d)'
    BY <1>5, <2>1, <2>5, <2>6, <2>7, <2>8 DEF Connected
  <2> QED BY <2>1, <2>6, <2>9
<1>6. ASSUME NEW g \in Generations, NEW state \in {"enabled", "revoked"},
             RegisterProject(g, state)
      PROVE  ExactCoverageHasLiveSource'
  <2>1. schema' = schema /\ lifecycle' = lifecycle
    BY <1>6 DEF RegisterProject
  <2>2. CASE regState = "absent"
    <3>1. UNCHANGED <<bindings, conn, coverage>>
      BY <1>6, <2>2 DEF RegisterProject
    <3>2. generation = 0
      BY <2>2 DEF TypeOK
    <3>3. \A b \in Active : bindings[b].source[1] # 0
      BY <1>a DEF Active, BindingRow, Sources, Generations
    <3>4. \A d \in Nonterminal : coverage[d] # OBSERVED
      BY <3>2, <3>3 DEF ExactCoverageHasLiveSource
    <3>5. Nonterminal' = Nonterminal
      BY <2>1 DEF Nonterminal, Known
    <3> QED BY <3>1, <3>4, <3>5 DEF ExactCoverageHasLiveSource
  <2>3. CASE regState # "absent"
    <3> DEFINE ended == {b \in Active : bindings[b].source[1] = generation}
    <3>1. /\ EndBindings(ended, "revoked")
          /\ coverage' = Raised(coverage, DispatchesOf(ended), KNOWN_GAP)
      BY <1>6, <2>3 DEF RegisterProject, Retire
    <3>2. ended = Active
      BY DEF BindingsLive, Active
    <3> HIDE DEF ended
    <3> QED BY <1>5, <2>1, <3>1, <3>2
  <2> QED BY <2>2, <2>3
<1>7. CASE OpenWriter
  <2> DEFINE left == {src \in Sources : Connected(src)}
             ended == {b \in Active : bindings[b].source \in left}
             targets == IF left = {} THEN {} ELSE DisconnectTargets(ended, FALSE)
  <2>1. /\ EndBindings(ended, "closed")
        /\ coverage' = Raised(coverage, targets, KNOWN_GAP)
        /\ conn' = [src \in Sources |->
                      IF src \in left THEN "disconnected" ELSE conn[src]]
        /\ UNCHANGED <<generation, lifecycle, schema>>
    BY <1>7 DEF OpenWriter
  <2>2. DispatchesOf(ended) \cap Nonterminal \subseteq targets
    BY DEF DisconnectTargets, DispatchesOf
  <2>3. \A src \in Sources : conn'[src] = conn[src]
           \/ \A b \in Active : bindings[b].source = src => b \in ended
    BY <2>1
  <2>4. ended \in SUBSET Active
    OBVIOUS
  <2> HIDE DEF left, ended, targets
  <2> QED BY <1>5, <2>1, <2>2, <2>3, <2>4
<1>8. ASSUME NEW src \in Sources, NEW expected \in BOOLEAN,
             MarkSourceDisconnected(src, expected)
      PROVE  ExactCoverageHasLiveSource'
  <2> DEFINE ended == {b \in Active : bindings[b].source = src}
             targets == DisconnectTargets(ended, expected)
  <2>1. /\ EndBindings(ended, "closed")
        /\ coverage' = Raised(coverage, targets, KNOWN_GAP)
        /\ conn' = [conn EXCEPT ![src] = "disconnected"]
        /\ UNCHANGED <<generation, lifecycle, schema>>
    BY <1>8 DEF MarkSourceDisconnected, registryVars
  <2>2. DispatchesOf(ended) \cap Nonterminal \subseteq targets
    BY DEF DisconnectTargets
  <2>3. \A o \in Sources : conn'[o] = conn[o]
           \/ \A b \in Active : bindings[b].source = o => b \in ended
    BY <2>1 DEF TypeOK
  <2>4. ended \in SUBSET Active
    OBVIOUS
  <2> HIDE DEF ended, targets
  <2> QED BY <1>5, <2>1, <2>2, <2>3, <2>4
<1>9. CASE PersistCapacityBlocked
  BY <1>2, <1>9 DEF PersistCapacityBlocked, sourceVars
<1>10. ASSUME NEW c \in Conns, RegisterConnection(c)
       PROVE  ExactCoverageHasLiveSource'
  <2> DEFINE src == <<generation, c>>
  <2>1. /\ conn[src] = "absent" /\ conn' = [conn EXCEPT ![src] = "connected"]
        /\ UNCHANGED <<generation, lifecycle, bindings, coverage, schema>>
    BY <1>10 DEF RegisterConnection, registryVars
  <2>2. \A b \in Active : /\ bindings[b].source \in Sources
                          /\ bindings[b].source # src
    BY <1>a, <2>1 DEF BindingsLive, Active, BindingRow, Connected
  <2>3. \A b \in Active : conn'[bindings[b].source] = conn[bindings[b].source]
    <3> HIDE DEF src
    <3> QED BY <2>1, <2>2 DEF TypeOK
  <2>4. Nonterminal' = Nonterminal /\ Active' = Active
    BY <2>1 DEF Nonterminal, Known, Active, Bound
  <2> QED BY <2>1, <2>3, <2>4 DEF ExactCoverageHasLiveSource, Connected
<1>11. ASSUME NEW c \in Conns, MarkSourceIncompatible(c)
       PROVE  ExactCoverageHasLiveSource'
  <2>1. coverage' = Raised(coverage, Known, KNOWN_GAP) /\ lifecycle' = lifecycle
    BY <1>11 DEF MarkSourceIncompatible
  <2>2. \A d \in Known : coverage'[d] # OBSERVED
    BY <2>1, RaisedFacts DEF TypeOK, Known
  <2>3. Nonterminal' \subseteq Known
    BY <2>1 DEF Nonterminal, Known
  <2> QED BY <2>2, <2>3 DEF ExactCoverageHasLiveSource
<1>12. ASSUME NEW src \in Sources, NEW overdue \in SUBSET pending,
              NEW p \in Projections, IngestPending(p, src, overdue)
       PROVE  ExactCoverageHasLiveSource'
  <2> DEFINE left == pending \ overdue
             known == \E r \in left : r.event.kind = p.kind /\ r.event.event = p.event
             overflow == ~known /\ Cardinality(left) >= MaxPending
             gapped == ExpiryTargets(overdue) \cup (IF overflow THEN Nonterminal ELSE {})
  <2>1. gapped \in SUBSET Known
    BY DEF ExpiryTargets, Nonterminal
  <2>2. /\ coverage' = Raised(coverage, gapped, KNOWN_GAP)
        /\ UNCHANGED <<bindings, conn, generation, schema, lifecycle>>
    BY <1>12 DEF IngestPending, registryVars, sourceVars
  <2> HIDE DEF gapped
  <2> QED BY <1>2, <2>1, <2>2
<1>13. ASSUME NEW src \in Sources, NEW overdue \in SUBSET pending,
              NEW p \in Projections, NEW b \in BindingIds,
              IngestBound(p, src, b, overdue)
       PROVE  ExactCoverageHasLiveSource'
  <2>1. UNCHANGED <<bindings, conn, generation, schema, lifecycle>>
    BY <1>13 DEF IngestBound, registryVars, sourceVars
  <2>2. \A d \in Dispatches : coverage'[d] = OBSERVED => coverage[d] = OBSERVED
    <3>1. ~\E o \in BindingIds, c \in Conns, e \in Dispatches, s \in Streams :
             BindRuntime(o, c, e, s)
      <4> SUFFICES ASSUME NEW o \in BindingIds, NEW c \in Conns, NEW e \in Dispatches,
                          NEW s \in Streams, BindRuntime(o, c, e, s)
                   PROVE  FALSE
        OBVIOUS
      <4>1. o \notin Bound /\ o \in Bound'
        BY BindFacts
      <4> QED BY <2>1, <4>1 DEF Bound
    <3> QED BY <3>1, ExactByBindingOnly
  <2>3. Nonterminal' = Nonterminal
    BY <2>1 DEF Nonterminal, Known
  <2>4. \A d \in Nonterminal : d \in Dispatches
    BY DEF Nonterminal, Known
  <2> QED BY <1>1, <2>1, <2>2, <2>3, <2>4 DEF ExactCoverageHasLiveSource
<1>14. ASSUME NEW e \in Dispatches, RecordSubmission(e)
       PROVE  ExactCoverageHasLiveSource'
  <2>1. /\ e \notin Known /\ lifecycle' = [lifecycle EXCEPT ![e] = "submitted"]
        /\ UNCHANGED <<bindings, conn, generation, schema, coverage>>
    BY <1>14 DEF RecordSubmission, registryVars, sourceVars
  <2>2. coverage[e] # OBSERVED
    BY <2>1 DEF GapsRemembered, UNKNOWN, OBSERVED
  <2>3. \A d \in Nonterminal' : d \in Dispatches /\ (d = e \/ d \in Nonterminal)
    BY <2>1 DEF Nonterminal, Known, TypeOK
  <2> QED BY <1>1, <2>1, <2>2, <2>3 DEF ExactCoverageHasLiveSource
<1>15. ASSUME NEW e \in Dispatches, NEW clockGap \in BOOLEAN, NEW state \in Reported,
              RecordLifecycle(e, state, clockGap)
       PROVE  ExactCoverageHasLiveSource'
  <2>1. /\ e \in Known /\ Allowed(lifecycle[e], state)
        /\ lifecycle' = [lifecycle EXCEPT ![e] = state]
        /\ coverage' = Raised(coverage, IF clockGap THEN {e} ELSE {}, KNOWN_GAP)
        /\ UNCHANGED <<bindings, conn, generation, schema>>
    BY <1>15 DEF RecordLifecycle, registryVars, sourceVars
  <2>2. \A d \in Dispatches : coverage'[d] = OBSERVED => coverage[d] = OBSERVED
    BY <2>1, RaisedFacts DEF TypeOK
  <2>3. \A d \in Nonterminal' : d \in Dispatches /\ d \in Nonterminal
    BY <2>1, TerminalIsFinal DEF Nonterminal, Known, TypeOK
  <2> QED BY <1>1, <2>1, <2>2, <2>3 DEF ExactCoverageHasLiveSource
<1>16. ASSUME NEW b \in BindingIds, NEW c \in Conns, NEW e \in Dispatches,
              NEW s \in Streams, BindRuntime(b, c, e, s)
       PROVE  ExactCoverageHasLiveSource'
  <2> DEFINE src == <<generation, c>>
             compatible == schema[src] = "compatible"
             promoted == Raised(coverage, IF compatible THEN {e} ELSE {}, FirstCoverage)
             S == IF {r \in Matched(src, s) : Conflicts(r, e)} # {} THEN {e} ELSE {}
  <2>1. /\ src \in Sources
        /\ Bound' = Bound \cup {b} /\ Active' = Active \cup {b} /\ b \notin Bound
        /\ bindings'[b] = [source |-> src, stream |-> s, dispatch |-> e,
                           state |-> "active"]
        /\ \A o \in Bound : bindings'[o] = bindings[o]
    BY <1>16, BindFacts
  <2>2. /\ coverage' = Raised(promoted, S, CONFLICT)
        /\ Connected(src)
        /\ UNCHANGED <<conn, schema, generation, lifecycle>>
    BY <1>16 DEF BindRuntime, registryVars, sourceVars
  <2>3. promoted \in [Dispatches -> UNKNOWN .. CONFLICT]
    BY RaisedType, LevelFacts DEF TypeOK, FirstCoverage
  <2>4. Nonterminal' = Nonterminal
    BY <2>2 DEF Nonterminal, Known
  <2> SUFFICES ASSUME NEW d \in Nonterminal, coverage'[d] = OBSERVED
               PROVE  \E o \in Active' : Feeds(o, d)'
    BY <2>4 DEF ExactCoverageHasLiveSource
  <2>5. d \in Dispatches
    BY DEF Nonterminal, Known
  <2>6. promoted[d] = OBSERVED
    <3> HIDE DEF promoted, S
    <3> QED BY <2>2, <2>3, <2>5, RaisedFacts
  <2>7. CASE coverage[d] = OBSERVED
    <3>1. PICK o \in Active : Feeds(o, d)
      BY <2>7 DEF ExactCoverageHasLiveSource
    <3>2. o \in Bound
      BY DEF Active
    <3>3. Feeds(o, d)'
      BY <2>1, <2>2, <3>1, <3>2 DEF Connected
    <3> QED BY <2>1, <3>3
  <2>8. CASE coverage[d] # OBSERVED
    <3>1. d = e /\ compatible
      BY <2>5, <2>6, <2>8 DEF Raised
    <3>2. Feeds(b, d)'
      BY <2>1, <2>2, <3>1 DEF Connected
    <3> QED BY <2>1, <3>2
  <2> QED BY <2>7, <2>8
<1> QED
  BY StepCases, <1>3, <1>4, <1>6, <1>7, <1>8, <1>9, <1>10, <1>11, <1>12, <1>13, <1>14,
     <1>15, <1>16

\* While admission is blocked no dispatch is submitted and no level changes.
LEMMA BlockedVisibleStep ==
  ASSUME TypeOK, BlockedIsVisible, [Next]_vars
  PROVE  BlockedIsVisible'
PROOF
<1>1. CASE PersistCapacityBlocked
  <2>1. coverage' = Raised(coverage, Known, KNOWN_GAP) /\ Known' = Known
    BY <1>1 DEF PersistCapacityBlocked, Known
  <2> QED
    BY <2>1, RaisedFacts DEF BlockedIsVisible, TypeOK, Known
<1>2. ASSUME blocked' = blocked, ~blocked
      PROVE  BlockedIsVisible'
  BY <1>2 DEF BlockedIsVisible
<1>3. ASSUME blocked' = blocked, UNCHANGED <<coverage, lifecycle>>
      PROVE  BlockedIsVisible'
  BY <1>3 DEF BlockedIsVisible, Known
<1>4. CASE Quiet
  BY <1>3, <1>4 DEF Quiet
<1>5. CASE \E S \in SUBSET Known : GapStep(S)
  BY <1>2, <1>5 DEF GapStep
<1>6. CASE \E g \in Generations, state \in {"enabled", "revoked"} :
             RegisterProject(g, state)
  BY <1>2, <1>6 DEF RegisterProject, Transaction
<1>7. CASE OpenWriter
  BY <1>2, <1>7 DEF OpenWriter
<1>8. CASE \E c \in Conns : RegisterConnection(c) \/ MarkSourceIncompatible(c)
  BY <1>2, <1>8 DEF RegisterConnection, MarkSourceIncompatible, Transaction, registryVars
<1>9. CASE \E src \in Sources, expected \in BOOLEAN : MarkSourceDisconnected(src, expected)
  BY <1>2, <1>9 DEF MarkSourceDisconnected, Transaction, registryVars
<1>10. CASE \E src \in Sources, overdue \in SUBSET pending, p \in Projections :
              IngestPending(p, src, overdue)
  BY <1>2, <1>10 DEF IngestPending, Ingesting, Transaction, registryVars
<1>11. CASE \E src \in Sources, overdue \in SUBSET pending, p \in Projections,
               b \in BindingIds : IngestBound(p, src, b, overdue)
  BY <1>2, <1>11 DEF IngestBound, Ingesting, Transaction, registryVars
<1>12. CASE \E d \in Dispatches : RecordSubmission(d)
  BY <1>2, <1>12 DEF RecordSubmission, Transaction, registryVars
<1>13. CASE \E d \in Dispatches, clockGap \in BOOLEAN, state \in Reported :
              RecordLifecycle(d, state, clockGap)
  BY <1>2, <1>13 DEF RecordLifecycle, Transaction, registryVars
<1>14. CASE \E b \in BindingIds, c \in Conns, d \in Dispatches, s \in Streams :
              BindRuntime(b, c, d, s)
  BY <1>2, <1>14 DEF BindRuntime, Transaction, registryVars
<1> QED
  BY StepCases, <1>1, <1>4, <1>5, <1>6, <1>7, <1>8, <1>9, <1>10, <1>11, <1>12, <1>13,
     <1>14

\* A step reports the pending projections it drops, if expiry or capacity drops
\* them: whatever was in progress is raised to a gap.
LEMMA LossRaises ==
  ASSUME TypeOK, knownGap' = TRUE, NEW S, Nonterminal \subseteq S,
         coverage' = Raised(coverage, S, KNOWN_GAP)
  PROVE  knownGap' /\ \A d \in Nonterminal : coverage'[d] # OBSERVED
  BY RaisedFacts DEF TypeOK, Nonterminal, Known

\* Every step of a ledger whose invariants hold reports what it loses.
LEMMA LossReportedStep ==
  ASSUME HonestInv, [Next]_vars, NEW r \in pending \ pending'
  PROVE  \/ \E q \in dedup' : q.kind = r.event.kind /\ q.event = r.event.event
         \/ knownGap' /\ \A d \in Nonterminal : coverage'[d] # OBSERVED
PROOF
<1> USE DEF HonestInv
<1>1. ASSUME NEW S \in SUBSET Known, GapStep(S)
      PROVE  knownGap' /\ \A d \in Nonterminal : coverage'[d] # OBSERVED
  <2>1. Nonterminal \subseteq S /\ knownGap' = TRUE
        /\ coverage' = Raised(coverage, S, KNOWN_GAP)
    BY <1>1 DEF GapStep
  <2> QED BY <2>1, LossRaises
<1>2. ASSUME NEW src \in Sources, NEW overdue \in SUBSET pending,
             NEW p \in Projections, IngestPending(p, src, overdue)
      PROVE  knownGap' /\ \A d \in Nonterminal : coverage'[d] # OBSERVED
  <2> DEFINE left == pending \ overdue
             known == \E t \in left : t.event.kind = p.kind /\ t.event.event = p.event
             overflow == ~known /\ Cardinality(left) >= MaxPending
             gapped == ExpiryTargets(overdue) \cup (IF overflow THEN Nonterminal ELSE {})
  <2>1. /\ pending' = IF known \/ overflow THEN left
                      ELSE left \cup {[source |-> src, event |-> p]}
        /\ knownGap' = (knownGap \/ overdue # {} \/ overflow)
        /\ coverage' = Raised(coverage, gapped, KNOWN_GAP)
    BY <1>2 DEF IngestPending
  <2>2. overdue # {}
    BY <2>1
  <2>3. Nonterminal \subseteq gapped /\ knownGap' = TRUE
    BY <2>1, <2>2 DEF ExpiryTargets, TypeOK
  <2> HIDE DEF gapped
  <2> QED BY <2>1, <2>3, LossRaises
<1>3. ASSUME NEW src \in Sources, NEW overdue \in SUBSET pending,
             NEW p \in Projections, NEW b \in BindingIds,
             IngestBound(p, src, b, overdue)
      PROVE  knownGap' /\ \A d \in Nonterminal : coverage'[d] # OBSERVED
  <2> DEFINE d == bindings[b].dispatch
             inner == Raised(coverage, ExpiryTargets(overdue), KNOWN_GAP)
             conflict == IF Conflicts([source |-> src, event |-> p], d) THEN {d} ELSE {}
  <2>1. /\ pending' = pending \ overdue
        /\ knownGap' = (knownGap \/ overdue # {})
        /\ coverage' = Raised(inner, conflict, CONFLICT)
    BY <1>3 DEF IngestBound
  <2>2. overdue # {}
    BY <2>1
  <2>3. knownGap' = TRUE /\ ExpiryTargets(overdue) = Nonterminal
    BY <2>1, <2>2 DEF ExpiryTargets, TypeOK
  <2>4. \A e \in Nonterminal : e \in Dispatches
    BY DEF Nonterminal, Known
  <2>5. inner \in [Dispatches -> UNKNOWN .. CONFLICT]
    BY RaisedType, LevelFacts DEF TypeOK
  <2>6. \A e \in Nonterminal : inner[e] # OBSERVED
    BY <2>3, <2>4, RaisedFacts DEF TypeOK
  <2> HIDE DEF inner, conflict
  <2> QED BY <2>1, <2>3, <2>4, <2>5, <2>6, RaisedFacts
<1>4. ASSUME NEW b \in BindingIds, NEW c \in Conns, NEW e \in Dispatches,
             NEW s \in Streams, BindRuntime(b, c, e, s)
      PROVE  \/ \E q \in dedup' : q.kind = r.event.kind /\ q.event = r.event.event
             \/ knownGap' /\ \A d \in Nonterminal : coverage'[d] # OBSERVED
  <2> DEFINE src == <<generation, c>>
             compatible == schema[src] = "compatible"
             matched == Matched(src, s)
             fresh == {t \in matched : Prior(t.event) = {}}
             promoted == Raised(coverage, IF compatible THEN {e} ELSE {}, FirstCoverage)
             S == IF {t \in matched : Conflicts(t, e)} # {} THEN {e} ELSE {}
             A == IF compatible THEN fresh ELSE {}
  <2>1. /\ src \in Sources
        /\ pending' = pending \ matched
        /\ Accept(A, e)
        /\ coverage' = Raised(promoted, S, CONFLICT)
        /\ knownGap' = knownGap
    BY <1>4, BindFacts DEF BindRuntime
  <2>2. r \in matched
    BY <2>1
  <2>3. dedup' = dedup \cup {[kind |-> t.event.kind, event |-> t.event.event,
                             dispatch |-> e, payload |-> t] : t \in A}
    BY <2>1 DEF Accept
  <2>4. CASE Prior(r.event) # {}
    BY <2>3, <2>4 DEF Prior
  <2>5. CASE Prior(r.event) = {} /\ compatible
    <3>1. r \in A
      BY <2>2, <2>5
    <3> DEFINE q == [kind |-> r.event.kind, event |-> r.event.event, dispatch |-> e,
                     payload |-> r]
    <3> HIDE DEF A
    <3>2. q \in dedup'
      BY <2>3, <3>1
    <3>3. q.kind = r.event.kind /\ q.event = r.event.event
      OBVIOUS
    <3> HIDE DEF q
    <3> QED BY <3>2, <3>3
  <2>6. CASE ~compatible
    <3>1. knownGap /\ \A d \in Dispatches : coverage[d] # OBSERVED
      BY <2>1, <2>6 DEF GapsRemembered, TypeOK
    <3>2. \A d \in Dispatches : promoted[d] = coverage[d]
      BY <2>6 DEF Raised
    <3>3. promoted \in [Dispatches -> UNKNOWN .. CONFLICT]
      BY RaisedType, LevelFacts DEF TypeOK, FirstCoverage
    <3> HIDE DEF promoted, S
    <3>4. \A d \in Dispatches : coverage'[d] # OBSERVED
      BY <2>1, <3>1, <3>2, <3>3, RaisedFacts
    <3> QED BY <2>1, <3>1, <3>4 DEF Nonterminal, Known
  <2> QED BY <2>4, <2>5, <2>6
<1>5. ASSUME NEW g \in Generations, NEW state \in {"enabled", "revoked"}
      PROVE  ~RegisterProject(g, state)
  BY <1>5 DEF RegisterProject
<1>6. ~Quiet /\ ~OpenWriter /\ ~PersistCapacityBlocked
  BY DEF Quiet, OpenWriter, PersistCapacityBlocked
<1>7. ~\E c \in Conns : RegisterConnection(c) \/ MarkSourceIncompatible(c)
  BY DEF RegisterConnection, MarkSourceIncompatible
<1>8. ~\E src \in Sources, expected \in BOOLEAN : MarkSourceDisconnected(src, expected)
  BY DEF MarkSourceDisconnected
<1>9. ~\E d \in Dispatches : RecordSubmission(d)
  BY DEF RecordSubmission
<1>10. ~\E d \in Dispatches, clockGap \in BOOLEAN, state \in Reported :
          RecordLifecycle(d, state, clockGap)
  BY DEF RecordLifecycle
<1> QED
  BY StepCases, <1>1, <1>2, <1>3, <1>4, <1>5, <1>6, <1>7, <1>8, <1>9, <1>10

\* Exact coverage is fed: no dispatch in progress keeps claiming it once the last
\* source that could feed it is gone.
THEOREM ExactCoverageIsFed == Spec => []ExactCoverageHasLiveSource
<1>1. Init => ExactCoverageHasLiveSource
  BY DEF Init, ExactCoverageHasLiveSource, Nonterminal, Known
<1>2. HonestInv /\ ExactCoverageHasLiveSource /\ [Next]_vars
        => ExactCoverageHasLiveSource'
  BY LiveSourceStep DEF HonestInv
<1> QED BY <1>1, <1>2, HonestInvariant, PTL DEF Spec

\* Once admission is blocked, every dispatch shows a gap, and none is admitted
\* that would not.
THEOREM BlockedCapacityIsVisible == Spec => []BlockedIsVisible
<1>1. Init => BlockedIsVisible
  BY DEF Init, BlockedIsVisible
<1> QED BY <1>1, BlockedVisibleStep, TypeCorrect, PTL DEF Spec

\* A pending projection leaves the table counted or reported, in every step.
THEOREM LossesAreReported == Spec => LossIsReported
<1>1. HonestInv /\ [Next]_vars =>
        [\A r \in pending \ pending' :
           \/ \E q \in dedup' : q.kind = r.event.kind /\ q.event = r.event.event
           \/ /\ knownGap'
              /\ \A d \in Nonterminal : coverage'[d] # OBSERVED]_vars
  BY LossReportedStep
<1> QED BY <1>1, HonestInvariant, PTL DEF Spec, LossIsReported

----------------------------------------------------------------------------
(* Publication: an export that can still be staged or confirmed is current.   *)

\* Outside the dispatches in S, the step changes nothing that is exported.
ExportFrame(S) ==
  \A d \in Dispatches \ S :
    /\ lifecycle'[d] = lifecycle[d] /\ coverage'[d] = coverage[d]
    /\ activity'[d] = activity[d] /\ available'[d] = available[d]
    /\ {c \in completions' : c.dispatch = d} = {c \in completions : c.dispatch = d}
    /\ {b \in Bound' : bindings'[b].dispatch = d} = {b \in Bound : bindings[b].dispatch = d}

\* A step that bumps every dispatch whose exported fields it changes.
LEMMA PublishedFrame ==
  ASSUME TypeOK, PublishedIsCurrent, NEW S, Bump(S), ExportFrame(S)
  PROVE  PublishedIsCurrent'
PROOF
<1> SUFFICES ASSUME NEW d \in Dispatches, publication'[d] # NoManifest
             PROVE  publication'[d].view = View(d)' /\ d \in Known' \ Nonterminal'
  BY DEF PublishedIsCurrent
<1>1. d \notin S /\ publication'[d] = publication[d]
  BY DEF Bump
<1>2. publication[d].view = View(d) /\ d \in Known \ Nonterminal
  BY <1>1 DEF PublishedIsCurrent
<1>3. View(d)' = View(d)
  BY <1>1 DEF ExportFrame, View
<1> QED BY <1>1, <1>2, <1>3 DEF ExportFrame, Known, Nonterminal

\* Raising levels and ending bindings.
LEMMA GapPublished ==
  ASSUME TypeOK, PublishedIsCurrent, NEW S, NEW level \in {KNOWN_GAP, CONFLICT},
         coverage' = Raised(coverage, S, level), Bump(S),
         UNCHANGED <<lifecycle, eventVars>>,
         \/ bindings' = bindings
         \/ \E B \in SUBSET Active, s \in {"closed", "revoked"} : EndBindings(B, s)
  PROVE  PublishedIsCurrent'
PROOF
<1>1. \A d \in Dispatches \ S : coverage'[d] = coverage[d]
  BY RaisedFacts DEF TypeOK
<1>2. Bound' = Bound /\ \A b \in Bound : bindings'[b].dispatch = bindings[b].dispatch
  BY EndBindingsFacts DEF Bound
<1>3. ExportFrame(S)
  BY <1>1, <1>2 DEF ExportFrame, eventVars
<1> QED BY <1>3, PublishedFrame

\* What accepting projections for a dispatch does not touch: the other dispatches.
LEMMA AcceptFrame ==
  ASSUME TypeOK, NEW A, NEW e \in Dispatches, Accept(A, e)
  PROVE  \A d \in Dispatches \ {e} :
           /\ activity'[d] = activity[d]
           /\ {c \in completions' : c.dispatch = d} = {c \in completions : c.dispatch = d}
PROOF
<1> SUFFICES ASSUME NEW d \in Dispatches \ {e}
             PROVE  /\ activity'[d] = activity[d]
                    /\ {c \in completions' : c.dispatch = d} =
                         {c \in completions : c.dispatch = d}
  OBVIOUS
<1>1. activity'[d] = activity[d]
  BY DEF Accept, TypeOK
<1> DEFINE rows == {[stream |-> r.event.stream, event |-> r.event.event,
                     dispatch |-> e, body |-> r.event.body] :
                      r \in {t \in A : t.event.kind = "completion"}}
<1>2. completions' = completions \cup rows
  BY DEF Accept
<1>3. \A c \in rows : c.dispatch = e
  OBVIOUS
<1> HIDE DEF rows
<1> QED BY <1>1, <1>2, <1>3

\* Accepting nothing changes nothing.
LEMMA AcceptNothing ==
  ASSUME TypeOK, NEW e \in Dispatches, Accept({}, e)
  PROVE  UNCHANGED <<dedup, completions, activity>>
PROOF
<1>1. dedup' = dedup /\ completions' = completions
  BY DEF Accept
<1>2. Cardinality({} \ {r \in {} : r.event.kind = "completion"}) = 0
  BY FS_EmptySet
<1>3. activity' = [activity EXCEPT ![e] = @ + 0]
  BY <1>2 DEF Accept
<1> QED BY <1>1, <1>3 DEF TypeOK

\* Every step keeps the exports current.
LEMMA PublishedStep ==
  ASSUME TypeOK, PublishedIsCurrent, [Next]_vars
  PROVE  PublishedIsCurrent'
PROOF
<1>1. CASE Quiet
  <2>1. UNCHANGED <<bindings, lifecycle, coverage, eventVars>>
    BY <1>1 DEF Quiet
  <2>2. \A d \in Dispatches : View(d)' = View(d)
    BY <2>1 DEF View, Bound, eventVars
  <2>3. Known' = Known /\ Nonterminal' = Nonterminal
    BY <2>1 DEF Known, Nonterminal
  <2>4. CASE publication' = publication
    BY <2>2, <2>3, <2>4 DEF PublishedIsCurrent
  <2>5. ASSUME NEW d \in Dispatches, RenderManifest(d)
        PROVE  PublishedIsCurrent'
    <3>1. /\ d \in Known \ Nonterminal
          /\ publication' = [publication EXCEPT ![d] = [view |-> View(d), step |-> "read"]]
      BY <2>5 DEF RenderManifest
    <3>2. publication'[d].view = View(d)
      BY <3>1 DEF TypeOK
    <3>3. \A e \in Dispatches \ {d} : publication'[e] = publication[e]
      BY <3>1 DEF TypeOK
    <3> QED BY <2>2, <2>3, <3>1, <3>2, <3>3 DEF PublishedIsCurrent
  <2>6. ASSUME NEW d \in Dispatches, NEW step \in {"staged", "confirmed"},
               publication[d] # NoManifest,
               publication' = [publication EXCEPT ![d].step = step]
        PROVE  PublishedIsCurrent'
    <3>1. publication[d] \in ExportRow
      BY <2>6 DEF TypeOK
    <3>2. publication'[d] = [publication[d] EXCEPT !.step = step]
      BY <2>6 DEF TypeOK
    <3>3. publication'[d].view = publication[d].view
      BY <3>1, <3>2 DEF ExportRow
    <3>4. \A e \in Dispatches \ {d} : publication'[e] = publication[e]
      BY <2>6 DEF TypeOK
    <3> QED BY <2>2, <2>3, <2>6, <3>3, <3>4 DEF PublishedIsCurrent
  <2>7. CASE Publisher
    <3>1. PICK d \in Dispatches :
            RenderManifest(d) \/ StagePublicationManifest(d) \/ ConfirmPublication(d)
      BY <2>7 DEF Publisher
    <3>2. CASE StagePublicationManifest(d)
      BY <2>6, <3>2 DEF StagePublicationManifest
    <3>3. CASE ConfirmPublication(d)
      BY <2>6, <3>3 DEF ConfirmPublication
    <3> QED BY <2>5, <3>1, <3>2, <3>3
  <2> QED BY <1>1, <2>4, <2>7 DEF Quiet
<1>2. ASSUME NEW S \in SUBSET Known, GapStep(S)
      PROVE  PublishedIsCurrent'
  BY <1>2, GapPublished DEF GapStep
<1>3. ASSUME NEW g \in Generations, NEW state \in {"enabled", "revoked"},
             RegisterProject(g, state)
      PROVE  PublishedIsCurrent'
  <2>1. lifecycle' = lifecycle /\ eventVars' = eventVars
    BY <1>3 DEF RegisterProject
  <2>2. CASE regState = "absent"
    <3>1. UNCHANGED <<bindings, coverage, publication>>
      BY <1>3, <2>2 DEF RegisterProject
    <3>2. \A d \in Dispatches : View(d)' = View(d)
      BY <2>1, <3>1 DEF View, Bound, eventVars
    <3>3. Known' = Known /\ Nonterminal' = Nonterminal
      BY <2>1 DEF Known, Nonterminal
    <3> QED BY <3>1, <3>2, <3>3 DEF PublishedIsCurrent
  <2>3. CASE regState # "absent"
    <3> DEFINE ended == {b \in Active : bindings[b].source[1] = generation}
    <3>1. /\ EndBindings(ended, "revoked")
          /\ coverage' = Raised(coverage, DispatchesOf(ended), KNOWN_GAP)
          /\ Bump(DispatchesOf(ended))
      BY <1>3, <2>3 DEF RegisterProject, Retire
    <3>2. ended \in SUBSET Active
      OBVIOUS
    <3> HIDE DEF ended
    <3> QED BY <2>1, <3>1, <3>2, GapPublished
  <2> QED BY <2>2, <2>3
<1>4. CASE OpenWriter
  <2> DEFINE left == {src \in Sources : Connected(src)}
             ended == {b \in Active : bindings[b].source \in left}
             targets == IF left = {} THEN {} ELSE DisconnectTargets(ended, FALSE)
  <2>1. /\ EndBindings(ended, "closed") /\ Bump(targets)
        /\ coverage' = Raised(coverage, targets, KNOWN_GAP)
        /\ UNCHANGED <<lifecycle, eventVars>>
    BY <1>4 DEF OpenWriter
  <2>2. ended \in SUBSET Active
    OBVIOUS
  <2> HIDE DEF ended, targets
  <2> QED BY <2>1, <2>2, GapPublished
<1>5. CASE PersistCapacityBlocked
  BY <1>5, GapPublished DEF PersistCapacityBlocked
<1>6. ASSUME NEW c \in Conns, RegisterConnection(c) \/ MarkSourceIncompatible(c)
      PROVE  PublishedIsCurrent'
  <2>1. CASE RegisterConnection(c)
    <3>1. UNCHANGED <<bindings, lifecycle, coverage, eventVars, publication>>
      BY <2>1 DEF RegisterConnection
    <3>2. \A d \in Dispatches : View(d)' = View(d)
      BY <3>1 DEF View, Bound, eventVars
    <3>3. Known' = Known /\ Nonterminal' = Nonterminal
      BY <3>1 DEF Known, Nonterminal
    <3> QED BY <3>1, <3>2, <3>3 DEF PublishedIsCurrent
  <2>2. CASE MarkSourceIncompatible(c)
    BY <2>2, GapPublished DEF MarkSourceIncompatible
  <2> QED BY <1>6, <2>1, <2>2
<1>7. ASSUME NEW src \in Sources, NEW expected \in BOOLEAN,
             MarkSourceDisconnected(src, expected)
      PROVE  PublishedIsCurrent'
  <2> DEFINE ended == {b \in Active : bindings[b].source = src}
             targets == DisconnectTargets(ended, expected)
  <2>1. /\ EndBindings(ended, "closed") /\ Bump(targets)
        /\ coverage' = Raised(coverage, targets, KNOWN_GAP)
        /\ UNCHANGED <<lifecycle, eventVars>>
    BY <1>7 DEF MarkSourceDisconnected
  <2>2. ended \in SUBSET Active
    OBVIOUS
  <2> HIDE DEF ended, targets
  <2> QED BY <2>1, <2>2, GapPublished
<1>8. ASSUME NEW src \in Sources, NEW overdue \in SUBSET pending,
             NEW p \in Projections, IngestPending(p, src, overdue)
      PROVE  PublishedIsCurrent'
  <2> DEFINE left == pending \ overdue
             known == \E t \in left : t.event.kind = p.kind /\ t.event.event = p.event
             overflow == ~known /\ Cardinality(left) >= MaxPending
             gapped == ExpiryTargets(overdue) \cup (IF overflow THEN Nonterminal ELSE {})
  <2>1. /\ coverage' = Raised(coverage, gapped, KNOWN_GAP) /\ Bump(gapped)
        /\ UNCHANGED <<lifecycle, eventVars, bindings>>
    BY <1>8 DEF IngestPending
  <2> HIDE DEF gapped
  <2> QED BY <2>1, GapPublished
<1>9. ASSUME NEW src \in Sources, NEW overdue \in SUBSET pending,
             NEW p \in Projections, NEW b \in BindingIds,
             IngestBound(p, src, b, overdue)
      PROVE  PublishedIsCurrent'
  <2> DEFINE r == [source |-> src, event |-> p]
             d == bindings[b].dispatch
             gapped == ExpiryTargets(overdue)
             accepted == Prior(p) = {} /\ schema[src] = "compatible"
             conflict == IF Conflicts(r, d) THEN {d} ELSE {}
             inner == Raised(coverage, gapped, KNOWN_GAP)
             A == IF accepted THEN {r} ELSE {}
             S == gapped \cup conflict \cup (IF accepted THEN {d} ELSE {})
  <2>1. /\ Accept(A, d)
        /\ coverage' = Raised(inner, conflict, CONFLICT)
        /\ Bump(S)
        /\ UNCHANGED <<available, lifecycle, bindings>>
    BY <1>9 DEF IngestBound
  <2>2. d \in Dispatches
    BY <1>9 DEF IngestBound, Owners, Active, Bound, TypeOK, BindingRow
  <2>3. inner \in [Dispatches -> UNKNOWN .. CONFLICT]
    BY RaisedType, LevelFacts DEF TypeOK
  <2>4. \A e \in Dispatches \ S : coverage'[e] = coverage[e]
    <3>1. \A e \in Dispatches \ S : inner[e] = coverage[e]
      BY RaisedFacts DEF TypeOK
    <3>2. \A e \in Dispatches \ S : e \notin conflict
      OBVIOUS
    <3> HIDE DEF inner, conflict, S
    <3> QED BY <2>1, <2>3, <3>1, <3>2, RaisedFacts
  <2>5. \A e \in Dispatches \ S :
          /\ activity'[e] = activity[e]
          /\ {c \in completions' : c.dispatch = e} = {c \in completions : c.dispatch = e}
    <3>1. CASE accepted
      <4>1. \A e \in Dispatches \ S : e # d
        BY <3>1
      <4> HIDE DEF A, S, d
      <4> QED BY <2>1, <2>2, <4>1, AcceptFrame
    <3>2. CASE ~accepted
      <4>1. A = {}
        BY <3>2
      <4> HIDE DEF A, S, d
      <4> QED BY <2>1, <2>2, <4>1, AcceptNothing
    <3> QED BY <3>1, <3>2
  <2>6. Bound' = Bound
    BY <2>1 DEF Bound
  <2> HIDE DEF S, d, A, inner, conflict
  <2>7. ExportFrame(S)
    BY <2>1, <2>4, <2>5, <2>6 DEF ExportFrame
  <2> QED BY <2>1, <2>7, PublishedFrame
<1>10. ASSUME NEW e \in Dispatches, RecordSubmission(e)
       PROVE  PublishedIsCurrent'
  <2>1. /\ e \notin Known /\ lifecycle' = [lifecycle EXCEPT ![e] = "submitted"]
        /\ UNCHANGED <<eventVars, coverage, bindings, publication>>
    BY <1>10 DEF RecordSubmission
  <2>2. publication[e] = NoManifest
    BY <2>1 DEF PublishedIsCurrent
  <2>3. \A d \in Dispatches \ {e} : View(d)' = View(d) /\ lifecycle'[d] = lifecycle[d]
    BY <2>1 DEF View, Bound, eventVars, TypeOK
  <2> QED BY <2>1, <2>2, <2>3 DEF PublishedIsCurrent, Known, Nonterminal
<1>11. ASSUME NEW e \in Dispatches, NEW clockGap \in BOOLEAN, NEW state \in Reported,
              RecordLifecycle(e, state, clockGap)
       PROVE  PublishedIsCurrent'
  <2> DEFINE S == IF clockGap THEN {e} ELSE {}
  <2>1. /\ lifecycle' = [lifecycle EXCEPT ![e] = state]
        /\ coverage' = Raised(coverage, S, KNOWN_GAP) /\ Bump({e})
        /\ UNCHANGED <<eventVars, bindings>>
    BY <1>11 DEF RecordLifecycle
  <2>2. \A d \in Dispatches \ {e} : d \notin S
    OBVIOUS
  <2> HIDE DEF S
  <2>3. \A d \in Dispatches \ {e} : coverage'[d] = coverage[d] /\ lifecycle'[d] = lifecycle[d]
    BY <2>1, <2>2, RaisedFacts DEF TypeOK
  <2>4. ExportFrame({e})
    BY <2>1, <2>3 DEF ExportFrame, eventVars, Bound
  <2> QED BY <2>1, <2>4, PublishedFrame
<1>12. ASSUME NEW b \in BindingIds, NEW c \in Conns, NEW e \in Dispatches,
              NEW s \in Streams, BindRuntime(b, c, e, s)
       PROVE  PublishedIsCurrent'
  <2> DEFINE src == <<generation, c>>
             compatible == schema[src] = "compatible"
             matched == Matched(src, s)
             fresh == {t \in matched : Prior(t.event) = {}}
             promoted == Raised(coverage, IF compatible THEN {e} ELSE {}, FirstCoverage)
             S == IF {t \in matched : Conflicts(t, e)} # {} THEN {e} ELSE {}
             A == IF compatible THEN fresh ELSE {}
  <2>1. /\ Accept(A, e) /\ Bump({e}) /\ lifecycle' = lifecycle
        /\ coverage' = Raised(promoted, S, CONFLICT)
        /\ available' = [available EXCEPT ![e] = @ \/ compatible]
    BY <1>12 DEF BindRuntime, MakeAvailable
  <2>2. /\ Bound' = Bound \cup {b} /\ b \notin Bound
        /\ bindings'[b] = [source |-> src, stream |-> s, dispatch |-> e,
                           state |-> "active"]
        /\ \A o \in Bound : bindings'[o] = bindings[o]
    BY <1>12, BindFacts
  <2>3. promoted \in [Dispatches -> UNKNOWN .. CONFLICT]
    BY RaisedType, LevelFacts DEF TypeOK, FirstCoverage
  <2>4. \A d \in Dispatches \ {e} : coverage'[d] = coverage[d]
    <3>1. \A d \in Dispatches \ {e} : promoted[d] = coverage[d] /\ d \notin S
      BY DEF Raised
    <3> HIDE DEF promoted, S
    <3> QED BY <2>1, <2>3, <3>1, RaisedFacts
  <2>5. \A d \in Dispatches \ {e} :
          /\ activity'[d] = activity[d]
          /\ {q \in completions' : q.dispatch = d} = {q \in completions : q.dispatch = d}
    <3> HIDE DEF A
    <3> QED BY <2>1, AcceptFrame
  <2>6. \A d \in Dispatches \ {e} : available'[d] = available[d]
    BY <2>1 DEF TypeOK
  <2>7. bindings'[b].dispatch = e
    BY <2>2
  <2> HIDE DEF src
  <2>8. \A d \in Dispatches \ {e} :
          {o \in Bound' : bindings'[o].dispatch = d} = {o \in Bound : bindings[o].dispatch = d}
    BY <2>2, <2>7
  <2>9. ExportFrame({e})
    BY <2>1, <2>4, <2>5, <2>6, <2>8 DEF ExportFrame
  <2> QED BY <2>1, <2>9, PublishedFrame
<1> QED
  BY StepCases, <1>1, <1>2, <1>3, <1>4, <1>5, <1>6, <1>7, <1>8, <1>9, <1>10, <1>11, <1>12

\* An export is current for as long as staging or confirmation would accept it: no
\* reader ever sees a confirmed snapshot of a dispatch that has changed since.
THEOREM PublicationIsCurrent == Spec => []PublishedIsCurrent
<1>1. Init => PublishedIsCurrent
  BY DEF Init, PublishedIsCurrent
<1> QED BY <1>1, PublishedStep, TypeCorrect, PTL DEF Spec

----------------------------------------------------------------------------
(* Accounting.  CountsExact is preserved because the pending table never holds *)
(* two rows of one identity and no accepted row has an applied identity; the   *)
(* counter then grows by the cardinality of the rows it is counted for.        *)

\* The deduplication rows inserted when the projections in A are accepted for d.
Inserted(A, d) ==
  {[kind |-> r.event.kind, event |-> r.event.event, dispatch |-> d, payload |-> r] : r \in A}

\* The applied identities that the activity counter of d counts.
Counted(d) == {q \in dedup : q.dispatch = d /\ q.kind # "completion"}

\* One deduplication row is inserted for each accepted projection.
LEMMA InsertedCardinality ==
  ASSUME NEW A, IsFiniteSet(A), NEW d
  PROVE  IsFiniteSet(Inserted(A, d)) /\ Cardinality(Inserted(A, d)) = Cardinality(A)
PROOF
<1> DEFINE Row(r) == [kind |-> r.event.kind, event |-> r.event.event, dispatch |-> d,
                      payload |-> r]
           f == [r \in A |-> Row(r)]
<1>1. \A r \in A : f[r].payload = r
  OBVIOUS
<1>2. f \in [A -> Inserted(A, d)]
  BY DEF Inserted
<1>3. \A q \in Inserted(A, d) : \E r \in A : f[r] = q
  BY DEF Inserted
<1> HIDE DEF f
<1>4. f \in Injection(A, Inserted(A, d))
  BY <1>1, <1>2 DEF Injection, IsInjective
<1>5. f \in Surjection(A, Inserted(A, d))
  BY <1>2, <1>3 DEF Surjection
<1>6. ExistsBijection(A, Inserted(A, d))
  BY <1>4, <1>5 DEF ExistsBijection, Bijection
<1> QED BY <1>6, FS_Bijection

\* Accepting projections of new and distinct identities keeps every count exact.
LEMMA AcceptCounts ==
  ASSUME TypeOK, IsFiniteSet(dedup), CountsExact,
         NEW A \in SUBSET PendingRow, IsFiniteSet(A), NEW d \in Dispatches, Accept(A, d),
         \A r \in A : Prior(r.event) = {},
         \A r, t \in A : r.event.kind = t.event.kind /\ r.event.event = t.event.event
                           => r = t
  PROVE  IsFiniteSet(dedup') /\ CountsExact'
PROOF
<1> DEFINE cycles == {r \in A : r.event.kind = "completion"}
           others == A \ cycles
<1>1. /\ dedup' = dedup \cup Inserted(A, d)
      /\ completions' = completions \cup
           {[stream |-> r.event.stream, event |-> r.event.event,
             dispatch |-> d, body |-> r.event.body] : r \in cycles}
      /\ activity' = [activity EXCEPT ![d] = @ + Cardinality(others)]
  BY DEF Accept, Inserted
<1>2. IsFiniteSet(dedup')
  BY <1>1, InsertedCardinality, FS_Union
<1>3. \A q \in Inserted(A, d) :
        /\ q.payload \in A /\ q.dispatch = d
        /\ q.kind = q.payload.event.kind /\ q.event = q.payload.event.event
        /\ \A o \in dedup : ~(o.kind = q.kind /\ o.event = q.event)
  <2> SUFFICES ASSUME NEW r \in A
               PROVE  \A o \in dedup : ~(o.kind = r.event.kind /\ o.event = r.event.event)
    BY DEF Inserted
  <2> QED BY DEF Prior
<1>4. \A q, r \in dedup' : q.kind = r.kind /\ q.event = r.event => q = r
  <2>1. \A q, r \in Inserted(A, d) : q.kind = r.kind /\ q.event = r.event => q = r
    <3>1. \A q, r \in Inserted(A, d) : q.payload = r.payload => q = r
      BY DEF Inserted
    <3> QED BY <1>3, <3>1
  <2> QED BY <1>1, <1>3, <2>1 DEF CountsExact
<1>5. completions' =
        {[stream |-> q.payload.event.stream, event |-> q.event,
          dispatch |-> q.dispatch, body |-> q.payload.event.body] :
           q \in {r \in dedup' : r.kind = "completion"}}
  <2> DEFINE Row(q) == [stream |-> q.payload.event.stream, event |-> q.event,
                        dispatch |-> q.dispatch, body |-> q.payload.event.body]
             rows == {[stream |-> r.event.stream, event |-> r.event.event,
                       dispatch |-> d, body |-> r.event.body] : r \in cycles}
  <2>1. rows = {Row(q) : q \in {o \in Inserted(A, d) : o.kind = "completion"}}
    <3> DEFINE Ins(r) == [kind |-> r.event.kind, event |-> r.event.event,
                          dispatch |-> d, payload |-> r]
    <3>1. {o \in Inserted(A, d) : o.kind = "completion"} = {Ins(r) : r \in cycles}
      BY DEF Inserted
    <3>2. \A r \in cycles : Row(Ins(r)) = [stream |-> r.event.stream, event |-> r.event.event,
                                           dispatch |-> d, body |-> r.event.body]
      OBVIOUS
    <3> HIDE DEF Row, Ins
    <3> QED BY <3>1, <3>2
  <2>2. completions = {Row(q) : q \in {r \in dedup : r.kind = "completion"}}
    BY DEF CountsExact
  <2>3. completions' = completions \cup rows
    BY <1>1
  <2> HIDE DEF rows, Row
  <2>4. {Row(q) : q \in {r \in dedup' : r.kind = "completion"}}
          = {Row(q) : q \in {r \in dedup : r.kind = "completion"}}
              \cup {Row(q) : q \in {o \in Inserted(A, d) : o.kind = "completion"}}
    BY <1>1
  <2>5. completions' = {Row(q) : q \in {r \in dedup' : r.kind = "completion"}}
    BY <2>1, <2>2, <2>3, <2>4
  <2> QED BY <2>5 DEF Row
<1>6. ASSUME NEW e \in Dispatches
      PROVE  activity'[e] = Cardinality({q \in dedup' : q.dispatch = e
                                                         /\ q.kind # "completion"})
  <2> DEFINE after == {q \in dedup' : q.dispatch = e /\ q.kind # "completion"}
  <2>1. activity[e] = Cardinality(Counted(e))
    BY DEF CountsExact, Counted
  <2>2. CASE e # d
    <3>1. after = Counted(e)
      BY <1>1, <1>3, <2>2 DEF Counted
    <3>2. activity'[e] = activity[e]
      BY <1>1, <2>2 DEF TypeOK
    <3> QED BY <2>1, <3>1, <3>2
  <2>3. CASE e = d
    <3>1. after = Counted(d) \cup Inserted(others, d)
      <4>1. \A q \in Inserted(others, d) : q \in Inserted(A, d) /\ q.kind # "completion"
        BY DEF Inserted
      <4>2. \A q \in Inserted(A, d) : q.kind # "completion" => q \in Inserted(others, d)
        BY DEF Inserted
      <4> HIDE DEF others
      <4> QED BY <1>1, <1>3, <2>3, <4>1, <4>2 DEF Counted
    <3>2. Counted(d) \cap Inserted(others, d) = {}
      <4>1. Inserted(others, d) \subseteq Inserted(A, d)
        BY DEF Inserted
      <4> QED BY <1>3, <4>1 DEF Counted
    <3>3. IsFiniteSet(Counted(d)) /\ IsFiniteSet(others)
      BY FS_Subset DEF Counted
    <3> HIDE DEF others
    <3>4. /\ IsFiniteSet(Inserted(others, d))
          /\ Cardinality(Inserted(others, d)) = Cardinality(others)
      BY <3>3, InsertedCardinality
    <3>5. Cardinality(after) = Cardinality(Counted(d)) + Cardinality(others) - 0
      BY <3>1, <3>2, <3>3, <3>4, FS_Union, FS_EmptySet
    <3>6. Cardinality(Counted(d)) \in Nat /\ Cardinality(others) \in Nat
      BY <3>3, FS_CardinalityType
    <3>7. activity'[d] = activity[d] + Cardinality(others)
      BY <1>1 DEF TypeOK
    <3> QED BY <2>1, <2>3, <3>5, <3>6, <3>7
  <2> QED BY <2>2, <2>3
<1> QED BY <1>2, <1>4, <1>5, <1>6 DEF CountsExact

\* The pending table holds one row per identity: ON CONFLICT DO NOTHING of
\* _store_pending.
PendingDistinct ==
  \A r, t \in pending :
    r.event.kind = t.event.kind /\ r.event.event = t.event.event => r = t

\* The inductive invariant behind the accounting.
AccountInv == TypeOK /\ PendingDistinct /\ IsFiniteSet(dedup) /\ Accounting

\* Bindings, sources and applied rows that stay as they are.
LEMMA AccountFrame ==
  ASSUME AccountInv, TypeOK', pending' \subseteq pending, UNCHANGED eventVars,
         Bound' = Bound, Active' \subseteq Active,
         \A b \in Bound : /\ bindings'[b].source = bindings[b].source
                          /\ bindings'[b].stream = bindings[b].stream
                          /\ bindings'[b].dispatch = bindings[b].dispatch,
         \A src \in Sources : schema'[src] = "compatible" => schema[src] = "compatible"
  PROVE  AccountInv'
PROOF
<1>1. \A b \in Bound : bindings[b].source \in Sources
  BY DEF AccountInv, TypeOK, Bound, BindingRow
<1>2. PendingDistinct' /\ IsFiniteSet(dedup)' /\ CountsExact'
  BY DEF AccountInv, PendingDistinct, Accounting, CountsExact, eventVars
<1>3. Attribution'
  BY DEF AccountInv, Accounting, Attribution, eventVars
<1>4. ActivityAvailable'
  BY <1>1 DEF AccountInv, Accounting, ActivityAvailable, Active, eventVars
<1> QED BY <1>2, <1>3, <1>4 DEF AccountInv, Accounting

\* Ended bindings still attribute what was applied under them.
LEMMA AccountEnded ==
  ASSUME AccountInv, TypeOK', pending' = pending, UNCHANGED <<eventVars, schema>>,
         NEW B \in SUBSET Active, NEW s \in {"closed", "revoked"}, EndBindings(B, s)
  PROVE  AccountInv'
  BY AccountFrame, EndBindingsFacts DEF AccountInv

\* Every step keeps the accounts exact.
LEMMA AccountStep ==
  ASSUME AccountInv, [Next]_vars
  PROVE  AccountInv'
PROOF
<1>0. TypeOK /\ TypeOK'
  BY NextTypeOK DEF AccountInv
<1>a. \A b \in Bound : bindings[b] \in BindingRow
  BY <1>0 DEF TypeOK, Bound
<1>1. ASSUME UNCHANGED <<bindings, eventVars, schema>>, pending' \subseteq pending
      PROVE  AccountInv'
  BY <1>0, <1>1, AccountFrame DEF Bound, Active
<1>2. CASE Quiet
  BY <1>1, <1>2 DEF Quiet
<1>3. CASE \E S \in SUBSET Known : GapStep(S)
  BY <1>1, <1>3 DEF GapStep
<1>4. ASSUME NEW g \in Generations, NEW state \in {"enabled", "revoked"},
             RegisterProject(g, state)
      PROVE  AccountInv'
  <2> DEFINE ended == {b \in Active : bindings[b].source[1] = generation}
  <2>1. /\ UNCHANGED <<eventVars, schema, pending>>
        /\ bindings' = bindings \/ EndBindings(ended, "revoked")
    BY <1>4 DEF RegisterProject, Retire
  <2>2. ended \in SUBSET Active
    OBVIOUS
  <2> HIDE DEF ended
  <2> QED BY <1>0, <1>1, <2>1, <2>2, AccountEnded
<1>5. CASE OpenWriter
  <2> DEFINE ended == {b \in Active : bindings[b].source \in
                                        {src \in Sources : Connected(src)}}
  <2>1. UNCHANGED <<eventVars, schema, pending>> /\ EndBindings(ended, "closed")
    BY <1>5 DEF OpenWriter
  <2>2. ended \in SUBSET Active
    OBVIOUS
  <2> HIDE DEF ended
  <2> QED BY <1>0, <2>1, <2>2, AccountEnded
<1>6. CASE PersistCapacityBlocked
  BY <1>1, <1>6 DEF PersistCapacityBlocked, sourceVars
<1>7. ASSUME NEW c \in Conns, RegisterConnection(c) \/ MarkSourceIncompatible(c)
      PROVE  AccountInv'
  <2>1. UNCHANGED <<bindings, eventVars, pending>>
    BY <1>7 DEF RegisterConnection, MarkSourceIncompatible
  <2>2. schema' = schema \/ schema' = [schema EXCEPT ![<<generation, c>>] = "incompatible"]
    BY <1>7 DEF RegisterConnection, MarkSourceIncompatible
  <2>3. \A src \in Sources : schema'[src] = "compatible" => schema[src] = "compatible"
    BY <1>0, <2>2 DEF TypeOK
  <2> QED BY <1>0, <2>1, <2>3, AccountFrame DEF Bound, Active
<1>8. ASSUME NEW src \in Sources, NEW expected \in BOOLEAN,
             MarkSourceDisconnected(src, expected)
      PROVE  AccountInv'
  <2> DEFINE ended == {b \in Active : bindings[b].source = src}
  <2>1. UNCHANGED <<eventVars, schema, pending>> /\ EndBindings(ended, "closed")
    BY <1>8 DEF MarkSourceDisconnected
  <2>2. ended \in SUBSET Active
    OBVIOUS
  <2> HIDE DEF ended
  <2> QED BY <1>0, <2>1, <2>2, AccountEnded
<1>9. ASSUME NEW src \in Sources, NEW overdue \in SUBSET pending,
             NEW p \in Projections, IngestPending(p, src, overdue)
      PROVE  AccountInv'
  <2> DEFINE row == [source |-> src, event |-> p]
             left == pending \ overdue
             known == \E r \in left : r.event.kind = p.kind /\ r.event.event = p.event
  <2>1. /\ UNCHANGED <<bindings, eventVars, schema>>
        /\ pending' = left \/ (~known /\ pending' = left \cup {row})
    BY <1>9 DEF IngestPending, sourceVars
  <2>2. row.event = p
    OBVIOUS
  <2>3. PendingDistinct'
    <3> HIDE DEF row
    <3> QED BY <2>1, <2>2 DEF AccountInv, PendingDistinct
  <2>4. /\ IsFiniteSet(dedup)' /\ Attribution' /\ CountsExact' /\ ActivityAvailable'
    BY <2>1 DEF AccountInv, Accounting, Attribution, CountsExact, ActivityAvailable,
                eventVars, Bound, Active
  <2> QED BY <1>0, <2>3, <2>4 DEF AccountInv, Accounting
<1>10. ASSUME NEW src \in Sources, NEW overdue \in SUBSET pending,
              NEW p \in Projections, NEW b \in BindingIds,
              IngestBound(p, src, b, overdue)
       PROVE  AccountInv'
  <2> DEFINE r == [source |-> src, event |-> p]
             d == bindings[b].dispatch
             accepted == Prior(p) = {} /\ schema[src] = "compatible"
             A == IF accepted THEN {r} ELSE {}
  <2>1. /\ Accept(A, d) /\ pending' = pending \ overdue
        /\ UNCHANGED <<available, schema, bindings>>
        /\ b \in Bound /\ bindings[b].source = src /\ bindings[b].stream = p.stream
    BY <1>10 DEF IngestBound, Owners, Active, sourceVars
  <2>2. d \in Dispatches
    BY <1>a, <2>1 DEF BindingRow
  <2>3. A \in SUBSET PendingRow /\ IsFiniteSet(A)
    <3>1. r \in PendingRow
      BY DEF PendingRow
    <3> QED BY <3>1, FS_EmptySet, FS_Singleton
  <2>4. (\A t \in A : Prior(t.event) = {}) /\ \A t, u \in A : t = u
    OBVIOUS
  <2>5. \A t \in A : t.source = src /\ t.event.stream = p.stream
    OBVIOUS
  <2> HIDE DEF A
  <2>6. IsFiniteSet(dedup') /\ CountsExact'
    <3> HIDE DEF d
    <3> QED BY <1>0, <2>1, <2>2, <2>3, <2>4, AcceptCounts DEF AccountInv, Accounting
  <2>7. \A q \in dedup' : q \in dedup \/ (q.payload \in A /\ q.dispatch = d)
    BY <2>1 DEF Accept
  <2>8. Bound' = Bound /\ Active' = Active
    BY <2>1 DEF Bound, Active
  <2>9. Attribution'
    <3>1. \A q \in dedup' \ dedup : /\ bindings[b].source = q.payload.source
                                    /\ bindings[b].stream = q.payload.event.stream
                                    /\ bindings[b].dispatch = q.dispatch
      BY <2>1, <2>5, <2>7
    <3> HIDE DEF d
    <3> QED BY <2>1, <2>8, <3>1 DEF AccountInv, Accounting, Attribution
  <2>10. ActivityAvailable' /\ PendingDistinct'
    BY <2>1, <2>8 DEF AccountInv, Accounting, ActivityAvailable, PendingDistinct
  <2> QED BY <1>0, <2>6, <2>9, <2>10 DEF AccountInv, Accounting
<1>11. CASE \E d \in Dispatches : RecordSubmission(d)
  BY <1>1, <1>11 DEF RecordSubmission, sourceVars
<1>12. CASE \E d \in Dispatches, clockGap \in BOOLEAN, state \in Reported :
              RecordLifecycle(d, state, clockGap)
  BY <1>1, <1>12 DEF RecordLifecycle, sourceVars
<1>13. ASSUME NEW b \in BindingIds, NEW c \in Conns, NEW d \in Dispatches,
              NEW s \in Streams, BindRuntime(b, c, d, s)
       PROVE  AccountInv'
  <2> DEFINE src == <<generation, c>>
             compatible == schema[src] = "compatible"
             matched == Matched(src, s)
             fresh == {t \in matched : Prior(t.event) = {}}
             A == IF compatible THEN fresh ELSE {}
  <2>1. /\ Accept(A, d) /\ pending' = pending \ matched /\ schema' = schema
        /\ available' = [available EXCEPT ![d] = @ \/ compatible]
        /\ Unowned(s)
    BY <1>13 DEF BindRuntime, MakeAvailable, sourceVars
  <2>2. /\ src \in Sources
        /\ Bound' = Bound \cup {b} /\ Active' = Active \cup {b} /\ b \notin Bound
        /\ bindings'[b] = [source |-> src, stream |-> s, dispatch |-> d,
                           state |-> "active"]
        /\ \A o \in Bound : bindings'[o] = bindings[o]
    BY <1>0, <1>13, BindFacts
  <2>3. A \in SUBSET PendingRow /\ IsFiniteSet(A) /\ A \subseteq pending
    BY <1>0, FS_Subset, FS_EmptySet DEF TypeOK, Matched
  <2>4. \A t \in A : Prior(t.event) = {} /\ t.source = src /\ t.event.stream = s
    BY DEF Matched
  <2>5. src[1] = generation
    OBVIOUS
  <2>6. /\ compatible => available'[d]
        /\ \A e \in Dispatches : available[e] => available'[e]
    <3> HIDE DEF compatible
    <3>1. available'[d] = (available[d] \/ compatible)
      BY <1>0, <2>1 DEF TypeOK
    <3>2. \A e \in Dispatches \ {d} : available'[e] = available[e]
      BY <1>0, <2>1 DEF TypeOK
    <3> QED BY <3>1, <3>2
  <2>7. ActivityAvailable'
    <3> SUFFICES ASSUME NEW o \in Active', schema'[bindings'[o].source] = "compatible"
                 PROVE  available'[bindings'[o].dispatch]
      BY DEF ActivityAvailable
    <3>1. CASE o = b
      <4>1. bindings'[o].source = src /\ bindings'[o].dispatch = d
        BY <2>2, <3>1
      <4>2. compatible
        BY <2>1, <4>1
      <4> HIDE DEF compatible
      <4> QED BY <2>6, <4>1, <4>2
    <3>2. CASE o # b
      <4>1. o \in Active /\ o \in Bound /\ bindings'[o] = bindings[o]
        BY <2>2, <3>2 DEF Active
      <4>2. available[bindings[o].dispatch] /\ bindings[o].dispatch \in Dispatches
        BY <1>a, <2>1, <4>1 DEF AccountInv, Accounting, ActivityAvailable, BindingRow
      <4> HIDE DEF compatible
      <4> QED BY <2>6, <4>1, <4>2
    <3> QED BY <3>1, <3>2
  <2> HIDE DEF A, src
  <2>8. IsFiniteSet(dedup') /\ CountsExact'
    <3>1. \A r, t \in A : r.event.kind = t.event.kind /\ r.event.event = t.event.event
                            => r = t
      BY <2>3 DEF AccountInv, PendingDistinct
    <3> QED BY <1>0, <2>1, <2>3, <2>4, <3>1, AcceptCounts DEF AccountInv, Accounting
  <2>9. \A q \in dedup' : q \in dedup \/ (q.payload \in A /\ q.dispatch = d)
    BY <2>1 DEF Accept
  <2>10. Attribution'
    <3>1. \A q \in dedup' \ dedup : /\ bindings'[b].source = q.payload.source
                                    /\ bindings'[b].stream = q.payload.event.stream
                                    /\ bindings'[b].dispatch = q.dispatch
      BY <2>2, <2>4, <2>9
    <3>2. \A q \in dedup' : \E o \in Bound' :
             /\ bindings'[o].source = q.payload.source
             /\ bindings'[o].stream = q.payload.event.stream
             /\ bindings'[o].dispatch = q.dispatch
      BY <2>2, <3>1 DEF AccountInv, Accounting, Attribution
    <3>3. \A o \in Bound : ~(bindings'[o].source[1] = bindings'[b].source[1]
                             /\ bindings'[o].stream = bindings'[b].stream)
      BY <2>1, <2>2, <2>5 DEF Unowned
    <3>4. \A o, p \in Bound' :
            /\ bindings'[o].source[1] = bindings'[p].source[1]
            /\ bindings'[o].stream = bindings'[p].stream
            => o = p
      BY <2>2, <3>3 DEF AccountInv, Accounting, Attribution
    <3> QED BY <3>2, <3>4 DEF Attribution
  <2>11. PendingDistinct'
    BY <2>1 DEF AccountInv, PendingDistinct
  <2> QED BY <1>0, <2>7, <2>8, <2>10, <2>11 DEF AccountInv, Accounting
<1> QED
  BY StepCases, <1>0, <1>2, <1>3, <1>4, <1>5, <1>6, <1>7, <1>8, <1>9, <1>10, <1>11, <1>12,
     <1>13

\* Every count is exact: what the source sends is counted at most once, for the
\* dispatch whose stream it was sent on, whatever is replayed, reordered or bound
\* late, and however many events, dispatches and connections there are.
THEOREM AccountsAreExact == Spec => []Accounting
<1>1. Init => AccountInv
  <2> SUFFICES ASSUME Init PROVE AccountInv
    OBVIOUS
  <2>1. Bound = {} /\ Active = {}
    BY DEF Init, Bound, Active
  <2>2. Attribution /\ ActivityAvailable /\ PendingDistinct
    BY <2>1 DEF Init, Attribution, ActivityAvailable, PendingDistinct
  <2>3. IsFiniteSet(dedup)
    BY FS_EmptySet DEF Init
  <2>4. CountsExact
    <3>1. \A d \in Dispatches : Counted(d) = {} /\ activity[d] = 0
      BY DEF Init, Counted
    <3>2. \A d \in Dispatches : activity[d] = Cardinality(Counted(d))
      BY <3>1, FS_EmptySet
    <3>3. completions = {} /\ dedup = {}
      BY DEF Init
    <3> QED BY <3>2, <3>3 DEF CountsExact, Counted
  <2> QED BY <2>2, <2>3, <2>4, InitTypeOK DEF AccountInv, Accounting
<1>2. AccountInv => Accounting
  BY DEF AccountInv
<1> QED BY <1>1, <1>2, AccountStep, PTL DEF Spec
==============================================================================
