-------------------------------- MODULE Ledger --------------------------------
(***************************************************************************)
(* The durable dispatch ledger, class ObservabilityLedger, for one          *)
(* registered project.  Every public writer method of the class runs in one *)
(* SQLite transaction under one lock, so each is one action here; the       *)
(* threads that share the ledger appear as the interleaving of the actions, *)
(* and a crash falls between two of them.                                   *)
(*                                                                         *)
(* What is abstracted:                                                     *)
(*  - the tables are sets and functions of the columns that decide control; *)
(*  - a thread and turn fingerprint pair is one "stream"; a projection is a *)
(*    record of kind, event, stream and body, and a completion's response   *)
(*    fingerprint is its event fingerprint, as the adapter builds it;       *)
(*  - known_gaps_json is kept as "some gap is known", all the code asks;    *)
(*  - a dispatch revision is kept as "nothing rendered for this revision":  *)
(*    an increment starts a revision that no snapshot and no manifest row      *)
(*    names, and those of an older revision are refused from then on;       *)
(*  - wall-clock age is a choice: any set of pending records may be past    *)
(*    its deadline when a handler looks;                                    *)
(*  - register_connection has its default schema state, as in every call of *)
(*    the scripts.                                                         *)
(***************************************************************************)
EXTENDS Naturals, FiniteSets

CONSTANTS
  Dispatches,     \* dispatch ids the supervisor may submit
  Conns,          \* connection ids the adapters may register
  Streams,        \* thread and turn fingerprint pairs
  BindingIds,     \* binding ids
  Projections,    \* projections the source may send, see ProjectionType
  Reported,       \* the lifecycle states the controller's receipts report
  KeyMayFail,     \* whether the key file may be lost and restored
  MaxGeneration,  \* bound on registration generations
  MaxPending,     \* resource limit max_pending_records
  NoBinding,      \* absent row of table bindings
  NoManifest      \* no export of the current revision has been rendered

TerminalStates == {"completed", "failed", "interrupted", "control-lost", "unknown"}
LifecycleStates == {"submitted", "acknowledged", "running"} \cup TerminalStates
Kinds == {"completion", "retry", "turn_outcome", "tool_event"}

ASSUME GenerationAssumption == MaxGeneration \in Nat
ASSUME PendingAssumption == MaxPending \in Nat
ASSUME ReportedAssumption == Reported \subseteq LifecycleStates
ASSUME KeyAssumption == KeyMayFail \in BOOLEAN
ASSUME ProjectionsAssumption ==
  \A p \in Projections : p.kind \in Kinds /\ p.stream \in Streams

\* CoverageState of the contract, ordered by how bad it is.
UNKNOWN == 0
OBSERVED == 1
KNOWN_GAP == 2
CONFLICT == 3

Generations == 1 .. MaxGeneration
\* A source is one app-server connection of one registration generation.
Sources == Generations \X Conns

VARIABLES
  writer,       \* "open" while one process owns the writer lock
  regState,     \* registrations.record_json.state, "absent" before any row
  generation,   \* registrations.generation
  key,          \* the project key file is present and matches its digest
  recovery,     \* health.ledger_state is "recovery"
  knownGap,     \* health.known_gaps_json is not empty
  blocked,      \* metadata.capacity_blocked is '1'
  conn,         \* connections.state of each source
  schema,       \* connections.schema_state of each source
  lifecycle,    \* dispatches.record_json.lifecycle_state, "none" before any row
  coverage,     \* dispatches.record_json.coverage_state
  bindings,     \* table bindings
  pending,      \* table pending_events
  dedup,        \* table event_dedup
  completions,  \* table completions
  activity,     \* counters of table activity
  available,    \* activity.available
  publication,  \* the export of the current revision, see ExportRow
  missed        \* history: <<source, stream>> of projections that were dropped

registryVars == <<writer, regState, generation, key, recovery, blocked>>
sourceVars == <<conn, schema>>
eventVars == <<dedup, completions, activity, available>>
vars == <<registryVars, sourceVars, eventVars, knownGap, lifecycle, coverage,
          bindings, pending, publication, missed>>

----------------------------------------------------------------------------
(* Rows and the queries the handlers share.                                 *)

BindingRow == [source : Sources, stream : Streams, dispatch : Dispatches,
               state : {"active", "closed", "revoked"}]
PendingRow == [source : Sources, event : Projections]
DedupRow == [kind : Kinds, event : {p.event : p \in Projections},
             dispatch : Dispatches, payload : PendingRow]
CompletionRow == [stream : Streams, event : {p.event : p \in Projections},
                  dispatch : Dispatches, body : {p.body : p \in Projections}]
ExportRow ==
  [view : [lifecycle : LifecycleStates, coverage : UNKNOWN .. CONFLICT,
           cycles : SUBSET CompletionRow, activity : Nat, available : BOOLEAN,
           configured : SUBSET BindingIds],
   step : {"read", "staged", "confirmed"}]

ASSUME AbsentAssumption == NoBinding \notin BindingRow /\ NoManifest \notin ExportRow

Bound == {b \in BindingIds : bindings[b] # NoBinding}
Active == {b \in Bound : bindings[b].state = "active"}
Known == {d \in Dispatches : lifecycle[d] # "none"}
Nonterminal == {d \in Known : lifecycle[d] \notin TerminalStates}
DispatchesOf(B) == {bindings[b].dispatch : b \in B}
Connected(src) == conn[src] = "connected"

\* The row _find_binding joins to a payload of source src and stream s.
Owners(src, s) ==
  {b \in Active : bindings[b].source = src /\ bindings[b].stream = s}

\* Mutant: the drain reads the completions only.
MatchedCompletions(src, s) ==
  {r \in pending : r.source = src /\ r.event.stream = s /\ r.event.kind = "completion"}

\* The pending rows _drain_pending_for_binding reads for that source and stream.
Matched(src, s) == {r \in pending : r.source = src /\ r.event.stream = s}

\* Mutant: deduplication is scoped to the stream.
PriorOnStream(p) ==
  {r \in dedup : r.kind = p.kind /\ r.event = p.event /\ r.payload.event.stream = p.stream}

\* The projections already applied under the identity of p.
Prior(p) == {r \in dedup : r.kind = p.kind /\ r.event = p.event}

\* What a publication of d exports: exactly what dispatch_samples reads.
View(d) ==
  [lifecycle |-> lifecycle[d], coverage |-> coverage[d],
   cycles |-> {c \in completions : c.dispatch = d},
   activity |-> activity[d], available |-> available[d],
   configured |-> {b \in Bound : bindings[b].dispatch = d}]

\* Mutant: levels add up instead of taking the worse one.
RaisedBySum(cov, S, level) ==
  [d \in Dispatches |-> IF d \in S THEN cov[d] + level ELSE cov[d]]

Raised(cov, S, level) ==
  [d \in Dispatches |-> IF d \in S /\ cov[d] < level THEN level ELSE cov[d]]

\* _bump_dispatch: nothing is rendered for the next revision yet.
Bump(S) ==
  publication' = [d \in Dispatches |->
                    IF d \in S THEN NoManifest ELSE publication[d]]

\* The bindings in B leave state "active" for the given one.
EndBindings(B, state) ==
  bindings' = [b \in BindingIds |->
                 IF b \in B THEN [bindings[b] EXCEPT !.state = state]
                 ELSE bindings[b]]

\* _transaction: the writer is open and admission is not blocked.
Transaction == writer = "open" /\ ~blocked
\* _registration: the project is registered and not revoked.
Enabled == regState = "enabled"
\* _require_telemetry_ready
Ready == ~recovery

----------------------------------------------------------------------------
(* Registration, keys and connections.                                      *)

\* Mutant: the retired generation keeps its bindings.
RetireConnectionsOnly ==
  /\ conn' = [src \in Sources |->
                IF src[1] = generation /\ Connected(src) THEN "disconnected"
                ELSE conn[src]]
  /\ UNCHANGED <<bindings, knownGap, coverage, publication>>

\* _retire_registration_generation, for the generation being replaced.
Retire ==
  LET ended == {b \in Active : bindings[b].source[1] = generation}
      affected == DispatchesOf(ended)
  IN  /\ conn' = [src \in Sources |->
                    IF src[1] = generation /\ Connected(src)
                    THEN "disconnected" ELSE conn[src]]
      /\ EndBindings(ended, "revoked")
      /\ knownGap' = (knownGap \/ affected # {})
      /\ coverage' = Raised(coverage, affected, KNOWN_GAP)
      /\ Bump(affected)

RegisterProject(g, state) ==
  /\ Transaction
  /\ \/ /\ regState = "absent"
        /\ key' = TRUE
        /\ UNCHANGED <<conn, bindings, knownGap, coverage, publication>>
     \/ /\ regState # "absent"
        /\ key
        /\ g > generation
        /\ regState = "revoked" => state = "revoked"
        /\ Retire
        /\ UNCHANGED key
  /\ generation' = g
  /\ regState' = state
  /\ UNCHANGED <<writer, recovery, blocked, schema, eventVars, lifecycle,
                 pending, missed>>

\* The key file of the project is lost, or is restored by its operator.
KeyFile ==
  /\ KeyMayFail
  /\ regState # "absent"
  /\ key' = ~key
  /\ UNCHANGED <<writer, regState, generation, recovery, blocked, sourceVars,
                 eventVars, knownGap, lifecycle, coverage, bindings, pending,
                 publication, missed>>

\* _mark_key_unavailable, from a registration or a fingerprinter request.
MarkKeyUnavailable ==
  /\ Transaction
  /\ regState # "absent"
  /\ ~key
  /\ recovery' = TRUE
  /\ knownGap' = TRUE
  /\ UNCHANGED <<writer, regState, generation, key, blocked, sourceVars,
                 eventVars, lifecycle, coverage, bindings, pending, publication,
                 missed>>

\* source_fingerprinter with a readable key: _clear_key_recovery.
SourceFingerprinter ==
  /\ Transaction
  /\ Enabled
  /\ key
  /\ recovery' = FALSE
  /\ UNCHANGED <<writer, regState, generation, key, blocked, sourceVars,
                 eventVars, knownGap, lifecycle, coverage, bindings, pending,
                 publication, missed>>

RegisterConnection(c) ==
  LET src == <<generation, c>>
  IN  /\ Transaction /\ Enabled /\ Ready
      /\ conn[src] = "absent"
      /\ conn' = [conn EXCEPT ![src] = "connected"]
      /\ UNCHANGED <<registryVars, schema, eventVars, knownGap, lifecycle,
                     coverage, bindings, pending, publication, missed>>

\* Mutant: an incompatible source gaps work in progress only.
MarkSourceIncompatibleNonterminal(c) ==
  LET src == <<generation, c>>
  IN  /\ Transaction /\ Enabled
      /\ Connected(src)
      /\ schema' = [schema EXCEPT ![src] = "incompatible"]
      /\ knownGap' = TRUE
      /\ coverage' = Raised(coverage, Nonterminal, KNOWN_GAP)
      /\ Bump(Nonterminal)
      /\ UNCHANGED <<registryVars, conn, eventVars, lifecycle, bindings,
                     pending, missed>>

MarkSourceIncompatible(c) ==
  LET src == <<generation, c>>
  IN  /\ Transaction /\ Enabled
      /\ Connected(src)
      /\ schema' = [schema EXCEPT ![src] = "incompatible"]
      /\ knownGap' = TRUE
      /\ coverage' = Raised(coverage, Known, KNOWN_GAP)
      /\ Bump(Known)
      /\ UNCHANGED <<registryVars, conn, eventVars, lifecycle, bindings,
                     pending, missed>>

\* Mutant: an expected disconnect spares work in progress too.
DisconnectTargetsLenient(ended, expected) ==
  IF expected THEN {} ELSE DispatchesOf(ended) \cup Nonterminal

\* The dispatches a disconnect gaps: an expected one spares terminal work.
DisconnectTargets(ended, expected) ==
  IF expected THEN DispatchesOf(ended) \cap Nonterminal
  ELSE DispatchesOf(ended) \cup Nonterminal

MarkSourceDisconnected(src, expected) ==
  LET ended == {b \in Active : bindings[b].source = src}
      targets == DisconnectTargets(ended, expected)
  IN  /\ Transaction
      /\ Connected(src)
      /\ conn' = [conn EXCEPT ![src] = "disconnected"]
      /\ EndBindings(ended, "closed")
      /\ knownGap' = (knownGap \/ targets # {})
      /\ coverage' = Raised(coverage, targets, KNOWN_GAP)
      /\ Bump(targets)
      /\ UNCHANGED <<registryVars, schema, eventVars, lifecycle, pending,
                     missed>>

----------------------------------------------------------------------------
(* The writer process: it may stop anywhere, and recovers when it opens.    *)

Stop ==
  /\ writer = "open"
  /\ writer' = "closed"
  /\ UNCHANGED <<regState, generation, key, recovery, blocked, sourceVars,
                 eventVars, knownGap, lifecycle, coverage, bindings, pending,
                 publication, missed>>

\* _open_writer: recover_incomplete_connections, then _recover_missing_keys.
\* Both need a transaction, so a ledger whose capacity is blocked never opens.
OpenWriter ==
  LET left == {src \in Sources : Connected(src)}
      ended == {b \in Active : bindings[b].source \in left}
      targets == IF left = {} THEN {} ELSE DisconnectTargets(ended, FALSE)
      keyLost == regState # "absent" /\ ~key
  IN  /\ writer = "closed"
      /\ ~blocked
      /\ writer' = "open"
      /\ conn' = [src \in Sources |->
                    IF src \in left THEN "disconnected" ELSE conn[src]]
      /\ EndBindings(ended, "closed")
      /\ knownGap' = (knownGap \/ left # {} \/ keyLost)
      /\ recovery' = (recovery \/ keyLost)
      /\ coverage' = Raised(coverage, targets, KNOWN_GAP)
      /\ Bump(targets)
      /\ UNCHANGED <<regState, generation, key, blocked, schema, eventVars,
                     lifecycle, pending, missed>>

\* Mutant: only work in progress is gapped.
PersistCapacityBlockedNonterminal ==
  /\ ~blocked
  /\ regState # "absent"
  /\ blocked' = TRUE
  /\ knownGap' = TRUE
  /\ coverage' = Raised(coverage, Nonterminal, KNOWN_GAP)
  /\ Bump(Nonterminal)
  /\ UNCHANGED <<writer, regState, generation, key, recovery, sourceVars,
                 eventVars, lifecycle, bindings, pending, missed>>

\* _persist_capacity_blocked, when a transaction finds the protected state or
\* the page count at its limit: also that of an open, which then fails.  Nothing
\* ever clears the marker.
PersistCapacityBlocked ==
  /\ ~blocked
  /\ regState # "absent"
  /\ blocked' = TRUE
  /\ knownGap' = TRUE
  /\ coverage' = Raised(coverage, Known, KNOWN_GAP)
  /\ Bump(Known)
  /\ UNCHANGED <<writer, regState, generation, key, recovery, sourceVars,
                 eventVars, lifecycle, bindings, pending, missed>>

----------------------------------------------------------------------------
(* Supervisor records: submissions, lifecycle receipts and bindings.         *)

RecordSubmission(d) ==
  /\ Transaction /\ Enabled
  /\ d \notin Known
  /\ lifecycle' = [lifecycle EXCEPT ![d] = "submitted"]
  /\ UNCHANGED <<registryVars, sourceVars, eventVars, knownGap, coverage,
                 bindings, pending, publication, missed>>

\* validate_lifecycle_transition: no step back, and a terminal state is final.
Allowed(from, to) ==
  \/ from = "submitted"
  \/ from = "acknowledged" /\ to # "submitted"
  \/ from = "running" /\ to \notin {"submitted", "acknowledged"}
  \/ from = to

\* A receipt not seen before.  clockGap: its clock epoch is not the dispatch's,
\* so the lifecycle advances without a duration and the gap is recorded.
RecordLifecycle(d, state, clockGap) ==
  /\ Transaction
  /\ d \in Known
  /\ Allowed(lifecycle[d], state)
  /\ lifecycle' = [lifecycle EXCEPT ![d] = state]
  /\ coverage' = Raised(coverage, IF clockGap THEN {d} ELSE {}, KNOWN_GAP)
  /\ knownGap' = (knownGap \/ clockGap)
  /\ Bump({d})
  /\ UNCHANGED <<registryVars, sourceVars, eventVars, bindings, pending,
                 missed>>

\* The rows _apply_bound_projection inserts when it accepts the pending rows in
\* A for dispatch d: deduplication, completions, one activity count for others.
Accept(A, d) ==
  LET cycles == {r \in A : r.event.kind = "completion"}
  IN  /\ dedup' = dedup \cup
           {[kind |-> r.event.kind, event |-> r.event.event, dispatch |-> d,
             payload |-> r] : r \in A}
      /\ completions' = completions \cup
           {[stream |-> r.event.stream, event |-> r.event.event,
             dispatch |-> d, body |-> r.event.body] : r \in cycles}
      /\ activity' = [activity EXCEPT ![d] = @ + Cardinality(A \ cycles)]

\* A row whose identity was applied for another dispatch or with other content.
Conflicts(r, d) ==
  \E q \in Prior(r.event) : q.dispatch # d \/ q.payload # r

\* Mutant: the binding ignores the gaps already known.
FirstCoverageOptimistic == OBSERVED

\* What binding to a compatible source claims, given the project's known gaps.
FirstCoverage == IF knownGap THEN KNOWN_GAP ELSE OBSERVED

\* No binding, ended ones included, has the stream in the current generation:
\* UNIQUE(project_id, generation, thread_fingerprint, turn_fingerprint).
Unowned(s) ==
  \A o \in Bound : ~(bindings[o].source[1] = generation /\ bindings[o].stream = s)

MakeAvailable(d, compatible) ==
  available' = [available EXCEPT ![d] = @ \/ compatible]

\* bind_runtime: own the stream, promote coverage if the source is compatible,
\* and drain every pending projection of the stream in the same transaction.
BindRuntime(b, c, d, s) ==
  LET src == <<generation, c>>
      compatible == schema[src] = "compatible"
      matched == Matched(src, s)
      fresh == {r \in matched : Prior(r.event) = {}}
      conflicting == {r \in matched : Conflicts(r, d)}
      promoted == Raised(coverage, IF compatible THEN {d} ELSE {}, FirstCoverage)
  IN  /\ Transaction /\ Enabled /\ Ready
      /\ d \in Known
      /\ Connected(src)
      /\ b \notin Bound
      /\ Unowned(s)
      /\ bindings' = [bindings EXCEPT ![b] =
                        [source |-> src, stream |-> s, dispatch |-> d,
                         state |-> "active"]]
      /\ MakeAvailable(d, compatible)
      /\ Accept(IF compatible THEN fresh ELSE {}, d)
      /\ coverage' = Raised(promoted, IF conflicting # {} THEN {d} ELSE {},
                            CONFLICT)
      /\ pending' = pending \ matched
      /\ missed' = missed \cup
           (IF compatible \/ fresh = {} THEN {} ELSE {<<src, s>>})
      /\ Bump({d})
      /\ UNCHANGED <<registryVars, sourceVars, knownGap, lifecycle>>

----------------------------------------------------------------------------
(* Projections of the owned stream.                                          *)

\* Mutant: an expiry gaps the project but none of its dispatches.
ExpiryTargetsNone(overdue) == {}

\* _expire_pending inside a handler: the rows in overdue are deleted as lost.
\* The dispatches it gaps are then raised and bumped with the handler's own.
ExpiryTargets(overdue) == IF overdue = {} THEN {} ELSE Nonterminal
Dropped(rows) == {<<r.source, r.event.stream>> : r \in rows}

ExpirePending(overdue) ==
  /\ Transaction /\ Enabled
  /\ overdue # {}
  /\ pending' = pending \ overdue
  /\ missed' = missed \cup Dropped(overdue)
  /\ knownGap' = TRUE
  /\ coverage' = Raised(coverage, Nonterminal, KNOWN_GAP)
  /\ Bump(Nonterminal)
  /\ UNCHANGED <<registryVars, sourceVars, eventVars, lifecycle, bindings>>

\* The common part of ingest_projection for a payload it does not refuse.
Ingesting(src) == Transaction /\ Enabled /\ Ready /\ src[1] <= generation

\* The generation is not current, or the connection is unknown or gone.
IngestRejected(src, overdue) ==
  /\ Ingesting(src)
  /\ src[1] # generation \/ ~Connected(src)
  /\ overdue # {}
  /\ ExpirePending(overdue)

\* _apply_bound_projection under the binding b that owns the stream.
IngestBound(p, src, b, overdue) ==
  LET r == [source |-> src, event |-> p]
      d == bindings[b].dispatch
      gapped == ExpiryTargets(overdue)
      accepted == Prior(p) = {} /\ schema[src] = "compatible"
      rejected == Prior(p) = {} /\ ~accepted
      conflict == IF Conflicts(r, d) THEN {d} ELSE {}
  IN  /\ Ingesting(src)
      /\ src[1] = generation
      /\ Connected(src)
      /\ b \in Owners(src, p.stream)
      /\ accepted /\ p.kind # "completion" => available[d]
      /\ Accept(IF accepted THEN {r} ELSE {}, d)
      /\ pending' = pending \ overdue
      /\ missed' = missed \cup Dropped(overdue)
                          \cup (IF rejected THEN {<<src, p.stream>>} ELSE {})
      /\ knownGap' = (knownGap \/ overdue # {})
      /\ coverage' = Raised(Raised(coverage, gapped, KNOWN_GAP), conflict, CONFLICT)
      /\ Bump(gapped \cup conflict \cup (IF accepted THEN {d} ELSE {}))
      /\ UNCHANGED <<registryVars, sourceVars, available, lifecycle, bindings>>

\* _store_pending: keep the row unless its identity is already pending, or the
\* table is full, in which case the projection is lost with a gap.
IngestPending(p, src, overdue) ==
  LET left == pending \ overdue
      known == \E r \in left : r.event.kind = p.kind /\ r.event.event = p.event
      overflow == ~known /\ Cardinality(left) >= MaxPending
      row == [source |-> src, event |-> p]
      gapped == ExpiryTargets(overdue) \cup (IF overflow THEN Nonterminal ELSE {})
  IN  /\ Ingesting(src)
      /\ Connected(src)
      /\ src[1] = generation
      /\ Owners(src, p.stream) = {}
      /\ pending' = IF known \/ overflow THEN left ELSE left \cup {row}
      /\ missed' = missed \cup Dropped(overdue)
                          \cup (IF overflow THEN Dropped({row}) ELSE {})
      /\ knownGap' = (knownGap \/ overdue # {} \/ overflow)
      /\ coverage' = Raised(coverage, gapped, KNOWN_GAP)
      /\ Bump(gapped)
      /\ UNCHANGED <<registryVars, sourceVars, eventVars, lifecycle, bindings>>

----------------------------------------------------------------------------
(* Gaps other components report, and publication.                            *)

\* Mutant: the gap of a terminal dispatch starts no new revision.
MarkGapSilently(targets) ==
  /\ Transaction /\ Enabled
  /\ targets \subseteq Known
  /\ knownGap' = TRUE
  /\ coverage' = Raised(coverage, targets, KNOWN_GAP)
  /\ Bump(targets \cap Nonterminal)
  /\ UNCHANGED <<registryVars, sourceVars, eventVars, lifecycle, bindings,
                 pending, missed>>

\* mark_gap with a list of dispatches; without one, the nonterminal ones.
MarkGap(targets) ==
  /\ Transaction /\ Enabled
  /\ targets \subseteq Known
  /\ knownGap' = TRUE
  /\ coverage' = Raised(coverage, targets, KNOWN_GAP)
  /\ Bump(targets)
  /\ UNCHANGED <<registryVars, sourceVars, eventVars, lifecycle, bindings,
                 pending, missed>>

\* record_health_event with a gap: work in progress, and terminal work whose
\* binding is still active.
RecordHealthGap == MarkGap(Nonterminal \cup DispatchesOf(Active))

\* set_queue_depth with overflowed: the project learns of the gap, no dispatch.
SetQueueOverflow ==
  /\ Transaction
  /\ regState # "absent"
  /\ knownGap' = TRUE
  /\ UNCHANGED <<registryVars, sourceVars, eventVars, lifecycle, coverage,
                 bindings, pending, publication, missed>>

\* The confirmer renders terminal dispatch d from a snapshot: build_samples.
RenderManifest(d) ==
  /\ writer = "open" /\ Enabled
  /\ d \in Known \ Nonterminal
  /\ publication[d] = NoManifest
  /\ publication' = [publication EXCEPT ![d] = [view |-> View(d), step |-> "read"]]
  /\ UNCHANGED <<registryVars, sourceVars, eventVars, knownGap, lifecycle,
                 coverage, bindings, pending, missed>>

\* Staging and confirming name the revision of that snapshot; an increment since
\* then (Bump) makes both fail with publication-revision-stale.
StagePublicationManifest(d) ==
  /\ Transaction
  /\ publication[d] # NoManifest /\ publication[d].step = "read"
  /\ d \notin Nonterminal
  /\ publication' = [publication EXCEPT ![d].step = "staged"]
  /\ UNCHANGED <<registryVars, sourceVars, eventVars, knownGap, lifecycle,
                 coverage, bindings, pending, missed>>

ConfirmPublication(d) ==
  /\ Transaction
  /\ publication[d] # NoManifest /\ publication[d].step = "staged"
  /\ publication' = [publication EXCEPT ![d].step = "confirmed"]
  /\ UNCHANGED <<registryVars, sourceVars, eventVars, knownGap, lifecycle,
                 coverage, bindings, pending, missed>>

----------------------------------------------------------------------------
Init ==
  /\ writer = "open"
  /\ regState = "absent"
  /\ generation = 0
  /\ key = FALSE
  /\ recovery = FALSE
  /\ knownGap = FALSE
  /\ blocked = FALSE
  /\ conn = [src \in Sources |-> "absent"]
  /\ schema = [src \in Sources |-> "compatible"]
  /\ lifecycle = [d \in Dispatches |-> "none"]
  /\ coverage = [d \in Dispatches |-> UNKNOWN]
  /\ bindings = [b \in BindingIds |-> NoBinding]
  /\ pending = {}
  /\ dedup = {}
  /\ completions = {}
  /\ activity = [d \in Dispatches |-> 0]
  /\ available = [d \in Dispatches |-> FALSE]
  /\ publication = [d \in Dispatches |-> NoManifest]
  /\ missed = {}

Registry ==
  \/ \E g \in Generations, state \in {"enabled", "revoked"} : RegisterProject(g, state)
  \/ KeyFile
  \/ MarkKeyUnavailable
  \/ SourceFingerprinter
  \/ Stop
  \/ OpenWriter
  \/ PersistCapacityBlocked

Source ==
  \/ \E c \in Conns : RegisterConnection(c) \/ MarkSourceIncompatible(c)
  \/ \E src \in Sources, expected \in BOOLEAN : MarkSourceDisconnected(src, expected)
  \/ \E src \in Sources, overdue \in SUBSET pending :
       \/ IngestRejected(src, overdue)
       \/ \E p \in Projections : IngestPending(p, src, overdue)
       \/ \E p \in Projections, b \in BindingIds : IngestBound(p, src, b, overdue)
  \/ \E overdue \in SUBSET pending : ExpirePending(overdue)
  \/ SetQueueOverflow
  \/ RecordHealthGap

Supervisor ==
  \/ \E d \in Dispatches : RecordSubmission(d)
  \/ \E d \in Dispatches, clockGap \in BOOLEAN,
        state \in Reported : RecordLifecycle(d, state, clockGap)
  \/ \E b \in BindingIds, c \in Conns, d \in Dispatches, s \in Streams :
       BindRuntime(b, c, d, s)
  \/ \E targets \in SUBSET Dispatches : MarkGap(targets)

Publisher ==
  \E d \in Dispatches :
    RenderManifest(d) \/ StagePublicationManifest(d) \/ ConfirmPublication(d)

Next == Registry \/ Source \/ Supervisor \/ Publisher

Spec == Init /\ [][Next]_vars

----------------------------------------------------------------------------
(* Properties.                                                               *)

\* The type invariant.
TypeOK ==
  /\ writer \in {"open", "closed"}
  /\ regState \in {"absent", "enabled", "revoked"}
  /\ generation \in IF regState = "absent" THEN {0} ELSE Generations
  /\ key \in BOOLEAN /\ recovery \in BOOLEAN
  /\ knownGap \in BOOLEAN /\ blocked \in BOOLEAN
  /\ conn \in [Sources -> {"absent", "connected", "disconnected"}]
  /\ schema \in [Sources -> {"compatible", "incompatible"}]
  /\ lifecycle \in [Dispatches -> LifecycleStates \cup {"none"}]
  /\ coverage \in [Dispatches -> UNKNOWN .. CONFLICT]
  /\ bindings \in [BindingIds -> BindingRow \cup {NoBinding}]
  /\ pending \subseteq PendingRow /\ IsFiniteSet(pending)
  /\ dedup \subseteq DedupRow
  /\ completions \subseteq CompletionRow
  /\ activity \in [Dispatches -> Nat]
  /\ available \in [Dispatches -> BOOLEAN]
  /\ publication \in [Dispatches -> ExportRow \cup {NoManifest}]
  /\ missed \subseteq Sources \X Streams

\* A projection waits only while no binding owns its stream: ingest_projection
\* keeps it pending only then, and bind_runtime drains in the transaction that
\* creates the binding, so none is stranded until its deadline beside its owner.
PendingUnclaimed ==
  \A r \in pending, b \in Bound :
    ~(bindings[b].source = r.source /\ bindings[b].stream = r.event.stream)

\* Coverage is honest: a dispatch bound to a stream of which a projection was
\* dropped (expired, refused by a full table, or rejected for its schema) never
\* says OBSERVED_NO_KNOWN_GAP, whichever of the binding and the loss came first.
HonestCoverage ==
  \A b \in Bound :
    <<bindings[b].source, bindings[b].stream>> \in missed
      => coverage[bindings[b].dispatch] # OBSERVED

\* While a dispatch is in progress, exact coverage means that a live source still
\* feeds it: an active binding of it on a connected and compatible source of the
\* current generation.  A crash leaves this true, and opening restores it.
ExactCoverageHasLiveSource ==
  \A d \in Nonterminal :
    coverage[d] = OBSERVED =>
      \E b \in Active :
        /\ bindings[b].dispatch = d
        /\ bindings[b].source[1] = generation
        /\ Connected(bindings[b].source)
        /\ schema[bindings[b].source] = "compatible"

\* A binding is active exactly as long as its source feeds it: an active one is on
\* a connected source of the current generation, an ended one on a source that is
\* gone for good.  So the connection a handler finds decides the binding's state,
\* and no projection of a connected source is left pending beside an ended owner.
BindingsLive ==
  \A b \in Bound :
    /\ bindings[b].dispatch \in Known
    /\ IF b \in Active
       THEN bindings[b].source[1] = generation /\ Connected(bindings[b].source)
       ELSE conn[bindings[b].source] = "disconnected"

\* A loss outlives the dispatches it hits: after a dropped projection the project
\* knows of a gap, and after an incompatible source no dispatch, of those that
\* exist or of those still to come, claims exact coverage.
GapsRemembered ==
  /\ missed # {} => knownGap
  /\ (\E src \in Sources : schema[src] = "incompatible") =>
       knownGap /\ \A d \in Dispatches : coverage[d] # OBSERVED
  /\ \A d \in Dispatches \ Known : coverage[d] = UNKNOWN

\* A stream of a generation has one owner, and an applied projection was sent on
\* a stream that was bound to the dispatch it was counted for.
Attribution ==
  /\ \A b, c \in Bound :
       /\ bindings[b].source[1] = bindings[c].source[1]
       /\ bindings[b].stream = bindings[c].stream
       => b = c
  /\ \A q \in dedup : \E b \in Bound :
       /\ bindings[b].source = q.payload.source
       /\ bindings[b].stream = q.payload.event.stream
       /\ bindings[b].dispatch = q.dispatch

\* Every projection identity is counted at most once over all dispatches, and the
\* exported counts are exactly the applied identities: one completion row for
\* each applied completion, one activity count for each other projection.
CountsExact ==
  /\ \A q, r \in dedup : q.kind = r.kind /\ q.event = r.event => q = r
  /\ completions = {[stream |-> q.payload.event.stream, event |-> q.event,
                     dispatch |-> q.dispatch, body |-> q.payload.event.body] :
                      q \in {r \in dedup : r.kind = "completion"}}
  /\ \A d \in Dispatches :
       activity[d] = Cardinality({q \in dedup : q.dispatch = d /\ q.kind # "completion"})

\* An event that ingest_projection would count is never refused with
\* observability-activity-unavailable, which would roll back its expiries too.
ActivityAvailable ==
  \A b \in Active :
    schema[bindings[b].source] = "compatible" => available[bindings[b].dispatch]

\* What the source sends is counted once, for the dispatch whose turn it is, and
\* never refused: replays, contradictions, and one turn seen on two connections
\* are told apart by the identities the ledger keeps.
Accounting == Attribution /\ CountsExact /\ ActivityAvailable

\* An export that staging or confirmation would still accept describes the
\* dispatch as it is, and the dispatch is terminal: every change of an exported
\* field starts a new revision, at whatever point of the publication it falls.
PublishedIsCurrent ==
  \A d \in Dispatches :
    publication[d] # NoManifest =>
      publication[d].view = View(d) /\ d \in Known \ Nonterminal

\* Once admission is blocked, every dispatch shows a gap: nothing submitted or
\* bound before the marker keeps claiming exact coverage.
BlockedIsVisible ==
  blocked => \A d \in Known : coverage[d] >= KNOWN_GAP

\* A pending projection is never lost silently: it leaves the table by being
\* counted or found a duplicate or conflict, or else the project knows of a gap
\* and no dispatch in progress claims exact coverage.
LossIsReported ==
  [][\A r \in pending \ pending' :
       \/ \E q \in dedup' : q.kind = r.event.kind /\ q.event = r.event.event
       \/ /\ knownGap'
          /\ \A d \in Nonterminal : coverage'[d] # OBSERVED]_vars

=============================================================================
