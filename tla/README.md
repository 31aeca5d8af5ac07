# Traceonaut in TLA+

Traceonaut observes Codex dispatches: a controller submits work to an app
server, the notifications of that server are projected into a private SQLite
ledger, and what the ledger knows is exported as Prometheus metrics and as
terminal records. Beside this stand collectors that read session files and
databases of other programs. The promise that matters is *honest coverage*: a
dispatch that says `OBSERVED_NO_KNOWN_GAP` must really have been seen completely,
and a published export must describe the dispatch as it is.

These modules model the source under `scripts/`, handler by handler; TLC checks
them on small instances. For every value of the constants TLAPS proves the theorems of
`LedgerProofs`, `LedgerRefinementProofs`, `AdapterProofs`, `HostProofs`,
`RunnerProofs`, `TerminalProofs`, `BobCollectorProofs` and `BobJournalProofs`.

## The system

| Component | State | Operations | Hard behaviour |
| --- | --- | --- | --- |
| Dispatch ledger (`observability_ledger.py`) | SQLite tables: registrations, connections, dispatches, bindings, pending_events, event_dedup, completions, activity, health, publication_manifests; key files; a writer lock | registration, connections, submissions, receipts, bindings, projections, gaps, staging and confirming publications | callers on several threads, crash and recovery, replays, expiry, capacity, stale revisions |
| Contract (`observability_contract.py`) | none | validation, lifecycle order, token aggregation | boundary values |
| Adapter (`observability_adapter.py`) | bounded queue, loss counters, pending disconnect | `try_submit`, `drain_once`, `request_source_disconnected`, `close` | reader, worker and closing thread; full queue; failing ledger; close timeout |
| Runtime observer (`observability_runtime.py`) | queue of submissions, receipts and bindings, losses | `_submit`, `drain_once`, `close` | losses that leave a dispatch half recorded, restart of the thread in `close` |
| Host (`observability_host.py`) | the objects above, close thread | open, bounded and retriable `close`, shutdown gap | partial failure of open and close |
| Exporter (`observability_exporter.py`) | rendered samples, confirmation cursor | refresh, stage, read Prometheus, confirm | snapshot, scrape and confirmation are far apart in time |
| Terminal export (`observability_terminal_export.py`) | record files and a cursor | upsert, advance cursor | crash between files, regressed source |
| Observed runner (`run_observed_codex.py`) | JSON-RPC requests, job states, receipt chain | submit, notifications, interrupt, close | timeouts and late answers, terminal event before its turn id |
| Codex session collector (`codex_session_telemetry.py`) | SQLite with file offsets | inventory, scan, backfill | partial lines, replaced files, budgets and starvation |
| Bob collectors (`bob_session_telemetry.py`, `bob_otel_journal.py`) | generation scan, journal offsets, dedup window | scan, reconcile, rotate | source changes during a scan, rotation, replay |
| CWO telemetry (`cwo_*.py`) | incremental readers | scan, backfill | rotated and truncated inputs |
| Account allowance (`codex_account_telemetry.py`) | last snapshot | poll, export while fresh | staleness |

They interact as follows. The runner's stdout thread calls the adapter's
`try_submit` and the job handlers; the runner's main thread calls the runtime
observer. The adapter's worker and the observer's worker call the ledger, each
call one transaction. The exporter reads snapshots of the ledger and writes back
publication rows. The host owns all of these and closes them in order. The
collectors share nothing with the ledger.

What makes each part correct:

- *ledger*: coverage is honest whatever is lost and in whatever order; a binding
  lives exactly as long as its source; every projection is counted once, for the
  dispatch that owns its stream; an export that can still be confirmed is current;
- *adapter*: a planned disconnect overtakes nothing, every loss reaches the
  ledger, closing ends;
- *observer, host*: a record that does not reach the ledger becomes a gap of the
  dispatches it may concern, once; a close that reports success left nothing behind;
- *exporter, terminal export*: what is published is of one revision, a crash
  between two writes is repaired by repeating;
- *runner*: each job ends in exactly one terminal receipt, the receipt chain has
  no holes, a late answer is not taken for another request's;
- *collectors*: every input record is counted exactly once over crashes,
  rotations and replacements, only complete scans are published, no source is starved.

`PROJECT.json` lists the hazards line by line, with the property that covers each
or the reason none does yet.

## Modules

### Ledger

One project of `ObservabilityLedger`. Every public writer method runs in one
`BEGIN IMMEDIATE` transaction under one lock (`_transaction`), so each is one
action, and the calling threads are the interleaving of actions. The process may
stop between two transactions (`Stop`); `OpenWriter` is the recovery that opening
runs, which disconnects what was left connected.

| Variables | Code |
| --- | --- |
| `regState`, `generation`, `key`, `recovery` | table registrations, key file, `health.ledger_state` |
| `blocked` | `metadata.capacity_blocked` |
| `conn`, `schema` | table connections |
| `lifecycle`, `coverage` | `dispatches.record_json` |
| `bindings`, `pending`, `dedup`, `completions`, `activity`, `available` | the tables of those names |
| `knownGap` | `health.known_gaps_json` is not empty |
| `publication` | the snapshot or manifest row of a dispatch's *current* revision |
| `missed` | history: streams of projections that were dropped |

A dispatch revision is not a counter here. The only question the code asks of it
is whether a snapshot or manifest names the current one; so `_bump_dispatch` sets
`publication` to `NoManifest`, and rendering, staging and confirming move it on.
That keeps the state space finite without a bound.

`View(d)` is what `dispatch_samples` reads of a dispatch. The current-activity
gauge also depends on other dispatches and is not part of it.

### SourceLedger and LedgerRefinement

`SourceLedger` is the abstract specification: what the ledger promises about one
source and one dispatch, in five variables (the connection, the binding, terminal
or not, exact coverage claimed or not, a gap known or not). Its point is when the
claim of exact coverage must be dropped and when it may be made. `LedgerRefinement`
instantiates it with a mapping from the ledger's tables. The run
`ledger_restart` checks that Ledger implements it, `LedgerRefinementProofs` proves it
for any watched source and dispatch among any others.

### AdapterChannel

`AppServerCompletionAdapter` between the app server and what `SourceLedger`
promises. There are three actors: the reader (`TrySubmit`, `Enqueue`,
`RejectMalformed`, `RequestSourceDisconnected`), the worker and the thread that
closes. The last two share `drain_once`, `_flush_health` and
`_attempt_pending_disconnect`, so these are actions with the thread as parameter,
over a record of program counter and local variables. A step is what is done
under one lock; between the steps any thread may run. Ledger calls may raise.
`Observer` binds the turn and finishes the dispatch at any moment.

The record `owner`, chosen at the start, says how the adapter is closed: only after
a requested disconnect or perhaps without one (`unasked`), with or without
`mark_disconnected` (`marks`), and whether `close` may run out of time (`impatient`).
The owner `Host` of the runs is the one the scripts have: the host closes with
`mark_disconnected=True` after its observer has requested the disconnect, or without
that, as when its start is cleaned up (`observability_host.py:349-354`, `:440`).

Two things that such a close can do let the disconnect get ahead of records, both of
them reported below as findings: it stores its request where a worker that has
already found the queue empty reads it (`Overtakes`), and it goes on without a worker
that has not ended in time (`Join`). The history variable `hasty` notes both, and a
deadline that passes later (`OutOfTime`). `Orderly` says that neither of the two has
happened; `ExactMeansIngested`, `DisconnectComesLast` and `NoSilentLoss` are claimed
of every other close, and the runs `adapter_order` and `adapter_timeout` show what
becomes of them otherwise. A close whose deadline has passed tries the ledger once
more at most; that the host tries again belongs to ObservabilityHost, so the liveness
properties excuse a close that `TriedOnce` and failed.

### TerminalExport

`export_terminal_observations` and `TerminalObservationSink`: an exporter is one
run of the command, which locks the sink (`Lock`), reads one revision of the
ledger (`ReadSource`), compares it with the cursor (`CheckCursor`), writes a record
per finished dispatch (`Upsert`) and last the cursor (`AdvanceCursor`). Two runs may
be started at once, and each may die between any two steps (`Fail`). The ledger
commits beside them.

| Variables | Code |
| --- | --- |
| `revision`, `rows`, `connections`, `healthy` | `metadata.snapshot_revision`, table dispatches with its revisions, the size of table connections, `_health_snapshot_clean` |
| `sink`, `cursor`, `lock` | the files `observations/*.json`, `cursor.json`, `export.lock` |
| `exporter` | program counter and locals of a run |
| `cleanSeen`, `refused` | history: what was clean in some commit; a run raised |

Of the ledger only what a projection is made of is kept, and every transaction is
one of four: a submission, a connection, one that changes what dispatches account
for (`_bump_dispatch`), and one that changes only the project's health or who is
eligible. Which dispatches a transaction touches, and how, is left open, so this
module does not rest on Ledger. What it does rest on is that each transaction
increases `snapshot_revision`; the mutant of `NeverRefused` drops that.

`CleanIsHonest` says what a clean record means and no more: a capture made while
the project was isolated is retained, and does not see health that turned bad
between that export and the moment the project was shared.

### ObservabilityHost

The host that `open_observability_host` puts together, over the same `SourceLedger`:
the controller's hooks, the queue and thread of `OwnedRuntimeObserver`, and the
closing. AdapterChannel is not instantiated here: of the adapter only what the host
can see is kept, namely its thread, the disconnect it still has to make and the
debts in its counters.

| Variables | Code |
| --- | --- |
| `main`, `closer` | the part `open_observability_host` has reached; the thread of `_close_worker` or `_cleanup_partial_host` |
| `dispatch`, `reader` | the last hook called; the reader between the two halves of `_submit` |
| `queue`, `stop`, `losses`, `recorded`, `drain` | `OwnedRuntimeObserver` and whoever runs its `drain_once` |
| `adapter`, `sealed`, `wish`, `debts` | thread, `_closed`, pending disconnect and counters of the adapter |
| `service`, `ledger`, `served`, `gapTold`, `closed` | exporter threads, the open ledger, and the flags that let `close` be called again |
| `missed` | history: a record of the dispatch was lost |

A close is a sequence of steps (stop the service, join it, stop and join the
observer, drain it, close the adapter, attempt the disconnect, record the shutdown
gap, close the ledger); any join may time out, any ledger call may fail, and the
controller may call `close` again from where the last call gave up.

### Runner

One call of `run_observed_jobs` with one job or two: the main thread (`main`, a
program counter with the job it is at, the kind of request it waits for and
whether it is inside the exception handler), the thread of `_read_stdout`
(`reader`), and the app server as a process that answers late, wrongly, twice or
never and may exit. `Request`, `Await` and `Read` meet in `pending`, `fatal` and
`event` as the two threads do under the client's lock. `Write` is
`ReceiptWriter.write`: it may fail before the receipt is linked or after, in which
case a stray receipt stays on disk while its number is taken to be free. `chain` is
the list of stages written for a job.

### BobJournal

`JournalReader` over the directory to which Bob's exporter writes. A scan is one
SQLite transaction: `tx` is what it sees, `db` what is committed. `Begin` renews the
inventory, `Open`, `Read` and `Close` go through a file record by record, `Postpone`
leaves it to the next scan, `Finish` joins the pending rows (`_Resolve`), raises the
floor (`_SourceWindow`) and commits. The exporter appends, halves a line, rotates
and removes files between any two of these; `Fail` and `Abort` roll back;
`LoseTables` is the loss of the capture tables beside their marker.

The code's tables are the fields of `db`: `files`, `inv` (inventory), `refs`,
`dedup`, `rows` (events), `floor`, `replay`, `losses`, `cursor`, `next`. `counted`
stands for the totals, as the number of times each event was added to them.

Assumed of the exporter: it rotates to a new inode or rewrites the active file, and
a file that is written anew does not begin with a record it began with before
(`before` is the set of those; the reader recognises a rewritten file by its first record or by its
size). The reader goes by inodes, so the names of files are left out; that a listed name leads to
another file by the time it is opened is not modelled, that it leads to none is
(`Fail`). `Order` is the code's list of files, rotated to the saved cursor, as a number
per file; files of one modification time come in any order. The retention clock is a choice at
the start of a scan; the second retention test, in `_resolve`, can then never be
true and is left out. Sums of tokens and the byte limit of the index are not
modelled, the limit on rows is.

`CountedOnce` excludes events in `forgotten`: of those no row and no file of the
inventory held a trace (`Held`) at some time, and the reader then counts a copy again, as
its comment "Retain only signatures still backed by a body or a retained source"
says it does. While a scan goes on, the files that count are those it listed (`Listed`). `LinesFit` says whether the byte budget of a scan always holds the
first line of a file. Where it does not, the reader may open a file without looking
at that line, and the floor and the totals are no longer right (see Findings, `journal_floor`).
`LateHeads` says whether a file that is empty when it is opened may get its first line
before the reader is done with it; where it may, the same goes wrong (see the end of Findings).
`CountedOnce` and `FloorBelowRetained` are claimed, and proved, where first lines fit and are
not late; `LossTold` is proved without either.

### BobCollector

`BobCollector` over a database that Bob commits to. `commits` is the history of that
database, `snap` the commit that the read transaction of the generation sees, and
`data_version` is the number of a commit. A generation goes through the tasks, the
identities of known messages and the unread messages in slices (`stage`, `work`),
into the private `index`; `memory` is what the process keeps between generations,
`saved` what it restarts from. `Bob` commits between any two rows. Inside a read
transaction the collector sees one commit, which is SQLite's snapshot isolation and
is assumed, as is that an identity stands in one row, being the primary key of the
messages.

### SessionCollector

`SessionCollector` of the Codex rollouts: `List`, `Visit` and `SyncEnds` are
`sync_inventory`, `Open` and `Read` are one file of `scan` or of a feature's backfill,
each one transaction, `NextStage` goes from the main reader to the features and
marks them done. `db` is what the connection sees, `saved` what is committed; a
failed inventory leaves its transaction open, and the model keeps that. `Rollouts`
creates, extends, moves, links, replaces and removes files between any two steps.

Assumed: an inode is not used again, files only grow and begin with one header.
Files are visited in any order and the budgets run out after any file or line, which
contains every order and budget of the code. The backfill of compactions is the
same code with another feature name; the instance has the stage of commands alone.
Excepted from the property are files in `merged`, of which a cursor was lost (see the
end of Findings). Not part of it, since the code does not claim it: the unread rest of a
removed rollout is missing from the usage totals without a sign, and a rollout
rewritten in place to at least its old length is not noticed.

## Runs

| Run | Question | Bounds |
| --- | --- | --- |
| `ledger_restart` | do coverage, bindings, gaps and exports stay honest over crashes, recovery, new generations and capacity, is every loss reported, and does the ledger implement `SourceLedger`? | 2 dispatches, 1 connection id in 2 generations, 1 stream, 2 bindings, one completion and one retry notice, 1 pending row; no symmetry, since one dispatch is watched |
| `ledger_small` | is each projection counted once, for the dispatch its stream was bound to, and never stranded; what do lost keys and the capacity marker do to coverage and exports? | the union of three small instances, see below |
| `adapter` | does a disconnect overtake or lose anything, is every counted loss told, does a requested disconnect take effect and the worker stop? | 2 messages, queue of 2, one failing call, the owner `Host`; fairness |
| `terminal_export` | what does the cursor stand for, is a run ever refused, what does a clean record mean, can an interrupted export be retried? | 2 dispatches, 2 exporters, 5 commits after the registration, 1 run dies; fairness, so no symmetry |
| `host` | does every lost record show, is the ledger closed last, did a close that reports success leave nothing behind, does a close come to an end? | 1 dispatch, queue of 2, drains of 1 record, 1 failure; fairness |
| `runner` | does each job end once and each run with an outcome, is a status honest, is an answer its own, is every running turn asked to stop? | 1 job with 2 mishaps or 2 jobs with 1; fairness |
| `journal` | is each event counted once, is every loss told, does the floor stay below what files hold, do pending joins resolve? | 2 files, 3 events of 2 identities, scans of 1 record, 2 stored rows, 2 writes, 1 failed scan or lost table, first lines that fit and are not late; fairness |
| `bob` | is what is published one commit of Bob's, is nothing missed, are edits found? | 2 rows, 2 identities, 3 commits, 1 failed scan or restart; fairness |
| `codex` | when a feature is called ready or usage settled, was everything observed? | 3 paths, 3 files of 2 sessions, budgets of 1 line and of all, 2 changes, 1 failure or restart; only one of these three once the third path is used (`Small`) |
| `adapter_order`, `adapter_timeout`, `journal_floor` | *expected violations*, see Findings | 1 message, queue of 2; 2 files with 3 events, scans of 2 records, 2 writes, first lines that may not fit |

`ledger_small` explores one larger instance as far as its states lie in one of
three parts (the constraint `Small`): `TwoStreams` (two turns of two dispatches, with
one response id on both), `TwoConnections` (the same turn on two connections) and
`OneDispatch` (the full lifecycle, tool notices, two contents of one event, and a key
file that comes and goes). The invariants are checked in all three and one step
beyond; the run has no liveness property, which a constraint could distort.

Two dispatches are enough because no handler relates more than two: the one a row
belongs to and another one that must, or must not, be touched by it. A table of
one or two pending rows is full, partly full and empty within a few steps. Two
generations distinguish the current one from a replaced one. In the adapter, a
queue of two records is full, and holds something behind a marker, with
two messages. In the terminal export, five commits hold the longest story: a
submission, a connection, a dispatch that finishes clean and is exported, a project
that is shared, and a new accounting exported again.

In the host, a queue of two holds a record behind another and is full before the
five hooks of a dispatch are over. The runner's code handles its jobs in order and
never compares them, so a second job adds only that one may be settled or not when
the other fails; two mishaps are needed with one job, for an error while another is
handled. Budgets of one record put a scan boundary between any two records of the
journal. Bob's three commits are one before a generation, one during it and one
after. Two changes to the rollouts are a move and what is then written, or a
replacement and its undoing. `codex` starts with two rollouts, either new to the command
cursors or renamed in a row since they were last read, which takes a third path; in what
concerns that path one change or failure is explored (`Small`), and two where it stays free.

Deadlock is checked in `terminal_export` and `journal`. It is not checked where the system may stop for
good: a ledger that stopped while its capacity is blocked never opens again, a
closed adapter or host and a finished run do nothing, and the collectors' instances
run out of changes.

The type invariants of Ledger and TerminalExport are invariants of their own and
proved. Those of the other modules are conjuncts of `NoSilentLoss`, `MissedShows`,
`JobsSettle`, `CountedOnce`, `Coherent` and `CoverageIsHonest`.

### Fairness

Ledger has none: its actions are calls, and nothing obliges a caller. In
`AdapterChannel` the worker is weakly fair, since `_run` is a loop that ends only
on `_stop` with an empty queue, and so is a close once begun. The reader and the
owner are not: a source may fall silent and an adapter may never be closed.
Failing ledger calls are bounded by `MaxFailures`; without a bound, a ledger that
always fails would defeat any promise that the disconnect is recorded.

In `TerminalExport` each exporter is weakly fair: a run goes on until it ends or
dies, and the command is run again and again, which is up to its operator
(`references/integrations/terminal-export.md` says that interrupted exports can be
retried). The ledger is quiet in the
end, since its commits are bounded; runs that die are bounded by `MaxFailures`.

In `ObservabilityHost` the observer's drain and a close that began are weakly fair:
both are loops with timed waits. The adapter's and the exporter's threads may be
stuck, and nobody has to close.

In `Runner` the main thread goes on, the deadline passes some day, and a grace
period ends (strongly fair, because its wait is left and entered again with each
look at the jobs). Nothing is assumed of the app server or of the reader, except
that a write to the app server's input returns: the code has no deadline there.

In `BobCollector` the collector scans again and again and time passes. That slices
get to read rows is a strong fairness: a slice whose time is over before its first
row would defeat it, and the code does not exclude that. `BobJournal` only assumes
that the thread that scans keeps taking steps, be they those of failing scans.
`SessionCollector` has no liveness property.

## Proofs

Every theorem is about `Spec` of its module and holds for all values of the constants
that satisfy the module's assumptions. Where an invariant is not inductive, a stronger
one is, and that was checked with TLC before it was proved. Each proof has a lemma per
action or per part of the invariant; frame lemmas dismiss the steps that do not touch
the variables of a part.

| Module | Theorem | Property |
| --- | --- | --- |
| `LedgerProofs` | `TypeCorrect` | `TypeOK` |
| | `CoverageIsHonest`, `NothingStranded`, `BindingsFollowSources`, `GapsAreRemembered` | `HonestCoverage`, `PendingUnclaimed`, `BindingsLive`, `GapsRemembered` |
| | `ExactCoverageIsFed`, `BlockedCapacityIsVisible` | `ExactCoverageHasLiveSource`, `BlockedIsVisible` |
| | `LossesAreReported` (a step) | `LossIsReported` |
| | `PublicationIsCurrent`, `AccountsAreExact` | `PublishedIsCurrent`, `Accounting` |
| `LedgerRefinementProofs` | `Refinement` | `ImplementsSourceLedger` |
| `AdapterProofs` | `AdapterIsHonestUnmarked` | `NoSilentLoss`, `DisconnectBehindReceived` and `ExactMeansIngested`, until a close marks |
| | `NoLossIsSilent`, `DisconnectIsLast`, `ExactCoverageIsComplete` | `NoSilentLoss`, `DisconnectComesLast` and `ExactMeansIngested`, for every owner |
| `HostProofs` | `HostIsTyped`, `MissedRecordsShow`, `LedgerIsClosedLast`, `ClosedHostIsComplete` | types, `MissedShows`, `LedgerClosedLast`, `ClosedIsComplete` |
| `RunnerProofs` | `JobsAreSettled`, `StatusIsHonest`, `AnswersAreTheirOwn`, `StopsAreAsked` | `JobsSettle`, `HonestStatus`, `AnswerIsItsOwn`, `StopIsAsked` |
| `TerminalProofs` | `TypeCorrect`, `RunsAreNeverRefused`, `CursorIsHonest`, `ExportsAreMonotone` (a step), `CleanRecordsAreHonest` | `TypeOK`, `NeverRefused`, `CursorCovers`, `NothingRegresses`, `CleanIsHonest` |
| `BobCollectorProofs` | `ScansAreCoherent`, `NothingMissedAtRest` | `Coherent`, `UnchangedIsCurrent` |
| `BobJournalProofs` | `LossesAreTold` | `LossTold` of the journal |
| | `EventsAreCountedOnce`, `FloorIsBelowRetained` (a step) | `CountedOnce`, `FloorBelowRetained`, where first lines fit and are not late |

*Ledger.* `HonestInv` carries the first group. `HonestCoverage` is not inductive
alone: when a dropped projection's stream is bound *later*, the
promotion of the new dispatch is safe only because the gap is remembered
(`GapsRemembered`); when it was bound *earlier*, the expiry gaps the dispatch
only if it is in progress, and a terminal one is safe because nothing of its
stream can be pending beside its binding (`PendingUnclaimed`), which in turn
needs that an ended binding has a source that is gone (`BindingsLive`). The step
lemmas are over `StepCases`, which names the cases of `Next`. Exact coverage with a live
source, visible capacity and reported losses follow from the same invariant.
`PublishedIsCurrent` is inductive with the types: every step that changes what an export
of a dispatch shows bumps its revision. `AccountInv` adds to `Accounting` that the pending
table holds one row per identity (`PendingDistinct`) and none that was applied, so a
counter grows by exactly the rows it is counted for.

*Refinement.* `LedgerRefinementProofs` maps each action of Ledger to an action of
`SourceLedger` or to a stutter, by what it does to the watched source (`Link`), to the
claim (`Exact`) and to the gap. Most actions are `Elsewhere`: they leave the source, its
bindings and the end of the dispatch alone, and claim exact coverage only without a
gap. That ending the bindings of the watched source raises the dispatch, and that an ended
one stays ended, is taken from the invariants of `LedgerProofs`.

*Adapter.* The theorems are about any set of owners, the host's included. `AdapterInv` is
`Typed`, `Behaved` as long as the close is `Orderly`, and that only a close that marks the
disconnect is not. The marker is the last thing queued (`MarkerLast`), one thread at a
time drains (`Alone`), so when the marker is delivered nothing is on its way. A close that
marks the disconnect stores a request past the queue, so behind it `Disconnecting` speaks
of the thread that is about to read the request: it has found the queue empty, after
intake had stopped, with no record in a thread's hands. Until then what is neither on its
way nor ingested is about to be told, or was told to a ledger that withdrew its claim
(`Fed`). `Orderly` is needed: without it `DisconnectBehindReceived` is false, as the run
`adapter_order` shows. As nothing but a marking close gets ahead of the worker, all three
properties hold without exception until there is one (`AdapterIsHonestUnmarked`).

*Host.* `HostInv`: a loss is with the observer, in the hands of the drain or with the
ledger (`Shows`); every hook is queued, in the ledger or such a loss (`Kept`); and what
the closing thread has noted of a thread stays true until the next close (`Serving`,
`Owned`), since by then no hook is called and nothing is started; hence the ledger is
closed with every thread ended (`Shut`).

*Runner.* `RunnerInv`: every job's thread is registered before a turn is asked for
(`Started`), a turn is asked for once (`Unasked`), so its end stays its end and no other
is reported (`Honest`); a request has a number of its own (`AnswersOwn`); a job is
settled by one receipt (`Settling`); and where the main thread is tells which jobs are
settled, written (`Path`) or asked to stop (`Stopping`).

*Terminal export.* `ExportInv` says that only the
holder of the lock runs, that nothing in the sink is ahead of the ledger, and that
what is of the ledger's own revision *is* what the ledger holds, in the sink
(`SinkAgrees`) as in a run under way (`RunAgrees`). A commit makes the second kind
of fact void rather than false, because it takes a new revision; that is the whole
reason a replay is never refused. `CursorCovers` alone is not inductive: it says
nothing of the run that is about to write the cursor. `CleanInv` adds, for captures,
that whatever accounting they are of is remembered for as long as the dispatch is
still at it.

*Bob collector.* `BobInv`: the private index always belongs to a commit, between two
generations to the one published and while messages are read to the one the transaction
sees, up to the row where the reader stands. `Indexed` says so of the known identities
(`Lists`), of the bodies (`Fits`) and of what was skipped (`Whole`). An
incremental generation takes the index over only once every row it knew is found again:
as many identities matched as are known, each at its row, so the two sets are the same
(`Identified`). The version a process goes on from is one read before the transaction of
the published generation, hence no later than it (`Current`), which is why a commit
made during a generation cannot be missed. `Least` proves, from the well-foundedness of
strict inclusion between finite sets, that a set of rows has a first one.

*Journal.* `JournalInv` holds of the committed tables and of those the scan sees: as long
as no loss was counted, no signature is in conflict, every signature is of an event that
is in the totals or waits as a pending row, and a row that waits no more is in the
totals (`Accounts`). The part about signatures is what makes it inductive: a record that
was seen before is passed over because of its signature alone. Each operator on the
tables has a lemma that it keeps `Told`; the steps of the scan are compositions of them.
Nothing is needed of the files, so the theorem also holds without `LinesFit`.

`CountedOnce` and `FloorBelowRetained` do need the contents of the files against what was
read of them, and share one invariant, `SourceInv`. `Sourced` says of each file that is not being
read: if the tables hold its first line, everything before the saved offset has references, and the
inventory's oldest time is no later than any of it (`Passed`); if the inventory calls it
complete and the version it noted is still the file's, that is so of the whole file
(`Whole`); and a first line that the tables hold either is the file's, or is one the file
had before (`Known`), which is how a rewrite is recognised. `Followed` says the same of
the open file up to the reader's position, with one addition that `~LateHeads` gives: while
no first line is known the file is empty. The exporter keeps these because a write
only appends, or gives the file a first line that it never had (`Evolves`); so each step of the
reader needs a proof about one file only, and the others are covered by a frame
lemma (`SourcedBut`). When the floor rises, every listed file is complete
and unchanged at that moment, so whole (`WindowFloor`), and the floor is at most the
oldest time of each.

`Once` says that an event which is counted and not forgotten is signed, that a
row is signed and the only one of its event, and that a row which waits was not counted. A
signature is dropped only when no row and no reference is left of it (`Backed`), right
after every file was found whole; then no listed file holds the event either, and it is
forgotten. Lost tables (`LoseTables`) are empty, totals included, and the scan after them
passes all files without a claim on what is in them (`complete = -1`).

The proofs rest on the assumptions named in the modules: bounds are naturals, a queue
or a drain holds one record, projections are well formed, identities are unique, and
sentinels are none of the values they stand beside. TLC evaluates them in every run.

Only model-checked:

- `CoverageIsHonest` of the session collector, whose tables are folds over the inventory
  and a recursive function over the lines of a file: what they compute is an induction
  over data;
- every liveness property (`CatchesUp`, `DisconnectServed`, `GapTold`, the adapter's and
  the host's promises that a loss is told and a close settles, `RunEnds`,
  `PendingResolve`, `EditsReconciled`): fairness and ENABLED are out of the prover's
  reach.

## Findings

- `adapter_order`: `_attempt_pending_disconnect` tests the queue (line 457) and
  then reads `_pending_disconnect` (line 462) under another lock. `close` stores
  its request there directly. If a record, the disconnect marker and `close` come
  between the two lines, the worker marks a planned disconnect while the record is
  still queued; the ledger then rejects it without a gap.
- `adapter_timeout`: `close` looks for remaining records in the queue only. A
  record that the worker holds when the join times out is overtaken by an
  expected disconnect and rejected without a gap.

- `journal_floor`: the reader recognises a file written anew by its first line, unless
  the bytes left of the scan's budget do not hold that line (`head_limited`, line 368).
  If such a file has its former size, line 437 marks it as read, with the oldest time of
  what it held before. The round then counts as verified, the floor rises, and what the
  file now holds is refused as older than the floor. The comment at line 326 says
  "Verify a whole inventory round before advancing its floor." The same cause lets an event be
  counted twice when its signature is dropped with the round.

The adapter's two need a scheduling that is rare: the worker must not run between two
adjacent statements, or for the whole close timeout. The journal's needs a file that is
rewritten in place: to exactly its former size and in a scan whose budget ends in its first
line.

Three more observations have no run of their own.

A second way to the defect of `journal_floor` came out of the proof of
`FloorBelowRetained`, whose step of `Read` asked for an assumption on the first line,
`~LateHeads`. The first line is looked at when the file is opened (line 366). A file that is
still empty then, and gets a record before the loop reads it, is stored with no first line
and an offset behind that record (line 436). When it is rewritten later, the test at line
384 has nothing to compare with: what the new content holds before the saved offset is
never read, no loss is counted, and the floor rises above it. `MCBobFloor.cfg` shows it
within seconds with `LinesFit` and `LateHeads` true, `Starts <- Emptied` and three writes.

`CoverageIsHonest` of the session collector was claimed of every file at first. The
invariant that a proof of it would need, that each file an inventory has shown has a cursor,
or is read, or left a gap, is not kept by `Follow`: when a file has moved to a path that
still has the cursor of *another* file, `sync_inventory` rewinds that cursor and deletes the
file's own (lines 716-722), with the comment "Another hardlink cursor will replay the same
source. Rewind that feature-local cursor rather than losing incomplete history."
(`src/scripts/traceonaut/codex_session_telemetry.py:715`). If the other file was moved too and
its cursor then follows it, no cursor is left for the first one until its path is visited.
A file that is removed before that visit, in the same scan, takes its unread commands
with it: no gap is counted and the feature becomes ready. Take two rollouts a and b, a with
unread commands and found first, rename b to c and a to b, and remove b while
`sync_inventory` reads the thread metadata: the real collector then reports `ready` 1,
`source_gaps` 0 and none of a's commands. With the condition on `db.merged` taken out of
`CoverageIsHonest`, `MCSessionCollector.cfg` finds it as well.

Nothing in the repository says otherwise of the last one: every inventory round
sets `complete` to 0 and a file of which no record was accepted keeps `oldest` NULL, so each scan reads it from its beginning (line 377) and counts its
refused records again (line 411).

## Not modelled

- In the ledger: several projects and their global limits, health counters,
  receipt timing and replayed receipts, presentation requests, the read-only
  snapshot, file permissions, a `schema_state` other than the default. In the adapter:
  the projection of message contents. In the host: the adapter's count of rejected
  messages, a `ledger.close()` that fails. In the terminal export: a ledger file that is replaced by another one, and the
  validation of single fields.
- In the runner: the contents of manifest and authorization files, the stderr drain,
  the presentation record, denied server requests, a write that blocks. In the session collector: turns,
  models, titles, the size of the export, the order of files within a scan and the
  starvation that order may cause, a rename during the inventory's walk. In the
  journal: amounts of tokens, byte limits and overlong lines, several events of one
  line. In the Bob collector: `unknown_tool_outcome`, which only lowers `complete`.
- The exporter's batches, refresh thread and Prometheus client; the CWO readers, which
  have the shape of the session collector; the account allowance, a single poller.
- Command classification, display names, dashboards, release tooling: stateless
  or pure I/O.

`PROJECT.json` lists the hazards without a property, each with the reason.

## Plan

1. `Publication`: confirmer, refresh thread and Prometheus over revisions, with an
   abstract specification "the published export is some current view".
2. `Receipts`: lifecycle receipts with timing, clock gaps and replays;
   `LedgerRegistry`: several projects, limits, keys.
3. The order of files and the shared budget of the session collector, with the
   starvation of history as a liveness property.
4. The CWO readers, as far as they differ from the session collector.
5. Token aggregation and allowance as pure operators against a reference definition.

Left to prove is `CoverageIsHonest` of the session collector. It needs `List` and `Read`
without folds: the inventory row by row against the listing taken before, and a file line by
line, as steps of the specification rather than as values.
