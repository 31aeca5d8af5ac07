------------------------- MODULE ObservabilityHost -------------------------
(***************************************************************************)
(* The observation host of one app-server connection: the controller's       *)
(* dispatch hooks, the runtime observer's queue and thread, the adapter and    *)
(* export threads as far as the host sees them, and the opening and the        *)
(* retried closing of them all over the one ledger they share.                *)
(*                                                                         *)
(* The ledger is what it promises to one source and dispatch (SourceLedger).   *)
(* What is abstracted:                                                     *)
(*  - one dispatch, prepared before the hooks; a receipt is its kind;        *)
(*  - the losses by cause and their number: there are some, or none;          *)
(*  - the adapter (AdapterChannel): its counters are debts it owes the ledger, *)
(*    its queued marker and pending disconnect are one wish;                  *)
(*  - a thread that is joined with a timeout may outlive it;                  *)
(*  - messages the adapter rejected without a gap, and a ledger that fails to *)
(*    close: either would only make one more close report failure.         *)
(***************************************************************************)
EXTENDS SourceLedger, Naturals, Sequences

CONSTANTS
  MaxQueue,     \* max_queue_records
  MaxDrain,     \* max_records of one drain
  MaxFailures   \* bound on failing ledger calls and other faults

ASSUME HostAssumption == MaxQueue \in Nat \ {0} /\ MaxDrain \in Nat \ {0} /\ MaxFailures \in Nat

Records == {"submission", "binding", "receipt", "terminal"}
Disconnects == {"planned", "unplanned"}

VARIABLES
  main,        \* how far open_observability_host got, then "open", "closing", "failed"
  dispatch,    \* the last hook the controller called
  reader,      \* the app-server reader, between the two halves of _submit
  queue, stop, losses,  \* of OwnedRuntimeObserver
  recorded,    \* the dispatch is in the ledger, and in _dispatch_ids
  drain,       \* who runs drain_once, and where
  adapter,     \* its thread: "absent", "running" or "dead"
  sealed,      \* its _closed
  wish,        \* the disconnect it still has to make
  debts,       \* what its counters still hold
  service,     \* the exporter threads: "absent", "running", "stopping" or "dead"
  ledger,      \* "absent", "open" or "closed"
  closer,      \* the thread that closes, or cleans up a failed open
  served,      \* _service_closed
  gapTold,     \* _shutdown_gap_recorded
  closed,      \* _closed of the host
  missed,      \* a record of the dispatch was lost
  failures

adapterVars == <<adapter, sealed, wish, debts>>
hostVars == <<service, ledger, closer, served, gapTold, closed>>
observerVars == <<queue, stop, losses, recorded, drain, missed>>
callers == <<main, dispatch, reader>>
vars == <<ledgerVars, callers, observerVars, adapterVars, hostVars, failures>>

Fail == failures < MaxFailures /\ failures' = failures + 1

\* The thread of _close_worker or of _cleanup_partial_host.
CloserAt(label) == closer.at = label
Start(label) == closer' = [at |-> label, serviceOk |-> TRUE, ownerOk |-> FALSE]
Goto(label) ==
  IF label = "done" THEN Start("done") ELSE closer' = [closer EXCEPT !.at = label]

\* Mutant: a record that finds the queue full is dropped.
LossSilent == UNCHANGED losses

\* _record_loss.
Loss == losses' = TRUE

----------------------------------------------------------------------------
(* OwnedRuntimeObserver: hooks of the controller and of the reader.          *)

\* _submit: put_nowait once _stop was not set.
Put(record) ==
  IF stop \/ Len(queue) = MaxQueue
  THEN /\ Loss
       /\ missed' = (missed \/ record \in Records)
       /\ UNCHANGED queue
  ELSE /\ queue' = Append(queue, record)
       /\ UNCHANGED <<losses, missed>>

\* The hooks of DispatchObserver in the order in which a job calls them; the
\* acknowledgement queues a binding and a receipt.
NextHook == [prepared |-> "submission", submission |-> "binding",
             binding |-> "acknowledged", acknowledged |-> "running",
             running |-> "terminal"]

\* A hook, or the end of a job that got no further.  A dispatch that ends before it
\* was submitted is a collector fault.
Hook ==
  /\ main = "open"
  /\ dispatch # "terminal"
  /\ dispatch' \in {NextHook[dispatch]} \cup (IF dispatch = "binding" THEN {} ELSE {"terminal"})
  /\ IF dispatch = "prepared" /\ dispatch' = "terminal"
     THEN Loss /\ UNCHANGED <<queue, missed>>
     ELSE Put(IF dispatch' \in Records THEN dispatch' ELSE "receipt")
  /\ UNCHANGED <<ledgerVars, main, reader, stop, recorded, drain, adapterVars, hostVars,
                 failures>>

\* The reader reports the end of its source, perhaps while the host closes.
ReaderReports ==
  /\ main \in {"open", "closing"}
  /\ reader = "reading"
  /\ IF stop THEN reader' = "done" /\ Loss
             ELSE \E kind \in Disconnects : reader' = kind /\ UNCHANGED losses
  /\ UNCHANGED <<ledgerVars, main, dispatch, queue, stop, recorded, drain, missed,
                 adapterVars, hostVars, failures>>

ReaderPuts ==
  /\ reader \in Disconnects
  /\ reader' = "done"
  /\ IF Len(queue) = MaxQueue THEN Loss /\ UNCHANGED queue
     ELSE queue' = Append(queue, reader) /\ UNCHANGED losses
  /\ UNCHANGED <<ledgerVars, main, dispatch, stop, recorded, drain, missed,
                 adapterVars, hostVars, failures>>

\* collector_fault, when a hook of the reader raises.
ReaderFault ==
  /\ main \in {"open", "closing"}
  /\ reader = "reading"
  /\ Fail
  /\ Loss
  /\ UNCHANGED <<ledgerVars, callers, queue, stop, recorded, drain, missed,
                 adapterVars, hostVars>>

----------------------------------------------------------------------------
(* drain_once, run by the observer's thread or by the closing one.            *)

NoDrain == [who |-> "none", at |-> "loop", count |-> 0, held |-> FALSE, final |-> FALSE]
Thread == [NoDrain EXCEPT !.who = "worker"]
Drains(who, final) == [NoDrain EXCEPT !.who = who, !.at = "take", !.final = final]

\* _run goes on until it is stopped with nothing queued, and then drains once more.
Loop ==
  /\ drain.who = "worker" /\ drain.at = "loop"
  /\ drain' = Drains("worker", stop /\ queue = <<>>)
  /\ UNCHANGED <<ledgerVars, callers, queue, stop, losses, recorded, missed, adapterVars,
                 hostVars, failures>>

AfterDrain == IF drain.who = "worker" /\ ~drain.final THEN Thread ELSE NoDrain

\* A record is written to the ledger.  A receipt or a binding needs the dispatch.
Ingested(record) ==
  CASE record = "submission" ->
         recorded' = TRUE /\ UNCHANGED ledgerVars
    [] record = "binding" ->
         recorded /\ Bind /\ UNCHANGED recorded
    [] record = "receipt" ->
         recorded /\ UNCHANGED <<ledgerVars, recorded>>
    [] record = "terminal" ->
         recorded /\ Finish /\ exact' = exact /\ UNCHANGED recorded

\* Why a ledger call may raise without a fault of its own.
Refused(record) ==
  \/ record # "submission" /\ ~recorded
  \/ record = "binding" /\ link # "connected"

\* One record of the dispatch.  The submission is two ledger calls, the second of
\* which may fail alone.
TakeRecord ==
  LET record == Head(queue)
  IN /\ record \in Records
     /\ \/ /\ Ingested(record)
           /\ UNCHANGED <<losses, missed, failures>>
        \/ /\ IF Refused(record) THEN UNCHANGED failures ELSE Fail
           /\ Loss /\ missed' = TRUE
           /\ IF record = "submission" THEN recorded' \in BOOLEAN ELSE UNCHANGED recorded
           /\ UNCHANGED ledgerVars
     /\ UNCHANGED adapterVars

\* request_source_disconnected: refused once closed or asked, unplanned if the
\* adapter's own queue is full.
TakeDisconnect ==
  /\ Head(queue) \in Disconnects
  /\ IF sealed THEN UNCHANGED <<wish, debts, failures>>
     ELSE \/ wish' = Head(queue) /\ UNCHANGED <<debts, failures>>
          \/ Fail /\ wish' = "unplanned" /\ debts' = debts \cup {"loss"}
  /\ UNCHANGED <<ledgerVars, recorded, losses, missed, adapter, sealed>>

Take ==
  /\ drain.at = "take"
  /\ queue # <<>> /\ drain.count < MaxDrain
  /\ queue' = Tail(queue)
  /\ drain' = [drain EXCEPT !.count = @ + 1]
  /\ TakeRecord \/ TakeDisconnect
  /\ UNCHANGED <<callers, stop, hostVars>>

\* Under the lock: the losses are taken; the ids are those this thread added.
Swap ==
  /\ drain.at = "take"
  /\ queue = <<>> \/ drain.count = MaxDrain
  /\ drain' = IF losses THEN [drain EXCEPT !.at = "mark", !.held = TRUE] ELSE AfterDrain
  /\ losses' = FALSE
  /\ UNCHANGED <<ledgerVars, callers, queue, stop, recorded, missed, adapterVars, hostVars,
                 failures>>

\* mark_gap with the dispatch ids known: exact coverage of those is gone.
MarkGap ==
  /\ gap' = TRUE
  /\ exact' = (exact /\ ~recorded)
  /\ UNCHANGED <<link, binding, terminal>>

\* Mutant: losses whose report fails are forgotten.
PutBackNone == UNCHANGED losses

PutBack == losses' = TRUE

\* mark_gap and record_health_event, of which one may raise.
Report ==
  /\ drain.at \in {"mark", "tell"}
  /\ \/ /\ drain.at = "mark" /\ MarkGap
        /\ drain' = [drain EXCEPT !.at = "tell"]
        /\ UNCHANGED <<losses, failures>>
     \/ /\ drain.at = "tell"
        /\ drain' = AfterDrain
        /\ UNCHANGED <<ledgerVars, losses, failures>>
     \/ /\ Fail
        /\ PutBack
        /\ drain' = AfterDrain
        /\ UNCHANGED ledgerVars
  /\ UNCHANGED <<callers, queue, stop, recorded, missed, adapterVars, hostVars>>

Drain == Loop \/ Take \/ Swap \/ Report

----------------------------------------------------------------------------
(* The adapter's ledger calls, by its thread or by the closing one after it.  *)

\* A notification is lost or malformed.
AdapterOwes ==
  /\ adapter = "running"
  /\ Fail
  /\ \E debt \in {"loss", "schema"} : debts' = debts \cup {debt}
  /\ UNCHANGED <<ledgerVars, callers, observerVars, adapter, sealed, wish, hostVars>>

\* _flush_health; a malformed notice cannot be told once the source is disconnected.
Flush ==
  /\ \/ "loss" \in debts /\ HealthGap /\ debts' = debts \ {"loss"} /\ UNCHANGED failures
     \/ "schema" \in debts /\ Incompatible /\ debts' = debts \ {"schema"} /\ UNCHANGED failures
     \/ debts # {} /\ Fail /\ UNCHANGED <<ledgerVars, debts>>
  /\ UNCHANGED <<callers, observerVars, adapter, sealed, wish>>

\* _attempt_pending_disconnect: unplanned when a gap was pending, as AdapterChannel
\* has it.
Attempt ==
  /\ wish # "none"
  /\ \/ /\ IF link = "connected"
           THEN \E expected \in BOOLEAN :
                  /\ expected => (wish = "planned" /\ debts = {})
                  /\ ~expected => (wish = "unplanned" \/ debts # {} \/ gap)
                  /\ Disconnect(expected)
           ELSE UNCHANGED ledgerVars
        /\ wish' = "none"
        /\ UNCHANGED failures
     \/ Fail /\ UNCHANGED <<ledgerVars, wish>>
  /\ UNCHANGED <<callers, observerVars, adapter, sealed, debts>>

AdapterThread ==
  /\ adapter = "running"
  /\ \/ Flush \/ Attempt
     \/ /\ sealed /\ adapter' = "dead"
        /\ UNCHANGED <<ledgerVars, callers, observerVars, sealed, wish, debts, failures>>
  /\ UNCHANGED hostVars

----------------------------------------------------------------------------
(* open_observability_host: one part after the other.                        *)

\* _validate_config: nothing is open yet if the configuration is refused.
Configure ==
  /\ main = "config"
  /\ \/ main' = "ledger" /\ UNCHANGED <<closer, failures>>
     \/ Fail /\ main' = "failed" /\ Start("service")
  /\ UNCHANGED <<ledgerVars, dispatch, reader, observerVars, adapterVars, service, ledger,
                 served, gapTold, closed>>

Started(part) ==
  CASE part = "ledger" ->
         ledger' = "open" /\ UNCHANGED <<ledgerVars, drain, adapter, service>>
    [] part = "adapter" ->
         adapter' = "running" /\ Register /\ UNCHANGED <<drain, ledger, service>>
    [] part = "observer" ->
         /\ drain' = Thread
         /\ UNCHANGED <<ledgerVars, adapter, ledger, service>>
    [] part = "service" ->
         service' = "running" /\ UNCHANGED <<ledgerVars, drain, adapter, ledger>>

AfterPart == [ledger |-> "adapter", adapter |-> "observer", observer |-> "service",
              service |-> "open"]

\* A part that cannot be opened leaves the ones before it to the cleanup thread.
OpenPart ==
  /\ main \in DOMAIN AfterPart
  /\ \/ Started(main) /\ main' = AfterPart[main] /\ UNCHANGED <<closer, failures>>
     \/ /\ Fail
        /\ main' = "failed"
        /\ closer' = [closer EXCEPT !.at = IF main = "service" THEN "observer" ELSE "adapter"]
        /\ UNCHANGED <<ledgerVars, drain, adapter, ledger, service>>
  /\ UNCHANGED <<dispatch, reader, queue, stop, losses, recorded, missed, sealed, wish, debts,
                 served, gapTold, closed>>

----------------------------------------------------------------------------
(* _close_worker, and _cleanup_partial_host, which closes in another order.   *)

\* close: a thread that failed to close is replaced by another one.
CallClose ==
  /\ main \in {"open", "closing"}
  /\ closer.at \in {"idle", "done"}
  /\ ~closed
  /\ main' = "closing"
  /\ Start("service")
  /\ UNCHANGED <<ledgerVars, dispatch, reader, observerVars, adapterVars, service, ledger,
                 served, gapTold, closed, failures>>

\* export_service.close stops the threads, may raise, and joins them for a moment.
CloseService ==
  /\ CloserAt("service")
  /\ IF served THEN UNCHANGED service
     ELSE service' = IF service = "running" THEN "stopping" ELSE service
  /\ \/ UNCHANGED failures /\ Goto("service-join")
     \/ /\ Fail
        /\ IF main = "failed" THEN Start("done")
           ELSE closer' = [closer EXCEPT !.at = "observer", !.serviceOk = FALSE]
  /\ UNCHANGED <<ledgerVars, callers, observerVars, adapterVars, ledger, served, gapTold, closed>>

\* The threads end in time, or not.
JoinService ==
  /\ CloserAt("service-join")
  /\ service' \in {service, IF service = "stopping" THEN "dead" ELSE service}
  /\ closer' = [closer EXCEPT !.at = IF main = "failed" THEN "ledger" ELSE "observer",
                              !.serviceOk = service' # "stopping"]
  /\ served' = (service' # "stopping")
  /\ UNCHANGED <<ledgerVars, callers, observerVars, adapterVars, ledger, gapTold, closed,
                 failures>>

\* observer.close: a thread that has ended is started again.
CloseObserver ==
  /\ CloserAt("observer")
  /\ stop' = TRUE
  /\ drain' = IF drain.who = "none" THEN Thread ELSE drain
  /\ Goto("observer-join")
  /\ UNCHANGED <<ledgerVars, callers, queue, losses, recorded, missed, adapterVars, service,
                 ledger, served, gapTold, closed, failures>>

\* Mutant: an observer that could not write everything counts as closed.
OwnerClearEnded == drain.who = "none"

OwnerClear == drain.who = "none" /\ queue = <<>> /\ ~losses

\* The join ends, with or without the thread; the host drains once more itself
\* what a dead thread has left.
JoinObserver ==
  /\ CloserAt("observer-join")
  /\ LET again == main # "failed" /\ drain.who = "none" /\ ~OwnerClear
     IN /\ closer' = [closer EXCEPT !.at = IF again THEN "observer-drain" ELSE "adapter",
                                    !.ownerOk = OwnerClear]
        /\ drain' = IF again THEN Drains("closer", FALSE) ELSE drain
  /\ UNCHANGED <<ledgerVars, callers, queue, stop, losses, recorded, missed, adapterVars,
                 service, ledger, served, gapTold, closed, failures>>

Drained ==
  /\ CloserAt("observer-drain")
  /\ drain.who = "none"
  /\ closer' = [closer EXCEPT !.at = "adapter", !.ownerOk = queue = <<>> /\ ~losses]
  /\ UNCHANGED <<ledgerVars, callers, observerVars, adapterVars, service, ledger, served,
                 gapTold, closed, failures>>

\* adapter.close: the first call decides which disconnect is wished.
CloseAdapter ==
  /\ CloserAt("adapter")
  /\ sealed' = (adapter # "absent")
  /\ wish' = IF adapter = "absent" \/ sealed \/ wish # "none" THEN wish
             ELSE IF main = "failed" \/ (closer.serviceOk /\ closer.ownerOk) THEN "planned"
             ELSE "unplanned"
  /\ Goto(IF adapter = "absent" THEN "service" ELSE "adapter-join")
  /\ UNCHANGED <<ledgerVars, callers, observerVars, adapter, debts, service, ledger, served,
                 gapTold, closed, failures>>

AfterAdapter == IF main = "failed" THEN "service" ELSE "decide"

\* The thread has ended, or outlives the timeouts, when what remains in its queue is
\* reported, or not, and makes the disconnect an unplanned one.
JoinAdapter ==
  /\ CloserAt("adapter-join")
  /\ \/ /\ adapter = "dead"
        /\ Goto("attempt")
        /\ UNCHANGED <<ledgerVars, wish, failures>>
     \/ /\ adapter = "running"
        /\ Goto(AfterAdapter)
        /\ \/ UNCHANGED <<ledgerVars, wish, failures>>
           \/ /\ wish' = "unplanned"
              /\ \/ HealthGap /\ UNCHANGED failures
                 \/ Fail /\ UNCHANGED ledgerVars
  /\ UNCHANGED <<callers, observerVars, adapter, sealed, debts, service, ledger, served,
                 gapTold, closed>>

\* The ledger calls left over by the dead thread, each tried.
CloserAttempts ==
  /\ CloserAt("attempt")
  /\ \/ (Flush \/ Attempt) /\ UNCHANGED closer
     \/ /\ wish = "none" \/ failures > 0
        /\ debts \ {"schema"} = {} \/ failures > 0
        /\ Goto(AfterAdapter)
        /\ UNCHANGED <<ledgerVars, callers, observerVars, adapterVars, failures>>
  /\ UNCHANGED <<service, ledger, served, gapTold, closed>>

\* Mutant: the exporter's threads are not asked for.
SafeWithoutService == closer.ownerOk /\ adapter = "dead" /\ wish = "none" /\ debts = {}

Safe == closer.serviceOk /\ closer.ownerOk /\ adapter = "dead" /\ wish = "none" /\ debts = {}

Decide ==
  /\ CloserAt("decide")
  /\ IF Safe
     THEN closed' = TRUE /\ ledger' = "closed" /\ Goto("done")
     ELSE Goto(IF gapTold THEN "done" ELSE "shutdown-gap") /\ UNCHANGED <<closed, ledger>>
  /\ UNCHANGED <<ledgerVars, callers, observerVars, adapterVars, service, served, gapTold,
                 failures>>

\* Mutant: the flag comes before the calls.
ShutdownGapSilent ==
  /\ CloserAt("shutdown-gap")
  /\ gapTold' = TRUE
  /\ Goto("done")
  /\ UNCHANGED <<ledgerVars, callers, observerVars, adapterVars, service, ledger, served,
                 closed, failures>>

\* _record_shutdown_gap: mark_gap, the health event, and only then the flag.
ShutdownGap ==
  /\ CloserAt("shutdown-gap")
  /\ \/ MarkGap /\ gapTold' = TRUE /\ UNCHANGED failures
     \/ Fail /\ UNCHANGED gapTold /\ (MarkGap \/ UNCHANGED ledgerVars)
  /\ Goto("done")
  /\ UNCHANGED <<callers, observerVars, adapterVars, service, ledger, served, closed>>

Releasable == drain.who = "none" /\ adapter # "running" /\ service \in {"absent", "dead"}

\* A failed open releases the ledger, unless a thread still has it.
CleanupLedger ==
  /\ CloserAt("ledger")
  /\ ledger' = IF ledger = "open" /\ Releasable THEN "closed" ELSE ledger
  /\ Goto("done")
  /\ UNCHANGED <<ledgerVars, callers, observerVars, adapterVars, service, served, gapTold,
                 closed, failures>>

Closer ==
  \/ CloseService \/ JoinService \/ CloseObserver \/ JoinObserver \/ Drained
  \/ CloseAdapter \/ JoinAdapter \/ CloserAttempts \/ Decide \/ ShutdownGap \/ CleanupLedger

----------------------------------------------------------------------------
Init ==
  /\ InitLedger
  /\ main = "config" /\ dispatch = "prepared" /\ reader = "reading"
  /\ queue = <<>> /\ stop = FALSE /\ losses = FALSE /\ recorded = FALSE /\ drain = NoDrain
  /\ missed = FALSE
  /\ adapter = "absent" /\ sealed = FALSE /\ wish = "none" /\ debts = {}
  /\ service = "absent" /\ ledger = "absent"
  /\ closer = [at |-> "idle", serviceOk |-> TRUE, ownerOk |-> FALSE]
  /\ served = FALSE /\ gapTold = FALSE /\ closed = FALSE
  /\ failures = 0

Next ==
  \/ Configure \/ OpenPart \/ Hook \/ CallClose
  \/ ReaderReports \/ ReaderPuts \/ ReaderFault
  \/ Drain
  \/ AdapterOwes \/ AdapterThread
  \/ Closer

Spec == Init /\ [][Next]_vars

\* The observer's thread and a close that began run on; the adapter's thread may be
\* stuck, the controller need not close.
Fairness == WF_vars(Drain) /\ WF_vars(Closer)

FairSpec == Spec /\ Fairness

----------------------------------------------------------------------------
(* Properties.                                                               *)

\* The type invariant.
TypeOK ==
  /\ link \in {"absent", "connected", "disconnected"} /\ binding \in {"none", "active", "ended"}
  /\ {terminal, exact, gap, stop, recorded, missed, sealed, served, gapTold, closed} \subseteq BOOLEAN
  /\ main \in DOMAIN AfterPart \cup {"config", "open", "closing", "failed"}
  /\ dispatch \in DOMAIN NextHook \cup {"terminal"}
  /\ reader \in Disconnects \cup {"reading", "done"}
  /\ queue \in Seq(Records \cup Disconnects) /\ Len(queue) <= MaxQueue
  /\ losses \in BOOLEAN /\ failures \in 0 .. MaxFailures
  /\ drain \in [who : {"none", "worker", "closer"}, at : {"loop", "take", "mark", "tell"},
                count : 0 .. MaxDrain, held : BOOLEAN, final : BOOLEAN]
  /\ adapter \in {"absent", "running", "dead"} /\ wish \in Disconnects \cup {"none"}
  /\ debts \subseteq {"loss", "schema"}
  /\ service \in {"absent", "running", "stopping", "dead"}
  /\ ledger \in {"absent", "open", "closed"}
  /\ closer \in [at : {"idle", "service", "service-join", "observer", "observer-join",
                       "observer-drain", "adapter", "adapter-join", "attempt", "decide",
                       "shutdown-gap", "ledger", "done"},
                 serviceOk : BOOLEAN, ownerOk : BOOLEAN]

\* A record of the dispatch that could not be queued or written is a gap the project
\* knows of, or a loss on its way to the ledger; and once the losses are told, the
\* dispatch does not claim exact coverage, also when the loss was told before the
\* dispatch was in the ledger.
MissedShows ==
  /\ TypeOK
  /\ missed => gap \/ losses \/ drain.held
  /\ missed /\ ~losses /\ ~drain.held => ~exact

\* "Closing it underneath that component would corrupt the cleanup ordering": no
\* thread runs over a closed ledger, after however many calls of close.
LedgerClosedLast == ledger = "closed" => Releasable

\* A host that closed left nothing behind: the source is disconnected, and the
\* ledger has every hook of the controller or knows of a gap.
ClosedIsComplete ==
  closed =>
    /\ link = "disconnected" /\ debts = {}
    /\ \A i \in DOMAIN queue : queue[i] \notin Records
    /\ ~gap => (dispatch = "terminal" => terminal) /\ (dispatch # "prepared" => recorded)

\* A loss recorded before the close is told, although a ledger call on the way fails
\* and whoever has to tell it.
LossTold == losses /\ ~stop /\ main = "open" ~> gap \/ failures > 1

\* A close that began ends with the host closed or with a gap in the ledger, whichever
\* thread outlives its join, as long as the ledger takes its calls.
CloseSettles == main = "closing" ~> closed \/ gap \/ failures > 0

=============================================================================
