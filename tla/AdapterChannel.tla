---------------------------- MODULE AdapterChannel ----------------------------
(***************************************************************************)
(* The channel of one app-server source into the ledger, class              *)
(* AppServerCompletionAdapter: the thread that reads notifications and      *)
(* enqueues them, the worker thread that drains the queue, and the thread   *)
(* that closes the adapter, which may drain and flush beside the worker.    *)
(*                                                                         *)
(* A step is what a thread does under one lock: the queue's, _state_lock,   *)
(* _counter_lock or the ledger's; between two of them any thread may run.   *)
(*                                                                         *)
(* What is abstracted:                                                     *)
(*  - a notification is a message of the finite set Messages; whether it    *)
(*    is malformed is a choice, and those ignored as unsupported are left    *)
(*    out;                                                                  *)
(*  - a loss counter is kept as "not zero", which is all the code branches   *)
(*    on;                                                                   *)
(*  - a ledger call may fail, MaxFailures times in a behaviour;             *)
(*  - the bound on a drain is a choice to stop after any record.            *)
(* The worker thread is started, as the host does, and the method that       *)
(* disconnects without queueing, which nothing in scripts/ calls, is left    *)
(* out.                                                                     *)
(***************************************************************************)
EXTENDS SourceLedger, Naturals, Sequences

CONSTANTS
  Messages,         \* notifications the source may send, each once
  MaxQueue,         \* resource limit max_queue_records
  MaxFailures,      \* bound on failing ledger calls
  Owners,           \* ways an owner may end the adapter, see below
  NoMessage         \* no notification in hand

Markers == {"expected", "unexpected"}
Threads == {"worker", "closer"}

\* The counters in the order in which _flush_health reports them.
Rank == [lost |-> 1, commit_lost |-> 2, rejected |-> 3, malformed |-> 4, overflow |-> 5]
Counters == DOMAIN Rank

ASSUME QueueAssumption == MaxQueue \in Nat \ {0}
ASSUME FailureAssumption == MaxFailures \in Nat

\* An owner may close although no disconnect was requested, or only afterwards; its close
\* marks the disconnect (parameter mark_disconnected) or leaves it to the request; and its
\* close may run out of time or always waits until all is drained.
ASSUME OwnersAssumption ==
  Owners \subseteq [unasked : BOOLEAN, marks : BOOLEAN, impatient : BOOLEAN]
ASSUME MessagesAssumption ==
  NoMessage \notin Messages \cup Markers /\ Messages \cap Markers = {}

VARIABLES
  queue,      \* _queue: records, and the markers of request_source_disconnected
  accepting,  \* _accepting
  closed,     \* _closed, and _stop, which close sets next
  wanted,     \* _pending_disconnect: "none", "expected" or "unexpected"
  counters,   \* the loss counters that are not zero
  incoming,   \* the notification try_submit is projecting
  thread,     \* program counter and local variables of the two threads
  failures,   \* ledger calls that failed
  owner,      \* how the owner of this adapter ends it
  sent,       \* history: notifications the source has sent
  received,   \* history: notifications received before intake stopped
  ingested,   \* history: records the ledger took while the source was connected
  hasty       \* history: "marked", a close's request overtook queued records; "left", it
              \* gave up waiting for the worker; "late", it stopped draining in time

intakeVars == <<accepting, closed, incoming, sent, received, owner, hasty>>
vars == <<ledgerVars, intakeVars, queue, wanted, counters, thread, failures, ingested>>

\* Local state of a thread in drain_once, _attempt_pending_disconnect and close.
Local ==
  [at : {"open", "join", "loop", "drain", "deliver", "flush", "report", "check",
         "read", "decide", "mark", "clear", "remaining", "gap", "attempt",
         "done"},
   draining : BOOLEAN,                             \* inside drain_once
   progress : BOOLEAN,                             \* it has taken a record
   item : Messages \cup Markers \cup {NoMessage},  \* the record it has taken
   taken : SUBSET Counters,                        \* copied by _flush_health
   forced : BOOLEAN,                               \* force_unexpected
   asked : Markers \cup {"none"},                  \* requested_expected
   expected : BOOLEAN]

At(t, label) == thread[t].at = label
Goto(t, label) == thread' = [thread EXCEPT ![t].at = label]
GapPending == counters \ {"rejected"} # {}

\* A ledger call raises.
Fail == failures < MaxFailures /\ failures' = failures + 1

----------------------------------------------------------------------------
(* The owned stdout reader: try_submit and request_source_disconnected.      *)

\* The first check of try_submit; after it the message is projected unlocked.
\* Notifications differ by name only, so any unsent one is the next.
TrySubmit(m) ==
  /\ incoming = NoMessage
  /\ m \notin sent /\ m = CHOOSE unsent \in Messages \ sent : TRUE
  /\ sent' = sent \cup {m}
  /\ IF accepting
     THEN incoming' = m /\ UNCHANGED counters
     ELSE counters' = counters \cup {"rejected"} /\ UNCHANGED incoming
  /\ UNCHANGED <<ledgerVars, accepting, closed, received, owner, hasty, queue, wanted, thread,
                 failures, ingested>>

Room == Len(queue) < MaxQueue

\* put_nowait raised queue.Full.
Overflow == counters' = counters \cup {"lost", "overflow"}

\* The projection is too large, which is no gap, or it passes the second check of
\* try_submit and is enqueued under _state_lock.
Enqueue ==
  /\ incoming # NoMessage
  /\ incoming' = NoMessage
  /\ \/ /\ counters' = counters \cup {"rejected"}
        /\ UNCHANGED <<queue, received>>
     \/ /\ accepting
        /\ received' = received \cup {incoming}
        /\ IF Room
           THEN queue' = Append(queue, incoming) /\ UNCHANGED counters
           ELSE Overflow /\ UNCHANGED queue
  /\ UNCHANGED <<ledgerVars, accepting, closed, sent, owner, hasty, wanted, thread, failures,
                 ingested>>

\* The projection failed: _reject with a reason, even after intake stopped.
RejectMalformed ==
  /\ incoming # NoMessage
  /\ incoming' = NoMessage
  /\ counters' = counters \cup {"malformed"}
  /\ received' = received \cup (IF accepting THEN {incoming} ELSE {})
  /\ UNCHANGED <<ledgerVars, accepting, closed, sent, owner, hasty, queue, wanted, thread,
                 failures, ingested>>

\* Mutant: the request is stored where the worker reads it, not queued.
RequestNow(kind) ==
  /\ accepting
  /\ accepting' = FALSE
  /\ wanted' = kind
  /\ UNCHANGED <<ledgerVars, closed, incoming, sent, received, owner, hasty, queue, counters,
                 thread, failures, ingested>>

\* The marker queues behind what was received; if it finds no room, that order
\* is lost and the disconnect becomes an unexpected one.
RequestSourceDisconnected(kind) ==
  /\ accepting
  /\ accepting' = FALSE
  /\ IF Room
     THEN queue' = Append(queue, kind) /\ UNCHANGED <<wanted, counters>>
     ELSE wanted' = "unexpected" /\ Overflow /\ UNCHANGED queue
  /\ UNCHANGED <<ledgerVars, closed, incoming, sent, received, owner, hasty, thread, failures,
                 ingested>>

----------------------------------------------------------------------------
(* drain_once and _flush_health, in thread t.                                *)

\* The loops of _run and of close start another drain.
StartDrain(t) ==
  /\ At(t, "loop")
  /\ t = "worker" => ~closed \/ queue # <<>>
  /\ thread' = [thread EXCEPT ![t].at = "drain", ![t].draining = TRUE,
                              ![t].progress = FALSE]
  /\ UNCHANGED <<ledgerVars, intakeVars, queue, wanted, counters, failures, ingested>>

WorkerExit ==
  /\ At("worker", "loop")
  /\ closed /\ queue = <<>>
  /\ Goto("worker", "done")
  /\ UNCHANGED <<ledgerVars, intakeVars, queue, wanted, counters, failures, ingested>>

Take(t) ==
  /\ At(t, "drain")
  /\ queue # <<>>
  /\ queue' = Tail(queue)
  /\ thread' = [thread EXCEPT ![t].at = "deliver", ![t].item = Head(queue),
                              ![t].progress = TRUE]
  /\ UNCHANGED <<ledgerVars, intakeVars, wanted, counters, failures, ingested>>

Delivered(t) ==
  thread' = [thread EXCEPT ![t].at = "drain", ![t].item = NoMessage]

\* A marker becomes the pending disconnect.
DeliverMarker(t) ==
  /\ At(t, "deliver")
  /\ thread[t].item \in Markers
  /\ wanted' = thread[t].item
  /\ Delivered(t)
  /\ UNCHANGED <<ledgerVars, intakeVars, queue, counters, failures, ingested>>

\* Mutant: a record that cannot be committed is not counted.
CommitLostSilently == UNCHANGED counters
CommitLost == counters' = counters \cup {"commit_lost"}

\* ingest_projection takes the record of a connected source and rejects that of
\* another one without a gap; if it raises, the record is counted as lost.
DeliverRecord(t) ==
  /\ At(t, "deliver")
  /\ thread[t].item \in Messages
  /\ Delivered(t)
  /\ \/ /\ link = "connected"
        /\ ingested' = ingested \cup {thread[t].item}
        /\ UNCHANGED <<counters, failures>>
     \/ /\ link # "connected"
        /\ UNCHANGED <<counters, failures, ingested>>
     \/ Fail /\ CommitLost /\ UNCHANGED ingested
  /\ UNCHANGED <<ledgerVars, intakeVars, queue, wanted>>

\* A drain ends, or an attempt finds nothing queued: the pending gaps are read before
\* the flush.  How much the drain took decides only whether close drains again.
ReadGaps(t) ==
  /\ \/ At(t, "drain") /\ (queue = <<>> \/ thread[t].progress)
     \/ At(t, "attempt") /\ queue = <<>>
  /\ thread' = [thread EXCEPT ![t].at = "flush", ![t].forced = GapPending,
                              ![t].progress = @ /\ t = "closer"]
  /\ UNCHANGED <<ledgerVars, intakeVars, queue, wanted, counters, failures, ingested>>

\* _flush_health copies the counters and zeroes them.
StartFlush(t) ==
  /\ At(t, "flush")
  /\ thread' = [thread EXCEPT ![t].at = "report", ![t].taken = counters]
  /\ counters' = {}
  /\ UNCHANGED <<ledgerVars, intakeVars, queue, wanted, failures, ingested>>

\* Mutant: the health event is recorded without its gap.
ReportedHealthOnly(c) == UNCHANGED ledgerVars

\* The ledger call that reports one counter.
Reported(c) ==
  CASE c \in {"lost", "commit_lost"} -> HealthGap
    [] c = "rejected" -> UNCHANGED ledgerVars
    [] c = "malformed" -> Incompatible
    [] c = "overflow" -> gap' = TRUE /\ UNCHANGED <<link, binding, terminal, exact>>

\* What a failing report counts again.
Restored(c) == IF c = "lost" THEN {"lost", "overflow"} ELSE {c}

\* A malformed notice also raises once the source is disconnected.
Report(t, c) ==
  /\ At(t, "report")
  /\ c \in thread[t].taken
  /\ \A e \in thread[t].taken : Rank[c] <= Rank[e]
  /\ thread' = [thread EXCEPT ![t].taken = @ \ {c}]
  /\ \/ Reported(c) /\ UNCHANGED <<counters, failures>>
     \/ /\ IF c = "malformed" /\ link # "connected" THEN UNCHANGED failures ELSE Fail
        /\ counters' = counters \cup Restored(c)
        /\ UNCHANGED ledgerVars
  /\ UNCHANGED <<intakeVars, queue, wanted, ingested>>

\* The flush is over; inside drain_once the attempt looks at the queue next.
EndFlush(t) ==
  /\ At(t, "report")
  /\ thread[t].taken = {}
  /\ Goto(t, IF thread[t].draining THEN "check" ELSE "read")
  /\ UNCHANGED <<ledgerVars, intakeVars, queue, wanted, counters, failures, ingested>>

----------------------------------------------------------------------------
(* _attempt_pending_disconnect, in thread t.                                 *)

\* The attempt returns, out of drain_once to _run or to the loop of close, and otherwise
\* out of close; the local variables are forgotten.
Returned(t) ==
  thread' = [thread EXCEPT
    ![t].draining = FALSE, ![t].progress = FALSE, ![t].forced = FALSE,
    ![t].asked = "none", ![t].expected = FALSE,
    ![t].at = IF t = "worker" THEN "loop"
              ELSE IF ~thread[t].draining THEN "done"
              ELSE IF thread[t].progress THEN "loop" ELSE "remaining"]

\* Nothing is disconnected while a record is queued.
CheckQueue(t) ==
  /\ \/ At(t, "check")
     \/ At(t, "attempt") /\ queue # <<>>
  /\ IF queue = <<>> THEN Goto(t, "read") ELSE Returned(t)
  /\ UNCHANGED <<ledgerVars, intakeVars, queue, wanted, counters, failures, ingested>>

ReadRequest(t) ==
  /\ At(t, "read")
  /\ IF wanted = "none" THEN Returned(t)
     ELSE thread' = [thread EXCEPT ![t].at = "decide", ![t].asked = wanted]
  /\ UNCHANGED <<ledgerVars, intakeVars, queue, wanted, counters, failures, ingested>>

\* Mutant: the request decides alone.
ExpectedAsAsked(t) == thread[t].asked = "expected"

\* A planned disconnect is expected only if no gap was or is pending.
Expected(t) == thread[t].asked = "expected" /\ ~thread[t].forced /\ ~GapPending

Decide(t) ==
  /\ At(t, "decide")
  /\ thread' = [thread EXCEPT ![t].at = "mark", ![t].expected = Expected(t)]
  /\ UNCHANGED <<ledgerVars, intakeVars, queue, wanted, counters, failures, ingested>>

\* Mutant: a call that raises clears the request too.
MarkOnce(t) ==
  /\ At(t, "mark")
  /\ \/ /\ IF link = "connected" THEN Disconnect(thread[t].expected)
           ELSE UNCHANGED ledgerVars
        /\ UNCHANGED failures
     \/ Fail /\ UNCHANGED ledgerVars
  /\ Goto(t, "clear")
  /\ UNCHANGED <<intakeVars, queue, wanted, counters, ingested>>

\* The ledger call; for a disconnected source it returns without effect.
Mark(t) ==
  /\ At(t, "mark")
  /\ \/ /\ IF link = "connected" THEN Disconnect(thread[t].expected)
           ELSE UNCHANGED ledgerVars
        /\ Goto(t, "clear")
        /\ UNCHANGED failures
     \/ Fail /\ Returned(t) /\ UNCHANGED ledgerVars
  /\ UNCHANGED <<intakeVars, queue, wanted, counters, ingested>>

Clear(t) ==
  /\ At(t, "clear")
  /\ wanted' = IF wanted = thread[t].asked THEN "none" ELSE wanted
  /\ Returned(t)
  /\ UNCHANGED <<ledgerVars, intakeVars, queue, counters, failures, ingested>>

----------------------------------------------------------------------------
(* close, with drain as the host calls it.                                   *)

\* close asks for the disconnect unless one is already pending.
ClosingRequest(kind) == IF owner.marks /\ wanted = "none" THEN kind ELSE wanted

\* The request that a close stores where the worker reads it is not queued: if the
\* worker has found the queue empty before, but records came since, it is ahead of them.
Overtakes ==
  IF owner.marks /\ wanted = "none" /\ At("worker", "read") /\ queue # <<>>
  THEN {"marked"} ELSE {}

Close(kind) ==
  /\ At("closer", "open")
  /\ accepting => owner.unasked
  /\ closed' = TRUE
  /\ accepting' = FALSE
  /\ wanted' = ClosingRequest(kind)
  /\ hasty' = hasty \cup Overtakes
  /\ Goto("closer", "join")
  /\ UNCHANGED <<ledgerVars, incoming, sent, received, owner, queue, counters, failures,
                 ingested>>

\* The worker has ended, or the timeout passed.
Join ==
  /\ At("closer", "join")
  /\ \/ At("worker", "done") /\ Goto("closer", "loop") /\ UNCHANGED hasty
     \/ /\ ~At("worker", "done") /\ owner.impatient
        /\ Goto("closer", "remaining")
        /\ hasty' = hasty \cup {"left"}
  /\ UNCHANGED <<ledgerVars, accepting, closed, incoming, sent, received, owner, queue,
                 wanted, counters, failures, ingested>>

\* The deadline passes before the first drain of close, or before another one.
OutOfTime ==
  /\ At("closer", "loop")
  /\ owner.impatient
  /\ Goto("closer", "remaining")
  /\ hasty' = hasty \cup {"late"}
  /\ UNCHANGED <<ledgerVars, accepting, closed, incoming, sent, received, owner, queue,
                 wanted, counters, failures, ingested>>

\* What is left in the queue makes the disconnect an unexpected one.
Remaining ==
  /\ At("closer", "remaining")
  /\ wanted' = IF owner.marks /\ queue # <<>> THEN "unexpected" ELSE wanted
  /\ Goto("closer", IF queue # <<>> THEN "gap" ELSE IF owner.marks THEN "attempt" ELSE "done")
  /\ UNCHANGED <<ledgerVars, intakeVars, queue, counters, failures, ingested>>

\* What is left is reported as a gap, which may fail, and thrown away unless the
\* worker still drains it.
RemainingGap ==
  /\ At("closer", "gap")
  /\ \/ HealthGap /\ UNCHANGED failures
     \/ Fail /\ UNCHANGED ledgerVars
  /\ queue' = IF At("worker", "done") THEN <<>> ELSE queue
  /\ Goto("closer", IF owner.marks /\ At("worker", "done") THEN "attempt" ELSE "done")
  /\ UNCHANGED <<intakeVars, wanted, counters, ingested>>

----------------------------------------------------------------------------
Init ==
  /\ link = "connected" /\ binding = "none" /\ terminal = FALSE
  /\ exact = FALSE /\ gap = FALSE
  /\ queue = <<>> /\ accepting = TRUE /\ closed = FALSE /\ wanted = "none"
  /\ counters = {} /\ incoming = NoMessage /\ failures = 0
  /\ sent = {} /\ received = {} /\ ingested = {}
  /\ owner \in Owners /\ hasty = {}
  /\ thread = [t \in Threads |->
       [at |-> IF t = "worker" THEN "loop" ELSE "open", draining |-> FALSE,
        progress |-> FALSE, item |-> NoMessage, taken |-> {}, forced |-> FALSE,
        asked |-> "none", expected |-> FALSE]]

Reader ==
  \/ \E m \in Messages : TrySubmit(m)
  \/ Enqueue
  \/ RejectMalformed
  \/ \E kind \in Markers : RequestSourceDisconnected(kind)

Drain(t) ==
  \/ StartDrain(t) \/ Take(t) \/ DeliverMarker(t) \/ DeliverRecord(t)
  \/ ReadGaps(t) \/ StartFlush(t) \/ (\E c \in Counters : Report(t, c)) \/ EndFlush(t)
  \/ CheckQueue(t) \/ ReadRequest(t) \/ Decide(t) \/ Mark(t) \/ Clear(t)

Worker == WorkerExit \/ Drain("worker")

Closer ==
  \/ \E kind \in Markers : Close(kind)
  \/ Join \/ OutOfTime \/ Remaining \/ RemainingGap
  \/ Drain("closer")

\* The runtime observer binds the turn and records its end.
Observer ==
  /\ Bind \/ Finish
  /\ UNCHANGED <<intakeVars, queue, wanted, counters, thread, failures, ingested>>

Next == Reader \/ Worker \/ Closer \/ Observer

Spec == Init /\ [][Next]_vars

\* The worker runs until it is told to stop, and a close that began goes on; the
\* source need not send, nor its owner close.
Fairness ==
  /\ WF_vars(Worker)
  /\ WF_vars(Join \/ OutOfTime \/ Remaining \/ RemainingGap \/ Drain("closer"))

FairSpec == Spec /\ Fairness

----------------------------------------------------------------------------
(* Properties.                                                               *)

\* The type invariant.
TypeOK ==
  /\ link \in {"connected", "disconnected"} /\ binding \in {"none", "active", "ended"}
  /\ terminal \in BOOLEAN /\ exact \in BOOLEAN /\ gap \in BOOLEAN
  /\ queue \in Seq(Messages \cup Markers) /\ Len(queue) <= MaxQueue
  /\ accepting \in BOOLEAN /\ closed \in BOOLEAN
  /\ wanted \in Markers \cup {"none"}
  /\ counters \subseteq Counters
  /\ incoming \in Messages \cup {NoMessage}
  /\ thread \in [Threads -> Local]
  /\ failures \in 0 .. MaxFailures /\ owner \in Owners
  /\ hasty \subseteq {"marked", "left", "late"}
  /\ ingested \subseteq received /\ received \subseteq sent /\ sent \subseteq Messages

\* Records on their way to the ledger.
Carried == {queue[i] : i \in 1 .. Len(queue)} \cup {thread[t].item : t \in Threads}

\* No close got ahead of the worker: it stored no request between the worker's looks at a
\* queue that had records by then, and did not go on to disconnect without the worker.
\* Both ways to do so are real (RemainingBecomeGap, DisconnectBehindReceived), and what
\* follows is claimed of every other close, the host's included.
Orderly == "marked" \notin hasty /\ (owner.marks => "left" \notin hasty)

\* A planned disconnect is honest: once the source is disconnected, a dispatch
\* bound to it that still claims exact coverage saw every notification that was
\* received, whatever was lost, malformed or slow to drain on the way.
ExactMeansIngested ==
  Orderly /\ link = "disconnected" /\ exact => received \subseteq ingested

\* A loss shows: the project knows of a gap, or a thread is about to report one.
LossShows == gap \/ GapPending \/ \E t \in Threads : thread[t].taken \ {"rejected"} # {}

\* request_source_disconnected: "Queue disconnect behind every notification
\* already received", so none of them is still on its way when the disconnect
\* takes effect, unless the order was lost and that shows.  Said of every close.
DisconnectBehindReceived ==
  link = "disconnected" => received \cap Carried = {} \/ LossShows

\* A disconnect that the owner requests, or that a close marks as the host does, takes
\* effect behind what was received, unless that close got ahead of the worker.
DisconnectComesLast == Orderly => DisconnectBehindReceived

\* No record vanishes: what was received and is neither ingested nor on its way
\* is a gap the project knows of, or one that a thread is about to report.
NoSilentLoss ==
  TypeOK /\ (Orderly => received \subseteq ingested \cup Carried \/ LossShows)

\* close: "remaining records become a gap", also the one that the worker still
\* holds when close returns without it.
RemainingBecomeGap ==
  At("closer", "done") /\ link = "disconnected" /\ exact =>
    thread["worker"].item \notin received

\* A close whose deadline has passed has one more try at the ledger or none, and it failed;
\* the host tries again (ObservabilityHost).
TriedOnce == hasty \cap {"left", "late"} # {} /\ failures > 0

\* A counted loss is told to the ledger, although a call on the way fails.
GapTold == counters \cap {"lost", "commit_lost"} # {} ~> gap \/ TriedOnce

\* Once intake has stopped, for a request or for a close that marks the disconnect, the
\* disconnect takes effect whoever closes when and although a ledger call fails, each
\* request being tried at least twice; and the worker ends once it is told to stop.
DisconnectServed ==
  /\ ~accepting /\ (owner.marks \/ ~owner.unasked)
       ~> link = "disconnected" \/ failures > 1 \/ TriedOnce
  /\ closed ~> At("worker", "done")

=============================================================================
