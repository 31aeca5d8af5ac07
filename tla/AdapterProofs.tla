----------------------------- MODULE AdapterProofs -----------------------------
(***************************************************************************)
(* Theorems about AdapterChannel, for any messages, any bounds of the queue   *)
(* and of failing calls, and any owners, the host among them.                *)
(*                                                                         *)
(* They speak of every close that does not get ahead of the worker           *)
(* (Orderly); the two ways to get ahead are found by MCAdapterOrder.cfg and   *)
(* MCAdapterTimeout.cfg.                                                     *)
(*                                                                         *)
(* The argument: the marker is the last thing that is queued (MarkerLast) and  *)
(* one thread at a time drains (Alone), so when the marker is delivered         *)
(* nothing is on its way; and when a close stores its request past the queue,   *)
(* whoever reads it has found the queue empty after intake stopped             *)
(* (Disconnecting).  Until then what is neither on its way nor ingested is      *)
(* about to be told, or was told to a ledger that withdrew its claim of exact   *)
(* coverage (Fed).                                                           *)
(***************************************************************************)
EXTENDS AdapterChannel, TLAPS

USE MessagesAssumption

\* What is projected was sent, and what a thread or the queue holds was received.
Held ==
  /\ incoming \in sent \cup {NoMessage}
  /\ \A i \in 1 .. Len(queue) : queue[i] \in Messages => queue[i] \in received
  /\ \A t \in Threads : thread[t].item \in Messages => thread[t].item \in received

Typed == TypeOK /\ Held

\* A record or a copied counter is only in the hands of the thread at that step.
Hands ==
  \A t \in Threads : /\ ~At(t, "deliver") => thread[t].item = NoMessage
                     /\ ~At(t, "report") => thread[t].taken = {}

\* The worker makes its attempts inside drain_once.
Draining == thread["worker"].at \notin {"loop", "done"} => thread["worker"].draining

\* The closer drains behind a worker that has ended, with nothing left to drain; and a
\* close that marks the disconnect has waited for that.
Alone ==
  /\ closed => ~accepting
  /\ ~At("closer", "open") => closed
  /\ At("worker", "done") => closed /\ queue = <<>>
  /\ thread["closer"].at \notin {"open", "join", "remaining", "gap", "done"} =>
       At("worker", "done")
  /\ owner.marks /\ thread["closer"].at \notin {"open", "join"} => At("worker", "done")

\* The marker is the last thing to be queued.
MarkerLast ==
  /\ \A i \in 1 .. Len(queue) : queue[i] \in Markers => i = Len(queue) /\ ~accepting
  /\ \A t \in Threads : thread[t].item \in Markers => queue = <<>> /\ ~accepting

Drained == ~accepting /\ queue = <<>> /\ \A t \in Threads : thread[t].item \notin Messages
Behind == ~accepting /\ (Drained \/ LossShows)

\* A close has marked the disconnect, maybe past the queue.
Marked == closed /\ owner.marks

\* A disconnect is wanted, or at least read when a close has marked it, and then decided
\* and marked behind what was received.
Disconnecting ==
  /\ \A t \in Threads : ~Marked \/ At(t, "read") =>
       (wanted # "none" => Behind) /\ (wanted = "expected" => Drained)
  /\ \A t \in Threads : thread[t].at \in {"decide", "mark", "clear"} =>
       Behind /\ (thread[t].asked = "expected" => Drained)
  /\ link # "connected" => Behind

\* Losses that reach the claim of exact coverage when they are told.
Losses == {"lost", "commit_lost", "malformed"}
LossPending ==
  counters \cap Losses # {} \/ \E t \in Threads : thread[t].taken \cap Losses # {}
Withdrawn == gap /\ ~exact

\* While the source is connected, what is missing is on its way, about to be told, or
\* told, and then nothing claims to be exact.
Fed ==
  link = "connected" =>
    /\ exact => binding = "active"
    /\ received \subseteq ingested \cup Carried \/ LossPending \/ Withdrawn
    /\ \A t \in Threads : At(t, "mark") /\ thread[t].expected =>
         thread[t].asked = "expected" /\ (received \subseteq ingested \/ Withdrawn)

Behaved ==
  /\ Hands /\ Draining /\ Alone /\ MarkerLast /\ Disconnecting /\ Fed
  /\ received \subseteq ingested \cup Carried \/ LossShows
  /\ link # "connected" /\ exact => received \subseteq ingested

\* Only a close that marks the disconnect gets ahead of the worker.
AdapterInv == Typed /\ (Orderly => Behaved) /\ (~Orderly => Marked)

----------------------------------------------------------------------------
(* Types.                                                                    *)

\* A thread is changed in one place.
LEMMA LocalTyped ==
  ASSUME Typed, NEW t \in Threads, NEW l \in Local, thread' = [thread EXCEPT ![t] = l]
  PROVE  thread' \in [Threads -> Local] /\ thread'[t] = l
         /\ \A u \in Threads : u # t => thread'[u] = thread[u]
PROOF BY DEF Typed, TypeOK

\* The fields of a thread.
LEMMA LocalFields ==
  ASSUME Typed, NEW t \in Threads
  PROVE  /\ thread[t] \in Local
         /\ thread[t].draining \in BOOLEAN /\ thread[t].progress \in BOOLEAN
         /\ thread[t].item \in Messages \cup Markers \cup {NoMessage}
         /\ thread[t].taken \subseteq Counters
         /\ thread[t].forced \in BOOLEAN
         /\ thread[t].asked \in Markers \cup {"none"}
         /\ thread[t].expected \in BOOLEAN
PROOF BY DEF Typed, TypeOK, Local

LEMMA QueueFacts ==
  ASSUME Typed
  PROVE  /\ queue \in Seq(Messages \cup Markers) /\ Len(queue) \in Nat
         /\ \A i \in 1 .. Len(queue) : queue[i] \in Messages \cup Markers
         /\ queue # <<>> => /\ Head(queue) = queue[1] /\ 1 \in 1 .. Len(queue)
                            /\ Tail(queue) \in Seq(Messages \cup Markers)
                            /\ Len(Tail(queue)) = Len(queue) - 1
                            /\ \A i \in 1 .. Len(Tail(queue)) :
                                 i + 1 \in 1 .. Len(queue) /\ Tail(queue)[i] = queue[i + 1]
PROOF BY DEF Typed, TypeOK

LEMMA QueueMore ==
  ASSUME Typed, NEW m \in Messages \cup Markers, queue' = Append(queue, m)
  PROVE  /\ queue' \in Seq(Messages \cup Markers) /\ Len(queue') = Len(queue) + 1
         /\ queue'[Len(queue) + 1] = m
         /\ \A i \in 1 .. Len(queue) : queue'[i] = queue[i]
PROOF BY QueueFacts

LEMMA ReaderTyped ==
  ASSUME Typed, Reader
  PROVE  Typed'
PROOF
<1> USE DEF ledgerVars
<1>1. ASSUME NEW m \in Messages, TrySubmit(m) PROVE Typed'
  BY <1>1 DEF TrySubmit, Typed, TypeOK, Held, Counters, Rank
<1>2. CASE Enqueue
  <2>1. incoming \in Messages \cup Markers
    BY <1>2 DEF Enqueue, Typed, TypeOK
  <2>2. CASE Room /\ queue' = Append(queue, incoming) /\ received' = received \cup {incoming}
             /\ UNCHANGED counters
    <3>1. /\ queue' \in Seq(Messages \cup Markers) /\ Len(queue') = Len(queue) + 1
          /\ queue'[Len(queue) + 1] = incoming
          /\ \A i \in 1 .. Len(queue) : queue'[i] = queue[i]
      BY <2>1, <2>2, QueueMore
    <3>2. Len(queue') <= MaxQueue
      BY <2>2, <3>1, QueueFacts, QueueAssumption DEF Room
    <3>3. Held'
      BY <1>2, <2>2, <3>1, QueueFacts DEF Enqueue, Typed, Held
    <3>4. /\ ingested' \subseteq received' /\ received' \subseteq sent'
          /\ sent' \subseteq Messages /\ incoming' = NoMessage
      BY <1>2, <2>2 DEF Enqueue, Typed, TypeOK, Held
    <3>5. UNCHANGED <<ledgerVars, accepting, closed, sent, owner, hasty, wanted, thread,
                      failures, ingested, counters>>
      BY <1>2, <2>2 DEF Enqueue
    <3> QED
      BY <3>1, <3>2, <3>3, <3>4, <3>5 DEF Typed, TypeOK
  <2>3. CASE UNCHANGED queue
    BY <1>2, <2>3 DEF Enqueue, Overflow, Typed, TypeOK, Held, Counters, Rank
  <2> QED
    BY <1>2, <2>2, <2>3 DEF Enqueue
<1>3. CASE RejectMalformed
  BY <1>3 DEF RejectMalformed, Typed, TypeOK, Held, Counters, Rank
<1>4. ASSUME NEW kind \in Markers, RequestSourceDisconnected(kind) PROVE Typed'
  <2>1. CASE Room /\ queue' = Append(queue, kind) /\ UNCHANGED <<wanted, counters>>
    <3>1. /\ queue' \in Seq(Messages \cup Markers) /\ Len(queue') = Len(queue) + 1
          /\ queue'[Len(queue) + 1] = kind
          /\ \A i \in 1 .. Len(queue) : queue'[i] = queue[i]
      BY <2>1, QueueMore
    <3>2. Len(queue') <= MaxQueue
      BY <2>1, <3>1, QueueFacts, QueueAssumption DEF Room
    <3>3. Held'
      BY <1>4, <2>1, <3>1, QueueFacts DEF RequestSourceDisconnected, Typed, Held
    <3> QED
      BY <1>4, <2>1, <3>1, <3>2, <3>3 DEF RequestSourceDisconnected, Typed, TypeOK
  <2>2. CASE UNCHANGED queue /\ wanted' = "unexpected" /\ Overflow
    BY <1>4, <2>2
       DEF RequestSourceDisconnected, Overflow, Typed, TypeOK, Held, Counters, Rank, Markers
  <2> QED
    BY <1>4, <2>1, <2>2 DEF RequestSourceDisconnected
<1> QED
  BY <1>1, <1>2, <1>3, <1>4 DEF Reader

LEMMA LedgerTyped ==
  ASSUME Typed, NEW expected \in BOOLEAN,
         \/ Bind \/ Finish \/ HealthGap \/ Incompatible \/ Disconnect(expected)
         \/ UNCHANGED ledgerVars
  PROVE  /\ link' \in {"connected", "disconnected"} /\ binding' \in {"none", "active", "ended"}
         /\ terminal' \in BOOLEAN /\ exact' \in BOOLEAN /\ gap' \in BOOLEAN
PROOF
<1>1. /\ link \in {"connected", "disconnected"} /\ binding \in {"none", "active", "ended"}
      /\ terminal \in BOOLEAN /\ exact \in BOOLEAN /\ gap \in BOOLEAN
  BY DEF Typed, TypeOK
<1>2. CASE Bind
  BY <1>1, <1>2 DEF Bind, Claim
<1>3. CASE Finish
  BY <1>1, <1>3 DEF Finish
<1>4. CASE HealthGap
  BY <1>1, <1>4 DEF HealthGap
<1>5. CASE Incompatible
  BY <1>1, <1>5 DEF Incompatible
<1>6. CASE Disconnect(expected)
  BY <1>1, <1>6 DEF Disconnect, Learn
<1>7. CASE UNCHANGED ledgerVars
  BY <1>1, <1>7 DEF ledgerVars
<1> QED
  BY <1>2, <1>3, <1>4, <1>5, <1>6, <1>7

\* An attempt that is over leaves the thread with nothing but its place.
LEMMA ReturnedFacts ==
  ASSUME Typed, NEW t \in Threads, Returned(t)
  PROVE  /\ thread' \in [Threads -> Local]
         /\ \A u \in Threads : u # t => thread'[u] = thread[u]
         /\ \A u \in Threads : /\ thread'[u].item = thread[u].item
                               /\ thread'[u].taken = thread[u].taken
         /\ thread'[t].at \in {"loop", "remaining", "done"}
         /\ t = "worker" => thread'[t].at = "loop"
PROOF
<1>1. thread \in [Threads -> Local] /\ thread[t] \in Local
  BY LocalFields DEF Typed, TypeOK
<1> QED
  BY <1>1 DEF Returned, Local

LEMMA DrainTyped ==
  ASSUME Typed, NEW t \in Threads, Drain(t)
  PROVE  Typed'
PROOF
<1> USE DEF ledgerVars, intakeVars
<1>0. thread \in [Threads -> Local] /\ thread[t] \in Local
  BY LocalFields DEF Typed, TypeOK
<1>1. CASE StartDrain(t) \/ EndFlush(t) \/ CheckQueue(t) \/ Clear(t)
  <2>1. thread' \in [Threads -> Local] /\ \A u \in Threads : thread'[u].item = thread[u].item
    <3>1. CASE StartDrain(t)
      BY <1>0, <3>1 DEF StartDrain, Local
    <3>2. CASE EndFlush(t) \/ (CheckQueue(t) /\ queue = <<>>)
      BY <1>0, <3>2 DEF EndFlush, CheckQueue, Goto, Local
    <3>3. CASE Clear(t) \/ (CheckQueue(t) /\ queue # <<>>)
      BY <3>3, ReturnedFacts DEF Clear, CheckQueue
    <3> QED
      BY <1>1, <3>1, <3>2, <3>3
  <2>2. wanted' \in Markers \cup {"none"}
    BY <1>1 DEF StartDrain, EndFlush, CheckQueue, Clear, Typed, TypeOK
  <2> QED
    BY <1>1, <2>1, <2>2 DEF StartDrain, EndFlush, CheckQueue, Clear, Typed, TypeOK, Held
<1>2. CASE Take(t)
  <2>1. /\ thread' \in [Threads -> Local] /\ thread'[t].item = queue[1]
        /\ \A u \in Threads : u # t => thread'[u].item = thread[u].item
    <3>1. Head(queue) \in Messages \cup Markers /\ Head(queue) = queue[1]
      BY <1>2, QueueFacts DEF Take
    <3> QED
      BY <1>0, <1>2, <3>1 DEF Take, Local
  <2>2. Held'
    BY <1>2, <2>1, QueueFacts DEF Take, Typed, Held
  <2>3. Tail(queue) \in Seq(Messages \cup Markers) /\ Len(Tail(queue)) <= MaxQueue
    BY <1>2, QueueFacts, QueueAssumption DEF Take, Typed, TypeOK
  <2> QED
    BY <1>2, <2>1, <2>2, <2>3 DEF Take, Typed, TypeOK
<1>3. CASE DeliverMarker(t) \/ DeliverRecord(t)
  <2>1. /\ thread' \in [Threads -> Local]
        /\ \A u \in Threads : thread'[u].item \in {thread[u].item, NoMessage}
    BY <1>0, <1>3 DEF DeliverMarker, DeliverRecord, Delivered, Local
  <2>2. Held'
    BY <1>3, <2>1 DEF DeliverMarker, DeliverRecord, Typed, Held
  <2>3. CASE DeliverMarker(t)
    BY <2>1, <2>2, <2>3 DEF DeliverMarker, Typed, TypeOK
  <2>4. CASE DeliverRecord(t)
    <3>1. ingested' \subseteq received
      BY <2>4 DEF DeliverRecord, Typed, TypeOK, Held
    <3>2. counters' \subseteq Counters /\ failures' \in 0 .. MaxFailures
      BY <2>4, FailureAssumption
         DEF DeliverRecord, Fail, CommitLost, Typed, TypeOK, Counters, Rank
    <3> QED
      BY <2>1, <2>2, <2>4, <3>1, <3>2 DEF DeliverRecord, Typed, TypeOK
  <2> QED
    BY <1>3, <2>3, <2>4
<1>4. CASE ReadGaps(t) \/ StartFlush(t) \/ ReadRequest(t) \/ Decide(t)
  <2>1. /\ wanted \in Markers \cup {"none"} /\ counters \subseteq Counters
        /\ GapPending \in BOOLEAN /\ Expected(t) \in BOOLEAN
    BY DEF Typed, TypeOK, GapPending, Expected
  <2>2. thread' \in [Threads -> Local] /\ \A u \in Threads : thread'[u].item = thread[u].item
    <3>1. CASE ReadRequest(t) /\ Returned(t)
      BY <3>1, ReturnedFacts
    <3>2. CASE ReadGaps(t) \/ StartFlush(t) \/ Decide(t) \/ (ReadRequest(t) /\ ~Returned(t))
      BY <1>0, <2>1, <3>2 DEF ReadGaps, StartFlush, ReadRequest, Decide, Local
    <3> QED
      BY <1>4, <3>1, <3>2
  <2> QED
    BY <1>4, <2>2 DEF ReadGaps, StartFlush, ReadRequest, Decide, Typed, TypeOK, Held
<1>5. ASSUME NEW c \in Counters, Report(t, c) PROVE Typed'
  <2>1. thread' \in [Threads -> Local] /\ \A u \in Threads : thread'[u].item = thread[u].item
    BY <1>0, <1>5 DEF Report, Local
  <2>2. Bind \/ Finish \/ HealthGap \/ Incompatible \/ UNCHANGED ledgerVars
        \/ (gap' = TRUE /\ UNCHANGED <<link, binding, terminal, exact>>)
    BY <1>5 DEF Report, Reported, Counters, Rank
  <2>3. /\ link' \in {"connected", "disconnected"} /\ binding' \in {"none", "active", "ended"}
        /\ terminal' \in BOOLEAN /\ exact' \in BOOLEAN /\ gap' \in BOOLEAN
    <3>1. CASE gap' = TRUE /\ UNCHANGED <<link, binding, terminal, exact>>
      BY <3>1 DEF Typed, TypeOK
    <3> QED
      BY <2>2, <3>1, LedgerTyped
  <2>4. counters' \subseteq Counters /\ failures' \in 0 .. MaxFailures
    BY <1>5, FailureAssumption DEF Report, Restored, Fail, Typed, TypeOK, Counters, Rank
  <2> QED
    BY <1>5, <2>1, <2>3, <2>4 DEF Report, Typed, TypeOK, Held
<1>6. CASE Mark(t)
  <2>1. thread' \in [Threads -> Local] /\ \A u \in Threads : thread'[u].item = thread[u].item
    <3>1. CASE Returned(t)
      BY <3>1, ReturnedFacts
    <3>2. CASE Goto(t, "clear")
      BY <1>0, <3>2 DEF Goto, Local
    <3> QED
      BY <1>6, <3>1, <3>2 DEF Mark
  <2>2. Disconnect(thread[t].expected) \/ UNCHANGED ledgerVars
    BY <1>6 DEF Mark
  <2>3. /\ link' \in {"connected", "disconnected"} /\ binding' \in {"none", "active", "ended"}
        /\ terminal' \in BOOLEAN /\ exact' \in BOOLEAN /\ gap' \in BOOLEAN
    BY <2>2, LocalFields, LedgerTyped
  <2>4. failures' \in 0 .. MaxFailures
    BY <1>6, FailureAssumption DEF Mark, Fail, Typed, TypeOK
  <2> QED
    BY <1>6, <2>1, <2>3, <2>4 DEF Mark, Typed, TypeOK, Held
<1> QED
  BY <1>1, <1>2, <1>3, <1>4, <1>5, <1>6 DEF Drain

LEMMA TypedStep ==
  ASSUME Typed, [Next]_vars
  PROVE  Typed'
PROOF
<1> USE DEF ledgerVars, intakeVars
<1>0. /\ thread \in [Threads -> Local] /\ "worker" \in Threads /\ "closer" \in Threads
      /\ thread["worker"] \in Local /\ thread["closer"] \in Local
  BY LocalFields DEF Typed, TypeOK, Threads
<1>1. CASE WorkerExit \/ Join \/ OutOfTime
  <2>1. thread' \in [Threads -> Local] /\ \A u \in Threads : thread'[u].item = thread[u].item
    BY <1>0, <1>1 DEF WorkerExit, Join, OutOfTime, Goto, Local
  <2>2. hasty' \subseteq {"marked", "left", "late"}
    BY <1>1 DEF WorkerExit, Join, OutOfTime, Typed, TypeOK
  <2> QED
    BY <1>1, <2>1, <2>2 DEF WorkerExit, Join, OutOfTime, Typed, TypeOK, Held
<1>2. ASSUME NEW kind \in Markers, Close(kind) PROVE Typed'
  <2>1. thread' \in [Threads -> Local] /\ \A u \in Threads : thread'[u].item = thread[u].item
    BY <1>0, <1>2 DEF Close, Goto, Local
  <2>2. wanted' \in Markers \cup {"none"}
    BY <1>2 DEF Close, ClosingRequest, Typed, TypeOK
  <2>3. hasty' \subseteq {"marked", "left", "late"}
    BY <1>2 DEF Close, Overtakes, Typed, TypeOK
  <2> QED
    BY <1>2, <2>1, <2>2, <2>3 DEF Close, Typed, TypeOK, Held
<1>3. CASE Remaining
  <2>1. thread' \in [Threads -> Local] /\ \A u \in Threads : thread'[u].item = thread[u].item
    BY <1>0, <1>3 DEF Remaining, Goto, Local
  <2>2. wanted' \in Markers \cup {"none"}
    BY <1>3 DEF Remaining, Markers, Typed, TypeOK
  <2> QED
    BY <1>3, <2>1, <2>2 DEF Remaining, Typed, TypeOK, Held
<1>4. CASE RemainingGap
  <2>1. thread' \in [Threads -> Local] /\ \A u \in Threads : thread'[u].item = thread[u].item
    BY <1>0, <1>4 DEF RemainingGap, Goto, Local
  <2>2. HealthGap \/ UNCHANGED ledgerVars
    BY <1>4 DEF RemainingGap
  <2>3. /\ link' \in {"connected", "disconnected"} /\ binding' \in {"none", "active", "ended"}
        /\ terminal' \in BOOLEAN /\ exact' \in BOOLEAN /\ gap' \in BOOLEAN
    BY <2>2, LedgerTyped
  <2>4. failures' \in 0 .. MaxFailures
    BY <1>4, FailureAssumption DEF RemainingGap, Fail, Typed, TypeOK
  <2>5. queue' \in Seq(Messages \cup Markers) /\ Len(queue') <= MaxQueue
    BY <1>4, QueueAssumption DEF RemainingGap, Typed, TypeOK
  <2>6. Held'
    BY <1>4, <2>1 DEF RemainingGap, Typed, Held
  <2> QED
    BY <1>4, <2>1, <2>3, <2>4, <2>5, <2>6 DEF RemainingGap, Typed, TypeOK
<1>5. CASE Observer
  <2>1. /\ link' \in {"connected", "disconnected"} /\ binding' \in {"none", "active", "ended"}
        /\ terminal' \in BOOLEAN /\ exact' \in BOOLEAN /\ gap' \in BOOLEAN
    BY <1>5, LedgerTyped DEF Observer
  <2> QED
    BY <1>5, <2>1 DEF Observer, Typed, TypeOK, Held
<1>6. CASE UNCHANGED vars
  BY <1>6 DEF vars, Typed, TypeOK, Held
<1> QED
  BY <1>0, <1>1, <1>2, <1>3, <1>4, <1>5, <1>6, ReaderTyped, DrainTyped
     DEF Next, Worker, Closer

----------------------------------------------------------------------------
(* Threads and losses.                                                       *)

Idle == {"open", "join", "remaining", "gap", "done"}

\* One thread drains at a time.
LEMMA OneDrains ==
  ASSUME Typed, Hands, Alone, NEW t \in Threads, thread[t].at \notin Idle,
         NEW u \in Threads, u # t
  PROVE  thread[u].at \in Idle /\ thread[u].item = NoMessage /\ thread[u].taken = {}
PROOF
<1>1. thread[u].at \in Idle
  BY DEF Alone, At, Threads, Idle
<1> QED
  BY <1>1 DEF Hands, At, Idle

\* What a close did is not forgotten.
LEMMA OrderlyStep ==
  ASSUME Typed, [Next]_vars
  PROVE  owner' = owner /\ (closed => closed') /\ (Orderly' => Orderly)
PROOF
<1>1. owner' = owner /\ (closed => closed') /\ hasty \subseteq hasty'
  BY DEF Next, Reader, TrySubmit, Enqueue, RejectMalformed, RequestSourceDisconnected,
         Worker, WorkerExit, Closer, Close, Join, OutOfTime, Remaining, RemainingGap, Drain,
         StartDrain, Take, DeliverMarker, DeliverRecord, ReadGaps, StartFlush, Report,
         EndFlush, CheckQueue, ReadRequest, Decide, Mark, Clear, Observer, vars, intakeVars
<1> QED
  BY <1>1 DEF Orderly

\* Where a thread goes, it goes alone.
LEMMA DrainLocal ==
  ASSUME Typed, NEW t \in Threads, Drain(t)
  PROVE  /\ \A u \in Threads : u # t => thread'[u] = thread[u]
         /\ thread[t].at \notin Idle
         /\ UNCHANGED <<accepting, closed, incoming, sent, received, owner>>
PROOF
BY
   DEF Drain, StartDrain, Take, DeliverMarker, DeliverRecord, Delivered, ReadGaps, StartFlush,
       Report, EndFlush, CheckQueue, ReadRequest, Decide, Mark, Clear, Goto, Returned, At,
       Idle, intakeVars, Typed, TypeOK

LEMMA HandsStep ==
  ASSUME Typed, Hands, [Next]_vars
  PROVE  Hands'
PROOF
<1>0. thread \in [Threads -> Local] /\ "worker" \in Threads /\ "closer" \in Threads
  BY DEF Typed, TypeOK, Threads
<1>1. CASE UNCHANGED thread
  BY <1>1 DEF Hands, At
<1>2. ASSUME NEW t \in Threads, Drain(t) PROVE Hands'
  <2>1. thread[t] \in Local
    BY <1>0
  <2>2. /\ thread'[t].at # "deliver" => thread'[t].item = NoMessage
        /\ thread'[t].at # "report" => thread'[t].taken = {}
    <3>1. /\ thread[t].at # "deliver" => thread[t].item = NoMessage
          /\ thread[t].at # "report" => thread[t].taken = {}
      BY DEF Hands, At
    <3>2. CASE StartDrain(t) \/ Take(t) \/ DeliverMarker(t) \/ DeliverRecord(t)
      BY <1>0, <2>1, <3>1, <3>2
         DEF StartDrain, Take, DeliverMarker, DeliverRecord, Delivered, Local, At
    <3>3. CASE ReadGaps(t) \/ StartFlush(t) \/ EndFlush(t)
      BY <1>0, <2>1, <3>1, <3>3 DEF ReadGaps, StartFlush, EndFlush, Goto, Local, At
    <3>4. CASE CheckQueue(t) \/ ReadRequest(t) \/ Decide(t) \/ Mark(t) \/ Clear(t)
      <4>1. thread[t].item = NoMessage /\ thread[t].taken = {}
        BY <3>1, <3>4 DEF CheckQueue, ReadRequest, Decide, Mark, Clear, At
      <4>2. CASE Returned(t)
        BY <4>1, <4>2, ReturnedFacts
      <4>3. CASE ~Returned(t)
        BY <1>0, <2>1, <3>4, <4>1, <4>3
           DEF CheckQueue, ReadRequest, Decide, Mark, Clear, Goto, Local
      <4> QED
        BY <4>2, <4>3
    <3>5. ASSUME NEW c \in Counters, Report(t, c)
          PROVE  /\ thread'[t].at # "deliver" => thread'[t].item = NoMessage
                 /\ thread'[t].at # "report" => thread'[t].taken = {}
      BY <1>0, <2>1, <3>1, <3>5 DEF Report, Local, At
    <3> QED
      BY <1>2, <3>2, <3>3, <3>4, <3>5 DEF Drain
  <2> QED
    BY <1>2, <2>2, DrainLocal DEF Hands, At
<1>3. CASE WorkerExit \/ Join \/ OutOfTime \/ Remaining \/ RemainingGap
           \/ \E kind \in Markers : Close(kind)
  BY <1>0, <1>3
     DEF WorkerExit, Join, OutOfTime, Remaining, RemainingGap, Close, Goto, Hands, At, Local
<1>4. CASE Reader \/ Observer \/ UNCHANGED vars
  BY <1>1, <1>4
     DEF Reader, TrySubmit, Enqueue, RejectMalformed, RequestSourceDisconnected, Observer, vars
<1> QED
  BY <1>0, <1>2, <1>3, <1>4 DEF Next, Worker, Closer

PendingIn(X) == counters \cap X # {} \/ \E t \in Threads : thread[t].taken \cap X # {}

LEMMA LossesShow ==
  ASSUME TypeOK
  PROVE  /\ LossShows <=> gap \/ PendingIn(Counters \ {"rejected"})
         /\ LossPending <=> PendingIn(Losses)
PROOF
<1>1. counters \cap (Counters \ {"rejected"}) = counters \ {"rejected"}
  BY DEF TypeOK
<1>2. \A t \in Threads :
        thread[t].taken \cap (Counters \ {"rejected"}) = thread[t].taken \ {"rejected"}
  BY DEF TypeOK, Local
<1> QED
  BY <1>1, <1>2 DEF LossShows, GapPending, PendingIn, LossPending

\* A counter leaves the adapter through the report that tells it.
LEMMA PendingStays ==
  ASSUME Typed, Hands, [Next]_vars, NEW X, PendingIn(X)
  PROVE  PendingIn(X)' \/ \E t \in Threads, c \in X \cap Counters : Report(t, c) /\ Reported(c)
PROOF
<1>0. thread \in [Threads -> Local] /\ "worker" \in Threads /\ "closer" \in Threads
  BY DEF Typed, TypeOK, Threads
<1>1. /\ counters \subseteq counters'
      /\ \A u \in Threads : thread'[u].taken = thread[u].taken
      => PendingIn(X)'
  BY DEF PendingIn
<1>3. ASSUME NEW t \in Threads, Drain(t)
      PROVE  PendingIn(X)' \/ \E c \in X \cap Counters : Report(t, c) /\ Reported(c)
  <2>1. thread[t] \in Local /\ \A u \in Threads : u # t => thread'[u] = thread[u]
    BY <1>0, <1>3, DrainLocal
  <2>2. CASE StartFlush(t)
    <3>1. thread[t].taken = {}
      BY <2>2 DEF StartFlush, Hands, At
    <3>2. thread'[t].taken = counters
      BY <1>0, <2>1, <2>2 DEF StartFlush, Local
    <3>3. CASE counters \cap X # {}
      BY <3>2, <3>3 DEF PendingIn
    <3>4. ASSUME NEW u \in Threads, thread[u].taken \cap X # {} PROVE PendingIn(X)'
      BY <2>1, <3>1, <3>4 DEF PendingIn
    <3> QED
      BY <3>3, <3>4 DEF PendingIn
  <2>3. ASSUME NEW c \in Counters, Report(t, c)
        PROVE  PendingIn(X)' \/ (c \in X /\ Reported(c))
    <3>1. thread'[t].taken = thread[t].taken \ {c}
      BY <1>0, <2>1, <2>3 DEF Report, Local
    <3>2. CASE c \notin X
      <4>1. thread'[t].taken \cap X = thread[t].taken \cap X
        BY <3>1, <3>2
      <4>2. \A u \in Threads : thread'[u].taken \cap X = thread[u].taken \cap X
        BY <2>1, <4>1
      <4>3. counters \subseteq counters'
        BY <2>3 DEF Report
      <4> QED
        BY <4>2, <4>3 DEF PendingIn
    <3>3. CASE counters' = counters \cup Restored(c) /\ c \in X
      <4>1. c \in counters'
        BY <3>3 DEF Restored
      <4> QED
        BY <3>3, <4>1 DEF PendingIn
    <3>4. CASE Reported(c) /\ c \in X
      BY <3>4
    <3> QED
      BY <2>3, <3>2, <3>3, <3>4 DEF Report
  <2>4. CASE \/ StartDrain(t) \/ Take(t) \/ DeliverMarker(t) \/ DeliverRecord(t)
             \/ ReadGaps(t) \/ EndFlush(t) \/ CheckQueue(t) \/ ReadRequest(t) \/ Decide(t)
             \/ Mark(t) \/ Clear(t)
    <3>1. counters \subseteq counters'
      BY <2>4
         DEF StartDrain, Take, DeliverMarker, DeliverRecord, CommitLost, ReadGaps,
             EndFlush, CheckQueue, ReadRequest, Decide, Mark, Clear
    <3>2. thread'[t].taken = thread[t].taken
      <4>1. CASE Returned(t)
        BY <4>1, ReturnedFacts
      <4>2. CASE ~Returned(t)
        BY <1>0, <2>1, <2>4, <4>2
           DEF StartDrain, Take, DeliverMarker, DeliverRecord, Delivered, ReadGaps,
               EndFlush, CheckQueue, ReadRequest, Decide, Mark, Clear, Goto, Local
      <4> QED
        BY <4>1, <4>2
    <3>3. \A u \in Threads : thread'[u].taken = thread[u].taken
      BY <2>1, <3>2
    <3> QED
      BY <1>1, <3>1, <3>3
  <2> QED
    BY <1>3, <2>2, <2>3, <2>4 DEF Drain
<1>4. CASE WorkerExit \/ Join \/ OutOfTime \/ Remaining \/ RemainingGap
           \/ \E kind \in Markers : Close(kind)
  <2>1. \A u \in Threads : thread'[u].taken = thread[u].taken
    BY <1>0, <1>4
       DEF WorkerExit, Join, OutOfTime, Remaining, RemainingGap, Close, Goto, Local
  <2>2. UNCHANGED counters
    BY <1>4 DEF WorkerExit, Join, OutOfTime, Remaining, RemainingGap, Close
  <2> QED
    BY <1>1, <2>1, <2>2
<1>5. CASE Reader \/ Observer \/ UNCHANGED vars
  <2>1. counters \subseteq counters' /\ UNCHANGED thread
    BY <1>5
       DEF Reader, TrySubmit, Enqueue, RejectMalformed, RequestSourceDisconnected, Overflow,
           Observer, vars
  <2> QED
    BY <1>1, <2>1
<1> QED
  BY <1>0, <1>3, <1>4, <1>5 DEF Next, Worker, Closer

\* The calls of a step on the ledger.
LedgerCalls ==
  \/ UNCHANGED ledgerVars
  \/ Bind \/ Finish
  \/ HealthGap
  \/ \E t \in Threads, c \in Counters : Report(t, c) /\ Reported(c)
  \/ \E t \in Threads : Mark(t) /\ link = "connected" /\ Disconnect(thread[t].expected)

LEMMA LedgerStep ==
  ASSUME Typed, [Next]_vars
  PROVE  LedgerCalls
PROOF
<1>1. CASE Reader \/ WorkerExit \/ Join \/ OutOfTime \/ Remaining
           \/ (\E kind \in Markers : Close(kind))
           \/ UNCHANGED vars
  BY <1>1
     DEF Reader, TrySubmit, Enqueue, RejectMalformed, RequestSourceDisconnected, WorkerExit,
         Join, OutOfTime, Remaining, Close, vars, LedgerCalls
<1>2. CASE Observer \/ RemainingGap
  BY <1>2 DEF Observer, RemainingGap, LedgerCalls
<1>3. ASSUME NEW t \in Threads, Drain(t) PROVE LedgerCalls
  <2>1. CASE Mark(t)
    BY <2>1 DEF Mark, LedgerCalls
  <2>2. ASSUME NEW c \in Counters, Report(t, c) PROVE LedgerCalls
    BY <2>2 DEF Report, LedgerCalls
  <2>3. CASE ~Mark(t) /\ \A c \in Counters : ~Report(t, c)
    BY <1>3, <2>3
       DEF Drain, StartDrain, Take, DeliverMarker, DeliverRecord, ReadGaps, StartFlush,
           EndFlush, CheckQueue, ReadRequest, Decide, Clear, LedgerCalls
  <2> QED
    BY <2>1, <2>2, <2>3
<1> QED
  BY <1>1, <1>2, <1>3 DEF Next, Worker, Closer, Threads

LEMMA GapStays ==
  ASSUME Typed, [Next]_vars, gap
  PROVE  gap'
PROOF
<1>1. gap \in BOOLEAN
  BY DEF Typed, TypeOK
<1>2. ASSUME NEW t \in Threads, Mark(t), link = "connected", Disconnect(thread[t].expected)
      PROVE  gap'
  BY <1>2 DEF Disconnect, Learn
<1>3. ASSUME NEW c \in Counters, Reported(c) PROVE gap'
  BY <1>3 DEF Reported, Counters, Rank, HealthGap, Incompatible, ledgerVars
<1> QED
  BY <1>2, <1>3, LedgerStep DEF LedgerCalls, Bind, Finish, HealthGap, ledgerVars

\* A loss that shows goes on showing.
LEMMA LossStays ==
  ASSUME Typed, Hands, [Next]_vars, LossShows
  PROVE  LossShows'
PROOF
<1>1. CASE gap
  BY <1>1, GapStays DEF LossShows
<1>2. CASE PendingIn(Counters \ {"rejected"})
  <2>1. ASSUME NEW c \in Counters \ {"rejected"}, Reported(c) PROVE gap'
    BY <2>1 DEF Reported, Counters, Rank, HealthGap, Incompatible
  <2>2. PendingIn(Counters \ {"rejected"})' => LossShows'
    BY DEF LossShows, GapPending, PendingIn
  <2>3. gap' => LossShows'
    BY DEF LossShows
  <2> QED
    BY <1>2, <2>1, <2>2, <2>3, PendingStays
<1> QED
  BY <1>1, <1>2, LossesShow DEF Typed

----------------------------------------------------------------------------
(* The queue.                                                                *)

\* What draining does to the queue and to the thread that drains.
LEMMA DrainQueue ==
  ASSUME Typed, NEW t \in Threads, Drain(t)
  PROVE  /\ queue' = queue \/ Take(t)
         /\ thread'[t].item = thread[t].item \/ thread'[t].item = NoMessage \/ Take(t)
         /\ t = "worker" => thread'[t].at # "done"
PROOF
<1>0. thread \in [Threads -> Local] /\ thread[t] \in Local
  BY LocalFields DEF Typed, TypeOK
<1>1. CASE Take(t)
  BY <1>0, <1>1 DEF Take, Local
<1>2. CASE StartDrain(t) \/ DeliverMarker(t) \/ DeliverRecord(t) \/ ReadGaps(t)
  BY <1>0, <1>2
     DEF StartDrain, DeliverMarker, DeliverRecord, Delivered, ReadGaps, Local
<1>3. CASE StartFlush(t) \/ EndFlush(t) \/ Decide(t)
  BY <1>0, <1>3 DEF StartFlush, EndFlush, Decide, Goto, Local
<1>4. CASE CheckQueue(t) \/ ReadRequest(t) \/ Mark(t) \/ Clear(t)
  <2>1. queue' = queue
    BY <1>4 DEF CheckQueue, ReadRequest, Mark, Clear
  <2>2. CASE Returned(t)
    BY <2>1, <2>2, ReturnedFacts
  <2>3. CASE ~Returned(t)
    BY <1>0, <1>4, <2>1, <2>3 DEF CheckQueue, ReadRequest, Mark, Clear, Goto, Local
  <2> QED
    BY <2>2, <2>3
<1>5. ASSUME NEW c \in Counters, Report(t, c)
      PROVE  queue' = queue /\ thread'[t].item = thread[t].item /\ thread'[t].at = "report"
  BY <1>0, <1>5 DEF Report, Local, At
<1> QED
  BY <1>1, <1>2, <1>3, <1>4, <1>5 DEF Drain

LEMMA DrainingStep ==
  ASSUME Typed, Draining, [Next]_vars
  PROVE  Draining'
PROOF
<1>0. /\ thread \in [Threads -> Local] /\ "worker" \in Threads /\ "closer" \in Threads
      /\ "worker" # "closer" /\ thread["worker"] \in Local
  BY DEF Typed, TypeOK, Threads
<1>1. CASE Drain("worker")
  <2>1. CASE StartDrain("worker")
    BY <1>0, <2>1 DEF StartDrain, Draining, Local
  <2>2. CASE Returned("worker")
    BY <1>0, <2>2, ReturnedFacts DEF Draining
  <2>3. CASE ~StartDrain("worker") /\ ~Returned("worker")
    <3>1. thread["worker"].draining
      BY <1>0, <1>1, <2>3, DrainLocal
         DEF Drain, Take, DeliverMarker, DeliverRecord, ReadGaps, StartFlush, Report,
             EndFlush, CheckQueue, ReadRequest, Decide, Mark, Clear, At, Draining
    <3>2. thread'["worker"].draining = thread["worker"].draining
      <4>1. CASE Take("worker") \/ DeliverMarker("worker") \/ DeliverRecord("worker")
        BY <1>0, <4>1 DEF Take, DeliverMarker, DeliverRecord, Delivered, Local
      <4>2. CASE ReadGaps("worker") \/ StartFlush("worker") \/ EndFlush("worker")
                 \/ \E c \in Counters : Report("worker", c)
        BY <1>0, <4>2 DEF ReadGaps, StartFlush, EndFlush, Report, Goto, Local
      <4>3. CASE \/ CheckQueue("worker") \/ ReadRequest("worker") \/ Decide("worker")
                 \/ Mark("worker") \/ Clear("worker")
        BY <1>0, <2>3, <4>3 DEF CheckQueue, ReadRequest, Decide, Mark, Clear, Goto, Local
      <4> QED
        BY <1>1, <2>3, <4>1, <4>2, <4>3 DEF Drain
    <3> QED
      BY <3>1, <3>2 DEF Draining
  <2> QED
    BY <2>1, <2>2, <2>3 DEF Draining, StartDrain
<1>2. CASE Drain("closer")
  BY <1>0, <1>2, DrainLocal DEF Draining
<1>3. CASE WorkerExit
  BY <1>0, <1>3 DEF WorkerExit, Goto, Draining, Local
<1>4. CASE Join \/ OutOfTime \/ Remaining \/ RemainingGap
           \/ \E kind \in Markers : Close(kind)
  BY <1>0, <1>4 DEF Join, OutOfTime, Remaining, RemainingGap, Close, Goto, Draining
<1>5. CASE Reader \/ Observer \/ UNCHANGED vars
  BY <1>5
     DEF Reader, TrySubmit, Enqueue, RejectMalformed, RequestSourceDisconnected, Observer, vars,
         Draining
<1> QED
  BY <1>1, <1>2, <1>3, <1>4, <1>5 DEF Next, Worker, Closer

LEMMA AloneStep ==
  ASSUME Typed, Alone, Orderly', [Next]_vars
  PROVE  Alone'
PROOF
<1>0. /\ thread \in [Threads -> Local] /\ "worker" \in Threads /\ "closer" \in Threads
      /\ thread["worker"] \in Local /\ thread["closer"] \in Local
      /\ closed \in BOOLEAN /\ accepting \in BOOLEAN
  BY LocalFields DEF Typed, TypeOK, Threads
<1>1. CASE Reader \/ Observer \/ UNCHANGED vars
  <2>1. UNCHANGED <<thread, closed, owner>> /\ (accepting' => accepting)
    BY <1>1
       DEF Reader, TrySubmit, Enqueue, RejectMalformed, RequestSourceDisconnected,
           Observer, vars, intakeVars
  <2>2. accepting \/ queue' = queue
    BY <1>1
       DEF Reader, TrySubmit, Enqueue, RejectMalformed, RequestSourceDisconnected,
           Observer, vars, intakeVars
  <2> QED
    BY <1>0, <2>1, <2>2 DEF Alone, At
<1>2. ASSUME NEW t \in Threads, Drain(t) PROVE Alone'
  <2>1. /\ \A u \in Threads : u # t => thread'[u] = thread[u]
        /\ thread[t].at \notin Idle /\ UNCHANGED <<accepting, closed, owner>>
    BY <1>2, DrainLocal
  <2>2. CASE t = "worker"
    <3>1. thread'["worker"].at # "done" /\ thread'["closer"] = thread["closer"]
      BY <1>0, <1>2, <2>1, <2>2, DrainQueue
    <3>2. thread["worker"].at # "done"
      BY <2>1, <2>2 DEF Idle
    <3> QED
      BY <2>1, <3>1, <3>2 DEF Alone, At
  <2>3. CASE t = "closer"
    <3>1. thread["worker"].at = "done" /\ thread'["worker"] = thread["worker"]
      BY <1>0, <2>1, <2>3 DEF Alone, At, Idle
    <3>2. closed /\ queue = <<>>
      BY <3>1 DEF Alone, At
    <3>3. queue' = queue
      BY <1>2, <3>2, DrainQueue DEF Take
    <3> QED
      BY <2>1, <3>1, <3>2, <3>3 DEF Alone, At
  <2> QED
    BY <2>2, <2>3 DEF Threads
<1>3. CASE WorkerExit \/ Join \/ OutOfTime
  <2>1. \/ WorkerExit
        \/ At("worker", "done") /\ Goto("closer", "loop") /\ At("closer", "join")
        \/ ~owner.marks /\ Goto("closer", "remaining") /\ At("closer", "join")
        \/ Goto("closer", "remaining") /\ At("closer", "loop")
    BY <1>3 DEF Join, OutOfTime, Orderly, Typed, TypeOK
  <2>2. UNCHANGED <<queue, accepting, closed, owner>>
    BY <1>3 DEF WorkerExit, Join, OutOfTime, intakeVars
  <2> QED
    BY <1>0, <2>1, <2>2 DEF WorkerExit, Goto, Alone, At, Local
<1>4. ASSUME NEW kind \in Markers, Close(kind) PROVE Alone'
  BY <1>0, <1>4 DEF Close, Goto, Alone, At, Local
<1>5. CASE Remaining
  <2>1. owner.marks => At("worker", "done")
    BY <1>5 DEF Remaining, Alone, At
  <2>2. /\ thread'["worker"] = thread["worker"] /\ thread["closer"].at = "remaining"
        /\ UNCHANGED <<queue, accepting, closed, owner>>
        /\ IF owner.marks THEN thread'["closer"].at \in {"gap", "done", "attempt"}
           ELSE thread'["closer"].at \in {"gap", "done"}
    BY <1>0, <1>5 DEF Remaining, Goto, At, Local, intakeVars
  <2> QED
    BY <2>1, <2>2 DEF Alone, At
<1>6. CASE RemainingGap
  <2>1. /\ thread'["closer"].at \in {"attempt", "done"} /\ thread'["worker"] = thread["worker"]
        /\ UNCHANGED <<accepting, closed, owner>> /\ thread["closer"].at = "gap"
        /\ thread'["closer"].at = "attempt" => At("worker", "done")
    BY <1>0, <1>6 DEF RemainingGap, Goto, At, Local, intakeVars
  <2>2. queue' = IF At("worker", "done") THEN <<>> ELSE queue
    BY <1>6 DEF RemainingGap
  <2> QED
    BY <2>1, <2>2 DEF Alone, At
<1> QED
  BY <1>0, <1>1, <1>2, <1>3, <1>4, <1>5, <1>6 DEF Next, Worker, Closer

LEMMA MarkerLastStep ==
  ASSUME Typed, Hands, Alone, MarkerLast, [Next]_vars
  PROVE  MarkerLast'
PROOF
<1>0. /\ thread \in [Threads -> Local] /\ "worker" \in Threads /\ "closer" \in Threads
      /\ thread["worker"] \in Local /\ thread["closer"] \in Local
      /\ accepting \in BOOLEAN /\ queue \in Seq(Messages \cup Markers)
  BY LocalFields DEF Typed, TypeOK, Threads
<1>1. CASE /\ queue' = queue \/ queue' = <<>>
           /\ accepting' => accepting
           /\ \A u \in Threads : thread'[u].item = thread[u].item
                                  \/ thread'[u].item = NoMessage
  <2>1. \A u \in Threads : thread'[u].item \in Markers => thread[u].item \in Markers
    BY <1>1
  <2>2. \A i \in 1 .. Len(queue') : i \in 1 .. Len(queue) /\ queue'[i] = queue[i]
                                    /\ Len(queue') = Len(queue)
    BY <1>0, <1>1
  <2>3. queue = <<>> => queue' = <<>>
    BY <1>1
  <2> QED
    BY <1>1, <2>1, <2>2, <2>3 DEF MarkerLast
<1>2. CASE Enqueue
  <2>1. incoming \in Messages
    BY <1>2 DEF Enqueue, Typed, TypeOK
  <2>2. UNCHANGED <<accepting, thread>>
    BY <1>2 DEF Enqueue
  <2>3. CASE accepting /\ queue' = Append(queue, incoming)
    <3>1. /\ Len(queue') = Len(queue) + 1 /\ queue'[Len(queue) + 1] = incoming
          /\ \A i \in 1 .. Len(queue) : queue'[i] = queue[i]
      BY <2>1, <2>3, QueueMore
    <3>2. \A i \in 1 .. Len(queue) : queue[i] \notin Markers
      BY <2>3 DEF MarkerLast
    <3>3. \A i \in 1 .. Len(queue') : queue'[i] \notin Markers
      BY <1>0, <2>1, <3>1, <3>2
    <3>4. \A u \in Threads : thread'[u].item \notin Markers
      BY <2>2, <2>3 DEF MarkerLast
    <3> QED
      BY <3>3, <3>4 DEF MarkerLast
  <2>4. CASE queue' = queue
    BY <1>1, <2>2, <2>4
  <2> QED
    BY <1>2, <2>3, <2>4 DEF Enqueue
<1>3. ASSUME NEW kind \in Markers, RequestSourceDisconnected(kind) PROVE MarkerLast'
  <2>1. accepting /\ ~accepting' /\ UNCHANGED thread
    BY <1>3 DEF RequestSourceDisconnected
  <2>2. CASE queue' = Append(queue, kind)
    <3>1. /\ Len(queue') = Len(queue) + 1
          /\ \A i \in 1 .. Len(queue) : queue'[i] = queue[i]
      BY <2>2, QueueMore
    <3>2. \A i \in 1 .. Len(queue) : queue[i] \notin Markers
      BY <2>1 DEF MarkerLast
    <3>3. \A i \in 1 .. Len(queue') : queue'[i] \in Markers => i = Len(queue')
      BY <1>0, <3>1, <3>2
    <3>4. \A u \in Threads : thread'[u].item \notin Markers
      BY <2>1 DEF MarkerLast
    <3> QED
      BY <2>1, <3>3, <3>4 DEF MarkerLast
  <2>3. CASE queue' = queue
    BY <1>1, <2>1, <2>3
  <2> QED
    BY <1>3, <2>2, <2>3 DEF RequestSourceDisconnected
<1>4. CASE (\E m \in Messages : TrySubmit(m)) \/ RejectMalformed \/ Observer
           \/ UNCHANGED vars
  BY <1>1, <1>4 DEF TrySubmit, RejectMalformed, Observer, vars, intakeVars
<1>5. ASSUME NEW t \in Threads, Drain(t) PROVE MarkerLast'
  <2>1. /\ \A u \in Threads : u # t => thread'[u] = thread[u]
        /\ thread[t].at \notin Idle /\ UNCHANGED <<accepting, closed>>
    BY <1>5, DrainLocal
  <2>2. CASE Take(t)
    <3>1. /\ thread'[t].item = queue[1] /\ queue' = Tail(queue) /\ queue # <<>>
      BY <1>0, <2>2, QueueFacts DEF Take, Local
    <3>2. \A u \in Threads : u # t => thread'[u].item \notin Markers
      BY <2>1, OneDrains
    <3>3. /\ Len(queue) \in Nat /\ 1 \in 1 .. Len(queue) /\ Len(queue') = Len(queue) - 1
          /\ queue' \in Seq(Messages \cup Markers)
          /\ \A i \in 1 .. Len(queue') :
               i + 1 \in 1 .. Len(queue) /\ queue'[i] = queue[i + 1]
      BY <3>1, QueueFacts
    <3>4. \A i \in 1 .. Len(queue) :
            queue[i] \in Markers => (i = Len(queue) /\ ~accepting')
      BY <2>1 DEF MarkerLast
    <3>5. queue[1] \in Markers => queue' = <<>> /\ ~accepting'
      <4> SUFFICES ASSUME queue[1] \in Markers PROVE queue' = <<>> /\ ~accepting'
        OBVIOUS
      <4>1. 1 = Len(queue) /\ ~accepting'
        BY <3>3, <3>4
      <4>2. queue' \in Seq(Messages \cup Markers)
        BY <3>3
      <4>3. Len(queue') = Len(queue) - 1
        BY <3>3
      <4>4. Len(queue') = 0
        BY <4>1, <4>3
      <4>5. queue' = <<>>
        BY <4>2, <4>4
      <4> QED
        BY <4>1, <4>5
    <3>6. ASSUME NEW i \in 1 .. Len(queue'), queue'[i] \in Markers
          PROVE  i = Len(queue') /\ ~accepting'
      <4>1. i + 1 \in 1 .. Len(queue) /\ queue[i + 1] \in Markers
        BY <3>3, <3>6
      <4>2. i + 1 = Len(queue) /\ ~accepting'
        BY <3>4, <4>1
      <4> QED
        BY <3>3, <4>2
    <3> QED
      BY <3>1, <3>2, <3>5, <3>6 DEF MarkerLast
  <2>3. CASE ~Take(t)
    <3>1. queue' = queue
      BY <1>5, <2>3, DrainQueue
    <3>2. \A u \in Threads : thread'[u].item = thread[u].item \/ thread'[u].item = NoMessage
      BY <1>5, <2>1, <2>3, DrainQueue
    <3> QED
      BY <1>1, <2>1, <3>1, <3>2
  <2> QED
    BY <2>2, <2>3
<1>6. CASE WorkerExit \/ Join \/ OutOfTime \/ Remaining \/ RemainingGap
           \/ \E kind \in Markers : Close(kind)
  <2>1. \A u \in Threads : thread'[u].item = thread[u].item
    BY <1>0, <1>6
       DEF WorkerExit, Join, OutOfTime, Remaining, RemainingGap, Close, Goto, Local
  <2>2. (queue' = queue \/ queue' = <<>>) /\ (accepting' => accepting)
    BY <1>6 DEF WorkerExit, Join, OutOfTime, Remaining, RemainingGap, Close, intakeVars
  <2> QED
    BY <1>1, <2>1, <2>2
<1> QED
  BY <1>0, <1>2, <1>3, <1>4, <1>5, <1>6 DEF Next, Reader, Worker, Closer

----------------------------------------------------------------------------
(* The disconnect.                                                           *)

LEMMA DrainedStep ==
  ASSUME Typed, [Next]_vars
  PROVE  /\ ~accepting => ~accepting'
         /\ Drained => Drained'
PROOF
<1>0. /\ thread \in [Threads -> Local] /\ "worker" \in Threads /\ "closer" \in Threads
  BY DEF Typed, TypeOK, Threads
<1>1. CASE \E t \in Threads : Drain(t)
  <2> PICK t \in Threads : Drain(t)
    BY <1>1
  <2>1. /\ \A u \in Threads : u # t => thread'[u] = thread[u]
        /\ accepting' = accepting
    BY DrainLocal
  <2>2. ASSUME Drained PROVE Drained'
    <3>1. queue' = queue /\ (thread'[t].item = thread[t].item \/ thread'[t].item = NoMessage)
      BY <2>2, DrainQueue DEF Take, Drained
    <3> QED
      BY <2>1, <2>2, <3>1 DEF Drained
  <2> QED
    BY <2>1, <2>2
<1>2. CASE WorkerExit \/ Join \/ OutOfTime \/ Remaining \/ RemainingGap
           \/ \E kind \in Markers : Close(kind)
  <2>1. \A u \in Threads : thread'[u].item = thread[u].item
    BY <1>0, <1>2
       DEF WorkerExit, Join, OutOfTime, Remaining, RemainingGap, Close, Goto, Local
  <2>2. (queue' = queue \/ queue' = <<>>) /\ (accepting' => accepting)
    BY <1>2 DEF WorkerExit, Join, OutOfTime, Remaining, RemainingGap, Close, intakeVars
  <2> QED
    BY <2>1, <2>2 DEF Drained
<1>3. CASE Reader \/ Observer \/ UNCHANGED vars
  <2>1. UNCHANGED thread /\ (accepting' => accepting) /\ (accepting \/ queue' = queue)
    BY <1>3
       DEF Reader, TrySubmit, Enqueue, RejectMalformed, RequestSourceDisconnected,
           Observer, vars, intakeVars
  <2> QED
    BY <2>1 DEF Drained
<1> QED
  BY <1>0, <1>1, <1>2, <1>3 DEF Next, Worker, Closer

LEMMA BehindStep ==
  ASSUME Typed, Hands, [Next]_vars, Behind
  PROVE  Behind'
PROOF BY DrainedStep, LossStays DEF Behind

\* When the marker is delivered, nothing is on its way.
LEMMA MarkerDrains ==
  ASSUME Typed, Hands, Alone, MarkerLast, NEW t \in Threads, DeliverMarker(t)
  PROVE  Drained
PROOF
<1>1. thread[t].at = "deliver" /\ thread[t].item \in Markers
  BY DEF DeliverMarker, At
<1>2. \A u \in Threads : u # t => thread[u].item = NoMessage
  BY <1>1, OneDrains DEF Idle
<1> QED
  BY <1>1, <1>2 DEF MarkerLast, Drained

\* How a disconnect comes to be wanted.
LEMMA WantedStep ==
  ASSUME Typed, Alone, [Next]_vars
  PROVE  \/ wanted' = wanted \/ wanted' = "none"
         \/ \E t \in Threads : DeliverMarker(t)
         \/ wanted' = "unexpected" /\ ~accepting' /\ "lost" \in counters'
         \/ \E kind \in Markers : Close(kind) /\ owner.marks /\ wanted = "none"
PROOF
<1>1. CASE Reader \/ Observer \/ UNCHANGED vars \/ WorkerExit \/ Join \/ OutOfTime
           \/ RemainingGap
  BY <1>1
     DEF Reader, TrySubmit, Enqueue, RejectMalformed, RequestSourceDisconnected, Overflow,
         WorkerExit, Join, OutOfTime, RemainingGap, Observer, vars, intakeVars
<1>2. ASSUME NEW kind \in Markers, Close(kind)
      PROVE  wanted' = wanted \/ (owner.marks /\ wanted = "none")
  BY <1>2 DEF Close, ClosingRequest
<1>3. CASE Remaining
  <2>1. owner.marks => queue = <<>>
    BY <1>3 DEF Remaining, Alone, At
  <2> QED
    BY <1>3, <2>1 DEF Remaining
<1>4. ASSUME NEW t \in Threads, Drain(t)
      PROVE  wanted' = wanted \/ wanted' = "none" \/ DeliverMarker(t)
  BY <1>4
     DEF Drain, StartDrain, Take, DeliverRecord, ReadGaps, StartFlush, Report, EndFlush,
         CheckQueue, ReadRequest, Decide, Mark, Clear
<1> QED
  BY <1>1, <1>2, <1>3, <1>4 DEF Next, Worker, Closer, Threads

\* How a thread comes to read the request: behind an empty queue, once intake has stopped.
LEMMA ReadStep ==
  ASSUME Typed, Hands, Draining, Alone, [Next]_vars, closed,
         NEW u \in Threads, thread'[u].at = "read"
  PROVE  thread[u].at = "read" \/ Drained'
PROOF
<1>0. /\ thread \in [Threads -> Local] /\ "worker" \in Threads /\ "closer" \in Threads
  BY DEF Typed, TypeOK, Threads
<1>1. CASE Reader \/ Observer \/ UNCHANGED vars
  BY <1>1
     DEF Reader, TrySubmit, Enqueue, RejectMalformed, RequestSourceDisconnected, Observer, vars
<1>2. CASE WorkerExit \/ Join \/ OutOfTime \/ Remaining \/ RemainingGap
           \/ \E kind \in Markers : Close(kind)
  <2>1. CASE WorkerExit \/ Join \/ OutOfTime
    BY <1>0, <2>1 DEF WorkerExit, Join, OutOfTime, Goto, Local
  <2>2. CASE Remaining \/ RemainingGap
    BY <1>0, <2>2 DEF Remaining, RemainingGap, Goto, Local
  <2>3. CASE \E kind \in Markers : Close(kind)
    BY <1>0, <2>3 DEF Close, Goto, Local
  <2> QED
    BY <1>2, <2>1, <2>2, <2>3
<1>3. ASSUME NEW t \in Threads, Drain(t) PROVE thread[u].at = "read" \/ Drained'
  <2>1. CASE u # t
    BY <1>3, <2>1, DrainLocal
  <2>2. CASE u = t
    <3>1. thread[t] \in Local
      BY <1>0
    <3>2. ASSUME queue = <<>>, thread[t].at \in {"check", "attempt", "report"} PROVE Drained'
      <4>1. thread[t].item = NoMessage
        BY <3>2 DEF Hands, At
      <4>2. \A w \in Threads : w # t => thread[w].item = NoMessage
        BY <3>2, OneDrains DEF Idle
      <4>3. Drained
        BY <3>2, <4>1, <4>2, MessagesAssumption DEF Drained, Alone
      <4> QED
        BY <4>3, DrainedStep
    <3>3. CASE CheckQueue(t)
      <4>1. CASE queue = <<>>
        BY <3>2, <3>3, <4>1 DEF CheckQueue, At
      <4>2. CASE queue # <<>>
        BY <2>2, <3>3, <4>2, ReturnedFacts DEF CheckQueue
      <4> QED
        BY <4>1, <4>2
    <3>4. CASE EndFlush(t)
      <4>1. thread[t].at = "report" /\ ~thread[t].draining
        BY <1>0, <2>2, <3>1, <3>4 DEF EndFlush, Goto, At, Local
      <4>2. t # "worker"
        BY <4>1 DEF Draining
      <4>3. At("worker", "done")
        BY <4>1, <4>2 DEF Alone, At, Threads
      <4> QED
        BY <3>2, <4>1, <4>3 DEF Alone
    <3>5. CASE ReadRequest(t)
      BY <2>2, <3>5 DEF ReadRequest, At
    <3>6. CASE Mark(t) \/ Clear(t)
      <4>1. ~Returned(t)
        BY <2>2, ReturnedFacts
      <4> QED
        BY <1>0, <2>2, <3>1, <3>6, <4>1 DEF Mark, Clear, Goto, Local
    <3>7. CASE \/ StartDrain(t) \/ Take(t) \/ DeliverMarker(t) \/ DeliverRecord(t)
               \/ ReadGaps(t) \/ StartFlush(t) \/ Decide(t)
      BY <1>0, <2>2, <3>1, <3>7
         DEF StartDrain, Take, DeliverMarker, DeliverRecord, Delivered, ReadGaps, StartFlush,
             Decide, Local
    <3>8. ASSUME NEW c \in Counters, Report(t, c) PROVE FALSE
      BY <1>0, <2>2, <3>1, <3>8 DEF Report, Local, At
    <3> QED
      BY <1>3, <3>3, <3>4, <3>5, <3>6, <3>7, <3>8 DEF Drain
  <2> QED
    BY <2>1, <2>2
<1> QED
  BY <1>0, <1>1, <1>2, <1>3 DEF Next, Worker, Closer

\* A close that does not get ahead of a worker about to read the request finds all drained.
LEMMA ClosingStep ==
  ASSUME Typed, Hands, [Next]_vars, Orderly', NEW kind \in Markers, Close(kind),
         owner.marks, wanted = "none", NEW u \in Threads, thread'[u].at = "read"
  PROVE  Drained'
PROOF
<1>0. /\ thread \in [Threads -> Local] /\ "worker" \in Threads /\ "closer" \in Threads
      /\ "worker" # "closer" /\ thread["closer"] \in Local
  BY DEF Typed, TypeOK, Threads
<1>1. /\ thread["closer"].at = "open" /\ thread'["closer"].at = "join"
      /\ thread'["worker"] = thread["worker"]
      /\ \A w \in Threads : thread'[w].item = thread[w].item
  BY <1>0 DEF Close, Goto, At, Local
<1>2. thread["worker"].at = "read"
  BY <1>1 DEF Threads
<1>3. queue = <<>> /\ queue' = queue /\ ~accepting'
  BY <1>2 DEF Close, Overtakes, Orderly, At
<1>4. \A w \in Threads : thread[w].item = NoMessage
  BY <1>1, <1>2 DEF Hands, At, Threads
<1> QED
  BY <1>1, <1>3, <1>4, MessagesAssumption DEF Drained

Asking == {"decide", "mark", "clear"}

\* How a thread comes to hold a request.
LEMMA AskingStep ==
  ASSUME Typed, [Next]_vars, NEW u \in Threads, thread'[u].at \in Asking
  PROVE  \/ thread[u].at \in Asking /\ thread'[u].asked = thread[u].asked
         \/ At(u, "read") /\ wanted # "none" /\ thread'[u].asked = wanted
PROOF
<1>0. /\ thread \in [Threads -> Local] /\ "worker" \in Threads /\ "closer" \in Threads
  BY DEF Typed, TypeOK, Threads
<1>1. CASE Reader \/ Observer \/ UNCHANGED vars
  BY <1>1
     DEF Reader, TrySubmit, Enqueue, RejectMalformed, RequestSourceDisconnected, Observer, vars
<1>2. CASE WorkerExit \/ Join \/ OutOfTime \/ Remaining \/ RemainingGap
           \/ \E kind \in Markers : Close(kind)
  BY <1>0, <1>2
     DEF WorkerExit, Join, OutOfTime, Remaining, RemainingGap, Close, Goto, Local, Asking
<1>3. ASSUME NEW t \in Threads, Drain(t)
      PROVE  \/ thread[u].at \in Asking /\ thread'[u].asked = thread[u].asked
             \/ At(u, "read") /\ wanted # "none" /\ thread'[u].asked = wanted
  <2>1. CASE u # t
    BY <1>3, <2>1, DrainLocal
  <2>2. CASE u = t
    <3>1. thread[t] \in Local
      BY <1>0
    <3>2. ~Returned(t)
      BY <2>2, ReturnedFacts DEF Asking
    <3>3. CASE ReadRequest(t) \/ Decide(t) \/ Mark(t) \/ Clear(t)
      BY <1>0, <2>2, <3>1, <3>2, <3>3
         DEF ReadRequest, Decide, Mark, Clear, Goto, Local, Asking, At
    <3>4. CASE \/ StartDrain(t) \/ Take(t) \/ DeliverMarker(t) \/ DeliverRecord(t)
               \/ ReadGaps(t) \/ StartFlush(t) \/ EndFlush(t) \/ CheckQueue(t)
      BY <1>0, <2>2, <3>1, <3>2, <3>4
         DEF StartDrain, Take, DeliverMarker, DeliverRecord, Delivered, ReadGaps, StartFlush,
             EndFlush, CheckQueue, Goto, Local, Asking
    <3>5. ASSUME NEW c \in Counters, Report(t, c) PROVE FALSE
      BY <1>0, <2>2, <3>1, <3>5 DEF Report, Local, Asking, At
    <3> QED
      BY <1>3, <3>3, <3>4, <3>5 DEF Drain
  <2> QED
    BY <2>1, <2>2
<1> QED
  BY <1>0, <1>1, <1>2, <1>3 DEF Next, Worker, Closer

\* The source is disconnected by a thread that was asked to.
LEMMA LinkStep ==
  ASSUME Typed, [Next]_vars, link = "connected", link' # link
  PROVE  \E t \in Threads : Mark(t) /\ Disconnect(thread[t].expected)
PROOF
<1>1. ASSUME NEW c \in Counters, Reported(c) PROVE link' = link
  BY <1>1 DEF Reported, Counters, Rank, HealthGap, Incompatible, ledgerVars
<1> QED
  BY <1>1, LedgerStep DEF LedgerCalls, Bind, Finish, HealthGap, ledgerVars

LEMMA DisconnectingStep ==
  ASSUME Typed, Hands, Draining, Alone, MarkerLast, Disconnecting, Orderly', [Next]_vars
  PROVE  Disconnecting'
PROOF
<1>1. Behind => Behind'
  BY BehindStep
<1>2. Drained => Drained'
  BY DrainedStep
<1>3. Drained => Behind
  BY DEF Drained, Behind
<1>4. ASSUME NEW t \in Threads, DeliverMarker(t) PROVE Drained' /\ Behind'
  BY <1>1, <1>2, <1>3, <1>4, MarkerDrains
<1>5. ASSUME ~accepting', "lost" \in counters' PROVE Behind'
  BY <1>5 DEF Behind, LossShows, GapPending
<1>6. ASSUME NEW u \in Threads, ~Marked' \/ thread'[u].at = "read"
      PROVE  (wanted' # "none" => Behind') /\ (wanted' = "expected" => Drained')
  <2>1. Drained' => Behind'
    BY DEF Drained, Behind
  <2>2. CASE ~Marked \/ thread[u].at = "read"
    <3>1. (wanted # "none" => Behind) /\ (wanted = "expected" => Drained)
      BY <2>2 DEF Disconnecting, At
    <3>2. ASSUME NEW kind \in Markers, Close(kind), owner.marks, wanted = "none" PROVE Drained'
      <4>1. Marked'
        BY <3>2 DEF Close, Marked
      <4> QED
        BY <1>6, <3>2, <4>1, ClosingStep
    <3> QED
      BY <1>1, <1>2, <1>4, <1>5, <2>1, <3>1, <3>2, WantedStep
  <2>3. CASE Marked /\ thread[u].at # "read"
    <3>1. Marked' /\ closed
      BY <2>3, OrderlyStep DEF Marked
    <3> QED
      BY <1>6, <2>1, <2>3, <3>1, ReadStep
  <2> QED
    BY <2>2, <2>3
<1>7. ASSUME NEW u \in Threads, thread'[u].at \in {"decide", "mark", "clear"}
      PROVE  Behind' /\ (thread'[u].asked = "expected" => Drained')
  BY <1>1, <1>2, <1>7, AskingStep DEF Disconnecting, Asking
<1>8. link' # "connected" => Behind'
  <2>1. CASE link # "connected"
    BY <1>1, <2>1 DEF Disconnecting
  <2>2. ASSUME NEW t \in Threads, Mark(t) PROVE Behind'
    BY <1>1, <2>2 DEF Mark, At, Disconnecting
  <2> QED
    BY <2>1, <2>2, LinkStep
<1> QED
  BY <1>6, <1>7, <1>8 DEF Disconnecting, At

----------------------------------------------------------------------------
(* What was received.                                                        *)

Covered == received \subseteq ingested \cup Carried

\* Once intake has stopped nothing is received, and what was ingested stays.
LEMMA ReceivedStep ==
  ASSUME Typed, [Next]_vars
  PROVE  /\ received \subseteq received' /\ ingested \subseteq ingested'
         /\ ~accepting => received' = received
PROOF
<1>1. CASE Reader \/ WorkerExit \/ Closer \/ Observer \/ UNCHANGED vars
  BY <1>1, DrainLocal
     DEF Reader, TrySubmit, Enqueue, RejectMalformed, RequestSourceDisconnected, WorkerExit,
         Closer, Join, OutOfTime, Remaining, RemainingGap, Close, Observer, vars, intakeVars,
         Drain, StartDrain, Take, DeliverMarker, DeliverRecord, ReadGaps, StartFlush, Report,
         EndFlush, CheckQueue, ReadRequest, Decide, Mark, Clear
<1>2. CASE Drain("worker")
  BY <1>2
     DEF Drain, StartDrain, Take, DeliverMarker, DeliverRecord, ReadGaps, StartFlush, Report,
         EndFlush, CheckQueue, ReadRequest, Decide, Mark, Clear, intakeVars
<1> QED
  BY <1>1, <1>2 DEF Next, Worker

\* What a record is carried by.
LEMMA CarriedFacts ==
  /\ \A m : m \in Carried <=> \/ \E i \in 1 .. Len(queue) : m = queue[i]
                              \/ \E t \in Threads : m = thread[t].item
  /\ Drained => Carried \cap Messages = {}
PROOF
<1>1. \A m : m \in Carried <=> \/ \E i \in 1 .. Len(queue) : m = queue[i]
                               \/ \E t \in Threads : m = thread[t].item
  BY DEF Carried
<1>2. ASSUME Drained, NEW m \in Carried PROVE m \notin Messages
  <2>1. Len(queue) = 0
    BY <1>2 DEF Drained
  <2> QED
    BY <1>1, <1>2, <2>1 DEF Drained
<1> QED
  BY <1>1, <1>2

\* What stays in its place is still carried.
LEMMA CarriedStays ==
  ASSUME Typed, NEW m \in Messages, m \in Carried,
         \A i \in 1 .. Len(queue) : \/ i \in 1 .. Len(queue') /\ queue'[i] = queue[i]
                                    \/ queue[i] # m,
         \A u \in Threads : thread'[u].item = thread[u].item \/ thread[u].item # m
  PROVE  m \in Carried'
PROOF
<1>1. CASE \E i \in 1 .. Len(queue) : m = queue[i]
  <2> PICK i \in 1 .. Len(queue) : m = queue[i]
    BY <1>1
  <2>1. i \in 1 .. Len(queue') /\ queue'[i] = m
    OBVIOUS
  <2> QED
    BY <2>1 DEF Carried
<1>2. CASE \E t \in Threads : m = thread[t].item
  <2> PICK t \in Threads : m = thread[t].item
    BY <1>2
  <2>1. thread'[t].item = m
    OBVIOUS
  <2> QED
    BY <2>1 DEF Carried
<1> QED
  BY <1>1, <1>2, CarriedFacts

\* A record leaves by being ingested, by being counted, or after the disconnect.
LEMMA CoveredStep ==
  ASSUME Typed, Hands, Alone, [Next]_vars, Covered
  PROVE  \/ Covered' \/ PendingIn(Losses)'
         \/ /\ link # "connected"
            /\ \E t \in Threads : thread[t].item \in Messages
PROOF
<1>0. /\ thread \in [Threads -> Local] /\ "worker" \in Threads /\ "closer" \in Threads
      /\ queue \in Seq(Messages \cup Markers) /\ Len(queue) \in Nat
      /\ received \subseteq Messages
  BY QueueFacts DEF Typed, TypeOK, Threads
<1>1. \A m \in received : m \in ingested \/ m \in Carried
  BY DEF Covered
<1>2. ingested \subseteq ingested'
  BY ReceivedStep
<1>3. ASSUME received' = received,
             \A m \in Messages : m \in Carried => m \in Carried' \/ m \in ingested'
      PROVE  Covered'
  BY <1>0, <1>1, <1>2, <1>3 DEF Covered
<1>4. ASSUME NEW c \in Losses, c \in counters' PROVE PendingIn(Losses)'
  BY <1>4 DEF PendingIn
<1>5. ASSUME queue' = queue, received' = received,
             \A u \in Threads : thread'[u].item = thread[u].item
      PROVE  Covered'
  <2>1. \A m \in Messages : m \in Carried => m \in Carried'
    BY <1>5 DEF Carried
  <2> QED
    BY <1>3, <1>5, <2>1
<1>6. CASE Enqueue
  <2>1. incoming \in Messages /\ UNCHANGED thread
    BY <1>6 DEF Enqueue, Typed, TypeOK
  <2>2. CASE queue' = Append(queue, incoming) /\ received' = received \cup {incoming}
    <3>1. /\ queue' \in Seq(Messages \cup Markers) /\ Len(queue') = Len(queue) + 1
          /\ queue'[Len(queue) + 1] = incoming
          /\ \A i \in 1 .. Len(queue) : queue'[i] = queue[i]
      BY <2>1, <2>2, QueueMore
    <3>2. /\ Len(queue) + 1 \in 1 .. Len(queue')
          /\ \A i \in 1 .. Len(queue) : i \in 1 .. Len(queue')
      BY <1>0, <3>1
    <3>3. incoming \in Carried'
      BY <3>1, <3>2 DEF Carried
    <3>4. \A m \in Messages : m \in Carried => m \in Carried'
      BY <2>1, <3>1, <3>2, CarriedStays
    <3>5. \A m \in received' : m \in ingested' \/ m \in Carried'
      BY <1>0, <1>1, <1>2, <2>2, <3>3, <3>4
    <3> QED
      BY <3>5 DEF Covered
  <2>3. CASE "lost" \in counters'
    BY <1>4, <2>3 DEF Losses
  <2>4. CASE received' = received /\ queue' = queue
    BY <1>5, <2>1, <2>4
  <2> QED
    BY <1>6, <2>2, <2>3, <2>4 DEF Enqueue, Overflow
<1>7. CASE RejectMalformed
  BY <1>4, <1>7 DEF RejectMalformed, Losses
<1>8. ASSUME NEW kind \in Markers, RequestSourceDisconnected(kind) PROVE Covered'
  <2>1. UNCHANGED <<thread, received>>
    BY <1>8 DEF RequestSourceDisconnected
  <2>2. CASE queue' = Append(queue, kind)
    <3>1. /\ queue' \in Seq(Messages \cup Markers) /\ Len(queue') = Len(queue) + 1
          /\ \A i \in 1 .. Len(queue) : queue'[i] = queue[i]
      BY <2>2, QueueMore
    <3>2. \A i \in 1 .. Len(queue) : i \in 1 .. Len(queue')
      BY <1>0, <3>1
    <3>3. \A m \in Messages : m \in Carried => m \in Carried'
      BY <2>1, <3>1, <3>2, CarriedStays
    <3> QED
      BY <1>3, <2>1, <3>3
  <2>3. CASE queue' = queue
    BY <1>5, <2>1, <2>3
  <2> QED
    BY <1>8, <2>2, <2>3 DEF RequestSourceDisconnected
<1>9. CASE (\E m \in Messages : TrySubmit(m)) \/ Observer \/ UNCHANGED vars
  BY <1>5, <1>9 DEF TrySubmit, Observer, vars, intakeVars
<1>10. ASSUME NEW t \in Threads, Drain(t)
       PROVE  \/ Covered' \/ PendingIn(Losses)'
              \/ link # "connected" /\ thread[t].item \in Messages
  <2>1. /\ thread[t] \in Local /\ \A u \in Threads : u # t => thread'[u] = thread[u]
        /\ received' = received
    BY <1>0, <1>10, DrainLocal
  <2>2. CASE Take(t)
    <3>1. /\ thread'[t].item = queue[1] /\ queue' = Tail(queue) /\ queue # <<>>
          /\ At(t, "drain")
      BY <1>0, <2>1, <2>2, QueueFacts DEF Take, Local
    <3>2. thread[t].item = NoMessage
      BY <3>1 DEF Hands, At
    <3>3. ASSUME NEW m \in Messages, m \in Carried PROVE m \in Carried'
      <4>1. CASE \E i \in 1 .. Len(queue) : m = queue[i]
        <5> PICK i \in 1 .. Len(queue) : m = queue[i]
          BY <4>1
        <5>1. CASE i = 1
          BY <3>1, <5>1 DEF Carried
        <5>2. CASE i # 1
          <6>1. i - 1 \in 1 .. Len(Tail(queue)) /\ Tail(queue)[i - 1] = queue[(i - 1) + 1]
            BY <3>1, <5>2, QueueFacts
          <6>2. i - 1 \in 1 .. Len(queue') /\ queue'[i - 1] = m
            BY <1>0, <3>1, <6>1
          <6> QED
            BY <6>2 DEF Carried
        <5> QED
          BY <5>1, <5>2
      <4>2. CASE \E u \in Threads : m = thread[u].item
        <5> PICK u \in Threads : m = thread[u].item
          BY <4>2
        <5>1. u # t
          BY <3>2, MessagesAssumption
        <5>2. thread'[u].item = m
          BY <2>1, <5>1
        <5> QED
          BY <5>2 DEF Carried
      <4> QED
        BY <3>3, <4>1, <4>2, CarriedFacts
    <3> QED
      BY <1>3, <2>1, <3>3
  <2>3. CASE DeliverMarker(t)
    <3>1. thread[t].item \notin Messages /\ queue' = queue
      BY <2>3, MessagesAssumption DEF DeliverMarker
    <3>2. \A m \in Messages : m \in Carried => m \in Carried'
      BY <1>0, <2>1, <3>1, CarriedStays
    <3> QED
      BY <1>3, <2>1, <3>2
  <2>4. CASE DeliverRecord(t)
    <3>1. queue' = queue
      BY <2>4 DEF DeliverRecord
    <3>2. \A m \in Messages : m \in Carried => m \in Carried' \/ m = thread[t].item
      BY <1>0, <2>1, <3>1, CarriedStays
    <3>3. CASE ingested' = ingested \cup {thread[t].item}
      <4>1. \A m \in Messages : m \in Carried => m \in Carried' \/ m \in ingested'
        BY <3>2, <3>3
      <4> QED
        BY <1>3, <2>1, <4>1
    <3>4. CASE "commit_lost" \in counters'
      BY <1>4, <3>4 DEF Losses
    <3>5. CASE link # "connected"
      BY <2>4, <3>5 DEF DeliverRecord
    <3> QED
      BY <2>4, <3>3, <3>4, <3>5 DEF DeliverRecord, CommitLost
  <2>5. CASE ~Take(t) /\ ~DeliverMarker(t) /\ ~DeliverRecord(t)
    <3>1. queue' = queue
      BY <1>10, <2>5, DrainQueue
    <3>2. thread'[t].item = thread[t].item
      <4>1. CASE StartDrain(t) \/ ReadGaps(t) \/ StartFlush(t) \/ EndFlush(t) \/ Decide(t)
        BY <1>0, <2>1, <4>1
           DEF StartDrain, ReadGaps, StartFlush, EndFlush, Decide, Goto, Local
      <4>2. CASE CheckQueue(t) \/ ReadRequest(t) \/ Mark(t) \/ Clear(t)
        <5>1. CASE Returned(t)
          BY <5>1, ReturnedFacts
        <5>2. CASE ~Returned(t)
          BY <1>0, <2>1, <4>2, <5>2 DEF CheckQueue, ReadRequest, Mark, Clear, Goto, Local
        <5> QED
          BY <5>1, <5>2
      <4>3. CASE \E c \in Counters : Report(t, c)
        BY <1>0, <2>1, <4>3 DEF Report, Local
      <4> QED
        BY <1>10, <2>5, <4>1, <4>2, <4>3 DEF Drain
    <3>3. \A u \in Threads : thread'[u].item = thread[u].item
      BY <2>1, <3>2
    <3> QED
      BY <1>5, <2>1, <3>1, <3>3
  <2> QED
    BY <2>2, <2>3, <2>4, <2>5
<1>11. CASE WorkerExit \/ Join \/ OutOfTime \/ Remaining \/ RemainingGap
            \/ \E kind \in Markers : Close(kind)
  <2>1. \A u \in Threads : thread'[u].item = thread[u].item
    BY <1>0, <1>11
       DEF WorkerExit, Join, OutOfTime, Remaining, RemainingGap, Close, Goto, Local
  <2>2. queue' = queue /\ received' = received
    BY <1>11
       DEF WorkerExit, Join, OutOfTime, Remaining, RemainingGap, Close, intakeVars, Alone
  <2> QED
    BY <1>5, <2>1, <2>2
<1> QED
  BY <1>0, <1>6, <1>7, <1>8, <1>9, <1>10, <1>11 DEF Next, Reader, Worker, Closer

----------------------------------------------------------------------------
(* The claim of exact coverage.                                              *)

BoundClaim == exact => binding = "active"

LEMMA LedgerBooleans ==
  ASSUME Typed
  PROVE  /\ exact \in BOOLEAN /\ gap \in BOOLEAN /\ terminal \in BOOLEAN
         /\ link \in {"connected", "disconnected"}
PROOF BY DEF Typed, TypeOK

\* A disconnected source is never connected again.
LEMMA LinkStays ==
  ASSUME Typed, [Next]_vars, link # "connected"
  PROVE  link' # "connected" /\ (exact' => exact)
PROOF
<1>1. ASSUME NEW c \in Counters, Reported(c) PROVE link' = link /\ (exact' => exact)
  BY <1>1, LedgerBooleans DEF Reported, Counters, Rank, HealthGap, Incompatible, ledgerVars
<1>2. ~Bind /\ \A expected \in BOOLEAN : ~Disconnect(expected)
  BY DEF Bind, Disconnect
<1>3. ASSUME Finish PROVE link' = link /\ (exact' => exact)
  BY <1>3, LedgerBooleans DEF Finish
<1>4. ASSUME HealthGap PROVE link' = link /\ (exact' => exact)
  BY <1>4, LedgerBooleans DEF HealthGap
<1>5. ASSUME UNCHANGED ledgerVars PROVE link' = link /\ (exact' => exact)
  BY <1>5, LedgerBooleans DEF ledgerVars
<1> QED
  BY <1>1, <1>2, <1>3, <1>4, <1>5, LedgerStep DEF LedgerCalls

\* While the source is connected the claim is bound to it, and once withdrawn with a gap
\* it is never made again.
LEMMA ClaimStep ==
  ASSUME Typed, [Next]_vars, link = "connected", link' = "connected", BoundClaim
  PROVE  /\ BoundClaim'
         /\ Withdrawn => Withdrawn'
         /\ \A c \in Losses : Reported(c) => Withdrawn'
PROOF
<1>1. exact \in BOOLEAN /\ gap \in BOOLEAN
  BY LedgerBooleans
<1>2. ASSUME Bind PROVE BoundClaim' /\ (Withdrawn => Withdrawn')
  BY <1>1, <1>2 DEF Bind, Claim, BoundClaim, Withdrawn
<1>3. ASSUME Finish PROVE BoundClaim' /\ (Withdrawn => Withdrawn')
  BY <1>1, <1>3 DEF Finish, BoundClaim, Withdrawn
<1>4. ASSUME HealthGap PROVE BoundClaim' /\ Withdrawn'
  BY <1>1, <1>4 DEF HealthGap, BoundClaim, Withdrawn
<1>5. ASSUME NEW c \in Counters, Reported(c)
      PROVE  BoundClaim' /\ (Withdrawn => Withdrawn') /\ (c \in Losses => Withdrawn')
  <2>1. CASE c \in {"lost", "commit_lost"}
    BY <1>4, <1>5, <2>1 DEF Reported
  <2>2. CASE c = "rejected"
    BY <1>1, <1>5, <2>2 DEF Reported, ledgerVars, BoundClaim, Withdrawn, Losses
  <2>3. CASE c = "malformed"
    BY <1>1, <1>5, <2>3 DEF Reported, Incompatible, BoundClaim, Withdrawn
  <2>4. CASE c = "overflow"
    BY <1>1, <1>5, <2>4 DEF Reported, BoundClaim, Withdrawn, Losses
  <2> QED
    BY <2>1, <2>2, <2>3, <2>4 DEF Counters, Rank
<1>6. ASSUME NEW t \in Threads, Disconnect(thread[t].expected) PROVE FALSE
  BY <1>6 DEF Disconnect
<1>7. ASSUME UNCHANGED ledgerVars PROVE BoundClaim' /\ (Withdrawn => Withdrawn')
  BY <1>1, <1>7 DEF ledgerVars, BoundClaim, Withdrawn
<1>8. Losses \subseteq Counters
  BY DEF Losses, Counters, Rank
<1> QED
  BY <1>2, <1>3, <1>4, <1>5, <1>6, <1>7, <1>8, LedgerStep DEF LedgerCalls

\* A thread that marks an expected disconnect decided so when nothing was pending.
LEMMA MarkingStep ==
  ASSUME Typed, [Next]_vars, NEW u \in Threads, thread'[u].at = "mark", thread'[u].expected
  PROVE  \/ /\ thread[u].at = "mark" /\ thread[u].expected
            /\ thread'[u].asked = thread[u].asked
         \/ Decide(u) /\ Expected(u)
PROOF
<1>0. /\ thread \in [Threads -> Local] /\ "worker" \in Threads /\ "closer" \in Threads
  BY DEF Typed, TypeOK, Threads
<1>1. CASE Reader \/ Observer \/ UNCHANGED vars
  BY <1>1
     DEF Reader, TrySubmit, Enqueue, RejectMalformed, RequestSourceDisconnected, Observer, vars
<1>2. CASE WorkerExit \/ Join \/ OutOfTime \/ Remaining \/ RemainingGap
           \/ \E kind \in Markers : Close(kind)
  BY <1>0, <1>2 DEF WorkerExit, Join, OutOfTime, Remaining, RemainingGap, Close, Goto, Local
<1>3. ASSUME NEW t \in Threads, Drain(t)
      PROVE  \/ /\ thread[u].at = "mark" /\ thread[u].expected
                /\ thread'[u].asked = thread[u].asked
             \/ Decide(u) /\ Expected(u)
  <2>1. CASE u # t
    BY <1>3, <2>1, DrainLocal
  <2>2. CASE u = t
    <3>1. thread[t] \in Local
      BY <1>0
    <3>2. CASE Decide(t)
      BY <1>0, <2>2, <3>1, <3>2 DEF Decide, Local
    <3>3. CASE CheckQueue(t) \/ ReadRequest(t) \/ Mark(t) \/ Clear(t)
      <4>1. ~Returned(t)
        BY <2>2, ReturnedFacts
      <4> QED
        BY <1>0, <2>2, <3>1, <3>3, <4>1
           DEF CheckQueue, ReadRequest, Mark, Clear, Goto, Local
    <3>4. CASE \/ StartDrain(t) \/ Take(t) \/ DeliverMarker(t) \/ DeliverRecord(t)
               \/ ReadGaps(t) \/ StartFlush(t) \/ EndFlush(t)
      BY <1>0, <2>2, <3>1, <3>4
         DEF StartDrain, Take, DeliverMarker, DeliverRecord, Delivered, ReadGaps, StartFlush,
             EndFlush, Goto, Local
    <3>5. ASSUME NEW c \in Counters, Report(t, c) PROVE FALSE
      BY <1>0, <2>2, <3>1, <3>5 DEF Report, Local, At
    <3> QED
      BY <1>3, <3>2, <3>3, <3>4, <3>5 DEF Drain
  <2> QED
    BY <2>1, <2>2
<1> QED
  BY <1>0, <1>1, <1>2, <1>3 DEF Next, Worker, Closer

LEMMA FedStep ==
  ASSUME Typed, Behaved, Orderly', [Next]_vars
  PROVE  Fed'
PROOF
<1> SUFFICES ASSUME link' = "connected"
             PROVE  /\ BoundClaim'
                    /\ (Covered \/ LossPending \/ Withdrawn)'
                    /\ \A u \in Threads : thread'[u].at = "mark" /\ thread'[u].expected =>
                         /\ thread'[u].asked = "expected"
                         /\ received' \subseteq ingested' \/ Withdrawn'
  BY DEF Fed, BoundClaim, Covered, At
<1>1. link = "connected"
  BY LinkStays
<1>2. /\ BoundClaim /\ (Covered \/ LossPending \/ Withdrawn)
      /\ Hands /\ Alone /\ MarkerLast /\ Disconnecting
  BY <1>1 DEF Behaved, Fed, BoundClaim, Covered
<1>3. /\ BoundClaim' /\ (Withdrawn => Withdrawn')
      /\ \A c \in Losses : Reported(c) => Withdrawn'
  BY <1>1, <1>2, ClaimStep
<1>4. PendingIn(Losses)' => LossPending'
  BY DEF PendingIn, LossPending
<1>5. LossPending => (LossPending \/ Withdrawn)'
  <2> SUFFICES ASSUME PendingIn(Losses) PROVE LossPending' \/ Withdrawn'
    BY LossesShow DEF Typed
  <2>1. PendingIn(Losses)' \/ \E t \in Threads, c \in Losses \cap Counters :
                                 Report(t, c) /\ Reported(c)
    BY <1>2, PendingStays
  <2> QED
    BY <1>3, <1>4, <2>1
<1>6. (Covered \/ LossPending \/ Withdrawn)'
  BY <1>1, <1>2, <1>3, <1>4, <1>5, CoveredStep
<1>7. ASSUME NEW u \in Threads, thread'[u].at = "mark", thread'[u].expected
      PROVE  /\ thread'[u].asked = "expected"
             /\ received' \subseteq ingested' \/ Withdrawn'
  <2>1. CASE /\ thread[u].at = "mark" /\ thread[u].expected
             /\ thread'[u].asked = thread[u].asked
    <3>1. /\ thread[u].asked = "expected"
          /\ received \subseteq ingested \/ Withdrawn
      BY <1>1, <2>1 DEF Behaved, Fed, At
    <3>2. ~accepting
      BY <1>2, <2>1 DEF Disconnecting, Behind
    <3> QED
      BY <1>3, <2>1, <3>1, <3>2, ReceivedStep
  <2>2. CASE Decide(u) /\ Expected(u)
    <3>1. thread[u].at = "decide" /\ thread[u].asked = "expected"
      BY <2>2 DEF Decide, Expected, At
    <3>2. thread'[u].asked = "expected"
      BY <2>2, <3>1 DEF Decide, Typed, TypeOK, Local
    <3>3. Drained
      BY <1>2, <3>1 DEF Disconnecting
    <3>4. ~LossPending
      <4>1. thread[u].taken = {} /\ \A w \in Threads : w # u => thread[w].taken = {}
        BY <1>2, <3>1, OneDrains DEF Hands, At, Idle
      <4>2. counters \cap Losses = {}
        BY <2>2 DEF Expected, GapPending, Losses
      <4> QED
        BY <4>1, <4>2 DEF LossPending
    <3>5. Covered => received \subseteq ingested
      BY <3>3, CarriedFacts DEF Covered, Typed, TypeOK
    <3>6. ~accepting
      BY <3>3 DEF Drained
    <3> QED
      BY <1>2, <1>3, <3>2, <3>4, <3>5, <3>6, ReceivedStep
  <2> QED
    BY <1>7, <2>1, <2>2, MarkingStep
<1> QED
  BY <1>3, <1>6, <1>7

LEMMA BehavedStep ==
  ASSUME Typed, Behaved, Orderly', [Next]_vars
  PROVE  Behaved'
PROOF
<1>1. /\ Hands /\ Draining /\ Alone /\ MarkerLast /\ Disconnecting /\ Fed
      /\ Covered \/ LossShows
  BY DEF Behaved, Covered
<1>2. Hands' /\ Draining' /\ Alone' /\ MarkerLast' /\ Disconnecting' /\ Fed'
  BY <1>1, HandsStep, DrainingStep, AloneStep, MarkerLastStep, DisconnectingStep, FedStep
<1>3. LossShows => LossShows'
  BY <1>1, LossStays
<1>4. PendingIn(Losses)' => LossShows'
  BY DEF PendingIn, LossShows, GapPending, Losses
<1>5. (Covered \/ LossShows)'
  <2>1. ASSUME Covered, link # "connected", NEW t \in Threads, thread[t].item \in Messages
        PROVE  LossShows
    BY <1>1, <2>1 DEF Disconnecting, Behind, Drained
  <2> QED
    BY <1>1, <1>3, <1>4, <2>1, CoveredStep
<1>6. ASSUME link' # "connected", exact' PROVE received' \subseteq ingested'
  <2>1. CASE link # "connected"
    <3>1. exact /\ received \subseteq ingested
      BY <1>6, <2>1, LinkStays DEF Behaved
    <3>2. ~accepting
      BY <1>1, <2>1 DEF Disconnecting, Behind
    <3> QED
      BY <3>1, <3>2, ReceivedStep
  <2>2. CASE link = "connected"
    <3> PICK t \in Threads : Mark(t) /\ Disconnect(thread[t].expected)
      BY <1>6, <2>2, LinkStep
    <3>1. exact /\ (binding = "active" => thread[t].expected)
      BY <1>6, LedgerBooleans DEF Disconnect
    <3>2. thread[t].expected /\ At(t, "mark")
      BY <1>1, <2>2, <3>1 DEF Fed, Mark
    <3>3. received \subseteq ingested
      BY <1>1, <2>2, <3>1, <3>2 DEF Fed, Withdrawn
    <3>4. ~accepting
      BY <1>1, <3>2 DEF Disconnecting, Behind, At
    <3> QED
      BY <3>3, <3>4, ReceivedStep
  <2> QED
    BY <2>1, <2>2
<1> QED
  BY <1>2, <1>5, <1>6 DEF Behaved, Covered

----------------------------------------------------------------------------
(* The theorems.                                                             *)

LEMMA AdapterInit ==
  ASSUME Init
  PROVE  AdapterInv
PROOF
<1>1. thread \in [Threads -> Local]
  BY DEF Init, Local
<1>2. \A t \in Threads : thread[t].item = NoMessage /\ thread[t].taken = {}
  BY DEF Init
<1>3. thread["worker"].at = "loop" /\ thread["closer"].at = "open"
  BY DEF Init, Threads
<1>4. queue \in Seq(Messages \cup Markers) /\ Len(queue) = 0 /\ 0 <= MaxQueue
  BY QueueAssumption DEF Init
<1>5. Typed
  <2>1. TypeOK
    <3>1. /\ link \in {"connected", "disconnected"} /\ binding \in {"none", "active", "ended"}
          /\ terminal \in BOOLEAN /\ exact \in BOOLEAN /\ gap \in BOOLEAN
          /\ accepting \in BOOLEAN /\ closed \in BOOLEAN
          /\ wanted \in Markers \cup {"none"} /\ counters \subseteq Counters
      BY DEF Init
    <3>2. /\ incoming \in Messages \cup {NoMessage}
          /\ failures \in 0 .. MaxFailures /\ owner \in Owners
          /\ hasty \subseteq {"marked", "left", "late"}
          /\ ingested \subseteq received /\ received \subseteq sent /\ sent \subseteq Messages
      BY FailureAssumption DEF Init
    <3>3. Len(queue) <= MaxQueue
      BY <1>4
    <3> QED
      BY <1>1, <1>4, <3>1, <3>2, <3>3 DEF TypeOK
  <2>2. Held
    BY <1>2, <1>4, MessagesAssumption DEF Init, Held
  <2> QED
    BY <2>1, <2>2 DEF Typed
<1>6. Hands /\ Draining /\ Alone /\ MarkerLast
  BY <1>2, <1>3, <1>4 DEF Init, Hands, Draining, Alone, MarkerLast, At
<1>7. Disconnecting /\ Fed
  BY <1>3 DEF Init, Disconnecting, Fed, At, Threads
<1>8. received = {} /\ link = "connected" /\ Orderly
  BY DEF Init, Orderly
<1> QED
  BY <1>5, <1>6, <1>7, <1>8 DEF AdapterInv, Behaved

\* Only a close that marks the disconnect gets ahead of the worker.
LEMMA HurryStep ==
  ASSUME AdapterInv, [Next]_vars, ~Orderly'
  PROVE  Marked'
PROOF
<1>1. Typed /\ owner' = owner /\ (closed => closed')
  BY OrderlyStep DEF AdapterInv
<1>2. CASE ~Orderly
  BY <1>1, <1>2 DEF AdapterInv, Marked
<1>3. CASE Orderly
  <2>1. hasty' # hasty
    BY <1>1, <1>3 DEF Orderly
  <2>2. (\E kind \in Markers : Close(kind)) \/ Join \/ OutOfTime
    BY <2>1, DrainLocal
       DEF Next, Reader, TrySubmit, Enqueue, RejectMalformed, RequestSourceDisconnected,
           Worker, WorkerExit, Closer, Remaining, RemainingGap, Drain,
           StartDrain, Take, DeliverMarker, DeliverRecord, ReadGaps, StartFlush, Report,
           EndFlush, CheckQueue, ReadRequest, Decide, Mark, Clear, Observer, vars, intakeVars
  <2>3. ASSUME NEW kind \in Markers, Close(kind) PROVE Marked'
    BY <1>1, <1>3, <2>3 DEF Close, Overtakes, Orderly, Marked
  <2>4. CASE Join
    <3>1. closed
      BY <1>3, <2>4 DEF AdapterInv, Behaved, Alone, Join, At
    <3> QED
      BY <1>1, <1>3, <2>4, <3>1 DEF Join, Orderly, Marked
  <2>5. CASE OutOfTime
    BY <1>1, <1>3, <2>5 DEF OutOfTime, Orderly
  <2> QED
    BY <2>2, <2>3, <2>4, <2>5
<1> QED
  BY <1>2, <1>3

LEMMA AdapterStep ==
  ASSUME AdapterInv, [Next]_vars
  PROVE  AdapterInv'
PROOF BY TypedStep, OrderlyStep, BehavedStep, HurryStep DEF AdapterInv

LEMMA AdapterInvariant == Spec => []AdapterInv
PROOF
<1>1. Init => AdapterInv
  BY AdapterInit
<1>2. AdapterInv /\ [Next]_vars => AdapterInv'
  BY AdapterStep
<1> QED
  BY <1>1, <1>2, PTL DEF Spec

\* Whoever owns the adapter and however it ends: a record that was received is ingested,
\* on its way, or a gap that shows, unless a close got ahead of the worker (try_submit,
\* drain_once, _flush_health, close).
THEOREM NoLossIsSilent == Spec => []NoSilentLoss
PROOF
<1>1. ASSUME AdapterInv PROVE NoSilentLoss
  BY <1>1 DEF AdapterInv, Typed, Behaved, NoSilentLoss
<1> QED
  BY <1>1, AdapterInvariant, PTL

\* So too, a dispatch that still claims exact coverage of a source that is disconnected
\* saw every notification received (_attempt_pending_disconnect).
THEOREM ExactCoverageIsComplete == Spec => []ExactMeansIngested
PROOF
<1>1. ASSUME AdapterInv PROVE ExactMeansIngested
  BY <1>1 DEF AdapterInv, Behaved, ExactMeansIngested
<1> QED
  BY <1>1, AdapterInvariant, PTL

\* And the disconnect, requested or marked by a close as the host's is, takes effect
\* behind every notification already received, or a loss shows
\* (request_source_disconnected, close).
THEOREM DisconnectIsLast == Spec => []DisconnectComesLast
PROOF
<1>1. ASSUME AdapterInv PROVE DisconnectComesLast
  <2>1. ASSUME link = "disconnected", Orderly PROVE received \cap Carried = {} \/ LossShows
    BY <1>1, <2>1, CarriedFacts
       DEF AdapterInv, Behaved, Disconnecting, Behind, Typed, TypeOK
  <2> QED
    BY <2>1 DEF DisconnectComesLast, DisconnectBehindReceived
<1> QED
  BY <1>1, AdapterInvariant, PTL

\* What the three properties say, until a close marks the disconnect.
HonestUnmarked ==
  ~Marked =>
    /\ link = "disconnected" /\ exact => received \subseteq ingested
    /\ DisconnectBehindReceived
    /\ received \subseteq ingested \cup Carried \/ LossShows

\* Until a close marks the disconnect, all three hold without exception: nothing else that
\* an owner may do gets ahead of the worker (request_source_disconnected, close).
THEOREM AdapterIsHonestUnmarked == Spec => []HonestUnmarked
PROOF
<1>1. ASSUME AdapterInv, NoSilentLoss, ExactMeansIngested, DisconnectComesLast
      PROVE  HonestUnmarked
  <2>1. CASE Marked
    BY <2>1 DEF HonestUnmarked
  <2>2. CASE ~Marked
    <3>1. Orderly
      BY <1>1, <2>2 DEF AdapterInv
    <3> QED
      BY <1>1, <3>1
         DEF HonestUnmarked, NoSilentLoss, ExactMeansIngested, DisconnectComesLast
  <2> QED
    BY <2>1, <2>2
<1> QED
  BY <1>1, AdapterInvariant, NoLossIsSilent, ExactCoverageIsComplete, DisconnectIsLast, PTL

=============================================================================
