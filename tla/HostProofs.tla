------------------------------ MODULE HostProofs ------------------------------
(***************************************************************************)
(* Theorems about ObservabilityHost, for any bounds of the queue, of a drain  *)
(* and of the faults.                                                        *)
(*                                                                         *)
(* The argument: a loss is in one of three places until the ledger has its    *)
(* gap, with the observer, in the hands of the drain or with the ledger        *)
(* (Shows), and every hook is in the queue, in the ledger or such a loss       *)
(* (Kept); a flag that the closing thread has set stays true of the threads it  *)
(* speaks of until the next close (Serving, Owned), since by then the           *)
(* controller calls no hook and nothing is started; so the ledger is closed     *)
(* with every thread ended (Shut).                                            *)
(***************************************************************************)
EXTENDS ObservabilityHost, TLAPS

Queued(record) == \E i \in 1 .. Len(queue) : queue[i] = record

\* Losses are with the drain that took them, and reported by it.
Shape ==
  /\ drain.who = "none" => drain.at = "loop"
  /\ drain.held <=> drain.at \in {"mark", "tell"}

Shown == gap \/ losses \/ drain.held

\* The dispatch is recorded once, and binds only then.
Submitted ==
  /\ exact \/ Queued("submission") \/ recorded => dispatch # "prepared"
  /\ exact => recorded
  /\ Queued("submission") => ~recorded
  /\ \A i, j \in 1 .. Len(queue) :
       queue[i] = "submission" /\ queue[j] = "submission" => i = j

\* Once the gap is marked, the dispatch that was recorded claims nothing.
Shows ==
  /\ missed => Shown
  /\ drain.at = "tell" => gap
  /\ missed /\ ~losses /\ drain.at # "mark" => gap /\ ~exact

\* What the controller told is queued, in the ledger or lost.
Kept ==
  \/ Shown
  \/ /\ dispatch # "prepared" => recorded \/ Queued("submission")
     /\ dispatch = "terminal" => terminal \/ Queued("terminal")

Ending == {"closing", "failed"}

\* The parts of the host, as far as it is open.
Opening ==
  /\ main \in DOMAIN AfterPart \cup {"config", "failed"} =>
       dispatch = "prepared" /\ service = "absent"
  /\ main \in {"config", "ledger", "adapter"} => adapter = "absent"
  /\ main \in {"config", "ledger"} => ledger = "absent"
  /\ main \in {"config", "ledger", "adapter", "observer"} => drain.who = "none"
  /\ closer.at = "idle" <=> main \notin Ending
  /\ closer.at = "idle" => ~served /\ ~closer.ownerOk
  /\ adapter # "absent" => link # "absent"
  /\ sealed => adapter # "absent"
  /\ adapter = "dead" => sealed
  /\ sealed /\ wish = "none" => link # "connected"
  /\ closer.at \in {"observer-join", "observer-drain"} => stop
  /\ closer.at \in {"decide", "shutdown-gap"} => main = "closing"
  /\ CloserAt("ledger") => main = "failed"

Served == service \in {"absent", "dead"}

\* The closing thread knows how the exporter's threads ended.
Serving ==
  /\ served => Served
  /\ CloserAt("service-join") => service # "running"
  /\ closer.at \in {"observer", "observer-join", "observer-drain", "adapter", "adapter-join",
                    "attempt", "decide", "shutdown-gap"} =>
       (closer.serviceOk => Served)

\* Nothing of the dispatch is left, and nothing will come.
Quiet ==
  /\ drain.who = "none" /\ stop
  /\ \A i \in 1 .. Len(queue) : queue[i] \notin Records
  /\ gap \/ ((dispatch # "prepared" => recorded) /\ (dispatch = "terminal" => terminal))

\* It knows how the observer ended.
Owned ==
  closer.at \in {"adapter", "adapter-join", "attempt", "decide"} /\ closer.ownerOk => Quiet

\* The ledger is closed last, by a close or by a cleanup, and for good.
Shut ==
  /\ ledger = "closed" =>
       closer.at = "done" /\ (closed \/ main = "failed") /\ Releasable
  /\ closed =>
       /\ closer.at = "done" /\ main = "closing" /\ Quiet
       /\ adapter = "dead" /\ wish = "none" /\ debts = {}

HostInv ==
  /\ TypeOK /\ Shape /\ Submitted /\ Shows /\ Kept
  /\ Opening /\ Serving /\ Owned /\ Shut

----------------------------------------------------------------------------
(* Types.                                                                    *)

Labels ==
  {"idle", "service", "service-join", "observer", "observer-join", "observer-drain",
   "adapter", "adapter-join", "attempt", "decide", "shutdown-gap", "ledger", "done"}
Closers == [at : Labels, serviceOk : BOOLEAN, ownerOk : BOOLEAN]
Drainings ==
  [who : {"none", "worker", "closer"}, at : {"loop", "take", "mark", "tell"},
   count : 0 .. MaxDrain, held : BOOLEAN, final : BOOLEAN]

LEMMA Types ==
  ASSUME TypeOK
  PROVE  /\ link \in {"absent", "connected", "disconnected"}
         /\ binding \in {"none", "active", "ended"}
         /\ terminal \in BOOLEAN /\ exact \in BOOLEAN /\ gap \in BOOLEAN
         /\ stop \in BOOLEAN /\ recorded \in BOOLEAN /\ missed \in BOOLEAN
         /\ sealed \in BOOLEAN /\ served \in BOOLEAN /\ gapTold \in BOOLEAN
         /\ closed \in BOOLEAN /\ losses \in BOOLEAN
         /\ drain \in Drainings /\ closer \in Closers
PROOF BY DEF TypeOK, Drainings, Closers, Labels

LEMMA DrainFields ==
  ASSUME TypeOK
  PROVE  /\ drain.who \in {"none", "worker", "closer"}
         /\ drain.at \in {"loop", "take", "mark", "tell"}
         /\ drain.count \in 0 .. MaxDrain /\ drain.held \in BOOLEAN /\ drain.final \in BOOLEAN
PROOF BY Types DEF Drainings

LEMMA CloserFields ==
  ASSUME TypeOK
  PROVE  closer.at \in Labels /\ closer.serviceOk \in BOOLEAN /\ closer.ownerOk \in BOOLEAN
PROOF BY Types DEF Closers

\* The drains there are.
LEMMA NewDrains ==
  /\ NoDrain \in Drainings /\ Thread \in Drainings /\ AfterDrain \in {NoDrain, Thread}
  /\ NoDrain.who = "none" /\ NoDrain.at = "loop" /\ NoDrain.held = FALSE
  /\ Thread.who = "worker" /\ Thread.at = "loop" /\ Thread.held = FALSE
  /\ \A who \in {"worker", "closer"}, final \in BOOLEAN :
       /\ Drains(who, final) \in Drainings /\ Drains(who, final).who = who
       /\ Drains(who, final).at = "take" /\ Drains(who, final).held = FALSE
PROOF
<1>1. NoDrain \in Drainings
  BY HostAssumption DEF NoDrain, Drainings
<1>2. NoDrain.who = "none" /\ NoDrain.at = "loop" /\ NoDrain.held = FALSE
  BY DEF NoDrain
<1>3. Thread \in Drainings /\ Thread.who = "worker" /\ Thread.at = "loop" /\ Thread.held = FALSE
  BY <1>1, <1>2 DEF Thread, Drainings
<1>4. ASSUME NEW who \in {"worker", "closer"}, NEW final \in BOOLEAN
      PROVE  /\ Drains(who, final) \in Drainings /\ Drains(who, final).who = who
             /\ Drains(who, final).at = "take" /\ Drains(who, final).held = FALSE
  BY <1>1, <1>2 DEF Drains, Drainings
<1>5. AfterDrain \in {NoDrain, Thread}
  BY DEF AfterDrain
<1> QED
  BY <1>1, <1>2, <1>3, <1>4, <1>5

\* Where the closing thread goes.
LEMMA GotoFacts ==
  ASSUME TypeOK, NEW label \in Labels
  PROVE  /\ Start(label) => /\ closer' \in Closers /\ closer'.at = label
                            /\ closer'.serviceOk = TRUE /\ closer'.ownerOk = FALSE
         /\ Goto(label) => closer' \in Closers /\ closer'.at = label
         /\ Goto(label) /\ label # "done" => /\ closer'.serviceOk = closer.serviceOk
                                             /\ closer'.ownerOk = closer.ownerOk
PROOF
<1>1. closer \in Closers
  BY Types
<1>2. ASSUME NEW l \in Labels, Start(l)
      PROVE  /\ closer' \in Closers /\ closer'.at = l
             /\ closer'.serviceOk = TRUE /\ closer'.ownerOk = FALSE
  BY <1>2 DEF Start, Closers
<1>3. ASSUME Goto(label), label # "done"
      PROVE  /\ closer' \in Closers /\ closer'.at = label
             /\ closer'.serviceOk = closer.serviceOk /\ closer'.ownerOk = closer.ownerOk
  BY <1>1, <1>3 DEF Goto, Closers
<1>4. ASSUME Goto("done") PROVE closer' \in Closers /\ closer'.at = "done"
  BY <1>2, <1>4 DEF Goto, Labels
<1> QED
  BY <1>2, <1>3, <1>4

LEMMA QueueFacts ==
  ASSUME TypeOK
  PROVE  /\ queue \in Seq(Records \cup Disconnects) /\ Len(queue) \in Nat
         /\ Len(queue) <= MaxQueue
         /\ \A i \in 1 .. Len(queue) : queue[i] \in Records \cup Disconnects
         /\ queue # <<>> => /\ Head(queue) = queue[1] /\ 1 \in 1 .. Len(queue)
                            /\ Tail(queue) \in Seq(Records \cup Disconnects)
                            /\ Len(Tail(queue)) = Len(queue) - 1
                            /\ \A i \in 1 .. Len(Tail(queue)) :
                                 i + 1 \in 1 .. Len(queue) /\ Tail(queue)[i] = queue[i + 1]
PROOF BY DEF TypeOK

LEMMA QueueMore ==
  ASSUME TypeOK, NEW m \in Records \cup Disconnects, queue' = Append(queue, m)
  PROVE  /\ queue' \in Seq(Records \cup Disconnects) /\ Len(queue') = Len(queue) + 1
         /\ queue'[Len(queue) + 1] = m
         /\ \A i \in 1 .. Len(queue) : queue'[i] = queue[i]
PROOF BY QueueFacts

LEMMA LedgerTyped ==
  ASSUME TypeOK, NEW expected \in BOOLEAN,
         \/ Register \/ Bind \/ Finish \/ HealthGap \/ Incompatible \/ MarkGap
         \/ Disconnect(expected) \/ UNCHANGED ledgerVars
  PROVE  /\ link' \in {"absent", "connected", "disconnected"}
         /\ binding' \in {"none", "active", "ended"}
         /\ terminal' \in BOOLEAN /\ exact' \in BOOLEAN /\ gap' \in BOOLEAN
PROOF
<1>0. /\ link \in {"absent", "connected", "disconnected"}
      /\ binding \in {"none", "active", "ended"}
      /\ terminal \in BOOLEAN /\ exact \in BOOLEAN /\ gap \in BOOLEAN
      /\ recorded \in BOOLEAN
  BY Types
<1>1. CASE Register
  BY <1>0, <1>1 DEF Register
<1>2. CASE Bind
  BY <1>0, <1>2 DEF Bind, Claim
<1>3. CASE Finish
  BY <1>0, <1>3 DEF Finish
<1>4. CASE HealthGap
  BY <1>0, <1>4 DEF HealthGap
<1>5. CASE Incompatible
  BY <1>0, <1>5 DEF Incompatible
<1>6. CASE MarkGap
  BY <1>0, <1>6 DEF MarkGap
<1>7. CASE Disconnect(expected)
  BY <1>0, <1>7 DEF Disconnect, Learn
<1>8. CASE UNCHANGED ledgerVars
  BY <1>0, <1>8 DEF ledgerVars
<1> QED
  BY <1>1, <1>2, <1>3, <1>4, <1>5, <1>6, <1>7, <1>8

LEMMA FailTyped ==
  ASSUME TypeOK, Fail \/ UNCHANGED failures
  PROVE  failures' \in 0 .. MaxFailures
PROOF BY HostAssumption DEF TypeOK, Fail

\* The ledger, the controller, the observer, the adapter and the host, apart.
LedgerOK ==
  /\ link \in {"absent", "connected", "disconnected"} /\ binding \in {"none", "active", "ended"}
  /\ terminal \in BOOLEAN /\ exact \in BOOLEAN /\ gap \in BOOLEAN
CallersOK ==
  /\ main \in DOMAIN AfterPart \cup {"config", "open", "closing", "failed"}
  /\ dispatch \in DOMAIN NextHook \cup {"terminal"}
  /\ reader \in Disconnects \cup {"reading", "done"}
ObserverOK ==
  /\ queue \in Seq(Records \cup Disconnects) /\ Len(queue) <= MaxQueue
  /\ stop \in BOOLEAN /\ losses \in BOOLEAN /\ recorded \in BOOLEAN /\ missed \in BOOLEAN
  /\ drain \in Drainings
AdapterOK ==
  /\ adapter \in {"absent", "running", "dead"} /\ sealed \in BOOLEAN
  /\ wish \in Disconnects \cup {"none"} /\ debts \subseteq {"loss", "schema"}
HostOK ==
  /\ service \in {"absent", "running", "stopping", "dead"}
  /\ ledger \in {"absent", "open", "closed"} /\ closer \in Closers
  /\ served \in BOOLEAN /\ gapTold \in BOOLEAN /\ closed \in BOOLEAN

LEMMA TypeParts ==
  /\ TypeOK <=> /\ LedgerOK /\ CallersOK /\ ObserverOK /\ AdapterOK /\ HostOK
                /\ failures \in 0 .. MaxFailures
  /\ TypeOK' <=> /\ LedgerOK' /\ CallersOK' /\ ObserverOK' /\ AdapterOK' /\ HostOK'
                 /\ failures' \in 0 .. MaxFailures
PROOF
BY DEF TypeOK, LedgerOK, CallersOK, ObserverOK, AdapterOK, HostOK, Drainings, Closers, Labels

\* What is left alone keeps its type.
LEMMA Frames ==
  ASSUME TypeOK
  PROVE  /\ UNCHANGED ledgerVars => LedgerOK'
         /\ UNCHANGED callers => CallersOK'
         /\ UNCHANGED observerVars => ObserverOK'
         /\ UNCHANGED adapterVars => AdapterOK'
         /\ UNCHANGED hostVars => HostOK'
PROOF
<1>1. LedgerOK /\ CallersOK /\ ObserverOK /\ AdapterOK /\ HostOK
  BY TypeParts
<1>2. UNCHANGED ledgerVars => LedgerOK'
  BY <1>1 DEF LedgerOK, ledgerVars
<1>3. UNCHANGED callers => CallersOK'
  BY <1>1 DEF CallersOK, callers
<1>4. UNCHANGED observerVars => ObserverOK'
  BY <1>1 DEF ObserverOK, observerVars
<1>5. UNCHANGED adapterVars => AdapterOK'
  BY <1>1 DEF AdapterOK, adapterVars
<1>6. UNCHANGED hostVars => HostOK'
  BY <1>1 DEF HostOK, hostVars
<1> QED
  BY <1>2, <1>3, <1>4, <1>5, <1>6

LEMMA CallersTyped ==
  ASSUME TypeOK, Hook \/ ReaderReports \/ ReaderPuts \/ ReaderFault
  PROVE  TypeOK'
PROOF
<1> USE DEF callers, observerVars, adapterVars, hostVars
<1>0. LedgerOK /\ CallersOK /\ ObserverOK /\ AdapterOK /\ HostOK
  BY TypeParts
<1>1. LedgerOK' /\ AdapterOK' /\ HostOK' /\ failures' \in 0 .. MaxFailures
  BY Frames, FailTyped DEF Hook, ReaderReports, ReaderPuts, ReaderFault
<1>2. ASSUME NEW m \in Records \cup Disconnects, Len(queue) # MaxQueue, queue' = Append(queue, m)
      PROVE  queue' \in Seq(Records \cup Disconnects) /\ Len(queue') <= MaxQueue
  BY <1>2, QueueFacts, QueueMore, HostAssumption
<1>3. CASE Hook
  <2>1. dispatch' \in DOMAIN NextHook \cup {"terminal"}
    BY <1>0, <1>3 DEF Hook, CallersOK, NextHook
  <2>2. CallersOK'
    BY <1>0, <1>3, <2>1 DEF Hook, CallersOK
  <2>3. ASSUME NEW m \in Records, Put(m) PROVE
          /\ queue' \in Seq(Records \cup Disconnects) /\ Len(queue') <= MaxQueue
          /\ losses' \in BOOLEAN /\ missed' \in BOOLEAN
    BY <1>0, <1>2, <2>3 DEF Put, Loss, ObserverOK
  <2>4. (IF dispatch' \in Records THEN dispatch' ELSE "receipt") \in Records
    BY DEF Records
  <2>5. /\ queue' \in Seq(Records \cup Disconnects) /\ Len(queue') <= MaxQueue
        /\ losses' \in BOOLEAN /\ missed' \in BOOLEAN
    BY <1>0, <1>3, <2>3, <2>4 DEF Hook, Loss, ObserverOK
  <2>6. ObserverOK'
    BY <1>0, <1>3, <2>5 DEF Hook, ObserverOK
  <2> QED
    BY <1>1, <2>2, <2>6, TypeParts
<1>4. CASE ReaderReports \/ ReaderFault
  <2>1. CallersOK'
    BY <1>0, <1>4 DEF ReaderReports, ReaderFault, CallersOK
  <2>2. ObserverOK'
    BY <1>0, <1>4 DEF ReaderReports, ReaderFault, ObserverOK, Loss
  <2> QED
    BY <1>1, <2>1, <2>2, TypeParts
<1>5. CASE ReaderPuts
  <2>1. CallersOK'
    BY <1>0, <1>5 DEF ReaderPuts, CallersOK
  <2>2. queue' \in Seq(Records \cup Disconnects) /\ Len(queue') <= MaxQueue
    BY <1>0, <1>2, <1>5 DEF ReaderPuts, ObserverOK
  <2>3. ObserverOK'
    BY <1>0, <1>5, <2>2 DEF ReaderPuts, ObserverOK, Loss
  <2> QED
    BY <1>1, <2>1, <2>3, TypeParts
<1> QED
  BY <1>3, <1>4, <1>5

LEMMA DrainTyped ==
  ASSUME TypeOK, Drain
  PROVE  TypeOK'
PROOF
<1> USE DEF callers, adapterVars, hostVars
<1>0. LedgerOK /\ CallersOK /\ ObserverOK /\ AdapterOK /\ HostOK
  BY TypeParts
<1>1. CallersOK' /\ HostOK'
  BY Frames DEF Drain, Loop, Take, Swap, Report
<1>2. AfterDrain \in Drainings /\ drain \in Drainings
  BY NewDrains, Types
<1>3. CASE Loop
  <2>1. ObserverOK'
    BY <1>0, <1>3, NewDrains DEF Loop, ObserverOK
  <2> QED
    BY <1>0, <1>1, <1>3, <2>1, Frames, FailTyped, TypeParts DEF Loop
<1>4. CASE Swap
  <2>1. drain' \in Drainings
    BY <1>2, <1>4 DEF Swap, Drainings
  <2>2. ObserverOK'
    BY <1>0, <1>4, <2>1 DEF Swap, ObserverOK
  <2> QED
    BY <1>0, <1>1, <1>4, <2>2, Frames, FailTyped, TypeParts DEF Swap
<1>5. CASE Report
  <2>1. drain' \in Drainings
    BY <1>2, <1>5 DEF Report, Drainings
  <2>2. ObserverOK'
    BY <1>0, <1>5, <2>1 DEF Report, PutBack, ObserverOK
  <2>3. LedgerOK'
    BY <1>5, LedgerTyped DEF Report, LedgerOK
  <2> QED
    BY <1>0, <1>1, <1>5, <2>2, <2>3, Frames, FailTyped, TypeParts DEF Report
<1>6. CASE Take
  <2>1. /\ Tail(queue) \in Seq(Records \cup Disconnects) /\ Len(Tail(queue)) <= MaxQueue
        /\ Head(queue) \in Records \cup Disconnects
    BY <1>6, QueueFacts, HostAssumption DEF Take
  <2>2. drain' \in Drainings
    <3>1. drain.count + 1 \in 0 .. MaxDrain
      BY <1>6, DrainFields, HostAssumption DEF Take
    <3> QED
      BY <1>2, <1>6, <3>1 DEF Take, Drainings
  <2>3. CASE TakeRecord
    <3>1. LedgerOK'
      <4>1. ASSUME NEW record \in Records, Ingested(record)
            PROVE  Bind \/ Finish \/ UNCHANGED ledgerVars
        BY <4>1 DEF Ingested, Records
      <4> QED
        BY <2>3, <4>1, LedgerTyped DEF TakeRecord, LedgerOK
    <3>2. recorded' \in BOOLEAN /\ losses' \in BOOLEAN /\ missed' \in BOOLEAN
      <4>1. ASSUME NEW record, record \in Records, Ingested(record) PROVE recorded' \in BOOLEAN
        BY <1>0, <4>1 DEF Ingested, ObserverOK, Records
      <4> QED
        BY <1>0, <2>3, <4>1 DEF TakeRecord, ObserverOK, Loss
    <3>3. ObserverOK'
      BY <1>0, <1>6, <2>1, <2>2, <3>2 DEF Take, ObserverOK
    <3>4. failures' \in 0 .. MaxFailures /\ AdapterOK'
      BY <2>3, FailTyped, Frames DEF TakeRecord
    <3> QED
      BY <1>1, <3>1, <3>3, <3>4, TypeParts
  <2>4. CASE TakeDisconnect
    <3>1. ObserverOK'
      BY <1>0, <1>6, <2>1, <2>2, <2>4 DEF Take, TakeDisconnect, ObserverOK
    <3>2. AdapterOK'
      BY <1>0, <2>4 DEF TakeDisconnect, AdapterOK, Disconnects
    <3>3. failures' \in 0 .. MaxFailures /\ LedgerOK'
      BY <2>4, FailTyped, Frames DEF TakeDisconnect
    <3> QED
      BY <1>1, <3>1, <3>2, <3>3, TypeParts
  <2> QED
    BY <1>6, <2>3, <2>4 DEF Take
<1> QED
  BY <1>3, <1>4, <1>5, <1>6 DEF Drain

\* The ledger calls of the adapter.
LEMMA CallsTyped ==
  ASSUME TypeOK, Flush \/ Attempt
  PROVE  LedgerOK' /\ AdapterOK' /\ failures' \in 0 .. MaxFailures
PROOF
<1>0. LedgerOK /\ AdapterOK
  BY TypeParts
<1>1. CASE Flush
  <2>1. LedgerOK'
    BY <1>1, LedgerTyped DEF Flush, LedgerOK
  <2>2. AdapterOK' /\ failures' \in 0 .. MaxFailures
    BY <1>0, <1>1, FailTyped DEF Flush, AdapterOK
  <2> QED
    BY <2>1, <2>2
<1>2. CASE Attempt
  <2>1. LedgerOK'
    BY <1>2, LedgerTyped DEF Attempt, LedgerOK
  <2>2. AdapterOK' /\ failures' \in 0 .. MaxFailures
    BY <1>0, <1>2, FailTyped DEF Attempt, AdapterOK
  <2> QED
    BY <2>1, <2>2
<1> QED
  BY <1>1, <1>2

LEMMA AdapterTyped ==
  ASSUME TypeOK, AdapterOwes \/ AdapterThread
  PROVE  TypeOK'
PROOF
<1> USE DEF callers, observerVars, hostVars
<1>0. LedgerOK /\ CallersOK /\ ObserverOK /\ AdapterOK /\ HostOK
  BY TypeParts
<1>1. CallersOK' /\ ObserverOK' /\ HostOK'
  BY Frames DEF AdapterOwes, AdapterThread, Flush, Attempt
<1>2. CASE AdapterOwes
  <2>1. AdapterOK' /\ LedgerOK' /\ failures' \in 0 .. MaxFailures
    BY <1>0, <1>2, Frames, FailTyped DEF AdapterOwes, AdapterOK
  <2> QED
    BY <1>1, <2>1, TypeParts
<1>3. CASE AdapterThread
  <2>1. AdapterOK' /\ LedgerOK' /\ failures' \in 0 .. MaxFailures
    BY <1>0, <1>3, CallsTyped, Frames, FailTyped DEF AdapterThread, AdapterOK
  <2> QED
    BY <1>1, <2>1, TypeParts
<1> QED
  BY <1>2, <1>3

LEMMA OpeningTyped ==
  ASSUME TypeOK, Configure \/ OpenPart \/ CallClose
  PROVE  TypeOK'
PROOF
<1> USE DEF callers, observerVars, adapterVars, hostVars
<1>0. /\ LedgerOK /\ CallersOK /\ ObserverOK /\ AdapterOK /\ HostOK
      /\ \A l \in {"service", "done", "observer", "adapter"} : l \in Labels
  BY TypeParts DEF Labels
<1>1. CASE Configure
  <2>1. closer' \in Closers
    BY <1>0, <1>1, GotoFacts DEF Configure, HostOK
  <2>2. CallersOK' /\ HostOK'
    BY <1>0, <1>1, <2>1 DEF Configure, CallersOK, HostOK, AfterPart
  <2> QED
    BY <1>0, <1>1, <2>2, Frames, FailTyped, TypeParts DEF Configure
<1>2. CASE CallClose
  <2>1. CallersOK' /\ HostOK'
    BY <1>0, <1>2, GotoFacts DEF CallClose, CallersOK, HostOK
  <2> QED
    BY <1>0, <1>2, <2>1, Frames, FailTyped, TypeParts DEF CallClose
<1>3. CASE OpenPart
  <2>1. CASE Started(main) /\ main' = AfterPart[main] /\ UNCHANGED <<closer, failures>>
    <3>1. LedgerOK'
      <4>1. Register \/ UNCHANGED ledgerVars
        BY <1>3, <2>1 DEF OpenPart, Started, AfterPart
      <4> QED
        BY <4>1, LedgerTyped DEF LedgerOK
    <3>2. CallersOK'
      BY <1>0, <1>3, <2>1 DEF OpenPart, CallersOK, AfterPart
    <3>3. ObserverOK' /\ AdapterOK' /\ HostOK'
      BY <1>0, <1>3, <2>1, NewDrains
         DEF OpenPart, Started, AfterPart, ObserverOK, AdapterOK, HostOK
    <3> QED
      BY <2>1, <3>1, <3>2, <3>3, FailTyped, TypeParts
  <2>2. CASE /\ Fail /\ main' = "failed"
             /\ closer' = [closer EXCEPT !.at = IF main = "service" THEN "observer"
                                                ELSE "adapter"]
             /\ UNCHANGED <<ledgerVars, drain, adapter, ledger, service>>
    <3>1. closer' \in Closers
      BY <1>0, <2>2 DEF HostOK, Closers
    <3>2. CallersOK' /\ ObserverOK' /\ AdapterOK' /\ HostOK'
      BY <1>0, <1>3, <2>2, <3>1 DEF OpenPart, CallersOK, ObserverOK, AdapterOK, HostOK
    <3> QED
      BY <2>2, <3>2, Frames, FailTyped, TypeParts
  <2> QED
    BY <1>3, <2>1, <2>2 DEF OpenPart
<1> QED
  BY <1>1, <1>2, <1>3

LEMMA CloserTyped ==
  ASSUME TypeOK, Closer
  PROVE  TypeOK'
PROOF
<1> USE DEF callers, observerVars, adapterVars, hostVars
<1>0. /\ LedgerOK /\ CallersOK /\ ObserverOK /\ AdapterOK /\ HostOK /\ closer \in Closers
      /\ queue \in Seq(Records \cup Disconnects)
  BY TypeParts DEF HostOK, ObserverOK
<1>1. \A l \in {"done", "service", "service-join", "observer-join", "adapter-join", "attempt",
                "decide", "shutdown-gap"} : l \in Labels
  BY DEF Labels
<1>2. ASSUME NEW l \in Labels, NEW s \in BOOLEAN, NEW o \in BOOLEAN,
             \/ closer' = [closer EXCEPT !.at = l, !.serviceOk = s]
             \/ closer' = [closer EXCEPT !.at = l, !.ownerOk = o]
      PROVE  closer' \in Closers
  BY <1>0, <1>2 DEF Closers
<1>3. CASE CloseService \/ JoinService
  <2>1. closer' \in Closers
    <3>1. CASE CloseService
      BY <1>1, <1>2, <3>1, GotoFacts DEF CloseService, Labels
    <3>2. CASE JoinService
      <4>1. (service' # "stopping") \in BOOLEAN
        OBVIOUS
      <4>2. (IF main = "failed" THEN "ledger" ELSE "observer") \in Labels
        BY DEF Labels
      <4> QED
        BY <1>0, <3>2, <4>1, <4>2 DEF JoinService, Closers
    <3> QED
      BY <1>3, <3>1, <3>2
  <2>2. HostOK'
    BY <1>0, <1>3, <2>1 DEF CloseService, JoinService, HostOK
  <2> QED
    BY <1>0, <1>3, <2>2, Frames, FailTyped, TypeParts DEF CloseService, JoinService
<1>4. CASE CloseObserver \/ Drained \/ JoinObserver
  <2>1. closer' \in Closers
    <3>1. CASE CloseObserver
      BY <1>1, <3>1, GotoFacts DEF CloseObserver
    <3>2. CASE Drained
      <4>1. (queue = <<>> /\ ~losses) \in BOOLEAN /\ "adapter" \in Labels
        BY DEF Labels
      <4> QED
        BY <1>0, <3>2, <4>1 DEF Drained, Closers
    <3>3. CASE JoinObserver
      <4>1. OwnerClear \in BOOLEAN
        BY DEF OwnerClear
      <4> QED
        BY <1>0, <3>3, <4>1 DEF JoinObserver, Closers, Labels
    <3> QED
      BY <1>4, <3>1, <3>2, <3>3
  <2>2. HostOK'
    BY <1>0, <1>4, <2>1 DEF CloseObserver, Drained, JoinObserver, HostOK
  <2>3. drain' \in Drainings
    BY <1>0, <1>4, NewDrains DEF CloseObserver, Drained, JoinObserver, ObserverOK
  <2>4. ObserverOK'
    BY <1>0, <1>4, <2>3 DEF CloseObserver, Drained, JoinObserver, ObserverOK
  <2>5. UNCHANGED <<ledgerVars, callers, adapterVars, failures>>
    BY <1>4 DEF CloseObserver, Drained, JoinObserver
  <2> QED
    BY <2>2, <2>4, <2>5, Frames, FailTyped, TypeParts
<1>5. CASE CloseAdapter
  <2>1. HostOK'
    BY <1>0, <1>1, <1>5, GotoFacts DEF CloseAdapter, HostOK
  <2>2. AdapterOK'
    BY <1>0, <1>5 DEF CloseAdapter, AdapterOK, Disconnects
  <2> QED
    BY <1>0, <1>5, <2>1, <2>2, Frames, FailTyped, TypeParts DEF CloseAdapter
<1>6. CASE JoinAdapter
  <2>1. HostOK'
    BY <1>0, <1>1, <1>6, GotoFacts DEF JoinAdapter, HostOK, AfterAdapter
  <2>2. AdapterOK'
    BY <1>0, <1>6 DEF JoinAdapter, AdapterOK, Disconnects
  <2>3. LedgerOK'
    BY <1>6, LedgerTyped DEF JoinAdapter, LedgerOK
  <2> QED
    BY <1>0, <1>6, <2>1, <2>2, <2>3, Frames, FailTyped, TypeParts DEF JoinAdapter
<1>7. CASE CloserAttempts
  <2>1. HostOK'
    BY <1>0, <1>1, <1>7, GotoFacts DEF CloserAttempts, HostOK, AfterAdapter
  <2>2. LedgerOK' /\ AdapterOK' /\ failures' \in 0 .. MaxFailures
    BY <1>7, CallsTyped, Frames, FailTyped DEF CloserAttempts
  <2>3. UNCHANGED <<callers, observerVars>>
    BY <1>7 DEF CloserAttempts, Flush, Attempt
  <2> QED
    BY <2>1, <2>2, <2>3, Frames, TypeParts
<1>8. CASE Decide \/ ShutdownGap \/ CleanupLedger
  <2>1. HostOK'
    BY <1>0, <1>1, <1>8, GotoFacts DEF Decide, ShutdownGap, CleanupLedger, HostOK
  <2>2. LedgerOK'
    BY <1>8, LedgerTyped DEF Decide, ShutdownGap, CleanupLedger, LedgerOK
  <2>3. failures' \in 0 .. MaxFailures /\ UNCHANGED <<callers, observerVars, adapterVars>>
    BY <1>8, FailTyped DEF Decide, ShutdownGap, CleanupLedger
  <2> QED
    BY <2>1, <2>2, <2>3, Frames, TypeParts
<1> QED
  BY <1>3, <1>4, <1>5, <1>6, <1>7, <1>8 DEF Closer

LEMMA TypeStep ==
  ASSUME TypeOK, [Next]_vars
  PROVE  TypeOK'
PROOF
<1>1. CASE UNCHANGED vars
  BY <1>1, Frames, FailTyped, TypeParts DEF vars
<1> QED
  BY <1>1, CallersTyped, DrainTyped, AdapterTyped, OpeningTyped, CloserTyped DEF Next

----------------------------------------------------------------------------
(* The observer.                                                             *)

\* What a step that does not drain does to the drain.
DrainStarts ==
  \/ drain' = drain
  \/ drain' \in {Thread} \cup {Drains("closer", FALSE)} /\ drain.who = "none"
  \/ drain' = Thread /\ main = "observer"

LEMMA DrainStep ==
  ASSUME TypeOK, [Next]_vars, ~Drain
  PROVE  DrainStarts
PROOF
<1>1. CASE \/ Configure \/ Hook \/ CallClose \/ ReaderReports \/ ReaderPuts \/ ReaderFault
           \/ AdapterOwes \/ AdapterThread \/ UNCHANGED vars
  BY <1>1
     DEF Configure, Hook, CallClose, ReaderReports, ReaderPuts, ReaderFault, AdapterOwes,
         AdapterThread, Flush, Attempt, vars, observerVars, DrainStarts
<1>2. CASE OpenPart
  BY <1>2 DEF OpenPart, Started, AfterPart, DrainStarts
<1>3. CASE CloseObserver \/ JoinObserver
  BY <1>3 DEF CloseObserver, JoinObserver, DrainStarts
<1>4. CASE Closer /\ ~CloseObserver /\ ~JoinObserver
  BY <1>4
     DEF Closer, CloseService, JoinService, Drained, CloseAdapter, JoinAdapter, CloserAttempts,
         Flush, Attempt, Decide, ShutdownGap, CleanupLedger, observerVars, DrainStarts
<1> QED
  BY <1>1, <1>2, <1>3, <1>4 DEF Next

LEMMA ShapeStep ==
  ASSUME TypeOK, Shape, [Next]_vars
  PROVE  Shape'
PROOF
<1>0. drain \in Drainings /\ drain.held \in BOOLEAN
  BY DrainFields, Types
<1>1. ASSUME drain' \in {NoDrain, Thread, Drains("closer", FALSE)} PROVE Shape'
  BY <1>1, NewDrains DEF Shape
<1>2. CASE Loop
  <2>1. PICK final \in BOOLEAN : drain' = Drains("worker", final)
    BY <1>2 DEF Loop
  <2> QED
    BY <2>1, NewDrains DEF Shape
<1>3. CASE Take
  BY <1>0, <1>3 DEF Take, Shape, Drainings
<1>4. CASE Swap
  <2>1. CASE drain' = [drain EXCEPT !.at = "mark", !.held = TRUE]
    BY <1>0, <1>4, <2>1 DEF Swap, Shape, Drainings
  <2> QED
    BY <1>1, <1>4, <2>1, NewDrains DEF Swap
<1>5. CASE Report
  <2>1. CASE drain' = [drain EXCEPT !.at = "tell"] /\ drain.at = "mark"
    BY <1>0, <2>1 DEF Shape, Drainings
  <2> QED
    BY <1>1, <1>5, <2>1, NewDrains DEF Report
<1>6. CASE ~Drain
  <2>1. drain' = drain => Shape'
    BY DEF Shape
  <2> QED
    BY <1>1, <1>6, <2>1, DrainStep DEF DrainStarts
<1> QED
  BY <1>2, <1>3, <1>4, <1>5, <1>6 DEF Drain

\* What a step does to a claim and to a gap.
LEMMA GapStep ==
  ASSUME TypeOK, [Next]_vars
  PROVE  /\ gap => gap'
         /\ exact' => exact \/ recorded
         /\ gap /\ ~exact => ~exact'
PROOF
<1>0. exact \in BOOLEAN /\ gap \in BOOLEAN /\ recorded \in BOOLEAN
  BY Types
<1>1. ASSUME \/ UNCHANGED ledgerVars \/ HealthGap \/ Incompatible \/ MarkGap \/ Finish
             \/ (Bind /\ recorded) \/ Register
             \/ \E expected \in BOOLEAN : Disconnect(expected)
      PROVE  /\ gap => gap'
             /\ exact' => exact \/ recorded
             /\ gap /\ ~exact => ~exact'
  <2>1. CASE UNCHANGED ledgerVars \/ Register
    BY <1>0, <2>1 DEF ledgerVars, Register
  <2>2. CASE HealthGap \/ Incompatible
    BY <1>0, <2>2 DEF HealthGap, Incompatible
  <2>3. CASE MarkGap \/ Finish
    BY <1>0, <2>3 DEF MarkGap, Finish
  <2>4. CASE Bind /\ recorded
    BY <1>0, <2>4 DEF Bind, Claim
  <2>5. ASSUME NEW expected \in BOOLEAN, Disconnect(expected)
        PROVE  /\ gap => gap'
               /\ exact' => exact \/ recorded
               /\ gap /\ ~exact => ~exact'
    BY <1>0, <2>5 DEF Disconnect, Learn
  <2> QED
    BY <1>1, <2>1, <2>2, <2>3, <2>4, <2>5
<1>2. CASE \/ Configure \/ Hook \/ CallClose \/ ReaderReports \/ ReaderPuts \/ ReaderFault
           \/ AdapterOwes \/ Loop \/ Swap \/ UNCHANGED vars
  BY <1>1, <1>2
     DEF Configure, Hook, CallClose, ReaderReports, ReaderPuts, ReaderFault, AdapterOwes,
         Loop, Swap, vars
<1>3. CASE OpenPart \/ Report
  BY <1>1, <1>3 DEF OpenPart, Started, AfterPart, Report
<1>4. CASE Take
  <2>1. ASSUME NEW record \in Records, Ingested(record)
        PROVE  UNCHANGED ledgerVars \/ (Bind /\ recorded) \/ Finish
    BY <2>1 DEF Ingested, Records
  <2> QED
    BY <1>1, <1>4, <2>1 DEF Take, TakeRecord, TakeDisconnect
<1>5. CASE Flush \/ Attempt
  BY <1>1, <1>5 DEF Flush, Attempt
<1>6. CASE AdapterThread \/ CloserAttempts
  BY <1>1, <1>5, <1>6 DEF AdapterThread, CloserAttempts
<1>7. CASE Closer /\ ~CloserAttempts
  BY <1>1, <1>7
     DEF Closer, CloseService, JoinService, CloseObserver, JoinObserver, Drained, CloseAdapter,
         JoinAdapter, Decide, ShutdownGap, CleanupLedger
<1> QED
  BY <1>2, <1>3, <1>4, <1>6, <1>7 DEF Next, Drain

\* Losses and missed records.
LossKeeps == /\ losses => losses' \/ Swap
             /\ missed' => missed \/ losses'
             /\ missed => missed'

LEMMA LossStep ==
  ASSUME TypeOK, [Next]_vars
  PROVE  LossKeeps
PROOF
<1>0. losses \in BOOLEAN /\ missed \in BOOLEAN
  BY Types
<1>1. CASE \/ Configure \/ OpenPart \/ CallClose \/ AdapterOwes \/ AdapterThread
           \/ Closer \/ UNCHANGED vars
  <2>1. UNCHANGED <<losses, missed>>
    <3>1. CASE Configure \/ OpenPart \/ CallClose \/ UNCHANGED vars
      BY <3>1 DEF Configure, OpenPart, CallClose, vars, observerVars
    <3>2. CASE AdapterOwes \/ AdapterThread
      BY <3>2 DEF AdapterOwes, AdapterThread, Flush, Attempt, observerVars
    <3>3. CASE Closer
      BY <3>3
         DEF Closer, CloseService, JoinService, CloseObserver, JoinObserver, Drained,
             CloseAdapter, JoinAdapter, CloserAttempts, Flush, Attempt, Decide, ShutdownGap,
             CleanupLedger, observerVars
    <3> QED
      BY <1>1, <3>1, <3>2, <3>3
  <2> QED
    BY <1>0, <2>1 DEF LossKeeps
<1>2. CASE Hook
  BY <1>0, <1>2 DEF Hook, Put, Loss, LossKeeps
<1>3. CASE ReaderReports \/ ReaderPuts \/ ReaderFault
  BY <1>0, <1>3 DEF ReaderReports, ReaderPuts, ReaderFault, Loss, LossKeeps
<1>4. CASE Loop \/ Report \/ Swap
  BY <1>0, <1>4 DEF Loop, Report, Swap, PutBack, LossKeeps
<1>5. CASE Take
  BY <1>0, <1>5 DEF Take, TakeRecord, TakeDisconnect, Loss, LossKeeps
<1> QED
  BY <1>1, <1>2, <1>3, <1>4, <1>5 DEF Next, Drain

\* The queue, the dispatch and its record in the ledger change in few steps.
LEMMA Quietly ==
  ASSUME TypeOK, [Next]_vars
  PROVE  /\ ~Hook /\ ~ReaderPuts /\ ~Take => queue' = queue
         /\ ~Hook => dispatch' = dispatch
         /\ ~Take => recorded' = recorded /\ terminal' = terminal
PROOF
<1> USE DEF callers, observerVars, ledgerVars
<1>1. CASE Configure \/ CallClose \/ ReaderReports \/ ReaderFault \/ AdapterOwes \/ UNCHANGED vars
  BY <1>1 DEF Configure, CallClose, ReaderReports, ReaderFault, AdapterOwes, vars
<1>2. CASE Hook \/ ReaderPuts
  BY <1>2 DEF Hook, ReaderPuts
<1>3. CASE OpenPart
  BY <1>3 DEF OpenPart, Started, AfterPart, Register
<1>4. CASE Loop \/ Swap \/ Report
  BY <1>4 DEF Loop, Swap, Report, MarkGap
<1>5. CASE Take
  BY <1>5 DEF Take
<1>6. CASE Flush \/ Attempt
  BY <1>6 DEF Flush, Attempt, HealthGap, Incompatible, Disconnect
<1>7. CASE AdapterThread
  BY <1>6, <1>7 DEF AdapterThread
<1>8. CASE Closer
  <2>1. CASE CloseService \/ JoinService \/ CloseObserver \/ JoinObserver \/ Drained
    BY <2>1 DEF CloseService, JoinService, CloseObserver, JoinObserver, Drained
  <2>2. CASE CloseAdapter \/ JoinAdapter \/ Decide \/ ShutdownGap \/ CleanupLedger
    BY <2>2 DEF CloseAdapter, JoinAdapter, Decide, ShutdownGap, CleanupLedger, HealthGap, MarkGap
  <2>3. CASE CloserAttempts
    BY <1>6, <2>3 DEF CloserAttempts
  <2> QED
    BY <1>8, <2>1, <2>2, <2>3 DEF Closer
<1> QED
  BY <1>1, <1>2, <1>3, <1>4, <1>5, <1>7, <1>8 DEF Next, Drain

\* What is queued after a record was put or taken.
LEMMA QueuedMore ==
  ASSUME TypeOK, NEW m \in Records \cup Disconnects, queue' = Append(queue, m), NEW r
  PROVE  Queued(r)' <=> Queued(r) \/ r = m
PROOF
<1>1. /\ Len(queue') = Len(queue) + 1 /\ Len(queue) \in Nat /\ queue'[Len(queue) + 1] = m
      /\ \A i \in 1 .. Len(queue) : queue'[i] = queue[i]
  BY QueueMore, QueueFacts
<1>2. ASSUME Queued(r)' PROVE Queued(r) \/ r = m
  <2> PICK i \in 1 .. Len(queue') : queue'[i] = r
    BY <1>2 DEF Queued
  <2>1. i \in 1 .. Len(queue) \/ i = Len(queue) + 1
    BY <1>1
  <2> QED
    BY <1>1, <2>1 DEF Queued
<1>3. ASSUME Queued(r) PROVE Queued(r)'
  <2> PICK i \in 1 .. Len(queue) : queue[i] = r
    BY <1>3 DEF Queued
  <2>1. i \in 1 .. Len(queue') /\ queue'[i] = r
    BY <1>1
  <2> QED
    BY <2>1 DEF Queued
<1>4. ASSUME r = m PROVE Queued(r)'
  <2>1. Len(queue) + 1 \in 1 .. Len(queue')
    BY <1>1
  <2> QED
    BY <1>1, <1>4, <2>1 DEF Queued
<1> QED
  BY <1>2, <1>3, <1>4

LEMMA QueuedLess ==
  ASSUME TypeOK, queue # <<>>, queue' = Tail(queue), NEW r
  PROVE  /\ Queued(r)' => \E i \in 2 .. Len(queue) : queue[i] = r
         /\ Queued(r) => Queued(r)' \/ Head(queue) = r
         /\ Queued(Head(queue))
PROOF
<1>1. /\ Len(queue') = Len(queue) - 1 /\ Len(queue) \in Nat
      /\ Head(queue) = queue[1] /\ 1 \in 1 .. Len(queue)
      /\ \A i \in 1 .. Len(queue') : i + 1 \in 1 .. Len(queue) /\ queue'[i] = queue[i + 1]
  BY QueueFacts
<1>2. ASSUME Queued(r)' PROVE \E i \in 2 .. Len(queue) : queue[i] = r
  <2> PICK i \in 1 .. Len(queue') : queue'[i] = r
    BY <1>2 DEF Queued
  <2>1. i + 1 \in 2 .. Len(queue) /\ queue[i + 1] = r
    BY <1>1
  <2> QED
    BY <2>1
<1>3. ASSUME Queued(r) PROVE Queued(r)' \/ Head(queue) = r
  <2> PICK i \in 1 .. Len(queue) : queue[i] = r
    BY <1>3 DEF Queued
  <2>1. CASE i = 1
    BY <1>1, <2>1
  <2>2. CASE i # 1
    <3>1. i - 1 \in 1 .. Len(queue')
      BY <1>1, <2>2
    <3>2. queue'[i - 1] = queue[(i - 1) + 1]
      BY <1>1, <3>1
    <3>3. queue'[i - 1] = r
      <4>1. (i - 1) + 1 = i
        BY <1>1
      <4> QED
        BY <3>2, <4>1
    <3> QED
      BY <3>1, <3>3 DEF Queued
  <2> QED
    BY <2>1, <2>2
<1>4. Queued(Head(queue))
  BY <1>1 DEF Queued
<1> QED
  BY <1>2, <1>3, <1>4

\* A hook puts one record into the queue, or reports a loss.
LEMMA HookStep ==
  ASSUME TypeOK, Hook
  PROVE  /\ dispatch' # "prepared" /\ dispatch # "terminal"
         /\ \/ losses' /\ queue' = queue
            \/ \E m \in Records :
                 /\ queue' = Append(queue, m)
                 /\ dispatch = "prepared" <=> m = "submission"
                 /\ dispatch' = "terminal" => m = "terminal"
         /\ ~stop \/ queue' = queue
PROOF
<1>1. dispatch \in {"prepared", "submission", "binding", "acknowledged", "running"}
  BY DEF Hook, TypeOK, NextHook
<1>2. /\ dispatch' \in {"submission", "binding", "acknowledged", "running", "terminal"}
      /\ dispatch' = "submission" => dispatch = "prepared"
      /\ dispatch = "prepared" => dispatch' \in {"submission", "terminal"}
  BY <1>1 DEF Hook, NextHook
<1>3. CASE dispatch = "prepared" /\ dispatch' = "terminal"
  BY <1>2, <1>3 DEF Hook, Loss
<1>4. CASE ~(dispatch = "prepared" /\ dispatch' = "terminal")
  <2> DEFINE m == IF dispatch' \in Records THEN dispatch' ELSE "receipt"
  <2>1. /\ m \in Records
        /\ dispatch = "prepared" <=> m = "submission"
        /\ dispatch' = "terminal" => m = "terminal"
    BY <1>1, <1>2, <1>4 DEF Records
  <2>2. Put(m)
    BY <1>4 DEF Hook
  <2>3. \/ losses' /\ queue' = queue
        \/ queue' = Append(queue, m) /\ ~stop
    BY <2>2 DEF Put, Loss
  <2> HIDE DEF m
  <2> QED
    BY <1>1, <1>2, <2>1, <2>3
<1> QED
  BY <1>3, <1>4

LEMMA SubmittedStep ==
  ASSUME TypeOK, Submitted, [Next]_vars
  PROVE  Submitted'
PROOF
<1>1. exact' => exact \/ recorded
  BY GapStep
<1>2. CASE queue' = queue /\ recorded' = recorded
  <2>1. dispatch # "prepared" => dispatch' # "prepared"
    BY HookStep, Quietly
  <2> QED
    BY <1>1, <1>2, <2>1 DEF Submitted, Queued
<1>3. ASSUME NEW m \in Records \cup Disconnects, queue' = Append(queue, m),
             recorded' = recorded, m # "submission",
             dispatch # "prepared" => dispatch' # "prepared"
      PROVE  Submitted'
  <2>1. Queued("submission")' <=> Queued("submission")
    BY <1>3, QueuedMore
  <2>2. /\ Len(queue') = Len(queue) + 1 /\ Len(queue) \in Nat /\ queue'[Len(queue) + 1] = m
        /\ \A i \in 1 .. Len(queue) : queue'[i] = queue[i]
    BY <1>3, QueueMore, QueueFacts
  <2>3. ASSUME NEW i \in 1 .. Len(queue'), queue'[i] = "submission"
        PROVE  i \in 1 .. Len(queue) /\ queue[i] = "submission"
    <3>1. i # Len(queue) + 1
      BY <1>3, <2>2, <2>3
    <3> QED
      BY <2>2, <2>3, <3>1
  <2> QED
    BY <1>1, <1>3, <2>1, <2>3 DEF Submitted
<1>4. CASE Hook
  <2>1. CASE queue' = queue
    BY <1>2, <1>4, <2>1 DEF Hook
  <2>2. ASSUME NEW m \in Records, queue' = Append(queue, m),
               dispatch = "prepared" <=> m = "submission"
        PROVE  Submitted'
    <3>1. dispatch' # "prepared" /\ recorded' = recorded
      BY <1>4, HookStep DEF Hook
    <3>2. CASE dispatch # "prepared"
      BY <1>3, <2>2, <3>1, <3>2
    <3>3. CASE dispatch = "prepared"
      <4>1. ~exact /\ ~Queued("submission") /\ ~recorded
        BY <3>3 DEF Submitted
      <4>2. /\ Len(queue') = Len(queue) + 1 /\ Len(queue) \in Nat
            /\ \A i \in 1 .. Len(queue) : queue'[i] = queue[i]
        BY <2>2, QueueMore, QueueFacts
      <4>3. ASSUME NEW i \in 1 .. Len(queue'), queue'[i] = "submission"
            PROVE  i = Len(queue) + 1
        <5>1. i \notin 1 .. Len(queue)
          BY <4>1, <4>2, <4>3 DEF Queued
        <5> QED
          BY <4>2, <5>1
      <4> QED
        BY <1>1, <3>1, <4>1, <4>3 DEF Submitted
    <3> QED
      BY <3>2, <3>3
  <2> QED
    BY <1>4, <2>1, <2>2, HookStep
<1>5. CASE ReaderPuts
  <2>1. recorded' = recorded /\ dispatch' = dispatch
    BY <1>5 DEF ReaderPuts
  <2>2. CASE queue' = Append(queue, reader)
    <3>1. reader \in Disconnects /\ reader # "submission"
      BY <1>5 DEF ReaderPuts, Disconnects
    <3> QED
      BY <1>3, <2>1, <2>2, <3>1
  <2> QED
    BY <1>2, <1>5, <2>1, <2>2 DEF ReaderPuts
<1>6. CASE Take
  <2>1. queue # <<>> /\ queue' = Tail(queue) /\ dispatch' = dispatch
    BY <1>6 DEF Take, callers
  <2>2. /\ Len(queue') = Len(queue) - 1 /\ Len(queue) \in Nat /\ 1 \in 1 .. Len(queue)
        /\ Head(queue) = queue[1]
        /\ \A i \in 1 .. Len(queue') : i + 1 \in 1 .. Len(queue) /\ queue'[i] = queue[i + 1]
    BY <2>1, QueueFacts
  <2>3. Queued("submission")' => Queued("submission") /\ Head(queue) # "submission"
    <3> SUFFICES ASSUME Queued("submission")'
                 PROVE  Queued("submission") /\ Head(queue) # "submission"
      OBVIOUS
    <3> PICK i \in 2 .. Len(queue) : queue[i] = "submission"
      BY <2>1, QueuedLess
    <3>1. i \in 1 .. Len(queue) /\ i # 1
      BY <2>2
    <3> QED
      BY <2>2, <3>1 DEF Submitted, Queued
  <2>4. recorded' => recorded \/ Head(queue) = "submission"
    BY <1>6 DEF Take, TakeRecord, TakeDisconnect, Ingested, Records
  <2>5. recorded /\ Head(queue) # "submission" => recorded'
    BY <1>6 DEF Take, TakeRecord, TakeDisconnect, Ingested, Records
  <2>6. Head(queue) = "submission" => Queued("submission") /\ ~recorded /\ ~exact
    BY <2>1, QueuedLess DEF Submitted
  <2>7. \A i, j \in 1 .. Len(queue') :
          queue'[i] = "submission" /\ queue'[j] = "submission" => i = j
    <3> SUFFICES ASSUME NEW i \in 1 .. Len(queue'), NEW j \in 1 .. Len(queue'),
                        queue'[i] = "submission", queue'[j] = "submission"
                 PROVE  i = j
      OBVIOUS
    <3>1. i + 1 \in 1 .. Len(queue) /\ queue[i + 1] = "submission"
      BY <2>2
    <3>2. j + 1 \in 1 .. Len(queue) /\ queue[j + 1] = "submission"
      BY <2>2
    <3>3. i + 1 = j + 1
      BY <3>1, <3>2 DEF Submitted
    <3> QED
      BY <2>2, <3>3
  <2>8. recorded' \in BOOLEAN /\ recorded \in BOOLEAN
    BY TypeStep, Types, TypeParts DEF ObserverOK
  <2> QED
    BY <1>1, <2>1, <2>3, <2>4, <2>5, <2>6, <2>7, <2>8 DEF Submitted
<1> QED
  BY <1>2, <1>4, <1>5, <1>6, Quietly

\* A loss that shows goes on showing until the ledger has its gap.
LEMMA ShownStep ==
  ASSUME TypeOK, Shape, Shows, Opening, [Next]_vars, Shown
  PROVE  Shown'
PROOF
<1>1. gap => gap'
  BY GapStep
<1>2. losses => losses' \/ Swap
  BY LossStep DEF LossKeeps
<1>3. CASE Swap
  <2>1. drain \in Drainings
    BY Types
  <2>2. losses => drain'.held
    BY <1>3, <2>1 DEF Swap, Drainings
  <2>3. ~drain.held
    BY <1>3 DEF Swap, Shape
  <2> QED
    BY <1>1, <2>2, <2>3 DEF Shown
<1>4. ASSUME drain.held, ~Swap PROVE Shown'
  <2>1. drain.at \in {"mark", "tell"}
    BY <1>4 DEF Shape
  <2>2. drain.who # "none" /\ main # "observer"
    BY <2>1 DEF Shape, Opening
  <2>3. CASE Report
    BY <1>1, <2>1, <2>3 DEF Report, MarkGap, PutBack, Shows, Shown
  <2>4. ~Loop /\ ~Take
    BY <2>1 DEF Loop, Take
  <2>5. CASE ~Drain
    BY <1>4, <2>2, <2>5, DrainStep DEF DrainStarts, Shown
  <2> QED
    BY <1>4, <2>3, <2>4, <2>5 DEF Drain
<1> QED
  BY <1>1, <1>2, <1>3, <1>4 DEF Shown

LEMMA ShowsStep ==
  ASSUME TypeOK, Shape, Shows, Submitted, Opening, [Next]_vars
  PROVE  Shows'
PROOF
<1>0. /\ exact \in BOOLEAN /\ recorded \in BOOLEAN /\ losses \in BOOLEAN /\ gap \in BOOLEAN
      /\ drain \in Drainings
  BY Types
<1>1. missed' => Shown'
  BY ShownStep, LossStep DEF Shows, Shown, LossKeeps
<1>2. drain'.at \in {"mark", "tell"} /\ ~Swap => drain.at \in {"mark", "tell"} /\ (drain' = drain \/ Report)
  <2>1. CASE Loop
    <3>1. PICK final \in BOOLEAN : drain' = Drains("worker", final)
      BY <2>1 DEF Loop
    <3> QED
      BY <3>1, NewDrains
  <2>2. CASE Take
    BY <1>0, <2>2 DEF Take, Drainings
  <2>3. CASE Report
    BY <2>3 DEF Report
  <2>4. CASE ~Drain
    BY <2>4, DrainStep, NewDrains DEF DrainStarts
  <2> QED
    BY <2>1, <2>2, <2>3, <2>4 DEF Drain
<1>3. Swap => drain'.at \in {"mark", "loop"} /\ (losses => drain'.at = "mark")
  BY <1>0, NewDrains DEF Swap, Drainings
<1>4. ASSUME Report
      PROVE  \/ losses'
             \/ drain.at = "mark" /\ MarkGap /\ drain'.at = "tell"
             \/ drain.at = "tell" /\ drain'.at = "loop"
  BY <1>0, <1>4, NewDrains DEF Report, PutBack, Drainings
<1>5. drain'.at = "tell" => gap'
  <2> SUFFICES ASSUME drain'.at = "tell" PROVE gap'
    OBVIOUS
  <2>1. drain.at = "tell" => gap'
    BY GapStep DEF Shows
  <2>2. CASE Report
    <3>1. AfterDrain.at = "loop"
      BY NewDrains
    <3> QED
      BY <2>1, <2>2, <3>1 DEF Report, MarkGap
  <2> QED
    BY <1>2, <1>3, <2>1, <2>2
<1>6. ASSUME missed', ~losses', drain'.at # "mark" PROVE gap' /\ ~exact'
  <2>1. missed /\ ~losses
    BY <1>3, <1>6, LossStep DEF LossKeeps
  <2>2. CASE drain.at # "mark"
    BY <2>1, <2>2, GapStep DEF Shows
  <2>3. CASE drain.at = "mark"
    <3>1. Report
      <4>1. ~Loop /\ ~Take /\ ~Swap
        BY <2>3 DEF Loop, Take, Swap
      <4>2. ~Drain => drain' = drain
        BY <2>3, DrainStep DEF DrainStarts, Shape, Opening
      <4> QED
        BY <1>6, <2>3, <4>1, <4>2 DEF Drain
    <3>2. MarkGap
      BY <1>4, <1>6, <2>3, <3>1
    <3> QED
      BY <1>0, <3>2 DEF MarkGap, Submitted
  <2> QED
    BY <2>2, <2>3
<1> QED
  BY <1>1, <1>5, <1>6 DEF Shows

\* What the controller told is taken from the queue into the ledger, or is a loss.
LEMMA KeptStep ==
  ASSUME TypeOK, Shape, Shows, Opening, Submitted, Kept, [Next]_vars
  PROVE  Kept'
PROOF
<1>1. CASE Shown \/ losses'
  BY <1>1, ShownStep DEF Kept, Shown
<1>2. CASE ~Shown /\ ~losses'
  <2>0. /\ dispatch # "prepared" => recorded \/ Queued("submission")
        /\ dispatch = "terminal" => terminal \/ Queued("terminal")
    BY <1>2 DEF Kept
  <2>1. CASE Hook
    <3>1. /\ dispatch' # "prepared" /\ dispatch # "terminal"
          /\ recorded' = recorded /\ terminal' = terminal
      BY <2>1, HookStep DEF Hook, ledgerVars
    <3> PICK m \in Records : /\ queue' = Append(queue, m)
                             /\ dispatch = "prepared" <=> m = "submission"
                             /\ dispatch' = "terminal" => m = "terminal"
      BY <1>2, <2>1, HookStep
    <3>2. \A r : Queued(r)' <=> Queued(r) \/ r = m
      BY QueuedMore
    <3> QED
      BY <2>0, <3>1, <3>2 DEF Kept
  <2>2. CASE ReaderPuts
    <3>1. UNCHANGED <<dispatch, recorded, terminal>>
      BY <2>2 DEF ReaderPuts, ledgerVars
    <3>2. reader \in Records \cup Disconnects /\ queue' = Append(queue, reader)
      BY <1>2, <2>2 DEF ReaderPuts, Loss
    <3>3. \A r : Queued(r)' <=> Queued(r) \/ r = reader
      BY <3>2, QueuedMore
    <3> QED
      BY <2>0, <3>1, <3>3 DEF Kept
  <2>3. CASE Take
    <3>1. queue # <<>> /\ queue' = Tail(queue) /\ dispatch' = dispatch
      BY <2>3 DEF Take, callers
    <3>2. \A r : Queued(r) => Queued(r)' \/ Head(queue) = r
      BY <3>1, QueuedLess
    <3>3. Head(queue) = "submission" => recorded'
      BY <1>2, <2>3 DEF Take, TakeRecord, TakeDisconnect, Ingested, Loss, Records, Disconnects
    <3>4. Head(queue) = "terminal" => terminal'
      BY <1>2, <2>3
         DEF Take, TakeRecord, TakeDisconnect, Ingested, Finish, Loss, Records, Disconnects
    <3>5. recorded => recorded'
      <4>1. Head(queue) = "submission" => ~recorded
        BY <3>1, QueuedLess DEF Submitted
      <4> QED
        BY <2>3, <4>1 DEF Take, TakeRecord, TakeDisconnect, Ingested, Records
    <3>6. terminal => terminal'
      BY <2>3
         DEF Take, TakeRecord, TakeDisconnect, Ingested, Finish, Bind, ledgerVars, Records
    <3> QED
      BY <2>0, <3>1, <3>2, <3>3, <3>4, <3>5, <3>6 DEF Kept
  <2>4. CASE ~Hook /\ ~ReaderPuts /\ ~Take
    BY <2>0, <2>4, Quietly DEF Kept, Queued
  <2> QED
    BY <2>1, <2>2, <2>3, <2>4
<1> QED
  BY <1>1, <1>2

----------------------------------------------------------------------------
(* Opening and closing.                                                      *)

\* Steps of the controller, the reader, the observer and the adapter.
Running ==
  Hook \/ ReaderReports \/ ReaderPuts \/ ReaderFault \/ Drain \/ AdapterOwes \/ AdapterThread
  \/ UNCHANGED vars

\* They leave the host alone.
LEMMA RunningStep ==
  ASSUME TypeOK, Running
  PROVE  /\ UNCHANGED <<main, service, ledger, closer, served, gapTold, closed, stop, sealed>>
         /\ adapter' = adapter \/ (adapter = "running" /\ adapter' = "dead" /\ sealed)
         /\ dispatch' = dispatch \/ main = "open"
         /\ drain' = drain \/ drain.who # "none" \/ drain.at # "loop"
         /\ link' = link \/ link' = "disconnected"
         /\ wish' = "none" => wish = "none" \/ link' # "connected"
         /\ drain' = drain => debts' = debts \/ adapter = "running"
         /\ drain' = drain => wish' = wish \/ adapter = "running"
PROOF
<1> USE DEF callers, observerVars, adapterVars, hostVars, ledgerVars
<1>1. CASE Hook \/ ReaderReports \/ ReaderPuts \/ ReaderFault \/ UNCHANGED vars
  BY <1>1 DEF Hook, ReaderReports, ReaderPuts, ReaderFault, vars
<1>2. CASE Loop \/ Swap \/ Report
  BY <1>2 DEF Loop, Swap, Report, MarkGap
<1>3. CASE Take
  <2>1. drain.at # "loop"
    BY <1>3 DEF Take
  <2>2. /\ UNCHANGED <<main, dispatch, stop, service, ledger, closer, served, gapTold, closed>>
        /\ UNCHANGED <<adapter, sealed>>
    BY <1>3 DEF Take, TakeRecord, TakeDisconnect
  <2>3. link' = link
    BY <1>3
       DEF Take, TakeRecord, TakeDisconnect, Ingested, Bind, Finish, Records
  <2>4. wish' = "none" => wish = "none"
    BY <1>3 DEF Take, TakeRecord, TakeDisconnect, Disconnects
  <2>5. drain' # drain
    <3>1. drain'.count = drain.count + 1 /\ drain.count \in Nat
      BY <1>3, Types DEF Take, Drainings
    <3> QED
      BY <3>1
  <2> QED
    BY <2>1, <2>2, <2>3, <2>4, <2>5
<1>4. CASE AdapterOwes
  BY <1>4 DEF AdapterOwes
<1>5. CASE AdapterThread
  <2>1. CASE Flush
    BY <1>5, <2>1 DEF AdapterThread, Flush, HealthGap, Incompatible
  <2>2. CASE Attempt
    BY <1>5, <2>2 DEF AdapterThread, Attempt, Disconnect
  <2>3. CASE sealed /\ adapter' = "dead"
             /\ UNCHANGED <<ledgerVars, callers, observerVars, sealed, wish, debts, failures>>
    BY <1>5, <2>3 DEF AdapterThread
  <2> QED
    BY <1>5, <2>1, <2>2, <2>3 DEF AdapterThread
<1> QED
  BY <1>1, <1>2, <1>3, <1>4, <1>5 DEF Running, Drain

LEMMA NextParts ==
  ASSUME [Next]_vars
  PROVE  Running \/ Configure \/ OpenPart \/ CallClose \/ Closer
PROOF BY DEF Next, Running

Flags == <<closer.serviceOk, closer.ownerOk>>

\* Where the closing thread goes, and what it knows.
LEMMA CloserMoves ==
  ASSUME TypeOK
  PROVE  /\ CloseService =>
              /\ closer.at = "service"
              /\ \/ closer'.at = "service-join" /\ UNCHANGED Flags
                 \/ closer'.at = "done" /\ main = "failed"
                 \/ closer'.at = "observer" /\ main # "failed" /\ ~closer'.serviceOk
         /\ JoinService =>
              /\ closer.at = "service-join"
              /\ closer'.at = IF main = "failed" THEN "ledger" ELSE "observer"
              /\ closer'.serviceOk <=> service' # "stopping"
         /\ CloseObserver =>
              closer.at = "observer" /\ closer'.at = "observer-join" /\ UNCHANGED Flags
         /\ JoinObserver =>
              /\ closer.at = "observer-join" /\ closer'.at \in {"observer-drain", "adapter"}
              /\ closer'.serviceOk = closer.serviceOk /\ (closer'.ownerOk <=> OwnerClear)
         /\ Drained =>
              /\ closer.at = "observer-drain" /\ closer'.at = "adapter"
              /\ closer'.serviceOk = closer.serviceOk
              /\ closer'.ownerOk <=> queue = <<>> /\ ~losses
         /\ CloseAdapter =>
              /\ closer.at = "adapter" /\ UNCHANGED Flags
              /\ closer'.at = IF adapter = "absent" THEN "service" ELSE "adapter-join"
         /\ JoinAdapter =>
              /\ closer.at = "adapter-join" /\ UNCHANGED Flags
              /\ closer'.at \in {"attempt", AfterAdapter}
         /\ CloserAttempts =>
              /\ closer.at = "attempt" /\ UNCHANGED Flags
              /\ closer'.at \in {"attempt", AfterAdapter}
         /\ Decide =>
              /\ closer.at = "decide"
              /\ closer'.at = "done" \/ (closer'.at = "shutdown-gap" /\ UNCHANGED Flags)
         /\ ShutdownGap => closer.at = "shutdown-gap" /\ closer'.at = "done"
         /\ CleanupLedger => closer.at = "ledger" /\ closer'.at = "done"
PROOF
<1>0. closer \in Closers /\ losses \in BOOLEAN
  BY Types
<1>1. \A l \in {"done", "service", "service-join", "observer-join", "adapter-join", "attempt",
                "decide", "shutdown-gap"} : l \in Labels
  BY DEF Labels
<1>2. ASSUME CloseService
      PROVE  /\ closer.at = "service"
             /\ \/ closer'.at = "service-join" /\ UNCHANGED Flags
                \/ closer'.at = "done" /\ main = "failed"
                \/ closer'.at = "observer" /\ main # "failed" /\ ~closer'.serviceOk
  BY <1>0, <1>1, <1>2, GotoFacts DEF CloseService, CloserAt, Closers, Flags
<1>3. ASSUME JoinService
      PROVE  /\ closer.at = "service-join"
             /\ closer'.at = IF main = "failed" THEN "ledger" ELSE "observer"
             /\ closer'.serviceOk <=> service' # "stopping"
  BY <1>0, <1>3 DEF JoinService, CloserAt, Closers
<1>4. ASSUME JoinObserver
      PROVE  /\ closer.at = "observer-join" /\ closer'.at \in {"observer-drain", "adapter"}
             /\ closer'.serviceOk = closer.serviceOk /\ (closer'.ownerOk <=> OwnerClear)
  BY <1>0, <1>4 DEF JoinObserver, CloserAt, Closers
<1>5. ASSUME Drained
      PROVE  /\ closer.at = "observer-drain" /\ closer'.at = "adapter"
             /\ closer'.serviceOk = closer.serviceOk
             /\ closer'.ownerOk <=> queue = <<>> /\ ~losses
  BY <1>0, <1>5 DEF Drained, CloserAt, Closers
<1>6. ASSUME CloseObserver \/ CloseAdapter
      PROVE  /\ UNCHANGED Flags
             /\ CloseObserver => closer.at = "observer" /\ closer'.at = "observer-join"
             /\ CloseAdapter =>
                  /\ closer.at = "adapter"
                  /\ closer'.at = IF adapter = "absent" THEN "service" ELSE "adapter-join"
  BY <1>0, <1>1, <1>6, GotoFacts DEF CloseObserver, CloseAdapter, CloserAt, Flags
<1>7. ASSUME JoinAdapter \/ CloserAttempts
      PROVE  /\ UNCHANGED Flags /\ closer'.at \in {"attempt", AfterAdapter}
             /\ JoinAdapter => closer.at = "adapter-join"
             /\ CloserAttempts => closer.at = "attempt"
  <2>1. AfterAdapter \in Labels /\ AfterAdapter # "done"
    BY <1>1 DEF AfterAdapter
  <2>2. ASSUME NEW l \in {"attempt", AfterAdapter}, Goto(l)
        PROVE  UNCHANGED Flags /\ closer'.at \in {"attempt", AfterAdapter}
    BY <1>1, <2>1, <2>2, GotoFacts DEF Flags
  <2>3. (closer' = closer /\ closer.at = "attempt")
        \/ Goto("attempt") \/ Goto(AfterAdapter)
    BY <1>7 DEF JoinAdapter, CloserAttempts, CloserAt
  <2>4. /\ JoinAdapter => closer.at = "adapter-join"
        /\ CloserAttempts => closer.at = "attempt"
    BY DEF JoinAdapter, CloserAttempts, CloserAt
  <2> QED
    BY <2>2, <2>3, <2>4 DEF Flags
<1>8. ASSUME Decide
      PROVE  /\ closer.at = "decide"
             /\ closer'.at = "done" \/ (closer'.at = "shutdown-gap" /\ UNCHANGED Flags)
  <2>1. closer.at = "decide" /\ (Goto("done") \/ Goto("shutdown-gap"))
    BY <1>8 DEF Decide, CloserAt
  <2> QED
    BY <1>1, <2>1, GotoFacts DEF Flags
<1>9. ASSUME ShutdownGap \/ CleanupLedger
      PROVE  /\ closer'.at = "done"
             /\ ShutdownGap => closer.at = "shutdown-gap"
             /\ CleanupLedger => closer.at = "ledger"
  BY <1>0, <1>1, <1>9, GotoFacts DEF ShutdownGap, CleanupLedger, CloserAt
<1> QED
  BY <1>2, <1>3, <1>4, <1>5, <1>6, <1>7, <1>8, <1>9

\* What it leaves alone.
LEMMA CloserFrame ==
  ASSUME TypeOK, Closer
  PROVE  /\ UNCHANGED <<main, dispatch, queue, recorded, terminal, adapter, losses, missed>>
         /\ stop' = stop \/ stop' = TRUE
         /\ service' = service \/ CloseService \/ JoinService
         /\ served' = served \/ JoinService
         /\ ledger' = ledger \/ Decide \/ CleanupLedger
         /\ closed' = closed \/ Decide
         /\ sealed' = sealed \/ CloseAdapter
         /\ link' = link \/ link' = "disconnected"
         /\ wish' = "none" => wish = "none" \/ link' # "connected"
PROOF
<1> USE DEF callers, observerVars, adapterVars, hostVars, ledgerVars
<1>1. CASE CloseService \/ JoinService
  BY <1>1 DEF CloseService, JoinService
<1>2. CASE CloseObserver \/ JoinObserver \/ Drained
  BY <1>2 DEF CloseObserver, JoinObserver, Drained
<1>3. CASE CloseAdapter
  BY <1>3 DEF CloseAdapter
<1>4. CASE JoinAdapter
  BY <1>4 DEF JoinAdapter, HealthGap
<1>5. CASE CloserAttempts
  <2>1. CASE Flush
    BY <1>5, <2>1 DEF CloserAttempts, Flush, HealthGap, Incompatible
  <2>2. CASE Attempt
    BY <1>5, <2>2 DEF CloserAttempts, Attempt, Disconnect
  <2> QED
    BY <1>5, <2>1, <2>2 DEF CloserAttempts
<1>6. CASE Decide \/ CleanupLedger
  BY <1>6 DEF Decide, CleanupLedger
<1>7. CASE ShutdownGap
  BY <1>7 DEF ShutdownGap, MarkGap
<1> QED
  BY <1>1, <1>2, <1>3, <1>4, <1>5, <1>6, <1>7 DEF Closer

\* The parts that are opened one after the other.
LEMMA OpenStep ==
  ASSUME TypeOK, OpenPart
  PROVE  /\ main \in DOMAIN AfterPart
         /\ UNCHANGED <<dispatch, queue, recorded, stop, sealed, wish, debts, served, closed,
                        closer.ownerOk, closer.serviceOk, terminal, gap>>
         /\ \/ /\ main' = AfterPart[main] /\ closer' = closer
               /\ main # "ledger" => ledger' = ledger
               /\ main # "service" => service' = service
               /\ \/ main # "adapter" /\ adapter' = adapter /\ link' = link
                  \/ main = "adapter" /\ adapter' = "running" /\ link' = "connected"
               /\ drain' = drain \/ main = "observer"
            \/ /\ main' = "failed"
               /\ UNCHANGED <<drain, adapter, ledger, service, link>>
               /\ closer'.at = "adapter" \/ (main = "service" /\ closer'.at = "observer")
PROOF
<1>0. closer \in Closers
  BY Types
<1>1. CASE Started(main) /\ main' = AfterPart[main] /\ UNCHANGED <<closer, failures>>
  BY <1>1 DEF OpenPart, Started, AfterPart, Register, ledgerVars
<1>2. CASE /\ Fail /\ main' = "failed"
           /\ closer' = [closer EXCEPT !.at = IF main = "service" THEN "observer" ELSE "adapter"]
           /\ UNCHANGED <<ledgerVars, drain, adapter, ledger, service>>
  BY <1>0, <1>2 DEF OpenPart, Closers, ledgerVars
<1> QED
  BY <1>1, <1>2 DEF OpenPart

LEMMA OpeningStep ==
  ASSUME TypeOK, Shape, Opening, [Next]_vars
  PROVE  Opening'
PROOF
<1>0. /\ closer \in Closers
      /\ DOMAIN AfterPart = {"ledger", "adapter", "observer", "service"}
      /\ \A l \in {"service"} : l \in Labels
  BY Types DEF AfterPart, Labels
<1>1. CASE Running
  <2>1. main \in {"config", "ledger", "adapter", "observer"} => drain' = drain
    BY <1>1, RunningStep DEF Opening, Shape
  <2> QED
    BY <1>0, <1>1, <2>1, RunningStep DEF Opening, Ending, CloserAt
<1>2. CASE Configure
  <2>1. /\ UNCHANGED <<dispatch, service, adapter, ledger, drain, served, link, sealed, wish, stop>>
        /\ main = "config"
        /\ \/ main' = "ledger" /\ closer' = closer
           \/ main' = "failed" /\ closer'.at = "service"
    BY <1>0, <1>2, GotoFacts
       DEF Configure, ledgerVars, observerVars, adapterVars
  <2> QED
    BY <1>0, <2>1 DEF Opening, Ending, CloserAt
<1>3. CASE CallClose
  <2>1. /\ UNCHANGED <<dispatch, service, adapter, ledger, drain, served, link, sealed, wish, stop>>
        /\ main' = "closing" /\ closer'.at = "service"
    BY <1>0, <1>3, GotoFacts DEF CallClose, ledgerVars, observerVars, adapterVars
  <2> QED
    BY <1>0, <2>1 DEF Opening, Ending, CloserAt
<1>4. CASE OpenPart
  <2>1. CASE main' = "failed"
    <3>1. AfterPart[main] # "failed" /\ main \in DOMAIN AfterPart
      BY <1>4, OpenStep DEF AfterPart
    <3> QED
      BY <1>0, <1>4, <2>1, <3>1, OpenStep DEF Opening, Ending, CloserAt
  <2>2. CASE main' # "failed"
    <3>1. /\ main \in DOMAIN AfterPart /\ main' = AfterPart[main]
          /\ main = "ledger" => main' = "adapter"
          /\ main = "adapter" => main' = "observer"
          /\ main = "observer" => main' = "service"
          /\ main = "service" => main' = "open"
      BY <1>4, <2>2, OpenStep DEF AfterPart
    <3> QED
      BY <1>0, <1>4, <2>2, <3>1, OpenStep DEF Opening, Ending, CloserAt
  <2> QED
    BY <2>1, <2>2
<1>5. CASE Closer
  <2>0. closer.at # "idle" /\ closer'.at # "idle" /\ main \in Ending
    BY <1>5, CloserMoves DEF Closer, AfterAdapter, Opening
  <2>1. main = "failed" => service' = service
    <3>1. CASE CloseService \/ JoinService
      BY <3>1 DEF CloseService, JoinService, Opening
    <3> QED
      BY <1>5, <3>1, CloserFrame
  <2>2. closer'.at \in {"observer-join", "observer-drain"} => stop'
    <3>1. closer'.at \in {"observer-join", "observer-drain"} => CloseObserver \/ JoinObserver
      BY <1>5, CloserMoves DEF Closer, AfterAdapter
    <3>2. CloseObserver => stop'
      BY DEF CloseObserver
    <3>3. JoinObserver => stop'
      BY CloserMoves DEF JoinObserver, Opening
    <3> QED
      BY <3>1, <3>2, <3>3
  <2>3. UNCHANGED <<main, dispatch, adapter>> /\ (link' = link \/ link' = "disconnected")
    BY <1>5, CloserFrame
  <2>4. (sealed' => adapter # "absent") /\ (sealed => sealed')
    <3>1. CASE CloseAdapter
      BY <3>1 DEF CloseAdapter, Opening
    <3>2. CASE sealed' = sealed
      BY <3>2 DEF Opening
    <3> QED
      BY <1>5, <3>1, <3>2, CloserFrame
  <2>5. sealed' /\ wish' = "none" => link' # "connected"
    <3>1. CASE CloseAdapter
      <4>1. UNCHANGED link
        BY <3>1 DEF CloseAdapter, ledgerVars
      <4>2. sealed' /\ wish' = "none" => sealed /\ wish = "none"
        BY <3>1 DEF CloseAdapter
      <4> QED
        BY <4>1, <4>2 DEF Opening
    <3>2. CASE ~CloseAdapter
      BY <1>5, <2>3, <3>2, CloserFrame DEF Opening
    <3> QED
      BY <3>1, <3>2
  <2>6. main \notin {"config", "ledger", "adapter", "observer", "open", "service"}
    BY <2>0 DEF Ending
  <2>7. closer'.at \in {"decide", "shutdown-gap"} => main = "closing"
    BY <1>5, <2>0, CloserMoves DEF Closer, AfterAdapter, Opening, Ending
  <2>8. closer'.at = "ledger" => main = "failed"
    BY <1>5, CloserMoves DEF Closer, AfterAdapter
  <2> QED
    BY <1>0, <2>0, <2>1, <2>2, <2>3, <2>4, <2>5, <2>6, <2>7, <2>8
       DEF Opening, Ending, CloserAt
<1> QED
  BY <1>1, <1>2, <1>3, <1>4, <1>5, NextParts

LEMMA ServingStep ==
  ASSUME TypeOK, Opening, Serving, [Next]_vars
  PROVE  Serving'
PROOF
<1>1. CASE UNCHANGED <<service, served, closer>>
  BY <1>1 DEF Serving, Served, CloserAt
<1>2. CASE Configure \/ CallClose
  <2>1. UNCHANGED <<service, served>> /\ closer'.at \in {closer.at, "service"}
        /\ (closer'.at = "service" \/ closer' = closer)
    BY <1>2, GotoFacts DEF Configure, CallClose, Labels
  <2> QED
    BY <1>1, <2>1 DEF Serving, Served, CloserAt
<1>3. CASE OpenPart
  <2>1. main \notin Ending /\ closer.at = "idle" /\ ~served /\ served' = served
        /\ service = "absent"
    BY <1>3, OpenStep DEF Opening, Ending, AfterPart
  <2>2. CASE closer' = closer
    BY <2>1, <2>2 DEF Serving, CloserAt
  <2>3. CASE closer' # closer
    BY <1>3, <2>1, <2>3, OpenStep DEF Serving, Served, CloserAt
  <2> QED
    BY <2>2, <2>3
<1>4. CASE CloseService
  <2>1. service' # "running" /\ served' = served /\ (Served => Served')
    BY <1>4 DEF CloseService, Serving, Served
  <2> QED
    BY <1>4, <2>1, CloserMoves DEF Serving, CloserAt
<1>5. CASE JoinService
  <2>1. service \in {"absent", "stopping", "dead"}
    BY <1>5, TypeParts DEF JoinService, Serving, HostOK
  <2>2. /\ service' \in {"absent", "stopping", "dead"} /\ (served' <=> service' # "stopping")
        /\ closer'.serviceOk <=> service' # "stopping"
    BY <1>5, <2>1, CloserMoves DEF JoinService
  <2>3. closer'.at \in {"ledger", "observer"}
    BY <1>5, CloserMoves
  <2> QED
    BY <2>2, <2>3 DEF Serving, Served, CloserAt
<1>6. CASE Closer /\ ~CloseService /\ ~JoinService
  <2>1. service' = service /\ served' = served
    BY <1>6, CloserFrame
  <2>2. closer'.at # "service-join"
    BY <1>6, CloserMoves DEF Closer, AfterAdapter
  <2>3. closer'.at \in {"observer", "observer-join", "observer-drain", "adapter",
                        "adapter-join", "attempt", "decide", "shutdown-gap"} =>
          /\ closer.at \in {"observer", "observer-join", "observer-drain", "adapter",
                            "adapter-join", "attempt", "decide", "shutdown-gap"}
          /\ closer'.serviceOk = closer.serviceOk
    BY <1>6, CloserMoves DEF Closer, AfterAdapter, Flags
  <2> QED
    BY <2>1, <2>2, <2>3 DEF Serving, Served, CloserAt
<1>7. CASE Running
  BY <1>1, <1>7, RunningStep
<1> QED
  BY <1>2, <1>3, <1>4, <1>5, <1>6, <1>7, NextParts

\* Nothing starts a drain once the host ends, but the closing thread.
LEMMA Undrained ==
  ASSUME TypeOK, Shape, [Next]_vars, drain.who = "none", main \in Ending,
         ~CloseObserver, ~JoinObserver
  PROVE  drain' = drain /\ ~Take /\ ~Hook
PROOF
<1>1. ~Drain /\ ~Hook
  BY DEF Shape, Ending, Drain, Loop, Take, Swap, Report, Hook
<1> SUFFICES drain' = drain
  BY <1>1 DEF Drain
<1>2. ~OpenPart
  BY DEF OpenPart, AfterPart, Ending
<1>3. CASE Running
  BY <1>3, RunningStep DEF Shape
<1>4. CASE Configure \/ CallClose
  BY <1>4 DEF Configure, CallClose, observerVars
<1>5. CASE Closer
  BY <1>5
     DEF Closer, CloseService, JoinService, Drained, CloseAdapter, JoinAdapter, CloserAttempts,
         Flush, Attempt, Decide, ShutdownGap, CleanupLedger, observerVars
<1> QED
  BY <1>2, <1>3, <1>4, <1>5, NextParts

LEMMA StopStep ==
  ASSUME TypeOK, [Next]_vars, stop
  PROVE  stop'
PROOF
<1>1. CASE Running
  BY <1>1, RunningStep
<1>2. CASE Configure \/ CallClose
  BY <1>2 DEF Configure, CallClose, observerVars
<1>3. CASE OpenPart
  BY <1>3, OpenStep
<1>4. CASE Closer
  BY <1>4, CloserFrame
<1> QED
  BY <1>1, <1>2, <1>3, <1>4, NextParts

\* What is quiet stays so: the reader's disconnect is all that may still be queued.
LEMMA QuietStep ==
  ASSUME TypeOK, Shape, Quiet, [Next]_vars, main \in Ending, ~CloseObserver, ~JoinObserver
  PROVE  Quiet'
PROOF
<1>1. drain' = drain /\ ~Take /\ ~Hook /\ stop'
  BY Undrained, StopStep DEF Quiet
<1>2. UNCHANGED <<dispatch, recorded, terminal>> /\ (gap => gap')
  BY <1>1, Quietly, GapStep
<1>3. \A i \in 1 .. Len(queue') : queue'[i] \notin Records
  <2>1. CASE queue' = queue
    BY <2>1 DEF Quiet
  <2>2. CASE queue' # queue
    <3>1. reader \in Disconnects /\ queue' = Append(queue, reader)
      BY <1>1, <2>2, Quietly DEF ReaderPuts
    <3>2. /\ Len(queue') = Len(queue) + 1 /\ Len(queue) \in Nat
          /\ queue'[Len(queue) + 1] = reader
          /\ \A i \in 1 .. Len(queue) : queue'[i] = queue[i]
      BY <3>1, QueueMore, QueueFacts
    <3>3. reader \notin Records
      BY <3>1 DEF Disconnects, Records
    <3> TAKE i \in 1 .. Len(queue')
    <3>4. CASE i = Len(queue) + 1
      BY <3>2, <3>3, <3>4
    <3>5. CASE i \in 1 .. Len(queue)
      BY <3>2, <3>5 DEF Quiet
    <3> QED
      BY <3>2, <3>4, <3>5
  <2> QED
    BY <2>1, <2>2
<1> QED
  BY <1>1, <1>2, <1>3 DEF Quiet

\* An observer with nothing to do has told everything.
LEMMA ClearIsQuiet ==
  ASSUME TypeOK, Shape, Kept, stop, drain.who = "none", queue = <<>>, ~losses
  PROVE  Quiet
PROOF
<1>1. Len(queue) = 0
  OBVIOUS
<1>2. Shown <=> gap
  BY DrainFields DEF Shown, Shape
<1> QED
  BY <1>1, <1>2 DEF Quiet, Kept, Queued

LEMMA OwnedStep ==
  ASSUME TypeOK, Shape, Kept, Opening, Owned, [Next]_vars
  PROVE  Owned'
PROOF
<1> DEFINE Late == {"adapter", "adapter-join", "attempt", "decide"}
<1> SUFFICES ASSUME closer'.at \in Late, closer'.ownerOk
             PROVE  Quiet'
  BY DEF Owned
<1>0. closer.at \in Late => main \in Ending
  BY DEF Opening
<1>1. ASSUME closer.at \in Late, closer.ownerOk PROVE Quiet'
  <2>1. ~CloseObserver /\ ~JoinObserver
    BY <1>1, CloserMoves
  <2> QED
    BY <1>0, <1>1, <2>1, QuietStep DEF Owned
<1>2. ASSUME closer.at \notin Late \/ ~closer.ownerOk
      PROVE  JoinObserver \/ Drained
  <2>1. CASE Running
    BY <1>2, <2>1, RunningStep
  <2>2. CASE Configure \/ CallClose
    BY <1>2, <2>2, GotoFacts DEF Configure, CallClose, Labels
  <2>3. CASE OpenPart
    BY <1>2, <2>3, OpenStep DEF Opening, Ending, AfterPart
  <2>4. CASE Closer
    BY <1>2, <2>4, CloserMoves DEF Closer, AfterAdapter, Flags
  <2> QED
    BY <2>1, <2>2, <2>3, <2>4, NextParts
<1>3. CASE JoinObserver
  <2>1. OwnerClear /\ stop
    BY <1>3, CloserMoves DEF Opening
  <2>2. Quiet
    BY <2>1, ClearIsQuiet DEF OwnerClear
  <2>3. UNCHANGED <<drain, stop, queue, dispatch, recorded, terminal, gap>>
    BY <1>3, <2>1 DEF JoinObserver, ledgerVars, callers
  <2> QED
    BY <2>2, <2>3 DEF Quiet
<1>4. CASE Drained
  <2>1. drain.who = "none" /\ queue = <<>> /\ ~losses /\ stop
    BY <1>4, CloserMoves DEF Opening, Drained
  <2>2. UNCHANGED <<drain, stop, queue, dispatch, recorded, terminal, gap>>
    BY <1>4 DEF Drained, ledgerVars, callers, observerVars
  <2> QED
    BY <2>1, <2>2, ClearIsQuiet DEF Quiet
<1> QED
  BY <1>1, <1>2, <1>3, <1>4

\* A closed ledger is closed in Decide or in CleanupLedger.
LEMMA ShutWhere ==
  ASSUME TypeOK, [Next]_vars, ~Decide, ~CleanupLedger
  PROVE  (ledger' = "closed" => ledger = "closed") /\ closed' = closed
PROOF
<1>1. CASE Running
  BY <1>1, RunningStep
<1>2. CASE Configure \/ CallClose
  BY <1>2 DEF Configure, CallClose
<1>3. CASE OpenPart
  BY <1>3 DEF OpenPart, Started, AfterPart
<1>4. CASE Closer
  BY <1>4, CloserFrame
<1> QED
  BY <1>1, <1>2, <1>3, <1>4, NextParts

LEMMA ShutStep ==
  ASSUME TypeOK, Shape, Opening, Serving, Owned, Shut, [Next]_vars
  PROVE  Shut'
PROOF
<1>0. closed \in BOOLEAN /\ closed' \in BOOLEAN
  BY TypeStep, TypeParts DEF HostOK
<1>1. CASE Decide
  <2>1. closer.at = "decide" /\ ~closed /\ ledger # "closed" /\ main = "closing"
    BY <1>1, CloserMoves DEF Shut, Opening
  <2>2. CASE Safe
    <3>1. Served /\ Quiet /\ adapter = "dead" /\ wish = "none" /\ debts = {}
      BY <2>1, <2>2 DEF Safe, Serving, Owned
    <3>2. closer'.at = "done" /\ closed'
      BY <1>1, <2>2, GotoFacts DEF Decide, Labels
    <3>3. UNCHANGED <<ledgerVars, callers, observerVars, adapterVars, service>>
      BY <1>1 DEF Decide
    <3>4. Quiet'
      BY <3>1, <3>3 DEF Quiet, ledgerVars, callers, observerVars
    <3>5. UNCHANGED <<drain, adapter, wish, debts, service, main>>
      BY <3>3 DEF callers, observerVars, adapterVars
    <3>6. Releasable'
      BY <3>1, <3>5 DEF Releasable, Served, Quiet
    <3> QED
      BY <2>1, <3>1, <3>2, <3>4, <3>5, <3>6 DEF Shut
  <2>3. CASE ~Safe
    <3>1. UNCHANGED <<closed, ledger>>
      BY <1>1, <2>3 DEF Decide
    <3> QED
      BY <2>1, <3>1 DEF Shut
  <2> QED
    BY <2>2, <2>3
<1>2. CASE CleanupLedger
  <2>1. closer.at = "ledger" /\ ~closed /\ ledger # "closed" /\ main = "failed"
    BY <1>2, CloserMoves DEF Shut, Opening, CloserAt
  <2>2. /\ UNCHANGED <<drain, adapter, service, main, closed>> /\ closer'.at = "done"
        /\ ledger' = "closed" => Releasable
    BY <1>2, <2>1, CloserMoves
       DEF CleanupLedger, callers, observerVars, adapterVars
  <2>3. Releasable => Releasable'
    BY <2>2 DEF Releasable
  <2> QED
    BY <2>1, <2>2, <2>3 DEF Shut
<1>3. CASE ledger # "closed" /\ ~closed /\ ~Decide /\ ~CleanupLedger
  BY <1>0, <1>3, ShutWhere DEF Shut
<1>4. CASE ledger = "closed" \/ closed
  <2>1. closer.at = "done" /\ main \in Ending /\ (closed \/ main = "failed")
    BY <1>4 DEF Shut, Ending
  <2>2. ~Closer
    BY <2>1, CloserMoves DEF Closer
  <2>3. ~Configure /\ ~OpenPart /\ ~CallClose
    BY <2>1 DEF Configure, OpenPart, CallClose, AfterPart, Ending, Shut
  <2>4. Running
    BY <2>2, <2>3, NextParts
  <2>5. drain.who = "none" /\ adapter # "running"
    BY <1>4 DEF Shut, Releasable, Quiet
  <2>6. drain' = drain /\ UNCHANGED <<main, service, ledger, closer, closed, adapter, wish, debts>>
    BY <2>4, <2>5, RunningStep DEF Shape
  <2>7. Quiet => Quiet'
    BY <2>1, <2>2, QuietStep DEF Closer
  <2>8. Releasable => Releasable'
    BY <2>6 DEF Releasable
  <2> QED
    BY <2>6, <2>7, <2>8 DEF Shut
<1> QED
  BY <1>0, <1>1, <1>2, <1>3, <1>4

----------------------------------------------------------------------------
(* The theorems.                                                             *)

LEMMA HostInit ==
  ASSUME Init
  PROVE  HostInv
PROOF
<1> USE DEF Init, InitLedger
<1>1. LedgerOK /\ CallersOK /\ AdapterOK
  <2>1. LedgerOK
    BY DEF LedgerOK
  <2>2. CallersOK
    BY DEF CallersOK, NextHook
  <2>3. AdapterOK
    BY DEF AdapterOK
  <2> QED
    BY <2>1, <2>2, <2>3
<1>2. ObserverOK
  <2>1. queue \in Seq(Records \cup Disconnects) /\ Len(queue) = 0
    OBVIOUS
  <2>2. 0 <= MaxQueue
    BY HostAssumption
  <2>3. drain \in Drainings
    BY NewDrains
  <2> QED
    BY <2>1, <2>2, <2>3 DEF ObserverOK
<1>3. HostOK /\ failures \in 0 .. MaxFailures
  <2>1. closer \in Closers
    BY DEF Closers, Labels
  <2>2. HostOK
    BY <2>1 DEF HostOK
  <2>3. failures \in 0 .. MaxFailures
    BY HostAssumption
  <2> QED
    BY <2>2, <2>3
<1>4. TypeOK
  BY <1>1, <1>2, <1>3, TypeParts
<1>5. Len(queue) = 0 /\ drain.who = "none" /\ drain.at = "loop" /\ ~drain.held
  BY NewDrains
<1>6. Shape /\ Submitted /\ Shows /\ Kept
  BY <1>5 DEF Shape, Submitted, Shows, Kept, Queued, Shown
<1>7. Opening /\ Serving /\ Owned /\ Shut
  BY <1>5 DEF Opening, AfterPart, Serving, Served, Owned, Shut, CloserAt, Ending
<1> QED
  BY <1>4, <1>6, <1>7 DEF HostInv

LEMMA HostStep ==
  ASSUME HostInv, [Next]_vars
  PROVE  HostInv'
PROOF BY TypeStep, ShapeStep, SubmittedStep, ShowsStep, KeptStep, OpeningStep, ServingStep,
         OwnedStep, ShutStep
      DEF HostInv

LEMMA HostInvariant == Spec => []HostInv
PROOF BY HostInit, HostStep, PTL DEF Spec

\* The type invariant of the host, for any bounds.
THEOREM HostIsTyped == Spec => []TypeOK
PROOF BY HostInvariant, PTL DEF HostInv

\* A record that a hook could not queue, or that the drain could not write, is a gap
\* of the project, a count in _losses, or in the hands of the drain that took the
\* count (drain_once), whatever fails and however often; once the losses are told,
\* the dispatch claims no exact coverage, also when it was written after them.
THEOREM MissedRecordsShow == Spec => []MissedShows
PROOF
<1>1. HostInv => MissedShows
  <2> SUFFICES ASSUME HostInv PROVE MissedShows
    OBVIOUS
  <2>1. ~drain.held => drain.at # "mark"
    BY DrainFields DEF HostInv, Shape
  <2> QED
    BY <2>1 DEF HostInv, Shows, Shown, MissedShows
<1> QED
  BY <1>1, HostInvariant, PTL

\* The ledger is closed when the observer's thread, the adapter's and the exporter's
\* have ended, by _close_worker as by _cleanup_partial_host, after any number of
\* calls of close; and none of them is started again over it.
THEOREM LedgerIsClosedLast == Spec => []LedgerClosedLast
PROOF
<1>1. HostInv => LedgerClosedLast
  BY DEF HostInv, Shut, LedgerClosedLast
<1> QED
  BY <1>1, HostInvariant, PTL

\* A host whose close succeeded has disconnected its source, owes the ledger nothing,
\* has no record of the dispatch in its queue, and has written what the controller
\* told it or marked a gap.
THEOREM ClosedHostIsComplete == Spec => []ClosedIsComplete
PROOF
<1>1. HostInv => ClosedIsComplete
  <2> SUFFICES ASSUME HostInv, closed PROVE ClosedIsComplete
    BY DEF ClosedIsComplete
  <2>1. Quiet /\ adapter = "dead" /\ wish = "none" /\ debts = {} /\ main = "closing"
    BY DEF HostInv, Shut
  <2>2. link = "disconnected"
    BY <2>1, Types DEF HostInv, Opening
  <2>3. DOMAIN queue = 1 .. Len(queue)
    BY QueueFacts DEF HostInv
  <2> QED
    BY <2>1, <2>2, <2>3, Types DEF HostInv, Quiet, ClosedIsComplete
<1> QED
  BY <1>1, HostInvariant, PTL

=============================================================================
