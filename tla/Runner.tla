-------------------------------- MODULE Runner --------------------------------
(***************************************************************************)
(* One run of run_observed_jobs: the main thread that starts a thread and a  *)
(* turn per job, waits for the turns to end, interrupts those that do not,   *)
(* and writes a chain of receipts per job; the thread that reads the         *)
(* app-server's output; and the app-server, a process that may answer late,   *)
(* wrongly or never, and may exit.                                           *)
(*                                                                         *)
(* A step of the main thread reaches to its next receipt, request or look at  *)
(* what the reader writes: pending, fatal, event.                             *)
(*                                                                         *)
(* What is abstracted:                                                     *)
(*  - a receipt is its stage, its number is its place in the job's chain;    *)
(*  - a turn id is the one turn/start returned ("own") or another;           *)
(*  - failure codes, except that some failure was seen;                     *)
(*  - clocks: the deadline of the run and a signal come at any time, the      *)
(*    shorter waits for an interrupt, a grace period or a thread may end       *)
(*    at any time;                                                          *)
(*  - the app-server reads its input, so a write to it returns;              *)
(*  - requests of the app-server to the run, which are denied in one write. *)
(* Observer calls and the presentation record cannot fail a run and are left   *)
(* out, except prepare_dispatch.                                             *)
(***************************************************************************)
EXTENDS Naturals, Sequences, FiniteSets

CONSTANTS
  Outcomes,   \* statuses of turn/completed the app-server may send
  MaxMishaps  \* bound on failing local operations, errors of the app-server and
              \* signals together, for each number of jobs

ASSUME OutcomesAssumption == Outcomes \subseteq {"completed", "failed", "interrupted"}
ASSUME MishapsAssumption == MaxMishaps \in [1 .. 2 -> Nat]

\* _load_manifest accepts one job or two; what else it checks of them is data.
Jobs == 1 .. 2
Kinds == {"initialize", "thread", "turn", "interrupt"}
NoEvent == [turn |-> "none", outcome |-> "none"]
Events == [turn : {"own", "other"}, outcome : Outcomes]

\* A request by its id, and the messages of the app-server.
Answer(n, ok) == [type |-> "answer", id |-> n, ok |-> ok]
Completed(j, e) == [type |-> "completed", job |-> j, event |-> e]
Garbage == [type |-> "garbage"]

VARIABLES
  jobs,          \* how many jobs the manifest holds
  main,          \* program counter of run_observed_jobs, see Main
  chain,         \* ReceiptWriter: the stages written for each job
  stray,         \* receipts on disk although their write was reported to fail
  registered,    \* jobs_by_thread
  turn,          \* jobs whose turn_id is known
  event,         \* terminal_event of each job
  processed,     \* jobs that are terminal_processed
  reported,      \* status of each job
  pending,       \* the request in _pending and its response
  lastId,        \* _request_id
  fatal,         \* _fatal is set
  expectedClose, \* _expected_close
  sourceClosed,  \* what _report_source_closed told the observer
  reader,        \* program counter of _read_stdout
  signal,        \* the shutdown latch
  late,          \* the deadline of the run has passed
  faults,
  \* the app-server
  alive, asked, pipe, served, noise

jobVars == <<jobs, registered, turn, event, processed, reported>>
receiptVars == <<chain, stray, faults>>
clientVars == <<pending, lastId, fatal, expectedClose, sourceClosed, reader>>
envVars == <<signal, late>>
serverVars == <<alive, asked, pipe, served, noise>>
vars == <<main, jobVars, receiptVars, clientVars, envVars, serverVars>>

\* handler: inside the except clause; expired: deadline_expired there; escaped: an
\* error leaves the try statement.
Main ==
  [at : {"route-authorization", "open", "initialize", "workload", "thread-start-intent",
         "submit", "await", "thread-start-response", "turn-start-intent",
         "turn-start-response", "turn-running", "process", "wait", "check", "interrupt",
         "interrupt-response", "grace", "grace-check", "finish", "linger", "close",
         "report", "outcome", "returned", "raised"},
   job : Jobs, kind : Kinds, handler : BOOLEAN, expired : BOOLEAN, escaped : BOOLEAN]

At(label) == main.at = label
Goto(label) == main' = [main EXCEPT !.at = label]

\* The next round of a loop over the jobs, or what follows the loop.
Advance(label, after) ==
  main' = [main EXCEPT !.at = IF main.job < jobs THEN label ELSE after,
                       !.job = IF main.job < jobs THEN @ + 1 ELSE 1]

\* Something goes wrong: a local operation fails, or the app-server errs.
Mishap == faults + noise + (IF signal THEN 1 ELSE 0) < MaxMishaps[jobs]
Fault == Mishap /\ faults' = faults + 1

----------------------------------------------------------------------------
(* Errors, receipts and requests of the main thread.                         *)

\* raise_if_failed.
Failed == fatal \/ ~alive

\* Inside the try statement of _interrupt_active.
Interrupting ==
  \/ At("interrupt") \/ At("interrupt-response")
  \/ main.kind = "interrupt" /\ (At("submit") \/ At("await"))

\* A RunnerError: the interrupt is given up, the run stops before or after its try
\* statement, the handler starts, or an error inside it escapes.
Raise ==
  IF Interrupting THEN Advance("interrupt", "grace-check")
  ELSE IF At("route-authorization") \/ At("outcome") THEN Goto("raised")
  ELSE main' =
    IF main.handler \/ At("open") THEN [main EXCEPT !.at = "close", !.escaped = TRUE]
    ELSE [main EXCEPT !.at = "interrupt", !.job = 1, !.handler = TRUE, !.expired = late]

\* ReceiptWriter.write: the file is linked under its number and stage; a failure
\* after the link leaves it on disk with the number still free for another stage.
\* "Then" is what follows a receipt that was written.
Write(stage, Then) ==
  LET j == main.job
      number == Len(chain[j]) + 1
      exists == <<number, stage>> \in stray[j]
  IN \/ /\ ~exists
        /\ chain' = [chain EXCEPT ![j] = Append(@, stage)]
        /\ UNCHANGED <<stray, faults>>
        /\ Then
     \/ /\ \/ exists /\ UNCHANGED <<stray, faults>>
           \/ Fault /\ UNCHANGED stray
           \/ ~exists /\ Fault /\ stray' = [stray EXCEPT ![j] = @ \cup {<<number, stage>>}]
        /\ UNCHANGED chain
        /\ Raise

\* submit: the request is pending before it is written.
Request(kind) ==
  IF Failed
  THEN /\ Raise
       /\ fatal' \in {fatal, TRUE}
       /\ UNCHANGED <<pending, lastId, asked, served>>
  ELSE /\ lastId' = lastId + 1
       /\ pending' = [id |-> lastId + 1, answer |-> "none"]
       /\ asked' = asked \cup {lastId + 1}
       /\ served' = IF kind = "turn" THEN [served EXCEPT ![main.job] = "running"] ELSE served
       /\ main' = [main EXCEPT !.at = "await", !.kind = kind]
       /\ UNCHANGED fatal

\* Where the run goes on once a request of a kind is answered.
Answered ==
  [initialize |-> "workload", thread |-> "thread-start-response",
   turn |-> "turn-start-response", interrupt |-> "interrupt-response"]

\* Mutant: the turn of the event is not compared.
MismatchNever(j) == FALSE

Mismatch(j) == event[j].turn # "own"

\* _process_terminal. "Then" is what follows it.
ProcessTerminal(Then) ==
  LET j == main.job
  IN IF j \in processed \/ event[j] = NoEvent \/ j \notin turn
     THEN Then /\ UNCHANGED <<receiptVars, processed, reported>>
     ELSE IF Mismatch(j)
     THEN Raise /\ UNCHANGED <<receiptVars, processed, reported>>
     ELSE /\ Write("turn-terminal", Then)
          /\ IF chain' # chain
             THEN /\ processed' = processed \cup {j}
                  /\ reported' = [reported EXCEPT ![j] = event[j].outcome]
             ELSE UNCHANGED <<processed, reported>>

----------------------------------------------------------------------------
(* The main thread.                                                          *)

\* Before anything is written: the authorization is malformed, or it does not grant
\* this manifest, configuration, linger time or number of jobs.
Refuse ==
  /\ At("route-authorization") /\ chain[1] = <<>>
  /\ Goto("raised")
  /\ UNCHANGED <<jobVars, receiptVars, clientVars, envVars, serverVars>>

Authorize ==
  /\ At("route-authorization")
  /\ Write("route-authorization", Advance("route-authorization", "open"))
  /\ UNCHANGED <<jobVars, clientVars, envVars, serverVars>>

\* The host is opened and the app-server started, or either fails.
Open ==
  /\ At("open")
  /\ \/ Goto("initialize") /\ alive' = TRUE /\ reader' = "reading" /\ UNCHANGED faults
     \/ Fault /\ Raise /\ UNCHANGED <<alive, reader>>
  /\ UNCHANGED <<jobVars, chain, stray, pending, lastId, fatal, expectedClose,
                 sourceClosed, envVars, asked, pipe, served, noise>>

\* _remaining_deadline raises.
Overdue == late \/ signal

Submit ==
  /\ At("initialize") \/ At("submit")
  /\ IF At("initialize") /\ Overdue
     THEN Raise /\ UNCHANGED <<pending, lastId, fatal, asked, served>>
     ELSE Request(main.kind)
  /\ UNCHANGED <<jobVars, receiptVars, expectedClose, sourceClosed, reader, envVars,
                 alive, pipe, noise>>

\* The wait of submit: an answer is taken, or a signal, a failure or the deadline
\* ends the wait; the request is no longer pending then.
Await ==
  /\ At("await")
  /\ \/ pending.answer = "ok" /\ Goto(Answered[main.kind]) /\ UNCHANGED fatal
     \/ /\ pending.answer = "ok" /\ main.kind = "initialize" /\ ~alive
        /\ fatal' = TRUE  \* "initialized" cannot be written
        /\ Raise
     \/ pending.answer = "bad" /\ Raise /\ UNCHANGED fatal
     \/ /\ pending.answer = "none" /\ UNCHANGED fatal
        /\ \/ signal /\ main.kind # "interrupt"
           \/ Failed
           \/ late \/ main.kind = "interrupt"
        /\ Raise
  /\ pending' = [id |-> 0, answer |-> "none"]
  /\ UNCHANGED <<jobVars, receiptVars, lastId, expectedClose, sourceClosed, reader,
                 envVars, serverVars>>

Workload ==
  /\ At("workload")
  /\ IF Overdue
     THEN Raise /\ UNCHANGED receiptVars
     ELSE Write("workload", Goto("thread-start-intent"))
  /\ UNCHANGED <<jobVars, clientVars, envVars, serverVars>>

ThreadStartIntent ==
  /\ At("thread-start-intent")
  /\ IF Failed
     THEN Raise /\ UNCHANGED receiptVars
     ELSE Write("thread-start-intent",
                main' = [main EXCEPT !.at = "submit", !.kind = "thread"])
  /\ UNCHANGED <<jobVars, clientVars, envVars, serverVars>>

\* The thread is registered before its receipt.
ThreadStartResponse ==
  /\ At("thread-start-response")
  /\ registered' = registered \cup {main.job}
  /\ Write("thread-start-response", Advance("workload", "turn-start-intent"))
  /\ UNCHANGED <<jobs, turn, event, processed, reported, clientVars, envVars, serverVars>>

TurnStartIntent ==
  /\ At("turn-start-intent")
  /\ \/ IF Overdue \/ Failed
        THEN Raise /\ UNCHANGED receiptVars
        ELSE Write("turn-start-intent",
                   main' = [main EXCEPT !.at = "submit", !.kind = "turn"])
     \/ ~Overdue /\ Fault /\ Raise /\ UNCHANGED <<chain, stray>>  \* prepare_dispatch
  /\ UNCHANGED <<jobVars, clientVars, envVars, serverVars>>

TurnStartResponse ==
  /\ At("turn-start-response")
  /\ turn' = turn \cup {main.job}
  /\ Write("turn-start-response", Goto("turn-running"))
  /\ UNCHANGED <<jobs, registered, event, processed, reported, clientVars, envVars, serverVars>>

TurnRunning ==
  /\ At("turn-running")
  /\ Write("turn-running", Goto("process"))
  /\ reported' = IF chain' # chain THEN [reported EXCEPT ![main.job] = "running"] ELSE reported
  /\ UNCHANGED <<jobs, registered, turn, event, processed, clientVars, envVars, serverVars>>

\* The passes over the jobs: behind a started turn, while the run waits, and in a
\* grace period.
Pass ==
  /\ \/ At("process") /\ ProcessTerminal(Advance("turn-start-intent", "wait"))
     \/ At("wait") /\ ProcessTerminal(Advance("wait", "check"))
     \/ At("grace") /\ ProcessTerminal(Advance("grace", "grace-check"))
  /\ UNCHANGED <<jobs, registered, turn, event, clientVars, envVars, serverVars>>

\* Mutant: a run waits for its turns past the deadline.
CheckPatient ==
  /\ At("check")
  /\ IF 1 .. jobs \subseteq processed THEN Goto("linger")
     ELSE IF Failed \/ signal THEN Raise ELSE Goto("wait")
  /\ UNCHANGED <<jobVars, receiptVars, clientVars, envVars, serverVars>>

\* Between two passes of the wait.
Check ==
  /\ At("check")
  /\ IF 1 .. jobs \subseteq processed THEN Goto("linger")
     ELSE IF Failed \/ signal THEN Raise
     ELSE Goto(IF late THEN "interrupt" ELSE "wait")
  /\ UNCHANGED <<jobVars, receiptVars, clientVars, envVars, serverVars>>

\* Mutant: only turns that have ended are interrupted.
SkipsRunning(j) == j \notin turn \/ event[j] = NoEvent

Skips(j) == j \notin turn \/ event[j] # NoEvent

\* _interrupt_active, one round: prepare_request and the intent.
Interrupt ==
  /\ At("interrupt")
  /\ IF Skips(main.job) THEN Advance("interrupt", "grace-check") /\ UNCHANGED receiptVars
     ELSE IF Failed THEN Raise /\ UNCHANGED receiptVars
     ELSE Write("interrupt-intent",
                main' = [main EXCEPT !.at = "submit", !.kind = "interrupt"])
  /\ UNCHANGED <<jobVars, clientVars, envVars, serverVars>>

InterruptResponse ==
  /\ At("interrupt-response")
  /\ Write("interrupt-response", Advance("interrupt", "grace-check"))
  /\ UNCHANGED <<jobVars, clientVars, envVars, serverVars>>

\* The grace period goes on while a job is not settled.
GraceGoesOn ==
  /\ At("grace-check")
  /\ ~(1 .. jobs \subseteq processed)
  /\ Goto("grace")
  /\ UNCHANGED <<jobVars, receiptVars, clientVars, envVars, serverVars>>

GraceOver ==
  /\ At("grace-check")
  /\ Goto("finish")
  /\ UNCHANGED <<jobVars, receiptVars, clientVars, envVars, serverVars>>

\* Mutant: a job that is already settled is recorded again.
UnsettledAlways(j) == TRUE

Unsettled(j) == j \notin processed

\* The status of a job that the controller ends.
ControllerState(j) ==
  IF ~main.handler THEN "timeout"
  ELSE IF j \notin turn THEN "not_started"
  ELSE IF main.expired THEN "timeout" ELSE "control_lost"

\* The last look at a job, and _record_controller_terminal if it found nothing.
Finish ==
  LET j == main.job
      Then == Advance("finish", IF main.handler THEN "close" ELSE "linger")
  IN /\ At("finish")
     /\ IF (event[j] # NoEvent /\ j \in turn) \/ ~Unsettled(j)
        THEN ProcessTerminal(Then)
        ELSE /\ Write("controller-terminal", Then)
             /\ IF chain' # chain
                THEN /\ processed' = processed \cup {j}
                     /\ reported' = [reported EXCEPT ![j] = ControllerState(j)]
                ELSE UNCHANGED <<processed, reported>>
     /\ UNCHANGED <<jobs, registered, turn, event, clientVars, envVars, serverVars>>

Linger ==
  /\ At("linger")
  /\ \/ Goto("close")
     \/ (Failed \/ signal) /\ Raise
  /\ UNCHANGED <<jobVars, receiptVars, clientVars, envVars, serverVars>>

\* AppServerClient.close: the process group is stopped; when the reader has ended or
\* was given time to, the source is reported closed unless the reader has done so.
Close ==
  /\ At("close")
  /\ expectedClose' = TRUE
  /\ alive' = FALSE
  /\ Goto("report")
  /\ UNCHANGED <<jobVars, receiptVars, pending, lastId, fatal, sourceClosed, reader,
                 envVars, asked, pipe, served, noise>>

ReportSourceClosed(expected) ==
  sourceClosed' = IF sourceClosed # "no" THEN sourceClosed
                  ELSE IF expected THEN "expected" ELSE "unexpected"

\* The host is closed and the latch restored.
Report ==
  /\ At("report")
  /\ IF reader = "none" THEN UNCHANGED sourceClosed ELSE ReportSourceClosed(TRUE)
  /\ Goto(IF main.escaped THEN "raised" ELSE "outcome")
  /\ UNCHANGED <<jobVars, receiptVars, pending, lastId, fatal, expectedClose, reader,
                 envVars, serverVars>>

Outcome ==
  /\ At("outcome")
  /\ Write("outcome", Advance("outcome", "returned"))
  /\ reported' = IF main.job \in processed THEN reported
                 ELSE [reported EXCEPT ![main.job] = "not_started"]
  /\ UNCHANGED <<jobs, registered, turn, event, processed, clientVars, envVars, serverVars>>

Run ==
  \/ Refuse \/ Authorize \/ Open \/ Submit \/ Await \/ Workload \/ ThreadStartIntent
  \/ ThreadStartResponse \/ TurnStartIntent \/ TurnStartResponse \/ TurnRunning
  \/ Pass \/ Check \/ Interrupt \/ InterruptResponse \/ GraceGoesOn \/ GraceOver \/ Finish \/ Linger
  \/ Close \/ Report \/ Outcome

----------------------------------------------------------------------------
(* The thread of _read_stdout.                                               *)

\* Mutant: any answer is taken for the pending request.
MatchesAny(m) == pending.id # 0

Matches(m) == pending.id = m.id

\* _RunControl.notification takes a turn/completed.
Accepts(m) ==
  /\ m.job \in registered
  /\ m.job \in turn => m.event.turn = "own"
  /\ event[m.job] = NoEvent

\* One frame: an answer for the pending request, the end of a turn of a registered
\* thread, or an error that is fatal.
Read ==
  /\ reader = "reading"
  /\ pipe # <<>>
  /\ LET m == Head(pipe)
         taken == m.type = "answer" /\ Matches(m) /\ pending.answer = "none"
         ended == m.type = "completed" /\ Accepts(m)
     IN /\ pending' = IF taken THEN [pending EXCEPT !.answer = IF m.ok THEN "ok" ELSE "bad"]
                      ELSE pending
        /\ event' = IF ended THEN [event EXCEPT ![m.job] = m.event] ELSE event
        /\ fatal' = (fatal \/ ~(taken \/ ended))
  /\ reader' = IF fatal' THEN "stopping" ELSE "reading"
  /\ pipe' = IF fatal' THEN <<>> ELSE Tail(pipe)
  /\ UNCHANGED <<main, jobs, registered, turn, processed, reported, receiptVars, lastId,
                 expectedClose, sourceClosed, envVars, alive, asked, served, noise>>

\* The output ends or the reader stops: under the lock it sees whether the client
\* closes; what it reports, it reports later.
EndOfOutput ==
  /\ reader = "stopping" \/ (reader = "reading" /\ pipe = <<>> /\ ~alive)
  /\ reader' = IF expectedClose THEN "expected" ELSE "unexpected"
  /\ fatal' = (fatal \/ ~expectedClose)
  /\ UNCHANGED <<main, jobVars, receiptVars, pending, lastId, expectedClose,
                 sourceClosed, envVars, serverVars>>

ReaderReports ==
  /\ reader \in {"expected", "unexpected"}
  /\ ReportSourceClosed(reader = "expected")
  /\ reader' = "ended"
  /\ UNCHANGED <<main, jobVars, receiptVars, pending, lastId, fatal, expectedClose,
                 envVars, serverVars>>

Reader == Read \/ EndOfOutput \/ ReaderReports

----------------------------------------------------------------------------
(* The app-server and the clock.                                             *)

Say(m) == pipe' = Append(pipe, m)

\* It answers a request, possibly after nobody waits for it any longer.
ServerAnswers(n, ok) ==
  /\ alive /\ n \in asked
  /\ ok \/ Mishap
  /\ noise' = IF ok THEN noise ELSE noise + 1
  /\ asked' = asked \ {n}
  /\ Say(Answer(n, ok))
  /\ UNCHANGED <<main, jobVars, receiptVars, clientVars, envVars, alive, served>>

TurnEnds(j, outcome) ==
  /\ alive /\ served[j] = "running"
  /\ served' = [served EXCEPT ![j] = outcome]
  /\ Say(Completed(j, [turn |-> "own", outcome |-> outcome]))
  /\ UNCHANGED <<main, jobVars, receiptVars, clientVars, envVars, alive, asked, noise>>

\* A repeated answer, a repeated or foreign turn/completed, or anything else the
\* client does not expect.
ServerErrs ==
  /\ alive /\ Mishap /\ noise' = noise + 1
  /\ \/ Say(Garbage)
     \/ \E n \in 1 .. lastId : n \notin asked /\ Say(Answer(n, TRUE))
     \/ \E j \in Jobs, o \in Outcomes : Say(Completed(j, [turn |-> "other", outcome |-> o]))
     \/ \E j \in Jobs : served[j] \in Outcomes
          /\ Say(Completed(j, [turn |-> "own", outcome |-> served[j]]))
  /\ UNCHANGED <<main, jobVars, receiptVars, clientVars, envVars, alive, asked, served>>

ServerExits ==
  /\ alive /\ Mishap /\ noise' = noise + 1
  /\ alive' = FALSE
  /\ UNCHANGED <<main, jobVars, receiptVars, clientVars, envVars, asked, pipe, served>>

\* What it does once nobody reads is of no consequence, like a signal or the
\* deadline after the last look at them.
Server ==
  /\ reader = "reading"
  /\ \/ \E n \in asked, ok \in BOOLEAN : ServerAnswers(n, ok)
     \/ \E j \in Jobs, o \in Outcomes : TurnEnds(j, o)
     \/ ServerErrs \/ ServerExits

Watching == main.at \notin {"close", "report", "outcome", "returned", "raised"}

Signal ==
  /\ Watching /\ ~signal /\ Mishap /\ signal' = TRUE
  /\ UNCHANGED <<main, jobVars, receiptVars, clientVars, late, serverVars>>

DeadlinePasses ==
  /\ Watching /\ ~late /\ late' = TRUE
  /\ UNCHANGED <<main, jobVars, receiptVars, clientVars, signal, serverVars>>

----------------------------------------------------------------------------
Init ==
  /\ jobs \in Jobs
  /\ main = [at |-> "route-authorization", job |-> 1, kind |-> "initialize",
             handler |-> FALSE, expired |-> FALSE, escaped |-> FALSE]
  /\ chain = [j \in Jobs |-> <<>>] /\ stray = [j \in Jobs |-> {}] /\ faults = 0
  /\ registered = {} /\ turn = {} /\ processed = {}
  /\ event = [j \in Jobs |-> NoEvent] /\ reported = [j \in Jobs |-> "pending"]
  /\ pending = [id |-> 0, answer |-> "none"] /\ lastId = 0
  /\ fatal = FALSE /\ expectedClose = FALSE /\ sourceClosed = "no" /\ reader = "none"
  /\ signal = FALSE /\ late = FALSE
  /\ alive = FALSE /\ asked = {} /\ pipe = <<>> /\ noise = 0
  /\ served = [j \in Jobs |-> "none"]

Next == Run \/ Reader \/ Server \/ Signal \/ DeadlinePasses

Spec == Init /\ [][Next]_vars

\* The main thread goes on, time passes, and a grace period ends.
Fairness == WF_vars(Run) /\ WF_vars(DeadlinePasses) /\ SF_vars(GraceOver)

FairSpec == Spec /\ Fairness

----------------------------------------------------------------------------
(* Properties.                                                               *)

Stages == {"route-authorization", "workload", "thread-start-intent",
           "thread-start-response", "turn-start-intent", "turn-start-response",
           "turn-running", "turn-terminal", "interrupt-intent", "interrupt-response",
           "controller-terminal", "outcome"}

\* The type invariant.
TypeOK ==
  /\ jobs \in Jobs /\ main \in Main
  /\ chain \in [Jobs -> Seq(Stages)] /\ stray \in [Jobs -> SUBSET (Nat \X Stages)]
  /\ registered \subseteq Jobs /\ turn \subseteq registered /\ processed \subseteq Jobs
  /\ event \in [Jobs -> Events \cup {NoEvent}]
  /\ reported \in [Jobs -> Outcomes \cup
       {"pending", "running", "timeout", "control_lost", "not_started"}]
  /\ lastId \in Nat /\ pending \in [id : 0 .. lastId, answer : {"none", "ok", "bad"}]
  /\ {fatal, expectedClose, signal, late, alive} \subseteq BOOLEAN
  /\ sourceClosed \in {"no", "expected", "unexpected"}
  /\ reader \in {"none", "reading", "stopping", "expected", "unexpected", "ended"}
  /\ faults \in Nat /\ noise \in Nat /\ asked \subseteq 1 .. lastId
  /\ served \in [Jobs -> Outcomes \cup {"none", "running"}]

\* The receipts of job j that tell how it ended.
Ends(j) == {i \in DOMAIN chain[j] : chain[j][i] \in {"turn-terminal", "controller-terminal"}}

\* A job ends once: whatever makes the run try again to settle it, a signal while
\* it lingers after a timeout or an error in the middle of settling, its receipts
\* never tell of two ends.
OneEnd == \A j \in Jobs : Cardinality(Ends(j)) <= 1

\* A run that returns a result has settled every job, with the receipt of its end
\* before that of its outcome.
ReturnedMeansSettled ==
  At("returned") => \A j \in 1 .. jobs :
    Ends(j) # {} /\ chain[j][Len(chain[j])] = "outcome"

\* A job is only reported to have ended in a way its own turn has ended, although
\* turn/completed may arrive before the run knows the turn's id, for another turn,
\* or twice.
HonestStatus ==
  \A j \in Jobs : reported[j] \in Outcomes => served[j] = reported[j]

\* An answer is taken for the request it answers: what was asked and given up may
\* be answered while another request waits.
AnswerIsItsOwn == pending.answer # "none" => pending.id \notin asked

\* Every turn the run still knows to be running is asked to stop before the
\* app-server is, unless the connection or the disk has failed, the reservation of a
\* dispatch among the writes that may.
StopIsAsked ==
  At("close") /\ ~Failed /\ faults = 0 => \A j \in turn :
    event[j] # NoEvent \/ \E i \in DOMAIN chain[j] : chain[j][i] = "interrupt-intent"

\* Only a local failure or the end of a foreign turn keeps a run from writing the
\* outcome of its jobs: signals, timeouts, exits and late answers never do.
EscapesOnly ==
  main.escaped => faults > 0 \/ \E j \in Jobs : event[j].turn = "other"

\* A run settles its jobs: each ends once, all of them before the run returns, and
\* only the errors named above make it raise instead.
JobsSettle == TypeOK /\ OneEnd /\ ReturnedMeansSettled /\ EscapesOnly

\* The run ends, whatever the app-server does.
RunEnds == <>(main.at \in {"returned", "raised"})

=============================================================================
