----------------------------- MODULE RunnerProofs -----------------------------
(***************************************************************************)
(* Theorems about Runner, for any outcomes of a turn and any number of       *)
(* mishaps.                                                                  *)
(*                                                                         *)
(* The argument: the main thread registers every job's thread before it asks  *)
(* for a turn (Started), and asks for each turn once (Unasked), so the end a  *)
(* turn has stays its end and the run reports no other (Honest); a request is *)
(* asked under a number of its own, so what the app-server has answered it    *)
(* can only repeat (AnswersOwn); a job is settled by the receipt of its end   *)
(* and by nothing else (Settling); and where the main thread is tells which   *)
(* jobs are settled, have their outcome written (Path) or were asked to stop  *)
(* (Stopping).  Flow sums up the ways the main thread can go.                 *)
(***************************************************************************)
EXTENDS Runner, FiniteSetTheorems, TLAPS

USE OutcomesAssumption

Messages ==
  [type : {"answer"}, id : Nat, ok : BOOLEAN]
    \cup [type : {"completed"}, job : Jobs, event : Events] \cup {Garbage}

Typed ==
  /\ TypeOK
  /\ pipe \in Seq(Messages)
  /\ main.job <= jobs /\ turn \subseteq 1 .. jobs
  /\ \A j \in Jobs : stray[j] # {} => faults > 0

\* What the app-server says of a request it has answered, and of a turn of this run
\* it has ended.
Genuine(m) ==
  /\ m.type = "answer" => m.id \in (1 .. lastId) \ asked
  /\ m.type = "completed" /\ m.event.turn = "own" => served[m.job] = m.event.outcome

PipeGenuine == \A i \in 1 .. Len(pipe) : Genuine(pipe[i])

AnswersOwn == PipeGenuine /\ AnswerIsItsOwn

\* The threads are started, or the turn of a job, from the first request on.
StartsThreads ==
  \/ main.at \in {"route-authorization", "open", "initialize", "workload",
                  "thread-start-intent", "thread-start-response"}
  \/ main.at \in {"submit", "await"} /\ main.kind \in {"initialize", "thread"}
TurnNotAsked == At("turn-start-intent") \/ (At("submit") /\ main.kind = "turn")
TurnAsked ==
  \/ main.at \in {"turn-start-response", "turn-running", "process"}
  \/ At("await") /\ main.kind = "turn"

\* The threads come first: a job is registered before its turn is asked for.
Started ==
  /\ main.at \in {"route-authorization", "open", "initialize"} => main.kind = "initialize"
  /\ StartsThreads /\ ~At("route-authorization") =>
       \A k \in 1 .. jobs : k < main.job => k \in registered
  /\ TurnNotAsked \/ TurnAsked => 1 .. jobs \subseteq registered

\* Which turns were not asked for.
Unasked ==
  /\ StartsThreads => \A k \in Jobs : served[k] = "none"
  /\ TurnNotAsked => \A k \in Jobs : k >= main.job => served[k] = "none"
  /\ TurnAsked => \A k \in Jobs : k > main.job => served[k] = "none"

\* What the run took for the end of its own turn is that end, and it reports no other.
Honest ==
  \A j \in Jobs :
    /\ event[j].turn = "own" => served[j] = event[j].outcome
    /\ reported[j] \in Outcomes => event[j].turn = "own" /\ reported[j] = event[j].outcome

\* A job is settled by the one receipt of its end.
Settling ==
  \A j \in Jobs :
    /\ j \notin processed => Ends(j) = {}
    /\ j \in processed => \E i \in Ends(j) : Ends(j) = {i}

\* The handler stops what runs, settles and closes.
Handling ==
  \/ Interrupting
  \/ main.at \in {"grace-check", "grace", "finish", "close", "report", "outcome",
                  "returned", "raised"}
AllSettled == 1 .. jobs \subseteq processed

\* What is settled where the main thread is.
Path ==
  /\ main.handler => Handling
  /\ main.escaped => main.at \in {"close", "report", "raised"}
  /\ main.at \in {"check", "grace-check", "linger"} => main.job = 1
  /\ main.at \in {"close", "report"} /\ ~main.escaped => main.job = 1
  /\ At("finish") => \A k \in 1 .. jobs : k < main.job => k \in processed
  /\ At("linger") => AllSettled
  /\ main.at \in {"close", "report", "outcome", "returned"} /\ ~main.escaped => AllSettled
  /\ At("outcome") => \A k \in 1 .. jobs : k < main.job => chain[k][Len(chain[k])] = "outcome"
  /\ At("returned") => \A k \in 1 .. jobs : chain[k][Len(chain[k])] = "outcome"

\* Nothing ends a job, or asks its turn to stop, before its turn is asked for; a job
\* is asked to stop, or the run has no way to.
Stopped(j) ==
  \/ event[j] # NoEvent
  \/ \E i \in DOMAIN chain[j] : chain[j][i] = "interrupt-intent"
Excused == Failed \/ faults > 0

Stopping ==
  /\ StartsThreads => turn = {}
  /\ StartsThreads \/ TurnNotAsked \/ TurnAsked \/ main.at \in {"wait", "check"} =>
       \A j \in processed : event[j] # NoEvent
  /\ At("interrupt") /\ ~Excused => \A j \in turn : j < main.job => Stopped(j)
  /\ Interrupting /\ ~At("interrupt") /\ ~Excused =>
       \A j \in turn : j <= main.job => Stopped(j)
  /\ main.at \in {"grace-check", "grace", "finish", "linger", "close"} /\ ~Excused =>
       \A j \in turn : Stopped(j)

RunnerInv ==
  /\ Typed /\ Started /\ AnswersOwn /\ Unasked /\ Honest /\ Settling /\ Path /\ Stopping
  /\ EscapesOnly

Labels ==
  {"route-authorization", "open", "initialize", "workload", "thread-start-intent",
   "submit", "await", "thread-start-response", "turn-start-intent",
   "turn-start-response", "turn-running", "process", "wait", "check", "interrupt",
   "interrupt-response", "grace", "grace-check", "finish", "linger", "close",
   "report", "outcome", "returned", "raised"}

\* The rest of the program counter stays.
Keeps == UNCHANGED <<main.kind, main.handler, main.expired, main.escaped>>

----------------------------------------------------------------------------
(* Steps of the main thread.                                                 *)

LEMMA GotoEffect ==
  ASSUME Typed, NEW label \in Labels, Goto(label)
  PROVE  /\ main' \in Main /\ main'.at = label /\ main'.job = main.job /\ Keeps
         /\ main'.job <= jobs
PROOF BY DEF Typed, TypeOK, Goto, Main, Labels, Keeps

LEMMA AdvanceEffect ==
  ASSUME Typed, NEW label \in Labels, NEW after \in Labels, Advance(label, after)
  PROVE  /\ main' \in Main /\ Keeps
         /\ main'.job <= jobs
         /\ \/ main.job < jobs /\ main'.at = label /\ main'.job = main.job + 1
            \/ main.job = jobs /\ main'.at = after /\ main'.job = 1
PROOF
<1>1. /\ main \in Main /\ main.job \in 1 .. 2 /\ jobs \in 1 .. 2 /\ main.job <= jobs
  BY DEF Typed, TypeOK, Main, Jobs
<1>2. CASE main.job < jobs
  <2>1. main' = [main EXCEPT !.at = label, !.job = main.job + 1]
    BY <1>2 DEF Advance
  <2>2. main.job + 1 \in Jobs /\ main.job + 1 <= jobs
    BY <1>1, <1>2 DEF Jobs
  <2>3. main' \in Main /\ main'.at = label /\ main'.job = main.job + 1 /\ Keeps
    BY <1>1, <2>1, <2>2 DEF Main, Labels, Keeps
  <2> QED
    BY <1>2, <2>2, <2>3
<1>3. CASE ~(main.job < jobs)
  <2>1. main' = [main EXCEPT !.at = after, !.job = 1]
    BY <1>3 DEF Advance
  <2>2. 1 \in Jobs /\ 1 <= jobs /\ main.job = jobs
    BY <1>1, <1>3 DEF Jobs
  <2>3. main' \in Main /\ main'.at = after /\ main'.job = 1 /\ Keeps
    BY <1>1, <2>1, <2>2 DEF Main, Labels, Keeps
  <2> QED
    BY <2>2, <2>3
<1> QED
  BY <1>2, <1>3

\* Where an error takes the main thread.
Raises ==
  \/ /\ Interrupting /\ Keeps
     /\ \/ main.job < jobs /\ main'.at = "interrupt" /\ main'.job = main.job + 1
        \/ main.job = jobs /\ main'.at = "grace-check" /\ main'.job = 1
  \/ /\ main.at \in {"route-authorization", "outcome"} /\ Keeps
     /\ main'.at = "raised"
  \/ /\ ~Interrupting /\ main.at \notin {"route-authorization", "outcome"}
     /\ main.handler \/ At("open")
     /\ main'.at = "close" /\ main'.escaped
     /\ main'.handler = main.handler
  \/ /\ ~Interrupting /\ ~main.handler
     /\ main.at \notin {"route-authorization", "outcome", "open"}
     /\ main'.kind = main.kind
     /\ main'.at = "interrupt" /\ main'.job = 1 /\ main'.handler
     /\ main'.escaped = main.escaped

LEMMA RaiseEffect ==
  ASSUME Typed, Raise
  PROVE  main' \in Main /\ main'.job <= jobs /\ Raises
PROOF
<1>1. CASE Interrupting
  <2>1. Advance("interrupt", "grace-check")
    BY <1>1 DEF Raise
  <2> QED
    BY <1>1, <2>1, AdvanceEffect DEF Labels, Raises
<1>2. CASE ~Interrupting
  <2>1. CASE At("route-authorization") \/ At("outcome")
    <3>1. Goto("raised")
      BY <1>2, <2>1 DEF Raise
    <3> QED
      BY <2>1, <3>1, GotoEffect DEF Labels, Raises, At
  <2>2. CASE ~(At("route-authorization") \/ At("outcome"))
    <3>1. /\ main \in Main /\ main.job <= jobs /\ jobs \in 1 .. 2 /\ 1 \in Jobs
      BY DEF Typed, TypeOK, Jobs
    <3>2. CASE main.handler \/ At("open")
      <4>1. main' = [main EXCEPT !.at = "close", !.escaped = TRUE]
        BY <1>2, <2>2, <3>2 DEF Raise
      <4> QED
        BY <1>2, <2>2, <3>1, <3>2, <4>1 DEF Raises, Main, At
    <3>3. CASE ~(main.handler \/ At("open"))
      <4>1. late \in BOOLEAN
        BY DEF Typed, TypeOK
      <4>2. main' = [main EXCEPT !.at = "interrupt", !.job = 1, !.handler = TRUE,
                                 !.expired = late]
        BY <1>2, <2>2, <3>3 DEF Raise
      <4>3. main' \in Main
        BY <3>1, <4>1, <4>2 DEF Main
      <4>4. /\ main'.at = "interrupt" /\ main'.job = 1 /\ main'.handler = TRUE
            /\ main'.kind = main.kind /\ main'.escaped = main.escaped
        BY <3>1, <4>2 DEF Main
      <4> QED
        BY <1>2, <2>2, <3>1, <3>3, <4>3, <4>4 DEF Raises, At
    <3> QED
      BY <3>2, <3>3
  <2> QED
    BY <2>1, <2>2
<1> QED
  BY <1>1, <1>2

\* What a receipt that is written leaves, and one that is not.
Written(stage) ==
  /\ chain' = [chain EXCEPT ![main.job] = Append(@, stage)]
  /\ chain' # chain
  /\ UNCHANGED <<stray, faults>>

NotWritten ==
  /\ UNCHANGED chain
  /\ faults' \in Nat /\ faults' >= faults /\ faults' > 0
  /\ stray' \in [Jobs -> SUBSET (Nat \X Stages)]

LEMMA WriteEffect ==
  ASSUME NEW ACTION Then, NEW stage \in Stages, Typed, Write(stage, Then)
  PROVE  \/ Written(stage) /\ Then
         \/ NotWritten /\ Raise
PROOF
<1> DEFINE j == main.job
           number == Len(chain[j]) + 1
           link == <<number, stage>>
<1>1. /\ j \in Jobs /\ chain \in [Jobs -> Seq(Stages)] /\ faults \in Nat
      /\ stray \in [Jobs -> SUBSET (Nat \X Stages)]
      /\ \A k \in Jobs : stray[k] # {} => faults > 0
  BY DEF Typed, TypeOK, Main
<1>2. link \in Nat \X Stages
  BY <1>1
<1>3. CASE /\ link \notin stray[j]
           /\ chain' = [chain EXCEPT ![j] = Append(@, stage)]
           /\ UNCHANGED <<stray, faults>>
           /\ Then
  <2>1. Append(chain[j], stage) # chain[j]
    <3>1. chain[j] \in Seq(Stages)
      BY <1>1
    <3>2. Len(Append(chain[j], stage)) = Len(chain[j]) + 1 /\ Len(chain[j]) \in Nat
      BY <3>1
    <3> QED
      BY <3>2
  <2>2. chain' # chain
    BY <1>1, <1>3, <2>1
  <2> QED
    BY <1>3, <2>2 DEF Written
<1>4. CASE /\ \/ link \in stray[j] /\ UNCHANGED <<stray, faults>>
              \/ faults' = faults + 1 /\ UNCHANGED stray
              \/ faults' = faults + 1 /\ stray' = [stray EXCEPT ![j] = @ \cup {link}]
           /\ UNCHANGED chain
           /\ Raise
  <2>1. faults' \in Nat /\ faults' >= faults /\ faults' > 0
    BY <1>1, <1>4
  <2>2. stray' \in [Jobs -> SUBSET (Nat \X Stages)]
    <3> HIDE DEF link
    <3> QED
      BY <1>1, <1>2, <1>4
  <2> QED
    BY <1>4, <2>1, <2>2 DEF NotWritten
<1> QED
  BY <1>3, <1>4 DEF Write, Fault

\* The moves of the main thread: to a label, to the next round, to a request.
To(label) == main'.at = label /\ main'.job = main.job /\ Keeps
Round(label, after) ==
  /\ Keeps
  /\ \/ main.job < jobs /\ main'.at = label /\ main'.job = main.job + 1
     \/ main.job = jobs /\ main'.at = after /\ main'.job = 1
Asks(kind) ==
  /\ main'.at = "submit" /\ main'.kind = kind
  /\ UNCHANGED <<main.job, main.handler, main.expired, main.escaped>>
Moves == main' \in Main /\ main'.job <= jobs

\* An error where nothing is written.
Fails == UNCHANGED chain /\ (UNCHANGED <<stray, faults>> \/ NotWritten) /\ Raises

LEMMA GotoMoves ==
  ASSUME Typed, NEW label \in Labels, Goto(label)
  PROVE  Moves /\ To(label)
PROOF BY GotoEffect DEF Moves, To

LEMMA AdvanceMoves ==
  ASSUME Typed, NEW label \in Labels, NEW after \in Labels, Advance(label, after)
  PROVE  Moves /\ Round(label, after)
PROOF BY AdvanceEffect DEF Moves, Round

LEMMA RaiseMoves ==
  ASSUME Typed, Raise
  PROVE  Moves /\ Raises
PROOF BY RaiseEffect DEF Moves

LEMMA AsksMoves ==
  ASSUME Typed, NEW kind \in Kinds, main' = [main EXCEPT !.at = "submit", !.kind = kind]
  PROVE  Moves /\ Asks(kind)
PROOF
<1>1. main \in Main /\ main.job <= jobs
  BY DEF Typed, TypeOK
<1> QED
  BY <1>1 DEF Main, Moves, Asks

\* Each action of the main thread by its receipt and its move.
LEMMA AuthorizeEffect ==
  ASSUME Typed, Authorize
  PROVE  /\ At("route-authorization") /\ Moves
         /\ \/ Written("route-authorization") /\ Round("route-authorization", "open")
            \/ NotWritten /\ Raises
PROOF BY WriteEffect, AdvanceMoves, RaiseMoves DEF Authorize, Labels, Stages

LEMMA OpenEffect ==
  ASSUME Typed, Open
  PROVE  /\ At("open") /\ Moves
         /\ \/ To("initialize") /\ UNCHANGED faults /\ alive' = TRUE /\ reader' = "reading"
            \/ faults' = faults + 1 /\ Raises /\ UNCHANGED <<alive, reader>>
PROOF BY GotoMoves, RaiseMoves DEF Open, Labels, Fault

LEMMA SubmitEffect ==
  ASSUME Typed, Submit
  PROVE  /\ At("initialize") \/ At("submit")
         /\ Moves
         /\ \/ /\ Raises
               /\ At("submit") => Failed
               /\ fatal' \in {fatal, TRUE}
               /\ UNCHANGED <<pending, lastId, asked, served>>
            \/ /\ main'.at = "await" /\ main'.job = main.job /\ Keeps
               /\ ~Failed
               /\ lastId' = lastId + 1
               /\ pending' = [id |-> lastId + 1, answer |-> "none"]
               /\ asked' = asked \cup {lastId + 1}
               /\ served' = IF main.kind = "turn"
                            THEN [served EXCEPT ![main.job] = "running"] ELSE served
               /\ UNCHANGED fatal
PROOF
<1>1. CASE At("initialize") /\ Overdue
  BY <1>1, RaiseMoves DEF Submit, At
<1>2. CASE ~(At("initialize") /\ Overdue) /\ Failed
  BY <1>2, RaiseMoves DEF Submit, Request
<1>3. CASE ~(At("initialize") /\ Overdue) /\ ~Failed
  <2>1. main \in Main /\ main.job <= jobs
    BY DEF Typed, TypeOK
  <2>2. main' = [main EXCEPT !.at = "await", !.kind = main.kind]
    BY <1>3 DEF Submit, Request
  <2>3. Moves /\ main'.at = "await" /\ main'.job = main.job /\ Keeps
    BY <2>1, <2>2 DEF Main, Moves, Keeps
  <2> QED
    BY <1>3, <2>3 DEF Submit, Request
<1> QED
  BY <1>1, <1>2, <1>3

LEMMA AwaitEffect ==
  ASSUME Typed, Await
  PROVE  /\ At("await") /\ Moves
         /\ Raises \/ To(Answered[main.kind])
         /\ fatal' \in {fatal, TRUE}
         /\ pending' = [id |-> 0, answer |-> "none"]
PROOF
<1>1. main.kind \in Kinds
  BY DEF Typed, TypeOK, Main
<1>2. Answered[main.kind] \in Labels
  BY <1>1 DEF Kinds, Answered, Labels
<1> QED
  BY <1>2, GotoMoves, RaiseMoves DEF Await

LEMMA WorkloadEffect ==
  ASSUME Typed, Workload
  PROVE  /\ At("workload") /\ Moves
         /\ \/ Written("workload") /\ To("thread-start-intent")
            \/ Fails
PROOF
<1>1. CASE Overdue
  BY <1>1, RaiseMoves DEF Workload, Fails, receiptVars
<1>2. CASE ~Overdue
  BY <1>2, WriteEffect, GotoMoves, RaiseMoves DEF Workload, Labels, Stages, Fails, NotWritten
<1> QED
  BY <1>1, <1>2

LEMMA ThreadStartIntentEffect ==
  ASSUME Typed, ThreadStartIntent
  PROVE  /\ At("thread-start-intent") /\ Moves
         /\ \/ Written("thread-start-intent") /\ Asks("thread")
            \/ Fails
PROOF
<1>1. CASE Failed
  BY <1>1, RaiseMoves DEF ThreadStartIntent, Fails, receiptVars
<1>2. CASE ~Failed
  BY <1>2, WriteEffect, AsksMoves, RaiseMoves
     DEF ThreadStartIntent, Kinds, Stages, Fails, NotWritten
<1> QED
  BY <1>1, <1>2

LEMMA ThreadStartResponseEffect ==
  ASSUME Typed, ThreadStartResponse
  PROVE  /\ At("thread-start-response") /\ Moves
         /\ \/ Written("thread-start-response") /\ Round("workload", "turn-start-intent")
            \/ NotWritten /\ Raises
PROOF BY WriteEffect, AdvanceMoves, RaiseMoves DEF ThreadStartResponse, Labels, Stages

LEMMA TurnStartIntentEffect ==
  ASSUME Typed, TurnStartIntent
  PROVE  /\ At("turn-start-intent") /\ Moves
         /\ \/ Written("turn-start-intent") /\ Asks("turn")
            \/ Fails
PROOF
<1>1. CASE (Overdue \/ Failed) /\ Raise /\ UNCHANGED receiptVars
  BY <1>1, RaiseMoves DEF TurnStartIntent, Fails, receiptVars
<1>2. CASE Write("turn-start-intent", main' = [main EXCEPT !.at = "submit", !.kind = "turn"])
  BY <1>2, WriteEffect, AsksMoves, RaiseMoves
     DEF TurnStartIntent, Kinds, Stages, Fails, NotWritten
<1>3. CASE Fault /\ Raise /\ UNCHANGED <<chain, stray>>
  <2>1. faults \in Nat /\ stray \in [Jobs -> SUBSET (Nat \X Stages)]
    BY DEF Typed, TypeOK
  <2> QED
    BY <1>3, <2>1, RaiseMoves DEF TurnStartIntent, Fails, NotWritten, Fault
<1> QED
  BY <1>1, <1>2, <1>3 DEF TurnStartIntent

LEMMA TurnStartResponseEffect ==
  ASSUME Typed, TurnStartResponse
  PROVE  /\ At("turn-start-response") /\ Moves
         /\ \/ Written("turn-start-response") /\ To("turn-running")
            \/ NotWritten /\ Raises
PROOF BY WriteEffect, GotoMoves, RaiseMoves DEF TurnStartResponse, Labels, Stages

LEMMA TurnRunningEffect ==
  ASSUME Typed, TurnRunning
  PROVE  /\ At("turn-running") /\ Moves
         /\ \/ Written("turn-running") /\ To("process")
            \/ NotWritten /\ Raises
PROOF BY WriteEffect, GotoMoves, RaiseMoves DEF TurnRunning, Labels, Stages

LEMMA InterruptEffect ==
  ASSUME Typed, Interrupt
  PROVE  /\ At("interrupt") /\ Moves
         /\ \/ /\ Skips(main.job) /\ UNCHANGED receiptVars
               /\ Round("interrupt", "grace-check")
            \/ Written("interrupt-intent") /\ Asks("interrupt")
            \/ Failed /\ UNCHANGED receiptVars /\ Raises
            \/ NotWritten /\ Raises
PROOF
<1>1. CASE Skips(main.job)
  BY <1>1, AdvanceMoves DEF Interrupt, Labels
<1>2. CASE ~Skips(main.job) /\ Failed
  BY <1>2, RaiseMoves DEF Interrupt
<1>3. CASE ~Skips(main.job) /\ ~Failed
  BY <1>3, WriteEffect, AsksMoves, RaiseMoves DEF Interrupt, Kinds, Stages
<1> QED
  BY <1>1, <1>2, <1>3

LEMMA InterruptResponseEffect ==
  ASSUME Typed, InterruptResponse
  PROVE  /\ At("interrupt-response") /\ Moves
         /\ \/ Written("interrupt-response") /\ Round("interrupt", "grace-check")
            \/ NotWritten /\ Raises
PROOF BY WriteEffect, AdvanceMoves, RaiseMoves DEF InterruptResponse, Labels, Stages

LEMMA OutcomeEffect ==
  ASSUME Typed, Outcome
  PROVE  /\ At("outcome") /\ Moves
         /\ \/ Written("outcome") /\ Round("outcome", "returned")
            \/ NotWritten /\ Raises
PROOF BY WriteEffect, AdvanceMoves, RaiseMoves DEF Outcome, Labels, Stages

LEMMA CheckEffect ==
  ASSUME Typed, Check
  PROVE  /\ At("check") /\ Moves
         /\ \/ AllSettled /\ To("linger")
            \/ Raises
            \/ To("interrupt") \/ To("wait")
PROOF BY GotoMoves, RaiseMoves DEF Check, Labels, AllSettled

LEMMA LingerEffect ==
  ASSUME Typed, Linger
  PROVE  /\ At("linger") /\ Moves
         /\ To("close") \/ Raises
PROOF BY GotoMoves, RaiseMoves DEF Linger, Labels

LEMMA ReportEffect ==
  ASSUME Typed, Report
  PROVE  /\ At("report") /\ Moves
         /\ \/ main.escaped /\ To("raised")
            \/ ~main.escaped /\ To("outcome")
PROOF BY GotoMoves DEF Report, Labels

\* _process_terminal leaves the job alone, finds a foreign turn, or settles the job.
Settles(stage, status) ==
  /\ Written(stage)
  /\ processed' = processed \cup {main.job}
  /\ reported' = [reported EXCEPT ![main.job] = status]
LeavesAlone == UNCHANGED <<processed, reported>>

LEMMA ProcessTerminalEffect ==
  ASSUME NEW ACTION Then, Typed, ProcessTerminal(Then)
  PROVE  LET j == main.job
         IN \/ /\ j \in processed \/ event[j] = NoEvent \/ j \notin turn
               /\ Then /\ UNCHANGED receiptVars /\ LeavesAlone
            \/ /\ event[j] # NoEvent /\ Mismatch(j)
               /\ Raise /\ UNCHANGED receiptVars /\ LeavesAlone
            \/ /\ j \notin processed /\ event[j] # NoEvent /\ j \in turn /\ ~Mismatch(j)
               /\ Settles("turn-terminal", event[j].outcome) /\ Then
            \/ NotWritten /\ Raise /\ LeavesAlone
PROOF
<1> DEFINE j == main.job
<1>1. CASE j \in processed \/ event[j] = NoEvent \/ j \notin turn
  BY <1>1 DEF ProcessTerminal, LeavesAlone
<1>2. CASE ~(j \in processed \/ event[j] = NoEvent \/ j \notin turn) /\ Mismatch(j)
  BY <1>2 DEF ProcessTerminal, LeavesAlone
<1>3. CASE ~(j \in processed \/ event[j] = NoEvent \/ j \notin turn) /\ ~Mismatch(j)
  <2>1. /\ Write("turn-terminal", Then)
        /\ IF chain' # chain
           THEN /\ processed' = processed \cup {j}
                /\ reported' = [reported EXCEPT ![j] = event[j].outcome]
           ELSE UNCHANGED <<processed, reported>>
    BY <1>3 DEF ProcessTerminal
  <2>2. \/ Written("turn-terminal") /\ Then
        \/ NotWritten /\ Raise
    BY <2>1, WriteEffect DEF Stages
  <2>3. CASE Written("turn-terminal") /\ Then
    BY <1>3, <2>1, <2>3 DEF Written, Settles
  <2>4. CASE NotWritten /\ Raise
    BY <2>1, <2>4 DEF NotWritten, LeavesAlone
  <2> QED
    BY <2>2, <2>3, <2>4
<1> QED
  BY <1>1, <1>2, <1>3

PassRound ==
  \/ At("process") /\ Round("turn-start-intent", "wait")
  \/ At("wait") /\ Round("wait", "check")
  \/ At("grace") /\ Round("grace", "grace-check")
FinishRound == Round("finish", IF main.handler THEN "close" ELSE "linger")

LEMMA PassEffect ==
  ASSUME Typed, Pass
  PROVE  LET j == main.job
         IN /\ main.at \in {"process", "wait", "grace"} /\ Moves
            /\ \/ /\ j \in processed \/ event[j] = NoEvent \/ j \notin turn
                  /\ PassRound /\ UNCHANGED receiptVars /\ LeavesAlone
               \/ /\ event[j] # NoEvent /\ Mismatch(j)
                  /\ Raises /\ UNCHANGED receiptVars /\ LeavesAlone
               \/ /\ j \notin processed /\ event[j] # NoEvent /\ j \in turn /\ ~Mismatch(j)
                  /\ Settles("turn-terminal", event[j].outcome) /\ PassRound
               \/ NotWritten /\ Raises /\ LeavesAlone
PROOF
<1>1. CASE At("process") /\ ProcessTerminal(Advance("turn-start-intent", "wait"))
  <2>1. Advance("turn-start-intent", "wait") => Moves /\ PassRound
    BY <1>1, AdvanceMoves DEF Labels, PassRound
  <2> QED
    BY <1>1, <2>1, ProcessTerminalEffect, RaiseMoves DEF At
<1>2. CASE At("wait") /\ ProcessTerminal(Advance("wait", "check"))
  <2>1. Advance("wait", "check") => Moves /\ PassRound
    BY <1>2, AdvanceMoves DEF Labels, PassRound
  <2> QED
    BY <1>2, <2>1, ProcessTerminalEffect, RaiseMoves DEF At
<1>3. CASE At("grace") /\ ProcessTerminal(Advance("grace", "grace-check"))
  <2>1. Advance("grace", "grace-check") => Moves /\ PassRound
    BY <1>3, AdvanceMoves DEF Labels, PassRound
  <2> QED
    BY <1>3, <2>1, ProcessTerminalEffect, RaiseMoves DEF At
<1> QED
  BY <1>1, <1>2, <1>3 DEF Pass

LEMMA FinishEffect ==
  ASSUME Typed, Finish
  PROVE  LET j == main.job
         IN /\ At("finish") /\ Moves
            /\ \/ j \in processed /\ FinishRound /\ UNCHANGED receiptVars /\ LeavesAlone
               \/ /\ event[j] # NoEvent /\ Mismatch(j)
                  /\ Raises /\ UNCHANGED receiptVars /\ LeavesAlone
               \/ /\ j \notin processed /\ event[j] # NoEvent /\ j \in turn /\ ~Mismatch(j)
                  /\ Settles("turn-terminal", event[j].outcome) /\ FinishRound
               \/ /\ j \notin processed /\ Settles("controller-terminal", ControllerState(j))
                  /\ FinishRound
               \/ NotWritten /\ Raises /\ LeavesAlone
PROOF
<1> DEFINE j == main.job
           Then == Advance("finish", IF main.handler THEN "close" ELSE "linger")
<1>0. At("finish")
  BY DEF Finish
<1>1. Then => Moves /\ FinishRound
  <2>1. CASE main.handler
    BY <2>1, AdvanceMoves DEF Labels, FinishRound
  <2>2. CASE ~main.handler
    BY <2>2, AdvanceMoves DEF Labels, FinishRound
  <2> QED
    BY <2>1, <2>2
<1>2. CASE (event[j] # NoEvent /\ j \in turn) \/ ~Unsettled(j)
  <2>1. ProcessTerminal(Then)
    BY <1>2 DEF Finish
  <2> HIDE DEF Then
  <2>2. CASE /\ j \in processed \/ event[j] = NoEvent \/ j \notin turn
             /\ Then /\ UNCHANGED receiptVars /\ LeavesAlone
    BY <1>0, <1>1, <1>2, <2>2 DEF Unsettled
  <2>3. CASE /\ event[j] # NoEvent /\ Mismatch(j)
             /\ Raise /\ UNCHANGED receiptVars /\ LeavesAlone
    BY <1>0, <2>3, RaiseMoves
  <2>4. CASE /\ j \notin processed /\ event[j] # NoEvent /\ j \in turn /\ ~Mismatch(j)
             /\ Settles("turn-terminal", event[j].outcome) /\ Then
    BY <1>0, <1>1, <2>4
  <2>5. CASE NotWritten /\ Raise /\ LeavesAlone
    BY <1>0, <2>5, RaiseMoves
  <2> QED
    BY <2>1, <2>2, <2>3, <2>4, <2>5, ProcessTerminalEffect
<1>3. CASE ~((event[j] # NoEvent /\ j \in turn) \/ ~Unsettled(j))
  <2>1. /\ Write("controller-terminal", Then)
        /\ IF chain' # chain
           THEN /\ processed' = processed \cup {j}
                /\ reported' = [reported EXCEPT ![j] = ControllerState(j)]
           ELSE UNCHANGED <<processed, reported>>
    BY <1>3 DEF Finish
  <2> HIDE DEF Then
  <2>2. \/ Written("controller-terminal") /\ Then
        \/ NotWritten /\ Raise
    BY <2>1, WriteEffect DEF Stages
  <2>3. CASE Written("controller-terminal") /\ Then
    <3>1. Settles("controller-terminal", ControllerState(j))
      BY <2>1, <2>3 DEF Written, Settles
    <3> QED
      BY <1>0, <1>1, <1>3, <2>3, <3>1 DEF Unsettled
  <2>4. CASE NotWritten /\ Raise
    <3>1. LeavesAlone
      BY <2>1, <2>4 DEF NotWritten, LeavesAlone
    <3> QED
      BY <1>0, <2>4, <3>1, RaiseMoves
  <2> QED
    BY <2>2, <2>3, <2>4
<1> QED
  BY <1>2, <1>3

----------------------------------------------------------------------------
(* Types.                                                                    *)

Statuses == Outcomes \cup {"pending", "running", "timeout", "control_lost", "not_started"}

\* What a receipt leaves on disk is typed.
ReceiptsTyped ==
  /\ chain \in [Jobs -> Seq(Stages)] /\ stray \in [Jobs -> SUBSET (Nat \X Stages)]
  /\ faults \in Nat
  /\ \A j \in Jobs : stray[j] # {} => faults > 0

LEMMA WrittenTyped ==
  ASSUME Typed, NEW stage \in Stages, Written(stage)
  PROVE  ReceiptsTyped'
PROOF
<1>1. ReceiptsTyped /\ main.job \in Jobs
  BY DEF Typed, TypeOK, Main, ReceiptsTyped
<1>2. chain' \in [Jobs -> Seq(Stages)]
  BY <1>1 DEF ReceiptsTyped, Written
<1> QED
  BY <1>1, <1>2 DEF ReceiptsTyped, Written

LEMMA NotWrittenTyped ==
  ASSUME Typed, NotWritten
  PROVE  ReceiptsTyped'
PROOF
<1>1. ReceiptsTyped
  BY DEF Typed, TypeOK, ReceiptsTyped
<1> QED
  BY <1>1 DEF ReceiptsTyped, NotWritten

LEMMA UnwrittenTyped ==
  ASSUME Typed, UNCHANGED receiptVars
  PROVE  ReceiptsTyped'
PROOF BY DEF Typed, TypeOK, ReceiptsTyped, receiptVars

LEMMA FailsTyped ==
  ASSUME Typed, Fails
  PROVE  ReceiptsTyped'
PROOF
<1>1. CASE NotWritten
  BY <1>1, NotWrittenTyped
<1>2. CASE UNCHANGED <<stray, faults>>
  BY <1>2, UnwrittenTyped DEF Fails, receiptVars
<1> QED
  BY <1>1, <1>2 DEF Fails

\* A step of the main thread that only it can see is typed if its moves, receipts and
\* records of the jobs are.
LEMMA MainTyped ==
  ASSUME Typed, Moves, ReceiptsTyped',
         UNCHANGED <<jobs, event, clientVars, envVars, serverVars>>,
         registered' \subseteq Jobs, turn' \subseteq registered', turn' \subseteq 1 .. jobs,
         processed' \subseteq Jobs, reported' \in [Jobs -> Statuses]
  PROVE  Typed'
PROOF
BY DEF Typed, TypeOK, Moves, ReceiptsTyped, Statuses, clientVars, envVars, serverVars

LEMMA SettlesTyped ==
  ASSUME Typed, NEW stage \in Stages, NEW status \in Statuses, Settles(stage, status)
  PROVE  ReceiptsTyped' /\ processed' \subseteq Jobs /\ reported' \in [Jobs -> Statuses]
PROOF
<1>1. processed \subseteq Jobs /\ reported \in [Jobs -> Statuses] /\ main.job \in Jobs
  BY DEF Typed, TypeOK, Main, Statuses
<1> QED
  BY <1>1, WrittenTyped DEF Settles

LEMMA MainStepTyped ==
  ASSUME Typed, Started, Run
  PROVE  Typed'
PROOF
<1>1. /\ registered \subseteq Jobs /\ turn \subseteq registered /\ turn \subseteq 1 .. jobs
      /\ processed \subseteq Jobs /\ reported \in [Jobs -> Statuses]
      /\ main.job \in Jobs /\ main.job \in 1 .. jobs /\ main \in Main
      /\ event \in [Jobs -> Events \cup {NoEvent}]
  BY DEF Typed, TypeOK, Main, Statuses, Jobs
<1>2. CASE Refuse
  <2>1. Moves
    BY <1>2, GotoMoves DEF Refuse, Labels
  <2> QED
    BY <1>1, <1>2, <2>1, UnwrittenTyped, MainTyped DEF Refuse, jobVars
<1>3. CASE Open
  <2>1. Moves /\ faults' \in Nat /\ (faults' = faults \/ faults' = faults + 1)
        /\ alive' \in BOOLEAN /\ reader' \in {reader, "reading"}
    <3>1. faults \in Nat /\ alive \in BOOLEAN
      BY DEF Typed, TypeOK
    <3>2. CASE alive' = TRUE /\ reader' = "reading" /\ UNCHANGED faults
      BY <1>3, <3>1, <3>2, OpenEffect
    <3>3. CASE faults' = faults + 1 /\ UNCHANGED <<alive, reader>>
      BY <1>3, <3>1, <3>3, OpenEffect
    <3> QED
      BY <1>3, <3>2, <3>3, OpenEffect
  <2> QED
    BY <1>3, <2>1 DEF Open, Typed, TypeOK, Moves, envVars, jobVars
<1>4. CASE Submit
  <2>1. Moves
    BY <1>4, SubmitEffect
  <2>2. CASE UNCHANGED <<pending, lastId, asked, served>> /\ fatal' \in {fatal, TRUE}
    BY <1>4, <2>1, <2>2 DEF Submit, Typed, TypeOK, Moves, envVars, jobVars, receiptVars
  <2>3. CASE /\ lastId' = lastId + 1
             /\ pending' = [id |-> lastId + 1, answer |-> "none"]
             /\ asked' = asked \cup {lastId + 1}
             /\ served' = IF main.kind = "turn"
                          THEN [served EXCEPT ![main.job] = "running"] ELSE served
             /\ UNCHANGED fatal
    <3>1. /\ lastId \in Nat /\ asked \subseteq 1 .. lastId
          /\ served \in [Jobs -> Outcomes \cup {"none", "running"}]
      BY DEF Typed, TypeOK
    <3>2. /\ lastId' \in Nat /\ asked' \subseteq 1 .. lastId'
      BY <2>3, <3>1
    <3>3. pending' \in [id : 0 .. lastId', answer : {"none", "ok", "bad"}]
      <4>1. lastId + 1 \in 0 .. (lastId + 1)
        BY <3>1
      <4> QED
        BY <2>3, <4>1
    <3>4. served' \in [Jobs -> Outcomes \cup {"none", "running"}]
      BY <2>3, <3>1
    <3> QED
      BY <1>4, <2>1, <2>3, <3>2, <3>3, <3>4
         DEF Submit, Typed, TypeOK, Moves, envVars, jobVars, receiptVars
  <2> QED
    BY <1>4, <2>2, <2>3, SubmitEffect
<1>5. CASE Await
  <2>1. Moves /\ fatal' \in {fatal, TRUE} /\ pending' = [id |-> 0, answer |-> "none"]
    BY <1>5, AwaitEffect
  <2>2. pending' \in [id : 0 .. lastId, answer : {"none", "ok", "bad"}]
    <3>1. 0 \in 0 .. lastId
      BY DEF Typed, TypeOK
    <3> QED
      BY <2>1, <3>1
  <2> QED
    BY <1>5, <2>1, <2>2
       DEF Await, Typed, TypeOK, Moves, envVars, jobVars, receiptVars, serverVars
<1>6. CASE Authorize
  <2>1. Moves /\ ReceiptsTyped'
    BY <1>6, AuthorizeEffect, WrittenTyped, NotWrittenTyped DEF Stages
  <2> QED
    BY <1>1, <1>6, <2>1, MainTyped DEF Authorize, jobVars
<1>7. CASE Workload
  <2>1. Moves /\ ReceiptsTyped'
    BY <1>7, WorkloadEffect, WrittenTyped, FailsTyped DEF Stages
  <2> QED
    BY <1>1, <1>7, <2>1, MainTyped DEF Workload, jobVars
<1>8. CASE ThreadStartIntent
  <2>1. Moves /\ ReceiptsTyped'
    BY <1>8, ThreadStartIntentEffect, WrittenTyped, FailsTyped DEF Stages
  <2> QED
    BY <1>1, <1>8, <2>1, MainTyped DEF ThreadStartIntent, jobVars
<1>9. CASE ThreadStartResponse
  <2>1. Moves /\ ReceiptsTyped'
    BY <1>9, ThreadStartResponseEffect, WrittenTyped, NotWrittenTyped DEF Stages
  <2> QED
    BY <1>1, <1>9, <2>1, MainTyped DEF ThreadStartResponse, jobVars
<1>10. CASE TurnStartIntent
  <2>1. Moves /\ ReceiptsTyped'
    BY <1>10, TurnStartIntentEffect, WrittenTyped, FailsTyped DEF Stages
  <2> QED
    BY <1>1, <1>10, <2>1, MainTyped DEF TurnStartIntent, jobVars
<1>11. CASE Interrupt
  <2>1. Moves /\ ReceiptsTyped'
    BY <1>11, InterruptEffect, WrittenTyped, NotWrittenTyped, UnwrittenTyped DEF Stages
  <2> QED
    BY <1>1, <1>11, <2>1, MainTyped DEF Interrupt, jobVars
<1>12. CASE InterruptResponse
  <2>1. Moves /\ ReceiptsTyped'
    BY <1>12, InterruptResponseEffect, WrittenTyped, NotWrittenTyped DEF Stages
  <2> QED
    BY <1>1, <1>12, <2>1, MainTyped DEF InterruptResponse, jobVars
<1>13. CASE TurnStartResponse
  <2>1. Moves /\ ReceiptsTyped'
    BY <1>13, TurnStartResponseEffect, WrittenTyped, NotWrittenTyped DEF Stages
  <2>2. main.job \in registered
    BY <1>1, <1>13 DEF TurnStartResponse, Started, TurnAsked, At
  <2> QED
    BY <1>1, <1>13, <2>1, <2>2, MainTyped DEF TurnStartResponse
<1>14. CASE TurnRunning
  <2>1. Moves /\ ReceiptsTyped'
    BY <1>14, TurnRunningEffect, WrittenTyped, NotWrittenTyped DEF Stages
  <2>2. reported' \in [Jobs -> Statuses]
    BY <1>1, <1>14 DEF TurnRunning, Statuses
  <2> QED
    BY <1>1, <1>14, <2>1, <2>2, MainTyped DEF TurnRunning
<1>15. CASE Outcome
  <2>1. Moves /\ ReceiptsTyped'
    BY <1>15, OutcomeEffect, WrittenTyped, NotWrittenTyped DEF Stages
  <2>2. reported' \in [Jobs -> Statuses]
    BY <1>1, <1>15 DEF Outcome, Statuses
  <2> QED
    BY <1>1, <1>15, <2>1, <2>2, MainTyped DEF Outcome
<1>16. CASE Pass
  <2> DEFINE j == main.job
  <2>1. event[j] # NoEvent => event[j].outcome \in Statuses
    BY <1>1 DEF Statuses, Events
  <2>2. ControllerState(j) \in Statuses
    BY DEF ControllerState, Statuses
  <2>3. Moves
    BY <1>16, PassEffect
  <2>4. ReceiptsTyped' /\ processed' \subseteq Jobs /\ reported' \in [Jobs -> Statuses]
    <3>1. CASE event[j] # NoEvent /\ Settles("turn-terminal", event[j].outcome)
      BY <2>1, <3>1, SettlesTyped DEF Stages
    <3>2. CASE Settles("controller-terminal", ControllerState(j))
      BY <2>2, <3>2, SettlesTyped DEF Stages
    <3>3. CASE UNCHANGED receiptVars /\ LeavesAlone
      BY <1>1, <3>3, UnwrittenTyped DEF LeavesAlone
    <3>4. CASE NotWritten /\ LeavesAlone
      BY <1>1, <3>4, NotWrittenTyped DEF LeavesAlone
    <3> QED
      BY <1>16, <3>1, <3>2, <3>3, <3>4, PassEffect
  <2> QED
    BY <1>1, <1>16, <2>3, <2>4, MainTyped DEF Pass
<1>17. CASE Finish
  <2> DEFINE j == main.job
  <2>1. event[j] # NoEvent => event[j].outcome \in Statuses
    BY <1>1 DEF Statuses, Events
  <2>2. ControllerState(j) \in Statuses
    BY DEF ControllerState, Statuses
  <2>3. Moves
    BY <1>17, FinishEffect
  <2>4. ReceiptsTyped' /\ processed' \subseteq Jobs /\ reported' \in [Jobs -> Statuses]
    <3>1. CASE event[j] # NoEvent /\ Settles("turn-terminal", event[j].outcome)
      BY <2>1, <3>1, SettlesTyped DEF Stages
    <3>2. CASE Settles("controller-terminal", ControllerState(j))
      BY <2>2, <3>2, SettlesTyped DEF Stages
    <3>3. CASE UNCHANGED receiptVars /\ LeavesAlone
      BY <1>1, <3>3, UnwrittenTyped DEF LeavesAlone
    <3>4. CASE NotWritten /\ LeavesAlone
      BY <1>1, <3>4, NotWrittenTyped DEF LeavesAlone
    <3> QED
      BY <1>17, <3>1, <3>2, <3>3, <3>4, FinishEffect
  <2> QED
    BY <1>1, <1>17, <2>3, <2>4, MainTyped DEF Finish
<1>18. CASE Check
  <2>1. Moves
    BY <1>18, CheckEffect
  <2> QED
    BY <1>1, <1>18, <2>1, UnwrittenTyped, MainTyped DEF Check, jobVars
<1>19. CASE Linger
  <2>1. Moves
    BY <1>19, LingerEffect
  <2> QED
    BY <1>1, <1>19, <2>1, UnwrittenTyped, MainTyped DEF Linger, jobVars
<1>20. CASE GraceGoesOn
  <2>1. Moves
    BY <1>20, GotoMoves DEF GraceGoesOn, Labels
  <2> QED
    BY <1>1, <1>20, <2>1, UnwrittenTyped, MainTyped DEF GraceGoesOn, jobVars
<1>21. CASE GraceOver
  <2>1. Moves
    BY <1>21, GotoMoves DEF GraceOver, Labels
  <2> QED
    BY <1>1, <1>21, <2>1, UnwrittenTyped, MainTyped DEF GraceOver, jobVars
<1>22. CASE Close
  <2>1. Moves
    BY <1>22, GotoMoves DEF Close, Labels
  <2> QED
    BY <1>22, <2>1 DEF Close, Typed, TypeOK, Moves, envVars, jobVars, receiptVars
<1>23. CASE Report
  <2>1. Moves
    BY <1>23, ReportEffect
  <2>2. sourceClosed' \in {"no", "expected", "unexpected"}
    BY <1>23 DEF Report, ReportSourceClosed, Typed, TypeOK
  <2> QED
    BY <1>23, <2>1, <2>2
       DEF Report, Typed, TypeOK, Moves, envVars, jobVars, receiptVars, serverVars
<1> QED
  BY <1>2, <1>3, <1>4, <1>5, <1>6, <1>7, <1>8, <1>9, <1>10, <1>11, <1>12, <1>13, <1>14, <1>15, <1>16, <1>17, <1>18, <1>19, <1>20, <1>21, <1>22, <1>23 DEF Run

\* What a message of the app-server holds.
LEMMA MessageKinds ==
  ASSUME NEW m \in Messages
  PROVE  /\ m.type = "answer" => m.id \in Nat /\ m.ok \in BOOLEAN
         /\ m.type = "completed" => m.job \in Jobs /\ m.event \in Events
PROOF BY DEF Messages, Garbage

\* What a step leaves in the pipe.
LEMMA PipeRest ==
  ASSUME Typed, pipe # <<>>
  PROVE  /\ Head(pipe) \in Messages /\ Head(pipe) = pipe[1] /\ 1 \in 1 .. Len(pipe)
         /\ Tail(pipe) \in Seq(Messages)
         /\ \A i \in 1 .. Len(Tail(pipe)) :
              i + 1 \in 1 .. Len(pipe) /\ Tail(pipe)[i] = pipe[i + 1]
PROOF BY DEF Typed

LEMMA PipeMore ==
  ASSUME Typed, NEW m \in Messages, Say(m)
  PROVE  /\ pipe' \in Seq(Messages)
         /\ \A i \in 1 .. Len(pipe') :
              (i \in 1 .. Len(pipe) /\ pipe'[i] = pipe[i]) \/ pipe'[i] = m
PROOF BY DEF Typed, Say

LEMMA ReaderTyped ==
  ASSUME Typed, Reader
  PROVE  Typed'
PROOF
<1>1. CASE Read
  <2> DEFINE m == Head(pipe)
             taken == m.type = "answer" /\ Matches(m) /\ pending.answer = "none"
             ended == m.type = "completed" /\ Accepts(m)
  <2>1. m \in Messages /\ Tail(pipe) \in Seq(Messages)
    BY <1>1, PipeRest DEF Read
  <2>2. /\ pending' = IF taken THEN [pending EXCEPT !.answer = IF m.ok THEN "ok" ELSE "bad"]
                      ELSE pending
        /\ event' = IF ended THEN [event EXCEPT ![m.job] = m.event] ELSE event
        /\ fatal' = (fatal \/ ~(taken \/ ended))
        /\ reader' = IF fatal' THEN "stopping" ELSE "reading"
        /\ pipe' = IF fatal' THEN <<>> ELSE Tail(pipe)
    BY <1>1 DEF Read
  <2>3. m.type = "completed" => m.job \in Jobs /\ m.event \in Events
    BY <2>1, MessageKinds
  <2> HIDE DEF m
  <2>4. pending' \in [id : 0 .. lastId, answer : {"none", "ok", "bad"}]
    BY <2>2 DEF Typed, TypeOK
  <2>5. event' \in [Jobs -> Events \cup {NoEvent}]
    BY <2>2, <2>3 DEF Typed, TypeOK
  <2>6. fatal' \in BOOLEAN
    BY <2>2
  <2>7. pipe' \in Seq(Messages)
    BY <2>1, <2>2
  <2>8. reader' \in {"stopping", "reading"}
    BY <2>2
  <2> QED
    BY <1>1, <2>4, <2>5, <2>6, <2>7, <2>8 DEF Read, Typed, TypeOK, envVars, receiptVars
<1>2. CASE EndOfOutput
  <2>1. fatal' \in BOOLEAN /\ reader' \in {"expected", "unexpected"}
    BY <1>2 DEF EndOfOutput
  <2> QED
    BY <1>2, <2>1
       DEF EndOfOutput, Typed, TypeOK, envVars, receiptVars, jobVars, serverVars
<1>3. CASE ReaderReports
  <2>1. sourceClosed' \in {"no", "expected", "unexpected"} /\ reader' = "ended"
    BY <1>3 DEF ReaderReports, ReportSourceClosed, Typed, TypeOK
  <2> QED
    BY <1>3, <2>1
       DEF ReaderReports, Typed, TypeOK, envVars, receiptVars, jobVars, serverVars
<1> QED
  BY <1>1, <1>2, <1>3 DEF Reader

\* What the app-server does: it speaks or exits, and answers or ends a turn before.
LEMMA ServerEffect ==
  ASSUME Typed, Server
  PROVE  /\ UNCHANGED <<main, jobVars, receiptVars, clientVars, envVars>>
         /\ alive /\ alive' \in BOOLEAN /\ noise' \in Nat
         /\ asked' \subseteq asked
         /\ served' \in [Jobs -> Outcomes \cup {"none", "running"}]
         /\ \A j \in Jobs : served'[j] = served[j] \/ served[j] = "running"
         /\ \/ UNCHANGED pipe
            \/ \E m \in Messages : /\ Say(m)
                                   /\ m.type = "answer" => m.id \in (1 .. lastId) \ asked'
                                   /\ m.type = "completed" /\ m.event.turn = "own" =>
                                        served'[m.job] = m.event.outcome
PROOF
<1>1. /\ noise \in Nat /\ asked \subseteq 1 .. lastId /\ lastId \in Nat /\ alive \in BOOLEAN
      /\ served \in [Jobs -> Outcomes \cup {"none", "running"}]
  BY DEF Typed, TypeOK
<1>2. ASSUME NEW n \in asked, NEW ok \in BOOLEAN, ServerAnswers(n, ok)
      PROVE  /\ Answer(n, ok) \in Messages /\ Say(Answer(n, ok))
             /\ n \in (1 .. lastId) \ asked' /\ asked' \subseteq asked
             /\ noise' \in Nat /\ alive
             /\ UNCHANGED <<main, jobVars, receiptVars, clientVars, envVars, alive, served>>
  <2>1. n \in Nat
    BY <1>1
  <2>2. Answer(n, ok) \in Messages
    BY <2>1 DEF Answer, Messages
  <2> QED
    BY <1>1, <1>2, <2>2 DEF ServerAnswers
<1>3. ASSUME NEW j \in Jobs, NEW outcome \in Outcomes, TurnEnds(j, outcome)
      PROVE  \E m \in Messages :
               /\ m = Completed(j, [turn |-> "own", outcome |-> outcome]) /\ Say(m)
               /\ served' = [served EXCEPT ![j] = outcome] /\ served[j] = "running" /\ alive
               /\ UNCHANGED <<main, jobVars, receiptVars, clientVars, envVars, alive, asked, noise>>
  <2>1. Completed(j, [turn |-> "own", outcome |-> outcome]) \in Messages
    BY DEF Completed, Messages, Events
  <2> QED
    BY <1>3, <2>1 DEF TurnEnds
<1>4. ASSUME ServerErrs
      PROVE  /\ UNCHANGED <<main, jobVars, receiptVars, clientVars, envVars, alive, asked, served>>
             /\ noise' \in Nat /\ alive
             /\ \E m \in Messages : /\ Say(m)
                                    /\ m.type = "answer" => m.id \in (1 .. lastId) \ asked
                                    /\ m.type = "completed" /\ m.event.turn = "own" =>
                                         served[m.job] = m.event.outcome
  <2>1. CASE Say(Garbage)
    <3>1. Garbage \in Messages /\ Garbage.type = "garbage"
      BY DEF Messages, Garbage
    <3> QED
      BY <1>1, <1>4, <2>1, <3>1 DEF ServerErrs
  <2>2. ASSUME NEW n \in 1 .. lastId, n \notin asked, Say(Answer(n, TRUE))
        PROVE  \E m \in Messages : /\ Say(m)
                                   /\ m.type = "answer" => m.id \in (1 .. lastId) \ asked
                                   /\ m.type # "completed"
    <3>1. n \in Nat /\ TRUE \in BOOLEAN
      BY <1>1
    <3>2. Answer(n, TRUE) \in Messages
      BY <3>1 DEF Answer, Messages
    <3>3. Answer(n, TRUE).id = n /\ Answer(n, TRUE).type = "answer"
      BY DEF Answer
    <3> QED
      BY <2>2, <3>2, <3>3
  <2>3. ASSUME NEW j \in Jobs, NEW o \in Outcomes,
               Say(Completed(j, [turn |-> "other", outcome |-> o]))
        PROVE  \E m \in Messages : /\ Say(m) /\ m.type = "completed"
                                   /\ m.event.turn = "other"
    <3> DEFINE m == Completed(j, [turn |-> "other", outcome |-> o])
    <3>1. m \in Messages
      BY DEF Completed, Messages, Events
    <3>2. m.type = "completed" /\ m.event.turn = "other"
      BY DEF Completed
    <3> QED
      BY <2>3, <3>1, <3>2
  <2>4. ASSUME NEW j \in Jobs, served[j] \in Outcomes,
               Say(Completed(j, [turn |-> "own", outcome |-> served[j]]))
        PROVE  \E m \in Messages : /\ Say(m) /\ m.type = "completed"
                                   /\ served[m.job] = m.event.outcome
    <3> DEFINE m == Completed(j, [turn |-> "own", outcome |-> served[j]])
    <3>1. m \in Messages
      BY <2>4 DEF Completed, Messages, Events
    <3>2. m.type = "completed" /\ m.job = j /\ m.event.outcome = served[j]
      BY DEF Completed
    <3> QED
      BY <2>4, <3>1, <3>2
  <2>5. \/ Say(Garbage)
        \/ \E n \in 1 .. lastId : n \notin asked /\ Say(Answer(n, TRUE))
        \/ \E j \in Jobs, o \in Outcomes : Say(Completed(j, [turn |-> "other", outcome |-> o]))
        \/ \E j \in Jobs : served[j] \in Outcomes
             /\ Say(Completed(j, [turn |-> "own", outcome |-> served[j]]))
    BY <1>4 DEF ServerErrs
  <2>6. \E m \in Messages : /\ Say(m)
                            /\ m.type = "answer" => m.id \in (1 .. lastId) \ asked
                            /\ m.type = "completed" /\ m.event.turn = "own" =>
                                 served[m.job] = m.event.outcome
    <3>1. CASE \E j \in Jobs, o \in Outcomes :
                 Say(Completed(j, [turn |-> "other", outcome |-> o]))
      BY <2>3, <3>1
    <3>2. CASE \E j \in Jobs : served[j] \in Outcomes
                 /\ Say(Completed(j, [turn |-> "own", outcome |-> served[j]]))
      BY <2>4, <3>2
    <3> QED
      BY <2>1, <2>2, <2>5, <3>1, <3>2
  <2> QED
    BY <1>1, <1>4, <2>6 DEF ServerErrs
<1>5. CASE \E n \in asked, ok \in BOOLEAN : ServerAnswers(n, ok)
  <2>1. PICK n \in asked, ok \in BOOLEAN : ServerAnswers(n, ok)
    BY <1>5
  <2>2. /\ Answer(n, ok).id = n /\ Answer(n, ok).type = "answer"
    BY DEF Answer
  <2> QED
    BY <1>1, <1>2, <2>1, <2>2
<1>6. CASE \E j \in Jobs, o \in Outcomes : TurnEnds(j, o)
  <2>1. PICK j \in Jobs, o \in Outcomes : TurnEnds(j, o)
    BY <1>6
  <2>2. PICK m \in Messages :
               /\ m = Completed(j, [turn |-> "own", outcome |-> o]) /\ Say(m)
               /\ served' = [served EXCEPT ![j] = o] /\ served[j] = "running" /\ alive
               /\ UNCHANGED <<main, jobVars, receiptVars, clientVars, envVars, alive, asked, noise>>
    BY <1>3, <2>1
  <2>3. m.type = "completed" /\ m.job = j /\ m.event.outcome = o
    BY <2>2 DEF Completed
  <2> QED
    BY <1>1, <2>2, <2>3
<1>7. CASE ServerErrs
  BY <1>1, <1>4, <1>7
<1>8. CASE ServerExits
  <2>1. /\ UNCHANGED <<main, jobVars, receiptVars, clientVars, envVars>>
        /\ alive /\ alive' = FALSE /\ noise' = noise + 1
        /\ UNCHANGED asked /\ UNCHANGED served /\ UNCHANGED pipe
    BY <1>8 DEF ServerExits
  <2>2. alive' \in BOOLEAN
    BY <2>1
  <2>3. /\ noise' \in Nat /\ asked' \subseteq asked
        /\ served' \in [Jobs -> Outcomes \cup {"none", "running"}]
        /\ \A j \in Jobs : served'[j] = served[j] \/ served[j] = "running"
    BY <1>1, <2>1
  <2> QED
    BY <2>1, <2>2, <2>3
<1> QED
  BY <1>5, <1>6, <1>7, <1>8 DEF Server

LEMMA ServerTyped ==
  ASSUME Typed, Server
  PROVE  Typed'
PROOF
<1>1. pipe' \in Seq(Messages)
  BY ServerEffect, PipeMore DEF Typed
<1> QED
  BY <1>1, ServerEffect DEF Typed, TypeOK, jobVars, receiptVars, clientVars, envVars

LEMMA TypedStep ==
  ASSUME Typed, Started, [Next]_vars
  PROVE  Typed'
PROOF
<1>1. CASE Signal
  BY <1>1 DEF Signal, Typed, TypeOK, jobVars, receiptVars, clientVars, serverVars
<1>2. CASE DeadlinePasses
  BY <1>2 DEF DeadlinePasses, Typed, TypeOK, jobVars, receiptVars, clientVars, serverVars
<1>3. CASE UNCHANGED vars
  BY <1>3 DEF vars, Typed, TypeOK, jobVars, receiptVars, clientVars, envVars, serverVars
<1> QED
  BY <1>1, <1>2, <1>3, MainStepTyped, ReaderTyped, ServerTyped DEF Next

----------------------------------------------------------------------------
(* The way of the main thread.                                               *)

Flow ==
  \/ At("route-authorization") /\ (To("raised") \/ Round("route-authorization", "open"))
  \/ At("open") /\ To("initialize")
  \/ (At("initialize") \/ At("submit")) /\ To("await")
  \/ At("await") /\ To(Answered[main.kind])
  \/ At("workload") /\ To("thread-start-intent")
  \/ At("thread-start-intent") /\ Asks("thread")
  \/ At("thread-start-response") /\ Round("workload", "turn-start-intent")
  \/ At("turn-start-intent") /\ Asks("turn")
  \/ At("turn-start-response") /\ To("turn-running")
  \/ At("turn-running") /\ To("process")
  \/ PassRound
  \/ At("check") /\ ((AllSettled /\ To("linger")) \/ To("interrupt") \/ To("wait"))
  \/ At("interrupt") /\ (Round("interrupt", "grace-check") \/ Asks("interrupt"))
  \/ At("interrupt-response") /\ Round("interrupt", "grace-check")
  \/ At("grace-check") /\ (To("grace") \/ To("finish"))
  \/ At("finish") /\ FinishRound
  \/ At("linger") /\ To("close")
  \/ At("close") /\ To("report")
  \/ At("report") /\ ((main.escaped /\ To("raised")) \/ (~main.escaped /\ To("outcome")))
  \/ At("outcome") /\ Round("outcome", "returned")
  \/ Raises /\ main.at \notin {"grace-check", "close", "report", "returned", "raised"}

LEMMA RunFlow ==
  ASSUME Typed, Run
  PROVE  Moves /\ Flow
PROOF
<1>1. CASE Refuse
  BY <1>1, GotoMoves DEF Refuse, Labels, Flow
<1>2. CASE Authorize
  BY <1>2, AuthorizeEffect DEF Flow, At
<1>3. CASE Open
  BY <1>3, OpenEffect DEF Flow, At
<1>4. CASE Submit
  <2>1. (At("initialize") \/ At("submit")) /\ Moves /\ (Raises \/ To("await"))
    BY <1>4, SubmitEffect DEF To
  <2> QED
    BY <2>1 DEF Flow, At
<1>5. CASE Await
  BY <1>5, AwaitEffect DEF Flow, At
<1>6. CASE Workload
  BY <1>6, WorkloadEffect DEF Flow, At, Fails
<1>7. CASE ThreadStartIntent
  BY <1>7, ThreadStartIntentEffect DEF Flow, At, Fails
<1>8. CASE ThreadStartResponse
  BY <1>8, ThreadStartResponseEffect DEF Flow, At
<1>9. CASE TurnStartIntent
  BY <1>9, TurnStartIntentEffect DEF Flow, At, Fails
<1>10. CASE TurnStartResponse
  BY <1>10, TurnStartResponseEffect DEF Flow, At
<1>11. CASE TurnRunning
  BY <1>11, TurnRunningEffect DEF Flow, At
<1>12. CASE Pass
  BY <1>12, PassEffect DEF Flow
<1>13. CASE Check
  BY <1>13, CheckEffect DEF Flow, At
<1>14. CASE Interrupt
  BY <1>14, InterruptEffect DEF Flow, At
<1>15. CASE InterruptResponse
  BY <1>15, InterruptResponseEffect DEF Flow, At
<1>16. CASE GraceGoesOn \/ GraceOver
  BY <1>16, GotoMoves DEF GraceGoesOn, GraceOver, Labels, Flow
<1>17. CASE Finish
  BY <1>17, FinishEffect DEF Flow, At
<1>18. CASE Linger
  BY <1>18, LingerEffect DEF Flow, At
<1>19. CASE Close
  BY <1>19, GotoMoves DEF Close, Labels, Flow
<1>20. CASE Report
  BY <1>20, ReportEffect DEF Flow
<1>21. CASE Outcome
  BY <1>21, OutcomeEffect DEF Flow, At
<1> QED
  BY <1>1, <1>2, <1>3, <1>4, <1>5, <1>6, <1>7, <1>8, <1>9, <1>10, <1>11, <1>12, <1>13,
     <1>14, <1>15, <1>16, <1>17, <1>18, <1>19, <1>20, <1>21 DEF Run

\* What a step of the main thread does to the registered threads and the turns that
\* were asked for.
LEMMA RunStarts ==
  ASSUME Typed, Started, Run
  PROVE  /\ UNCHANGED jobs /\ UNCHANGED event /\ UNCHANGED pipe
         /\ registered \subseteq registered'
         /\ At("thread-start-response") => main.job \in registered'
         /\ \/ UNCHANGED served
            \/ /\ At("submit") /\ main.kind = "turn" /\ main'.at = "await"
               /\ main'.kind = "turn" /\ main'.job = main.job
               /\ served' = [served EXCEPT ![main.job] = "running"]
PROOF
<1>1. CASE Submit
  BY <1>1, SubmitEffect DEF Submit, jobVars, Started, At, Keeps
<1>2. CASE ~Submit
  BY <1>2
     DEF Run, Refuse, Authorize, Open, Await, Workload, ThreadStartIntent,
         ThreadStartResponse, TurnStartIntent, TurnStartResponse, TurnRunning, Pass,
         Check, Interrupt, InterruptResponse, GraceGoesOn, GraceOver, Finish, Linger,
         Close, Report, Outcome, jobVars, serverVars, At
<1> QED
  BY <1>1, <1>2

\* What the other steps leave.
LEMMA OthersFrame ==
  ASSUME Typed, Reader \/ Server \/ Signal \/ DeadlinePasses \/ UNCHANGED vars
  PROVE  /\ UNCHANGED <<main, jobs, registered, turn, processed, reported>>
         /\ UNCHANGED receiptVars
         /\ \A j \in Jobs : served'[j] = served[j] \/ served[j] = "running"
PROOF
<1>1. CASE Reader
  BY <1>1 DEF Reader, Read, EndOfOutput, ReaderReports, jobVars, serverVars, receiptVars
<1>2. CASE Server
  BY <1>2, ServerEffect DEF jobVars
<1>3. CASE Signal \/ DeadlinePasses \/ UNCHANGED vars
  BY <1>3 DEF Signal, DeadlinePasses, vars, jobVars, serverVars, receiptVars
<1> QED
  BY <1>1, <1>2, <1>3

LEMMA StartedStep ==
  ASSUME Typed, Started, [Next]_vars
  PROVE  Started'
PROOF
<1>1. CASE Run
  <2>1. Moves /\ Flow
    BY <1>1, RunFlow
  <2>2. /\ UNCHANGED jobs /\ registered \subseteq registered'
        /\ At("thread-start-response") => main.job \in registered'
    BY <1>1, RunStarts
  <2>3. main \in Main /\ main.job \in 1 .. jobs /\ jobs \in 1 .. 2
    BY DEF Typed, TypeOK, Main, Jobs
  <2>4. main.kind \in {"initialize", "thread", "turn", "interrupt"}
    BY <2>3 DEF Main, Kinds
  <2>5. (main'.at \in {"route-authorization", "open", "initialize"} => main'.kind = "initialize")
    BY <2>1, <2>3, <2>4
       DEF Flow, Raises, To, Round, Asks, Keeps, PassRound, FinishRound, At, Answered, Started
  <2>6. StartsThreads' /\ ~At("route-authorization")' =>
          \A k \in 1 .. jobs' : k < main'.job => k \in registered'
    BY <2>1, <2>2, <2>3, <2>4
       DEF Flow, Raises, To, Round, Asks, Keeps, PassRound, FinishRound, At, Answered,
           Started, StartsThreads, Moves
  <2>7. TurnNotAsked' \/ TurnAsked' => 1 .. jobs' \subseteq registered'
    BY <2>1, <2>2, <2>3, <2>4
       DEF Flow, Raises, To, Round, Asks, Keeps, PassRound, FinishRound, At, Answered,
           Started, StartsThreads, TurnNotAsked, TurnAsked, Moves
  <2> QED
    BY <2>5, <2>6, <2>7 DEF Started
<1>2. CASE ~Run
  BY <1>2, OthersFrame DEF Next, Started, StartsThreads, TurnNotAsked, TurnAsked, At
<1> QED
  BY <1>1, <1>2

LEMMA UnaskedStep ==
  ASSUME Typed, Started, Unasked, [Next]_vars
  PROVE  Unasked'
PROOF
<1>1. CASE Run
  <2>1. Moves /\ Flow
    BY <1>1, RunFlow
  <2>2. /\ UNCHANGED jobs
        /\ \/ UNCHANGED served
           \/ /\ At("submit") /\ main.kind = "turn" /\ main'.at = "await"
              /\ main'.kind = "turn" /\ main'.job = main.job
              /\ served' = [served EXCEPT ![main.job] = "running"]
    BY <1>1, RunStarts
  <2>3. /\ main \in Main /\ main.job \in 1 .. jobs /\ jobs \in 1 .. 2
        /\ served \in [Jobs -> Outcomes \cup {"none", "running"}]
    BY DEF Typed, TypeOK, Main, Jobs
  <2>4. main.kind \in {"initialize", "thread", "turn", "interrupt"}
    BY <2>3 DEF Main, Kinds
  <2>5. CASE UNCHANGED served
    <3>1. StartsThreads' => StartsThreads
      BY <2>1, <2>3, <2>4
         DEF Flow, Raises, To, Round, Asks, Keeps, PassRound, FinishRound, At, Answered,
             Started, StartsThreads
    <3>2. TurnNotAsked' =>
            \/ StartsThreads \/ (TurnNotAsked /\ main'.job = main.job)
            \/ TurnAsked /\ main'.job = main.job + 1
      BY <2>1, <2>3, <2>4
         DEF Flow, Raises, To, Round, Asks, Keeps, PassRound, FinishRound, At, Answered,
             Started, StartsThreads, TurnNotAsked, TurnAsked
    <3>3. TurnAsked' => (TurnAsked \/ TurnNotAsked) /\ main'.job = main.job
      BY <2>1, <2>3, <2>4
         DEF Flow, Raises, To, Round, Asks, Keeps, PassRound, FinishRound, At, Answered,
             Started, StartsThreads, TurnNotAsked, TurnAsked
    <3> QED
      BY <2>3, <2>5, <3>1, <3>2, <3>3 DEF Unasked, Jobs
  <2>6. CASE /\ At("submit") /\ main.kind = "turn" /\ main'.at = "await"
             /\ main'.kind = "turn" /\ main'.job = main.job
             /\ served' = [served EXCEPT ![main.job] = "running"]
    <3>1. TurnNotAsked /\ TurnAsked' /\ ~TurnNotAsked' /\ ~StartsThreads'
      BY <2>6 DEF TurnNotAsked, TurnAsked, StartsThreads, At
    <3> QED
      BY <2>3, <2>6, <3>1 DEF Unasked, Jobs
  <2> QED
    BY <2>2, <2>5, <2>6
<1>2. CASE ~Run
  <2>1. /\ UNCHANGED <<main, jobs>>
        /\ \A j \in Jobs : served'[j] = served[j] \/ served[j] = "running"
    BY <1>2, OthersFrame DEF Next
  <2> QED
    BY <2>1 DEF Unasked, StartsThreads, TurnNotAsked, TurnAsked, At
<1> QED
  BY <1>1, <1>2

----------------------------------------------------------------------------
(* Answers and the ends of turns.                                            *)

\* What is genuine stays so while no request is asked again and no end is undone.
LEMMA PipeStays ==
  ASSUME Typed, PipeGenuine,
         lastId' \in Nat, lastId <= lastId',
         \A n \in 1 .. lastId : n \in asked' => n \in asked,
         \A j \in Jobs : served[j] \in Outcomes => served'[j] = served[j],
         \/ pipe' = pipe \/ pipe' = <<>>
         \/ pipe # <<>> /\ pipe' = Tail(pipe)
         \/ \E m \in Messages : Say(m) /\ Genuine(m)'
  PROVE  PipeGenuine'
PROOF
<1>1. \A i \in 1 .. Len(pipe) : pipe[i] \in Messages
  BY DEF Typed
<1>2. ASSUME NEW m \in Messages, Genuine(m)
      PROVE  /\ m.type = "answer" => m.id \in (1 .. lastId') \ asked'
             /\ m.type = "completed" /\ m.event.turn = "own" =>
                  served'[m.job] = m.event.outcome
  <2>1. m.type = "completed" => m.job \in Jobs /\ m.event \in Events
    BY MessageKinds
  <2>2. m.type = "completed" => m.event.outcome \in Outcomes
    BY <2>1 DEF Events
  <2>3. lastId \in Nat
    BY DEF Typed, TypeOK
  <2> QED
    BY <1>2, <2>1, <2>2, <2>3 DEF Genuine
<1>3. CASE pipe' = pipe
  BY <1>1, <1>2, <1>3 DEF PipeGenuine, Genuine
<1>4. CASE pipe' = <<>>
  BY <1>4 DEF PipeGenuine
<1>5. CASE pipe # <<>> /\ pipe' = Tail(pipe)
  BY <1>1, <1>2, <1>5, PipeRest DEF PipeGenuine, Genuine
<1>6. CASE \E m \in Messages : Say(m) /\ Genuine(m)'
  <2>1. PICK m \in Messages : Say(m) /\ Genuine(m)'
    BY <1>6
  <2>2. \A i \in 1 .. Len(pipe') :
          (i \in 1 .. Len(pipe) /\ pipe'[i] = pipe[i]) \/ pipe'[i] = m
    BY <2>1, PipeMore
  <2> QED
    BY <1>1, <1>2, <2>1, <2>2 DEF PipeGenuine, Genuine
<1> QED
  BY <1>3, <1>4, <1>5, <1>6

\* What a step of the main thread asks for.
LEMMA RunAsks ==
  ASSUME Typed, Run
  PROVE  \/ UNCHANGED <<lastId, asked, pending>>
         \/ UNCHANGED <<lastId, asked>> /\ pending'.answer = "none"
         \/ /\ lastId' = lastId + 1 /\ asked' = asked \cup {lastId + 1}
            /\ pending'.answer = "none"
PROOF
<1>1. CASE Submit
  <2>1. [id |-> lastId + 1, answer |-> "none"].answer = "none"
    OBVIOUS
  <2> QED
    BY <1>1, <2>1, SubmitEffect
<1>2. CASE Await
  BY <1>2, AwaitEffect DEF Await, serverVars
<1>3. CASE ~Submit /\ ~Await
  BY <1>3
     DEF Run, Refuse, Authorize, Open, Workload, ThreadStartIntent,
         ThreadStartResponse, TurnStartIntent, TurnStartResponse, TurnRunning, Pass,
         Check, Interrupt, InterruptResponse, GraceGoesOn, GraceOver, Finish, Linger,
         Close, Report, Outcome, clientVars, serverVars
<1> QED
  BY <1>1, <1>2, <1>3

LEMMA AnswersStep ==
  ASSUME Typed, Started, Unasked, AnswersOwn, [Next]_vars
  PROVE  AnswersOwn'
PROOF
<1>1. /\ lastId \in Nat /\ asked \subseteq 1 .. lastId
      /\ served \in [Jobs -> Outcomes \cup {"none", "running"}]
      /\ pending \in [id : 0 .. lastId, answer : {"none", "ok", "bad"}]
  BY DEF Typed, TypeOK
<1>2. "none" \notin Outcomes /\ "running" \notin Outcomes
  OBVIOUS
<1>3. CASE Run
  <2>1. /\ UNCHANGED pipe
        /\ \A j \in Jobs : served[j] \in Outcomes => served'[j] = served[j]
    <3>1. main.job \in Jobs
      BY DEF Typed, TypeOK, Main
    <3>2. At("submit") /\ main.kind = "turn" => served[main.job] = "none"
      BY <3>1 DEF Unasked, TurnNotAsked, Jobs
    <3> QED
      BY <1>1, <1>2, <1>3, <3>1, <3>2, RunStarts
  <2>2. \/ UNCHANGED <<lastId, asked, pending>>
        \/ UNCHANGED <<lastId, asked>> /\ pending'.answer = "none"
        \/ /\ lastId' = lastId + 1 /\ asked' = asked \cup {lastId + 1}
           /\ pending'.answer = "none"
    BY <1>3, RunAsks
  <2>3. /\ lastId' \in Nat /\ lastId <= lastId'
        /\ \A n \in 1 .. lastId : n \in asked' => n \in asked
    BY <1>1, <2>2
  <2>4. PipeGenuine'
    BY <2>1, <2>3, PipeStays DEF AnswersOwn
  <2>5. AnswerIsItsOwn'
    BY <2>2 DEF AnswersOwn, AnswerIsItsOwn
  <2> QED
    BY <2>4, <2>5 DEF AnswersOwn
<1>4. CASE Read
  <2> DEFINE m == Head(pipe)
  <2>1. m \in Messages /\ Genuine(m) /\ pipe # <<>>
    BY <1>4, PipeRest DEF Read, AnswersOwn, PipeGenuine
  <2>2. /\ pending' = pending \/ (m.type = "answer" /\ pending'.id = m.id)
        /\ pipe' = <<>> \/ pipe' = Tail(pipe)
        /\ UNCHANGED <<lastId, asked, served>>
    <3>1. m.type = "answer" /\ Matches(m) =>
            [pending EXCEPT !.answer = IF m.ok THEN "ok" ELSE "bad"].id = m.id
      BY <1>1 DEF Matches
    <3> QED
      BY <1>4, <3>1 DEF Read
  <2>3. PipeGenuine'
    BY <1>1, <2>1, <2>2, PipeStays DEF AnswersOwn
  <2>4. AnswerIsItsOwn'
    BY <2>1, <2>2 DEF AnswersOwn, AnswerIsItsOwn, Genuine
  <2> QED
    BY <2>3, <2>4 DEF AnswersOwn
<1>5. CASE Server
  <2>1. UNCHANGED <<lastId, pending>> /\ asked' \subseteq asked
    BY <1>5, ServerEffect DEF clientVars
  <2>2. \A j \in Jobs : served[j] \in Outcomes => served'[j] = served[j]
    BY <1>2, <1>5, ServerEffect
  <2>3. \/ UNCHANGED pipe
        \/ \E m \in Messages : Say(m) /\ Genuine(m)'
    BY <1>5, <2>1, ServerEffect DEF Genuine
  <2>4. PipeGenuine'
    BY <1>1, <2>1, <2>2, <2>3, PipeStays DEF AnswersOwn
  <2>5. AnswerIsItsOwn'
    BY <2>1 DEF AnswersOwn, AnswerIsItsOwn
  <2> QED
    BY <2>4, <2>5 DEF AnswersOwn
<1>6. CASE EndOfOutput \/ ReaderReports \/ Signal \/ DeadlinePasses \/ UNCHANGED vars
  <2>1. UNCHANGED <<pending, lastId, asked, pipe, served>>
    BY <1>6 DEF EndOfOutput, ReaderReports, Signal, DeadlinePasses, vars, clientVars, serverVars
  <2> QED
    BY <2>1 DEF AnswersOwn, AnswerIsItsOwn, PipeGenuine, Genuine
<1> QED
  BY <1>3, <1>4, <1>5, <1>6 DEF Next, Reader

\* What a step of the main thread reports of a job.
LEMMA RunReports ==
  ASSUME Typed, Run, NEW j \in Jobs, reported'[j] \in Outcomes
  PROVE  \/ reported'[j] = reported[j]
         \/ event[j].turn = "own" /\ reported'[j] = event[j].outcome
PROOF
<1>1. main.job \in Jobs /\ reported \in [Jobs -> Statuses]
  BY DEF Typed, TypeOK, Main, Statuses
<1>2. /\ "running" \notin Outcomes /\ "not_started" \notin Outcomes
      /\ ControllerState(main.job) \notin Outcomes
  BY DEF ControllerState
<1>3. CASE TurnRunning
  BY <1>1, <1>2, <1>3 DEF TurnRunning
<1>4. CASE Outcome
  BY <1>1, <1>2, <1>4 DEF Outcome
<1>5. CASE Pass
  BY <1>1, <1>2, <1>5, PassEffect DEF Settles, LeavesAlone, Mismatch
<1>6. CASE Finish
  BY <1>1, <1>2, <1>6, FinishEffect DEF Settles, LeavesAlone, Mismatch
<1>7. CASE ~TurnRunning /\ ~Outcome /\ ~Pass /\ ~Finish
  BY <1>7
     DEF Run, Refuse, Authorize, Open, Submit, Await, Workload, ThreadStartIntent,
         ThreadStartResponse, TurnStartIntent, TurnStartResponse,
         Check, Interrupt, InterruptResponse, GraceGoesOn, GraceOver, Linger,
         Close, Report, jobVars
<1> QED
  BY <1>3, <1>4, <1>5, <1>6, <1>7

LEMMA HonestStep ==
  ASSUME Typed, Started, Unasked, AnswersOwn, Honest, [Next]_vars
  PROVE  Honest'
PROOF
<1>1. /\ served \in [Jobs -> Outcomes \cup {"none", "running"}]
      /\ event \in [Jobs -> Events \cup {NoEvent}]
      /\ reported \in [Jobs -> Statuses] /\ main.job \in Jobs
  BY DEF Typed, TypeOK, Statuses, Main
<1>2. "none" \notin Outcomes /\ "running" \notin Outcomes
  OBVIOUS
<1>3. \A j \in Jobs : event[j].turn = "own" => event[j].outcome \in Outcomes
  BY <1>1 DEF Events, NoEvent
<1>4. CASE Run
  <2>1. At("submit") /\ main.kind = "turn" => served[main.job] = "none"
    BY <1>1 DEF Unasked, TurnNotAsked, Jobs
  <2>2. \A j \in Jobs : event[j].turn = "own" => served'[j] = event[j].outcome
    BY <1>1, <1>2, <1>3, <1>4, <2>1, RunStarts DEF Honest
  <2>3. event' = event
    BY <1>4, RunStarts
  <2> QED
    BY <1>4, <2>2, <2>3, RunReports DEF Honest
<1>5. CASE Read
  <2> DEFINE m == Head(pipe)
             ended == m.type = "completed" /\ Accepts(m)
  <2>1. m \in Messages /\ Genuine(m)
    BY <1>5, PipeRest DEF Read, AnswersOwn, PipeGenuine
  <2>2. /\ event' = IF ended THEN [event EXCEPT ![m.job] = m.event] ELSE event
        /\ UNCHANGED <<served, reported>>
    BY <1>5 DEF Read
  <2>3. m.type = "completed" => m.job \in Jobs
    BY <2>1, MessageKinds
  <2>4. NoEvent.turn # "own"
    BY DEF NoEvent
  <2> QED
    BY <1>1, <2>1, <2>2, <2>3, <2>4 DEF Honest, Genuine, Accepts
<1>6. CASE ~Run /\ ~Read
  <2>1. UNCHANGED <<event, reported>>
    BY <1>6, ServerEffect
       DEF Next, Reader, EndOfOutput, ReaderReports, Signal, DeadlinePasses, vars, jobVars
  <2>2. \A j \in Jobs : served'[j] = served[j] \/ served[j] = "running"
    BY <1>6, OthersFrame DEF Next
  <2> QED
    BY <1>2, <1>3, <2>1, <2>2 DEF Honest
<1> QED
  BY <1>4, <1>5, <1>6

----------------------------------------------------------------------------
(* The ends of jobs.                                                         *)

EndStages == {"turn-terminal", "controller-terminal"}

LEMMA WrittenChain ==
  ASSUME Typed, NEW stage \in Stages, Written(stage), NEW j \in Jobs
  PROVE  /\ j # main.job => chain'[j] = chain[j]
         /\ j = main.job =>
              /\ DOMAIN chain'[j] = DOMAIN chain[j] \cup {Len(chain[j]) + 1}
              /\ Len(chain'[j]) = Len(chain[j]) + 1
              /\ Len(chain[j]) + 1 \notin DOMAIN chain[j]
              /\ chain'[j][Len(chain[j]) + 1] = stage
              /\ \A i \in DOMAIN chain[j] : chain'[j][i] = chain[j][i]
PROOF
<1>1. chain \in [Jobs -> Seq(Stages)] /\ main.job \in Jobs
  BY DEF Typed, TypeOK, Main
<1>2. CASE j # main.job
  BY <1>1, <1>2 DEF Written
<1>3. CASE j = main.job
  <2>1. chain[j] \in Seq(Stages) /\ chain'[j] = Append(chain[j], stage)
    BY <1>1, <1>3 DEF Written
  <2>2. /\ DOMAIN chain[j] = 1 .. Len(chain[j]) /\ Len(chain[j]) \in Nat
        /\ DOMAIN Append(chain[j], stage) = 1 .. (Len(chain[j]) + 1)
        /\ Len(Append(chain[j], stage)) = Len(chain[j]) + 1
        /\ Append(chain[j], stage)[Len(chain[j]) + 1] = stage
        /\ \A i \in 1 .. Len(chain[j]) : Append(chain[j], stage)[i] = chain[j][i]
    BY <2>1
  <2> QED
    BY <1>3, <2>1, <2>2
<1> QED
  BY <1>2, <1>3

LEMMA WrittenEnds ==
  ASSUME Typed, NEW stage \in Stages, Written(stage), NEW j \in Jobs
  PROVE  /\ j # main.job \/ stage \notin EndStages => Ends(j)' = Ends(j)
         /\ j = main.job /\ stage \in EndStages =>
              Ends(j)' = Ends(j) \cup {Len(chain[j]) + 1}
PROOF
<1>1. CASE j # main.job
  BY <1>1, WrittenChain DEF Ends
<1>2. CASE j = main.job
  BY <1>2, WrittenChain DEF Ends, EndStages
<1> QED
  BY <1>1, <1>2

\* A step of the main thread writes no receipt, one that ends nothing, or the one that
\* settles its job.
LEMMA RunWrites ==
  ASSUME Typed, Run
  PROVE  /\ \/ UNCHANGED <<chain, processed>>
            \/ \E stage \in Stages \ EndStages : Written(stage) /\ UNCHANGED processed
            \/ \E stage \in EndStages :
                 /\ Written(stage) /\ main.job \notin processed
                 /\ processed' = processed \cup {main.job}
         /\ At("outcome") => Written("outcome") \/ main'.at = "raised"
PROOF
<1>1. /\ {"route-authorization", "workload", "thread-start-intent", "thread-start-response",
          "turn-start-intent", "turn-start-response", "turn-running", "interrupt-intent",
          "interrupt-response", "outcome"} \subseteq Stages \ EndStages
      /\ EndStages \subseteq Stages
  BY DEF Stages, EndStages
<1>2. CASE Authorize
  BY <1>1, <1>2, AuthorizeEffect DEF Authorize, jobVars, NotWritten, At
<1>3. CASE Workload
  BY <1>1, <1>3, WorkloadEffect DEF Workload, jobVars, Fails, At
<1>4. CASE ThreadStartIntent
  BY <1>1, <1>4, ThreadStartIntentEffect DEF ThreadStartIntent, jobVars, Fails, At
<1>5. CASE ThreadStartResponse
  BY <1>1, <1>5, ThreadStartResponseEffect DEF ThreadStartResponse, NotWritten, At
<1>6. CASE TurnStartIntent
  BY <1>1, <1>6, TurnStartIntentEffect DEF TurnStartIntent, jobVars, Fails, At
<1>7. CASE TurnStartResponse
  BY <1>1, <1>7, TurnStartResponseEffect DEF TurnStartResponse, NotWritten, At
<1>8. CASE TurnRunning
  BY <1>1, <1>8, TurnRunningEffect DEF TurnRunning, NotWritten, At
<1>9. CASE Interrupt
  BY <1>1, <1>9, InterruptEffect DEF Interrupt, jobVars, NotWritten, receiptVars, At
<1>10. CASE InterruptResponse
  BY <1>1, <1>10, InterruptResponseEffect DEF InterruptResponse, jobVars, NotWritten, At
<1>11. CASE Outcome
  <2>1. main'.at = "raised" \/ Written("outcome")
    BY <1>11, OutcomeEffect DEF Raises, Interrupting, At
  <2> QED
    BY <1>1, <1>11, <2>1, OutcomeEffect DEF Outcome, NotWritten
<1>12. CASE Pass
  <2>1. ~At("outcome")
    BY <1>12, PassEffect DEF At
  <2> QED
    BY <1>1, <1>12, <2>1, PassEffect
       DEF Settles, LeavesAlone, NotWritten, receiptVars, EndStages
<1>13. CASE Finish
  <2>1. ~At("outcome")
    BY <1>13, FinishEffect DEF At
  <2> QED
    BY <1>1, <1>13, <2>1, FinishEffect
       DEF Settles, LeavesAlone, NotWritten, receiptVars, EndStages
<1>14. CASE \/ Refuse \/ Open \/ Submit \/ Await \/ Check \/ GraceGoesOn \/ GraceOver
            \/ Linger \/ Close \/ Report
  BY <1>14
     DEF Refuse, Open, Submit, Await, Check, GraceGoesOn, GraceOver, Linger,
         Close, Report, jobVars, receiptVars, At
<1> QED
  BY <1>2, <1>3, <1>4, <1>5, <1>6, <1>7, <1>8, <1>9, <1>10, <1>11, <1>12, <1>13, <1>14
     DEF Run

LEMMA SettlingStep ==
  ASSUME Typed, Settling, [Next]_vars
  PROVE  Settling'
PROOF
<1>1. CASE UNCHANGED <<chain, processed>>
  BY <1>1 DEF Settling, Ends
<1>2. ASSUME NEW stage \in Stages \ EndStages, Written(stage), UNCHANGED processed
      PROVE  Settling'
  BY <1>2, WrittenEnds DEF Settling
<1>3. ASSUME NEW stage \in EndStages, Written(stage), main.job \notin processed,
             processed' = processed \cup {main.job}
      PROVE  Settling'
  <2>1. stage \in Stages
    BY DEF Stages, EndStages
  <2>2. ASSUME NEW j \in Jobs
        PROVE  /\ j \notin processed' => Ends(j)' = {}
               /\ j \in processed' => \E i \in Ends(j)' : Ends(j)' = {i}
    <3>1. CASE j = main.job
      <4>1. Ends(j) = {}
        BY <1>3, <3>1 DEF Settling
      <4>2. Ends(j)' = {Len(chain[j]) + 1}
        BY <1>3, <2>1, <3>1, <4>1, WrittenEnds
      <4> QED
        BY <1>3, <3>1, <4>2
    <3>2. CASE j # main.job
      <4>1. Ends(j)' = Ends(j)
        BY <1>3, <2>1, <3>2, WrittenEnds
      <4> QED
        BY <1>3, <3>2, <4>1 DEF Settling
    <3> QED
      BY <3>1, <3>2
  <2> QED
    BY <2>2 DEF Settling
<1>4. CASE Run
  BY <1>1, <1>2, <1>3, <1>4, RunWrites
<1>5. CASE ~Run
  BY <1>1, <1>5, OthersFrame DEF Next, receiptVars
<1> QED
  BY <1>4, <1>5

\* Once written, an outcome is the last receipt of its job while the run writes others.
OutcomesWritten(bound) ==
  \A k \in 1 .. jobs : k < bound => chain[k][Len(chain[k])] = "outcome"

LEMMA PathStep ==
  ASSUME Typed, Started, Path, [Next]_vars
  PROVE  Path'
PROOF
<1>1. /\ main \in Main /\ main.job \in 1 .. jobs /\ jobs \in 1 .. 2
      /\ chain \in [Jobs -> Seq(Stages)] /\ processed \subseteq Jobs
  BY DEF Typed, TypeOK, Main, Jobs
<1>2. main.kind \in {"initialize", "thread", "turn", "interrupt"}
  BY <1>1 DEF Main, Kinds
<1>3. main.handler \in BOOLEAN /\ main.escaped \in BOOLEAN
  BY <1>1 DEF Main
<1>4. CASE Run
  <2>1. Moves /\ Flow
    BY <1>4, RunFlow
  <2>2. UNCHANGED jobs /\ processed \subseteq processed'
    BY <1>4, RunStarts, RunWrites
  <2>3. main'.handler => Handling'
    <3>1. CASE Raises
      BY <3>1 DEF Raises, Handling, Interrupting, At
    <3>2. CASE ~Raises
      <4>1. main'.handler = main.handler
        BY <2>1, <3>2 DEF Flow, To, Round, Asks, Keeps, PassRound, FinishRound
      <4>2. CASE Handling
        BY <1>2, <2>1, <3>2, <4>1, <4>2
           DEF Flow, To, Round, Asks, Keeps, PassRound, FinishRound, At, Answered,
               Handling, Interrupting
      <4> QED
        BY <4>1, <4>2 DEF Path
    <3> QED
      BY <3>1, <3>2
  <2>4. main'.escaped => main'.at \in {"close", "report", "raised"}
    BY <1>1, <1>2, <1>3, <2>1
       DEF Flow, Raises, To, Round, Asks, Keeps, PassRound, FinishRound, At, Answered,
           Path, Interrupting
  <2>5. main'.at \in {"check", "grace-check", "linger"} => main'.job = 1
    BY <1>1, <1>2, <1>3, <2>1
       DEF Flow, Raises, To, Round, Asks, Keeps, PassRound, FinishRound, At, Answered,
           Path, Interrupting
  <2>6. main'.at \in {"close", "report"} /\ ~main'.escaped => main'.job = 1
    BY <1>1, <1>2, <1>3, <2>1
       DEF Flow, Raises, To, Round, Asks, Keeps, PassRound, FinishRound, At, Answered,
           Path, Interrupting
  <2>7. At("finish") => Raises \/ (FinishRound /\ main.job \in processed')
    <3>1. CASE Finish
      BY <3>1, FinishEffect DEF Settles, LeavesAlone
    <3>2. CASE ~Finish /\ At("finish")
      BY <1>4, <3>2, AuthorizeEffect
         DEF Run, Refuse, Authorize, Open, Submit, Await, Workload, ThreadStartIntent,
             ThreadStartResponse, TurnStartIntent, TurnStartResponse, TurnRunning, Pass,
             Check, Interrupt, InterruptResponse, GraceGoesOn, GraceOver, Linger,
             Close, Report, Outcome, At
    <3> QED
      BY <3>1, <3>2
  <2>8. At("finish")' => \A k \in 1 .. jobs' : k < main'.job => k \in processed'
    BY <1>1, <1>2, <1>3, <2>1, <2>2, <2>7
       DEF Flow, Raises, To, Round, Asks, Keeps, PassRound, FinishRound, At, Answered,
           Path, Interrupting
  <2>9. At("linger")' => AllSettled'
    <3>1. At("linger")' => \/ At("check") /\ AllSettled
                           \/ At("finish") /\ ~Raises /\ main.job = jobs
      BY <1>1, <1>2, <1>3, <2>1
         DEF Flow, Raises, To, Round, Asks, Keeps, PassRound, FinishRound, At, Answered,
           Path, Interrupting
    <3>2. At("finish") => \A k \in 1 .. jobs : k < main.job => k \in processed
      BY DEF Path
    <3> QED
      BY <1>1, <2>2, <2>7, <3>1, <3>2 DEF AllSettled
  <2>10. main'.at \in {"close", "report", "outcome", "returned"} /\ ~main'.escaped => AllSettled'
    <3>1. main'.at \in {"close", "report", "outcome", "returned"} /\ ~main'.escaped =>
            \/ At("linger")
            \/ main.at \in {"close", "report", "outcome"} /\ ~main.escaped
            \/ At("finish") /\ ~Raises /\ main.job = jobs
      BY <1>1, <1>2, <1>3, <2>1
         DEF Flow, Raises, To, Round, Asks, Keeps, PassRound, FinishRound, At, Answered,
           Path, Interrupting
    <3>2. /\ At("finish") => \A k \in 1 .. jobs : k < main.job => k \in processed
          /\ At("linger") => AllSettled
          /\ main.at \in {"close", "report", "outcome"} /\ ~main.escaped => AllSettled
      BY DEF Path
    <3> QED
      BY <1>1, <2>2, <2>7, <3>1, <3>2 DEF AllSettled
  <2>11. main'.at \in {"outcome", "returned"} =>
           \/ At("report") /\ main'.job = 1 /\ At("outcome")'
           \/ At("outcome") /\ Round("outcome", "returned")
    BY <1>1, <1>2, <1>3, <2>1
       DEF Flow, Raises, To, Round, Asks, Keeps, PassRound, FinishRound, At, Answered,
           Path, Interrupting
  <2>12. At("outcome") /\ main'.at # "raised" =>
           \A k \in 1 .. jobs : k <= main.job => chain'[k][Len(chain'[k])] = "outcome"
    <3> SUFFICES ASSUME At("outcome"), main'.at # "raised", NEW k \in 1 .. jobs, k <= main.job
                 PROVE  chain'[k][Len(chain'[k])] = "outcome"
      OBVIOUS
    <3>1. Written("outcome") /\ k \in Jobs
      BY <1>1, <1>4, RunWrites DEF Jobs
    <3>2. CASE k = main.job
      BY <3>1, <3>2, WrittenChain DEF Stages
    <3>3. CASE k < main.job
      <4>1. chain'[k] = chain[k]
        BY <1>1, <3>1, <3>3, WrittenChain DEF Stages
      <4> QED
        BY <3>3, <4>1 DEF Path
    <3> QED
      BY <1>1, <3>2, <3>3
  <2>13. At("outcome")' =>
           \A k \in 1 .. jobs' : k < main'.job => chain'[k][Len(chain'[k])] = "outcome"
    BY <1>1, <2>2, <2>11, <2>12 DEF Round, At
  <2>14. At("returned")' => \A k \in 1 .. jobs' : chain'[k][Len(chain'[k])] = "outcome"
    BY <1>1, <2>2, <2>11, <2>12 DEF Round, At
  <2> QED
    BY <2>3, <2>4, <2>5, <2>6, <2>8, <2>9, <2>10, <2>13, <2>14 DEF Path
<1>5. CASE ~Run
  <2>1. UNCHANGED <<main, jobs, processed, chain>>
    BY <1>5, OthersFrame DEF Next, receiptVars
  <2> QED
    BY <2>1 DEF Path, Handling, Interrupting, At, AllSettled
<1> QED
  BY <1>4, <1>5

----------------------------------------------------------------------------
(* Stopping and escaping.                                                    *)

\* The end of a turn that was taken stays.
LEMMA EventStays ==
  ASSUME Typed, [Next]_vars, NEW j \in Jobs, event[j] # NoEvent
  PROVE  event'[j] = event[j]
PROOF
<1>1. CASE Read
  <2> DEFINE m == Head(pipe)
             ended == m.type = "completed" /\ Accepts(m)
  <2>1. event' = IF ended THEN [event EXCEPT ![m.job] = m.event] ELSE event
    BY <1>1 DEF Read
  <2>2. m.type = "completed" => m.job \in Jobs
    BY <1>1, PipeRest, MessageKinds DEF Read
  <2>3. event \in [Jobs -> Events \cup {NoEvent}]
    BY DEF Typed, TypeOK
  <2> QED
    BY <2>1, <2>2, <2>3 DEF Accepts
<1>2. CASE ~Read
  BY <1>2, ServerEffect
     DEF Next, Run, Refuse, Authorize, Open, Submit, Await, Workload, ThreadStartIntent,
         ThreadStartResponse, TurnStartIntent, TurnStartResponse, TurnRunning, Pass,
         Check, Interrupt, InterruptResponse, GraceGoesOn, GraceOver, Finish, Linger,
         Close, Report, Outcome, Reader, EndOfOutput, ReaderReports, Signal,
         DeadlinePasses, vars, jobVars
<1> QED
  BY <1>1, <1>2

\* Failures are counted, and a connection that has failed does not come back.
LEMMA FaultsStay ==
  ASSUME Typed, [Next]_vars
  PROVE  faults' \in Nat /\ faults <= faults'
PROOF
<1>0. faults \in Nat
  BY DEF Typed, TypeOK
<1>1. CASE ~Run
  BY <1>0, <1>1, OthersFrame DEF Next, receiptVars
<1>2. CASE Authorize \/ ThreadStartResponse \/ TurnStartResponse \/ TurnRunning
  BY <1>0, <1>2, AuthorizeEffect, ThreadStartResponseEffect, TurnStartResponseEffect,
     TurnRunningEffect DEF Written, NotWritten
<1>3. CASE Workload \/ ThreadStartIntent \/ TurnStartIntent
  BY <1>0, <1>3, WorkloadEffect, ThreadStartIntentEffect, TurnStartIntentEffect
     DEF Written, NotWritten, Fails
<1>4. CASE Interrupt \/ InterruptResponse \/ Outcome
  BY <1>0, <1>4, InterruptEffect, InterruptResponseEffect, OutcomeEffect
     DEF Written, NotWritten, receiptVars
<1>5. CASE Pass \/ Finish
  BY <1>0, <1>5, PassEffect, FinishEffect DEF Written, NotWritten, Settles, receiptVars
<1>6. CASE Open
  <2>1. UNCHANGED faults \/ faults' = faults + 1
    BY <1>6, OpenEffect
  <2> QED
    BY <1>0, <2>1
<1>7. CASE \/ Refuse \/ Submit \/ Await \/ Check \/ GraceGoesOn \/ GraceOver
           \/ Linger \/ Close \/ Report
  <2>1. faults' = faults
    BY <1>7
       DEF Refuse, Submit, Await, Check, GraceGoesOn, GraceOver, Linger, Close, Report,
           receiptVars
  <2> QED
    BY <1>0, <2>1
<1> QED
  BY <1>1, <1>2, <1>3, <1>4, <1>5, <1>6, <1>7 DEF Run

LEMMA FailedStays ==
  ASSUME Typed, [Next]_vars, Failed, ~At("open")
  PROVE  Failed'
PROOF
<1>1. CASE Submit \/ Await
  BY <1>1, SubmitEffect, AwaitEffect DEF Submit, Await, Failed, serverVars
<1>2. CASE Server
  BY <1>2, ServerEffect DEF Failed, clientVars
<1>3. CASE Reader
  BY <1>3 DEF Reader, Read, EndOfOutput, ReaderReports, Failed, serverVars
<1>4. CASE Close
  BY <1>4 DEF Close, Failed
<1>5. CASE ~Submit /\ ~Await /\ ~Server /\ ~Reader /\ ~Close
  <2>1. UNCHANGED <<fatal, alive>>
    BY <1>5
       DEF Next, Run, Refuse, Authorize, Open, Workload, ThreadStartIntent,
           ThreadStartResponse, TurnStartIntent, TurnStartResponse, TurnRunning, Pass,
           Check, Interrupt, InterruptResponse, GraceGoesOn, GraceOver, Finish, Linger,
           Report, Outcome, Signal, DeadlinePasses, vars, clientVars, serverVars
  <2> QED
    BY <2>1 DEF Failed
<1> QED
  BY <1>1, <1>2, <1>3, <1>4, <1>5

LEMMA ExcusedStays ==
  ASSUME Typed, [Next]_vars, Excused, ~At("open")
  PROVE  Excused'
PROOF
<1>1. faults \in Nat
  BY DEF Typed, TypeOK
<1> QED
  BY <1>1, FaultsStay, FailedStays DEF Excused

\* A job that was stopped, or has ended, stays so.
LEMMA StoppedStays ==
  ASSUME Typed, [Next]_vars, NEW j \in Jobs, Stopped(j)
  PROVE  Stopped(j)'
PROOF
<1>1. CASE event[j] # NoEvent
  BY <1>1, EventStays DEF Stopped
<1>2. CASE \E i \in DOMAIN chain[j] : chain[j][i] = "interrupt-intent"
  <2>1. CASE UNCHANGED chain
    BY <1>2, <2>1 DEF Stopped
  <2>2. ASSUME NEW stage \in Stages, Written(stage) PROVE Stopped(j)'
    BY <1>2, <2>2, WrittenChain DEF Stopped
  <2>3. EndStages \subseteq Stages
    BY DEF EndStages, Stages
  <2>4. CASE Run
    BY <2>1, <2>2, <2>3, <2>4, RunWrites
  <2>5. CASE ~Run
    BY <2>1, <2>5, OthersFrame DEF Next, receiptVars
  <2> QED
    BY <2>4, <2>5
<1> QED
  BY <1>1, <1>2 DEF Stopped

LEMMA TurnsStay ==
  ASSUME Typed, Run
  PROVE  UNCHANGED turn \/ TurnStartResponse
PROOF
BY DEF Run, Refuse, Authorize, Open, Submit, Await, Workload, ThreadStartIntent,
       ThreadStartResponse, TurnStartIntent, TurnRunning, Pass,
       Check, Interrupt, InterruptResponse, GraceGoesOn, GraceOver, Finish, Linger,
       Close, Report, Outcome, jobVars

Early == StartsThreads \/ TurnNotAsked \/ TurnAsked \/ main.at \in {"wait", "check"}
Late == main.at \in {"grace-check", "grace", "finish", "linger", "close"}

\* What Stopping says of a round of the interrupts, and behind them.
Rounds ==
  /\ At("interrupt") /\ ~Excused => \A j \in turn : j < main.job => Stopped(j)
  /\ Interrupting /\ ~At("interrupt") /\ ~Excused =>
       \A j \in turn : j <= main.job => Stopped(j)
  /\ Late /\ ~Excused => \A j \in turn : Stopped(j)

\* A step that starts from an error, or leaves the turns that ran stopped.
LEMMA RoundsStep ==
  ASSUME Typed, Started, Path, Stopping, Run, UNCHANGED turn, ~Excused'
  PROVE  Rounds'
PROOF
<1>1. /\ main \in Main /\ main.job \in 1 .. jobs /\ jobs \in 1 .. 2
      /\ turn \subseteq 1 .. jobs /\ turn \subseteq Jobs
  BY DEF Typed, TypeOK, Main, Jobs
<1>2. main.kind \in {"initialize", "thread", "turn", "interrupt"}
  BY <1>1 DEF Main, Kinds
<1>3. main.handler \in BOOLEAN /\ main.escaped \in BOOLEAN
  BY <1>1 DEF Main
<1>4. Moves /\ Flow /\ UNCHANGED jobs
  BY RunFlow, RunStarts
<1>5. [Next]_vars
  BY DEF Next
<1>6. \A j \in turn : Stopped(j) => Stopped(j)'
  BY <1>1, <1>5, StoppedStays
<1>7. CASE At("open")
  <2>1. Open
    BY <1>7
       DEF Run, Refuse, Authorize, Submit, Await, Workload, ThreadStartIntent,
           ThreadStartResponse, TurnStartIntent, TurnStartResponse, TurnRunning, Pass,
           Check, Interrupt, InterruptResponse, GraceGoesOn, GraceOver, Finish, Linger,
           Close, Report, Outcome, At
  <2>2. faults \in Nat
    BY DEF Typed, TypeOK
  <2>3. To("initialize")
    <3>1. CASE faults' = faults + 1
      BY <2>2, <3>1 DEF Excused
    <3> QED
      BY <2>1, <3>1, OpenEffect
  <2> QED
    BY <2>3 DEF Rounds, Late, Interrupting, At, To
<1>8. CASE At("interrupt")
  <2>1. Interrupt
    BY <1>8
       DEF Run, Refuse, Authorize, Open, Submit, Await, Workload, ThreadStartIntent,
           ThreadStartResponse, TurnStartIntent, TurnStartResponse, TurnRunning, Pass,
           Check, InterruptResponse, GraceGoesOn, GraceOver, Finish, Linger,
           Close, Report, Outcome, At
  <2>2. ~Excused
    BY <1>5, <1>8, ExcusedStays DEF At
  <2>3. \A j \in turn : j < main.job => Stopped(j)'
    BY <1>6, <1>8, <2>2 DEF Stopping
  <2>4. CASE Skips(main.job) /\ Round("interrupt", "grace-check")
    <3>1. \A j \in turn : j = main.job => Stopped(j)'
      <4>1. \A j \in turn : event[j] # NoEvent => Stopped(j)
        BY DEF Stopped
      <4> QED
        BY <1>6, <2>4, <4>1 DEF Skips
    <3> QED
      <4>1. \A j \in turn : j <= main.job => Stopped(j)'
        BY <1>1, <2>3, <3>1
      <4>2. ~Interrupting' \/ At("interrupt")'
        BY <2>4 DEF Round, Interrupting, At
      <4>3. CASE main.job < jobs /\ main'.at = "interrupt" /\ main'.job = main.job + 1
        BY <1>1, <4>1, <4>2, <4>3 DEF Rounds, Late, At
      <4>4. CASE main.job = jobs /\ main'.at = "grace-check"
        BY <1>1, <4>1, <4>2, <4>4 DEF Rounds, Late, At
      <4> QED
        BY <2>4, <4>3, <4>4 DEF Round
  <2>5. CASE Written("interrupt-intent") /\ Asks("interrupt")
    <3>1. \A j \in turn : j = main.job => Stopped(j)'
      <4>1. "interrupt-intent" \in Stages
        BY DEF Stages
      <4>2. \A j \in turn : j = main.job =>
              \E i \in DOMAIN chain'[j] : chain'[j][i] = "interrupt-intent"
        BY <1>1, <2>5, <4>1, WrittenChain
      <4> QED
        BY <4>2 DEF Stopped
    <3> QED
      BY <1>1, <2>3, <2>5, <3>1 DEF Rounds, Asks, Late, Interrupting, At
  <2>6. CASE Failed \/ NotWritten
    BY <2>2, <2>6 DEF Excused, NotWritten
  <2> QED
    BY <2>1, <2>4, <2>5, <2>6, InterruptEffect
<1>9. CASE Interrupting /\ ~At("interrupt")
  <2>1. ~Excused
    BY <1>5, <1>9, ExcusedStays DEF Interrupting, At
  <2>2. \A j \in turn : j <= main.job => Stopped(j)'
    BY <1>6, <1>9, <2>1 DEF Stopping
  <2>3. \/ Round("interrupt", "grace-check")
        \/ main'.job = main.job /\ main'.at \in {"await", "interrupt-response"}
           /\ main'.kind = "interrupt"
    BY <1>2, <1>4, <1>9
       DEF Flow, Raises, To, Round, Asks, Keeps, PassRound, FinishRound, At, Answered,
           Interrupting, Started
  <2> QED
    BY <1>1, <2>2, <2>3 DEF Rounds, Round, Late, Interrupting, At
<1>10. CASE Late
  <2>1. ~Excused
    BY <1>5, <1>10, ExcusedStays DEF Late, At
  <2>2. \A j \in turn : Stopped(j)'
    BY <1>6, <1>10, <2>1 DEF Stopping, Late
  <2> QED
    BY <2>2 DEF Rounds
<1>11. CASE At("check")
  <2>1. ~main.handler
    BY <1>11 DEF Path, Handling, Interrupting, At
  <2>2. \/ main'.at = "interrupt" /\ main'.job = 1
        \/ main'.at = "wait"
        \/ main'.at = "linger" /\ AllSettled
    BY <1>1, <1>4, <1>11, <2>1
       DEF Flow, Raises, To, Keeps, PassRound, At, Interrupting, Path
  <2>3. AllSettled => \A j \in turn : Stopped(j)'
    <3>1. \A j \in processed : event[j] # NoEvent
      BY <1>11 DEF Stopping, At
    <3> QED
      BY <1>1, <1>6, <3>1 DEF AllSettled, Stopped
  <2> QED
    BY <1>1, <2>2, <2>3 DEF Rounds, Late, Interrupting, At
<1>12. CASE ~At("open") /\ ~Interrupting /\ ~Late /\ ~At("check")
  <2>1. main.handler => main.at \in {"report", "outcome", "returned", "raised"}
    BY <1>12 DEF Path, Handling, Late, At
  <2>2. \/ main'.at = "interrupt" /\ main'.job = 1
        \/ ~Late' /\ ~Interrupting'
        \/ At("linger")
    BY <1>1, <1>2, <1>3, <1>4, <1>12, <2>1
       DEF Flow, Raises, To, Round, Asks, Keeps, PassRound, FinishRound, At, Answered,
           Interrupting, Started, Late
  <2> QED
    BY <1>1, <1>12, <2>2 DEF Rounds, Late, Interrupting, At
<1> QED
  BY <1>7, <1>8, <1>9, <1>10, <1>11, <1>12 DEF Interrupting

LEMMA StoppingStep ==
  ASSUME Typed, Started, Path, Stopping, [Next]_vars
  PROVE  Stopping'
PROOF
<1>1. /\ main \in Main /\ main.job \in 1 .. jobs /\ jobs \in 1 .. 2
      /\ turn \subseteq 1 .. jobs /\ turn \subseteq Jobs /\ processed \subseteq Jobs
  BY DEF Typed, TypeOK, Main, Jobs
<1>2. main.kind \in {"initialize", "thread", "turn", "interrupt"}
  BY <1>1 DEF Main, Kinds
<1>3. main.handler \in BOOLEAN /\ main.escaped \in BOOLEAN
  BY <1>1 DEF Main
<1>4. CASE Run
  <2>1. Moves /\ Flow /\ UNCHANGED jobs
    BY <1>4, RunFlow, RunStarts
  <2>2. StartsThreads' => turn' = {}
    <3>1. StartsThreads' => StartsThreads /\ ~At("turn-start-response")
      BY <1>1, <1>2, <2>1
         DEF Flow, Raises, To, Round, Asks, Keeps, PassRound, FinishRound, At, Answered,
             Started, StartsThreads
    <3> QED
      BY <1>4, <3>1, TurnsStay DEF TurnStartResponse, Stopping
  <2>3. Early' => \A j \in processed' : event'[j] # NoEvent
    <3>1. Early' => Early /\ ~At("finish")
      BY <1>1, <1>2, <2>1
         DEF Flow, Raises, To, Round, Asks, Keeps, PassRound, FinishRound, At, Answered,
             Started, StartsThreads, TurnNotAsked, TurnAsked, Early
    <3>2. UNCHANGED event
      BY <1>4, RunStarts
    <3>3. CASE UNCHANGED processed
      BY <3>1, <3>2, <3>3 DEF Stopping, Early
    <3>4. CASE Pass
      BY <1>1, <3>1, <3>2, <3>4, PassEffect DEF Stopping, Early, LeavesAlone, Settles
    <3>5. CASE Finish
      BY <3>1, <3>5 DEF Finish
    <3>6. CASE ~Pass /\ ~Finish
      BY <1>4, <3>3, <3>6
         DEF Run, Refuse, Authorize, Open, Submit, Await, Workload, ThreadStartIntent,
             ThreadStartResponse, TurnStartIntent, TurnStartResponse, TurnRunning,
             Check, Interrupt, InterruptResponse, GraceGoesOn, GraceOver, Linger,
             Close, Report, Outcome, jobVars
    <3> QED
      BY <3>4, <3>5, <3>6
  <2>4. Rounds'
    <3>1. CASE Excused'
      BY <3>1 DEF Rounds
    <3>2. CASE UNCHANGED turn /\ ~Excused'
      BY <1>4, <3>2, RoundsStep
    <3>3. CASE TurnStartResponse /\ ~Excused'
      <4>1. main'.at = "turn-running"
        BY <3>3, TurnStartResponseEffect DEF NotWritten, Excused, To
      <4> QED
        BY <4>1 DEF Rounds, Late, Interrupting, At
    <3> QED
      BY <1>4, <3>1, <3>2, <3>3, TurnsStay
  <2> QED
    BY <2>2, <2>3, <2>4 DEF Stopping, Rounds, Early, Late
<1>5. CASE ~Run
  <2>1. UNCHANGED <<main, jobs, turn, processed>>
    BY <1>5, OthersFrame DEF Next
  <2>2. \A j \in Jobs : event[j] # NoEvent => event'[j] # NoEvent
    BY EventStays
  <2>3. \A j \in Jobs : Stopped(j) => Stopped(j)'
    BY StoppedStays
  <2>4. ~At("open") /\ Excused => Excused'
    BY ExcusedStays
  <2> QED
    BY <1>1, <2>1, <2>2, <2>3, <2>4
       DEF Stopping, StartsThreads, TurnNotAsked, TurnAsked, Interrupting, At
<1> QED
  BY <1>4, <1>5

LEMMA EscapesStep ==
  ASSUME Typed, Started, Path, EscapesOnly, [Next]_vars
  PROVE  EscapesOnly'
PROOF
<1>1. /\ main \in Main /\ main.job \in Jobs /\ faults \in Nat
      /\ event \in [Jobs -> Events \cup {NoEvent}]
  BY DEF Typed, TypeOK, Main
<1>2. CASE main.escaped
  <2>1. \A j \in Jobs : event[j].turn = "other" => event'[j].turn = "other"
    BY EventStays DEF NoEvent
  <2> QED
    BY <1>1, <1>2, <2>1, FaultsStay DEF EscapesOnly
<1>3. CASE ~main.escaped /\ Run /\ main'.escaped
  <2>1. At("open") \/ At("grace") \/ At("finish")
    BY <1>3, RunFlow
       DEF Flow, Raises, To, Round, Asks, Keeps, PassRound, FinishRound, At,
           Path, Handling, Interrupting
  <2>2. \A j \in Jobs : event[j] # NoEvent /\ Mismatch(j) => event[j].turn = "other"
    BY <1>1 DEF Events, Mismatch
  <2>3. event' = event
    BY <1>3, RunStarts
  <2>4. CASE Open
    <3>1. CASE faults' = faults + 1
      BY <1>1, <3>1 DEF EscapesOnly
    <3> QED
      BY <1>3, <2>4, <3>1, OpenEffect DEF To, Keeps
  <2>5. CASE Pass
    BY <1>1, <1>3, <2>2, <2>3, <2>5, PassEffect
       DEF EscapesOnly, PassRound, Round, Keeps, NotWritten
  <2>6. CASE Finish
    BY <1>1, <1>3, <2>2, <2>3, <2>6, FinishEffect
       DEF EscapesOnly, FinishRound, Round, Keeps, NotWritten
  <2>7. CASE ~Open /\ ~Pass /\ ~Finish
    BY <1>3, <2>1, <2>7
       DEF Run, Refuse, Authorize, Submit, Await, Workload, ThreadStartIntent,
           ThreadStartResponse, TurnStartIntent, TurnStartResponse, TurnRunning,
           Check, Interrupt, InterruptResponse, GraceGoesOn, GraceOver, Linger,
           Close, Report, Outcome, At
  <2> QED
    BY <2>4, <2>5, <2>6, <2>7
<1>4. CASE ~main.escaped /\ ~Run
  BY <1>4, OthersFrame DEF Next, EscapesOnly
<1> QED
  BY <1>2, <1>3, <1>4 DEF EscapesOnly

----------------------------------------------------------------------------
(* The theorems.                                                             *)

LEMMA RunnerInit ==
  ASSUME Init
  PROVE  RunnerInv
PROOF
<1>1. TypeOK
  <2>1. main \in Main
    BY DEF Init, Main, Jobs, Kinds
  <2>2. pending \in [id : 0 .. lastId, answer : {"none", "ok", "bad"}]
    BY DEF Init
  <2>3. chain \in [Jobs -> Seq(Stages)] /\ stray \in [Jobs -> SUBSET (Nat \X Stages)]
    BY DEF Init
  <2>4. /\ event \in [Jobs -> Events \cup {NoEvent}]
        /\ reported \in [Jobs -> Outcomes \cup
             {"pending", "running", "timeout", "control_lost", "not_started"}]
        /\ served \in [Jobs -> Outcomes \cup {"none", "running"}]
    BY DEF Init
  <2> QED
    BY <2>1, <2>2, <2>3, <2>4 DEF Init, TypeOK
<1>2. Typed
  <2>1. pipe \in Seq(Messages)
    BY DEF Init
  <2> QED
    BY <1>1, <2>1 DEF Init, Typed, Jobs
<1>3. Started /\ Unasked
  BY DEF Init, Started, Unasked, StartsThreads, TurnNotAsked, TurnAsked, At
<1>4. AnswersOwn
  BY DEF Init, AnswersOwn, PipeGenuine, AnswerIsItsOwn
<1>5. Honest
  BY DEF Init, Honest, NoEvent
<1>6. Settling
  BY DEF Init, Settling, Ends
<1>7. Path
  BY DEF Init, Path, At
<1>8. Stopping
  BY DEF Init, Stopping, StartsThreads, Interrupting, At
<1>9. EscapesOnly
  BY DEF Init, EscapesOnly
<1> QED
  BY <1>2, <1>3, <1>4, <1>5, <1>6, <1>7, <1>8, <1>9 DEF RunnerInv

LEMMA RunnerStep ==
  ASSUME RunnerInv, [Next]_vars
  PROVE  RunnerInv'
PROOF
BY TypedStep, StartedStep, UnaskedStep, AnswersStep, HonestStep, SettlingStep, PathStep,
   StoppingStep, EscapesStep DEF RunnerInv

LEMMA RunnerInvariant == Spec => []RunnerInv
PROOF
<1>1. Init => RunnerInv
  BY RunnerInit
<1>2. RunnerInv /\ [Next]_vars => RunnerInv'
  BY RunnerStep
<1> QED
  BY <1>1, <1>2, PTL DEF Spec

\* JobsSettle: however signals, timeouts, errors and late answers fall, the receipts of
\* a job never tell of two ends, a run that returns has settled every job, and only a
\* local failure or a foreign turn makes it raise instead.
THEOREM JobsAreSettled == Spec => []JobsSettle
PROOF
<1>1. RunnerInv => JobsSettle
  <2> SUFFICES ASSUME RunnerInv PROVE JobsSettle
    OBVIOUS
  <2>1. OneEnd
    <3> SUFFICES ASSUME NEW j \in Jobs PROVE Cardinality(Ends(j)) <= 1
      BY DEF OneEnd
    <3>1. CASE Ends(j) = {}
      BY <3>1, FS_EmptySet
    <3>2. CASE \E i \in Ends(j) : Ends(j) = {i}
      BY <3>2, FS_Singleton
    <3> QED
      BY <3>1, <3>2 DEF RunnerInv, Settling
  <2>2. ReturnedMeansSettled
    <3> SUFFICES ASSUME At("returned"), NEW j \in 1 .. jobs
                 PROVE  Ends(j) # {} /\ chain[j][Len(chain[j])] = "outcome"
      BY DEF ReturnedMeansSettled
    <3>1. ~main.escaped
      BY DEF RunnerInv, Path, At
    <3>2. j \in processed /\ j \in Jobs
      BY <3>1 DEF RunnerInv, Path, At, AllSettled, Typed, TypeOK
    <3> QED
      BY <3>2 DEF RunnerInv, Path, Settling
  <2> QED
    BY <2>1, <2>2 DEF RunnerInv, Typed, JobsSettle
<1> QED
  BY <1>1, RunnerInvariant, PTL

\* HonestStatus: a job is reported to have ended only as its own turn has, whenever and
\* however often a turn/completed of this or another turn arrives.
THEOREM StatusIsHonest == Spec => []HonestStatus
PROOF
<1>1. RunnerInv => HonestStatus
  BY DEF RunnerInv, Honest, HonestStatus
<1> QED
  BY <1>1, RunnerInvariant, PTL

\* AnswerIsItsOwn: an answer that submit takes is one to the request it waits for,
\* although the app-server may answer requests that were given up, or twice.
THEOREM AnswersAreTheirOwn == Spec => []AnswerIsItsOwn
PROOF
<1>1. RunnerInv => AnswerIsItsOwn
  BY DEF RunnerInv, AnswersOwn
<1> QED
  BY <1>1, RunnerInvariant, PTL

\* StopIsAsked: before the app-server is stopped, every turn still known to run was
\* asked to stop, unless the connection or a local operation had failed.
THEOREM StopsAreAsked == Spec => []StopIsAsked
PROOF
<1>1. RunnerInv => StopIsAsked
  BY DEF RunnerInv, Typed, TypeOK, Stopping, Stopped, Excused, StopIsAsked, At
<1> QED
  BY <1>1, RunnerInvariant, PTL

=============================================================================
