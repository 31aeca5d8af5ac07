----------------------------- MODULE BobCollector -----------------------------
(***************************************************************************)
(* The incremental reader of the Bob chat database, class BobCollector.     *)
(* A generation is one read transaction on Bob's database, read in slices;  *)
(* Bob commits to the database, or puts another file in its place, between  *)
(* any two steps of a slice.                                                *)
(*                                                                         *)
(* What is abstracted:                                                     *)
(*  - Bob's commits are numbered: data_version and the snapshot that a      *)
(*    transaction reads are indices into the history of the database;       *)
(*  - the tasks are one row, all of them are read anew in every generation; *)
(*    a row that cannot be projected has the body Bad, an identity that     *)
(*    cannot be hashed is Odd;                                              *)
(*  - the row, byte and time budgets of a slice run out after any row;      *)
(*  - a message is indexed or skipped; one of an unknown tool outcome is both, *)
(*    and then only makes complete coverage rarer;                         *)
(*  - every error that scan handles is one action, as is every end of the   *)
(*    process: after either the rows indexed so far are deleted before they *)
(*    are used again, so what was rolled back of them is left in place.     *)
(***************************************************************************)
EXTENDS Naturals, FiniteSets, Sequences

CONSTANTS
  Rows,           \* rowids of the messages, numbers from 1
  Ids,            \* message identities
  Odd,            \* an identity that cannot be hashed
  Bodies,         \* what a task or a message holds
  Bad,            \* a row that project_task or project_message refuses
  Nil,            \* no row, no value
  Starts,         \* the messages there may be at first
  MaxCommits,     \* bound on the commits to Bob's database
  MaxMishaps      \* bound on failed scans and ends of the process

ASSUME RowAssumption == Rows \subseteq Nat \ {0} /\ IsFiniteSet(Rows)
\* The identity is the primary key of the messages.
ASSUME StartAssumption ==
  /\ Starts \subseteq [Rows -> [id : Ids \cup {Odd}, body : Bodies \cup {Bad}] \cup {Nil}]
  /\ \A rows \in Starts, r, q \in Rows :
       rows[r] # Nil /\ rows[q] # Nil /\ rows[r].id \in Ids /\ rows[q].id = rows[r].id => q = r
ASSUME NameAssumption ==
  /\ Odd \notin Ids /\ Bad \notin Bodies
  /\ Nil \notin Ids \cup Bodies \cup Nat \cup {"tasks", "identities", "messages"}
ASSUME BoundAssumption == MaxCommits \in Nat \ {0} /\ MaxMishaps \in Nat

Message == [id : Ids \cup {Odd}, body : Bodies \cup {Bad}]
Content == [file : Nat, task : Bodies \cup {Bad}, rows : [Rows -> Message \cup {Nil}]]

VARIABLES
  commits,    \* Bob's database after each of its commits
  at,         \* where scan is: "wait" between scans, "start", "slice"
  stage,      \* what the generation reads, Nil without a generation
  snap,       \* the commit that the read transaction sees
  work,       \* the generation: version, full_read, cursor, identities, tasks read
  index,      \* the private index: the task row and the messages by identity
  memory,     \* what the process keeps between generations
  skips,      \* skipped records of this generation
  value,      \* the published value
  saved,      \* the publication row of the index
  due,        \* monotonic time has reached reconcile_at
  mishaps     \* failed scans and ends of the process so far

vars == <<commits, at, stage, snap, work, index, memory, skips, value, saved, due, mishaps>>

----------------------------------------------------------------------------
(* Bob's database.                                                          *)

Source == commits[Len(commits)]

\* The last commit to a file; one that was replaced gets no more of them.
Version(file) ==
  CHOOSE n \in DOMAIN commits :
    /\ commits[n].file = file
    /\ \A m \in DOMAIN commits : commits[m].file = file => m <= n

Snapshot == commits[snap]
Present == {r \in Rows : Snapshot.rows[r] # Nil}

Commit(content) ==
  /\ Len(commits) < MaxCommits
  /\ content # Source
  /\ commits' = Append(commits, content)
  /\ UNCHANGED <<at, stage, snap, work, index, memory, skips, value, saved, due, mishaps>>

Unused(id) == \A r \in Rows : Source.rows[r] # Nil => Source.rows[r].id # id

Bob ==
  \/ \E b \in Bodies \cup {Bad} : Commit([Source EXCEPT !.task = b])
  \/ \E r \in Rows, m \in Message :
       /\ Unused(m.id) \/ m.id = Odd \/ (Source.rows[r] # Nil /\ Source.rows[r].id = m.id)
       /\ Commit([Source EXCEPT !.rows[r] = m])
  \/ \E r \in Rows : Commit([Source EXCEPT !.rows[r] = Nil])
  \/ Commit([Source EXCEPT !.file = @ + 1, !.rows = [r \in Rows |-> Nil]])

----------------------------------------------------------------------------
(* The memory of the process.                                               *)

NoMessages == [id \in Ids |-> Nil]

\* What a process starts with.
NewMemory == [file |-> Nil, version |-> Nil, cursor |-> 0, ids |-> [r \in {} |-> Nil],
              skips |-> 0, valid |-> TRUE]

Forgotten == [memory EXCEPT !.skips = 0, !.ids = NewMemory.ids, !.cursor = 0, !.valid = TRUE]

NoWork == [version |-> Nil, full |-> FALSE, cursor |-> 0, todo |-> {}, matched |-> 0]

\* The empty snapshot; at and full are history: the commit it shows, and that of
\* the last complete read of the messages it is built from.
Nothing == [task |-> Nil, messages |-> NoMessages, available |-> FALSE, complete |-> FALSE,
            pending |-> FALSE, at |-> 0, full |-> 0]

\* _begin_messages.
BeginMessages(m) ==
  /\ stage' = "messages"
  /\ work' = [work EXCEPT !.cursor = m.cursor, !.todo = {}]

\* _reset_messages: every message is read again, in the same transaction.
Reset ==
  /\ index' = [index EXCEPT !.messages = NoMessages]
  /\ skips' = skips - memory.skips
  /\ memory' = Forgotten

----------------------------------------------------------------------------
(* A scan.                                                                  *)

\* _open and the version of the source: a file that was replaced ends the
\* generation, an unchanged one that is not due for a full read is left alone.
Opened ==
  IF memory.file = Source.file THEN memory
  ELSE [memory EXCEPT !.file = Source.file, !.version = Nil]

Going == stage # Nil /\ memory.file = Source.file

UpToDate == ~Going /\ Opened.version = Version(Source.file) /\ ~due

Unchanged ==
  /\ at = "wait" /\ UpToDate
  /\ value' = [value EXCEPT !.available = TRUE]
  /\ memory' = Opened
  /\ UNCHANGED <<commits, at, stage, snap, work, index, skips, saved, due, mishaps>>

Open ==
  /\ at = "wait" /\ ~UpToDate
  /\ memory' = Opened
  /\ IF Going
     THEN /\ at' = "slice"
          /\ value' = [value EXCEPT !.available = TRUE, !.pending = TRUE, !.complete = FALSE]
          /\ UNCHANGED <<stage, snap, work>>
     ELSE /\ at' = "start" /\ stage' = Nil /\ snap' = 0
          /\ work' = [NoWork EXCEPT !.version = Version(Source.file)]
          /\ UNCHANGED value
  /\ UNCHANGED <<commits, index, skips, saved, due, mishaps>>

\* Mutant: only a new source is read completely.
FullNever == memory.version = Nil \/ ~memory.valid

Full == memory.version = Nil \/ due \/ ~memory.valid

\* _start: the transaction begins, and what is no longer needed is deleted.
Start ==
  /\ at = "start"
  /\ snap' = Version(memory.file)
  /\ work' = [work EXCEPT !.full = Full]
  /\ IF Full
     THEN /\ index' = [task |-> Nil, messages |-> NoMessages]
          /\ skips' = 0
          /\ memory' = Forgotten
     ELSE /\ index' = [index EXCEPT !.task = Nil]
          /\ skips' = memory.skips
          /\ UNCHANGED memory
  /\ stage' = "tasks" /\ at' = "slice"
  /\ value' = [value EXCEPT !.available = TRUE, !.pending = TRUE, !.complete = FALSE]
  /\ UNCHANGED <<commits, saved, due, mishaps>>

\* The task row; the messages or their identities are next.
ReadTask ==
  /\ at = "slice" /\ stage = "tasks"
  /\ IF Snapshot.task = Bad
     THEN skips' = skips + 1 /\ UNCHANGED index
     ELSE index' = [index EXCEPT !.task = Snapshot.task] /\ UNCHANGED skips
  /\ IF work.full
     THEN BeginMessages(memory)
     ELSE stage' = "identities" /\ work' = [work EXCEPT !.todo = Present, !.matched = 0]
  /\ UNCHANGED <<commits, at, snap, memory, value, saved, due, mishaps>>

\* _check_identity: a known rowid still holds the message it held.
Known(r) ==
  LET id == Snapshot.rows[r].id
  IN  /\ id # Odd
      /\ r <= memory.cursor => r \in DOMAIN memory.ids /\ memory.ids[r] = id

\* Identities come in the order of their index, whatever the rowids are.
CheckIdentity(r) ==
  /\ at = "slice" /\ stage = "identities" /\ r \in work.todo
  /\ IF Known(r)
     THEN /\ work' = [work EXCEPT !.todo = @ \ {r},
                                  !.matched = IF r <= memory.cursor THEN @ + 1 ELSE @]
          /\ UNCHANGED <<stage, index, memory, skips>>
     ELSE /\ Reset
          /\ stage' = "messages"
          /\ work' = [work EXCEPT !.full = TRUE, !.cursor = 0, !.todo = {}]
  /\ UNCHANGED <<commits, at, snap, value, saved, due, mishaps>>

\* Mutant: messages that are gone are not noticed.
AllFoundAlways == TRUE

\* Every message that was read before is still there.
AllFound == work.matched = Cardinality(DOMAIN memory.ids)

IdentitiesChecked ==
  /\ at = "slice" /\ stage = "identities" /\ work.todo = {}
  /\ stage' = "messages"
  /\ IF AllFound
     THEN work' = [work EXCEPT !.cursor = memory.cursor] /\ UNCHANGED <<index, memory, skips>>
     ELSE Reset /\ work' = [work EXCEPT !.full = TRUE, !.cursor = 0]
  /\ UNCHANGED <<commits, at, snap, value, saved, due, mishaps>>

\* The messages after the cursor, in the order of their rowids.
Unread == {r \in Present : r > work.cursor}

\* A skipped message is counted in every later generation that does not read it.
Skipped(m) == [m EXCEPT !.skips = @ + 1]

ReadMessage ==
  /\ at = "slice" /\ stage = "messages" /\ Unread # {}
  /\ LET r == CHOOSE k \in Unread : \A l \in Unread : k <= l
         message == Snapshot.rows[r]
         read == [memory EXCEPT
                    !.ids = [k \in DOMAIN @ \cup {r} |-> IF k = r THEN message.id ELSE @[k]],
                    !.valid = @ /\ message.id # Odd]
     IN  /\ work' = [work EXCEPT !.cursor = r]
         /\ IF message.id = Odd \/ message.body = Bad
            THEN memory' = Skipped(read) /\ skips' = skips + 1 /\ UNCHANGED index
            ELSE /\ index' = [index EXCEPT !.messages[message.id] = message.body]
                 /\ memory' = read /\ UNCHANGED skips
  /\ UNCHANGED <<commits, at, stage, snap, value, saved, due, mishaps>>

\* A budget of the slice is used up.
EndSlice ==
  /\ at = "slice"
  /\ at' = "wait"
  /\ UNCHANGED <<commits, stage, snap, work, index, memory, skips, value, saved, due, mishaps>>

\* Mutant: the version is read once more, after the transaction.
VersionAfter == Version(memory.file)

\* The version from before the transaction.
VersionBefore == work.version

\* _finish and _publish.
Finish ==
  /\ at = "slice" /\ stage = "messages" /\ Unread = {}
  /\ value' = [task |-> index.task, messages |-> index.messages, available |-> TRUE,
               complete |-> skips = 0, pending |-> FALSE, at |-> snap,
               full |-> IF work.full THEN snap ELSE value.full]
  /\ saved' = value'
  /\ memory' = [memory EXCEPT !.version = VersionBefore, !.cursor = work.cursor]
  /\ due' = (due /\ ~work.full)
  /\ stage' = Nil /\ snap' = 0 /\ work' = NoWork /\ at' = "wait"
  /\ UNCHANGED <<commits, index, skips, mishaps>>

\* An error of the source, of the scan's limits or of the index size: the source
\* is closed and the next scan reads everything.
Fail ==
  /\ mishaps < MaxMishaps
  /\ mishaps' = mishaps + 1
  /\ value' = [value EXCEPT !.available = FALSE, !.complete = FALSE, !.pending = FALSE]
  /\ memory' = [memory EXCEPT !.version = Nil]
  /\ stage' = Nil /\ snap' = 0 /\ work' = NoWork /\ at' = "wait"
  /\ UNCHANGED <<commits, index, skips, saved, due>>

\* The process ends, also when its index fails, and another one starts from the
\* publication row.
Restart ==
  /\ mishaps < MaxMishaps
  /\ mishaps' = mishaps + 1
  /\ value' = [saved EXCEPT !.available = FALSE, !.complete = FALSE, !.pending = TRUE]
  /\ memory' = NewMemory /\ skips' = 0 /\ due' = TRUE
  /\ stage' = Nil /\ snap' = 0 /\ work' = NoWork /\ at' = "wait"
  /\ UNCHANGED <<commits, index, saved>>

\* Five minutes have passed since the last complete read began.
Tick ==
  /\ ~due /\ due' = TRUE
  /\ UNCHANGED <<commits, at, stage, snap, work, index, memory, skips, value, saved, mishaps>>

----------------------------------------------------------------------------
Init ==
  /\ \E rows \in Starts, b \in Bodies : commits = <<[file |-> 1, task |-> b, rows |-> rows]>>
  /\ at = "wait" /\ stage = Nil /\ snap = 0 /\ work = NoWork
  /\ index = [task |-> Nil, messages |-> NoMessages]
  /\ memory = NewMemory /\ skips = 0
  /\ value = [Nothing EXCEPT !.pending = TRUE] /\ saved = Nothing
  /\ due = TRUE /\ mishaps = 0

Reading ==
  ReadTask \/ (\E r \in Rows : CheckIdentity(r)) \/ IdentitiesChecked \/ ReadMessage \/ Finish

Scan == Unchanged \/ Open \/ Start \/ Reading \/ EndSlice

Next == Bob \/ Scan \/ Fail \/ Restart \/ Tick

Spec == Init /\ [][Next]_vars

\* The collector scans again and again, its slices get to read rows, and time passes.
Fairness == WF_vars(Scan) /\ SF_vars(Reading) /\ WF_vars(Tick)

FairSpec == Spec /\ Fairness

----------------------------------------------------------------------------
(* Properties.                                                              *)

\* The types of the variables.
TypeOK ==
  /\ DOMAIN commits \subseteq 1 .. MaxCommits /\ \A n \in DOMAIN commits : commits[n] \in Content
  /\ at \in {"wait", "start", "slice"}
  /\ stage \in {Nil, "tasks", "identities", "messages"}
  /\ (stage # Nil) = (snap # 0) /\ snap \in {0} \cup DOMAIN commits
  /\ index.task \in Bodies \cup {Nil} /\ index.messages \in [Ids -> Bodies \cup {Nil}]
  /\ memory.cursor \in {0} \cup Rows /\ DOMAIN memory.ids \subseteq Rows
  /\ memory.skips \in Nat /\ skips \in Nat
  /\ value.full <= value.at /\ value.at \in 0 .. Len(commits)
  /\ due \in BOOLEAN /\ mishaps \in 0 .. MaxMishaps

Bound(content, id) == {r \in Rows : content.rows[r] # Nil /\ content.rows[r].id = id}
BodyOf(content, id) == content.rows[CHOOSE r \in Bound(content, id) : TRUE].body

\* "Incremental Bob scans must agree with a fresh, complete source read": what is
\* published is Bob's database at one commit, with the messages that are there
\* and no others, and with bodies no older than the last complete read.  It is
\* called complete only when nothing of that commit is missing.
Coherent ==
  /\ TypeOK
  /\ value.at # 0 =>
    LET content == commits[value.at]
        bodies(id) == {BodyOf(commits[n], id) :
                         n \in {n \in value.full .. value.at : Bound(commits[n], id) # {}}}
    IN  /\ value.task = IF content.task = Bad THEN Nil ELSE content.task
        /\ \A id \in Ids :
             IF Bound(content, id) = {} THEN value.messages[id] = Nil
             ELSE IF value.messages[id] = Nil THEN Bad \in bodies(id)
             ELSE value.messages[id] \in bodies(id)
        /\ value.complete =>
             /\ content.task # Bad /\ Bound(content, Odd) = {}
             /\ \A id \in Ids : Bound(content, id) # {} => value.messages[id] # Nil

\* "Writes made during it cause the next scan to start a new generation, rather
\* than being lost": whenever a scan would find nothing to do, what is published
\* is the last commit.
UnchangedIsCurrent == at = "wait" /\ UpToDate => value.at = Len(commits)

\* "Full reads also reconcile older body edits", although incremental reads come
\* in between: after every commit, all messages are read again some day.
EditsReconciled ==
  \A n \in 1 .. MaxCommits : Len(commits) = n ~> value.full >= n
=============================================================================
