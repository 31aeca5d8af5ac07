--------------------------- MODULE SessionCollector ---------------------------
(***************************************************************************)
(* The reader of Codex rollouts, class SessionCollector: one cursor per      *)
(* path for usage, and one per path and feature that finds what was written  *)
(* before the feature existed.  Codex and the user create, extend, move,     *)
(* link and remove rollouts between any two steps of a scan.                 *)
(*                                                                         *)
(* What is abstracted:                                                     *)
(*  - a file is its inode, which is not used again, and it only grows.  A    *)
(*    complete line is 2 units long and an unfinished last one is 1, which   *)
(*    is also what one readline gets of a line longer than MAX_LINE;         *)
(*  - the first line of a rollout is its header, of its own session; a first *)
(*    line that is no header is like one that is not finished;               *)
(*  - of a record the model keeps what it counts for, its key and a print of *)
(*    its content; records that are never counted are like the header;       *)
(*  - files are visited in any order and the budgets run out after any read; *)
(*  - the walk over the directories, and the look at each file found, is one *)
(*    step of the inventory;                                               *)
(*  - turns, models and the other columns of a session are left out;         *)
(*  - what ends the process also undoes its open transaction.                *)
(***************************************************************************)
EXTENDS Naturals, Sequences, FiniteSets, FiniteSetsExt, SequencesExt

CONSTANTS
  Nil,            \* no row, no file, no line
  Half,           \* an unfinished line of less than MAX_LINE
  Unsafe,         \* a symbolic link, or a file of another user
  Paths,          \* paths of rollouts, numbers in the order of their names
  Inodes,         \* the files there may be, numbers
  SidOf,          \* the session of each file
  Stages,         \* what has cursors of its own: command, then compaction
  Lines,          \* the lines Codex writes
  Header,         \* the first line of a rollout
  Budgets,        \* how many lines the budget of a file may be
  Starts,         \* rollouts and tables there may be at first, and what was shown
  MaxChanges,     \* bound on changes to the rollouts
  MaxMishaps      \* bound on failed reads, failed scans and ends of the process

Features == {Stages[n] : n \in DOMAIN Stages}

ASSUME PathAssumption == Paths \subseteq Nat /\ IsFiniteSet(Paths)
ASSUME FileAssumption == Inodes \subseteq Nat /\ DOMAIN SidOf = Inodes
ASSUME BudgetAssumption == Budgets \subseteq Nat \ {0}
ASSUME LineAssumption ==
  \A l \in Lines : l.kind \in Features \cup {"usage"} /\ {l.valid, l.long} \subseteq BOOLEAN

VARIABLES
  disk,       \* the file at each path
  text,       \* the lines of each file, and its unfinished one
  db,         \* the tables as the connection sees them
  saved,      \* the tables as last committed
  at,         \* the stage of scan: "wait", "visit", "main" or a feature
  todo,       \* paths that this stage has still to visit
  opened,     \* the file being read, Nil between files
  available,  \* self.available
  listing,    \* history: the file and size seen at each path by sync_inventory
  shown,      \* history: how many lines of each file a completed inventory saw
  changes,    \* changes to the rollouts so far
  mishaps     \* failures so far

vars == <<disk, text, db, saved, at, todo, opened, available, listing, shown, changes, mishaps>>

----------------------------------------------------------------------------
(* The rollouts.                                                            *)

Size(i) == 2 * Len(text[i].lines) + (IF text[i].tail = Nil THEN 0 ELSE 1)

Regular(p) == disk[p] \notin {Nil, Unsafe}

Unborn == {i \in Inodes : text[i] = [lines |-> <<>>, tail |-> Nil] /\ \A p \in Paths : disk[p] # i}

Write(i, content) == text' = [text EXCEPT ![i] = content] /\ UNCHANGED disk
Place(places) == disk' = [p \in Paths |-> IF p \in DOMAIN places THEN places[p] ELSE disk[p]] /\ UNCHANGED text

\* A rollout begins with its header, which need not be there at once.
NextLines(i) == IF text[i].lines = <<>> THEN {Header} ELSE Lines

Create(p) == disk[p] = Nil /\ Unborn # {} /\ Place([q \in {p} |-> Min(Unborn)])

AppendLine(i) ==
  \E l \in NextLines(i) :
    /\ text[i].tail \in {Nil, l} \/ (text[i].tail = Half /\ ~l.long)
    /\ Write(i, [lines |-> Append(text[i].lines, l), tail |-> Nil])

AppendPart(i) ==
  /\ text[i].tail = Nil
  /\ \E part \in {Half} \cup {l \in NextLines(i) : l.long} : Write(i, [text[i] EXCEPT !.tail = part])

Move(p, q) == disk[p] # Nil /\ p # q /\ Place([r \in {p, q} |-> IF r = p THEN Nil ELSE disk[p]])
Link(p, q) == Regular(p) /\ disk[q] = Nil /\ Place([r \in {q} |-> disk[p]])
Delete(p) == disk[p] # Nil /\ Place([r \in {p} |-> Nil])
Spoil(p) == disk[p] # Unsafe /\ Place([r \in {p} |-> Unsafe])

Rollouts ==
  /\ changes < MaxChanges /\ changes' = changes + 1
  /\ \/ \E p \in Paths : Create(p) \/ Delete(p) \/ Spoil(p) \/ \E q \in Paths : Move(p, q) \/ Link(p, q)
     \/ \E p \in Paths : Regular(p) /\ (AppendLine(disk[p]) \/ AppendPart(disk[p]))
  /\ UNCHANGED <<db, saved, at, todo, opened, available, listing, shown, mishaps>>

----------------------------------------------------------------------------
(* The tables.                                                              *)

\* A row of files or of the cursors of a feature; complete is not a column of files.
Row(i, offset, skip, complete) ==
  [inode |-> i, offset |-> offset, size |-> Size(i), skip |-> skip, complete |-> complete]

\* merged is history: the files whose cursor gave way to one of another file, until
\* they get a cursor again.
NewTables ==
  [files |-> [p \in Paths |-> Nil], cursors |-> [f \in Features |-> [p \in Paths |-> Nil]],
   seen |-> {}, clash |-> {}, conflict |-> {}, gap |-> {}, done |-> {}, merged |-> {}]

Gap(d, f) == [d EXCEPT !.gap = @ \cup {f}]
Conflict(d, s) == [d EXCEPT !.conflict = @ \cup {s}]

Unread(row) == row.offset < row.size

Unfinished(row) == ~row.complete \/ Unread(row)

\* Mutant: a file that another one took the place of is not noticed.
Shrunk(row, i) == Size(i) < row.offset

\* A row that is no longer about the file at its path.
Replaced(row, i) == row.inode # i \/ Size(i) < row.offset

\* _consume of a line in the file of session s.
Consume(d, l, s) ==
  LET known == {o \in d.seen : o.kind = l.kind /\ o.key = l.key /\ o.sid = s}
  IN  IF ~l.valid
      THEN IF l.kind = "usage" THEN Conflict(d, s) ELSE Gap(d, l.kind)
      ELSE IF known = {}
      THEN [d EXCEPT !.seen = @ \cup {[kind |-> l.kind, key |-> l.key, print |-> l.print, sid |-> s]}]
      ELSE IF \A o \in known : o.print = l.print THEN d
      ELSE IF l.kind = "usage" THEN Conflict(d, s)
      ELSE [d EXCEPT !.clash = @ \cup {[kind |-> l.kind, key |-> l.key, sid |-> s]}]

----------------------------------------------------------------------------
(* sync_inventory.                                                          *)

\* Where the file of a row is now, if its path has another file or none.
MovedTo(row) == {q \in Paths : Regular(q) /\ disk[q] = row.inode /\ Size(row.inode) >= row.offset}

\* The row of path p goes with its file, or is dropped with it.  When the path of
\* its file still has the row of another file, that one is rewound in its place.
Follow(d, f, p, row) ==
  LET q == Min(MovedTo(row))
      rows == d.cursors[f]
  IN  IF disk[p] = row.inode THEN d
      ELSE IF MovedTo(row) # {}
      THEN [d EXCEPT
              !.merged = IF rows[q] # Nil /\ rows[q].inode # row.inode THEN @ \cup {<<f, row.inode>>} ELSE @,
              !.cursors[f] =
              IF rows[q] # Nil
              THEN [rows EXCEPT ![p] = Nil, ![q].offset = 0, ![q].skip = FALSE, ![q].complete = FALSE]
              ELSE [rows EXCEPT ![p] = Nil,
                     ![q] = [rows[p] EXCEPT !.size = Size(row.inode),
                                            !.complete = row.offset >= Size(row.inode) /\ ~row.skip]]]
      ELSE IF Regular(p) THEN d
      ELSE LET dropped == [d EXCEPT !.cursors[f][p] = Nil]
           IN  IF Unfinished(row) THEN Gap(dropped, f) ELSE dropped

\* All rows of a feature, in some order, each as it was before the first of them.
FollowAll(d, f, order) ==
  FoldLeft(LAMBDA e, p : IF d.cursors[f][p] = Nil THEN e ELSE Follow(e, f, p, d.cursors[f][p]), d, order)

Present == {p \in Paths : disk[p] # Nil}

List ==
  /\ at = "wait"
  /\ at' = "visit" /\ todo' = Present /\ available' = FALSE
  /\ listing' = [p \in Paths |-> Nil]
  /\ \E order \in SetToSeqs(Paths) :
       db' = FoldLeft(LAMBDA d, f : FollowAll(d, f, order),
                      [db EXCEPT !.files = [p \in Paths |-> IF p \in Present THEN @[p] ELSE Nil]], Stages)
  /\ UNCHANGED <<disk, text, saved, opened, shown, changes, mishaps>>

\* The cursor of feature f at path p, once the path was found to hold file i.
Cursor(d, f, p, i) ==
  LET row == d.cursors[f][p]
      kept == IF row = Nil \/ Replaced(row, i) THEN Row(i, 0, FALSE, FALSE) ELSE row
      next == [d EXCEPT !.merged = @ \ {<<f, i>>}, !.cursors[f][p] =
                 Row(i, kept.offset, kept.skip, kept.offset >= Size(i) /\ ~kept.skip)]
  IN  IF row # Nil /\ Replaced(row, i) /\ Unfinished(row) THEN Gap(next, f) ELSE next

\* A path that is a link or not ours loses its cursors, and the coverage with them.
Refuse(p) ==
  db' = [db EXCEPT !.gap = Features, !.cursors = [f \in Features |-> [@[f] EXCEPT ![p] = Nil]]]

Register(p, i) ==
  LET row == db.files[p]
      known == row # Nil /\ ~Replaced(row, i)
      file == IF known THEN Row(i, row.offset, row.skip, TRUE) ELSE Row(i, 0, FALSE, TRUE)
  IN  db' = IF ~known /\ text[i].lines = <<>>
            THEN [db EXCEPT !.gap = Features]
            ELSE FoldLeft(LAMBDA d, f : Cursor(d, f, p, i), [db EXCEPT !.files[p] = file], Stages)

Visit(p) ==
  /\ at = "visit" /\ p \in todo /\ disk[p] # Nil
  /\ todo' = todo \ {p}
  /\ IF disk[p] = Unsafe THEN Refuse(p) ELSE Register(p, disk[p])
  /\ listing' = [listing EXCEPT ![p] = IF disk[p] = Unsafe THEN Nil
                                       ELSE [inode |-> disk[p], lines |-> Len(text[disk[p]].lines)]]
  /\ UNCHANGED <<disk, text, saved, at, opened, available, shown, changes, mishaps>>

\* SessionSourceUnavailable: the transaction stays open, and the next inventory
\* begins in it, unless preserve_review_markers commits it with its own rows.
SyncFails ==
  /\ at \in {"wait", "visit"}
  /\ \/ \E p \in todo : disk[p] = Nil /\ UNCHANGED mishaps
     \/ mishaps < MaxMishaps /\ mishaps' = mishaps + 1
  /\ at' = "wait" /\ todo' = {} /\ available' = FALSE
  /\ saved' \in {saved, db}
  /\ UNCHANGED <<disk, text, db, opened, listing, shown, changes>>

\* The inventory is committed.  A full disk ends the scan here.
SyncEnds ==
  /\ at = "visit" /\ todo = {}
  /\ saved' = db
  /\ shown' = [i \in Inodes |-> Max({shown[i]} \cup
                 {listing[p].lines : p \in {p \in Paths : listing[p] # Nil /\ listing[p].inode = i}})]
  /\ \/ /\ available' = TRUE /\ at' = "main"
        /\ todo' = {p \in Paths : db.files[p] # Nil /\ Unread(db.files[p])}
        /\ UNCHANGED mishaps
     \/ /\ mishaps < MaxMishaps /\ mishaps' = mishaps + 1
        /\ available' = FALSE /\ at' = "wait" /\ UNCHANGED todo
  /\ UNCHANGED <<disk, text, db, opened, listing, changes>>

----------------------------------------------------------------------------
(* Reading a file.                                                          *)

\* A part of a line longer than MAX_LINE counts as a record that is lost: for the
\* main reader its usage or, whatever item it is about, its command.
TooLong(d, l, s) ==
  IF at # "main" THEN [d EXCEPT !.gap = @ \cup (IF at = Stages[1] THEN Features ELSE {at})]
  ELSE IF l.kind = "usage" THEN Conflict(d, s) ELSE Gap(d, Stages[1])

\* The reader of a feature looks at no other lines.
Relevant(l) == l.kind # Header.kind /\ at \in {"main", l.kind}
ItemOrUsage(l) == at = "main" \/ l.kind # "usage"

\* One readline from offset r.offset of file i; no change at the end of it.
ReadLine(r, i) ==
  LET lines == text[i].lines
      n == (r.offset \div 2) + 1
      inside == r.offset % 2 = 1
      l == IF n <= Len(lines) THEN lines[n] ELSE text[i].tail
  IN  IF l \in {Nil, Half} \/ (n > Len(lines) /\ inside) THEN r
      ELSE IF l.long /\ ~inside
      THEN [r EXCEPT !.offset = @ + 1, !.skip = TRUE,
                     !.db = IF r.skip \/ ~ItemOrUsage(l) THEN @ ELSE TooLong(@, l, SidOf[i])]
      ELSE [offset |-> 2 * n, skip |-> FALSE,
            db |-> IF r.skip \/ ~Relevant(l) THEN r.db ELSE Consume(r.db, l, SidOf[i])]

\* What the transaction of a file has done after n lines.
After(i, row) ==
  LET read[n \in 0 .. Size(i) - row.offset] ==
        IF n = 0 THEN [offset |-> row.offset, skip |-> row.skip, db |-> db] ELSE ReadLine(read[n - 1], i)
  IN  read

\* The row that the stage has for path p.
Current(p) == IF at = "main" THEN db.files[p] ELSE db.cursors[at][p]

Reading == at \in {"main"} \cup Features

Open(p) ==
  /\ Reading /\ opened = Nil /\ p \in todo /\ Regular(p)
  /\ IF disk[p] = Current(p).inode
     THEN opened' = [path |-> p, size |-> Size(disk[p])] /\ UNCHANGED todo
     ELSE todo' = todo \ {p} /\ UNCHANGED opened
  /\ UNCHANGED <<disk, text, db, saved, at, available, listing, shown, changes, mishaps>>

Finished(r, size) == r.offset >= size /\ ~r.skip

\* Records, offset and the rest of the row are one transaction.
Read ==
  /\ opened # Nil
  /\ LET p == opened.path
         row == Current(p)
         reads == After(row.inode, row)
     IN  \E budget \in Budgets, out \in BOOLEAN :
           LET read == reads[Min({budget, Max(DOMAIN reads)})] IN
           /\ db' = IF at = "main"
                    THEN [read.db EXCEPT !.files[p].offset = read.offset,
                                             !.files[p].skip = read.skip]
                    ELSE [read.db EXCEPT !.cursors[at][p] =
                            [row EXCEPT !.offset = read.offset, !.skip = read.skip,
                                        !.size = opened.size,
                                        !.complete = Finished(read, opened.size)]]
           /\ todo' = IF out THEN {} ELSE todo \ {p}
  /\ saved' = db' /\ opened' = Nil
  /\ UNCHANGED <<disk, text, at, available, listing, shown, changes, mishaps>>

\* The file cannot be opened, or its transaction is undone.
ReadFails ==
  /\ Reading
  /\ \E p \in todo :
       /\ opened # Nil => opened.path = p
       /\ \/ opened = Nil /\ ~Regular(p) /\ UNCHANGED mishaps
          \/ mishaps < MaxMishaps /\ mishaps' = mishaps + 1
       /\ todo' = todo \ {p}
  /\ available' = FALSE /\ opened' = Nil
  /\ UNCHANGED <<disk, text, db, saved, at, listing, shown, changes>>

----------------------------------------------------------------------------
(* The end of a scan.                                                       *)

Pending(f) == {p \in Paths : db.cursors[f][p] # Nil /\ Unfinished(db.cursors[f][p])}

NextStage ==
  /\ Reading /\ opened = Nil /\ todo = {}
  /\ LET n == IF at = "main" THEN 0 ELSE CHOOSE k \in DOMAIN Stages : Stages[k] = at
     IN  IF n < Len(Stages)
         THEN at' = Stages[n + 1] /\ todo' = Pending(at') /\ UNCHANGED <<db, saved>>
         ELSE /\ at' = "wait" /\ UNCHANGED todo
              /\ db' = [db EXCEPT !.done = {f \in Features : Pending(f) = {} /\ available}]
              /\ saved' = db'
  /\ UNCHANGED <<disk, text, opened, available, listing, shown, changes, mishaps>>

\* The process ends, and another one begins with the committed tables.
Restart ==
  /\ mishaps < MaxMishaps /\ mishaps' = mishaps + 1
  /\ db' = saved
  /\ at' = "wait" /\ todo' = {} /\ opened' = Nil /\ available' = FALSE
  /\ UNCHANGED <<disk, text, saved, listing, shown, changes>>

----------------------------------------------------------------------------
Init ==
  /\ \E start \in Starts :
       disk = start.disk /\ text = start.text /\ db = start.db /\ shown = start.shown
  /\ saved = db
  /\ at = "wait" /\ todo = {} /\ opened = Nil /\ available = FALSE
  /\ listing = [p \in Paths |-> Nil]
  /\ changes = 0 /\ mishaps = 0

Next ==
  \/ Rollouts \/ List \/ SyncFails \/ SyncEnds \/ Read \/ ReadFails \/ NextStage \/ Restart
  \/ \E p \in Paths : Visit(p) \/ Open(p)

Spec == Init /\ [][Next]_vars

----------------------------------------------------------------------------
(* Properties.                                                              *)

\* The types of the variables.
TypeOK ==
  /\ disk \in [Paths -> Inodes \cup {Nil, Unsafe}]
  /\ at \in {"wait", "visit", "main"} \cup Features /\ todo \subseteq Paths
  /\ opened # Nil => opened.path \in todo /\ Reading
  /\ \A d \in {db, saved} :
       /\ d.conflict \subseteq {SidOf[i] : i \in Inodes} /\ d.gap \cup d.done \subseteq Features
       /\ \A p \in Paths : \A row \in {d.files[p]} \cup {d.cursors[f][p] : f \in Features} :
            row # Nil => row.inode \in Inodes /\ row.offset % 2 = IF row.skip THEN 1 ELSE 0
  /\ available \in BOOLEAN /\ changes \in 0 .. MaxChanges /\ mishaps \in 0 .. MaxMishaps
  /\ \A i \in Inodes : shown[i] <= Len(text[i].lines)

\* What snapshot says of a feature and of the usage of a session.
Ready(f) ==
  /\ available /\ Pending(f) = {} /\ f \in db.done /\ f \notin db.gap
  /\ \A c \in db.clash : c.kind # f

Settled(s) ==
  /\ available /\ s \notin db.conflict
  /\ \A p \in Paths : db.files[p] # Nil /\ SidOf[db.files[p].inode] = s => ~Unread(db.files[p])

Counted(l, s) ==
  l.valid /\ ~l.long /\ [kind |-> l.kind, key |-> l.key, print |-> l.print, sid |-> s] \in db.seen

\* "A covered interval ... needs completed backfill, fresh collection and no
\* unresolved gaps/conflicts": when the snapshot calls a feature ready, every
\* record that an inventory ever showed was observed, wherever its file has gone
\* since.  Excepted is a file that took over the path of another cursor and was gone
\* again before that path was visited: sync_inventory has given up its own cursor for
\* that one.  The usage the snapshot gives of a session is that of all rollouts found.
CoverageIsHonest ==
  /\ TypeOK
  /\ at = "wait" =>
    /\ \A f \in Features : Ready(f) =>
         \A i \in {i \in Inodes : <<f, i>> \notin db.merged} :
           \A n \in 1 .. shown[i] : text[i].lines[n].kind = f =>
             Counted(text[i].lines[n], SidOf[i])
    /\ \A p \in Paths : listing[p] # Nil /\ Settled(SidOf[listing[p].inode]) =>
         \A n \in 1 .. listing[p].lines :
           LET l == text[listing[p].inode].lines[n]
           IN  l.kind = "usage" => Counted(l, SidOf[listing[p].inode])
=============================================================================
