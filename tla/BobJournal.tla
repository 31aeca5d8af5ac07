------------------------------ MODULE BobJournal ------------------------------
(***************************************************************************)
(* The reader of the Bob generation journal, class JournalReader.  A scan   *)
(* is one SQLite transaction of the collector's thread; the exporter that   *)
(* writes the journal is another process and appends, rotates and removes   *)
(* files between any two steps of a scan.                                   *)
(*                                                                         *)
(* What is abstracted:                                                     *)
(*  - a file is its inode; its records are lines of Events or the line Bad, *)
(*    one that project refuses.  A complete line is 2 units long and an     *)
(*    incomplete last line 1, so sizes and offsets tell lines from halves;  *)
(*  - the time and byte budgets of a scan run out after any read;           *)
(*  - a line holds one event; a line too long to read is like one that is  *)
(*    refused, and a total that would overflow, which is a loss, is left out; *)
(*  - the retention clock is a choice: at the start of a scan any of the    *)
(*    oldest stored rows may have left the retention window.  _resolve has  *)
(*    the same test, which is never true after _prune ran with that clock;  *)
(*  - totals are kept as how often each event was added to them;            *)
(*  - an I/O error, an exception and a crash all end in the last committed  *)
(*    transaction, from which a constructor restores all the reader knows.  *)
(***************************************************************************)
EXTENDS Integers, Sequences, FiniteSets, FiniteSetsExt, SequencesExt

CONSTANTS
  Bad,            \* a complete line that project refuses
  Nil,            \* an absent row, a NULL column, an empty head
  Files,          \* inodes of the journal directory
  Events,         \* projected events: records of id, at and chat
  Starts,         \* what is in the files at first and what will be written
  MaxRows,        \* max_rows, the events a scan reads
  LinesFit,       \* the byte budget of a scan holds every first line it comes to
  LateHeads,      \* a file may get its first line after the reader opened it
  MaxEvents,      \* max_events, the rows the table of events holds
  MaxLosses,      \* SAFE_INTEGER, where the loss counter stops
  MaxWrites,      \* bound on the exporter's writes
  MaxAborts       \* bound on failed scans

ASSUME BudgetAssumption ==
  {LinesFit, LateHeads} \subseteq BOOLEAN /\ MaxRows \in Nat \ {0} /\ MaxEvents \in Nat /\ MaxLosses \in Nat \ {0}
ASSUME BoundAssumption == MaxWrites \in Nat /\ MaxAborts \in Nat
ASSUME FileAssumption == IsFiniteSet(Files)
ASSUME EventAssumption == \A e \in Events : e.at \in Nat \ {0}

Ids == {e.id : e \in Events}
Chats == {e.chat : e \in Events}
Times == {e.at : e \in Events}

\* The rows of the tables about a file, a scan, and a file while it is read.
InventoryRow ==
  [gen : Nat, oldest : Nat \cup {Nil}, complete : {-1, 0, 1}, size : Nat, ver : Nat]
FileRow == [head : Events \cup {Nil}, offset : Nat, size : Nat, discard : BOOLEAN]
Scan == [todo : SUBSET Files, order : [Files -> Nat], seen : SUBSET Files, rows : Nat,
         spent : BOOLEAN, next : Files \cup {Nil}, expired : SUBSET Ids]
OpenFile ==
  [id : Files, size : Nat, ver : Nat, head : Events \cup {Nil}, offset : Nat, discard : BOOLEAN,
   from : Nat, oldest : Nat \cup {Nil}, complete : {-1, 0, 1}, gen : Nat, limited : BOOLEAN]

ASSUME NilAssumption == Nil \notin Nat \cup Events \cup InventoryRow \cup FileRow \cup Scan \cup OpenFile

\* What is in a file and how it is known; before: the first lines it has had.
Content ==
  [here : BOOLEAN, lines : Seq(Events \cup {Bad}), tail : BOOLEAN, before : SUBSET Events,
   ver : 0 .. MaxWrites, born : 0 .. MaxWrites]

ASSUME StartAssumption ==
  \A s \in Starts :
    /\ s.disk \in [Files -> Content] /\ s.feed \in Seq(Events \cup {Bad})
    /\ \A f \in Files :
         /\ s.disk[f].ver = 0
         /\ s.disk[f].lines # <<>> => s.disk[f].lines[1] \in Events \ s.disk[f].before
         /\ s.disk[f].tail => s.disk[f].lines # <<>>

VARIABLES
  disk,       \* the journal directory, by inode
  feed,       \* the lines the exporter has still to write
  known,      \* the chats the collector has published
  db,         \* the committed capture tables
  tx,         \* the capture tables as the transaction of the scan sees them
  scan,       \* the scan in progress: files left, budget, next file, expired rows
  file,       \* the file being read, Nil between files
  writes,     \* writes of the exporter so far
  aborts,     \* failed scans so far
  forgotten   \* history: counted events that no row and no file held any more

vars == <<disk, feed, known, db, tx, scan, file, writes, aborts, forgotten>>

----------------------------------------------------------------------------
(* The journal directory.                                                   *)

Size(f) == 2 * Len(disk[f].lines) + (IF disk[f].tail THEN 1 ELSE 0)
Present == {f \in Files : disk[f].here}
FirstLine(f) == IF disk[f].lines = <<>> THEN Nil ELSE disk[f].lines[1]

\* The projection of the first complete line, empty when it has none.
HeadOf(f) == IF FirstLine(f) \in Events THEN FirstLine(f) ELSE Nil

\* The order of a scan: oldest modification first, but from the persisted cursor
\* on, and then the files before it.
Order(next) ==
  [f \in Files |-> IF f = next THEN 0
                   ELSE IF next \in Present /\ disk[f].ver < disk[next].ver
                   THEN disk[f].ver + writes + 2 ELSE disk[f].ver + 1]

----------------------------------------------------------------------------
(* The capture tables: each operator returns them after one call.           *)

Losses(t, n) == [t EXCEPT !.losses = Min({@ + n, MaxLosses})]
_Loss(t) == Losses(t, 1)

RowIds(t) == {r.id : r \in t.rows}
RowsIn(t, ids) == {r \in t.rows : r.id \in ids}
Signed(t, id) == {s \in t.dedup : s.event.id = id}

\* Adding an event to the totals of its chat.
_Add(t, e) == [t EXCEPT !.counted[e.id] = @ + 1]

\* Mutant: a row that expires before its chat is known goes without a word.
DeleteQuietly(t, ids) == [t EXCEPT !.rows = @ \ RowsIn(t, ids)]

\* Deleting rows; a row whose chat was never known is a loss.
Delete(t, ids) ==
  [Losses(t, Cardinality({r \in RowsIn(t, ids) : r.pending})) EXCEPT
     !.rows = @ \ RowsIn(t, ids)]

\* The n rows that were stored first.
FirstRows(rows, n) == {r \in rows : Cardinality({q \in rows : q.row < r.row}) < n}
OldestRows(t, n) == {r.id : r \in FirstRows(t.rows, n)}

\* The rows that left the retention window, and those before the source floor.
_Prune(t, expired) ==
  Delete(t, expired \cup {s.event.id : s \in {s \in t.dedup : s.event.at < t.floor}})

\* Every file of the inventory has been read to its end in this round.
Verified(t) == \A f \in Files : t.inv[f] # Nil => t.inv[f].complete = 1

\* Mutant: a file that changed since it was read is not noticed.
ChangedBySize(t) == {f \in Files : t.inv[f] # Nil /\ t.inv[f].size > Size(f)}

\* The files whose size or change time is no longer what was read.
Changed(t) ==
  {f \in Files : t.inv[f] # Nil /\ (t.inv[f].size # Size(f) \/ t.inv[f].ver # disk[f].ver)}

\* Looking at a file that is gone raises, and the scan fails.
Broken(t) == Verified(t) /\ \E f \in Files : t.inv[f] # Nil /\ ~disk[f].here

Oldest(t) ==
  {t.inv[f].oldest : f \in {f \in Files : t.inv[f] # Nil /\ t.inv[f].oldest # Nil}}

\* Mutant: signatures live as long as the rows.
SignaturesOfRows(t) == {s \in t.dedup : s.event.id \in RowIds(t)}

\* The signatures still backed by a row or by a record of a retained file.
Backed(t) ==
  {s \in t.dedup : s.event.id \in RowIds(t) \cup {r.id : r \in t.refs}}

\* Once a whole round verified the inventory, the floor rises to the oldest
\* retained record; a file that changed meanwhile reopens the round.
_SourceWindow(t, expired) ==
  LET risen == IF Oldest(t) = {} THEN t
               ELSE _Prune([t EXCEPT !.floor = Max({@, Min(Oldest(t))})], expired)
  IN  IF ~Verified(t) THEN t
      ELSE IF Changed(t) # {}
      THEN [t EXCEPT !.inv[CHOOSE f \in Changed(t) : TRUE].complete = 0]
      ELSE [risen EXCEPT !.dedup = Backed(risen)]

\* What a record read from the journal does: refused, seen before, in conflict
\* with what was seen, or stored, and added when its chat is known.
_Event(t, e) ==
  LET previous == Signed(t, e.id)
      conflict == {s \in previous : s.event # e /\ ~s.conflict}
      stored ==
        [t EXCEPT !.rows = @ \cup {[id |-> e.id, pending |-> e.chat \notin known,
                                    row |-> Max({r.row : r \in t.rows} \cup {0}) + 1]},
                  !.dedup = @ \cup {[event |-> e, conflict |-> FALSE]}]
  IN  IF e.at <= t.replay THEN _Loss(t)
      ELSE IF conflict # {}
      THEN _Loss([t EXCEPT !.dedup = (@ \ conflict)
                                     \cup {[s EXCEPT !.conflict = TRUE] : s \in conflict}])
      ELSE IF previous # {} THEN t
      ELSE IF e.at < t.floor \/ Cardinality(t.rows) >= MaxEvents THEN _Loss(t)
      ELSE IF e.chat \in known THEN _Add(stored, e) ELSE stored

\* Mutant: every scan looks at the first pending rows.
BatchFirst(t) == FirstRows({r \in t.rows : r.pending}, MaxRows)

\* The pending rows a scan looks at: those after the cursor, or the first ones.
Batch(t) ==
  LET after(c) == {r \in t.rows : r.pending /\ r.row > c}
  IN  FirstRows(IF after(t.cursor) = {} THEN after(0) ELSE after(t.cursor), MaxRows)

\* Joining the pending rows whose chat is known by now.
_Resolve(t) ==
  LET batch == Batch(t)
      event(r) == (CHOOSE s \in t.dedup : s.event.id = r.id).event
      joined == {r \in batch : event(r).chat \in known}
  IN  [t EXCEPT
         !.rows = (@ \ joined) \cup {[r EXCEPT !.pending = FALSE] : r \in joined},
         !.counted = [id \in Ids |-> @[id] + Cardinality({r \in joined : r.id = id})],
         !.cursor = IF batch = {} THEN 0 ELSE Max({r.row : r \in batch})]

----------------------------------------------------------------------------
(* The scan.                                                                *)

Idle == scan = Nil
Reading == scan # Nil /\ file # Nil
BeingRead == IF file = Nil THEN {} ELSE {file.id}
Nexts == {f \in scan.todo : \A g \in scan.todo : scan.order[f] <= scan.order[g]}
Spent == scan.spent \/ scan.rows >= MaxRows

FreshRow == [gen |-> 0, oldest |-> Nil, complete |-> 0, size |-> 0, ver |-> 0]

\* The inventory at the start of a scan: a new round once the last one verified
\* every file, without the files that are gone and with those that are new.
Inventory(t) ==
  [f \in Files |->
     IF ~disk[f].here THEN Nil
     ELSE IF t.inv[f] = Nil THEN FreshRow
     ELSE IF Verified(t) THEN [t.inv[f] EXCEPT !.complete = 0] ELSE t.inv[f]]

\* JournalReader.scan up to its loop over the files.
Begin(expired) ==
  LET kept == [tx EXCEPT !.inv = Inventory(tx),
                         !.refs = {r \in @ : disk[r.file].here}]
  IN  /\ Idle
      /\ tx' = _Prune(kept, expired)
      /\ scan' = [todo |-> Present, order |-> Order(tx.next), seen |-> Present, rows |-> 0,
                  spent |-> FALSE, next |-> Nil, expired |-> expired]
      /\ file' = Nil
      /\ UNCHANGED <<disk, feed, known, db, writes, aborts>>

\* A file that the budget of this scan does not reach.
Postpone(f) ==
  LET old == tx.files[f]
  IN  /\ scan # Nil /\ file = Nil /\ f \in Nexts
      /\ disk[f].here
      /\ Spent /\ ~tx.reset
      /\ scan' = [scan EXCEPT !.todo = @ \ {f}, !.next = IF @ = Nil THEN f ELSE @]
      /\ tx' = IF old = Nil \/ old.size # Size(f)
               THEN [tx EXCEPT !.inv[f].complete = IF @ = -1 THEN -1 ELSE 0]
               ELSE tx
      /\ UNCHANGED <<disk, feed, known, db, file, writes, aborts>>

\* Where reading f starts, given the head just read: at the end when the capture
\* state was lost, at the beginning when the file has no source references yet,
\* is shorter than what was read or begins differently, else where it stopped.
Position(f, head) ==
  LET old == tx.files[f]
      row == tx.inv[f]
      at == IF old = Nil \/ (row.complete = 0 /\ row.oldest = Nil)
            THEN [offset |-> 0, discard |-> FALSE]
            ELSE [offset |-> old.offset, discard |-> old.discard]
      rewritten == /\ old # Nil
                   /\ \/ Size(f) < at.offset
                      \/ old.head # Nil /\ head # Nil /\ head # old.head
  IN  IF tx.reset THEN [offset |-> Size(f), discard |-> disk[f].tail, rewritten |-> FALSE]
      ELSE IF rewritten THEN [offset |-> 0, discard |-> FALSE, rewritten |-> TRUE]
      ELSE [offset |-> at.offset, discard |-> at.discard, rewritten |-> FALSE]

\* Opening a file within the budget; short: the rest of the byte budget does not
\* hold its first line; late: reading that line used up the time.
Open(f, short, late) ==
  LET old == tx.files[f]
      head == IF short \/ tx.reset THEN Nil ELSE HeadOf(f)
      start == Position(f, head)
      grown == old = Nil \/ old.size # Size(f)
      row == IF start.rewritten
             THEN [tx.inv[f] EXCEPT !.gen = @ + 1, !.oldest = Nil, !.complete = 0]
             ELSE tx.inv[f]
  IN  /\ scan # Nil /\ file = Nil /\ f \in Nexts
      /\ disk[f].here
      /\ ~Spent \/ tx.reset
      /\ short => ~LinesFit /\ scan.rows > 0 /\ ~tx.reset /\ Size(f) > 0
      /\ short => ~late
      /\ scan' = [scan EXCEPT !.todo = @ \ {f}, !.spent = @ \/ short \/ late]
      /\ file' = [id |-> f, size |-> Size(f), ver |-> disk[f].ver,
                  head |-> IF head # Nil THEN head ELSE IF old = Nil THEN Nil ELSE old.head,
                  offset |-> start.offset, discard |-> start.discard, from |-> start.offset,
                  oldest |-> row.oldest, complete |-> row.complete, gen |-> row.gen,
                  limited |-> short]
      /\ LET t == [tx EXCEPT !.inv[f] =
                     IF grown THEN [row EXCEPT !.complete = IF @ = -1 THEN -1 ELSE 0] ELSE row]
         IN  tx' = IF start.rewritten THEN _Loss(t) ELSE t
      /\ UNCHANGED <<disk, feed, known, db, writes, aborts>>

\* The complete line at the offset, if the budget and the file have one.
AtLine == Reading /\ ~Spent /\ file.offset \div 2 < Len(disk[file.id].lines)
Line == disk[file.id].lines[file.offset \div 2 + 1]

\* The rest of the line in the middle of which a reset started.
Discard(late) ==
  /\ AtLine /\ file.discard
  /\ file' = [file EXCEPT !.offset = @ + 1, !.discard = FALSE]
  /\ scan' = [scan EXCEPT !.spent = late]
  /\ UNCHANGED <<disk, feed, known, db, tx, writes, aborts>>

OfGeneration(t, f, g) == {r \in t.refs : r.file = f => r.gen = g}

\* One complete record: its references, the inventory of the file, the source
\* window when it is the last one, and the event.
Read(late) ==
  LET f == file.id
      e == Line
      valid == e \in Events
      final == file.offset + 2 = file.size
      oldest == IF ~valid THEN file.oldest
                ELSE IF file.oldest = Nil THEN e.at ELSE Min({file.oldest, e.at})
      read == [IF valid THEN tx ELSE _Loss(tx) EXCEPT
                 !.refs = @ \cup (IF valid THEN {[file |-> f, gen |-> file.gen, id |-> e.id]}
                                  ELSE {}),
                 !.inv[f].oldest = oldest,
                 !.inv[f].complete =
                   IF file.complete = -1 THEN -1 ELSE IF final THEN 1 ELSE 0]
      last == [read EXCEPT !.inv[f].size = file.size, !.inv[f].ver = file.ver,
                           !.refs = OfGeneration(read, f, file.gen)]
      t == IF final THEN _SourceWindow(last, scan.expired) ELSE read
  IN  /\ AtLine /\ ~file.discard
      /\ ~(final /\ Broken(last))
      /\ late => scan.rows + 1 < MaxRows
      /\ tx' = IF valid THEN [_Event(t, e) EXCEPT !.passed = @ \cup {e}] ELSE t
      /\ file' = [file EXCEPT !.offset = @ + 2, !.oldest = oldest]
      /\ scan' = [scan EXCEPT !.rows = @ + 1, !.spent = late]
      /\ UNCHANGED <<disk, feed, known, db, writes, aborts>>

\* Leaving a file at the end of the budget or of its complete lines.
Close ==
  LET f == file.id
      done == ~tx.reset /\ file.complete # -1 /\ file.offset >= file.size /\ ~file.discard
      stuck == file.limited \/ (file.offset = file.from /\ file.offset < file.size)
      t == [tx EXCEPT !.files[f] = [head |-> file.head, offset |-> file.offset,
                                    size |-> file.size, discard |-> file.discard]]
  IN  /\ Reading /\ ~AtLine
      /\ tx' = IF done
               THEN [t EXCEPT !.inv[f].complete = 1, !.inv[f].size = file.size,
                              !.inv[f].ver = file.ver, !.refs = OfGeneration(t, f, file.gen)]
               ELSE IF tx.reset THEN [t EXCEPT !.inv[f].complete = -1] ELSE t
      /\ scan' = [scan EXCEPT !.next = IF stuck /\ Spent THEN f ELSE @]
      /\ file' = Nil
      /\ UNCHANGED <<disk, feed, known, db, writes, aborts>>

\* The end of the scan: the rows of vanished files, whose unread rest is a loss
\* each, the pending joins, the source window, and the commit.
Finish ==
  LET gone == {f \in Files : tx.files[f] # Nil /\ f \notin scan.seen}
      unread == {f \in gone : tx.files[f].offset < tx.files[f].size}
      t == [Losses(tx, Cardinality(unread)) EXCEPT
              !.files = [f \in Files |-> IF f \in gone THEN Nil ELSE @[f]]]
      joined == _Resolve(t)
  IN  /\ scan # Nil /\ file = Nil /\ scan.todo = {}
      /\ ~Broken(joined)
      /\ tx' = [_SourceWindow(joined, scan.expired) EXCEPT !.next = scan.next, !.reset = FALSE]
      /\ db' = tx'
      /\ scan' = Nil
      /\ UNCHANGED <<disk, feed, known, file, writes, aborts>>

Rollback == tx' = db /\ scan' = Nil /\ file' = Nil /\ UNCHANGED <<disk, feed, known, db, writes>>

\* A file that vanished under the scan makes it fail.
Fail ==
  /\ scan # Nil /\ \E f \in scan.seen : ~disk[f].here
  /\ Rollback
  /\ UNCHANGED aborts

\* Any other error, and the end of the process.
Abort ==
  /\ ~Idle /\ aborts < MaxAborts
  /\ aborts' = aborts + 1
  /\ Rollback

----------------------------------------------------------------------------
(* The capture tables are lost while the marker file remains, so that the    *)
(* reader starts a new epoch at the end of every file.                       *)

NewTables(reset, replay) ==
  [files |-> [f \in Files |-> Nil], inv |-> [f \in Files |-> Nil], refs |-> {},
   dedup |-> {}, rows |-> {}, floor |-> 0, replay |-> replay,
   losses |-> IF reset THEN 1 ELSE 0, cursor |-> 0, next |-> Nil, reset |-> reset,
   counted |-> [id \in Ids |-> 0], passed |-> {}]

LoseTables(now) ==
  /\ Idle /\ aborts < MaxAborts
  /\ aborts' = aborts + 1
  /\ tx' = NewTables(TRUE, now) /\ db' = tx'
  /\ UNCHANGED <<disk, feed, known, scan, file, writes>>

----------------------------------------------------------------------------
(* The environment: the exporter and the collector.                         *)

\* The exporter appends to the file it created last and never changes a line; what
\* is written in place of a file, under its inode, does not begin as it ever did.
Write(f, content, rest) ==
  /\ writes < MaxWrites
  /\ writes' = writes + 1
  /\ disk' = [disk EXCEPT ![f] = [content EXCEPT !.ver = writes + 1]]
  /\ feed' = rest
  /\ UNCHANGED <<known, db, tx, scan, file, aborts>>

\* The reader has the file open and knows no first line of it.
Headless(f) == f \in BeingRead /\ file.head = Nil

Active(f) == f \in Present /\ \A g \in Present : disk[g].born <= disk[f].born

AppendLine(f) ==
  /\ Active(f) /\ feed # <<>>
  /\ disk[f].lines = <<>> => Head(feed) \in Events \ disk[f].before /\ (LateHeads \/ ~Headless(f))
  /\ Write(f, [disk[f] EXCEPT !.lines = Append(@, Head(feed)), !.tail = FALSE], Tail(feed))

AppendHalf(f) ==
  /\ Active(f) /\ feed # <<>>
  /\ ~disk[f].tail /\ disk[f].lines # <<>>
  /\ Write(f, [disk[f] EXCEPT !.tail = TRUE], feed)

\* A new active file, or the active file written anew.
Rotate(f) ==
  /\ Active(f) \/ ~disk[f].here
  /\ f \in Present \/ f \notin BeingRead
  /\ Write(f, [disk[f] EXCEPT !.here = TRUE, !.lines = <<>>, !.tail = FALSE, !.born = writes + 1,
                               !.before = @ \cup ({FirstLine(f)} \ {Nil})],
           feed)

Evict(f) ==
  /\ f \in Present /\ ~Active(f)
  /\ Write(f, [disk[f] EXCEPT !.here = FALSE], feed)

Publish(c) ==
  /\ c \notin known
  /\ known' = known \cup {c}
  /\ UNCHANGED <<disk, feed, db, tx, scan, file, writes, aborts>>

----------------------------------------------------------------------------
Init ==
  /\ \E s \in Starts : disk = s.disk /\ feed = s.feed
  /\ known = {}
  /\ tx = NewTables(FALSE, 0) /\ db = tx
  /\ scan = Nil /\ file = Nil
  /\ writes = 0 /\ aborts = 0
  /\ forgotten = {}

Scanner ==
  \/ \E n \in 0 .. Cardinality(tx.rows) : Begin(OldestRows(tx, n))
  \/ \E f \in Files : Postpone(f) \/ \E short, late \in BOOLEAN : Open(f, short, late)
  \/ \E late \in BOOLEAN : Discard(late) \/ Read(late)
  \/ Close
  \/ Finish
  \/ Fail

Exporter ==
  \E f \in Files : AppendLine(f) \/ AppendHalf(f) \/ Rotate(f) \/ Evict(f)

\* A stored row or a record of one of the files still has the event.
Held(id, files) ==
  \/ id \in RowIds(tx)
  \/ \E f \in Present \cap files : \E e \in Events : e.id = id /\ e \in ToSet(disk[f].lines)

\* The files a step knows of: as long as a scan goes on, those it listed.
Listed == IF Idle \/ (scan' = Nil /\ tx' = db) THEN Files ELSE scan.seen

Next ==
  /\ \/ Scanner
     \/ Exporter
     \/ Abort
     \/ \E now \in Times : LoseTables(now)
     \/ \E c \in Chats : Publish(c)
  /\ \E files \in {Listed} :
       forgotten' = IF db'.reset /\ ~db.reset THEN {}
                    ELSE forgotten \cup {id \in Ids : tx'.counted[id] > 0 /\ ~Held(id, files)'}

Spec == Init /\ [][Next]_vars

\* The thread that scans keeps taking steps, be they those of failing scans.
FairSpec == Spec /\ []<><<TRUE>>_<<scan, file>>

----------------------------------------------------------------------------
(* Properties.                                                              *)

TypeOK ==
  /\ disk \in [Files -> Content] /\ feed \in Seq(Events \cup {Bad})
  /\ known \subseteq Chats
  /\ scan \in Scan \cup {Nil} /\ file \in OpenFile \cup {Nil}
  /\ forgotten \subseteq Ids
  /\ writes \in 0 .. MaxWrites /\ aborts \in 0 .. MaxAborts
  /\ \A t \in {db, tx} :
       /\ t.losses \in 0 .. MaxLosses
       /\ t.rows \subseteq [id : Ids, pending : BOOLEAN, row : Nat \ {0}]
       /\ t.dedup \subseteq [event : Events, conflict : BOOLEAN]
       /\ t.counted \in [Ids -> Nat]
       /\ t.files \in [Files -> FileRow \cup {Nil}] /\ t.inv \in [Files -> InventoryRow \cup {Nil}]
       /\ t.refs \subseteq [file : Files, gen : Nat, id : Ids]
       /\ t.floor \in Nat /\ t.next \in Files \cup {Nil} /\ t.reset \in BOOLEAN

\* An event is added to the totals once, however often it is read again: after a
\* failed scan, a rotation, a copy in another file or the end of its row, unless
\* a time came when neither a row nor any file of the journal held it.
CountedOnce ==
  /\ TypeOK
  /\ \A id \in Ids : tx.counted[id] > 1 => id \in forgotten

\* What the reader has passed is in the totals, or waits for its chat, or there
\* is a loss to see: an event that expired, was refused or was in conflict with
\* another of its identity never goes without a word.
LossTold ==
  db.losses = 0 =>
    \A e \in db.passed :
      \/ db.counted[e.id] > 0
      \/ \E r \in db.rows : r.id = e.id /\ r.pending

\* When the floor rises, none of the files the scan listed holds an event before
\* it, even one appended or written anew since: what the exporter retains is not
\* refused as history.  It takes that the reader saw the first line of each file
\* before it called the file read (LinesFit, and not LateHeads).
FloorBelowRetained ==
  [][\A f \in Present, e \in Events :
       tx'.floor > tx.floor /\ f \in scan.seen /\ e \in ToSet(disk[f].lines) => e.at >= tx'.floor]_vars

\* A row whose chat is known does not wait for ever, however many rows of unknown
\* chats were stored before it.
PendingResolve ==
  \A e \in Events :
    (\E r \in db.rows : r.id = e.id /\ r.pending /\ e.chat \in known)
      ~> ~(\E r \in db.rows : r.id = e.id /\ r.pending)
=============================================================================
