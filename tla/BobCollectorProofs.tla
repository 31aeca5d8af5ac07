-------------------------- MODULE BobCollectorProofs --------------------------
(***************************************************************************)
(* Theorems about BobCollector, for any rows, identities and bodies.         *)
(*                                                                         *)
(* The argument: the index belongs to a commit.  Between two generations it  *)
(* is the commit that is published (value.at), while messages are read it is *)
(* the one the transaction sees (snap), up to the row where the reader       *)
(* stands; Indexed says so of the known identities (Lists), the bodies       *)
(* (Fits) and what was skipped (Whole).  An incremental generation takes     *)
(* over the index only once every row it knew is found again (Identified),   *)
(* and only from a generation that ended well on the same file (Current).    *)
(***************************************************************************)
EXTENDS BobCollector, FiniteSetTheorems, WellFoundedInduction, TLAPS

USE RowAssumption, StartAssumption, NameAssumption, BoundAssumption

IdMaps == UNION {[D -> Ids \cup {Odd}] : D \in SUBSET Rows}
Views ==
  [task : Bodies \cup {Nil}, messages : [Ids -> Bodies \cup {Nil}], available : BOOLEAN,
   complete : BOOLEAN, pending : BOOLEAN, at : Nat, full : Nat]

Typed ==
  /\ TypeOK
  /\ work \in [version : Nat \cup {Nil}, full : BOOLEAN, cursor : {0} \cup Rows,
               todo : SUBSET Rows, matched : Nat]
  /\ index \in [task : Bodies \cup {Nil}, messages : [Ids -> Bodies \cup {Nil}]]
  /\ memory \in [file : Nat \cup {Nil}, version : Nat \cup {Nil}, cursor : {0} \cup Rows,
                 ids : IdMaps, skips : Nat, valid : BOOLEAN]
  /\ value \in Views /\ saved \in Views

\* No identity stands in two rows.
Unique(content) ==
  \A r, q \in Rows :
    /\ content.rows[r] # Nil /\ content.rows[q] # Nil
    /\ content.rows[r].id \in Ids /\ content.rows[q].id = content.rows[r].id
    => q = r

\* Commit n is the last one to the file, of the history h of the database.
Last(h, file, n) ==
  /\ n \in DOMAIN h /\ h[n].file = file
  /\ \A m \in DOMAIN h : h[m].file = file => m <= n

History ==
  /\ commits \in Seq(Content) /\ Len(commits) \in 1 .. MaxCommits
  /\ \A m \in DOMAIN commits : \E n \in DOMAIN commits : Last(commits, commits[m].file, n)
  /\ \A n \in DOMAIN commits : Unique(commits[n])

\* Where the scan is, and on which file.
Placed ==
  /\ memory.file # Nil => \E m \in DOMAIN commits : commits[m].file = memory.file
  /\ at = "start" =>
       /\ stage = Nil /\ work.version # Nil
       /\ \E n \in DOMAIN commits : Last(commits, memory.file, n) /\ work.version <= n
  /\ at = "slice" => stage # Nil
  /\ stage # Nil =>
       /\ work.version # Nil /\ work.version <= snap
       /\ commits[snap].file = memory.file

\* What the process goes on from: a generation that was published, of this file.
Current ==
  /\ memory.version # Nil =>
       /\ value.at \in DOMAIN commits /\ value.full >= 1
       /\ memory.version <= value.at /\ commits[value.at].file = memory.file
  /\ stage # Nil /\ ~work.full => memory.version # Nil /\ value.at <= snap

\* The bodies an identity has in the commits full .. n.
BodiesOf(h, full, n, id) ==
  {BodyOf(h[k], id) : k \in {k \in full .. n : Bound(h[k], id) # {}}}

\* The identities of the map ids are those of commit n up to the cursor.
Lists(h, ids, n, cursor) ==
  /\ DOMAIN ids = {r \in Rows : h[n].rows[r] # Nil /\ r <= cursor}
  /\ \A r \in DOMAIN ids : ids[r] = h[n].rows[r].id

\* A message that is missing was refused, the others have a body they had.
FitsAt(h, messages, full, n, id) ==
  IF messages[id] = Nil THEN Bad \in BodiesOf(h, full, n, id)
  ELSE messages[id] \in BodiesOf(h, full, n, id)

\* The messages are those of the identities listed, with bodies of full .. n.
Listed(ids, id) == \E r \in DOMAIN ids : ids[r] = id
Fits(h, ids, messages, full, n) ==
  \A id \in Ids :
    IF Listed(ids, id) THEN FitsAt(h, messages, full, n, id) ELSE messages[id] = Nil

\* Where nothing was skipped nothing is missing.
Whole(ids, messages, skipped) ==
  skipped = 0 => \A r \in DOMAIN ids : ids[r] # Odd /\ messages[ids[r]] # Nil

\* What the process keeps, m, and the indexed messages are of commit n, as far as
\* the cursor.
Indexed(h, m, messages, full, n, cursor) ==
  /\ Lists(h, m.ids, n, cursor)
  /\ Fits(h, m.ids, messages, full, n)
  /\ Whole(m.ids, messages, m.skips)

\* The index is still that of the last publication.
Between == stage = Nil /\ memory.version # Nil
Kept == stage \in {"tasks", "identities"} /\ ~work.full
Base == IF work.full THEN snap ELSE value.full

Holding ==
  /\ Between \/ Kept =>
       Indexed(commits, memory, index.messages, value.full, value.at, memory.cursor)
  /\ stage = "tasks" /\ work.full =>
       /\ memory.ids = NewMemory.ids /\ memory.cursor = 0 /\ memory.skips = 0
       /\ index.messages = NoMessages
  /\ stage = "identities" => ~work.full
  /\ stage = "messages" => Indexed(commits, memory, index.messages, Base, snap, work.cursor)

TaskOf(content) == IF content.task = Bad THEN Nil ELSE content.task
Missed(content) == IF content.task = Bad THEN 1 ELSE 0

TaskRead ==
  /\ stage = "tasks" => index.task = Nil /\ skips = memory.skips
  /\ stage \in {"identities", "messages"} =>
       index.task = TaskOf(Snapshot) /\ skips = memory.skips + Missed(Snapshot)

\* A row of the content is the one that was known, or one after the cursor.
Same(content, m, r) ==
  /\ content.rows[r].id # Odd
  /\ r <= m.cursor => r \in DOMAIN m.ids /\ m.ids[r] = content.rows[r].id
RowsOf(content) == {r \in Rows : content.rows[r] # Nil}

\* The rows whose identity was compared are those that were known before.
Compared(content, m, todo, matched) ==
  /\ todo \subseteq RowsOf(content)
  /\ \A r \in RowsOf(content) \ todo : Same(content, m, r)
  /\ matched = Cardinality({r \in RowsOf(content) \ todo : r <= m.cursor})
Identified ==
  stage = "identities" => Compared(commits[snap], memory, work.todo, work.matched)

\* What Coherent says of the publication, for it and for the saved one.
Complete(content, v) ==
  /\ content.task # Bad /\ Bound(content, Odd) = {}
  /\ \A id \in Ids : Bound(content, id) # {} => v.messages[id] # Nil
Shown(h, v) ==
  /\ v.task = TaskOf(h[v.at])
  /\ \A id \in Ids :
       IF Bound(h[v.at], id) = {} THEN v.messages[id] = Nil
       ELSE FitsAt(h, v.messages, v.full, v.at, id)
  /\ v.complete => Complete(h[v.at], v)
Sound(h, v) ==
  /\ v.full <= v.at
  /\ v.at # 0 => v.at \in DOMAIN h /\ v.full >= 1 /\ Shown(h, v)

Published == Sound(commits, value) /\ Sound(commits, saved)

BobInv ==
  /\ Typed /\ History /\ Placed /\ Current /\ Holding /\ TaskRead /\ Identified /\ Published

----------------------------------------------------------------------------
(* Lemmas about the history of Bob's database.                              *)

\* A set of rowids has a least one.
LEMMA Least == ASSUME NEW T \in SUBSET Nat, T # {} PROVE \E r \in T : \A q \in T : r <= q
<1> DEFINE Up(r) == 0 .. r
           Segments == {Up(r) : r \in T}
<1>1. \A r \in Nat : IsFiniteSet(Up(r))
  BY FS_Interval
<1>2. Segments \subseteq FiniteSubsetsOf(Nat)
  BY <1>1 DEF FiniteSubsetsOf
<1>3. Segments # {}
  <2>1. PICK r \in T : TRUE
    OBVIOUS
  <2>2. Up(r) \in Segments
    BY <2>1
  <2> QED BY <2>2
<1>4. IsWellFoundedOn(StrictSubsetOrdering(Nat), FiniteSubsetsOf(Nat))
  BY FS_StrictSubsetOrderingWellFounded
<1> HIDE DEF Segments
<1>5. PICK A \in Segments : \A B \in Segments : ~(<<B, A>> \in StrictSubsetOrdering(Nat))
  BY <1>2, <1>3, <1>4, WFMin
<1> USE DEF Segments
<1>6. PICK r \in T : A = Up(r)
  BY <1>5
<1>7. ASSUME NEW q \in T, q < r PROVE FALSE
  <2>1. Up(q) \in SUBSET Nat /\ Up(r) \in SUBSET Nat /\ Up(q) \subseteq Up(r) /\ Up(q) # Up(r)
    BY <1>7
  <2>2. <<Up(q), Up(r)>> \in StrictSubsetOrdering(Nat)
    BY <2>1 DEF StrictSubsetOrdering
  <2> QED BY <2>2, <1>5, <1>6
<1> QED BY <1>7

\* Rows and cursors are compared as numbers.
LEMMA RowIsNatural == Rows \subseteq Nat /\ \A r \in {0} \cup Rows : r \in Nat
<1>1. Rows \subseteq Nat
  OBVIOUS
<1>2. 0 \in Nat
  OBVIOUS
<1> QED BY <1>1, <1>2

\* There is one last commit to a file, and it is the version of the file.
LEMMA VersionIs ==
  ASSUME History, NEW file, NEW n, Last(commits, file, n)
  PROVE  Version(file) = n
<1>1. DOMAIN commits \subseteq Nat
  BY DEF History
<1>2. \A m : Last(commits, file, m) => m = n
  BY <1>1 DEF Last
<1> QED BY <1>2 DEF Version, Last

\* The last commit of all is the version of its file.
LEMMA SourceVersion ==
  ASSUME History
  PROVE  Last(commits, Source.file, Len(commits)) /\ Version(Source.file) = Len(commits)
<1>1. Last(commits, Source.file, Len(commits))
  BY DEF Last, Source, History
<1> QED BY <1>1, VersionIs

\* The body of an identity is that of the row where it stands.
LEMMA BodyIs ==
  ASSUME NEW content, Unique(content), NEW id \in Ids, NEW r \in Bound(content, id)
  PROVE  Bound(content, id) = {r} /\ BodyOf(content, id) = content.rows[r].body
<1>1. Bound(content, id) = {r}
  BY DEF Bound, Unique
<1> QED BY <1>1 DEF BodyOf

\* A later commit may only add bodies.
LEMMA MoreBodies ==
  ASSUME NEW h, NEW full \in Nat, NEW n \in Nat, NEW k \in Nat, n <= k, NEW id
  PROVE  BodiesOf(h, full, n, id) \subseteq BodiesOf(h, full, k, id)
BY DEF BodiesOf

\* Nothing that is true of the history so far is changed by one more commit.
LEMMA SameBodies ==
  ASSUME NEW h \in Seq(Content), NEW c \in Content, NEW full \in Nat \ {0}, NEW n \in DOMAIN h,
         NEW id
  PROVE  /\ n \in DOMAIN Append(h, c) /\ Append(h, c)[n] = h[n]
         /\ BodiesOf(Append(h, c), full, n, id) = BodiesOf(h, full, n, id)
<1>1. \A k \in DOMAIN h : k \in DOMAIN Append(h, c) /\ Append(h, c)[k] = h[k]
  OBVIOUS
<1>2. full .. n \subseteq DOMAIN h
  OBVIOUS
<1> HIDE DEF Content
<1> DEFINE g == Append(h, c)
<1>3. \A k \in full .. n : g[k] = h[k]
  BY <1>1, <1>2
<1> HIDE DEF g
<1>4. BodiesOf(g, full, n, id) = BodiesOf(h, full, n, id)
  <2> DEFINE K(f) == {k \in full .. n : Bound(f[k], id) # {}}
  <2>1. K(g) = K(h)
    BY <1>3
  <2>2. \A k \in K(h) : BodyOf(g[k], id) = BodyOf(h[k], id)
    BY <1>3
  <2>3. \A b : b \in {BodyOf(g[k], id) : k \in K(h)} <=> b \in {BodyOf(h[k], id) : k \in K(h)}
    BY <2>2
  <2>4. {BodyOf(g[k], id) : k \in K(h)} = {BodyOf(h[k], id) : k \in K(h)}
    BY <2>3
  <2> QED BY <2>1, <2>4 DEF BodiesOf
<1> QED BY <1>1, <1>4 DEF g

\* A publication stays what it was when Bob commits.
LEMMA SameSound ==
  ASSUME NEW h \in Seq(Content), NEW c \in Content, NEW v \in Views, Sound(h, v)
  PROVE  Sound(Append(h, c), v)
<1>1. SUFFICES ASSUME v.at # 0
               PROVE  v.at \in DOMAIN Append(h, c) /\ Shown(Append(h, c), v)
  BY DEF Sound
<1>2. v.at \in DOMAIN h /\ v.full \in Nat \ {0} /\ Shown(h, v)
  BY <1>1 DEF Sound, Views
<1>3. v.at \in DOMAIN Append(h, c) /\ Append(h, c)[v.at] = h[v.at]
  BY <1>2, SameBodies
<1>4. \A id : BodiesOf(Append(h, c), v.full, v.at, id) = BodiesOf(h, v.full, v.at, id)
  BY <1>2, SameBodies
<1>5. \A id : FitsAt(Append(h, c), v.messages, v.full, v.at, id)
                <=> FitsAt(h, v.messages, v.full, v.at, id)
  BY <1>4 DEF FitsAt
<1> QED BY <1>2, <1>3, <1>5 DEF Shown

\* So does an index that belongs to a commit.
LEMMA SameIndex ==
  ASSUME NEW h \in Seq(Content), NEW c \in Content, NEW full \in Nat \ {0}, NEW n \in DOMAIN h,
         NEW m, NEW messages, NEW cursor, Indexed(h, m, messages, full, n, cursor)
  PROVE  Indexed(Append(h, c), m, messages, full, n, cursor)
<1>1. Append(h, c)[n] = h[n]
  BY SameBodies
<1>2. \A id : BodiesOf(Append(h, c), full, n, id) = BodiesOf(h, full, n, id)
  BY SameBodies
<1>3. \A id : FitsAt(Append(h, c), messages, full, n, id) <=> FitsAt(h, messages, full, n, id)
  BY <1>2 DEF FitsAt
<1>4. Lists(Append(h, c), m.ids, n, cursor)
  BY <1>1 DEF Lists, Indexed
<1>5. Fits(Append(h, c), m.ids, messages, full, n)
  BY <1>3 DEF Fits, Indexed
<1> QED BY <1>4, <1>5 DEF Indexed

\* An identity map is a function from rows to identities.
LEMMA IdMapFacts ==
  ASSUME NEW f \in IdMaps
  PROVE  DOMAIN f \subseteq Rows /\ \A r \in DOMAIN f : f[r] \in Ids \cup {Odd}
<1>1. PICK D \in SUBSET Rows : f \in [D -> Ids \cup {Odd}]
  BY DEF IdMaps
<1>2. DOMAIN f = D
  BY <1>1
<1> QED BY <1>1, <1>2

LEMMA IdMapIntro ==
  ASSUME NEW D \in SUBSET Rows, NEW f \in [D -> Ids \cup {Odd}] PROVE f \in IdMaps
BY DEF IdMaps

----------------------------------------------------------------------------
(* Bob commits.                                                             *)

\* One more commit, whatever it holds.
LEMMA CommitStep ==
  ASSUME BobInv, NEW content \in Content, Unique(content), Commit(content)
  PROVE  BobInv'
<1> DEFINE n == Len(commits)
<1>1. /\ commits \in Seq(Content) /\ n \in Nat /\ n >= 1 /\ n < MaxCommits
      /\ commits' = Append(commits, content)
      /\ UNCHANGED <<at, stage, snap, work, index, memory, skips, value, saved, due, mishaps>>
  BY DEF Commit, BobInv, History
<1> HIDE DEF Content
<1>2. /\ commits' \in Seq(Content) /\ Len(commits') = n + 1 /\ DOMAIN commits' = 1 .. n + 1
      /\ DOMAIN commits = 1 .. n /\ commits'[n + 1] = content
      /\ \A m \in DOMAIN commits : commits'[m] = commits[m]
  BY <1>1
<1> HIDE DEF n
<1>3. Typed'
  <2>1. Typed
    BY DEF BobInv
  <2>2. DOMAIN commits' \subseteq 1 .. MaxCommits /\ \A m \in DOMAIN commits' : commits'[m] \in Content
    BY <1>1, <1>2
  <2>3. value.at <= Len(commits')
    BY <2>1, <1>1, <1>2 DEF Typed, TypeOK, n, Views
  <2>4. (value.at \in 0 .. Len(commits))'
    BY <2>1, <2>3, <1>1, <1>2 DEF Typed, Views
  <2>5. snap \in {0} \cup DOMAIN commits'
    BY <2>1, <1>1, <1>2 DEF Typed, TypeOK
  <2>6. (snap \in {0} \cup DOMAIN commits)'
    BY <2>5, <1>1
  <2>7. TypeOK'
    BY <2>1, <2>2, <2>4, <2>6, <1>1 DEF Typed, TypeOK
  <2> QED BY <2>1, <2>7, <1>1 DEF Typed
<1>4. \A f : Last(commits', f, n + 1) <=> f = content.file
  BY <1>1, <1>2 DEF Last
<1>5. \A f, m : Last(commits, f, m) /\ f # content.file => Last(commits', f, m)
  BY <1>1, <1>2 DEF Last
<1>6. History'
  <2>1. \A m \in DOMAIN commits' : \E k \in DOMAIN commits' : Last(commits', commits'[m].file, k)
    <3> TAKE m \in DOMAIN commits'
    <3>1. CASE commits'[m].file = content.file
      BY <3>1, <1>4, <1>2, <1>1
    <3>2. CASE commits'[m].file # content.file
      <4>1. m \in DOMAIN commits /\ commits'[m] = commits[m]
        BY <3>2, <1>1, <1>2
      <4>2. PICK k \in DOMAIN commits : Last(commits, commits[m].file, k)
        BY <4>1 DEF BobInv, History
      <4> QED BY <4>1, <4>2, <3>2, <1>5, <1>2, <1>1
    <3> QED BY <3>1, <3>2
  <2>2. \A m \in DOMAIN commits' : Unique(commits'[m])
    BY <1>1, <1>2 DEF BobInv, History
  <2> QED BY <2>1, <2>2, <1>1, <1>2 DEF History
<1>7. Placed'
  <2>1. Placed
    BY DEF BobInv
  <2>2. (memory.file # Nil => \E m \in DOMAIN commits : commits[m].file = memory.file)'
    BY <2>1, <1>1, <1>2 DEF Placed
  <2>3. ASSUME at = "start"
        PROVE  \E k \in DOMAIN commits' : Last(commits', memory.file, k) /\ work.version <= k
    <3>1. PICK k \in DOMAIN commits : Last(commits, memory.file, k) /\ work.version <= k
      BY <2>1, <2>3 DEF Placed
    <3>2. CASE memory.file = content.file
      <4>1. work.version \in Nat
        BY <2>1, <2>3 DEF Placed, BobInv, Typed
      <4>2. work.version <= n + 1
        BY <3>1, <4>1, <1>2, <1>1
      <4> QED BY <3>2, <4>2, <1>4, <1>2, <1>1
    <3> QED BY <3>1, <3>2, <1>5, <1>2, <1>1
  <2>4. stage # Nil => snap \in DOMAIN commits
    BY DEF BobInv, Typed, TypeOK
  <2> QED BY <2>1, <2>2, <2>3, <2>4, <1>1, <1>2 DEF Placed
<1>8. Current'
  BY <1>1, <1>2 DEF BobInv, Current
<1>9. Holding'
  <2>1. stage # Nil => snap \in DOMAIN commits
    BY DEF BobInv, Typed, TypeOK
  <2>2. Between \/ Kept => value.at \in DOMAIN commits /\ value.full \in Nat \ {0}
    BY DEF BobInv, Typed, Views, Current, Between, Kept
  <2>3. stage = "messages" => Base \in Nat \ {0}
    BY <2>1, <1>2 DEF BobInv, Typed, Views, Current, Base
  <2>4. Between \/ Kept =>
          Indexed(commits', memory, index.messages, value.full, value.at, memory.cursor)
    BY <2>2, <1>1, SameIndex DEF BobInv, Holding
  <2>5. stage = "messages" => Indexed(commits', memory, index.messages, Base, snap, work.cursor)
    BY <2>1, <2>3, <1>1, SameIndex DEF BobInv, Holding
  <2>6. (Between <=> Between') /\ (Kept <=> Kept') /\ Base' = Base
    BY <1>1 DEF Between, Kept, Base
  <2> QED BY <2>4, <2>5, <2>6, <1>1 DEF BobInv, Holding
<1>10. TaskRead'
  <2>1. stage \in {"identities", "messages"} => snap \in DOMAIN commits
    BY DEF BobInv, Typed, TypeOK
  <2> QED BY <2>1, <1>1, <1>2 DEF BobInv, TaskRead, Snapshot
<1>11. Identified'
  <2>1. stage = "identities" => snap \in DOMAIN commits
    BY DEF BobInv, Typed, TypeOK
  <2> QED BY <2>1, <1>1, <1>2 DEF BobInv, Identified
<1>12. Published'
  BY <1>1, SameSound DEF BobInv, Published, Typed
<1> QED BY <1>3, <1>6, <1>7, <1>8, <1>9, <1>10, <1>11, <1>12 DEF BobInv

\* Bob commits what keeps the identities unique.
LEMMA BobStep == ASSUME BobInv, Bob PROVE BobInv'
<1>1. Source \in Content /\ Unique(Source)
  <2>1. Len(commits) \in DOMAIN commits
    BY DEF BobInv, History
  <2> QED BY <2>1 DEF BobInv, History, Source
<1>2. ASSUME NEW b \in Bodies \cup {Bad}, Commit([Source EXCEPT !.task = b]) PROVE BobInv'
  <2>1. [Source EXCEPT !.task = b] \in Content /\ Unique([Source EXCEPT !.task = b])
    BY <1>1 DEF Content, Unique
  <2> QED BY <2>1, <1>2, CommitStep
<1>3. ASSUME NEW r \in Rows, NEW m \in Message,
             Unused(m.id) \/ m.id = Odd \/ (Source.rows[r] # Nil /\ Source.rows[r].id = m.id),
             Commit([Source EXCEPT !.rows[r] = m])
      PROVE  BobInv'
  <2> DEFINE c == [Source EXCEPT !.rows[r] = m]
  <2>1. c \in Content
    BY <1>1 DEF Content
  <2>2. \A q \in Rows : c.rows[q] = IF q = r THEN m ELSE Source.rows[q]
    BY <1>1 DEF Content
  <2> HIDE DEF c
  <2>3. ASSUME NEW q \in Rows, NEW p \in Rows, c.rows[q] # Nil, c.rows[p] # Nil,
               c.rows[q].id \in Ids, c.rows[p].id = c.rows[q].id
        PROVE  p = q
    <3>1. CASE q = r \/ p = r
      <4>1. m.id \in Ids /\ m.id # Odd
        BY <3>1, <2>2, <2>3
      <4>2. CASE Unused(m.id)
        BY <3>1, <4>2, <2>2, <2>3 DEF Unused
      <4>3. CASE Source.rows[r] # Nil /\ Source.rows[r].id = m.id
        BY <3>1, <4>1, <4>3, <2>2, <2>3, <1>1 DEF Unique
      <4> QED BY <4>1, <4>2, <4>3, <1>3
    <3>2. CASE q # r /\ p # r
      BY <3>2, <2>2, <2>3, <1>1 DEF Unique
    <3> QED BY <3>1, <3>2
  <2>4. Unique(c)
    BY <2>3 DEF Unique
  <2> QED BY <2>1, <2>4, <1>3, CommitStep DEF c
<1>4. ASSUME NEW r \in Rows, Commit([Source EXCEPT !.rows[r] = Nil]) PROVE BobInv'
  <2> DEFINE c == [Source EXCEPT !.rows[r] = Nil]
  <2>1. c \in Content
    BY <1>1 DEF Content
  <2>2. \A q \in Rows : c.rows[q] = IF q = r THEN Nil ELSE Source.rows[q]
    BY <1>1 DEF Content
  <2> HIDE DEF c
  <2>3. Unique(c)
    BY <2>2, <1>1 DEF Unique
  <2> QED BY <2>1, <2>3, <1>4, CommitStep DEF c
<1>5. ASSUME Commit([Source EXCEPT !.file = @ + 1, !.rows = [r \in Rows |-> Nil]]) PROVE BobInv'
  <2> DEFINE none == [r \in Rows |-> Nil]
             later == Source.file + 1
             c == [Source EXCEPT !.file = later, !.rows = none]
  <2>1. none \in [Rows -> Message \cup {Nil}] /\ \A q \in Rows : none[q] = Nil
    OBVIOUS
  <2>2. later \in Nat
    BY <1>1 DEF Content
  <2>3. Commit(c)
    BY <1>5
  <2> HIDE DEF none, later
  <2>4. c \in Content /\ c.rows = none
    BY <2>1, <2>2, <1>1 DEF Content
  <2>5. Unique(c)
    BY <2>1, <2>4 DEF Unique
  <2> HIDE DEF c
  <2> QED BY <2>3, <2>4, <2>5, CommitStep
<1> QED BY <1>2, <1>3, <1>4, <1>5 DEF Bob

----------------------------------------------------------------------------
(* The beginning of a scan.                                                 *)

\* A new process knows no message.
LEMMA NewMemoryFacts ==
  /\ NewMemory \in [file : {Nil}, version : {Nil}, cursor : {0}, ids : IdMaps, skips : {0},
                    valid : BOOLEAN]
  /\ DOMAIN NewMemory.ids = {}
<1>1. NewMemory.ids = [r \in {} |-> Nil]
  BY DEF NewMemory
<1>2. NewMemory.ids \in [{} -> Ids \cup {Odd}]
  BY <1>1
<1>3. NewMemory.ids \in IdMaps
  BY <1>2, IdMapIntro
<1> QED BY <1>2, <1>3 DEF NewMemory

LEMMA NoWorkFacts ==
  NoWork \in [version : {Nil}, full : BOOLEAN, cursor : {0}, todo : SUBSET Rows, matched : {0}]
BY DEF NoWork

\* The first process starts with an empty index.
LEMMA InitStep == ASSUME Init PROVE BobInv
<1>1. PICK rows \in Starts, b \in Bodies : commits = <<[file |-> 1, task |-> b, rows |-> rows]>>
  BY DEF Init
<1> DEFINE c == [file |-> 1, task |-> b, rows |-> rows]
<1>2. /\ at = "wait" /\ stage = Nil /\ snap = 0 /\ work = NoWork
      /\ index = [task |-> Nil, messages |-> NoMessages]
      /\ memory = NewMemory /\ skips = 0
      /\ value = [Nothing EXCEPT !.pending = TRUE] /\ saved = Nothing
      /\ due = TRUE /\ mishaps = 0
  BY DEF Init
<1>3. c \in Content /\ Unique(c)
  BY DEF Content, Message, Unique
<1> HIDE DEF c
<1>4. commits = <<c>>
  BY <1>1 DEF c
<1>5. /\ commits \in Seq(Content) /\ Len(commits) = 1 /\ DOMAIN commits = {1}
      /\ commits[1] = c
  BY <1>3, <1>4
<1>6. NewMemory.ids \in IdMaps /\ DOMAIN NewMemory.ids = {}
  BY NewMemoryFacts
<1>7. NewMemory \in [file : {Nil}, version : {Nil}, cursor : {0},
                     ids : IdMaps, skips : {0}, valid : BOOLEAN]
  BY NewMemoryFacts
<1>8. NoMessages \in [Ids -> Bodies \cup {Nil}]
  BY DEF NoMessages
<1>9. Nothing \in Views /\ value \in Views /\ Nothing.at = 0 /\ Nothing.full = 0
      /\ value.at = 0 /\ value.full = 0
  BY <1>2, <1>8 DEF Nothing, Views
<1>10. work \in [version : {Nil}, full : BOOLEAN, cursor : {0}, todo : SUBSET Rows, matched : {0}]
  BY <1>2 DEF NoWork
<1>11. TypeOK
  <2>1. DOMAIN commits \subseteq 1 .. MaxCommits /\ \A n \in DOMAIN commits : commits[n] \in Content
    BY <1>3, <1>5
  <2>2. index.task \in Bodies \cup {Nil} /\ index.messages \in [Ids -> Bodies \cup {Nil}]
    BY <1>2, <1>8
  <2>3. /\ memory.cursor \in {0} \cup Rows /\ DOMAIN memory.ids \subseteq Rows
        /\ memory.skips \in Nat /\ skips \in Nat
    BY <1>2, <1>6, <1>7
  <2> QED BY <2>1, <2>2, <2>3, <1>2, <1>9, <1>5 DEF TypeOK
<1>12. Typed
  BY <1>2, <1>7, <1>8, <1>9, <1>10, <1>11 DEF Typed
<1>13. History
  BY <1>3, <1>5 DEF History, Last
<1>14. Placed /\ Current /\ TaskRead /\ Identified
  BY <1>2, <1>7 DEF Placed, Current, TaskRead, Identified
<1>15. Holding
  BY <1>2, <1>7 DEF Holding, Between, Kept
<1>16. Published
  BY <1>2, <1>9 DEF Published, Sound
<1> QED BY <1>12, <1>13, <1>14, <1>15, <1>16 DEF BobInv

\* A scan that finds nothing to do goes on from the publication of this very file.
LEMMA UnchangedStep == ASSUME BobInv, Unchanged PROVE BobInv'
<1>1. Version(Source.file) = Len(commits) /\ Len(commits) \in Nat
  BY SourceVersion DEF BobInv, History
<1>2. Opened.version \in Nat
  BY <1>1 DEF Unchanged, UpToDate
<1>3. memory.file = Source.file /\ memory' = memory
  BY <1>2 DEF Opened, BobInv, Typed, Unchanged
<1>4. value' = [value EXCEPT !.available = TRUE] /\ value \in Views
  BY DEF Unchanged, BobInv, Typed
<1>5. /\ value' \in Views /\ value'.at = value.at /\ value'.full = value.full
      /\ value'.complete = value.complete /\ value'.task = value.task
      /\ value'.messages = value.messages
  BY <1>4 DEF Views
<1>6. UNCHANGED <<commits, at, stage, snap, work, index, skips, saved, due, mishaps>>
  BY DEF Unchanged
<1>7. Typed'
  BY <1>3, <1>5, <1>6 DEF BobInv, Typed, TypeOK
<1>8. History' /\ Placed' /\ Current' /\ TaskRead' /\ Identified'
  BY <1>3, <1>5, <1>6 DEF BobInv, History, Placed, Current, TaskRead, Identified, Snapshot
<1>9. Holding'
  BY <1>3, <1>5, <1>6 DEF BobInv, Holding, Between, Kept, Base
<1>10. Published'
  BY <1>5, <1>6 DEF BobInv, Published, Sound, Shown, Complete
<1> QED BY <1>7, <1>8, <1>9, <1>10 DEF BobInv

\* The flags of a view say nothing about what it shows.
LEMMA SameView ==
  ASSUME NEW h, NEW v \in Views, Sound(h, v), NEW u \in Views,
         u.task = v.task, u.messages = v.messages, u.at = v.at, u.full = v.full,
         u.complete => v.complete
  PROVE  Sound(h, u)
BY DEF Sound, Shown, Complete, FitsAt

\* A generation goes on where the last slice ended.
LEMMA OpenGoing == ASSUME BobInv, Open, Going PROVE BobInv'
<1>1. /\ memory' = memory /\ at = "wait" /\ at' = "slice" /\ stage # Nil
      /\ value' = [value EXCEPT !.available = TRUE, !.pending = TRUE, !.complete = FALSE]
      /\ UNCHANGED <<commits, stage, snap, work, index, skips, saved, due, mishaps>>
  BY DEF Open, Going, Opened
<1>2. /\ value' \in Views /\ value'.at = value.at /\ value'.full = value.full
      /\ value'.task = value.task /\ value'.messages = value.messages /\ ~value'.complete
  BY <1>1 DEF Views, BobInv, Typed
<1>3. Typed'
  BY <1>1, <1>2 DEF BobInv, Typed, TypeOK
<1>4. History' /\ Placed' /\ Current' /\ TaskRead' /\ Identified'
  BY <1>1, <1>2 DEF BobInv, History, Placed, Current, TaskRead, Identified, Snapshot
<1>5. Holding'
  BY <1>1, <1>2 DEF BobInv, Holding, Between, Kept, Base
<1>6. Published'
  BY <1>1, <1>2, SameView DEF BobInv, Typed, Published
<1> QED BY <1>3, <1>4, <1>5, <1>6 DEF BobInv

\* The version is read before the transaction begins.
LEMMA OpenAnew == ASSUME BobInv, Open, ~Going PROVE BobInv'
<1>1. /\ at = "wait" /\ at' = "start" /\ stage' = Nil /\ snap' = 0
      /\ work' = [NoWork EXCEPT !.version = Version(Source.file)]
      /\ memory' = Opened
      /\ UNCHANGED <<commits, value, index, skips, saved, due, mishaps>>
  BY DEF Open
<1>2. /\ Last(commits, Source.file, Len(commits)) /\ Version(Source.file) = Len(commits)
      /\ Len(commits) \in Nat /\ Len(commits) \in DOMAIN commits /\ Source \in Content
  <2>1. Len(commits) \in Nat /\ Len(commits) \in DOMAIN commits
    BY DEF BobInv, History
  <2> QED BY <2>1, SourceVersion DEF BobInv, History, Source
<1>3. /\ work' \in [version : Nat, full : BOOLEAN, cursor : {0}, todo : SUBSET Rows,
                    matched : Nat]
      /\ work'.version = Len(commits)
  BY <1>1, <1>2, NoWorkFacts
<1>4. /\ memory' \in [file : Nat, version : Nat \cup {Nil}, cursor : {0} \cup Rows,
                      ids : IdMaps, skips : Nat, valid : BOOLEAN]
      /\ memory'.file = Source.file
      /\ memory'.cursor = memory.cursor /\ memory'.ids = memory.ids
      /\ memory'.skips = memory.skips
      /\ memory'.version # Nil => memory' = memory
  BY <1>1, <1>2 DEF Opened, BobInv, Typed, Content
<1>5. Typed'
  BY <1>1, <1>3, <1>4 DEF BobInv, Typed, TypeOK
<1>6. Placed'
  <2>1. Source.file = commits[Len(commits)].file
    BY DEF Source
  <2>2. \E m \in DOMAIN commits : commits[m].file = memory'.file
    BY <2>1, <1>2, <1>4
  <2>3. \E n \in DOMAIN commits : Last(commits, memory'.file, n) /\ work'.version <= n
    BY <1>2, <1>3, <1>4
  <2> QED BY <2>2, <2>3, <1>1, <1>3 DEF Placed
<1>7. Current'
  BY <1>1, <1>4 DEF BobInv, Current
<1>8. Holding'
  <2>1. ASSUME memory'.version # Nil PROVE Between /\ memory' = memory
    BY <2>1, <1>4 DEF Between, Going
  <2> QED BY <2>1, <1>1 DEF BobInv, Holding, Between, Kept
<1>9. History' /\ TaskRead' /\ Identified' /\ Published'
  BY <1>1 DEF BobInv, History, TaskRead, Identified, Published
<1> QED BY <1>5, <1>6, <1>7, <1>8, <1>9 DEF BobInv

\* The transaction begins: what it sees is no older than what was published.
LEMMA StartStep == ASSUME BobInv, Start PROVE BobInv'
<1>1. PICK n \in DOMAIN commits : Last(commits, memory.file, n) /\ work.version <= n
  BY DEF Start, BobInv, Placed
<1>2. Version(memory.file) = n /\ n \in Nat \ {0} /\ commits[n].file = memory.file
  BY <1>1, VersionIs DEF BobInv, History, Last
<1>3. /\ at = "start" /\ stage = Nil /\ snap' = n
      /\ work' = [work EXCEPT !.full = Full]
      /\ stage' = "tasks" /\ at' = "slice"
      /\ value' = [value EXCEPT !.available = TRUE, !.pending = TRUE, !.complete = FALSE]
      /\ UNCHANGED <<commits, saved, due, mishaps>>
  BY <1>2 DEF Start, BobInv, Placed
<1>4. Full \in BOOLEAN
  BY DEF Full, BobInv, Typed, TypeOK
<1>5. /\ work' \in [version : Nat \cup {Nil}, full : BOOLEAN, cursor : {0} \cup Rows,
                    todo : SUBSET Rows, matched : Nat]
      /\ work'.full = Full /\ work'.version = work.version
  BY <1>3, <1>4 DEF BobInv, Typed
<1>6. /\ value' \in Views /\ value'.at = value.at /\ value'.full = value.full
      /\ value'.task = value.task /\ value'.messages = value.messages /\ ~value'.complete
  BY <1>3 DEF Views, BobInv, Typed
<1>7. /\ index' \in [task : {Nil}, messages : [Ids -> Bodies \cup {Nil}]]
      /\ memory' \in [file : Nat \cup {Nil}, version : Nat \cup {Nil},
                      cursor : {0} \cup Rows, ids : IdMaps, skips : Nat, valid : BOOLEAN]
      /\ memory'.file = memory.file /\ memory'.version = memory.version
      /\ skips' = memory'.skips
      /\ Full => /\ index'.messages = NoMessages /\ memory'.ids = NewMemory.ids
                 /\ memory'.cursor = 0 /\ memory'.skips = 0
      /\ ~Full => index'.messages = index.messages /\ memory' = memory
  <2>1. CASE Full
    <3>1. index' = [task |-> Nil, messages |-> NoMessages] /\ skips' = 0 /\ memory' = Forgotten
      BY <2>1 DEF Start
    <3>2. NoMessages \in [Ids -> Bodies \cup {Nil}]
      BY DEF NoMessages
    <3>3. NewMemory.ids \in IdMaps
      BY NewMemoryFacts
    <3> QED BY <2>1, <3>1, <3>2, <3>3 DEF Forgotten, BobInv, Typed
  <2>2. CASE ~Full
    <3>1. index' = [index EXCEPT !.task = Nil] /\ skips' = memory.skips /\ memory' = memory
      BY <2>2 DEF Start
    <3> QED BY <2>2, <3>1 DEF BobInv, Typed
  <2> QED BY <2>1, <2>2, <1>4
<1>8. DOMAIN memory'.ids \subseteq Rows
  BY <1>7, IdMapFacts
<1>9. Typed'
  <2>1. TypeOK'
    BY <1>1, <1>2, <1>3, <1>6, <1>7, <1>8 DEF BobInv, Typed, TypeOK
  <2> QED BY <2>1, <1>3, <1>5, <1>6, <1>7 DEF BobInv, Typed
<1>10. Placed'
  BY <1>1, <1>2, <1>3, <1>5, <1>7 DEF BobInv, Placed
<1>11. Current'
  <2>1. ASSUME ~Full PROVE memory.version # Nil /\ value.at <= n
    <3>1. memory.version # Nil
      BY <2>1 DEF Full
    <3> QED BY <3>1, <1>1 DEF BobInv, Current, Last
  <2> QED BY <2>1, <1>3, <1>5, <1>6, <1>7 DEF BobInv, Current
<1>12. Holding'
  <2>1. ASSUME ~Full
        PROVE  Indexed(commits, memory, index.messages, value.full, value.at, memory.cursor)
    BY <2>1, <1>3 DEF Full, Between, BobInv, Holding
  <2> QED BY <2>1, <1>3, <1>5, <1>6, <1>7 DEF Holding, Between, Kept
<1>13. History' /\ TaskRead' /\ Identified'
  BY <1>3, <1>7 DEF BobInv, History, TaskRead, Identified
<1>14. Published'
  BY <1>3, <1>6, SameView DEF BobInv, Typed, Published
<1> QED BY <1>9, <1>10, <1>11, <1>12, <1>13, <1>14 DEF BobInv

\* The budget of a slice runs out, and time passes.
LEMMA EndStep == ASSUME BobInv, EndSlice \/ Tick PROVE BobInv'
<1>1. /\ UNCHANGED <<commits, stage, snap, work, index, memory, skips, value, saved, mishaps>>
      /\ at' \in {"wait", "start", "slice"} /\ due' \in BOOLEAN
      /\ at' = "wait" \/ at' = at
  BY DEF EndSlice, Tick, BobInv, Typed, TypeOK
<1>2. Typed'
  BY <1>1 DEF BobInv, Typed, TypeOK
<1>3. History' /\ Placed' /\ Current' /\ TaskRead' /\ Identified' /\ Published'
  BY <1>1 DEF BobInv, History, Placed, Current, TaskRead, Identified, Snapshot, Published
<1>4. Holding'
  BY <1>1 DEF BobInv, Holding, Between, Kept, Base
<1> QED BY <1>2, <1>3, <1>4 DEF BobInv

\* An error and the end of the process leave no version to go on from.
LEMMA MishapStep == ASSUME BobInv, Fail \/ Restart PROVE BobInv'
<1>1. /\ stage' = Nil /\ snap' = 0 /\ work' = NoWork /\ at' = "wait"
      /\ UNCHANGED <<commits, index, saved>>
      /\ mishaps < MaxMishaps /\ mishaps' = mishaps + 1
  BY DEF Fail, Restart
<1>2. mishaps' \in 0 .. MaxMishaps
  BY <1>1 DEF BobInv, Typed, TypeOK
<1>3. due' \in BOOLEAN /\ skips' \in Nat
  <2>1. due \in BOOLEAN /\ skips \in Nat
    BY DEF BobInv, Typed, TypeOK
  <2>2. CASE Fail
    BY <2>1, <2>2 DEF Fail
  <2>3. CASE Restart
    BY <2>3 DEF Restart
  <2> QED BY <2>2, <2>3
<1>4. /\ memory' \in [file : Nat \cup {Nil}, version : {Nil},
                      cursor : {0} \cup Rows, ids : IdMaps, skips : Nat, valid : BOOLEAN]
      /\ memory'.file # Nil => memory'.file = memory.file
  <2>1. CASE Fail
    BY <2>1 DEF Fail, BobInv, Typed
  <2>2. CASE Restart
    BY <2>2, NewMemoryFacts DEF Restart
  <2> QED BY <2>1, <2>2
<1>5. value' \in Views /\ Sound(commits, value')
  <2>1. CASE Fail
    <3>1. /\ value' \in Views /\ value'.at = value.at /\ value'.full = value.full
          /\ value'.task = value.task /\ value'.messages = value.messages /\ ~value'.complete
      BY <2>1 DEF Fail, Views, BobInv, Typed
    <3> QED BY <3>1, SameView DEF BobInv, Typed, Published
  <2>2. CASE Restart
    <3>1. /\ value' \in Views /\ value'.at = saved.at /\ value'.full = saved.full
          /\ value'.task = saved.task /\ value'.messages = saved.messages /\ ~value'.complete
      BY <2>2 DEF Restart, Views, BobInv, Typed
    <3> QED BY <3>1, SameView DEF BobInv, Typed, Published
  <2> QED BY <2>1, <2>2
<1>6. DOMAIN memory'.ids \subseteq Rows
  BY <1>4, IdMapFacts
<1>7. value'.full <= value'.at /\ value'.at \in 0 .. Len(commits)
  <2>1. value'.at # 0 => value'.at \in DOMAIN commits
    BY <1>5 DEF Sound
  <2> QED BY <2>1, <1>5 DEF Sound, Views, BobInv, History
<1>8. Typed'
  <2>1. TypeOK'
    BY <1>1, <1>2, <1>3, <1>4, <1>5, <1>6, <1>7 DEF BobInv, Typed, TypeOK
  <2> QED BY <2>1, <1>1, <1>4, <1>5, NoWorkFacts DEF BobInv, Typed
<1>9. History' /\ Placed' /\ Current' /\ TaskRead' /\ Identified' /\ Published'
  BY <1>1, <1>4, <1>5 DEF BobInv, History, Placed, Current, TaskRead, Identified, Published
<1>10. Holding'
  BY <1>1, <1>4 DEF Holding, Between, Kept
<1> QED BY <1>8, <1>9, <1>10 DEF BobInv

----------------------------------------------------------------------------
(* A slice reads.                                                           *)

\* Where a complete read begins, nothing is known and nothing is indexed.
LEMMA EmptyIndex ==
  ASSUME NEW h, NEW n, NEW full, NEW m, m.ids = NewMemory.ids
  PROVE  Indexed(h, m, NoMessages, full, n, 0)
<1>1. DOMAIN m.ids = {}
  BY NewMemoryFacts
<1>2. \A id \in Ids : NoMessages[id] = Nil /\ ~Listed(m.ids, id)
  BY <1>1 DEF NoMessages, Listed
<1>3. Lists(h, m.ids, n, 0)
  <2>1. \A r \in Rows : ~(r <= 0)
    OBVIOUS
  <2>2. {r \in Rows : h[n].rows[r] # Nil /\ r <= 0} = {}
    BY <2>1
  <2> QED BY <1>1, <2>2 DEF Lists
<1> QED BY <1>1, <1>2, <1>3 DEF Indexed, Fits, Whole

\* What the collector sees of the task.
LEMMA TaskStep == ASSUME BobInv, ReadTask PROVE BobInv'
<1>1. /\ at = "slice" /\ stage = "tasks" /\ stage # Nil
      /\ snap \in DOMAIN commits /\ snap # 0 /\ Snapshot = commits[snap] /\ Snapshot \in Content
      /\ UNCHANGED <<commits, at, snap, memory, value, saved, due, mishaps>>
  BY DEF ReadTask, Snapshot, BobInv, Typed, TypeOK
<1>2. index.task = Nil /\ skips = memory.skips /\ skips \in Nat
  BY <1>1 DEF BobInv, Typed, TypeOK, TaskRead
<1>3. /\ index' \in [task : Bodies \cup {Nil}, messages : [Ids -> Bodies \cup {Nil}]]
      /\ index'.messages = index.messages /\ index'.task = TaskOf(Snapshot)
      /\ skips' \in Nat /\ skips' = memory.skips + Missed(Snapshot)
  <2>1. CASE Snapshot.task = Bad
    BY <2>1, <1>2 DEF ReadTask, TaskOf, Missed, BobInv, Typed
  <2>2. CASE Snapshot.task # Bad
    BY <2>2, <1>1, <1>2 DEF ReadTask, TaskOf, Missed, BobInv, Typed, Content
  <2> QED BY <2>1, <2>2
<1>4. /\ work' \in [version : Nat \cup {Nil}, full : BOOLEAN, cursor : {0} \cup Rows,
                    todo : SUBSET Rows, matched : Nat]
      /\ work'.full = work.full /\ work'.version = work.version
      /\ stage' \in {"messages", "identities"} /\ stage' # Nil
      /\ work.full => stage' = "messages" /\ work'.cursor = memory.cursor
      /\ ~work.full => stage' = "identities" /\ work'.todo = Present /\ work'.matched = 0
  <2>1. Present \subseteq Rows
    BY DEF Present
  <2>2. CASE work.full
    <3>1. stage' = "messages" /\ work' = [work EXCEPT !.cursor = memory.cursor, !.todo = {}]
      BY <2>2 DEF ReadTask, BeginMessages
    <3>2. memory.cursor \in {0} \cup Rows
      BY DEF BobInv, Typed
    <3>3. stage' # Nil
      BY <3>1
    <3> QED BY <2>2, <3>1, <3>2, <3>3 DEF BobInv, Typed
  <2>3. CASE ~work.full
    <3>1. stage' = "identities" /\ work' = [work EXCEPT !.todo = Present, !.matched = 0]
      BY <2>3 DEF ReadTask
    <3>2. stage' # Nil
      BY <3>1
    <3> QED BY <2>1, <2>3, <3>1, <3>2 DEF BobInv, Typed
  <2> QED BY <2>2, <2>3
<1>5. Typed'
  BY <1>1, <1>3, <1>4 DEF BobInv, Typed, TypeOK
<1>6. History' /\ Placed' /\ Current' /\ Published'
  BY <1>1, <1>4 DEF BobInv, History, Placed, Current, Published
<1>7. Holding'
  <2>1. CASE work.full
    <3>1. memory.ids = NewMemory.ids /\ memory.cursor = 0 /\ index.messages = NoMessages
      BY <2>1, <1>1 DEF BobInv, Holding
    <3>2. Indexed(commits, memory, NoMessages, snap, snap, 0)
      BY <3>1, EmptyIndex
    <3> QED BY <2>1, <3>1, <3>2, <1>1, <1>3, <1>4 DEF Holding, Between, Kept, Base
  <2>2. CASE ~work.full
    BY <2>2, <1>1, <1>3, <1>4 DEF BobInv, Holding, Between, Kept
  <2> QED BY <2>1, <2>2
<1>8. TaskRead'
  BY <1>1, <1>3, <1>4 DEF TaskRead, Snapshot
<1>9. Identified'
  <2>1. SUFFICES ASSUME ~work.full PROVE Compared(commits[snap], memory, Present, 0)
    BY <1>1, <1>4 DEF Identified
  <2>2. Present = RowsOf(commits[snap])
    BY <1>1 DEF Present, RowsOf
  <2>3. {r \in RowsOf(commits[snap]) \ Present : r <= memory.cursor} = {}
    BY <2>2
  <2> QED BY <2>2, <2>3, FS_EmptySet DEF Compared
<1> QED BY <1>5, <1>6, <1>7, <1>8, <1>9 DEF BobInv

\* _reset_messages: the reading of the messages begins anew.
LEMMA ResetStep ==
  ASSUME BobInv, at = "slice", stage = "identities", Reset, stage' = "messages",
         work' = [work EXCEPT !.full = TRUE, !.cursor = 0]
           \/ work' = [work EXCEPT !.full = TRUE, !.cursor = 0, !.todo = {}],
         UNCHANGED <<commits, at, snap, value, saved, due, mishaps>>
  PROVE  BobInv'
<1>1. /\ stage # Nil /\ stage' # Nil /\ snap \in DOMAIN commits /\ snap # 0
  BY DEF BobInv, Typed, TypeOK
<1>2. /\ skips = memory.skips + Missed(Snapshot) /\ skips \in Nat /\ memory.skips \in Nat
      /\ Missed(Snapshot) \in Nat
  BY DEF BobInv, Typed, TypeOK, TaskRead, Missed
<1>3. skips' = Missed(Snapshot) /\ skips' \in Nat
  BY <1>2 DEF Reset
<1>4. /\ memory' \in [file : Nat \cup {Nil}, version : Nat \cup {Nil}, cursor : {0}, ids : IdMaps,
                      skips : {0}, valid : BOOLEAN]
      /\ memory'.ids = NewMemory.ids /\ memory'.file = memory.file
      /\ memory'.version = memory.version
  <2>1. NewMemory.ids \in IdMaps
    BY NewMemoryFacts
  <2> QED BY <2>1 DEF Reset, Forgotten, BobInv, Typed
<1>5. /\ index' \in [task : Bodies \cup {Nil}, messages : [Ids -> Bodies \cup {Nil}]]
      /\ index'.task = index.task /\ index'.messages = NoMessages
  <2>1. NoMessages \in [Ids -> Bodies \cup {Nil}]
    BY DEF NoMessages
  <2> QED BY <2>1 DEF Reset, BobInv, Typed
<1>6. /\ work' \in [version : Nat \cup {Nil}, full : BOOLEAN, cursor : {0}, todo : SUBSET Rows,
                    matched : Nat]
      /\ work'.full /\ work'.cursor = 0 /\ work'.version = work.version
  <2>1. work \in [version : Nat \cup {Nil}, full : BOOLEAN, cursor : {0} \cup Rows,
                  todo : SUBSET Rows, matched : Nat]
    BY DEF BobInv, Typed
  <2>2. CASE work' = [work EXCEPT !.full = TRUE, !.cursor = 0]
    BY ONLY <2>1, <2>2
  <2>3. CASE work' = [work EXCEPT !.full = TRUE, !.cursor = 0, !.todo = {}]
    BY ONLY <2>1, <2>3
  <2> QED BY <2>2, <2>3
<1>7. DOMAIN memory'.ids \subseteq Rows
  BY <1>4, IdMapFacts
<1>8. Typed'
  <2>1. TypeOK'
    BY <1>1, <1>3, <1>4, <1>5, <1>7 DEF BobInv, Typed, TypeOK
  <2> QED BY <2>1, <1>4, <1>5, <1>6 DEF BobInv, Typed
<1>9. History' /\ Placed' /\ Current' /\ Published'
  BY <1>1, <1>4, <1>6 DEF BobInv, History, Placed, Current, Published
<1>10. Holding'
  <2>1. Indexed(commits, memory', NoMessages, snap, snap, 0)
    BY <1>4, EmptyIndex
  <2> QED BY <2>1, <1>1, <1>5, <1>6 DEF Holding, Between, Kept, Base
<1>11. TaskRead' /\ Identified'
  BY <1>3, <1>4, <1>5 DEF BobInv, TaskRead, Identified, Snapshot
<1> QED BY <1>8, <1>9, <1>10, <1>11 DEF BobInv

\* One identity is compared, or is not the one it was.
LEMMA IdentityStep == ASSUME BobInv, NEW r \in Rows, CheckIdentity(r) PROVE BobInv'
<1>1. CASE Known(r)
  <2>1. /\ stage = "identities" /\ stage # Nil /\ r \in work.todo
        /\ work' = [work EXCEPT !.todo = @ \ {r},
                                !.matched = IF r <= memory.cursor THEN @ + 1 ELSE @]
        /\ UNCHANGED <<commits, at, snap, stage, index, memory, skips, value, saved, due, mishaps>>
    BY <1>1 DEF CheckIdentity
  <2> DEFINE more == IF r <= memory.cursor THEN work.matched + 1 ELSE work.matched
  <2>2. more \in Nat
    BY DEF BobInv, Typed
  <2> HIDE DEF more
  <2>3. /\ work' \in [version : Nat \cup {Nil}, full : BOOLEAN, cursor : {0} \cup Rows,
                      todo : SUBSET Rows, matched : Nat]
        /\ work'.full = work.full /\ work'.version = work.version
        /\ work'.cursor = work.cursor
        /\ work'.todo = work.todo \ {r} /\ work'.matched = more
    <3>1. work' = [work EXCEPT !.todo = work.todo \ {r}, !.matched = more]
      BY <2>1 DEF more
    <3> QED BY <2>2, <3>1 DEF BobInv, Typed
  <2>4. Typed'
    BY <2>1, <2>3 DEF BobInv, Typed, TypeOK
  <2>5. History' /\ Placed' /\ Current' /\ Published' /\ TaskRead'
    BY <2>1, <2>3 DEF BobInv, History, Placed, Current, Published, TaskRead, Snapshot
  <2>6. Holding'
    BY <2>1, <2>3 DEF BobInv, Holding, Between, Kept
  <2> DEFINE rows == RowsOf(commits[snap])
             before == {q \in rows \ work.todo : q <= memory.cursor}
             after == {q \in rows \ (work.todo \ {r}) : q <= memory.cursor}
  <2>7. Compared(commits[snap], memory, work.todo, work.matched)
    BY <2>1 DEF BobInv, Identified
  <2>8. r \in rows /\ r \notin before
    BY <2>1, <2>7 DEF Compared
  <2>9. Same(commits[snap], memory, r)
    BY <1>1 DEF Known, Same, Snapshot
  <2>10. IsFiniteSet(before)
    BY FS_Subset DEF RowsOf
  <2>11. after = IF r <= memory.cursor THEN before \cup {r} ELSE before
    BY <2>8
  <2>12. Cardinality(after) = more
    <3>1. work.matched = Cardinality(before)
      BY <2>7 DEF Compared
    <3> HIDE DEF before, after
    <3> QED BY <2>8, <2>10, <2>11, <3>1, FS_AddElement DEF more
  <2>13. Compared(commits[snap], memory, work.todo \ {r}, more)
    BY <2>7, <2>9, <2>12 DEF Compared
  <2>14. Identified'
    BY <2>1, <2>3, <2>13 DEF Identified
  <2> QED BY <2>4, <2>5, <2>6, <2>14 DEF BobInv
<1>2. CASE ~Known(r)
  BY <1>2, ResetStep DEF CheckIdentity
<1> QED BY <1>1, <1>2

\* Every identity known before stands where it stood: the index is of the commit seen.
LEMMA AllIdentified ==
  ASSUME BobInv, stage = "identities", work.todo = {}, AllFound
  PROVE  Indexed(commits, memory, index.messages, value.full, snap, memory.cursor)
<1> DEFINE c == commits[snap]
           found == {r \in RowsOf(c) : r <= memory.cursor}
<1>1. /\ value.at \in Nat /\ snap \in Nat /\ value.at <= snap /\ value.full \in Nat
      /\ Indexed(commits, memory, index.messages, value.full, value.at, memory.cursor)
      /\ memory.ids \in IdMaps
  <2>1. snap \in Nat
    BY DEF BobInv, Typed, TypeOK, History
  <2> QED BY <2>1 DEF BobInv, Holding, Kept, Current, Typed, Views
<1>2. Compared(c, memory, {}, work.matched)
  BY DEF BobInv, Identified
<1>3. \A r \in found : r \in DOMAIN memory.ids /\ memory.ids[r] = c.rows[r].id
  BY <1>2 DEF Compared, Same
<1>4. Cardinality(found) = Cardinality(DOMAIN memory.ids)
  <2>1. found = {r \in RowsOf(c) \ {} : r <= memory.cursor}
    OBVIOUS
  <2> QED BY <2>1, <1>2 DEF Compared, AllFound
<1>5. IsFiniteSet(DOMAIN memory.ids)
  BY <1>1, IdMapFacts, FS_Subset
<1>6. found = DOMAIN memory.ids
  <2>1. found \in SUBSET DOMAIN memory.ids
    BY <1>3
  <2> HIDE DEF found
  <2> QED BY <2>1, <1>4, <1>5, FS_Subset
<1>7. Lists(commits, memory.ids, snap, memory.cursor)
  BY <1>3, <1>6 DEF Lists, RowsOf
<1>8. \A id : BodiesOf(commits, value.full, value.at, id)
                \subseteq BodiesOf(commits, value.full, snap, id)
  BY <1>1, MoreBodies
<1>9. Fits(commits, memory.ids, index.messages, value.full, snap)
  BY <1>1, <1>8 DEF Indexed, Fits, FitsAt
<1> QED BY <1>1, <1>7, <1>9 DEF Indexed

\* Every identity was compared: go on after the cursor, or read everything.
LEMMA IdentifiedStep == ASSUME BobInv, IdentitiesChecked PROVE BobInv'
<1>1. CASE AllFound
  <2>1. /\ stage = "identities" /\ stage # Nil /\ work.todo = {} /\ stage' = "messages" /\ stage' # Nil
        /\ work' = [work EXCEPT !.cursor = memory.cursor]
        /\ UNCHANGED <<commits, at, snap, index, memory, skips, value, saved, due, mishaps>>
    BY <1>1 DEF IdentitiesChecked
  <2>2. /\ work' \in [version : Nat \cup {Nil}, full : BOOLEAN, cursor : {0} \cup Rows,
                      todo : SUBSET Rows, matched : Nat]
        /\ work'.full = work.full /\ work'.version = work.version
        /\ work'.cursor = memory.cursor
    BY <2>1 DEF BobInv, Typed
  <2>3. Typed'
    BY <2>1, <2>2 DEF BobInv, Typed, TypeOK
  <2>4. History' /\ Placed' /\ Current' /\ Published' /\ TaskRead' /\ Identified'
    BY <2>1, <2>2
       DEF BobInv, History, Placed, Current, Published, TaskRead, Snapshot, Identified
  <2>5. ~work.full
    BY <2>1 DEF BobInv, Holding
  <2>6. Holding'
    BY <1>1, <2>1, <2>2, <2>5, AllIdentified DEF Holding, Between, Kept, Base
  <2> QED BY <2>3, <2>4, <2>6 DEF BobInv
<1>2. CASE ~AllFound
  BY <1>2, ResetStep DEF IdentitiesChecked
<1> QED BY <1>1, <1>2

\* The body of a message that is read is one its identity has.
LEMMA BodyHere ==
  ASSUME NEW h, NEW n \in Nat, NEW full \in Nat, full <= n, Unique(h[n]), NEW r \in Rows,
         h[n].rows[r] # Nil, NEW id \in Ids, h[n].rows[r].id = id
  PROVE  h[n].rows[r].body \in BodiesOf(h, full, n, id)
<1>1. r \in Bound(h[n], id)
  BY DEF Bound
<1>2. BodyOf(h[n], id) = h[n].rows[r].body
  BY <1>1, BodyIs
<1>3. n \in full .. n
  OBVIOUS
<1> QED BY <1>1, <1>2, <1>3 DEF BodiesOf

\* The message after the cursor is known from now on.
Extended(ids, r, id) == [k \in DOMAIN ids \cup {r} |-> IF k = r THEN id ELSE ids[k]]

NextRow(h, n, ids, cursor, r, id) ==
  /\ Unique(h[n]) /\ ids \in IdMaps /\ cursor \in {0} \cup Rows
  /\ r \in Rows /\ h[n].rows[r] # Nil /\ ~(r <= cursor)
  /\ id \in Ids \cup {Odd} /\ h[n].rows[r].id = id
  /\ \A q \in Rows : h[n].rows[q] # Nil /\ ~(q <= cursor) => r <= q
  /\ Lists(h, ids, n, cursor)

\* With the next row the known identities are those up to it.
LEMMA ExtendedLists ==
  ASSUME NEW h, NEW n, NEW ids, NEW cursor, NEW r, NEW id, NextRow(h, n, ids, cursor, r, id)
  PROVE  LET now == Extended(ids, r, id)
         IN  /\ now \in IdMaps /\ Lists(h, now, n, r)
             /\ r \notin DOMAIN ids /\ (id # Odd => ~Listed(ids, id))
             /\ DOMAIN now = DOMAIN ids \cup {r} /\ now[r] = id
             /\ \A q \in DOMAIN ids : q # r /\ now[q] = ids[q]
             /\ \A x : Listed(now, x) <=> x = id \/ Listed(ids, x)
<1> USE DEF NextRow
<1> DEFINE now == Extended(ids, r, id)
<1>1. /\ DOMAIN ids = {q \in Rows : h[n].rows[q] # Nil /\ q <= cursor}
      /\ \A q \in DOMAIN ids : ids[q] = h[n].rows[q].id
      /\ \A q \in DOMAIN ids : ids[q] \in Ids \cup {Odd}
  BY IdMapFacts DEF Lists
<1>2. r \notin DOMAIN ids
  BY <1>1
<1>3. DOMAIN now = DOMAIN ids \cup {r} /\ now[r] = id /\ \A q \in DOMAIN ids : q # r /\ now[q] = ids[q]
  BY <1>2 DEF Extended
<1>4. now \in IdMaps
  <2>1. DOMAIN ids \cup {r} \in SUBSET Rows
    BY <1>1
  <2>2. now \in [DOMAIN ids \cup {r} -> Ids \cup {Odd}]
    BY <1>1 DEF Extended
  <2> HIDE DEF now
  <2> QED BY <2>1, <2>2, IdMapIntro
<1>5. DOMAIN now = {q \in Rows : h[n].rows[q] # Nil /\ q <= r}
  <2>1. \A q \in Rows : q <= cursor => q <= r
    <3>1. cursor \in Nat /\ r \in Nat /\ Rows \subseteq Nat /\ ~(r <= cursor)
      BY RowIsNatural
    <3> QED BY ONLY <3>1
  <2>2. \A q \in Rows : r <= q /\ q <= r => q = r
    OBVIOUS
  <2>3. r <= r
    OBVIOUS
  <2>4. \A q : q \in DOMAIN ids \cup {r} <=> q \in {q_1 \in Rows : h[n].rows[q_1] # Nil /\ q_1 <= r}
    BY <2>1, <2>2, <2>3, <1>1
  <2> HIDE DEF now
  <2> QED BY <2>4, <1>3
<1>6. ASSUME id # Odd PROVE ~Listed(ids, id)
  <2>1. SUFFICES ASSUME NEW q \in DOMAIN ids, ids[q] = id PROVE FALSE
    BY DEF Listed
  <2>2. q \in Rows /\ h[n].rows[q] # Nil /\ h[n].rows[q].id = id
    BY <2>1, <1>1
  <2>3. q = r
    BY <2>2, <1>6 DEF Unique
  <2> QED BY <2>3, <1>2
<1> HIDE DEF now
<1>7. \A x : Listed(now, x) <=> x = id \/ Listed(ids, x)
  BY <1>3 DEF Listed
<1>8. Lists(h, now, n, r)
  BY <1>1, <1>3, <1>5 DEF Lists
<1> QED BY <1>2, <1>3, <1>4, <1>6, <1>7, <1>8 DEF now

\* A message is read, or counted as skipped.
LEMMA ReadStep == ASSUME BobInv, ReadMessage PROVE BobInv'
<1> DEFINE r == CHOOSE k \in Unread : \A l \in Unread : k <= l
           message == Snapshot.rows[r]
           ids == Extended(memory.ids, r, message.id)
<1>1. /\ at = "slice" /\ stage = "messages" /\ stage # Nil
      /\ snap \in DOMAIN commits /\ snap # 0 /\ snap \in Nat
      /\ Snapshot = commits[snap] /\ Snapshot \in Content /\ Unique(commits[snap])
      /\ UNCHANGED <<commits, at, stage, snap, value, saved, due, mishaps>>
  BY DEF ReadMessage, Snapshot, BobInv, Typed, TypeOK, History
<1>2. r \in Unread /\ \A l \in Unread : r <= l
  <2>1. Unread \in SUBSET Nat /\ Unread # {}
    BY DEF ReadMessage, Unread, Present
  <2> QED BY <2>1, Least
<1> HIDE DEF r
<1>3. /\ r \in Rows /\ commits[snap].rows[r] # Nil /\ message \in Message
      /\ ~(r <= work.cursor) /\ work.cursor \in {0} \cup Rows
      /\ \A q \in Rows : commits[snap].rows[q] # Nil /\ ~(q <= work.cursor) => r <= q
  <2>1. work.cursor \in {0} \cup Rows /\ \A q \in Rows : q > work.cursor <=> ~(q <= work.cursor)
    <3>1. work.cursor \in {0} \cup Rows
      BY DEF BobInv, Typed
    <3>2. work.cursor \in Nat /\ Rows \subseteq Nat
      BY <3>1, RowIsNatural
    <3>3. \A q \in Rows : q > work.cursor <=> ~(q <= work.cursor)
      BY ONLY <3>2
    <3> QED BY <3>1, <3>3
  <2>2. \A q : q \in Unread <=> q \in Rows /\ commits[snap].rows[q] # Nil /\ ~(q <= work.cursor)
    BY <2>1, <1>1 DEF Unread, Present
  <2>3. commits[snap].rows \in [Rows -> Message \cup {Nil}]
    BY <1>1 DEF Content
  <2>4. message = commits[snap].rows[r]
    BY <1>1
  <2> QED BY <2>1, <2>2, <2>3, <2>4, <1>2
<1>4. /\ memory.ids \in IdMaps /\ Base \in Nat /\ Base <= snap
      /\ Indexed(commits, memory, index.messages, Base, snap, work.cursor)
  <2>1. memory.ids \in IdMaps /\ Indexed(commits, memory, index.messages, Base, snap, work.cursor)
    BY <1>1 DEF BobInv, Typed, Holding
  <2>2. ~work.full => value.at <= snap /\ value.full <= value.at
    BY <1>1 DEF BobInv, Current, Published, Sound
  <2>3. value.at \in Nat /\ value.full \in Nat
    BY DEF BobInv, Typed, Views
  <2> QED BY <2>1, <2>2, <2>3, <1>1 DEF Base
<1>5. /\ ids \in IdMaps /\ Lists(commits, ids, snap, r)
      /\ ~Listed(memory.ids, message.id) \/ message.id = Odd
      /\ DOMAIN ids = DOMAIN memory.ids \cup {r} /\ ids[r] = message.id
      /\ \A q \in DOMAIN memory.ids : q # r /\ ids[q] = memory.ids[q]
      /\ \A x : Listed(ids, x) <=> x = message.id \/ Listed(memory.ids, x)
  <2>1. message.id \in Ids \cup {Odd} /\ message = commits[snap].rows[r]
    BY <1>1, <1>3 DEF Message
  <2>2. Lists(commits, memory.ids, snap, work.cursor)
    BY <1>4 DEF Indexed
  <2> DEFINE id == message.id
             h == commits
             known == memory.ids
             cursor == work.cursor
  <2>3. id \in Ids \cup {Odd} /\ h[snap].rows[r].id = id
    BY <2>1
  <2>4. NextRow(h, snap, known, cursor, r, id)
    BY <2>2, <2>3, <1>1, <1>3, <1>4 DEF NextRow
  <2> HIDE DEF message, id, h, known, cursor
  <2>5. LET now == Extended(known, r, id)
        IN  /\ now \in IdMaps /\ Lists(h, now, snap, r)
            /\ r \notin DOMAIN known /\ (id # Odd => ~Listed(known, id))
            /\ DOMAIN now = DOMAIN known \cup {r} /\ now[r] = id
            /\ \A q \in DOMAIN known : q # r /\ now[q] = known[q]
            /\ \A x : Listed(now, x) <=> x = id \/ Listed(known, x)
    BY <2>4, ExtendedLists
  <2> QED BY <2>5 DEF id, h, known
<1>6. /\ work' \in [version : Nat \cup {Nil}, full : BOOLEAN, cursor : {0} \cup Rows,
                    todo : SUBSET Rows, matched : Nat]
      /\ work'.full = work.full /\ work'.version = work.version /\ work'.cursor = r
  <2>1. work' = [work EXCEPT !.cursor = r]
    BY DEF ReadMessage, r
  <2> QED BY <2>1, <1>3 DEF BobInv, Typed
<1> DEFINE skipped == message.id = Odd \/ message.body = Bad
<1>7. /\ memory' \in [file : Nat \cup {Nil}, version : Nat \cup {Nil}, cursor : {0} \cup Rows,
                      ids : IdMaps, skips : Nat, valid : BOOLEAN]
      /\ memory'.ids = ids /\ memory'.file = memory.file /\ memory'.version = memory.version
      /\ memory'.cursor = memory.cursor
      /\ memory'.skips = IF skipped THEN memory.skips + 1 ELSE memory.skips
  <2> DEFINE valid == memory.valid /\ message.id # Odd
             read == [memory EXCEPT !.ids = ids, !.valid = valid]
  <2>1. memory' = IF skipped THEN Skipped(read) ELSE read
    BY DEF ReadMessage, r, Extended
  <2>2. valid \in BOOLEAN
    BY DEF BobInv, Typed
  <2>3. memory \in [file : Nat \cup {Nil}, version : Nat \cup {Nil}, cursor : {0} \cup Rows,
                    ids : IdMaps, skips : Nat, valid : BOOLEAN]
    BY DEF BobInv, Typed
  <2> HIDE DEF valid, ids, skipped
  <2>4. read \in [file : Nat \cup {Nil}, version : Nat \cup {Nil}, cursor : {0} \cup Rows,
                  ids : IdMaps, skips : Nat, valid : BOOLEAN]
        /\ read.ids = ids /\ read.file = memory.file /\ read.version = memory.version
        /\ read.cursor = memory.cursor /\ read.skips = memory.skips
    BY <2>2, <2>3, <1>5
  <2> DEFINE more == read.skips + 1
  <2>6. Skipped(read) = [read EXCEPT !.skips = more]
    BY DEF Skipped
  <2> HIDE DEF read
  <2>5. more \in Nat
    BY <2>4
  <2>7. more = memory.skips + 1
    BY <2>4
  <2> HIDE DEF more
  <2> QED BY <2>1, <2>4, <2>5, <2>6, <2>7
<1>8. index' = IF skipped THEN index ELSE [index EXCEPT !.messages[message.id] = message.body]
  BY DEF ReadMessage, r
<1>9. skips' = IF skipped THEN skips + 1 ELSE skips
  BY DEF ReadMessage, r
<1>10. /\ skips \in Nat /\ memory.skips \in Nat /\ skips = memory.skips + Missed(Snapshot)
       /\ Missed(Snapshot) \in Nat
  BY <1>1 DEF BobInv, Typed, TypeOK, TaskRead, Missed
<1>11. skips' \in Nat /\ skips' = memory'.skips + Missed(Snapshot)
  BY <1>7, <1>9, <1>10
<1>12. index \in [task : Bodies \cup {Nil}, messages : [Ids -> Bodies \cup {Nil}]]
  BY DEF BobInv, Typed
<1>13. ASSUME ~skipped
       PROVE  /\ message.id \in Ids /\ message.body \in Bodies /\ message.body # Nil
              /\ index' \in [task : Bodies \cup {Nil}, messages : [Ids -> Bodies \cup {Nil}]]
              /\ index'.task = index.task
              /\ index'.messages = [index.messages EXCEPT ![message.id] = message.body]
  <2>1. message.id \in Ids /\ message.body \in Bodies /\ message.body # Nil
    BY <1>3, <1>13 DEF Message
  <2> QED BY <2>1, <1>8, <1>12, <1>13
<1>14. /\ index' \in [task : Bodies \cup {Nil}, messages : [Ids -> Bodies \cup {Nil}]]
       /\ index'.task = index.task
  BY <1>8, <1>12, <1>13
<1> HIDE DEF ids
<1>15. Fits(commits, ids, index'.messages, Base, snap)
  <2>1. Fits(commits, memory.ids, index.messages, Base, snap)
    BY <1>4 DEF Indexed
  <2>2. ASSUME message.id \in Ids
        PROVE  message.body \in BodiesOf(commits, Base, snap, message.id)
    BY <2>2, <1>1, <1>3, <1>4, BodyHere
  <2>3. SUFFICES ASSUME NEW x \in Ids
                 PROVE  IF Listed(ids, x) THEN FitsAt(commits, index'.messages, Base, snap, x)
                        ELSE index'.messages[x] = Nil
    BY DEF Fits
  <2>4. CASE x = message.id
    <3>1. Listed(ids, x) /\ ~Listed(memory.ids, x)
      BY <2>4, <1>5
    <3>2. CASE skipped
      <4>1. message.body = Bad /\ index'.messages[x] = Nil
        BY <3>1, <3>2, <2>1, <2>4, <1>8 DEF Fits
      <4> QED BY <3>1, <4>1, <2>2, <2>4 DEF FitsAt
    <3>3. CASE ~skipped
      <4>1. index'.messages[x] = message.body /\ message.body # Nil
        BY <3>3, <2>4, <1>12, <1>13
      <4> QED BY <3>1, <4>1, <2>2, <2>4 DEF FitsAt
    <3> QED BY <3>2, <3>3
  <2>5. CASE x # message.id
    <3>1. Listed(ids, x) <=> Listed(memory.ids, x)
      BY <2>5, <1>5
    <3>2. index'.messages[x] = index.messages[x]
      BY <2>5, <1>8, <1>12, <1>13
    <3> QED BY <3>1, <3>2, <2>1 DEF Fits, FitsAt
  <2> QED BY <2>4, <2>5
<1>16. Whole(ids, index'.messages, memory'.skips)
  <2>1. SUFFICES ASSUME memory'.skips = 0
                 PROVE  \A q \in DOMAIN ids : ids[q] # Odd /\ index'.messages[ids[q]] # Nil
    BY DEF Whole
  <2>2. ~skipped /\ memory.skips = 0
    BY <2>1, <1>7, <1>10
  <2>3. \A q \in DOMAIN memory.ids : memory.ids[q] # Odd /\ index.messages[memory.ids[q]] # Nil
    BY <2>2, <1>4 DEF Indexed, Whole
  <2>4. TAKE q \in DOMAIN ids
  <2>5. CASE q = r
    BY <2>2, <2>5, <1>5, <1>12, <1>13
  <2>6. CASE q # r
    <3>1. q \in DOMAIN memory.ids /\ ids[q] = memory.ids[q]
      BY <2>6, <1>5
    <3>2. ids[q] \in Ids /\ ids[q] # Odd /\ index.messages[ids[q]] # Nil
      BY <3>1, <2>3, <1>4, IdMapFacts
    <3> QED BY <3>2, <2>2, <1>12, <1>13
  <2> QED BY <2>5, <2>6
<1>17. DOMAIN memory'.ids \subseteq Rows
  BY <1>7, IdMapFacts
<1>18. Typed'
  <2>1. TypeOK'
    BY <1>1, <1>7, <1>11, <1>14, <1>17 DEF BobInv, Typed, TypeOK
  <2> QED BY <2>1, <1>1, <1>6, <1>7, <1>14 DEF BobInv, Typed
<1>19. History' /\ Placed' /\ Current' /\ Published'
  BY <1>1, <1>6, <1>7 DEF BobInv, History, Placed, Current, Published
<1>20. Holding'
  <2>1. Base' = Base
    BY <1>1, <1>6 DEF Base
  <2>2. Indexed(commits, memory', index'.messages, Base, snap, r)
    BY <1>5, <1>7, <1>15, <1>16 DEF Indexed
  <2> QED BY <2>1, <2>2, <1>1, <1>6 DEF Holding, Between, Kept
<1>21. TaskRead' /\ Identified'
  BY <1>1, <1>11, <1>14 DEF BobInv, TaskRead, Identified, Snapshot
<1> QED BY <1>18, <1>19, <1>20, <1>21 DEF BobInv

\* With nothing left to read, the indexed messages are those of the commit seen.
LEMMA AllRead ==
  ASSUME BobInv, stage = "messages", Unread = {}
  PROVE  /\ snap \in DOMAIN commits /\ snap \in Nat \ {0}
         /\ DOMAIN memory.ids = RowsOf(commits[snap])
         /\ Indexed(commits, memory, index.messages, Base, snap, work.cursor)
         /\ \A id \in Ids : Bound(commits[snap], id) # {} <=> Listed(memory.ids, id)
<1> DEFINE c == commits[snap]
<1>1. snap \in DOMAIN commits /\ snap \in Nat \ {0} /\ Snapshot = c
  BY DEF BobInv, Typed, TypeOK, History, Snapshot
<1>2. Indexed(commits, memory, index.messages, Base, snap, work.cursor)
  BY DEF BobInv, Holding
<1>3. /\ DOMAIN memory.ids = {r \in Rows : c.rows[r] # Nil /\ r <= work.cursor}
      /\ \A r \in DOMAIN memory.ids : memory.ids[r] = c.rows[r].id
  BY <1>2 DEF Indexed, Lists
<1>4. ASSUME NEW r \in Rows, c.rows[r] # Nil PROVE r <= work.cursor
  <2>1. work.cursor \in Nat /\ r \in Nat
    BY RowIsNatural DEF BobInv, Typed
  <2>2. ~(r > work.cursor)
    BY <1>1, <1>4 DEF Unread, Present
  <2> QED BY ONLY <2>1, <2>2
<1>5. DOMAIN memory.ids = RowsOf(c)
  BY <1>3, <1>4 DEF RowsOf
<1>6. \A id \in Ids : Bound(c, id) # {} <=> Listed(memory.ids, id)
  BY <1>3, <1>5 DEF Bound, Listed, RowsOf
<1> QED BY <1>1, <1>2, <1>5, <1>6

\* The generation is published.
LEMMA FinishStep == ASSUME BobInv, Finish PROVE BobInv'
<1> DEFINE c == commits[snap]
<1>1. /\ at = "slice" /\ stage = "messages" /\ stage # Nil /\ Unread = {}
      /\ stage' = Nil /\ snap' = 0 /\ work' = NoWork /\ at' = "wait"
      /\ UNCHANGED <<commits, index, skips, mishaps>>
  BY DEF Finish
<1>2. /\ snap \in DOMAIN commits /\ snap \in Nat \ {0}
      /\ DOMAIN memory.ids = RowsOf(c)
      /\ Indexed(commits, memory, index.messages, Base, snap, work.cursor)
      /\ \A id \in Ids : Bound(c, id) # {} <=> Listed(memory.ids, id)
  BY <1>1, AllRead
<1>3. Base \in Nat \ {0} /\ Base <= snap
  <2>1. ~work.full => value.full >= 1 /\ value.at <= snap /\ value.full <= value.at
    BY <1>1 DEF BobInv, Current, Published, Sound
  <2>2. value.at \in Nat /\ value.full \in Nat
    BY DEF BobInv, Typed, Views
  <2> QED BY <2>1, <2>2, <1>2 DEF Base
<1>4. /\ value' = [task |-> index.task, messages |-> index.messages, available |-> TRUE,
                   complete |-> skips = 0, pending |-> FALSE, at |-> snap, full |-> Base]
      /\ saved' = value'
  BY DEF Finish, Base
<1> HIDE DEF Base
<1>5. /\ index.task \in Bodies \cup {Nil} /\ index.messages \in [Ids -> Bodies \cup {Nil}]
      /\ index.task = TaskOf(c) /\ skips = memory.skips + Missed(c)
      /\ skips \in Nat /\ memory.skips \in Nat
  BY <1>1 DEF BobInv, Typed, TypeOK, TaskRead, Snapshot
<1>6. /\ value' \in Views /\ value'.at = snap /\ value'.full = Base
      /\ value'.task = index.task /\ value'.messages = index.messages
      /\ value'.complete <=> skips = 0
  <2>1. (skips = 0) \in BOOLEAN
    OBVIOUS
  <2> QED BY <2>1, <1>2, <1>3, <1>4, <1>5 DEF Views
<1>7. Shown(commits, value')
  <2>1. \A id \in Ids :
          IF Bound(c, id) = {} THEN index.messages[id] = Nil
          ELSE FitsAt(commits, index.messages, Base, snap, id)
    BY <1>2 DEF Indexed, Fits
  <2>2. ASSUME skips = 0
        PROVE  /\ c.task # Bad /\ Bound(c, Odd) = {}
               /\ \A id \in Ids : Bound(c, id) # {} => index.messages[id] # Nil
    <3>1. memory.skips = 0 /\ c.task # Bad
      BY <2>2, <1>5 DEF Missed
    <3>2. \A r \in DOMAIN memory.ids : memory.ids[r] # Odd /\ index.messages[memory.ids[r]] # Nil
      BY <3>1, <1>2 DEF Indexed, Whole
    <3>3. \A r \in RowsOf(c) : memory.ids[r] = c.rows[r].id
      BY <1>2 DEF Indexed, Lists
    <3>4. ASSUME NEW r \in Bound(c, Odd) PROVE FALSE
      <4>1. r \in RowsOf(c) /\ c.rows[r].id = Odd
        BY DEF Bound, RowsOf
      <4>2. r \in DOMAIN memory.ids
        BY ONLY <4>1, <1>2
      <4> QED BY ONLY <4>1, <4>2, <3>2, <3>3
    <3>5. \A id \in Ids : Listed(memory.ids, id) => index.messages[id] # Nil
      BY <3>2 DEF Listed
    <3>6. Bound(c, Odd) = {}
      BY ONLY <3>4
    <3> QED BY <3>1, <3>6, <3>5, <1>2
  <2> QED BY <2>1, <2>2, <1>5, <1>6 DEF Shown, Complete
<1>8. Sound(commits, value')
  <2>1. Base >= 1
    BY <1>3
  <2> QED BY <2>1, <1>2, <1>3, <1>6, <1>7 DEF Sound
<1>9. work.version \in Nat /\ work.version # Nil /\ work.version <= snap
      /\ c.file = memory.file /\ memory.file # Nil /\ work.cursor \in {0} \cup Rows
  <2>1. work.version # Nil /\ work.version <= snap /\ c.file = memory.file
    BY <1>1 DEF BobInv, Placed
  <2>2. c.file \in Nat
    BY <1>2 DEF BobInv, Typed, TypeOK, Content
  <2> QED BY <2>1, <2>2 DEF BobInv, Typed
<1>10. /\ memory' \in [file : Nat \cup {Nil}, version : Nat \cup {Nil}, cursor : {0} \cup Rows,
                       ids : IdMaps, skips : Nat, valid : BOOLEAN]
       /\ memory'.version = work.version /\ memory'.cursor = work.cursor
       /\ memory'.file = memory.file /\ memory'.ids = memory.ids /\ memory'.skips = memory.skips
  <2>1. memory' = [memory EXCEPT !.version = work.version, !.cursor = work.cursor]
    BY DEF Finish, VersionBefore
  <2> QED BY <2>1, <1>9 DEF BobInv, Typed
<1>11. DOMAIN memory'.ids \subseteq Rows
  BY <1>10, IdMapFacts
<1>12. value'.full <= value'.at /\ value'.at \in 0 .. Len(commits)
  BY <1>2, <1>3, <1>6 DEF BobInv, History
<1>13. due' \in BOOLEAN
  BY DEF Finish
<1>14. Typed'
  <2>1. TypeOK'
    BY <1>1, <1>10, <1>11, <1>12, <1>13 DEF BobInv, Typed, TypeOK
  <2> QED BY <2>1, <1>1, <1>4, <1>6, <1>10, NoWorkFacts DEF BobInv, Typed
<1>15. History' /\ TaskRead' /\ Identified'
  BY <1>1 DEF BobInv, History, TaskRead, Identified
<1>16. Placed'
  BY <1>1, <1>10 DEF BobInv, Placed
<1>17. Current'
  <2>1. value'.full >= 1
    BY <1>3, <1>6
  <2> QED BY <2>1, <1>1, <1>2, <1>6, <1>9, <1>10 DEF Current
<1>18. Holding'
  <2>1. Indexed(commits, memory', index.messages, Base, snap, work.cursor)
    BY <1>2, <1>10 DEF Indexed
  <2> QED BY <2>1, <1>1, <1>6, <1>10 DEF Holding, Between, Kept
<1>19. Published'
  BY <1>1, <1>4, <1>8 DEF Published
<1> QED BY <1>14, <1>15, <1>16, <1>17, <1>18, <1>19 DEF BobInv

----------------------------------------------------------------------------
(* The theorems.                                                            *)

\* Every step keeps the invariant.
LEMMA NextStep == ASSUME BobInv, [Next]_vars PROVE BobInv'
<1>1. CASE Next
  BY <1>1, BobStep, UnchangedStep, OpenGoing, OpenAnew, StartStep, TaskStep, IdentityStep,
     IdentifiedStep, ReadStep, FinishStep, EndStep, MishapStep
     DEF Next, Scan, Reading
<1>2. CASE UNCHANGED vars
  <2>1. Typed' /\ History' /\ Placed' /\ Current'
    BY <1>2 DEF vars, BobInv, Typed, TypeOK, History, Placed, Current
  <2>2. Holding' /\ TaskRead' /\ Identified' /\ Published'
    BY <1>2
       DEF vars, BobInv, Holding, Between, Kept, Base, TaskRead, Snapshot, Identified, Published
  <2> QED BY <2>1, <2>2 DEF BobInv
<1> QED BY <1>1, <1>2

\* So it holds in every reachable state.
LEMMA Inductive == Spec => []BobInv
<1>1. Init => BobInv
  BY InitStep
<1>2. BobInv /\ [Next]_vars => BobInv'
  BY NextStep
<1> QED BY <1>1, <1>2, PTL DEF Spec

\* The bodies that Coherent names are those of BodiesOf.
LEMMA CoherentView == ASSUME BobInv PROVE Coherent
<1>1. SUFFICES ASSUME value.at # 0
               PROVE  LET content == commits[value.at]
                          bodies(id) == BodiesOf(commits, value.full, value.at, id)
                      IN  /\ value.task = IF content.task = Bad THEN Nil ELSE content.task
                          /\ \A id \in Ids :
                               IF Bound(content, id) = {} THEN value.messages[id] = Nil
                               ELSE IF value.messages[id] = Nil THEN Bad \in bodies(id)
                               ELSE value.messages[id] \in bodies(id)
                          /\ value.complete =>
                               /\ content.task # Bad /\ Bound(content, Odd) = {}
                               /\ \A id \in Ids :
                                    Bound(content, id) # {} => value.messages[id] # Nil
  BY DEF Coherent, BobInv, Typed, BodiesOf
<1>2. Shown(commits, value)
  BY <1>1 DEF BobInv, Published, Sound
<1> QED BY <1>2 DEF Shown, FitsAt, TaskOf, Complete

\* However Bob commits and however scans are cut short, fail or begin anew after
\* the process ended: what is published is Bob's database at one commit, with the
\* messages that are there and no others, bodies no older than the last complete
\* read, and it is called complete only when nothing is missing (_start,
\* _check_identity, _project_message, _finish).
THEOREM ScansAreCoherent == Spec => []Coherent
<1>1. BobInv => Coherent
  BY CoherentView
<1> QED BY <1>1, Inductive, PTL

\* The version of a file is kept only with a publication that is no older.
LEMMA UpToDateView == ASSUME BobInv PROVE UnchangedIsCurrent
<1>1. SUFFICES ASSUME at = "wait", UpToDate PROVE value.at = Len(commits)
  BY DEF UnchangedIsCurrent
<1>2. Version(Source.file) = Len(commits) /\ Len(commits) \in Nat
  BY SourceVersion DEF BobInv, History
<1>3. memory.file = Source.file /\ memory.version = Len(commits)
  <2>1. Opened.version = Len(commits)
    BY <1>1, <1>2 DEF UpToDate
  <2>2. CASE memory.file = Source.file
    BY <2>1, <2>2 DEF Opened
  <2>3. CASE memory.file # Source.file
    <3>1. Opened.version = Nil
      BY <2>3 DEF Opened, BobInv, Typed
    <3> QED BY <3>1, <2>1, <1>2
  <2> QED BY <2>2, <2>3
<1>4. memory.version <= value.at /\ value.at \in DOMAIN commits
  BY <1>2, <1>3 DEF BobInv, Current
<1> QED BY <1>2, <1>3, <1>4 DEF BobInv, History

\* A commit that Bob makes while a generation reads is never lost: whenever a scan
\* would find nothing to do, the last commit is the one published (data_version is
\* read before the transaction begins, in _open).
THEOREM NothingMissedAtRest == Spec => []UnchangedIsCurrent
<1>1. BobInv => UnchangedIsCurrent
  BY UpToDateView
<1> QED BY <1>1, Inductive, PTL

=============================================================================
