--------------------------- MODULE BobJournalProofs ---------------------------
(***************************************************************************)
(* Theorems about BobJournal, for any files, events and bounds.              *)
(*                                                                         *)
(* LossTold: as long as no loss was counted, no signature is in conflict,     *)
(* each signature is of an event that is in the totals or waits as a pending   *)
(* row, and a row that waits no more is in the totals (Accounts).  Every        *)
(* operator on the tables keeps that, so it holds of the committed tables and   *)
(* of those that the scan sees, whatever the files hold and whenever a scan     *)
(* is rolled back.                                                            *)
(*                                                                         *)
(* CountedOnce and FloorBelowRetained rest on what is known of the files, for   *)
(* the case that a line fits in the read budget and that no file gets its        *)
(* first line after it was opened.  The invariant SourceInv has four parts:      *)
(*   - Disks: each file is sound, and no version is ahead of the writes;         *)
(*   - Sourced: what the tables say of a file that is not being read is true     *)
(*     of what is in it, or the next scan will see that it was rewritten:        *)
(*     everything before the saved offset has references, and an inventory that   *)
(*     calls a file complete has a reference to each event in it, none of        *)
(*     them older than its oldest one;                                        *)
(*   - Followed: the same of the file that is open, up to the position of the   *)
(*     reader;                                                                *)
(*   - Once: an event that was counted and was not forgotten since has a          *)
(*     signature, and a pending row is of an event that was not counted.          *)
(* Writes of the exporter keep Sourced, since they either add to a file or give   *)
(* it a first line that it never had before.  A scan that ends raises the floor   *)
(* only when every listed file is complete, so to no more than what those          *)
(* files hold, and only then deletes the signatures of events that no file holds.  *)
(***************************************************************************)
EXTENDS BobJournal, FiniteSetTheorems, TLAPS

USE BudgetAssumption, FileAssumption, EventAssumption, BoundAssumption

\* The columns of the tables.
Columns ==
  {"files", "inv", "refs", "dedup", "rows", "floor", "replay", "losses", "cursor", "next",
   "reset", "counted", "passed"}

\* What the tables that matter hold.
Table(t) ==
  /\ DOMAIN t = Columns
  /\ IsFiniteSet(t.rows)
  /\ \A r \in t.rows : /\ DOMAIN r = {"id", "pending", "row"}
                       /\ r.id \in Ids /\ r.pending \in BOOLEAN
  /\ t.dedup \subseteq [event : Events, conflict : BOOLEAN]
  /\ t.losses \in Nat /\ t.counted \in [Ids -> Nat] /\ t.passed \subseteq Events

\* An event is in the totals, or its row waits.
Accounted(t, id) == t.counted[id] > 0 \/ \E r \in t.rows : r.id = id /\ r.pending

\* Without a loss, everything that was passed is accounted for.
Accounts(t) ==
  t.losses = 0 =>
    /\ \A e \in t.passed : Accounted(t, e.id)
    /\ \A s \in t.dedup : ~s.conflict /\ Accounted(t, s.event.id)
    /\ \A r \in t.rows : ~r.pending => t.counted[r.id] > 0

\* The tables tell what they lost.
Told(t) == Table(t) /\ Accounts(t)

\* So do the committed tables and those of the scan.
JournalInv == Told(db) /\ Told(tx)

\* The columns that Told speaks of are the same.
Alike(t, u) ==
  /\ DOMAIN u = Columns /\ u.rows = t.rows /\ u.dedup = t.dedup /\ u.losses = t.losses
  /\ u.counted = t.counted /\ u.passed = t.passed

----------------------------------------------------------------------------
(* What the operators on the tables keep.                                   *)

\* Columns of another kind do not matter.
LEMMA AlikeTold == ASSUME NEW t, NEW u, Told(t), Alike(t, u) PROVE Told(u)
BY DEF Told, Table, Accounts, Accounted, Alike

\* The loss counter stops at its bound.
LEMMA MinOfTwo ==
  ASSUME NEW a \in Nat, NEW b \in Nat
  PROVE  Min({a, b}) \in {a, b} /\ Min({a, b}) <= a /\ Min({a, b}) <= b
<1>1. CASE a <= b
  BY <1>1 DEF Min
<1>2. CASE b <= a
  BY <1>2 DEF Min
<1> QED BY <1>1, <1>2

\* Losses are counted up to a bound, and never forgotten.
LEMMA LossesTold ==
  ASSUME NEW t, Told(t), NEW n \in Nat
  PROVE  /\ Told(Losses(t, n))
         /\ Losses(t, n).losses = 0 => t.losses = 0 /\ n = 0
         /\ Losses(t, n).rows = t.rows /\ Losses(t, n).counted = t.counted
         /\ Losses(t, n).dedup = t.dedup /\ Losses(t, n).passed = t.passed
<1> DEFINE sum == t.losses + n
           least == Min({sum, MaxLosses})
<1>1. sum \in Nat /\ (sum = 0 => t.losses = 0 /\ n = 0)
  BY DEF Told, Table
<1>2. least \in Nat /\ (least = 0 => sum = 0)
  <2> HIDE DEF sum
  <2> QED BY <1>1, MinOfTwo
<1>3. Losses(t, n) = [t EXCEPT !.losses = least]
  BY DEF Losses
<1> HIDE DEF sum, least
<1>4. /\ DOMAIN Losses(t, n) = Columns /\ Losses(t, n).losses = least
      /\ Losses(t, n).rows = t.rows /\ Losses(t, n).counted = t.counted
      /\ Losses(t, n).dedup = t.dedup /\ Losses(t, n).passed = t.passed
  BY <1>3 DEF Told, Table, Columns
<1>5. Table(Losses(t, n))
  BY <1>2, <1>4 DEF Told, Table
<1>6. Accounts(Losses(t, n))
  BY <1>1, <1>2, <1>4 DEF Told, Accounts, Accounted
<1> QED BY <1>1, <1>2, <1>4, <1>5, <1>6 DEF Told

\* A row that is deleted was added to the totals, or is a loss.
LEMMA DeleteTold ==
  ASSUME NEW t, Told(t), NEW ids
  PROVE  Told(Delete(t, ids)) /\ (Delete(t, ids).losses = 0 => t.losses = 0)
<1> DEFINE gone == RowsIn(t, ids)
           waiting == {r \in gone : r.pending}
           n == Cardinality(waiting)
           u == Losses(t, n)
           v == [u EXCEPT !.rows = t.rows \ gone]
<1>1. IsFiniteSet(waiting) /\ waiting \subseteq t.rows
  <2>1. waiting \subseteq t.rows
    BY DEF RowsIn
  <2> QED BY <2>1, FS_Subset DEF Told, Table
<1>2. n \in Nat /\ (n = 0 => waiting = {})
  <2> HIDE DEF waiting
  <2> QED BY <1>1, FS_CardinalityType, FS_EmptySet
<1> HIDE DEF waiting, n
<1>3. /\ Told(u) /\ (u.losses = 0 => t.losses = 0 /\ waiting = {})
      /\ u.rows = t.rows /\ u.counted = t.counted /\ u.dedup = t.dedup /\ u.passed = t.passed
  BY <1>2, LossesTold
<1>4. Delete(t, ids) = v
  BY <1>3 DEF Delete, n, waiting
<1> HIDE DEF u
<1>5. /\ DOMAIN v = Columns /\ v.rows = t.rows \ gone /\ v.losses = u.losses
      /\ v.counted = t.counted /\ v.dedup = t.dedup /\ v.passed = t.passed
  BY <1>3 DEF Told, Table, Columns
<1> HIDE DEF v
<1>6. Table(v)
  <2>1. IsFiniteSet(t.rows \ gone)
    BY FS_Subset DEF Told, Table
  <2> QED BY <2>1, <1>3, <1>5 DEF Told, Table
<1>7. Accounts(v)
  <2>1. SUFFICES ASSUME v.losses = 0
                 PROVE  /\ \A id : Accounted(t, id) => Accounted(v, id)
                        /\ \A r \in v.rows : ~r.pending => v.counted[r.id] > 0
    BY <1>3, <1>5 DEF Told, Accounts
  <2>2. t.losses = 0 /\ waiting = {}
    BY <2>1, <1>3, <1>5
  <2>3. \A r \in t.rows : r.pending => r \in v.rows
    BY <2>2, <1>5 DEF waiting
  <2> QED BY <2>2, <2>3, <1>5 DEF Accounted, Told, Accounts
<1> QED BY <1>3, <1>4, <1>5, <1>6, <1>7 DEF Told

\* So may rows that expire.
LEMMA PruneTold ==
  ASSUME NEW t, Told(t), NEW expired
  PROVE  Told(_Prune(t, expired)) /\ (_Prune(t, expired).losses = 0 => t.losses = 0)
BY DeleteTold DEF _Prune

\* The window drops signatures and rows that expired.
LEMMA WindowTold ==
  ASSUME NEW t, Told(t), NEW expired
  PROVE  Told(_SourceWindow(t, expired))
<1> DEFINE w == [t EXCEPT !.floor = Max({@, Min(Oldest(t))})]
           risen == IF Oldest(t) = {} THEN t ELSE _Prune(w, expired)
<1>1. Told(w)
  <2> DEFINE top == Max({t.floor, Min(Oldest(t))})
  <2>1. w = [t EXCEPT !.floor = top]
    OBVIOUS
  <2> HIDE DEF top, w
  <2>2. Alike(t, w)
    BY <2>1 DEF Alike, Told, Table, Columns
  <2> QED BY <2>2, AlikeTold
<1>2. Told(risen)
  BY <1>1, PruneTold
<1> HIDE DEF risen
<1>3. Told([risen EXCEPT !.dedup = Backed(risen)])
  <2> DEFINE v == [risen EXCEPT !.dedup = Backed(risen)]
  <2>1. Backed(risen) \subseteq risen.dedup
    BY DEF Backed
  <2>2. /\ DOMAIN v = Columns /\ v.rows = risen.rows /\ v.losses = risen.losses
        /\ v.counted = risen.counted /\ v.dedup \subseteq risen.dedup /\ v.passed = risen.passed
    BY <2>1, <1>2 DEF Told, Table, Columns
  <2> HIDE DEF v
  <2>3. Table(v)
    BY <2>2, <1>2 DEF Told, Table
  <2>4. Accounts(v)
    BY <2>2, <1>2 DEF Told, Accounts, Accounted
  <2> QED BY <2>3, <2>4 DEF Told, v
<1> DEFINE reopened(f) == [t EXCEPT !.inv[f].complete = 0]
<1>4. ASSUME NEW f PROVE Told(reopened(f))
  <2>1. Alike(t, reopened(f))
    BY DEF Alike, Told, Table, Columns
  <2> HIDE DEF reopened
  <2> QED BY <2>1, AlikeTold
<1> QED BY <1>2, <1>3, <1>4 DEF _SourceWindow, risen

\* A record that is read is counted, waits, was so before, or is a loss.
LEMMA EventTold ==
  ASSUME NEW t, Told(t), NEW e \in Events
  PROVE  /\ Told(_Event(t, e)) /\ _Event(t, e).passed = t.passed
         /\ _Event(t, e).losses = 0 => Accounted(_Event(t, e), e.id)
<1> DEFINE previous == Signed(t, e.id)
           conflict == {s \in previous : s.event # e /\ ~s.conflict}
           marked == [t EXCEPT !.dedup = (@ \ conflict)
                                         \cup {[s EXCEPT !.conflict = TRUE] : s \in conflict}]
           new == [id |-> e.id, pending |-> e.chat \notin known,
                   row |-> Max({r.row : r \in t.rows} \cup {0}) + 1]
           stored == [t EXCEPT !.rows = @ \cup {new},
                               !.dedup = @ \cup {[event |-> e, conflict |-> FALSE]}]
           added == _Add(stored, e)
<1>1. e.id \in Ids
  BY DEF Ids
<1>2. /\ Told(_Loss(t)) /\ _Loss(t).losses # 0 /\ _Loss(t).passed = t.passed
  BY LossesTold DEF _Loss
<1>3. ASSUME conflict # {}
      PROVE  Told(_Loss(marked)) /\ _Loss(marked).losses # 0 /\ _Loss(marked).passed = t.passed
  <2> DEFINE signs == (t.dedup \ conflict) \cup {[s EXCEPT !.conflict = TRUE] : s \in conflict}
             n == t.losses + 1
             least == Min({n, MaxLosses})
             u == _Loss(marked)
  <2>1. signs \subseteq [event : Events, conflict : BOOLEAN]
    BY DEF Told, Table, Signed
  <2>2. least \in Nat /\ least # 0
    <3>1. n \in Nat /\ n # 0
      BY DEF Told, Table
    <3> HIDE DEF n
    <3> QED BY <3>1, MinOfTwo
  <2>3. marked = [t EXCEPT !.dedup = signs]
    OBVIOUS
  <2> HIDE DEF signs, marked
  <2>4. DOMAIN marked = Columns /\ marked.losses = t.losses /\ marked.dedup = signs
        /\ marked.rows = t.rows /\ marked.counted = t.counted /\ marked.passed = t.passed
    BY <2>3 DEF Told, Table, Columns
  <2>5. u = [marked EXCEPT !.losses = least]
    BY <2>4 DEF _Loss, Losses
  <2> HIDE DEF least, u
  <2>6. DOMAIN u = Columns /\ u.losses = least /\ u.dedup = signs
        /\ u.rows = t.rows /\ u.counted = t.counted /\ u.passed = t.passed
    BY <2>4, <2>5 DEF Columns
  <2>7. Told(u)
    BY <2>1, <2>2, <2>6 DEF Told, Table, Accounts
  <2> QED BY <2>2, <2>6, <2>7 DEF u
<1>4. ASSUME conflict = {}, previous # {}, t.losses = 0 PROVE Accounted(t, e.id)
  BY <1>4 DEF Told, Accounts, Signed
<1> DEFINE signs == t.dedup \cup {[event |-> e, conflict |-> FALSE]}
           rows == t.rows \cup {new}
<1>5. /\ DOMAIN stored = Columns /\ stored.losses = t.losses /\ stored.dedup = signs
      /\ stored.rows = rows /\ stored.counted = t.counted /\ stored.passed = t.passed
  <2> HIDE DEF new
  <2> QED BY DEF Told, Table, Columns
<1>6. /\ DOMAIN new = {"id", "pending", "row"} /\ new.id = e.id
      /\ new.pending = (e.chat \notin known) /\ new.pending \in BOOLEAN
  OBVIOUS
<1> HIDE DEF new, stored
<1>7. Table(stored)
  <2>1. IsFiniteSet(rows)
    BY FS_AddElement DEF Told, Table
  <2>2. signs \subseteq [event : Events, conflict : BOOLEAN]
    <3>1. [event |-> e, conflict |-> FALSE] \in [event : Events, conflict : BOOLEAN]
      OBVIOUS
    <3>2. t.dedup \subseteq [event : Events, conflict : BOOLEAN]
      BY DEF Told, Table
    <3> QED BY <3>1, <3>2
  <2> HIDE DEF signs
  <2> QED BY <2>1, <2>2, <1>1, <1>5, <1>6 DEF Told, Table
<1>8. \A id : Accounted(t, id) => Accounted(stored, id)
  BY <1>5 DEF Accounted
<1>9. ASSUME e.chat \notin known PROVE Told(stored) /\ Accounted(stored, e.id)
  <2>1. Accounted(stored, e.id)
    BY <1>5, <1>6, <1>9 DEF Accounted
  <2>2. Accounts(stored)
    <3>1. SUFFICES ASSUME t.losses = 0
                   PROVE  /\ \A x \in t.passed : Accounted(stored, x.id)
                          /\ \A s \in signs : ~s.conflict /\ Accounted(stored, s.event.id)
                          /\ \A r \in rows : ~r.pending => t.counted[r.id] > 0
      BY <1>5 DEF Accounts
    <3>2. /\ \A x \in t.passed : Accounted(stored, x.id)
          /\ \A s \in t.dedup : ~s.conflict /\ Accounted(stored, s.event.id)
          /\ \A r \in t.rows : ~r.pending => t.counted[r.id] > 0
      BY <3>1, <1>8 DEF Told, Accounts
    <3>3. new.pending
      BY <1>6, <1>9
    <3> QED BY <3>2, <3>3, <2>1
  <2> QED BY <2>1, <2>2, <1>7 DEF Told
<1>10. ASSUME e.chat \in known
       PROVE  Told(added) /\ Accounted(added, e.id) /\ added.passed = t.passed
  <2> DEFINE more == t.counted[e.id] + 1
             totals == [t.counted EXCEPT ![e.id] = more]
  <2>1. more \in Nat /\ more > 0
    BY <1>1 DEF Told, Table
  <2>2. added = [stored EXCEPT !.counted = totals]
    BY <1>5 DEF _Add
  <2> HIDE DEF more
  <2>3. /\ totals \in [Ids -> Nat] /\ totals[e.id] = more
        /\ \A id \in Ids : id # e.id => totals[id] = t.counted[id]
    BY <2>1, <1>1 DEF Told, Table
  <2> HIDE DEF totals, added
  <2>4. /\ DOMAIN added = Columns /\ added.losses = t.losses /\ added.dedup = signs
        /\ added.rows = rows /\ added.counted = totals /\ added.passed = t.passed
    BY <2>2, <1>5 DEF Columns
  <2>5. Table(added)
    BY <2>3, <2>4, <1>5, <1>7 DEF Table
  <2>6. \A id \in Ids : Accounted(t, id) => Accounted(added, id)
    BY <2>1, <2>3, <2>4 DEF Accounted
  <2>7. Accounted(added, e.id)
    BY <2>1, <2>3, <2>4 DEF Accounted
  <2>8. \A x \in Events : x.id \in Ids
    BY DEF Ids
  <2>9. Accounts(added)
    <3>1. SUFFICES ASSUME t.losses = 0
                   PROVE  /\ \A x \in t.passed : Accounted(added, x.id)
                          /\ \A s \in signs : ~s.conflict /\ Accounted(added, s.event.id)
                          /\ \A r \in rows : ~r.pending => totals[r.id] > 0
      BY <2>4 DEF Accounts
    <3>2. \A x \in t.passed : Accounted(added, x.id)
      BY <3>1, <2>6, <2>8 DEF Told, Accounts, Table
    <3>3. \A s \in t.dedup : ~s.conflict /\ Accounted(added, s.event.id)
      BY <3>1, <2>6, <2>8 DEF Told, Accounts, Table
    <3>4. \A r \in t.rows : ~r.pending => totals[r.id] > 0
      BY <3>1, <2>1, <2>3 DEF Told, Accounts, Table
    <3> QED BY <3>2, <3>3, <3>4, <2>1, <2>3, <2>7, <1>6
  <2> QED BY <2>4, <2>5, <2>7, <2>9 DEF Told
<1> HIDE DEF previous, marked, added, conflict
<1> DEFINE result ==
      IF e.at <= t.replay THEN _Loss(t)
      ELSE IF conflict # {} THEN _Loss(marked)
      ELSE IF previous # {} THEN t
      ELSE IF e.at < t.floor \/ Cardinality(t.rows) >= MaxEvents THEN _Loss(t)
      ELSE IF e.chat \in known THEN added ELSE stored
<1>11. _Event(t, e) = result
  BY DEF _Event, previous, conflict, marked, stored, new, added
<1>12. Told(result) /\ result.passed = t.passed /\ (result.losses = 0 => Accounted(result, e.id))
  BY <1>2, <1>3, <1>4, <1>5, <1>9, <1>10
<1> QED BY <1>11, <1>12

\* Joining a row adds its event to the totals.
LEMMA ResolveTold == ASSUME NEW t, Told(t) PROVE Told(_Resolve(t))
<1> DEFINE batch == Batch(t)
           event(r) == (CHOOSE s \in t.dedup : s.event.id = r.id).event
           joined == {r \in batch : event(r).chat \in known}
           settled == {[r EXCEPT !.pending = FALSE] : r \in joined}
           rows == (t.rows \ joined) \cup settled
           of(id) == {r \in joined : r.id = id}
           totals == [id \in Ids |-> t.counted[id] + Cardinality(of(id))]
           cursor == IF batch = {} THEN 0 ELSE Max({r.row : r \in batch})
           u == [t EXCEPT !.rows = rows, !.counted = totals, !.cursor = cursor]
<1>1. batch \subseteq t.rows /\ \A r \in batch : r.pending
  BY DEF Batch, FirstRows
<1>2. _Resolve(t) = u
  BY DEF _Resolve
<1> HIDE DEF batch, event
<1>3. joined \subseteq t.rows /\ IsFiniteSet(joined) /\ \A r \in joined : r.pending
  <2>1. joined \subseteq t.rows /\ \A r \in joined : r.pending
    BY <1>1
  <2> HIDE DEF joined
  <2> QED BY <2>1, FS_Subset DEF Told, Table
<1> HIDE DEF joined
<1>4. \A id \in Ids : Cardinality(of(id)) \in Nat /\ (of(id) # {} => Cardinality(of(id)) > 0)
  <2> TAKE id \in Ids
  <2>1. IsFiniteSet(of(id))
    BY <1>3, FS_Subset
  <2> HIDE DEF of
  <2> QED BY <2>1, FS_CardinalityType, FS_EmptySet
<1>5. /\ totals \in [Ids -> Nat]
      /\ \A id \in Ids : /\ t.counted[id] > 0 => totals[id] > 0
                         /\ of(id) # {} => totals[id] > 0
  <2> HIDE DEF of
  <2> QED BY <1>4 DEF Told, Table
<1> HIDE DEF rows, totals, cursor
<1>6. /\ DOMAIN u = Columns /\ u.losses = t.losses /\ u.dedup = t.dedup
      /\ u.rows = rows /\ u.counted = totals /\ u.passed = t.passed
  BY DEF Told, Table, Columns
<1> HIDE DEF u
<1>7. \A r \in settled : /\ DOMAIN r = {"id", "pending", "row"} /\ r.id \in Ids /\ ~r.pending
                         /\ r.pending \in BOOLEAN /\ of(r.id) # {}
  <2>1. ASSUME NEW q \in joined, NEW r, r = [q EXCEPT !.pending = FALSE]
        PROVE  /\ DOMAIN r = {"id", "pending", "row"} /\ r.id \in Ids /\ ~r.pending
               /\ r.pending \in BOOLEAN /\ q \in of(r.id)
    <3>1. q \in t.rows
      BY <1>3
    <3>2. DOMAIN q = {"id", "pending", "row"} /\ q.id \in Ids
      BY <3>1 DEF Told, Table
    <3>3. DOMAIN r = {"id", "pending", "row"} /\ r.id = q.id /\ r.pending = FALSE
      BY ONLY <3>2, <2>1
    <3> QED BY <3>2, <3>3
  <2> HIDE DEF of
  <2> QED BY <2>1
<1>8. IsFiniteSet(rows)
  <2>1. IsFiniteSet(settled)
    <3> DEFINE settle == [r \in joined |-> [r EXCEPT !.pending = FALSE]]
    <3>1. settle \in Surjection(joined, settled)
      BY DEF Surjection
    <3> HIDE DEF settle, settled
    <3> QED BY <3>1, <1>3, FS_Surjection
  <2>2. IsFiniteSet(t.rows \ joined)
    BY FS_Subset DEF Told, Table
  <2> HIDE DEF settled
  <2> QED BY <2>1, <2>2, FS_Union DEF rows
<1> HIDE DEF settled
<1>9. Table(u)
  BY <1>5, <1>6, <1>7, <1>8 DEF Told, Table, rows
<1>10. \A id \in Ids : Accounted(t, id) => Accounted(u, id)
  BY <1>5, <1>6 DEF Accounted, rows
<1>11. \A e \in Events : e.id \in Ids
  BY DEF Ids
<1>12. Accounts(u)
  <2>1. SUFFICES ASSUME t.losses = 0
                 PROVE  /\ \A e \in t.passed : Accounted(u, e.id)
                        /\ \A s \in t.dedup : ~s.conflict /\ Accounted(u, s.event.id)
                        /\ \A r \in rows : ~r.pending => totals[r.id] > 0
    BY <1>6 DEF Accounts
  <2>2. /\ \A e \in t.passed : Accounted(u, e.id)
        /\ \A s \in t.dedup : ~s.conflict /\ Accounted(u, s.event.id)
    BY <2>1, <1>10, <1>11 DEF Told, Accounts, Table
  <2>3. \A r \in rows : ~r.pending => totals[r.id] > 0
    BY <2>1, <1>5, <1>7 DEF Told, Accounts, Table, rows
  <2> QED BY <2>2, <2>3
<1> QED BY <1>2, <1>9, <1>12 DEF Told

----------------------------------------------------------------------------
(* The scan.                                                                *)

\* The inventory of files takes part in none of this.
LEMMA BeginStep == ASSUME Told(tx), NEW expired, Begin(expired) PROVE Told(tx')
<1> DEFINE kept == [tx EXCEPT !.inv = Inventory(tx),
                              !.refs = {r \in @ : disk[r.file].here}]
<1>1. tx' = _Prune(kept, expired)
  BY DEF Begin
<1>2. Alike(tx, kept)
  BY DEF Alike, Told, Table, Columns
<1> HIDE DEF kept
<1> QED BY <1>1, <1>2, AlikeTold, PruneTold

\* A file that is left to the next scan, and one that is opened.
LEMMA PostponeStep == ASSUME Told(tx), NEW f, Postpone(f) PROVE Told(tx')
<1>1. \/ tx' = tx
      \/ tx' = [tx EXCEPT !.inv[f].complete = IF @ = -1 THEN -1 ELSE 0]
  BY DEF Postpone
<1>2. Alike(tx, tx')
  BY <1>1 DEF Alike, Told, Table, Columns
<1> QED BY <1>2, AlikeTold

\* The steps of a scan, one by one.
LEMMA OpenStep ==
  ASSUME Told(tx), NEW f, NEW short, NEW late, Open(f, short, late)
  PROVE  Told(tx')
<1>1. PICK row : LET t == [tx EXCEPT !.inv[f] = row] IN tx' = t \/ tx' = _Loss(t)
  BY DEF Open
<1> DEFINE t == [tx EXCEPT !.inv[f] = row]
<1>2. Alike(tx, t)
  BY DEF Alike, Told, Table, Columns
<1>3. tx' = t \/ tx' = _Loss(t)
  BY <1>1
<1> HIDE DEF t
<1>4. Told(t)
  BY <1>2, AlikeTold
<1> QED BY <1>3, <1>4, LossesTold DEF _Loss

\* A record is passed with its event counted, waiting, or a loss told.
LEMMA ReadStep == ASSUME Told(tx), NEW late, Read(late) PROVE Told(tx')
<1> DEFINE f == file.id
           e == Line
           valid == e \in Events
           final == file.offset + 2 = file.size
           oldest == IF ~valid THEN file.oldest
                     ELSE IF file.oldest = Nil THEN e.at ELSE Min({file.oldest, e.at})
           counted == IF valid THEN tx ELSE _Loss(tx)
           read == [counted EXCEPT
                      !.refs = @ \cup (IF valid THEN {[file |-> f, gen |-> file.gen, id |-> e.id]}
                                       ELSE {}),
                      !.inv[f].oldest = oldest,
                      !.inv[f].complete =
                        IF file.complete = -1 THEN -1 ELSE IF final THEN 1 ELSE 0]
           last == [read EXCEPT !.inv[f].size = file.size, !.inv[f].ver = file.ver,
                                !.refs = OfGeneration(read, f, file.gen)]
           t == IF final THEN _SourceWindow(last, scan.expired) ELSE read
           passed == [_Event(t, e) EXCEPT !.passed = @ \cup {e}]
<1>1. tx' = IF valid THEN passed ELSE t
  BY DEF Read
<1>2. Told(counted)
  BY LossesTold DEF _Loss
<1> HIDE DEF counted, oldest, f, e, final
<1>3. Alike(counted, read)
  BY <1>2 DEF Alike, Told, Table, Columns
<1> HIDE DEF read
<1>4. Told(read)
  BY <1>2, <1>3, AlikeTold
<1>5. Alike(read, last)
  BY <1>4 DEF Alike, Told, Table, Columns
<1> HIDE DEF last
<1>6. Told(t)
  BY <1>4, <1>5, AlikeTold, WindowTold
<1> HIDE DEF t
<1>7. ASSUME valid PROVE Told(passed)
  <2> DEFINE u == _Event(t, e)
  <2>1. Told(u) /\ (u.losses = 0 => Accounted(u, e.id))
    BY <1>6, <1>7, EventTold
  <2> HIDE DEF u
  <2>2. /\ DOMAIN passed = Columns /\ passed.rows = u.rows /\ passed.dedup = u.dedup
        /\ passed.losses = u.losses /\ passed.counted = u.counted
        /\ passed.passed = u.passed \cup {e}
    BY <2>1 DEF Told, Table, Columns, u
  <2> HIDE DEF passed
  <2>3. Table(passed)
    BY <2>1, <2>2, <1>7 DEF Told, Table
  <2>4. Accounts(passed)
    BY <2>1, <2>2 DEF Told, Accounts, Accounted
  <2> QED BY <2>3, <2>4 DEF Told
<1> QED BY <1>1, <1>6, <1>7

\* A file is left where reading it ended.
LEMMA CloseStep == ASSUME Told(tx), Close PROVE Told(tx')
<1>1. PICK f, row : LET t == [tx EXCEPT !.files[f] = row]
                    IN  \/ tx' = t
                        \/ tx' = [t EXCEPT !.inv[f].complete = -1]
                        \/ tx' = [t EXCEPT !.inv[f].complete = 1, !.inv[f].size = file.size,
                                           !.inv[f].ver = file.ver,
                                           !.refs = OfGeneration(t, f, file.gen)]
  BY DEF Close
<1> DEFINE t == [tx EXCEPT !.files[f] = row]
<1>2. Alike(tx, t)
  BY DEF Alike, Told, Table, Columns
<1>3. \/ tx' = t
      \/ tx' = [t EXCEPT !.inv[f].complete = -1]
      \/ tx' = [t EXCEPT !.inv[f].complete = 1, !.inv[f].size = file.size,
                         !.inv[f].ver = file.ver, !.refs = OfGeneration(t, f, file.gen)]
  BY <1>1
<1> HIDE DEF t
<1>4. Alike(tx, tx')
  BY <1>2, <1>3 DEF Alike, Columns
<1> QED BY <1>4, AlikeTold

\* What is committed is what the scan saw last.
LEMMA FinishStep == ASSUME Told(tx), Finish PROVE Told(tx') /\ db' = tx'
<1> DEFINE gone == {f \in Files : tx.files[f] # Nil /\ f \notin scan.seen}
           unread == {f \in gone : tx.files[f].offset < tx.files[f].size}
           n == Cardinality(unread)
           u == Losses(tx, n)
           t == [u EXCEPT !.files = [f \in Files |-> IF f \in gone THEN Nil ELSE @[f]]]
           joined == _Resolve(t)
           w == _SourceWindow(joined, scan.expired)
<1>1. tx' = [w EXCEPT !.next = scan.next, !.reset = FALSE] /\ db' = tx'
  BY DEF Finish
<1>2. n \in Nat
  <2>1. unread \subseteq Files
    OBVIOUS
  <2> HIDE DEF unread
  <2> QED BY <2>1, FS_Subset, FS_CardinalityType
<1> HIDE DEF n, gone
<1>3. Told(u)
  BY <1>2, LossesTold
<1> HIDE DEF u
<1>4. Alike(u, t)
  BY <1>3 DEF Alike, Told, Table, Columns
<1> HIDE DEF t
<1>5. Told(joined)
  BY <1>3, <1>4, AlikeTold, ResolveTold
<1> HIDE DEF joined
<1>6. Told(w)
  BY <1>5, WindowTold
<1> HIDE DEF w
<1>7. Alike(w, tx')
  BY <1>1, <1>6 DEF Alike, Told, Table, Columns
<1> QED BY <1>1, <1>6, <1>7, AlikeTold

\* New tables account for nothing, since nothing was passed.
LEMMA NewTold == ASSUME NEW reset \in BOOLEAN, NEW replay PROVE Told(NewTables(reset, replay))
<1> DEFINE t == NewTables(reset, replay)
           losses == IF reset THEN 1 ELSE 0
           counted == [id \in Ids |-> 0]
<1>1. /\ DOMAIN t = Columns /\ t.rows = {} /\ t.dedup = {} /\ t.passed = {}
      /\ t.losses = losses /\ t.counted = counted
  BY DEF NewTables, Columns
<1>2. losses \in Nat /\ counted \in [Ids -> Nat]
  OBVIOUS
<1> HIDE DEF t, losses, counted
<1> QED BY <1>1, <1>2, FS_EmptySet DEF Told, Table, Accounts, t

----------------------------------------------------------------------------
(* Losses are told.                                                         *)

\* Every step keeps the accounts.
LEMMA JournalStep == ASSUME JournalInv, [Next]_vars PROVE JournalInv'
<1>1. CASE UNCHANGED <<tx, db>>
  BY <1>1 DEF JournalInv
<1>2. ASSUME Told(tx'), db' = db PROVE JournalInv'
  BY <1>2 DEF JournalInv
<1>3. CASE Scanner
  <2>1. ASSUME NEW n \in 0 .. Cardinality(tx.rows), Begin(OldestRows(tx, n)) PROVE JournalInv'
    BY <2>1, <1>2, BeginStep DEF JournalInv, Begin
  <2>2. ASSUME NEW f \in Files, Postpone(f) PROVE JournalInv'
    BY <2>2, <1>2, PostponeStep DEF JournalInv, Postpone
  <2>3. ASSUME NEW f \in Files, NEW short \in BOOLEAN, NEW late \in BOOLEAN, Open(f, short, late)
        PROVE  JournalInv'
    <3>1. db' = db
      BY <2>3 DEF Open
    <3>2. Told(tx')
      BY <2>3, OpenStep DEF JournalInv
    <3> QED BY <3>1, <3>2, <1>2
  <2>4. ASSUME NEW late \in BOOLEAN, Discard(late) PROVE JournalInv'
    BY <2>4, <1>1 DEF Discard
  <2>5. ASSUME NEW late \in BOOLEAN, Read(late) PROVE JournalInv'
    BY <2>5, <1>2, ReadStep DEF JournalInv, Read
  <2>6. CASE Close
    BY <2>6, <1>2, CloseStep DEF JournalInv, Close
  <2>7. CASE Finish
    BY <2>7, FinishStep DEF JournalInv
  <2>8. CASE Fail
    BY <2>8 DEF JournalInv, Fail, Rollback
  <2> QED BY <1>3, <2>1, <2>2, <2>3, <2>4, <2>5, <2>6, <2>7, <2>8 DEF Scanner
<1>4. CASE Exporter
  BY <1>4, <1>1 DEF Exporter, AppendLine, AppendHalf, Rotate, Evict, Write
<1>5. CASE Abort
  BY <1>5 DEF JournalInv, Abort, Rollback
<1>6. ASSUME NEW now \in Times, LoseTables(now) PROVE JournalInv'
  BY <1>6, NewTold DEF JournalInv, LoseTables
<1>7. ASSUME NEW c \in Chats, Publish(c) PROVE JournalInv'
  BY <1>7, <1>1 DEF Publish
<1>8. CASE UNCHANGED vars
  BY <1>8, <1>1 DEF vars
<1> QED BY <1>3, <1>4, <1>5, <1>6, <1>7, <1>8 DEF Next

\* Whatever the exporter writes, rotates and removes, and whichever scans fail: an
\* event that the committed tables have passed is in the totals, or waits for its
\* chat, or a loss is counted (_event, _delete, _resolve, _loss).
THEOREM LossesAreTold == Spec => []LossTold
<1>1. Init => JournalInv
  BY NewTold DEF Init, JournalInv
<1>2. JournalInv /\ [Next]_vars => JournalInv'
  BY JournalStep
<1>3. JournalInv => LossTold
  BY DEF JournalInv, Told, Accounts, Accounted, LossTold
<1> QED BY <1>1, <1>2, <1>3, PTL DEF Spec

----------------------------------------------------------------------------
(* The sources: what is known of the files, and what is in them.             *)

\* The first line and the size of what is in a file.
HeadIn(c) == IF c.lines = <<>> THEN Nil ELSE c.lines[1]
SizeIn(c) == 2 * Len(c.lines) + (IF c.tail THEN 1 ELSE 0)

\* A file starts with a record that it did not start with before, and half a line
\* follows a whole one.
Sound(c) ==
  /\ c \in Content
  /\ c.lines # <<>> => c.lines[1] \in Events \ c.before
  /\ c.tail => c.lines # <<>>

\* What a write of the exporter, the n-th, makes of a file.
Evolves(c, d, n) ==
  /\ d.ver = n
  /\ \/ d.lines = c.lines /\ d.before = c.before
     \/ c.lines # <<>> /\ d.before = c.before /\ \E l \in Events \cup {Bad} : d.lines = Append(c.lines, l)
     \/ c.lines = <<>> /\ d.before = c.before /\ \E l \in Events \ c.before : d.lines = <<l>>
     \/ d.lines = <<>> /\ d.before = c.before \cup ({HeadIn(c)} \ {Nil})

\* A first line that was read is still there, or the file was written anew.
Known(c, head) == head # Nil => head \in c.before \/ head = HeadIn(c)

\* The events in the first size units have references, and none is older than the
\* oldest one of the inventory.
Covered(c, row, refs, f, size) ==
  \A i \in DOMAIN c.lines : 2 * i <= size /\ c.lines[i] \in Events =>
    /\ [file |-> f, gen |-> row.gen, id |-> c.lines[i].id] \in refs
    /\ row.oldest # Nil /\ row.oldest <= c.lines[i].at

\* What a file holds up to offset was read, if it is still what began with head.
Passed(c, row, refs, f, head, offset) ==
  /\ \E k \in Nat : offset = 2 * k
  /\ head = Nil => offset = 0
  /\ head # Nil /\ head = HeadIn(c) =>
       offset <= 2 * Len(c.lines) /\ Covered(c, row, refs, f, offset)

\* A file can be read on from where the last scan stopped.
Resumes(c, old, row, refs, f) ==
  old # Nil =>
    /\ Known(c, old.head)
    /\ row # Nil /\ row.complete # -1 =>
         ~old.discard /\ Passed(c, row, refs, f, old.head, old.offset)

\* A file that was read to its end, and has not changed since, was read wholly.
Whole(c, row, refs, f) ==
  row # Nil /\ row.complete = 1 /\ row.ver = c.ver /\ row.size = SizeIn(c)
    => Covered(c, row, refs, f, SizeIn(c))

\* What holds of a file whether or not it is being read.
SourcedAt(c, old, row, refs, reset, f, w) ==
  /\ Whole(c, row, refs, f)
  /\ row # Nil => row.ver <= w
  /\ reset /\ old # Nil /\ row # Nil => row.complete = -1

\* The tables are right about the files, but for those being read.
Sourced(t, reading) ==
  \A f \in Files :
    /\ f \notin reading => Resumes(disk[f], t.files[f], t.inv[f], t.refs, f)
    /\ SourcedAt(disk[f], t.files[f], t.inv[f], t.refs, t.reset, f, writes)

\* What is known of the file being read.
Following(opened, c, row, refs, reset, w) ==
  /\ row # Nil /\ opened.gen = row.gen /\ opened.oldest = row.oldest
  /\ opened.complete = -1 <=> row.complete = -1
  /\ opened.ver <= w
  /\ Known(c, opened.head)
  /\ opened.ver = c.ver => opened.size = SizeIn(c)
  /\ reset => opened.offset >= opened.size
  /\ ~reset /\ opened.ver = c.ver => HeadIn(c) \in {Nil, opened.head}
  /\ ~reset /\ opened.complete # -1 =>
       /\ ~opened.discard /\ Passed(c, row, refs, opened.id, opened.head, opened.offset)
       /\ opened.head = Nil => c.lines = <<>>

\* The open file is one the scan listed.
Followed ==
  file # Nil =>
    /\ scan # Nil /\ file.id \in scan.seen
    /\ Following(file, disk[file.id], tx.inv[file.id], tx.refs, tx.reset, writes)

\* A scan has the inventory of the files it listed; between two scans no file is
\* known without its inventory.
Inventoried == scan # Nil => scan.seen = {f \in Files : tx.inv[f] # Nil} /\ scan.todo \subseteq scan.seen
Settled(t) == \A f \in Files : t.files[f] # Nil => t.inv[f] # Nil

\* Lines are read two units at a time.
LEMMA HalfOf == ASSUME NEW k \in Nat PROVE (2 * k) \div 2 = k
OBVIOUS

\* The first line is known as the reader knows it.
LEMMA HeadIs == ASSUME NEW f, Sound(disk[f]) PROVE HeadOf(f) = HeadIn(disk[f])
BY DEF HeadOf, FirstLine, HeadIn, Sound

\* The size of a file is that of what is in it.
LEMMA SizeIs == ASSUME NEW f PROVE Size(f) = SizeIn(disk[f])
BY DEF Size, SizeIn

\* The size of a file is a number.
LEMMA SizeType ==
  ASSUME NEW c, c.lines \in Seq(Events \cup {Bad}) PROVE SizeIn(c) \in Nat
<1>1. Len(c.lines) \in Nat
  OBVIOUS
<1> DEFINE n == Len(c.lines)
<1>2. n \in Nat
  BY <1>1
<1> HIDE DEF n
<1>3. SizeIn(c) = 2 * n + (IF c.tail THEN 1 ELSE 0)
  BY DEF SizeIn, n
<1> QED BY ONLY <1>2, <1>3

\* What was known of the first line of a file stays true.
LEMMA KnownEvolves ==
  ASSUME NEW c, NEW d, NEW n, Sound(c), Sound(d), Evolves(c, d, n), NEW head, Known(c, head)
  PROVE  Known(d, head)
<1>1. CASE d.lines = c.lines /\ d.before = c.before
  BY <1>1 DEF Known, HeadIn
<1>2. CASE /\ c.lines # <<>> /\ d.before = c.before
           /\ \E l \in Events \cup {Bad} : d.lines = Append(c.lines, l)
  <2>1. c.lines \in Seq(Events \cup {Bad})
    BY DEF Sound, Content
  <2>2. d.lines # <<>> /\ d.lines[1] = c.lines[1]
    BY <2>1, <1>2
  <2> QED BY <2>2, <1>2 DEF Known, HeadIn
<1>3. CASE c.lines = <<>> /\ d.before = c.before
  BY <1>3 DEF Known, HeadIn
<1>4. CASE d.lines = <<>> /\ d.before = c.before \cup ({HeadIn(c)} \ {Nil})
  BY <1>4 DEF Known
<1> QED BY <1>1, <1>2, <1>3, <1>4 DEF Evolves

\* What was read of a file stays true of it.
LEMMA PassedEvolves ==
  ASSUME NEW c, NEW d, NEW n, Sound(c), Sound(d), Evolves(c, d, n), NEW head, Known(c, head),
         NEW row, NEW refs, NEW f, NEW offset, Passed(c, row, refs, f, head, offset)
  PROVE  Passed(d, row, refs, f, head, offset)
<1>1. SUFFICES ASSUME head # Nil, head = HeadIn(d)
               PROVE  offset <= 2 * Len(d.lines) /\ Covered(d, row, refs, f, offset)
  BY DEF Passed
<1>2. CASE d.lines = c.lines /\ d.before = c.before
  BY <1>1, <1>2 DEF Passed, HeadIn, Covered
<1>3. CASE /\ c.lines # <<>> /\ d.before = c.before
           /\ \E l \in Events \cup {Bad} : d.lines = Append(c.lines, l)
  <2>1. c.lines \in Seq(Events \cup {Bad}) /\ Len(c.lines) \in Nat
    BY DEF Sound, Content
  <2>2. /\ d.lines # <<>> /\ d.lines[1] = c.lines[1] /\ Len(d.lines) = Len(c.lines) + 1
        /\ DOMAIN d.lines = 1 .. Len(c.lines) + 1 /\ DOMAIN c.lines = 1 .. Len(c.lines)
        /\ \A i \in 1 .. Len(c.lines) : d.lines[i] = c.lines[i]
    BY <2>1, <1>3
  <2>3. head = HeadIn(c)
    BY <2>2, <1>1, <1>3 DEF HeadIn
  <2>4. PICK k \in Nat : offset = 2 * k
    BY DEF Passed
  <2>5. offset <= 2 * Len(c.lines) /\ Covered(c, row, refs, f, offset)
    BY <2>3, <1>1 DEF Passed
  <2>6. offset <= 2 * Len(d.lines)
    BY ONLY <2>1, <2>2, <2>4, <2>5
  <2>7. ASSUME NEW i \in DOMAIN d.lines, 2 * i <= offset PROVE i \in 1 .. Len(c.lines)
    BY ONLY <2>1, <2>2, <2>4, <2>5, <2>7
  <2>8. Covered(d, row, refs, f, offset)
    BY ONLY <2>2, <2>5, <2>7 DEF Covered
  <2> QED BY <2>6, <2>8
<1>4. CASE c.lines = <<>> /\ d.before = c.before /\ \E l \in Events \ c.before : d.lines = <<l>>
  BY <1>1, <1>4 DEF Known, HeadIn
<1>5. CASE d.lines = <<>>
  BY <1>1, <1>5 DEF HeadIn
<1> QED BY <1>2, <1>3, <1>4, <1>5 DEF Evolves

\* Nothing that the tables say of a file becomes false by a write to it.
LEMMA SourcedEvolves ==
  ASSUME NEW c, NEW d, NEW n \in Nat, Sound(c), Sound(d), Evolves(c, d, n + 1),
         NEW old, NEW row, NEW refs, NEW reset, NEW f, row # Nil => row.ver \in Nat
  PROVE  /\ Resumes(c, old, row, refs, f) => Resumes(d, old, row, refs, f)
         /\ SourcedAt(c, old, row, refs, reset, f, n) => SourcedAt(d, old, row, refs, reset, f, n + 1)
<1>1. ASSUME Resumes(c, old, row, refs, f) PROVE Resumes(d, old, row, refs, f)
  BY <1>1, KnownEvolves, PassedEvolves DEF Resumes
<1>2. ASSUME SourcedAt(c, old, row, refs, reset, f, n)
      PROVE  SourcedAt(d, old, row, refs, reset, f, n + 1)
  <2>1. d.ver = n + 1
    BY DEF Evolves
  <2>2. row # Nil => row.ver <= n + 1 /\ row.ver # d.ver
    BY <2>1, <1>2 DEF SourcedAt
  <2> QED BY <2>2, <1>2 DEF SourcedAt, Whole
<1> QED BY <1>1, <1>2

\* What the exporter keeps of its directory.
Disks ==
  /\ disk \in [Files -> Content] /\ feed \in Seq(Events \cup {Bad}) /\ writes \in 0 .. MaxWrites
  /\ \A f \in Files : Sound(disk[f]) /\ disk[f].ver <= writes

\* The exporter makes d of file f; it does not write the first line of a file
\* that the reader has open.
Writes(f, d) ==
  /\ disk' = [disk EXCEPT ![f] = d] /\ Sound(d) /\ Evolves(disk[f], d, writes + 1)
  /\ writes' = writes + 1 /\ writes' \in 0 .. MaxWrites /\ feed' \in Seq(Events \cup {Bad})
  /\ ~LateHeads /\ Headless(f) /\ disk[f].lines = <<>> => d.lines = <<>>
  /\ UNCHANGED <<known, db, tx, scan, file, aborts>>

\* A write puts the number of the write on what it made of the file.
LEMMA WriteIs ==
  ASSUME Disks, NEW f \in Files, NEW content, NEW rest, Write(f, content, rest),
         content \in Content, rest \in Seq(Events \cup {Bad}),
         content.lines # <<>> => content.lines[1] \in Events \ content.before,
         content.tail => content.lines # <<>>
  PROVE  LET d == [content EXCEPT !.ver = writes + 1]
         IN  /\ disk' = [disk EXCEPT ![f] = d] /\ Sound(d)
             /\ d.ver = writes + 1 /\ d.lines = content.lines /\ d.before = content.before
             /\ writes' = writes + 1 /\ writes' \in 0 .. MaxWrites /\ feed' \in Seq(Events \cup {Bad})
             /\ UNCHANGED <<known, db, tx, scan, file, aborts>>
<1> DEFINE d == [content EXCEPT !.ver = writes + 1]
<1>1. writes' = writes + 1 /\ writes' \in 0 .. MaxWrites
  BY DEF Write, Disks
<1>2. d \in Content
  BY <1>1 DEF Content
<1>3. d.ver = writes + 1 /\ d.lines = content.lines /\ d.before = content.before /\ d.tail = content.tail
  BY DEF Content
<1>4. Sound(d)
  BY <1>2, <1>3 DEF Sound
<1> QED BY <1>1, <1>3, <1>4 DEF Write

\* A line that is appended is a write.
LEMMA AppendIs ==
  ASSUME Disks, NEW f \in Files, AppendLine(f) PROVE \E d : Writes(f, d)
<1> DEFINE c == disk[f]
           l == Head(feed)
           e == [c EXCEPT !.lines = Append(@, l), !.tail = FALSE]
           d == [e EXCEPT !.ver = writes + 1]
<1>1. c \in Content /\ c.lines \in Seq(Events \cup {Bad}) /\ Sound(c)
  BY DEF Disks, Content
<1>2. l \in Events \cup {Bad} /\ Tail(feed) \in Seq(Events \cup {Bad})
  BY DEF AppendLine, Disks
<1>3. Write(f, e, Tail(feed))
  BY DEF AppendLine
<1>4. c.lines = <<>> => l \in Events \ c.before /\ (LateHeads \/ ~Headless(f))
  BY DEF AppendLine
<1> HIDE DEF l
<1>5. Append(c.lines, l) \in Seq(Events \cup {Bad}) /\ Append(c.lines, l) # <<>>
      /\ (c.lines # <<>> => Append(c.lines, l)[1] = c.lines[1])
      /\ (c.lines = <<>> => Append(c.lines, l) = <<l>> /\ Append(c.lines, l)[1] = l)
  <2> HIDE DEF c
  <2>1. ASSUME c.lines = <<>> PROVE Append(c.lines, l) = <<l>> /\ Append(c.lines, l)[1] = l
    BY <2>1, <1>2
  <2>2. ASSUME c.lines # <<>> PROVE Append(c.lines, l)[1] = c.lines[1]
    BY <2>2, <1>1, <1>2
  <2>3. Append(c.lines, l) \in Seq(Events \cup {Bad}) /\ Append(c.lines, l) # <<>>
    BY <1>1, <1>2
  <2> QED BY <2>1, <2>2, <2>3
<1>6. e \in Content /\ e.lines = Append(c.lines, l) /\ e.before = c.before /\ e.tail = FALSE
  BY <1>1, <1>5 DEF Content
<1> HIDE DEF e
<1>7. e.lines # <<>> => e.lines[1] \in Events \ e.before
  BY <1>1, <1>4, <1>5, <1>6 DEF Sound
<1>8. /\ disk' = [disk EXCEPT ![f] = d] /\ Sound(d)
      /\ d.ver = writes + 1 /\ d.lines = e.lines /\ d.before = e.before
      /\ writes' = writes + 1 /\ writes' \in 0 .. MaxWrites /\ feed' \in Seq(Events \cup {Bad})
      /\ UNCHANGED <<known, db, tx, scan, file, aborts>>
  BY <1>2, <1>3, <1>6, <1>7, WriteIs
<1> HIDE DEF d, c
<1>9. Evolves(c, d, writes + 1)
  BY <1>2, <1>4, <1>5, <1>6, <1>8 DEF Evolves
<1> QED BY <1>4, <1>8, <1>9 DEF Writes, c

\* So is half a line,
LEMMA HalfIs ==
  ASSUME Disks, NEW f \in Files, AppendHalf(f) PROVE \E d : Writes(f, d)
<1> DEFINE c == disk[f]
           e == [c EXCEPT !.tail = TRUE]
           d == [e EXCEPT !.ver = writes + 1]
<1>1. c \in Content /\ Sound(c) /\ Write(f, e, feed) /\ c.lines # <<>> /\ feed \in Seq(Events \cup {Bad})
  BY DEF AppendHalf, Disks
<1>2. e \in Content /\ e.lines = c.lines /\ e.before = c.before
  BY <1>1 DEF Content
<1> HIDE DEF e
<1>3. /\ disk' = [disk EXCEPT ![f] = d] /\ Sound(d)
      /\ d.ver = writes + 1 /\ d.lines = e.lines /\ d.before = e.before
      /\ writes' = writes + 1 /\ writes' \in 0 .. MaxWrites /\ feed' \in Seq(Events \cup {Bad})
      /\ UNCHANGED <<known, db, tx, scan, file, aborts>>
  BY <1>1, <1>2, WriteIs DEF Sound
<1> HIDE DEF d, c
<1> QED BY <1>1, <1>2, <1>3 DEF Writes, Evolves, c

\* and a new file under an old name,
LEMMA RotateIs ==
  ASSUME Disks, NEW f \in Files, Rotate(f) PROVE \E d : Writes(f, d)
<1> DEFINE c == disk[f]
           before == c.before \cup ({FirstLine(f)} \ {Nil})
           e == [c EXCEPT !.here = TRUE, !.lines = <<>>, !.tail = FALSE, !.born = writes + 1,
                          !.before = @ \cup ({FirstLine(f)} \ {Nil})]
           d == [e EXCEPT !.ver = writes + 1]
<1>1. c \in Content /\ Sound(c) /\ Write(f, e, feed) /\ feed \in Seq(Events \cup {Bad})
      /\ writes + 1 \in 0 .. MaxWrites
  BY DEF Rotate, Disks, Write
<1>2. before \in SUBSET Events /\ FirstLine(f) = HeadIn(c)
  BY <1>1 DEF FirstLine, HeadIn, Sound, Content
<1>3. e = [c EXCEPT !.here = TRUE, !.lines = <<>>, !.tail = FALSE, !.born = writes + 1,
                    !.before = before]
  OBVIOUS
<1> HIDE DEF e, before
<1>4. e \in Content /\ e.lines = <<>> /\ e.before = before /\ e.tail = FALSE
  <2>1. <<>> \in Seq(Events \cup {Bad})
    OBVIOUS
  <2> HIDE DEF c
  <2> QED BY ONLY <2>1, <1>1, <1>2, <1>3 DEF Content
<1>5. /\ disk' = [disk EXCEPT ![f] = d] /\ Sound(d)
      /\ d.ver = writes + 1 /\ d.lines = e.lines /\ d.before = e.before
      /\ writes' = writes + 1 /\ writes' \in 0 .. MaxWrites /\ feed' \in Seq(Events \cup {Bad})
      /\ UNCHANGED <<known, db, tx, scan, file, aborts>>
  BY <1>1, <1>4, WriteIs
<1> HIDE DEF d, c
<1> QED BY <1>2, <1>4, <1>5 DEF Writes, Evolves, c, before

\* and a file that is taken away:
LEMMA EvictIs ==
  ASSUME Disks, NEW f \in Files, Evict(f) PROVE \E d : Writes(f, d)
<1> DEFINE c == disk[f]
           e == [c EXCEPT !.here = FALSE]
           d == [e EXCEPT !.ver = writes + 1]
<1>1. c \in Content /\ Sound(c) /\ Write(f, e, feed) /\ feed \in Seq(Events \cup {Bad})
  BY DEF Evict, Disks
<1>2. e \in Content /\ e.lines = c.lines /\ e.before = c.before /\ e.tail = c.tail
  BY <1>1 DEF Content
<1> HIDE DEF e
<1>3. /\ disk' = [disk EXCEPT ![f] = d] /\ Sound(d)
      /\ d.ver = writes + 1 /\ d.lines = e.lines /\ d.before = e.before
      /\ writes' = writes + 1 /\ writes' \in 0 .. MaxWrites /\ feed' \in Seq(Events \cup {Bad})
      /\ UNCHANGED <<known, db, tx, scan, file, aborts>>
  BY <1>1, <1>2, WriteIs DEF Sound
<1> HIDE DEF d, c
<1> QED BY <1>2, <1>3 DEF Writes, Evolves, c

\* whatever the exporter does is a write to one file.
LEMMA ExporterWrites == ASSUME Disks, Exporter PROVE \E f \in Files : \E d : Writes(f, d)
BY AppendIs, HalfIs, RotateIs, EvictIs DEF Exporter

\* The directory is as it should be after a write.
LEMMA WritesDisks == ASSUME Disks, NEW f \in Files, NEW d, Writes(f, d) PROVE Disks'
<1>1. d \in Content /\ d.ver = writes + 1
  BY DEF Writes, Sound, Evolves
<1>2. disk' \in [Files -> Content]
  BY <1>1 DEF Writes, Disks
<1>3. writes \in Nat /\ writes' = writes + 1
  BY DEF Writes, Disks
<1>4. ASSUME NEW g \in Files PROVE Sound(disk'[g]) /\ disk'[g].ver <= writes'
  <2>1. CASE g = f
    BY <2>1, <1>1, <1>3 DEF Writes, Disks
  <2>2. CASE g # f
    <3>1. disk'[g] = disk[g] /\ disk[g].ver \in Nat /\ disk[g].ver <= writes /\ Sound(disk[g])
      BY <2>2 DEF Writes, Disks, Content
    <3> QED BY <3>1, <1>3
  <2> QED BY <2>1, <2>2
<1> QED BY <1>2, <1>4 DEF Disks, Writes, Sound

\* What the tables say of files stays true when one is written to.
LEMMA WritesKeep ==
  ASSUME Disks, NEW f \in Files, NEW d, Writes(f, d), NEW t, NEW reading, Sourced(t, reading),
         t.inv \in [Files -> InventoryRow \cup {Nil}]
  PROVE  \A g \in Files :
           /\ g \notin reading => Resumes(disk'[g], t.files[g], t.inv[g], t.refs, g)
           /\ SourcedAt(disk'[g], t.files[g], t.inv[g], t.refs, t.reset, g, writes')
<1> SUFFICES ASSUME NEW g \in Files
             PROVE  /\ g \notin reading => Resumes(disk'[g], t.files[g], t.inv[g], t.refs, g)
                    /\ SourcedAt(disk'[g], t.files[g], t.inv[g], t.refs, t.reset, g, writes')
  OBVIOUS
<1>1. writes \in Nat /\ writes' = writes + 1 /\ (t.inv[g] # Nil => t.inv[g].ver \in Nat)
  BY DEF Disks, Writes, InventoryRow
<1>2. /\ g \notin reading => Resumes(disk[g], t.files[g], t.inv[g], t.refs, g)
      /\ SourcedAt(disk[g], t.files[g], t.inv[g], t.refs, t.reset, g, writes)
  BY DEF Sourced
<1>3. CASE g # f
  <2>1. disk'[g] = disk[g]
    BY <1>3 DEF Writes, Disks
  <2>2. t.inv[g] # Nil /\ t.inv[g].ver <= writes => t.inv[g].ver <= writes'
    BY <1>1
  <2> QED BY <2>1, <2>2, <1>2 DEF SourcedAt
<1>4. CASE g = f
  <2>1. disk'[g] = d /\ Sound(d) /\ Evolves(disk[g], d, writes + 1) /\ Sound(disk[g])
    BY <1>4 DEF Writes, Disks
  <2> QED BY <2>1, <1>1, <1>2, SourcedEvolves
<1> QED BY <1>3, <1>4

\* So does what the reader knows of the file it has open.
LEMMA WritesFollow ==
  ASSUME ~LateHeads, Disks, NEW f \in Files, NEW d, Writes(f, d), Followed,
         file \in OpenFile \cup {Nil}
  PROVE  Followed'
<1>1. SUFFICES ASSUME file # Nil
               PROVE  Following(file, disk'[file.id], tx.inv[file.id], tx.refs, tx.reset, writes')
  BY DEF Writes, Followed, Following
<1> DEFINE g == file.id
           c == disk[g]
           row == tx.inv[g]
<1>2. g \in Files /\ file.ver \in Nat /\ writes \in Nat /\ writes' = writes + 1
  BY <1>1 DEF OpenFile, Disks, Writes
<1>3. Following(file, c, row, tx.refs, tx.reset, writes)
  BY <1>1 DEF Followed
<1>4. CASE g # f
  <2>1. disk'[g] = c
    BY <1>2, <1>4 DEF Writes, Disks
  <2>2. file.ver <= writes'
    BY <1>2, <1>3 DEF Following
  <2> QED BY <2>1, <2>2, <1>3 DEF Following
<1>5. CASE g = f
  <2>1. disk'[g] = d /\ Sound(d) /\ Evolves(c, d, writes + 1) /\ Sound(c)
    BY <1>2, <1>5 DEF Writes, Disks
  <2>2. file.ver <= writes' /\ file.ver # d.ver
    BY <2>1, <1>2, <1>3 DEF Following, Evolves
  <2>3. Known(d, file.head)
    BY <2>1, <1>3, KnownEvolves DEF Following
  <2>4. ASSUME ~tx.reset, file.complete # -1
        PROVE  /\ ~file.discard /\ Passed(d, row, tx.refs, g, file.head, file.offset)
               /\ file.head = Nil => d.lines = <<>>
    <3>1. ~file.discard /\ Passed(c, row, tx.refs, g, file.head, file.offset)
          /\ (file.head = Nil => c.lines = <<>>) /\ Known(c, file.head)
      BY <2>4, <1>3 DEF Following
    <3>2. Passed(d, row, tx.refs, g, file.head, file.offset)
      BY <3>1, <2>1, PassedEvolves
    <3>3. ASSUME file.head = Nil PROVE d.lines = <<>>
      <4>1. Headless(f) /\ disk[f].lines = <<>>
        BY <3>1, <3>3, <1>1, <1>5 DEF Headless, BeingRead
      <4> QED BY <4>1 DEF Writes
    <3> QED BY <3>1, <3>2, <3>3
  <2> QED BY <2>1, <2>2, <2>3, <2>4, <1>3 DEF Following
<1> QED BY <1>4, <1>5

\* What the tables hold.
Typed(t) ==
  /\ DOMAIN t = Columns
  /\ t.losses \in 0 .. MaxLosses
  /\ t.rows \subseteq [id : Ids, pending : BOOLEAN, row : Nat \ {0}] /\ IsFiniteSet(t.rows)
  /\ t.dedup \subseteq [event : Events, conflict : BOOLEAN]
  /\ t.counted \in [Ids -> Nat]
  /\ t.files \in [Files -> FileRow \cup {Nil}] /\ t.inv \in [Files -> InventoryRow \cup {Nil}]
  /\ t.refs \subseteq [file : Files, gen : Nat, id : Ids]
  /\ t.floor \in Nat /\ t.next \in Files \cup {Nil} /\ t.reset \in BOOLEAN

\* The columns about the files, and those about the events, are the same.
SameSources(t, u) ==
  /\ u.files = t.files /\ u.inv = t.inv /\ u.refs = t.refs /\ u.reset = t.reset
  /\ u.next = t.next

\* The columns that count events.
SameBooks(t, u) == u.rows = t.rows /\ u.dedup = t.dedup /\ u.counted = t.counted

\* The event has a signature.
Signs(t, id) == \E s \in t.dedup : s.event.id = id

\* No event is counted twice: one that is counted is signed, a row is signed and the
\* only one of its event, and one that waits was not counted.
Once(t, gone) ==
  /\ \A id \in Ids \ gone : t.counted[id] <= 1 /\ (t.counted[id] > 0 => Signs(t, id))
  /\ \A r \in t.rows : Signs(t, r.id) /\ (r.pending /\ r.id \notin gone => t.counted[r.id] = 0)
  /\ \A r, q \in t.rows : r.id = q.id => r = q

\* An event is signed when it has a signature.
LEMMA SignedIs == ASSUME NEW t, NEW id PROVE Signed(t, id) # {} <=> Signs(t, id)
BY DEF Signed, Signs

\* A set of numbers has a least member, and a finite one a greatest.
LEMMA Least == ASSUME NEW T \in SUBSET Nat, T # {} PROVE \E r \in T : \A q \in T : r <= q
<1> DEFINE Up(r) == 0 .. r
           Segments == {Up(r) : r \in T}
<1>1. \A r \in Nat : IsFiniteSet(Up(r))
  BY FS_Interval
<1>2. Segments \subseteq FiniteSubsetsOf(Nat)
  BY <1>1 DEF FiniteSubsetsOf
<1>3. Segments # {}
  OBVIOUS
<1>4. IsWellFoundedOn(StrictSubsetOrdering(Nat), FiniteSubsetsOf(Nat))
  BY FS_StrictSubsetOrderingWellFounded
<1> HIDE DEF Segments
<1>5. PICK A \in Segments : \A B \in Segments : ~(<<B, A>> \in StrictSubsetOrdering(Nat))
  BY <1>2, <1>3, <1>4, WFMin
<1> USE DEF Segments
<1>6. PICK r \in T : A = Up(r)
  BY <1>5
<1>7. ASSUME NEW q \in T, q < r PROVE FALSE
  <2>1. Up(q) \in SUBSET Nat /\ Up(r) \in SUBSET Nat /\ Up(q) \subseteq Up(r) /\ Up(q) # Up(r)
    BY <1>7
  <2>2. <<Up(q), Up(r)>> \in StrictSubsetOrdering(Nat)
    BY <2>1 DEF StrictSubsetOrdering
  <2> QED BY <2>2, <1>5, <1>6
<1> QED BY <1>7

\* A finite set of numbers has a greatest member.
LEMMA Greatest ==
  ASSUME NEW T \in SUBSET Nat, T # {}, IsFiniteSet(T) PROVE \E r \in T : \A q \in T : q <= r
<1> DEFINE Above(r) == {q \in T : r <= q}
           Segments == {Above(r) : r \in T}
<1>1. \A r \in T : IsFiniteSet(Above(r)) /\ Above(r) \in SUBSET T
  BY FS_Subset
<1>2. Segments \subseteq FiniteSubsetsOf(T)
  BY <1>1 DEF FiniteSubsetsOf
<1>3. Segments # {}
  OBVIOUS
<1>4. IsWellFoundedOn(StrictSubsetOrdering(T), FiniteSubsetsOf(T))
  BY FS_StrictSubsetOrderingWellFounded
<1> HIDE DEF Segments
<1>5. PICK A \in Segments : \A B \in Segments : ~(<<B, A>> \in StrictSubsetOrdering(T))
  BY <1>2, <1>3, <1>4, WFMin
<1> USE DEF Segments
<1>6. PICK r \in T : A = Above(r)
  BY <1>5
<1>7. ASSUME NEW q \in T, r < q PROVE FALSE
  <2>1. Above(q) \in SUBSET T /\ Above(r) \in SUBSET T /\ Above(q) # Above(r) /\ Above(q) \subseteq Above(r)
    <3>1. r \in Above(r) /\ r \notin Above(q)
      BY <1>7
    <3>2. \A p \in T : q <= p => r <= p
      BY <1>7
    <3> QED BY <3>1, <3>2
  <2>2. <<Above(q), Above(r)>> \in StrictSubsetOrdering(T)
    BY <2>1 DEF StrictSubsetOrdering
  <2> QED BY <2>2, <1>5, <1>6
<1> QED BY <1>7

\* The minimum is a member, and the least one.
LEMMA MinIs ==
  ASSUME NEW T \in SUBSET Nat, T # {} PROVE Min(T) \in T /\ \A q \in T : Min(T) <= q
BY Least DEF Min

\* The maximum is a member, and the greatest one.
LEMMA MaxIs ==
  ASSUME NEW T \in SUBSET Nat, T # {}, IsFiniteSet(T)
  PROVE  Max(T) \in T /\ \A q \in T : q <= Max(T)
BY Greatest DEF Max

\* The greater one of two numbers is one of them.
LEMMA MaxOfTwo ==
  ASSUME NEW a \in Nat, NEW b \in Nat
  PROVE  Max({a, b}) \in Nat /\ Max({a, b}) >= a /\ (Max({a, b}) > a => Max({a, b}) = b)
<1>1. CASE a <= b
  BY <1>1 DEF Max
<1>2. CASE b <= a
  BY <1>2 DEF Max
<1> QED BY <1>1, <1>2

\* Losses change nothing else.
LEMMA LossesEffect ==
  ASSUME NEW t, Typed(t), NEW n \in Nat
  PROVE  LET u == Losses(t, n)
         IN  Typed(u) /\ SameSources(t, u) /\ SameBooks(t, u) /\ u.floor = t.floor
<1> DEFINE sum == t.losses + n
           least == Min({sum, MaxLosses})
           u == Losses(t, n)
<1>1. sum \in Nat /\ MaxLosses \in Nat
  BY DEF Typed
<1>2. least \in 0 .. MaxLosses
  <2> HIDE DEF sum
  <2> QED BY <1>1, MinOfTwo
<1>3. u = [t EXCEPT !.losses = least]
  BY DEF Losses
<1> HIDE DEF sum, least, u
<1>4. /\ DOMAIN u = Columns /\ u.losses = least /\ u.floor = t.floor
      /\ SameSources(t, u) /\ SameBooks(t, u)
  BY <1>3 DEF Typed, Columns, SameSources, SameBooks
<1>5. Typed(u)
  BY <1>2, <1>4 DEF Typed, SameSources, SameBooks
<1> QED BY <1>4, <1>5 DEF u

\* Rows go, signatures and totals stay.
LEMMA DeleteEffect ==
  ASSUME NEW t, Typed(t), NEW ids
  PROVE  LET u == Delete(t, ids)
         IN  /\ Typed(u) /\ SameSources(t, u) /\ u.floor = t.floor
             /\ u.rows \subseteq t.rows /\ u.dedup = t.dedup /\ u.counted = t.counted
<1> DEFINE gone == RowsIn(t, ids)
           waiting == {r \in gone : r.pending}
           n == Cardinality(waiting)
           v == Losses(t, n)
           u == Delete(t, ids)
<1>1. n \in Nat
  <2>1. waiting \subseteq t.rows
    BY DEF RowsIn
  <2> HIDE DEF waiting
  <2> QED BY <2>1, FS_Subset, FS_CardinalityType DEF Typed
<1> HIDE DEF n
<1>2. Typed(v) /\ SameSources(t, v) /\ SameBooks(t, v) /\ v.floor = t.floor
  BY <1>1, LossesEffect
<1> HIDE DEF gone
<1>3. u = [v EXCEPT !.rows = v.rows \ gone]
  BY DEF Delete, n, gone
<1> HIDE DEF v, u
<1>4. /\ DOMAIN u = Columns /\ u.rows = v.rows \ gone /\ u.losses = v.losses /\ u.floor = v.floor
      /\ SameSources(v, u) /\ u.dedup = v.dedup /\ u.counted = v.counted
  BY <1>2, <1>3 DEF Typed, Columns, SameSources
<1>5. IsFiniteSet(u.rows)
  BY <1>2, <1>4, FS_Subset DEF Typed
<1>6. Typed(u)
  BY <1>2, <1>4, <1>5 DEF Typed, SameSources
<1> QED BY <1>2, <1>4, <1>6 DEF SameSources, SameBooks, u

\* Expired rows are deleted, and nothing else changes.
LEMMA PruneEffect ==
  ASSUME NEW t, Typed(t), NEW expired
  PROVE  LET u == _Prune(t, expired)
         IN  /\ Typed(u) /\ SameSources(t, u) /\ u.floor = t.floor
             /\ u.rows \subseteq t.rows /\ u.dedup = t.dedup /\ u.counted = t.counted
BY DeleteEffect DEF _Prune

\* Fewer rows are accounted for as well.
LEMMA FewerRowsOnce ==
  ASSUME NEW t, NEW u, NEW gone, Once(t, gone),
         u.rows \subseteq t.rows, u.dedup = t.dedup, u.counted = t.counted
  PROVE  Once(u, gone)
BY DEF Once, Signs

\* So are the same rows when more is forgotten.
LEMMA OnceGrows ==
  ASSUME NEW t, NEW gone, NEW more, Once(t, gone), gone \subseteq more PROVE Once(t, more)
BY DEF Once

\* The oldest events of the inventory.
LEMMA OldestFacts ==
  ASSUME NEW t, Typed(t)
  PROVE  /\ Oldest(t) \in SUBSET Nat
         /\ \A f \in Files : t.inv[f] # Nil /\ t.inv[f].oldest # Nil => t.inv[f].oldest \in Oldest(t)
BY DEF Oldest, Typed, InventoryRow

\* The inventory was verified and has not changed.
Stable(t) == Verified(t) /\ Changed(t) = {}

\* A file of the inventory holds the event.
References(t, id) == \E r \in t.refs : r.id = id

\* The window closes only over a stable inventory: then the floor may rise to the
\* oldest event, and signatures without a row and a reference go.
LEMMA WindowEffect ==
  ASSUME NEW t, Typed(t), NEW expired
  PROVE  LET u == _SourceWindow(t, expired)
         IN  /\ Typed(u)
             /\ u.files = t.files /\ u.refs = t.refs /\ u.reset = t.reset /\ u.next = t.next
             /\ u.rows \subseteq t.rows /\ u.counted = t.counted
             /\ u.floor >= t.floor
             /\ u.floor > t.floor => Stable(t) /\ Oldest(t) # {} /\ u.floor = Min(Oldest(t))
             /\ \/ u.dedup = t.dedup
                \/ Stable(t) /\ u.dedup = {s \in t.dedup : (\E r \in u.rows : r.id = s.event.id)
                                                           \/ References(t, s.event.id)}
             /\ \/ u.inv = t.inv
                \/ \E f \in Files : /\ t.inv[f] # Nil /\ t.inv[f].complete = 1
                                    /\ u.inv = [t.inv EXCEPT ![f] = [@ EXCEPT !.complete = 0]]
<1> DEFINE u == _SourceWindow(t, expired)
<1>1. CASE ~Verified(t)
  <2>1. u = t
    BY <1>1 DEF _SourceWindow
  <2> HIDE DEF u
  <2>2. t.floor \in Nat
    BY DEF Typed
  <2> QED BY <2>1, <2>2 DEF u
<1>2. CASE Verified(t) /\ Changed(t) # {}
  <2> DEFINE f == CHOOSE f \in Changed(t) : TRUE
  <2>1. f \in Changed(t)
    BY <1>2
  <2>2. f \in Files /\ t.inv[f] # Nil
    BY <2>1 DEF Changed
  <2>3. t.inv[f].complete = 1 /\ t.inv[f] \in InventoryRow
    BY <2>2, <1>2 DEF Verified, Typed
  <2>4. u = [t EXCEPT !.inv[f].complete = 0]
    BY <1>2 DEF _SourceWindow
  <2> DEFINE inv == [t.inv EXCEPT ![f] = [@ EXCEPT !.complete = 0]]
  <2>5. u = [t EXCEPT !.inv = inv]
    BY <2>4
  <2> HIDE DEF f, u
  <2>6. inv \in [Files -> InventoryRow \cup {Nil}]
    BY <2>2, <2>3 DEF Typed, InventoryRow
  <2> HIDE DEF inv
  <2>7. /\ DOMAIN u = Columns /\ u.inv = inv /\ u.losses = t.losses /\ u.floor = t.floor /\ u.files = t.files
        /\ u.refs = t.refs /\ u.reset = t.reset /\ u.next = t.next /\ u.rows = t.rows
        /\ u.counted = t.counted /\ u.dedup = t.dedup
    BY <2>5 DEF Typed, Columns
  <2>8. Typed(u) /\ u.floor \in Nat
    BY <2>6, <2>7 DEF Typed
  <2>9. u.rows \subseteq t.rows /\ u.floor >= t.floor /\ ~(u.floor > t.floor)
    BY <2>7, <2>8
  <2>10. \E g \in Files : /\ t.inv[g] # Nil /\ t.inv[g].complete = 1
                          /\ u.inv = [t.inv EXCEPT ![g] = [@ EXCEPT !.complete = 0]]
    BY <2>2, <2>3, <2>7 DEF inv
  <2> QED BY <2>7, <2>8, <2>9, <2>10 DEF u
<1>3. CASE Stable(t)
  <2> DEFINE top == Max({t.floor, Min(Oldest(t))})
             w == [t EXCEPT !.floor = top]
             risen == IF Oldest(t) = {} THEN t ELSE _Prune(w, expired)
  <2>1. u = [risen EXCEPT !.dedup = Backed(risen)]
    BY <1>3 DEF _SourceWindow, Stable
  <2>2. ASSUME Oldest(t) # {}
        PROVE  top \in Nat /\ top >= t.floor /\ (top > t.floor => top = Min(Oldest(t)))
    <3>1. Min(Oldest(t)) \in Nat
      BY <2>2, OldestFacts, MinIs
    <3>2. t.floor \in Nat
      BY DEF Typed
    <3> QED BY <3>1, <3>2, MaxOfTwo
  <2> HIDE DEF top
  <2>3. /\ DOMAIN w = Columns /\ w.floor = top /\ SameSources(t, w) /\ SameBooks(t, w)
        /\ w.losses = t.losses
    BY DEF Typed, Columns, SameSources, SameBooks
  <2> HIDE DEF w
  <2>4. ASSUME Oldest(t) # {} PROVE Typed(w)
    BY <2>2, <2>3, <2>4 DEF Typed, SameSources, SameBooks
  <2>5. /\ Typed(risen) /\ SameSources(t, risen)
        /\ risen.rows \subseteq t.rows /\ risen.dedup = t.dedup /\ risen.counted = t.counted
        /\ risen.floor >= t.floor
        /\ risen.floor > t.floor => Oldest(t) # {} /\ risen.floor = Min(Oldest(t))
    <3>1. CASE Oldest(t) = {}
      BY <3>1 DEF SameSources, Typed
    <3>2. CASE Oldest(t) # {}
      BY <3>2, <2>2, <2>3, <2>4, PruneEffect DEF SameSources, SameBooks
    <3> QED BY <3>1, <3>2
  <2> HIDE DEF risen, u
  <2>6. Backed(risen) = {s \in t.dedup : (\E r \in risen.rows : r.id = s.event.id)
                                         \/ References(t, s.event.id)}
    BY <2>5 DEF Backed, RowIds, References, SameSources
  <2>7. /\ DOMAIN u = Columns /\ u.dedup = Backed(risen) /\ SameSources(risen, u)
        /\ u.rows = risen.rows /\ u.counted = risen.counted /\ u.floor = risen.floor
        /\ u.losses = risen.losses
    BY <2>1, <2>5 DEF Typed, Columns, SameSources
  <2>8. Backed(risen) \subseteq risen.dedup
    BY DEF Backed
  <2>9. Typed(u)
    BY <2>5, <2>7, <2>8 DEF Typed, SameSources
  <2> QED BY <2>5, <2>6, <2>7, <2>9, <1>3 DEF SameSources, u
<1> QED BY <1>1, <1>2, <1>3 DEF Stable

\* The row of a new event.
LEMMA NextRow ==
  ASSUME NEW t, Typed(t) PROVE Max({r.row : r \in t.rows} \cup {0}) \in Nat
<1> DEFINE row == [r \in t.rows |-> r.row]
           numbers == {r.row : r \in t.rows}
<1>1. row \in Surjection(t.rows, numbers)
  BY DEF Surjection
<1>2. IsFiniteSet(numbers)
  <2> HIDE DEF row, numbers
  <2> QED BY <1>1, FS_Surjection DEF Typed
<1>3. numbers \subseteq Nat
  BY DEF Typed
<1> HIDE DEF numbers
<1>4. IsFiniteSet(numbers \cup {0}) /\ numbers \cup {0} \subseteq Nat /\ numbers \cup {0} # {}
  BY <1>2, <1>3, FS_AddElement
<1> DEFINE all == numbers \cup {0}
<1>5. IsFiniteSet(all) /\ all \in SUBSET Nat /\ all # {}
  BY <1>4
<1> HIDE DEF all
<1>6. Max(all) \in Nat
  BY <1>5, MaxIs
<1> QED BY <1>6 DEF all, numbers

\* What a record does to the rows, the signatures and the totals.
LEMMA EventEffect ==
  ASSUME NEW t, Typed(t), NEW e \in Events
  PROVE  LET u == _Event(t, e)
         IN  /\ Typed(u) /\ SameSources(t, u) /\ u.floor = t.floor
             /\ \A gone : Once(t, gone) => Once(u, gone)
             /\ \A id \in Ids : u.counted[id] >= t.counted[id]
             /\ \A r \in u.rows : r \in t.rows \/ r.id = e.id
<1> DEFINE Good(u) ==
      /\ Typed(u) /\ SameSources(t, u) /\ u.floor = t.floor
      /\ \A gone : Once(t, gone) => Once(u, gone)
      /\ \A id \in Ids : u.counted[id] >= t.counted[id]
      /\ \A r \in u.rows : r \in t.rows \/ r.id = e.id
<1>1. e.id \in Ids /\ \A id \in Ids : t.counted[id] \in Nat
  BY DEF Ids, Typed
<1>2. Good(t)
  BY <1>1 DEF SameSources
<1>3. ASSUME NEW v, Typed(v), SameSources(t, v), v.floor = t.floor, v.rows = t.rows,
             v.counted = t.counted, \A id : Signs(t, id) <=> Signs(v, id)
      PROVE  Good(_Loss(v))
  <2> DEFINE u == _Loss(v)
  <2>1. Typed(u) /\ SameSources(v, u) /\ SameBooks(v, u) /\ u.floor = v.floor
    BY <1>3, LossesEffect DEF _Loss
  <2> HIDE DEF u
  <2>2. SameSources(t, u) /\ u.floor = t.floor /\ u.rows = t.rows /\ u.counted = t.counted
    BY <2>1, <1>3 DEF SameSources, SameBooks
  <2>3. \A id : Signs(t, id) <=> Signs(u, id)
    BY <2>1, <1>3 DEF Signs, SameBooks
  <2>4. ASSUME NEW gone, Once(t, gone) PROVE Once(u, gone)
    BY <2>2, <2>3, <2>4 DEF Once
  <2>5. \A id \in Ids : u.counted[id] >= t.counted[id]
    BY <2>2, <1>1
  <2>6. Good(u)
    BY <2>1, <2>2, <2>4, <2>5
  <2> QED BY <2>6 DEF u
<1>4. Good(_Loss(t))
  BY <1>3 DEF SameSources
<1> DEFINE previous == Signed(t, e.id)
           conflict == {s \in previous : s.event # e /\ ~s.conflict}
           signs == (t.dedup \ conflict) \cup {[s EXCEPT !.conflict = TRUE] : s \in conflict}
           marked == [t EXCEPT !.dedup = (@ \ conflict)
                                         \cup {[s EXCEPT !.conflict = TRUE] : s \in conflict}]
           n == Max({r.row : r \in t.rows} \cup {0})
           new == [id |-> e.id, pending |-> e.chat \notin known, row |-> n + 1]
           fresh == [event |-> e, conflict |-> FALSE]
           stored == [t EXCEPT !.rows = @ \cup {new}, !.dedup = @ \cup {fresh}]
           added == _Add(stored, e)
<1>5. Good(_Loss(marked))
  <2>1. /\ conflict \subseteq t.dedup /\ t.dedup \subseteq [event : Events, conflict : BOOLEAN]
    BY DEF Typed, Signed
  <2> HIDE DEF conflict
  <2>2. \A s \in conflict : /\ [s EXCEPT !.conflict = TRUE] \in [event : Events, conflict : BOOLEAN]
                            /\ [s EXCEPT !.conflict = TRUE].event = s.event
    BY <2>1
  <2>3. signs \subseteq [event : Events, conflict : BOOLEAN]
    BY <2>1, <2>2
  <2>4. \A id : (\E s \in t.dedup : s.event.id = id) <=> (\E s \in signs : s.event.id = id)
    BY <2>1, <2>2
  <2>5. marked = [t EXCEPT !.dedup = signs]
    OBVIOUS
  <2> HIDE DEF signs, marked
  <2>6. /\ DOMAIN marked = Columns /\ marked.dedup = signs /\ marked.rows = t.rows
        /\ marked.counted = t.counted /\ marked.floor = t.floor /\ marked.losses = t.losses
        /\ SameSources(t, marked)
    BY <2>5 DEF Typed, Columns, SameSources
  <2>7. Typed(marked)
    BY <2>3, <2>6 DEF Typed, SameSources
  <2>8. \A id : Signs(t, id) <=> Signs(marked, id)
    BY <2>4, <2>6 DEF Signs
  <2> QED BY <2>6, <2>7, <2>8, <1>3
<1> DEFINE rows == t.rows \cup {new}
           known2 == t.dedup \cup {fresh}
<1>6. n \in Nat
  BY NextRow
<1> HIDE DEF n
<1>7. /\ new \in [id : Ids, pending : BOOLEAN, row : Nat \ {0}] /\ new.id = e.id
      /\ fresh \in [event : Events, conflict : BOOLEAN] /\ fresh.event = e
  BY <1>1, <1>6
<1>8. stored = [t EXCEPT !.rows = rows, !.dedup = known2]
  OBVIOUS
<1> HIDE DEF new, fresh, stored
<1>9. /\ DOMAIN stored = Columns /\ stored.rows = rows /\ stored.dedup = known2
      /\ stored.counted = t.counted /\ stored.floor = t.floor /\ stored.losses = t.losses
      /\ SameSources(t, stored)
  BY <1>8 DEF Typed, Columns, SameSources
<1>10. IsFiniteSet(rows) /\ rows \subseteq [id : Ids, pending : BOOLEAN, row : Nat \ {0}]
       /\ known2 \subseteq [event : Events, conflict : BOOLEAN]
  BY <1>7, FS_AddElement DEF Typed
<1> HIDE DEF rows, known2
<1>11. Typed(stored)
  BY <1>9, <1>10 DEF Typed, SameSources
<1>12. ASSUME NEW u, NEW gone, Once(t, gone), previous = {},
              u.rows = rows, u.dedup = known2,
              \A id \in Ids : id # e.id => u.counted[id] = t.counted[id],
              e.id \notin gone => u.counted[e.id] <= 1 /\ (new.pending => u.counted[e.id] = 0)
       PROVE  Once(u, gone)
  <2>1. ~Signs(t, e.id)
    BY <1>12, SignedIs
  <2>2. \A id : Signs(u, id) <=> Signs(t, id) \/ id = e.id
    BY <1>7, <1>12 DEF Signs, known2
  <2>3. \A r \in t.rows : r.id # e.id /\ r.id \in Ids
    BY <2>1, <1>12 DEF Once, Typed
  <2>4. \A id \in Ids \ gone : u.counted[id] <= 1 /\ (u.counted[id] > 0 => Signs(u, id))
    BY <2>2, <1>12 DEF Once
  <2>5. \A r \in rows : Signs(u, r.id) /\ (r.pending /\ r.id \notin gone => u.counted[r.id] = 0)
    BY <2>2, <2>3, <1>7, <1>12 DEF Once, rows
  <2>6. \A r, q \in rows : r.id = q.id => r = q
    BY <2>3, <1>7, <1>12 DEF Once, rows
  <2> QED BY <2>4, <2>5, <2>6, <1>12 DEF Once
<1>13. ASSUME NEW gone, Once(t, gone), previous = {}, e.id \notin gone PROVE t.counted[e.id] = 0
  <2>1. ~Signs(t, e.id)
    BY <1>13, SignedIs
  <2> QED BY <2>1, <1>1, <1>13 DEF Once
<1>14. ASSUME previous = {} PROVE Good(stored)
  <2>1. ASSUME NEW gone, Once(t, gone) PROVE Once(stored, gone)
    <3>1. e.id \notin gone => t.counted[e.id] = 0
      BY <1>13, <1>14, <2>1
    <3> QED BY <3>1, <2>1, <1>9, <1>12, <1>14
  <2>2. \A id \in Ids : stored.counted[id] >= t.counted[id]
    BY <1>1, <1>9
  <2>3. \A r \in stored.rows : r \in t.rows \/ r.id = e.id
    BY <1>7, <1>9 DEF rows
  <2> QED BY <2>1, <2>2, <2>3, <1>9, <1>11
<1>15. ASSUME previous = {}, e.chat \in known PROVE Good(added)
  <2> DEFINE totals == [t.counted EXCEPT ![e.id] = @ + 1]
  <2>1. added = [stored EXCEPT !.counted = totals]
    BY <1>9 DEF _Add
  <2>2. /\ totals \in [Ids -> Nat] /\ totals[e.id] = t.counted[e.id] + 1
        /\ \A id \in Ids : id # e.id => totals[id] = t.counted[id]
    BY <1>1 DEF Typed
  <2> HIDE DEF totals, added
  <2>3. /\ DOMAIN added = Columns /\ added.rows = rows /\ added.dedup = known2
        /\ added.counted = totals /\ added.floor = t.floor /\ added.losses = t.losses
        /\ SameSources(t, added)
    BY <2>1, <1>9 DEF Columns, SameSources
  <2>4. Typed(added)
    BY <2>2, <2>3, <1>9, <1>11 DEF Typed, SameSources
  <2>5. ~new.pending
    BY <1>15 DEF new
  <2>6. ASSUME NEW gone, Once(t, gone) PROVE Once(added, gone)
    <3>1. e.id \notin gone => added.counted[e.id] <= 1
      BY <2>2, <2>3, <2>6, <1>13, <1>15
    <3> QED BY <3>1, <2>2, <2>3, <2>5, <2>6, <1>12, <1>15
  <2>7. \A id \in Ids : added.counted[id] >= t.counted[id]
    BY <2>2, <2>3, <1>1
  <2>8. \A r \in added.rows : r \in t.rows \/ r.id = e.id
    BY <2>3, <1>7 DEF rows
  <2> QED BY <2>3, <2>4, <2>6, <2>7, <2>8
<1> HIDE DEF previous, marked, added, conflict, Good
<1> DEFINE result ==
      IF e.at <= t.replay THEN _Loss(t)
      ELSE IF conflict # {} THEN _Loss(marked)
      ELSE IF previous # {} THEN t
      ELSE IF e.at < t.floor \/ Cardinality(t.rows) >= MaxEvents THEN _Loss(t)
      ELSE IF e.chat \in known THEN added ELSE stored
<1>16. _Event(t, e) = result
  BY DEF _Event, previous, conflict, marked, stored, new, added, fresh, n
<1>17. Good(result)
  BY <1>2, <1>4, <1>5, <1>14, <1>15
<1>18. Good(_Event(t, e))
  BY <1>16, <1>17
<1> QED BY <1>18 DEF Good

\* Joining rows adds each event that is accounted for once at most, and the rows stay.
LEMMA ResolveEffect ==
  ASSUME NEW t, Typed(t)
  PROVE  LET u == _Resolve(t)
         IN  /\ Typed(u) /\ SameSources(t, u) /\ u.floor = t.floor
             /\ \A gone : Once(t, gone) => Once(u, gone)
<1> DEFINE batch == Batch(t)
           event(r) == (CHOOSE s \in t.dedup : s.event.id = r.id).event
           joined == {r \in batch : event(r).chat \in known}
           settle(r) == [r EXCEPT !.pending = FALSE]
           settled == {settle(r) : r \in joined}
           rows == (t.rows \ joined) \cup settled
           of(id) == {r \in joined : r.id = id}
           totals == [id \in Ids |-> t.counted[id] + Cardinality(of(id))]
           cursor == IF batch = {} THEN 0 ELSE Max({r.row : r \in batch})
           u == [t EXCEPT !.rows = rows, !.counted = totals, !.cursor = cursor]
<1>1. batch \subseteq t.rows /\ \A r \in batch : r.pending
  BY DEF Batch, FirstRows
<1>2. _Resolve(t) = u
  BY DEF _Resolve
<1> HIDE DEF batch, event
<1>3. joined \subseteq t.rows /\ IsFiniteSet(joined) /\ \A r \in joined : r.pending
  <2>1. joined \subseteq t.rows /\ \A r \in joined : r.pending
    BY <1>1
  <2> HIDE DEF joined
  <2> QED BY <2>1, FS_Subset DEF Typed
<1> HIDE DEF joined
<1>4. \A id \in Ids : Cardinality(of(id)) \in Nat
  <2> TAKE id \in Ids
  <2>1. IsFiniteSet(of(id))
    BY <1>3, FS_Subset
  <2> HIDE DEF of
  <2> QED BY <2>1, FS_CardinalityType
<1>5. /\ totals \in [Ids -> Nat]
      /\ \A id \in Ids : totals[id] = t.counted[id] + Cardinality(of(id))
  <2> HIDE DEF of
  <2> QED BY <1>4 DEF Typed
<1>6. \A r \in joined : /\ settle(r) \in [id : Ids, pending : BOOLEAN, row : Nat \ {0}]
                        /\ settle(r).id = r.id /\ settle(r).pending = FALSE
  <2> TAKE r \in joined
  <2>1. r \in [id : Ids, pending : BOOLEAN, row : Nat \ {0}]
    BY <1>3 DEF Typed
  <2> QED BY ONLY <2>1
<1> HIDE DEF settle
<1>7. settled \subseteq [id : Ids, pending : BOOLEAN, row : Nat \ {0}]
  BY <1>6
<1>8. IsFiniteSet(settled)
  <2> DEFINE g == [r \in joined |-> settle(r)]
  <2>1. g \in Surjection(joined, settled)
    BY DEF Surjection
  <2> HIDE DEF g, settled
  <2> QED BY <2>1, <1>3, FS_Surjection
<1>9. IsFiniteSet(rows)
  <2>1. IsFiniteSet(t.rows \ joined)
    BY FS_Subset DEF Typed
  <2> HIDE DEF settled
  <2> QED BY <2>1, <1>8, FS_Union
<1>10. \A r \in rows : \E q \in t.rows : /\ q.id = r.id
                                         /\ r.pending => q = r /\ r \notin joined
                                         /\ r = IF q \in joined THEN settle(q) ELSE q
  BY <1>3, <1>6
<1>11. rows \subseteq [id : Ids, pending : BOOLEAN, row : Nat \ {0}]
  BY <1>7 DEF Typed
<1> HIDE DEF rows, totals, cursor
<1>12. /\ DOMAIN u = Columns /\ u.losses = t.losses /\ u.dedup = t.dedup /\ u.floor = t.floor
       /\ u.rows = rows /\ u.counted = totals /\ SameSources(t, u)
  BY DEF Typed, Columns, SameSources
<1> HIDE DEF u
<1>13. Typed(u)
  BY <1>5, <1>9, <1>11, <1>12 DEF Typed, SameSources
<1>14. ASSUME NEW gone, Once(t, gone) PROVE Once(u, gone)
  <2>1. ASSUME NEW id \in Ids, NEW r \in joined, r.id = id PROVE Cardinality(of(id)) = 1
    <3>1. of(id) = {r}
      BY <2>1, <1>3, <1>14 DEF Once
    <3> HIDE DEF of
    <3> QED BY <3>1, FS_Singleton
  <2>2. ASSUME NEW id \in Ids, \A r \in joined : r.id # id PROVE Cardinality(of(id)) = 0
    <3>1. of(id) = {}
      BY <2>2
    <3> HIDE DEF of
    <3> QED BY <3>1, FS_EmptySet
  <2> HIDE DEF of
  <2>3. ASSUME NEW id \in Ids \ gone
        PROVE  /\ totals[id] <= 1 /\ (totals[id] > 0 => Signs(t, id))
               /\ (\A r \in joined : r.id # id) => totals[id] = t.counted[id]
    <3>1. t.counted[id] \in Nat /\ t.counted[id] <= 1 /\ (t.counted[id] > 0 => Signs(t, id))
      BY <1>14 DEF Once, Typed
    <3>2. CASE \A r \in joined : r.id # id
      BY <3>1, <3>2, <2>2, <1>5
    <3>3. CASE \E r \in joined : r.id = id
      <4>1. PICK r \in joined : r.id = id
        BY <3>3
      <4>2. t.counted[id] = 0 /\ Signs(t, id)
        BY <4>1, <1>3, <1>14 DEF Once
      <4>3. totals[id] = 1
        BY <4>1, <4>2, <2>1, <1>5
      <4> QED BY <4>1, <4>2, <4>3
    <3> QED BY <3>2, <3>3
  <2>4. \A id : Signs(u, id) <=> Signs(t, id)
    BY <1>12 DEF Signs
  <2>5. \A id \in Ids \ gone : u.counted[id] <= 1 /\ (u.counted[id] > 0 => Signs(u, id))
    BY <2>3, <2>4, <1>12
  <2>6. ASSUME NEW r \in u.rows
        PROVE  Signs(u, r.id) /\ (r.pending /\ r.id \notin gone => u.counted[r.id] = 0)
    <3>1. PICK q \in t.rows : q.id = r.id /\ (r.pending => q = r /\ r \notin joined)
      BY <1>10, <1>12
    <3>2. Signs(u, r.id) /\ r.id \in Ids
      BY <3>1, <2>4, <1>14 DEF Once, Typed
    <3>3. ASSUME r.pending, r.id \notin gone PROVE u.counted[r.id] = 0
      <4>1. \A p \in joined : p.id # r.id
        BY <3>1, <3>3, <1>3, <1>14 DEF Once
      <4>2. t.counted[r.id] = 0
        BY <3>1, <3>3, <1>14 DEF Once
      <4> QED BY <3>2, <3>3, <4>1, <4>2, <2>3, <1>12
    <3> QED BY <3>2, <3>3
  <2>7. ASSUME NEW r \in u.rows, NEW q \in u.rows, r.id = q.id PROVE r = q
    <3>1. PICK r0 \in t.rows : r0.id = r.id /\ r = IF r0 \in joined THEN settle(r0) ELSE r0
      BY <1>10, <1>12
    <3>2. PICK q0 \in t.rows : q0.id = q.id /\ q = IF q0 \in joined THEN settle(q0) ELSE q0
      BY <1>10, <1>12
    <3>3. r0 = q0
      BY <3>1, <3>2, <2>7, <1>14 DEF Once
    <3> QED BY <3>1, <3>2, <3>3
  <2> QED BY <2>5, <2>6, <2>7 DEF Once
<1>15. Typed(_Resolve(t)) /\ SameSources(t, _Resolve(t)) /\ _Resolve(t).floor = t.floor
  BY <1>2, <1>12, <1>13 DEF u
<1>16. \A gone : Once(t, gone) => Once(_Resolve(t), gone)
  BY <1>2, <1>14 DEF u
<1> QED BY <1>15, <1>16

\* References of file f that are not lost, and what is known of f by them.
Keeps(refs, more, f) ==
  \A gen, id : [file |-> f, gen |-> gen, id |-> id] \in refs
                 => [file |-> f, gen |-> gen, id |-> id] \in more

\* More references take nothing from what is known of a file.
LEMMA SourcesKeep ==
  ASSUME NEW c, NEW old, NEW row, NEW refs, NEW more, NEW reset, NEW f, NEW w, Keeps(refs, more, f)
  PROVE  /\ Resumes(c, old, row, refs, f) => Resumes(c, old, row, more, f)
         /\ SourcedAt(c, old, row, refs, reset, f, w) => SourcedAt(c, old, row, more, reset, f, w)
         /\ \A head, offset : Passed(c, row, refs, f, head, offset) => Passed(c, row, more, f, head, offset)
<1>1. \A size : Covered(c, row, refs, f, size) => Covered(c, row, more, f, size)
  BY DEF Covered, Keeps
<1>2. \A head, offset : Passed(c, row, refs, f, head, offset) => Passed(c, row, more, f, head, offset)
  BY <1>1 DEF Passed
<1>3. Resumes(c, old, row, refs, f) => Resumes(c, old, row, more, f)
  BY <1>2 DEF Resumes
<1>4. SourcedAt(c, old, row, refs, reset, f, w) => SourcedAt(c, old, row, more, reset, f, w)
  BY <1>1 DEF SourcedAt, Whole
<1> QED BY <1>2, <1>3, <1>4

\* What was read stays so in a row of the same generation and the same oldest event.
LEMMA PassedSame ==
  ASSUME NEW c, NEW row, NEW new, NEW refs, NEW f, NEW head, NEW offset,
         new.gen = row.gen, new.oldest = row.oldest, Passed(c, row, refs, f, head, offset)
  PROVE  Passed(c, new, refs, f, head, offset)
BY DEF Passed, Covered

\* Nothing was read yet.
LEMMA PassedNothing ==
  ASSUME NEW c, c.lines \in Seq(Events \cup {Bad}), NEW row, NEW refs, NEW f, NEW head
  PROVE  Passed(c, row, refs, f, head, 0)
<1>1. Len(c.lines) \in Nat /\ DOMAIN c.lines = 1 .. Len(c.lines)
  OBVIOUS
<1>2. 0 <= 2 * Len(c.lines) /\ 0 = 2 * 0
  BY ONLY <1>1
<1>3. \A i \in DOMAIN c.lines : ~(2 * i <= 0)
  BY ONLY <1>1
<1> QED BY <1>2, <1>3 DEF Passed, Covered

----------------------------------------------------------------------------
(* The source window over a stable inventory.                               *)

\* The row of each listed file is right about what the file holds.
Listing(t) == \A f \in Files : Whole(disk[f], t.inv[f], t.refs, f)

\* Every event that the listed files hold has a reference, and the oldest stored
\* event of the inventory is not later.
LEMMA StableHolds ==
  ASSUME Disks, NEW t, Typed(t), Listing(t), Stable(t), NEW f \in Files, t.inv[f] # Nil,
         NEW e \in Events, e \in ToSet(disk[f].lines)
  PROVE  References(t, e.id) /\ Oldest(t) # {} /\ Min(Oldest(t)) <= e.at
<1> DEFINE c == disk[f]
           row == t.inv[f]
<1>1. row.complete = 1 /\ row.ver = c.ver /\ row.size = SizeIn(c)
  BY SizeIs DEF Stable, Verified, Changed
<1>2. Covered(c, row, t.refs, f, SizeIn(c))
  BY <1>1 DEF Listing, Whole
<1>3. c.lines \in Seq(Events \cup {Bad})
  BY DEF Disks, Content
<1>4. PICK i \in DOMAIN c.lines : c.lines[i] = e
  BY DEF ToSet
<1>5. 2 * i <= SizeIn(c)
  <2>1. i \in 1 .. Len(c.lines) /\ Len(c.lines) \in Nat
    BY <1>3, <1>4
  <2> DEFINE n == Len(c.lines)
  <2>2. SizeIn(c) = 2 * n \/ SizeIn(c) = 2 * n + 1
    <3>1. 2 * n + 0 = 2 * n
      BY ONLY <2>1
    <3> HIDE DEF n
    <3> QED BY <3>1 DEF SizeIn, n
  <2> HIDE DEF n
  <2>3. n \in Nat /\ i \in 1 .. n
    BY <2>1 DEF n
  <2> QED BY ONLY <2>2, <2>3
<1>6. /\ [file |-> f, gen |-> row.gen, id |-> e.id] \in t.refs
      /\ row.oldest # Nil /\ row.oldest <= e.at
  BY <1>2, <1>4, <1>5 DEF Covered
<1>7. References(t, e.id)
  BY <1>6 DEF References
<1>8. row.oldest \in Oldest(t) /\ Oldest(t) \in SUBSET Nat
  BY <1>6, OldestFacts
<1>9. Min(Oldest(t)) \in Nat /\ Min(Oldest(t)) <= row.oldest /\ row.oldest \in Nat /\ e.at \in Nat
  BY <1>8, MinIs
<1>10. Min(Oldest(t)) <= e.at
  BY ONLY <1>6, <1>9
<1> QED BY <1>7, <1>8, <1>10

\* No listed file holds an event before a floor that rose.
LEMMA WindowFloor ==
  ASSUME Disks, NEW t, Typed(t), Listing(t), NEW expired,
         _SourceWindow(t, expired).floor > t.floor,
         NEW f \in Files, t.inv[f] # Nil, NEW e \in Events, e \in ToSet(disk[f].lines)
  PROVE  e.at >= _SourceWindow(t, expired).floor
<1> DEFINE u == _SourceWindow(t, expired)
<1>1. Typed(u) /\ Stable(t) /\ Oldest(t) # {} /\ u.floor = Min(Oldest(t))
  BY WindowEffect
<1>2. Min(Oldest(t)) <= e.at
  BY <1>1, StableHolds
<1>3. u.floor \in Nat /\ e.at \in Nat
  BY <1>1 DEF Typed
<1> HIDE DEF u
<1>4. e.at >= u.floor
  BY <1>1, <1>2, <1>3
<1> QED BY <1>4 DEF u

\* No row and no listed file has the event.
Unheld(u, t, id) ==
  /\ \A r \in u.rows : r.id # id
  /\ \A f \in Files, e \in Events : t.inv[f] # Nil /\ e.id = id => e \notin ToSet(disk[f].lines)

\* A signature that the window drops is of an event that nothing holds any more.
LEMMA WindowOnce ==
  ASSUME Disks, NEW t, Typed(t), Listing(t), NEW expired, NEW gone, Once(t, gone), NEW more,
         gone \subseteq more,
         \A id \in Ids : /\ t.counted[id] > 0 /\ ~References(t, id)
                         /\ Unheld(_SourceWindow(t, expired), t, id)
                         => id \in more
  PROVE  Once(_SourceWindow(t, expired), more)
<1> DEFINE u == _SourceWindow(t, expired)
<1>1. /\ u.rows \subseteq t.rows /\ u.counted = t.counted
      /\ \/ u.dedup = t.dedup
         \/ Stable(t) /\ u.dedup = {s \in t.dedup : (\E r \in u.rows : r.id = s.event.id)
                                                    \/ References(t, s.event.id)}
  BY WindowEffect
<1>2. \A id \in Ids : t.counted[id] > 0 /\ ~References(t, id) /\ Unheld(u, t, id) => id \in more
  OBVIOUS
<1> HIDE DEF u
<1>3. ASSUME Stable(t), NEW id, ~References(t, id), \A r \in u.rows : r.id # id
      PROVE  Unheld(u, t, id)
  BY <1>3, StableHolds DEF Unheld
<1>4. Once(u, more)
  <2>1. CASE u.dedup = t.dedup
    BY <2>1, <1>1, FewerRowsOnce, OnceGrows
  <2>2. CASE Stable(t) /\ u.dedup = {s \in t.dedup : (\E r \in u.rows : r.id = s.event.id)
                                                     \/ References(t, s.event.id)}
    <3>1. ASSUME NEW id, Signs(t, id), (\E r \in u.rows : r.id = id) \/ References(t, id)
          PROVE  Signs(u, id)
      BY <2>2, <3>1 DEF Signs
    <3>2. ASSUME NEW id \in Ids \ more PROVE u.counted[id] <= 1 /\ (u.counted[id] > 0 => Signs(u, id))
      <4>1. t.counted[id] <= 1 /\ (t.counted[id] > 0 => Signs(t, id))
        BY <3>2 DEF Once
      <4>2. t.counted[id] > 0 => (\E r \in u.rows : r.id = id) \/ References(t, id)
        BY <3>2, <2>2, <1>2, <1>3
      <4> QED BY <4>1, <4>2, <3>1, <1>1
    <3>3. \A r \in u.rows : Signs(u, r.id) /\ (r.pending /\ r.id \notin more => u.counted[r.id] = 0)
      BY <3>1, <1>1 DEF Once
    <3>4. \A r, q \in u.rows : r.id = q.id => r = q
      BY <1>1 DEF Once
    <3> QED BY <3>2, <3>3, <3>4 DEF Once
  <2> QED BY <2>1, <2>2, <1>1
<1> QED BY <1>4 DEF u

\* A window that reopens a file leaves true what is known of the files.
LEMMA WindowSources ==
  ASSUME NEW t, Typed(t), NEW reading, Sourced(t, reading), NEW expired
  PROVE  LET u == _SourceWindow(t, expired)
         IN  /\ Sourced(u, reading)
             /\ \A f \in Files : /\ u.inv[f] # Nil <=> t.inv[f] # Nil
                                 /\ t.inv[f] # Nil =>
                                      /\ u.inv[f].gen = t.inv[f].gen /\ u.inv[f].oldest = t.inv[f].oldest
                                      /\ u.inv[f].complete = -1 <=> t.inv[f].complete = -1
<1> DEFINE u == _SourceWindow(t, expired)
<1>1. /\ u.files = t.files /\ u.refs = t.refs /\ u.reset = t.reset
      /\ \/ u.inv = t.inv
         \/ \E f \in Files : /\ t.inv[f] # Nil /\ t.inv[f].complete = 1
                             /\ u.inv = [t.inv EXCEPT ![f] = [@ EXCEPT !.complete = 0]]
  BY WindowEffect
<1> HIDE DEF u
<1>2. CASE u.inv = t.inv
  <2>1. Sourced(u, reading)
    BY <1>1, <1>2 DEF Sourced
  <2> QED BY <2>1, <1>2 DEF u
<1>3. CASE \E f \in Files : /\ t.inv[f] # Nil /\ t.inv[f].complete = 1
                            /\ u.inv = [t.inv EXCEPT ![f] = [@ EXCEPT !.complete = 0]]
  <2>1. PICK f \in Files : /\ t.inv[f] # Nil /\ t.inv[f].complete = 1
                           /\ u.inv = [t.inv EXCEPT ![f] = [@ EXCEPT !.complete = 0]]
    BY <1>3
  <2> DEFINE row == t.inv[f]
             new == [row EXCEPT !.complete = 0]
  <2>2. row \in InventoryRow
    BY <2>1 DEF Typed
  <2>3. new \in InventoryRow /\ new.gen = row.gen /\ new.oldest = row.oldest /\ new.ver = row.ver
        /\ new.complete = 0
    BY <2>2 DEF InventoryRow
  <2>4. u.inv[f] = new /\ \A g \in Files : g # f => u.inv[g] = t.inv[g]
    BY <2>1 DEF Typed
  <2> HIDE DEF new
  <2>5. new # Nil
    BY <2>3, NilAssumption
  <2>6. ASSUME NEW g \in Files
        PROVE  /\ g \notin reading => Resumes(disk[g], u.files[g], u.inv[g], u.refs, g)
               /\ SourcedAt(disk[g], u.files[g], u.inv[g], u.refs, u.reset, g, writes)
    <3>1. /\ g \notin reading => Resumes(disk[g], t.files[g], t.inv[g], t.refs, g)
          /\ SourcedAt(disk[g], t.files[g], t.inv[g], t.refs, t.reset, g, writes)
      BY DEF Sourced
    <3>2. CASE g # f
      BY <3>1, <3>2, <2>4, <1>1
    <3>3. CASE g = f
      <4>1. g \notin reading => Resumes(disk[g], t.files[g], new, t.refs, g)
        BY <3>1, <3>3, <2>1, <2>3, PassedSame DEF Resumes
      <4>2. SourcedAt(disk[g], t.files[g], new, t.refs, t.reset, g, writes)
        BY <3>1, <3>3, <2>1, <2>3 DEF SourcedAt, Whole
      <4> QED BY <4>1, <4>2, <3>3, <2>4, <1>1
    <3> QED BY <3>2, <3>3
  <2>7. Sourced(u, reading)
    BY <2>6 DEF Sourced
  <2>8. \A g \in Files : /\ u.inv[g] # Nil <=> t.inv[g] # Nil
                         /\ t.inv[g] # Nil =>
                              /\ u.inv[g].gen = t.inv[g].gen /\ u.inv[g].oldest = t.inv[g].oldest
                              /\ u.inv[g].complete = -1 <=> t.inv[g].complete = -1
    BY <2>1, <2>3, <2>4, <2>5
  <2> QED BY <2>7, <2>8 DEF u
<1> QED BY <1>1, <1>2, <1>3

----------------------------------------------------------------------------
(* The steps of a scan.                                                     *)

\* What holds of the scan and of the tables as it sees them.
Running ==
  /\ scan \in Scan \cup {Nil} /\ file \in OpenFile \cup {Nil}
  /\ Typed(tx) /\ Sourced(tx, BeingRead) /\ Inventoried /\ Followed

\* The tables tell the truth of all files when they do so of the one that changed.
LEMMA SourcedBut ==
  ASSUME NEW t, NEW u, NEW reading, NEW more, Sourced(t, reading), NEW f \in Files,
         u.reset => t.reset,
         \A g \in Files \ {f} : /\ u.files[g] = t.files[g] /\ u.inv[g] = t.inv[g]
                                /\ Keeps(t.refs, u.refs, g) /\ (g \in reading => g \in more),
         f \notin more => Resumes(disk[f], u.files[f], u.inv[f], u.refs, f),
         SourcedAt(disk[f], u.files[f], u.inv[f], u.refs, u.reset, f, writes)
  PROVE  Sourced(u, more)
<1>1. ASSUME NEW g \in Files, g # f
      PROVE  /\ g \notin more => Resumes(disk[g], u.files[g], u.inv[g], u.refs, g)
             /\ SourcedAt(disk[g], u.files[g], u.inv[g], u.refs, u.reset, g, writes)
  <2>1. /\ u.files[g] = t.files[g] /\ u.inv[g] = t.inv[g]
        /\ Keeps(t.refs, u.refs, g) /\ (g \in reading => g \in more)
    BY <1>1
  <2>2. /\ g \notin more => Resumes(disk[g], t.files[g], t.inv[g], t.refs, g)
        /\ SourcedAt(disk[g], t.files[g], t.inv[g], t.refs, t.reset, g, writes)
    BY <2>1 DEF Sourced
  <2>3. /\ g \notin more => Resumes(disk[g], t.files[g], t.inv[g], u.refs, g)
        /\ SourcedAt(disk[g], t.files[g], t.inv[g], u.refs, t.reset, g, writes)
    BY <2>1, <2>2, SourcesKeep
  <2> QED BY <2>1, <2>3 DEF SourcedAt
<1> QED BY <1>1 DEF Sourced

\* Losses, rows, signatures and totals do not matter to that.
LEMMA SourcedSame ==
  ASSUME NEW t, NEW u, NEW reading, Sourced(t, reading), SameSources(t, u) PROVE Sourced(u, reading)
BY DEF Sourced, SameSources

\* What is true of the tables after a step that leaves the files alone.
LEMMA SourcedNext ==
  ASSUME UNCHANGED <<disk, writes>>, Sourced(tx', BeingRead') PROVE Sourced(tx, BeingRead)'
BY DEF Sourced, BeingRead

\* The numbers that order a scan.
LEMMA OrderIs == ASSUME Disks, NEW next PROVE Order(next) \in [Files -> Nat]
<1>1. \A f \in Files : disk[f].ver \in Nat
  BY DEF Disks, Content
<1>2. writes \in Nat
  BY DEF Disks
<1>3. ASSUME NEW f \in Files
      PROVE  (IF f = next THEN 0 ELSE IF next \in Present /\ disk[f].ver < disk[next].ver
              THEN disk[f].ver + writes + 2 ELSE disk[f].ver + 1) \in Nat
  BY <1>1, <1>2
<1> QED BY <1>3 DEF Order

\* A scan starts with an inventory of the files that are there, and knows of each
\* what it knew.
LEMMA BeginRuns ==
  ASSUME Disks, Running, Settled(tx), NEW expired \in SUBSET Ids, Begin(expired)
  PROVE  /\ Running' /\ tx'.floor = tx.floor
         /\ tx'.rows \subseteq tx.rows /\ tx'.dedup = tx.dedup /\ tx'.counted = tx.counted
<1> DEFINE inv == Inventory(tx)
           refs == {r \in tx.refs : disk[r.file].here}
           kept == [tx EXCEPT !.inv = inv, !.refs = refs]
<1>1. /\ tx' = _Prune(kept, expired) /\ UNCHANGED <<disk, db, writes>> /\ file = Nil /\ file' = Nil
      /\ scan' = [todo |-> Present, order |-> Order(tx.next), seen |-> Present, rows |-> 0,
                  spent |-> FALSE, next |-> Nil, expired |-> expired]
  BY DEF Begin, Idle, Running, Followed
<1>2. FreshRow \in InventoryRow /\ \A row \in InventoryRow : row # Nil /\ [row EXCEPT !.complete = 0] \in InventoryRow
  BY NilAssumption DEF FreshRow, InventoryRow
<1>3. tx.inv \in [Files -> InventoryRow \cup {Nil}]
  BY DEF Running, Typed
<1>4. ASSUME NEW f \in Files
      PROVE  /\ inv[f] \in InventoryRow \cup {Nil} /\ (inv[f] = Nil <=> ~disk[f].here)
             /\ disk[f].here /\ tx.inv[f] = Nil => inv[f] = FreshRow
             /\ disk[f].here /\ tx.inv[f] # Nil =>
                  \/ inv[f] = tx.inv[f]
                  \/ tx.inv[f].complete = 1 /\ inv[f] = [tx.inv[f] EXCEPT !.complete = 0]
  <2>1. inv[f] = IF ~disk[f].here THEN Nil
                 ELSE IF tx.inv[f] = Nil THEN FreshRow
                 ELSE IF Verified(tx) THEN [tx.inv[f] EXCEPT !.complete = 0] ELSE tx.inv[f]
    BY DEF Inventory
  <2>2. Verified(tx) /\ tx.inv[f] # Nil => tx.inv[f].complete = 1
    BY DEF Verified
  <2> HIDE DEF inv
  <2> QED BY <2>1, <2>2, <1>2, <1>3
<1>5. inv \in [Files -> InventoryRow \cup {Nil}]
  <2>1. DOMAIN inv = Files /\ inv = [f \in Files |-> inv[f]]
    BY DEF Inventory
  <2> HIDE DEF inv
  <2> QED BY <2>1, <1>4
<1> HIDE DEF inv
<1>6. refs \subseteq [file : Files, gen : Nat, id : Ids]
  BY DEF Running, Typed
<1>7. \A f \in Files : disk[f].here => Keeps(tx.refs, refs, f)
  BY DEF Keeps
<1> HIDE DEF refs
<1>8. /\ DOMAIN kept = Columns /\ kept.inv = inv /\ kept.refs = refs /\ kept.files = tx.files
      /\ kept.losses = tx.losses /\ kept.floor = tx.floor /\ kept.reset = tx.reset
      /\ kept.next = tx.next /\ SameBooks(tx, kept)
  BY DEF Running, Typed, Columns, SameBooks
<1> HIDE DEF kept
<1>9. Typed(kept)
  BY <1>5, <1>6, <1>8 DEF Running, Typed, SameBooks
<1>10. /\ Typed(tx') /\ SameSources(kept, tx') /\ tx'.floor = tx.floor
       /\ tx'.rows \subseteq tx.rows /\ tx'.dedup = tx.dedup /\ tx'.counted = tx.counted
  BY <1>1, <1>8, <1>9, PruneEffect DEF SameBooks
<1>11. ASSUME NEW f \in Files
       PROVE  /\ Resumes(disk[f], kept.files[f], kept.inv[f], kept.refs, f)
              /\ SourcedAt(disk[f], kept.files[f], kept.inv[f], kept.refs, kept.reset, f, writes)
  <2>1. /\ Resumes(disk[f], tx.files[f], tx.inv[f], tx.refs, f)
        /\ SourcedAt(disk[f], tx.files[f], tx.inv[f], tx.refs, tx.reset, f, writes)
    BY <1>1 DEF Running, Sourced, BeingRead
  <2>2. CASE ~disk[f].here
    BY <2>1, <2>2, <1>4, <1>8 DEF Resumes, SourcedAt, Whole
  <2>3. CASE disk[f].here /\ tx.inv[f] = Nil
    <3>1. tx.files[f] = Nil /\ inv[f] = FreshRow
      BY <2>3, <1>4 DEF Settled
    <3>2. 0 <= writes /\ FreshRow.ver = 0 /\ FreshRow.complete = 0
      BY DEF Disks, FreshRow
    <3> QED BY <3>1, <3>2, <1>8 DEF Resumes, SourcedAt, Whole
  <2>4. CASE disk[f].here /\ tx.inv[f] # Nil
    <3>1. /\ Resumes(disk[f], tx.files[f], tx.inv[f], refs, f)
          /\ SourcedAt(disk[f], tx.files[f], tx.inv[f], refs, tx.reset, f, writes)
      BY <2>1, <2>4, <1>7, SourcesKeep
    <3>2. CASE inv[f] = tx.inv[f]
      BY <3>1, <3>2, <1>8
    <3>3. CASE tx.inv[f].complete = 1 /\ inv[f] = [tx.inv[f] EXCEPT !.complete = 0]
      <4>1. tx.inv[f] \in InventoryRow
        BY <2>4, <1>3
      <4>2. /\ inv[f].complete = 0 /\ inv[f].gen = tx.inv[f].gen /\ inv[f].oldest = tx.inv[f].oldest
            /\ inv[f].ver = tx.inv[f].ver
        BY <4>1, <3>3 DEF InventoryRow
      <4>3. Resumes(disk[f], tx.files[f], inv[f], refs, f)
        <5>1. SUFFICES ASSUME tx.files[f] # Nil
                       PROVE  /\ Known(disk[f], tx.files[f].head) /\ ~tx.files[f].discard
                              /\ Passed(disk[f], inv[f], refs, f, tx.files[f].head, tx.files[f].offset)
          BY DEF Resumes
        <5>2. /\ Known(disk[f], tx.files[f].head) /\ ~tx.files[f].discard
              /\ Passed(disk[f], tx.inv[f], refs, f, tx.files[f].head, tx.files[f].offset)
          BY <5>1, <3>1, <3>3, <2>4 DEF Resumes
        <5> QED BY <5>2, <4>2, PassedSame
      <4>4. SourcedAt(disk[f], tx.files[f], inv[f], refs, tx.reset, f, writes)
        BY <4>2, <3>1, <3>3, <2>4 DEF SourcedAt, Whole
      <4> QED BY <4>3, <4>4, <1>8
    <3> QED BY <3>2, <3>3, <2>4, <1>4
  <2> QED BY <2>2, <2>3, <2>4
<1>12. Sourced(tx, BeingRead)'
  <2>1. Sourced(kept, BeingRead')
    BY <1>11 DEF Sourced
  <2> QED BY <2>1, <1>1, <1>10, SourcedSame, SourcedNext
<1>13. scan' \in Scan
  BY <1>1, OrderIs DEF Scan, Present
<1>14. scan' # Nil
  BY <1>13, NilAssumption
<1>15. Inventoried'
  <2>1. \A f \in Files : f \in Present <=> tx'.inv[f] # Nil
    BY <1>4, <1>8, <1>10 DEF SameSources, Present
  <2>2. Present = {f \in Files : tx'.inv[f] # Nil}
    BY <2>1 DEF Present
  <2> QED BY <2>2, <1>1 DEF Inventoried
<1> QED BY <1>1, <1>10, <1>12, <1>13, <1>15 DEF Running, Followed

\* A file that is left to the next scan counts as unread if it has grown.
LEMMA PostponeRuns ==
  ASSUME Disks, Running, NEW f \in Files, Postpone(f)
  PROVE  Running' /\ SameBooks(tx, tx') /\ tx'.floor = tx.floor
<1> DEFINE row == tx.inv[f]
           new == [row EXCEPT !.complete = IF @ = -1 THEN -1 ELSE 0]
           inv == [tx.inv EXCEPT ![f] = new]
<1>1. /\ scan # Nil /\ file = Nil /\ file' = Nil /\ f \in scan.todo /\ UNCHANGED <<disk, db, writes>>
      /\ scan' = [scan EXCEPT !.todo = @ \ {f}, !.next = IF @ = Nil THEN f ELSE @]
      /\ tx' = tx \/ tx' = [tx EXCEPT !.inv = inv]
  BY DEF Postpone, Nexts
<1>2. row \in InventoryRow /\ row # Nil
  BY <1>1 DEF Running, Inventoried, Typed
<1>3. /\ new \in InventoryRow /\ new.gen = row.gen /\ new.oldest = row.oldest /\ new.ver = row.ver
      /\ (new.complete = -1 <=> row.complete = -1) /\ new.complete # 1
  BY <1>2 DEF InventoryRow
<1>4. new # Nil
  BY <1>3, NilAssumption
<1> HIDE DEF new
<1>5. inv \in [Files -> InventoryRow \cup {Nil}] /\ inv[f] = new /\ \A g \in Files \ {f} : inv[g] = tx.inv[g]
  BY <1>3 DEF Running, Typed
<1> HIDE DEF inv
<1>6. /\ DOMAIN tx' = Columns /\ (tx'.inv = tx.inv \/ tx'.inv = inv) /\ tx'.refs = tx.refs
      /\ tx'.files = tx.files /\ tx'.losses = tx.losses /\ tx'.floor = tx.floor
      /\ tx'.reset = tx.reset /\ tx'.next = tx.next /\ SameBooks(tx, tx')
  BY <1>1 DEF Running, Typed, Columns, SameBooks
<1>7. Typed(tx')
  BY <1>5, <1>6 DEF Running, Typed, SameBooks
<1>8. Sourced(tx', BeingRead')
  <2>1. Sourced(tx, BeingRead) /\ BeingRead = {} /\ BeingRead' = {}
    BY <1>1 DEF Running, BeingRead
  <2>2. CASE tx'.inv = tx.inv
    BY <2>1, <2>2, <1>6, SourcedSame DEF SameSources
  <2>3. CASE tx'.inv = inv
    <3>1. /\ Resumes(disk[f], tx.files[f], row, tx.refs, f)
          /\ SourcedAt(disk[f], tx.files[f], row, tx.refs, tx.reset, f, writes)
      BY <2>1 DEF Sourced
    <3>2. Resumes(disk[f], tx.files[f], new, tx.refs, f)
      BY <3>1, <1>2, <1>3, <1>4, PassedSame DEF Resumes
    <3>3. SourcedAt(disk[f], tx.files[f], new, tx.refs, tx.reset, f, writes)
      BY <3>1, <1>2, <1>3, <1>4 DEF SourcedAt, Whole
    <3>4. \A g \in Files \ {f} : Keeps(tx.refs, tx'.refs, g)
      BY <1>6 DEF Keeps
    <3> HIDE DEF row
    <3>5. Resumes(disk[f], tx'.files[f], tx'.inv[f], tx'.refs, f)
      BY <3>2, <2>3, <1>5, <1>6
    <3>6. SourcedAt(disk[f], tx'.files[f], tx'.inv[f], tx'.refs, tx'.reset, f, writes)
      BY <3>3, <2>3, <1>5, <1>6
    <3>7. \A g \in Files \ {f} : tx'.files[g] = tx.files[g] /\ tx'.inv[g] = tx.inv[g]
      BY <2>3, <1>5, <1>6
    <3> QED BY <3>4, <3>5, <3>6, <3>7, <2>1, <1>6, SourcedBut
  <2> QED BY <2>2, <2>3, <1>6
<1>9. scan' \in Scan /\ scan'.seen = scan.seen /\ scan'.todo \subseteq scan.todo
  BY <1>1 DEF Running, Scan
<1>10. Inventoried'
  <2>1. \A g \in Files : tx'.inv[g] # Nil <=> tx.inv[g] # Nil
    BY <1>2, <1>4, <1>5, <1>6
  <2> QED BY <2>1, <1>1, <1>9 DEF Running, Inventoried
<1>11. Sourced(tx, BeingRead)'
  BY <1>1, <1>8, SourcedNext
<1> QED BY <1>1, <1>6, <1>7, <1>9, <1>10, <1>11 DEF Running, Followed

\* A file is read on from where the last scan stopped, or anew.
LEMMA PositionIs ==
  ASSUME Disks, Running, NEW f \in Files, tx.inv[f] # Nil, file = Nil, NEW head,
         ~tx.reset => head = HeadIn(disk[f])
  PROVE  LET start == Position(f, head)
             old == tx.files[f]
             known1 == IF head # Nil THEN head ELSE IF old = Nil THEN Nil ELSE old.head
         IN  /\ start.offset \in Nat /\ start.discard \in BOOLEAN /\ start.rewritten \in BOOLEAN
             /\ tx.reset => ~start.rewritten /\ start.offset = SizeIn(disk[f])
             /\ ~tx.reset /\ ~start.rewritten /\ tx.inv[f].complete # -1 =>
                  ~start.discard /\ Passed(disk[f], tx.inv[f], tx.refs, f, known1, start.offset)
             /\ ~tx.reset /\ start.rewritten => start.offset = 0 /\ ~start.discard
<1> DEFINE old == tx.files[f]
           row == tx.inv[f]
           c == disk[f]
           anew == old = Nil \/ (row.complete = 0 /\ row.oldest = Nil)
           at == IF anew THEN [offset |-> 0, discard |-> FALSE]
                 ELSE [offset |-> old.offset, discard |-> old.discard]
           rewritten == /\ old # Nil
                        /\ \/ Size(f) < at.offset
                           \/ old.head # Nil /\ head # Nil /\ head # old.head
           known1 == IF head # Nil THEN head ELSE IF old = Nil THEN Nil ELSE old.head
           start == Position(f, head)
<1>1. start = IF tx.reset THEN [offset |-> Size(f), discard |-> c.tail, rewritten |-> FALSE]
              ELSE IF rewritten THEN [offset |-> 0, discard |-> FALSE, rewritten |-> TRUE]
              ELSE [offset |-> at.offset, discard |-> at.discard, rewritten |-> FALSE]
  BY DEF Position
<1>2. c.lines \in Seq(Events \cup {Bad}) /\ c.tail \in BOOLEAN /\ Size(f) = SizeIn(c)
  BY SizeIs DEF Disks, Content
<1>3. Size(f) \in Nat
  BY <1>2, SizeType
<1>4. old # Nil => old.offset \in Nat /\ old.discard \in BOOLEAN
  BY DEF Running, Typed, FileRow
<1>5. Resumes(c, old, row, tx.refs, f)
  BY DEF Running, Sourced, BeingRead
<1> HIDE DEF c, row, old, start
<1>6. at.offset \in Nat /\ at.discard \in BOOLEAN
  BY <1>4
<1>7. ASSUME ~tx.reset, ~rewritten, row.complete # -1
      PROVE  ~at.discard /\ Passed(c, row, tx.refs, f, known1, at.offset)
  <2>1. CASE anew
    <3>1. at.offset = 0 /\ ~at.discard
      BY <2>1
    <3> QED BY <3>1, <1>2, PassedNothing
  <2>2. CASE ~anew
    <3>1. at.offset = old.offset /\ at.discard = old.discard /\ old # Nil
      BY <2>2
    <3>2. ~old.discard /\ Passed(c, row, tx.refs, f, old.head, old.offset)
      BY <3>1, <1>5, <1>7 DEF Resumes, row
    <3>3. CASE old.head = Nil
      <4>1. old.offset = 0
        BY <3>2, <3>3 DEF Passed
      <4> QED BY <4>1, <3>1, <3>2, <1>2, PassedNothing
    <3>4. CASE old.head # Nil
      <4>1. known1 = old.head
        BY <3>1, <3>4, <1>7
      <4> QED BY <4>1, <3>1, <3>2
    <3> QED BY <3>3, <3>4
  <2> QED BY <2>1, <2>2
<1>8. /\ start.offset \in Nat /\ start.discard \in BOOLEAN /\ start.rewritten \in BOOLEAN
      /\ tx.reset => ~start.rewritten /\ start.offset = SizeIn(c)
      /\ ~tx.reset /\ start.rewritten => start.offset = 0 /\ ~start.discard
  <2> HIDE DEF at
  <2> QED BY <1>1, <1>2, <1>3, <1>6
<1>9. ASSUME ~tx.reset, ~start.rewritten, row.complete # -1
      PROVE  ~start.discard /\ Passed(c, row, tx.refs, f, known1, start.offset)
  <2> HIDE DEF at, known1
  <2>1. ~rewritten /\ start.offset = at.offset /\ start.discard = at.discard
    BY <1>1, <1>9
  <2> QED BY <2>1, <1>7, <1>9
<1> QED BY <1>8, <1>9 DEF start, c, row, old

\* Opening a file: what is known of it from then on is what was read of it before,
\* or nothing when it was written anew.
LEMMA OpenRuns ==
  ASSUME LinesFit, Disks, Running, NEW f \in Files, NEW short \in BOOLEAN, NEW late \in BOOLEAN,
         Open(f, short, late)
  PROVE  Running' /\ SameBooks(tx, tx') /\ tx'.floor = tx.floor
<1> DEFINE old == tx.files[f]
           c == disk[f]
           base == tx.inv[f]
           head == IF tx.reset THEN Nil ELSE HeadOf(f)
           known1 == IF head # Nil THEN head ELSE IF old = Nil THEN Nil ELSE old.head
           start == Position(f, head)
           grown == old = Nil \/ old.size # Size(f)
           row == IF start.rewritten
                  THEN [base EXCEPT !.gen = @ + 1, !.oldest = Nil, !.complete = 0]
                  ELSE base
           new == IF grown THEN [row EXCEPT !.complete = IF @ = -1 THEN -1 ELSE 0] ELSE row
           inv == [tx.inv EXCEPT ![f] = new]
           t == [tx EXCEPT !.inv = inv]
<1>1. ~short
  BY DEF Open
<1>2. /\ scan # Nil /\ file = Nil /\ f \in scan.todo /\ UNCHANGED <<disk, db, writes>>
      /\ scan' = [scan EXCEPT !.todo = @ \ {f}, !.spent = @ \/ short \/ late]
      /\ file' = [id |-> f, size |-> Size(f), ver |-> c.ver, head |-> known1,
                  offset |-> start.offset, discard |-> start.discard, from |-> start.offset,
                  oldest |-> row.oldest, complete |-> row.complete, gen |-> row.gen,
                  limited |-> short]
      /\ tx' = t \/ tx' = _Loss(t)
  BY <1>1 DEF Open, Nexts
<1>3. base \in InventoryRow /\ base # Nil
  BY <1>2 DEF Running, Inventoried, Typed
<1>4. Sound(c) /\ c \in Content /\ c.ver <= writes /\ writes \in Nat
  BY DEF Disks
<1>5. /\ head \in Events \cup {Nil} /\ (~tx.reset => head = HeadIn(c))
      /\ c.lines # <<>> /\ ~tx.reset => head # Nil
  <2>1. HeadOf(f) = HeadIn(c)
    BY <1>4, HeadIs
  <2>2. HeadIn(c) \in Events \cup {Nil} /\ (c.lines # <<>> => HeadIn(c) # Nil)
    BY <1>4, NilAssumption DEF HeadIn, Sound
  <2> QED BY <2>1, <2>2
<1> HIDE DEF head
<1>6. /\ start.offset \in Nat /\ start.discard \in BOOLEAN /\ start.rewritten \in BOOLEAN
      /\ tx.reset => ~start.rewritten /\ start.offset = SizeIn(c)
      /\ ~tx.reset /\ ~start.rewritten /\ base.complete # -1 =>
           ~start.discard /\ Passed(c, base, tx.refs, f, known1, start.offset)
      /\ ~tx.reset /\ start.rewritten => start.offset = 0 /\ ~start.discard
  BY <1>2, <1>3, <1>5, PositionIs
<1>7. Size(f) = SizeIn(c) /\ Size(f) \in Nat
  BY <1>4, SizeIs, SizeType DEF Content
<1> HIDE DEF start, grown
<1>8. old # Nil => old \in FileRow
  BY DEF Running, Typed
<1>9. /\ Resumes(c, old, base, tx.refs, f)
      /\ SourcedAt(c, old, base, tx.refs, tx.reset, f, writes)
  BY <1>2 DEF Running, Sourced, BeingRead
<1>10. known1 \in Events \cup {Nil} /\ Known(c, known1)
  <2>1. old # Nil => old.head \in Events \cup {Nil} /\ Known(c, old.head)
    BY <1>8, <1>9 DEF FileRow, Resumes
  <2>2. head # Nil => head = HeadIn(c)
    BY <1>5 DEF head
  <2> QED BY <2>1, <2>2, <1>5 DEF Known
<1> HIDE DEF known1
<1>11. /\ row \in InventoryRow /\ row.ver = base.ver
       /\ start.rewritten => row.complete = 0
       /\ ~start.rewritten => row = base
  <2>1. ASSUME NEW b \in InventoryRow, NEW r, r = [b EXCEPT !.gen = @ + 1, !.oldest = Nil, !.complete = 0]
        PROVE  r \in InventoryRow /\ r.ver = b.ver /\ r.complete = 0
    <3> DEFINE gen == b.gen + 1
    <3>1. gen \in Nat
      BY DEF InventoryRow
    <3>2. r = [b EXCEPT !.gen = gen, !.oldest = Nil, !.complete = 0]
      BY <2>1
    <3> HIDE DEF gen
    <3> QED BY <3>1, <3>2 DEF InventoryRow
  <2> HIDE DEF base
  <2> QED BY <2>1, <1>3, <1>6
<1> HIDE DEF row
<1>12. /\ new \in InventoryRow /\ new.gen = row.gen /\ new.oldest = row.oldest /\ new.ver = row.ver
       /\ (new.complete = -1 <=> row.complete = -1) /\ (new = row \/ new.complete # 1)
  BY <1>11 DEF InventoryRow
<1> HIDE DEF new
<1>13. new # Nil
  BY <1>12, NilAssumption
<1>14. inv \in [Files -> InventoryRow \cup {Nil}] /\ inv[f] = new /\ \A g \in Files \ {f} : inv[g] = tx.inv[g]
  BY <1>12 DEF Running, Typed
<1> HIDE DEF inv
<1>15. /\ DOMAIN t = Columns /\ t.inv = inv /\ t.refs = tx.refs /\ t.files = tx.files
       /\ t.losses = tx.losses /\ t.floor = tx.floor /\ t.reset = tx.reset /\ t.next = tx.next
       /\ SameBooks(tx, t)
  BY DEF Running, Typed, Columns, SameBooks
<1> HIDE DEF t
<1>16. Typed(t)
  BY <1>14, <1>15 DEF Running, Typed, SameBooks
<1>17. /\ Typed(tx') /\ tx'.inv = inv /\ tx'.refs = tx.refs /\ tx'.files = tx.files
       /\ tx'.reset = tx.reset /\ tx'.floor = tx.floor /\ SameBooks(tx, tx')
  <2>1. CASE tx' = t
    BY <2>1, <1>15, <1>16
  <2>2. CASE tx' = _Loss(t)
    BY <2>2, <1>15, <1>16, LossesEffect DEF _Loss, SameSources, SameBooks
  <2> QED BY <2>1, <2>2, <1>2
<1>18. /\ file' \in OpenFile /\ file'.id = f /\ file'.size = SizeIn(c) /\ file'.ver = c.ver
       /\ file'.head = known1 /\ file'.offset = start.offset /\ file'.discard = start.discard
       /\ file'.oldest = row.oldest /\ file'.complete = row.complete /\ file'.gen = row.gen
  BY <1>2, <1>4, <1>6, <1>7, <1>10, <1>11 DEF OpenFile, InventoryRow, Content
<1>19. file' # Nil
  BY <1>18, NilAssumption
<1>20. Sourced(tx', BeingRead')
  <2>1. BeingRead = {} /\ BeingRead' = {f} /\ Sourced(tx, BeingRead)
    BY <1>2, <1>18, <1>19 DEF BeingRead, Running
  <2>2. \A g \in Files \ {f} : /\ tx'.files[g] = tx.files[g] /\ tx'.inv[g] = tx.inv[g]
                               /\ Keeps(tx.refs, tx'.refs, g)
    BY <1>14, <1>17 DEF Keeps
  <2>3. SourcedAt(c, old, new, tx.refs, tx.reset, f, writes)
    <3>1. new.ver <= writes
      BY <1>3, <1>9, <1>11, <1>12 DEF SourcedAt
    <3>2. Whole(c, new, tx.refs, f)
      <4>1. new.complete = 1 => new = base
        BY <1>11, <1>12
      <4> QED BY <4>1, <1>9 DEF SourcedAt, Whole
    <3>3. tx.reset /\ old # Nil => new.complete = -1
      <4>1. tx.reset /\ old # Nil => base.complete = -1 /\ row = base
        BY <1>3, <1>6, <1>9, <1>11 DEF SourcedAt
      <4> QED BY <4>1, <1>12
    <3> QED BY <3>1, <3>2, <3>3 DEF SourcedAt
  <2>4. SourcedAt(disk[f], tx'.files[f], tx'.inv[f], tx'.refs, tx'.reset, f, writes)
    BY <2>3, <1>14, <1>17
  <2> QED BY <2>1, <2>2, <2>4, <1>17, SourcedBut
<1>21. Following(file', c, new, tx.refs, tx.reset, writes)
  <2>1. ~tx.reset /\ row.complete # -1 =>
          /\ ~start.discard /\ Passed(c, new, tx.refs, f, known1, start.offset)
          /\ known1 = Nil => c.lines = <<>>
    <3>1. SUFFICES ASSUME ~tx.reset, row.complete # -1
                   PROVE  /\ ~start.discard /\ Passed(c, new, tx.refs, f, known1, start.offset)
                          /\ known1 = Nil => c.lines = <<>>
      OBVIOUS
    <3>2. known1 = Nil => c.lines = <<>>
      BY <3>1, <1>5 DEF known1
    <3>3. CASE start.rewritten
      <4>1. start.offset = 0 /\ ~start.discard /\ c.lines \in Seq(Events \cup {Bad})
        BY <3>1, <3>3, <1>4, <1>6 DEF Content
      <4> QED BY <4>1, <3>2, PassedNothing
    <3>4. CASE ~start.rewritten
      <4>1. ~start.discard /\ Passed(c, base, tx.refs, f, known1, start.offset) /\ row = base
        BY <3>1, <3>4, <1>6, <1>11
      <4>2. Passed(c, new, tx.refs, f, known1, start.offset)
        BY <4>1, <1>12, PassedSame
      <4> QED BY <3>2, <4>1, <4>2
    <3> QED BY <3>3, <3>4
  <2>2. ~tx.reset => HeadIn(c) \in {Nil, known1}
    BY <1>5 DEF known1
  <2>3. tx.reset => start.offset >= SizeIn(c)
    BY <1>6, <1>7
  <2> HIDE DEF c
  <2> QED BY <2>1, <2>2, <2>3, <1>4, <1>10, <1>12, <1>13, <1>18 DEF Following
<1>22. scan' \in Scan /\ scan'.seen = scan.seen /\ scan'.todo \subseteq scan.todo /\ scan' # Nil
  <2>1. scan' \in Scan /\ scan'.seen = scan.seen /\ scan'.todo \subseteq scan.todo
    BY <1>2 DEF Running, Scan
  <2> QED BY <2>1, NilAssumption
<1>23. Inventoried'
  <2>1. \A g \in Files : tx'.inv[g] # Nil <=> tx.inv[g] # Nil
    BY <1>3, <1>13, <1>14, <1>17
  <2> QED BY <2>1, <1>2, <1>22 DEF Running, Inventoried
<1>24. Followed'
  <2>1. f \in scan.seen
    BY <1>2 DEF Running, Inventoried
  <2>2. Following(file', disk'[file'.id], tx'.inv[file'.id], tx'.refs, tx'.reset, writes')
    BY <1>2, <1>14, <1>17, <1>18, <1>21
  <2> QED BY <2>1, <2>2, <1>18, <1>22 DEF Followed
<1>25. Sourced(tx, BeingRead)'
  BY <1>2, <1>20, SourcedNext
<1> QED BY <1>17, <1>18, <1>22, <1>23, <1>24, <1>25 DEF Running

\* A floor rises to no more than what the listed files hold.
FloorKept(t, u) ==
  /\ u.floor >= t.floor
  /\ u.floor > t.floor =>
       \A f \in Files, e \in Events :
         t.inv[f] # Nil /\ e \in ToSet(disk[f].lines) => e.at >= u.floor

\* What is in the totals once stays so, but for events that nothing holds now.
OnceKept(t, u) ==
  \A gone, more :
    Once(t, gone) /\ gone \subseteq more /\ (\A id \in Ids : u.counted[id] > 0 /\ Unheld(u, t, id) => id \in more)
      => Once(u, more)

\* Where neither rows nor floor change.
LEMMA BooksKept ==
  ASSUME NEW t, NEW u, Typed(t), u.rows \subseteq t.rows, u.dedup = t.dedup, u.counted = t.counted,
         u.floor = t.floor
  PROVE  FloorKept(t, u) /\ OnceKept(t, u)
<1>1. FloorKept(t, u)
  BY DEF FloorKept, Typed
<1>2. OnceKept(t, u)
  BY FewerRowsOnce, OnceGrows DEF OnceKept
<1> QED BY <1>1, <1>2

\* The rest of a line that a reset started in is no record.
LEMMA DiscardRuns ==
  ASSUME Disks, Running, NEW late \in BOOLEAN, Discard(late)
  PROVE  Running' /\ tx' = tx
<1>1. /\ file # Nil /\ file.discard /\ scan # Nil /\ UNCHANGED <<disk, db, tx, writes>>
      /\ file' = [file EXCEPT !.offset = @ + 1, !.discard = FALSE]
      /\ scan' = [scan EXCEPT !.spent = late]
  BY DEF Discard, AtLine, Reading
<1>2. file \in OpenFile
  BY <1>1 DEF Running
<1> DEFINE offset == file.offset + 1
<1>3. offset \in Nat /\ file.offset \in Nat /\ file.size \in Nat
  BY <1>2 DEF OpenFile
<1>4. file' = [file EXCEPT !.offset = offset, !.discard = FALSE]
  BY <1>1
<1>5. file.offset >= file.size => offset >= file.size
  BY <1>3
<1> HIDE DEF offset
<1>6. /\ file' \in OpenFile /\ file'.id = file.id /\ file'.size = file.size /\ file'.ver = file.ver
      /\ file'.head = file.head /\ file'.offset = offset /\ file'.oldest = file.oldest
      /\ file'.complete = file.complete /\ file'.gen = file.gen
  BY <1>2, <1>3, <1>4 DEF OpenFile
<1>7. file' # Nil
  BY <1>6, NilAssumption
<1>8. scan' \in Scan /\ scan'.seen = scan.seen /\ scan'.todo = scan.todo
  BY <1>1 DEF Running, Scan
<1>9. scan' # Nil
  BY <1>8, NilAssumption
<1>10. file.id \in scan.seen /\ Following(file, disk[file.id], tx.inv[file.id], tx.refs, tx.reset, writes)
  BY <1>1 DEF Running, Followed
<1>11. Following(file', disk[file.id], tx.inv[file.id], tx.refs, tx.reset, writes)
  BY <1>1, <1>5, <1>6, <1>10 DEF Following
<1>12. Followed'
  BY <1>1, <1>6, <1>8, <1>9, <1>10, <1>11 DEF Followed
<1>13. Sourced(tx, BeingRead)' /\ Inventoried'
  <2>1. BeingRead' = BeingRead
    BY <1>1, <1>6, <1>7 DEF BeingRead
  <2>2. Sourced(tx', BeingRead')
    BY <2>1, <1>1 DEF Running
  <2> QED BY <2>2, <1>1, <1>8, SourcedNext DEF Running, Inventoried
<1>14. Typed(tx')
  BY <1>1 DEF Running
<1> QED BY <1>1, <1>6, <1>8, <1>12, <1>13, <1>14 DEF Running

\* One more line of a file was read.
LEMMA PassedMore ==
  ASSUME NEW c, c.lines \in Seq(Events \cup {Bad}), NEW row, NEW new, NEW refs, NEW more, NEW f,
         NEW head, head # Nil, NEW k \in Nat, k < Len(c.lines), Passed(c, row, refs, f, head, 2 * k),
         new.gen = row.gen,
         \A id : [file |-> f, gen |-> row.gen, id |-> id] \in refs
                   => [file |-> f, gen |-> row.gen, id |-> id] \in more,
         row.oldest \in Nat \cup {Nil}, new.oldest \in Nat \cup {Nil},
         row.oldest # Nil => new.oldest # Nil /\ new.oldest <= row.oldest,
         c.lines[k + 1] \in Events =>
           /\ [file |-> f, gen |-> row.gen, id |-> c.lines[k + 1].id] \in more
           /\ new.oldest # Nil /\ new.oldest <= c.lines[k + 1].at
  PROVE  Passed(c, new, more, f, head, 2 * k + 2)
<1>1. Len(c.lines) \in Nat /\ DOMAIN c.lines = 1 .. Len(c.lines)
  OBVIOUS
<1>2. 2 * k + 2 = 2 * (k + 1) /\ k + 1 \in Nat /\ 2 * k + 2 <= 2 * Len(c.lines)
  BY ONLY <1>1, k \in Nat, k < Len(c.lines)
<1>3. ASSUME Covered(c, row, refs, f, 2 * k) PROVE Covered(c, new, more, f, 2 * k + 2)
  <2>1. SUFFICES ASSUME NEW i \in DOMAIN c.lines, 2 * i <= 2 * k + 2, c.lines[i] \in Events
                 PROVE  /\ [file |-> f, gen |-> new.gen, id |-> c.lines[i].id] \in more
                        /\ new.oldest # Nil /\ new.oldest <= c.lines[i].at
    BY DEF Covered
  <2>2. i \in Nat
    BY <1>1
  <2>3. 2 * i <= 2 * k \/ i = k + 1
    BY ONLY <2>1, <2>2, k \in Nat
  <2>4. CASE i = k + 1
    BY <2>1, <2>4
  <2>5. CASE 2 * i <= 2 * k
    <3>1. /\ [file |-> f, gen |-> row.gen, id |-> c.lines[i].id] \in refs
          /\ row.oldest # Nil /\ row.oldest <= c.lines[i].at
      BY <2>1, <2>5, <1>3 DEF Covered
    <3>2. c.lines[i].at \in Nat
      BY <2>1
    <3>3. new.oldest # Nil /\ new.oldest <= row.oldest /\ row.oldest \in Nat /\ new.oldest \in Nat
      BY <3>1
    <3>4. new.oldest <= c.lines[i].at
      BY ONLY <3>1, <3>2, <3>3
    <3> QED BY <3>1, <3>3, <3>4
  <2> QED BY <2>3, <2>4, <2>5
<1> QED BY <1>2, <1>3 DEF Passed

\* A record leaves its reference, and the inventory with the oldest event so far.
LEMMA ReadMarks ==
  ASSUME Disks, Running, NEW late \in BOOLEAN, Read(late)
  PROVE  LET f == file.id
             e == Line
             row == tx.inv[f]
             valid == e \in Events
             final == file.offset + 2 = file.size
             oldest == IF ~valid THEN file.oldest
                       ELSE IF file.oldest = Nil THEN e.at ELSE Min({file.oldest, e.at})
             complete == IF file.complete = -1 THEN -1 ELSE IF final THEN 1 ELSE 0
             add == IF valid THEN {[file |-> f, gen |-> file.gen, id |-> e.id]} ELSE {}
             read == [IF valid THEN tx ELSE _Loss(tx) EXCEPT
                        !.refs = @ \cup add, !.inv[f].oldest = oldest, !.inv[f].complete = complete]
         IN  /\ Typed(read) /\ SameBooks(tx, read) /\ read.floor = tx.floor
             /\ read.files = tx.files /\ read.reset = tx.reset /\ read.next = tx.next
             /\ read.refs = tx.refs \cup add
             /\ \A g \in Files \ {f} : read.inv[g] = tx.inv[g]
             /\ read.inv[f] = [row EXCEPT !.oldest = oldest, !.complete = complete]
             /\ read.inv[f] \in InventoryRow
             /\ oldest \in Nat \cup {Nil} /\ complete \in {-1, 0, 1}
             /\ row.oldest # Nil => oldest # Nil /\ oldest <= row.oldest
             /\ valid => oldest # Nil /\ oldest <= e.at
<1> DEFINE f == file.id
           row == tx.inv[f]
           final == file.offset + 2 = file.size
           oldest == IF Line \notin Events THEN file.oldest
                     ELSE IF file.oldest = Nil THEN Line.at ELSE Min({file.oldest, Line.at})
           complete == IF file.complete = -1 THEN -1 ELSE IF final THEN 1 ELSE 0
           add == IF Line \in Events THEN {[file |-> f, gen |-> file.gen, id |-> Line.id]} ELSE {}
           read == [IF Line \in Events THEN tx ELSE _Loss(tx) EXCEPT
                      !.refs = @ \cup add, !.inv[f].oldest = oldest, !.inv[f].complete = complete]
           new == [row EXCEPT !.oldest = oldest, !.complete = complete]
           inv == [tx.inv EXCEPT ![f] = new]
           base == IF Line \in Events THEN tx ELSE _Loss(tx)
           refs == tx.refs \cup add
           t == [base EXCEPT !.refs = refs, !.inv = inv]
<1>1. file # Nil /\ file \in OpenFile /\ f \in Files
  BY DEF Read, AtLine, Reading, Running, OpenFile
<1>2. row # Nil /\ file.gen = row.gen /\ file.oldest = row.oldest
  BY <1>1 DEF Running, Followed, Following
<1>3. row \in InventoryRow
  BY <1>1, <1>2 DEF Running, Typed
<1>4. row.oldest \in Nat \cup {Nil} /\ row.gen \in Nat
  BY <1>3 DEF InventoryRow
<1>5. Line \in Events => Line.at \in Nat /\ Line.id \in Ids
  BY DEF Ids
<1>6. /\ oldest \in Nat \cup {Nil}
      /\ row.oldest # Nil => oldest # Nil /\ oldest <= row.oldest
      /\ Line \in Events => oldest # Nil /\ oldest <= Line.at
  <2> DEFINE a == row.oldest
             b == Line.at
  <2>1. oldest = IF Line \notin Events THEN a ELSE IF a = Nil THEN b ELSE Min({a, b})
    BY <1>2
  <2>2. a \in Nat \cup {Nil} /\ (Line \in Events => b \in Nat)
    BY <1>4, <1>5
  <2>3. \A n \in Nat : n # Nil
    BY NilAssumption
  <2> HIDE DEF a, b
  <2>4. CASE Line \notin Events
    BY <2>1, <2>2, <2>3, <2>4 DEF a, b
  <2>5. CASE Line \in Events /\ a = Nil
    BY <2>1, <2>2, <2>3, <2>5 DEF a, b
  <2>6. CASE Line \in Events /\ a # Nil
    <3>1. oldest = Min({a, b}) /\ a \in Nat /\ b \in Nat
      BY <2>1, <2>2, <2>6
    <3>2. Min({a, b}) \in {a, b} /\ Min({a, b}) <= a /\ Min({a, b}) <= b
      BY <3>1, MinOfTwo
    <3>3. oldest \in Nat /\ oldest <= a /\ oldest <= b
      BY ONLY <3>1, <3>2
    <3> QED BY <3>3, <2>3 DEF a, b
  <2> QED BY <2>4, <2>5, <2>6
<1>7. complete \in {-1, 0, 1}
  OBVIOUS
<1> HIDE DEF oldest, complete
<1>8. new \in InventoryRow
  BY <1>3, <1>6, <1>7 DEF InventoryRow
<1> HIDE DEF f
<1>9. /\ Typed(base) /\ SameSources(tx, base) /\ SameBooks(tx, base) /\ base.floor = tx.floor
  BY LossesEffect DEF Running, _Loss, SameSources, SameBooks
<1>10. read = t
  <2>1. read = [base EXCEPT !.refs = @ \cup add, !.inv[f].oldest = oldest, !.inv[f].complete = complete]
    BY DEF f
  <2>2. base.inv = tx.inv /\ base.refs = tx.refs /\ DOMAIN base = Columns
    BY <1>9 DEF SameSources, Typed
  <2> DEFINE first == [base EXCEPT !.refs = base.refs \cup add]
             second == [first EXCEPT !.inv = [first.inv EXCEPT ![f].oldest = oldest]]
             third == [second EXCEPT !.inv = [second.inv EXCEPT ![f].complete = complete]]
  <2> HIDE DEF base
  <2>3. read = third
    BY <2>1
  <2>4. DOMAIN first = Columns /\ first.inv = tx.inv /\ first = [base EXCEPT !.refs = refs]
    BY <2>2 DEF Columns
  <2> HIDE DEF first, refs
  <2>5. DOMAIN second = Columns /\ second.inv = [tx.inv EXCEPT ![f].oldest = oldest]
         /\ second = [first EXCEPT !.inv = second.inv]
    BY <2>4 DEF Columns
  <2>6. third = [first EXCEPT !.inv = [second.inv EXCEPT ![f].complete = complete]]
    <3> DEFINE g == second.inv
               h == [second.inv EXCEPT ![f].complete = complete]
    <3>1. second = [first EXCEPT !.inv = g] /\ third = [second EXCEPT !.inv = h]
      BY <2>5
    <3> HIDE DEF second, third, g, h
    <3>2. third = [first EXCEPT !.inv = h]
      BY <3>1, <2>4 DEF Columns
    <3> QED BY <3>2 DEF h
  <2>7. [[tx.inv EXCEPT ![f].oldest = oldest] EXCEPT ![f].complete = complete] = inv
    <3>1. tx.inv \in [Files -> InventoryRow \cup {Nil}] /\ f \in Files
      BY <1>1 DEF Running, Typed, f
    <3>2. [[row EXCEPT !.oldest = oldest] EXCEPT !.complete = complete] = new
      BY <1>3 DEF InventoryRow
    <3> DEFINE one == [tx.inv EXCEPT ![f] = [row EXCEPT !.oldest = oldest]]
    <3>3. [tx.inv EXCEPT ![f].oldest = oldest] = one
      OBVIOUS
    <3>4. one[f] = [row EXCEPT !.oldest = oldest]
      BY <3>1
    <3>5. [one EXCEPT ![f].complete = complete] = [one EXCEPT ![f] = new]
      BY <3>2, <3>4
    <3>6. [one EXCEPT ![f] = new] = inv
      BY <3>1
    <3> QED BY <3>3, <3>5, <3>6
  <2>8. read = [first EXCEPT !.inv = inv]
    BY <2>3, <2>5, <2>6, <2>7
  <2> HIDE DEF inv
  <2> QED BY <2>8, <2>4, <2>2 DEF Columns
<1> HIDE DEF new
<1>11. inv \in [Files -> InventoryRow \cup {Nil}] /\ inv[f] = new /\ \A g \in Files \ {f} : inv[g] = tx.inv[g]
  BY <1>1, <1>8 DEF Running, Typed, f
<1>12. refs \subseteq [file : Files, gen : Nat, id : Ids]
  <2>1. add \subseteq [file : Files, gen : Nat, id : Ids]
    BY <1>1, <1>2, <1>4, <1>5 DEF f
  <2> HIDE DEF add
  <2> QED BY <2>1 DEF Running, Typed
<1> HIDE DEF inv, refs, base, add, read
<1>13. /\ DOMAIN t = Columns /\ t.inv = inv /\ t.refs = refs /\ t.files = tx.files
       /\ t.losses = base.losses /\ t.floor = tx.floor /\ t.reset = tx.reset /\ t.next = tx.next
       /\ SameBooks(tx, t)
  BY <1>9 DEF Typed, Columns, SameBooks, SameSources
<1> HIDE DEF t
<1>14. Typed(t)
  BY <1>9, <1>11, <1>12, <1>13 DEF Typed, SameBooks, SameSources
<1>15. /\ Typed(read) /\ SameBooks(tx, read) /\ read.floor = tx.floor
       /\ read.files = tx.files /\ read.reset = tx.reset /\ read.next = tx.next
       /\ read.refs = refs /\ read.inv[f] = new /\ \A g \in Files \ {f} : read.inv[g] = tx.inv[g]
  BY <1>10, <1>11, <1>13, <1>14
<1> QED BY <1>6, <1>7, <1>8, <1>15 DEF f, new, refs, oldest, complete, add, read, base

\* A record is read: what was read of the file reaches one line further, and when
\* it was the last line the file was read wholly.
LEMMA ReadRuns ==
  ASSUME Disks, Running, NEW late \in BOOLEAN, Read(late)
  PROVE  Running' /\ FloorKept(tx, tx') /\ OnceKept(tx, tx')
<1> DEFINE f == file.id
           e == Line
           c == disk[f]
           row == tx.inv[f]
           valid == e \in Events
           final == file.offset + 2 = file.size
           oldest == IF e \notin Events THEN file.oldest
                     ELSE IF file.oldest = Nil THEN e.at ELSE Min({file.oldest, e.at})
           complete == IF file.complete = -1 THEN -1 ELSE IF final THEN 1 ELSE 0
           add == IF valid THEN {[file |-> f, gen |-> file.gen, id |-> e.id]} ELSE {}
           read == [IF valid THEN tx ELSE _Loss(tx) EXCEPT
                      !.refs = @ \cup add, !.inv[f].oldest = oldest, !.inv[f].complete = complete]
           last == [read EXCEPT !.inv[f].size = file.size, !.inv[f].ver = file.ver,
                                !.refs = OfGeneration(read, f, file.gen)]
           window == _SourceWindow(last, scan.expired)
           t == IF final THEN window ELSE read
           u == _Event(t, e)
<1>1. /\ file # Nil /\ scan # Nil /\ ~Spent /\ file.offset \div 2 < Len(c.lines) /\ ~file.discard
      /\ tx' = IF valid THEN [u EXCEPT !.passed = @ \cup {e}] ELSE t
      /\ file' = [file EXCEPT !.offset = @ + 2, !.oldest = oldest]
      /\ scan' = [scan EXCEPT !.rows = @ + 1, !.spent = late]
      /\ UNCHANGED <<disk, db, writes>>
  BY DEF Read, AtLine, Reading
<1>2. file \in OpenFile /\ f \in Files
  BY <1>1 DEF Running, OpenFile
<1>3. f \in scan.seen /\ Following(file, c, row, tx.refs, tx.reset, writes)
  BY <1>1 DEF Running, Followed
<1>4. row # Nil /\ row \in InventoryRow /\ file.gen = row.gen /\ file.oldest = row.oldest
  BY <1>2, <1>3 DEF Following, Running, Typed
<1>5. c.lines \in Seq(Events \cup {Bad}) /\ Sound(c) /\ c.ver <= writes /\ writes \in Nat
  BY <1>2 DEF Disks, Content
<1>6. /\ Typed(read) /\ SameBooks(tx, read) /\ read.floor = tx.floor
      /\ read.files = tx.files /\ read.reset = tx.reset /\ read.next = tx.next
      /\ read.refs = tx.refs \cup add
      /\ \A g \in Files \ {f} : read.inv[g] = tx.inv[g]
      /\ read.inv[f] = [row EXCEPT !.oldest = oldest, !.complete = complete]
      /\ read.inv[f] \in InventoryRow
      /\ oldest \in Nat \cup {Nil} /\ complete \in {-1, 0, 1}
      /\ row.oldest # Nil => oldest # Nil /\ oldest <= row.oldest
      /\ valid => oldest # Nil /\ oldest <= e.at
  BY ReadMarks
<1>7. e = c.lines[file.offset \div 2 + 1]
  BY DEF Line
<1> DEFINE new == read.inv[f]
<1>8. /\ new.gen = row.gen /\ new.oldest = oldest /\ new.complete = complete
      /\ new.size = row.size /\ new.ver = row.ver /\ new # Nil
  <2>1. new # Nil
    BY <1>6, NilAssumption
  <2>2. ASSUME NEW r \in InventoryRow, NEW o, NEW k
        PROVE  LET n == [r EXCEPT !.oldest = o, !.complete = k]
               IN  n.gen = r.gen /\ n.oldest = o /\ n.complete = k /\ n.size = r.size /\ n.ver = r.ver
    BY ONLY <2>2 DEF InventoryRow
  <2>3. new = [row EXCEPT !.oldest = oldest, !.complete = complete]
    BY <1>6
  <2> HIDE DEF row, new, oldest, complete
  <2> QED BY <2>1, <2>2, <2>3, <1>4
<1>9. /\ file.offset \in Nat /\ file.size \in Nat /\ file.ver \in Nat
      /\ file.head \in Events \cup {Nil} /\ file.complete \in {-1, 0, 1}
  BY <1>2 DEF OpenFile
<1>10. tx.reset => ~final
  BY <1>3, <1>9 DEF Following
<1> HIDE DEF read, e, oldest, complete
<1>11. add \subseteq [file : {f}, gen : {row.gen}, id : Ids] /\ (valid => [file |-> f, gen |-> row.gen, id |-> e.id] \in add)
  BY <1>4 DEF Ids
<1> HIDE DEF add
\* The last line: the file keeps the references of its generation.
<1> DEFINE done == [new EXCEPT !.size = file.size, !.ver = file.ver]
           refs == OfGeneration(read, f, file.gen)
           inv == [read.inv EXCEPT ![f] = done]
<1>12. /\ done \in InventoryRow /\ done.gen = row.gen /\ done.oldest = oldest /\ done.complete = complete
       /\ done.size = file.size /\ done.ver = file.ver
  <2> HIDE DEF new
  <2> QED BY <1>6, <1>8, <1>9 DEF InventoryRow, new
<1>13. /\ Typed(last) /\ SameBooks(tx, last) /\ last.floor = tx.floor
       /\ last.files = tx.files /\ last.reset = tx.reset /\ last.refs = refs
       /\ last.inv[f] = done /\ \A g \in Files \ {f} : last.inv[g] = tx.inv[g]
  <2>1. last = [read EXCEPT !.inv = inv, !.refs = refs]
    <3> DEFINE one == [new EXCEPT !.size = file.size]
               first == [read EXCEPT !.inv = [read.inv EXCEPT ![f] = one]]
               second == [first EXCEPT !.inv = [first.inv EXCEPT ![f].ver = file.ver]]
    <3>1. last = [second EXCEPT !.refs = refs]
      OBVIOUS
    <3>2. DOMAIN read = Columns /\ f \in Files /\ read.inv \in [Files -> InventoryRow \cup {Nil}]
      BY <1>2, <1>6 DEF Typed
    <3> HIDE DEF f, new
    <3>3. DOMAIN first = Columns /\ first.inv = [read.inv EXCEPT ![f] = one]
      BY <3>2 DEF Columns
    <3>4. first.inv[f] = one /\ [one EXCEPT !.ver = file.ver] = done
      <4> HIDE DEF first
      <4>1. first.inv[f] = one
        BY <3>2, <3>3
      <4> QED BY <4>1
    <3>5. [first.inv EXCEPT ![f].ver = file.ver] = inv
      <4> HIDE DEF first, one, done
      <4> QED BY <3>2, <3>3, <3>4
    <3>6. second = [read EXCEPT !.inv = inv]
      <4>1. second = [first EXCEPT !.inv = inv]
        BY <3>5
      <4> HIDE DEF second, inv, one
      <4> QED BY <4>1, <3>2 DEF Columns
    <3> HIDE DEF second, inv, refs, last
    <3> QED BY <3>1, <3>6
  <2>2. inv \in [Files -> InventoryRow \cup {Nil}] /\ inv[f] = done /\ \A g \in Files \ {f} : inv[g] = tx.inv[g]
    <3> HIDE DEF done
    <3> QED BY <1>2, <1>6, <1>12 DEF Typed
  <2>3. refs \subseteq read.refs
    BY DEF OfGeneration
  <2> HIDE DEF inv, refs, last
  <2>4. /\ DOMAIN last = Columns /\ last.inv = inv /\ last.refs = refs /\ last.files = read.files
        /\ last.losses = read.losses /\ last.floor = read.floor /\ last.reset = read.reset
        /\ last.next = read.next /\ SameBooks(read, last)
    BY <2>1, <1>6 DEF Typed, Columns, SameBooks
  <2>5. Typed(last)
    BY <2>2, <2>3, <2>4, <1>6 DEF Typed, SameBooks
  <2> QED BY <2>2, <2>4, <2>5, <1>6 DEF SameBooks
<1> HIDE DEF done, last, new
<1>14. done # Nil
  BY <1>12, NilAssumption
<1>15. /\ \A g \in Files \ {f} : Keeps(tx.refs, read.refs, g) /\ Keeps(tx.refs, refs, g)
       /\ \A id : [file |-> f, gen |-> row.gen, id |-> id] \in tx.refs
                    => /\ [file |-> f, gen |-> row.gen, id |-> id] \in read.refs
                       /\ [file |-> f, gen |-> row.gen, id |-> id] \in refs
       /\ valid => /\ [file |-> f, gen |-> row.gen, id |-> e.id] \in read.refs
                   /\ [file |-> f, gen |-> row.gen, id |-> e.id] \in refs
  BY <1>4, <1>6, <1>11 DEF Keeps, OfGeneration
\* What was read of the file, in either case.
<1>16. ASSUME ~tx.reset, file.complete # -1
       PROVE  /\ file.head # Nil /\ Known(c, file.head)
              /\ Passed(c, new, read.refs, f, file.head, file.offset + 2)
              /\ Passed(c, done, refs, f, file.head, file.offset + 2)
  <2>1. /\ Passed(c, row, tx.refs, f, file.head, file.offset) /\ (file.head = Nil => c.lines = <<>>)
        /\ Known(c, file.head)
    BY <1>3, <1>16 DEF Following
  <2>2. PICK k \in Nat : file.offset = 2 * k
    BY <2>1 DEF Passed
  <2>3. file.offset \div 2 = k
    BY <2>2, HalfOf
  <2>4. k < Len(c.lines) /\ e = c.lines[k + 1]
    BY <2>3, <1>1, <1>7
  <2>5. file.head # Nil
    <3>1. c.lines # <<>>
      BY <2>2, <2>4, <1>5
    <3> QED BY <3>1, <2>1
  <2>6. row.oldest \in Nat \cup {Nil}
    BY <1>4 DEF InventoryRow
  <2> HIDE DEF row, c, f
  <2>7. Passed(c, row, tx.refs, f, file.head, 2 * k)
    BY <2>1, <2>2
  <2>8. Passed(c, new, read.refs, f, file.head, 2 * k + 2)
    BY <2>4, <2>5, <2>6, <2>7, <1>5, <1>6, <1>8, <1>15, PassedMore
  <2>9. Passed(c, done, refs, f, file.head, 2 * k + 2)
    BY <2>4, <2>5, <2>6, <2>7, <1>5, <1>6, <1>12, <1>15, PassedMore
  <2> QED BY <2>1, <2>2, <2>5, <2>8, <2>9
<1>17. /\ SourcedAt(c, tx.files[f], row, tx.refs, tx.reset, f, writes)
       /\ Sourced(tx, {f})
  BY <1>1, <1>2 DEF Running, Sourced, BeingRead
<1>18. ASSUME final PROVE Sourced(last, {f})
  <2>1. SourcedAt(c, last.files[f], done, refs, last.reset, f, writes)
    <3>1. Whole(c, done, refs, f)
      <4>1. SUFFICES ASSUME complete = 1, file.ver = c.ver, file.size = SizeIn(c)
                     PROVE  Covered(c, done, refs, f, SizeIn(c))
        BY <1>12 DEF Whole
      <4>2. ~tx.reset /\ file.complete # -1
        BY <4>1, <1>10, <1>18 DEF complete
      <4>3. /\ file.head # Nil /\ Known(c, file.head)
            /\ Passed(c, done, refs, f, file.head, file.offset + 2)
        BY <4>2, <1>16
      <4>4. HeadIn(c) \in {Nil, file.head}
        BY <4>1, <4>2, <1>3 DEF Following
      <4>5. HeadIn(c) = file.head
        <5>1. c.lines # <<>>
          <6>1. Len(c.lines) # 0
            BY <1>1, <1>5, <1>9
          <6> QED BY <6>1, <1>5
        <5>2. HeadIn(c) # Nil
          BY <5>1, <1>5, NilAssumption DEF HeadIn, Sound
        <5> QED BY <5>2, <4>4
      <4> QED BY <4>1, <4>3, <4>5, <1>18 DEF Passed
    <3>2. done.ver <= writes
      BY <1>3, <1>12 DEF Following
    <3>3. last.reset /\ last.files[f] # Nil => done.complete = -1
      BY <1>10, <1>13, <1>18
    <3> QED BY <3>1, <3>2, <3>3 DEF SourcedAt
  <2>2. \A g \in Files \ {f} : /\ last.files[g] = tx.files[g] /\ last.inv[g] = tx.inv[g]
                               /\ Keeps(tx.refs, last.refs, g)
    BY <1>13, <1>15
  <2>3. SourcedAt(disk[f], last.files[f], last.inv[f], last.refs, last.reset, f, writes)
    BY <2>1, <1>13
  <2>4. last.reset => tx.reset
    BY <1>13
  <2> HIDE DEF f, c, row
  <2> QED BY <2>2, <2>3, <2>4, <1>2, <1>17, SourcedBut
<1>19. ASSUME ~final PROVE Sourced(read, {f})
  <2>1. SourcedAt(c, read.files[f], new, read.refs, read.reset, f, writes)
    <3>1. new.complete # 1
      BY <1>8, <1>19 DEF complete
    <3>2. new.ver <= writes
      BY <1>4, <1>8, <1>17 DEF SourcedAt
    <3>3. read.reset /\ read.files[f] # Nil => new.complete = -1
      <4>1. tx.reset /\ tx.files[f] # Nil => row.complete = -1
        BY <1>4, <1>17 DEF SourcedAt
      <4>2. row.complete = -1 <=> file.complete = -1
        BY <1>3 DEF Following
      <4> QED BY <4>1, <4>2, <1>6, <1>8 DEF complete
    <3> QED BY <3>1, <3>2, <3>3 DEF SourcedAt, Whole
  <2>2. \A g \in Files \ {f} : /\ read.files[g] = tx.files[g] /\ read.inv[g] = tx.inv[g]
                               /\ Keeps(tx.refs, read.refs, g)
    BY <1>6, <1>15
  <2>3. SourcedAt(disk[f], read.files[f], read.inv[f], read.refs, read.reset, f, writes)
    BY <2>1 DEF new
  <2>4. read.reset => tx.reset
    BY <1>6
  <2> HIDE DEF f, c, row
  <2> QED BY <2>2, <2>3, <2>4, <1>2, <1>17, SourcedBut
\* What the window and the event make of that.
<1> DEFINE marked == IF final THEN last ELSE read
<1>20. /\ Typed(marked) /\ Sourced(marked, {f}) /\ SameBooks(tx, marked) /\ marked.floor = tx.floor
       /\ marked.files = tx.files /\ marked.reset = tx.reset
       /\ marked.inv[f] # Nil /\ marked.inv[f].gen = row.gen /\ marked.inv[f].oldest = oldest
       /\ marked.inv[f].complete = complete
       /\ \A g \in Files \ {f} : marked.inv[g] = tx.inv[g]
       /\ valid => References(marked, e.id)
       /\ ~tx.reset /\ file.complete # -1 =>
            Passed(c, marked.inv[f], marked.refs, f, file.head, file.offset + 2)
  <2>1. CASE final
    <3>1. marked = last
      BY <2>1
    <3>2. valid => References(last, e.id)
      BY <1>13, <1>15 DEF References
    <3> HIDE DEF marked, final, f, c, row, valid
    <3> QED BY <2>1, <3>1, <3>2, <1>12, <1>13, <1>14, <1>16, <1>18
  <2>2. CASE ~final
    <3>1. marked = read
      BY <2>2
    <3>2. valid => References(read, e.id)
      BY <1>15 DEF References
    <3>3. read.inv[f] = new
      BY DEF new
    <3> HIDE DEF marked, final, f, c, row, valid
    <3> QED BY <2>2, <3>1, <3>2, <3>3, <1>6, <1>8, <1>16, <1>19
  <2> QED BY <2>1, <2>2
<1> HIDE DEF refs, done, new
<1>21. /\ Typed(t) /\ Sourced(t, {f}) /\ t.files = tx.files /\ t.refs = marked.refs /\ t.reset = tx.reset
       /\ \A g \in Files : t.inv[g] # Nil <=> tx.inv[g] # Nil
       /\ t.inv[f].gen = row.gen /\ t.inv[f].oldest = oldest
       /\ t.inv[f].complete = -1 <=> file.complete = -1
       /\ t.rows \subseteq tx.rows /\ t.counted = tx.counted
  <2>1. complete = -1 <=> file.complete = -1
    BY <1>9 DEF complete
  <2>2. \A g \in Files : marked.inv[g] # Nil <=> tx.inv[g] # Nil
    BY <1>4, <1>20
  <2>3. CASE final
    <3>1. t = _SourceWindow(marked, scan.expired)
      BY <2>3
    <3> HIDE DEF t, marked, final, row, f
    <3>2. Typed(t) /\ t.files = marked.files /\ t.refs = marked.refs /\ t.reset = marked.reset
          /\ t.rows \subseteq marked.rows /\ t.counted = marked.counted
      BY <3>1, <1>20, WindowEffect
    <3>3. /\ Sourced(t, {f})
          /\ \A g \in Files : /\ t.inv[g] # Nil <=> marked.inv[g] # Nil
                              /\ marked.inv[g] # Nil =>
                                   /\ t.inv[g].gen = marked.inv[g].gen /\ t.inv[g].oldest = marked.inv[g].oldest
                                   /\ t.inv[g].complete = -1 <=> marked.inv[g].complete = -1
      BY <3>1, <1>20, WindowSources
    <3>4. /\ t.inv[f].gen = row.gen /\ t.inv[f].oldest = oldest
          /\ t.inv[f].complete = -1 <=> complete = -1
      BY <3>3, <1>2, <1>20
    <3> QED BY <3>2, <3>3, <3>4, <2>1, <2>2, <1>20 DEF SameBooks
  <2>4. CASE ~final
    <3>1. t = marked
      BY <2>4
    <3> HIDE DEF t, marked, final, row, f
    <3> QED BY <3>1, <2>1, <2>2, <1>20 DEF SameBooks
  <2> QED BY <2>3, <2>4
<1> HIDE DEF t
<1>22. /\ Typed(tx') /\ SameSources(t, tx') /\ tx'.floor = t.floor
       /\ \A gone : Once(t, gone) => Once(tx', gone)
       /\ \A id \in Ids : tx'.counted[id] >= t.counted[id]
       /\ \A r \in tx'.rows : r \in t.rows \/ (valid /\ r.id = e.id)
  <2>1. CASE valid
    <3>1. /\ Typed(u) /\ SameSources(t, u) /\ u.floor = t.floor
          /\ \A gone : Once(t, gone) => Once(u, gone)
          /\ \A id \in Ids : u.counted[id] >= t.counted[id]
          /\ \A r \in u.rows : r \in t.rows \/ r.id = e.id
      BY <2>1, <1>21, EventEffect
    <3> DEFINE passed == u.passed \cup {e}
    <3>2. tx' = [u EXCEPT !.passed = passed]
      BY <2>1, <1>1
    <3> HIDE DEF u, passed
    <3>3. /\ DOMAIN tx' = Columns /\ SameSources(u, tx') /\ SameBooks(u, tx')
          /\ tx'.floor = u.floor /\ tx'.losses = u.losses
      BY <3>1, <3>2 DEF Typed, Columns, SameSources, SameBooks
    <3>4. Typed(tx')
      BY <3>1, <3>3 DEF Typed, SameSources, SameBooks
    <3>5. \A gone : Once(u, gone) => Once(tx', gone)
      BY <3>3 DEF Once, Signs, SameBooks
    <3>6. SameSources(t, tx')
      BY <3>1, <3>3 DEF SameSources
    <3> QED BY <3>1, <3>3, <3>4, <3>5, <3>6, <2>1 DEF SameBooks
  <2>2. CASE ~valid
    <3>1. tx' = t /\ \A id \in Ids : t.counted[id] \in Nat
      BY <2>2, <1>1, <1>21 DEF Typed
    <3> QED BY <3>1, <1>21 DEF SameSources
  <2> QED BY <2>1, <2>2
<1> HIDE DEF u
<1>23. /\ file' \in OpenFile /\ file'.id = f /\ file'.size = file.size /\ file'.ver = file.ver
       /\ file'.head = file.head /\ file'.offset = file.offset + 2 /\ file'.discard = file.discard
       /\ file'.oldest = oldest /\ file'.complete = file.complete /\ file'.gen = file.gen
  <2> DEFINE offset == file.offset + 2
  <2>1. offset \in Nat
    BY <1>9
  <2>2. file' = [file EXCEPT !.offset = offset, !.oldest = oldest]
    BY <1>1
  <2> HIDE DEF offset
  <2>3. file' = [file EXCEPT !.offset = offset, !.oldest = oldest] /\ oldest \in Nat \cup {Nil}
    BY <2>2, <1>6
  <2> QED BY <2>1, <2>3, <1>2 DEF OpenFile, offset
<1>24. file' # Nil
  BY <1>23, NilAssumption
<1>25. scan' \in Scan /\ scan'.seen = scan.seen /\ scan'.todo = scan.todo /\ scan' # Nil
  <2> DEFINE n == scan.rows + 1
  <2>1. scan \in Scan
    BY <1>1 DEF Running
  <2>2. n \in Nat
    BY <2>1 DEF Scan
  <2>3. scan' = [scan EXCEPT !.rows = n, !.spent = late]
    BY <1>1
  <2> HIDE DEF n
  <2>4. scan' \in Scan /\ scan'.seen = scan.seen /\ scan'.todo = scan.todo
    BY <2>1, <2>2, <2>3 DEF Scan
  <2> QED BY <2>4, NilAssumption
<1>26. Following(file', c, t.inv[f], t.refs, t.reset, writes)
  <2>1. tx.reset => file.offset + 2 >= file.size
    BY <1>3, <1>9 DEF Following
  <2>2. t.inv[f] # Nil
    BY <1>2, <1>4, <1>21
  <2>3. ~tx.reset /\ file.complete # -1 =>
          /\ Passed(c, t.inv[f], t.refs, f, file.head, file.offset + 2) /\ file.head # Nil
    <3>1. SUFFICES ASSUME ~tx.reset, file.complete # -1
                   PROVE  Passed(c, t.inv[f], t.refs, f, file.head, file.offset + 2) /\ file.head # Nil
      OBVIOUS
    <3>2. Passed(c, marked.inv[f], t.refs, f, file.head, file.offset + 2)
      BY <3>1, <1>20, <1>21
    <3>3. t.inv[f].gen = marked.inv[f].gen /\ t.inv[f].oldest = marked.inv[f].oldest
      BY <1>20, <1>21
    <3> QED BY <3>1, <3>2, <3>3, <1>16, PassedSame
  <2> HIDE DEF c, f, row
  <2> QED BY <2>1, <2>2, <2>3, <1>1, <1>3, <1>4, <1>21, <1>23 DEF Following
<1>27. Followed'
  <2>1. t.inv = tx'.inv /\ t.refs = tx'.refs /\ t.reset = tx'.reset
    BY <1>22 DEF SameSources
  <2>2. Following(file', disk'[file'.id], tx'.inv[file'.id], tx'.refs, tx'.reset, writes')
    BY <2>1, <1>1, <1>23, <1>26
  <2> QED BY <2>2, <1>3, <1>23, <1>25 DEF Followed
<1>28. Sourced(tx, BeingRead)'
  <2>1. BeingRead' = {f}
    BY <1>23, <1>24 DEF BeingRead
  <2>2. Sourced(tx', {f})
    BY <1>21, <1>22, SourcedSame
  <2> QED BY <2>1, <2>2, <1>1, SourcedNext
<1>29. Inventoried'
  <2>1. \A g \in Files : tx'.inv[g] # Nil <=> tx.inv[g] # Nil
    BY <1>21, <1>22 DEF SameSources
  <2> QED BY <2>1, <1>1, <1>25 DEF Running, Inventoried
<1>30. Running'
  BY <1>22, <1>23, <1>25, <1>27, <1>28, <1>29 DEF Running
<1>31. \A g \in Files : marked.inv[g] # Nil <=> tx.inv[g] # Nil
  BY <1>4, <1>20
<1>32. Listing(marked)
  BY <1>20 DEF Listing, Sourced, SourcedAt
<1>33. FloorKept(tx, tx')
  <2>1. CASE final
    <3>1. t = _SourceWindow(marked, scan.expired)
      BY <2>1 DEF t
    <3> HIDE DEF marked, final
    <3>2. t.floor >= marked.floor
      BY <3>1, <1>20, WindowEffect
    <3>3. ASSUME t.floor > marked.floor, NEW g \in Files, marked.inv[g] # Nil, NEW x \in Events,
                 x \in ToSet(disk[g].lines)
          PROVE  x.at >= t.floor
      BY <3>1, <3>3, <1>20, <1>32, WindowFloor
    <3> QED BY <3>2, <3>3, <1>20, <1>22, <1>31 DEF FloorKept
  <2>2. CASE ~final
    <3>1. t.floor = tx.floor /\ tx.floor \in Nat
      BY <2>2, <1>20 DEF t, Running, Typed
    <3> QED BY <3>1, <1>22 DEF FloorKept
  <2> QED BY <2>1, <2>2
<1>34. OnceKept(tx, tx')
  <2>1. SUFFICES ASSUME NEW gone, NEW more, Once(tx, gone), gone \subseteq more,
                        \A id \in Ids : tx'.counted[id] > 0 /\ Unheld(tx', tx, id) => id \in more
                 PROVE  Once(t, more)
    BY <1>22 DEF OnceKept
  <2>2. Once(marked, gone)
    BY <2>1, <1>20 DEF Once, Signs, SameBooks
  <2>3. CASE final
    <3>1. t = _SourceWindow(marked, scan.expired)
      BY <2>3 DEF t
    <3> HIDE DEF marked, final
    <3>2. ASSUME NEW id \in Ids, marked.counted[id] > 0, ~References(marked, id), Unheld(t, marked, id)
          PROVE  id \in more
      <4>1. tx'.counted[id] > 0
        <5>1. tx'.counted[id] >= t.counted[id] /\ t.counted[id] = marked.counted[id]
          BY <1>20, <1>21, <1>22 DEF SameBooks
        <5>2. tx'.counted[id] \in Nat /\ marked.counted[id] \in Nat
          BY <1>20, <1>22 DEF Typed
        <5> QED BY ONLY <5>1, <5>2, <3>2
      <4>2. Unheld(tx', tx, id)
        BY <3>2, <1>20, <1>22, <1>31 DEF Unheld
      <4> QED BY <4>1, <4>2, <2>1
    <3> QED BY <3>1, <3>2, <2>1, <2>2, <1>20, <1>32, WindowOnce
  <2>4. CASE ~final
    <3>1. t = marked
      BY <2>4 DEF t
    <3> QED BY <3>1, <2>1, <2>2, OnceGrows
  <2> QED BY <2>3, <2>4
<1> QED BY <1>30, <1>33, <1>34

\* A file that was read to its end, and is what was read, was read wholly.
LEMMA ReadWholly ==
  ASSUME Disks, Running, file # Nil, ~tx.reset, file.complete # -1, file.offset >= file.size,
         NEW row, row.gen = tx.inv[file.id].gen, row.oldest = tx.inv[file.id].oldest,
         file.ver = disk[file.id].ver
  PROVE  Covered(disk[file.id], row, tx.refs, file.id, SizeIn(disk[file.id]))
<1> DEFINE f == file.id
           c == disk[f]
<1>1. Following(file, c, tx.inv[f], tx.refs, tx.reset, writes)
  BY DEF Running, Followed
<1>2. f \in Files /\ Sound(c) /\ c.lines \in Seq(Events \cup {Bad})
  BY DEF Running, OpenFile, Disks, Content
<1>3. CASE c.lines = <<>>
  <2>1. DOMAIN c.lines = {}
    BY <1>3
  <2> QED BY <2>1 DEF Covered
<1>4. CASE c.lines # <<>>
  <2>1. HeadIn(c) # Nil
    BY <1>2, <1>4, NilAssumption DEF HeadIn, Sound
  <2>2. HeadIn(c) = file.head
    BY <2>1, <1>1 DEF Following
  <2>3. Covered(c, row, tx.refs, f, file.offset)
    <3>1. Passed(c, tx.inv[f], tx.refs, f, file.head, file.offset)
      BY <1>1 DEF Following
    <3>2. Covered(c, tx.inv[f], tx.refs, f, file.offset)
      BY <3>1, <2>1, <2>2 DEF Passed
    <3> QED BY <3>2 DEF Covered
  <2>4. file.size = SizeIn(c)
    BY <1>1 DEF Following
  <2>5. /\ \A i \in DOMAIN c.lines : i \in Nat
        /\ SizeIn(c) \in Nat /\ file.offset \in Nat
    BY <1>2, SizeType DEF Running, OpenFile
  <2>6. \A i \in DOMAIN c.lines : 2 * i <= SizeIn(c) => 2 * i <= file.offset
    BY <2>4, <2>5
  <2> HIDE DEF c, f
  <2> QED BY <2>3, <2>6 DEF Covered, c, f
<1> QED BY <1>3, <1>4

\* A file is left: the next scan can go on from there.
LEMMA CloseRuns ==
  ASSUME Disks, Running, Close
  PROVE  Running' /\ SameBooks(tx, tx') /\ tx'.floor = tx.floor
<1> DEFINE f == file.id
           c == disk[f]
           row == tx.inv[f]
           old == [head |-> file.head, offset |-> file.offset, size |-> file.size,
                   discard |-> file.discard]
           done == ~tx.reset /\ file.complete # -1 /\ file.offset >= file.size /\ ~file.discard
           whole == [row EXCEPT !.complete = 1, !.size = file.size, !.ver = file.ver]
           lost == [row EXCEPT !.complete = -1]
           new == IF done THEN whole ELSE IF tx.reset THEN lost ELSE row
           refs == IF done THEN {r \in tx.refs : r.file = f => r.gen = file.gen} ELSE tx.refs
           files == [tx.files EXCEPT ![f] = old]
           inv == [tx.inv EXCEPT ![f] = new]
           t == [tx EXCEPT !.files = files]
<1>1. /\ file # Nil /\ scan # Nil /\ file' = Nil /\ UNCHANGED <<disk, db, writes>>
      /\ \E n \in {f, scan.next} : scan' = [scan EXCEPT !.next = n]
      /\ tx' = IF done
               THEN [t EXCEPT !.inv[f].complete = 1, !.inv[f].size = file.size,
                              !.inv[f].ver = file.ver, !.refs = OfGeneration(t, f, file.gen)]
               ELSE IF tx.reset THEN [t EXCEPT !.inv[f].complete = -1] ELSE t
  BY DEF Close, Reading
<1>2. file \in OpenFile /\ f \in Files
  BY <1>1 DEF Running, OpenFile
<1>3. f \in scan.seen /\ Following(file, c, row, tx.refs, tx.reset, writes)
  BY <1>1 DEF Running, Followed
<1>4. row # Nil /\ row \in InventoryRow /\ file.gen = row.gen
  BY <1>2, <1>3 DEF Following, Running, Typed
<1>5. old \in FileRow /\ file.size \in Nat /\ file.ver \in Nat
  BY <1>2 DEF OpenFile, FileRow
<1>6. /\ whole \in InventoryRow /\ whole.gen = row.gen /\ whole.oldest = row.oldest
      /\ whole.complete = 1 /\ whole.size = file.size /\ whole.ver = file.ver
      /\ lost \in InventoryRow /\ lost.complete = -1 /\ lost.ver = row.ver
  <2>1. ASSUME NEW r \in InventoryRow
        PROVE  LET w == [r EXCEPT !.complete = 1, !.size = file.size, !.ver = file.ver]
                   l == [r EXCEPT !.complete = -1]
               IN  /\ w \in InventoryRow /\ w.gen = r.gen /\ w.oldest = r.oldest
                   /\ w.complete = 1 /\ w.size = file.size /\ w.ver = file.ver
                   /\ l \in InventoryRow /\ l.complete = -1 /\ l.ver = r.ver
    BY <1>5 DEF InventoryRow
  <2> HIDE DEF row
  <2> QED BY <2>1, <1>4
<1>7. new \in InventoryRow
  <2> HIDE DEF whole, lost, row, done
  <2> QED BY <1>4, <1>6
<1>8. new # Nil
  <2> HIDE DEF new
  <2> QED BY <1>7, NilAssumption
<1>9. /\ DOMAIN tx = Columns /\ tx.inv \in [Files -> InventoryRow \cup {Nil}]
      /\ tx.files \in [Files -> FileRow \cup {Nil}]
  BY DEF Running, Typed
<1>10. tx' = [tx EXCEPT !.files = files, !.inv = inv, !.refs = refs]
  <2> HIDE DEF f, old
  <2>1. DOMAIN t = Columns /\ t.inv = tx.inv /\ t.refs = tx.refs /\ t.files = files
    BY <1>9 DEF Columns
  <2>2. CASE done
    <3> DEFINE one == [row EXCEPT !.complete = 1]
               two == [one EXCEPT !.size = file.size]
               three == [two EXCEPT !.ver = file.ver]
               first == [t EXCEPT !.inv = [t.inv EXCEPT ![f].complete = 1]]
               second == [first EXCEPT !.inv = [first.inv EXCEPT ![f].size = file.size]]
               third == [second EXCEPT !.inv = [second.inv EXCEPT ![f].ver = file.ver]]
               last == OfGeneration(t, f, file.gen)
    <3>1. tx' = [third EXCEPT !.refs = last]
      BY <2>2, <1>1
    <3>2. three = new
      BY <2>2
    <3>3. last = refs
      BY <2>1, <2>2 DEF OfGeneration
    <3> HIDE DEF t, done, refs, row, new, last
    <3>4. DOMAIN first = Columns /\ first.inv = [tx.inv EXCEPT ![f] = one] /\ first = [t EXCEPT !.inv = first.inv]
      BY <2>1 DEF Columns, row
    <3>5. first.inv[f] = one
      <4> HIDE DEF first
      <4> QED BY <3>4, <1>2, <1>9
    <3> HIDE DEF first
    <3>6. DOMAIN second = Columns /\ second.inv = [first.inv EXCEPT ![f] = two]
      BY <3>4, <3>5 DEF Columns
    <3>7. second.inv = [tx.inv EXCEPT ![f] = two] /\ second.inv[f] = two
      <4> HIDE DEF second, one, two
      <4> QED BY <3>4, <3>6, <1>2, <1>9
    <3>8. second = [t EXCEPT !.inv = second.inv]
      BY <3>4, <2>1 DEF Columns
    <3> HIDE DEF second
    <3>9. DOMAIN third = Columns /\ third.inv = [second.inv EXCEPT ![f] = three]
      BY <3>6, <3>7 DEF Columns
    <3>10. third.inv = inv
      <4> HIDE DEF third, two, three
      <4> QED BY <3>2, <3>7, <3>9, <1>2, <1>9
    <3>11. third = [t EXCEPT !.inv = third.inv]
      BY <3>8, <2>1 DEF Columns
    <3> HIDE DEF third, inv, files
    <3> QED BY <3>1, <3>3, <3>10, <3>11, <1>9 DEF t, Columns
  <2>3. CASE ~done /\ tx.reset
    <3>1. tx' = [t EXCEPT !.inv[f].complete = -1] /\ new = lost /\ refs = tx.refs
      BY <2>3, <1>1
    <3>2. tx' = [t EXCEPT !.inv = inv]
      <4> HIDE DEF t
      <4> QED BY <3>1, <2>1
    <3> HIDE DEF inv, files, refs
    <3> QED BY <3>1, <3>2, <1>9 DEF Columns
  <2>4. CASE ~done /\ ~tx.reset
    <3>1. tx' = t /\ new = row /\ refs = tx.refs
      BY <2>4, <1>1
    <3>2. inv = tx.inv
      BY <3>1, <1>2, <1>9
    <3> HIDE DEF inv, files, refs
    <3> QED BY <3>1, <3>2, <1>9 DEF Columns
  <2> QED BY <2>2, <2>3, <2>4
<1>11. /\ inv \in [Files -> InventoryRow \cup {Nil}] /\ inv[f] = new
       /\ files \in [Files -> FileRow \cup {Nil}] /\ files[f] = old
       /\ \A g \in Files \ {f} : inv[g] = tx.inv[g] /\ files[g] = tx.files[g]
  <2> HIDE DEF new, old
  <2> QED BY <1>2, <1>5, <1>7, <1>9
<1>12. /\ refs \subseteq [file : Files, gen : Nat, id : Ids]
       /\ \A g \in Files \ {f} : Keeps(tx.refs, refs, g)
       /\ \A id : [file |-> f, gen |-> row.gen, id |-> id] \in tx.refs => [file |-> f, gen |-> row.gen, id |-> id] \in refs
  BY <1>4 DEF Running, Typed, Keeps
<1> HIDE DEF inv, files, refs, t
<1>13. /\ DOMAIN tx' = Columns /\ tx'.inv = inv /\ tx'.refs = refs /\ tx'.files = files
       /\ tx'.losses = tx.losses /\ tx'.floor = tx.floor /\ tx'.reset = tx.reset
       /\ tx'.next = tx.next /\ SameBooks(tx, tx')
  BY <1>9, <1>10 DEF Columns, SameBooks
<1>14. Typed(tx')
  BY <1>11, <1>12, <1>13 DEF Running, Typed, SameBooks
<1>15. SourcedAt(c, tx.files[f], row, tx.refs, tx.reset, f, writes) /\ Sourced(tx, {f})
  BY <1>1, <1>2 DEF Running, Sourced, BeingRead
<1>16. \A size : Covered(c, row, tx.refs, f, size) => Covered(c, row, refs, f, size)
  BY <1>12 DEF Covered
<1>17. Resumes(c, old, new, refs, f)
  <2>1. SUFFICES ASSUME new.complete # -1
                 PROVE  ~file.discard /\ Passed(c, new, refs, f, file.head, file.offset)
    BY <1>3 DEF Resumes, Following
  <2>2. ~tx.reset /\ file.complete # -1 /\ new.gen = row.gen /\ new.oldest = row.oldest
    <3>1. CASE done
      BY <3>1, <1>6
    <3>2. CASE ~done
      BY <3>2, <2>1, <1>3, <1>6 DEF Following
    <3> QED BY <3>1, <3>2
  <2>3. ~file.discard /\ Passed(c, row, tx.refs, f, file.head, file.offset)
    BY <2>2, <1>3 DEF Following
  <2>4. Passed(c, row, refs, f, file.head, file.offset)
    BY <2>3, <1>16 DEF Passed
  <2> HIDE DEF new, c, row
  <2> QED BY <2>2, <2>3, <2>4, PassedSame
<1>18. SourcedAt(c, old, new, refs, tx.reset, f, writes)
  <2>1. CASE done
    <3>1. Whole(c, whole, refs, f)
      <4>1. SUFFICES ASSUME file.ver = c.ver PROVE Covered(c, whole, refs, f, SizeIn(c))
        BY <1>6 DEF Whole
      <4>2. Covered(c, row, tx.refs, f, SizeIn(c))
        BY <4>1, <2>1, <1>1, ReadWholly
      <4> QED BY <4>2, <1>6, <1>16 DEF Covered
    <3>2. whole.ver <= writes
      BY <1>3, <1>6 DEF Following
    <3> QED BY <3>1, <3>2, <2>1 DEF SourcedAt
  <2>2. CASE ~done /\ tx.reset
    <3>1. new = lost /\ lost.complete = -1 /\ lost.ver <= writes
      BY <2>2, <1>4, <1>6, <1>15 DEF SourcedAt
    <3> HIDE DEF new, lost
    <3> QED BY <3>1 DEF SourcedAt, Whole
  <2>3. CASE ~done /\ ~tx.reset
    <3>1. new = row /\ row.ver <= writes
      BY <2>3, <1>4, <1>15 DEF SourcedAt
    <3>2. Whole(c, row, refs, f)
      BY <1>15, <1>16 DEF SourcedAt, Whole
    <3> HIDE DEF new, row
    <3> QED BY <3>1, <3>2, <2>3 DEF SourcedAt
  <2> QED BY <2>1, <2>2, <2>3
<1> HIDE DEF new, old
<1>19. Sourced(tx', BeingRead')
  <2>1. BeingRead' = {}
    BY <1>1 DEF BeingRead
  <2>2. \A g \in Files \ {f} : /\ tx'.files[g] = tx.files[g] /\ tx'.inv[g] = tx.inv[g]
                               /\ Keeps(tx.refs, tx'.refs, g)
    BY <1>11, <1>12, <1>13
  <2>3. /\ Resumes(disk[f], tx'.files[f], tx'.inv[f], tx'.refs, f)
        /\ SourcedAt(disk[f], tx'.files[f], tx'.inv[f], tx'.refs, tx'.reset, f, writes)
    BY <1>11, <1>13, <1>17, <1>18
  <2>4. \A g \in Files \ {f} : g \in {f} => g \in {}
    OBVIOUS
  <2>5. tx'.reset => tx.reset
    BY <1>13
  <2> HIDE DEF f
  <2>6. Sourced(tx', {})
    BY <2>2, <2>3, <2>4, <2>5, <1>2, <1>15, SourcedBut
  <2> QED BY <2>1, <2>6
<1>20. scan' \in Scan /\ scan'.seen = scan.seen /\ scan'.todo = scan.todo
  BY <1>1, <1>2 DEF Running, Scan
<1>21. Inventoried'
  <2>1. \A g \in Files : tx'.inv[g] # Nil <=> tx.inv[g] # Nil
    BY <1>4, <1>8, <1>11, <1>13
  <2> QED BY <2>1, <1>1, <1>20 DEF Running, Inventoried
<1>22. Sourced(tx, BeingRead)'
  BY <1>1, <1>19, SourcedNext
<1> QED BY <1>1, <1>13, <1>14, <1>20, <1>21, <1>22 DEF Running, Followed

\* The end of a scan: what is committed tells the truth of every file.
LEMMA FinishRuns ==
  ASSUME Disks, Running, Finish
  PROVE  /\ Running' /\ Settled(tx') /\ Sourced(tx', {})
         /\ FloorKept(tx, tx') /\ OnceKept(tx, tx')
<1> DEFINE gone == {f \in Files : tx.files[f] # Nil /\ f \notin scan.seen}
           unread == {f \in gone : tx.files[f].offset < tx.files[f].size}
           n == Cardinality(unread)
           u == Losses(tx, n)
           files == [f \in Files |-> IF f \in gone THEN Nil ELSE u.files[f]]
           t == [u EXCEPT !.files = files]
           joined == _Resolve(t)
           w == _SourceWindow(joined, scan.expired)
<1>1. /\ scan # Nil /\ file = Nil /\ file' = Nil /\ scan' = Nil /\ UNCHANGED <<disk, writes>>
      /\ tx' = [w EXCEPT !.next = scan.next, !.reset = FALSE]
  BY DEF Finish
<1>2. n \in Nat
  <2>1. unread \subseteq Files
    OBVIOUS
  <2> HIDE DEF unread
  <2> QED BY <2>1, FS_Subset, FS_CardinalityType
<1> HIDE DEF n
<1>3. Typed(u) /\ SameSources(tx, u) /\ SameBooks(tx, u) /\ u.floor = tx.floor
  BY <1>2, LossesEffect DEF Running
<1> HIDE DEF u
<1>4. /\ files \in [Files -> FileRow \cup {Nil}]
      /\ \A f \in Files : /\ files[f] # Nil => f \in scan.seen
                          /\ files[f] = Nil \/ files[f] = tx.files[f]
  BY <1>3 DEF Typed, SameSources
<1> HIDE DEF files
<1>5. /\ DOMAIN t = Columns /\ t.files = files /\ t.inv = tx.inv /\ t.refs = tx.refs
      /\ t.losses = u.losses /\ t.floor = tx.floor /\ t.reset = tx.reset /\ t.next = tx.next
      /\ SameBooks(tx, t)
  BY <1>3 DEF Typed, Columns, SameSources, SameBooks
<1> HIDE DEF t
<1>6. Typed(t)
  BY <1>3, <1>4, <1>5 DEF Typed, SameSources, SameBooks
<1>7. Typed(joined) /\ SameSources(t, joined) /\ joined.floor = tx.floor
      /\ \A past : Once(t, past) => Once(joined, past)
  BY <1>5, <1>6, ResolveEffect
<1> HIDE DEF joined
<1>8. Sourced(joined, {})
  <2>1. Sourced(tx, {})
    BY <1>1 DEF Running, BeingRead
  <2>2. ASSUME NEW f \in Files
        PROVE  /\ Resumes(disk[f], t.files[f], t.inv[f], t.refs, f)
               /\ SourcedAt(disk[f], t.files[f], t.inv[f], t.refs, t.reset, f, writes)
    <3>1. /\ Resumes(disk[f], tx.files[f], tx.inv[f], tx.refs, f)
          /\ SourcedAt(disk[f], tx.files[f], tx.inv[f], tx.refs, tx.reset, f, writes)
      BY <2>1 DEF Sourced
    <3>2. t.files[f] = Nil \/ t.files[f] = tx.files[f]
      BY <1>4, <1>5
    <3> QED BY <3>1, <3>2, <1>5 DEF Resumes, SourcedAt
  <2>3. Sourced(t, {})
    BY <2>2 DEF Sourced
  <2> QED BY <2>3, <1>7, SourcedSame
<1>9. joined.inv = tx.inv /\ joined.files = files
  BY <1>5, <1>7 DEF SameSources
<1>10. Listing(joined)
  BY <1>8 DEF Listing, Sourced, SourcedAt
<1>11. /\ Typed(w) /\ w.files = files /\ w.floor >= tx.floor /\ Sourced(w, {})
       /\ \A f \in Files : w.inv[f] # Nil <=> tx.inv[f] # Nil
  BY <1>7, <1>8, <1>9, WindowEffect, WindowSources
<1>12. ASSUME w.floor > tx.floor, NEW f \in Files, tx.inv[f] # Nil, NEW e \in Events, e \in ToSet(disk[f].lines)
       PROVE  e.at >= w.floor
  BY <1>12, <1>7, <1>9, <1>10, WindowFloor
<1>13. ASSUME NEW past, NEW more, Once(tx, past), past \subseteq more,
              \A id \in Ids : w.counted[id] > 0 /\ Unheld(w, tx, id) => id \in more
       PROVE  Once(w, more)
  <2>1. Once(t, past)
    BY <1>5, <1>13 DEF Once, Signs, SameBooks
  <2>2. Once(joined, past)
    BY <2>1, <1>7
  <2>3. w.counted = joined.counted
    BY <1>7, WindowEffect
  <2>4. \A id \in Ids : joined.counted[id] > 0 /\ Unheld(w, joined, id) => id \in more
    BY <2>3, <1>9, <1>13 DEF Unheld
  <2> QED BY <2>2, <2>4, <1>7, <1>10, <1>13, WindowOnce
<1> HIDE DEF w
<1>14. /\ DOMAIN tx' = Columns /\ tx'.files = files /\ tx'.inv = w.inv /\ tx'.refs = w.refs
       /\ tx'.losses = w.losses /\ tx'.floor = w.floor /\ ~tx'.reset /\ tx'.reset \in BOOLEAN
       /\ tx'.next = scan.next /\ SameBooks(w, tx')
  BY <1>1, <1>11 DEF Typed, Columns, SameBooks
<1>15. Typed(tx')
  <2>1. scan.next \in Files \cup {Nil}
    BY <1>1 DEF Running, Scan
  <2> QED BY <2>1, <1>11, <1>14 DEF Typed, SameBooks
<1>16. Sourced(tx', {})
  BY <1>11, <1>14 DEF Sourced, SourcedAt
<1>17. Settled(tx')
  <2>1. \A f \in Files : files[f] # Nil => tx.inv[f] # Nil
    BY <1>1, <1>4 DEF Running, Inventoried
  <2> QED BY <2>1, <1>11, <1>14 DEF Settled
<1>18. Sourced(tx, BeingRead)'
  BY <1>1, <1>16, SourcedNext DEF BeingRead
<1>19. FloorKept(tx, tx')
  BY <1>11, <1>12, <1>14 DEF FloorKept
<1>20. OnceKept(tx, tx')
  <2>1. SUFFICES ASSUME NEW past, NEW more, Once(tx, past), past \subseteq more,
                        \A id \in Ids : tx'.counted[id] > 0 /\ Unheld(tx', tx, id) => id \in more
                 PROVE  Once(tx', more)
    BY DEF OnceKept
  <2>2. \A id \in Ids : w.counted[id] > 0 /\ Unheld(w, tx, id) => id \in more
    BY <2>1, <1>14 DEF SameBooks, Unheld
  <2>3. Once(w, more)
    BY <2>1, <2>2, <1>13
  <2> QED BY <2>3, <1>14 DEF Once, Signs, SameBooks
<1>21. Inventoried' /\ Followed'
  BY <1>1 DEF Inventoried, Followed
<1> QED BY <1>1, <1>15, <1>16, <1>17, <1>18, <1>19, <1>20, <1>21 DEF Running

\* Nothing is known from new tables.
LEMMA NewTablesAre ==
  ASSUME Disks, NEW reset \in BOOLEAN, NEW replay
  PROVE  LET t == NewTables(reset, replay)
         IN  /\ Typed(t) /\ Sourced(t, {}) /\ Settled(t) /\ \A gone : Once(t, gone)
             /\ t.floor = 0 /\ t.reset = reset
<1> DEFINE t == NewTables(reset, replay)
           none == [f \in Files |-> Nil]
           losses == IF reset THEN 1 ELSE 0
           counted == [id \in Ids |-> 0]
<1>1. /\ DOMAIN t = Columns /\ t.rows = {} /\ t.dedup = {} /\ t.losses = losses
      /\ t.counted = counted /\ t.files = none /\ t.inv = none /\ t.refs = {} /\ t.floor = 0
      /\ t.next = Nil /\ t.reset = reset
  BY DEF NewTables, Columns
<1>2. losses \in 0 .. MaxLosses /\ counted \in [Ids -> Nat] /\ \A id \in Ids : counted[id] = 0
  OBVIOUS
<1>3. /\ none \in [Files -> FileRow \cup {Nil}] /\ none \in [Files -> InventoryRow \cup {Nil}]
      /\ \A f \in Files : none[f] = Nil
  OBVIOUS
<1> HIDE DEF t, losses, counted, none
<1>4. Typed(t)
  BY <1>1, <1>2, <1>3, FS_EmptySet DEF Typed
<1>5. Sourced(t, {}) /\ Settled(t)
  BY <1>1, <1>3 DEF Sourced, SourcedAt, Resumes, Whole, Settled
<1>6. ASSUME NEW gone PROVE Once(t, gone)
  BY <1>1, <1>2 DEF Once
<1> QED BY <1>1, <1>4, <1>5, <1>6 DEF t

----------------------------------------------------------------------------
(* The invariant of the sources, and what it implies.                       *)

\* The invariant.
SourceInv ==
  /\ Disks /\ Running
  /\ known \subseteq Chats /\ aborts \in 0 .. MaxAborts /\ forgotten \subseteq Ids
  /\ Typed(db) /\ Sourced(db, {}) /\ Settled(db)
  /\ scan = Nil => tx = db
  /\ db.floor <= tx.floor
  /\ Once(tx, forgotten) /\ Once(db, forgotten)

\* The parts of the invariant after a step make it.
LEMMA SourceInvNext ==
  /\ Disks' /\ Running'
  /\ known' \subseteq Chats /\ aborts' \in 0 .. MaxAborts /\ forgotten' \subseteq Ids
  /\ Typed(db)' /\ Sourced(db, {})' /\ Settled(db)'
  /\ scan' = Nil => tx' = db'
  /\ db'.floor <= tx'.floor
  /\ Once(tx, forgotten)' /\ Once(db, forgotten)'
  => SourceInv'
BY DEF SourceInv

\* A floor that rises in a step stays below what the listed files hold.
FloorStep ==
  \A f \in Present, e \in Events :
    tx'.floor > tx.floor /\ f \in scan.seen /\ e \in ToSet(disk[f].lines) => e.at >= tx'.floor

\* What a step makes of the history.
LEMMA ForgottenIs ==
  ASSUME Next, ~(db'.reset /\ ~db.reset)
  PROVE  /\ forgotten \subseteq forgotten' /\ (forgotten \subseteq Ids => forgotten' \subseteq Ids)
         /\ \A id \in Ids :
              /\ tx'.counted[id] > 0 /\ \A r \in tx'.rows : r.id # id
              /\ \A f \in Listed, e \in Events : e.id = id => e \notin ToSet(disk'[f].lines)
              => id \in forgotten'
<1>1. PICK files \in {Listed} :
        forgotten' = IF db'.reset /\ ~db.reset THEN {}
                     ELSE forgotten \cup {id \in Ids : tx'.counted[id] > 0 /\ ~Held(id, files)'}
  BY DEF Next
<1>2. forgotten' = forgotten \cup {id \in Ids : tx'.counted[id] > 0 /\ ~Held(id, files)'}
  BY <1>1
<1>3. ASSUME NEW id \in Ids, \A r \in tx'.rows : r.id # id,
             \A f \in files, e \in Events : e.id = id => e \notin ToSet(disk'[f].lines)
      PROVE  ~Held(id, files)'
  BY <1>3 DEF Held, RowIds
<1>4. files = Listed
  BY <1>1
<1> QED BY <1>2, <1>3, <1>4

\* A step of the reader that keeps its bargain.
LEMMA ReaderStep ==
  ASSUME SourceInv, Next, Running', FloorKept(tx, tx'), UNCHANGED <<disk, writes, feed, known>>,
         aborts' \in 0 .. MaxAborts,
         scan' # Nil => db' = db, scan' = Nil => db' = tx' /\ Settled(tx') /\ Sourced(tx', {}) /\ ~tx'.reset,
         \/ /\ tx'.rows \subseteq tx.rows /\ tx'.dedup = tx.dedup /\ tx'.counted = tx.counted
            /\ tx'.floor = tx.floor
         \/ scan # Nil /\ OnceKept(tx, tx')
  PROVE  SourceInv' /\ FloorStep
<1>1. ~(db'.reset /\ ~db.reset)
  OBVIOUS
<1>2. /\ forgotten \subseteq forgotten' /\ forgotten' \subseteq Ids
      /\ \A id \in Ids :
           /\ tx'.counted[id] > 0 /\ \A r \in tx'.rows : r.id # id
           /\ \A f \in Listed, e \in Events : e.id = id => e \notin ToSet(disk'[f].lines)
           => id \in forgotten'
  BY <1>1, ForgottenIs DEF SourceInv
<1>3. Once(tx, forgotten') /\ Once(db, forgotten')
  BY <1>2, OnceGrows DEF SourceInv
<1>4. Once(tx', forgotten')
  <2>1. CASE tx'.rows \subseteq tx.rows /\ tx'.dedup = tx.dedup /\ tx'.counted = tx.counted
    BY <2>1, <1>3, FewerRowsOnce
  <2>2. CASE scan # Nil /\ OnceKept(tx, tx')
    <3>1. CASE scan' = Nil /\ tx' = db
      BY <3>1, <1>3
    <3>2. CASE ~(scan' = Nil /\ tx' = db)
      <4>1. Listed = scan.seen
        BY <2>2, <3>2 DEF Listed, Idle
      <4>2. scan.seen = {f \in Files : tx.inv[f] # Nil}
        BY <2>2 DEF SourceInv, Running, Inventoried
      <4>3. \A id \in Ids : tx'.counted[id] > 0 /\ Unheld(tx', tx, id) => id \in forgotten'
        BY <4>1, <4>2, <1>2 DEF Unheld
      <4> QED BY <4>3, <2>2, <1>2 DEF OnceKept, SourceInv
    <3> QED BY <3>1, <3>2
  <2> QED BY <2>1, <2>2
<1>5. tx'.floor >= tx.floor /\ tx'.floor \in Nat /\ tx.floor \in Nat /\ db.floor \in Nat /\ db.floor <= tx.floor
  BY DEF FloorKept, SourceInv, Running, Typed
<1>6. Disks'
  BY DEF SourceInv, Disks
<1>10. known' \subseteq Chats
  BY DEF SourceInv
<1>7. ASSUME scan' # Nil PROVE SourceInv'
  <2>1. db.floor <= tx'.floor
    BY <1>5
  <2>2. Typed(db') /\ Sourced(db, {})' /\ Settled(db)' /\ db'.floor <= tx'.floor
    BY <2>1, <1>7 DEF SourceInv, Sourced, Settled
  <2>3. Once(tx, forgotten)' /\ Once(db, forgotten)'
    BY <1>3, <1>4, <1>7 DEF Once, Signs
  <2>4. Typed(db)' /\ Sourced(db, {})' /\ Settled(db)' /\ db'.floor <= tx'.floor
    BY <2>2 DEF Typed
  <2>5. Disks' /\ Running' /\ known' \subseteq Chats /\ aborts' \in 0 .. MaxAborts /\ forgotten' \subseteq Ids
    BY <1>2, <1>6, <1>10
  <2>6. scan' = Nil => tx' = db'
    BY <1>7
  <2> QED BY <2>3, <2>4, <2>5, <2>6, SourceInvNext
<1>8. ASSUME scan' = Nil PROVE SourceInv'
  <2>1. db' = tx' /\ Settled(tx') /\ Sourced(tx', {})
    BY <1>8
  <2>2. Typed(tx)'
    BY DEF Running
  <2>3. Typed(db)' /\ Sourced(db, {})' /\ Settled(db)' /\ db'.floor <= tx'.floor
    BY <2>1, <2>2, <1>5 DEF Sourced, Settled, Typed
  <2>4. Once(tx, forgotten)' /\ Once(db, forgotten)'
    BY <2>1, <1>4 DEF Once, Signs
  <2>5. Disks' /\ Running' /\ known' \subseteq Chats /\ aborts' \in 0 .. MaxAborts /\ forgotten' \subseteq Ids
    BY <1>2, <1>6, <1>10
  <2>6. scan' = Nil => tx' = db'
    BY <2>1
  <2> QED BY <2>3, <2>4, <2>5, <2>6, SourceInvNext
<1>9. FloorStep
  <2>1. scan # Nil \/ tx'.floor = tx.floor
    OBVIOUS
  <2>2. scan # Nil => scan.seen = {f \in Files : tx.inv[f] # Nil}
    BY DEF SourceInv, Running, Inventoried
  <2>3. ASSUME tx'.floor > tx.floor, NEW f \in Present, NEW e \in Events, f \in scan.seen,
               e \in ToSet(disk[f].lines)
        PROVE  e.at >= tx'.floor
    <3>1. f \in Files /\ tx.inv[f] # Nil
      BY <2>1, <2>2, <2>3, <1>5 DEF Present
    <3> QED BY <3>1, <2>3 DEF FloorKept
  <2> QED BY <2>3 DEF FloorStep
<1> QED BY <1>7, <1>8, <1>9

\* A scan that fails ends in what was committed.
LEMMA RollbackStep ==
  ASSUME SourceInv, Next, Rollback, aborts' \in 0 .. MaxAborts
  PROVE  SourceInv' /\ FloorStep
<1>1. tx' = db /\ db' = db /\ scan' = Nil /\ file' = Nil /\ UNCHANGED <<disk, feed, known, writes>>
  BY DEF Rollback
<1>2. forgotten \subseteq forgotten' /\ forgotten' \subseteq Ids
  BY <1>1, ForgottenIs DEF SourceInv
<1>3. Once(db, forgotten')
  BY <1>2, OnceGrows DEF SourceInv
<1>4. Disks'
  BY <1>1 DEF SourceInv, Disks
<1>5. db.floor \in Nat /\ tx.floor \in Nat /\ db.floor <= tx.floor
  BY DEF SourceInv, Running, Typed
<1>6. Running'
  <2>1. Sourced(tx, BeingRead)'
    <3>1. Sourced(tx', BeingRead')
      BY <1>1 DEF BeingRead, SourceInv
    <3> QED BY <3>1, <1>1, SourcedNext
  <2>2. Typed(tx)'
    BY <1>1 DEF SourceInv, Typed
  <2> QED BY <2>1, <2>2, <1>1 DEF Running, Inventoried, Followed
<1>7. Typed(db)' /\ Sourced(db, {})' /\ Settled(db)'
  BY <1>1 DEF SourceInv, Typed, Sourced, Settled
<1>8. Once(tx, forgotten)' /\ Once(db, forgotten)'
  BY <1>1, <1>3 DEF Once, Signs
<1>9. FloorStep
  BY <1>1, <1>5 DEF FloorStep
<1> QED BY <1>1, <1>2, <1>4, <1>5, <1>6, <1>7, <1>8, <1>9 DEF SourceInv

\* Tables that are lost start anew, and nothing is known of what they counted.
LEMMA LoseStep ==
  ASSUME SourceInv, Next, NEW now, LoseTables(now) PROVE SourceInv' /\ FloorStep
<1> DEFINE t == NewTables(TRUE, now)
<1>1. /\ tx' = t /\ db' = t /\ scan = Nil /\ scan' = Nil /\ file' = file /\ aborts' = aborts + 1 /\ aborts < MaxAborts
      /\ UNCHANGED <<disk, feed, known, writes>>
  BY DEF LoseTables, Idle
<1>2. /\ Typed(t) /\ Sourced(t, {}) /\ Settled(t) /\ \A gone : Once(t, gone)
      /\ t.floor = 0
  BY NewTablesAre DEF SourceInv
<1> HIDE DEF t
<1>3. file = Nil
  BY <1>1 DEF SourceInv, Running, Followed
<1>4. forgotten' \subseteq Ids
  BY DEF Next, SourceInv
<1>5. Disks'
  BY <1>1 DEF SourceInv, Disks
<1>6. Running'
  <2>1. Sourced(tx, BeingRead)'
    <3>1. Sourced(tx', BeingRead')
      BY <1>1, <1>2, <1>3 DEF BeingRead
    <3> QED BY <3>1, <1>1, SourcedNext
  <2>2. Typed(tx)'
    BY <1>1, <1>2 DEF Typed
  <2> QED BY <2>1, <2>2, <1>1, <1>3 DEF Running, Inventoried, Followed
<1>7. Typed(db)' /\ Sourced(db, {})' /\ Settled(db)'
  BY <1>1, <1>2 DEF Typed, Sourced, Settled
<1>8. Once(tx, forgotten)' /\ Once(db, forgotten)'
  BY <1>1, <1>2 DEF Once, Signs
<1>9. aborts' \in 0 .. MaxAborts
  BY <1>1 DEF SourceInv
<1>10. FloorStep
  <2>1. tx.floor \in Nat
    BY DEF SourceInv, Running, Typed
  <2> QED BY <2>1, <1>1, <1>2 DEF FloorStep
<1>11. known' \subseteq Chats /\ tx' = db' /\ db'.floor <= tx'.floor
  BY <1>1, <1>2 DEF SourceInv
<1> QED BY <1>4, <1>5, <1>6, <1>7, <1>8, <1>9, <1>10, <1>11 DEF SourceInv

\* The environment changes no table.
LEMMA OutsideStep ==
  ASSUME SourceInv, Next, UNCHANGED <<db, tx, scan, file, aborts>>, known' \subseteq Chats,
         \/ UNCHANGED <<disk, feed, writes>>
         \/ ~LateHeads /\ Exporter
  PROVE  SourceInv' /\ FloorStep
<1>1. forgotten \subseteq forgotten' /\ forgotten' \subseteq Ids
  BY ForgottenIs DEF SourceInv
<1>2. Once(tx, forgotten') /\ Once(db, forgotten')
  BY <1>1, OnceGrows DEF SourceInv
<1>3. Once(tx, forgotten)' /\ Once(db, forgotten)'
  BY <1>2 DEF Once, Signs
<1>4. FloorStep
  <2>1. tx.floor \in Nat
    BY DEF SourceInv, Running, Typed
  <2> QED BY <2>1 DEF FloorStep
<1>5. Disks' /\ Followed' /\ Sourced(tx, BeingRead)' /\ Sourced(db, {})'
  <2>1. CASE UNCHANGED <<disk, feed, writes>>
    BY <2>1 DEF SourceInv, Running, Disks, Followed, Sourced, BeingRead
  <2>2. CASE ~LateHeads /\ Exporter
    <3>1. PICK f \in Files : \E d : Writes(f, d)
      BY <2>2, ExporterWrites DEF SourceInv
    <3>2. PICK d : Writes(f, d)
      BY <3>1
    <3>3. Disks'
      BY <3>2, WritesDisks DEF SourceInv
    <3>4. Followed'
      BY <3>2, <2>2, WritesFollow DEF SourceInv, Running
    <3>5. Sourced(tx, BeingRead)'
      <4>1. \A g \in Files :
              /\ g \notin BeingRead => Resumes(disk'[g], tx.files[g], tx.inv[g], tx.refs, g)
              /\ SourcedAt(disk'[g], tx.files[g], tx.inv[g], tx.refs, tx.reset, g, writes')
        BY <3>2, WritesKeep DEF SourceInv, Running, Typed
      <4>2. BeingRead' = BeingRead
        BY DEF BeingRead
      <4> QED BY <4>1, <4>2 DEF Sourced
    <3>6. Sourced(db, {})'
      <4>1. \A g \in Files :
              /\ g \notin {} => Resumes(disk'[g], db.files[g], db.inv[g], db.refs, g)
              /\ SourcedAt(disk'[g], db.files[g], db.inv[g], db.refs, db.reset, g, writes')
        BY <3>2, WritesKeep DEF SourceInv, Typed
      <4> QED BY <4>1 DEF Sourced
    <3> QED BY <3>3, <3>4, <3>5, <3>6
  <2> QED BY <2>1, <2>2
<1>6. Typed(tx)' /\ Typed(db)' /\ Settled(db)' /\ Inventoried'
  BY DEF SourceInv, Running, Typed, Settled, Inventoried
<1> QED BY <1>1, <1>3, <1>4, <1>5, <1>6 DEF SourceInv, Running

\* Every step keeps the sources, the books and the floor.
LEMMA SourceStep ==
  ASSUME LinesFit, ~LateHeads, SourceInv, [Next]_vars PROVE SourceInv' /\ (FloorStep \/ UNCHANGED vars)
<1>1. CASE UNCHANGED vars
  <2> USE <1>1 DEF vars
  <2>1. Disks'
    BY DEF SourceInv, Disks
  <2>2. Typed(tx)' /\ Inventoried' /\ Followed'
    BY DEF SourceInv, Running, Typed, Inventoried, Followed
  <2>3. Sourced(tx, BeingRead)'
    BY DEF SourceInv, Running, Sourced, BeingRead
  <2>4. Running'
    BY <2>2, <2>3 DEF SourceInv, Running
  <2>5. Typed(db)' /\ Settled(db)'
    BY DEF SourceInv, Typed, Settled
  <2>6. Sourced(db, {})'
    BY DEF SourceInv, Sourced
  <2>7. Once(tx, forgotten)' /\ Once(db, forgotten)'
    BY DEF SourceInv, Once, Signs
  <2>8. /\ known' \subseteq Chats /\ aborts' \in 0 .. MaxAborts /\ forgotten' \subseteq Ids
        /\ scan' = Nil => tx' = db'
        /\ db'.floor <= tx'.floor
    BY DEF SourceInv
  <2>9. SourceInv'
    BY <2>1, <2>4, <2>5, <2>6, <2>7, <2>8, SourceInvNext
  <2> QED BY <2>9
<1>2. CASE Next
  <2>1. Disks /\ Running /\ aborts \in 0 .. MaxAborts /\ Typed(tx)
    BY DEF SourceInv, Running
  <2>2. ASSUME NEW n \in 0 .. Cardinality(tx.rows), Begin(OldestRows(tx, n)) PROVE SourceInv' /\ FloorStep
    <3>1. OldestRows(tx, n) \in SUBSET Ids
      <4>1. \A r \in tx.rows : r.id \in Ids
        BY <2>1 DEF Typed
      <4>2. \A r \in FirstRows(tx.rows, n) : r \in tx.rows
        BY DEF FirstRows
      <4> QED BY <4>1, <4>2 DEF OldestRows
    <3>2. Settled(tx)
      BY <2>2 DEF Begin, Idle, SourceInv
    <3>3. /\ Running' /\ tx'.floor = tx.floor
          /\ tx'.rows \subseteq tx.rows /\ tx'.dedup = tx.dedup /\ tx'.counted = tx.counted
      BY <3>1, <3>2, <2>1, <2>2, BeginRuns
    <3>4. /\ UNCHANGED <<disk, feed, known, db, writes, aborts>>
          /\ scan' = [todo |-> Present, order |-> Order(tx.next), seen |-> Present, rows |-> 0,
                      spent |-> FALSE, next |-> Nil, expired |-> OldestRows(tx, n)]
      BY <2>2 DEF Begin
    <3>5. scan' # Nil
      <4>1. scan' \in Scan
        BY <3>1, <3>4, <2>1, OrderIs DEF Scan, Present
      <4> QED BY <4>1, NilAssumption
    <3>6. FloorKept(tx, tx')
      BY <3>3, <2>1, BooksKept
    <3> QED BY <3>3, <3>4, <3>5, <3>6, <2>1, <1>2, ReaderStep
  <2>3. ASSUME NEW f \in Files, Postpone(f) PROVE SourceInv' /\ FloorStep
    <3>1. Running' /\ SameBooks(tx, tx') /\ tx'.floor = tx.floor
      BY <2>1, <2>3, PostponeRuns
    <3>2. UNCHANGED <<disk, feed, known, db, writes, aborts>> /\ scan # Nil
          /\ scan' = [scan EXCEPT !.todo = @ \ {f}, !.next = IF @ = Nil THEN f ELSE @]
      BY <2>3 DEF Postpone
    <3>3. scan' # Nil
      <4>1. scan' \in Scan
        BY <3>2, <2>1 DEF Running, Scan
      <4> QED BY <4>1, NilAssumption
    <3>4. FloorKept(tx, tx')
      BY <3>1, <2>1, BooksKept DEF SameBooks
    <3> QED BY <3>1, <3>2, <3>3, <3>4, <2>1, <1>2, ReaderStep DEF SameBooks
  <2>4. ASSUME NEW f \in Files, NEW short \in BOOLEAN, NEW late \in BOOLEAN, Open(f, short, late)
        PROVE  SourceInv' /\ FloorStep
    <3>1. Running' /\ SameBooks(tx, tx') /\ tx'.floor = tx.floor
      BY <2>1, <2>4, OpenRuns
    <3>2. UNCHANGED <<disk, feed, known, db, writes, aborts>> /\ scan # Nil
          /\ scan' = [scan EXCEPT !.todo = @ \ {f}, !.spent = @ \/ short \/ late]
      BY <2>4 DEF Open
    <3>3. scan' # Nil
      <4>1. scan' \in Scan
        BY <3>2, <2>1 DEF Running, Scan
      <4> QED BY <4>1, NilAssumption
    <3>4. FloorKept(tx, tx')
      BY <3>1, <2>1, BooksKept DEF SameBooks
    <3> QED BY <3>1, <3>2, <3>3, <3>4, <2>1, <1>2, ReaderStep DEF SameBooks
  <2>5. ASSUME NEW late \in BOOLEAN, Discard(late) PROVE SourceInv' /\ FloorStep
    <3>1. Running' /\ tx' = tx
      BY <2>1, <2>5, DiscardRuns
    <3>2. UNCHANGED <<disk, feed, known, db, writes, aborts>> /\ scan # Nil
          /\ scan' = [scan EXCEPT !.spent = late]
      BY <2>5 DEF Discard, AtLine, Reading
    <3>3. scan' # Nil
      <4>1. scan' \in Scan
        BY <3>2, <2>1 DEF Running, Scan
      <4> QED BY <4>1, NilAssumption
    <3>4. FloorKept(tx, tx')
      BY <3>1, <2>1, BooksKept
    <3> QED BY <3>1, <3>2, <3>3, <3>4, <2>1, <1>2, ReaderStep
  <2>6. ASSUME NEW late \in BOOLEAN, Read(late) PROVE SourceInv' /\ FloorStep
    <3>1. Running' /\ FloorKept(tx, tx') /\ OnceKept(tx, tx')
      BY <2>1, <2>6, ReadRuns
    <3>2. UNCHANGED <<disk, feed, known, db, writes, aborts>> /\ scan # Nil
          /\ scan' = [scan EXCEPT !.rows = @ + 1, !.spent = late]
      BY <2>6 DEF Read, AtLine, Reading
    <3>3. scan' # Nil
      <4> DEFINE n == scan.rows + 1
      <4>1. scan \in Scan
        BY <3>2, <2>1 DEF Running
      <4>2. n \in Nat
        BY <4>1 DEF Scan
      <4>3. scan' = [scan EXCEPT !.rows = n, !.spent = late]
        BY <3>2
      <4> HIDE DEF n
      <4>4. scan' \in Scan
        BY <4>1, <4>2, <4>3 DEF Scan
      <4> QED BY <4>4, NilAssumption
    <3> QED BY <3>1, <3>2, <3>3, <2>1, <1>2, ReaderStep
  <2>7. CASE Close
    <3>1. Running' /\ SameBooks(tx, tx') /\ tx'.floor = tx.floor
      BY <2>1, <2>7, CloseRuns
    <3>2. UNCHANGED <<disk, feed, known, db, writes, aborts>> /\ scan # Nil /\ file \in OpenFile
          /\ \E n \in {file.id, scan.next} : scan' = [scan EXCEPT !.next = n]
      BY <2>1, <2>7 DEF Close, Reading, Running
    <3>3. scan' # Nil
      <4>1. scan' \in Scan
        BY <3>2, <2>1 DEF Running, Scan, OpenFile
      <4> QED BY <4>1, NilAssumption
    <3>4. FloorKept(tx, tx')
      BY <3>1, <2>1, BooksKept DEF SameBooks
    <3> QED BY <3>1, <3>2, <3>3, <3>4, <2>1, <1>2, ReaderStep DEF SameBooks
  <2>8. CASE Finish
    <3>1. /\ Running' /\ Settled(tx') /\ Sourced(tx', {})
          /\ FloorKept(tx, tx') /\ OnceKept(tx, tx')
      BY <2>1, <2>8, FinishRuns
    <3>2. /\ scan # Nil /\ scan' = Nil /\ db' = tx' /\ UNCHANGED <<disk, feed, known, writes, aborts>>
      BY <2>8 DEF Finish
    <3>3. ~tx'.reset
      <4> DEFINE gone == {f \in Files : tx.files[f] # Nil /\ f \notin scan.seen}
                 unread == {f \in gone : tx.files[f].offset < tx.files[f].size}
                 t == [Losses(tx, Cardinality(unread)) EXCEPT
                         !.files = [f \in Files |-> IF f \in gone THEN Nil ELSE @[f]]]
                 joined == _Resolve(t)
                 w == _SourceWindow(joined, scan.expired)
      <4>1. tx' = [w EXCEPT !.next = scan.next, !.reset = FALSE]
        BY <2>8 DEF Finish
      <4> HIDE DEF w
      <4>2. DOMAIN tx' = Columns
        BY <3>1 DEF Running, Typed
      <4> QED BY <4>1, <4>2 DEF Columns
    <3> QED BY <3>1, <3>2, <3>3, <2>1, <1>2, ReaderStep
  <2>9. CASE Fail
    BY <2>1, <2>9, <1>2, RollbackStep DEF Fail
  <2>10. CASE Abort
    <3>1. Rollback /\ aborts' \in 0 .. MaxAborts
      BY <2>1, <2>10 DEF Abort
    <3> QED BY <3>1, <1>2, RollbackStep
  <2>11. ASSUME NEW now \in Times, LoseTables(now) PROVE SourceInv' /\ FloorStep
    BY <2>11, <1>2, LoseStep
  <2>12. CASE Exporter
    <3>1. UNCHANGED <<known, db, tx, scan, file, aborts>>
      BY <2>12 DEF Exporter, AppendLine, AppendHalf, Rotate, Evict, Write
    <3> QED BY <3>1, <2>12, <1>2, OutsideStep DEF SourceInv
  <2>13. ASSUME NEW c \in Chats, Publish(c) PROVE SourceInv' /\ FloorStep
    <3>1. UNCHANGED <<disk, feed, writes, db, tx, scan, file, aborts>> /\ known' \subseteq Chats
      BY <2>13 DEF Publish, SourceInv
    <3> QED BY <3>1, <1>2, OutsideStep
  <2>14. CASE Scanner
    BY <2>14, <2>2, <2>3, <2>4, <2>5, <2>6, <2>7, <2>8, <2>9 DEF Scanner
  <2> QED BY <1>2, <2>10, <2>11, <2>12, <2>13, <2>14 DEF Next
<1> QED BY <1>1, <1>2

\* The first state.
LEMMA SourceInit == ASSUME Init PROVE SourceInv
<1> DEFINE t == NewTables(FALSE, 0)
<1>1. PICK s \in Starts : disk = s.disk /\ feed = s.feed
  BY DEF Init
<1>2. /\ known = {} /\ tx = t /\ db = t /\ scan = Nil /\ file = Nil /\ writes = 0 /\ aborts = 0 /\ forgotten = {}
  BY DEF Init
<1>3. Disks
  <2>1. /\ disk \in [Files -> Content] /\ feed \in Seq(Events \cup {Bad})
        /\ \A f \in Files :
             /\ disk[f].ver = 0
             /\ disk[f].lines # <<>> => disk[f].lines[1] \in Events \ disk[f].before
             /\ disk[f].tail => disk[f].lines # <<>>
    BY <1>1, StartAssumption
  <2> QED BY <2>1, <1>2 DEF Disks, Sound
<1>4. /\ Typed(t) /\ Sourced(t, {}) /\ Settled(t) /\ \A gone : Once(t, gone)
      /\ t.floor = 0
  BY <1>3, NewTablesAre
<1> HIDE DEF t
<1>5. Running
  BY <1>2, <1>4 DEF Running, BeingRead, Inventoried, Followed
<1> QED BY <1>2, <1>3, <1>4, <1>5 DEF SourceInv

----------------------------------------------------------------------------
(* The theorems.                                                            *)

\* However the exporter writes, rotates and evicts its files, and however often scans
\* fail and their files are read again, an event whose lines fit the read budget is
\* added to the totals once, unless a time came when neither a row nor any file held
\* it (_event, _delete, _prune, _resolve).
THEOREM EventsAreCountedOnce == ASSUME LinesFit, ~LateHeads PROVE Spec => []CountedOnce
<1>1. Init => SourceInv
  BY SourceInit
<1>2. SourceInv /\ [Next]_vars => SourceInv'
  BY SourceStep
<1>3. SourceInv => CountedOnce
  <2>1. SourceInv => TypeOK
    <3>1. SUFFICES ASSUME SourceInv PROVE TypeOK
      OBVIOUS
    <3>2. /\ disk \in [Files -> Content] /\ feed \in Seq(Events \cup {Bad}) /\ known \subseteq Chats
          /\ scan \in Scan \cup {Nil} /\ file \in OpenFile \cup {Nil} /\ forgotten \subseteq Ids
          /\ writes \in 0 .. MaxWrites /\ aborts \in 0 .. MaxAborts
      BY <3>1 DEF SourceInv, Running, Disks
    <3>3. \A t \in {db, tx} : Typed(t)
      BY <3>1 DEF SourceInv, Running
    <3> QED BY <3>2, <3>3 DEF Typed, TypeOK
  <2>2. ASSUME SourceInv, NEW id \in Ids, tx.counted[id] > 1 PROVE id \in forgotten
    <3>1. CASE id \notin forgotten
      <4>1. tx.counted[id] <= 1
        BY <2>2, <3>1 DEF SourceInv, Once
      <4>2. tx.counted[id] \in Nat
        BY <2>2 DEF SourceInv, Running, Typed
      <4> QED BY <2>2, <4>1, <4>2
    <3> QED BY <3>1
  <2> QED BY <2>1, <2>2 DEF CountedOnce
<1> QED BY <1>1, <1>2, <1>3, PTL DEF Spec

\* The reader raises the floor of its inventory to no more than the oldest event in the
\* files that the round has listed: nothing that is still in them is taken to be
\* too old when it is read again ("Verify a whole inventory round before
\* advancing its floor").
THEOREM FloorIsBelowRetained == ASSUME LinesFit, ~LateHeads PROVE Spec => FloorBelowRetained
<1>1. Init => SourceInv
  BY SourceInit
<1>2. SourceInv /\ [Next]_vars => SourceInv'
  BY SourceStep
<1>3. SourceInv /\ [Next]_vars => [FloorStep]_vars
  BY SourceStep
<1>4. Spec => [][FloorStep]_vars
  BY <1>1, <1>2, <1>3, PTL DEF Spec
<1> QED BY <1>4 DEF FloorBelowRetained, FloorStep

=============================================================================
