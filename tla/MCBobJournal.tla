----------------------------- MODULE MCBobJournal -----------------------------
(***************************************************************************)
(* An instance of BobJournal for TLC.                                       *)
(***************************************************************************)
EXTENDS BobJournal

CONSTANTS f1, f2

Event(id, at, chat) == [id |-> id, at |-> at, chat |-> chat]
a == Event("a", 2, "p")
b == Event("b", 1, "q")
z == Event("a", 1, "p")

Generations == {a, b, z}

NoFile == [here |-> FALSE, lines |-> <<>>, tail |-> FALSE, before |-> {}, ver |-> 0, born |-> 0]
Holding(lines) == [NoFile EXCEPT !.here = TRUE, !.lines = lines]

\* One file with two events, the later first, and an exporter that writes one of
\* them again, a record that is refused, and a conflicting one.
Journals ==
  {[disk |-> (f1 :> Holding(<<a, b>>)) @@ (f2 :> NoFile), feed |-> <<z, a, Bad>>],
   [disk |-> (f1 :> Holding(<<a>>)) @@ (f2 :> NoFile), feed |-> <<b, a>>]}

\* Four events in the order of their time, of which a scan of two records leaves
\* one unread, and an older one that the exporter writes in place of the first.
w == Event("w", 1, "p")
x == Event("x", 3, "p")
y == Event("y", 4, "p")
c == Event("c", 5, "p")

Overwritings == {w, x, y, c}
InPlace ==
  {[disk |-> (f1 :> Holding(<<x, y>>)) @@ (f2 :> Holding(<<c>>)), feed |-> <<w>>]}

\* A file that has no line yet; it shows what late first lines do (LateHeads).
Emptied ==
  {[disk |-> (f1 :> Holding(<<>>)) @@ (f2 :> NoFile), feed |-> <<x, w>>]}
=============================================================================
