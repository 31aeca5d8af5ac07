--------------------------- MODULE LedgerRefinement ---------------------------
(***************************************************************************)
(* Ledger implements SourceLedger, for any source and any dispatch.         *)
(***************************************************************************)
EXTENDS Ledger

CONSTANTS
  Observed,   \* the dispatch that is watched
  Feed        \* the source that is watched

ASSUME WatchedAssumption == Observed \in Dispatches /\ Feed \in Sources

\* The bindings of the watched dispatch on the watched source.
Links == {b \in Bound : bindings[b].dispatch = Observed /\ bindings[b].source = Feed}

\* The ledger as the adapter of that source and the reader of that dispatch see it.
Seen == INSTANCE SourceLedger WITH
  link <- conn[Feed],
  binding <- IF Links = {} THEN "none"
             ELSE IF Links \cap Active # {} THEN "active" ELSE "ended",
  terminal <- lifecycle[Observed] \in TerminalStates,
  exact <- coverage[Observed] = OBSERVED,
  gap <- knownGap

\* Coverage follows the source: in every step of every writer the claim of exact
\* coverage changes only as SourceLedger allows, so that whoever reports a gap or
\* an unexpected disconnect can rely on the claim being dropped, and a known gap
\* keeps any dispatch from claiming it anew.
ImplementsSourceLedger == Seen!SpecLedger

=============================================================================
