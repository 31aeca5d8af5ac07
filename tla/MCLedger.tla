------------------------------- MODULE MCLedger -------------------------------
(***************************************************************************)
(* Instances of Ledger for TLC.                                             *)
(***************************************************************************)
EXTENDS Ledger, TLC

CONSTANTS d1, d2, s1, s2

Event(kind, event, stream, body) ==
  [kind |-> kind, event |-> event, stream |-> stream, body |-> body]

\* Two turns on which one response id is seen with two different usages, a retry
\* notice and a tool notice.
Delivered ==
  {Event("completion", "e1", s1, "x"), Event("completion", "e1", s1, "y"),
   Event("completion", "e1", s2, "x"), Event("retry", "e2", s1, "x"),
   Event("tool_event", "e3", s1, "x")}

\* Ids of dispatches, bindings and connections are names the ledger compares.
Names == Permutations(Dispatches) \cup Permutations(BindingIds) \cup Permutations(Conns)

----------------------------------------------------------------------------
(* The whole instance is out of reach; each of three small ones is not.  The *)
(* states within one of them are explored, and every invariant is checked on *)
(* these and on the states one step beyond.                                  *)

Seen == pending \cup {q.payload : q \in dedup}
UsedSources == {src \in Sources : conn[src] # "absent"}
UsedStreams == {r.event.stream : r \in Seen} \cup {bindings[b].stream : b \in Bound}
KeySafe == key /\ ~recovery
Brief == \A d \in Known : lifecycle[d] \in {"submitted", "completed"}
Bodies == {r.event.body : r \in Seen}
Notices == {r.event.kind : r \in Seen}

\* Two turns of two dispatches on one connection.
TwoStreams ==
  /\ KeySafe /\ Brief /\ Cardinality(UsedSources) <= 1
  /\ "y" \notin Bodies /\ "tool_event" \notin Notices

\* One turn of two dispatches on two connections.
TwoConnections ==
  /\ KeySafe /\ Brief /\ s2 \notin UsedStreams /\ Cardinality(pending) <= 1
  /\ "y" \notin Bodies /\ "tool_event" \notin Notices

\* One dispatch, with every receipt and with a key file that comes and goes.
OneDispatch ==
  /\ Cardinality(UsedSources) <= 1 /\ s2 \notin UsedStreams /\ Cardinality(pending) <= 1
  /\ Cardinality(Known) <= 1 /\ Cardinality(Bound) <= 1 /\ "retry" \notin Notices

Small == TwoStreams \/ TwoConnections \/ OneDispatch
=============================================================================
