-------------------------- MODULE MCLedgerRefinement --------------------------
(***************************************************************************)
(* An instance of LedgerRefinement for TLC.                                 *)
(***************************************************************************)
EXTENDS LedgerRefinement

CONSTANTS d1, d2, s1, c1

\* The connection c1 of the first registration generation.
FirstSource == <<1, c1>>

\* One turn with one completion and one retry notice.
OneEach ==
  {[kind |-> "completion", event |-> "e1", stream |-> s1, body |-> "x"],
   [kind |-> "retry", event |-> "e2", stream |-> s1, body |-> "x"]}
=============================================================================
