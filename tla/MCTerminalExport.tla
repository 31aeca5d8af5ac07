--------------------------- MODULE MCTerminalExport ---------------------------
(***************************************************************************)
(* Instances of TerminalExport for TLC.                                     *)
(***************************************************************************)
EXTENDS TerminalExport, TLC

\* Dispatches and exporters are told apart by name only.
Names == Permutations(Dispatches) \cup Permutations(Exporters)
=============================================================================
