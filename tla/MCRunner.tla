------------------------------- MODULE MCRunner -------------------------------
(***************************************************************************)
(* An instance of Runner for TLC.                                           *)
(***************************************************************************)
EXTENDS Runner, TLC

\* Two mishaps in the run of one job, one in that of two.
Mishaps == 1 :> 2 @@ 2 :> 1
=============================================================================
