---------------------------- MODULE MCBobCollector ----------------------------
(***************************************************************************)
(* An instance of BobCollector for TLC.                                     *)
(***************************************************************************)
EXTENDS BobCollector

CONSTANTS a, b, x

Row(id, body) == [id |-> id, body |-> body]

\* Two messages, one that is refused, and one behind an identity that is no hash.
Chats == {<<Row(a, x), Row(b, x)>>, <<Row(a, Bad), Nil>>, <<Row(Odd, x), Row(a, x)>>}
=============================================================================
