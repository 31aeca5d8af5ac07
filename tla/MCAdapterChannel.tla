--------------------------- MODULE MCAdapterChannel ---------------------------
(***************************************************************************)
(* Instances of AdapterChannel for TLC.                                     *)
(***************************************************************************)
EXTENDS AdapterChannel

Owner(unasked, marks, impatient) ==
  [unasked |-> unasked, marks |-> marks, impatient |-> impatient]

\* The host: its observer has requested the disconnect before it closes the adapter, or
\* has not, as in the cleanup of a host that failed to open; its close marks the
\* disconnect either way, and may run out of time.
Host == Owner(TRUE, TRUE, TRUE)
Closing == {Host}

\* A host that always requests the disconnect first and has time enough.
Asking == {Owner(FALSE, TRUE, FALSE)}
=============================================================================
