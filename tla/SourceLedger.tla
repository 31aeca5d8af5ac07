----------------------------- MODULE SourceLedger -----------------------------
(***************************************************************************)
(* What the ledger promises about one source and one dispatch: how the      *)
(* dispatch's claim of exact coverage follows the source's connection, its  *)
(* binding and the gaps the ledger is told of.  Ledger implements this      *)
(* specification (LedgerRefinement); AdapterChannel uses its actions as the  *)
(* calls an adapter makes.                                                  *)
(***************************************************************************)

VARIABLES
  link,      \* the connection: "absent", "connected" or "disconnected"
  binding,   \* the dispatch's binding on this source: "none", "active", "ended"
  terminal,  \* the dispatch reached a terminal lifecycle state
  exact,     \* its coverage is OBSERVED_NO_KNOWN_GAP
  gap        \* the project knows of a gap

ledgerVars == <<link, binding, terminal, exact, gap>>

\* Exact coverage is claimed anew only while no gap is known.
Claim(claimed) == exact' = claimed /\ (claimed => exact \/ ~gap)

\* A known gap is never forgotten.
Learn(known) == gap' = known /\ (gap => known)

Register ==
  /\ link = "absent"
  /\ link' = "connected"
  /\ UNCHANGED <<binding, terminal, exact, gap>>

\* bind_runtime: the dispatch owns a stream of the connected source.
Bind ==
  /\ link = "connected"
  /\ binding' = "active"
  /\ \E claimed \in BOOLEAN : Claim(claimed)
  /\ UNCHANGED <<link, terminal, gap>>

\* record_lifecycle with a terminal state, whose clock may have a gap.
Finish ==
  /\ ~terminal
  /\ terminal' = TRUE
  /\ \/ UNCHANGED <<exact, gap>>
     \/ exact' = FALSE /\ gap' = TRUE
  /\ UNCHANGED <<link, binding>>

\* mark_source_disconnected: an expected disconnect spares finished work, an
\* unexpected one gaps whatever is in progress, bound to the source or not.
Disconnect(expected) ==
  /\ link = "connected"
  /\ link' = "disconnected"
  /\ binding' = IF binding = "active" THEN "ended" ELSE binding
  /\ exact' = /\ exact
              /\ binding = "active" => expected /\ terminal
              /\ ~expected => terminal
  /\ \E known \in BOOLEAN : Learn(known) /\ (exact # exact' => known)
  /\ UNCHANGED terminal

\* A gap reaches work in progress, and finished work that is still bound.
HealthGap ==
  /\ gap' = TRUE
  /\ exact' = (exact /\ terminal /\ binding # "active")
  /\ UNCHANGED <<link, binding, terminal>>

\* mark_source_incompatible: schema drift reaches every dispatch.
Incompatible ==
  /\ link = "connected"
  /\ gap' = TRUE
  /\ exact' = FALSE
  /\ UNCHANGED <<link, binding, terminal>>

\* A new registration generation ends the connections and bindings of the old one.
Retire ==
  /\ link = "connected"
  /\ link' = "disconnected"
  /\ binding' = IF binding = "active" THEN "ended" ELSE binding
  /\ exact' \in {FALSE, exact /\ binding # "active"}
  /\ \E known \in BOOLEAN : Learn(known) /\ (exact # exact' => known)
  /\ UNCHANGED terminal

\* Other sources and components bind the dispatch and report gaps too.
Elsewhere ==
  /\ \E claimed \in BOOLEAN : Claim(claimed)
  /\ \E known \in BOOLEAN : Learn(known)
  /\ UNCHANGED <<link, binding, terminal>>

InitLedger ==
  /\ link = "absent"
  /\ binding = "none"
  /\ terminal = FALSE
  /\ exact = FALSE
  /\ gap = FALSE

NextLedger ==
  \/ Register \/ Bind \/ Finish \/ HealthGap \/ Incompatible \/ Retire \/ Elsewhere
  \/ \E expected \in BOOLEAN : Disconnect(expected)

SpecLedger == InitLedger /\ [][NextLedger]_ledgerVars

=============================================================================
