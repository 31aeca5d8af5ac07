------------------------ MODULE LedgerRefinementProofs ------------------------
(***************************************************************************)
(* Ledger implements SourceLedger for every source and every dispatch, with  *)
(* any number of other sources, dispatches, bindings and generations.        *)
(***************************************************************************)
EXTENDS LedgerRefinement, LedgerProofs

\* What SourceLedger sees of the binding, and of the claim.
Link == IF Links = {} THEN "none" ELSE IF Links \cap Active # {} THEN "active" ELSE "ended"
Exact == coverage[Observed] = OBSERVED
Terminal == lifecycle[Observed] \in TerminalStates

\* The step is one of SourceLedger, or changes nothing it sees.
Implements == [Seen!NextLedger]_(Seen!ledgerVars)

\* Whatever happens elsewhere is allowed if the source, its bindings and the end of
\* the dispatch stay as they are, and exact coverage is only claimed without a gap.
LEMMA ElsewhereStep ==
  ASSUME conn'[Feed] = conn[Feed], Link' = Link, Terminal' = Terminal,
         Exact' => Exact \/ ~knownGap, knownGap => knownGap', knownGap' \in BOOLEAN
  PROVE  Implements
PROOF
<1>1. Seen!Elsewhere
  <2>1. Exact' \in BOOLEAN
    BY DEF Exact
  <2>2. Seen!Claim(Exact')
    BY DEF Seen!Claim, Exact
  <2>3. Seen!Learn(knownGap')
    BY DEF Seen!Learn
  <2> QED
    BY <2>1, <2>2, <2>3 DEF Seen!Elsewhere, Link, Terminal
<1> QED BY <1>1 DEF Implements, Seen!NextLedger

\* Bindings that stay as they are keep the link.
LEMMA LinkFrame ==
  ASSUME bindings' = bindings
  PROVE  Link' = Link
  BY DEF Link, Links, Active, Bound

\* Ending bindings ends the link if it ends one of its active bindings.
LEMMA LinkEnded ==
  ASSUME TypeOK, NEW B \in SUBSET Active, NEW s \in {"closed", "revoked"},
         EndBindings(B, s)
  PROVE  /\ Links \cap B = {} => Link' = Link
         /\ Links \cap Active \subseteq B =>
              Link' = IF Link = "active" THEN "ended" ELSE Link
PROOF
<1>1. Links' = Links /\ Active' = Active \ B
  BY EndBindingsFacts DEF Links
<1> QED BY <1>1 DEF Link

\* The watched dispatch is among those an ended binding of the link gaps.
LEMMA LinkTargets ==
  ASSUME NEW B \in SUBSET Active, \A b \in Active : bindings[b].source = Feed => b \in B
  PROVE  Link = "active" => Observed \in DispatchesOf(B)
  BY DEF Link, Links, DispatchesOf

\* A raised level.
LEMMA ExactRaised ==
  ASSUME TypeOK, NEW S, NEW level \in {KNOWN_GAP, CONFLICT},
         coverage' = Raised(coverage, S, level)
  PROVE  Exact' <=> (Exact /\ Observed \notin S)
PROOF
<1>1. /\ Raised(coverage, S, level)[Observed] = OBSERVED
            => coverage[Observed] = OBSERVED /\ Observed \notin S
      /\ Observed \notin S => Raised(coverage, S, level)[Observed] = coverage[Observed]
  BY RaisedFacts, WatchedAssumption DEF TypeOK
<1> QED BY <1>1 DEF Exact

\* The old generation's connections end: Retire if the watched source is one.
LEMMA RetireStep ==
  ASSUME TypeOK, BindingsLive, Retire, lifecycle' = lifecycle, TypeOK'
  PROVE  Implements
PROOF
<1> DEFINE ended == {b \in Active : bindings[b].source[1] = generation}
           affected == DispatchesOf(ended)
<1>1. /\ conn' = [src \in Sources |-> IF src[1] = generation /\ Connected(src)
                                      THEN "disconnected" ELSE conn[src]]
      /\ EndBindings(ended, "revoked")
      /\ knownGap' = (knownGap \/ affected # {})
      /\ coverage' = Raised(coverage, affected, KNOWN_GAP)
  BY DEF Retire
<1>2. ended = Active
  BY DEF BindingsLive, Active
<1>3. Terminal' = Terminal
  BY DEF Terminal
<1>4. Exact' <=> (Exact /\ Observed \notin affected)
  <2> HIDE DEF affected
  <2> QED BY <1>1, ExactRaised
<1>5. knownGap \in BOOLEAN /\ knownGap' \in BOOLEAN
  BY DEF TypeOK
<1>6. conn'[Feed] = IF Feed[1] = generation /\ Connected(Feed)
                    THEN "disconnected" ELSE conn[Feed]
  BY <1>1, WatchedAssumption
<1>7. CASE Feed[1] = generation /\ Connected(Feed)
  <2>1. Link' = IF Link = "active" THEN "ended" ELSE Link
    BY <1>1, <1>2, LinkEnded
  <2>2. Link = "active" => Observed \in affected
    BY <1>2, LinkTargets
  <2>3. Exact' \in {FALSE, Exact /\ Link # "active"}
    BY <1>4, <2>2
  <2>4. Exact # Exact' => knownGap'
    BY <1>1, <1>4, <1>5 DEF Exact
  <2>5. knownGap => knownGap'
    BY <1>1, <1>5
  <2> HIDE DEF affected, ended
  <2>6. Seen!Retire
    BY <1>3, <1>5, <1>6, <1>7, <2>1, <2>3, <2>4, <2>5
    DEF Seen!Retire, Seen!Learn, Link, Exact, Terminal, Connected
  <2> QED BY <2>6 DEF Implements, Seen!NextLedger
<1>8. CASE ~(Feed[1] = generation /\ Connected(Feed))
  <2>1. Links \cap ended = {}
    BY <1>8 DEF BindingsLive, Links, Active
  <2>2. Link' = Link
    BY <1>1, <2>1, LinkEnded
  <2>3. knownGap => knownGap'
    BY <1>1, <1>5
  <2> QED BY <1>3, <1>4, <1>5, <1>6, <1>8, <2>2, <2>3, ElsewhereStep
<1> QED BY <1>7, <1>8

\* Opening the ledger ends every connection left over: like a retirement, if the
\* watched source is one.
LEMMA OpenStep ==
  ASSUME TypeOK, BindingsLive, OpenWriter, TypeOK'
  PROVE  Implements
PROOF
<1> DEFINE left == {src \in Sources : Connected(src)}
           ended == {b \in Active : bindings[b].source \in left}
           targets == IF left = {} THEN {} ELSE DisconnectTargets(ended, FALSE)
           keyLost == regState # "absent" /\ ~key
<1>1. /\ conn' = [src \in Sources |-> IF src \in left THEN "disconnected" ELSE conn[src]]
      /\ EndBindings(ended, "closed")
      /\ knownGap' = (knownGap \/ left # {} \/ keyLost)
      /\ coverage' = Raised(coverage, targets, KNOWN_GAP)
      /\ lifecycle' = lifecycle
  BY DEF OpenWriter
<1>2. Terminal' = Terminal
  BY <1>1 DEF Terminal
<1>3. Exact' <=> (Exact /\ Observed \notin targets)
  <2> HIDE DEF targets
  <2> QED BY <1>1, ExactRaised
<1>4. knownGap \in BOOLEAN /\ knownGap' \in BOOLEAN
  BY DEF TypeOK
<1>5. conn'[Feed] = IF Feed \in left THEN "disconnected" ELSE conn[Feed]
  BY <1>1, WatchedAssumption
<1>6. CASE Feed \in left
  <2>1. Link' = IF Link = "active" THEN "ended" ELSE Link
    <3>1. Links \cap Active \subseteq ended
      BY <1>6 DEF Links
    <3> QED BY <1>1, <3>1, LinkEnded
  <2>2. Link = "active" => Observed \in targets
    <3>1. Link = "active" => Observed \in DispatchesOf(ended)
      BY <1>6, LinkTargets
    <3> QED BY <1>6, <3>1 DEF DisconnectTargets
  <2>3. Exact' \in {FALSE, Exact /\ Link # "active"}
    BY <1>3, <2>2
  <2>4. knownGap' = TRUE
    BY <1>1, <1>4, <1>6
  <2>5. Connected(Feed)
    BY <1>6
  <2> HIDE DEF left, ended, targets, keyLost
  <2>6. Seen!Retire
    BY <1>2, <1>5, <1>6, <2>1, <2>3, <2>4, <2>5
    DEF Seen!Retire, Seen!Learn, Link, Exact, Terminal, Connected
  <2> QED BY <2>6 DEF Implements, Seen!NextLedger
<1>7. CASE Feed \notin left
  <2>1. Links \cap ended = {}
    BY <1>7 DEF Links
  <2>2. Link' = Link
    BY <1>1, <2>1, LinkEnded
  <2>3. knownGap => knownGap'
    BY <1>1, <1>4
  <2> QED BY <1>2, <1>3, <1>4, <1>5, <1>7, <2>2, <2>3, ElsewhereStep
<1> QED BY <1>6, <1>7

\* A reported disconnect, expected or not.
LEMMA DisconnectStep ==
  ASSUME TypeOK, BindingsLive, GapsRemembered, TypeOK',
         NEW src \in Sources, NEW expected \in BOOLEAN,
         MarkSourceDisconnected(src, expected)
  PROVE  Implements
PROOF
<1> DEFINE ended == {b \in Active : bindings[b].source = src}
           targets == DisconnectTargets(ended, expected)
<1>1. /\ Connected(src)
      /\ conn' = [conn EXCEPT ![src] = "disconnected"]
      /\ EndBindings(ended, "closed")
      /\ knownGap' = (knownGap \/ targets # {})
      /\ coverage' = Raised(coverage, targets, KNOWN_GAP)
      /\ lifecycle' = lifecycle
  BY DEF MarkSourceDisconnected
<1>2. Terminal' = Terminal
  BY <1>1 DEF Terminal
<1>3. Exact' <=> (Exact /\ Observed \notin targets)
  <2> HIDE DEF targets
  <2> QED BY <1>1, ExactRaised
<1>4. knownGap \in BOOLEAN /\ knownGap' \in BOOLEAN
  BY DEF TypeOK
<1>5. conn'[Feed] = IF src = Feed THEN "disconnected" ELSE conn[Feed]
  BY <1>1, WatchedAssumption DEF TypeOK
<1>6. CASE src = Feed
  <2>1. Link' = IF Link = "active" THEN "ended" ELSE Link
    <3>1. Links \cap Active \subseteq ended
      BY <1>6 DEF Links
    <3> QED BY <1>1, <3>1, LinkEnded
  <2>2. Link = "active" <=> Observed \in DispatchesOf(ended)
    BY <1>6 DEF Link, Links, DispatchesOf, Active
  <2>3. Exact => Observed \in Known
    BY WatchedAssumption DEF Exact, GapsRemembered, UNKNOWN, OBSERVED
  <2>4. Observed \in Known => (Observed \in Nonterminal <=> ~Terminal)
    BY DEF Nonterminal, Terminal
  <2>5. Exact' <=> /\ Exact
                   /\ Link = "active" => expected /\ Terminal
                   /\ ~expected => Terminal
    BY <1>3, <2>2, <2>3, <2>4 DEF DisconnectTargets
  <2>6. Exact # Exact' => knownGap'
    BY <1>1, <1>3, <1>4 DEF Exact
  <2>7. knownGap => knownGap'
    BY <1>1, <1>4
  <2> HIDE DEF ended, targets
  <2>8. Seen!Disconnect(expected)
    <3>1. Exact' = (/\ Exact
                    /\ Link = "active" => expected /\ Terminal
                    /\ ~expected => Terminal)
      BY <2>5 DEF Exact
    <3>2. conn[Feed] = "connected" /\ conn'[Feed] = "disconnected"
      BY <1>1, <1>5, <1>6 DEF Connected
    <3>3. Seen!Learn(knownGap') /\ (Exact # Exact' => knownGap')
      BY <2>6, <2>7 DEF Seen!Learn
    <3> QED
      BY <1>2, <1>4, <2>1, <3>1, <3>2, <3>3
      DEF Seen!Disconnect, Link, Exact, Terminal
  <2> QED BY <2>8 DEF Implements, Seen!NextLedger
<1>7. CASE src # Feed
  <2>1. Links \cap ended = {}
    BY <1>7 DEF Links
  <2>2. Link' = Link
    BY <1>1, <2>1, LinkEnded
  <2>3. knownGap => knownGap'
    BY <1>1, <1>4
  <2> QED BY <1>2, <1>3, <1>4, <1>5, <1>7, <2>2, <2>3, ElsewhereStep
<1> QED BY <1>6, <1>7

\* A binding: of the watched dispatch to the watched source, or another.
LEMMA BindStep ==
  ASSUME TypeOK, TypeOK', NEW b \in BindingIds, NEW c \in Conns, NEW d \in Dispatches,
         NEW s \in Streams, BindRuntime(b, c, d, s)
  PROVE  Implements
PROOF
<1> DEFINE src == <<generation, c>>
           compatible == schema[src] = "compatible"
           promoted == Raised(coverage, IF compatible THEN {d} ELSE {}, FirstCoverage)
           S == IF {r \in Matched(src, s) : Conflicts(r, d)} # {} THEN {d} ELSE {}
<1>1. /\ Connected(src) /\ coverage' = Raised(promoted, S, CONFLICT)
      /\ UNCHANGED <<conn, lifecycle, knownGap>>
  BY DEF BindRuntime, sourceVars
<1>2. /\ src \in Sources
      /\ Bound' = Bound \cup {b} /\ Active' = Active \cup {b} /\ b \notin Bound
      /\ bindings'[b] = [source |-> src, stream |-> s, dispatch |-> d, state |-> "active"]
      /\ \A o \in Bound : bindings'[o] = bindings[o]
  BY BindFacts
<1>3. Exact' => Exact \/ ~knownGap
  <2>1. promoted \in [Dispatches -> UNKNOWN .. CONFLICT]
    BY RaisedType, LevelFacts DEF TypeOK, FirstCoverage
  <2>2. promoted[Observed] = OBSERVED => coverage[Observed] = OBSERVED \/ ~knownGap
    BY WatchedAssumption DEF Raised, FirstCoverage, OBSERVED, KNOWN_GAP
  <2> HIDE DEF promoted, S
  <2>3. coverage'[Observed] = OBSERVED => promoted[Observed] = OBSERVED
    BY <1>1, <2>1, WatchedAssumption, RaisedFacts
  <2> QED BY <2>2, <2>3 DEF Exact
<1>4. Terminal' = Terminal
  BY <1>1 DEF Terminal
<1>5. knownGap' \in BOOLEAN
  BY DEF TypeOK
<1>6. CASE src = Feed /\ d = Observed
  <2>1. Link' = "active"
    <3>1. b \in Links' /\ b \in Active'
      BY <1>2, <1>6 DEF Links
    <3> QED BY <3>1 DEF Link
  <2>2. Seen!Claim(Exact') /\ Exact' \in BOOLEAN
    BY <1>3 DEF Seen!Claim, Exact
  <2>3. conn[Feed] = "connected"
    BY <1>1, <1>6 DEF Connected
  <2>4. Seen!Bind
    BY <1>1, <1>4, <2>1, <2>2, <2>3 DEF Seen!Bind, Link, Terminal
  <2> QED BY <2>4 DEF Implements, Seen!NextLedger
<1>7. CASE ~(src = Feed /\ d = Observed)
  <2>1. b \notin Links'
    <3>1. bindings'[b].source = src /\ bindings'[b].dispatch = d
      BY <1>2
    <3> HIDE DEF src
    <3> QED BY <1>7, <3>1 DEF Links
  <2> HIDE DEF src
  <2>2. Links' = Links
    BY <1>2, <2>1 DEF Links
  <2>3. Links \cap Active' = Links \cap Active
    BY <1>2 DEF Links
  <2>4. Link' = Link
    BY <2>2, <2>3 DEF Link
  <2> QED BY <1>1, <1>3, <1>4, <1>5, <2>4, ElsewhereStep
<1> QED BY <1>6, <1>7

\* A lifecycle receipt: the watched dispatch may end with it.
LEMMA LifecycleStep ==
  ASSUME TypeOK, TypeOK', NEW d \in Dispatches, NEW clockGap \in BOOLEAN,
         NEW state \in Reported, RecordLifecycle(d, state, clockGap)
  PROVE  Implements
PROOF
<1> DEFINE S == IF clockGap THEN {d} ELSE {}
<1>1. /\ Allowed(lifecycle[d], state) /\ lifecycle' = [lifecycle EXCEPT ![d] = state]
      /\ coverage' = Raised(coverage, S, KNOWN_GAP)
      /\ knownGap' = (knownGap \/ clockGap)
      /\ UNCHANGED <<conn, bindings>>
  BY DEF RecordLifecycle, sourceVars
<1>2. Exact' <=> (Exact /\ Observed \notin S)
  <2> HIDE DEF S
  <2> QED BY <1>1, ExactRaised
<1>3. Link' = Link /\ knownGap \in BOOLEAN /\ knownGap' \in BOOLEAN
  BY <1>1, LinkFrame DEF TypeOK
<1>4. lifecycle'[Observed] = IF d = Observed THEN state ELSE lifecycle[Observed]
  BY <1>1, WatchedAssumption DEF TypeOK
<1>5. Terminal => Terminal'
  BY <1>1, <1>4, TerminalIsFinal DEF Terminal
<1>6. CASE ~Terminal /\ Terminal'
  <2>1. d = Observed
    BY <1>4, <1>6 DEF Terminal
  <2>2. \/ Exact' = Exact /\ knownGap' = knownGap
        \/ Exact' = FALSE /\ knownGap' = TRUE
    BY <1>1, <1>2, <1>3, <2>1 DEF Exact
  <2>3. Seen!Finish
    BY <1>1, <1>3, <1>6, <2>2 DEF Seen!Finish, Link, Exact, Terminal
  <2> QED BY <2>3 DEF Implements, Seen!NextLedger
<1>7. CASE ~(~Terminal /\ Terminal')
  <2>1. Terminal' = Terminal
    BY <1>5, <1>7 DEF Terminal
  <2>2. knownGap => knownGap'
    BY <1>1, <1>3
  <2> QED BY <1>1, <1>2, <1>3, <2>1, <2>2, ElsewhereStep
<1> QED BY <1>6, <1>7

\* Every step of the ledger is a step of SourceLedger, or changes nothing it sees.
LEMMA StepImplements ==
  ASSUME TypeOK, BindingsLive, GapsRemembered, TypeOK', [Next]_vars
  PROVE  Implements
PROOF
<1>1. ASSUME UNCHANGED <<bindings, lifecycle>>, conn'[Feed] = conn[Feed],
             Exact' => Exact, knownGap => knownGap'
      PROVE  Implements
  BY <1>1, LinkFrame, ElsewhereStep DEF TypeOK, Terminal
<1>2. CASE Quiet
  BY <1>1, <1>2 DEF Quiet, Exact
<1>3. ASSUME NEW S \in SUBSET Known, GapStep(S)
      PROVE  Implements
  BY <1>1, <1>3, ExactRaised DEF GapStep
<1>4. ASSUME NEW g \in Generations, NEW state \in {"enabled", "revoked"},
             RegisterProject(g, state)
      PROVE  Implements
  <2>1. CASE regState = "absent"
    BY <1>1, <1>4, <2>1 DEF RegisterProject, Exact
  <2>2. CASE regState # "absent"
    BY <1>4, <2>2, RetireStep DEF RegisterProject
  <2> QED BY <2>1, <2>2
<1>5. CASE OpenWriter
  BY <1>5, OpenStep
<1>6. CASE PersistCapacityBlocked
  BY <1>1, <1>6, ExactRaised DEF PersistCapacityBlocked, sourceVars
<1>7. ASSUME NEW c \in Conns, RegisterConnection(c)
      PROVE  Implements
  <2> DEFINE src == <<generation, c>>
  <2>1. /\ conn[src] = "absent" /\ conn' = [conn EXCEPT ![src] = "connected"]
        /\ UNCHANGED <<bindings, lifecycle, coverage, knownGap>>
    BY <1>7 DEF RegisterConnection
  <2>2. CASE src = Feed
    <3>1. conn[Feed] = "absent" /\ conn'[Feed] = "connected"
      BY <2>1, <2>2, WatchedAssumption DEF TypeOK
    <3>2. Link' = Link
      BY <2>1, LinkFrame
    <3>3. Seen!Register
      BY <2>1, <3>1, <3>2 DEF Seen!Register, Link
    <3> QED BY <3>3 DEF Implements, Seen!NextLedger
  <2>3. CASE src # Feed
    <3> HIDE DEF src
    <3>1. conn'[Feed] = conn[Feed]
      BY <2>1, <2>3, WatchedAssumption DEF TypeOK
    <3> QED BY <1>1, <2>1, <3>1 DEF Exact
  <2> QED BY <2>2, <2>3
<1>8. ASSUME NEW c \in Conns, MarkSourceIncompatible(c)
      PROVE  Implements
  BY <1>1, <1>8, ExactRaised DEF MarkSourceIncompatible
<1>9. ASSUME NEW src \in Sources, NEW expected \in BOOLEAN,
             MarkSourceDisconnected(src, expected)
      PROVE  Implements
  BY <1>9, DisconnectStep
<1>10. ASSUME NEW src \in Sources, NEW overdue \in SUBSET pending,
              NEW p \in Projections, IngestPending(p, src, overdue)
       PROVE  Implements
  <2> DEFINE left == pending \ overdue
             known == \E r \in left : r.event.kind = p.kind /\ r.event.event = p.event
             overflow == ~known /\ Cardinality(left) >= MaxPending
             gapped == ExpiryTargets(overdue) \cup (IF overflow THEN Nonterminal ELSE {})
  <2>1. /\ UNCHANGED <<conn, lifecycle, bindings>>
        /\ knownGap' = (knownGap \/ overdue # {} \/ overflow)
        /\ coverage' = Raised(coverage, gapped, KNOWN_GAP)
    BY <1>10 DEF IngestPending, sourceVars
  <2> HIDE DEF gapped, overflow
  <2>2. Exact' => Exact
    BY <2>1, ExactRaised
  <2>3. knownGap => knownGap'
    BY <2>1 DEF TypeOK
  <2> QED BY <1>1, <2>1, <2>2, <2>3
<1>11. ASSUME NEW src \in Sources, NEW overdue \in SUBSET pending,
              NEW p \in Projections, NEW b \in BindingIds,
              IngestBound(p, src, b, overdue)
       PROVE  Implements
  <2>1. /\ UNCHANGED <<conn, lifecycle, bindings>>
        /\ knownGap' = (knownGap \/ overdue # {})
        /\ b \in Bound
    BY <1>11 DEF IngestBound, sourceVars, Owners, Active
  <2>2. Exact' => Exact
    <3>1. ~\E o \in BindingIds, c \in Conns, e \in Dispatches, s \in Streams :
             BindRuntime(o, c, e, s)
      <4> SUFFICES ASSUME NEW o \in BindingIds, NEW c \in Conns, NEW e \in Dispatches,
                          NEW s \in Streams, BindRuntime(o, c, e, s)
                   PROVE  FALSE
        OBVIOUS
      <4>1. o \notin Bound /\ o \in Bound'
        BY BindFacts
      <4> QED BY <2>1, <4>1 DEF Bound
    <3> QED BY <3>1, ExactByBindingOnly, WatchedAssumption DEF Exact
  <2>3. knownGap => knownGap'
    BY <2>1 DEF TypeOK
  <2> QED BY <1>1, <2>1, <2>2, <2>3
<1>12. ASSUME NEW d \in Dispatches, RecordSubmission(d)
       PROVE  Implements
  <2>1. /\ d \notin Known /\ lifecycle' = [lifecycle EXCEPT ![d] = "submitted"]
        /\ UNCHANGED <<conn, bindings, coverage, knownGap>>
    BY <1>12 DEF RecordSubmission, sourceVars
  <2>2. Terminal' = Terminal
    BY <2>1, WatchedAssumption DEF Terminal, TypeOK, TerminalStates, Known
  <2> QED BY <2>1, <2>2, LinkFrame, ElsewhereStep DEF TypeOK, Exact
<1>13. ASSUME NEW d \in Dispatches, NEW clockGap \in BOOLEAN, NEW state \in Reported,
              RecordLifecycle(d, state, clockGap)
       PROVE  Implements
  BY <1>13, LifecycleStep
<1>14. ASSUME NEW b \in BindingIds, NEW c \in Conns, NEW d \in Dispatches,
              NEW s \in Streams, BindRuntime(b, c, d, s)
       PROVE  Implements
  BY <1>14, BindStep
<1> QED
  BY StepCases, <1>2, <1>3, <1>4, <1>5, <1>6, <1>7, <1>8, <1>9, <1>10, <1>11, <1>12,
     <1>13, <1>14

\* The ledger keeps the promise the adapters rely on: seen from any one source and
\* any one dispatch, every behaviour of Ledger is one of SourceLedger.
THEOREM Refinement == Spec => ImplementsSourceLedger
<1>1. Init => Seen!InitLedger
  BY WatchedAssumption
  DEF Init, Seen!InitLedger, Links, Bound, TerminalStates, UNKNOWN, OBSERVED
<1>2. HonestInv /\ HonestInv' /\ [Next]_vars => [Seen!NextLedger]_(Seen!ledgerVars)
  BY StepImplements DEF HonestInv, Implements
<1> QED
  BY <1>1, <1>2, HonestInvariant, PTL DEF Spec, ImplementsSourceLedger, Seen!SpecLedger
================================================================================
