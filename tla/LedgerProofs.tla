---------------------------- MODULE LedgerProofs ----------------------------
(***************************************************************************)
(* Proofs about Ledger for every set of rows and workers, every workflow   *)
(* (blockers, approvers, evidence, verdicts) and every bound on moves.     *)
(* TypeCorrect comes first; each invariant after it is shown to survive a  *)
(* transition (the only action that moves a row) and to be left alone by   *)
(* the other actions, and Implements maps the chains to RowChain.          *)
(***************************************************************************)
EXTENDS Invariants, FiniteSetTheorems, TLAPS

\* The actions that move no row.
Aside ==
    \/ \E r \in Row : RecordPass(r) /\ UNCHANGED chain
    \/ \E r \in Row, kind \in EvidenceKind :
           AttachEvidence(r, kind) /\ UNCHANGED chain
    \/ \E w \in Worker : ToggleStatus(w) /\ UNCHANGED chain

\* Every entry of the table is a set of states.
LEMMA EdgesType == Edges \in [State -> SUBSET State]
BY DEF Edges, State

\* A verdict leaves a move in a state of the machine.
LEMMA FinalStateType ==
    ASSUME NEW to \in State, NEW verdict
    PROVE  FinalState(to, verdict) \in State
BY DEF FinalState, State

\* The entry a transition appends.
NewEntry(r, to, a, verdict) ==
    [from |-> FromState(r), to |-> FinalState(to, verdict),
     intended |-> to, actor |-> a]

LEMMA NewEntryType ==
    ASSUME LedgerTypeOK, NEW r \in Row, NEW to \in State, NEW a \in Worker,
           NEW verdict
    PROVE  NewEntry(r, to, a, verdict) \in Entry
<1>1. FinalState(to, verdict) \in State
  BY FinalStateType
<1>2. FromState(r) \in State \cup {Null}
  BY DEF FromState, LedgerTypeOK
<1> QED
  BY <1>1, <1>2 DEF NewEntry, Entry

\* The types survive every step.
LEMMA TypeStep == TypeOK /\ [Next]_vars => TypeOK'
<1> SUFFICES ASSUME TypeOK, [Next]_vars PROVE TypeOK'
  OBVIOUS
<1> USE DEF TypeOK, LedgerTypeOK
<1>1. ASSUME NEW r \in Row, NEW to \in State, NEW a \in Worker,
             NEW verdict \in Severity, Transition(r, to, a, verdict)
      PROVE  TypeOK'
  <2>1. FinalState(to, verdict) \in State
    BY FinalStateType
  <2>2. NewEntry(r, to, a, verdict) \in Entry
    BY NewEntryType
  <2>3. /\ state' \in [Row -> State]
        /\ attempts' \in [Row -> Nat]
        /\ passing' \subseteq Row
        /\ attached' \in [Row -> SUBSET EvidenceKind]
        /\ revoked' \subseteq Worker
    BY <1>1, <2>1 DEF Transition, Move, Land
  <2>4. chain' = [chain EXCEPT ![r] = Append(@, NewEntry(r, to, a, verdict))]
    BY <1>1 DEF Transition, NewEntry
  <2>5. chain' \in [Row -> Seq(Entry)]
    BY <2>2, <2>4
  <2> QED
    BY <2>3, <2>5
<1>2. ASSUME NEW r \in Row, RecordPass(r), UNCHANGED chain
      PROVE  TypeOK'
  BY <1>2 DEF RecordPass
<1>3. ASSUME NEW r \in Row, NEW kind \in EvidenceKind, AttachEvidence(r, kind),
             UNCHANGED chain
      PROVE  TypeOK'
  BY <1>3 DEF AttachEvidence
<1>4. ASSUME NEW w \in Worker, ToggleStatus(w), UNCHANGED chain
      PROVE  TypeOK'
  BY <1>4 DEF ToggleStatus
<1>5. CASE UNCHANGED vars
  BY <1>5 DEF vars
<1> QED
  BY <1>1, <1>2, <1>3, <1>4, <1>5 DEF Next

\* The state, the attempts, the passing results, the evidence and the chains
\* of every row keep their types: Ledger's type invariant.
THEOREM TypeCorrect == Spec => []TypeOK
<1>1. Init => TypeOK
  BY DEF Init, InitLedger, TypeOK, LedgerTypeOK, State
<1> QED
  BY <1>1, TypeStep, PTL DEF Spec

-----------------------------------------------------------------------------
(* What a step does to the chains.                                         *)

\* A transition of r appends one entry to r's chain and moves r there; every
\* other row, and all results and evidence, stay as they were.
LEMMA TransitionEffect ==
    ASSUME TypeOK, NEW r \in Row, NEW to \in State, NEW a \in Worker,
           NEW verdict \in Severity, Transition(r, to, a, verdict)
    PROVE  LET e == NewEntry(r, to, a, verdict) IN
           /\ e \in Entry
           /\ e.to \in {to, "escalated"}
           /\ e.from = FromState(r)
           /\ e.actor = a
           /\ Permitted(r, to, a)
           /\ state'[r] = e.to
           /\ chain[r] \in Seq(Entry)
           /\ Len(chain[r]) \in Nat
           /\ chain'[r] = Append(chain[r], e)
           /\ Len(chain'[r]) = Len(chain[r]) + 1
           /\ DOMAIN chain[r] = 1 .. Len(chain[r])
           /\ DOMAIN chain'[r] = 1 .. Len(chain[r]) + 1
           /\ chain'[r][Len(chain[r]) + 1] = e
           /\ \A i \in DOMAIN chain[r] : chain'[r][i] = chain[r][i]
           /\ \A s \in Row \ {r} : state'[s] = state[s] /\ chain'[s] = chain[s]
           /\ passing' = passing
           /\ attached' = attached
<1> DEFINE e == NewEntry(r, to, a, verdict)
<1> USE DEF TypeOK, LedgerTypeOK
<1>1. e \in Entry
  BY NewEntryType
<1>2. /\ e.to = FinalState(to, verdict)
      /\ e.from = FromState(r)
      /\ e.actor = a
  BY DEF NewEntry
<1>3. FinalState(to, verdict) \in {to, "escalated"}
  BY DEF FinalState
<1>4. /\ Permitted(r, to, a)
      /\ state'[r] = FinalState(to, verdict)
      /\ \A s \in Row \ {r} : state'[s] = state[s]
      /\ passing' = passing
      /\ attached' = attached
  BY DEF Transition, Move, Land
<1>5. chain' = [chain EXCEPT ![r] = Append(@, e)]
  BY DEF Transition, NewEntry
<1>6. chain'[r] = Append(chain[r], e) /\ \A s \in Row \ {r} : chain'[s] = chain[s]
  BY <1>5
<1>7. chain[r] \in Seq(Entry)
  OBVIOUS
<1> HIDE DEF e
<1>8. /\ Len(chain[r]) \in Nat
      /\ Len(chain'[r]) = Len(chain[r]) + 1
      /\ DOMAIN chain[r] = 1 .. Len(chain[r])
      /\ DOMAIN chain'[r] = 1 .. Len(chain[r]) + 1
      /\ chain'[r][Len(chain[r]) + 1] = e
      /\ \A i \in DOMAIN chain[r] : chain'[r][i] = chain[r][i]
  BY <1>1, <1>6, <1>7
<1> QED
  BY <1>1, <1>2, <1>3, <1>4, <1>6, <1>7, <1>8 DEF e

\* The other steps leave the rows, their starts and their chains alone, and no
\* result or evidence is ever taken back.
LEMMA AsideEffect ==
    ASSUME TypeOK, Aside \/ UNCHANGED vars
    PROVE  /\ state' = state
           /\ chain' = chain
           /\ attempts' = attempts
           /\ passing \subseteq passing'
           /\ \A r \in Row : attached[r] \subseteq attached'[r]
<1> USE DEF TypeOK, LedgerTypeOK
<1>1. CASE \E r \in Row : RecordPass(r) /\ UNCHANGED chain
  BY <1>1 DEF RecordPass
<1>2. CASE \E r \in Row, kind \in EvidenceKind :
               AttachEvidence(r, kind) /\ UNCHANGED chain
  BY <1>2 DEF AttachEvidence
<1>3. CASE \E w \in Worker : ToggleStatus(w) /\ UNCHANGED chain
  BY <1>3 DEF ToggleStatus
<1>4. CASE UNCHANGED vars
  BY <1>4 DEF vars
<1> QED
  BY <1>1, <1>2, <1>3, <1>4 DEF Aside

\* A row is drafted only before its first move.
LEMMA NoEdgeToDrafted == \A s \in State : "drafted" \notin Edges[s]
BY DEF Edges, State

-----------------------------------------------------------------------------
(* The state column and the chains.                                        *)

\* ChainLinked survives every step.
LEMMA LinkedStep == TypeOK /\ ChainLinked /\ [Next]_vars => ChainLinked'
<1> SUFFICES ASSUME TypeOK, ChainLinked, [Next]_vars PROVE ChainLinked'
  OBVIOUS
<1>1. ASSUME NEW r \in Row, NEW to \in State, NEW a \in Worker,
             NEW verdict \in Severity, Transition(r, to, a, verdict)
      PROVE  ChainLinked'
  <2> DEFINE e == NewEntry(r, to, a, verdict)
             n == Len(chain[r])
  <2>1. /\ n \in Nat /\ Len(chain'[r]) = n + 1 /\ chain'[r] # <<>>
        /\ DOMAIN chain[r] = 1 .. n /\ DOMAIN chain'[r] = 1 .. n + 1
        /\ chain'[r][n + 1] = e /\ state'[r] = e.to /\ e.from = FromState(r)
        /\ \A i \in 1 .. n : chain'[r][i] = chain[r][i]
        /\ \A s \in Row \ {r} : state'[s] = state[s] /\ chain'[s] = chain[s]
    BY <1>1, TransitionEffect
  <2>2. /\ state[r] = Replay(chain[r])
        /\ \A i \in 1 .. n :
               chain[r][i].from = IF i = 1 THEN Null ELSE chain[r][i - 1].to
    BY <2>1 DEF ChainLinked
  <2>3. e.from = IF n = 0 THEN Null ELSE chain[r][n].to
    <3>1. CASE chain[r] = <<>>
      BY <2>1, <2>2, <3>1 DEF FromState, Replay
    <3>2. CASE chain[r] # <<>>
      <4>1. n # 0
        BY <1>1, <3>2, TransitionEffect
      <4> QED
        BY <2>1, <2>2, <3>2, <4>1 DEF FromState, Replay
    <3> QED
      BY <3>1, <3>2
  <2> HIDE DEF e, n
  <2>4. state'[r] = Replay(chain'[r])
    BY <2>1 DEF Replay
  <2>5. ASSUME NEW i \in 1 .. n + 1
        PROVE  chain'[r][i].from = IF i = 1 THEN Null ELSE chain'[r][i - 1].to
    <3>1. i # 1 => chain'[r][i - 1] = chain[r][i - 1]
      <4>1. i # 1 => i - 1 \in 1 .. n
        BY <2>1
      <4> QED
        BY <2>1, <4>1
    <3>2. CASE i \in 1 .. n
      <4>1. chain'[r][i] = chain[r][i]
        BY <2>1, <3>2
      <4> QED
        BY <2>2, <3>1, <3>2, <4>1
    <3>3. CASE i = n + 1
      <4>1. chain'[r][i] = e /\ (i = 1 <=> n = 0) /\ i - 1 = n
        BY <2>1, <3>3
      <4> QED
        BY <2>3, <3>1, <4>1
    <3> QED
      BY <2>1, <3>2, <3>3
  <2>6. \A s \in Row \ {r} :
            /\ state'[s] = Replay(chain'[s])
            /\ \A i \in DOMAIN chain'[s] :
                   chain'[s][i].from =
                       IF i = 1 THEN Null ELSE chain'[s][i - 1].to
    BY <2>1 DEF ChainLinked
  <2> QED
    BY <2>1, <2>4, <2>5, <2>6 DEF ChainLinked
<1>2. CASE Aside \/ UNCHANGED vars
  BY <1>2, AsideEffect DEF ChainLinked
<1> QED
  BY <1>1, <1>2 DEF Next, Aside
\* The state column of every row is what replaying its chain gives, and each
\* entry starts where the one before it ended, whatever the callers do.
THEOREM ChainsAreLinked == Spec => []ChainLinked
<1>1. Init => ChainLinked
  BY DEF Init, InitLedger, ChainLinked, Replay
<1> QED
  BY <1>1, LinkedStep, TypeCorrect, PTL DEF Spec

-----------------------------------------------------------------------------
(* What is settled is proven.                                              *)

\* SettledIsProven, row by row, with the place of the verifying entry named.
Proven(r) ==
    LET n == Len(chain[r])
        v == IF state[r] = "done" THEN n - 1 ELSE n
    IN  /\ VerifiedGate(r)
        /\ v \in DOMAIN chain[r]
        /\ chain[r][v].to = "verified"
        /\ r \in HumanCheck => chain[r][v].actor \in Person

\* A row that enters verified is proven by the entry that brings it there.
LEMMA VerifyingProves ==
    ASSUME TypeOK, NEW r \in Row, NEW to \in State, NEW a \in Worker,
           NEW verdict \in Severity, Transition(r, to, a, verdict),
           state'[r] = "verified"
    PROVE  Proven(r)'
<1> DEFINE e == NewEntry(r, to, a, verdict)
<1>1. /\ e.to \in {to, "escalated"} /\ e.actor = a /\ Permitted(r, to, a)
      /\ state'[r] = e.to /\ Len(chain[r]) \in Nat
      /\ Len(chain'[r]) = Len(chain[r]) + 1
      /\ DOMAIN chain'[r] = 1 .. Len(chain[r]) + 1
      /\ chain'[r][Len(chain[r]) + 1] = e
      /\ passing' = passing /\ attached' = attached
  BY TransitionEffect
<1>2. to = "verified"
  BY <1>1
<1>3. VerifiedGate(r)' /\ (r \in HumanCheck => a \in Person)
  BY <1>1, <1>2 DEF Permitted, VerifiedGate, MaySettle, Settled
<1>4. Len(chain'[r]) \in DOMAIN chain'[r] /\ chain'[r][Len(chain'[r])] = e
  BY <1>1
<1> HIDE DEF e
<1> QED
  BY <1>1, <1>3, <1>4 DEF Proven

\* A row reaches done from verified, so the entry before the last proves it.
LEMMA ClosingKeepsProof ==
    ASSUME TypeOK, NEW r \in Row, NEW to \in State, NEW a \in Worker,
           NEW verdict \in Severity, Transition(r, to, a, verdict),
           state'[r] = "done", state[r] = "verified" => Proven(r)
    PROVE  Proven(r)'
<1> DEFINE e == NewEntry(r, to, a, verdict)
<1>1. /\ e.to \in {to, "escalated"} /\ Permitted(r, to, a)
      /\ state'[r] = e.to /\ Len(chain[r]) \in Nat
      /\ Len(chain'[r]) = Len(chain[r]) + 1
      /\ DOMAIN chain[r] = 1 .. Len(chain[r])
      /\ DOMAIN chain'[r] = 1 .. Len(chain[r]) + 1
      /\ \A i \in DOMAIN chain[r] : chain'[r][i] = chain[r][i]
      /\ passing' = passing /\ attached' = attached
  BY TransitionEffect
<1>2. state[r] \in State /\ to = "done" /\ "done" \in Edges[state[r]]
  BY <1>1 DEF Permitted, TypeOK, LedgerTypeOK
<1>3. state[r] = "verified"
  BY <1>2 DEF Edges, State
<1>4. /\ Len(chain[r]) \in DOMAIN chain[r]
      /\ chain[r][Len(chain[r])].to = "verified"
      /\ r \in HumanCheck => chain[r][Len(chain[r])].actor \in Person
      /\ VerifiedGate(r)
  BY <1>3 DEF Proven
<1>5. /\ Len(chain'[r]) - 1 = Len(chain[r])
      /\ Len(chain'[r]) - 1 \in DOMAIN chain'[r]
      /\ chain'[r][Len(chain'[r]) - 1] = chain[r][Len(chain[r])]
  BY <1>1, <1>4
<1>6. VerifiedGate(r)'
  BY <1>1, <1>4 DEF VerifiedGate
<1> QED
  BY <1>4, <1>5, <1>6 DEF Proven

LEMMA ProvenStep == TypeOK /\ SettledIsProven /\ [Next]_vars => SettledIsProven'
<1> SUFFICES ASSUME TypeOK, SettledIsProven, [Next]_vars,
                    NEW s \in Row, state'[s] \in Settled
             PROVE  Proven(s)'
  BY DEF SettledIsProven, Proven
<1>1. state[s] \in Settled => Proven(s)
  BY DEF SettledIsProven, Proven
<1>2. ASSUME NEW r \in Row, NEW to \in State, NEW a \in Worker,
             NEW verdict \in Severity, Transition(r, to, a, verdict)
      PROVE  Proven(s)'
  <2>1. CASE s = r /\ state'[s] = "verified"
    BY <1>2, <2>1, VerifyingProves
  <2>2. CASE s = r /\ state'[s] = "done"
    BY <1>1, <1>2, <2>2, ClosingKeepsProof DEF Settled
  <2>3. CASE s # r
    <3>1. /\ state'[s] = state[s] /\ chain'[s] = chain[s]
          /\ passing' = passing /\ attached' = attached
      BY <1>2, <2>3, TransitionEffect
    <3> QED
      BY <1>1, <3>1 DEF Proven, VerifiedGate
  <2> QED
    BY <2>1, <2>2, <2>3 DEF Settled
<1>3. CASE Aside \/ UNCHANGED vars
  <2>1. /\ state' = state /\ chain' = chain /\ passing \subseteq passing'
        /\ attached[s] \subseteq attached'[s]
    BY <1>3, AsideEffect
  <2> QED
    BY <1>1, <2>1 DEF Proven, VerifiedGate
<1> QED
  BY <1>2, <1>3 DEF Next, Aside

\* Nothing is settled on an agent's word: SettledIsProven always holds, for a
\* person's check as for any other.
THEOREM SettledRowsAreProven == Spec => []SettledIsProven
<1>1. Init => SettledIsProven
  BY DEF Init, InitLedger, SettledIsProven, Settled
<1> QED
  BY <1>1, ProvenStep, TypeCorrect, PTL DEF Spec

-----------------------------------------------------------------------------
(* Work starts behind its blockers.                                        *)

\* What a chain has recorded it keeps.
LEMMA CameGrows ==
    ASSUME TypeOK, [Next]_vars, NEW s \in Row, NEW to \in State,
           Came(s, to) # {}
    PROVE  Came(s, to)' # {}
<1>1. ASSUME NEW r \in Row, NEW x \in State, NEW a \in Worker,
             NEW verdict \in Severity, Transition(r, x, a, verdict)
      PROVE  Came(s, to)' # {}
  <2>1. CASE s = r
    <3>1. /\ Len(chain[s]) \in Nat
          /\ DOMAIN chain[s] = 1 .. Len(chain[s])
          /\ DOMAIN chain'[s] = 1 .. Len(chain[s]) + 1
          /\ \A i \in DOMAIN chain[s] : chain'[s][i] = chain[s][i]
      BY <1>1, <2>1, TransitionEffect
    <3>2. PICK i \in DOMAIN chain[s] : chain[s][i].to = to
      BY DEF Came
    <3>3. i \in DOMAIN chain'[s] /\ chain'[s][i].to = to
      BY <3>1, <3>2
    <3> QED
      BY <3>3 DEF Came
  <2>2. CASE s # r
    <3>1. chain'[s] = chain[s]
      BY <1>1, <2>2, TransitionEffect
    <3> QED
      BY <3>1 DEF Came
  <2> QED
    BY <2>1, <2>2
<1>2. CASE Aside \/ UNCHANGED vars
  BY <1>2, AsideEffect DEF Came
<1> QED
  BY <1>1, <1>2 DEF Next, Aside

\* Only a permitted start puts in_progress on a chain that did not have it.
LEMMA StartNeedsSettledBlockers ==
    ASSUME TypeOK, SettledIsProven, [Next]_vars, NEW s \in Row,
           Came(s, "in_progress") = {}, Came(s, "in_progress")' # {},
           NEW b \in Blocker[s] \cap Row
    PROVE  Came(b, "verified") # {}
<1>1. ASSUME NEW r \in Row, NEW to \in State, NEW a \in Worker,
             NEW verdict \in Severity, Transition(r, to, a, verdict)
      PROVE  Came(b, "verified") # {}
  <2> DEFINE e == NewEntry(r, to, a, verdict)
  <2>1. s = r
    <3>1. s # r => chain'[s] = chain[s]
      BY <1>1, TransitionEffect
    <3> QED
      BY <3>1 DEF Came
  <2>2. /\ Len(chain[s]) \in Nat /\ DOMAIN chain[s] = 1 .. Len(chain[s])
        /\ DOMAIN chain'[s] = 1 .. Len(chain[s]) + 1
        /\ \A i \in DOMAIN chain[s] : chain'[s][i] = chain[s][i]
        /\ chain'[s][Len(chain[s]) + 1] = e
        /\ e.to \in {to, "escalated"} /\ Permitted(s, to, a)
    BY <1>1, <2>1, TransitionEffect
  <2>3. e.to = "in_progress"
    <3>1. PICK i \in DOMAIN chain'[s] : chain'[s][i].to = "in_progress"
      BY DEF Came
    <3>2. i \notin DOMAIN chain[s]
      BY <2>2, <3>1 DEF Came
    <3>3. i = Len(chain[s]) + 1
      BY <2>2, <3>2
    <3> QED
      BY <2>2, <3>1, <3>3
  <2>4. to = "in_progress"
    BY <2>2, <2>3
  <2>5. state[b] \in Settled
    BY <2>2, <2>4 DEF Permitted, MayStart
  <2> QED
    BY <2>5 DEF SettledIsProven, Came
<1>2. CASE Aside \/ UNCHANGED vars
  BY <1>2, AsideEffect DEF Came
<1> QED
  BY <1>1, <1>2 DEF Next, Aside

LEMMA StartedStep ==
    TypeOK /\ SettledIsProven /\ StartedBehindVerified /\ [Next]_vars
        => StartedBehindVerified'
<1> SUFFICES ASSUME TypeOK, SettledIsProven, StartedBehindVerified, [Next]_vars,
                    NEW s \in Row, Came(s, "in_progress")' # {},
                    NEW b \in Blocker[s]
             PROVE  Came(b, "verified")' # {}
  BY DEF StartedBehindVerified
<1>1. b \in Row
  BY ConstantsAssumption
<1>2. Came(b, "verified") # {}
  BY <1>1, StartNeedsSettledBlockers DEF StartedBehindVerified
<1> QED
  BY <1>1, <1>2, CameGrows DEF State

\* Invariant 5 read off the chains of two rows: a row that ever started has
\* blockers that were all verified.
THEOREM WorkStartsBehindVerified == Spec => []StartedBehindVerified
<1>1. Init => StartedBehindVerified
  BY DEF Init, StartedBehindVerified, Came
<1> QED
  BY <1>1, StartedStep, TypeCorrect, SettledRowsAreProven, PTL DEF Spec
-----------------------------------------------------------------------------
(* The attempts counter.                                                   *)

\* A transition that starts r adds one place to Came(r, "in_progress"); any
\* other adds none.
LEMMA StartsCounted ==
    ASSUME TypeOK, NEW r \in Row, NEW to \in State, NEW a \in Worker,
           NEW verdict \in Severity, Transition(r, to, a, verdict)
    PROVE  Cardinality(Came(r, "in_progress")') =
               Cardinality(Came(r, "in_progress"))
                   + IF FinalState(to, verdict) = "in_progress" THEN 1 ELSE 0
<1> DEFINE e == NewEntry(r, to, a, verdict)
           n == Len(chain[r])
           S == Came(r, "in_progress")
<1>1. /\ n \in Nat /\ DOMAIN chain[r] = 1 .. n /\ DOMAIN chain'[r] = 1 .. n + 1
      /\ \A i \in DOMAIN chain[r] : chain'[r][i] = chain[r][i]
      /\ chain'[r][n + 1] = e
  BY TransitionEffect
<1>2. e.to = FinalState(to, verdict)
  BY DEF NewEntry
<1>3. IsFiniteSet(S)
  <2>1. S \subseteq 1 .. n
    BY <1>1 DEF Came
  <2>2. IsFiniteSet(1 .. n)
    <3> HIDE DEF n, S, e
    <3>1. \A i, j \in Int : IsFiniteSet(i .. j)
      BY FS_Interval, Zenon
    <3> QED
      BY <1>1, <3>1
  <2> QED
    BY <2>1, <2>2, FS_Subset
<1>4. n + 1 \notin S
  BY <1>1 DEF Came
<1> HIDE DEF e, n
<1>5. CASE FinalState(to, verdict) = "in_progress"
  <2>1. S' = S \cup {n + 1}
    BY <1>1, <1>2, <1>5 DEF Came
  <2> HIDE DEF S
  <2>2. Cardinality(S') = Cardinality(S) + 1
    BY <1>3, <1>4, <2>1, FS_AddElement
  <2> QED
    BY <1>5, <2>2 DEF S
<1>6. CASE FinalState(to, verdict) # "in_progress"
  <2>1. S' = S
    BY <1>1, <1>2, <1>6 DEF Came
  <2>2. Cardinality(S) \in Nat
    BY <1>3, FS_CardinalityType
  <2> QED
    BY <1>6, <2>1, <2>2
<1> QED
  BY <1>5, <1>6

LEMMA AttemptsStep ==
    TypeOK /\ AttemptsAreStarts /\ [Next]_vars => AttemptsAreStarts'
<1> SUFFICES ASSUME TypeOK, AttemptsAreStarts, [Next]_vars, NEW s \in Row
             PROVE  attempts'[s] = Cardinality(Came(s, "in_progress")')
  BY DEF AttemptsAreStarts
<1>1. attempts[s] = Cardinality(Came(s, "in_progress"))
  BY DEF AttemptsAreStarts
<1>2. ASSUME NEW r \in Row, NEW to \in State, NEW a \in Worker,
             NEW verdict \in Severity, Transition(r, to, a, verdict)
      PROVE  attempts'[s] = Cardinality(Came(s, "in_progress")')
  <2>1. attempts' = [attempts EXCEPT ![r] =
            @ + IF FinalState(to, verdict) = "in_progress" THEN 1 ELSE 0]
    BY <1>2 DEF Transition, Move, Land
  <2>2. CASE s = r
    <3>1. attempts'[s] = attempts[s]
              + IF FinalState(to, verdict) = "in_progress" THEN 1 ELSE 0
      BY <2>1, <2>2 DEF TypeOK, LedgerTypeOK
    <3> QED
      BY <1>1, <1>2, <2>2, <3>1, StartsCounted
  <2>3. CASE s # r
    <3>1. attempts'[s] = attempts[s]
      BY <2>1, <2>3 DEF TypeOK, LedgerTypeOK
    <3>2. chain'[s] = chain[s]
      BY <1>2, <2>3, TransitionEffect
    <3> QED
      BY <1>1, <3>1, <3>2 DEF Came
  <2> QED
    BY <2>2, <2>3
<1>3. CASE Aside \/ UNCHANGED vars
  BY <1>1, <1>3, AsideEffect DEF Came
<1> QED
  BY <1>2, <1>3 DEF Next, Aside

\* The attempts column, by which the retries are bounded, is the number of
\* starts on the chain.
THEOREM AttemptsCountStarts == Spec => []AttemptsAreStarts
<1>1. Init => AttemptsAreStarts
  <2> SUFFICES ASSUME Init, NEW r \in Row
               PROVE  attempts[r] = Cardinality(Came(r, "in_progress"))
    BY DEF AttemptsAreStarts
  <2>1. Came(r, "in_progress") = {} /\ attempts[r] = 0
    BY DEF Init, InitLedger, Came
  <2> QED
    BY <2>1, FS_EmptySet
<1> QED
  BY <1>1, AttemptsStep, TypeCorrect, PTL DEF Spec

-----------------------------------------------------------------------------
(* The ledger implements RowChain.                                         *)

Histories == [r \in Row |-> [i \in DOMAIN chain[r] |-> chain[r][i].to]]

\* The last state of a history is the state column.
LEMMA LastIsState ==
    ASSUME TypeOK, ChainLinked, NEW r \in Row
    PROVE  Abstract!Last(r) = state[r]
<1> DEFINE n == Len(chain[r])
           h == [i \in DOMAIN chain[r] |-> chain[r][i].to]
<1>1. /\ n \in Nat /\ DOMAIN chain[r] = 1 .. n
      /\ state[r] = Replay(chain[r]) /\ chain[r] \in Seq(Entry)
  BY DEF TypeOK, ChainLinked
<1>2. \A i \in 1 .. n : chain[r][i].to \in State
  <2>1. \A i \in 1 .. n : chain[r][i] \in Entry
    BY <1>1
  <2> QED
    BY <2>1 DEF Entry
<1>3. h \in Seq(State) /\ Len(h) = n
  BY <1>1, <1>2
<1>4. Abstract!Last(r) = IF h = <<>> THEN "drafted" ELSE h[Len(h)]
  BY DEF Abstract!Last
<1>5. CASE n = 0
  <2>1. h = <<>> /\ chain[r] = <<>>
    BY <1>1, <1>3, <1>5
  <2> QED
    BY <1>1, <1>4, <2>1 DEF Replay
<1>6. CASE n # 0
  <2>1. h # <<>> /\ chain[r] # <<>> /\ n \in 1 .. n
    BY <1>1, <1>3, <1>6
  <2>2. h[Len(h)] = chain[r][n].to
    BY <1>1, <1>3, <2>1
  <2> QED
    BY <1>1, <1>4, <2>1, <2>2 DEF Replay
<1> QED
  BY <1>5, <1>6

\* A transition is one step of RowChain.
LEMMA TransitionExtends ==
    ASSUME TypeOK, ChainLinked, SettledIsProven, NEW r \in Row,
           NEW to \in State, NEW a \in Worker, NEW verdict \in Severity,
           Transition(r, to, a, verdict)
    PROVE  Abstract!Next
<1> DEFINE e == NewEntry(r, to, a, verdict)
<1>1. /\ e \in Entry /\ e.to \in {to, "escalated"} /\ Permitted(r, to, a)
      /\ chain[r] \in Seq(Entry) /\ chain'[r] = Append(chain[r], e)
      /\ \A s \in Row \ {r} : chain'[s] = chain[s]
      /\ Len(chain[r]) \in Nat
      /\ DOMAIN chain[r] = 1 .. Len(chain[r])
      /\ DOMAIN chain'[r] = 1 .. Len(chain[r]) + 1
      /\ chain'[r][Len(chain[r]) + 1] = e
      /\ \A i \in DOMAIN chain[r] : chain'[r][i] = chain[r][i]
  BY TransitionEffect
<1>2. \A s \in Row : Abstract!Last(s) = state[s]
  BY LastIsState
<1> HIDE DEF e
<1>3. e.to \in Edges[Abstract!Last(r)] \cup {"escalated"}
  BY <1>1, <1>2 DEF Permitted
<1>4. e.to = "in_progress" =>
          \A b \in Blocker[r] : Abstract!Came(b, "verified")
  <2> SUFFICES ASSUME e.to = "in_progress", NEW b \in Blocker[r]
               PROVE  Abstract!Came(b, "verified")
    OBVIOUS
  <2>1. b \in Row
    BY ConstantsAssumption
  <2>2. state[b] \in Settled
    BY <1>1 DEF Permitted, MayStart
  <2>3. \E i \in DOMAIN chain[b] : chain[b][i].to = "verified"
    BY <2>1, <2>2 DEF SettledIsProven
  <2> QED
    BY <2>1, <2>3 DEF Abstract!Came
<1>5. Histories' = [Histories EXCEPT ![r] = Append(@, e.to)]
  <2> DEFINE h == [i \in DOMAIN chain[r] |-> chain[r][i].to]
             k == [i \in DOMAIN chain'[r] |-> chain'[r][i].to]
  <2>1. \A i \in DOMAIN chain[r] : chain[r][i].to \in State
    <3>1. \A i \in DOMAIN chain[r] : chain[r][i] \in Entry
      BY <1>1
    <3> QED
      BY <3>1 DEF Entry
  <2>2. h \in Seq(State) /\ Len(h) = Len(chain[r])
    BY <1>1, <2>1
  <2>3. e.to \in State
    BY <1>1 DEF Entry
  <2>4. k = Append(h, e.to)
    BY <1>1, <2>2, <2>3
  <2>5. \A s \in Row \ {r} :
            [i \in DOMAIN chain'[s] |-> chain'[s][i].to]
                = [i \in DOMAIN chain[s] |-> chain[s][i].to]
    BY <1>1
  <2> QED
    BY <2>4, <2>5 DEF Histories
<1> QED
  BY <1>3, <1>4, <1>5 DEF Abstract!Next, Abstract!Extend, Histories

\* Whatever its callers do, the ledger implements the promise of RowChain:
\* one append-only history for each row.
THEOREM Implements == Spec => Promise
<1>1. Init => Abstract!Init
  BY DEF Init, Abstract!Init
<1>2. TypeOK /\ ChainLinked /\ SettledIsProven /\ [Next]_vars
        => [Abstract!Next]_Histories
  <2> SUFFICES ASSUME TypeOK, ChainLinked, SettledIsProven, [Next]_vars
               PROVE  Abstract!Next \/ UNCHANGED Histories
    OBVIOUS
  <2>1. CASE Aside \/ UNCHANGED vars
    <3>1. chain' = chain
      BY <2>1, AsideEffect
    <3> QED
      BY <3>1 DEF Histories
  <2> QED
    BY <2>1, TransitionExtends DEF Next, Aside
<1> QED
  BY <1>1, <1>2, TypeCorrect, ChainsAreLinked, SettledRowsAreProven, PTL
     DEF Spec, Promise, Abstract!Spec, Histories

-----------------------------------------------------------------------------
(* The invariants of the workflows, judged in every move.                  *)

\* The invariant of the workflows that keeps a mail from leaving: it blocks.
MailInvariant ==
    [severity |-> "block", expression |->
        [form |-> "implies",
         if   |-> [form |-> "truthy", left |-> <<"welcome_email", "outputs", "sent">>],
         then |-> [form |-> "equal", left |-> <<"welcome_email", "approved_by", "kind">>,
                   right |-> <<"person">>]]]

\* An invariant that escalates speaks of the row of another key, and no row is given an
\* input of that name.
EscalatesElsewhere(d) ==
    /\ d.expression.form = "lacks"
    /\ Head(d.expression.left) \notin {"welcome_email", "row", "this", "actor", "payload", "approved_by"}
    /\ \A r \in Row : Head(d.expression.left) \notin DOMAIN Given[r].inputs
    /\ Tail(d.expression.left) # <<>>

MailGuarded ==
    /\ MailInvariant \in Definition
    /\ \A d \in Definition : d.severity = "escalate" => EscalatesElsewhere(d)

\* One step of a fold.
FollowOne(found, name) == {v[name] : v \in {w \in found : name \in DOMAIN w}}

\* Following no name, one and two.
LEMMA FollowsNone == ASSUME NEW values PROVE Follow(values, <<>>) = values
<1>1. DOMAIN <<>> = {}
  OBVIOUS
<1> QED
  BY <1>1 DEF Follow, FoldLeft, MapThenFoldSet

LEMMA LastOfTwo == Max({1}) = 1 /\ Max({2}) = 2 /\ Max({1, 2}) = 2
BY DEF Max

LEMMA FollowsTwo ==
    ASSUME NEW values, NEW first, NEW second
    PROVE  Follow(values, <<first, second>>) = FollowOne(FollowOne(values, first), second)
<1> DEFINE names == <<first, second>>
           d == SUBSET {1, 2}
           one == FollowOne(values, first)
           two == FollowOne(one, second)
           Body(it, s) == IF s = {} THEN values
                          ELSE LET x == Max(s) IN FollowOne(it[s \ {x}], names[x])
           it == CHOOSE f : f = [s \in d |-> Body(f, s)]
           w == [s \in d |-> IF s = {} THEN values
                             ELSE IF s = {1} THEN one
                             ELSE IF s = {2} THEN FollowOne(values, second) ELSE two]
<1>1. /\ \A s \in d : s = {} \/ s = {1} \/ s = {2} \/ s = {1, 2}
      /\ {} \in d /\ {1} \in d /\ {2} \in d /\ {1, 2} \in d
  OBVIOUS
<1>2. names[1] = first /\ names[2] = second /\ DOMAIN names = {1, 2}
  OBVIOUS
<1>3. {1} # {} /\ {2} # {} /\ {1, 2} # {} /\ {1} # {2} /\ {1, 2} # {1} /\ {1, 2} # {2}
  OBVIOUS
<1>4. {1} \ {1} = {} /\ {2} \ {2} = {} /\ {1, 2} \ {2} = {1}
  OBVIOUS
<1>5. w[{}] = values /\ w[{1}] = one /\ w[{2}] = FollowOne(values, second) /\ w[{1, 2}] = two
  <2> HIDE DEF d, one, two
  <2> QED
    BY <1>1, <1>3
<1>6. \A s \in d : w[s] = Body(w, s)
  <2>1. Body(w, {}) = values
    OBVIOUS
  <2>2. Body(w, {1}) = FollowOne(w[{}], first)
    BY <1>2, <1>3, <1>4, LastOfTwo
  <2>3. Body(w, {2}) = FollowOne(w[{}], second)
    BY <1>2, <1>3, <1>4, LastOfTwo
  <2>4. Body(w, {1, 2}) = FollowOne(w[{1}], second)
    BY <1>2, <1>3, <1>4, LastOfTwo
  <2> HIDE DEF Body, w, d
  <2> QED
    BY <1>1, <1>5, <2>1, <2>2, <2>3, <2>4
<1>7. w = [s \in d |-> Body(w, s)]
  <2>1. w = [s \in d |-> w[s]]
    OBVIOUS
  <2> HIDE DEF Body, w, d
  <2> QED
    BY <1>6, <2>1
<1>8. it = [s \in d |-> Body(it, s)]
  <2> HIDE DEF Body, w, d
  <2> QED
    BY <1>7
<1>9. it[{}] = Body(it, {}) /\ it[{1}] = Body(it, {1}) /\ it[{1, 2}] = Body(it, {1, 2})
  <2> HIDE DEF Body, it, d
  <2> QED
    BY <1>1, <1>8
<1>10. it[{1, 2}] = two
  <2> HIDE DEF it
  <2>1. it[{1}] = one
    BY <1>2, <1>3, <1>4, <1>9, LastOfTwo
  <2> QED
    BY <1>2, <1>3, <1>4, <1>9, <2>1, LastOfTwo
<1>11. Follow(values, names) = it[DOMAIN names]
  BY DEF Follow, FoldLeft, MapThenFoldSet, FollowOne
<1> QED
  BY <1>2, <1>10, <1>11

\* A move as the ledger judges it.
MoveOf(r, to, a, payload) == [row |-> r, to |-> to, actor |-> a, payload |-> payload]

\* What of a row a mail's invariant reads.
LEMMA ViewOf ==
    ASSUME NEW r \in Row, NEW to, NEW a \in Worker, NEW payload \in Payloads(to, a)
    PROVE  LET v == RowView(MoveOf(r, to, a, payload)) IN
           /\ "outputs" \in DOMAIN v /\ v["outputs"] = outputs[r]
           /\ "approved_by" \in DOMAIN v <=> to = "verified"
           /\ to = "verified" => v["approved_by"] = ActorView(a)
           /\ "approved_by" \in DOMAIN payload => to = "verified"
           /\ DOMAIN payload \subseteq {"approved_by"}
<1> DEFINE m == MoveOf(r, to, a, payload)
           by == [approved_by |-> ActorView(a)]
<1>1. m.row = r /\ m.to = to /\ m.actor = a /\ m.payload = payload
  BY DEF MoveOf
<1>2. DOMAIN by = {"approved_by"} /\ by.approved_by = ActorView(a) /\ DOMAIN <<>> = {}
  OBVIOUS
<1>3. payload = <<>> \/ (to = "verified" /\ payload = by)
  BY DEF Payloads
<1> HIDE DEF m
<1>4. Approval(m) = IF to = "verified" THEN {ActorView(a)} ELSE {}
  <2> HIDE DEF by
  <2> QED
    BY <1>1, <1>2, <1>3 DEF Approval
<1>5. /\ DOMAIN RowView(m) = {"key", "state", "from", "outputs", "actor", "inputs", "owner", "check"}
                                  \cup {"approved_by" : x \in Approval(m)}
      /\ RowView(m)["outputs"] = outputs[r]
  <2>1. {"sent_by"} \cap DOMAIN payload = {}
    BY <1>2, <1>3
  <2> QED
    BY <1>1, <2>1, GivenAssumption DEF RowView
<1>6. to = "verified" => RowView(m)["approved_by"] = ActorView(a)
  BY <1>4 DEF RowView
<1> QED
  BY <1>2, <1>3, <1>4, <1>5, <1>6 DEF m

\* A row that was sent is not moved but by a person who verifies it.
LEMMA MailJudged ==
    ASSUME MailGuarded, NEW r \in Row, Key[r] = "welcome_email", Sent(r),
           NEW to, NEW a \in Worker, NEW payload \in Payloads(to, a),
           Judge(MoveOf(r, to, a, payload)) # "block"
    PROVE  to = "verified" /\ a \in Person
<1> DEFINE m == MoveOf(r, to, a, payload)
           v == RowView(m)
           e == MailInvariant.expression
<1>1. m.row = r /\ m.to = to /\ m.actor = a /\ m.payload = payload
  BY DEF MoveOf
<1>2. /\ "outputs" \in DOMAIN v /\ v["outputs"] = outputs[r]
      /\ "approved_by" \in DOMAIN v <=> to = "verified"
      /\ to = "verified" => v["approved_by"] = ActorView(a)
      /\ DOMAIN payload \subseteq {"approved_by"}
  BY ViewOf
<1>3. /\ e.form = "implies" /\ e.if.form = "truthy" /\ e.then.form = "equal"
      /\ e.if.left = <<"welcome_email", "outputs", "sent">>
      /\ e.then.left = <<"welcome_email", "approved_by", "kind">>
      /\ e.then.right = <<"person">>
      /\ MailInvariant.severity = "block"
  BY DEF MailInvariant
<1> HIDE DEF m, v, e
<1>4. Resolve(e.if.left, m) = {outputs[r].sent}
  <2>1. Resolve(e.if.left, m) = Follow({v}, <<"outputs", "sent">>)
    BY <1>1, <1>3 DEF Resolve, v
  <2>2. FollowOne({v}, "outputs") = {outputs[r]}
    BY <1>2 DEF FollowOne
  <2>3. FollowOne({outputs[r]}, "sent") = {outputs[r].sent}
    BY DEF FollowOne, Sent
  <2> QED
    BY <2>1, <2>2, <2>3, FollowsTwo
<1>5. Shown(Says(e.if, m))
  <2>1. Says(e.if, m) = {x \notin Falsy : x \in Resolve(e.if.left, m)}
    BY <1>3 DEF Says
  <2> QED
    BY <1>4, <2>1 DEF Shown, Sent
<1>6. Scope(e) = {"welcome_email"}
  <2>1. Len(e.if.left) = 3 /\ Head(e.if.left) = "welcome_email"
    BY <1>3
  <2> QED
    BY <1>3, <2>1 DEF Scope
<1>7. Evaluate(e, m) = {Shown(Says(e.then, m))}
  BY <1>1, <1>3, <1>5, <1>6 DEF Evaluate
<1>8. Shown(Says(e.then, m))
  <2> SUFFICES ASSUME ~ Shown(Says(e.then, m)) PROVE FALSE
    OBVIOUS
  <2>1. Evaluate(e, m) = {FALSE}
    BY <1>7 DEF Shown
  <2>2. MailInvariant \in Violations(m)
    BY <2>1 DEF Violations, MailGuarded, e
  <2>3. "block" \in {d.severity : d \in Violations(m)}
    BY <1>3, <2>2
  <2> QED
    BY <2>3 DEF Judge, m
<1>9. Resolve(e.then.right, m) = {"person"}
  <2>1. /\ Head(e.then.right) = "person" /\ Tail(e.then.right) = <<>>
    BY <1>3
  <2> QED
    BY <1>1, <2>1 DEF Resolve
<1>10. Resolve(e.then.left, m) = FollowOne(FollowOne({v}, "approved_by"), "kind")
  <2>1. Resolve(e.then.left, m) = Follow({v}, <<"approved_by", "kind">>)
    BY <1>1, <1>3 DEF Resolve, v
  <2> QED
    BY <2>1, FollowsTwo
<1>11. \E l \in Resolve(e.then.left, m) : l = "person"
  <2> DEFINE sides == Resolve(e.then.left, m) \X Resolve(e.then.right, m)
  <2>1. Says(e.then, m) = {s[1] = s[2] : s \in sides}
    BY <1>3 DEF Says
  <2>2. {s[1] = s[2] : s \in sides} = {TRUE}
    BY <1>8, <2>1 DEF Shown
  <2> HIDE DEF sides
  <2>3. PICK s \in sides : TRUE = (s[1] = s[2])
    BY <2>2, Zenon
  <2> QED
    BY <1>9, <2>3 DEF sides
<1>12. to = "verified"
  BY <1>2, <1>10, <1>11 DEF FollowOne
<1>13. ActorView(a).kind = "person"
  BY <1>2, <1>10, <1>11, <1>12 DEF FollowOne
<1> QED
  BY <1>12, <1>13 DEF ActorView

\* Nothing routes it to a person either.
LEMMA MailNotRouted ==
    ASSUME MailGuarded, NEW r \in Row, Key[r] = "welcome_email",
           NEW to, NEW a \in Worker, NEW payload \in Payloads(to, a)
    PROVE  Judge(MoveOf(r, to, a, payload)) # "escalate"
<1> DEFINE m == MoveOf(r, to, a, payload)
<1>1. m.row = r /\ m.to = to /\ m.actor = a /\ m.payload = payload
  BY DEF MoveOf
<1>2. DOMAIN payload \subseteq {"approved_by"}
  BY ViewOf
<1> HIDE DEF m
<1>3. ASSUME NEW d \in Definition, d.severity = "escalate", Evaluate(d.expression, m) = {FALSE}
      PROVE  FALSE
  <2> DEFINE e == d.expression
  <2>1. EscalatesElsewhere(d)
    BY <1>3 DEF MailGuarded
  <2>2. Resolve(e.left, m) = {}
    BY <1>1, <1>2, <2>1 DEF Resolve, EscalatesElsewhere
  <2>3. Says(e, m) = {x \cap e.words = {} : x \in Resolve(e.left, m)}
    BY <2>1 DEF Says, EscalatesElsewhere
  <2>4. Evaluate(e, m) \in {{}, Says(e, m)}
    BY <2>1 DEF Evaluate, EscalatesElsewhere
  <2> QED
    BY <1>3, <2>2, <2>3, <2>4
<1>4. "escalate" \notin {d.severity : d \in Violations(m)}
  BY <1>3 DEF Violations
<1> QED
  BY <1>4 DEF Judge, m

\* A judged move is a move of the ledger.
LEMMA JudgedMoves == [JudgedNext]_judgedVars => [Next]_vars
<1> SUFFICES ASSUME [JudgedNext]_judgedVars PROVE [Next]_vars
  OBVIOUS
<1>1. ASSUME NEW r \in Row, NEW to \in State, NEW a \in Worker, JudgedTransition(r, to, a)
      PROVE  Next
  <2>1. PICK verdict : verdict \in Severity /\ Transition(r, to, a, verdict)
    BY <1>1 DEF JudgedTransition, Judge, Severity
  <2> QED
    BY <2>1 DEF Next
<1>2. ASSUME NEW r \in Row, RecordPass(r), UNCHANGED <<chain, outputs>> PROVE Next
  BY <1>2 DEF Next
<1>3. ASSUME NEW r \in Row, SetOutputs(r) PROVE UNCHANGED vars
  BY <1>3 DEF SetOutputs
<1>4. CASE UNCHANGED judgedVars
  BY <1>4 DEF judgedVars
<1> QED
  BY <1>1, <1>2, <1>3, <1>4 DEF JudgedNext

LEMMA JudgedType == JudgedSpec => []TypeOK
<1>1. InitJudged => TypeOK
  BY DEF InitJudged, Init, InitLedger, TypeOK, LedgerTypeOK, State
<1> QED
  BY <1>1, JudgedMoves, TypeStep, PTL DEF JudgedSpec

\* "No email leaves without approval", in any run whose invariants keep the mail: a
\* row whose outputs say that it was sent is moved by a person's verification only,
\* whatever the other invariants are and whoever sets outputs when.
THEOREM MailsLeaveApproved ==
    ASSUME MailGuarded
    PROVE  JudgedSpec => MailLeavesApproved
<1> DEFINE Moved(r) == Key[r] = "welcome_email" /\ Sent(r) /\ chain'[r] # chain[r]
           Entered(r) == LET entry == chain'[r][Len(chain'[r])]
                         IN  entry.to = "verified" /\ entry.actor \in Person
<1>1. ASSUME TypeOK, [JudgedNext]_judgedVars, NEW r \in Row \ HumanCheck, Moved(r)
      PROVE  Entered(r)
  <2>1. PICK q \in Row, to \in State, a \in Worker : JudgedTransition(q, to, a)
    <3>1. chain' # chain
      BY <1>1
    <3> QED
      BY <1>1, <3>1 DEF JudgedNext, SetOutputs, judgedVars, vars
  <2>2. PICK payload \in Payloads(to, a) :
            Transition(q, to, a, Judge(MoveOf(q, to, a, payload)))
    BY <2>1 DEF JudgedTransition, MoveOf
  <2> DEFINE verdict == Judge(MoveOf(q, to, a, payload))
  <2>3. verdict \in Severity /\ verdict # "block"
    BY <2>2 DEF Judge, Severity, Transition, Move
  <2> HIDE DEF verdict
  <2>4. Transition(q, to, a, verdict)
    BY <2>2 DEF verdict
  <2>5. /\ chain'[q] = Append(chain[q], NewEntry(q, to, a, verdict))
        /\ chain[q] \in Seq(Entry)
        /\ \A s \in Row \ {q} : chain'[s] = chain[s]
    BY <1>1, <2>3, <2>4, TransitionEffect
  <2>6. q = r
    BY <1>1, <2>5
  <2>7. to = "verified" /\ a \in Person
    BY <1>1, <2>3, <2>6, MailJudged DEF verdict
  <2>8. verdict = "hold"
    BY <1>1, <2>3, <2>6, MailNotRouted DEF verdict, Severity
  <2>9. chain'[r][Len(chain'[r])] = NewEntry(q, to, a, verdict)
    BY <2>5, <2>6
  <2> QED
    BY <2>7, <2>8, <2>9 DEF NewEntry, FinalState
<1>2. TypeOK /\ [JudgedNext]_judgedVars
        => [\A r \in Row \ HumanCheck : Moved(r) => Entered(r)]_judgedVars
  BY <1>1
<1> QED
  BY <1>2, JudgedType, PTL DEF JudgedSpec, MailLeavesApproved

=============================================================================
