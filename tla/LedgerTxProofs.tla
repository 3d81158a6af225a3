--------------------------- MODULE LedgerTxProofs ---------------------------
(***************************************************************************)
(* Proofs about LedgerTx for every set of rows, workers, transactions and  *)
(* calls, and for any number of deaths.  What a transaction has read holds *)
(* of the database until it ends, because the lock keeps the others out;   *)
(* from that, chains are whole, no attempt is lost and the statements of   *)
(* all transactions together implement RowChain.                           *)
(***************************************************************************)
EXTENDS LedgerTx, FiniteSetTheorems, TLAPS

(* The inductive invariant, in named parts.                                *)

\* Where a transaction holds its lock, and where it has read its contract.
Holding == {"locked", "read", "gated", "judged", "ready"}
HasRead == Holding \ {"locked"}

RowOf(t) == Call[t].row

\* The lock of a row is held by the one transaction on it that is past taking it.
LockIsHeld ==
    /\ \A t \in Tx : pc[t] \in Holding => lock[RowOf(t)] = t
    /\ \A r \in Row, t \in Tx : lock[r] = t => pc[t] \in Holding /\ RowOf(t) = r

\* The contract as it was read is the contract as it is.
SeenIsCurrent ==
    \A t \in Tx : pc[t] \in HasRead =>
        seen[t] = [state |-> state[RowOf(t)], attempts |-> attempts[RowOf(t)]]

\* What a transaction passed on its way: the table of edges, and blockers that
\* were settled then and so have been verified at some time.
VerifiedOnce(r) == \E e \in Entries(r) : e.to = "verified"

GatesPassed ==
    \A t \in Tx :
        /\ pc[t] \in {"gated", "judged", "ready"} => Call[t].to \in Edges[seen[t].state]
        /\ pc[t] \in {"judged", "ready"} /\ Call[t].to = "in_progress" =>
               \A b \in Blocker[RowOf(t)] : VerifiedOnce(b)

IsLast(e, rows) == e \in rows /\ \A f \in rows : f.seq <= e.seq

\* The last entry as it was read is the last entry as it is.
TailIsLast ==
    \A t \in Tx : pc[t] = "ready" =>
        \/ Entries(RowOf(t)) = {} /\ tail[t] = {}
        \/ \E e \in Entries(RowOf(t)) : IsLast(e, Entries(RowOf(t))) /\ tail[t] = {e}

\* The sequence numbers of n entries are 0 to n - 1, each once.
Numbered(rows, n) ==
    /\ n \in Nat
    /\ \A e \in rows : e.seq \in 0 .. (n - 1)
    /\ \A e, f \in rows : e.seq = f.seq => e = f
    /\ \A i \in 0 .. (n - 1) : \E e \in rows : e.seq = i

\* Each entry is sealed, and stands on the one before it.
Chained(rows) ==
    \A e \in rows :
        /\ e.hash = TransitionHash(e)
        /\ IF e.seq = 0 THEN e.prev = Nothing
           ELSE \E p \in rows : p.seq = e.seq - 1 /\ p.hash = e.prev

ChainsAreWhole ==
    \A r \in Row : Numbered(Entries(r), Cardinality(Entries(r))) /\ Chained(Entries(r))

\* The contract is where the last entry left it.
StateIsLast ==
    \A r \in Row :
        /\ Entries(r) = {} => state[r] = "drafted"
        /\ \A e \in Entries(r) : IsLast(e, Entries(r)) => state[r] = e.to

\* A settled row was verified.
SettledWasVerified == \A r \in Row : state[r] \in Settled => VerifiedOnce(r)

NoConflict == \A t \in Tx : pc[t] # "conflict"

IInv ==
    /\ TypeOK
    /\ LockIsHeld
    /\ SeenIsCurrent
    /\ GatesPassed
    /\ TailIsLast
    /\ ChainsAreWhole
    /\ StateIsLast
    /\ SettledWasVerified
    /\ NoConflict
    /\ NoLostAttempt

-----------------------------------------------------------------------------
(* Numbered sets of entries.                                               *)

\* Entries numbered from 0 to n - 1 are n.
LEMMA NumberedCount ==
    ASSUME NEW rows, NEW n, Numbered(rows, n)
    PROVE  IsFiniteSet(rows) /\ Cardinality(rows) = n
<1> DEFINE f == [i \in 0 .. (n - 1) |-> CHOOSE e \in rows : e.seq = i]
<1>1. n \in Nat /\ \A i \in 0 .. (n - 1) : f[i] \in rows /\ f[i].seq = i
  BY DEF Numbered
<1>2. \A e \in rows : e.seq \in 0 .. (n - 1) /\ f[e.seq] = e
  BY <1>1 DEF Numbered
<1>3. f \in Bijection(0 .. (n - 1), rows)
  <2>1. f \in [0 .. (n - 1) -> rows]
    BY <1>1
  <2>2. \A i, j \in 0 .. (n - 1) : f[i] = f[j] => i = j
    BY <1>1
  <2> HIDE DEF f
  <2> QED
    BY <1>2, <2>1, <2>2 DEF Bijection, Injection, Surjection, IsInjective
<1>4. ExistsBijection(0 .. (n - 1), rows)
  BY <1>3 DEF ExistsBijection
<1>5. IsFiniteSet(0 .. (n - 1)) /\ Cardinality(0 .. (n - 1)) = n
  <2>1. \A i, j \in Int : IsFiniteSet(i .. j) /\ Cardinality(i .. j) = IF i > j THEN 0 ELSE j - i + 1
    BY FS_Interval, Zenon
  <2>2. PICK k \in Int : k = n - 1
    BY <1>1
  <2>3. IsFiniteSet(0 .. k) /\ Cardinality(0 .. k) = IF 0 > k THEN 0 ELSE k - 0 + 1
    BY <2>1
  <2> QED
    BY <1>1, <2>2, <2>3
<1> QED
  BY <1>4, <1>5, FS_Bijection

\* Before an entry stand as many as its number says.
LEMMA EarlierCount ==
    ASSUME NEW rows, NEW n, Numbered(rows, n), NEW e \in rows
    PROVE  Cardinality({f \in rows : f.seq < e.seq}) = e.seq
<1>1. Numbered({f \in rows : f.seq < e.seq}, e.seq)
  BY DEF Numbered
<1> QED
  BY <1>1, NumberedCount

\* The last of n entries has the number n - 1, and is one they have.
LEMMA LastOfNumbered ==
    ASSUME NEW rows, NEW n, Numbered(rows, n)
    PROVE  /\ rows = {} <=> n = 0
           /\ \A e : IsLast(e, rows) <=> e \in rows /\ e.seq = n - 1
           /\ rows # {} => IsLast(Last(rows), rows)
<1>1. rows = {} <=> n = 0
  BY DEF Numbered
<1>2. ASSUME NEW e PROVE IsLast(e, rows) <=> e \in rows /\ e.seq = n - 1
  BY DEF Numbered, IsLast
<1>3. ASSUME rows # {} PROVE IsLast(Last(rows), rows)
  <2>1. \E e \in rows : e.seq = n - 1
    BY <1>1, <1>3 DEF Numbered
  <2>2. \E e \in rows : \A f \in rows : f.seq <= e.seq
    BY <2>1, <1>2 DEF IsLast
  <2> QED
    BY <2>2 DEF Last, IsLast
<1> QED
  BY <1>1, <1>2, <1>3

\* One more with the next number leaves them numbered.
LEMMA NumberedGrows ==
    ASSUME NEW rows, NEW n, Numbered(rows, n), NEW e, e.seq = n
    PROVE  Numbered(rows \cup {e}, n + 1)
BY DEF Numbered

\* Whole chains are what verifyAllChains() looks for.
LEMMA WholeVerify == ChainsAreWhole => Broken = {}
<1> SUFFICES ASSUME ChainsAreWhole, NEW r \in Row PROVE VerifyChainRows(Entries(r))
  BY DEF Broken
<1>1. Numbered(Entries(r), Cardinality(Entries(r))) /\ Chained(Entries(r))
  BY DEF ChainsAreWhole
<1>2. \A e \in Entries(r) : e.seq = Cardinality({f \in Entries(r) : f.seq < e.seq})
  BY <1>1, EarlierCount
<1> QED
  BY <1>1, <1>2 DEF VerifyChainRows, Chained

-----------------------------------------------------------------------------
(* What a step does to the table.                                          *)

LEMMA CallType ==
    ASSUME NEW t \in Tx
    PROVE  RowOf(t) \in Row /\ Call[t].row = RowOf(t) /\ Call[t].to \in State /\ Call[t].actor \in Worker
BY CallAssumption DEF RowOf

\* The columns of the entry a transaction inserts.
LEMMA EntryColumns ==
    ASSUME NEW t, NEW final
    PROVE  LET e == Entry(t, final) IN
           /\ e.row = RowOf(t) /\ e.seq = NextSeq(t) /\ e.prev = PrevHash(t)
           /\ e.from = FromState(t) /\ e.to = final /\ e.actor = Call[t].actor /\ e.at = now[t]
           /\ e.hash = TransitionHash(e)
BY DEF Entry, TransitionHash, RowOf

Rows(t) == Entries(RowOf(t))

Length(t) == Cardinality(Rows(t))

\* A transaction that is ready has read the end of its chain as it is, so its
\* entry is the next one.
LEMMA EntryIsNext ==
    ASSUME IInv, NEW t \in Tx, pc[t] = "ready", NEW final
    PROVE  /\ Length(t) \in Nat /\ Entry(t, final).seq = Length(t)
           /\ IF Length(t) = 0 THEN Entry(t, final).prev = Nothing
              ELSE \E p \in Rows(t) : p.seq = Length(t) - 1 /\ p.hash = Entry(t, final).prev
<1>1. Numbered(Rows(t), Length(t))
  BY CallType DEF IInv, ChainsAreWhole, Rows, Length
<1>2. /\ Rows(t) = {} <=> Length(t) = 0
      /\ \A p : IsLast(p, Rows(t)) <=> p \in Rows(t) /\ p.seq = Length(t) - 1
      /\ Length(t) \in Nat
  BY <1>1, LastOfNumbered DEF Numbered
<1>3. Entry(t, final).seq = NextSeq(t) /\ Entry(t, final).prev = PrevHash(t)
  BY EntryColumns
<1>4. \/ Rows(t) = {} /\ tail[t] = {}
      \/ \E p \in Rows(t) : IsLast(p, Rows(t)) /\ tail[t] = {p}
  BY DEF IInv, TailIsLast, Rows
<1>5. CASE Rows(t) = {} /\ tail[t] = {}
  BY <1>2, <1>3, <1>5 DEF NextSeq, PrevHash
<1>6. ASSUME NEW p \in Rows(t), IsLast(p, Rows(t)), tail[t] = {p}
      PROVE  /\ NextSeq(t) = Length(t) /\ Length(t) # 0
             /\ p.seq = Length(t) - 1 /\ p.hash = PrevHash(t)
  <2>1. Previous(t) = p /\ tail[t] # {}
    BY <1>6 DEF Previous
  <2>2. p.seq = Length(t) - 1 /\ Length(t) # 0
    BY <1>2, <1>6
  <2> QED
    BY <1>2, <2>1, <2>2 DEF NextSeq, PrevHash
<1> QED
  BY <1>2, <1>3, <1>4, <1>5, <1>6

\* What a commit that takes does: one entry, and the contract where the entry says.
Appended(t, final) ==
    /\ pc[t] = "ready"
    /\ table' = table \cup {Entry(t, final)}
    /\ state' = [state EXCEPT ![RowOf(t)] = final]
    /\ attempts' = [attempts EXCEPT ![RowOf(t)] = IF final = "in_progress" THEN @ + 1 ELSE @]
    /\ UNCHANGED <<passing, attached, revoked>>
    /\ End(t, "committed")

\* The state it lands in is an edge from where the row is, or with a person, and it
\* is a start only if that was asked for.
Allowed(t, final) ==
    /\ final \in State
    /\ final \in Edges[state[RowOf(t)]] \cup {"escalated"}
    /\ final = "in_progress" => Call[t].to = "in_progress"

\* A commit appends or refuses; the unique index has nothing to object to.
LEMMA CommitAppends ==
    ASSUME IInv, NEW t \in Tx, NEW verdict \in Severity, Commit(t, verdict)
    PROVE  Refuse(t) \/ \E final : Appended(t, final) /\ Allowed(t, final)
<1> DEFINE final == FinalState(Call[t].to, verdict)
           rows == Entries(RowOf(t))
           e == Entry(t, final)
<1>1. pc[t] = "ready" /\ RowOf(t) \in Row /\ Call[t].row = RowOf(t) /\ Call[t].to \in State
  BY CallType DEF Commit
<1>2. \A f \in rows : f.seq # e.seq
  <2>1. e.seq = Cardinality(rows) /\ Numbered(rows, Cardinality(rows))
    BY <1>1, EntryIsNext DEF IInv, ChainsAreWhole, Rows, Length
  <2> QED
    BY <2>1 DEF Numbered
<1>3. seen[t] = [state |-> state[RowOf(t)], attempts |-> attempts[RowOf(t)]]
  BY <1>1 DEF IInv, SeenIsCurrent, HasRead, Holding
<1>4. Allowed(t, final)
  <2>1. Call[t].to \in Edges[state[RowOf(t)]]
    BY <1>1, <1>3 DEF IInv, GatesPassed
  <2> QED
    BY <1>1, <2>1 DEF Allowed, FinalState, State
<1>5. CASE verdict = "block"
  BY <1>5 DEF Commit
<1>6. CASE verdict # "block"
  <2>1. /\ table' = table \cup {e}
        /\ state' = [state EXCEPT ![RowOf(t)] = final]
        /\ attempts' = [attempts EXCEPT ![RowOf(t)] =
                            IF Starts(Call[t].to, final) THEN seen[t].attempts + 1 ELSE @]
        /\ UNCHANGED <<passing, attached, revoked>>
        /\ End(t, "committed")
    BY <1>1, <1>2, <1>6 DEF Commit
  <2>2. attempts \in [Row -> Nat]
    BY DEF IInv, TypeOK, LedgerTypeOK
  <2>3. attempts' = [attempts EXCEPT ![RowOf(t)] = IF final = "in_progress" THEN @ + 1 ELSE @]
    BY <1>1, <1>3, <2>1, <2>2 DEF Starts
  <2> QED
    BY <1>1, <1>4, <2>1, <2>3 DEF Appended
<1> QED
  BY <1>5, <1>6

\* Every other step leaves the entries and the contracts as they are.
LEMMA TableStep ==
    ASSUME IInv, [Next]_vars
    PROVE  \/ UNCHANGED <<table, state, attempts>>
           \/ \E t \in Tx : \E final : Appended(t, final) /\ Allowed(t, final)
<1>1. ASSUME NEW t \in Tx, Begin(t) \/ TakeLock(t) \/ ReadContract(t) \/ ReadTail(t)
      PROVE  UNCHANGED <<table, state, attempts>>
  BY <1>1 DEF Begin, TakeLock, ReadContract, ReadTail, ledgerVars
<1>2. ASSUME NEW t \in Tx, CheckActor(t) \/ CheckGates(t) \/ Die(t)
      PROVE  UNCHANGED <<table, state, attempts>>
  BY <1>2 DEF CheckActor, CheckGates, Die, Proceed, Refuse, ledgerVars
<1>3. ASSUME NEW t \in Tx, NEW verdict \in Severity, Commit(t, verdict)
      PROVE  \/ UNCHANGED <<table, state, attempts>>
             \/ \E final : Appended(t, final) /\ Allowed(t, final)
  BY <1>3, CommitAppends DEF Refuse, ledgerVars
<1>4. ASSUME NEW r \in Row, RecordPass(r) \/ (\E kind \in Required[r] : AttachEvidence(r, kind)), Outside
      PROVE  UNCHANGED <<table, state, attempts>>
  BY <1>4 DEF RecordPass, AttachEvidence, Outside
<1>5. ASSUME NEW w \in Worker, ToggleStatus(w), Outside
      PROVE  UNCHANGED <<table, state, attempts>>
  BY <1>5 DEF ToggleStatus, Outside
<1>6. CASE UNCHANGED vars
  BY <1>6 DEF vars, ledgerVars
<1> QED
  BY <1>1, <1>2, <1>3, <1>4, <1>5, <1>6 DEF Next, Step

\* An entry goes to its row and to no other.
LEMMA AppendGoesTo ==
    ASSUME NEW t \in Tx, NEW final, Appended(t, final)
    PROVE  /\ Rows(t)' = Rows(t) \cup {Entry(t, final)}
           /\ \A r \in Row \ {RowOf(t)} : Entries(r)' = Entries(r)
           /\ \A r \in Row : Entries(r) \subseteq Entries(r)'
<1>1. table' = table \cup {Entry(t, final)} /\ Entry(t, final).row = RowOf(t)
  BY EntryColumns DEF Appended
<1> QED
  BY <1>1 DEF Entries, Rows

LEMMA WholeStep == IInv /\ [Next]_vars => ChainsAreWhole'
<1> SUFFICES ASSUME IInv, [Next]_vars PROVE ChainsAreWhole'
  OBVIOUS
<1>1. CASE UNCHANGED table
  BY <1>1 DEF IInv, ChainsAreWhole, Entries
<1>2. ASSUME NEW t \in Tx, NEW final, Appended(t, final)
      PROVE  ChainsAreWhole'
  <2> DEFINE e == Entry(t, final)
  <2>1. /\ Numbered(Rows(t), Length(t)) /\ Chained(Rows(t))
    BY CallType DEF IInv, ChainsAreWhole, Rows, Length
  <2>2. /\ e.seq = Length(t) /\ e.hash = TransitionHash(e) /\ Length(t) \in Nat
        /\ IF Length(t) = 0 THEN e.prev = Nothing
           ELSE \E p \in Rows(t) : p.seq = Length(t) - 1 /\ p.hash = e.prev
    BY <1>2, EntryIsNext, EntryColumns DEF Appended
  <2> HIDE DEF e
  <2>3. Numbered(Rows(t) \cup {e}, Length(t) + 1)
    BY <2>1, <2>2, NumberedGrows
  <2>4. Cardinality(Rows(t) \cup {e}) = Length(t) + 1
    BY <2>3, NumberedCount
  <2>5. Chained(Rows(t) \cup {e})
    BY <2>1, <2>2 DEF Chained
  <2>6. Rows(t)' = Rows(t) \cup {e} /\ \A r \in Row \ {RowOf(t)} : Entries(r)' = Entries(r)
    BY <1>2, AppendGoesTo DEF e
  <2>7. ASSUME NEW r \in Row
        PROVE  Numbered(Entries(r)', Cardinality(Entries(r)')) /\ Chained(Entries(r)')
    <3>1. CASE r = RowOf(t)
      <4>1. Entries(r)' = Rows(t) \cup {e}
        BY <2>6, <3>1, CallType DEF Rows, RowOf
      <4> QED
        BY <2>3, <2>4, <2>5, <4>1
    <3>2. CASE r # RowOf(t)
      BY <2>6, <3>2 DEF IInv, ChainsAreWhole
    <3> QED
      BY <3>1, <3>2
  <2> QED
    BY <2>7 DEF ChainsAreWhole, Numbered, Chained, TransitionHash
<1> QED
  BY <1>1, <1>2, TableStep

\* Entries are never taken away, so what was verified once was so for good.
LEMMA VerifiedStays ==
    ASSUME IInv, [Next]_vars, NEW r \in Row, VerifiedOnce(r)
    PROVE  VerifiedOnce(r)'
<1>1. table \subseteq table'
  BY TableStep DEF Appended
<1> QED
  BY <1>1 DEF VerifiedOnce, Entries

\* The entry that is appended is the last of its row, and nothing else is.
LEMMA AppendedIsLast ==
    ASSUME IInv, NEW t \in Tx, NEW final, Appended(t, final)
    PROVE  \A e : IsLast(e, Rows(t) \cup {Entry(t, final)}) <=> e = Entry(t, final)
<1> DEFINE new == Entry(t, final)
<1>1. Numbered(Rows(t), Length(t)) /\ new.seq = Length(t)
  BY CallType, EntryIsNext DEF IInv, ChainsAreWhole, Rows, Length, Appended
<1>2. Numbered(Rows(t) \cup {new}, Length(t) + 1)
  BY <1>1, NumberedGrows
<1> HIDE DEF new
<1>3. \A e : IsLast(e, Rows(t) \cup {new}) <=> e \in Rows(t) \cup {new} /\ e.seq = (Length(t) + 1) - 1
  BY <1>2, LastOfNumbered
<1>4. \A e \in Rows(t) : e.seq # Length(t)
  BY <1>1 DEF Numbered
<1>5. (Length(t) + 1) - 1 = Length(t)
  BY <1>1 DEF Numbered
<1> QED
  BY <1>1, <1>3, <1>4, <1>5 DEF new

LEMMA StateStep == IInv /\ [Next]_vars => StateIsLast'
<1> SUFFICES ASSUME IInv, [Next]_vars PROVE StateIsLast'
  OBVIOUS
<1>1. CASE UNCHANGED <<table, state>>
  BY <1>1 DEF IInv, StateIsLast, Entries, IsLast
<1>2. ASSUME NEW t \in Tx, NEW final, Appended(t, final)
      PROVE  StateIsLast'
  <2> DEFINE new == Entry(t, final)
  <2>1. /\ Rows(t)' = Rows(t) \cup {new} /\ \A r \in Row \ {RowOf(t)} : Entries(r)' = Entries(r)
        /\ RowOf(t) \in Row
    BY <1>2, AppendGoesTo, CallType
  <2>2. /\ state'[RowOf(t)] = final /\ \A r \in Row \ {RowOf(t)} : state'[r] = state[r]
    BY <1>2, <2>1 DEF Appended, IInv, TypeOK, LedgerTypeOK
  <2>3. new.to = final /\ \A e : IsLast(e, Rows(t) \cup {new}) <=> e = new
    BY <1>2, AppendedIsLast, EntryColumns
  <2> HIDE DEF new
  <2>4. ASSUME NEW r \in Row
        PROVE  /\ Entries(r)' = {} => state'[r] = "drafted"
               /\ \A e \in Entries(r)' : IsLast(e, Entries(r)') => state'[r] = e.to
    <3>1. CASE r = RowOf(t)
      <4>1. Entries(r)' = Rows(t) \cup {new}
        BY <2>1, <3>1, CallType DEF Rows, RowOf
      <4> QED
        BY <2>2, <2>3, <3>1, <4>1
    <3>2. CASE r # RowOf(t)
      BY <2>1, <2>2, <3>2 DEF IInv, StateIsLast
    <3> QED
      BY <3>1, <3>2
  <2> QED
    BY <2>4 DEF StateIsLast, IsLast
<1> QED
  BY <1>1, <1>2, TableStep

\* A row is settled by being verified, or by an edge that leaves verified.
LEMMA SettledStep == IInv /\ [Next]_vars => SettledWasVerified'
<1> SUFFICES ASSUME IInv, [Next]_vars, NEW r \in Row, state'[r] \in Settled
             PROVE  VerifiedOnce(r)'
  BY DEF SettledWasVerified
<1>1. CASE state'[r] = state[r]
  BY <1>1, VerifiedStays DEF IInv, SettledWasVerified
<1>2. ASSUME NEW t \in Tx, NEW final, Appended(t, final), Allowed(t, final), r = RowOf(t)
      PROVE  VerifiedOnce(r)'
  <2>1. state'[r] = final /\ state[r] \in State
    BY <1>2 DEF Appended, IInv, TypeOK, LedgerTypeOK
  <2>2. CASE final = "verified"
    <3>1. Entry(t, final) \in table' /\ Entry(t, final).row = r /\ Entry(t, final).to = "verified"
      BY <1>2, <2>2, EntryColumns DEF Appended
    <3> QED
      BY <3>1 DEF VerifiedOnce, Entries
  <2>3. CASE final = "done"
    <3>1. "done" \in Edges[state[r]]
      BY <1>2, <2>3 DEF Allowed
    <3>2. state[r] = "verified"
      BY <2>1, <3>1 DEF Edges, State
    <3> QED
      BY <3>2, VerifiedStays DEF IInv, SettledWasVerified, Settled
  <2> QED
    BY <2>1, <2>2, <2>3 DEF Settled
<1>3. ASSUME NEW t \in Tx, NEW final, Appended(t, final), r # RowOf(t)
      PROVE  state'[r] = state[r]
  BY <1>3, CallType DEF Appended, IInv, TypeOK, LedgerTypeOK
<1> QED
  BY <1>1, <1>2, <1>3, TableStep

\* Each entry into in_progress is counted when it is appended.
LEMMA AttemptStep == IInv /\ [Next]_vars => NoLostAttempt'
<1> DEFINE Starting(rows) == {e \in rows : e.to = "in_progress"}
<1> SUFFICES ASSUME IInv, [Next]_vars, NEW r \in Row
             PROVE  attempts'[r] = Cardinality(Starting(Entries(r)'))
  BY DEF NoLostAttempt, Entries
<1>0. attempts[r] = Cardinality(Starting(Entries(r))) /\ attempts \in [Row -> Nat]
  BY DEF IInv, NoLostAttempt, TypeOK, LedgerTypeOK
<1>1. CASE Entries(r)' = Entries(r) /\ attempts'[r] = attempts[r]
  BY <1>0, <1>1
<1>2. ASSUME NEW t \in Tx, NEW final, Appended(t, final), r = RowOf(t)
      PROVE  attempts'[r] = Cardinality(Starting(Entries(r)'))
  <2> DEFINE new == Entry(t, final)
  <2>1. attempts'[r] = IF final = "in_progress" THEN attempts[r] + 1 ELSE attempts[r]
    BY <1>0, <1>2 DEF Appended
  <2>2. /\ Entries(r)' = Rows(t) \cup {new} /\ Rows(t) = Entries(r)
        /\ new.to = final
    BY <1>2, AppendGoesTo, EntryColumns DEF Rows, RowOf
  <2>3. new \notin Rows(t) /\ IsFiniteSet(Rows(t))
    <3>1. Numbered(Rows(t), Length(t)) /\ new.seq = Length(t)
      BY <1>2, EntryIsNext DEF IInv, ChainsAreWhole, Rows, Length, Appended
    <3> QED
      BY <3>1, NumberedCount DEF Numbered
  <2> HIDE DEF new
  <2>4. IsFiniteSet(Starting(Rows(t))) /\ new \notin Starting(Rows(t))
    BY <2>3, FS_Subset
  <2>5. CASE final = "in_progress"
    <3>1. Starting(Rows(t) \cup {new}) = Starting(Rows(t)) \cup {new}
      BY <2>2, <2>5
    <3>2. Cardinality(Starting(Rows(t)) \cup {new}) = Cardinality(Starting(Rows(t))) + 1
      BY <2>4, FS_AddElement
    <3> QED
      BY <1>0, <2>1, <2>2, <2>5, <3>1, <3>2
  <2>6. CASE final # "in_progress"
    <3>1. Starting(Rows(t) \cup {new}) = Starting(Rows(t))
      BY <2>2, <2>6
    <3> QED
      BY <1>0, <2>1, <2>2, <2>6, <3>1
  <2> QED
    BY <2>5, <2>6
<1>3. ASSUME NEW t \in Tx, NEW final, Appended(t, final), r # RowOf(t)
      PROVE  Entries(r)' = Entries(r) /\ attempts'[r] = attempts[r]
  BY <1>0, <1>3, CallType, AppendGoesTo DEF Appended
<1>4. ASSUME UNCHANGED <<table, attempts>>
      PROVE  Entries(r)' = Entries(r) /\ attempts'[r] = attempts[r]
  BY <1>4 DEF Entries
<1> HIDE DEF Starting
<1> QED
  BY <1>1, <1>2, <1>3, <1>4, TableStep

-----------------------------------------------------------------------------
(* What a step does to the transactions.                                   *)

\* A step of a transaction, or a write from outside.
LEMMA StepCases ==
    ASSUME [Next]_vars
    PROVE  \/ \E t \in Tx : Begin(t) \/ TakeLock(t) \/ ReadContract(t) \/ ReadTail(t)
           \/ \E t \in Tx : CheckActor(t) \/ CheckGates(t)
           \/ \E t \in Tx, verdict \in Severity : Commit(t, verdict)
           \/ \E t \in Tx : Die(t)
           \/ UNCHANGED <<state, attempts, table, lock, txVars, clock>>
BY DEF Next, Step, vars, ledgerVars, RecordPass, AttachEvidence, ToggleStatus, Outside

\* An end lets go of the lock of the one transaction.
LEMMA EndReleases ==
    ASSUME IInv, NEW t \in Tx, NEW outcome \in Ended, End(t, outcome)
    PROVE  /\ pc' = [pc EXCEPT ![t] = outcome] /\ UNCHANGED <<now, seen, tail, clock>>
           /\ lock' \in [Row -> Tx \cup {Nothing}]
           /\ LockIsHeld'
<1>1. /\ pc' = [pc EXCEPT ![t] = outcome] /\ UNCHANGED <<now, seen, tail, clock>>
      /\ lock' = [r \in Row |-> IF lock[r] = t THEN Nothing ELSE lock[r]]
  BY DEF End, Release
<1>2. /\ pc \in [Tx -> Ended \cup {"idle", "open", "locked", "read", "gated", "judged", "ready"}]
      /\ lock \in [Row -> Tx \cup {Nothing}]
      /\ LockIsHeld
  BY DEF IInv, TypeOK
<1>3. outcome \notin Holding
  BY DEF Ended, Holding
<1>4. \A u \in Tx : RowOf(u) \in Row /\ RowOf(u)' = RowOf(u) /\ u # Nothing
  BY CallAssumption DEF RowOf
<1> QED
  BY <1>1, <1>2, <1>3, <1>4 DEF LockIsHeld

LEMMA LockStep == IInv /\ [Next]_vars => LockIsHeld'
<1> SUFFICES ASSUME IInv, [Next]_vars PROVE LockIsHeld'
  OBVIOUS
<1>0. /\ pc \in [Tx -> Ended \cup {"idle", "open", "locked", "read", "gated", "judged", "ready"}]
      /\ lock \in [Row -> Tx \cup {Nothing}]
      /\ LockIsHeld
      /\ \A u \in Tx : RowOf(u) \in Row /\ RowOf(u)' = RowOf(u) /\ Call[u].row = RowOf(u) /\ u # Nothing
  BY CallAssumption DEF IInv, TypeOK, RowOf
<1>1. ASSUME NEW t \in Tx, Begin(t) PROVE LockIsHeld'
  BY <1>0, <1>1 DEF Begin, LockIsHeld, Holding, Ended
<1>2. ASSUME NEW t \in Tx, TakeLock(t) PROVE LockIsHeld'
  BY <1>0, <1>2 DEF TakeLock, LockIsHeld, Holding, Ended
<1>3. ASSUME NEW t \in Tx, NEW next \in Holding, pc[t] \in Holding,
             pc' = [pc EXCEPT ![t] = next], lock' = lock
      PROVE  LockIsHeld'
  BY <1>0, <1>3 DEF LockIsHeld
<1>4. ASSUME NEW t \in Tx, ReadContract(t) PROVE LockIsHeld'
  BY <1>3, <1>4 DEF ReadContract, Holding
<1>5. ASSUME NEW t \in Tx, ReadTail(t) PROVE LockIsHeld'
  BY <1>3, <1>5 DEF ReadTail, Holding
<1>6. ASSUME NEW t \in Tx, CheckActor(t) PROVE LockIsHeld'
  <2>1. CASE Refuse(t)
    BY <2>1, EndReleases DEF Refuse, Ended
  <2>2. CASE pc[t] = "read" /\ Proceed(t, "gated")
    BY <1>3, <2>2 DEF Proceed, Holding
  <2> QED
    BY <1>6, <2>1, <2>2 DEF CheckActor
<1>7. ASSUME NEW t \in Tx, CheckGates(t) PROVE LockIsHeld'
  <2>1. CASE Refuse(t)
    BY <2>1, EndReleases DEF Refuse, Ended
  <2>2. CASE pc[t] = "gated" /\ Proceed(t, "judged")
    BY <1>3, <2>2 DEF Proceed, Holding
  <2> QED
    BY <1>7, <2>1, <2>2 DEF CheckGates
<1>8. ASSUME NEW t \in Tx, NEW verdict \in Severity, Commit(t, verdict) PROVE LockIsHeld'
  BY <1>8, CommitAppends, EndReleases DEF Refuse, Appended, Ended
<1>9. ASSUME NEW t \in Tx, Die(t) PROVE LockIsHeld'
  BY <1>9, EndReleases DEF Die, Ended
<1>10. CASE UNCHANGED <<pc, lock>>
  BY <1>0, <1>10 DEF LockIsHeld
<1> QED
  BY <1>1, <1>2, <1>4, <1>5, <1>6, <1>7, <1>8, <1>9, <1>10, StepCases DEF txVars

\* Two transactions past taking the lock are not on one row.
LEMMA Exclusive ==
    ASSUME IInv, NEW t \in Tx, NEW u \in Tx, pc[t] \in Holding, pc[u] \in Holding, RowOf(t) = RowOf(u)
    PROVE  t = u
BY DEF IInv, LockIsHeld

\* What another transaction does leaves u, which holds its lock, and its row alone.
LeftAlone(u) ==
    /\ pc'[u] = pc[u] /\ seen'[u] = seen[u] /\ tail'[u] = tail[u]
    /\ state'[RowOf(u)] = state[RowOf(u)] /\ attempts'[RowOf(u)] = attempts[RowOf(u)]
    /\ Rows(u)' = Rows(u)

\* What u does itself and does not end with writes nothing.
Goes(u) ==
    /\ TakeLock(u) \/ ReadContract(u) \/ ReadTail(u)
       \/ (CheckActor(u) /\ Proceed(u, "gated")) \/ (CheckGates(u) /\ Proceed(u, "judged"))
    /\ UNCHANGED <<state, attempts, table>>

LEMMA HolderSteps ==
    ASSUME IInv, [Next]_vars, NEW u \in Tx, pc'[u] \in Holding
    PROVE  Goes(u) \/ LeftAlone(u)
<1>0. /\ pc \in [Tx -> Ended \cup {"idle", "open", "locked", "read", "gated", "judged", "ready"}]
      /\ RowOf(u) \in Row /\ RowOf(u)' = RowOf(u)
      /\ Holding \cap (Ended \cup {"idle", "open"}) = {}
  BY CallType DEF IInv, TypeOK, Holding, Ended, RowOf
<1>1. ASSUME UNCHANGED <<state, attempts, table>>, pc'[u] = pc[u], seen'[u] = seen[u], tail'[u] = tail[u]
      PROVE  LeftAlone(u)
  BY <1>0, <1>1 DEF LeftAlone, Rows, Entries
<1>2. DOMAIN pc = Tx /\ DOMAIN seen = Tx /\ DOMAIN tail = Tx
  BY DEF IInv, TypeOK
<1>3. ASSUME NEW t \in Tx, Begin(t) PROVE LeftAlone(u)
  <2>1. t # u
    BY <1>0, <1>3 DEF Begin
  <2> QED
    BY <1>1, <1>2, <1>3, <2>1 DEF Begin, ledgerVars
<1>4. ASSUME NEW t \in Tx, TakeLock(t) \/ ReadContract(t) \/ ReadTail(t)
      PROVE  Goes(u) \/ LeftAlone(u)
  <2>1. UNCHANGED <<state, attempts, table>>
    BY <1>4 DEF TakeLock, ReadContract, ReadTail, ledgerVars
  <2>2. CASE t = u
    BY <1>4, <2>1, <2>2 DEF Goes
  <2>3. CASE t # u
    <3>1. pc'[u] = pc[u]
      BY <1>2, <1>4, <2>3 DEF TakeLock, ReadContract, ReadTail
    <3>2. seen'[u] = seen[u]
      BY <1>2, <1>4, <2>3 DEF TakeLock, ReadContract, ReadTail
    <3>3. tail'[u] = tail[u]
      BY <1>2, <1>4, <2>3 DEF TakeLock, ReadContract, ReadTail
    <3> QED
      BY <1>1, <2>1, <3>1, <3>2, <3>3
  <2> QED
    BY <2>2, <2>3
<1>5. ASSUME NEW t \in Tx, NEW outcome \in Ended, End(t, outcome)
      PROVE  t # u /\ pc'[u] = pc[u] /\ seen'[u] = seen[u] /\ tail'[u] = tail[u]
  BY <1>0, <1>2, <1>5 DEF End
<1>6. ASSUME NEW t \in Tx, Refuse(t) \/ Die(t) PROVE LeftAlone(u)
  BY <1>1, <1>5, <1>6 DEF Refuse, Die, Ended, ledgerVars
<1>7. ASSUME NEW t \in Tx, CheckActor(t) \/ CheckGates(t)
      PROVE  Goes(u) \/ LeftAlone(u)
  <2>1. CASE Refuse(t)
    BY <1>6, <2>1
  <2>2. ASSUME (CheckActor(t) /\ Proceed(t, "gated")) \/ (CheckGates(t) /\ Proceed(t, "judged"))
        PROVE  Goes(u) \/ LeftAlone(u)
    <3>1. UNCHANGED <<state, attempts, table, seen, tail>>
      BY <2>2 DEF Proceed, ledgerVars
    <3>2. CASE t = u
      BY <2>2, <3>1, <3>2 DEF Goes
    <3>3. CASE t # u
      <4>1. pc'[u] = pc[u]
        BY <1>2, <2>2, <3>3 DEF Proceed
      <4> QED
        BY <1>1, <3>1, <4>1
    <3> QED
      BY <3>2, <3>3
  <2> QED
    BY <1>7, <2>1, <2>2 DEF CheckActor, CheckGates
<1>8. ASSUME NEW t \in Tx, NEW final, Appended(t, final) PROVE LeftAlone(u)
  <2>1. t # u /\ pc'[u] = pc[u] /\ seen'[u] = seen[u] /\ tail'[u] = tail[u]
    BY <1>5, <1>8 DEF Appended, Ended
  <2>2. RowOf(t) # RowOf(u)
    <3>1. pc[t] \in Holding /\ pc[u] \in Holding
      BY <1>8, <2>1 DEF Appended, Holding
    <3> QED
      BY <2>1, <3>1, Exclusive
  <2>3. state'[RowOf(u)] = state[RowOf(u)] /\ attempts'[RowOf(u)] = attempts[RowOf(u)]
    BY <1>0, <1>8, <2>2 DEF Appended, IInv, TypeOK, LedgerTypeOK
  <2>4. Rows(u)' = Rows(u)
    BY <1>0, <1>8, <2>2, AppendGoesTo DEF Rows
  <2> QED
    BY <2>1, <2>3, <2>4 DEF LeftAlone
<1>9. ASSUME NEW t \in Tx, NEW verdict \in Severity, Commit(t, verdict) PROVE LeftAlone(u)
  BY <1>6, <1>8, <1>9, CommitAppends
<1>10. CASE UNCHANGED <<state, attempts, table, lock, txVars, clock>>
  BY <1>1, <1>10 DEF txVars
<1> QED
  BY <1>3, <1>4, <1>6, <1>7, <1>9, <1>10, StepCases

\* What was read stays true of the row for as long as its reader goes on.
LEMMA SeenStep == IInv /\ [Next]_vars => SeenIsCurrent'
<1> SUFFICES ASSUME IInv, [Next]_vars, NEW u \in Tx, pc'[u] \in HasRead
             PROVE  seen'[u] = [state |-> state'[RowOf(u)], attempts |-> attempts'[RowOf(u)]]
  BY DEF SeenIsCurrent, RowOf, HasRead, Holding
<1>0. /\ pc'[u] \in Holding /\ pc'[u] # "locked" /\ Call[u].row = RowOf(u)
      /\ DOMAIN pc = Tx /\ DOMAIN seen = Tx
  BY DEF HasRead, Holding, RowOf, IInv, TypeOK
<1>1. CASE LeftAlone(u)
  BY <1>1 DEF LeftAlone, IInv, SeenIsCurrent
<1>2. CASE TakeLock(u)
  BY <1>0, <1>2 DEF TakeLock
<1>3. CASE ReadContract(u)
  BY <1>0, <1>3 DEF ReadContract, ledgerVars
<1>4. CASE (ReadTail(u) \/ (CheckActor(u) /\ Proceed(u, "gated")) \/ (CheckGates(u) /\ Proceed(u, "judged")))
  <2>1. pc[u] \in HasRead /\ seen' = seen /\ state' = state /\ attempts' = attempts
    BY <1>4 DEF ReadTail, CheckActor, CheckGates, Proceed, HasRead, Holding, ledgerVars
  <2> QED
    BY <2>1 DEF IInv, SeenIsCurrent
<1> QED
  BY <1>0, <1>1, <1>2, <1>3, <1>4, HolderSteps DEF Goes

\* The end of the chain as it was read stays the end.
LEMMA TailStep == IInv /\ [Next]_vars => TailIsLast'
<1> SUFFICES ASSUME IInv, [Next]_vars, NEW u \in Tx, pc'[u] = "ready"
             PROVE  \/ Rows(u)' = {} /\ tail'[u] = {}
                    \/ \E e \in Rows(u)' : IsLast(e, Rows(u)') /\ tail'[u] = {e}
  BY DEF TailIsLast, RowOf, Rows, IsLast
<1>0. pc'[u] \in Holding /\ DOMAIN pc = Tx /\ DOMAIN tail = Tx
  BY DEF Holding, IInv, TypeOK
<1>1. CASE LeftAlone(u)
  BY <1>1 DEF LeftAlone, IInv, TailIsLast, Rows
<1>2. CASE ReadTail(u)
  <2>1. Rows(u)' = Rows(u) /\ Entries(Call[u].row) = Rows(u)
    BY <1>2 DEF ReadTail, Rows, RowOf, Entries
  <2>2. tail'[u] = IF Rows(u) = {} THEN {} ELSE {Last(Rows(u))}
    BY <1>0, <1>2, <2>1 DEF ReadTail
  <2>3. Rows(u) # {} => IsLast(Last(Rows(u)), Rows(u))
    BY CallType, LastOfNumbered DEF IInv, ChainsAreWhole, Rows
  <2> QED
    BY <2>1, <2>2, <2>3 DEF IsLast
<1>3. CASE TakeLock(u) \/ ReadContract(u) \/ (CheckActor(u) /\ Proceed(u, "gated")) \/ (CheckGates(u) /\ Proceed(u, "judged"))
  BY <1>0, <1>3 DEF TakeLock, ReadContract, Proceed
<1> QED
  BY <1>0, <1>1, <1>2, <1>3, HolderSteps DEF Goes

\* What a transaction was let through for stays true until it ends.
LEMMA GatesStep == IInv /\ [Next]_vars => GatesPassed'
<1> SUFFICES ASSUME IInv, [Next]_vars, NEW u \in Tx
             PROVE  /\ pc'[u] \in {"gated", "judged", "ready"} => Call[u].to \in Edges[seen'[u].state]
                    /\ pc'[u] \in {"judged", "ready"} /\ Call[u].to = "in_progress" =>
                           \A b \in Blocker[RowOf(u)] : VerifiedOnce(b)'
  BY DEF GatesPassed, RowOf
<1> SUFFICES ASSUME pc'[u] \in {"gated", "judged", "ready"}
             PROVE  /\ Call[u].to \in Edges[seen'[u].state]
                    /\ pc'[u] \in {"judged", "ready"} /\ Call[u].to = "in_progress" =>
                           \A b \in Blocker[RowOf(u)] : VerifiedOnce(b)'
  OBVIOUS
<1>0. /\ pc'[u] \in Holding /\ DOMAIN pc = Tx
      /\ Blocker[RowOf(u)] \subseteq Row /\ Call[u].row = RowOf(u)
      /\ \A b \in Row : VerifiedOnce(b) => VerifiedOnce(b)'
  BY CallType, ConstantsAssumption, VerifiedStays DEF Holding, IInv, TypeOK
<1>1. ASSUME pc[u] \in {"gated", "judged", "ready"}, seen'[u] = seen[u],
             pc'[u] \in {"judged", "ready"} => pc[u] \in {"judged", "ready"}
      PROVE  /\ Call[u].to \in Edges[seen'[u].state]
             /\ pc'[u] \in {"judged", "ready"} /\ Call[u].to = "in_progress" =>
                    \A b \in Blocker[RowOf(u)] : VerifiedOnce(b)'
  BY <1>0, <1>1 DEF IInv, GatesPassed
<1>2. CASE LeftAlone(u)
  BY <1>1, <1>2 DEF LeftAlone
<1>3. CASE TakeLock(u) \/ ReadContract(u)
  BY <1>0, <1>3 DEF TakeLock, ReadContract
<1>4. CASE ReadTail(u)
  BY <1>0, <1>1, <1>4 DEF ReadTail
<1>5. CASE CheckActor(u) /\ Proceed(u, "gated")
  <2>1. pc'[u] = "gated" /\ seen'[u] = seen[u]
    BY <1>0, <1>5 DEF Proceed
  <2>2. Call[u].to \in Edges[seen[u].state]
    BY <1>0, <1>5, <2>1 DEF CheckActor, Refuse, End
  <2> QED
    BY <2>1, <2>2
<1>6. CASE CheckGates(u) /\ Proceed(u, "judged")
  <2>1. pc[u] = "gated" /\ pc'[u] = "judged" /\ seen'[u] = seen[u]
    BY <1>0, <1>6 DEF CheckGates, Proceed
  <2>2. MayStart(RowOf(u), Call[u].to)
    BY <1>0, <1>6, <2>1 DEF CheckGates, Refuse, End
  <2>3. Call[u].to = "in_progress" => \A b \in Blocker[RowOf(u)] : VerifiedOnce(b)
    BY <1>0, <2>2 DEF MayStart, IInv, SettledWasVerified
  <2> QED
    BY <1>0, <2>1, <2>3 DEF IInv, GatesPassed
<1> QED
  BY <1>0, <1>2, <1>3, <1>4, <1>5, <1>6, HolderSteps DEF Goes

\* The unique index on (contract_id, seq) never objects.
LEMMA ConflictStep == IInv /\ [Next]_vars => NoConflict'
<1> SUFFICES ASSUME IInv, [Next]_vars PROVE NoConflict'
  OBVIOUS
<1>0. NoConflict /\ DOMAIN pc = Tx
  BY DEF IInv, TypeOK
<1>1. ASSUME NEW t \in Tx, NEW next, pc' = [pc EXCEPT ![t] = next], next # "conflict"
      PROVE  NoConflict'
  BY <1>0, <1>1 DEF NoConflict
<1>2. ASSUME NEW t \in Tx, Begin(t) \/ TakeLock(t) \/ ReadContract(t) \/ ReadTail(t)
      PROVE  NoConflict'
  BY <1>1, <1>2 DEF Begin, TakeLock, ReadContract, ReadTail
<1>3. ASSUME NEW t \in Tx, CheckActor(t) \/ CheckGates(t)
      PROVE  NoConflict'
  BY <1>1, <1>3 DEF CheckActor, CheckGates, Proceed, Refuse, End
<1>4. ASSUME NEW t \in Tx, NEW verdict \in Severity, Commit(t, verdict)
      PROVE  NoConflict'
  BY <1>1, <1>4, CommitAppends DEF Refuse, Appended, End
<1>5. ASSUME NEW t \in Tx, Die(t) PROVE NoConflict'
  BY <1>1, <1>5 DEF Die, End
<1>6. CASE UNCHANGED txVars
  BY <1>0, <1>6 DEF NoConflict, txVars
<1> QED
  BY <1>2, <1>3, <1>4, <1>5, <1>6, StepCases

-----------------------------------------------------------------------------
(* Types.                                                                  *)

EntryOK(e) ==
    /\ e.row \in Row /\ e.seq \in Nat /\ e.to \in State
    /\ e.from \in State \cup {Nothing} /\ e.actor \in Worker /\ e.at \in Nat

Pcs == Ended \cup {"idle", "open", "locked", "read", "gated", "judged", "ready"}

LEMMA TypeStep == IInv /\ [Next]_vars => TypeOK'
<1> SUFFICES ASSUME IInv, [Next]_vars PROVE TypeOK'
  OBVIOUS
<1>0. /\ state \in [Row -> State] /\ attempts \in [Row -> Nat] /\ passing \subseteq Row
      /\ attached \in [Row -> SUBSET EvidenceKind] /\ revoked \subseteq Worker
      /\ \A e \in table : EntryOK(e)
      /\ lock \in [Row -> Tx \cup {Nothing}] /\ pc \in [Tx -> Pcs] /\ now \in [Tx -> Nat]
      /\ seen \in [Tx -> [state : State, attempts : Nat] \cup {Nothing}]
      /\ tail \in [Tx -> SUBSET table] /\ clock \in Nat
  BY DEF IInv, TypeOK, LedgerTypeOK, EntryOK, Pcs
<1> DEFINE TxTypes == /\ lock' \in [Row -> Tx \cup {Nothing}] /\ pc' \in [Tx -> Pcs] /\ now' \in [Tx -> Nat]
                      /\ seen' \in [Tx -> [state : State, attempts : Nat] \cup {Nothing}]
                      /\ tail' \in [Tx -> SUBSET table] /\ clock' \in Nat
<1>1. ASSUME UNCHANGED <<ledgerVars, table>>, TxTypes PROVE TypeOK'
  BY <1>0, <1>1 DEF TypeOK, LedgerTypeOK, EntryOK, Pcs, ledgerVars
<1>2. ASSUME NEW t \in Tx, Begin(t) \/ TakeLock(t) \/ ReadContract(t) \/ ReadTail(t)
      PROVE  TypeOK'
  <2>1. UNCHANGED <<ledgerVars, table>>
    BY <1>2 DEF Begin, TakeLock, ReadContract, ReadTail
  <2>2. TxTypes
    <3>0. RowOf(t) \in Row /\ Call[t].row = RowOf(t)
      BY CallType
    <3>1. CASE Begin(t)
      BY <1>0, <3>1, CallAssumption DEF Begin, Pcs
    <3>2. CASE TakeLock(t)
      BY <1>0, <3>0, <3>2 DEF TakeLock, Pcs
    <3>3. CASE ReadContract(t)
      BY <1>0, <3>0, <3>3 DEF ReadContract, Pcs
    <3>4. CASE ReadTail(t)
      <4>1. Entries(RowOf(t)) # {} => Last(Entries(RowOf(t))) \in Entries(RowOf(t))
        BY <3>0, LastOfNumbered DEF IInv, ChainsAreWhole, IsLast
      <4>2. Entries(RowOf(t)) \subseteq table
        BY DEF Entries
      <4>3. tail' \in [Tx -> SUBSET table]
        BY <1>0, <3>0, <3>4, <4>1, <4>2 DEF ReadTail
      <4> QED
        BY <1>0, <3>4, <4>3 DEF ReadTail, Pcs
    <3> QED
      BY <1>2, <3>1, <3>2, <3>3, <3>4
  <2> HIDE DEF TxTypes
  <2> QED
    BY <1>1, <2>1, <2>2
<1>3. ASSUME NEW t \in Tx, NEW outcome \in Ended, End(t, outcome)
      PROVE  TxTypes
  BY <1>0, <1>3, EndReleases DEF Pcs
<1>4. ASSUME NEW t \in Tx, Refuse(t) \/ Die(t) PROVE TypeOK'
  BY <1>1, <1>3, <1>4 DEF Refuse, Die, Ended
<1>5. ASSUME NEW t \in Tx, CheckActor(t) \/ CheckGates(t) PROVE TypeOK'
  <2>1. ASSUME NEW next \in Pcs, Proceed(t, next) PROVE TypeOK'
    BY <1>0, <1>1, <2>1 DEF Proceed
  <2> QED
    BY <1>4, <1>5, <2>1 DEF CheckActor, CheckGates, Pcs
<1>6. ASSUME NEW t \in Tx, NEW final, Appended(t, final), Allowed(t, final) PROVE TypeOK'
  <2>1. EntryOK(Entry(t, final))
    <3>1. Entry(t, final).seq \in Nat
      BY <1>6, EntryIsNext DEF Appended
    <3>2. seen[t].state \in State
      BY <1>0, <1>6, CallType DEF IInv, SeenIsCurrent, HasRead, Holding, Appended
    <3>3. FromState(t) \in State \cup {Nothing}
      BY <3>2 DEF FromState
    <3> QED
      BY <1>0, <1>6, <3>1, <3>3, EntryColumns, CallType DEF EntryOK, Allowed
  <2>2. /\ state' \in [Row -> State] /\ attempts' \in [Row -> Nat]
        /\ UNCHANGED <<passing, attached, revoked>>
    BY <1>0, <1>6, CallType DEF Appended, Allowed
  <2>3. table' = table \cup {Entry(t, final)} /\ TxTypes
    BY <1>3, <1>6 DEF Appended, Ended
  <2>4. \A e \in table' : EntryOK(e)
    BY <1>0, <2>1, <2>3
  <2>5. tail' \in [Tx -> SUBSET table']
    BY <2>3
  <2> QED
    BY <1>0, <2>2, <2>3, <2>4, <2>5 DEF TypeOK, LedgerTypeOK, EntryOK, Pcs
<1>7. ASSUME NEW t \in Tx, NEW verdict \in Severity, Commit(t, verdict) PROVE TypeOK'
  BY <1>4, <1>6, <1>7, CommitAppends
<1>8. ASSUME Outside, NEW r \in Row, RecordPass(r) PROVE TypeOK'
  BY <1>0, <1>8 DEF Outside, txVars, RecordPass, TypeOK, LedgerTypeOK, EntryOK, Pcs
<1>9. ASSUME Outside, NEW r \in Row, NEW kind \in Required[r], AttachEvidence(r, kind) PROVE TypeOK'
  <2>1. attached' \in [Row -> SUBSET EvidenceKind]
    BY <1>0, <1>9, ConstantsAssumption DEF AttachEvidence
  <2> QED
    BY <1>0, <1>9, <2>1 DEF Outside, txVars, AttachEvidence, TypeOK, LedgerTypeOK, EntryOK, Pcs
<1>10. ASSUME Outside, NEW w \in Worker, ToggleStatus(w) PROVE TypeOK'
  BY <1>0, <1>10 DEF Outside, txVars, ToggleStatus, TypeOK, LedgerTypeOK, EntryOK, Pcs
<1>11. CASE UNCHANGED vars
  BY <1>0, <1>1, <1>11 DEF vars, txVars, ledgerVars
<1> QED
  BY <1>2, <1>4, <1>5, <1>7, <1>8, <1>9, <1>10, <1>11 DEF Next, Step

-----------------------------------------------------------------------------
(* The theorems.                                                           *)

LEMMA InitHolds == Init => IInv
<1> SUFFICES ASSUME Init PROVE IInv
  OBVIOUS
<1>1. \A r \in Row : Entries(r) = {} /\ state[r] = "drafted" /\ attempts[r] = 0
  BY DEF Init, InitLedger, Entries
<1>2. \A t \in Tx : pc[t] = "idle"
  BY DEF Init
<1>3. TypeOK
  BY DEF Init, InitLedger, TypeOK, LedgerTypeOK, State, Ended
<1>4. LockIsHeld /\ SeenIsCurrent /\ GatesPassed /\ TailIsLast /\ NoConflict
  <2>1. \A r \in Row : lock[r] = Nothing
    BY DEF Init
  <2> QED
    BY <1>2, <2>1, CallAssumption DEF LockIsHeld, SeenIsCurrent, GatesPassed, TailIsLast, NoConflict, Holding, HasRead
<1>5. ChainsAreWhole
  <2>1. Numbered({}, 0) /\ Chained({})
    BY DEF Numbered, Chained
  <2> QED
    BY <1>1, <2>1, FS_EmptySet DEF ChainsAreWhole
<1>6. StateIsLast /\ SettledWasVerified
  BY <1>1 DEF StateIsLast, SettledWasVerified, Settled
<1>7. NoLostAttempt
  <2>1. \A r \in Row : {e \in Entries(r) : e.to = "in_progress"} = {}
    BY <1>1
  <2> QED
    BY <1>1, <2>1, FS_EmptySet DEF NoLostAttempt
<1> QED
  BY <1>3, <1>4, <1>5, <1>6, <1>7 DEF IInv

LEMMA StepHolds == IInv /\ [Next]_vars => IInv'
BY TypeStep, LockStep, SeenStep, GatesStep, TailStep, WholeStep, StateStep, SettledStep,
   ConflictStep, AttemptStep DEF IInv

LEMMA Inductive == Spec => []IInv
BY InitHolds, StepHolds, PTL DEF Spec

\* The tables and the locals of the transactions keep their types.
THEOREM TypeCorrect == Spec => []TypeOK
<1>1. IInv => TypeOK
  BY DEF IInv
<1> QED
  BY <1>1, Inductive, PTL

\* Under read committed, with the row's lock taken first, verifyAllChains() finds
\* every chain whole at every moment, and the unique index never has to object.
THEOREM ChainsAlwaysVerify == Spec => []ChainsVerify
<1>1. IInv => ChainsVerify
  BY WholeVerify DEF IInv, ChainsVerify, NoConflict
<1> QED
  BY <1>1, Inductive, PTL

\* The attempts column, written from a copy read statements earlier, counts every
\* start that was committed.
THEOREM AttemptsAreCounted == Spec => []NoLostAttempt
<1>1. IInv => NoLostAttempt
  BY DEF IInv
<1> QED
  BY <1>1, Inductive, PTL

-----------------------------------------------------------------------------
(* The transactions implement RowChain.                                    *)

Histories == [r \in Row |-> History(r)]

\* The states a set of numbered entries goes through.
StatesOf(rows) == [i \in 1 .. Cardinality(rows) |-> (CHOOSE e \in rows : e.seq = i - 1).to]

LEMMA HistoryIsStates ==
    ASSUME NEW r \in Row
    PROVE  History(r) = StatesOf(Entries(r)) /\ History(r)' = StatesOf(Entries(r)')
<1>1. History(r) = StatesOf(Entries(r))
  BY DEF History, StatesOf
<1>2. History(r)' = StatesOf(Entries(r)')
  BY DEF History, StatesOf
<1> QED
  BY <1>1, <1>2

\* They are one state for each entry, by number.
LEMMA StatesOfNumbered ==
    ASSUME NEW rows, NEW n, Numbered(rows, n), \A e \in rows : e.to \in State
    PROVE  /\ n \in Nat
           /\ StatesOf(rows) \in [1 .. n -> State]
           /\ \A e \in rows : e.seq + 1 \in 1 .. n /\ StatesOf(rows)[e.seq + 1] = e.to
<1> DEFINE at(i) == CHOOSE e \in rows : e.seq = i - 1
<1>1. n \in Nat /\ Cardinality(rows) = n
  BY NumberedCount DEF Numbered
<1>2. \A i \in 1 .. n : at(i) \in rows /\ at(i).seq = i - 1
  <2>1. \A i \in 1 .. n : \E e \in rows : e.seq = i - 1
    BY <1>1 DEF Numbered
  <2> QED
    BY <2>1
<1>3. StatesOf(rows) = [i \in 1 .. n |-> at(i).to]
  BY <1>1 DEF StatesOf
<1>4. \A e \in rows : e.seq + 1 \in 1 .. n /\ at(e.seq + 1) = e
  <2> SUFFICES ASSUME NEW e \in rows
               PROVE  e.seq + 1 \in 1 .. n /\ at(e.seq + 1) = e
    OBVIOUS
  <2>1. e.seq + 1 \in 1 .. n /\ (e.seq + 1) - 1 = e.seq
    BY <1>1 DEF Numbered
  <2>2. at(e.seq + 1) \in rows /\ at(e.seq + 1).seq = e.seq
    BY <1>2, <2>1
  <2> HIDE DEF at
  <2> QED
    BY <2>1, <2>2 DEF Numbered
<1> HIDE DEF at
<1> QED
  BY <1>1, <1>2, <1>3, <1>4

LEMMA HistoryOf ==
    ASSUME IInv, NEW r \in Row
    PROVE  LET n == Cardinality(Entries(r)) IN
           /\ n \in Nat
           /\ DOMAIN History(r) = 1 .. n
           /\ History(r) \in Seq(State) /\ Len(History(r)) = n
           /\ \A e \in Entries(r) : e.seq + 1 \in 1 .. n /\ History(r)[e.seq + 1] = e.to
<1> DEFINE n == Cardinality(Entries(r))
<1>1. Numbered(Entries(r), n)
  BY DEF IInv, ChainsAreWhole
<1>2. \A e \in Entries(r) : e.to \in State
  BY DEF IInv, TypeOK, Entries
<1>3. /\ n \in Nat /\ History(r) \in [1 .. n -> State]
      /\ \A e \in Entries(r) : e.seq + 1 \in 1 .. n /\ History(r)[e.seq + 1] = e.to
  BY <1>1, <1>2, StatesOfNumbered, HistoryIsStates
<1> HIDE DEF n
<1>4. History(r) \in Seq(State) /\ Len(History(r)) = n
  BY <1>3
<1> QED
  BY <1>3, <1>4 DEF n

\* The last state of a history is the state column.
LEMMA LastIsState ==
    ASSUME IInv, NEW r \in Row
    PROVE  Abstract!Last(r) = state[r]
<1> DEFINE n == Cardinality(Entries(r))
<1>1. /\ n \in Nat /\ DOMAIN History(r) = 1 .. n /\ History(r) \in Seq(State)
      /\ \A e \in Entries(r) : History(r)[e.seq + 1] = e.to
  BY HistoryOf
<1>2. Numbered(Entries(r), n)
  BY DEF IInv, ChainsAreWhole
<1>3. /\ Entries(r) = {} => state[r] = "drafted"
      /\ \A e \in Entries(r) : IsLast(e, Entries(r)) => state[r] = e.to
  BY DEF IInv, StateIsLast
<1>4. Abstract!Last(r) = IF History(r) = <<>> THEN "drafted" ELSE History(r)[Len(History(r))]
  BY DEF Abstract!Last
<1> HIDE DEF n
<1>5. Len(History(r)) = n
  BY <1>1
<1>6. CASE n = 0
  <2>1. Entries(r) = {} /\ History(r) = <<>>
    BY <1>1, <1>2, <1>5, <1>6, LastOfNumbered
  <2> QED
    BY <1>3, <1>4, <2>1
<1>7. CASE n # 0
  <2>1. PICK e \in Entries(r) : e.seq = n - 1
    BY <1>1, <1>2, <1>7 DEF Numbered
  <2>2. IsLast(e, Entries(r))
    BY <1>2, <2>1, LastOfNumbered
  <2>3. History(r)[n] = e.to /\ History(r) # <<>>
    BY <1>1, <1>5, <1>7, <2>1
  <2> QED
    BY <1>3, <1>4, <1>5, <2>2, <2>3
<1> QED
  BY <1>6, <1>7

\* A row that was verified once has it in its history.
LEMMA VerifiedCame ==
    ASSUME IInv, NEW r \in Row, VerifiedOnce(r)
    PROVE  Abstract!Came(r, "verified")
<1>1. PICK e \in Entries(r) : e.to = "verified"
  BY DEF VerifiedOnce
<1>2. e.seq + 1 \in DOMAIN History(r) /\ History(r)[e.seq + 1] = "verified"
  BY <1>1, HistoryOf
<1> QED
  BY <1>2 DEF Abstract!Came

\* A commit puts one state at the end of the history of its row.
LEMMA HistoryGrows ==
    ASSUME IInv, NEW t \in Tx, NEW final, Appended(t, final), Allowed(t, final)
    PROVE  Histories' = [Histories EXCEPT ![RowOf(t)] = Append(@, final)]
<1> DEFINE q == RowOf(t)
           n == Cardinality(Entries(q))
           e == Entry(t, final)
           h == History(q)
           k == StatesOf(Entries(q) \cup {e})
<1>1. /\ q \in Row
      /\ Entries(q)' = Entries(q) \cup {e}
      /\ \A r \in Row \ {q} : Entries(r)' = Entries(r)
  <2>1. q \in Row /\ RowOf(t)' = q
    BY CallType DEF RowOf
  <2> QED
    BY <2>1, AppendGoesTo DEF Rows
<1>2. History(q)' = k /\ \A r \in Row \ {q} : History(r)' = History(r)
  BY <1>1, HistoryIsStates
<1>3. /\ n \in Nat /\ DOMAIN h = 1 .. n /\ h \in Seq(State) /\ Len(h) = n
      /\ \A f \in Entries(q) : f.seq + 1 \in 1 .. n /\ h[f.seq + 1] = f.to
  BY <1>1, HistoryOf
<1>4. e.seq = n /\ e.to = final /\ final \in State
  BY EntryIsNext, EntryColumns DEF Rows, Length, Appended, Allowed
<1>5. Numbered(Entries(q), n) /\ \A f \in Entries(q) : f.to \in State
  BY <1>1 DEF IInv, ChainsAreWhole, TypeOK, Entries
<1>6. /\ k \in [1 .. (n + 1) -> State]
      /\ \A f \in Entries(q) \cup {e} : k[f.seq + 1] = f.to
  <2> HIDE DEF n, e, q
  <2>1. Numbered(Entries(q) \cup {e}, n + 1) /\ \A f \in Entries(q) \cup {e} : f.to \in State
    BY <1>4, <1>5, NumberedGrows
  <2> QED
    BY <2>1, StatesOfNumbered DEF k
<1>7. k[n + 1] = final /\ \A i \in 1 .. n : k[i] = h[i]
  <2> HIDE DEF n, e, q, h, k
  <2>1. \A i \in 1 .. n : \E f \in Entries(q) : f.seq = i - 1
    BY <1>5 DEF Numbered
  <2>2. ASSUME NEW i \in 1 .. n PROVE k[i] = h[i]
    <3>1. PICK f \in Entries(q) : f.seq = i - 1
      BY <2>1
    <3>2. f.seq + 1 = i
      BY <3>1
    <3> QED
      BY <1>3, <1>6, <3>2
  <2> QED
    BY <1>4, <1>6, <2>2
<1>8. k = Append(h, final)
  <2> HIDE DEF n, e, q, h, k
  <2> QED
    BY <1>3, <1>4, <1>6, <1>7
<1> QED
  BY <1>1, <1>2, <1>8 DEF Histories

\* A commit that takes is one step of RowChain.
LEMMA CommitExtends ==
    ASSUME IInv, NEW t \in Tx, NEW final, Appended(t, final), Allowed(t, final)
    PROVE  Abstract!Next
<1>1. RowOf(t) \in Row /\ pc[t] = "ready"
  BY CallType DEF Appended
<1>2. final \in Edges[Abstract!Last(RowOf(t))] \cup {"escalated"}
  BY <1>1, LastIsState DEF Allowed
<1>3. final = "in_progress" => \A b \in Blocker[RowOf(t)] : Abstract!Came(b, "verified")
  <2> SUFFICES ASSUME final = "in_progress", NEW b \in Blocker[RowOf(t)]
               PROVE  Abstract!Came(b, "verified")
    OBVIOUS
  <2>1. b \in Row
    BY <1>1, ConstantsAssumption
  <2>2. VerifiedOnce(b)
    BY <1>1 DEF IInv, GatesPassed, Allowed
  <2> QED
    BY <2>1, <2>2, VerifiedCame
<1>4. Histories' = [Histories EXCEPT ![RowOf(t)] = Append(@, final)]
  BY HistoryGrows
<1> QED
  BY <1>1, <1>2, <1>3, <1>4 DEF Abstract!Next, Abstract!Extend, Histories

LEMMA OthersStutter == UNCHANGED table => UNCHANGED Histories
<1> SUFFICES ASSUME UNCHANGED table PROVE Histories' = Histories
  OBVIOUS
<1>1. \A r \in Row : Entries(r)' = Entries(r)
  BY DEF Entries
<1>2. \A r \in Row : History(r)' = History(r)
  BY <1>1, HistoryIsStates
<1> QED
  BY <1>2 DEF Histories

\* However the statements of the transactions interleave, and wherever they die,
\* what is committed is what RowChain promises: histories that only grow, along
\* the edges, and no start before the blockers were verified.
THEOREM Implements == Spec => Promise
<1>1. Init => Abstract!Init
  <2> SUFFICES ASSUME Init, NEW r \in Row PROVE History(r) = <<>>
    BY DEF Abstract!Init
  <2>1. Cardinality(Entries(r)) = 0
    BY FS_EmptySet DEF Init, Entries
  <2>2. Len(History(r)) = 0 /\ History(r) \in Seq(State)
    BY <2>1, InitHolds, HistoryOf
  <2> QED
    BY <2>2
<1>2. IInv /\ [Next]_vars => [Abstract!Next]_Histories
  BY TableStep, CommitExtends, OthersStutter
<1> QED
  BY <1>1, <1>2, Inductive, PTL DEF Spec, Promise, Abstract!Spec, Histories

=============================================================================
