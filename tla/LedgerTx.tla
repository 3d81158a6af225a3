------------------------------ MODULE LedgerTx ------------------------------
(***************************************************************************)
(* transition() as the database sees it: a transaction that takes the time *)
(* first, then the row's advisory lock, and then reads and writes with one *)
(* statement at a time while other transactions run.  Isolation is read    *)
(* committed: a statement sees what was committed before it, and the       *)
(* writes of a transaction appear together when it commits, at which its   *)
(* lock is released.  A transaction may also die before that, with nothing *)
(* written.                                                                *)
(*                                                                         *)
(* The transitions table is kept as the set of its rows.  The hash of a    *)
(* row is what it is taken of, the hash of the row before it among that.   *)
(***************************************************************************)
EXTENDS StateMachine, Sequences

CONSTANTS
    Tx,      \* calls of transition(); each runs once
    Call,    \* Call[t]: the row, the target and the actor t asks for
    Nothing, \* a value not read yet, and the genesis hash
    LastTime, \* bound on the clock
    MaxDeaths \* bound on the transactions that die

ASSUME CallAssumption ==
    /\ Call \in [Tx -> [row : Row, to : State, actor : Worker]]
    /\ Nothing \notin Tx
    /\ LastTime \in Nat
    /\ MaxDeaths \in Nat

VARIABLES
    table,  \* the committed rows of the transitions table
    lock,   \* lock[r]: the transaction that holds r's advisory lock
    pc,     \* pc[t]: what t does next, or how it ended
    now,    \* now[t]: the time t took before it opened
    seen,   \* seen[t]: the contract as t read it
    tail,   \* tail[t]: what t read of the end of the chain: its last entry, or none
    clock   \* the time; taking it advances it

txVars == <<pc, now, seen, tail>>

vars == <<ledgerVars, table, lock, txVars, clock>>

Ended == {"committed", "refused", "conflict", "dead"}

Entries(r) == {e \in table : e.row = r}

Last(entries) == CHOOSE e \in entries : \A f \in entries : f.seq <= e.seq

Init ==
    /\ InitLedger
    /\ table = {}
    /\ lock = [r \in Row |-> Nothing]
    /\ pc = [t \in Tx |-> "idle"]
    /\ now = [t \in Tx |-> 0]
    /\ seen = [t \in Tx |-> Nothing]
    /\ tail = [t \in Tx |-> {}]
    /\ clock = 0

-----------------------------------------------------------------------------
(* One action for each statement of the transaction.                       *)

\* The time is taken before the transaction opens.
Begin(t) ==
    /\ pc[t] = "idle"
    /\ pc' = [pc EXCEPT ![t] = "open"]
    /\ now' = [now EXCEPT ![t] = clock]
    /\ clock' = IF clock < LastTime THEN clock + 1 ELSE clock
    /\ UNCHANGED <<ledgerVars, table, lock, seen, tail>>

TakeLock(t) ==
    /\ pc[t] = "open"
    /\ lock[Call[t].row] = Nothing
    /\ lock' = [lock EXCEPT ![Call[t].row] = t]
    /\ pc' = [pc EXCEPT ![t] = "locked"]
    /\ UNCHANGED <<ledgerVars, table, now, seen, tail, clock>>

\* Mutant: a session lock, given back on the way out of a commit only.
ReleaseCommitted(t) ==
    lock' = [r \in Row |-> IF lock[r] = t /\ pc'[t] = "committed" THEN Nothing ELSE lock[r]]

\* The lock goes with the transaction, however it ends.
Release(t) == lock' = [r \in Row |-> IF lock[r] = t THEN Nothing ELSE lock[r]]

End(t, outcome) ==
    /\ pc' = [pc EXCEPT ![t] = outcome]
    /\ Release(t)
    /\ UNCHANGED <<now, seen, tail, clock>>

ReadContract(t) ==
    /\ pc[t] = "locked"
    /\ seen' = [seen EXCEPT ![t] = [state |-> state[Call[t].row],
                                    attempts |-> attempts[Call[t].row]]]
    /\ pc' = [pc EXCEPT ![t] = "read"]
    /\ UNCHANGED <<ledgerVars, table, lock, now, tail, clock>>

Refuse(t) == End(t, "refused") /\ UNCHANGED <<ledgerVars, table>>

Proceed(t, next) ==
    /\ pc' = [pc EXCEPT ![t] = next]
    /\ UNCHANGED <<ledgerVars, table, lock, now, seen, tail, clock>>

\* The actor is read, and refused when revoked or when the edge is not listed.
CheckActor(t) ==
    LET c == Call[t]
        allowed == c.actor \notin revoked /\ c.to \in Edges[seen[t].state]
    IN  /\ pc[t] = "read"
        /\ \/ allowed /\ Proceed(t, "gated")
           \/ ~allowed /\ Refuse(t)

\* The reads behind invariants 2 to 5: results and evidence, approvers, blockers.
CheckGates(t) ==
    LET c == Call[t]
        allowed == /\ c.to = "verified" => VerifiedGate(c.row)
                   /\ MaySettle(c.row, c.to, c.actor)
                   /\ MayResolve(c.row, seen[t].state, c.to, c.actor)
                   /\ MayStart(c.row, c.to)
    IN  /\ pc[t] = "gated"
        /\ \/ allowed /\ Proceed(t, "judged")
           \/ ~allowed /\ Refuse(t)

\* The end of the chain, by highest seq.
ReadTail(t) ==
    LET chain == Entries(Call[t].row) IN
    /\ pc[t] = "judged"
    /\ tail' = [tail EXCEPT ![t] = IF chain = {} THEN {} ELSE {Last(chain)}]
    /\ pc' = [pc EXCEPT ![t] = "ready"]
    /\ UNCHANGED <<ledgerVars, table, lock, now, seen, clock>>

Previous(t) == CHOOSE e \in tail[t] : TRUE

NextSeq(t) == IF tail[t] = {} THEN 0 ELSE Previous(t).seq + 1

\* Mutant: sequence number 0 taken for a missing one.
PrevHashFalsy(t) ==
    IF tail[t] = {} THEN Nothing ELSE IF Previous(t).seq = 0 THEN Nothing ELSE Previous(t).hash

PrevHash(t) == IF tail[t] = {} THEN Nothing ELSE Previous(t).hash

\* Mutant: a start that is routed to a person counts too.
StartsAsked(to, final) == to = "in_progress"

\* A first entry, out of drafted, records no state it leaves.
FromState(t) ==
    IF tail[t] = {} /\ seen[t].state = "drafted" THEN Nothing ELSE seen[t].state

TransitionHash(e) == <<e.prev, e.row, e.from, e.to, e.actor, e.at>>

\* What counts as an attempt.
Starts(to, final) == final = "in_progress"

Entry(t, final) ==
    LET unsealed == [row |-> Call[t].row, seq |-> NextSeq(t), prev |-> PrevHash(t),
                     from |-> FromState(t), to |-> final, actor |-> Call[t].actor,
                     at |-> now[t], hash |-> Nothing]
    IN  [unsealed EXCEPT !.hash = TransitionHash(unsealed)]

\* The entry is inserted, the contract updated from the copy that was read, and
\* the transaction commits; the unique index on (contract_id, seq) may object.
Commit(t, verdict) ==
    LET c == Call[t]
        final == FinalState(c.to, verdict)
        entry == Entry(t, final)
    IN  /\ pc[t] = "ready"
        /\ verdict \in Verdict[c.row]
        /\ \/ /\ verdict # "block"
              /\ \A e \in Entries(c.row) : e.seq # entry.seq
              /\ table' = table \cup {entry}
              /\ state' = [state EXCEPT ![c.row] = final]
              /\ attempts' = [attempts EXCEPT ![c.row] =
                     IF Starts(c.to, final) THEN seen[t].attempts + 1 ELSE @]
              /\ UNCHANGED <<passing, attached, revoked>>
              /\ End(t, "committed")
           \/ /\ verdict # "block"
              /\ \E e \in Entries(c.row) : e.seq = entry.seq
              /\ UNCHANGED <<ledgerVars, table>>
              /\ End(t, "conflict")
           \/ verdict = "block" /\ Refuse(t)

\* The process dies or the connection breaks.
Die(t) ==
    /\ pc[t] \notin Ended \cup {"idle"}
    /\ Cardinality({u \in Tx : pc[u] = "dead"}) < MaxDeaths
    /\ End(t, "dead")
    /\ UNCHANGED <<ledgerVars, table>>

Outside == UNCHANGED <<table, lock, txVars, clock>>

Step(t) ==
    \/ TakeLock(t)
    \/ ReadContract(t)
    \/ CheckActor(t)
    \/ CheckGates(t)
    \/ ReadTail(t)
    \/ \E verdict \in Severity : Commit(t, verdict)

Next ==
    \/ \E t \in Tx : Begin(t) \/ Step(t) \/ Die(t)
    \/ \E r \in Row : RecordPass(r) /\ Outside
    \/ \E r \in Row : \E kind \in Required[r] : AttachEvidence(r, kind) /\ Outside
    \/ \E w \in Worker : ToggleStatus(w) /\ Outside

\* The database serves every open transaction; nobody has to open one.
Fairness == \A t \in Tx : WF_vars(Step(t))

Spec == Init /\ [][Next]_vars /\ Fairness

-----------------------------------------------------------------------------
(* Reading the table.                                                      *)

\* verifyChainRows(): the entries of a row, in order, stand without a gap, each on
\* the hash of the one before it, and each hash is of its contents.
VerifyChainRows(rows) ==
    \A e \in rows :
        /\ e.seq = Cardinality({f \in rows : f.seq < e.seq})
        /\ IF e.seq = 0 THEN e.prev = Nothing
           ELSE \E p \in rows : p.seq = e.seq - 1 /\ p.hash = e.prev
        /\ e.hash = TransitionHash(e)

\* verifyAllChains(): the rows whose chain is broken.
Broken == {r \in Row : ~VerifyChainRows(Entries(r))}

\* replayRun(): a row as of an instant, from the entries recorded by then.
ReplayRow(r, asOf) ==
    LET history == {e \in Entries(r) : e.at <= asOf} IN
    [state |-> IF history = {} THEN "drafted" ELSE Last(history).to,
     transitionsSoFar |-> Cardinality(history)]

-----------------------------------------------------------------------------
(* Properties.                                                             *)

TypeOK ==
    /\ LedgerTypeOK
    /\ \A e \in table :
           /\ e.row \in Row /\ e.seq \in Nat /\ e.to \in State
           /\ e.from \in State \cup {Nothing} /\ e.actor \in Worker /\ e.at \in Nat
    /\ lock \in [Row -> Tx \cup {Nothing}]
    /\ pc \in [Tx -> Ended \cup {"idle", "open", "locked", "read", "gated",
                                 "judged", "ready"}]
    /\ now \in [Tx -> Nat]
    /\ seen \in [Tx -> [state : State, attempts : Nat] \cup {Nothing}]
    /\ tail \in [Tx -> SUBSET table]
    /\ clock \in Nat

\* verifyAllChains() finds every chain whole, and no chain can fork: the lock keeps
\* two transactions from appending to the same end, so the unique index never has
\* to object.
ChainsVerify == Broken = {} /\ \A t \in Tx : pc[t] # "conflict"

\* Read committed and the lock are enough for what RowChain promises.
History(r) ==
    [i \in 1 .. Cardinality(Entries(r)) |->
        (CHOOSE e \in Entries(r) : e.seq = i - 1).to]
Abstract == INSTANCE RowChain WITH history <- [r \in Row |-> History(r)]
Promise == Abstract!Spec

\* No start is lost: attempts counts the entries into in_progress although it is
\* written from a copy read several statements earlier.
NoLostAttempt ==
    \A r \in Row :
        attempts[r] = Cardinality({e \in Entries(r) : e.to = "in_progress"})

\* Every call gets an answer: a transaction waits for one lock and gives it back,
\* so in the end none is open.
EveryCallEnds == <>[](\A t \in Tx : pc[t] \in Ended \cup {"idle"})

\* replay.ts: "the state of the work at any past instant is a fold of the
\* transitions up to that instant".  What is replayed as of an instant is a state
\* the row was in, after as many transitions as are counted.
ReplayIsAPrefix ==
    \A r \in Row, asOf \in 0 .. LastTime :
        LET replayed == ReplayRow(r, asOf) IN
        replayed.transitionsSoFar > 0 =>
            \E e \in Entries(r) : e.seq = replayed.transitionsSoFar - 1 /\ e.to = replayed.state

=============================================================================
