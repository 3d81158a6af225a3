------------------------------- MODULE Ledger -------------------------------
(***************************************************************************)
(* The ledger: the state machine together with the transitions table, one  *)
(* append-only chain of moves for each row.  Anyone may ask for any move   *)
(* at any time, as the MCP server, the sheet and the functions do; what    *)
(* follows is what transition() alone guarantees of the chains, whatever   *)
(* its callers do.                                                         *)
(*                                                                         *)
(* An entry keeps who moved the row from where to where, and the state the *)
(* caller intended when a sheet invariant routed the row elsewhere.  The   *)
(* sequence number of an entry is its place in the chain; the hash that    *)
(* chains it to the one before it binds its contents, so an entry of the   *)
(* model is its contents.                                                  *)
(***************************************************************************)
EXTENDS StateMachine, Sequences

CONSTANT MaxMoves  \* MaxMoves[r] bounds the moves of row r

ASSUME MaxMovesAssumption == MaxMoves \in [Row -> Nat]

VARIABLE chain  \* chain[r]: the transitions rows of r in order of seq

vars == <<state, attempts, passing, attached, revoked, chain>>

\* from_state is null in the first entry of a row that was drafted.
Null == "null"

Entry == [from : State \cup {Null}, to : State, intended : State, actor : Worker]

\* What replayContract() answers: the last state recorded, or drafted.
Replay(history) ==
    IF history = <<>> THEN "drafted" ELSE history[Len(history)].to

\* Mutant: the first entry is no exception.
FromStateAlways(r) == state[r]

FromState(r) ==
    IF chain[r] = <<>> /\ state[r] = "drafted" THEN Null ELSE state[r]

Transition(r, to, a, verdict) ==
    /\ Len(chain[r]) < MaxMoves[r]
    /\ Move(r, to, a, verdict)
    /\ chain' = [chain EXCEPT ![r] =
                    Append(@, [from |-> FromState(r),
                               to |-> FinalState(to, verdict),
                               intended |-> to,
                               actor |-> a])]

Init == InitLedger /\ chain = [r \in Row |-> <<>>]

Next ==
    \/ \E r \in Row, to \in State, a \in Worker, verdict \in Severity :
           Transition(r, to, a, verdict)
    \/ \E r \in Row : RecordPass(r) /\ UNCHANGED chain
    \/ \E r \in Row, kind \in EvidenceKind :
           AttachEvidence(r, kind) /\ UNCHANGED chain
    \/ \E w \in Worker : ToggleStatus(w) /\ UNCHANGED chain

Spec == Init /\ [][Next]_vars

-----------------------------------------------------------------------------
(* Properties.                                                             *)

TypeOK == LedgerTypeOK /\ chain \in [Row -> Seq(Entry)]

Came(r, to) == {i \in DOMAIN chain[r] : chain[r][i].to = to}

\* The state column and the chain agree, and each entry starts where the one
\* before it ended: replaying a chain gives the state the sheet shows.
ChainLinked ==
    \A r \in Row :
        /\ state[r] = Replay(chain[r])
        /\ \A i \in DOMAIN chain[r] :
               chain[r][i].from =
                   IF i = 1 THEN Null ELSE chain[r][i - 1].to

\* Nothing is settled on an agent's word: a verified row was verified by its
\* last entry, and a done row by the entry before the one that closed it; the
\* row has a passing result and all required evidence, and when the check is a
\* person's, a person made that entry.
SettledIsProven ==
    \A r \in Row : state[r] \in Settled =>
        LET n == Len(chain[r])
            v == IF state[r] = "done" THEN n - 1 ELSE n
        IN  /\ VerifiedGate(r)
            /\ v \in DOMAIN chain[r]
            /\ chain[r][v].to = "verified"
            /\ r \in HumanCheck => chain[r][v].actor \in Person

\* Work that ever started was released by its blockers: each of them has been
\* verified at some time (invariant 5, read off the chains of two rows).
StartedBehindVerified ==
    \A r \in Row : Came(r, "in_progress") # {} =>
        \A b \in Blocker[r] : Came(b, "verified") # {}

\* attempts, which bounds the retries, counts the starts the chain records.
AttemptsAreStarts ==
    \A r \in Row : attempts[r] = Cardinality(Came(r, "in_progress"))

\* The chains are histories as RowChain promises them.
Abstract == INSTANCE RowChain WITH
    history <- [r \in Row |-> [i \in DOMAIN chain[r] |-> chain[r][i].to]]

\* Whatever its callers do, the ledger implements the promise of RowChain.
Promise == Abstract!Spec

=============================================================================
