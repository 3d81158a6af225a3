---------------------------- MODULE StateMachine ----------------------------
(***************************************************************************)
(* The contract state machine of lib/ledger/state.ts.  Every surface of    *)
(* the Work Ledger (agents, background functions, MCP clients, the sheet)  *)
(* moves a row of work, a "contract", by calling transition(); this module *)
(* is that function and the writes around it, for the modules that run     *)
(* them to compose.                                                        *)
(*                                                                         *)
(* A check result or an evidence row matters to the gate only by being     *)
(* there, so the tables check_results and evidence are the set `passing`   *)
(* of rows with some passing result and the kinds `attached` to each row.  *)
(* The sheet invariants of a workflow are free text over a row's payload;  *)
(* here they are the verdicts Verdict[r] that evaluating them can have.    *)
(***************************************************************************)
EXTENDS Naturals, FiniteSets

CONSTANTS
    Row,          \* the contracts
    Worker,       \* everyone who may act: people and agents
    Person,       \* the workers whose kind is "person"
    HumanCheck,   \* the rows whose check only a person can settle
    Approver,     \* Approver[r]: escalation_to and the workflow's approvers
    Blocker,      \* Blocker[r]: the rows that r waits on (blocked_by)
    EvidenceKind, \* kinds of evidence
    Required,     \* Required[r]: the kinds evidence_required lists
    Verdict       \* Verdict[r]: what the sheet invariants may say of a move of r

Severity == {"hold", "block", "escalate"}

ASSUME ConstantsAssumption ==
    /\ Person \subseteq Worker
    /\ HumanCheck \subseteq Row
    /\ Approver \in [Row -> SUBSET Worker]
    /\ Blocker \in [Row -> SUBSET Row]
    /\ Required \in [Row -> SUBSET EvidenceKind]
    /\ Verdict \in [Row -> SUBSET Severity]

State == {"drafted", "contracted", "in_progress", "completed_pending_check",
          "verified", "done", "handed_back", "awaiting_approval", "escalated",
          "blocked", "failed", "reopened"}

Settled == {"verified", "done"}

\* The allowed edges, as the table lists them.
Edges ==
    [drafted |-> {"contracted", "blocked", "escalated", "failed"},
     contracted |-> {"in_progress", "blocked", "escalated", "failed",
                     "handed_back"},
     blocked |-> {"contracted", "in_progress", "escalated", "failed"},
     in_progress |-> {"completed_pending_check", "handed_back", "blocked",
                      "escalated", "failed"},
     completed_pending_check |-> {"verified", "awaiting_approval",
                                  "handed_back", "escalated", "failed"},
     awaiting_approval |-> {"verified", "handed_back", "escalated", "failed"},
     handed_back |-> {"in_progress", "contracted", "escalated", "failed"},
     verified |-> {"done", "reopened", "escalated"},
     done |-> {"reopened"},
     escalated |-> {"contracted", "in_progress", "handed_back",
                    "awaiting_approval", "verified", "failed", "reopened"},
     failed |-> {"reopened", "contracted"},
     reopened |-> {"contracted", "in_progress", "blocked"}]

VARIABLES
    state,     \* contracts.state
    attempts,  \* contracts.attempts
    passing,   \* the rows for which check_results holds a passing result
    attached,  \* the kinds of evidence attached to each row
    revoked    \* the workers whose status is "revoked"

ledgerVars == <<state, attempts, passing, attached, revoked>>

InitLedger ==
    /\ state = [r \in Row |-> "drafted"]
    /\ attempts = [r \in Row |-> 0]
    /\ passing = {}
    /\ attached = [r \in Row |-> {}]
    /\ revoked = {}

LedgerTypeOK ==
    /\ state \in [Row -> State]
    /\ attempts \in [Row -> Nat]
    /\ passing \subseteq Row
    /\ attached \in [Row -> SUBSET EvidenceKind]
    /\ revoked \subseteq Worker

-----------------------------------------------------------------------------
(* transition(): the refusals in the order the code raises them, then the  *)
(* effect.  A refused transition changes nothing.                          *)

\* Invariant 2: a passing result and all the evidence the row requires.
VerifiedGate(r) == r \in passing /\ Required[r] \subseteq attached[r]

\* Mutant: only the move to done is guarded.
MaySettleDone(r, to, a) == to = "done" /\ r \in HumanCheck => a \in Person

\* Invariant 3: an agent never settles a check that lists human approval.
MaySettle(r, to, a) == to \in Settled /\ r \in HumanCheck => a \in Person

\* Invariant 4: awaiting_approval resolves only by a named person.
MayResolve(r, from, to, a) ==
    from = "awaiting_approval" /\ to \in {"verified", "handed_back"}
        => a \in Person /\ a \in Approver[r]

\* Mutant: a blocker that waits for its check or for a person holds nothing up.
MayStartEarly(r, to) ==
    to = "in_progress" => \A b \in Blocker[r] :
        state[b] \in Settled \cup {"completed_pending_check", "escalated"}

\* Invariant 5: blockers are settled before work starts.
MayStart(r, to) ==
    to = "in_progress" => \A b \in Blocker[r] : state[b] \in Settled

\* Mutant: no look at the table of edges.
PermittedAnywhere(r, to, a) ==
    /\ a \notin revoked
    /\ to = "verified" => VerifiedGate(r)
    /\ MaySettle(r, to, a)
    /\ MayResolve(r, state[r], to, a)
    /\ MayStart(r, to)

Permitted(r, to, a) ==
    /\ a \notin revoked
    /\ to \in Edges[state[r]]
    /\ to = "verified" => VerifiedGate(r)
    /\ MaySettle(r, to, a)
    /\ MayResolve(r, state[r], to, a)
    /\ MayStart(r, to)

\* Invariant 9: an escalate verdict routes the row to a person instead.
FinalState(to, verdict) == IF verdict = "escalate" THEN "escalated" ELSE to

\* The move itself: the row lands in `final` and a start is one more attempt.
Land(r, final) ==
    /\ state' = [state EXCEPT ![r] = final]
    /\ attempts' = [attempts EXCEPT ![r] = @ + IF final = "in_progress" THEN 1 ELSE 0]
    /\ UNCHANGED <<passing, attached, revoked>>

Move(r, to, a, verdict) ==
    /\ Permitted(r, to, a)
    /\ verdict \in Verdict[r] \ {"block"}
    /\ Land(r, FinalState(to, verdict))

-----------------------------------------------------------------------------
(* The writes around a row that are not state writes.                      *)

RecordPass(r) ==
    /\ passing' = passing \cup {r}
    /\ UNCHANGED <<state, attempts, attached, revoked>>

AttachEvidence(r, kind) ==
    /\ attached' = [attached EXCEPT ![r] = @ \cup {kind}]
    /\ UNCHANGED <<state, attempts, passing, revoked>>

\* One route both revokes a worker and lets a revoked one act again.
ToggleStatus(w) ==
    /\ revoked' = IF w \in revoked THEN revoked \ {w} ELSE revoked \cup {w}
    /\ UNCHANGED <<state, attempts, passing, attached>>

=============================================================================
