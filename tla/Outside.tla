------------------------------- MODULE Outside ------------------------------
(***************************************************************************)
(* What reaches the rows from outside the office: a worker revoked by the  *)
(* route of app/api/workers, with the function that sends its open     *)
(* rows to a person (inngest/functions/revoke.ts), and an agent of another *)
(* system that calls the tools of lib/interop/mcp.ts with a token, or that *)
(* is reached through a chat account someone watches                       *)
(* (lib/interop/workerKinds.ts).  Each takes a slot while it runs, like a  *)
(* function.                                                               *)
(***************************************************************************)
EXTENDS Jobs

CONSTANTS
    Revocable,   \* the workers a person may revoke and let act again
    Holder,      \* the workers that hold a token
    MaxToggles,  \* bound on the presses of the revoke button
    MaxCalls     \* bound on the calls of a tool

ASSUME OutsideAssumption ==
    /\ Revocable \subseteq Worker
    /\ Holder \subseteq Worker \ Person
    /\ MaxToggles \in Nat /\ MaxCalls \in Nat

VARIABLES
    told,  \* told[w]: worker/revoked events sent and not yet handled
    came   \* how many toggles and calls there were

outsideVars == <<told, came>>

InitOutside == told = [w \in Worker |-> 0] /\ came = [toggles |-> 0, calls |-> 0]

OutsideTypeOK == told \in [Worker -> Nat]

AnyRow == CHOOSE r \in Row : TRUE

-----------------------------------------------------------------------------
(* Revocation.                                                             *)

\* The worker is read, and its status is written by a second statement.
StartToggle(s, w) ==
    /\ came.toggles < MaxToggles
    /\ came' = [came EXCEPT !.toggles = @ + 1]
    /\ Start(s, "toggle", AnyRow, "store", [worker |-> w, was |-> w \in revoked])
    /\ UNCHANGED <<ledgerVars, pending, contents, told>>

\* What is stored is the opposite of what was read; a revocation is announced.
StoreStatus(s) ==
    LET seen == job[s].seen IN
    /\ Running(s, "toggle", "store")
    /\ IF (seen.worker \in revoked) = seen.was THEN ToggleStatus(seen.worker) ELSE UNCHANGED ledgerVars
    /\ told' = IF seen.was THEN told ELSE [told EXCEPT ![seen.worker] = @ + 1]
    /\ Finish(s)
    /\ UNCHANGED <<pending, contents, came>>

\* Mutant: a row that waits for its check is left to the check.
OpenStatesAtWork == {"drafted", "contracted", "in_progress", "awaiting_approval",
                     "handed_back", "blocked", "reopened"}

OpenStates == {"drafted", "contracted", "in_progress", "completed_pending_check",
               "awaiting_approval", "handed_back", "blocked", "reopened"}

\* The open rows are listed once, whatever the status of the worker is by now.
StartRevoke(s, w) ==
    /\ told[w] > 0
    /\ told' = [told EXCEPT ![w] = @ - 1]
    /\ Start(s, "revoke", AnyRow, "rows",
             [rows |-> {r \in Row : Owner[r] = w /\ state[r] \in OpenStates}])
    /\ UNCHANGED <<ledgerVars, pending, contents, came>>

\* Each row of the list is escalated from where it is by then, or refused.
EscalateRevoked(s) ==
    LET rows == job[s].seen.rows IN
    /\ Running(s, "revoke", "rows")
    /\ \/ \E r \in rows :
              /\ Moved(r, "escalated", Maya) \/ Refused(r, "escalated", Maya)
              /\ Recall(s, "rows", [rows |-> rows \ {r}])
       \/ rows = {} /\ Finish(s) /\ UNCHANGED ledgerVars
    /\ UNCHANGED <<pending, contents, outsideVars>>

-----------------------------------------------------------------------------
(* The tools that write: claim_row, submit_output and ask_approval.        *)

\* The token is looked up and the row is read; only its owner claims it or submits
\* for it, and anybody asks for an approval.
StartCall(s, r, w, tool) ==
    /\ came.calls < MaxCalls
    /\ came' = [came EXCEPT !.calls = @ + 1]
    /\ w \notin revoked
    /\ tool \in {"claim", "attach"} => Owner[r] = w
    /\ Start(s, "mcp", r, tool, [worker |-> w])
    /\ UNCHANGED <<ledgerVars, pending, contents, told>>

ClaimRow(s) ==
    /\ Running(s, "mcp", "claim")
    /\ MoveThenFinish(s, "in_progress", job[s].seen.worker)
    /\ UNCHANGED outsideVars

\* The evidence sent with the output is attached, whatever the state of the row.
AttachSent(s) ==
    /\ Running(s, "mcp", "attach")
    /\ \E kinds \in SUBSET EvidenceKind :
           attached' = [attached EXCEPT ![job[s].row] = @ \cup kinds]
    /\ Goto(s, "output")
    /\ UNCHANGED <<state, attempts, passing, revoked, pending, contents, outsideVars>>

\* So is the output, of a call or of a reply, before the ledger is asked.
SetOutputs(s) ==
    LET r == job[s].row IN
    /\ Running(s, "mcp", "output") \/ Running(s, "chat", "output")
    /\ outputs' = [outputs EXCEPT ![r] = [inputs |-> inputs[r], attempt |-> attempts[r]]]
    /\ Goto(s, "submit")
    /\ UNCHANGED <<ledgerVars, pending, inputs, proven, outsideVars>>

SubmitOutput(s) ==
    /\ Running(s, "mcp", "submit") \/ Running(s, "chat", "submit")
    /\ MoveThenSend(s, "completed_pending_check", job[s].seen.worker, "completed_pending_check")
    /\ UNCHANGED outsideVars

AskApproval(s) ==
    /\ Running(s, "mcp", "ask")
    /\ MoveThenSend(s, "awaiting_approval", job[s].seen.worker, "awaiting_approval")
    /\ UNCHANGED outsideVars

-----------------------------------------------------------------------------
(* The chat account of a bot: the row is handed to it, its reply is read,  *)
(* and a bot that does not answer is timed out.                            *)

\* Any of the three, of whatever row, bot and state: the ledger is what refuses.
StartChat(s, r, w, pc) ==
    /\ came.calls < MaxCalls
    /\ came' = [came EXCEPT !.calls = @ + 1]
    /\ Start(s, "chat", r, pc, [worker |-> w])
    /\ UNCHANGED <<ledgerVars, pending, contents, told>>

HandOff(s) ==
    /\ Running(s, "chat", "handoff")
    /\ MoveThenFinish(s, "in_progress", job[s].seen.worker)
    /\ UNCHANGED outsideVars

\* A reply brings all the evidence the row requires, or the row goes back.
ReadReply(s) ==
    LET r == job[s].row IN
    /\ Running(s, "chat", "reply")
    /\ \E kinds \in SUBSET EvidenceKind :
           /\ attached' = [attached EXCEPT ![r] = @ \cup kinds]
           /\ Goto(s, IF Required[r] \subseteq kinds THEN "output" ELSE "return")
    /\ UNCHANGED <<state, attempts, passing, revoked, pending, contents, outsideVars>>

HandBackReply(s) ==
    /\ Running(s, "chat", "return")
    /\ MoveThenFinish(s, "handed_back", job[s].seen.worker)
    /\ UNCHANGED outsideVars

TimeOutChat(s) ==
    /\ Running(s, "chat", "timeout")
    /\ MoveThenFinish(s, "escalated", job[s].seen.worker)
    /\ UNCHANGED outsideVars

OutsideStep(s) ==
    \/ StoreStatus(s)
    \/ \E w \in Worker : StartRevoke(s, w)
    \/ EscalateRevoked(s)
    \/ ClaimRow(s)
    \/ AttachSent(s)
    \/ SetOutputs(s)
    \/ SubmitOutput(s)
    \/ AskApproval(s)
    \/ HandOff(s)
    \/ ReadReply(s)
    \/ HandBackReply(s)
    \/ TimeOutChat(s)

OutsideActs ==
    \/ \E s \in Slot, w \in Revocable : StartToggle(s, w)
    \/ \E s \in Slot, r \in Row, w \in Holder, tool \in {"claim", "attach", "ask"} : StartCall(s, r, w, tool)
    \/ \E s \in Slot, r \in Row, w \in Holder, pc \in {"handoff", "reply", "timeout"} : StartChat(s, r, w, pc)

=============================================================================
