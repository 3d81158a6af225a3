------------------------------ MODULE Approvals -----------------------------
(***************************************************************************)
(* inngest/functions/approvals.ts: two functions around a row that waits   *)
(* for a person.  The watcher, started by contract/awaiting_approval,      *)
(* waits for a press or the end of the window and escalates the row when   *)
(* the window closes or the presses run out.  settleApproval, started by   *)
(* each press (approval/decided), moves the row as the press says, or is   *)
(* refused.  A press wakes the watchers and starts the settling at once,   *)
(* so the two run against each other.                                      *)
(***************************************************************************)
EXTENDS Jobs

CONSTANTS
    MaxPresses,   \* MAX_PRESSES: presses a watcher sits through
    MaxPressed    \* bound on the presses people make

ASSUME ApprovalsAssumption == MaxPresses \in Nat \ {0} /\ MaxPressed \in Nat

VARIABLE pressed  \* the number of presses so far

Decision == {"approve", "hand_back"}

-----------------------------------------------------------------------------
(* The watcher.                                                            *)

StartWatch(s, r) ==
    /\ Take("awaiting_approval", r)
    /\ Start(s, "approvals", r, "wait", [press |-> 0])
    /\ UNCHANGED <<ledgerVars, contents, pressed>>

\* The window closes on a watcher that still waits.
WindowCloses(s) ==
    /\ Running(s, "approvals", "wait")
    /\ Goto(s, "late")
    /\ UNCHANGED <<ledgerVars, pending, contents, pressed>>

\* Mutant: the first press ends the watch, whatever became of it.
LookOnce(s) ==
    /\ job[s].fn = "approvals" /\ job[s].pc \in {"woken", "late"}
    /\ IF state[job[s].row] = "awaiting_approval" /\ job[s].pc = "late"
       THEN Goto(s, "escalate") ELSE Finish(s)
    /\ UNCHANGED <<ledgerVars, pending, contents, pressed>>

\* Woken, it reads the row: settled means done watching, a press that changed
\* nothing means one press fewer to sit through, and no press means too late.
Look(s) ==
    LET seen == job[s].seen
        waiting == state[job[s].row] = "awaiting_approval"
    IN  /\ job[s].fn = "approvals" /\ job[s].pc \in {"woken", "late"}
        /\ \/ ~waiting /\ Finish(s)
           \/ waiting /\ job[s].pc = "late" /\ Goto(s, "escalate")
           \/ /\ waiting /\ job[s].pc = "woken"
              /\ Recall(s, IF seen.press + 1 < MaxPresses THEN "wait" ELSE "escalate",
                        [press |-> seen.press + 1])
        /\ UNCHANGED <<ledgerVars, pending, contents, pressed>>

StopWaiting(s) ==
    /\ Running(s, "approvals", "escalate")
    /\ MoveThenFinish(s, "escalated", OwnerOrMaya(job[s].row))
    /\ UNCHANGED pressed

-----------------------------------------------------------------------------
(* The press and its settling.                                             *)

\* A press wakes every watcher of the row and starts an invocation that settles it.
Deliver(s, r, a, decision) ==
    /\ job[s] = Idle
    /\ job' = [t \in Slot |->
                  IF t = s
                  THEN [fn |-> "settle", row |-> r, pc |-> "load",
                        seen |-> [actor |-> a, decision |-> decision, attempts |-> 0]]
                  ELSE IF Running(t, "approvals", "wait") /\ job[t].row = r
                  THEN [job[t] EXCEPT !.pc = "woken"]
                  ELSE job[t]]

\* A person presses a button of a row they see waiting.
Press(s, r, a, decision) ==
    /\ pressed < MaxPressed
    /\ a \in Person
    /\ state[r] = "awaiting_approval"
    /\ Deliver(s, r, a, decision)
    /\ pressed' = pressed + 1
    /\ UNCHANGED <<ledgerVars, pending, contents>>

LoadSettle(s) ==
    LET r == job[s].row IN
    /\ Running(s, "settle", "load")
    /\ \/ state[r] # "awaiting_approval" /\ Finish(s)
       \/ /\ state[r] = "awaiting_approval"
          /\ Recall(s, "reason", [job[s].seen EXCEPT !.attempts = attempts[r]])
    /\ UNCHANGED <<ledgerVars, pending, contents, pressed>>

\* The decision goes on the record as evidence, whichever way it went.
Reason(s) ==
    /\ Running(s, "settle", "reason")
    /\ attached' = [attached EXCEPT ![job[s].row] =
                       @ \cup ({"decision_reason"} \cap EvidenceKind)]
    /\ Goto(s, IF job[s].seen.decision = "approve" THEN "record" ELSE "handback")
    /\ UNCHANGED <<state, attempts, passing, revoked, pending, contents, pressed>>

\* An approval is a passing result, recorded before anyone asks whose it is.
RecordApproval(s) ==
    /\ Running(s, "settle", "record")
    /\ RecordPass(job[s].row)
    /\ Goto(s, "verify")
    /\ UNCHANGED <<pending, contents, pressed>>

VerifyApproved(s) ==
    /\ Running(s, "settle", "verify")
    /\ MoveThenSend(s, "verified", job[s].seen.actor, "verified")
    /\ UNCHANGED pressed

HandBackDecided(s) ==
    LET r == job[s].row
        seen == job[s].seen
        retry == AttemptsLeft(r, seen.attempts)
    IN  /\ Running(s, "settle", "handback")
        /\ Finish(s)
        /\ UNCHANGED <<contents, pressed>>
        /\ \/ Moved(r, "handed_back", seen.actor) /\ retry /\ Send("assigned", r)
           \/ Moved(r, "handed_back", seen.actor) /\ ~retry /\ UNCHANGED pending
           \/ Refused(r, "handed_back", seen.actor) /\ UNCHANGED pending

ApprovalsStep(s) ==
    \/ \E r \in Row : StartWatch(s, r)
    \/ WindowCloses(s)
    \/ Look(s)
    \/ StopWaiting(s)
    \/ LoadSettle(s)
    \/ Reason(s)
    \/ RecordApproval(s)
    \/ VerifyApproved(s)
    \/ HandBackDecided(s)

=============================================================================
