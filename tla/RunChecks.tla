------------------------------ MODULE RunChecks -----------------------------
(***************************************************************************)
(* contract/completed_pending_check -> runChecks                           *)
(* (inngest/functions/runChecks.ts): runs the row's check on the row as it *)
(* was when the handler started and records the result; then the row goes  *)
(* to verified, to a person's approval, or back to its owner.              *)
(***************************************************************************)
EXTENDS Jobs

StartRunChecks(s, r) ==
    /\ Take("completed_pending_check", r)
    /\ Start(s, "runChecks", r, "check",
             [attempts |-> attempts[r], inputs |-> inputs[r], outputs |-> outputs[r]])
    /\ UNCHANGED <<ledgerVars, contents>>

\* Mutant: the result is recorded and not looked at.
CheckUnread(s) ==
    LET r == job[s].row IN
    /\ Running(s, "runChecks", "check")
    /\ RecordPass(r)
    /\ \/ proven' = [proven EXCEPT ![r] = @ \cup {job[s].seen.outputs}]
       \/ UNCHANGED proven
    /\ Goto(s, IF r \in HumanCheck THEN "await" ELSE "verify")
    /\ UNCHANGED <<pending, inputs, outputs>>

\* Mutant: a person who owns the row need not approve it.
CheckByOwner(s) ==
    LET r == job[s].row IN
    /\ Running(s, "runChecks", "check")
    /\ \/ /\ RecordPass(r)
          /\ proven' = [proven EXCEPT ![r] = @ \cup {job[s].seen.outputs}]
          /\ Goto(s, IF r \in HumanCheck /\ Owner[r] \notin Person THEN "await" ELSE "verify")
       \/ Goto(s, "restore") /\ UNCHANGED <<ledgerVars, proven>>
    /\ UNCHANGED <<pending, inputs, outputs>>

\* The check passes or fails, and the result is recorded.
Check(s) ==
    LET r == job[s].row
        next == IF r \in HumanCheck THEN "await" ELSE "verify"
    IN  /\ Running(s, "runChecks", "check")
        /\ \/ /\ RecordPass(r)
              /\ proven' = [proven EXCEPT ![r] = @ \cup {job[s].seen.outputs}]
              /\ Goto(s, next)
           \/ Goto(s, "restore") /\ UNCHANGED <<ledgerVars, proven>>
        /\ UNCHANGED <<pending, inputs, outputs>>

Await(s) ==
    /\ Running(s, "runChecks", "await")
    /\ MoveThenSend(s, "awaiting_approval", OwnerOrMaya(job[s].row), "awaiting_approval")

Verify(s) ==
    /\ Running(s, "runChecks", "verify")
    /\ MoveThenSend(s, "verified", OwnerOrMaya(job[s].row), "verified")

\* The reason is added to the inputs, which are written back as they were read.
Restore(s) ==
    /\ Running(s, "runChecks", "restore")
    /\ inputs' = [inputs EXCEPT ![job[s].row] = job[s].seen.inputs]
    /\ Goto(s, "handback")
    /\ UNCHANGED <<ledgerVars, pending, outputs, proven>>

\* The row goes back; while attempts are left it is assigned again.
HandBack(s) ==
    LET r == job[s].row
        a == OwnerOrMaya(r)
        retry == AttemptsLeft(r, job[s].seen.attempts)
    IN  /\ Running(s, "runChecks", "handback")
        /\ UNCHANGED contents
        /\ \/ Moved(r, "handed_back", a) /\ retry /\ Send("assigned", r) /\ Finish(s)
           \/ Moved(r, "handed_back", a) /\ ~retry /\ UNCHANGED pending /\ Goto(s, "exhausted")
           \/ Refused(r, "handed_back", a) /\ UNCHANGED pending /\ Finish(s)

Exhausted(s) ==
    /\ Running(s, "runChecks", "exhausted")
    /\ MoveThenFinish(s, "escalated", OwnerOrMaya(job[s].row))

RunChecksNext(s) ==
    \/ \E r \in Row : StartRunChecks(s, r)
    \/ Check(s)
    \/ Await(s)
    \/ Verify(s)
    \/ Restore(s)
    \/ HandBack(s)
    \/ Exhausted(s)

=============================================================================
