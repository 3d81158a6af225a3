------------------------------ MODULE AgentStep -----------------------------
(***************************************************************************)
(* contract/assigned -> agentStep (inngest/functions/agentStep.ts): the    *)
(* owner of a row takes it up.  An agent runs its tool loop, writes the    *)
(* outputs and submits; a person is told, unless the row is a decision,    *)
(* which goes straight to its check.                                       *)
(***************************************************************************)
EXTENDS Jobs

\* Mutant: a row nobody owns is announced like a person's.
FirstStepUnowned(r) ==
    CASE Owner[r] \in Person /\ r \in HumanCheck -> "decide"
      [] Owner[r] \in Person \cup {NoOne} /\ r \notin HumanCheck -> "notify"
      [] OTHER -> "start"

\* Where the handler branches once it has read the row and its owner.
FirstStep(r) ==
    CASE Owner[r] = NoOne -> "unowned"
      [] Owner[r] \in Person /\ r \in HumanCheck -> "decide"
      [] Owner[r] \in Person /\ r \notin HumanCheck -> "notify"
      [] OTHER -> "start"

StartAgentStep(s, r) ==
    /\ Take("assigned", r)
    /\ Start(s, "agentStep", r, FirstStep(r), NoOutputs)
    /\ UNCHANGED <<ledgerVars, contents>>

Unowned(s) == Running(s, "agentStep", "unowned") /\ MoveThenFinish(s, "escalated", Maya)

\* The person is told the row is theirs; their work arrives another way.
Notify(s) ==
    /\ Running(s, "agentStep", "notify")
    /\ Finish(s)
    /\ UNCHANGED <<ledgerVars, pending, contents>>

Decide(s) ==
    /\ Running(s, "agentStep", "decide")
    /\ MoveThenGoto(s, "in_progress", Owner[job[s].row], "ready")

Ready(s) ==
    /\ Running(s, "agentStep", "ready")
    /\ MoveThenSend(s, "completed_pending_check", Owner[job[s].row], "completed_pending_check")

\* The agent starts, and from here works on the row as the start returned it.
BeginWork(s) ==
    LET r == job[s].row IN
    /\ Running(s, "agentStep", "start")
    /\ UNCHANGED <<pending, contents>>
    /\ \/ /\ Moved(r, "in_progress", Owner[r])
          /\ Recall(s, "work", [inputs |-> inputs[r], attempt |-> attempts'[r]])
       \/ Refused(r, "in_progress", Owner[r]) /\ Finish(s)

\* The tool loop: it attaches evidence as it goes and ends in a submission or,
\* refusing, failing or out of budget, not.
Work(s) ==
    /\ Running(s, "agentStep", "work")
    /\ \E kinds \in SUBSET EvidenceKind :
           attached' = [attached EXCEPT ![job[s].row] = @ \cup kinds]
    /\ \E pc \in {"outputs", "escalate"} : Goto(s, pc)
    /\ UNCHANGED <<state, attempts, passing, revoked, pending, contents>>

\* Nothing looks at the state of the row before its outputs are written.
WriteOutputs(s) ==
    /\ Running(s, "agentStep", "outputs")
    /\ outputs' = [outputs EXCEPT ![job[s].row] = job[s].seen]
    /\ Goto(s, "submit")
    /\ UNCHANGED <<ledgerVars, pending, inputs, proven>>

Submit(s) ==
    /\ Running(s, "agentStep", "submit")
    /\ MoveThenSend(s, "completed_pending_check", Owner[job[s].row], "completed_pending_check")

GiveUp(s) ==
    /\ Running(s, "agentStep", "escalate")
    /\ MoveThenFinish(s, "escalated", Owner[job[s].row])

AgentStepNext(s) ==
    \/ \E r \in Row : StartAgentStep(s, r)
    \/ Unowned(s)
    \/ Notify(s)
    \/ Decide(s)
    \/ Ready(s)
    \/ BeginWork(s)
    \/ Work(s)
    \/ WriteOutputs(s)
    \/ Submit(s)
    \/ GiveUp(s)

=============================================================================
