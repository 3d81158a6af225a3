-------------------------------- MODULE Jobs --------------------------------
(***************************************************************************)
(* What the durable functions of inngest/functions run on: the dispatcher, *)
(* which starts an invocation for each event, and move(), by which an      *)
(* invocation asks for a transition.  An invocation, a "job", is a handler *)
(* that has been started: it holds what it has read and awaits at each     *)
(* step, so every step is an action and other jobs run in between.         *)
(*                                                                         *)
(* The contents of a row are versions.  Inputs carry the number of the     *)
(* edit that wrote them; outputs carry the inputs and the attempt they     *)
(* were made from.                                                         *)
(***************************************************************************)
EXTENDS StateMachine

CONSTANTS
    Slot,         \* places for invocations that run at the same time
    Owner,        \* Owner[r]: the worker who owns r, or NoOne
    NoOne,
    Maya,         \* the person the code falls back on
    EscalationTo, \* EscalationTo[r]: contracts.escalation_to, or NoOne
    MaxAttempts   \* MaxAttempts[r]: contracts.max_attempts

ASSUME JobsAssumption ==
    /\ NoOne \notin Worker
    /\ Owner \in [Row -> Worker \cup {NoOne}]
    /\ EscalationTo \in [Row -> Worker \cup {NoOne}]
    /\ Maya \in Person
    /\ MaxAttempts \in [Row -> Nat]

VARIABLES
    pending,  \* pending[name][r]: events sent and not yet handled
    job,      \* job[s]: the invocation in slot s
    inputs,   \* inputs[r]: the version of contracts.inputs
    outputs,  \* outputs[r]: the version of contracts.outputs
    proven    \* proven[r]: the outputs that passed r's check (a history)

jobVars == <<pending, job>>
contents == <<inputs, outputs, proven>>
runtimeVars == <<ledgerVars, jobVars, contents>>

EventName == {"assigned", "completed_pending_check", "awaiting_approval", "verified"}

Idle == [fn |-> "idle"]

NoOutputs == [inputs |-> 0, attempt |-> 0]

InitJobs ==
    /\ InitLedger
    /\ pending = [name \in EventName |-> [r \in Row |-> 0]]
    /\ job = [s \in Slot |-> Idle]
    /\ inputs = [r \in Row |-> 0]
    /\ outputs = [r \in Row |-> NoOutputs]
    /\ proven = [r \in Row |-> {}]

Version == [inputs : Nat, attempt : Nat]

JobsTypeOK ==
    /\ LedgerTypeOK
    /\ pending \in [EventName -> [Row -> Nat]]
    /\ \A s \in Slot : job[s] = Idle \/ job[s].row \in Row
    /\ inputs \in [Row -> Nat]
    /\ outputs \in [Row -> Version]
    /\ proven \in [Row -> SUBSET Version]

OwnerOrMaya(r) == IF Owner[r] = NoOne THEN Maya ELSE Owner[r]

EscalatorOf(r) == IF EscalationTo[r] = NoOne THEN Maya ELSE EscalationTo[r]

\* Mutant: one attempt too many.
OneMoreAttempt(r, used) == used <= MaxAttempts[r]

AttemptsLeft(r, used) == used < MaxAttempts[r]

-----------------------------------------------------------------------------
(* The dispatcher.                                                         *)

Send(name, r) == pending' = [pending EXCEPT ![name][r] = @ + 1]

\* Mutant: an event that may be delivered again.
TakeAgain(name, r) ==
    /\ pending[name][r] > 0
    /\ \/ pending' = [pending EXCEPT ![name][r] = @ - 1]
       \/ UNCHANGED pending

Take(name, r) ==
    /\ pending[name][r] > 0
    /\ pending' = [pending EXCEPT ![name][r] = @ - 1]

\* An invocation of fn on r starts in slot s, with what it read on starting.
Start(s, fn, r, pc, seen) ==
    /\ job[s] = Idle
    /\ job' = [job EXCEPT ![s] = [fn |-> fn, row |-> r, pc |-> pc, seen |-> seen]]

Running(s, fn, pc) == job[s].fn = fn /\ job[s].pc = pc

Goto(s, pc) == job' = [job EXCEPT ![s].pc = pc]

Recall(s, pc, seen) == job' = [job EXCEPT ![s].pc = pc, ![s].seen = seen]

Finish(s) == job' = [job EXCEPT ![s] = Idle]

-----------------------------------------------------------------------------
(* move(): a transition that took or was refused.  An escalating sheet     *)
(* invariant counts as having taken: the caller looks at ok, not at the    *)
(* state the row landed in.                                                *)

Moved(r, to, a) == \E verdict \in Severity : Move(r, to, a, verdict)

Refused(r, to, a) ==
    /\ ~Permitted(r, to, a) \/ "block" \in Verdict[r]
    /\ UNCHANGED ledgerVars

\* The job goes on when the move took and is over when it was refused.
MoveThenGoto(s, to, a, pc) ==
    LET r == job[s].row IN
    /\ UNCHANGED <<pending, contents>>
    /\ \/ Moved(r, to, a) /\ Goto(s, pc)
       \/ Refused(r, to, a) /\ Finish(s)

\* The job is over; when the move took, it is announced.
MoveThenSend(s, to, a, name) ==
    LET r == job[s].row IN
    /\ Finish(s)
    /\ UNCHANGED contents
    /\ \/ Moved(r, to, a) /\ Send(name, r)
       \/ Refused(r, to, a) /\ UNCHANGED pending

\* The job is over whether the move took or not.
MoveThenFinish(s, to, a) ==
    LET r == job[s].row IN
    /\ Finish(s)
    /\ UNCHANGED <<pending, contents>>
    /\ Moved(r, to, a) \/ Refused(r, to, a)

=============================================================================
