---------------------------- MODULE RuntimeProofs ---------------------------
(***************************************************************************)
(* What holds of every runtime, for all rows, workers, blockers, slots and *)
(* bounds: a waiting row is watched, revoking stops the work, and, as long *)
(* as rows are released from blocked only, an undisturbed run works a row  *)
(* in one loop at a time, settles what passed, and bounds its retries.     *)
(* Then, nothing is forgotten: a quiet run rests where it may.  Last, what *)
(* people are told about decisions is so.                                  *)
(*                                                                         *)
(* The three about the undisturbed run rest on one idea: an event to take  *)
(* a row up, the loop that took it up, the check of its outputs and the    *)
(* press that settles it are one baton, and a row has at most one.         *)
(***************************************************************************)
EXTENDS WorkAsk, TLAPS

-----------------------------------------------------------------------------
(* Types.                                                                  *)

Place ==
    {"unowned", "decide", "notify", "start", "ready", "work", "outputs", "submit", "escalate",
     "check", "await", "verify", "restore", "handback", "exhausted",
     "close", "find", "release", "close_run", "wait", "woken", "late",
     "load", "reason", "record", "rows", "reassign", "store",
     "claim", "attach", "ask", "output", "handoff", "reply", "timeout", "return"}

AgentJob == [fn : {"agentStep"}, row : Row, pc : Place, seen : Version]

CheckJob == [fn : {"runChecks"}, row : Row, pc : Place,
             seen : [attempts : Nat, inputs : Nat, outputs : Version]]

UnblockJob == [fn : {"unblock"}, row : Row, pc : Place,
               seen : [ready : SUBSET Row, released : SUBSET Row]]

WatchJob == [fn : {"approvals"}, row : Row, pc : Place, seen : [press : Nat]]

SettleJob == [fn : {"settle"}, row : Row, pc : Place,
              seen : [actor : Worker, decision : Decision, attempts : Nat]]

ContractJob == [fn : {"contractRun"}, row : {AnyRow}, pc : {"rows"},
                seen : [actor : Worker, rows : SUBSET Row, started : SUBSET Row]]

EditJob == [fn : {"edit"}, row : Row, pc : Place, seen : [actor : Worker]]

SweepJob == [fn : {"deadlines"}, row : {AnyRow}, pc : Place, seen : [rows : SUBSET Row]]

ToggleJob == [fn : {"toggle"}, row : {AnyRow}, pc : Place,
              seen : [worker : Revocable, was : BOOLEAN]]

RevokeJob == [fn : {"revoke"}, row : {AnyRow}, pc : Place, seen : [rows : SUBSET Row]]

CallJob == [fn : {"mcp", "chat"}, row : Row, pc : Place, seen : [worker : Holder]]

Job == {Idle} \cup AgentJob \cup CheckJob \cup UnblockJob \cup WatchJob \cup SettleJob
         \cup ContractJob \cup EditJob \cup SweepJob \cup ToggleJob \cup RevokeJob \cup CallJob

Ledgered == LedgerTypeOK /\ revoked \subseteq Revocable

Pendings == pending \in [EventName -> [Row -> Nat]]

Contained ==
    /\ inputs \in [Row -> Nat]
    /\ outputs \in [Row -> Version]
    /\ proven \in [Row -> SUBSET Version]

Jobbed == job \in [Slot -> Job]

Others ==
    /\ closed \in BOOLEAN
    /\ pressed \in 0 .. MaxPressed
    /\ contracting \in BOOLEAN
    /\ told \in [Worker -> Nat]
    /\ used \in [edits : Nat, typed : Nat, sweeps : Nat]
    /\ came \in [toggles : Nat, calls : Nat]

Typed == Ledgered /\ Pendings /\ Contained /\ Jobbed /\ Others

-----------------------------------------------------------------------------
(* The baton.                                                              *)

\* Nobody edits a row, types a state or works from elsewhere, and no second button
\* is pressed.
Undisturbed == used.edits = 0 /\ used.typed = 0 /\ came.calls = 0 /\ pressed <= 1

\* What the code does not ask again when it contracts a row it found ready: that
\* the row is still blocked.
ReleasedFromBlocked ==
    \A s \in Slot : \A r \in Row :
        Running(s, "unblock", "release") /\ r \in job'[s].seen.released \ job[s].seen.released
            => state[r] = "blocked"

\* Invocation j has the baton of r.
Has(j, r) ==
    \/ j.fn \in {"agentStep", "runChecks", "settle"} /\ j.row = r
    \/ j.fn = "unblock" /\ j.pc = "release" /\ r \in j.seen.released
    \/ j.fn = "contractRun" /\ r \in j.seen.started

\* Invocation j is about to contract r.
Lists(j, r) == j.fn = "contractRun" /\ r \in j.seen.rows

NotSent(r) == pending["assigned"][r] = 0 /\ pending["completed_pending_check"][r] = 0

\* Nobody has the baton of r.
Free(r) == NotSent(r) /\ \A s \in Slot : ~Has(job[s], r)

OneBaton(r) ==
    /\ pending["assigned"][r] + pending["completed_pending_check"][r] <= 1
    /\ \A s \in Slot : Has(job[s], r) => NotSent(r)
    /\ \A s, t \in Slot : Has(job[s], r) /\ Has(job[t], r) => s = t

\* Where a row stands when nothing or nobody but a press may take it up.
Rests(r) ==
    /\ state[r] \in {"drafted", "blocked"} \cup Settled => Free(r)
    /\ state[r] \in {"drafted", "blocked"} => attempts[r] = 0
    /\ state[r] = "awaiting_approval" =>
           NotSent(r) /\ \A s \in Slot : Has(job[s], r) => job[s].fn = "settle"
    /\ \A s \in Slot : Lists(job[s], r) =>
           Free(r) /\ attempts[r] = 0 /\ state[r] \in {"drafted", "escalated"}

\* The first attempt is never refused for want of attempts.
MayTry(r) == attempts[r] = 0 \/ attempts[r] < MaxAttempts[r]

Tried(r) == attempts[r] <= 1 \/ attempts[r] <= MaxAttempts[r]

Proven(r) == outputs[r] \in proven[r]

\* What the invocation that has the baton of an agent's row knows of it.
Knows(j, r) ==
    /\ j.fn \in {"unblock", "contractRun"} => MayTry(r)
    /\ j.fn = "agentStep" => j.pc # "decide" /\ (j.pc = "start" => MayTry(r))
    /\ j.fn = "runChecks" =>
           /\ j.seen.outputs = outputs[r]
           /\ j.seen.attempts = attempts[r]
           /\ j.pc \in {"verify", "await"} => Proven(r)
    /\ j.fn = "settle" => Proven(r) /\ (j.pc # "load" => j.seen.attempts = attempts[r])

AgentsRow(r) ==
    Owner[r] \notin Person =>
        /\ Tried(r)
        /\ pending["assigned"][r] = 1 => MayTry(r)
        /\ state[r] \in Settled \cup {"awaiting_approval"} => Proven(r)
        /\ \A s \in Slot : Has(job[s], r) => Knows(job[s], r)

RowInv(r) == OneBaton(r) /\ Rests(r) /\ AgentsRow(r)

\* The invocations an undisturbed run has none of, or one.
Few ==
    /\ \A s \in Slot : job[s].fn \notin {"edit", "mcp", "chat"}
    /\ pressed = 0 => \A s \in Slot : job[s].fn # "settle"
    /\ ~contracting => \A s \in Slot : job[s].fn # "contractRun"
    /\ \A s, t \in Slot : job[s].fn = "contractRun" /\ job[t].fn = "contractRun" => s = t

BatonInv == Undisturbed => Few /\ \A r \in Row : RowInv(r)

-----------------------------------------------------------------------------
(* Revocation and waiting.                                                 *)

\* Whom the code falls back on is not revoked, and nobody else's agent calls the
\* tools about a row of a worker who may be.
NobodyElse ==
    /\ Maya \notin Revocable
    /\ \A r \in Row : Owner[r] \in Revocable => Holder \subseteq {Owner[r]}

AtWorkStates == {"in_progress", "completed_pending_check", "awaiting_approval"}

\* A row of a revoked worker that is at work will be looked at by the function
\* that stops it.
Stopping ==
    NobodyElse /\ used.typed = 0 => \A r \in Row :
        Owner[r] \in revoked /\ state[r] \in AtWorkStates =>
            \/ told[Owner[r]] > 0
            \/ \E s \in Slot : job[s].fn = "revoke" /\ job[s].pc = "rows" /\ r \in job[s].seen.rows

Untoggled ==
    came.toggles = 0 => revoked = {} /\ \A s \in Slot : job[s].fn # "toggle"

Watching == used.typed = 0 /\ came.toggles = 0 => WaitingIsWatched

-----------------------------------------------------------------------------
(* What the dispatcher and move() do to a job and to a row.                *)

LEMMA Assumptions ==
    /\ Person \subseteq Worker
    /\ Maya \in Person
    /\ NoOne \notin Worker
    /\ Owner \in [Row -> Worker \cup {NoOne}]
    /\ Verdict \in [Row -> SUBSET Severity]
    /\ Revocable \subseteq Worker
    /\ Holder \subseteq Worker
    /\ MaxAttempts \in [Row -> Nat]
    /\ MaxPressed \in Nat
  BY ConstantsAssumption, JobsAssumption, OutsideAssumption, ApprovalsAssumption

LEMMA EdgesType == Edges \in [State -> SUBSET State]
  BY DEF Edges, State

\* A move that took puts the row where it was asked to go, or before a person.
LEMMA MovedEffect ==
    ASSUME Typed, NEW r \in Row, NEW to \in State, NEW a, Moved(r, to, a)
    PROVE  /\ Permitted(r, to, a)
           /\ state' \in [Row -> State]
           /\ attempts' \in [Row -> Nat]
           /\ state'[r] \in {to, "escalated"}
           /\ attempts'[r] = IF state'[r] = "in_progress" THEN attempts[r] + 1 ELSE attempts[r]
           /\ \A q \in Row \ {r} : state'[q] = state[q] /\ attempts'[q] = attempts[q]
           /\ UNCHANGED <<passing, attached, revoked>>
<1>1. PICK verdict \in Severity : Move(r, to, a, verdict)
  BY DEF Moved
<1>2. state \in [Row -> State] /\ attempts \in [Row -> Nat]
  BY DEF Typed, Ledgered, LedgerTypeOK
<1>3. FinalState(to, verdict) \in {to, "escalated"} /\ FinalState(to, verdict) \in State
  BY DEF FinalState, State
<1>4. Permitted(r, to, a) /\ Land(r, FinalState(to, verdict))
  BY <1>1 DEF Move
<1> QED
  BY <1>2, <1>3, <1>4 DEF Land

\* What a job is, of each kind.
LEMMA JobKinds ==
    ASSUME NEW j \in Job
    PROVE  /\ j.fn = "agentStep" => j \in AgentJob
           /\ j.fn = "runChecks" => j \in CheckJob
           /\ j.fn = "unblock" => j \in UnblockJob
           /\ j.fn = "approvals" => j \in WatchJob
           /\ j.fn = "settle" => j \in SettleJob
           /\ j.fn = "contractRun" => j \in ContractJob
           /\ j.fn = "edit" => j \in EditJob
           /\ j.fn = "deadlines" => j \in SweepJob
           /\ j.fn = "toggle" => j \in ToggleJob
           /\ j.fn = "revoke" => j \in RevokeJob
           /\ j.fn \in {"mcp", "chat"} => j \in CallJob
  BY SMTT(30) DEF Job, Idle, AgentJob, CheckJob, UnblockJob, WatchJob, SettleJob, ContractJob, EditJob,
         SweepJob, ToggleJob, RevokeJob, CallJob

LEMMA Kinds ==
    /\ Idle \in Job
    /\ AgentJob \subseteq Job /\ CheckJob \subseteq Job /\ UnblockJob \subseteq Job
    /\ WatchJob \subseteq Job /\ SettleJob \subseteq Job /\ ContractJob \subseteq Job
    /\ EditJob \subseteq Job /\ SweepJob \subseteq Job /\ ToggleJob \subseteq Job
    /\ RevokeJob \subseteq Job /\ CallJob \subseteq Job
  BY DEF Job

\* A job goes on: it stands elsewhere and knows what it knew.
LEMMA GoesOn ==
    ASSUME job \in [Slot -> Job], NEW s \in Slot, job[s].fn # "idle", NEW pc \in Place,
           job[s].fn # "contractRun", Goto(s, pc)
    PROVE  /\ job' \in [Slot -> Job]
           /\ job'[s] = [fn |-> job[s].fn, row |-> job[s].row, pc |-> pc, seen |-> job[s].seen]
           /\ \A t \in Slot \ {s} : job'[t] = job[t]
  BY SMTT(30) DEF Goto, Job, Idle, AgentJob, CheckJob, UnblockJob, WatchJob, SettleJob, ContractJob, EditJob,
         SweepJob, ToggleJob, RevokeJob, CallJob

LEMMA Goes ==
    ASSUME Jobbed, NEW s \in Slot, job[s].fn # "idle", NEW pc \in Place,
           job[s].fn # "contractRun", Goto(s, pc)
    PROVE  /\ job'[s].fn = job[s].fn /\ job'[s].row = job[s].row
           /\ job'[s].pc = pc /\ job'[s].seen = job[s].seen
           /\ \A t \in Slot \ {s} : job'[t] = job[t]
<1>1. job'[s] = [fn |-> job[s].fn, row |-> job[s].row, pc |-> pc, seen |-> job[s].seen]
  BY GoesOn, Zenon DEF Jobbed
<1>2. \A t \in Slot \ {s} : job'[t] = job[t]
  BY GoesOn, Zenon DEF Jobbed
<1> QED
  BY <1>1, <1>2

LEMMA Ends ==
    ASSUME job \in [Slot -> Job], NEW s \in Slot, Finish(s)
    PROVE  /\ job' \in [Slot -> Job]
           /\ job'[s] = Idle
           /\ \A t \in Slot \ {s} : job'[t] = job[t]
  BY DEF Finish, Job

\* A job remembers something else.
LEMMA Remembers ==
    ASSUME job \in [Slot -> Job], NEW s \in Slot, NEW pc, NEW seen, Recall(s, pc, seen),
           job[s].fn # "idle",
           [fn |-> job[s].fn, row |-> job[s].row, pc |-> pc, seen |-> seen] \in Job
    PROVE  /\ job' \in [Slot -> Job]
           /\ job'[s] = [fn |-> job[s].fn, row |-> job[s].row, pc |-> pc, seen |-> seen]
           /\ \A t \in Slot \ {s} : job'[t] = job[t]
<1>1. job[s] = [fn |-> job[s].fn, row |-> job[s].row, pc |-> job[s].pc, seen |-> job[s].seen]
  BY SMTT(30) DEF Job, Idle, AgentJob, CheckJob, UnblockJob, WatchJob, SettleJob, ContractJob, EditJob,
         SweepJob, ToggleJob, RevokeJob, CallJob
<1>2. [job[s] EXCEPT !.pc = pc, !.seen = seen]
          = [fn |-> job[s].fn, row |-> job[s].row, pc |-> pc, seen |-> seen]
  <2>1. [job[s] EXCEPT !.pc = pc]
            = [fn |-> job[s].fn, row |-> job[s].row, pc |-> pc, seen |-> job[s].seen]
    BY <1>1
  <2>2. [[fn |-> job[s].fn, row |-> job[s].row, pc |-> pc, seen |-> job[s].seen]
             EXCEPT !.seen = seen]
            = [fn |-> job[s].fn, row |-> job[s].row, pc |-> pc, seen |-> seen]
    OBVIOUS
  <2> QED
    BY <2>1, <2>2, Zenon
<1>3. job' = [job EXCEPT ![s] = [job[s] EXCEPT !.pc = pc, !.seen = seen]]
  BY <1>1 DEF Recall
<1> QED
  BY <1>2, <1>3

LEMMA Starts ==
    ASSUME job \in [Slot -> Job], NEW s \in Slot, NEW fn, NEW r, NEW pc, NEW seen,
           Start(s, fn, r, pc, seen),
           [fn |-> fn, row |-> r, pc |-> pc, seen |-> seen] \in Job
    PROVE  /\ job' \in [Slot -> Job]
           /\ job[s] = Idle
           /\ job'[s] = [fn |-> fn, row |-> r, pc |-> pc, seen |-> seen]
           /\ \A t \in Slot \ {s} : job'[t] = job[t]
  BY DEF Start

LEMMA Sends ==
    ASSUME pending \in [EventName -> [Row -> Nat]], NEW name \in EventName, NEW r \in Row,
           Send(name, r)
    PROVE  /\ pending' \in [EventName -> [Row -> Nat]]
           /\ pending'[name][r] = pending[name][r] + 1
           /\ \A n \in EventName, q \in Row : n # name \/ q # r => pending'[n][q] = pending[n][q]
  BY DEF Send

LEMMA Takes ==
    ASSUME pending \in [EventName -> [Row -> Nat]], NEW name \in EventName, NEW r \in Row,
           Take(name, r)
    PROVE  /\ pending' \in [EventName -> [Row -> Nat]]
           /\ pending[name][r] > 0
           /\ pending'[name][r] = pending[name][r] - 1
           /\ \A n \in EventName, q \in Row : n # name \/ q # r => pending'[n][q] = pending[n][q]
  BY DEF Take

\* Several rows are announced at once.
LEMMA SendsAll ==
    ASSUME pending \in [EventName -> [Row -> Nat]], NEW rows,
           pending' = [pending EXCEPT !["assigned"] =
                          [r \in Row |-> @[r] + IF r \in rows THEN 1 ELSE 0]]
    PROVE  /\ pending' \in [EventName -> [Row -> Nat]]
           /\ \A q \in Row :
                  pending'["assigned"][q] = pending["assigned"][q] + IF q \in rows THEN 1 ELSE 0
           /\ \A n \in EventName \ {"assigned"} : pending'[n] = pending[n]
  BY DEF EventName

-----------------------------------------------------------------------------
(* Types are kept.                                                         *)

\* What stands for no row in particular has the row nobody looks at.
Rowless == {"idle", "contractRun", "deadlines", "toggle", "revoke"}

LEMMA JobRow == \A j \in Job : j.fn \notin Rowless => j.row \in Row
  BY SMTT(30) DEF Rowless, Job, Idle, AgentJob, CheckJob, UnblockJob, WatchJob, SettleJob, ContractJob,
         EditJob, SweepJob, ToggleJob, RevokeJob, CallJob

LEMMA Parts == Typed => Ledgered /\ Pendings /\ Contained /\ Jobbed /\ Others
  BY DEF Typed

LEMMA Whole ==
    ASSUME Ledgered', Pendings', Contained', Jobbed', Others'
    PROVE  Typed'
  BY DEF Typed

LEMMA MoveTyped ==
    ASSUME Typed, NEW r \in Row, NEW to \in State, NEW a,
           Moved(r, to, a) \/ Refused(r, to, a)
    PROVE  Ledgered'
<1>1. CASE Moved(r, to, a)
  BY <1>1, MovedEffect, Parts DEF Ledgered, LedgerTypeOK
<1>2. CASE Refused(r, to, a)
  BY <1>2, Parts DEF Ledgered, LedgerTypeOK, Refused, ledgerVars
<1> QED
  BY <1>1, <1>2

LEMMA Unmoved ==
    /\ Ledgered /\ UNCHANGED ledgerVars => Ledgered'
    /\ Pendings /\ UNCHANGED pending => Pendings'
    /\ Contained /\ UNCHANGED contents => Contained'
    /\ Jobbed /\ UNCHANGED job => Jobbed'
    /\ Others /\ UNCHANGED <<closed, pressed, surfaceVars, outsideVars>> => Others'
<1>1. Ledgered /\ UNCHANGED ledgerVars => Ledgered'
  BY DEF Ledgered, LedgerTypeOK, ledgerVars
<1>2. Pendings /\ UNCHANGED pending => Pendings'
  BY DEF Pendings
<1>3. Contained /\ UNCHANGED contents => Contained'
  BY DEF Contained, contents
<1>4. Jobbed /\ UNCHANGED job => Jobbed'
  BY DEF Jobbed
<1>5. Others /\ UNCHANGED <<closed, pressed, surfaceVars, outsideVars>> => Others'
  BY DEF Others, surfaceVars, outsideVars
<1> QED
  BY <1>1, <1>2, <1>3, <1>4, <1>5

\* The three ways in which a function asks for a move.
LEMMA MoveThenTyped ==
    ASSUME Typed, NEW s \in Slot, job[s].fn \notin Rowless, NEW to \in State, NEW a
    PROVE  /\ \A pc \in Place : MoveThenGoto(s, to, a, pc) =>
                  Ledgered' /\ Pendings' /\ Contained' /\ Jobbed'
           /\ \A name \in EventName : MoveThenSend(s, to, a, name) =>
                  Ledgered' /\ Pendings' /\ Contained' /\ Jobbed'
           /\ MoveThenFinish(s, to, a) => Ledgered' /\ Pendings' /\ Contained' /\ Jobbed'
<1>1. job[s].row \in Row /\ Ledgered /\ Pendings /\ Contained /\ Jobbed
  BY Parts, JobRow DEF Jobbed
<1>2. ASSUME NEW pc \in Place, MoveThenGoto(s, to, a, pc)
      PROVE  Ledgered' /\ Pendings' /\ Contained' /\ Jobbed'
  <2>1. Ledgered'
    BY <1>1, <1>2, MoveTyped DEF MoveThenGoto
  <2>2. Jobbed'
    BY <1>1, <1>2, GoesOn, Ends DEF MoveThenGoto, Jobbed, Rowless
  <2> QED
    BY <1>1, <1>2, <2>1, <2>2, Unmoved DEF MoveThenGoto
<1>3. ASSUME NEW name \in EventName, MoveThenSend(s, to, a, name)
      PROVE  Ledgered' /\ Pendings' /\ Contained' /\ Jobbed'
  <2>1. Ledgered'
    BY <1>1, <1>3, MoveTyped DEF MoveThenSend
  <2>2. Jobbed'
    BY <1>1, <1>3, Ends DEF MoveThenSend, Jobbed
  <2>3. Pendings'
    BY <1>1, <1>3, Sends, Unmoved DEF MoveThenSend, Pendings
  <2> QED
    BY <1>1, <1>3, <2>1, <2>2, <2>3, Unmoved DEF MoveThenSend
<1>4. ASSUME MoveThenFinish(s, to, a) PROVE Ledgered' /\ Pendings' /\ Contained' /\ Jobbed'
  <2>1. Ledgered'
    BY <1>1, <1>4, MoveTyped DEF MoveThenFinish
  <2>2. Jobbed'
    BY <1>1, <1>4, Ends DEF MoveThenFinish, Jobbed
  <2> QED
    BY <1>1, <1>4, <2>1, <2>2, Unmoved DEF MoveThenFinish
<1> QED
  BY <1>2, <1>3, <1>4

LEMMA AgentStepTyped ==
    ASSUME Typed, NEW s \in Slot, AgentStepNext(s), UNCHANGED <<closed, pressed, surfaceVars, outsideVars>>
    PROVE  Typed'
<1> USE Parts, Unmoved
<1>0. Others'
  OBVIOUS
<1>1. ASSUME NEW r \in Row, StartAgentStep(s, r) PROVE Ledgered' /\ Pendings' /\ Contained' /\ Jobbed'
  <2>1. [fn |-> "agentStep", row |-> r, pc |-> FirstStep(r), seen |-> NoOutputs] \in AgentJob
    BY DEF AgentJob, FirstStep, NoOutputs, Version, Place
  <2>2. Jobbed'
    BY <1>1, <2>1, Starts, Kinds DEF StartAgentStep, Jobbed
  <2>3. Pendings'
    BY <1>1, Takes DEF StartAgentStep, Pendings, EventName
  <2> QED
    BY <1>1, <2>2, <2>3 DEF StartAgentStep
<1>2. CASE Unowned(s)
  BY <1>2, <1>0, MoveThenTyped, Whole DEF Rowless, Place, Unowned, Running, State
<1>3. CASE Notify(s)
  BY <1>3, <1>0, Ends, Whole DEF Notify, Jobbed
<1>4. CASE Decide(s)
  BY <1>4, <1>0, MoveThenTyped, Whole DEF Rowless, Place, Decide, Running, State
<1>5. CASE Ready(s)
  BY <1>5, <1>0, MoveThenTyped, Whole DEF Rowless, Place, Ready, Running, State, EventName
<1>6. CASE BeginWork(s)
  <2> DEFINE r == job[s].row
  <2>1. job[s].fn = "agentStep" /\ r \in Row
    BY <1>6, JobRow DEF Rowless, BeginWork, Running, Jobbed, Idle
  <2>2. CASE Refused(r, "in_progress", Owner[r]) /\ Finish(s)
    BY <1>6, <1>0, <2>1, <2>2, MoveTyped, Ends, Whole DEF BeginWork, Jobbed, State
  <2>3. CASE /\ Moved(r, "in_progress", Owner[r])
             /\ Recall(s, "work", [inputs |-> inputs[r], attempt |-> attempts'[r]])
    <3>1. Ledgered' /\ attempts'[r] \in Nat
      BY <2>1, <2>3, MoveTyped, MovedEffect DEF State
    <3>2. [fn |-> "agentStep", row |-> r, pc |-> "work",
           seen |-> [inputs |-> inputs[r], attempt |-> attempts'[r]]] \in AgentJob
      BY <2>1, <3>1 DEF AgentJob, Version, Contained, Place
    <3>3. Jobbed'
      BY <2>1, <2>3, <3>2, Remembers, Kinds DEF Jobbed
    <3> QED
      BY <1>6, <1>0, <3>1, <3>3, Whole DEF BeginWork
  <2> QED
    BY <1>6, <2>2, <2>3 DEF BeginWork
<1>7. CASE Work(s)
  <2>1. Ledgered'
    BY <1>7, JobRow DEF Rowless, Work, Running, Ledgered, LedgerTypeOK, Jobbed, Idle
  <2>2. Jobbed'
    BY <1>7, GoesOn DEF Place, Work, Running, Jobbed
  <2> QED
    BY <1>7, <1>0, <2>1, <2>2, Whole DEF Work
<1>8. CASE WriteOutputs(s)
  <2>1. job[s] \in AgentJob
    BY <1>8, JobKinds DEF WriteOutputs, Running, Jobbed
  <2>2. Contained'
    BY <1>8, <2>1 DEF WriteOutputs, Contained, AgentJob
  <2>3. Jobbed'
    BY <1>8, GoesOn DEF Place, WriteOutputs, Running, Jobbed
  <2> QED
    BY <1>8, <1>0, <2>2, <2>3, Whole DEF WriteOutputs
<1>9. CASE Submit(s)
  BY <1>9, <1>0, MoveThenTyped, Whole DEF Rowless, Place, Submit, Running, State, EventName
<1>10. CASE GiveUp(s)
  BY <1>10, <1>0, MoveThenTyped, Whole DEF Rowless, Place, GiveUp, Running, State
<1> QED
  BY <1>0, <1>1, <1>2, <1>3, <1>4, <1>5, <1>6, <1>7, <1>8, <1>9, <1>10, Whole DEF AgentStepNext

LEMMA RunChecksTyped ==
    ASSUME Typed, NEW s \in Slot, RunChecksNext(s), UNCHANGED <<closed, pressed, surfaceVars, outsideVars>>
    PROVE  Typed'
<1> USE Parts, Unmoved
<1>0. Others'
  OBVIOUS
<1>1. ASSUME NEW r \in Row, StartRunChecks(s, r) PROVE Ledgered' /\ Pendings' /\ Contained' /\ Jobbed'
  <2>1. [fn |-> "runChecks", row |-> r, pc |-> "check",
         seen |-> [attempts |-> attempts[r], inputs |-> inputs[r], outputs |-> outputs[r]]] \in CheckJob
    BY DEF CheckJob, Ledgered, LedgerTypeOK, Contained, Place
  <2>2. Jobbed'
    BY <1>1, <2>1, Starts, Kinds DEF StartRunChecks, Jobbed
  <2>3. Pendings'
    BY <1>1, Takes DEF StartRunChecks, Pendings, EventName
  <2> QED
    BY <1>1, <2>2, <2>3 DEF StartRunChecks
<1>2. job[s].fn = "runChecks" => job[s] \in CheckJob
  BY JobKinds DEF Jobbed
<1>3. CASE Check(s)
  <2>1. job[s] \in CheckJob /\ job[s].row \in Row
    BY <1>2, <1>3 DEF Check, Running, CheckJob
  <2>2. Ledgered'
    BY <1>3, <2>1 DEF Check, RecordPass, Ledgered, LedgerTypeOK, ledgerVars
  <2>3. Contained'
    BY <1>3, <2>1 DEF Check, Contained, CheckJob
  <2>4. Jobbed'
    BY <1>3, GoesOn DEF Place, Check, Running, Jobbed
  <2> QED
    BY <1>0, <1>3, <2>2, <2>3, <2>4, Whole DEF Check
<1>4. CASE Await(s)
  BY <1>0, <1>4, MoveThenTyped, Whole DEF Rowless, Place, Await, Running, State, EventName
<1>5. CASE Verify(s)
  BY <1>0, <1>5, MoveThenTyped, Whole DEF Rowless, Place, Verify, Running, State, EventName
<1>6. CASE Restore(s)
  <2>1. Contained'
    BY <1>2, <1>6 DEF Restore, Running, Contained, CheckJob
  <2>2. Jobbed'
    BY <1>6, GoesOn DEF Place, Restore, Running, Jobbed
  <2> QED
    BY <1>0, <1>6, <2>1, <2>2, Whole DEF Restore
<1>7. CASE HandBack(s)
  <2>1. job[s].fn = "runChecks" /\ job[s].row \in Row
    BY <1>2, <1>7 DEF HandBack, Running, CheckJob
  <2>2. Ledgered'
    BY <1>7, <2>1, MoveTyped DEF HandBack, State
  <2>3. Jobbed'
    BY <1>7, <2>1, Ends, GoesOn DEF Place, HandBack, Jobbed
  <2>4. Pendings'
    BY <1>7, <2>1, Sends DEF HandBack, Pendings, EventName
  <2> QED
    BY <1>0, <1>7, <2>2, <2>3, <2>4, Whole DEF HandBack
<1>8. CASE Exhausted(s)
  BY <1>0, <1>8, MoveThenTyped, Whole DEF Rowless, Place, Exhausted, Running, State
<1> QED
  BY <1>0, <1>1, <1>3, <1>4, <1>5, <1>6, <1>7, <1>8, Whole DEF RunChecksNext

LEMMA UnblockTyped ==
    ASSUME Typed, NEW s \in Slot, UnblockNext(s), UNCHANGED <<pressed, surfaceVars, outsideVars>>
    PROVE  Typed'
<1> USE Parts, Unmoved
<1>1. ASSUME closed' \in BOOLEAN PROVE Others'
  BY <1>1 DEF Others, surfaceVars, outsideVars
<1>2. job[s].fn = "unblock" => job[s] \in UnblockJob
  BY JobKinds DEF Jobbed
<1>3. ASSUME NEW r \in Row, StartUnblock(s, r) PROVE Typed'
  <2>1. [fn |-> "unblock", row |-> r, pc |-> "close", seen |-> [ready |-> {}, released |-> {}]] \in UnblockJob
    BY DEF UnblockJob, Place
  <2>2. Jobbed'
    BY <1>3, <2>1, Starts, Kinds DEF StartUnblock, Jobbed
  <2>3. Pendings'
    BY <1>3, Takes DEF StartUnblock, Pendings, EventName
  <2> QED
    BY <1>1, <1>3, <2>2, <2>3, Whole DEF StartUnblock, Others
<1>4. CASE Close(s)
  <2>1. job[s].row \in Row
    BY <1>2, <1>4 DEF Close, Running, UnblockJob
  <2>2. Ledgered'
    BY <1>4, <2>1, MoveTyped DEF Close, State
  <2>3. Jobbed'
    BY <1>4, GoesOn DEF Place, Close, Running, Jobbed
  <2> QED
    BY <1>1, <1>4, <2>2, <2>3, Whole DEF Close, Others
<1>5. CASE Find(s)
  <2> DEFINE found == {r \in Row : /\ state[r] = "blocked"
                                   /\ Blocker[r] # {}
                                   /\ \A b \in Blocker[r] : state[b] \in Settled}
  <2>1. [fn |-> "unblock", row |-> job[s].row, pc |-> "release",
         seen |-> [ready |-> found, released |-> {}]] \in UnblockJob
    BY <1>2, <1>5 DEF Find, Running, UnblockJob, Place
  <2>2. Jobbed'
    <3>1. job[s].fn = "unblock" /\ Recall(s, "release", [ready |-> found, released |-> {}])
      BY <1>5 DEF Find, Running
    <3> HIDE DEF found
    <3> QED
      BY <2>1, <3>1, Remembers, Kinds DEF Jobbed
  <2> QED
    BY <1>1, <1>5, <2>2, Whole DEF Find, Others
<1>6. CASE Release(s)
  <2>1. job[s] \in UnblockJob /\ job[s].fn = "unblock"
    BY <1>2, <1>6 DEF Release, Running
  <2>2. PICK r \in job[s].seen.ready :
           \/ /\ Moved(r, "contracted", Requester)
              /\ Recall(s, "release", [ready |-> job[s].seen.ready \ {r},
                                       released |-> job[s].seen.released \cup {r}])
           \/ /\ Refused(r, "contracted", Requester)
              /\ Recall(s, "release", [job[s].seen EXCEPT !.ready = @ \ {r}])
    BY <1>6 DEF Release
  <2>3. r \in Row
    BY <2>1 DEF UnblockJob
  <2>4. Ledgered'
    BY <2>2, <2>3, MoveTyped DEF State
  <2>5. \E seen \in [ready : SUBSET Row, released : SUBSET Row] : Recall(s, "release", seen)
    BY <2>1, <2>2, <2>3 DEF UnblockJob
  <2>6. Jobbed'
    <3>1. PICK seen \in [ready : SUBSET Row, released : SUBSET Row] : Recall(s, "release", seen)
      BY <2>5
    <3>2. [fn |-> job[s].fn, row |-> job[s].row, pc |-> "release", seen |-> seen] \in UnblockJob
      BY <2>1 DEF UnblockJob, Place
    <3> QED
      BY <2>1, <3>1, <3>2, Remembers, Kinds DEF Jobbed
  <2> QED
    BY <1>1, <1>6, <2>4, <2>6, Whole DEF Release, Others
<1>7. CASE Assign(s)
  <2>1. Pendings'
    BY <1>7, SendsAll DEF Assign, Pendings
  <2>2. Jobbed'
    BY <1>7, GoesOn DEF Place, Assign, Running, Jobbed
  <2> QED
    BY <1>1, <1>7, <2>1, <2>2, Whole DEF Assign, Others
<1>8. CASE CloseRun(s)
  <2>1. Jobbed'
    BY <1>8, Ends DEF CloseRun, Jobbed
  <2> QED
    BY <1>1, <1>8, <2>1, Whole DEF CloseRun, Others
<1> QED
  BY <1>3, <1>4, <1>5, <1>6, <1>7, <1>8 DEF UnblockNext

LEMMA ApprovalsTyped ==
    ASSUME Typed, NEW s \in Slot, ApprovalsStep(s), UNCHANGED <<closed, surfaceVars, outsideVars>>
    PROVE  Typed'
<1> USE Parts, Unmoved
<1>1. ASSUME UNCHANGED pressed PROVE Others'
  BY <1>1
<1>2. /\ job[s].fn = "approvals" => job[s] \in WatchJob
      /\ job[s].fn = "settle" => job[s] \in SettleJob
  BY JobKinds DEF Jobbed
<1>3. ASSUME NEW r \in Row, StartWatch(s, r) PROVE Typed'
  <2>1. [fn |-> "approvals", row |-> r, pc |-> "wait", seen |-> [press |-> 0]] \in WatchJob
    BY DEF WatchJob, Place
  <2>2. Jobbed'
    BY <1>3, <2>1, Starts, Kinds DEF StartWatch, Jobbed
  <2>3. Pendings'
    BY <1>3, Takes DEF StartWatch, Pendings, EventName
  <2> QED
    BY <1>1, <1>3, <2>2, <2>3, Whole DEF StartWatch
<1>4. CASE WindowCloses(s)
  <2>1. Jobbed'
    BY <1>4, GoesOn DEF Place, WindowCloses, Running, Jobbed
  <2> QED
    BY <1>1, <1>4, <2>1, Whole DEF WindowCloses
<1>5. CASE Look(s)
  <2>1. job[s] \in WatchJob
    BY <1>2, <1>5 DEF Look
  <2>2. ASSUME Recall(s, IF job[s].seen.press + 1 < MaxPresses THEN "wait" ELSE "escalate",
                      [press |-> job[s].seen.press + 1])
        PROVE  Jobbed'
    <3> DEFINE pc == IF job[s].seen.press + 1 < MaxPresses THEN "wait" ELSE "escalate"
    <3>1. [fn |-> job[s].fn, row |-> job[s].row, pc |-> pc,
           seen |-> [press |-> job[s].seen.press + 1]] \in WatchJob
      BY <2>1 DEF WatchJob, Place
    <3>2. Recall(s, pc, [press |-> job[s].seen.press + 1]) /\ job[s].fn # "idle"
      BY <1>5, <2>2 DEF Look
    <3> HIDE DEF pc
    <3> QED
      BY <3>1, <3>2, Remembers, Kinds DEF Jobbed
  <2>3. Jobbed'
    BY <1>5, <2>2, Ends, GoesOn DEF Place, Look, Jobbed
  <2> QED
    BY <1>1, <1>5, <2>3, Whole DEF Look
<1>6. CASE StopWaiting(s)
  BY <1>1, <1>6, MoveThenTyped, Whole DEF Rowless, StopWaiting, Running, State
<1>7. CASE LoadSettle(s)
  <2>1. job[s] \in SettleJob /\ job[s].row \in Row
    BY <1>2, <1>7 DEF LoadSettle, Running, SettleJob
  <2>2. ASSUME Recall(s, "reason", [job[s].seen EXCEPT !.attempts = attempts[job[s].row]])
        PROVE  Jobbed'
    <3>1. [job[s].seen EXCEPT !.attempts = attempts[job[s].row]]
              \in [actor : Worker, decision : Decision, attempts : Nat]
      BY <2>1 DEF SettleJob, Ledgered, LedgerTypeOK
    <3>2. [fn |-> job[s].fn, row |-> job[s].row, pc |-> "reason",
           seen |-> [job[s].seen EXCEPT !.attempts = attempts[job[s].row]]] \in SettleJob
      BY <2>1, <3>1 DEF SettleJob, Place
    <3>3. job[s].fn # "idle"
      BY <1>7 DEF LoadSettle, Running
    <3> QED
      BY <2>2, <3>2, <3>3, Remembers, Kinds DEF Jobbed
  <2>3. Jobbed'
    BY <1>7, <2>2, Ends DEF LoadSettle, Jobbed
  <2> QED
    BY <1>1, <1>7, <2>3, Whole DEF LoadSettle
<1>8. CASE Reason(s)
  <2>1. Ledgered'
    BY <1>2, <1>8 DEF Reason, Running, SettleJob, Ledgered, LedgerTypeOK
  <2>2. Jobbed'
    BY <1>8, GoesOn DEF Place, Reason, Running, Jobbed
  <2> QED
    BY <1>1, <1>8, <2>1, <2>2, Whole DEF Reason
<1>9. CASE RecordApproval(s)
  <2>1. Ledgered'
    BY <1>2, <1>9 DEF RecordApproval, RecordPass, Running, SettleJob, Ledgered, LedgerTypeOK
  <2>2. Jobbed'
    BY <1>9, GoesOn DEF Place, RecordApproval, Running, Jobbed
  <2> QED
    BY <1>1, <1>9, <2>1, <2>2, Whole DEF RecordApproval
<1>10. CASE VerifyApproved(s)
  BY <1>1, <1>10, MoveThenTyped, Whole DEF Rowless, VerifyApproved, Running, State, EventName
<1>11. CASE HandBackDecided(s)
  <2>1. job[s].row \in Row
    BY <1>2, <1>11 DEF HandBackDecided, Running, SettleJob
  <2>2. Ledgered'
    BY <1>11, <2>1, MoveTyped DEF HandBackDecided, State
  <2>3. Jobbed'
    BY <1>11, Ends DEF HandBackDecided, Jobbed
  <2>4. Pendings'
    BY <1>11, <2>1, Sends DEF HandBackDecided, Pendings, EventName
  <2> QED
    BY <1>1, <1>11, <2>2, <2>3, <2>4, Whole DEF HandBackDecided
<1> QED
  BY <1>3, <1>4, <1>5, <1>6, <1>7, <1>8, <1>9, <1>10, <1>11 DEF ApprovalsStep

LEMMA PressTyped ==
    ASSUME Typed, NEW s \in Slot, NEW r \in Row, NEW a \in Worker, NEW decision \in Decision,
           Press(s, r, a, decision), UNCHANGED <<closed, surfaceVars, outsideVars>>
    PROVE  Typed'
<1> USE Parts, Unmoved
<1>1. Others'
  BY Assumptions DEF Others, Press, surfaceVars, outsideVars
<1>2. ASSUME NEW t \in Slot PROVE job'[t] \in Job
  <2>1. CASE t = s
    <3>1. [fn |-> "settle", row |-> r, pc |-> "load",
           seen |-> [actor |-> a, decision |-> decision, attempts |-> 0]] \in SettleJob
      BY DEF SettleJob, Place
    <3> QED
      BY <2>1, <3>1, Kinds DEF Press, Deliver
  <2>2. CASE t # s /\ Running(t, "approvals", "wait") /\ job[t].row = r
    <3>1. job[t] \in WatchJob
      BY <2>2, JobKinds DEF Running, Jobbed
    <3>2. [job[t] EXCEPT !.pc = "woken"] \in WatchJob
      BY <3>1 DEF WatchJob, Place
    <3> QED
      BY <2>2, <3>2, Kinds DEF Press, Deliver
  <2> QED
    BY <2>1, <2>2 DEF Press, Deliver, Jobbed
<1>3. Jobbed'
  BY <1>2 DEF Press, Deliver, Jobbed
<1> QED
  BY <1>1, <1>3, Whole DEF Press

\* The next row of the plan is contracted, or is refused.
LEMMA ContractStep ==
    ASSUME Typed, NEW s \in Slot, Contract(s)
    PROVE  LET seen == job[s].seen IN
           /\ job[s] \in ContractJob
           /\ job[s].fn = "contractRun"
           /\ UNCHANGED <<pending, contents, surfaceVars>>
           /\ \E r \in seen.rows, target \in {"blocked", "contracted"}, started \in SUBSET Row :
                  /\ \/ Moved(r, target, seen.actor)
                        /\ started = seen.started \cup IF target = "blocked" THEN {} ELSE {r}
                     \/ Refused(r, target, seen.actor) /\ started = seen.started
                  /\ target = "blocked" <=> Blocker[r] # {}
                  /\ Recall(s, "rows", [actor |-> seen.actor, rows |-> seen.rows \ {r},
                                        started |-> started])
<1> DEFINE seen == job[s].seen
<1>1. job[s] \in ContractJob /\ job[s].fn = "contractRun"
  BY JobKinds, Parts DEF Contract, Running, Jobbed
<1>2. PICK r \in seen.rows :
         LET target == IF Blocker[r] # {} THEN "blocked" ELSE "contracted"
             rest == seen.rows \ {r}
         IN  \/ /\ Moved(r, target, seen.actor)
                /\ Recall(s, "rows", [seen EXCEPT !.rows = rest,
                       !.started = @ \cup IF target = "blocked" THEN {} ELSE {r}])
             \/ /\ Refused(r, target, seen.actor)
                /\ Recall(s, "rows", [seen EXCEPT !.rows = rest])
  BY Zenon DEF Contract
<1> DEFINE target == IF Blocker[r] # {} THEN "blocked" ELSE "contracted"
           added == IF target = "blocked" THEN {} ELSE {r}
<1>3. [seen EXCEPT !.rows = seen.rows \ {r}]
          = [actor |-> seen.actor, rows |-> seen.rows \ {r}, started |-> seen.started]
  BY <1>1 DEF ContractJob
<1>4. /\ target \in {"blocked", "contracted"}
      /\ target = "blocked" <=> Blocker[r] # {}
      /\ seen.started \cup added \in SUBSET Row
      /\ seen.started \in SUBSET Row
  BY <1>1 DEF ContractJob
<1>5. \/ /\ Moved(r, target, seen.actor)
         /\ Recall(s, "rows", [[seen EXCEPT !.rows = seen.rows \ {r}]
                                  EXCEPT !.started = seen.started \cup added])
      \/ /\ Refused(r, target, seen.actor)
         /\ Recall(s, "rows", [seen EXCEPT !.rows = seen.rows \ {r}])
  BY <1>2, Zenon
<1> HIDE DEF target, added
<1>6. PICK all : all = seen.started \cup added
  OBVIOUS
<1>7. [[seen EXCEPT !.rows = seen.rows \ {r}] EXCEPT !.started = all]
          = [actor |-> seen.actor, rows |-> seen.rows \ {r}, started |-> all]
  <2>1. [[actor |-> seen.actor, rows |-> seen.rows \ {r}, started |-> seen.started]
            EXCEPT !.started = all]
          = [actor |-> seen.actor, rows |-> seen.rows \ {r}, started |-> all]
    OBVIOUS
  <2> QED
    BY <1>3, <2>1, Zenon
<1>8. UNCHANGED <<pending, contents, surfaceVars>>
  BY Zenon DEF Contract
<1> QED
  <2>1. added = IF target = "blocked" THEN {} ELSE {r}
    BY DEF added
  <2>2. \/ /\ Moved(r, target, seen.actor)
           /\ Recall(s, "rows", [actor |-> seen.actor, rows |-> seen.rows \ {r}, started |-> all])
        \/ /\ Refused(r, target, seen.actor)
           /\ Recall(s, "rows", [actor |-> seen.actor, rows |-> seen.rows \ {r},
                                 started |-> seen.started])
    BY <1>3, <1>5, <1>6, <1>7, Zenon
  <2> QED
    BY <1>1, <1>4, <1>6, <1>8, <2>1, <2>2

LEMMA SurfacesTyped ==
    ASSUME Typed, NEW s \in Slot, SurfacesStep(s), closed' = (closed /\ ~RunsAgain(s)),
           UNCHANGED <<pressed, outsideVars>>
    PROVE  Typed'
<1> USE Parts, Unmoved
<1>0. UNCHANGED surfaceVars => Others'
  <2>1. closed' \in BOOLEAN
    OBVIOUS
  <2> QED
    BY <2>1 DEF Others, surfaceVars, outsideVars
<1>1. /\ job[s].fn = "contractRun" => job[s] \in ContractJob
      /\ job[s].fn = "edit" => job[s] \in EditJob
      /\ job[s].fn = "deadlines" => job[s] \in SweepJob
  BY JobKinds DEF Jobbed
<1>2. CASE Contract(s)
  <2> DEFINE seen == job[s].seen
  <2>1. job[s] \in ContractJob /\ job[s].fn = "contractRun"
    BY <1>2, ContractStep
  <2>2. PICK r \in seen.rows, target \in {"blocked", "contracted"}, started \in SUBSET Row :
           /\ Moved(r, target, seen.actor) \/ Refused(r, target, seen.actor)
           /\ Recall(s, "rows", [actor |-> seen.actor, rows |-> seen.rows \ {r}, started |-> started])
    BY <1>2, ContractStep
  <2>3. r \in Row
    BY <2>1 DEF ContractJob
  <2>4. Ledgered'
    BY <2>2, <2>3, MoveTyped DEF State
  <2>5. [fn |-> job[s].fn, row |-> job[s].row, pc |-> "rows",
         seen |-> [actor |-> seen.actor, rows |-> seen.rows \ {r}, started |-> started]] \in ContractJob
    BY <2>1 DEF ContractJob
  <2>6. Jobbed'
    BY <2>1, <2>2, <2>5, Remembers, Kinds DEF Jobbed
  <2> QED
    BY <1>0, <1>2, <2>4, <2>6, ContractStep, Whole
<1>3. CASE SendContracted(s)
  <2>1. Pendings'
    BY <1>3, SendsAll DEF SendContracted, Pendings
  <2>2. Jobbed'
    BY <1>3, Ends DEF SendContracted, Jobbed
  <2> QED
    BY <1>0, <1>3, <2>1, <2>2, Whole DEF SendContracted
<1>4. CASE EditHandsBack(s)
  <2>1. job[s].row \in Row
    BY <1>1, <1>4 DEF EditHandsBack, Running, EditJob
  <2>2. Ledgered'
    BY <1>4, <2>1, MoveTyped DEF EditHandsBack, State
  <2>3. Jobbed'
    BY <1>4, GoesOn DEF Place, EditHandsBack, Running, Jobbed
  <2> QED
    BY <1>0, <1>4, <2>2, <2>3, Whole DEF EditHandsBack
<1>5. CASE EditEscalates(s)
  <2>1. job[s].row \in Row
    BY <1>1, <1>5 DEF EditEscalates, Running, EditJob
  <2>2. Ledgered'
    BY <1>5, <2>1, MoveTyped DEF EditEscalates, State
  <2>3. Jobbed'
    BY <1>5, GoesOn DEF Place, EditEscalates, Running, Jobbed
  <2> QED
    BY <1>0, <1>5, <2>2, <2>3, Whole DEF EditEscalates
<1>6. CASE EditReassigns(s)
  <2>1. job[s].row \in Row
    BY <1>1, <1>6 DEF EditReassigns, Running, EditJob
  <2>2. Jobbed' /\ Pendings'
    BY <1>6, <2>1, Ends, Sends DEF EditReassigns, Jobbed, Pendings, EventName
  <2> QED
    BY <1>0, <1>6, <2>2, Whole DEF EditReassigns
<1>7. CASE Sweep(s)
  <2>1. job[s] \in SweepJob /\ job[s].fn = "deadlines"
    BY <1>1, <1>7 DEF Sweep, Running
  <2>2. CASE job[s].seen.rows = {} /\ Finish(s) /\ UNCHANGED ledgerVars
    BY <1>0, <1>7, <2>2, Ends, Whole DEF Sweep, Jobbed
  <2>3. ASSUME NEW r \in job[s].seen.rows,
               Moved(r, "escalated", EscalatorOf(r)) \/ Refused(r, "escalated", EscalatorOf(r)),
               Recall(s, "rows", [rows |-> job[s].seen.rows \ {r}])
        PROVE  Typed'
    <3>1. r \in Row
      BY <2>1 DEF SweepJob
    <3>2. Ledgered'
      BY <2>3, <3>1, MoveTyped DEF State
    <3>3. [fn |-> job[s].fn, row |-> job[s].row, pc |-> "rows",
           seen |-> [rows |-> job[s].seen.rows \ {r}]] \in SweepJob
      BY <2>1 DEF SweepJob, Place
    <3>4. Jobbed'
      BY <2>1, <2>3, <3>3, Remembers, Kinds DEF Jobbed
    <3> QED
      BY <1>0, <1>7, <3>2, <3>4, Whole DEF Sweep
  <2> QED
    BY <1>7, <2>2, <2>3 DEF Sweep
<1> QED
  BY <1>2, <1>3, <1>4, <1>5, <1>6, <1>7 DEF SurfacesStep

LEMMA SurfacesActTyped ==
    ASSUME Typed, SurfacesAct, UNCHANGED <<closed, pressed, outsideVars>>
    PROVE  Typed'
<1> USE Parts, Unmoved
<1>0. ASSUME used' \in [edits : Nat, typed : Nat, sweeps : Nat], UNCHANGED contracting PROVE Others'
  BY <1>0 DEF Others, outsideVars
<1>1. ASSUME NEW s \in Slot, NEW r \in Row, NEW a \in Worker, StartEdit(s, r, a) PROVE Typed'
  <2>1. used' \in [edits : Nat, typed : Nat, sweeps : Nat]
    BY <1>1 DEF StartEdit, Others
  <2>2. Contained'
    BY <1>1, <2>1 DEF StartEdit, Contained
  <2>3. Jobbed'
    <3> DEFINE pc == IF state[r] \in NEEDS_HANDBACK THEN "handback" ELSE "reassign"
    <3>1. [fn |-> "edit", row |-> r, pc |-> pc, seen |-> [actor |-> a]] \in EditJob
      BY DEF EditJob, Place
    <3>2. UNCHANGED job \/ Start(s, "edit", r, pc, [actor |-> a])
      BY <1>1 DEF StartEdit
    <3> HIDE DEF pc
    <3> QED
      BY <3>1, <3>2, Starts, Kinds DEF Jobbed
  <2> QED
    BY <1>0, <1>1, <2>1, <2>2, <2>3, Whole DEF StartEdit
<1>2. ASSUME NEW r \in Row, NEW to \in State, NEW a \in Worker, TypeState(r, to, a) PROVE Typed'
  <2>1. used' \in [edits : Nat, typed : Nat, sweeps : Nat]
    BY <1>2 DEF TypeState, Others
  <2>2. Ledgered'
    BY <1>2, MoveTyped DEF TypeState
  <2> QED
    BY <1>0, <1>2, <2>1, <2>2, Whole DEF TypeState, jobVars
<1>3. ASSUME NEW s \in Slot, StartSweep(s) PROVE Typed'
  <2>1. used' \in [edits : Nat, typed : Nat, sweeps : Nat]
    BY <1>3 DEF StartSweep, Others
  <2>2. PICK overdue \in SUBSET {r \in Deadlined : state[r] \notin {"done", "verified", "failed"}} :
           job' = [job EXCEPT ![s] =
                      [fn |-> "deadlines", row |-> CHOOSE r \in Row : TRUE, pc |-> "rows",
                       seen |-> [rows |-> overdue]]]
    BY <1>3 DEF StartSweep
  <2>3. [fn |-> "deadlines", row |-> CHOOSE r \in Row : TRUE, pc |-> "rows",
         seen |-> [rows |-> overdue]] \in SweepJob
    BY SurfacesAssumption DEF SweepJob, Place, AnyRow
  <2>4. Jobbed'
    BY <2>2, <2>3, Kinds DEF Jobbed
  <2> QED
    BY <1>0, <1>3, <2>1, <2>4, Whole DEF StartSweep
<1> QED
  BY <1>1, <1>2, <1>3 DEF SurfacesAct

LEMMA OutsideTyped ==
    ASSUME Typed, NEW s \in Slot, OutsideStep(s), UNCHANGED <<closed, pressed, surfaceVars>>
    PROVE  Typed'
<1> USE Parts, Unmoved
<1>0. told' \in [Worker -> Nat] /\ UNCHANGED came => Others'
  BY DEF Others, surfaceVars
<1>1. /\ UNCHANGED outsideVars => Others'
      /\ UNCHANGED <<told, came>> => Others'
  BY <1>0 DEF Others, outsideVars
<1>2. /\ job[s].fn = "toggle" => job[s] \in ToggleJob
      /\ job[s].fn = "revoke" => job[s] \in RevokeJob
      /\ job[s].fn \in {"mcp", "chat"} => job[s] \in CallJob /\ job[s].row \in Row
  BY JobKinds DEF Jobbed, CallJob
<1>3. CASE StoreStatus(s)
  <2>1. job[s].seen.worker \in Revocable /\ job[s].seen.worker \in Worker
    BY <1>2, <1>3, Assumptions DEF StoreStatus, Running, ToggleJob
  <2>2. Ledgered'
    BY <1>3, <2>1 DEF StoreStatus, ToggleStatus, Ledgered, LedgerTypeOK, ledgerVars
  <2>3. told' \in [Worker -> Nat]
    BY <1>3, <2>1 DEF StoreStatus, Others
  <2>4. Jobbed'
    BY <1>3, Ends DEF StoreStatus, Jobbed
  <2> QED
    BY <1>0, <1>3, <2>2, <2>3, <2>4, Whole DEF StoreStatus
<1>4. ASSUME NEW w \in Worker, StartRevoke(s, w) PROVE Typed'
  <2>1. told' \in [Worker -> Nat]
    BY <1>4 DEF StartRevoke, Others
  <2>2. Jobbed'
    <3> DEFINE seen == [rows |-> {r \in Row : Owner[r] = w /\ state[r] \in OpenStates}]
    <3>1. [fn |-> "revoke", row |-> AnyRow, pc |-> "rows", seen |-> seen] \in RevokeJob
      BY DEF RevokeJob, Place
    <3>2. Start(s, "revoke", AnyRow, "rows", seen)
      BY <1>4 DEF StartRevoke
    <3> HIDE DEF seen
    <3> QED
      BY <3>1, <3>2, Starts, Kinds DEF Jobbed
  <2> QED
    BY <1>0, <1>4, <2>1, <2>2, Whole DEF StartRevoke
<1>5. CASE EscalateRevoked(s)
  <2>1. job[s] \in RevokeJob /\ job[s].fn = "revoke"
    BY <1>2, <1>5 DEF EscalateRevoked, Running
  <2>2. CASE job[s].seen.rows = {} /\ Finish(s) /\ UNCHANGED ledgerVars
    BY <1>1, <1>5, <2>2, Ends, Whole DEF EscalateRevoked, Jobbed
  <2>3. ASSUME NEW r \in job[s].seen.rows,
               Moved(r, "escalated", Maya) \/ Refused(r, "escalated", Maya),
               Recall(s, "rows", [rows |-> job[s].seen.rows \ {r}])
        PROVE  Typed'
    <3>1. r \in Row
      BY <2>1 DEF RevokeJob
    <3>2. Ledgered'
      BY <2>3, <3>1, MoveTyped DEF State
    <3>3. [fn |-> job[s].fn, row |-> job[s].row, pc |-> "rows",
           seen |-> [rows |-> job[s].seen.rows \ {r}]] \in RevokeJob
      BY <2>1 DEF RevokeJob, Place
    <3>4. Jobbed'
      BY <2>1, <2>3, <3>3, Remembers, Kinds DEF Jobbed
    <3> QED
      BY <1>1, <1>5, <3>2, <3>4, Whole DEF EscalateRevoked
  <2> QED
    BY <1>5, <2>2, <2>3 DEF EscalateRevoked
<1>6. CASE ClaimRow(s)
  BY <1>1, <1>6, MoveThenTyped, Whole DEF Rowless, Place, ClaimRow, Running, State
<1>7. CASE AttachSent(s)
  <2>1. Ledgered'
    BY <1>2, <1>7 DEF AttachSent, Running, Ledgered, LedgerTypeOK
  <2>2. Jobbed'
    BY <1>7, GoesOn DEF Place, AttachSent, Running, Jobbed
  <2> QED
    BY <1>1, <1>7, <2>1, <2>2, Whole DEF AttachSent
<1>8. CASE SetOutputs(s)
  <2>1. job[s].row \in Row
    BY <1>2, <1>8 DEF SetOutputs, Running
  <2>2. Contained'
    BY <1>8, <2>1 DEF SetOutputs, Contained, Version, Ledgered, LedgerTypeOK
  <2>3. Jobbed'
    BY <1>8, GoesOn DEF Place, SetOutputs, Running, Jobbed
  <2> QED
    BY <1>1, <1>8, <2>2, <2>3, Whole DEF SetOutputs
<1>9. CASE SubmitOutput(s)
  BY <1>1, <1>9, MoveThenTyped, Whole DEF Rowless, Place, SubmitOutput, Running, State, EventName
<1>10. CASE AskApproval(s)
  BY <1>1, <1>10, MoveThenTyped, Whole DEF Rowless, Place, AskApproval, Running, State, EventName
<1>11. CASE HandOff(s)
  BY <1>1, <1>11, MoveThenTyped, Whole DEF Rowless, Place, HandOff, Running, State
<1>12. CASE ReadReply(s)
  <2>1. PICK kinds \in SUBSET EvidenceKind :
           /\ attached' = [attached EXCEPT ![job[s].row] = @ \cup kinds]
           /\ Goto(s, IF Required[job[s].row] \subseteq kinds THEN "output" ELSE "return")
    BY <1>12 DEF ReadReply
  <2>2. Ledgered'
    BY <1>2, <1>12, <2>1 DEF ReadReply, Running, Ledgered, LedgerTypeOK
  <2>3. Jobbed'
    <3> DEFINE pc == IF Required[job[s].row] \subseteq kinds THEN "output" ELSE "return"
    <3>1. pc \in Place /\ job[s].fn = "chat"
      BY <1>12 DEF ReadReply, Running, Place
    <3> HIDE DEF pc
    <3> QED
      BY <2>1, <3>1, GoesOn DEF pc, Jobbed
  <2> QED
    BY <1>1, <1>12, <2>2, <2>3, Whole DEF ReadReply
<1>13. CASE HandBackReply(s)
  BY <1>1, <1>13, MoveThenTyped, Whole DEF Rowless, Place, HandBackReply, Running, State
<1>14. CASE TimeOutChat(s)
  BY <1>1, <1>14, MoveThenTyped, Whole DEF Rowless, Place, TimeOutChat, Running, State
<1> QED
  BY <1>3, <1>4, <1>5, <1>6, <1>7, <1>8, <1>9, <1>10, <1>11, <1>12, <1>13, <1>14 DEF OutsideStep

LEMMA OutsideActsTyped ==
    ASSUME Typed, OutsideActs, UNCHANGED <<closed, pressed, surfaceVars>>
    PROVE  Typed'
<1> USE Parts, Unmoved
<1>0. ASSUME came' \in [toggles : Nat, calls : Nat], UNCHANGED told PROVE Others'
  BY <1>0 DEF Others, surfaceVars
<1>1. ASSUME NEW s \in Slot, NEW w \in Revocable, StartToggle(s, w) PROVE Typed'
  <2>1. came' \in [toggles : Nat, calls : Nat]
    BY <1>1 DEF StartToggle, Others
  <2>2. [fn |-> "toggle", row |-> AnyRow, pc |-> "store",
         seen |-> [worker |-> w, was |-> w \in revoked]] \in ToggleJob
    BY DEF ToggleJob, Place
  <2>3. Jobbed'
    BY <1>1, <2>2, Starts, Kinds DEF StartToggle, Jobbed
  <2> QED
    BY <1>0, <1>1, <2>1, <2>3, Whole DEF StartToggle
<1>2. ASSUME NEW s \in Slot, NEW r \in Row, NEW w \in Holder, NEW tool \in {"claim", "attach", "ask"},
             StartCall(s, r, w, tool)
      PROVE  Typed'
  <2>1. came' \in [toggles : Nat, calls : Nat]
    BY <1>2 DEF StartCall, Others
  <2>2. [fn |-> "mcp", row |-> r, pc |-> tool, seen |-> [worker |-> w]] \in CallJob
    BY DEF CallJob, Place
  <2>3. Jobbed'
    BY <1>2, <2>2, Starts, Kinds DEF StartCall, Jobbed
  <2> QED
    BY <1>0, <1>2, <2>1, <2>3, Whole DEF StartCall
<1>3. ASSUME NEW s \in Slot, NEW r \in Row, NEW w \in Holder, NEW pc \in {"handoff", "reply", "timeout"},
             StartChat(s, r, w, pc)
      PROVE  Typed'
  <2>1. came' \in [toggles : Nat, calls : Nat]
    BY <1>3 DEF StartChat, Others
  <2>2. [fn |-> "chat", row |-> r, pc |-> pc, seen |-> [worker |-> w]] \in CallJob
    BY DEF CallJob, Place
  <2>3. Jobbed'
    BY <1>3, <2>2, Starts, Kinds DEF StartChat, Jobbed
  <2> QED
    BY <1>0, <1>3, <2>1, <2>3, Whole DEF StartChat
<1> QED
  BY <1>1, <1>2, <1>3 DEF OutsideActs

LEMMA ContractingTyped ==
    ASSUME Typed, NEW s \in Slot, NEW a \in Worker, StartContracting(s, a),
           UNCHANGED <<closed, pressed, outsideVars>>
    PROVE  Typed'
<1> USE Parts, Unmoved
<1> DEFINE seen == [actor |-> a, rows |-> {r \in Row : state[r] = "drafted"}, started |-> {}]
<1>1. [fn |-> "contractRun", row |-> AnyRow, pc |-> "rows", seen |-> seen] \in ContractJob
  BY DEF ContractJob
<1>2. Jobbed'
  BY <1>1, Kinds DEF StartContracting, Jobbed, AnyRow
<1>3. Others'
  BY DEF StartContracting, Others, outsideVars
<1> QED
  BY <1>2, <1>3, Whole DEF StartContracting

LEMMA TypedStep == Typed /\ [Next]_vars => Typed'
<1> SUFFICES ASSUME Typed, [Next]_vars PROVE Typed'
  OBVIOUS
<1>1. CASE UNCHANGED vars
  BY <1>1, Parts, Unmoved, Whole DEF vars, runtimeVars, jobVars
<1>2. ASSUME NEW s \in Slot, Progress(s) PROVE Typed'
  BY <1>2, AgentStepTyped, RunChecksTyped, UnblockTyped, ApprovalsTyped, SurfacesTyped, OutsideTyped
     DEF Progress
<1>3. CASE People
  BY <1>3, ContractingTyped, PressTyped, SurfacesActTyped, OutsideActsTyped DEF People
<1> QED
  BY <1>1, <1>2, <1>3 DEF Next

LEMMA TypedInit == Init => Typed
<1> SUFFICES ASSUME Init PROVE Typed
  OBVIOUS
<1>1. Ledgered
  BY DEF Init, InitJobs, InitLedger, Ledgered, LedgerTypeOK, State
<1>2. Pendings
  BY DEF Init, InitJobs, Pendings
<1>3. Contained
  BY DEF Init, InitJobs, Contained, NoOutputs, Version
<1>4. Jobbed
  BY Kinds DEF Init, InitJobs, Jobbed
<1>5. 0 \in 0 .. MaxPressed
  BY Assumptions
<1>6. Others
  <2>1. /\ told \in [Worker -> Nat]
        /\ used \in [edits : Nat, typed : Nat, sweeps : Nat]
        /\ came \in [toggles : Nat, calls : Nat]
    BY DEF Init, InitSurfaces, InitOutside
  <2> QED
    BY <1>5, <2>1 DEF Init, InitSurfaces, Others
<1> QED
  BY <1>1, <1>2, <1>3, <1>4, <1>6 DEF Typed

LEMMA AlwaysTyped == Spec => []Typed
  BY TypedInit, TypedStep, PTL DEF Spec

\* Types: where there are rows, the ledger, the events, the invocations and what
\* they carry stay what their declarations say, whatever interleaves.
THEOREM TypeCorrect == Row # {} => (Spec => []TypeOK)
<1> SUFFICES ASSUME Row # {} PROVE Spec => []TypeOK
  OBVIOUS
<1>1. \A j \in Job : j = Idle \/ j.row \in Row
  BY SMTT(30) DEF AnyRow, Job, Idle, AgentJob, CheckJob, UnblockJob, WatchJob, SettleJob, ContractJob,
         EditJob, SweepJob, ToggleJob, RevokeJob, CallJob
<1>2. Typed => TypeOK
  BY <1>1 DEF Typed, Ledgered, Pendings, Contained, Jobbed, Others, TypeOK, JobsTypeOK, OutsideTypeOK
<1> QED
  BY <1>2, AlwaysTyped, PTL

-----------------------------------------------------------------------------
(* Waiting and revocation.                                                 *)

\* No sheet invariant refuses a move.
NeverBlocked == \A r \in Row : "block" \notin Verdict[r]

\* A step of the invocation in slot s that takes nothing from those who watch or
\* stop a row: a row comes to work only by its owner, who is not revoked, and before
\* an approver only with an announcement.
Calm(s) ==
    /\ \A t \in Slot \ {s} : job'[t] = job[t]
    /\ NobodyElse => \A r \in Row :
           state'[r] \in AtWorkStates => state'[r] = state[r] \/ Owner[r] \notin revoked
    /\ \A r \in Row : state'[r] = "awaiting_approval" =>
           state[r] = "awaiting_approval" \/ pending'["awaiting_approval"][r] > 0
    /\ \A r \in Row : pending'["awaiting_approval"][r] >= pending["awaiting_approval"][r]
    /\ UNCHANGED revoked

LEMMA CalmKeeps ==
    ASSUME Typed, Typed', NEW s \in Slot, Calm(s), job[s].fn \notin {"approvals", "revoke", "toggle"},
           job'[s].fn # "toggle", Stopping, Untoggled, Watching,
           UNCHANGED <<told, came>>, used'.typed = used.typed
    PROVE  Stopping' /\ Untoggled' /\ Watching'
<1>4. Pendings'
  BY DEF Typed
<1>0. pending \in [EventName -> [Row -> Nat]] /\ "awaiting_approval" \in EventName
  BY Parts DEF Pendings, EventName
<1>1. Stopping'
  BY DEF Calm, Stopping, AtWorkStates
<1>2. Untoggled'
  BY DEF Calm, Untoggled
<1>3. Watching'
  <2> SUFFICES ASSUME used'.typed = 0, came'.toggles = 0, NEW r \in Row, state'[r] = "awaiting_approval"
               PROVE  \/ pending'["awaiting_approval"][r] > 0
                      \/ \E t \in Slot : job'[t].fn = "approvals" /\ job'[t].row = r
    BY DEF Watching, WaitingIsWatched
  <2>1. pending["awaiting_approval"][r] \in Nat /\ pending'["awaiting_approval"][r] >= pending["awaiting_approval"][r]
    BY <1>0 DEF Calm
  <2>2. CASE state[r] = "awaiting_approval" /\ ~(pending["awaiting_approval"][r] > 0)
    <3>1. WaitingIsWatched
      BY DEF Watching
    <3>2. PICK t \in Slot : job[t].fn = "approvals" /\ job[t].row = r
      BY <2>2, <3>1 DEF WaitingIsWatched
    <3> QED
      BY <3>2 DEF Calm
  <2>3. CASE state[r] = "awaiting_approval" /\ pending["awaiting_approval"][r] > 0
    <3>1. pending'["awaiting_approval"][r] \in Nat
      BY <1>4 DEF Pendings, EventName
    <3> QED
      BY <2>1, <2>3, <3>1
  <2> QED
    BY <2>2, <2>3 DEF Calm
<1> QED
  BY <1>1, <1>2, <1>3

LEMMA MoveCalm ==
    ASSUME Typed, NEW r \in Row, NEW to \in State, NEW a,
           Moved(r, to, a) \/ Refused(r, to, a),
           NobodyElse /\ to \in AtWorkStates => a = Owner[r] \/ a = OwnerOrMaya(r) \/ Owner[r] \notin revoked
    PROVE  /\ NobodyElse => \A q \in Row :
                  state'[q] \in AtWorkStates => state'[q] = state[q] \/ Owner[q] \notin revoked
           /\ \A q \in Row : state'[q] \in {state[q], "escalated"} \/ (q = r /\ state'[q] = to)
           /\ UNCHANGED revoked
<1>1. CASE Refused(r, to, a)
  BY <1>1 DEF Refused, ledgerVars
<1>2. CASE Moved(r, to, a)
  <2>1. Permitted(r, to, a) /\ state'[r] \in {to, "escalated"}
        /\ (\A q \in Row \ {r} : state'[q] = state[q]) /\ UNCHANGED revoked
    BY <1>2, MovedEffect
  <2>2. NoOne \notin revoked
    BY Parts, Assumptions DEF Ledgered, LedgerTypeOK
  <2>3. NobodyElse /\ to \in AtWorkStates => Owner[r] \notin revoked
    BY <2>1, <2>2 DEF Permitted, OwnerOrMaya
  <2> QED
    BY <2>1, <2>3 DEF AtWorkStates
<1> QED
  BY <1>1, <1>2

LEMMA MoveThenCalm ==
    ASSUME Typed, NEW s \in Slot, job[s].fn \notin Rowless, NEW to \in State, NEW a,
           NobodyElse /\ to \in AtWorkStates =>
               a = Owner[job[s].row] \/ a = OwnerOrMaya(job[s].row) \/ Owner[job[s].row] \notin revoked
    PROVE  /\ to # "awaiting_approval" => \A pc \in Place : MoveThenGoto(s, to, a, pc) => Calm(s)
           /\ \A name \in EventName : MoveThenSend(s, to, a, name) =>
                  Calm(s) \/ (to = "awaiting_approval" /\ name # to)
           /\ to # "awaiting_approval" => (MoveThenFinish(s, to, a) => Calm(s))
           /\ \A pc \in Place : MoveThenGoto(s, to, a, pc) => job'[s] = Idle \/ job'[s].fn = job[s].fn
           /\ \A name \in EventName : MoveThenSend(s, to, a, name) => job'[s] = Idle
           /\ MoveThenFinish(s, to, a) => job'[s] = Idle
<1> DEFINE r == job[s].row
<1>1. r \in Row /\ pending \in [EventName -> [Row -> Nat]] /\ job \in [Slot -> Job]
  BY Parts, JobRow DEF Jobbed, Pendings
<1>2. "awaiting_approval" \in EventName
  BY DEF EventName
<1>3. Moved(r, to, a) \/ Refused(r, to, a) =>
          /\ NobodyElse => \A q \in Row :
                 state'[q] \in AtWorkStates => state'[q] = state[q] \/ Owner[q] \notin revoked
          /\ \A q \in Row : state'[q] \in {state[q], "escalated"} \/ (q = r /\ state'[q] = to)
          /\ UNCHANGED revoked
  BY <1>1, MoveCalm
<1>4. ASSUME NEW pc \in Place, MoveThenGoto(s, to, a, pc)
      PROVE  /\ to # "awaiting_approval" => Calm(s)
             /\ job'[s] = Idle \/ job'[s].fn = job[s].fn
  <2>1. /\ \A t \in Slot \ {s} : job'[t] = job[t]
        /\ job'[s] = Idle \/ job'[s].fn = job[s].fn
    <3>1. CASE Goto(s, pc)
      <4>1. job[s].fn # "idle" /\ job[s].fn # "contractRun"
        BY DEF Rowless
      <4>2. job'[s] = [fn |-> job[s].fn, row |-> job[s].row, pc |-> pc, seen |-> job[s].seen]
        BY <1>1, <3>1, <4>1, GoesOn, Zenon
      <4>3. \A t \in Slot \ {s} : job'[t] = job[t]
        BY <1>1, <3>1, <4>1, GoesOn, Zenon
      <4> QED
        BY <4>2, <4>3
    <3>2. CASE Finish(s)
      BY <1>1, <3>2, Ends
    <3> QED
      BY <1>4, <3>1, <3>2 DEF MoveThenGoto
  <2> QED
    BY <1>1, <1>2, <1>3, <1>4, <2>1 DEF MoveThenGoto, Calm
<1>5. ASSUME NEW name \in EventName, MoveThenSend(s, to, a, name)
      PROVE  (Calm(s) \/ (to = "awaiting_approval" /\ name # to)) /\ job'[s] = Idle
  <2>1. (\A t \in Slot \ {s} : job'[t] = job[t]) /\ job'[s] = Idle
    BY <1>1, <1>5, Ends DEF MoveThenSend
  <2>2. CASE Moved(r, to, a) /\ Send(name, r)
    <3>1. \A q \in Row : pending'["awaiting_approval"][q] >= pending["awaiting_approval"][q]
      BY <1>1, <1>2, <2>2, Sends
    <3>2. name = "awaiting_approval" => pending'["awaiting_approval"][r] > 0
      BY <1>1, <1>2, <2>2, Sends
    <3> QED
      BY <1>3, <2>1, <2>2, <3>1, <3>2 DEF Calm
  <2>3. CASE Refused(r, to, a) /\ UNCHANGED pending
    BY <1>1, <1>2, <1>3, <2>1, <2>3 DEF Calm, Refused, ledgerVars
  <2> QED
    BY <1>5, <2>1, <2>2, <2>3 DEF MoveThenSend
<1>6. ASSUME MoveThenFinish(s, to, a) PROVE (to # "awaiting_approval" => Calm(s)) /\ job'[s] = Idle
  <2>1. (\A t \in Slot \ {s} : job'[t] = job[t]) /\ job'[s] = Idle
    BY <1>1, <1>6, Ends DEF MoveThenFinish
  <2> QED
    BY <1>1, <1>2, <1>3, <1>6, <2>1 DEF MoveThenFinish, Calm
<1> QED
  BY <1>4, <1>5, <1>6

\* A step that moves no row and takes no announcement.
LEMMA StillCalm ==
    ASSUME Typed, NEW s \in Slot, \A t \in Slot \ {s} : job'[t] = job[t], UNCHANGED <<state, revoked>>,
           \A r \in Row : pending'["awaiting_approval"][r] >= pending["awaiting_approval"][r]
    PROVE  Calm(s)
  BY DEF Calm

\* What is said of waiting rows, of rows of revoked workers and of toggles.
Guarded == Stopping /\ Untoggled /\ Watching

LEMMA CalmGuards ==
    ASSUME Typed, Typed', Guarded, NEW s \in Slot, Calm(s),
           job[s].fn \notin {"approvals", "revoke", "toggle"}, job'[s].fn # "toggle",
           UNCHANGED <<used, told, came>>
    PROVE  Guarded'
  BY CalmKeeps DEF Guarded

LEMMA AgentStepGuards ==
    ASSUME Typed, Typed', Guarded, NEW s \in Slot, AgentStepNext(s), UNCHANGED <<surfaceVars, outsideVars>>
    PROVE  Guarded'
<1> USE Parts
<1>0. UNCHANGED <<used, told, came>>
  BY DEF surfaceVars, outsideVars
<1>1. Pendings /\ "awaiting_approval" \in EventName /\ \A r \in Row : pending["awaiting_approval"][r] \in Nat
  BY DEF Pendings, EventName
<1>2. ASSUME NEW r \in Row, StartAgentStep(s, r) PROVE Guarded'
  <2>1. job[s] = Idle /\ (\A t \in Slot \ {s} : job'[t] = job[t]) /\ job'[s].fn = "agentStep"
    BY <1>2 DEF StartAgentStep, Start, Jobbed
  <2>2. Calm(s)
    BY <1>1, <1>2, <2>1, Takes, StillCalm DEF StartAgentStep, Pendings, EventName, ledgerVars
  <2> QED
    BY <1>0, <2>1, <2>2, CalmGuards DEF Idle
<1>3. CASE Unowned(s)
  BY <1>0, <1>3, MoveThenCalm, CalmGuards DEF Unowned, Running, Rowless, State, AtWorkStates, Idle
<1>4. CASE Notify(s)
  <2>1. (\A t \in Slot \ {s} : job'[t] = job[t]) /\ job'[s] = Idle
    BY <1>4, Ends DEF Notify, Jobbed
  <2>2. Calm(s)
    BY <1>1, <1>4, <2>1, StillCalm DEF Notify, ledgerVars
  <2> QED
    BY <1>0, <1>4, <2>1, <2>2, CalmGuards DEF Idle, Notify, Running
<1>5. CASE Decide(s)
  BY <1>0, <1>5, MoveThenCalm, CalmGuards DEF Decide, Running, Rowless, State, AtWorkStates, Idle, Place
<1>6. CASE Ready(s)
  BY <1>0, <1>6, MoveThenCalm, CalmGuards DEF Ready, Running, Rowless, State, AtWorkStates, Idle, EventName
<1>7. CASE BeginWork(s)
  <2> DEFINE r == job[s].row
  <2>1. job[s].fn = "agentStep" /\ r \in Row
    BY <1>7, JobRow DEF BeginWork, Running, Jobbed, Rowless
  <2>2. Moved(r, "in_progress", Owner[r]) \/ Refused(r, "in_progress", Owner[r])
    BY <1>7 DEF BeginWork
  <2>3. (\A t \in Slot \ {s} : job'[t] = job[t]) /\ job'[s].fn # "toggle"
    <3>1. CASE Finish(s)
      BY <3>1, Ends DEF Jobbed, Idle
    <3>2. ASSUME NEW seen, Recall(s, "work", seen) PROVE (\A t \in Slot \ {s} : job'[t] = job[t]) /\ job'[s].fn # "toggle"
      BY <2>1, <3>2 DEF Recall, Jobbed
    <3> QED
      BY <1>7, <3>1, <3>2 DEF BeginWork
  <2>4. Calm(s)
    BY <1>1, <1>7, <2>1, <2>2, <2>3, MoveCalm DEF Calm, State, AtWorkStates, BeginWork
  <2> QED
    BY <1>0, <2>1, <2>3, <2>4, CalmGuards
<1>8. CASE Work(s) \/ WriteOutputs(s)
  <2>1. PICK pc \in Place : Goto(s, pc)
    BY <1>8 DEF Work, WriteOutputs, Place
  <2>2. job[s].fn = "agentStep" /\ UNCHANGED <<state, revoked, pending>>
    BY <1>8 DEF Work, WriteOutputs, Running, ledgerVars
  <2>3. (\A t \in Slot \ {s} : job'[t] = job[t]) /\ job'[s].fn = "agentStep"
    BY <2>1, <2>2, Goes
  <2>4. Calm(s)
    BY <1>1, <2>2, <2>3, StillCalm
  <2> QED
    BY <1>0, <2>2, <2>3, <2>4, CalmGuards
<1>9. CASE Submit(s)
  BY <1>0, <1>9, MoveThenCalm, CalmGuards DEF Submit, Running, Rowless, State, AtWorkStates, Idle, EventName
<1>10. CASE GiveUp(s)
  BY <1>0, <1>10, MoveThenCalm, CalmGuards DEF GiveUp, Running, Rowless, State, AtWorkStates, Idle
<1> QED
  BY <1>2, <1>3, <1>4, <1>5, <1>6, <1>7, <1>8, <1>9, <1>10 DEF AgentStepNext

LEMMA RunChecksGuards ==
    ASSUME Typed, Typed', Guarded, NEW s \in Slot, RunChecksNext(s), UNCHANGED <<surfaceVars, outsideVars>>
    PROVE  Guarded'
<1> USE Parts
<1>0. UNCHANGED <<used, told, came>>
  BY DEF surfaceVars, outsideVars
<1>1. Pendings /\ "awaiting_approval" \in EventName /\ \A r \in Row : pending["awaiting_approval"][r] \in Nat
  BY DEF Pendings, EventName
<1>2. ASSUME NEW r \in Row, StartRunChecks(s, r) PROVE Guarded'
  <2>1. job[s] = Idle /\ (\A t \in Slot \ {s} : job'[t] = job[t]) /\ job'[s].fn = "runChecks"
    BY <1>2 DEF StartRunChecks, Start, Jobbed
  <2>2. Calm(s)
    BY <1>1, <1>2, <2>1, Takes, StillCalm DEF StartRunChecks, Pendings, EventName, ledgerVars
  <2> QED
    BY <1>0, <2>1, <2>2, CalmGuards DEF Idle
<1>3. CASE Check(s) \/ Restore(s)
  <2>1. PICK pc \in Place : Goto(s, pc)
    BY <1>3 DEF Check, Restore, Place
  <2>2. job[s].fn = "runChecks" /\ UNCHANGED <<state, revoked, pending>>
    BY <1>3 DEF Check, Restore, RecordPass, Running, ledgerVars
  <2>3. (\A t \in Slot \ {s} : job'[t] = job[t]) /\ job'[s].fn = "runChecks"
    BY <2>1, <2>2, Goes
  <2>4. Calm(s)
    BY <1>1, <2>2, <2>3, StillCalm
  <2> QED
    BY <1>0, <2>2, <2>3, <2>4, CalmGuards
<1>4. CASE Await(s)
  BY <1>0, <1>4, MoveThenCalm, CalmGuards DEF Await, Running, Rowless, State, AtWorkStates, Idle, EventName
<1>5. CASE Verify(s)
  BY <1>0, <1>5, MoveThenCalm, CalmGuards DEF Verify, Running, Rowless, State, AtWorkStates, Idle, EventName
<1>6. CASE HandBack(s)
  <2> DEFINE r == job[s].row
  <2>1. job[s].fn = "runChecks" /\ r \in Row
    BY <1>6, JobRow DEF HandBack, Running, Jobbed, Rowless
  <2>2. Moved(r, "handed_back", OwnerOrMaya(r)) \/ Refused(r, "handed_back", OwnerOrMaya(r))
    BY <1>6 DEF HandBack
  <2>3. (\A t \in Slot \ {s} : job'[t] = job[t]) /\ job'[s].fn # "toggle"
    <3>1. CASE Finish(s)
      BY <3>1, Ends DEF Jobbed, Idle
    <3>2. CASE Goto(s, "exhausted")
      BY <2>1, <3>2, Goes DEF Place
    <3> QED
      BY <1>6, <3>1, <3>2 DEF HandBack
  <2>4. \A q \in Row : pending'["awaiting_approval"][q] >= pending["awaiting_approval"][q]
    BY <1>1, <1>6, <2>1, Sends DEF HandBack, Pendings, EventName
  <2>5. Calm(s)
    BY <2>1, <2>2, <2>3, <2>4, MoveCalm DEF Calm, State, AtWorkStates
  <2> QED
    BY <1>0, <2>1, <2>3, <2>5, CalmGuards
<1>7. CASE Exhausted(s)
  BY <1>0, <1>7, MoveThenCalm, CalmGuards DEF Exhausted, Running, Rowless, State, AtWorkStates, Idle
<1> QED
  BY <1>2, <1>3, <1>4, <1>5, <1>6, <1>7 DEF RunChecksNext

LEMMA UnblockGuards ==
    ASSUME Typed, Typed', Guarded, NEW s \in Slot, UnblockNext(s), UNCHANGED <<surfaceVars, outsideVars>>
    PROVE  Guarded'
<1> USE Parts
<1>0. UNCHANGED <<used, told, came>>
  BY DEF surfaceVars, outsideVars
<1>1. Pendings /\ "awaiting_approval" \in EventName /\ \A r \in Row : pending["awaiting_approval"][r] \in Nat
  BY DEF Pendings, EventName
<1>2. ASSUME NEW r \in Row, StartUnblock(s, r) PROVE Guarded'
  <2>1. job[s] = Idle /\ (\A t \in Slot \ {s} : job'[t] = job[t]) /\ job'[s].fn = "unblock"
    BY <1>2 DEF StartUnblock, Start, Jobbed
  <2>2. Calm(s)
    BY <1>1, <1>2, <2>1, Takes, StillCalm DEF StartUnblock, Pendings, EventName, ledgerVars
  <2> QED
    BY <1>0, <2>1, <2>2, CalmGuards DEF Idle
<1>3. CASE Close(s)
  <2>1. job[s].fn = "unblock" /\ job[s].row \in Row
    BY <1>3, JobRow DEF Close, Running, Jobbed, Rowless
  <2>2. (\A t \in Slot \ {s} : job'[t] = job[t]) /\ job'[s].fn # "toggle"
    BY <1>3, <2>1, Goes DEF Close, Place
  <2>3. Calm(s)
    BY <1>1, <1>3, <2>1, <2>2, MoveCalm DEF Calm, Close, State, AtWorkStates
  <2> QED
    BY <1>0, <2>1, <2>2, <2>3, CalmGuards
<1>4. CASE Find(s)
  <2>1. PICK seen : Recall(s, "release", seen)
    BY <1>4 DEF Find
  <2>2. job[s].fn = "unblock"
    BY <1>4 DEF Find, Running
  <2>3. (\A t \in Slot \ {s} : job'[t] = job[t]) /\ job'[s].fn # "toggle"
    BY <2>1, <2>2 DEF Recall, Jobbed
  <2>4. Calm(s)
    BY <1>1, <1>4, <2>3, StillCalm DEF Find, ledgerVars
  <2> QED
    BY <1>0, <2>2, <2>3, <2>4, CalmGuards
<1>5. CASE Release(s)
  <2>1. job[s].fn = "unblock" /\ job[s] \in UnblockJob
    BY <1>5, JobKinds DEF Release, Running, Jobbed
  <2>2. PICK r \in job[s].seen.ready :
           /\ Moved(r, "contracted", Requester) \/ Refused(r, "contracted", Requester)
           /\ \E seen : Recall(s, "release", seen)
    BY <1>5 DEF Release
  <2>3. (\A t \in Slot \ {s} : job'[t] = job[t]) /\ job'[s].fn # "toggle"
    BY <2>1, <2>2 DEF Recall, Jobbed
  <2>4. r \in Row
    BY <2>1 DEF UnblockJob
  <2>5. Calm(s)
    BY <1>1, <1>5, <2>2, <2>3, <2>4, MoveCalm DEF Calm, Release, State, AtWorkStates
  <2> QED
    BY <1>0, <2>1, <2>3, <2>5, CalmGuards
<1>6. CASE Assign(s)
  <2>1. job[s].fn = "unblock" /\ UNCHANGED <<state, revoked>>
    BY <1>6 DEF Assign, Running, ledgerVars
  <2>2. (\A t \in Slot \ {s} : job'[t] = job[t]) /\ job'[s].fn # "toggle"
    BY <1>6, <2>1, Goes DEF Assign, Place
  <2>3. pending'["awaiting_approval"] = pending["awaiting_approval"]
    BY <1>6, SendsAll DEF Assign, Pendings, EventName
  <2>4. Calm(s)
    BY <1>1, <2>1, <2>2, <2>3, StillCalm
  <2> QED
    BY <1>0, <2>1, <2>2, <2>4, CalmGuards
<1>7. CASE CloseRun(s)
  <2>1. job[s].fn = "unblock" /\ UNCHANGED <<state, revoked, pending>>
    BY <1>7 DEF CloseRun, Running, ledgerVars
  <2>2. (\A t \in Slot \ {s} : job'[t] = job[t]) /\ job'[s].fn # "toggle"
    BY <1>7, Ends DEF CloseRun, Jobbed, Idle
  <2>3. Calm(s)
    BY <1>1, <2>1, <2>2, StillCalm
  <2> QED
    BY <1>0, <2>1, <2>2, <2>3, CalmGuards
<1> QED
  BY <1>2, <1>3, <1>4, <1>5, <1>6, <1>7 DEF UnblockNext

LEMMA SurfacesGuards ==
    ASSUME Typed, Typed', Guarded, NEW s \in Slot, SurfacesStep(s), UNCHANGED outsideVars
    PROVE  Guarded'
<1> USE Parts
<1>0. UNCHANGED <<told, came>> /\ (UNCHANGED surfaceVars => UNCHANGED used)
  BY DEF surfaceVars, outsideVars
<1>1. Pendings /\ "awaiting_approval" \in EventName /\ \A r \in Row : pending["awaiting_approval"][r] \in Nat
  BY DEF Pendings, EventName
<1>2. CASE Contract(s)
  <2>1. /\ job[s].fn = "contractRun" /\ job[s] \in ContractJob
        /\ UNCHANGED <<pending, surfaceVars>>
    BY <1>2, ContractStep
  <2>2. PICK r \in job[s].seen.rows, target \in {"blocked", "contracted"} :
           /\ Moved(r, target, job[s].seen.actor) \/ Refused(r, target, job[s].seen.actor)
           /\ \E seen : Recall(s, "rows", seen)
    BY <1>2, ContractStep
  <2>3. (\A t \in Slot \ {s} : job'[t] = job[t]) /\ job'[s].fn # "toggle"
    BY <2>1, <2>2 DEF Recall, Jobbed
  <2>4. r \in Row
    BY <2>1 DEF ContractJob
  <2>5. Calm(s)
    BY <1>1, <2>1, <2>2, <2>3, <2>4, MoveCalm DEF Calm, State, AtWorkStates
  <2> QED
    BY <1>0, <2>1, <2>3, <2>5, CalmGuards
<1>3. CASE SendContracted(s)
  <2>1. job[s].fn = "contractRun" /\ UNCHANGED <<state, revoked, surfaceVars>>
    BY <1>3 DEF SendContracted, Running, ledgerVars
  <2>2. (\A t \in Slot \ {s} : job'[t] = job[t]) /\ job'[s].fn # "toggle"
    BY <1>3, Ends DEF SendContracted, Jobbed, Idle
  <2>3. pending'["awaiting_approval"] = pending["awaiting_approval"]
    BY <1>3, SendsAll DEF SendContracted, Pendings, EventName
  <2>4. Calm(s)
    BY <1>1, <2>1, <2>2, <2>3, StillCalm
  <2> QED
    BY <1>0, <2>1, <2>2, <2>4, CalmGuards
<1>4. CASE EditHandsBack(s) \/ EditEscalates(s)
  <2>1. job[s].fn = "edit" /\ job[s].row \in Row /\ UNCHANGED <<pending, surfaceVars>>
    BY <1>4, JobRow DEF EditHandsBack, EditEscalates, Running, Jobbed, Rowless
  <2>2. PICK pc \in Place : Goto(s, pc)
    BY <1>4 DEF EditHandsBack, EditEscalates, Place
  <2>3. (\A t \in Slot \ {s} : job'[t] = job[t]) /\ job'[s].fn # "toggle"
    BY <2>1, <2>2, Goes
  <2>4. PICK to \in {"handed_back", "escalated"} :
           Moved(job[s].row, to, job[s].seen.actor) \/ Refused(job[s].row, to, job[s].seen.actor)
    BY <1>4 DEF EditHandsBack, EditEscalates
  <2>5. Calm(s)
    BY <1>1, <2>1, <2>3, <2>4, MoveCalm DEF Calm, State, AtWorkStates
  <2> QED
    BY <1>0, <2>1, <2>3, <2>5, CalmGuards
<1>5. CASE EditReassigns(s)
  <2>1. job[s].fn = "edit" /\ job[s].row \in Row /\ UNCHANGED <<state, revoked, surfaceVars>>
    BY <1>5, JobRow DEF EditReassigns, Running, Jobbed, Rowless, ledgerVars
  <2>2. (\A t \in Slot \ {s} : job'[t] = job[t]) /\ job'[s].fn # "toggle"
    BY <1>5, Ends DEF EditReassigns, Jobbed, Idle
  <2>3. \A q \in Row : pending'["awaiting_approval"][q] >= pending["awaiting_approval"][q]
    BY <1>1, <1>5, <2>1, Sends DEF EditReassigns, Pendings, EventName
  <2>4. Calm(s)
    BY <2>1, <2>2, <2>3, StillCalm
  <2> QED
    BY <1>0, <2>1, <2>2, <2>4, CalmGuards
<1>6. CASE Sweep(s)
  <2>1. job[s].fn = "deadlines" /\ job[s] \in SweepJob /\ UNCHANGED <<pending, surfaceVars>>
    BY <1>6, JobKinds DEF Sweep, Running, Jobbed
  <2>2. CASE Finish(s) /\ UNCHANGED ledgerVars
    <3>1. (\A t \in Slot \ {s} : job'[t] = job[t]) /\ job'[s].fn # "toggle"
      BY <2>2, Ends DEF Jobbed, Idle
    <3>2. Calm(s)
      BY <1>1, <2>1, <2>2, <3>1, StillCalm DEF ledgerVars
    <3> QED
      BY <1>0, <2>1, <3>1, <3>2, CalmGuards
  <2>3. ASSUME NEW r \in job[s].seen.rows, NEW seen,
               Moved(r, "escalated", EscalatorOf(r)) \/ Refused(r, "escalated", EscalatorOf(r)),
               Recall(s, "rows", seen)
        PROVE  Guarded'
    <3>1. (\A t \in Slot \ {s} : job'[t] = job[t]) /\ job'[s].fn # "toggle"
      BY <2>1, <2>3 DEF Recall, Jobbed
    <3>2. r \in Row
      BY <2>1 DEF SweepJob
    <3>3. Calm(s)
      BY <1>1, <2>1, <2>3, <3>1, <3>2, MoveCalm DEF Calm, State, AtWorkStates
    <3> QED
      BY <1>0, <2>1, <3>1, <3>3, CalmGuards
  <2> QED
    BY <1>6, <2>2, <2>3 DEF Sweep
<1> QED
  BY <1>2, <1>3, <1>4, <1>5, <1>6 DEF SurfacesStep

\* The functions around an approval: a watcher starts when its announcement is
\* taken and ends when the row no longer waits.
LEMMA ApprovalsGuard ==
    ASSUME Typed, Typed', Guarded, NeverBlocked, NEW s \in Slot, ApprovalsStep(s),
           UNCHANGED <<surfaceVars, outsideVars>>
    PROVE  Guarded'
<1> USE Parts
<1>0. UNCHANGED <<used, told, came>>
  BY DEF surfaceVars, outsideVars
<1>1. Pendings /\ "awaiting_approval" \in EventName /\ \A r \in Row : pending["awaiting_approval"][r] \in Nat
  BY DEF Pendings, EventName
<1>2. ASSUME \A t \in Slot \ {s} : job'[t] = job[t],
             job[s].fn \in {"idle", "approvals"}, job'[s].fn \in {"idle", "approvals"},
             \A q \in Row : state'[q] \in {state[q], "escalated"}, UNCHANGED revoked
      PROVE  Stopping' /\ Untoggled'
  <2>1. Stopping'
    BY <1>0, <1>2 DEF Guarded, Stopping, AtWorkStates
  <2>2. Untoggled'
    BY <1>0, <1>2 DEF Guarded, Untoggled
  <2> QED
    BY <2>1, <2>2
<1>3. ASSUME NEW r \in Row, StartWatch(s, r) PROVE Guarded'
  <2>1. /\ job[s] = Idle /\ job'[s].fn = "approvals" /\ job'[s].row = r
        /\ \A t \in Slot \ {s} : job'[t] = job[t]
    BY <1>3 DEF StartWatch, Start, Jobbed
  <2>2. Stopping' /\ Untoggled'
    BY <1>2, <1>3, <2>1 DEF StartWatch, ledgerVars, Idle
  <2>3. \A q \in Row \ {r} : pending'["awaiting_approval"][q] = pending["awaiting_approval"][q]
    BY <1>1, <1>3, Takes DEF StartWatch, Pendings
  <2>4. Watching'
    BY <1>0, <1>3, <2>1, <2>3 DEF Guarded, Watching, WaitingIsWatched, StartWatch, ledgerVars, Idle
  <2> QED
    BY <2>2, <2>4 DEF Guarded
<1>4. ASSUME /\ job[s].fn = "approvals" /\ job'[s].fn = "approvals" /\ job'[s].row = job[s].row
             /\ \A t \in Slot \ {s} : job'[t] = job[t]
             /\ UNCHANGED <<ledgerVars, pending>>
      PROVE  Guarded'
  <2>1. Stopping' /\ Untoggled'
    BY <1>2, <1>4 DEF ledgerVars
  <2>2. Watching'
    BY <1>0, <1>4 DEF Guarded, Watching, WaitingIsWatched, ledgerVars
  <2> QED
    BY <2>1, <2>2 DEF Guarded
<1>5. CASE WindowCloses(s)
  BY <1>4, <1>5, Goes DEF WindowCloses, Running, Place
<1>6. CASE Look(s)
  <2>1. job[s].fn = "approvals" /\ UNCHANGED <<ledgerVars, pending>>
    BY <1>6 DEF Look
  <2>2. CASE state[job[s].row] # "awaiting_approval" /\ Finish(s)
    <3>1. (\A t \in Slot \ {s} : job'[t] = job[t]) /\ job'[s] = Idle
      BY <2>2, Ends DEF Jobbed
    <3>2. Stopping' /\ Untoggled'
      BY <1>2, <2>1, <3>1 DEF ledgerVars, Idle
    <3>3. Watching'
      BY <1>0, <2>1, <2>2, <3>1 DEF Guarded, Watching, WaitingIsWatched, ledgerVars
    <3> QED
      BY <3>2, <3>3 DEF Guarded
  <2>3. CASE Goto(s, "escalate")
    BY <1>4, <2>1, <2>3, Goes DEF Place
  <2>4. ASSUME NEW pc, NEW seen, Recall(s, pc, seen) PROVE Guarded'
    <3>1. job[s] \in WatchJob
      BY <2>1, JobKinds DEF Jobbed
    <3>2. (\A t \in Slot \ {s} : job'[t] = job[t]) /\ job'[s].fn = "approvals" /\ job'[s].row = job[s].row
      BY <2>1, <2>4, <3>1 DEF Recall, Jobbed, WatchJob
    <3> QED
      BY <1>4, <2>1, <3>2
  <2> QED
    BY <1>6, <2>2, <2>3, <2>4 DEF Look
<1>7. CASE StopWaiting(s)
  <2> DEFINE r == job[s].row
             a == OwnerOrMaya(r)
  <2>1. job[s].fn = "approvals" /\ r \in Row /\ UNCHANGED pending
    BY <1>7, JobRow DEF StopWaiting, Running, MoveThenFinish, Jobbed, Rowless
  <2>2. (\A t \in Slot \ {s} : job'[t] = job[t]) /\ job'[s] = Idle
    BY <1>7, Ends DEF StopWaiting, MoveThenFinish, Jobbed
  <2>3. Moved(r, "escalated", a) \/ Refused(r, "escalated", a)
    BY <1>7 DEF StopWaiting, MoveThenFinish
  <2>4. (\A q \in Row : state'[q] \in {state[q], "escalated"}) /\ UNCHANGED revoked
    BY <2>1, <2>3, MoveCalm DEF State, AtWorkStates
  <2>5. Stopping' /\ Untoggled'
    BY <1>2, <2>1, <2>2, <2>4 DEF Idle
  <2>6. revoked = {} => state'[r] # "awaiting_approval"
    <3>1. CASE Moved(r, "escalated", a)
      BY <2>1, <3>1, MovedEffect DEF State
    <3>2. CASE Refused(r, "escalated", a) /\ revoked = {} /\ state'[r] = "awaiting_approval"
      <4>1. ~Permitted(r, "escalated", a) /\ state[r] = "awaiting_approval"
        BY <2>1, <3>2 DEF Refused, NeverBlocked, ledgerVars
      <4> QED
        BY <3>2, <4>1 DEF Permitted, MaySettle, MayResolve, MayStart, Settled, Edges
    <3> QED
      BY <2>3, <3>1, <3>2
  <2>7. Watching'
    BY <1>0, <2>1, <2>2, <2>4, <2>6 DEF Guarded, Untoggled, Watching, WaitingIsWatched
  <2> QED
    BY <2>5, <2>7 DEF Guarded
<1>8. CASE LoadSettle(s)
  <2>1. job[s].fn = "settle" /\ UNCHANGED <<state, revoked, pending>>
    BY <1>8 DEF LoadSettle, Running, ledgerVars
  <2>2. (\A t \in Slot \ {s} : job'[t] = job[t]) /\ job'[s].fn # "toggle"
    <3>1. CASE Finish(s)
      BY <3>1, Ends DEF Jobbed, Idle
    <3>2. CASE Recall(s, "reason", [job[s].seen EXCEPT !.attempts = attempts[job[s].row]])
      BY <2>1, <3>2 DEF Recall, Jobbed
    <3> QED
      BY <1>8, <3>1, <3>2 DEF LoadSettle
  <2>3. Calm(s)
    BY <1>1, <2>1, <2>2, StillCalm
  <2> QED
    BY <1>0, <2>1, <2>2, <2>3, CalmGuards
<1>9. CASE Reason(s) \/ RecordApproval(s)
  <2>1. PICK pc \in Place : Goto(s, pc)
    BY <1>9 DEF Reason, RecordApproval, Place
  <2>2. job[s].fn = "settle" /\ UNCHANGED <<state, revoked, pending>>
    BY <1>9 DEF Reason, RecordApproval, RecordPass, Running
  <2>3. (\A t \in Slot \ {s} : job'[t] = job[t]) /\ job'[s].fn = "settle"
    BY <2>1, <2>2, Goes
  <2>4. Calm(s)
    BY <1>1, <2>2, <2>3, StillCalm
  <2> QED
    BY <1>0, <2>2, <2>3, <2>4, CalmGuards
<1>10. CASE VerifyApproved(s)
  BY <1>0, <1>10, MoveThenCalm, CalmGuards
     DEF VerifyApproved, Running, Rowless, State, AtWorkStates, Idle, EventName
<1>11. CASE HandBackDecided(s)
  <2> DEFINE r == job[s].row
  <2>1. job[s].fn = "settle" /\ r \in Row
    BY <1>11, JobRow DEF HandBackDecided, Running, Jobbed, Rowless
  <2>2. Moved(r, "handed_back", job[s].seen.actor) \/ Refused(r, "handed_back", job[s].seen.actor)
    BY <1>11 DEF HandBackDecided
  <2>3. (\A t \in Slot \ {s} : job'[t] = job[t]) /\ job'[s].fn # "toggle"
    BY <1>11, Ends DEF HandBackDecided, Jobbed, Idle
  <2>4. \A q \in Row : pending'["awaiting_approval"][q] >= pending["awaiting_approval"][q]
    BY <1>1, <1>11, <2>1, Sends DEF HandBackDecided, Pendings, EventName
  <2>5. Calm(s)
    BY <2>1, <2>2, <2>3, <2>4, MoveCalm DEF Calm, State, AtWorkStates
  <2> QED
    BY <1>0, <2>1, <2>3, <2>5, CalmGuards
<1> QED
  BY <1>3, <1>5, <1>6, <1>7, <1>8, <1>9, <1>10, <1>11 DEF ApprovalsStep

\* Revocation and the calls of agents elsewhere: a revocation is announced, its
\* announcement lists the rows at work, and each of the list is escalated unless it
\* is at work no more.
LEMMA OutsideGuards ==
    ASSUME Typed, Typed', Guarded, NeverBlocked, NEW s \in Slot, OutsideStep(s), UNCHANGED surfaceVars
    PROVE  Guarded'
<1> USE Parts
<1>0. UNCHANGED used /\ (UNCHANGED outsideVars => UNCHANGED <<told, came>>)
  BY DEF surfaceVars, outsideVars
<1>1. Pendings /\ "awaiting_approval" \in EventName /\ \A r \in Row : pending["awaiting_approval"][r] \in Nat
  BY DEF Pendings, EventName
<1>2. /\ job[s].fn = "toggle" => job[s] \in ToggleJob
      /\ job[s].fn = "revoke" => job[s] \in RevokeJob
      /\ job[s].fn \in {"mcp", "chat"} => job[s] \in CallJob /\ job[s].row \in Row
  BY JobKinds DEF Jobbed, CallJob
<1>3. ASSUME \A t \in Slot \ {s} : job'[t] = job[t],
             job[s].fn # "approvals", UNCHANGED <<pending, came>>,
             \A q \in Row : state'[q] = "awaiting_approval" => state[q] = "awaiting_approval"
      PROVE  Watching'
  BY <1>0, <1>3 DEF Guarded, Watching, WaitingIsWatched
<1>4. CASE StoreStatus(s)
  <2> DEFINE w == job[s].seen.worker
  <2>1. job[s].fn = "toggle" /\ w \in Worker /\ job[s].seen.was \in BOOLEAN /\ UNCHANGED <<state, came, pending>>
    BY <1>2, <1>4, Assumptions DEF StoreStatus, Running, ToggleJob, ToggleStatus, ledgerVars
  <2>2. (\A t \in Slot \ {s} : job'[t] = job[t]) /\ job'[s] = Idle
    BY <1>4, Ends DEF StoreStatus, Jobbed
  <2>3. Untoggled' /\ Watching'
    <3>1. came.toggles # 0
      BY <2>1 DEF Guarded, Untoggled
    <3> QED
      BY <1>3, <2>1, <2>2, <3>1 DEF Untoggled
  <2>4. Stopping'
    <3> SUFFICES ASSUME NobodyElse, used.typed = 0, NEW r \in Row, Owner[r] \in revoked',
                        state[r] \in AtWorkStates
                 PROVE  \/ told'[Owner[r]] > 0
                        \/ \E t \in Slot : job'[t].fn = "revoke" /\ job'[t].pc = "rows"
                                             /\ r \in job'[t].seen.rows
      BY <1>0, <2>1 DEF Stopping, NobodyElse
    <3>1. told \in [Worker -> Nat] /\ Owner[r] \in Worker
      BY DEF Others, Typed, Ledgered, LedgerTypeOK
    <3>2. CASE Owner[r] \in revoked
      <4>1. \/ told[Owner[r]] > 0
            \/ \E t \in Slot : job[t].fn = "revoke" /\ job[t].pc = "rows" /\ r \in job[t].seen.rows
        BY <3>2 DEF Guarded, Stopping
      <4>2. told'[Owner[r]] >= told[Owner[r]]
        BY <1>4, <2>1, <3>1 DEF StoreStatus
      <4>3. told'[Owner[r]] \in Nat /\ told[Owner[r]] \in Nat
        BY <3>1 DEF Typed, Others
      <4> QED
        BY <2>1, <2>2, <4>1, <4>2, <4>3
    <3>3. CASE Owner[r] \notin revoked
      <4>1. Owner[r] = w /\ (w \in revoked) = job[s].seen.was
        BY <1>4, <3>3 DEF StoreStatus, ToggleStatus, ledgerVars
      <4>2. ~job[s].seen.was
        BY <2>1, <3>3, <4>1
      <4>3. told'[w] = told[w] + 1
        BY <1>4, <2>1, <3>1, <4>2 DEF StoreStatus
      <4> QED
        BY <3>1, <4>1, <4>3
    <3> QED
      BY <3>2, <3>3
  <2> QED
    BY <2>3, <2>4 DEF Guarded
<1>5. ASSUME NEW w \in Worker, StartRevoke(s, w) PROVE Guarded'
  <2> DEFINE rows == {r \in Row : Owner[r] = w /\ state[r] \in OpenStates}
  <2>1. /\ job[s] = Idle /\ (\A t \in Slot \ {s} : job'[t] = job[t])
        /\ job'[s] = [fn |-> "revoke", row |-> AnyRow, pc |-> "rows", seen |-> [rows |-> rows]]
    BY <1>5 DEF StartRevoke, Start, Jobbed
  <2>2. UNCHANGED <<state, revoked, pending, came>>
    BY <1>5 DEF StartRevoke, ledgerVars
  <2>3. Untoggled' /\ Watching'
    BY <1>3, <2>1, <2>2 DEF Guarded, Untoggled, Idle
  <2>4. Stopping'
    <3> SUFFICES ASSUME NobodyElse, used.typed = 0, NEW r \in Row, Owner[r] \in revoked,
                        state[r] \in AtWorkStates
                 PROVE  \/ told'[Owner[r]] > 0
                        \/ \E t \in Slot : job'[t].fn = "revoke" /\ job'[t].pc = "rows"
                                             /\ r \in job'[t].seen.rows
      BY <1>0, <2>2 DEF Stopping, NobodyElse
    <3>1. \/ told[Owner[r]] > 0
          \/ \E t \in Slot : job[t].fn = "revoke" /\ job[t].pc = "rows" /\ r \in job[t].seen.rows
      BY DEF Guarded, Stopping
    <3>2. CASE Owner[r] = w
      <4>1. r \in rows
        BY <3>2 DEF OpenStates, AtWorkStates
      <4> QED
        BY <2>1, <4>1
    <3>3. CASE Owner[r] # w
      <4>1. told'[Owner[r]] = told[Owner[r]]
        BY <1>5, <3>3 DEF StartRevoke, Others, Typed, Ledgered, LedgerTypeOK
      <4> QED
        BY <2>1, <3>1, <4>1 DEF Idle
    <3> QED
      BY <3>2, <3>3
  <2> QED
    BY <2>3, <2>4 DEF Guarded
<1>6. CASE EscalateRevoked(s)
  <2>1. job[s].fn = "revoke" /\ job[s].pc = "rows" /\ job[s] \in RevokeJob /\ UNCHANGED <<pending, told, came>>
    BY <1>2, <1>6 DEF EscalateRevoked, Running, outsideVars
  <2>2. CASE job[s].seen.rows = {} /\ Finish(s) /\ UNCHANGED ledgerVars
    <3>1. (\A t \in Slot \ {s} : job'[t] = job[t]) /\ job'[s] = Idle
      BY <2>2, Ends DEF Jobbed
    <3>2. Untoggled' /\ Watching'
      BY <1>3, <2>1, <2>2, <3>1 DEF Guarded, Untoggled, Idle, ledgerVars
    <3>3. Stopping'
      BY <1>0, <2>1, <2>2, <3>1 DEF Guarded, Stopping, ledgerVars
    <3> QED
      BY <3>2, <3>3 DEF Guarded
  <2>3. ASSUME NEW r \in job[s].seen.rows,
               Moved(r, "escalated", Maya) \/ Refused(r, "escalated", Maya),
               Recall(s, "rows", [rows |-> job[s].seen.rows \ {r}])
        PROVE  Guarded'
    <3>1. r \in Row
      BY <2>1 DEF RevokeJob
    <3>2. /\ job'[s].fn = "revoke" /\ job'[s].pc = "rows" /\ job'[s].seen.rows = job[s].seen.rows \ {r}
          /\ \A t \in Slot \ {s} : job'[t] = job[t]
      BY <2>1, <2>3 DEF Recall, Jobbed, RevokeJob
    <3>3. (\A q \in Row : state'[q] \in {state[q], "escalated"}) /\ UNCHANGED revoked
      BY <2>3, <3>1, MoveCalm DEF State, AtWorkStates
    <3>4. Untoggled' /\ Watching'
      BY <1>3, <2>1, <3>2, <3>3 DEF Guarded, Untoggled
    <3>5. NobodyElse => state'[r] \notin AtWorkStates
      <4>1. CASE Moved(r, "escalated", Maya)
        BY <3>1, <4>1, MovedEffect DEF State, AtWorkStates
      <4>2. CASE Refused(r, "escalated", Maya) /\ NobodyElse
        <5>1. Maya \notin revoked
          BY <4>2 DEF NobodyElse, Typed, Ledgered
        <5>2. ~Permitted(r, "escalated", Maya) /\ state'[r] = state[r]
          BY <3>1, <4>2 DEF Refused, NeverBlocked, ledgerVars
        <5>3. "escalated" \notin Edges[state[r]]
          BY <5>1, <5>2 DEF Permitted, MaySettle, MayResolve, MayStart, Settled
        <5> QED
          BY <5>2, <5>3 DEF Edges, AtWorkStates
      <4> QED
        BY <2>3, <4>1, <4>2
    <3>6. Stopping'
      <4> SUFFICES ASSUME NobodyElse, used.typed = 0, NEW q \in Row, Owner[q] \in revoked,
                          state'[q] \in AtWorkStates
                   PROVE  \/ told[Owner[q]] > 0
                          \/ \E t \in Slot : job'[t].fn = "revoke" /\ job'[t].pc = "rows"
                                               /\ q \in job'[t].seen.rows
        BY <1>0, <2>1, <3>3 DEF Stopping, NobodyElse
      <4>1. q # r /\ state[q] \in AtWorkStates
        BY <3>3, <3>5 DEF AtWorkStates
      <4>2. \/ told[Owner[q]] > 0
            \/ \E t \in Slot : job[t].fn = "revoke" /\ job[t].pc = "rows" /\ q \in job[t].seen.rows
        BY <4>1 DEF Guarded, Stopping
      <4>3. ASSUME NEW t \in Slot, job[t].fn = "revoke", job[t].pc = "rows", q \in job[t].seen.rows
            PROVE  job'[t].fn = "revoke" /\ job'[t].pc = "rows" /\ q \in job'[t].seen.rows
        BY <3>2, <4>1, <4>3
      <4> QED
        BY <4>2, <4>3
    <3> QED
      BY <3>4, <3>6 DEF Guarded
  <2> QED
    BY <1>6, <2>2, <2>3 DEF EscalateRevoked
<1>7. ASSUME job[s].fn \in {"mcp", "chat"}
      PROVE  job[s].fn \notin Rowless /\ (NobodyElse => job[s].seen.worker = Owner[job[s].row] \/ Owner[job[s].row] \notin revoked)
  BY <1>2, <1>7 DEF CallJob, NobodyElse, Rowless, Typed, Ledgered
<1>8. CASE ClaimRow(s)
  BY <1>0, <1>7, <1>8, MoveThenCalm, CalmGuards DEF ClaimRow, Running, State, AtWorkStates, Idle
<1>9. CASE SubmitOutput(s)
  BY <1>0, <1>7, <1>9, MoveThenCalm, CalmGuards
     DEF SubmitOutput, Running, State, AtWorkStates, Idle, EventName
<1>10. CASE AskApproval(s)
  BY <1>0, <1>7, <1>10, MoveThenCalm, CalmGuards
     DEF AskApproval, Running, State, AtWorkStates, Idle, EventName
<1>11. CASE HandOff(s)
  BY <1>0, <1>7, <1>11, MoveThenCalm, CalmGuards DEF HandOff, Running, State, AtWorkStates, Idle
<1>12. CASE HandBackReply(s)
  BY <1>0, <1>7, <1>12, MoveThenCalm, CalmGuards DEF HandBackReply, Running, State, AtWorkStates, Idle
<1>13. CASE TimeOutChat(s)
  BY <1>0, <1>7, <1>13, MoveThenCalm, CalmGuards DEF TimeOutChat, Running, State, AtWorkStates, Idle
<1>14. CASE AttachSent(s) \/ SetOutputs(s) \/ ReadReply(s)
  <2>1. job[s].fn \in {"mcp", "chat"} /\ UNCHANGED <<state, revoked, pending, told, came>>
    BY <1>0, <1>14 DEF AttachSent, SetOutputs, ReadReply, Running, ledgerVars
  <2>2. PICK pc \in Place : Goto(s, pc)
    BY <1>14 DEF AttachSent, SetOutputs, ReadReply, Place
  <2>3. (\A t \in Slot \ {s} : job'[t] = job[t]) /\ job'[s].fn = job[s].fn
    BY <2>1, <2>2, Goes
  <2>4. Calm(s)
    BY <1>1, <2>1, <2>3, StillCalm
  <2> QED
    BY <1>0, <2>1, <2>3, <2>4, CalmGuards
<1> QED
  BY <1>4, <1>5, <1>6, <1>8, <1>9, <1>10, <1>11, <1>12, <1>13, <1>14 DEF OutsideStep

\* What people and agents elsewhere begin takes an empty slot; a press also wakes the
\* watchers of its row, which stay watchers of it.
LEMMA Begins ==
    ASSUME Typed, Guarded, UNCHANGED <<state, revoked, pending, told>>,
           used'.typed = used.typed, came'.toggles >= came.toggles,
           \A t \in Slot : \/ job'[t] = job[t]
                           \/ job[t] = Idle /\ (job'[t].fn = "toggle" => came'.toggles > 0)
                           \/ /\ job[t].fn = "approvals"
                              /\ job'[t].fn = "approvals" /\ job'[t].row = job[t].row
    PROVE  Guarded'
<1>1. came.toggles \in Nat
  BY DEF Typed, Others
<1>2. came'.toggles = 0 => came.toggles = 0
  BY <1>1
<1>3. Stopping'
  BY DEF Guarded, Stopping, Idle
<1>4. Untoggled'
  BY <1>2 DEF Guarded, Untoggled
<1>5. Watching'
  BY <1>2 DEF Guarded, Watching, WaitingIsWatched, Idle
<1> QED
  BY <1>3, <1>4, <1>5 DEF Guarded

LEMMA PeopleGuards ==
    ASSUME Typed, Typed', Guarded, People
    PROVE  Guarded'
<1> USE Parts
<1>0. used \in [edits : Nat, typed : Nat, sweeps : Nat] /\ came \in [toggles : Nat, calls : Nat]
  BY DEF Others
<1>1. ASSUME NEW s \in Slot, NEW a \in Worker, StartContracting(s, a), UNCHANGED outsideVars
      PROVE  Guarded'
  BY <1>0, <1>1, Begins DEF StartContracting, Jobbed, ledgerVars, outsideVars
<1>2. ASSUME NEW s \in Slot, NEW r \in Row, NEW a \in Worker, NEW decision \in Decision,
             Press(s, r, a, decision), UNCHANGED <<surfaceVars, outsideVars>>
      PROVE  Guarded'
  <2>1. ASSUME NEW t \in Slot
        PROVE  \/ job'[t] = job[t]
               \/ job[t] = Idle /\ job'[t].fn # "toggle"
               \/ /\ job[t].fn = "approvals"
                  /\ job'[t].fn = "approvals" /\ job'[t].row = job[t].row
    <3>1. CASE t = s
      BY <1>2, <3>1 DEF Press, Deliver
    <3>2. CASE t # s /\ Running(t, "approvals", "wait") /\ job[t].row = r
      <4>1. job[t] \in WatchJob
        BY <3>2, JobKinds DEF Running, Jobbed
      <4>2. job'[t] = [job[t] EXCEPT !.pc = "woken"]
        BY <1>2, <3>2 DEF Press, Deliver
      <4> QED
        BY <3>2, <4>1, <4>2 DEF WatchJob
    <3>3. CASE t # s /\ ~(Running(t, "approvals", "wait") /\ job[t].row = r)
      BY <1>2, <3>3 DEF Press, Deliver
    <3> QED
      BY <3>1, <3>2, <3>3
  <2>2. UNCHANGED <<state, revoked, pending, told, used, came>>
    BY <1>2 DEF Press, ledgerVars, surfaceVars, outsideVars
  <2> QED
    BY <1>0, <2>1, <2>2, Begins
<1>3. ASSUME NEW s \in Slot, NEW r \in Row, NEW a \in Worker, StartEdit(s, r, a), UNCHANGED outsideVars
      PROVE  Guarded'
  <2>1. UNCHANGED <<state, revoked, pending, told, came>> /\ used'.typed = used.typed
    BY <1>0, <1>3 DEF StartEdit, ledgerVars, outsideVars
  <2>2. \A t \in Slot : job'[t] = job[t] \/ (job[t] = Idle /\ job'[t].fn # "toggle")
    BY <1>3 DEF StartEdit, Start, Jobbed
  <2> QED
    BY <1>0, <2>1, <2>2, Begins
<1>4. ASSUME NEW r \in Row, NEW to \in State, NEW a \in Worker, TypeState(r, to, a), UNCHANGED outsideVars
      PROVE  Guarded'
  <2>1. used'.typed # 0 /\ UNCHANGED <<job, came>>
    BY <1>0, <1>4 DEF TypeState, jobVars, outsideVars
  <2>2. UNCHANGED revoked
    BY <1>4, MovedEffect DEF TypeState
  <2>3. Untoggled'
    BY <2>1, <2>2 DEF Guarded, Untoggled
  <2> QED
    BY <2>1, <2>3 DEF Guarded, Stopping, Watching
<1>5. ASSUME NEW s \in Slot, StartSweep(s), UNCHANGED outsideVars PROVE Guarded'
  <2>1. UNCHANGED <<state, revoked, pending, told, came>> /\ used'.typed = used.typed
    BY <1>0, <1>5 DEF StartSweep, ledgerVars, outsideVars
  <2>2. \A t \in Slot : job'[t] = job[t] \/ (job[t] = Idle /\ job'[t].fn # "toggle")
    BY <1>5 DEF StartSweep, Jobbed
  <2> QED
    BY <1>0, <2>1, <2>2, Begins
<1>6. ASSUME NEW s \in Slot, NEW w \in Revocable, StartToggle(s, w), UNCHANGED surfaceVars PROVE Guarded'
  <2>1. UNCHANGED <<state, revoked, pending, told, used>> /\ came'.toggles = came.toggles + 1
    BY <1>0, <1>6 DEF StartToggle, ledgerVars, surfaceVars
  <2>2. \A t \in Slot : job'[t] = job[t] \/ job[t] = Idle
    BY <1>6 DEF StartToggle, Start, Jobbed
  <2> QED
    BY <1>0, <2>1, <2>2, Begins
<1>7. ASSUME NEW s \in Slot, NEW r \in Row, NEW w \in Holder, UNCHANGED surfaceVars,
             \/ \E tool \in {"claim", "attach", "ask"} : StartCall(s, r, w, tool)
             \/ \E pc \in {"handoff", "reply", "timeout"} : StartChat(s, r, w, pc)
      PROVE  Guarded'
  <2>1. UNCHANGED <<state, revoked, pending, told, used>> /\ came'.toggles = came.toggles
    BY <1>0, <1>7 DEF StartCall, StartChat, ledgerVars, surfaceVars
  <2>2. \A t \in Slot : job'[t] = job[t] \/ (job[t] = Idle /\ job'[t].fn # "toggle")
    BY <1>7 DEF StartCall, StartChat, Start, Jobbed
  <2> QED
    BY <1>0, <2>1, <2>2, Begins
<1> QED
  BY <1>1, <1>2, <1>3, <1>4, <1>5, <1>6, <1>7 DEF People, SurfacesAct, OutsideActs

LEMMA GuardedStep ==
    ASSUME NeverBlocked, Typed, Typed', Guarded, [Next]_vars
    PROVE  Guarded'
<1>1. CASE UNCHANGED vars
  BY <1>1 DEF vars, runtimeVars, ledgerVars, jobVars, surfaceVars, outsideVars,
              Guarded, Stopping, Untoggled, Watching, WaitingIsWatched
<1>2. ASSUME NEW s \in Slot, Progress(s) PROVE Guarded'
  BY <1>2, AgentStepGuards, RunChecksGuards, UnblockGuards, ApprovalsGuard, SurfacesGuards, OutsideGuards
     DEF Progress
<1> QED
  BY <1>1, <1>2, PeopleGuards DEF Next

LEMMA GuardedInit == Init => Guarded
<1> SUFFICES ASSUME Init PROVE Guarded
  OBVIOUS
<1>1. Stopping /\ Untoggled
  BY DEF Init, InitJobs, InitLedger, Stopping, Untoggled, Idle
<1>2. Watching
  BY DEF Init, InitJobs, InitLedger, Watching, WaitingIsWatched
<1> QED
  BY <1>1, <1>2 DEF Guarded

LEMMA AlwaysGuarded == ASSUME NeverBlocked PROVE Spec => [](Typed /\ Guarded)
<1>1. Init => Typed /\ Guarded
  BY TypedInit, GuardedInit
<1>2. Typed /\ Guarded /\ [Next]_vars => (Typed /\ Guarded)'
  BY TypedStep, GuardedStep
<1> QED
  BY <1>1, <1>2, PTL DEF Spec

\* Until a worker is revoked or a person types a state, a row that waits for a person
\* is watched: its announcement is on its way or a watcher will look at it or escalate
\* it, however the presses, the windows, the deadline sweep, the edits and the calls of
\* agents elsewhere interleave (inngest/functions/approvals.ts).  Where a sheet invariant
\* may block a move, the watcher's own escalation can be refused.
THEOREM WaitingRowsAreWatched ==
    ASSUME NeverBlocked
    PROVE  Spec => [](used.typed = 0 /\ came.toggles = 0 => WaitingIsWatched)
<1>1. Typed /\ Guarded => (used.typed = 0 /\ came.toggles = 0 => WaitingIsWatched)
  BY DEF Guarded, Watching
<1> QED
  BY <1>1, AlwaysGuarded, PTL

\* Revoking a worker stops the work (inngest/functions/revoke.ts): when all is quiet, no
\* row of a revoked worker is at work, in its check or before an approver, however often
\* they are revoked and let act again meanwhile.  Nobody else acts for the rows of a
\* worker who may be revoked, the person the escalation acts as may not be, and no
\* sheet invariant blocks it.
THEOREM RevokedRowsRest ==
    ASSUME NeverBlocked, NobodyElse
    PROVE  Spec => []RevokedIsAtRest
<1>1. Typed /\ Guarded => RevokedIsAtRest
  <2> SUFFICES ASSUME Typed, Guarded, Quiet, used.typed = 0, NEW r \in Row, Owner[r] \in revoked
               PROVE  state[r] \notin AtWorkStates
    BY DEF RevokedIsAtRest, AtWorkStates
  <2>1. Owner[r] \in Worker
    BY Parts DEF Ledgered, LedgerTypeOK
  <2>2. told[Owner[r]] = 0 /\ \A s \in Slot : job[s].fn = "idle"
    BY <2>1 DEF Quiet, Idle
  <2> QED
    BY <2>2 DEF Guarded, Stopping
<1> QED
  BY <1>1, AlwaysGuarded, PTL

-----------------------------------------------------------------------------
(* The baton.                                                              *)

\* Only the invocation in slot s goes on, or watchers are woken.
Local(s) ==
    \A t \in Slot \ {s} : job'[t] = job[t] \/ (job[t].fn = "approvals" /\ job'[t].fn = "approvals")

LEMMA WatchersHaveNone ==
    ASSUME NEW j, j.fn = "approvals", NEW r
    PROVE  ~Has(j, r) /\ ~Lists(j, r)
  BY DEF Has, Lists

\* What passes the baton of r on, or knows of it, is the same in both.
Alike(i, j, r) ==
    \/ ~Has(i, r) /\ ~Lists(i, r) /\ ~Has(j, r) /\ ~Lists(j, r)
    \/ /\ i.fn \in {"unblock", "contractRun"} /\ j.fn = i.fn
       /\ Has(j, r) <=> Has(i, r)
       /\ Lists(j, r) => Lists(i, r)

Unsent(r) ==
    /\ pending'["assigned"][r] = pending["assigned"][r]
    /\ pending'["completed_pending_check"][r] = pending["completed_pending_check"][r]

\* A step of others: at most it puts r before a person or closes it.
LEMMA Aside ==
    ASSUME NEW r \in Row, NEW s \in Slot, RowInv(r), Local(s), Alike(job[s], job'[s], r), Unsent(r),
           attempts'[r] = attempts[r], outputs'[r] = outputs[r], proven[r] \subseteq proven'[r],
           state'[r] \in {state[r], "escalated"} \/ (state[r] = "verified" /\ state'[r] = "done")
    PROVE  RowInv(r)'
<1>1. ASSUME NEW t \in Slot
      PROVE  /\ Has(job'[t], r) <=> Has(job[t], r)
             /\ Lists(job'[t], r) => Lists(job[t], r)
             /\ Has(job[t], r) => \/ job'[t] = job[t]
                                  \/ job[t].fn \in {"unblock", "contractRun"} /\ job'[t].fn = job[t].fn
  BY WatchersHaveNone, Zenon DEF Local, Alike
<1>2. OneBaton(r)'
  BY <1>1 DEF OneBaton, RowInv, NotSent, Unsent
<1>3. NotSent(r) <=> NotSent(r)'
  BY DEF NotSent, Unsent
<1>4. Free(r) <=> Free(r)'
  BY <1>1, <1>3 DEF Free
<1>5. Rests(r)'
  BY <1>1, <1>3, <1>4 DEF Rests, RowInv, Settled
<1>6. /\ MayTry(r) => MayTry(r)'
      /\ Tried(r) => Tried(r)'
      /\ Proven(r) => Proven(r)'
  BY DEF MayTry, Tried, Proven
<1>7. ASSUME NEW t \in Slot, Has(job[t], r), Knows(job[t], r) PROVE Knows(job[t], r)'
  BY <1>1, <1>6, <1>7 DEF Knows
<1>8. AgentsRow(r)'
  BY <1>1, <1>6, <1>7 DEF AgentsRow, RowInv, Unsent, Settled
<1> QED
  BY <1>2, <1>5, <1>8 DEF RowInv

\* Only slot s may have or be about to contract r.
Only(s, r) == \A t \in Slot \ {s} : ~Has(job[t], r) /\ ~Lists(job[t], r)

\* Where a row stands that has no baton.
Resting == {"drafted", "blocked"} \cup Settled

\* What holds of r when the baton is with slot s, or is about to be taken from there, or
\* was sent on.
Alone(s, r) ==
    /\ pending["assigned"][r] + pending["completed_pending_check"][r] <= 1
    /\ ~Lists(job[s], r)
    /\ Has(job[s], r) => NotSent(r)
    /\ state[r] \in Resting => NotSent(r) /\ ~Has(job[s], r)
    /\ state[r] \in {"drafted", "blocked"} => attempts[r] = 0
    /\ state[r] = "awaiting_approval" => NotSent(r) /\ (Has(job[s], r) => job[s].fn = "settle")
    /\ Owner[r] \notin Person =>
           /\ Tried(r)
           /\ pending["assigned"][r] = 1 => MayTry(r)
           /\ state[r] \in Settled \cup {"awaiting_approval"} => Proven(r)
           /\ Has(job[s], r) => Knows(job[s], r)

LEMMA AloneKeeps ==
    ASSUME NEW r \in Row, NEW s \in Slot, Local(s), Only(s, r), Alone(s, r)'
    PROVE  RowInv(r)'
<1>1. \A t \in Slot : t # s => ~Has(job'[t], r) /\ ~Lists(job'[t], r)
  BY WatchersHaveNone, Zenon DEF Local, Only
<1>2. OneBaton(r)'
  BY <1>1 DEF OneBaton, Alone
<1>3. Rests(r)'
  BY <1>1 DEF Rests, Alone, Resting, Free, Settled
<1>4. AgentsRow(r)'
  BY <1>1 DEF AgentsRow, Alone
<1> QED
  BY <1>2, <1>3, <1>4 DEF RowInv

\* Whoever has the baton is alone with the row, which is at work.
LEMMA Carrying ==
    ASSUME NEW r \in Row, NEW s \in Slot, RowInv(r), Has(job[s], r)
    PROVE  /\ Only(s, r) /\ Alone(s, r) /\ NotSent(r)
           /\ state[r] \notin Resting
           /\ state[r] = "awaiting_approval" => job[s].fn = "settle"
<1>1. ~Free(r) /\ NotSent(r)
  BY DEF RowInv, OneBaton, Free
<1>2. \A t \in Slot : ~Lists(job[t], r)
  BY <1>1 DEF RowInv, Rests
<1>3. \A t \in Slot \ {s} : ~Has(job[t], r)
  BY DEF RowInv, OneBaton
<1>4. state[r] \notin Resting /\ (state[r] = "awaiting_approval" => job[s].fn = "settle")
  BY <1>1 DEF RowInv, Rests, Resting
<1>5. Alone(s, r)
  BY <1>1, <1>2, <1>4 DEF RowInv, AgentsRow, OneBaton, Alone, Resting
<1> QED
  BY <1>1, <1>2, <1>3, <1>4, <1>5 DEF Only

\* An event that carries the baton finds nobody at the row, which is neither resting
\* nor before an approver.
LEMMA Taking ==
    ASSUME Typed, NEW r \in Row, NEW s \in Slot, RowInv(r),
           pending["assigned"][r] > 0 \/ pending["completed_pending_check"][r] > 0
    PROVE  /\ Only(s, r) /\ ~Has(job[s], r) /\ ~Lists(job[s], r)
           /\ state[r] \notin Resting \cup {"awaiting_approval"}
           /\ pending["assigned"][r] + pending["completed_pending_check"][r] = 1
<1>1. pending["assigned"][r] \in Nat /\ pending["completed_pending_check"][r] \in Nat
  BY DEF Typed, Pendings, EventName
<1>2. ~NotSent(r)
  BY <1>1 DEF NotSent
<1>3. \A t \in Slot : ~Has(job[t], r) /\ ~Lists(job[t], r)
  BY <1>2 DEF RowInv, OneBaton, Rests, Free
<1>4. state[r] \notin Resting \cup {"awaiting_approval"}
  BY <1>2 DEF RowInv, Rests, Resting, Free
<1>5. pending["assigned"][r] + pending["completed_pending_check"][r] = 1
  BY <1>1 DEF RowInv, OneBaton
<1> QED
  BY <1>3, <1>4, <1>5 DEF Only

\* The functions that have a baton all the while they run.
Carrier == {"agentStep", "runChecks", "settle"}

Batons == \A r \in Row : RowInv(r)

LEMMA CarrierKeeps ==
    ASSUME NEW s \in Slot, NEW q \in Row, job[s].row = q, job[s].fn \in Carrier, Batons, Local(s),
           job'[s] = Idle \/ (job'[s].fn = job[s].fn /\ job'[s].row = q),
           \A r \in Row \ {q} : /\ Unsent(r) /\ attempts'[r] = attempts[r]
                                /\ outputs'[r] = outputs[r] /\ proven[r] \subseteq proven'[r]
                                /\ state'[r] = state[r],
           Alone(s, q)'
    PROVE  Batons'
<1>1. RowInv(q)'
  <2>1. Has(job[s], q)
    BY DEF Has, Carrier
  <2> QED
    BY <2>1, Carrying, AloneKeeps DEF Batons
<1>2. ASSUME NEW r \in Row \ {q} PROVE RowInv(r)'
  <2>1. Alike(job[s], job'[s], r)
    BY DEF Alike, Has, Lists, Carrier, Idle
  <2> QED
    BY <2>1, Aside DEF Batons
<1> QED
  BY <1>1, <1>2 DEF Batons

\* What one knows of the row at which one is the carrier.
LEMMA CarrierKnows ==
    ASSUME Typed, NEW s \in Slot, NEW q \in Row, job[s].row = q, job[s].fn \in Carrier, Batons
    PROVE  /\ NotSent(q) /\ state[q] \notin Resting
           /\ state[q] = "awaiting_approval" => job[s].fn = "settle"
           /\ Owner[q] \notin Person => Tried(q) /\ Knows(job[s], q)
<1>1. Has(job[s], q)
  BY DEF Has, Carrier
<1> QED
  BY <1>1, Carrying DEF Batons, Alone

\* A carrier ends with a move: what it announces, if anything, is where it moved to.
LEMMA CarrierMoves ==
    ASSUME Typed, NEW s \in Slot, NEW q \in Row, job[s].row = q, job[s].fn \in Carrier, Batons,
           NEW to \in State \ {"drafted", "blocked", "in_progress", "done"}, NEW a,
           NEW name \in EventName \ {"assigned"},
           to \in {"verified", "awaiting_approval"} =>
               name # "completed_pending_check" /\ (Owner[q] \notin Person => Proven(q)),
           MoveThenSend(s, to, a, name) \/ MoveThenFinish(s, to, a)
    PROVE  Batons'
<1>1. Local(s) /\ job'[s] = Idle /\ UNCHANGED contents
  BY Ends DEF MoveThenSend, MoveThenFinish, Local, Typed, Jobbed
<1>2. /\ pending["assigned"][q] = 0 /\ pending["completed_pending_check"][q] = 0
      /\ pending \in [EventName -> [Row -> Nat]]
  BY CarrierKnows, Parts DEF NotSent, Pendings
<1>3. /\ \A r \in Row \ {q} : Unsent(r)
      /\ pending'["assigned"][q] = 0
      /\ \/ pending'["completed_pending_check"][q] = 0
         \/ /\ pending'["completed_pending_check"][q] = 1
            /\ name = "completed_pending_check" /\ Moved(q, to, a)
  <2>1. CASE Send(name, q) /\ Moved(q, to, a)
    <3>1. /\ pending'[name][q] = pending[name][q] + 1
          /\ \A n \in EventName, r \in Row : n # name \/ r # q => pending'[n][r] = pending[n][r]
      BY <1>2, <2>1, Sends
    <3>2. "assigned" \in EventName /\ "completed_pending_check" \in EventName
      BY DEF EventName
    <3> QED
      BY <1>2, <2>1, <3>1, <3>2 DEF Unsent
  <2>2. CASE UNCHANGED pending
    BY <1>2, <2>2 DEF Unsent
  <2> QED
    BY <2>1, <2>2 DEF MoveThenSend, MoveThenFinish
<1>4. /\ \A r \in Row \ {q} : state'[r] = state[r] /\ attempts'[r] = attempts[r]
      /\ attempts'[q] = attempts[q]
      /\ state'[q] \in {to, "escalated"} \/ (state'[q] = state[q] /\ ~Moved(q, to, a))
  <2>1. CASE Moved(q, to, a)
    BY <2>1, MovedEffect
  <2>2. CASE Refused(q, to, a) /\ ~Moved(q, to, a)
    BY <2>2 DEF Refused, ledgerVars
  <2> QED
    BY <2>1, <2>2 DEF MoveThenSend, MoveThenFinish
<1>5. ~Has(Idle, q) /\ ~Lists(Idle, q)
  BY DEF Has, Lists, Idle
<1>6. /\ Owner[q] \notin Person => Tried(q) /\ Tried(q)'
      /\ Proven(q) => Proven(q)'
  BY <1>1, <1>4, CarrierKnows DEF Tried, Proven, contents
<1>7. state'[q] \notin {"drafted", "blocked", "done"} /\ (state'[q] = "verified" => to = "verified")
  BY <1>4, CarrierKnows DEF Resting, Settled
<1>8. state'[q] \in {"verified", "awaiting_approval"} /\ Owner[q] \notin Person => Proven(q)
  <2>1. state[q] = "awaiting_approval" /\ Owner[q] \notin Person => Proven(q)
    BY CarrierKnows DEF Knows
  <2> QED
    BY <1>4, <1>7, <2>1
<1>9. state'[q] \in {"verified", "awaiting_approval"} => pending'["completed_pending_check"][q] = 0
  BY <1>3, <1>4, <1>7
<1>10. Alone(s, q)'
  BY <1>1, <1>3, <1>5, <1>6, <1>7, <1>8, <1>9 DEF Alone, NotSent, Resting, Settled
<1> QED
  BY <1>1, <1>3, <1>4, <1>10, CarrierKeeps DEF contents

\* An event is taken up: the baton goes from the event to the invocation.
LEMMA CarrierStarts ==
    ASSUME Typed, NEW s \in Slot, NEW q \in Row, Batons, Local(s), job[s] = Idle,
           NEW j, job'[s] = j, j.fn \in Carrier, j.row = q,
           NEW name \in {"assigned", "completed_pending_check"}, Take(name, q),
           UNCHANGED <<ledgerVars, contents>>,
           Owner[q] \notin Person /\ (pending["assigned"][q] = 1 => MayTry(q)) => Knows(j, q)
    PROVE  Batons'
<1>1. /\ pending \in [EventName -> [Row -> Nat]]
      /\ "assigned" \in EventName /\ "completed_pending_check" \in EventName
  BY Parts DEF Pendings, EventName
<1>2. /\ pending[name][q] > 0
      /\ pending'[name][q] = pending[name][q] - 1
      /\ \A n \in EventName, r \in Row : n # name \/ r # q => pending'[n][r] = pending[n][r]
  BY <1>1, Takes
<1>3. Only(s, q) /\ state[q] \notin Resting \cup {"awaiting_approval"}
  BY <1>2, Taking DEF Batons
<1>4. pending["assigned"][q] + pending["completed_pending_check"][q] = 1
  BY <1>2, Taking DEF Batons
<1>5. NotSent(q)'
  BY <1>1, <1>2, <1>4 DEF NotSent
<1>6. RowInv(q)'
  <2>1. ~Lists(job'[s], q)
    BY DEF Lists, Carrier
  <2>2. Owner[q] \notin Person => Tried(q) /\ (pending["assigned"][q] = 1 => MayTry(q))
    BY DEF Batons, RowInv, AgentsRow
  <2>3. Owner[q] \notin Person => Knows(job[s], q)'
    <3>1. Owner[q] \notin Person => Knows(j, q)
      BY <2>2
    <3> QED
      BY <3>1 DEF Knows, MayTry, Proven, ledgerVars, contents
  <2>4. Tried(q) <=> Tried(q)'
    BY DEF Tried, ledgerVars
  <2>5. Alone(s, q)'
    BY <1>3, <1>5, <2>1, <2>2, <2>3, <2>4 DEF Alone, NotSent, Resting, ledgerVars
  <2> QED
    BY <1>3, <2>5, AloneKeeps
<1>7. ASSUME NEW r \in Row \ {q} PROVE RowInv(r)'
  <2>1. Alike(job[s], job'[s], r)
    BY DEF Alike, Has, Lists, Carrier, Idle
  <2>2. Unsent(r)
    BY <1>1, <1>2 DEF Unsent
  <2> QED
    BY <2>1, <2>2, Aside DEF Batons, ledgerVars, contents
<1> QED
  BY <1>6, <1>7 DEF Batons

\* A carrier goes on without a move.
LEMMA CarrierGoes ==
    ASSUME Typed, NEW s \in Slot, NEW q \in Row, job[s].row = q, job[s].fn \in Carrier, Batons, Local(s),
           job'[s] = Idle \/ (job'[s].fn = job[s].fn /\ job'[s].row = q),
           UNCHANGED <<state, attempts, pending>>,
           \A r \in Row \ {q} : outputs'[r] = outputs[r],
           \A r \in Row : proven[r] \subseteq proven'[r],
           state[q] = "awaiting_approval" => outputs'[q] = outputs[q],
           Owner[q] \notin Person /\ Knows(job[s], q) /\ job'[s] # Idle => Knows(job[s], q)'
    PROVE  Batons'
<1>1. /\ NotSent(q) /\ state[q] \notin Resting
      /\ state[q] = "awaiting_approval" => job[s].fn = "settle"
      /\ Owner[q] \notin Person => Tried(q) /\ Knows(job[s], q)
  BY CarrierKnows
<1>2. ~Has(Idle, q) /\ ~Lists(Idle, q)
  BY DEF Has, Lists, Idle
<1>3. ~Lists(job'[s], q)
  BY <1>2 DEF Lists, Carrier
<1>4. Owner[q] \notin Person /\ state[q] = "awaiting_approval" => Proven(q)'
  BY <1>1 DEF Knows, Proven
<1>5. Tried(q) => Tried(q)'
  BY DEF Tried
<1>6. NotSent(q)'
  BY <1>1 DEF NotSent
<1>7. Alone(s, q)'
  BY <1>1, <1>2, <1>3, <1>4, <1>5, <1>6 DEF Alone, NotSent, Resting, Settled
<1>8. \A r \in Row : Unsent(r)
  BY DEF Unsent
<1> QED
  BY <1>7, <1>8, CarrierKeeps

\* The agent, or for a decision the person, starts: one attempt more.
LEMMA CarrierBegins ==
    ASSUME Typed, NEW s \in Slot, NEW q \in Row, job[s].row = q, job[s].fn = "agentStep", Batons,
           Local(s), UNCHANGED <<pending, contents>>,
           Owner[q] \notin Person => job[s].pc = "start",
           \/ /\ Moved(q, "in_progress", Owner[q])
              /\ job'[s].fn = "agentStep" /\ job'[s].row = q /\ job'[s].pc \in {"ready", "work"}
           \/ Refused(q, "in_progress", Owner[q]) /\ job'[s] = Idle
    PROVE  Batons'
<1>1. job[s].fn \in Carrier
  BY DEF Carrier
<1>2. /\ NotSent(q) /\ state[q] \notin Resting \cup {"awaiting_approval"}
      /\ Owner[q] \notin Person => Tried(q) /\ MayTry(q)
  <2>1. Owner[q] \notin Person => Knows(job[s], q)
    BY <1>1, CarrierKnows
  <2> QED
    BY <1>1, <2>1, CarrierKnows DEF Knows
<1>3. CASE Refused(q, "in_progress", Owner[q]) /\ job'[s] = Idle
  BY <1>1, <1>3, CarrierGoes DEF Refused, ledgerVars, contents
<1>4. CASE /\ Moved(q, "in_progress", Owner[q])
           /\ job'[s].fn = "agentStep" /\ job'[s].row = q /\ job'[s].pc \in {"ready", "work"}
  <2>1. /\ state'[q] \in {"in_progress", "escalated"}
        /\ attempts'[q] \in {attempts[q], attempts[q] + 1}
        /\ \A r \in Row \ {q} : state'[r] = state[r] /\ attempts'[r] = attempts[r]
    BY <1>4, MovedEffect DEF State
  <2>2. attempts[q] \in Nat /\ MaxAttempts[q] \in Nat
    BY Assumptions DEF Typed, Ledgered, LedgerTypeOK
  <2>3. Owner[q] \notin Person => Tried(q)'
    BY <1>2, <2>1, <2>2 DEF Tried, MayTry
  <2>4. Knows(job[s], q)'
    BY <1>4 DEF Knows
  <2>5. NotSent(q)' /\ pending'["assigned"][q] = 0 /\ pending'["completed_pending_check"][q] = 0
    BY <1>2 DEF NotSent
  <2>6. ~Lists(job'[s], q)
    BY <1>4 DEF Lists
  <2>7. Alone(s, q)'
    BY <2>1, <2>3, <2>4, <2>5, <2>6 DEF Alone, Resting, Settled
  <2>8. \A r \in Row : Unsent(r)
    BY DEF Unsent
  <2> QED
    BY <1>1, <1>4, <2>1, <2>7, <2>8, CarrierKeeps DEF contents
<1> QED
  BY <1>3, <1>4

LEMMA AgentStepBatons ==
    ASSUME Typed, Batons, NEW s \in Slot, AgentStepNext(s)
    PROVE  Batons'
<1> USE Parts
<1>1. ASSUME NEW r \in Row, StartAgentStep(s, r) PROVE Batons'
  <2> DEFINE j == [fn |-> "agentStep", row |-> r, pc |-> FirstStep(r), seen |-> NoOutputs]
  <2>1. Local(s) /\ job[s] = Idle /\ job'[s] = j
    BY <1>1 DEF StartAgentStep, Start, Local, Jobbed
  <2>2. Owner[r] \notin Person => FirstStep(r) \in {"unowned", "start"}
    BY DEF FirstStep
  <2>3. j.fn = "agentStep" /\ j.row = r /\ j.pc = FirstStep(r)
    OBVIOUS
  <2> HIDE DEF j
  <2>4. Owner[r] \notin Person /\ MayTry(r) => Knows(j, r)
    BY <2>2, <2>3 DEF Knows
  <2>5. pending["assigned"][r] > 0 /\ Take("assigned", r)
    BY <1>1 DEF StartAgentStep, Take
  <2>6. pending["assigned"][r] = 1
    <3>1. /\ pending["assigned"][r] \in Nat /\ pending["completed_pending_check"][r] \in Nat
          /\ pending["assigned"][r] + pending["completed_pending_check"][r] = 1
      BY <2>5, Taking DEF Batons, Pendings, EventName
    <3> QED
      BY <2>5, <3>1
  <2>7. UNCHANGED <<ledgerVars, contents>>
    BY <1>1 DEF StartAgentStep
  <2> QED
    BY <2>1, <2>3, <2>4, <2>5, <2>6, <2>7, CarrierStarts DEF Carrier
<1>2. ASSUME NEW q \in Row, job[s].row = q, job[s].fn = "agentStep",
             \/ Unowned(s) \/ Notify(s) \/ Decide(s) \/ Ready(s) \/ BeginWork(s)
             \/ Work(s) \/ WriteOutputs(s) \/ Submit(s) \/ GiveUp(s)
      PROVE  Batons'
  <2>0. job[s].fn \in Carrier /\ job[s].fn \notin Rowless
    BY <1>2 DEF Carrier, Rowless
  <2>1. Owner[q] \notin Person => Knows(job[s], q)
    BY <1>2, <2>0, CarrierKnows
  <2>2. CASE Unowned(s) \/ GiveUp(s)
    BY <1>2, <2>0, <2>2, CarrierMoves DEF Unowned, GiveUp, State, EventName
  <2>3. CASE Ready(s) \/ Submit(s)
    BY <1>2, <2>0, <2>3, CarrierMoves DEF Ready, Submit, State, EventName
  <2>4. CASE Notify(s)
    BY <1>2, <2>0, <2>4, Ends, CarrierGoes
       DEF Notify, Local, Jobbed, ledgerVars, contents
  <2>5. CASE Decide(s)
    <3>1. Owner[q] \in Person
      BY <1>2, <2>1, <2>5 DEF Decide, Running, Knows
    <3>2. UNCHANGED <<pending, contents>>
      BY <2>5 DEF Decide, MoveThenGoto
    <3>3. CASE Moved(q, "in_progress", Owner[q]) /\ Goto(s, "ready")
      <4>1. Local(s) /\ job'[s].fn = "agentStep" /\ job'[s].row = q /\ job'[s].pc = "ready"
        BY <1>2, <3>3, Goes DEF Local, Place
      <4> QED
        BY <1>2, <3>1, <3>2, <3>3, <4>1, CarrierBegins
    <3>4. CASE Refused(q, "in_progress", Owner[q]) /\ Finish(s)
      BY <1>2, <3>1, <3>2, <3>4, Ends, CarrierBegins DEF Local, Jobbed
    <3> QED
      BY <1>2, <2>5, <3>3, <3>4 DEF Decide, MoveThenGoto
  <2>6. CASE BeginWork(s)
    <3>1. UNCHANGED <<pending, contents>> /\ job[s].pc = "start"
      BY <2>6 DEF BeginWork, Running
    <3>2. ASSUME NEW seen, Moved(q, "in_progress", Owner[q]), Recall(s, "work", seen) PROVE Batons'
      <4>1. job[s] \in AgentJob
        BY <1>2, JobKinds DEF Jobbed
      <4>2. Local(s) /\ job'[s].fn = "agentStep" /\ job'[s].row = q /\ job'[s].pc = "work"
        BY <1>2, <3>2, <4>1 DEF Recall, Local, Jobbed, AgentJob
      <4> QED
        BY <1>2, <3>1, <3>2, <4>2, CarrierBegins
    <3>3. CASE Refused(q, "in_progress", Owner[q]) /\ Finish(s)
      BY <1>2, <3>1, <3>3, Ends, CarrierBegins DEF Local, Jobbed
    <3> QED
      BY <1>2, <2>6, <3>2, <3>3 DEF BeginWork
  <2>7. CASE Work(s) \/ WriteOutputs(s)
    <3>1. PICK pc \in Place \ {"decide", "start"} : Goto(s, pc)
      BY <2>7 DEF Work, WriteOutputs, Place
    <3>2. /\ Local(s) /\ job'[s].fn = "agentStep" /\ job'[s].row = q /\ job'[s].pc = pc
      BY <1>2, <3>1, Goes DEF Local
    <3>3. UNCHANGED <<state, attempts, pending, proven>> /\ \A r \in Row \ {q} : outputs'[r] = outputs[r]
      BY <1>2, <2>7 DEF Work, WriteOutputs, ledgerVars, contents, Contained
    <3>4. state[q] # "awaiting_approval"
      BY <1>2, <2>0, CarrierKnows
    <3>5. Knows(job[s], q)'
      BY <3>2 DEF Knows
    <3> QED
      BY <1>2, <2>0, <3>2, <3>3, <3>4, <3>5, CarrierGoes
  <2> QED
    BY <1>2, <2>2, <2>3, <2>4, <2>5, <2>6, <2>7
<1>3. ASSUME job[s].fn = "agentStep" PROVE job[s].row \in Row
  BY <1>3, JobRow DEF Jobbed, Rowless
<1> QED
  BY <1>1, <1>2, <1>3 DEF AgentStepNext, Unowned, Notify, Decide, Ready, BeginWork, Work, WriteOutputs,
                          Submit, GiveUp, Running

\* A check or an approver hands the row back; assigned again, it has an attempt left.
LEMMA CarrierHandsBack ==
    ASSUME Typed, NEW s \in Slot, NEW q \in Row, job[s].row = q, job[s].fn \in Carrier, Batons,
           Local(s), UNCHANGED contents, NEW a, Moved(q, "handed_back", a),
           \/ /\ job'[s] = Idle /\ Send("assigned", q)
              /\ Owner[q] \notin Person => attempts[q] < MaxAttempts[q]
           \/ job'[s] = Idle /\ UNCHANGED pending
           \/ /\ job[s].fn = "runChecks" /\ UNCHANGED pending
              /\ job'[s].fn = "runChecks" /\ job'[s].row = q /\ job'[s].pc = "exhausted"
              /\ job'[s].seen = job[s].seen
    PROVE  Batons'
<1>1. /\ state'[q] \in {"handed_back", "escalated"}
      /\ attempts'[q] = attempts[q]
      /\ \A r \in Row \ {q} : state'[r] = state[r] /\ attempts'[r] = attempts[r]
  BY MovedEffect DEF State
<1>2. /\ NotSent(q)
      /\ Owner[q] \notin Person => Tried(q) /\ Tried(q)' /\ Knows(job[s], q)
  BY <1>1, CarrierKnows DEF Tried
<1>3. /\ \A r \in Row \ {q} : Unsent(r)
      /\ pending'["completed_pending_check"][q] = 0
      /\ \/ pending'["assigned"][q] = 0
         \/ /\ pending'["assigned"][q] = 1 /\ job'[s] = Idle
            /\ Owner[q] \notin Person => MayTry(q)'
  <2>1. CASE UNCHANGED pending
    BY <1>2, <2>1 DEF NotSent, Unsent
  <2>2. CASE /\ job'[s] = Idle /\ Send("assigned", q)
             /\ Owner[q] \notin Person => attempts[q] < MaxAttempts[q]
    <3>1. /\ pending \in [EventName -> [Row -> Nat]]
          /\ "assigned" \in EventName /\ "completed_pending_check" \in EventName
      BY Parts DEF Pendings, EventName
    <3>2. /\ pending'["assigned"][q] = pending["assigned"][q] + 1
          /\ \A n \in EventName, r \in Row : n # "assigned" \/ r # q => pending'[n][r] = pending[n][r]
      BY <2>2, <3>1, Sends
    <3>3. Owner[q] \notin Person => MayTry(q)'
      BY <1>1, <2>2 DEF MayTry
    <3> QED
      BY <1>2, <2>2, <3>1, <3>2, <3>3 DEF NotSent, Unsent
  <2> QED
    BY <2>1, <2>2
<1>4. /\ ~Has(Idle, q) /\ ~Lists(Idle, q)
      /\ ~Lists(job'[s], q)
  BY DEF Has, Lists, Idle
<1>5. Owner[q] \notin Person /\ job'[s] # Idle => Knows(job[s], q)'
  BY <1>1, <1>2 DEF Knows, contents
<1>6. Alone(s, q)'
  BY <1>1, <1>2, <1>3, <1>4, <1>5 DEF Alone, NotSent, Resting, Settled
<1> QED
  BY <1>1, <1>3, <1>6, CarrierKeeps DEF contents

LEMMA RunChecksBatons ==
    ASSUME Typed, Batons, NEW s \in Slot, RunChecksNext(s)
    PROVE  Batons'
<1> USE Parts
<1>1. ASSUME NEW r \in Row, StartRunChecks(s, r) PROVE Batons'
  <2> DEFINE j == [fn |-> "runChecks", row |-> r, pc |-> "check",
                   seen |-> [attempts |-> attempts[r], inputs |-> inputs[r], outputs |-> outputs[r]]]
  <2>1. Local(s) /\ job[s] = Idle /\ job'[s] = j
    BY <1>1 DEF StartRunChecks, Start, Local, Jobbed
  <2>2. j.fn = "runChecks" /\ j.row = r /\ Knows(j, r)
    BY DEF Knows
  <2> HIDE DEF j
  <2>3. Take("completed_pending_check", r) /\ UNCHANGED <<ledgerVars, contents>>
    BY <1>1 DEF StartRunChecks
  <2> QED
    BY <2>1, <2>2, <2>3, CarrierStarts DEF Carrier
<1>2. ASSUME NEW q \in Row, job[s].row = q, job[s].fn = "runChecks",
             \/ Check(s) \/ Await(s) \/ Verify(s) \/ Restore(s) \/ HandBack(s) \/ Exhausted(s)
      PROVE  Batons'
  <2>0. job[s].fn \in Carrier /\ job[s].fn \notin Rowless
    BY <1>2 DEF Carrier, Rowless
  <2>1. Owner[q] \notin Person =>
            /\ Knows(job[s], q)
            /\ job[s].seen.outputs = outputs[q] /\ job[s].seen.attempts = attempts[q]
            /\ job[s].pc \in {"verify", "await"} => Proven(q)
    BY <1>2, <2>0, CarrierKnows DEF Knows
  <2>2. CASE Exhausted(s)
    BY <1>2, <2>0, <2>2, CarrierMoves DEF Exhausted, State, EventName
  <2>3. CASE Await(s) \/ Verify(s)
    BY <1>2, <2>0, <2>1, <2>3, CarrierMoves DEF Await, Verify, Running, State, EventName
  <2>4. CASE Check(s) \/ Restore(s)
    <3>1. PICK pc \in Place : Goto(s, pc)
      BY <2>4 DEF Check, Restore, Place
    <3>2. /\ Local(s) /\ job'[s].fn = "runChecks" /\ job'[s].row = q /\ job'[s].pc = pc
          /\ job'[s].seen = job[s].seen
      BY <1>2, <3>1, Goes DEF Local
    <3>3. UNCHANGED <<state, attempts, pending, outputs>>
      BY <2>4 DEF Check, Restore, RecordPass, ledgerVars
    <3>4. /\ \A r \in Row : proven[r] \subseteq proven'[r]
          /\ pc \in {"verify", "await"} => job[s].seen.outputs \in proven'[q]
      <4>1. CASE Restore(s)
        <5>1. Goto(s, "handback") /\ UNCHANGED proven
          BY <4>1 DEF Restore
        <5>2. pc = "handback"
          BY <1>2, <3>2, <5>1, Goes DEF Place
        <5> QED
          BY <5>1, <5>2
      <4>2. CASE proven' = [proven EXCEPT ![q] = @ \cup {job[s].seen.outputs}]
        BY <4>2 DEF Contained
      <4>3. CASE Goto(s, "restore") /\ UNCHANGED proven
        <5>1. pc = "restore"
          BY <1>2, <3>2, <4>3, Goes DEF Place
        <5> QED
          BY <4>3, <5>1
      <4> QED
        BY <1>2, <2>4, <4>1, <4>2, <4>3 DEF Check
    <3>5. Owner[q] \notin Person => Knows(job[s], q)'
      BY <1>2, <2>1, <3>2, <3>3, <3>4 DEF Knows, Proven
    <3> QED
      BY <1>2, <2>0, <3>2, <3>3, <3>4, <3>5, CarrierGoes
  <2>5. CASE HandBack(s)
    <3> DEFINE a == OwnerOrMaya(q)
    <3>1. UNCHANGED contents /\ job[s].pc = "handback"
      BY <2>5 DEF HandBack, Running
    <3>2. CASE Moved(q, "handed_back", a) /\ AttemptsLeft(q, job[s].seen.attempts)
               /\ Send("assigned", q) /\ Finish(s)
      <4>1. Local(s) /\ job'[s] = Idle
        BY <3>2, Ends DEF Local, Jobbed
      <4>2. Owner[q] \notin Person => attempts[q] < MaxAttempts[q]
        BY <2>1, <3>2 DEF AttemptsLeft
      <4> QED
        BY <1>2, <2>0, <3>1, <3>2, <4>1, <4>2, CarrierHandsBack
    <3>3. CASE Moved(q, "handed_back", a) /\ UNCHANGED pending /\ Goto(s, "exhausted")
      <4>1. /\ Local(s) /\ job'[s].fn = "runChecks" /\ job'[s].row = q /\ job'[s].pc = "exhausted"
            /\ job'[s].seen = job[s].seen
        BY <1>2, <3>3, Goes DEF Local, Place
      <4> QED
        BY <1>2, <2>0, <3>1, <3>3, <4>1, CarrierHandsBack
    <3>4. CASE Refused(q, "handed_back", a) /\ UNCHANGED pending /\ Finish(s)
      BY <1>2, <2>0, <3>1, <3>4, Ends, CarrierGoes
         DEF Local, Jobbed, Refused, ledgerVars, contents
    <3> QED
      BY <1>2, <2>5, <3>2, <3>3, <3>4 DEF HandBack
  <2> QED
    BY <1>2, <2>2, <2>3, <2>4, <2>5
<1>3. ASSUME job[s].fn = "runChecks" PROVE job[s].row \in Row
  BY <1>3, JobRow DEF Jobbed, Rowless
<1> QED
  BY <1>1, <1>2, <1>3 DEF RunChecksNext, Check, Await, Verify, Restore, HandBack, Exhausted, Running

\* The functions that never have a baton.
Bystander == {"idle", "approvals", "deadlines", "toggle", "revoke"}

LEMMA BystanderKeeps ==
    ASSUME NEW s \in Slot, Batons, Local(s), job[s].fn \in Bystander, job'[s].fn \in Bystander,
           \A r \in Row : Unsent(r) /\ attempts'[r] = attempts[r] /\ state'[r] \in {state[r], "escalated"},
           UNCHANGED contents
    PROVE  Batons'
<1>1. ASSUME NEW r \in Row PROVE RowInv(r)'
  <2>1. Alike(job[s], job'[s], r)
    BY DEF Alike, Has, Lists, Bystander
  <2> QED
    BY <2>1, Aside DEF Batons, contents
<1> QED
  BY <1>1 DEF Batons

LEMMA Escalating ==
    ASSUME Typed, NEW r \in Row, NEW a, Moved(r, "escalated", a) \/ Refused(r, "escalated", a)
    PROVE  \A q \in Row : attempts'[q] = attempts[q] /\ state'[q] \in {state[q], "escalated"}
<1>1. CASE Moved(r, "escalated", a)
  BY <1>1, MovedEffect DEF State
<1>2. CASE Refused(r, "escalated", a)
  BY <1>2 DEF Refused, ledgerVars
<1> QED
  BY <1>1, <1>2

\* A watcher never has a baton; a press that approves what passed, or hands it back, does.
LEMMA ApprovalsBatons ==
    ASSUME Typed, Batons, NEW s \in Slot, ApprovalsStep(s)
    PROVE  Batons'
<1> USE Parts
<1>1. ASSUME NEW r \in Row, StartWatch(s, r) PROVE Batons'
  <2>1. Local(s) /\ job[s].fn = "idle" /\ job'[s].fn = "approvals"
    BY <1>1 DEF StartWatch, Start, Local, Jobbed, Idle
  <2>2. \A q \in Row : Unsent(q)
    BY <1>1, Takes DEF StartWatch, Pendings, Unsent, EventName
  <2> QED
    BY <1>1, <2>1, <2>2, BystanderKeeps DEF StartWatch, ledgerVars, Bystander
<1>2. ASSUME Local(s), job[s].fn = "approvals", job'[s].fn \in {"idle", "approvals"}, UNCHANGED <<pending, contents>>,
             \A q \in Row : attempts'[q] = attempts[q] /\ state'[q] \in {state[q], "escalated"}
      PROVE  Batons'
  BY <1>2, BystanderKeeps DEF Unsent, Bystander
<1>3. CASE WindowCloses(s)
  BY <1>2, <1>3, Goes DEF WindowCloses, Running, Local, Place, ledgerVars
<1>4. CASE Look(s)
  <2>1. job[s].fn = "approvals" /\ UNCHANGED <<ledgerVars, pending, contents>>
    BY <1>4 DEF Look
  <2>2. Local(s) /\ job'[s].fn \in {"idle", "approvals"}
    <3>1. CASE Finish(s)
      BY <3>1, Ends DEF Local, Jobbed, Idle
    <3>2. CASE Goto(s, "escalate")
      BY <2>1, <3>2, Goes DEF Local, Place
    <3>3. ASSUME NEW pc, NEW seen, Recall(s, pc, seen) PROVE Local(s) /\ job'[s].fn = "approvals"
      <4>1. job[s] \in WatchJob
        BY <2>1, JobKinds DEF Jobbed
      <4> QED
        BY <2>1, <3>3, <4>1 DEF Recall, Jobbed, WatchJob, Local
    <3> QED
      BY <1>4, <3>1, <3>2, <3>3 DEF Look
  <2> QED
    BY <1>2, <2>1, <2>2 DEF ledgerVars
<1>5. CASE StopWaiting(s)
  <2>1. job[s].fn = "approvals" /\ job[s].row \in Row
    BY <1>5, JobRow DEF StopWaiting, Running, Jobbed, Rowless
  <2>2. Local(s) /\ job'[s].fn = "idle" /\ UNCHANGED <<pending, contents>>
    BY <1>5, Ends DEF StopWaiting, MoveThenFinish, Jobbed, Local, Idle
  <2> QED
    BY <1>2, <1>5, <2>1, <2>2, Escalating DEF StopWaiting, MoveThenFinish
<1>6. ASSUME NEW q \in Row, job[s].row = q, job[s].fn = "settle",
             \/ LoadSettle(s) \/ Reason(s) \/ RecordApproval(s) \/ VerifyApproved(s) \/ HandBackDecided(s)
      PROVE  Batons'
  <2>0. job[s].fn \in Carrier /\ job[s].fn \notin Rowless
    BY <1>6 DEF Carrier, Rowless
  <2>1. Owner[q] \notin Person =>
            Proven(q) /\ Knows(job[s], q) /\ (job[s].pc # "load" => job[s].seen.attempts = attempts[q])
    BY <1>6, <2>0, CarrierKnows DEF Knows
  <2>2. CASE LoadSettle(s)
    <3>1. UNCHANGED <<ledgerVars, pending, contents>>
      BY <2>2 DEF LoadSettle
    <3>2. CASE Finish(s)
      BY <1>6, <2>0, <3>1, <3>2, Ends, CarrierGoes DEF Local, Jobbed, ledgerVars, contents
    <3>3. CASE Recall(s, "reason", [job[s].seen EXCEPT !.attempts = attempts[q]])
      <4>1. job[s] \in SettleJob
        BY <1>6, JobKinds DEF Jobbed
      <4>2. [job[s].seen EXCEPT !.attempts = attempts[q]].attempts = attempts[q]
        BY <4>1 DEF SettleJob
      <4>3. PICK seen : seen = [job[s].seen EXCEPT !.attempts = attempts[q]]
        OBVIOUS
      <4>4. /\ Local(s) /\ job'[s].fn = "settle" /\ job'[s].row = q
            /\ job'[s].seen = seen
        <5>1. Recall(s, "reason", seen)
          BY <3>3, <4>3
        <5> QED
          BY <1>6, <4>1, <5>1 DEF Recall, Jobbed, SettleJob, Local
      <4>5. Owner[q] \notin Person => Knows(job[s], q)'
        BY <2>1, <3>1, <4>2, <4>3, <4>4 DEF Knows, Proven, ledgerVars, contents
      <4> QED
        BY <1>6, <2>0, <3>1, <4>4, <4>5, CarrierGoes DEF ledgerVars, contents
    <3> QED
      BY <1>6, <2>2, <3>2, <3>3 DEF LoadSettle
  <2>3. CASE Reason(s) \/ RecordApproval(s)
    <3>1. PICK pc \in Place : Goto(s, pc)
      BY <2>3 DEF Reason, RecordApproval, Place
    <3>2. /\ Local(s) /\ job'[s].fn = "settle" /\ job'[s].row = q
          /\ job'[s].seen = job[s].seen
      BY <1>6, <3>1, Goes DEF Local
    <3>3. UNCHANGED <<state, attempts, pending, contents>> /\ job[s].pc # "load"
      BY <2>3 DEF Reason, RecordApproval, RecordPass, Running
    <3>4. Owner[q] \notin Person => Knows(job[s], q)'
      BY <2>1, <3>2, <3>3 DEF Knows, Proven, contents
    <3> QED
      BY <1>6, <2>0, <3>2, <3>3, <3>4, CarrierGoes DEF contents
  <2>4. CASE VerifyApproved(s)
    BY <1>6, <2>0, <2>1, <2>4, CarrierMoves DEF VerifyApproved, State, EventName
  <2>5. CASE HandBackDecided(s)
    <3> DEFINE a == job[s].seen.actor
    <3>1. UNCHANGED contents /\ job[s].pc = "handback" /\ Local(s) /\ job'[s] = Idle
      BY <2>5, Ends DEF HandBackDecided, Running, Local, Jobbed
    <3>2. CASE Moved(q, "handed_back", a) /\ AttemptsLeft(q, job[s].seen.attempts) /\ Send("assigned", q)
      <4>1. Owner[q] \notin Person => attempts[q] < MaxAttempts[q]
        BY <2>1, <3>1, <3>2 DEF AttemptsLeft
      <4> QED
        BY <1>6, <2>0, <3>1, <3>2, <4>1, CarrierHandsBack
    <3>3. CASE Moved(q, "handed_back", a) /\ UNCHANGED pending
      BY <1>6, <2>0, <3>1, <3>3, CarrierHandsBack
    <3>4. CASE Refused(q, "handed_back", a) /\ UNCHANGED pending
      BY <1>6, <2>0, <3>1, <3>4, CarrierGoes DEF Refused, ledgerVars, contents
    <3> QED
      BY <1>6, <2>5, <3>2, <3>3, <3>4 DEF HandBackDecided
  <2> QED
    BY <1>6, <2>2, <2>3, <2>4, <2>5
<1>7. ASSUME job[s].fn = "settle" PROVE job[s].row \in Row
  BY <1>7, JobRow DEF Jobbed, Rowless
<1> QED
  BY <1>1, <1>3, <1>4, <1>5, <1>6, <1>7
     DEF ApprovalsStep, LoadSettle, Reason, RecordApproval, VerifyApproved, HandBackDecided, Running

\* The functions that contract several rows and then announce them.
Batch == {"unblock", "contractRun"}

\* One more row of the batch is contracted, which nobody else has or is about to.
LEMMA BatchGains ==
    ASSUME Typed, NEW s \in Slot, NEW r \in Row, NEW a, job[s].fn \in Batch, Batons, Local(s),
           Moved(r, "contracted", a), Only(s, r), NotSent(r), Owner[r] \notin Person => MayTry(r),
           UNCHANGED <<pending, contents>>,
           job'[s].fn = job[s].fn, Has(job'[s], r), ~Lists(job'[s], r),
           \A q \in Row \ {r} : /\ Has(job'[s], q) <=> Has(job[s], q)
                                /\ Lists(job'[s], q) => Lists(job[s], q)
    PROVE  Batons'
<1>1. /\ state'[r] \in {"contracted", "escalated"}
      /\ attempts'[r] = attempts[r]
      /\ \A q \in Row \ {r} : state'[q] = state[q] /\ attempts'[q] = attempts[q]
  BY MovedEffect DEF State
<1>2. \A q \in Row : Unsent(q)
  BY DEF Unsent
<1>3. Owner[r] \notin Person => MayTry(r)'
  BY <1>1 DEF MayTry
<1>4. Owner[r] \notin Person => Tried(r)'
  <2>1. Owner[r] \notin Person => Tried(r)
    BY DEF Batons, RowInv, AgentsRow
  <2> QED
    BY <1>1, <2>1 DEF Tried
<1>5. Owner[r] \notin Person => Knows(job[s], r)'
  BY <1>3 DEF Knows, Batch
<1>6. NotSent(r)'
  BY DEF NotSent
<1>7. Alone(s, r)'
  BY <1>1, <1>3, <1>4, <1>5, <1>6 DEF Alone, NotSent, Resting, Settled
<1>8. RowInv(r)'
  BY <1>7, AloneKeeps
<1>9. ASSUME NEW q \in Row \ {r} PROVE RowInv(q)'
  <2>1. Alike(job[s], job'[s], q)
    BY DEF Alike, Batch
  <2> QED
    BY <1>1, <1>2, <2>1, Aside DEF Batons, contents
<1> QED
  BY <1>8, <1>9 DEF Batons

\* The rows of the batch are announced.
LEMMA BatchSends ==
    ASSUME Typed, NEW s \in Slot, NEW rows, job[s].fn \in Batch, Batons, Local(s),
           UNCHANGED <<ledgerVars, contents>>,
           pending' = [pending EXCEPT !["assigned"] = [r \in Row |-> @[r] + IF r \in rows THEN 1 ELSE 0]],
           \A r \in Row : /\ Has(job[s], r) <=> r \in rows
                          /\ ~Lists(job[s], r) /\ ~Has(job'[s], r) /\ ~Lists(job'[s], r)
    PROVE  Batons'
<1>1. /\ \A q \in Row :
             pending'["assigned"][q] = pending["assigned"][q] + IF q \in rows THEN 1 ELSE 0
      /\ \A n \in EventName \ {"assigned"} : pending'[n] = pending[n]
  BY SendsAll, Parts DEF Pendings
<1>2. \A q \in Row : /\ pending["assigned"][q] \in Nat
                     /\ pending'["completed_pending_check"][q] = pending["completed_pending_check"][q]
  BY <1>1, Parts DEF Pendings, EventName
<1>3. ASSUME NEW r \in Row, r \in rows PROVE RowInv(r)'
  <2>1. Has(job[s], r)
    BY <1>3
  <2>2. /\ Only(s, r) /\ Alone(s, r) /\ NotSent(r)
        /\ state[r] \notin Resting \cup {"awaiting_approval"}
    BY <2>1, Carrying DEF Batons, Batch
  <2>3. pending'["assigned"][r] = 1 /\ pending'["completed_pending_check"][r] = 0
    BY <1>1, <1>2, <1>3, <2>2 DEF NotSent
  <2>4. Owner[r] \notin Person => Tried(r)' /\ MayTry(r)'
    BY <2>1, <2>2 DEF Alone, Knows, Batch, Tried, MayTry, ledgerVars
  <2>5. ~Has(job'[s], r) /\ ~Lists(job'[s], r)
    OBVIOUS
  <2>6. Alone(s, r)'
    BY <2>2, <2>3, <2>4, <2>5 DEF Alone, Resting, Settled, ledgerVars
  <2> QED
    BY <2>2, <2>6, AloneKeeps
<1>4. ASSUME NEW r \in Row, r \notin rows PROVE RowInv(r)'
  <2>1. Alike(job[s], job'[s], r)
    BY <1>4 DEF Alike
  <2>2. Unsent(r)
    BY <1>1, <1>2, <1>4 DEF Unsent
  <2> QED
    BY <2>1, <2>2, Aside DEF Batons, ledgerVars, contents
<1> QED
  BY <1>3, <1>4 DEF Batons

LEMMA UnblockBatons ==
    ASSUME Typed, Batons, NEW s \in Slot, UnblockNext(s), ReleasedFromBlocked
    PROVE  Batons'
<1> USE Parts
<1>1. ASSUME Local(s), \A r \in Row : /\ ~Has(job[s], r) /\ ~Lists(job[s], r)
                                      /\ ~Has(job'[s], r) /\ ~Lists(job'[s], r)
                                      /\ Unsent(r) /\ attempts'[r] = attempts[r]
                                      /\ \/ state'[r] \in {state[r], "escalated"}
                                         \/ state[r] = "verified" /\ state'[r] = "done",
             UNCHANGED contents
      PROVE  Batons'
  BY <1>1, Aside DEF Alike, Batons, contents
<1>2. ASSUME NEW r \in Row, StartUnblock(s, r) PROVE Batons'
  <2>1. /\ Local(s) /\ job[s] = Idle
        /\ job'[s] = [fn |-> "unblock", row |-> r, pc |-> "close", seen |-> [ready |-> {}, released |-> {}]]
    BY <1>2 DEF StartUnblock, Start, Local, Jobbed
  <2>2. \A q \in Row : ~Has(job[s], q) /\ ~Lists(job[s], q) /\ ~Has(job'[s], q) /\ ~Lists(job'[s], q)
    BY <2>1 DEF Has, Lists, Idle
  <2>3. \A q \in Row : Unsent(q)
    BY <1>2, Takes DEF StartUnblock, Pendings, Unsent, EventName
  <2> QED
    BY <1>1, <1>2, <2>1, <2>2, <2>3 DEF StartUnblock, ledgerVars
<1>3. CASE Close(s)
  <2>1. job[s].fn = "unblock" /\ job[s].pc = "close" /\ job[s].row \in Row /\ UNCHANGED <<pending, contents>>
    BY <1>3, JobRow DEF Close, Running, Jobbed, Rowless
  <2>2. Local(s) /\ job'[s].fn = "unblock" /\ job'[s].pc = "find"
    BY <1>3, <2>1, Goes DEF Close, Local, Place
  <2>3. \A q \in Row : ~Has(job[s], q) /\ ~Lists(job[s], q) /\ ~Has(job'[s], q) /\ ~Lists(job'[s], q)
    BY <2>1, <2>2 DEF Has, Lists
  <2>4. \A r \in Row : /\ attempts'[r] = attempts[r]
                       /\ \/ state'[r] \in {state[r], "escalated"}
                          \/ state[r] = "verified" /\ state'[r] = "done"
    <3> DEFINE q == job[s].row
    <3>1. CASE Moved(q, "done", Requester)
      <4>1. /\ Permitted(q, "done", Requester) /\ state'[q] \in {"done", "escalated"}
            /\ attempts'[q] = attempts[q]
            /\ \A r \in Row \ {q} : state'[r] = state[r] /\ attempts'[r] = attempts[r]
        BY <2>1, <3>1, MovedEffect DEF State
      <4>2. state[q] \in State /\ "done" \in Edges[state[q]]
        BY <2>1, <4>1 DEF Permitted, Ledgered, LedgerTypeOK
      <4>3. state[q] = "verified"
        BY <4>2 DEF Edges, State
      <4> QED
        BY <4>1, <4>3
    <3>2. CASE Refused(q, "done", Requester)
      BY <3>2 DEF Refused, ledgerVars
    <3> QED
      BY <1>3, <3>1, <3>2 DEF Close
  <2> QED
    BY <1>1, <2>1, <2>2, <2>3, <2>4 DEF Unsent
<1>4. CASE Find(s)
  <2>1. /\ job[s].fn = "unblock" /\ job[s].pc = "find" /\ job[s] \in UnblockJob
        /\ UNCHANGED <<ledgerVars, pending, contents>>
    BY <1>4, JobKinds DEF Find, Running, Jobbed
  <2>2. \E ready : Recall(s, "release", [ready |-> ready, released |-> {}])
    BY <1>4 DEF Find
  <2>3. Local(s) /\ job'[s].fn = "unblock" /\ job'[s].seen.released = {}
    BY <2>1, <2>2 DEF Recall, Jobbed, UnblockJob, Local
  <2>4. \A q \in Row : ~Has(job[s], q) /\ ~Lists(job[s], q) /\ ~Has(job'[s], q) /\ ~Lists(job'[s], q)
    BY <2>1, <2>3 DEF Has, Lists
  <2> QED
    BY <1>1, <2>1, <2>3, <2>4 DEF Unsent, ledgerVars
<1>5. CASE Release(s)
  <2>1. /\ job[s].fn = "unblock" /\ job[s].pc = "release" /\ job[s] \in UnblockJob
        /\ UNCHANGED <<pending, contents>>
    BY <1>5, JobKinds DEF Release, Running, Jobbed
  <2>2. PICK r \in job[s].seen.ready :
           \/ /\ Moved(r, "contracted", Requester)
              /\ Recall(s, "release", [ready |-> job[s].seen.ready \ {r},
                                       released |-> job[s].seen.released \cup {r}])
           \/ /\ Refused(r, "contracted", Requester)
              /\ Recall(s, "release", [job[s].seen EXCEPT !.ready = @ \ {r}])
    BY <1>5 DEF Release
  <2>3. r \in Row
    BY <2>1 DEF UnblockJob
  <2>4. ASSUME NEW seen \in [ready : SUBSET Row, released : SUBSET Row], Recall(s, "release", seen)
        PROVE  /\ Local(s) /\ job'[s].fn = "unblock" /\ job'[s].seen = seen
               /\ \A q \in Row : /\ ~Lists(job[s], q) /\ ~Lists(job'[s], q)
                                 /\ Has(job[s], q) <=> q \in job[s].seen.released
                                 /\ Has(job'[s], q) <=> q \in seen.released
    <3>1. Local(s) /\ job'[s].fn = "unblock" /\ job'[s].pc = "release" /\ job'[s].seen = seen
      BY <2>1, <2>4 DEF Recall, Jobbed, UnblockJob, Local
    <3> QED
      BY <2>1, <3>1 DEF Has, Lists
  <2>5. ASSUME NEW seen \in [ready : SUBSET Row, released : SUBSET Row], Recall(s, "release", seen),
               Refused(r, "contracted", Requester), seen.released = job[s].seen.released
        PROVE  Batons'
    <3>1. \A q \in Row : Alike(job[s], job'[s], q)
      BY <2>1, <2>4, <2>5 DEF Alike
    <3> QED
      BY <2>1, <2>4, <2>5, <3>1, Aside DEF Batons, Unsent, Refused, ledgerVars, contents
  <2>6. ASSUME NEW seen \in [ready : SUBSET Row, released : SUBSET Row], Recall(s, "release", seen),
               Moved(r, "contracted", Requester), seen.released = job[s].seen.released \cup {r}
        PROVE  Batons'
    <3>1. CASE Has(job[s], r)
      <4>1. Only(s, r) /\ Alone(s, r) /\ NotSent(r)
        BY <2>3, <3>1, Carrying DEF Batons
      <4>2. Owner[r] \notin Person => MayTry(r)
        BY <2>1, <3>1, <4>1 DEF Alone, Knows
      <4> QED
        BY <2>1, <2>3, <2>4, <2>6, <4>1, <4>2, BatchGains DEF Batch
    <3>2. CASE ~Has(job[s], r)
      <4>1. r \in job'[s].seen.released \ job[s].seen.released
        BY <2>3, <2>4, <2>6, <3>2
      <4>2. state[r] = "blocked"
        BY <2>1, <2>3, <4>1 DEF ReleasedFromBlocked, Running
      <4>3. Free(r) /\ attempts[r] = 0 /\ \A t \in Slot : ~Lists(job[t], r)
        BY <2>3, <4>2 DEF Batons, RowInv, Rests
      <4>4. Only(s, r) /\ NotSent(r) /\ MayTry(r)
        BY <4>3 DEF Free, Only, MayTry
      <4> QED
        BY <2>1, <2>3, <2>4, <2>6, <4>4, BatchGains DEF Batch
    <3> QED
      BY <3>1, <3>2
  <2>7. CASE /\ Moved(r, "contracted", Requester)
             /\ Recall(s, "release", [ready |-> job[s].seen.ready \ {r},
                                      released |-> job[s].seen.released \cup {r}])
    <3> DEFINE seen == [ready |-> job[s].seen.ready \ {r}, released |-> job[s].seen.released \cup {r}]
    <3>1. seen \in [ready : SUBSET Row, released : SUBSET Row]
      BY <2>1, <2>3 DEF UnblockJob
    <3>2. seen.released = job[s].seen.released \cup {r}
      OBVIOUS
    <3> HIDE DEF seen
    <3>3. Recall(s, "release", seen)
      BY <2>7 DEF seen
    <3> QED
      BY <2>6, <2>7, <3>1, <3>2, <3>3
  <2>8. CASE /\ Refused(r, "contracted", Requester)
             /\ Recall(s, "release", [job[s].seen EXCEPT !.ready = @ \ {r}])
    <3> DEFINE seen == [job[s].seen EXCEPT !.ready = @ \ {r}]
    <3>1. seen \in [ready : SUBSET Row, released : SUBSET Row] /\ seen.released = job[s].seen.released
      BY <2>1 DEF UnblockJob
    <3> HIDE DEF seen
    <3>2. Recall(s, "release", seen)
      BY <2>8 DEF seen
    <3> QED
      BY <2>5, <2>8, <3>1, <3>2
  <2> QED
    BY <2>2, <2>7, <2>8
<1>6. CASE Assign(s)
  <2>0. PICK rows : rows = job[s].seen.released
    OBVIOUS
  <2>1. /\ job[s].fn = "unblock" /\ job[s].pc = "release" /\ UNCHANGED <<ledgerVars, contents>>
        /\ pending' = [pending EXCEPT !["assigned"] = [r \in Row |-> @[r] + IF r \in rows THEN 1 ELSE 0]]
    BY <1>6, <2>0 DEF Assign, Running
  <2>2. Local(s) /\ job'[s].fn = "unblock" /\ job'[s].pc = "close_run"
    BY <1>6, <2>1, Goes DEF Assign, Local, Place
  <2>3. \A r \in Row : /\ Has(job[s], r) <=> r \in rows
                       /\ ~Lists(job[s], r) /\ ~Has(job'[s], r) /\ ~Lists(job'[s], r)
    BY <2>0, <2>1, <2>2 DEF Has, Lists
  <2>4. job[s].fn \in Batch
    BY <2>1 DEF Batch
  <2> QED
    BY <2>1, <2>2, <2>3, <2>4, BatchSends, Zenon
<1>7. CASE CloseRun(s)
  <2>1. job[s].fn = "unblock" /\ job[s].pc = "close_run" /\ UNCHANGED <<ledgerVars, pending, contents>>
    BY <1>7 DEF CloseRun, Running
  <2>2. Local(s) /\ job'[s] = Idle
    BY <1>7, Ends DEF CloseRun, Local, Jobbed
  <2>3. \A q \in Row : ~Has(job[s], q) /\ ~Lists(job[s], q) /\ ~Has(job'[s], q) /\ ~Lists(job'[s], q)
    BY <2>1, <2>2 DEF Has, Lists, Idle
  <2> QED
    BY <1>1, <2>1, <2>2, <2>3 DEF Unsent, ledgerVars
<1> QED
  BY <1>2, <1>3, <1>4, <1>5, <1>6, <1>7 DEF UnblockNext

\* Contracting the plan: what is listed is drafted, and is contracted once.
LEMMA ContractBatons ==
    ASSUME Typed, Batons, Few, NEW s \in Slot, Contract(s)
    PROVE  Batons'
<1> USE Parts
<1>1. /\ job[s] \in ContractJob /\ job[s].fn = "contractRun" /\ job[s].fn \in Batch
      /\ UNCHANGED <<pending, contents>>
  BY ContractStep DEF Batch
<1>2. PICK r \in job[s].seen.rows, target \in {"blocked", "contracted"}, started \in SUBSET Row :
         /\ \/ Moved(r, target, job[s].seen.actor)
               /\ started = job[s].seen.started \cup IF target = "blocked" THEN {} ELSE {r}
            \/ Refused(r, target, job[s].seen.actor) /\ started = job[s].seen.started
         /\ Recall(s, "rows", [actor |-> job[s].seen.actor, rows |-> job[s].seen.rows \ {r},
                               started |-> started])
  BY ContractStep
<1>3. r \in Row
  BY <1>1, <1>2 DEF ContractJob
<1>4. /\ Local(s) /\ job'[s].fn = "contractRun"
      /\ \A q \in Row : /\ Lists(job[s], q) <=> q \in job[s].seen.rows
                        /\ Lists(job'[s], q) <=> q \in job[s].seen.rows \ {r}
                        /\ Has(job[s], q) <=> q \in job[s].seen.started
                        /\ Has(job'[s], q) <=> q \in started
  <2>1. /\ Local(s) /\ job'[s].fn = "contractRun"
        /\ job'[s].seen.rows = job[s].seen.rows \ {r} /\ job'[s].seen.started = started
    BY <1>1, <1>2 DEF Recall, Jobbed, ContractJob, Local
  <2> QED
    BY <1>1, <2>1 DEF Has, Lists
<1>5. Free(r) /\ attempts[r] = 0 /\ Only(s, r)
  <2>1. Lists(job[s], r)
    BY <1>2, <1>3, <1>4
  <2>2. Free(r) /\ attempts[r] = 0
    BY <1>3, <2>1 DEF Batons, RowInv, Rests
  <2>3. \A t \in Slot : Lists(job[t], r) => t = s
    BY <1>1 DEF Few, Lists
  <2> QED
    BY <2>2, <2>3 DEF Free, Only
<1>6. ~Has(job[s], r) /\ r \notin job[s].seen.started /\ NotSent(r)
  BY <1>3, <1>4, <1>5 DEF Free
<1>7. \A q \in Row : Unsent(q)
  BY <1>1 DEF Unsent
<1>8. CASE Moved(r, "contracted", job[s].seen.actor) /\ started = job[s].seen.started \cup {r}
  <2>1. MayTry(r)
    BY <1>5 DEF MayTry
  <2>2. /\ Has(job'[s], r) /\ ~Lists(job'[s], r)
        /\ \A q \in Row \ {r} : /\ Has(job'[s], q) <=> Has(job[s], q)
                                /\ Lists(job'[s], q) => Lists(job[s], q)
    BY <1>3, <1>4, <1>8
  <2> QED
    BY <1>1, <1>3, <1>4, <1>5, <1>6, <1>8, <2>1, <2>2, BatchGains
<1>9. ASSUME started = job[s].seen.started, NEW q \in Row PROVE Alike(job[s], job'[s], q)
  BY <1>1, <1>4, <1>9 DEF Alike
<1>10. CASE Moved(r, "blocked", job[s].seen.actor) /\ started = job[s].seen.started
  <2>1. /\ state'[r] \in {"blocked", "escalated"} /\ attempts'[r] = 0
        /\ \A q \in Row \ {r} : state'[q] = state[q] /\ attempts'[q] = attempts[q]
    BY <1>3, <1>5, <1>10, MovedEffect DEF State
  <2>2. ~Has(job'[s], r) /\ ~Lists(job'[s], r)
    BY <1>3, <1>4, <1>6, <1>10
  <2>3. NotSent(r)' /\ Tried(r)'
    BY <1>1, <1>6, <2>1 DEF NotSent, Tried
  <2>4. Alone(s, r)'
    BY <2>1, <2>2, <2>3 DEF Alone, NotSent, Resting, Settled
  <2>5. RowInv(r)'
    BY <1>3, <1>4, <1>5, <2>4, AloneKeeps
  <2>6. ASSUME NEW q \in Row \ {r} PROVE RowInv(q)'
    BY <1>1, <1>4, <1>7, <1>9, <1>10, <2>1, Aside DEF Batons, contents
  <2> QED
    BY <2>5, <2>6 DEF Batons
<1>11. ASSUME Refused(r, target, job[s].seen.actor), started = job[s].seen.started PROVE Batons'
  BY <1>1, <1>4, <1>7, <1>9, <1>11, Aside DEF Batons, Refused, ledgerVars, contents
<1> QED
  BY <1>2, <1>8, <1>10, <1>11

LEMMA SurfacesBatons ==
    ASSUME Typed, Batons, Few, NEW s \in Slot, SurfacesStep(s)
    PROVE  Batons'
<1> USE Parts
<1>1. CASE SendContracted(s)
  <2>1. PICK rows : rows = job[s].seen.started
    OBVIOUS
  <2>2. /\ job[s].fn = "contractRun" /\ job[s].seen.rows = {} /\ UNCHANGED <<ledgerVars, contents>>
        /\ pending' = [pending EXCEPT !["assigned"] = [r \in Row |-> @[r] + IF r \in rows THEN 1 ELSE 0]]
    BY <1>1, <2>1 DEF SendContracted, Running
  <2>3. Local(s) /\ job'[s] = Idle
    BY <1>1, Ends DEF SendContracted, Local, Jobbed
  <2>4. \A r \in Row : /\ Has(job[s], r) <=> r \in rows
                       /\ ~Lists(job[s], r) /\ ~Has(job'[s], r) /\ ~Lists(job'[s], r)
    BY <2>1, <2>2, <2>3 DEF Has, Lists, Idle
  <2>5. job[s].fn \in Batch
    BY <2>2 DEF Batch
  <2> QED
    BY <2>2, <2>3, <2>4, <2>5, BatchSends, Zenon
<1>2. CASE Sweep(s)
  <2>1. job[s] \in SweepJob /\ job[s].fn = "deadlines" /\ UNCHANGED <<pending, contents>>
    BY <1>2, JobKinds DEF Sweep, Running, Jobbed
  <2>2. CASE job[s].seen.rows = {} /\ Finish(s) /\ UNCHANGED ledgerVars
    BY <2>1, <2>2, Ends, BystanderKeeps DEF Local, Jobbed, Idle, Bystander, Unsent, ledgerVars
  <2>3. ASSUME NEW r \in job[s].seen.rows,
               Moved(r, "escalated", EscalatorOf(r)) \/ Refused(r, "escalated", EscalatorOf(r)),
               Recall(s, "rows", [rows |-> job[s].seen.rows \ {r}])
        PROVE  Batons'
    <3>1. r \in Row
      BY <2>1 DEF SweepJob
    <3>2. Local(s) /\ job'[s].fn = "deadlines"
      BY <2>1, <2>3 DEF Recall, Jobbed, SweepJob, Local
    <3> QED
      BY <2>1, <2>3, <3>1, <3>2, Escalating, BystanderKeeps DEF Bystander, Unsent
  <2> QED
    BY <1>2, <2>2, <2>3 DEF Sweep
<1> QED
  BY <1>1, <1>2, ContractBatons DEF SurfacesStep, Few, EditHandsBack, EditEscalates, EditReassigns, Running

LEMMA OutsideBatons ==
    ASSUME Typed, Batons, Few, NEW s \in Slot, OutsideStep(s)
    PROVE  Batons'
<1> USE Parts
<1>1. CASE StoreStatus(s)
  <2>1. job[s].fn = "toggle" /\ UNCHANGED <<state, attempts, pending, contents>>
    BY <1>1 DEF StoreStatus, Running, ToggleStatus, ledgerVars
  <2> QED
    BY <1>1, <2>1, Ends, BystanderKeeps DEF StoreStatus, Local, Jobbed, Idle, Bystander, Unsent
<1>2. ASSUME NEW w \in Worker, StartRevoke(s, w) PROVE Batons'
  <2>1. Local(s) /\ job[s].fn = "idle" /\ job'[s].fn = "revoke"
    BY <1>2 DEF StartRevoke, Start, Local, Jobbed, Idle
  <2> QED
    BY <1>2, <2>1, BystanderKeeps DEF StartRevoke, Bystander, Unsent, ledgerVars
<1>3. CASE EscalateRevoked(s)
  <2>1. job[s] \in RevokeJob /\ job[s].fn = "revoke" /\ UNCHANGED <<pending, contents>>
    BY <1>3, JobKinds DEF EscalateRevoked, Running, Jobbed
  <2>2. CASE job[s].seen.rows = {} /\ Finish(s) /\ UNCHANGED ledgerVars
    BY <2>1, <2>2, Ends, BystanderKeeps DEF Local, Jobbed, Idle, Bystander, Unsent, ledgerVars
  <2>3. ASSUME NEW r \in job[s].seen.rows,
               Moved(r, "escalated", Maya) \/ Refused(r, "escalated", Maya),
               Recall(s, "rows", [rows |-> job[s].seen.rows \ {r}])
        PROVE  Batons'
    <3>1. r \in Row
      BY <2>1 DEF RevokeJob
    <3>2. Local(s) /\ job'[s].fn = "revoke"
      BY <2>1, <2>3 DEF Recall, Jobbed, RevokeJob, Local
    <3> QED
      BY <2>1, <2>3, <3>1, <3>2, Escalating, BystanderKeeps DEF Bystander, Unsent
  <2> QED
    BY <1>3, <2>2, <2>3 DEF EscalateRevoked
<1> QED
  BY <1>1, <1>2, <1>3
     DEF OutsideStep, Few, ClaimRow, AttachSent, SetOutputs, SubmitOutput, AskApproval, HandOff, ReadReply,
         HandBackReply, TimeOutChat, Running

\* What starts by itself; none of it is rare.
Steady == {"idle", "agentStep", "runChecks", "unblock", "approvals", "deadlines", "toggle", "revoke"}

\* How an invocation goes on, whatever the function.
GoesAnywhere(s) ==
    \/ \E pc : Goto(s, pc)
    \/ \E pc, seen : Recall(s, pc, seen)
    \/ Finish(s)
    \/ \E fn \in Steady : \E r, pc, seen : Start(s, fn, r, pc, seen)

LEMMA Stays ==
    ASSUME Typed, NEW s \in Slot, GoesAnywhere(s)
    PROVE  Local(s) /\ job'[s].fn \in {job[s].fn} \cup Steady
<1>1. job \in [Slot -> Job]
  BY DEF Typed, Jobbed
<1>2. ASSUME NEW j \in Job, NEW pc PROVE [j EXCEPT !.pc = pc].fn = j.fn
  BY SMTT(30) DEF Job, Idle, AgentJob, CheckJob, UnblockJob, WatchJob, SettleJob, ContractJob, EditJob,
         SweepJob, ToggleJob, RevokeJob, CallJob
<1>3. ASSUME NEW j \in Job, NEW pc, NEW seen PROVE [[j EXCEPT !.pc = pc] EXCEPT !.seen = seen].fn = j.fn
  BY SMTT(30) DEF Job, Idle, AgentJob, CheckJob, UnblockJob, WatchJob, SettleJob, ContractJob, EditJob,
         SweepJob, ToggleJob, RevokeJob, CallJob
<1>4. ASSUME NEW pc, Goto(s, pc) PROVE Local(s) /\ job'[s].fn = job[s].fn
  <2>1. job' = [job EXCEPT ![s] = [job[s] EXCEPT !.pc = pc]]
    BY <1>4 DEF Goto
  <2>2. Local(s) /\ job'[s] = [job[s] EXCEPT !.pc = pc]
    BY <1>1, <2>1 DEF Local
  <2> QED
    BY <1>1, <1>2, <2>2
<1>5. ASSUME NEW pc, NEW seen, Recall(s, pc, seen) PROVE Local(s) /\ job'[s].fn = job[s].fn
  <2>1. Local(s) /\ job'[s] = [[job[s] EXCEPT !.pc = pc] EXCEPT !.seen = seen]
    BY <1>1, <1>5 DEF Recall, Local
  <2> QED
    BY <1>1, <1>3, <2>1
<1>6. CASE Finish(s)
  BY <1>1, <1>6, Ends DEF Local, Steady, Idle
<1>7. ASSUME NEW fn \in Steady, NEW r, NEW pc, NEW seen, Start(s, fn, r, pc, seen)
      PROVE  Local(s) /\ job'[s].fn = fn
  BY <1>1, <1>7 DEF Start, Local
<1> QED
  BY <1>4, <1>5, <1>6, <1>7 DEF GoesAnywhere

LEMMA AgentStepGoes == ASSUME NEW s \in Slot, AgentStepNext(s) PROVE GoesAnywhere(s)
  BY Zenon DEF GoesAnywhere, Steady, AgentStepNext, StartAgentStep, Unowned, Notify, Decide, Ready, BeginWork,
     Work, WriteOutputs, Submit, GiveUp, MoveThenGoto, MoveThenSend, MoveThenFinish

LEMMA RunChecksGoes == ASSUME NEW s \in Slot, RunChecksNext(s) PROVE GoesAnywhere(s)
  BY Zenon DEF GoesAnywhere, Steady, RunChecksNext, StartRunChecks, Check, Await, Verify, Restore, HandBack,
     Exhausted, MoveThenSend, MoveThenFinish

LEMMA UnblockGoes == ASSUME NEW s \in Slot, UnblockNext(s) PROVE GoesAnywhere(s)
  BY Zenon DEF GoesAnywhere, Steady, UnblockNext, StartUnblock, Close, Find, Release, Assign, CloseRun

LEMMA ApprovalsGoes == ASSUME NEW s \in Slot, ApprovalsStep(s) PROVE GoesAnywhere(s)
  BY Zenon DEF GoesAnywhere, Steady, ApprovalsStep, StartWatch, WindowCloses, Look, StopWaiting, LoadSettle,
     Reason, RecordApproval, VerifyApproved, HandBackDecided, MoveThenSend, MoveThenFinish

LEMMA SurfacesGoes == ASSUME NEW s \in Slot, SurfacesStep(s) PROVE GoesAnywhere(s)
  BY Zenon DEF GoesAnywhere, Steady, SurfacesStep, Contract, SendContracted, EditHandsBack, EditEscalates,
     EditReassigns, Sweep

LEMMA OutsideGoes == ASSUME NEW s \in Slot, OutsideStep(s) PROVE GoesAnywhere(s)
  BY Zenon DEF GoesAnywhere, Steady, OutsideStep, StoreStatus, StartRevoke, EscalateRevoked, ClaimRow,
     AttachSent, SetOutputs, SubmitOutput, AskApproval, HandOff, ReadReply, HandBackReply, TimeOutChat,
     MoveThenSend, MoveThenFinish

LEMMA FewKeeps ==
    ASSUME Few, NEW s \in Slot, Local(s), job'[s].fn \in {job[s].fn} \cup Steady,
           UNCHANGED <<pressed, contracting>>
    PROVE  Few'
<1>1. \A t \in Slot : job'[t].fn = job[t].fn \/ job'[t].fn \in Steady
  BY DEF Local
<1> QED
  BY <1>1 DEF Few, Steady

LEMMA ContractingBatons ==
    ASSUME Typed, Batons, Few, NEW s \in Slot, NEW a \in Worker, StartContracting(s, a)
    PROVE  Batons' /\ (UNCHANGED pressed => Few')
<1> USE Parts
<1>1. /\ ~contracting /\ contracting' = TRUE /\ job[s] = Idle
      /\ UNCHANGED <<ledgerVars, pending, contents>>
      /\ \A t \in Slot \ {s} : job'[t] = job[t]
      /\ job'[s].fn = "contractRun" /\ job'[s].seen.started = {}
      /\ job'[s].seen.rows = {r \in Row : state[r] = "drafted"}
  BY DEF StartContracting, Jobbed
<1>2. \A t \in Slot : job[t].fn # "contractRun"
  BY <1>1 DEF Few
<1>3. UNCHANGED pressed => Few'
  BY <1>1, <1>2 DEF Few
<1>4. Local(s)
  BY <1>1 DEF Local
<1>5. \A r \in Row : Unsent(r)
  BY <1>1 DEF Unsent
<1>6. \A r \in Row : /\ ~Has(job[s], r) /\ ~Lists(job[s], r) /\ ~Has(job'[s], r)
                     /\ Lists(job'[s], r) <=> state[r] = "drafted"
  BY <1>1 DEF Has, Lists, Idle
<1>7. ASSUME NEW r \in Row, state[r] # "drafted" PROVE RowInv(r)'
  BY <1>1, <1>4, <1>5, <1>6, <1>7, Aside DEF Batons, Alike, ledgerVars, contents
<1>8. ASSUME NEW r \in Row, state[r] = "drafted" PROVE RowInv(r)'
  <2>1. Free(r) /\ attempts[r] = 0
    BY <1>8 DEF Batons, RowInv, Rests
  <2>2. \A t \in Slot : ~Has(job'[t], r)
    BY <1>1, <1>6, <2>1 DEF Free
  <2>3. NotSent(r)'
    BY <1>1, <2>1 DEF Free, NotSent
  <2>4. Free(r)'
    BY <2>2, <2>3 DEF Free
  <2>5. state'[r] = "drafted" /\ attempts'[r] = 0
    BY <1>1, <1>8, <2>1 DEF ledgerVars
  <2>6. OneBaton(r)'
    BY <2>2, <2>3 DEF OneBaton, NotSent
  <2>7. Rests(r)'
    BY <2>4, <2>5 DEF Rests
  <2>8. AgentsRow(r)'
    BY <2>2, <2>3, <2>5 DEF AgentsRow, NotSent, Tried, Settled
  <2> QED
    BY <2>6, <2>7, <2>8 DEF RowInv
<1> QED
  BY <1>3, <1>7, <1>8 DEF Batons

\* The one press there may be finds nobody at the row, and what it settles has passed.
LEMMA PressBatons ==
    ASSUME Typed, Batons, Few, NEW s \in Slot, NEW r \in Row, NEW a \in Worker, NEW decision \in Decision,
           Press(s, r, a, decision), pressed' <= 1
    PROVE  Batons' /\ (UNCHANGED contracting => Few')
<1> USE Parts
<1>1. pressed \in Nat /\ pressed = 0 /\ pressed' = 1
  BY Assumptions DEF Press, Others
<1>2. \A t \in Slot : job[t].fn # "settle"
  BY <1>1 DEF Few
<1>3. /\ job[s] = Idle /\ state[r] = "awaiting_approval"
      /\ UNCHANGED <<ledgerVars, pending, contents>>
      /\ job'[s].fn = "settle" /\ job'[s].row = r /\ job'[s].pc = "load"
  BY DEF Press, Deliver
<1>4. ASSUME NEW t \in Slot \ {s}
      PROVE  job'[t] = job[t] \/ (job[t].fn = "approvals" /\ job'[t].fn = "approvals")
  <2>1. CASE Running(t, "approvals", "wait") /\ job[t].row = r
    <3>1. job[t] \in WatchJob
      BY <2>1, JobKinds DEF Running, Jobbed
    <3>2. job'[t] = [job[t] EXCEPT !.pc = "woken"]
      BY <2>1 DEF Press, Deliver
    <3> QED
      BY <3>1, <3>2 DEF WatchJob
  <2>2. CASE ~(Running(t, "approvals", "wait") /\ job[t].row = r)
    BY <2>2 DEF Press, Deliver
  <2> QED
    BY <2>1, <2>2
<1>5. Local(s)
  BY <1>4 DEF Local
<1>6. UNCHANGED contracting => Few'
  BY <1>1, <1>3, <1>4 DEF Few
<1>7. ~Has(job[s], r) /\ ~Lists(job[s], r)
  BY <1>3 DEF Has, Lists, Idle
<1>8. NotSent(r) /\ \A t \in Slot : ~Has(job[t], r) /\ ~Lists(job[t], r)
  <2>1. NotSent(r) /\ \A t \in Slot : Has(job[t], r) => job[t].fn = "settle"
    BY <1>3 DEF Batons, RowInv, Rests
  <2>2. \A t \in Slot : ~Lists(job[t], r)
    BY <1>3 DEF Batons, RowInv, Rests
  <2> QED
    BY <1>2, <2>1, <2>2
<1>9. Owner[r] \notin Person => Tried(r) /\ Proven(r) /\ Tried(r)' /\ Proven(r)'
  <2>1. Owner[r] \notin Person => Tried(r) /\ Proven(r)
    BY <1>3 DEF Batons, RowInv, AgentsRow
  <2> QED
    BY <1>3, <2>1 DEF Tried, Proven, ledgerVars, contents
<1>10. RowInv(r)'
  <2>1. NotSent(r)'
    BY <1>3, <1>8 DEF NotSent
  <2>2. ~Lists(job'[s], r)
    BY <1>3 DEF Lists
  <2>3. Owner[r] \notin Person => Knows(job[s], r)'
    BY <1>3, <1>9 DEF Knows
  <2>4. Alone(s, r)'
    BY <1>3, <1>9, <2>1, <2>2, <2>3 DEF Alone, NotSent, Resting, Settled, ledgerVars
  <2>5. Only(s, r)
    BY <1>8 DEF Only
  <2> QED
    BY <1>5, <2>4, <2>5, AloneKeeps
<1>11. ASSUME NEW q \in Row \ {r} PROVE RowInv(q)'
  <2>1. Alike(job[s], job'[s], q)
    BY <1>3 DEF Alike, Has, Lists, Idle
  <2> QED
    BY <1>3, <1>5, <2>1, Aside DEF Batons, Unsent, ledgerVars, contents
<1> QED
  BY <1>6, <1>10, <1>11 DEF Batons

LEMMA PeopleBatons ==
    ASSUME Typed, Typed', Batons, Few, People, Undisturbed'
    PROVE  Batons' /\ Few'
<1> USE Parts
<1>0. used \in [edits : Nat, typed : Nat, sweeps : Nat] /\ came \in [toggles : Nat, calls : Nat]
  BY DEF Others
<1>1. ASSUME NEW s \in Slot, NEW a \in Worker, StartContracting(s, a), UNCHANGED pressed
      PROVE  Batons' /\ Few'
  BY <1>1, ContractingBatons
<1>2. ASSUME NEW s \in Slot, NEW r \in Row, NEW a \in Worker, NEW decision \in Decision,
             Press(s, r, a, decision), UNCHANGED surfaceVars
      PROVE  Batons' /\ Few'
  BY <1>2, PressBatons DEF Undisturbed, surfaceVars
<1>3. ASSUME NEW s \in Slot, NEW r \in Row, NEW a \in Worker PROVE ~StartEdit(s, r, a)
  BY <1>0 DEF StartEdit, Undisturbed
<1>4. ASSUME NEW r \in Row, NEW to \in State, NEW a \in Worker PROVE ~TypeState(r, to, a)
  BY <1>0 DEF TypeState, Undisturbed
<1>5. ASSUME NEW s \in Slot, Local(s), job[s] = Idle, job'[s].fn \in {"deadlines", "toggle"},
             UNCHANGED <<ledgerVars, pending, contents, contracting, pressed>>
      PROVE  Batons' /\ Few'
  <2>1. Few'
    BY <1>5, FewKeeps DEF Steady
  <2>2. Batons'
    BY <1>5, BystanderKeeps DEF Bystander, Idle, Unsent, ledgerVars
  <2> QED
    BY <2>1, <2>2
<1>6. ASSUME NEW s \in Slot, StartSweep(s), UNCHANGED pressed PROVE Batons' /\ Few'
  BY <1>5, <1>6 DEF StartSweep, Local, Jobbed
<1>7. ASSUME NEW s \in Slot, NEW w \in Revocable, StartToggle(s, w), UNCHANGED <<pressed, surfaceVars>>
      PROVE  Batons' /\ Few'
  BY <1>5, <1>7 DEF StartToggle, Start, Local, Jobbed, surfaceVars
<1>8. ASSUME NEW s \in Slot, NEW r \in Row, NEW w \in Holder, NEW x
      PROVE  ~StartCall(s, r, w, x) /\ ~StartChat(s, r, w, x)
  BY <1>0 DEF StartCall, StartChat, Undisturbed
<1> QED
  BY <1>1, <1>2, <1>3, <1>4, <1>6, <1>7, <1>8 DEF People, SurfacesAct, OutsideActs

\* Nothing that happened is taken back.
LEMMA StaysDisturbed ==
    ASSUME Typed, Next, Undisturbed'
    PROVE  Undisturbed
<1> USE Parts
<1>0. /\ used \in [edits : Nat, typed : Nat, sweeps : Nat] /\ came \in [toggles : Nat, calls : Nat]
      /\ pressed \in Nat
  BY Assumptions DEF Others
<1>1. ASSUME NEW s \in Slot, Progress(s) PROVE UNCHANGED <<used, came, pressed>>
  <2>1. ASSUME ApprovalsStep(s) PROVE UNCHANGED pressed
    BY <2>1, Zenon DEF ApprovalsStep, StartWatch, WindowCloses, Look, StopWaiting, LoadSettle,
       Reason, RecordApproval, VerifyApproved, HandBackDecided
  <2>2. ASSUME SurfacesStep(s) PROVE UNCHANGED surfaceVars
    BY <2>2, Zenon DEF SurfacesStep, Contract, SendContracted, EditHandsBack, EditEscalates,
       EditReassigns, Sweep
  <2>3. ASSUME OutsideStep(s) PROVE UNCHANGED came
    <3>1. UNCHANGED outsideVars => UNCHANGED came
      BY DEF outsideVars
    <3> QED
      BY <2>3, <3>1, Zenon DEF OutsideStep, StoreStatus, StartRevoke, EscalateRevoked, ClaimRow,
         AttachSent, SetOutputs, SubmitOutput, AskApproval, HandOff, ReadReply, HandBackReply, TimeOutChat
  <2> QED
    BY <1>1, <2>1, <2>2, <2>3 DEF Progress, surfaceVars, outsideVars
<1>2. ASSUME People
      PROVE  /\ used'.edits = 0 => used.edits = 0
             /\ used'.typed = 0 => used.typed = 0
             /\ came'.calls = 0 => came.calls = 0
             /\ pressed' = pressed \/ pressed' = pressed + 1
  <2>1. ASSUME NEW s \in Slot, NEW r \in Row, NEW a \in Worker, StartEdit(s, r, a)
        PROVE  used'.edits = used.edits + 1 /\ used'.typed = used.typed
    BY <1>0, <2>1 DEF StartEdit
  <2>2. ASSUME NEW r \in Row, NEW to \in State, NEW a \in Worker, TypeState(r, to, a)
        PROVE  used'.edits = used.edits /\ used'.typed = used.typed + 1
    BY <1>0, <2>2 DEF TypeState
  <2>3. ASSUME OutsideActs PROVE came'.calls \in {came.calls, came.calls + 1}
    BY <1>0, <2>3 DEF OutsideActs, StartToggle, StartCall, StartChat
  <2>4. ASSUME SurfacesAct
        PROVE  (used'.edits = 0 => used.edits = 0) /\ (used'.typed = 0 => used.typed = 0)
    <3>1. ASSUME NEW s \in Slot, StartSweep(s) PROVE used'.edits = used.edits /\ used'.typed = used.typed
      BY <1>0, <3>1 DEF StartSweep
    <3> QED
      BY <1>0, <2>1, <2>2, <2>4, <3>1 DEF SurfacesAct
  <2>5. ASSUME NEW s \in Slot, NEW a \in Worker, StartContracting(s, a)
        PROVE  UNCHANGED used
    BY <2>5 DEF StartContracting
  <2>6. ASSUME NEW s \in Slot, NEW r \in Row, NEW a \in Worker, NEW decision \in Decision,
               Press(s, r, a, decision)
        PROVE  pressed' = pressed + 1
    BY <2>6 DEF Press
  <2> QED
    BY <1>0, <1>2, <2>3, <2>4, <2>5, <2>6 DEF People, surfaceVars, outsideVars
<1> QED
  BY <1>0, <1>1, <1>2 DEF Next, Undisturbed

LEMMA BatonStep ==
    ASSUME Typed, Typed', BatonInv, [Next]_vars, [ReleasedFromBlocked]_vars
    PROVE  BatonInv'
<1>1. CASE UNCHANGED vars
  <2>1. UNCHANGED <<state, attempts, pending, job, outputs, proven, contracting, used, came, pressed>>
    BY <1>1 DEF vars, runtimeVars, ledgerVars, jobVars, contents, surfaceVars, outsideVars
  <2>2. Undisturbed' => Undisturbed
    BY <2>1 DEF Undisturbed
  <2>3. Few => Few'
    BY <2>1 DEF Few
  <2>4. ASSUME NEW r \in Row, RowInv(r) PROVE RowInv(r)'
    BY <2>1, <2>4 DEF RowInv, OneBaton, Rests, AgentsRow, NotSent, Free, MayTry, Tried, Proven, Knows
  <2> QED
    BY <2>2, <2>3, <2>4 DEF BatonInv
<1>2. CASE Next /\ ReleasedFromBlocked
  <2> SUFFICES ASSUME Undisturbed' PROVE Few' /\ Batons'
    BY DEF BatonInv, Batons
  <2>1. Few /\ Batons
    BY <1>2, StaysDisturbed DEF BatonInv, Batons
  <2>2. ASSUME NEW s \in Slot, Progress(s) PROVE Few' /\ Batons'
    <3>1. Batons'
      BY <1>2, <2>1, <2>2, AgentStepBatons, RunChecksBatons, UnblockBatons, ApprovalsBatons, SurfacesBatons,
         OutsideBatons
         DEF Progress
    <3>2. GoesAnywhere(s)
      BY <2>2, AgentStepGoes, RunChecksGoes, UnblockGoes, ApprovalsGoes, SurfacesGoes, OutsideGoes DEF Progress
    <3>3. UNCHANGED <<pressed, contracting>>
      <4>1. ASSUME ApprovalsStep(s) PROVE UNCHANGED pressed
        BY <4>1, Zenon DEF ApprovalsStep, StartWatch, WindowCloses, Look, StopWaiting, LoadSettle,
           Reason, RecordApproval, VerifyApproved, HandBackDecided
      <4>2. ASSUME SurfacesStep(s) PROVE UNCHANGED surfaceVars
        BY <4>2, Zenon DEF SurfacesStep, Contract, SendContracted, EditHandsBack, EditEscalates,
           EditReassigns, Sweep
      <4> QED
        BY <2>2, <4>1, <4>2 DEF Progress, surfaceVars
    <3>4. Few'
      BY <2>1, <3>2, <3>3, Stays, FewKeeps
    <3> QED
      BY <3>1, <3>4
  <2>3. CASE People
    BY <2>1, <2>3, PeopleBatons
  <2> QED
    BY <1>2, <2>2, <2>3 DEF Next
<1> QED
  BY <1>1, <1>2

LEMMA BatonInit == Init => BatonInv
<1> SUFFICES ASSUME Init PROVE BatonInv
  OBVIOUS
<1>1. /\ \A s \in Slot : job[s] = Idle
      /\ \A r \in Row : state[r] = "drafted" /\ attempts[r] = 0
      /\ \A r \in Row : pending["assigned"][r] = 0 /\ pending["completed_pending_check"][r] = 0
  BY DEF Init, InitJobs, InitLedger, EventName
<1>2. Few
  BY <1>1 DEF Few, Idle
<1>3. ASSUME NEW r \in Row PROVE RowInv(r)
  <2>1. NotSent(r) /\ \A s \in Slot : ~Has(job[s], r) /\ ~Lists(job[s], r)
    BY <1>1 DEF NotSent, Has, Lists, Idle
  <2>2. OneBaton(r) /\ Rests(r) /\ AgentsRow(r)
    BY <1>1, <2>1 DEF OneBaton, Rests, AgentsRow, NotSent, Free, Tried, Settled
  <2> QED
    BY <2>2 DEF RowInv
<1> QED
  BY <1>2, <1>3 DEF BatonInv

LEMMA AlwaysBaton == Spec /\ [][ReleasedFromBlocked]_vars => [](Typed /\ BatonInv)
<1>1. Init => Typed /\ BatonInv
  BY TypedInit, BatonInit
<1>2. Typed /\ BatonInv /\ [Next]_vars /\ [ReleasedFromBlocked]_vars => (Typed /\ BatonInv)'
  BY TypedStep, BatonStep
<1> QED
  BY <1>1, <1>2, PTL DEF Spec

\* A row is never worked by two agent loops at once, however assignments, retries, checks,
\* one press, the sweep and revocations interleave (inngest/functions/agentStep.ts), as
\* long as what is released is still blocked.
THEOREM OneLoopAtATime ==
    Spec /\ [][ReleasedFromBlocked]_vars => [](Undisturbed => OneLoopPerRow)
<1>1. BatonInv => (Undisturbed => OneLoopPerRow)
  <2> SUFFICES ASSUME BatonInv, Undisturbed, NEW r \in Row, NEW s \in Slot, NEW t \in Slot,
                      AtWork(s, r), AtWork(t, r)
               PROVE  s = t
    BY DEF OneLoopPerRow
  <2>1. Has(job[s], r) /\ Has(job[t], r)
    BY DEF AtWork, Has
  <2> QED
    BY <2>1 DEF BatonInv, RowInv, OneBaton
<1> QED
  BY <1>1, AlwaysBaton, PTL

\* "Done means proven": the outputs of a settled row of an agent are the ones that passed
\* its check, although they are written without a look at the state, and the check reads
\* the row once (inngest/functions/runChecks.ts).
THEOREM DoneMeansProven ==
    Spec /\ [][ReleasedFromBlocked]_vars => [](Undisturbed => SettledOutputsPassed)
<1>1. BatonInv => (Undisturbed => SettledOutputsPassed)
  BY DEF BatonInv, RowInv, AgentsRow, Proven, SettledOutputsPassed
<1> QED
  BY <1>1, AlwaysBaton, PTL

\* An agent starts a row no more often than its max_attempts, whether the check or the
\* approver sends it back: the retry that is decided on the attempts read earlier is
\* decided on those the row still has.
THEOREM AttemptsAreBounded ==
    ASSUME \A r \in Row : Owner[r] \notin Person => MaxAttempts[r] >= 1
    PROVE  Spec /\ [][ReleasedFromBlocked]_vars => [](Undisturbed => RetriesAreBounded)
<1>1. Typed /\ BatonInv => (Undisturbed => RetriesAreBounded)
  <2> SUFFICES ASSUME Typed, BatonInv, Undisturbed, NEW r \in Row, Owner[r] \notin Person
               PROVE  attempts[r] <= MaxAttempts[r]
    BY DEF RetriesAreBounded
  <2>1. Tried(r)
    BY DEF BatonInv, RowInv, AgentsRow
  <2>2. attempts[r] \in Nat /\ MaxAttempts[r] \in Nat /\ MaxAttempts[r] >= 1
    BY Assumptions DEF Typed, Ledgered, LedgerTypeOK
  <2> QED
    BY <2>1, <2>2 DEF Tried
<1> QED
  BY <1>1, AlwaysBaton, PTL

-----------------------------------------------------------------------------
(* Rest: whatever is not where it may rest is held by an invocation that   *)
(* will move it on, or was announced to one (AllHeld).  What is taken up   *)
(* is open: all that held it up is settled (AllOpen), so no move that      *)
(* holds a row is refused on that account.                                 *)

Opened(r) == \A b \in Blocker[r] : state[b] \in Settled

\* What the code does not ask before it moves a row: whether the row holds another one
\* up that was told it does not, and whether those that hold it up are settled already.
BlockersStay ==
    \A r \in Row : \A b \in Blocker[r] : state[b] \in Settled => state'[b] \in Settled

BlockedInTime ==
    \A r \in Row : state[r] # "blocked" /\ state'[r] = "blocked" => ~Opened(r)'

\* The people of a run stay, and its requester is one of them.
PeopleStay == Requester \in Person /\ Person \cap Revocable = {}

\* Invocation j will have r taken up.
Assigns(j, r) ==
    \/ j.fn = "agentStep" /\ j.row = r /\ j.pc \in {"unowned", "start"}
    \/ j.fn = "unblock" /\ j.pc = "release" /\ r \in j.seen.released
    \/ j.fn = "contractRun" /\ r \in j.seen.started
    \/ j.fn = "edit" /\ j.row = r

\* Invocation j will move r on from state `from`.
Holds(j, r, from) ==
    \/ from = "drafted" /\ Lists(j, r)
    \/ from \in {"contracted", "handed_back"} /\ Assigns(j, r)
    \/ from = "handed_back" /\ j.fn = "runChecks" /\ j.row = r /\ j.pc = "exhausted"
    \/ /\ from = "in_progress" /\ j.fn = "agentStep" /\ j.row = r
       /\ j.pc \in {"ready", "work", "outputs", "submit", "escalate"}
    \/ from = "completed_pending_check" /\ j.fn = "runChecks" /\ j.row = r /\ j.pc # "exhausted"
    \/ from = "awaiting_approval" /\ j.fn = "approvals" /\ j.row = r
    \/ from \in AtWorkStates /\ j.fn = "revoke" /\ j.pc = "rows" /\ r \in j.seen.rows
    \/ /\ from = "blocked" /\ j.fn = "unblock"
       /\ j.pc \in {"close", "find"} \/ (j.pc = "release" /\ r \in j.seen.ready)
    \/ from = "verified" /\ j.fn = "unblock" /\ j.row = r /\ j.pc = "close"

\* An event is on its way that will move r on.
Announced(r) ==
    \/ state[r] \in {"contracted", "handed_back"} /\ pending["assigned"][r] > 0
    \/ state[r] = "completed_pending_check" /\ pending["completed_pending_check"][r] > 0
    \/ state[r] = "awaiting_approval" /\ pending["awaiting_approval"][r] > 0
    \/ state[r] = "verified" /\ pending["verified"][r] > 0
    \/ state[r] = "blocked" /\ \E b \in Row : pending["verified"][b] > 0
    \/ state[r] \in AtWorkStates /\ \E w \in Worker : w = Owner[r] /\ told[w] > 0

Planned(r) == state[r] = "drafted" /\ ~contracting

Held(r) == MayRest(r) \/ Planned(r) \/ Announced(r) \/ \E s \in Slot : Holds(job[s], r, state[r])

\* Invocation j may hand r back.
Begun(j, r) ==
    \/ j.fn \in {"runChecks", "settle"} /\ j.row = r
    \/ j.fn = "edit" /\ j.row = r /\ j.pc = "handback"

UnderWay(r) ==
    \/ state[r] \in {"completed_pending_check", "awaiting_approval", "handed_back"}
    \/ pending["completed_pending_check"][r] > 0
    \/ \E s \in Slot : Begun(job[s], r)

Readies(j, r) == j.fn = "unblock" /\ j.pc = "release" /\ r \in j.seen.ready

\* Work that may be taken up is held up by nothing.
Open(r) ==
    /\ state[r] \in {"contracted", "in_progress"} => Opened(r)
    /\ state[r] = "blocked" => Blocker[r] # {}
    /\ UnderWay(r) => Opened(r) \/ came.calls > 0
    /\ \A s \in Slot : Readies(job[s], r) => Opened(r)

\* What an invocation knows.
Sound(j) ==
    /\ j.fn = "runChecks" /\ j.pc = "verify" => j.row \in passing \ HumanCheck
    /\ j.fn = "settle" => pressed > 0 /\ (j.pc # "load" => j.seen.attempts <= attempts[j.row])
    /\ j.fn = "contractRun" => j.seen.actor \in Person
    /\ j.fn \in {"mcp", "chat"} => came.calls > 0

Informed == \A s \in Slot : Sound(job[s])

AllHeld == \A r \in Row : Held(r)

AllOpen == \A r \in Row : Open(r)

\* Whoever can be asked for a move is there, and no sheet invariant blocks it.
Staffed == NeverBlocked /\ NobodyElse /\ PeopleStay

Now == Typed /\ Guarded /\ AllHeld /\ AllOpen /\ Informed /\ used.typed = 0

LEMMA WhyRefused ==
    ASSUME NeverBlocked, NEW r \in Row, NEW to, NEW a, Refused(r, to, a)
    PROVE  /\ UNCHANGED ledgerVars
           /\ \/ a \in revoked
              \/ to \notin Edges[state[r]]
              \/ to = "verified" /\ ~VerifiedGate(r)
              \/ to \in Settled /\ r \in HumanCheck /\ a \notin Person
              \/ state[r] = "awaiting_approval" /\ to \in {"verified", "handed_back"}
              \/ to = "in_progress" /\ ~Opened(r)
<1>1. ~Permitted(r, to, a)
  BY DEF Refused, NeverBlocked
<1> QED
  BY <1>1 DEF Refused, Permitted, MaySettle, MayResolve, MayStart, Opened

\* The people are never revoked, so whoever may not act is the owner, of whom the
\* revocation was told.
LEMMA WhoIsRevoked ==
    ASSUME Typed, Guarded, PeopleStay
    PROVE  /\ \A a \in Person : a \notin revoked
           /\ Requester \notin revoked /\ Maya \notin revoked
           /\ \A r \in Row : OwnerOrMaya(r) \in revoked => Owner[r] \in revoked
           /\ revoked # {} => came.toggles > 0
<1>1. revoked \subseteq Revocable /\ came.toggles \in Nat
  BY DEF Typed, Ledgered, Others
<1>2. \A a \in Person : a \notin revoked
  BY <1>1 DEF PeopleStay
<1> QED
  BY <1>1, <1>2, Assumptions DEF PeopleStay, OwnerOrMaya, Guarded, Untoggled

\* A step of the invocation in slot s that takes no event.
Tame(s) ==
    /\ \A t \in Slot \ {s} : job'[t] = job[t]
    /\ \A n \in EventName, q \in Row : pending[n][q] > 0 => pending'[n][q] > 0
    /\ \A q \in Row : attempts[q] >= MaxAttempts[q] => attempts'[q] >= MaxAttempts[q]
    /\ \A q \in Row : state'[q] \in Settled =>
           state[q] \in Settled \/ \E b \in Row : pending'["verified"][b] > 0
    /\ \A w \in Worker : told[w] > 0 => told'[w] > 0
    /\ UNCHANGED <<came, contracting, pressed, used>>

LEMMA Numbers ==
    ASSUME Typed
    PROVE  /\ \A n \in EventName, q \in Row : pending[n][q] \in Nat
           /\ \A q \in Row : attempts[q] \in Nat /\ MaxAttempts[q] \in Nat
           /\ \A w \in Worker : told[w] \in Nat
           /\ came.toggles \in Nat /\ came.calls \in Nat /\ pressed \in Nat
           /\ \A n \in {"assigned", "completed_pending_check", "awaiting_approval", "verified"} : n \in EventName
  BY Assumptions DEF Typed, Pendings, Ledgered, LedgerTypeOK, Others, EventName

LEMMA AnnouncedKeeps ==
    ASSUME NEW s \in Slot, Tame(s), NEW q \in Row, state'[q] = state[q], Announced(q)
    PROVE  Announced(q)'
  BY DEF Announced, EventName, Tame

LEMMA RestKeeps ==
    ASSUME NEW s \in Slot, Tame(s), NEW q \in Row, state'[q] = state[q],
           MayRest(q) \/ Planned(q)
    PROVE  Held(q)'
<1>1. CASE state[q] = "blocked" /\ \E b \in Blocker[q] : state[b] \notin Settled
  <2>1. PICK b \in Blocker[q] : state[b] \notin Settled
    BY <1>1
  <2>2. b \in Row
    BY ConstantsAssumption
  <2>3. CASE state'[b] \in Settled
    BY <1>1, <2>1, <2>2, <2>3 DEF Tame, Held, Announced
  <2>4. CASE state'[b] \notin Settled
    BY <1>1, <2>1, <2>2, <2>4 DEF Held, MayRest
  <2> QED
    BY <2>3, <2>4
<1> QED
  BY <1>1 DEF Tame, Held, MayRest, Planned

LEMMA TameHeld ==
    ASSUME NEW s \in Slot, Tame(s), AllHeld,
           \A q \in Row : state'[q] # state[q] => Held(q)',
           \A q \in Row : state'[q] = state[q] /\ Holds(job[s], q, state[q]) =>
               Holds(job'[s], q, state[q]) \/ Held(q)'
    PROVE  AllHeld'
<1> SUFFICES ASSUME NEW q \in Row, state'[q] = state[q] PROVE Held(q)'
  BY DEF AllHeld
<1>1. Held(q)
  BY DEF AllHeld
<1>2. ASSUME NEW t \in Slot, Holds(job[t], q, state[q]) PROVE Held(q)'
  <2>1. CASE t = s
    BY <1>2, <2>1 DEF Held
  <2>2. CASE t # s
    BY <1>2, <2>2 DEF Held, Tame
  <2> QED
    BY <2>1, <2>2
<1> QED
  BY <1>1, <1>2, AnnouncedKeeps, RestKeeps DEF Held

\* What a move that took or was refused does to the rows.
LEMMA MoveRows ==
    ASSUME Typed, NEW r \in Row, NEW to \in State, NEW a, Moved(r, to, a) \/ Refused(r, to, a)
    PROVE  /\ \A q \in Row \ {r} : state'[q] = state[q] /\ attempts'[q] = attempts[q]
           /\ Moved(r, to, a) => to \in Edges[state[r]] /\ state'[r] \in {to, "escalated"}
           /\ Refused(r, to, a) => state'[r] = state[r]
           /\ \A q \in Row : attempts[q] >= MaxAttempts[q] => attempts'[q] >= MaxAttempts[q]
           /\ revoked' = revoked
<1>1. CASE Refused(r, to, a)
  <2>1. UNCHANGED ledgerVars
    BY <1>1 DEF Refused
  <2>2. Moved(r, to, a) => to \in Edges[state[r]] /\ state'[r] \in {to, "escalated"}
    BY MovedEffect DEF Permitted
  <2> QED
    BY <2>1, <2>2 DEF ledgerVars
<1>2. CASE Moved(r, to, a)
  <2>1. attempts[r] \in Nat /\ MaxAttempts[r] \in Nat
    BY Numbers
  <2>2. attempts'[r] \in {attempts[r], attempts[r] + 1}
    BY <1>2, MovedEffect
  <2>3. attempts[r] >= MaxAttempts[r] => attempts'[r] >= MaxAttempts[r]
    BY <2>1, <2>2
  <2>4. Refused(r, to, a) => state'[r] = state[r]
    BY DEF Refused, ledgerVars
  <2>5. /\ to \in Edges[state[r]] /\ state'[r] \in {to, "escalated"}
        /\ \A q \in Row \ {r} : state'[q] = state[q] /\ attempts'[q] = attempts[q]
        /\ revoked' = revoked
    BY <1>2, MovedEffect DEF Permitted
  <2> QED
    BY <2>3, <2>4, <2>5
<1> QED
  BY <1>1, <1>2

LEMMA MoveTame ==
    ASSUME Typed, NEW s \in Slot, NEW r \in Row, NEW to \in State, NEW a,
           Moved(r, to, a) \/ Refused(r, to, a),
           to = "verified" /\ Moved(r, to, a) => \E b \in Row : pending'["verified"][b] > 0,
           \A t \in Slot \ {s} : job'[t] = job[t],
           \A n \in EventName, q \in Row : pending[n][q] > 0 => pending'[n][q] > 0,
           UNCHANGED <<told, came, contracting, pressed, used>>
    PROVE  Tame(s)
<1>1. /\ \A q \in Row \ {r} : state'[q] = state[q]
      /\ Moved(r, to, a) => to \in Edges[state[r]] /\ state'[r] \in {to, "escalated"}
      /\ Refused(r, to, a) => state'[r] = state[r]
      /\ \A q \in Row : attempts[q] >= MaxAttempts[q] => attempts'[q] >= MaxAttempts[q]
  BY MoveRows
<1>2. state[r] \in State
  BY DEF Typed, Ledgered, LedgerTypeOK
<1>3. to = "done" /\ Moved(r, to, a) => state[r] \in Settled
  BY <1>1, <1>2 DEF Edges, State, Settled
<1>4. \A q \in Row : state'[q] \in Settled =>
           state[q] \in Settled \/ \E b \in Row : pending'["verified"][b] > 0
  BY <1>1, <1>3 DEF Settled
<1> QED
  BY <1>1, <1>4 DEF Tame

\* A step that moves no row and takes no event.
LEMMA StillTame ==
    ASSUME NEW s \in Slot, \A t \in Slot \ {s} : job'[t] = job[t], UNCHANGED <<state, attempts>>,
           \A n \in EventName, q \in Row : pending[n][q] > 0 => pending'[n][q] > 0,
           UNCHANGED <<told, came, contracting, pressed, used>>
    PROVE  Tame(s)
  BY DEF Tame

\* Revoking a worker reaches their rows at work.
LEMMA StoppedHeld ==
    ASSUME Staffed, Now, NEW s \in Slot, Tame(s), job[s].fn # "revoke", NEW r \in Row,
           Owner[r] \in revoked, state[r] \in AtWorkStates, state'[r] = state[r]
    PROVE  Held(r)'
<1>1. \/ told[Owner[r]] > 0
      \/ \E t \in Slot : job[t].fn = "revoke" /\ job[t].pc = "rows" /\ r \in job[t].seen.rows
  BY DEF Staffed, Now, Guarded, Stopping
<1>2. Owner[r] \in Worker
  BY DEF Now, Typed, Ledgered, LedgerTypeOK
<1>3. CASE told[Owner[r]] > 0
  BY <1>2, <1>3 DEF Tame, Held, Announced
<1>4. ASSUME NEW t \in Slot, job[t].fn = "revoke", job[t].pc = "rows", r \in job[t].seen.rows
      PROVE  Held(r)'
  <2>1. job'[t] = job[t]
    BY <1>4 DEF Tame
  <2> QED
    BY <1>4, <2>1 DEF Held, Holds
<1> QED
  BY <1>1, <1>3, <1>4

\* The functions that are about one row.
OneRow == {"agentStep", "runChecks", "approvals", "settle", "edit", "mcp", "chat"}

LEMMA OneRowHolds ==
    ASSUME NEW j, j.fn \in OneRow, NEW q, NEW from, Holds(j, q, from)
    PROVE  q = j.row /\ from # "escalated"
  BY DEF Holds, OneRow, Assigns, Lists, AtWorkStates

LEMMA OneRowHeld ==
    ASSUME NEW s \in Slot, Tame(s), AllHeld, NEW r \in Row, job[s].row = r, job[s].fn \in OneRow,
           \A q \in Row \ {r} : state'[q] = state[q],
           state'[r] # state[r] => Held(r)',
           state'[r] = state[r] /\ Holds(job[s], r, state[r]) => Holds(job'[s], r, state[r]) \/ Held(r)'
    PROVE  AllHeld'
  BY OneRowHolds, TameHeld

\* An invocation ends with a move that it announces.
LEMMA SendHeld ==
    ASSUME Staffed, Now, NEW s \in Slot, NEW r \in Row, job[s].row = r, job[s].fn \in OneRow,
           NEW to \in {"completed_pending_check", "awaiting_approval", "verified"}, NEW a,
           MoveThenSend(s, to, a, to), UNCHANGED <<told, came, contracting, pressed, used>>,
           Tame(s) /\ Refused(r, to, a) /\ Holds(job[s], r, state[r]) => Held(r)'
    PROVE  AllHeld'
<1>1. Typed /\ pending \in [EventName -> [Row -> Nat]] /\ job \in [Slot -> Job] /\ to \in State /\ to \in EventName
  BY DEF Now, Typed, Pendings, Jobbed, State, EventName
<1>2. (\A t \in Slot \ {s} : job'[t] = job[t]) /\ (Moved(r, to, a) \/ Refused(r, to, a))
  BY <1>1, Ends DEF MoveThenSend
<1>3. \A q \in Row \ {r} : state'[q] = state[q]
  BY <1>1, <1>2, MoveRows
<1>4. CASE Moved(r, to, a) /\ Send(to, r)
  <2>1. /\ \A n \in EventName, q \in Row : pending[n][q] > 0 => pending'[n][q] > 0
        /\ pending'[to][r] > 0
    <3>1. \A n \in EventName, q \in Row : pending[n][q] \in Nat
      BY <1>1
    <3>2. pending'[to][r] = pending[to][r] + 1
      BY <1>1, <1>4, Sends
    <3>3. \A n \in EventName, q \in Row : n # to \/ q # r => pending'[n][q] = pending[n][q]
      BY <1>1, <1>4, Sends
    <3>4. pending'[to][r] > 0
      BY <1>1, <3>1, <3>2
    <3> QED
      BY <3>3, <3>4
  <2>2. Tame(s)
    BY <1>1, <1>2, <2>1, MoveTame
  <2>3. to \in Edges[state[r]] /\ state'[r] \in {to, "escalated"}
    BY <1>1, <1>4, MoveRows
  <2>4. Held(r)'
    BY <2>1, <2>3 DEF Held, Announced, MayRest
  <2> QED
    BY <1>3, <2>2, <2>4, OneRowHeld DEF Now
<1>5. CASE Refused(r, to, a) /\ UNCHANGED pending
  <2>1. Tame(s)
    <3>1. UNCHANGED <<state, attempts>>
      BY <1>5 DEF Refused, ledgerVars
    <3> QED
      BY <1>2, <1>5, <3>1, StillTame
  <2>2. state'[r] = state[r]
    BY <1>5 DEF Refused, ledgerVars
  <2> QED
    BY <1>3, <1>5, <2>1, <2>2, OneRowHeld DEF Now
<1> QED
  BY <1>4, <1>5 DEF MoveThenSend

\* An invocation ends with a move that needs no announcement.
LEMMA FinishHeld ==
    ASSUME Staffed, Now, NEW s \in Slot, NEW r \in Row, job[s].row = r, job[s].fn \in OneRow,
           NEW to \in State \ Settled, NEW a,
           MoveThenFinish(s, to, a), UNCHANGED <<told, came, contracting, pressed, used>>,
           to = "escalated" \/ (to \in {"in_progress", "handed_back"} /\ came.calls > 0),
           Tame(s) /\ Refused(r, to, a) /\ Holds(job[s], r, state[r]) => Held(r)'
    PROVE  AllHeld'
<1>1. Typed /\ job \in [Slot -> Job] /\ to # "verified"
  BY DEF Now, Typed, Jobbed, Settled
<1>2. (\A t \in Slot \ {s} : job'[t] = job[t]) /\ (Moved(r, to, a) \/ Refused(r, to, a)) /\ UNCHANGED pending
  BY <1>1, Ends DEF MoveThenFinish
<1>3. Tame(s)
  BY <1>1, <1>2, MoveTame
<1>4. \A q \in Row \ {r} : state'[q] = state[q]
  BY <1>1, <1>2, MoveRows
<1>5. CASE Moved(r, to, a)
  <2>1. state'[r] \in {to, "escalated"}
    BY <1>1, <1>5, MoveRows
  <2>2. Held(r)'
    BY <2>1 DEF Held, MayRest
  <2> QED
    BY <1>3, <1>4, <2>2, OneRowHeld DEF Now
<1>6. CASE Refused(r, to, a)
  <2>1. state'[r] = state[r]
    BY <1>6 DEF Refused, ledgerVars
  <2> QED
    BY <1>3, <1>4, <1>6, <2>1, OneRowHeld DEF Now
<1> QED
  BY <1>2, <1>5, <1>6

\* An invocation starts where an event was taken.
LEMMA StartHeld ==
    ASSUME Now, NEW s \in Slot, NEW fn, NEW r, NEW pc, NEW seen, Start(s, fn, r, pc, seen),
           UNCHANGED <<state, attempts, contracting, pressed, came>>,
           \A q \in Row : Announced(q) => Held(q)'
    PROVE  AllHeld'
<1> SUFFICES ASSUME NEW q \in Row PROVE Held(q)'
  BY DEF AllHeld
<1>1. Held(q)
  BY DEF Now, AllHeld
<1>2. job[s] = Idle /\ \A t \in Slot \ {s} : job'[t] = job[t]
  BY DEF Start, Now, Typed, Jobbed
<1>3. ASSUME NEW t \in Slot, Holds(job[t], q, state[q]) PROVE Held(q)'
  <2>1. t # s
    BY <1>2, <1>3 DEF Holds, Assigns, Lists, Idle
  <2> QED
    BY <1>2, <1>3, <2>1 DEF Held
<1>4. MayRest(q) \/ Planned(q) => Held(q)'
  BY DEF MayRest, Planned, Held
<1> QED
  BY <1>1, <1>3, <1>4 DEF Held

\* An invocation goes on and remembers something else.
LEMMA Recalls ==
    ASSUME Jobbed, NEW s \in Slot, NEW pc, NEW seen, Recall(s, pc, seen), job[s].fn # "idle"
    PROVE  /\ job'[s] = [fn |-> job[s].fn, row |-> job[s].row, pc |-> pc, seen |-> seen]
           /\ \A t \in Slot \ {s} : job'[t] = job[t]
<1>1. job[s] = [fn |-> job[s].fn, row |-> job[s].row, pc |-> job[s].pc, seen |-> job[s].seen]
  BY SMTT(30) DEF Jobbed, Job, Idle, AgentJob, CheckJob, UnblockJob, WatchJob, SettleJob, ContractJob, EditJob,
         SweepJob, ToggleJob, RevokeJob, CallJob
<1>2. [job[s] EXCEPT !.pc = pc, !.seen = seen]
          = [fn |-> job[s].fn, row |-> job[s].row, pc |-> pc, seen |-> seen]
  <2>1. [job[s] EXCEPT !.pc = pc]
            = [fn |-> job[s].fn, row |-> job[s].row, pc |-> pc, seen |-> job[s].seen]
    BY <1>1
  <2>2. [[fn |-> job[s].fn, row |-> job[s].row, pc |-> pc, seen |-> job[s].seen]
             EXCEPT !.seen = seen]
            = [fn |-> job[s].fn, row |-> job[s].row, pc |-> pc, seen |-> seen]
    OBVIOUS
  <2> QED
    BY <2>1, <2>2, Zenon
<1>3. job' = [job EXCEPT ![s] = [job[s] EXCEPT !.pc = pc, !.seen = seen]]
  BY <1>1 DEF Recall, Jobbed
<1> QED
  BY <1>2, <1>3 DEF Jobbed

LEMMA AgentStepHeld ==
    ASSUME Staffed, Now, NEW s \in Slot, AgentStepNext(s), UNCHANGED <<pressed, surfaceVars, outsideVars>>
    PROVE  AllHeld'
<1>0. UNCHANGED <<told, came, contracting, pressed, used>>
  BY DEF surfaceVars, outsideVars
<1>1. Typed /\ Jobbed /\ pending \in [EventName -> [Row -> Nat]] /\ "assigned" \in EventName
  BY DEF Now, Typed, Pendings, EventName
<1>2. job[s].fn = "agentStep" => job[s].row \in Row /\ job[s].fn \in OneRow
  BY <1>1, JobRow DEF Jobbed, Rowless, OneRow
<1>3. ASSUME NEW r \in Row, StartAgentStep(s, r) PROVE AllHeld'
  <2>1. /\ UNCHANGED <<state, attempts>> /\ Take("assigned", r)
        /\ Start(s, "agentStep", r, FirstStep(r), NoOutputs)
    BY <1>3 DEF StartAgentStep, ledgerVars
  <2>2. job'[s] = [fn |-> "agentStep", row |-> r, pc |-> FirstStep(r), seen |-> NoOutputs]
    BY <1>1, <2>1 DEF Start, Jobbed
  <2>3. \A n \in EventName, q \in Row : n # "assigned" \/ q # r => pending'[n][q] = pending[n][q]
    BY <1>1, <2>1, Takes
  <2>4. ASSUME NEW q \in Row, Announced(q) PROVE Held(q)'
    <3>1. CASE state[q] \in {"contracted", "handed_back"} /\ q = r
      <4>1. Owner[r] \in Person \/ FirstStep(r) \in {"unowned", "start"}
        BY DEF FirstStep
      <4> QED
        BY <2>1, <2>2, <3>1, <4>1 DEF Held, MayRest, Holds, Assigns
    <3>2. CASE ~(state[q] \in {"contracted", "handed_back"} /\ q = r)
      BY <1>0, <2>1, <2>3, <2>4, <3>2 DEF Held, Announced, EventName
    <3> QED
      BY <3>1, <3>2
  <2> QED
    BY <1>0, <2>1, <2>4, StartHeld
<1>4. CASE Unowned(s)
  <2>0. PICK r \in Row : r = job[s].row
    BY <1>2, <1>4 DEF Unowned, Running
  <2>1. job[s].fn = "agentStep" /\ job[s].pc = "unowned" /\ MoveThenFinish(s, "escalated", Maya)
    BY <1>4, <2>0 DEF Unowned, Running
  <2>2. ~(Refused(r, "escalated", Maya) /\ Holds(job[s], r, state[r]))
    <3> SUFFICES ASSUME Refused(r, "escalated", Maya), Holds(job[s], r, state[r]) PROVE FALSE
      OBVIOUS
    <3>1. state[r] \in {"contracted", "handed_back"}
      BY <2>1 DEF Holds, Lists
    <3>2. Maya \notin revoked
      BY WhoIsRevoked DEF Now, Staffed
    <3> QED
      BY <1>2, <2>0, <2>1, <3>1, <3>2, WhyRefused DEF Staffed, Edges, Settled
  <2> QED
    BY <1>0, <1>2, <2>0, <2>1, <2>2, FinishHeld DEF State, Settled
<1>5. CASE Notify(s)
  <2>1. job[s].fn = "agentStep" /\ job[s].pc = "notify" /\ Finish(s) /\ UNCHANGED <<state, attempts, pending>>
    BY <1>5 DEF Notify, Running, ledgerVars
  <2>2. Tame(s)
    BY <1>0, <1>1, <2>1, Ends, StillTame DEF Jobbed
  <2>3. \A q \in Row : ~Holds(job[s], q, state[q])
    BY <2>1 DEF Holds, Lists, Assigns
  <2> QED
    BY <2>1, <2>2, <2>3, TameHeld DEF Now
<1>6. CASE Decide(s)
  <2>0. PICK r \in Row : r = job[s].row
    BY <1>2, <1>6 DEF Decide, Running
  <2> DEFINE a == Owner[r]
  <2>1. /\ job[s].fn = "agentStep" /\ job[s].pc = "decide" /\ UNCHANGED pending
        /\ \/ Moved(r, "in_progress", a) /\ Goto(s, "ready")
           \/ Refused(r, "in_progress", a) /\ Finish(s)
    BY <1>6, <2>0 DEF Decide, Running, MoveThenGoto
  <2>2. ~Holds(job[s], r, state[r])
    BY <2>1 DEF Holds, Lists, Assigns
  <2>3. \A t \in Slot \ {s} : job'[t] = job[t]
    BY <1>1, <2>0, <2>1, Goes, Ends DEF Jobbed, Place
  <2>4. Tame(s)
    BY <1>0, <1>1, <1>2, <2>0, <2>1, <2>3, MoveTame DEF State
  <2>5. state'[r] # state[r] => Held(r)'
    <3>1. CASE Moved(r, "in_progress", a) /\ Goto(s, "ready")
      <4>1. state'[r] \in {"in_progress", "escalated"}
        BY <1>1, <1>2, <2>0, <2>1, <3>1, MoveRows DEF State
      <4>2. job'[s].fn = "agentStep" /\ job'[s].row = r /\ job'[s].pc = "ready"
        BY <1>1, <2>0, <2>1, <3>1, Goes DEF Place
      <4> QED
        BY <4>1, <4>2 DEF Held, MayRest, Holds
    <3>2. CASE Refused(r, "in_progress", a)
      BY <3>2 DEF Refused, ledgerVars
    <3> QED
      BY <2>1, <3>1, <3>2
  <2>6. \A q \in Row \ {r} : state'[q] = state[q]
    BY <1>1, <1>2, <2>0, <2>1, MoveRows DEF State
  <2> QED
    BY <1>2, <2>0, <2>1, <2>2, <2>4, <2>5, <2>6, OneRowHeld DEF Now
<1>7. CASE Ready(s) \/ Submit(s)
  <2>0. PICK r \in Row : r = job[s].row
    BY <1>2, <1>7 DEF Ready, Submit, Running
  <2> DEFINE a == Owner[r]
             to == "completed_pending_check"
  <2>1. job[s].fn = "agentStep" /\ job[s].pc \in {"ready", "submit"} /\ MoveThenSend(s, to, a, to)
    BY <1>7, <2>0 DEF Ready, Submit, Running
  <2>2. Tame(s) /\ Refused(r, to, a) /\ Holds(job[s], r, state[r]) => Held(r)'
    <3> SUFFICES ASSUME Tame(s), Refused(r, to, a), Holds(job[s], r, state[r]) PROVE Held(r)'
      OBVIOUS
    <3>1. state[r] = "in_progress"
      BY <2>0, <2>1 DEF Holds, Assigns, Lists
    <3>2. a \in revoked /\ state'[r] = state[r]
      BY <1>2, <2>0, <2>1, <3>1, WhyRefused DEF Staffed, Edges, Settled, ledgerVars
    <3> QED
      BY <1>2, <2>0, <2>1, <3>1, <3>2, StoppedHeld DEF AtWorkStates
  <2> QED
    BY <1>0, <1>2, <2>0, <2>1, <2>2, SendHeld
<1>8. CASE BeginWork(s)
  <2>0. PICK r \in Row : r = job[s].row
    BY <1>2, <1>8 DEF BeginWork, Running
  <2> DEFINE a == Owner[r]
  <2>1. /\ job[s].fn = "agentStep" /\ job[s].pc = "start" /\ UNCHANGED pending
        /\ \/ Moved(r, "in_progress", a) /\ \E seen : Recall(s, "work", seen)
           \/ Refused(r, "in_progress", a) /\ Finish(s)
    BY <1>8, <2>0 DEF BeginWork, Running
  <2>2. job[s] \in AgentJob
    BY <1>1, <2>0, <2>1, JobKinds DEF Jobbed
  <2>3. \A t \in Slot \ {s} : job'[t] = job[t]
    BY <1>1, <2>0, <2>1, Ends DEF Recall, Jobbed
  <2>4. Tame(s)
    BY <1>0, <1>1, <1>2, <2>0, <2>1, <2>3, MoveTame DEF State
  <2>5. \A q \in Row \ {r} : state'[q] = state[q]
    BY <1>1, <1>2, <2>0, <2>1, MoveRows DEF State
  <2>6. CASE Moved(r, "in_progress", a) /\ \E seen : Recall(s, "work", seen)
    <3>1. "in_progress" \in Edges[state[r]] /\ state'[r] \in {"in_progress", "escalated"}
      BY <1>1, <1>2, <2>0, <2>1, <2>6, MoveRows DEF State
    <3>2. job'[s].fn = "agentStep" /\ job'[s].row = r /\ job'[s].pc = "work"
      <4>1. PICK seen : Recall(s, "work", seen)
        BY <2>6
      <4>2. job[s].fn # "idle"
        BY <2>1
      <4>3. job'[s] = [fn |-> job[s].fn, row |-> job[s].row, pc |-> "work", seen |-> seen]
        BY <1>1, <4>1, <4>2, Recalls, Zenon
      <4> QED
        BY <2>0, <2>1, <4>3
    <3>3. Held(r)'
      BY <3>1, <3>2 DEF Held, MayRest, Holds
    <3> QED
      BY <1>2, <2>0, <2>1, <2>4, <2>5, <3>3, OneRowHeld DEF Now
  <2>7. CASE Refused(r, "in_progress", a)
    <3>1. state'[r] = state[r] /\ came' = came
      BY <1>0, <2>7 DEF Refused, ledgerVars
    <3>2. ASSUME Holds(job[s], r, state[r]) PROVE Held(r)'
      <4>1. state[r] \in {"contracted", "handed_back"}
        BY <2>1, <3>2 DEF Holds, Lists
      <4>2. a \in revoked \/ ~Opened(r)
        BY <1>2, <2>0, <2>1, <2>7, <4>1, WhyRefused DEF Staffed, Edges, Settled
      <4>3. a \in revoked => came.toggles > 0
        BY WhoIsRevoked DEF Staffed, Now
      <4>4. ~Opened(r) => state[r] = "handed_back" /\ came.calls > 0
        BY <1>2, <2>0, <2>1, <4>1 DEF Now, AllOpen, Open, UnderWay
      <4> QED
        BY <3>1, <4>1, <4>2, <4>3, <4>4 DEF Held, MayRest
    <3> QED
      BY <1>2, <2>0, <2>1, <2>4, <2>5, <3>1, <3>2, OneRowHeld DEF Now
  <2> QED
    BY <2>1, <2>6, <2>7
<1>9. CASE Work(s) \/ WriteOutputs(s)
  <2>0. PICK r \in Row : r = job[s].row
    BY <1>2, <1>9 DEF Work, WriteOutputs, Running
  <2>1. /\ job[s].fn = "agentStep" /\ job[s].pc \in {"work", "outputs"}
        /\ UNCHANGED <<state, attempts, pending>>
    BY <1>9, <2>0 DEF Work, WriteOutputs, Running, ledgerVars
  <2>2. PICK pc \in {"outputs", "escalate", "submit"} : Goto(s, pc)
    BY <1>9, <2>0 DEF Work, WriteOutputs
  <2>3. /\ \A t \in Slot \ {s} : job'[t] = job[t]
        /\ job'[s].fn = "agentStep" /\ job'[s].row = r /\ job'[s].pc = pc
    <3>1. pc \in Place
      BY DEF Place
    <3> QED
      BY <1>1, <2>0, <2>1, <2>2, <3>1, Goes
  <2>4. Tame(s)
    BY <1>0, <2>1, <2>3, StillTame
  <2>5. Holds(job[s], r, state[r]) => Holds(job'[s], r, state[r])
    BY <2>1, <2>3 DEF Holds, Assigns, Lists
  <2> QED
    BY <1>2, <2>0, <2>1, <2>4, <2>5, OneRowHeld DEF Now
<1>10. CASE GiveUp(s)
  <2>0. PICK r \in Row : r = job[s].row
    BY <1>2, <1>10 DEF GiveUp, Running
  <2> DEFINE a == Owner[r]
  <2>1. job[s].fn = "agentStep" /\ job[s].pc = "escalate" /\ MoveThenFinish(s, "escalated", a)
    BY <1>10, <2>0 DEF GiveUp, Running
  <2>2. Tame(s) /\ Refused(r, "escalated", a) /\ Holds(job[s], r, state[r]) => Held(r)'
    <3> SUFFICES ASSUME Tame(s), Refused(r, "escalated", a), Holds(job[s], r, state[r]) PROVE Held(r)'
      OBVIOUS
    <3>1. state[r] = "in_progress"
      BY <2>0, <2>1 DEF Holds, Assigns, Lists
    <3>2. a \in revoked /\ state'[r] = state[r]
      BY <1>2, <2>0, <2>1, <3>1, WhyRefused DEF Staffed, Edges, Settled, ledgerVars
    <3> QED
      BY <1>2, <2>0, <2>1, <3>1, <3>2, StoppedHeld DEF AtWorkStates
  <2> QED
    BY <1>0, <1>2, <2>0, <2>1, <2>2, FinishHeld DEF State, Settled
<1> QED
  BY <1>3, <1>4, <1>5, <1>6, <1>7, <1>8, <1>9, <1>10 DEF AgentStepNext

LEMMA RunChecksHeld ==
    ASSUME Staffed, Now, NEW s \in Slot, RunChecksNext(s), UNCHANGED <<pressed, surfaceVars, outsideVars>>
    PROVE  AllHeld'
<1>0. UNCHANGED <<told, came, contracting, pressed, used>>
  BY DEF surfaceVars, outsideVars
<1>1. /\ Typed /\ Jobbed /\ pending \in [EventName -> [Row -> Nat]]
      /\ "assigned" \in EventName /\ "completed_pending_check" \in EventName
  BY DEF Now, Typed, Pendings, EventName
<1>2. job[s].fn = "runChecks" => job[s].row \in Row /\ job[s].fn \in OneRow
  BY <1>1, JobRow DEF Jobbed, Rowless, OneRow
<1>3. ASSUME NEW r \in Row, StartRunChecks(s, r) PROVE AllHeld'
  <2> DEFINE seen == [attempts |-> attempts[r], inputs |-> inputs[r], outputs |-> outputs[r]]
  <2>1. /\ UNCHANGED <<state, attempts>> /\ Take("completed_pending_check", r)
        /\ Start(s, "runChecks", r, "check", seen)
    BY <1>3 DEF StartRunChecks, ledgerVars
  <2>2. job'[s] = [fn |-> "runChecks", row |-> r, pc |-> "check", seen |-> seen]
    BY <1>1, <2>1 DEF Start, Jobbed
  <2>3. \A n \in EventName, q \in Row :
            n # "completed_pending_check" \/ q # r => pending'[n][q] = pending[n][q]
    BY <1>1, <2>1, Takes
  <2>4. ASSUME NEW q \in Row, Announced(q) PROVE Held(q)'
    <3>1. CASE state[q] = "completed_pending_check" /\ q = r
      BY <2>1, <2>2, <3>1 DEF Held, Holds
    <3>2. CASE ~(state[q] = "completed_pending_check" /\ q = r)
      BY <1>0, <2>1, <2>3, <2>4, <3>2 DEF Held, Announced, EventName
    <3> QED
      BY <3>1, <3>2
  <2> QED
    BY <1>0, <2>1, <2>4, StartHeld
<1>4. CASE Check(s) \/ Restore(s)
  <2>0. PICK r \in Row : r = job[s].row
    BY <1>2, <1>4 DEF Check, Restore, Running
  <2>1. /\ job[s].fn = "runChecks" /\ job[s].pc \in {"check", "restore"}
        /\ UNCHANGED <<state, attempts, pending>>
    BY <1>4, <2>0 DEF Check, Restore, RecordPass, Running, ledgerVars
  <2>2. PICK pc \in {"await", "verify", "restore", "handback"} : Goto(s, pc)
    BY <1>4, <2>0 DEF Check, Restore
  <2>3. /\ \A t \in Slot \ {s} : job'[t] = job[t]
        /\ job'[s].fn = "runChecks" /\ job'[s].row = r /\ job'[s].pc = pc
    <3>1. pc \in Place
      BY DEF Place
    <3> QED
      BY <1>1, <2>0, <2>1, <2>2, <3>1, Goes
  <2>4. Tame(s)
    BY <1>0, <2>1, <2>3, StillTame
  <2>5. Holds(job[s], r, state[r]) => Holds(job'[s], r, state[r])
    BY <2>1, <2>3 DEF Holds, Assigns, Lists
  <2> QED
    BY <1>2, <2>0, <2>1, <2>4, <2>5, OneRowHeld DEF Now
<1>5. CASE Await(s) \/ Verify(s)
  <2>0. PICK r \in Row : r = job[s].row
    BY <1>2, <1>5 DEF Await, Verify, Running
  <2> DEFINE a == OwnerOrMaya(r)
  <2>1. PICK to \in {"awaiting_approval", "verified"} :
            /\ job[s].fn = "runChecks" /\ job[s].pc = IF to = "verified" THEN "verify" ELSE "await"
            /\ MoveThenSend(s, to, a, to)
    BY <1>5, <2>0 DEF Await, Verify, Running
  <2>2. Tame(s) /\ Refused(r, to, a) /\ Holds(job[s], r, state[r]) => Held(r)'
    <3> SUFFICES ASSUME Tame(s), Refused(r, to, a), Holds(job[s], r, state[r]) PROVE Held(r)'
      OBVIOUS
    <3>1. state[r] = "completed_pending_check" /\ state'[r] = state[r]
      BY <2>0, <2>1 DEF Holds, Assigns, Lists, Refused, ledgerVars
    <3>2. to = "verified" => r \in passing \ HumanCheck
      BY <2>0, <2>1 DEF Now, Informed, Sound
    <3>3. a \in revoked \/ (to = "verified" /\ ~VerifiedGate(r))
      BY <2>1, <3>1, <3>2, WhyRefused DEF Staffed, Edges, Settled
    <3>4. CASE a \in revoked
      <4>1. Owner[r] \in revoked
        BY <3>4, WhoIsRevoked DEF Staffed, Now
      <4> QED
        BY <2>1, <3>1, <4>1, StoppedHeld DEF AtWorkStates
    <3>5. CASE to = "verified" /\ ~VerifiedGate(r)
      <4>1. Required[r] # {}
        BY <3>2, <3>5 DEF VerifiedGate
      <4> QED
        BY <3>1, <3>2, <3>5, <4>1 DEF Held, MayRest
    <3> QED
      BY <3>3, <3>4, <3>5
  <2> QED
    BY <1>0, <1>2, <2>0, <2>1, <2>2, SendHeld
<1>6. CASE HandBack(s)
  <2>0. PICK r \in Row : r = job[s].row
    BY <1>2, <1>6 DEF HandBack, Running
  <2> DEFINE a == OwnerOrMaya(r)
  <2>1. /\ job[s].fn = "runChecks" /\ job[s].pc = "handback"
        /\ \/ Moved(r, "handed_back", a) /\ Send("assigned", r) /\ Finish(s)
           \/ Moved(r, "handed_back", a) /\ UNCHANGED pending /\ Goto(s, "exhausted")
           \/ Refused(r, "handed_back", a) /\ UNCHANGED pending /\ Finish(s)
    BY <1>6, <2>0 DEF HandBack, Running
  <2>2. \A t \in Slot \ {s} : job'[t] = job[t]
    BY <1>1, <2>1, Goes, Ends DEF Jobbed, Place
  <2>3. /\ \A n \in EventName, q \in Row : pending[n][q] > 0 => pending'[n][q] > 0
        /\ Send("assigned", r) => pending'["assigned"][r] > 0
    <3>1. CASE Send("assigned", r)
      <4>1. \A n \in EventName, q \in Row : pending[n][q] \in Nat
        BY <1>1
      <4>2. pending'["assigned"][r] = pending["assigned"][r] + 1
        BY <1>1, <3>1, Sends
      <4>3. \A n \in EventName, q \in Row : n # "assigned" \/ q # r => pending'[n][q] = pending[n][q]
        BY <1>1, <3>1, Sends
      <4>4. pending'["assigned"][r] > 0
        BY <1>1, <4>1, <4>2
      <4> QED
        BY <4>3, <4>4
    <3>2. CASE ~Send("assigned", r)
      BY <2>1, <3>2
    <3> QED
      BY <3>1, <3>2
  <2>4. Tame(s)
    BY <1>0, <1>1, <2>1, <2>2, <2>3, MoveTame DEF State
  <2>5. \A q \in Row \ {r} : state'[q] = state[q]
    BY <1>1, <2>1, MoveRows DEF State
  <2>6. CASE Moved(r, "handed_back", a)
    <3>1. state'[r] \in {"handed_back", "escalated"} /\ "handed_back" \in Edges[state[r]]
      BY <1>1, <2>6, MoveRows DEF State
    <3>2. ASSUME Send("assigned", r) PROVE Held(r)'
      BY <2>3, <3>1, <3>2 DEF Held, MayRest, Announced
    <3>3. ASSUME Goto(s, "exhausted") PROVE Held(r)'
      <4>1. job'[s].fn = "runChecks" /\ job'[s].row = r /\ job'[s].pc = "exhausted"
        BY <1>1, <2>0, <2>1, <3>3, Goes DEF Place
      <4> QED
        BY <3>1, <4>1 DEF Held, MayRest, Holds
    <3>4. ASSUME Refused(r, "handed_back", a) PROVE Held(r)'
      <4>1. state'[r] = state[r]
        BY <3>4 DEF Refused, ledgerVars
      <4>2. state'[r] = "escalated"
        BY <3>1, <4>1 DEF Edges
      <4> QED
        BY <4>2 DEF Held, MayRest
    <3>5. Held(r)'
      BY <2>1, <3>2, <3>3, <3>4
    <3> QED
      BY <1>2, <2>0, <2>1, <2>4, <2>5, <3>5, OneRowHeld DEF Now
  <2>7. CASE Refused(r, "handed_back", a)
    <3>1. state'[r] = state[r]
      BY <2>7 DEF Refused, ledgerVars
    <3>2. ASSUME Holds(job[s], r, state[r]) PROVE Held(r)'
      <4>1. state[r] = "completed_pending_check"
        BY <2>0, <2>1, <3>2 DEF Holds, Assigns, Lists
      <4>2. a \in revoked
        BY <2>7, <4>1, WhyRefused DEF Staffed, Edges, Settled
      <4>3. Owner[r] \in revoked
        BY <4>2, WhoIsRevoked DEF Staffed, Now
      <4> QED
        BY <2>1, <2>4, <3>1, <4>1, <4>3, StoppedHeld DEF AtWorkStates
    <3> QED
      BY <1>2, <2>0, <2>1, <2>4, <2>5, <3>1, <3>2, OneRowHeld DEF Now
  <2> QED
    BY <2>1, <2>6, <2>7
<1>7. CASE Exhausted(s)
  <2>0. PICK r \in Row : r = job[s].row
    BY <1>2, <1>7 DEF Exhausted, Running
  <2> DEFINE a == OwnerOrMaya(r)
  <2>1. job[s].fn = "runChecks" /\ job[s].pc = "exhausted" /\ MoveThenFinish(s, "escalated", a)
    BY <1>7, <2>0 DEF Exhausted, Running
  <2>2. Tame(s) /\ Refused(r, "escalated", a) /\ Holds(job[s], r, state[r]) => Held(r)'
    <3> SUFFICES ASSUME Tame(s), Refused(r, "escalated", a), Holds(job[s], r, state[r]) PROVE Held(r)'
      OBVIOUS
    <3>1. state[r] = "handed_back" /\ state'[r] = state[r]
      BY <2>0, <2>1 DEF Holds, Assigns, Lists, Refused, ledgerVars
    <3>2. a \in revoked
      BY <3>1, WhyRefused DEF Staffed, Edges, Settled
    <3>3. came.toggles > 0
      BY <3>2, WhoIsRevoked DEF Staffed, Now
    <3> QED
      BY <1>0, <3>1, <3>3 DEF Held, MayRest
  <2> QED
    BY <1>0, <1>2, <2>0, <2>1, <2>2, FinishHeld DEF State, Settled
<1> QED
  BY <1>3, <1>4, <1>5, <1>6, <1>7 DEF RunChecksNext

LEMMA UnblockHeld ==
    ASSUME Staffed, Now, NEW s \in Slot, UnblockNext(s), UNCHANGED <<pressed, surfaceVars, outsideVars>>
    PROVE  AllHeld'
<1>0. UNCHANGED <<told, came, contracting, pressed, used>>
  BY DEF surfaceVars, outsideVars
<1>1. /\ Typed /\ Jobbed /\ pending \in [EventName -> [Row -> Nat]]
      /\ "assigned" \in EventName /\ "verified" \in EventName
  BY DEF Now, Typed, Pendings, EventName
<1>2. job[s].fn = "unblock" => job[s].row \in Row /\ job[s] \in UnblockJob
  BY <1>1, JobKinds DEF Jobbed, UnblockJob
<1>3. Requester \notin revoked /\ Requester \in Person
  BY WhoIsRevoked DEF Now, Staffed, PeopleStay
<1>4. ASSUME NEW r \in Row, StartUnblock(s, r) PROVE AllHeld'
  <2> DEFINE seen == [ready |-> {}, released |-> {}]
  <2>1. /\ UNCHANGED <<state, attempts>> /\ Take("verified", r)
        /\ Start(s, "unblock", r, "close", seen)
    BY <1>4 DEF StartUnblock, ledgerVars
  <2>2. job'[s] = [fn |-> "unblock", row |-> r, pc |-> "close", seen |-> seen]
    BY <1>1, <2>1 DEF Start, Jobbed
  <2>3. \A n \in EventName, q \in Row : n # "verified" \/ q # r => pending'[n][q] = pending[n][q]
    BY <1>1, <2>1, Takes
  <2>4. ASSUME NEW q \in Row, Announced(q) PROVE Held(q)'
    <3>1. CASE state[q] = "blocked" \/ (state[q] = "verified" /\ q = r)
      BY <2>1, <2>2, <3>1 DEF Held, Holds
    <3>2. CASE state[q] # "blocked" /\ (state[q] # "verified" \/ q # r)
      BY <1>0, <2>1, <2>3, <2>4, <3>2 DEF Held, Announced, EventName
    <3> QED
      BY <3>1, <3>2
  <2> QED
    BY <1>0, <2>1, <2>4, StartHeld
<1>5. CASE Close(s)
  <2>0. PICK r \in Row : r = job[s].row
    BY <1>2, <1>5 DEF Close, Running
  <2>1. /\ job[s].fn = "unblock" /\ job[s].pc = "close" /\ UNCHANGED pending /\ Goto(s, "find")
        /\ Moved(r, "done", Requester) \/ Refused(r, "done", Requester)
    BY <1>5, <2>0 DEF Close, Running
  <2>2. /\ \A t \in Slot \ {s} : job'[t] = job[t]
        /\ job'[s].fn = "unblock" /\ job'[s].pc = "find"
    BY <1>1, <2>1, Goes DEF Place
  <2>3. Tame(s)
    BY <1>0, <1>1, <2>1, <2>2, MoveTame DEF State
  <2>4. /\ \A q \in Row \ {r} : state'[q] = state[q]
        /\ Moved(r, "done", Requester) => state'[r] \in {"done", "escalated"}
        /\ Refused(r, "done", Requester) => state'[r] = state[r]
    BY <1>1, <2>1, MoveRows DEF State
  <2>5. Moved(r, "done", Requester) => Held(r)'
    BY <2>4 DEF Held, MayRest
  <2>6. ASSUME NEW q \in Row, Holds(job[s], q, state[q])
        PROVE  Holds(job'[s], q, state[q]) \/ Held(q)'
    <3>1. state[q] = "blocked" \/ (state[q] = "verified" /\ q = r)
      BY <2>0, <2>1, <2>6 DEF Holds, Assigns, Lists
    <3>2. CASE state[q] = "blocked"
      BY <2>2, <3>2 DEF Holds
    <3>3. CASE state[q] = "verified" /\ q = r
      <4>1. ~Refused(r, "done", Requester)
        BY <1>3, <3>3, WhyRefused DEF Staffed, Edges, Settled
      <4> QED
        BY <2>1, <2>5, <3>3, <4>1
    <3> QED
      BY <3>1, <3>2, <3>3
  <2> QED
    BY <2>1, <2>3, <2>4, <2>5, <2>6, TameHeld DEF Now
<1>6. CASE Find(s)
  <2> DEFINE found == {r \in Row : /\ state[r] = "blocked"
                                   /\ Blocker[r] # {}
                                   /\ \A b \in Blocker[r] : state[b] \in Settled}
             seen == [ready |-> found, released |-> {}]
  <2>1. /\ job[s].fn = "unblock" /\ job[s].pc = "find" /\ Recall(s, "release", seen)
        /\ UNCHANGED <<state, attempts, pending>>
    BY <1>6 DEF Find, Running, ledgerVars
  <2>2. /\ \A t \in Slot \ {s} : job'[t] = job[t]
        /\ job'[s].fn = "unblock" /\ job'[s].pc = "release" /\ job'[s].seen.ready = found
    <3> HIDE DEF found
    <3>1. /\ job'[s] = [fn |-> job[s].fn, row |-> job[s].row, pc |-> "release", seen |-> seen]
          /\ \A t \in Slot \ {s} : job'[t] = job[t]
      <4>1. job[s].fn # "idle" /\ Recall(s, "release", seen)
        BY <2>1
      <4> QED
        BY <1>1, <4>1, Recalls, Zenon
    <3> QED
      BY <2>1, <3>1
  <2>3. Tame(s)
    BY <1>0, <2>1, <2>2, StillTame
  <2>4. ASSUME NEW q \in Row, Holds(job[s], q, state[q])
        PROVE  Holds(job'[s], q, state[q]) \/ Held(q)'
    <3>1. state[q] = "blocked"
      BY <2>1, <2>4 DEF Holds, Assigns, Lists
    <3>2. Blocker[q] # {}
      BY <3>1 DEF Now, AllOpen, Open
    <3>3. CASE \A b \in Blocker[q] : state[b] \in Settled
      <4>1. q \in found
        BY <3>1, <3>2, <3>3
      <4> QED
        BY <2>2, <3>1, <4>1 DEF Holds
    <3>4. CASE \E b \in Blocker[q] : state[b] \notin Settled
      BY <2>1, <3>1, <3>4 DEF Held, MayRest
    <3> QED
      BY <3>3, <3>4
  <2> QED
    BY <2>1, <2>3, <2>4, TameHeld DEF Now
<1>7. CASE Release(s)
  <2>1. job[s] \in UnblockJob /\ job[s].fn = "unblock" /\ job[s].pc = "release" /\ UNCHANGED pending
    BY <1>2, <1>7 DEF Release, Running
  <2>2. PICK r \in job[s].seen.ready :
           \/ /\ Moved(r, "contracted", Requester)
              /\ Recall(s, "release", [ready |-> job[s].seen.ready \ {r},
                                       released |-> job[s].seen.released \cup {r}])
           \/ /\ Refused(r, "contracted", Requester)
              /\ Recall(s, "release", [job[s].seen EXCEPT !.ready = @ \ {r}])
    BY <1>7 DEF Release
  <2>3. r \in Row
    BY <2>1, <2>2 DEF UnblockJob
  <2>4. PICK seen :
           /\ Recall(s, "release", seen)
           /\ seen.ready = job[s].seen.ready \ {r}
           /\ \/ Moved(r, "contracted", Requester) /\ seen.released = job[s].seen.released \cup {r}
              \/ Refused(r, "contracted", Requester) /\ seen.released = job[s].seen.released
    <3>1. /\ [job[s].seen EXCEPT !.ready = @ \ {r}].ready = job[s].seen.ready \ {r}
          /\ [job[s].seen EXCEPT !.ready = @ \ {r}].released = job[s].seen.released
      BY <2>1 DEF UnblockJob
    <3>2. CASE /\ Moved(r, "contracted", Requester)
               /\ Recall(s, "release", [ready |-> job[s].seen.ready \ {r},
                                        released |-> job[s].seen.released \cup {r}])
      <4> WITNESS [ready |-> job[s].seen.ready \ {r}, released |-> job[s].seen.released \cup {r}]
      <4> QED
        BY <3>2
    <3>3. CASE /\ Refused(r, "contracted", Requester)
               /\ Recall(s, "release", [job[s].seen EXCEPT !.ready = @ \ {r}])
      <4> WITNESS [job[s].seen EXCEPT !.ready = @ \ {r}]
      <4> QED
        BY <3>1, <3>3
    <3> QED
      BY <2>2, <3>2, <3>3
  <2>5. /\ \A t \in Slot \ {s} : job'[t] = job[t]
        /\ job'[s].fn = "unblock" /\ job'[s].pc = "release" /\ job'[s].seen = seen
    <3>1. /\ job'[s] = [fn |-> job[s].fn, row |-> job[s].row, pc |-> "release", seen |-> seen]
          /\ \A t \in Slot \ {s} : job'[t] = job[t]
      <4>1. job[s].fn # "idle" /\ Recall(s, "release", seen)
        BY <2>1, <2>4
      <4> QED
        BY <1>1, <4>1, Recalls, Zenon
    <3> QED
      BY <2>1, <3>1
  <2>6. Tame(s)
    BY <1>0, <1>1, <2>1, <2>3, <2>4, <2>5, MoveTame DEF State
  <2>7. /\ \A q \in Row \ {r} : state'[q] = state[q]
        /\ Moved(r, "contracted", Requester) => state'[r] \in {"contracted", "escalated"}
        /\ Refused(r, "contracted", Requester) => state'[r] = state[r]
    BY <1>1, <2>3, <2>4, MoveRows DEF State
  <2>8. Moved(r, "contracted", Requester) /\ r \in seen.released => Held(r)'
    BY <2>3, <2>5, <2>7 DEF Held, MayRest, Holds, Assigns
  <2>9. ASSUME NEW q \in Row, Holds(job[s], q, state[q])
        PROVE  Holds(job'[s], q, state[q]) \/ Held(q)'
    <3>1. \/ state[q] = "blocked" /\ q \in job[s].seen.ready
          \/ state[q] \in {"contracted", "handed_back"} /\ q \in job[s].seen.released
      BY <2>1, <2>9 DEF Holds, Assigns, Lists
    <3>2. CASE state[q] \in {"contracted", "handed_back"} /\ q \in job[s].seen.released
      BY <2>4, <2>5, <3>2 DEF Holds, Assigns
    <3>3. CASE state[q] = "blocked" /\ q \in job[s].seen.ready /\ q # r
      BY <2>4, <2>5, <3>3 DEF Holds
    <3>4. CASE state[q] = "blocked" /\ q = r
      <4>1. ~Refused(r, "contracted", Requester)
        BY <1>3, <2>3, <3>4, WhyRefused DEF Staffed, Edges, Settled
      <4> QED
        BY <2>4, <2>8, <3>4, <4>1
    <3> QED
      BY <3>1, <3>2, <3>3, <3>4
  <2>10. \A q \in Row : state'[q] # state[q] => Held(q)'
    BY <2>4, <2>7, <2>8
  <2> QED
    BY <2>6, <2>9, <2>10, TameHeld DEF Now
<1>8. CASE Assign(s)
  <2>1. /\ job[s].fn = "unblock" /\ job[s].pc = "release" /\ UNCHANGED <<state, attempts>>
        /\ job[s].seen.ready = {} /\ Goto(s, "close_run")
        /\ pending' = [pending EXCEPT !["assigned"] =
                          [r \in Row |-> @[r] + IF r \in job[s].seen.released THEN 1 ELSE 0]]
    BY <1>8 DEF Assign, Running, ledgerVars
  <2>2. /\ \A n \in EventName, q \in Row : pending[n][q] > 0 => pending'[n][q] > 0
        /\ \A q \in job[s].seen.released : q \in Row => pending'["assigned"][q] > 0
    <3>1. \A q \in Row :
              pending'["assigned"][q] = pending["assigned"][q] + IF q \in job[s].seen.released THEN 1 ELSE 0
      BY <1>1, <2>1, SendsAll, Zenon
    <3>2. \A n \in EventName \ {"assigned"} : pending'[n] = pending[n]
      BY <1>1, <2>1, SendsAll, Zenon
    <3>3. \A n \in EventName, q \in Row : pending[n][q] \in Nat
      BY <1>1
    <3> QED
      BY <1>1, <3>1, <3>2, <3>3
  <2>3. \A t \in Slot \ {s} : job'[t] = job[t]
    BY <1>1, <2>1, Goes DEF Place
  <2>4. Tame(s)
    BY <1>0, <2>1, <2>2, <2>3, StillTame
  <2>5. ASSUME NEW q \in Row, Holds(job[s], q, state[q]) PROVE Held(q)'
    <3>1. state[q] \in {"contracted", "handed_back"} /\ q \in job[s].seen.released
      BY <2>1, <2>5 DEF Holds, Assigns, Lists
    <3> QED
      BY <2>1, <2>2, <3>1 DEF Held, Announced
  <2> QED
    BY <2>1, <2>4, <2>5, TameHeld DEF Now
<1>9. CASE CloseRun(s)
  <2>1. job[s].fn = "unblock" /\ job[s].pc = "close_run" /\ Finish(s) /\ UNCHANGED <<state, attempts, pending>>
    BY <1>9 DEF CloseRun, Running, ledgerVars
  <2>2. Tame(s)
    BY <1>0, <1>1, <2>1, Ends, StillTame DEF Jobbed
  <2>3. \A q \in Row : ~Holds(job[s], q, state[q])
    BY <2>1 DEF Holds, Lists, Assigns
  <2> QED
    BY <2>1, <2>2, <2>3, TameHeld DEF Now
<1> QED
  BY <1>4, <1>5, <1>6, <1>7, <1>8, <1>9 DEF UnblockNext

LEMMA ApprovalsHeld ==
    ASSUME Staffed, Now, NEW s \in Slot, ApprovalsStep(s), UNCHANGED <<surfaceVars, outsideVars>>
    PROVE  AllHeld'
<1>0. UNCHANGED <<told, came, contracting, used>>
  BY DEF surfaceVars, outsideVars
<1>1. /\ Typed /\ Jobbed /\ pending \in [EventName -> [Row -> Nat]]
      /\ "assigned" \in EventName /\ "awaiting_approval" \in EventName
  BY DEF Now, Typed, Pendings, EventName
<1>2. job[s].fn \in {"approvals", "settle"} => job[s].row \in Row /\ job[s].fn \in OneRow
  BY <1>1, JobRow DEF Jobbed, Rowless, OneRow
<1>3. job[s].fn = "settle" => \A q \in Row : ~Holds(job[s], q, state[q])
  BY DEF Holds, Assigns, Lists
<1>4. ASSUME NEW r \in Row, StartWatch(s, r) PROVE AllHeld'
  <2> DEFINE seen == [press |-> 0]
  <2>1. /\ UNCHANGED <<state, attempts, pressed>> /\ Take("awaiting_approval", r)
        /\ Start(s, "approvals", r, "wait", seen)
    BY <1>4 DEF StartWatch, ledgerVars
  <2>2. job'[s] = [fn |-> "approvals", row |-> r, pc |-> "wait", seen |-> seen]
    BY <1>1, <2>1 DEF Start, Jobbed
  <2>3. \A n \in EventName, q \in Row : n # "awaiting_approval" \/ q # r => pending'[n][q] = pending[n][q]
    BY <1>1, <2>1, Takes
  <2>4. ASSUME NEW q \in Row, Announced(q) PROVE Held(q)'
    <3>1. CASE state[q] = "awaiting_approval" /\ q = r
      BY <2>1, <2>2, <3>1 DEF Held, Holds
    <3>2. CASE ~(state[q] = "awaiting_approval" /\ q = r)
      BY <1>0, <2>1, <2>3, <2>4, <3>2 DEF Held, Announced, EventName
    <3> QED
      BY <3>1, <3>2
  <2> QED
    BY <1>0, <2>1, <2>4, StartHeld
<1>5. CASE WindowCloses(s) \/ Look(s)
  <2>0. PICK r \in Row : r = job[s].row
    BY <1>2, <1>5 DEF WindowCloses, Look, Running
  <2>1. job[s].fn = "approvals" /\ UNCHANGED <<state, attempts, pending, pressed>>
    BY <1>5, <2>0 DEF WindowCloses, Look, Running, ledgerVars
  <2>2. /\ \A t \in Slot \ {s} : job'[t] = job[t]
        /\ \/ job'[s].fn = "approvals" /\ job'[s].row = r
           \/ state[r] # "awaiting_approval"
    <3>1. ASSUME NEW pc \in Place, Goto(s, pc)
          PROVE  (\A t \in Slot \ {s} : job'[t] = job[t]) /\ job'[s].fn = "approvals" /\ job'[s].row = r
      BY <1>1, <2>0, <2>1, <3>1, Goes
    <3>2. ASSUME NEW pc, NEW seen, Recall(s, pc, seen)
          PROVE  (\A t \in Slot \ {s} : job'[t] = job[t]) /\ job'[s].fn = "approvals" /\ job'[s].row = r
      <4>1. /\ job'[s] = [fn |-> job[s].fn, row |-> job[s].row, pc |-> pc, seen |-> seen]
            /\ \A t \in Slot \ {s} : job'[t] = job[t]
        <5>1. job[s].fn # "idle"
          BY <2>1
        <5> QED
          BY <1>1, <3>2, <5>1, Recalls, Zenon
      <4> QED
        BY <2>0, <2>1, <4>1
    <3>3. Finish(s) => \A t \in Slot \ {s} : job'[t] = job[t]
      BY <1>1, Ends DEF Jobbed
    <3>4. CASE WindowCloses(s)
      BY <3>1, <3>4 DEF WindowCloses, Place
    <3>5. CASE Look(s)
      BY <2>0, <3>1, <3>2, <3>3, <3>5 DEF Look, Place
    <3> QED
      BY <1>5, <3>4, <3>5
  <2>3. Tame(s)
    BY <1>0, <2>1, <2>2, StillTame
  <2>4. Holds(job[s], r, state[r]) => Holds(job'[s], r, state[r])
    BY <2>1, <2>2 DEF Holds, Assigns, Lists
  <2> QED
    BY <1>2, <2>0, <2>1, <2>3, <2>4, OneRowHeld DEF Now
<1>6. CASE StopWaiting(s)
  <2>0. PICK r \in Row : r = job[s].row
    BY <1>2, <1>6 DEF StopWaiting, Running
  <2> DEFINE a == OwnerOrMaya(r)
  <2>1. job[s].fn = "approvals" /\ MoveThenFinish(s, "escalated", a) /\ UNCHANGED pressed
    BY <1>6, <2>0 DEF StopWaiting, Running
  <2>2. Tame(s) /\ Refused(r, "escalated", a) /\ Holds(job[s], r, state[r]) => Held(r)'
    <3> SUFFICES ASSUME Tame(s), Refused(r, "escalated", a), Holds(job[s], r, state[r]) PROVE Held(r)'
      OBVIOUS
    <3>1. state[r] = "awaiting_approval" /\ state'[r] = state[r]
      BY <2>0, <2>1 DEF Holds, Assigns, Lists, Refused, ledgerVars
    <3>2. a \in revoked
      BY <3>1, WhyRefused DEF Staffed, Edges, Settled
    <3>3. Owner[r] \in revoked
      BY <3>2, WhoIsRevoked DEF Staffed, Now
    <3> QED
      BY <2>1, <3>1, <3>3, StoppedHeld DEF AtWorkStates
  <2> QED
    BY <1>0, <1>2, <2>0, <2>1, <2>2, FinishHeld DEF State, Settled
<1>7. CASE LoadSettle(s) \/ Reason(s) \/ RecordApproval(s)
  <2>1. job[s].fn = "settle" /\ UNCHANGED <<state, attempts, pending, pressed>>
    BY <1>7 DEF LoadSettle, Reason, RecordApproval, RecordPass, Running, ledgerVars
  <2>2. \A t \in Slot \ {s} : job'[t] = job[t]
    <3>1. CASE LoadSettle(s)
      BY <1>1, <3>1, Ends DEF LoadSettle, Recall, Jobbed
    <3>2. CASE Reason(s) \/ RecordApproval(s)
      BY <1>1, <3>2 DEF Reason, RecordApproval, Goto, Jobbed
    <3> QED
      BY <1>7, <3>1, <3>2
  <2>3. Tame(s)
    BY <1>0, <2>1, <2>2, StillTame
  <2> QED
    BY <1>3, <2>1, <2>3, TameHeld DEF Now
<1>8. CASE VerifyApproved(s)
  <2>0. PICK r \in Row : r = job[s].row
    BY <1>2, <1>8 DEF VerifyApproved, Running
  <2>1. job[s].fn = "settle" /\ MoveThenSend(s, "verified", job[s].seen.actor, "verified") /\ UNCHANGED pressed
    BY <1>8 DEF VerifyApproved, Running
  <2> QED
    BY <1>0, <1>2, <1>3, <2>0, <2>1, SendHeld
<1>9. CASE HandBackDecided(s)
  <2>0. PICK r \in Row : r = job[s].row
    BY <1>2, <1>9 DEF HandBackDecided, Running
  <2> DEFINE a == job[s].seen.actor
  <2>1. /\ job[s].fn = "settle" /\ Finish(s) /\ UNCHANGED pressed
        /\ \/ Moved(r, "handed_back", a) /\ Send("assigned", r)
           \/ Moved(r, "handed_back", a) /\ ~AttemptsLeft(r, job[s].seen.attempts) /\ UNCHANGED pending
           \/ Refused(r, "handed_back", a) /\ UNCHANGED pending
    BY <1>9, <2>0 DEF HandBackDecided, Running
  <2>2. \A t \in Slot \ {s} : job'[t] = job[t]
    BY <1>1, <2>1, Ends DEF Jobbed
  <2>3. /\ \A n \in EventName, q \in Row : pending[n][q] > 0 => pending'[n][q] > 0
        /\ Send("assigned", r) => pending'["assigned"][r] > 0
    <3>1. CASE Send("assigned", r)
      <4>1. \A n \in EventName, q \in Row : pending[n][q] \in Nat
        BY <1>1
      <4>2. pending'["assigned"][r] = pending["assigned"][r] + 1
        BY <1>1, <3>1, Sends
      <4>3. \A n \in EventName, q \in Row : n # "assigned" \/ q # r => pending'[n][q] = pending[n][q]
        BY <1>1, <3>1, Sends
      <4>4. pending'["assigned"][r] > 0
        BY <1>1, <4>1, <4>2
      <4> QED
        BY <4>3, <4>4
    <3>2. CASE ~Send("assigned", r)
      BY <2>1, <3>2
    <3> QED
      BY <3>1, <3>2
  <2>4. Tame(s)
    BY <1>0, <1>1, <2>1, <2>2, <2>3, MoveTame DEF State
  <2>5. /\ \A q \in Row \ {r} : state'[q] = state[q]
        /\ Moved(r, "handed_back", a) => state'[r] \in {"handed_back", "escalated"}
        /\ Refused(r, "handed_back", a) => state'[r] = state[r]
    BY <1>1, <2>1, MoveRows DEF State
  <2>6. ASSUME Moved(r, "handed_back", a) /\ Send("assigned", r) PROVE Held(r)'
    BY <2>3, <2>5, <2>6 DEF Held, MayRest, Announced
  <2>7. ASSUME Moved(r, "handed_back", a) /\ ~AttemptsLeft(r, job[s].seen.attempts) PROVE Held(r)'
    <3>1. CASE state'[r] = "escalated"
      BY <3>1 DEF Held, MayRest
    <3>2. CASE state'[r] = "handed_back"
      <4>1. attempts'[r] = attempts[r]
        BY <1>1, <2>7, <3>2, MovedEffect DEF State
      <4>2. pressed > 0 /\ job[s].seen.attempts <= attempts[r]
        <5>1. job[s].pc = "handback"
          BY <1>9 DEF HandBackDecided, Running
        <5> QED
          BY <2>0, <2>1, <5>1 DEF Now, Informed, Sound
      <4>3. attempts[r] \in Nat /\ MaxAttempts[r] \in Nat /\ job[s].seen.attempts \in Nat
        <5>1. job[s] \in SettleJob
          BY <1>1, <2>1, JobKinds DEF Jobbed
        <5> QED
          BY <1>1, <5>1, Numbers DEF SettleJob
      <4>4. attempts'[r] >= MaxAttempts[r]
        BY <2>7, <4>1, <4>2, <4>3 DEF AttemptsLeft
      <4> QED
        BY <2>1, <3>2, <4>2, <4>4 DEF Held, MayRest
    <3> QED
      BY <2>5, <2>7, <3>1, <3>2
  <2>8. state'[r] # state[r] => Held(r)'
    BY <2>1, <2>5, <2>6, <2>7
  <2> QED
    BY <1>2, <1>3, <2>0, <2>1, <2>4, <2>5, <2>8, OneRowHeld DEF Now
<1> QED
  BY <1>4, <1>5, <1>6, <1>7, <1>8, <1>9 DEF ApprovalsStep

\* The rows that were contracted or released are announced together.
LEMMA BatchHeld ==
    ASSUME Now, NEW s \in Slot, NEW rows,
           pending' = [pending EXCEPT !["assigned"] =
                          [r \in Row |-> @[r] + IF r \in rows THEN 1 ELSE 0]],
           UNCHANGED <<state, attempts, told, came, contracting, pressed, used>>,
           \A t \in Slot \ {s} : job'[t] = job[t],
           \A q \in Row : Holds(job[s], q, state[q]) =>
               state[q] \in {"contracted", "handed_back"} /\ q \in rows
    PROVE  AllHeld'
<1>1. pending \in [EventName -> [Row -> Nat]] /\ "assigned" \in EventName
  BY DEF Now, Typed, Pendings, EventName
<1>2. /\ \A n \in EventName, q \in Row : pending[n][q] > 0 => pending'[n][q] > 0
      /\ \A q \in rows : q \in Row => pending'["assigned"][q] > 0
  <2>1. \A q \in Row :
            pending'["assigned"][q] = pending["assigned"][q] + IF q \in rows THEN 1 ELSE 0
    BY <1>1, SendsAll, Zenon
  <2>2. \A n \in EventName \ {"assigned"} : pending'[n] = pending[n]
    BY <1>1, SendsAll, Zenon
  <2>3. \A n \in EventName, q \in Row : pending[n][q] \in Nat
    BY <1>1
  <2> QED
    BY <1>1, <2>1, <2>2, <2>3
<1>3. Tame(s)
  BY <1>2, StillTame
<1>4. \A q \in Row : Holds(job[s], q, state[q]) => Held(q)'
  BY <1>2 DEF Held, Announced
<1> QED
  BY <1>3, <1>4, TameHeld DEF Now

LEMMA SurfacesHeld ==
    ASSUME Staffed, Now, BlockedInTime, NEW s \in Slot, SurfacesStep(s), UNCHANGED <<pressed, outsideVars>>
    PROVE  AllHeld'
<1>0. UNCHANGED <<told, came, contracting, pressed, used>>
  <2>1. UNCHANGED surfaceVars
    BY Zenon DEF SurfacesStep, Contract, SendContracted, EditHandsBack, EditEscalates, EditReassigns, Sweep
  <2> QED
    BY <2>1 DEF surfaceVars, outsideVars
<1>1. /\ Typed /\ Jobbed /\ pending \in [EventName -> [Row -> Nat]]
      /\ "assigned" \in EventName
  BY DEF Now, Typed, Pendings, EventName
<1>2. job[s].fn = "edit" => job[s].row \in Row /\ job[s].fn \in OneRow
  BY <1>1, JobRow DEF Jobbed, Rowless, OneRow
<1>3. CASE Contract(s)
  <2>1. job[s] \in ContractJob /\ job[s].fn = "contractRun" /\ UNCHANGED pending
    BY <1>1, <1>3, ContractStep
  <2>2. PICK r \in job[s].seen.rows, target \in {"blocked", "contracted"}, started \in SUBSET Row :
            /\ \/ Moved(r, target, job[s].seen.actor)
                  /\ started = job[s].seen.started \cup IF target = "blocked" THEN {} ELSE {r}
               \/ Refused(r, target, job[s].seen.actor) /\ started = job[s].seen.started
            /\ target = "blocked" <=> Blocker[r] # {}
            /\ Recall(s, "rows", [actor |-> job[s].seen.actor, rows |-> job[s].seen.rows \ {r},
                                  started |-> started])
    BY <1>1, <1>3, ContractStep
  <2> DEFINE a == job[s].seen.actor
             seen == [actor |-> a, rows |-> job[s].seen.rows \ {r}, started |-> started]
  <2>3. r \in Row /\ target \in State
    BY <2>1 DEF ContractJob, State
  <2>4. a \in Person /\ a \notin revoked
    BY <2>1, WhoIsRevoked DEF Now, Informed, Sound, Staffed
  <2>5. /\ \A t \in Slot \ {s} : job'[t] = job[t]
        /\ job'[s].fn = "contractRun" /\ job'[s].seen.rows = job[s].seen.rows \ {r}
        /\ job'[s].seen.started = started
    <3>1. /\ job'[s] = [fn |-> job[s].fn, row |-> job[s].row, pc |-> "rows", seen |-> seen]
          /\ \A t \in Slot \ {s} : job'[t] = job[t]
      <4>1. job[s].fn # "idle" /\ Recall(s, "rows", seen)
        BY <2>1, <2>2
      <4> QED
        BY <1>1, <4>1, Recalls, Zenon
    <3> QED
      BY <2>1, <3>1
  <2>6. Tame(s)
    BY <1>0, <1>1, <2>1, <2>2, <2>3, <2>5, MoveTame
  <2>7. /\ \A q \in Row \ {r} : state'[q] = state[q]
        /\ Moved(r, target, a) => target \in Edges[state[r]] /\ state'[r] \in {target, "escalated"}
        /\ Refused(r, target, a) => state'[r] = state[r]
    BY <1>1, <2>2, <2>3, MoveRows
  <2>8. ASSUME Moved(r, target, a), started = job[s].seen.started \cup IF target = "blocked" THEN {} ELSE {r}
        PROVE  Held(r)'
    <3>1. CASE state'[r] = "escalated"
      BY <3>1 DEF Held, MayRest
    <3>2. CASE state'[r] = "contracted"
      BY <2>5, <2>7, <2>8, <3>2 DEF Held, Holds, Assigns
    <3>3. CASE state'[r] = "blocked"
      <4>1. state[r] # "blocked"
        BY <2>7, <2>8, <3>3 DEF Edges
      <4>2. ~Opened(r)'
        BY <2>3, <3>3, <4>1 DEF BlockedInTime
      <4> QED
        BY <3>3, <4>2 DEF Held, MayRest, Opened
    <3> QED
      BY <2>7, <2>8, <3>1, <3>2, <3>3
  <2>9. ASSUME NEW q \in Row, Holds(job[s], q, state[q])
        PROVE  Holds(job'[s], q, state[q]) \/ Held(q)'
    <3>1. \/ state[q] = "drafted" /\ q \in job[s].seen.rows
          \/ state[q] \in {"contracted", "handed_back"} /\ q \in job[s].seen.started
      BY <2>1, <2>9 DEF Holds, Assigns, Lists
    <3>2. CASE state[q] \in {"contracted", "handed_back"} /\ q \in job[s].seen.started
      BY <2>2, <2>5, <3>2 DEF Holds, Assigns
    <3>3. CASE state[q] = "drafted" /\ q \in job[s].seen.rows /\ q # r
      BY <2>5, <3>3 DEF Holds, Lists
    <3>4. CASE state[q] = "drafted" /\ q = r
      <4>1. ~Refused(r, target, a)
        BY <2>3, <2>4, <3>4, WhyRefused DEF Staffed, Edges, Settled
      <4> QED
        BY <2>2, <2>8, <3>4, <4>1
    <3> QED
      BY <3>1, <3>2, <3>3, <3>4
  <2>10. \A q \in Row : state'[q] # state[q] => Held(q)'
    BY <2>2, <2>7, <2>8
  <2> QED
    BY <2>6, <2>9, <2>10, TameHeld DEF Now
<1>4. CASE SendContracted(s)
  <2>1. /\ job[s].fn = "contractRun" /\ job[s].seen.rows = {} /\ Finish(s) /\ UNCHANGED <<state, attempts>>
        /\ pending' = [pending EXCEPT !["assigned"] =
                          [r \in Row |-> @[r] + IF r \in job[s].seen.started THEN 1 ELSE 0]]
    BY <1>4 DEF SendContracted, Running, ledgerVars
  <2>2. \A t \in Slot \ {s} : job'[t] = job[t]
    BY <1>1, <2>1, Ends DEF Jobbed
  <2>3. \A q \in Row : Holds(job[s], q, state[q]) =>
            state[q] \in {"contracted", "handed_back"} /\ q \in job[s].seen.started
    BY <2>1 DEF Holds, Assigns, Lists
  <2> QED
    BY <1>0, <2>1, <2>2, <2>3, BatchHeld, Zenon
<1>5. CASE EditHandsBack(s) \/ EditEscalates(s)
  <2>0. PICK r \in Row : r = job[s].row
    BY <1>2, <1>5 DEF EditHandsBack, EditEscalates, Running
  <2> DEFINE a == job[s].seen.actor
  <2>1. job[s].fn = "edit" /\ UNCHANGED pending
    BY <1>5 DEF EditHandsBack, EditEscalates, Running
  <2>2. PICK to \in {"handed_back", "escalated"}, pc \in {"reassign", "escalate"} :
               (Moved(r, to, a) \/ Refused(r, to, a)) /\ Goto(s, pc)
    BY <1>5, <2>0 DEF EditHandsBack, EditEscalates
  <2>3. /\ \A t \in Slot \ {s} : job'[t] = job[t]
        /\ job'[s].fn = "edit" /\ job'[s].row = r
    <3>1. pc \in Place
      BY DEF Place
    <3> QED
      BY <1>1, <2>0, <2>1, <2>2, <3>1, Goes
  <2>4. to \in State /\ to # "verified"
    BY DEF State
  <2>5. Tame(s)
    BY <1>0, <1>1, <2>1, <2>2, <2>3, <2>4, MoveTame
  <2>6. /\ \A q \in Row \ {r} : state'[q] = state[q]
        /\ state'[r] # state[r] => state'[r] \in {"handed_back", "escalated"}
    BY <1>1, <2>2, <2>4, MoveRows
  <2>7. state'[r] # state[r] => Held(r)'
    BY <2>3, <2>6 DEF Held, MayRest, Holds, Assigns
  <2>8. Holds(job[s], r, state[r]) => Holds(job'[s], r, state[r])
    BY <2>1, <2>3 DEF Holds, Assigns, Lists
  <2> QED
    BY <1>2, <2>0, <2>1, <2>5, <2>6, <2>7, <2>8, OneRowHeld DEF Now
<1>6. CASE EditReassigns(s)
  <2>0. PICK r \in Row : r = job[s].row
    BY <1>2, <1>6 DEF EditReassigns, Running
  <2>1. job[s].fn = "edit" /\ Send("assigned", r) /\ Finish(s) /\ UNCHANGED <<state, attempts>>
    BY <1>6, <2>0 DEF EditReassigns, Running, ledgerVars
  <2>2. \A t \in Slot \ {s} : job'[t] = job[t]
    BY <1>1, <2>1, Ends DEF Jobbed
  <2>3. /\ \A n \in EventName, q \in Row : pending[n][q] > 0 => pending'[n][q] > 0
        /\ pending'["assigned"][r] > 0
    <3>1. \A n \in EventName, q \in Row : pending[n][q] \in Nat
      BY <1>1
    <3>2. pending'["assigned"][r] = pending["assigned"][r] + 1
      BY <1>1, <2>1, Sends
    <3>3. \A n \in EventName, q \in Row : n # "assigned" \/ q # r => pending'[n][q] = pending[n][q]
      BY <1>1, <2>1, Sends
    <3>4. pending'["assigned"][r] > 0
      BY <1>1, <3>1, <3>2
    <3> QED
      BY <3>3, <3>4
  <2>4. Tame(s)
    BY <1>0, <2>1, <2>2, <2>3, StillTame
  <2>5. Holds(job[s], r, state[r]) => Held(r)'
    BY <2>1, <2>3 DEF Holds, Assigns, Lists, Held, Announced
  <2> QED
    BY <1>2, <2>0, <2>1, <2>4, <2>5, OneRowHeld DEF Now
<1>7. CASE Sweep(s)
  <2>1. job[s].fn = "deadlines" /\ UNCHANGED pending
    BY <1>7 DEF Sweep, Running
  <2>2. \A q \in Row : ~Holds(job[s], q, state[q])
    BY <2>1 DEF Holds, Assigns, Lists
  <2>3. \A t \in Slot \ {s} : job'[t] = job[t]
    BY <1>1, <1>7, Ends DEF Sweep, Recall, Jobbed
  <2>4. CASE UNCHANGED ledgerVars
    <3>1. UNCHANGED <<state, attempts>>
      BY <2>4 DEF ledgerVars
    <3> QED
      BY <1>0, <2>1, <2>2, <2>3, <3>1, StillTame, TameHeld DEF Now
  <2>5. ASSUME NEW r \in job[s].seen.rows,
               Moved(r, "escalated", EscalatorOf(r)) \/ Refused(r, "escalated", EscalatorOf(r))
        PROVE  AllHeld'
    <3>1. r \in Row
      BY <1>1, <2>1, JobKinds DEF Jobbed, SweepJob
    <3>2. Tame(s)
      BY <1>0, <1>1, <2>1, <2>3, <2>5, <3>1, MoveTame DEF State
    <3>3. \A q \in Row : state'[q] # state[q] => Held(q)'
      BY <1>1, <2>5, <3>1, MoveRows DEF State, Held, MayRest
    <3> QED
      BY <2>2, <3>2, <3>3, TameHeld DEF Now
  <2> QED
    BY <1>7, <2>4, <2>5 DEF Sweep
<1> QED
  BY <1>3, <1>4, <1>5, <1>6, <1>7 DEF SurfacesStep

LEMMA OutsideHeld ==
    ASSUME Staffed, Now, NEW s \in Slot, OutsideStep(s), UNCHANGED <<pressed, surfaceVars>>
    PROVE  AllHeld'
<1>0. UNCHANGED <<contracting, pressed, used>> /\ (UNCHANGED outsideVars => UNCHANGED <<told, came>>)
  BY DEF surfaceVars, outsideVars
<1>1. Typed /\ Jobbed
  BY DEF Now, Typed
<1>2. job[s].fn \in {"mcp", "chat"} =>
          /\ job[s].row \in Row /\ job[s].fn \in OneRow /\ came.calls > 0
          /\ \A q \in Row : ~Holds(job[s], q, state[q])
  BY <1>1, JobRow DEF Jobbed, Rowless, OneRow, Now, Informed, Sound, Holds, Assigns, Lists
<1>3. CASE StoreStatus(s)
  <2>1. job[s].fn = "toggle" /\ job[s].seen.worker \in Worker
    BY <1>1, <1>3, JobKinds, Assumptions DEF StoreStatus, Running, Jobbed, ToggleJob
  <2>2. UNCHANGED <<state, attempts, pending, came>> /\ \A t \in Slot \ {s} : job'[t] = job[t]
    BY <1>1, <1>3, Ends DEF StoreStatus, ToggleStatus, ledgerVars, Jobbed
  <2>3. \A w \in Worker : told[w] > 0 => told'[w] > 0
    BY <1>1, <1>3, <2>1, Numbers DEF StoreStatus, Typed, Others
  <2>4. Tame(s)
    BY <1>0, <2>2, <2>3 DEF Tame
  <2>5. \A q \in Row : ~Holds(job[s], q, state[q])
    BY <2>1 DEF Holds, Assigns, Lists
  <2> QED
    BY <2>2, <2>4, <2>5, TameHeld DEF Now
<1>4. ASSUME NEW w \in Worker, StartRevoke(s, w) PROVE AllHeld'
  <2> DEFINE rows == {r \in Row : Owner[r] = w /\ state[r] \in OpenStates}
             seen == [rows |-> rows]
  <2>1. /\ UNCHANGED <<state, attempts, pending, came>> /\ Start(s, "revoke", AnyRow, "rows", seen)
        /\ \A x \in Worker \ {w} : told'[x] = told[x]
    BY <1>1, <1>4 DEF StartRevoke, ledgerVars, Typed, Others
  <2>2. job'[s] = [fn |-> "revoke", row |-> AnyRow, pc |-> "rows", seen |-> seen]
    BY <1>1, <2>1 DEF Start, Jobbed
  <2>3. job'[s].fn = "revoke" /\ job'[s].pc = "rows" /\ job'[s].seen.rows = rows
    BY <2>2
  <2>4. ASSUME NEW q \in Row, Announced(q) PROVE Held(q)'
    <3>1. CASE state[q] \in AtWorkStates /\ Owner[q] = w
      <4>1. q \in rows
        BY <3>1 DEF AtWorkStates, OpenStates
      <4> QED
        BY <2>1, <2>3, <3>1, <4>1 DEF Held, Holds
    <3>2. CASE ~(state[q] \in AtWorkStates /\ Owner[q] = w)
      BY <2>1, <2>4, <3>2 DEF Held, Announced
    <3> QED
      BY <3>1, <3>2
  <2> HIDE DEF seen
  <2> QED
    BY <1>0, <2>1, <2>4, StartHeld
<1>5. CASE EscalateRevoked(s)
  <2>1. job[s].fn = "revoke" /\ job[s].pc = "rows" /\ UNCHANGED <<pending, told, came>> /\ job[s] \in RevokeJob
    BY <1>0, <1>1, <1>5, JobKinds DEF EscalateRevoked, Running, Jobbed
  <2>2. CASE job[s].seen.rows = {} /\ Finish(s) /\ UNCHANGED ledgerVars
    <3>1. UNCHANGED <<state, attempts>> /\ \A t \in Slot \ {s} : job'[t] = job[t]
      BY <1>1, <2>2, Ends DEF ledgerVars, Jobbed
    <3>2. \A q \in Row : ~Holds(job[s], q, state[q])
      BY <2>1, <2>2 DEF Holds, Assigns, Lists
    <3> QED
      BY <1>0, <2>1, <3>1, <3>2, StillTame, TameHeld DEF Now
  <2>3. ASSUME NEW r \in job[s].seen.rows,
               Moved(r, "escalated", Maya) \/ Refused(r, "escalated", Maya),
               Recall(s, "rows", [rows |-> job[s].seen.rows \ {r}])
        PROVE  AllHeld'
    <3>1. r \in Row
      BY <2>1 DEF RevokeJob
    <3>2. /\ \A t \in Slot \ {s} : job'[t] = job[t]
          /\ job'[s].fn = "revoke" /\ job'[s].pc = "rows" /\ job'[s].seen.rows = job[s].seen.rows \ {r}
      <4>1. /\ job'[s] = [fn |-> job[s].fn, row |-> job[s].row, pc |-> "rows",
                          seen |-> [rows |-> job[s].seen.rows \ {r}]]
            /\ \A t \in Slot \ {s} : job'[t] = job[t]
        <5>1. job[s].fn # "idle"
          BY <2>1
        <5> QED
          BY <1>1, <2>3, <5>1, Recalls, Zenon
      <4> QED
        BY <2>1, <4>1
    <3>3. Tame(s)
      BY <1>0, <1>1, <2>1, <2>3, <3>1, <3>2, MoveTame DEF State
    <3>4. /\ \A q \in Row \ {r} : state'[q] = state[q]
          /\ Moved(r, "escalated", Maya) => state'[r] = "escalated"
          /\ Refused(r, "escalated", Maya) => state'[r] = state[r]
      BY <1>1, <2>3, <3>1, MoveRows DEF State
    <3>5. \A q \in Row : state'[q] # state[q] => Held(q)'
      BY <2>3, <3>4 DEF Held, MayRest
    <3>6. ASSUME NEW q \in Row, Holds(job[s], q, state[q])
          PROVE  Holds(job'[s], q, state[q]) \/ Held(q)'
      <4>1. state[q] \in AtWorkStates /\ q \in job[s].seen.rows
        BY <2>1, <3>6 DEF Holds, Assigns, Lists
      <4>2. CASE q # r
        BY <3>2, <4>1, <4>2 DEF Holds
      <4>3. CASE q = r
        <5>1. Maya \notin revoked
          BY WhoIsRevoked DEF Now, Staffed
        <5>2. ~Refused(r, "escalated", Maya)
          BY <3>1, <4>1, <4>3, <5>1, WhyRefused DEF Staffed, Edges, Settled, AtWorkStates
        <5>3. state'[r] = "escalated"
          BY <2>3, <3>4, <5>2
        <5> QED
          BY <4>3, <5>3 DEF Held, MayRest
      <4> QED
        BY <4>2, <4>3
    <3> QED
      BY <3>3, <3>5, <3>6, TameHeld DEF Now
  <2> QED
    BY <1>5, <2>2, <2>3 DEF EscalateRevoked
<1>6. CASE AttachSent(s) \/ SetOutputs(s) \/ ReadReply(s)
  <2>1. /\ job[s].fn \in {"mcp", "chat"} /\ UNCHANGED <<state, attempts, pending, told, came>>
        /\ \E pc \in Place : Goto(s, pc)
    BY <1>0, <1>6 DEF AttachSent, SetOutputs, ReadReply, Running, ledgerVars, Place
  <2>2. \A t \in Slot \ {s} : job'[t] = job[t]
    BY <1>1, <2>1 DEF Goto, Jobbed
  <2>3. Tame(s)
    BY <1>0, <2>1, <2>2, StillTame
  <2> QED
    BY <1>2, <2>1, <2>3, TameHeld DEF Now
<1>7. CASE SubmitOutput(s) \/ AskApproval(s)
  <2>1. job[s].fn \in {"mcp", "chat"} /\ UNCHANGED <<told, came>>
    BY <1>0, <1>7 DEF SubmitOutput, AskApproval, Running
  <2>2. PICK r \in Row : r = job[s].row
    BY <1>2, <2>1
  <2>3. PICK to \in {"completed_pending_check", "awaiting_approval"} :
            MoveThenSend(s, to, job[s].seen.worker, to)
    BY <1>7 DEF SubmitOutput, AskApproval
  <2> QED
    BY <1>0, <1>2, <2>1, <2>2, <2>3, SendHeld
<1>8. CASE ClaimRow(s) \/ HandOff(s) \/ HandBackReply(s) \/ TimeOutChat(s)
  <2>1. job[s].fn \in {"mcp", "chat"} /\ UNCHANGED <<told, came>>
    BY <1>0, <1>8 DEF ClaimRow, HandOff, HandBackReply, TimeOutChat, Running
  <2>2. PICK r \in Row : r = job[s].row
    BY <1>2, <2>1
  <2>3. PICK to \in {"in_progress", "handed_back", "escalated"} :
            MoveThenFinish(s, to, job[s].seen.worker)
    BY <1>8 DEF ClaimRow, HandOff, HandBackReply, TimeOutChat
  <2>4. to \in State \ Settled
    BY DEF State, Settled
  <2> QED
    BY <1>0, <1>2, <2>1, <2>2, <2>3, <2>4, FinishHeld
<1> QED
  BY <1>3, <1>4, <1>5, <1>6, <1>7, <1>8 DEF OutsideStep

\* What people do takes an idle slot, and wakes watchers at most.
LEMMA ActHeld ==
    ASSUME Now, NEW s \in Slot, job[s] = Idle,
           \A t \in Slot \ {s} : \/ job'[t] = job[t]
                                 \/ /\ job[t].fn = "approvals"
                                    /\ job'[t].fn = "approvals" /\ job'[t].row = job[t].row,
           UNCHANGED <<state, attempts, pending, told>>,
           pressed > 0 => pressed' > 0,
           came.toggles > 0 => came'.toggles > 0,
           came.calls > 0 => came'.calls > 0,
           \A q \in Row : Planned(q) => Held(q)'
    PROVE  AllHeld'
<1> SUFFICES ASSUME NEW q \in Row PROVE Held(q)'
  BY DEF AllHeld
<1>1. Held(q)
  BY DEF Now, AllHeld
<1>2. ASSUME NEW t \in Slot, Holds(job[t], q, state[q]) PROVE Held(q)'
  <2>1. t # s
    BY <1>2 DEF Holds, Assigns, Lists, Idle
  <2>2. Holds(job'[t], q, state[q])
    <3>1. CASE job'[t] = job[t]
      BY <1>2, <3>1
    <3>2. CASE job[t].fn = "approvals" /\ job'[t].fn = "approvals" /\ job'[t].row = job[t].row
      BY <1>2, <3>2 DEF Holds, Assigns, Lists
    <3> QED
      BY <2>1, <3>1, <3>2
  <2> QED
    BY <2>2 DEF Held
<1>3. MayRest(q) => Held(q)'
  BY DEF MayRest, Held
<1>4. Announced(q) => Held(q)'
  BY DEF Announced, Held
<1> QED
  BY <1>1, <1>2, <1>3, <1>4 DEF Held

LEMMA PeopleHeld ==
    ASSUME Now, People, used'.typed = 0
    PROVE  AllHeld'
<1>0. /\ used \in [edits : Nat, typed : Nat, sweeps : Nat] /\ came \in [toggles : Nat, calls : Nat]
      /\ pressed \in Nat /\ Jobbed
  BY Assumptions DEF Now, Typed, Others
<1>1. ASSUME NEW s \in Slot, NEW a \in Worker, StartContracting(s, a), UNCHANGED <<pressed, outsideVars>>
      PROVE  AllHeld'
  <2>1. /\ job[s] = Idle /\ UNCHANGED <<state, attempts, pending, told, came, pressed>>
        /\ \A t \in Slot \ {s} : job'[t] = job[t]
        /\ job'[s].fn = "contractRun"
        /\ job'[s].seen.rows = {r \in Row : state[r] = "drafted"}
    BY <1>0, <1>1 DEF StartContracting, ledgerVars, outsideVars, Jobbed
  <2>2. ASSUME NEW q \in Row, Planned(q) PROVE Held(q)'
    <3>1. state'[q] = "drafted" /\ q \in job'[s].seen.rows
      BY <2>1, <2>2 DEF Planned
    <3> QED
      BY <2>1, <3>1 DEF Held, Holds, Lists
  <2> QED
    BY <2>1, <2>2, ActHeld
<1>2. ASSUME NEW s \in Slot, NEW r \in Row, NEW a \in Worker, NEW decision \in Decision,
             Press(s, r, a, decision), UNCHANGED <<surfaceVars, outsideVars>>
      PROVE  AllHeld'
  <2>1. /\ job[s] = Idle /\ UNCHANGED <<state, attempts, pending, told, came, contracting>>
        /\ pressed' > 0
    BY <1>0, <1>2 DEF Press, Deliver, ledgerVars, surfaceVars, outsideVars
  <2>2. ASSUME NEW t \in Slot \ {s}
        PROVE  \/ job'[t] = job[t]
               \/ /\ job[t].fn = "approvals"
                  /\ job'[t].fn = "approvals" /\ job'[t].row = job[t].row
    <3>1. CASE Running(t, "approvals", "wait") /\ job[t].row = r
      <4>1. job[t] \in WatchJob
        BY <1>0, <3>1, JobKinds DEF Running, Jobbed
      <4>2. job'[t] = [job[t] EXCEPT !.pc = "woken"]
        BY <1>2, <3>1 DEF Press, Deliver
      <4> QED
        BY <4>1, <4>2 DEF WatchJob
    <3>2. CASE ~(Running(t, "approvals", "wait") /\ job[t].row = r)
      BY <1>2, <3>2 DEF Press, Deliver
    <3> QED
      BY <3>1, <3>2
  <2>3. \A q \in Row : Planned(q) => Held(q)'
    BY <2>1 DEF Planned, Held
  <2> QED
    BY <2>1, <2>2, <2>3, ActHeld
<1>3. ASSUME NEW s \in Slot, job[s] = Idle, \A t \in Slot \ {s} : job'[t] = job[t],
             UNCHANGED <<state, attempts, pending, told, contracting, pressed>>,
             came.toggles > 0 => came'.toggles > 0,
             came.calls > 0 => came'.calls > 0
      PROVE  AllHeld'
  <2>1. \A q \in Row : Planned(q) => Held(q)'
    BY <1>3 DEF Planned, Held
  <2> QED
    BY <1>3, <2>1, ActHeld
<1>4. ASSUME NEW s \in Slot, NEW r \in Row, NEW a \in Worker, StartEdit(s, r, a), UNCHANGED <<pressed, outsideVars>>
      PROVE  AllHeld'
  BY <1>0, <1>3, <1>4 DEF StartEdit, Start, ledgerVars, outsideVars, Jobbed
<1>5. ASSUME NEW r \in Row, NEW to \in State, NEW a \in Worker PROVE ~TypeState(r, to, a)
  BY <1>0 DEF TypeState
<1>6. ASSUME NEW s \in Slot, StartSweep(s), UNCHANGED <<pressed, outsideVars>> PROVE AllHeld'
  BY <1>0, <1>3, <1>6 DEF StartSweep, ledgerVars, outsideVars, Jobbed
<1>7. ASSUME NEW s \in Slot, NEW w \in Revocable, StartToggle(s, w), UNCHANGED <<pressed, surfaceVars>>
      PROVE  AllHeld'
  BY <1>0, <1>3, <1>7 DEF StartToggle, Start, ledgerVars, surfaceVars, Jobbed
<1>8. ASSUME NEW s \in Slot, NEW r \in Row, NEW w \in Holder, NEW x,
             StartCall(s, r, w, x) \/ StartChat(s, r, w, x), UNCHANGED <<pressed, surfaceVars>>
      PROVE  AllHeld'
  BY <1>0, <1>3, <1>8 DEF StartCall, StartChat, Start, ledgerVars, surfaceVars, Jobbed
<1> QED
  BY <1>1, <1>2, <1>4, <1>5, <1>6, <1>7, <1>8 DEF People, SurfacesAct, OutsideActs

Cleared(r) == Opened(r) \/ came.calls > 0

\* A step of the invocation in slot s that takes up no work that is held up.
Careful(s) ==
    /\ \A t \in Slot \ {s} : job'[t] = job[t]
    /\ \A q \in Row :
           /\ state'[q] \in {"contracted", "in_progress"} => state'[q] = state[q] \/ Opened(q)
           /\ state'[q] = "blocked" => state[q] = "blocked" \/ Blocker[q] # {}
           /\ state'[q] \in {"completed_pending_check", "awaiting_approval", "handed_back"} =>
                  state'[q] = state[q] \/ Cleared(q)
           /\ pending'["completed_pending_check"][q] > 0 =>
                  pending["completed_pending_check"][q] > 0 \/ Cleared(q)
           /\ Begun(job'[s], q) => Cleared(q)
           /\ Readies(job'[s], q) => Opened(q)

LEMMA CarefulOpen ==
    ASSUME AllOpen, BlockersStay, NEW s \in Slot, Careful(s), came.calls > 0 => came'.calls > 0
    PROVE  AllOpen'
<1> SUFFICES ASSUME NEW q \in Row PROVE Open(q)'
  BY DEF AllOpen
<1>1. Open(q)
  BY DEF AllOpen
<1>2. Opened(q) => Opened(q)'
  BY ConstantsAssumption DEF BlockersStay, Opened
<1>3. Cleared(q) => Opened(q)' \/ came'.calls > 0
  BY <1>2 DEF Cleared
<1>4. state'[q] \in {"contracted", "in_progress"} => Opened(q)'
  BY <1>1, <1>2 DEF Careful, Open
<1>5. state'[q] = "blocked" => Blocker[q] # {}
  BY <1>1 DEF Careful, Open
<1>6. UnderWay(q)' => Cleared(q)
  <2>1. UnderWay(q) => Cleared(q)
    BY <1>1 DEF Open, Cleared
  <2>2. ASSUME NEW t \in Slot, Begun(job'[t], q) PROVE Cleared(q)
    BY <2>1, <2>2 DEF Careful, UnderWay
  <2> QED
    BY <2>1, <2>2 DEF Careful, UnderWay
<1>7. ASSUME NEW t \in Slot, Readies(job'[t], q) PROVE Opened(q)'
  BY <1>1, <1>2, <1>7 DEF Careful, Open
<1> QED
  BY <1>3, <1>4, <1>5, <1>6, <1>7 DEF Open

LEMMA MoveCareful ==
    ASSUME Now, NEW s \in Slot, NEW r \in Row, NEW to \in State, NEW a, Moved(r, to, a) \/ Refused(r, to, a),
           to = "contracted" => Opened(r),
           to = "blocked" => Blocker[r] # {},
           to \in {"awaiting_approval", "handed_back"} => Cleared(r),
           \A t \in Slot \ {s} : job'[t] = job[t],
           \A q \in Row : pending'["completed_pending_check"][q] > 0 =>
               \/ pending["completed_pending_check"][q] > 0
               \/ q = r /\ to = "completed_pending_check" /\ Moved(r, to, a),
           \A q \in Row : Begun(job'[s], q) => Cleared(q),
           \A q \in Row : Readies(job'[s], q) => Opened(q)
    PROVE  Careful(s)
<1>1. Typed
  BY DEF Now
<1>2. /\ \A q \in Row \ {r} : state'[q] = state[q]
      /\ Moved(r, to, a) => to \in Edges[state[r]] /\ state'[r] \in {to, "escalated"}
      /\ Refused(r, to, a) => state'[r] = state[r]
  BY <1>1, MoveRows
<1>3. Moved(r, to, a) /\ to = "in_progress" => Opened(r)
  BY <1>1, MovedEffect DEF Permitted, MayStart, Opened
<1>4. Moved(r, to, a) /\ to = "completed_pending_check" => Opened(r)
  <2>1. state[r] \in State
    BY <1>1 DEF Typed, Ledgered, LedgerTypeOK
  <2>2. Moved(r, to, a) /\ to = "completed_pending_check" => state[r] = "in_progress"
    BY <1>2, <2>1 DEF Edges, State
  <2> QED
    BY <2>2 DEF Now, AllOpen, Open
<1>5. CASE Moved(r, to, a)
  BY <1>2, <1>3, <1>4, <1>5 DEF Careful, Cleared
<1>6. CASE Refused(r, to, a)
  BY <1>2, <1>4, <1>6 DEF Careful, Cleared
<1> QED
  BY <1>5, <1>6

LEMMA StillCareful ==
    ASSUME Now, NEW s \in Slot, UNCHANGED state,
           \A t \in Slot \ {s} : job'[t] = job[t],
           \A q \in Row : pending'["completed_pending_check"][q] > 0 =>
               pending["completed_pending_check"][q] > 0,
           \A q \in Row : Begun(job'[s], q) => Cleared(q),
           \A q \in Row : Readies(job'[s], q) => Opened(q)
    PROVE  Careful(s)
  BY DEF Careful

\* What goes on is not more than it was.
LEMMA GoesCarefully ==
    ASSUME Now, NEW s \in Slot, job[s].fn # "idle", job[s].fn \notin {"edit", "unblock"},
           \/ \E pc : Goto(s, pc)
           \/ \E pc, seen : Recall(s, pc, seen)
           \/ Finish(s)
    PROVE  /\ \A t \in Slot \ {s} : job'[t] = job[t]
           /\ \A q \in Row : Begun(job'[s], q) => Cleared(q)
           /\ \A q \in Row : Readies(job'[s], q) => Opened(q)
<1>1. Typed /\ job \in [Slot -> Job]
  BY DEF Now, Typed, Jobbed
<1>2. job[s] = [fn |-> job[s].fn, row |-> job[s].row, pc |-> job[s].pc, seen |-> job[s].seen]
  BY <1>1, SMTT(30) DEF Job, Idle, AgentJob, CheckJob, UnblockJob, WatchJob, SettleJob, ContractJob, EditJob,
         SweepJob, ToggleJob, RevokeJob, CallJob
<1>3. ASSUME NEW pc, Goto(s, pc)
      PROVE  /\ \A t \in Slot \ {s} : job'[t] = job[t]
             /\ job'[s].fn = job[s].fn /\ job'[s].row = job[s].row
  <2>1. [job[s] EXCEPT !.pc = pc] = [fn |-> job[s].fn, row |-> job[s].row, pc |-> pc, seen |-> job[s].seen]
    BY <1>2
  <2>2. job' = [job EXCEPT ![s] = [job[s] EXCEPT !.pc = pc]]
    BY <1>3 DEF Goto
  <2>3. /\ \A t \in Slot \ {s} : job'[t] = job[t]
        /\ job'[s] = [fn |-> job[s].fn, row |-> job[s].row, pc |-> pc, seen |-> job[s].seen]
    BY <1>1, <2>1, <2>2
  <2> QED
    BY <2>3
<1>4. /\ \A t \in Slot \ {s} : job'[t] = job[t]
      /\ job'[s].fn \in {job[s].fn, "idle"}
      /\ job'[s].fn # "idle" => job'[s].row = job[s].row
  <2>1. CASE \E pc : Goto(s, pc)
    BY <1>3, <2>1
  <2>2. CASE \E pc, seen : Recall(s, pc, seen)
    <3>1. PICK pc, seen : Recall(s, pc, seen)
      BY <2>2
    <3>2. /\ job'[s] = [fn |-> job[s].fn, row |-> job[s].row, pc |-> pc, seen |-> seen]
          /\ \A t \in Slot \ {s} : job'[t] = job[t]
      BY <1>1, <3>1, Recalls, Zenon DEF Jobbed
    <3> QED
      BY <3>2
  <2>3. CASE Finish(s)
    BY <1>1, <2>3, Ends DEF Idle
  <2> QED
    BY <2>1, <2>2, <2>3
<1>5. ASSUME NEW q \in Row, Begun(job'[s], q) PROVE Cleared(q)
  <2>1. Begun(job[s], q)
    BY <1>4, <1>5 DEF Begun
  <2> QED
    BY <2>1 DEF Now, AllOpen, Open, UnderWay, Cleared
<1>6. \A q \in Row : ~Readies(job'[s], q)
  BY <1>4 DEF Readies
<1> QED
  BY <1>4, <1>5, <1>6

\* What an invocation checks or settles has been started.
LEMMA BegunCleared ==
    ASSUME Now, NEW s \in Slot, NEW q \in Row, Begun(job[s], q)
    PROVE  Cleared(q)
  BY DEF Now, AllOpen, Open, UnderWay, Cleared

LEMMA MoveThenCareful ==
    ASSUME Now, NEW s \in Slot, NEW r \in Row, job[s].row = r,
           job[s].fn # "idle", job[s].fn \notin {"edit", "unblock"},
           NEW to \in State \ {"contracted", "blocked"}, NEW a,
           to \in {"awaiting_approval", "handed_back"} => Cleared(r),
           \/ \E pc : MoveThenGoto(s, to, a, pc)
           \/ to \in EventName /\ MoveThenSend(s, to, a, to)
           \/ MoveThenFinish(s, to, a)
    PROVE  Careful(s)
<1>1. /\ \A t \in Slot \ {s} : job'[t] = job[t]
      /\ \A q \in Row : Begun(job'[s], q) => Cleared(q)
      /\ \A q \in Row : Readies(job'[s], q) => Opened(q)
  <2>1. (\E pc : Goto(s, pc)) \/ Finish(s)
    BY DEF MoveThenGoto, MoveThenSend, MoveThenFinish
  <2> QED
    BY <2>1, GoesCarefully
<1>2. Moved(r, to, a) \/ Refused(r, to, a)
  BY DEF MoveThenGoto, MoveThenSend, MoveThenFinish
<1>3. UNCHANGED pending \/ (to \in EventName /\ Moved(r, to, a) /\ Send(to, r))
  BY DEF MoveThenGoto, MoveThenSend, MoveThenFinish
<1>4. \A q \in Row : pending'["completed_pending_check"][q] > 0 =>
          \/ pending["completed_pending_check"][q] > 0
          \/ q = r /\ to = "completed_pending_check" /\ Moved(r, to, a)
  <2>1. CASE UNCHANGED pending
    BY <2>1
  <2>2. CASE to \in EventName /\ Moved(r, to, a) /\ Send(to, r)
    <3>1. pending \in [EventName -> [Row -> Nat]] /\ "completed_pending_check" \in EventName
      BY DEF Now, Typed, Pendings, EventName
    <3>2. \A n \in EventName, q \in Row : n # to \/ q # r => pending'[n][q] = pending[n][q]
      BY <2>2, <3>1, Sends
    <3> QED
      BY <2>2, <3>1, <3>2
  <2> QED
    BY <1>3, <2>1, <2>2
<1> QED
  BY <1>1, <1>2, <1>4, MoveCareful

LEMMA AgentStepOpen ==
    ASSUME Now, NEW s \in Slot, AgentStepNext(s)
    PROVE  Careful(s)
<1>1. /\ Typed /\ Jobbed /\ pending \in [EventName -> [Row -> Nat]]
      /\ "assigned" \in EventName /\ "completed_pending_check" \in EventName
  BY DEF Now, Typed, Pendings, EventName
<1>2. job[s].fn = "agentStep" => job[s].row \in Row
  BY <1>1, JobRow DEF Jobbed, Rowless
<1>3. ASSUME NEW r \in Row, StartAgentStep(s, r) PROVE Careful(s)
  <2>1. /\ UNCHANGED state /\ Take("assigned", r)
        /\ \A t \in Slot \ {s} : job'[t] = job[t]
        /\ job'[s].fn = "agentStep"
    BY <1>1, <1>3 DEF StartAgentStep, Start, ledgerVars, Jobbed
  <2>2. \A q \in Row : pending'["completed_pending_check"][q] = pending["completed_pending_check"][q]
    BY <1>1, <2>1, Takes
  <2> QED
    BY <2>1, <2>2, StillCareful DEF Begun, Readies
<1>4. CASE Unowned(s) \/ GiveUp(s)
  <2>1. PICK a : job[s].fn = "agentStep" /\ MoveThenFinish(s, "escalated", a)
    BY <1>4 DEF Unowned, GiveUp, Running
  <2> QED
    BY <1>2, <2>1, MoveThenCareful DEF State
<1>5. CASE Notify(s) \/ Work(s) \/ WriteOutputs(s)
  <2>1. job[s].fn = "agentStep" /\ UNCHANGED <<state, pending>> /\ (Finish(s) \/ \E pc : Goto(s, pc))
    BY <1>5 DEF Notify, Work, WriteOutputs, Running, ledgerVars
  <2> QED
    BY <2>1, GoesCarefully, StillCareful
<1>6. CASE Decide(s)
  <2>1. PICK a : job[s].fn = "agentStep" /\ MoveThenGoto(s, "in_progress", a, "ready")
    BY <1>6 DEF Decide, Running
  <2> QED
    BY <1>2, <2>1, MoveThenCareful DEF State
<1>7. CASE Ready(s) \/ Submit(s)
  <2>1. PICK a : /\ job[s].fn = "agentStep"
                 /\ MoveThenSend(s, "completed_pending_check", a, "completed_pending_check")
    BY <1>7 DEF Ready, Submit, Running
  <2> QED
    BY <1>1, <1>2, <2>1, MoveThenCareful DEF State
<1>8. CASE BeginWork(s)
  <2>1. PICK r \in Row : r = job[s].row
    BY <1>2, <1>8 DEF BeginWork, Running
  <2>2. /\ job[s].fn = "agentStep" /\ UNCHANGED pending
        /\ Moved(r, "in_progress", Owner[r]) \/ Refused(r, "in_progress", Owner[r])
        /\ Finish(s) \/ \E pc, seen : Recall(s, pc, seen)
    BY <1>8, <2>1 DEF BeginWork, Running
  <2> QED
    BY <2>2, GoesCarefully, MoveCareful DEF State
<1> QED
  BY <1>3, <1>4, <1>5, <1>6, <1>7, <1>8 DEF AgentStepNext

LEMMA RunChecksOpen ==
    ASSUME Now, NEW s \in Slot, RunChecksNext(s)
    PROVE  Careful(s)
<1>1. /\ Typed /\ Jobbed /\ pending \in [EventName -> [Row -> Nat]]
      /\ "assigned" \in EventName /\ "completed_pending_check" \in EventName
      /\ "verified" \in EventName /\ "awaiting_approval" \in EventName
  BY DEF Now, Typed, Pendings, EventName
<1>2. job[s].fn = "runChecks" => job[s].row \in Row
  BY <1>1, JobRow DEF Jobbed, Rowless
<1>3. ASSUME NEW r \in Row, StartRunChecks(s, r) PROVE Careful(s)
  <2>1. /\ UNCHANGED state /\ Take("completed_pending_check", r)
        /\ \A t \in Slot \ {s} : job'[t] = job[t]
        /\ job'[s].fn = "runChecks" /\ job'[s].row = r
    BY <1>1, <1>3 DEF StartRunChecks, Start, ledgerVars, Jobbed
  <2>2. \A q \in Row : pending'["completed_pending_check"][q] > 0 => pending["completed_pending_check"][q] > 0
    <3>1. pending["completed_pending_check"][r] > 0
      BY <1>1, <2>1, Takes
    <3>2. \A q \in Row \ {r} : pending'["completed_pending_check"][q] = pending["completed_pending_check"][q]
      BY <1>1, <2>1, Takes
    <3> QED
      BY <3>1, <3>2
  <2>3. Cleared(r)
    <3>1. pending["completed_pending_check"][r] > 0
      BY <1>1, <2>1, Takes
    <3> QED
      BY <3>1 DEF Now, AllOpen, Open, UnderWay, Cleared
  <2> QED
    BY <2>1, <2>2, <2>3, StillCareful DEF Begun, Readies
<1>4. CASE Check(s) \/ Restore(s)
  <2>1. job[s].fn = "runChecks" /\ UNCHANGED <<state, pending>> /\ (\E pc : Goto(s, pc))
    BY <1>4 DEF Check, Restore, RecordPass, Running, ledgerVars
  <2> QED
    BY <2>1, GoesCarefully, StillCareful
<1>5. job[s].fn = "runChecks" => Cleared(job[s].row)
  BY <1>2, BegunCleared DEF Begun
<1>6. CASE Await(s) \/ Verify(s)
  <2>1. PICK to \in {"awaiting_approval", "verified"} :
            \E a : job[s].fn = "runChecks" /\ MoveThenSend(s, to, a, to)
    BY <1>6 DEF Await, Verify, Running
  <2>2. to \in State \ {"contracted", "blocked"} /\ to \in EventName
    BY DEF State, EventName
  <2> QED
    BY <1>2, <1>5, <2>1, <2>2, MoveThenCareful
<1>7. CASE HandBack(s)
  <2>1. PICK r \in Row : r = job[s].row
    BY <1>2, <1>7 DEF HandBack, Running
  <2> DEFINE a == OwnerOrMaya(r)
  <2>2. /\ job[s].fn = "runChecks"
        /\ Moved(r, "handed_back", a) \/ Refused(r, "handed_back", a)
        /\ Finish(s) \/ \E pc : Goto(s, pc)
        /\ Send("assigned", r) \/ UNCHANGED pending
    BY <1>7, <2>1 DEF HandBack, Running
  <2>3. \A q \in Row : pending'["completed_pending_check"][q] = pending["completed_pending_check"][q]
    BY <1>1, <2>2, Sends
  <2>4. /\ \A t \in Slot \ {s} : job'[t] = job[t]
        /\ \A q \in Row : Begun(job'[s], q) => Cleared(q)
        /\ \A q \in Row : Readies(job'[s], q) => Opened(q)
    BY <2>2, GoesCarefully
  <2> QED
    BY <1>5, <2>1, <2>2, <2>3, <2>4, MoveCareful DEF State
<1>8. CASE Exhausted(s)
  <2>1. PICK a : job[s].fn = "runChecks" /\ MoveThenFinish(s, "escalated", a)
    BY <1>8 DEF Exhausted, Running
  <2> QED
    BY <1>2, <2>1, MoveThenCareful DEF State
<1> QED
  BY <1>3, <1>4, <1>6, <1>7, <1>8 DEF RunChecksNext

LEMMA UnblockOpen ==
    ASSUME Now, NEW s \in Slot, UnblockNext(s)
    PROVE  Careful(s)
<1>1. /\ Typed /\ Jobbed /\ pending \in [EventName -> [Row -> Nat]]
      /\ "assigned" \in EventName /\ "completed_pending_check" \in EventName /\ "verified" \in EventName
  BY DEF Now, Typed, Pendings, EventName
<1>2. job[s].fn = "unblock" => job[s].row \in Row /\ job[s] \in UnblockJob
  BY <1>1, JobKinds DEF Jobbed, UnblockJob
<1>3. ASSUME NEW r \in Row, StartUnblock(s, r) PROVE Careful(s)
  <2>1. /\ UNCHANGED state /\ Take("verified", r)
        /\ \A t \in Slot \ {s} : job'[t] = job[t]
        /\ job'[s].fn = "unblock" /\ job'[s].pc = "close"
    BY <1>1, <1>3 DEF StartUnblock, Start, ledgerVars, Jobbed
  <2>2. \A q \in Row : pending'["completed_pending_check"][q] = pending["completed_pending_check"][q]
    BY <1>1, <2>1, Takes
  <2> QED
    BY <2>1, <2>2, StillCareful DEF Begun, Readies
<1>4. CASE Close(s)
  <2>1. PICK r \in Row : r = job[s].row
    BY <1>2, <1>4 DEF Close, Running
  <2>2. /\ job[s].fn = "unblock" /\ UNCHANGED pending /\ Goto(s, "find")
        /\ Moved(r, "done", Requester) \/ Refused(r, "done", Requester)
    BY <1>4, <2>1 DEF Close, Running
  <2>3. /\ \A t \in Slot \ {s} : job'[t] = job[t]
        /\ job'[s].fn = "unblock" /\ job'[s].pc = "find"
    BY <1>1, <2>2, Goes DEF Place
  <2> QED
    BY <2>2, <2>3, MoveCareful DEF State, Begun, Readies
<1>5. CASE Find(s)
  <2> DEFINE found == {r \in Row : /\ state[r] = "blocked"
                                   /\ Blocker[r] # {}
                                   /\ \A b \in Blocker[r] : state[b] \in Settled}
             seen == [ready |-> found, released |-> {}]
  <2>1. job[s].fn = "unblock" /\ Recall(s, "release", seen) /\ UNCHANGED <<state, pending>>
    BY <1>5 DEF Find, Running, ledgerVars
  <2>2. /\ \A t \in Slot \ {s} : job'[t] = job[t]
        /\ job'[s].fn = "unblock" /\ job'[s].seen.ready = found
    <3> HIDE DEF found
    <3>1. /\ job'[s] = [fn |-> job[s].fn, row |-> job[s].row, pc |-> "release", seen |-> seen]
          /\ \A t \in Slot \ {s} : job'[t] = job[t]
      <4>1. job[s].fn # "idle" /\ Recall(s, "release", seen)
        BY <2>1
      <4> QED
        BY <1>1, <4>1, Recalls, Zenon
    <3> QED
      BY <2>1, <3>1
  <2>3. \A q \in Row : Readies(job'[s], q) => Opened(q)
    BY <2>2 DEF Readies, Opened
  <2> QED
    BY <2>1, <2>2, <2>3, StillCareful DEF Begun
<1>6. CASE Release(s)
  <2>1. job[s] \in UnblockJob /\ job[s].fn = "unblock" /\ job[s].pc = "release" /\ UNCHANGED pending
    BY <1>2, <1>6 DEF Release, Running
  <2>2. PICK r \in job[s].seen.ready :
           \/ /\ Moved(r, "contracted", Requester)
              /\ Recall(s, "release", [ready |-> job[s].seen.ready \ {r},
                                       released |-> job[s].seen.released \cup {r}])
           \/ /\ Refused(r, "contracted", Requester)
              /\ Recall(s, "release", [job[s].seen EXCEPT !.ready = @ \ {r}])
    BY <1>6 DEF Release
  <2>3. r \in Row
    BY <2>1, <2>2 DEF UnblockJob
  <2>4. PICK seen : Recall(s, "release", seen) /\ seen.ready = job[s].seen.ready \ {r}
    <3>1. [job[s].seen EXCEPT !.ready = @ \ {r}].ready = job[s].seen.ready \ {r}
      BY <2>1 DEF UnblockJob
    <3>2. CASE Recall(s, "release", [ready |-> job[s].seen.ready \ {r},
                                     released |-> job[s].seen.released \cup {r}])
      <4> WITNESS [ready |-> job[s].seen.ready \ {r}, released |-> job[s].seen.released \cup {r}]
      <4> QED
        BY <3>2
    <3>3. CASE Recall(s, "release", [job[s].seen EXCEPT !.ready = @ \ {r}])
      <4> WITNESS [job[s].seen EXCEPT !.ready = @ \ {r}]
      <4> QED
        BY <3>1, <3>3
    <3> QED
      BY <2>2, <3>2, <3>3
  <2>5. /\ \A t \in Slot \ {s} : job'[t] = job[t]
        /\ job'[s].fn = "unblock" /\ job'[s].seen = seen
    <3>1. /\ job'[s] = [fn |-> job[s].fn, row |-> job[s].row, pc |-> "release", seen |-> seen]
          /\ \A t \in Slot \ {s} : job'[t] = job[t]
      <4>1. job[s].fn # "idle" /\ Recall(s, "release", seen)
        BY <2>1, <2>4
      <4> QED
        BY <1>1, <4>1, Recalls, Zenon
    <3> QED
      BY <2>1, <3>1
  <2>6. \A q \in Row : q \in job[s].seen.ready => Opened(q)
    BY <2>1 DEF Now, AllOpen, Open, Readies
  <2>7. \A q \in Row : ~Begun(job'[s], q) /\ (Readies(job'[s], q) => Opened(q))
    BY <2>4, <2>5, <2>6 DEF Begun, Readies
  <2>8. Moved(r, "contracted", Requester) \/ Refused(r, "contracted", Requester)
    BY <2>2
  <2> QED
    BY <2>1, <2>2, <2>3, <2>5, <2>6, <2>7, <2>8, MoveCareful DEF State
<1>7. CASE Assign(s)
  <2>1. /\ job[s].fn = "unblock" /\ UNCHANGED state /\ Goto(s, "close_run")
        /\ pending' = [pending EXCEPT !["assigned"] =
                          [r \in Row |-> @[r] + IF r \in job[s].seen.released THEN 1 ELSE 0]]
    BY <1>7 DEF Assign, Running, ledgerVars
  <2>2. pending'["completed_pending_check"] = pending["completed_pending_check"]
    BY <1>1, <2>1, SendsAll, Zenon DEF EventName
  <2>3. (\A t \in Slot \ {s} : job'[t] = job[t]) /\ job'[s].fn = "unblock" /\ job'[s].pc = "close_run"
    BY <1>1, <2>1, Goes DEF Place
  <2> QED
    BY <2>1, <2>2, <2>3, StillCareful DEF Begun, Readies
<1>8. CASE CloseRun(s)
  <2>1. /\ UNCHANGED <<state, pending>> /\ job'[s].fn = "idle"
        /\ \A t \in Slot \ {s} : job'[t] = job[t]
    BY <1>1, <1>8, Ends DEF CloseRun, ledgerVars, Jobbed, Idle
  <2> QED
    BY <2>1, StillCareful DEF Begun, Readies
<1> QED
  BY <1>3, <1>4, <1>5, <1>6, <1>7, <1>8 DEF UnblockNext

LEMMA ApprovalsOpen ==
    ASSUME Now, NEW s \in Slot, ApprovalsStep(s)
    PROVE  Careful(s)
<1>1. /\ Typed /\ Jobbed /\ pending \in [EventName -> [Row -> Nat]]
      /\ "assigned" \in EventName /\ "completed_pending_check" \in EventName
      /\ "verified" \in EventName /\ "awaiting_approval" \in EventName
  BY DEF Now, Typed, Pendings, EventName
<1>2. job[s].fn \in {"approvals", "settle"} => job[s].row \in Row
  BY <1>1, JobRow DEF Jobbed, Rowless
<1>3. job[s].fn = "settle" => Cleared(job[s].row)
  BY <1>2, BegunCleared DEF Begun
<1>4. ASSUME NEW r \in Row, StartWatch(s, r) PROVE Careful(s)
  <2>1. /\ UNCHANGED state /\ Take("awaiting_approval", r)
        /\ \A t \in Slot \ {s} : job'[t] = job[t]
        /\ job'[s].fn = "approvals"
    BY <1>1, <1>4 DEF StartWatch, Start, ledgerVars, Jobbed
  <2>2. \A q \in Row : pending'["completed_pending_check"][q] = pending["completed_pending_check"][q]
    BY <1>1, <2>1, Takes
  <2> QED
    BY <2>1, <2>2, StillCareful DEF Begun, Readies
<1>5. CASE WindowCloses(s) \/ Look(s) \/ LoadSettle(s) \/ Reason(s) \/ RecordApproval(s)
  <2>1. /\ job[s].fn \in {"approvals", "settle"} /\ UNCHANGED <<state, pending>>
        /\ (\E pc : Goto(s, pc)) \/ (\E pc, seen : Recall(s, pc, seen)) \/ Finish(s)
    BY <1>5 DEF WindowCloses, Look, LoadSettle, Reason, RecordApproval, RecordPass, Running, ledgerVars
  <2> QED
    BY <2>1, GoesCarefully, StillCareful
<1>6. CASE StopWaiting(s)
  <2>1. PICK a : job[s].fn = "approvals" /\ MoveThenFinish(s, "escalated", a)
    BY <1>6 DEF StopWaiting, Running
  <2> QED
    BY <1>2, <2>1, MoveThenCareful DEF State
<1>7. CASE VerifyApproved(s)
  <2>1. PICK a : job[s].fn = "settle" /\ MoveThenSend(s, "verified", a, "verified")
    BY <1>7 DEF VerifyApproved, Running
  <2> QED
    BY <1>1, <1>2, <2>1, MoveThenCareful DEF State
<1>8. CASE HandBackDecided(s)
  <2>1. PICK r \in Row : r = job[s].row
    BY <1>2, <1>8 DEF HandBackDecided, Running
  <2> DEFINE a == job[s].seen.actor
  <2>2. /\ job[s].fn = "settle" /\ Finish(s)
        /\ Moved(r, "handed_back", a) \/ Refused(r, "handed_back", a)
        /\ Send("assigned", r) \/ UNCHANGED pending
    BY <1>8, <2>1 DEF HandBackDecided, Running
  <2>3. \A q \in Row : pending'["completed_pending_check"][q] = pending["completed_pending_check"][q]
    BY <1>1, <2>2, Sends
  <2>4. /\ \A t \in Slot \ {s} : job'[t] = job[t]
        /\ \A q \in Row : Begun(job'[s], q) => Cleared(q)
        /\ \A q \in Row : Readies(job'[s], q) => Opened(q)
    BY <2>2, GoesCarefully
  <2> QED
    BY <1>3, <2>1, <2>2, <2>3, <2>4, MoveCareful DEF State
<1> QED
  BY <1>4, <1>5, <1>6, <1>7, <1>8 DEF ApprovalsStep

LEMMA SurfacesOpen ==
    ASSUME Now, NEW s \in Slot, SurfacesStep(s)
    PROVE  Careful(s)
<1>1. /\ Typed /\ Jobbed /\ pending \in [EventName -> [Row -> Nat]]
      /\ "assigned" \in EventName /\ "completed_pending_check" \in EventName
  BY DEF Now, Typed, Pendings, EventName
<1>2. job[s].fn = "edit" => job[s].row \in Row
  BY <1>1, JobRow DEF Jobbed, Rowless
<1>3. CASE Contract(s)
  <2>1. job[s] \in ContractJob /\ job[s].fn = "contractRun" /\ UNCHANGED pending
    BY <1>1, <1>3, ContractStep
  <2>2. PICK r \in job[s].seen.rows, target \in {"blocked", "contracted"}, started \in SUBSET Row :
            /\ \/ Moved(r, target, job[s].seen.actor)
                  /\ started = job[s].seen.started \cup IF target = "blocked" THEN {} ELSE {r}
               \/ Refused(r, target, job[s].seen.actor) /\ started = job[s].seen.started
            /\ target = "blocked" <=> Blocker[r] # {}
            /\ Recall(s, "rows", [actor |-> job[s].seen.actor, rows |-> job[s].seen.rows \ {r},
                                  started |-> started])
    BY <1>1, <1>3, ContractStep
  <2>3. r \in Row /\ target \in State
    BY <2>1 DEF ContractJob, State
  <2>4. /\ \A t \in Slot \ {s} : job'[t] = job[t]
        /\ \A q \in Row : Begun(job'[s], q) => Cleared(q)
        /\ \A q \in Row : Readies(job'[s], q) => Opened(q)
    <3>1. \E pc, seen : Recall(s, pc, seen)
      BY <2>2
    <3>2. job[s].fn # "idle" /\ job[s].fn \notin {"edit", "unblock"}
      BY <2>1
    <3> QED
      BY <3>1, <3>2, GoesCarefully
  <2>5. target = "contracted" => Opened(r)
    BY <2>2 DEF Opened
  <2> QED
    BY <2>1, <2>2, <2>3, <2>4, <2>5, MoveCareful
<1>4. CASE SendContracted(s)
  <2>1. /\ UNCHANGED state /\ Finish(s)
        /\ pending' = [pending EXCEPT !["assigned"] =
                          [r \in Row |-> @[r] + IF r \in job[s].seen.started THEN 1 ELSE 0]]
    BY <1>4 DEF SendContracted, ledgerVars
  <2>2. pending'["completed_pending_check"] = pending["completed_pending_check"]
    BY <1>1, <2>1, SendsAll, Zenon DEF EventName
  <2>3. (\A t \in Slot \ {s} : job'[t] = job[t]) /\ job'[s].fn = "idle"
    BY <1>1, <2>1, Ends DEF Jobbed, Idle
  <2> QED
    BY <2>1, <2>2, <2>3, StillCareful DEF Begun, Readies
<1>5. CASE EditHandsBack(s) \/ EditEscalates(s)
  <2>1. PICK r \in Row : r = job[s].row
    BY <1>2, <1>5 DEF EditHandsBack, EditEscalates, Running
  <2> DEFINE a == job[s].seen.actor
  <2>2. job[s].fn = "edit" /\ UNCHANGED pending
    BY <1>5 DEF EditHandsBack, EditEscalates, Running
  <2>3. PICK to \in {"handed_back", "escalated"}, pc \in {"reassign", "escalate"} :
            /\ Moved(r, to, a) \/ Refused(r, to, a)
            /\ Goto(s, pc)
            /\ to = "handed_back" => job[s].pc = "handback"
    BY <1>5, <2>1 DEF EditHandsBack, EditEscalates, Running
  <2>4. /\ \A t \in Slot \ {s} : job'[t] = job[t]
        /\ job'[s].fn = "edit" /\ job'[s].pc = pc
    <3>1. pc \in Place
      BY DEF Place
    <3> QED
      BY <1>1, <2>2, <2>3, <3>1, Goes
  <2>5. to = "handed_back" => Cleared(r)
    BY <2>1, <2>2, <2>3, BegunCleared DEF Begun
  <2>6. to \in State
    BY DEF State
  <2> QED
    BY <2>2, <2>3, <2>4, <2>5, <2>6, MoveCareful DEF Begun, Readies
<1>6. CASE EditReassigns(s)
  <2>1. PICK r \in Row : r = job[s].row
    BY <1>2, <1>6 DEF EditReassigns, Running
  <2>2. Send("assigned", r) /\ Finish(s) /\ UNCHANGED state
    BY <1>6, <2>1 DEF EditReassigns, ledgerVars
  <2>3. \A q \in Row : pending'["completed_pending_check"][q] = pending["completed_pending_check"][q]
    BY <1>1, <2>2, Sends
  <2>4. (\A t \in Slot \ {s} : job'[t] = job[t]) /\ job'[s].fn = "idle"
    BY <1>1, <2>2, Ends DEF Jobbed, Idle
  <2> QED
    BY <2>2, <2>3, <2>4, StillCareful DEF Begun, Readies
<1>7. CASE Sweep(s)
  <2>1. job[s].fn = "deadlines" /\ UNCHANGED pending
    BY <1>7 DEF Sweep, Running
  <2>2. /\ \A t \in Slot \ {s} : job'[t] = job[t]
        /\ \A q \in Row : Begun(job'[s], q) => Cleared(q)
        /\ \A q \in Row : Readies(job'[s], q) => Opened(q)
    <3>1. Finish(s) \/ \E pc, seen : Recall(s, pc, seen)
      BY <1>7 DEF Sweep
    <3> QED
      BY <2>1, <3>1, GoesCarefully
  <2>3. CASE UNCHANGED state
    BY <2>1, <2>2, <2>3, StillCareful
  <2>4. ASSUME NEW r \in job[s].seen.rows,
               Moved(r, "escalated", EscalatorOf(r)) \/ Refused(r, "escalated", EscalatorOf(r))
        PROVE  Careful(s)
    <3>1. r \in Row
      BY <1>1, <2>1, JobKinds DEF Jobbed, SweepJob
    <3> QED
      BY <2>1, <2>2, <2>4, <3>1, MoveCareful DEF State
  <2> QED
    BY <1>7, <2>3, <2>4 DEF Sweep, ledgerVars
<1> QED
  BY <1>3, <1>4, <1>5, <1>6, <1>7 DEF SurfacesStep

LEMMA OutsideOpen ==
    ASSUME Now, NEW s \in Slot, OutsideStep(s)
    PROVE  Careful(s)
<1>1. /\ Typed /\ Jobbed
      /\ "awaiting_approval" \in EventName /\ "completed_pending_check" \in EventName
  BY DEF Now, Typed, EventName
<1>2. job[s].fn \in {"mcp", "chat"} => job[s].row \in Row /\ Cleared(job[s].row)
  BY <1>1, JobRow DEF Jobbed, Rowless, Now, Informed, Sound, Cleared
<1>3. CASE StoreStatus(s)
  <2>1. /\ UNCHANGED <<state, pending>> /\ job'[s].fn = "idle"
        /\ \A t \in Slot \ {s} : job'[t] = job[t]
    BY <1>1, <1>3, Ends DEF StoreStatus, ToggleStatus, ledgerVars, Jobbed, Idle
  <2> QED
    BY <2>1, StillCareful DEF Begun, Readies
<1>4. ASSUME NEW w \in Worker, StartRevoke(s, w) PROVE Careful(s)
  <2>1. /\ UNCHANGED <<state, pending>> /\ job'[s].fn = "revoke"
        /\ \A t \in Slot \ {s} : job'[t] = job[t]
    BY <1>1, <1>4 DEF StartRevoke, Start, ledgerVars, Jobbed
  <2> QED
    BY <2>1, StillCareful DEF Begun, Readies
<1>5. CASE EscalateRevoked(s)
  <2>1. job[s].fn = "revoke" /\ UNCHANGED pending
    BY <1>5 DEF EscalateRevoked, Running
  <2>2. /\ \A t \in Slot \ {s} : job'[t] = job[t]
        /\ \A q \in Row : Begun(job'[s], q) => Cleared(q)
        /\ \A q \in Row : Readies(job'[s], q) => Opened(q)
    <3>1. Finish(s) \/ \E pc, seen : Recall(s, pc, seen)
      BY <1>5 DEF EscalateRevoked
    <3> QED
      BY <2>1, <3>1, GoesCarefully
  <2>3. CASE UNCHANGED state
    BY <2>1, <2>2, <2>3, StillCareful
  <2>4. ASSUME NEW r \in job[s].seen.rows, Moved(r, "escalated", Maya) \/ Refused(r, "escalated", Maya)
        PROVE  Careful(s)
    <3>1. r \in Row
      BY <1>1, <2>1, JobKinds DEF Jobbed, RevokeJob
    <3> QED
      BY <2>1, <2>2, <2>4, <3>1, MoveCareful DEF State
  <2> QED
    BY <1>5, <2>3, <2>4 DEF EscalateRevoked, ledgerVars
<1>6. CASE AttachSent(s) \/ SetOutputs(s) \/ ReadReply(s)
  <2>1. job[s].fn \in {"mcp", "chat"} /\ UNCHANGED <<state, pending>> /\ \E pc : Goto(s, pc)
    BY <1>6 DEF AttachSent, SetOutputs, ReadReply, Running, ledgerVars
  <2> QED
    BY <2>1, GoesCarefully, StillCareful
<1>7. CASE SubmitOutput(s) \/ AskApproval(s)
  <2>1. job[s].fn \in {"mcp", "chat"}
    BY <1>7 DEF SubmitOutput, AskApproval, Running
  <2>2. PICK to \in {"completed_pending_check", "awaiting_approval"} :
            MoveThenSend(s, to, job[s].seen.worker, to)
    BY <1>7 DEF SubmitOutput, AskApproval
  <2>3. to \in State \ {"contracted", "blocked"} /\ to \in EventName
    BY <1>1 DEF State
  <2> QED
    BY <1>2, <2>1, <2>2, <2>3, MoveThenCareful
<1>8. CASE ClaimRow(s) \/ HandOff(s) \/ HandBackReply(s) \/ TimeOutChat(s)
  <2>1. job[s].fn \in {"mcp", "chat"}
    BY <1>8 DEF ClaimRow, HandOff, HandBackReply, TimeOutChat, Running
  <2>2. PICK to \in {"in_progress", "handed_back", "escalated"} :
            MoveThenFinish(s, to, job[s].seen.worker)
    BY <1>8 DEF ClaimRow, HandOff, HandBackReply, TimeOutChat
  <2>3. to \in State \ {"contracted", "blocked"}
    BY DEF State
  <2> QED
    BY <1>2, <2>1, <2>2, <2>3, MoveThenCareful
<1> QED
  BY <1>3, <1>4, <1>5, <1>6, <1>7, <1>8 DEF OutsideStep

LEMMA PeopleOpen ==
    ASSUME Now, People, BlockersStay, used'.typed = 0
    PROVE  AllOpen'
<1>0. /\ used \in [edits : Nat, typed : Nat, sweeps : Nat] /\ came \in [toggles : Nat, calls : Nat]
      /\ Jobbed /\ AllOpen
  BY DEF Now, Typed, Others
<1>1. ASSUME NEW s \in Slot, \A t \in Slot \ {s} : job'[t] = job[t],
             UNCHANGED <<state, pending>>, came.calls > 0 => came'.calls > 0,
             \A q \in Row : Begun(job'[s], q) => Cleared(q),
             job'[s].fn # "unblock"
      PROVE  AllOpen'
  BY <1>0, <1>1, StillCareful, CarefulOpen DEF Readies
<1>2. ASSUME NEW s \in Slot, NEW a \in Worker, StartContracting(s, a), UNCHANGED outsideVars
      PROVE  AllOpen'
  BY <1>0, <1>1, <1>2 DEF StartContracting, ledgerVars, outsideVars, Jobbed, Begun
<1>3. ASSUME NEW s \in Slot, NEW r \in Row, NEW a \in Worker, NEW decision \in Decision,
             Press(s, r, a, decision), UNCHANGED outsideVars
      PROVE  AllOpen'
  <2>1. /\ UNCHANGED <<state, pending, came>> /\ state[r] = "awaiting_approval"
        /\ job'[s].fn = "settle" /\ job'[s].row = r
    BY <1>3 DEF Press, Deliver, ledgerVars, outsideVars
  <2>2. ASSUME NEW t \in Slot \ {s} PROVE job'[t] = job[t] \/ job'[t].fn = "approvals"
    <3>1. CASE Running(t, "approvals", "wait") /\ job[t].row = r
      <4>1. job[t] \in WatchJob
        BY <1>0, <3>1, JobKinds DEF Running, Jobbed
      <4>2. job'[t] = [job[t] EXCEPT !.pc = "woken"]
        BY <1>3, <3>1 DEF Press, Deliver
      <4> QED
        BY <4>1, <4>2 DEF WatchJob
    <3>2. CASE ~(Running(t, "approvals", "wait") /\ job[t].row = r)
      BY <1>3, <3>2 DEF Press, Deliver
    <3> QED
      BY <3>1, <3>2
  <2> SUFFICES ASSUME NEW q \in Row PROVE Open(q)'
    BY DEF AllOpen
  <2>3. Open(q) /\ (Opened(q) => Opened(q)')
    BY <1>0, ConstantsAssumption DEF AllOpen, BlockersStay, Opened
  <2>4. UnderWay(q)' => UnderWay(q)
    <3>1. ASSUME NEW t \in Slot, Begun(job'[t], q) PROVE UnderWay(q)
      <4>1. CASE t = s
        BY <2>1, <3>1, <4>1 DEF Begun, UnderWay
      <4>2. CASE t # s
        BY <2>2, <3>1, <4>2 DEF Begun, UnderWay
      <4> QED
        BY <4>1, <4>2
    <3> QED
      BY <2>1, <3>1 DEF UnderWay
  <2>5. ASSUME NEW t \in Slot, Readies(job'[t], q) PROVE Opened(q)
    BY <2>1, <2>2, <2>3, <2>5 DEF Readies, Open
  <2> QED
    BY <2>1, <2>3, <2>4, <2>5 DEF Open
<1>4. ASSUME NEW s \in Slot, NEW r \in Row, NEW a \in Worker, StartEdit(s, r, a), UNCHANGED outsideVars
      PROVE  AllOpen'
  <2>1. UNCHANGED <<state, pending, came>>
    BY <1>4 DEF StartEdit, ledgerVars, outsideVars
  <2>2. CASE UNCHANGED job
    <3>1. job'[s].fn = "idle"
      BY <1>4, <2>2 DEF StartEdit, Start, Idle
    <3> QED
      BY <1>1, <2>1, <2>2, <3>1 DEF Begun
  <2>3. CASE Start(s, "edit", r, IF state[r] \in NEEDS_HANDBACK THEN "handback" ELSE "reassign", [actor |-> a])
    <3>1. /\ \A t \in Slot \ {s} : job'[t] = job[t]
          /\ job'[s].fn = "edit" /\ job'[s].row = r
          /\ job'[s].pc = IF state[r] \in NEEDS_HANDBACK THEN "handback" ELSE "reassign"
      BY <1>0, <2>3 DEF Start, Jobbed
    <3>2. state[r] \in NEEDS_HANDBACK => Cleared(r)
      BY <1>0 DEF AllOpen, Open, UnderWay, Cleared, NEEDS_HANDBACK
    <3>3. \A q \in Row : Begun(job'[s], q) => Cleared(q)
      BY <3>1, <3>2 DEF Begun
    <3> QED
      BY <1>1, <2>1, <3>1, <3>3
  <2> QED
    BY <1>4, <2>2, <2>3 DEF StartEdit
<1>5. ASSUME NEW r \in Row, NEW to \in State, NEW a \in Worker PROVE ~TypeState(r, to, a)
  BY <1>0 DEF TypeState, Now
<1>6. ASSUME NEW s \in Slot, StartSweep(s), UNCHANGED outsideVars PROVE AllOpen'
  BY <1>0, <1>1, <1>6 DEF StartSweep, ledgerVars, outsideVars, Jobbed, Begun
<1>7. ASSUME NEW s \in Slot, NEW w \in Revocable, StartToggle(s, w) PROVE AllOpen'
  BY <1>0, <1>1, <1>7 DEF StartToggle, Start, ledgerVars, Jobbed, Begun
<1>8. ASSUME NEW s \in Slot, NEW r \in Row, NEW w \in Holder, NEW x,
             StartCall(s, r, w, x) \/ StartChat(s, r, w, x)
      PROVE  AllOpen'
  BY <1>0, <1>1, <1>8 DEF StartCall, StartChat, Start, ledgerVars, Jobbed, Begun
<1> QED
  BY <1>2, <1>3, <1>4, <1>5, <1>6, <1>7, <1>8 DEF People, SurfacesAct, OutsideActs

-----------------------------------------------------------------------------
(* What an invocation knows stays so.                                      *)

\* What a job may take for granted after the step.
Learned(j) ==
    /\ j.fn = "runChecks" /\ j.pc = "verify" => j.row \in passing' \ HumanCheck
    /\ j.fn = "settle" => pressed' > 0 /\ (j.pc # "load" => j.seen.attempts <= attempts'[j.row])
    /\ j.fn = "contractRun" => j.seen.actor \in Person
    /\ j.fn \in {"mcp", "chat"} => came'.calls > 0

\* What a step does to the attempts and the results, whatever the function.
Counts ==
    \/ UNCHANGED <<attempts, passing>>
    \/ \E r, to, a : Moved(r, to, a) \/ Refused(r, to, a)
    \/ \E r : RecordPass(r)

Rising ==
    /\ passing \subseteq passing'
    /\ \A r \in Row : attempts[r] <= attempts'[r]
    /\ pressed > 0 => pressed' > 0
    /\ came.calls > 0 => came'.calls > 0

LEMMA Rises ==
    ASSUME Typed, Counts, pressed > 0 => pressed' > 0, came.calls > 0 => came'.calls > 0
    PROVE  Rising
<1>1. attempts \in [Row -> Nat]
  BY DEF Typed, Ledgered, LedgerTypeOK
<1>2. ASSUME NEW r, NEW to, NEW a, Moved(r, to, a)
      PROVE  passing' = passing /\ \A q \in Row : attempts[q] <= attempts'[q]
  <2>1. PICK final : Land(r, final)
    BY <1>2, Zenon DEF Moved, Move
  <2> QED
    BY <1>1, <2>1 DEF Land
<1>3. ASSUME NEW r, NEW to, NEW a, Refused(r, to, a) PROVE UNCHANGED <<attempts, passing>>
  BY <1>3 DEF Refused, ledgerVars
<1> QED
  BY <1>1, <1>2, <1>3 DEF Counts, Rising, RecordPass

LEMMA KnowsStill ==
    ASSUME Typed, Typed', Rising, NEW t \in Slot, Sound(job[t])
    PROVE  Learned(job[t])
<1>1. job[t].fn = "settle" => job[t].row \in Row /\ job[t].seen.attempts \in Nat
  <2>1. job[t] \in Job
    BY DEF Typed, Jobbed
  <2> QED
    BY <2>1, JobKinds DEF SettleJob
<1>2. /\ \A r \in Row : attempts[r] \in Nat /\ attempts'[r] \in Nat
  BY DEF Typed, Ledgered, LedgerTypeOK
<1> QED
  BY <1>1, <1>2 DEF Sound, Learned, Rising

LEMMA LearnedAll ==
    ASSUME \A t \in Slot : Learned(job'[t])
    PROVE  Informed'
  BY DEF Informed, Sound, Learned

\* The invocation in slot s is of one of the functions fns, and goes on or ends.
GoesWithin(s, fns) ==
    \/ /\ job[s].fn \in fns
       /\ (\E pc : Goto(s, pc)) \/ (\E pc, seen : Recall(s, pc, seen)) \/ Finish(s)
    \/ \E fn \in fns : \E r, pc, seen : Start(s, fn, r, pc, seen)

LEMMA StaysWithin ==
    ASSUME Typed, NEW s \in Slot, NEW fns, GoesWithin(s, fns)
    PROVE  /\ \A t \in Slot \ {s} : job'[t] = job[t]
           /\ job'[s].fn \in fns \cup {"idle"}
<1>1. job \in [Slot -> Job]
  BY DEF Typed, Jobbed
<1>2. ASSUME NEW j \in Job, NEW pc PROVE [j EXCEPT !.pc = pc].fn = j.fn
  BY SMTT(30) DEF Job, Idle, AgentJob, CheckJob, UnblockJob, WatchJob, SettleJob, ContractJob, EditJob,
         SweepJob, ToggleJob, RevokeJob, CallJob
<1>3. ASSUME NEW j \in Job, NEW pc, NEW seen PROVE [[j EXCEPT !.pc = pc] EXCEPT !.seen = seen].fn = j.fn
  BY SMTT(30) DEF Job, Idle, AgentJob, CheckJob, UnblockJob, WatchJob, SettleJob, ContractJob, EditJob,
         SweepJob, ToggleJob, RevokeJob, CallJob
<1>4. ASSUME NEW pc, Goto(s, pc)
      PROVE  (\A t \in Slot \ {s} : job'[t] = job[t]) /\ job'[s].fn = job[s].fn
  <2>1. job' = [job EXCEPT ![s] = [job[s] EXCEPT !.pc = pc]]
    BY <1>4 DEF Goto
  <2>2. (\A t \in Slot \ {s} : job'[t] = job[t]) /\ job'[s] = [job[s] EXCEPT !.pc = pc]
    BY <1>1, <2>1
  <2> QED
    BY <1>1, <1>2, <2>2
<1>5. ASSUME NEW pc, NEW seen, Recall(s, pc, seen)
      PROVE  (\A t \in Slot \ {s} : job'[t] = job[t]) /\ job'[s].fn = job[s].fn
  <2>1. (\A t \in Slot \ {s} : job'[t] = job[t]) /\ job'[s] = [[job[s] EXCEPT !.pc = pc] EXCEPT !.seen = seen]
    BY <1>1, <1>5 DEF Recall
  <2> QED
    BY <1>1, <1>3, <2>1
<1>6. CASE Finish(s)
  BY <1>1, <1>6, Ends DEF Idle
<1>7. ASSUME NEW fn \in fns, NEW r, NEW pc, NEW seen, Start(s, fn, r, pc, seen)
      PROVE  (\A t \in Slot \ {s} : job'[t] = job[t]) /\ job'[s].fn = fn
  BY <1>1, <1>7 DEF Start
<1> QED
  BY <1>4, <1>5, <1>6, <1>7 DEF GoesWithin

\* An invocation that knows nothing of the kind.
LEMMA OthersKnow ==
    ASSUME Typed, Typed', Informed, NEW s \in Slot, Rising,
           \A t \in Slot \ {s} : job'[t] = job[t], Learned(job'[s])
    PROVE  Informed'
<1>1. ASSUME NEW t \in Slot PROVE Learned(job'[t])
  BY KnowsStill DEF Informed
<1> QED
  BY <1>1, LearnedAll

LEMMA QuietKnow ==
    ASSUME Typed, Typed', Informed, NEW s \in Slot, Counts, UNCHANGED <<pressed, came>>,
           NEW fns, GoesWithin(s, fns), fns \cap {"runChecks", "settle", "contractRun", "mcp", "chat"} = {}
    PROVE  Informed'
<1>1. Rising
  BY Rises
<1>2. (\A t \in Slot \ {s} : job'[t] = job[t]) /\ job'[s].fn \in fns \cup {"idle"}
  BY StaysWithin
<1>3. Learned(job'[s])
  BY <1>2 DEF Learned
<1> QED
  BY <1>1, <1>2, <1>3, OthersKnow

LEMMA AgentStepKnows ==
    ASSUME Typed, Typed', Informed, NEW s \in Slot, AgentStepNext(s), UNCHANGED <<pressed, came>>
    PROVE  Informed'
<1>1. GoesWithin(s, {"agentStep"})
  BY Zenon DEF GoesWithin, AgentStepNext, StartAgentStep, Unowned, Notify, Decide, Ready, BeginWork, Running,
     Work, WriteOutputs, Submit, GiveUp, MoveThenGoto, MoveThenSend, MoveThenFinish
<1>2. Counts
  <2>1. UNCHANGED ledgerVars => UNCHANGED <<attempts, passing>>
    BY DEF ledgerVars
  <2> QED
    BY <2>1, Zenon DEF Counts, AgentStepNext, StartAgentStep, Unowned, Notify, Decide, Ready, BeginWork,
       Work, WriteOutputs, Submit, GiveUp, MoveThenGoto, MoveThenSend, MoveThenFinish
<1> QED
  BY <1>1, <1>2, QuietKnow

LEMMA UnblockKnows ==
    ASSUME Typed, Typed', Informed, NEW s \in Slot, UnblockNext(s), UNCHANGED <<pressed, came>>
    PROVE  Informed'
<1>1. GoesWithin(s, {"unblock"})
  BY Zenon DEF GoesWithin, UnblockNext, StartUnblock, Close, Find, Release, Assign, CloseRun, Running
<1>2. Counts
  <2>1. UNCHANGED ledgerVars => UNCHANGED <<attempts, passing>>
    BY DEF ledgerVars
  <2> QED
    BY <2>1, Zenon DEF Counts, UnblockNext, StartUnblock, Close, Find, Release, Assign, CloseRun
<1> QED
  BY <1>1, <1>2, QuietKnow

LEMMA RunChecksKnows ==
    ASSUME Typed, Typed', Informed, NEW s \in Slot, RunChecksNext(s), UNCHANGED <<pressed, came>>
    PROVE  Informed'
<1>1. GoesWithin(s, {"runChecks"})
  BY Zenon DEF GoesWithin, RunChecksNext, StartRunChecks, Check, Await, Verify, Restore, HandBack,
     Exhausted, MoveThenSend, MoveThenFinish, Running
<1>2. Counts
  <2>1. UNCHANGED ledgerVars => UNCHANGED <<attempts, passing>>
    BY DEF ledgerVars
  <2> QED
    BY <2>1, Zenon DEF Counts, RunChecksNext, StartRunChecks, Check, Await, Verify, Restore, HandBack,
       Exhausted, MoveThenSend, MoveThenFinish
<1>3. Rising
  BY <1>2, Rises
<1>4. (\A t \in Slot \ {s} : job'[t] = job[t]) /\ job'[s].fn \in {"runChecks", "idle"}
  BY <1>1, StaysWithin
<1>5. ASSUME job'[s].fn = "runChecks", job'[s].pc = "verify"
      PROVE  job'[s].row \in passing' \ HumanCheck
  <2>1. Jobbed
    BY DEF Typed
  <2>2. ASSUME NEW pc \in Place, job[s].fn = "runChecks", Goto(s, pc) PROVE job'[s].row = job[s].row /\ job'[s].pc = pc
    BY <2>1, <2>2, Goes
  <2>3. CASE Check(s)
    <3>1. PICK pc \in {"await", "verify", "restore"} :
              /\ job[s].fn = "runChecks" /\ Goto(s, pc)
              /\ pc = "verify" => RecordPass(job[s].row) /\ job[s].row \notin HumanCheck
      BY <2>3 DEF Check, Running
    <3>2. job'[s].row = job[s].row /\ job'[s].pc = pc
      BY <2>2, <3>1 DEF Place
    <3> QED
      BY <1>5, <3>1, <3>2 DEF RecordPass
  <2>4. CASE Restore(s)
    BY <1>5, <2>2, <2>4 DEF Restore, Running, Place
  <2>5. CASE HandBack(s)
    <3>1. job[s].fn = "runChecks" /\ (Finish(s) \/ Goto(s, "exhausted"))
      BY <2>5 DEF HandBack, Running
    <3> QED
      BY <1>5, <2>1, <2>2, <3>1, Ends DEF Place, Idle, Jobbed
  <2>6. CASE Await(s) \/ Verify(s) \/ Exhausted(s)
    <3>1. Finish(s)
      BY <2>6 DEF Await, Verify, Exhausted, MoveThenSend, MoveThenFinish
    <3> QED
      BY <1>5, <2>1, <3>1, Ends DEF Idle, Jobbed
  <2>7. ASSUME NEW r \in Row, StartRunChecks(s, r) PROVE job'[s].pc = "check"
    BY <2>1, <2>7 DEF StartRunChecks, Start, Jobbed
  <2> QED
    BY <1>5, <2>3, <2>4, <2>5, <2>6, <2>7 DEF RunChecksNext
<1>6. Learned(job'[s])
  BY <1>4, <1>5 DEF Learned
<1> QED
  BY <1>3, <1>4, <1>6, OthersKnow

LEMMA ApprovalsKnows ==
    ASSUME Typed, Typed', Informed, NEW s \in Slot, ApprovalsStep(s), UNCHANGED came
    PROVE  Informed'
<1>9. Jobbed /\ job \in [Slot -> Job]
  BY DEF Typed, Jobbed
<1>1. GoesWithin(s, {"approvals", "settle"})
  BY Zenon DEF GoesWithin, ApprovalsStep, StartWatch, WindowCloses, Look, StopWaiting, LoadSettle,
     Reason, RecordApproval, VerifyApproved, HandBackDecided, MoveThenSend, MoveThenFinish, Running
<1>2. Counts
  <2>1. UNCHANGED ledgerVars => UNCHANGED <<attempts, passing>>
    BY DEF ledgerVars
  <2> QED
    BY <2>1, Zenon DEF Counts, ApprovalsStep, StartWatch, WindowCloses, Look, StopWaiting, LoadSettle,
       Reason, RecordApproval, VerifyApproved, HandBackDecided, MoveThenSend, MoveThenFinish
<1>3. UNCHANGED pressed
  BY Zenon DEF ApprovalsStep, StartWatch, WindowCloses, Look, StopWaiting, LoadSettle,
     Reason, RecordApproval, VerifyApproved, HandBackDecided
<1>4. Rising
  BY <1>2, <1>3, Rises
<1>5. (\A t \in Slot \ {s} : job'[t] = job[t]) /\ job'[s].fn \in {"approvals", "settle", "idle"}
  BY <1>1, StaysWithin
<1>6. /\ \A r \in Row : attempts[r] \in Nat /\ attempts'[r] \in Nat
      /\ job[s].fn = "settle" =>
             /\ job[s].row \in Row /\ job[s].seen \in [actor : Worker, decision : Decision, attempts : Nat]
             /\ pressed > 0
             /\ job[s].pc # "load" => job[s].seen.attempts <= attempts[job[s].row]
  <2>1. job[s] \in Job /\ Sound(job[s])
    BY <1>9 DEF Informed
  <2> QED
    BY <2>1, JobKinds DEF SettleJob, Typed, Ledgered, LedgerTypeOK, Sound
<1>7. ASSUME job'[s].fn = "settle"
      PROVE  pressed' > 0 /\ (job'[s].pc # "load" => job'[s].seen.attempts <= attempts'[job'[s].row])
  <2>1. CASE LoadSettle(s)
    <3>1. CASE Finish(s)
      BY <1>9, <1>7, <3>1, Ends DEF Idle
    <3>2. CASE ~Finish(s)
      <4> DEFINE r == job[s].row
                 seen == [job[s].seen EXCEPT !.attempts = attempts[r]]
      <4>1. job[s].fn = "settle" /\ Recall(s, "reason", seen) /\ UNCHANGED <<attempts, pressed>>
        BY <2>1, <3>2, <1>3 DEF LoadSettle, Running, ledgerVars
      <4>2. job'[s] = [fn |-> job[s].fn, row |-> r, pc |-> "reason", seen |-> seen]
        BY <1>9, <4>1, Recalls, Zenon
      <4>3. seen.attempts = attempts[r] /\ attempts[r] \in Nat
        BY <1>6, <4>1
      <4> QED
        BY <1>6, <4>1, <4>2, <4>3
    <3> QED
      BY <3>1, <3>2
  <2>2. CASE Reason(s) \/ RecordApproval(s)
    <3>1. PICK pc \in {"record", "handback", "verify"} :
              job[s].fn = "settle" /\ job[s].pc # "load" /\ Goto(s, pc) /\ UNCHANGED <<attempts, pressed>>
      BY <2>2 DEF Reason, RecordApproval, Running, RecordPass
    <3>2. job'[s].row = job[s].row /\ job'[s].seen = job[s].seen
      BY <1>9, <3>1, Goes DEF Place
    <3> QED
      BY <1>6, <3>1, <3>2
  <2>3. CASE StopWaiting(s) \/ VerifyApproved(s) \/ HandBackDecided(s)
    <3>1. Finish(s)
      BY <2>3 DEF StopWaiting, VerifyApproved, HandBackDecided, MoveThenSend, MoveThenFinish
    <3> QED
      BY <1>9, <1>7, <3>1, Ends DEF Idle
  <2>4. CASE WindowCloses(s) \/ Look(s) \/ \E r \in Row : StartWatch(s, r)
    <3>1. GoesWithin(s, {"approvals"})
      BY <2>4, Zenon DEF GoesWithin, WindowCloses, Look, StartWatch, Running
    <3> QED
      BY <1>7, <3>1, StaysWithin
  <2> QED
    BY <2>1, <2>2, <2>3, <2>4 DEF ApprovalsStep
<1>8. Learned(job'[s])
  BY <1>5, <1>7 DEF Learned
<1> QED
  BY <1>4, <1>5, <1>8, OthersKnow

LEMMA SurfacesKnows ==
    ASSUME Typed, Typed', Informed, NEW s \in Slot, SurfacesStep(s), UNCHANGED <<pressed, came>>
    PROVE  Informed'
<1>9. Jobbed
  BY DEF Typed
<1>1. Counts
  <2>1. UNCHANGED ledgerVars => UNCHANGED <<attempts, passing>>
    BY DEF ledgerVars
  <2> QED
    BY <2>1, Zenon DEF Counts, SurfacesStep, Contract, SendContracted, EditHandsBack, EditEscalates,
       EditReassigns, Sweep
<1>2. CASE EditHandsBack(s) \/ EditEscalates(s) \/ EditReassigns(s) \/ Sweep(s)
  <2>1. GoesWithin(s, {"edit", "deadlines"})
    BY <1>2, Zenon DEF GoesWithin, EditHandsBack, EditEscalates, EditReassigns, Sweep, Running
  <2> QED
    BY <1>1, <2>1, QuietKnow
<1>3. Rising
  BY <1>1, Rises
<1>4. CASE Contract(s) \/ SendContracted(s)
  <2>1. GoesWithin(s, {"contractRun"})
    BY <1>4, Zenon DEF GoesWithin, Contract, SendContracted, Running
  <2>2. (\A t \in Slot \ {s} : job'[t] = job[t]) /\ job'[s].fn \in {"contractRun", "idle"}
    BY <2>1, StaysWithin
  <2>3. CASE Contract(s)
    <3>1. PICK r, started : Recall(s, "rows", [actor |-> job[s].seen.actor, rows |-> job[s].seen.rows \ {r},
                                            started |-> started])
      BY <2>3, ContractStep
    <3>2. job[s].fn = "contractRun" /\ job[s].seen.actor \in Person
      BY <2>3 DEF Contract, Running, Informed, Sound
    <3>3. job'[s] = [fn |-> job[s].fn, row |-> job[s].row, pc |-> "rows",
                     seen |-> [actor |-> job[s].seen.actor, rows |-> job[s].seen.rows \ {r},
                               started |-> started]]
      BY <1>9, <3>1, <3>2, Recalls, Zenon
    <3>4. Learned(job'[s])
      BY <3>2, <3>3 DEF Learned
    <3> QED
      BY <1>3, <2>2, <3>4, OthersKnow
  <2>4. CASE SendContracted(s)
    <3>1. Learned(job'[s])
      BY <1>9, <2>4, Ends DEF SendContracted, Jobbed, Idle, Learned
    <3> QED
      BY <1>3, <2>2, <3>1, OthersKnow
  <2> QED
    BY <1>4, <2>3, <2>4
<1> QED
  BY <1>2, <1>4 DEF SurfacesStep

LEMMA OutsideKnows ==
    ASSUME Typed, Typed', Informed, NEW s \in Slot, OutsideStep(s), UNCHANGED pressed
    PROVE  Informed'
<1>9. UNCHANGED outsideVars => UNCHANGED came
  BY DEF outsideVars
<1>1. Counts
  <2>1. UNCHANGED ledgerVars => UNCHANGED <<attempts, passing>>
    BY DEF ledgerVars
  <2>2. \A w : ToggleStatus(w) => UNCHANGED <<attempts, passing>>
    BY DEF ToggleStatus
  <2>3. StoreStatus(s) => Counts
    BY <2>1, <2>2 DEF StoreStatus, Counts
  <2> QED
    BY <2>1, <2>3, Zenon DEF Counts, OutsideStep, StartRevoke, EscalateRevoked, ClaimRow,
     AttachSent, SetOutputs, SubmitOutput, AskApproval, HandOff, ReadReply, HandBackReply, TimeOutChat,
     MoveThenSend, MoveThenFinish
<1>2. UNCHANGED came
  BY <1>9, Zenon DEF OutsideStep, StoreStatus, StartRevoke, EscalateRevoked, ClaimRow,
     AttachSent, SetOutputs, SubmitOutput, AskApproval, HandOff, ReadReply, HandBackReply, TimeOutChat
<1>3. Rising
  BY <1>1, <1>2, Rises
<1>4. CASE StoreStatus(s) \/ (\E w \in Worker : StartRevoke(s, w)) \/ EscalateRevoked(s)
  <2>1. GoesWithin(s, {"toggle", "revoke"})
    BY <1>4, Zenon DEF GoesWithin, StoreStatus, StartRevoke, EscalateRevoked, Running
  <2> QED
    BY <1>1, <1>2, <2>1, QuietKnow
<1>5. ASSUME GoesWithin(s, {"mcp", "chat"}), job[s].fn \in {"mcp", "chat"} PROVE Informed'
  <2>1. (\A t \in Slot \ {s} : job'[t] = job[t]) /\ job'[s].fn \in {"mcp", "chat", "idle"}
    BY <1>5, StaysWithin
  <2>2. Learned(job'[s])
    BY <1>2, <1>5, <2>1 DEF Learned, Informed, Sound
  <2> QED
    BY <1>3, <2>1, <2>2, OthersKnow
<1>6. CASE \/ ClaimRow(s) \/ AttachSent(s) \/ SetOutputs(s) \/ SubmitOutput(s) \/ AskApproval(s)
           \/ HandOff(s) \/ ReadReply(s) \/ HandBackReply(s) \/ TimeOutChat(s)
  <2>1. job[s].fn \in {"mcp", "chat"}
    BY <1>6 DEF ClaimRow, AttachSent, SetOutputs, SubmitOutput, AskApproval, HandOff, ReadReply, HandBackReply,
       TimeOutChat, Running
  <2>2. (\E pc : Goto(s, pc)) \/ Finish(s)
    BY <1>6, Zenon DEF ClaimRow, AttachSent, SetOutputs, SubmitOutput, AskApproval, HandOff, ReadReply,
       HandBackReply, TimeOutChat, MoveThenSend, MoveThenFinish
  <2> QED
    BY <1>5, <2>1, <2>2 DEF GoesWithin
<1> QED
  BY <1>4, <1>6 DEF OutsideStep

LEMMA PeopleKnow ==
    ASSUME Now, Typed', People, used'.typed = 0
    PROVE  Informed'
<1>0. /\ used \in [edits : Nat, typed : Nat, sweeps : Nat] /\ came \in [toggles : Nat, calls : Nat]
      /\ pressed \in Nat /\ Jobbed /\ job \in [Slot -> Job] /\ Typed /\ Informed
  BY Assumptions DEF Now, Typed, Others, Jobbed
<1>1. ASSUME NEW s \in Slot, \A t \in Slot \ {s} : job'[t] = job[t], UNCHANGED <<attempts, passing, pressed>>,
             came.calls > 0 => came'.calls > 0, Learned(job'[s])
      PROVE  Informed'
  <2>1. Rising
    BY <1>0, <1>1, Rises DEF Counts
  <2> QED
    BY <1>0, <1>1, <2>1, OthersKnow
<1>2. ASSUME NEW s \in Slot, NEW a \in Worker, StartContracting(s, a), UNCHANGED <<pressed, outsideVars>>
      PROVE  Informed'
  <2>1. /\ \A t \in Slot \ {s} : job'[t] = job[t]
        /\ UNCHANGED <<attempts, passing, came>>
        /\ job'[s].fn = "contractRun" /\ job'[s].seen.actor \in Person
    BY <1>0, <1>2 DEF StartContracting, ledgerVars, outsideVars
  <2>2. Learned(job'[s])
    BY <2>1 DEF Learned
  <2> QED
    BY <1>1, <1>2, <2>1, <2>2
<1>3. ASSUME NEW s \in Slot, NEW r \in Row, NEW a \in Worker, NEW decision \in Decision,
             Press(s, r, a, decision), UNCHANGED outsideVars
      PROVE  Informed'
  <2>1. /\ UNCHANGED <<attempts, passing, came>> /\ pressed' > 0
        /\ job'[s].fn = "settle" /\ job'[s].pc = "load"
    BY <1>0, <1>3 DEF Press, Deliver, ledgerVars, outsideVars
  <2>2. ASSUME NEW t \in Slot \ {s} PROVE job'[t] = job[t] \/ job'[t].fn = "approvals"
    <3>1. CASE Running(t, "approvals", "wait") /\ job[t].row = r
      <4>1. job[t] \in WatchJob
        BY <1>0, <3>1, JobKinds DEF Running
      <4>2. job'[t] = [job[t] EXCEPT !.pc = "woken"]
        BY <1>3, <3>1 DEF Press, Deliver
      <4> QED
        BY <4>1, <4>2 DEF WatchJob
    <3>2. CASE ~(Running(t, "approvals", "wait") /\ job[t].row = r)
      BY <1>3, <3>2 DEF Press, Deliver
    <3> QED
      BY <3>1, <3>2
  <2>3. Rising
    BY <1>0, <2>1, Rises DEF Counts
  <2>4. ASSUME NEW t \in Slot PROVE Learned(job'[t])
    <3>1. CASE t = s
      BY <2>1, <3>1 DEF Learned
    <3>2. CASE t # s /\ job'[t] = job[t]
      BY <1>0, <2>3, <3>2, KnowsStill DEF Informed
    <3>3. CASE job'[t].fn = "approvals"
      BY <3>3 DEF Learned
    <3> QED
      BY <2>2, <3>1, <3>2, <3>3
  <2> QED
    BY <2>4, LearnedAll
<1>4. ASSUME NEW s \in Slot, NEW r \in Row, NEW a \in Worker, StartEdit(s, r, a), UNCHANGED <<pressed, outsideVars>>
      PROVE  Informed'
  <2>1. UNCHANGED <<attempts, passing, came>> /\ job[s] = Idle
    BY <1>4 DEF StartEdit, Start, ledgerVars, outsideVars
  <2>2. (\A t \in Slot \ {s} : job'[t] = job[t]) /\ job'[s].fn \in {"idle", "edit"}
    BY <1>0, <1>4, <2>1 DEF StartEdit, Start, Idle
  <2>3. Learned(job'[s])
    BY <2>2 DEF Learned
  <2> QED
    BY <1>1, <1>4, <2>1, <2>2, <2>3
<1>5. ASSUME NEW r \in Row, NEW to \in State, NEW a \in Worker PROVE ~TypeState(r, to, a)
  BY <1>0 DEF TypeState, Now
<1>6. ASSUME NEW s \in Slot, StartSweep(s), UNCHANGED <<pressed, outsideVars>> PROVE Informed'
  <2>1. /\ UNCHANGED <<attempts, passing, came>> /\ job'[s].fn = "deadlines"
        /\ \A t \in Slot \ {s} : job'[t] = job[t]
    BY <1>0, <1>6 DEF StartSweep, ledgerVars, outsideVars
  <2>2. Learned(job'[s])
    BY <2>1 DEF Learned
  <2> QED
    BY <1>1, <1>6, <2>1, <2>2
<1>7. ASSUME NEW s \in Slot, NEW w \in Revocable, StartToggle(s, w), UNCHANGED pressed PROVE Informed'
  <2>1. /\ UNCHANGED <<attempts, passing>> /\ came'.calls = came.calls /\ job'[s].fn = "toggle"
        /\ \A t \in Slot \ {s} : job'[t] = job[t]
    BY <1>0, <1>7 DEF StartToggle, Start, ledgerVars
  <2>2. Learned(job'[s])
    BY <2>1 DEF Learned
  <2> QED
    BY <1>1, <1>7, <2>1, <2>2
<1>8. ASSUME NEW s \in Slot, NEW r \in Row, NEW w \in Holder, NEW x,
             StartCall(s, r, w, x) \/ StartChat(s, r, w, x), UNCHANGED pressed
      PROVE  Informed'
  <2>1. /\ UNCHANGED <<attempts, passing>> /\ came'.calls > 0 /\ job'[s].fn \in {"mcp", "chat"}
        /\ \A t \in Slot \ {s} : job'[t] = job[t]
    BY <1>0, <1>8 DEF StartCall, StartChat, Start, ledgerVars
  <2>2. Learned(job'[s])
    BY <2>1 DEF Learned
  <2> QED
    BY <1>1, <1>8, <2>1, <2>2
<1> QED
  BY <1>2, <1>3, <1>4, <1>5, <1>6, <1>7, <1>8 DEF People, SurfacesAct, OutsideActs

-----------------------------------------------------------------------------
(* Nothing is forgotten.                                                   *)

RestInv == used.typed = 0 => AllHeld /\ AllOpen /\ Informed

\* An invocation presses no button and calls no tool.
LEMMA GoingOn ==
    ASSUME NEW s \in Slot, Progress(s)
    PROVE  UNCHANGED <<used, came>>
<1>1. UNCHANGED surfaceVars => UNCHANGED used
  BY DEF surfaceVars
<1>2. UNCHANGED outsideVars => UNCHANGED came
  BY DEF outsideVars
<1>3. ASSUME SurfacesStep(s) PROVE UNCHANGED surfaceVars
  BY <1>3, Zenon DEF SurfacesStep, Contract, SendContracted, EditHandsBack, EditEscalates,
     EditReassigns, Sweep
<1>4. ASSUME OutsideStep(s) PROVE UNCHANGED came
  BY <1>2, <1>4, Zenon DEF OutsideStep, StoreStatus, StartRevoke, EscalateRevoked, ClaimRow,
     AttachSent, SetOutputs, SubmitOutput, AskApproval, HandOff, ReadReply, HandBackReply, TimeOutChat
<1> QED
  BY <1>1, <1>2, <1>3, <1>4 DEF Progress

LEMMA RestStep ==
    ASSUME Staffed, Typed, Typed', Guarded, RestInv, [Next]_vars, [BlockersStay /\ BlockedInTime]_vars
    PROVE  RestInv'
<1>1. CASE UNCHANGED vars
  <2>1. UNCHANGED <<state, attempts, passing, pending, job, told, contracting, used, came, pressed>>
    BY <1>1 DEF vars, runtimeVars, ledgerVars, jobVars, surfaceVars, outsideVars
  <2>2. ASSUME NEW r \in Row, Held(r) PROVE Held(r)'
    BY <2>1, <2>2 DEF Held, MayRest, Planned, Announced
  <2>3. ASSUME NEW r \in Row, Open(r) PROVE Open(r)'
    BY <2>1, <2>3 DEF Open, Opened, UnderWay
  <2>4. Informed => Informed'
    BY <2>1 DEF Informed, Sound
  <2> QED
    BY <2>1, <2>2, <2>3, <2>4 DEF RestInv, AllHeld, AllOpen
<1>2. CASE Next /\ BlockersStay /\ BlockedInTime
  <2> SUFFICES ASSUME used'.typed = 0 PROVE AllHeld' /\ AllOpen' /\ Informed'
    BY DEF RestInv
  <2>1. ASSUME NEW s \in Slot, Progress(s) PROVE AllHeld' /\ AllOpen' /\ Informed'
    <3>1. UNCHANGED <<used, came>>
      BY <2>1, GoingOn
    <3>2. Now
      BY <3>1 DEF Now, RestInv
    <3>3. AllHeld'
      BY <1>2, <2>1, <3>2, AgentStepHeld, RunChecksHeld, UnblockHeld, ApprovalsHeld, SurfacesHeld, OutsideHeld
         DEF Progress
    <3>4. Careful(s)
      BY <2>1, <3>2, AgentStepOpen, RunChecksOpen, UnblockOpen, ApprovalsOpen, SurfacesOpen, OutsideOpen
         DEF Progress
    <3>5. AllOpen'
      BY <1>2, <3>1, <3>2, <3>4, CarefulOpen DEF Now
    <3>6. Informed'
      BY <2>1, <3>1, <3>2, AgentStepKnows, RunChecksKnows, UnblockKnows, ApprovalsKnows, SurfacesKnows,
         OutsideKnows
         DEF Progress, Now
    <3> QED
      BY <3>3, <3>5, <3>6
  <2>2. ASSUME People PROVE AllHeld' /\ AllOpen' /\ Informed'
    <3>1. used.typed = 0
      <4>1. used \in [edits : Nat, typed : Nat, sweeps : Nat]
        BY DEF Typed, Others
      <4>2. ASSUME NEW s \in Slot, NEW r \in Row, NEW a \in Worker, StartEdit(s, r, a)
            PROVE  used'.typed = used.typed
        BY <4>1, <4>2 DEF StartEdit
      <4>3. ASSUME NEW r \in Row, NEW to \in State, NEW a \in Worker, TypeState(r, to, a)
            PROVE  used'.typed = used.typed + 1
        BY <4>1, <4>3 DEF TypeState
      <4>4. ASSUME NEW s \in Slot, StartSweep(s) PROVE used'.typed = used.typed
        BY <4>1, <4>4 DEF StartSweep
      <4>5. ASSUME NEW s \in Slot, NEW a \in Worker, StartContracting(s, a) PROVE UNCHANGED used
        BY <4>5 DEF StartContracting
      <4> QED
        BY <2>2, <4>1, <4>2, <4>3, <4>4, <4>5 DEF People, SurfacesAct, surfaceVars
    <3>2. Now
      BY <3>1 DEF Now, RestInv
    <3> QED
      BY <1>2, <2>2, <3>2, PeopleHeld, PeopleOpen, PeopleKnow
  <2> QED
    BY <1>2, <2>1, <2>2 DEF Next
<1> QED
  BY <1>1, <1>2

LEMMA RestInit == Init => RestInv
<1> SUFFICES ASSUME Init PROVE AllHeld /\ AllOpen /\ Informed
  BY DEF RestInv
<1>1. /\ \A s \in Slot : job[s].fn = "idle"
      /\ \A r \in Row : state[r] = "drafted"
      /\ \A r \in Row : pending["completed_pending_check"][r] = 0
      /\ contracting = FALSE
  BY DEF Init, InitJobs, InitLedger, InitSurfaces, EventName, Idle
<1>2. AllHeld
  BY <1>1 DEF AllHeld, Held, Planned
<1>3. AllOpen
  BY <1>1 DEF AllOpen, Open, UnderWay, Begun, Readies
<1>4. Informed
  BY <1>1 DEF Informed, Sound
<1> QED
  BY <1>2, <1>3, <1>4

\* Nothing is forgotten: when a contracted run in which nobody typed a state has gone
\* quiet, each row is where it may rest (inngest/functions/agentStep.ts, runChecks.ts,
\* approvals.ts, unblock.ts), however the functions, the presses, the edits, the sweep,
\* revocations and agents elsewhere interleave.  No sheet invariant blocks a move, and
\* the people whom the code asks stay: neither the requester nor any other person is
\* revoked.  The two conditions on the steps are what the code never asks: a settled
\* row is not taken back while others wait on it, and a row is blocked only while a
\* blocker of it is open.
THEOREM NothingIsForgotten ==
    ASSUME Staffed
    PROVE  Spec /\ [][BlockersStay /\ BlockedInTime]_vars => []QuietMeansResting
<1>1. Init => Typed /\ Guarded /\ RestInv
  BY TypedInit, GuardedInit, RestInit
<1>2. Typed /\ Guarded /\ RestInv /\ [Next]_vars /\ [BlockersStay /\ BlockedInTime]_vars
          => (Typed /\ Guarded /\ RestInv)'
  BY TypedStep, GuardedStep, RestStep DEF Staffed
<1>3. Typed /\ Guarded /\ RestInv => QuietMeansResting
  <2> SUFFICES ASSUME Typed, RestInv, Quiet, contracting, used.typed = 0, NEW r \in Row
               PROVE  MayRest(r)
    BY DEF QuietMeansResting
  <2>1. /\ \A s \in Slot : job[s].fn = "idle"
        /\ \A name \in {"assigned", "completed_pending_check", "awaiting_approval", "verified"}, q \in Row :
               pending[name][q] = 0
        /\ \A w \in Worker : told[w] = 0
    BY DEF Quiet, Idle, EventName
  <2>2. Held(r) /\ ~Planned(r)
    BY DEF RestInv, AllHeld, Planned
  <2>3. ~Announced(r)
    BY <2>1 DEF Announced
  <2>4. \A s \in Slot : ~Holds(job[s], r, state[r])
    BY <2>1 DEF Holds, Lists, Assigns
  <2> QED
    BY <2>2, <2>3, <2>4 DEF Held
<1> QED
  BY <1>1, <1>2, <1>3, PTL DEF Spec

-----------------------------------------------------------------------------
(* What is answered about decisions.  A row only a person can settle is    *)
(* verified by the settling of a press; whether that is on record as an    *)
(* approval depends on whether the row still waits where the press left    *)
(* it, and as the settling has the baton only an escalation moves it.      *)


Entry == [decided : {"none", "verified", "handed_back"}, by : SUBSET Worker,
          approved : BOOLEAN, reached : SUBSET State]

Recorded == log \in [Row -> Entry]

\* That r was escalated is on record, and of a settled row that it was approved or
\* escalated; a press that found r waiting still does, or finds it escalated since.
Known(r) ==
    /\ state[r] = "escalated" => "escalated" \in log[r].reached
    /\ state[r] \in Settled => log[r].approved \/ "escalated" \in log[r].reached
    /\ \A s \in Slot :
           job[s].fn = "settle" /\ job[s].row = r /\ job[s].pc # "load"
               => state[r] = "awaiting_approval" \/ "escalated" \in log[r].reached

\* No check verifies by itself what only a person can.
ChecksWait ==
    \A s \in Slot : Running(s, "runChecks", "verify") => job[s].row \notin HumanCheck

KnownInv == Undisturbed => ChecksWait /\ \A r \in HumanCheck : Known(r)

LEMMA StaysRecorded == Recorded /\ Remember => Recorded'
<1> SUFFICES ASSUME Recorded, Remember PROVE Recorded'
  OBVIOUS
<1>2. \A q \in Row : log[q] \in Entry
  BY DEF Recorded
<1>3. ASSUME NEW q \in Row PROVE Logged(q, state[q], state'[q]) \in Entry
  <2> DEFINE decides == state[q] = "awaiting_approval" /\ state'[q] \in {"verified", "handed_back"}
  <2>1. (IF decides /\ log[q].decided = "none" THEN state'[q] ELSE log[q].decided)
            \in {"none", "verified", "handed_back"}
    BY <1>2 DEF Entry
  <2>2. (log[q].approved \/ (decides /\ state'[q] = "verified")) \in BOOLEAN
    OBVIOUS
  <2>3. (log[q].reached \cup ({state'[q]} \cap Interesting)) \in SUBSET State
    BY <1>2 DEF Entry, Interesting, State
  <2>4. (IF decides /\ log[q].decided = "none" THEN Deciders(q, state'[q]) ELSE log[q].by)
            \in SUBSET Worker
    BY <1>2 DEF Entry, Deciders
  <2> QED
    BY <2>1, <2>2, <2>3, <2>4 DEF Logged, Entry
<1>4. Recorded'
  <2>1. log' = [q \in Row |-> Logged(q, state[q], state'[q])]
    BY DEF Remember
  <2> QED
    BY <2>1, <1>3 DEF Recorded
<1> QED
  BY <1>4

\* Once on record, always on record.
LEMMA Remembered ==
    ASSUME Recorded, Remember, NEW r \in Row
    PROVE  /\ log[r].approved => log'[r].approved
           /\ "escalated" \in log[r].reached => "escalated" \in log'[r].reached
           /\ state'[r] = "escalated" => "escalated" \in log'[r].reached
           /\ state[r] = "awaiting_approval" /\ state'[r] = "verified" => log'[r].approved
<1>1. \A q \in Row : log'[q] = Logged(q, state[q], state'[q])
  BY DEF Remember
<1>2. \A q \in Row : log[q] \in Entry
  BY DEF Recorded
<1> DEFINE decides == state[r] = "awaiting_approval" /\ state'[r] \in {"verified", "handed_back"}
           first == IF decides /\ log[r].decided = "none" THEN state'[r] ELSE log[r].decided
           by == IF decides /\ log[r].decided = "none" THEN Deciders(r, state'[r]) ELSE log[r].by
           approved == log[r].approved \/ (decides /\ state'[r] = "verified")
           reached == log[r].reached \cup ({state'[r]} \cap Interesting)
<1>0. log'[r] = [decided |-> first, by |-> by, approved |-> approved, reached |-> reached]
  BY <1>1, Zenon DEF Logged
<1>5. log'[r].approved = approved /\ log'[r].reached = reached
  <2> HIDE DEF first, by, approved, reached
  <2> QED
    BY <1>0
<1>7. log[r].approved \in BOOLEAN
  BY <1>2 DEF Entry
<1>8. log[r].approved => log'[r].approved
  BY <1>5, Zenon
<1>9. state[r] = "awaiting_approval" /\ state'[r] = "verified" => log'[r].approved
  BY <1>5, Zenon
<1> QED
  BY <1>5, <1>8, <1>9 DEF Interesting

\* How a step of slot s of an undisturbed run may move r.
Shift(s, r) ==
    \/ state'[r] \in {state[r], "escalated"}
    \/ state[r] = "verified" /\ state'[r] = "done"
    \/ state'[r] \in Edges[state[r]] /\ state'[r] \in {"contracted", "blocked"}
    \/ /\ job[s].fn \in {"agentStep", "runChecks", "settle"} /\ job[s].row = r
       /\ job[s].fn = "settle" => job'[s].fn = "idle"
       /\ state'[r] \in Settled =>
              /\ state'[r] = "verified"
              /\ Running(s, "settle", "verify") \/ Running(s, "runChecks", "verify")

LEMMA MoveShifts ==
    ASSUME Typed, NEW s \in Slot, job[s].row \in Row, NEW to \in State, NEW a,
           Moved(job[s].row, to, a) \/ Refused(job[s].row, to, a),
           NEW r \in Row,
           \/ to = "escalated"
           \/ to = "done"
           \/ /\ job[s].fn \in {"agentStep", "runChecks", "settle"}
              /\ job[s].fn = "settle" => job'[s].fn = "idle"
              /\ to = "verified" => Running(s, "settle", "verify") \/ Running(s, "runChecks", "verify")
    PROVE  Shift(s, r)
<1> DEFINE q == job[s].row
<1>1. /\ \A o \in Row \ {q} : state'[o] = state[o]
      /\ state'[q] \in {state[q], "escalated"} \/ (to \in Edges[state[q]] /\ state'[q] = to)
  BY MoveRows
<1>2. state[q] \in State
  BY DEF Typed, Ledgered, LedgerTypeOK
<1>3. "done" \in Edges[state[q]] => state[q] = "verified"
  BY <1>2 DEF Edges, State
<1> QED
  BY <1>1, <1>3 DEF Shift, Settled

LEMMA StillShifts ==
    ASSUME NEW s \in Slot, UNCHANGED ledgerVars \/ UNCHANGED state, NEW r \in Row
    PROVE  Shift(s, r)
  BY DEF Shift, ledgerVars

LEMMA MoveEndShifts ==
    ASSUME Typed, NEW s \in Slot, job[s].row \in Row, NEW to \in State, NEW a, NEW name,
           MoveThenSend(s, to, a, name) \/ MoveThenFinish(s, to, a),
           NEW r \in Row, job[s].fn \in {"agentStep", "runChecks", "settle"} \/ to = "escalated",
           to = "verified" => Running(s, "settle", "verify") \/ Running(s, "runChecks", "verify")
    PROVE  Shift(s, r)
<1>1. Finish(s) /\ (Moved(job[s].row, to, a) \/ Refused(job[s].row, to, a))
  BY Zenon DEF MoveThenSend, MoveThenFinish
<1>2. job'[s].fn = "idle"
  BY <1>1, Ends DEF Typed, Jobbed, Idle
<1> QED
  BY <1>1, <1>2, MoveShifts

LEMMA AgentStepShifts ==
    ASSUME Typed, NEW s \in Slot, AgentStepNext(s), NEW r \in Row
    PROVE  Shift(s, r)
<1>1. CASE UNCHANGED ledgerVars \/ UNCHANGED state
  BY <1>1, StillShifts
<1>2. ASSUME job[s].fn = "agentStep", NEW to \in State \ {"verified"}, NEW a,
             Moved(job[s].row, to, a) \/ Refused(job[s].row, to, a)
      PROVE  Shift(s, r)
  <2>1. job[s].row \in Row
    BY <1>2, JobRow DEF Typed, Jobbed, Rowless
  <2> QED
    BY <1>2, <2>1, MoveShifts
<1>3. \A to \in {"escalated", "in_progress", "completed_pending_check"} : to \in State \ {"verified"}
  BY DEF State
<1>4. CASE Unowned(s) \/ GiveUp(s)
  BY <1>2, <1>3, <1>4 DEF Unowned, GiveUp, MoveThenFinish, Running
<1>5. CASE Decide(s)
  BY <1>2, <1>3, <1>5 DEF Decide, MoveThenGoto, Running
<1>6. CASE Ready(s) \/ Submit(s)
  BY <1>2, <1>3, <1>6 DEF Ready, Submit, MoveThenSend, Running
<1>7. CASE BeginWork(s)
  BY <1>2, <1>3, <1>7 DEF BeginWork, Running
<1>8. CASE Notify(s) \/ Work(s) \/ WriteOutputs(s) \/ \E q \in Row : StartAgentStep(s, q)
  BY <1>1, <1>8 DEF Notify, Work, WriteOutputs, StartAgentStep
<1> QED
  BY <1>4, <1>5, <1>6, <1>7, <1>8 DEF AgentStepNext

LEMMA RunChecksShifts ==
    ASSUME Typed, NEW s \in Slot, RunChecksNext(s), NEW r \in Row
    PROVE  Shift(s, r)
<1>1. CASE UNCHANGED ledgerVars \/ UNCHANGED state
  BY <1>1, StillShifts
<1>2. ASSUME job[s].fn = "runChecks", NEW to \in State, NEW a, to = "verified" => job[s].pc = "verify",
             Moved(job[s].row, to, a) \/ Refused(job[s].row, to, a)
      PROVE  Shift(s, r)
  <2>1. job[s].row \in Row
    BY <1>2, JobRow DEF Typed, Jobbed, Rowless
  <2> QED
    BY <1>2, <2>1, MoveShifts DEF Running
<1>3. \A to \in {"escalated", "awaiting_approval", "verified", "handed_back"} : to \in State
  BY DEF State
<1>4. CASE Await(s) \/ Verify(s)
  BY <1>2, <1>3, <1>4 DEF Await, Verify, MoveThenSend, Running
<1>5. CASE HandBack(s)
  BY <1>2, <1>3, <1>5 DEF HandBack, Running
<1>6. CASE Exhausted(s)
  BY <1>2, <1>3, <1>6 DEF Exhausted, MoveThenFinish, Running
<1>7. CASE Check(s) \/ Restore(s) \/ \E q \in Row : StartRunChecks(s, q)
  BY <1>1, <1>7 DEF Check, Restore, StartRunChecks, RecordPass
<1> QED
  BY <1>4, <1>5, <1>6, <1>7 DEF RunChecksNext

LEMMA UnblockShifts ==
    ASSUME Typed, NEW s \in Slot, UnblockNext(s), NEW r \in Row
    PROVE  Shift(s, r)
<1>1. CASE UNCHANGED ledgerVars
  BY <1>1, StillShifts
<1>2. CASE Close(s)
  <2>1. job[s].row \in Row
    BY <1>2, JobRow DEF Close, Running, Typed, Jobbed, Rowless
  <2> QED
    BY <1>2, <2>1, MoveShifts DEF Close, State
<1>3. CASE Release(s)
  <2>1. job[s] \in UnblockJob
    BY <1>3, JobKinds DEF Release, Running, Typed, Jobbed
  <2>2. PICK q \in Row : Moved(q, "contracted", Requester) \/ Refused(q, "contracted", Requester)
    BY <1>3, <2>1 DEF Release, UnblockJob
  <2> QED
    BY <2>2, MoveRows DEF Shift, State
<1>4. CASE Find(s) \/ Assign(s) \/ CloseRun(s) \/ \E q \in Row : StartUnblock(s, q)
  BY <1>1, <1>4 DEF Find, Assign, CloseRun, StartUnblock
<1> QED
  BY <1>2, <1>3, <1>4 DEF UnblockNext

LEMMA ApprovalsShifts ==
    ASSUME Typed, NEW s \in Slot, ApprovalsStep(s), NEW r \in Row
    PROVE  Shift(s, r)
<1>1. CASE UNCHANGED ledgerVars \/ UNCHANGED state
  BY <1>1, StillShifts
<1>2. ASSUME NEW fn \in {"settle", "approvals"}, job[s].fn = fn PROVE job[s].row \in Row
  BY <1>2, JobRow DEF Typed, Jobbed, Rowless
<1>3. CASE StopWaiting(s)
  BY <1>2, <1>3, MoveEndShifts DEF StopWaiting, Running, State
<1>4. CASE VerifyApproved(s)
  BY <1>2, <1>4, MoveEndShifts DEF VerifyApproved, Running, State
<1>5. CASE HandBackDecided(s)
  <2>1. job'[s].fn = "idle" /\ job[s].fn = "settle"
    BY <1>5, Ends DEF HandBackDecided, Typed, Jobbed, Running, Idle
  <2> QED
    BY <1>2, <1>5, <2>1, MoveShifts DEF HandBackDecided, State
<1>6. CASE \/ WindowCloses(s) \/ Look(s) \/ LoadSettle(s) \/ Reason(s) \/ RecordApproval(s)
           \/ \E q \in Row : StartWatch(s, q)
  BY <1>1, <1>6 DEF WindowCloses, Look, LoadSettle, Reason, RecordApproval, StartWatch, RecordPass
<1> QED
  BY <1>3, <1>4, <1>5, <1>6 DEF ApprovalsStep

LEMMA SurfacesShifts ==
    ASSUME Typed, Few, NEW s \in Slot, SurfacesStep(s), NEW r \in Row
    PROVE  Shift(s, r)
<1>1. CASE UNCHANGED ledgerVars
  BY <1>1, StillShifts
<1>2. CASE Contract(s)
  <2>1. job[s] \in ContractJob
    BY <1>2, JobKinds DEF Contract, Running, Typed, Jobbed
  <2>2. PICK q \in Row, to \in {"blocked", "contracted"} :
            Moved(q, to, job[s].seen.actor) \/ Refused(q, to, job[s].seen.actor)
    BY <1>2, <2>1 DEF Contract, ContractJob
  <2> QED
    BY <2>2, MoveRows DEF Shift, State
<1>3. CASE Sweep(s)
  <2>1. job[s] \in SweepJob
    BY <1>3, JobKinds DEF Sweep, Running, Typed, Jobbed
  <2>2. CASE UNCHANGED ledgerVars
    BY <1>1, <2>2
  <2>3. CASE \E q \in Row : Moved(q, "escalated", EscalatorOf(q)) \/ Refused(q, "escalated", EscalatorOf(q))
    BY <2>3, MoveRows DEF Shift, State
  <2> QED
    BY <1>3, <2>1, <2>2, <2>3 DEF Sweep, SweepJob
<1>4. CASE SendContracted(s)
  BY <1>1, <1>4 DEF SendContracted
<1>5. ~EditHandsBack(s) /\ ~EditEscalates(s) /\ ~EditReassigns(s)
  BY DEF Few, EditHandsBack, EditEscalates, EditReassigns, Running
<1> QED
  BY <1>2, <1>3, <1>4, <1>5 DEF SurfacesStep

LEMMA OutsideShifts ==
    ASSUME Typed, Few, NEW s \in Slot, OutsideStep(s), NEW r \in Row
    PROVE  Shift(s, r)
<1>1. CASE UNCHANGED ledgerVars \/ UNCHANGED state
  BY <1>1, StillShifts
<1>2. CASE EscalateRevoked(s)
  <2>1. job[s] \in RevokeJob
    BY <1>2, JobKinds DEF EscalateRevoked, Running, Typed, Jobbed
  <2>2. CASE UNCHANGED ledgerVars
    BY <1>1, <2>2
  <2>3. CASE \E q \in Row : Moved(q, "escalated", Maya) \/ Refused(q, "escalated", Maya)
    BY <2>3, MoveRows DEF Shift, State
  <2> QED
    BY <1>2, <2>1, <2>2, <2>3 DEF EscalateRevoked, RevokeJob
<1>3. CASE StoreStatus(s) \/ \E w \in Worker : StartRevoke(s, w)
  BY <1>1, <1>3 DEF StoreStatus, StartRevoke, ToggleStatus
<1>4. /\ ~ClaimRow(s) /\ ~AttachSent(s) /\ ~SetOutputs(s) /\ ~SubmitOutput(s) /\ ~AskApproval(s)
      /\ ~HandOff(s) /\ ~ReadReply(s) /\ ~HandBackReply(s) /\ ~TimeOutChat(s)
  BY DEF Few, ClaimRow, AttachSent, SetOutputs, SubmitOutput, AskApproval, HandOff, ReadReply,
     HandBackReply, TimeOutChat, Running
<1> QED
  BY <1>2, <1>3, <1>4 DEF OutsideStep

LEMMA Shifts ==
    ASSUME Typed, Few, NEW s \in Slot, Progress(s), NEW r \in Row
    PROVE  Shift(s, r)
  BY AgentStepShifts, RunChecksShifts, UnblockShifts, ApprovalsShifts, SurfacesShifts, OutsideShifts, Zenon
     DEF Progress

\* An invocation of one of fns starts or goes on.
GoesAs(s, fns) ==
    \/ \E pc : Goto(s, pc)
    \/ \E pc, seen : Recall(s, pc, seen)
    \/ Finish(s)
    \/ \E fn \in fns : \E r, pc, seen : Start(s, fn, r, pc, seen)

LEMMA StaysAs ==
    ASSUME Typed, NEW s \in Slot, NEW fns, GoesAs(s, fns), job[s].fn \in fns \cup {"idle"}
    PROVE  job'[s].fn \in fns \cup {"idle"}
<1>1. job \in [Slot -> Job]
  BY DEF Typed, Jobbed
<1>2. ASSUME NEW j \in Job, NEW pc PROVE [j EXCEPT !.pc = pc].fn = j.fn
  BY SMTT(30) DEF Job, Idle, AgentJob, CheckJob, UnblockJob, WatchJob, SettleJob, ContractJob, EditJob,
         SweepJob, ToggleJob, RevokeJob, CallJob
<1>3. ASSUME NEW j \in Job, NEW pc, NEW seen PROVE [[j EXCEPT !.pc = pc] EXCEPT !.seen = seen].fn = j.fn
  BY SMTT(30) DEF Job, Idle, AgentJob, CheckJob, UnblockJob, WatchJob, SettleJob, ContractJob, EditJob,
         SweepJob, ToggleJob, RevokeJob, CallJob
<1>4. ASSUME NEW pc, Goto(s, pc) PROVE job'[s].fn = job[s].fn
  <2>1. job'[s] = [job[s] EXCEPT !.pc = pc]
    BY <1>1, <1>4 DEF Goto
  <2> QED
    BY <1>1, <1>2, <2>1
<1>5. ASSUME NEW pc, NEW seen, Recall(s, pc, seen) PROVE job'[s].fn = job[s].fn
  <2>1. job'[s] = [[job[s] EXCEPT !.pc = pc] EXCEPT !.seen = seen]
    BY <1>1, <1>5 DEF Recall
  <2> QED
    BY <1>1, <1>3, <2>1
<1>6. CASE Finish(s)
  BY <1>1, <1>6, Ends DEF Idle
<1>7. ASSUME NEW fn \in fns, NEW r, NEW pc, NEW seen, Start(s, fn, r, pc, seen)
      PROVE  job'[s].fn = fn
  BY <1>1, <1>7 DEF Start
<1> QED
  BY <1>4, <1>5, <1>6, <1>7 DEF GoesAs

\* No other function ever runs a check or settles a press.
LEMMA OthersRun ==
    ASSUME Typed, NEW s \in Slot,
           AgentStepNext(s) \/ UnblockNext(s) \/ SurfacesStep(s) \/ OutsideStep(s)
    PROVE  job'[s].fn \notin {"runChecks", "settle"}
<1> DEFINE fns == {"agentStep", "unblock", "contractRun", "edit", "deadlines", "toggle", "revoke", "mcp", "chat"}
<1>0. Idle.fn = "idle"
  BY DEF Idle
<1>1. CASE AgentStepNext(s)
  <2>1. GoesAs(s, fns)
    BY <1>1, Zenon DEF GoesAs, AgentStepNext, StartAgentStep, Unowned, Notify, Decide, Ready, BeginWork,
       Work, WriteOutputs, Submit, GiveUp, MoveThenGoto, MoveThenSend, MoveThenFinish
  <2>2. job[s].fn \in {"idle", "agentStep"}
    BY <1>0, <1>1 DEF AgentStepNext, StartAgentStep, Unowned, Notify, Decide, Ready, BeginWork,
       Work, WriteOutputs, Submit, GiveUp, Running, Start
  <2> QED
    BY <2>1, <2>2, StaysAs
<1>2. CASE UnblockNext(s)
  <2>1. GoesAs(s, fns)
    BY <1>2, Zenon DEF GoesAs, UnblockNext, StartUnblock, Close, Find, Release, Assign, CloseRun
  <2>2. job[s].fn \in {"idle", "unblock"}
    BY <1>0, <1>2 DEF UnblockNext, StartUnblock, Close, Find, Release, Assign, CloseRun, Running, Start
  <2> QED
    BY <2>1, <2>2, StaysAs
<1>3. CASE SurfacesStep(s)
  <2>1. GoesAs(s, fns)
    BY <1>3, Zenon DEF GoesAs, SurfacesStep, Contract, SendContracted, EditHandsBack, EditEscalates,
       EditReassigns, Sweep
  <2>2. job[s].fn \in {"contractRun", "edit", "deadlines"}
    BY <1>3 DEF SurfacesStep, Contract, SendContracted, EditHandsBack, EditEscalates,
       EditReassigns, Sweep, Running
  <2> QED
    BY <2>1, <2>2, StaysAs
<1>4. CASE OutsideStep(s)
  <2>1. GoesAs(s, fns)
    BY <1>4, Zenon DEF GoesAs, OutsideStep, StoreStatus, StartRevoke, EscalateRevoked, ClaimRow,
       AttachSent, SetOutputs, SubmitOutput, AskApproval, HandOff, ReadReply, HandBackReply, TimeOutChat,
       MoveThenSend, MoveThenFinish
  <2>2. job[s].fn \in {"idle", "toggle", "revoke", "mcp", "chat"}
    BY <1>0, <1>4 DEF OutsideStep, StoreStatus, StartRevoke, EscalateRevoked, ClaimRow, AttachSent,
       SetOutputs, SubmitOutput, AskApproval, HandOff, ReadReply, HandBackReply, TimeOutChat, Running, Start
  <2> QED
    BY <2>1, <2>2, StaysAs
<1> QED
  BY <1>1, <1>2, <1>3, <1>4

LEMMA ChecksGo ==
    ASSUME Typed, NEW s \in Slot, RunChecksNext(s)
    PROVE  /\ job'[s].fn # "settle"
           /\ job'[s].fn = "runChecks" /\ job'[s].pc = "verify" => job'[s].row \notin HumanCheck
<1> USE DEF Typed, Jobbed
<1>1. ASSUME NEW q \in Row, StartRunChecks(s, q)
      PROVE  job'[s].fn = "runChecks" /\ job'[s].pc = "check"
  BY <1>1 DEF StartRunChecks, Start
<1>2. ASSUME job[s].fn = "runChecks", NEW pc \in Place, Goto(s, pc)
      PROVE  job'[s].fn = "runChecks" /\ job'[s].pc = pc /\ job'[s].row = job[s].row
  BY <1>2, Goes
<1>3. CASE Check(s)
  <2>1. job[s].fn = "runChecks"
    BY <1>3 DEF Check, Running
  <2>2. CASE Goto(s, "restore")
    BY <1>2, <2>1, <2>2 DEF Place
  <2>3. CASE Goto(s, "await")
    BY <1>2, <2>1, <2>3 DEF Place
  <2>4. CASE Goto(s, "verify") /\ job[s].row \notin HumanCheck
    BY <1>2, <2>1, <2>4 DEF Place
  <2> QED
    BY <1>3, <2>2, <2>3, <2>4 DEF Check
<1>4. CASE Restore(s) \/ HandBack(s)
  <2>1. job[s].fn = "runChecks"
    BY <1>4 DEF Restore, HandBack, Running
  <2>2. Goto(s, "handback") \/ Goto(s, "exhausted") \/ Finish(s)
    BY <1>4 DEF Restore, HandBack
  <2> QED
    BY <1>2, <2>1, <2>2, Ends DEF Place, Idle
<1>5. CASE Await(s) \/ Verify(s) \/ Exhausted(s)
  <2>1. Finish(s)
    BY <1>5, Zenon DEF Await, Verify, Exhausted, MoveThenSend, MoveThenFinish
  <2> QED
    BY <2>1, Ends DEF Idle
<1> QED
  BY <1>1, <1>3, <1>4, <1>5 DEF RunChecksNext

LEMMA PressesGo ==
    ASSUME Typed, NEW s \in Slot, ApprovalsStep(s)
    PROVE  /\ job'[s].fn # "runChecks"
           /\ job'[s].fn = "settle" =>
                  /\ job[s].fn = "settle" /\ job'[s].row = job[s].row
                  /\ job[s].pc = "load" => state[job[s].row] = "awaiting_approval" /\ UNCHANGED state
<1> USE DEF Typed, Jobbed
<1>1. ASSUME NEW q \in Row, StartWatch(s, q) PROVE job'[s].fn = "approvals"
  BY <1>1 DEF StartWatch, Start
<1>2. CASE Finish(s)
  BY <1>2, Ends DEF Idle
<1>3. ASSUME job[s].fn \in {"settle", "approvals"}, NEW pc \in Place, Goto(s, pc)
      PROVE  job'[s].fn = job[s].fn /\ job'[s].row = job[s].row
  BY <1>3, Goes
<1>4. ASSUME job[s].fn \in {"settle", "approvals"}, NEW pc, NEW seen, Recall(s, pc, seen)
      PROVE  job'[s].fn = job[s].fn /\ job'[s].row = job[s].row
  <2>1. job[s] = [fn |-> job[s].fn, row |-> job[s].row, pc |-> job[s].pc, seen |-> job[s].seen]
    <3>1. job[s] \in WatchJob \/ job[s] \in SettleJob
      BY <1>4, JobKinds
    <3> QED
      BY <3>1 DEF WatchJob, SettleJob
  <2>2. job' = [job EXCEPT ![s] = [[job[s] EXCEPT !.pc = pc] EXCEPT !.seen = seen]]
    BY <1>4 DEF Recall
  <2>3. job'[s] = [[job[s] EXCEPT !.pc = pc] EXCEPT !.seen = seen]
    BY <2>2
  <2> QED
    BY <2>1, <2>3
<1>5. CASE WindowCloses(s)
  BY <1>3, <1>5 DEF WindowCloses, Running, Place
<1>6. CASE Look(s)
  BY <1>2, <1>3, <1>4, <1>6 DEF Look, Place
<1>7. CASE StopWaiting(s) \/ VerifyApproved(s) \/ HandBackDecided(s)
  <2>1. Finish(s)
    BY <1>7, Zenon DEF StopWaiting, VerifyApproved, HandBackDecided, MoveThenSend, MoveThenFinish
  <2> QED
    BY <1>2, <2>1
<1>8. CASE LoadSettle(s)
  <2>1. job[s].fn = "settle" /\ UNCHANGED state
    BY <1>8 DEF LoadSettle, Running, ledgerVars
  <2> QED
    BY <1>2, <1>4, <1>8, <2>1 DEF LoadSettle
<1>9. CASE Reason(s) \/ RecordApproval(s)
  <2>1. job[s].fn = "settle" /\ job[s].pc # "load"
    BY <1>9 DEF Reason, RecordApproval, Running
  <2>2. PICK pc \in Place : Goto(s, pc)
    BY <1>9 DEF Reason, RecordApproval, Place
  <2> QED
    BY <1>3, <2>1, <2>2
<1> QED
  BY <1>1, <1>5, <1>6, <1>7, <1>8, <1>9 DEF ApprovalsStep

\* What an undisturbed step does to the presses being settled and to the checks.
Presses(s) ==
    \A t \in Slot :
        /\ job'[t].fn = "runChecks" /\ job'[t].pc = "verify" =>
               job'[t] = job[t] \/ job'[t].row \notin HumanCheck
        /\ job'[t].fn = "settle" /\ job'[t].pc # "load" =>
               \/ job'[t] = job[t]
               \/ /\ t = s /\ job[s].fn = "settle" /\ job'[s].row = job[s].row
                  /\ job[s].pc = "load" => state[job[s].row] = "awaiting_approval" /\ UNCHANGED state

LEMMA ProgressPresses ==
    ASSUME Typed, NEW s \in Slot, Progress(s)
    PROVE  Presses(s)
<1>1. Local(s)
  <2>1. GoesAnywhere(s)
    BY AgentStepGoes, RunChecksGoes, UnblockGoes, ApprovalsGoes, SurfacesGoes, OutsideGoes DEF Progress
  <2> QED
    BY <2>1, Stays
<1>2. /\ job'[s].fn = "runChecks" /\ job'[s].pc = "verify" => job'[s].row \notin HumanCheck
      /\ job'[s].fn = "settle" =>
             /\ job[s].fn = "settle" /\ job'[s].row = job[s].row
             /\ job[s].pc = "load" => state[job[s].row] = "awaiting_approval" /\ UNCHANGED state
  BY OthersRun, ChecksGo, PressesGo DEF Progress
<1> QED
  BY <1>1, <1>2 DEF Presses, Local

LEMMA PeoplePresses ==
    ASSUME Typed, People, Undisturbed'
    PROVE  UNCHANGED state /\ \E s \in Slot : Presses(s)
<1> USE Parts DEF Jobbed
<1>0. used \in [edits : Nat, typed : Nat, sweeps : Nat] /\ came \in [toggles : Nat, calls : Nat]
  BY DEF Others
<1>1. ASSUME NEW s \in Slot, NEW a \in Worker, StartContracting(s, a)
      PROVE  UNCHANGED state /\ Presses(s)
  BY <1>1 DEF StartContracting, ledgerVars, Presses
<1>2. ASSUME NEW s \in Slot, NEW r \in Row, NEW a \in Worker, NEW decision \in Decision,
             Press(s, r, a, decision)
      PROVE  UNCHANGED state /\ Presses(s)
  <2>1. job'[s].fn = "settle" /\ job'[s].pc = "load"
    BY <1>2 DEF Press, Deliver
  <2>2. \A t \in Slot \ {s} : job'[t] = job[t] \/ job'[t].fn = "approvals"
    <3>1. ASSUME NEW t \in Slot, Running(t, "approvals", "wait")
          PROVE  [job[t] EXCEPT !.pc = "woken"].fn = "approvals"
      <4>1. job[t] \in WatchJob
        BY <3>1, JobKinds DEF Running
      <4> QED
        BY <4>1 DEF WatchJob
    <3> QED
      BY <1>2, <3>1 DEF Press, Deliver
  <2> QED
    BY <1>2, <2>1, <2>2 DEF Press, ledgerVars, Presses
<1>3. ASSUME NEW s \in Slot, NEW r \in Row, NEW a \in Worker PROVE ~StartEdit(s, r, a)
  BY <1>0 DEF StartEdit, Undisturbed
<1>4. ASSUME NEW r \in Row, NEW to \in State, NEW a \in Worker PROVE ~TypeState(r, to, a)
  BY <1>0 DEF TypeState, Undisturbed
<1>5. ASSUME NEW s \in Slot, StartSweep(s) PROVE UNCHANGED state /\ Presses(s)
  BY <1>5 DEF StartSweep, ledgerVars, Presses
<1>6. ASSUME NEW s \in Slot, NEW w \in Revocable, StartToggle(s, w)
      PROVE  UNCHANGED state /\ Presses(s)
  BY <1>6 DEF StartToggle, Start, ledgerVars, Presses
<1>7. ASSUME NEW s \in Slot, NEW r \in Row, NEW w \in Holder, NEW x
      PROVE  ~StartCall(s, r, w, x) /\ ~StartChat(s, r, w, x)
  BY <1>0 DEF StartCall, StartChat, Undisturbed
<1> QED
  BY <1>1, <1>2, <1>3, <1>4, <1>5, <1>6, <1>7 DEF People, SurfacesAct, OutsideActs

LEMMA KnownStep ==
    ASSUME Typed, Recorded, BatonInv, KnownInv, Next, Remember
    PROVE  KnownInv'
<1> SUFFICES ASSUME Undisturbed' PROVE (ChecksWait /\ \A r \in HumanCheck : Known(r))'
  BY DEF KnownInv
<1> USE DEF Running
<1>1. /\ Few /\ Batons
      /\ ChecksWait /\ \A r \in HumanCheck : Known(r)
  BY StaysDisturbed DEF KnownInv, BatonInv, Batons
<1>2. PICK s \in Slot : Presses(s) /\ (Progress(s) \/ UNCHANGED state)
  BY ProgressPresses, PeoplePresses DEF Next
<1>3. ChecksWait'
  BY <1>1, <1>2 DEF ChecksWait, Presses
<1>4. ASSUME NEW r \in HumanCheck PROVE Known(r)'
  <2>0. r \in Row /\ Known(r) /\ RowInv(r)
    BY <1>1, ConstantsAssumption DEF Batons
  <2>1. /\ log[r].approved => log'[r].approved
        /\ "escalated" \in log[r].reached => "escalated" \in log'[r].reached
        /\ state'[r] = "escalated" => "escalated" \in log'[r].reached
        /\ state[r] = "awaiting_approval" /\ state'[r] = "verified" => log'[r].approved
    BY <2>0, Remembered
  <2>2. Shift(s, r)
    BY <1>1, <1>2, <2>0, Shifts, StillShifts
  <2>3. state'[r] \in Settled => log'[r].approved \/ "escalated" \in log'[r].reached
    <3> SUFFICES ASSUME state'[r] \in Settled PROVE log'[r].approved \/ "escalated" \in log'[r].reached
      OBVIOUS
    <3>1. CASE state[r] \in Settled
      BY <2>0, <2>1, <3>1 DEF Known
    <3>2. CASE state[r] \notin Settled
      <4>1. /\ job[s].row = r /\ state'[r] = "verified"
            /\ Running(s, "settle", "verify") \/ Running(s, "runChecks", "verify")
        BY <2>2, <3>2 DEF Shift, Settled
      <4>2. Running(s, "settle", "verify")
        BY <1>1, <4>1 DEF ChecksWait
      <4> QED
        BY <2>0, <2>1, <4>1, <4>2 DEF Known
    <3> QED
      BY <3>1, <3>2
  <2>4. ASSUME NEW t \in Slot, job'[t].fn = "settle", job'[t].row = r, job'[t].pc # "load"
        PROVE  state'[r] = "awaiting_approval" \/ "escalated" \in log'[r].reached
    <3>1. CASE UNCHANGED state /\ state[r] = "awaiting_approval"
      BY <3>1
    <3>2. CASE job[t].fn = "settle" /\ job[t].row = r /\ job[t].pc # "load"
      <4>1. CASE "escalated" \in log[r].reached
        BY <2>1, <4>1
      <4>2. CASE state[r] = "awaiting_approval"
        <5>1. ~(job[s].fn \in {"agentStep", "runChecks", "settle"} /\ job[s].row = r
                    /\ (job[s].fn = "settle" => job'[s].fn = "idle"))
          <6> SUFFICES ASSUME job[s].fn \in {"agentStep", "runChecks", "settle"}, job[s].row = r,
                              job[s].fn = "settle" => job'[s].fn = "idle"
                       PROVE  FALSE
            OBVIOUS
          <6>1. Has(job[s], r) /\ Has(job[t], r)
            BY <3>2 DEF Has
          <6>2. s = t
            BY <2>0, <6>1 DEF RowInv, OneBaton
          <6> QED
            BY <2>4, <3>2, <6>2
        <5>2. state'[r] \in {state[r], "escalated"}
          BY <2>2, <4>2, <5>1 DEF Shift, Edges
        <5> QED
          BY <2>1, <4>2, <5>2
      <4> QED
        BY <2>0, <3>2, <4>1, <4>2 DEF Known
    <3> QED
      BY <1>2, <2>4, <3>1, <3>2 DEF Presses
  <2> QED
    BY <2>1, <2>3, <2>4 DEF Known
<1> QED
  BY <1>3, <1>4

LEMMA KnownInit == Init /\ InitLog => Recorded /\ KnownInv
<1> SUFFICES ASSUME Init, InitLog PROVE Recorded /\ KnownInv
  OBVIOUS
<1>1. (\A s \in Slot : job[s] = Idle) /\ \A r \in Row : state[r] = "drafted"
  BY DEF Init, InitJobs, InitLedger
<1>2. Recorded
  BY DEF InitLog, Recorded, Entry
<1> QED
  BY <1>1, <1>2, ConstantsAssumption DEF KnownInv, Known, ChecksWait, Running, Idle, Settled

LEMMA KnownStill ==
    ASSUME UNCHANGED <<vars, log>>
    PROVE  (Recorded => Recorded') /\ (KnownInv => KnownInv')
<1>1. UNCHANGED <<state, job, used, came, pressed, log>>
  BY DEF vars, runtimeVars, ledgerVars, jobVars, surfaceVars, outsideVars
<1>2. Recorded => Recorded'
  BY <1>1 DEF Recorded
<1>3. Undisturbed' = Undisturbed /\ ChecksWait' = ChecksWait
  BY <1>1 DEF Undisturbed, ChecksWait, Running
<1>4. \A r \in HumanCheck : Known(r) => Known(r)'
  BY <1>1 DEF Known
<1> QED
  BY <1>2, <1>3, <1>4 DEF KnownInv

\* What is answered about decisions: of a row that waits, everyone who may decide it is
\* told so, and a person's row that is settled was approved or escalated.
LEMMA Answered ==
    ASSUME Recorded, KnownInv, Undisturbed
    PROVE  DecisionsAreKnown
<1> SUFFICES ASSUME NEW r \in HumanCheck
             PROVE  /\ state[r] = "awaiting_approval" =>
                            \A w \in Person : MayResolve(r, state[r], "verified", w) =>
                                r \in WhatNeedsMe(w).approvals
                    /\ state[r] \in Settled =>
                            \/ Who(About(r))[r] = "approved"
                            \/ "escalated" \in Why(About(r))[r].came
  BY DEF DecisionsAreKnown
<1>0. r \in Row
  BY ConstantsAssumption
<1>1. ASSUME state[r] = "awaiting_approval", NEW w \in Person, MayResolve(r, state[r], "verified", w)
      PROVE  r \in WhatNeedsMe(w).approvals
  <2>1. w \in Approver[r]
    BY <1>1 DEF MayResolve
  <2>2. MayApprove(r, w)
    BY <1>0, <2>1, WorkAskAssumption DEF MayApprove
  <2> QED
    BY <1>0, <1>1, <2>2 DEF WhatNeedsMe
<1>2. r \in MatchRows(About(r))
  BY <1>0 DEF MatchRows, About
<1>3. /\ Who(About(r))[r] = IF log[r].approved THEN "approved" ELSE "nobody has approved it"
      /\ Why(About(r))[r].came = log[r].reached
  BY <1>2 DEF Who, Why
<1>4. state[r] \in Settled => log[r].approved \/ "escalated" \in log[r].reached
  BY DEF KnownInv, Known
<1> QED
  BY <1>1, <1>3, <1>4

\* Decisions do not get lost on the way to people and back (lib/ask/ask.ts): as long as
\* rows are released from blocked, in an undisturbed run, with at most one press, whoever
\* may settle a row that waits is told so, and of a row only a person can settle the
\* ledger says that it was approved, or that it was escalated while a press was settled.
THEOREM DecisionsKnown ==
    Init /\ InitLog /\ [][Next /\ Remember]_<<vars, log>> /\ [][ReleasedFromBlocked]_vars
        => [](Undisturbed => DecisionsAreKnown)
<1> DEFINE I == Typed /\ BatonInv /\ Recorded /\ KnownInv
<1>1. Init /\ InitLog => I
  BY TypedInit, BatonInit, KnownInit
<1>2. I /\ [Next /\ Remember]_<<vars, log>> /\ [ReleasedFromBlocked]_vars => I'
  <2> SUFFICES ASSUME I, [Next /\ Remember]_<<vars, log>>, [ReleasedFromBlocked]_vars PROVE I'
    OBVIOUS
  <2>1. [Next]_vars
    OBVIOUS
  <2>2. Typed' /\ BatonInv'
    BY <2>1, TypedStep, BatonStep
  <2>3. Recorded' /\ KnownInv'
    BY StaysRecorded, KnownStep, KnownStill
  <2> QED
    BY <2>2, <2>3
<1>3. I => (Undisturbed => DecisionsAreKnown)
  BY Answered
<1> QED
  BY <1>1, <1>2, <1>3, PTL

=============================================================================
