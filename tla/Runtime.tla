------------------------------- MODULE Runtime ------------------------------
(***************************************************************************)
(* The runtime of a run: every durable function that moves rows, running   *)
(* on the shared job slots against the surfaces.  The dispatcher delivers  *)
(* each event once and in any order, and invocations interleave at every   *)
(* await.                                                                  *)
(***************************************************************************)
EXTENDS AgentStep, RunChecks, Unblock, Approvals, Surfaces, Outside

CONSTANT MaxActs  \* bound on what people and agents elsewhere do beside contracting the run

ASSUME RuntimeAssumption == MaxActs \in Nat

vars == <<runtimeVars, closed, pressed, surfaceVars, outsideVars>>

Init ==
    /\ InitJobs
    /\ InitSurfaces
    /\ InitOutside
    /\ closed = FALSE
    /\ pressed = 0

\* contractRun() ends by setting runs.status to "running", whatever it was.
RunsAgain(s) == Running(s, "contractRun", "rows") /\ job[s].seen.rows = {}

\* What slot s may do by itself: start the next invocation or go on with one.
Progress(s) ==
    \/ AgentStepNext(s) /\ UNCHANGED <<closed, pressed, surfaceVars, outsideVars>>
    \/ RunChecksNext(s) /\ UNCHANGED <<closed, pressed, surfaceVars, outsideVars>>
    \/ UnblockNext(s) /\ UNCHANGED <<pressed, surfaceVars, outsideVars>>
    \/ ApprovalsStep(s) /\ UNCHANGED <<closed, surfaceVars, outsideVars>>
    \/ SurfacesStep(s) /\ closed' = (closed /\ ~RunsAgain(s)) /\ UNCHANGED <<pressed, outsideVars>>
    \/ OutsideStep(s) /\ UNCHANGED <<closed, pressed, surfaceVars>>

Acts == pressed + used.edits + used.typed + used.sweeps + came.toggles + came.calls

\* What people do, and agents elsewhere, which nothing makes them do.
People ==
    \/ \E s \in Slot, a \in Worker :
           StartContracting(s, a) /\ UNCHANGED <<closed, pressed, outsideVars>>
    \/ /\ Acts < MaxActs
       /\ \/ \E s \in Slot, r \in Row, a \in Worker, decision \in Decision :
                 Press(s, r, a, decision) /\ UNCHANGED <<closed, surfaceVars, outsideVars>>
          \/ SurfacesAct /\ UNCHANGED <<closed, pressed, outsideVars>>
          \/ OutsideActs /\ UNCHANGED <<closed, pressed, surfaceVars>>

Next == People \/ \E s \in Slot : Progress(s)

\* An invocation that can go on does: the process keeps running its event loop,
\* an await returns, a model answers or fails, a window closes.
Fairness == \A s \in Slot : WF_vars(Progress(s))

Spec == Init /\ [][Next]_vars /\ Fairness

-----------------------------------------------------------------------------
(* Properties.                                                             *)

TypeOK ==
    /\ JobsTypeOK
    /\ closed \in BOOLEAN
    /\ pressed \in 0 .. MaxPressed
    /\ contracting \in BOOLEAN
    /\ OutsideTypeOK

Quiet ==
    /\ \A s \in Slot : job[s] = Idle
    /\ \A name \in EventName, r \in Row : pending[name][r] = 0
    /\ \A w \in Worker : told[w] = 0

AtWork(s, r) ==
    /\ job[s].fn = "agentStep"
    /\ job[s].row = r
    /\ job[s].pc \in {"work", "outputs", "submit"}

\* A row is never worked by two agent loops at once, however its assignments,
\* retries and releases interleave.
OneLoopPerRow ==
    \A r \in Row : \A s, t \in Slot : AtWork(s, r) /\ AtWork(t, r) => s = t

\* "Done means proven": the outputs of a settled row are the ones that passed its
\* check (a person's decision with no agent behind it has none).
SettledOutputsPassed ==
    \A r \in Row : state[r] \in Settled /\ Owner[r] \notin Person =>
        outputs[r] \in proven[r]

\* Retries are bounded: an agent never starts a row more often than the row
\* allows, whether the check or the approver sends it back.
RetriesAreBounded ==
    \A r \in Row : Owner[r] \notin Person => attempts[r] <= MaxAttempts[r]

\* A row that waits for a person is watched: an announcement of it is on its way
\* or a watcher will still look at it or escalate it.
WaitingIsWatched ==
    \A r \in Row : state[r] = "awaiting_approval" =>
        \/ pending["awaiting_approval"][r] > 0
        \/ \E s \in Slot : job[s].fn = "approvals" /\ job[s].row = r

\* Where the functions leave a row of a run in which nobody typed a state: it is done
\* or with a person, or waits for a blocker that is not settled.  The exceptions are a
\* row that its approver handed back when it had no attempts left, one that was
\* assigned to a worker who was revoked at the time, one that an agent elsewhere
\* claimed or replied to without evidence, and one whose check passed without the
\* evidence the row requires: nothing takes those up.
MayRest(r) ==
    \/ state[r] \in {"done", "escalated"}
    \/ state[r] \in {"contracted", "handed_back"} /\ Owner[r] \in Person
    \/ state[r] = "handed_back" /\ attempts[r] >= MaxAttempts[r] /\ pressed > 0
    \/ state[r] = "blocked" /\ \E b \in Blocker[r] : state[b] \notin Settled
    \/ state[r] \in {"contracted", "handed_back"} /\ came.toggles > 0
    \/ state[r] \in {"in_progress", "handed_back"} /\ came.calls > 0
    \/ state[r] = "completed_pending_check" /\ r \notin HumanCheck /\ Required[r] # {}

\* Nothing is forgotten: when a contracted run in which nobody typed a state has
\* gone quiet, each row is where it may rest.
QuietMeansResting ==
    Quiet /\ contracting /\ used.typed = 0 => \A r \in Row : MayRest(r)

\* Revoking a worker stops the work: when all is quiet, no row of a revoked worker
\* is at work, in its check or before an approver.  (It may be contracted to them
\* by someone who read it before.)
RevokedIsAtRest ==
    Quiet /\ used.typed = 0 => \A r \in Row :
        Owner[r] \in revoked =>
            state[r] \notin {"in_progress", "completed_pending_check", "awaiting_approval"}

\* The run goes quiet: no cycle of retries, presses and hand backs goes on
\* forever.
RunSettles == <>[]Quiet

\* The dependents of rows that are all settled are released.
DependentsAreReleased ==
    \A r \in Row :
        state[r] = "blocked" /\ (\A b \in Blocker[r] : state[b] \in Settled)
            ~> state[r] # "blocked"

\* The run is closed once all of its rows are done, unless a row is reopened first.
DoneRunIsClosed ==
    (\A r \in Row : state[r] = "done") ~> closed \/ \E r \in Row : state[r] # "done"

=============================================================================
