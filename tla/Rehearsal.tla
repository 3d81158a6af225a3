------------------------------ MODULE Rehearsal -----------------------------
(***************************************************************************)
(* lib/rehearsal/rehearse.ts: a workflow is run again in a namespace of    *)
(* its own, what people did is replayed from the recorded run, and the     *)
(* two are compared.  The recorded run is a run of Runtime that has come   *)
(* to rest; the rehearsal takes the place of its rows, so `baseline` keeps *)
(* what is read of the record.                                             *)
(*                                                                         *)
(* The definition rehearsed is the recorded one, and the simulators and    *)
(* checks say what they said on record: no agent gives up, no check fails  *)
(* and no sheet invariant speaks.  What then differs is the rehearsal's    *)
(* own doing.                                                              *)
(***************************************************************************)
EXTENDS WorkAsk

CONSTANT MaxPasses  \* how often the work, and the decisions, are gone through

ASSUME RehearsalAssumption == MaxPasses \in Nat \ {0}

VARIABLES
    baseline,  \* the rows of the recorded run
    stage      \* how far rehearse() is: [at, pass, todo, acted]

rehearsalVars == <<baseline, stage>>

At(where) == stage.at = where

-----------------------------------------------------------------------------
(* The recorded run.                                                       *)

\* Once the plan is contracted, someone works a row of theirs (the demo's doHumanRow):
\* it is started ...
StartWork(s, r) ==
    /\ Owner[r] \in Person /\ r \notin HumanCheck
    /\ \A t \in Slot : job[t].fn # "contractRun"
    /\ state[r] = "contracted" /\ attempts[r] = 0 /\ Acts < MaxActs
    /\ Start(s, "person", r, "start", [actor |-> Owner[r]])
    /\ UNCHANGED <<ledgerVars, pending, contents>>

BeginOwn(s) == Running(s, "person", "start") /\ MoveThenGoto(s, "in_progress", job[s].seen.actor, "attach")

\* ... its evidence and outputs are written, and it is submitted.
AttachOwn(s) ==
    /\ Running(s, "person", "attach")
    /\ attached' = [attached EXCEPT ![job[s].row] = @ \cup Required[job[s].row]]
    /\ Goto(s, "submit")
    /\ UNCHANGED <<state, attempts, passing, revoked, pending, contents>>

SubmitOwn(s) ==
    /\ Running(s, "person", "submit")
    /\ MoveThenSend(s, "completed_pending_check", job[s].seen.actor, "completed_pending_check")

OwnStep(s) == BeginOwn(s) \/ AttachOwn(s) \/ SubmitOwn(s)

Live ==
    /\ At("live")
    /\ \/ Next
       \/ \E s \in Slot, r \in Row :
              (StartWork(s, r) \/ OwnStep(s)) /\ UNCHANGED <<closed, pressed, surfaceVars, outsideVars>>
    /\ Remember
    /\ UNCHANGED rehearsalVars

-----------------------------------------------------------------------------
(* rehearse().                                                             *)

\* settle(): nothing executes; an approval that is waited for is quiet, not busy.
AtRest ==
    /\ \A name \in EventName, r \in Row : pending[name][r] = 0
    /\ \A s \in Slot : job[s] = Idle \/ Running(s, "approvals", "wait")

Snapshot == [r \in Row |-> [state |-> state[r], decided |-> log[r].decided, by |-> log[r].by]]

\* The snapshot is taken, the run is planned, and its requester contracts it.
Rehearse(s) ==
    /\ At("live") /\ AtRest /\ contracting
    /\ baseline' = Snapshot
    /\ stage' = [stage EXCEPT !.at = "contracting"]
    /\ state' = [r \in Row |-> "drafted"]
    /\ attempts' = [r \in Row |-> 0]
    /\ passing' = {}
    /\ attached' = [r \in Row |-> {}]
    /\ inputs' = [r \in Row |-> 0]
    /\ outputs' = [r \in Row |-> NoOutputs]
    /\ proven' = [r \in Row |-> {}]
    /\ closed' = FALSE
    /\ s = CHOOSE t \in Slot : TRUE
    /\ job' = [t \in Slot |->
                  IF t = s THEN [fn |-> "contractRun", row |-> AnyRow, pc |-> "rows",
                                 seen |-> [actor |-> Requester, rows |-> Row, started |-> {}]]
                  ELSE Idle]
    /\ UNCHANGED <<revoked, pending, pressed, surfaceVars, outsideVars, log>>

\* The functions run as they do; a window of days does not close meanwhile.
AsRecorded(s) ==
    /\ job'[s] # Idle => /\ job'[s].pc \notin {"late", "restore"}
                         /\ job'[s].pc = "escalate" => job'[s].fn = "approvals"
    /\ \A r \in Row : state'[r] = "escalated" => state[r] = "escalated" \/ Owner[r] = NoOne

Run ==
    /\ ~At("live") /\ ~At("done")
    /\ \E s \in Slot :
           /\ Progress(s) \/ (OwnStep(s) /\ UNCHANGED <<closed, pressed, surfaceVars, outsideVars>>)
           /\ AsRecorded(s)
    /\ UNCHANGED <<log, rehearsalVars>>

Turn(where, pass, todo) ==
    stage' = [at |-> where, pass |-> pass, todo |-> todo, acted |-> FALSE]

OwnRows == {r \in Row : Owner[r] \in Person}

Decided == {r \in Row : baseline[r].decided # "none"}

\* Mutant: a pass that does not wait for the functions.
PassOverAtOnce == stage.todo = {}

PassOver == stage.todo = {} /\ AtRest

\* One pass after the other, until nothing was done in one.
NextPass ==
    LET again == stage.acted /\ stage.pass + 1 < MaxPasses IN
    /\ PassOver
    /\ \/ At("contracting") /\ Turn("work", 0, OwnRows)
       \/ At("work") /\ again /\ Turn("work", stage.pass + 1, OwnRows)
       \/ At("work") /\ ~again /\ Turn("decisions", 0, Decided)
       \/ At("decisions") /\ again /\ Turn("decisions", stage.pass + 1, Decided)
       \/ At("decisions") /\ ~again /\ Turn("done", 0, {})
    /\ UNCHANGED <<vars, log, baseline>>

\* replayHumanWork(): one after the other, the rows of people that are open are
\* started for them, given the evidence and outputs on record, and submitted.
ReplayWork(s, r) ==
    /\ At("work") /\ r \in stage.todo
    /\ \A t \in Slot : job[t].fn # "person"
    /\ IF state[r] \in {"contracted", "handed_back"} /\ Permitted(r, "in_progress", Owner[r])
       THEN /\ Start(s, "person", r, "start", [actor |-> Owner[r]])
            /\ stage' = [stage EXCEPT !.todo = @ \ {r}, !.acted = TRUE]
       ELSE stage' = [stage EXCEPT !.todo = @ \ {r}] /\ UNCHANGED job
    /\ UNCHANGED <<ledgerVars, pending, contents, closed, pressed, surfaceVars, outsideVars, log, baseline>>

\* replayDecisions(): the first decision on record is pressed again by whoever made it,
\* whenever the row waits for one, and settled before the next row is looked at.
ReplayDecision(s, r) ==
    /\ At("decisions") /\ AtRest /\ r \in stage.todo
    /\ \E a \in baseline[r].by :
           IF state[r] = "awaiting_approval"
           THEN /\ Deliver(s, r, a, IF baseline[r].decided = "verified" THEN "approve" ELSE "hand_back")
                /\ stage' = [stage EXCEPT !.todo = @ \ {r}, !.acted = TRUE]
           ELSE stage' = [stage EXCEPT !.todo = @ \ {r}] /\ UNCHANGED job
    /\ UNCHANGED <<ledgerVars, pending, contents, closed, pressed, surfaceVars, outsideVars, log, baseline>>

Rehearsing ==
    \/ \E s \in Slot : Rehearse(s)
    \/ Run
    \/ NextPass
    \/ \E s \in Slot, r \in Row : ReplayWork(s, r) \/ ReplayDecision(s, r)

InitRehearsal ==
    /\ Init
    /\ InitLog
    /\ baseline = [r \in Row |-> [state |-> "drafted", decided |-> "none", by |-> {}]]
    /\ stage = [at |-> "live", pass |-> 0, todo |-> {}, acted |-> FALSE]

SpecRehearsed == InitRehearsal /\ [][Live \/ Rehearsing]_<<vars, log, rehearsalVars>>

\* diffSnapshots(): the rows that were settled and are not now.
Regressions == {r \in Row : baseline[r].state \in Settled /\ state[r] \notin Settled}

Behind(r) == Blocker[r] \cup UNION {Blocker[b] : b \in Blocker[r]}

\* "The human decisions are not invented: they are replayed from the recorded run,
\* so the only thing the rehearsal changes is the definition under test": with no
\* change to the definition no row breaks.  Except that only the first decision on
\* a row is replayed, one made after an escalation is none, a row of a person behind
\* a decision opens after the work has been replayed, and what waits for those.
RehearsalBreaksNothing ==
    At("done") => \A r \in Regressions :
        \/ r \in HumanCheck /\ baseline[r].decided # "verified"
        \/ Owner[r] \in Person /\ r \notin HumanCheck /\ Behind(r) \cap HumanCheck # {}
        \/ Blocker[r] \cap Regressions # {}

=============================================================================
