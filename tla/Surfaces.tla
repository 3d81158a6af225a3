------------------------------- MODULE Surfaces -----------------------------
(***************************************************************************)
(* What reaches the rows from outside the functions: the person who        *)
(* contracts a plan (lib/runtime/contracting.ts), an edit of an input cell *)
(* (lib/sheet/edit.ts), a state typed into the sheet (the transition       *)
(* route), and the deadline sweep (inngest/functions/unblock.ts).  Each is *)
(* a sequence of awaits like a function, and takes a slot while it runs.   *)
(***************************************************************************)
EXTENDS Jobs

CONSTANTS
    MaxEdits,    \* bound on the edits of a row's inputs
    MaxTyped,    \* bound on the states typed
    MaxSweeps,   \* bound on the deadline sweeps
    Deadlined    \* the rows that have a deadline, which may have passed

ASSUME SurfacesAssumption ==
    /\ MaxEdits \in Nat /\ MaxTyped \in Nat /\ MaxSweeps \in Nat
    /\ Deadlined \subseteq Row

VARIABLES
    contracting,  \* whether a person has contracted the plan
    used          \* how many edits, typed states and sweeps there were

surfaceVars == <<contracting, used>>

InitSurfaces == contracting = FALSE /\ used = [edits |-> 0, typed |-> 0, sweeps |-> 0]

-----------------------------------------------------------------------------
(* contractRun: row by row, then the events of the rows that can start.    *)

StartContracting(s, a) ==
    /\ ~contracting
    /\ contracting' = TRUE
    /\ a \in Person
    /\ job[s] = Idle
    /\ job' = [job EXCEPT ![s] =
                  [fn |-> "contractRun", row |-> CHOOSE r \in Row : TRUE, pc |-> "rows",
                   seen |-> [actor |-> a,
                             rows |-> {r \in Row : state[r] = "drafted"},
                             started |-> {}]]]
    /\ UNCHANGED <<ledgerVars, pending, contents, used>>

Contract(s) ==
    LET seen == job[s].seen IN
    /\ Running(s, "contractRun", "rows")
    /\ \E r \in seen.rows :
           LET target == IF Blocker[r] # {} THEN "blocked" ELSE "contracted"
               rest == seen.rows \ {r}
           IN  \/ /\ Moved(r, target, seen.actor)
                  /\ Recall(s, "rows", [seen EXCEPT !.rows = rest,
                         !.started = @ \cup IF target = "blocked" THEN {} ELSE {r}])
               \/ /\ Refused(r, target, seen.actor)
                  /\ Recall(s, "rows", [seen EXCEPT !.rows = rest])
    /\ UNCHANGED <<pending, contents, surfaceVars>>

SendContracted(s) ==
    /\ Running(s, "contractRun", "rows")
    /\ job[s].seen.rows = {}
    /\ pending' = [pending EXCEPT !["assigned"] =
                      [r \in Row |-> @[r] + IF r \in job[s].seen.started THEN 1 ELSE 0]]
    /\ Finish(s)
    /\ UNCHANGED <<ledgerVars, contents, surfaceVars>>

-----------------------------------------------------------------------------
(* editCell on an input column.                                            *)

RUNNING == {"contracted", "in_progress", "handed_back", "blocked", "escalated",
            "completed_pending_check", "awaiting_approval"}

NEEDS_HANDBACK == {"in_progress", "completed_pending_check", "awaiting_approval"}

\* The contract is read and its inputs are overwritten; what follows depends on
\* the state that was read.
StartEdit(s, r, a) ==
    /\ used.edits < MaxEdits
    /\ used' = [used EXCEPT !.edits = @ + 1]
    /\ a \in Person
    /\ inputs' = [inputs EXCEPT ![r] = used'.edits]
    /\ IF state[r] \in RUNNING
       THEN Start(s, "edit", r,
                  IF state[r] \in NEEDS_HANDBACK THEN "handback" ELSE "reassign",
                  [actor |-> a])
       ELSE job[s] = Idle /\ UNCHANGED job
    /\ UNCHANGED <<ledgerVars, pending, outputs, proven, contracting>>

EditHandsBack(s) ==
    LET r == job[s].row
        a == job[s].seen.actor
    IN  /\ Running(s, "edit", "handback")
        /\ \/ Moved(r, "handed_back", a) /\ Goto(s, "reassign")
           \/ Refused(r, "handed_back", a) /\ Goto(s, "escalate")
        /\ UNCHANGED <<pending, contents, surfaceVars>>

\* Someone else's approval cannot be handed back, so the row goes to a person.
EditEscalates(s) ==
    LET r == job[s].row
        a == job[s].seen.actor
    IN  /\ Running(s, "edit", "escalate")
        /\ Moved(r, "escalated", a) \/ Refused(r, "escalated", a)
        /\ Goto(s, "reassign")
        /\ UNCHANGED <<pending, contents, surfaceVars>>

\* Mutant: the row is handed back and left there.
EditRests(s) ==
    /\ Running(s, "edit", "reassign")
    /\ Finish(s)
    /\ UNCHANGED <<ledgerVars, pending, contents, surfaceVars>>

EditReassigns(s) ==
    /\ Running(s, "edit", "reassign")
    /\ Send("assigned", job[s].row)
    /\ Finish(s)
    /\ UNCHANGED <<ledgerVars, contents, surfaceVars>>

-----------------------------------------------------------------------------
(* A state typed into the status column: a transition and nothing more.    *)

TypeState(r, to, a) ==
    /\ used.typed < MaxTyped
    /\ used' = [used EXCEPT !.typed = @ + 1]
    /\ Moved(r, to, a)
    /\ UNCHANGED <<jobVars, contents, contracting>>

-----------------------------------------------------------------------------
(* The deadline sweep: one read, then an escalation for each row found.    *)

StartSweep(s) ==
    /\ used.sweeps < MaxSweeps
    /\ used' = [used EXCEPT !.sweeps = @ + 1]
    /\ job[s] = Idle
    /\ \E overdue \in SUBSET {r \in Deadlined : state[r] \notin {"done", "verified", "failed"}} :
           job' = [job EXCEPT ![s] =
                      [fn |-> "deadlines", row |-> CHOOSE r \in Row : TRUE, pc |-> "rows",
                       seen |-> [rows |-> overdue]]]
    /\ UNCHANGED <<ledgerVars, pending, contents, contracting>>

Sweep(s) ==
    LET rows == job[s].seen.rows IN
    /\ Running(s, "deadlines", "rows")
    /\ \/ \E r \in rows :
              /\ \/ Moved(r, "escalated", EscalatorOf(r))
                 \/ Refused(r, "escalated", EscalatorOf(r))
              /\ Recall(s, "rows", [rows |-> rows \ {r}])
       \/ rows = {} /\ Finish(s) /\ UNCHANGED ledgerVars
    /\ UNCHANGED <<pending, contents, surfaceVars>>

SurfacesStep(s) ==
    \/ Contract(s)
    \/ SendContracted(s)
    \/ EditHandsBack(s)
    \/ EditEscalates(s)
    \/ EditReassigns(s)
    \/ Sweep(s)

SurfacesAct ==
    \/ \E s \in Slot, r \in Row, a \in Worker : StartEdit(s, r, a)
    \/ \E r \in Row, to \in State, a \in Worker : TypeState(r, to, a)
    \/ \E s \in Slot : StartSweep(s)

=============================================================================
