------------------------------ MODULE Planning ------------------------------
(***************************************************************************)
(* From an ask to a run a person can contract.  An ask is drafted          *)
(* statement by statement (lib/planner/planner.ts).  When it matches the   *)
(* library its run is planned by the function of run/created               *)
(* (inngest/functions/plan.ts), in the process of the worker that claims   *)
(* the message, which may die, time out or hold the message beyond its     *)
(* lease; a composed draft writes its own rows.  A person may contract the *)
(* run at any moment (lib/runtime/contracting.ts).                         *)
(*                                                                         *)
(* The run of an ask and the message that has it planned bear the name of  *)
(* the ask.                                                                *)
(***************************************************************************)
EXTENDS Queue, Planner

CONSTANTS
    Ask,          \* Ask[q]: [says, fills, shape, count, dated, by]
    Library,      \* Library[name]: the workflow: [version, shape, rows, invariants]
    Entities,     \* how many records the fixture or connector of a batch workflow gives
    MaxPlans,     \* bound on the plans of one run under way at a time
    MaxEdits,     \* bound on the corrections of drafts
    Pressed,      \* bound: the runs somebody contracts
    Scenes        \* what there may be at first: [asks, ready, deaths, active, signals]

Request == DOMAIN Ask
Slot == 1 .. MaxPlans

LibraryRow == [key : STRING, behind : SUBSET STRING, approval : BOOLEAN, named : BOOLEAN,
               escalates : BOOLEAN]

ASSUME PlanningAssumption ==
    /\ Request \subseteq Message /\ Pressed \subseteq Request
    /\ MaxPlans \in Nat \ {0} /\ MaxEdits \in Nat /\ Entities \in Nat \ {0}
    /\ \A s \in Scenes : /\ s.deaths \in Nat /\ s.ready \cap Request = {}
                         /\ s.signals \in [DOMAIN s.signals -> Nat] /\ NoOwner \notin DOMAIN s.signals
    /\ \A i \in DOMAIN Intents : Intents[i].workflow \in DOMAIN Library
    /\ \A name \in DOMAIN Library :
           /\ Library[name].shape \in {"plan", "batch"}
           /\ Library[name].rows \in Seq(LibraryRow)
           /\ Library[name].invariants \in Seq(STRING)
           /\ Library[name].shape = "plan" => Library[name].rows # <<>>

VARIABLES
    active,     \* the workers that are active
    signals,    \* signals[v]: how often a field was corrected to v
    workflows,  \* the composed workflows: [name, version, from, shape, keys, owners]
    draft,      \* draft[q]: how far the ask q is drafted, and with what
    run,        \* run[q]: the status of the run of q, and the workflow it pins
    rows,       \* rows[q]: its contracts, by key
    copied,     \* copied[q]: how many copies there are of each invariant
    sheets,     \* sheets[q]: the sheets of the run, each by how many rows it has
    plan,       \* plan[q][i]: the i-th plan of the run q under way
    press       \* press[q]: the person who contracts the run

draftVars == <<active, signals, workflows, draft, run>>
tableVars == <<rows, copied, sheets>>
planningVars == <<draftVars, tableVars, plan, press>>
allVars == <<vars, planningVars>>

NoPlan == [pc |-> "none", by |-> NoWorker, awaited |-> FALSE, next |-> 0, sheet |-> 0]
NoRun == [status |-> "none"]

InitPlanning ==
    /\ \E s \in Scenes :
           /\ InitQueue(Message \ s.ready, s.deaths)
           /\ active = s.active
           /\ signals = s.signals
           /\ draft = [q \in Request |-> [pc |-> IF q \in s.asks THEN "asked" ELSE "none"]]
    /\ workflows = {}
    /\ run = [q \in Request |-> NoRun]
    /\ rows = [q \in Request |-> <<>>]
    /\ copied = [q \in Request |-> <<>>]
    /\ sheets = [q \in Request |-> <<>>]
    /\ plan = [q \in Request |-> [i \in Slot |-> NoPlan]]
    /\ press = [q \in Request |-> [pc |-> "none"]]

-----------------------------------------------------------------------------
(* plan(): the draft of an ask.                                            *)

Changed(record, changes) ==
    [x \in DOMAIN changes \cup DOMAIN record |->
        IF x \in DOMAIN changes THEN changes[x] ELSE record[x]]

At(q, pc) == draft[q].pc = pc
Proceed(q, changes) == draft' = [draft EXCEPT ![q] = Changed(@, changes)]

\* matchLibrary and the learned defaults: what the ask says comes first.
Match(q) ==
    /\ At(q, "asked")
    /\ \E i \in BestMatches(Ask[q].says) :
           LET name == Intents[i].workflow IN
           \E v \in IF Defaults(signals) = {} THEN {NoOwner} ELSE Defaults(signals) :
               LET input == IF Ask[q].fills = NoOwner THEN v ELSE Ask[q].fills
                   uncertain == Unfilled(name, Library[name].rows, input)
               IN  Proceed(q, [pc |-> "run", how |-> "library",
                               workflow |-> <<name, Library[name].version>>, input |-> input,
                               uncertain |-> uncertain, questions |-> Asked(uncertain)])
    /\ UNCHANGED <<vars, active, signals, workflows, run, tableVars, plan, press>>

ComposeDraft(q) ==
    /\ At(q, "asked")
    /\ BestMatches(Ask[q].says) = {}
    /\ \E composition \in Compose(Ask[q], active) :
           Proceed(q, Changed(composition, [pc |-> "version", how |-> "composed",
                                            questions |-> Asked(composition.uncertain)]))
    /\ UNCHANGED <<vars, active, signals, workflows, run, tableVars, plan, press>>

\* Mutant: the highest version there is, for the next one.
SameVersion(seen) == Max({w.version : w \in seen} \cup {0})

VersionAfter(seen) == Max({w.version : w \in seen} \cup {0}) + 1

\* A composed workflow bears the name of its family.
NextVersion(q) ==
    LET name == draft[q].family
        seen == {w \in workflows : w.name = name}
    IN  /\ At(q, "version")
        /\ Proceed(q, [pc |-> "workflow", seen |-> seen, workflow |-> <<name, VersionAfter(seen)>>])
        /\ UNCHANGED <<vars, active, signals, workflows, run, tableVars, plan, press>>

\* The definition bears the ask, from which its inputs and its owner follow.  On a
\* conflict of name and version nothing is written: another ask of the family read
\* the same versions, and the draft goes on with the definition of that ask.
Definition(q) ==
    [name |-> draft[q].workflow[1], version |-> draft[q].workflow[2], from |-> q,
     shape |-> draft[q].shape, keys |-> draft[q].keys, owners |-> draft[q].owners]

StoreWorkflow(q) ==
    LET new == Definition(q)
    IN  /\ At(q, "workflow")
        /\ workflows' = IF \E w \in workflows : w.name = new.name /\ w.version = new.version
                        THEN workflows ELSE workflows \cup {new}
        /\ Proceed(q, [pc |-> "run"])
        /\ UNCHANGED <<vars, active, signals, run, tableVars, plan, press>>

InsertRun(q) ==
    /\ At(q, "run")
    /\ run' = [run EXCEPT ![q] = [status |-> "drafted", workflow |-> draft[q].workflow]]
    /\ Proceed(q, [pc |-> IF draft[q].how = "library" THEN "send"
                          ELSE IF draft[q].shape = "batch" THEN "sheet" ELSE "rows"])
    /\ UNCHANGED <<vars, active, signals, workflows, tableVars, plan, press>>

Send(q) ==
    /\ At(q, "send")
    /\ Enqueue(q)
    /\ Proceed(q, [pc |-> "answered"])
    /\ UNCHANGED <<active, signals, workflows, run, tableVars, plan, press>>

\* The rows of a composed plan are inserted one by one, and then blocked one by one.
InsertRow(q) ==
    LET keys == draft[q].keys
        n == Cardinality(DOMAIN rows[q]) + 1
    IN  /\ At(q, "rows")
        /\ rows' = [rows EXCEPT ![q] =
                       Changed(@, [k \in {keys[n]} |-> [state |-> "drafted", behind |-> {}]])]
        /\ Proceed(q, [pc |-> IF n = Len(keys) THEN "link" ELSE "rows", linked |-> 1])
        /\ UNCHANGED <<vars, active, signals, workflows, run, copied, sheets, plan, press>>

LinkRow(q) ==
    LET keys == draft[q].keys
        n == draft[q].linked + 1
    IN  /\ At(q, "link")
        /\ rows' = [rows EXCEPT ![q][keys[n]].behind = Behind(keys, n)]
        /\ Proceed(q, [pc |-> IF n = Len(keys) THEN "answered" ELSE "link", linked |-> n])
        /\ UNCHANGED <<vars, active, signals, workflows, run, copied, sheets, plan, press>>

OpenSheet(q) == sheets' = [sheets EXCEPT ![q] = Append(@, 0)]
FillRow(q, n) == sheets' = [sheets EXCEPT ![q][n] = @ + 1]

DraftSheet(q) ==
    /\ At(q, "sheet")
    /\ OpenSheet(q)
    /\ Proceed(q, [pc |-> "fill"])
    /\ UNCHANGED <<vars, active, signals, workflows, run, rows, copied, plan, press>>

\* createBatchSheet: a record and its cells at a time; three when the ask names no
\* number.
RowCount(q) == IF Ask[q].count = 0 THEN 3 ELSE Ask[q].count

DraftRecord(q) ==
    /\ At(q, "fill")
    /\ FillRow(q, 1)
    /\ Proceed(q, [pc |-> IF sheets[q][1] + 1 = RowCount(q) THEN "answered" ELSE "fill"])
    /\ UNCHANGED <<vars, active, signals, workflows, run, rows, copied, plan, press>>

Edits == FoldFunction(LAMBDA x, y : x + y, 0, signals)

\* recordDraftEdit: a correction of a field to v; those that no draft under way can
\* read are left out.
RecordDraftEdit(v) ==
    /\ \E q \in Request : At(q, "asked")
    /\ Edits < MaxEdits
    /\ signals' = [signals EXCEPT ![v] = @ + 1]
    /\ UNCHANGED <<vars, active, workflows, draft, run, tableVars, plan, press>>

Drafting(q) ==
    \/ Match(q) \/ ComposeDraft(q) \/ NextVersion(q) \/ StoreWorkflow(q) \/ InsertRun(q)
    \/ Send(q) \/ InsertRow(q) \/ LinkRow(q) \/ DraftSheet(q) \/ DraftRecord(q)

-----------------------------------------------------------------------------
(* The plan function, in the process of the worker that runs the message.  *)

Pinned(q) == Library[run[q].workflow[1]]
BehindIn(w, k) == (CHOOSE r \in Range(w.rows) : r.key = k).behind
Keys(w) == {r.key : r \in Range(w.rows)}

Quiet(w) ==
    \A q \in Request, i \in Slot : plan[q][i].by = w => plan[q][i].pc \in {"returned", "threw"}

Plans(q, i, pc) == plan[q][i].pc = pc
Go(q, i, pc) == plan' = [plan EXCEPT ![q][i].pc = pc]

\* A plan that its worker no longer waits for is forgotten as it ends; the
\* dispatcher keeps the failure on record.
Return(q, i) ==
    /\ plan' = [plan EXCEPT ![q][i] = IF @.awaited THEN [@ EXCEPT !.pc = "returned"] ELSE NoPlan]
    /\ UNCHANGED vars

Throw(q, i) ==
    LET w == plan[q][i].by IN
    /\ plan' = [plan EXCEPT ![q][i] = IF @.awaited THEN [@ EXCEPT !.pc = "threw"] ELSE NoPlan]
    /\ IF plan[q][i].awaited THEN UNCHANGED vars
       ELSE /\ worker' = [worker EXCEPT ![w].failures = TRUE]
            /\ UNCHANGED <<messageVars, locked, ran, broke, crashes, overran>>

\* Mutant: a plan that finds its rows has nothing to do.
InsertRowsOnce(q, i) ==
    LET w == Pinned(q) IN
    /\ Plans(q, i, "rows")
    /\ IF DOMAIN rows[q] # {} THEN Return(q, i) /\ UNCHANGED rows
       ELSE /\ rows' = [rows EXCEPT ![q] = [k \in Keys(w) |->
                           [state |-> "drafted", behind |-> BehindIn(w, k)]]]
            /\ Go(q, i, "look")
            /\ UNCHANGED vars
    /\ UNCHANGED <<draftVars, copied, sheets, press>>

\* All rows are inserted by one statement, which throws when a key is there already
\* or listed twice: it is unique in its run.
InsertRows(q, i) ==
    LET w == Pinned(q) IN
    /\ Plans(q, i, "rows")
    /\ IF DOMAIN rows[q] \cap Keys(w) # {} \/ Cardinality(Keys(w)) # Len(w.rows)
       THEN Throw(q, i) /\ UNCHANGED rows
       ELSE /\ rows' = [rows EXCEPT ![q] = [k \in Keys(w) |->
                           [state |-> "drafted", behind |-> BehindIn(w, k)]]]
            /\ Go(q, i, "look")
            /\ UNCHANGED vars
    /\ UNCHANGED <<draftVars, copied, sheets, press>>

\* copyInvariants: nothing to do once the run has any; otherwise one by one.  In a
\* plan the surfaces follow, which may fail and which nothing here reads.
AfterInvariants(q, i) ==
    IF Pinned(q).shape = "batch" THEN Return(q, i) ELSE Go(q, i, "sheet") /\ UNCHANGED vars

LookForInvariants(q, i) ==
    /\ Plans(q, i, "look")
    /\ IF DOMAIN copied[q] # {} \/ Pinned(q).invariants = <<>> THEN AfterInvariants(q, i)
       ELSE /\ plan' = [plan EXCEPT ![q][i].pc = "copy", ![q][i].next = 1]
            /\ UNCHANGED vars
    /\ UNCHANGED <<draftVars, tableVars, press>>

CopyInvariant(q, i) ==
    LET n == plan[q][i].next
        invariant == Pinned(q).invariants[n]
        had == IF invariant \in DOMAIN copied[q] THEN copied[q][invariant] ELSE 0
    IN  /\ Plans(q, i, "copy")
        /\ copied' = [copied EXCEPT ![q] = Changed(@, [v \in {invariant} |-> had + 1])]
        /\ IF n = Len(Pinned(q).invariants) THEN AfterInvariants(q, i)
           ELSE plan' = [plan EXCEPT ![q][i].next = n + 1] /\ UNCHANGED vars
        /\ UNCHANGED <<draftVars, rows, sheets, press>>

\* materializePlanSheet: the sheet of the run, or a new one, and a row of it for
\* each contract the run has by then.
MaterializeSheet(q, i) ==
    /\ Plans(q, i, "sheet")
    /\ IF sheets[q] = <<>> THEN OpenSheet(q) ELSE UNCHANGED sheets
    /\ Go(q, i, "cells")
    /\ UNCHANGED <<vars, draftVars, rows, copied, press>>

MaterializeRows(q, i) ==
    /\ Plans(q, i, "cells")
    /\ sheets' = [sheets EXCEPT ![q][1] = Cardinality(DOMAIN rows[q])]
    /\ Return(q, i)
    /\ UNCHANGED <<draftVars, rows, copied, press>>

\* createBatchRows: the connector that lists the records may refuse; each plan makes
\* a sheet of its own.
CreateBatchSheet(q, i) ==
    /\ Plans(q, i, "batch")
    /\ \/ Throw(q, i) /\ UNCHANGED sheets
       \/ /\ OpenSheet(q)
          /\ plan' = [plan EXCEPT ![q][i].pc = "records", ![q][i].sheet = Len(sheets[q]) + 1]
          /\ UNCHANGED vars
    /\ UNCHANGED <<draftVars, rows, copied, press>>

CreateRecord(q, i) ==
    LET n == plan[q][i].sheet IN
    /\ Plans(q, i, "records")
    /\ FillRow(q, n)
    /\ Go(q, i, IF sheets[q][n] + 1 = Entities THEN "look" ELSE "records")
    /\ UNCHANGED <<vars, draftVars, rows, copied, press>>

PlanStep(q, i) ==
    \/ InsertRows(q, i) \/ LookForInvariants(q, i) \/ CopyInvariant(q, i)
    \/ MaterializeSheet(q, i) \/ MaterializeRows(q, i)
    \/ CreateBatchSheet(q, i) \/ CreateRecord(q, i)

-----------------------------------------------------------------------------
(* The worker: a message of a run starts its plan and ends as the plan     *)
(* does; the worker waits until all that its process runs is quiet.        *)

FreeSlots(q) == {i \in Slot : plan[q][i] = NoPlan}
FreeSlot(q) == CHOOSE i \in Slot : plan[q][i] = NoPlan

NewPlan(q, w) == [pc |-> IF Pinned(q).shape = "batch" THEN "batch" ELSE "rows",
                  by |-> w, awaited |-> TRUE, next |-> 0, sheet |-> 0]

StartMessage(w) ==
    /\ StartRun(w)
    /\ LET m == worker'[w].doing.message IN
       IF m \notin Request THEN UNCHANGED plan
       ELSE /\ FreeSlots(m) # {}
            /\ plan' = [plan EXCEPT ![m][FreeSlot(m)] = NewPlan(m, w)]
    /\ UNCHANGED <<draftVars, tableVars, press>>

Awaited(w) ==
    {x \in Request \X Slot : plan[x[1]][x[2]].by = w /\ plan[x[1]][x[2]].awaited}

Ended(w) == {plan[x[1]][x[2]].pc : x \in Awaited(w)}

Forget(w) ==
    plan' = [q \in Request |-> [i \in Slot |->
                IF <<q, i>> \in Awaited(w) THEN NoPlan ELSE plan[q][i]]]

\* What the plan did; any other function may end either way.
SucceedMessage(w) ==
    /\ Quiet(w) /\ "threw" \notin Ended(w)
    /\ Succeed(w) /\ Forget(w)
    /\ UNCHANGED <<draftVars, tableVars, press>>

FailMessage(w) ==
    /\ Quiet(w) /\ "returned" \notin Ended(w)
    /\ Fail(w) /\ Forget(w)
    /\ UNCHANGED <<draftVars, tableVars, press>>

\* The worker no longer waits; what it runs goes on in the process.
TimeOutMessage(w) ==
    /\ ~Quiet(w) \/ Awaited(w) = {}
    /\ TimeOut(w)
    /\ plan' = [q \in Request |-> [i \in Slot |->
                   IF <<q, i>> \in Awaited(w) THEN [plan[q][i] EXCEPT !.awaited = FALSE]
                   ELSE plan[q][i]]]
    /\ UNCHANGED <<draftVars, tableVars, press>>

CrashWorker(w) ==
    /\ Crash(w)
    /\ plan' = [q \in Request |-> [i \in Slot |->
                   IF plan[q][i].by = w THEN NoPlan ELSE plan[q][i]]]
    /\ UNCHANGED <<draftVars, tableVars, press>>

Carry(w) ==
    /\ \/ NextBatch(w) \/ CommitClaim(w) \/ EndBatch(w) \/ EndDrain(w)
       \/ SettleDone(w) \/ ReadTries(w) \/ GiveUp(w) \/ BackOff(w)
    /\ UNCHANGED planningVars

WorkerStep(w) ==
    \/ Carry(w) \/ StartMessage(w) \/ SucceedMessage(w) \/ FailMessage(w) \/ TimeOutMessage(w)

-----------------------------------------------------------------------------
(* contractRun: a person contracts the rows that are there.                *)

StartPress(q) ==
    /\ run[q].status # "none"
    /\ q \in Pressed
    /\ press[q].pc = "none"
    /\ press' = [press EXCEPT ![q] = [pc |-> "rows", seen |-> rows[q], left |-> DOMAIN rows[q],
                                      early |-> draft[q].pc # "answered"]]
    /\ UNCHANGED <<vars, draftVars, tableVars, plan>>

\* A row is blocked when it was read with a blocker; the move is refused when the
\* row has moved.
PressRow(q) ==
    /\ press[q].pc = "rows"
    /\ \E k \in press[q].left :
           /\ rows' = [rows EXCEPT ![q][k].state =
                  IF @ = "drafted"
                  THEN IF press[q].seen[k].behind # {} THEN "blocked" ELSE "contracted"
                  ELSE @]
           /\ press' = [press EXCEPT ![q].left = @ \ {k}]
    /\ UNCHANGED <<vars, draftVars, copied, sheets, plan>>

EndPress(q) ==
    /\ press[q].pc = "rows" /\ press[q].left = {}
    /\ run' = [run EXCEPT ![q].status = "running"]
    /\ press' = [press EXCEPT ![q].pc = "done"]
    /\ UNCHANGED <<vars, active, signals, workflows, draft, tableVars, plan>>

Passing(m) == (Expire(m) \/ ComeDue(m)) /\ UNCHANGED planningVars

GoingOn ==
    \/ \E w \in Worker : WorkerStep(w)
    \/ \E m \in Message : Passing(m)
    \/ \E q \in Request, i \in Slot : PlanStep(q, i)

Drained(w) == Drain(w) /\ UNCHANGED planningVars

NextPlanning ==
    \/ GoingOn
    \/ \E w \in Worker : Drained(w) \/ CrashWorker(w)
    \/ \E q \in Request : Drafting(q) \/ StartPress(q) \/ PressRow(q) \/ EndPress(q)
    \/ \E v \in DOMAIN signals : RecordDraftEdit(v)

\* Drains and plans under way go on, and time passes.  Nobody has to ask, to answer, to
\* contract or to call drain().
SpecPlanning == InitPlanning /\ [][NextPlanning]_allVars /\ WF_allVars(GoingOn)

-----------------------------------------------------------------------------
(* Properties.                                                             *)

Whole(q) ==
    LET w == Pinned(q) IN
    /\ \A n \in DOMAIN w.invariants : w.invariants[n] \in DOMAIN copied[q]
    /\ IF w.shape = "batch" THEN \E n \in DOMAIN sheets[q] : sheets[q][n] = Entities
       ELSE /\ DOMAIN rows[q] = Keys(w)
            /\ Len(sheets[q]) = 1 /\ sheets[q][1] = Len(w.rows)

Undisturbed(q) == q \notin broke /\ crashes = 0 /\ \A i \in Slot : plan[q][i] = NoPlan

\* plan.ts: a message is done when what it asks for was done, and a run whose
\* message is done has what its workflow lists, once: rows, invariants and sheet,
\* although its plan may have died, failed, timed out and started again anywhere.
\* A batch sheet is made again by each attempt, and whichever attempt finds an
\* invariant copies no more of them; so it is held to this when no attempt at it
\* ended badly.
DoneRunsAreWhole ==
    \A m \in Message : status[m] = "done" =>
        /\ m \in ran
        /\ m \in Request /\ (Pinned(m).shape = "plan" \/ Undisturbed(m)) => Whole(m)

\* A run pins the definition its own ask was composed to.  The code promises no more
\* than this: when another ask of the family stored that version after q had read the
\* versions, the definition of q is lost and its run pins the one of that ask.
PinsItsOwn(q, w) ==
    /\ <<w.name, w.version>> = run[q].workflow
    /\ w.keys = draft[q].keys
    /\ IF w.from = q THEN w.shape = draft[q].shape /\ w.owners = draft[q].owners
       ELSE w \notin draft[q].seen

\* Asked about, unless as many questions as are put come before it.
IsAsked(q, u) ==
    /\ u \in draft[q].uncertain
    /\ u \in draft[q].questions \/ Cardinality(draft[q].questions) = MAX_QUESTIONS

\* planner.ts, compose.ts: "It never silently guesses".  What is answered to an ask
\* is what was written: the rows of the workflow its run pins, each behind the one
\* before it, none contracted ahead of the one before it unless somebody
\* contracted while they were being written; each step is proposed to a worker who
\* holds a tool of it, to an approver when it needs a person, or to nobody, and then
\* it is asked about, as a hire without a name is; there are three questions at
\* most; and a default was corrected to more than once.
DraftsAreWhatTheySay ==
    \A q \in Request : draft[q].pc = "answered" =>
        /\ Cardinality(draft[q].questions) <= MAX_QUESTIONS
        /\ IF draft[q].how = "library"
           THEN LET name == draft[q].workflow[1] IN
                /\ Ask[q].fills # NoOwner => draft[q].input = Ask[q].fills
                /\ draft[q].input \in DOMAIN signals /\ Ask[q].fills = NoOwner
                       => signals[draft[q].input] > 1
                /\ name = "day_one" /\ draft[q].input = NoOwner
                       => IsAsked(q, Uncertain(Len(Library[name].rows) + 1, "input"))
           ELSE LET keys == draft[q].keys IN
                /\ \E w \in workflows : PinsItsOwn(q, w)
                /\ draft[q].shape = "plan" =>
                       /\ DOMAIN rows[q] = Range(keys)
                       /\ \A n \in DOMAIN keys :
                              /\ rows[q][keys[n]].behind = Behind(keys, n)
                              /\ rows[q][keys[n]].state = "contracted" /\ n > 1 => press[q].early
                /\ \A n \in DOMAIN keys :
                       LET task == CHOOSE t \in Range(TASKS) : t.column = keys[n]
                           owner == draft[q].owners[n]
                       IN  \/ owner = NoOwner /\ IsAsked(q, Uncertain(n, Lacking(task)))
                           \/ \E s \in active :
                                 /\ s.id = owner
                                 /\ IF task.humanOnly THEN s.kind = "person" /\ s.role = "approver"
                                    ELSE s.kind # "person" /\ task.tools \cap s.tools # {}
=============================================================================
