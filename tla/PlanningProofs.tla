--------------------------- MODULE PlanningProofs --------------------------
(***************************************************************************)
(* Proofs about the queue and the planning of runs that it carries, for    *)
(* any number of messages, workers, deaths, asks and plans at a time, any  *)
(* size of a batch and any library of workflows.                           *)
(*                                                                         *)
(* Planning drives the queue: whatever it does is a step of the queue, or  *)
(* puts a failure on the record of a worker, which the queue by itself     *)
(* does as the message fails and planning also when a plan that nobody     *)
(* awaits any more throws.  So the invariant of the queue is shown of such *)
(* steps first, and that of the runs on top of it.                         *)
(***************************************************************************)
EXTENDS Planning, TLAPS

RecordFailure ==
    /\ \E w : worker' = [worker EXCEPT ![w].failures = TRUE]
    /\ UNCHANGED <<messageVars, locked, ran, broke, crashes, overran>>

Driven == Next \/ RecordFailure

\* Whatever a worker does, with its drain begun.
Acts(w) == Drain(w) \/ Step(w)

(* The inductive invariant, in named parts.                                *)

\* The rows that are locked are those of the batches being claimed, so that two
\* open claims share none.
Claiming(w) == Now(w).pc = "claiming"

LocksAreOfBatches ==
    \A w \in Worker, m \in Message : locked[m] = w <=> Claiming(w) /\ m \in Now(w).batch

\* Only a message that is claimed is leased.
LeasedIsClaimed == \A m \in Message : leasedBy[m] # NoWorker => status[m] = "claimed"

\* What a claim selected it may still take: no lease was given or renewed since.
SelectedIsFree ==
    \A m \in Message :
        locked[m] # NoWorker =>
            status[m] = "ready" \/ (status[m] = "claimed" /\ lease[m] = "expired")

\* A message that a worker is about to settle as done was run with success, and one
\* that it is about to settle otherwise failed in a worker or after a failure of the
\* same process.
DoneWasRun ==
    /\ \A m \in Message : status[m] = "done" => m \in ran
    /\ \A w \in Worker : Now(w).pc = "done" => Now(w).message \in ran

QueueInv == TypeOK /\ LocksAreOfBatches /\ LeasedIsClaimed /\ SelectedIsFree /\ DoneWasRun

HasMessage(w) == Now(w).pc \in {"running", "done", "failed", "give_up", "back_off"}

\* What a worker holds it leased, and the lease runs, unless it has run out under a
\* worker before.
HoldersLease ==
    \A m \in Message \ overran, w \in Worker :
        Holds(w, m) => status[m] = "claimed" /\ lease[m] = "held" /\ leasedBy[m] = w

\* The message a worker is at is out of its batch.
TakenOut == \A w \in Worker : HasMessage(w) => Now(w).message \notin Now(w).batch

\* A claim costs an attempt that the settlement compares, or the death of the worker
\* that holds the message.
TriesAreCounted ==
    \A m \in Message \ overran :
        /\ tries[m] <= MaxTries[m] + crashes
        /\ status[m] \in {"unsent", "ready"} => tries[m] < MaxTries[m]
        /\ status[m] = "claimed" /\ (\A w \in Worker : ~Holds(w, m)) =>
               tries[m] < MaxTries[m] + crashes
        /\ \A w \in Worker :
               Now(w).pc = "back_off" /\ Now(w).message = m => tries[m] < MaxTries[m]

ClaimInv == QueueInv /\ HoldersLease /\ TakenOut /\ TriesAreCounted

-----------------------------------------------------------------------------
(* The invariant of the plans.                                             *)

PlanRecord ==
    [pc : {"none", "rows", "look", "copy", "sheet", "cells", "batch", "records",
           "returned", "threw"},
     by : Worker \cup {NoWorker}, awaited : BOOLEAN, next : Nat, sheet : Nat]

PlanningTypeOK ==
    /\ DOMAIN draft = Request /\ DOMAIN run = Request /\ DOMAIN press = Request
    /\ DOMAIN rows = Request /\ DOMAIN copied = Request
    /\ sheets \in [Request -> Seq(Nat)]
    /\ plan \in [Request -> [Slot -> PlanRecord]]

Sent(q) == status[q] # "unsent"

\* A run of the library pins a workflow of the library.
Pins(q) == DOMAIN run[q] = {"status", "workflow"} /\ run[q].workflow[1] \in DOMAIN Library

Composing(q) == draft[q].pc \in {"version", "workflow", "run"}

\* A message is sent when its draft is answered, and a draft that sends one has come
\* from the library.
DraftSends(q) ==
    /\ Composing(q) => "how" \in DOMAIN draft[q]
    /\ draft[q].pc \in {"version", "workflow"} => draft[q].how = "composed"
    /\ draft[q].pc = "run" /\ draft[q].how = "library" =>
           draft[q].workflow[1] \in DOMAIN Library
    /\ draft[q].pc = "send" => Pins(q)
    /\ Sent(q) => draft[q].pc = "answered" /\ Pins(q)
    /\ draft[q].pc \in {"none", "asked", "version", "workflow", "run", "send"} =>
           DOMAIN rows[q] = {} /\ DOMAIN copied[q] = {} /\ sheets[q] = <<>>

DraftsSend == \A q \in Request : DraftSends(q)

\* What a worker holds, and what was run, was sent.
HeldIsSent ==
    /\ \A w \in Worker : \A m \in Now(w).batch : status[m] # "unsent"
    /\ \A w \in Worker : HasMessage(w) => status[Now(w).message] # "unsent"
    /\ \A m \in ran : status[m] # "unsent"

UnderWay(q, i) == plan[q][i].pc # "none"

\* A plan under way is in the process of a worker, for a message that was sent; a
\* worker that runs the message of a run has a plan of it under way.
PlansAreOfWorkers ==
    /\ \A q \in Request, i \in Slot : UnderWay(q, i) => Sent(q) /\ plan[q][i].by \in Worker
    /\ \A q \in Request, i \in Slot : plan[q][i].awaited => UnderWay(q, i)
    /\ \A w \in Worker :
           Now(w).pc = "running" /\ Now(w).message \in Request =>
               \E i \in Slot : plan[Now(w).message][i].by = w /\ plan[Now(w).message][i].awaited

\* Where a plan that has inserted its rows may be, and where it has its sheet.
Past == {"look", "copy", "sheet", "cells", "returned"}
Filled == {"look", "copy", "returned"}

CopiedUpTo(q, n) == \A k \in 1 .. n : Pinned(q).invariants[k] \in DOMAIN copied[q]
AllCopied(q) == CopiedUpTo(q, Len(Pinned(q).invariants))

Copying(q, i) ==
    plan[q][i].pc = "copy" =>
        plan[q][i].next \in 1 .. Len(Pinned(q).invariants) /\ CopiedUpTo(q, plan[q][i].next - 1)

OneSheet(q) == Len(sheets[q]) = 1 /\ sheets[q][1] = Len(Pinned(q).rows)

\* A run that is a plan: one plan of it gets past its rows, and does the rest in order.
PlanRun(q) ==
    /\ \A i \in Slot : plan[q][i].pc \notin {"batch", "records"}
    /\ DOMAIN rows[q] # {} => /\ DOMAIN rows[q] = Keys(Pinned(q))
                              /\ Cardinality(Keys(Pinned(q))) = Len(Pinned(q).rows)
    /\ DOMAIN rows[q] = {} => DOMAIN copied[q] = {} /\ sheets[q] = <<>>
    /\ \A i, j \in Slot : plan[q][i].pc \in Past /\ plan[q][j].pc \in Past => i = j
    /\ \A i \in Slot :
           /\ plan[q][i].pc \in Past => DOMAIN rows[q] # {}
           /\ plan[q][i].pc = "look" => DOMAIN copied[q] = {}
           /\ Copying(q, i)
           /\ plan[q][i].pc \in {"sheet", "cells", "returned"} => AllCopied(q)
           /\ plan[q][i].pc \in {"look", "copy", "sheet"} => sheets[q] = <<>>
           /\ plan[q][i].pc = "cells" => Len(sheets[q]) = 1
           /\ plan[q][i].pc = "returned" => OneSheet(q)
    /\ q \in ran => Whole(q)

InSheet(q, i) ==
    /\ plan[q][i].pc = "records" =>
           plan[q][i].sheet \in DOMAIN sheets[q] /\ sheets[q][plan[q][i].sheet] < Entities
    /\ plan[q][i].pc \in Filled =>
           plan[q][i].sheet \in DOMAIN sheets[q] /\ sheets[q][plan[q][i].sheet] = Entities
    /\ plan[q][i].pc = "returned" => DOMAIN copied[q] # {} \/ Pinned(q).invariants = <<>>
    /\ plan[q][i].pc \notin {"rows", "sheet", "cells"}

\* A run that is a batch: each plan of it fills a sheet of its own, and the first to
\* find no invariants copies them, unless its process dies.
BatchRun(q) ==
    /\ \A i \in Slot : InSheet(q, i) /\ Copying(q, i)
    /\ \A i, j \in Slot :
           plan[q][i].pc = "records" /\ plan[q][j].pc \in Filled \cup {"records"}
               /\ plan[q][i].sheet = plan[q][j].sheet => i = j
    /\ crashes = 0 /\ DOMAIN copied[q] # {} =>
           AllCopied(q) \/ \E i \in Slot : plan[q][i].pc = "copy"
    /\ q \in ran =>
           /\ \E n \in DOMAIN sheets[q] : sheets[q][n] = Entities
           /\ DOMAIN copied[q] # {} \/ Pinned(q).invariants = <<>>

Built(q) == IF Pinned(q).shape = "batch" THEN BatchRun(q) ELSE PlanRun(q)

RunsAreBuilt == \A q \in Request : Sent(q) => Built(q)

PlanningInv ==
    QueueInv /\ PlanningTypeOK /\ DraftsSend /\ HeldIsSent /\ PlansAreOfWorkers /\ RunsAreBuilt

-----------------------------------------------------------------------------
(* Planning drives the queue.                                              *)

LEMMA ReturnKeepsQueue == ASSUME NEW q, NEW i, Return(q, i) PROVE UNCHANGED vars
  BY DEF Return

LEMMA ThrowRecords ==
    ASSUME NEW q, NEW i, Throw(q, i) PROVE UNCHANGED vars \/ RecordFailure
  <1>1. CASE plan[q][i].awaited
    BY <1>1 DEF Throw
  <1>2. CASE ~plan[q][i].awaited
    BY <1>2 DEF Throw, RecordFailure
  <1>3. QED BY <1>1, <1>2

LEMMA AfterInvariantsKeepsQueue ==
    ASSUME NEW q, NEW i, AfterInvariants(q, i) PROVE UNCHANGED vars
  BY ReturnKeepsQueue DEF AfterInvariants

LEMMA PlanStepsKeepQueue ==
    ASSUME NEW q, NEW i, PlanStep(q, i) PROVE UNCHANGED vars \/ RecordFailure
  <1>1. CASE InsertRows(q, i)
    BY <1>1, ThrowRecords DEF InsertRows
  <1>2. CASE LookForInvariants(q, i)
    BY <1>2, AfterInvariantsKeepsQueue DEF LookForInvariants
  <1>3. CASE CopyInvariant(q, i)
    BY <1>3, AfterInvariantsKeepsQueue DEF CopyInvariant
  <1>4. CASE MaterializeSheet(q, i)
    BY <1>4 DEF MaterializeSheet
  <1>5. CASE MaterializeRows(q, i)
    BY <1>5, ReturnKeepsQueue DEF MaterializeRows
  <1>6. CASE CreateBatchSheet(q, i)
    BY <1>6, ThrowRecords DEF CreateBatchSheet
  <1>7. CASE CreateRecord(q, i)
    BY <1>7 DEF CreateRecord
  <1>8. QED
    BY <1>1, <1>2, <1>3, <1>4, <1>5, <1>6, <1>7, PlanStep(q, i) DEF PlanStep

LEMMA DraftingKeepsQueue ==
    ASSUME NEW q \in Request, Drafting(q) PROVE UNCHANGED vars \/ Enqueue(q)
  <1>1. CASE Match(q)
    BY <1>1 DEF Match
  <1>2. CASE ComposeDraft(q)
    BY <1>2 DEF ComposeDraft
  <1>3. CASE NextVersion(q) \/ StoreWorkflow(q) \/ InsertRun(q)
    BY <1>3 DEF NextVersion, StoreWorkflow, InsertRun
  <1>4. CASE Send(q)
    BY <1>4 DEF Send
  <1>5. CASE InsertRow(q) \/ LinkRow(q)
    BY <1>5 DEF InsertRow, LinkRow
  <1>6. CASE DraftSheet(q) \/ DraftRecord(q)
    BY <1>6 DEF DraftSheet, DraftRecord
  <1>7. QED
    BY <1>1, <1>2, <1>3, <1>4, <1>5, <1>6 DEF Drafting

LEMMA WorkersKeepToQueue ==
    ASSUME NEW w, WorkerStep(w) \/ Drained(w) PROVE Acts(w)
  <1>1. CASE Carry(w)
    BY <1>1 DEF Carry, Acts, Step, Drain, NextBatch
  <1>2. CASE StartMessage(w)
    BY <1>2 DEF StartMessage, Acts, Step, Drain, NextBatch
  <1>3. CASE SucceedMessage(w) \/ FailMessage(w) \/ TimeOutMessage(w)
    BY <1>3 DEF SucceedMessage, FailMessage, TimeOutMessage, Acts, Step, Drain, NextBatch
  <1>4. CASE Drained(w)
    BY <1>4 DEF Drained, Acts
  <1>5. QED
    BY <1>1, <1>2, <1>3, <1>4 DEF WorkerStep

\* Every step of planning is a step of the queue, a failure recorded, or none of
\* its business.
LEMMA PlanningDrivesQueue ==
    ASSUME [NextPlanning]_allVars PROVE [Driven]_vars
  <1>1. CASE GoingOn
    <2>1. CASE \E w \in Worker : WorkerStep(w)
      BY <2>1, WorkersKeepToQueue DEF Driven, Next, Acts
    <2>2. CASE \E m \in Message : Passing(m)
      BY <2>2 DEF Passing, Driven, Next
    <2>3. CASE \E q \in Request, i \in Slot : PlanStep(q, i)
      BY <2>3, PlanStepsKeepQueue DEF Driven
    <2>4. QED BY <1>1, <2>1, <2>2, <2>3 DEF GoingOn
  <1>2. CASE \E w \in Worker : Drained(w) \/ CrashWorker(w)
    BY <1>2 DEF Drained, CrashWorker, Driven, Next
  <1>3. CASE \E q \in Request : Drafting(q)
    BY <1>3, DraftingKeepsQueue, PlanningAssumption DEF Driven, Next
  <1>4. CASE \E q \in Request : StartPress(q) \/ PressRow(q) \/ EndPress(q)
    BY <1>4 DEF StartPress, PressRow, EndPress
  <1>5. CASE \E v \in DOMAIN signals : RecordDraftEdit(v)
    BY <1>5 DEF RecordDraftEdit
  <1>6. CASE UNCHANGED allVars
    BY <1>6 DEF allVars
  <1>7. QED
    BY <1>1, <1>2, <1>3, <1>4, <1>5, <1>6 DEF NextPlanning

-----------------------------------------------------------------------------
(* Types.                                                                  *)

LEMMA DoingType ==
    ASSUME TypeOK, NEW w \in Worker
    PROVE  /\ Now(w) \in Doing
           /\ Now(w).batch \in SUBSET Message
           /\ worker[w].failures \in BOOLEAN
  BY DEF TypeOK, Now, Doing

LEMMA MessageType ==
    ASSUME TypeOK, NEW w \in Worker,
           Now(w).pc \in {"running", "done", "failed", "give_up", "back_off"}
    PROVE  /\ Now(w).message \in Message
           /\ Now(w) = [pc |-> Now(w).pc, batch |-> Now(w).batch, message |-> Now(w).message]
  BY DoingType DEF Doing

\* What a worker is left doing.
LEMMA BecomeType ==
    ASSUME TypeOK, NEW w \in Worker, NEW doing \in Doing, Become(w, doing)
    PROVE  /\ worker' \in [Worker -> [doing : Doing, failures : BOOLEAN]]
           /\ Now(w)' = doing
           /\ \A v \in Worker \ {w} : Now(v)' = Now(v)
  BY DEF TypeOK, Become, Now

LEMMA SettlingType ==
    ASSUME TypeOK, NEW w \in Worker, Now(w).pc = "running", NEW ok \in BOOLEAN
    PROVE  /\ Settling(w, ok) \in Doing
           /\ Settling(w, ok).pc = IF ok THEN "done" ELSE "failed"
           /\ Settling(w, ok).batch = Now(w).batch
           /\ Settling(w, ok).message = Now(w).message
  BY DoingType, MessageType DEF Settling, Doing

LEMMA FreshType ==
    /\ Polling \in Doing /\ Idle \in Doing
    /\ Fresh \in [doing : Doing, failures : BOOLEAN]
  BY DEF Polling, Idle, Fresh, Doing

-----------------------------------------------------------------------------
(* The steps keep the invariant.                                           *)

\* A step of a worker that claims nothing before or after it leaves the locks alone.
LEMMA OtherStepsKeepLocks ==
    ASSUME QueueInv, NEW w \in Worker, UNCHANGED locked,
           ~Claiming(w), ~Claiming(w)',
           \A v \in Worker \ {w} : Now(v)' = Now(v)
    PROVE  LocksAreOfBatches'
  BY DEF QueueInv, LocksAreOfBatches, Claiming

LEMMA SelectKeepsInv ==
    ASSUME QueueInv, NEW w \in Worker, Drain(w) \/ NextBatch(w) PROVE QueueInv'
  <1> DEFINE free == {m \in Message : Claimable(m) /\ locked[m] = NoWorker}
  <1>1. PICK batch \in SUBSET free :
            /\ locked' = [m \in Message |-> IF m \in batch THEN w ELSE locked[m]]
            /\ Become(w, [pc |-> "claiming", batch |-> batch])
    BY DEF Drain, NextBatch, Select
  <1>2. Now(w) \in {Idle, Polling} /\ UNCHANGED <<messageVars, ran, broke, crashes, overran>>
    BY DEF Drain, NextBatch, Select
  <1>3. [pc |-> "claiming", batch |-> batch] \in Doing
    BY DEF Doing
  <1>4. /\ worker' \in [Worker -> [doing : Doing, failures : BOOLEAN]]
        /\ Now(w)' = [pc |-> "claiming", batch |-> batch]
        /\ \A v \in Worker \ {w} : Now(v)' = Now(v)
    BY <1>1, <1>3, BecomeType DEF QueueInv
  <1>5. TypeOK'
    BY <1>1, <1>2, <1>4 DEF QueueInv, TypeOK, messageVars
  <1>6. LocksAreOfBatches'
    BY <1>1, <1>2, <1>4, QueueAssumption
    DEF QueueInv, TypeOK, LocksAreOfBatches, Claiming, Idle, Polling
  <1>7. LeasedIsClaimed'
    BY <1>2 DEF QueueInv, LeasedIsClaimed, messageVars
  <1>8. SelectedIsFree'
    BY <1>1, <1>2 DEF QueueInv, SelectedIsFree, Claimable, messageVars
  <1>9. DoneWasRun'
    BY <1>2, <1>4 DEF QueueInv, DoneWasRun, messageVars
  <1>10. QED BY <1>5, <1>6, <1>7, <1>8, <1>9 DEF QueueInv

LEMMA CommitClaimKeepsInv ==
    ASSUME QueueInv, NEW w \in Worker, CommitClaim(w) PROVE QueueInv'
  <1> DEFINE batch == Now(w).batch
  <1>1. /\ Claiming(w)
        /\ status' = [m \in Message |-> IF m \in batch THEN "claimed" ELSE status[m]]
        /\ lease' = [m \in Message |-> IF m \in batch THEN "held" ELSE lease[m]]
        /\ leasedBy' = [m \in Message |-> IF m \in batch THEN w ELSE leasedBy[m]]
        /\ tries' = [m \in Message |-> IF m \in batch /\ tries[m] < MostTries(m)
                                       THEN tries[m] + 1 ELSE tries[m]]
        /\ locked' = [m \in Message |-> IF locked[m] = w THEN NoWorker ELSE locked[m]]
        /\ Become(w, [pc |-> "working", batch |-> batch])
        /\ UNCHANGED <<due, ran, broke, crashes, overran>>
    BY DEF CommitClaim, Claiming, Unlock
  <1>2. [pc |-> "working", batch |-> batch] \in Doing
    BY DoingType DEF QueueInv, Doing
  <1>3. /\ worker' \in [Worker -> [doing : Doing, failures : BOOLEAN]]
        /\ Now(w)' = [pc |-> "working", batch |-> batch]
        /\ \A v \in Worker \ {w} : Now(v)' = Now(v)
    BY <1>1, <1>2, BecomeType DEF QueueInv
  <1>4. \A m \in Message : tries'[m] \in 0 .. MostTries(m)
    BY <1>1, QueueAssumption DEF QueueInv, TypeOK, MostTries
  <1>5. TypeOK'
    BY <1>1, <1>3, <1>4 DEF QueueInv, TypeOK
  <1>6. LocksAreOfBatches'
    BY <1>1, <1>3, QueueAssumption DEF QueueInv, LocksAreOfBatches, Claiming
  <1>7. LeasedIsClaimed'
    BY <1>1, DoingType DEF QueueInv, LeasedIsClaimed
  <1>8. SelectedIsFree'
    BY <1>1, QueueAssumption DEF QueueInv, SelectedIsFree, LocksAreOfBatches
  <1>9. DoneWasRun'
    BY <1>1, <1>3 DEF QueueInv, DoneWasRun
  <1>10. QED BY <1>5, <1>6, <1>7, <1>8, <1>9 DEF QueueInv

\* The steps of a worker on its batch that leave the messages as they are: it goes
\* on, succeeds, fails, or reads how often a message was tried.
LEMMA WorkingKeepsInv ==
    ASSUME QueueInv, NEW w \in Worker, NEW doing \in Doing,
           ~Claiming(w), doing.pc # "claiming",
           worker' \in [Worker -> [doing : Doing, failures : BOOLEAN]],
           Now(w)' = doing, \A v \in Worker \ {w} : Now(v)' = Now(v),
           UNCHANGED <<messageVars, locked, crashes, overran>>,
           ran \subseteq ran', ran' \subseteq Message, broke' \subseteq Message,
           doing.pc = "done" => doing.message \in ran'
    PROVE  QueueInv'
  <1>1. TypeOK'
    BY DEF QueueInv, TypeOK, messageVars
  <1>2. LocksAreOfBatches'
    BY OtherStepsKeepLocks DEF Claiming
  <1>3. LeasedIsClaimed' /\ SelectedIsFree'
    BY DEF QueueInv, LeasedIsClaimed, SelectedIsFree, messageVars
  <1>4. DoneWasRun'
    BY DEF QueueInv, DoneWasRun, messageVars
  <1>5. QED BY <1>1, <1>2, <1>3, <1>4 DEF QueueInv

LEMMA StartRunKeepsInv == ASSUME QueueInv, NEW w \in Worker, StartRun(w) PROVE QueueInv'
  <1>1. PICK m \in Now(w).batch :
            Become(w, [pc |-> "running", batch |-> Now(w).batch \ {m}, message |-> m])
    BY DEF StartRun
  <1> DEFINE doing == [pc |-> "running", batch |-> Now(w).batch \ {m}, message |-> m]
  <1>2. doing \in Doing
    BY <1>1, DoingType DEF QueueInv, Doing
  <1>3. /\ worker' \in [Worker -> [doing : Doing, failures : BOOLEAN]]
        /\ Now(w)' = doing
        /\ \A v \in Worker \ {w} : Now(v)' = Now(v)
    BY <1>1, <1>2, BecomeType DEF QueueInv
  <1>4. ~Claiming(w) /\ doing.pc = "running"
    BY DEF StartRun, Claiming
  <1> HIDE DEF doing
  <1>5. QED
    BY <1>2, <1>3, <1>4, WorkingKeepsInv DEF StartRun, QueueInv, TypeOK

LEMMA EndKeepsInv ==
    ASSUME QueueInv, NEW w \in Worker, EndBatch(w) \/ EndDrain(w) PROVE QueueInv'
  <1>1. PICK doing \in {Polling, Idle} : Become(w, doing)
    BY DEF EndBatch, EndDrain
  <1>2. doing \in Doing /\ doing.pc \in {"polling", "idle"}
    BY FreshType DEF Polling, Idle
  <1>3. /\ worker' \in [Worker -> [doing : Doing, failures : BOOLEAN]]
        /\ Now(w)' = doing
        /\ \A v \in Worker \ {w} : Now(v)' = Now(v)
    BY <1>1, <1>2, BecomeType DEF QueueInv
  <1>4. /\ ~Claiming(w)
        /\ UNCHANGED <<messageVars, locked, ran, broke, crashes, overran>>
    BY DEF EndBatch, EndDrain, Claiming, Polling
  <1>5. QED
    BY <1>2, <1>3, <1>4, WorkingKeepsInv DEF QueueInv, TypeOK

LEMMA SucceedKeepsInv == ASSUME QueueInv, NEW w \in Worker, Succeed(w) PROVE QueueInv'
  <1> DEFINE ok == ~worker[w].failures
             doing == Settling(w, ok)
  <1>1. /\ doing \in Doing
        /\ doing.pc \in {"done", "failed"}
        /\ doing.message = Now(w).message
    BY SettlingType, DoingType DEF QueueInv, Succeed
  <1>2. /\ worker' \in [Worker -> [doing : Doing, failures : BOOLEAN]]
        /\ Now(w)' = doing
        /\ \A v \in Worker \ {w} : Now(v)' = Now(v)
    BY <1>1, BecomeType DEF QueueInv, Succeed
  <1>3. Now(w).message \in Message
    BY MessageType DEF QueueInv, Succeed
  <1> HIDE DEF doing
  <1>4. QED
    BY <1>1, <1>2, <1>3, WorkingKeepsInv DEF Succeed, Claiming, QueueInv, TypeOK

LEMMA FailKeepsInv == ASSUME QueueInv, NEW w \in Worker, Fail(w) PROVE QueueInv'
  <1> DEFINE doing == Settling(w, FALSE)
  <1>1. doing \in Doing /\ doing.pc = "failed"
    BY SettlingType DEF QueueInv, Fail
  <1>2. worker' = [worker EXCEPT ![w] = [doing |-> doing, failures |-> TRUE]]
    BY DEF Fail
  <1> HIDE DEF doing
  <1>3. /\ worker' \in [Worker -> [doing : Doing, failures : BOOLEAN]]
        /\ Now(w)' = doing
        /\ \A v \in Worker \ {w} : Now(v)' = Now(v)
    BY <1>1, <1>2 DEF QueueInv, TypeOK, Now
  <1>4. Now(w).message \in Message
    BY MessageType DEF QueueInv, Fail
  <1>5. QED
    BY <1>1, <1>3, <1>4, WorkingKeepsInv DEF Fail, Claiming, QueueInv, TypeOK

LEMMA TimeOutKeepsInv == ASSUME QueueInv, NEW w \in Worker, TimeOut(w) PROVE QueueInv'
  <1> DEFINE doing == Settling(w, FALSE)
  <1>1. doing \in Doing /\ doing.pc = "failed"
    BY SettlingType DEF QueueInv, TimeOut
  <1>2. /\ worker' \in [Worker -> [doing : Doing, failures : BOOLEAN]]
        /\ Now(w)' = doing
        /\ \A v \in Worker \ {w} : Now(v)' = Now(v)
    BY <1>1, BecomeType DEF QueueInv, TimeOut
  <1>3. Now(w).message \in Message
    BY MessageType DEF QueueInv, TimeOut
  <1> HIDE DEF doing
  <1>4. QED
    BY <1>1, <1>2, <1>3, WorkingKeepsInv DEF TimeOut, Claiming, QueueInv, TypeOK

LEMMA ReadTriesKeepsInv == ASSUME QueueInv, NEW w \in Worker, ReadTries(w) PROVE QueueInv'
  <1> DEFINE out == tries[Now(w).message] >= MaxTries[Now(w).message]
             doing == [Now(w) EXCEPT !.pc = IF out THEN "give_up" ELSE "back_off"]
  <1>1. doing \in Doing /\ doing.pc \in {"give_up", "back_off"}
    BY MessageType, DoingType DEF QueueInv, ReadTries, Doing
  <1>2. Become(w, doing)
    BY DEF ReadTries
  <1>3. /\ worker' \in [Worker -> [doing : Doing, failures : BOOLEAN]]
        /\ Now(w)' = doing
        /\ \A v \in Worker \ {w} : Now(v)' = Now(v)
    BY <1>1, <1>2, BecomeType DEF QueueInv
  <1> HIDE DEF doing
  <1>4. QED
    BY <1>1, <1>3, WorkingKeepsInv DEF ReadTries, Claiming, QueueInv, TypeOK

\* A message is settled only while no claim has its row locked.
LEMMA WriteKeepsInv ==
    ASSUME QueueInv, NEW w \in Worker, NEW as \in {"done", "failed", "ready"},
           NEW available \in BOOLEAN,
           Now(w).pc \in {"done", "give_up", "back_off"},
           as = "done" => Now(w).pc = "done",
           Write(w, Now(w).message, as, available)
    PROVE  QueueInv'
  <1> DEFINE m == Now(w).message
             doing == [pc |-> "working", batch |-> Now(w).batch]
  <1>1. m \in Message /\ doing \in Doing
    BY MessageType, DoingType DEF QueueInv, Doing
  <1>2. /\ locked[m] = NoWorker
        /\ status' = [status EXCEPT ![m] = as]
        /\ lease' = [lease EXCEPT ![m] = "none"]
        /\ leasedBy' = [leasedBy EXCEPT ![m] = NoWorker]
        /\ due' = IF available THEN due ELSE due \ {m}
        /\ Become(w, doing)
        /\ UNCHANGED <<tries, locked, ran, broke, crashes, overran>>
    BY DEF Write
  <1>3. /\ worker' \in [Worker -> [doing : Doing, failures : BOOLEAN]]
        /\ Now(w)' = doing
        /\ \A v \in Worker \ {w} : Now(v)' = Now(v)
    BY <1>1, <1>2, BecomeType DEF QueueInv
  <1>4. as = "done" => m \in ran
    BY DEF QueueInv, DoneWasRun
  <1>5. doing.pc = "working"
    OBVIOUS
  <1> HIDE DEF m, doing
  <1>6. TypeOK'
    BY <1>1, <1>2, <1>3 DEF QueueInv, TypeOK
  <1>7. LocksAreOfBatches'
    BY <1>2, <1>3, <1>5, OtherStepsKeepLocks DEF Claiming
  <1>8. LeasedIsClaimed'
    BY <1>1, <1>2 DEF QueueInv, TypeOK, LeasedIsClaimed
  <1>9. SelectedIsFree'
    BY <1>1, <1>2 DEF QueueInv, TypeOK, SelectedIsFree
  <1>10. DoneWasRun'
    BY <1>1, <1>2, <1>3, <1>4, <1>5 DEF QueueInv, TypeOK, DoneWasRun
  <1>11. QED BY <1>6, <1>7, <1>8, <1>9, <1>10 DEF QueueInv

LEMMA StepKeepsInv == ASSUME QueueInv, NEW w \in Worker, Acts(w) PROVE QueueInv'
  <1>1. CASE SettleDone(w)
    BY <1>1, WriteKeepsInv DEF SettleDone
  <1>2. CASE GiveUp(w)
    BY <1>2, WriteKeepsInv DEF GiveUp
  <1>3. CASE BackOff(w)
    BY <1>3, WriteKeepsInv DEF BackOff
  <1>4. QED
    BY <1>1, <1>2, <1>3, SelectKeepsInv, CommitClaimKeepsInv, StartRunKeepsInv,
       EndKeepsInv, SucceedKeepsInv, FailKeepsInv, TimeOutKeepsInv, ReadTriesKeepsInv
    DEF Acts, Step

LEMMA CrashKeepsInv == ASSUME QueueInv, NEW w \in Worker, Crash(w) PROVE QueueInv'
  <1>1. /\ crashes' = crashes + 1
        /\ worker' = [worker EXCEPT ![w] = Fresh]
        /\ locked' = [m \in Message |-> IF locked[m] = w THEN NoWorker ELSE locked[m]]
        /\ UNCHANGED <<messageVars, ran, broke, overran>>
    BY DEF Crash, Unlock
  <1>2. /\ worker' \in [Worker -> [doing : Doing, failures : BOOLEAN]]
        /\ Now(w)'.pc = "idle"
        /\ \A v \in Worker \ {w} : Now(v)' = Now(v)
    BY <1>1, FreshType DEF QueueInv, TypeOK, Now, Fresh, Idle
  <1>3. TypeOK'
    BY <1>1, <1>2 DEF QueueInv, TypeOK, messageVars
  <1>4. LocksAreOfBatches'
    BY <1>1, <1>2, QueueAssumption DEF QueueInv, LocksAreOfBatches, Claiming
  <1>5. LeasedIsClaimed' /\ SelectedIsFree'
    BY <1>1 DEF QueueInv, LeasedIsClaimed, SelectedIsFree, messageVars
  <1>6. DoneWasRun'
    BY <1>1, <1>2 DEF QueueInv, DoneWasRun, messageVars
  <1>7. QED BY <1>3, <1>4, <1>5, <1>6 DEF QueueInv

LEMMA MessagesKeepInv ==
    ASSUME QueueInv, NEW m \in Message, Enqueue(m) \/ Expire(m) \/ ComeDue(m)
    PROVE  QueueInv'
  <1>1. \A w \in Worker : Now(w)' = Now(w)
    BY DEF Enqueue, Expire, ComeDue, Now
  <1>2. LocksAreOfBatches'
    BY <1>1 DEF Enqueue, Expire, ComeDue, QueueInv, LocksAreOfBatches, Claiming
  <1>3. CASE Enqueue(m)
    BY <1>1, <1>2, <1>3
    DEF Enqueue, QueueInv, TypeOK, LeasedIsClaimed, SelectedIsFree, DoneWasRun
  <1>4. CASE Expire(m)
    BY <1>1, <1>2, <1>4
    DEF Expire, QueueInv, TypeOK, LeasedIsClaimed, SelectedIsFree, DoneWasRun
  <1>5. CASE ComeDue(m)
    BY <1>1, <1>2, <1>5
    DEF ComeDue, QueueInv, TypeOK, LeasedIsClaimed, SelectedIsFree, DoneWasRun
  <1>6. QED BY <1>3, <1>4, <1>5

LEMMA RecordFailureKeepsInv == ASSUME QueueInv, RecordFailure PROVE QueueInv'
  <1>1. PICK w : worker' = [worker EXCEPT ![w].failures = TRUE]
    BY DEF RecordFailure
  <1>2. UNCHANGED <<messageVars, locked, ran, broke, crashes, overran>>
    BY DEF RecordFailure
  <1>3. /\ worker' \in [Worker -> [doing : Doing, failures : BOOLEAN]]
        /\ \A v \in Worker : Now(v)' = Now(v)
    BY <1>1 DEF QueueInv, TypeOK, Now
  <1>4. TypeOK'
    BY <1>2, <1>3 DEF QueueInv, TypeOK, messageVars
  <1>5. LocksAreOfBatches'
    BY <1>2, <1>3 DEF QueueInv, LocksAreOfBatches, Claiming
  <1>6. LeasedIsClaimed' /\ SelectedIsFree' /\ DoneWasRun'
    BY <1>2, <1>3 DEF QueueInv, LeasedIsClaimed, SelectedIsFree, DoneWasRun, messageVars
  <1>7. QED BY <1>4, <1>5, <1>6 DEF QueueInv

LEMMA DrivenKeepsInv == ASSUME QueueInv, [Driven]_vars PROVE QueueInv'
  <1>1. CASE UNCHANGED vars
    BY <1>1
    DEF vars, messageVars, QueueInv, TypeOK, LocksAreOfBatches, Claiming, Now,
        LeasedIsClaimed, SelectedIsFree, DoneWasRun
  <1>2. CASE Next
    BY <1>2, StepKeepsInv, CrashKeepsInv, MessagesKeepInv DEF Next, Acts
  <1>3. QED
    BY <1>1, <1>2, RecordFailureKeepsInv DEF Driven

LEMMA InitQueueInv ==
    ASSUME NEW unsent, NEW deaths \in Nat, InitQueue(unsent, deaths) PROVE QueueInv
  <1>1. \A w \in Worker : Now(w) = Idle
    BY DEF InitQueue, Now, Fresh
  <1>2. TypeOK
    BY FreshType, QueueAssumption DEF InitQueue, TypeOK, MostTries
  <1>3. QED
    BY <1>1, <1>2, QueueAssumption
    DEF InitQueue, QueueInv, LocksAreOfBatches, Claiming, LeasedIsClaimed, SelectedIsFree,
        DoneWasRun, Idle

-----------------------------------------------------------------------------
(* Claims.                                                                 *)

\* Holds(w, m) of what w is doing.
InHand(doing, m) ==
    /\ doing.pc # "claiming"
    /\ m \in doing.batch \/ ("message" \in DOMAIN doing /\ doing.message = m)

LEMMA HoldsIs ==
    ASSUME QueueInv, NEW w \in Worker, NEW m
    PROVE  /\ Holds(w, m) <=> InHand(Now(w), m)
           /\ Holds(w, m) <=> /\ ~Claiming(w)
                              /\ m \in Now(w).batch \/ (HasMessage(w) /\ Now(w).message = m)
  <1>1. Holds(w, m) <=> InHand(Now(w), m)
    BY DEF Holds, InHand
  <1>2. "message" \in DOMAIN Now(w) <=> HasMessage(w)
    BY DoingType DEF QueueInv, Doing, HasMessage
  <1>3. QED BY <1>1, <1>2 DEF Holds, Claiming

\* Whatever leaves the leases, and the messages in the hands they are in.
LEMMA SameHandsKeepClaims ==
    ASSUME ClaimInv, QueueInv', UNCHANGED <<lease, leasedBy, tries, crashes, overran>>,
           \A m \in Message : \/ status'[m] = status[m]
                              \/ status[m] = "unsent" /\ status'[m] = "ready",
           \A w \in Worker, m \in Message : Holds(w, m)' <=> Holds(w, m),
           TakenOut',
           \A w \in Worker, m \in Message \ overran :
               Now(w)'.pc = "back_off" /\ Now(w)'.message = m => tries[m] < MaxTries[m]
    PROVE  ClaimInv'
  <1>1. HoldersLease'
    BY DEF ClaimInv, HoldersLease
  <1>2. TriesAreCounted'
    BY DEF ClaimInv, TriesAreCounted
  <1>3. QED BY <1>1, <1>2 DEF ClaimInv

\* A step of a worker on what it holds, that settles nothing.
LEMMA MoveKeepsClaims ==
    ASSUME ClaimInv, QueueInv', UNCHANGED <<messageVars, crashes, overran>>,
           NEW w \in Worker, NEW doing, Now(w)' = doing,
           \A v \in Worker \ {w} : Now(v)' = Now(v),
           \A m \in Message : InHand(doing, m) <=> Holds(w, m),
           doing.pc \in {"running", "done", "failed", "give_up", "back_off"} =>
               doing.message \notin doing.batch,
           \A m \in Message \ overran :
               doing.pc = "back_off" /\ doing.message = m => tries[m] < MaxTries[m]
    PROVE  ClaimInv'
  <1>1. \A v \in Worker, m \in Message : Holds(v, m)' <=> Holds(v, m)
    BY DEF Holds, InHand
  <1>2. TakenOut'
    BY DEF ClaimInv, TakenOut, HasMessage
  <1>3. \A v \in Worker, m \in Message \ overran :
            Now(v)'.pc = "back_off" /\ Now(v)'.message = m => tries[m] < MaxTries[m]
    BY DEF ClaimInv, TriesAreCounted
  <1>4. QED
    BY <1>1, <1>2, <1>3, SameHandsKeepClaims DEF messageVars

LEMMA SelectKeepsClaims ==
    ASSUME ClaimInv, QueueInv', NEW w \in Worker, Drain(w) \/ NextBatch(w) PROVE ClaimInv'
  <1>1. PICK batch : Become(w, [pc |-> "claiming", batch |-> batch])
    BY DEF Drain, NextBatch, Select
  <1> DEFINE doing == [pc |-> "claiming", batch |-> batch]
  <1>2. Now(w)' = doing /\ \A v \in Worker \ {w} : Now(v)' = Now(v)
    BY <1>1 DEF Become, Now, ClaimInv, QueueInv, TypeOK
  <1>3. \A m : ~Holds(w, m) /\ ~InHand(doing, m)
    BY DEF Drain, NextBatch, Idle, Polling, Holds, InHand
  <1>4. doing.pc = "claiming"
    OBVIOUS
  <1> HIDE DEF doing
  <1>5. QED
    BY <1>2, <1>3, <1>4, MoveKeepsClaims DEF Drain, NextBatch, Select

LEMMA EndKeepsClaims ==
    ASSUME ClaimInv, QueueInv', NEW w \in Worker, EndBatch(w) \/ EndDrain(w) PROVE ClaimInv'
  <1>1. PICK doing \in {Polling, Idle} : Become(w, doing)
    BY DEF EndBatch, EndDrain
  <1>2. Now(w)' = doing /\ \A v \in Worker \ {w} : Now(v)' = Now(v)
    BY <1>1 DEF Become, Now, ClaimInv, QueueInv, TypeOK
  <1>3. doing.pc \in {"polling", "idle"} /\ \A m : ~InHand(doing, m)
    BY DEF Polling, Idle, InHand
  <1>4. \A m : ~Holds(w, m)
    BY HoldsIs DEF EndBatch, EndDrain, Polling, HasMessage, ClaimInv
  <1>5. QED
    BY <1>2, <1>3, <1>4, MoveKeepsClaims DEF EndBatch, EndDrain

LEMMA StartRunKeepsClaims ==
    ASSUME ClaimInv, QueueInv', NEW w \in Worker, StartRun(w) PROVE ClaimInv'
  <1>1. PICK m \in Now(w).batch :
            Become(w, [pc |-> "running", batch |-> Now(w).batch \ {m}, message |-> m])
    BY DEF StartRun
  <1> DEFINE doing == [pc |-> "running", batch |-> Now(w).batch \ {m}, message |-> m]
  <1>2. Now(w)' = doing /\ \A v \in Worker \ {w} : Now(v)' = Now(v)
    BY <1>1 DEF Become, Now, ClaimInv, QueueInv, TypeOK
  <1>3. \A n : InHand(doing, n) <=> n \in Now(w).batch
    BY <1>1 DEF InHand
  <1>4. \A n : Holds(w, n) <=> n \in Now(w).batch
    BY HoldsIs DEF StartRun, Claiming, HasMessage, ClaimInv
  <1>5. doing.pc = "running" /\ doing.message \notin doing.batch
    OBVIOUS
  <1> HIDE DEF doing
  <1>6. QED
    BY <1>2, <1>3, <1>4, <1>5, MoveKeepsClaims DEF StartRun

\* What a worker does with the message it is at, short of settling it.
LEMMA HandlingKeepsClaims ==
    ASSUME ClaimInv, QueueInv', NEW w \in Worker,
           Succeed(w) \/ Fail(w) \/ TimeOut(w) \/ ReadTries(w)
    PROVE  ClaimInv'
  <1> DEFINE pc == Now(w)'.pc
  <1>1. HasMessage(w) /\ ~Claiming(w)
    BY DEF Succeed, Fail, TimeOut, ReadTries, HasMessage, Claiming
  <1>2. Now(w) = [pc |-> Now(w).pc, batch |-> Now(w).batch, message |-> Now(w).message]
    BY <1>1, MessageType DEF ClaimInv, QueueInv, HasMessage
  <1>3. /\ Now(w)' = [pc |-> pc, batch |-> Now(w).batch, message |-> Now(w).message]
        /\ pc \in {"done", "failed", "give_up", "back_off"}
        /\ pc = "back_off" => tries[Now(w).message] < MaxTries[Now(w).message]
    <2>1. CASE Succeed(w) \/ TimeOut(w)
      <3>1. PICK ok \in BOOLEAN : Become(w, Settling(w, ok))
        BY <2>1, DoingType DEF Succeed, TimeOut, ClaimInv, QueueInv
      <3>2. Now(w)' = [Now(w) EXCEPT !.pc = IF ok THEN "done" ELSE "failed"]
        BY <3>1 DEF Become, Settling, Now, ClaimInv, QueueInv, TypeOK
      <3>3. QED BY <1>2, <3>2
    <2>2. CASE Fail(w)
      <3>1. Now(w)' = Settling(w, FALSE)
        BY <2>2 DEF Fail, Now, ClaimInv, QueueInv, TypeOK
      <3>2. Now(w)' = [Now(w) EXCEPT !.pc = "failed"]
        BY <3>1 DEF Settling
      <3>3. QED BY <1>2, <3>2
    <2>3. CASE ReadTries(w)
      <3> DEFINE out == tries[Now(w).message] >= MaxTries[Now(w).message]
      <3>1. Now(w)' = [Now(w) EXCEPT !.pc = IF out THEN "give_up" ELSE "back_off"]
        BY <2>3 DEF ReadTries, Become, Now, ClaimInv, QueueInv, TypeOK
      <3>2. Now(w).message \in Message
        BY <1>1, MessageType DEF ClaimInv, QueueInv, HasMessage
      <3>3. ~out => tries[Now(w).message] < MaxTries[Now(w).message]
        BY <3>2, QueueAssumption DEF ClaimInv, QueueInv, TypeOK
      <3> HIDE DEF out
      <3>4. QED BY <1>2, <3>1, <3>3
    <2>4. QED BY <2>1, <2>2, <2>3
  <1> HIDE DEF pc
  <1>4. \A m : InHand(Now(w)', m) <=> Holds(w, m)
    <2>1. \A m : InHand(Now(w)', m) <=> m \in Now(w).batch \/ m = Now(w).message
      BY <1>3 DEF InHand
    <2>2. \A m : Holds(w, m) <=> m \in Now(w).batch \/ m = Now(w).message
      BY <1>1, HoldsIs DEF ClaimInv
    <2>3. QED BY <2>1, <2>2
  <1>5. Now(w)'.message \notin Now(w)'.batch
    BY <1>1, <1>3 DEF ClaimInv, TakenOut
  <1>6. \A v \in Worker \ {w} : Now(v)' = Now(v)
    BY DEF Succeed, Fail, TimeOut, ReadTries, Become, Now, ClaimInv, QueueInv, TypeOK
  <1>7. UNCHANGED <<messageVars, crashes, overran>>
    BY DEF Succeed, Fail, TimeOut, ReadTries
  <1>8. QED
    BY <1>3, <1>4, <1>5, <1>6, <1>7, MoveKeepsClaims

\* A claim takes what is in nobody's hands, and counts an attempt.
LEMMA CommitClaimKeepsClaims ==
    ASSUME ClaimInv, QueueInv', NEW w \in Worker, CommitClaim(w) PROVE ClaimInv'
  <1> DEFINE batch == Now(w).batch
  <1>1. /\ Claiming(w)
        /\ status' = [m \in Message |-> IF m \in batch THEN "claimed" ELSE status[m]]
        /\ lease' = [m \in Message |-> IF m \in batch THEN "held" ELSE lease[m]]
        /\ leasedBy' = [m \in Message |-> IF m \in batch THEN w ELSE leasedBy[m]]
        /\ tries' = [m \in Message |-> IF m \in batch /\ tries[m] < MostTries(m)
                                       THEN tries[m] + 1 ELSE tries[m]]
        /\ Become(w, [pc |-> "working", batch |-> batch])
        /\ UNCHANGED <<crashes, overran>>
    BY DEF CommitClaim, Claiming
  <1>2. /\ Now(w)' = [pc |-> "working", batch |-> batch]
        /\ \A v \in Worker \ {w} : Now(v)' = Now(v)
    BY <1>1 DEF Become, Now, ClaimInv, QueueInv, TypeOK
  <1>3. /\ \A m : Holds(w, m)' <=> m \in batch
        /\ \A v \in Worker \ {w} : \A m : Holds(v, m)' <=> Holds(v, m)
        /\ \A m : ~Holds(w, m)
    BY <1>1, <1>2 DEF Holds, Claiming
  <1>4. \A m \in Message : m \in batch =>
            status[m] = "ready" \/ (status[m] = "claimed" /\ lease[m] = "expired")
    BY <1>1, QueueAssumption DEF ClaimInv, QueueInv, LocksAreOfBatches, SelectedIsFree
  <1>5. \A m \in Message \ overran, v \in Worker : m \in batch => ~Holds(v, m)
    BY <1>4 DEF ClaimInv, HoldersLease
  <1>6. HoldersLease'
    BY <1>1, <1>3, <1>5 DEF ClaimInv, HoldersLease
  <1>7. TakenOut'
    BY <1>2 DEF ClaimInv, TakenOut, HasMessage
  <1>8. TriesAreCounted'
    <2>1. SUFFICES ASSUME NEW m \in Message \ overran
                   PROVE  /\ tries'[m] <= MaxTries[m] + crashes
                          /\ status'[m] \in {"unsent", "ready"} => tries'[m] < MaxTries[m]
                          /\ status'[m] = "claimed" /\ (\A v \in Worker : ~Holds(v, m)') =>
                                 tries'[m] < MaxTries[m] + crashes
                          /\ \A v \in Worker :
                                 Now(v)'.pc = "back_off" /\ Now(v)'.message = m =>
                                     tries'[m] < MaxTries[m]
      BY <1>1 DEF TriesAreCounted
    <2>2. /\ tries[m] \in Nat /\ MaxTries[m] \in Nat /\ crashes \in Nat
          /\ tries[m] < MaxTries[m] => tries[m] + 1 <= MaxTries[m] + crashes
          /\ tries[m] < MaxTries[m] + crashes => tries[m] + 1 <= MaxTries[m] + crashes
      BY QueueAssumption DEF ClaimInv, QueueInv, TypeOK
    <2>3. CASE m \in batch
      <3>1. tries[m] + 1 <= MaxTries[m] + crashes
        BY <1>4, <1>5, <2>2, <2>3 DEF ClaimInv, TriesAreCounted
      <3>2. tries'[m] <= MaxTries[m] + crashes
        BY <1>1, <2>2, <3>1
      <3>3. \A v \in Worker : ~(Now(v)'.pc = "back_off" /\ Now(v)'.message = m)
        <4>1. \A v \in Worker \ {w} : Now(v).pc = "back_off" => Holds(v, Now(v).message)
          BY HoldsIs DEF ClaimInv, HasMessage, Claiming
        <4>2. QED BY <1>2, <1>5, <2>3, <4>1
      <3>4. QED BY <1>1, <1>3, <2>3, <3>2, <3>3
    <2>4. CASE m \notin batch
      BY <1>1, <1>2, <1>3, <2>4 DEF ClaimInv, TriesAreCounted
    <2>5. QED BY <2>3, <2>4
  <1>9. QED BY <1>6, <1>7, <1>8 DEF ClaimInv

\* A message that is settled is in nobody's hands any more.
LEMMA WriteKeepsClaims ==
    ASSUME ClaimInv, QueueInv', NEW w \in Worker, NEW as \in {"done", "failed", "ready"},
           NEW available \in BOOLEAN, Now(w).pc \in {"done", "give_up", "back_off"},
           as = "ready" => Now(w).pc = "back_off",
           Write(w, Now(w).message, as, available)
    PROVE  ClaimInv'
  <1> DEFINE m == Now(w).message
             batch == Now(w).batch
  <1>1. m \in Message /\ HasMessage(w) /\ ~Claiming(w) /\ m \notin batch
    BY MessageType DEF ClaimInv, QueueInv, HasMessage, Claiming, TakenOut
  <1>2. /\ status' = [status EXCEPT ![m] = as]
        /\ lease' = [lease EXCEPT ![m] = "none"]
        /\ leasedBy' = [leasedBy EXCEPT ![m] = NoWorker]
        /\ Become(w, [pc |-> "working", batch |-> batch])
        /\ UNCHANGED <<tries, crashes, overran>>
    BY DEF Write
  <1>3. /\ Now(w)' = [pc |-> "working", batch |-> batch]
        /\ \A v \in Worker \ {w} : Now(v)' = Now(v)
    BY <1>2 DEF Become, Now, ClaimInv, QueueInv, TypeOK
  <1>4. /\ \A n : Holds(w, n)' <=> n \in batch
        /\ \A v \in Worker \ {w} : \A n : Holds(v, n)' <=> Holds(v, n)
    BY <1>3 DEF Holds
  <1>5. /\ \A n : Holds(w, n) <=> n \in batch \/ n = m
        /\ Holds(w, m)
    BY <1>1, HoldsIs DEF ClaimInv
  <1>6. m \notin overran => \A v \in Worker \ {w} : ~Holds(v, m)
    BY <1>1, <1>5 DEF ClaimInv, HoldersLease
  <1> HIDE DEF m, batch
  <1>7. /\ \A n \in Message \ {m} : /\ status'[n] = status[n] /\ lease'[n] = lease[n]
                                    /\ leasedBy'[n] = leasedBy[n]
        /\ status'[m] = as
    BY <1>1, <1>2 DEF ClaimInv, QueueInv, TypeOK
  <1>8. HoldersLease'
    <2>1. SUFFICES ASSUME NEW n \in Message \ overran, NEW v \in Worker, Holds(v, n)'
                   PROVE  status'[n] = "claimed" /\ lease'[n] = "held" /\ leasedBy'[n] = v
      BY <1>2 DEF HoldersLease
    <2>2. Holds(v, n) /\ n # m
      BY <1>1, <1>4, <1>5, <1>6, <2>1 DEF m, batch
    <2>3. QED
      BY <1>7, <2>2 DEF ClaimInv, HoldersLease
  <1>9. TakenOut'
    BY <1>3 DEF ClaimInv, TakenOut, HasMessage
  <1>10. TriesAreCounted'
    <2>1. as = "ready" /\ m \notin overran => tries[m] < MaxTries[m]
      BY <1>1 DEF ClaimInv, TriesAreCounted, m
    <2>2. \A v \in Worker : Now(v)'.pc = "back_off" =>
              Now(v).pc = "back_off" /\ Now(v)'.message = Now(v).message
      BY <1>3
    <2>3. \A n \in Message \ {m} :
              (\A v \in Worker : ~Holds(v, n)') => (\A v \in Worker : ~Holds(v, n))
      BY <1>4, <1>5
    <2>4. QED
      BY <1>2, <1>7, <2>1, <2>2, <2>3 DEF ClaimInv, TriesAreCounted
  <1>11. QED BY <1>8, <1>9, <1>10 DEF ClaimInv

LEMMA ActsKeepsClaims ==
    ASSUME ClaimInv, QueueInv', NEW w \in Worker, Acts(w) PROVE ClaimInv'
  <1>1. CASE SettleDone(w)
    BY <1>1, WriteKeepsClaims DEF SettleDone
  <1>2. CASE GiveUp(w)
    BY <1>2, WriteKeepsClaims DEF GiveUp
  <1>3. CASE BackOff(w)
    BY <1>3, WriteKeepsClaims DEF BackOff
  <1>4. QED
    BY <1>1, <1>2, <1>3, SelectKeepsClaims, EndKeepsClaims, CommitClaimKeepsClaims,
       StartRunKeepsClaims, HandlingKeepsClaims DEF Acts, Step

\* Whoever dies leaves what it held to a claim that costs one attempt more.
LEMMA CrashKeepsClaims ==
    ASSUME ClaimInv, QueueInv', NEW w \in Worker, Crash(w) PROVE ClaimInv'
  <1>1. /\ crashes' = crashes + 1
        /\ worker' = [worker EXCEPT ![w] = Fresh]
        /\ UNCHANGED <<messageVars, overran>>
    BY DEF Crash
  <1>2. Now(w)' = Idle /\ \A v \in Worker \ {w} : Now(v)' = Now(v)
    BY <1>1 DEF ClaimInv, QueueInv, TypeOK, Now, Fresh
  <1>3. /\ \A m : ~Holds(w, m)'
        /\ \A v \in Worker \ {w} : \A m : Holds(v, m)' <=> Holds(v, m)
    BY <1>2 DEF Holds, Idle
  <1>4. HoldersLease'
    BY <1>1, <1>3 DEF ClaimInv, HoldersLease, messageVars
  <1>5. TakenOut'
    BY <1>2 DEF ClaimInv, TakenOut, HasMessage, Idle
  <1>6. TriesAreCounted'
    <2>1. \A m \in Message \ overran :
              /\ tries[m] <= MaxTries[m] + crashes'
              /\ tries[m] < MaxTries[m] + crashes'
      BY <1>1, QueueAssumption DEF ClaimInv, TriesAreCounted, QueueInv, TypeOK
    <2>2. \A v \in Worker : Now(v)'.pc = "back_off" => Now(v)' = Now(v)
      BY <1>2 DEF Idle
    <2>3. QED
      BY <1>1, <2>1, <2>2 DEF ClaimInv, TriesAreCounted, messageVars
  <1>7. QED BY <1>4, <1>5, <1>6 DEF ClaimInv

LEMMA DrivenKeepsClaims ==
    ASSUME ClaimInv, [Driven]_vars PROVE ClaimInv'
  <1>1. QueueInv'
    BY DrivenKeepsInv DEF ClaimInv
  <1>2. CASE \E w \in Worker : Acts(w)
    BY <1>1, <1>2, ActsKeepsClaims
  <1>3. CASE \E w \in Worker : Crash(w)
    BY <1>1, <1>3, CrashKeepsClaims
  <1>4. ASSUME \A w \in Worker : Now(w)' = Now(w)
        PROVE  /\ \A w \in Worker, m \in Message : Holds(w, m)' <=> Holds(w, m)
               /\ TakenOut'
               /\ \A w \in Worker, m \in Message \ overran :
                      Now(w)'.pc = "back_off" /\ Now(w)'.message = m => tries[m] < MaxTries[m]
    BY <1>4 DEF Holds, ClaimInv, TakenOut, HasMessage, TriesAreCounted
  <1>5. CASE \E m \in Message : Expire(m)
    <2>1. PICK m \in Message : Expire(m)
      BY <1>5
    <2>2. /\ UNCHANGED <<status, leasedBy, tries, worker, crashes>>
          /\ \A n \in Message \ {m} : lease'[n] = lease[n]
          /\ overran' = IF \E w \in Worker : Holds(w, m) THEN overran \cup {m} ELSE overran
      BY <2>1 DEF Expire, ClaimInv, QueueInv, TypeOK
    <2>3. \A w \in Worker : Now(w)' = Now(w)
      BY <2>2 DEF Now
    <2>4. HoldersLease'
      BY <1>4, <2>2, <2>3 DEF ClaimInv, HoldersLease
    <2>5. TriesAreCounted'
      BY <1>4, <2>2, <2>3 DEF ClaimInv, TriesAreCounted
    <2>6. QED BY <1>1, <1>4, <2>3, <2>4, <2>5 DEF ClaimInv
  <1>6. CASE \E m \in Message : Enqueue(m) \/ ComeDue(m)
    <2>1. /\ UNCHANGED <<lease, leasedBy, tries, worker, crashes, overran>>
          /\ \A m \in Message : \/ status'[m] = status[m]
                                \/ status[m] = "unsent" /\ status'[m] = "ready"
      BY <1>6 DEF Enqueue, ComeDue, ClaimInv, QueueInv, TypeOK
    <2>2. \A w \in Worker : Now(w)' = Now(w)
      BY <2>1 DEF Now
    <2>3. QED
      BY <1>1, <1>4, <2>1, <2>2, SameHandsKeepClaims
  <1>7. CASE RecordFailure \/ UNCHANGED vars
    <2>1. UNCHANGED <<messageVars, crashes, overran>> /\ \A w \in Worker : Now(w)' = Now(w)
      BY <1>7 DEF RecordFailure, vars, Now, ClaimInv, QueueInv, TypeOK
    <2>2. QED
      BY <1>1, <1>4, <2>1, SameHandsKeepClaims DEF messageVars
  <1>8. QED
    BY <1>2, <1>3, <1>5, <1>6, <1>7 DEF Driven, Next, Acts

LEMMA InitClaimInv ==
    ASSUME NEW unsent, NEW deaths \in Nat, InitQueue(unsent, deaths) PROVE ClaimInv
  <1>1. QueueInv
    BY InitQueueInv
  <1>2. \A w \in Worker : Now(w) = Idle
    BY DEF InitQueue, Now, Fresh
  <1>3. (\A w \in Worker : \A m : ~Holds(w, m)) /\ (\A w \in Worker : ~HasMessage(w))
    BY <1>2 DEF Idle, Holds, HasMessage
  <1>4. HoldersLease /\ TakenOut
    BY <1>3 DEF HoldersLease, TakenOut
  <1>5. TriesAreCounted
    BY <1>3, QueueAssumption DEF InitQueue, TriesAreCounted, HasMessage
  <1>6. QED BY <1>1, <1>4, <1>5 DEF ClaimInv

-----------------------------------------------------------------------------
(* The queue under planning.                                               *)

LEMMA PlanningKeepsClaimInv == SpecPlanning => []ClaimInv
  <1>1. InitPlanning => ClaimInv
    BY InitClaimInv, PlanningAssumption DEF InitPlanning
  <1>2. ClaimInv /\ [NextPlanning]_allVars => ClaimInv'
    BY PlanningDrivesQueue, DrivenKeepsClaims
  <1>3. QED BY <1>1, <1>2, PTL DEF SpecPlanning

-----------------------------------------------------------------------------
(* The workflows of the library.                                           *)

LEMMA PinnedShape ==
    ASSUME NEW q, Pins(q)
    PROVE  LET w == Pinned(q) IN
           /\ w.shape \in {"plan", "batch"}
           /\ Len(w.invariants) \in Nat
           /\ DOMAIN w.invariants = 1 .. Len(w.invariants)
           /\ Len(w.invariants) = 0 <=> w.invariants = <<>>
           /\ w.shape = "plan" => Keys(w) # {}
  <1> DEFINE w == Pinned(q)
  <1>1. /\ w.shape \in {"plan", "batch"}
        /\ w.rows \in Seq(LibraryRow)
        /\ w.invariants \in Seq(STRING)
        /\ w.shape = "plan" => w.rows # <<>>
    BY PlanningAssumption DEF Pins, Pinned
  <1> HIDE DEF w
  <1>2. w.rows # <<>> => Keys(w) # {}
    <2>1. w.rows # <<>> => 1 \in DOMAIN w.rows
      BY <1>1
    <2>2. QED BY <2>1 DEF Keys, Range
  <1>3. QED BY <1>1, <1>2 DEF w

LEMMA WholePlan ==
    ASSUME NEW q, Pins(q), Pinned(q).shape = "plan"
    PROVE  Whole(q) <=> /\ AllCopied(q)
                        /\ DOMAIN rows[q] = Keys(Pinned(q))
                        /\ OneSheet(q)
  BY PinnedShape DEF Whole, AllCopied, CopiedUpTo, OneSheet

-----------------------------------------------------------------------------
(* What the steps of the queue leave in the hands of workers.              *)

LEMMA StaysSent ==
    ASSUME QueueInv, [Driven]_vars, NEW m \in Message, status[m] # "unsent"
    PROVE  status'[m] # "unsent"
  <1>1. CASE \E w \in Worker : CommitClaim(w)
    BY <1>1 DEF CommitClaim
  <1>2. CASE \E w \in Worker : SettleDone(w) \/ GiveUp(w) \/ BackOff(w)
    BY <1>2 DEF SettleDone, GiveUp, BackOff, Write, QueueInv, TypeOK
  <1>3. CASE \E w \in Worker :
                \/ Select(w) \/ EndDrain(w) \/ StartRun(w) \/ EndBatch(w)
                \/ Succeed(w) \/ Fail(w) \/ TimeOut(w) \/ ReadTries(w) \/ Crash(w)
    BY <1>3 DEF Select, EndDrain, StartRun, EndBatch, Succeed, Fail, TimeOut, ReadTries, Crash, messageVars
  <1>4. CASE \E n \in Message : Enqueue(n) \/ Expire(n) \/ ComeDue(n)
    BY <1>4 DEF Enqueue, Expire, ComeDue, QueueInv, TypeOK
  <1>5. CASE RecordFailure \/ UNCHANGED vars
    BY <1>5 DEF RecordFailure, vars, messageVars
  <1>6. QED
    BY <1>1, <1>2, <1>3, <1>4, <1>5 DEF Driven, Next, Acts, Step, Drain, NextBatch

\* A step of a worker on its batch leaves it with sent messages.
LEMMA KeepsHold ==
    ASSUME QueueInv, HeldIsSent, [Driven]_vars, NEW w \in Worker, NEW doing \in Doing,
           Now(w)' = doing, \A v \in Worker \ {w} : Now(v)' = Now(v),
           \A m \in doing.batch : status[m] # "unsent",
           doing.pc \notin {"idle", "polling", "claiming", "working"} =>
               status[doing.message] # "unsent",
           \A m \in ran' : status[m] # "unsent"
    PROVE  HeldIsSent'
  <1>1. QueueInv'
    BY DrivenKeepsInv
  <1>2. \A v \in Worker : Now(v)'.batch \subseteq Message
    BY <1>1 DEF QueueInv, TypeOK, Doing, Now
  <1>3. \A v \in Worker : HasMessage(v)' => Now(v)'.message \in Message
    BY <1>1 DEF QueueInv, TypeOK, Doing, Now, HasMessage
  <1>4. ran' \subseteq Message
    BY <1>1 DEF QueueInv, TypeOK
  <1>5. \A v \in Worker : \A m \in Now(v)'.batch : status'[m] # "unsent"
    BY <1>2, StaysSent DEF HeldIsSent
  <1>6. \A v \in Worker : HasMessage(v)' => status'[Now(v)'.message] # "unsent"
    <2>1. SUFFICES ASSUME NEW v \in Worker, HasMessage(v)'
                   PROVE  status[Now(v)'.message] # "unsent"
      BY <1>3, StaysSent
    <2>2. CASE v = w
      BY <2>1, <2>2 DEF HasMessage
    <2>3. CASE v # w
      BY <2>1, <2>3 DEF HeldIsSent, HasMessage
    <2>4. QED BY <2>2, <2>3
  <1>7. \A m \in ran' : status'[m] # "unsent"
    BY <1>4, StaysSent
  <1>8. QED BY <1>5, <1>6, <1>7 DEF HeldIsSent

Sendable(w) ==
    /\ \A m \in Now(w)'.batch : status[m] # "unsent"
    /\ HasMessage(w)' => status[Now(w)'.message] # "unsent"
    /\ \A m \in ran' : status[m] # "unsent"

\* A worker that goes on with less of what it held.
LEMMA GoingOnIsSendable ==
    ASSUME QueueInv, HeldIsSent, NEW w \in Worker, NEW doing \in Doing, Now(w)' = doing,
           doing.batch \subseteq Now(w).batch,
           \/ HasMessage(w) /\ doing.message = Now(w).message
           \/ doing.pc \in {"idle", "polling", "working"},
           \A m \in ran' : m \in ran \/ (HasMessage(w) /\ m = Now(w).message)
    PROVE  Sendable(w)
  <1>1. \A m \in Now(w)'.batch : status[m] # "unsent"
    BY DEF HeldIsSent
  <1>2. HasMessage(w)' => status[Now(w)'.message] # "unsent"
    BY DEF HeldIsSent, HasMessage
  <1>3. \A m \in ran' : status[m] # "unsent"
    BY DEF HeldIsSent
  <1>4. QED BY <1>1, <1>2, <1>3 DEF Sendable

LEMMA StepIsSendable ==
    ASSUME QueueInv, HeldIsSent, NEW w \in Worker, Acts(w) PROVE Sendable(w)
  <1>1. CASE Select(w)
    <2>1. PICK batch \in SUBSET {m \in Message : Claimable(m) /\ locked[m] = NoWorker} :
              Become(w, [pc |-> "claiming", batch |-> batch])
      BY <1>1 DEF Select
    <2>2. Now(w)' = [pc |-> "claiming", batch |-> batch]
      BY <2>1 DEF Become, QueueInv, TypeOK, Now
    <2>3. \A m \in batch : status[m] # "unsent"
      BY DEF Claimable
    <2>4. QED
      BY <1>1, <2>2, <2>3 DEF Select, HasMessage, HeldIsSent, Sendable
  <1>2. CASE StartRun(w)
    <2>1. PICK m \in Now(w).batch :
              Become(w, [pc |-> "running", batch |-> Now(w).batch \ {m}, message |-> m])
      BY <1>2 DEF StartRun
    <2>2. Now(w)' = [pc |-> "running", batch |-> Now(w).batch \ {m}, message |-> m]
      BY <2>1 DEF Become, QueueInv, TypeOK, Now
    <2>3. /\ \A n \in Now(w).batch : status[n] # "unsent"
          /\ \A n \in ran' : status[n] # "unsent"
      BY <1>2 DEF StartRun, HeldIsSent
    <2>4. QED
      BY <2>2, <2>3 DEF HasMessage, Sendable
  <1>3. CASE EndBatch(w) \/ EndDrain(w)
    <2>1. PICK doing \in {Polling, Idle} : Become(w, doing)
      BY <1>3 DEF EndBatch, EndDrain
    <2>2. doing \in Doing /\ doing.batch = {} /\ doing.pc \in {"polling", "idle"}
      BY FreshType DEF Polling, Idle
    <2>3. Now(w)' = doing /\ ran' = ran
      BY <1>3, <2>1, <2>2, BecomeType DEF EndBatch, EndDrain, QueueInv
    <2>4. QED BY <2>2, <2>3, GoingOnIsSendable
  <1>4. CASE CommitClaim(w) \/ SettleDone(w) \/ GiveUp(w) \/ BackOff(w)
    <2> DEFINE doing == [pc |-> "working", batch |-> Now(w).batch]
    <2>1. doing \in Doing /\ doing.batch = Now(w).batch /\ doing.pc = "working"
      BY DoingType DEF QueueInv, Doing
    <2>2. Become(w, doing) /\ ran' = ran
      BY <1>4 DEF CommitClaim, SettleDone, GiveUp, BackOff, Write
    <2> HIDE DEF doing
    <2>3. Now(w)' = doing
      BY <2>1, <2>2, BecomeType DEF QueueInv
    <2>4. QED BY <2>1, <2>2, <2>3, GoingOnIsSendable
  <1>5. CASE Succeed(w) \/ Fail(w) \/ TimeOut(w)
    <2>1. PICK ok \in BOOLEAN : Now(w)' = Settling(w, ok)
      <3>1. CASE Succeed(w)
        <4>1. worker[w].failures \in BOOLEAN
          BY DoingType DEF QueueInv
        <4>2. Now(w)' = Settling(w, ~worker[w].failures)
          BY <3>1 DEF Succeed, Become, Now, QueueInv, TypeOK
        <4>3. QED BY <4>1, <4>2
      <3>2. CASE Fail(w)
        <4> DEFINE doing == Settling(w, FALSE)
        <4>1. worker' = [worker EXCEPT ![w] = [doing |-> doing, failures |-> TRUE]]
          BY <3>2 DEF Fail
        <4> HIDE DEF doing
        <4>2. Now(w)' = doing
          BY <4>1 DEF Now, QueueInv, TypeOK
        <4>3. QED BY <4>2 DEF doing
      <3>3. CASE TimeOut(w)
        BY <3>3 DEF TimeOut, Become, Now, QueueInv, TypeOK
      <3>4. QED BY <1>5, <3>1, <3>2, <3>3
    <2>2. Now(w).pc = "running" /\ HasMessage(w) /\ ran' \subseteq ran \cup {Now(w).message}
      BY <1>5 DEF Succeed, Fail, TimeOut, HasMessage
    <2>3. /\ Settling(w, ok) \in Doing
          /\ Settling(w, ok).batch = Now(w).batch
          /\ Settling(w, ok).message = Now(w).message
      BY <2>2, SettlingType DEF QueueInv
    <2>4. QED BY <2>1, <2>2, <2>3, GoingOnIsSendable
  <1>6. CASE ReadTries(w)
    <2> DEFINE out == tries[Now(w).message] >= MaxTries[Now(w).message]
               doing == [Now(w) EXCEPT !.pc = IF out THEN "give_up" ELSE "back_off"]
    <2>1. /\ doing \in Doing /\ doing.batch = Now(w).batch
          /\ doing.message = Now(w).message
      BY <1>6, MessageType, DoingType DEF QueueInv, ReadTries, Doing
    <2>2. Become(w, doing)
      BY <1>6 DEF ReadTries
    <2> HIDE DEF doing
    <2>3. Now(w)' = doing
      BY <2>1, <2>2, BecomeType DEF QueueInv
    <2>4. ran' = ran /\ HasMessage(w)
      BY <1>6 DEF ReadTries, HasMessage
    <2>5. QED BY <2>1, <2>3, <2>4, GoingOnIsSendable
  <1>7. QED
    BY <1>1, <1>2, <1>3, <1>4, <1>5, <1>6 DEF Acts, Step, Drain, NextBatch

LEMMA StepKeepsHeld ==
    ASSUME QueueInv, HeldIsSent, NEW w \in Worker, Acts(w) PROVE HeldIsSent'
  <1>1. [Driven]_vars
    BY DEF Driven, Next, Acts
  <1>2. QueueInv' /\ Now(w) \in Doing /\ Now(w)' \in Doing
    BY <1>1, DrivenKeepsInv DEF QueueInv, TypeOK, Now
  <1>3. \A v \in Worker \ {w} : Now(v)' = Now(v)
    BY DEF QueueInv, TypeOK, Now, Acts, Step, Drain, NextBatch, EndDrain, Select, CommitClaim,
           StartRun, EndBatch, Succeed, Fail, TimeOut, SettleDone, ReadTries, GiveUp, BackOff, Write, Become
  <1>4. QED
    BY <1>1, <1>2, <1>3, StepIsSendable, KeepsHold DEF Sendable, HasMessage, Doing

LEMMA DrivenKeepsHeld ==
    ASSUME QueueInv, HeldIsSent, [Driven]_vars PROVE HeldIsSent'
  <1>1. CASE \E w \in Worker : Acts(w)
    BY <1>1, StepKeepsHeld
  <1>2. CASE \E w \in Worker : Crash(w)
    <2>1. PICK w \in Worker : Crash(w)
      BY <1>2
    <2>2. Now(w)' = Idle /\ \A v \in Worker \ {w} : Now(v)' = Now(v)
      BY <2>1 DEF Crash, QueueInv, TypeOK, Now, Fresh
    <2>3. ran' = ran
      BY <2>1 DEF Crash
    <2>4. QED
      BY <2>2, <2>3, FreshType, KeepsHold DEF Idle, HeldIsSent
  <1>3. CASE /\ \A w \in Worker : Now(w)' = Now(w)
             /\ ran' = ran
    <2>1. /\ \A w \in Worker : Now(w).batch \subseteq Message
          /\ \A w \in Worker : HasMessage(w) => Now(w).message \in Message
          /\ ran \subseteq Message
      BY DoingType, MessageType DEF HasMessage, QueueInv, TypeOK
    <2>2. \A w \in Worker : HasMessage(w)' = HasMessage(w)
      BY <1>3 DEF HasMessage
    <2>3. QED
      BY <1>3, <2>1, <2>2, StaysSent DEF HeldIsSent
  <1>4. CASE \E m \in Message : Enqueue(m) \/ Expire(m) \/ ComeDue(m)
    BY <1>4, <1>3 DEF Enqueue, Expire, ComeDue, Now
  <1>5. CASE RecordFailure \/ UNCHANGED vars
    BY <1>5, <1>3 DEF RecordFailure, vars, Now, QueueInv, TypeOK
  <1>6. QED
    BY <1>1, <1>2, <1>4, <1>5 DEF Driven, Next, Acts

-----------------------------------------------------------------------------
(* What a step of a worker or of a person does to the plans: it leaves a   *)
(* plan where it is, drops one, though none that copies unless the process *)
(* dies, or begins one.                                                    *)

Kept(q, i) ==
    /\ plan'[q][i].pc = plan[q][i].pc
    /\ plan'[q][i].by = plan[q][i].by
    /\ plan'[q][i].next = plan[q][i].next
    /\ plan'[q][i].sheet = plan[q][i].sheet

Dropped(q, i) == plan'[q][i] = NoPlan /\ (plan[q][i].pc = "copy" => crashes' # 0)

Begun(q, i) ==
    /\ Sent(q)
    /\ plan[q][i].pc = "none"
    /\ plan'[q][i].pc = IF Pinned(q).shape = "batch" THEN "batch" ELSE "rows"
    /\ plan'[q][i].by \in Worker

Carried == \A q \in Request, i \in Slot : Kept(q, i) \/ Dropped(q, i) \/ Begun(q, i)

Untouched(q) ==
    /\ run'[q].workflow = run[q].workflow
    /\ DOMAIN rows'[q] = DOMAIN rows[q]
    /\ copied'[q] = copied[q]
    /\ sheets'[q] = sheets[q]

\* A run that is counted as run has a plan that came to its end.
EndedWell(q) == q \in ran' => q \in ran \/ \E i \in Slot : plan[q][i].pc = "returned"

LEMMA UntouchedPin == ASSUME NEW q, Untouched(q) PROVE Pinned(q)' = Pinned(q)
  BY DEF Untouched, Pinned

LEMMA CarriedPlanRun ==
    ASSUME NEW q \in Request, Pins(q), Pinned(q).shape = "plan", PlanRun(q), Untouched(q),
           EndedWell(q), \A i \in Slot : Kept(q, i) \/ Dropped(q, i) \/ Begun(q, i)
    PROVE  PlanRun(q)'
  <1>1. Pinned(q)' = Pinned(q)
    BY UntouchedPin
  <1>2. \A n : CopiedUpTo(q, n)' = CopiedUpTo(q, n)
    BY <1>1 DEF CopiedUpTo, Untouched
  <1>3. AllCopied(q)' = AllCopied(q) /\ OneSheet(q)' = OneSheet(q) /\ Whole(q)' = Whole(q)
    BY <1>1 DEF AllCopied, CopiedUpTo, OneSheet, Whole, Untouched
  <1>4. \A i \in Slot : \/ plan'[q][i].pc = plan[q][i].pc /\ plan'[q][i].next = plan[q][i].next
                        \/ plan'[q][i].pc \in {"none", "rows"}
    BY DEF Kept, Dropped, Begun, NoPlan
  <1>5. (\E i \in Slot : plan[q][i].pc = "returned") => Whole(q)
    BY WholePlan DEF PlanRun, Past
  <1>6. q \in ran' => Whole(q)'
    BY <1>3, <1>5 DEF EndedWell, PlanRun
  <1>7. \A i \in Slot : Copying(q, i)'
    BY <1>1, <1>2, <1>4 DEF PlanRun, Copying
  <1>8. QED
    BY <1>1, <1>3, <1>4, <1>6, <1>7 DEF PlanRun, Untouched, Past

LEMMA CarriedBatchRun ==
    ASSUME NEW q \in Request, Pins(q), Pinned(q).shape = "batch", BatchRun(q), Untouched(q),
           EndedWell(q), \A i \in Slot : Kept(q, i) \/ Dropped(q, i) \/ Begun(q, i),
           crashes' = 0 => crashes = 0
    PROVE  BatchRun(q)'
  <1>1. Pinned(q)' = Pinned(q)
    BY UntouchedPin
  <1>2. \A n : CopiedUpTo(q, n)' = CopiedUpTo(q, n)
    BY <1>1 DEF CopiedUpTo, Untouched
  <1>3. AllCopied(q)' = AllCopied(q)
    BY <1>1 DEF AllCopied, CopiedUpTo, Untouched
  <1>4. \A i \in Slot : \/ /\ plan'[q][i].pc = plan[q][i].pc
                           /\ plan'[q][i].next = plan[q][i].next
                           /\ plan'[q][i].sheet = plan[q][i].sheet
                        \/ /\ plan'[q][i].pc \in {"none", "batch"}
                           /\ plan[q][i].pc = "copy" => crashes' # 0
    BY DEF Kept, Dropped, Begun, NoPlan
  <1>5. q \in ran' =>
            /\ \E n \in DOMAIN sheets[q] : sheets[q][n] = Entities
            /\ DOMAIN copied[q] # {} \/ Pinned(q).invariants = <<>>
    BY DEF EndedWell, BatchRun, InSheet, Filled
  <1>6. \A i \in Slot : Copying(q, i)'
    BY <1>1, <1>2, <1>4 DEF BatchRun, Copying
  <1>7. crashes' = 0 /\ DOMAIN copied'[q] # {} =>
            AllCopied(q)' \/ \E i \in Slot : plan'[q][i].pc = "copy"
    BY <1>3, <1>4 DEF BatchRun, Untouched
  <1>8. \A i, j \in Slot :
            plan'[q][i].pc = "records" /\ plan'[q][j].pc \in Filled \cup {"records"}
                /\ plan'[q][i].sheet = plan'[q][j].sheet => i = j
    BY <1>4 DEF BatchRun, Filled
  <1>9. \A i \in Slot : InSheet(q, i)'
    BY <1>1, <1>4 DEF BatchRun, InSheet, Untouched, Filled
  <1>10. QED
    BY <1>1, <1>5, <1>6, <1>7, <1>8, <1>9 DEF BatchRun, Untouched

LEMMA CarriedRun ==
    ASSUME NEW q \in Request, Pins(q), Built(q), Untouched(q), EndedWell(q),
           \A i \in Slot : Kept(q, i) \/ Dropped(q, i) \/ Begun(q, i),
           crashes' = 0 => crashes = 0
    PROVE  Built(q)'
  <1>1. Pinned(q).shape \in {"plan", "batch"}
    BY PinnedShape
  <1>2. Pinned(q)' = Pinned(q)
    BY UntouchedPin
  <1>3. CASE Pinned(q).shape = "plan"
    BY <1>2, <1>3, CarriedPlanRun DEF Built
  <1>4. CASE Pinned(q).shape = "batch"
    BY <1>2, <1>4, CarriedBatchRun DEF Built
  <1>5. QED BY <1>1, <1>3, <1>4

-----------------------------------------------------------------------------
(* The steps of workers and of people.                                     *)

LEMMA OthersGoOn ==
    ASSUME QueueInv, NEW w \in Worker, Acts(w) \/ Crash(w)
    PROVE  \A v \in Worker \ {w} : Now(v)' = Now(v)
  BY DEF QueueInv, TypeOK, Now, Acts, Step, Drain, NextBatch, EndDrain, Select, CommitClaim,
         StartRun, EndBatch, Succeed, Fail, TimeOut, SettleDone, ReadTries, GiveUp, BackOff, Write, Become, Crash

\* A worker runs a message only once it has started it.
LEMMA StopsRunning ==
    ASSUME QueueInv, NEW w \in Worker, Acts(w) \/ Crash(w), ~StartRun(w)
    PROVE  Now(w)'.pc # "running"
  <1>1. CASE Succeed(w) \/ TimeOut(w)
    <2>1. PICK ok \in BOOLEAN : Become(w, Settling(w, ok))
      BY <1>1, DoingType DEF Succeed, TimeOut, QueueInv
    <2>2. Settling(w, ok) \in Doing /\ Settling(w, ok).pc # "running"
      BY <1>1, SettlingType DEF Succeed, TimeOut, QueueInv
    <2>3. QED BY <2>1, <2>2, BecomeType DEF QueueInv
  <1>2. CASE Fail(w)
    <2> DEFINE doing == Settling(w, FALSE)
    <2>1. doing.pc = "failed"
      BY <1>2, SettlingType DEF QueueInv, Fail
    <2>2. worker' = [worker EXCEPT ![w] = [doing |-> doing, failures |-> TRUE]]
      BY <1>2 DEF Fail
    <2> HIDE DEF doing
    <2>3. QED BY <2>1, <2>2 DEF QueueInv, TypeOK, Now
  <1>3. CASE ReadTries(w)
    <2> DEFINE out == tries[Now(w).message] >= MaxTries[Now(w).message]
               doing == [Now(w) EXCEPT !.pc = IF out THEN "give_up" ELSE "back_off"]
    <2>1. doing \in Doing /\ doing.pc # "running"
      BY <1>3, MessageType, DoingType DEF QueueInv, ReadTries, Doing
    <2>2. Become(w, doing)
      BY <1>3 DEF ReadTries
    <2> HIDE DEF doing
    <2>3. QED BY <2>1, <2>2, BecomeType DEF QueueInv
  <1>4. CASE Select(w) \/ CommitClaim(w) \/ EndBatch(w) \/ EndDrain(w)
    <2>1. PICK pc \in {"claiming", "working", "idle", "polling"}, batch \in SUBSET Message :
              Become(w, [pc |-> pc, batch |-> batch])
      <3>1. CASE Select(w)
        BY <3>1 DEF Select
      <3>2. CASE CommitClaim(w)
        BY <3>2, DoingType DEF CommitClaim, QueueInv
      <3>3. CASE EndBatch(w) \/ EndDrain(w)
        BY <3>3 DEF EndBatch, EndDrain, Polling, Idle
      <3>4. QED BY <1>4, <3>1, <3>2, <3>3
    <2>2. [pc |-> pc, batch |-> batch] \in Doing
      BY DEF Doing
    <2>3. QED BY <2>1, <2>2, BecomeType DEF QueueInv
  <1>5. CASE SettleDone(w) \/ GiveUp(w) \/ BackOff(w)
    BY <1>5 DEF SettleDone, GiveUp, BackOff, Write, Become, Now, QueueInv, TypeOK
  <1>6. CASE Crash(w)
    BY <1>6 DEF Crash, Now, Idle, Fresh, QueueInv, TypeOK
  <1>7. QED
    BY <1>1, <1>2, <1>3, <1>4, <1>5, <1>6 DEF Acts, Step, Drain, NextBatch

\* Only enqueue() sends a message.
LEMMA NothingIsSent ==
    ASSUME QueueInv, NEW m \in Message, status[m] = "unsent",
           \/ \E w \in Worker : Acts(w) \/ Crash(w)
           \/ \E n \in Message : Expire(n) \/ ComeDue(n)
           \/ RecordFailure
           \/ UNCHANGED vars,
           HeldIsSent
    PROVE  status'[m] = "unsent"
  <1>1. CASE \E w \in Worker : CommitClaim(w)
    BY <1>1 DEF CommitClaim, HeldIsSent
  <1>2. CASE \E w \in Worker : SettleDone(w) \/ GiveUp(w) \/ BackOff(w)
    <2>1. PICK w \in Worker : SettleDone(w) \/ GiveUp(w) \/ BackOff(w)
      BY <1>2
    <2>2. HasMessage(w) /\ Now(w).message # m
      BY <2>1 DEF SettleDone, GiveUp, BackOff, HasMessage, HeldIsSent
    <2>3. QED
      BY <2>1, <2>2 DEF SettleDone, GiveUp, BackOff, Write, QueueInv, TypeOK
  <1>3. CASE \E w \in Worker :
                \/ Select(w) \/ EndDrain(w) \/ StartRun(w) \/ EndBatch(w)
                \/ Succeed(w) \/ Fail(w) \/ TimeOut(w) \/ ReadTries(w) \/ Crash(w)
    BY <1>3 DEF Select, EndDrain, StartRun, EndBatch, Succeed, Fail, TimeOut, ReadTries, Crash, messageVars
  <1>4. CASE \E n \in Message : Expire(n) \/ ComeDue(n)
    BY <1>4 DEF Expire, ComeDue
  <1>5. CASE RecordFailure \/ UNCHANGED vars
    BY <1>5 DEF RecordFailure, vars, messageVars
  <1>6. QED
    BY <1>1, <1>2, <1>3, <1>4, <1>5 DEF Acts, Step, Drain, NextBatch

\* What a step of the worker w may do to a plan.
Handled(w, q, i) ==
    \/ plan'[q][i] = plan[q][i]
    \/ plan[q][i].by = w /\ plan'[q][i] = [plan[q][i] EXCEPT !.awaited = FALSE]
    \/ plan[q][i].by = w /\ plan'[q][i] = NoPlan /\ (plan[q][i].pc = "copy" => crashes' # 0)
    \/ Sent(q) /\ plan[q][i] = NoPlan /\ plan'[q][i] = NewPlan(q, w)

LEMMA HandledPlan ==
    ASSUME PlanningTypeOK, NEW w \in Worker, NEW q \in Request, NEW i \in Slot, Handled(w, q, i)
    PROVE  /\ plan'[q][i] \in PlanRecord
           /\ Kept(q, i) \/ Dropped(q, i) \/ Begun(q, i)
           /\ UnderWay(q, i)' => UnderWay(q, i) \/ (Sent(q) /\ plan'[q][i].by = w)
           /\ UnderWay(q, i)' /\ UnderWay(q, i) => plan'[q][i].by = plan[q][i].by
           /\ plan'[q][i].awaited => UnderWay(q, i)' \/ (plan[q][i].awaited /\ ~UnderWay(q, i))
           /\ plan[q][i].by \notin {w, NoWorker} => plan'[q][i] = plan[q][i]
  <1>1. plan[q][i] \in PlanRecord
    BY DEF PlanningTypeOK
  <1>2. /\ NewPlan(q, w) \in PlanRecord
        /\ NewPlan(q, w).pc = IF Pinned(q).shape = "batch" THEN "batch" ELSE "rows"
        /\ NewPlan(q, w).by = w
    BY DEF NewPlan, PlanRecord
  <1>3. /\ NoPlan \in PlanRecord
        /\ NoPlan.pc = "none" /\ NoPlan.by = NoWorker /\ ~NoPlan.awaited
    BY DEF NoPlan, PlanRecord
  <1>4. CASE plan'[q][i] = plan[q][i]
    BY <1>1, <1>4 DEF Kept, UnderWay
  <1>5. CASE plan[q][i].by = w /\ plan'[q][i] = [plan[q][i] EXCEPT !.awaited = FALSE]
    BY <1>1, <1>5 DEF Kept, UnderWay, PlanRecord
  <1>6. CASE plan[q][i].by = w /\ plan'[q][i] = NoPlan /\ (plan[q][i].pc = "copy" => crashes' # 0)
    BY <1>3, <1>6 DEF Dropped, UnderWay
  <1>7. CASE Sent(q) /\ plan[q][i] = NoPlan /\ plan'[q][i] = NewPlan(q, w)
    BY <1>2, <1>3, <1>7 DEF Begun, UnderWay
  <1>8. QED BY <1>4, <1>5, <1>6, <1>7 DEF Handled

LEMMA HandledIsOfWorkers ==
    ASSUME QueueInv, PlanningTypeOK, PlansAreOfWorkers, [Driven]_vars, NEW w \in Worker,
           \A v \in Worker \ {w} : Now(v)' = Now(v),
           \A q \in Request, i \in Slot : Handled(w, q, i),
           Now(w)'.pc = "running" /\ Now(w)'.message \in Request =>
               \E i \in Slot : /\ plan'[Now(w)'.message][i].by = w
                               /\ plan'[Now(w)'.message][i].awaited
    PROVE  PlansAreOfWorkers'
  <1>1. \A q \in Request, i \in Slot : UnderWay(q, i)' => Sent(q)' /\ plan'[q][i].by \in Worker
    <2>1. \A q \in Request, i \in Slot : UnderWay(q, i)' => Sent(q) /\ plan'[q][i].by \in Worker
      BY HandledPlan DEF PlansAreOfWorkers
    <2>2. QED BY <2>1, StaysSent, PlanningAssumption DEF Sent
  <1>2. \A q \in Request, i \in Slot : plan'[q][i].awaited => UnderWay(q, i)'
    BY HandledPlan DEF PlansAreOfWorkers
  <1>3. \A v \in Worker :
           Now(v)'.pc = "running" /\ Now(v)'.message \in Request =>
               \E i \in Slot : /\ plan'[Now(v)'.message][i].by = v
                               /\ plan'[Now(v)'.message][i].awaited
    <2>1. \A v \in Worker \ {w}, q \in Request, i \in Slot :
              plan[q][i].by = v => plan'[q][i] = plan[q][i]
      BY HandledPlan, QueueAssumption
    <2>2. QED BY <2>1 DEF PlansAreOfWorkers
  <1>4. QED BY <1>1, <1>2, <1>3 DEF PlansAreOfWorkers

\* Whatever leaves the runs as they are and carries the plans keeps the invariant.
LEMMA CarriedKeepsInv ==
    ASSUME PlanningInv, [Driven]_vars, UNCHANGED <<draft, copied, sheets>>,
           \A m \in Message : status[m] = "unsent" => status'[m] = "unsent",
           DOMAIN run' = Request, DOMAIN rows' = Request, DOMAIN press' = Request,
           \A q \in Request : DOMAIN rows'[q] = DOMAIN rows[q],
           \A q \in Request : Pins(q) => Pins(q)' /\ run'[q].workflow = run[q].workflow,
           plan' \in [Request -> [Slot -> PlanRecord]], PlansAreOfWorkers', Carried,
           \A q \in Request : EndedWell(q),
           crashes' = 0 => crashes = 0
    PROVE  PlanningInv'
  <1>1. QueueInv'
    BY DrivenKeepsInv DEF PlanningInv
  <1>2. HeldIsSent'
    BY DrivenKeepsHeld DEF PlanningInv
  <1>3. PlanningTypeOK'
    BY DEF PlanningInv, PlanningTypeOK
  <1>4. \A q \in Request : Sent(q)' => Sent(q)
    BY PlanningAssumption DEF Sent
  <1>5. DraftsSend'
    <2>1. \A q \in Request : Composing(q)' = Composing(q)
      BY DEF Composing
    <2>2. QED BY <1>4, <2>1 DEF PlanningInv, DraftsSend, DraftSends
  <1>6. RunsAreBuilt'
    <2>1. SUFFICES ASSUME NEW q \in Request, Sent(q) PROVE Built(q)'
      BY <1>4 DEF RunsAreBuilt
    <2>2. Pins(q) /\ Built(q)
      BY <2>1 DEF PlanningInv, DraftsSend, DraftSends, RunsAreBuilt
    <2>3. Untouched(q)
      BY <2>2 DEF Untouched
    <2>4. QED BY <2>2, <2>3, CarriedRun DEF Carried
  <1>7. QED BY <1>1, <1>2, <1>3, <1>5, <1>6 DEF PlanningInv

\* A step of a worker, or its death, on the messages of its batch and their plans.
LEMMA HandledKeepsInv ==
    ASSUME PlanningInv, NEW w \in Worker, Acts(w) \/ Crash(w),
           UNCHANGED <<draftVars, tableVars, press>>,
           plan' = [q \in Request |-> [i \in Slot |-> plan'[q][i]]],
           \A q \in Request, i \in Slot : Handled(w, q, i),
           \A q \in Request : EndedWell(q),
           Now(w)'.pc = "running" /\ Now(w)'.message \in Request =>
               \E i \in Slot : /\ plan'[Now(w)'.message][i].by = w
                               /\ plan'[Now(w)'.message][i].awaited,
           crashes' = 0 => crashes = 0
    PROVE  PlanningInv'
  <1>1. [Driven]_vars
    BY DEF Driven, Next, Acts
  <1>2. PlansAreOfWorkers'
    BY <1>1, OthersGoOn, HandledIsOfWorkers DEF PlanningInv
  <1>3. Carried
    BY HandledPlan DEF Carried, PlanningInv
  <1>4. \A q \in Request, i \in Slot : plan'[q][i] \in PlanRecord
    BY HandledPlan DEF PlanningInv
  <1>5. \A m \in Message : status[m] = "unsent" => status'[m] = "unsent"
    BY NothingIsSent DEF PlanningInv
  <1>6. QED
    BY <1>1, <1>2, <1>3, <1>4, <1>5, CarriedKeepsInv
    DEF draftVars, tableVars, PlanningInv, PlanningTypeOK, Pins

LEMMA CarryKeepsInv ==
    ASSUME PlanningInv, NEW w \in Worker, Carry(w) \/ Drained(w) PROVE PlanningInv'
  <1>1. Acts(w) /\ ~StartRun(w)
    <2>1. Acts(w)
      BY DEF Carry, Drained, Acts, Step
    <2>2. ~StartRun(w)
      BY DEF Carry, Drained, Drain, NextBatch, EndDrain, StartRun, Select, CommitClaim, EndBatch,
             SettleDone, ReadTries, GiveUp, BackOff, Write, Become, Idle, Polling, PlanningInv,
             QueueInv, TypeOK, Now
    <2>3. QED BY <2>1, <2>2
  <1>2. Now(w)'.pc # "running"
    BY <1>1, StopsRunning DEF PlanningInv
  <1>3. UNCHANGED planningVars /\ ran' = ran /\ crashes' = crashes
    BY DEF Carry, Drained, Drain, NextBatch, EndDrain, Select, CommitClaim, EndBatch, SettleDone,
           ReadTries, GiveUp, BackOff, Write
  <1>4. plan' = [q \in Request |-> [i \in Slot |-> plan'[q][i]]]
    BY <1>3 DEF planningVars, PlanningInv, PlanningTypeOK
  <1>5. \A q \in Request, i \in Slot : Handled(w, q, i)
    BY <1>3 DEF planningVars, Handled
  <1>6. \A q \in Request : EndedWell(q)
    BY <1>3 DEF EndedWell
  <1>7. QED
    BY <1>1, <1>2, <1>3, <1>4, <1>5, <1>6, HandledKeepsInv DEF planningVars

LEMMA StartMessageKeepsInv ==
    ASSUME PlanningInv, NEW w \in Worker, StartMessage(w) PROVE PlanningInv'
  <1>1. PICK m \in Now(w).batch :
            Become(w, [pc |-> "running", batch |-> Now(w).batch \ {m}, message |-> m])
    BY DEF StartMessage, StartRun
  <1>2. Now(w).batch \subseteq Message /\ m \in Message /\ Sent(m)
    BY DoingType DEF PlanningInv, QueueInv, HeldIsSent, Sent
  <1> DEFINE doing == [pc |-> "running", batch |-> Now(w).batch \ {m}, message |-> m]
  <1>3. doing \in Doing /\ doing.message = m
    BY <1>2 DEF Doing
  <1>4. Now(w)' = doing
    BY <1>1, <1>3, BecomeType DEF PlanningInv, QueueInv
  <1> HIDE DEF doing
  <1>5. Acts(w) /\ UNCHANGED <<draftVars, tableVars, press>> /\ ran' = ran /\ crashes' = crashes
    BY DEF StartMessage, StartRun, Acts, Step, Drain, NextBatch
  <1>6. \A q \in Request : EndedWell(q)
    BY <1>5 DEF EndedWell
  <1>7. CASE m \notin Request
    <2>1. plan' = plan
      BY <1>3, <1>4, <1>7 DEF StartMessage, Now
    <2>2. plan' = [q \in Request |-> [i \in Slot |-> plan'[q][i]]]
      BY <2>1 DEF PlanningInv, PlanningTypeOK
    <2>3. \A q \in Request, i \in Slot : Handled(w, q, i)
      BY <2>1 DEF Handled
    <2>4. QED
      BY <1>3, <1>4, <1>5, <1>6, <1>7, <2>2, <2>3, HandledKeepsInv
  <1>8. CASE m \in Request
    <2> DEFINE f == FreeSlot(m)
    <2>1. FreeSlots(m) # {}
      BY <1>3, <1>4, <1>8 DEF StartMessage, Now
    <2>2. f \in Slot /\ plan[m][f] = NoPlan
      BY <2>1 DEF FreeSlots, FreeSlot
    <2>3. plan' = [plan EXCEPT ![m][f] = NewPlan(m, w)]
      BY <1>3, <1>4, <1>8 DEF StartMessage, Now
    <2>4. NewPlan(m, w).by = w /\ NewPlan(m, w).awaited
      BY DEF NewPlan
    <2> HIDE DEF f
    <2>5. /\ plan' = [q \in Request |-> [i \in Slot |-> plan'[q][i]]]
          /\ plan'[m][f] = NewPlan(m, w)
          /\ \A q \in Request, i \in Slot : plan'[q][i] = plan[q][i] \/ (q = m /\ i = f)
      BY <1>8, <2>2, <2>3 DEF PlanningInv, PlanningTypeOK
    <2>6. \A q \in Request, i \in Slot : Handled(w, q, i)
      BY <1>2, <2>2, <2>5 DEF Handled
    <2>7. QED
      BY <1>3, <1>4, <1>5, <1>6, <2>2, <2>4, <2>5, <2>6, HandledKeepsInv
  <1>9. QED BY <1>7, <1>8

LEMMA SucceedMessageKeepsInv ==
    ASSUME PlanningInv, NEW w \in Worker, SucceedMessage(w) PROVE PlanningInv'
  <1>1. /\ Acts(w) /\ ~StartRun(w) /\ Now(w).pc = "running"
        /\ ran' = ran \cup {Now(w).message} /\ crashes' = crashes
        /\ UNCHANGED <<draftVars, tableVars, press>>
    BY DEF SucceedMessage, Succeed, Acts, Step, Drain, NextBatch, StartRun
  <1>2. Now(w)'.pc # "running"
    BY <1>1, StopsRunning DEF PlanningInv
  <1>3. \A q \in Request, i \in Slot :
            <<q, i>> \in Awaited(w) <=> plan[q][i].by = w /\ plan[q][i].awaited
    BY DEF Awaited
  <1>4. \A q \in Request, i \in Slot :
            plan[q][i].by = w /\ plan[q][i].awaited => plan[q][i].pc = "returned"
    <2>1. \A x \in Awaited(w) : plan[x[1]][x[2]].pc # "threw"
      BY DEF SucceedMessage, Ended
    <2>2. \A q \in Request, i \in Slot : <<q, i>> \in Awaited(w) => plan[q][i].pc # "threw"
      BY <2>1
    <2>3. QED BY <1>3, <2>2 DEF SucceedMessage, Quiet
  <1>5. /\ plan' = [q \in Request |-> [i \in Slot |-> plan'[q][i]]]
        /\ \A q \in Request, i \in Slot :
               plan'[q][i] = IF <<q, i>> \in Awaited(w) THEN NoPlan ELSE plan[q][i]
    BY DEF SucceedMessage, Forget
  <1>6. \A q \in Request, i \in Slot : Handled(w, q, i)
    BY <1>3, <1>4, <1>5 DEF Handled
  <1>7. \A q \in Request : EndedWell(q)
    BY <1>1, <1>4 DEF EndedWell, PlanningInv, PlansAreOfWorkers
  <1>8. QED
    BY <1>1, <1>2, <1>5, <1>6, <1>7, HandledKeepsInv

LEMMA FailMessageKeepsInv ==
    ASSUME PlanningInv, NEW w \in Worker, FailMessage(w) PROVE PlanningInv'
  <1>1. /\ Acts(w) /\ ~StartRun(w) /\ ran' = ran /\ crashes' = crashes
        /\ UNCHANGED <<draftVars, tableVars, press>>
    BY DEF FailMessage, Fail, Acts, Step, Drain, NextBatch, StartRun
  <1>2. Now(w)'.pc # "running"
    BY <1>1, StopsRunning DEF PlanningInv
  <1>3. \A q \in Request, i \in Slot :
            <<q, i>> \in Awaited(w) => plan[q][i].by = w /\ plan[q][i].pc # "copy"
    BY DEF FailMessage, Quiet, Awaited
  <1>4. /\ plan' = [q \in Request |-> [i \in Slot |-> plan'[q][i]]]
        /\ \A q \in Request, i \in Slot :
               plan'[q][i] = IF <<q, i>> \in Awaited(w) THEN NoPlan ELSE plan[q][i]
    BY DEF FailMessage, Forget
  <1>5. \A q \in Request, i \in Slot : Handled(w, q, i)
    BY <1>3, <1>4 DEF Handled
  <1>6. \A q \in Request : EndedWell(q)
    BY <1>1 DEF EndedWell
  <1>7. QED
    BY <1>1, <1>2, <1>4, <1>5, <1>6, HandledKeepsInv

LEMMA TimeOutMessageKeepsInv ==
    ASSUME PlanningInv, NEW w \in Worker, TimeOutMessage(w) PROVE PlanningInv'
  <1>1. /\ Acts(w) /\ ~StartRun(w) /\ ran' = ran /\ crashes' = crashes
        /\ UNCHANGED <<draftVars, tableVars, press>>
    BY DEF TimeOutMessage, TimeOut, Acts, Step, Drain, NextBatch, StartRun
  <1>2. Now(w)'.pc # "running"
    BY <1>1, StopsRunning DEF PlanningInv
  <1>3. \A q \in Request, i \in Slot : <<q, i>> \in Awaited(w) => plan[q][i].by = w
    BY DEF Awaited
  <1>4. /\ plan' = [q \in Request |-> [i \in Slot |-> plan'[q][i]]]
        /\ \A q \in Request, i \in Slot :
               plan'[q][i] = IF <<q, i>> \in Awaited(w)
                             THEN [plan[q][i] EXCEPT !.awaited = FALSE] ELSE plan[q][i]
    BY DEF TimeOutMessage
  <1>5. \A q \in Request, i \in Slot : Handled(w, q, i)
    BY <1>3, <1>4 DEF Handled
  <1>6. \A q \in Request : EndedWell(q)
    BY <1>1 DEF EndedWell
  <1>7. QED
    BY <1>1, <1>2, <1>4, <1>5, <1>6, HandledKeepsInv

LEMMA CrashWorkerKeepsInv ==
    ASSUME PlanningInv, NEW w \in Worker, CrashWorker(w) PROVE PlanningInv'
  <1>1. /\ Crash(w) /\ ~StartRun(w) /\ ran' = ran /\ crashes' # 0
        /\ UNCHANGED <<draftVars, tableVars, press>>
    <2>1. crashes' = crashes + 1 /\ crashes \in Nat
      BY DEF CrashWorker, Crash, PlanningInv, QueueInv, TypeOK
    <2>2. ~StartRun(w)
      BY <2>1 DEF StartRun
    <2>3. QED BY <2>1, <2>2 DEF CrashWorker, Crash
  <1>2. Now(w)'.pc # "running"
    BY <1>1, StopsRunning DEF PlanningInv
  <1>3. /\ plan' = [q \in Request |-> [i \in Slot |-> plan'[q][i]]]
        /\ \A q \in Request, i \in Slot :
               plan'[q][i] = IF plan[q][i].by = w THEN NoPlan ELSE plan[q][i]
    BY DEF CrashWorker
  <1>4. \A q \in Request, i \in Slot : Handled(w, q, i)
    BY <1>1, <1>3 DEF Handled
  <1>5. \A q \in Request : EndedWell(q)
    BY <1>1 DEF EndedWell
  <1>6. QED
    BY <1>1, <1>2, <1>3, <1>4, <1>5, HandledKeepsInv

LEMMA PassingKeepsInv ==
    ASSUME PlanningInv,
           \/ \E m \in Message : Passing(m)
           \/ UNCHANGED allVars
    PROVE  PlanningInv'
  <1>1. /\ (\E m \in Message : Expire(m) \/ ComeDue(m)) \/ UNCHANGED vars
        /\ UNCHANGED planningVars
    BY DEF Passing, allVars
  <1>2. [Driven]_vars
    BY <1>1 DEF Driven, Next
  <1>3. ran' = ran /\ crashes' = crashes /\ worker' = worker
    BY <1>1 DEF Expire, ComeDue, vars
  <1>4. \A m \in Message : status[m] = "unsent" => status'[m] = "unsent"
    BY <1>1, NothingIsSent DEF PlanningInv
  <1>5. PlansAreOfWorkers'
    <2>1. \A q \in Request : Sent(q) => Sent(q)'
      BY <1>2, StaysSent, PlanningAssumption DEF Sent, PlanningInv
    <2>2. QED
      BY <1>1, <1>3, <2>1 DEF PlanningInv, PlansAreOfWorkers, UnderWay, Now, planningVars
  <1>6. Carried /\ \A q \in Request : EndedWell(q)
    BY <1>1, <1>3 DEF Carried, Kept, EndedWell, planningVars
  <1>7. QED
    BY <1>1, <1>2, <1>3, <1>4, <1>5, <1>6, CarriedKeepsInv
    DEF planningVars, draftVars, tableVars, PlanningInv, PlanningTypeOK, Pins

\* A person who contracts changes how far the rows and the run are, and no more.
LEMMA PressKeepsInv ==
    ASSUME PlanningInv, NEW q \in Request, StartPress(q) \/ PressRow(q) \/ EndPress(q)
    PROVE  PlanningInv'
  <1>1. UNCHANGED <<vars, draft, copied, sheets, plan>>
    BY DEF StartPress, PressRow, EndPress, draftVars, tableVars
  <1>2. /\ DOMAIN run' = Request /\ DOMAIN rows' = Request /\ DOMAIN press' = Request
        /\ \A p \in Request : DOMAIN rows'[p] = DOMAIN rows[p]
    BY DEF StartPress, PressRow, EndPress, draftVars, tableVars, PlanningInv, PlanningTypeOK
  <1>3. \A p \in Request : Pins(p) => Pins(p)' /\ run'[p].workflow = run[p].workflow
    <2>1. CASE StartPress(q) \/ PressRow(q)
      BY <2>1 DEF StartPress, PressRow, draftVars, Pins
    <2>2. CASE EndPress(q)
      <3>1. run' = [run EXCEPT ![q].status = "running"] /\ DOMAIN run = Request
        BY <2>2 DEF EndPress, PlanningInv, PlanningTypeOK
      <3>2. \A p \in Request : run'[p] = run[p] \/ run'[p] = [run[p] EXCEPT !.status = "running"]
        BY <3>1
      <3>3. QED BY <3>2 DEF Pins
    <2>3. QED BY <2>1, <2>2
  <1>4. /\ [Driven]_vars
        /\ \A m \in Message : status[m] = "unsent" => status'[m] = "unsent"
        /\ crashes' = crashes
    BY <1>1 DEF vars, messageVars
  <1>5. PlansAreOfWorkers'
    BY <1>1 DEF PlanningInv, PlansAreOfWorkers, UnderWay, Sent, Now, vars, messageVars
  <1>6. Carried /\ \A p \in Request : EndedWell(p)
    BY <1>1 DEF Carried, Kept, EndedWell, vars
  <1>7. QED
    BY <1>1, <1>2, <1>3, <1>4, <1>5, <1>6, CarriedKeepsInv DEF PlanningInv, PlanningTypeOK

\* A correction of a draft that has been answered touches no run.
LEMMA EditKeepsInv ==
    ASSUME PlanningInv, NEW v, RecordDraftEdit(v) PROVE PlanningInv'
  <1>1. UNCHANGED <<vars, draft, run, tableVars, plan, press>>
    BY DEF RecordDraftEdit
  <1>2. /\ [Driven]_vars
        /\ \A m \in Message : status[m] = "unsent" => status'[m] = "unsent"
        /\ crashes' = crashes
    BY <1>1 DEF vars, messageVars
  <1>3. PlansAreOfWorkers'
    BY <1>1 DEF PlanningInv, PlansAreOfWorkers, UnderWay, Sent, Now, vars, messageVars
  <1>4. Carried /\ \A p \in Request : EndedWell(p)
    BY <1>1 DEF Carried, Kept, EndedWell, vars
  <1>5. QED
    BY <1>1, <1>2, <1>3, <1>4, CarriedKeepsInv
    DEF PlanningInv, PlanningTypeOK, Pins, tableVars

-----------------------------------------------------------------------------
(* The drafting of an ask.                                                 *)

LEMMA ChangedIs ==
    ASSUME NEW record, NEW changes
    PROVE  /\ \A x \in DOMAIN changes : /\ x \in DOMAIN Changed(record, changes)
                                        /\ Changed(record, changes)[x] = changes[x]
           /\ \A x \in DOMAIN record \ DOMAIN changes :
                  /\ x \in DOMAIN Changed(record, changes)
                  /\ Changed(record, changes)[x] = record[x]
  BY DEF Changed

\* A step of drafting keeps to its own run, and sends the message of the run while
\* the run has nothing.
LEMMA DraftedKeepsInv ==
    ASSUME PlanningInv, NEW q \in Request, ~Sent(q), UNCHANGED vars \/ Enqueue(q),
           UNCHANGED <<plan, press, copied>>,
           DOMAIN draft' = Request, DOMAIN run' = Request, DOMAIN rows' = Request,
           sheets' \in [Request -> Seq(Nat)],
           \A p \in Request \ {q} : /\ draft'[p] = draft[p] /\ run'[p] = run[p]
                                    /\ rows'[p] = rows[p] /\ sheets'[p] = sheets[p],
           DraftSends(q)',
           Sent(q)' => DOMAIN rows'[q] = {} /\ DOMAIN copied[q] = {} /\ sheets'[q] = <<>>
    PROVE  PlanningInv'
  <1>1. [Driven]_vars /\ q \in Message
    BY PlanningAssumption DEF Driven, Next
  <1>2. QueueInv' /\ HeldIsSent'
    BY <1>1, DrivenKeepsInv, DrivenKeepsHeld DEF PlanningInv
  <1>3. PlanningTypeOK'
    BY DEF PlanningInv, PlanningTypeOK
  <1>4. /\ UNCHANGED <<worker, ran, crashes>>
        /\ \A p \in Request \ {q} : Sent(p)' = Sent(p)
    BY <1>1, PlanningAssumption DEF Enqueue, vars, messageVars, Sent, PlanningInv, QueueInv, TypeOK
  <1>5. DraftsSend'
    BY <1>4 DEF PlanningInv, DraftsSend, DraftSends, Composing, Pins
  <1>6. PlansAreOfWorkers'
    BY <1>4 DEF PlanningInv, PlansAreOfWorkers, UnderWay, Now
  <1>7. RunsAreBuilt'
    <2>1. SUFFICES ASSUME NEW p \in Request, Sent(p)' PROVE Built(p)'
      BY DEF RunsAreBuilt
    <2>2. CASE p = q
      <3>1. q \notin ran' /\ \A i \in Slot : plan'[q][i].pc = "none"
        BY <1>4 DEF PlanningInv, HeldIsSent, PlansAreOfWorkers, UnderWay, Sent
      <3>2. Pins(q)'
        BY <2>1, <2>2 DEF DraftSends
      <3>3. DOMAIN rows'[q] = {} /\ DOMAIN copied'[q] = {} /\ sheets'[q] = <<>>
        BY <2>1, <2>2
      <3>4. Pinned(q)'.shape \in {"plan", "batch"}
        BY <3>2, PlanningAssumption DEF Pins, Pinned
      <3>5. QED
        BY <2>2, <3>1, <3>3, <3>4 DEF Built, BatchRun, InSheet, PlanRun, Past, Filled, Copying
    <2>3. CASE p # q
      <3>1. Built(p) /\ Pins(p)
        BY <1>4, <2>1, <2>3 DEF PlanningInv, RunsAreBuilt, DraftsSend, DraftSends
      <3>2. Untouched(p) /\ EndedWell(p) /\ \A i \in Slot : Kept(p, i)
        BY <1>4, <2>3 DEF Untouched, EndedWell, Kept
      <3>3. QED
        BY <1>4, <3>1, <3>2, CarriedRun
    <2>4. QED BY <2>2, <2>3
  <1>8. QED
    BY <1>2, <1>3, <1>5, <1>6, <1>7 DEF PlanningInv

LEMMA DraftingChanges ==
    ASSUME PlanningInv, NEW q \in Request, NEW changes, Proceed(q, changes)
    PROVE  /\ DOMAIN draft' = Request
           /\ \A p \in Request \ {q} : draft'[p] = draft[p]
           /\ draft'[q] = Changed(draft[q], changes)
  BY DEF Proceed, PlanningInv, PlanningTypeOK

\* The steps that only go on with the draft.
LEMMA DraftOnlyKeepsInv ==
    ASSUME PlanningInv, NEW q \in Request, ~Sent(q),
           UNCHANGED <<vars, run, tableVars, plan, press>>,
           NEW changes, Proceed(q, changes), DraftSends(q)'
    PROVE  PlanningInv'
  <1>1. ~Sent(q)'
    BY DEF Sent, vars, messageVars
  <1>2. QED
    BY <1>1, DraftingChanges, DraftedKeepsInv DEF tableVars, PlanningInv, PlanningTypeOK

Empty(q) == DOMAIN rows[q] = {} /\ DOMAIN copied[q] = {} /\ sheets[q] = <<>>

LEMMA ComposingKeepsInv ==
    ASSUME PlanningInv, NEW q \in Request,
           Match(q) \/ ComposeDraft(q) \/ NextVersion(q) \/ StoreWorkflow(q)
    PROVE  PlanningInv'
  <1>1. /\ DraftSends(q) /\ ~Sent(q) /\ Empty(q)
        /\ UNCHANGED <<vars, run, tableVars, plan, press>>
    BY DEF PlanningInv, DraftsSend, DraftSends, Match, ComposeDraft, NextVersion, StoreWorkflow,
           At, Empty
  <1>2. ~Sent(q)' /\ Empty(q)'
    BY <1>1 DEF Sent, Empty, vars, messageVars, tableVars
  <1>3. CASE Match(q)
    <2>1. PICK i, v, input, uncertain :
              /\ i \in BestMatches(Ask[q].says)
              /\ Proceed(q, [pc |-> "run", how |-> "library",
                             workflow |-> <<Intents[i].workflow, v>>,
                             input |-> input, uncertain |-> uncertain,
                             questions |-> Asked(uncertain)])
      BY <1>3 DEF Match
    <2> DEFINE changes == [pc |-> "run", how |-> "library",
                           workflow |-> <<Intents[i].workflow, v>>,
                           input |-> input, uncertain |-> uncertain,
                           questions |-> Asked(uncertain)]
    <2>2. draft'[q].pc = "run" /\ "how" \in DOMAIN draft'[q] /\ draft'[q].how = "library"
          /\ draft'[q].workflow = <<Intents[i].workflow, v>>
      <3>1. draft'[q] = Changed(draft[q], changes)
        BY <2>1, DraftingChanges
      <3>2. DOMAIN changes = {"pc", "how", "workflow", "input", "uncertain", "questions"}
        OBVIOUS
      <3>3. QED BY <3>1, <3>2, ChangedIs
    <2>3. Intents[i].workflow \in DOMAIN Library
      BY <2>1, PlanningAssumption DEF BestMatches
    <2>4. DraftSends(q)'
      BY <1>2, <2>2, <2>3 DEF DraftSends, Composing, Empty
    <2>5. QED BY <1>1, <2>1, <2>4, DraftOnlyKeepsInv
  <1>4. CASE ComposeDraft(q)
    <2>1. PICK composition, questions :
              Proceed(q, Changed(composition, [pc |-> "version", how |-> "composed",
                                               questions |-> questions]))
      BY <1>4 DEF ComposeDraft
    <2> DEFINE changes == [pc |-> "version", how |-> "composed", questions |-> questions]
    <2>2. draft'[q].pc = "version" /\ "how" \in DOMAIN draft'[q] /\ draft'[q].how = "composed"
      <3>1. draft'[q] = Changed(draft[q], Changed(composition, changes))
        BY <2>1, DraftingChanges
      <3>2. DOMAIN changes = {"pc", "how", "questions"}
        OBVIOUS
      <3>3. QED BY <3>1, <3>2, ChangedIs
    <2>3. DraftSends(q)'
      BY <1>2, <2>2 DEF DraftSends, Composing, Empty
    <2>4. QED BY <1>1, <2>1, <2>3, DraftOnlyKeepsInv
  <1>5. CASE NextVersion(q)
    <2>1. PICK seen, workflow :
              Proceed(q, [pc |-> "workflow", seen |-> seen, workflow |-> workflow])
      BY <1>5 DEF NextVersion
    <2> DEFINE changes == [pc |-> "workflow", seen |-> seen, workflow |-> workflow]
    <2>2. draft'[q].pc = "workflow" /\ "how" \in DOMAIN draft'[q] /\ draft'[q].how = "composed"
      <3>1. draft'[q] = Changed(draft[q], changes)
        BY <2>1, DraftingChanges
      <3>2. DOMAIN changes = {"pc", "seen", "workflow"}
        OBVIOUS
      <3>3. "how" \in DOMAIN draft[q] /\ draft[q].how = "composed"
        BY <1>1, <1>5 DEF NextVersion, At, DraftSends, Composing
      <3>4. QED BY <3>1, <3>2, <3>3, ChangedIs
    <2>3. DraftSends(q)'
      BY <1>2, <2>2 DEF DraftSends, Composing, Empty
    <2>4. QED BY <1>1, <2>1, <2>3, DraftOnlyKeepsInv
  <1>6. CASE StoreWorkflow(q)
    <2> DEFINE changes == [pc |-> "run"]
    <2>1. Proceed(q, changes)
      BY <1>6 DEF StoreWorkflow
    <2>2. draft'[q].pc = "run" /\ "how" \in DOMAIN draft'[q] /\ draft'[q].how = "composed"
      <3>1. draft'[q] = Changed(draft[q], changes)
        BY <2>1, DraftingChanges
      <3>2. DOMAIN changes = {"pc"}
        OBVIOUS
      <3>3. "how" \in DOMAIN draft[q] /\ draft[q].how = "composed"
        BY <1>1, <1>6 DEF StoreWorkflow, At, DraftSends, Composing
      <3>4. QED BY <3>1, <3>2, <3>3, ChangedIs
    <2>3. DraftSends(q)'
      BY <1>2, <2>2 DEF DraftSends, Composing, Empty
    <2>4. QED BY <1>1, <2>1, <2>3, DraftOnlyKeepsInv
  <1>7. QED BY <1>3, <1>4, <1>5, <1>6

LEMMA InsertRunKeepsInv ==
    ASSUME PlanningInv, NEW q \in Request, InsertRun(q) PROVE PlanningInv'
  <1>1. /\ DraftSends(q) /\ ~Sent(q) /\ Empty(q) /\ draft[q].pc = "run"
        /\ UNCHANGED <<vars, tableVars, plan, press>>
    BY DEF PlanningInv, DraftsSend, DraftSends, InsertRun, At, Empty
  <1>2. ~Sent(q)' /\ Empty(q)'
    BY <1>1 DEF Sent, Empty, vars, messageVars, tableVars
  <1> DEFINE pc == IF draft[q].how = "library" THEN "send"
                   ELSE IF draft[q].shape = "batch" THEN "sheet" ELSE "rows"
             changes == [pc |-> pc]
  <1>3. Proceed(q, changes)
    BY DEF InsertRun
  <1>4. draft'[q].pc = pc
    <2>1. draft'[q] = Changed(draft[q], changes)
      BY <1>3, DraftingChanges
    <2>2. DOMAIN changes = {"pc"}
      OBVIOUS
    <2>3. QED BY <2>1, <2>2, ChangedIs
  <1>5. /\ DOMAIN run' = Request
        /\ \A p \in Request \ {q} : run'[p] = run[p]
        /\ run'[q] = [status |-> "drafted", workflow |-> draft[q].workflow]
    BY DEF InsertRun, PlanningInv, PlanningTypeOK
  <1>6. draft[q].how = "library" => Pins(q)'
    BY <1>1, <1>5 DEF DraftSends, Pins
  <1>7. DraftSends(q)'
    BY <1>2, <1>4, <1>6 DEF DraftSends, Composing, Empty
  <1>8. QED
    BY <1>1, <1>2, <1>3, <1>5, <1>7, DraftingChanges, DraftedKeepsInv
    DEF tableVars, PlanningInv, PlanningTypeOK

LEMMA SendKeepsInv ==
    ASSUME PlanningInv, NEW q \in Request, Send(q) PROVE PlanningInv'
  <1>1. /\ ~Sent(q) /\ Empty(q) /\ Pins(q)
        /\ Enqueue(q) /\ UNCHANGED <<run, tableVars, plan, press>>
    BY DEF PlanningInv, DraftsSend, DraftSends, Send, At, Empty
  <1> DEFINE changes == [pc |-> "answered"]
  <1>2. Proceed(q, changes)
    BY DEF Send
  <1>3. draft'[q].pc = "answered"
    <2>1. draft'[q] = Changed(draft[q], changes)
      BY <1>2, DraftingChanges
    <2>2. DOMAIN changes = {"pc"}
      OBVIOUS
    <2>3. QED BY <2>1, <2>2, ChangedIs
  <1>4. DraftSends(q)'
    BY <1>1, <1>3 DEF DraftSends, Composing, Pins
  <1>5. QED
    BY <1>1, <1>2, <1>4, DraftingChanges, DraftedKeepsInv
    DEF Empty, tableVars, PlanningInv, PlanningTypeOK

LEMMA OpenSheetIs ==
    ASSUME PlanningTypeOK, NEW q \in Request, OpenSheet(q)
    PROVE  /\ sheets' \in [Request -> Seq(Nat)]
           /\ \A p \in Request \ {q} : sheets'[p] = sheets[p]
           /\ Len(sheets'[q]) = Len(sheets[q]) + 1
           /\ DOMAIN sheets'[q] = 1 .. Len(sheets[q]) + 1
           /\ \A n \in DOMAIN sheets[q] : sheets'[q][n] = sheets[q][n]
           /\ sheets'[q][Len(sheets[q]) + 1] = 0
  <1>1. sheets \in [Request -> Seq(Nat)] /\ sheets' = [sheets EXCEPT ![q] = Append(sheets[q], 0)]
    BY DEF PlanningTypeOK, OpenSheet
  <1>2. sheets'[q] = Append(sheets[q], 0) /\ Append(sheets[q], 0) \in Seq(Nat)
    BY <1>1
  <1>3. QED BY <1>1, <1>2

LEMMA FillRowIs ==
    ASSUME PlanningTypeOK, NEW q \in Request, NEW n, FillRow(q, n)
    PROVE  /\ sheets' \in [Request -> Seq(Nat)]
           /\ \A p \in Request \ {q} : sheets'[p] = sheets[p]
           /\ Len(sheets'[q]) = Len(sheets[q])
           /\ DOMAIN sheets'[q] = DOMAIN sheets[q]
           /\ \A m \in DOMAIN sheets[q] :
                  sheets'[q][m] = IF m = n THEN sheets[q][m] + 1 ELSE sheets[q][m]
  <1>1. sheets \in [Request -> Seq(Nat)] /\ sheets' = [sheets EXCEPT ![q][n] = @ + 1]
    BY DEF PlanningTypeOK, FillRow
  <1>2. sheets[q] \in Seq(Nat) /\ DOMAIN sheets[q] = 1 .. Len(sheets[q])
    BY <1>1
  <1>3. sheets'[q] = [sheets[q] EXCEPT ![n] = @ + 1]
    BY <1>1
  <1>4. CASE n \in DOMAIN sheets[q]
    <2>1. sheets[q][n] + 1 \in Nat
      BY <1>2, <1>4
    <2>2. sheets'[q] \in Seq(Nat) /\ Len(sheets'[q]) = Len(sheets[q])
      BY <1>2, <1>3, <1>4, <2>1
    <2>3. QED BY <1>1, <1>2, <1>3, <1>4, <2>2
  <1>5. CASE n \notin DOMAIN sheets[q]
    <2>1. sheets'[q] = sheets[q]
      BY <1>2, <1>3, <1>5
    <2>2. QED BY <1>1, <1>2, <1>5, <2>1
  <1>6. QED BY <1>4, <1>5

\* The rows and the sheet that a composed draft writes by itself.
LEMMA WritingKeepsInv ==
    ASSUME PlanningInv, NEW q \in Request,
           InsertRow(q) \/ LinkRow(q) \/ DraftSheet(q) \/ DraftRecord(q)
    PROVE  PlanningInv'
  <1>1. ~Sent(q) /\ UNCHANGED <<vars, run, copied, plan, press>>
    BY DEF PlanningInv, DraftsSend, DraftSends, InsertRow, LinkRow, DraftSheet, DraftRecord, At
  <1>2. ~Sent(q)'
    BY <1>1 DEF Sent, vars, messageVars
  <1>3. /\ DOMAIN rows' = Request /\ sheets' \in [Request -> Seq(Nat)]
        /\ \A p \in Request \ {q} : rows'[p] = rows[p] /\ sheets'[p] = sheets[p]
    <2>1. CASE InsertRow(q) \/ LinkRow(q)
      BY <2>1 DEF InsertRow, LinkRow, PlanningInv, PlanningTypeOK
    <2>2. CASE DraftSheet(q)
      BY <2>2, OpenSheetIs DEF DraftSheet, PlanningInv, PlanningTypeOK
    <2>3. CASE DraftRecord(q)
      BY <2>3, FillRowIs DEF DraftRecord, PlanningInv, PlanningTypeOK
    <2>4. QED BY <2>1, <2>2, <2>3
  <1>4. PICK pc, changes :
            /\ pc \in {"rows", "link", "answered", "sheet", "fill"}
            /\ pc = changes.pc /\ "pc" \in DOMAIN changes /\ Proceed(q, changes)
    <2>1. CASE InsertRow(q)
      <3>1. PICK pc \in {"rows", "link"} : Proceed(q, [pc |-> pc, linked |-> 1])
        BY <2>1 DEF InsertRow
      <3>2. QED BY <3>1
    <2>2. CASE LinkRow(q)
      <3>1. PICK n : \E pc \in {"answered", "link"} : Proceed(q, [pc |-> pc, linked |-> n])
        BY <2>2 DEF LinkRow
      <3>2. QED BY <3>1
    <2>3. CASE DraftSheet(q)
      BY <2>3 DEF DraftSheet
    <2>4. CASE DraftRecord(q)
      <3>1. PICK pc \in {"answered", "fill"} : Proceed(q, [pc |-> pc])
        BY <2>4 DEF DraftRecord
      <3>2. QED BY <3>1
    <2>5. QED BY <2>1, <2>2, <2>3, <2>4
  <1>5. draft'[q].pc = pc
    BY <1>4, DraftingChanges, ChangedIs
  <1>6. DraftSends(q)'
    BY <1>2, <1>4, <1>5 DEF DraftSends, Composing
  <1>7. QED
    BY <1>1, <1>2, <1>3, <1>4, <1>6, DraftingChanges, DraftedKeepsInv
    DEF PlanningInv, PlanningTypeOK

LEMMA DraftingKeepsInv ==
    ASSUME PlanningInv, NEW q \in Request, Drafting(q) PROVE PlanningInv'
  BY ComposingKeepsInv, InsertRunKeepsInv, SendKeepsInv, WritingKeepsInv DEF Drafting

-----------------------------------------------------------------------------
(* The steps of a plan.                                                    *)

\* The i-th plan of q becomes p, which is awaited as before, or it is forgotten.
Moves(q, i, p) ==
    /\ p \in PlanRecord
    /\ plan' = [plan EXCEPT ![q][i] = p]
    /\ \/ p = NoPlan /\ ~plan[q][i].awaited
       \/ p.pc # "none" /\ p.by = plan[q][i].by /\ p.awaited = plan[q][i].awaited

Goes(q, i, p, pc) ==
    /\ Moves(q, i, p)
    /\ p.pc = pc /\ p.next = plan[q][i].next /\ p.sheet = plan[q][i].sheet

Ends(q, i, p, pc) == Goes(q, i, p, pc) \/ (Moves(q, i, p) /\ p.pc = "none")

LEMMA MovesIs ==
    ASSUME PlanningTypeOK, NEW q \in Request, NEW i \in Slot, NEW p, Moves(q, i, p)
    PROVE  /\ plan' \in [Request -> [Slot -> PlanRecord]]
           /\ plan'[q][i] = p
           /\ \A j \in Slot \ {i} : plan'[q][j] = plan[q][j]
           /\ \A r \in Request \ {q} : plan'[r] = plan[r]
  BY DEF PlanningTypeOK, Moves

LEMMA GoIs ==
    ASSUME PlanningTypeOK, NEW q \in Request, NEW i \in Slot,
           NEW pc \in {"look", "copy", "sheet", "cells", "records"}, Go(q, i, pc)
    PROVE  \E p : Goes(q, i, p, pc)
  <1> DEFINE p == [plan[q][i] EXCEPT !.pc = pc]
  <1>1. plan[q][i] \in PlanRecord
    BY DEF PlanningTypeOK
  <1>2. /\ p \in PlanRecord /\ p.pc = pc /\ p.by = plan[q][i].by
        /\ p.awaited = plan[q][i].awaited /\ p.next = plan[q][i].next
        /\ p.sheet = plan[q][i].sheet
    BY <1>1 DEF PlanRecord
  <1>3. plan' = [plan EXCEPT ![q][i] = p]
    BY DEF Go
  <1> HIDE DEF p
  <1>4. QED BY <1>2, <1>3 DEF Goes, Moves

LEMMA EndIs ==
    ASSUME PlanningTypeOK, NEW q \in Request, NEW i \in Slot, NEW pc \in {"returned", "threw"},
           plan' = [plan EXCEPT ![q][i] = IF @.awaited THEN [@ EXCEPT !.pc = pc] ELSE NoPlan]
    PROVE  \E p : Ends(q, i, p, pc)
  <1> DEFINE r == [plan[q][i] EXCEPT !.pc = pc]
  <1>1. plan[q][i] \in PlanRecord /\ NoPlan \in PlanRecord /\ NoPlan.pc = "none"
    BY DEF PlanningTypeOK, PlanRecord, NoPlan
  <1>2. /\ r \in PlanRecord /\ r.pc = pc /\ r.by = plan[q][i].by
        /\ r.awaited = plan[q][i].awaited /\ r.next = plan[q][i].next
        /\ r.sheet = plan[q][i].sheet
    BY <1>1 DEF PlanRecord
  <1>3. plan' = [plan EXCEPT ![q][i] = IF plan[q][i].awaited THEN r ELSE NoPlan]
    OBVIOUS
  <1> HIDE DEF r
  <1>4. CASE plan[q][i].awaited
    BY <1>2, <1>3, <1>4 DEF Ends, Goes, Moves
  <1>5. CASE ~plan[q][i].awaited
    BY <1>1, <1>3, <1>5 DEF Ends, Moves
  <1>6. QED BY <1>4, <1>5

LEMMA ReturnIs ==
    ASSUME PlanningTypeOK, NEW q \in Request, NEW i \in Slot, Return(q, i)
    PROVE  \E p : Ends(q, i, p, "returned")
  BY EndIs DEF Return

LEMMA ThrowIs ==
    ASSUME PlanningTypeOK, NEW q \in Request, NEW i \in Slot, Throw(q, i)
    PROVE  \E p : Ends(q, i, p, "threw")
  BY EndIs DEF Throw

\* What a step of a plan of q leaves alone.
PlanFrame(q) ==
    /\ UNCHANGED vars \/ RecordFailure
    /\ UNCHANGED <<draftVars, press>>
    /\ DOMAIN rows' = Request /\ DOMAIN copied' = Request
    /\ sheets' \in [Request -> Seq(Nat)]
    /\ \A r \in Request \ {q} :
           rows'[r] = rows[r] /\ copied'[r] = copied[r] /\ sheets'[r] = sheets[r]

LEMMA PlannedKeepsInv ==
    ASSUME PlanningInv, NEW q \in Request, NEW i \in Slot, UnderWay(q, i), PlanFrame(q),
           NEW p, Moves(q, i, p), Built(q)'
    PROVE  PlanningInv'
  <1>1. [Driven]_vars /\ UNCHANGED <<status, ran, crashes, run, draft, press>>
        /\ \A w \in Worker : Now(w)' = Now(w)
    <2>1. [Driven]_vars
      BY DEF PlanFrame, Driven
    <2>2. UNCHANGED <<status, ran, crashes, run, draft, press>>
      BY DEF PlanFrame, RecordFailure, vars, messageVars, draftVars
    <2>3. \A w \in Worker : Now(w)' = Now(w)
      <3>1. CASE UNCHANGED vars
        BY <3>1 DEF vars, Now
      <3>2. CASE RecordFailure
        BY <3>2 DEF RecordFailure, Now, PlanningInv, QueueInv, TypeOK
      <3>3. QED BY <3>1, <3>2 DEF PlanFrame
    <2>4. QED BY <2>1, <2>2, <2>3
  <1>2. QueueInv' /\ HeldIsSent'
    BY <1>1, DrivenKeepsInv, DrivenKeepsHeld DEF PlanningInv
  <1>3. /\ plan' \in [Request -> [Slot -> PlanRecord]]
        /\ plan'[q][i] = p
        /\ \A j \in Slot \ {i} : plan'[q][j] = plan[q][j]
        /\ \A r \in Request \ {q} : plan'[r] = plan[r]
    BY MovesIs DEF PlanningInv
  <1>4. PlanningTypeOK'
    BY <1>1, <1>3 DEF PlanFrame, PlanningInv, PlanningTypeOK
  <1>5. Sent(q) /\ \A r \in Request : Sent(r)' = Sent(r) /\ Pins(r)' = Pins(r)
    BY <1>1 DEF PlanningInv, PlansAreOfWorkers, Sent, Pins
  <1>6. DraftsSend'
    BY <1>1, <1>5 DEF PlanningInv, DraftsSend, DraftSends, Composing, PlanFrame
  <1>7. PlansAreOfWorkers'
    <2>1. \A r \in Request, j \in Slot :
              \/ plan'[r][j] = plan[r][j]
              \/ UnderWay(r, j)' /\ plan'[r][j].by = plan[r][j].by
                     /\ plan'[r][j].awaited = plan[r][j].awaited /\ UnderWay(r, j)
              \/ ~UnderWay(r, j)' /\ ~plan'[r][j].awaited /\ ~plan[r][j].awaited
      BY <1>3 DEF Moves, UnderWay, NoPlan
    <2>2. QED
      BY <1>1, <1>5, <2>1 DEF PlanningInv, PlansAreOfWorkers, UnderWay
  <1>8. RunsAreBuilt'
    <2>1. SUFFICES ASSUME NEW r \in Request \ {q}, Sent(r) PROVE Built(r)'
      BY <1>5 DEF RunsAreBuilt
    <2>2. Built(r) /\ Pins(r)
      BY <2>1 DEF PlanningInv, RunsAreBuilt, DraftsSend, DraftSends
    <2>3. Untouched(r) /\ EndedWell(r) /\ \A j \in Slot : Kept(r, j)
      BY <1>1, <1>3 DEF Untouched, EndedWell, Kept, PlanFrame
    <2>4. QED
      BY <1>1, <2>2, <2>3, CarriedRun
  <1>9. QED
    BY <1>2, <1>4, <1>6, <1>7, <1>8 DEF PlanningInv

\* What a step finds of the run q and of its plans, when the run is a plan.
PlanStart(q, i) ==
    /\ PlanningInv /\ UnderWay(q, i)
    /\ Pins(q) /\ Pinned(q).shape = "plan" /\ PlanRun(q) /\ PlanFrame(q)

LEMMA PlanStartIs ==
    ASSUME NEW q \in Request, NEW i \in Slot, PlanStart(q, i)
    PROVE  /\ UNCHANGED <<run, ran, crashes>>
           /\ Pinned(q)' = Pinned(q)
           /\ Len(Pinned(q).invariants) \in Nat
           /\ DOMAIN Pinned(q).invariants = 1 .. Len(Pinned(q).invariants)
           /\ Len(Pinned(q).invariants) = 0 <=> Pinned(q).invariants = <<>>
           /\ Keys(Pinned(q)) # {}
           /\ sheets[q] \in Seq(Nat)
           /\ q \in ran => AllCopied(q) /\ DOMAIN rows[q] = Keys(Pinned(q)) /\ OneSheet(q)
  <1>1. UNCHANGED <<run, ran, crashes>>
    BY DEF PlanStart, PlanFrame, RecordFailure, draftVars, vars
  <1>2. Pinned(q)' = Pinned(q)
    BY <1>1 DEF Pinned
  <1>3. /\ sheets[q] \in Seq(Nat)
        /\ q \in ran => AllCopied(q) /\ DOMAIN rows[q] = Keys(Pinned(q)) /\ OneSheet(q)
    BY WholePlan DEF PlanStart, PlanRun, PlanningInv, PlanningTypeOK
  <1>4. QED BY <1>1, <1>2, <1>3, PinnedShape DEF PlanStart

\* A plan that stops before its rows, or goes on at the same rows, copies and sheets.
LEMMA PlanStays ==
    ASSUME NEW q \in Request, NEW i \in Slot, PlanStart(q, i),
           UNCHANGED <<rows, copied, sheets>>, NEW p, Moves(q, i, p),
           \/ p.pc \in {"threw", "none"}
           \/ p.pc = "sheet" /\ plan[q][i].pc = "look" /\ Pinned(q).invariants = <<>>
           \/ p.pc = "copy" /\ plan[q][i].pc = "look" /\ Pinned(q).invariants # <<>> /\ p.next = 1
    PROVE  PlanRun(q)'
  <1>1. /\ plan'[q][i] = p
        /\ \A j \in Slot \ {i} : plan'[q][j] = plan[q][j]
    BY MovesIs DEF PlanStart, PlanningInv
  <1>2. \A n : CopiedUpTo(q, n)' = CopiedUpTo(q, n)
    BY PlanStartIs DEF CopiedUpTo
  <1>3. AllCopied(q)' = AllCopied(q) /\ OneSheet(q)' = OneSheet(q) /\ Whole(q)' = Whole(q)
    BY PlanStartIs DEF AllCopied, CopiedUpTo, OneSheet, Whole
  <1>4. Pinned(q).invariants = <<>> => AllCopied(q)
    BY PlanStartIs DEF AllCopied, CopiedUpTo
  <1>5. CopiedUpTo(q, 0)
    BY DEF CopiedUpTo
  <1>6. \A j \in Slot : Copying(q, j)'
    <2>1. Copying(q, i)'
      BY <1>1, <1>2, <1>5, PlanStartIs DEF Copying
    <2>2. \A j \in Slot \ {i} : Copying(q, j)'
      BY <1>1, <1>2, PlanStartIs DEF Copying, PlanStart, PlanRun
    <2>3. QED BY <2>1, <2>2
  <1>7. QED
    BY <1>1, <1>3, <1>4, <1>6, PlanStartIs DEF PlanStart, PlanRun, Past

LEMMA RowsKeepPlanRun ==
    ASSUME NEW q \in Request, NEW i \in Slot, PlanStart(q, i), UNCHANGED <<copied, sheets>>,
           DOMAIN rows[q] = {}, DOMAIN rows'[q] = Keys(Pinned(q)),
           Cardinality(Keys(Pinned(q))) = Len(Pinned(q).rows),
           NEW p, Moves(q, i, p), p.pc = "look"
    PROVE  PlanRun(q)'
  <1>1. /\ plan'[q][i] = p
        /\ \A j \in Slot \ {i} : plan'[q][j] = plan[q][j]
    BY MovesIs DEF PlanStart, PlanningInv
  <1>2. \A j \in Slot : plan[q][j].pc \notin Past
    BY DEF PlanStart, PlanRun
  <1>3. q \notin ran'
    BY PlanStartIs
  <1>4. \A j \in Slot : Copying(q, j)'
    BY <1>1, <1>2 DEF Copying, Past
  <1>5. QED
    BY <1>1, <1>2, <1>3, <1>4, PlanStartIs DEF PlanStart, PlanRun, Past

LEMMA CopyKeepsPlanRun ==
    ASSUME NEW q \in Request, NEW i \in Slot, PlanStart(q, i), UNCHANGED <<rows, sheets>>,
           plan[q][i].pc = "copy",
           DOMAIN copied'[q] = DOMAIN copied[q] \cup {Pinned(q).invariants[plan[q][i].next]},
           NEW p, Moves(q, i, p),
           IF plan[q][i].next = Len(Pinned(q).invariants) THEN p.pc = "sheet"
           ELSE p.pc = "copy" /\ p.next = plan[q][i].next + 1
    PROVE  PlanRun(q)'
  <1>1. PICK n : n = plan[q][i].next
    OBVIOUS
  <1>2. /\ plan'[q][i] = p
        /\ \A j \in Slot \ {i} : plan'[q][j] = plan[q][j]
    BY MovesIs DEF PlanStart, PlanningInv
  <1>3. /\ n \in 1 .. Len(Pinned(q).invariants) /\ CopiedUpTo(q, n - 1)
        /\ \A j \in Slot \ {i} : plan[q][j].pc \notin Past
    BY <1>1 DEF PlanStart, PlanRun, Copying, Past
  <1>4. CopiedUpTo(q, n)'
    BY <1>1, <1>3, PlanStartIs DEF CopiedUpTo
  <1>5. n = Len(Pinned(q).invariants) => AllCopied(q)'
    BY <1>4, PlanStartIs DEF AllCopied
  <1>6. \A j \in Slot : Copying(q, j)'
    <2>1. Copying(q, i)'
      BY <1>1, <1>2, <1>3, <1>4, PlanStartIs DEF Copying
    <2>2. \A j \in Slot \ {i} : Copying(q, j)'
      BY <1>2, <1>3 DEF Copying, Past
    <2>3. QED BY <2>1, <2>2
  <1>7. q \in ran' => Whole(q)'
    BY PlanStartIs DEF PlanStart, PlanRun, Whole
  <1>8. QED
    BY <1>1, <1>2, <1>3, <1>5, <1>6, <1>7, PlanStartIs
    DEF PlanStart, PlanRun, Past, OneSheet

\* Its sheet is opened, and filled with a row for each contract.
LEMMA SheetKeepsPlanRun ==
    ASSUME NEW q \in Request, NEW i \in Slot, PlanStart(q, i), UNCHANGED <<rows, copied>>,
           Len(sheets'[q]) = 1, NEW p, Moves(q, i, p),
           \/ plan[q][i].pc = "sheet" /\ p.pc = "cells"
           \/ /\ plan[q][i].pc = "cells" /\ p.pc \in {"returned", "none"}
              /\ sheets'[q][1] = Len(Pinned(q).rows)
    PROVE  PlanRun(q)'
  <1>1. /\ plan'[q][i] = p
        /\ \A j \in Slot \ {i} : plan'[q][j] = plan[q][j]
    BY MovesIs DEF PlanStart, PlanningInv
  <1>2. /\ AllCopied(q) /\ DOMAIN rows[q] # {}
        /\ \A j \in Slot \ {i} : plan[q][j].pc \notin Past
    BY DEF PlanStart, PlanRun, Past
  <1>3. AllCopied(q)'
    BY <1>2, PlanStartIs DEF AllCopied, CopiedUpTo
  <1>4. \A j \in Slot : Copying(q, j)'
    BY <1>1, <1>2 DEF Copying, Past
  <1>5. plan[q][i].pc = "cells" => OneSheet(q)'
    BY PlanStartIs DEF OneSheet
  <1>6. q \in ran' => plan[q][i].pc = "cells"
    BY PlanStartIs DEF OneSheet, PlanStart, PlanRun
  <1>7. q \in ran' => Whole(q)'
    <2>1. q \in ran' => AllCopied(q)' /\ DOMAIN rows'[q] = Keys(Pinned(q)') /\ OneSheet(q)'
      BY <1>3, <1>5, <1>6, PlanStartIs
    <2>2. QED
      BY <2>1, PlanStartIs DEF PlanStart, AllCopied, CopiedUpTo, OneSheet, Whole
  <1>8. QED
    BY <1>1, <1>2, <1>3, <1>4, <1>5, <1>7, PlanStartIs DEF PlanStart, PlanRun, Past

LEMMA PlanStepKeepsPlanRun ==
    ASSUME NEW q \in Request, NEW i \in Slot, PlanStart(q, i), PlanStep(q, i)
    PROVE  PlanRun(q)' /\ \E p : Moves(q, i, p)
  <1>1. CASE InsertRows(q, i)
    <2>1. CASE Throw(q, i) /\ UNCHANGED rows
      <3>1. PICK p : Ends(q, i, p, "threw")
        BY <2>1, ThrowIs DEF PlanStart, PlanningInv
      <3>2. UNCHANGED <<rows, copied, sheets>>
        BY <1>1, <2>1 DEF InsertRows
      <3>3. QED BY <3>1, <3>2, PlanStays DEF Ends, Goes
    <2>2. CASE ~(Throw(q, i) /\ UNCHANGED rows)
      <3>1. /\ DOMAIN rows[q] \cap Keys(Pinned(q)) = {}
            /\ Cardinality(Keys(Pinned(q))) = Len(Pinned(q).rows)
            /\ rows' = [rows EXCEPT ![q] = [k \in Keys(Pinned(q)) |->
                           [state |-> "drafted", behind |-> BehindIn(Pinned(q), k)]]]
            /\ Go(q, i, "look")
            /\ UNCHANGED <<copied, sheets>>
        BY <1>1, <2>2 DEF InsertRows
      <3>2. PICK p : Goes(q, i, p, "look")
        BY <3>1, GoIs DEF PlanStart, PlanningInv
      <3>3. DOMAIN rows[q] = {}
        BY <3>1, PlanStartIs DEF PlanStart, PlanRun
      <3>4. DOMAIN rows'[q] = Keys(Pinned(q))
        BY <3>1 DEF PlanStart, PlanningInv, PlanningTypeOK
      <3>5. QED BY <3>1, <3>2, <3>3, <3>4, RowsKeepPlanRun DEF Goes
    <2>3. QED BY <2>1, <2>2
  <1>2. CASE LookForInvariants(q, i)
    <2>1. plan[q][i].pc = "look" /\ UNCHANGED <<rows, copied, sheets>> /\ DOMAIN copied[q] = {}
      BY <1>2 DEF LookForInvariants, Plans, tableVars, PlanStart, PlanRun
    <2>2. CASE Pinned(q).invariants = <<>>
      <3>1. Go(q, i, "sheet")
        BY <1>2, <2>2 DEF LookForInvariants, AfterInvariants, PlanStart
      <3>2. PICK p : Goes(q, i, p, "sheet")
        BY <3>1, GoIs DEF PlanStart, PlanningInv
      <3>3. QED BY <2>1, <2>2, <3>2, PlanStays DEF Goes
    <2>3. CASE Pinned(q).invariants # <<>>
      <3> DEFINE p == [plan[q][i] EXCEPT !.pc = "copy", !.next = 1]
      <3>1. plan' = [plan EXCEPT ![q][i].pc = "copy", ![q][i].next = 1]
        BY <1>2, <2>1, <2>3 DEF LookForInvariants
      <3>2. plan' = [plan EXCEPT ![q][i] = p] /\ plan[q][i] \in PlanRecord
        BY <3>1 DEF PlanStart, PlanningInv, PlanningTypeOK
      <3>3. /\ p \in PlanRecord /\ p.pc = "copy" /\ p.next = 1
            /\ p.by = plan[q][i].by /\ p.awaited = plan[q][i].awaited
        BY <3>2 DEF PlanRecord
      <3> HIDE DEF p
      <3>4. Moves(q, i, p)
        BY <3>2, <3>3 DEF Moves
      <3>5. QED BY <2>1, <2>3, <3>3, <3>4, PlanStays
    <2>4. QED BY <2>2, <2>3
  <1>3. CASE CopyInvariant(q, i)
    <2> DEFINE n == plan[q][i].next
    <2>1. plan[q][i].pc = "copy" /\ UNCHANGED <<rows, sheets>>
      BY <1>3 DEF CopyInvariant, Plans
    <2>2. DOMAIN copied'[q] = DOMAIN copied[q] \cup {Pinned(q).invariants[n]}
      BY <1>3 DEF CopyInvariant, Changed, PlanStart, PlanningInv, PlanningTypeOK
    <2>3. CASE n = Len(Pinned(q).invariants)
      <3>1. Go(q, i, "sheet")
        BY <1>3, <2>3 DEF CopyInvariant, AfterInvariants, PlanStart
      <3>2. PICK p : Goes(q, i, p, "sheet")
        BY <3>1, GoIs DEF PlanStart, PlanningInv
      <3>3. QED BY <2>1, <2>2, <2>3, <3>2, CopyKeepsPlanRun DEF Goes
    <2>4. CASE n # Len(Pinned(q).invariants)
      <3> DEFINE p == [plan[q][i] EXCEPT !.next = n + 1]
      <3>1. plan' = [plan EXCEPT ![q][i] = p] /\ plan[q][i] \in PlanRecord
        BY <1>3, <2>4 DEF CopyInvariant, PlanStart, PlanningInv, PlanningTypeOK
      <3>2. /\ p \in PlanRecord /\ p.pc = "copy" /\ p.next = n + 1
            /\ p.by = plan[q][i].by /\ p.awaited = plan[q][i].awaited
        BY <2>1, <3>1 DEF PlanRecord
      <3> HIDE DEF p
      <3>3. Moves(q, i, p)
        BY <3>1, <3>2 DEF Moves
      <3>4. QED BY <2>1, <2>2, <2>4, <3>2, <3>3, CopyKeepsPlanRun
    <2>5. QED BY <2>3, <2>4
  <1>4. CASE MaterializeSheet(q, i)
    <2>1. /\ plan[q][i].pc = "sheet" /\ UNCHANGED <<rows, copied>> /\ sheets[q] = <<>>
          /\ OpenSheet(q) /\ Go(q, i, "cells")
      BY <1>4 DEF MaterializeSheet, Plans, PlanStart, PlanRun
    <2>2. Len(sheets'[q]) = 1
      <3>1. Len(sheets[q]) = 0
        BY <2>1
      <3>2. PlanningTypeOK
        BY DEF PlanStart, PlanningInv
      <3>3. Len(sheets'[q]) = Len(sheets[q]) + 1
        BY <2>1, <3>2, OpenSheetIs
      <3>4. QED BY <3>1, <3>3
    <2>3. PICK p : Goes(q, i, p, "cells")
      BY <2>1, GoIs DEF PlanStart, PlanningInv
    <2>4. QED BY <2>1, <2>2, <2>3, SheetKeepsPlanRun DEF Goes
  <1>5. CASE MaterializeRows(q, i)
    <2>1. /\ plan[q][i].pc = "cells" /\ UNCHANGED <<rows, copied>> /\ Return(q, i)
          /\ sheets' = [sheets EXCEPT ![q][1] = Cardinality(DOMAIN rows[q])]
      BY <1>5 DEF MaterializeRows, Plans
    <2>2. /\ Len(sheets[q]) = 1 /\ Cardinality(DOMAIN rows[q]) = Len(Pinned(q).rows)
          /\ sheets[q] \in Seq(Nat) /\ sheets'[q] \in Seq(Nat)
      BY <2>1, PlanStartIs DEF PlanStart, PlanRun, Past, PlanFrame
    <2>3. sheets'[q] = [sheets[q] EXCEPT ![1] = Len(Pinned(q).rows)]
      BY <2>1, <2>2 DEF PlanStart, PlanningInv, PlanningTypeOK
    <2>4. Len(sheets'[q]) = 1 /\ sheets'[q][1] = Len(Pinned(q).rows)
      BY <2>2, <2>3
    <2>5. PICK p : Ends(q, i, p, "returned")
      BY <2>1, ReturnIs DEF PlanStart, PlanningInv
    <2>6. QED BY <2>1, <2>4, <2>5, SheetKeepsPlanRun DEF Ends, Goes
  <1>6. CASE CreateBatchSheet(q, i) \/ CreateRecord(q, i)
    BY <1>6 DEF CreateBatchSheet, CreateRecord, Plans, PlanStart, PlanRun
  <1>7. QED
    BY <1>1, <1>2, <1>3, <1>4, <1>5, <1>6 DEF PlanStep

\* And when the run is a batch.
BatchStart(q, i) ==
    /\ PlanningInv /\ UnderWay(q, i)
    /\ Pins(q) /\ Pinned(q).shape = "batch" /\ BatchRun(q) /\ PlanFrame(q)

LEMMA BatchStartIs ==
    ASSUME NEW q \in Request, NEW i \in Slot, BatchStart(q, i)
    PROVE  /\ UNCHANGED <<run, ran, crashes>>
           /\ Pinned(q)' = Pinned(q)
           /\ Len(Pinned(q).invariants) \in Nat
           /\ DOMAIN Pinned(q).invariants = 1 .. Len(Pinned(q).invariants)
           /\ Len(Pinned(q).invariants) = 0 <=> Pinned(q).invariants = <<>>
           /\ sheets[q] \in Seq(Nat)
  <1>1. UNCHANGED <<run, ran, crashes>>
    BY DEF BatchStart, PlanFrame, RecordFailure, draftVars, vars
  <1>2. Pinned(q)' = Pinned(q)
    BY <1>1 DEF Pinned
  <1>3. sheets[q] \in Seq(Nat)
    BY DEF BatchStart, PlanningInv, PlanningTypeOK
  <1>4. QED BY <1>1, <1>2, <1>3, PinnedShape DEF BatchStart

\* A plan that stops, or that has its sheet full and finds what is copied.
LEMMA BatchStays ==
    ASSUME NEW q \in Request, NEW i \in Slot, BatchStart(q, i), UNCHANGED <<copied, sheets>>,
           NEW p, Moves(q, i, p),
           \/ p.pc \in {"threw", "none"} /\ plan[q][i].pc # "copy"
           \/ /\ p.pc = "returned" /\ plan[q][i].pc = "look" /\ p.sheet = plan[q][i].sheet
              /\ DOMAIN copied[q] # {} \/ Pinned(q).invariants = <<>>
           \/ /\ p.pc = "copy" /\ plan[q][i].pc = "look" /\ p.sheet = plan[q][i].sheet
              /\ Pinned(q).invariants # <<>> /\ p.next = 1
    PROVE  BatchRun(q)'
  <1>1. /\ plan'[q][i] = p
        /\ \A j \in Slot \ {i} : plan'[q][j] = plan[q][j]
    BY MovesIs DEF BatchStart, PlanningInv
  <1>2. \A n : CopiedUpTo(q, n)' = CopiedUpTo(q, n)
    BY BatchStartIs DEF CopiedUpTo
  <1>3. AllCopied(q)' = AllCopied(q)
    BY BatchStartIs DEF AllCopied, CopiedUpTo
  <1>4. CopiedUpTo(q, 0)
    BY DEF CopiedUpTo
  <1>5. \A j \in Slot : Copying(q, j)'
    <2>1. Copying(q, i)'
      BY <1>1, <1>2, <1>4, BatchStartIs DEF Copying
    <2>2. \A j \in Slot \ {i} : Copying(q, j)'
      BY <1>1, <1>2, BatchStartIs DEF Copying, BatchStart, BatchRun
    <2>3. QED BY <2>1, <2>2
  <1>6. \A j \in Slot : InSheet(q, j)'
    <2>1. InSheet(q, i)'
      BY <1>1, BatchStartIs DEF BatchStart, BatchRun, InSheet, Filled
    <2>2. \A j \in Slot \ {i} : InSheet(q, j)'
      BY <1>1, BatchStartIs DEF BatchStart, BatchRun, InSheet, Filled
    <2>3. QED BY <2>1, <2>2
  <1>7. \A j, k \in Slot :
            plan'[q][j].pc = "records" /\ plan'[q][k].pc \in Filled \cup {"records"}
                /\ plan'[q][j].sheet = plan'[q][k].sheet => j = k
    BY <1>1 DEF BatchStart, BatchRun, Filled
  <1>8. crashes' = 0 /\ DOMAIN copied[q] # {} =>
            AllCopied(q)' \/ \E j \in Slot : plan'[q][j].pc = "copy"
    BY <1>1, <1>3, BatchStartIs DEF BatchStart, BatchRun
  <1>9. QED
    BY <1>5, <1>6, <1>7, <1>8, BatchStartIs DEF BatchStart, BatchRun

LEMMA CopyKeepsBatchRun ==
    ASSUME NEW q \in Request, NEW i \in Slot, BatchStart(q, i), UNCHANGED sheets,
           plan[q][i].pc = "copy",
           DOMAIN copied'[q] = DOMAIN copied[q] \cup {Pinned(q).invariants[plan[q][i].next]},
           NEW p, Moves(q, i, p),
           IF plan[q][i].next = Len(Pinned(q).invariants)
           THEN p.pc = "none" \/ (p.pc = "returned" /\ p.sheet = plan[q][i].sheet)
           ELSE p.pc = "copy" /\ p.next = plan[q][i].next + 1 /\ p.sheet = plan[q][i].sheet
    PROVE  BatchRun(q)'
  <1>1. PICK n : n = plan[q][i].next
    OBVIOUS
  <1>2. /\ plan'[q][i] = p
        /\ \A j \in Slot \ {i} : plan'[q][j] = plan[q][j]
    BY MovesIs DEF BatchStart, PlanningInv
  <1>3. n \in 1 .. Len(Pinned(q).invariants) /\ CopiedUpTo(q, n - 1)
    BY <1>1 DEF BatchStart, BatchRun, Copying
  <1>4. CopiedUpTo(q, n)' /\ \A k : CopiedUpTo(q, k) => CopiedUpTo(q, k)'
    BY <1>1, <1>3, BatchStartIs DEF CopiedUpTo
  <1>5. /\ n = Len(Pinned(q).invariants) => AllCopied(q)'
        /\ AllCopied(q) => AllCopied(q)'
    BY <1>4, BatchStartIs DEF AllCopied, CopiedUpTo
  <1>6. \A j \in Slot : Copying(q, j)'
    <2>1. Copying(q, i)'
      BY <1>1, <1>2, <1>3, <1>4, BatchStartIs DEF Copying
    <2>2. \A j \in Slot \ {i} : Copying(q, j)'
      BY <1>2, <1>4, BatchStartIs DEF Copying, BatchStart, BatchRun
    <2>3. QED BY <2>1, <2>2
  <1>7. \A j \in Slot : InSheet(q, j)'
    <2>1. InSheet(q, i)'
      BY <1>2, BatchStartIs DEF BatchStart, BatchRun, InSheet, Filled
    <2>2. \A j \in Slot \ {i} : InSheet(q, j)'
      BY <1>2, BatchStartIs DEF BatchStart, BatchRun, InSheet, Filled
    <2>3. QED BY <2>1, <2>2
  <1>8. \A j, k \in Slot :
            plan'[q][j].pc = "records" /\ plan'[q][k].pc \in Filled \cup {"records"}
                /\ plan'[q][j].sheet = plan'[q][k].sheet => j = k
    BY <1>2 DEF BatchStart, BatchRun, Filled
  <1>9. AllCopied(q)' \/ \E j \in Slot : plan'[q][j].pc = "copy"
    BY <1>1, <1>2, <1>5
  <1>10. DOMAIN copied'[q] # {}
    OBVIOUS
  <1>11. QED
    BY <1>6, <1>7, <1>8, <1>9, <1>10, BatchStartIs DEF BatchStart, BatchRun

LEMMA OpenKeepsBatchRun ==
    ASSUME NEW q \in Request, NEW i \in Slot, BatchStart(q, i), UNCHANGED copied,
           OpenSheet(q), plan[q][i].pc = "batch",
           NEW p, Moves(q, i, p), p.pc = "records", p.sheet = Len(sheets[q]) + 1
    PROVE  BatchRun(q)'
  <1>1. /\ plan'[q][i] = p
        /\ \A j \in Slot \ {i} : plan'[q][j] = plan[q][j]
    BY MovesIs DEF BatchStart, PlanningInv
  <1>2. \A n : CopiedUpTo(q, n)' = CopiedUpTo(q, n)
    BY BatchStartIs DEF CopiedUpTo
  <1>3. AllCopied(q)' = AllCopied(q)
    BY BatchStartIs DEF AllCopied, CopiedUpTo
  <1>4. /\ DOMAIN sheets'[q] = 1 .. Len(sheets[q]) + 1
        /\ DOMAIN sheets[q] = 1 .. Len(sheets[q]) /\ Len(sheets[q]) \in Nat
        /\ \A n \in DOMAIN sheets[q] : sheets'[q][n] = sheets[q][n]
        /\ sheets'[q][p.sheet] = 0 /\ 0 < Entities
    BY OpenSheetIs, BatchStartIs, PlanningAssumption DEF BatchStart, PlanningInv
  <1>5. \A j \in Slot : Copying(q, j)'
    BY <1>1, <1>2, BatchStartIs DEF Copying, BatchStart, BatchRun
  <1>6. \A j \in Slot : InSheet(q, j)'
    <2>1. InSheet(q, i)'
      BY <1>1, <1>4, BatchStartIs DEF BatchStart, BatchRun, InSheet, Filled
    <2>2. \A j \in Slot \ {i} : InSheet(q, j)'
      <3>1. \A n \in DOMAIN sheets[q] : n \in DOMAIN sheets'[q]
        BY <1>4
      <3>2. SUFFICES ASSUME NEW j \in Slot \ {i} PROVE InSheet(q, j)'
        OBVIOUS
      <3>3. InSheet(q, j)
        BY DEF BatchStart, BatchRun
      <3>4. plan'[q][j] = plan[q][j] /\ Pinned(q)' = Pinned(q)
        BY <1>1, BatchStartIs
      <3>5. QED BY <1>4, <3>1, <3>3, <3>4 DEF InSheet
    <2>3. QED BY <2>1, <2>2
  <1>7. \A j, k \in Slot :
            plan'[q][j].pc = "records" /\ plan'[q][k].pc \in Filled \cup {"records"}
                /\ plan'[q][j].sheet = plan'[q][k].sheet => j = k
    BY <1>1, <1>4 DEF BatchStart, BatchRun, InSheet
  <1>8. crashes' = 0 /\ DOMAIN copied[q] # {} =>
            AllCopied(q)' \/ \E j \in Slot : plan'[q][j].pc = "copy"
    BY <1>1, <1>3, BatchStartIs DEF BatchStart, BatchRun
  <1>9. q \in ran' => \E n \in DOMAIN sheets'[q] : sheets'[q][n] = Entities
    BY <1>4, BatchStartIs DEF BatchStart, BatchRun
  <1>10. QED
    BY <1>5, <1>6, <1>7, <1>8, <1>9, BatchStartIs DEF BatchStart, BatchRun

LEMMA FillKeepsBatchRun ==
    ASSUME NEW q \in Request, NEW i \in Slot, BatchStart(q, i), UNCHANGED copied,
           plan[q][i].pc = "records", FillRow(q, plan[q][i].sheet),
           NEW p, Moves(q, i, p), p.sheet = plan[q][i].sheet,
           p.pc = IF sheets[q][plan[q][i].sheet] + 1 = Entities THEN "look" ELSE "records"
    PROVE  BatchRun(q)'
  <1> DEFINE n == plan[q][i].sheet
  <1>1. /\ plan'[q][i] = p
        /\ \A j \in Slot \ {i} : plan'[q][j] = plan[q][j]
    BY MovesIs DEF BatchStart, PlanningInv
  <1>2. \A k : CopiedUpTo(q, k)' = CopiedUpTo(q, k)
    BY BatchStartIs DEF CopiedUpTo
  <1>3. AllCopied(q)' = AllCopied(q)
    BY BatchStartIs DEF AllCopied, CopiedUpTo
  <1>4. /\ n \in DOMAIN sheets[q] /\ sheets[q][n] \in Nat /\ sheets[q][n] < Entities
        /\ Entities \in Nat
    BY BatchStartIs, PlanningAssumption DEF BatchStart, BatchRun, InSheet
  <1>5. /\ DOMAIN sheets'[q] = DOMAIN sheets[q]
        /\ \A m \in DOMAIN sheets[q] :
               sheets'[q][m] = IF m = n THEN sheets[q][m] + 1 ELSE sheets[q][m]
    BY FillRowIs DEF BatchStart, PlanningInv
  <1>6. \A j \in Slot : Copying(q, j)'
    BY <1>1, <1>2, BatchStartIs DEF Copying, BatchStart, BatchRun
  <1>7. \A j \in Slot \ {i} : plan[q][j].pc \in Filled \cup {"records"} => plan[q][j].sheet # n
    BY DEF BatchStart, BatchRun
  <1>8. \A j \in Slot : InSheet(q, j)'
    <2>1. InSheet(q, i)'
      BY <1>1, <1>4, <1>5, BatchStartIs DEF BatchStart, BatchRun, InSheet, Filled
    <2>2. \A j \in Slot \ {i} : InSheet(q, j)'
      BY <1>1, <1>5, <1>7, BatchStartIs DEF BatchStart, BatchRun, InSheet, Filled
    <2>3. QED BY <2>1, <2>2
  <1>9. \A j, k \in Slot :
            plan'[q][j].pc = "records" /\ plan'[q][k].pc \in Filled \cup {"records"}
                /\ plan'[q][j].sheet = plan'[q][k].sheet => j = k
    BY <1>1, <1>7 DEF BatchStart, BatchRun
  <1>10. crashes' = 0 /\ DOMAIN copied[q] # {} =>
             AllCopied(q)' \/ \E j \in Slot : plan'[q][j].pc = "copy"
    BY <1>1, <1>3, BatchStartIs DEF BatchStart, BatchRun
  <1>11. q \in ran' => \E m \in DOMAIN sheets'[q] : sheets'[q][m] = Entities
    BY <1>4, <1>5, BatchStartIs DEF BatchStart, BatchRun
  <1>12. QED
    BY <1>6, <1>8, <1>9, <1>10, <1>11, BatchStartIs DEF BatchStart, BatchRun

LEMMA PlanStepKeepsBatchRun ==
    ASSUME NEW q \in Request, NEW i \in Slot, BatchStart(q, i), PlanStep(q, i)
    PROVE  BatchRun(q)' /\ \E p : Moves(q, i, p)
  <1>0. PlanningTypeOK /\ plan[q][i] \in PlanRecord
    BY DEF BatchStart, PlanningInv, PlanningTypeOK
  <1>1. CASE LookForInvariants(q, i)
    <2>1. plan[q][i].pc = "look" /\ UNCHANGED <<copied, sheets>>
      BY <1>1 DEF LookForInvariants, Plans, tableVars
    <2>2. CASE DOMAIN copied[q] # {} \/ Pinned(q).invariants = <<>>
      <3>1. Return(q, i)
        BY <1>1, <2>2 DEF LookForInvariants, AfterInvariants, BatchStart
      <3>2. PICK p : Ends(q, i, p, "returned")
        BY <1>0, <3>1, ReturnIs
      <3>3. QED BY <2>1, <2>2, <3>2, BatchStays DEF Ends, Goes
    <2>3. CASE ~(DOMAIN copied[q] # {} \/ Pinned(q).invariants = <<>>)
      <3> DEFINE p == [plan[q][i] EXCEPT !.pc = "copy", !.next = 1]
      <3>1. plan' = [plan EXCEPT ![q][i].pc = "copy", ![q][i].next = 1]
        BY <1>1, <2>3 DEF LookForInvariants
      <3>2. plan' = [plan EXCEPT ![q][i] = p]
        BY <1>0, <3>1 DEF PlanningTypeOK
      <3>3. /\ p \in PlanRecord /\ p.pc = "copy" /\ p.next = 1 /\ p.sheet = plan[q][i].sheet
            /\ p.by = plan[q][i].by /\ p.awaited = plan[q][i].awaited
        BY <1>0 DEF PlanRecord
      <3> HIDE DEF p
      <3>4. Moves(q, i, p)
        BY <3>2, <3>3 DEF Moves
      <3>5. QED BY <2>1, <2>3, <3>3, <3>4, BatchStays
    <2>4. QED BY <2>2, <2>3
  <1>2. CASE CopyInvariant(q, i)
    <2> DEFINE n == plan[q][i].next
    <2>1. plan[q][i].pc = "copy" /\ UNCHANGED sheets
      BY <1>2 DEF CopyInvariant, Plans
    <2>2. DOMAIN copied'[q] = DOMAIN copied[q] \cup {Pinned(q).invariants[n]}
      BY <1>0, <1>2 DEF CopyInvariant, Changed, PlanningTypeOK
    <2>3. CASE n = Len(Pinned(q).invariants)
      <3>1. Return(q, i)
        BY <1>2, <2>3 DEF CopyInvariant, AfterInvariants, BatchStart
      <3>2. PICK p : Ends(q, i, p, "returned")
        BY <1>0, <3>1, ReturnIs
      <3>3. QED BY <2>1, <2>2, <2>3, <3>2, CopyKeepsBatchRun DEF Ends, Goes
    <2>4. CASE n # Len(Pinned(q).invariants)
      <3> DEFINE p == [plan[q][i] EXCEPT !.next = n + 1]
      <3>1. plan' = [plan EXCEPT ![q][i] = p]
        BY <1>0, <1>2, <2>4 DEF CopyInvariant, PlanningTypeOK
      <3>2. /\ p \in PlanRecord /\ p.pc = "copy" /\ p.next = n + 1 /\ p.sheet = plan[q][i].sheet
            /\ p.by = plan[q][i].by /\ p.awaited = plan[q][i].awaited
        BY <1>0, <2>1 DEF PlanRecord
      <3> HIDE DEF p
      <3>3. Moves(q, i, p)
        BY <3>1, <3>2 DEF Moves
      <3>4. QED BY <2>1, <2>2, <2>4, <3>2, <3>3, CopyKeepsBatchRun
    <2>5. QED BY <2>3, <2>4
  <1>3. CASE CreateBatchSheet(q, i)
    <2>1. plan[q][i].pc = "batch" /\ UNCHANGED copied
      BY <1>3 DEF CreateBatchSheet, Plans
    <2>2. CASE Throw(q, i) /\ UNCHANGED sheets
      <3>1. PICK p : Ends(q, i, p, "threw")
        BY <1>0, <2>2, ThrowIs
      <3>2. QED BY <2>1, <2>2, <3>1, BatchStays DEF Ends, Goes
    <2>3. CASE ~(Throw(q, i) /\ UNCHANGED sheets)
      <3>0. PICK n \in Nat : n = Len(sheets[q]) + 1
        BY BatchStartIs
      <3> DEFINE p == [plan[q][i] EXCEPT !.pc = "records", !.sheet = n]
      <3>1. OpenSheet(q) /\ plan' = [plan EXCEPT ![q][i].pc = "records", ![q][i].sheet = n]
        BY <1>3, <2>3, <3>0 DEF CreateBatchSheet
      <3>2. plan' = [plan EXCEPT ![q][i] = p]
        BY <1>0, <3>1 DEF PlanningTypeOK
      <3>3. /\ p \in PlanRecord /\ p.pc = "records" /\ p.sheet = n
            /\ p.by = plan[q][i].by /\ p.awaited = plan[q][i].awaited
        BY <1>0, <3>2 DEF PlanRecord
      <3> HIDE DEF p
      <3>4. Moves(q, i, p)
        BY <3>2, <3>3 DEF Moves
      <3>5. QED BY <2>1, <3>0, <3>1, <3>3, <3>4, OpenKeepsBatchRun
    <2>4. QED BY <2>2, <2>3
  <1>4. CASE CreateRecord(q, i)
    <2> DEFINE pc == IF sheets[q][plan[q][i].sheet] + 1 = Entities THEN "look" ELSE "records"
    <2>1. /\ plan[q][i].pc = "records" /\ UNCHANGED copied
          /\ FillRow(q, plan[q][i].sheet) /\ Go(q, i, pc)
      BY <1>4 DEF CreateRecord, Plans
    <2>2. PICK p : Goes(q, i, p, pc)
      BY <1>0, <2>1, GoIs
    <2>3. QED BY <2>1, <2>2, FillKeepsBatchRun DEF Goes
  <1>5. CASE InsertRows(q, i) \/ MaterializeSheet(q, i) \/ MaterializeRows(q, i)
    BY <1>5
    DEF InsertRows, MaterializeSheet, MaterializeRows, Plans, BatchStart, BatchRun, InSheet
  <1>6. QED
    BY <1>1, <1>2, <1>3, <1>4, <1>5 DEF PlanStep

LEMMA PlanStepFrame ==
    ASSUME PlanningInv, NEW q \in Request, NEW i \in Slot, PlanStep(q, i)
    PROVE  PlanFrame(q) /\ UnderWay(q, i)
  <1>1. UNCHANGED vars \/ RecordFailure
    BY PlanStepsKeepQueue
  <1>2. PlanningTypeOK
    BY DEF PlanningInv
  <1>3. CASE InsertRows(q, i)
    BY <1>1, <1>2, <1>3 DEF InsertRows, Plans, UnderWay, PlanFrame, PlanningTypeOK
  <1>4. CASE LookForInvariants(q, i)
    BY <1>1, <1>2, <1>4 DEF LookForInvariants, Plans, UnderWay, PlanFrame, PlanningTypeOK, tableVars
  <1>5. CASE CopyInvariant(q, i)
    BY <1>1, <1>2, <1>5 DEF CopyInvariant, Plans, UnderWay, PlanFrame, PlanningTypeOK
  <1>6. CASE MaterializeSheet(q, i)
    BY <1>1, <1>2, <1>6, OpenSheetIs
    DEF MaterializeSheet, Plans, UnderWay, PlanFrame, PlanningTypeOK
  <1>7. CASE MaterializeRows(q, i)
    <2>1. sheets' = [sheets EXCEPT ![q][1] = Cardinality(DOMAIN rows[q])]
      BY <1>7 DEF MaterializeRows
    <2>2. Sent(q) /\ plan[q][i].pc = "cells" /\ Pins(q) /\ Built(q)
      BY <1>7
      DEF MaterializeRows, Plans, UnderWay, PlanningInv, PlansAreOfWorkers, DraftsSend, DraftSends,
          RunsAreBuilt
    <2>3. PlanRun(q)
      BY <2>2, PinnedShape DEF Built, BatchRun, InSheet
    <2>4. Cardinality(DOMAIN rows[q]) \in Nat
      <3>1. Cardinality(DOMAIN rows[q]) = Len(Pinned(q).rows)
        BY <2>2, <2>3 DEF PlanRun, Past
      <3>2. Pinned(q).rows \in Seq(LibraryRow)
        BY <2>2, PlanningAssumption DEF Pins, Pinned
      <3>3. QED BY <3>1, <3>2
    <2>5. sheets' \in [Request -> Seq(Nat)]
      <3>1. sheets \in [Request -> Seq(Nat)] /\ sheets[q] \in Seq(Nat)
        BY <1>2 DEF PlanningTypeOK
      <3>2. 1 \in DOMAIN sheets[q]
        BY <2>2, <2>3, <3>1 DEF PlanRun
      <3>3. [sheets[q] EXCEPT ![1] = Cardinality(DOMAIN rows[q])] \in Seq(Nat)
        BY <2>4, <3>1, <3>2
      <3>4. QED BY <2>1, <3>1, <3>3
    <2>6. QED
      BY <1>1, <1>2, <1>7, <2>1, <2>5
      DEF MaterializeRows, Plans, UnderWay, PlanFrame, PlanningTypeOK
  <1>8. CASE CreateBatchSheet(q, i)
    BY <1>1, <1>2, <1>8, OpenSheetIs
    DEF CreateBatchSheet, Plans, UnderWay, PlanFrame, PlanningTypeOK
  <1>9. CASE CreateRecord(q, i)
    BY <1>1, <1>2, <1>9, FillRowIs DEF CreateRecord, Plans, UnderWay, PlanFrame, PlanningTypeOK
  <1>10. QED
    BY <1>3, <1>4, <1>5, <1>6, <1>7, <1>8, <1>9 DEF PlanStep

LEMMA PlanStepKeepsInv ==
    ASSUME PlanningInv, NEW q \in Request, NEW i \in Slot, PlanStep(q, i) PROVE PlanningInv'
  <1>1. PlanFrame(q) /\ UnderWay(q, i)
    BY PlanStepFrame
  <1>2. Sent(q) /\ Pins(q) /\ Built(q)
    BY <1>1 DEF PlanningInv, PlansAreOfWorkers, DraftsSend, DraftSends, RunsAreBuilt
  <1>3. Pinned(q)' = Pinned(q)
    BY <1>1 DEF PlanFrame, draftVars, Pinned
  <1>4. CASE Pinned(q).shape = "batch"
    <2>1. BatchRun(q)' /\ \E p : Moves(q, i, p)
      BY <1>1, <1>2, <1>4, PlanStepKeepsBatchRun DEF BatchStart, Built
    <2>2. QED BY <1>1, <1>3, <1>4, <2>1, PlannedKeepsInv DEF Built
  <1>5. CASE Pinned(q).shape # "batch"
    <2>1. PlanRun(q)' /\ \E p : Moves(q, i, p)
      BY <1>1, <1>2, <1>5, PinnedShape, PlanStepKeepsPlanRun DEF PlanStart, Built
    <2>2. QED BY <1>1, <1>3, <1>5, <2>1, PlannedKeepsInv DEF Built
  <1>6. QED BY <1>4, <1>5

-----------------------------------------------------------------------------
(* The invariant holds.                                                    *)

LEMMA InitPlanningInv == InitPlanning => PlanningInv
  <1> SUFFICES ASSUME InitPlanning PROVE PlanningInv
    OBVIOUS
  <1>1. PICK s \in Scenes :
            /\ InitQueue(Message \ s.ready, s.deaths)
            /\ draft = [q \in Request |-> [pc |-> IF q \in s.asks THEN "asked" ELSE "none"]]
    BY DEF InitPlanning
  <1>2. s.deaths \in Nat /\ s.ready \cap Request = {} /\ Request \subseteq Message
    BY PlanningAssumption
  <1>3. QueueInv
    BY <1>1, <1>2, InitQueueInv
  <1>4. \A q \in Request : ~Sent(q)
    BY <1>1, <1>2 DEF InitQueue, Sent
  <1>5. (\A w \in Worker : Now(w) = Idle) /\ ran = {}
    BY <1>1 DEF InitQueue, Now, Fresh
  <1>6. PlanningTypeOK
    BY <1>1 DEF InitPlanning, PlanningTypeOK, PlanRecord, NoPlan
  <1>7. DraftsSend
    BY <1>1, <1>4 DEF InitPlanning, DraftsSend, DraftSends, Composing
  <1>8. HeldIsSent
    BY <1>5 DEF HeldIsSent, HasMessage, Idle
  <1>9. PlansAreOfWorkers
    BY <1>5 DEF InitPlanning, PlansAreOfWorkers, UnderWay, NoPlan, Idle
  <1>10. RunsAreBuilt
    BY <1>4 DEF RunsAreBuilt
  <1>11. QED
    BY <1>3, <1>6, <1>7, <1>8, <1>9, <1>10 DEF PlanningInv

LEMMA NextKeepsPlanningInv ==
    ASSUME PlanningInv, [NextPlanning]_allVars PROVE PlanningInv'
  <1>1. CASE \E w \in Worker : WorkerStep(w) \/ Drained(w)
    BY <1>1, CarryKeepsInv, StartMessageKeepsInv, SucceedMessageKeepsInv, FailMessageKeepsInv,
       TimeOutMessageKeepsInv DEF WorkerStep
  <1>2. CASE (\E m \in Message : Passing(m)) \/ UNCHANGED allVars
    BY <1>2, PassingKeepsInv
  <1>3. CASE \E q \in Request, i \in Slot : PlanStep(q, i)
    BY <1>3, PlanStepKeepsInv
  <1>4. CASE \E w \in Worker : CrashWorker(w)
    BY <1>4, CrashWorkerKeepsInv
  <1>5. CASE \E q \in Request : Drafting(q) \/ StartPress(q) \/ PressRow(q) \/ EndPress(q)
    BY <1>5, DraftingKeepsInv, PressKeepsInv
  <1>6. CASE \E v \in DOMAIN signals : RecordDraftEdit(v)
    BY <1>6, EditKeepsInv
  <1>7. QED
    BY <1>1, <1>2, <1>3, <1>4, <1>5, <1>6 DEF NextPlanning, GoingOn

LEMMA DoneIsWhole == ASSUME PlanningInv PROVE DoneRunsAreWhole
  <1>1. SUFFICES ASSUME NEW m \in Message, status[m] = "done"
                 PROVE  /\ m \in ran
                        /\ m \in Request /\ (Pinned(m).shape = "plan" \/ Undisturbed(m)) => Whole(m)
    BY DEF DoneRunsAreWhole
  <1>2. m \in ran
    BY <1>1 DEF PlanningInv, QueueInv, DoneWasRun
  <1>3. SUFFICES ASSUME m \in Request, Pinned(m).shape = "plan" \/ Undisturbed(m)
                 PROVE  Whole(m)
    BY <1>2
  <1>4. Pins(m) /\ Built(m)
    BY <1>1, <1>3 DEF PlanningInv, RunsAreBuilt, DraftsSend, DraftSends, Sent
  <1>5. CASE Pinned(m).shape = "plan"
    BY <1>2, <1>4, <1>5 DEF Built, PlanRun
  <1>6. CASE Pinned(m).shape # "plan"
    <2>1. Pinned(m).shape = "batch" /\ BatchRun(m) /\ Undisturbed(m)
      BY <1>3, <1>4, <1>6, PinnedShape DEF Built
    <2>2. \A i \in Slot : plan[m][i].pc # "copy"
      BY <2>1 DEF Undisturbed, NoPlan
    <2>3. \E n \in DOMAIN sheets[m] : sheets[m][n] = Entities
      BY <1>2, <2>1 DEF BatchRun
    <2>4. AllCopied(m) \/ Pinned(m).invariants = <<>>
      BY <1>2, <2>1, <2>2 DEF BatchRun, Undisturbed
    <2>5. \A n \in DOMAIN Pinned(m).invariants : Pinned(m).invariants[n] \in DOMAIN copied[m]
      BY <1>4, <2>4, PinnedShape DEF AllCopied, CopiedUpTo
    <2>6. QED BY <2>1, <2>3, <2>5 DEF Whole
  <1>7. QED BY <1>5, <1>6

-----------------------------------------------------------------------------
(* The theorems.                                                           *)

\* A batch, a lease and a row lock are what they are said to be in every state of the
\* queue that planning drives.
THEOREM TypeCorrect == SpecPlanning => []TypeOK
  <1>1. ClaimInv => TypeOK
    BY DEF ClaimInv, QueueInv
  <1>2. QED BY <1>1, PlanningKeepsClaimInv, PTL

\* claim() and settleMessage() of lib/runtime/queue.ts: as long as the lease of a
\* message has not run out under a worker that was alive, one worker at most holds it,
\* for two claims that are open at a time have no row in common, what a claim has
\* locked stays free until it commits, and whoever holds a message is the one that
\* leased it, so nobody else settles it.
THEOREM OneHoldsIt == SpecPlanning => []HeldByOne
  <1>1. ClaimInv => HeldByOne
    BY DEF ClaimInv, HoldersLease, HeldByOne
  <1>2. QED BY <1>1, PlanningKeepsClaimInv, PTL

\* claim() counts an attempt and compares none, settleMessage() compares and counts
\* none: still a message whose lease never ran out under a worker is claimed at most as
\* often as max_attempts says, and once more for each worker that died.
THEOREM AttemptsAreBounded == SpecPlanning => []ClaimsAreBounded
  <1>1. ClaimInv => ClaimsAreBounded
    BY DEF ClaimInv, TriesAreCounted, ClaimsAreBounded
  <1>2. QED BY <1>1, PlanningKeepsClaimInv, PTL

\* plan() of inngest/functions/plan.ts, which a message of the queue starts: when the
\* message is done, the run has every row, invariant and sheet that its workflow
\* lists, and once.  What has to be shown is that of all the plans of a run one alone
\* gets past its rows, that it does the rest in order, that a message is done only
\* after a plan of it came to its end, and that a later attempt, which fails on the
\* rows, or finds them, takes nothing away.
THEOREM DoneMeansWhole == SpecPlanning => []DoneRunsAreWhole
  <1>1. PlanningInv => DoneRunsAreWhole
    BY DoneIsWhole
  <1>2. PlanningInv /\ [NextPlanning]_allVars => PlanningInv'
    BY NextKeepsPlanningInv
  <1>3. QED BY InitPlanningInv, <1>1, <1>2, PTL DEF SpecPlanning
=============================================================================
