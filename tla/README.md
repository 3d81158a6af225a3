# A verification of the Work Ledger

TLA+ models of the Work Ledger, the TLC configurations that check them on small
instances, and proofs, checked by TLAPS, of what its ledger, its functions, its queue
and plans, its memory and its sheets promise for every number of rows, workers, calls
and files.

The Work Ledger (`src/`) is a durable record of work that people and agents share.
A *run* is a sheet of *rows* (also called contracts); each row has a state, and
every change of it goes through one function, `transition()`, which appends to a
hash chained log. Event-driven functions carry a row from its assignment over an
agent's work, its check and a person's approval to done. Around them, asks are
planned into runs, sheets of cells are edited by people, agents and formulas, a
memory is built from a firm's files and questions are answered from it, and runs
are rehearsed before a definition is changed.

## 1. The system

| Component | State it keeps | Operations | Talks to | What is hard |
|---|---|---|---|---|
| State machine `lib/ledger/state.ts`, `contracts.ts` | `contracts.state`, `attempts`, check results, evidence, worker status | `transition` (nine refusals), `recordCheckResult`, `attachEvidence` | everybody calls it | long histories of hand backs, routing and reopening; blockers that move meanwhile |
| Sheet invariants `invariants.ts` | `invariants` of a run | judged inside every transition | `transition`, outputs of rows | names that resolve to nothing; a target replaced after the gates |
| Chain `hash.ts`, `replay.ts`, `audit.ts` | the `transitions` table | append, verify, replay as of an instant | written by `transition` only | concurrent appends, times taken before the lock |
| Transactions of `transition` | the advisory lock, rows read under read committed | one per move | Postgres | interleaved statements, death before the commit |
| `agentStep` | invocation state; outputs | on `contract/assigned`: start, work, write outputs, hand over; three tries | `transition`, agents, chat | stale reads across awaits, a second loop on a row |
| `runChecks` | invocation state; check results, inputs | on `completed_pending_check`: verify, ask a person, hand back, give up | `transition`, checks, `agentStep` | retries counted in the row; inputs written back |
| `unblock`, `deadlines` | invocation state; `runs.status` | on `contract/verified`: close the row, release dependents, close the run; escalate overdue rows | `transition`, `agentStep` | two passes at the same time, stale lists |
| `approvals`, `settleApproval` | a waiter per waiting row | watch a window, settle a press | chat, the approve route | a press racing a timeout, another press or a new attempt |
| Dispatcher, `move` | waiters, invocations, memoised steps | `send`, `start`, `settle`, `waitForEvent` | all functions | an event is delivered to every function, in no order |
| Contracting, sheet edits, typed states | inputs, the run | `contractRun`, `editCell`, the transition route | `transition`, the dispatcher | a person acts while functions are between two awaits |
| Revocation | worker status | the route toggles it; `revoke` escalates open rows | `transition` | a list read before it is used, two toggles |
| Interop `mcp.ts`, `workerKinds.ts` | outputs, evidence, proposals | the tools of a token, the watch of a chat account | `transition`, the dispatcher | a tool acts on a row the functions hold; an answer after the time-out |
| Database queue and worker | `queue_messages` | `enqueue`, `claim`, `settleMessage`, `drain` | Postgres, the dispatcher | leases that expire, workers that die, late settles, drains that end before the queue does |
| Planning `planner.ts`, `compose.ts`, `plan.ts` | runs, workflows, rows, invariants, sheets | draft an ask from the library or compose it, write its rows, plan its run | the queue, contracting | a plan that dies or is delivered again; two asks that compose one version; a person who contracts meanwhile |
| Cells `cells.ts`, `model.ts`, `formula.ts`, `edit.ts`, `agentCell.ts`, `refresh.ts` | an append-only log of cells, proposals, columns, rows | write, propose, decide, recompute, add | formulas, column runs | check-then-act on cells and proposals, recompute from a snapshot |
| Column runs `runColumn.ts` | contracts of a column | contract a row for each record and announce it | `transition`, agents | two runs of one column race for a key |
| Capture `capture.ts` | captured items, questions, Inboxes | match, file, ask, answer | cells, rows | a question answered twice or as something else |
| Rules `engine.ts`, `rules.ts` | drafts | the daily sweep | formulas, cells | conditions read before other writes |
| Sharing `sharing.ts` | shares, invited workers | grant, revoke, access | sheets and rows | re-sharing, revocation in between |
| Memory `pipeline.ts` | events, texts, links, facts with two clocks, chunks | a pass over the files of a firm | the corpus | a fact handed over by two statements at an instant taken before them, a pass that dies, files that arrive out of order |
| Memory reads `compiler.ts`, `engines.ts`, `integrity.ts`, `ask.ts` | none | compile a bundle for a task, compute, answer, report | the memory | scopes, budgets and limits that cut in the right order, instants in the past |
| Rehearsal `rehearse.ts` | a namespace of copied rows | run again, replay what people did, compare | the functions | the order of the replay |
| Checks, connectors, providers, telemetry, audit pages, app, scripts | none the ledger depends on | calls out, reads, formatting | | |

What makes them correct: nothing is settled that was not proven, and by the person
it needs; the log agrees with the state and cannot fork; a row is worked by one
loop, a bounded number of times, on what it was last asked; nothing that can go on
is forgotten; a message is worked until it is settled, by one worker at a time as long
as its leases last, and a bounded number of times; a run that was planned is whole, and
what was drafted is what was written or its definition is that of another ask; an agent
never writes over a person, a decision stands once and nothing captured is lost; the
memory has one value of a fact at any instant, its past does not change, and what is
answered from it is known, in scope and sourced; a grant goes back to somebody who
held what it gives.

## 2. Modules

    StateMachine --- Ledger --- Invariants         RowChain (abstract; Ledger and
         |      \      \------- LedgerProofs                 LedgerTx implement it)
         |       \-- LedgerTx --- LedgerTxProofs
        Jobs --- AgentStep, RunChecks, Unblock, Approvals, Surfaces, Outside
                                         \--- Runtime --- WorkAsk --- Rehearsal
                                                                \--- RuntimeProofs

    Queue, Planner --- Planning --- PlanningProofs --- DraftProofs

    Values --- Cells --- Grid --- Capture, Rules, ColumnRun, Sharing --- Sheet --- SheetProofs
         \--- Formula                                                       \--- MCSheet

    Memory, Engines --- Compiler --- Ask --- Integrity --- MemoryProofs

**The ledger**

* **StateMachine** is `transition()` without its storage: `Permitted(r, to, a)` is
  the conjunction of the refusals, in the order of the code; `FinalState` the
  routing by an `escalate` verdict; `Land` the update of the row. The writes around
  it (`RecordPass`, `AttachEvidence`, `ToggleStatus`) are its other operations. The
  verdict of the sheet invariants is one of a set `Verdict[r]`, chosen at each move.
* **Ledger** adds the `transitions` table as a chain for each row and lets anybody
  ask for any move at any time: what it shows, `transition()` guarantees alone,
  however its callers behave. `FromState` is the code's rule by which the first
  entry has no `from_state`.
* **Invariants** computes the verdict instead: the definitions of a workflow are
  expressions over the row, the actor and the payload of a move; `Resolve` follows
  the names, in the inputs of the row first (`Given`), `Says` is a term, and what resolves
  to nothing says nothing. A value that may be undefined is a set of at most one.
* **RowChain** is what a reader of the table is promised: histories that grow by one
  entry, along the listed edges or to a person, with work starting only behind
  verified blockers.
* **LedgerTx** cuts the same function at its statements: the time, the lock, the
  contract, the actor, the gates, the tail, the commit. Other transactions, results
  and revocations run between them, and a transaction may die at any of them. A hash is
  the structure it is taken of, `VerifyChainRows` recomputes it, and `ReplayRow` reads a
  row as of an instant.

**The functions**

* **Jobs** holds what they run on: `pending`, the events sent and not handled;
  `job`, the invocations with what each has read; and `move()`, whose callers look at
  `ok` and not at the state the row landed in. Contents of rows are versions: inputs
  count edits, outputs say from which inputs and attempt they come.
* **AgentStep, RunChecks, Unblock, Approvals** have one action for each piece of a
  handler between two awaits. An action that moves a row includes the event `move()`
  sends after it and the early return when it is refused.
* **Surfaces** are the people: contracting a run, editing a cell, typing a state,
  and the sweep of the deadlines.
* **Outside** is what reaches the rows from elsewhere: the revoke route and its
  function, the tools of an MCP worker that move rows (`claim_row`,
  `submit_output`, `ask_approval`), and a row handed to a chat account
  with its reply and its time-out. Each holds a slot and has one action per await.
* **Runtime** composes them; its state is the union of theirs.
* **WorkAsk** is the ask surface on questions about work, *what needs me*, *where*,
  *why* and *who*, as operators over the rows and what is kept of their chains.
* **Rehearsal** records a run of Runtime that came to rest and rehearses it: the
  functions run again on fresh rows, the work and the decisions of people are
  replayed pass by pass, and the rows that break are compared.

**Planning**

* **Queue** is the database queue with its worker: leases are `none`, `held` or
  `expired`, `locked` are the row locks of an open claim, `failures` what the dispatcher
  of a process has on record. A drain is a call somebody makes (`Drain`) and ends at the
  first claim that finds nothing (`EndDrain`). `overran` remembers the messages whose
  lease ran out under a live worker.
* **Planner** holds the pure parts of a draft: the workflow an ask matches, the rows a
  composed one has, the owner proposed for each, what is uncertain, and the three
  questions that are asked of it.
* **Planning** drafts asks statement by statement, stores a composed definition whole
  (name, version, keys, shape, owners and whose it is) unless that version is there,
  plans the runs inside the worker that claims their message, and lets a person contract
  at any moment.

**The sheet**

* **Values** are the values of a cell; **Formula** is the parser (precedence climbing
  over tokens) and the evaluator, with the values a blank, a text or a date takes in
  arithmetic. The parser is recursive, and nothing the calls do to the tables depends on
  what a formula evaluates to, so the other modules take the evaluator as a parameter,
  `FormulaValue`, which the configuration sets to `EvaluateFormula`.
* **Cells** is the log of cells with who wrote each and from what, `AgentMayWrite`,
  proposals, and the recompute that follows a write cell by cell; every call of a
  person, an agent or a function is a job with one action per statement.
* **Grid** adds rows, columns, decisions, edits, refreshes and the proposals of an
  outside worker; **Capture**, **Rules**, **ColumnRun** and **Sharing** the operations of
  their files; **Sheet** composes them.

**The memory**

* **Memory** is a pass over the files, one action for each statement that writes, and
  the select of the facts of an instant. The instant of a handover is taken by a step of
  its own (`BeginHandover`) before its first statement. A file is a path with its
  content; what its extractors find is a sequence of attributes, and the ladder of
  `resolve` is `Resolved(f)`. Only `scripts/memory.ts` runs a pass, so one runs at a
  time.
* **Engines**, **Compiler** and **Ask** are the computation of a covenant, the bundle
  packed into its budget in the order of the code (entities, facts, computations,
  passages that are in scope, ranked and cut at the limit), and the answer drawn from
  it; `GetContext` is the same for a token. They are operators over the state of Memory,
  so they are asked at every moment of a pass.
* **Integrity** is the report of the integrity suite over the same tables.

The MC modules give the constants their values, and where one configuration holds
several small instances, the *scene* is chosen at the start. In a module, an operator
marked *Mutant* is a plausible bug in the definition after it; no specification uses
one.

## 3. Runs

Passing runs:

| Run | Checks | Shows |
|---|---|---|
| Ledger | ChainLinked, SettledIsProven, StartedBehindVerified, Promise, MailLeavesApproved | a row with evidence and a person's check under every order of moves; a row that blocks another under routed moves, with the refinement of RowChain; and a row of mail under the invariants of `workflows/*.yaml` |
| Tx | ChainsVerify, NoLostAttempt, Promise, EveryCallEnds | five concurrent transactions on two rows, one of which may die anywhere: chains neither break nor fork, read committed still implements RowChain, and every call is answered |
| Agents | OneLoopPerRow, SettledOutputsPassed, RunSettles, DependentsAreReleased, DoneRunIsClosed | two rows worked at the same time that block a third |
| People | QuietMeansResting, RetriesAreBounded, WaitingIsWatched, DecisionsAreKnown, RehearsalBreaksNothing | a person's row, behind it an agent's that a person settles, behind that a row of nobody and a decision, with a press, a sweep and escalating verdicts; then the rehearsal of what came of it |
| Touched | QuietMeansResting, RevokedIsAtRest | one row under three acts at any moment: an edit, a press, a typed state, two toggles of its worker, calls of the tools, and the chat account it may be handed to |
| Queue | DoneRunsAreWhole, DraftsAreWhatTheySay, EveryMessageSettles, HeldByOne, ClaimsAreBounded | two workers on two messages of a batch with a death anywhere; asks that match the library or are composed, drafted, planned and contracted meanwhile, with plans that die, time out and are delivered again, and two asks that compose the same version |
| Memory | NeverTwoFacts, NeverAGap, LatestStands, FactsWrittenOnce, AnswersAreGrounded, MemoryAddsUp, PastIsStable, LandedIsProjected | four files that arrive at any moment, two passes, one of which may die anywhere; three questions asked at every moment of it, as of every instant, and the integrity report |
| Sheet | FormulasFollow, AgentKeepsEdits, DecisionsHold, NothingCapturedIsLost, ContractedIsAnnounced, GrantsTraceToMembers | two to four calls on a sheet at every interleaving of their statements |

Runs that show a disagreement between the code and what the repository says of it.
Each checks one property, and the counterexample is a behaviour of the program:

| Run | Property | What happens |
|---|---|---|
| Replay | ReplayIsAPrefix | the time is taken before the lock, so a replay as of an instant may skip an entry |
| Released | RetriesAreBounded | two passes release the same row, the second after it was escalated |
| Guessed | QuarantineIsNotGuessed | a file that names two deals is quarantined, and its facts are written to one of them all the same |
| Cumulative | FailedHasFailed | after one failure, every later message of the process is settled as failed |

Some algorithms are checked against a reference inside these runs: `FormulasFollow`
compares what the parser and evaluator leave in a formula column with `Meaning`, its
intended value written directly over the grid, and `Fires` a rule with what its
condition means; `AnswersAreGrounded` compares a bundle with all that is known in
scope; `DraftsAreWhatTheySay` the proposed owners with the workers' tools.

Where the code does less than one might expect, a property says exactly what holds
and its comment names the exception, or the bounds keep the case out:

*The ledger*

* an `escalate` verdict moves a row along an edge the table does not list (done to
  escalated), so `RowChain` allows a step to a person from everywhere; it routes a
  person's verification too, so such a row is never settled;
* a waiting row that is escalated may be verified by a person who is none of its
  approvers, which is why `SettledIsProven` says "a person"; `who` then says that
  nobody has approved it (`DecisionsAreKnown`);
* a worker revoked after the transaction read it is still the actor of the move;
* a row whose outputs say `sent` can be moved by nothing but a person's verification:
  not handed back, not escalated from a revoked worker and not closed to done, so its
  run is never closed (`MailLeavesApproved`);
* a column run's rows have keys `column:record`, which no definition of `kl_*.yaml`
  names, and no caller sends a `role_profile`: those invariants never speak.

*The functions*

* an edit starts a second loop on a row whose agent is at work, and the first then
  writes its outputs over those that were checked (no edit in Agents); two hand backs
  that were read together do the same (one press in People);
* a row verified from the sheet releases no one, since its route sends no
  `contract/verified`; and a row released while its blocker was settled stays
  contracted if the blocker is reopened before its agent starts;
* a row contracted early in a run and worked at once can be settled before its
  dependents are blocked, which then stay blocked (in People a person works only
  when the plan is contracted);
* a failing check writes back the inputs it read, so an edit in between is lost;
* a second hand back by a press meets the row in progress and assigns it again, and
  an approval may meet the attempt after the one it was asked about;
* a start that was routed to a person counts as started, and the agent works;
* revoking moves an escalated row back to contracted when the function that
  contracts it read the row earlier; two toggles that read the same status store the
  same; nobody is left to escalate to when Maya herself is revoked, so she is not
  `Revocable`; and a worker revoked inside an attempt finishes it;
* `submit_output` and a reply of a chat account write the outputs of a row whatever
  its state, also a settled one; `ask_approval` may be called by any token; a claim or
  a reply without evidence leaves a row that nobody assigns, and a check that passed
  without the evidence its row requires leaves it before the gate, since the refusal of
  the move ends the function (`QuietMeansResting` names these);
* an agent's escalated row is on nobody's *what needs me* list but the agent's own;
* a rehearsal of an unchanged definition may report rows that break: only the first
  decision on a row is replayed, one made after an escalation is not found, and a
  person's row behind a decision opens after the work was replayed
  (`RehearsalBreaksNothing` names these). `tests/rehearsal.test.ts:112` expects none.

*Planning and the queue*

* `queue.ts:14-16` says that two workers never run the same message. They do: nothing
  renews a lease, so it may run out under a live worker while another claims the
  message; and the first worker, settling late, frees the message under the unexpired
  lease of the second, since the update does not ask who holds it (`queue.ts:109-119`),
  and may claim it again. `HeldByOne` says what is left: a message whose lease never
  ran out under a live worker is at one worker at most;
* `max_attempts` is compared when a failure is settled and not at a claim, so each death
  may cost one attempt more (`ClaimsAreBounded`, again but for leases that ran out);
* a drain ends at the first empty claim (`worker.ts:42`), with messages backing off or
  leased by a dead worker still to come, and nothing in the code calls it again: that every
  drain ends is shown without a condition, that each message settles on condition
  that somebody drains what is neglected (`EveryMessageSettles`, section 5);
* a plan that dies between its rows and their invariants leaves rows that can be
  contracted without them, and each later attempt throws on the keys, so its message
  fails; a batch plan delivered again makes a second sheet (`DoneRunsAreWhole`);
* two composed asks of one family that read the same versions: the definition of the
  second is dropped by its conflict (`planner.ts:169`), and its run pins the one of the
  other ask, with that ask's shape and owners, though its own answer and rows are by its
  own. `DraftsAreWhatTheySay` allows this where that version was stored after the
  second ask had read (`PinsItsOwn`), and nothing else;
* what is uncertain is cut to three questions (`planner.ts:115`), so a step without an
  owner may go unasked when as many stand before it (`IsAsked`); and the rows of a draft
  are there before they are blocked.

*The sheet*

* an accepted proposal may be overwritten by an agent, since only cells set by an
  edit are kept (`AgentKeepsEdits` is about those), as may a cell typed between the
  look of an agent and its write;
* a decided proposal, a rule's draft and an import do not recompute, two recomputes
  that cross leave the older value, and a formula of a formula lags
  (`FormulasFollow` is about a recompute that nothing crosses);
* a sweep writes one draft for each cell: the step of a draft is named for its row and
  column, and a step that was taken is not taken again (`dispatcher.ts:152-153`);
* two people who answer one proposal at the same time may both be taken, so
  `DecisionsHold` promises one answer where no two calls cross, and whatever
  crosses only that a person accepted what came of it;
* a row question accepted through the route of proposals files nothing; a captured
  item that matches becomes a row too (`NothingCapturedIsLost`);
* of two runs of one column the second throws on a key before it announces what it
  contracted (`ContractedIsAnnounced`);
* a grant counts expired shares and does not compare the access level, revoking is
  not transitive, any person may revoke any share, and only `GET /api/shares` asks
  for access (`GrantsTraceToMembers` says what remains).

*The memory*

* an event whose pass died after it landed is never worked again, and the integrity
  report never accounts for it (`LandedIsProjected`, `MemoryAddsUp`); a file that
  arrives for a later pass supersedes facts of younger ones (`LatestStands`);
* the instant of a handover is taken before its two statements (`pipeline.ts:477-478`),
  so a read as of that instant or later finds the older fact until the first is
  committed, none until the second, and then the newer: to `PastIsStable` such
  an instant is not past yet (`Past`), and `NeverAGap` excepts it;
* what does not fit the budget is neither quoted nor missing; an engine's inputs are
  keyed by their attribute alone; a breach of unknown levels is reported as none; an
  alias two entities share names neither;
* the count of what was withheld is of the whole organisation.

## 4. Bounds, and why they are enough

* **Ledger**: the first scene has one row with required evidence and a person's check
  and up to five moves (`MaxMoves`) by an agent and a person, which reach done,
  reopened and on; only the agent is revoked. The second has two rows and one person,
  four moves of the blocker and two of the row that waits, so that it starts, its
  blocker is reopened, and it is routed. In the third the invariants of the workflows
  judge one row, four moves, whose outputs change at any moment. A settled row with two
  failed attempts takes more moves and is in the runs of the functions; the proofs
  have no bound.
* **Workers**: an agent, an approver and a person who is none: the kinds the gates
  tell apart.
* **Transactions**: two rows need five for a blocker to be verified, reopened and
  started behind. `MaxDeaths` is one: a dead transaction releases what it held, and a
  second death differs only in whom it takes. `LastTime` caps the clock, and is zero
  where times do not matter.
* **Rows of the functions**: three, where two blockers race; four in People, so that
  there is a row before and two behind the one in question; one in Touched.
* **Attempts** (`MaxAttempts`): two, so that there is a retry and an end of retries;
  one in Touched, where a hand back meets the end of retries at once.
* **Slots**: two or three invocations at the same time. More can only wait longer in
  `pending`.
* **Acts**: `MaxActs` is what people and outsiders do in a behaviour, three in Touched,
  and `MaxPressed`, `MaxEdits`, `MaxTyped`, `MaxSweeps`, `MaxToggles` and `MaxCalls` say
  how often each thing: three different acts, or two of a kind, cross each other at
  every await. `MAX_PRESSES` is 20 in the code and `MaxPresses` one or two here, so that
  the watcher's limit is reached.
* **Rehearsal**: `MaxPasses` is four, as in the code. A person works a row once, after
  the plan was contracted.
* **Queue**: tries are one or two (`MaxTries`: one for a plain message and for either
  batch ask), and a scene has at most one death (`MaxCrashes` and the scene's), so that a
  message exceeds its tries by a death. `tries` is counted to one more than any
  comparison tells apart (`MostTries`). A batch of two (`Limit`) has a message that waits
  under a running lease. A drain takes no more than 200 batches in the code
  (`worker.ts:36`), which no bound here comes near; one that ended there is a drain that
  ended and may be called again.
* **Planning**: the scenes are two plain messages; an ask of the library with a plan of
  two rows; one with a batch sheet and a death; two composed asks of one family, a
  plan and a list, which may compose the same version; and two of two families, with fewer
  workers than steps. `MaxPlans` two plans of a run cross,
  by a message handed out again; the first only is `Pressed`. `signals` is how often a
  default was corrected, one or two, and `MaxEdits` lets it grow.
* **Sheet**: 33 calls, of which a scene runs two, three or four: the pairs that touch
  the same cell, row, column, key or proposal, threes where a proposal is answered
  twice, and chains of grants over two outsiders. Sheets of two rows and seven columns,
  of a batch and of a plan. One capture
  is sent for the sheet itself, one grant expires. Calls that touch nothing in common do not
  disturb each other.
  `alone` records that no two calls have been under way together.
* **Memory**: two passes, so that the second meets what the first did or left; one
  death (`MaxCrashes`); three instants (`LastTime`), before, at and after a handover.
  The four files have every outcome of the ladder, a file older than one that sorts
  before it, and a decision between two facts; a person's sample names the deal of each
  file that is not ambiguous. The budget (`Budget`) holds three facts and
  a computation, or fewer and passages, and `Limit` one passage, so both cut.

Deadlock is checked in the ledger modules, where somebody can always be revoked or
every call has ended, and in the sheet, where the only state without a step is the one
in which every call has ended. The runtime, the queue and the memory really stop when
nothing is left to do, so their configurations turn the check off, and
`QuietMeansResting` says where they may stop: in a run in which nobody typed a state,
every row is done, escalated, a person's, blocked by a row that is not settled, or one
of the exceptions it names.

## 5. Fairness

* **LedgerTx**: weak fairness of each transaction's step. One that waits for the lock
  gets it, since each transaction runs once and the others end: the lock is free from
  some time on. A death is never fair.
* **Runtime**: weak fairness of each slot. The event loop runs every promise that is
  resolved; a model or a check answers or throws; a window closes by its timer. No
  fairness is assumed of people, of sweeps, of calls from outside or of which outcome a
  step has. People, Touched and the rehearsal check safety only.
* **Queue and Planning**: weak fairness of what goes on by itself taken as one: some
  drain that was begun, plan, lease or back off moves while any can. Since all of these
  are finite chains, nothing stronger is needed for every drain to end. Calling `drain()`
  is not fair: in a deployed process nothing does it (only the tests and
  `scripts/parity.ts:111`, and each drain ends at the first empty claim), so that a
  message which backs off, or whose worker died, is worked again is a hypothesis of
  `EveryMessageSettles`: the queue is not neglected for ever, where `Neglected` says that
  a message can be claimed and nobody drains. A crash is never fair and is bounded;
  nobody has to ask, press or correct.
* **Memory**: a pass that has begun goes on (weak fairness of `RunPipeline`, a single
  chain of awaits). Nothing makes anybody begin one.
* **Sheet**: none; its properties are of states and steps.

## 6. Proofs

Every theorem below is for all values of the constants that satisfy the named
assumptions of the modules (`ConstantsAssumption` of StateMachine and its like), which TLC
evaluates in every run, and for nothing else. Each proof module has its inductive
invariant at its head, in named parts; TLC checked each of them on the run of its
module before it was proved.

| Module | Theorem | States |
|---|---|---|
| LedgerProofs | TypeCorrect | `[]TypeOK` |
| | ChainsAreLinked | `[]ChainLinked`: state and chain agree, entries follow each other |
| | SettledRowsAreProven | `[]SettledIsProven` |
| | WorkStartsBehindVerified | `[]StartedBehindVerified` |
| | AttemptsCountStarts | `[]AttemptsAreStarts` |
| | Implements | `Spec => Promise`: the ledger implements RowChain |
| | MailsLeaveApproved | `JudgedSpec => MailLeavesApproved`, if `MailGuarded` |
| LedgerTxProofs | TypeCorrect | `[]TypeOK` |
| | ChainsAlwaysVerify | `[]ChainsVerify`: chains verify at every moment, the unique index never objects |
| | AttemptsAreCounted | `[]NoLostAttempt` |
| | Implements | `Spec => Promise`: the statements of all transactions together implement RowChain |
| RuntimeProofs | TypeCorrect | `[]TypeOK`, where there are rows |
| | WaitingRowsAreWatched | `[]WaitingIsWatched`, if `NeverBlocked`, until a state is typed or a worker toggled |
| | RevokedRowsRest | `[]RevokedIsAtRest`, if `NeverBlocked` and `NobodyElse` |
| | OneLoopAtATime | `[](Undisturbed => OneLoopPerRow)`, if always `ReleasedFromBlocked` |
| | DoneMeansProven | `[](Undisturbed => SettledOutputsPassed)`, likewise |
| | AttemptsAreBounded | `[](Undisturbed => RetriesAreBounded)`, likewise, where `MaxAttempts` is at least one |
| | DecisionsKnown | `[](Undisturbed => DecisionsAreKnown)`, likewise, with one press at most, while a run is not rehearsed |
| | NothingIsForgotten | `[]QuietMeansResting`, if `Staffed` and every step keeps `BlockersStay` and `BlockedInTime` |
| MemoryProofs | TypeCorrect | `[]TypeOK` |
| | NeverTwo | `[]NeverTwoFacts`: an instant never has two facts of an attribute |
| | PastStands | `PastIsStable`: no step changes what a past instant selects, one that no handover under way reaches |
| | NoGap | `[]NeverAGap`: nor does an instant lose its fact, where no pass died |
| | WrittenOnce | `[]FactsWrittenOnce` |
| | LatestWins | `[]LatestStands` |
| | ReportAddsUp | `[]MemoryAddsUp`, if `ReviewAgrees` |
| | AnswersGrounded | `[]AnswersAreGrounded` |
| PlanningProofs | TypeCorrect | the types of the queue, under planning |
| | OneHoldsIt | `[]HeldByOne`, for messages whose lease ran out under no live worker |
| | AttemptsAreBounded | `[]ClaimsAreBounded`, for the same messages |
| | DoneMeansWhole | `[]DoneRunsAreWhole` |
| DraftProofs | DraftsSayWhatIsWritten | `[]DraftsAreWhatTheySay`: a definition is the ask's own, or of one that stored it in between |
| SheetProofs | NothingIsLost | `[]NothingCapturedIsLost` |
| | WorkIsAnnounced | `[]ContractedIsAnnounced` |
| | GrantsComeFromMembers | `[]GrantsTraceToMembers` |
| | EditsAreKept | `AgentKeepsEdits`: no step of an agent overwrites what it should have seen |
| | PeopleDecide | `[]PeopleAccept`, the first half of `DecisionsHold` |
| | DecisionsStand | `[]DecisionsHold`, if `[]Tellable` |
| | FormulasMeanIt | `FormulasFollow`, if always `FormulasMean` and `ConditionsMean` |

**The ledger.** The argument is one chain of invariants. Types come first. `ChainLinked`
is inductive with them, and it is what lets the others speak of the state and of the
last entry interchangeably. `SettledIsProven` then holds because the only edges into
`verified` pass the gate, the only one into `done` leaves `verified`, and neither
results nor evidence are ever taken away; an escalate verdict changes the target to a
state that is not settled, so it can only make the claim vacuous.
`StartedBehindVerified` adds that chains only grow: a blocker that is settled now was
verified at some time (by `SettledIsProven`), and that stays in its chain however it is
reopened. `AttemptsAreStarts` counts a set that one entry extends by at most its own
index. The refinement maps each row's chain to the states in it; a transition is a step
of `RowChain!Extend` and anything else is a stutter.

That mails leave approved is a property of the judging and needs no invariant but the
types: whatever the other definitions of a workflow say, a move that is not blocked
satisfies the one that keeps the mail, and what that one says, followed through the
names of its expression, is that somebody approved and is a person (`MailJudged`). An
approval is the actor's own only when the row is verified, and a payload names its
actor; so the entry is a verification and its actor a person, whoever set the outputs
and when. `MailGuarded` says that the definition is among the workflow's and that those
that escalate speak of other rows, by names that no input of the row hides
(`EscalatesElsewhere`), so that the verification is not routed elsewhere; the
definitions of the run are such.

**Its transactions.** What `transition` reads it reads in several statements, and other
transactions commit between them. The invariant says what survives that: the lock of a
row is held by the one transaction past taking it (`LockIsHeld`), so the contract and
the last entry, as they were read, are what they are (`SeenIsCurrent`, `TailIsLast`),
and the gates it passed it still passes, except for the states of the blockers, which
have no lock; of those only that they were verified at some time (`GatesPassed`,
`SettledWasVerified`). From `TailIsLast` an insert continues the numbering
(`ChainsAreWhole`), so the index never objects, and the attempts written back from a
copy are right. The refinement is the same map as the ledger's, and rests on
`GatesPassed`: this is where the promise is as weak as it is about blockers.

**The functions.** Neither `OneLoopPerRow` nor what a settled row was checked for is
inductive: no function keeps either by itself, each trusts what it read before its last
await. What makes them true is that the event to take a row up, the loop that took it up,
the check of its outputs and the press that settles it are one baton, passed from one to
the next. `BatonInv` says that a row has at most one (`OneBaton`), in which states nobody
has it, so that a new one may be made (`Rests`), and what its holder read that is still so
(`AgentsRow` with `Knows`: the attempts and the outputs a check began with are those of
the row, and what waits for a press has passed). Each move is then one of three kinds: by
the holder, who passes the baton on or lays it down; of a row that rests, by contracting
or releasing it; or an escalation from outside, after which the holder's own next move
is refused or still right.

Its hypotheses are the cases where the code does otherwise. `Undisturbed`: nobody edited a
row, typed a state or called a tool, and one button was pressed at most; each of these makes
a second baton or lays down another's, as section 3 lists. `ReleasedFromBlocked`: when
`unblock` contracts a row it found ready earlier, the row is still blocked. The code does
not ask, and the run Released shows what follows. It is needed for one loop as well: let
two blockers be verified together, a deadline sweep escalate the row while its agent is
at work, and the second release contract it from there; TLC finds the second loop in
Agents when its bounds admit one sweep. The runs Agents and People have no such
sweep and check the properties without the hypothesis. That `MaxAttempts` is at least one
is the schema's (`definition.ts:29`); a start is refused only after the first.

Watching and stopping are proved from `Guarded`, of every behaviour. A waiting row keeps an
event or an invocation that will look at it (`Watching`), because whoever moves a row
there sends the event in the same step and whoever takes it up stays until it moved the
row on. A row of a revoked worker at work is on the list of a `revoke` under way, or one
has still to be told (`Stopping`): a row comes to work by a move of its owner, which is
refused from the revocation on, so after the list was read no row joins it. `NeverBlocked`
says that no sheet invariant blocks a move, since that would refuse the escalation
itself; `NobodyElse` that Maya is not revoked, as whom the escalation acts, and that no other
token moves the rows of a worker who may be.

That nothing is forgotten is proved from `RestInv`, of every run in which nobody typed a
state, whatever presses, edits, sweeps, toggles and calls there are. `AllHeld` says that a
row which may not rest is held: an invocation stands where it will move the row on from
the state it is in, or an event that starts one is on its way. This is not inductive
alone, since the invocation's move could be refused and the row left. A refused move has
six reasons (`WhyRefused`). That the actor is revoked puts the row among those a
revocation stops; that the edge is missing means that somebody else moved the row, who
then holds it; the approver and the gate are what `Informed` is about, what an
invocation read that stays so; and that a blocker is not settled is excluded by
`AllOpen`: what is taken up, or is about to be, is held up by nothing. The theorem
covers what the run's exceptions list (`MayRest`) and no more.

Its hypotheses again are what the code does not ask. `Staffed` is `NeverBlocked`,
`NobodyElse`, and that no person is revoked and the requester is one. `BlockersStay`: a
settled row is not taken back while another waits on it. `BlockedInTime`: no row is
blocked whose blockers are all settled. Without either a row is forgotten, and TLC finds
both in two rows, one behind the other, once the bounds admit a sweep, a call and a press:
a sweep that read its list before escalates a blocker verified since, the check hands the
dependent back, and its next start is refused and not tried again; or a row is escalated
by a sweep before contracting comes to its dependent, asked about from elsewhere and
approved, and contracting then blocks a row that nothing is left to release. The bounds
of Agents, People and Touched do not reach these.

What people are told of a row, who approved it and why it waited, is read from its
entries, so `DecisionsKnown` is about what entries were written. `Known` says that a
row a person must settle was approved in its chain, or was escalated, before it is
settled. It rests on the baton: the one press that settles such a row has
found it waiting and has not yet been crossed by another move, unless it was escalated
meanwhile (`PressesGo`); and a check of such a row cannot settle it, for it asks the
person (`ChecksWait`). "At most one press" is needed: two presses read together, the
first hands the row back and its retry reaches the check, the second then verifies an
attempt that nobody looked at. TLC finds that trace when `MaxPressed` is two. The
theorem is about the runtime as it runs; that a rehearsal of the same chain tells the
same is in the run People only.

**The memory.** `NeverTwoFacts` is not inductive: a handover whose pass died leaves no
current fact, and what a later insert may do depends on when the others ended. The
strengthening is `Timeline`: nothing lies ahead of the clock, each fact of an attribute
has ended no later than any later one begins, nothing is written between the instant of
a handover and its first statement (`HandoverIsReady`), and between its two statements
all facts of the attribute have ended by it. The first statement establishes that, the
second uses it, and a death only gives it up. Then two facts of one instant would
overlap, and a step can change only what lies at or after the instant of its handover.
That instant was taken earlier, and time has gone on since; so `PastIsStable` is about
`Past`, what no handover under way can still reach, and says too that what is past stays
so: a handover begun later takes a later instant. `NeverAGap` holds by the same
reasoning with the deaths excluded. That nothing is written twice and that the latest
document stands follow from an invariant on the work of a pass (`Worked`): what is due
has not been written, what is written lies where the pass has been, and both are in the
order of the times the world gave the files.

**The integrity report.** Its counts are right because each stage of a pass finds what
the one before it kept (`Staged`), and because an event that has no links yet is one a
pass has before it (`NoneIsForgotten`), which only a death gives up; that current facts
do not disagree is `NeverTwoFacts` at the present instant. `ReviewAgrees` is a
hypothesis of the theorem and no assumption of the model: where the reviewer of the
sample links a file to another deal than the ladder does, the report is there to say so.

**What is answered from the memory.** `AnswersAreGrounded` is about every state of the
tables, so its work is in the operators. Sorting by rank lists a finite set without
loss (`ByRank`: ranks differ, so the places of n facts are 1..n), for which facts and
passages must differ in what they are ordered by; of facts that is `NeverTwoFacts`, of
passages the order of the table. What fits in the room of a bundle is a beginning of
what is listed (`Room`), so a fact that is in scope and left out was left out for want
of room, and one that is told is current and in scope (`AnswersAreTrue`). A passage that
is left out is no better than one taken because the fused score grows with each of the
two ranks it is made of (`BetterScores`, a comparison of fractions). No induction over
a list is needed: a rank is one to one, and so onto as many numbers as there are facts.

**The queue and the plans.** Planning drives the queue: each of its steps is a step of
Queue, or puts a failure on a worker's record, so the invariant of the queue
(`QueueInv`) is proved of such steps first. It says that the rows locked are those of
the claims open (`LocksAreOfBatches`), that only a claimed message is leased, and that
what a claim has selected is still free to take (`SelectedIsFree`), which is `FOR UPDATE
SKIP LOCKED` at work. What holds of messages one at a time is `ClaimInv` on top of it,
for those that never overran: whoever holds a message has it leased, with the lease
running (`HoldersLease`), so no claim can select it and no other worker settle it, which
is `HeldByOne`; and `TriesAreCounted` pays each claim with an attempt that a settlement
compared or with a death. The first lease that runs out under its worker breaks both, of
that message only: its late settlement is what frees it under the next. `PlanningInv`
adds where a message came from (`DraftsSend`, `HeldIsSent`), that a plan under way is
one a worker started for a message that was sent (`PlansAreOfWorkers`), and what each
plan has done by the place it is at (`RunsAreBuilt`): of the plans of a run only one
passes the unique keys of the rows, and it does the rest in order.

**The drafts.** `DraftInv` says of a draft at each place what it has written by then,
and of a press what it read of that. `workflows` only grows, and has a name and version
at most once; so a draft whose definition was not taken finds there one that is not
among the versions it had `seen`, and that is the one its run pins. It uses of the plans
that none is under way for a message that was not sent: so nothing but its own draft
writes the rows of a composed ask. Presses may come at any statement; those that come
before the draft is answered are `early`, and the invariant keeps them apart.

**The sheet.** Any number of calls of any kind meet at every statement, so `SheetInv` says
of each job, by the place where it stands, what it knows that is still so (`Jobs`). Most
of it is that the tables only grow: the proof shows of every step that entries stay at
their places, questions stay questions until they are answered or decided, and the other
calls do not move (`Well`), and from that alone that they go on knowing what they knew.
Three parts say more. `AllKept`: a capture that is past its beginning has its item in an
Inbox, on a record, in an open question, in one decided otherwise, or in the hands of
a call that answered it and is about to file it; a second answer only files it again.
`AllTold`: a contract that is contracted and not announced is in the
list of a run of its column still under way, or that run threw. `Shared`: what a call is
about to grant its granter holds, by membership or by a grant that was made; since grants
stay in the table when they are revoked, `HeldBefore` survives the revocation that races
the grant, and says no more than that. For `AgentKeepsEdits` a job that is about to write
remembers how far the log had grown when it looked (`Looked`): the current cell was no
edit then, so an edit that is current now came after. The proof is for any evaluator of
formulas and any rules: formulas are written to formula columns alone.

Decisions need one more invariant. That people accepted what came from a proposal holds
whatever crosses, since a call comes to the insert by way of a decision of a person on a
cell that was proposed, and a proposal stays what it is. That it came once does not:
`decideProposal` reads the status in one statement and sets it in another, so two
decisions that cross may both be taken. `Answered` says, as long as no two calls have
crossed, that what is being decided is undecided (`Undecided`) and that a proposed cell is
on the sheet once if it is accepted and its insert is behind it, and else not at all
(`CameOnce`); `OneAtATime` is what "no two calls have crossed" means. `Tellable` is a
hypothesis because a cell on the sheet does not name the proposal it came from: two
proposals of the same value for the same cell, both accepted, leave two entries that
cannot be assigned. No two are the same in the run.

Formulas are followed over several statements: a recompute takes one snapshot and then
writes cell after cell, each write a step others could cross, and the property judges
the last of them. While nothing crosses, `Computes` says of the one recompute under way
that the sheet is its snapshot but for its own writes, which are all to formula cells,
and that every formula cell either has the value meant by the cells read or is still to
come and stands as it was read. A cell is skipped when the value is the one that stands
or cannot be read, and then what stands is what is meant; the least cell that changed is
written and those before it are behind. When nothing is to come, every formula cell says
what is meant of the snapshot; and the writes in between move nothing that `Meaning` is
about, the cells that no formula fills. Two hypotheses are about the evaluator alone, on
one snapshot and in one state: that a formula's value is the one `Meaning` gives, or
nothing but what stands is meant where it has none (`FormulasMean`), and that a
condition holds of the rows it means (`ConditionsMean`). What the parser of the code
makes of a text is defined by recursion and stays with TLC, which checked both
hypotheses, and `FormulasInv`, in all states of the scenes of MCSheet.

Of the constants the modules of the sheet assume only what they are: the sheet of the
day before consists of sequences and has nothing from a proposal, a call that the code
takes from a worker is a worker's, the fields of a request are finitely many, a capture
comes by one of the sources, and a grant names one of the three levels.

Three more assumptions deserve a word. A workflow of the library that is a plan has rows:
the schema of `definition.ts` would let `rows` be empty, and such a run would be planned
again on every delivery without harm, but "past its rows" would not be visible in the
tables. The families of `FamilyWords` are those `ontology.ts` names. A correction is
counted under a named value.

## 7. Model-checked only

* The properties of the runtime where their theorems do not reach: with edits, typed
  states, calls and toggles, at the bounds of their runs. Some do not hold beyond those:
  enough people who type states and outsiders who call will put two loops on a row or a
  third attempt after the last.
* `RehearsalBreaksNothing`, which is true of as many passes as the depth of the run
  needs: the replay orders rows and passes as its instance does. With it, what
  `DecisionsAreKnown` says of work that a person starts unasked and of rehearsed runs.
* That the evaluator gives a formula and a condition their meaning, the hypotheses of
  `FormulasMeanIt`: the parser is recursive and `Meaning` is the instance's. TLC checks
  it through `FormulasFollow`.
* Liveness (`EveryCallEnds`, `RunSettles`, `DependentsAreReleased`, `DoneRunIsClosed`,
  `EveryMessageSettles`, `LandedIsProjected`), which is out of TLAPS' reach.
* The findings: a violation is a trace.

## 8. Not modelled, and the plan

In reach of TLC and not modelled yet: a rehearsal of a changed definition, the publishing
of a template, the classification of files, and a run's thread and document.

Abstracted: checks are free outcomes, a hash is the record of what it covers, texts and
reasons are left out, one attempt of an agent is one step. The round of an approval is
not told from an earlier one, so the early escalation by an old watcher is not stated.
The in-process dispatcher loses all it holds when its process dies; its crash is
modelled only behind the queue. What the words of an ask, a captured item or a file say
is given with it: tokenizers, extractors, embeddings and the YAML of a workflow are
data. Nothing in the code emits `record/created` or `cell/changed`, and nothing handles
`rule/fired`, so rules act by the daily sweep only.

Coarser than the code, or narrower, where no property depends on it:

* **Memory**: the inserts of `seedEntities` are merged into the start of a pass, and the
  entities of borrowers and persons are left out (`pipeline.ts:608-618`): folders and
  aliases are looked up among deals alone, and by its identifier the deal is found,
  which was inserted before its borrower; the inserts of the links of one event are one
  action (`:420`), and so are those of the chunks of one text (`:520`). A pass that dies
  between two links, or two chunks, leaves fewer of them than any state here; the report
  and the answers do not count on there being all, and `LandedIsProjected` and the
  accounting except such a pass. The bundle of a question is compiled at one instant,
  though the code takes several queries.
* **Cells**: the selects of a recompute (columns, cells, row ids, history,
  `model.ts:194-201`) are one snapshot. A write that falls between two of them crosses
  the recompute, and `FormulasFollow` is about those that nothing crosses.
* **Formula**: dotted paths into the value of a cell and instants given as date strings
  (`model.ts:261-272`, `formula.ts:374-378`); no formula of the instance has either.
* **Rehearsal**: of a recorded row its state, what was decided and by whom are kept.
  Owner, check, hand backs, evidence and the shape of outputs are further fields of the
  report, and of its differences only the rows that break are judged. The replay of a
  decision acts as the person who made it (`decision.actorId`).
* **Invariants**: the inputs of a row are a constant, since no move changes them.
* **Sharing**: there is one organisation that owns what is owned, and a worker with a
  membership is of it (`sharing.ts:155-159` compares the two).
* **Capture**: a capture sent for a sheet looks on that sheet and lands there; there is
  one sheet of the code's many.
* **Surfaces**: of `runs.status` only whether the run is closed is kept; contracting
  ends by setting it to running, whatever it was (`contracting.ts:54`), which
  `RunsAgain` says.

Not planned: connectors, model providers and the check packs (outside services and
pure predicates, free outcomes to the functions); telemetry, audit pages, drift,
signing, workbooks and exchange, run documents (they read, format or encrypt);
migrations, seed, fixtures, user interface, sessions and scripts.
