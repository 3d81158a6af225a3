-------------------------------- MODULE Queue -------------------------------
(***************************************************************************)
(* The database queue of lib/runtime/queue.ts and its worker               *)
(* lib/runtime/worker.ts, which carry events in a customer's own boundary. *)
(* A worker claims a batch of messages under a lease, in one transaction   *)
(* that locks the rows it selects, and then runs and settles the messages  *)
(* of its batch one after the other, and so on until there is nothing left *)
(* to claim: then its drain has ended, and it does no more until somebody  *)
(* calls drain() again.  That it ends after 200 batches is left out.       *)
(*                                                                         *)
(* Time is what may have passed: a lease that is held may expire, and a    *)
(* message that backs off may become due, at any moment.  Nothing renews a *)
(* lease and nothing compares it when a message is settled.                *)
(***************************************************************************)
EXTENDS Naturals, FiniteSets

CONSTANTS
    Message,
    Worker,
    NoWorker,
    MaxTries,    \* MaxTries[m]: queue_messages.max_attempts
    Limit,       \* the size of a batch
    MaxCrashes   \* bound on the deaths of workers

ASSUME QueueAssumption ==
    /\ NoWorker \notin Worker
    /\ MaxTries \in [Message -> Nat \ {0}]
    /\ Limit \in Nat \ {0}
    /\ MaxCrashes \in Nat

VARIABLES
    status,    \* status[m]: queue_messages.status
    lease,     \* lease[m]: whether the lease on m is none, held or expired
    leasedBy,  \* leasedBy[m]: the worker who claimed m last
    tries,     \* tries[m]: queue_messages.attempts, counted up to MostTries(m)
    due,       \* the messages whose available_at has passed
    locked,    \* locked[m]: the worker whose open transaction locks the row of m
    worker,    \* worker[w]: what w is doing
    ran,       \* the messages of which some run succeeded (a history)
    broke,     \* the messages of which some run failed (a history)
    crashes,   \* how many workers have died
    overran    \* the messages whose lease ran out under a worker that was alive and had
               \* yet to settle them (a history)

messageVars == <<status, lease, leasedBy, tries, due>>

vars == <<messageVars, locked, worker, ran, broke, crashes, overran>>

Polling == [pc |-> "polling", batch |-> {}]

Idle == [pc |-> "idle", batch |-> {}]

\* A new worker process, and with it a new dispatcher, none of whose functions
\* has failed; it does nothing until it is drained.
Fresh == [doing |-> Idle, failures |-> FALSE]

InitQueue(unsent, deaths) ==
    /\ status = [m \in Message |-> IF m \in unsent THEN "unsent" ELSE "ready"]
    /\ lease = [m \in Message |-> "none"]
    /\ leasedBy = [m \in Message |-> NoWorker]
    /\ tries = [m \in Message |-> 0]
    /\ due = Message
    /\ locked = [m \in Message |-> NoWorker]
    /\ worker = [w \in Worker |-> Fresh]
    /\ ran = {}
    /\ broke = {}
    /\ crashes = deaths
    /\ overran = {}

Init == InitQueue({}, 0)

Now(w) == worker[w].doing

Become(w, doing) == worker' = [worker EXCEPT ![w].doing = doing]

\* enqueue(): the row of a message is there, ready and due.
Enqueue(m) ==
    /\ status[m] = "unsent"
    /\ status' = [status EXCEPT ![m] = "ready"]
    /\ UNCHANGED <<lease, leasedBy, tries, due, locked, worker, ran, broke, crashes, overran>>

\* What a worker has claimed and not yet settled.
Holds(w, m) ==
    /\ Now(w).pc # "claiming"
    /\ m \in Now(w).batch \/ ("message" \in DOMAIN Now(w) /\ Now(w).message = m)

-----------------------------------------------------------------------------
(* claim().                                                                *)

\* Mutant: a lease that has run out is not taken over.
ReadyOnly(m) == m \in due /\ status[m] = "ready"

Claimable(m) ==
    /\ m \in due
    /\ status[m] = "ready" \/ (status[m] = "claimed" /\ lease[m] = "expired")

\* Mutant: select without "for update skip locked".
SelectUnlocked(w) ==
    LET free == {m \in Message : Claimable(m)} IN
    /\ \E batch \in SUBSET free :
           /\ batch # {}
           /\ Cardinality(batch) = Limit \/ (batch = free /\ Cardinality(free) < Limit)
           /\ Become(w, [pc |-> "claiming", batch |-> batch])
    /\ UNCHANGED <<messageVars, locked, ran, broke, crashes, overran>>

\* for update skip locked: the rows are locked as they are selected, and those
\* that another open claim has locked are passed over.
Select(w) ==
    LET free == {m \in Message : Claimable(m) /\ locked[m] = NoWorker} IN
    /\ \E batch \in SUBSET free :
           /\ batch # {}
           /\ Cardinality(batch) = Limit \/ (batch = free /\ Cardinality(free) < Limit)
           /\ locked' = [m \in Message |-> IF m \in batch THEN w ELSE locked[m]]
           /\ Become(w, [pc |-> "claiming", batch |-> batch])
    /\ UNCHANGED <<messageVars, ran, broke, crashes, overran>>

\* Somebody calls drain(), which begins with a claim and is over if that finds nothing.
Drain(w) == Now(w) = Idle /\ Select(w)

NextBatch(w) == Now(w) = Polling /\ Select(w)

\* It ends at the first claim that finds nothing, though a message may still be backing
\* off, or under a lease.
EndDrain(w) ==
    /\ Now(w) = Polling
    /\ \A m \in Message : ~(Claimable(m) /\ locked[m] = NoWorker)
    /\ Become(w, Idle)
    /\ UNCHANGED <<messageVars, locked, ran, broke, crashes, overran>>

\* Bound: a message is claimed once more than any count below tells apart.
MostTries(m) == MaxTries[m] + MaxCrashes + 1

Unlock(w) == locked' = [m \in Message |-> IF locked[m] = w THEN NoWorker ELSE locked[m]]

CommitClaim(w) ==
    LET batch == Now(w).batch IN
    /\ Now(w).pc = "claiming"
    /\ status' = [m \in Message |-> IF m \in batch THEN "claimed" ELSE status[m]]
    /\ lease' = [m \in Message |-> IF m \in batch THEN "held" ELSE lease[m]]
    /\ leasedBy' = [m \in Message |-> IF m \in batch THEN w ELSE leasedBy[m]]
    /\ tries' = [m \in Message |-> IF m \in batch /\ tries[m] < MostTries(m)
                                   THEN tries[m] + 1 ELSE tries[m]]
    /\ Unlock(w)
    /\ Become(w, [pc |-> "working", batch |-> batch])
    /\ UNCHANGED <<due, ran, broke, crashes, overran>>

-----------------------------------------------------------------------------
(* drain(): run each message of the batch and settle it.                   *)

StartRun(w) ==
    /\ Now(w).pc = "working"
    /\ \E m \in Now(w).batch :
           Become(w, [pc |-> "running", batch |-> Now(w).batch \ {m}, message |-> m])
    /\ UNCHANGED <<messageVars, locked, ran, broke, crashes, overran>>

EndBatch(w) ==
    /\ Now(w).pc = "working"
    /\ Now(w).batch = {}
    /\ Become(w, Polling)
    /\ UNCHANGED <<messageVars, locked, ran, broke, crashes, overran>>

Settling(w, ok) == [Now(w) EXCEPT !.pc = IF ok THEN "done" ELSE "failed"]

\* The functions succeed; the message is settled so unless the dispatcher has any
\* failed function on record, from this message or from one before it.
Succeed(w) ==
    /\ Now(w).pc = "running"
    /\ ran' = ran \cup {Now(w).message}
    /\ Become(w, Settling(w, ~worker[w].failures))
    /\ UNCHANGED <<messageVars, locked, broke, crashes, overran>>

\* A function throws, which the dispatcher keeps on record.
Fail(w) ==
    /\ Now(w).pc = "running"
    /\ broke' = broke \cup {Now(w).message}
    /\ worker' = [worker EXCEPT ![w] = [doing |-> Settling(w, FALSE), failures |-> TRUE]]
    /\ UNCHANGED <<messageVars, locked, ran, crashes, overran>>

\* The dispatcher does not go quiet in time, which is an exception but no failed
\* function.
TimeOut(w) ==
    /\ Now(w).pc = "running"
    /\ broke' = broke \cup {Now(w).message}
    /\ Become(w, Settling(w, FALSE))
    /\ UNCHANGED <<messageVars, locked, ran, crashes, overran>>

\* The update of a message, whoever holds it by now; it waits for the row lock.
Write(w, m, as, available) ==
    /\ locked[m] = NoWorker
    /\ status' = [status EXCEPT ![m] = as]
    /\ lease' = [lease EXCEPT ![m] = "none"]
    /\ leasedBy' = [leasedBy EXCEPT ![m] = NoWorker]
    /\ due' = IF available THEN due ELSE due \ {m}
    /\ Become(w, [pc |-> "working", batch |-> Now(w).batch])
    /\ UNCHANGED <<tries, locked, ran, broke, crashes, overran>>

SettleDone(w) == Now(w).pc = "done" /\ Write(w, Now(w).message, "done", TRUE)

\* Mutant: a message out of attempts is given one more.
ReadTriesLate(w) ==
    LET m == Now(w).message
        out == tries[m] > MaxTries[m]
    IN  /\ Now(w).pc = "failed"
        /\ Become(w, [Now(w) EXCEPT !.pc = IF out THEN "give_up" ELSE "back_off"])
        /\ UNCHANGED <<messageVars, locked, ran, broke, crashes, overran>>

\* A failure is settled by what a first statement reads of the attempts.
ReadTries(w) ==
    LET m == Now(w).message
        out == tries[m] >= MaxTries[m]
    IN  /\ Now(w).pc = "failed"
        /\ Become(w, [Now(w) EXCEPT !.pc = IF out THEN "give_up" ELSE "back_off"])
        /\ UNCHANGED <<messageVars, locked, ran, broke, crashes, overran>>

GiveUp(w) == Now(w).pc = "give_up" /\ Write(w, Now(w).message, "failed", TRUE)

BackOff(w) == Now(w).pc = "back_off" /\ Write(w, Now(w).message, "ready", FALSE)

-----------------------------------------------------------------------------
(* Time and death.                                                         *)

Expire(m) ==
    /\ lease[m] = "held"
    /\ lease' = [lease EXCEPT ![m] = "expired"]
    /\ overran' = IF \E w \in Worker : Holds(w, m) THEN overran \cup {m} ELSE overran
    /\ UNCHANGED <<status, leasedBy, tries, due, locked, worker, ran, broke, crashes>>

ComeDue(m) ==
    /\ m \notin due
    /\ due' = due \cup {m}
    /\ UNCHANGED <<status, lease, leasedBy, tries, locked, worker, ran, broke, crashes, overran>>

\* The process dies, its transaction with it, and another takes its place.
Crash(w) ==
    /\ crashes < MaxCrashes
    /\ crashes' = crashes + 1
    /\ worker' = [worker EXCEPT ![w] = Fresh]
    /\ Unlock(w)
    /\ UNCHANGED <<messageVars, ran, broke, overran>>

Step(w) ==
    \/ NextBatch(w)
    \/ EndDrain(w)
    \/ CommitClaim(w)
    \/ StartRun(w)
    \/ EndBatch(w)
    \/ Succeed(w)
    \/ Fail(w)
    \/ TimeOut(w)
    \/ SettleDone(w)
    \/ ReadTries(w)
    \/ GiveUp(w)
    \/ BackOff(w)

Next ==
    \/ \E w \in Worker : Drain(w) \/ Step(w) \/ Crash(w)
    \/ \E m \in Message : Enqueue(m) \/ Expire(m) \/ ComeDue(m)

\* Drains go on and time passes, as long as there is anything to do.  Nobody has to
\* call drain().
Going == (\E w \in Worker : Step(w)) \/ (\E m \in Message : Expire(m) \/ ComeDue(m))

Fairness == WF_vars(Going)

Spec == Init /\ [][Next]_vars /\ Fairness

-----------------------------------------------------------------------------
(* Properties.                                                             *)

\* What a worker may be doing: it holds a batch, or a message and the rest of its
\* batch.
Doing ==
    [pc : {"idle", "polling", "claiming", "working"}, batch : SUBSET Message]
    \cup [pc : {"running", "done", "failed", "give_up", "back_off"},
          batch : SUBSET Message, message : Message]

TypeOK ==
    /\ status \in [Message -> {"unsent", "ready", "claimed", "done", "failed"}]
    /\ lease \in [Message -> {"none", "held", "expired"}]
    /\ leasedBy \in [Message -> Worker \cup {NoWorker}]
    /\ \A m \in Message : tries[m] \in 0 .. MostTries(m)
    /\ due \subseteq Message
    /\ locked \in [Message -> Worker \cup {NoWorker}]
    /\ worker \in [Worker -> [doing : Doing, failures : BOOLEAN]]
    /\ ran \subseteq Message /\ broke \subseteq Message /\ overran \subseteq Message
    /\ crashes \in Nat

\* queue.ts: "two workers never run the same message".  They do once its lease has run
\* out under a worker still at it: nothing renews a lease, and the late settlement of
\* that worker frees the message under whoever has it by then.  A message to which
\* that has not happened is at one worker at most from its claim to its settlement,
\* whoever claims, fails or dies meanwhile.
HeldByOne ==
    \A m \in Message \ overran : \A v, w \in Worker : Holds(v, m) /\ Holds(w, m) => v = w

\* queue.ts, schema.ts: max_attempts is compared when a failure is settled, and not
\* when a message is claimed, so each worker that dies may cost one attempt more, and
\* unless a lease overran nothing else does.
ClaimsAreBounded == \A m \in Message \ overran : tries[m] <= MaxTries[m] + crashes

\* Something is to be claimed, and nobody drains.
Neglected == (\E m \in Message : Claimable(m)) /\ \A w \in Worker : Now(w) = Idle

\* worker.ts: "Works the queue until it is empty".  Every drain ends, though messages
\* fail and come back while it goes on; and if somebody calls drain() whenever the
\* queue is neglected, which nothing in the code does by itself, each message that is
\* sent ends done or failed and stays so, whatever dies or fails ("a worker that dies
\* releases its work").
EveryMessageSettles ==
    /\ []<>(\A w \in Worker : Now(w) = Idle)
    /\ []<>~Neglected => <>[](\A m \in Message : status[m] \in {"unsent", "done", "failed"})

\* queue.ts: "Out of attempts is a failure a person looks at".  A message that
\* failed is one of which a run failed.
FailedHasFailed == \A m \in Message : status[m] = "failed" => m \in broke

=============================================================================
