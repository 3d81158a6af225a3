------------------------------ MODULE ColumnRun -----------------------------
(***************************************************************************)
(* runColumn() of lib/sheet/runColumn.ts: a person fills a column, and     *)
(* each cell of it becomes a contract, which is contracted and announced   *)
(* to the agents.  The contracts there are and the rows are read once; the *)
(* events are sent when the last row is done.                              *)
(*                                                                         *)
(* What agents and people do with an announced contract is in Runtime;     *)
(* here it moves on in what matters to a later run of the column.          *)
(***************************************************************************)
EXTENDS Grid

VARIABLE announced  \* the keys whose contract/assigned event was sent since they were contracted

StartColumnRun(c) ==
    LET r == Request[c] IN
    /\ Asks(c, "runColumn")
    /\ Become(c, IF /\ Contains(columns, r.column)
                    /\ ColumnType[r.column] \in {"agent_step", "approval"}
                    /\ r.by \in Person
                    /\ ColumnOwner[r.column] # NoOne
                 THEN [pc |-> "insertContract", row |-> 1, rows |-> Len(records),
                       existing |-> contracts, created |-> {}]
                 ELSE [pc |-> "threw"])
    /\ UNCHANGED <<sheet, announced>>

Key(c) == <<Request[c].column, Job(c).row>>

NextRow(job) == [job EXCEPT !.row = @ + 1, !.pc = "insertContract"]

\* A contract is made for a row that had none when the run began; a run has
\* one contract of a key (contracts_run_key), or the insert throws.
InsertContract(c) ==
    /\ Job(c).pc = "insertContract"
    /\ Job(c).row <= Job(c).rows
    /\ IF Key(c) \in DOMAIN Job(c).existing
       THEN /\ UNCHANGED contracts
            /\ Become(c, [Job(c) EXCEPT !.pc = "contract"])
       ELSE IF Key(c) \in DOMAIN contracts
       THEN /\ UNCHANGED contracts
            /\ Become(c, [pc |-> "threw"])
       ELSE /\ contracts' = With(contracts, Key(c), [state |-> "drafted"])
            /\ Become(c, [Job(c) EXCEPT !.pc = "contract",
                                        !.existing = With(@, Key(c), [state |-> "drafted"])])
    /\ UNCHANGED <<shape, log, records, columns, version, proposals, alone, announced>>

\* Mutant: only what the run drafted, or found at work, is announced.
AnnouncesNew(job, key, moved) ==
    IF job.existing[key].state # "handed_back"
    THEN NextRow([job EXCEPT !.created = @ \cup {key}]) ELSE NextRow(job)

\* What was contracted now, and what needed no contracting, is announced.
Announces(job, key, moved) ==
    IF moved \/ job.existing[key].state \notin {"drafted", "handed_back"}
    THEN NextRow([job EXCEPT !.created = @ \cup {key}]) ELSE NextRow(job)

\* The state that was read decides whether the row is contracted, and the ledger
\* whether it may be.
ContractRow(c) ==
    LET job == Job(c)
        moves == /\ job.existing[Key(c)].state \in {"drafted", "handed_back"}
                 /\ contracts[Key(c)].state \in {"drafted", "handed_back"}
    IN  /\ job.pc = "contract"
        /\ contracts' = IF moves THEN [contracts EXCEPT ![Key(c)].state = "contracted"] ELSE contracts
        /\ announced' = IF moves THEN announced \ {Key(c)} ELSE announced
        /\ Become(c, Announces(job, Key(c), moves))
        /\ UNCHANGED <<shape, log, records, columns, version, proposals, alone>>

SendAssigned(c) ==
    /\ Job(c).pc = "insertContract"
    /\ Job(c).row > Job(c).rows
    /\ announced' = announced \cup Job(c).created
    /\ Become(c, Done)
    /\ UNCHANGED <<sheet, alone>>

\* The agent step function starts what was announced, and its checks pass or
\* hand it back.
Progress(key, to) ==
    /\ key \in announced
    /\ <<contracts[key].state, to>> \in {<<"contracted", "in_progress">>,
                                         <<"handed_back", "in_progress">>,
                                         <<"in_progress", "handed_back">>,
                                         <<"in_progress", "verified">>}
    /\ contracts' = [contracts EXCEPT ![key].state = to]
    /\ UNCHANGED <<shape, log, records, columns, version, proposals, call, alone, announced>>

ColumnRunStep(c) ==
    \/ StartColumnRun(c)
    \/ InsertContract(c)
    \/ ContractRow(c)
    \/ SendAssigned(c)

=============================================================================
