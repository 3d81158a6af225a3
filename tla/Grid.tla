-------------------------------- MODULE Grid --------------------------------
(***************************************************************************)
(* What moves the cells of a sheet: the edits of the grid                  *)
(* (lib/sheet/edit.ts), the answer of an agent that fills a column         *)
(* (lib/sheet/agentCell.ts), the decision on a proposal                    *)
(* (decideProposal of lib/sheet/cells.ts), and a plan sheet brought into   *)
(* line with its contracts (lib/sheet/refresh.ts, materializePlanSheet).   *)
(* What an edit does to a contract that is running is in Surfaces.         *)
(***************************************************************************)
EXTENDS Cells

CONSTANT Request  \* Request[c]: what c asks, a record with the operation op

\* Who sets a cell is a worker, and a record of values is finite.
ASSUME GridAssumption ==
    \A c \in Call :
        /\ Request[c].op \in {"edit", "agentCell", "refresh", "addRow", "capture"} =>
               Request[c].by \in Worker
        /\ Request[c].op \in {"refresh", "addRow", "capture"} =>
               IsFiniteSet(DOMAIN Request[c].fields)

Asks(c, op) == Arrives(c) /\ Request[c].op = op

Write(row, column, value, by, from) ==
    [row |-> row, column |-> column, value |-> value, by |-> by, from |-> from]

\* The writes of a record of values to a row, in the order of its columns.
WritesOf(row, fields, by, from) ==
    LET names == SetToSeq(DOMAIN fields) IN
    [i \in DOMAIN names |-> Write(row, names[i], fields[names[i]], by, from)]

-----------------------------------------------------------------------------
(* editCell().                                                             *)

EditFrom(by) == IF by \in Person THEN "edit" ELSE "tool"

StartEdit(c) ==
    LET r == Request[c] IN
    /\ Asks(c, "edit")
    /\ Become(c, IF Contains(columns, r.column)
                 THEN Writing(r.by, <<Write(r.row, r.column, r.value, r.by, EditFrom(r.by))>>,
                              "recompute", TRUE,
                              IF ColumnType[r.column] = "input" THEN "fields" ELSE "done")
                 ELSE Done)
    /\ UNCHANGED sheet

\* An input is also a field of the record, or an input of the contract, behind
\* the row; all of them are read and all of them written.
ReadFields(c) ==
    LET r == Request[c] IN
    /\ Job(c).pc = "fields"
    /\ Become(c, [pc |-> "store", fields |-> With(records[r.row].fields, r.column, r.value)])
    /\ UNCHANGED <<sheet, alone>>

StoreFields(c) ==
    /\ Job(c).pc = "store"
    /\ records' = [records EXCEPT ![Request[c].row].fields = Job(c).fields]
    /\ Become(c, Done)
    /\ UNCHANGED <<shape, log, columns, version, proposals, contracts, alone>>

-----------------------------------------------------------------------------
(* addRow() and addColumn().                                               *)

NewRecord(fields, words, source) == [fields |-> fields, words |-> words, source |-> source]

StartAddRow(c) ==
    LET r == Request[c] IN
    /\ Asks(c, "addRow")
    /\ IF shape = "batch"
       THEN /\ records' = Append(records, NewRecord(r.fields, {}, "grid"))
            /\ Become(c, Writing(r.by, WritesOf(Len(records) + 1, r.fields, r.by, "edit"),
                                 "recompute", FALSE, "done"))
       ELSE Become(c, Done) /\ UNCHANGED records
    /\ UNCHANGED <<shape, log, columns, version, proposals, contracts>>

StartAddColumn(c) ==
    LET r == Request[c] IN
    /\ Asks(c, "addColumn")
    /\ Become(c, IF r.by \in Person /\ ~Contains(columns, r.column) THEN [pc |-> "insert"] ELSE Done)
    /\ UNCHANGED sheet

\* A sheet has one column of a name (columns_sheet_name), or the insert throws.
InsertColumn(c) ==
    LET r == Request[c] IN
    /\ Job(c).pc = "insert"
    /\ IF Contains(columns, r.column)
       THEN Become(c, [pc |-> "threw"]) /\ UNCHANGED columns
       ELSE Become(c, [pc |-> "version"]) /\ columns' = Append(columns, r.column)
    /\ UNCHANGED <<shape, log, records, version, proposals, contracts, alone>>

ReadVersion(c) ==
    /\ Job(c).pc = "version"
    /\ Become(c, [pc |-> "bump", version |-> version + 1])
    /\ UNCHANGED <<sheet, alone>>

BumpVersion(c) ==
    /\ Job(c).pc = "bump"
    /\ version' = Job(c).version
    /\ Become(c, Writing(Request[c].by, <<>>, "recompute", FALSE, "done"))
    /\ UNCHANGED <<shape, log, records, columns, proposals, contracts, alone>>

-----------------------------------------------------------------------------
(* writeAgentStepCell(), refreshPlanRow() and materializePlanSheet().      *)

StartAgentCell(c) ==
    LET r == Request[c] IN
    /\ Asks(c, "agentCell")
    /\ Become(c, IF Contains(columns, r.column)
                 THEN Writing(r.by, <<Write(r.row, r.column, r.value, r.by, "tool")>>,
                              "recompute", FALSE, "done")
                 ELSE Done)
    /\ UNCHANGED sheet

StartRefresh(c) ==
    LET r == Request[c] IN
    /\ Asks(c, "refresh")
    /\ Become(c, IF shape = "plan"
                 THEN Writing(r.by, WritesOf(r.row, r.fields, r.by, "runtime"), "recompute", FALSE, "done")
                 ELSE Done)
    /\ UNCHANGED sheet

-----------------------------------------------------------------------------
(* The tool propose of lib/interop/mcp.ts, which asks nothing of the cell. *)

Propose(c) ==
    LET r == Request[c] IN
    /\ Asks(c, "propose")
    /\ proposals' = Append(proposals, [kind |-> "cell", row |-> r.row, column |-> r.column,
                                       value |-> r.value, by |-> r.by, status |-> "pending"])
    /\ Become(c, Done)
    /\ UNCHANGED <<shape, log, records, columns, version, contracts>>

-----------------------------------------------------------------------------
(* decideProposal().                                                       *)

\* Mutant: a decision that was taken is taken again.
DecidableAgain(c) ==
    Request[c].proposal \in DOMAIN proposals /\ Request[c].by \in Person

Decidable(c) ==
    /\ Request[c].proposal \in DOMAIN proposals
    /\ proposals[Request[c].proposal].status = "pending"
    /\ Request[c].by \in Person

StartDecide(c) ==
    /\ Asks(c, "decide")
    /\ Become(c, IF Decidable(c) THEN [pc |-> "decide"] ELSE Done)
    /\ UNCHANGED sheet

Decide(c) ==
    LET r == Request[c] IN
    /\ Job(c).pc = "decide"
    /\ proposals' = [proposals EXCEPT ![r.proposal].status = r.decision]
    /\ Become(c, IF r.decision = "accepted" /\ proposals[r.proposal].kind = "cell"
                 THEN [pc |-> "accept"] ELSE Done)
    /\ UNCHANGED <<shape, log, records, columns, version, contracts, alone>>

\* The value is the person's from here, and no formula is recomputed for it.
AcceptCell(c) ==
    LET p == proposals[Request[c].proposal] IN
    /\ Job(c).pc = "accept"
    /\ Insert(Write(p.row, p.column, p.value, Request[c].by, "proposal"))
    /\ Become(c, Done)
    /\ UNCHANGED <<shape, records, columns, version, proposals, contracts, alone>>

GridStep(c) ==
    \/ StartEdit(c) \/ ReadFields(c) \/ StoreFields(c)
    \/ StartAddRow(c)
    \/ StartAddColumn(c) \/ InsertColumn(c) \/ ReadVersion(c) \/ BumpVersion(c)
    \/ StartAgentCell(c)
    \/ StartRefresh(c)
    \/ Propose(c)
    \/ StartDecide(c) \/ Decide(c) \/ AcceptCell(c)

=============================================================================
