-------------------------------- MODULE Cells -------------------------------
(***************************************************************************)
(* The cells of one sheet, as lib/sheet/cells.ts writes them and           *)
(* lib/sheet/model.ts recomputes them.  Cells are append only: the log is  *)
(* the table in the order of record time, the value of a cell is the last  *)
(* entry of its row and column, and an instant is a place in the log.      *)
(*                                                                         *)
(* Several calls run at once, one database statement at a time.  What a    *)
(* call has read and what it still has to do is its job; the operations    *)
(* that start jobs are in Grid, Capture, Rules and ColumnRun.              *)
(***************************************************************************)
EXTENDS Values, SequencesExt

CONSTANTS
    Worker, Person, Maya,
    NoOne,           \* no worker, or no owner in a column's config
    Column,          \* the names of columns
    ColumnType,
    ColumnOwner,     \* config.owner of an agent_step column
    ColumnFormula,   \* config.formula of a formula column, as tokens
    OpeningColumns, OpeningRecords, OpeningContracts, OpeningLog,
                     \* by shape, the sheet as it stood the day before
    FormulaValue(_, _),  \* evaluateFormula(): the value of tokens in a scope
    Today,
    Call,            \* the calls that may arrive
    Scene            \* the calls that arrive together, on which shape of sheet

IsSequence(s) == s \in Seq(Range(s))

ASSUME CellsAssumption ==
    /\ Person \subseteq Worker
    /\ Maya \in Person
    /\ NoOne \notin Worker
    /\ Scene \subseteq [shape : {"plan", "batch"}, calls : SUBSET Call]
    /\ \A s \in {"plan", "batch"} :
           /\ IsSequence(OpeningLog[s]) /\ IsSequence(OpeningRecords[s]) /\ IsSequence(OpeningColumns[s])
           /\ \A i \in DOMAIN OpeningLog[s] : OpeningLog[s][i].from # "proposal"

VARIABLES
    shape,      \* sheets.shape: whether the rows are the contracts of a run or records
    log,        \* cells: row, column, value, set_by, set_from
    records,    \* the rows of the sheet in order: their fields, words and source
    columns,    \* the columns in the order of their positions
    version,    \* sheets.definition_version
    proposals,  \* proposals in order of creation
    contracts,  \* the contracts under a row, by their key <<column, row>>
    call,       \* call[c]: the job of c, one of the calls that arrive
    alone       \* whether no two calls have been under way together (a history)

sheet == <<shape, log, records, columns, version, proposals, contracts>>

Idle == [pc |-> "idle"]
Done == [pc |-> "done"]

InitCells ==
    /\ \E scene \in Scene :
           /\ shape = scene.shape
           /\ call = [c \in scene.calls |-> Idle]
    /\ log = OpeningLog[shape]
    /\ records = OpeningRecords[shape]
    /\ columns = OpeningColumns[shape]
    /\ contracts = OpeningContracts[shape]
    /\ version = 1
    /\ proposals = <<>>
    /\ alone = TRUE

\* An object with one more property, or with another value of it.
With(f, x, value) == [y \in DOMAIN f \cup {x} |-> IF y = x THEN value ELSE f[y]]

Job(c) == call[c]
Become(c, job) == call' = [call EXCEPT ![c] = job]
UnderWay(c) == call[c].pc \notin {"idle", "done", "threw"}

\* The first statement of a call.
Arrives(c) ==
    /\ call[c] = Idle
    /\ alone' = (alone /\ \A d \in DOMAIN call : ~UnderWay(d))

-----------------------------------------------------------------------------
(* Reading.                                                                *)

\* currentCell(): the place of the last entry of a cell up to n, or 0.
CurrentCell(n, row, column) ==
    LET places == {i \in 1 .. n : log[i].row = row /\ log[i].column = column} IN
    IF places = {} THEN 0 ELSE Max(places)

\* readGrid() as of n, read at one cell.
ValueAt(n, row, column) ==
    LET i == CurrentCell(n, row, column) IN IF i = 0 THEN Null ELSE log[i].value

\* The states of the contracts whose parent is the row.
Children(row) ==
    LET under == {key \in DOMAIN contracts : key[2] = row} IN
    [i \in 1 .. Cardinality(under) |-> contracts[SetToSeq(under)[i]].state]

RowsOf(column) == "rows." \o column

\* What a formula in a row can see of a snapshot, and of the children now.
BuildScope(row, snapshot) ==
    LET Seen(n, r, k) == IF Contains(snapshot.columns, k) THEN ValueAt(n, r, k) ELSE Null IN
    [cell |-> [k \in Column |-> Seen(snapshot.seen, row, k)],
     rows |-> [path \in {RowsOf(k) : k \in Column} |->
                  LET k == CHOOSE k \in Column : RowsOf(k) = path IN
                  [i \in 1 .. snapshot.rows |-> Seen(snapshot.seen, i, k)]],
     children |-> Children(row),
     past |-> [instant \in {"now", "today", "yesterday"} |->
                  LET n == IF instant = "yesterday" THEN Len(OpeningLog[shape]) ELSE snapshot.seen IN
                  [k \in Column |-> Seen(n, row, k)]],
     today |-> Today]

-----------------------------------------------------------------------------
(* setCell().                                                              *)

\* Mutant: only the owner of a column is asked about, not who set the cell.
AgentMayWriteOwn(w) ==
    ColumnType[w.column] = "agent_step" => ColumnOwner[w.column] \in {NoOne, w.by}

AgentMayWrite(w) ==
    LET i == CurrentCell(Len(log), w.row, w.column) IN
    \/ w.from = "formula" \/ ColumnType[w.column] \in {"formula", "output", "evidence"}
    \/ /\ ~(i # 0 /\ log[i].from = "edit")
       /\ ColumnType[w.column] = "agent_step" => ColumnOwner[w.column] \in {NoOne, w.by}

Insert(w) == log' = Append(log, w)

\* The next write of a job is behind it; after the last one come the formulas.
AfterWrite(job) ==
    [job EXCEPT !.writes = Tail(@), !.pc = IF Len(job.writes) > 1 THEN "write" ELSE job.then]

Writable(w) == Contains(columns, w.column) /\ ColumnType[w.column] # "status"

\* The column is not there or is the status column, which this never writes.
SkipWrite(c) ==
    /\ Job(c).pc = "write"
    /\ ~Writable(Head(Job(c).writes))
    /\ Become(c, IF Job(c).strict THEN Done ELSE AfterWrite(Job(c)))
    /\ UNCHANGED <<sheet, alone>>

\* Anyone but an agent writes what he likes.
PersonWrites(c) ==
    LET w == Head(Job(c).writes) IN
    /\ Job(c).pc = "write"
    /\ Writable(w)
    /\ w.by \notin Worker \ Person
    /\ Insert(w)
    /\ Become(c, AfterWrite(Job(c)))
    /\ UNCHANGED <<shape, records, columns, version, proposals, contracts, alone>>

AgentLooks(c) ==
    LET w == Head(Job(c).writes) IN
    /\ Job(c).pc = "write"
    /\ Writable(w)
    /\ w.by \in Worker \ Person
    /\ Become(c, [Job(c) EXCEPT !.pc = IF AgentMayWrite(w) THEN "land" ELSE "propose",
                                !.looked = Len(log)])
    /\ UNCHANGED <<sheet, alone>>

AgentWrites(c) ==
    /\ Job(c).pc = "land"
    /\ Insert(Head(Job(c).writes))
    /\ Become(c, AfterWrite(Job(c)))
    /\ UNCHANGED <<shape, records, columns, version, proposals, contracts, alone>>

AgentProposes(c) ==
    LET w == Head(Job(c).writes) IN
    /\ Job(c).pc = "propose"
    /\ proposals' = Append(proposals, [kind |-> "cell", row |-> w.row, column |-> w.column,
                                       value |-> w.value, by |-> w.by, status |-> "pending"])
    /\ Become(c, IF Job(c).strict THEN Done ELSE AfterWrite(Job(c)))
    /\ UNCHANGED <<shape, log, records, columns, version, contracts, alone>>

-----------------------------------------------------------------------------
(* recomputeFormulas(): one reading of the sheet, then a write for each    *)
(* formula cell whose value is another than the one that was read.         *)

\* Row by row, and in a row column by column.
CellsInOrder(snapshot) ==
    LET width == Len(snapshot.columns) IN
    [i \in 1 .. snapshot.rows * width |->
        <<((i - 1) \div width) + 1, snapshot.columns[((i - 1) % width) + 1]>>]

ReadSheet(c) ==
    LET snapshot == [seen |-> Len(log), rows |-> Len(records), columns |-> columns] IN
    /\ Job(c).pc = "recompute"
    /\ Become(c, [Job(c) EXCEPT !.pc = "compute", !.snapshot = snapshot,
                                !.todo = CellsInOrder(snapshot)])
    /\ UNCHANGED <<sheet, alone>>

ValueIn(cell, snapshot) ==
    FormulaValue(ColumnFormula[cell[2]], BuildScope(cell[1], snapshot))

\* Mutant: a cell that has a value is taken to be computed.
ChangedFromNothing(cell, snapshot) ==
    /\ ColumnType[cell[2]] = "formula"
    /\ ValueIn(cell, snapshot) # Error
    /\ CurrentCell(snapshot.seen, cell[1], cell[2]) = 0

Changed(cell, snapshot) ==
    LET i == CurrentCell(snapshot.seen, cell[1], cell[2]) IN
    /\ ColumnType[cell[2]] = "formula"
    /\ ValueIn(cell, snapshot) # Error
    /\ i # 0 => log[i].value # ValueIn(cell, snapshot)

\* A formula that cannot be read, and one whose value stands, is passed over.
RecomputeFormulas(c) ==
    LET job == Job(c)
        changed == {i \in DOMAIN job.todo : Changed(job.todo[i], job.snapshot)}
    IN  /\ job.pc = "compute"
        /\ IF changed = {}
           THEN /\ Become(c, [job EXCEPT !.todo = <<>>, !.pc = job.after])
                /\ UNCHANGED log
           ELSE LET cell == job.todo[Min(changed)] IN
                /\ Insert([row |-> cell[1], column |-> cell[2], by |-> job.by, from |-> "formula",
                           value |-> ValueIn(cell, job.snapshot)])
                /\ Become(c, [job EXCEPT !.todo = SubSeq(@, Min(changed) + 1, Len(@))])
        /\ UNCHANGED <<shape, records, columns, version, proposals, contracts, alone>>

CellsStep(c) ==
    \/ SkipWrite(c)
    \/ PersonWrites(c)
    \/ AgentLooks(c)
    \/ AgentWrites(c)
    \/ AgentProposes(c)
    \/ ReadSheet(c)
    \/ RecomputeFormulas(c)

\* A job that makes writes by one worker, and recomputes after them.
NoSnapshot == [seen |-> 0, rows |-> 0, columns |-> <<>>]

Writing(by, writes, then, strict, after) ==
    [pc |-> IF writes = <<>> THEN then ELSE "write", by |-> by, writes |-> writes,
     then |-> then, strict |-> strict, after |-> after,
     looked |-> 0, snapshot |-> NoSnapshot, todo |-> <<>>]

=============================================================================
