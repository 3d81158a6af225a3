----------------------------- MODULE SheetProofs ----------------------------
(***************************************************************************)
(* What holds of every sheet, for all columns, rows, workers, formulas and *)
(* calls: agents keep what people typed, nothing captured is lost, what is *)
(* contracted is announced, grants go back to members, decisions hold, and *)
(* formulas and conditions follow the sheet where their evaluator means it.*)
(*                                                                         *)
(* The calls of a sheet meet at every statement, so that what a job knows  *)
(* is stated of it at each place where it can stand (Jobs), together with  *)
(* what the tables say of it (AllKept, AllTold, Shared).                   *)
(***************************************************************************)
EXTENDS Sheet, FiniteSetTheorems, WellFoundedInduction, TLAPS

-----------------------------------------------------------------------------
(* The inductive invariant.                                                *)

\* The tables are sequences, and their rows have the fields the calls read.
Tables ==
    /\ IsSequence(log)
    /\ IsSequence(records)
    /\ IsSequence(inbox)
    /\ IsSequence(proposals)
    /\ \A i \in DOMAIN proposals :
           /\ {"kind", "status"} \subseteq DOMAIN proposals[i]
           /\ proposals[i].kind \in {"cell", "row"}
           /\ proposals[i].kind = "cell" => {"row", "column", "value"} \subseteq DOMAIN proposals[i]
           /\ proposals[i].kind = "row" =>
                  /\ "item" \in DOMAIN proposals[i]
                  /\ proposals[i].item \in Call
                  /\ Request[proposals[i].item].op = "capture"

\* The writes of a job are set by workers, and none of them as a formula or as a
\* proposal.
WritesOK(writes) ==
    /\ IsSequence(writes)
    /\ \A i \in DOMAIN writes : writes[i].by \in Worker /\ writes[i].from \notin {"formula", "proposal"}

\* What an agent found when it looked: a cell it may write.
Looked(job) ==
    LET w == Head(job.writes)
        i == CurrentCell(job.looked, w.row, w.column)
    IN  /\ job.looked \in 0 .. Len(log)
        /\ \/ ColumnType[w.column] \in {"formula", "output", "evidence"}
           \/ ~(i # 0 /\ log[i].from = "edit")

WritingFields == {"pc", "writes", "then", "after", "looked", "snapshot", "todo"}

WritingOK(job) ==
    /\ WritingFields \subseteq DOMAIN job
    /\ job.then \in {"recompute", "fired"}
    /\ job.after \in {"fields", "done"}
    /\ WritesOK(job.writes)
    /\ job.pc \in {"write", "land", "propose"} => job.writes # <<>>
    /\ job.pc = "compute" => DOMAIN job.todo \subseteq Nat

\* What a call knows where it stands.
JobOK(c) ==
    /\ call[c].pc \in {"write", "land", "propose", "recompute", "compute"} => WritingOK(call[c])
    /\ call[c].pc = "land" => Looked(call[c])
    /\ call[c].pc \in {"decide", "accept"} => Request[c].op = "decide" /\ Request[c].by \in Person
    /\ call[c].pc \in {"decide", "accept"} => Request[c].proposal \in DOMAIN proposals
    /\ call[c].pc = "accept" => proposals[Request[c].proposal].kind = "cell"
    /\ call[c].pc = "answer" =>
           /\ Request[c].proposal \in DOMAIN proposals
           /\ proposals[Request[c].proposal].kind = "row"
    /\ call[c].pc = "ask" => Request[c].op = "capture"
    /\ call[c].pc = "file" => Request[call[c].item].op = "capture" /\ call[c].item \in Call
    /\ call[c].pc = "keep" => call[c].inbox \in DOMAIN inbox
    /\ call[c].pc \in {"insertContract", "contract"} =>
           /\ Request[c].op = "runColumn"
           /\ {"pc", "row", "created", "existing"} \subseteq DOMAIN call[c]
    /\ call[c].pc \in {"reach", "grantee", "invite", "grant"} => Request[c].op = "share"
    /\ call[c].pc \in {"grantee", "invite", "grant"} => {"pc", "scopes"} \subseteq DOMAIN call[c]

Jobs == DOMAIN call \subseteq Call /\ \A c \in DOMAIN call : JobOK(c)

\* The captures that have neither been filed nor asked about.
Early == {"idle", "ask", "inbox", "make", "keep"}

Recorded(c) ==
    \E row \in DOMAIN records :
        /\ {"source", "item"} \subseteq DOMAIN records[row]
        /\ records[row].source \in CaptureSources
        /\ records[row].item = c

Kept(c) ==
    \/ \E i \in DOMAIN inbox : c \in inbox[i]
    \/ Recorded(c)
    \/ Open(c)
    \/ DecidedOtherwise(c)
    \/ \E d \in DOMAIN call : call[d].pc = "file" /\ call[d].item = c

AllKept ==
    \A c \in DOMAIN call : Request[c].op = "capture" /\ call[c].pc \notin Early => Kept(c)

\* Who will announce a contract, or was cut short.
ToldBy(c, key) ==
    /\ Request[c].op = "runColumn"
    /\ \/ call[c].pc = "threw"
       \/ call[c].pc \in {"insertContract", "contract"} /\ key \in call[c].created

AllTold ==
    \A key \in DOMAIN contracts :
        contracts[key].state = "contracted" /\ key \notin announced =>
            \E c \in DOMAIN call : ToldBy(c, key)

\* A scope is one's own by membership, or by a grant that was made.
Holds(w, scope) ==
    \/ scope \in {"org"} \cup Membership(w)
    \/ \E j \in DOMAIN shares : shares[j].to = w /\ scope \in shares[j].scopes

Shared ==
    /\ IsSequence(shares)
    /\ \A i \in DOMAIN shares :
           /\ {"to", "access", "scopes", "by", "revoked"} \subseteq DOMAIN shares[i]
           /\ shares[i].access \in DOMAIN Rank
           /\ \A scope \in shares[i].scopes : HeldBefore(i, scope)
    /\ \A c \in DOMAIN call : call[c].pc \in {"grantee", "invite", "grant"} =>
           \A scope \in call[c].scopes : Holds(Request[c].by, scope)

SheetInv == Tables /\ Jobs /\ AllKept /\ AllTold /\ Shared

-----------------------------------------------------------------------------
(* Sequences, of whatever they hold.                                       *)

\* A function from 1 .. n is a sequence.
LEMMA Numbered ==
    ASSUME NEW n \in Nat, NEW s, DOMAIN s = 1 .. n, s = [i \in 1 .. n |-> s[i]]
    PROVE  IsSequence(s) /\ Len(s) = n
<1>1. \A i \in 1 .. n : s[i] \in Range(s)
  BY DEF Range
<1>2. s \in [1 .. n -> Range(s)]
  BY <1>1
<1> HIDE DEF Range
<1> QED
  BY <1>2 DEF IsSequence

\* The places of a sequence.
LEMMA Places ==
    ASSUME NEW s, IsSequence(s)
    PROVE  /\ Len(s) \in Nat
           /\ DOMAIN s = 1 .. Len(s)
           /\ s = [i \in 1 .. Len(s) |-> s[i]]
<1> DEFINE R == Range(s)
<1>1. s \in Seq(R)
  BY DEF IsSequence
<1> HIDE DEF R
<1> QED
  BY <1>1

LEMMA PlacesFinite == ASSUME NEW s, IsSequence(s) PROVE IsFiniteSet(DOMAIN s)
<1>1. 1 \in Int /\ Len(s) \in Int /\ DOMAIN s = 1 .. Len(s)
  BY Places
<1>2. IsFiniteSet(1 .. Len(s))
  BY <1>1, FS_Interval, Zenon
<1> QED
  BY <1>1, <1>2

\* A sequence with one more entry.
LEMMA Appended ==
    ASSUME NEW s, IsSequence(s), NEW e
    PROVE  /\ IsSequence(Append(s, e))
           /\ Len(Append(s, e)) = Len(s) + 1
           /\ DOMAIN Append(s, e) = 1 .. Len(s) + 1
           /\ \A i \in 1 .. Len(s) : Append(s, e)[i] = s[i]
           /\ Append(s, e)[Len(s) + 1] = e
<1> DEFINE R == Range(s) \cup {e}
<1>1. s \in Seq(Range(s)) /\ Range(s) \subseteq R
  BY DEF IsSequence
<1>2. s \in Seq(R) /\ e \in R
  BY <1>1
<1> HIDE DEF R
<1>3. /\ Append(s, e) \in Seq(R)
      /\ Len(Append(s, e)) = Len(s) + 1
      /\ Len(s) \in Nat
      /\ \A i \in 1 .. Len(s) : Append(s, e)[i] = s[i]
      /\ Append(s, e)[Len(s) + 1] = e
  BY <1>2
<1> DEFINE t == Append(s, e)
<1>0. t \in Seq(R) /\ Len(t) = Len(s) + 1
  BY <1>3
<1> HIDE DEF t
<1>4. DOMAIN t = 1 .. Len(s) + 1 /\ t = [i \in 1 .. Len(s) + 1 |-> t[i]]
  BY <1>0
<1>5. IsSequence(t)
  BY <1>3, <1>4, Numbered
<1> QED
  BY <1>3, <1>4, <1>5 DEF t

\* A sequence with one entry replaced.
LEMMA Replaced ==
    ASSUME NEW s, IsSequence(s), NEW j, NEW e
    PROVE  /\ IsSequence([s EXCEPT ![j] = e])
           /\ DOMAIN [s EXCEPT ![j] = e] = DOMAIN s
<1> DEFINE t == [s EXCEPT ![j] = e]
<1>1. Len(s) \in Nat /\ DOMAIN s = 1 .. Len(s)
  BY Places
<1>2. DOMAIN t = 1 .. Len(s) /\ t = [i \in 1 .. Len(s) |-> t[i]]
  BY <1>1
<1> HIDE DEF t
<1>3. IsSequence(t)
  BY <1>1, <1>2, Numbered
<1> QED
  BY <1>1, <1>2, <1>3 DEF t

\* A sequence without its first entry.
LEMMA Tailed ==
    ASSUME NEW s, IsSequence(s), s # <<>>
    PROVE  /\ 1 \in DOMAIN s /\ Head(s) = s[1]
           /\ IsSequence(Tail(s))
           /\ Len(Tail(s)) = Len(s) - 1
           /\ \A i \in DOMAIN Tail(s) : i + 1 \in DOMAIN s /\ Tail(s)[i] = s[i + 1]
<1> DEFINE R == Range(s)
<1>1. s \in Seq(R)
  BY DEF IsSequence
<1> HIDE DEF R
<1>2. /\ 1 \in DOMAIN s /\ Head(s) = s[1]
      /\ Len(s) \in Nat /\ Len(s) > 0
      /\ Len(Tail(s)) = Len(s) - 1
      /\ Tail(s) \in Seq(R)
      /\ \A i \in DOMAIN Tail(s) : i + 1 \in DOMAIN s /\ Tail(s)[i] = s[i + 1]
  BY <1>1
<1> DEFINE t == Tail(s)
<1>0. t \in Seq(R) /\ Len(t) = Len(s) - 1
  BY <1>2
<1> HIDE DEF t
<1>3. Len(s) - 1 \in Nat /\ DOMAIN t = 1 .. Len(s) - 1 /\ t = [i \in 1 .. Len(s) - 1 |-> t[i]]
  BY <1>2, <1>0
<1>4. IsSequence(t)
  BY <1>2, <1>3, Numbered
<1> QED
  BY <1>2, <1>4 DEF t

\* The numbering of a finite set is a sequence of its elements.
LEMMA Enumerated ==
    ASSUME NEW S, IsFiniteSet(S)
    PROVE  \E n \in Nat : DOMAIN SetToSeq(S) = 1 .. n
<1>1. Cardinality(S) \in Nat
  BY FS_CardinalityType
<1>2. \E f : ExistsBijection(1 .. Cardinality(S), S)
  BY FS_CardinalityType
<1>3. PICK f \in [1 .. Cardinality(S) -> S] : \A a, b \in 1 .. Cardinality(S) : f[a] = f[b] => a = b
  BY <1>2 DEF ExistsBijection, Bijection, Injection, IsInjective
<1>4. SetToSeq(S) \in [1 .. Cardinality(S) -> S]
  BY <1>3 DEF SetToSeq, IsInjective
<1> QED
  BY <1>1, <1>4

-----------------------------------------------------------------------------
(* What every step keeps: tables only grow, and other calls stand.         *)

LogGrows ==
    /\ Len(log) <= Len(log')
    /\ \A i \in 1 .. Len(log) : log'[i] = log[i]

RecordsGrow ==
    \A row \in DOMAIN records :
        /\ row \in DOMAIN records'
        /\ {"source", "item"} \subseteq DOMAIN records[row] =>
               /\ {"source", "item"} \subseteq DOMAIN records'[row]
               /\ records'[row].source = records[row].source
               /\ records'[row].item = records[row].item

InboxGrows == \A i \in DOMAIN inbox : i \in DOMAIN inbox' /\ inbox[i] \subseteq inbox'[i]

\* A question or a proposed cell stays what it is, whatever becomes of it.
ProposalsGrow ==
    \A i \in DOMAIN proposals :
        /\ i \in DOMAIN proposals'
        /\ proposals'[i].kind = proposals[i].kind
        /\ proposals[i].kind = "row" => proposals'[i].item = proposals[i].item
        /\ proposals[i].kind = "cell" =>
               /\ proposals'[i].row = proposals[i].row
               /\ proposals'[i].column = proposals[i].column
               /\ proposals'[i].value = proposals[i].value

Grow == LogGrows /\ RecordsGrow /\ InboxGrows /\ ProposalsGrow

\* Questions are answered or decided, and no other way comes to an end.
QuestionsStand(c) ==
    \A i \in DOMAIN proposals :
        proposals[i].kind = "row" /\ proposals[i].status = "pending" =>
            \/ proposals'[i].status = "pending"
            \/ Request[c].op = "decide" /\ Request[c].proposal = i
            \/ call'[c].pc = "file" /\ call'[c].item = proposals[i].item

\* What the step of a call does to it alone.
Moves(c, job) ==
    /\ DOMAIN call' = DOMAIN call
    /\ call'[c] = job
    /\ \A d \in DOMAIN call \ {c} : call'[d] = call[d]

LEMMA Becomes ==
    ASSUME NEW c \in DOMAIN call, NEW job, Become(c, job) PROVE Moves(c, job)
BY DEF Become, Moves

LEMMA NothingMoves ==
    ASSUME Tables, UNCHANGED <<log, records, inbox, proposals>>
    PROVE  Tables' /\ Grow /\ UNCHANGED proposals
<1>1. Len(log) \in Nat
  BY Places DEF Tables
<1> QED
  BY <1>1 DEF Tables, Grow, LogGrows, RecordsGrow, InboxGrows, ProposalsGrow

\* A cell is written.
LEMMA CellWritten ==
    ASSUME Tables, NEW w, Insert(w), UNCHANGED <<records, inbox, proposals>>
    PROVE  Tables' /\ Grow /\ UNCHANGED proposals
<1>1. Len(log) \in Nat /\ IsSequence(log') /\ LogGrows
  BY Places, Appended DEF Tables, Insert, LogGrows
<1> QED
  BY <1>1 DEF Tables, Grow, RecordsGrow, InboxGrows, ProposalsGrow

\* Something is proposed.
LEMMA ProposalMade ==
    ASSUME Tables, NEW p, proposals' = Append(proposals, p),
           {"kind", "status"} \subseteq DOMAIN p, p.kind \in {"cell", "row"},
           p.kind = "cell" => {"row", "column", "value"} \subseteq DOMAIN p,
           p.kind = "row" => /\ "item" \in DOMAIN p /\ p.item \in Call
                             /\ Request[p.item].op = "capture",
           UNCHANGED <<log, records, inbox>>
    PROVE  /\ Tables' /\ Grow
           /\ \A i \in DOMAIN proposals : i \in DOMAIN proposals' /\ proposals'[i] = proposals[i]
           /\ Len(proposals) + 1 \in DOMAIN proposals' /\ proposals'[Len(proposals) + 1] = p
<1>1. /\ Len(log) \in Nat /\ Len(proposals) \in Nat
      /\ DOMAIN proposals = 1 .. Len(proposals)
      /\ DOMAIN proposals' = 1 .. Len(proposals) + 1
      /\ IsSequence(proposals')
      /\ \A i \in 1 .. Len(proposals) : proposals'[i] = proposals[i]
      /\ proposals'[Len(proposals) + 1] = p
  BY Places, Appended DEF Tables
<1>2. /\ \A i \in DOMAIN proposals : i \in DOMAIN proposals' /\ proposals'[i] = proposals[i]
      /\ Len(proposals) + 1 \in DOMAIN proposals'
      /\ \A i \in DOMAIN proposals' : i \in DOMAIN proposals \/ proposals'[i] = p
  BY <1>1
<1>3. Tables'
  BY <1>1, <1>2 DEF Tables
<1> QED
  BY <1>1, <1>2, <1>3 DEF Grow, LogGrows, RecordsGrow, InboxGrows, ProposalsGrow

\* A proposal gets an answer.
LEMMA ProposalAnswered ==
    ASSUME Tables, NEW j \in DOMAIN proposals, NEW status,
           proposals' = [proposals EXCEPT ![j].status = status],
           UNCHANGED <<log, records, inbox>>
    PROVE  /\ Tables' /\ Grow
           /\ \A i \in DOMAIN proposals : i # j => proposals'[i] = proposals[i]
<1>1. Len(log) \in Nat /\ IsSequence(proposals') /\ DOMAIN proposals' = DOMAIN proposals
  BY Places, Replaced DEF Tables
<1>2. \A i \in DOMAIN proposals : i # j => proposals'[i] = proposals[i]
  OBVIOUS
<1>3. proposals'[j] = [proposals[j] EXCEPT !.status = status]
  OBVIOUS
<1>4. /\ {"kind", "status"} \subseteq DOMAIN proposals'[j]
      /\ proposals'[j].kind = proposals[j].kind
      /\ proposals[j].kind = "row" =>
             "item" \in DOMAIN proposals'[j] /\ proposals'[j].item = proposals[j].item
      /\ proposals[j].kind = "cell" =>
             /\ {"row", "column", "value"} \subseteq DOMAIN proposals'[j]
             /\ proposals'[j].row = proposals[j].row
             /\ proposals'[j].column = proposals[j].column
             /\ proposals'[j].value = proposals[j].value
  BY <1>3 DEF Tables
<1>5. Tables'
  BY <1>1, <1>2, <1>4 DEF Tables
<1> QED
  BY <1>1, <1>2, <1>4, <1>5 DEF Grow, LogGrows, RecordsGrow, InboxGrows, ProposalsGrow

\* A record is added.
LEMMA RecordAdded ==
    ASSUME Tables, NEW r, records' = Append(records, r), UNCHANGED <<log, inbox, proposals>>
    PROVE  /\ Tables' /\ Grow /\ UNCHANGED proposals
           /\ Len(records) + 1 \in DOMAIN records' /\ records'[Len(records) + 1] = r
<1>1. /\ Len(log) \in Nat /\ Len(records) \in Nat
      /\ DOMAIN records = 1 .. Len(records)
      /\ DOMAIN records' = 1 .. Len(records) + 1
      /\ IsSequence(records')
      /\ \A i \in 1 .. Len(records) : records'[i] = records[i]
      /\ records'[Len(records) + 1] = r
  BY Places, Appended DEF Tables
<1>2. /\ \A i \in DOMAIN records : i \in DOMAIN records' /\ records'[i] = records[i]
      /\ Len(records) + 1 \in DOMAIN records'
  BY <1>1
<1> QED
  BY <1>1, <1>2 DEF Tables, Grow, LogGrows, RecordsGrow, InboxGrows, ProposalsGrow

\* The fields of a record are written.
LEMMA FieldsStored ==
    ASSUME Tables, NEW row, NEW fields,
           records' = [records EXCEPT ![row].fields = fields], UNCHANGED <<log, inbox, proposals>>
    PROVE  Tables' /\ Grow /\ UNCHANGED proposals
<1>1. Len(log) \in Nat /\ IsSequence(records') /\ DOMAIN records' = DOMAIN records
  BY Places, Replaced DEF Tables
<1>2. \A i \in DOMAIN records : i # row => records'[i] = records[i]
  OBVIOUS
<1>3. row \in DOMAIN records => records'[row] = [records[row] EXCEPT !.fields = fields]
  OBVIOUS
<1>4. row \in DOMAIN records =>
          /\ DOMAIN records'[row] = DOMAIN records[row]
          /\ "source" \in DOMAIN records[row] => records'[row].source = records[row].source
          /\ "item" \in DOMAIN records[row] => records'[row].item = records[row].item
  BY <1>3
<1>5. RecordsGrow
  BY <1>1, <1>2, <1>4 DEF RecordsGrow
<1> QED
  BY <1>1, <1>5 DEF Tables, Grow, LogGrows, InboxGrows, ProposalsGrow

-----------------------------------------------------------------------------
(* The jobs.                                                               *)

\* A set of numbers with a bound has a greatest one.
LEMMA Greatest ==
    ASSUME NEW n \in Nat, NEW T, T \subseteq 1 .. n, T # {}
    PROVE  Max(T) \in T /\ \A y \in T : y <= Max(T)
<1> DEFINE U == {n - x : x \in T}
<1>1. \A x \in T : x \in Nat /\ x <= n
  OBVIOUS
<1>2. U \subseteq Nat
  BY <1>1
<1>3. U # {} /\ (\A x \in T : n - x \in U) /\ (\A k \in U : \E x \in T : k = n - x)
  OBVIOUS
<1> HIDE DEF U
<1>4. PICK m \in U : \A k \in U : ~(<<k, m>> \in OpToRel(<, Nat))
  BY <1>2, <1>3, NatLessThanWellFounded, WFMin, Zenon
<1>5. \A k \in U : ~(k < m)
  BY <1>2, <1>4, Zenon DEF OpToRel
<1>6. \A k \in U : m <= k
  BY <1>2, <1>5
<1>7. PICK x \in T : m = n - x
  BY <1>3
<1>8. \A y \in T : y <= x
  BY <1>1, <1>3, <1>6, <1>7
<1>9. \A z \in T : (\A y \in T : y <= z) => z = x
  BY <1>1, <1>8
<1> QED
  BY <1>8, <1>9 DEF Max

\* A set of natural numbers has a least one.
LEMMA LeastOf == ASSUME NEW T, T \subseteq Nat, T # {} PROVE Min(T) \in T
<1>1. PICK x \in T : \A y \in T : <<y, x>> \notin OpToRel(<, Nat)
  BY NatLessThanWellFounded, WFMin, Zenon
<1>2. \A y \in T : ~(y < x)
  BY <1>1, Zenon DEF OpToRel
<1>3. \A y \in T : x <= y
  BY <1>2
<1> QED
  BY <1>3 DEF Min

\* The current cell at a place in the log.
LEMMA Current ==
    ASSUME NEW n \in Nat, NEW row, NEW column
    PROVE  LET i == CurrentCell(n, row, column) IN
           /\ i \in 0 .. n
           /\ i # 0 => log[i].row = row /\ log[i].column = column
           /\ \A j \in 1 .. n : log[j].row = row /\ log[j].column = column => i # 0 /\ j <= i
<1> DEFINE P == {i \in 1 .. n : log[i].row = row /\ log[i].column = column}
<1>1. CASE P = {}
  BY <1>1 DEF CurrentCell
<1>2. CASE P # {}
  <2>1. P \subseteq 1 .. n
    OBVIOUS
  <2>2. CurrentCell(n, row, column) = Max(P)
    BY <1>2 DEF CurrentCell
  <2>3. Max(P) \in P /\ \A y \in P : y <= Max(P)
    <3> HIDE DEF P
    <3> QED
      BY <1>2, <2>1, Greatest
  <2> QED
    BY <2>2, <2>3
<1> QED
  BY <1>1, <1>2

\* What an agent found stays what it found.
LEMMA LookedStays ==
    ASSUME Tables, LogGrows, NEW job, Looked(job) PROVE Looked(job)'
<1> DEFINE w == Head(job.writes)
           i == CurrentCell(job.looked, w.row, w.column)
<1>1. Len(log) \in Nat
  BY Places DEF Tables
<1>2. job.looked \in 0 .. Len(log) /\ job.looked \in 0 .. Len(log')
  BY <1>1 DEF Looked, LogGrows
<1>3. \A j \in 1 .. job.looked : log'[j] = log[j]
  BY <1>1, <1>2 DEF LogGrows
<1>4. {j \in 1 .. job.looked : log[j].row = w.row /\ log[j].column = w.column}
        = {j \in 1 .. job.looked : log'[j].row = w.row /\ log'[j].column = w.column}
  BY <1>3
<1>5. i' = i
  BY <1>4 DEF CurrentCell
<1>6. i \in 0 .. job.looked
  BY <1>1, <1>2, Current
<1>7. i # 0 => log'[i] = log[i]
  BY <1>1, <1>2, <1>3, <1>6
<1>8. ColumnType[w.column] \in {"formula", "output", "evidence"} \/ ~(i # 0 /\ log[i].from = "edit")
  BY DEF Looked
<1>9. ColumnType[w.column] \in {"formula", "output", "evidence"}
        \/ ~(i' # 0 /\ log'[i'].from = "edit")
  BY <1>5, <1>7, <1>8
<1> QED
  BY <1>2, <1>9 DEF Looked

\* Where a call knows nothing that the proofs need.
Plain == {"idle", "done", "threw", "fields", "store", "insert", "version", "bump", "inbox", "make",
          "fired"}

LEMMA PlainJob == ASSUME NEW c, call'[c].pc \in Plain PROVE JobOK(c)'
BY DEF JobOK, Plain

LEMMA WritingJob ==
    ASSUME NEW c, NEW job, call'[c] = job, WritingOK(job),
           job.pc \in {"write", "propose", "recompute", "compute", "fired", "fields", "done"}
    PROVE  JobOK(c)'
BY DEF JobOK, WritingOK

\* Every call knows what it knew, and the one that moves what it learnt.
LEMMA OthersStand ==
    ASSUME Tables, Jobs, Grow, NEW c \in DOMAIN call, NEW job, Moves(c, job), JobOK(c)'
    PROVE  Jobs'
<1>1. SUFFICES ASSUME NEW d \in DOMAIN call, d # c PROVE JobOK(d)'
  BY <1>1 DEF Jobs, Moves
<1>2. call'[d] = call[d] /\ JobOK(d)
  BY <1>1 DEF Moves, Jobs
<1>3. PICK mine : mine = call[d]
  OBVIOUS
<1>4. mine.pc = "land" => Looked(mine)'
  BY <1>2, <1>3, LookedStays DEF JobOK, Grow
<1>5. call'[d].pc = "land" => Looked(call[d])'
  BY <1>2, <1>3, <1>4 DEF Looked
<1> QED
  BY <1>2, <1>5 DEF JobOK, Grow, ProposalsGrow, InboxGrows

\* A job of writes, at its first one.
LEMMA WritingBegins ==
    ASSUME NEW by, NEW writes, WritesOK(writes), NEW then \in {"recompute", "fired"}, NEW strict,
           NEW after \in {"fields", "done"}
    PROVE  /\ WritingOK(Writing(by, writes, then, strict, after))
           /\ Writing(by, writes, then, strict, after).pc \in {"write", "recompute", "fired"}
BY DEF WritingOK, Writing, WritingFields

\* The next write of a job.
LEMMA WritingGoesOn ==
    ASSUME NEW job, WritingOK(job), job.writes # <<>>
    PROVE  /\ WritingOK(AfterWrite(job))
           /\ AfterWrite(job).pc \in {"write", "recompute", "fired"}
<1> DEFINE rest == Tail(job.writes)
           next == AfterWrite(job)
<1>1. PICK writes : writes = job.writes
  OBVIOUS
<1>2. IsSequence(writes) /\ Len(writes) \in Nat /\ WritesOK(writes) /\ writes # <<>>
  BY <1>1, Places DEF WritingOK, WritesOK
<1>3. /\ IsSequence(Tail(writes))
      /\ Len(Tail(writes)) = Len(writes) - 1
      /\ \A i \in DOMAIN Tail(writes) : i + 1 \in DOMAIN writes /\ Tail(writes)[i] = writes[i + 1]
  BY <1>2, Tailed
<1>4. Len(writes) > 1 => Tail(writes) # <<>>
  <2>1. PICK n \in Nat : n = Len(writes)
    BY <1>2
  <2>2. PICK t : t = Tail(writes)
    OBVIOUS
  <2>3. Len(<<>>) = 0
    OBVIOUS
  <2>4. n > 1 => Len(t) # 0
    BY <1>3, <2>1, <2>2
  <2> QED
    BY <2>1, <2>2, <2>3, <2>4
<1>5. WritesOK(rest) /\ (Len(job.writes) > 1 => rest # <<>>)
  BY <1>1, <1>2, <1>3, <1>4 DEF WritesOK
<1>6. WritingFields \subseteq DOMAIN job /\ job.then \in {"recompute", "fired"} /\ job.after \in {"fields", "done"}
  BY DEF WritingOK
<1>7. /\ DOMAIN next = DOMAIN job
      /\ next.writes = rest
      /\ next.then = job.then /\ next.after = job.after
      /\ next.pc = IF Len(job.writes) > 1 THEN "write" ELSE job.then
  BY <1>6 DEF AfterWrite, WritingFields
<1> HIDE DEF next, rest
<1>8. WritingOK(next) /\ next.pc \in {"write", "recompute", "fired"}
  BY <1>5, <1>6, <1>7 DEF WritingOK
<1> QED
  BY <1>8 DEF next

\* A record of values written to a row.
LEMMA WritesOfOK ==
    ASSUME NEW row, NEW fields, IsFiniteSet(DOMAIN fields), NEW by \in Worker, NEW from, from \notin {"formula", "proposal"}
    PROVE  WritesOK(WritesOf(row, fields, by, from))
<1> DEFINE s == WritesOf(row, fields, by, from)
<1>1. PICK n \in Nat : DOMAIN SetToSeq(DOMAIN fields) = 1 .. n
  BY Enumerated
<1>2. DOMAIN s = 1 .. n /\ s = [i \in 1 .. n |-> s[i]]
  BY <1>1 DEF WritesOf
<1>3. \A i \in DOMAIN s : s[i].by = by /\ s[i].from = from
  BY DEF WritesOf, Write
<1> HIDE DEF s
<1>4. WritesOK(s)
  BY <1>2, <1>3, Numbered DEF WritesOK
<1> QED
  BY <1>4 DEF s

\* One write.
LEMMA OneWriteOK ==
    ASSUME NEW row, NEW column, NEW value, NEW by \in Worker, NEW from, from \notin {"formula", "proposal"}
    PROVE  WritesOK(<<Write(row, column, value, by, from)>>)
<1> DEFINE s == <<Write(row, column, value, by, from)>>
<1>1. 1 \in Nat /\ DOMAIN s = 1 .. 1 /\ s = [i \in 1 .. 1 |-> s[i]] /\ s[1].by = by /\ s[1].from = from
  BY DEF Write
<1> HIDE DEF s
<1>2. IsSequence(s)
  BY <1>1, Numbered
<1>3. \A i \in DOMAIN s : i = 1
  BY <1>1
<1>4. WritesOK(s)
  BY <1>1, <1>2, <1>3 DEF WritesOK
<1> QED
  BY <1>4 DEF s

-----------------------------------------------------------------------------
(* One step of one call, statement by statement.                           *)

Granting == {"grantee", "invite", "grant"}
Deciding == {"decide", "accept"}

\* A step keeps the tables whole and growing and its call informed, files what
\* it had in hand, loses no item that was captured, makes no grant of what was
\* none, and decides nothing but what was asked.
Well(c) ==
    /\ Tables' /\ Grow /\ JobOK(c)'
    /\ Moves(c, call'[c])
    /\ QuestionsStand(c)
    /\ \A item \in Call : call[c].pc = "file" /\ call[c].item = item => Recorded(item)'
    /\ Request[c].op = "capture" /\ call[c].pc \in Early => call'[c].pc \in Early \/ Kept(c)'
    /\ call'[c].pc \in Granting => call[c].pc \in {"reach"} \cup Granting
    /\ call'[c].pc = "decide" => StartDecide(c)
    /\ call'[c].pc = "accept" => Decide(c)

\* A step that has nothing to do with captures.
LEMMA ElseWell ==
    ASSUME NEW c \in DOMAIN call, NEW job, Moves(c, job), Tables', Grow, JobOK(c)',
           UNCHANGED proposals, call[c].pc # "file",
           Request[c].op = "capture" /\ call[c].pc \in Early => job.pc \in Early,
           job.pc \in Granting => call[c].pc \in {"reach"} \cup Granting,
           job.pc \notin Deciding
    PROVE  Well(c)
BY DEF Well, Moves, QuestionsStand, Deciding

\* A step that only moves its call on to a place where it need know nothing.
LEMMA PlainWell ==
    ASSUME Tables, NEW c \in DOMAIN call, NEW job, Become(c, job), job.pc \in Plain,
           UNCHANGED <<log, records, inbox, proposals>>, call[c].pc # "file",
           Request[c].op = "capture" /\ call[c].pc \in Early => job.pc \in Early
    PROVE  Well(c)
<1>1. Moves(c, job)
  BY Becomes
<1>2. JobOK(c)'
  BY <1>1, PlainJob DEF Moves
<1> QED
  BY <1>1, <1>2, NothingMoves, ElseWell DEF Plain, Granting, Deciding

\* A step that moves its call on in a job of writes.
LEMMA WritingWell ==
    ASSUME NEW c \in DOMAIN call, NEW job, Become(c, job), WritingOK(job),
           job.pc \in {"write", "propose", "recompute", "compute", "fired", "fields", "done"},
           Tables', Grow, UNCHANGED proposals, call[c].pc # "file",
           ~(Request[c].op = "capture" /\ call[c].pc \in Early)
    PROVE  Well(c)
<1>1. Moves(c, job)
  BY Becomes
<1>2. JobOK(c)'
  BY <1>1, WritingJob DEF Moves
<1> QED
  BY <1>1, <1>2, ElseWell DEF Granting, Deciding

\* The next of the writes of a job, whatever became of this one.
LEMMA AfterWriteWell ==
    ASSUME Jobs, NEW c \in DOMAIN call, call[c].pc \in {"write", "land"},
           Become(c, AfterWrite(call[c])), Tables', Grow, UNCHANGED proposals
    PROVE  Well(c)
<1>1. WritingOK(call[c]) /\ call[c].writes # <<>>
  BY DEF Jobs, JobOK, WritingOK
<1>2. WritingOK(AfterWrite(call[c])) /\ AfterWrite(call[c]).pc \in {"write", "recompute", "fired"}
  BY <1>1, WritingGoesOn
<1> HIDE DEF AfterWrite
<1> QED
  BY <1>2, WritingWell DEF Early

LEMMA SkipWriteWell ==
    ASSUME SheetInv, NEW c \in DOMAIN call, SkipWrite(c), UNCHANGED inbox PROVE Well(c)
<1>1. Tables /\ Jobs /\ call[c].pc = "write" /\ UNCHANGED <<log, records, inbox, proposals>>
  BY DEF SheetInv, SkipWrite, Job, sheet
<1>2. Become(c, Done) \/ Become(c, AfterWrite(call[c]))
  BY DEF SkipWrite, Job
<1>3. CASE Become(c, Done)
  BY <1>1, <1>3, PlainWell DEF Done, Plain, Early
<1>4. CASE Become(c, AfterWrite(call[c]))
  BY <1>1, <1>4, NothingMoves, AfterWriteWell
<1> QED
  BY <1>2, <1>3, <1>4

LEMMA PersonWritesWell ==
    ASSUME SheetInv, NEW c \in DOMAIN call, PersonWrites(c), UNCHANGED inbox PROVE Well(c)
<1>1. /\ Tables /\ Jobs /\ call[c].pc = "write" /\ UNCHANGED <<records, inbox, proposals>>
      /\ Insert(Head(call[c].writes))
      /\ Become(c, AfterWrite(call[c]))
  BY DEF SheetInv, PersonWrites, Job
<1> QED
  BY <1>1, CellWritten, AfterWriteWell

LEMMA AgentWritesWell ==
    ASSUME SheetInv, NEW c \in DOMAIN call, AgentWrites(c), UNCHANGED inbox PROVE Well(c)
<1>1. /\ Tables /\ Jobs /\ call[c].pc = "land" /\ UNCHANGED <<records, inbox, proposals>>
      /\ Insert(Head(call[c].writes))
      /\ Become(c, AfterWrite(call[c]))
  BY DEF SheetInv, AgentWrites, Job
<1> QED
  BY <1>1, CellWritten, AfterWriteWell

\* The first of the writes of a job.
LEMMA HeadOK ==
    ASSUME NEW job, WritingOK(job), job.writes # <<>>
    PROVE  Head(job.writes).by \in Worker /\ Head(job.writes).from \notin {"formula", "proposal"}
BY Tailed DEF WritingOK, WritesOK

LEMMA AgentLooksWell ==
    ASSUME SheetInv, NEW c \in DOMAIN call, AgentLooks(c), UNCHANGED inbox PROVE Well(c)
<1> DEFINE may == AgentMayWrite(Head(call[c].writes))
           job == [call[c] EXCEPT !.pc = IF may THEN "land" ELSE "propose", !.looked = Len(log)]
<1>1. /\ Tables /\ call[c].pc = "write" /\ UNCHANGED <<log, records, inbox, proposals>>
      /\ Become(c, job)
      /\ WritingOK(call[c]) /\ call[c].writes # <<>>
  BY DEF SheetInv, Jobs, JobOK, WritingOK, AgentLooks, Job, sheet
<1>2. /\ DOMAIN job = DOMAIN call[c]
      /\ job.pc = IF may THEN "land" ELSE "propose"
      /\ job.looked = Len(log)
      /\ job.writes = call[c].writes /\ job.then = call[c].then /\ job.after = call[c].after
  BY <1>1 DEF WritingOK, WritingFields
<1>3. may => Looked(job)
  <2>1. Len(log) \in 0 .. Len(log)
    BY <1>1, Places DEF Tables
  <2> QED
    BY <1>1, <1>2, <2>1, HeadOK DEF Looked, AgentMayWrite
<1> HIDE DEF may, job
<1>4. WritingOK(job)
  BY <1>1, <1>2 DEF WritingOK
<1>5. Moves(c, job)
  BY <1>1, Becomes
<1>6. Tables' /\ Grow /\ UNCHANGED proposals
  BY <1>1, NothingMoves
<1>7. JobOK(c)'
  <2>1. CASE may
    <3>1. PICK mine : mine = job
      OBVIOUS
    <3>2. Looked(mine)'
      BY <1>1, <1>3, <1>6, <2>1, <3>1, LookedStays DEF Grow
    <3>3. Looked(call[c])'
      BY <1>5, <3>1, <3>2 DEF Looked, Moves
    <3> QED
      BY <1>2, <1>4, <1>5, <2>1, <3>3 DEF JobOK, Moves, WritingOK
  <2>2. CASE ~may
    BY <1>2, <1>4, <1>5, <2>2, WritingJob DEF Moves
  <2> QED
    BY <2>1, <2>2
<1> QED
  BY <1>1, <1>2, <1>5, <1>6, <1>7, ElseWell DEF Early, Granting, Deciding

LEMMA AgentProposesWell ==
    ASSUME SheetInv, NEW c \in DOMAIN call, AgentProposes(c), UNCHANGED inbox PROVE Well(c)
<1>1. /\ Tables /\ call[c].pc = "propose" /\ UNCHANGED <<log, records, inbox>>
      /\ Become(c, Done) \/ Become(c, AfterWrite(call[c]))
      /\ WritingOK(call[c]) /\ call[c].writes # <<>>
  BY DEF SheetInv, Jobs, JobOK, WritingOK, AgentProposes, Job
<1>2. /\ Tables' /\ Grow
      /\ \A i \in DOMAIN proposals : i \in DOMAIN proposals' /\ proposals'[i] = proposals[i]
  <2> DEFINE w == Head(call[c].writes)
             p == [kind |-> "cell", row |-> w.row, column |-> w.column,
                   value |-> w.value, by |-> w.by, status |-> "pending"]
  <2>1. proposals' = Append(proposals, p)
    BY DEF AgentProposes, Job
  <2>2. {"kind", "status", "row", "column", "value"} \subseteq DOMAIN p /\ p.kind = "cell"
    OBVIOUS
  <2> HIDE DEF p
  <2> QED
    BY <1>1, <2>1, <2>2, ProposalMade
<1>3. WritingOK(AfterWrite(call[c])) /\ AfterWrite(call[c]).pc \in {"write", "recompute", "fired"}
  BY <1>1, WritingGoesOn
<1>4. Moves(c, call'[c]) /\ JobOK(c)' /\ call'[c].pc \notin Granting \cup Deciding
  <2>1. CASE Become(c, Done)
    BY <2>1, Becomes, PlainJob DEF Moves, Done, Plain, Granting, Deciding
  <2>2. CASE Become(c, AfterWrite(call[c]))
    BY <1>3, <2>2, Becomes, WritingJob DEF Moves, Granting, Deciding
  <2> QED
    BY <1>1, <2>1, <2>2
<1> QED
  BY <1>1, <1>2, <1>4 DEF Well, QuestionsStand, Early, Granting, Deciding

LEMMA ReadSheetWell ==
    ASSUME SheetInv, NEW c \in DOMAIN call, ReadSheet(c), UNCHANGED inbox PROVE Well(c)
<1> DEFINE snapshot == [seen |-> Len(log), rows |-> Len(records), columns |-> columns]
           job == [call[c] EXCEPT !.pc = "compute", !.snapshot = snapshot,
                                  !.todo = CellsInOrder(snapshot)]
<1>1. /\ Tables /\ call[c].pc = "recompute" /\ UNCHANGED <<log, records, inbox, proposals>>
      /\ Become(c, job)
      /\ WritingOK(call[c])
  BY DEF SheetInv, Jobs, JobOK, ReadSheet, Job, sheet
<1>2. /\ DOMAIN job = DOMAIN call[c]
      /\ job.pc = "compute"
      /\ job.writes = call[c].writes /\ job.then = call[c].then /\ job.after = call[c].after
      /\ job.todo = CellsInOrder(snapshot)
  BY <1>1 DEF WritingOK, WritingFields
<1>4. DOMAIN CellsInOrder(snapshot) \subseteq Nat
  BY DEF CellsInOrder
<1> HIDE DEF job
<1>3. WritingOK(job)
  BY <1>1, <1>2, <1>4 DEF WritingOK
<1> QED
  BY <1>1, <1>2, <1>3, NothingMoves, WritingWell DEF Early

LEMMA RecomputeFormulasWell ==
    ASSUME SheetInv, NEW c \in DOMAIN call, RecomputeFormulas(c), UNCHANGED inbox PROVE Well(c)
<1> DEFINE changed == {i \in DOMAIN call[c].todo : Changed(call[c].todo[i], call[c].snapshot)}
           ended == [call[c] EXCEPT !.todo = <<>>, !.pc = call[c].after]
           on == [call[c] EXCEPT !.todo = SubSeq(@, Min(changed) + 1, Len(@))]
<1>1. /\ Tables /\ call[c].pc = "compute" /\ UNCHANGED <<records, inbox, proposals>>
      /\ \/ Become(c, ended) /\ UNCHANGED log
         \/ Become(c, on) /\ \E w \in {log'[Len(log')]} : Insert(w)
      /\ WritingOK(call[c])
  <2>1. Tables /\ call[c].pc = "compute" /\ WritingOK(call[c])
    BY DEF SheetInv, Jobs, JobOK, RecomputeFormulas, Job
  <2>2. CASE changed = {}
    BY <2>1, <2>2 DEF RecomputeFormulas, Job
  <2>3. CASE changed # {}
    <3> DEFINE w == [row |-> call[c].todo[Min(changed)][1], column |-> call[c].todo[Min(changed)][2],
                     by |-> call[c].by, from |-> "formula",
                     value |-> ValueIn(call[c].todo[Min(changed)], call[c].snapshot)]
    <3>1. Insert(w) /\ Become(c, on) /\ UNCHANGED <<records, inbox, proposals>>
      BY <2>3 DEF RecomputeFormulas, Job
    <3> HIDE DEF w
    <3>2. w = log'[Len(log')]
      BY <2>1, <3>1, Appended, Places DEF Tables, Insert
    <3> QED
      BY <2>1, <3>1, <3>2
  <2> QED
    BY <2>2, <2>3
<1>2. /\ DOMAIN ended = DOMAIN call[c] /\ DOMAIN on = DOMAIN call[c]
      /\ ended.pc = call[c].after /\ on.pc = "compute"
      /\ \A job \in {ended, on} :
             job.writes = call[c].writes /\ job.then = call[c].then /\ job.after = call[c].after
      /\ on.todo = SubSeq(call[c].todo, Min(changed) + 1, Len(call[c].todo))
  BY <1>1 DEF WritingOK, WritingFields
<1>5. DOMAIN SubSeq(call[c].todo, Min(changed) + 1, Len(call[c].todo)) \subseteq Nat
  <2> HIDE DEF changed
  <2> QED
    OBVIOUS
<1> HIDE DEF ended, on, changed
<1>3. WritingOK(ended) /\ WritingOK(on) /\ ended.pc \in {"fields", "done"}
  BY <1>1, <1>2, <1>5 DEF WritingOK
<1>4. Tables' /\ Grow /\ UNCHANGED proposals
  BY <1>1, NothingMoves, CellWritten
<1> QED
  BY <1>1, <1>2, <1>3, <1>4, WritingWell DEF Early

LEMMA CellsWell ==
    ASSUME SheetInv, NEW c \in DOMAIN call, CellsStep(c), UNCHANGED inbox PROVE Well(c)
BY SkipWriteWell, PersonWritesWell, AgentLooksWell, AgentWritesWell, AgentProposesWell, ReadSheetWell,
   RecomputeFormulasWell DEF CellsStep

-----------------------------------------------------------------------------
(* The grid.                                                               *)

\* A call that has not begun.
LEMMA AsksIdle ==
    ASSUME SheetInv, NEW c \in DOMAIN call, NEW op, Asks(c, op)
    PROVE  Tables /\ Jobs /\ c \in Call /\ call[c].pc = "idle" /\ Request[c].op = op
BY DEF SheetInv, Jobs, Asks, Arrives, Idle

\* What is not a capture has nothing to file.
LEMMA BeginsWell ==
    ASSUME NEW c \in DOMAIN call, NEW op, Request[c].op = op, op # "capture", call[c].pc = "idle", Tables,
           NEW job, Become(c, job), UNCHANGED proposals, Tables', Grow,
           job.pc \in Plain \/ (WritingOK(job) /\ job.pc \in {"write", "recompute", "fired"})
    PROVE  Well(c)
<1>1. Moves(c, job)
  BY Becomes
<1>2. JobOK(c)'
  BY <1>1, PlainJob, WritingJob DEF Moves
<1> QED
  BY <1>1, <1>2, ElseWell DEF Plain, Granting, Deciding

LEMMA StartEditWell ==
    ASSUME SheetInv, NEW c \in DOMAIN call, StartEdit(c), UNCHANGED inbox PROVE Well(c)
<1> DEFINE r == Request[c]
           writes == <<Write(r.row, r.column, r.value, r.by, EditFrom(r.by))>>
           after == IF ColumnType[r.column] = "input" THEN "fields" ELSE "done"
           job == IF Contains(columns, r.column) THEN Writing(r.by, writes, "recompute", TRUE, after) ELSE Done
<1>1. Asks(c, "edit") /\ Become(c, job) /\ UNCHANGED <<log, records, inbox, proposals>>
  BY DEF StartEdit, sheet
<1>2. Tables /\ c \in Call /\ call[c].pc = "idle" /\ Request[c].op = "edit"
  BY <1>1, AsksIdle
<1>3. WritesOK(writes)
  BY <1>2, GridAssumption, OneWriteOK DEF EditFrom
<1>4. after \in {"fields", "done"}
  OBVIOUS
<1>5. job.pc \in Plain \/ (WritingOK(job) /\ job.pc \in {"write", "recompute", "fired"})
  <2> HIDE DEF writes, after
  <2>1. LET w == Writing(r.by, writes, "recompute", TRUE, after) IN
        WritingOK(w) /\ w.pc \in {"write", "recompute", "fired"}
    BY <1>3, <1>4, WritingBegins
  <2>2. Done.pc \in Plain
    BY DEF Done, Plain
  <2> QED
    BY <2>1, <2>2
<1> HIDE DEF job
<1> QED
  BY <1>1, <1>2, <1>5, NothingMoves, BeginsWell

LEMMA FieldsWell ==
    ASSUME SheetInv, NEW c \in DOMAIN call, ReadFields(c) \/ StoreFields(c), UNCHANGED inbox
    PROVE  Well(c)
<1>1. Tables
  BY DEF SheetInv
<1>2. CASE ReadFields(c)
  <2> DEFINE job == [pc |-> "store",
                     fields |-> With(records[Request[c].row].fields, Request[c].column, Request[c].value)]
  <2>1. call[c].pc = "fields" /\ Become(c, job) /\ UNCHANGED <<log, records, inbox, proposals>>
    BY <1>2 DEF ReadFields, Job, sheet
  <2>2. job.pc \in Plain
    BY DEF Plain
  <2> HIDE DEF job
  <2> QED
    BY <1>1, <2>1, <2>2, PlainWell DEF Early
<1>3. CASE StoreFields(c)
  <2>1. /\ call[c].pc = "store" /\ Become(c, Done) /\ UNCHANGED <<log, inbox, proposals>>
        /\ records' = [records EXCEPT ![Request[c].row].fields = call[c].fields]
    BY <1>3 DEF StoreFields, Job
  <2>2. Tables' /\ Grow
    BY <1>1, <2>1, FieldsStored
  <2>3. Moves(c, Done) /\ JobOK(c)'
    BY <2>1, Becomes, PlainJob DEF Moves, Done, Plain
  <2> QED
    BY <2>1, <2>2, <2>3, ElseWell DEF Early, Granting, Deciding, Done
<1> QED
  BY <1>2, <1>3

LEMMA StartAddRowWell ==
    ASSUME SheetInv, NEW c \in DOMAIN call, StartAddRow(c), UNCHANGED inbox PROVE Well(c)
<1> DEFINE r == Request[c]
           writes == WritesOf(Len(records) + 1, r.fields, r.by, "edit")
           job == Writing(r.by, writes, "recompute", FALSE, "done")
<1>1. /\ Asks(c, "addRow")
      /\ \/ /\ records' = Append(records, NewRecord(r.fields, {}, "grid"))
            /\ Become(c, job)
         \/ Become(c, Done) /\ UNCHANGED records
      /\ UNCHANGED <<log, inbox, proposals>>
  BY DEF StartAddRow
<1>2. Tables /\ c \in Call /\ call[c].pc = "idle" /\ Request[c].op = "addRow"
  BY <1>1, AsksIdle
<1>3. WritesOK(writes)
  BY <1>2, GridAssumption, WritesOfOK
<1>4. WritingOK(job) /\ job.pc \in {"write", "recompute", "fired"}
  <2> HIDE DEF writes
  <2> QED
    BY <1>3, WritingBegins
<1>5. Done.pc \in Plain
  BY DEF Done, Plain
<1>6. Tables' /\ Grow /\ UNCHANGED proposals
  BY <1>1, <1>2, RecordAdded, NothingMoves
<1> HIDE DEF job
<1> QED
  BY <1>1, <1>2, <1>4, <1>5, <1>6, BeginsWell

LEMMA AddColumnWell ==
    ASSUME SheetInv, NEW c \in DOMAIN call, UNCHANGED inbox,
           StartAddColumn(c) \/ InsertColumn(c) \/ ReadVersion(c) \/ BumpVersion(c)
    PROVE  Well(c)
<1>1. Tables
  BY DEF SheetInv
<1>2. CASE StartAddColumn(c)
  <2>1. Asks(c, "addColumn") /\ UNCHANGED <<log, records, inbox, proposals>>
        /\ (Become(c, [pc |-> "insert"]) \/ Become(c, Done))
    BY <1>2 DEF StartAddColumn, sheet
  <2>2. call[c].pc = "idle" /\ Request[c].op = "addColumn"
    BY <2>1, AsksIdle
  <2> QED
    BY <1>1, <2>1, <2>2, PlainWell DEF Plain, Done
<1>3. CASE InsertColumn(c)
  <2>1. call[c].pc = "insert" /\ UNCHANGED <<log, records, inbox, proposals>>
        /\ (Become(c, [pc |-> "threw"]) \/ Become(c, [pc |-> "version"]))
    BY <1>3 DEF InsertColumn, Job
  <2> QED
    BY <1>1, <2>1, PlainWell DEF Plain, Early
<1>4. CASE ReadVersion(c)
  <2>1. call[c].pc = "version" /\ UNCHANGED <<log, records, inbox, proposals>>
        /\ Become(c, [pc |-> "bump", version |-> version + 1])
    BY <1>4 DEF ReadVersion, Job, sheet
  <2> QED
    BY <1>1, <2>1, PlainWell DEF Plain, Early
<1>5. CASE BumpVersion(c)
  <2> DEFINE job == Writing(Request[c].by, <<>>, "recompute", FALSE, "done")
  <2>1. call[c].pc = "bump" /\ UNCHANGED <<log, records, inbox, proposals>> /\ Become(c, job)
    BY <1>5 DEF BumpVersion, Job
  <2>2. WritesOK(<<>>)
    BY DEF WritesOK, IsSequence
  <2>3. WritingOK(job) /\ job.pc \in {"write", "recompute", "fired"}
    BY <2>2, WritingBegins
  <2> HIDE DEF job
  <2> QED
    BY <1>1, <2>1, <2>3, NothingMoves, WritingWell DEF Early
<1> QED
  BY <1>2, <1>3, <1>4, <1>5

LEMMA StartAgentCellWell ==
    ASSUME SheetInv, NEW c \in DOMAIN call, StartAgentCell(c), UNCHANGED inbox PROVE Well(c)
<1> DEFINE r == Request[c]
           writes == <<Write(r.row, r.column, r.value, r.by, "tool")>>
           job == Writing(r.by, writes, "recompute", FALSE, "done")
<1>1. /\ Asks(c, "agentCell") /\ UNCHANGED <<log, records, inbox, proposals>>
      /\ Become(c, job) \/ Become(c, Done)
  BY DEF StartAgentCell, sheet
<1>2. Tables /\ c \in Call /\ call[c].pc = "idle" /\ Request[c].op = "agentCell"
  BY <1>1, AsksIdle
<1>3. WritesOK(writes)
  BY <1>2, GridAssumption, OneWriteOK
<1>4. WritingOK(job) /\ job.pc \in {"write", "recompute", "fired"}
  <2> HIDE DEF writes
  <2> QED
    BY <1>3, WritingBegins
<1>5. Done.pc \in Plain
  BY DEF Done, Plain
<1> HIDE DEF job
<1> QED
  BY <1>1, <1>2, <1>4, <1>5, NothingMoves, BeginsWell

LEMMA StartRefreshWell ==
    ASSUME SheetInv, NEW c \in DOMAIN call, StartRefresh(c), UNCHANGED inbox PROVE Well(c)
<1> DEFINE r == Request[c]
           writes == WritesOf(r.row, r.fields, r.by, "runtime")
           job == Writing(r.by, writes, "recompute", FALSE, "done")
<1>1. /\ Asks(c, "refresh") /\ UNCHANGED <<log, records, inbox, proposals>>
      /\ Become(c, job) \/ Become(c, Done)
  BY DEF StartRefresh, sheet
<1>2. Tables /\ c \in Call /\ call[c].pc = "idle" /\ Request[c].op = "refresh"
  BY <1>1, AsksIdle
<1>3. WritesOK(writes)
  BY <1>2, GridAssumption, WritesOfOK
<1>4. WritingOK(job) /\ job.pc \in {"write", "recompute", "fired"}
  <2> HIDE DEF writes
  <2> QED
    BY <1>3, WritingBegins
<1>5. Done.pc \in Plain
  BY DEF Done, Plain
<1> HIDE DEF job
<1> QED
  BY <1>1, <1>2, <1>4, <1>5, NothingMoves, BeginsWell

LEMMA ProposeWell ==
    ASSUME SheetInv, NEW c \in DOMAIN call, Propose(c), UNCHANGED inbox PROVE Well(c)
<1> DEFINE r == Request[c]
           p == [kind |-> "cell", row |-> r.row, column |-> r.column,
                 value |-> r.value, by |-> r.by, status |-> "pending"]
<1>1. /\ Asks(c, "propose") /\ Become(c, Done) /\ UNCHANGED <<log, records, inbox>>
      /\ proposals' = Append(proposals, p)
  BY DEF Propose
<1>2. Tables /\ call[c].pc = "idle" /\ Request[c].op = "propose"
  BY <1>1, AsksIdle
<1>3. {"kind", "status", "row", "column", "value"} \subseteq DOMAIN p /\ p.kind = "cell"
  OBVIOUS
<1> HIDE DEF p
<1>4. /\ Tables' /\ Grow
      /\ \A i \in DOMAIN proposals : i \in DOMAIN proposals' /\ proposals'[i] = proposals[i]
  BY <1>1, <1>2, <1>3, ProposalMade
<1>5. Moves(c, call'[c]) /\ JobOK(c)' /\ call'[c].pc \notin Granting \cup Deciding
  BY <1>1, Becomes, PlainJob DEF Moves, Done, Plain, Granting, Deciding
<1> QED
  BY <1>2, <1>4, <1>5 DEF Well, QuestionsStand, Granting, Deciding

LEMMA StartDecideWell ==
    ASSUME SheetInv, NEW c \in DOMAIN call, StartDecide(c), UNCHANGED inbox PROVE Well(c)
<1>1. /\ Asks(c, "decide") /\ UNCHANGED <<log, records, inbox, proposals>>
      /\ \/ Become(c, Done)
         \/ Become(c, [pc |-> "decide"]) /\ Decidable(c)
  BY DEF StartDecide, sheet
<1>2. Tables /\ call[c].pc = "idle" /\ Request[c].op = "decide"
  BY <1>1, AsksIdle
<1>3. CASE Become(c, Done)
  BY <1>1, <1>2, <1>3, PlainWell DEF Plain, Done
<1>4. CASE Become(c, [pc |-> "decide"]) /\ Decidable(c)
  <2>1. Moves(c, [pc |-> "decide"])
    BY <1>4, Becomes
  <2>2. JobOK(c)'
    BY <1>1, <1>2, <1>4, <2>1 DEF JobOK, Moves, Decidable
  <2> QED
    BY <1>1, <1>2, <2>1, <2>2, NothingMoves DEF Well, Moves, QuestionsStand, Granting
<1> QED
  BY <1>1, <1>3, <1>4

LEMMA DecideWell ==
    ASSUME SheetInv, NEW c \in DOMAIN call, Decide(c), UNCHANGED inbox PROVE Well(c)
<1> DEFINE r == Request[c]
<1>1. /\ Tables /\ call[c].pc = "decide" /\ UNCHANGED <<log, records, inbox>>
      /\ proposals' = [proposals EXCEPT ![r.proposal].status = r.decision]
      /\ Become(c, Done) \/ (Become(c, [pc |-> "accept"]) /\ proposals[r.proposal].kind = "cell")
      /\ r.op = "decide" /\ r.by \in Person /\ r.proposal \in DOMAIN proposals
  BY DEF SheetInv, Jobs, JobOK, Decide, Job
<1>2. /\ Tables' /\ Grow
      /\ \A i \in DOMAIN proposals : i # r.proposal => proposals'[i] = proposals[i]
  BY <1>1, ProposalAnswered
<1>3. /\ Moves(c, call'[c])
      /\ call'[c].pc = "done" \/ (call'[c].pc = "accept" /\ proposals[r.proposal].kind = "cell")
  BY <1>1, Becomes DEF Moves, Done
<1>4. JobOK(c)'
  BY <1>1, <1>2, <1>3 DEF JobOK, Grow, ProposalsGrow
<1> QED
  BY <1>1, <1>2, <1>3, <1>4 DEF Well, QuestionsStand, Early, Granting, Deciding

LEMMA AcceptCellWell ==
    ASSUME SheetInv, NEW c \in DOMAIN call, AcceptCell(c), UNCHANGED inbox PROVE Well(c)
<1>1. /\ Tables /\ call[c].pc = "accept" /\ UNCHANGED <<records, inbox, proposals>> /\ Become(c, Done)
      /\ \E w \in {log'[Len(log')]} : Insert(w)
  <2> DEFINE p == proposals[Request[c].proposal]
             w == Write(p.row, p.column, p.value, Request[c].by, "proposal")
  <2>1. Tables /\ call[c].pc = "accept" /\ UNCHANGED <<records, inbox, proposals>> /\ Become(c, Done)
        /\ Insert(w)
    BY DEF SheetInv, AcceptCell, Job
  <2> HIDE DEF w
  <2>2. w = log'[Len(log')]
    BY <2>1, Appended, Places DEF Tables, Insert
  <2> QED
    BY <2>1, <2>2
<1>2. Tables' /\ Grow
  BY <1>1, CellWritten
<1>3. Moves(c, Done) /\ JobOK(c)'
  BY <1>1, Becomes, PlainJob DEF Moves, Done, Plain
<1> QED
  BY <1>1, <1>2, <1>3, ElseWell DEF Early, Granting, Deciding, Done

LEMMA GridWell ==
    ASSUME SheetInv, NEW c \in DOMAIN call, GridStep(c), UNCHANGED inbox PROVE Well(c)
<1>1. CASE StartEdit(c) \/ ReadFields(c) \/ StoreFields(c) \/ StartAddRow(c)
  BY <1>1, StartEditWell, FieldsWell, StartAddRowWell
<1>2. CASE StartAddColumn(c) \/ InsertColumn(c) \/ ReadVersion(c) \/ BumpVersion(c)
  BY <1>2, AddColumnWell
<1>3. CASE StartAgentCell(c) \/ StartRefresh(c) \/ Propose(c)
  BY <1>3, StartAgentCellWell, StartRefreshWell, ProposeWell
<1>4. CASE StartDecide(c) \/ Decide(c) \/ AcceptCell(c)
  BY <1>4, StartDecideWell, DecideWell, AcceptCellWell
<1> QED
  BY <1>1, <1>2, <1>3, <1>4 DEF GridStep

-----------------------------------------------------------------------------
(* Captures.                                                               *)

\* What a capture comes to, of the rows it is about.
LEMMA CaptureBecomes ==
    ASSUME SheetInv, NEW c \in DOMAIN call, StartCapture(c)
    PROVE  LET found == FindCandidates(Request[c]) IN
           \/ Become(c, [pc |-> "ask", found |-> FirstOf(found)])
           \/ \E row : Become(c, [pc |-> "file", row |-> row, item |-> c])
           \/ Become(c, [pc |-> "inbox"])
<1> DEFINE found == FindCandidates(Request[c])
<1>1. IsFiniteSet(DOMAIN records)
  BY PlacesFinite DEF SheetInv, Tables
<1>2. found \subseteq DOMAIN records
  BY DEF FindCandidates
<1>3. IsFiniteSet(found)
  BY <1>1, <1>2, FS_Subset
<1> HIDE DEF found
<1>4. Cardinality(found) \in Nat
  BY <1>3, FS_CardinalityType
<1>5. Become(c, CASE Cardinality(found) > 1 -> [pc |-> "ask", found |-> FirstOf(found)]
                  [] Cardinality(found) = 1 ->
                       [pc |-> "file", row |-> CHOOSE row \in found : TRUE, item |-> c]
                  [] found = {} /\ Request[c].onSheet -> [pc |-> "file", row |-> NoRow, item |-> c]
                  [] OTHER -> [pc |-> "inbox"])
  BY DEF StartCapture, found
<1>6. Cardinality({}) = 0
  BY FS_EmptySet
<1> QED
  BY <1>4, <1>5, <1>6 DEF found

LEMMA StartCaptureWell ==
    ASSUME SheetInv, NEW c \in DOMAIN call, StartCapture(c) PROVE Well(c)
<1> DEFINE found == FindCandidates(Request[c])
<1>1. Asks(c, "capture") /\ UNCHANGED <<log, records, inbox, proposals>>
  BY DEF StartCapture, sheet
<1>2. Tables /\ c \in Call /\ call[c].pc = "idle" /\ Request[c].op = "capture"
  BY <1>1, AsksIdle
<1>3. \/ Become(c, [pc |-> "ask", found |-> FirstOf(found)])
      \/ \E row : Become(c, [pc |-> "file", row |-> row, item |-> c])
      \/ Become(c, [pc |-> "inbox"])
  BY CaptureBecomes
<1>4. Moves(c, call'[c]) /\ (call'[c].pc \in {"ask", "inbox"} \/ (call'[c].pc = "file" /\ call'[c].item = c))
  <2>1. CASE Become(c, [pc |-> "ask", found |-> FirstOf(found)]) \/ Become(c, [pc |-> "inbox"])
    <3> HIDE DEF found
    <3> QED
      BY <2>1, Becomes DEF Moves
  <2>2. CASE \E row : Become(c, [pc |-> "file", row |-> row, item |-> c])
    <3>1. PICK row : Become(c, [pc |-> "file", row |-> row, item |-> c])
      BY <2>2
    <3>2. Moves(c, [pc |-> "file", row |-> row, item |-> c])
      BY <3>1, Becomes
    <3> QED
      BY <3>2 DEF Moves
  <2> QED
    BY <1>3, <2>1, <2>2
<1>5. JobOK(c)'
  BY <1>2, <1>4 DEF JobOK
<1>6. call'[c].pc \in Early \/ Kept(c)'
  BY <1>4 DEF Early, Kept, Moves
<1> QED
  BY <1>1, <1>2, <1>4, <1>5, <1>6, NothingMoves DEF Well, QuestionsStand, Granting, Deciding

LEMMA AskWhichWell ==
    ASSUME SheetInv, NEW c \in DOMAIN call, AskWhich(c) PROVE Well(c)
<1> DEFINE p == [kind |-> "row", item |-> c, rows |-> call[c].found,
                 by |-> Request[c].by, status |-> "pending"]
<1>1. /\ Tables /\ c \in Call /\ call[c].pc = "ask" /\ Request[c].op = "capture"
      /\ Become(c, Done) /\ UNCHANGED <<log, records, inbox>>
      /\ proposals' = Append(proposals, p)
  BY DEF SheetInv, Jobs, JobOK, AskWhich, Job
<1>2. {"kind", "status", "item"} \subseteq DOMAIN p /\ p.kind = "row" /\ p.item = c /\ p.status = "pending"
  OBVIOUS
<1> HIDE DEF p
<1>3. /\ Tables' /\ Grow
      /\ \A i \in DOMAIN proposals : i \in DOMAIN proposals' /\ proposals'[i] = proposals[i]
      /\ Len(proposals) + 1 \in DOMAIN proposals' /\ proposals'[Len(proposals) + 1] = p
  BY <1>1, <1>2, ProposalMade
<1>4. Kept(c)'
  BY <1>2, <1>3 DEF Kept, Open, ToSet
<1>5. Moves(c, call'[c]) /\ JobOK(c)' /\ call'[c].pc \notin Granting \cup Deciding
  BY <1>1, Becomes, PlainJob DEF Moves, Done, Plain, Granting, Deciding
<1> QED
  BY <1>1, <1>3, <1>4, <1>5 DEF Well, QuestionsStand, Granting, Deciding

\* The sheets named Inbox are a sequence, and grow.
LEMMA InboxWell ==
    ASSUME SheetInv, NEW c \in DOMAIN call, FindInbox(c) \/ MakeInbox(c) PROVE Well(c)
<1>1. Tables /\ Len(log) \in Nat /\ Len(inbox) \in Nat /\ DOMAIN inbox = 1 .. Len(inbox)
  BY Places DEF SheetInv, Tables
<1>2. CASE FindInbox(c)
  <2> DEFINE job == [pc |-> IF inbox = <<>> THEN "make" ELSE "keep", inbox |-> 1]
  <2>1. call[c].pc = "inbox" /\ Become(c, job) /\ UNCHANGED <<log, records, inbox, proposals>>
    BY <1>2 DEF FindInbox, Job, sheet
  <2>2. inbox # <<>> => 1 \in DOMAIN inbox
    BY <1>1, Tailed DEF Tables
  <2>3. Moves(c, job)
    BY <2>1, Becomes
  <2>4. JobOK(c)'
    BY <2>1, <2>2, <2>3 DEF JobOK, Moves
  <2>5. job.pc \in Early
    BY DEF Early
  <2> QED
    BY <1>1, <2>1, <2>3, <2>4, <2>5, NothingMoves, ElseWell DEF Granting, Deciding
<1>3. CASE MakeInbox(c)
  <2> DEFINE job == [pc |-> "keep", inbox |-> Len(inbox) + 1]
  <2>1. /\ call[c].pc = "make" /\ Become(c, job) /\ UNCHANGED <<log, records, proposals>>
        /\ inbox' = Append(inbox, {})
    BY <1>3 DEF MakeInbox, Job, sheet
  <2>2. /\ IsSequence(inbox')
        /\ DOMAIN inbox' = 1 .. Len(inbox) + 1
        /\ \A i \in 1 .. Len(inbox) : inbox'[i] = inbox[i]
    BY <1>1, <2>1, Appended DEF Tables
  <2>3. Moves(c, job)
    BY <2>1, Becomes
  <2>4. JobOK(c)'
    BY <1>1, <2>1, <2>2, <2>3 DEF JobOK, Moves
  <2>5. Tables' /\ Grow
    BY <1>1, <2>1, <2>2 DEF Tables, Grow, LogGrows, RecordsGrow, InboxGrows, ProposalsGrow
  <2>6. job.pc \in Early
    BY DEF Early
  <2> QED
    BY <2>1, <2>3, <2>4, <2>5, <2>6, ElseWell DEF Granting, Deciding
<1> QED
  BY <1>2, <1>3

LEMMA FileInInboxWell ==
    ASSUME SheetInv, NEW c \in DOMAIN call, FileInInbox(c) PROVE Well(c)
<1> DEFINE n == call[c].inbox
<1>1. /\ Tables /\ call[c].pc = "keep" /\ Become(c, Done) /\ UNCHANGED <<log, records, proposals>>
      /\ inbox' = [inbox EXCEPT ![n] = @ \cup {c}]
      /\ n \in DOMAIN inbox
  BY DEF SheetInv, Jobs, JobOK, FileInInbox, Job, sheet
<1>2. IsSequence(inbox') /\ DOMAIN inbox' = DOMAIN inbox /\ Len(log) \in Nat
  BY <1>1, Replaced, Places DEF Tables
<1>3. c \in inbox'[n] /\ n \in DOMAIN inbox' /\ InboxGrows
  BY <1>1, <1>2 DEF InboxGrows
<1>4. Tables' /\ Grow
  BY <1>1, <1>2, <1>3 DEF Tables, Grow, LogGrows, RecordsGrow, ProposalsGrow
<1>5. Kept(c)'
  BY <1>3 DEF Kept
<1>6. Moves(c, call'[c]) /\ JobOK(c)' /\ call'[c].pc \notin Granting \cup Deciding
  BY <1>1, Becomes, PlainJob DEF Moves, Done, Plain, Granting, Deciding
<1> QED
  BY <1>1, <1>4, <1>5, <1>6 DEF Well, QuestionsStand, Granting, Deciding

LEMMA FileRecordWell ==
    ASSUME SheetInv, NEW c \in DOMAIN call, FileRecord(c) PROVE Well(c)
<1>1. PICK item : item = call[c].item
  OBVIOUS
<1> DEFINE r == Request[item]
           record == [fields |-> r.fields, words |-> r.words, source |-> r.source, item |-> item]
           filling == FillBlanks(call[c].row, r.fields, r.by)
           job == IF call[c].row = NoRow THEN Done ELSE filling
<1>2. /\ Tables /\ call[c].pc = "file" /\ UNCHANGED <<log, inbox, proposals>>
      /\ records' = Append(records, record)
      /\ Become(c, job)
      /\ item \in Call /\ r.op = "capture"
  BY <1>1 DEF SheetInv, Jobs, JobOK, FileRecord, Job
<1>3. {"source", "item"} \subseteq DOMAIN record /\ record.source \in CaptureSources /\ record.item = item
  BY <1>2, CaptureAssumption
<1> HIDE DEF record
<1>4. /\ Tables' /\ Grow /\ UNCHANGED proposals
      /\ Len(records) + 1 \in DOMAIN records' /\ records'[Len(records) + 1] = record
  BY <1>2, RecordAdded
<1>5. Recorded(item)'
  BY <1>3, <1>4 DEF Recorded
<1>6. WritingOK(filling) /\ filling.pc \in {"write", "recompute", "fired"}
  <2> DEFINE kept == {k \in DOMAIN r.fields : Contains(columns, k) /\ ColumnType[k] # "status"}
             fields == [k \in kept |-> r.fields[k]]
             writes == WritesOf(call[c].row, fields, r.by, "tool")
  <2>1. r.by \in Worker /\ IsFiniteSet(DOMAIN r.fields)
    BY <1>2, GridAssumption
  <2>2. IsFiniteSet(DOMAIN fields)
    BY <2>1, FS_Subset
  <2>3. WritesOK(writes)
    <3> HIDE DEF fields
    <3> QED
      BY <2>1, <2>2, WritesOfOK
  <2>4. filling = Writing(r.by, writes, "recompute", FALSE, "done")
    BY DEF FillBlanks
  <2> HIDE DEF writes
  <2> QED
    BY <2>3, <2>4, WritingBegins
<1> HIDE DEF filling
<1>7. Moves(c, job) /\ JobOK(c)' /\ job.pc \in {"write", "recompute", "fired", "done"}
  <2>1. Moves(c, job) /\ call'[c] = job
    BY <1>2, Becomes DEF Moves
  <2>2. CASE call[c].row = NoRow
    BY <2>1, <2>2, PlainJob DEF Done, Plain
  <2>3. CASE call[c].row # NoRow
    BY <1>6, <2>1, <2>3, WritingJob
  <2> QED
    BY <2>1, <2>2, <2>3
<1> HIDE DEF job
<1> QED
  BY <1>1, <1>2, <1>4, <1>5, <1>6, <1>7 DEF Well, QuestionsStand, Early, Moves, Granting, Deciding

LEMMA StartAnswerWell ==
    ASSUME SheetInv, NEW c \in DOMAIN call, StartAnswer(c) PROVE Well(c)
<1>1. /\ Asks(c, "answer") /\ UNCHANGED <<log, records, inbox, proposals>>
      /\ \/ Become(c, Done)
         \/ /\ Become(c, [pc |-> "answer"])
            /\ Request[c].proposal \in DOMAIN proposals
            /\ proposals[Request[c].proposal].kind = "row"
  BY DEF StartAnswer, sheet
<1>2. Tables /\ call[c].pc = "idle" /\ Request[c].op = "answer"
  BY <1>1, AsksIdle
<1>3. Moves(c, call'[c]) /\ JobOK(c)' /\ call'[c].pc \notin Granting \cup Deciding
  BY <1>1, Becomes DEF Moves, JobOK, Done, Granting, Deciding
<1> QED
  BY <1>1, <1>2, <1>3, NothingMoves DEF Well, QuestionsStand, Granting, Deciding

LEMMA AnswerWell ==
    ASSUME SheetInv, NEW c \in DOMAIN call, Answer(c) PROVE Well(c)
<1> DEFINE r == Request[c]
           job == [pc |-> "file", row |-> r.row, item |-> proposals[r.proposal].item]
<1>1. /\ Tables /\ call[c].pc = "answer" /\ UNCHANGED <<log, records, inbox>>
      /\ proposals' = [proposals EXCEPT ![r.proposal].status = "accepted"]
      /\ Become(c, job)
      /\ r.proposal \in DOMAIN proposals /\ proposals[r.proposal].kind = "row"
  BY DEF SheetInv, Jobs, JobOK, Answer, Job
<1>2. /\ Tables' /\ Grow
      /\ \A i \in DOMAIN proposals : i # r.proposal => proposals'[i] = proposals[i]
  BY <1>1, ProposalAnswered
<1>3. Moves(c, job) /\ job.pc = "file" /\ job.item = proposals[r.proposal].item
  BY <1>1, Becomes
<1>4. JobOK(c)'
  BY <1>1, <1>3 DEF Tables, JobOK, Moves
<1> HIDE DEF job
<1> QED
  BY <1>1, <1>2, <1>3, <1>4 DEF Well, QuestionsStand, Early, Moves, Granting, Deciding

LEMMA CaptureWell ==
    ASSUME SheetInv, NEW c \in DOMAIN call, CaptureStep(c) PROVE Well(c)
<1>1. CASE StartCapture(c) \/ AskWhich(c)
  BY <1>1, StartCaptureWell, AskWhichWell
<1>2. CASE FindInbox(c) \/ MakeInbox(c) \/ FileInInbox(c)
  BY <1>2, InboxWell, FileInInboxWell
<1>3. CASE FileRecord(c) \/ StartAnswer(c) \/ Answer(c)
  BY <1>3, FileRecordWell, StartAnswerWell, AnswerWell
<1> QED
  BY <1>1, <1>2, <1>3 DEF CaptureStep

-----------------------------------------------------------------------------
(* Rules and column runs.                                                  *)

LEMMA DraftsOK ==
    ASSUME SheetInv, NEW when, NEW past PROVE WritesOK(DraftsOf(FirstDrafts(Firings(when), past)))
<1> DEFINE fired == FirstDrafts(Firings(when), past)
           s == DraftsOf(fired)
<1>1. PICK n \in Nat : n = Cardinality(fired)
  <2>1. IsFiniteSet(DOMAIN Rule) /\ IsFiniteSet(DOMAIN records)
    BY PlacesFinite, RulesAssumption DEF SheetInv, Tables
  <2>2. IsFiniteSet((DOMAIN Rule) \X (DOMAIN records))
    BY <2>1, FS_Product
  <2>3. fired \subseteq (DOMAIN Rule) \X (DOMAIN records)
    BY DEF Firings, FirstDrafts
  <2>4. IsFiniteSet(fired)
    BY <2>2, <2>3, FS_Subset
  <2> QED
    BY <2>4, FS_CardinalityType
<1> HIDE DEF fired
<1>2. DOMAIN s = 1 .. n /\ s = [i \in 1 .. n |-> s[i]]
  BY <1>1 DEF DraftsOf
<1>3. \A i \in DOMAIN s : s[i].by = Maya /\ s[i].from = "runtime"
  BY DEF DraftsOf, Write
<1>4. Maya \in Worker
  BY CellsAssumption
<1> HIDE DEF s
<1>5. WritesOK(s)
  BY <1>2, <1>3, <1>4, Numbered DEF WritesOK
<1> QED
  BY <1>5 DEF s, fired

\* The job that writes the drafts of a kind of trigger, and notes what was fired.
LEMMA Applied ==
    ASSUME SheetInv, NEW when, NEW fired
    PROVE  LET job == Applying(when, fired) IN
           /\ WritingOK(job)
           /\ job.pc \in {"write", "recompute", "fired"}
           /\ "fired" \in DOMAIN job
           /\ job.fired = With(fired, when, Firings(when))
<1> DEFINE past == UNION {fired[w] : w \in DOMAIN fired}
           drafts == DraftsOf(FirstDrafts(Firings(when), past))
           plain == Writing(Maya, drafts, "fired", FALSE, "done")
           all == With(fired, when, Firings(when))
           job == With(plain, "fired", all)
<1>1. WritesOK(drafts)
  BY DraftsOK
<1>2. Applying(when, fired) = job
  BY DEF Applying
<1> HIDE DEF drafts, all
<1>3. WritingOK(plain) /\ plain.pc \in {"write", "recompute", "fired"}
  BY <1>1, WritingBegins
<1> HIDE DEF plain
<1>4. /\ DOMAIN job = DOMAIN plain \cup {"fired"}
      /\ job.pc = plain.pc /\ job.then = plain.then /\ job.after = plain.after
      /\ job.writes = plain.writes
      /\ job.fired = all
  BY <1>3 DEF WritingOK, WritingFields, With
<1> HIDE DEF job
<1>5. WritingOK(job)
  BY <1>3, <1>4 DEF WritingOK
<1> QED
  BY <1>2, <1>3, <1>4, <1>5 DEF all

LEMMA RulesWell ==
    ASSUME SheetInv, NEW c \in DOMAIN call, RulesStep(c), UNCHANGED inbox PROVE Well(c)
<1>1. Tables
  BY DEF SheetInv
<1>2. CASE StartSweep(c)
  <2>1. PICK job : job = Applying("days_since", <<>>)
    OBVIOUS
  <2>2. Asks(c, "sweep") /\ Become(c, job) /\ UNCHANGED <<log, records, inbox, proposals>>
    BY <1>2, <2>1 DEF StartSweep, sheet
  <2>3. call[c].pc = "idle" /\ Request[c].op = "sweep"
    BY <2>2, AsksIdle
  <2>4. WritingOK(job) /\ job.pc \in {"write", "recompute", "fired"}
    BY <2>1, Applied
  <2> QED
    BY <1>1, <2>2, <2>3, <2>4, NothingMoves, BeginsWell
<1>3. CASE SweepSchedule(c)
  <2>1. PICK job : job = Applying("schedule", call[c].fired)
    OBVIOUS
  <2>2. /\ call[c].pc = "fired" /\ Become(c, job)
        /\ UNCHANGED <<log, records, inbox, proposals>>
    BY <1>3, <2>1 DEF SweepSchedule, Job, sheet
  <2>3. WritingOK(job) /\ job.pc \in {"write", "recompute", "fired"}
    BY <2>1, Applied
  <2> QED
    BY <1>1, <2>2, <2>3, NothingMoves, WritingWell DEF Early
<1>4. CASE EndSweep(c)
  <2>1. call[c].pc = "fired" /\ Become(c, Done) /\ UNCHANGED <<log, records, inbox, proposals>>
    BY <1>4 DEF EndSweep, Job, sheet
  <2> QED
    BY <1>1, <2>1, PlainWell DEF Plain, Done, Early
<1> QED
  BY <1>2, <1>3, <1>4 DEF RulesStep

\* A column run that goes on.
ColumnJob == {"pc", "row", "created", "existing"}

LEMMA ColumnRunOn ==
    ASSUME Tables, Jobs, NEW c \in DOMAIN call, call[c].pc \in {"insertContract", "contract"},
           NEW job, Become(c, job), ColumnJob \subseteq DOMAIN job,
           job.pc \in {"insertContract", "contract"}, UNCHANGED <<log, records, inbox, proposals>>
    PROVE  Well(c)
<1>1. Request[c].op = "runColumn" /\ Moves(c, job)
  BY Becomes DEF Jobs, JobOK
<1>2. JobOK(c)'
  BY <1>1 DEF JobOK, Moves, ColumnJob
<1> QED
  BY <1>1, <1>2, NothingMoves, ElseWell DEF Early, Granting, Deciding

LEMMA ColumnRunWell ==
    ASSUME SheetInv, NEW c \in DOMAIN call, ColumnRunStep(c), UNCHANGED inbox PROVE Well(c)
<1>1. Tables /\ Jobs
  BY DEF SheetInv
<1>2. CASE StartColumnRun(c)
  <2> DEFINE job == [pc |-> "insertContract", row |-> 1, rows |-> Len(records),
                     existing |-> contracts, created |-> {}]
  <2>1. /\ Asks(c, "runColumn") /\ UNCHANGED <<log, records, inbox, proposals>>
        /\ Become(c, job) \/ Become(c, [pc |-> "threw"])
    BY <1>2 DEF StartColumnRun, sheet
  <2>2. call[c].pc = "idle" /\ Request[c].op = "runColumn"
    BY <2>1, AsksIdle
  <2>3. CASE Become(c, job)
    <3>1. Moves(c, job)
      BY <2>3, Becomes
    <3>2. JobOK(c)'
      BY <2>2, <3>1 DEF JobOK, Moves
    <3> QED
      BY <1>1, <2>1, <2>2, <3>1, <3>2, NothingMoves, ElseWell DEF Granting, Deciding
  <2>4. CASE Become(c, [pc |-> "threw"])
    BY <1>1, <2>1, <2>2, <2>4, PlainWell DEF Plain
  <2> QED
    BY <2>1, <2>3, <2>4
<1>3. CASE InsertContract(c)
  <2> DEFINE on == [call[c] EXCEPT !.pc = "contract"]
             made == [call[c] EXCEPT !.pc = "contract",
                                     !.existing = With(@, Key(c), [state |-> "drafted"])]
  <2>1. /\ call[c].pc = "insertContract" /\ UNCHANGED <<log, records, inbox, proposals>>
        /\ Become(c, on) \/ Become(c, made) \/ Become(c, [pc |-> "threw"])
    BY <1>3 DEF InsertContract, Job
  <2>2. ColumnJob \subseteq DOMAIN call[c]
    BY <1>1, <2>1 DEF Jobs, JobOK, ColumnJob
  <2>3. /\ DOMAIN on = DOMAIN call[c] /\ DOMAIN made = DOMAIN call[c]
        /\ on.pc = "contract" /\ made.pc = "contract"
    BY <2>2 DEF ColumnJob
  <2> HIDE DEF on, made
  <2>4. CASE Become(c, [pc |-> "threw"])
    BY <1>1, <2>1, <2>4, PlainWell DEF Plain, Early
  <2> QED
    BY <1>1, <2>1, <2>2, <2>3, <2>4, ColumnRunOn
<1>4. CASE ContractRow(c)
  <2> DEFINE told == NextRow([call[c] EXCEPT !.created = @ \cup {Key(c)}])
             on == NextRow(call[c])
  <2>1. /\ call[c].pc = "contract" /\ UNCHANGED <<log, records, inbox, proposals>>
        /\ Become(c, on) \/ Become(c, told)
    BY <1>4 DEF ContractRow, Job, Announces
  <2>2. ColumnJob \subseteq DOMAIN call[c]
    BY <1>1, <2>1 DEF Jobs, JobOK, ColumnJob
  <2>3. /\ DOMAIN on = DOMAIN call[c] /\ DOMAIN told = DOMAIN call[c]
        /\ on.pc = "insertContract" /\ told.pc = "insertContract"
    BY <2>2 DEF ColumnJob, NextRow
  <2> HIDE DEF on, told
  <2> QED
    BY <1>1, <2>1, <2>2, <2>3, ColumnRunOn
<1>5. CASE SendAssigned(c)
  <2>1. call[c].pc = "insertContract" /\ Become(c, Done) /\ UNCHANGED <<log, records, inbox, proposals>>
    BY <1>5 DEF SendAssigned, Job, sheet
  <2> QED
    BY <1>1, <2>1, PlainWell DEF Plain, Done, Early
<1> QED
  BY <1>2, <1>3, <1>4, <1>5 DEF ColumnRunStep

-----------------------------------------------------------------------------
(* Grants.                                                                 *)

LEMMA SharingWell ==
    ASSUME SheetInv, NEW c \in DOMAIN call, SharingStep(c), UNCHANGED inbox PROVE Well(c)
<1>1. Tables /\ Jobs
  BY DEF SheetInv
<1>2. CASE StartShare(c)
  <2>1. /\ Asks(c, "share") /\ UNCHANGED <<log, records, inbox, proposals>>
        /\ Become(c, [pc |-> "reach"]) \/ Become(c, Done)
    BY <1>2 DEF StartShare, sheet
  <2>2. call[c].pc = "idle" /\ Request[c].op = "share"
    BY <2>1, AsksIdle
  <2>3. Moves(c, call'[c]) /\ JobOK(c)' /\ call'[c].pc \notin Granting \cup Deciding
    BY <2>1, <2>2, Becomes DEF Moves, JobOK, Done, Granting, Deciding
  <2> QED
    BY <1>1, <2>1, <2>2, <2>3, NothingMoves, ElseWell DEF Granting, Deciding
<1>3. CASE ReadReach(c) \/ FindGrantee(c) \/ Invite(c)
  <2>1. /\ call[c].pc \in {"reach", "grantee", "invite"}
        /\ UNCHANGED <<log, records, inbox, proposals>>
        /\ Request[c].op = "share"
    BY <1>1, <1>3 DEF ReadReach, FindGrantee, Invite, Jobs, JobOK, Job, sheet
  <2>2. /\ Moves(c, call'[c])
        /\ \/ call'[c].pc \in {"done", "threw"}
           \/ call'[c].pc \in {"grantee", "invite", "grant"} /\ {"pc", "scopes"} \subseteq DOMAIN call'[c]
    <3>1. CASE ReadReach(c)
      BY <3>1, Becomes DEF ReadReach, Reach, Moves, Done
    <3>2. CASE FindGrantee(c) \/ Invite(c)
      <4>1. {"pc", "scopes"} \subseteq DOMAIN call[c]
        BY <1>1, <3>2 DEF FindGrantee, Invite, Jobs, JobOK, Job
      <4>2. \E pc \in {"grant", "invite"} :
                Become(c, [call[c] EXCEPT !.pc = pc]) \/ Become(c, Done) \/ Become(c, [pc |-> "threw"])
        BY <3>2 DEF FindGrantee, Invite, Job
      <4> QED
        BY <4>1, <4>2, Becomes DEF Moves, Done
    <3> QED
      BY <1>3, <3>1, <3>2
  <2>3. JobOK(c)'
    BY <2>1, <2>2 DEF JobOK
  <2> QED
    BY <1>1, <2>1, <2>2, <2>3, NothingMoves, ElseWell DEF Early, Granting, Deciding
<1>4. CASE Grant(c)
  <2>1. call[c].pc = "grant" /\ Become(c, Done) /\ UNCHANGED <<log, records, inbox, proposals>>
    BY <1>4 DEF Grant, Job, sheet
  <2> QED
    BY <1>1, <2>1, PlainWell DEF Plain, Done, Early
<1>5. CASE RevokeShare(c)
  <2>1. Asks(c, "unshare") /\ Become(c, Done) /\ UNCHANGED <<log, records, inbox, proposals>>
    BY <1>5 DEF RevokeShare, sheet
  <2>2. call[c].pc = "idle" /\ Request[c].op = "unshare"
    BY <2>1, AsksIdle
  <2> QED
    BY <1>1, <2>1, <2>2, PlainWell DEF Plain, Done
<1> QED
  BY <1>2, <1>3, <1>4, <1>5 DEF SharingStep

-----------------------------------------------------------------------------
(* What a step keeps.                                                      *)

\* An item that was captured is kept by every step of every call.
LEMMA KeptStays ==
    ASSUME Tables, Jobs, NEW c \in DOMAIN call, Well(c), NEW item \in Call, Kept(item)
    PROVE  Kept(item)'
<1>1. CASE \E i \in DOMAIN inbox : item \in inbox[i]
  BY <1>1 DEF Well, Grow, InboxGrows, Kept
<1>2. CASE Recorded(item)
  <2>1. Recorded(item)'
    BY <1>2 DEF Well, Grow, RecordsGrow, Recorded
  <2> QED
    BY <2>1 DEF Kept
<1>3. CASE Open(item)
  <2>1. PICK i \in DOMAIN proposals :
            proposals[i].kind = "row" /\ proposals[i].item = item /\ proposals[i].status = "pending"
    BY <1>3 DEF Open, ToSet
  <2>2. i \in DOMAIN proposals' /\ proposals'[i].kind = "row" /\ proposals'[i].item = item
    BY <2>1 DEF Well, Grow, ProposalsGrow
  <2>3. CASE proposals'[i].status = "pending"
    BY <2>2, <2>3 DEF Kept, Open, ToSet
  <2>4. CASE Request[c].op = "decide" /\ Request[c].proposal = i
    BY <2>2, <2>4 DEF Kept, DecidedOtherwise, Well, Moves
  <2>5. CASE call'[c].pc = "file" /\ call'[c].item = proposals[i].item
    BY <2>1, <2>5 DEF Kept, Well, Moves
  <2> QED
    BY <2>1, <2>3, <2>4, <2>5 DEF Well, QuestionsStand
<1>4. CASE DecidedOtherwise(item)
  BY <1>4 DEF Kept, DecidedOtherwise, Well, Grow, ProposalsGrow, Moves
<1>5. CASE \E d \in DOMAIN call : call[d].pc = "file" /\ call[d].item = item
  <2>1. PICK d \in DOMAIN call : call[d].pc = "file" /\ call[d].item = item
    BY <1>5
  <2>2. CASE d = c
    BY <2>1, <2>2 DEF Kept, Well
  <2>3. CASE d # c
    BY <2>1, <2>3 DEF Kept, Well, Moves
  <2> QED
    BY <2>2, <2>3
<1> QED
  BY <1>1, <1>2, <1>3, <1>4, <1>5 DEF Kept

LEMMA WellKeeps ==
    ASSUME SheetInv, NEW c \in DOMAIN call, Well(c) PROVE Tables' /\ Jobs' /\ AllKept'
<1>1. Tables /\ Jobs /\ AllKept
  BY DEF SheetInv
<1>2. Tables' /\ Jobs'
  <2> DEFINE job == call'[c]
  <2>1. Moves(c, job) /\ JobOK(c)' /\ Tables' /\ Grow
    BY DEF Well
  <2> HIDE DEF job
  <2> QED
    BY <1>1, <2>1, OthersStand
<1>3. AllKept'
  <2>1. SUFFICES ASSUME NEW d \in DOMAIN call, Request[d].op = "capture", call'[d].pc \notin Early
                 PROVE  Kept(d)'
    BY DEF AllKept, Well, Moves
  <2>2. CASE d = c /\ call[c].pc \in Early
    BY <2>1, <2>2 DEF Well
  <2>3. CASE d # c \/ call[c].pc \notin Early
    <3>1. call[d].pc \notin Early
      BY <2>1, <2>3 DEF Well, Moves
    <3>2. Kept(d) /\ d \in Call
      BY <1>1, <2>1, <3>1 DEF AllKept, Jobs
    <3> QED
      BY <1>1, <3>2, KeptStays
  <2> QED
    BY <2>2, <2>3
<1> QED
  BY <1>2, <1>3

\* Only a column run contracts, and only it has something to tell.
LEMMA ToldElsewhere ==
    ASSUME AllTold, NEW c \in DOMAIN call, Well(c), UNCHANGED <<contracts, announced>>,
           call[c].pc \notin {"threw", "insertContract", "contract"}
    PROVE  AllTold'
<1>1. \A d \in DOMAIN call, key \in DOMAIN contracts : ToldBy(d, key) => ToldBy(d, key)'
  BY DEF ToldBy, Well, Moves
<1> QED
  BY <1>1 DEF AllTold, Well, Moves

\* Only sharing makes shares.
LEMMA SharedElsewhere ==
    ASSUME Shared, NEW c \in DOMAIN call, Well(c), UNCHANGED shares,
           call[c].pc \notin {"reach"} \cup Granting
    PROVE  Shared'
BY DEF Shared, Holds, HeldBefore, Well, Moves, Granting

\* The steps that neither contract nor share.
LEMMA ElsewherePcs ==
    ASSUME NEW c \in DOMAIN call, CellsStep(c) \/ GridStep(c) \/ CaptureStep(c) \/ RulesStep(c)
    PROVE  /\ UNCHANGED contracts
           /\ call[c].pc \notin {"threw", "insertContract", "contract"}
           /\ call[c].pc \notin {"reach"} \cup Granting
<1>0. \A op : Asks(c, op) => call[c].pc = "idle"
  BY DEF Asks, Arrives, Idle
<1>1. CASE CellsStep(c)
  BY <1>1 DEF CellsStep, SkipWrite, PersonWrites, AgentLooks, AgentWrites, AgentProposes, ReadSheet,
              RecomputeFormulas, Job, sheet, Granting
<1>2. CASE GridStep(c)
  <2>1. CASE StartEdit(c) \/ StartAddRow(c) \/ StartAddColumn(c) \/ StartAgentCell(c) \/ StartRefresh(c)
             \/ Propose(c) \/ StartDecide(c)
    BY <1>0, <2>1 DEF StartEdit, StartAddRow, StartAddColumn, StartAgentCell, StartRefresh, Propose,
                      StartDecide, sheet, Granting
  <2>2. CASE ReadFields(c) \/ StoreFields(c) \/ InsertColumn(c) \/ ReadVersion(c) \/ BumpVersion(c)
             \/ Decide(c) \/ AcceptCell(c)
    BY <2>2 DEF ReadFields, StoreFields, InsertColumn, ReadVersion, BumpVersion, Decide, AcceptCell,
                Job, sheet, Granting
  <2> QED
    BY <1>2, <2>1, <2>2 DEF GridStep
<1>3. CASE CaptureStep(c)
  BY <1>0, <1>3 DEF CaptureStep, StartCapture, AskWhich, FindInbox, MakeInbox, FileInInbox, FileRecord,
                    StartAnswer, Answer, Job, sheet, Granting
<1>4. CASE RulesStep(c)
  BY <1>0, <1>4 DEF RulesStep, StartSweep, SweepSchedule, EndSweep, Job, sheet, Granting
<1> QED
  BY <1>1, <1>2, <1>3, <1>4

\* Column runs: what is contracted is told by the run that contracted it.
LEMMA ToldByRuns ==
    ASSUME SheetInv, NEW c \in DOMAIN call, Well(c), ColumnRunStep(c) PROVE AllTold'
<1>1. AllTold /\ Jobs
  BY DEF SheetInv
<1>2. \A d \in DOMAIN call \ {c} : \A key : ToldBy(d, key) => ToldBy(d, key)'
  BY DEF ToldBy, Well, Moves
<1>3. DOMAIN call' = DOMAIN call
  BY DEF Well, Moves
<1>4. CASE StartColumnRun(c)
  <2>1. UNCHANGED <<contracts, announced>> /\ call[c].pc = "idle"
    BY <1>4 DEF StartColumnRun, Asks, Arrives, Idle, sheet
  <2> QED
    BY <1>1, <2>1, ToldElsewhere
<1>5. CASE InsertContract(c)
  <2> DEFINE on == [call[c] EXCEPT !.pc = "contract"]
             made == [call[c] EXCEPT !.pc = "contract",
                                     !.existing = With(@, Key(c), [state |-> "drafted"])]
  <2>1. /\ call[c].pc = "insertContract" /\ UNCHANGED announced
        /\ contracts' = contracts \/ contracts' = With(contracts, Key(c), [state |-> "drafted"])
        /\ Become(c, on) \/ Become(c, made) \/ Become(c, [pc |-> "threw"])
    BY <1>5 DEF InsertContract, Job
  <2>2. Request[c].op = "runColumn" /\ {"pc", "row", "created", "existing"} \subseteq DOMAIN call[c]
    BY <1>1, <2>1 DEF Jobs, JobOK
  <2>3. on.pc = "contract" /\ made.pc = "contract" /\ on.created = call[c].created /\ made.created = call[c].created
    BY <2>2
  <2> HIDE DEF on, made
  <2>4. call'[c].pc = "threw" \/ (call'[c].pc = "contract" /\ call'[c].created = call[c].created)
    BY <2>1, <2>3, Becomes DEF Moves
  <2>5. \A key : ToldBy(c, key) => ToldBy(c, key)'
    BY <2>1, <2>2, <2>4 DEF ToldBy
  <2>6. \A key \in DOMAIN contracts' : contracts'[key].state = "contracted" =>
            key \in DOMAIN contracts /\ contracts[key].state = "contracted"
    BY <2>1 DEF With
  <2> QED
    BY <1>1, <1>2, <1>3, <2>1, <2>5, <2>6 DEF AllTold
<1>6. CASE ContractRow(c)
  <2> DEFINE moves == /\ call[c].existing[Key(c)].state \in {"drafted", "handed_back"}
                      /\ contracts[Key(c)].state \in {"drafted", "handed_back"}
             told == NextRow([call[c] EXCEPT !.created = @ \cup {Key(c)}])
             on == NextRow(call[c])
  <2>1. /\ call[c].pc = "contract"
        /\ contracts' = IF moves THEN [contracts EXCEPT ![Key(c)].state = "contracted"] ELSE contracts
        /\ announced' = IF moves THEN announced \ {Key(c)} ELSE announced
        /\ Become(c, told) \/ (Become(c, on) /\ ~moves)
    BY <1>6 DEF ContractRow, Job, Announces
  <2>2. Request[c].op = "runColumn" /\ {"pc", "row", "created", "existing"} \subseteq DOMAIN call[c]
    BY <1>1, <2>1 DEF Jobs, JobOK
  <2>3. /\ told.pc = "insertContract" /\ on.pc = "insertContract"
        /\ on.created = call[c].created /\ told.created = call[c].created \cup {Key(c)}
    BY <2>2 DEF NextRow
  <2> HIDE DEF moves, told, on
  <2>4. /\ call'[c].pc = "insertContract"
        /\ call[c].created \subseteq call'[c].created
        /\ moves => Key(c) \in call'[c].created
    BY <2>1, <2>3, Becomes DEF Moves
  <2>5. \A key : ToldBy(c, key) => ToldBy(c, key)'
    BY <2>1, <2>2, <2>4 DEF ToldBy
  <2>6. \A key : moves /\ key = Key(c) => ToldBy(c, key)'
    BY <2>2, <2>4 DEF ToldBy
  <2>7. \A key \in DOMAIN contracts' : key \in DOMAIN contracts
                                       /\ (~(moves /\ key = Key(c)) => contracts'[key] = contracts[key])
    BY <2>1
  <2>8. \A key : ~(moves /\ key = Key(c)) /\ key \notin announced' => key \notin announced
    BY <2>1
  <2>9. ASSUME NEW key \in DOMAIN contracts', contracts'[key].state = "contracted", key \notin announced'
        PROVE  \E d \in DOMAIN call' : ToldBy(d, key)'
    <3>1. CASE moves /\ key = Key(c)
      BY <1>3, <2>6, <3>1
    <3>2. CASE ~(moves /\ key = Key(c))
      <4>1. key \in DOMAIN contracts /\ contracts[key].state = "contracted" /\ key \notin announced
        BY <2>7, <2>8, <2>9, <3>2
      <4>2. PICK d \in DOMAIN call : ToldBy(d, key)
        BY <1>1, <4>1 DEF AllTold
      <4> QED
        BY <1>2, <1>3, <2>5, <4>2
    <3> QED
      BY <3>1, <3>2
  <2> QED
    BY <2>9 DEF AllTold
<1>7. CASE SendAssigned(c)
  <2>1. call[c].pc = "insertContract" /\ UNCHANGED contracts /\ announced' = announced \cup call[c].created
    BY <1>7 DEF SendAssigned, Job, sheet
  <2>2. \A key : ToldBy(c, key) => key \in announced'
    BY <2>1 DEF ToldBy
  <2> QED
    BY <1>1, <1>2, <1>3, <2>1, <2>2 DEF AllTold
<1> QED
  BY <1>4, <1>5, <1>6, <1>7 DEF ColumnRunStep

\* Sharing: a scope that is granted was held when it was read, and is held still.
SharesGrow ==
    \A i \in DOMAIN shares :
        /\ i \in DOMAIN shares'
        /\ shares'[i].to = shares[i].to /\ shares'[i].by = shares[i].by
        /\ shares'[i].scopes = shares[i].scopes

LEMMA HoldsStill ==
    ASSUME Shared, SharesGrow
    PROVE  /\ \A w, scope : Holds(w, scope) => Holds(w, scope)'
           /\ \A i \in DOMAIN shares : \A scope : HeldBefore(i, scope) => HeldBefore(i, scope)'
<1>1. \A w, scope : Holds(w, scope) => Holds(w, scope)'
  BY DEF Holds, SharesGrow
<1>2. Len(shares) \in Nat /\ DOMAIN shares = 1 .. Len(shares)
  BY Places DEF Shared
<1>3. \A i \in DOMAIN shares : \A j \in 1 .. i - 1 : j \in DOMAIN shares
  BY <1>2
<1>4. \A i \in DOMAIN shares : \A scope : HeldBefore(i, scope) => HeldBefore(i, scope)'
  BY <1>3 DEF HeldBefore, SharesGrow
<1> QED
  BY <1>1, <1>4

LEMMA SharedBySharing ==
    ASSUME SheetInv, NEW c \in DOMAIN call, Well(c), SharingStep(c) PROVE Shared'
<1>1. Shared /\ Jobs /\ c \in Call
  BY DEF SheetInv, Jobs
<1>2. /\ DOMAIN call' = DOMAIN call
      /\ \A d \in DOMAIN call \ {c} : call'[d] = call[d]
  BY DEF Well, Moves
<1>3. ASSUME SharesGrow, IsSequence(shares'), DOMAIN shares' = DOMAIN shares,
             \A i \in DOMAIN shares : /\ DOMAIN shares'[i] = DOMAIN shares[i]
                                      /\ shares'[i].access = shares[i].access,
             call'[c].pc \in Granting =>
                 \A scope \in call'[c].scopes : Holds(Request[c].by, scope)
      PROVE  Shared'
  <2>1. \A i \in DOMAIN shares' :
            /\ {"to", "access", "scopes", "by", "revoked"} \subseteq DOMAIN shares'[i]
            /\ shares'[i].access \in DOMAIN Rank
            /\ \A scope \in shares'[i].scopes : HeldBefore(i, scope)'
    BY <1>1, <1>3, HoldsStill DEF Shared, SharesGrow
  <2>2. \A d \in DOMAIN call' : call'[d].pc \in Granting =>
            \A scope \in call'[d].scopes : Holds(Request[d].by, scope)'
    BY <1>1, <1>2, <1>3, HoldsStill DEF Shared, Granting
  <2> QED
    BY <1>3, <2>1, <2>2 DEF Shared, Granting
<1>4. ASSUME UNCHANGED shares,
             call'[c].pc \in Granting =>
                 \A scope \in call'[c].scopes : Holds(Request[c].by, scope)
      PROVE  Shared'
  BY <1>1, <1>3, <1>4 DEF Shared, SharesGrow
<1>5. CASE StartShare(c)
  <2>1. UNCHANGED shares /\ (Become(c, [pc |-> "reach"]) \/ Become(c, Done))
    BY <1>5 DEF StartShare, sharingVars
  <2>2. call'[c].pc \notin Granting
    BY <2>1, Becomes DEF Moves, Done, Granting
  <2> QED
    BY <1>4, <2>1, <2>2
<1>6. CASE ReadReach(c)
  <2> DEFINE held == ScopesOf(Request[c].by)
             wanted == IF Request[c].scopes = {} THEN held ELSE Request[c].scopes
             job == [pc |-> "grantee", scopes |-> wanted]
  <2>1. UNCHANGED shares /\ ((Become(c, job) /\ wanted \subseteq held) \/ Become(c, Done))
    BY <1>6 DEF ReadReach, Reach, sharingVars
  <2>2. \A scope \in held : Holds(Request[c].by, scope)
    BY DEF ScopesOf, SharedWith, Holds
  <2>3. job.scopes = wanted
    OBVIOUS
  <2> HIDE DEF held, wanted, job
  <2>4. call'[c].pc \in Granting => \A scope \in call'[c].scopes : Holds(Request[c].by, scope)
    BY <2>1, <2>2, <2>3, Becomes DEF Moves, Done, Granting
  <2> QED
    BY <1>4, <2>1, <2>4
<1>7. CASE FindGrantee(c) \/ Invite(c)
  <2>1. /\ UNCHANGED shares /\ call[c].pc \in {"grantee", "invite"}
        /\ \E pc \in {"grant", "invite"} :
               Become(c, [call[c] EXCEPT !.pc = pc]) \/ Become(c, Done) \/ Become(c, [pc |-> "threw"])
    BY <1>7 DEF FindGrantee, Invite, Job, sharingVars
  <2>2. {"pc", "scopes"} \subseteq DOMAIN call[c]
    BY <1>1, <2>1 DEF Jobs, JobOK
  <2>3. call'[c].pc \in Granting => call'[c].scopes = call[c].scopes
    BY <2>1, <2>2, Becomes DEF Moves, Done, Granting
  <2> QED
    BY <1>1, <1>4, <2>1, <2>3 DEF Shared
<1>8. CASE Grant(c)
  <2> DEFINE r == Request[c]
             share == [subject |-> r.subject, to |-> r.to, access |-> r.access,
                       scopes |-> call[c].scopes, by |-> r.by, revoked |-> FALSE,
                       expires |-> r.expires, expired |-> FALSE]
  <2>0. PICK n : n = Len(shares) + 1
    OBVIOUS
  <2>1. call[c].pc = "grant" /\ Become(c, Done) /\ shares' = Append(shares, share)
    BY <1>8 DEF Grant, Job
  <2>2. r.access \in DOMAIN Rank
    BY <1>1, <2>1, SharingAssumption DEF Jobs, JobOK
  <2>3. /\ {"to", "access", "scopes", "by", "revoked"} \subseteq DOMAIN share
        /\ share.access \in DOMAIN Rank
        /\ share.scopes = call[c].scopes /\ share.by = r.by
    BY <2>2
  <2> HIDE DEF share
  <2>4. /\ Len(shares) \in Nat
        /\ DOMAIN shares = 1 .. Len(shares)
        /\ IsSequence(shares')
        /\ DOMAIN shares' = 1 .. n
        /\ \A i \in 1 .. Len(shares) : shares'[i] = shares[i]
        /\ shares'[n] = share
    BY <1>1, <2>0, <2>1, Appended, Places DEF Shared
  <2>5. SharesGrow
    BY <2>0, <2>4 DEF SharesGrow
  <2>6. \A scope \in share.scopes : HeldBefore(n, scope)'
    <3>1. \A scope \in share.scopes : Holds(r.by, scope)
      BY <1>1, <2>1, <2>3 DEF Shared
    <3>2. n - 1 = Len(shares) /\ 1 .. n - 1 = DOMAIN shares
      BY <2>0, <2>4
    <3>3. \A i \in DOMAIN shares : shares'[i] = shares[i]
      BY <2>4
    <3> QED
      BY <2>3, <2>4, <3>1, <3>2, <3>3 DEF Holds, HeldBefore
  <2>7. \A i \in DOMAIN shares' : i \in DOMAIN shares \/ i = n
    BY <2>0, <2>4
  <2>8. \A i \in DOMAIN shares :
            /\ {"to", "access", "scopes", "by", "revoked"} \subseteq DOMAIN shares'[i]
            /\ shares'[i].access \in DOMAIN Rank
            /\ \A scope \in shares'[i].scopes : HeldBefore(i, scope)'
    BY <1>1, <2>4, <2>5, HoldsStill DEF Shared
  <2>9. call'[c].pc = "done"
    BY <2>1, Becomes DEF Moves, Done
  <2>10. \A d \in DOMAIN call' : call'[d].pc \in Granting =>
            \A scope \in call'[d].scopes : Holds(Request[d].by, scope)'
    BY <1>1, <1>2, <2>5, <2>9, HoldsStill DEF Shared, Granting
  <2> QED
    BY <2>3, <2>4, <2>6, <2>7, <2>8, <2>10 DEF Shared, Granting
<1>9. CASE RevokeShare(c)
  <2> DEFINE taken(i) == i = Request[c].share /\ IsPerson(Request[c].by)
  <2>1. /\ Become(c, Done)
        /\ shares' = [i \in DOMAIN shares |->
                         IF taken(i) THEN [shares[i] EXCEPT !.revoked = TRUE] ELSE shares[i]]
    BY <1>9 DEF RevokeShare
  <2>2. Len(shares) \in Nat /\ DOMAIN shares = 1 .. Len(shares)
    BY <1>1, Places DEF Shared
  <2>3. IsSequence(shares') /\ DOMAIN shares' = DOMAIN shares
    BY <2>1, <2>2, Numbered
  <2>4. \A i \in DOMAIN shares :
            /\ DOMAIN shares'[i] = DOMAIN shares[i]
            /\ shares'[i].to = shares[i].to /\ shares'[i].by = shares[i].by
            /\ shares'[i].scopes = shares[i].scopes /\ shares'[i].access = shares[i].access
    BY <1>1, <2>1 DEF Shared
  <2>5. call'[c].pc = "done"
    BY <2>1, Becomes DEF Moves, Done
  <2> QED
    BY <1>3, <2>3, <2>4, <2>5 DEF SharesGrow, Granting
<1> QED
  BY <1>5, <1>6, <1>7, <1>8, <1>9 DEF SharingStep

-----------------------------------------------------------------------------
(* The invariant is inductive.                                             *)

LEMMA InitHolds == Init => SheetInv
<1> SUFFICES ASSUME Init PROVE SheetInv
  OBVIOUS
<1>1. PICK scene \in Scene : shape = scene.shape /\ call = [c \in scene.calls |-> Idle]
  BY DEF Init, InitCells
<1>2. shape \in {"plan", "batch"} /\ scene.calls \subseteq Call
  BY <1>1, CellsAssumption
<1>3. \A c \in DOMAIN call : c \in Call /\ call[c].pc = "idle"
  BY <1>1, <1>2 DEF Idle
<1>4. /\ log = OpeningLog[shape] /\ records = OpeningRecords[shape]
      /\ proposals = <<>> /\ inbox = <<>> /\ shares = <<>>
      /\ announced = {key \in DOMAIN contracts : contracts[key].state = "contracted"}
  BY DEF Init, InitCells, InitSharing
<1>5. IsSequence(<<>>) /\ DOMAIN <<>> = {}
  BY DEF IsSequence
<1>6. Tables
  BY <1>2, <1>4, <1>5, CellsAssumption DEF Tables
<1>7. Jobs
  BY <1>3 DEF Jobs, JobOK
<1>8. AllKept /\ AllTold
  BY <1>3, <1>4 DEF AllKept, AllTold, Early
<1>9. Shared
  BY <1>3, <1>4, <1>5 DEF Shared
<1> QED
  BY <1>6, <1>7, <1>8, <1>9 DEF SheetInv

\* What the steps that move no call leave alone.
LEMMA Unmoved ==
    ASSUME SheetInv, UNCHANGED <<shape, log, records, columns, version, proposals, call, inbox>>
    PROVE  Tables' /\ Jobs' /\ AllKept' /\ (UNCHANGED shares => Shared')
<1>1. Tables /\ Jobs /\ AllKept /\ Shared
  BY DEF SheetInv
<1>2. Tables'
  BY <1>1 DEF Tables
<1>3. Jobs'
  <2> SUFFICES ASSUME NEW c \in DOMAIN call PROVE JobOK(c)'
    BY <1>1 DEF Jobs
  <2>1. JobOK(c) /\ call'[c] = call[c]
    BY <1>1 DEF Jobs
  <2>2. Looked(call[c]) => Looked(call[c])'
    BY DEF Looked, CurrentCell
  <2> QED
    BY <2>1, <2>2 DEF JobOK
<1>4. AllKept'
  BY <1>1 DEF AllKept, Kept, Recorded, Open, DecidedOtherwise
<1>5. UNCHANGED shares => Shared'
  BY <1>1 DEF Shared, Holds, HeldBefore
<1> QED
  BY <1>2, <1>3, <1>4, <1>5

\* A share that expires is a grant still, of what it was a grant of.
LEMMA ExpiredStays ==
    ASSUME SheetInv, NEW i \in DOMAIN shares, Expire(i) PROVE Shared'
<1>1. /\ Shared /\ UNCHANGED call
      /\ shares' = [shares EXCEPT ![i] = [shares[i] EXCEPT !.expired = TRUE]]
  BY DEF SheetInv, Expire
<1>2. IsSequence(shares') /\ DOMAIN shares' = DOMAIN shares
  BY <1>1, Replaced DEF Shared
<1>3. \A j \in DOMAIN shares :
          /\ DOMAIN shares'[j] = DOMAIN shares[j]
          /\ shares'[j].to = shares[j].to /\ shares'[j].by = shares[j].by
          /\ shares'[j].scopes = shares[j].scopes /\ shares'[j].access = shares[j].access
  BY <1>1 DEF Shared
<1>4. SharesGrow
  BY <1>2, <1>3 DEF SharesGrow
<1>5. \A j \in DOMAIN shares' :
          /\ {"to", "access", "scopes", "by", "revoked"} \subseteq DOMAIN shares'[j]
          /\ shares'[j].access \in DOMAIN Rank
          /\ \A scope \in shares'[j].scopes : HeldBefore(j, scope)'
  BY <1>1, <1>2, <1>3, <1>4, HoldsStill DEF Shared
<1>6. \A c \in DOMAIN call' : call'[c].pc \in Granting =>
          \A scope \in call'[c].scopes : Holds(Request[c].by, scope)'
  BY <1>1, <1>4, HoldsStill DEF Shared, Granting
<1> QED
  BY <1>2, <1>5, <1>6 DEF Shared, Granting

LEMMA StepHolds == SheetInv /\ [Next]_vars => SheetInv'
<1> SUFFICES ASSUME SheetInv, [Next]_vars PROVE SheetInv'
  OBVIOUS
<1>1. AllTold /\ Shared
  BY DEF SheetInv
<1>2. ASSUME NEW c \in DOMAIN call, CellsStep(c) \/ GridStep(c) \/ CaptureStep(c) \/ RulesStep(c),
             Well(c), UNCHANGED <<announced, shares>>
      PROVE  SheetInv'
  <2>1. Tables' /\ Jobs' /\ AllKept'
    BY <1>2, WellKeeps
  <2>2. AllTold' /\ Shared'
    BY <1>1, <1>2, ElsewherePcs, ToldElsewhere, SharedElsewhere
  <2> QED
    BY <2>1, <2>2 DEF SheetInv
<1>3. ASSUME NEW c \in DOMAIN call, CellsStep(c) \/ GridStep(c) \/ RulesStep(c),
             UNCHANGED <<inbox, announced, shares>>
      PROVE  SheetInv'
  BY <1>2, <1>3, CellsWell, GridWell, RulesWell
<1>4. ASSUME NEW c \in DOMAIN call, CaptureStep(c), UNCHANGED <<announced, shares>>
      PROVE  SheetInv'
  BY <1>2, <1>4, CaptureWell
<1>5. ASSUME NEW c \in DOMAIN call, ColumnRunStep(c), UNCHANGED <<inbox, shares>>
      PROVE  SheetInv'
  <2>1. Well(c)
    BY <1>5, ColumnRunWell
  <2>2. Tables' /\ Jobs' /\ AllKept' /\ AllTold'
    BY <1>5, <2>1, WellKeeps, ToldByRuns
  <2>0. \A op : Asks(c, op) => call[c].pc = "idle"
    BY DEF Asks, Arrives, Idle
  <2>3. call[c].pc \notin {"reach"} \cup Granting
    BY <1>5, <2>0 DEF ColumnRunStep, StartColumnRun, InsertContract, ContractRow, SendAssigned, Job, Granting
  <2>4. Shared'
    BY <1>1, <1>5, <2>1, <2>3, SharedElsewhere
  <2> QED
    BY <2>2, <2>4 DEF SheetInv
<1>6. ASSUME NEW c \in DOMAIN call, SharingStep(c), UNCHANGED <<inbox, announced>>
      PROVE  SheetInv'
  <2>1. Well(c)
    BY <1>6, SharingWell
  <2>2. Tables' /\ Jobs' /\ AllKept' /\ Shared'
    BY <1>6, <2>1, WellKeeps, SharedBySharing
  <2>0. \A op : Asks(c, op) => call[c].pc = "idle"
    BY DEF Asks, Arrives, Idle
  <2>3. /\ UNCHANGED contracts
        /\ call[c].pc \notin {"threw", "insertContract", "contract"}
    BY <1>6, <2>0 DEF SharingStep, StartShare, ReadReach, FindGrantee, Invite, Grant, RevokeShare, Job, sheet
  <2>4. AllTold'
    BY <1>1, <1>6, <2>1, <2>3, ToldElsewhere
  <2> QED
    BY <2>2, <2>4 DEF SheetInv
<1>7. ASSUME NEW key \in DOMAIN contracts, NEW to \in {"in_progress", "handed_back", "verified"},
             Progress(key, to), UNCHANGED <<inbox, sharingVars>>
      PROVE  SheetInv'
  <2>1. /\ UNCHANGED <<shape, log, records, columns, version, proposals, call, announced, inbox, shares>>
        /\ key \in announced
        /\ contracts' = [contracts EXCEPT ![key].state = to]
    BY <1>7 DEF Progress, sharingVars
  <2>2. Tables' /\ Jobs' /\ AllKept' /\ Shared'
    BY <2>1, Unmoved
  <2>3. \A other \in DOMAIN contracts' : other \in DOMAIN contracts
                                         /\ (other # key => contracts'[other] = contracts[other])
    BY <2>1
  <2>4. AllTold'
    BY <1>1, <2>1, <2>3 DEF AllTold, ToldBy
  <2> QED
    BY <2>2, <2>4 DEF SheetInv
<1>8. ASSUME NEW i \in DOMAIN shares, Expire(i), UNCHANGED <<inbox, announced>> PROVE SheetInv'
  <2>1. UNCHANGED <<shape, log, records, columns, version, proposals, call, inbox, contracts, announced>>
    BY <1>8 DEF Expire, sheet
  <2>2. AllTold'
    BY <1>1, <2>1 DEF AllTold, ToldBy
  <2> QED
    BY <1>8, <2>1, <2>2, Unmoved, ExpiredStays DEF SheetInv
<1>9. CASE UNCHANGED vars
  <2>1. UNCHANGED <<shape, log, records, columns, version, proposals, call, inbox, shares>>
        /\ UNCHANGED <<contracts, announced>>
    BY <1>9 DEF vars, sheet
  <2>2. AllTold'
    BY <1>1, <2>1 DEF AllTold, ToldBy
  <2> QED
    BY <2>1, <2>2, Unmoved DEF SheetInv
<1> QED
  BY <1>3, <1>4, <1>5, <1>6, <1>7, <1>8, <1>9 DEF Next, sharingVars

LEMMA Inductive == Spec => []SheetInv
<1> QED
  BY InitHolds, StepHolds, PTL DEF Spec

-----------------------------------------------------------------------------
(* What is written, proposed and decided, and by which step.               *)

\* A step of one call.
StepOf(c) ==
    CellsStep(c) \/ GridStep(c) \/ CaptureStep(c) \/ RulesStep(c) \/ ColumnRunStep(c) \/ SharingStep(c)

LEMMA LogMoves ==
    ASSUME Next, log' # log
    PROVE  \E d \in DOMAIN call :
               PersonWrites(d) \/ AgentWrites(d) \/ RecomputeFormulas(d) \/ AcceptCell(d)
<1>1. \E d \in DOMAIN call : CellsStep(d) \/ GridStep(d)
  <2>1. ASSUME NEW d \in DOMAIN call, CaptureStep(d) \/ RulesStep(d) \/ ColumnRunStep(d) \/ SharingStep(d)
        PROVE  FALSE
    BY <2>1 DEF CaptureStep, StartCapture, AskWhich, FindInbox, MakeInbox, FileInInbox, FileRecord,
                StartAnswer, Answer, RulesStep, StartSweep, SweepSchedule, EndSweep, ColumnRunStep,
                StartColumnRun, InsertContract, ContractRow, SendAssigned, SharingStep, StartShare, ReadReach,
                FindGrantee, Invite, Grant, RevokeShare, sheet
  <2>2. /\ ~ \E key \in DOMAIN contracts, to \in {"in_progress", "handed_back", "verified"} : Progress(key, to)
        /\ ~ \E i \in DOMAIN shares : Expire(i)
    BY DEF Progress, Expire, sheet
  <2>3. ~UNCHANGED vars
    BY DEF vars, sheet
  <2> QED
    BY <2>1, <2>2, <2>3 DEF Next
<1>2. PICK d \in DOMAIN call : CellsStep(d) \/ GridStep(d)
  BY <1>1
<1>3. CASE CellsStep(d)
  BY <1>3 DEF CellsStep, SkipWrite, AgentLooks, AgentProposes, ReadSheet, sheet
<1>4. CASE GridStep(d)
  BY <1>4 DEF GridStep, StartEdit, ReadFields, StoreFields, StartAddRow, StartAddColumn, InsertColumn,
              ReadVersion, BumpVersion, StartAgentCell, StartRefresh, Propose, StartDecide, Decide, sheet
<1> QED
  BY <1>2, <1>3, <1>4

\* What is written is no proposal, unless it is a cell that is accepted.
NothingComes == \A i \in DOMAIN log' : i \in DOMAIN log \/ log'[i].from # "proposal"

LEMMA OnlyAcceptedCome ==
    ASSUME SheetInv, [Next]_vars
    PROVE  NothingComes \/ \E d \in DOMAIN call : AcceptCell(d)
<1>1. CASE log' = log
  BY <1>1 DEF NothingComes
<1>2. CASE log' # log
  <2>1. Tables /\ Jobs /\ Len(log) \in Nat /\ DOMAIN log = 1 .. Len(log)
    BY Places DEF SheetInv, Tables
  <2>2. ASSUME NEW w, Insert(w), w.from # "proposal" PROVE NothingComes
    <3>1. DOMAIN log' = 1 .. Len(log) + 1 /\ log'[Len(log) + 1] = w
      BY <2>1, <2>2, Appended DEF Tables, Insert
    <3>2. \A i \in DOMAIN log' : i \in DOMAIN log \/ i = Len(log) + 1
      BY <2>1, <3>1
    <3> QED
      BY <2>2, <3>1, <3>2 DEF NothingComes
  <2>3. PICK d \in DOMAIN call : PersonWrites(d) \/ AgentWrites(d) \/ RecomputeFormulas(d) \/ AcceptCell(d)
    BY <1>2, LogMoves DEF vars, sheet
  <2>4. CASE PersonWrites(d) \/ AgentWrites(d)
    <3>1. /\ Insert(Head(call[d].writes))
          /\ WritingOK(call[d]) /\ call[d].writes # <<>>
      BY <2>1, <2>4 DEF PersonWrites, AgentWrites, Job, Jobs, JobOK, WritingOK
    <3> QED
      BY <2>2, <3>1, HeadOK
  <2>5. CASE RecomputeFormulas(d)
    <3> DEFINE changed == {i \in DOMAIN call[d].todo : Changed(call[d].todo[i], call[d].snapshot)}
               cell == call[d].todo[Min(changed)]
               w == [row |-> cell[1], column |-> cell[2], by |-> call[d].by, from |-> "formula",
                     value |-> ValueIn(cell, call[d].snapshot)]
    <3>1. Insert(w)
      BY <1>2, <2>5 DEF RecomputeFormulas, Job
    <3>2. w.from = "formula"
      OBVIOUS
    <3> HIDE DEF w
    <3> QED
      BY <2>2, <3>1, <3>2
  <2> QED
    BY <2>3, <2>4, <2>5
<1> QED
  BY <1>1, <1>2

\* A step is the step of a call, and a good one, or moves none.
LEMMA EveryStep ==
    ASSUME SheetInv, [Next]_vars
    PROVE  \/ \E c \in DOMAIN call : StepOf(c) /\ Well(c)
           \/ UNCHANGED <<log, records, inbox, proposals, call, alone>>
<1>1. ASSUME NEW c \in DOMAIN call, (CellsStep(c) \/ GridStep(c) \/ RulesStep(c)) /\ UNCHANGED inbox
      PROVE  StepOf(c) /\ Well(c)
  BY <1>1, CellsWell, GridWell, RulesWell DEF StepOf
<1>2. ASSUME NEW c \in DOMAIN call, CaptureStep(c) PROVE StepOf(c) /\ Well(c)
  BY <1>2, CaptureWell DEF StepOf
<1>3. ASSUME NEW c \in DOMAIN call, (ColumnRunStep(c) \/ SharingStep(c)) /\ UNCHANGED inbox
      PROVE  StepOf(c) /\ Well(c)
  BY <1>3, ColumnRunWell, SharingWell DEF StepOf
<1>4. CASE \E key \in DOMAIN contracts, to \in {"in_progress", "handed_back", "verified"} :
               Progress(key, to) /\ UNCHANGED <<inbox, sharingVars>>
  BY <1>4 DEF Progress
<1>5. CASE \E i \in DOMAIN shares : Expire(i) /\ UNCHANGED <<inbox, announced>>
  BY <1>5 DEF Expire, sheet
<1>6. CASE UNCHANGED vars
  BY <1>6 DEF vars, sheet
<1> QED
  BY <1>1, <1>2, <1>3, <1>4, <1>5, <1>6 DEF Next

\* A call begins, or was under way.
LEMMA BeginsOrGoesOn ==
    ASSUME NEW c \in DOMAIN call, StepOf(c)
    PROVE  Arrives(c) \/ (UnderWay(c) /\ UNCHANGED alone)
<1>1. CASE CellsStep(c)
  BY <1>1 DEF CellsStep, SkipWrite, PersonWrites, AgentLooks, AgentWrites, AgentProposes, ReadSheet,
              RecomputeFormulas, Job, UnderWay
<1>2. CASE GridStep(c)
  BY <1>2 DEF GridStep, StartEdit, ReadFields, StoreFields, StartAddRow, StartAddColumn, InsertColumn,
              ReadVersion, BumpVersion, StartAgentCell, StartRefresh, Propose, StartDecide, Decide,
              AcceptCell, Asks, Job, UnderWay
<1>3. CASE CaptureStep(c)
  BY <1>3 DEF CaptureStep, StartCapture, AskWhich, FindInbox, MakeInbox, FileInInbox, FileRecord,
              StartAnswer, Answer, Asks, Job, UnderWay
<1>4. CASE RulesStep(c) \/ ColumnRunStep(c)
  BY <1>4 DEF RulesStep, StartSweep, SweepSchedule, EndSweep, ColumnRunStep, StartColumnRun,
              InsertContract, ContractRow, SendAssigned, Asks, Job, UnderWay
<1>5. CASE SharingStep(c)
  BY <1>5 DEF SharingStep, StartShare, ReadReach, FindGrantee, Invite, Grant, RevokeShare,
              Asks, Job, UnderWay
<1> QED
  BY <1>1, <1>2, <1>3, <1>4, <1>5 DEF StepOf

\* A call that decides goes on in no other way.
LEMMA DecidesOnly ==
    ASSUME NEW c \in DOMAIN call, StepOf(c)
    PROVE  /\ call[c].pc = "decide" => Decide(c)
           /\ call[c].pc = "accept" => AcceptCell(c)
<1>0. \A op : Asks(c, op) => call[c].pc = "idle"
  BY DEF Asks, Arrives, Idle
<1>1. CASE CellsStep(c)
  BY <1>1 DEF CellsStep, SkipWrite, PersonWrites, AgentLooks, AgentWrites, AgentProposes, ReadSheet,
              RecomputeFormulas, Job
<1>2. CASE GridStep(c)
  BY <1>0, <1>2 DEF GridStep, StartEdit, ReadFields, StoreFields, StartAddRow, StartAddColumn,
                    InsertColumn, ReadVersion, BumpVersion, StartAgentCell, StartRefresh, Propose,
                    StartDecide, Decide, AcceptCell, Job
<1>3. CASE CaptureStep(c)
  BY <1>0, <1>3 DEF CaptureStep, StartCapture, AskWhich, FindInbox, MakeInbox, FileInInbox, FileRecord,
                    StartAnswer, Answer, Job
<1>4. CASE RulesStep(c) \/ ColumnRunStep(c)
  BY <1>0, <1>4 DEF RulesStep, StartSweep, SweepSchedule, EndSweep, ColumnRunStep, StartColumnRun, InsertContract,
                    ContractRow, SendAssigned, Job
<1>5. CASE SharingStep(c)
  BY <1>0, <1>5 DEF SharingStep, StartShare, ReadReach, FindGrantee, Invite, Grant, RevokeShare, Job
<1> QED
  BY <1>1, <1>2, <1>3, <1>4, <1>5 DEF StepOf

\* Proposed cells stand as they were until they are decided, and begin undecided.
CellsStand ==
    /\ \A j \in DOMAIN proposals : proposals[j].kind = "cell" => proposals'[j] = proposals[j]
    /\ \A j \in DOMAIN proposals' \ DOMAIN proposals :
           proposals'[j].kind = "cell" => proposals'[j].status = "pending"

LEMMA ProposalsMove ==
    ASSUME SheetInv, NEW c \in DOMAIN call, StepOf(c), ~Decide(c)
    PROVE  CellsStand
<1>1. Tables /\ Jobs
  BY DEF SheetInv
<1>2. CASE UNCHANGED proposals
  BY <1>2 DEF CellsStand
<1>3. ASSUME NEW p, proposals' = Append(proposals, p), p.kind = "cell" => p.status = "pending"
      PROVE  CellsStand
  <2>1. /\ Len(proposals) \in Nat /\ DOMAIN proposals = 1 .. Len(proposals)
        /\ DOMAIN proposals' = 1 .. Len(proposals) + 1
        /\ \A i \in 1 .. Len(proposals) : proposals'[i] = proposals[i]
        /\ proposals'[Len(proposals) + 1] = p
    BY <1>1, <1>3, Places, Appended DEF Tables
  <2>2. \A j \in DOMAIN proposals' \ DOMAIN proposals : proposals'[j] = p
    BY <2>1
  <2> QED
    BY <1>3, <2>1, <2>2 DEF CellsStand
<1>4. CASE AgentProposes(c)
  <2> DEFINE w == Head(call[c].writes)
             p == [kind |-> "cell", row |-> w.row, column |-> w.column,
                   value |-> w.value, by |-> w.by, status |-> "pending"]
  <2>1. proposals' = Append(proposals, p) /\ p.status = "pending"
    BY <1>4 DEF AgentProposes, Job
  <2> HIDE DEF p
  <2> QED
    BY <1>3, <2>1
<1>5. CASE Propose(c)
  <2> DEFINE r == Request[c]
             p == [kind |-> "cell", row |-> r.row, column |-> r.column,
                   value |-> r.value, by |-> r.by, status |-> "pending"]
  <2>1. proposals' = Append(proposals, p) /\ p.status = "pending"
    BY <1>5 DEF Propose
  <2> HIDE DEF p
  <2> QED
    BY <1>3, <2>1
<1>6. CASE AskWhich(c)
  <2> DEFINE p == [kind |-> "row", item |-> c, rows |-> call[c].found,
                   by |-> Request[c].by, status |-> "pending"]
  <2>1. proposals' = Append(proposals, p) /\ p.status = "pending"
    BY <1>6 DEF AskWhich, Job
  <2> HIDE DEF p
  <2> QED
    BY <1>3, <2>1
<1>7. CASE Answer(c)
  <2>1. /\ proposals' = [proposals EXCEPT ![Request[c].proposal].status = "accepted"]
        /\ proposals[Request[c].proposal].kind = "row"
    BY <1>1, <1>7 DEF Answer, Job, Jobs, JobOK
  <2> QED
    BY <2>1 DEF CellsStand
<1>8. UNCHANGED proposals \/ AgentProposes(c) \/ Propose(c) \/ AskWhich(c) \/ Answer(c)
  <2>1. CASE CellsStep(c)
    BY <2>1 DEF CellsStep, SkipWrite, PersonWrites, AgentLooks, AgentWrites, ReadSheet,
                RecomputeFormulas, sheet
  <2>2. CASE GridStep(c)
    BY <2>2 DEF GridStep, StartEdit, ReadFields, StoreFields, StartAddRow, StartAddColumn, InsertColumn,
                ReadVersion, BumpVersion, StartAgentCell, StartRefresh, StartDecide, AcceptCell, sheet
  <2>3. CASE CaptureStep(c)
    BY <2>3 DEF CaptureStep, StartCapture, FindInbox, MakeInbox, FileInInbox, FileRecord,
                StartAnswer, sheet
  <2>4. CASE RulesStep(c) \/ ColumnRunStep(c)
    BY <2>4 DEF RulesStep, StartSweep, SweepSchedule, EndSweep, ColumnRunStep, StartColumnRun, InsertContract,
                ContractRow, SendAssigned, sheet
  <2>5. CASE SharingStep(c)
    BY <2>5 DEF SharingStep, StartShare, ReadReach, FindGrantee, Invite, Grant, RevokeShare, sheet
  <2> QED
    BY <2>1, <2>2, <2>3, <2>4, <2>5 DEF StepOf
<1> QED
  BY <1>2, <1>4, <1>5, <1>6, <1>7, <1>8

-----------------------------------------------------------------------------
(* Decisions.                                                              *)

\* The sheet tells proposed cells apart by what they propose.
Tellable ==
    \A i, j \in DOMAIN proposals :
        /\ proposals[i].kind = "cell" /\ proposals[j].kind = "cell"
        /\ <<proposals[i].row, proposals[i].column, proposals[i].value>>
             = <<proposals[j].row, proposals[j].column, proposals[j].value>>
        => i = j

\* Until calls cross, one is under way at a time.
OneAtATime == alone => \A c, d \in DOMAIN call : UnderWay(c) /\ UnderWay(d) => c = d

\* A decision that is taken and not yet written.
Accepting(j) == \E c \in DOMAIN call : call[c].pc = "accept" /\ Request[c].proposal = j

\* A proposed cell came to the sheet once, when it was accepted and written.
CameOnce(j) ==
    LET came == FromProposal(proposals[j]) IN
    /\ Accepting(j) => proposals[j].status = "accepted"
    /\ IF proposals[j].status = "accepted" /\ ~Accepting(j)
       THEN \E i \in DOMAIN log : came = {i}
       ELSE came = {}

\* What is being decided was not decided.
Undecided ==
    \A c \in DOMAIN call :
        call[c].pc = "decide" /\ proposals[Request[c].proposal].kind = "cell" =>
            proposals[Request[c].proposal].status = "pending"

Answered ==
    alone => /\ \A j \in DOMAIN proposals : proposals[j].kind = "cell" => CameOnce(j)
             /\ Undecided

\* The cells that came of a proposal, when none comes.
LEMMA CameStays ==
    ASSUME SheetInv, Grow, NothingComes, NEW j \in DOMAIN proposals, proposals[j].kind = "cell"
    PROVE  FromProposal(proposals[j])' = FromProposal(proposals[j])
<1>1. Len(log) \in Nat /\ DOMAIN log = 1 .. Len(log)
  BY Places DEF SheetInv, Tables
<1>2. /\ DOMAIN log \subseteq DOMAIN log'
      /\ \A i \in DOMAIN log : log'[i] = log[i]
      /\ \A i \in DOMAIN log' : i \in DOMAIN log \/ log'[i].from # "proposal"
  BY <1>1 DEF Grow, LogGrows, NothingComes
<1>3. /\ proposals'[j].row = proposals[j].row
      /\ proposals'[j].column = proposals[j].column
      /\ proposals'[j].value = proposals[j].value
  BY DEF Grow, ProposalsGrow
<1> QED
  BY <1>2, <1>3 DEF FromProposal

LEMMA OneAtATimeStays == ASSUME SheetInv, OneAtATime, [Next]_vars PROVE OneAtATime'
<1>1. CASE UNCHANGED <<log, records, inbox, proposals, call, alone>>
  BY <1>1 DEF OneAtATime, UnderWay
<1>2. ASSUME NEW c \in DOMAIN call, StepOf(c), Well(c) PROVE OneAtATime'
  <2>1. /\ DOMAIN call' = DOMAIN call
        /\ \A d \in DOMAIN call \ {c} : UnderWay(d)' <=> UnderWay(d)
    BY <1>2 DEF Well, Moves, UnderWay
  <2>2. CASE Arrives(c)
    BY <2>1, <2>2 DEF Arrives, OneAtATime
  <2>3. CASE UnderWay(c) /\ UNCHANGED alone
    BY <2>1, <2>3 DEF OneAtATime
  <2> QED
    BY <1>2, <2>2, <2>3, BeginsOrGoesOn
<1> QED
  BY <1>1, <1>2, EveryStep

\* What comes of proposals is what people accepted, whatever crosses.
LEMMA AcceptedStays == ASSUME SheetInv, PeopleAccept, [Next]_vars PROVE PeopleAccept'
<1>1. /\ Tables /\ Jobs /\ Len(log) \in Nat /\ DOMAIN log = 1 .. Len(log)
  BY Places DEF SheetInv, Tables
<1>2. Grow
  <2>1. CASE UNCHANGED <<log, records, inbox, proposals, call, alone>>
    BY <1>1, <2>1, NothingMoves
  <2> QED
    BY <2>1, EveryStep DEF Well
<1>3. ASSUME NEW i \in DOMAIN log, log[i].from = "proposal"
      PROVE  /\ log'[i].by \in Person
             /\ \E p \in ToSet(proposals') : p.kind = "cell" /\ i \in FromProposal(p)'
  <2>1. PICK j \in DOMAIN proposals : proposals[j].kind = "cell" /\ i \in FromProposal(proposals[j])
    BY <1>3 DEF PeopleAccept, ToSet
  <2>2. log[i].by \in Person
    BY <1>3 DEF PeopleAccept
  <2>3. log'[i] = log[i] /\ i \in DOMAIN log'
    <3>1. Tables'
      BY StepHolds DEF SheetInv
    <3>2. Len(log') \in Nat /\ DOMAIN log' = 1 .. Len(log')
      BY <3>1, Places DEF Tables
    <3> QED
      BY <1>1, <1>2, <3>2 DEF Grow, LogGrows
  <2>4. j \in DOMAIN proposals' /\ proposals'[j].kind = "cell" /\ i \in FromProposal(proposals[j])'
    BY <1>2, <2>1, <2>3 DEF Grow, ProposalsGrow, FromProposal
  <2> QED
    BY <2>2, <2>3, <2>4 DEF ToSet
<1>4. CASE NothingComes
  <2>1. ASSUME NEW i \in DOMAIN log', log'[i].from = "proposal"
        PROVE  i \in DOMAIN log /\ log[i].from = "proposal"
    BY <1>1, <1>2, <1>4, <2>1 DEF NothingComes, Grow, LogGrows
  <2> QED
    BY <1>3, <2>1 DEF PeopleAccept, FromProposal
<1>5. ASSUME NEW c \in DOMAIN call, AcceptCell(c) PROVE PeopleAccept'
  <2> DEFINE j == Request[c].proposal
             p == proposals[j]
             w == Write(p.row, p.column, p.value, Request[c].by, "proposal")
  <2>1. /\ Insert(w) /\ UNCHANGED proposals
        /\ j \in DOMAIN proposals /\ p.kind = "cell" /\ Request[c].by \in Person
    BY <1>1, <1>5 DEF AcceptCell, Job, Jobs, JobOK
  <2>2. /\ w.from = "proposal" /\ w.by = Request[c].by
        /\ w.row = p.row /\ w.column = p.column /\ w.value = p.value
    BY DEF Write
  <2> HIDE DEF w
  <2>3. DOMAIN log' = 1 .. Len(log) + 1 /\ log'[Len(log) + 1] = w
    BY <1>1, <2>1, Appended DEF Tables, Insert
  <2>4. \A i \in DOMAIN log' : i \in DOMAIN log \/ i = Len(log) + 1
    BY <1>1, <2>3
  <2>5. Len(log) + 1 \in FromProposal(p)'
    BY <1>1, <2>1, <2>2, <2>3 DEF FromProposal
  <2>6. p \in ToSet(proposals')
    BY <2>1 DEF ToSet
  <2>7. ASSUME NEW i \in DOMAIN log', log'[i].from = "proposal"
        PROVE  /\ log'[i].by \in Person
               /\ \E q \in ToSet(proposals') : q.kind = "cell" /\ i \in FromProposal(q)'
    <3>1. CASE i \in DOMAIN log
      BY <1>1, <1>2, <1>3, <2>7, <3>1 DEF Grow, LogGrows
    <3>2. CASE i = Len(log) + 1
      BY <2>1, <2>2, <2>3, <2>5, <2>6, <3>2
    <3> QED
      BY <2>4, <3>1, <3>2
  <2> QED
    BY <2>7 DEF PeopleAccept, FromProposal
<1> QED
  BY <1>4, <1>5, OnlyAcceptedCome

\* A proposed cell that no step decides or writes.
LEMMA CameOnceStays ==
    ASSUME SheetInv, Grow, NothingComes, DOMAIN log \subseteq DOMAIN log',
           NEW j \in DOMAIN proposals, proposals[j].kind = "cell",
           CameOnce(j), proposals'[j] = proposals[j], Accepting(j)' <=> Accepting(j)
    PROVE  CameOnce(j)'
<1>1. FromProposal(proposals[j])' = FromProposal(proposals[j])
  BY CameStays
<1> QED
  BY <1>1 DEF CameOnce

\* Calls that do not cross leave one answer to a proposal.
LEMMA AnsweredStays ==
    ASSUME SheetInv, OneAtATime, PeopleAccept, Answered, [Next]_vars, Tellable'
    PROVE  Answered'
<1>1. /\ Tables /\ Jobs /\ Len(log) \in Nat /\ DOMAIN log = 1 .. Len(log)
      /\ Tables' /\ Jobs' /\ PeopleAccept' /\ OneAtATime'
  BY Places, StepHolds, AcceptedStays, OneAtATimeStays DEF SheetInv, Tables
<1>2. CASE UNCHANGED <<log, records, inbox, proposals, call, alone>>
  BY <1>2 DEF Answered, Undecided, CameOnce, FromProposal, Accepting
<1>3. ASSUME NEW c \in DOMAIN call, StepOf(c), Well(c), alone'
      PROVE  /\ \A j \in DOMAIN proposals' : proposals'[j].kind = "cell" => CameOnce(j)'
             /\ Undecided'
  <2>1. Grow /\ DOMAIN call' = DOMAIN call /\ \A d \in DOMAIN call \ {c} : call'[d] = call[d]
    BY <1>3 DEF Well, Moves
  <2>2. alone /\ DOMAIN log \subseteq DOMAIN log'
    <3>1. DOMAIN log' = 1 .. Len(log') /\ Len(log') \in Nat
      BY <1>1, Places DEF Tables
    <3>2. alone
      BY <1>3, BeginsOrGoesOn DEF Arrives
    <3>3. DOMAIN log \subseteq DOMAIN log'
      BY <1>1, <2>1, <3>1 DEF Grow, LogGrows
    <3> QED
      BY <3>2, <3>3
  <2>3. /\ \A j \in DOMAIN proposals : proposals[j].kind = "cell" => CameOnce(j)
        /\ Undecided
    BY <2>2 DEF Answered
  <2>4. \A j \in DOMAIN proposals : /\ j \in DOMAIN proposals'
                                    /\ proposals'[j].kind = proposals[j].kind
    BY <2>1 DEF Grow, ProposalsGrow
  \* While one decides, the others are at rest.
  <2>5. ASSUME UnderWay(c), NEW d \in DOMAIN call, d # c
        PROVE  call[d].pc \notin Deciding /\ call'[d].pc \notin Deciding
    <3>1. ~UnderWay(d)
      BY <2>2, <2>5 DEF OneAtATime
    <3> QED
      BY <2>1, <2>5, <3>1 DEF UnderWay, Deciding
  <2>6. CASE ~Decide(c) /\ ~AcceptCell(c)
    <3>1. call[c].pc \notin Deciding /\ call'[c].pc # "accept"
      BY <1>3, <2>6, DecidesOnly DEF Deciding, Well
    <3>2. \A j : Accepting(j)' <=> Accepting(j)
      BY <2>1, <3>1 DEF Accepting, Deciding
    <3>3. CellsStand
      BY <1>3, <2>6, ProposalsMove
    <3>4. NothingComes
      <4>1. ASSUME NEW d \in DOMAIN call, AcceptCell(d) PROVE FALSE
        <5>1. call[d].pc = "accept" /\ call'[d].pc = "done"
          BY <4>1, Becomes DEF AcceptCell, Job, Moves, Done
        <5>2. d # c
          BY <2>6, <4>1
        <5> QED
          BY <2>1, <5>1, <5>2
      <4> QED
        BY <4>1, OnlyAcceptedCome
    <3>5. ASSUME NEW j \in DOMAIN proposals, proposals[j].kind = "cell" PROVE CameOnce(j)'
      BY <2>1, <2>2, <2>3, <3>2, <3>3, <3>4, <3>5, CameOnceStays DEF CellsStand
    <3>6. ASSUME NEW j \in DOMAIN proposals' \ DOMAIN proposals, proposals'[j].kind = "cell"
          PROVE  CameOnce(j)'
      <4>1. proposals'[j].status = "pending"
        BY <3>3, <3>6 DEF CellsStand
      <4>2. ~Accepting(j)'
        BY <1>1, <3>2, <3>6 DEF Accepting, Jobs, JobOK
      <4>3. ASSUME NEW i \in FromProposal(proposals[j])' PROVE FALSE
        <5>1. i \in DOMAIN log' /\ log'[i].from = "proposal"
          BY <4>3 DEF FromProposal
        <5>2. i \in DOMAIN log /\ log[i].from = "proposal"
          BY <1>1, <2>1, <3>4, <5>1 DEF NothingComes, Grow, LogGrows
        <5>3. PICK k \in DOMAIN proposals : proposals[k].kind = "cell" /\ i \in FromProposal(proposals[k])
          BY <5>2 DEF PeopleAccept, ToSet
        <5>4. i \in FromProposal(proposals[k])'
          BY <2>1, <3>4, <5>3, CameStays
        <5>5. <<proposals'[k].row, proposals'[k].column, proposals'[k].value>>
                = <<proposals'[j].row, proposals'[j].column, proposals'[j].value>>
          BY <4>3, <5>4 DEF FromProposal
        <5>6. k \in DOMAIN proposals' /\ proposals'[k].kind = "cell"
          BY <2>4, <5>3
        <5>7. k = j
          BY <3>6, <5>5, <5>6 DEF Tellable
        <5> QED
          BY <3>6, <5>7
      <4> QED
        BY <4>1, <4>2, <4>3 DEF CameOnce
    <3>7. Undecided'
      <4> SUFFICES ASSUME NEW d \in DOMAIN call, call'[d].pc = "decide",
                          proposals'[Request[d].proposal].kind = "cell"
                   PROVE  proposals'[Request[d].proposal].status = "pending"
        BY <2>1 DEF Undecided
      <4>1. CASE d = c
        <5>1. Decidable(c) /\ UNCHANGED proposals
          <6>1. StartDecide(c) /\ UNCHANGED proposals
            BY <1>3, <4>1 DEF Well, StartDecide, sheet
          <6>2. Become(c, Done) => call'[c].pc = "done"
            BY Becomes DEF Moves, Done
          <6> QED
            BY <4>1, <6>1, <6>2 DEF StartDecide
        <5> QED
          BY <4>1, <5>1 DEF Decidable
      <4>2. CASE d # c
        <5>1. call[d].pc = "decide" /\ Request[d].proposal \in DOMAIN proposals
          BY <1>1, <2>1, <4>2 DEF Jobs, JobOK
        <5> QED
          BY <2>3, <2>4, <3>3, <5>1 DEF Undecided, CellsStand
      <4> QED
        BY <4>1, <4>2
    <3> QED
      BY <2>4, <3>5, <3>6, <3>7
  <2>7. CASE Decide(c)
    <3> DEFINE n == Request[c].proposal
               decision == Request[c].decision
    <3>1. /\ call[c].pc = "decide" /\ n \in DOMAIN proposals /\ UNCHANGED log
          /\ proposals' = [proposals EXCEPT ![n].status = decision]
          /\ Become(c, IF decision = "accepted" /\ proposals[n].kind = "cell" THEN [pc |-> "accept"] ELSE Done)
      BY <1>1, <2>7 DEF Decide, Job, Jobs, JobOK
    <3>2. call'[c].pc = IF decision = "accepted" /\ proposals[n].kind = "cell" THEN "accept" ELSE "done"
      BY <3>1, Becomes DEF Moves, Done
    <3>3. /\ DOMAIN proposals' = DOMAIN proposals
          /\ \A j \in DOMAIN proposals : j # n => proposals'[j] = proposals[j]
          /\ proposals'[n].status = decision
      BY <1>1, <3>1 DEF Tables
    <3>4. UnderWay(c)
      BY <3>1 DEF UnderWay
    <3>5. /\ \A j : ~Accepting(j)
          /\ \A j : Accepting(j)' <=> (j = n /\ decision = "accepted" /\ proposals[n].kind = "cell")
      BY <2>1, <2>5, <3>1, <3>2, <3>4 DEF Accepting, Deciding
    <3>6. NothingComes
      BY <3>1 DEF NothingComes
    <3>7. ASSUME NEW j \in DOMAIN proposals, proposals[j].kind = "cell" PROVE CameOnce(j)'
      <4>1. CASE j # n
        BY <2>1, <2>2, <2>3, <3>3, <3>5, <3>6, <3>7, <4>1, CameOnceStays
      <4>2. CASE j = n
        <5>1. FromProposal(proposals[j]) = {}
          BY <2>3, <3>1, <3>7, <4>2 DEF Undecided, CameOnce
        <5>2. FromProposal(proposals[j])' = {}
          BY <2>1, <3>6, <3>7, <5>1, CameStays
        <5> QED
          BY <3>3, <3>5, <3>7, <4>2, <5>2 DEF CameOnce
      <4> QED
        BY <4>1, <4>2
    <3>8. Undecided'
      BY <2>1, <2>5, <3>2, <3>4 DEF Undecided, Deciding
    <3> QED
      BY <2>4, <3>3, <3>7, <3>8
  <2>8. CASE AcceptCell(c)
    <3> DEFINE n == Request[c].proposal
               p == proposals[n]
               w == Write(p.row, p.column, p.value, Request[c].by, "proposal")
    <3>1. /\ call[c].pc = "accept" /\ n \in DOMAIN proposals /\ p.kind = "cell" /\ UNCHANGED proposals
          /\ Insert(w) /\ Become(c, Done)
      BY <1>1, <2>8 DEF AcceptCell, Job, Jobs, JobOK
    <3>2. call'[c].pc = "done"
      BY <3>1, Becomes DEF Moves, Done
    <3>3. UnderWay(c)
      BY <3>1 DEF UnderWay
    <3>4. /\ \A j : Accepting(j) <=> j = n
          /\ \A j : ~Accepting(j)'
      BY <2>1, <2>5, <3>1, <3>2, <3>3 DEF Accepting, Deciding
    <3>5. /\ w.from = "proposal" /\ w.row = p.row /\ w.column = p.column /\ w.value = p.value
      BY DEF Write
    <3> HIDE DEF w
    <3>6. /\ DOMAIN log' = 1 .. Len(log) + 1 /\ log'[Len(log) + 1] = w
          /\ \A i \in DOMAIN log : log'[i] = log[i]
      BY <1>1, <3>1, Appended DEF Tables, Insert
    <3>7. Len(log) + 1 \notin DOMAIN log /\ DOMAIN log' = DOMAIN log \cup {Len(log) + 1}
      BY <1>1, <3>6
    <3>8. ASSUME NEW j \in DOMAIN proposals, proposals[j].kind = "cell" PROVE CameOnce(j)'
      <4>1. CASE j = n
        <5>1. p.status = "accepted" /\ FromProposal(p) = {}
          BY <2>3, <3>1, <3>4 DEF CameOnce
        <5>2. \A i \in DOMAIN log' : i \in FromProposal(p)' <=> i = Len(log) + 1
          <6>1. \A i \in DOMAIN log : i \notin FromProposal(p)'
            BY <3>1, <3>6, <3>7, <5>1 DEF FromProposal
          <6>2. Len(log) + 1 \in FromProposal(p)'
            BY <3>1, <3>5, <3>6, <3>7 DEF FromProposal
          <6> QED
            BY <3>7, <6>1, <6>2
        <5>3. FromProposal(p)' \subseteq DOMAIN log'
          BY DEF FromProposal
        <5>4. FromProposal(p)' = {Len(log) + 1}
          BY <3>7, <5>2, <5>3
        <5> QED
          BY <3>1, <3>4, <3>7, <4>1, <5>1, <5>4 DEF CameOnce
      <4>2. CASE j # n
        <5>1. <<proposals[j].row, proposals[j].column, proposals[j].value>> # <<p.row, p.column, p.value>>
          BY <3>1, <3>8, <4>2 DEF Tellable
        <5>2. FromProposal(proposals[j])' = FromProposal(proposals[j])
          BY <3>1, <3>5, <3>6, <3>7, <5>1 DEF FromProposal
        <5> QED
          BY <2>3, <3>1, <3>4, <3>7, <3>8, <4>2, <5>2 DEF CameOnce
      <4> QED
        BY <4>1, <4>2
    <3>9. Undecided'
      BY <2>1, <2>5, <3>2, <3>3 DEF Undecided, Deciding
    <3> QED
      BY <3>1, <3>8, <3>9
  <2> QED
    BY <2>6, <2>7, <2>8
<1>4. ASSUME NEW c \in DOMAIN call, StepOf(c), Well(c) PROVE Answered'
  BY <1>3, <1>4 DEF Answered
<1> QED
  BY <1>2, <1>4, EveryStep

-----------------------------------------------------------------------------
(* The theorems.                                                           *)

\* Nothing that was captured is lost: when all calls are at rest, an item that
\* a capture took in is filed on a sheet or in an Inbox, or stands as a question
\* that is open or was decided as a proposed cell is (capture(), resolveAmbiguity()
\* and decideProposal(), in any order and any number).
THEOREM NothingIsLost == Spec => []NothingCapturedIsLost
<1>1. SheetInv => NothingCapturedIsLost
  <2> SUFFICES ASSUME SheetInv, AtRest, NEW c \in Captured
               PROVE  Filed(c) \/ Open(c) \/ DecidedOtherwise(c)
    BY DEF NothingCapturedIsLost
  <2>1. Kept(c)
    BY DEF SheetInv, AllKept, Captured, Early
  <2>2. ~ \E d \in DOMAIN call : call[d].pc = "file"
    BY DEF AtRest
  <2>3. Recorded(c) => Filed(c)
    BY DEF Recorded, Filed
  <2>4. (\E i \in DOMAIN inbox : c \in inbox[i]) => Filed(c)
    BY DEF Filed
  <2> QED
    BY <2>1, <2>2, <2>3, <2>4 DEF Kept
<1> QED
  BY <1>1, Inductive, PTL

\* Every cell of work that runColumn() contracted was announced, unless a run of
\* the column was cut short by the insert of another.
THEOREM WorkIsAnnounced == Spec => []ContractedIsAnnounced
<1>1. SheetInv => ContractedIsAnnounced
  BY DEF SheetInv, AllTold, ToldBy, AtRest, ContractedIsAnnounced
<1> QED
  BY <1>1, Inductive, PTL

\* "A grant never reaches further than the granter holds": whatever share() has
\* granted goes back, grant by grant, to the memberships of a member, and what a
\* person outside may do is what a grant that stands lets them.
THEOREM GrantsComeFromMembers == Spec => []GrantsTraceToMembers
<1>1. SheetInv => GrantsTraceToMembers
  <2> SUFFICES ASSUME SheetInv PROVE GrantsTraceToMembers
    OBVIOUS
  <2>1. \A i \in DOMAIN shares : /\ shares[i].access \in DOMAIN Rank
                                 /\ \A scope \in shares[i].scopes : HeldBefore(i, scope)
    BY DEF SheetInv, Shared
  <2>2. ASSUME NEW w \in Outsider, NEW subject \in {"sheet", "row"}, AccessTo(w, subject) # "none"
        PROVE  \E i \in DOMAIN shares : /\ shares[i].to = w /\ ~shares[i].revoked /\ ~shares[i].expired
                                        /\ shares[i].access = AccessTo(w, subject)
    <3> DEFINE Of(s) == {shares[i].access : i \in {j \in SharedWith(w) :
                                                       shares[j].subject = s /\ ~shares[j].expired}}
               held == IF Of(subject) # {} \/ ~Owned(subject) THEN Of(subject) ELSE Of("sheet")
               best == CHOOSE a \in held : \A b \in held : Rank[b] <= Rank[a]
    <3>1. w \notin Worker
      BY <2>2, SharingAssumption
    <3>2. held # {} /\ AccessTo(w, subject) = best
      BY <2>2, <3>1 DEF AccessTo
    <3>3. \A a \in held : \E i \in DOMAIN shares :
              /\ shares[i].to = w /\ ~shares[i].revoked /\ ~shares[i].expired
              /\ shares[i].access = a
      BY DEF SharedWith
    <3>4. held \subseteq {"read", "comment", "edit"}
      BY <2>1, <3>3 DEF Rank
    <3> HIDE DEF held
    <3>5. \E a \in held : \A b \in held : Rank[b] <= Rank[a]
      <4>1. Rank["read"] = 1 /\ Rank["comment"] = 2 /\ Rank["edit"] = 3
        BY DEF Rank
      <4>2. CASE "edit" \in held
        BY <3>4, <4>1, <4>2
      <4>3. CASE "edit" \notin held /\ "comment" \in held
        BY <3>4, <4>1, <4>3
      <4>4. CASE "edit" \notin held /\ "comment" \notin held
        <5>1. \A a \in held : a = "read"
          BY <3>4, <4>4
        <5> QED
          BY <3>2, <4>1, <5>1
      <4> QED
        BY <4>2, <4>3, <4>4
    <3>6. best \in held
      BY <3>5
    <3> QED
      BY <3>2, <3>3, <3>6
  <2> QED
    BY <2>1, <2>2 DEF GrantsTraceToMembers
<1> QED
  BY <1>1, Inductive, PTL

\* An agent writes over no cell that a person typed before it looked (golden rule
\* 5 as setCell() keeps it), however edits, agents, decisions and recomputes cross.
THEOREM EditsAreKept == Spec => AgentKeepsEdits
<1> DEFINE Over(c) ==
        (log' # log /\ call'[c] # call[c]) =>
            LET w == log'[Len(log')]
                i == CurrentCell(Len(log), w.row, w.column)
            IN  (/\ w.by \notin Person
                 /\ ColumnType[w.column] \notin {"formula", "output", "evidence"}
                 /\ i # 0 /\ log[i].from = "edit") => i > call[c].looked
<1>1. SheetInv /\ [Next]_vars => [\A c \in DOMAIN call : Over(c)]_vars
  <2> SUFFICES ASSUME SheetInv, Next, NEW c \in DOMAIN call, log' # log, call'[c] # call[c]
               PROVE  Over(c)
    OBVIOUS
  <2>1. Tables /\ Jobs /\ Len(log) \in Nat
    BY Places DEF SheetInv, Tables
  <2>2. \A w : Insert(w) => log'[Len(log')] = w
    BY <2>1, Appended DEF Insert, Tables
  <2>3. PICK d \in DOMAIN call : PersonWrites(d) \/ AgentWrites(d) \/ RecomputeFormulas(d) \/ AcceptCell(d)
    BY LogMoves
  <2>4. CASE PersonWrites(d)
    <3>1. /\ Insert(Head(call[d].writes)) /\ Head(call[d].writes).by \notin Worker \ Person
          /\ WritingOK(call[d]) /\ call[d].writes # <<>>
      BY <2>1, <2>4 DEF PersonWrites, Job, Jobs, JobOK, WritingOK
    <3> QED
      BY <2>2, <3>1, HeadOK
  <2>5. CASE AgentWrites(d)
    <3>1. /\ Insert(Head(call[d].writes)) /\ Looked(call[d]) /\ d = c
      BY <2>1, <2>5 DEF AgentWrites, Job, Jobs, JobOK, Become
    <3> DEFINE w == Head(call[c].writes)
               i == CurrentCell(Len(log), w.row, w.column)
               then == CurrentCell(call[c].looked, w.row, w.column)
    <3>2. log'[Len(log')] = w
      BY <2>2, <3>1
    <3>3. ASSUME ColumnType[w.column] \notin {"formula", "output", "evidence"}, i # 0, log[i].from = "edit",
                 ~(i > call[c].looked)
          PROVE  FALSE
      <4>1. call[c].looked \in 0 .. Len(log) /\ ~(then # 0 /\ log[then].from = "edit")
        BY <3>1, <3>3 DEF Looked
      <4>2. /\ i \in 0 .. Len(log) /\ log[i].row = w.row /\ log[i].column = w.column
            /\ \A j \in 1 .. Len(log) : log[j].row = w.row /\ log[j].column = w.column => j <= i
        BY <2>1, <3>3, Current
      <4>3. /\ then \in 0 .. call[c].looked
            /\ then # 0 => log[then].row = w.row /\ log[then].column = w.column
            /\ \A j \in 1 .. call[c].looked :
                   log[j].row = w.row /\ log[j].column = w.column => then # 0 /\ j <= then
        BY <2>1, <4>1, Current
      <4> HIDE DEF w, i, then
      <4>4. i \in 1 .. call[c].looked
        BY <2>1, <3>3, <4>1, <4>2
      <4>5. then # 0 /\ i <= then /\ then \in 1 .. Len(log)
        BY <2>1, <4>1, <4>2, <4>3, <4>4
      <4>6. then <= i
        BY <4>2, <4>3, <4>5
      <4>7. then = i
        BY <2>1, <4>2, <4>5, <4>6
      <4> QED
        BY <3>3, <4>1, <4>5, <4>7
    <3> QED
      BY <3>2, <3>3
  <2>6. CASE RecomputeFormulas(d)
    <3> DEFINE changed == {k \in DOMAIN call[d].todo : Changed(call[d].todo[k], call[d].snapshot)}
               cell == call[d].todo[Min(changed)]
               w == [row |-> cell[1], column |-> cell[2], by |-> call[d].by, from |-> "formula",
                     value |-> ValueIn(cell, call[d].snapshot)]
    <3>1. changed # {} /\ Insert(w)
      BY <2>6 DEF RecomputeFormulas, Job
    <3>4. changed \subseteq Nat
      BY <2>1, <2>6 DEF RecomputeFormulas, Job, Jobs, JobOK, WritingOK
    <3>5. Min(changed) \in changed
      <4> HIDE DEF changed
      <4> QED
        BY <3>1, <3>4, LeastOf
    <3>2. Changed(cell, call[d].snapshot)
      BY <3>5
    <3>6. w.column = cell[2]
      OBVIOUS
    <3> HIDE DEF w, cell
    <3>3. ColumnType[w.column] = "formula"
      BY <3>2, <3>6 DEF Changed
    <3> QED
      BY <2>2, <3>1, <3>3
  <2>7. CASE AcceptCell(d)
    <3> DEFINE p == proposals[Request[d].proposal]
               w == Write(p.row, p.column, p.value, Request[d].by, "proposal")
    <3>1. Insert(w) /\ Request[d].by \in Person
      BY <2>1, <2>7 DEF AcceptCell, Job, Jobs, JobOK
    <3>2. w.by \in Person
      BY <3>1 DEF Write
    <3> HIDE DEF w
    <3> QED
      BY <2>2, <3>1, <3>2
  <2> QED
    BY <2>3, <2>4, <2>5, <2>6, <2>7
<1>2. [][\A c \in DOMAIN call : Over(c)]_vars => AgentKeepsEdits
  BY DEF AgentKeepsEdits
<1> QED
  BY <1>1, <1>2, Inductive, PTL DEF Spec

\* What came to the sheet from a proposal was proposed, and accepted by a person
\* (decideProposal()), whatever crosses it.
THEOREM PeopleDecide == Spec => []PeopleAccept
<1>1. Init => PeopleAccept
  <2> SUFFICES ASSUME Init PROVE PeopleAccept
    OBVIOUS
  <2>1. shape \in {"plan", "batch"} /\ log = OpeningLog[shape]
    BY CellsAssumption DEF Init, InitCells
  <2> QED
    BY <2>1, CellsAssumption DEF PeopleAccept
<1>2. SheetInv /\ PeopleAccept /\ [Next]_vars => PeopleAccept'
  BY AcceptedStays
<1> QED
  BY <1>1, <1>2, Inductive, PTL DEF Spec


\* A decision holds: as long as calls do not cross, a proposal came to the sheet
\* once if it was accepted, and otherwise not at all.  The cells on the sheet name
\* no proposal, so that two proposals of one value for one cell cannot be told
\* apart; that there are none is the hypothesis (Tellable).
THEOREM DecisionsStand == Spec /\ []Tellable => []DecisionsHold
<1>1. Init => OneAtATime /\ Answered
  <2> SUFFICES ASSUME Init PROVE OneAtATime /\ Answered
    OBVIOUS
  <2>1. \A c \in DOMAIN call : call[c].pc = "idle"
    BY DEF Init, InitCells, Idle
  <2>2. DOMAIN proposals = {}
    BY DEF Init, InitCells
  <2> QED
    BY <2>1, <2>2 DEF OneAtATime, Answered, Undecided, UnderWay
<1>2. SheetInv /\ OneAtATime /\ [Next]_vars => OneAtATime'
  BY OneAtATimeStays
<1>3. SheetInv /\ OneAtATime /\ PeopleAccept /\ Answered /\ Tellable' /\ [Next]_vars => Answered'
  BY AnsweredStays
<1>4. PeopleAccept /\ Answered => DecisionsHold
  <2> SUFFICES ASSUME Answered, AtRest, alone, NEW j \in DOMAIN proposals, proposals[j].kind = "cell"
               PROVE  Cardinality(FromProposal(proposals[j]))
                        = IF proposals[j].status = "accepted" THEN 1 ELSE 0
    BY DEF DecisionsHold, OneAnswer, ToSet
  <2>1. CameOnce(j) /\ ~Accepting(j)
    BY DEF Answered, AtRest, Accepting
  <2>2. CASE proposals[j].status = "accepted"
    <3>1. PICK i \in DOMAIN log : FromProposal(proposals[j]) = {i}
      BY <2>1, <2>2 DEF CameOnce
    <3> QED
      BY <2>2, <3>1, FS_Singleton
  <2>3. CASE proposals[j].status # "accepted"
    <3>1. FromProposal(proposals[j]) = {}
      BY <2>1, <2>3 DEF CameOnce
    <3> QED
      BY <2>3, <3>1, FS_EmptySet
  <2> QED
    BY <2>2, <2>3
<1> QED
  BY <1>1, <1>2, <1>3, <1>4, Inductive, PeopleDecide, PTL DEF Spec

-----------------------------------------------------------------------------
(* What formulas and conditions mean.                                      *)

\* What a formula means in a row, of the cells at a place in the log.
Meant(row, k, n) == Meaning(k, row, GridAt(n), GridAt(Len(OpeningLog[shape])))

\* The evaluator, on a snapshot that nothing crosses: a formula has the value it
\* means, and where it cannot be read nothing but what stands is meant.
FormulasMean ==
    \A c \in DOMAIN call : alone /\ call[c].pc = "compute" =>
        LET s == call[c].snapshot IN
        \A row \in 1 .. s.rows, k \in Range(s.columns) : ColumnType[k] = "formula" =>
            Meant(row, k, s.seen) = IF ValueIn(<<row, k>>, s) = Error THEN ValueAt(s.seen, row, k)
                                    ELSE ValueIn(<<row, k>>, s)

\* And on the condition of a rule.
ConditionsMean ==
    \A i \in DOMAIN Rule, row \in DOMAIN records :
        ConditionHolds(Rule[i], row) <=> RuleMeans(i, row, GridAt(Len(log)))

\* The cells a recompute has before it.
InGrid(cell) == cell[1] \in DOMAIN records /\ cell[2] \in Range(columns) /\ cell = <<cell[1], cell[2]>>

\* A formula cell says what is meant, or stands as it was read and is still to come.
UpToDate(c, row, k) ==
    LET s == call[c].snapshot IN
    \/ ValueAt(Len(log), row, k) = Meant(row, k, s.seen)
    \/ /\ \E i \in DOMAIN call[c].todo : call[c].todo[i] = <<row, k>>
       /\ CurrentCell(Len(log), row, k) = CurrentCell(s.seen, row, k)

\* A recompute that nothing crossed read the sheet as it is, but for its own writes.
Computes(c) ==
    LET s == call[c].snapshot IN
    /\ s.columns = columns /\ s.rows = Len(records) /\ s.seen \in 0 .. Len(log)
    /\ \A i \in s.seen + 1 .. Len(log) : ColumnType[log[i].column] = "formula"
    /\ IsSequence(call[c].todo)
    /\ \A i \in DOMAIN call[c].todo : InGrid(call[c].todo[i])
    /\ \A row \in DOMAIN records, k \in Range(columns) : ColumnType[k] = "formula" => UpToDate(c, row, k)

\* A sweep notes what it fires before it writes the drafts.
Noted(job) ==
    job.pc = "fired" \/ (job.pc \in {"write", "land", "propose"} /\ job.then = "fired")
        => "fired" \in DOMAIN job

Grounds ==
    /\ IsSequence(columns)
    /\ shape \in {"plan", "batch"}
    /\ Len(OpeningLog[shape]) \in Nat /\ Len(OpeningLog[shape]) <= Len(log)
    /\ \A c \in DOMAIN call : /\ call[c].pc = "idle" => call[c] = Idle
                             /\ Noted(call[c])

FormulasInv == Grounds /\ OneAtATime /\ (alone => \A c \in DOMAIN call : call[c].pc = "compute" => Computes(c))

\* Where a job of writes begins.
LEMMA WritingAt ==
    ASSUME NEW by, NEW writes, NEW then, NEW strict, NEW after
    PROVE  /\ Writing(by, writes, then, strict, after).pc \in {"write", then}
           /\ Writing(by, writes, then, strict, after).then = then
           /\ "fired" \notin DOMAIN Writing(by, writes, then, strict, after)
BY DEF Writing

\* A call is not begun again, only a recompute reads the sheet to compute, and only
\* a sweep says what it fires.
GoesOn(c) ==
    /\ call'[c].pc # "idle"
    /\ call'[c].pc = "compute" => ReadSheet(c) \/ RecomputeFormulas(c)
    /\ Evaluated(call'[c]) \subseteq Evaluated(call[c]) \/ StartSweep(c) \/ SweepSchedule(c)
    /\ Noted(call[c]) => Noted(call'[c])

\* A job that has fired nothing, or what its call had.
Keeping(c, job) ==
    "fired" \notin DOMAIN job \/ (DOMAIN job = DOMAIN call[c] /\ job.fired = call[c].fired)

LEMMA WritesOn ==
    ASSUME NEW c \in DOMAIN call, NEW job, Become(c, job), job.pc \notin {"idle", "compute"},
           Keeping(c, job), Noted(call[c]) => Noted(job)
    PROVE  GoesOn(c)
BY DEF Become, GoesOn, Keeping, Evaluated

LEMMA Onward ==
    ASSUME NEW c \in DOMAIN call, NEW job, Become(c, job),
           job.pc \notin {"idle", "compute", "write", "land", "propose", "fired"}, Keeping(c, job)
    PROVE  GoesOn(c)
BY WritesOn DEF Noted

LEMMA OnToWrite ==
    ASSUME NEW c \in DOMAIN call, NEW by, NEW writes, NEW strict, NEW after,
           Become(c, Writing(by, writes, "recompute", strict, after))
    PROVE  GoesOn(c)
<1>1. PICK job : job = Writing(by, writes, "recompute", strict, after)
  OBVIOUS
<1>2. job.pc \in {"write", "recompute"} /\ job.then = "recompute" /\ "fired" \notin DOMAIN job
  BY <1>1, WritingAt
<1> QED
  BY <1>1, <1>2, WritesOn DEF Keeping, Noted

LEMMA CellsGoOn == ASSUME SheetInv, NEW c \in DOMAIN call, CellsStep(c) PROVE GoesOn(c)
<1>1. call[c].pc \in {"write", "land", "propose", "recompute", "compute"} /\ WritingOK(call[c])
  BY DEF CellsStep, SkipWrite, PersonWrites, AgentLooks, AgentWrites, AgentProposes, ReadSheet,
         RecomputeFormulas, Job, SheetInv, Jobs, JobOK
<1>2. "pc" \in DOMAIN call[c] /\ call[c].after \in {"fields", "done"}
  BY <1>1 DEF WritingOK, WritingFields
<1>3. CASE Become(c, Done)
  BY <1>1, <1>3, Onward DEF Done, Keeping
<1>4. CASE call[c].pc \in {"write", "land", "propose"} /\ Become(c, AfterWrite(call[c]))
  <2>1. PICK job : job = AfterWrite(call[c])
    OBVIOUS
  <2>2. job.pc \in {"write", "recompute", "fired"}
    BY <1>1, <1>4, <2>1, WritingGoesOn DEF WritingOK
  <2>3. /\ DOMAIN job = DOMAIN call[c]
        /\ job.then = call[c].then
        /\ "fired" \in DOMAIN call[c] => job.fired = call[c].fired
        /\ job.pc \in {"write", call[c].then}
    BY <1>1, <2>1 DEF AfterWrite, WritingOK, WritingFields
  <2>4. Keeping(c, job) /\ (Noted(call[c]) => Noted(job))
    BY <1>4, <2>2, <2>3 DEF Keeping, Noted
  <2> QED
    BY <1>4, <2>1, <2>2, <2>4, WritesOn
<1>5. CASE AgentLooks(c)
  <2> DEFINE job(pc) == [call[c] EXCEPT !.pc = pc, !.looked = Len(log)]
  <2>1. Become(c, job("land")) \/ Become(c, job("propose"))
    BY <1>5 DEF AgentLooks, Job
  <2>2. call[c].pc = "write"
    BY <1>5 DEF AgentLooks, Job
  <2>3. ASSUME NEW pc \in {"land", "propose"} PROVE GoesOn(c) \/ ~Become(c, job(pc))
    <3>1. /\ job(pc).pc = pc /\ DOMAIN job(pc) = DOMAIN call[c]
          /\ job(pc).then = call[c].then
          /\ "fired" \in DOMAIN call[c] => job(pc).fired = call[c].fired
      BY <1>2
    <3> HIDE DEF job
    <3>2. Keeping(c, job(pc)) /\ (Noted(call[c]) => Noted(job(pc)))
      BY <2>2, <3>1 DEF Keeping, Noted
    <3> QED
      BY <2>3, <3>1, <3>2, WritesOn
  <2> QED
    BY <2>1, <2>3
<1>6. CASE ReadSheet(c) \/ RecomputeFormulas(c)
  <2>1. /\ call'[c].pc \in {"compute", "fields", "done"}
        /\ DOMAIN call'[c] = DOMAIN call[c]
        /\ "fired" \in DOMAIN call[c] => call'[c].fired = call[c].fired
    <3>1. CASE ReadSheet(c)
      BY <1>2, <3>1 DEF ReadSheet, Become, Job
    <3>2. CASE RecomputeFormulas(c)
      <4> DEFINE changed == {i \in DOMAIN call[c].todo : Changed(call[c].todo[i], call[c].snapshot)}
                 ended == [call[c] EXCEPT !.todo = <<>>, !.pc = call[c].after]
                 on == [call[c] EXCEPT !.todo = SubSeq(@, Min(changed) + 1, Len(@))]
      <4>1. call[c].pc = "compute" /\ (Become(c, ended) \/ Become(c, on))
        BY <3>2 DEF RecomputeFormulas, Job
      <4>2. /\ ended.pc = call[c].after /\ on.pc = call[c].pc
            /\ DOMAIN ended = DOMAIN call[c] /\ DOMAIN on = DOMAIN call[c]
            /\ "fired" \in DOMAIN call[c] => ended.fired = call[c].fired /\ on.fired = call[c].fired
        BY <1>2
      <4> HIDE DEF ended, on
      <4> QED
        BY <1>2, <4>1, <4>2 DEF Become
    <3> QED
      BY <1>6, <3>1, <3>2
  <2> QED
    BY <1>6, <2>1 DEF GoesOn, Evaluated, Noted
<1> QED
  BY <1>3, <1>4, <1>5, <1>6 DEF CellsStep, SkipWrite, PersonWrites, AgentWrites, AgentProposes, Job

LEMMA GridGoesOn == ASSUME SheetInv, NEW c \in DOMAIN call, GridStep(c) PROVE GoesOn(c)
<1>1. CASE Become(c, Done) \/ Become(c, [pc |-> "threw"])
  BY <1>1, Onward DEF Done, Keeping
<1>2. CASE StartEdit(c) \/ StartAddRow(c) \/ StartAgentCell(c) \/ StartRefresh(c) \/ BumpVersion(c)
  BY <1>1, <1>2, OnToWrite DEF StartEdit, StartAddRow, StartAgentCell, StartRefresh, BumpVersion
<1>3. ASSUME NEW pc \in {"insert", "version", "decide", "accept"}, Become(c, [pc |-> pc]) PROVE GoesOn(c)
  BY <1>3, Onward DEF Keeping
<1>4. CASE StartAddColumn(c) \/ InsertColumn(c) \/ StartDecide(c) \/ Decide(c)
  BY <1>1, <1>3, <1>4 DEF StartAddColumn, InsertColumn, StartDecide, Decide
<1>5. CASE ReadFields(c)
  BY <1>5, Onward DEF ReadFields, Keeping
<1>6. CASE ReadVersion(c)
  BY <1>6, Onward DEF ReadVersion, Keeping
<1>7. CASE StoreFields(c) \/ Propose(c) \/ AcceptCell(c)
  BY <1>1, <1>7 DEF StoreFields, Propose, AcceptCell
<1> QED
  BY <1>2, <1>4, <1>5, <1>6, <1>7 DEF GridStep

LEMMA CaptureGoesOn == ASSUME SheetInv, NEW c \in DOMAIN call, CaptureStep(c) PROVE GoesOn(c)
<1>1. CASE Become(c, Done)
  BY <1>1, Onward DEF Done, Keeping
<1>2. CASE StartCapture(c)
  <2> DEFINE found == FindCandidates(Request[c])
  <2>1. \/ Become(c, [pc |-> "ask", found |-> FirstOf(found)])
        \/ \E row : Become(c, [pc |-> "file", row |-> row, item |-> c])
        \/ Become(c, [pc |-> "inbox"])
    BY <1>2, CaptureBecomes
  <2> QED
    BY <2>1, Onward DEF Keeping
<1>3. CASE FindInbox(c) \/ MakeInbox(c)
  BY <1>3, Onward DEF FindInbox, MakeInbox, Keeping
<1>4. CASE FileRecord(c)
  <2>1. Become(c, Done) \/ \E by, writes : Become(c, Writing(by, writes, "recompute", FALSE, "done"))
    BY <1>4 DEF FileRecord, FillBlanks
  <2> QED
    BY <1>1, <2>1, OnToWrite
<1>5. CASE StartAnswer(c)
  <2>1. Become(c, [pc |-> "answer"]) \/ Become(c, Done)
    BY <1>5 DEF StartAnswer
  <2> QED
    BY <1>1, <2>1, Onward DEF Keeping
<1>6. CASE Answer(c)
  BY <1>6, Onward DEF Answer, Keeping
<1> QED
  BY <1>1, <1>2, <1>3, <1>4, <1>5, <1>6 DEF CaptureStep, AskWhich, FileInInbox

LEMMA RunsGoOn ==
    ASSUME SheetInv, NEW c \in DOMAIN call, RulesStep(c) \/ ColumnRunStep(c) \/ SharingStep(c)
    PROVE  GoesOn(c)
<1>1. CASE Become(c, Done) \/ Become(c, [pc |-> "threw"])
  BY <1>1, Onward DEF Done, Keeping
<1>2. CASE StartSweep(c) \/ SweepSchedule(c)
  <2>1. PICK when, fired : call'[c] = Applying(when, fired)
    BY <1>2 DEF StartSweep, SweepSchedule, Become
  <2> QED
    BY <1>2, <2>1, Applied DEF GoesOn, Noted
<1>3. CASE StartColumnRun(c)
  <2>1. \/ Become(c, [pc |-> "insertContract", row |-> 1, rows |-> Len(records),
                      existing |-> contracts, created |-> {}])
        \/ Become(c, [pc |-> "threw"])
    BY <1>3 DEF StartColumnRun
  <2> QED
    BY <1>1, <2>1, Onward DEF Keeping
<1>4. CASE InsertContract(c) \/ ContractRow(c)
  <2>1. call[c].pc \in {"insertContract", "contract"} /\ ColumnJob \subseteq DOMAIN call[c]
    BY <1>4 DEF InsertContract, ContractRow, Job, SheetInv, Jobs, JobOK, ColumnJob
  <2> DEFINE on == [call[c] EXCEPT !.pc = "contract"]
             made == [call[c] EXCEPT !.pc = "contract",
                                     !.existing = With(@, Key(c), [state |-> "drafted"])]
             told == NextRow([call[c] EXCEPT !.created = @ \cup {Key(c)}])
             next == NextRow(call[c])
  <2>2. \/ Become(c, on) \/ Become(c, made) \/ Become(c, told) \/ Become(c, next)
        \/ Become(c, [pc |-> "threw"])
    BY <1>4 DEF InsertContract, ContractRow, Job, Announces
  <2>3. on.pc = "contract" /\ made.pc = "contract" /\ Keeping(c, on) /\ Keeping(c, made)
    BY <2>1 DEF ColumnJob, Keeping
  <2>4. told.pc = "insertContract" /\ next.pc = "insertContract" /\ Keeping(c, told) /\ Keeping(c, next)
    BY <2>1 DEF ColumnJob, NextRow, Keeping
  <2> HIDE DEF on, made, told, next
  <2> QED
    BY <1>1, <2>1, <2>2, <2>3, <2>4, Onward
<1>5. CASE StartShare(c) \/ ReadReach(c)
  <2>1. \/ Become(c, [pc |-> "reach"]) \/ Become(c, Done)
        \/ \E scopes : Become(c, [pc |-> "grantee", scopes |-> scopes])
    BY <1>5 DEF StartShare, ReadReach, Reach
  <2> QED
    BY <1>1, <2>1, Onward DEF Keeping
<1>6. CASE FindGrantee(c) \/ Invite(c)
  <2>1. call[c].pc \in {"grantee", "invite"} /\ "pc" \in DOMAIN call[c]
    BY <1>6 DEF FindGrantee, Invite, Job, SheetInv, Jobs, JobOK
  <2> DEFINE job(pc) == [call[c] EXCEPT !.pc = pc]
  <2>2. \/ Become(c, job("grant")) \/ Become(c, job("invite"))
        \/ Become(c, Done) \/ Become(c, [pc |-> "threw"])
    BY <1>6 DEF FindGrantee, Invite, Job
  <2>3. /\ job("grant").pc = "grant" /\ job("invite").pc = "invite"
        /\ Keeping(c, job("grant")) /\ Keeping(c, job("invite"))
    BY <2>1 DEF Keeping
  <2> HIDE DEF job
  <2> QED
    BY <1>1, <2>1, <2>2, <2>3, Onward
<1> QED
  BY <1>1, <1>2, <1>3, <1>4, <1>5, <1>6
     DEF RulesStep, EndSweep, ColumnRunStep, SendAssigned, SharingStep, Grant, RevokeShare

LEMMA CallsGoOn == ASSUME SheetInv, NEW c \in DOMAIN call, StepOf(c) PROVE GoesOn(c)
BY CellsGoOn, GridGoesOn, CaptureGoesOn, RunsGoOn DEF StepOf

\* A call that computes goes on computing.
LEMMA ComputesOn == ASSUME NEW c \in DOMAIN call, StepOf(c), call[c].pc = "compute" PROVE RecomputeFormulas(c)
<1>0. \A op : Asks(c, op) => call[c].pc = "idle"
  BY DEF Asks, Arrives, Idle
<1>1. CASE CellsStep(c)
  BY <1>1 DEF CellsStep, SkipWrite, PersonWrites, AgentLooks, AgentWrites, AgentProposes, ReadSheet, Job
<1>2. CASE GridStep(c)
  BY <1>0, <1>2 DEF GridStep, StartEdit, ReadFields, StoreFields, StartAddRow, StartAddColumn,
                    InsertColumn, ReadVersion, BumpVersion, StartAgentCell, StartRefresh, Propose,
                    StartDecide, Decide, AcceptCell, Job
<1>3. CASE CaptureStep(c)
  BY <1>0, <1>3 DEF CaptureStep, StartCapture, AskWhich, FindInbox, MakeInbox, FileInInbox, FileRecord,
                    StartAnswer, Answer, Job
<1>4. CASE RulesStep(c) \/ ColumnRunStep(c)
  BY <1>0, <1>4 DEF RulesStep, StartSweep, SweepSchedule, EndSweep, ColumnRunStep, StartColumnRun, InsertContract,
                    ContractRow, SendAssigned, Job
<1>5. CASE SharingStep(c)
  BY <1>0, <1>5 DEF SharingStep, StartShare, ReadReach, FindGrantee, Invite, Grant, RevokeShare, Job
<1> QED
  BY <1>1, <1>2, <1>3, <1>4, <1>5 DEF StepOf

-----------------------------------------------------------------------------
(* The grid under one recompute.                                           *)

\* What stood at a place in the log stands.
LEMMA CurrentStays ==
    ASSUME Tables, LogGrows, NEW n \in 0 .. Len(log), NEW row, NEW k
    PROVE  /\ CurrentCell(n, row, k)' = CurrentCell(n, row, k)
           /\ ValueAt(n, row, k)' = ValueAt(n, row, k)
<1>1. Len(log) \in Nat
  BY Places DEF Tables
<1>2. \A j \in 1 .. n : log'[j] = log[j]
  BY <1>1 DEF LogGrows
<1>3. {j \in 1 .. n : log'[j].row = row /\ log'[j].column = k}
        = {j \in 1 .. n : log[j].row = row /\ log[j].column = k}
  BY <1>2
<1>4. CurrentCell(n, row, k)' = CurrentCell(n, row, k)
  BY <1>3 DEF CurrentCell
<1>5. CurrentCell(n, row, k) \in 0 .. n
  BY <1>1, Current
<1> QED
  BY <1>1, <1>2, <1>4, <1>5 DEF ValueAt

LEMMA GridStays ==
    ASSUME Tables, LogGrows, UNCHANGED columns, DOMAIN records' = DOMAIN records,
           NEW n \in 0 .. Len(log)
    PROVE  GridAt(n)' = GridAt(n)
<1>1. \A row, k : ValueAt(n, row, k)' = ValueAt(n, row, k)
  BY CurrentStays
<1> QED
  BY <1>1 DEF GridAt

LEMMA MeantStays ==
    ASSUME Tables, Grounds, LogGrows, UNCHANGED <<shape, columns>>, DOMAIN records' = DOMAIN records,
           NEW n \in 0 .. Len(log), NEW row, NEW k
    PROVE  Meant(row, k, n)' = Meant(row, k, n)
<1>1. PICK m : m = Len(OpeningLog[shape])
  OBVIOUS
<1>2. m \in 0 .. Len(log)
  BY <1>1, Places DEF Grounds, Tables
<1>3. GridAt(n)' = GridAt(n) /\ GridAt(m)' = GridAt(m)
  BY <1>2, GridStays
<1>4. Meant(row, k, n) = Meaning(k, row, GridAt(n), GridAt(m))
  BY <1>1 DEF Meant
<1>5. Meant(row, k, n)' = Meaning(k, row, GridAt(n)', GridAt(m)')
  BY <1>1 DEF Meant
<1> QED
  BY <1>3, <1>4, <1>5

\* The cells that no formula fills stand as they stood before formulas were written.
LEMMA GridUnderFormulas ==
    ASSUME Tables, NEW n \in 0 .. Len(log),
           \A i \in n + 1 .. Len(log) : ColumnType[log[i].column] = "formula"
    PROVE  GridAt(Len(log)) = GridAt(n)
<1>1. Len(log) \in Nat
  BY Places DEF Tables
<1>2. ASSUME NEW row, NEW k, ColumnType[k] # "formula"
      PROVE  ValueAt(Len(log), row, k) = ValueAt(n, row, k)
  <2>1. \A i \in 1 .. Len(log) : log[i].row = row /\ log[i].column = k => i \in 1 .. n
    BY <1>1, <1>2
  <2>2. {i \in 1 .. Len(log) : log[i].row = row /\ log[i].column = k}
          = {i \in 1 .. n : log[i].row = row /\ log[i].column = k}
    BY <1>1, <2>1
  <2> QED
    BY <2>2 DEF ValueAt, CurrentCell
<1> QED
  BY <1>2 DEF GridAt

\* A cell that is written is the one that changes.
LEMMA CellChanges ==
    ASSUME Tables, NEW w, Insert(w), NEW row, NEW k
    PROVE  /\ w.row = row /\ w.column = k => ValueAt(Len(log), row, k)' = w.value
           /\ ~(w.row = row /\ w.column = k) =>
                  /\ CurrentCell(Len(log), row, k)' = CurrentCell(Len(log), row, k)
                  /\ ValueAt(Len(log), row, k)' = ValueAt(Len(log), row, k)
<1>1. /\ Len(log) \in Nat /\ Len(log') = Len(log) + 1
      /\ \A i \in 1 .. Len(log) : log'[i] = log[i]
      /\ log'[Len(log) + 1] = w
  BY Places, Appended DEF Tables, Insert
<1>2. PICK n \in Nat : n = Len(log)
  BY <1>1
<1>3. CurrentCell(n + 1, row, k)' = CurrentCell(Len(log), row, k)'
      /\ ValueAt(n + 1, row, k)' = ValueAt(Len(log), row, k)'
  BY <1>1, <1>2 DEF CurrentCell, ValueAt
<1> DEFINE P == {i \in 1 .. n : log[i].row = row /\ log[i].column = k}
           Q == {i \in 1 .. n + 1 : log'[i].row = row /\ log'[i].column = k}
<1>4. CurrentCell(n + 1, row, k)' = IF Q = {} THEN 0 ELSE Max(Q)
  BY DEF CurrentCell
<1>5. CASE w.row = row /\ w.column = k
  <2>1. n + 1 \in Q /\ Q \subseteq 1 .. n + 1
    BY <1>1, <1>2, <1>5
  <2>2. Max(Q) = n + 1
    <3>1. PICK T : T = Q
      OBVIOUS
    <3>2. PICK p \in Nat : p = n + 1
      OBVIOUS
    <3>3. p \in T /\ T \subseteq 1 .. p /\ T # {}
      BY <2>1, <3>1, <3>2
    <3>4. Max(T) \in T /\ \A y \in T : y <= Max(T)
      BY <3>3, Greatest
    <3>5. PICK m : m = Max(T)
      OBVIOUS
    <3>6. m \in 1 .. p /\ p <= m
      BY <3>3, <3>4, <3>5
    <3>7. m = p
      BY <3>6
    <3>8. Max(Q) = Max(T)
      BY <3>1, Zenon
    <3> QED
      BY <3>2, <3>5, <3>7, <3>8
  <2>3. CurrentCell(n + 1, row, k)' = n + 1
    BY <1>4, <2>1, <2>2
  <2>4. ValueAt(n + 1, row, k)' = log'[n + 1].value
    BY <2>3 DEF ValueAt
  <2> QED
    BY <1>1, <1>2, <1>3, <1>5, <2>4
<1>6. CASE ~(w.row = row /\ w.column = k)
  <2>1. Q = P
    <3>1. \A i \in Q : i # n + 1
      BY <1>1, <1>2, <1>6
    <3> QED
      BY <1>1, <1>2, <3>1
  <2>2. CurrentCell(n, row, k) = IF P = {} THEN 0 ELSE Max(P)
    BY DEF CurrentCell
  <2>3. CurrentCell(n + 1, row, k)' = CurrentCell(n, row, k)
    BY <1>4, <2>1, <2>2
  <2>4. CurrentCell(n, row, k) \in 0 .. n
    BY Current
  <2>5. ValueAt(n + 1, row, k)' = ValueAt(n, row, k)
    BY <1>1, <1>2, <2>3, <2>4 DEF ValueAt
  <2> QED
    BY <1>2, <1>3, <1>6, <2>3, <2>5
<1> QED
  BY <1>5, <1>6

\* Counting row by row.
LEMMA PlaceOf ==
    ASSUME NEW w \in Nat \ {0}, NEW r \in Nat, NEW j \in 0 .. w - 1
    PROVE  (w * r + j) \div w = r /\ (w * r + j) % w = j
<1>0. w * r \in Nat
  OBVIOUS
<1> DEFINE x == w * r + j
           q == x \div w
           m == x % w
<1>1. x \in Nat
  BY <1>0
<1> HIDE DEF x
<1>2. q \in Int /\ m \in 0 .. w - 1 /\ x = w * q + m
  BY <1>1
<1> HIDE DEF q, m
<1>3. ASSUME q >= r + 1 PROVE FALSE
  <2>1. w * q >= w * (r + 1)
    BY <1>2, <1>3
  <2>2. w * (r + 1) = w * r + w
    OBVIOUS
  <2>3. w * q \in Int
    BY <1>2
  <2> QED
    BY <1>0, <1>2, <2>1, <2>2, <2>3 DEF x
<1>4. ASSUME q <= r - 1 PROVE FALSE
  <2>1. w * q <= w * (r - 1)
    BY <1>2, <1>4
  <2>2. w * (r - 1) = w * r - w
    OBVIOUS
  <2>3. w * q \in Int
    BY <1>2
  <2> QED
    BY <1>0, <1>2, <2>1, <2>2, <2>3 DEF x
<1>5. q = r
  BY <1>2, <1>3, <1>4
<1>6. m = j
  BY <1>0, <1>2, <1>5 DEF x
<1> QED
  BY <1>5, <1>6 DEF q, m, x

LEMMA RowOf ==
    ASSUME NEW w \in Nat \ {0}, NEW n \in Nat, NEW x \in 0 .. n * w - 1
    PROVE  x \div w \in 0 .. n - 1 /\ x % w \in 0 .. w - 1
<1>0. n * w \in Nat /\ n * w = w * n
  OBVIOUS
<1> DEFINE q == x \div w
           m == x % w
<1>1. x \in Nat
  BY <1>0
<1>2. q \in Int /\ m \in 0 .. w - 1 /\ x = w * q + m
  BY <1>1
<1> HIDE DEF q, m
<1>3. ASSUME q >= n PROVE FALSE
  <2>1. w * q >= w * n /\ w * q \in Int
    BY <1>2, <1>3
  <2> QED
    BY <1>0, <1>2, <2>1
<1>4. ASSUME q <= -1 PROVE FALSE
  <2>1. w * q <= w * (-1) /\ w * q \in Int
    BY <1>2, <1>4
  <2> QED
    BY <1>1, <1>2, <2>1
<1> QED
  BY <1>2, <1>3, <1>4 DEF q, m

\* A recompute has every cell of the grid before it, and no others.
LEMMA CellsOfGrid ==
    ASSUME Tables, IsSequence(columns), NEW s, s.rows = Len(records), s.columns = columns
    PROVE  /\ IsSequence(CellsInOrder(s))
           /\ \A i \in DOMAIN CellsInOrder(s) : InGrid(CellsInOrder(s)[i])
           /\ \A row \in DOMAIN records, k \in Range(columns) :
                  \E i \in DOMAIN CellsInOrder(s) : CellsInOrder(s)[i] = <<row, k>>
<1>1. /\ Len(records) \in Nat /\ DOMAIN records = 1 .. Len(records)
      /\ Len(columns) \in Nat /\ DOMAIN columns = 1 .. Len(columns)
  BY Places DEF Tables
<1>2. PICK n \in Nat, w \in Nat : n = Len(records) /\ w = Len(columns)
  BY <1>1
<1> DEFINE cells == CellsInOrder(s)
<1>3. n * w \in Nat
  BY SMT
<1>4. /\ DOMAIN cells = 1 .. n * w
      /\ cells = [i \in 1 .. n * w |-> cells[i]]
      /\ \A i \in 1 .. n * w : cells[i] = <<((i - 1) \div w) + 1, columns[((i - 1) % w) + 1]>>
  BY <1>2 DEF CellsInOrder
<1> HIDE DEF cells
<1>5. IsSequence(cells)
  BY <1>3, <1>4, Numbered
<1>6. ASSUME NEW i \in DOMAIN cells PROVE InGrid(cells[i])
  <2>1. w # 0
    BY <1>4
  <2>2. PICK x \in 0 .. n * w - 1 : x = i - 1
    BY <1>3, <1>4
  <2>3. x \div w \in 0 .. n - 1 /\ x % w \in 0 .. w - 1
    BY <2>1, RowOf
  <2>4. (x \div w) + 1 \in 1 .. n /\ (x % w) + 1 \in 1 .. w
    BY <2>3
  <2>5. cells[i] = <<(x \div w) + 1, columns[(x % w) + 1]>>
    BY <1>4, <2>2
  <2>6. columns[(x % w) + 1] \in Range(columns)
    BY <1>1, <1>2, <2>4 DEF Range
  <2>7. (x \div w) + 1 \in DOMAIN records
    BY <1>1, <1>2, <2>4
  <2> QED
    BY <2>5, <2>6, <2>7 DEF InGrid
<1>7. ASSUME NEW row \in DOMAIN records, NEW k \in Range(columns)
      PROVE  \E i \in DOMAIN cells : cells[i] = <<row, k>>
  <2>1. PICK j \in 1 .. w : columns[j] = k
    BY <1>1, <1>2 DEF Range
  <2>2. row \in 1 .. n
    BY <1>1, <1>2
  <2>3. PICK r \in Nat, m \in 0 .. w - 1 : r = row - 1 /\ m = j - 1
    BY <2>2
  <2>0. w \in Nat \ {0}
    BY <2>1
  <2>4. (w * r + m) \div w = r /\ (w * r + m) % w = m
    BY <2>0, PlaceOf
  <2>5. w * r + w <= n * w
    <3>1. r + 1 <= n
      BY <2>2, <2>3
    <3>2. w * (r + 1) <= w * n
      BY <3>1
    <3>3. w * (r + 1) = w * r + w /\ w * n = n * w
      OBVIOUS
    <3> QED
      BY <3>2, <3>3
  <2>6. PICK x \in Nat : x = w * r + m
    OBVIOUS
  <2>7. x + 1 \in 1 .. n * w
    <3>1. w * r \in Nat
      OBVIOUS
    <3> QED
      BY <1>3, <2>5, <2>6, <3>1
  <2>8. cells[x + 1] = <<(x \div w) + 1, columns[(x % w) + 1]>>
    <3>1. (x + 1) - 1 = x
      OBVIOUS
    <3> QED
      BY <1>4, <2>7, <3>1
  <2>9. (x \div w) + 1 = row /\ (x % w) + 1 = j
    <3>1. x \div w = r /\ x % w = m
      BY <2>4, <2>6
    <3>2. r + 1 = row /\ m + 1 = j
      BY <2>2, <2>3
    <3> QED
      BY <3>1, <3>2
  <2> QED
    BY <1>4, <2>1, <2>7, <2>8, <2>9
<1> QED
  BY <1>5, <1>6, <1>7 DEF cells

-----------------------------------------------------------------------------
(* The steps of a recompute.                                               *)

\* The sheet is read.
LEMMA ReadsAll ==
    ASSUME SheetInv, Grounds, NEW c \in DOMAIN call, ReadSheet(c) PROVE Computes(c)'
<1>1. Tables /\ WritingOK(call[c]) /\ call[c].pc = "recompute" /\ IsSequence(columns)
  BY DEF SheetInv, Jobs, JobOK, ReadSheet, Job, Grounds
<1> DEFINE snapshot == [seen |-> Len(log), rows |-> Len(records), columns |-> columns]
           job == [call[c] EXCEPT !.pc = "compute", !.snapshot = snapshot, !.todo = CellsInOrder(snapshot)]
<1>2. /\ call'[c] = job
      /\ UNCHANGED <<shape, log, records, columns>>
  BY DEF ReadSheet, Become, Job, sheet
<1>3. PICK s : s = snapshot
  OBVIOUS
<1>4. s.seen = Len(log) /\ s.rows = Len(records) /\ s.columns = columns
  BY <1>3
<1>5. job.snapshot = s /\ job.todo = CellsInOrder(s)
  BY <1>1, <1>3 DEF WritingOK, WritingFields
<1>6. /\ IsSequence(CellsInOrder(s))
      /\ \A i \in DOMAIN CellsInOrder(s) : InGrid(CellsInOrder(s)[i])
      /\ \A row \in DOMAIN records, k \in Range(columns) :
             \E i \in DOMAIN CellsInOrder(s) : CellsInOrder(s)[i] = <<row, k>>
  BY <1>1, <1>4, CellsOfGrid
<1>7. Len(log) \in Nat
  BY <1>1, Places DEF Tables
<1> HIDE DEF snapshot, job
<1>8. call'[c].snapshot = s /\ call'[c].todo = CellsInOrder(s)
  BY <1>2, <1>5
<1> HIDE DEF CellsInOrder
<1>9. ASSUME NEW row \in DOMAIN records, NEW k \in Range(columns) PROVE UpToDate(c, row, k)'
  BY <1>2, <1>4, <1>6, <1>8 DEF UpToDate
<1>10. \A i \in DOMAIN CellsInOrder(s) : InGrid(CellsInOrder(s)[i])'
  BY <1>2, <1>6 DEF InGrid
<1> QED
  BY <1>2, <1>4, <1>6, <1>7, <1>8, <1>9, <1>10 DEF Computes

\* What a recompute leaves as it is says what it means.
LEMMA UnchangedMeans ==
    ASSUME SheetInv, FormulasMean, alone, NEW c \in DOMAIN call, call[c].pc = "compute", Computes(c),
           NEW row \in DOMAIN records, NEW k \in Range(columns), ColumnType[k] = "formula",
           CurrentCell(Len(log), row, k) = CurrentCell(call[c].snapshot.seen, row, k),
           ~Changed(<<row, k>>, call[c].snapshot)
    PROVE  ValueAt(Len(log), row, k) = Meant(row, k, call[c].snapshot.seen)
<1>1. PICK s : s = call[c].snapshot
  OBVIOUS
<1>2. s.rows = Len(records) /\ s.columns = columns /\ s.seen \in 0 .. Len(log)
  BY <1>1 DEF Computes
<1>3. row \in 1 .. s.rows /\ k \in Range(s.columns)
  BY <1>2, Places DEF SheetInv, Tables
<1>4. Meant(row, k, s.seen) = IF ValueIn(<<row, k>>, s) = Error THEN ValueAt(s.seen, row, k)
                              ELSE ValueIn(<<row, k>>, s)
  BY <1>1, <1>3 DEF FormulasMean
<1> DEFINE i == CurrentCell(s.seen, row, k)
<1>5. ValueAt(Len(log), row, k) = ValueAt(s.seen, row, k)
  BY <1>1 DEF ValueAt
<1>6. CASE ValueIn(<<row, k>>, s) = Error
  BY <1>1, <1>4, <1>5, <1>6
<1>7. CASE ValueIn(<<row, k>>, s) # Error
  <2>1. i # 0 /\ log[i].value = ValueIn(<<row, k>>, s)
    BY <1>1, <1>7 DEF Changed
  <2>2. ValueAt(s.seen, row, k) = ValueIn(<<row, k>>, s)
    BY <2>1 DEF ValueAt
  <2> QED
    BY <1>1, <1>4, <1>5, <1>7, <2>2
<1> QED
  BY <1>6, <1>7

\* The first cell of those before a recompute that has changed, its value, and what
\* is left after it.
ChangedCells(job) == {i \in DOMAIN job.todo : Changed(job.todo[i], job.snapshot)}
NextCell(job) == job.todo[Min(ChangedCells(job))]
ValueFor(job) == [row |-> NextCell(job)[1], column |-> NextCell(job)[2], by |-> job.by, from |-> "formula",
                  value |-> ValueIn(NextCell(job), job.snapshot)]
Rest(job) == SubSeq(job.todo, Min(ChangedCells(job)) + 1, Len(job.todo))

LEMMA Recomputes ==
    ASSUME SheetInv, NEW c \in DOMAIN call, RecomputeFormulas(c)
    PROVE  /\ UNCHANGED <<shape, records, columns>>
           /\ ChangedCells(call[c]) = {} => UNCHANGED log /\ call'[c].pc # "compute"
           /\ ChangedCells(call[c]) # {} =>
                  /\ Insert(ValueFor(call[c]))
                  /\ call'[c].pc = "compute" /\ call'[c].snapshot = call[c].snapshot
                  /\ call'[c].todo = Rest(call[c])
<1>1. WritingOK(call[c]) /\ call[c].pc = "compute"
  BY DEF SheetInv, Jobs, JobOK, RecomputeFormulas, Job
<1> DEFINE ended == [call[c] EXCEPT !.todo = <<>>, !.pc = call[c].after]
           on == [call[c] EXCEPT !.todo = SubSeq(@, Min(ChangedCells(call[c])) + 1, Len(@))]
<1>2. ended.pc \in {"fields", "done"}
  BY <1>1 DEF WritingOK, WritingFields
<1>3. on.pc = "compute" /\ on.snapshot = call[c].snapshot /\ on.todo = Rest(call[c])
  BY <1>1 DEF WritingOK, WritingFields, Rest
<1>4. ChangedCells(call[c]) = {} => Become(c, ended) /\ UNCHANGED log
  BY DEF RecomputeFormulas, Job, ChangedCells
<1>5. ChangedCells(call[c]) # {} => Become(c, on) /\ Insert(ValueFor(call[c]))
  BY DEF RecomputeFormulas, Job, ChangedCells, ValueFor, NextCell
<1>6. UNCHANGED <<shape, records, columns>>
  BY DEF RecomputeFormulas
<1> HIDE DEF ended, on
<1> QED
  BY <1>2, <1>3, <1>4, <1>5, <1>6 DEF Become

\* What is left of a sequence after a place.
LEMMA LeftAfter ==
    ASSUME NEW s, IsSequence(s), NEW m \in DOMAIN s
    PROVE  /\ IsSequence(SubSeq(s, m + 1, Len(s)))
           /\ \A i \in DOMAIN SubSeq(s, m + 1, Len(s)) :
                  i + m \in DOMAIN s /\ SubSeq(s, m + 1, Len(s))[i] = s[i + m]
           /\ \A i \in DOMAIN s : i > m =>
                  i - m \in DOMAIN SubSeq(s, m + 1, Len(s)) /\ SubSeq(s, m + 1, Len(s))[i - m] = s[i]
<1>1. Len(s) \in Nat /\ DOMAIN s = 1 .. Len(s) /\ s \in Seq(Range(s))
  BY Places DEF IsSequence
<1> DEFINE t == SubSeq(s, m + 1, Len(s))
           n == Len(s) - m
<1>2. n \in Nat
  BY <1>1
<1>3. DOMAIN t = 1 .. n /\ \A i \in 1 .. n : t[i] = s[i + m]
  <2>1. PICK R : R = Range(s)
    OBVIOUS
  <2>2. s \in Seq(R) /\ m + 1 \in 1 .. Len(s) + 1
    BY <1>1, <2>1
  <2>3. t = [i \in 1 .. (Len(s) - (m + 1)) + 1 |-> s[(i + (m + 1)) - 1]]
    BY <1>1, <2>2
  <2>4. (Len(s) - (m + 1)) + 1 = n /\ \A i \in 1 .. n : (i + (m + 1)) - 1 = i + m
    BY <1>1
  <2> QED
    BY <2>3, <2>4
<1>4. t = [i \in 1 .. n |-> t[i]]
  BY <1>3
<1> HIDE DEF t
<1>5. IsSequence(t)
  BY <1>2, <1>3, <1>4, Numbered
<1>6. \A i \in 1 .. n : i + m \in DOMAIN s
  BY <1>1
<1>7. \A i \in DOMAIN s : i > m => i - m \in 1 .. n /\ (i - m) + m = i
  BY <1>1
<1> QED
  BY <1>3, <1>5, <1>6, <1>7 DEF t

\* A set of natural numbers has nothing below its least.
LEMMA LeastBelow ==
    ASSUME NEW T, T \subseteq Nat, T # {} PROVE Min(T) \in T /\ \A y \in T : Min(T) <= y
<1>1. PICK x \in T : \A y \in T : <<y, x>> \notin OpToRel(<, Nat)
  BY NatLessThanWellFounded, WFMin, Zenon
<1>2. \A y \in T : ~(y < x)
  BY <1>1, Zenon DEF OpToRel
<1>3. \A y \in T : x <= y
  BY <1>2
<1> QED
  BY <1>3 DEF Min

\* A value is written: one cell more says what it means.
LEMMA WritesMeant ==
    ASSUME SheetInv, Grounds, FormulasMean, alone, NEW c \in DOMAIN call, call[c].pc = "compute",
           Computes(c), RecomputeFormulas(c), call'[c].pc = "compute"
    PROVE  Computes(c)'
<1> DEFINE job == call[c]
           w == ValueFor(job)
<1>1. /\ Tables /\ IsSequence(columns) /\ UNCHANGED <<shape, records, columns>>
      /\ ChangedCells(job) # {} /\ Insert(w)
      /\ call'[c].snapshot = job.snapshot /\ call'[c].todo = Rest(job)
  BY Recomputes DEF SheetInv, Grounds
<1>2. PICK s : s = job.snapshot
  OBVIOUS
<1>3. /\ s.columns = columns /\ s.rows = Len(records) /\ s.seen \in 0 .. Len(log)
      /\ \A i \in s.seen + 1 .. Len(log) : ColumnType[log[i].column] = "formula"
      /\ IsSequence(job.todo)
      /\ \A i \in DOMAIN job.todo : InGrid(job.todo[i])
      /\ \A row \in DOMAIN records, k \in Range(columns) : ColumnType[k] = "formula" => UpToDate(c, row, k)
  BY <1>2 DEF Computes
<1>4. DOMAIN job.todo = 1 .. Len(job.todo) /\ Len(job.todo) \in Nat
  BY <1>3, Places
<1>5. PICK m : m = Min(ChangedCells(job))
  OBVIOUS
<1>6. /\ m \in DOMAIN job.todo /\ Changed(job.todo[m], s)
      /\ \A i \in DOMAIN job.todo : i < m => ~Changed(job.todo[i], s)
  <2>1. ChangedCells(job) \subseteq Nat
    BY <1>4 DEF ChangedCells
  <2>2. m \in ChangedCells(job) /\ \A y \in ChangedCells(job) : m <= y
    BY <1>1, <1>5, <2>1, LeastBelow
  <2>3. \A i \in DOMAIN job.todo : i < m => i \notin ChangedCells(job)
    BY <1>4, <2>1, <2>2
  <2> QED
    BY <1>2, <2>2, <2>3 DEF ChangedCells
<1>7. PICK cell : cell = job.todo[m]
  OBVIOUS
<1>8. InGrid(cell) /\ Changed(cell, s) /\ NextCell(job) = cell
  BY <1>3, <1>5, <1>6, <1>7 DEF NextCell
<1>9. w.row = cell[1] /\ w.column = cell[2] /\ w.value = ValueIn(cell, s)
  BY <1>2, <1>8 DEF ValueFor
<1>10. /\ IsSequence(Rest(job))
       /\ \A i \in DOMAIN Rest(job) : i + m \in DOMAIN job.todo /\ Rest(job)[i] = job.todo[i + m]
       /\ \A i \in DOMAIN job.todo : i > m => i - m \in DOMAIN Rest(job) /\ Rest(job)[i - m] = job.todo[i]
  <2>1. PICK todo : todo = job.todo
    OBVIOUS
  <2>2. IsSequence(todo) /\ m \in DOMAIN todo /\ Rest(job) = SubSeq(todo, m + 1, Len(todo))
    BY <1>3, <1>5, <1>6, <2>1 DEF Rest
  <2>3. PICK rest : rest = SubSeq(todo, m + 1, Len(todo))
    OBVIOUS
  <2>4. /\ IsSequence(rest)
        /\ \A i \in DOMAIN rest : i + m \in DOMAIN todo /\ rest[i] = todo[i + m]
        /\ \A i \in DOMAIN todo : i > m => i - m \in DOMAIN rest /\ rest[i - m] = todo[i]
    BY <2>2, <2>3, LeftAfter
  <2> HIDE DEF job
  <2> QED
    BY <2>1, <2>2, <2>3, <2>4
<1>11. ColumnType[cell[2]] = "formula" /\ ValueIn(cell, s) # Error
  BY <1>8 DEF Changed
<1>12. LogGrows /\ Len(log) \in Nat /\ Len(log') = Len(log) + 1 /\ log'[Len(log) + 1] = w
  BY <1>1, Places, Appended DEF Tables, Insert, LogGrows
<1>13. w.value = Meant(cell[1], cell[2], s.seen)
  <2>1. cell[1] \in 1 .. s.rows /\ cell[2] \in Range(s.columns) /\ cell = <<cell[1], cell[2]>>
    BY <1>1, <1>3, <1>8, Places DEF InGrid, Tables
  <2>2. Meant(cell[1], cell[2], s.seen)
          = IF ValueIn(<<cell[1], cell[2]>>, s) = Error THEN ValueAt(s.seen, cell[1], cell[2])
            ELSE ValueIn(<<cell[1], cell[2]>>, s)
    BY <1>2, <1>11, <2>1 DEF FormulasMean
  <2> QED
    BY <1>9, <1>11, <2>1, <2>2
<1> HIDE DEF w
<1>14. PICK n : n = s.seen
  OBVIOUS
<1>15. n \in 0 .. Len(log)
  BY <1>3, <1>14
<1>16. ASSUME NEW row \in DOMAIN records, NEW k \in Range(columns), ColumnType[k] = "formula"
       PROVE  UpToDate(c, row, k)'
  <2>1. Meant(row, k, n)' = Meant(row, k, n)
    BY <1>1, <1>12, <1>15, MeantStays
  <2>2. CurrentCell(n, row, k)' = CurrentCell(n, row, k)
    BY <1>1, <1>12, <1>15, CurrentStays
  <2>3. /\ w.row = row /\ w.column = k => ValueAt(Len(log), row, k)' = w.value
        /\ ~(w.row = row /\ w.column = k) =>
               /\ CurrentCell(Len(log), row, k)' = CurrentCell(Len(log), row, k)
               /\ ValueAt(Len(log), row, k)' = ValueAt(Len(log), row, k)
    BY <1>1, CellChanges
  <2>4. CASE ValueAt(Len(log), row, k)' = Meant(row, k, n)
    BY <1>1, <1>2, <1>14, <2>1, <2>4 DEF UpToDate
  <2>5. CASE w.row = row /\ w.column = k
    BY <1>9, <1>13, <1>14, <2>3, <2>4, <2>5
  <2>6. CASE ~(w.row = row /\ w.column = k)
    <3>1. CASE ValueAt(Len(log), row, k) = Meant(row, k, n)
      BY <2>3, <2>4, <2>6, <3>1
    <3>2. ASSUME NEW i \in DOMAIN job.todo, job.todo[i] = <<row, k>>,
                 CurrentCell(Len(log), row, k) = CurrentCell(n, row, k)
          PROVE  UpToDate(c, row, k)'
      <4>1. CASE i < m
        <5>1. ~Changed(<<row, k>>, call[c].snapshot)
          BY <1>2, <1>6, <3>2, <4>1
        <5>2. ValueAt(Len(log), row, k) = Meant(row, k, call[c].snapshot.seen)
          BY <1>2, <1>14, <1>16, <3>2, <5>1, UnchangedMeans
        <5> QED
          BY <1>2, <1>14, <3>1, <5>2
      <4>2. CASE i = m
        BY <1>7, <1>9, <2>6, <3>2, <4>2
      <4>3. CASE i > m
        <5>1. \E j \in DOMAIN Rest(job) : Rest(job)[j] = <<row, k>>
          BY <1>10, <3>2, <4>3
        <5>2. \E j \in DOMAIN call'[c].todo : call'[c].todo[j] = <<row, k>>
          BY <1>1, <5>1
        <5>3. CurrentCell(Len(log), row, k)' = CurrentCell(n, row, k)'
          BY <2>2, <2>3, <2>6, <3>2
        <5> QED
          BY <1>1, <1>2, <1>14, <5>2, <5>3 DEF UpToDate
      <4> QED
        BY <1>4, <1>6, <4>1, <4>2, <4>3
    <3>3. UpToDate(c, row, k)
      BY <1>3, <1>16
    <3> QED
      BY <1>2, <1>14, <3>1, <3>2, <3>3 DEF UpToDate
  <2> QED
    BY <2>5, <2>6
<1>17. \A i \in s.seen + 1 .. Len(log') : ColumnType[log'[i].column] = "formula"
  <2>1. \A i \in n + 1 .. Len(log') : i \in n + 1 .. Len(log) \/ i = Len(log) + 1
    BY <1>12, <1>15
  <2>2. \A i \in n + 1 .. Len(log) : log'[i] = log[i]
    BY <1>12, <1>15 DEF LogGrows
  <2> QED
    BY <1>3, <1>9, <1>11, <1>12, <1>14, <2>1, <2>2
<1>18. \A i \in DOMAIN call'[c].todo : InGrid(call[c].todo[i])'
  <2>1. ASSUME NEW x, InGrid(x) PROVE InGrid(x)'
    BY <1>1, <2>1 DEF InGrid
  <2>2. ASSUME NEW i \in DOMAIN Rest(job) PROVE InGrid(Rest(job)[i])
    BY <1>3, <1>10
  <2>3. PICK rest : rest = Rest(job)
    OBVIOUS
  <2>4. ASSUME NEW i \in DOMAIN rest PROVE InGrid(rest[i])'
    BY <2>1, <2>2, <2>3
  <2>5. call'[c].todo = rest
    BY <1>1, <2>3
  <2> QED
    BY <2>4, <2>5
<1>19. s.seen \in 0 .. Len(log')
  BY <1>3, <1>12
<1>20. IsSequence(call[c].todo)'
  BY <1>1, <1>10 DEF IsSequence
<1>21. call'[c].snapshot = s
  BY <1>1, <1>2
<1> QED
  BY <1>1, <1>3, <1>16, <1>17, <1>18, <1>19, <1>20, <1>21 DEF Computes

\* The shape of a sheet stands, and its columns are a sequence.
LEMMA ColumnsStay ==
    ASSUME IsSequence(columns), [Next]_vars PROVE UNCHANGED shape /\ IsSequence(columns')
<1>1. ASSUME NEW c \in DOMAIN call, CellsStep(c) PROVE UNCHANGED <<shape, columns>>
  BY <1>1 DEF CellsStep, SkipWrite, PersonWrites, AgentLooks, AgentWrites, AgentProposes, ReadSheet,
              RecomputeFormulas, sheet
<1>2. ASSUME NEW c \in DOMAIN call, GridStep(c), ~InsertColumn(c) PROVE UNCHANGED <<shape, columns>>
  BY <1>2 DEF GridStep, StartEdit, ReadFields, StoreFields, StartAddRow, StartAddColumn, ReadVersion,
              BumpVersion, StartAgentCell, StartRefresh, Propose, StartDecide, Decide, AcceptCell, sheet
<1>3. ASSUME NEW c \in DOMAIN call, InsertColumn(c) PROVE UNCHANGED shape /\ IsSequence(columns')
  <2>1. UNCHANGED shape /\ (columns' = columns \/ columns' = Append(columns, Request[c].column))
    BY <1>3 DEF InsertColumn
  <2>2. IsSequence(Append(columns, Request[c].column))
    BY Appended
  <2> QED
    BY <2>1, <2>2
<1>4. ASSUME NEW c \in DOMAIN call, CaptureStep(c) PROVE UNCHANGED <<shape, columns>>
  BY <1>4 DEF CaptureStep, StartCapture, AskWhich, FindInbox, MakeInbox, FileInInbox, FileRecord,
              StartAnswer, Answer, sheet
<1>5. ASSUME NEW c \in DOMAIN call, RulesStep(c) \/ ColumnRunStep(c) \/ SharingStep(c)
      PROVE  UNCHANGED <<shape, columns>>
  BY <1>5 DEF RulesStep, StartSweep, SweepSchedule, EndSweep, ColumnRunStep, StartColumnRun, InsertContract, ContractRow,
              SendAssigned, SharingStep, StartShare, ReadReach, FindGrantee, Invite, Grant, RevokeShare, sheet
<1>6. ASSUME NEW key, NEW to, Progress(key, to) PROVE UNCHANGED <<shape, columns>>
  BY <1>6 DEF Progress
<1>7. ASSUME NEW i, Expire(i) PROVE UNCHANGED <<shape, columns>>
  BY <1>7 DEF Expire, sheet
<1>8. CASE UNCHANGED vars
  BY <1>8 DEF vars, sheet
<1> QED
  BY <1>1, <1>2, <1>3, <1>4, <1>5, <1>6, <1>7, <1>8 DEF Next

\* A good step of a call, or one that leaves the calls and the grid alone.
LEMMA StepsOrRests ==
    ASSUME SheetInv, [Next]_vars
    PROVE  \/ \E c \in DOMAIN call : StepOf(c) /\ Well(c)
           \/ UNCHANGED <<shape, log, records, columns, call, alone>>
<1>1. ASSUME NEW c \in DOMAIN call, StepOf(c), Next, inbox' = inbox \/ CaptureStep(c) PROVE StepOf(c) /\ Well(c)
  BY <1>1, CellsWell, GridWell, RulesWell, CaptureWell, ColumnRunWell, SharingWell DEF StepOf
<1>2. CASE \E key \in DOMAIN contracts, to \in {"in_progress", "handed_back", "verified"} : Progress(key, to)
  BY <1>2 DEF Progress
<1>3. CASE \E i \in DOMAIN shares : Expire(i)
  BY <1>3 DEF Expire, sheet
<1>4. CASE UNCHANGED vars
  BY <1>4 DEF vars, sheet
<1> QED
  BY <1>1, <1>2, <1>3, <1>4 DEF Next, StepOf

\* What a call that moves not knows of the grid stands with the grid.
LEMMA ComputesStill ==
    ASSUME NEW c \in DOMAIN call, Computes(c), UNCHANGED <<shape, log, records, columns, call>>
    PROVE  Computes(c)'
<1>1. \A n, row, k : Meant(row, k, n)' = Meant(row, k, n)
  BY DEF Meant, GridAt, ValueAt, CurrentCell
<1>2. \A row, k : UpToDate(c, row, k)' <=> UpToDate(c, row, k)
  BY <1>1 DEF UpToDate, ValueAt, CurrentCell
<1> QED
  BY <1>2 DEF Computes, InGrid

LEMMA GroundsStay == ASSUME SheetInv, Grounds, [Next]_vars PROVE Grounds'
<1>1. UNCHANGED shape /\ IsSequence(columns')
  BY ColumnsStay DEF Grounds
<1>2. Len(log) \in Nat /\ Len(log') \in Nat /\ Len(log) <= Len(log')
  <2>1. SheetInv'
    BY StepHolds
  <2>2. Len(log) <= Len(log')
    BY EveryStep, Places DEF Well, Grow, LogGrows, SheetInv, Tables
  <2> QED
    BY <2>1, <2>2, Places DEF SheetInv, Tables
<1>3. ASSUME NEW d \in DOMAIN call', call'[d].pc = "idle" PROVE call'[d] = Idle
  <2>1. CASE UNCHANGED call
    BY <1>3, <2>1 DEF Grounds
  <2>2. ASSUME NEW c \in DOMAIN call, StepOf(c), Well(c) PROVE call'[d] = Idle
    <3>1. call'[c].pc # "idle"
      BY <2>2, CallsGoOn DEF GoesOn
    <3>2. d \in DOMAIN call \ {c} /\ call'[d] = call[d]
      BY <1>3, <2>2, <3>1 DEF Well, Moves
    <3> QED
      BY <1>3, <3>2 DEF Grounds
  <2> QED
    BY <2>1, <2>2, EveryStep
<1>4. ASSUME NEW d \in DOMAIN call' PROVE Noted(call'[d])
  <2>1. CASE UNCHANGED call
    BY <1>4, <2>1 DEF Grounds
  <2>2. ASSUME NEW c \in DOMAIN call, StepOf(c), Well(c) PROVE Noted(call'[d])
    BY <1>4, <2>2, CallsGoOn DEF GoesOn, Grounds, Well, Moves
  <2> QED
    BY <2>1, <2>2, EveryStep
<1>5. PICK m : m = Len(OpeningLog[shape])
  OBVIOUS
<1>6. m \in Nat /\ m <= Len(log')
  BY <1>2, <1>5 DEF Grounds
<1> QED
  BY <1>1, <1>3, <1>4, <1>5, <1>6 DEF Grounds

LEMMA ComputesStay ==
    ASSUME SheetInv, FormulasInv, FormulasMean, [Next]_vars, alone',
           NEW c \in DOMAIN call', call'[c].pc = "compute"
    PROVE  Computes(c)'
<1>0. Grounds /\ OneAtATime /\ (alone => \A d \in DOMAIN call : call[d].pc = "compute" => Computes(d))
  BY DEF FormulasInv
<1>1. CASE UNCHANGED <<shape, log, records, columns, call, alone>>
  BY <1>0, <1>1, ComputesStill
<1>2. ASSUME NEW d \in DOMAIN call, StepOf(d), Well(d) PROVE Computes(c)'
  <2>1. c \in DOMAIN call /\ (d # c => call'[c] = call[c])
    BY <1>2 DEF Well, Moves
  <2>2. alone
    BY <1>2, BeginsOrGoesOn DEF Arrives
  <2>3. d = c
    <3> SUFFICES ASSUME d # c PROVE FALSE
      OBVIOUS
    <3>1. UnderWay(c)
      BY <2>1 DEF UnderWay
    <3>2. ~Arrives(d)
      BY <2>1, <3>1 DEF Arrives
    <3>3. UnderWay(d)
      BY <1>2, <3>2, BeginsOrGoesOn
    <3> QED
      BY <1>0, <2>1, <2>2, <3>1, <3>3 DEF OneAtATime
  <2>4. ReadSheet(c) \/ RecomputeFormulas(c)
    BY <1>2, <2>3, CallsGoOn DEF GoesOn
  <2>5. CASE ReadSheet(c)
    BY <1>0, <2>1, <2>5, ReadsAll
  <2>6. CASE RecomputeFormulas(c)
    <3>1. call[c].pc = "compute"
      BY <2>6 DEF RecomputeFormulas, Job
    <3> QED
      BY <1>0, <2>1, <2>2, <2>6, <3>1, WritesMeant
  <2> QED
    BY <2>4, <2>5, <2>6
<1> QED
  BY <1>1, <1>2, StepsOrRests

LEMMA FormulasStep == ASSUME SheetInv, FormulasInv, FormulasMean, [Next]_vars PROVE FormulasInv'
<1>1. Grounds' /\ OneAtATime'
  BY GroundsStay, OneAtATimeStays DEF FormulasInv
<1>2. alone' => \A c \in DOMAIN call' : call'[c].pc = "compute" => Computes(c)'
  BY ComputesStay
<1> QED
  BY <1>1, <1>2 DEF FormulasInv

LEMMA FormulasInit == Init => FormulasInv
<1> SUFFICES ASSUME Init PROVE FormulasInv
  OBVIOUS
<1>1. \A c \in DOMAIN call : call[c] = Idle /\ call[c].pc = "idle"
  BY DEF Init, InitCells, Idle
<1>2. shape \in {"plan", "batch"} /\ log = OpeningLog[shape] /\ columns = OpeningColumns[shape]
  BY CellsAssumption DEF Init, InitCells
<1>3. IsSequence(log) /\ IsSequence(columns)
  BY <1>2, CellsAssumption
<1>4. Len(log) \in Nat
  BY <1>3, Places
<1>5. Grounds
  BY <1>1, <1>2, <1>3, <1>4 DEF Grounds, Noted
<1> QED
  BY <1>1, <1>5 DEF FormulasInv, OneAtATime, UnderWay

\* A recompute ends with every formula cell saying what it means.
LEMMA FollowsStep ==
    ASSUME SheetInv, FormulasInv, FormulasMean, [Next]_vars, NEW c \in DOMAIN call PROVE Follows(c)
<1> SUFFICES ASSUME call[c].pc = "compute", call'[c].pc # "compute", alone,
                    NEW row \in DOMAIN records, NEW k \in Range(columns), ColumnType[k] = "formula"
             PROVE  ValueAt(Len(log), row, k) =
                        Meaning(k, row, GridAt(Len(log)), GridAt(Len(OpeningLog[shape])))
  BY DEF Follows
<1>1. Tables /\ Grounds /\ Computes(c)
  BY DEF SheetInv, FormulasInv
<1>2. RecomputeFormulas(c)
  <2>1. PICK d \in DOMAIN call : StepOf(d) /\ Well(d)
    BY EveryStep
  <2>2. d = c
    BY <2>1 DEF Well, Moves
  <2> QED
    BY <2>1, <2>2, ComputesOn
<1>3. ChangedCells(call[c]) = {}
  BY <1>2, Recomputes
<1>4. PICK n : n = call[c].snapshot.seen
  OBVIOUS
<1>5. /\ n \in 0 .. Len(log) /\ UpToDate(c, row, k)
      /\ \A i \in n + 1 .. Len(log) : ColumnType[log[i].column] = "formula"
  BY <1>1, <1>4 DEF Computes
<1>6. ValueAt(Len(log), row, k) = Meant(row, k, n)
  <2>1. ASSUME NEW i \in DOMAIN call[c].todo, call[c].todo[i] = <<row, k>>,
               CurrentCell(Len(log), row, k) = CurrentCell(n, row, k)
        PROVE  ValueAt(Len(log), row, k) = Meant(row, k, n)
    <3>1. ~Changed(<<row, k>>, call[c].snapshot)
      BY <1>3, <2>1 DEF ChangedCells
    <3> QED
      BY <1>1, <1>4, <2>1, <3>1, UnchangedMeans
  <2> QED
    BY <1>4, <1>5, <2>1 DEF UpToDate
<1>7. GridAt(Len(log)) = GridAt(n)
  BY <1>1, <1>5, GridUnderFormulas
<1> QED
  BY <1>6, <1>7 DEF Meant

\* A sweep fires what its rules mean.
LEMMA FiresStep ==
    ASSUME SheetInv, FormulasInv, ConditionsMean, [Next]_vars, NEW c \in DOMAIN call PROVE Fires(c)
<1> SUFFICES ASSUME NEW when \in Evaluated(call'[c]) \ Evaluated(call[c])
             PROVE  call'[c].fired[when] = {f \in (DOMAIN Rule) \X (DOMAIN records) :
                                                /\ Rule[f[1]].trigger = when
                                                /\ RuleMeans(f[1], f[2], GridAt(Len(log)))}
  BY DEF Fires
<1>1. call'[c] # call[c]
  OBVIOUS
<1>2. StartSweep(c) \/ SweepSchedule(c)
  <2>1. PICK d \in DOMAIN call : StepOf(d) /\ Well(d)
    BY <1>1, EveryStep
  <2>2. d = c
    BY <1>1, <2>1 DEF Well, Moves
  <2> QED
    BY <2>1, <2>2, CallsGoOn DEF GoesOn
<1>3. call'[c].fired[when] = Firings(when)
  <2>1. PICK w, past : /\ call'[c] = Applying(w, past)
                       /\ past = <<>> \/ ("fired" \in DOMAIN call[c] /\ past = call[c].fired)
    <3>1. call[c].pc = "fired" => "fired" \in DOMAIN call[c]
      BY DEF FormulasInv, Grounds, Noted
    <3> QED
      BY <1>2, <3>1 DEF StartSweep, SweepSchedule, Become, Job
  <2>2. "fired" \in DOMAIN call'[c] /\ call'[c].fired = With(past, w, Firings(w))
    BY <2>1, Applied
  <2>3. when \in DOMAIN past \cup {w} /\ when \notin DOMAIN past
    BY <2>1, <2>2 DEF Evaluated, With
  <2> QED
    BY <2>2, <2>3 DEF With
<1>4. \A f \in (DOMAIN Rule) \X (DOMAIN records) :
          ConditionHolds(Rule[f[1]], f[2]) <=> RuleMeans(f[1], f[2], GridAt(Len(log)))
  BY DEF ConditionsMean
<1> QED
  BY <1>3, <1>4 DEF Firings

\* Formula columns and the conditions of rules say what they mean, on any sheet, under
\* any calls: where the evaluator gives a formula its meaning on one reading of the
\* sheet (FormulasMean) and a condition its meaning in one row (ConditionsMean),
\* recomputeFormulas() and evaluateRules() give it to the whole sheet.
THEOREM FormulasMeanIt == Spec /\ [](FormulasMean /\ ConditionsMean) => FormulasFollow
<1>1. SheetInv /\ FormulasInv /\ FormulasMean /\ ConditionsMean /\ [Next]_vars
        => [\A c \in DOMAIN call : Follows(c) /\ Fires(c)]_vars
  BY FollowsStep, FiresStep
<1>2. SheetInv /\ FormulasInv /\ FormulasMean /\ [Next]_vars => FormulasInv'
  BY FormulasStep
<1> QED
  BY <1>1, <1>2, FormulasInit, Inductive, PTL DEF Spec, FormulasFollow
=============================================================================
