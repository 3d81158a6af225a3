------------------------------- MODULE Capture ------------------------------
(***************************************************************************)
(* Capture (lib/capture/capture.ts): a message, a file, a form or a note   *)
(* lands as a record on the sheet of the row it is about, or in the Inbox; *)
(* when it could be about two rows it becomes a question, which is a       *)
(* proposal of kind "row" that a person answers.                           *)
(*                                                                         *)
(* What the connectors of lib/capture/connectors.ts make of a message is   *)
(* the request: the words it is matched by, and the fields it carries.     *)
(***************************************************************************)
EXTENDS Grid

CONSTANT CaptureSources  \* the sources of captured records

ASSUME CaptureAssumption ==
    \A c \in Call : Request[c].op = "capture" => Request[c].source \in CaptureSources

VARIABLE inbox  \* the sheets named Inbox, in order: the calls that filed records there

Matching(r, row) == r.words \cap records[row].words

\* The rows that were not captured themselves and share the most words.
FindCandidates(r) ==
    LET found == {row \in DOMAIN records :
                      records[row].source \notin CaptureSources /\ Matching(r, row) # {}}
    IN  {row \in found : \A other \in found :
            Cardinality(Matching(r, row)) >= Cardinality(Matching(r, other))}

\* The candidates a question names at most.
MaxCandidates == 4

FirstOf(found) == {row \in found : Cardinality({r \in found : r < row}) < MaxCandidates}

\* What matches no row is filed on the sheet that the item names, beside its rows, or
\* in the Inbox.
NoRow == 0

StartCapture(c) ==
    LET found == FindCandidates(Request[c]) IN
    /\ Asks(c, "capture")
    /\ Become(c, CASE Cardinality(found) > 1 -> [pc |-> "ask", found |-> FirstOf(found)]
                   [] Cardinality(found) = 1 -> [pc |-> "file", row |-> CHOOSE row \in found : TRUE, item |-> c]
                   [] found = {} /\ Request[c].onSheet -> [pc |-> "file", row |-> NoRow, item |-> c]
                   [] OTHER -> [pc |-> "inbox"])
    /\ UNCHANGED <<sheet, inbox>>

AskWhich(c) ==
    /\ Job(c).pc = "ask"
    /\ proposals' = Append(proposals, [kind |-> "row", item |-> c, rows |-> Job(c).found,
                                       by |-> Request[c].by, status |-> "pending"])
    /\ Become(c, Done)
    /\ UNCHANGED <<shape, log, records, columns, version, contracts, alone, inbox>>

\* captureSheet(): the Inbox is looked for, and made when there is none.
FindInbox(c) ==
    /\ Job(c).pc = "inbox"
    /\ Become(c, [pc |-> IF inbox = <<>> THEN "make" ELSE "keep", inbox |-> 1])
    /\ UNCHANGED <<sheet, alone, inbox>>

MakeInbox(c) ==
    /\ Job(c).pc = "make"
    /\ inbox' = Append(inbox, {})
    /\ Become(c, [pc |-> "keep", inbox |-> Len(inbox) + 1])
    /\ UNCHANGED <<sheet, alone>>

FileInInbox(c) ==
    /\ Job(c).pc = "keep"
    /\ inbox' = [inbox EXCEPT ![Job(c).inbox] = @ \cup {c}]
    /\ Become(c, Done)
    /\ UNCHANGED <<sheet, alone>>

\* fillBlanks(): every field that is a column and no status, filled or not.
FillBlanks(row, fields, by) ==
    LET kept == {k \in DOMAIN fields : Contains(columns, k) /\ ColumnType[k] # "status"} IN
    Writing(by, WritesOf(row, [k \in kept |-> fields[k]], by, "tool"), "recompute", FALSE, "done")

\* The record is filed on the sheet, where it is a row too, and its fields are written
\* to the cells of the row it matches, if it matches one.
FileRecord(c) ==
    LET item == Job(c).item
        r == Request[item]
    IN  /\ Job(c).pc = "file"
        /\ records' = Append(records, [fields |-> r.fields, words |-> r.words,
                                       source |-> r.source, item |-> item])
        /\ Become(c, IF Job(c).row = NoRow THEN Done ELSE FillBlanks(Job(c).row, r.fields, r.by))
        /\ UNCHANGED <<shape, log, columns, version, proposals, contracts, alone, inbox>>

-----------------------------------------------------------------------------
(* resolveAmbiguity(): the answer is taken whatever the question's status. *)

StartAnswer(c) ==
    LET r == Request[c] IN
    /\ Asks(c, "answer")
    /\ Become(c, IF r.proposal \in DOMAIN proposals
                 THEN IF proposals[r.proposal].kind = "row"
                      THEN IF r.row \in proposals[r.proposal].rows THEN [pc |-> "answer"] ELSE Done
                      ELSE Done
                 ELSE Done)
    /\ UNCHANGED <<sheet, inbox>>

\* Mutant: the answer is noted and the item is not filed.
AnswerOnly(c) ==
    LET r == Request[c] IN
    /\ Job(c).pc = "answer"
    /\ proposals' = [proposals EXCEPT ![r.proposal].status = "accepted"]
    /\ Become(c, Done)
    /\ UNCHANGED <<shape, log, records, columns, version, contracts, alone, inbox>>

Answer(c) ==
    LET r == Request[c] IN
    /\ Job(c).pc = "answer"
    /\ proposals' = [proposals EXCEPT ![r.proposal].status = "accepted"]
    /\ Become(c, [pc |-> "file", row |-> r.row, item |-> proposals[r.proposal].item])
    /\ UNCHANGED <<shape, log, records, columns, version, contracts, alone, inbox>>

CaptureStep(c) ==
    \/ StartCapture(c) \/ AskWhich(c)
    \/ FindInbox(c) \/ MakeInbox(c) \/ FileInInbox(c)
    \/ FileRecord(c)
    \/ StartAnswer(c) \/ Answer(c)

=============================================================================
