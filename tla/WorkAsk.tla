------------------------------- MODULE WorkAsk ------------------------------
(***************************************************************************)
(* The ask surface of lib/ask/ask.ts on questions about work: what needs   *)
(* me, where is, why and who.  The answers are read off the rows and their *)
(* chains while the functions of Runtime move them; of a chain the model   *)
(* keeps what these questions, and a rehearsal, read of it.                *)
(***************************************************************************)
EXTENDS Runtime

CONSTANT ApprovedBy  \* ApprovedBy[r]: whom the workflow's approvals name for r's check

ASSUME WorkAskAssumption ==
    \A r \in Row : Approver[r] = ({EscalationTo[r]} \ {NoOne}) \cup ApprovedBy[r]

VARIABLE log  \* log[r]: what is read of the chain of r

Interesting == {"handed_back", "escalated", "awaiting_approval", "verified", "done"}

InitLog ==
    log = [r \in Row |-> [decided |-> "none", by |-> {}, approved |-> FALSE, reached |-> {}]]

\* Whose decision a step records: the one whose press is settled by it, or anyone who
\* may decide so where the step is an edit or a typed state.
Deciders(r, to) ==
    LET Settles(s) == /\ job[s].fn = "settle" /\ job[s].row = r
                      /\ job'[s] # job[s]
    IN  {w \in Worker :
            IF \E s \in Slot : Settles(s)
            THEN \E s \in Slot : Settles(s) /\ job[s].seen.actor = w
            ELSE MayResolve(r, "awaiting_approval", to, w)}

\* The first decision on r and whose it was, whether one of them approved it, and where
\* it has been.
Logged(r, from, to) ==
    LET decides == from = "awaiting_approval" /\ to \in {"verified", "handed_back"} IN
    [decided |-> IF decides /\ log[r].decided = "none" THEN to ELSE log[r].decided,
     by |-> IF decides /\ log[r].decided = "none" THEN Deciders(r, to) ELSE log[r].by,
     approved |-> log[r].approved \/ (decides /\ to = "verified"),
     reached |-> log[r].reached \cup ({to} \cap Interesting)]

Remember == log' = [r \in Row |-> Logged(r, state[r], state'[r])]

-----------------------------------------------------------------------------
(* The answers.                                                            *)

MayApprove(r, w) == w \in Person /\ (EscalationTo[r] = w \/ w \in ApprovedBy[r])

\* What needs me: decisions I may make, rows of mine that came back or are open.
WhatNeedsMe(w) ==
    [approvals |-> {r \in Row : state[r] = "awaiting_approval" /\ MayApprove(r, w)},
     handbacks |-> {r \in Row : Owner[r] = w /\ state[r] \in {"handed_back", "escalated"}},
     mine |-> {r \in Row : Owner[r] = w /\ state[r] \in {"contracted", "in_progress"}}]

\* The rows that the most words of a question match; score[r] counts r's.
MatchRows(score) ==
    {r \in Row : score[r] > 0 /\ \A o \in Row : score[o] <= score[r]}

WhereIs(score) == [r \in MatchRows(score) |-> state[r]]

Why(score) == [r \in MatchRows(score) |-> [is |-> state[r], came |-> log[r].reached]]

Who(score) ==
    [r \in MatchRows(score) |->
        IF log[r].approved THEN "approved" ELSE "nobody has approved it"]

-----------------------------------------------------------------------------
(* Properties.                                                             *)

About(r) == [o \in Row |-> IF o = r THEN 1 ELSE 0]

\* Decisions do not get lost on the way to people and back: who may settle a row
\* that waits is told so, and of a row that a person had to settle the ledger can
\* say that it was approved.  (Not if a state was typed or inputs were edited, if a second
\* press crossed the first, which then approves the retry before it is checked, or if
\* the row was escalated while the press was on its way: then it is verified and
\* nobody approved it.)
DecisionsAreKnown ==
    \A r \in HumanCheck :
        /\ state[r] = "awaiting_approval" =>
               \A w \in Person : MayResolve(r, state[r], "verified", w) => r \in WhatNeedsMe(w).approvals
        /\ state[r] \in Settled /\ used.typed = 0 /\ used.edits = 0 /\ pressed <= 1 =>
               Who(About(r))[r] = "approved" \/ "escalated" \in Why(About(r))[r].came

=============================================================================
