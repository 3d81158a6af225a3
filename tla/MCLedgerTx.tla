----------------------------- MODULE MCLedgerTx -----------------------------
(* Transactions on two rows of which the second waits on the first           *)
(* (MCTx.cfg), and two transactions on one row (MCReplay.cfg).               *)
EXTENDS LedgerTx, TLC

CONSTANTS r1, r2, t1, t2, t3, t4, t5, agent, maya

OnlyMaya == [r \in Row |-> {maya}]
Waits == [r \in Row |-> IF r = r2 THEN {r1} ELSE {}]
NoReport == [r \in Row |-> {}]
Silent == [r \in Row |-> {"hold"}]
SecondRouted == [r \in Row |-> IF r = r2 THEN Severity ELSE {"hold"}]
Report == [r \in Row |-> IF r = r1 THEN {"report"} ELSE {}]

Ask(r, to, a) == [row |-> r, to |-> to, actor |-> a]

TwoCalls == (t1 :> Ask(r1, "blocked", maya)) @@ (t2 :> Ask(r1, "in_progress", agent))

\* The first row is verified from escalated and reopened, the second started.
RowCalls == (t1 :> Ask(r1, "escalated", maya)) @@ (t2 :> Ask(r1, "verified", maya))
                @@ (t3 :> Ask(r1, "reopened", maya)) @@ (t4 :> Ask(r2, "blocked", maya))
                @@ (t5 :> Ask(r2, "in_progress", maya))
=============================================================================
