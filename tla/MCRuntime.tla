----------------------------- MODULE MCRuntime ------------------------------
(* Small runs: two rows that block a third (MCAgents.cfg, MCReleased.cfg),   *)
(* and one row that is edited, approved, called from elsewhere and has a     *)
(* state typed over the functions (MCTouched.cfg).                           *)
EXTENDS Runtime, TLC

CONSTANTS r1, r2, r3, r4, s1, s2, s3, agent, maya, omar

ByAgent == [r \in Row |-> agent]
Everyone == [r \in Row |-> CASE r = r1 -> agent [] r = r2 -> NoOne [] r = r3 -> omar [] OTHER -> maya]
ToMaya == [r \in Row |-> maya]
OnlyMaya == [r \in Row |-> {maya}]
Joined == [r \in Row |-> IF r = r3 THEN {r1, r2} ELSE {}]
Report == [r \in Row |-> {"report"}]
NoReport == [r \in Row |-> {}]
Silent == [r \in Row |-> {"hold"}]
One == [r \in Row |-> 1]
Two == [r \in Row |-> 2]
=============================================================================
