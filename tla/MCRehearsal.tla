---------------------------- MODULE MCRehearsal -----------------------------
(* A person's row before an agent's row that a person settles, and behind    *)
(* that one a row of nobody and a decision, recorded and rehearsed           *)
(* (MCPeople.cfg).                                                           *)
EXTENDS Rehearsal, MCRuntime

FirstRouted == [r \in Row |-> IF r = r1 THEN {"hold", "escalate"} ELSE {"hold"}]
OmarToo == [r \in Row |-> IF r = r4 THEN {omar} ELSE {}]
MayaOrThem == [r \in Row |-> {maya} \cup OmarToo[r]]
AfterWork == [r \in Row |-> CASE r = r1 -> {r3} [] r = r3 -> {} [] OTHER -> {r1}]
=============================================================================
