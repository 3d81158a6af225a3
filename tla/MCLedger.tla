------------------------------ MODULE MCLedger ------------------------------
(* Ledger on three small scenes: one row moved by an agent and a person; two *)
(* rows, the second waiting on the first and routed by sheet invariants,     *)
(* moved by one person; and the second row alone, under the invariants of    *)
(* the workflows.  The scene is chosen at the start and bounds who moves     *)
(* what.                                                                     *)
EXTENDS Invariants

CONSTANTS r1, r2, agent, maya

VARIABLE scene

OnlyMaya == [r \in Row |-> {maya}]
Waits == [r \in Row |-> IF r = r2 THEN {r1} ELSE {}]
Report == [r \in Row |-> IF r = r1 THEN {"report"} ELSE {}]
SecondRouted == [r \in Row |-> IF r = r2 THEN Severity ELSE {"hold"}]
FiveAndFour == [r \in Row |-> IF r = r1 THEN 5 ELSE 4]

\* A row of a plan has the key its definition gives it; one of a column run has the
\* column and the record.
Keys == [r \in Row |-> IF r = r1 THEN "crm_write:lead" ELSE "welcome_email"]

\* The mail of an onboarding is given its role profile, the record its decision.
Plan == [r \in Row |->
    [inputs |-> IF r = r1 THEN [decision |-> "accept"] ELSE [role_profile |-> [groups |-> {"staff"}]],
     owner |-> agent,
     check |-> "none"]]

Is(form, left, right) == [form |-> form, left |-> left, right |-> right]
Implies(if, then) == [form |-> "implies", if |-> if, then |-> then]
Truthy(reference) == [form |-> "truthy", left |-> reference]

\* The invariants of workflows/*.yaml.
Workflows ==
    {[severity |-> "block", expression |->
          Is("subset", <<"accounts_access", "outputs", "groups">>, <<"role_profile", "groups">>)],
     [severity |-> "block", expression |->
          Implies(Truthy(<<"welcome_email", "outputs", "sent">>),
                  Is("equal", <<"welcome_email", "approved_by", "kind">>, <<"person">>))],
     [severity |-> "block", expression |->
          Implies(Truthy(<<"crm_write", "outputs", "record_id">>),
                  Is("equal", <<"crm_write", "inputs", "decision">>, <<"accept">>))],
     [severity |-> "block", expression |->
          Implies(Truthy(<<"link_to_deal", "outputs", "deal_id">>),
                  Is("differs", <<"link_to_deal", "outputs", "method">>, <<"guess">>))],
     [severity |-> "escalate", expression |->
          [form |-> "lacks", left |-> <<"lead_memo", "outputs", "memo">>,
           words |-> {"we should invest", "recommend investing"}]]}

Mails == {<<>>, [sent |-> "no"], [sent |-> "yes"]}

OfSecond == <<state[r2], passing \cap {r2}, attached[r2], chain[r2]>>

Bounded ==
    /\ scene = "one" => OfSecond' = OfSecond /\ revoked' \subseteq {agent}
    /\ scene = "two" => /\ Len(chain'[r1]) <= 4
                        /\ attached'[r2] = {}
                        /\ revoked' = {}
                        /\ Len(chain'[r2]) <= 2
                        /\ \A r \in Row : \A i \in DOMAIN chain'[r] : chain'[r][i].actor = maya

Judged ==
    /\ JudgedNext
    /\ <<chain'[r1], passing' \cap {r1}, outputs'[r1]>> = <<chain[r1], passing \cap {r1}, outputs[r1]>>

SceneInit == InitJudged /\ scene \in {"one", "two", "judged"}
SceneNext ==
    /\ UNCHANGED scene
    /\ \/ scene # "judged" /\ Next /\ Bounded /\ UNCHANGED outputs
       \/ scene = "judged" /\ Judged
SceneSpec == SceneInit /\ [][SceneNext]_<<judgedVars, scene>>
=============================================================================
