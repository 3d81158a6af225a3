------------------------------ MODULE MCMemory ------------------------------
(* Four files: an amendment that comes before the agreement it amends, from   *)
(* the folder of another deal, one with the aliases of two deals, and one of *)
(* no deal (MCMemory.cfg); and the third alone (MCGuessed.cfg).              *)
EXTENDS Integrity

CONSTANTS d1, d2, rate, cap

OccurredThen == [f \in File |-> CASE f = 1 -> 2 [] f = 2 -> 1 [] f = 3 -> 3 [] f = 4 -> 1]
IdentifierOf == [f \in File |-> IF f = 1 THEN d1 ELSE NoDeal]
FolderOf == [f \in File |-> CASE f = 1 -> d2 [] f = 2 -> d1 [] OTHER -> NoDeal]
AliasesIn == [f \in File |-> IF f = 3 THEN {d1, d2} ELSE {}]
FoundIn == [f \in File |-> CASE f = 1 -> <<rate, cap>>
                             [] f = 2 -> <<rate, Decision, cap>>
                             [] f = 3 -> <<rate>>
                             [] f = 4 -> <<rate>>]

AsReviewed == [f \in File \ {3} |-> IF f = 4 THEN NoDeal ELSE d1]

ScopeThere == [f \in File |-> IF f = 2 THEN "legal" ELSE "org"]
Numbers == [f \in File |-> CASE f = 1 -> [covenant_leverage_max |-> 500, leverage |-> 470]
                             [] f = 2 -> [covenant_leverage_max |-> 450, leverage |-> 480]
                             [] OTHER -> [covenant_leverage_max |-> 600]]
InOrder == <<cap, rate>>
RelevanceThere == [f \in File |-> CASE f = 1 -> 3 [] f = 2 -> 5 [] f = 3 -> 0 [] f = 4 -> 4]
NearnessThere == [f \in File |-> CASE f = 1 -> 90 [] f = 2 -> 40 [] f = 3 -> 70 [] f = 4 -> 60]

Asking(words, identifier, mentions, scopes) ==
    [phrases |-> {"what_is"}, words |-> words, identifier |-> identifier, mentions |-> mentions,
     rows |-> FALSE, scopes |-> scopes]

Questions == {Asking({"covenant", "breach"}, d1, {}, {"org"}),
              Asking({"headroom"}, NoDeal, {d1, d2}, {"org", "legal"}),
              Asking({"facility"}, NoDeal, {}, {"org"})}
=============================================================================
