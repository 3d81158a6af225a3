------------------------------ MODULE RowChain ------------------------------
(***************************************************************************)
(* What the ledger promises a reader of the transitions table, without     *)
(* saying how: each row has one history, which starts from drafted and     *)
(* grows at its end by one entry at a time; every entry follows an edge of *)
(* the table or hands the row to a person; and work starts only on a row   *)
(* whose blockers have all been verified.  It promises no more than that   *)
(* of the blockers: a transaction that starts a row may commit after one   *)
(* that reopens a blocker it read as verified.                             *)
(***************************************************************************)
EXTENDS Naturals, Sequences

CONSTANTS Row, Edges, Blocker

VARIABLE history  \* history[r]: the states row r went through, oldest first

Last(r) == IF history[r] = <<>> THEN "drafted" ELSE history[r][Len(history[r])]

Came(r, to) == \E i \in DOMAIN history[r] : history[r][i] = to

Init == history = [r \in Row |-> <<>>]

Extend(r, to) ==
    /\ to = "in_progress" =>
           \A b \in Blocker[r] : Came(b, "verified")
    /\ history' = [history EXCEPT ![r] = Append(@, to)]

Next == \E r \in Row : \E to \in Edges[Last(r)] \cup {"escalated"} : Extend(r, to)

Spec == Init /\ [][Next]_history

=============================================================================
