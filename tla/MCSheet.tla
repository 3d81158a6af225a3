------------------------------- MODULE MCSheet ------------------------------
(* A batch sheet of two rows, and a plan sheet of two contracts, under pairs  *)
(* of calls that touch each other and chosen threes, and under grants.       *)
EXTENDS Sheet, Formula

CONSTANTS ana, bob, bot, bot2, eve, fay

Types == [amount |-> "input", note |-> "agent_step", title |-> "text", due |-> "date",
          state |-> "status", outputs |-> "output",
          total |-> "formula", flag |-> "formula", broken |-> "formula", ready |-> "formula"]
Columns == DOMAIN Types
Owners == [k \in Columns |-> IF k = "note" THEN bot ELSE NoOne]

Name(n) == [kind |-> "name", text |-> n]
Op(o) == [kind |-> "op", text |-> o]
P(p) == [kind |-> "punct", text |-> p]
N(n) == [kind |-> "number", text |-> "n", value |-> Num(n)]
S(s) == [kind |-> "string", text |-> "s", value |-> Str(s)]

\* total:  SUM(rows.amount) - AS_OF(amount, yesterday) - 1
\* flag:   IF(AND(amount > 1, note != "no"), "ask", amount * 2 + 1)
Formulas == [k \in Columns |->
    CASE k = "total" -> <<Name("SUM"), P("("), Name("rows.amount"), P(")"), Op("-"), Name("AS_OF"), P("("),
                          Name("amount"), P(","), Name("yesterday"), P(")"), Op("-"), N(1)>>
      [] k = "flag" -> <<Name("IF"), P("("), Name("AND"), P("("), Name("amount"), Op(">"), N(1), P(","),
                         Name("note"), Op("!="), S("no"), P(")"), P(","), S("ask"), P(","),
                         Name("amount"), Op("*"), N(2), Op("+"), N(1), P(")")>>
      [] k = "broken" -> <<Name("amount"), Op("+")>>
      [] k = "ready" -> <<Name("ALL_VERIFIED"), P("("), Name("children"), P(")")>>
      [] OTHER -> <<>>]

Amount(grid, row) == ToNumber(grid[row]["amount"])

SheetMeaning(column, row, now, before) ==
    CASE column = "total" -> Num(Total([r \in DOMAIN now |-> now[r]["amount"]])
                                   - (IF row \in {1, 2} THEN ToNumber(before[row]["amount"]) ELSE 0) - 1)
      [] column = "flag" -> IF Amount(now, row) > 1 /\ now[row]["note"] # Str("no")
                            THEN Str("ask") ELSE Num(Amount(now, row) * 2 + 1)
      [] column = "ready" -> Bool(row = 1)
      [] column = "broken" -> Null

Draft(trigger, condition, text) ==
    [trigger |-> trigger, condition |-> condition, field |-> "due", days |-> 3,
     column |-> "title", value |-> Str(text)]

Rules4 == << Draft("days_since", <<>>, "late"),
             Draft("days_since", <<Name("amount"), Op(">"), N(1)>>, "large"),
             Draft("schedule", <<Name("amount"), Op("-"), N(1)>>, "some"),
             Draft("schedule", <<Name("amount"), Op(">")>>, "unreadable"),
             Draft("schedule", <<Name("title")>>, "titled") >>

Means(i, row, now) ==
    CASE i = 1 -> now[row]["due"] # Null /\ Today - now[row]["due"].day > 3
      [] i = 2 -> Amount(now, row) > 1
      [] i = 3 -> Amount(now, row) > 1
      [] i \in {4, 5} -> FALSE

Cell(row, column, value, from) == Write(row, column, value, Maya, from)

Batch == <<"amount", "note", "title", "due", "state", "broken", "total">>
Columns0 == [batch |-> Batch, plan |-> <<"title", "state", "outputs", "amount", "ready">>]
TwoRows == <<NewRecord([amount |-> Num(1)], {"acme", "laptop"}, "fixture"),
             NewRecord([amount |-> Num(2)], {"acme"}, "fixture")>>
Records0 == [batch |-> TwoRows, plan |-> TwoRows]
Contracts0 == [batch |-> <<>>, plan |-> <<"child", 1>> :> [state |-> "verified"]]
Log0 == [batch |-> <<Cell(1, "amount", Num(1), "planner"), Cell(1, "due", Day(2), "planner"),
                     Cell(2, "amount", Num(2), "planner"), Cell(2, "due", Day(9), "planner"),
                     Cell(1, "total", Num(2), "formula"), Cell(2, "total", Num(2), "formula")>>,
         plan |-> <<Cell(1, "title", Str("one"), "runtime"), Cell(1, "ready", Bool(TRUE), "formula"),
                    Cell(2, "title", Str("two"), "runtime"), Cell(2, "ready", Bool(FALSE), "formula")>>]

Edit(row, column, value, by) ==
    [op |-> "edit", row |-> row, column |-> column, value |-> value, by |-> by]
Fills(row, value, by) ==
    [op |-> "agentCell", row |-> row, column |-> "note", value |-> value, by |-> by]
Captures(words, by) ==
    [op |-> "capture", words |-> words, fields |-> [amount |-> Num(5), note |-> Str("seen")],
     source |-> "mail", by |-> by, onSheet |-> FALSE]

Shares(subject, to, access, scopes, by) ==
    [op |-> "share", subject |-> subject, to |-> to, byAddress |-> TRUE, access |-> access,
     scopes |-> scopes, by |-> by, expires |-> to = eve]

Requests == <<
    Edit(1, "amount", Num(3), ana), Edit(1, "amount", Num(2), bob), Edit(1, "amount", Num(4), bot),
    Edit(1, "note", Str("no"), ana), Edit(1, "state", Str("done"), ana), Edit(1, "flag", Str("x"), bob),
    Fills(1, Str("done"), bot), Fills(1, Str("mine"), bot2),
    [op |-> "addRow", fields |-> [amount |-> Num(2)], by |-> ana],
    [op |-> "addColumn", column |-> "flag", by |-> ana],
    [op |-> "addColumn", column |-> "flag", by |-> bob],
    [op |-> "decide", proposal |-> 1, decision |-> "accepted", by |-> ana],
    [op |-> "decide", proposal |-> 1, decision |-> "rejected", by |-> bob],
    Captures({"acme", "laptop"}, bot), Captures({"acme"}, ana), Captures({"zeta"}, ana), Captures({"zeta"}, bob),
    [op |-> "answer", proposal |-> 1, row |-> 1, by |-> ana],
    [op |-> "answer", proposal |-> 1, row |-> 2, by |-> bob],
    [op |-> "sweep"], [op |-> "sweep"],
    [op |-> "runColumn", column |-> "note", by |-> ana],
    [op |-> "runColumn", column |-> "note", by |-> bob],
    [op |-> "refresh", row |-> 1, fields |-> [title |-> Str("uno"), outputs |-> Str("made")], by |-> bot],
    [op |-> "refresh", row |-> 1, fields |-> [title |-> Str("uno")], by |-> Maya],
    Edit(1, "title", Str("eins"), ana),
    Shares("sheet", eve, "read", {}, ana), Shares("row", eve, "edit", {"org:damask"}, bob),
    Shares("row", fay, "edit", {"org:damask"}, eve), Shares("sheet", ana, "edit", {"org:elsewhere"}, eve),
    [op |-> "unshare", share |-> 1, by |-> eve],
    [op |-> "propose", row |-> 1, column |-> "amount", value |-> Num(7), by |-> bot],
    [op |-> "capture", words |-> {"zeta"}, fields |-> [amount |-> Num(6)], source |-> "form",
     by |-> ana, onSheet |-> TRUE] >>

MembershipOf == [w \in {ana, bob} |-> {"org:damask"}]

Pairs == {[shape |-> "batch", calls |-> s] : s \in
              ({{a, b} : a, b \in {1, 3, 4, 8, 9, 10, 14, 20}} \ {{9, 14}, {10, 14}}) \cup
              {{1, 2}, {5, 6}, {6, 10}, {4, 7}, {10, 11}, {16, 17}, {22, 23}, {9, 22}, {14, 22}, {20, 21}, {16, 33}}}
Threes == {[shape |-> "batch", calls |-> s] : s \in
              {{8, 12, 13}, {1, 3, 12}, {4, 7, 12}, {15, 18, 19}, {15, 12, 18}, {15, 13, 14},
              {12, 13, 32}, {1, 12, 32}}}
Plans == {[shape |-> "plan", calls |-> s] : s \in {{24, 26, 12}, {25, 26}, {24, 25}, {9, 24}}}
Grants == {[shape |-> h, calls |-> s] : h \in {"batch", "plan"}, s \in {{1, 27, 28, 29}, {27, 29, 30, 31}}}
Scenes == Pairs \cup Threes \cup Plans \cup Grants
=============================================================================
