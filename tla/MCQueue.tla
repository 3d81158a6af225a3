------------------------------- MODULE MCQueue ------------------------------
(* Two workers on two messages that one batch holds, or on the run of an ask *)
(* while it is drafted, planned and contracted; in some scenes one dies      *)
(* (MCQueue.cfg).  And one worker on two messages (MCCumulative.cfg).        *)
EXTENDS Planning, TLC

CONSTANTS m1, m2, day, leads, five, watch, again, list, w1, w2, maya, ann, ben, cat

LengthOf == [monday |-> 2, hire |-> 2, leads |-> 2, lead |-> 1]

\* The ask day has two words of either workflow: the first in the file is taken.
Patterns == << [workflow |-> "day_one", patterns |-> {"monday", "hire"}],
               [workflow |-> "kl_sourcing", patterns |-> {"leads", "lead"}] >>

Families == << [family |-> "onboarding", words |-> {"hire"}],
               [family |-> "monitoring", words |-> {"watch"}] >>

Person(id, role) == [id |-> id, kind |-> "person", role |-> role, tools |-> {}]
Agent(id, tools) == [id |-> id, kind |-> "agent", role |-> "agent", tools |-> tools]

Workers == {Person(maya, "approver"), Person(ann, "requester"),
            Agent(ben, {"web.search", "engines.mandate_fit", "docs.write_section"}),
            Agent(cat, {"web.search", "web.fetch"})}

AnAsk(says, fills, shape, count, dated, by) ==
    [says |-> says, fills |-> fills, shape |-> shape, count |-> count, dated |-> dated, by |-> by]

Asks == (day :> AnAsk({"monday", "leads"}, NoOwner, "plan", 0, TRUE, maya))
     @@ (leads :> AnAsk({"leads", "lead"}, NoOwner, "batch", 0, FALSE, ann))
     @@ (five :> AnAsk({"leads", "lead"}, "five", "batch", 5, FALSE, ann))
     @@ (watch :> AnAsk({"watch"}, NoOwner, "plan", 0, FALSE, maya))
     @@ (again :> AnAsk({"lead", "sign"}, NoOwner, "plan", 0, TRUE, ann))
     @@ (list :> AnAsk({"watch", "lead"}, NoOwner, "batch", 2, TRUE, ann))

TheRow(key, behind, named) ==
    [key |-> key, behind |-> behind, approval |-> TRUE, named |-> named, escalates |-> FALSE]

Workflows == [
    day_one |-> [version |-> 2, shape |-> "plan", invariants |-> <<"access", "order">>,
                 rows |-> << TheRow("accounts", {}, TRUE), TheRow("laptop", {"accounts"}, FALSE) >>],
    kl_sourcing |-> [version |-> 1, shape |-> "batch", invariants |-> <<"mandate", "cite">>, rows |-> <<>>]]

Corrections(n, k) == [desk |-> n, badge |-> k]

Scene(asks, ready, deaths, workers, corrections) ==
    [asks |-> asks, ready |-> ready, deaths |-> deaths, active |-> workers, signals |-> corrections]

TriesOf == [m \in Message |-> IF m \in {leads, five, m2} THEN 1 ELSE 2]

Others == Scene({}, {m1, m2}, 1, Workers, Corrections(1, 1))
Day == Scene({day}, {}, 0, Workers, Corrections(1, 1))
Leads == Scene({leads}, {}, 1, Workers, Corrections(1, 0))
Five == Scene({five}, {}, 1, Workers, Corrections(2, 0))
WatchAndList == Scene({watch, list}, {}, 0, Workers, Corrections(1, 1))
WatchAndAgain == Scene({watch, again}, {}, 0, {x \in Workers : x.id \in {ann, cat}}, Corrections(1, 1))

Everything == {Others, Day, Leads, Five, WatchAndList, WatchAndAgain}

Two == {Others}
=============================================================================
