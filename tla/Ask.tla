--------------------------------- MODULE Ask --------------------------------
(***************************************************************************)
(* The ask surface of lib/ask/ask.ts on questions about the world: a       *)
(* question becomes a task, its bundle is compiled, and the answer is      *)
(* composed from the bundle alone once every citation reopens.  What it    *)
(* answers about work is in WorkAsk.                                       *)
(***************************************************************************)
EXTENDS Compiler

CONSTANT Question  \* what is asked, and under which scopes

\* The kinds of question, in the order in which their phrases are looked for.
Kinds == <<"my_work", "where_is", "why", "who", "what_is">>

\* The kind of a question that has phrases of the kinds asked.
Classify(q) ==
    LET first == SelectInSeq(Kinds, LAMBDA k : k \in q.phrases)
    IN  IF first = 0 THEN "unknown" ELSE Kinds[first]

Covenant == {"covenant_leverage_max", "covenant_coverage_min", "leverage", "coverage"}

Reads ==
    [maturity |-> {"maturity"}, pricing |-> {"pricing_spread", "pricing_floor"},
     spread |-> {"pricing_spread"}, commitment |-> {"commitment"},
     leverage |-> {"leverage", "covenant_leverage_max"}, covenant |-> Covenant,
     headroom |-> {"leverage", "covenant_leverage_max"}, ebitda |-> {"ebitda"},
     revenue |-> {"revenue"}, liquidity |-> {"liquidity"}, sponsor |-> {"sponsor_of"},
     basket |-> {"basket_general", "basket_restricted_payments", "basket_investments"}]

AttributesIn(q) == UNION {Reads[w] : w \in q.words \cap DOMAIN Reads}

EnginesIn(q) ==
    (IF q.words \cap {"covenant", "headroom", "breach"} # {} THEN <<"covenant_tests">> ELSE <<>>)
    \o (IF "basket" \in q.words THEN <<"basket_capacity">> ELSE <<>>)
    \o (IF q.words \cap {"mandate", "fit"} # {} THEN <<"mandate_fit">> ELSE <<>>)

TaskOf(q) ==
    [given |-> {}, identifier |-> q.identifier, mentions |-> q.mentions, terms |-> q.words # {},
     attributes |-> AttributesIn(q), engines |-> EnginesIn(q)]

FromBundle(b) == [says |-> "facts", quotes |-> ToSet(b.items.facts), lacks |-> b.missing, withheld |-> b.withheld]

Saying(what) == [says |-> what, quotes |-> {}, lacks |-> {}, withheld |-> 0]

\* Where no deal is recognised, the rows of the ledger are asked instead, or which
\* deal is meant.
Compose(q, b) ==
    IF b.entities = {} THEN Saying(IF q.rows THEN "where_is" ELSE "clarify")
    ELSE IF ~CitationsResolve(b.items.facts) THEN Saying("citations do not reopen")
    ELSE FromBundle(b)

\* What is asked of the world.
WhatIs(q, t) == Compose(q, CompileContext(TaskOf(q), t, q.scopes))

AnswerFor(q, t) ==
    CASE Classify(q) = "what_is" -> WhatIs(q, t)
      [] Classify(q) = "unknown" -> Saying("clarify")
      [] OTHER -> Saying(Classify(q))

\* The tool get_context of lib/interop/mcp.ts: what is known of the text of a row now,
\* within the scopes of the token it is asked with.
GetContext(q) ==
    CompileContext([TaskOf(q) EXCEPT !.attributes = {}, !.engines = <<>>], clock, q.scopes)

-----------------------------------------------------------------------------
(* Properties.                                                             *)

\* The facts a question may be answered with: what it reads of its deals, current at
\* t and in scope.
Known(q, attributes, t) ==
    {i \in UNION {FactsAt(t, d, a) : d \in ResolveEntities(TaskOf(q)), a \in attributes} :
        ScopeOf[facts[i].file] \in q.scopes}

Wanted(q) == IF AttributesIn(q) = {} THEN Attribute ELSE AttributesIn(q) \cap Attribute

\* What is quoted is known, all of it if the budget has room; and what the question
\* reads, or an engine needs, is said to be lacking only if nothing of it is known.
QuotesTruly(q, answer, known) ==
    answer.says = "facts" =>
        LET attributes == {facts[i].attribute : i \in known}
            needed == UNION {Needs[e] : e \in ToSet(EnginesIn(q))}
        IN  /\ answer.quotes \subseteq known
            /\ (FactSize * Cardinality(known) <= Budget) => answer.quotes = known
            /\ AttributesIn(q) \ attributes \subseteq answer.lacks
            /\ answer.lacks \subseteq (AttributesIn(q) \cup needed) \ attributes

\* The passages are in scope and of the deals asked about, and none that both
\* rankings put before a passage is left out for it.
PassagesAreBest(q, entities, taken) ==
    \A f \in taken :
        /\ ScopeOf[f] \in q.scopes
        /\ entities # {} => Resolved(f) \cap entities # {}
        /\ \A g \in Candidates(entities, q.scopes) \ taken :
               ~(Relevance[g] > Relevance[f] /\ Nearness[g] > Nearness[f])

BestPassages(q, entities) ==
    PassagesAreBest(q, entities, ToSet(Retrieve(TaskOf(q), entities, q.scopes).items))

\* "It never guesses a missing fact, and it never returns anything outside the
\* requester's scope": between passes and in the middle of a handover, an answer
\* quotes what is known to whom it answers at the instant asked for, and names
\* what it does not have; and an agent elsewhere is told what its token may know.
AnswersAreGrounded ==
    ((At("idle") \/ At("insert")) /\ facts # <<>>) =>
        \A q \in Question :
            /\ \A t \in {facts[i].recorded : i \in DOMAIN facts} :
                   QuotesTruly(q, AnswerFor(q, t), Known(q, Wanted(q), t))
            /\ BestPassages(q, ResolveEntities(TaskOf(q)))
            /\ ToSet(GetContext(q).items.facts) \subseteq Known(q, Attribute, clock)

=============================================================================
