------------------------------- MODULE Compiler -----------------------------
(***************************************************************************)
(* The context compiler of lib/memory/compiler.ts over the tables a pass   *)
(* is filling: the entities of a task, the facts current at an instant,    *)
(* the engines over them, the passages by two rankings fused, packed into  *)
(* a budget.  A bundle is compiled of the tables as they stand; a file has *)
(* one chunk, and every item of a kind has the same size.                  *)
(***************************************************************************)
EXTENDS Memory, Engines, SequencesExt

CONSTANTS
    ScopeOf,       \* ScopeOf[f]: the scope of the event of f
    Value,         \* Value[f]: the numbers f gives, by attribute
    Alphabet,      \* the attributes, in the order of their names
    Relevance,     \* Relevance[f]: ts_rank of the chunk of f, 0 if it does not match
    Nearness,      \* Nearness[f]: the cosine of the chunk of f, in parts of a hundred
    Limit,         \* how many passages are returned, 12 in the code
    Budget,        \* characters of a bundle
    FactSize,
    ComputationSize,
    PassageSize

\* Attributes are named in the alphabet, and where an engine needs a number of an
\* attribute, the extractors that find it give one.
ASSUME CompilerAssumption ==
    /\ Attribute \subseteq ToSet(Alphabet) /\ Alphabet \in Seq(Attribute)
    /\ \A f \in File : \A k \in DOMAIN Finds[f] :
           Finds[f][k] \in UNION {Needs[e] : e \in Engine} => Finds[f][k] \in DOMAIN Value[f]
    /\ Relevance \in [File -> Nat] /\ Nearness \in [File -> Int]
    /\ {Limit, Budget} \subseteq Nat
    /\ {FactSize, ComputationSize, PassageSize} \subseteq Nat \ {0}

\* The elements of a set in a strict total order.
Sorted(set, Before(_, _)) ==
    [n \in 1 .. Cardinality(set) |->
        CHOOSE x \in set : Cardinality({y \in set : Before(y, x)}) = n - 1]

First(n, items) == SubSeq(items, 1, IF Len(items) < n THEN Len(items) ELSE n)

(* Resolution.                                                             *)

\* The registry is seeded when a pass begins, and every deal is born there.
Registry == IF passes = 0 THEN {} ELSE Deal

\* A task names the deals it is given, each by its identifier or by an alias
\* that some deals share, and its text has an identifier or mentions aliases.
ResolveEntities(task) ==
    LET given == UNION {g.deals : g \in {h \in task.given : h.by = "id" \/ Cardinality(h.deals) = 1}}
        known == given \cap Registry
        identified == {task.identifier} \cap Registry
    IN  IF known # {} THEN known
        ELSE IF identified # {} THEN identified
        ELSE task.mentions \cap Registry

(* Facts.                                                                  *)

\* What the entities have at t, before the scope is applied.
HeldAt(entities, t) ==
    {i \in DOMAIN facts :
        /\ facts[i].deal \in entities
        /\ facts[i].recorded <= t
        /\ facts[i].superseded = Null \/ facts[i].superseded > t}

\* Mutant: the scope is not a predicate of the read.
AnyScope(held, scopes) == held

InScope(held, scopes) == {i \in held : ScopeOf[facts[i].file] \in scopes}

\* The latest recorded wins, and of two recorded together the first.
Wins(i, j) ==
    \/ facts[i].recorded > facts[j].recorded
    \/ facts[i].recorded = facts[j].recorded /\ i <= j

Place(a) == CHOOSE n \in DOMAIN Alphabet : Alphabet[n] = a

CurrentFacts(entities, attributes, t, scopes) ==
    LET held == HeldAt(entities, t)
        visible == InScope(held, scopes)
        wanted == {i \in visible : attributes = {} \/ facts[i].attribute \in attributes}
        latest == {i \in wanted : \A j \in wanted :
                      facts[j].deal = facts[i].deal /\ facts[j].attribute = facts[i].attribute => Wins(i, j)}
        Before(i, j) == \/ Place(facts[i].attribute) < Place(facts[j].attribute)
                        \/ facts[i].attribute = facts[j].attribute /\ i < j
    IN  [current  |-> Sorted(latest, Before),
         withheld |-> Cardinality(held) - Cardinality(visible)]

\* The inputs of the engines: of the facts with a number, the last of each
\* attribute, whichever entity it is of.
EngineInputs(current) ==
    LET IsNumber(i) == facts[i].attribute \in DOMAIN Value[facts[i].file]
        LastOf(a) == CHOOSE i \in ToSet(current) :
                         /\ IsNumber(i) /\ facts[i].attribute = a
                         /\ \A j \in ToSet(current) : IsNumber(j) /\ facts[j].attribute = a => j <= i
    IN  [a \in {facts[i].attribute : i \in {j \in ToSet(current) : IsNumber(j)}} |->
            Value[facts[LastOf(a)].file][a]]

(* Retrieval.                                                              *)

ChunksIn(scopes) == {f \in File : "chunks" \in kept[f] /\ ScopeOf[f] \in scopes}

Candidates(entities, scopes) ==
    {f \in ChunksIn(scopes) : entities = {} \/ Resolved(f) \cap entities # {}}

\* The candidates by one measure, the greatest first, as far as they are read; equal
\* ones are in the order of the table.
Ranked(candidates, Measure) ==
    First(2 * Limit, Sorted(candidates, LAMBDA f, g :
        Measure[f] > Measure[g] \/ (Measure[f] = Measure[g] /\ f < g)))

\* The rank of a chunk, or 0 if it was not ranked.
RankIn(ranked, f) ==
    IF Contains(ranked, f) THEN CHOOSE n \in DOMAIN ranked : ranked[n] = f ELSE 0

\* Reciprocal rank fusion: the sum of 1/(60 + rank), as a numerator and a
\* denominator.
Fused(lexical, vector) ==
    LET l == 60 + lexical
        v == 60 + vector
    IN  CASE lexical = 0 -> <<1, v>> [] vector = 0 -> <<1, l>> [] OTHER -> <<l + v, l * v>>

\* The passages, the highest score first; equal scores keep the order in which
\* the rankings brought them.
Retrieve(task, entities, scopes) ==
    LET candidates == Candidates(entities, scopes)
        lexical == Ranked({f \in candidates : Relevance[f] > 0}, Relevance)
        vector == Ranked(candidates, Nearness)
        Score(f) == Fused(RankIn(lexical, f), RankIn(vector, f))
        Came(f) == IF Contains(lexical, f) THEN RankIn(lexical, f) ELSE Len(lexical) + RankIn(vector, f)
        Above(f, g) == LET m == Score(f)[1] * Score(g)[2]
                           n == Score(g)[1] * Score(f)[2]
                       IN  m > n \/ (m = n /\ Came(f) < Came(g))
    IN  IF task.terms
        THEN [items |-> First(Limit, Sorted(ToSet(lexical) \cup ToSet(vector), Above)),
              withheld |-> Cardinality({f \in File : "chunks" \in kept[f]} \ ChunksIn(scopes))]
        ELSE [items |-> <<>>, withheld |-> 0]

(* Packing.                                                                *)

\* The items of one size that fit, in their order.
Fitting(items, size, used) == First((Budget - used) \div size, items)

\* Facts first, then what was computed, then passages, into the budget.
Pack(cited, computed, passages) ==
    LET afterFacts == FactSize * Len(cited)
        computations == Fitting(computed, ComputationSize, afterFacts)
        afterComputed == afterFacts + ComputationSize * Len(computations)
        taken == Fitting(passages, PassageSize, afterComputed)
    IN  [facts |-> cited, computations |-> computations, passages |-> taken,
         used |-> afterComputed + PassageSize * Len(taken)]

\* What is missing: what was asked and not found, and what an engine lacked.
Missing(task, current, computed) ==
    (task.attributes \ {facts[i].attribute : i \in ToSet(current)})
    \cup UNION {c.missing : c \in ToSet(computed)}

Bundle(task, entities, read, computed, passages) ==
    [items    |-> Pack(Fitting(read.current, FactSize, 0), computed, passages.items),
     entities |-> entities,
     missing  |-> Missing(task, read.current, computed),
     withheld |-> read.withheld + passages.withheld]

\* The engines the task calls for, over the facts.
Computed(task, inputs) == [n \in DOMAIN task.engines |-> Compute(task.engines[n], inputs)]

CompileFor(task, entities, read, scopes) ==
    Bundle(task, entities, read, Computed(task, EngineInputs(read.current)),
           Retrieve(task, entities, scopes))

CompileIn(task, entities, t, scopes) ==
    CompileFor(task, entities, CurrentFacts(entities, task.attributes, t, scopes), scopes)

CompileContext(task, t, scopes) == CompileIn(task, ResolveEntities(task), t, scopes)

\* The citation gate: the text of the cited event is there to be opened; spans are
\* those the extractor found in that text.
CitationsResolve(cited) == \A i \in ToSet(cited) : "text" \in kept[facts[i].file]

=============================================================================
