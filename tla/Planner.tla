------------------------------- MODULE Planner ------------------------------
(***************************************************************************)
(* What the planner computes of an ask (lib/planner): the workflow of the  *)
(* library that it matches, the defaults learned from corrections, or else *)
(* the steps it is composed of, with an owner for each step and what the   *)
(* planner is not sure of.  The text of an ask is the set of phrases that  *)
(* are found in it.                                                        *)
(***************************************************************************)
EXTENDS Naturals, Sequences, FiniteSetsExt, Functions

CONSTANTS
    Intents,      \* the patterns of the library, in order: [workflow, patterns]
    Words,        \* Words[p]: how many words the pattern p has
    FamilyWords,  \* the words of each family, in order: [family, words]
    Staff,        \* the workers: [id, kind, role, tools]
    NoOwner

Family == {"sourcing", "intake", "onboarding", "monitoring", "generic"}

ASSUME PlannerAssumption ==
    /\ \A i \in DOMAIN Intents : Intents[i].patterns \subseteq DOMAIN Words
    /\ FamilyWords \in Seq([family : Family, words : SUBSET STRING])
    /\ \A s \in Staff : s.id # NoOwner

MINIMUM_SCORE == 2
MAX_QUESTIONS == 3

-----------------------------------------------------------------------------
(* What the planner is not sure of, in the order in which it finds it: the *)
(* n-th step comes n-th, and what the ask leaves open comes after them.    *)

Uncertain(n, about) == [at |-> n, about |-> about]

\* The questions about what is uncertain: the first three.
Asked(uncertain) ==
    {u \in uncertain : Cardinality({v \in uncertain : v.at < u.at}) < MAX_QUESTIONS}

-----------------------------------------------------------------------------
(* The library.                                                            *)

Matched(intent, says) == intent.patterns \cap says

Score(intent, says) ==
    MapThenSumSet(LAMBDA p : Words[p], Matched(intent, says))

\* The first of those with the best score; a weak match is no match.
BestMatches(says) ==
    {i \in DOMAIN Intents :
        /\ Score(Intents[i], says) >= MINIMUM_SCORE
        /\ \A j \in DOMAIN Intents :
               /\ Score(Intents[j], says) <= Score(Intents[i], says)
               /\ j < i => Score(Intents[j], says) < Score(Intents[i], says)}

\* The corrections of a workflow are counted by what they correct and to what; one that was made
\* twice is a default, the most frequent first, and what the ask says comes before.
LearnedDefault(signals, value) == signals[value] >= 2

Defaults(signals) ==
    LET learned == {v \in DOMAIN signals : LearnedDefault(signals, v)}
    IN  {v \in learned : \A u \in learned : signals[u] <= signals[v]}

\* A row that a person approves whom nothing names, and a hire without a name.
Approverless(row) == row.approval /\ ~row.named /\ ~row.escalates

Unfilled(name, definition, input) ==
    {Uncertain(n, "approver") : n \in {x \in DOMAIN definition : Approverless(definition[x])}}
    \cup (IF name = "day_one" /\ input = NoOwner THEN {Uncertain(Len(definition) + 1, "input")}
          ELSE {})

-----------------------------------------------------------------------------
(* The ontology: what each kind of task needs, and the tasks a family of   *)
(* asks is composed of.                                                    *)

Task(column, tools, humanOnly) == [column |-> column, tools |-> tools, humanOnly |-> humanOnly]

TASKS == [
    research  |-> Task("research", {"web.search", "web.fetch", "feeds.octus_news", "feeds.edgar",
                                    "memory.compile_context", "files.read"}, FALSE),
    extract   |-> Task("crm_lookup", {"crm.affinity.lookup", "memory.compile_context",
                                      "hris.get_worker", "files.list"}, FALSE),
    compute   |-> Task("screen", {"engines.mandate_fit", "engines.covenant_tests",
                                  "memory.compile_context"}, FALSE),
    draft     |-> Task("memo", {"docs.write_section", "memory.compile_context"}, FALSE),
    review    |-> Task("considerations", {"memory.compile_context", "docs.write_section"}, FALSE),
    approve   |-> Task("decision", {}, TRUE),
    notify    |-> Task("outreach_draft", {"docs.write_section", "chat.post",
                                          "mail.send_sandbox"}, FALSE),
    provision |-> Task("provision", {"idp.assign_groups", "idp.create_user",
                                     "mdm.order_device", "facilities.request_badge"}, FALSE),
    file      |-> Task("file_it", {"files.read", "files.list", "crm.affinity.update",
                                   "docs.write_section"}, FALSE)]

RECIPES == [
    sourcing   |-> <<"research", "extract", "compute", "draft", "review", "approve", "notify">>,
    intake     |-> <<"extract", "compute", "file", "approve">>,
    onboarding |-> <<"provision", "notify", "approve">>,
    monitoring |-> <<"research", "compute", "draft", "approve">>,
    generic    |-> <<"research", "draft", "approve">>]

FamilyOf(says) ==
    LET named == {i \in DOMAIN FamilyWords : FamilyWords[i].words \cap says # {}}
    IN  IF named = {} THEN "generic" ELSE FamilyWords[Min(named)].family

-----------------------------------------------------------------------------
(* compose().  The owners are those the planner may propose: among equals  *)
(* it takes the one the database lists first, and it lists them anyhow.    *)

Holding(s, task) == Cardinality(task.tools \cap s.tools)

PickOwner(active, task) ==
    LET candidates == {s \in active : s.kind # "person" /\ Holding(s, task) > 0}
    IN  {s.id : s \in {x \in candidates :
                          \A y \in candidates : Holding(y, task) <= Holding(x, task)}}

PickApprover(active, by) ==
    LET approvers == {s.id : s \in {x \in active : x.kind = "person" /\ x.role = "approver"}}
    IN  IF by \in approvers THEN {by} ELSE approvers

Proposed(active, by, task) ==
    LET owners == IF task.humanOnly THEN PickApprover(active, by) ELSE PickOwner(active, task)
    IN  IF owners = {} THEN {NoOwner} ELSE owners

Lacking(task) == IF task.humanOnly THEN "approver" ELSE "owner"

\* The compositions of an ask: its steps in order, each behind the one before.
Compose(ask, active) ==
    LET family == FamilyOf(ask.says)
        recipe == RECIPES[family]
        task(n) == TASKS[recipe[n]]
        keys == [n \in DOMAIN recipe |-> task(n).column]
    IN  {[family |-> family, shape |-> ask.shape, keys |-> keys, owners |-> owners,
          uncertain |->
              {Uncertain(n, Lacking(task(n))) : n \in {x \in DOMAIN recipe : owners[x] = NoOwner}}
              \cup (IF ask.shape = "batch" /\ ask.count = 0 THEN {Uncertain(Len(recipe) + 1, "count")}
                    ELSE {})
              \cup (IF ask.dated THEN {} ELSE {Uncertain(Len(recipe) + 2, "deadline")})] :
         owners \in {o \in [DOMAIN recipe -> {s.id : s \in Staff} \cup {NoOwner}] :
                        \A n \in DOMAIN recipe : o[n] \in Proposed(active, ask.by, task(n))}}

Behind(keys, n) == IF n = 1 THEN {} ELSE {keys[n - 1]}
=============================================================================
