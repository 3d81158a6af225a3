----------------------------- MODULE DraftProofs ----------------------------
(***************************************************************************)
(* Proofs about the drafts: what is answered to an ask is what was         *)
(* written, for any asks, workers, corrections and presses, and any words  *)
(* by which the workflows and the families are told.                       *)
(*                                                                         *)
(* The invariant says of a draft at each place what it has put into the    *)
(* tables by then, and of a press what it read of them.  It rests on the   *)
(* invariant of the plans, by which nothing but its own draft writes the   *)
(* rows of a composed ask.  Of a composed workflow it keeps who stored it, *)
(* and of a draft which workflows it had seen as it chose its version: so  *)
(* a definition it pins that is not its own was stored since.              *)
(***************************************************************************)
EXTENDS PlanningProofs, FiniteSetTheorems, WellFoundedInduction

(* The inductive invariant, in named parts.                                *)

Is(q, how) == "how" \in DOMAIN draft[q] /\ draft[q].how = how

\* The keys of a composed workflow are those of its family.
KeysOf(family) == [n \in DOMAIN RECIPES[family] |-> TASKS[RECIPES[family][n]].column]

\* A correction is never taken back.
SignalsOK == signals \in [DOMAIN signals -> Nat] /\ NoOwner \notin DOMAIN signals

WorkflowsOK ==
    /\ \A w \in workflows : w.name \in Family /\ w.keys = KeysOf(w.name) /\ w.version \in Nat
    /\ \E bound \in Nat : \A w \in workflows : w.version <= bound

\* Where a draft is says how it goes on.
Unread == {"none", "asked"}
Unstored == {"version", "workflow"}
Undrafted == Unread \cup Unstored \cup {"run"}

HowOK(q) ==
    /\ draft[q].pc \in Unread => "how" \notin DOMAIN draft[q]
    /\ draft[q].pc \in Unread \cup Unstored => \A w \in workflows : w.from # q
    /\ draft[q].pc \notin Unread => Is(q, "library") \/ Is(q, "composed")
    /\ draft[q].pc \in Undrafted => run[q].status = "none"
    /\ draft[q].pc \notin Undrafted => DOMAIN run[q] = {"status", "workflow"} /\ run[q].status # "none"

\* Three questions at most, and nothing uncertain is left out of fewer.
AskedWell(d) ==
    /\ {"uncertain", "questions"} \subseteq DOMAIN d
    /\ Cardinality(d.questions) <= MAX_QUESTIONS
    /\ \A u \in d.uncertain : u \in d.questions \/ Cardinality(d.questions) = MAX_QUESTIONS

FilledIn(q) ==
    /\ {"workflow", "input"} \subseteq DOMAIN draft[q]
    /\ AskedWell(draft[q])
    /\ draft[q].workflow[1] = "day_one" /\ draft[q].input = NoOwner
           => Uncertain(Len(Library[draft[q].workflow[1]].rows) + 1, "input") \in draft[q].uncertain
    /\ Ask[q].fills # NoOwner => draft[q].input = Ask[q].fills
    /\ draft[q].input \in DOMAIN signals /\ Ask[q].fills = NoOwner => signals[draft[q].input] > 1

FromLibrary(q) ==
    Is(q, "library") => FilledIn(q) /\ draft[q].pc \in {"run", "send", "answered"}

\* The proposed owner of a step has a tool of it or is an approver, or it is uncertain.
WellOwned(d, n, staff) ==
    LET task == CHOOSE t \in Range(TASKS) : t.column = d.keys[n]
        owner == d.owners[n]
    IN  \/ owner = NoOwner /\ Uncertain(n, Lacking(task)) \in d.uncertain
        \/ \E s \in staff :
              /\ s.id = owner
              /\ IF task.humanOnly THEN s.kind = "person" /\ s.role = "approver"
                 ELSE s.kind # "person" /\ task.tools \cap s.tools # {}

ProposalFields == {"family", "shape", "keys", "owners", "uncertain"}

Proposal(d, staff) ==
    /\ ProposalFields \subseteq DOMAIN d
    /\ d.family \in Family /\ d.keys = KeysOf(d.family)
    /\ \A n \in DOMAIN d.keys : WellOwned(d, n, staff)

Composed(d, staff) == Proposal(d, staff) /\ AskedWell(d)

\* Its version is none of those it has seen.
Named(d) ==
    /\ {"workflow", "seen"} \subseteq DOMAIN d
    /\ d.workflow = <<d.family, d.workflow[2]>> /\ d.workflow[2] \in Nat
    /\ \A w \in d.seen : w.version # d.workflow[2]

\* The workflow it is named after is its own, or one that it has not seen.
Stored(q, d, known) ==
    \E w \in known :
        /\ <<w.name, w.version>> = d.workflow /\ w.keys = d.keys
        /\ IF w.from = q THEN w.shape = d.shape /\ w.owners = d.owners ELSE w \notin d.seen

FromComposition(q) ==
    Is(q, "composed") =>
        /\ Composed(draft[q], active) /\ ~Sent(q)
        /\ draft[q].pc \in {"version", "workflow", "run", "rows", "link", "sheet", "fill", "answered"}
        /\ draft[q].pc # "version" => Named(draft[q])
        /\ draft[q].pc \notin Unstored => Stored(q, draft[q], workflows)
        /\ draft[q].pc \notin Undrafted => run[q].workflow = draft[q].workflow
        /\ draft[q].shape = "batch" => draft[q].pc \notin {"rows", "link"}
        /\ draft[q].shape # "batch" => draft[q].pc \notin {"sheet", "fill"}

\* A table has the first n rows of a composed plan; they are behind those before them.
HasRows(table, keys, n) ==
    /\ DOMAIN table = {keys[i] : i \in 1 .. n}
    /\ \A k \in DOMAIN table : DOMAIN table[k] = {"state", "behind"}

AreBehind(table, keys, n) == \A i \in 1 .. n : table[keys[i]].behind = Behind(keys, i)

Inserted(table, keys) ==
    \E n \in 0 .. Len(keys) - 1 :
        /\ HasRows(table, keys, n) /\ IsFiniteSet(DOMAIN table) /\ Cardinality(DOMAIN table) = n
        /\ n > 0 => AreBehind(table, keys, 1)

IsPlan(q) == Is(q, "composed") /\ draft[q].shape # "batch"

RowsOK(q) ==
    IsPlan(q) =>
        /\ draft[q].pc = "rows" => Inserted(rows[q], draft[q].keys)
        /\ draft[q].pc \in {"link", "answered"} => HasRows(rows[q], draft[q].keys, Len(draft[q].keys))
        /\ draft[q].pc = "link" => /\ "linked" \in DOMAIN draft[q]
                                   /\ draft[q].linked \in 1 .. Len(draft[q].keys) - 1
                                   /\ AreBehind(rows[q], draft[q].keys, draft[q].linked)
        /\ draft[q].pc = "answered" => AreBehind(rows[q], draft[q].keys, Len(draft[q].keys))

\* A press has read the rows of a run that was drafted by then, or is early.
PressOK(q) ==
    /\ press[q].pc \in {"none", "rows", "done"}
    /\ press[q].pc # "none" => /\ DOMAIN press[q] = {"pc", "seen", "left", "early"}
                               /\ press[q].early \in BOOLEAN /\ run[q].status # "none"
    /\ press[q].pc # "none" /\ draft[q].pc # "answered" => press[q].early

SeenOK(q) ==
    IsPlan(q) =>
        /\ press[q].pc = "rows" => press[q].left \subseteq DOMAIN rows[q]
        /\ press[q].pc = "rows" /\ ~press[q].early =>
               \A i \in DOMAIN draft[q].keys :
                   press[q].seen[draft[q].keys[i]].behind = Behind(draft[q].keys, i)
        /\ \A i \in DOMAIN draft[q].keys :
               draft[q].keys[i] \in DOMAIN rows[q] /\ i > 1
                   /\ rows[q][draft[q].keys[i]].state = "contracted"
               => press[q].pc # "none" /\ press[q].early

DraftOK(q) ==
    HowOK(q) /\ FromLibrary(q) /\ FromComposition(q) /\ RowsOK(q) /\ PressOK(q) /\ SeenOK(q)

DraftInv == SignalsOK /\ WorkflowsOK /\ \A q \in Request : DraftOK(q)

-----------------------------------------------------------------------------
(* Numbers.                                                                *)

LEMMA LeastOf ==
    ASSUME NEW T, T \subseteq Nat, T # {} PROVE Min(T) \in T /\ \A y \in T : Min(T) <= y
  <1>1. PICK x \in T : \A y \in T : <<y, x>> \notin OpToRel(<, Nat)
    BY NatLessThanWellFounded, WFMin, Zenon
  <1>2. \A y \in T : ~(y < x)
    BY <1>1, Zenon DEF OpToRel
  <1>3. \A y \in T : x <= y
    BY <1>2
  <1>4. QED BY <1>3 DEF Min

LEMMA GreatestOf ==
    ASSUME NEW T, T \subseteq Nat, T # {}, NEW bound \in Nat, \A y \in T : y <= bound
    PROVE  Max(T) \in T /\ \A y \in T : y <= Max(T)
  <1> DEFINE bounds == {m \in Nat : \A y \in T : y <= m}
  <1>1. PICK m \in bounds : \A k \in bounds : m <= k
    BY LeastOf
  <1>2. ASSUME m \notin T PROVE FALSE
    <2>1. \A y \in T : y < m
      BY <1>1, <1>2
    <2>2. m - 1 \in Nat
      <3>1. PICK y \in T : y \in Nat /\ y < m
        BY <2>1
      <3>2. m \in Nat
        BY <1>1
      <3>3. QED BY <3>1, <3>2
    <2>3. m - 1 \in bounds
      BY <1>1, <2>1, <2>2
    <2>4. QED BY <1>1, <2>2, <2>3
  <1>3. m \in T /\ \A y \in T : y <= m
    BY <1>1, <1>2
  <1>4. QED BY <1>3 DEF Max

\* The next version is none of those there are.
LEMMA VersionIsNext ==
    ASSUME WorkflowsOK, NEW seen, seen \subseteq workflows
    PROVE  VersionAfter(seen) \in Nat /\ \A w \in seen : w.version # VersionAfter(seen)
  <1> DEFINE versions == {w.version : w \in seen} \cup {0}
  <1>1. PICK bound \in Nat : \A w \in workflows : w.version <= bound
    BY DEF WorkflowsOK
  <1>2. versions \subseteq Nat /\ versions # {} /\ \A y \in versions : y <= bound
    BY <1>1 DEF WorkflowsOK
  <1>3. \A w \in seen : w.version \in versions
    OBVIOUS
  <1>4. VersionAfter(seen) = Max(versions) + 1
    BY DEF VersionAfter
  <1> HIDE DEF versions
  <1>5. Max(versions) \in Nat /\ \A y \in versions : y <= Max(versions)
    BY <1>2, GreatestOf
  <1>6. \A w \in seen : w.version \in Nat /\ w.version <= Max(versions)
    BY <1>2, <1>3, <1>5
  <1>7. QED BY <1>4, <1>5, <1>6

-----------------------------------------------------------------------------
(* The questions: no two of what is uncertain come at the same place.      *)

Orderly(uncertain) ==
    /\ IsFiniteSet(uncertain)
    /\ \A u \in uncertain : u.at \in Nat
    /\ \A u, v \in uncertain : u.at = v.at => u = v

LEMMA Numbered ==
    ASSUME NEW U, NEW n \in Nat, \A u \in U : u.at \in 1 .. n,
           \A u, v \in U : u.at = v.at => u = v
    PROVE  Orderly(U)
  <1> DEFINE place == [u \in U |-> u.at]
  <1>1. place \in Injection(U, 1 .. n)
    BY DEF Injection, IsInjective
  <1>2. IsFiniteSet(1 .. n)
    BY FS_Interval
  <1>3. IsFiniteSet(U)
    BY <1>1, <1>2, FS_Injection
  <1>4. QED BY <1>3 DEF Orderly

LEMMA AskedIs ==
    ASSUME NEW U, Orderly(U)
    PROVE  /\ Cardinality(Asked(U)) <= MAX_QUESTIONS
           /\ \A u \in U : u \in Asked(U) \/ Cardinality(Asked(U)) = MAX_QUESTIONS
  <1> DEFINE Before(u) == {v \in U : v.at < u.at}
             rank == [u \in Asked(U) |-> Cardinality(Before(u))]
  <1>1. \A u \in U : IsFiniteSet(Before(u)) /\ Cardinality(Before(u)) \in Nat
    BY FS_Subset, FS_CardinalityType DEF Orderly
  <1>2. ASSUME NEW u \in U, NEW v \in U, u.at < v.at
        PROVE  Cardinality(Before(u)) < Cardinality(Before(v))
    <2>1. Before(u) \subseteq Before(v) /\ u \in Before(v) /\ u \notin Before(u)
      BY <1>2 DEF Orderly
    <2>2. Before(u) # Before(v)
      BY <2>1
    <2> DEFINE S == Before(u)
               T == Before(v)
    <2>3. IsFiniteSet(T) /\ S \subseteq T /\ S # T /\ Cardinality(S) \in Nat
          /\ Cardinality(T) \in Nat
      BY <1>1, <2>1, <2>2
    <2> HIDE DEF S, T
    <2>4. Cardinality(S) <= Cardinality(T) /\ Cardinality(S) # Cardinality(T)
      BY <2>3, FS_Subset
    <2>5. Cardinality(S) < Cardinality(T)
      BY <2>3, <2>4
    <2>6. QED BY <2>5 DEF S, T
  <1>3. Asked(U) \subseteq U /\ \A u \in Asked(U) : Cardinality(Before(u)) < 3
    BY DEF Asked, MAX_QUESTIONS
  <1>4. \A u \in U \ Asked(U) : ~(Cardinality(Before(u)) < 3)
    BY DEF Asked, MAX_QUESTIONS
  <1> HIDE DEF Before
  <1>5. rank \in Injection(Asked(U), 0 .. 2)
    <2>1. \A u \in Asked(U) : rank[u] \in 0 .. 2
      BY <1>1, <1>3
    <2>2. ASSUME NEW u \in Asked(U), NEW v \in Asked(U), rank[u] = rank[v] PROVE u = v
      <3>1. ~(u.at < v.at) /\ ~(v.at < u.at)
        BY <1>1, <1>2, <1>3, <2>2
      <3>2. QED BY <1>3, <3>1 DEF Orderly
    <2>3. QED BY <2>1, <2>2 DEF Injection, IsInjective
  <1>6. IsFiniteSet(0 .. 2) /\ Cardinality(0 .. 2) = 3
    <2>1. 0 \in Int /\ 2 \in Int /\ ~(0 > 2) /\ 2 - 0 + 1 = 3
      OBVIOUS
    <2>2. QED BY <2>1, FS_Interval
  <1>7. /\ IsFiniteSet(Asked(U)) /\ Cardinality(Asked(U)) \in Nat
        /\ Cardinality(Asked(U)) <= 3
    BY <1>5, <1>6, FS_Injection, FS_CardinalityType
  <1>8. ASSUME U \ Asked(U) # {} PROVE Cardinality(Asked(U)) >= 3
    <2> DEFINE late == {u.at : u \in U \ Asked(U)}
    <2>1. late \subseteq Nat /\ late # {}
      BY <1>8 DEF Orderly
    <2>2. PICK u \in U \ Asked(U) : \A v \in U \ Asked(U) : u.at <= v.at
      <3>1. Min(late) \in late /\ \A y \in late : Min(late) <= y
        BY <2>1, LeastOf
      <3>2. QED BY <3>1
    <2>3. Before(u) \subseteq Asked(U)
      BY <2>2 DEF Before, Orderly
    <2>4. Cardinality(Before(u)) <= Cardinality(Asked(U))
      BY <1>7, <2>3, FS_Subset
    <2>5. QED BY <1>1, <1>4, <1>7, <2>2, <2>4
  <1>9. QED BY <1>7, <1>8 DEF MAX_QUESTIONS

-----------------------------------------------------------------------------
(* The families and their keys.                                            *)

LEMMA FamilyIs == ASSUME NEW says PROVE FamilyOf(says) \in Family
  <1> DEFINE named == {i \in DOMAIN FamilyWords : FamilyWords[i].words \cap says # {}}
  <1>1. CASE named = {}
    BY <1>1 DEF FamilyOf, Family
  <1>2. CASE named # {}
    <2>1. named \subseteq Nat
      BY PlannerAssumption
    <2>2. Min(named) \in DOMAIN FamilyWords
      BY <1>2, <2>1, LeastOf
    <2>3. FamilyOf(says) = FamilyWords[Min(named)].family
      BY <1>2 DEF FamilyOf
    <2> DEFINE S == [family : Family, words : SUBSET STRING]
    <2>4. FamilyWords \in Seq(S)
      BY PlannerAssumption
    <2> HIDE DEF S
    <2>5. \A i \in DOMAIN FamilyWords : FamilyWords[i] \in S
      BY <2>4
    <2>6. \A i \in DOMAIN FamilyWords : FamilyWords[i].family \in Family
      BY <2>5 DEF S
    <2>7. QED BY <2>2, <2>3, <2>6
  <1>3. QED BY <1>1, <1>2

Kind == {"research", "extract", "compute", "draft", "review", "approve", "notify", "provision",
         "file"}

LEMMA TasksAre ==
    /\ DOMAIN TASKS = Kind
    /\ \A x, y \in Kind : TASKS[x].column = TASKS[y].column => x = y
  <1> DEFINE column == [research |-> "research", extract |-> "crm_lookup", compute |-> "screen",
                        draft |-> "memo", review |-> "considerations", approve |-> "decision",
                        notify |-> "outreach_draft", provision |-> "provision", file |-> "file_it"]
  <1>1. DOMAIN TASKS = Kind
    BY DEF TASKS, Kind
  <1>2. \A x \in Kind : TASKS[x].column = column[x]
    BY DEF TASKS, Task, Kind
  <1>3. \A x, y \in Kind : column[x] = column[y] => x = y
    BY DEF Kind
  <1>4. QED BY <1>1, <1>2, <1>3

LEMMA RecipesAre ==
    ASSUME NEW family \in Family
    PROVE  /\ RECIPES[family] \in Seq(Kind)
           /\ Len(RECIPES[family]) >= 3
           /\ \A i, j \in DOMAIN RECIPES[family] :
                  RECIPES[family][i] = RECIPES[family][j] => i = j
  <1>1. CASE family = "sourcing"
    BY <1>1 DEF RECIPES, Kind
  <1>2. CASE family = "intake"
    BY <1>2 DEF RECIPES, Kind
  <1>3. CASE family = "onboarding"
    BY <1>3 DEF RECIPES, Kind
  <1>4. CASE family = "monitoring"
    BY <1>4 DEF RECIPES, Kind
  <1>5. CASE family = "generic"
    BY <1>5 DEF RECIPES, Kind
  <1>6. QED BY <1>1, <1>2, <1>3, <1>4, <1>5 DEF Family

LEMMA KeysAre ==
    ASSUME NEW family \in Family
    PROVE  /\ Len(KeysOf(family)) >= 3
           /\ DOMAIN KeysOf(family) = 1 .. Len(KeysOf(family))
           /\ DOMAIN KeysOf(family) = DOMAIN RECIPES[family]
           /\ \A i, j \in DOMAIN KeysOf(family) :
                  KeysOf(family)[i] = KeysOf(family)[j] => i = j
           /\ \A n \in DOMAIN KeysOf(family) :
                  (CHOOSE t \in Range(TASKS) : t.column = KeysOf(family)[n])
                      = TASKS[RECIPES[family][n]]
  <1> DEFINE recipe == RECIPES[family]
             keys == KeysOf(family)
  <1>1. /\ recipe \in Seq(Kind) /\ Len(recipe) >= 3 /\ DOMAIN recipe = 1 .. Len(recipe)
        /\ \A i, j \in DOMAIN recipe : recipe[i] = recipe[j] => i = j
        /\ \A i \in DOMAIN recipe : recipe[i] \in Kind
    BY RecipesAre
  <1> HIDE DEF recipe
  <1>2. keys = [n \in DOMAIN recipe |-> TASKS[recipe[n]].column]
    BY DEF KeysOf, recipe
  <1>3. Len(keys) = Len(recipe) /\ DOMAIN keys = DOMAIN recipe
    <2>1. keys = [n \in 1 .. Len(recipe) |-> TASKS[recipe[n]].column]
      BY <1>1, <1>2
    <2>2. Len(recipe) \in Nat
      BY <1>1
    <2> HIDE DEF keys
    <2>3. QED BY <1>1, <2>1, <2>2
  <1>4. \A i, j \in DOMAIN keys : keys[i] = keys[j] => i = j
    BY <1>1, <1>2, <1>3, TasksAre
  <1>5. ASSUME NEW n \in DOMAIN keys
        PROVE (CHOOSE t \in Range(TASKS) : t.column = keys[n]) = TASKS[recipe[n]]
    <2>1. recipe[n] \in Kind /\ keys[n] = TASKS[recipe[n]].column
      BY <1>1, <1>2, <1>3, <1>5
    <2>2. TASKS[recipe[n]] \in Range(TASKS)
      BY <2>1, TasksAre DEF Range
    <2>3. \A t \in Range(TASKS) : t.column = keys[n] => t = TASKS[recipe[n]]
      <3>1. SUFFICES ASSUME NEW x \in Kind, TASKS[x].column = keys[n]
                     PROVE  TASKS[x] = TASKS[recipe[n]]
        BY TasksAre DEF Range
      <3>2. x = recipe[n]
        BY <2>1, <3>1, TasksAre
      <3>3. QED BY <3>2
    <2>4. QED BY <2>1, <2>2, <2>3
  <1>6. QED BY <1>1, <1>3, <1>4, <1>5 DEF recipe

-----------------------------------------------------------------------------
(* The steps that are not of the draft q leave what it says.               *)

Same(q) ==
    /\ draft'[q] = draft[q] /\ run'[q] = run[q] /\ rows'[q] = rows[q] /\ press'[q] = press[q]
    /\ \A w \in workflows' \ workflows : w.from # q

Onward ==
    /\ active' = active
    /\ workflows \subseteq workflows'
    /\ DOMAIN signals' = DOMAIN signals
    /\ \A v \in DOMAIN signals : signals[v] > 1 => signals'[v] > 1

LEMMA OthersStayOK ==
    ASSUME NEW q \in Request, DraftOK(q), Same(q), Onward, ~Sent(q) => ~Sent(q)'
    PROVE  DraftOK(q)'
  <1>1. HowOK(q)'
    BY DEF DraftOK, HowOK, Same, Is, Onward
  <1>2. FromLibrary(q)'
    BY DEF DraftOK, FromLibrary, FilledIn, AskedWell, Same, Is, Onward
  <1>3. FromComposition(q)'
    <2>1. Is(q, "composed")' => Is(q, "composed")
      BY DEF Is, Same
    <2>2. SUFFICES ASSUME Is(q, "composed") PROVE FromComposition(q)'
      BY <2>1 DEF FromComposition
    <2>3. Stored(q, draft[q], workflows) => Stored(q, draft[q], workflows')
      BY DEF Stored, Onward
    <2>4. QED
      BY <2>2, <2>3 DEF DraftOK, FromComposition, Same, Onward
  <1>4. RowsOK(q)'
    BY DEF DraftOK, RowsOK, IsPlan, Is, Same
  <1>5. PressOK(q)'
    BY DEF DraftOK, PressOK, Same
  <1>6. SeenOK(q)'
    BY DEF DraftOK, SeenOK, IsPlan, Is, Same
  <1>7. QED BY <1>1, <1>2, <1>3, <1>4, <1>5, <1>6 DEF DraftOK

\* So a step of one draft is a matter of that draft.
LEMMA OneDraft ==
    ASSUME DraftInv, NEW q \in Request, Onward, SignalsOK', WorkflowsOK', DraftOK(q)',
           \A p \in Request \ {q} : Same(p) /\ (~Sent(p) => ~Sent(p)')
    PROVE  DraftInv'
  <1>1. \A p \in Request \ {q} : DraftOK(p)'
    BY OthersStayOK DEF DraftInv
  <1>2. QED BY <1>1 DEF DraftInv

LEMMA StaysUnsent ==
    ASSUME QueueInv, HeldIsSent,
           \/ \E w \in Worker : Acts(w) \/ Crash(w)
           \/ \E m \in Message : Expire(m) \/ ComeDue(m)
           \/ RecordFailure
           \/ UNCHANGED vars
    PROVE  \A m \in Message : status[m] = "unsent" => status'[m] = "unsent"
  <1>1. CASE \E w \in Worker : CommitClaim(w)
    BY <1>1 DEF CommitClaim, HeldIsSent
  <1>2. CASE \E w \in Worker : SettleDone(w) \/ GiveUp(w) \/ BackOff(w)
    BY <1>2 DEF SettleDone, GiveUp, BackOff, Write, QueueInv, TypeOK, HeldIsSent, HasMessage
  <1>3. CASE \E w \in Worker :
                \/ Select(w) \/ EndDrain(w) \/ StartRun(w) \/ EndBatch(w)
                \/ Succeed(w) \/ Fail(w) \/ TimeOut(w) \/ ReadTries(w) \/ Crash(w)
    BY <1>3 DEF Select, EndDrain, StartRun, EndBatch, Succeed, Fail, TimeOut, ReadTries, Crash,
                messageVars
  <1>4. CASE \/ \E n \in Message : Expire(n) \/ ComeDue(n)
             \/ RecordFailure \/ UNCHANGED vars
    BY <1>4 DEF Expire, ComeDue, RecordFailure, vars, messageVars
  <1>5. QED
    BY <1>1, <1>2, <1>3, <1>4 DEF Acts, Step, Drain, NextBatch

\* What leaves the drafts, the rows and the presses as they are.
LEMMA UntouchedDrafts ==
    ASSUME DraftInv, UNCHANGED <<draftVars, rows, press>>,
           \A p \in Request : ~Sent(p) => ~Sent(p)'
    PROVE  DraftInv'
  <1>1. Onward /\ SignalsOK' /\ WorkflowsOK' /\ \A p \in Request : Same(p)
    BY DEF Onward, Same, draftVars, DraftInv, SignalsOK, WorkflowsOK
  <1>2. QED BY <1>1, OthersStayOK DEF DraftInv

-----------------------------------------------------------------------------
(* The steps of a draft.                                                   *)

\* A draft that goes on has the changes, and what they leave.
LEMMA AfterProceeding ==
    ASSUME PlanningInv, NEW q \in Request, NEW changes, Proceed(q, changes)
    PROVE  /\ \A p \in Request \ {q} : draft'[p] = draft[p]
           /\ \A x \in DOMAIN changes : x \in DOMAIN draft'[q] /\ draft'[q][x] = changes[x]
           /\ \A x \in DOMAIN draft[q] \ DOMAIN changes :
                  x \in DOMAIN draft'[q] /\ draft'[q][x] = draft[q][x]
           /\ DOMAIN draft'[q] = DOMAIN draft[q] \cup DOMAIN changes
  <1>1. /\ \A p \in Request \ {q} : draft'[p] = draft[p]
        /\ draft'[q] = Changed(draft[q], changes)
    BY DraftingChanges
  <1>2. DOMAIN Changed(draft[q], changes) = DOMAIN draft[q] \cup DOMAIN changes
    BY DEF Changed
  <1>3. QED BY <1>1, <1>2, ChangedIs

CompositionFields == ProposalFields \cup {"questions"}

NamedFields == CompositionFields \cup {"workflow", "seen"}

LEMMA StaysProposed ==
    ASSUME NEW d, NEW e, NEW staff, Proposal(d, staff),
           \A x \in ProposalFields : x \in DOMAIN e /\ e[x] = d[x]
    PROVE  Proposal(e, staff)
  <1>1. /\ e.family = d.family /\ e.keys = d.keys /\ e.owners = d.owners
        /\ e.uncertain = d.uncertain
    BY DEF ProposalFields
  <1>2. ProposalFields \subseteq DOMAIN e
    OBVIOUS
  <1>3. \A n \in DOMAIN e.keys : WellOwned(e, n, staff)
    BY <1>1 DEF Proposal, WellOwned
  <1>4. QED BY <1>1, <1>2, <1>3 DEF Proposal

LEMMA StaysComposed ==
    ASSUME NEW d, NEW e, NEW staff, Composed(d, staff),
           \A x \in CompositionFields : x \in DOMAIN e /\ e[x] = d[x]
    PROVE  /\ Composed(e, staff)
           /\ e.family = d.family /\ e.keys = d.keys /\ e.shape = d.shape /\ e.owners = d.owners
  <1>1. Proposal(e, staff)
    BY StaysProposed DEF Composed, CompositionFields
  <1>2. /\ {"uncertain", "questions"} \subseteq DOMAIN e
        /\ e.uncertain = d.uncertain /\ e.questions = d.questions
        /\ e.family = d.family /\ e.keys = d.keys /\ e.shape = d.shape /\ e.owners = d.owners
    BY DEF CompositionFields, ProposalFields
  <1>3. QED BY <1>1, <1>2 DEF Composed, AskedWell

LEMMA StaysNamed ==
    ASSUME NEW q, NEW d, NEW e, NEW staff, NEW known, Composed(d, staff), Named(d),
           \A x \in NamedFields : x \in DOMAIN e /\ e[x] = d[x]
    PROVE  /\ Composed(e, staff) /\ Named(e) /\ (Stored(q, d, known) => Stored(q, e, known))
           /\ e.family = d.family /\ e.keys = d.keys /\ e.shape = d.shape
           /\ e.workflow = d.workflow
  <1>1. /\ Composed(e, staff)
        /\ e.family = d.family /\ e.keys = d.keys /\ e.shape = d.shape /\ e.owners = d.owners
    BY StaysComposed DEF NamedFields
  <1>2. /\ {"workflow", "seen"} \subseteq DOMAIN e
        /\ e.workflow = d.workflow /\ e.seen = d.seen
    BY DEF NamedFields
  <1>3. QED BY <1>1, <1>2 DEF Named, Stored

\* What a step of the draft q that writes neither rows nor the run has to show.
LEMMA DraftingOnly ==
    ASSUME DraftInv, PlanningInv, NEW q \in Request, NEW changes, Proceed(q, changes),
           UNCHANGED <<active, signals, run, rows, press>>,
           workflows \subseteq workflows', \A w \in workflows' \ workflows : w.from = q,
           WorkflowsOK', \A p \in Request \ {q} : ~Sent(p) => ~Sent(p)',
           DraftOK(q)'
    PROVE  DraftInv'
  <1>1. Onward /\ SignalsOK'
    BY DEF Onward, DraftInv, SignalsOK
  <1>2. \A p \in Request \ {q} : Same(p)
    BY AfterProceeding DEF Same
  <1>3. QED BY <1>1, <1>2, OneDraft

\* What a match of the library is not sure of.
LEMMA UnfilledIs ==
    ASSUME NEW name, NEW steps \in Seq(LibraryRow), NEW input
    PROVE  /\ Orderly(Unfilled(name, steps, input))
           /\ name = "day_one" /\ input = NoOwner
                  => Uncertain(Len(steps) + 1, "input") \in Unfilled(name, steps, input)
  <1> DEFINE U == Unfilled(name, steps, input)
  <1>1. Len(steps) \in Nat /\ DOMAIN steps = 1 .. Len(steps)
    OBVIOUS
  <1>2. PICK S :
            /\ S \subseteq 1 .. Len(steps)
            /\ U = {Uncertain(n, "approver") : n \in S}
                   \cup (IF name = "day_one" /\ input = NoOwner
                         THEN {Uncertain(Len(steps) + 1, "input")} ELSE {})
    BY <1>1 DEF Unfilled
  <1>3. \A u \in U : \/ (u.at \in S /\ u = [at |-> u.at, about |-> "approver"])
                      \/ u = [at |-> Len(steps) + 1, about |-> "input"]
    BY <1>2 DEF Uncertain
  <1>4. \A u \in U : u.at \in 1 .. Len(steps) + 1
    BY <1>1, <1>2, <1>3
  <1>5. \A u, v \in U : u.at = v.at => u = v
    BY <1>1, <1>2, <1>3
  <1>6. Orderly(U)
    BY <1>1, <1>4, <1>5, Numbered
  <1>7. QED BY <1>2, <1>6

LEMMA MatchKeepsDrafts ==
    ASSUME DraftInv, PlanningInv, NEW q \in Request, Match(q) PROVE DraftInv'
  <1>1. PICK i \in BestMatches(Ask[q].says) :
            \E v \in IF Defaults(signals) = {} THEN {NoOwner} ELSE Defaults(signals) :
                LET name == Intents[i].workflow
                    input == IF Ask[q].fills = NoOwner THEN v ELSE Ask[q].fills
                    uncertain == Unfilled(name, Library[name].rows, input)
                IN  Proceed(q, [pc |-> "run", how |-> "library",
                                workflow |-> <<name, Library[name].version>>, input |-> input,
                                uncertain |-> uncertain, questions |-> Asked(uncertain)])
    BY DEF Match
  <1>2. PICK name, v, input, uncertain :
            /\ name = Intents[i].workflow
            /\ v \in IF Defaults(signals) = {} THEN {NoOwner} ELSE Defaults(signals)
            /\ input = IF Ask[q].fills = NoOwner THEN v ELSE Ask[q].fills
            /\ uncertain = Unfilled(name, Library[name].rows, input)
            /\ Proceed(q, [pc |-> "run", how |-> "library",
                           workflow |-> <<name, Library[name].version>>, input |-> input,
                           uncertain |-> uncertain, questions |-> Asked(uncertain)])
    BY <1>1
  <1> DEFINE changes == [pc |-> "run", how |-> "library",
                         workflow |-> <<name, Library[name].version>>, input |-> input,
                         uncertain |-> uncertain, questions |-> Asked(uncertain)]
  <1>3. /\ draft'[q].pc = "run" /\ "how" \in DOMAIN draft'[q] /\ draft'[q].how = "library"
        /\ {"workflow", "input"} \subseteq DOMAIN draft'[q]
        /\ draft'[q].input = input /\ draft'[q].workflow[1] = name
        /\ {"uncertain", "questions"} \subseteq DOMAIN draft'[q]
        /\ draft'[q].uncertain = uncertain /\ draft'[q].questions = Asked(uncertain)
    <2>1. /\ DOMAIN changes = {"pc", "how", "workflow", "input", "uncertain", "questions"}
          /\ changes.pc = "run" /\ changes.how = "library" /\ changes.input = input
          /\ changes.workflow[1] = name /\ changes.uncertain = uncertain
          /\ changes.questions = Asked(uncertain)
      OBVIOUS
    <2>2. Proceed(q, changes)
      BY <1>2
    <2> HIDE DEF changes
    <2>3. QED BY <2>1, <2>2, AfterProceeding
  <1>4. /\ UNCHANGED <<vars, active, signals, workflows, run, rows, press>>
        /\ At(q, "asked")
    BY DEF Match, tableVars
  <1>5. DraftOK(q) /\ SignalsOK
    BY DEF DraftInv
  <1>6. run[q].status = "none" /\ press[q].pc = "none"
    BY <1>4, <1>5 DEF DraftOK, HowOK, PressOK, At, Undrafted, Unread
  <1>7. HowOK(q)'
    BY <1>3, <1>4, <1>6 DEF HowOK, Unread, Unstored, Undrafted, Is
  <1>8. FromLibrary(q)'
    <2>1. ASSUME input \in DOMAIN signals, Ask[q].fills = NoOwner PROVE signals[input] > 1
      <3>1. input = v
        BY <1>2, <2>1
      <3>2. v \in Defaults(signals)
        BY <1>2, <1>5, <2>1, <3>1 DEF SignalsOK
      <3>3. signals[v] >= 2 /\ signals[v] \in Nat
        BY <1>5, <3>2 DEF SignalsOK, Defaults, LearnedDefault
      <3>4. QED BY <3>1, <3>3
    <2>2. Library[name].rows \in Seq(LibraryRow)
      BY <1>2, PlanningAssumption DEF BestMatches
    <2>3. /\ Orderly(uncertain)
          /\ name = "day_one" /\ input = NoOwner
                 => Uncertain(Len(Library[name].rows) + 1, "input") \in uncertain
      BY <1>2, <2>2, UnfilledIs
    <2>4. AskedWell(draft'[q])
      BY <1>3, <2>3, AskedIs DEF AskedWell
    <2>5. QED
      BY <1>2, <1>3, <1>4, <2>1, <2>3, <2>4 DEF FromLibrary, FilledIn
  <1>9. ~Is(q, "composed")'
    BY <1>3 DEF Is
  <1>10. FromComposition(q)' /\ RowsOK(q)' /\ SeenOK(q)'
    BY <1>9 DEF FromComposition, RowsOK, SeenOK, IsPlan
  <1>11. PressOK(q)'
    BY <1>4, <1>6 DEF PressOK
  <1>12. DraftOK(q)'
    BY <1>7, <1>8, <1>10, <1>11 DEF DraftOK
  <1>13. QED
    BY <1>2, <1>4, <1>12, DraftingOnly DEF DraftInv, WorkflowsOK, Sent, vars, messageVars

LEMMA WhoIsProposed ==
    ASSUME NEW staff, NEW by, NEW task, NEW owner \in Proposed(staff, by, task), owner # NoOwner
    PROVE  \E s \in staff :
              /\ s.id = owner
              /\ IF task.humanOnly THEN s.kind = "person" /\ s.role = "approver"
                 ELSE s.kind # "person" /\ task.tools \cap s.tools # {}
  <1>1. CASE task.humanOnly
    <2>1. owner \in PickApprover(staff, by)
      BY <1>1 DEF Proposed
    <2>2. QED BY <1>1, <2>1 DEF PickApprover
  <1>2. CASE ~task.humanOnly
    <2>1. owner \in PickOwner(staff, task)
      BY <1>2 DEF Proposed
    <2>2. PICK s \in staff : s.id = owner /\ s.kind # "person" /\ Holding(s, task) > 0
      BY <2>1 DEF PickOwner
    <2>3. task.tools \cap s.tools # {}
      BY <2>2, FS_EmptySet DEF Holding
    <2>4. QED BY <1>2, <2>2, <2>3
  <1>3. QED BY <1>1, <1>2

LEMMA CompositionIs ==
    ASSUME NEW ask, NEW staff, NEW composition \in Compose(ask, staff)
    PROVE  Proposal(composition, staff) /\ Orderly(composition.uncertain)
  <1> DEFINE family == FamilyOf(ask.says)
             recipe == RECIPES[family]
             keys == [n \in DOMAIN recipe |-> TASKS[recipe[n]].column]
             lacking(n) == Uncertain(n, Lacking(TASKS[recipe[n]]))
             unowned(o) == {x \in DOMAIN recipe : o[x] = NoOwner}
             count == IF ask.shape = "batch" /\ ask.count = 0
                      THEN {Uncertain(Len(recipe) + 1, "count")} ELSE {}
             deadline == IF ask.dated THEN {} ELSE {Uncertain(Len(recipe) + 2, "deadline")}
  <1>1. PICK owners, uncertain :
            /\ composition = [family |-> family, shape |-> ask.shape, keys |-> keys,
                              owners |-> owners, uncertain |-> uncertain]
            /\ uncertain = {lacking(n) : n \in unowned(owners)} \cup count \cup deadline
            /\ \A n \in DOMAIN recipe : owners[n] \in Proposed(staff, ask.by, TASKS[recipe[n]])
    BY DEF Compose
  <1>2. family \in Family
    BY FamilyIs
  <1>3. keys = KeysOf(family)
    BY DEF KeysOf
  <1>4. DOMAIN keys = DOMAIN recipe
    OBVIOUS
  <1>8. Len(recipe) \in Nat /\ DOMAIN recipe = 1 .. Len(recipe)
    BY <1>2, RecipesAre
  <1> HIDE DEF family, recipe, keys
  <1>9. Orderly(uncertain)
    <2> DEFINE length == Len(recipe)
    <2>1. \A u \in uncertain :
              \/ u.at \in 1 .. length /\ u = lacking(u.at)
              \/ u = [at |-> length + 1, about |-> "count"]
              \/ u = [at |-> length + 2, about |-> "deadline"]
      BY <1>1, <1>8 DEF Uncertain
    <2>2. length \in Nat
      BY <1>8
    <2> HIDE DEF length, lacking
    <2>3. \A u \in uncertain : u.at \in 1 .. length + 2
      BY <2>1, <2>2
    <2>4. \A u, v \in uncertain : u.at = v.at => u = v
      BY <2>1, <2>2
    <2>5. QED BY <2>2, <2>3, <2>4, Numbered
  <1>5. /\ DOMAIN composition = {"family", "shape", "keys", "owners", "uncertain"}
        /\ composition.family = family /\ composition.shape = ask.shape /\ composition.keys = keys
        /\ composition.owners = owners /\ composition.uncertain = uncertain
    BY <1>1
  <1>6. ASSUME NEW n \in DOMAIN keys PROVE WellOwned(composition, n, staff)
    <2>1. (CHOOSE t \in Range(TASKS) : t.column = keys[n]) = TASKS[recipe[n]]
      BY <1>2, <1>3, KeysAre DEF recipe
    <2>2. owners[n] \in Proposed(staff, ask.by, TASKS[recipe[n]])
      BY <1>1, <1>4
    <2>3. CASE owners[n] = NoOwner
      <3>1. lacking(n) \in uncertain
        BY <1>1, <1>4, <2>3
      <3>2. QED BY <1>5, <2>1, <2>3, <3>1 DEF WellOwned
    <2>4. CASE owners[n] # NoOwner
      <3> DEFINE task == TASKS[recipe[n]]
      <3>1. (CHOOSE t \in Range(TASKS) : t.column = composition.keys[n]) = task
        BY <1>5, <2>1
      <3>2. owners[n] \in Proposed(staff, ask.by, task)
        BY <2>2
      <3> HIDE DEF task
      <3>3. \E s \in staff :
                /\ s.id = composition.owners[n]
                /\ IF task.humanOnly THEN s.kind = "person" /\ s.role = "approver"
                   ELSE s.kind # "person" /\ task.tools \cap s.tools # {}
        BY <1>5, <2>4, <3>2, WhoIsProposed
      <3>4. QED BY <3>1, <3>3, Zenon DEF WellOwned
    <2>5. QED BY <2>3, <2>4
  <1>7. QED
    BY <1>2, <1>3, <1>5, <1>6, <1>9 DEF Proposal, ProposalFields

LEMMA ComposeKeepsDrafts ==
    ASSUME DraftInv, PlanningInv, NEW q \in Request, ComposeDraft(q) PROVE DraftInv'
  <1>1. PICK composition \in Compose(Ask[q], active) :
            Proceed(q, Changed(composition, [pc |-> "version", how |-> "composed",
                                             questions |-> Asked(composition.uncertain)]))
    BY DEF ComposeDraft
  <1> DEFINE asked == Asked(composition.uncertain)
             more == [pc |-> "version", how |-> "composed", questions |-> asked]
             changes == Changed(composition, more)
  <1>2. Proposal(composition, active) /\ Orderly(composition.uncertain)
    BY CompositionIs
  <1>3. /\ DOMAIN more = {"pc", "how", "questions"}
        /\ more.pc = "version" /\ more.how = "composed" /\ more.questions = asked
    OBVIOUS
  <1>5. Proceed(q, changes)
    BY <1>1
  <1> HIDE DEF more, asked
  <1>4. /\ "pc" \in DOMAIN changes /\ changes.pc = "version"
        /\ "how" \in DOMAIN changes /\ changes.how = "composed"
        /\ "questions" \in DOMAIN changes /\ changes.questions = asked
        /\ \A x \in ProposalFields : x \in DOMAIN changes /\ changes[x] = composition[x]
    <2>1. ProposalFields \subseteq DOMAIN composition \ DOMAIN more
      BY <1>2, <1>3 DEF Proposal, ProposalFields
    <2>2. DOMAIN changes = DOMAIN composition \cup DOMAIN more
      BY DEF Changed
    <2>3. QED BY <1>3, <2>1, <2>2, ChangedIs
  <1> HIDE DEF changes
  <1>6. /\ draft'[q].pc = "version" /\ "how" \in DOMAIN draft'[q] /\ draft'[q].how = "composed"
        /\ "questions" \in DOMAIN draft'[q] /\ draft'[q].questions = asked
        /\ \A x \in ProposalFields : x \in DOMAIN draft'[q] /\ draft'[q][x] = composition[x]
    BY <1>4, <1>5, AfterProceeding
  <1>7. Composed(draft'[q], active)
    <2>1. Proposal(draft'[q], active)
      BY <1>2, <1>6, StaysProposed
    <2>2. /\ {"uncertain", "questions"} \subseteq DOMAIN draft'[q]
          /\ draft'[q].uncertain = composition.uncertain
      BY <1>6 DEF ProposalFields
    <2>3. AskedWell(draft'[q])
      BY <1>2, <1>6, <2>2, AskedIs DEF AskedWell, asked
    <2>4. QED BY <2>1, <2>3 DEF Composed
  <1>8. /\ UNCHANGED <<vars, active, signals, workflows, run, rows, press>>
        /\ At(q, "asked")
    BY DEF ComposeDraft, tableVars
  <1>9. DraftOK(q) /\ DraftSends(q)
    BY DEF DraftInv, PlanningInv, DraftsSend
  <1>10. /\ run[q].status = "none" /\ press[q].pc = "none" /\ ~Sent(q)
         /\ DOMAIN rows[q] = {}
    BY <1>8, <1>9 DEF DraftOK, HowOK, PressOK, At, Undrafted, Unread, DraftSends
  <1>11. HowOK(q)'
    BY <1>6, <1>8, <1>9, <1>10 DEF DraftOK, HowOK, At, Unread, Unstored, Undrafted, Is
  <1>12. FromLibrary(q)'
    BY <1>6 DEF FromLibrary, Is
  <1>13. FromComposition(q)'
    BY <1>6, <1>7, <1>8, <1>10 DEF FromComposition, Unstored, Undrafted, Sent, vars, messageVars
  <1>14. RowsOK(q)' /\ PressOK(q)' /\ SeenOK(q)'
    BY <1>6, <1>8, <1>10 DEF RowsOK, PressOK, SeenOK
  <1>15. DraftOK(q)'
    BY <1>11, <1>12, <1>13, <1>14 DEF DraftOK
  <1>16. QED
    BY <1>5, <1>8, <1>15, DraftingOnly DEF DraftInv, WorkflowsOK, Sent, vars, messageVars

LEMMA NextVersionKeepsDrafts ==
    ASSUME DraftInv, PlanningInv, NEW q \in Request, NextVersion(q) PROVE DraftInv'
  <1> DEFINE seen == {w \in workflows : w.name = draft[q].family}
             workflow == <<draft[q].family, VersionAfter(seen)>>
             changes == [pc |-> "workflow", seen |-> seen, workflow |-> workflow]
  <1>1. Proceed(q, changes)
    BY DEF NextVersion
  <1>2. /\ UNCHANGED <<vars, active, signals, workflows, run, rows, press>>
        /\ draft[q].pc = "version"
    BY DEF NextVersion, tableVars, At
  <1>3. DraftOK(q) /\ DraftSends(q) /\ WorkflowsOK
    BY DEF DraftInv, PlanningInv, DraftsSend
  <1>4. /\ Is(q, "composed") /\ run[q].status = "none" /\ press[q].pc = "none"
        /\ DOMAIN rows[q] = {}
        /\ FromComposition(q) /\ Composed(draft[q], active) /\ ~Sent(q)
        /\ \A w \in workflows : w.from # q
    BY <1>2, <1>3 DEF DraftOK, HowOK, PressOK, FromLibrary, FromComposition, Unread, Unstored,
                      Undrafted, DraftSends
  <1>5. /\ workflow[1] = draft[q].family /\ workflow[2] \in Nat
        /\ workflow = <<draft[q].family, workflow[2]>>
        /\ \A w \in seen : w.version # workflow[2]
    BY <1>3, VersionIsNext
  <1>6. /\ DOMAIN changes = {"pc", "seen", "workflow"} /\ changes.pc = "workflow"
        /\ changes.seen = seen /\ changes.workflow = workflow
    OBVIOUS
  <1> HIDE DEF changes, seen, workflow
  <1>7. /\ draft'[q].pc = "workflow" /\ {"workflow", "seen"} \subseteq DOMAIN draft'[q]
        /\ draft'[q].workflow = workflow /\ draft'[q].seen = seen
        /\ \A x \in DOMAIN draft[q] \ {"pc", "seen", "workflow"} :
               x \in DOMAIN draft'[q] /\ draft'[q][x] = draft[q][x]
    BY <1>1, <1>6, AfterProceeding
  <1>8. /\ "how" \in DOMAIN draft'[q] /\ draft'[q].how = "composed"
        /\ \A x \in CompositionFields : x \in DOMAIN draft'[q] /\ draft'[q][x] = draft[q][x]
    BY <1>4, <1>7 DEF Is, Composed, Proposal, AskedWell, CompositionFields, ProposalFields
  <1>9. Composed(draft'[q], active) /\ draft'[q].family = draft[q].family
    BY <1>4, <1>8, StaysComposed
  <1>10. Named(draft'[q])
    BY <1>5, <1>7, <1>9 DEF Named
  <1>11. HowOK(q)' /\ FromLibrary(q)'
    BY <1>2, <1>4, <1>7, <1>8 DEF HowOK, FromLibrary, Unread, Unstored, Undrafted, Is
  <1>12. FromComposition(q)'
    BY <1>2, <1>4, <1>7, <1>9, <1>10
    DEF FromComposition, Unstored, Undrafted, Sent, vars, messageVars
  <1>13. RowsOK(q)' /\ PressOK(q)' /\ SeenOK(q)'
    BY <1>2, <1>4, <1>7 DEF RowsOK, PressOK, SeenOK
  <1>14. DraftOK(q)'
    BY <1>11, <1>12, <1>13 DEF DraftOK
  <1>15. QED
    BY <1>1, <1>2, <1>14, DraftingOnly DEF DraftInv, WorkflowsOK, Sent, vars, messageVars

LEMMA StoreKeepsDrafts ==
    ASSUME DraftInv, PlanningInv, NEW q \in Request, StoreWorkflow(q) PROVE DraftInv'
  <1> DEFINE changes == [pc |-> "run"]
             stored == Definition(q)
             conflict == \E w \in workflows : w.name = stored.name /\ w.version = stored.version
  <1>1. /\ Proceed(q, changes) /\ draft[q].pc = "workflow"
        /\ workflows' = IF conflict THEN workflows ELSE workflows \cup {stored}
        /\ UNCHANGED <<vars, active, signals, run, rows, press>>
    BY DEF StoreWorkflow, tableVars, At
  <1>2. DraftOK(q) /\ DraftSends(q) /\ WorkflowsOK
    BY DEF DraftInv, PlanningInv, DraftsSend
  <1>3. /\ Is(q, "composed") /\ run[q].status = "none" /\ press[q].pc = "none"
        /\ DOMAIN rows[q] = {}
        /\ Composed(draft[q], active) /\ ~Sent(q) /\ Named(draft[q])
        /\ \A w \in workflows : w.from # q
    BY <1>1, <1>2 DEF DraftOK, HowOK, PressOK, FromLibrary, FromComposition, Unread, Unstored,
                      Undrafted, DraftSends
  <1>4. /\ stored.name = draft[q].family /\ stored.keys = KeysOf(stored.name)
        /\ stored.name \in Family /\ <<stored.name, stored.version>> = draft[q].workflow
        /\ stored.keys = draft[q].keys /\ stored.shape = draft[q].shape
        /\ stored.owners = draft[q].owners /\ stored.from = q
        /\ stored.version = draft[q].workflow[2] /\ stored.version \in Nat
    BY <1>3 DEF Composed, Proposal, Named, Definition
  <1> HIDE DEF stored
  <1>5. /\ WorkflowsOK' /\ workflows \subseteq workflows'
        /\ \A w \in workflows' \ workflows : w.from = q
    <2>1. \A w \in workflows' \ workflows : w = stored
      BY <1>1
    <2>2. PICK bound \in Nat : \A w \in workflows : w.version <= bound
      BY <1>2 DEF WorkflowsOK
    <2>3. PICK more \in Nat : bound <= more /\ stored.version <= more
      BY <1>4
    <2>4. \A w \in workflows' : w.version \in Nat /\ w.version <= more
      BY <1>2, <1>4, <2>1, <2>2, <2>3 DEF WorkflowsOK
    <2>5. \A w \in workflows' : w.name \in Family /\ w.keys = KeysOf(w.name)
      BY <1>2, <1>4, <2>1 DEF WorkflowsOK
    <2>6. QED BY <1>1, <1>4, <2>1, <2>4, <2>5 DEF WorkflowsOK
  <1>6. Stored(q, draft[q], workflows')
    <2>1. CASE conflict
      <3>1. PICK w \in workflows : w.name = stored.name /\ w.version = stored.version
        BY <2>1
      <3>2. w.keys = draft[q].keys /\ w.from # q
        BY <1>2, <1>3, <1>4, <3>1 DEF WorkflowsOK
      <3>3. w \notin draft[q].seen
        BY <1>3, <1>4, <3>1 DEF Named
      <3>4. QED BY <1>4, <1>5, <3>1, <3>2, <3>3 DEF Stored
    <2>2. CASE ~conflict
      BY <1>1, <1>4, <2>2 DEF Stored
    <2>3. QED BY <2>1, <2>2
  <1>7. DOMAIN changes = {"pc"} /\ changes.pc = "run"
    OBVIOUS
  <1> HIDE DEF changes
  <1>8. /\ draft'[q].pc = "run"
        /\ \A x \in DOMAIN draft[q] \ {"pc"} : x \in DOMAIN draft'[q] /\ draft'[q][x] = draft[q][x]
    BY <1>1, <1>7, AfterProceeding
  <1>9. /\ "how" \in DOMAIN draft'[q] /\ draft'[q].how = "composed"
        /\ \A x \in NamedFields : x \in DOMAIN draft'[q] /\ draft'[q][x] = draft[q][x]
    BY <1>3, <1>8
    DEF Is, Composed, Proposal, AskedWell, Named, NamedFields, CompositionFields, ProposalFields
  <1>10. Composed(draft'[q], active) /\ Named(draft'[q]) /\ Stored(q, draft'[q], workflows')
    BY <1>3, <1>6, <1>9, StaysNamed
  <1>11. HowOK(q)' /\ FromLibrary(q)'
    BY <1>1, <1>3, <1>8, <1>9 DEF HowOK, FromLibrary, Unread, Unstored, Undrafted, Is
  <1>12. FromComposition(q)'
    BY <1>1, <1>3, <1>8, <1>10 DEF FromComposition, Unstored, Undrafted, Sent, vars, messageVars
  <1>13. RowsOK(q)' /\ PressOK(q)' /\ SeenOK(q)'
    BY <1>1, <1>3, <1>8 DEF RowsOK, PressOK, SeenOK
  <1>14. DraftOK(q)'
    BY <1>11, <1>12, <1>13 DEF DraftOK
  <1>15. QED
    BY <1>1, <1>5, <1>14, DraftingOnly DEF Sent, vars, messageVars

\* What any step of the draft q has to show.
LEMMA DraftingAlso ==
    ASSUME DraftInv, PlanningInv, NEW q \in Request, NEW changes, Proceed(q, changes),
           UNCHANGED <<active, signals, workflows, press>>,
           \A p \in Request \ {q} :
               run'[p] = run[p] /\ rows'[p] = rows[p] /\ (~Sent(p) => ~Sent(p)'),
           DraftOK(q)'
    PROVE  DraftInv'
  <1>1. Onward /\ SignalsOK' /\ WorkflowsOK'
    BY DEF Onward, DraftInv, SignalsOK, WorkflowsOK
  <1>2. \A p \in Request \ {q} : Same(p)
    BY AfterProceeding DEF Same
  <1>3. QED BY <1>1, <1>2, OneDraft

LEMMA StaysFilledIn ==
    ASSUME NEW q \in Request, FilledIn(q), UNCHANGED signals,
           \A x \in DOMAIN draft[q] \ {"pc"} : x \in DOMAIN draft'[q] /\ draft'[q][x] = draft[q][x]
    PROVE  FilledIn(q)'
  <1>1. /\ {"workflow", "input", "uncertain", "questions"} \subseteq DOMAIN draft'[q]
        /\ draft'[q].input = draft[q].input /\ draft'[q].workflow = draft[q].workflow
        /\ draft'[q].uncertain = draft[q].uncertain /\ draft'[q].questions = draft[q].questions
    BY DEF FilledIn, AskedWell
  <1>2. QED BY <1>1 DEF FilledIn, AskedWell

LEMMA InsertRunKeepsDrafts ==
    ASSUME DraftInv, PlanningInv, NEW q \in Request, InsertRun(q) PROVE DraftInv'
  <1> DEFINE pc == IF draft[q].how = "library" THEN "send"
                   ELSE IF draft[q].shape = "batch" THEN "sheet" ELSE "rows"
             changes == [pc |-> pc]
  <1>1. /\ Proceed(q, changes) /\ draft[q].pc = "run"
        /\ UNCHANGED <<vars, active, signals, workflows, rows, press>>
    BY DEF InsertRun, tableVars, At
  <1>2. /\ \A p \in Request \ {q} : run'[p] = run[p]
        /\ run'[q] = [status |-> "drafted", workflow |-> draft[q].workflow]
    BY DEF InsertRun, PlanningInv, PlanningTypeOK
  <1>3. DraftOK(q) /\ DraftSends(q)
    BY DEF DraftInv, PlanningInv, DraftsSend
  <1>4. /\ Is(q, "library") \/ Is(q, "composed")
        /\ run[q].status = "none" /\ press[q].pc = "none" /\ DOMAIN rows[q] = {}
    BY <1>1, <1>3 DEF DraftOK, HowOK, PressOK, Unread, Undrafted, DraftSends
  <1>5. DOMAIN changes = {"pc"}
    OBVIOUS
  <1>6. /\ draft'[q].pc = pc
        /\ \A x \in DOMAIN draft[q] \ {"pc"} : x \in DOMAIN draft'[q] /\ draft'[q][x] = draft[q][x]
    BY <1>1, <1>5, AfterProceeding
  <1>7. "how" \in DOMAIN draft'[q] /\ draft'[q].how = draft[q].how
    BY <1>4, <1>6 DEF Is
  <1>8. HowOK(q)'
    BY <1>2, <1>4, <1>6, <1>7 DEF HowOK, Unread, Unstored, Undrafted, Is
  <1>9. PressOK(q)'
    BY <1>1, <1>4 DEF PressOK
  <1>10. CASE Is(q, "library")
    <2>1. FromLibrary(q)'
      <3>1. FilledIn(q)
        BY <1>3, <1>10 DEF DraftOK, FromLibrary
      <3>2. FilledIn(q)'
        BY <1>1, <1>6, <3>1, StaysFilledIn
      <3>3. QED
        BY <1>6, <1>10, <3>2 DEF FromLibrary, Is
    <2>2. ~Is(q, "composed")'
      BY <1>7, <1>10 DEF Is
    <2>3. FromComposition(q)' /\ RowsOK(q)' /\ SeenOK(q)'
      BY <2>2 DEF FromComposition, RowsOK, SeenOK, IsPlan
    <2>4. DraftOK(q)'
      BY <1>8, <1>9, <2>1, <2>3 DEF DraftOK
    <2>5. QED BY <1>1, <1>2, <2>4, DraftingAlso DEF Sent, vars, messageVars
  <1>11. CASE Is(q, "composed")
    <2>1. /\ Composed(draft[q], active) /\ ~Sent(q) /\ Named(draft[q])
          /\ Stored(q, draft[q], workflows)
      BY <1>1, <1>3, <1>11 DEF DraftOK, FromComposition, Unstored
    <2>2. \A x \in NamedFields : x \in DOMAIN draft'[q] /\ draft'[q][x] = draft[q][x]
      BY <1>6, <2>1
      DEF Composed, Proposal, AskedWell, Named, NamedFields, CompositionFields, ProposalFields
    <2>3. /\ Composed(draft'[q], active) /\ draft'[q].workflow = draft[q].workflow
          /\ draft'[q].keys = draft[q].keys /\ draft'[q].shape = draft[q].shape
          /\ Named(draft'[q]) /\ Stored(q, draft'[q], workflows)
      BY <2>1, <2>2, StaysNamed
    <2>5. FromLibrary(q)'
      BY <1>7, <1>11 DEF FromLibrary, Is
    <2>6. pc = IF draft[q].shape = "batch" THEN "sheet" ELSE "rows"
      BY <1>11 DEF Is
    <2>7. FromComposition(q)'
      BY <1>1, <1>2, <1>6, <2>1, <2>3, <2>6
      DEF FromComposition, Unread, Unstored, Undrafted, Sent, vars, messageVars
    <2>8. RowsOK(q)' /\ SeenOK(q)'
      <3>1. SUFFICES ASSUME pc = "rows" \/ pc = "sheet"
                     PROVE  (pc = "rows" => Inserted(rows'[q], draft'[q].keys)) /\ SeenOK(q)'
        BY <1>6, <2>6 DEF RowsOK
      <3>2. Len(draft'[q].keys) >= 3
        BY <2>3, KeysAre DEF Composed, Proposal
      <3>3. HasRows(rows'[q], draft'[q].keys, 0)
        BY <1>1, <1>4 DEF HasRows
      <3>4. IsFiniteSet(DOMAIN rows'[q]) /\ Cardinality(DOMAIN rows'[q]) = 0
        BY <1>1, <1>4, FS_EmptySet
      <3>5. Inserted(rows'[q], draft'[q].keys)
        <4>1. 0 \in 0 .. Len(draft'[q].keys) - 1
          BY <2>3, <3>2, KeysAre DEF Composed, Proposal
        <4>2. QED BY <3>3, <3>4, <4>1 DEF Inserted
      <3>6. SeenOK(q)'
        BY <1>1, <1>4 DEF SeenOK
      <3>7. QED BY <3>5, <3>6
    <2>9. DraftOK(q)'
      BY <1>8, <1>9, <2>5, <2>7, <2>8 DEF DraftOK
    <2>10. QED BY <1>1, <1>2, <2>9, DraftingAlso DEF Sent, vars, messageVars
  <1>12. QED BY <1>4, <1>10, <1>11

LEMMA SendKeepsDrafts ==
    ASSUME DraftInv, PlanningInv, NEW q \in Request, Send(q) PROVE DraftInv'
  <1> DEFINE changes == [pc |-> "answered"]
  <1>1. /\ Proceed(q, changes) /\ draft[q].pc = "send" /\ Enqueue(q)
        /\ UNCHANGED <<active, signals, workflows, run, rows, press>>
    BY DEF Send, tableVars, At
  <1>2. DraftOK(q)
    BY DEF DraftInv
  <1>3. /\ Is(q, "library") /\ FilledIn(q) /\ run[q].status # "none"
        /\ DOMAIN run[q] = {"status", "workflow"}
    BY <1>1, <1>2 DEF DraftOK, HowOK, FromComposition, FromLibrary, Unread, Unstored, Undrafted
  <1>4. DOMAIN changes = {"pc"}
    OBVIOUS
  <1>5. /\ draft'[q].pc = "answered"
        /\ \A x \in DOMAIN draft[q] \ {"pc"} : x \in DOMAIN draft'[q] /\ draft'[q][x] = draft[q][x]
    BY <1>1, <1>4, AfterProceeding
  <1>6. "how" \in DOMAIN draft'[q] /\ draft'[q].how = "library" /\ FilledIn(q)'
    BY <1>1, <1>3, <1>5, StaysFilledIn DEF Is
  <1>7. HowOK(q)' /\ FromLibrary(q)'
    BY <1>1, <1>3, <1>5, <1>6 DEF HowOK, FromLibrary, Unread, Unstored, Undrafted, Is
  <1>8. FromComposition(q)' /\ RowsOK(q)' /\ SeenOK(q)'
    BY <1>6 DEF FromComposition, RowsOK, SeenOK, IsPlan, Is
  <1>9. PressOK(q)'
    BY <1>1, <1>2, <1>5 DEF PressOK, DraftOK
  <1>10. DraftOK(q)'
    BY <1>7, <1>8, <1>9 DEF DraftOK
  <1>11. \A p \in Request \ {q} : ~Sent(p) => ~Sent(p)'
    BY <1>1, PlanningAssumption DEF Enqueue, Sent, PlanningInv, QueueInv, TypeOK
  <1>12. QED
    BY <1>1, <1>10, <1>11, DraftingAlso

\* A composed draft that writes its rows or its sheet goes on as it was.
LEMMA WritingGoesOn ==
    ASSUME DraftInv, PlanningInv, NEW q \in Request, NEW changes, Proceed(q, changes),
           "pc" \in DOMAIN changes, DOMAIN changes \subseteq {"pc", "linked"},
           \/ draft[q].pc \in {"rows", "link"} /\ changes.pc \in {"rows", "link", "answered"}
           \/ draft[q].pc \in {"sheet", "fill"} /\ changes.pc \in {"fill", "answered"},
           UNCHANGED <<vars, active, signals, workflows, run, press>>
    PROVE  /\ HowOK(q)' /\ FromLibrary(q)' /\ FromComposition(q)' /\ PressOK(q)'
           /\ Is(q, "composed") /\ draft'[q].pc = changes.pc
           /\ draft'[q].keys = draft[q].keys /\ draft'[q].shape = draft[q].shape
           /\ draft[q].pc \in {"rows", "link"} <=> draft[q].shape # "batch"
           /\ Composed(draft[q], active)
           /\ press[q].pc # "none" => press[q].early
  <1>1. DraftOK(q)
    BY DEF DraftInv
  <1>2. draft[q].pc \in {"rows", "link", "sheet", "fill"}
    OBVIOUS
  <1>3. /\ Is(q, "composed") /\ FromComposition(q)
        /\ run[q].status # "none" /\ DOMAIN run[q] = {"status", "workflow"}
    BY <1>1, <1>2 DEF DraftOK, HowOK, FromLibrary, Unread, Unstored, Undrafted
  <1>4. /\ Composed(draft[q], active) /\ ~Sent(q) /\ Named(draft[q])
        /\ Stored(q, draft[q], workflows) /\ run[q].workflow = draft[q].workflow
        /\ draft[q].shape = "batch" => draft[q].pc \notin {"rows", "link"}
        /\ draft[q].shape # "batch" => draft[q].pc \notin {"sheet", "fill"}
    BY <1>2, <1>3 DEF FromComposition, Unread, Unstored, Undrafted
  <1>5. /\ draft'[q].pc = changes.pc
        /\ \A x \in DOMAIN draft[q] \ {"pc", "linked"} :
               x \in DOMAIN draft'[q] /\ draft'[q][x] = draft[q][x]
    BY AfterProceeding
  <1>6. /\ "how" \in DOMAIN draft'[q] /\ draft'[q].how = "composed"
        /\ \A x \in NamedFields : x \in DOMAIN draft'[q] /\ draft'[q][x] = draft[q][x]
    BY <1>3, <1>4, <1>5
    DEF Is, Composed, Proposal, AskedWell, Named, NamedFields, CompositionFields, ProposalFields
  <1>7. /\ Composed(draft'[q], active) /\ draft'[q].workflow = draft[q].workflow
        /\ draft'[q].keys = draft[q].keys /\ draft'[q].shape = draft[q].shape
        /\ Named(draft'[q]) /\ Stored(q, draft'[q], workflows)
    BY <1>4, <1>6, StaysNamed
  <1>9. HowOK(q)' /\ FromLibrary(q)'
    BY <1>3, <1>5, <1>6 DEF HowOK, FromLibrary, Unread, Unstored, Undrafted, Is
  <1>10. FromComposition(q)'
    BY <1>4, <1>5, <1>6, <1>7
    DEF FromComposition, Unread, Unstored, Undrafted, Sent, vars, messageVars
  <1>11. PressOK(q)' /\ (press[q].pc # "none" => press[q].early)
    BY <1>1, <1>2 DEF DraftOK, PressOK
  <1>12. QED BY <1>2, <1>3, <1>4, <1>5, <1>7, <1>9, <1>10, <1>11

LEMMA Short ==
    ASSUME NEW m \in Nat, NEW n \in 1 .. m, n # m
    PROVE  n \in 0 .. m - 1 /\ n \in 1 .. m - 1
  OBVIOUS

LEMMA InsertRowKeepsDrafts ==
    ASSUME DraftInv, PlanningInv, NEW q \in Request, InsertRow(q) PROVE DraftInv'
  <1>1. PICK keys : keys = draft[q].keys
    OBVIOUS
  <1> DEFINE n == Cardinality(DOMAIN rows[q]) + 1
             added == [k \in {keys[n]} |-> [state |-> "drafted", behind |-> {}]]
             changes == [pc |-> IF n = Len(keys) THEN "link" ELSE "rows", linked |-> 1]
  <1>2. /\ Proceed(q, changes) /\ draft[q].pc = "rows"
        /\ rows' = [rows EXCEPT ![q] = Changed(rows[q], added)]
        /\ UNCHANGED <<vars, active, signals, workflows, run, press>>
    BY <1>1 DEF InsertRow, At
  <1>3. DOMAIN changes = {"pc", "linked"} /\ changes.pc \in {"link", "rows"}
        /\ changes.pc = (IF n = Len(keys) THEN "link" ELSE "rows") /\ changes.linked = 1
    OBVIOUS
  <1> HIDE DEF changes
  <1>4. /\ HowOK(q)' /\ FromLibrary(q)' /\ FromComposition(q)' /\ PressOK(q)'
        /\ Is(q, "composed") /\ draft'[q].pc = changes.pc
        /\ draft'[q].keys = keys /\ draft[q].shape # "batch"
        /\ Composed(draft[q], active)
        /\ press[q].pc # "none" => press[q].early
    BY <1>1, <1>2, <1>3, WritingGoesOn
  <1>5. "linked" \in DOMAIN draft'[q] /\ draft'[q].linked = 1
    BY <1>2, <1>3, AfterProceeding
  <1>6. /\ Len(keys) >= 3 /\ DOMAIN keys = 1 .. Len(keys) /\ Len(keys) \in Nat
        /\ \A i, j \in DOMAIN keys : keys[i] = keys[j] => i = j
    <2>1. draft[q].family \in Family /\ keys = KeysOf(draft[q].family)
      BY <1>1, <1>4 DEF Composed, Proposal
    <2>2. Len(keys) \in Nat
      BY <2>1, RecipesAre, KeysAre
    <2>3. QED BY <2>1, <2>2, KeysAre
  <1>7. Inserted(rows[q], keys) /\ SeenOK(q)
    BY <1>1, <1>2, <1>4 DEF DraftInv, DraftOK, RowsOK, IsPlan
  <1>8. /\ n \in 1 .. Len(keys) /\ HasRows(rows[q], keys, n - 1)
        /\ IsFiniteSet(DOMAIN rows[q])
        /\ n > 1 => AreBehind(rows[q], keys, 1)
    BY <1>6, <1>7 DEF Inserted
  <1>9. Cardinality(DOMAIN rows[q]) = n - 1
    BY <1>6, <1>7 DEF Inserted
  <1> HIDE DEF n
  <1>10. keys[n] \notin DOMAIN rows[q]
    BY <1>6, <1>8 DEF HasRows
  <1>11. /\ DOMAIN rows'[q] = DOMAIN rows[q] \cup {keys[n]}
         /\ rows'[q][keys[n]] = [state |-> "drafted", behind |-> {}]
         /\ \A k \in DOMAIN rows[q] : rows'[q][k] = rows[q][k]
    <2>1. rows'[q] = Changed(rows[q], added)
      BY <1>2 DEF PlanningInv, PlanningTypeOK
    <2>2. DOMAIN added = {keys[n]} /\ added[keys[n]] = [state |-> "drafted", behind |-> {}]
      OBVIOUS
    <2> HIDE DEF added
    <2>3. DOMAIN Changed(rows[q], added) = DOMAIN rows[q] \cup DOMAIN added
      BY DEF Changed
    <2>4. QED BY <1>10, <2>1, <2>2, <2>3, ChangedIs
  <1>12. HasRows(rows'[q], keys, n)
    <2>1. DOMAIN rows'[q] = {keys[i] : i \in 1 .. n}
      BY <1>8, <1>11 DEF HasRows
    <2>2. \A k \in DOMAIN rows'[q] : DOMAIN rows'[q][k] = {"state", "behind"}
      BY <1>8, <1>11 DEF HasRows
    <2>3. QED BY <2>1, <2>2 DEF HasRows
  <1>13. AreBehind(rows'[q], keys, 1)
    <2>1. rows'[q][keys[1]].behind = {}
      <3>1. CASE n = 1
        BY <1>11, <3>1
      <3>2. CASE n > 1
        <4>1. keys[1] \in DOMAIN rows[q] /\ rows[q][keys[1]].behind = {}
          BY <1>8, <3>2 DEF HasRows, AreBehind, Behind
        <4>2. QED BY <1>11, <4>1
      <3>3. QED BY <1>8, <3>1, <3>2
    <2>2. QED BY <2>1 DEF AreBehind, Behind
  <1>14. RowsOK(q)'
    <2>1. CASE n = Len(keys)
      <3>1. draft'[q].pc = "link"
        BY <1>3, <1>4, <2>1
      <3>2. 1 \in 1 .. Len(keys) - 1
        BY <1>6
      <3>3. QED
        BY <1>4, <1>5, <1>12, <1>13, <2>1, <3>1, <3>2 DEF RowsOK
    <2>2. CASE n # Len(keys)
      <3>1. draft'[q].pc = "rows"
        BY <1>3, <1>4, <2>2
      <3>2. IsFiniteSet(DOMAIN rows'[q]) /\ Cardinality(DOMAIN rows'[q]) = n
        <4>1. /\ IsFiniteSet(DOMAIN rows[q] \cup {keys[n]})
              /\ Cardinality(DOMAIN rows[q] \cup {keys[n]}) = Cardinality(DOMAIN rows[q]) + 1
          BY <1>8, <1>10, FS_AddElement
        <4>2. Cardinality(DOMAIN rows[q]) + 1 = n
          BY <1>6, <1>8, <1>9
        <4>3. QED BY <1>11, <4>1, <4>2
      <3>3. Inserted(rows'[q], keys)
        <4>1. n \in 0 .. Len(keys) - 1
          <5>1. Len(keys) \in Nat /\ n \in 1 .. Len(keys)
            BY <1>6, <1>8
          <5>2. QED BY <2>2, <5>1, Short
        <4>2. QED BY <1>12, <1>13, <3>2, <4>1 DEF Inserted
      <3>4. QED BY <1>4, <3>1, <3>3 DEF RowsOK
    <2>3. QED BY <2>1, <2>2
  <1>15. SeenOK(q)'
    <2>1. IsPlan(q)
      BY <1>4 DEF IsPlan
    <2>2. press[q].pc = "rows" => press[q].left \subseteq DOMAIN rows'[q]
      BY <1>7, <1>11, <2>1 DEF SeenOK
    <2>3. ASSUME NEW i \in DOMAIN keys, keys[i] \in DOMAIN rows'[q], i > 1,
                 rows'[q][keys[i]].state = "contracted"
          PROVE  press[q].pc # "none" /\ press[q].early
      <3>1. keys[i] \in DOMAIN rows[q] /\ rows[q][keys[i]].state = "contracted"
        BY <1>11, <2>3
      <3>2. QED BY <1>1, <1>7, <2>1, <2>3, <3>1 DEF SeenOK
    <2>4. QED BY <1>2, <1>4, <2>2, <2>3 DEF SeenOK
  <1>16. DraftOK(q)'
    BY <1>4, <1>14, <1>15 DEF DraftOK
  <1>17. QED
    BY <1>2, <1>16, DraftingAlso DEF Sent, vars, messageVars

LEMMA LinkRowKeepsDrafts ==
    ASSUME DraftInv, PlanningInv, NEW q \in Request, LinkRow(q) PROVE DraftInv'
  <1>1. PICK keys : keys = draft[q].keys
    OBVIOUS
  <1> DEFINE n == draft[q].linked + 1
             changes == [pc |-> IF n = Len(keys) THEN "answered" ELSE "link", linked |-> n]
  <1>2. /\ Proceed(q, changes) /\ draft[q].pc = "link"
        /\ rows' = [rows EXCEPT ![q][keys[n]].behind = Behind(keys, n)]
        /\ UNCHANGED <<vars, active, signals, workflows, run, press>>
    <2>1. /\ At(q, "link")
          /\ rows' = [rows EXCEPT ![q][draft[q].keys[draft[q].linked + 1]].behind =
                         Behind(draft[q].keys, draft[q].linked + 1)]
          /\ Proceed(q, [pc |-> IF draft[q].linked + 1 = Len(draft[q].keys) THEN "answered"
                                ELSE "link", linked |-> draft[q].linked + 1])
      BY DEF LinkRow
    <2>2. UNCHANGED <<vars, active, signals, workflows, run, press>>
      BY DEF LinkRow
    <2>3. QED BY <1>1, <2>1, <2>2, SMTT(30) DEF At
  <1>3. DOMAIN changes = {"pc", "linked"} /\ changes.pc \in {"link", "answered"}
        /\ changes.pc = (IF n = Len(keys) THEN "answered" ELSE "link") /\ changes.linked = n
    OBVIOUS
  <1> HIDE DEF changes
  <1>4. /\ HowOK(q)' /\ FromLibrary(q)' /\ FromComposition(q)' /\ PressOK(q)'
        /\ Is(q, "composed") /\ draft'[q].pc = changes.pc
        /\ draft'[q].keys = keys /\ draft[q].shape # "batch"
        /\ Composed(draft[q], active)
        /\ press[q].pc # "none" => press[q].early
    BY <1>1, <1>2, <1>3, WritingGoesOn
  <1>5. "linked" \in DOMAIN draft'[q] /\ draft'[q].linked = n
    BY <1>2, <1>3, AfterProceeding
  <1>6. /\ Len(keys) >= 3 /\ DOMAIN keys = 1 .. Len(keys) /\ Len(keys) \in Nat
        /\ \A i, j \in DOMAIN keys : keys[i] = keys[j] => i = j
    <2>1. draft[q].family \in Family /\ keys = KeysOf(draft[q].family)
      BY <1>1, <1>4 DEF Composed, Proposal
    <2>2. Len(keys) \in Nat
      BY <2>1, RecipesAre, KeysAre
    <2>3. QED BY <2>1, <2>2, KeysAre
  <1>7. /\ HasRows(rows[q], keys, Len(keys)) /\ SeenOK(q)
        /\ draft[q].linked \in 1 .. Len(keys) - 1
        /\ AreBehind(rows[q], keys, draft[q].linked)
    BY <1>1, <1>2, <1>4 DEF DraftInv, DraftOK, RowsOK, IsPlan
  <1>8. n \in 2 .. Len(keys) /\ AreBehind(rows[q], keys, n - 1)
    <2>1. n - 1 = draft[q].linked
      BY <1>6, <1>7
    <2>2. \A m \in Nat : \A l \in 1 .. m - 1 : l + 1 \in 2 .. m
      OBVIOUS
    <2>3. QED BY <1>6, <1>7, <2>1, <2>2
  <1> HIDE DEF n
  <1>9. /\ DOMAIN rows[q] = {keys[i] : i \in 1 .. Len(keys)}
        /\ \A k \in DOMAIN rows[q] : DOMAIN rows[q][k] = {"state", "behind"}
        /\ keys[n] \in DOMAIN rows[q]
    BY <1>6, <1>7, <1>8 DEF HasRows
  <1>10. /\ rows'[q] = [rows[q] EXCEPT ![keys[n]].behind = Behind(keys, n)]
         /\ \A p \in Request \ {q} : rows'[p] = rows[p]
    BY <1>2 DEF PlanningInv, PlanningTypeOK
  <1>11. /\ DOMAIN rows'[q] = DOMAIN rows[q]
         /\ \A k \in DOMAIN rows[q] \ {keys[n]} : rows'[q][k] = rows[q][k]
         /\ rows'[q][keys[n]] = [rows[q][keys[n]] EXCEPT !.behind = Behind(keys, n)]
    BY <1>9, <1>10
  <1>12. /\ rows'[q][keys[n]].behind = Behind(keys, n)
         /\ rows'[q][keys[n]].state = rows[q][keys[n]].state
         /\ DOMAIN rows'[q][keys[n]] = {"state", "behind"}
    BY <1>9, <1>11
  <1>13. HasRows(rows'[q], keys, Len(keys))
    BY <1>7, <1>11, <1>12 DEF HasRows
  <1>14. AreBehind(rows'[q], keys, n)
    <2>1. SUFFICES ASSUME NEW i \in 1 .. n PROVE rows'[q][keys[i]].behind = Behind(keys, i)
      BY DEF AreBehind
    <2>2. CASE i = n
      BY <1>12, <2>2
    <2>3. CASE i # n
      <3>1. i \in 1 .. n - 1 /\ i \in DOMAIN keys /\ n \in DOMAIN keys
        BY <1>6, <1>8, <2>3
      <3>2. keys[i] \in DOMAIN rows[q] \ {keys[n]}
        BY <1>6, <1>9, <2>3, <3>1
      <3>3. rows[q][keys[i]].behind = Behind(keys, i)
        BY <1>8, <3>1 DEF AreBehind
      <3>4. QED BY <1>11, <3>2, <3>3
    <2>4. QED BY <2>2, <2>3
  <1>15. RowsOK(q)'
    <2>1. CASE n = Len(keys)
      BY <1>3, <1>4, <1>13, <1>14, <2>1 DEF RowsOK
    <2>2. CASE n # Len(keys)
      <3>1. n \in 1 .. Len(keys) - 1
        <4>1. Len(keys) \in Nat /\ n \in 1 .. Len(keys)
          BY <1>6, <1>8
        <4>2. QED BY <2>2, <4>1, Short
      <3>2. QED BY <1>3, <1>4, <1>5, <1>13, <1>14, <2>2, <3>1 DEF RowsOK
    <2>3. QED BY <2>1, <2>2
  <1>16. SeenOK(q)'
    <2>1. IsPlan(q)
      BY <1>4 DEF IsPlan
    <2>2. press[q].pc = "rows" => press[q].left \subseteq DOMAIN rows'[q]
      BY <1>7, <1>11, <2>1 DEF SeenOK
    <2>3. \A k \in DOMAIN rows[q] : rows'[q][k].state = rows[q][k].state
      BY <1>11, <1>12
    <2>4. ASSUME NEW i \in DOMAIN keys, keys[i] \in DOMAIN rows'[q], i > 1,
                 rows'[q][keys[i]].state = "contracted"
          PROVE  press[q].pc # "none" /\ press[q].early
      <3>1. keys[i] \in DOMAIN rows[q] /\ rows[q][keys[i]].state = "contracted"
        BY <1>11, <2>3, <2>4
      <3>2. QED BY <1>1, <1>7, <2>1, <2>4, <3>1 DEF SeenOK
    <2>5. QED BY <1>2, <1>4, <2>2, <2>4 DEF SeenOK
  <1>17. DraftOK(q)'
    BY <1>4, <1>15, <1>16 DEF DraftOK
  <1>18. QED
    BY <1>2, <1>10, <1>17, DraftingAlso DEF Sent, vars, messageVars

\* A draft that is not a plan has no rows to speak of.
LEMMA SheetKeepsDrafts ==
    ASSUME DraftInv, PlanningInv, NEW q \in Request, DraftSheet(q) \/ DraftRecord(q)
    PROVE  DraftInv'
  <1>1. PICK pc \in {"fill", "answered"} : Proceed(q, [pc |-> pc])
    <2>1. CASE DraftSheet(q)
      BY <2>1 DEF DraftSheet
    <2>2. CASE DraftRecord(q)
      BY <2>2 DEF DraftRecord
    <2>3. QED BY <2>1, <2>2
  <1>2. /\ draft[q].pc \in {"sheet", "fill"}
        /\ UNCHANGED <<vars, active, signals, workflows, run, rows, press>>
    BY DEF DraftSheet, DraftRecord, At
  <1> DEFINE changes == [pc |-> pc]
  <1>3. DOMAIN changes = {"pc"} /\ changes.pc = pc
    OBVIOUS
  <1>4. Proceed(q, changes)
    BY <1>1
  <1> HIDE DEF changes
  <1>5. /\ HowOK(q)' /\ FromLibrary(q)' /\ FromComposition(q)' /\ PressOK(q)'
        /\ draft'[q].shape = draft[q].shape /\ draft[q].shape = "batch"
    BY <1>1, <1>2, <1>3, <1>4, WritingGoesOn
  <1>6. RowsOK(q)' /\ SeenOK(q)'
    BY <1>5 DEF RowsOK, SeenOK, IsPlan
  <1>7. DraftOK(q)'
    BY <1>5, <1>6 DEF DraftOK
  <1>8. QED
    BY <1>2, <1>4, <1>7, DraftingAlso DEF Sent, vars, messageVars

LEMMA DraftingKeepsDrafts ==
    ASSUME DraftInv, PlanningInv, NEW q \in Request, Drafting(q) PROVE DraftInv'
  BY MatchKeepsDrafts, ComposeKeepsDrafts, NextVersionKeepsDrafts, StoreKeepsDrafts,
     InsertRunKeepsDrafts, SendKeepsDrafts, InsertRowKeepsDrafts, LinkRowKeepsDrafts,
     SheetKeepsDrafts
  DEF Drafting

-----------------------------------------------------------------------------
(* The corrections, and the people who contract.                           *)

LEMMA EditKeepsDrafts ==
    ASSUME DraftInv, NEW v \in DOMAIN signals, RecordDraftEdit(v) PROVE DraftInv'
  <1>1. /\ UNCHANGED <<vars, active, workflows, draft, run, rows, press>>
        /\ signals' = [signals EXCEPT ![v] = @ + 1]
    BY DEF RecordDraftEdit, tableVars
  <1>2. signals \in [DOMAIN signals -> Nat] /\ NoOwner \notin DOMAIN signals
    BY DEF DraftInv, SignalsOK
  <1>3. /\ DOMAIN signals' = DOMAIN signals
        /\ \A u \in DOMAIN signals : signals'[u] \in Nat /\ signals'[u] >= signals[u]
    BY <1>1, <1>2
  <1>4. signals' = [u \in DOMAIN signals |-> signals'[u]]
    BY <1>1
  <1>5. signals' \in [DOMAIN signals' -> Nat]
    BY <1>3, <1>4
  <1>6. SignalsOK' /\ WorkflowsOK'
    BY <1>1, <1>2, <1>3, <1>5 DEF SignalsOK, DraftInv, WorkflowsOK
  <1>7. Onward
    <2>1. \A u \in DOMAIN signals : signals[u] \in Nat /\ signals'[u] \in Nat
      BY <1>2, <1>3
    <2>2. \A u \in DOMAIN signals : signals[u] > 1 => signals'[u] > 1
      BY <1>3, <2>1
    <2>3. QED BY <1>1, <1>3, <2>2 DEF Onward
  <1>8. \A p \in Request : Same(p) /\ (~Sent(p) => ~Sent(p)')
    BY <1>1 DEF Same, Sent, vars, messageVars
  <1>9. QED BY <1>6, <1>7, <1>8, OthersStayOK DEF DraftInv

\* What any step of a press has to show.
LEMMA PressingAlso ==
    ASSUME DraftInv, NEW q \in Request, UNCHANGED <<vars, active, signals, workflows, draft>>,
           \A p \in Request \ {q} : run'[p] = run[p] /\ rows'[p] = rows[p] /\ press'[p] = press[p],
           DOMAIN run'[q] = DOMAIN run[q],
           run[q].status # "none" /\ run'[q].status # "none",
           DOMAIN run[q] = {"status", "workflow"} => run'[q].workflow = run[q].workflow,
           RowsOK(q)', PressOK(q)', SeenOK(q)'
    PROVE  DraftInv'
  <1>1. HowOK(q) /\ FromLibrary(q) /\ FromComposition(q)
    BY DEF DraftInv, DraftOK
  <1>2. HowOK(q)'
    BY <1>1 DEF HowOK, Is, Unread, Unstored, Undrafted
  <1>3. FromLibrary(q)'
    BY <1>1 DEF FromLibrary, FilledIn, Is
  <1>4. draft[q].pc \notin Undrafted => run'[q].workflow = run[q].workflow
    BY <1>1 DEF HowOK
  <1>5. FromComposition(q)'
    BY <1>1, <1>4 DEF FromComposition, Is, Sent, vars, messageVars
  <1>6. DraftOK(q)'
    BY <1>2, <1>3, <1>5 DEF DraftOK
  <1>7. Onward /\ SignalsOK' /\ WorkflowsOK'
    BY DEF Onward, DraftInv, SignalsOK, WorkflowsOK
  <1>8. \A p \in Request \ {q} : Same(p) /\ (~Sent(p) => ~Sent(p)')
    BY DEF Same, Sent, vars, messageVars
  <1>9. QED BY <1>6, <1>7, <1>8, OneDraft

\* A run that is there was drafted: what it has of a composed plan is in its rows.
LEMMA DraftedRows ==
    ASSUME DraftInv, NEW q \in Request, run[q].status # "none", IsPlan(q)
    PROVE  /\ draft[q].pc \in {"rows", "link", "answered"}
           /\ \E n \in 0 .. Len(draft[q].keys) : HasRows(rows[q], draft[q].keys, n)
           /\ Len(draft[q].keys) \in Nat
           /\ DOMAIN draft[q].keys = 1 .. Len(draft[q].keys)
           /\ \A i, j \in DOMAIN draft[q].keys : draft[q].keys[i] = draft[q].keys[j] => i = j
  <1>1. HowOK(q) /\ FromComposition(q) /\ RowsOK(q)
    BY DEF DraftInv, DraftOK
  <1>2. draft[q].pc \in {"rows", "link", "answered"}
    BY <1>1 DEF HowOK, FromComposition, IsPlan, Unread, Unstored, Undrafted
  <1>3. PICK keys : keys = draft[q].keys
    OBVIOUS
  <1>4. draft[q].family \in Family /\ keys = KeysOf(draft[q].family)
    BY <1>1, <1>3 DEF FromComposition, Composed, Proposal, IsPlan
  <1>5. Len(keys) \in Nat
    BY <1>4, RecipesAre, KeysAre
  <1>6. \E n \in 0 .. Len(keys) : HasRows(rows[q], keys, n)
    <2>1. CASE draft[q].pc = "rows"
      <3>1. PICK n \in 0 .. Len(keys) - 1 : HasRows(rows[q], keys, n)
        BY <1>1, <1>3, <2>1 DEF RowsOK, Inserted
      <3>2. \A m \in Nat : \A l \in 0 .. m - 1 : l \in 0 .. m
        OBVIOUS
      <3>3. QED BY <1>5, <3>1, <3>2
    <2>2. CASE draft[q].pc \in {"link", "answered"}
      <3>1. HasRows(rows[q], keys, Len(keys))
        BY <1>1, <1>3, <2>2 DEF RowsOK
      <3>2. \A m \in Nat : m \in 0 .. m
        OBVIOUS
      <3>3. QED BY <1>5, <3>1, <3>2
    <2>3. QED BY <1>2, <2>1, <2>2
  <1>7. QED BY <1>2, <1>3, <1>4, <1>5, <1>6, KeysAre

LEMMA StartPressKeepsDrafts ==
    ASSUME DraftInv, PlanningInv, NEW q \in Request, StartPress(q) PROVE DraftInv'
  <1> DEFINE pressed == [pc |-> "rows", seen |-> rows[q], left |-> DOMAIN rows[q],
                         early |-> draft[q].pc # "answered"]
  <1>1. /\ UNCHANGED <<vars, active, signals, workflows, draft, run, rows>>
        /\ run[q].status # "none" /\ press[q].pc = "none"
        /\ press' = [press EXCEPT ![q] = pressed]
    BY DEF StartPress, draftVars, tableVars
  <1>2. press'[q] = pressed /\ \A p \in Request \ {q} : press'[p] = press[p]
    BY <1>1 DEF PlanningInv, PlanningTypeOK
  <1>3. /\ DOMAIN pressed = {"pc", "seen", "left", "early"} /\ pressed.pc = "rows"
        /\ pressed.seen = rows[q] /\ pressed.left = DOMAIN rows[q]
        /\ pressed.early = (draft[q].pc # "answered")
    OBVIOUS
  <1> HIDE DEF pressed
  <1>4. DraftOK(q)
    BY DEF DraftInv
  <1>5. RowsOK(q)'
    BY <1>1, <1>4 DEF DraftOK, RowsOK, IsPlan, Is
  <1>6. PressOK(q)'
    BY <1>1, <1>2, <1>3 DEF PressOK
  <1>7. SeenOK(q)'
    <2>1. SUFFICES ASSUME IsPlan(q) PROVE SeenOK(q)'
      BY <1>1 DEF SeenOK, IsPlan, Is
    <2>2. PICK keys : keys = draft[q].keys
      OBVIOUS
    <2>3. ASSUME draft[q].pc = "answered", NEW i \in DOMAIN keys
          PROVE  rows[q][keys[i]].behind = Behind(keys, i)
      <3>1. AreBehind(rows[q], keys, Len(keys))
        BY <1>4, <2>1, <2>2, <2>3 DEF DraftOK, RowsOK
      <3>2. i \in 1 .. Len(keys)
        BY <1>1, <2>1, <2>2, <2>3, DraftedRows
      <3>3. QED BY <3>1, <3>2 DEF AreBehind
    <2>4. \A i \in DOMAIN keys :
              keys[i] \in DOMAIN rows[q] /\ i > 1 => rows[q][keys[i]].state # "contracted"
      BY <1>1, <1>4, <2>1, <2>2 DEF DraftOK, SeenOK
    <2>5. press'[q].left \subseteq DOMAIN rows'[q]
      BY <1>1, <1>2, <1>3
    <2>6. ~press'[q].early =>
              \A i \in DOMAIN keys : press'[q].seen[keys[i]].behind = Behind(keys, i)
      BY <1>2, <1>3, <2>3
    <2>7. QED BY <1>1, <2>2, <2>4, <2>5, <2>6 DEF SeenOK
  <1>8. QED BY <1>1, <1>2, <1>5, <1>6, <1>7, PressingAlso

LEMMA PressRowKeepsDrafts ==
    ASSUME DraftInv, PlanningInv, NEW q \in Request, PressRow(q) PROVE DraftInv'
  <1>1. /\ UNCHANGED <<vars, active, signals, workflows, draft, run>>
        /\ press[q].pc = "rows"
    BY DEF PressRow, draftVars
  <1>2. PICK k \in press[q].left :
            /\ rows' = [rows EXCEPT ![q][k].state =
                  IF @ = "drafted"
                  THEN IF press[q].seen[k].behind # {} THEN "blocked" ELSE "contracted"
                  ELSE @]
            /\ press' = [press EXCEPT ![q].left = @ \ {k}]
    BY DEF PressRow
  <1>3. PICK state :
            /\ rows' = [rows EXCEPT ![q][k].state = state]
            /\ state = IF rows[q][k].state = "drafted"
                       THEN IF press[q].seen[k].behind # {} THEN "blocked" ELSE "contracted"
                       ELSE rows[q][k].state
    BY <1>2 DEF PlanningInv, PlanningTypeOK
  <1>4. /\ rows'[q] = [rows[q] EXCEPT ![k].state = state]
        /\ press'[q] = [press[q] EXCEPT !.left = @ \ {k}]
        /\ \A p \in Request \ {q} : rows'[p] = rows[p] /\ press'[p] = press[p]
    BY <1>2, <1>3 DEF PlanningInv, PlanningTypeOK
  <1>5. DraftOK(q)
    BY DEF DraftInv
  <1>6. /\ run[q].status # "none" /\ DOMAIN press[q] = {"pc", "seen", "left", "early"}
        /\ press[q].early \in BOOLEAN
    BY <1>1, <1>5 DEF DraftOK, PressOK
  <1>7. /\ DOMAIN press'[q] = DOMAIN press[q] /\ press'[q].pc = "rows"
        /\ press'[q].seen = press[q].seen /\ press'[q].early = press[q].early
        /\ press'[q].left \subseteq press[q].left
    BY <1>1, <1>4, <1>6
  <1>8. PressOK(q)'
    BY <1>1, <1>5, <1>6, <1>7 DEF DraftOK, PressOK
  <1>9. RowsOK(q)' /\ SeenOK(q)'
    <2>1. SUFFICES ASSUME IsPlan(q) PROVE RowsOK(q)' /\ SeenOK(q)'
      BY <1>1 DEF RowsOK, SeenOK, IsPlan, Is
    <2>2. PICK keys : keys = draft[q].keys
      OBVIOUS
    <2>3. SeenOK(q) /\ k \in DOMAIN rows[q]
      BY <1>1, <1>2, <1>5, <2>1 DEF DraftOK, SeenOK
    <2>4. PICK n \in 0 .. Len(keys) : HasRows(rows[q], keys, n)
      BY <1>6, <2>1, <2>2, DraftedRows
    <2>5. \A x \in DOMAIN rows[q] : DOMAIN rows[q][x] = {"state", "behind"}
      BY <2>4 DEF HasRows
    <2>6. /\ DOMAIN rows'[q] = DOMAIN rows[q]
          /\ \A x \in DOMAIN rows[q] \ {k} : rows'[q][x] = rows[q][x]
          /\ rows'[q][k] = [rows[q][k] EXCEPT !.state = state]
      BY <1>4, <2>3
    <2>7. /\ DOMAIN rows'[q][k] = {"state", "behind"} /\ rows'[q][k].state = state
          /\ rows'[q][k].behind = rows[q][k].behind
      BY <2>3, <2>5, <2>6
    <2>8. \A x \in DOMAIN rows[q] : rows'[q][x].behind = rows[q][x].behind
      BY <2>6, <2>7
    <2>9. \A m : HasRows(rows[q], keys, m) => HasRows(rows'[q], keys, m)
      BY <2>6, <2>7 DEF HasRows
    <2>10. \A m, h : HasRows(rows[q], keys, h) /\ 1 .. m \subseteq 1 .. h
                         /\ AreBehind(rows[q], keys, m)
                     => AreBehind(rows'[q], keys, m)
      <3>1. SUFFICES ASSUME NEW m, NEW h, HasRows(rows[q], keys, h), 1 .. m \subseteq 1 .. h,
                            AreBehind(rows[q], keys, m)
                     PROVE  AreBehind(rows'[q], keys, m)
        OBVIOUS
      <3>2. \A i \in 1 .. m : keys[i] \in DOMAIN rows[q]
        BY <3>1 DEF HasRows
      <3>3. QED BY <2>8, <3>1, <3>2 DEF AreBehind
    <2>11. RowsOK(q)'
      <3>1. CASE draft[q].pc = "rows"
        <4>1. PICK m \in 0 .. Len(keys) - 1 :
                  /\ HasRows(rows[q], keys, m) /\ IsFiniteSet(DOMAIN rows[q])
                  /\ Cardinality(DOMAIN rows[q]) = m
                  /\ m > 0 => AreBehind(rows[q], keys, 1)
          BY <1>5, <2>1, <2>2, <3>1 DEF DraftOK, RowsOK, Inserted
        <4>2. Len(keys) \in Nat
          BY <1>6, <2>1, <2>2, DraftedRows
        <4>3. m \in Nat
          BY <4>1, <4>2
        <4>4. m > 0 => 1 .. 1 \subseteq 1 .. m
          BY <4>3
        <4>5. m > 0 => AreBehind(rows'[q], keys, 1)
          BY <2>10, <4>1, <4>4
        <4>6. Inserted(rows'[q], keys)
          BY <2>6, <2>9, <4>1, <4>5 DEF Inserted
        <4>7. QED BY <1>1, <2>2, <3>1, <4>6 DEF RowsOK
      <3>2. CASE draft[q].pc = "link"
        <4>1. /\ HasRows(rows[q], keys, Len(keys)) /\ "linked" \in DOMAIN draft[q]
              /\ draft[q].linked \in 1 .. Len(keys) - 1
              /\ AreBehind(rows[q], keys, draft[q].linked)
          BY <1>5, <2>1, <2>2, <3>2 DEF DraftOK, RowsOK
        <4>2. Len(keys) \in Nat
          BY <1>6, <2>1, <2>2, DraftedRows
        <4>3. \A m \in Nat : \A l \in 1 .. m - 1 : 1 .. l \subseteq 1 .. m
          OBVIOUS
        <4>4. AreBehind(rows'[q], keys, draft[q].linked)
          BY <2>10, <4>1, <4>2, <4>3
        <4>5. QED BY <1>1, <2>2, <2>9, <3>2, <4>1, <4>4 DEF RowsOK
      <3>3. CASE draft[q].pc = "answered"
        <4>1. /\ HasRows(rows[q], keys, Len(keys))
              /\ AreBehind(rows[q], keys, Len(keys))
          BY <1>5, <2>1, <2>2, <3>3 DEF DraftOK, RowsOK
        <4>2. AreBehind(rows'[q], keys, Len(keys))
          BY <2>10, <4>1
        <4>3. QED BY <1>1, <2>2, <2>9, <3>3, <4>1, <4>2 DEF RowsOK
      <3>4. QED BY <1>6, <2>1, <3>1, <3>2, <3>3, DraftedRows
    <2>12. SeenOK(q)'
      <3>1. press'[q].left \subseteq DOMAIN rows'[q]
        BY <1>1, <1>7, <2>1, <2>3, <2>6 DEF SeenOK
      <3>2. ASSUME NEW i \in DOMAIN keys, keys[i] \in DOMAIN rows'[q], i > 1,
                   rows'[q][keys[i]].state = "contracted"
            PROVE  press[q].early
        <4>1. CASE rows[q][keys[i]].state = "contracted"
          BY <2>1, <2>2, <2>3, <2>6, <3>2, <4>1 DEF SeenOK
        <4>2. CASE rows[q][keys[i]].state # "contracted"
          <5>1. keys[i] = k /\ press[q].seen[keys[i]].behind = {}
            BY <1>3, <2>6, <2>7, <3>2, <4>2
          <5>2. Behind(keys, i) # {}
            <6>1. i # 1
              BY <3>2
            <6>2. QED BY <6>1 DEF Behind
          <5>3. QED BY <1>1, <1>6, <2>1, <2>2, <2>3, <3>2, <5>1, <5>2 DEF SeenOK
        <4>3. QED BY <4>1, <4>2
      <3>3. ~press'[q].early =>
                \A i \in DOMAIN keys : press'[q].seen[keys[i]].behind = Behind(keys, i)
        BY <1>1, <1>7, <2>1, <2>2, <2>3 DEF SeenOK
      <3>4. QED BY <1>1, <1>7, <2>2, <3>1, <3>2, <3>3 DEF SeenOK
    <2>13. QED BY <2>11, <2>12
  <1>10. QED BY <1>1, <1>4, <1>6, <1>8, <1>9, PressingAlso

LEMMA EndPressKeepsDrafts ==
    ASSUME DraftInv, PlanningInv, NEW q \in Request, EndPress(q) PROVE DraftInv'
  <1>1. /\ UNCHANGED <<vars, active, signals, workflows, draft, rows>> /\ press[q].pc = "rows"
        /\ run' = [run EXCEPT ![q].status = "running"]
        /\ press' = [press EXCEPT ![q].pc = "done"]
    BY DEF EndPress, tableVars
  <1>2. /\ run'[q] = [run[q] EXCEPT !.status = "running"]
        /\ press'[q] = [press[q] EXCEPT !.pc = "done"]
        /\ \A p \in Request \ {q} : run'[p] = run[p] /\ press'[p] = press[p]
    BY <1>1 DEF PlanningInv, PlanningTypeOK
  <1>3. DraftOK(q)
    BY DEF DraftInv
  <1>4. /\ run[q].status # "none" /\ DOMAIN press[q] = {"pc", "seen", "left", "early"}
        /\ press[q].early \in BOOLEAN
        /\ draft[q].pc # "answered" => press[q].early
    BY <1>1, <1>3 DEF DraftOK, PressOK
  <1>5. DOMAIN run[q] = {"status", "workflow"}
    BY <1>3, <1>4 DEF DraftOK, HowOK
  <1>6. /\ DOMAIN run'[q] = DOMAIN run[q] /\ run'[q].status = "running"
        /\ run'[q].workflow = run[q].workflow
    BY <1>2, <1>5
  <1>7. /\ DOMAIN press'[q] = DOMAIN press[q] /\ press'[q].pc = "done"
        /\ press'[q].early = press[q].early
    BY <1>2, <1>4
  <1>8. PressOK(q)'
    BY <1>1, <1>4, <1>6, <1>7 DEF PressOK
  <1>9. RowsOK(q)'
    BY <1>1, <1>3 DEF DraftOK, RowsOK, IsPlan, Is
  <1>10. SeenOK(q)'
    BY <1>1, <1>3, <1>7 DEF DraftOK, SeenOK, IsPlan, Is
  <1>11. QED BY <1>1, <1>2, <1>4, <1>6, <1>8, <1>9, <1>10, PressingAlso

-----------------------------------------------------------------------------
(* The workers, the plans, and all steps.                                  *)

LEMMA PlanStepsKeepDrafts ==
    ASSUME DraftInv, PlanningInv, NEW q \in Request, NEW i \in Slot, PlanStep(q, i)
    PROVE  DraftInv'
  <1>1. \A p \in Request : ~Sent(p) => ~Sent(p)'
    <2>1. UNCHANGED vars \/ RecordFailure
      BY PlanStepsKeepQueue
    <2>2. \A m \in Message : status[m] = "unsent" => status'[m] = "unsent"
      BY <2>1, StaysUnsent DEF PlanningInv
    <2>3. QED BY <2>2, PlanningAssumption DEF Sent
  <1>2. InsertRows(q, i) \/ UNCHANGED <<draftVars, rows, press>>
    <2>1. CASE LookForInvariants(q, i)
      BY <2>1 DEF LookForInvariants, tableVars
    <2>2. CASE CopyInvariant(q, i)
      BY <2>2 DEF CopyInvariant
    <2>3. CASE MaterializeSheet(q, i) \/ MaterializeRows(q, i)
      BY <2>3 DEF MaterializeSheet, MaterializeRows
    <2>4. CASE CreateBatchSheet(q, i)
      BY <2>4 DEF CreateBatchSheet
    <2>5. CASE CreateRecord(q, i)
      BY <2>5 DEF CreateRecord
    <2>6. QED BY <2>1, <2>2, <2>3, <2>4, <2>5 DEF PlanStep
  <1>3. CASE InsertRows(q, i)
    <2> UNCHANGED <<draftVars, press>>
      BY <1>3 DEF InsertRows
    <2>1. \A p \in Request \ {q} : rows'[p] = rows[p]
      <3>1. CASE UNCHANGED rows
        BY <3>1
      <3>2. CASE ~UNCHANGED rows
        <4>1. PICK table : rows' = [rows EXCEPT ![q] = table]
          BY <1>3, <3>2 DEF InsertRows
        <4>2. QED BY <4>1 DEF PlanningInv, PlanningTypeOK
      <3>3. QED BY <3>1, <3>2
    <2>2. Sent(q)
      BY <1>3 DEF InsertRows, Plans, PlanningInv, PlansAreOfWorkers, UnderWay
    <2>3. DraftOK(q)
      BY DEF DraftInv
    <2>4. ~Is(q, "composed")
      BY <2>2, <2>3 DEF DraftOK, FromComposition
    <2>5. ~Is(q, "composed")'
      BY <2>4 DEF Is, draftVars
    <2>6. FromComposition(q)' /\ RowsOK(q)' /\ SeenOK(q)'
      BY <2>5 DEF FromComposition, RowsOK, SeenOK, IsPlan
    <2>7. HowOK(q)' /\ FromLibrary(q)' /\ PressOK(q)'
      BY <2>3 DEF DraftOK, HowOK, FromLibrary, FilledIn, PressOK, Is, draftVars
    <2>8. DraftOK(q)'
      BY <2>6, <2>7 DEF DraftOK
    <2>9. Onward /\ SignalsOK' /\ WorkflowsOK'
      BY DEF Onward, DraftInv, SignalsOK, WorkflowsOK, draftVars
    <2>10. \A p \in Request \ {q} : Same(p)
      BY <2>1 DEF Same, draftVars
    <2>11. QED BY <1>1, <2>8, <2>9, <2>10, OneDraft
  <1>4. CASE ~InsertRows(q, i)
    BY <1>1, <1>2, <1>4, UntouchedDrafts
  <1>5. QED BY <1>3, <1>4

LEMMA WorkersKeepDrafts ==
    ASSUME DraftInv, PlanningInv,
           \/ \E w \in Worker : WorkerStep(w) \/ Drained(w) \/ CrashWorker(w)
           \/ \E m \in Message : Passing(m)
           \/ UNCHANGED allVars
    PROVE  DraftInv'
  <1>1. \A p \in Request : ~Sent(p) => ~Sent(p)'
    <2>1. \/ \E w \in Worker : Acts(w) \/ Crash(w)
          \/ \E m \in Message : Expire(m) \/ ComeDue(m)
          \/ UNCHANGED vars
      BY WorkersKeepToQueue DEF CrashWorker, Passing, allVars
    <2>2. \A m \in Message : status[m] = "unsent" => status'[m] = "unsent"
      BY <2>1, StaysUnsent DEF PlanningInv
    <2>3. QED BY <2>2, PlanningAssumption DEF Sent
  <1>2. UNCHANGED <<draftVars, tableVars, press>>
    BY DEF WorkerStep, Drained, Carry, StartMessage, SucceedMessage, FailMessage, TimeOutMessage,
           CrashWorker, Passing, allVars, planningVars
  <1>3. QED BY <1>1, <1>2, UntouchedDrafts DEF tableVars

LEMMA InitDrafts == InitPlanning => DraftInv
  <1>1. SUFFICES ASSUME InitPlanning PROVE DraftInv
    OBVIOUS
  <1>2. PICK s \in Scenes :
            /\ signals = s.signals
            /\ draft = [q \in Request |-> [pc |-> IF q \in s.asks THEN "asked" ELSE "none"]]
    BY <1>1 DEF InitPlanning
  <1>3. SignalsOK /\ WorkflowsOK
    BY <1>1, <1>2, PlanningAssumption DEF InitPlanning, SignalsOK, WorkflowsOK
  <1>4. ASSUME NEW q \in Request PROVE DraftOK(q)
    <2>1. DOMAIN draft[q] = {"pc"} /\ draft[q].pc \in Unread
      BY <1>2 DEF Unread
    <2>2. run[q].status = "none" /\ press[q].pc = "none"
      BY <1>1 DEF InitPlanning, NoRun
    <2>3. \A how : ~Is(q, how)
      BY <2>1 DEF Is
    <2>4. HowOK(q)
      BY <1>1, <2>1, <2>2, <2>3 DEF InitPlanning, HowOK, Unread, Undrafted
    <2>5. FromLibrary(q) /\ FromComposition(q) /\ RowsOK(q) /\ SeenOK(q)
      BY <2>3 DEF FromLibrary, FromComposition, RowsOK, SeenOK, IsPlan
    <2>6. PressOK(q)
      BY <2>2 DEF PressOK
    <2>7. QED BY <2>4, <2>5, <2>6 DEF DraftOK
  <1>5. QED BY <1>3, <1>4 DEF DraftInv

LEMMA NextKeepsDrafts ==
    ASSUME DraftInv, PlanningInv, [NextPlanning]_allVars PROVE DraftInv'
  <1>1. CASE GoingOn
    BY <1>1, WorkersKeepDrafts, PlanStepsKeepDrafts DEF GoingOn
  <1>2. CASE \E w \in Worker : Drained(w) \/ CrashWorker(w)
    BY <1>2, WorkersKeepDrafts
  <1>3. CASE \E q \in Request : Drafting(q) \/ StartPress(q) \/ PressRow(q) \/ EndPress(q)
    BY <1>3, DraftingKeepsDrafts, StartPressKeepsDrafts, PressRowKeepsDrafts, EndPressKeepsDrafts
  <1>4. CASE \E v \in DOMAIN signals : RecordDraftEdit(v)
    BY <1>4, EditKeepsDrafts
  <1>5. CASE UNCHANGED allVars
    BY <1>5, WorkersKeepDrafts
  <1>6. QED BY <1>1, <1>2, <1>3, <1>4, <1>5 DEF NextPlanning

\* What the invariant says of a draft that is answered.
LEMMA AnsweredDraft ==
    ASSUME DraftInv PROVE DraftsAreWhatTheySay
  <1> DEFINE FillsIn(q) ==
                 LET name == draft[q].workflow[1] IN
                 /\ Ask[q].fills # NoOwner => draft[q].input = Ask[q].fills
                 /\ draft[q].input \in DOMAIN signals /\ Ask[q].fills = NoOwner
                        => signals[draft[q].input] > 1
                 /\ name = "day_one" /\ draft[q].input = NoOwner
                        => IsAsked(q, Uncertain(Len(Library[name].rows) + 1, "input"))
             Lists(q) ==
                 LET keys == draft[q].keys IN
                 draft[q].shape = "plan" =>
                     /\ DOMAIN rows[q] = Range(keys)
                     /\ \A n \in DOMAIN keys :
                            /\ rows[q][keys[n]].behind = Behind(keys, n)
                            /\ rows[q][keys[n]].state = "contracted" /\ n > 1 => press[q].early
             Owns(q) ==
                 LET keys == draft[q].keys IN
                 \A n \in DOMAIN keys :
                     LET task == CHOOSE t \in Range(TASKS) : t.column = keys[n]
                         owner == draft[q].owners[n]
                     IN  \/ owner = NoOwner /\ IsAsked(q, Uncertain(n, Lacking(task)))
                         \/ \E s \in active :
                               /\ s.id = owner
                               /\ IF task.humanOnly THEN s.kind = "person" /\ s.role = "approver"
                                  ELSE s.kind # "person" /\ task.tools \cap s.tools # {}
  <1>1. SUFFICES ASSUME NEW q \in Request, draft[q].pc = "answered"
                 PROVE  /\ Cardinality(draft[q].questions) <= MAX_QUESTIONS
                        /\ IF draft[q].how = "library" THEN FillsIn(q)
                           ELSE /\ \E w \in workflows : PinsItsOwn(q, w)
                                /\ Lists(q) /\ Owns(q)
    BY Zenon DEF DraftsAreWhatTheySay
  <1>2. DraftOK(q)
    BY DEF DraftInv
  <1>3. CASE draft[q].how = "library"
    <2>1. FilledIn(q)
      BY <1>1, <1>2, <1>3 DEF DraftOK, HowOK, FromLibrary, Is, Unread
    <2>2. QED BY <1>3, <2>1 DEF FilledIn, AskedWell, IsAsked
  <1>4. CASE draft[q].how # "library"
    <2>1. Is(q, "composed") /\ run[q].status # "none"
      BY <1>1, <1>2, <1>4 DEF DraftOK, HowOK, Is, Unread, Unstored, Undrafted
    <2>2. PICK keys : keys = draft[q].keys
      OBVIOUS
    <2>3. /\ Stored(q, draft[q], workflows) /\ run[q].workflow = draft[q].workflow
          /\ Composed(draft[q], active)
      BY <1>1, <1>2, <2>1 DEF DraftOK, FromComposition, Unread, Unstored, Undrafted
    <2>6. \E w \in workflows : PinsItsOwn(q, w)
      BY <2>3 DEF Stored, PinsItsOwn
    <2>7. Owns(q) /\ Cardinality(draft[q].questions) <= MAX_QUESTIONS
      <3>1. AskedWell(draft[q]) /\ \A n \in DOMAIN draft[q].keys : WellOwned(draft[q], n, active)
        BY <2>3 DEF Composed, Proposal
      <3>2. \A u \in draft[q].uncertain : IsAsked(q, u)
        BY <3>1 DEF AskedWell, IsAsked
      <3>3. Owns(q)
        BY <3>1, <3>2 DEF WellOwned
      <3>4. QED BY <3>1, <3>3 DEF AskedWell
    <2>4. ASSUME draft[q].shape = "plan"
          PROVE  /\ DOMAIN rows[q] = Range(keys)
                 /\ \A n \in DOMAIN keys :
                        /\ rows[q][keys[n]].behind = Behind(keys, n)
                        /\ rows[q][keys[n]].state = "contracted" /\ n > 1 => press[q].early
      <3>1. IsPlan(q)
        BY <2>1, <2>4 DEF IsPlan
      <3>2. DOMAIN keys = 1 .. Len(keys)
        BY <2>1, <2>2, <3>1, DraftedRows
      <3>3. HasRows(rows[q], keys, Len(keys)) /\ AreBehind(rows[q], keys, Len(keys))
        BY <1>1, <1>2, <2>2, <3>1 DEF DraftOK, RowsOK
      <3>4. DOMAIN rows[q] = Range(keys)
        BY <3>2, <3>3 DEF HasRows, Range
      <3>5. \A n \in DOMAIN keys : rows[q][keys[n]].behind = Behind(keys, n)
        BY <3>2, <3>3 DEF AreBehind
      <3>6. \A n \in DOMAIN keys : keys[n] \in DOMAIN rows[q]
        BY <3>4 DEF Range
      <3>7. \A n \in DOMAIN keys :
                rows[q][keys[n]].state = "contracted" /\ n > 1 => press[q].early
        BY <1>2, <2>2, <3>1, <3>6 DEF DraftOK, SeenOK
      <3>8. QED BY <3>4, <3>5, <3>7
    <2>5. QED BY <1>4, <2>2, <2>4, <2>6, <2>7
  <1>5. QED BY <1>3, <1>4

\* What is answered to an ask is what was written, whatever is asked, by whomever,
\* with whatever staff: an answer out of the library fills in what the ask says, or a
\* value that was corrected to more than once (planner.ts, matchLibrary and the learned
\* defaults); a composed one lists the rows that were inserted and linked, and its run
\* pins the definition it was composed to, shape and owners with it, unless another
\* ask of the family stored that version after this one had read the versions; each
\* step is owned by a worker who can do it, or is asked about, or comes after three
\* questions (compose.ts).  Neither the plans nor any contracting of the run as it is
\* written can make it otherwise.
THEOREM DraftsSayWhatIsWritten == SpecPlanning => []DraftsAreWhatTheySay
  <1>1. InitPlanning => DraftInv /\ PlanningInv
    BY InitDrafts, InitPlanningInv
  <1>2. DraftInv /\ PlanningInv /\ [NextPlanning]_allVars => (DraftInv /\ PlanningInv)'
    BY NextKeepsDrafts, NextKeepsPlanningInv
  <1>3. DraftInv => DraftsAreWhatTheySay
    BY AnsweredDraft
  <1>4. QED BY <1>1, <1>2, <1>3, PTL DEF SpecPlanning
=============================================================================
