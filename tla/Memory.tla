------------------------------- MODULE Memory -------------------------------
(***************************************************************************)
(* The organisation's memory: the pass of lib/memory/pipeline.ts over the  *)
(* files of a firm, and the read of lib/memory/compiler.ts.  A pass lands  *)
(* every file it does not have yet and then takes what it landed through   *)
(* its stages, in the order the world produced it.  A fact has two clocks: *)
(* a newer one supersedes the older in record time.                        *)
(*                                                                         *)
(* Nothing of a pass is one transaction: a pass may die after any of its   *)
(* statements, and facts are read between any two.  One pass runs at a     *)
(* time, since only scripts/memory.ts runs one.                            *)
(***************************************************************************)
EXTENDS Integers, Sequences, FiniteSets

CONSTANTS
    File,        \* a path with its content, named by its place among the paths
    Deal,
    NoDeal,
    Attribute,
    Decision,    \* what an extractor finds that is no fact
    Occurred,    \* Occurred[f]: when the world produced f
    Identifier,  \* Identifier[f]: the deal whose identifier f has, or NoDeal
    Folder,      \* Folder[f]: the deal the folder of f is bound to, or NoDeal
    Aliases,     \* Aliases[f]: the deals of which f has an alias
    Finds,       \* Finds[f]: what the extractors of f find, in their order
    LastTime,    \* bound on the clock
    MaxPasses,   \* bound on the passes
    MaxCrashes   \* bound on the passes that die

ASSUME MemoryAssumption ==
    /\ File \subseteq Nat \ {0}
    /\ NoDeal \notin Deal
    /\ Decision \notin Attribute
    /\ Occurred \in [File -> Nat]
    /\ Identifier \in [File -> Deal \cup {NoDeal}]
    /\ Folder \in [File -> Deal \cup {NoDeal}]
    /\ Aliases \in [File -> SUBSET Deal]
    /\ Finds \in [File -> Seq(Attribute \cup {Decision})]
    /\ LastTime \in Nat \ {0}
    /\ MaxPasses \in Nat
    /\ MaxCrashes \in Nat

VARIABLES
    files,    \* the files that are there
    landed,   \* landed[f]: the pass that landed the event of f, or 0
    kept,     \* kept[f]: the tables that have rows of the event of f
    facts,    \* the table of facts, in the order of its inserts
    decided,  \* the decision records, by file and place
    pass,     \* the pass under way
    clock,    \* the time
    passes,   \* how many passes have begun
    crashes   \* how many passes have died

world == <<files, clock>>
tables == <<landed, kept, facts, decided>>
vars == <<world, tables, pass, passes, crashes>>

Table == {"text", "class", "links", "chunks"}

\* superseded_at of a fact that is current.
Null == 0

\* A pass is at pc with file, of which deal and the find at place are being
\* written since the instant at, and has todo before it.
NoPass == [pc |-> "idle", todo |-> {}, file |-> 0, deal |-> NoDeal, place |-> 1, at |-> 0]

Init ==
    /\ files = {}
    /\ landed = [f \in File |-> 0]
    /\ kept = [f \in File |-> {}]
    /\ facts = <<>>
    /\ decided = {}
    /\ pass = NoPass
    /\ clock = 1
    /\ passes = 0
    /\ crashes = 0

At(pc) == pass.pc = pc

This == pass.file

Keep(f, table) == kept' = [kept EXCEPT ![f] = @ \cup {table}]

-----------------------------------------------------------------------------
(* Stages 0 and 1: inventory and land.                                     *)

Begin ==
    /\ At("idle")
    /\ passes < MaxPasses
    /\ passes' = passes + 1
    /\ pass' = [NoPass EXCEPT !.pc = "land", !.todo = files]
    /\ UNCHANGED <<world, tables, crashes>>

\* Mutant: the event is not looked up by its source and content first.
LandAgain(f) == [landed EXCEPT ![f] = passes]

\* An event is keyed on its source, its identifier and its content.
Landing(f) == IF landed[f] = 0 THEN [landed EXCEPT ![f] = passes] ELSE landed

Land ==
    /\ At("land")
    /\ \E f \in pass.todo :
           /\ \A g \in pass.todo : f <= g
           /\ landed' = Landing(f)
           /\ pass' = [pass EXCEPT !.todo = @ \ {f}]
    /\ UNCHANGED <<world, kept, facts, decided, passes, crashes>>

\* Mutant: what was landed is worked through in the order of the paths.
ByPath(f, g) == f < g

\* A stable sort by occurredAt of what was landed in the order of the paths.
Sooner(f, g) ==
    \/ Occurred[f] < Occurred[g]
    \/ Occurred[f] = Occurred[g] /\ f < g

\* The first of the events in todo is taken up, or the pass is over.
TakeUp(todo) ==
    \/ todo = {} /\ pass' = NoPass
    \/ \E f \in todo :
           /\ \A g \in todo \ {f} : Sooner(f, g)
           /\ pass' = [NoPass EXCEPT !.pc = "parse", !.file = f, !.todo = todo \ {f}]

Sort ==
    /\ At("land")
    /\ pass.todo = {}
    /\ TakeUp({f \in File : landed[f] = passes})
    /\ UNCHANGED <<world, tables, passes, crashes>>

-----------------------------------------------------------------------------
(* Stages 2 to 4: parse, classify and resolve.                             *)

Goto(pc) == pass' = [pass EXCEPT !.pc = pc]

Parse ==
    /\ At("parse")
    /\ Keep(This, "text")
    /\ Goto("classify")
    /\ UNCHANGED <<world, landed, facts, decided, passes, crashes>>

ClassifyEvent ==
    /\ At("classify")
    /\ Keep(This, "class")
    /\ Goto("resolve")
    /\ UNCHANGED <<world, landed, facts, decided, passes, crashes>>

\* Mutant: the folder is looked at before the text.
ResolvedByFolder(f) ==
    IF Folder[f] # NoDeal THEN {Folder[f]}
    ELSE IF Identifier[f] # NoDeal THEN {Identifier[f]}
    ELSE Aliases[f]

\* The ladder: exact identifiers, then the folder, then aliases.  Several aliases
\* are the residue, whose links are quarantined; none is an orphan.
Resolved(f) ==
    IF Identifier[f] # NoDeal THEN {Identifier[f]}
    ELSE IF Folder[f] # NoDeal THEN {Folder[f]}
    ELSE Aliases[f]

Quarantined(f) == Cardinality(Resolved(f)) > 1

\* The first of the entities resolved to is the one facts are about; the query
\* gives them no order.
Resolve ==
    /\ At("resolve")
    /\ Keep(This, "links")
    /\ \E d \in IF Resolved(This) = {} THEN {NoDeal} ELSE Resolved(This) :
           pass' = [pass EXCEPT !.pc = "extract", !.deal = d]
    /\ UNCHANGED <<world, landed, facts, decided, passes, crashes>>

-----------------------------------------------------------------------------
(* Stage 5: extract.                                                       *)

Found == Finds[This][pass.place]

MoreFound == pass.deal # NoDeal /\ pass.place <= Len(Finds[This])

RecordDecision ==
    /\ At("extract")
    /\ MoreFound
    /\ Found = Decision
    /\ decided' = decided \cup {<<This, pass.place>>}
    /\ pass' = [pass EXCEPT !.place = @ + 1]
    /\ UNCHANGED <<world, landed, kept, facts, passes, crashes>>

\* Mutant: a fact is superseded by a newer one of the same file only.
IsCurrentOfFile(fact, d, a) ==
    /\ fact.deal = d /\ fact.attribute = a /\ fact.superseded = Null
    /\ fact.file = This

IsCurrent(fact, d, a) ==
    fact.deal = d /\ fact.attribute = a /\ fact.superseded = Null

\* Mutant: every earlier fact of the attribute is marked, not the current one.
SupersedingAll(d, a, at) ==
    [i \in DOMAIN facts |->
        IF facts[i].deal = d /\ facts[i].attribute = a
        THEN [facts[i] EXCEPT !.superseded = at]
        ELSE facts[i]]

Superseding(d, a, at) ==
    [i \in DOMAIN facts |->
        IF IsCurrent(facts[i], d, a)
        THEN [facts[i] EXCEPT !.superseded = at]
        ELSE facts[i]]

\* A handover begins with the instant that both its statements use, and which is past
\* when they are written.
BeginHandover ==
    /\ At("extract")
    /\ MoreFound
    /\ Found # Decision
    /\ pass' = [pass EXCEPT !.pc = "supersede", !.at = clock]
    /\ UNCHANGED <<world, tables, passes, crashes>>

Supersede ==
    /\ At("supersede")
    /\ facts' = Superseding(pass.deal, Found, pass.at)
    /\ Goto("insert")
    /\ UNCHANGED <<world, landed, kept, decided, passes, crashes>>

\* Mutant: the fact is recorded when it is inserted.
RecordedNow == clock

RecordedAt == pass.at

InsertFact ==
    /\ At("insert")
    /\ facts' = Append(facts, [deal |-> pass.deal, attribute |-> Found, file |-> This,
                               recorded |-> RecordedAt, superseded |-> Null])
    /\ pass' = [pass EXCEPT !.pc = "extract", !.place = @ + 1]
    /\ UNCHANGED <<world, landed, kept, decided, passes, crashes>>

Extracted ==
    /\ At("extract")
    /\ ~ MoreFound
    /\ Goto("project")
    /\ UNCHANGED <<world, tables, passes, crashes>>

-----------------------------------------------------------------------------
(* Stage 6: project.                                                       *)

\* Mutant: an event without an entity is skipped by the stage.
ProjectLinked == IF pass.deal = NoDeal THEN UNCHANGED kept ELSE Keep(This, "chunks")

Chunks == Keep(This, "chunks")

Project ==
    /\ At("project")
    /\ Chunks
    /\ TakeUp(pass.todo)
    /\ UNCHANGED <<world, landed, facts, decided, passes, crashes>>

-----------------------------------------------------------------------------
(* The process and the world.                                              *)

Crash ==
    /\ ~ At("idle")
    /\ crashes < MaxCrashes
    /\ crashes' = crashes + 1
    /\ pass' = NoPass
    /\ UNCHANGED <<world, tables, passes>>

Arrive(f) ==
    /\ f \notin files
    /\ files' = files \cup {f}
    /\ UNCHANGED <<clock, tables, pass, passes, crashes>>

Tick ==
    /\ clock < LastTime
    /\ clock' = clock + 1
    /\ UNCHANGED <<files, tables, pass, passes, crashes>>

RunPipeline ==
    \/ Land \/ Sort
    \/ Parse \/ ClassifyEvent \/ Resolve
    \/ RecordDecision \/ BeginHandover \/ Supersede \/ InsertFact \/ Extracted
    \/ Project

Next ==
    \/ Begin
    \/ RunPipeline
    \/ Crash
    \/ Tick
    \/ \E f \in File : Arrive(f)

\* A pass that has begun goes on unless it dies.
Spec == Init /\ [][Next]_vars /\ WF_vars(RunPipeline)

-----------------------------------------------------------------------------
(* The read of the compiler.                                               *)

\* The facts a read as of t selects for an attribute of a deal.
FactsAt(t, d, a) ==
    {i \in DOMAIN facts :
        /\ facts[i].deal = d
        /\ facts[i].attribute = a
        /\ facts[i].recorded <= t
        /\ facts[i].superseded = Null \/ facts[i].superseded > t}

-----------------------------------------------------------------------------
(* Properties.                                                             *)

Fact == [deal : Deal, attribute : Attribute, file : File,
         recorded : 1 .. LastTime, superseded : 0 .. LastTime]

PassTypeOK ==
    /\ pass \in [pc : {"idle", "land", "parse", "classify", "resolve", "extract",
                        "supersede", "insert", "project"},
                  todo : SUBSET File, file : File \cup {0}, deal : Deal \cup {NoDeal},
                  place : Nat \ {0}, at : 0 .. LastTime]
    /\ ~ At("idle") /\ ~ At("land") => This \in File
    /\ At("supersede") \/ At("insert") => MoreFound /\ Found # Decision /\ pass.at # 0

TypeOK ==
    /\ files \subseteq File
    /\ landed \in [File -> 0 .. MaxPasses]
    /\ kept \in [File -> SUBSET Table]
    /\ facts \in Seq(Fact)
    /\ decided \subseteq File \X Nat
    /\ PassTypeOK
    /\ clock \in 1 .. LastTime
    /\ passes \in 0 .. MaxPasses
    /\ crashes \in 0 .. MaxCrashes

\* A handover of a and d that is under way, from its instant to its second statement.
HandingOver(d, a) ==
    (At("supersede") \/ At("insert")) /\ pass.deal = d /\ Found = a

\* "A read as of any instant returns exactly one of them": never two, whatever
\* pass died between the two statements of a handover.
NeverTwoFacts ==
    \A t \in 1 .. clock, d \in Deal, a \in Attribute :
        \A i, j \in FactsAt(t, d, a) : i = j

\* "And there is never a gap between the two": where no pass died, an instant
\* after the first fact of an attribute has one, except those that a handover
\* between its two statements has yet to fill.
NeverAGap ==
    crashes = 0 => \A t \in 1 .. clock, i \in DOMAIN facts :
        LET d == facts[i].deal
            a == facts[i].attribute IN
        facts[i].recorded <= t => \/ FactsAt(t, d, a) # {}
                                  \/ HandingOver(d, a) /\ At("insert") /\ t >= pass.at

\* What is past of a and d: an instant before now, for which no handover under way
\* takes effect.
Past(t, d, a) == t < clock /\ ~ (HandingOver(d, a) /\ t >= pass.at)

\* The past does not change: a read as of an instant that is past gives the same
\* facts ever after, so the same task at the same instant compiles to a bundle of the
\* same facts (its passages are those of the moment).  An instant is not past while
\* a handover that has taken it, or one before it, has still to write: a read as of
\* then finds the older fact first, none next, and the newer at last.
PastIsStable ==
    [][\A t \in 1 .. LastTime, d \in Deal, a \in Attribute :
           Past(t, d, a) => Past(t, d, a)' /\ FactsAt(t, d, a)' = FactsAt(t, d, a)]_vars

\* Two facts of one attribute from files that the same pass landed.
Rivals(i, j) ==
    /\ facts[j].deal = facts[i].deal
    /\ facts[j].attribute = facts[i].attribute
    /\ landed[facts[j].file] = landed[facts[i].file]

\* "The later fact must be the one that supersedes": of the files a pass landed,
\* the fact that stands is of the one the world produced last.
LatestStands ==
    At("idle") => \A i, j \in DOMAIN facts :
        facts[i].superseded = Null /\ Rivals(i, j)
            => Occurred[facts[j].file] <= Occurred[facts[i].file]

\* A later pass over the same files, also one after a pass that died, writes no
\* fact a second time.
FactsWrittenOnce ==
    \A f \in File, a \in Attribute :
        Cardinality({i \in DOMAIN facts : facts[i].file = f /\ facts[i].attribute = a})
            <= Cardinality({k \in DOMAIN Finds[f] : Finds[f][k] = a})

\* "Everything is landed and projected": an event that is landed gets its chunks,
\* whether or not it belongs to a deal, unless a pass dies.
LandedIsProjected ==
    \A f \in File : landed[f] > 0 ~> "chunks" \in kept[f] \/ crashes > 0

\* "Two possible deals is a question for a person, not a guess": no fact of a deal
\* comes from a file that is in quarantine.
QuarantineIsNotGuessed == \A i \in DOMAIN facts : ~ Quarantined(facts[i].file)

=============================================================================
