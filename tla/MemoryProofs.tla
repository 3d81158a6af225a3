---------------------------- MODULE MemoryProofs ----------------------------
(***************************************************************************)
(* Proofs about Memory for any files, deals, attributes and bounds: what a *)
(* read as of an instant selects is a single fact, and stays what it was,  *)
(* and no instant is without one unless a pass died.  These follow from    *)
(* Timeline: the facts of an attribute end in the order in which they are  *)
(* recorded, each no later than the next begins.  That nothing is written  *)
(* twice and that the latest document stands follow from WorkIsInOrder:    *)
(* what a pass has before it has not been written, and is later than what  *)
(* the pass has written.                                                   *)
(*                                                                         *)
(* What the integrity suite reports is what it should be because each      *)
(* stage of a pass finds what the one before it kept (Staged), and no      *)
(* event is left behind but by a death (NoneIsForgotten).                  *)
(*                                                                         *)
(* What an answer quotes is what its question reads because sorting by     *)
(* rank lists a set (ByRank), one attribute of a deal has one fact at an   *)
(* instant, and a score grows with each rank it is of (BetterScores).      *)
(***************************************************************************)
EXTENDS Integrity, FiniteSetTheorems, TLAPS

\* The steps of a pass that write no fact.
Quietly ==
    \/ Begin \/ Land \/ Sort \/ Parse \/ ClassifyEvent \/ Resolve
    \/ RecordDecision \/ Extracted \/ Project \/ Crash \/ Tick
    \/ \E f \in File : Arrive(f)

LEMMA NextIsOneOf == Next <=> Quietly \/ BeginHandover \/ Supersede \/ InsertFact
BY DEF Next, RunPipeline, Quietly

-----------------------------------------------------------------------------
(* Types.                                                                  *)

\* Taking up the next event leaves a well typed pass.
LEMMA TakeUpType ==
    ASSUME NEW todo \in SUBSET File, TakeUp(todo)
    PROVE  PassTypeOK'
<1>1. CASE todo = {} /\ pass' = NoPass
  BY <1>1, MemoryAssumption DEF NoPass, PassTypeOK, At, This
<1>2. ASSUME NEW f \in todo,
             pass' = [NoPass EXCEPT !.pc = "parse", !.file = f, !.todo = todo \ {f}]
      PROVE  PassTypeOK'
  <2>1. pass' = [pc |-> "parse", todo |-> todo \ {f}, file |-> f, deal |-> NoDeal,
                 place |-> 1, at |-> 0]
    BY <1>2 DEF NoPass
  <2>2. f \in File /\ todo \ {f} \in SUBSET File
    BY <1>2
  <2> QED
    BY <2>1, <2>2, MemoryAssumption DEF PassTypeOK, At, This
<1> QED
  BY <1>1, <1>2 DEF TakeUp

\* What an extractor found and is about to be written is an attribute.
LEMMA FoundType ==
    ASSUME TypeOK, MoreFound, This \in File
    PROVE  /\ Found \in Attribute \cup {Decision}
           /\ pass.deal \in Deal
BY MemoryAssumption DEF TypeOK, PassTypeOK, MoreFound, Found

LEMMA SupersedingType ==
    ASSUME TypeOK, NEW d, NEW a, NEW at \in 0 .. LastTime
    PROVE  /\ Superseding(d, a, at) \in Seq(Fact)
           /\ Len(Superseding(d, a, at)) = Len(facts)
           /\ DOMAIN Superseding(d, a, at) = DOMAIN facts
<1>1. facts \in Seq(Fact) /\ DOMAIN facts = 1 .. Len(facts) /\ Len(facts) \in Nat
  BY DEF TypeOK
<1>2. \A i \in 1 .. Len(facts) : facts[i] \in Fact
  BY <1>1
<1>3. \A i \in 1 .. Len(facts) : [facts[i] EXCEPT !.superseded = at] \in Fact
  BY <1>2 DEF Fact
<1>4. Superseding(d, a, at) \in [1 .. Len(facts) -> Fact]
  BY <1>1, <1>2, <1>3 DEF Superseding
<1> QED
  BY <1>1, <1>4 DEF Superseding

\* The types survive every step.
LEMMA TypeStep == TypeOK /\ [Next]_vars => TypeOK'
<1> SUFFICES ASSUME TypeOK, [Next]_vars PROVE TypeOK'
  OBVIOUS
<1> USE MemoryAssumption DEF TypeOK, world, tables
<1>1. CASE Begin
  <2>1. pass' = [pc |-> "land", todo |-> files, file |-> 0, deal |-> NoDeal,
                 place |-> 1, at |-> 0]
    BY <1>1 DEF Begin, NoPass
  <2>2. PassTypeOK'
    BY <2>1 DEF PassTypeOK, At, This
  <2>3. passes' \in 0 .. MaxPasses
    BY <1>1 DEF Begin
  <2> QED
    BY <1>1, <2>2, <2>3 DEF Begin
<1>2. CASE Land
  <2>1. PICK f \in pass.todo : /\ landed' = Landing(f)
                               /\ pass' = [pass EXCEPT !.todo = @ \ {f}]
    BY <1>2 DEF Land
  <2>2. PassTypeOK'
    BY <1>2, <2>1 DEF Land, PassTypeOK, At, This
  <2>3. f \in File
    BY <2>1 DEF PassTypeOK
  <2>4. landed' \in [File -> 0 .. MaxPasses]
    BY <2>1, <2>3 DEF Landing
  <2> QED
    BY <1>2, <2>2, <2>4 DEF Land
<1>3. CASE Sort
  <2>1. {f \in File : landed[f] = passes} \in SUBSET File
    OBVIOUS
  <2>2. PassTypeOK'
    BY <1>3, <2>1, TakeUpType DEF Sort
  <2> QED
    BY <1>3, <2>2 DEF Sort
<1>4. CASE Parse
  BY <1>4 DEF Parse, Keep, Goto, PassTypeOK, At, This, Table
<1>5. CASE ClassifyEvent
  BY <1>5 DEF ClassifyEvent, Keep, Goto, PassTypeOK, At, This, Table
<1>6. CASE Resolve
  <2>1. Resolved(This) \subseteq Deal
    BY <1>6 DEF Resolve, Resolved, PassTypeOK, At, This
  <2>2. PICK d \in Deal \cup {NoDeal} :
            pass' = [pass EXCEPT !.pc = "extract", !.deal = d]
    BY <1>6, <2>1 DEF Resolve
  <2>3. PassTypeOK' /\ This \in File
    BY <1>6, <2>2 DEF Resolve, PassTypeOK, At, This
  <2> QED
    BY <1>6, <2>3 DEF Resolve, Keep, Table
<1>7. CASE RecordDecision
  <2>1. pass' = [pc |-> "extract", todo |-> pass.todo, file |-> pass.file,
                 deal |-> pass.deal, place |-> pass.place + 1, at |-> pass.at]
    BY <1>7 DEF RecordDecision, PassTypeOK, At
  <2>2. This \in File /\ pass.place \in Nat
    BY <1>7 DEF RecordDecision, PassTypeOK, At, This
  <2>3. PassTypeOK'
    BY <2>1, <2>2 DEF PassTypeOK, At, This
  <2>4. decided' \subseteq File \X Nat
    BY <1>7, <2>2 DEF RecordDecision
  <2> QED
    BY <1>7, <2>3, <2>4 DEF RecordDecision
<1>8. CASE Supersede
  <2>1. This \in File /\ MoreFound /\ Found # Decision /\ pass.at # 0
    BY <1>8 DEF Supersede, PassTypeOK, At, This
  <2>2. pass.at \in 0 .. LastTime
    BY DEF PassTypeOK
  <2>3. facts' \in Seq(Fact)
    BY <1>8, <2>2, SupersedingType DEF Supersede
  <2>4. pass' = [pc |-> "insert", todo |-> pass.todo, file |-> pass.file,
                 deal |-> pass.deal, place |-> pass.place, at |-> pass.at]
    BY <1>8 DEF Supersede, Goto, PassTypeOK
  <2>5. MoreFound' /\ Found' = Found
    BY <2>1, <2>4 DEF MoreFound, Found, This
  <2>6. PassTypeOK'
    BY <2>1, <2>2, <2>4, <2>5 DEF PassTypeOK, At, This
  <2> QED
    BY <1>8, <2>3, <2>6 DEF Supersede
<1>9. CASE InsertFact
  <2>1. At("insert") /\ This \in File /\ MoreFound /\ Found # Decision /\ pass.at # 0
    BY <1>9 DEF InsertFact, PassTypeOK, At, This
  <2>2. pass.deal \in Deal /\ Found \in Attribute
    BY <2>1, FoundType
  <2>3. pass.at \in 1 .. LastTime
    BY <2>1 DEF PassTypeOK
  <2>4. [deal |-> pass.deal, attribute |-> Found, file |-> This,
         recorded |-> RecordedAt, superseded |-> Null] \in Fact
    BY <2>1, <2>2, <2>3 DEF Fact, RecordedAt, Null
  <2>5. facts' \in Seq(Fact)
    BY <1>9, <2>4 DEF InsertFact
  <2>6. pass' = [pc |-> "extract", todo |-> pass.todo, file |-> pass.file,
                 deal |-> pass.deal, place |-> pass.place + 1, at |-> pass.at]
    BY <1>9 DEF InsertFact, PassTypeOK
  <2>7. PassTypeOK'
    BY <2>1, <2>6 DEF PassTypeOK, At, This
  <2> QED
    BY <1>9, <2>5, <2>7 DEF InsertFact
<1>10. CASE Extracted
  BY <1>10 DEF Extracted, Goto, PassTypeOK, At, This
<1>11. CASE Project
  <2>1. pass.todo \in SUBSET File /\ This \in File
    BY <1>11 DEF Project, PassTypeOK, At, This
  <2>2. PassTypeOK'
    BY <1>11, <2>1, TakeUpType DEF Project
  <2> QED
    BY <1>11, <2>1, <2>2 DEF Project, Chunks, Keep, Table
<1>12. CASE Crash
  BY <1>12 DEF Crash, NoPass, PassTypeOK, At, This
<1>13. CASE Tick
  BY <1>13 DEF Tick, PassTypeOK, At, This, MoreFound, Found
<1>14. ASSUME NEW f \in File, Arrive(f) PROVE TypeOK'
  BY <1>14 DEF Arrive, PassTypeOK, At, This, MoreFound, Found
<1>15. CASE UNCHANGED vars
  BY <1>15 DEF vars, PassTypeOK, At, This, MoreFound, Found
<1>16. CASE BeginHandover
  <2>1. This \in File
    BY <1>16 DEF BeginHandover, PassTypeOK, At, This
  <2>2. MoreFound /\ Found # Decision /\ clock \in 0 .. LastTime /\ clock # 0
    BY <1>16 DEF BeginHandover
  <2>3. pass' = [pc |-> "supersede", todo |-> pass.todo, file |-> pass.file,
                 deal |-> pass.deal, place |-> pass.place, at |-> clock]
    BY <1>16 DEF BeginHandover, PassTypeOK
  <2>4. MoreFound' /\ Found' = Found
    BY <2>2, <2>3, <1>16 DEF BeginHandover, MoreFound, Found, This
  <2>5. PassTypeOK'
    BY <2>1, <2>2, <2>3, <2>4 DEF PassTypeOK, At, This
  <2> QED
    BY <1>16, <2>5 DEF BeginHandover
<1> QED
  BY <1>1, <1>2, <1>3, <1>4, <1>5, <1>6, <1>7, <1>8, <1>9, <1>10, <1>11, <1>12,
     <1>13, <1>14, <1>15, <1>16 DEF Next, RunPipeline

\* Every table and the pass under way keep their types: Memory's type invariant.
THEOREM TypeCorrect == Spec => []TypeOK
<1>1. Init => TypeOK
  BY MemoryAssumption DEF Init, TypeOK, PassTypeOK, NoPass, At, This
<1> QED
  BY <1>1, TypeStep, PTL DEF Spec

-----------------------------------------------------------------------------
(* The timeline of an attribute.                                           *)

OfAttribute(i, d, a) == facts[i].deal = d /\ facts[i].attribute = a

EndsBy(i, t) == facts[i].superseded # Null /\ facts[i].superseded <= t

NothingIsAhead ==
    \A i \in DOMAIN facts : facts[i].recorded <= clock /\ facts[i].superseded <= clock

EndsByTheNext ==
    \A i, j \in DOMAIN facts :
        i < j /\ OfAttribute(i, facts[j].deal, facts[j].attribute)
            => EndsBy(i, facts[j].recorded)

\* Nothing is written between the instant of a handover and its first statement, and
\* between its two statements all there is has ended by its instant.
HandoverIsReady ==
    /\ At("supersede") \/ At("insert") => pass.at <= clock
    /\ At("supersede") =>
           \A i \in DOMAIN facts : facts[i].recorded <= pass.at /\ facts[i].superseded <= pass.at
    /\ At("insert") =>
           \A i \in DOMAIN facts : OfAttribute(i, pass.deal, Found) => EndsBy(i, pass.at)

Timeline == NothingIsAhead /\ EndsByTheNext /\ HandoverIsReady

\* A supersession ends the current facts of an attribute and changes nothing else.
LEMMA SupersedingEnds ==
    ASSUME TypeOK, NEW d, NEW a, NEW at \in 0 .. LastTime, NEW i \in DOMAIN facts
    PROVE  LET after == Superseding(d, a, at)[i] IN
           /\ after.deal = facts[i].deal
           /\ after.attribute = facts[i].attribute
           /\ after.file = facts[i].file
           /\ after.recorded = facts[i].recorded
           /\ after.superseded = IF IsCurrent(facts[i], d, a) THEN at
                                 ELSE facts[i].superseded
<1>1. facts[i] \in Fact
  BY DEF TypeOK
<1>2. Superseding(d, a, at)[i] = IF IsCurrent(facts[i], d, a)
                                 THEN [facts[i] EXCEPT !.superseded = at]
                                 ELSE facts[i]
  BY DEF Superseding
<1> QED
  BY <1>1, <1>2 DEF Fact

LEMMA FactType ==
    ASSUME TypeOK, NEW i \in DOMAIN facts
    PROVE  /\ i \in 1 .. Len(facts) /\ i \in Nat
           /\ facts[i].file \in File
           /\ facts[i].recorded \in 1 .. LastTime
           /\ facts[i].superseded \in 0 .. LastTime
<1>1. facts[i] \in Fact /\ i \in 1 .. Len(facts)
  BY DEF TypeOK
<1> QED
  BY <1>1 DEF Fact

\* What a handover that begins takes with it.
LEMMA BeginWrites ==
    ASSUME TypeOK, BeginHandover
    PROVE  /\ At("extract") /\ UNCHANGED <<world, tables, passes, crashes>>
           /\ pass'.pc = "supersede" /\ pass'.at = clock /\ pass'.deal = pass.deal
           /\ pass'.file = pass.file /\ pass'.place = pass.place /\ pass'.todo = pass.todo
           /\ Found' = Found
<1>1. /\ pass'.pc = "supersede" /\ pass'.at = clock /\ pass'.deal = pass.deal
      /\ pass'.file = pass.file /\ pass'.place = pass.place /\ pass'.todo = pass.todo
  BY DEF BeginHandover, TypeOK, PassTypeOK
<1> QED
  BY <1>1 DEF BeginHandover, Found, This

LEMMA BeginKeepsTimeline ==
    ASSUME TypeOK, Timeline, BeginHandover
    PROVE  Timeline'
<1>1. facts' = facts /\ clock' = clock /\ pass'.pc = "supersede" /\ pass'.at = clock
  BY BeginWrites DEF world, tables
<1>2. clock \in Nat
  BY MemoryAssumption DEF TypeOK
<1> QED
  BY <1>1, <1>2
     DEF Timeline, NothingIsAhead, EndsByTheNext, HandoverIsReady, OfAttribute, EndsBy, At

\* The first statement of a handover: what was current ends by its instant.
LEMMA SupersedeWrites ==
    ASSUME TypeOK, Supersede
    PROVE  /\ At("supersede") /\ UNCHANGED <<world, landed, kept, decided, passes, crashes>>
           /\ pass'.pc = "insert" /\ pass'.at = pass.at /\ pass'.deal = pass.deal
           /\ pass'.file = pass.file /\ pass'.place = pass.place /\ pass'.todo = pass.todo
           /\ Found' = Found /\ pass.at \in Nat /\ pass.at # 0
           /\ DOMAIN facts' = DOMAIN facts
           /\ \A i \in DOMAIN facts :
                  /\ facts'[i].deal = facts[i].deal
                  /\ facts'[i].attribute = facts[i].attribute
                  /\ facts'[i].file = facts[i].file
                  /\ facts'[i].recorded = facts[i].recorded
                  /\ facts'[i].superseded =
                         IF IsCurrent(facts[i], pass.deal, Found) THEN pass.at
                         ELSE facts[i].superseded
<1>1. pass.at \in 0 .. LastTime /\ pass.at # 0 /\ pass.at \in Nat /\ At("supersede")
  BY MemoryAssumption DEF Supersede, TypeOK, PassTypeOK
<1>2. /\ pass'.pc = "insert" /\ pass'.at = pass.at /\ pass'.deal = pass.deal
      /\ pass'.file = pass.file /\ pass'.place = pass.place /\ pass'.todo = pass.todo
  BY DEF Supersede, Goto, TypeOK, PassTypeOK
<1>3. Found' = Found
  BY <1>2 DEF Found, This
<1>4. facts' = Superseding(pass.deal, Found, pass.at) /\ DOMAIN facts' = DOMAIN facts
  BY <1>1, SupersedingType DEF Supersede
<1>5. \A i \in DOMAIN facts :
          LET after == Superseding(pass.deal, Found, pass.at)[i] IN
          /\ after.deal = facts[i].deal
          /\ after.attribute = facts[i].attribute
          /\ after.file = facts[i].file
          /\ after.recorded = facts[i].recorded
          /\ after.superseded = IF IsCurrent(facts[i], pass.deal, Found) THEN pass.at
                                ELSE facts[i].superseded
  BY <1>1, SupersedingEnds
<1> QED
  BY <1>1, <1>2, <1>3, <1>4, <1>5 DEF Supersede

LEMMA SupersedeKeepsTimeline ==
    ASSUME TypeOK, Timeline, Supersede
    PROVE  Timeline'
<1>1. /\ clock \in Nat /\ clock' = clock /\ pass.at \in Nat /\ pass.at # 0 /\ pass.at <= clock
      /\ DOMAIN facts' = DOMAIN facts
      /\ \A i \in DOMAIN facts : facts[i].recorded <= pass.at /\ facts[i].superseded <= pass.at
  BY SupersedeWrites, MemoryAssumption DEF TypeOK, world, Timeline, HandoverIsReady
<1>2. \A i \in DOMAIN facts :
          /\ facts'[i].deal = facts[i].deal
          /\ facts'[i].attribute = facts[i].attribute
          /\ facts'[i].recorded = facts[i].recorded
          /\ facts'[i].superseded = IF IsCurrent(facts[i], pass.deal, Found) THEN pass.at
                                    ELSE facts[i].superseded
  BY SupersedeWrites
<1>3. \A i \in DOMAIN facts : /\ facts[i].recorded \in 1 .. LastTime
                              /\ facts[i].superseded \in 0 .. LastTime
  BY FactType
<1>4. NothingIsAhead'
  BY <1>1, <1>2, <1>3 DEF Timeline, NothingIsAhead
<1>5. EndsByTheNext'
  BY <1>1, <1>2, <1>3
     DEF Timeline, EndsByTheNext, OfAttribute, EndsBy, IsCurrent, Null
<1>6. /\ pass'.at = pass.at /\ pass'.deal = pass.deal /\ pass'.pc = "insert" /\ Found' = Found
  BY SupersedeWrites
<1>7. \A i \in DOMAIN facts :
          facts[i].deal = pass.deal /\ facts[i].attribute = Found
              => facts'[i].superseded # 0 /\ facts'[i].superseded <= pass.at
  BY <1>1, <1>2, <1>3 DEF IsCurrent, Null
<1>8. HandoverIsReady'
  BY <1>1, <1>2, <1>6, <1>7 DEF HandoverIsReady, OfAttribute, EndsBy, Null, At
<1> QED
  BY <1>4, <1>5, <1>8 DEF Timeline

\* The second statement: what it adds is the last of its timeline.
LEMMA Inserted ==
    ASSUME TypeOK, InsertFact
    PROVE  /\ DOMAIN facts' = 1 .. Len(facts) + 1
           /\ Len(facts) \in Nat
           /\ \A i \in DOMAIN facts : facts'[i] = facts[i]
           /\ facts'[Len(facts) + 1] =
                  [deal |-> pass.deal, attribute |-> Found, file |-> This,
                   recorded |-> pass.at, superseded |-> Null]
BY DEF TypeOK, InsertFact, RecordedAt

LEMMA InsertKeepsTimeline ==
    ASSUME TypeOK, Timeline, InsertFact
    PROVE  Timeline'
<1> DEFINE n == Len(facts) + 1
<1>1. /\ DOMAIN facts' = 1 .. n /\ DOMAIN facts = 1 .. Len(facts) /\ Len(facts) \in Nat
      /\ \A i \in DOMAIN facts : facts'[i] = facts[i]
      /\ facts'[n].deal = pass.deal /\ facts'[n].attribute = Found
      /\ facts'[n].recorded = pass.at /\ facts'[n].superseded = 0
  BY Inserted DEF TypeOK, Null
<1>2. \A i \in DOMAIN facts' : i # n => i \in DOMAIN facts
  BY <1>1
<1>3. At("insert") /\ clock' = clock /\ clock \in Nat /\ pass.at <= clock
  BY MemoryAssumption DEF InsertFact, TypeOK, world, Timeline, HandoverIsReady
<1>4. NothingIsAhead'
  BY <1>1, <1>2, <1>3 DEF Timeline, NothingIsAhead
<1>5. EndsByTheNext'
  <2> SUFFICES ASSUME NEW i \in DOMAIN facts', NEW j \in DOMAIN facts', i < j,
                      OfAttribute(i, facts[j].deal, facts[j].attribute)'
               PROVE  EndsBy(i, facts[j].recorded)'
    BY DEF EndsByTheNext
  <2>1. i \in DOMAIN facts
    BY <1>1, <1>2
  <2>2. CASE j = n
    BY <1>1, <1>3, <2>1, <2>2 DEF Timeline, HandoverIsReady, OfAttribute, EndsBy
  <2>3. CASE j # n
    BY <1>1, <1>2, <2>1, <2>3 DEF Timeline, EndsByTheNext, OfAttribute, EndsBy
  <2> QED
    BY <2>2, <2>3
<1>6. HandoverIsReady'
  BY DEF InsertFact, TypeOK, PassTypeOK, HandoverIsReady, At
<1> QED
  BY <1>4, <1>5, <1>6 DEF Timeline

\* No other step writes a fact, turns the clock back or moves a handover on.
LEMMA QuietlyWritesNoFact ==
    ASSUME TypeOK, Quietly \/ UNCHANGED vars
    PROVE  /\ facts' = facts
           /\ clock' \in Nat /\ clock <= clock'
           /\ At("supersede")' \/ At("insert")' => pass' = pass
<1>1. ASSUME NEW todo, TakeUp(todo) PROVE pass'.pc \notin {"supersede", "insert"}
  <2>1. CASE pass' = NoPass
    BY <2>1 DEF NoPass
  <2>2. ASSUME NEW f,
               pass' = [NoPass EXCEPT !.pc = "parse", !.file = f, !.todo = todo \ {f}]
        PROVE  pass'.pc \notin {"supersede", "insert"}
    BY <2>2 DEF NoPass
  <2> QED
    BY <1>1, <2>1, <2>2 DEF TakeUp
<1>2. clock \in Nat /\ LastTime \in Nat /\ "pc" \in DOMAIN pass
  BY MemoryAssumption DEF TypeOK, PassTypeOK
<1>3. CASE Begin
  BY <1>2, <1>3 DEF Begin, NoPass, At, world, tables
<1>4. CASE Land
  BY <1>2, <1>4 DEF Land, At, world
<1>5. CASE Sort
  BY <1>1, <1>2, <1>5 DEF Sort, At, world, tables
<1>6. CASE Parse
  BY <1>2, <1>6 DEF Parse, Goto, At, world
<1>7. CASE ClassifyEvent
  BY <1>2, <1>7 DEF ClassifyEvent, Goto, At, world
<1>8. CASE Resolve
  <2>1. PICK d : pass' = [pass EXCEPT !.pc = "extract", !.deal = d]
    BY <1>8 DEF Resolve
  <2> QED
    BY <1>2, <1>8, <2>1 DEF Resolve, At, world
<1>9. CASE RecordDecision
  BY <1>2, <1>9 DEF RecordDecision, At, world
<1>10. CASE Extracted
  BY <1>2, <1>10 DEF Extracted, Goto, At, world, tables
<1>11. CASE Project
  BY <1>1, <1>2, <1>11 DEF Project, At, world
<1>12. CASE Crash
  BY <1>2, <1>12 DEF Crash, NoPass, At, world, tables
<1>13. CASE Tick
  BY <1>2, <1>13 DEF Tick, tables
<1>14. ASSUME NEW f \in File, Arrive(f)
       PROVE  facts' = facts /\ clock' = clock /\ pass' = pass
  BY <1>14 DEF Arrive, tables
<1>15. CASE UNCHANGED vars
  BY <1>2, <1>15 DEF vars, world, tables
<1> QED
  BY <1>2, <1>3, <1>4, <1>5, <1>6, <1>7, <1>8, <1>9, <1>10, <1>11, <1>12, <1>13,
     <1>14, <1>15 DEF Quietly

LEMMA QuietlyKeepsTimeline ==
    ASSUME TypeOK, Timeline, Quietly \/ UNCHANGED vars
    PROVE  Timeline'
<1>1. /\ facts' = facts
      /\ clock \in Nat /\ clock' \in Nat /\ clock <= clock'
      /\ At("supersede")' \/ At("insert")' => pass' = pass
  BY QuietlyWritesNoFact DEF TypeOK
<1>2. \A i \in DOMAIN facts : facts[i].recorded \in Nat /\ facts[i].superseded \in Nat
  BY FactType, MemoryAssumption
<1>3. NothingIsAhead'
  BY <1>1, <1>2 DEF Timeline, NothingIsAhead
<1>4. EndsByTheNext'
  BY <1>1 DEF Timeline, EndsByTheNext, OfAttribute, EndsBy
<1>5. pass.at \in Nat
  BY MemoryAssumption DEF TypeOK, PassTypeOK
<1>6. HandoverIsReady'
  BY <1>1, <1>5 DEF Timeline, HandoverIsReady, OfAttribute, EndsBy, At, Found, This
<1> QED
  BY <1>3, <1>4, <1>6 DEF Timeline

LEMMA TimelineStep == TypeOK /\ Timeline /\ [Next]_vars => Timeline'
BY NextIsOneOf, QuietlyKeepsTimeline, BeginKeepsTimeline, SupersedeKeepsTimeline, InsertKeepsTimeline

LEMMA TimelineAlways == Spec => [](TypeOK /\ Timeline)
<1>1. Init => TypeOK /\ Timeline
  <2>1. Init => TypeOK
    BY MemoryAssumption DEF Init, TypeOK, PassTypeOK, NoPass, At, This
  <2>2. Init => Timeline
    BY DEF Init, NoPass, At, Timeline, NothingIsAhead, EndsByTheNext, HandoverIsReady
  <2> QED
    BY <2>1, <2>2
<1> QED
  BY <1>1, TypeStep, TimelineStep, PTL DEF Spec

-----------------------------------------------------------------------------
(* What a read selects.                                                    *)

\* "A read as of any instant returns exactly one of them": no instant has two facts
\* of an attribute, whatever pass died between the statements of a handover.
THEOREM NeverTwo == Spec => []NeverTwoFacts
<1>1. TypeOK /\ Timeline => NeverTwoFacts
  <2> SUFFICES ASSUME TypeOK, Timeline,
                      NEW t \in 1 .. clock, NEW d \in Deal, NEW a \in Attribute
               PROVE  \A i, j \in FactsAt(t, d, a) : i = j
    BY DEF NeverTwoFacts
  <2>1. \A k \in FactsAt(t, d, a) : k \in Int
    BY FactType DEF FactsAt
  <2>2. ASSUME NEW i \in FactsAt(t, d, a), NEW j \in FactsAt(t, d, a), i < j
        PROVE  FALSE
    <3>1. /\ i \in DOMAIN facts /\ j \in DOMAIN facts
          /\ OfAttribute(i, facts[j].deal, facts[j].attribute)
          /\ facts[j].recorded <= t
          /\ facts[i].superseded = Null \/ facts[i].superseded > t
      BY DEF FactsAt, OfAttribute
    <3>2. facts[i].superseded # Null /\ facts[i].superseded <= facts[j].recorded
      BY <2>2, <3>1 DEF Timeline, EndsByTheNext, EndsBy
    <3>3. facts[j].recorded \in Int /\ facts[i].superseded \in Int
      BY <3>1, FactType
    <3>4. t \in Int
      OBVIOUS
    <3> QED
      BY <3>1, <3>2, <3>3, <3>4
  <2> QED
    BY <2>1, <2>2
<1> QED
  BY <1>1, TimelineAlways, PTL

\* The past does not change: what a read as of an instant selects stays what it is
\* once the instant is past, which it is when no handover that has taken it, or one
\* before it, has still to write; and what is past remains so.
THEOREM PastStands == Spec => PastIsStable
<1>1. TypeOK /\ Timeline /\ [Next]_vars =>
          [\A t \in 1 .. LastTime, d \in Deal, a \in Attribute :
               Past(t, d, a) => Past(t, d, a)' /\ FactsAt(t, d, a)' = FactsAt(t, d, a)]_vars
  <2> SUFFICES ASSUME TypeOK, Timeline, Next,
                      NEW t \in 1 .. LastTime, NEW d \in Deal, NEW a \in Attribute,
                      Past(t, d, a)
               PROVE  Past(t, d, a)' /\ FactsAt(t, d, a)' = FactsAt(t, d, a)
    OBVIOUS
  <2>0. /\ t < clock /\ ~ (HandingOver(d, a) /\ t >= pass.at)
        /\ t \in Int /\ clock \in Int /\ pass.at \in Int
    BY MemoryAssumption DEF Past, TypeOK, PassTypeOK
  <2>1. CASE Quietly
    <3>1. /\ facts' = facts /\ clock' \in Int /\ clock <= clock'
          /\ At("supersede")' \/ At("insert")' => pass' = pass
      BY <2>1, QuietlyWritesNoFact
    <3>2. HandingOver(d, a)' => HandingOver(d, a) /\ pass' = pass
      BY <3>1 DEF HandingOver, At, Found, This
    <3>3. Past(t, d, a)'
      BY <2>0, <3>1, <3>2 DEF Past
    <3> QED
      BY <3>1, <3>3 DEF FactsAt
  <2>2. CASE BeginHandover
    BY <2>0, <2>2, BeginWrites DEF Past, FactsAt, world, tables
  <2>3. CASE Supersede
    <3>1. /\ clock' = clock /\ pass'.at = pass.at /\ pass'.deal = pass.deal /\ Found' = Found
          /\ At("supersede") /\ DOMAIN facts' = DOMAIN facts
      BY <2>3, SupersedeWrites DEF world
    <3>2. Past(t, d, a)'
      BY <2>0, <3>1 DEF Past, HandingOver
    <3>3. \A i \in DOMAIN facts :
              /\ facts'[i].deal = facts[i].deal
              /\ facts'[i].attribute = facts[i].attribute
              /\ facts'[i].recorded = facts[i].recorded
              /\ facts'[i].superseded = IF IsCurrent(facts[i], pass.deal, Found)
                                        THEN pass.at ELSE facts[i].superseded
      BY <2>3, SupersedeWrites
    <3>4. pass.deal = d /\ Found = a => t < pass.at
      BY <2>0, <3>1 DEF HandingOver
    <3> QED
      BY <3>1, <3>2, <3>3, <3>4 DEF FactsAt, IsCurrent, Null
  <2>4. CASE InsertFact
    <3> DEFINE n == Len(facts) + 1
    <3>0. /\ DOMAIN facts = 1 .. Len(facts) /\ Len(facts) \in Nat
          /\ DOMAIN facts' = 1 .. Len(facts) + 1
      BY <2>4, Inserted DEF TypeOK
    <3>1. /\ DOMAIN facts' = DOMAIN facts \cup {n}
          /\ n \notin DOMAIN facts
          /\ \A i \in DOMAIN facts : facts'[i] = facts[i]
          /\ facts'[n].deal = pass.deal /\ facts'[n].attribute = Found
          /\ facts'[n].recorded = pass.at
      BY <2>4, <3>0, Inserted
    <3>2. At("insert") /\ clock' = clock /\ pass'.pc = "extract"
      BY <2>4 DEF InsertFact, TypeOK, PassTypeOK, world
    <3>3. ~ (/\ facts'[n].deal = d /\ facts'[n].attribute = a
             /\ facts'[n].recorded <= t)
      BY <2>0, <3>1, <3>2 DEF HandingOver
    <3>4. Past(t, d, a)'
      BY <2>0, <3>2 DEF Past, HandingOver, At
    <3> QED
      BY <3>1, <3>3, <3>4 DEF FactsAt
  <2> QED
    BY <2>1, <2>2, <2>3, <2>4, NextIsOneOf
<1> QED
  BY <1>1, TimelineAlways, PTL DEF Spec, PastIsStable

\* A step that writes no fact leaves a handover under way where it is, or the pass
\* died.
LEMMA QuietlyHandsOver ==
    ASSUME TypeOK, Quietly \/ UNCHANGED vars, At("insert")
    PROVE  pass' = pass \/ crashes' # 0
<1>1. "insert" \notin {"idle", "land", "parse", "classify", "resolve", "extract", "project"}
  OBVIOUS
<1>2. crashes \in Nat
  BY MemoryAssumption DEF TypeOK
<1> QED
  BY <1>1, <1>2 DEF Quietly, Begin, Land, Sort, Parse, ClassifyEvent, Resolve, RecordDecision,
     Extracted, Project, Crash, Tick, Arrive, At, vars

LEMMA GapStep == TypeOK /\ Timeline /\ NeverAGap /\ [Next]_vars => NeverAGap'
<1> SUFFICES ASSUME TypeOK, Timeline, NeverAGap, [Next]_vars, crashes' = 0,
                    NEW t \in 1 .. clock', NEW i \in DOMAIN facts', facts'[i].recorded <= t
             PROVE  \/ FactsAt(t, facts[i].deal, facts[i].attribute)' # {}
                    \/ /\ HandingOver(facts[i].deal, facts[i].attribute)'
                       /\ At("insert")' /\ t >= pass'.at
  BY DEF NeverAGap
<1>0. crashes = 0
  <2>1. CASE Crash
    BY <2>1, MemoryAssumption DEF Crash, TypeOK
  <2>2. CASE Sort \/ Parse \/ ClassifyEvent
    BY <2>2 DEF Sort, Parse, ClassifyEvent
  <2>3. CASE Land
    BY <2>3 DEF Land
  <2>4. CASE Resolve
    BY <2>4 DEF Resolve
  <2>5. CASE RecordDecision \/ BeginHandover \/ Supersede \/ InsertFact \/ Extracted \/ Project
    BY <2>5 DEF RecordDecision, BeginHandover, Supersede, InsertFact, Extracted, Project
  <2>6. CASE Begin \/ Tick \/ (\E f \in File : Arrive(f)) \/ UNCHANGED vars
    BY <2>6 DEF Begin, Tick, Arrive, vars
  <2> QED
    BY <2>1, <2>2, <2>3, <2>4, <2>5, <2>6 DEF Next, RunPipeline
<1>1. /\ clock \in Nat /\ clock # 0 /\ t \in Nat /\ t # 0 /\ LastTime \in Nat
      /\ clock \in 1 .. LastTime /\ clock \in 0 .. LastTime
  BY MemoryAssumption DEF TypeOK
<1>2. \A k \in DOMAIN facts : facts[k].recorded \in Nat /\ facts[k].superseded \in Nat
                              /\ facts[k].recorded <= clock /\ facts[k].superseded <= clock
  BY FactType, MemoryAssumption DEF Timeline, NothingIsAhead
<1>3. ASSUME NEW k \in DOMAIN facts, NEW u \in 1 .. clock, facts[k].recorded <= u
      PROVE  \/ \E j \in DOMAIN facts :
                    /\ OfAttribute(j, facts[k].deal, facts[k].attribute) /\ facts[j].recorded <= u
                    /\ facts[j].superseded = 0 \/ facts[j].superseded > u
             \/ HandingOver(facts[k].deal, facts[k].attribute) /\ At("insert") /\ u >= pass.at
  BY <1>0, <1>3 DEF NeverAGap, FactsAt, OfAttribute, Null
<1>4. CASE Quietly \/ UNCHANGED vars
  <2>1. facts' = facts /\ clock' \in Nat /\ clock <= clock'
    BY <1>4, QuietlyWritesNoFact
  <2>2. At("insert") => pass' = pass
    BY <1>4, QuietlyHandsOver
  <2>3. PICK u \in 1 .. clock : u <= t /\ facts[i].recorded <= u /\ (u = t \/ u = clock)
    BY <1>1, <1>2, <2>1
  <2>4. CASE HandingOver(facts[i].deal, facts[i].attribute) /\ At("insert") /\ u >= pass.at
    <3>1. pass' = pass /\ pass.at \in Nat
      BY <2>2, <2>4, MemoryAssumption DEF TypeOK, PassTypeOK
    <3>2. HandingOver(facts[i].deal, facts[i].attribute)' /\ At("insert")'
      BY <2>1, <2>4, <3>1 DEF HandingOver, At, Found, This
    <3> QED
      BY <1>1, <2>3, <2>4, <3>1, <3>2
  <2>5. ASSUME NEW j \in DOMAIN facts,
               OfAttribute(j, facts[i].deal, facts[i].attribute), facts[j].recorded <= u,
               facts[j].superseded = 0 \/ facts[j].superseded > u
        PROVE  FactsAt(t, facts[i].deal, facts[i].attribute)' # {}
    BY <1>1, <1>2, <2>1, <2>3, <2>5 DEF FactsAt, OfAttribute, Null
  <2> QED
    BY <1>3, <2>1, <2>3, <2>4, <2>5
<1>5. CASE Supersede
  <2>1. /\ DOMAIN facts' = DOMAIN facts /\ clock' = clock /\ ~ At("insert")
        /\ pass'.pc = "insert" /\ pass'.at = pass.at /\ pass'.deal = pass.deal /\ Found' = Found
        /\ pass.at \in Nat
    BY <1>5, SupersedeWrites DEF world, At
  <2>2. \A k \in DOMAIN facts :
            /\ facts'[k].deal = facts[k].deal
            /\ facts'[k].attribute = facts[k].attribute
            /\ facts'[k].recorded = facts[k].recorded
            /\ facts'[k].superseded = IF IsCurrent(facts[k], pass.deal, Found) THEN pass.at
                                      ELSE facts[k].superseded
    BY <1>5, SupersedeWrites
  <2>3. PICK j \in DOMAIN facts :
            /\ OfAttribute(j, facts[i].deal, facts[i].attribute) /\ facts[j].recorded <= t
            /\ facts[j].superseded = 0 \/ facts[j].superseded > t
    BY <1>3, <2>1, <2>2
  <2>4. CASE facts'[j].superseded = facts[j].superseded \/ t < pass.at
    <3>1. facts'[j].superseded = 0 \/ facts'[j].superseded > t
      BY <2>1, <2>2, <2>3, <2>4
    <3> QED
      BY <2>1, <2>2, <2>3, <3>1 DEF FactsAt, OfAttribute, Null
  <2>5. CASE IsCurrent(facts[j], pass.deal, Found) /\ t >= pass.at
    <3>1. facts[i].deal = pass.deal /\ facts[i].attribute = Found
      BY <2>3, <2>5 DEF OfAttribute, IsCurrent
    <3> QED
      BY <2>1, <2>2, <2>5, <3>1 DEF HandingOver, At
  <2> QED
    BY <1>1, <2>1, <2>2, <2>3, <2>4, <2>5
<1>6. CASE InsertFact
  <2> DEFINE n == Len(facts) + 1
  <2>1. /\ DOMAIN facts' = 1 .. n /\ DOMAIN facts = 1 .. Len(facts) /\ Len(facts) \in Nat
        /\ \A k \in DOMAIN facts : facts'[k] = facts[k]
        /\ facts'[n].deal = pass.deal /\ facts'[n].attribute = Found
        /\ facts'[n].recorded = pass.at /\ facts'[n].superseded = 0
        /\ clock' = clock
    BY <1>6, Inserted DEF TypeOK, Null, InsertFact, world
  <2>2. pass.at \in Nat
    BY MemoryAssumption DEF TypeOK, PassTypeOK
  <2>3. n \in DOMAIN facts' /\ (i = n \/ i \in DOMAIN facts) /\ DOMAIN facts \subseteq DOMAIN facts'
    BY <2>1
  <2> HIDE DEF n
  <2>4. CASE facts'[i].deal = pass.deal /\ facts'[i].attribute = Found /\ pass.at <= t
    BY <2>1, <2>3, <2>4 DEF FactsAt, Null
  <2>5. ASSUME NEW j \in DOMAIN facts,
               OfAttribute(j, facts'[i].deal, facts'[i].attribute), facts[j].recorded <= t,
               facts[j].superseded = 0 \/ facts[j].superseded > t
        PROVE  FactsAt(t, facts[i].deal, facts[i].attribute)' # {}
    BY <2>1, <2>3, <2>5 DEF FactsAt, OfAttribute, Null
  <2>6. CASE i = n
    BY <2>1, <2>4, <2>6
  <2>7. CASE i \in DOMAIN facts
    <3>1. facts'[i] = facts[i] /\ t \in 1 .. clock
      BY <2>1, <2>7
    <3> QED
      BY <1>3, <2>4, <2>5, <2>7, <3>1 DEF HandingOver
  <2> QED
    BY <2>3, <2>6, <2>7
<1>7. CASE BeginHandover
  <2>1. facts' = facts /\ clock' = clock /\ ~ At("insert")
    BY <1>7, BeginWrites DEF world, tables, At
  <2>2. PICK j \in DOMAIN facts :
            /\ OfAttribute(j, facts[i].deal, facts[i].attribute) /\ facts[j].recorded <= t
            /\ facts[j].superseded = 0 \/ facts[j].superseded > t
    BY <1>3, <2>1
  <2> QED
    BY <2>1, <2>2 DEF FactsAt, OfAttribute, Null
<1> QED
  BY <1>4, <1>5, <1>6, <1>7, NextIsOneOf

\* "And there is never a gap between the two": where no pass died, an attribute that
\* has ever had a fact has one at every instant since, but for those a handover
\* under way has yet to fill.
THEOREM NoGap == Spec => []NeverAGap
<1>1. Init => NeverAGap
  BY DEF Init, NeverAGap
<1> QED
  BY <1>1, GapStep, TimelineAlways, PTL DEF Spec

-----------------------------------------------------------------------------
(* What a pass has before it.                                              *)

Working == ~ At("idle") /\ ~ At("land")

\* What is not landed, or landed by the pass and not taken up yet.
Due(f) ==
    \/ landed[f] = 0
    \/ At("land") /\ landed[f] = passes
    \/ Working /\ f \in pass.todo

NothingDueIsWritten == \A f \in File : Due(f) => \A i \in DOMAIN facts : facts[i].file # f

WrittenOf(f, a) == {i \in DOMAIN facts : facts[i].file = f /\ facts[i].attribute = a}

\* The places among the first n finds of f at which a was found.
Places(f, a, n) == {k \in DOMAIN Finds[f] : k <= n /\ Finds[f][k] = a}

\* How far the finds of f have been written.
Reached(f) == IF Working /\ f = This THEN pass.place - 1 ELSE Len(Finds[f])

WrittenAsReached ==
    \A f \in File, a \in Attribute :
        Cardinality(WrittenOf(f, a)) <= Cardinality(Places(f, a, Reached(f)))

\* A pass works on what it landed, the earliest first.
WorkIsInOrder ==
    /\ \A f \in File : landed[f] <= passes
    /\ ~ At("idle") => passes # 0
    /\ Working =>
           /\ This \notin pass.todo /\ landed[This] = passes
           /\ \A g \in pass.todo : landed[g] = passes /\ Occurred[This] <= Occurred[g]
           /\ \A i \in DOMAIN facts :
                  landed[facts[i].file] = passes => Occurred[facts[i].file] <= Occurred[This]

FactsAreInOrder ==
    \A i, j \in DOMAIN facts :
        i < j /\ landed[facts[i].file] = landed[facts[j].file]
            => Occurred[facts[i].file] <= Occurred[facts[j].file]

Worked == NothingDueIsWritten /\ WrittenAsReached /\ WorkIsInOrder /\ FactsAreInOrder

\* What is counted is finite, and more places are no fewer.
LEMMA Counts ==
    ASSUME TypeOK, NEW f \in File, NEW a
    PROVE  /\ IsFiniteSet(WrittenOf(f, a)) /\ Cardinality(WrittenOf(f, a)) \in Nat
           /\ \A n : IsFiniteSet(Places(f, a, n)) /\ Cardinality(Places(f, a, n)) \in Nat
           /\ \A m, n \in Int : m <= n =>
                  Cardinality(Places(f, a, m)) <= Cardinality(Places(f, a, n))
           /\ \A n \in Int :
                  Cardinality(Places(f, a, n)) <= Cardinality(Places(f, a, Len(Finds[f])))
<1>1. /\ DOMAIN facts = 1 .. Len(facts) /\ Len(facts) \in Nat
      /\ DOMAIN Finds[f] = 1 .. Len(Finds[f]) /\ Len(Finds[f]) \in Nat
  BY MemoryAssumption DEF TypeOK
<1>2. IsFiniteSet(DOMAIN facts) /\ IsFiniteSet(DOMAIN Finds[f])
  <2>1. \A i, j \in Int : IsFiniteSet(i .. j)
    BY FS_Interval, Zenon
  <2> QED
    BY <1>1, <2>1
<1>3. WrittenOf(f, a) \in SUBSET DOMAIN facts /\ \A n : Places(f, a, n) \in SUBSET DOMAIN Finds[f]
  BY DEF WrittenOf, Places
<1>4. IsFiniteSet(WrittenOf(f, a)) /\ \A n : IsFiniteSet(Places(f, a, n))
  BY <1>2, <1>3, FS_Subset
<1>5. \A m, n \in Int : m <= n => Places(f, a, m) \in SUBSET Places(f, a, n)
  BY <1>1 DEF Places
<1>6. \A n \in Int : Places(f, a, n) \in SUBSET Places(f, a, Len(Finds[f]))
  BY <1>1 DEF Places
<1>7. \A m, n \in Int : m <= n => Cardinality(Places(f, a, m)) <= Cardinality(Places(f, a, n))
  BY <1>4, <1>5, FS_Subset
<1>8. \A n \in Int : Cardinality(Places(f, a, n)) <= Cardinality(Places(f, a, Len(Finds[f])))
  BY <1>4, <1>6, FS_Subset
<1> QED
  BY <1>4, <1>7, <1>8, FS_CardinalityType

\* The parts that only read the facts, their files and their order.
LEMMA SameFacts ==
    ASSUME TypeOK, Worked, facts' = facts, landed' = landed
    PROVE  FactsAreInOrder' /\ \A f \in File, a \in Attribute : WrittenOf(f, a)' = WrittenOf(f, a)
BY DEF Worked, FactsAreInOrder, WrittenOf

\* Taking up the next event of those a pass has landed and not written.
LEMMA TakeUpKeepsWorked ==
    ASSUME TypeOK, Worked, NEW todo \in SUBSET File, TakeUp(todo), facts' = facts,
           landed' = landed, passes' = passes,
           passes # 0,
           \A g \in todo : /\ landed[g] = passes
                           /\ \A i \in DOMAIN facts : facts[i].file # g,
           \A g \in todo, i \in DOMAIN facts :
               landed[facts[i].file] = passes => Occurred[facts[i].file] <= Occurred[g]
    PROVE  Worked'
<1>1. FactsAreInOrder' /\ \A f \in File, a \in Attribute : WrittenOf(f, a)' = WrittenOf(f, a)
  BY SameFacts
<1>2. \A f \in File : landed[f] <= passes
  BY DEF Worked, WorkIsInOrder
<1>3. \A f \in File : landed[f] = 0 => \A i \in DOMAIN facts : facts[i].file # f
  BY DEF Worked, NothingDueIsWritten, Due
<1>4. \A f \in File, a \in Attribute :
          Cardinality(WrittenOf(f, a)) <= Cardinality(Places(f, a, Len(Finds[f])))
  <2>1. \A f \in File : Reached(f) \in Int
    BY MemoryAssumption DEF Reached, TypeOK, PassTypeOK
  <2> QED
    BY <2>1, Counts, MemoryAssumption DEF Worked, WrittenAsReached
<1>5. CASE todo = {} /\ pass' = NoPass
  <2>1. pass'.pc = "idle"
    BY <1>5 DEF NoPass
  <2> QED
    BY <1>1, <1>2, <1>3, <1>4, <2>1 DEF Worked, NothingDueIsWritten, Due, WrittenAsReached, Reached,
       Working, WorkIsInOrder, At, Places
<1>6. ASSUME NEW f \in todo, \A g \in todo \ {f} : Sooner(f, g),
             pass' = [NoPass EXCEPT !.pc = "parse", !.file = f, !.todo = todo \ {f}]
      PROVE  Worked'
  <2>1. /\ pass'.pc = "parse" /\ pass'.file = f /\ pass'.todo = todo \ {f} /\ pass'.place = 1
        /\ f \in File
    BY <1>6 DEF NoPass
  <2>2. \A g \in todo \ {f} : Occurred[f] <= Occurred[g]
    <3>1. \A g \in File : Occurred[g] \in Nat
      BY MemoryAssumption
    <3> QED
      BY <1>6, <2>1, <3>1 DEF Sooner
  <2>3. NothingDueIsWritten'
    BY <1>3, <2>1 DEF NothingDueIsWritten, Due, Working, At
  <2>4. WrittenAsReached'
    <3> SUFFICES ASSUME NEW g \in File, NEW a \in Attribute
                 PROVE  Cardinality(WrittenOf(g, a)) <= Cardinality(Places(g, a, Reached(g)'))
      BY <1>1 DEF WrittenAsReached, Places
    <3>1. CASE g = f
      <4>1. WrittenOf(f, a) = {}
        BY <1>6 DEF WrittenOf
      <4> QED
        BY <3>1, <4>1, FS_EmptySet, Counts
    <3>2. CASE g # f
      <4>1. Reached(g)' = Len(Finds[g])
        BY <2>1, <3>2 DEF Reached, This
      <4> QED
        BY <1>4, <4>1
    <3> QED
      BY <3>1, <3>2
  <2>5. WorkIsInOrder'
    BY <1>2, <1>6, <2>1, <2>2 DEF WorkIsInOrder, Working, This, At
  <2> QED
    BY <1>1, <2>3, <2>4, <2>5 DEF Worked
<1> QED
  BY <1>5, <1>6 DEF TakeUp

\* A step that leaves the event that is worked on, and what is before it.
LEMMA SameWork ==
    ASSUME TypeOK, Worked, Working, Working', facts' = facts, landed' = landed, passes' = passes,
           pass'.file = pass.file, pass'.todo = pass.todo,
           pass'.place \in Nat, pass.place <= pass'.place
    PROVE  Worked'
<1>1. FactsAreInOrder' /\ \A f \in File, a \in Attribute : WrittenOf(f, a)' = WrittenOf(f, a)
  BY SameFacts
<1>2. NothingDueIsWritten'
  BY DEF Worked, NothingDueIsWritten, Due, Working, At
<1>3. WorkIsInOrder'
  BY DEF Worked, WorkIsInOrder, Working, This
<1>4. WrittenAsReached'
  <2> SUFFICES ASSUME NEW f \in File, NEW a \in Attribute
               PROVE  Cardinality(WrittenOf(f, a)) <= Cardinality(Places(f, a, Reached(f)'))
    BY <1>1 DEF WrittenAsReached, Places
  <2>1. Reached(f) \in Int /\ Reached(f)' \in Int /\ Reached(f) <= Reached(f)'
    BY MemoryAssumption DEF Reached, This, TypeOK, PassTypeOK
  <2>2. Cardinality(Places(f, a, Reached(f))) <= Cardinality(Places(f, a, Reached(f)'))
    BY <2>1, Counts
  <2>3. /\ Cardinality(WrittenOf(f, a)) \in Nat /\ Cardinality(Places(f, a, Reached(f))) \in Nat
        /\ Cardinality(Places(f, a, Reached(f)')) \in Nat
    BY Counts
  <2>4. Cardinality(WrittenOf(f, a)) <= Cardinality(Places(f, a, Reached(f)))
    BY DEF Worked, WrittenAsReached
  <2> QED
    BY <2>2, <2>3, <2>4
<1> QED
  BY <1>1, <1>2, <1>3, <1>4 DEF Worked

\* A pass that begins, dies or lands files works on none.
LEMMA NoWork ==
    ASSUME TypeOK, Worked, ~ Working', facts' = facts,
           \A f \in File : landed'[f] <= passes', At("idle")' \/ passes' # 0,
           \A f \in File : landed'[f] = landed[f] \/ (landed[f] = 0 /\ At("land")' /\ landed'[f] = passes'),
           \A f \in File : Due(f)' => Due(f)
    PROVE  Worked'
<1>1. \A f \in File, a \in Attribute : WrittenOf(f, a)' = WrittenOf(f, a)
  BY DEF WrittenOf
<1>2. NothingDueIsWritten' /\ WorkIsInOrder'
  BY DEF Worked, NothingDueIsWritten, WorkIsInOrder
<1>3. FactsAreInOrder'
  <2>1. \A i \in DOMAIN facts : facts[i].file \in File /\ landed'[facts[i].file] = landed[facts[i].file]
    <3>1. \A i \in DOMAIN facts : facts[i].file \in File
      BY FactType
    <3>2. \A f \in File : landed[f] = 0 => \A i \in DOMAIN facts : facts[i].file # f
      BY DEF Worked, NothingDueIsWritten, Due
    <3> QED
      BY <3>1, <3>2
  <2> QED
    BY <2>1 DEF Worked, FactsAreInOrder
<1>4. WrittenAsReached'
  <2> SUFFICES ASSUME NEW f \in File, NEW a \in Attribute
               PROVE  Cardinality(WrittenOf(f, a)) <= Cardinality(Places(f, a, Len(Finds[f])))
    BY <1>1 DEF WrittenAsReached, Places, Reached
  <2>1. Reached(f) \in Int
    BY MemoryAssumption DEF Reached, TypeOK, PassTypeOK
  <2>2. Cardinality(Places(f, a, Reached(f))) <= Cardinality(Places(f, a, Len(Finds[f])))
    BY <2>1, Counts
  <2>3. /\ Cardinality(WrittenOf(f, a)) \in Nat /\ Cardinality(Places(f, a, Reached(f))) \in Nat
        /\ Cardinality(Places(f, a, Len(Finds[f]))) \in Nat
    BY Counts
  <2>4. Cardinality(WrittenOf(f, a)) <= Cardinality(Places(f, a, Reached(f)))
    BY DEF Worked, WrittenAsReached
  <2> QED
    BY <2>2, <2>3, <2>4
<1> QED
  BY <1>2, <1>3, <1>4 DEF Worked

\* The first statement of a handover writes no fact and none away.
LEMMA SupersedeKeepsWorked ==
    ASSUME TypeOK, Worked, Supersede
    PROVE  Worked'
<1>1. DOMAIN facts' = DOMAIN facts /\ landed' = landed /\ passes' = passes
  BY SupersedeWrites
<1>2. \A i \in DOMAIN facts : facts'[i].file = facts[i].file /\ facts'[i].attribute = facts[i].attribute
  BY SupersedeWrites
<1>3. /\ pass'.file = pass.file /\ pass'.todo = pass.todo /\ pass'.place = pass.place
      /\ Working /\ Working' /\ ~ At("land")'
  BY SupersedeWrites DEF Working, At
<1>4. \A f \in File, a \in Attribute : WrittenOf(f, a)' = WrittenOf(f, a)
  BY <1>1, <1>2 DEF WrittenOf
<1>5. \A f \in File : Reached(f)' = Reached(f)
  BY <1>3 DEF Reached, This
<1> QED
  BY <1>1, <1>2, <1>3, <1>4, <1>5 DEF Worked, NothingDueIsWritten, Due, WrittenAsReached, WorkIsInOrder,
     FactsAreInOrder, Places, This, Working, At

\* The second writes the fact of the place that is reached.
LEMMA InsertKeepsWorked ==
    ASSUME TypeOK, Worked, InsertFact
    PROVE  Worked'
<1> DEFINE n == Len(facts) + 1
<1>0. DOMAIN facts = 1 .. Len(facts)
  BY DEF TypeOK
<1>1. /\ \A i \in DOMAIN facts : facts'[i] = facts[i]
      /\ facts'[n].attribute = Found /\ facts'[n].file = This
  BY Inserted
<1>2. /\ DOMAIN facts' = DOMAIN facts \cup {n} /\ n \notin DOMAIN facts
      /\ \A i \in DOMAIN facts : i < n /\ i \in Nat
      /\ n \in Nat
  BY <1>0, Inserted
<1>3. /\ pass'.file = pass.file /\ pass'.todo = pass.todo /\ pass'.place = pass.place + 1
      /\ Working /\ Working' /\ ~ At("land") /\ ~ At("land")' /\ landed' = landed /\ passes' = passes
      /\ This \in File /\ This' = This /\ pass.place \in Nat /\ MoreFound /\ pass.place >= 1
  BY DEF InsertFact, TypeOK, PassTypeOK, Working, At, This
<1> HIDE DEF n
<1>4. NothingDueIsWritten'
  <2>1. \A f \in File : Due(f)' => Due(f) /\ f # This
    BY <1>3 DEF Due, Worked, WorkIsInOrder, Working
  <2>2. \A f \in File : Due(f) => \A i \in DOMAIN facts : facts[i].file # f
    BY DEF Worked, NothingDueIsWritten
  <2>3. \A f \in File : Due(f)' => \A i \in DOMAIN facts' : facts'[i].file # f
    BY <1>1, <1>2, <2>1, <2>2
  <2> QED
    BY <2>3 DEF NothingDueIsWritten
<1>5. WorkIsInOrder'
  <2>1. /\ passes' # 0
        /\ \A f \in File : landed'[f] <= passes'
        /\ This' \notin pass'.todo /\ landed'[This'] = passes'
        /\ \A g \in pass'.todo : landed'[g] = passes' /\ Occurred[This'] <= Occurred[g]
    BY <1>3 DEF Worked, WorkIsInOrder, Working
  <2>2. \A i \in DOMAIN facts : landed[facts[i].file] = passes => Occurred[facts[i].file] <= Occurred[This]
    BY <1>3 DEF Worked, WorkIsInOrder
  <2>3. Occurred[This] <= Occurred[This]
    BY <1>3, MemoryAssumption
  <2>4. \A i \in DOMAIN facts' : landed'[facts'[i].file] = passes' => Occurred[facts'[i].file] <= Occurred[This']
    BY <1>1, <1>2, <1>3, <2>2, <2>3
  <2> QED
    BY <2>1, <2>4 DEF WorkIsInOrder
<1>6. FactsAreInOrder'
  <2> SUFFICES ASSUME NEW i \in DOMAIN facts', NEW j \in DOMAIN facts', i < j,
                      landed[facts'[i].file] = landed[facts'[j].file]
               PROVE  Occurred[facts'[i].file] <= Occurred[facts'[j].file]
    BY <1>3 DEF FactsAreInOrder
  <2>1. i \in DOMAIN facts
    BY <1>2
  <2>2. CASE j = n
    <3>1. facts'[i].file = facts[i].file /\ landed[facts[i].file] = passes
      BY <1>1, <1>3, <2>1, <2>2 DEF Worked, WorkIsInOrder
    <3> QED
      BY <1>1, <1>3, <2>1, <2>2, <3>1 DEF Worked, WorkIsInOrder
  <2>3. CASE j \in DOMAIN facts
    BY <1>1, <2>1, <2>3 DEF Worked, FactsAreInOrder
  <2> QED
    BY <1>2, <2>2, <2>3
<1>7. WrittenAsReached'
  <2> SUFFICES ASSUME NEW f \in File, NEW a \in Attribute
               PROVE  Cardinality(WrittenOf(f, a)') <= Cardinality(Places(f, a, Reached(f)'))
    BY DEF WrittenAsReached, Places, WrittenOf
  <2>1. Cardinality(WrittenOf(f, a)) <= Cardinality(Places(f, a, Reached(f)))
    BY DEF Worked, WrittenAsReached
  <2>2. IsFiniteSet(WrittenOf(f, a)) /\ IsFiniteSet(Places(f, a, Reached(f)))
        /\ Cardinality(WrittenOf(f, a)) \in Nat /\ Cardinality(Places(f, a, Reached(f))) \in Nat
    BY Counts
  <2>3. CASE f = This /\ a = Found
    <3> DEFINE p == pass.place
    <3>1. WrittenOf(f, a)' = WrittenOf(f, a) \cup {n} /\ n \notin WrittenOf(f, a)
      BY <1>1, <1>2, <2>3 DEF WrittenOf
    <3>2. Reached(f) = p - 1 /\ Reached(f)' = p
      BY <1>3, <2>3 DEF Reached, This
    <3>3. p \in DOMAIN Finds[f] /\ Finds[f][p] = a
      BY <1>3, <2>3, MemoryAssumption DEF MoreFound, Found
    <3>4. Places(f, a, p) = Places(f, a, p - 1) \cup {p} /\ p \notin Places(f, a, p - 1)
      BY <1>3, <3>3, MemoryAssumption DEF Places
    <3>5. Cardinality(WrittenOf(f, a) \cup {n}) = Cardinality(WrittenOf(f, a)) + 1
      BY <2>2, <3>1, FS_AddElement
    <3> HIDE DEF p
    <3>6. Cardinality(Places(f, a, p - 1) \cup {p}) = Cardinality(Places(f, a, p - 1)) + 1
      BY <2>2, <3>2, <3>4, FS_AddElement
    <3> QED
      BY <2>1, <2>2, <3>1, <3>2, <3>4, <3>5, <3>6
  <2>4. CASE ~ (f = This /\ a = Found)
    <3>1. WrittenOf(f, a)' = WrittenOf(f, a)
      BY <1>1, <1>2, <2>4 DEF WrittenOf
    <3>2. Reached(f) \in Int /\ Reached(f)' \in Int /\ Reached(f) <= Reached(f)'
      BY <1>3, MemoryAssumption DEF Reached, This
    <3>3. Cardinality(Places(f, a, Reached(f))) <= Cardinality(Places(f, a, Reached(f)'))
          /\ Cardinality(Places(f, a, Reached(f)')) \in Nat
      BY <3>2, Counts
    <3> QED
      BY <2>1, <2>2, <3>1, <3>3
  <2> QED
    BY <2>3, <2>4
<1> QED
  BY <1>4, <1>5, <1>6, <1>7 DEF Worked

LEMMA WorkedStep == TypeOK /\ Worked /\ [Next]_vars => Worked'
<1> SUFFICES ASSUME TypeOK, Worked, [Next]_vars PROVE Worked'
  OBVIOUS
<1>0. /\ landed \in [File -> 0 .. MaxPasses] /\ passes \in Nat /\ "pc" \in DOMAIN pass
      /\ \A f \in File : landed[f] \in Nat /\ landed[f] <= passes
  BY MemoryAssumption DEF TypeOK, PassTypeOK, Worked, WorkIsInOrder
<1>1. CASE Begin
  <2>1. pass'.pc = "land" /\ facts' = facts /\ landed' = landed /\ passes' = passes + 1
    BY <1>1 DEF Begin, NoPass, tables
  <2> QED
    BY <1>0, <2>1, NoWork DEF Working, At, Due
<1>2. CASE Land
  <2>1. PICK f \in pass.todo : /\ landed' = Landing(f)
                               /\ pass' = [pass EXCEPT !.todo = @ \ {f}]
    BY <1>2 DEF Land
  <2>2. pass'.pc = "land" /\ facts' = facts /\ passes' = passes /\ At("land")
    BY <1>0, <1>2, <2>1 DEF Land, At
  <2>3. \A g \in File : landed'[g] = landed[g] \/ (landed[g] = 0 /\ landed'[g] = passes)
    BY <1>0, <2>1 DEF Landing
  <2>4. passes # 0 /\ ~ Working' /\ At("land")'
    BY <2>2 DEF Worked, WorkIsInOrder, Working, At
  <2>5. \A g \in File : Due(g)' => Due(g)
    BY <2>2, <2>3, <2>4 DEF Due
  <2>6. \A g \in File : landed'[g] <= passes'
    BY <1>0, <2>2, <2>3
  <2> QED
    BY <2>2, <2>3, <2>4, <2>5, <2>6, NoWork
<1>3. CASE Sort
  <2> DEFINE todo == {f \in File : landed[f] = passes}
  <2>1. /\ todo \in SUBSET File /\ TakeUp(todo) /\ At("land")
        /\ facts' = facts /\ landed' = landed /\ passes' = passes
    BY <1>3 DEF Sort, tables
  <2>2. \A g \in todo : landed[g] = passes /\ \A i \in DOMAIN facts : facts[i].file # g
    BY <2>1 DEF Worked, NothingDueIsWritten, Due
  <2>3. \A i \in DOMAIN facts : landed[facts[i].file] # passes
    <3>1. \A i \in DOMAIN facts : facts[i].file \in File
      BY FactType
    <3> QED
      BY <2>2, <3>1
  <2>4. passes # 0
    BY <2>1 DEF Worked, WorkIsInOrder, At
  <2> HIDE DEF todo
  <2> QED
    BY <2>1, <2>2, <2>3, <2>4, TakeUpKeepsWorked
<1>4. CASE Project
  <2>1. /\ pass.todo \in SUBSET File /\ TakeUp(pass.todo) /\ Working /\ This \in File
        /\ facts' = facts /\ landed' = landed /\ passes' = passes
    BY <1>4 DEF Project, TypeOK, PassTypeOK, Working, At
  <2>4. passes # 0
    BY <2>1 DEF Worked, WorkIsInOrder, Working
  <2>2. \A g \in pass.todo : landed[g] = passes /\ \A i \in DOMAIN facts : facts[i].file # g
    BY <2>1 DEF Worked, NothingDueIsWritten, Due, WorkIsInOrder
  <2>3. \A g \in pass.todo, i \in DOMAIN facts :
            landed[facts[i].file] = passes => Occurred[facts[i].file] <= Occurred[g]
    <3>1. \A i \in DOMAIN facts : facts[i].file \in File
      BY FactType
    <3>2. \A f \in File : Occurred[f] \in Nat
      BY MemoryAssumption
    <3> QED
      BY <2>1, <3>1, <3>2 DEF Worked, WorkIsInOrder
  <2> QED
    BY <2>1, <2>2, <2>3, <2>4, TakeUpKeepsWorked
<1>5. CASE Parse \/ ClassifyEvent \/ Extracted
  <2>1. PICK pc \in {"classify", "resolve", "project"} : pass' = [pass EXCEPT !.pc = pc]
    BY <1>5 DEF Parse, ClassifyEvent, Extracted, Goto
  <2>2. facts' = facts /\ landed' = landed /\ passes' = passes /\ Working
    BY <1>5 DEF Parse, ClassifyEvent, Extracted, Working, At, tables
  <2>3. /\ pass'.pc = pc /\ pass'.file = pass.file /\ pass'.todo = pass.todo
        /\ pass'.place = pass.place /\ pass.place \in Nat
    BY <2>1 DEF TypeOK, PassTypeOK
  <2> QED
    BY <2>2, <2>3, SameWork DEF Working, At
<1>6. CASE Resolve
  <2>1. PICK d : pass' = [pass EXCEPT !.pc = "extract", !.deal = d]
    BY <1>6 DEF Resolve
  <2>2. facts' = facts /\ landed' = landed /\ passes' = passes /\ Working
    BY <1>6 DEF Resolve, Working, At
  <2>3. /\ pass'.pc = "extract" /\ pass'.file = pass.file /\ pass'.todo = pass.todo
        /\ pass'.place = pass.place /\ pass.place \in Nat
    BY <2>1 DEF TypeOK, PassTypeOK
  <2> QED
    BY <2>2, <2>3, SameWork DEF Working, At
<1>7. CASE RecordDecision
  <2>1. facts' = facts /\ landed' = landed /\ passes' = passes /\ Working
    BY <1>7 DEF RecordDecision, Working, At
  <2>2. /\ pass'.pc = "extract" /\ pass'.file = pass.file /\ pass'.todo = pass.todo
        /\ pass'.place = pass.place + 1 /\ pass.place \in Nat
    BY <1>7 DEF RecordDecision, At, TypeOK, PassTypeOK
  <2> QED
    BY <2>1, <2>2, SameWork DEF Working, At
<1>8. CASE Crash
  <2>1. pass'.pc = "idle" /\ facts' = facts /\ landed' = landed /\ passes' = passes
    BY <1>8 DEF Crash, NoPass, tables
  <2> QED
    BY <1>0, <2>1, NoWork DEF Working, At, Due
<1>9. CASE Tick \/ (\E f \in File : Arrive(f)) \/ UNCHANGED vars
  <2>1. facts' = facts /\ landed' = landed /\ passes' = passes /\ pass' = pass
    BY <1>9 DEF Tick, Arrive, vars, tables
  <2> QED
    BY <2>1 DEF Worked, NothingDueIsWritten, Due, WrittenAsReached, WrittenOf, Reached, Places,
       WorkIsInOrder, FactsAreInOrder, Working, At, This
<1>10. CASE BeginHandover
  <2>1. /\ facts' = facts /\ landed' = landed /\ passes' = passes /\ Working
        /\ pass'.pc = "supersede" /\ pass'.file = pass.file /\ pass'.todo = pass.todo
        /\ pass'.place = pass.place /\ pass.place \in Nat
    BY <1>10, BeginWrites DEF tables, Working, At, TypeOK, PassTypeOK
  <2> QED
    BY <2>1, SameWork DEF Working, At
<1> QED
  BY <1>1, <1>2, <1>3, <1>4, <1>5, <1>6, <1>7, <1>8, <1>9, <1>10,
     SupersedeKeepsWorked, InsertKeepsWorked DEF Next, RunPipeline

LEMMA WorkedAlways == Spec => [](TypeOK /\ Timeline /\ Worked)
<1>1. Init => Worked
  <2> SUFFICES ASSUME Init PROVE Worked
    OBVIOUS
  <2>1. facts = <<>> /\ DOMAIN facts = {} /\ \A f \in File : landed[f] = 0
    BY DEF Init
  <2>2. passes = 0 /\ ~ Working /\ At("idle")
    BY DEF Init, NoPass, Working, At
  <2>3. WrittenAsReached
    <3>1. \A f \in File, a \in Attribute : WrittenOf(f, a) = {}
      BY <2>1 DEF WrittenOf
    <3>2. TypeOK
      BY MemoryAssumption DEF Init, TypeOK, PassTypeOK, NoPass, At, This
    <3>3. \A f \in File, a \in Attribute : Cardinality(Places(f, a, Reached(f))) \in Nat
      BY <3>2, Counts
    <3>4. \A f \in File, a \in Attribute : Cardinality(WrittenOf(f, a)) = 0
      BY <3>1, FS_EmptySet
    <3> QED
      BY <3>1, <3>3, <3>4 DEF WrittenAsReached
  <2> QED
    BY <2>1, <2>2, <2>3 DEF Worked, NothingDueIsWritten, WorkIsInOrder, FactsAreInOrder
<1> QED
  BY <1>1, WorkedStep, TimelineAlways, PTL DEF Spec

\* A later pass over the same files, also one after a pass that died, writes no fact
\* a second time: a file has no more facts of an attribute than its extractors found.
THEOREM WrittenOnce == Spec => []FactsWrittenOnce
<1>1. TypeOK /\ Worked => FactsWrittenOnce
  <2> SUFFICES ASSUME TypeOK, Worked, NEW f \in File, NEW a \in Attribute
               PROVE  Cardinality(WrittenOf(f, a)) <= Cardinality({k \in DOMAIN Finds[f] : Finds[f][k] = a})
    BY DEF FactsWrittenOnce, WrittenOf
  <2>1. Places(f, a, Len(Finds[f])) = {k \in DOMAIN Finds[f] : Finds[f][k] = a}
    BY MemoryAssumption DEF Places
  <2>2. Reached(f) \in Int
    BY MemoryAssumption DEF Reached, TypeOK, PassTypeOK
  <2>3. /\ Cardinality(WrittenOf(f, a)) <= Cardinality(Places(f, a, Reached(f)))
        /\ Cardinality(Places(f, a, Reached(f))) <= Cardinality(Places(f, a, Len(Finds[f])))
    BY <2>2, Counts DEF Worked, WrittenAsReached
  <2>4. /\ Cardinality(WrittenOf(f, a)) \in Nat /\ Cardinality(Places(f, a, Reached(f))) \in Nat
        /\ Cardinality(Places(f, a, Len(Finds[f]))) \in Nat
    BY Counts
  <2> QED
    BY <2>1, <2>3, <2>4
<1> QED
  BY <1>1, WorkedAlways, PTL

\* "The later fact must be the one that supersedes": of the files a pass landed, the
\* fact that stands is of the one the world produced last.
THEOREM LatestWins == Spec => []LatestStands
<1>1. TypeOK /\ Timeline /\ Worked => LatestStands
  <2> SUFFICES ASSUME TypeOK, Timeline, Worked, NEW i \in DOMAIN facts, NEW j \in DOMAIN facts,
                      facts[i].superseded = Null, Rivals(i, j)
               PROVE  Occurred[facts[j].file] <= Occurred[facts[i].file]
    BY DEF LatestStands
  <2>1. i \in Nat /\ j \in Nat /\ Occurred[facts[i].file] \in Nat
    BY FactType, MemoryAssumption
  <2>2. CASE i < j
    BY <2>2 DEF Timeline, EndsByTheNext, OfAttribute, EndsBy, Rivals
  <2>3. CASE j < i
    BY <2>3 DEF Worked, FactsAreInOrder, Rivals
  <2> QED
    BY <2>1, <2>2, <2>3
<1> QED
  BY <1>1, WorkedAlways, PTL

-----------------------------------------------------------------------------
(* The integrity report.                                                   *)

\* What is kept is of an event that landed, and a stage comes after those before it.
Staged ==
    /\ \A f \in File : kept[f] # {} => landed[f] # 0
    /\ \A i \in DOMAIN facts : "text" \in kept[facts[i].file]
    /\ decided # {} => passes # 0
    /\ pass.pc \in {"classify", "resolve", "extract", "supersede", "insert", "project"}
           => "text" \in kept[This]
    /\ pass.pc \in {"extract", "supersede", "insert", "project"} => "links" \in kept[This]

\* The events that a pass has yet to link.
Pending(f) ==
    \/ At("land") /\ landed[f] = passes
    \/ Working /\ f \in pass.todo
    \/ pass.pc \in {"parse", "classify", "resolve"} /\ f = This

NoneIsForgotten ==
    crashes = 0 => \A f \in File : landed[f] # 0 /\ "links" \notin kept[f] => Pending(f)

IntegrityInv == Staged /\ NoneIsForgotten

\* The first of the events in todo is taken up, or the pass is over.
LEMMA TakenUp ==
    ASSUME NEW todo, TakeUp(todo)
    PROVE  \/ todo = {} /\ pass'.pc = "idle"
           \/ pass'.pc = "parse" /\ This' \in todo /\ pass'.todo = todo \ {This'}
<1>1. CASE todo = {} /\ pass' = NoPass
  BY <1>1 DEF NoPass
<1>2. ASSUME NEW f \in todo,
             pass' = [NoPass EXCEPT !.pc = "parse", !.file = f, !.todo = todo \ {f}]
      PROVE  pass'.pc = "parse" /\ This' = f /\ pass'.todo = todo \ {f}
  BY <1>2 DEF NoPass, This
<1> QED
  BY <1>1, <1>2, Zenon DEF TakeUp

\* A table of the event at hand.
LEMMA Keeps ==
    ASSUME TypeOK, NEW table, Keep(This, table), This \in File
    PROVE  /\ \A f \in File : kept'[f] = kept[f] \cup (IF f = This THEN {table} ELSE {})
           /\ \A f \in File : kept[f] \subseteq kept'[f]
BY DEF Keep, TypeOK

LEMMA StagesStep ==
    ASSUME TypeOK, Worked, IntegrityInv, [Next]_vars PROVE IntegrityInv'
<1> USE DEF IntegrityInv, Staged, NoneIsForgotten, Pending, At, Working
<1>0. /\ "pc" \in DOMAIN pass
      /\ passes \in Nat /\ crashes \in Nat
      /\ \A f \in File : landed[f] \in Nat /\ landed[f] <= passes
      /\ \A i \in DOMAIN facts : facts[i].file \in File
      /\ ~At("idle") => passes # 0
      /\ Working => This \in File /\ landed[This] = passes
  BY MemoryAssumption, FactType DEF TypeOK, PassTypeOK, Worked, WorkIsInOrder
<1>1. CASE Begin
  <2>1. pass'.pc = "land" /\ passes' = passes + 1 /\ UNCHANGED <<landed, kept, facts, decided, crashes>>
        /\ pass.pc = "idle"
    BY <1>1 DEF Begin, NoPass, tables
  <2> QED
    BY <1>0, <2>1
<1>2. CASE Land
  <2>1. pass.pc = "land" /\ pass'.pc = "land" /\ UNCHANGED <<kept, facts, decided, passes, crashes>>
    BY <1>2 DEF Land, TypeOK, PassTypeOK
  <2>2. \A f \in File : landed'[f] = landed[f] \/ (landed[f] = 0 /\ landed'[f] = passes)
    BY <1>2 DEF Land, Landing, TypeOK
  <2> QED
    BY <1>0, <2>1, <2>2
<1>3. CASE Sort
  <2> DEFINE todo == {f \in File : landed[f] = passes}
  <2>1. pass.pc = "land" /\ TakeUp(todo) /\ UNCHANGED <<landed, kept, facts, decided, passes, crashes>>
    BY <1>3 DEF Sort, tables
  <2>2. \/ todo = {} /\ pass'.pc = "idle"
        \/ pass'.pc = "parse" /\ This' \in todo /\ pass'.todo = todo \ {This'}
    BY <2>1, TakenUp
  <2> QED
    BY <1>0, <2>1, <2>2
<1>4. CASE Parse
  <2>1. /\ pass.pc = "parse" /\ pass' = [pass EXCEPT !.pc = "classify"] /\ Keep(This, "text")
        /\ UNCHANGED <<landed, facts, decided, passes, crashes>>
    BY <1>4 DEF Parse, Goto
  <2>2. pass'.pc = "classify" /\ pass'.file = pass.file /\ pass'.todo = pass.todo
    BY <2>1 DEF TypeOK, PassTypeOK
  <2> QED
    BY <1>0, <2>1, <2>2, Keeps DEF This
<1>5. CASE ClassifyEvent
  <2>1. /\ pass.pc = "classify" /\ pass' = [pass EXCEPT !.pc = "resolve"] /\ Keep(This, "class")
        /\ UNCHANGED <<landed, facts, decided, passes, crashes>>
    BY <1>5 DEF ClassifyEvent, Goto
  <2>2. pass'.pc = "resolve" /\ pass'.file = pass.file /\ pass'.todo = pass.todo
    BY <2>1 DEF TypeOK, PassTypeOK
  <2> QED
    BY <1>0, <2>1, <2>2, Keeps DEF This
<1>6. CASE Resolve
  <2>1. /\ pass.pc = "resolve" /\ Keep(This, "links")
        /\ \E d : pass' = [pass EXCEPT !.pc = "extract", !.deal = d]
        /\ UNCHANGED <<landed, facts, decided, passes, crashes>>
    BY <1>6, Zenon DEF Resolve
  <2>2. pass'.pc = "extract" /\ pass'.file = pass.file /\ pass'.todo = pass.todo
    BY <2>1 DEF TypeOK, PassTypeOK
  <2> QED
    BY <1>0, <2>1, <2>2, Keeps DEF This
<1>7. CASE RecordDecision \/ Extracted
  <2>1. /\ pass.pc = "extract" /\ pass'.pc \in {"extract", "project"}
        /\ pass'.file = pass.file /\ pass'.todo = pass.todo
        /\ UNCHANGED <<landed, kept, facts, passes, crashes>>
    BY <1>7 DEF RecordDecision, Extracted, Goto, tables, TypeOK, PassTypeOK
  <2> QED
    BY <1>0, <2>1 DEF This
<1>8. CASE Supersede
  <2>1. /\ pass.pc = "supersede" /\ pass'.pc = "insert"
        /\ pass'.file = pass.file /\ pass'.todo = pass.todo
        /\ UNCHANGED <<landed, kept, decided, passes, crashes>>
        /\ DOMAIN facts' = DOMAIN facts /\ \A i \in DOMAIN facts : facts'[i].file = facts[i].file
    BY <1>8, SupersedeWrites
  <2> QED
    BY <1>0, <2>1 DEF This
<1>9. CASE InsertFact
  <2>1. /\ pass.pc = "insert" /\ pass'.pc = "extract"
        /\ pass'.file = pass.file /\ pass'.todo = pass.todo
        /\ UNCHANGED <<landed, kept, decided, passes, crashes>>
    BY <1>9 DEF InsertFact, TypeOK, PassTypeOK
  <2>2. \A i \in DOMAIN facts' : facts'[i].file = This \/ (i \in DOMAIN facts /\ facts'[i] = facts[i])
    <3>1. /\ DOMAIN facts' = 1 .. Len(facts) + 1
          /\ DOMAIN facts = 1 .. Len(facts) /\ Len(facts) \in Nat
          /\ \A i \in DOMAIN facts : facts'[i] = facts[i]
          /\ facts'[Len(facts) + 1].file = This
      BY <1>9, Inserted DEF TypeOK
    <3> QED
      BY <3>1
  <2> QED
    BY <1>0, <2>1, <2>2 DEF This
<1>10. CASE Project
  <2>1. /\ pass.pc = "project" /\ Keep(This, "chunks") /\ TakeUp(pass.todo)
        /\ UNCHANGED <<landed, facts, decided, passes, crashes>>
    BY <1>10 DEF Project, Chunks
  <2>2. \/ pass.todo = {} /\ pass'.pc = "idle"
        \/ pass'.pc = "parse" /\ This' \in pass.todo /\ pass'.todo = pass.todo \ {This'}
    BY <2>1, TakenUp
  <2> QED
    BY <1>0, <2>1, <2>2, Keeps
<1>11. CASE Crash
  <2>1. pass'.pc = "idle" /\ crashes' # 0 /\ UNCHANGED <<landed, kept, facts, decided, passes>>
    BY <1>0, <1>11 DEF Crash, NoPass, tables
  <2> QED
    BY <2>1
<1>12. CASE Tick \/ (\E f \in File : Arrive(f)) \/ UNCHANGED vars
  BY <1>12 DEF Tick, Arrive, vars, world, tables, This
<1>13. CASE BeginHandover
  <2>1. /\ pass.pc = "extract" /\ pass'.pc = "supersede"
        /\ pass'.file = pass.file /\ pass'.todo = pass.todo
        /\ UNCHANGED <<landed, kept, facts, decided, passes, crashes>>
    BY <1>13, BeginWrites DEF tables
  <2> QED
    BY <1>0, <2>1 DEF This
<1> QED
  BY <1>1, <1>2, <1>3, <1>4, <1>5, <1>6, <1>7, <1>8, <1>9, <1>10, <1>11, <1>12,
     <1>13 DEF Next, RunPipeline

LEMMA IntegrityAlways == Spec => [](TypeOK /\ Timeline /\ Worked /\ IntegrityInv)
<1>1. Init => IntegrityInv
  <2> SUFFICES ASSUME Init PROVE IntegrityInv
    OBVIOUS
  <2>1. /\ \A f \in File : landed[f] = 0 /\ kept[f] = {}
        /\ DOMAIN facts = {} /\ decided = {} /\ pass.pc = "idle"
    BY DEF Init, NoPass
  <2> QED
    BY <2>1 DEF IntegrityInv, Staged, NoneIsForgotten
<1> QED
  BY <1>1, StagesStep, WorkedAlways, PTL DEF Spec

-----------------------------------------------------------------------------
(* The report.                                                             *)

\* What resolves is a deal, and deals are registered when a pass begins.
LEMMA ResolvedIsRegistered ==
    ASSUME passes # 0, NEW f \in File PROVE Resolved(f) \subseteq Registry
BY MemoryAssumption DEF Resolved, Registry

\* Two current facts of an attribute would be two at this instant.
LEMMA NoContradictions ==
    ASSUME TypeOK, Timeline, NeverTwoFacts PROVE Contradictions = {}
<1> SUFFICES ASSUME NEW i \in DOMAIN facts, NEW j \in DOMAIN facts,
                    facts[i].superseded = Null, facts[j].superseded = Null,
                    facts[i].deal = facts[j].deal, facts[i].attribute = facts[j].attribute
             PROVE  ValueOf(i) = ValueOf(j)
  BY DEF Contradictions
<1>1. facts[i] \in Fact /\ clock \in 1 .. clock
  BY DEF TypeOK
<1>2. facts[i].deal \in Deal /\ facts[i].attribute \in Attribute
  BY <1>1 DEF Fact
<1>3. facts[i].recorded <= clock /\ facts[j].recorded <= clock
  BY DEF Timeline, NothingIsAhead
<1>4. i \in FactsAt(clock, facts[i].deal, facts[i].attribute)
      /\ j \in FactsAt(clock, facts[i].deal, facts[i].attribute)
  BY <1>3 DEF FactsAt
<1>5. i = j
  BY <1>1, <1>2, <1>4 DEF NeverTwoFacts
<1> QED
  BY <1>5

\* Of the reviewed sample, a person would link what is not ambiguous as the ladder does.
ReviewAgrees ==
    \A f \in DOMAIN Reviewed :
        IF Reviewed[f] = NoDeal THEN Quarantined(f) \/ Resolved(f) = {}
        ELSE ~Quarantined(f) /\ Reviewed[f] \in Resolved(f)

\* The counts of three sets that have nothing in common and are part of a fourth.
LEMMA CountsAddUp ==
    ASSUME NEW S, IsFiniteSet(S), NEW A, NEW B, NEW C, A \cup B \cup C \subseteq S,
           A \cap B = {}, (A \cup B) \cap C = {}
    PROVE  /\ Cardinality(A) + Cardinality(B) + Cardinality(C) <= Cardinality(S)
           /\ A \cup B \cup C = S => Cardinality(A) + Cardinality(B) + Cardinality(C) = Cardinality(S)
<1>1. IsFiniteSet(A) /\ IsFiniteSet(B) /\ IsFiniteSet(C) /\ IsFiniteSet(A \cup B) /\ IsFiniteSet(A \cup B \cup C)
  BY FS_Subset
<1>2. Cardinality({}) = 0
  BY FS_EmptySet
<1>3. /\ Cardinality(A) \in Nat /\ Cardinality(B) \in Nat /\ Cardinality(C) \in Nat
      /\ Cardinality(A \cup B) \in Nat /\ Cardinality(A \cup B \cup C) \in Nat
  BY <1>1, FS_CardinalityType
<1>4. Cardinality(A \cup B) = Cardinality(A) + Cardinality(B)
  <2>1. Cardinality(A \cup B) = Cardinality(A) + Cardinality(B) - Cardinality(A \cap B)
    BY <1>1, FS_Union
  <2>2. Cardinality(A \cap B) = 0
    BY <1>2, Zenon
  <2> QED
    BY <1>3, <2>1, <2>2
<1>5. Cardinality(A \cup B \cup C) = Cardinality(A \cup B) + Cardinality(C)
  <2>1. Cardinality((A \cup B) \cup C) = Cardinality(A \cup B) + Cardinality(C) - Cardinality((A \cup B) \cap C)
    BY <1>1, FS_Union
  <2>2. Cardinality((A \cup B) \cap C) = 0
    BY <1>2, Zenon
  <2> QED
    BY <1>3, <2>1, <2>2
<1>6. Cardinality(A \cup B \cup C) <= Cardinality(S)
  BY FS_Subset
<1> QED
  BY <1>3, <1>4, <1>5, <1>6

\* What the integrity suite asks on every change to the memory, at every moment of
\* a pass and after one that died: the report has no broken span, nothing dangling
\* and no contradiction, nothing reviewed is linked elsewhere, and where no pass
\* died every event is accounted for once.
THEOREM ReportAddsUp ==
    ASSUME ReviewAgrees PROVE Spec => []MemoryAddsUp
<1>1. TypeOK /\ Timeline /\ Worked /\ IntegrityInv /\ NeverTwoFacts => MemoryAddsUp
  <2> SUFFICES ASSUME TypeOK, Timeline, Worked, IntegrityInv, NeverTwoFacts PROVE MemoryAddsUp
    OBVIOUS
  <2> DEFINE Linked == {f \in Events : LinkedTo(f) # {}}
             Orphaned == {f \in Rows("links") : Resolved(f) = {}}
             Held == {f \in Rows("links") : Quarantined(f)}
  <2>1. /\ \A f \in File : landed[f] \in Nat /\ landed[f] <= passes
        /\ passes \in Nat
        /\ \A i \in DOMAIN facts : facts[i].file \in File /\ facts[i].deal \in Deal
    <3>1. \A i \in DOMAIN facts : facts[i] \in Fact
      BY DEF TypeOK
    <3> QED
      BY <3>1, MemoryAssumption DEF TypeOK, Worked, WorkIsInOrder, Fact
  <2>2. /\ \A table : Rows(table) \subseteq Events
        /\ \A i \in DOMAIN facts : facts[i].file \in Rows("text")
    BY <2>1 DEF IntegrityInv, Staged, Rows, Events
  <2>3. Broken = {}
    BY <2>2 DEF Broken
  <2>4. \A f \in Events : f \in File /\ passes # 0
    BY <2>1 DEF Events
  <2>5. \A f \in Events : Resolved(f) \subseteq Registry
    BY <2>4, ResolvedIsRegistered
  <2>6. Dangling = {}
    <3>1. {f \in Rows("links") : f \notin Events \/ ~(Resolved(f) \subseteq Registry)} = {}
      BY <2>2, <2>5
    <3>2. \A i \in DOMAIN facts : facts[i].file \in Events /\ facts[i].deal \in Registry
      BY <2>1, <2>2, <2>4 DEF Registry
    <3>3. \A e \in decided : Resolved(e[1]) \subseteq Registry
      BY ResolvedIsRegistered DEF IntegrityInv, Staged, TypeOK
    <3> QED
      BY <2>2, <3>1, <3>2, <3>3 DEF Dangling
  <2>7. Contradictions = {}
    BY NoContradictions
  <2>8. Wrong \cap Rows("links") = {}
    BY DEF ReviewAgrees, Wrong, LinkedTo
  <2>9. Cardinality({}) = 0
    BY FS_EmptySet
  <2>10. \A f \in Rows("links") : Resolved(f) = {} => ~Quarantined(f)
    BY <2>9 DEF Quarantined
  <2>11. /\ Linked \cup Orphaned \cup Held = Rows("links")
         /\ Linked \cap Orphaned = {} /\ (Linked \cup Orphaned) \cap Held = {}
    BY <2>2, <2>10 DEF LinkedTo
  <2>12. IsFiniteSet(Events)
    <3>1. Events \subseteq File
      BY DEF Events
    <3> QED
      BY <3>1, FS_Subset, IntegrityAssumption
  <2>13. At("idle") /\ crashes = 0 => Rows("links") = Events
    BY <2>1, <2>2 DEF IntegrityInv, NoneIsForgotten, Pending, Working, At, Rows, Events
  <2>14. LET accounted == Cardinality(Linked) + Cardinality(Orphaned) + Cardinality(Held) IN
         /\ accounted <= Cardinality(Events)
         /\ At("idle") /\ crashes = 0 => accounted = Cardinality(Events)
    <3> HIDE DEF Linked, Orphaned, Held
    <3> QED
      BY <2>2, <2>11, <2>12, <2>13, CountsAddUp
  <2> QED
    BY <2>3, <2>6, <2>7, <2>8, <2>14 DEF MemoryAddsUp, Report
<1> QED
  BY <1>1, IntegrityAlways, NeverTwo, PTL

-----------------------------------------------------------------------------
(* Sorting.                                                                *)

\* A relation that orders a set strictly and totally.
Orders(R, S) ==
    /\ \A x \in S : <<x, x>> \notin R
    /\ \A x, y, z \in S : <<x, y>> \in R /\ <<y, z>> \in R => <<x, z>> \in R
    /\ \A x, y \in S : x = y \/ <<x, y>> \in R \/ <<y, x>> \in R

Beneath(R, S, x) == {y \in S : <<y, x>> \in R}

\* The sequence s has each element of S once, in the order of R.
Lists(s, R, S) ==
    /\ s \in Seq(S) /\ Len(s) = Cardinality(S) /\ DOMAIN s = 1 .. Cardinality(S)
    /\ \A x \in S : \E n \in DOMAIN s : s[n] = x
    /\ \A m, n \in DOMAIN s : m < n => <<s[m], s[n]>> \in R

\* How many elements are beneath one tells the elements apart.
LEMMA RanksDiffer ==
    ASSUME NEW S, IsFiniteSet(S), NEW R, Orders(R, S)
    PROVE  /\ \A x \in S : Cardinality(Beneath(R, S, x)) \in 0 .. Cardinality(S) - 1
           /\ \A x, y \in S : <<x, y>> \in R =>
                  Cardinality(Beneath(R, S, x)) < Cardinality(Beneath(R, S, y))
<1>1. \A x \in S : /\ IsFiniteSet(Beneath(R, S, x)) /\ Beneath(R, S, x) \in SUBSET S
                   /\ x \notin Beneath(R, S, x)
  <2>1. \A x \in S : Beneath(R, S, x) \in SUBSET S /\ x \notin Beneath(R, S, x)
    BY DEF Beneath, Orders
  <2> QED
    BY <2>1, FS_Subset
<1>2. Cardinality(S) \in Nat /\ \A x \in S : Cardinality(Beneath(R, S, x)) \in Nat
  BY <1>1, FS_CardinalityType
<1>3. ASSUME NEW x \in S PROVE Cardinality(Beneath(R, S, x)) < Cardinality(S)
  <2>1. Beneath(R, S, x) # S
    BY <1>1
  <2>2. Cardinality(Beneath(R, S, x)) <= Cardinality(S) /\ Cardinality(Beneath(R, S, x)) # Cardinality(S)
    BY <1>1, <2>1, FS_Subset
  <2> QED
    BY <1>2, <2>2
<1>4. ASSUME NEW x \in S, NEW y \in S, <<x, y>> \in R
      PROVE  Cardinality(Beneath(R, S, x)) < Cardinality(Beneath(R, S, y))
  <2>1. Beneath(R, S, x) \in SUBSET Beneath(R, S, y)
    BY <1>4 DEF Beneath, Orders
  <2>2. x \in Beneath(R, S, y) /\ x \notin Beneath(R, S, x)
    BY <1>1, <1>4 DEF Beneath
  <2>3. Beneath(R, S, x) # Beneath(R, S, y)
    BY <2>2
  <2>4. /\ Cardinality(Beneath(R, S, x)) <= Cardinality(Beneath(R, S, y))
        /\ Cardinality(Beneath(R, S, x)) # Cardinality(Beneath(R, S, y))
    BY <1>1, <2>1, <2>3, FS_Subset
  <2> QED
    BY <1>2, <2>4
<1> QED
  BY <1>2, <1>3, <1>4

\* Each number below the cardinality is the rank of an element.
LEMMA RanksAreTaken ==
    ASSUME NEW S, IsFiniteSet(S), NEW R, Orders(R, S), NEW n \in 1 .. Cardinality(S)
    PROVE  \E x \in S : Cardinality(Beneath(R, S, x)) = n - 1
<1> DEFINE T == 0 .. Cardinality(S) - 1
           rank == [x \in S |-> Cardinality(Beneath(R, S, x))]
<1>1. Cardinality(S) \in Nat
  BY FS_CardinalityType
<1>2. IsFiniteSet(T) /\ Cardinality(T) = Cardinality(S)
  <2>1. \A a, b \in Int : IsFiniteSet(a .. b) /\ Cardinality(a .. b) = IF a > b THEN 0 ELSE b - a + 1
    BY FS_Interval, Zenon
  <2>2. PICK k \in Int : k = Cardinality(S) - 1
    BY <1>1
  <2>3. IsFiniteSet(0 .. k) /\ Cardinality(0 .. k) = IF 0 > k THEN 0 ELSE k - 0 + 1
    <3>1. 0 \in Int
      OBVIOUS
    <3> QED
      BY <2>1, <3>1, Zenon
  <2>4. Cardinality(0 .. k) = Cardinality(S)
    <3> HIDE DEF T, rank
    <3> QED
      BY <1>1, <2>2, <2>3
  <2> QED
    BY <2>2, <2>3, <2>4
<1>3. rank \in [S -> T]
  BY RanksDiffer
<1>4. \A x, y \in S : rank[x] = rank[y] => x = y
  <2>1. \A x \in S : Cardinality(Beneath(R, S, x)) \in Int
    BY RanksDiffer, <1>1
  <2>2. \A x, y \in S : <<x, y>> \in R =>
            Cardinality(Beneath(R, S, x)) < Cardinality(Beneath(R, S, y))
    BY RanksDiffer
  <2>3. \A x, y \in S : x = y \/ <<x, y>> \in R \/ <<y, x>> \in R
    BY DEF Orders
  <2>4. \A x, y \in S : x # y => Cardinality(Beneath(R, S, x)) # Cardinality(Beneath(R, S, y))
    <3> SUFFICES ASSUME NEW x \in S, NEW y \in S, x # y
                 PROVE  Cardinality(Beneath(R, S, x)) # Cardinality(Beneath(R, S, y))
      OBVIOUS
    <3>1. <<x, y>> \in R \/ <<y, x>> \in R
      BY <2>3
    <3> QED
      BY <2>1, <2>2, <3>1
  <2> QED
    BY <2>4
<1>5. rank \in Injection(S, T)
  BY <1>3, <1>4 DEF Injection, IsInjective
<1>6. rank \in Surjection(S, T)
  <2> HIDE DEF rank, T
  <2> QED
    BY <1>2, <1>5, FS_Injection
<1>7. n - 1 \in T
  BY <1>1
<1>8. \E x \in S : rank[x] = n - 1
  BY <1>6, <1>7 DEF Surjection
<1> QED
  BY <1>8

\* The sequence that has at its n-th place an element of rank n - 1 lists the set.
LEMMA ByRank ==
    ASSUME NEW S, IsFiniteSet(S), NEW R, Orders(R, S), NEW s,
           DOMAIN s = 1 .. Cardinality(S), s = [n \in DOMAIN s |-> s[n]],
           \A n \in 1 .. Cardinality(S) : \A x \in S :
               Cardinality(Beneath(R, S, x)) = n - 1
                   => s[n] \in S /\ Cardinality(Beneath(R, S, s[n])) = n - 1
    PROVE  Lists(s, R, S)
<1>1. Cardinality(S) \in Nat
  BY FS_CardinalityType
<1>2. \A n \in 1 .. Cardinality(S) : s[n] \in S /\ Cardinality(Beneath(R, S, s[n])) = n - 1
  BY RanksAreTaken
<1>3. s \in Seq(S) /\ Len(s) = Cardinality(S)
  <2>1. s = [n \in 1 .. Cardinality(S) |-> s[n]]
    OBVIOUS
  <2>2. s \in [1 .. Cardinality(S) -> S]
    BY <1>2, <2>1
  <2> QED
    BY <1>1, <2>2
<1>4. ASSUME NEW x \in S PROVE \E n \in 1 .. Cardinality(S) : s[n] = x
  <2>1. Cardinality(Beneath(R, S, x)) \in 0 .. Cardinality(S) - 1
    BY RanksDiffer
  <2>2. PICK n \in 1 .. Cardinality(S) : Cardinality(Beneath(R, S, x)) = n - 1
    <3>1. Cardinality(Beneath(R, S, x)) + 1 \in 1 .. Cardinality(S)
      BY <1>1, <2>1
    <3> QED
      BY <1>1, <2>1, <3>1
  <2>3. s[n] \in S /\ Cardinality(Beneath(R, S, s[n])) = Cardinality(Beneath(R, S, x))
    BY <1>2, <2>2
  <2>4. \A y, z \in S : <<y, z>> \in R =>
            Cardinality(Beneath(R, S, y)) < Cardinality(Beneath(R, S, z))
    BY RanksDiffer
  <2>5. s[n] = x \/ <<s[n], x>> \in R \/ <<x, s[n]>> \in R
    BY <2>3 DEF Orders
  <2>6. s[n] = x
    BY <1>1, <2>1, <2>3, <2>4, <2>5
  <2> QED
    BY <2>6
<1>5. ASSUME NEW m \in 1 .. Cardinality(S), NEW n \in 1 .. Cardinality(S), m < n
      PROVE  <<s[m], s[n]>> \in R
  <2>1. /\ s[m] \in S /\ Cardinality(Beneath(R, S, s[m])) = m - 1
        /\ s[n] \in S /\ Cardinality(Beneath(R, S, s[n])) = n - 1
    BY <1>2
  <2>2. s[m] # s[n] /\ ~(<<s[n], s[m]>> \in R)
    BY <1>1, <1>5, <2>1, RanksDiffer
  <2> QED
    BY <2>1, <2>2 DEF Orders
<1> QED
  BY <1>3, <1>4, <1>5 DEF Lists

\* The first of some items.
LEMMA FirstItems ==
    ASSUME NEW S, NEW items \in Seq(S), NEW n \in Nat
    PROVE  /\ First(n, items) \in Seq(S)
           /\ Len(First(n, items)) = IF Len(items) < n THEN Len(items) ELSE n
           /\ \A i \in 1 .. Len(First(n, items)) : First(n, items)[i] = items[i]
           /\ ToSet(First(n, items)) \subseteq ToSet(items)
           /\ Len(items) <= n => ToSet(First(n, items)) = ToSet(items)
<1> DEFINE m == IF Len(items) < n THEN Len(items) ELSE n
<1>1. m \in 0 .. Len(items) /\ Len(items) \in Nat
  OBVIOUS
<1>2. First(n, items) = SubSeq(items, 1, m)
  BY DEF First
<1> HIDE DEF m
<1>3. /\ SubSeq(items, 1, m) \in Seq(S) /\ Len(SubSeq(items, 1, m)) = m
      /\ \A i \in 1 .. m : SubSeq(items, 1, m)[i] = items[i]
  BY <1>1
<1>4. DOMAIN First(n, items) = 1 .. m /\ DOMAIN items = 1 .. Len(items)
  BY <1>2, <1>3
<1>5. ToSet(First(n, items)) \subseteq ToSet(items)
  BY <1>1, <1>2, <1>3, <1>4 DEF ToSet
<1>6. ASSUME Len(items) <= n PROVE ToSet(First(n, items)) = ToSet(items)
  <2>1. m = Len(items)
    BY <1>1, <1>6 DEF m
  <2> QED
    BY <1>2, <1>3, <1>4, <2>1 DEF ToSet
<1> QED
  BY <1>2, <1>3, <1>5, <1>6 DEF m

-----------------------------------------------------------------------------
(* The facts of a bundle.                                                  *)

\* The facts a read selects, and the order in which it gives them.
Read(entities, attributes, t, scopes) ==
    {i \in InScope(HeldAt(entities, t), scopes) : attributes = {} \/ facts[i].attribute \in attributes}

FactBefore(i, j) ==
    \/ Place(facts[i].attribute) < Place(facts[j].attribute)
    \/ facts[i].attribute = facts[j].attribute /\ i < j

ByAttribute(S) == {p \in S \X S : FactBefore(p[1], p[2])}

\* Attributes have places of their own in the alphabet.
LEMMA PlacesDiffer ==
    ASSUME NEW a \in Attribute PROVE Place(a) \in Int /\ Alphabet[Place(a)] = a
<1>1. \E n \in DOMAIN Alphabet : Alphabet[n] = a
  BY CompilerAssumption DEF ToSet
<1>2. Place(a) \in DOMAIN Alphabet /\ Alphabet[Place(a)] = a
  BY <1>1 DEF Place
<1> QED
  BY <1>2, CompilerAssumption

LEMMA FactsAreOrdered ==
    ASSUME TypeOK, NEW S \in SUBSET DOMAIN facts PROVE Orders(ByAttribute(S), S)
<1>1. \A i \in S : i \in Int /\ facts[i].attribute \in Attribute
  <2>1. \A i \in S : facts[i] \in Fact /\ i \in Int
    BY DEF TypeOK
  <2> QED
    BY <2>1 DEF Fact
<1>2. \A i \in S : Place(facts[i].attribute) \in Int
  BY <1>1, PlacesDiffer
<1>3. \A i, j \in S : Place(facts[i].attribute) = Place(facts[j].attribute)
          => facts[i].attribute = facts[j].attribute
  BY <1>1, PlacesDiffer
<1>4. \A x, y \in S : <<x, y>> \in ByAttribute(S) <=> FactBefore(x, y)
  BY DEF ByAttribute
<1>5. \A x \in S : ~FactBefore(x, x)
  BY <1>1, <1>2 DEF FactBefore
<1>6. \A x, y, z \in S : FactBefore(x, y) /\ FactBefore(y, z) => FactBefore(x, z)
  BY <1>1, <1>2 DEF FactBefore
<1>7. \A x, y \in S : x = y \/ FactBefore(x, y) \/ FactBefore(y, x)
  BY <1>1, <1>2, <1>3 DEF FactBefore
<1> QED
  BY <1>4, <1>5, <1>6, <1>7 DEF Orders

\* Sorting as the compiler does it lists a set of facts.
LEMMA SortedFacts ==
    ASSUME TypeOK, NEW S \in SUBSET DOMAIN facts
    PROVE  Lists(Sorted(S, FactBefore), ByAttribute(S), S)
<1> DEFINE s == Sorted(S, FactBefore)
<1>1. IsFiniteSet(S)
  <2>1. DOMAIN facts = 1 .. Len(facts) /\ Len(facts) \in Nat
    BY DEF TypeOK
  <2>2. IsFiniteSet(DOMAIN facts)
    <3>1. \A i, j \in Int : IsFiniteSet(i .. j)
      BY FS_Interval, Zenon
    <3> QED
      BY <2>1, <3>1
  <2> QED
    BY <2>2, FS_Subset
<1>2. \A x \in S : {y \in S : FactBefore(y, x)} = Beneath(ByAttribute(S), S, x)
  BY DEF Beneath, ByAttribute
<1>3. s = [n \in 1 .. Cardinality(S) |->
               CHOOSE x \in S : Cardinality({y \in S : FactBefore(y, x)}) = n - 1]
  BY DEF Sorted
<1>4. DOMAIN s = 1 .. Cardinality(S) /\ s = [n \in DOMAIN s |-> s[n]]
  BY <1>3
<1>5. ASSUME NEW n \in 1 .. Cardinality(S), NEW x \in S,
             Cardinality(Beneath(ByAttribute(S), S, x)) = n - 1
      PROVE  s[n] \in S /\ Cardinality(Beneath(ByAttribute(S), S, s[n])) = n - 1
  <2>1. s[n] = CHOOSE z \in S : Cardinality({y \in S : FactBefore(y, z)}) = n - 1
    BY <1>3
  <2>2. \E z \in S : Cardinality({y \in S : FactBefore(y, z)}) = n - 1
    BY <1>2, <1>5
  <2>3. s[n] \in S /\ Cardinality({y \in S : FactBefore(y, s[n])}) = n - 1
    <3> HIDE DEF s
    <3> QED
      BY <2>1, <2>2, Zenon
  <2> QED
    BY <1>2, <2>3
<1> HIDE DEF s
<1> QED
  BY <1>1, <1>4, <1>5, FactsAreOrdered, ByRank DEF s

\* At an instant an attribute of a deal has one fact, so none is beaten by a later one.
LEMMA CurrentIsRead ==
    ASSUME TypeOK, NeverTwoFacts, NEW entities \in SUBSET Deal, NEW attributes,
           NEW t \in 1 .. clock, NEW scopes
    PROVE  LET read == Read(entities, attributes, t, scopes) IN
           /\ CurrentFacts(entities, attributes, t, scopes).current = Sorted(read, FactBefore)
           /\ read \in SUBSET DOMAIN facts
<1> DEFINE read == Read(entities, attributes, t, scopes)
           latest == {i \in read : \A j \in read :
                         facts[j].deal = facts[i].deal /\ facts[j].attribute = facts[i].attribute => Wins(i, j)}
<1>1. read \in SUBSET DOMAIN facts
  BY DEF Read, InScope, HeldAt
<1>2. \A i \in read : /\ i \in Int /\ facts[i].recorded \in Int
                      /\ facts[i].deal \in Deal /\ facts[i].attribute \in Attribute
                      /\ i \in FactsAt(t, facts[i].deal, facts[i].attribute)
  <2>1. \A i \in read : facts[i] \in Fact /\ i \in Int
    BY <1>1 DEF TypeOK
  <2>2. \A i \in read : facts[i].recorded <= t /\ (facts[i].superseded = Null \/ facts[i].superseded > t)
    BY DEF Read, InScope, HeldAt
  <2> QED
    BY <1>1, <2>1, <2>2 DEF Fact, FactsAt
<1>3. ASSUME NEW i \in read, NEW j \in read,
             facts[j].deal = facts[i].deal, facts[j].attribute = facts[i].attribute
      PROVE  Wins(i, j)
  <2>1. i = j
    BY <1>2, <1>3 DEF NeverTwoFacts
  <2> QED
    BY <1>2, <2>1 DEF Wins
<1>4. latest = read
  BY <1>3
<1>5. CurrentFacts(entities, attributes, t, scopes).current = Sorted(latest, FactBefore)
  BY DEF CurrentFacts, Read, FactBefore
<1> HIDE DEF latest, read
<1> QED
  BY <1>1, <1>4, <1>5 DEF read

\* As many of a size go into a budget as their sizes add up to it.
LEMMA Room ==
    ASSUME NEW b \in Nat, NEW f \in Nat \ {0}
    PROVE  b \div f \in Nat /\ \A k \in Nat : f * k <= b => k <= b \div f
<1> DEFINE q == b \div f
<1>1. q \in Int /\ f * q <= b /\ b < f * q + f
  OBVIOUS
<1> HIDE DEF q
<1>2. q \in Nat
  <2> SUFFICES ASSUME q <= -1 PROVE FALSE
    BY <1>1
  <2>1. f * q <= f * (-1)
    BY <1>1
  <2> QED
    BY <1>1, <2>1
<1>3. ASSUME NEW k \in Nat, f * k <= b PROVE k <= q
  <2> SUFFICES ASSUME k >= q + 1 PROVE FALSE
    BY <1>1
  <2>1. f * k >= f * (q + 1)
    BY <1>1
  <2> QED
    BY <1>1, <1>3, <2>1
<1> QED
  BY <1>2, <1>3 DEF q

\* The attributes of some facts, and those of which a number is known.
Named(read) == {facts[i].attribute : i \in read}

Numbered(read) == {facts[i].attribute : i \in {j \in read : facts[j].attribute \in DOMAIN Value[facts[j].file]}}

\* What engines need that is not given.
LackedBy(engines, given) == UNION {Needs[engines[n]] \ given : n \in DOMAIN engines}

\* A bundle has the facts a read selects, all of them if there is room, and lacks what
\* the task or its engines look for in vain.
Holds(bundle, task, read) ==
    /\ ToSet(bundle.items.facts) \subseteq read
    /\ FactSize * Cardinality(read) <= Budget => ToSet(bundle.items.facts) = read
    /\ bundle.missing = (task.attributes \ Named(read)) \cup LackedBy(task.engines, Numbered(read))

LEMMA BundleHolds ==
    ASSUME TypeOK, NeverTwoFacts, NEW task, NEW entities \in SUBSET Deal, NEW t \in 1 .. clock, NEW scopes
    PROVE  Holds(CompileIn(task, entities, t, scopes), task, Read(entities, task.attributes, t, scopes))
<1> DEFINE read == Read(entities, task.attributes, t, scopes)
           found == CurrentFacts(entities, task.attributes, t, scopes)
           current == found.current
           inputs == EngineInputs(current)
           bundle == CompileIn(task, entities, t, scopes)
<1>1. read \in SUBSET DOMAIN facts /\ Lists(current, ByAttribute(read), read)
  BY CurrentIsRead, SortedFacts
<1>2. current \in Seq(read) /\ ToSet(current) = read /\ Len(current) = Cardinality(read)
  <2> HIDE DEF read, current
  <2> QED
    BY <1>1 DEF Lists, ToSet
<1>3. /\ bundle.items.facts = First((Budget - 0) \div FactSize, current)
      /\ bundle.missing = Missing(task, current, Computed(task, inputs))
  BY DEF CompileIn, CompileFor, Bundle, Pack, Fitting
<1>4. /\ (Budget - 0) \div FactSize \in Nat
      /\ \A k \in Nat : FactSize * k <= Budget => k <= (Budget - 0) \div FactSize
  <2>1. Budget \in Nat /\ FactSize \in Nat \ {0} /\ Budget - 0 = Budget
    BY CompilerAssumption
  <2> QED
    BY <2>1, Room
<1>5. DOMAIN inputs = Numbered(read)
  <2> HIDE DEF read, current
  <2> QED
    BY <1>2 DEF EngineInputs, Numbered
<1>6. Missing(task, current, Computed(task, inputs)) =
          (task.attributes \ Named(read)) \cup LackedBy(task.engines, DOMAIN inputs)
  <2>1. /\ DOMAIN Computed(task, inputs) = DOMAIN task.engines
        /\ \A n \in DOMAIN task.engines :
               Computed(task, inputs)[n].missing = Needs[task.engines[n]] \ DOMAIN inputs
    <3> HIDE DEF inputs, current, read
    <3>1. \A engine : Compute(engine, inputs).missing = Needs[engine] \ DOMAIN inputs
      BY DEF Compute
    <3> QED
      BY <3>1 DEF Computed
  <2>2. {c.missing : c \in ToSet(Computed(task, inputs))} =
            {Needs[task.engines[n]] \ DOMAIN inputs : n \in DOMAIN task.engines}
    <3> HIDE DEF inputs, current, read
    <3> QED
      BY <2>1 DEF ToSet
  <2> HIDE DEF inputs, current, read
  <2> QED
    BY <1>2, <2>2 DEF Missing, Named, LackedBy
<1>7. Cardinality(read) \in Nat
  BY <1>2
<1> HIDE DEF read, current, inputs, bundle
<1>8. /\ ToSet(bundle.items.facts) \subseteq read
      /\ FactSize * Cardinality(read) <= Budget => ToSet(bundle.items.facts) = read
  <2> DEFINE n == (Budget - 0) \div FactSize
  <2>1. n \in Nat /\ (FactSize * Cardinality(read) <= Budget => Len(current) <= n)
    BY <1>2, <1>4, <1>7
  <2>2. bundle.items.facts = First(n, current)
    BY <1>3
  <2> HIDE DEF n
  <2> QED
    BY <1>2, <2>1, <2>2, FirstItems
<1> QED
  BY <1>3, <1>5, <1>6, <1>8 DEF Holds, read, bundle

\* A fact is of an attribute that the extractors of its file found.
LEMMA FactsAreFound ==
    ASSUME TypeOK, Worked, NEW i \in DOMAIN facts
    PROVE  \E k \in DOMAIN Finds[facts[i].file] : Finds[facts[i].file][k] = facts[i].attribute
<1> DEFINE f == facts[i].file
           a == facts[i].attribute
<1>1. f \in File /\ a \in Attribute
  <2>1. facts[i] \in Fact
    BY DEF TypeOK
  <2> QED
    BY <2>1 DEF Fact
<1>2. i \in WrittenOf(f, a)
  BY DEF WrittenOf
<1> HIDE DEF f, a
<1>3. Cardinality(WrittenOf(f, a)) \in Nat /\ Cardinality(WrittenOf(f, a)) # 0
  BY <1>1, <1>2, Counts, FS_EmptySet
<1>4. Cardinality(Places(f, a, Reached(f))) # 0
  <2>1. Cardinality(WrittenOf(f, a)) <= Cardinality(Places(f, a, Reached(f)))
    BY <1>1 DEF Worked, WrittenAsReached
  <2>2. Cardinality(Places(f, a, Reached(f))) \in Nat
    BY <1>1, Counts
  <2> QED
    BY <1>3, <2>1, <2>2
<1>5. Places(f, a, Reached(f)) # {}
  <2>1. Cardinality({}) = 0
    BY FS_EmptySet
  <2> QED
    BY <1>4, <2>1, Zenon
<1>6. \E k \in DOMAIN Finds[f] : Finds[f][k] = a
  BY <1>5 DEF Places
<1> QED
  BY <1>6 DEF f, a

\* A question is of one of the kinds, or of none.
LEMMA KindOf ==
    ASSUME NEW q PROVE Classify(q) \in {"my_work", "where_is", "why", "who", "what_is", "unknown"}
<1> DEFINE I == {n \in 1 .. Len(Kinds) : Kinds[n] \in q.phrases}
           first == SelectInSeq(Kinds, LAMBDA k : k \in q.phrases)
<1>1. first = IF I # {} THEN Min(I) ELSE 0
  BY DEF SelectInSeq
<1>2. Len(Kinds) = 5 /\ I \subseteq 1 .. 5
  BY DEF Kinds
<1>3. I # {} => \E m \in I : \A n \in I : m <= n
  <2> HIDE DEF I
  <2>1. \A n \in I : n = 1 \/ n = 2 \/ n = 3 \/ n = 4 \/ n = 5
    BY <1>2
  <2> QED
    BY <2>1
<1>4. I # {} => Min(I) \in I
  <2> HIDE DEF I
  <2> QED
    BY <1>3 DEF Min
<1>5. first = 0 \/ first \in 1 .. 5
  <2> HIDE DEF I, first
  <2> QED
    BY <1>1, <1>2, <1>4
<1>6. Classify(q) = IF first = 0 THEN "unknown" ELSE Kinds[first]
  BY DEF Classify
<1>7. \A n \in 1 .. 5 : Kinds[n] \in {"my_work", "where_is", "why", "who", "what_is"}
  BY DEF Kinds
<1> HIDE DEF first
<1> QED
  BY <1>5, <1>6, <1>7

\* What the deals of a question have of what it reads is what is known of it.
LEMMA KnownIsRead ==
    ASSUME TypeOK, NEW q, NEW reads, NEW t
    PROVE  Known(q, IF reads = {} THEN Attribute ELSE reads \cap Attribute, t)
               = Read(ResolveEntities(TaskOf(q)), reads, t, q.scopes)
<1> DEFINE entities == ResolveEntities(TaskOf(q))
           wanted == IF reads = {} THEN Attribute ELSE reads \cap Attribute
<1>1. \A i \in DOMAIN facts : facts[i].attribute \in Attribute
  <2>1. \A i \in DOMAIN facts : facts[i] \in Fact
    BY DEF TypeOK
  <2> QED
    BY <2>1 DEF Fact
<1>2. \A a : a \in wanted <=> a \in Attribute /\ (reads = {} \/ a \in reads)
  OBVIOUS
<1>3. ASSUME NEW i
      PROVE  (\E d \in entities, a \in wanted : i \in FactsAt(t, d, a))
             <=> /\ i \in HeldAt(entities, t)
                 /\ reads = {} \/ facts[i].attribute \in reads
  <2> HIDE DEF entities, wanted
  <2> QED
    BY <1>1, <1>2 DEF FactsAt, HeldAt
<1> HIDE DEF wanted
<1>4. Known(q, wanted, t) = Read(entities, reads, t, q.scopes)
  BY <1>3 DEF Known, Read, InScope
<1> QED
  BY <1>4 DEF wanted

\* What an answer quotes and lacks.
LEMMA AnswersAreTrue ==
    ASSUME TypeOK, Worked, NeverTwoFacts, NEW q, NEW t \in 1 .. clock
    PROVE  QuotesTruly(q, AnswerFor(q, t), Known(q, Wanted(q), t))
<1> DEFINE entities == ResolveEntities(TaskOf(q))
           known == Known(q, Wanted(q), t)
           task == TaskOf(q)
           b == CompileIn(task, entities, t, q.scopes)
           answer == AnswerFor(q, t)
           attributes == {facts[i].attribute : i \in known}
           needed == UNION {Needs[e] : e \in ToSet(EnginesIn(q))}
           given == Numbered(known)
<1>1. entities \in SUBSET Deal
  BY DEF ResolveEntities, Registry
<1>2. task.attributes = AttributesIn(q) /\ task.engines = EnginesIn(q)
  BY DEF TaskOf
<1>3. known = Read(entities, AttributesIn(q), t, q.scopes)
  BY KnownIsRead DEF Wanted
<1>4. answer.says = "facts" => answer = FromBundle(b)
  <2>1. \A what : Saying(what).says = what
    BY DEF Saying
  <2>2. answer = IF Classify(q) = "what_is" THEN WhatIs(q, t)
                 ELSE IF Classify(q) = "unknown" THEN Saying("clarify") ELSE Saying(Classify(q))
    BY DEF AnswerFor
  <2>3. WhatIs(q, t) = Compose(q, b)
    BY DEF WhatIs, CompileContext
  <2>4. Compose(q, b).says = "facts" => Compose(q, b) = FromBundle(b)
    <3> HIDE DEF b
    <3>1. CASE b.entities = {}
      <4> DEFINE what == IF q.rows THEN "where_is" ELSE "clarify"
      <4>1. what # "facts"
        OBVIOUS
      <4>2. Compose(q, b) = Saying(what)
        BY <3>1, Zenon DEF Compose
      <4> HIDE DEF what
      <4> QED
        BY <2>1, <4>1, <4>2
    <3>2. CASE b.entities # {} /\ ~CitationsResolve(b.items.facts)
      <4>1. Compose(q, b) = Saying("citations do not reopen")
        BY <3>2, Zenon DEF Compose
      <4>2. "citations do not reopen" # "facts"
        OBVIOUS
      <4>3. Compose(q, b).says = "citations do not reopen"
        BY <2>1, <4>1, Zenon
      <4> QED
        BY <4>2, <4>3, Zenon
    <3>3. CASE b.entities # {} /\ CitationsResolve(b.items.facts)
      BY <3>3, Zenon DEF Compose
    <3> QED
      BY <3>1, <3>2, <3>3
  <2>5. Classify(q) \in {"my_work", "where_is", "why", "who", "what_is", "unknown"}
    BY KindOf
  <2>6. Classify(q) # "facts"
    BY <2>5
  <2> HIDE DEF b, answer
  <2> QED
    BY <2>1, <2>2, <2>3, <2>4, <2>6
<1>5. /\ ToSet(b.items.facts) \subseteq known
      /\ FactSize * Cardinality(known) <= Budget => ToSet(b.items.facts) = known
      /\ b.missing = (AttributesIn(q) \ attributes)
             \cup LackedBy(EnginesIn(q), given)
  <2> HIDE DEF entities, known, task, b
  <2>1. Holds(CompileIn(task, entities, t, q.scopes), task, Read(entities, task.attributes, t, q.scopes))
    BY <1>1, BundleHolds
  <2> QED
    BY <1>2, <1>3, <2>1 DEF Holds, b, Named
<1>6. \A n \in DOMAIN EnginesIn(q) : EnginesIn(q)[n] \in Engine
  BY DEF EnginesIn, Engine
<1>7. known \subseteq DOMAIN facts
  <2> HIDE DEF known, entities
  <2> QED
    BY <1>3 DEF Read, InScope, HeldAt
<1>8. ASSUME NEW i \in known, NEW e \in Engine, facts[i].attribute \in Needs[e]
      PROVE  facts[i].attribute \in given
  <2> HIDE DEF known
  <2>1. facts[i] \in Fact
    BY <1>7 DEF TypeOK
  <2>2. facts[i].file \in File
    BY <2>1 DEF Fact
  <2>3. PICK k \in DOMAIN Finds[facts[i].file] : Finds[facts[i].file][k] = facts[i].attribute
    BY <1>7, FactsAreFound
  <2>4. facts[i].attribute \in DOMAIN Value[facts[i].file]
    BY <1>8, <2>2, <2>3, CompilerAssumption
  <2> QED
    BY <2>4 DEF Numbered
<1>9. /\ AttributesIn(q) \ attributes \subseteq b.missing
      /\ b.missing \subseteq (AttributesIn(q) \cup needed) \ attributes
  <2>1. AttributesIn(q) \ attributes \subseteq b.missing
    <3> HIDE DEF b, attributes, given
    <3> QED
      BY <1>5
  <2>2. ASSUME NEW a \in b.missing PROVE a \in AttributesIn(q) \cup needed /\ a \notin attributes
    <3>1. CASE a \in AttributesIn(q) \ attributes
      <4> HIDE DEF b, attributes, given, needed
      <4> QED
        BY <3>1
    <3>2. CASE \E n \in DOMAIN EnginesIn(q) : a \in Needs[EnginesIn(q)[n]] \ given
      <4>1. PICK n \in DOMAIN EnginesIn(q) : a \in Needs[EnginesIn(q)[n]] /\ a \notin given
        BY <3>2
      <4>2. a \in needed
        <5>1. EnginesIn(q)[n] \in ToSet(EnginesIn(q))
          BY DEF ToSet
        <5> QED
          BY <4>1, <5>1
      <4>3. a \notin attributes
        <5> SUFFICES ASSUME NEW i \in known, a = facts[i].attribute PROVE FALSE
          OBVIOUS
        <5> HIDE DEF known, given
        <5> QED
          BY <1>6, <1>8, <4>1
      <4> QED
        BY <4>2, <4>3
    <3>3. a \in AttributesIn(q) \ attributes \/ \E n \in DOMAIN EnginesIn(q) : a \in Needs[EnginesIn(q)[n]] \ given
      <4> HIDE DEF b, attributes, given, needed
      <4> QED
        BY <1>5, <2>2 DEF LackedBy
    <3> QED
      BY <3>1, <3>2, <3>3
  <2> QED
    BY <2>1, <2>2
<1>10. answer.says = "facts" => answer.quotes = ToSet(b.items.facts) /\ answer.lacks = b.missing
  <2> HIDE DEF answer, b
  <2> QED
    BY <1>4 DEF FromBundle
<1> HIDE DEF answer, b, known, task, given, entities
<1> QED
  BY <1>5, <1>9, <1>10 DEF QuotesTruly, answer, known

\* What is told of a row is known.
LEMMA ContextIsKnown ==
    ASSUME TypeOK, NeverTwoFacts, NEW q
    PROVE  ToSet(GetContext(q).items.facts) \subseteq Known(q, Attribute, clock)
<1> DEFINE task == [TaskOf(q) EXCEPT !.attributes = {}, !.engines = <<>>]
           entities == ResolveEntities(TaskOf(q))
<1>1. task.attributes = {} /\ ResolveEntities(task) = entities
  BY DEF TaskOf, ResolveEntities
<1>2. entities \in SUBSET Deal
  BY DEF ResolveEntities, Registry
<1>3. clock \in 1 .. clock
  BY DEF TypeOK
<1>4. Known(q, Attribute, clock) = Read(entities, {}, clock, q.scopes)
  BY KnownIsRead
<1>5. GetContext(q) = CompileIn(task, entities, clock, q.scopes)
  <2> HIDE DEF entities
  <2> QED
    BY <1>1 DEF GetContext, CompileContext
<1> HIDE DEF task, entities
<1>6. ToSet(CompileIn(task, entities, clock, q.scopes).items.facts) \subseteq Read(entities, task.attributes, clock, q.scopes)
  BY <1>2, <1>3, BundleHolds DEF Holds
<1> QED
  BY <1>1, <1>4, <1>5, <1>6

-----------------------------------------------------------------------------
(* The passages of a bundle.                                               *)

\* The sequence s begins as the elements of S in the order of R do.
Leads(s, R, S) ==
    /\ s \in Seq(S)
    /\ \A m, n \in DOMAIN s : m < n => <<s[m], s[n]>> \in R /\ s[m] # s[n]
    /\ \A x \in S : \A n \in DOMAIN s : <<x, s[n]>> \in R => \E m \in DOMAIN s : m < n /\ s[m] = x

LEMMA FirstLead ==
    ASSUME NEW S, NEW R, Orders(R, S), NEW full, Lists(full, R, S), NEW n \in Nat
    PROVE  Leads(First(n, full), R, S)
<1> DEFINE s == First(n, full)
<1>1. full \in Seq(S)
  BY DEF Lists
<1>2. /\ s \in Seq(S) /\ Len(s) <= Len(full)
      /\ \A i \in 1 .. Len(s) : s[i] = full[i]
  <2>1. /\ First(n, full) \in Seq(S)
        /\ Len(First(n, full)) = IF Len(full) < n THEN Len(full) ELSE n
        /\ \A i \in 1 .. Len(First(n, full)) : First(n, full)[i] = full[i]
    BY <1>1, FirstItems
  <2>2. Len(full) \in Nat
    BY <1>1
  <2> QED
    BY <2>1, <2>2
<1> HIDE DEF s
<1>3. /\ DOMAIN s = 1 .. Len(s) /\ Len(s) \in Nat
      /\ DOMAIN full = 1 .. Len(full) /\ Len(full) \in Nat
  BY <1>1, <1>2
<1>4. \A i \in DOMAIN s : i \in DOMAIN full /\ s[i] = full[i] /\ s[i] \in S
  BY <1>2, <1>3
<1>5. \A i, j \in DOMAIN full : i < j => <<full[i], full[j]>> \in R
  BY DEF Lists
<1>6. \A i, j \in DOMAIN s : i < j => <<s[i], s[j]>> \in R /\ s[i] # s[j]
  BY <1>4, <1>5 DEF Orders
<1>7. ASSUME NEW x \in S, NEW k \in DOMAIN s, <<x, s[k]>> \in R
      PROVE  \E m \in DOMAIN s : m < k /\ s[m] = x
  <2>1. PICK m \in DOMAIN full : full[m] = x
    BY DEF Lists
  <2>2. s[k] \in S /\ s[k] = full[k] /\ k \in DOMAIN full
    BY <1>4
  <2>3. ~(<<s[k], x>> \in R) /\ x # s[k]
    BY <1>7, <2>2 DEF Orders
  <2>4. m < k
    BY <1>3, <1>5, <2>1, <2>2, <2>3
  <2>5. m \in DOMAIN s
    BY <1>3, <2>4
  <2> QED
    BY <1>4, <2>1, <2>4, <2>5
<1> QED
  BY <1>2, <1>6, <1>7 DEF Leads, s

MeasuresMore(M, f, g) == M[f] > M[g] \/ (M[f] = M[g] /\ f < g)

ByMeasure(M, S) == {p \in S \X S : MeasuresMore(M, p[1], p[2])}

\* A ranking begins as the order of its measure does.
LEMMA RankingLeads ==
    ASSUME NEW S \in SUBSET File, NEW M \in [File -> Int]
    PROVE  Leads(Ranked(S, M), ByMeasure(M, S), S)
<1> DEFINE full == Sorted(S, LAMBDA f, g : M[f] > M[g] \/ (M[f] = M[g] /\ f < g))
<1>1. IsFiniteSet(S)
  BY IntegrityAssumption, FS_Subset
<1>2. \A x \in S : x \in Int /\ M[x] \in Int
  BY MemoryAssumption
<1>3. \A x, y \in S : <<x, y>> \in ByMeasure(M, S) <=> MeasuresMore(M, x, y)
  BY DEF ByMeasure
<1>4. Orders(ByMeasure(M, S), S)
  BY <1>2, <1>3 DEF Orders, MeasuresMore
<1>5. \A x \in S : {y \in S : MeasuresMore(M, y, x)} = Beneath(ByMeasure(M, S), S, x)
  BY <1>3 DEF Beneath
<1>6. full = [n \in 1 .. Cardinality(S) |->
                  CHOOSE x \in S : Cardinality({y \in S : MeasuresMore(M, y, x)}) = n - 1]
  BY DEF Sorted, MeasuresMore
<1>7. Ranked(S, M) = First(2 * Limit, full)
  BY DEF Ranked
<1>8. DOMAIN full = 1 .. Cardinality(S) /\ full = [n \in DOMAIN full |-> full[n]]
  BY <1>6
<1> HIDE DEF full
<1>9. ASSUME NEW n \in 1 .. Cardinality(S), NEW x \in S,
             Cardinality(Beneath(ByMeasure(M, S), S, x)) = n - 1
      PROVE  full[n] \in S /\ Cardinality(Beneath(ByMeasure(M, S), S, full[n])) = n - 1
  <2>1. full[n] = CHOOSE z \in S : Cardinality({y \in S : MeasuresMore(M, y, z)}) = n - 1
    BY <1>6
  <2>2. \E z \in S : Cardinality({y \in S : MeasuresMore(M, y, z)}) = n - 1
    BY <1>5, <1>9
  <2>3. full[n] \in S /\ Cardinality({y \in S : MeasuresMore(M, y, full[n])}) = n - 1
    BY <2>1, <2>2, Zenon
  <2> QED
    BY <1>5, <2>3
<1>10. Lists(full, ByMeasure(M, S), S)
  BY <1>1, <1>4, <1>8, <1>9, ByRank
<1>11. 2 * Limit \in Nat
  BY CompilerAssumption
<1> QED
  BY <1>4, <1>7, <1>10, <1>11, FirstLead

\* The rank of what was ranked is its place, and what measures more is before it.
LEMMA RankIs ==
    ASSUME NEW S \in SUBSET File, NEW M \in [File -> Int]
    PROVE  LET r == Ranked(S, M) IN
           /\ r \in Seq(S) /\ ToSet(r) \subseteq S /\ Len(r) \in Nat
           /\ \A f : f \notin ToSet(r) => RankIn(r, f) = 0 /\ ~Contains(r, f)
           /\ \A f \in ToSet(r) : RankIn(r, f) \in 1 .. Len(r) /\ r[RankIn(r, f)] = f /\ Contains(r, f)
           /\ \A f \in ToSet(r), g \in S :
                  M[g] > M[f] => g \in ToSet(r) /\ RankIn(r, g) < RankIn(r, f)
<1> DEFINE r == Ranked(S, M)
           R == ByMeasure(M, S)
<1>1. Leads(r, R, S)
  BY RankingLeads
<1> HIDE DEF r
<1>2. r \in Seq(S) /\ DOMAIN r = 1 .. Len(r) /\ Len(r) \in Nat
  BY <1>1 DEF Leads
<1>3. ToSet(r) \subseteq S
  BY <1>2 DEF ToSet
<1>4. \A f : Contains(r, f) <=> f \in ToSet(r)
  BY <1>2 DEF Contains, ToSet
<1>5. ASSUME NEW f \in ToSet(r) PROVE RankIn(r, f) \in DOMAIN r /\ r[RankIn(r, f)] = f
  <2>1. \E n \in DOMAIN r : r[n] = f
    BY DEF ToSet
  <2>2. RankIn(r, f) = CHOOSE n \in DOMAIN r : r[n] = f
    BY <1>4 DEF RankIn
  <2> QED
    BY <2>1, <2>2, Zenon
<1>6. ASSUME NEW f \in ToSet(r), NEW g \in S, M[g] > M[f]
      PROVE  g \in ToSet(r) /\ RankIn(r, g) < RankIn(r, f)
  <2>1. <<g, f>> \in R
    BY <1>3, <1>6 DEF ByMeasure, MeasuresMore
  <2>2. PICK m \in DOMAIN r : m < RankIn(r, f) /\ r[m] = g
    <3> HIDE DEF R
    <3> QED
      BY <1>1, <1>5, <2>1 DEF Leads
  <2>3. g \in ToSet(r)
    BY <2>2 DEF ToSet
  <2>4. RankIn(r, g) \in DOMAIN r /\ r[RankIn(r, g)] = g
    BY <1>5, <2>3
  <2>5. \A i, j \in DOMAIN r : i < j => r[i] # r[j]
    BY <1>1 DEF Leads
  <2>6. RankIn(r, g) = m
    BY <1>2, <2>2, <2>4, <2>5
  <2> QED
    BY <2>2, <2>3, <2>6
<1>7. \A f : f \notin ToSet(r) => RankIn(r, f) = 0
  BY <1>4 DEF RankIn
<1> QED
  BY <1>2, <1>3, <1>4, <1>5, <1>6, <1>7 DEF r

\* Fractions with positive parts compare by their cross products, transitively.
LEMMA FractionsCompare ==
    ASSUME NEW a \in Nat \ {0}, NEW b \in Nat \ {0}, NEW c \in Nat \ {0}, NEW d \in Nat \ {0},
           NEW e \in Nat \ {0}, NEW h \in Nat \ {0}, a * d >= c * b, c * h >= e * d
    PROVE  /\ a * h >= e * b
           /\ a * d > c * b \/ c * h > e * d => a * h > e * b
<1>1. /\ a * d \in Int /\ c * b \in Int /\ c * h \in Int /\ e * d \in Int
      /\ a * h \in Int /\ e * b \in Int
  OBVIOUS
<1>2. \A x, y \in Int, z \in Nat \ {0} : (x >= y => x * z >= y * z) /\ (x > y => x * z > y * z)
  OBVIOUS
<1>3. /\ (a * d) * h >= (c * b) * h /\ (c * h) * b >= (e * d) * b
      /\ a * d > c * b => (a * d) * h > (c * b) * h
      /\ c * h > e * d => (c * h) * b > (e * d) * b
  BY <1>1, <1>2
<1>4. (a * d) * h = (a * h) * d /\ (c * b) * h = (c * h) * b /\ (e * d) * b = (e * b) * d
  OBVIOUS
<1>5. /\ (a * h) * d >= (e * b) * d
      /\ a * d > c * b \/ c * h > e * d => (a * h) * d > (e * b) * d
  <2>1. (a * h) * d \in Int /\ (c * h) * b \in Int /\ (e * b) * d \in Int
    OBVIOUS
  <2> QED
    BY <1>3, <1>4, <2>1
<1>6. ASSUME ~(a * h >= e * b) PROVE FALSE
  <2>1. e * b > a * h
    BY <1>1, <1>6
  <2>2. (e * b) * d > (a * h) * d
    BY <1>1, <1>2, <2>1
  <2> QED
    BY <1>5, <2>2
<1>7. ASSUME a * d > c * b \/ c * h > e * d, ~(a * h > e * b) PROVE FALSE
  <2>1. e * b >= a * h
    BY <1>1, <1>7
  <2>2. (e * b) * d >= (a * h) * d
    BY <1>1, <1>2, <2>1
  <2> QED
    BY <1>5, <1>7, <2>2
<1> QED
  BY <1>6, <1>7

\* A passage before another in each ranking that has the other has the higher score.
LEMMA BetterScores ==
    ASSUME NEW l \in Nat, NEW v \in Nat, NEW m \in Nat, NEW w \in Nat, l # 0 \/ v # 0,
           l # 0 => m # 0 /\ m < l, v # 0 => w # 0 /\ w < v
    PROVE  Fused(m, w)[1] * Fused(l, v)[2] > Fused(l, v)[1] * Fused(m, w)[2]
<1> DEFINE L == 60 + l
           V == 60 + v
           M == 60 + m
           W == 60 + w
<1>1. L \in Nat \ {0} /\ V \in Nat \ {0} /\ M \in Nat \ {0} /\ W \in Nat \ {0}
  OBVIOUS
<1>2. (l # 0 => M < L) /\ (v # 0 => W < V)
  OBVIOUS
<1>3. /\ Fused(l, v) = CASE l = 0 -> <<1, V>> [] v = 0 -> <<1, L>> [] OTHER -> <<L + V, L * V>>
      /\ Fused(m, w) = CASE m = 0 -> <<1, W>> [] w = 0 -> <<1, M>> [] OTHER -> <<M + W, M * W>>
  BY DEF Fused
<1> HIDE DEF L, V, M, W
<1>4. CASE l # 0 /\ v # 0
  <2>1. Fused(l, v) = <<L + V, L * V>> /\ Fused(m, w) = <<M + W, M * W>>
    BY <1>3, <1>4
  <2>2. (M * L) * V > (M * L) * W /\ (W * V) * L > (W * V) * M
    <3>1. \A x \in Nat \ {0}, y, z \in Nat : y > z => x * y > x * z
      OBVIOUS
    <3>2. M * L \in Nat \ {0} /\ W * V \in Nat \ {0}
      BY <1>1
    <3> QED
      BY <1>1, <1>2, <1>4, <3>1, <3>2
  <2>3. (M + W) * (L * V) = (M * L) * V + (W * V) * L
    BY <1>1
  <2>4. (L + V) * (M * W) = (M * L) * W + (W * V) * M
    BY <1>1
  <2>5. (M + W) * (L * V) > (L + V) * (M * W)
    <3>1. (M * L) * V \in Int /\ (M * L) * W \in Int /\ (W * V) * L \in Int /\ (W * V) * M \in Int
      BY <1>1
    <3> QED
      BY <2>2, <2>3, <2>4, <3>1
  <2> QED
    BY <2>1, <2>5
<1>5. CASE l # 0 /\ v = 0
  <2>1. Fused(l, v) = <<1, L>>
    BY <1>3, <1>5
  <2>2. CASE w = 0
    <3>1. Fused(m, w) = <<1, M>>
      BY <1>3, <1>5, <2>2
    <3> QED
      BY <1>1, <1>2, <1>5, <2>1, <3>1
  <2>3. CASE w # 0
    <3>1. Fused(m, w) = <<M + W, M * W>>
      BY <1>3, <1>5, <2>3
    <3>2. L * W > M * W
      BY <1>1, <1>2, <1>5
    <3>3. (M + W) * L = M * L + L * W /\ M * L \in Nat \ {0} /\ L * W \in Nat /\ M * W \in Nat
      BY <1>1
    <3>4. (M + W) * L > 1 * (M * W)
      BY <3>2, <3>3
    <3> QED
      BY <2>1, <3>1, <3>4
  <2> QED
    BY <2>2, <2>3
<1>6. CASE l = 0 /\ v # 0
  <2>1. Fused(l, v) = <<1, V>>
    BY <1>3, <1>6
  <2>2. CASE m = 0
    <3>1. Fused(m, w) = <<1, W>>
      BY <1>3, <1>6, <2>2
    <3> QED
      BY <1>1, <1>2, <1>6, <2>1, <3>1
  <2>3. CASE m # 0
    <3>1. Fused(m, w) = <<M + W, M * W>>
      BY <1>3, <1>6, <2>3
    <3>2. V * M > W * M
      BY <1>1, <1>2, <1>6
    <3>3. (M + W) * V = V * M + V * W /\ V * W \in Nat \ {0} /\ V * M \in Nat /\ M * W \in Nat /\ W * M = M * W
      BY <1>1
    <3>4. (M + W) * V > 1 * (M * W)
      BY <3>2, <3>3
    <3> QED
      BY <2>1, <3>1, <3>4
  <2> QED
    BY <2>2, <2>3
<1> QED
  BY <1>4, <1>5, <1>6

\* A score is a fraction.
LEMMA ScoreType ==
    ASSUME NEW l \in Nat, NEW v \in Nat
    PROVE  Fused(l, v)[1] \in Nat \ {0} /\ Fused(l, v)[2] \in Nat \ {0}
<1>1. \A x, y \in Nat \ {0} : x + y \in Nat \ {0} /\ x * y \in Nat \ {0}
  OBVIOUS
<1>2. 60 + l \in Nat \ {0} /\ 60 + v \in Nat \ {0}
  OBVIOUS
<1> QED
  BY <1>1, <1>2 DEF Fused

\* What two rankings of candidates say of a passage, and which of two comes first.
ScoreOf(lexical, vector, f) == Fused(RankIn(lexical, f), RankIn(vector, f))

CameAt(lexical, vector, f) ==
    IF Contains(lexical, f) THEN RankIn(lexical, f) ELSE Len(lexical) + RankIn(vector, f)

Product(lexical, vector, f, g) == ScoreOf(lexical, vector, f)[1] * ScoreOf(lexical, vector, g)[2]

IsAbove(lexical, vector, f, g) ==
    \/ Product(lexical, vector, f, g) > Product(lexical, vector, g, f)
    \/ /\ Product(lexical, vector, f, g) = Product(lexical, vector, g, f)
       /\ CameAt(lexical, vector, f) < CameAt(lexical, vector, g)

ByScore(lexical, vector, S) == {p \in S \X S : IsAbove(lexical, vector, p[1], p[2])}

\* The score, and then how it came, orders what was ranked.
LEMMA ScoresOrder ==
    ASSUME NEW A \in SUBSET File, NEW B \in SUBSET File
    PROVE  LET lexical == Ranked(A, Relevance)
               vector == Ranked(B, Nearness)
               U == ToSet(lexical) \cup ToSet(vector)
           IN  Orders(ByScore(lexical, vector, U), U)
<1> DEFINE lexical == Ranked(A, Relevance)
           vector == Ranked(B, Nearness)
           U == ToSet(lexical) \cup ToSet(vector)
           P(f, g) == Product(lexical, vector, f, g)
           Came(f) == CameAt(lexical, vector, f)
<1>1. Relevance \in [File -> Int] /\ Nearness \in [File -> Int]
  BY CompilerAssumption
<1>2. /\ Len(lexical) \in Nat /\ Len(vector) \in Nat
      /\ \A f : f \notin ToSet(lexical) => RankIn(lexical, f) = 0 /\ ~Contains(lexical, f)
      /\ \A f : f \notin ToSet(vector) => RankIn(vector, f) = 0
      /\ \A f \in ToSet(lexical) : /\ RankIn(lexical, f) \in 1 .. Len(lexical)
                                   /\ lexical[RankIn(lexical, f)] = f /\ Contains(lexical, f)
      /\ \A f \in ToSet(vector) : RankIn(vector, f) \in 1 .. Len(vector) /\ vector[RankIn(vector, f)] = f
  BY <1>1, RankIs
<1> HIDE DEF lexical, vector
<1>3. \A f : RankIn(lexical, f) \in Nat /\ RankIn(vector, f) \in Nat
  BY <1>2
<1>4. \A f : /\ ScoreOf(lexical, vector, f)[1] \in Nat \ {0}
             /\ ScoreOf(lexical, vector, f)[2] \in Nat \ {0}
  BY <1>3, ScoreType DEF ScoreOf
<1>5. \A f, g \in U : Came(f) \in Int /\ (Came(f) = Came(g) => f = g)
  <2>1. \A f \in ToSet(lexical) : Came(f) = RankIn(lexical, f) /\ Came(f) \in 1 .. Len(lexical)
    BY <1>2 DEF CameAt
  <2>2. \A f \in U \ ToSet(lexical) : /\ Came(f) = Len(lexical) + RankIn(vector, f)
                                      /\ RankIn(vector, f) \in 1 .. Len(vector)
    BY <1>2 DEF CameAt
  <2> HIDE DEF Came
  <2>3. \A f \in U : Came(f) \in Int
    BY <1>2, <2>1, <2>2
  <2>4. ASSUME NEW f \in U, NEW g \in U, Came(f) = Came(g) PROVE f = g
    <3>1. CASE f \in ToSet(lexical) /\ g \in ToSet(lexical)
      BY <1>2, <2>1, <2>4, <3>1
    <3>2. CASE f \in ToSet(lexical) /\ g \notin ToSet(lexical)
      BY <1>2, <2>1, <2>2, <2>4, <3>2
    <3>3. CASE f \notin ToSet(lexical) /\ g \in ToSet(lexical)
      BY <1>2, <2>1, <2>2, <2>4, <3>3
    <3>4. CASE f \notin ToSet(lexical) /\ g \notin ToSet(lexical)
      <4>1. RankIn(vector, f) = RankIn(vector, g)
        BY <1>2, <1>3, <2>2, <2>4, <3>4
      <4> QED
        BY <1>2, <3>4, <4>1
    <3> QED
      BY <3>1, <3>2, <3>3, <3>4
  <2> QED
    BY <2>3, <2>4
<1>6. \A f, g : P(f, g) \in Int
  BY <1>4 DEF Product
<1>7. ASSUME NEW f, NEW g, NEW h, P(f, g) >= P(g, f), P(g, h) >= P(h, g)
      PROVE  /\ P(f, h) >= P(h, f)
             /\ P(f, g) > P(g, f) \/ P(g, h) > P(h, g) => P(f, h) > P(h, f)
  <2> DEFINE a == ScoreOf(lexical, vector, f)[1]
             b == ScoreOf(lexical, vector, f)[2]
             c == ScoreOf(lexical, vector, g)[1]
             d == ScoreOf(lexical, vector, g)[2]
             e == ScoreOf(lexical, vector, h)[1]
             k == ScoreOf(lexical, vector, h)[2]
  <2>1. /\ a \in Nat \ {0} /\ b \in Nat \ {0} /\ c \in Nat \ {0}
        /\ d \in Nat \ {0} /\ e \in Nat \ {0} /\ k \in Nat \ {0}
    BY <1>4
  <2>2. /\ P(f, g) = a * d /\ P(g, f) = c * b /\ P(g, h) = c * k
        /\ P(h, g) = e * d /\ P(f, h) = a * k /\ P(h, f) = e * b
    BY DEF Product
  <2> HIDE DEF P, a, b, c, d, e, k
  <2>3. a * d >= c * b /\ c * k >= e * d
    BY <1>7, <2>2
  <2>4. a * k >= e * b /\ (a * d > c * b \/ c * k > e * d => a * k > e * b)
    BY <2>1, <2>3, FractionsCompare
  <2> QED
    BY <2>2, <2>4
<1>8. \A f, g \in U : <<f, g>> \in ByScore(lexical, vector, U) <=> IsAbove(lexical, vector, f, g)
  <2> HIDE DEF U
  <2> QED
    BY DEF ByScore
<1>9. \A f, g : IsAbove(lexical, vector, f, g)
                <=> P(f, g) > P(g, f) \/ (P(f, g) = P(g, f) /\ Came(f) < Came(g))
  BY DEF IsAbove
<1> HIDE DEF P, Came, U
<1>10. \A f \in U : ~IsAbove(lexical, vector, f, f)
  BY <1>5, <1>6, <1>9
<1>11. ASSUME NEW f \in U, NEW g \in U, NEW h \in U,
              IsAbove(lexical, vector, f, g), IsAbove(lexical, vector, g, h)
       PROVE  IsAbove(lexical, vector, f, h)
  <2>1. P(f, g) >= P(g, f) /\ P(g, h) >= P(h, g)
    BY <1>6, <1>9, <1>11
  <2>2. P(f, h) >= P(h, f) /\ (P(f, g) > P(g, f) \/ P(g, h) > P(h, g) => P(f, h) > P(h, f))
    BY <1>7, <2>1
  <2>3. CASE P(f, g) > P(g, f) \/ P(g, h) > P(h, g)
    BY <1>9, <2>2, <2>3
  <2>4. CASE ~(P(f, g) > P(g, f)) /\ ~(P(g, h) > P(h, g))
    <3>1. Came(f) < Came(g) /\ Came(g) < Came(h)
      BY <1>9, <1>11, <2>4
    <3>2. Came(f) < Came(h)
      BY <1>5, <3>1
    <3> QED
      BY <1>6, <1>9, <2>2, <3>2
  <2> QED
    BY <2>3, <2>4
<1>12. \A f, g \in U : f = g \/ IsAbove(lexical, vector, f, g) \/ IsAbove(lexical, vector, g, f)
  BY <1>5, <1>6, <1>9
<1>13. Orders(ByScore(lexical, vector, U), U)
  BY <1>8, <1>10, <1>11, <1>12 DEF Orders
<1> QED
  BY <1>13 DEF U, lexical, vector

\* The passages a bundle takes from the rankings.
LEMMA PassagesLead ==
    ASSUME NEW A \in SUBSET File, NEW B \in SUBSET File
    PROVE  LET lexical == Ranked(A, Relevance)
               vector == Ranked(B, Nearness)
               U == ToSet(lexical) \cup ToSet(vector)
           IN  Leads(First(Limit, Sorted(U, LAMBDA f, g : IsAbove(lexical, vector, f, g))),
                     ByScore(lexical, vector, U), U)
<1> DEFINE lexical == Ranked(A, Relevance)
           vector == Ranked(B, Nearness)
           U == ToSet(lexical) \cup ToSet(vector)
           full == Sorted(U, LAMBDA f, g : IsAbove(lexical, vector, f, g))
<1>1. Orders(ByScore(lexical, vector, U), U)
  BY ScoresOrder
<1>2. IsFiniteSet(U)
  <2>1. Relevance \in [File -> Int] /\ Nearness \in [File -> Int]
    BY CompilerAssumption
  <2>2. ToSet(lexical) \subseteq A /\ ToSet(vector) \subseteq B
    BY <2>1, RankIs
  <2>3. U \in SUBSET File
    <3> HIDE DEF lexical, vector
    <3> QED
      BY <2>2
  <2> QED
    BY <2>3, IntegrityAssumption, FS_Subset
<1> HIDE DEF lexical, vector
<1>3. \A x, y \in U : <<x, y>> \in ByScore(lexical, vector, U) <=> IsAbove(lexical, vector, x, y)
  <2> HIDE DEF U
  <2> QED
    BY DEF ByScore
<1> HIDE DEF U
<1>4. \A x \in U : {y \in U : IsAbove(lexical, vector, y, x)} = Beneath(ByScore(lexical, vector, U), U, x)
  BY <1>3 DEF Beneath
<1>5. full = [n \in 1 .. Cardinality(U) |->
                  CHOOSE x \in U : Cardinality({y \in U : IsAbove(lexical, vector, y, x)}) = n - 1]
  BY DEF Sorted
<1>6. DOMAIN full = 1 .. Cardinality(U) /\ full = [n \in DOMAIN full |-> full[n]]
  BY <1>5
<1> HIDE DEF full
<1>7. ASSUME NEW n \in 1 .. Cardinality(U), NEW x \in U,
             Cardinality(Beneath(ByScore(lexical, vector, U), U, x)) = n - 1
      PROVE  full[n] \in U /\ Cardinality(Beneath(ByScore(lexical, vector, U), U, full[n])) = n - 1
  <2>1. full[n] = CHOOSE z \in U : Cardinality({y \in U : IsAbove(lexical, vector, y, z)}) = n - 1
    BY <1>5
  <2>2. \E z \in U : Cardinality({y \in U : IsAbove(lexical, vector, y, z)}) = n - 1
    BY <1>4, <1>7
  <2>3. full[n] \in U /\ Cardinality({y \in U : IsAbove(lexical, vector, y, full[n])}) = n - 1
    BY <2>1, <2>2, Zenon
  <2> QED
    BY <1>4, <2>3
<1>8. Lists(full, ByScore(lexical, vector, U), U)
  BY <1>1, <1>2, <1>6, <1>7, ByRank
<1>9. Limit \in Nat
  BY CompilerAssumption
<1>10. Leads(First(Limit, full), ByScore(lexical, vector, U), U)
  BY <1>1, <1>8, <1>9, FirstLead
<1> QED
  BY <1>10 DEF full, U, lexical, vector

\* No passage is left out for one that both rankings put after it.
LEMMA PassagesAre ==
    ASSUME NEW q, NEW entities
    PROVE  BestPassages(q, entities)
<1> DEFINE candidates == Candidates(entities, q.scopes)
           A == {f \in candidates : Relevance[f] > 0}
           lexical == Ranked(A, Relevance)
           vector == Ranked(candidates, Nearness)
           U == ToSet(lexical) \cup ToSet(vector)
           items == First(Limit, Sorted(U, LAMBDA f, g : IsAbove(lexical, vector, f, g)))
           retrieved == Retrieve(TaskOf(q), entities, q.scopes).items
           taken == ToSet(retrieved)
<1>1. candidates \in SUBSET File /\ A \in SUBSET File
  BY DEF Candidates, ChunksIn
<1>2. Relevance \in [File -> Int] /\ Nearness \in [File -> Int] /\ \A f \in File : Relevance[f] \in Nat
  BY CompilerAssumption
<1>3. retrieved = IF q.words # {} THEN items ELSE <<>>
  BY DEF Retrieve, TaskOf, IsAbove, Product, ScoreOf, CameAt
<1>4. Leads(items, ByScore(lexical, vector, U), U)
  BY <1>1, PassagesLead
<1>5. /\ ToSet(lexical) \subseteq A
      /\ \A f : f \notin ToSet(lexical) => RankIn(lexical, f) = 0
      /\ \A f \in ToSet(lexical) : RankIn(lexical, f) \in Nat \ {0}
      /\ \A f \in ToSet(lexical), g \in A :
             Relevance[g] > Relevance[f] => g \in ToSet(lexical) /\ RankIn(lexical, g) < RankIn(lexical, f)
  <2> HIDE DEF A, candidates
  <2>1. /\ ToSet(lexical) \subseteq A /\ Len(lexical) \in Nat
        /\ \A f : f \notin ToSet(lexical) => RankIn(lexical, f) = 0
        /\ \A f \in ToSet(lexical) : RankIn(lexical, f) \in 1 .. Len(lexical)
        /\ \A f \in ToSet(lexical), g \in A :
               Relevance[g] > Relevance[f] => g \in ToSet(lexical) /\ RankIn(lexical, g) < RankIn(lexical, f)
    BY <1>1, <1>2, RankIs
  <2> HIDE DEF lexical
  <2> QED
    BY <2>1
<1>6. /\ ToSet(vector) \subseteq candidates
      /\ \A f : f \notin ToSet(vector) => RankIn(vector, f) = 0
      /\ \A f \in ToSet(vector) : RankIn(vector, f) \in Nat \ {0}
      /\ \A f \in ToSet(vector), g \in candidates :
             Nearness[g] > Nearness[f] => g \in ToSet(vector) /\ RankIn(vector, g) < RankIn(vector, f)
  <2> HIDE DEF A, candidates
  <2>1. /\ ToSet(vector) \subseteq candidates /\ Len(vector) \in Nat
        /\ \A f : f \notin ToSet(vector) => RankIn(vector, f) = 0
        /\ \A f \in ToSet(vector) : RankIn(vector, f) \in 1 .. Len(vector)
        /\ \A f \in ToSet(vector), g \in candidates :
               Nearness[g] > Nearness[f] => g \in ToSet(vector) /\ RankIn(vector, g) < RankIn(vector, f)
    BY <1>1, <1>2, RankIs
  <2> HIDE DEF vector
  <2> QED
    BY <2>1
<1>7. \A f \in A : f \in candidates /\ Relevance[f] > 0
  OBVIOUS
<1>8. \A g \in candidates : Relevance[g] > 0 => g \in A
  OBVIOUS
<1> HIDE DEF A, lexical, vector, items, retrieved
<1>9. U \subseteq candidates
  BY <1>5, <1>6, <1>7
<1>10. taken \subseteq U /\ \A f \in taken : retrieved = items /\ f \in ToSet(items)
  <2>1. items \in Seq(U)
    BY <1>4 DEF Leads
  <2>2. ToSet(items) \subseteq U
    <3> HIDE DEF U
    <3> QED
      BY <2>1 DEF ToSet
  <2>3. ToSet(<<>>) = {}
    BY DEF ToSet
  <2> QED
    BY <1>3, <2>2, <2>3
<1>11. ASSUME NEW f \in taken, NEW g \in candidates \ taken,
              Relevance[g] > Relevance[f], Nearness[g] > Nearness[f]
       PROVE  FALSE
  <2>1. f \in U /\ f \in File /\ g \in File /\ g \in candidates
    BY <1>1, <1>9, <1>10
  <2>2. f \in ToSet(lexical) => g \in ToSet(lexical) /\ RankIn(lexical, g) < RankIn(lexical, f)
    <3> SUFFICES ASSUME f \in ToSet(lexical)
                 PROVE  g \in ToSet(lexical) /\ RankIn(lexical, g) < RankIn(lexical, f)
      OBVIOUS
    <3>1. Relevance[f] > 0
      BY <1>5, <1>7
    <3>2. g \in A
      BY <1>2, <1>8, <1>11, <2>1, <3>1
    <3> QED
      BY <1>5, <1>11, <3>2
  <2>3. f \in ToSet(vector) => g \in ToSet(vector) /\ RankIn(vector, g) < RankIn(vector, f)
    BY <1>6, <1>11, <2>1
  <2>4. g \in U
    BY <2>1, <2>2, <2>3
  <2>5. Product(lexical, vector, g, f) > Product(lexical, vector, f, g)
    <3> DEFINE l == RankIn(lexical, f)
               v == RankIn(vector, f)
               m == RankIn(lexical, g)
               w == RankIn(vector, g)
    <3>1. l \in Nat /\ v \in Nat /\ m \in Nat /\ w \in Nat
      BY <1>5, <1>6
    <3>2. /\ l # 0 \/ v # 0
          /\ l # 0 => m # 0 /\ m < l
          /\ v # 0 => w # 0 /\ w < v
      BY <1>5, <1>6, <2>1, <2>2, <2>3
    <3> HIDE DEF l, v, m, w
    <3>3. Fused(m, w)[1] * Fused(l, v)[2] > Fused(l, v)[1] * Fused(m, w)[2]
      BY <3>1, <3>2, BetterScores
    <3> QED
      BY <3>3 DEF Product, ScoreOf, l, v, m, w
  <2>6. <<g, f>> \in ByScore(lexical, vector, U)
    <3> HIDE DEF U
    <3> QED
      BY <2>1, <2>4, <2>5 DEF ByScore, IsAbove
  <2>7. PICK n \in DOMAIN items : items[n] = f
    BY <1>10, <1>11 DEF ToSet
  <2>8. \E m \in DOMAIN items : items[m] = g
    <3> HIDE DEF U
    <3> QED
      BY <1>4, <2>4, <2>6, <2>7 DEF Leads
  <2>9. g \in taken
    BY <1>10, <1>11, <2>8 DEF ToSet
  <2> QED
    BY <1>11, <2>9
<1>12. \A f \in taken : /\ ScopeOf[f] \in q.scopes
                        /\ entities # {} => Resolved(f) \cap entities # {}
  BY <1>9, <1>10 DEF Candidates, ChunksIn
<1>13. taken = ToSet(Retrieve(TaskOf(q), entities, q.scopes).items)
  BY DEF retrieved
<1> HIDE DEF taken, candidates
<1>14. PassagesAreBest(q, entities, taken)
  BY <1>11, <1>12 DEF PassagesAreBest, candidates
<1> QED
  BY <1>13, <1>14 DEF BestPassages

\* "It never guesses a missing fact, and it never returns anything outside the
\* requester's scope": whatever is in the tables, between passes and in the middle
\* of a handover, an answer quotes the facts that are known to whom it answers, all
\* that there is room for, and says it lacks exactly what is asked for or needed in
\* vain; and no passage is left out for a worse one.
THEOREM AnswersGrounded == Spec => []AnswersAreGrounded
<1>1. TypeOK /\ Timeline /\ Worked /\ NeverTwoFacts => AnswersAreGrounded
  <2> SUFFICES ASSUME TypeOK, Timeline, Worked, NeverTwoFacts, NEW q \in Question
               PROVE  /\ \A t \in {facts[i].recorded : i \in DOMAIN facts} :
                             QuotesTruly(q, AnswerFor(q, t), Known(q, Wanted(q), t))
                      /\ BestPassages(q, ResolveEntities(TaskOf(q)))
                      /\ ToSet(GetContext(q).items.facts) \subseteq Known(q, Attribute, clock)
    BY DEF AnswersAreGrounded
  <2>1. ASSUME NEW i \in DOMAIN facts
        PROVE  QuotesTruly(q, AnswerFor(q, facts[i].recorded), Known(q, Wanted(q), facts[i].recorded))
    <3>1. facts[i].recorded \in 1 .. clock
      BY FactType DEF Timeline, NothingIsAhead, TypeOK
    <3> QED
      BY <3>1, AnswersAreTrue
  <2>2. BestPassages(q, ResolveEntities(TaskOf(q)))
    BY PassagesAre
  <2>3. ToSet(GetContext(q).items.facts) \subseteq Known(q, Attribute, clock)
    BY ContextIsKnown
  <2> QED
    BY <2>1, <2>2, <2>3
<1> QED
  BY <1>1, WorkedAlways, NeverTwo, PTL
====
