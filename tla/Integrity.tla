------------------------------ MODULE Integrity -----------------------------
(***************************************************************************)
(* The integrity suite of lib/memory/integrity.ts: what it reports of the  *)
(* tables as they stand, at any moment of a pass or after one that died.   *)
(* The spans of a fact and the vocabulary are the extractors' and are      *)
(* taken to be good; scopes are never blank.                               *)
(***************************************************************************)
EXTENDS Ask

CONSTANT Reviewed  \* Reviewed[f]: the deal a person says f belongs to, or NoDeal, for a sample

ASSUME IntegrityAssumption ==
    /\ IsFiniteSet(File)
    /\ DOMAIN Reviewed \subseteq File
    /\ \A f \in DOMAIN Reviewed : Reviewed[f] \in Deal \cup {NoDeal}

Events == {f \in File : landed[f] > 0}

Rows(table) == {f \in File : table \in kept[f]}

\* The entities that an event is linked to out of quarantine.
LinkedTo(f) == IF f \in Rows("links") /\ ~Quarantined(f) THEN Resolved(f) ELSE {}

\* A fact whose source has no text to reopen its span in.
Broken == {i \in DOMAIN facts : facts[i].file \notin Rows("text")}

\* What names an event or an entity that is not there.
Dangling ==
    {f \in Rows("links") : f \notin Events \/ ~(Resolved(f) \subseteq Registry)}
    \cup {facts[i].file : i \in {j \in DOMAIN facts :
              facts[j].file \notin Events \/ facts[j].deal \notin Registry}}
    \cup (Rows("chunks") \ Events)
    \cup {d[1] : d \in {e \in decided : ~(Resolved(e[1]) \subseteq Registry)}}

ValueOf(i) ==
    LET f == facts[i].file
        a == facts[i].attribute
    IN  IF a \in DOMAIN Value[f] THEN {Value[f][a]} ELSE {}

\* Current facts of one attribute of a deal that disagree.
Contradictions ==
    {pair \in (DOMAIN facts) \X (DOMAIN facts) :
        LET i == pair[1]
            j == pair[2]
        IN  /\ \A k \in {i, j} : facts[k].superseded = Null
            /\ facts[i].deal = facts[j].deal /\ facts[i].attribute = facts[j].attribute
            /\ ValueOf(i) # ValueOf(j)}

\* Of the reviewed sample, what is linked elsewhere or not linked.
Wrong ==
    {f \in DOMAIN Reviewed :
        IF Reviewed[f] = NoDeal THEN LinkedTo(f) # {} ELSE Reviewed[f] \notin LinkedTo(f)}

Report ==
    [events |-> Cardinality(Events),
     linked |-> Cardinality({f \in Events : LinkedTo(f) # {}}),
     orphaned |-> Cardinality({f \in Rows("links") : Resolved(f) = {}}),
     quarantined |-> Cardinality({f \in Rows("links") : Quarantined(f)}),
     broken |-> Broken, dangling |-> Dangling, contradictions |-> Contradictions, wrong |-> Wrong]

-----------------------------------------------------------------------------
(* Properties.                                                             *)

\* What the suite runs for on every change to the memory: in the middle of a pass
\* and after one that died, no fact has lost its source, nothing dangles, no current
\* facts disagree and what is linked is linked as a person would; and unless a pass
\* died, every event is linked, an orphan or in quarantine once it is over.
MemoryAddsUp ==
    LET report == Report
        accounted == report.linked + report.orphaned + report.quarantined
    IN  /\ report.broken = {} /\ report.dangling = {} /\ report.contradictions = {}
        /\ report.wrong \cap Rows("links") = {}
        /\ accounted <= report.events
        /\ At("idle") /\ crashes = 0 => accounted = report.events

=============================================================================
