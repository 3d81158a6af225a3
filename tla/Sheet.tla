-------------------------------- MODULE Sheet -------------------------------
(***************************************************************************)
(* The sheet with everything that writes to it at once: the grid, agents   *)
(* and proposals, captured items and their questions, rules and column     *)
(* runs.                                                                   *)
(***************************************************************************)
EXTENDS Capture, Rules, ColumnRun, Sharing

CONSTANTS
    Meaning(_, _, _, _),   \* what a formula column means in a row, of the cells now and then
    RuleMeans(_, _, _)     \* whether a rule is meant to fire for a row, of the cells now

vars == <<sheet, call, alone, inbox, announced, shares, guests>>

\* What was contracted the day before was announced then.
Init ==
    /\ InitCells
    /\ inbox = <<>>
    /\ announced = {key \in DOMAIN contracts : contracts[key].state = "contracted"}
    /\ InitSharing

AtRest == \A c \in DOMAIN call : call[c].pc \in {"done", "threw"}

Next ==
    \/ \E c \in DOMAIN call : CellsStep(c) /\ UNCHANGED <<inbox, announced, sharingVars>>
    \/ \E c \in DOMAIN call : GridStep(c) /\ UNCHANGED <<inbox, announced, sharingVars>>
    \/ \E c \in DOMAIN call : CaptureStep(c) /\ UNCHANGED <<announced, sharingVars>>
    \/ \E c \in DOMAIN call : RulesStep(c) /\ UNCHANGED <<inbox, announced, sharingVars>>
    \/ \E c \in DOMAIN call : ColumnRunStep(c) /\ UNCHANGED <<inbox, sharingVars>>
    \/ \E c \in DOMAIN call : SharingStep(c) /\ UNCHANGED <<inbox, announced>>
    \/ \E i \in DOMAIN shares : Expire(i) /\ UNCHANGED <<inbox, announced>>
    \/ \E key \in DOMAIN contracts, to \in {"in_progress", "handed_back", "verified"} :
           Progress(key, to) /\ UNCHANGED <<inbox, sharingVars>>
    \/ AtRest /\ UNCHANGED vars

Spec == Init /\ [][Next]_vars

-----------------------------------------------------------------------------
(* Properties.                                                             *)

\* The cells that no formula fills, as they stand at a place in the log.
GridAt(n) ==
    [row \in DOMAIN records |->
        [k \in Column |-> IF Contains(columns, k) /\ ColumnType[k] # "formula"
                          THEN ValueAt(n, row, k) ELSE Null]]

\* A recompute that nothing crosses leaves every formula cell of the sheet with
\* what its formula means of the cells as they stand, whichever call it ran for.
Follows(c) ==
    (call[c].pc = "compute" /\ call'[c].pc # "compute" /\ alone) =>
        \A row \in DOMAIN records, k \in Range(columns) :
            ColumnType[k] = "formula" =>
                ValueAt(Len(log), row, k) =
                    Meaning(k, row, GridAt(Len(log)), GridAt(Len(OpeningLog[shape])))

\* The kinds of trigger whose rules a call has evaluated.
Evaluated(job) == IF "fired" \in DOMAIN job THEN DOMAIN job.fired ELSE {}

\* A sweep fires each rule for exactly the rows its condition means.
Fires(c) ==
    \A when \in Evaluated(call'[c]) \ Evaluated(call[c]) :
        call'[c].fired[when] = {f \in (DOMAIN Rule) \X (DOMAIN records) :
                                   /\ Rule[f[1]].trigger = when
                                   /\ RuleMeans(f[1], f[2], GridAt(Len(log)))}

\* Formula columns and conditions of rules say what they mean: the tokens are
\* parsed, evaluated and written cell by cell, and nothing is left behind.
FormulasFollow == [][\A c \in DOMAIN call : Follows(c) /\ Fires(c)]_vars

\* An agent never writes over a cell a person typed, but one typed after it
\* looked (golden rule 5): its own columns and the derived ones are exempt.
AgentKeepsEdits ==
    [][\A c \in DOMAIN call :
          (log' # log /\ call'[c] # call[c]) =>
              LET w == log'[Len(log')]
                  i == CurrentCell(Len(log), w.row, w.column)
              IN  (/\ w.by \notin Person
                   /\ ColumnType[w.column] \notin {"formula", "output", "evidence"}
                   /\ i # 0 /\ log[i].from = "edit") => i > call[c].looked]_vars

\* The cells that came of a proposal, as far as the sheet can tell.
FromProposal(p) ==
    {i \in DOMAIN log : /\ log[i].from = "proposal"
                        /\ <<log[i].row, log[i].column, log[i].value>> = <<p.row, p.column, p.value>>}

PeopleAccept ==
    \A i \in DOMAIN log : log[i].from = "proposal" =>
        /\ log[i].by \in Person
        /\ \E p \in ToSet(proposals) : p.kind = "cell" /\ i \in FromProposal(p)

OneAnswer ==
    AtRest /\ alone =>
        \A p \in ToSet(proposals) : p.kind = "cell" =>
            Cardinality(FromProposal(p)) = IF p.status = "accepted" THEN 1 ELSE 0

\* What comes from a proposal was accepted, by a person; and when decisions do
\* not cross, a proposal has one answer: it is on the sheet once if it was
\* accepted and not at all if it was not.
DecisionsHold == PeopleAccept /\ OneAnswer

\* What was captured is filed, on the sheet or in an Inbox, or stands as a
\* question nobody has answered; a question decided as if it were a proposed
\* cell, and not by naming a row, is the one way to lose an item.
Captured == {c \in DOMAIN call : Request[c].op = "capture" /\ call[c].pc = "done"}

Filed(c) ==
    \/ \E i \in DOMAIN inbox : c \in inbox[i]
    \/ \E row \in DOMAIN records : records[row].source \in CaptureSources /\ records[row].item = c

Open(c) ==
    \E p \in ToSet(proposals) : p.kind = "row" /\ p.item = c /\ p.status = "pending"

DecidedOtherwise(c) ==
    \E d \in DOMAIN call : /\ Request[d].op = "decide"
                    /\ Request[d].proposal \in DOMAIN proposals
                    /\ proposals[Request[d].proposal].kind = "row"
                    /\ proposals[Request[d].proposal].item = c

NothingCapturedIsLost ==
    AtRest /\ shape = "batch" =>
        \A c \in Captured : Filed(c) \/ Open(c) \/ DecidedOtherwise(c)

\* Every cell of work a column run contracted was announced to whoever does it,
\* unless a run of the column was cut short by another.
ContractedIsAnnounced ==
    AtRest =>
        \/ \E c \in DOMAIN call : Request[c].op = "runColumn" /\ call[c].pc = "threw"
        \/ \A key \in DOMAIN contracts : contracts[key].state = "contracted" => key \in announced

\* "A grant never reaches further than the granter holds": every scope of a grant
\* is one its granter has by membership, or by an earlier grant; so whatever a
\* person outside holds goes back, grant by grant, to a member who held it, and
\* who was never granted anything can do nothing.
HeldBefore(i, scope) ==
    \/ scope \in {"org"} \cup Membership(shares[i].by)
    \/ \E j \in 1 .. i - 1 : shares[j].to = shares[i].by /\ scope \in shares[j].scopes

GrantsTraceToMembers ==
    /\ \A i \in DOMAIN shares : \A scope \in shares[i].scopes : HeldBefore(i, scope)
    /\ \A w \in Outsider, subject \in {"sheet", "row"} :
           AccessTo(w, subject) # "none" =>
               \E i \in DOMAIN shares : /\ shares[i].to = w
                                       /\ ~shares[i].revoked /\ ~shares[i].expired
                                       /\ shares[i].access = AccessTo(w, subject)

=============================================================================
