-------------------------------- MODULE Rules -------------------------------
(***************************************************************************)
(* The rules of a sheet (lib/rules/engine.ts) and the function that        *)
(* applies them (inngest/functions/rules.ts): a rule is a trigger, a       *)
(* condition in the language of the formulas, and actions on the rows for  *)
(* which the condition holds.                                              *)
(*                                                                         *)
(* An evaluation reads the grid once; the drafts it asks for are written   *)
(* one after the other, later.  The rows of a batch sheet are no           *)
(* contracts, so that nothing comes of assignments and escalations here;   *)
(* reminders are posts.                                                    *)
(***************************************************************************)
EXTENDS Grid

CONSTANT Rule  \* the rules of the sheet in order: trigger, condition, column and text of a draft

ASSUME RulesAssumption == IsSequence(Rule)

\* A days_since trigger without a condition is one itself.
Condition(rule) ==
    IF rule.condition = <<>> /\ rule.trigger = "days_since"
    THEN << [kind |-> "name", text |-> "DAYS_SINCE"], [kind |-> "punct", text |-> "("],
            [kind |-> "name", text |-> rule.field], [kind |-> "punct", text |-> ")"],
            [kind |-> "op", text |-> ">"], [kind |-> "number", text |-> "n", value |-> Num(rule.days)] >>
    ELSE rule.condition

\* A rule sees the cells and columns of the grid, no children and no past.
RuleScope(row) ==
    LET scope == BuildScope(row, [seen |-> Len(log), rows |-> Len(records), columns |-> columns]) IN
    [scope EXCEPT !.children = <<>>,
                  !.past = [instant \in {"now", "today", "yesterday"} |-> scope.cell]]

\* True, or a number above zero; a condition that cannot be read does not hold.
ConditionHolds(rule, row) ==
    \/ Condition(rule) = <<>>
    \/ LET value == FormulaValue(Condition(rule), RuleScope(row)) IN
       \/ value = Bool(TRUE)
       \/ value.t = "num" /\ ToNumber(value) > 0

Firings(when) ==
    {f \in (DOMAIN Rule) \X (DOMAIN records) :
        Rule[f[1]].trigger = when /\ ConditionHolds(Rule[f[1]], f[2])}

\* The firings in the order of the rules, and of the rows for each.
Before(fired, f) == {g \in fired : g[1] < f[1] \/ (g[1] = f[1] /\ g[2] < f[2])}

DraftsOf(fired) ==
    LET Nth(n) == CHOOSE f \in fired : Cardinality(Before(fired, f)) = n - 1 IN
    [n \in 1 .. Cardinality(fired) |->
        Write(Nth(n)[2], Rule[Nth(n)[1]].column, Rule[Nth(n)[1]].value, Maya, "runtime")]

\* A draft is a step named by its row and its column, and a function runs a step of
\* one name once: of the drafts on a cell the first is written, the others never.
FirstDrafts(fired, past) ==
    LET SameCell(f, g) == f[2] = g[2] /\ Rule[f[1]].column = Rule[g[1]].column IN
    {f \in fired : \A g \in Before(fired, f) \cup past : ~SameCell(f, g)}

\* applyRules(): what is fired for a kind of trigger, after what was fired for others.
Applying(when, fired) ==
    LET past == UNION {fired[w] : w \in DOMAIN fired} IN
    With(Writing(Maya, DraftsOf(FirstDrafts(Firings(when), past)), "fired", FALSE, "done"),
         "fired", With(fired, when, Firings(when)))

\* The daily sweep: the rules on days that have gone by, and then those on a schedule.
StartSweep(c) ==
    /\ Asks(c, "sweep")
    /\ Become(c, Applying("days_since", <<>>))
    /\ UNCHANGED sheet

SweepSchedule(c) ==
    /\ Job(c).pc = "fired"
    /\ "schedule" \notin DOMAIN Job(c).fired
    /\ Become(c, Applying("schedule", Job(c).fired))
    /\ UNCHANGED <<sheet, alone>>

\* The sweep ends; no formula is recomputed for its drafts.
EndSweep(c) ==
    /\ Job(c).pc = "fired"
    /\ "schedule" \in DOMAIN Job(c).fired
    /\ Become(c, Done)
    /\ UNCHANGED <<sheet, alone>>

RulesStep(c) == StartSweep(c) \/ SweepSchedule(c) \/ EndSweep(c)

=============================================================================
