------------------------------ MODULE Invariants ----------------------------
(***************************************************************************)
(* The sheet invariants of lib/ledger/invariants.ts: the definitions that  *)
(* a workflow gives its run are judged inside every transition of Ledger,  *)
(* of the row's fields, the actor and the payload of the move.             *)
(*                                                                         *)
(* An expression is the tree its text is matched to, and a reference the   *)
(* names between its dots.  What a reference resolves to is the set of its *)
(* one value, or empty where it is undefined; what an expression says is   *)
(* the set of TRUE or FALSE, or empty where it says nothing.  Fields have  *)
(* strings, sets of strings, or fields of their own.                       *)
(***************************************************************************)
EXTENDS Ledger, SequencesExt

CONSTANTS
    Key,         \* Key[r]: the key of r in its run
    Given,       \* Given[r]: what a plan writes of r and no move changes: inputs, owner, check
    Definition,  \* the invariants of the run: [expression, severity]
    Output       \* what the outputs of a row may be

ASSUME GivenAssumption == \A r \in Row : DOMAIN Given[r] = {"inputs", "owner", "check"}

VARIABLE outputs  \* contracts.outputs

judgedVars == <<vars, outputs>>

Falsy == {"", "no"}

-----------------------------------------------------------------------------
(* References.                                                             *)

ActorView(a) == [id |-> a, kind |-> IF a \in Person THEN "person" ELSE "agent"]

\* The approval is the payload's, or the actor's own when the row is verified.
Approval(move) ==
    IF "approved_by" \in DOMAIN move.payload THEN {move.payload.approved_by}
    ELSE IF move.to = "verified" THEN {ActorView(move.actor)} ELSE {}

RowView(move) ==
    [field \in {"key", "state", "from", "outputs", "actor"} \cup DOMAIN Given[move.row]
               \cup {"approved_by" : by \in Approval(move)} \cup ({"sent_by"} \cap DOMAIN move.payload) |->
        CASE field = "key" -> Key[move.row]
          [] field = "state" -> move.to
          [] field = "from" -> state[move.row]
          [] field = "outputs" -> outputs[move.row]
          [] field = "actor" -> ActorView(move.actor)
          [] field = "approved_by" -> CHOOSE by \in Approval(move) : TRUE
          [] field = "sent_by" -> move.payload.sent_by
          [] OTHER -> Given[move.row][field]]

\* Following names into the fields of a value.
Follow(values, names) ==
    FoldLeft(LAMBDA found, name : {v[name] : v \in {w \in found : name \in DOMAIN w}}, values, names)

\* A bare word is itself; another name is looked up in the inputs of the row and then
\* in the payload.
Resolve(reference, move) ==
    LET head == Head(reference)
        names == Tail(reference)
        given == Given[move.row].inputs
    IN  CASE head \in {Key[move.row], "row", "this"} -> Follow({RowView(move)}, names)
          [] head = "actor" -> Follow({ActorView(move.actor)}, names)
          [] head = "payload" -> Follow({move.payload}, names)
          [] OTHER -> IF names = <<>> THEN {head}
                      ELSE IF head \in DOMAIN given THEN Follow({given[head]}, names)
                      ELSE IF head \in DOMAIN move.payload THEN Follow({move.payload[head]}, names)
                      ELSE {}

-----------------------------------------------------------------------------
(* Expressions.                                                            *)

Says(term, move) ==
    LET sides == Resolve(term.left, move) \X Resolve(term.right, move) IN
    CASE term.form = "subset" -> {s[1] \subseteq s[2] : s \in sides}
      [] term.form = "equal" -> {s[1] = s[2] : s \in sides}
      [] term.form = "differs" -> {s[1] # s[2] : s \in sides}
      [] term.form = "lacks" ->
             {v \cap term.words = {} : v \in Resolve(term.left, move)}
      [] term.form = "truthy" ->
             {v \notin Falsy : v \in Resolve(term.left, move)}

\* Mutant: a consequent that says nothing is taken to hold.
ShownOrSilent(said) == said # {FALSE}

Shown(said) == said = {TRUE}

\* `welcome_email.outputs.sent` scopes an expression to the row of that key; one
\* that begins otherwise, with NOT say, is of every row.
Scope(expression) ==
    LET first == IF expression.form = "implies" THEN expression.if ELSE expression
    IN  IF first.form = "lacks" \/ Len(first.left) = 1 THEN {} ELSE {Head(first.left)}

\* Nothing is said until an antecedent holds; a consequent must then be shown.
Evaluate(expression, move) ==
    CASE Scope(expression) \ {Key[move.row]} # {} -> {}
      [] expression.form # "implies" -> Says(expression, move)
      [] OTHER -> IF Shown(Says(expression.if, move)) THEN {Shown(Says(expression.then, move))} ELSE {}

Violations(move) == {d \in Definition : Evaluate(d.expression, move) = {FALSE}}

\* One that blocks refuses the move; one that escalates routes it to a person.
Judge(move) ==
    LET severities == {d.severity : d \in Violations(move)}
    IN  IF "block" \in severities THEN "block"
        ELSE IF "escalate" \in severities THEN "escalate" ELSE "hold"

-----------------------------------------------------------------------------
(* The ledger under these invariants.                                      *)

\* What a caller sends along: the settling of an approval says who approved.
Payloads(to, a) ==
    {<<>>} \cup (IF to = "verified" /\ a \in Person THEN {[approved_by |-> ActorView(a)]} ELSE {})

JudgedTransition(r, to, a) ==
    /\ \E payload \in Payloads(to, a) :
           Transition(r, to, a, Judge([row |-> r, to |-> to, actor |-> a, payload |-> payload]))
    /\ UNCHANGED outputs

\* setOutputs() asks nothing of the row.
SetOutputs(r) ==
    /\ \E o \in Output : outputs' = [outputs EXCEPT ![r] = o]
    /\ UNCHANGED vars

InitJudged == Init /\ outputs = [r \in Row |-> <<>>]

JudgedNext ==
    \/ \E r \in Row, to \in State, a \in Worker : JudgedTransition(r, to, a)
    \/ \E r \in Row : SetOutputs(r)
    \/ \E r \in Row : RecordPass(r) /\ UNCHANGED <<chain, outputs>>

JudgedSpec == InitJudged /\ [][JudgedNext]_judgedVars

-----------------------------------------------------------------------------
(* Properties.                                                             *)

Sent(r) == "sent" \in DOMAIN outputs[r] /\ outputs[r].sent \notin Falsy

\* "No email leaves without approval": once the outputs of the row of the mail say
\* that it was sent, nothing but a person's verification moves it, whoever wrote
\* them and whenever, although its check is not a person's.  (So it cannot be
\* handed back, escalated from a revoked worker or closed either.)
MailLeavesApproved ==
    [][\A r \in Row \ HumanCheck :
           Key[r] = "welcome_email" /\ Sent(r) /\ chain'[r] # chain[r] =>
               LET entry == chain'[r][Len(chain'[r])]
               IN  entry.to = "verified" /\ entry.actor \in Person]_judgedVars

=============================================================================
