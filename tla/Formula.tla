------------------------------- MODULE Formula ------------------------------
(***************************************************************************)
(* The formula language of lib/sheet/formula.ts, in which formula columns, *)
(* conditions of rules and sheet invariants are written: a recursive       *)
(* descent parser over tokens and an interpreter over a scope.             *)
(*                                                                         *)
(* A token is a record with a kind and its text.  A scope is what the      *)
(* caller can see: the cells of the row, the columns of the sheet, the     *)
(* states of the row's children, the past of the row, and the day.         *)
(***************************************************************************)
EXTENDS Values, Sequences, FiniteSets

-----------------------------------------------------------------------------
(* The parser.  A parse is a node with the place after it, or Stuck.       *)

Precedence == <<{"<", ">", "<=", ">=", "==", "!="}, {"+", "-"}, {"*", "/"}>>

Literal(value) == [kind |-> "literal", value |-> value]
Reference(path) == [kind |-> "reference", path |-> path]
Apply(name, args) == [kind |-> "call", name |-> name, args |-> args]
Binary(op, left, right) == [kind |-> "binary", op |-> op, left |-> left, right |-> right]
Unary(op, operand) == [kind |-> "unary", op |-> op, operand |-> operand]

Stuck == [at |-> 0]
Parsed(node, at) == [at |-> at, node |-> node]

Sees(s, at, kind, texts) == at \in DOMAIN s /\ s[at].kind = kind /\ s[at].text \in texts

RECURSIVE ParseLevel(_, _, _), ParseMore(_, _, _), ParseUnary(_, _), ParseArgs(_, _, _)

\* A level is a chain of operands of the next one, joined from the left.
ParseMore(level, s, left) ==
    IF left = Stuck \/ ~Sees(s, left.at, "op", Precedence[level]) THEN left
    ELSE LET right == ParseLevel(level + 1, s, left.at + 1) IN
         IF right = Stuck THEN Stuck
         ELSE ParseMore(level, s, Parsed(Binary(s[left.at].text, left.node, right.node), right.at))

ParseLevel(level, s, at) ==
    IF level > Len(Precedence) THEN ParseUnary(s, at)
    ELSE ParseMore(level, s, ParseLevel(level + 1, s, at))

\* One or more expressions up to the closing parenthesis, args read so far.
ParseArgs(s, at, args) ==
    LET one == ParseLevel(1, s, at) IN
    IF one = Stuck THEN Stuck
    ELSE IF Sees(s, one.at, "punct", {","}) THEN ParseArgs(s, one.at + 1, Append(args, one.node))
    ELSE IF Sees(s, one.at, "punct", {")"}) THEN Parsed(Append(args, one.node), one.at + 1)
    ELSE Stuck

ParsePrimary(s, at) ==
    IF at \notin DOMAIN s THEN Stuck
    ELSE CASE s[at].kind \in {"number", "string"} -> Parsed(Literal(s[at].value), at + 1)
           [] Sees(s, at, "punct", {"("}) ->
                LET inner == ParseLevel(1, s, at + 1) IN
                IF inner # Stuck /\ Sees(s, inner.at, "punct", {")"})
                THEN Parsed(inner.node, inner.at + 1) ELSE Stuck
           [] s[at].kind = "name" /\ Sees(s, at + 1, "punct", {"("}) ->
                LET args == IF Sees(s, at + 2, "punct", {")"}) THEN Parsed(<<>>, at + 3)
                            ELSE ParseArgs(s, at + 2, <<>>)
                IN  IF args = Stuck THEN Stuck
                    ELSE Parsed(Apply(s[at].text, args.node), args.at)
           [] s[at].kind = "name" /\ s[at].text \in {"true", "TRUE"} -> Parsed(Literal(Bool(TRUE)), at + 1)
           [] s[at].kind = "name" /\ s[at].text \in {"false", "FALSE"} -> Parsed(Literal(Bool(FALSE)), at + 1)
           [] s[at].kind = "name" /\ s[at].text \notin {"true", "TRUE", "false", "FALSE"} ->
                Parsed(Reference(s[at].text), at + 1)
           [] OTHER -> Stuck

ParseUnary(s, at) ==
    IF Sees(s, at, "op", {"-"}) \/ Sees(s, at, "name", {"NOT"})
    THEN LET operand == ParseUnary(s, at + 1) IN
         IF operand = Stuck THEN Stuck
         ELSE Parsed(Unary(s[at].text, operand.node), operand.at)
    ELSE ParsePrimary(s, at)

Parse(s) == ParseLevel(1, s, 1)

-----------------------------------------------------------------------------
(* Conversions.                                                            *)

Verified == {Str("verified"), Str("done"), Bool(TRUE)}

RECURSIVE Stringify(_), Joined(_), Flatten(_), Total(_)

Joined(s) == IF Len(s) = 1 THEN Stringify(s[1]) ELSE Stringify(s[1]) \o "," \o Joined(Tail(s))

Stringify(value) ==
    CASE value.t = "null" -> ""
      [] value.t = "bool" -> IF value.bool THEN "true" ELSE "false"
      [] value.t = "list" -> IF value.list = <<>> THEN "" ELSE Joined(value.list)
      [] value.t = "str" -> value.str
      [] value.t = "num" -> ToString(value.num)
      [] value.t = "date" -> ToString(value.day)

Truthy(value) ==
    CASE value.t = "list" -> value.list # <<>>
      [] value.t = "str" -> value.str \notin {"", "false"}
      [] value.t = "num" -> value.num # 0
      [] value.t = "bool" -> value.bool
      [] value.t = "date" -> TRUE
      [] OTHER -> FALSE

Flatten(values) ==
    IF values = <<>> THEN <<>>
    ELSE (IF values[1].t = "list" THEN Flatten(values[1].list) ELSE <<values[1]>>) \o Flatten(Tail(values))

Total(values) == IF values = <<>> THEN 0 ELSE ToNumber(values[1]) + Total(Tail(values))

-----------------------------------------------------------------------------
(* The interpreter.                                                        *)

Lookup(f, path) == IF path \in DOMAIN f THEN f[path] ELSE Null

Resolve(path, scope) ==
    CASE path \in {"today", "now"} -> Day(scope.today)
      [] path = "children" -> List([i \in DOMAIN scope.children |-> Str(scope.children[i])])
      [] path \in DOMAIN scope.rows -> List(scope.rows[path])
      [] OTHER -> Lookup(scope.cell, path)

Compute(op, left, right) ==
    LET l == ToNumber(left)
        r == ToNumber(right)
    IN  CASE left = Error \/ right = Error -> Error
          [] op = "+" -> IF {left.t, right.t} \cap {"str", "date"} # {}
                         THEN Str(Stringify(left) \o Stringify(right)) ELSE Num(l + r)
          [] op = "-" -> Num(l - r)
          [] op = "*" -> Num(l * r)
          [] op = "/" -> IF r = 0 THEN Null ELSE Num(l \div r)
          [] op = "<" -> Bool(l < r)
          [] op = ">" -> Bool(l > r)
          [] op = "<=" -> Bool(l <= r)
          [] op = ">=" -> Bool(l >= r)
          [] op = "==" -> Bool(Stringify(left) = Stringify(right))
          [] op = "!=" -> Bool(Stringify(left) # Stringify(right))

\* The functions whose arguments are all evaluated, over their flattened values.
Aggregate(name, values) ==
    LET numbers == {ToNumber(values[i]) : i \in DOMAIN values} IN
    CASE name = "ALL_VERIFIED" -> Bool(values # <<>> /\ \A i \in DOMAIN values : values[i] \in Verified)
      [] name = "SUM" -> Num(Total(values))
      [] name = "COUNT" -> Num(Cardinality({i \in DOMAIN values : values[i] \notin {Null, Str("")}}))
      [] name = "MIN" -> Num(CHOOSE n \in numbers : \A k \in numbers : n <= k)
      [] name = "MAX" -> Num(CHOOSE n \in numbers : \A k \in numbers : n >= k)

Aggregates == {"ALL_VERIFIED", "SUM", "COUNT", "MIN", "MAX"}

RECURSIVE Evaluate(_, _), Some(_, _, _)

\* AND and OR: arguments in order, until one decides.
Some(args, wanted, scope) ==
    IF args = <<>> THEN Bool(~wanted)
    ELSE LET value == Evaluate(args[1], scope) IN
         CASE value = Error -> Error
           [] value # Error /\ Truthy(value) = wanted -> Bool(wanted)
           [] OTHER -> Some(Tail(args), wanted, scope)

DaysSince(value, scope) == IF value.t = "date" THEN Num(scope.today - value.day) ELSE Null

\* Where an instant of AS_OF falls: a named one, or now.
InstantOf(args, scope) ==
    IF Len(args) > 1 /\ args[2].kind = "reference" /\ args[2].path \in DOMAIN scope.past
    THEN args[2].path ELSE "now"

Choose(args, scope) ==
    LET condition == Evaluate(args[1], scope)
        taken == IF Truthy(condition) THEN 2 ELSE 3
    IN  CASE condition = Error -> Error
          [] condition # Error /\ taken \in DOMAIN args -> Evaluate(args[taken], scope)
          [] OTHER -> Bool(Truthy(condition))

Invoke(name, args, scope) ==
    LET values == [i \in DOMAIN args |-> Evaluate(args[i], scope)] IN
    CASE name \in Aggregates ->
           IF \E i \in DOMAIN args : values[i] = Error THEN Error ELSE Aggregate(name, Flatten(values))
      [] name = "AS_OF" ->
           IF args # <<>> /\ args[1].kind = "reference"
           THEN Lookup(scope.past[InstantOf(args, scope)], args[1].path) ELSE Error
      [] name = "DAYS_SINCE" ->
           IF args = <<>> THEN Error ELSE IF values[1] = Error THEN Error ELSE DaysSince(values[1], scope)
      [] name = "IF" -> IF args = <<>> THEN Error ELSE Choose(args, scope)
      [] name = "AND" -> Some(args, FALSE, scope)
      [] name = "OR" -> Some(args, TRUE, scope)
      [] OTHER -> Error

Evaluate(node, scope) ==
    CASE node.kind = "literal" -> node.value
      [] node.kind = "reference" -> Resolve(node.path, scope)
      [] node.kind = "unary" ->
           LET value == Evaluate(node.operand, scope) IN
           CASE value = Error -> Error
             [] value # Error /\ node.op = "-" -> Num(-ToNumber(value))
             [] OTHER -> Bool(~Truthy(value))
      [] node.kind = "binary" ->
           Compute(node.op, Evaluate(node.left, scope), Evaluate(node.right, scope))
      [] node.kind = "call" -> Invoke(node.name, node.args, scope)

\* evaluateFormula: a text that does not parse to its end throws.
EvaluateFormula(tokens, scope) ==
    LET parse == Parse(tokens) IN
    CASE tokens = <<>> -> Null
      [] tokens # <<>> /\ parse # Stuck /\ parse.at = Len(tokens) + 1 -> Evaluate(parse.node, scope)
      [] OTHER -> Error

=============================================================================
