-------------------------------- MODULE Values ------------------------------
(***************************************************************************)
(* The values of cells and formulas (ScopeValue of lib/sheet/formula.ts).  *)
(* A value carries its type t.  A date is a string the program can read as *)
(* a day.                                                                  *)
(***************************************************************************)
EXTENDS Integers, TLC

Null == [t |-> "null"]
Error == [t |-> "error"]
Num(n) == [t |-> "num", num |-> n]
Str(s) == [t |-> "str", str |-> s]
Bool(b) == [t |-> "bool", bool |-> b]
Day(d) == [t |-> "date", day |-> d]
List(s) == [t |-> "list", list |-> s]

\* The numerals a text of the model can be.
Numeral == [s \in {ToString(n) : n \in -20 .. 20} |-> CHOOSE n \in -20 .. 20 : ToString(n) = s]

ToNumber(value) ==
    CASE value.t = "num" -> value.num
      [] value.t = "bool" -> IF value.bool THEN 1 ELSE 0
      [] value.t = "str" -> IF value.str \in DOMAIN Numeral THEN Numeral[value.str] ELSE 0
      [] OTHER -> 0

=============================================================================
