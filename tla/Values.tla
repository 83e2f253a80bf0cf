-------------------------------- MODULE Values --------------------------------
(***************************************************************************)
(* The values programs compute with, each under its type's name, and the   *)
(* operations on them (nuzo-vm, dispatch_table.rs and zero_unbox.rs).      *)
(* Numbers are integers: an operation whose exact result is none is not    *)
(* modelled, nor are NaN, infinities and the sign of zero.  Collections    *)
(* and functions live on a heap and are known by their address; equality   *)
(* of collections (which also finds an element) is left out.               *)
(***************************************************************************)
EXTENDS Integers, Sequences, TLC

NumValue(k) == <<"num", k>>
StrValue(s) == <<"str", s>>
BoolValue(b) == <<"bool", b>>
NilValue == <<"nil">>
Ref(a) == <<"ref", a>>
ErrorValue == <<"error">>

TypeOf(v) == v[1]
IsNum(v) == TypeOf(v) = "num"
IsStr(v) == TypeOf(v) = "str"
IsBool(v) == TypeOf(v) = "bool"

Truthy(v) == v \notin {NilValue, BoolValue(FALSE), NumValue(0)}

(* concat_repr *)
Repr(v) ==
  IF IsStr(v) THEN v[2]
  ELSE IF IsNum(v) THEN ToString(v[2])
  ELSE IF IsBool(v) THEN (IF v[2] THEN "true" ELSE "false") ELSE "nil"

Arithmetic == {"+", "-", "*", "/", "%", "**"}
Orderings == {"<", ">", "<=", ">="}
Equalities == {"==", "!="}

(* Powers of the exponents that occur. *)
Power(x, n) == IF n = 0 THEN 1 ELSE IF n = 1 THEN x ELSE x ^ n
(* The remainder has the sign of the dividend. *)
Magnitude(x) == IF x < 0 THEN 0 - x ELSE x
Remainder(x, y) ==
  IF x < 0 THEN 0 - (Magnitude(x) % Magnitude(y)) ELSE x % Magnitude(y)
Number(op, x, y) ==
  IF op = "+" THEN x + y ELSE IF op = "-" THEN x - y ELSE IF op = "*" THEN x * y
  ELSE IF op = "/" THEN x \div y ELSE IF op = "%" THEN Remainder(x, y) ELSE Power(x, y)
Ordered(op, x, y) ==
  CASE op = "<" -> x < y [] op = ">" -> x > y [] op = "<=" -> x <= y [] op = ">=" -> x >= y

Calculate(op, v, w) ==
  IF ~(IsNum(v) /\ IsNum(w)) \/ (op \in {"/", "%"} /\ w[2] = 0) THEN ErrorValue
  ELSE NumValue(Number(op, v[2], w[2]))

(* A binary operator at run time. *)
Apply(op, v, w) ==
  IF op = "+" /\ (IsStr(v) \/ IsStr(w)) THEN StrValue(Repr(v) \o Repr(w))
  ELSE IF op \in Arithmetic THEN Calculate(op, v, w)
  ELSE IF op \in Equalities THEN BoolValue((v = w) <=> (op = "=="))
  ELSE IF IsNum(v) /\ IsNum(w) THEN BoolValue(Ordered(op, v[2], w[2])) ELSE ErrorValue

(* A unary operator at run time. *)
ApplyUnary(op, v) ==
  IF op = "!" THEN BoolValue(~Truthy(v))
  ELSE IF IsNum(v) THEN NumValue(0 - v[2]) ELSE ErrorValue
===============================================================================
