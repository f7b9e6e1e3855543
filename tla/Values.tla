------------------------------- MODULE Values -------------------------------
(***************************************************************************)
(* JSON values, patterns and bindings, as js/match.js reads them.          *)
(*                                                                         *)
(* A JSON value is a tagged record.  Objects are sequences of entries,     *)
(* because "for (k in p)" visits properties in order.  A string that       *)
(* starts with "?" is a pattern variable: Var(op, n) is "?" op n, where op *)
(* is "?" for an optional variable, or an inequality.  A set of bindings   *)
(* is a function from variables, and other names, to values.               *)
(***************************************************************************)
EXTENDS Integers, Sequences, TLC

\* Every value has the same fields: its type, a number, a string, the operator
\* of a variable, and its elements (entries, for an object).
Value(t)    == [t |-> t, n |-> 0, s |-> "", op |-> "", e |-> <<>>]
Num(n)      == [Value("num")  EXCEPT !.n = n]
Str(s)      == [Value("str")  EXCEPT !.s = s]
Bool(b)     == [Value("bool") EXCEPT !.n = IF b THEN 1 ELSE 0]
Null        == Value("null")
Var(op, s)  == [Value("var")  EXCEPT !.op = op, !.s = s]
Arr(e)      == [Value("arr")  EXCEPT !.e = e]
Obj(es)     == [Value("obj")  EXCEPT !.e = es]
Entry(k, x) == [key |-> k, val |-> x]

NoBinding == [x \in {} |-> x]

isVar(s)       == s.t = "var"
isOptVar(s)    == isVar(s) /\ s.op = "?"
isAnonymous(s) == s = Var("", "")

(***************************************************************************)
(* JavaScript's own conversions, as far as "if (binding)" and "p == m"     *)
(* need them.  Numerals are the numbers whose decimal string is a value of *)
(* the model; NaN stands for "not a number" and equals nothing.            *)
(***************************************************************************)
Numerals == 0 .. 9
NaN      == -1
Opaque   == Str("[object Object]")

Truthy(x) == x \notin {Num(0), Str(""), Bool(FALSE), Null}

ToPrimitive(x) ==
  LET ofElement(e) ==
        CASE e.t = "num"             -> Str(ToString(e.n))
          [] e.t = "bool"            -> Str(IF e.n = 1 THEN "true" ELSE "false")
          [] e.t \in {"str", "var"}  -> e
          [] e.t = "null"            -> Str("")
          [] OTHER                   -> Opaque
  IN CASE x.t = "arr" /\ x.e = <<>>  -> Str("")
       [] x.t = "arr" /\ Len(x.e) = 1 -> ofElement(x.e[1])
       [] x.t \in {"arr", "obj"}      -> Opaque
       [] OTHER                       -> x

ToNumber(x) ==
  LET digits == {n \in Numerals : ToString(n) = x.s}
  IN CASE x.t \in {"num", "bool"}        -> x.n
       [] x.t = "str" /\ x.s = ""       -> 0
       [] x.t = "str" /\ digits # {}    -> CHOOSE n \in digits : TRUE
       [] OTHER                         -> NaN

\* p == m for a pattern p that is a string, a number or a boolean.
LooseEqual(p, m) ==
  LET x == ToPrimitive(m)
  IN IF p.t = x.t THEN p = x
     ELSE x.t # "null" /\ ToNumber(p) # NaN /\ ToNumber(p) = ToNumber(x)
=============================================================================
