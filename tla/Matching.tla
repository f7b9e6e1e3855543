------------------------------ MODULE Matching ------------------------------
(***************************************************************************)
(* The pattern matcher of js/match.js, as pure operators.                  *)
(*                                                                         *)
(* Sets of bindings are JavaScript objects, shared and (in inequal)        *)
(* changed in place, so they live in a heap h that every operator takes    *)
(* and returns: a set of bindings is an index into h, and a result is      *)
(* [h |-> heap, r |-> indices of the sets of bindings, ok |-> no throw].   *)
(***************************************************************************)
EXTENDS Values, SequencesExt

Ineqs == {"<=", ">=", "!=", ">", "<"}

(***************************************************************************)
(* Results.                                                                *)
(***************************************************************************)
Found(h, r) == [h |-> h, r |-> r, ok |-> TRUE]
Thrown(h)   == [h |-> h, r |-> <<>>, ok |-> FALSE]

\* acc.concat(x): x was computed after acc, so its heap is the current one.
Concat(acc, x) == [h |-> x.h, r |-> acc.r \o x.r, ok |-> x.ok]

\* extend copies the bindings and adds one: a new object.
extend_inPlace(h, b, p, m) == Found([h EXCEPT ![b] = (p :> m) @@ @], <<b>>)
extend(h, b, p, m) == Found(Append(h, (p :> m) @@ h[b]), <<Len(h) + 1>>)

\* The properties of a message that "for (mk in m)" visits, and m[k].
Properties(m) ==
  CASE m.t = "obj"  -> m.e
    [] m.t = "arr"  -> [j \in DOMAIN m.e |-> Entry(Str(ToString(j - 1)), m.e[j])]
    [] m.t = "null" -> <<>>
Has(m, k) == \E j \in DOMAIN Properties(m) : Properties(m)[j].key = k
Get(m, k) ==
  LET ps == Properties(m)
  IN ps[CHOOSE j \in DOMAIN ps : ps[j].key = k].val

(***************************************************************************)
(* inequal: whether the inequality variable p applies to the message m,    *)
(* and with which result.  A success binds the plain variable IN PLACE.    *)
(***************************************************************************)
Holds(op, a, b) ==
  \/ op = "<"  /\ a < b
  \/ op = "<=" /\ a <= b
  \/ op = ">"  /\ a > b
  \/ op = ">=" /\ a >= b
  \/ op = "!=" /\ a # b

Plain(p) == Var("", p.s)

IneqApplies(bs, p, m) ==
  /\ p.op \in Ineqs
  /\ p \in DOMAIN bs
  /\ bs[p].t = "num"
  /\ m.t = "num"
  /\ (Holds(p.op, m.n, bs[p].n) /\ Plain(p) \in DOMAIN bs)
       => bs[Plain(p)].t = "num"

inequal(h, m, b, p) ==
  IF ~Holds(p.op, m.n, h[b][p].n) THEN Found(h, <<>>)
  ELSE IF Plain(p) \in DOMAIN h[b]
       THEN Found(h, IF h[b][Plain(p)] = m THEN <<b>> ELSE <<>>)
       ELSE Found([h EXCEPT ![b] = (Plain(p) :> m) @@ @], <<b>>)

(***************************************************************************)
(* The three mutually recursive matchers.                                  *)
(***************************************************************************)
RECURSIVE match(_, _, _, _)
RECURSIVE arraycatMatch(_, _, _, _, _)
RECURSIVE mapcatMatch(_, _, _, _, _)

matchWithBindings(h, bss, v, mv) ==
  LET one(acc, b) == IF acc.ok THEN Concat(acc, match(acc.h, v, mv, b)) ELSE acc
  IN FoldLeft(one, Found(h, <<>>), bss)

\* p.slice(i+1), where i counts the sets of bindings (from 0 in the code).
Remaining(p, i) == SubSeq(p, i + 1, Len(p))

\* What one array element leaves for the rest of the pattern.
Others_keep(m, j) == m
Others(m, j)      == RemoveAt(m, j)

\* How many variables of an array have been met.
Tally_all(y, n) == n + 1
Tally(y, n)     == IF isVar(y) THEN n + 1 ELSE n

arraycatMatch(h, bss, p, m, varCount) ==
  IF p = <<>> THEN Found(h, bss)
  ELSE IF isVar(Head(p)) /\ varCount > 0 THEN Thrown(h)
  ELSE
    LET y  == Head(p)
        vc == Tally(y, varCount)
        with(i, acc, j) ==
          IF ~acc.ok THEN acc
          ELSE LET x == match(acc.h, y, m[j], bss[i])
               IN Concat(acc, IF ~x.ok THEN x
                              ELSE arraycatMatch(x.h, x.r, Remaining(p, i), Others(m, j), vc))
        each(acc, i) ==
          IF ~acc.ok THEN acc
          ELSE LET found == FoldLeftDomain(LAMBDA a, j : with(i, a, j), Found(acc.h, <<>>), m)
               IN Concat(acc, IF found.ok /\ found.r = <<>> /\ isOptVar(y)
                              THEN Found(found.h, <<bss[i]>>)
                              ELSE found)
    IN FoldLeftDomain(each, Found(h, <<>>), bss)

\* An absent property is no mismatch when the pattern's value is optional.
Excused_never(v) == FALSE
Excused(v)       == isOptVar(v)

\* es are the pattern's entries still to visit.
mapcatMatch(h, bss, es, m, varCount) ==
  IF es = <<>> THEN Found(h, bss)
  ELSE
    LET k    == Head(es).key
        v    == Head(es).val
        ps   == Properties(m)
        some(acc, j) ==
          IF ~acc.ok THEN acc
          ELSE LET x == matchWithBindings(acc.h, bss, k, ps[j].key)
               IN Concat(acc, IF ~x.ok \/ x.r = <<>> THEN x
                              ELSE matchWithBindings(x.h, x.r, v, ps[j].val))
    IN IF isVar(k)
       THEN IF varCount > 0 THEN Thrown(h)
            ELSE LET acc == FoldLeftDomain(some, Found(h, <<>>), ps)
                 IN IF acc.ok THEN mapcatMatch(acc.h, acc.r, Tail(es), m, 1) ELSE acc
       ELSE IF m.t = "null" THEN Thrown(h)      \* m[k] of null is a TypeError
       ELSE IF ~Has(m, k)
            THEN IF Excused(v) THEN mapcatMatch(h, bss, Tail(es), m, varCount)
                 ELSE Found(h, <<>>)
       ELSE LET acc == matchWithBindings(h, bss, v, Get(m, k))
            IN IF ~acc.ok \/ acc.r = <<>> THEN acc
               ELSE mapcatMatch(acc.h, acc.r, Tail(es), m, varCount)

\* "if (binding)": a bound variable is used only when its value is truthy.
IsBound(bs, p) == p \in DOMAIN bs /\ Truthy(bs[p])

\* p.length == 0, for a pattern that is an object: a property of that name.
LengthIsZero(p) ==
  Has(p, Str("length")) /\ LooseEqual(Num(0), Get(p, Str("length")))

match(h, p, m, b) ==
  CASE isVar(p) /\ isAnonymous(p)         -> Found(h, <<b>>)
    [] isVar(p) /\ IneqApplies(h[b], p, m) -> inequal(h, m, b, p)
    [] isVar(p) /\ ~IneqApplies(h[b], p, m) /\ ~isAnonymous(p)
         -> IF IsBound(h[b], p) THEN match(h, h[b][p], m, b) ELSE extend(h, b, p, m)
    [] p.t = "arr"  -> IF m.t = "arr" THEN arraycatMatch(h, <<b>>, p.e, m.e, 0)
                       ELSE Found(h, <<>>)
    [] p.t = "null" -> Found(h, <<>>)
    [] p.t = "obj"  -> IF m.t \notin {"obj", "arr", "null"} THEN Found(h, <<>>)
                       ELSE IF LengthIsZero(p) THEN Found(h, <<b>>)
                       ELSE mapcatMatch(h, <<b>>, p.e, m, 0)
    [] OTHER        -> Found(h, IF LooseEqual(p, m) THEN <<b>> ELSE <<>>)

(***************************************************************************)
(* A call from outside: the sets of bindings returned, what the call left  *)
(* in the caller's own bindings object, and whether the first result IS    *)
(* that object.                                                            *)
(***************************************************************************)
Matched(p, m, bs) ==
  LET x == match(<<bs>>, p, m, 1)
  IN [threw |-> ~x.ok,
      bss   |-> [n \in DOMAIN x.r |-> x.h[x.r[n]]],
      left  |-> x.h[1],
      same  |-> x.r # <<>> /\ Head(x.r) = 1]
=============================================================================
