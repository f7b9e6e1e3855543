----------------------------- MODULE MatchSpec -----------------------------
(***************************************************************************)
(* What a call of match(ctx, p, m, bs) promises, stated without the        *)
(* algorithm of js/match.js: which sets of bindings make a pattern agree   *)
(* with a message.  The specification picks one call and runs it.          *)
(***************************************************************************)
EXTENDS Matching

CONSTANT Inputs     \* the calls: records [p |-> pattern, m |-> message, bs |-> bindings]

VARIABLES call,     \* the arguments of the call
          pc,       \* "calling", then "returned"
          result    \* what Matched says of the call

vars == <<call, pc, result>>

Nothing == [threw |-> FALSE, bss |-> <<>>, left |-> NoBinding, same |-> FALSE]

Init == call \in Inputs /\ pc = "calling" /\ result = Nothing

Call == /\ pc = "calling"
        /\ result' = Matched(call.p, call.m, call.bs)
        /\ pc' = "returned"
        /\ UNCHANGED call

Next == Call
Spec == Init /\ [][Next]_vars

Returned == pc = "returned" /\ ~result.threw
Results  == {result.bss[n] : n \in DOMAIN result.bss}

(***************************************************************************)
(* The reference.  Agree(p, m, s): under the bindings s, the pattern p     *)
(* agrees with the message m.                                              *)
(***************************************************************************)
IsIneq(p, s) == p.op \in Ineqs /\ p \in DOMAIN s /\ s[p].t = "num"

RECURSIVE Agree(_, _, _)
Agree(p, m, s) ==
  CASE isVar(p) /\ isAnonymous(p) -> TRUE
    [] isVar(p) /\ IsIneq(p, s) /\ m.t = "num"
         -> Holds(p.op, m.n, s[p].n) /\ Plain(p) \in DOMAIN s /\ s[Plain(p)] = m
    [] isVar(p) /\ ~isAnonymous(p) /\ ~(IsIneq(p, s) /\ m.t = "num")
         -> p \in DOMAIN s /\ s[p] = m
    [] p.t = "arr"
         -> /\ m.t = "arr"
            /\ \E S \in SUBSET DOMAIN p.e : \E f \in [S -> DOMAIN m.e] :
                 /\ \A i \in DOMAIN p.e \ S : isOptVar(p.e[i])
                 /\ \A i, j \in S : i # j => f[i] # f[j]
                 /\ \A i \in S : Agree(p.e[i], m.e[f[i]], s)
    [] p.t = "obj"
         -> /\ m.t = "obj"
            /\ \A i \in DOMAIN p.e :
                 LET e == p.e[i]
                 IN IF isVar(e.key)
                    THEN \E j \in DOMAIN m.e : /\ Agree(e.key, m.e[j].key, s)
                                               /\ Agree(e.val, m.e[j].val, s)
                    ELSE \/ ~Has(m, e.key) /\ isOptVar(e.val)
                         \/ Has(m, e.key) /\ Agree(e.val, Get(m, e.key), s)
    [] OTHER -> p = m

RECURSIVE Variables(_)
Variables(p) ==
  CASE isVar(p)      -> IF isAnonymous(p) THEN {} ELSE {p, Plain(p)}
    [] p.t = "arr"   -> UNION {Variables(p.e[i]) : i \in DOMAIN p.e}
    [] p.t = "obj"   -> UNION {Variables(p.e[i].key) \cup Variables(p.e[i].val)
                                 : i \in DOMAIN p.e}
    [] OTHER         -> {}

RECURSIVE Parts(_)
Parts(m) ==
  {m} \cup CASE m.t = "arr" -> UNION {Parts(m.e[i]) : i \in DOMAIN m.e}
             [] m.t = "obj" -> UNION {{m.e[i].key} \cup Parts(m.e[i].val) : i \in DOMAIN m.e}
             [] OTHER       -> {}

\* The extensions of the call's bindings that agree, and bind nothing they need not.
Extensions ==
  LET new == Variables(call.p) \ DOMAIN call.bs
  IN {f @@ call.bs : f \in UNION {[S -> Parts(call.m)] : S \in SUBSET new}}
Answers ==
  LET agreeing == {s \in Extensions : Agree(call.p, call.m, s)}
  IN {s \in agreeing : ~\E t \in agreeing : DOMAIN t # DOMAIN s /\
                          \A x \in DOMAIN t : x \in DOMAIN s /\ t[x] = s[x]}

TwoVariables(p) ==
  \/ p.t = "arr" /\ \E i, j \in DOMAIN p.e : i # j /\ isVar(p.e[i]) /\ isVar(p.e[j])
  \/ p.t = "obj" /\ \E i, j \in DOMAIN p.e : i # j /\ isVar(p.e[i].key) /\ isVar(p.e[j].key)
\* A pattern matches nested arrays only at the property values of an object here.
NotAllowed(p) ==
  TwoVariables(p) \/ (p.t = "obj" /\ \E i \in DOMAIN p.e : TwoVariables(p.e[i].val))

(***************************************************************************)
(* Properties.                                                             *)
(***************************************************************************)

\* Soundness: every set of bindings that match returns extends the caller's
\* and makes the pattern agree with the message.  It does for the calls of
\* MCMatch's CoveredInputs, and not for those of its DepartingInputs.
Sound ==
  Returned => \A s \in Results : Agree(call.p, call.m, s) /\
                \A x \in DOMAIN call.bs : x \in DOMAIN s /\ s[x] = call.bs[x]

\* Completeness: every way in which the message can agree is returned.
Complete == Returned => Answers \subseteq Results

\* match throws for no other reason than a second variable in one array or
\* among one object's properties: any other call returns.
ThrowsOnlyWhenNotAllowed == result.threw => NotAllowed(call.p)

\* The caller's bindings are not written to, unless one of them is the bound
\* of an inequality variable.  The next branch of step relies on it: it is
\* tried with the same object.
CallerUntouched ==
  (\A x \in DOMAIN call.bs : x.op \notin Ineqs) =>
     (pc = "returned" => result.left = call.bs)
=============================================================================
