------------------------------ MODULE MCGadget ------------------------------
(***************************************************************************)
(* A machine specification that takes walk through every one of its paths. *)
(***************************************************************************)
EXTENDS Walk, Matching

A == Str("a")
B == Str("b")
X == Var("", "x")
N == Var("", "n")
Below == Var("<", "n")
Error == Str("error")

\* Bindings over four names and two numbers, or an array for ?x.
Numbers  == {Num(1), Num(2)}
One      == Arr(<<Num(1)>>)
Bindings ==
  LET plain == UNION {[S -> Numbers] : S \in SUBSET {X, N, Below}}
      some  == plain \cup {(X :> One) @@ b : b \in plain}
  IN some \cup {(Error :> Num(1)) @@ b : b \in some}
AsObject(b) ==
  LET names == SetToSeq(DOMAIN b)
      name(v) == IF isVar(v) THEN Str("?" \o v.op \o v.s) ELSE v
  IN Obj([j \in DOMAIN names |-> Entry(name(names[j]), b[names[j]])])

MatchObject(p, x, b) ==
  IF b = NoBs THEN [Matched(p, x, NoBinding) EXCEPT !.left = NoBs, !.same = FALSE]
              ELSE Matched(p, x, b)
SetError(b) == (Error :> Num(1)) @@ b

Ask(v) == Obj(<<Entry(A, v)>>)
Both(v, w) == Obj(<<Entry(A, v), Entry(B, w)>>)
Messages == {Ask(Num(1)), Ask(Num(2)), Ask(One), Both(Num(1), Num(1)),
             Both(Num(1), Num(2)), Obj(<<Entry(B, Num(1))>>), Obj(<<Entry(B, Num(2))>>)}

TwoInArray  == Ask(Arr(<<X, N>>))
LowAndOne   == Both(Below, Num(1))
AnyOne      == Obj(<<Entry(Var("", ""), Num(1))>>)
AskX        == Ask(X)
BTwo        == Obj(<<Entry(B, Num(2))>>)
HasError    == Obj(<<Entry(Error, Var("", ""))>>)
ErrorX      == Obj(<<Entry(Error, X)>>)
Patterns    == {TwoInArray, LowAndOne, AnyOne, AskX, BTwo, HasError, ErrorX}

\* The matcher as tables, which TLC computes once.  Few bindings are matched
\* against others than themselves.
AllBs == Bindings \cup {NoBs}
TextOf(b) == IF b = NoBs THEN Str("") ELSE AsObject(b)
MessageTable == [p \in Patterns, m \in Messages, b \in AllBs |-> MatchObject(p, m, b)]
OwnTable     == [p \in Patterns, b \in AllBs |-> MatchObject(p, TextOf(b), b)]
MatchMessage(p, m, b)  == MessageTable[p, m, b]
MatchBindings(p, a, b) == IF a = b THEN OwnTable[p, b] ELSE MatchObject(p, TextOf(a), b)

Run1(src)   == [interpreter |-> "alias", source |-> src]
Log         == [interpreter |-> "none", source |-> "log"]
Foreign     == [interpreter |-> "unknown", source |-> "log"]
To(p, g, n) == [pattern |-> p, guard |-> g, target |-> n]
NodeOf(as, t, brs) == [actions |-> as, type |-> t, branches |-> brs]

Gadget ==
  [ask    |-> NodeOf(<<>>, "message",
                <<To(TwoInArray, None, "ask"), To(LowAndOne, None, "ask"),
                  To(AskX, Run1("pick"), "work"), To(BTwo, Foreign, "ask"),
                  To(AskX, Run1("check"), "hear"), To(AnyOne, None, "spin")>>),
   work   |-> NodeOf(<<Log, Run1("work")>>, "bindings",
                <<To(HasError, None, "odd"), To(None, None, "hear")>>),
   hear   |-> NodeOf(<<Run1("speak")>>, "message", <<To(None, None, "deaf")>>),
   deaf   |-> NodeOf(<<>>, "bindings", <<To(None, Run1("pick"), "gone"), To(None, None, "odd")>>),
   look   |-> NodeOf(<<>>, "bindings",
                <<To(ErrorX, Run1("pick"), "gone"), To(AnyOne, None, "odd")>>),
   low    |-> NodeOf(<<>>, "message", <<To(LowAndOne, None, "ask")>>),
   spin   |-> NodeOf(<<>>, "bindings", <<To(None, None, "spin")>>),
   odd    |-> NodeOf(<<Foreign>>, "message", <<>>),
   end    |-> NodeOf(<<>>, "absent", <<>>)]
Names  == DOMAIN Gadget \cup {"gone"}
Starts == {[node |-> "look", bs |-> Error :> Num(1)]} \cup
          [node : {"ask", "low", "work", "deaf", "end"},
           bs : {NoBinding, Below :> Num(2), (Below :> Num(2)) @@ (X :> Num(1)), NoBs}]
Sources == {"pick", "check", "work", "speak", "log"}

Does(b, e) == [ok |-> TRUE, bs |-> b, emitted |-> e]
Fails      == [ok |-> FALSE, bs |-> NoBs, emitted |-> <<>>]
Throws1    == [ok |-> TRUE, bs |-> NoBs, emitted |-> Undefined]
GadgetEval(src, b) ==
  CASE src = "pick"  -> {Does(b, <<>>), Does(NoBs, <<>>)}
    [] src = "check" -> {Does(NoBs, <<>>), Fails, NullReply, Throws1}
    [] src = "work"  -> {Does(b, <<"x">>), Does(NoBs, <<"x", "y">>), Fails}
    [] src = "speak" -> {Does(b, <<"y">>), Does(NoBinding, <<>>), NullReply, Throws1}
    [] src = "log"   -> {Does(b, <<>>)}
=============================================================================
