------------------------------- MODULE Specs -------------------------------
(***************************************************************************)
(* The machine specifications shipped in specs/: double, turnstile, ladder *)
(* and latch, as nodes for Walk.  Node names carry the name of their       *)
(* machine.  An emission is the value that tells it apart.                 *)
(***************************************************************************)
EXTENDS Walk, Values, FiniteSets

CONSTANT MaxCount   \* bound on the count of double and the rung of ladder
ASSUME MaxCountAssumption == MaxCount \in Nat

Input(s)  == Obj(<<Entry(Str("input"), Str(s))>>)
DoubleX   == Obj(<<Entry(Str("double"), Var("", "x"))>>)
VarX      == Var("", "x")
Count     == Str("count")
Rung      == Str("rung")

Does(src)  == [interpreter |-> "alias", source |-> src]
Log        == [interpreter |-> "none", source |-> "log"]
On(p, n)   == [pattern |-> p, guard |-> None, target |-> n]
Goto(n)    == On(None, n)
Hears(as, brs) == [actions |-> as, type |-> "message", branches |-> brs]
Moves(as, brs) == [actions |-> as, type |-> "bindings", branches |-> brs]

Double ==
  [n \in {"double.start", "double.listen", "double.double", "double.complain",
          "double.cleanup"} |->
     CASE n = "double.start"    -> Moves(<<>>, <<Goto("double.listen")>>)
       [] n = "double.listen"   -> Hears(<<>>,
            <<[pattern |-> DoubleX, guard |-> Does("isNumber"), target |-> "double.double"],
              On(DoubleX, "double.complain")>>)
       [] n = "double.double"   -> Moves(<<Does("double")>>, <<Goto("double.cleanup")>>)
       [] n = "double.complain" -> Moves(<<Does("complain")>>, <<Goto("double.cleanup")>>)
       [] n = "double.cleanup"  -> Moves(<<Log, Does("cleanup")>>, <<Goto("double.listen")>>)]

Turnstile ==
  [n \in {"turnstile.start", "turnstile.locked", "turnstile.nope", "turnstile.unlocked",
          "turnstile.enter"} |->
     CASE n = "turnstile.start"    -> Moves(<<>>, <<Goto("turnstile.locked")>>)
       [] n = "turnstile.locked"   -> Hears(<<>>, <<On(Input("coin"), "turnstile.unlocked"),
                                                    On(Input("push"), "turnstile.nope")>>)
       [] n = "turnstile.nope"     -> Moves(<<Does("away")>>, <<Goto("turnstile.locked")>>)
       [] n = "turnstile.unlocked" -> Hears(<<>>, <<On(Input("coin"), "turnstile.unlocked"),
                                                    On(Input("push"), "turnstile.enter")>>)
       [] n = "turnstile.enter"    -> Moves(<<Does("through")>>, <<Goto("turnstile.locked")>>)]

Ladder ==
  [n \in {"ladder.start", "ladder.stop", "ladder.up", "ladder.down", "ladder.fall"} |->
     CASE n = "ladder.start" -> Moves(<<>>, <<Goto("ladder.stop")>>)
       [] n = "ladder.stop"  -> Hears(<<>>, <<On(Input("up"), "ladder.up"),
                                              On(Input("down"), "ladder.down"),
                                              On(Input("fall"), "ladder.fall")>>)
       [] n = "ladder.up"    -> Moves(<<Does("up")>>, <<Goto("ladder.stop")>>)
       [] n = "ladder.down"  -> Moves(<<Does("down")>>, <<Goto("ladder.stop")>>)
       [] n = "ladder.fall"  -> Moves(<<Does("fall")>>,
            <<[pattern |-> None, guard |-> Does("landed"), target |-> "ladder.stop"],
              Goto("ladder.fall")>>)]

Latch ==
  [n \in {"latch.start", "latch.locked", "latch.unlocked"} |->
     CASE n = "latch.start"    -> Moves(<<>>, <<Goto("latch.locked")>>)
       [] n = "latch.locked"   -> Hears(<<Does("unlocking")>>, <<On(Input("tick"), "latch.unlocked")>>)
       [] n = "latch.unlocked" -> Hears(<<Does("locking")>>, <<On(Input("tick"), "latch.locked")>>)]

Shipped ==
  [n \in DOMAIN Double \cup DOMAIN Turnstile \cup DOMAIN Ladder \cup DOMAIN Latch |->
     CASE n \in DOMAIN Double    -> Double[n]
       [] n \in DOMAIN Turnstile -> Turnstile[n]
       [] n \in DOMAIN Ladder    -> Ladder[n]
       [] n \in DOMAIN Latch     -> Latch[n]]

(***************************************************************************)
(* The sources of their actions and guards.                                *)
(***************************************************************************)
Sources   == {"isNumber", "double", "complain", "cleanup", "away", "through",
              "up", "down", "fall", "landed", "unlocking", "locking", "log"}
Emissions == {"doubled", "bad value", "away", "through", "climbing", "descending",
              "at bottom", "falling", "unlocking", "locking"}

Gives(b, e) == [ok |-> TRUE, bs |-> b, emitted |-> e]
Bind(b, v, x) == [w \in DOMAIN b \cup {v} |-> IF w = v THEN x ELSE b[w]]
\* count++ and rung++, up to the bound MaxCount; rung-- down to the bound Lowest.
Lowest     == -2
Up(b, v)   == Bind(b, v, Num(IF b[v].n < MaxCount THEN b[v].n + 1 ELSE MaxCount))
Down(b, v) == Bind(b, v, Num(IF b[v].n > Lowest THEN b[v].n - 1 ELSE Lowest))

double(b)   == Gives(Up(b, Count), <<"doubled">>)
cleanup_keeping(b) == Gives(b, <<>>)
cleanup(b)  == Gives([v \in DOMAIN b \ {VarX} |-> b[v]], <<>>)
\* parseFloat reads strings: a boolean is not a number for it, nor is "".
parseFloat(v) == IF v.t \in {"num", "str"} /\ v # Str("") THEN ToNumber(v) ELSE NaN
isNumber(b)   == LET f == parseFloat(b[VarX])
                 IN Gives(IF f = NaN THEN NoBs ELSE Bind(b, VarX, Num(f)), <<>>)
up(b)       == Gives(Up(b, Rung), <<"climbing">>)
down(b)     == IF b[Rung].n > 0 THEN Gives(Down(b, Rung), <<"descending">>)
                                ELSE Gives(b, <<"at bottom">>)
fall(b)     == Gives(Down(b, Rung), <<"falling">>)
landed(b)   == Gives(IF b[Rung].n > 0 THEN NoBs ELSE b, <<>>)

\* A source is run on the bindings of its own machine.
Runs(src, b) ==
  CASE src \in {"away", "through", "unlocking", "locking"} -> {Gives(b, <<src>>)}
    [] src = "complain"                              -> {Gives(b, <<"bad value">>)}
    [] src = "double"   /\ Count \in DOMAIN b        -> {double(b)}
    [] src = "isNumber" /\ VarX \in DOMAIN b         -> {isNumber(b)}
    [] src = "cleanup"                               -> {cleanup(b)}
    [] src = "up"       /\ Rung \in DOMAIN b         -> {up(b)}
    [] src = "down"     /\ Rung \in DOMAIN b         -> {down(b)}
    [] src = "fall"     /\ Rung \in DOMAIN b         -> {fall(b)}
    [] src = "landed"   /\ Rung \in DOMAIN b         -> {landed(b)}
    [] OTHER                                         -> {}

(***************************************************************************)
(* What the proofs ask of an instance: the nodes and the sources are the   *)
(* shipped ones, and the host starts each machine with its parameters.     *)
(* What an action leaves is bindings; only a guard can return nothing.     *)
(***************************************************************************)
Guards == {"isNumber", "landed"}
ASSUME ShippedAssumption ==
  /\ Nodes = Shipped
  /\ Emissions \subseteq Emission
  /\ \A src \in Guards : Does(src) # None
  /\ \A src \in Source, b \in Binding :
       /\ Eval(src, b) = Runs(src, b)
       /\ src \notin Guards => \A o \in Runs(src, b) : o.bs \in Binding

HasCounter(b, v) == v \in DOMAIN b /\ b[v].n \in Int
ASSUME StartsAssumption ==
  \A s \in Start :
    /\ s.node \in {"double.start", "turnstile.start", "ladder.start", "latch.start"}
    /\ s.bs \in Binding
    /\ s.node = "double.start" => HasCounter(s.bs, Count) /\ VarX \notin DOMAIN s.bs
    /\ s.node = "ladder.start" => HasCounter(s.bs, Rung)

\* A shipped pattern is one property of a message: match finds it there once or
\* not at all, and keeps every binding it is given.
ASSUME PatternsAssumption ==
  \A p \in Pattern, m \in Message, b \in Binding :
    LET x == Match(p, m, b)
    IN /\ ~x.threw
       /\ x.left = b
       /\ Len(x.bss) <= 1
       /\ Len(x.bss) = 1 /\ x.same => x.bss[1] = b
       /\ Len(x.bss) = 1 => \A v \in DOMAIN b : v \in DOMAIN x.bss[1] /\ x.bss[1][v] = b[v]

(***************************************************************************)
(* What the four machines are for.                                         *)
(***************************************************************************)
Times(s, e) == Cardinality({j \in DOMAIN s : s[j] = e})
Says(e)     == Times(emitted, e)
Returns     == pc \in Rests
\* Where the bounds of the model are not felt: a walk climbs, or falls below
\* the ladder, at most twice.
Unfelt(n)   == n \in 0 .. MaxCount - 2

\* turnstile: nobody goes through unless it was unlocked, a push is answered
\* at most once, and it is locked again afterwards.
TurnstileIsHonest ==
  Returns /\ emitted # <<>> /\ state.node \in {"turnstile.locked", "turnstile.unlocked"} =>
    /\ emitted = IF state.node = "turnstile.unlocked" THEN <<"through">> ELSE <<"away">>
    /\ at.node = "turnstile.locked"

\* ladder: every change of the rung that the host is given is announced in the
\* emissions of the same walk, also when the limit cuts a fall in two.
LadderAnnouncesMoves ==
  Returns /\ state.node \in DOMAIN Ladder /\ Unfelt(state.bs[Rung].n) =>
    at.bs[Rung].n - state.bs[Rung].n = Says("climbing") - Says("descending") - Says("falling")

\* latch: a tick toggles it and is announced once, although the action of its
\* node runs when the node is entered and again when the tick arrives.
LatchSpeaksOnce ==
  Returns /\ state.node \in {"latch.locked", "latch.unlocked"} =>
    /\ (at.node # state.node) <=> consumed
    /\ emitted = IF ~consumed THEN <<>>
                 ELSE IF state.node = "latch.locked" THEN <<"unlocking">> ELSE <<"locking">>

\* double: at rest, the count is that of the numbers doubled, each message was
\* answered once, and the temporary ?x is gone.
DoubleCounts ==
  Returns /\ state.node = "double.listen" =>
    /\ at.node = "double.listen"
    /\ VarX \notin DOMAIN at.bs
    /\ Len(emitted) = IF consumed THEN 1 ELSE 0
    /\ Unfelt(state.bs[Count].n) => at.bs[Count].n = state.bs[Count].n + Says("doubled")
=============================================================================
