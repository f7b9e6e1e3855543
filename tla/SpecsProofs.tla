---------------------------- MODULE SpecsProofs ----------------------------
(***************************************************************************)
(* Theorems about the shipped machines under walk: what each of them is    *)
(* for, whatever bindings and messages they are given and wherever the     *)
(* limit on steps stops them.                                              *)
(***************************************************************************)
EXTENDS Specs, WalkProofs, FiniteSetTheorems

(***************************************************************************)
(* The shipped nodes, one by one.                                          *)
(***************************************************************************)
DoubleNode    == {"double.start", "double.listen", "double.double", "double.complain",
                  "double.cleanup"}
TurnstileNode == {"turnstile.start", "turnstile.locked", "turnstile.nope",
                  "turnstile.unlocked", "turnstile.enter"}
LadderNode    == {"ladder.start", "ladder.stop", "ladder.up", "ladder.down", "ladder.fall"}
LatchNode     == {"latch.start", "latch.locked", "latch.unlocked"}

LEMMA NodesByMachine ==
  /\ DOMAIN Double = DoubleNode /\ DOMAIN Turnstile = TurnstileNode
  /\ DOMAIN Ladder = LadderNode /\ DOMAIN Latch = LatchNode
  /\ DOMAIN Nodes = DoubleNode \cup TurnstileNode \cup LadderNode \cup LatchNode
  /\ \A n \in DoubleNode : Nodes[n] = Double[n]
  /\ \A n \in TurnstileNode : Nodes[n] = Turnstile[n]
  /\ \A n \in LadderNode : Nodes[n] = Ladder[n]
  /\ \A n \in LatchNode : Nodes[n] = Latch[n]
<1>1. /\ DOMAIN Double = DoubleNode /\ DOMAIN Turnstile = TurnstileNode
      /\ DOMAIN Ladder = LadderNode /\ DOMAIN Latch = LatchNode
  BY DEF Double, Turnstile, Ladder, Latch, DoubleNode, TurnstileNode, LadderNode, LatchNode
<1>2. DOMAIN Nodes = DoubleNode \cup TurnstileNode \cup LadderNode \cup LatchNode
  BY <1>1, ShippedAssumption DEF Shipped
<1>3. /\ DoubleNode \cap TurnstileNode = {} /\ DoubleNode \cap LadderNode = {}
      /\ DoubleNode \cap LatchNode = {} /\ TurnstileNode \cap LadderNode = {}
      /\ TurnstileNode \cap LatchNode = {} /\ LadderNode \cap LatchNode = {}
  BY DEF DoubleNode, TurnstileNode, LadderNode, LatchNode
<1>4. \A n \in DoubleNode : Nodes[n] = Double[n]
  BY <1>1, <1>3, ShippedAssumption DEF Shipped
<1>5. \A n \in TurnstileNode : Nodes[n] = Turnstile[n]
  BY <1>1, <1>3, ShippedAssumption DEF Shipped
<1>6. \A n \in LadderNode : Nodes[n] = Ladder[n]
  BY <1>1, <1>3, ShippedAssumption DEF Shipped
<1>7. \A n \in LatchNode : Nodes[n] = Latch[n]
  BY <1>1, <1>3, ShippedAssumption DEF Shipped
<1> QED
  BY <1>1, <1>2, <1>4, <1>5, <1>6, <1>7

LEMMA DoubleIs ==
  /\ Nodes["double.start"]    = Moves(<<>>, <<Goto("double.listen")>>)
  /\ Nodes["double.listen"]   = Hears(<<>>,
       <<[pattern |-> DoubleX, guard |-> Does("isNumber"), target |-> "double.double"],
         On(DoubleX, "double.complain")>>)
  /\ Nodes["double.double"]   = Moves(<<Does("double")>>, <<Goto("double.cleanup")>>)
  /\ Nodes["double.complain"] = Moves(<<Does("complain")>>, <<Goto("double.cleanup")>>)
  /\ Nodes["double.cleanup"]  = Moves(<<Log, Does("cleanup")>>, <<Goto("double.listen")>>)
BY NodesByMachine DEF DoubleNode, Double

LEMMA TurnstileIs ==
  /\ Nodes["turnstile.start"]    = Moves(<<>>, <<Goto("turnstile.locked")>>)
  /\ Nodes["turnstile.locked"]   = Hears(<<>>, <<On(Input("coin"), "turnstile.unlocked"),
                                                 On(Input("push"), "turnstile.nope")>>)
  /\ Nodes["turnstile.nope"]     = Moves(<<Does("away")>>, <<Goto("turnstile.locked")>>)
  /\ Nodes["turnstile.unlocked"] = Hears(<<>>, <<On(Input("coin"), "turnstile.unlocked"),
                                                 On(Input("push"), "turnstile.enter")>>)
  /\ Nodes["turnstile.enter"]    = Moves(<<Does("through")>>, <<Goto("turnstile.locked")>>)
BY NodesByMachine DEF TurnstileNode, Turnstile

LEMMA LadderIs ==
  /\ Nodes["ladder.start"] = Moves(<<>>, <<Goto("ladder.stop")>>)
  /\ Nodes["ladder.stop"]  = Hears(<<>>, <<On(Input("up"), "ladder.up"),
                                           On(Input("down"), "ladder.down"),
                                           On(Input("fall"), "ladder.fall")>>)
  /\ Nodes["ladder.up"]    = Moves(<<Does("up")>>, <<Goto("ladder.stop")>>)
  /\ Nodes["ladder.down"]  = Moves(<<Does("down")>>, <<Goto("ladder.stop")>>)
  /\ Nodes["ladder.fall"]  = Moves(<<Does("fall")>>,
       <<[pattern |-> None, guard |-> Does("landed"), target |-> "ladder.stop"],
         Goto("ladder.fall")>>)
BY NodesByMachine DEF LadderNode, Ladder

LEMMA LatchIs ==
  /\ Nodes["latch.start"]    = Moves(<<>>, <<Goto("latch.locked")>>)
  /\ Nodes["latch.locked"]   = Hears(<<Does("unlocking")>>, <<On(Input("tick"), "latch.unlocked")>>)
  /\ Nodes["latch.unlocked"] = Hears(<<Does("locking")>>, <<On(Input("tick"), "latch.locked")>>)
BY NodesByMachine DEF LatchNode, Latch

(***************************************************************************)
(* What all of them have in common: at most one source, which is the last  *)
(* action, and patterns only where a message is listened for.              *)
(***************************************************************************)
Shaped(n) ==
  LET node == Nodes[n]
  IN /\ node.type \in {"message", "bindings"}
     /\ \A j \in 1 .. Len(node.actions) :
          /\ node.actions[j].interpreter = "alias" <=> j = Len(node.actions)
          /\ node.actions[j].interpreter # "unknown"
          /\ node.actions[j].source \notin Guards
     /\ \A j \in 1 .. Len(node.branches) :
          /\ node.branches[j].pattern # None => node.type = "message"
          /\ node.branches[j].guard # None =>
               /\ j = 1
               /\ node.branches[j].guard.interpreter = "alias"
               /\ \/ node.branches[j].guard.source = "isNumber" /\ node.type = "message"
                  \/ node.branches[j].guard.source = "landed" /\ node.type = "bindings"
     /\ node.type = "bindings" =>
          /\ Open(node.branches[Len(node.branches)])
          /\ Len(node.branches) # 0

LEMMA NodesAreShaped == \A n \in DOMAIN Nodes : Shaped(n)
<1> USE DEF Moves, Hears, Does, Log, On, Goto, Open, Guards
<1>1. \A n \in DoubleNode : Shaped(n)
  <2>1. Shaped("double.start") BY DoubleIs DEF Shaped
  <2>2. Shaped("double.listen") BY DoubleIs DEF Shaped
  <2>3. Shaped("double.double") BY DoubleIs DEF Shaped
  <2>4. Shaped("double.complain") BY DoubleIs DEF Shaped
  <2>5. Shaped("double.cleanup") BY DoubleIs DEF Shaped
  <2> QED BY <2>1, <2>2, <2>3, <2>4, <2>5 DEF DoubleNode
<1>2. \A n \in TurnstileNode : Shaped(n)
  BY TurnstileIs DEF TurnstileNode, Shaped
<1>3. \A n \in LadderNode : Shaped(n)
  <2>1. Shaped("ladder.start") BY LadderIs DEF Shaped
  <2>2. Shaped("ladder.stop") BY LadderIs DEF Shaped
  <2>3. Shaped("ladder.up") BY LadderIs DEF Shaped
  <2>4. Shaped("ladder.down") BY LadderIs DEF Shaped
  <2>5. Shaped("ladder.fall") BY LadderIs DEF Shaped
  <2> QED BY <2>1, <2>2, <2>3, <2>4, <2>5 DEF LadderNode
<1>4. \A n \in LatchNode : Shaped(n)
  <2>1. Shaped("latch.start") BY LatchIs DEF Shaped
  <2>2. Shaped("latch.locked") BY LatchIs DEF Shaped
  <2>3. Shaped("latch.unlocked") BY LatchIs DEF Shaped
  <2> QED BY <2>1, <2>2, <2>3 DEF LatchNode
<1> QED
  BY <1>1, <1>2, <1>3, <1>4, NodesByMachine

(***************************************************************************)
(* The sources: what each of them returns.                                 *)
(***************************************************************************)
\* No shipped source throws, so the sandbox returns what the source returns.
LEMMA SandboxRuns ==
  ASSUME NEW src \in Source, NEW b \in Binding
  PROVE  /\ sandboxedAction(src, b) = Runs(src, b)
         /\ \A o \in Runs(src, b) : o.ok
<1>1. Object(b) = b
  BY StateAssumption DEF Object
<1>2. Eval(src, b) = Runs(src, b)
  BY ShippedAssumption
<1>3. \A o \in Runs(src, b) : o.ok
  <2>1. \A x, e : Gives(x, e).ok
    BY DEF Gives
  <2>2. double(b).ok /\ up(b).ok /\ fall(b).ok
    BY <2>1 DEF double, up, fall
  <2>3. cleanup(b).ok /\ landed(b).ok
    BY <2>1 DEF cleanup, landed
  <2>4. isNumber(b).ok /\ down(b).ok
    BY <2>1 DEF isNumber, down
  <2> QED BY <2>1, <2>2, <2>3, <2>4 DEF Runs
<1> QED
  BY <1>1, <1>2, <1>3 DEF sandboxedAction

\* A step never loses a binding but ?x, nor changes one by the way.
Keeps(b, c) == \A v \in DOMAIN b \ {VarX} : v \in DOMAIN c /\ c[v] = b[v]

LEMMA KeepsAll ==
  ASSUME NEW b, NEW c, \A v \in DOMAIN b : v \in DOMAIN c /\ c[v] = b[v]
  PROVE  Keeps(b, c)
BY DEF Keeps

LEMMA KeepsOn ==
  ASSUME NEW a, NEW b, NEW c, Keeps(a, b), Keeps(b, c)
  PROVE  Keeps(a, c)
BY DEF Keeps

\* A guard rejects, or gives back the bindings it was given, with ?x a number.
LEMMA GuardsKeep ==
  ASSUME NEW src \in Guards, NEW b, NEW o \in Runs(src, b)
  PROVE  /\ o.bs = NoBs \/ Keeps(b, o.bs)
         /\ src = "landed" => o.bs = IF b[Rung].n > 0 THEN NoBs ELSE b
<1>1. CASE src = "isNumber"
  <2>1. o = isNumber(b)
    BY <1>1 DEF Runs
  <2>2. PICK f : o.bs = IF f = NaN THEN NoBs ELSE Bind(b, VarX, Num(f))
    BY <2>1 DEF isNumber, Gives
  <2>3. \A x : Keeps(b, Bind(b, VarX, x))
    BY DEF Keeps, Bind
  <2> QED BY <1>1, <2>2, <2>3
<1>2. CASE src = "landed"
  <2>1. o = landed(b)
    BY <1>2 DEF Runs
  <2> QED BY <2>1 DEF landed, Gives, Keeps
<1> QED
  BY <1>1, <1>2 DEF Guards

(***************************************************************************)
(* Inside a step.  The actions run on the bindings the step began with,    *)
(* and the branches go on from what they left; the host's bindings at.bs   *)
(* are never written into.                                                 *)
(***************************************************************************)
\* b and e are what the actions of the node leave and emit.
Leaves(b, e) ==
  LET actions == Here.actions
  IN IF actions = <<>> THEN b = at.bs /\ e = <<>>
     ELSE \E o \in Runs(actions[Len(actions)].source, at.bs) : b = o.bs /\ e = o.emitted

HasBindings == at.bs \in Binding /\ state.bs \in Binding
Sharing  == shared => bs = at.bs
Entering == pc \in InStep => bs \in Binding
Acting   ==
  /\ pc \in {"idle", "loop"} => k = 1 /\ out = <<>>
  /\ pc = "actions" => IF k <= Len(Here.actions) THEN bs = at.bs /\ out = <<>>
                                                 ELSE Leaves(bs, out)
Choosing == pc \in {"branches", "guard", "take"} =>
              \E b \in Binding : /\ Leaves(b, out) /\ Keeps(b, bs)
                                 /\ Here.type = "bindings" => bs = b
\* A guard is the first branch's; where it is landed, it tells the branches apart.
Guarding == pc \in InStep /\ Here.type = "bindings" /\ Here.branches[1].guard # None =>
              /\ pc = "branches" /\ k # 1 => bs[Rung].n > 0
              /\ pc = "take" => IF k = 1 THEN ~(bs[Rung].n > 0) ELSE bs[Rung].n > 0

Inside == HasBindings /\ Sharing /\ Entering /\ Acting /\ Choosing /\ Guarding

LEMMA InsideInit == ASSUME Init PROVE Inside
<1>1. HasBindings
  BY StartsAssumption DEF Init, HasBindings
<1> QED
  BY <1>1 DEF Init, Inside, Sharing, Entering, Acting, Choosing, Guarding, InStep

LEMMA WriteIsIdle ==
  ASSUME TypeOK, Sharing
  PROVE  Write(bs) = at
BY DEF TypeOK, Sharing, Write

\* What may happen to the state and to what the walk returns, apart from Take
\* and the return to the host.
Still == UNCHANGED <<state, at, emitted, consumed, steps>>

\* An action of a shipped node is its last.
LEMMA ActInside ==
  ASSUME IInv, Inside, Act
  PROVE  Inside' /\ Still
<1> DEFINE src == Here.actions[k].source
<1>1. /\ pc = "actions" /\ k <= Len(Here.actions) /\ k \in Nat \ {0}
      /\ Here.actions[k].interpreter = "alias"
      /\ at.node \in DOMAIN Nodes /\ bs \in Binding
  BY DEF Act, IInv, InNode, InStep, TypeOK, Inside, Entering
<1>2. Here.actions \in Seq(Action) /\ src \in Source
  BY <1>1, NodeFacts DEF IInv, Action
<1>3. Shaped(at.node)
  BY <1>1, NodesAreShaped
<1>4. k = Len(Here.actions) /\ src \notin Guards
  BY <1>1, <1>2, <1>3 DEF Shaped, Here
<1>5. bs = at.bs
  BY <1>1 DEF Inside, Acting
<1>6. PICK o \in sandboxedAction(src, bs) \ {NullReply} :
        /\ out' = Accumulate(out, o)
        /\ bs' = o.bs
        /\ at' = IF o.ok THEN at ELSE Write(o.bs)
        /\ shared' = (shared /\ ~o.ok /\ bs # NoBs)
  BY DEF Act
<1>7. o \in Runs(src, bs) /\ o.ok
  BY <1>1, <1>2, <1>6, SandboxRuns
<1>8. o.bs \in Binding
  BY <1>1, <1>2, <1>4, <1>7, ShippedAssumption
<1>9. at' = at /\ shared' = FALSE /\ bs' = o.bs /\ out' = o.emitted
  BY <1>6, <1>7 DEF Accumulate
<1>10. pc' = "actions" /\ k' = Len(Here.actions) + 1 /\ Here' = Here
  BY <1>1, <1>4, <1>9 DEF Act, Here
<1>11. Leaves(bs, out)'
  BY <1>2, <1>4, <1>1, <1>5, <1>7, <1>9, <1>10 DEF Leaves
<1>12. Acting'
  BY <1>2, <1>10, <1>11 DEF Acting
<1>13. HasBindings' /\ Still
  BY <1>9 DEF Act, walkVars, Inside, HasBindings, Still
<1> QED
  BY <1>8, <1>9, <1>10, <1>12, <1>13 DEF Inside, Sharing, Entering, Choosing, Guarding

LEMMA AtMostOne ==
  ASSUME NEW S, NEW s \in Seq(S), Len(s) <= 1
  PROVE  s = <<>> \/ Len(s) = 1
<1>0. \A n \in Nat : n <= 1 => n = 0 \/ n = 1
  OBVIOUS
<1>1. Len(s) = 0 \/ Len(s) = 1
  BY <1>0, Len(s) \in Nat
<1>2. CASE Len(s) = 0
  BY <1>2, EmptySeq
<1> QED
  BY <1>1, <1>2

\* A pattern is tried at a node that listens, and never on at.bs for good.
LEMMA TryPatternInside ==
  ASSUME IInv, Inside, TryPattern
  PROVE  Inside' /\ Still
<1> DEFINE p == Here.branches[k].pattern
           x == Match(p, message, bs)
<1>1. /\ pc = "branches" /\ k \in 1 .. Len(Here.branches) /\ p # None
      /\ at.node \in DOMAIN Nodes /\ bs \in Binding /\ CanBranch
  BY DEF TryPattern, IInv, InNode, InBranches, InStep, TypeOK, Inside, Entering
<1>2. p \in Pattern
  BY <1>1, NodeFacts DEF IInv, Branch
<1>3. Shaped(at.node)
  BY <1>1, NodesAreShaped
<1>4. Here.type = "message"
  BY <1>1, <1>3 DEF Shaped, Here
<1>5. Against(p) = x /\ message \in Message
  BY <1>1, <1>4 DEF Against, CanBranch, IInv, TypeOK
<1>6. /\ ~x.threw /\ x.left = bs /\ Len(x.bss) <= 1
      /\ Len(x.bss) = 1 /\ x.same => x.bss[1] = bs
      /\ Len(x.bss) = 1 => \A v \in DOMAIN bs : v \in DOMAIN x.bss[1] /\ x.bss[1][v] = bs[v]
  BY <1>1, <1>2, <1>5, PatternsAssumption
<1>7. x.bss \in Seq(Binding)
  BY <1>1, <1>2, <1>5, MatchAssumption DEF MatchResult, Bs
<1>8. at' = at /\ Here' = Here
  <2>1. at' = Write(bs)
    BY <1>5, <1>6 DEF TryPattern
  <2> QED BY <2>1, WriteIsIdle DEF IInv, Inside, Here
<1>9. /\ UNCHANGED <<state, emitted, consumed, steps, out>>
  BY DEF TryPattern, walkVars
<1>10. PICK b \in Binding : Leaves(b, out) /\ Keeps(b, bs)
  BY <1>1 DEF Inside, Choosing
<1>11. Leaves(b, out)'
  BY <1>8, <1>9, <1>10 DEF Leaves
<1>12. /\ bs' \in Binding /\ Keeps(b, bs') /\ (shared' => bs' = at.bs)
       /\ pc' \in {"branches", "guard", "take"}
  <2>1. CASE x.bss = <<>>
    <3>1. bs' = bs /\ shared' = shared /\ pc' = "branches"
      BY <1>1, <1>5, <1>6, <2>1 DEF TryPattern
    <3> QED BY <1>1, <1>10, <3>1 DEF Inside, Sharing
  <2>2. CASE Len(x.bss) = 1
    <3>0. x.bss # <<>> /\ x.bss[1] \in Binding /\ ~(Len(x.bss) > 1)
      BY <1>7, <2>2
    <3>1. /\ bs' = x.bss[1] /\ shared' = (shared /\ x.same)
          /\ pc' = Onward(Here.branches[k])
      BY <1>5, <1>6, <2>2, <3>0, Zenon DEF TryPattern
    <3>2. Keeps(bs, bs')
      BY <1>6, <2>2, <3>1, KeepsAll
    <3>3. Keeps(b, bs')
      BY <1>10, <3>2, KeepsOn
    <3>4. shared' => bs' = at.bs
      BY <1>6, <2>2, <3>1 DEF Inside, Sharing
    <3> QED BY <3>0, <3>1, <3>3, <3>4 DEF Onward
  <2>3. x.bss = <<>> \/ Len(x.bss) = 1
    BY <1>6, <1>7, AtMostOne
  <2> QED BY <2>1, <2>2, <2>3
<1>13. Choosing'
  BY <1>4, <1>8, <1>11, <1>12 DEF Choosing
<1>14. HasBindings' /\ Still
  BY <1>8, <1>9 DEF Inside, HasBindings, Still
<1> QED
  BY <1>4, <1>8, <1>12, <1>13, <1>14 DEF Inside, Sharing, Entering, Acting, Guarding

\* A guard is that of the first branch, and leaves at.bs alone.
LEMMA TryGuardInside ==
  ASSUME IInv, Inside, TryGuard
  PROVE  Inside' /\ Still
<1> DEFINE src == Here.branches[k].guard.source
<1>1. /\ pc = "guard" /\ k \in 1 .. Len(Here.branches) /\ Here.branches[k].guard # None
      /\ at.node \in DOMAIN Nodes /\ bs \in Binding
  BY DEF TryGuard, IInv, InNode, InBranch, InStep, TypeOK, Inside, Entering
<1>2. src \in Source
  BY <1>1, NodeFacts DEF IInv, Branch, Guard
<1>3. Shaped(at.node)
  BY <1>1, NodesAreShaped
<1>4. /\ k = 1 /\ Here.branches[k].guard.interpreter = "alias"
      /\ src \in Guards
      /\ Here.type = "bindings" => src = "landed"
  BY <1>1, <1>3 DEF Shaped, Here, Guards
<1>5. PICK o \in sandboxedAction(src, bs) \ {NullReply} :
        /\ at' = IF o.ok THEN at ELSE Write(o.bs)
        /\ IF o.bs = NoBs
           THEN pc' = "branches" /\ k' = k + 1 /\ UNCHANGED <<bs, shared>>
           ELSE /\ pc' = "take" /\ bs' = o.bs /\ UNCHANGED k
                /\ shared' = (shared /\ ~o.ok /\ bs # NoBs)
  BY <1>4 DEF TryGuard
<1>6. o \in Runs(src, bs) /\ o.ok
  BY <1>1, <1>2, <1>5, SandboxRuns
<1>7. at' = at /\ Here' = Here /\ UNCHANGED <<state, emitted, consumed, steps, out>>
  BY <1>5, <1>6 DEF TryGuard, walkVars, Here
<1>8. o.bs \in Bs
  BY <1>1, <1>2, <1>5, SandboxFacts DEF Bs
<1>9. /\ o.bs = NoBs \/ Keeps(bs, o.bs)
      /\ src = "landed" => o.bs = IF bs[Rung].n > 0 THEN NoBs ELSE bs
  BY <1>4, <1>6, GuardsKeep
<1>10. PICK b \in Binding : /\ Leaves(b, out) /\ Keeps(b, bs)
                            /\ Here.type = "bindings" => bs = b
  BY <1>1 DEF Inside, Choosing
<1>11. Leaves(b, out)'
  BY <1>7, <1>10 DEF Leaves
<1>12. CASE o.bs = NoBs
  <2>1. pc' = "branches" /\ k' = 2 /\ bs' = bs /\ shared' = shared
    BY <1>4, <1>5, <1>12
  <2>2. Here.type = "bindings" => bs[Rung].n > 0
    <3>1. bs # NoBs
      BY <1>1, StateAssumption
    <3> QED BY <1>4, <1>9, <1>12, <3>1
  <2>3. Choosing'
    BY <1>7, <1>10, <1>11, <2>1 DEF Choosing
  <2>4. Guarding'
    BY <1>7, <2>1, <2>2 DEF Guarding
  <2> QED
    BY <1>1, <1>7, <2>1, <2>3, <2>4 DEF Inside, HasBindings, Sharing, Entering, Acting, Still
<1>13. CASE o.bs # NoBs
  <2>1. pc' = "take" /\ k' = 1 /\ bs' = o.bs /\ shared' = FALSE
    BY <1>4, <1>5, <1>6, <1>13
  <2>2. Here.type = "bindings" => bs' = bs /\ ~(bs[Rung].n > 0)
    BY <1>4, <1>9, <1>13, <2>1
  <2>3. Keeps(b, bs')
    BY <1>9, <1>10, <1>13, <2>1, KeepsOn
  <2>4. Choosing'
    BY <1>7, <1>8, <1>10, <1>11, <1>13, <2>1, <2>2, <2>3 DEF Choosing
  <2>5. Guarding'
    BY <1>7, <2>1, <2>2 DEF Guarding
  <2> QED
    BY <1>1, <1>7, <1>8, <1>13, <2>1, <2>4, <2>5
    DEF Inside, HasBindings, Sharing, Entering, Acting, Still, Bs
<1> QED
  BY <1>12, <1>13

LEMMA BranchingInside ==
  ASSUME IInv, Inside, Branching
  PROVE  Inside' /\ Still
<1>1. pc = "actions" /\ k > Len(Here.actions) /\ at.node \in DOMAIN Nodes
  BY DEF Branching, IInv, InNode, InStep
<1>2. Len(Here.actions) \in Nat /\ k \in Nat
  BY <1>1, NodeFacts DEF IInv, TypeOK
<1>3. Leaves(bs, out) /\ bs \in Binding
  BY <1>1, <1>2 DEF Inside, Acting, Entering, InStep
<1>4. UNCHANGED <<state, at, emitted, consumed, steps, bs, shared, out>> /\ Here' = Here
  BY DEF Branching, walkVars, Here
<1>5. k' = 1 /\ pc' \in {"branches", "rested"}
  BY DEF Branching
<1>6. Leaves(bs, out)'
  BY <1>3, <1>4 DEF Leaves
<1>7. Choosing'
  BY <1>3, <1>4, <1>6 DEF Choosing, Keeps
<1> QED
  BY <1>3, <1>4, <1>5, <1>7
  DEF Inside, HasBindings, Sharing, Entering, Acting, Guarding, Still

LEMMA UnconditionalInside ==
  ASSUME IInv, Inside, Unconditional
  PROVE  Inside' /\ Still
<1>1. pc = "branches" /\ pc' = Onward(Here.branches[k])
  BY DEF Unconditional
<1>2. UNCHANGED <<state, at, emitted, consumed, steps, bs, shared, out, k>> /\ Here' = Here
  BY DEF Unconditional, walkVars, stepVars, Here
<1>3. HasBindings' /\ Sharing' /\ Still
  BY <1>2 DEF Inside, HasBindings, Sharing, Still
<1>4. Entering'
  BY <1>1, <1>2 DEF Inside, Entering, InStep
<1>5. Choosing' /\ Acting'
  <2>1. \A b : Leaves(b, out)' <=> Leaves(b, out)
    BY <1>2 DEF Leaves
  <2>2. PICK b \in Binding : /\ Leaves(b, out) /\ Keeps(b, bs)
                             /\ Here.type = "bindings" => bs = b
    BY <1>1 DEF Inside, Choosing
  <2>3. Leaves(b, out)' /\ Keeps(b, bs)' /\ (Here.type = "bindings" => bs = b)'
    BY <1>2, <2>1, <2>2 DEF Keeps
  <2>4. Choosing'
    BY <1>2, <2>2, <2>3 DEF Choosing
  <2> QED BY <1>1, <2>4 DEF Acting, Onward
<1>6. Guarding'
  BY <1>1, <1>2 DEF Inside, Guarding, Onward, InStep
<1> QED
  BY <1>3, <1>4, <1>5, <1>6 DEF Inside

LEMMA EnterInside ==
  ASSUME IInv, Inside, Enter
  PROVE  Inside' /\ Still
<1>1. UNCHANGED <<state, at, emitted, consumed, steps, out, k>> /\ Here' = Here
  BY DEF Enter, walkVars, Here
<1>2. k = 1 /\ out = <<>> /\ at.bs \in Binding
  BY DEF Enter, Inside, Acting, HasBindings
<1>3. CASE at.node \in DOMAIN Nodes
  <2>1. pc' = "actions" /\ bs' = at.bs /\ shared' = TRUE
    BY <1>3 DEF Enter
  <2>2. k > Len(Here.actions) => Here.actions = <<>>
    <3>1. Here.actions \in Seq(Action)
      BY <1>3, NodeFacts DEF IInv
    <3>2. \A n \in Nat : 1 > n => n = 0
      OBVIOUS
    <3> QED BY <1>2, <3>1, <3>2, Len(Here.actions) \in Nat, EmptySeq
  <2>3. k <= Len(Here.actions) \/ k > Len(Here.actions)
    <3>1. Here.actions \in Seq(Action)
      BY <1>3, NodeFacts DEF IInv
    <3>2. \A n \in Nat : 1 <= n \/ 1 > n
      OBVIOUS
    <3> QED BY <1>2, <3>1, <3>2, Len(Here.actions) \in Nat
  <2>4. Acting'
    BY <1>1, <1>2, <2>1, <2>2, <2>3 DEF Acting, Leaves
  <2> QED
    BY <1>1, <1>2, <2>1, <2>4
    DEF Inside, HasBindings, Sharing, Entering, Choosing, Guarding, Still
<1>4. CASE at.node \notin DOMAIN Nodes
  <2>1. pc' = "nodeNotFound" /\ bs' = bs /\ shared' = shared
    BY <1>4 DEF Enter
  <2> QED
    BY <1>1, <2>1
    DEF Inside, HasBindings, Sharing, Entering, Acting, Choosing, Guarding, Still, InStep
<1> QED
  BY <1>3, <1>4

LEMMA SkipInside ==
  ASSUME IInv, Inside, Skip
  PROVE  Inside' /\ Still
<1>1. /\ pc = "actions" /\ k <= Len(Here.actions) /\ k \in Nat \ {0}
      /\ Here.actions[k].interpreter # "alias" /\ at.node \in DOMAIN Nodes
  BY DEF Skip, IInv, InNode, InStep, TypeOK
<1>2. Here.actions \in Seq(Action)
  BY <1>1, NodeFacts DEF IInv
<1>3. Shaped(at.node)
  BY <1>1, NodesAreShaped
<1>4. k # Len(Here.actions) /\ Here.actions[k].interpreter # "unknown"
  BY <1>1, <1>2, <1>3 DEF Shaped, Here
<1>5. k + 1 <= Len(Here.actions)
  BY <1>1, <1>2, <1>4
<1>6. pc' = "actions" /\ k' = k + 1
  BY <1>1, <1>4 DEF Skip
<1>7. UNCHANGED <<state, at, emitted, consumed, steps, out, bs, shared>> /\ Here' = Here
  BY DEF Skip, walkVars, Here
<1>8. Acting'
  BY <1>1, <1>5, <1>6, <1>7 DEF Inside, Acting
<1> QED
  BY <1>1, <1>6, <1>7, <1>8
  DEF Inside, HasBindings, Sharing, Entering, Choosing, Guarding, Still, InStep

\* A step that does not run the machine's own code, or stops running it.
LEMMA OtherInside ==
  ASSUME IInv, Inside,
         \/ \E m \in Message \cup {NoMessage} : Begin(m)
         \/ Limited \/ NoReply \/ NoBranchLeft \/ TakeFails
  PROVE  Inside' /\ Still
<1>1. UNCHANGED <<state, stepVars, emitted, consumed, steps>>
  BY DEF Begin, Limited, NoReply, NoBranchLeft, TakeFails, walkVars, stepVars
<1>2. pc' \notin InStep \cup {"idle"} /\ (pc' = "loop" => pc = "idle")
  BY DEF Begin, Limited, NoReply, NoBranchLeft, TakeFails, InStep
<1> QED
  BY <1>1, <1>2 DEF stepVars, Inside, HasBindings, Sharing, Entering, Acting, Choosing,
                    Guarding, Still, InStep

LEMMA TakeInside == ASSUME IInv, Inside, Take PROVE Inside'
<1>1. /\ state' = state /\ at'.bs = bs /\ pc' = "loop"
      /\ k' = 1 /\ out' = <<>> /\ shared' = FALSE
  BY DEF Take, StepEnds
<1>2. bs \in Binding
  BY DEF Take, Inside, Entering, InStep
<1> QED
  BY <1>1, <1>2 DEF Inside, HasBindings, Sharing, Entering, Acting, Choosing, Guarding, InStep

\* The host has the next state, or keeps the old one.
Settled == /\ pc' = "idle" /\ at' = state' /\ state' \in {state, at}
           /\ emitted' = <<>> /\ consumed' = FALSE /\ steps' = 0

LEMMA DoneInside == ASSUME IInv, Inside, Done PROVE Inside' /\ Settled
<1>1. /\ state' \in {state, at} /\ at' = state' /\ pc' = "idle"
      /\ k' = 1 /\ out' = <<>> /\ shared' = FALSE
      /\ emitted' = <<>> /\ consumed' = FALSE /\ steps' = 0
  BY DEF Done, Return, Abort, WalkEnds, StepEnds
<1> QED
  BY <1>1 DEF Inside, HasBindings, Sharing, Entering, Acting, Choosing, Guarding, InStep, Settled

\* Every step of the walk, or of the host, is one of these.
LEMMA InsideNext ==
  ASSUME IInv, Inside, [Next]_vars
  PROVE  Inside' /\ (Still \/ Take \/ Settled)
<1>1. CASE UNCHANGED vars
  <2>1. UNCHANGED <<pc, state, at, emitted, consumed, steps, k, bs, shared, out>> /\ Here' = Here
    BY <1>1 DEF vars, walkVars, stepVars, Here
  <2>2. Choosing'
    BY <2>1 DEF Inside, Choosing, Leaves
  <2> QED
    BY <2>1, <2>2 DEF Inside, HasBindings, Sharing, Entering, Acting, Leaves, Guarding, Still
<1>2. CASE Call
  BY <1>2, OtherInside DEF Call
<1>3. CASE Run
  BY <1>3, OtherInside, EnterInside, SkipInside, ActInside, BranchingInside,
     UnconditionalInside, TryPatternInside, TryGuardInside, TakeInside, DoneInside DEF Run
<1> QED
  BY <1>1, <1>2, <1>3 DEF Next

(***************************************************************************)
(* A transition of a machine, as the specification of the machine says it. *)
(***************************************************************************)
Silent    == emitted' = emitted
Utters(e) == emitted' = emitted \o <<e>>
Hearing   == ~consumed /\ consumed'
Deaf      == consumed' = consumed

LEMMA TakeIs ==
  ASSUME IInv, UseInv, Inside, Take
  PROVE  /\ at.node \in DOMAIN Nodes
         /\ \E j \in 1 .. Len(Here.branches) :
              /\ at'.node = Here.branches[j].target
              /\ Here.type = "bindings" /\ Here.branches[1].guard # None =>
                   IF j = 1 THEN ~(at'.bs[Rung].n > 0) ELSE at'.bs[Rung].n > 0
         /\ \E b, e : /\ Leaves(b, e) /\ emitted' = emitted \o e
                      /\ Keeps(b, at'.bs)
                      /\ Here.type = "bindings" => at'.bs = b
         /\ IF Here.type = "message" THEN Hearing ELSE Deaf
         /\ state' = state /\ steps' = steps + 1
<1>1. /\ pc = "take" /\ at.node \in DOMAIN Nodes /\ k \in 1 .. Len(Here.branches)
      /\ CanBranch
  BY DEF Take, IInv, InNode, InBranches, InBranch, InStep
<1>2. /\ at' = [node |-> Here.branches[k].target, bs |-> bs] /\ emitted' = emitted \o out
      /\ state' = state /\ steps' = steps + 1
  BY DEF Take, Said, StepsAfter
<1>3. Here.type = "bindings" /\ Here.branches[1].guard # None =>
        IF k = 1 THEN ~(bs[Rung].n > 0) ELSE bs[Rung].n > 0
  BY <1>1 DEF Inside, Guarding, InStep
<1>4. PICK b \in Binding : /\ Leaves(b, out) /\ Keeps(b, bs)
                           /\ Here.type = "bindings" => bs = b
  BY <1>1 DEF Inside, Choosing
<1>5. Here.type = "message" => ~consumed
  BY <1>1 DEF CanBranch, UseInv, MessageUsedOnce
<1>6. consumed' = (consumed \/ Here.type = "message")
  BY DEF Take
<1>7. consumed \in BOOLEAN
  BY DEF IInv, TypeOK
<1>8. IF Here.type = "message" THEN Hearing ELSE Deaf
  BY <1>5, <1>6, <1>7, Zenon DEF Hearing, Deaf
<1> QED
  BY <1>1, <1>2, <1>3, <1>4, <1>8

\* A node without actions is left silently; one with a source says, and hands
\* on, what the source does.
LEMMA TakeOfNothing ==
  ASSUME IInv, UseInv, Inside, Take, Here.actions = <<>>
  PROVE  /\ Silent /\ Keeps(at.bs, at'.bs)
         /\ Here.type = "bindings" => at'.bs = at.bs
<1>1. emitted \o <<>> = emitted
  BY ConcatEmptySeq DEF IInv, TypeOK
<1>2. PICK b, e : /\ Leaves(b, e) /\ emitted' = emitted \o e
                  /\ Keeps(b, at'.bs)
                  /\ Here.type = "bindings" => at'.bs = b
  BY TakeIs
<1>3. b = at.bs /\ e = <<>>
  BY <1>2 DEF Leaves
<1> QED
  BY <1>1, <1>2, <1>3 DEF Silent

LEMMA TakeOfSource ==
  ASSUME IInv, UseInv, Inside, Take, NEW src,
         Here.actions \in {<<Does(src)>>, <<Log, Does(src)>>}
  PROVE  \E o \in Runs(src, at.bs) :
           /\ emitted' = emitted \o o.emitted
           /\ Keeps(o.bs, at'.bs)
           /\ Here.type = "bindings" => at'.bs = o.bs
<1>1. Here.actions # <<>> /\ Here.actions[Len(Here.actions)].source = src
  <2>1. CASE Here.actions = <<Does(src)>>
    BY <2>1 DEF Does
  <2>2. CASE Here.actions = <<Log, Does(src)>>
    <3>1. Len(Here.actions) = 2 /\ Here.actions[2] = Does(src)
      BY <2>2
    <3> QED BY <3>1 DEF Does
  <2> QED BY <2>1, <2>2
<1>2. PICK b, e : /\ Leaves(b, e) /\ emitted' = emitted \o e
                  /\ Keeps(b, at'.bs)
                  /\ Here.type = "bindings" => at'.bs = b
  BY TakeIs
<1> QED
  BY <1>1, <1>2 DEF Leaves

\* What the sources of actions emit and return.
LEMMA SourcesGive ==
  ASSUME NEW b
  PROVE  /\ \A src \in {"away", "through", "unlocking", "locking"} :
              \A o \in Runs(src, b) : o.bs = b /\ o.emitted = <<src>>
         /\ \A o \in Runs("complain", b) : o.bs = b /\ o.emitted = <<"bad value">>
         /\ \A o \in Runs("double", b) : o.bs = Up(b, Count) /\ o.emitted = <<"doubled">>
         /\ \A o \in Runs("cleanup", b) :
              o.bs = [v \in DOMAIN b \ {VarX} |-> b[v]] /\ o.emitted = <<>>
         /\ \A o \in Runs("up", b) : o.bs = Up(b, Rung) /\ o.emitted = <<"climbing">>
         /\ \A o \in Runs("fall", b) : o.bs = Down(b, Rung) /\ o.emitted = <<"falling">>
         /\ \A o \in Runs("down", b) :
              IF b[Rung].n > 0 THEN o.bs = Down(b, Rung) /\ o.emitted = <<"descending">>
                               ELSE o.bs = b /\ o.emitted = <<"at bottom">>
<1>1. \A src \in {"away", "through", "unlocking", "locking"} :
        Runs(src, b) = {Gives(b, <<src>>)}
  BY DEF Runs
<1>2. /\ Runs("complain", b) = {Gives(b, <<"bad value">>)}
      /\ Runs("double", b) \subseteq {double(b)}
      /\ Runs("cleanup", b) = {cleanup(b)}
  BY DEF Runs
<1>3. /\ Runs("up", b) \subseteq {up(b)}
      /\ Runs("fall", b) \subseteq {fall(b)}
      /\ Runs("down", b) \subseteq {down(b)}
  BY DEF Runs
<1>4. \A x, e : Gives(x, e).bs = x /\ Gives(x, e).emitted = e
  BY DEF Gives
<1>5. IF b[Rung].n > 0 THEN down(b).bs = Down(b, Rung) /\ down(b).emitted = <<"descending">>
                       ELSE down(b).bs = b /\ down(b).emitted = <<"at bottom">>
  BY <1>4, Zenon DEF down
<1>6. /\ up(b).bs = Up(b, Rung) /\ up(b).emitted = <<"climbing">>
      /\ fall(b).bs = Down(b, Rung) /\ fall(b).emitted = <<"falling">>
      /\ double(b).bs = Up(b, Count) /\ double(b).emitted = <<"doubled">>
  BY <1>4, Zenon DEF up, fall, double
<1>7. cleanup(b).bs = [v \in DOMAIN b \ {VarX} |-> b[v]] /\ cleanup(b).emitted = <<>>
  BY <1>4, Zenon DEF cleanup
<1>8. \A src \in {"away", "through", "unlocking", "locking"} :
        \A o \in Runs(src, b) : o.bs = b /\ o.emitted = <<src>>
  BY <1>1, <1>4
<1>9. \A o \in Runs("complain", b) : o.bs = b /\ o.emitted = <<"bad value">>
  BY <1>2, <1>4
<1>10. \A o \in Runs("double", b) : o.bs = Up(b, Count) /\ o.emitted = <<"doubled">>
  <2>1. \A o \in Runs("double", b) : o = double(b)
    BY <1>2
  <2> QED BY <1>6, <2>1
<1>11. \A o \in Runs("cleanup", b) :
         o.bs = [v \in DOMAIN b \ {VarX} |-> b[v]] /\ o.emitted = <<>>
  <2>1. \A o \in Runs("cleanup", b) : o = cleanup(b)
    BY <1>2
  <2> QED BY <1>7, <2>1
<1>12. /\ \A o \in Runs("up", b) : o.bs = Up(b, Rung) /\ o.emitted = <<"climbing">>
       /\ \A o \in Runs("fall", b) : o.bs = Down(b, Rung) /\ o.emitted = <<"falling">>
  BY <1>3, <1>6
<1>13. \A o \in Runs("down", b) :
         IF b[Rung].n > 0 THEN o.bs = Down(b, Rung) /\ o.emitted = <<"descending">>
                          ELSE o.bs = b /\ o.emitted = <<"at bottom">>
  <2>1. \A o \in Runs("down", b) : o = down(b)
    BY <1>3
  <2> QED BY <1>5, <2>1
<1> QED
  BY <1>8, <1>9, <1>12, <1>13, <1>11, <1>10

TurnstileMove ==
  \/ /\ at.node = "turnstile.start" /\ at'.node = "turnstile.locked"
     /\ Silent /\ Deaf
  \/ /\ at.node = "turnstile.locked" /\ at'.node \in {"turnstile.unlocked", "turnstile.nope"}
     /\ Silent /\ Hearing
  \/ /\ at.node = "turnstile.nope" /\ at'.node = "turnstile.locked"
     /\ Utters("away") /\ Deaf
  \/ /\ at.node = "turnstile.unlocked" /\ at'.node \in {"turnstile.unlocked", "turnstile.enter"}
     /\ Silent /\ Hearing
  \/ /\ at.node = "turnstile.enter" /\ at'.node = "turnstile.locked"
     /\ Utters("through") /\ Deaf

LEMMA TurnstileTakes ==
  ASSUME IInv, UseInv, Inside, Take, at.node \in TurnstileNode
  PROVE  TurnstileMove
<1> USE DEF Moves, Hears, On, Goto
<1>1. PICK j \in 1 .. Len(Here.branches) : at'.node = Here.branches[j].target
  BY TakeIs
<1>2. IF Here.type = "message" THEN Hearing ELSE Deaf
  BY TakeIs
<1>3. CASE at.node = "turnstile.start"
  <2>1. Here = Moves(<<>>, <<Goto("turnstile.locked")>>)
    BY <1>3, TurnstileIs DEF Here
  <2>2. Silent BY <2>1, TakeOfNothing
  <2>3. at'.node = "turnstile.locked" BY <1>1, <2>1
  <2> QED BY <1>2, <1>3, <2>1, <2>2, <2>3 DEF TurnstileMove
<1>4. CASE at.node = "turnstile.locked"
  <2>1. Here = Hears(<<>>, <<On(Input("coin"), "turnstile.unlocked"),
                             On(Input("push"), "turnstile.nope")>>)
    BY <1>4, TurnstileIs DEF Here
  <2>2. Silent BY <2>1, TakeOfNothing
  <2>3. at'.node \in {"turnstile.unlocked", "turnstile.nope"} BY <1>1, <2>1
  <2> QED BY <1>2, <1>4, <2>1, <2>2, <2>3 DEF TurnstileMove
<1>5. CASE at.node = "turnstile.nope"
  <2>1. Here = Moves(<<Does("away")>>, <<Goto("turnstile.locked")>>)
    BY <1>5, TurnstileIs DEF Here
  <2>2. Utters("away")
    <3>1. PICK o \in Runs("away", at.bs) : emitted' = emitted \o o.emitted
      BY <2>1, TakeOfSource
    <3> QED BY <3>1, SourcesGive DEF Utters
  <2>3. at'.node = "turnstile.locked" BY <1>1, <2>1
  <2> QED BY <1>2, <1>5, <2>1, <2>2, <2>3 DEF TurnstileMove
<1>6. CASE at.node = "turnstile.unlocked"
  <2>1. Here = Hears(<<>>, <<On(Input("coin"), "turnstile.unlocked"),
                             On(Input("push"), "turnstile.enter")>>)
    BY <1>6, TurnstileIs DEF Here
  <2>2. Silent BY <2>1, TakeOfNothing
  <2>3. at'.node \in {"turnstile.unlocked", "turnstile.enter"} BY <1>1, <2>1
  <2> QED BY <1>2, <1>6, <2>1, <2>2, <2>3 DEF TurnstileMove
<1>7. CASE at.node = "turnstile.enter"
  <2>1. Here = Moves(<<Does("through")>>, <<Goto("turnstile.locked")>>)
    BY <1>7, TurnstileIs DEF Here
  <2>2. Utters("through")
    <3>1. PICK o \in Runs("through", at.bs) : emitted' = emitted \o o.emitted
      BY <2>1, TakeOfSource
    <3> QED BY <3>1, SourcesGive DEF Utters
  <2>3. at'.node = "turnstile.locked" BY <1>1, <2>1
  <2> QED BY <1>2, <1>7, <2>1, <2>2, <2>3 DEF TurnstileMove
<1> QED
  BY <1>3, <1>4, <1>5, <1>6, <1>7 DEF TurnstileNode

LatchMove ==
  \/ /\ at.node = "latch.start" /\ at'.node = "latch.locked"
     /\ Silent /\ Deaf
  \/ /\ at.node = "latch.locked" /\ at'.node = "latch.unlocked"
     /\ Utters("unlocking") /\ Hearing
  \/ /\ at.node = "latch.unlocked" /\ at'.node = "latch.locked"
     /\ Utters("locking") /\ Hearing

LadderMove ==
  \/ /\ at.node = "ladder.start" /\ at'.node = "ladder.stop"
     /\ Silent /\ Deaf /\ at'.bs = at.bs
  \/ /\ at.node = "ladder.stop" /\ at'.node \in {"ladder.up", "ladder.down", "ladder.fall"}
     /\ Silent /\ Hearing /\ Keeps(at.bs, at'.bs)
  \/ /\ at.node = "ladder.up" /\ at'.node = "ladder.stop"
     /\ Utters("climbing") /\ Deaf /\ at'.bs = Up(at.bs, Rung)
  \/ /\ at.node = "ladder.down" /\ at'.node = "ladder.stop" /\ at.bs[Rung].n > 0
     /\ Utters("descending") /\ Deaf /\ at'.bs = Down(at.bs, Rung)
  \/ /\ at.node = "ladder.down" /\ at'.node = "ladder.stop" /\ ~(at.bs[Rung].n > 0)
     /\ Utters("at bottom") /\ Deaf /\ at'.bs = at.bs
  \/ /\ at.node = "ladder.fall"
     /\ Utters("falling") /\ Deaf /\ at'.bs = Down(at.bs, Rung)
     /\ \/ at'.node = "ladder.stop" /\ ~(at'.bs[Rung].n > 0)
        \/ at'.node = "ladder.fall" /\ at'.bs[Rung].n > 0

DoubleMove ==
  \/ /\ at.node = "double.start" /\ at'.node = "double.listen"
     /\ Silent /\ Deaf /\ at'.bs = at.bs
  \/ /\ at.node = "double.listen" /\ at'.node \in {"double.double", "double.complain"}
     /\ Silent /\ Hearing /\ Keeps(at.bs, at'.bs)
  \/ /\ at.node = "double.double" /\ at'.node = "double.cleanup"
     /\ Utters("doubled") /\ Deaf /\ at'.bs = Up(at.bs, Count)
  \/ /\ at.node = "double.complain" /\ at'.node = "double.cleanup"
     /\ Utters("bad value") /\ Deaf /\ at'.bs = at.bs
  \/ /\ at.node = "double.cleanup" /\ at'.node = "double.listen"
     /\ Silent /\ Deaf /\ at'.bs = [v \in DOMAIN at.bs \ {VarX} |-> at.bs[v]]

LEMMA LatchTakes ==
  ASSUME IInv, UseInv, Inside, Take, at.node \in LatchNode
  PROVE  LatchMove
<1> USE DEF Moves, Hears, On, Goto
<1>1. PICK j \in 1 .. Len(Here.branches) : at'.node = Here.branches[j].target
  BY TakeIs
<1>2. IF Here.type = "message" THEN Hearing ELSE Deaf
  BY TakeIs
<1>3. CASE at.node = "latch.start"
  <2>1. Here = Moves(<<>>, <<Goto("latch.locked")>>)
    BY <1>3, LatchIs DEF Here
  <2>2. Silent BY <2>1, TakeOfNothing
  <2>3. at'.node = "latch.locked" BY <1>1, <2>1
  <2> QED BY <1>2, <1>3, <2>1, <2>2, <2>3 DEF LatchMove
<1>4. CASE at.node = "latch.locked"
  <2>1. Here = Hears(<<Does("unlocking")>>, <<On(Input("tick"), "latch.unlocked")>>)
    BY <1>4, LatchIs DEF Here
  <2>2. Utters("unlocking")
    <3>1. Here.actions = <<Does("unlocking")>>
      BY <2>1
    <3>2. PICK o \in Runs("unlocking", at.bs) : emitted' = emitted \o o.emitted
      BY <3>1, TakeOfSource
    <3> QED BY <3>2, SourcesGive DEF Utters
  <2>3. at'.node = "latch.unlocked" BY <1>1, <2>1
  <2> QED BY <1>2, <1>4, <2>1, <2>2, <2>3 DEF LatchMove
<1>5. CASE at.node = "latch.unlocked"
  <2>1. Here = Hears(<<Does("locking")>>, <<On(Input("tick"), "latch.locked")>>)
    BY <1>5, LatchIs DEF Here
  <2>2. Utters("locking")
    <3>1. Here.actions = <<Does("locking")>>
      BY <2>1
    <3>2. PICK o \in Runs("locking", at.bs) : emitted' = emitted \o o.emitted
      BY <3>1, TakeOfSource
    <3> QED BY <3>2, SourcesGive DEF Utters
  <2>3. at'.node = "latch.locked" BY <1>1, <2>1
  <2> QED BY <1>2, <1>5, <2>1, <2>2, <2>3 DEF LatchMove
<1> QED
  BY <1>3, <1>4, <1>5 DEF LatchNode

LEMMA DoubleTakes ==
  ASSUME IInv, UseInv, Inside, Take, at.node \in DoubleNode
  PROVE  DoubleMove
<1> USE DEF Moves, Hears, On, Goto
<1>1. PICK j \in 1 .. Len(Here.branches) : at'.node = Here.branches[j].target
  BY TakeIs
<1>2. IF Here.type = "message" THEN Hearing ELSE Deaf
  BY TakeIs
<1>3. CASE at.node = "double.start"
  <2>1. Here = Moves(<<>>, <<Goto("double.listen")>>)
    BY <1>3, DoubleIs DEF Here
  <2>2. Silent /\ at'.bs = at.bs BY <2>1, TakeOfNothing
  <2>3. at'.node = "double.listen" BY <1>1, <2>1
  <2> QED BY <1>2, <1>3, <2>1, <2>2, <2>3 DEF DoubleMove
<1>4. CASE at.node = "double.listen"
  <2>1. Here = Hears(<<>>,
              <<[pattern |-> DoubleX, guard |-> Does("isNumber"), target |-> "double.double"],
                On(DoubleX, "double.complain")>>)
    BY <1>4, DoubleIs DEF Here
  <2>2. Silent /\ Keeps(at.bs, at'.bs) BY <2>1, TakeOfNothing
  <2>3. at'.node \in {"double.double", "double.complain"} BY <1>1, <2>1
  <2> QED BY <1>2, <1>4, <2>1, <2>2, <2>3 DEF DoubleMove
<1>5. CASE at.node = "double.double"
  <2>1. Here = Moves(<<Does("double")>>, <<Goto("double.cleanup")>>)
    BY <1>5, DoubleIs DEF Here
  <2>2. Utters("doubled") /\ at'.bs = Up(at.bs, Count)
    <3>1. PICK o \in Runs("double", at.bs) : emitted' = emitted \o o.emitted /\ at'.bs = o.bs
      BY <2>1, TakeOfSource
    <3> QED BY <3>1, SourcesGive DEF Utters
  <2>3. at'.node = "double.cleanup" BY <1>1, <2>1
  <2> QED BY <1>2, <1>5, <2>1, <2>2, <2>3 DEF DoubleMove
<1>6. CASE at.node = "double.complain"
  <2>1. Here = Moves(<<Does("complain")>>, <<Goto("double.cleanup")>>)
    BY <1>6, DoubleIs DEF Here
  <2>2. Utters("bad value") /\ at'.bs = at.bs
    <3>1. PICK o \in Runs("complain", at.bs) : emitted' = emitted \o o.emitted /\ at'.bs = o.bs
      BY <2>1, TakeOfSource
    <3> QED BY <3>1, SourcesGive DEF Utters
  <2>3. at'.node = "double.cleanup" BY <1>1, <2>1
  <2> QED BY <1>2, <1>6, <2>1, <2>2, <2>3 DEF DoubleMove
<1>7. CASE at.node = "double.cleanup"
  <2>1. Here = Moves(<<Log, Does("cleanup")>>, <<Goto("double.listen")>>)
    BY <1>7, DoubleIs DEF Here
  <2>2. Silent /\ at'.bs = [v \in DOMAIN at.bs \ {VarX} |-> at.bs[v]]
    <3>1. PICK o \in Runs("cleanup", at.bs) : emitted' = emitted \o o.emitted /\ at'.bs = o.bs
      BY <2>1, TakeOfSource
    <3>2. emitted \o <<>> = emitted
      BY ConcatEmptySeq DEF IInv, TypeOK
    <3>3. o.bs = [v \in DOMAIN at.bs \ {VarX} |-> at.bs[v]] /\ o.emitted = <<>>
      BY SourcesGive
    <3> QED BY <3>1, <3>2, <3>3 DEF Silent
  <2>3. at'.node = "double.listen" BY <1>1, <2>1
  <2> QED BY <1>2, <1>7, <2>1, <2>2, <2>3 DEF DoubleMove
<1> QED
  BY <1>3, <1>4, <1>5, <1>6, <1>7 DEF DoubleNode

LEMMA LadderTakes ==
  ASSUME IInv, UseInv, Inside, Take, at.node \in LadderNode
  PROVE  LadderMove
<1> USE DEF Moves, Hears, On, Goto
<1>1. PICK j \in 1 .. Len(Here.branches) :
        /\ at'.node = Here.branches[j].target
        /\ Here.type = "bindings" /\ Here.branches[1].guard # None =>
             IF j = 1 THEN ~(at'.bs[Rung].n > 0) ELSE at'.bs[Rung].n > 0
  BY TakeIs
<1>2. IF Here.type = "message" THEN Hearing ELSE Deaf
  BY TakeIs
<1>3. CASE at.node = "ladder.start"
  <2>1. Here = Moves(<<>>, <<Goto("ladder.stop")>>)
    BY <1>3, LadderIs DEF Here
  <2>2. Silent /\ at'.bs = at.bs BY <2>1, TakeOfNothing
  <2>3. at'.node = "ladder.stop" BY <1>1, <2>1
  <2> QED BY <1>2, <1>3, <2>1, <2>2, <2>3 DEF LadderMove
<1>4. CASE at.node = "ladder.stop"
  <2>1. Here = Hears(<<>>, <<On(Input("up"), "ladder.up"), On(Input("down"), "ladder.down"),
                             On(Input("fall"), "ladder.fall")>>)
    BY <1>4, LadderIs DEF Here
  <2>2. Silent /\ Keeps(at.bs, at'.bs) BY <2>1, TakeOfNothing
  <2>3. at'.node \in {"ladder.up", "ladder.down", "ladder.fall"} BY <1>1, <2>1
  <2> QED BY <1>2, <1>4, <2>1, <2>2, <2>3 DEF LadderMove
<1>5. CASE at.node = "ladder.up"
  <2>1. Here = Moves(<<Does("up")>>, <<Goto("ladder.stop")>>)
    BY <1>5, LadderIs DEF Here
  <2>2. Utters("climbing") /\ at'.bs = Up(at.bs, Rung)
    <3>1. PICK o \in Runs("up", at.bs) : emitted' = emitted \o o.emitted /\ at'.bs = o.bs
      BY <2>1, TakeOfSource
    <3> QED BY <3>1, SourcesGive DEF Utters
  <2>3. at'.node = "ladder.stop" BY <1>1, <2>1
  <2> QED BY <1>2, <1>5, <2>1, <2>2, <2>3 DEF LadderMove
<1>6. CASE at.node = "ladder.down"
  <2>1. Here = Moves(<<Does("down")>>, <<Goto("ladder.stop")>>)
    BY <1>6, LadderIs DEF Here
  <2>2. IF at.bs[Rung].n > 0 THEN Utters("descending") /\ at'.bs = Down(at.bs, Rung)
                                   ELSE Utters("at bottom") /\ at'.bs = at.bs
    <3>1. PICK o \in Runs("down", at.bs) : emitted' = emitted \o o.emitted /\ at'.bs = o.bs
      BY <2>1, TakeOfSource
    <3> QED BY <3>1, SourcesGive DEF Utters
  <2>3. at'.node = "ladder.stop" BY <1>1, <2>1
  <2> QED BY <1>2, <1>6, <2>1, <2>2, <2>3 DEF LadderMove
<1>7. CASE at.node = "ladder.fall"
  <2>1. Here = Moves(<<Does("fall")>>,
              <<[pattern |-> None, guard |-> Does("landed"), target |-> "ladder.stop"],
                Goto("ladder.fall")>>)
    BY <1>7, LadderIs DEF Here
  <2>2. Utters("falling") /\ at'.bs = Down(at.bs, Rung)
    <3>1. PICK o \in Runs("fall", at.bs) : emitted' = emitted \o o.emitted /\ at'.bs = o.bs
      BY <2>1, TakeOfSource
    <3> QED BY <3>1, SourcesGive DEF Utters
  <2>3. \/ at'.node = "ladder.stop" /\ ~(at'.bs[Rung].n > 0)
        \/ at'.node = "ladder.fall" /\ at'.bs[Rung].n > 0
    <3>1. Does("landed") # None
      BY ShippedAssumption DEF Guards
    <3> QED BY <1>1, <2>1, <3>1
  <2> QED BY <1>2, <1>7, <2>1, <2>2, <2>3 DEF LadderMove
<1> QED
  BY <1>3, <1>4, <1>5, <1>6, <1>7 DEF LadderNode

(***************************************************************************)
(* The invariants above hold together, and a machine stays the machine it  *)
(* is.                                                                     *)
(***************************************************************************)
ShippedInv == IInv /\ UseInv /\ Inside

LEMMA ShippedHolds == Spec => []ShippedInv
<1>1. Init => UseInv BY UseInit
<1>2. Init => Inside BY InsideInit
<1>3. IInv /\ UseInv /\ [Next]_vars => UseInv' BY UseNext
<1>4. IInv /\ Inside /\ [Next]_vars => Inside' BY InsideNext
<1> QED BY <1>1, <1>2, <1>3, <1>4, InvHolds, PTL DEF Spec, ShippedInv

LEMMA NodesDiffer ==
  /\ DoubleNode \cap TurnstileNode = {} /\ DoubleNode \cap LadderNode = {}
  /\ DoubleNode \cap LatchNode = {} /\ TurnstileNode \cap LadderNode = {}
  /\ TurnstileNode \cap LatchNode = {} /\ LadderNode \cap LatchNode = {}
BY DEF DoubleNode, TurnstileNode, LadderNode, LatchNode

LEMMA MachineStays ==
  ASSUME ShippedInv, Take
  PROVE  /\ at.node \in DoubleNode <=> at'.node \in DoubleNode
         /\ at.node \in LadderNode <=> at'.node \in LadderNode
<1>1. at.node \in DoubleNode \cup TurnstileNode \cup LadderNode \cup LatchNode
  BY TakeIs, NodesByMachine DEF ShippedInv
<1>2. at.node \in DoubleNode => at'.node \in DoubleNode
  BY DoubleTakes DEF DoubleMove, DoubleNode, ShippedInv
<1>3. at.node \in TurnstileNode => at'.node \in TurnstileNode
  BY TurnstileTakes DEF TurnstileMove, TurnstileNode, ShippedInv
<1>4. at.node \in LadderNode => at'.node \in LadderNode
  BY LadderTakes DEF LadderMove, LadderNode, ShippedInv
<1>5. at.node \in LatchNode => at'.node \in LatchNode
  BY LatchTakes DEF LatchMove, LatchNode, ShippedInv
<1> QED
  BY <1>1, <1>2, <1>3, <1>4, <1>5, NodesDiffer

\* A walk begins where the host has the machine.
Fresh == at = state /\ emitted = <<>> /\ consumed = FALSE /\ steps = 0

LEMMA FreshAgain == Settled => Fresh'
BY DEF Settled, Fresh

(***************************************************************************)
(* turnstile.                                                              *)
(***************************************************************************)
TurnstileInv ==
  state.node \in {"turnstile.locked", "turnstile.unlocked"} =>
    \/ /\ at.node \in {"turnstile.locked", "turnstile.unlocked"} /\ emitted = <<>>
       /\ ~consumed => at.node = state.node
    \/ /\ state.node = "turnstile.locked" /\ consumed
       /\ \/ at.node = "turnstile.nope" /\ emitted = <<>>
          \/ at.node = "turnstile.locked" /\ emitted = <<"away">>
    \/ /\ state.node = "turnstile.unlocked" /\ consumed
       /\ \/ at.node = "turnstile.enter" /\ emitted = <<>>
          \/ at.node = "turnstile.locked" /\ emitted = <<"through">>

LEMMA FirstSaid == \A e : <<>> \o <<e>> = <<e>>
OBVIOUS

LEMMA TurnstileNext ==
  ASSUME ShippedInv, TurnstileInv, [Next]_vars
  PROVE  TurnstileInv'
<1>1. CASE Still
  BY <1>1 DEF Still, TurnstileInv
<1>2. CASE Settled
  BY <1>2 DEF Settled, TurnstileInv
<1>3. CASE Take
  <2>1. state' = state
    BY <1>3, TakeIs DEF ShippedInv
  <2>2. CASE state.node \in {"turnstile.locked", "turnstile.unlocked"}
    <3>1. at.node \in TurnstileNode
      BY <2>2 DEF TurnstileInv, TurnstileNode
    <3>2. TurnstileMove
      BY <1>3, <3>1, TurnstileTakes DEF ShippedInv
    <3> QED
      BY <2>1, <2>2, <3>2, FirstSaid
      DEF TurnstileInv, TurnstileMove, Silent, Utters, Hearing, Deaf
  <2>3. CASE state.node \notin {"turnstile.locked", "turnstile.unlocked"}
    BY <2>1, <2>3 DEF TurnstileInv
  <2> QED BY <2>2, <2>3
<1> QED
  BY <1>1, <1>2, <1>3, InsideNext DEF ShippedInv

\* Whatever it is offered, and wherever a limit stops it, the turnstile lets
\* through whom it was unlocked for, sends others away, and locks.
THEOREM TurnstileHonest == Spec => []TurnstileIsHonest
<1>1. Init => TurnstileInv
  BY DEF Init, TurnstileInv
<1>2. ShippedInv /\ TurnstileInv /\ [Next]_vars => TurnstileInv'
  BY TurnstileNext
<1>3. TurnstileInv => TurnstileIsHonest
  BY DEF TurnstileInv, TurnstileIsHonest
<1> QED
  BY <1>1, <1>2, <1>3, ShippedHolds, PTL DEF Spec

(***************************************************************************)
(* latch.                                                                  *)
(***************************************************************************)
LatchInv ==
  state.node \in {"latch.locked", "latch.unlocked"} =>
    \/ at.node = state.node /\ ~consumed /\ emitted = <<>>
    \/ /\ state.node = "latch.locked" /\ at.node = "latch.unlocked"
       /\ consumed /\ emitted = <<"unlocking">>
    \/ /\ state.node = "latch.unlocked" /\ at.node = "latch.locked"
       /\ consumed /\ emitted = <<"locking">>

LEMMA LatchNext ==
  ASSUME ShippedInv, LatchInv, [Next]_vars
  PROVE  LatchInv'
<1>1. CASE Still
  BY <1>1 DEF Still, LatchInv
<1>2. CASE Settled
  BY <1>2 DEF Settled, LatchInv
<1>3. CASE Take
  <2>1. state' = state
    BY <1>3, TakeIs DEF ShippedInv
  <2>2. CASE state.node \in {"latch.locked", "latch.unlocked"}
    <3>1. at.node \in LatchNode
      BY <2>2 DEF LatchInv, LatchNode
    <3>2. LatchMove
      BY <1>3, <3>1, LatchTakes DEF ShippedInv
    <3> QED
      BY <2>1, <2>2, <3>2, FirstSaid
      DEF LatchInv, LatchMove, Silent, Utters, Hearing, Deaf
  <2>3. CASE state.node \notin {"latch.locked", "latch.unlocked"}
    BY <2>1, <2>3 DEF LatchInv
  <2> QED BY <2>2, <2>3
<1> QED
  BY <1>1, <1>2, <1>3, InsideNext DEF ShippedInv

\* The latch says once what a tick did, although its actions run twice.
THEOREM LatchOnce == Spec => []LatchSpeaksOnce
<1>1. Init => LatchInv
  BY DEF Init, LatchInv
<1>2. ShippedInv /\ LatchInv /\ [Next]_vars => LatchInv'
  BY LatchNext
<1>3. ShippedInv /\ LatchInv => LatchSpeaksOnce
  BY DEF LatchInv, LatchSpeaksOnce, ShippedInv, IInv, TypeOK
<1> QED
  BY <1>1, <1>2, <1>3, ShippedHolds, PTL DEF Spec

(***************************************************************************)
(* Counting what was said.                                                 *)
(***************************************************************************)
LEMMA TimesNone == ASSUME NEW f PROVE Times(<<>>, f) = 0
<1>1. {j \in DOMAIN <<>> : <<>>[j] = f} = {}
  OBVIOUS
<1> QED
  BY <1>1, FS_EmptySet DEF Times

LEMMA TimesOne ==
  ASSUME NEW e, NEW f
  PROVE  Times(<<e>>, f) = IF e = f THEN 1 ELSE 0
<1> DEFINE Of == {j \in DOMAIN <<e>> : <<e>>[j] = f}
<1>1. Of = IF e = f THEN {1} ELSE {}
  OBVIOUS
<1>2. Times(<<e>>, f) = Cardinality(Of)
  BY DEF Times
<1> HIDE DEF Of
<1> QED
  BY <1>1, <1>2, FS_Singleton, FS_EmptySet

LEMMA TimesIsNat ==
  ASSUME NEW S, NEW s \in Seq(S), NEW f
  PROVE  /\ IsFiniteSet({j \in DOMAIN s : s[j] = f})
         /\ Times(s, f) \in Nat
<1> DEFINE At == {j \in DOMAIN s : s[j] = f}
<1>1. Len(s) \in Nat /\ DOMAIN s = 1 .. Len(s)
  OBVIOUS
<1>2. IsFiniteSet(1 .. Len(s))
  BY <1>1, FS_Interval
<1>3. IsFiniteSet(At)
  BY <1>1, <1>2, FS_Subset
<1> QED
  BY <1>3, FS_CardinalityType DEF Times

LEMMA TimesSaid ==
  ASSUME NEW S, NEW s \in Seq(S), NEW e \in S, NEW f
  PROVE  Times(s \o <<e>>, f) = IF e = f THEN Times(s, f) + 1 ELSE Times(s, f)
<1> DEFINE t  == s \o <<e>>
           At == {j \in DOMAIN s : s[j] = f}
           Of == {j \in DOMAIN t : t[j] = f}
<1>0. Len(s) \in Nat /\ DOMAIN s = 1 .. Len(s)
  OBVIOUS
<1>1. /\ DOMAIN t = 1 .. Len(s) + 1
      /\ \A j \in 1 .. Len(s) : t[j] = s[j]
      /\ t[Len(s) + 1] = e
  OBVIOUS
<1>2. IsFiniteSet(At) /\ Cardinality(At) \in Nat
  BY TimesIsNat DEF Times
<1> HIDE DEF t
<1>3. CASE e = f
  <2>1. Of = At \cup {Len(s) + 1}
    BY <1>0, <1>1, <1>3
  <2>2. Len(s) + 1 \notin At
    BY <1>0
  <2> HIDE DEF At, Of
  <2>3. Cardinality(Of) = Cardinality(At) + 1
    BY <1>2, <2>1, <2>2, FS_AddElement
  <2> QED BY <1>2, <1>3, <2>3 DEF Times, At, Of, t
<1>4. CASE e # f
  <2>1. Of = At
    BY <1>0, <1>1, <1>4
  <2> QED BY <1>2, <1>4, <2>1 DEF Times, t
<1> QED
  BY <1>3, <1>4

\* The emissions of the ladder are different ones.
LEMMA UttersCounts ==
  ASSUME TypeOK, NEW e \in Emissions, Utters(e), NEW f
  PROVE  Says(f)' = IF e = f THEN Says(f) + 1 ELSE Says(f)
<1>1. emitted \in Seq(Emission) /\ e \in Emission
  BY ShippedAssumption DEF TypeOK
<1> QED
  BY <1>1, TimesSaid DEF Utters, Says

LEMMA SilentCounts ==
  ASSUME Silent, NEW f
  PROVE  Says(f)' = Says(f)
BY DEF Silent, Says

LEMMA SaysIsNat == ASSUME TypeOK, NEW f PROVE Says(f) \in Nat
BY TimesIsNat DEF TypeOK, Says

(***************************************************************************)
(* What a transition does to a counter.                                    *)
(***************************************************************************)
LEMMA BindIs ==
  ASSUME NEW b, NEW v \in DOMAIN b, NEW x
  PROVE  /\ DOMAIN Bind(b, v, x) = DOMAIN b
         /\ Bind(b, v, x)[v] = x
BY DEF Bind

LEMMA NumIs == \A n : Num(n).n = n
BY DEF Num, Value

LEMMA UpIs ==
  ASSUME NEW b, NEW v, HasCounter(b, v)
  PROVE  /\ HasCounter(Up(b, v), v)
         /\ Up(b, v)[v].n = IF b[v].n < MaxCount THEN b[v].n + 1 ELSE MaxCount
<1> DEFINE m == IF b[v].n < MaxCount THEN b[v].n + 1 ELSE MaxCount
<1>1. v \in DOMAIN b /\ b[v].n \in Int /\ m \in Int
  BY MaxCountAssumption DEF HasCounter
<1>2. Up(b, v) = Bind(b, v, Num(m))
  BY DEF Up
<1> HIDE DEF m
<1>3. v \in DOMAIN Up(b, v) /\ Up(b, v)[v] = Num(m)
  BY <1>1, <1>2, BindIs
<1> QED
  BY <1>1, <1>3, NumIs DEF HasCounter, m

LEMMA DownIs ==
  ASSUME NEW b, NEW v, HasCounter(b, v)
  PROVE  /\ HasCounter(Down(b, v), v)
         /\ Down(b, v)[v].n = IF b[v].n > Lowest THEN b[v].n - 1 ELSE Lowest
<1> DEFINE m == IF b[v].n > Lowest THEN b[v].n - 1 ELSE Lowest
<1>1. v \in DOMAIN b /\ b[v].n \in Int /\ m \in Int
  BY DEF HasCounter, Lowest
<1>2. Down(b, v) = Bind(b, v, Num(m))
  BY DEF Down
<1> HIDE DEF m
<1>3. v \in DOMAIN Down(b, v) /\ Down(b, v)[v] = Num(m)
  BY <1>1, <1>2, BindIs
<1> QED
  BY <1>1, <1>3, NumIs DEF HasCounter, m

\* The variables of the machines are different ones.
LEMMA NamesDiffer == VarX # Count /\ VarX # Rung
BY DEF VarX, Count, Rung, Var, Str, Value

LEMMA KeepsCounter ==
  ASSUME NEW b, NEW c, Keeps(b, c), NEW v \in {Count, Rung}, HasCounter(b, v)
  PROVE  HasCounter(c, v) /\ c[v] = b[v]
BY NamesDiffer DEF Keeps, HasCounter

(***************************************************************************)
(* ladder.  The rung is where the host had it, and what was said since     *)
(* makes up the difference.  The rest of the invariant says how far it can *)
(* have gone, which is short of the bounds of the model: one climb, and    *)
(* one fall, for where the walk began, and one for the message.            *)
(***************************************************************************)
HasRung(w) == w.node \in LadderNode => HasCounter(w.bs, Rung)
RungInv == HasRung(state) /\ HasRung(at)

Began == state.bs[Rung].n
Now   == at.bs[Rung].n
LadderInv ==
  state.node \in LadderNode /\ Unfelt(Began) =>
    /\ at.node \in LadderNode
    /\ Now - Began = Says("climbing") - Says("descending") - Says("falling")
    /\ Now \in -2 .. Began + 2
    /\ ~consumed => Now \in -1 .. Began + 1
    /\ at.node = "ladder.up"   => Now <= Began + 1
    /\ at.node = "ladder.up"   /\ ~consumed => Now <= Began
    /\ at.node = "ladder.fall" => Now >= -1
    /\ at.node = "ladder.fall" /\ ~consumed => Now >= 0

LEMMA RungNext ==
  ASSUME ShippedInv, RungInv, [Next]_vars
  PROVE  RungInv'
<1>1. CASE Still
  BY <1>1 DEF Still, RungInv, HasRung
<1>2. CASE Settled
  BY <1>2 DEF Settled, RungInv, HasRung
<1>3. CASE Take
  <2>1. state' = state
    BY <1>3, TakeIs DEF ShippedInv
  <2>2. CASE at.node \in LadderNode
    <3>1. HasCounter(at.bs, Rung)
      BY <2>2 DEF RungInv, HasRung
    <3>2. LadderMove
      BY <1>3, <2>2, LadderTakes DEF ShippedInv
    <3>3. HasCounter(Up(at.bs, Rung), Rung) /\ HasCounter(Down(at.bs, Rung), Rung)
      BY <3>1, UpIs, DownIs
    <3>4. Keeps(at.bs, at'.bs) => HasCounter(at'.bs, Rung)
      BY <3>1, KeepsCounter
    <3>5. HasCounter(at'.bs, Rung)
      BY <3>1, <3>2, <3>3, <3>4 DEF LadderMove
    <3> QED BY <2>1, <3>5 DEF RungInv, HasRung
  <2>3. CASE at.node \notin LadderNode
    BY <1>3, <2>1, <2>3, MachineStays DEF RungInv, HasRung
  <2> QED BY <2>2, <2>3
<1> QED
  BY <1>1, <1>2, <1>3, InsideNext DEF ShippedInv

\* The rung after a transition, and what was said of it.
LEMMA LadderSteps ==
  ASSUME ShippedInv, RungInv, Take, at.node \in LadderNode
  PROVE  \/ /\ at.node = "ladder.start" /\ at'.node = "ladder.stop" /\ Deaf
            /\ Now' = Now /\ Silent
         \/ /\ at.node = "ladder.stop"
            /\ at'.node \in {"ladder.up", "ladder.down", "ladder.fall"} /\ Hearing
            /\ Now' = Now /\ Silent
         \/ /\ at.node = "ladder.up" /\ at'.node = "ladder.stop" /\ Deaf
            /\ Now' = (IF Now < MaxCount THEN Now + 1 ELSE MaxCount) /\ Utters("climbing")
         \/ /\ at.node = "ladder.down" /\ at'.node = "ladder.stop" /\ Deaf /\ Now > 0
            /\ Now' = (IF Now > Lowest THEN Now - 1 ELSE Lowest) /\ Utters("descending")
         \/ /\ at.node = "ladder.down" /\ at'.node = "ladder.stop" /\ Deaf
            /\ Now' = Now /\ Utters("at bottom")
         \/ /\ at.node = "ladder.fall" /\ Deaf
            /\ \/ at'.node = "ladder.stop"
               \/ at'.node = "ladder.fall" /\ Now' > 0
            /\ Now' = (IF Now > Lowest THEN Now - 1 ELSE Lowest) /\ Utters("falling")
<1>1. HasCounter(at.bs, Rung)
  BY DEF RungInv, HasRung
<1>2. LadderMove
  BY LadderTakes DEF ShippedInv
<1>3. Up(at.bs, Rung)[Rung].n = IF Now < MaxCount THEN Now + 1 ELSE MaxCount
  BY <1>1, UpIs DEF Now
<1>4. Down(at.bs, Rung)[Rung].n = IF Now > Lowest THEN Now - 1 ELSE Lowest
  BY <1>1, DownIs DEF Now
<1>5. Keeps(at.bs, at'.bs) => at'.bs[Rung] = at.bs[Rung]
  BY <1>1, KeepsCounter
<1>6. Now' = at'.bs[Rung].n
  BY DEF Now
<1>7. CASE at.node = "ladder.start"
  BY <1>2, <1>6, <1>7 DEF LadderMove, Now
<1>8. CASE at.node = "ladder.stop"
  BY <1>2, <1>5, <1>6, <1>8 DEF LadderMove, Now
<1>9. CASE at.node = "ladder.up"
  BY <1>2, <1>3, <1>6, <1>9 DEF LadderMove
<1>10. CASE at.node = "ladder.down"
  BY <1>2, <1>4, <1>6, <1>10 DEF LadderMove, Now
<1>11. CASE at.node = "ladder.fall"
  <2>1. /\ Utters("falling") /\ Deaf /\ at'.bs = Down(at.bs, Rung)
        /\ \/ at'.node = "ladder.stop"
           \/ at'.node = "ladder.fall" /\ at'.bs[Rung].n > 0
    BY <1>2, <1>11, Zenon DEF LadderMove
  <2>2. Now' = Down(at.bs, Rung)[Rung].n
    BY <1>6, <2>1
  <2>3. Now' = IF Now > Lowest THEN Now - 1 ELSE Lowest
    BY <1>4, <2>2
  <2> QED BY <1>6, <1>11, <2>1, <2>3
<1> QED
  BY <1>7, <1>8, <1>9, <1>10, <1>11 DEF LadderNode

Climbed == Says("climbing") - Says("descending") - Says("falling")

LEMMA ClimbedIs ==
  ASSUME TypeOK
  PROVE  /\ Climbed \in Int
         /\ Silent => Climbed' = Climbed
         /\ Utters("climbing") => Climbed' = Climbed + 1
         /\ Utters("descending") => Climbed' = Climbed - 1
         /\ Utters("falling") => Climbed' = Climbed - 1
         /\ Utters("at bottom") => Climbed' = Climbed
<1>1. /\ Says("climbing") \in Nat /\ Says("descending") \in Nat /\ Says("falling") \in Nat
  BY SaysIsNat
<1>2. Silent => Climbed' = Climbed
  BY SilentCounts DEF Climbed
<1>3. ASSUME NEW e \in Emissions, Utters(e)
      PROVE  /\ Says("climbing")' = IF e = "climbing" THEN Says("climbing") + 1 ELSE Says("climbing")
             /\ Says("descending")' = IF e = "descending" THEN Says("descending") + 1
                                                          ELSE Says("descending")
             /\ Says("falling")' = IF e = "falling" THEN Says("falling") + 1 ELSE Says("falling")
  BY <1>3, UttersCounts
<1>4. {"climbing", "descending", "falling", "at bottom"} \subseteq Emissions
  BY DEF Emissions
<1>5. Climbed' = Says("climbing")' - Says("descending")' - Says("falling")'
  BY DEF Climbed
<1>6. ASSUME Utters("climbing") PROVE Climbed' = Climbed + 1
  <2>1. /\ Says("climbing")' = Says("climbing") + 1
        /\ Says("descending")' = Says("descending")
        /\ Says("falling")' = Says("falling")
    BY <1>3, <1>4, <1>6
  <2> QED BY <1>1, <1>5, <2>1 DEF Climbed
<1>7. ASSUME Utters("descending") PROVE Climbed' = Climbed - 1
  <2>1. /\ Says("climbing")' = Says("climbing")
        /\ Says("descending")' = Says("descending") + 1
        /\ Says("falling")' = Says("falling")
    BY <1>3, <1>4, <1>7
  <2> QED BY <1>1, <1>5, <2>1 DEF Climbed
<1>8. ASSUME Utters("falling") PROVE Climbed' = Climbed - 1
  <2>1. /\ Says("climbing")' = Says("climbing")
        /\ Says("descending")' = Says("descending")
        /\ Says("falling")' = Says("falling") + 1
    BY <1>3, <1>4, <1>8
  <2> QED BY <1>1, <1>5, <2>1 DEF Climbed
<1>9. ASSUME Utters("at bottom") PROVE Climbed' = Climbed
  <2>1. /\ Says("climbing")' = Says("climbing")
        /\ Says("descending")' = Says("descending")
        /\ Says("falling")' = Says("falling")
    BY <1>3, <1>4, <1>9
  <2> QED BY <1>1, <1>5, <2>1 DEF Climbed
<1>10. Climbed \in Int
  BY <1>1 DEF Climbed
<1> QED
  BY <1>2, <1>6, <1>7, <1>8, <1>9, <1>10

LEMMA LadderNext ==
  ASSUME ShippedInv, RungInv, LadderInv, [Next]_vars
  PROVE  LadderInv'
<1>1. CASE Still
  <2>1. UNCHANGED <<state, at, consumed>> /\ Silent
    BY <1>1 DEF Still, Silent
  <2>2. Climbed' = Climbed /\ Now' = Now /\ Began' = Began
    BY <2>1, SilentCounts DEF Climbed, Now, Began
  <2> QED BY <2>1, <2>2 DEF LadderInv, Climbed
<1>2. CASE Settled
  <2>1. HasRung(state)'
    BY <1>2 DEF Settled, RungInv, HasRung
  <2>2. emitted' = <<>> /\ at' = state' /\ ~consumed'
    BY <1>2 DEF Settled
  <2>3. Says("climbing")' = 0 /\ Says("descending")' = 0 /\ Says("falling")' = 0
    BY <2>2, TimesNone DEF Says
  <2>4. Now' = Began'
    BY <2>2 DEF Now, Began
  <2>5. Unfelt(Began') => Began' \in Nat
    BY DEF Unfelt
  <2>6. at'.node = state'.node
    BY <2>2
  <2> QED BY <2>2, <2>3, <2>4, <2>5, <2>6 DEF LadderInv
<1>3. CASE Take
  <2>1. state' = state /\ Began' = Began
    BY <1>3, TakeIs DEF ShippedInv, Began
  <2>2. ASSUME state.node \in LadderNode, Unfelt(Began)
        PROVE  LadderInv'
    <3>1. at.node \in LadderNode
      BY <2>2 DEF LadderInv
    <3>2. at'.node \in LadderNode
      BY <1>3, <3>1, MachineStays
    <3>3. Now \in Int /\ Began \in Nat /\ Began + 2 <= MaxCount /\ MaxCount \in Nat
      BY <2>2, <3>1, MaxCountAssumption DEF Unfelt, RungInv, HasRung, HasCounter, Now
    <3>4. consumed \in BOOLEAN
      BY DEF ShippedInv, IInv, TypeOK
    <3>5. /\ Now - Began = Climbed
          /\ Now \in -2 .. Began + 2
          /\ ~consumed => Now \in -1 .. Began + 1
          /\ at.node = "ladder.up"   => Now <= Began + 1
          /\ at.node = "ladder.up"   /\ ~consumed => Now <= Began
          /\ at.node = "ladder.fall" => Now >= -1
          /\ at.node = "ladder.fall" /\ ~consumed => Now >= 0
      BY <2>2 DEF LadderInv, Climbed
    <3>6. /\ Now' - Began = Climbed'
          /\ Now' \in -2 .. Began + 2
          /\ ~consumed' => Now' \in -1 .. Began + 1
          /\ at'.node = "ladder.up"   => Now' <= Began + 1
          /\ at'.node = "ladder.up"   /\ ~consumed' => Now' <= Began
          /\ at'.node = "ladder.fall" => Now' >= -1
          /\ at'.node = "ladder.fall" /\ ~consumed' => Now' >= 0
      <4>0. Climbed \in Int
        BY ClimbedIs DEF ShippedInv, IInv
      <4>1. CASE /\ at.node = "ladder.start" /\ at'.node = "ladder.stop" /\ Deaf
                /\ Now' = Now /\ Silent
        <5>1. Climbed' = Climbed
          BY <4>1, ClimbedIs DEF ShippedInv, IInv
        <5>2. Now' = Now
          BY <4>1
        <5> QED BY <3>3, <3>4, <3>5, <4>0, <4>1, <5>1, <5>2 DEF Deaf, Hearing
      <4>2. CASE /\ at.node = "ladder.stop"
                /\ at'.node \in {"ladder.up", "ladder.down", "ladder.fall"} /\ Hearing
                /\ Now' = Now /\ Silent
        <5>1. Climbed' = Climbed
          BY <4>2, ClimbedIs DEF ShippedInv, IInv
        <5>2. Now' = Now
          BY <4>2
        <5> QED BY <3>3, <3>4, <3>5, <4>0, <4>2, <5>1, <5>2 DEF Deaf, Hearing
      <4>3. CASE /\ at.node = "ladder.up" /\ at'.node = "ladder.stop" /\ Deaf
                /\ Now' = (IF Now < MaxCount THEN Now + 1 ELSE MaxCount) /\ Utters("climbing")
        <5>1. Climbed' = Climbed + 1
          BY <4>3, ClimbedIs DEF ShippedInv, IInv
        <5>2. Now' = Now + 1
          BY <3>3, <3>4, <3>5, <4>3 DEF Lowest, Deaf
        <5> QED BY <3>3, <3>4, <3>5, <4>0, <4>3, <5>1, <5>2 DEF Deaf, Hearing
      <4>4. CASE /\ at.node = "ladder.down" /\ at'.node = "ladder.stop" /\ Deaf /\ Now > 0
                /\ Now' = (IF Now > Lowest THEN Now - 1 ELSE Lowest) /\ Utters("descending")
        <5>1. Climbed' = Climbed - 1
          BY <4>4, ClimbedIs DEF ShippedInv, IInv
        <5>2. Now' = Now - 1
          BY <3>3, <3>4, <3>5, <4>4 DEF Lowest, Deaf
        <5>3. at'.node = "ladder.stop" /\ consumed' = consumed /\ Now > 0
          BY <4>4 DEF Deaf
        <5> QED BY <3>3, <3>4, <3>5, <4>0, <5>1, <5>2, <5>3
      <4>5. CASE /\ at.node = "ladder.down" /\ at'.node = "ladder.stop" /\ Deaf
                /\ Now' = Now /\ Utters("at bottom")
        <5>1. Climbed' = Climbed
          BY <4>5, ClimbedIs DEF ShippedInv, IInv
        <5>2. Now' = Now
          BY <4>5
        <5> QED BY <3>3, <3>4, <3>5, <4>0, <4>5, <5>1, <5>2 DEF Deaf, Hearing
      <4>6. CASE /\ at.node = "ladder.fall" /\ Deaf
                /\ \/ at'.node = "ladder.stop"
                   \/ at'.node = "ladder.fall" /\ Now' > 0
                /\ Now' = (IF Now > Lowest THEN Now - 1 ELSE Lowest) /\ Utters("falling")
        <5>1. Climbed' = Climbed - 1
          BY <4>6, ClimbedIs DEF ShippedInv, IInv
        <5>2. Now' = Now - 1
          BY <3>3, <3>4, <3>5, <4>6 DEF Lowest, Deaf
        <5>3. /\ at'.node \in {"ladder.stop", "ladder.fall"} /\ consumed' = consumed
              /\ at'.node = "ladder.fall" => Now' > 0
          BY <4>6 DEF Deaf
        <5>4. Now >= -1 /\ (~consumed => Now >= 0)
          BY <3>5, <4>6
        <5> QED BY <3>3, <3>4, <3>5, <4>0, <5>1, <5>2, <5>3, <5>4
      <4> QED BY <1>3, <3>1, <4>1, <4>2, <4>3, <4>4, <4>5, <4>6, LadderSteps
    <3> QED BY <2>1, <3>2, <3>6 DEF LadderInv, Climbed
  <2>3. CASE ~(state.node \in LadderNode /\ Unfelt(Began))
    BY <2>1, <2>3 DEF LadderInv
  <2> QED BY <2>2, <2>3
<1> QED
  BY <1>1, <1>2, <1>3, InsideNext DEF ShippedInv

LEMMA RungInit == ASSUME Init PROVE RungInv /\ LadderInv
<1>1. state \in Start /\ at = state /\ emitted = <<>> /\ consumed = FALSE
  BY DEF Init
<1>2. HasRung(state)
  BY <1>1, StartsAssumption DEF HasRung, LadderNode
<1>3. Says("climbing") = 0 /\ Says("descending") = 0 /\ Says("falling") = 0
  BY <1>1, TimesNone DEF Says
<1>4. Now = Began /\ at.node = state.node
  BY <1>1 DEF Now, Began
<1>5. Unfelt(Began) => Began \in Nat
  BY DEF Unfelt
<1>6. LadderInv
  BY <1>1, <1>3, <1>4, <1>5 DEF LadderInv
<1> QED
  BY <1>1, <1>2, <1>6 DEF RungInv

\* Wherever a limit stops the ladder, and from every rung whose walk stays
\* within the model's bounds, the walk has said every move that it made.
THEOREM LadderAnnounces == Spec => []LadderAnnouncesMoves
<1>1. Init => RungInv /\ LadderInv
  BY RungInit
<1>2. ShippedInv /\ RungInv /\ [Next]_vars => RungInv'
  BY RungNext
<1>3. ShippedInv /\ RungInv /\ LadderInv /\ [Next]_vars => LadderInv'
  BY LadderNext
<1>4. LadderInv => LadderAnnouncesMoves
  <2>1. DOMAIN Ladder = LadderNode
    BY NodesByMachine
  <2> QED BY <2>1 DEF LadderInv, LadderAnnouncesMoves, Began, Now
<1> QED
  BY <1>1, <1>2, <1>3, <1>4, ShippedHolds, PTL DEF Spec

(***************************************************************************)
(* double.  A message takes it from listen to double or complain, to       *)
(* cleanup and back to listen: three steps, which the limit must allow.    *)
(***************************************************************************)
HasCount(w) ==
  w.node \in DoubleNode =>
    /\ HasCounter(w.bs, Count)
    /\ w.node \in {"double.start", "double.listen"} => VarX \notin DOMAIN w.bs
CountInv == HasCount(state) /\ HasCount(at)

Counted == at.bs[Count].n
Started == state.bs[Count].n
Answered ==
  \/ emitted = <<"bad value">> /\ Counted = Started
  \/ emitted = <<"doubled">> /\ (Unfelt(Started) => Counted = Started + 1)
DoubleInv ==
  state.node = "double.listen" =>
    \/ /\ at.node = "double.listen" /\ ~consumed /\ steps = 0
       /\ emitted = <<>> /\ Counted = Started
    \/ /\ at.node \in {"double.double", "double.complain"} /\ consumed /\ steps = 1
       /\ emitted = <<>> /\ Counted = Started
    \/ at.node = "double.cleanup" /\ consumed /\ steps = 2 /\ Answered
    \/ at.node = "double.listen"  /\ consumed /\ steps = 3 /\ Answered

LEMMA CountInit == ASSUME Init PROVE CountInv /\ DoubleInv
<1>1. state \in Start /\ at = state /\ emitted = <<>> /\ consumed = FALSE
  BY DEF Init
<1>2. HasCount(state)
  BY <1>1, StartsAssumption DEF HasCount, DoubleNode
<1>3. DoubleInv
  BY <1>1, StartsAssumption DEF DoubleInv
<1> QED
  BY <1>1, <1>2, <1>3 DEF CountInv

\* The count after a transition, and what was said of it.
LEMMA DoubleSteps ==
  ASSUME ShippedInv, CountInv, Take, at.node \in DoubleNode
  PROVE  /\ HasCounter(at'.bs, Count)
         /\ \/ /\ at.node = "double.start" /\ at'.node = "double.listen" /\ Deaf
               /\ at'.bs = at.bs /\ Silent
            \/ /\ at.node = "double.listen"
               /\ at'.node \in {"double.double", "double.complain"} /\ Hearing
               /\ Counted' = Counted /\ Silent
            \/ /\ at.node = "double.double" /\ at'.node = "double.cleanup" /\ Deaf
               /\ Counted' = (IF Counted < MaxCount THEN Counted + 1 ELSE MaxCount)
               /\ Utters("doubled")
            \/ /\ at.node = "double.complain" /\ at'.node = "double.cleanup" /\ Deaf
               /\ Counted' = Counted /\ Utters("bad value")
            \/ /\ at.node = "double.cleanup" /\ at'.node = "double.listen" /\ Deaf
               /\ VarX \notin DOMAIN at'.bs /\ Counted' = Counted /\ Silent
<1>1. HasCounter(at.bs, Count)
  BY DEF CountInv, HasCount
<1>2. DoubleMove
  BY DoubleTakes DEF ShippedInv
<1>3. /\ HasCounter(Up(at.bs, Count), Count)
      /\ Up(at.bs, Count)[Count].n = IF Counted < MaxCount THEN Counted + 1 ELSE MaxCount
  BY <1>1, UpIs DEF Counted
<1>4. Keeps(at.bs, at'.bs) => HasCounter(at'.bs, Count) /\ at'.bs[Count] = at.bs[Count]
  BY <1>1, KeepsCounter
<1>5. Counted' = at'.bs[Count].n
  BY DEF Counted
<1>6. CASE at.node = "double.start"
  BY <1>1, <1>2, <1>6 DEF DoubleMove
<1>7. CASE at.node = "double.listen"
  BY <1>2, <1>4, <1>5, <1>7 DEF DoubleMove, Counted
<1>8. CASE at.node = "double.double"
  <2>1. /\ at'.node = "double.cleanup" /\ Deaf /\ Utters("doubled")
        /\ at'.bs = Up(at.bs, Count)
    BY <1>2, <1>8 DEF DoubleMove
  <2> QED BY <1>3, <1>5, <1>8, <2>1
<1>9. CASE at.node = "double.complain"
  BY <1>1, <1>2, <1>5, <1>9 DEF DoubleMove, Counted
<1>10. CASE at.node = "double.cleanup"
  <2>1. /\ at'.node = "double.listen" /\ Deaf /\ Silent
        /\ at'.bs = [v \in DOMAIN at.bs \ {VarX} |-> at.bs[v]]
    BY <1>2, <1>10 DEF DoubleMove
  <2>2. VarX \notin DOMAIN at'.bs /\ Count \in DOMAIN at'.bs /\ at'.bs[Count] = at.bs[Count]
    BY <1>1, <2>1, NamesDiffer DEF HasCounter
  <2> QED BY <1>1, <1>5, <1>10, <2>1, <2>2 DEF HasCounter, Counted
<1> QED
  BY <1>6, <1>7, <1>8, <1>9, <1>10 DEF DoubleNode

LEMMA CountNext ==
  ASSUME ShippedInv, CountInv, [Next]_vars
  PROVE  CountInv'
<1>1. CASE Still
  BY <1>1 DEF Still, CountInv, HasCount
<1>2. CASE Settled
  BY <1>2 DEF Settled, CountInv, HasCount
<1>3. CASE Take
  <2>1. state' = state
    BY <1>3, TakeIs DEF ShippedInv
  <2>2. CASE at.node \in DoubleNode
    <3>1. HasCounter(at'.bs, Count)
      BY <1>3, <2>2, DoubleSteps
    <3>2. at'.node \in {"double.start", "double.listen"} => VarX \notin DOMAIN at'.bs
      BY <1>3, <2>2, DoubleSteps DEF CountInv, HasCount
    <3> QED BY <2>1, <3>1, <3>2 DEF CountInv, HasCount
  <2>3. CASE at.node \notin DoubleNode
    BY <1>3, <2>1, <2>3, MachineStays DEF CountInv, HasCount
  <2> QED BY <2>2, <2>3
<1> QED
  BY <1>1, <1>2, <1>3, InsideNext DEF ShippedInv

LEMMA DoubleNext ==
  ASSUME ShippedInv, CountInv, DoubleInv, [Next]_vars
  PROVE  DoubleInv'
<1>1. CASE Still
  <2>1. UNCHANGED <<state, at, emitted, consumed, steps>>
    BY <1>1 DEF Still
  <2>2. Counted' = Counted /\ Started' = Started
    BY <2>1 DEF Counted, Started
  <2> QED BY <2>1, <2>2 DEF DoubleInv, Answered
<1>2. CASE Settled
  <2>1. at' = state' /\ emitted' = <<>> /\ ~consumed' /\ steps' = 0
    BY <1>2 DEF Settled
  <2>2. Counted' = Started'
    BY <2>1 DEF Counted, Started
  <2> QED BY <2>1, <2>2 DEF DoubleInv
<1>3. CASE Take
  <2>1. state' = state /\ steps' = steps + 1 /\ Started' = Started
    BY <1>3, TakeIs DEF ShippedInv, Started
  <2>2. ASSUME state.node = "double.listen"
        PROVE  DoubleInv'
    <3>1. at.node \in DoubleNode
      BY <2>2 DEF DoubleInv, DoubleNode
    <3>2. CASE at.node = "double.listen"
      <4>1. ~consumed
        BY <1>3, <3>1, <3>2, DoubleSteps DEF Hearing
      <4>2. emitted = <<>> /\ Counted = Started /\ steps = 0
        BY <2>2, <3>2, <4>1 DEF DoubleInv
      <4>3. /\ at'.node \in {"double.double", "double.complain"} /\ consumed'
            /\ Counted' = Counted /\ emitted' = emitted
        BY <1>3, <3>1, <3>2, DoubleSteps DEF Hearing, Silent
      <4> QED BY <2>1, <4>2, <4>3 DEF DoubleInv
    <3>3. CASE at.node = "double.double"
      <4>1. consumed /\ steps = 1 /\ emitted = <<>> /\ Counted = Started
        BY <2>2, <3>3 DEF DoubleInv
      <4>2. /\ at'.node = "double.cleanup" /\ consumed' = consumed
            /\ Counted' = (IF Counted < MaxCount THEN Counted + 1 ELSE MaxCount)
            /\ emitted' = emitted \o <<"doubled">>
        BY <1>3, <3>1, <3>3, DoubleSteps DEF Deaf, Utters
      <4>3. emitted' = <<"doubled">>
        BY <4>1, <4>2, FirstSaid
      <4>4. Unfelt(Started') => Counted' = Started' + 1
        BY <2>1, <4>1, <4>2, MaxCountAssumption DEF Unfelt
      <4> QED BY <2>1, <4>1, <4>2, <4>3, <4>4 DEF DoubleInv, Answered
    <3>4. CASE at.node = "double.complain"
      <4>1. consumed /\ steps = 1 /\ emitted = <<>> /\ Counted = Started
        BY <2>2, <3>4 DEF DoubleInv
      <4>2. /\ at'.node = "double.cleanup" /\ consumed' = consumed /\ Counted' = Counted
            /\ emitted' = emitted \o <<"bad value">>
        BY <1>3, <3>1, <3>4, DoubleSteps DEF Deaf, Utters
      <4>3. emitted' = <<"bad value">>
        BY <4>1, <4>2, FirstSaid
      <4>4. Answered'
        BY <2>1, <4>1, <4>2, <4>3 DEF Answered
      <4>5. steps' = 2
        BY <2>1, <4>1
      <4> QED BY <4>1, <4>2, <4>4, <4>5 DEF DoubleInv
    <3>5. CASE at.node = "double.cleanup"
      <4>1. consumed /\ steps = 2 /\ Answered
        BY <2>2, <3>5 DEF DoubleInv
      <4>2. /\ at'.node = "double.listen" /\ consumed' = consumed /\ Counted' = Counted
            /\ emitted' = emitted
        BY <1>3, <3>1, <3>5, DoubleSteps DEF Deaf, Silent
      <4>3. Answered'
        BY <2>1, <4>1, <4>2 DEF Answered
      <4> QED BY <2>1, <4>1, <4>2, <4>3 DEF DoubleInv
    <3> QED BY <2>2, <3>2, <3>3, <3>4, <3>5 DEF DoubleInv
  <2>3. CASE state.node # "double.listen"
    BY <2>1, <2>3 DEF DoubleInv
  <2> QED BY <2>2, <2>3
<1> QED
  BY <1>1, <1>2, <1>3, InsideNext DEF ShippedInv

(***************************************************************************)
(* Rest.  The shipped machines always leave the nodes that do not listen,  *)
(* and the sources of those that do reply.                                 *)
(***************************************************************************)
LEMMA ShippedDecided == Decided
<1>1. ASSUME NEW n \in DOMAIN Nodes, Nodes[n].type = "bindings"
      PROVE  \E j \in 1 .. Len(Nodes[n].branches) : Open(Nodes[n].branches[j])
  <2>1. /\ Open(Nodes[n].branches[Len(Nodes[n].branches)])
        /\ Len(Nodes[n].branches) # 0
    BY <1>1, NodesAreShaped DEF Shaped
  <2>2. Len(Nodes[n].branches) \in Nat
    BY <1>1, NodesAssumption DEF NodeType
  <2> QED BY <2>1, <2>2
<1> QED
  BY <1>1 DEF Decided

\* The sources of the nodes that listen return what they are given.
LEMMA ListeningSources ==
  \A n \in DOMAIN Nodes : \A j \in 1 .. Len(Nodes[n].actions) :
    Nodes[n].type = "message" =>
      Nodes[n].actions[j].source \in {"unlocking", "locking"}
<1> USE DEF Moves, Hears, Does
<1>1. \A n \in DoubleNode : Nodes[n].type = "message" => Nodes[n].actions = <<>>
  BY DoubleIs DEF DoubleNode
<1>2. \A n \in TurnstileNode : Nodes[n].type = "message" => Nodes[n].actions = <<>>
  BY TurnstileIs DEF TurnstileNode
<1>3. \A n \in LadderNode : Nodes[n].type = "message" => Nodes[n].actions = <<>>
  BY LadderIs DEF LadderNode
<1>4. \A n \in LatchNode : \A j \in 1 .. Len(Nodes[n].actions) :
        Nodes[n].type = "message" => Nodes[n].actions[j].source \in {"unlocking", "locking"}
  BY LatchIs DEF LatchNode
<1> QED
  BY <1>1, <1>2, <1>3, <1>4, NodesByMachine

LEMMA ShippedReplying == Replying
<1>1. ASSUME NEW n \in DOMAIN Nodes, NEW j \in 1 .. Len(Nodes[n].actions), NEW b \in Binding,
             Nodes[n].type # "bindings"
      PROVE  NullReply \notin Eval(Nodes[n].actions[j].source, b)
  <2> DEFINE src == Nodes[n].actions[j].source
  <2>1. Nodes[n].type = "message"
    BY <1>1, NodesAreShaped DEF Shaped
  <2>2. src \in {"unlocking", "locking"}
    BY <1>1, <2>1, ListeningSources
  <2>3. src \in Source
    <3>1. Nodes[n].actions \in Seq(Action)
      BY NodesAssumption DEF NodeType
    <3>2. Nodes[n].actions[j] \in Action
      BY <3>1
    <3> QED BY <3>2 DEF Action
  <2>4. Eval(src, b) = {Gives(b, <<src>>)}
    BY <1>1, <2>2, <2>3, ShippedAssumption DEF Runs
  <2>5. Gives(b, <<src>>) \in Outcome
    <3>1. src \in Emission
      BY <2>2, ShippedAssumption DEF Emissions
    <3>2. <<src>> \in Seq(Emission)
      BY <3>1
    <3> QED BY <1>1, <3>2 DEF Gives, Outcome, Bs, Emitted
  <2>6. Gives(b, <<src>>) # NullReply
    BY <2>5, StateAssumption
  <2> QED BY <2>4, <2>6
<1> QED
  BY <1>1 DEF Replying

\* Where a shipped machine has stopped on its own, it stays until a message.
THEOREM ShippedRestIsFinal == Spec => []RestIsFinal
BY RestsAreFinal, ShippedDecided, ShippedReplying

\* A shipped machine stops on its own only at a node that listens.
LEMMA RestedNode ==
  ASSUME ShippedInv, RestInv, pc = "rested"
  PROVE  at.node \in DOMAIN Nodes /\ Nodes[at.node].type = "message"
<1>1. at.node \in DOMAIN Nodes /\ Nodes[at.node].type # "bindings"
  BY DEF RestInv, RestedWell, Resting
<1> QED
  BY <1>1, NodesAreShaped DEF Shaped

\* A walk is limited after as many steps as it was allowed.
LimitedInv == pc = "limited" => steps = MaxSteps

LEMMA LimitedNext == ASSUME LimitedInv, [Next]_vars PROVE LimitedInv'
<1>1. CASE UNCHANGED vars
  BY <1>1 DEF vars, walkVars, LimitedInv
<1>2. CASE Limited
  BY <1>2 DEF Limited, Limit, walkVars, LimitedInv
<1>3. CASE Next /\ ~Limited
  <2>1. pc' # "limited"
    BY <1>3 DEF Next, Call, Run, Begin, Enter, Skip, Act, NoReply, Branching, NoBranchLeft,
                Unconditional, Onward, TryPattern, TryGuard, Take, TakeFails, Done
  <2> QED BY <2>1 DEF LimitedInv
<1> QED
  BY <1>1, <1>2, <1>3

\* When the limit allows the three steps of an answer, double answers each
\* number, or complaint, once, and is back at listen without its ?x.
THEOREM DoubleIsExact == ASSUME MaxSteps >= 3 PROVE Spec => []DoubleCounts
<1>1. Init => CountInv /\ DoubleInv /\ RestInv /\ LimitedInv
  BY CountInit, RestInit DEF Init, LimitedInv
<1>2. ShippedInv /\ CountInv /\ [Next]_vars => CountInv'
  BY CountNext
<1>3. ShippedInv /\ CountInv /\ DoubleInv /\ [Next]_vars => DoubleInv'
  BY DoubleNext
<1>4. IInv /\ RestInv /\ [Next]_vars => RestInv'
  BY RestNext, ShippedDecided, ShippedReplying
<1>5. LimitedInv /\ [Next]_vars => LimitedInv'
  BY LimitedNext
<1>6. ShippedInv /\ CountInv /\ DoubleInv /\ RestInv /\ LimitedInv => DoubleCounts
  <2> SUFFICES ASSUME ShippedInv, CountInv, DoubleInv, RestInv, LimitedInv,
                      Returns, state.node = "double.listen"
               PROVE  /\ at.node = "double.listen"
                      /\ VarX \notin DOMAIN at.bs
                      /\ Len(emitted) = IF consumed THEN 1 ELSE 0
                      /\ Unfelt(Started) => Counted = Started + Says("doubled")
    BY DEF DoubleCounts, Started, Counted
  <2>1. at.node = "double.listen"
    <3>1. CASE pc = "limited"
      BY <3>1 DEF LimitedInv, DoubleInv
    <3>2. CASE pc = "rested"
      <4>1. Nodes[at.node].type = "message"
        BY <3>2, RestedNode
      <4>2. /\ Nodes["double.double"].type = "bindings"
            /\ Nodes["double.complain"].type = "bindings"
            /\ Nodes["double.cleanup"].type = "bindings"
        BY DoubleIs DEF Moves
      <4> QED BY <4>1, <4>2 DEF DoubleInv
    <3> QED BY <3>1, <3>2 DEF Returns, Rests
  <2>2. VarX \notin DOMAIN at.bs
    BY <2>1 DEF CountInv, HasCount, DoubleNode
  <2>3. Says("doubled") = Times(emitted, "doubled")
    BY DEF Says
  <2>4. Times(<<"doubled">>, "doubled") = 1 /\ Times(<<"bad value">>, "doubled") = 0
    BY TimesOne
  <2>5. Times(<<>>, "doubled") = 0
    BY TimesNone
  <2>6. Counted \in Int /\ Started \in Int
    BY <2>1 DEF CountInv, HasCount, HasCounter, Counted, Started, DoubleNode
  <2>7. CASE consumed
    <3>1. Answered
      BY <2>1, <2>7 DEF DoubleInv
    <3>2. CASE emitted = <<"bad value">> /\ Counted = Started
      <4>1. Len(emitted) = 1
        BY <3>2
      <4>2. Counted = Started + Says("doubled")
        <5>1. Says("doubled") = Times(<<"bad value">>, "doubled")
          BY <2>3, <3>2
        <5>2. Says("doubled") = 0
          BY <2>4, <5>1
        <5>3. Counted = Started
          BY <3>2
        <5> QED BY <2>6, <5>2, <5>3
      <4> QED BY <2>1, <2>2, <2>7, <4>1, <4>2
    <3>3. CASE emitted = <<"doubled">> /\ (Unfelt(Started) => Counted = Started + 1)
      <4>1. Len(emitted) = 1
        BY <3>3
      <4>2. Says("doubled") = 1
        BY <2>3, <2>4, <3>3
      <4> QED BY <2>1, <2>2, <2>7, <3>3, <4>1, <4>2
    <3> QED BY <3>1, <3>2, <3>3 DEF Answered
  <2>8. CASE ~consumed
    <3>1. emitted = <<>> /\ Counted = Started
      BY <2>1, <2>8 DEF DoubleInv
    <3> QED BY <2>1, <2>2, <2>3, <2>5, <2>6, <2>8, <3>1
  <2> QED BY <2>7, <2>8
<1> QED
  BY <1>1, <1>2, <1>3, <1>4, <1>5, <1>6, ShippedHolds, InvHolds, PTL DEF Spec
=============================================================================
