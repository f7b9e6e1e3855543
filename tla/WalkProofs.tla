----------------------------- MODULE WalkProofs -----------------------------
(***************************************************************************)
(* Theorems about Walk, for every machine specification, matcher, sandbox  *)
(* and limit that satisfy the assumptions of Walk.                         *)
(***************************************************************************)
EXTENDS Walk, SequenceTheorems, WellFoundedInduction, TLAPS

USE DEF Inner, Rests, Throws, Emitted

(***************************************************************************)
(* What holds inside a step: its node exists, the limit is not reached,    *)
(* there is a message when the node's branches need one, and the branch    *)
(* whose guard is tried, or which is taken, is one of the node's.          *)
(***************************************************************************)
InStep == {"actions", "branches", "guard", "take"}
InNode == pc \in InStep => at.node \in DOMAIN Nodes /\ steps < MaxSteps
InBranches == pc \in InStep \ {"actions"} => CanBranch
InBranch ==
  pc \in {"guard", "take"} =>
    /\ k \in 1 .. Len(Here.branches)
    /\ pc = "guard" => Here.branches[k].guard # None

IInv == TypeOK /\ InNode /\ InBranches /\ InBranch

(***************************************************************************)
(* The operators the steps are made of stay within their types.            *)
(***************************************************************************)
\* A node that exists is well-formed, and so are its actions and branches.
LEMMA NodeFacts ==
  ASSUME TypeOK, at.node \in DOMAIN Nodes
  PROVE  /\ Here \in NodeType
         /\ Here.actions \in Seq(Action)
         /\ Here.branches \in Seq(Branch)
         /\ \A j \in 1 .. Len(Here.actions) : Here.actions[j] \in Action
         /\ \A j \in 1 .. Len(Here.branches) : Here.branches[j] \in Branch
<1>1. Here \in NodeType
  BY NodesAssumption DEF Here
<1>2. Here.actions \in Seq(Action) /\ Here.branches \in Seq(Branch)
  BY <1>1 DEF NodeType
<1> QED
  BY <1>1, <1>2

\* sandboxedAction returns bindings, or nothing when the source returns nothing,
\* and bindings with undefined emissions when the source fails.
LEMMA SandboxFacts ==
  ASSUME NEW src \in Source, NEW b \in Bs,
         NEW o \in sandboxedAction(src, b) \ {NullReply}
  PROVE  /\ o.bs \in Bs
         /\ o.ok \in BOOLEAN
         /\ o.emitted \in Emitted
         /\ ~o.ok => o.emitted = Undefined /\ o.bs \in Binding
<1>1. Object(b) \in Binding
  BY StateAssumption DEF Object, Bs
<1>2. Eval(src, Object(b)) \subseteq Outcome \cup {NullReply}
  BY <1>1, EvalAssumption
<1>3. WithError(Object(b)) \in Binding
  BY <1>1, WithErrorAssumption
<1>4. PICK r \in Eval(src, Object(b)) : o = IF r # NullReply /\ ~r.ok THEN Failed(Object(b)) ELSE r
  BY DEF sandboxedAction
<1>5. r \in Outcome /\ r # NullReply
  BY <1>2, <1>4
<1>6. CASE r.ok
  BY <1>4, <1>5, <1>6 DEF Outcome
<1>7. CASE ~r.ok
  BY <1>3, <1>4, <1>7 DEF Failed, Bs
<1> QED
  BY <1>5, <1>6, <1>7 DEF Outcome

\* Writing bindings through the shared object keeps the state well-formed and
\* does not move it.
LEMMA WriteFacts ==
  ASSUME TypeOK, NEW b \in Bs
  PROVE  /\ Write(b) \in [node : Name, bs : Bs]
         /\ Write(b).node = at.node
BY DEF TypeOK, Write

\* match returns what it may return, at a node whose branches can be tried.
LEMMA AgainstFacts ==
  ASSUME TypeOK, CanBranch, NEW p \in Pattern
  PROVE  Against(p) \in MatchResult
BY MatchAssumption DEF TypeOK, CanBranch, Against

\* What a step, and a walk, leave behind is well-formed.
LEMMA NothingSaid == <<>> \in Seq(Emission)
BY EmptySeq

LEMMA StepEndsFacts ==
  ASSUME StepEnds
  PROVE  /\ k' \in Nat \ {0} /\ bs' \in Bs /\ shared' \in BOOLEAN
         /\ against' \in Bs /\ reading' \in BOOLEAN
         /\ out' \in Seq(Emission) \cup {Undefined} /\ voiced' \in Seq(Emission)
<1>1. k' \in Nat \ {0} BY DEF StepEnds
<1>2. bs' \in Bs /\ against' \in Bs BY DEF StepEnds, Bs
<1>3. shared' \in BOOLEAN /\ reading' \in BOOLEAN BY DEF StepEnds
<1>4. out' \in Seq(Emission) /\ voiced' \in Seq(Emission) BY NothingSaid DEF StepEnds
<1> QED BY <1>1, <1>2, <1>3, <1>4

LEMMA WalkEndsFacts ==
  ASSUME WalkEnds
  PROVE  /\ steps' \in 0 .. MaxSteps /\ message' \in Message \cup {NoMessage}
         /\ consumed' \in BOOLEAN /\ uses' \in Nat
         /\ emitted' \in Seq(Emission) /\ said' \in Seq(Emission)
<1>1. steps' \in 0 .. MaxSteps BY MaxStepsAssumption DEF WalkEnds
<1>2. message' \in Message \cup {NoMessage} /\ uses' \in Nat BY DEF WalkEnds
<1>3. consumed' \in BOOLEAN BY DEF WalkEnds
<1>4. emitted' \in Seq(Emission) /\ said' \in Seq(Emission)
  BY NothingSaid DEF WalkEnds
<1> QED BY <1>1, <1>2, <1>3, <1>4

(***************************************************************************)
(* Type correctness, with what holds inside a step.                        *)
(***************************************************************************)
\* The invariant holds when the host has just made the machine.
LEMMA InvInit == ASSUME Init PROVE IInv
<1>1. state \in [node : Name, bs : Bs] /\ at = state
  BY StateAssumption DEF Init
<1>2. /\ k \in Nat \ {0} /\ bs \in Bs /\ against \in Bs
      /\ message \in Message \cup {NoMessage} /\ uses \in Nat
  BY DEF Init, Bs
<1>3. steps \in 0 .. MaxSteps
  BY MaxStepsAssumption DEF Init
<1>4. /\ shared \in BOOLEAN /\ reading \in BOOLEAN
      /\ consumed \in BOOLEAN /\ resting \in BOOLEAN
  BY DEF Init
<1>5. /\ out \in Seq(Emission) /\ voiced \in Seq(Emission)
      /\ emitted \in Seq(Emission) /\ said \in Seq(Emission)
  BY NothingSaid DEF Init
<1>6. TypeOK
  BY <1>1, <1>2, <1>3, <1>4, <1>5 DEF Init, TypeOK
<1> QED
  BY <1>6 DEF Init, IInv, InNode, InBranches, InBranch, InStep

\* No step of walk, step, sandboxedAction or the host breaks the invariant.
LEMMA InvNext == ASSUME IInv, [Next]_vars PROVE IInv'
<1> USE DEF IInv, InStep
<1>1. ASSUME NEW m \in Message \cup {NoMessage}, Begin(m) PROVE IInv'
  BY <1>1 DEF Begin, TypeOK, InNode, InBranches, InBranch, stepVars
<1>2. CASE Limited
  BY <1>2 DEF Limited, TypeOK, InNode, InBranches, InBranch, walkVars, stepVars
<1>3. CASE Enter
  <2>1. TypeOK' BY <1>3 DEF Enter, TypeOK, walkVars
  <2>2. InNode' BY <1>3 DEF Enter, TypeOK, InNode, walkVars, Limit
  <2> QED BY <1>3, <2>1, <2>2 DEF Enter, InBranches, InBranch
<1>4. CASE Skip
  <2>1. TypeOK' BY <1>4 DEF Skip, TypeOK, walkVars
  <2> QED BY <1>4, <2>1 DEF Skip, InNode, InBranches, InBranch, walkVars
<1>5. CASE Act
  <2>1. at.node \in DOMAIN Nodes /\ steps < MaxSteps
    BY <1>5 DEF Act, InNode
  <2>2. k \in 1 .. Len(Here.actions)
    BY <1>5, <2>1, NodeFacts DEF Act, TypeOK
  <2>3. Here.actions[k].source \in Source
    BY <2>1, <2>2, NodeFacts DEF Action
  <2>4. PICK o \in sandboxedAction(Here.actions[k].source, bs) \ {NullReply} :
          /\ out' = Accumulate(out, o)
          /\ voiced' = IF o.emitted # Undefined THEN voiced \o o.emitted ELSE voiced
          /\ bs' = o.bs
          /\ at' = IF o.ok THEN at ELSE Write(o.bs)
          /\ shared' = (shared /\ ~o.ok /\ bs # NoBs)
    BY <1>5 DEF Act
  <2>5. /\ o.bs \in Bs /\ o.ok \in BOOLEAN
        /\ o.emitted \in Emitted
    BY <2>3, <2>4, SandboxFacts DEF TypeOK
  <2>6. at' \in [node : Name, bs : Bs] /\ at'.node = at.node
    BY <2>4, <2>5, WriteFacts DEF TypeOK
  <2>7. out' \in Seq(Emission) \cup {Undefined} /\ voiced' \in Seq(Emission)
    BY <2>4, <2>5 DEF TypeOK, Accumulate
  <2>8. TypeOK'
    BY <1>5, <2>4, <2>5, <2>6, <2>7 DEF Act, TypeOK, walkVars
  <2> QED
    BY <1>5, <2>1, <2>6, <2>8 DEF Act, InNode, InBranches, InBranch, walkVars
<1>6. CASE Branching
  <2>1. against' \in Bs /\ reading' \in BOOLEAN /\ pc' \in {"branches", "rested"}
    BY <1>6 DEF Branching, TypeOK
  <2>2. TypeOK' BY <1>6, <2>1 DEF Branching, TypeOK, Inner, Rests, walkVars
  <2>3. CanBranch' = CanBranch BY <1>6 DEF Branching, CanBranch, Here, walkVars
  <2> QED BY <1>6, <2>2, <2>3 DEF Branching, InNode, InBranches, InBranch, walkVars
<1>7. CASE NoBranchLeft
  BY <1>7 DEF NoBranchLeft, TypeOK, InNode, InBranches, InBranch, walkVars, stepVars
<1>8. CASE Unconditional
  <2>1. k \in 1 .. Len(Here.branches)
    BY <1>8, NodeFacts DEF Unconditional, InNode, TypeOK
  <2>2. TypeOK' BY <1>8 DEF Unconditional, Onward, TypeOK, walkVars, stepVars
  <2>3. CanBranch' = CanBranch /\ Here' = Here
    BY <1>8 DEF Unconditional, CanBranch, Here, walkVars, stepVars
  <2> QED
    BY <1>8, <2>1, <2>2, <2>3
       DEF Unconditional, Onward, InNode, InBranches, InBranch, walkVars, stepVars
<1>9. CASE TryPattern
  <2>1. at.node \in DOMAIN Nodes /\ steps < MaxSteps /\ CanBranch
    BY <1>9 DEF TryPattern, InNode, InBranches
  <2>2. k \in 1 .. Len(Here.branches)
    BY <1>9, <2>1, NodeFacts DEF TryPattern, TypeOK
  <2>3. Here.branches[k].pattern \in Pattern
    BY <1>9, <2>1, <2>2, NodeFacts DEF TryPattern, Branch
  <2> DEFINE x == Against(Here.branches[k].pattern)
  <2>4. x \in MatchResult
    BY <2>1, <2>3, AgainstFacts
  <2>5. x.left \in Bs /\ x.same \in BOOLEAN /\ (Len(x.bss) = 1 => x.bss[1] \in Bs)
    BY <2>4 DEF MatchResult, Bs
  <2>6. at' = Write(x.left)
    BY <1>9 DEF TryPattern
  <2>7. at' \in [node : Name, bs : Bs] /\ at'.node = at.node
    BY <2>5, <2>6, WriteFacts
  <2>8. /\ bs' \in Bs /\ shared' \in BOOLEAN /\ k' \in Nat \ {0}
        /\ \/ pc' \in {"matchThrew", "tooManyBindings"} /\ UNCHANGED k
           \/ pc' = "branches"
           \/ pc' = Onward(Here.branches[k]) /\ UNCHANGED k
    BY <1>9, <2>5 DEF TryPattern, TypeOK
  <2>9. against' \in Bs /\ reading' \in BOOLEAN
    <3>1. against' = IF reading THEN x.left ELSE against
      BY <1>9 DEF TryPattern
    <3>2. reading' \in {reading, reading /\ x.same}
      BY <1>9 DEF TryPattern
    <3>3. reading' \in BOOLEAN
      BY <3>2, <2>5 DEF TypeOK
    <3> QED BY <3>1, <3>3, <2>5 DEF TypeOK
  <2>10. TypeOK'
    BY <1>9, <2>7, <2>8, <2>9 DEF TryPattern, TypeOK, Onward, walkVars
  <2>11. Here' = Here /\ CanBranch' = CanBranch
    BY <1>9, <2>7 DEF TryPattern, CanBranch, Here, walkVars
  <2> QED
    BY <1>9, <2>1, <2>2, <2>7, <2>8, <2>10, <2>11
       DEF TryPattern, InNode, InBranches, InBranch, Onward, walkVars
<1>10. CASE TryGuard
  <2>1. /\ at.node \in DOMAIN Nodes /\ steps < MaxSteps /\ CanBranch
        /\ k \in 1 .. Len(Here.branches) /\ Here.branches[k].guard # None
    BY <1>10 DEF TryGuard, InNode, InBranches, InBranch
  <2> DEFINE guard == Here.branches[k].guard
  <2>2. guard.source \in Source
    BY <2>1, NodeFacts DEF Branch, Guard
  <2>3. /\ at' \in [node : Name, bs : Bs] /\ at'.node = at.node
        /\ bs' \in Bs /\ shared' \in BOOLEAN /\ k' \in Nat \ {0}
        /\ \/ pc' = "badGuardInterpreter"
           \/ pc' = "branches"
           \/ pc' = "take" /\ UNCHANGED k
    <3>1. CASE guard.interpreter # "alias"
      BY <1>10, <3>1 DEF TryGuard, TypeOK
    <3>2. CASE guard.interpreter = "alias"
      <4>1. PICK o \in sandboxedAction(guard.source, bs) \ {NullReply} :
              /\ at' = IF o.ok THEN at ELSE Write(o.bs)
              /\ IF o.bs = NoBs
                 THEN pc' = "branches" /\ k' = k + 1 /\ UNCHANGED <<bs, shared>>
                 ELSE /\ pc' = "take" /\ bs' = o.bs /\ UNCHANGED k
                      /\ shared' = (shared /\ ~o.ok /\ bs # NoBs)
        BY <1>10, <3>2 DEF TryGuard
      <4>2. o.bs \in Bs /\ o.ok \in BOOLEAN
        BY <2>2, <4>1, SandboxFacts DEF TypeOK
      <4>3. at' \in [node : Name, bs : Bs] /\ at'.node = at.node
        BY <4>1, <4>2, WriteFacts DEF TypeOK
      <4>4. shared' \in BOOLEAN
        BY <4>1 DEF TypeOK
      <4> QED BY <4>1, <4>2, <4>3, <4>4 DEF TypeOK
    <3> QED BY <3>1, <3>2
  <2>4. TypeOK'
    BY <1>10, <2>3 DEF TryGuard, TypeOK, walkVars
  <2>5. Here' = Here /\ CanBranch' = CanBranch
    BY <1>10, <2>3 DEF TryGuard, CanBranch, Here, walkVars
  <2> QED
    BY <1>10, <2>1, <2>3, <2>4, <2>5 DEF TryGuard, InNode, InBranches, InBranch, walkVars
<1>11. CASE Take
  <2>1. /\ at.node \in DOMAIN Nodes /\ steps < MaxSteps
        /\ k \in 1 .. Len(Here.branches)
    BY <1>11 DEF Take, InNode, InBranch
  <2>2. Here.branches[k].target \in Name
    BY <2>1, NodeFacts DEF Branch
  <2>3. at' \in [node : Name, bs : Bs]
    BY <1>11, <2>2 DEF Take, TypeOK
  <2>4. /\ emitted' \in Seq(Emission) /\ said' \in Seq(Emission)
        /\ steps' \in 0 .. MaxSteps
        /\ message' \in Message \cup {NoMessage}
        /\ uses' \in Nat /\ consumed' \in BOOLEAN
    BY <1>11, <2>1, MaxStepsAssumption DEF Take, TypeOK, Said, StepsAfter, LeftOver
  <2>5. TypeOK'
    BY <1>11, <2>3, <2>4, StepEndsFacts DEF Take, TypeOK
  <2> QED
    BY <1>11, <2>5 DEF Take, InNode, InBranches, InBranch
<1>12. CASE TakeFails \/ NoReply
  BY <1>12 DEF TakeFails, NoReply, TypeOK, InNode, InBranches, InBranch, walkVars, stepVars
<1>13. CASE Done
  <2>1. state' \in [node : Name, bs : Bs] /\ resting' \in BOOLEAN
    BY <1>13 DEF Done, Return, Abort, TypeOK
  <2>2. at' = state' /\ pc' = "idle" /\ WalkEnds
    BY <1>13 DEF Done
  <2>3. TypeOK'
    BY <2>1, <2>2, WalkEndsFacts, StepEndsFacts DEF WalkEnds, TypeOK
  <2> QED
    BY <2>2, <2>3 DEF InNode, InBranches, InBranch
<1>14. CASE UNCHANGED vars
  <2>1. TypeOK' BY <1>14 DEF TypeOK, vars, walkVars, stepVars
  <2>2. Here' = Here /\ CanBranch' = CanBranch
    BY <1>14 DEF CanBranch, Here, vars, walkVars, stepVars
  <2> QED
    BY <1>14, <2>1, <2>2 DEF InNode, InBranches, InBranch, vars, walkVars, stepVars
<1> QED
  BY <1>1, <1>2, <1>3, <1>4, <1>5, <1>6, <1>7, <1>8, <1>9, <1>10, <1>11, <1>12,
     <1>13, <1>14 DEF Next, Call, Run

\* Whatever the machine, the variables of walk and step keep their types, and
\* no step is taken inside a node that is not there or past the limit.
THEOREM InvHolds == Spec => []IInv
<1>1. Init => IInv BY InvInit
<1>2. IInv /\ [Next]_vars => IInv' BY InvNext
<1> QED BY <1>1, <1>2, PTL DEF Spec

THEOREM TypeCorrect == Spec => []TypeOK
<1>1. IInv => TypeOK BY DEF IInv
<1> QED BY <1>1, InvHolds, PTL

(***************************************************************************)
(* The message.  Between walks none was used; inside one, a step out of a  *)
(* listening node has a message, so none was used before it.               *)
(***************************************************************************)
UseInv == MessageUsedOnce /\ (pc = "idle" => uses = 0)

LEMMA UseInit == ASSUME Init PROVE UseInv
BY DEF Init, UseInv, MessageUsedOnce

LEMMA UseNext == ASSUME IInv, UseInv, [Next]_vars PROVE UseInv'
<1> USE DEF UseInv, MessageUsedOnce
<1>1. ASSUME NEW m \in Message \cup {NoMessage}, Begin(m) PROVE UseInv'
  BY <1>1 DEF Begin
<1>2. CASE Limited \/ Enter \/ Skip \/ Act \/ Branching \/ NoBranchLeft \/ Unconditional
             \/ TryPattern \/ TryGuard \/ TakeFails \/ NoReply
  <2>1. UNCHANGED <<message, consumed, uses>>
    BY <1>2 DEF Limited, Enter, Skip, Act, Branching, NoBranchLeft, Unconditional,
                TryPattern, TryGuard, TakeFails, NoReply, walkVars
  <2>2. pc' # "idle"
    BY <1>2 DEF Limited, Enter, Skip, Act, Branching, NoBranchLeft, Unconditional,
                TryPattern, TryGuard, TakeFails, NoReply, Onward
  <2> QED BY <2>1, <2>2
<1>3. CASE Take
  <2>1. CanBranch /\ uses \in Nat
    BY <1>3 DEF Take, IInv, InBranches, InStep, TypeOK
  <2>2. CASE Here.type = "message"
    <3>1. uses = 0
      BY <2>1, <2>2 DEF CanBranch
    <3>2. uses' = 1 /\ message' = NoMessage /\ pc' = "loop"
      BY <1>3, <2>2, <3>1 DEF Take, LeftOver
    <3>3. consumed'
      BY <1>3, <2>2 DEF Take
    <3> QED BY <3>2, <3>3
  <2>3. CASE Here.type # "message"
    <3>1. uses' = uses /\ message' = message /\ pc' = "loop"
      BY <1>3, <2>3 DEF Take, LeftOver
    <3>2. consumed' <=> consumed
      BY <1>3, <2>3 DEF Take
    <3> QED BY <3>1, <3>2
  <2> QED BY <2>2, <2>3
<1>4. CASE Done
  BY <1>4 DEF Done, WalkEnds
<1>5. CASE UNCHANGED vars
  BY <1>5 DEF vars, walkVars
<1> QED
  BY <1>1, <1>2, <1>3, <1>4, <1>5 DEF Next, Call, Run

\* For every machine: a message is used at most once in a walk, and the walk's
\* consumed says exactly whether it was.
THEOREM MessageOnce == Spec => []MessageUsedOnce
<1>1. Init => UseInv BY UseInit
<1>2. IInv /\ UseInv /\ [Next]_vars => UseInv' BY UseNext
<1>3. UseInv => MessageUsedOnce BY DEF UseInv
<1> QED BY <1>1, <1>2, <1>3, InvHolds, PTL DEF Spec

(***************************************************************************)
(* The emissions.  A node with at most one action that the interpreter     *)
(* runs has said nothing before that action runs.                          *)
(***************************************************************************)
SingleActions ==
  \A n \in DOMAIN Nodes : \A i, j \in 1 .. Len(Nodes[n].actions) :
    Nodes[n].actions[i].interpreter = "alias" /\ Nodes[n].actions[j].interpreter = "alias"
      => i = j

Quiet == \A j \in 1 .. (k - 1) : Here.actions[j].interpreter # "alias"
SaidInv ==
  /\ emitted = said
  /\ out # Undefined => out = voiced
  /\ pc \in {"idle", "loop"} => voiced = <<>> /\ k = 1
  /\ pc = "actions" /\ Quiet => voiced = <<>>

LEMMA SaidInit == ASSUME Init PROVE SaidInv
BY DEF Init, SaidInv

LEMMA SaidNext ==
  ASSUME SingleActions, IInv, SaidInv, [Next]_vars
  PROVE  SaidInv'
<1>1. ASSUME NEW m \in Message \cup {NoMessage}, Begin(m) PROVE SaidInv'
  BY <1>1 DEF Begin, SaidInv, stepVars
<1>2. CASE Limited \/ NoBranchLeft \/ Unconditional \/ TakeFails \/ NoReply
  BY <1>2 DEF Limited, NoBranchLeft, Unconditional, TakeFails, NoReply, Onward, SaidInv,
              walkVars, stepVars
<1>3. CASE Enter
  BY <1>3 DEF Enter, SaidInv, walkVars
<1>4. CASE Skip
  <2>1. UNCHANGED <<emitted, said, out, voiced, at>> /\ pc' \in {"actions", "badInterpreter"}
    BY <1>4 DEF Skip, walkVars
  <2>2. ASSUME pc' = "actions", Quiet' PROVE Quiet
    <3>1. k' = k + 1 /\ k \in Nat \ {0}
      BY <1>4, <2>2 DEF Skip, IInv, TypeOK
    <3>2. Here' = Here
      BY <2>1 DEF Here
    <3> QED BY <2>2, <3>1, <3>2 DEF Quiet
  <2> QED BY <1>4, <2>1, <2>2 DEF Skip, SaidInv
<1>5. CASE Act
  <2>1. at.node \in DOMAIN Nodes /\ k \in 1 .. Len(Here.actions)
    BY <1>5, NodeFacts DEF Act, IInv, InNode, InStep, TypeOK
  <2>2. Here.actions[k].source \in Source /\ Here.actions[k].interpreter = "alias"
    BY <1>5, <2>1, NodeFacts DEF Act, Action, IInv
  <2>3. Quiet
    BY <2>1, <2>2, NodeFacts DEF SingleActions, Quiet, Here, IInv, TypeOK
  <2>4. voiced = <<>>
    BY <1>5, <2>3 DEF Act, SaidInv
  <2>5. PICK o \in sandboxedAction(Here.actions[k].source, bs) \ {NullReply} :
          /\ out' = o.emitted
          /\ voiced' = IF o.emitted # Undefined THEN voiced \o o.emitted ELSE voiced
          /\ at' = IF o.ok THEN at ELSE Write(o.bs)
    BY <1>5 DEF Act, Accumulate
  <2>6. /\ o.bs \in Bs /\ o.ok \in BOOLEAN
        /\ o.emitted \in Emitted
    BY <2>2, <2>5, SandboxFacts DEF IInv, TypeOK
  <2>7. out' # Undefined => out' = voiced'
    BY <2>4, <2>5, <2>6
  <2>8. ~Quiet'
    <3>1. at'.node = at.node
      BY <2>5, <2>6, WriteFacts DEF IInv, TypeOK
    <3>2. Here' = Here /\ k' = k + 1 /\ k \in 1 .. (k' - 1)
      BY <1>5, <2>1, <3>1 DEF Act, Here
    <3> QED BY <2>2, <3>2 DEF Quiet
  <2> QED BY <1>5, <2>7, <2>8 DEF Act, SaidInv, walkVars
<1>6. CASE Branching
  BY <1>6 DEF Branching, SaidInv, walkVars
<1>7. CASE TryPattern
  <2>1. pc' \notin {"idle", "loop", "actions"} /\ UNCHANGED <<emitted, said, out, voiced>>
    BY <1>7 DEF TryPattern, Onward, walkVars
  <2> QED BY <2>1 DEF SaidInv
<1>8. CASE TryGuard
  <2>1. pc' \notin {"idle", "loop", "actions"} /\ UNCHANGED <<emitted, said, out, voiced>>
    BY <1>8 DEF TryGuard, walkVars
  <2> QED BY <2>1 DEF SaidInv
<1>9. CASE Take
  BY <1>9 DEF Take, StepEnds, Said, SaidInv
<1>10. CASE Done
  BY <1>10 DEF Done, WalkEnds, StepEnds, SaidInv
<1>11. CASE UNCHANGED vars
  BY <1>11 DEF vars, walkVars, stepVars, SaidInv, Quiet, Here
<1> QED
  BY <1>1, <1>2, <1>3, <1>4, <1>5, <1>6, <1>7, <1>8, <1>9, <1>10, <1>11 DEF Next, Call, Run

\* For every machine whose nodes have at most one action that is run: walk returns
\* exactly what the actions of its transitions emitted, in order.
THEOREM NothingLost == ASSUME SingleActions PROVE Spec => []NothingSaidIsLost
<1>1. Init => SaidInv BY SaidInit
<1>2. IInv /\ SaidInv /\ [Next]_vars => SaidInv' BY SaidNext
<1>3. SaidInv => NothingSaidIsLost BY DEF SaidInv, NothingSaidIsLost
<1> QED BY <1>1, <1>2, <1>3, InvHolds, PTL DEF Spec

(***************************************************************************)
(* Walk implements Machine.                                                *)
(***************************************************************************)
\* Running an action, a pattern or a guard does not move the machine.
LEMMA NodeStays ==
  ASSUME IInv, Act \/ TryPattern \/ TryGuard
  PROVE  at'.node = at.node
<1>1. at.node \in DOMAIN Nodes
  BY DEF Act, TryPattern, TryGuard, IInv, InNode, InStep
<1>2. CASE Act
  <2>1. Here.actions[k].source \in Source
    BY <1>1, <1>2, NodeFacts DEF Act, Action, IInv, TypeOK
  <2>2. PICK o \in sandboxedAction(Here.actions[k].source, bs) \ {NullReply} :
          at' = IF o.ok THEN at ELSE Write(o.bs)
    BY <1>2 DEF Act
  <2>3. o.bs \in Bs
    BY <2>1, <2>2, SandboxFacts DEF IInv, TypeOK
  <2> QED BY <2>2, <2>3, WriteFacts DEF IInv
<1>3. CASE TryPattern
  <2>1. CanBranch /\ Here.branches[k].pattern \in Pattern
    BY <1>1, <1>3, NodeFacts DEF TryPattern, Branch, IInv, InBranches, InStep, TypeOK
  <2>2. Against(Here.branches[k].pattern).left \in Bs
    BY <2>1, AgainstFacts DEF MatchResult, IInv
  <2> QED BY <1>3, <2>2, WriteFacts DEF TryPattern, IInv
<1>4. CASE TryGuard
  <2>1. k \in 1 .. Len(Here.branches) /\ Here.branches[k].guard # None
    BY <1>4 DEF TryGuard, IInv, InBranch
  <2>2. Here.branches[k].guard.source \in Source
    BY <1>1, <2>1, NodeFacts DEF Branch, Guard, IInv
  <2>3. CASE UNCHANGED at
    BY <2>3
  <2>4. CASE \E o \in sandboxedAction(Here.branches[k].guard.source, bs) \ {NullReply} :
               at' = IF o.ok THEN at ELSE Write(o.bs)
    <3>1. PICK o \in sandboxedAction(Here.branches[k].guard.source, bs) \ {NullReply} :
            at' = IF o.ok THEN at ELSE Write(o.bs)
      BY <2>4
    <3>2. o.bs \in Bs
      BY <2>2, <3>1, SandboxFacts DEF IInv, TypeOK
    <3> QED BY <3>1, <3>2, WriteFacts DEF IInv
  <2> QED BY <1>4, <2>3, <2>4 DEF TryGuard
<1> QED BY <1>2, <1>3, <1>4

LEMMA AbstractInit == ASSUME Init PROVE Abstract!Init
BY StateAssumption DEF Init, Abstract!Init

LEMMA AbstractNext ==
  ASSUME IInv, UseInv, [Next]_vars
  PROVE  [Abstract!Next]_(Abstract!vars)
<1>1. ASSUME NEW m \in Message \cup {NoMessage}, Begin(m) PROVE Abstract!Receive
  BY <1>1 DEF Begin, stepVars, Abstract!Receive
<1>2. CASE Limited \/ Enter \/ Skip \/ Act \/ Branching \/ NoBranchLeft \/ Unconditional
             \/ TryPattern \/ TryGuard \/ TakeFails \/ NoReply
  <2>1. at'.node = at.node
    BY <1>2, NodeStays DEF Limited, Enter, Skip, Branching, NoBranchLeft, Unconditional,
                           TakeFails, NoReply, stepVars
  <2>2. UNCHANGED <<state, message, steps>>
    BY <1>2 DEF Limited, Enter, Skip, Act, Branching, NoBranchLeft, Unconditional,
                TryPattern, TryGuard, TakeFails, NoReply, walkVars
  <2>3. pc # "idle" /\ pc' # "idle"
    BY <1>2 DEF Limited, Enter, Skip, Act, Branching, NoBranchLeft, Unconditional,
                TryPattern, TryGuard, TakeFails, NoReply, Onward
  <2>4. pc \notin Throws
    BY <1>2 DEF Limited, Enter, Skip, Act, Branching, NoBranchLeft, Unconditional,
                TryPattern, TryGuard, TakeFails, NoReply
  <2>5. CASE pc' \in Throws
    BY <2>1, <2>2, <2>3, <2>4, <2>5 DEF Abstract!Next, Abstract!Break
  <2>6. CASE pc' \notin Throws
    BY <2>1, <2>2, <2>3, <2>4, <2>6 DEF Abstract!vars
  <2> QED BY <2>5, <2>6
<1>3. CASE Take
  <2>1. /\ at.node \in DOMAIN Nodes /\ steps < MaxSteps /\ CanBranch
        /\ k \in 1 .. Len(Here.branches)
    BY <1>3 DEF Take, IInv, InNode, InBranches, InBranch, InStep
  <2> DEFINE target == Here.branches[k].target
  <2>2. target \in Name /\ Here.branches \in Seq(Branch)
    BY <2>1, NodeFacts DEF Branch, IInv
  <2>3. Leads(at.node, target)
    BY <2>1, <2>2 DEF Leads, Here
  <2>4. <<at.node, target>> \in Edges
    BY <2>1, <2>2, <2>3 DEF Edges
  <2>5. at'.node = target
    BY <1>3 DEF Take
  <2>6. /\ pc # "idle" /\ pc \notin Throws
        /\ UNCHANGED <<state, pc # "idle", pc \in Throws>>
    <3>1. pc = "take" /\ pc' = "loop" BY <1>3 DEF Take
    <3>2. UNCHANGED <<pc # "idle", pc \in Throws>> BY <3>1
    <3> QED BY <1>3, <3>1, <3>2 DEF Take
  <2>7. steps' = steps + 1
    BY <1>3 DEF Take, StepsAfter
  <2>8. message' = LeftOver(message, Here.type = "message")
    BY <1>3 DEF Take
  <2>9. IF at.node \in {n \in DOMAIN Nodes : Nodes[n].type = "message"}
        THEN message # NoMessage /\ message' = NoMessage
        ELSE message' = message
    BY <2>1, <2>8 DEF LeftOver, CanBranch, Here
  <2>10. \E n \in Name : <<at.node, n>> \in Edges /\ at'.node = n
    BY <2>2, <2>4, <2>5
  <2>11. Abstract!Move
    BY <2>1, <2>6, <2>7, <2>9, <2>10 DEF Abstract!Move
  <2> QED BY <2>11 DEF Abstract!Next
<1>4. CASE Done
  BY <1>4 DEF Done, Return, Abort, WalkEnds, Abstract!Next, Abstract!Settle,
              Abstract!Fail, Abstract!Stop
<1>5. CASE UNCHANGED vars
  BY <1>5 DEF vars, walkVars, stepVars, Abstract!vars
<1> QED
  BY <1>1, <1>2, <1>3, <1>4, <1>5 DEF Next, Call, Run, Abstract!Next

\* For every machine: a walk is a run of the abstract machine.  It moves along
\* the edges of the specification, no more often than the limit, uses the message
\* only at listening nodes and only once, and when it throws the host's machine
\* stays where it was.
THEOREM Refinement == Spec => Abstract!Init /\ [][Abstract!Next]_(Abstract!vars)
<1>1. Init => Abstract!Init BY AbstractInit
<1>2. IInv /\ UseInv /\ [Next]_vars => [Abstract!Next]_(Abstract!vars) BY AbstractNext
<1>3. Spec => []UseInv
  <2>1. Init => UseInv BY UseInit
  <2>2. IInv /\ UseInv /\ [Next]_vars => UseInv' BY UseNext
  <2> QED BY <2>1, <2>2, InvHolds, PTL DEF Spec
<1> QED BY <1>1, <1>2, <1>3, InvHolds, PTL DEF Spec

(***************************************************************************)
(* Rest.  A walk that went nowhere is at a node whose actions it has all   *)
(* passed and whose branches need a message, or that has none.  This takes *)
(* a specification that always leaves its other nodes, and sources at the  *)
(* nodes it rests at that always reply.                                    *)
(***************************************************************************)
Open(b) == b.pattern = None /\ b.guard = None
Decided ==
  \A n \in DOMAIN Nodes : Nodes[n].type = "bindings" =>
    \E j \in 1 .. Len(Nodes[n].branches) : Open(Nodes[n].branches[j])
Replying ==
  \A n \in DOMAIN Nodes : \A j \in 1 .. Len(Nodes[n].actions) : \A b \in Binding :
    Nodes[n].type # "bindings" =>
      NullReply \notin Eval(Nodes[n].actions[j].source, b)

Known(n, j)  == Nodes[n].actions[j].interpreter # "unknown"
Resting(n)   == /\ n \in DOMAIN Nodes /\ Nodes[n].type # "bindings"
                /\ \A j \in 1 .. Len(Nodes[n].actions) : Known(n, j)
ActionsKnown ==
  /\ pc = "actions" => \A j \in 1 .. k - 1 : Known(at.node, j)
  /\ pc \in {"branches", "guard", "take"} =>
       \A j \in 1 .. Len(Here.actions) : Known(at.node, j)
OpenAhead ==
  pc \in {"branches", "guard"} /\ Here.type = "bindings" =>
    \E j \in k .. Len(Here.branches) : Open(Here.branches[j])
RestedWell ==
  /\ pc = "rested" => Resting(at.node)
  /\ pc \in {"idle", "loop"} => k = 1
  /\ pc = "idle" => steps = 0
  /\ resting => /\ Resting(at.node) /\ steps = 0
                /\ pc = "idle" \/ (message = NoMessage /\ pc \in {"loop", "actions", "rested"})
RestInv == ActionsKnown /\ OpenAhead /\ RestedWell

LEMMA RestInit == ASSUME Init PROVE RestInv
BY DEF Init, RestInv, ActionsKnown, OpenAhead, RestedWell

LEMMA RestNext ==
  ASSUME Decided, Replying, IInv, RestInv, [Next]_vars
  PROVE  RestInv'
<1> USE DEF RestInv
<1>0. k \in Nat \ {0} /\ at \in [node : Name, bs : Bs] /\ bs \in Bs
  BY DEF IInv, TypeOK
<1>1. ASSUME NEW m \in Message \cup {NoMessage}, Begin(m) PROVE RestInv'
  BY <1>1 DEF Begin, ActionsKnown, OpenAhead, RestedWell, stepVars
<1>2. CASE Limited
  <2>1. ~resting
    BY <1>2, MaxStepsAssumption DEF Limited, Limit, RestedWell
  <2> QED BY <1>2, <2>1 DEF Limited, ActionsKnown, OpenAhead, RestedWell, walkVars, stepVars
<1>3. CASE Enter
  <2>1. k' = 1 /\ UNCHANGED <<at, steps, message, resting>>
    BY <1>3 DEF Enter, walkVars, RestedWell
  <2>2. pc' \in {"actions", "nodeNotFound"} /\ (pc' = "nodeNotFound" => at.node \notin DOMAIN Nodes)
    BY <1>3 DEF Enter
  <2>3. resting => pc' = "actions" /\ message = NoMessage
    BY <1>3, <2>2 DEF Enter, RestedWell, Resting
  <2>4. RestedWell'
    BY <1>3, <2>1, <2>2, <2>3 DEF Enter, RestedWell, Resting, Known
  <2> QED BY <2>1, <2>2, <2>4 DEF ActionsKnown, OpenAhead
<1>4. CASE Skip
  <2>1. /\ UNCHANGED <<at, steps, message, resting>> /\ pc = "actions" /\ k <= Len(Here.actions)
        /\ \/ pc' = "badInterpreter" /\ ~Known(at.node, k)
           \/ pc' = "actions" /\ Known(at.node, k) /\ k' = k + 1
    BY <1>4 DEF Skip, walkVars, Known, Here
  <2>2. ~Known(at.node, k) => ~Resting(at.node)
    <3>1. at.node \in DOMAIN Nodes
      BY <2>1 DEF IInv, InNode, InStep
    <3>2. Here.actions \in Seq(Action)
      BY <3>1, NodeFacts DEF IInv
    <3>3. k \in 1 .. Len(Here.actions)
      BY <1>0, <2>1, <3>2
    <3> QED BY <3>3 DEF Resting, Here
  <2>3. ActionsKnown'
    BY <1>0, <2>1 DEF ActionsKnown, Known
  <2> QED BY <2>1, <2>2, <2>3 DEF OpenAhead, RestedWell, Resting, Known
<1>5. CASE Act
  <2>1. at'.node = at.node
    BY <1>5, NodeStays
  <2>2. /\ UNCHANGED <<pc, steps, message, resting>> /\ pc = "actions" /\ k' = k + 1
        /\ Known(at.node, k)
    BY <1>5 DEF Act, walkVars, Known, Here
  <2>3. ActionsKnown'
    BY <1>0, <2>1, <2>2 DEF ActionsKnown, Known
  <2> QED BY <2>1, <2>2, <2>3 DEF OpenAhead, RestedWell, Resting, Known
<1>6. CASE Branching
  <2>1. /\ UNCHANGED <<at, steps, message, resting>> /\ pc = "actions" /\ k > Len(Here.actions)
        /\ k' = 1 /\ pc' = IF CanBranch THEN "branches" ELSE "rested"
    BY <1>6 DEF Branching, walkVars
  <2>2. at.node \in DOMAIN Nodes
    BY <2>1 DEF IInv, InNode, InStep
  <2>3. Here.actions \in Seq(Action) /\ Here \in NodeType
    BY <2>2, NodeFacts DEF IInv
  <2>4. \A j \in 1 .. Len(Here.actions) : Known(at.node, j)
    BY <1>0, <2>1, <2>3 DEF ActionsKnown
  <2>5. CASE CanBranch
    <3>1. pc' = "branches" /\ Here' = Here
      BY <2>1, <2>5 DEF Here
    <3>2. ActionsKnown'
      BY <2>1, <2>4, <3>1 DEF ActionsKnown, Known
    <3>3. OpenAhead'
      BY <2>1, <2>2, <3>1 DEF OpenAhead, Decided, Here
    <3>4. ~resting
      BY <2>1, <2>3, <2>5 DEF CanBranch, RestedWell, Resting, Here, NodeType
    <3> QED BY <2>1, <3>1, <3>2, <3>3, <3>4 DEF RestedWell
  <2>6. CASE ~CanBranch
    <3>1. pc' = "rested"
      BY <2>1, <2>6
    <3>2. Resting(at.node)
      BY <2>2, <2>4, <2>6 DEF Resting, CanBranch, Here
    <3> QED BY <2>1, <3>1, <3>2 DEF ActionsKnown, OpenAhead, RestedWell, Resting, Known
  <2> QED BY <2>5, <2>6
<1>7. CASE NoBranchLeft
  <2>1. /\ UNCHANGED <<at, k, steps, message, resting>> /\ pc = "branches" /\ pc' = "rested"
        /\ k > Len(Here.branches)
    BY <1>7 DEF NoBranchLeft, walkVars, stepVars
  <2>2. at.node \in DOMAIN Nodes
    BY <2>1 DEF IInv, InNode, InStep
  <2>3. Here.branches \in Seq(Branch)
    BY <2>2, NodeFacts DEF IInv
  <2>4. Here.type # "bindings"
    BY <1>0, <2>1, <2>3 DEF OpenAhead
  <2>5. Resting(at.node)
    BY <2>1, <2>2, <2>4 DEF Resting, ActionsKnown, Here
  <2> QED BY <2>1, <2>5 DEF ActionsKnown, OpenAhead, RestedWell, Resting, Known
<1>8. CASE Unconditional
  <2>1. /\ UNCHANGED <<at, k, steps, message, resting>> /\ pc = "branches"
        /\ pc' \in {"guard", "take"}
    BY <1>8 DEF Unconditional, Onward, walkVars, stepVars
  <2>2. Here' = Here
    BY <2>1 DEF Here
  <2> QED BY <2>1, <2>2 DEF ActionsKnown, OpenAhead, RestedWell, Known
<1>9. CASE TryPattern \/ TryGuard
  <2>1. at'.node = at.node /\ UNCHANGED <<steps, message, resting>>
    BY <1>9, NodeStays DEF TryPattern, TryGuard, walkVars
  <2>2. Here' = Here
    BY <2>1 DEF Here
  <2>3. pc \in {"branches", "guard"} /\ ~resting
    BY <1>9 DEF TryPattern, TryGuard, RestedWell
  <2>4. at.node \in DOMAIN Nodes /\ Here.branches \in Seq(Branch)
    BY <2>3, NodeFacts DEF IInv, InNode, InStep
  <2>5. ~Open(Here.branches[k])
    BY <1>9 DEF TryPattern, TryGuard, Open, IInv, InBranch
  <2>6. \/ pc' \in {"matchThrew", "tooManyBindings", "badGuardInterpreter"}
        \/ pc' = "branches" /\ k' = k + 1
        \/ pc' \in {"guard", "take"} /\ k' = k
    BY <1>9 DEF TryPattern, TryGuard, Onward
  <2>7. OpenAhead'
    <3> SUFFICES ASSUME pc' \in {"branches", "guard"}, Here.type = "bindings"
                 PROVE  \E j \in k' .. Len(Here.branches) : Open(Here.branches[j])
      BY <2>2 DEF OpenAhead
    <3>1. PICK j \in k .. Len(Here.branches) : Open(Here.branches[j])
      BY <2>3 DEF OpenAhead
    <3>2. j # k /\ k' \in {k, k + 1}
      BY <2>5, <2>6, <3>1
    <3>3. j \in k' .. Len(Here.branches)
      BY <1>0, <2>4, <3>1, <3>2
    <3> QED BY <3>1, <3>3
  <2>8. ActionsKnown'
    BY <2>1, <2>2, <2>3, <2>6 DEF ActionsKnown, Known
  <2> QED BY <2>1, <2>3, <2>6, <2>7, <2>8 DEF RestedWell
<1>10. CASE Take
  BY <1>10 DEF Take, StepEnds, ActionsKnown, OpenAhead, RestedWell
<1>11. CASE TakeFails \/ NoReply
  <2>1. /\ UNCHANGED <<at, k, steps, message, resting>> /\ pc \in {"take", "guard", "actions"}
        /\ pc' \in {"typeError", "nullReply"}
    BY <1>11 DEF TakeFails, NoReply, walkVars, stepVars
  <2>2. ~resting
    <3> SUFFICES ASSUME resting PROVE FALSE
      OBVIOUS
    <3>1. pc = "actions" /\ Resting(at.node) /\ NoReply
      BY <1>11, <2>1 DEF RestedWell, TakeFails
    <3>2. k <= Len(Here.actions) /\ NullReply \in sandboxedAction(Here.actions[k].source, bs)
      BY <3>1 DEF NoReply, Running
    <3>3. at.node \in DOMAIN Nodes /\ Here.actions \in Seq(Action)
      BY <3>1, NodeFacts DEF IInv, Resting
    <3>4. k \in 1 .. Len(Here.actions)
      BY <1>0, <3>2, <3>3
    <3>5. Object(bs) \in Binding
      BY <1>0, StateAssumption DEF Object, Bs
    <3>6. NullReply \notin Eval(Here.actions[k].source, Object(bs))
      BY <3>1, <3>3, <3>4, <3>5 DEF Replying, Resting, Here
    <3>7. PICK r \in Eval(Here.actions[k].source, Object(bs)) :
            NullReply = IF r # NullReply /\ ~r.ok THEN Failed(Object(bs)) ELSE r
      BY <3>2 DEF sandboxedAction
    <3>8. NullReply = Failed(Object(bs))
      BY <3>6, <3>7
    <3>9. Failed(Object(bs)) \in Outcome
      BY <3>5, WithErrorAssumption DEF Failed, Outcome, Bs
    <3> QED BY <3>8, <3>9, StateAssumption
  <2> QED BY <2>1, <2>2 DEF ActionsKnown, OpenAhead, RestedWell
<1>12. CASE Done
  <2>1. pc' = "idle" /\ at' = state' /\ WalkEnds
    BY <1>12 DEF Done
  <2>2. k' = 1 /\ steps' = 0
    BY <2>1 DEF WalkEnds, StepEnds
  <2>3. resting' => Resting(at.node) /\ at' = at
    BY <1>12, <2>1 DEF Done, Return, Abort, RestedWell
  <2>4. resting' => Resting(at'.node)
    BY <2>3
  <2> QED BY <2>1, <2>2, <2>4 DEF ActionsKnown, OpenAhead, RestedWell, Resting, Known
<1>13. CASE UNCHANGED vars
  <2>1. UNCHANGED <<pc, at, k, steps, message, resting>>
    BY <1>13 DEF vars, walkVars, stepVars
  <2>2. Here' = Here
    BY <2>1 DEF Here
  <2> QED BY <2>1, <2>2 DEF ActionsKnown, OpenAhead, RestedWell, Resting, Known
<1> QED
  BY <1>1, <1>2, <1>3, <1>4, <1>5, <1>6, <1>7, <1>8, <1>9, <1>10, <1>11, <1>12, <1>13
     DEF Next, Call, Run

\* For every specification that leaves each of its nodes but those that wait for a
\* message, or have no branching, and whose sources always reply there: a walk that
\* stopped because it went nowhere has nothing left to do.
THEOREM RestsAreFinal == ASSUME Decided, Replying PROVE Spec => []RestIsFinal
<1>1. Init => RestInv BY RestInit
<1>2. IInv /\ RestInv /\ [Next]_vars => RestInv' BY RestNext
<1>3. RestInv => RestIsFinal BY DEF RestInv, RestedWell, RestIsFinal, Throws
<1> QED BY <1>1, <1>2, <1>3, InvHolds, PTL DEF Spec

(***************************************************************************)
(* The end of a walk.  What is left of it is the steps to the limit, then  *)
(* the phases of the step, then the actions, or the branches and guards,   *)
(* still to be tried; each step of walk leaves less, in the lexicographic  *)
(* order, which is well-founded.                                           *)
(***************************************************************************)
StepsLeft == IF pc = "idle" THEN 0 ELSE MaxSteps + 1 - steps
PhasesLeft ==
  IF pc = "loop" THEN 4
  ELSE IF pc = "actions" THEN 3
  ELSE IF pc \in {"branches", "guard"} THEN 2
  ELSE IF pc = "take" THEN 1 ELSE 0
TriesLeft ==
  IF pc = "actions" THEN Len(Here.actions) + 1 - k
  ELSE IF pc = "branches" THEN 2 * (Len(Here.branches) + 1 - k) + 1
  ELSE IF pc = "guard" THEN 2 * (Len(Here.branches) + 1 - k) ELSE 0
Left == [j \in 1 .. 3 |-> IF j = 1 THEN StepsLeft ELSE IF j = 2 THEN PhasesLeft ELSE TriesLeft]

NatLess == {ss \in Nat \X Nat : ss[1] < ss[2]}
Less    == LexProductOrdering(NatLess, Nat, 3)

\* No walk can leave less and less for ever.
LEMMA LessIsWellFounded == IsWellFoundedOn(Less, [1 .. 3 -> Nat])
<1>1. NatLess = OpToRel(<, Nat)
  BY Zenon DEF NatLess, OpToRel
<1>2. IsWellFoundedOn(NatLess, Nat)
  BY <1>1, NatLessThanWellFounded, Zenon
<1> QED BY <1>2, WFLexProductOrdering DEF Less

LEMMA LessLeft ==
  ASSUME NEW r \in [1 .. 3 -> Nat], NEW s \in [1 .. 3 -> Nat],
         \/ r[1] < s[1]
         \/ r[1] = s[1] /\ r[2] < s[2]
         \/ r[1] = s[1] /\ r[2] = s[2] /\ r[3] < s[3]
  PROVE  <<r, s>> \in Less
<1> DEFINE ff == <<r, s>>
<1>1. ff \in [1 .. 3 -> Nat] \X [1 .. 3 -> Nat] /\ ff[1] = r /\ ff[2] = s
  OBVIOUS
<1>2. \A j \in 1 .. 3 : r[j] < s[j] => <<r[j], s[j]>> \in NatLess
  BY DEF NatLess
<1>3. \E j \in 1 .. 3 : /\ \A i \in 1 .. (j - 1) : r[i] = s[i]
                        /\ r[j] < s[j]
  <2>1. CASE r[1] < s[1]
    BY <2>1
  <2>2. CASE r[1] = s[1] /\ r[2] < s[2]
    <3>1. \A i \in 1 .. (2 - 1) : r[i] = s[i]
      BY <2>2
    <3> QED BY <2>2, <3>1
  <2>3. CASE r[1] = s[1] /\ r[2] = s[2] /\ r[3] < s[3]
    <3>1. \A i \in 1 .. (3 - 1) : r[i] = s[i]
      BY <2>3
    <3> QED BY <2>3, <3>1
  <2> QED BY <2>1, <2>2, <2>3
<1> QED BY <1>1, <1>2, <1>3 DEF Less, LexProductOrdering

\* Within a step k is never further than one behind the last action, or branch.
Within ==
  /\ pc \in {"idle", "loop"} => k = 1
  /\ pc = "actions" => k <= Len(Here.actions) + 1
  /\ pc \in {"branches", "guard"} => k <= Len(Here.branches) + 1

\* The steps of a step, by what they do to the three parts.
LEMMA WithinNext == ASSUME IInv, Within, [Next]_vars PROVE Within'
<1>0. k \in Nat \ {0}
  BY DEF IInv, TypeOK
<1>1. CASE \E m \in Message \cup {NoMessage} : Begin(m)
  BY <1>1 DEF Begin, Within, stepVars
<1>2. CASE Limited \/ NoBranchLeft \/ TakeFails \/ NoReply
  BY <1>2 DEF Limited, NoBranchLeft, TakeFails, NoReply, Within
<1>3. CASE Enter
  <2>1. k' = 1 /\ at' = at /\ pc' \in {"actions", "nodeNotFound"}
        /\ (pc' = "actions" => at.node \in DOMAIN Nodes)
    BY <1>3 DEF Enter, Within
  <2>2. at.node \in DOMAIN Nodes => Len(Here.actions) \in Nat
    BY NodeFacts, LenProperties DEF IInv
  <2> QED BY <2>1, <2>2 DEF Within, Here
<1>4. CASE Skip
  <2>1. at.node \in DOMAIN Nodes /\ at' = at /\ pc' \in {"actions", "badInterpreter"}
        /\ k <= Len(Here.actions) /\ (pc' = "actions" => k' = k + 1)
    BY <1>4 DEF Skip, IInv, InNode, InStep
  <2>2. Len(Here.actions) \in Nat
    BY <2>1, NodeFacts, LenProperties DEF IInv
  <2> QED BY <1>0, <2>1, <2>2 DEF Within, Here
<1>5. CASE Act
  <2>1. at.node \in DOMAIN Nodes /\ at'.node = at.node /\ pc' = "actions"
        /\ k <= Len(Here.actions) /\ k' = k + 1
    BY <1>5, NodeStays DEF Act, IInv, InNode, InStep
  <2>2. Len(Here.actions) \in Nat
    BY <2>1, NodeFacts, LenProperties DEF IInv
  <2> QED BY <1>0, <2>1, <2>2 DEF Within, Here
<1>6. CASE Branching
  <2>1. at.node \in DOMAIN Nodes /\ at' = at /\ pc' \in {"branches", "rested"} /\ k' = 1
    BY <1>6 DEF Branching, IInv, InNode, InStep
  <2>2. Len(Here.branches) \in Nat
    BY <2>1, NodeFacts, LenProperties DEF IInv
  <2> QED BY <2>1, <2>2 DEF Within, Here
<1>7. CASE Unconditional \/ TryPattern \/ TryGuard
  <2>1. at'.node = at.node
    BY <1>7, NodeStays DEF Unconditional, stepVars
  <2>2. pc \in {"branches", "guard"} /\ at.node \in DOMAIN Nodes
    BY <1>7 DEF Unconditional, TryPattern, TryGuard, IInv, InNode, InStep
  <2>3. Here.branches \in Seq(Branch) /\ Len(Here.branches) \in Nat
    BY <2>2, NodeFacts, LenProperties DEF IInv
  <2>4. k <= Len(Here.branches)
    BY <1>7, <2>3 DEF Unconditional, TryPattern, TryGuard, IInv, InBranch
  <2>5. \/ pc' = "branches" /\ k' = k + 1
        \/ pc' = "guard" /\ k' = k
        \/ pc' \in {"take", "matchThrew", "tooManyBindings", "badGuardInterpreter"}
    BY <1>7 DEF Unconditional, TryPattern, TryGuard, Onward, stepVars
  <2> QED BY <1>0, <2>1, <2>3, <2>4, <2>5 DEF Within, Here
<1>8. CASE Take
  BY <1>8 DEF Take, StepEnds, Within
<1>9. CASE Done
  BY <1>9 DEF Done, WalkEnds, StepEnds, Within
<1>10. CASE UNCHANGED vars
  BY <1>10 DEF vars, walkVars, stepVars, Within, Here
<1> QED
  BY <1>1, <1>2, <1>3, <1>4, <1>5, <1>6, <1>7, <1>8, <1>9, <1>10 DEF Next, Call, Run

LEMMA LeftIsNatural == ASSUME IInv, Within PROVE Left \in [1 .. 3 -> Nat]
<1>0. k \in Nat \ {0} /\ steps \in 0 .. MaxSteps
  BY DEF IInv, TypeOK
<1>1. StepsLeft \in Nat
  BY <1>0, MaxStepsAssumption DEF StepsLeft
<1>2. PhasesLeft \in Nat
  BY DEF PhasesLeft
<1>3. TriesLeft \in Nat
  <2>1. CASE pc \in {"actions", "branches", "guard"}
    <3>1. at.node \in DOMAIN Nodes
      BY <2>1 DEF IInv, InNode, InStep
    <3>2. Len(Here.actions) \in Nat /\ Len(Here.branches) \in Nat
      BY <3>1, NodeFacts, LenProperties DEF IInv
    <3> QED BY <1>0, <2>1, <3>2 DEF TriesLeft, Within
  <2>2. CASE pc \notin {"actions", "branches", "guard"}
    BY <2>2 DEF TriesLeft
  <2> QED BY <2>1, <2>2
<1> QED BY <1>1, <1>2, <1>3 DEF Left

LEMMA RunLeavesLess ==
  ASSUME IInv, Within, Left \in [1 .. 3 -> Nat], Left' \in [1 .. 3 -> Nat], Run
  PROVE  <<Left', Left>> \in Less
<1>0. k \in Nat \ {0} /\ steps \in 0 .. MaxSteps /\ MaxSteps \in Nat \ {0}
  BY MaxStepsAssumption DEF IInv, TypeOK
<1>1. /\ Left[1] = StepsLeft /\ Left[2] = PhasesLeft /\ Left[3] = TriesLeft
      /\ Left'[1] = StepsLeft' /\ Left'[2] = PhasesLeft' /\ Left'[3] = TriesLeft'
  BY DEF Left
<1> SUFFICES \/ StepsLeft' < StepsLeft
             \/ StepsLeft' = StepsLeft /\ PhasesLeft' < PhasesLeft
             \/ StepsLeft' = StepsLeft /\ PhasesLeft' = PhasesLeft /\ TriesLeft' < TriesLeft
  BY <1>1, LessLeft
<1>2. CASE Limited \/ Enter \/ Branching \/ NoBranchLeft \/ TakeFails \/ NoReply
  <2>1. steps' = steps /\ pc # "idle" /\ pc' # "idle"
    BY <1>2 DEF Limited, Enter, Branching, NoBranchLeft, TakeFails, NoReply, walkVars
  <2>2. \/ pc = "loop" /\ pc' \in {"actions", "limited", "nodeNotFound"}
        \/ pc = "actions" /\ pc' \in {"branches", "rested", "nullReply"}
        \/ pc \in {"branches", "guard"} /\ pc' \in {"rested", "nullReply"}
        \/ pc = "take" /\ pc' = "typeError"
    BY <1>2 DEF Limited, Enter, Branching, NoBranchLeft, TakeFails, NoReply
  <2>3. PhasesLeft' < PhasesLeft
    BY <2>2 DEF PhasesLeft
  <2> QED BY <2>1, <2>3 DEF StepsLeft
<1>3. CASE Skip \/ Act
  <2>1. steps' = steps /\ pc = "actions" /\ at'.node = at.node /\ at.node \in DOMAIN Nodes
        /\ \/ pc' = "badInterpreter"
           \/ pc' = "actions" /\ k' = k + 1
    BY <1>3, NodeStays DEF Skip, Act, walkVars, IInv, InNode, InStep
  <2>2. Here' = Here /\ Len(Here.actions) \in Nat
    BY <2>1, NodeFacts, LenProperties DEF Here, IInv
  <2>3. StepsLeft' = StepsLeft
    BY <2>1 DEF StepsLeft
  <2>4. CASE pc' = "badInterpreter"
    BY <2>1, <2>3, <2>4 DEF PhasesLeft
  <2>5. CASE pc' = "actions" /\ k' = k + 1
    <3>1. PhasesLeft' = PhasesLeft
      BY <2>1, <2>5 DEF PhasesLeft
    <3>2. TriesLeft' < TriesLeft
      <4> DEFINE n == Len(Here.actions)
      <4>1. TriesLeft = n + 1 - k
        BY <2>1 DEF TriesLeft
      <4>2. TriesLeft' = n + 1 - (k + 1)
        BY <2>2, <2>5 DEF TriesLeft
      <4>3. n \in Nat
        BY <2>2
      <4> HIDE DEF n
      <4> QED BY <1>0, <4>1, <4>2, <4>3
    <3> QED BY <2>3, <3>1, <3>2
  <2> QED BY <2>1, <2>4, <2>5
<1>4. CASE Unconditional \/ TryPattern \/ TryGuard
  <2>1. steps' = steps /\ at'.node = at.node /\ at.node \in DOMAIN Nodes
        /\ pc \in {"branches", "guard"} /\ pc' # "idle"
    BY <1>4, NodeStays DEF Unconditional, TryPattern, TryGuard, Onward, walkVars, stepVars,
                           IInv, InNode, InStep
  <2>2. Here' = Here /\ Len(Here.branches) \in Nat
    BY <2>1, NodeFacts, LenProperties DEF Here, IInv
  <2>3. \/ pc' = "branches" /\ k' = k + 1
        \/ pc = "branches" /\ pc' = "guard" /\ k' = k
        \/ pc' \in {"take", "matchThrew", "tooManyBindings", "badGuardInterpreter"}
    BY <1>4 DEF Unconditional, TryPattern, TryGuard, Onward, stepVars
  <2>4. StepsLeft' = StepsLeft
    BY <2>1 DEF StepsLeft
  <2>5. CASE pc' \in {"take", "matchThrew", "tooManyBindings", "badGuardInterpreter"}
    <3>1. PhasesLeft' < PhasesLeft
      BY <2>1, <2>5 DEF PhasesLeft
    <3> QED BY <2>4, <3>1
  <2>6. CASE pc' \in {"branches", "guard"}
    <3>1. PhasesLeft' = PhasesLeft
      BY <2>1, <2>6 DEF PhasesLeft
    <3>2. TriesLeft' < TriesLeft
      <4> DEFINE n == Len(Here.branches)
      <4>1. \/ pc = "branches" /\ TriesLeft = 2 * (n + 1 - k) + 1
            \/ pc = "guard" /\ TriesLeft = 2 * (n + 1 - k)
        BY <2>1 DEF TriesLeft
      <4>2. \/ pc' = "branches" /\ TriesLeft' = 2 * (n + 1 - k') + 1
            \/ pc' = "guard" /\ TriesLeft' = 2 * (n + 1 - k')
        BY <2>2, <2>6 DEF TriesLeft
      <4>3. n \in Nat
        BY <2>2
      <4> HIDE DEF n
      <4>4. CASE pc' = "branches" /\ k' = k + 1
        BY <1>0, <4>1, <4>2, <4>3, <4>4
      <4>5. CASE pc = "branches" /\ pc' = "guard" /\ k' = k
        BY <1>0, <4>1, <4>2, <4>3, <4>5
      <4> QED BY <2>3, <2>6, <4>4, <4>5
    <3> QED BY <2>4, <3>1, <3>2
  <2> QED BY <2>3, <2>5, <2>6
<1>5. CASE Take
  <2>1. pc = "take" /\ pc' = "loop" /\ steps' = steps + 1 /\ steps < MaxSteps
    BY <1>5 DEF Take, StepsAfter, IInv, InNode, InStep
  <2> QED BY <1>0, <2>1 DEF StepsLeft
<1>6. CASE Done
  <2>1. pc' = "idle" /\ pc # "idle"
    BY <1>6 DEF Done, Return, Abort
  <2> QED BY <1>0, <2>1 DEF StepsLeft
<1> QED BY <1>2, <1>3, <1>4, <1>5, <1>6 DEF Run

\* Whatever the machine, every step of a walk leaves less of it than there was, so
\* that no walk goes on for ever: the limit, the actions and the branches bound it.
THEOREM WalksRunOut ==
  Spec => [](Left \in [1 .. 3 -> Nat]) /\ [][Run => <<Left', Left>> \in Less]_vars
<1>1. Init => Within
  BY DEF Init, Within
<1>2. IInv /\ Within /\ [Next]_vars => Within' BY WithinNext
<1>3. IInv /\ Within => Left \in [1 .. 3 -> Nat] BY LeftIsNatural
<1>4. IInv /\ Within /\ Left \in [1 .. 3 -> Nat] /\ (Left \in [1 .. 3 -> Nat])' /\ [Next]_vars
        => [Run => <<Left', Left>> \in Less]_vars
  BY RunLeavesLess
<1>5. Spec => []Within
  BY <1>1, <1>2, InvHolds, PTL DEF Spec
<1> QED BY <1>3, <1>4, <1>5, InvHolds, PTL DEF Spec
=============================================================================
