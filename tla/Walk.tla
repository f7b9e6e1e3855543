-------------------------------- MODULE Walk --------------------------------
(***************************************************************************)
(* walk, step and sandboxedAction (js/step.js, js/sandbox.js): how one     *)
(* machine processes one message after another.  The host (driver.js)      *)
(* holds the machine's state between walks; a walk that returns gives it   *)
(* the next state, a walk that throws leaves it with the old one.          *)
(*                                                                         *)
(* Two JavaScript objects of bindings matter: at.bs, which the host will   *)
(* get back, and the local variable bs.  A step starts with both being the *)
(* same object (shared = TRUE), and match and sandboxedAction can write    *)
(* into the object they are given, so that at.bs can change although the   *)
(* step makes no transition.                                               *)
(***************************************************************************)
EXTENDS Integers, Sequences

CONSTANTS
  Nodes,       \* spec.nodes: a function from names to nodes, see NodeType
  Name,        \* the names of nodes, of which some are branch targets only
  Start,       \* the states [node, bs] a host starts machines in
  Binding,     \* the values of bindings, of which
  EmptyBs,     \*   {} is one
  NoBs,        \* what is falsy and not bindings: undefined, null, ""
  Message,     \* the messages a host presents, and
  NoMessage,   \*   null
  Source,      \* the sources of actions and guards
  Pattern,     \* the patterns of branches
  None,        \* a branch without a pattern, or without a guard
  Emission,    \* what an action can emit
  Undefined,   \* the undefined value
  NullReply,   \* the null that JSON.parse made of what the sandbox returned
  MaxSteps,    \* ctx.MaxSteps, or its default
  Eval(_, _),  \* Eval(src, bs): the outcomes of running src on bs
  Match(_, _, _),  \* Match(p, m, bs): what match says of p against a message
  MatchBs(_, _, _),  \* MatchBs(p, a, bs): what it says of p against bindings a
  WithError(_)     \* WithError(bs): bs with its property "error" set

Bs          == Binding \cup {NoBs}
Emitted     == Seq(Emission) \cup {Undefined}
Outcome     == [ok : BOOLEAN, bs : Bs, emitted : Emitted]
MatchResult == [threw : BOOLEAN, bss : Seq(Binding), left : Bs, same : BOOLEAN]

Interpreter == {"alias", "unknown", "none"}
Action   == [interpreter : Interpreter, source : Source]
Guard    == [interpreter : Interpreter, source : Source]
Branch   == [pattern : Pattern \cup {None}, guard : Guard \cup {None}, target : Name]
NodeType == [actions : Seq(Action), type : {"message", "bindings", "absent"},
             branches : Seq(Branch)]

ASSUME NodesAssumption ==
  /\ DOMAIN Nodes \subseteq Name
  /\ \A n \in DOMAIN Nodes : Nodes[n] \in NodeType
ASSUME StateAssumption ==
  /\ Start \subseteq [node : Name, bs : Bs]
  /\ EmptyBs \in Binding
  /\ NoBs \notin Binding
  /\ NoMessage \notin Message
  /\ Undefined \notin Seq(Emission)
  /\ NullReply \notin Outcome
ASSUME MaxStepsAssumption == MaxSteps \in Nat \ {0}
ASSUME EvalAssumption ==
  \A src \in Source, b \in Binding : Eval(src, b) \subseteq Outcome \cup {NullReply}
ASSUME MatchAssumption ==
  \A p \in Pattern, b \in Bs :
    /\ \A a \in Bs : MatchBs(p, a, b) \in MatchResult
    /\ \A m \in Message : Match(p, m, b) \in MatchResult
ASSUME WithErrorAssumption == \A b \in Binding : WithError(b) \in Binding

VARIABLES
  state,      \* the state the host holds
  pc,         \* where the walk is
  steps,      \* i of walk
  at,         \* stepped.to
  message,    \* the message, null once it is consumed
  consumed,   \* consumed of walk
  emitted,    \* emitted of walk
  k,          \* the next action, or branch, of step
  bs,         \* bs of step
  shared,     \* bs and at.bs are the same object
  against,    \* against of step, at nodes that do not listen
  reading,    \* bs and against are the same object
  out,        \* emitted of step
  voiced,     \* history: all that the step's actions emitted
  said,       \* history: all that the actions of steps with a transition emitted
  uses,       \* history: transitions out of message nodes in this walk
  resting     \* history: the previous walk stopped because it went nowhere

walkVars == <<state, steps, message, consumed, emitted, said, uses, resting>>
stepVars == <<at, k, bs, shared, against, reading, out, voiced>>
vars     == <<pc, walkVars, stepVars>>

Rests  == {"rested", "limited"}
Throws == {"nodeNotFound", "badInterpreter", "matchThrew", "tooManyBindings",
           "badGuardInterpreter", "nullReply", "typeError"}
Inner  == {"loop", "actions", "branches", "guard", "take"}

Init ==
  /\ state \in Start
  /\ at = state
  /\ pc = "idle"
  /\ resting = FALSE
  /\ k = 1 /\ bs = NoBs /\ shared = FALSE /\ against = NoBs /\ reading = FALSE
  /\ out = <<>> /\ voiced = <<>>
  /\ steps = 0 /\ message = NoMessage /\ consumed = FALSE /\ emitted = <<>>
  /\ said = <<>> /\ uses = 0

\* The local variables of step, and of walk, when the call is over.
StepEnds ==
  /\ k' = 1 /\ bs' = NoBs /\ shared' = FALSE /\ against' = NoBs /\ reading' = FALSE
  /\ out' = <<>> /\ voiced' = <<>>
WalkEnds ==
  /\ StepEnds
  /\ steps' = 0 /\ message' = NoMessage /\ consumed' = FALSE /\ emitted' = <<>>
  /\ said' = <<>> /\ uses' = 0

(***************************************************************************)
(* walk.                                                                   *)
(***************************************************************************)
\* The host calls walk (Process, or CrewProcess for one machine).
Begin(m) ==
  /\ pc = "idle"
  /\ pc' = "loop"
  /\ message' = m
  /\ resting' = (resting /\ m = NoMessage)
  /\ UNCHANGED <<state, steps, consumed, emitted, said, uses, stepVars>>

\* i == maxSteps: stoppedBecause = "limited".
Limit_late == MaxSteps + 1
Limit == MaxSteps
Limited_asRest ==
  /\ pc = "loop"
  /\ steps = Limit
  /\ pc' = "rested"
  /\ UNCHANGED <<walkVars, stepVars>>
Limited ==
  /\ pc = "loop"
  /\ steps = Limit
  /\ pc' = "limited"
  /\ UNCHANGED <<walkVars, stepVars>>

\* step looks its node up.
Enter ==
  /\ pc = "loop"
  /\ steps < Limit
  /\ IF at.node \in DOMAIN Nodes
     THEN pc' = "actions" /\ bs' = at.bs /\ shared' = TRUE
     ELSE pc' = "nodeNotFound" /\ UNCHANGED <<bs, shared>>
  /\ UNCHANGED <<walkVars, at, k, against, reading, out, voiced>>

(***************************************************************************)
(* sandboxedAction: the outcomes of running src on the bindings b.  A      *)
(* source that throws has b itself returned, with an error set in it, and  *)
(* nothing emitted: the property "emitted" of the result is undefined.     *)
(*                                                                         *)
(* The sandbox returns what was thrown as a text, which is taken for a     *)
(* reply when it is JSON: null, or a value without properties, whose       *)
(* bindings and emissions are undefined, or one with some.                 *)
(***************************************************************************)
Object(b) == IF b = NoBs THEN EmptyBs ELSE b
Failed(b) == [ok |-> FALSE, bs |-> WithError(b), emitted |-> Undefined]
sandboxedAction(src, b) ==
  {IF o # NullReply /\ ~o.ok THEN Failed(Object(b)) ELSE o : o \in Eval(src, Object(b))}

\* at, when b is written into the object bs.
Write(b) == IF shared /\ bs # NoBs THEN [at EXCEPT !.bs = b] ELSE at

(***************************************************************************)
(* step.                                                                   *)
(***************************************************************************)
Here == Nodes[at.node]

\* What the emissions of one action do to those of the step: replace them.
Accumulate(e, o) == o.emitted

\* An action without a known interpreter: an unknown one throws, and an action
\* without any is a log line.
Skip ==
  /\ pc = "actions" /\ k <= Len(Here.actions)
  /\ Here.actions[k].interpreter # "alias"
  /\ IF Here.actions[k].interpreter = "unknown"
     THEN pc' = "badInterpreter" /\ UNCHANGED k
     ELSE k' = k + 1 /\ UNCHANGED pc
  /\ UNCHANGED <<walkVars, at, bs, shared, against, reading, out, voiced>>

Act ==
  /\ pc = "actions" /\ k <= Len(Here.actions)
  /\ Here.actions[k].interpreter = "alias"
  /\ \E o \in sandboxedAction(Here.actions[k].source, bs) \ {NullReply} :
       /\ out' = Accumulate(out, o)
       /\ voiced' = IF o.emitted # Undefined THEN voiced \o o.emitted ELSE voiced
       /\ bs' = o.bs
       /\ at' = IF o.ok THEN at ELSE Write(o.bs)
       /\ shared' = (shared /\ ~o.ok /\ bs # NoBs)
  /\ k' = k + 1
  /\ UNCHANGED <<walkVars, pc, against, reading>>

\* Branching: nothing to branch on is no transition, and so is a node that
\* listens when there is no message.  What a node that does not listen matches
\* its patterns against is fixed here, before the branches replace bs.
CanBranch == /\ Here.type # "absent"
             /\ Here.type = "message" => message # NoMessage
Branching ==
  /\ pc = "actions" /\ k > Len(Here.actions)
  /\ IF CanBranch
     THEN pc' = "branches" /\ against' = bs /\ reading' = TRUE
     ELSE pc' = "rested" /\ UNCHANGED <<against, reading>>
  /\ k' = 1
  /\ UNCHANGED <<walkVars, at, bs, shared, out, voiced>>

NoBranchLeft ==
  /\ pc = "branches" /\ k > Len(Here.branches)
  /\ pc' = "rested"
  /\ UNCHANGED <<walkVars, stepVars>>

\* Where the walk goes with a branch whose pattern matched.
Onward(b) == IF b.guard = None THEN "take" ELSE "guard"

Unconditional ==
  /\ pc = "branches" /\ k <= Len(Here.branches)
  /\ Here.branches[k].pattern = None
  /\ pc' = Onward(Here.branches[k])
  /\ UNCHANGED <<walkVars, stepVars>>

\* match writes what it leaves behind into bs, and its first result can be
\* that very object.
Against(p) == IF Here.type = "message" THEN Match(p, message, bs) ELSE MatchBs(p, against, bs)
TryPattern ==
  /\ pc = "branches" /\ k <= Len(Here.branches)
  /\ Here.branches[k].pattern # None
  /\ \E x \in {Against(Here.branches[k].pattern)} :
        /\ at' = Write(x.left)
        /\ against' = IF reading THEN x.left ELSE against
        /\ \/ /\ x.threw
              /\ pc' = "matchThrew" /\ bs' = x.left /\ UNCHANGED <<k, shared, reading>>
           \/ /\ ~x.threw /\ x.bss = <<>>
              /\ bs' = x.left /\ k' = k + 1 /\ UNCHANGED <<pc, shared, reading>>
           \/ /\ ~x.threw /\ Len(x.bss) > 1
              /\ pc' = "tooManyBindings" /\ bs' = x.left /\ UNCHANGED <<k, shared, reading>>
           \/ /\ ~x.threw /\ Len(x.bss) = 1
              /\ pc' = Onward(Here.branches[k]) /\ bs' = x.bss[1] /\ UNCHANGED k
              /\ shared' = (shared /\ x.same) /\ reading' = (reading /\ x.same)
  /\ UNCHANGED <<walkVars, out, voiced>>

\* A guard that returns nothing rejects the branch; the next one is tried with
\* the bindings that the rejected one made.  A guard that fails lets it pass.
TryGuard ==
  /\ pc = "guard"
  /\ LET guard == Here.branches[k].guard
     IN \/ /\ guard.interpreter # "alias"
           /\ pc' = "badGuardInterpreter"
           /\ UNCHANGED <<at, k, bs, shared>>
        \/ /\ guard.interpreter = "alias"
           /\ \E o \in sandboxedAction(guard.source, bs) \ {NullReply} :
                /\ at' = IF o.ok THEN at ELSE Write(o.bs)
                /\ IF o.bs = NoBs
                   THEN pc' = "branches" /\ k' = k + 1 /\ UNCHANGED <<bs, shared>>
                   ELSE /\ pc' = "take" /\ bs' = o.bs /\ UNCHANGED k
                        /\ shared' = (shared /\ ~o.ok /\ bs # NoBs)
  /\ UNCHANGED <<walkVars, against, reading, out, voiced>>

\* evaled.bs of null is a TypeError, in an action and in a guard.
Running == IF pc = "guard" THEN Here.branches[k].guard ELSE Here.actions[k]
NoReply ==
  /\ pc = "guard" \/ (pc = "actions" /\ k <= Len(Here.actions))
  /\ Running.interpreter = "alias"
  /\ NullReply \in sandboxedAction(Running.source, bs)
  /\ pc' = "nullReply"
  /\ UNCHANGED <<walkVars, stepVars>>

\* step returns a transition to walk, which adds its emissions to the others,
\* counts it, and gives the message up when it was consumed.
Said_last(all, new) == new
Said(all, new) == all \o new
StepsAfter_same(i) == i
StepsAfter(i) == i + 1
LeftOver_all(m, listening) == m
LeftOver(m, listening) == IF listening THEN NoMessage ELSE m
Take ==
  /\ pc = "take"
  /\ out # Undefined
  /\ LET listening == Here.type = "message"
     IN /\ message' = LeftOver(message, listening)
        /\ consumed' = (consumed \/ listening)
        /\ uses' = IF listening THEN uses + 1 ELSE uses
  /\ at' = [node |-> Here.branches[k].target, bs |-> bs]
  /\ emitted' = Said(emitted, out)
  /\ said' = said \o voiced
  /\ steps' = StepsAfter(steps)
  /\ pc' = "loop"
  /\ StepEnds
  /\ UNCHANGED <<state, resting>>

\* stepped.emitted.length of undefined is a TypeError.
TakeFails ==
  /\ pc = "take"
  /\ out = Undefined
  /\ pc' = "typeError"
  /\ UNCHANGED <<walkVars, stepVars>>

(***************************************************************************)
(* Back in the host.                                                       *)
(***************************************************************************)
\* walk returns, and the host keeps the state it returned.
Return ==
  /\ pc \in Rests
  /\ state' = at
  /\ resting' = (pc = "rested")

\* walk throws, and the host keeps what it had.
Abort_keeping ==
  /\ pc \in Throws
  /\ state' = at
  /\ resting' = FALSE
Abort ==
  /\ pc \in Throws
  /\ UNCHANGED state
  /\ resting' = FALSE

Done ==
  /\ Return \/ Abort
  /\ pc' = "idle"
  /\ at' = state'
  /\ WalkEnds

Call  == \E m \in Message \cup {NoMessage} : Begin(m)
Run   == \/ Limited \/ Enter
         \/ Skip \/ Act \/ NoReply \/ Branching \/ NoBranchLeft
         \/ Unconditional \/ TryPattern \/ TryGuard
         \/ Take \/ TakeFails
         \/ Done
Next  == Call \/ Run

\* One thread runs a walk to its end; nothing interrupts it.  Every source is
\* taken to return: the sandbox has no timeout.
Spec == Init /\ [][Next]_vars /\ WF_vars(Run)

(***************************************************************************)
(* Properties.                                                             *)
(***************************************************************************)
TypeOK ==
  /\ state \in [node : Name, bs : Bs]
  /\ pc \in {"idle"} \cup Inner \cup Rests \cup Throws
  /\ steps \in 0 .. MaxSteps
  /\ at \in [node : Name, bs : Bs]
  /\ message \in Message \cup {NoMessage}
  /\ consumed \in BOOLEAN
  /\ emitted \in Seq(Emission)
  /\ k \in Nat \ {0}
  /\ bs \in Bs
  /\ shared \in BOOLEAN
  /\ against \in Bs
  /\ reading \in BOOLEAN
  /\ out \in Emitted
  /\ voiced \in Seq(Emission)
  /\ said \in Seq(Emission)
  /\ uses \in Nat
  /\ resting \in BOOLEAN

\* A message makes the machine leave a listening node at most once per walk,
\* however many such nodes the walk crosses, and the walk reports exactly that
\* as consumed ("we consumed the pending message; don't use it again").
MessageUsedOnce ==
  /\ uses <= 1
  /\ consumed <=> uses = 1
  /\ uses = 1 => message = NoMessage

\* What the actions of a step with a transition emitted is in what walk
\* returns, in order, and nothing else is: not what the actions of the last
\* step said, which went nowhere and will be run again by the next walk.
NothingSaidIsLost == emitted = said

\* A walk that stopped because it went nowhere has nothing left to do: the next
\* walk without a message makes no transition and does not throw ("walk advances
\* from the given state as far as possible").
RestIsFinal == (resting /\ pc # "idle") => (steps = 0 /\ pc \notin Throws)

\* An action that fails leaves a binding for its error, and the branches of
\* its node can deal with it: no step whose branch matched makes walk throw.
BranchesDealWithErrors == pc # "typeError"

\* Every walk ends, whatever loops the machine's specification has.
WalksEnd == (pc # "idle") ~> (pc = "idle")

\* A walk is one message offered to an abstract machine: moves along edges
\* only, the message used at listening nodes only and once, a failure that
\* leaves the machine where the host has it.
Leads(n, m) == \E j \in DOMAIN Nodes[n].branches : Nodes[n].branches[j].target = m
Edges == {e \in (DOMAIN Nodes) \X Name : Leads(e[1], e[2])}
Abstract == INSTANCE Machine
  WITH Node <- Name, Listening <- {n \in DOMAIN Nodes : Nodes[n].type = "message"},
       Edge <- Edges, MaxMoves <- MaxSteps,
       committed <- state.node, here <- at.node, pending <- message,
       moves <- steps, busy <- (pc # "idle"), failed <- (pc \in Throws)
Implements == Abstract!Spec
=============================================================================
