------------------------------- MODULE MCCrew -------------------------------
(***************************************************************************)
(* Crew with two machines, a third name that no machine has at first, and  *)
(* machines that count: "go" moves a machine on and makes it speak, "note" *)
(* makes it write into its bindings without a transition, and "fail" makes *)
(* it throw when its bindings are not clean.  The specification "shaky"    *)
(* can be unreadable, missing or fine, from one look-up to the next.       *)
(***************************************************************************)
EXTENDS Crew, TLC

Lookups(ref) == IF ref = "shaky" THEN {"spec", "thrown", "exit"} ELSE {"spec"}

Other(n) == IF n = "rest" THEN "work" ELSE "rest"
Walks(ref, s, m) ==
  CASE m.body = "go" ->
         {[to |-> [node |-> Other(s.node), bs |-> b],
           emitted |-> IF b = s.bs THEN <<s.node>> ELSE <<s.node, s.node>>,
           left |-> s.bs] : b \in IF ref = "steady" THEN {s.bs} ELSE {0, 1}}
    [] m.body = "note" ->
         {[to |-> [node |-> s.node, bs |-> 1], emitted |-> <<>>, left |-> 1]}
    [] OTHER ->
         IF s.bs = 0
         THEN {[to |-> [node |-> s.node, bs |-> 1], emitted |-> <<>>, left |-> 1]}
         ELSE {Threw}

CONSTANTS a, b, c
Orders   == {<<a>>, <<b, c>>, <<c, a>>, <<a, a>>, <<>>}
Messages == {Unusable}
  \cup {[to |-> t, body |-> y] : t \in Orders \cup {Everyone}, y \in {"go", "note", "fail"}}

Crew0 == <<[id |-> a, spec |-> "steady", node |-> "rest", bs |-> 0],
           [id |-> b, spec |-> "shaky", node |-> "rest", bs |-> 0]>>
Starts == {<<>>, NoMachines, Crew0}
Said   == {"rest", "work"}
First  == {[node |-> "rest", bs |-> 0]}
=============================================================================
