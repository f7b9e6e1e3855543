----------------------------- MODULE MCShipped -----------------------------
(***************************************************************************)
(* The four machines of specs/ under walk, each of them offered the        *)
(* messages of all.                                                        *)
(***************************************************************************)
EXTENDS Specs, Matching

Names   == DOMAIN Shipped
Starts  == {[node |-> "double.start",    bs |-> Count :> Num(0)],
            [node |-> "turnstile.start", bs |-> NoBinding],
            [node |-> "latch.start",     bs |-> NoBinding]}
             \cup {[node |-> "ladder.start", bs |-> Rung :> Num(r)] : r \in 0 .. MaxCount}

Asked    == {Num(1), Str("1"), Str("a"), Bool(TRUE)}
Inputs   == {Input(s) : s \in {"coin", "push", "up", "down", "fall", "tick"}}
Messages == Inputs \cup {Obj(<<Entry(Str("double"), v)>>) : v \in Asked}
Patterns == Inputs \cup {DoubleX}
Counts   == {Num(n) : n \in Lowest .. MaxCount}
Bindings ==
  {NoBinding} \cup {Rung :> c : c \in Counts} \cup {Count :> c : c \in Counts}
    \cup {VarX :> v : v \in Asked} \cup {(VarX :> v) @@ (Rung :> c) : v \in Asked, c \in Counts}
    \cup {(VarX :> v) @@ (Count :> c) : v \in Asked, c \in Counts}

\* No shipped source throws and no shipped branch matches on bindings.
Same(b) == b
MatchMessage(p, m, b) ==
  IF b = NoBs THEN [Matched(p, m, NoBinding) EXCEPT !.left = NoBs, !.same = FALSE]
              ELSE Matched(p, m, b)
MatchNothing(p, a, b) == [threw |-> FALSE, bss |-> <<>>, left |-> b, same |-> FALSE]
=============================================================================
