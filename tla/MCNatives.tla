----------------------------- MODULE MCNatives ------------------------------
(***************************************************************************)
(* Natives with arrays of three and four elements, some of sixteen, and    *)
(* answers of up to three bytes.                                           *)
(***************************************************************************)
EXTENDS Natives, TLC

n(h) == [kind |-> "number", halves |-> h]
Elements == {n(-1), n(0), n(3), n(510), n(512), [kind |-> "other"]}
Long(e)  == [j \in 1 .. 16 |-> IF j = 16 THEN e ELSE n(2 * j)]
NaNs     == {<<n(0), n(0), n(0), [kind |-> "nan"]>>}
Several  == [1 .. 4 -> Elements] \cup [1 .. 3 -> Elements] \cup {Long(e) : e \in Elements}
            \cup NaNs \cup {NotArray, <<>>}
Invalid  == {<<n(3), [kind |-> "nan"], n(6)>>}

CONSTANTS x, nul
Pieces   == {<<x>>, <<nul>>, <<x, nul>>, <<x, x>>}
=============================================================================
