------------------------------ MODULE Machine ------------------------------
(***************************************************************************)
(* What a machine promises to its host, without bindings, patterns or      *)
(* actions.  A host offers a machine at most one message at a time.  The   *)
(* machine moves along the edges of its specification, uses the message    *)
(* at a listening node and at most once, makes a bounded number of moves,  *)
(* and either settles where it stands or fails and stays where it was.     *)
(* Walk implements this module: PROPERTY Implements of Walk.               *)
(***************************************************************************)
EXTENDS Integers

CONSTANTS Node, Listening, Edge, Message, NoMessage, MaxMoves

VARIABLES committed,   \* the node the host knows of
          here,        \* the node the machine stands at
          pending,     \* the message not used yet
          moves,       \* the moves made for this message
          busy,        \* a message is being processed
          failed       \* its processing cannot go on

vars == <<committed, here, pending, moves, busy, failed>>

Init ==
  /\ committed \in Node
  /\ here = committed
  /\ pending = NoMessage
  /\ moves = 0
  /\ busy = FALSE
  /\ failed = FALSE

Receive ==
  /\ ~busy
  /\ busy' = TRUE
  /\ pending' \in Message \cup {NoMessage}
  /\ UNCHANGED <<committed, here, moves, failed>>

Move ==
  /\ busy
  /\ ~failed
  /\ moves < MaxMoves
  /\ \E n \in Node : <<here, n>> \in Edge /\ here' = n
  /\ IF here \in Listening
     THEN pending # NoMessage /\ pending' = NoMessage
     ELSE pending' = pending
  /\ moves' = moves + 1
  /\ UNCHANGED <<committed, busy, failed>>

Break ==
  /\ busy
  /\ ~failed
  /\ failed' = TRUE
  /\ UNCHANGED <<committed, here, pending, moves, busy>>

Stop ==
  /\ busy
  /\ busy' = FALSE
  /\ pending' = NoMessage
  /\ moves' = 0
  /\ failed' = FALSE

Settle == Stop /\ ~failed /\ committed' = here /\ here' = here
Fail   == Stop /\ failed /\ committed' = committed /\ here' = committed

Next == Receive \/ Move \/ Break \/ Settle \/ Fail

\* A machine that has been offered a message is eventually done with it.
Spec == Init /\ [][Next]_vars /\ WF_vars(Settle \/ Fail)
=============================================================================
