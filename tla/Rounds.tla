------------------------------- MODULE Rounds -------------------------------
(***************************************************************************)
(* What a crew promises its host, without texts, loops, destinations or    *)
(* return codes.  A message is for some of the machines.  Either each of   *)
(* those answers it, the host prints what all of them emitted, and the     *)
(* crew has all of them where their answers took them; or the host gives   *)
(* up, before it printed or after, and none has moved.  What is printed    *)
(* and where the machines go come of the same answers.  Crew implements    *)
(* this module: PROPERTY Implements of Crew.                               *)
(***************************************************************************)
EXTENDS Integers, Sequences

CONSTANTS
  Machine,          \* machines, which know their ids
  Message,
  Nothing,          \* no message is being processed
  Start,            \* the crews to start with: functions from ids to machines
  For(_, _),        \* For(m, ids): those of the machines ids that m is for
  Answers(_, _),    \* Answers(m, mc): how the machine mc can answer m
  Moved(_, _)       \* Moved(mc, to): mc, moved to the state "to"

VARIABLES
  crew,       \* the machines, by id
  round,      \* "idle", "asked", "told"; "over" when the host has given up
  message,
  answers,    \* those that were printed, in the order in which they were
  printed

vars == <<crew, round, message, answers, printed>>

Init ==
  /\ crew \in Start
  /\ round = "idle"
  /\ message = Nothing
  /\ answers = <<>>
  /\ printed = <<>>

Set(mc) ==
  /\ round = "idle"
  /\ crew' = [id \in DOMAIN crew \cup {mc.id} |-> IF id = mc.id THEN mc ELSE crew[id]]
  /\ UNCHANGED <<round, message, answers, printed>>

Remove(id) ==
  /\ round = "idle"
  /\ crew' = [x \in DOMAIN crew \ {id} |-> crew[x]]
  /\ UNCHANGED <<round, message, answers, printed>>

Ask(m) ==
  /\ round = "idle"
  /\ round' = "asked"
  /\ message' = m
  /\ UNCHANGED <<crew, answers, printed>>

\* Every machine that the message is for has one answer, and no other has.
Complete(as) ==
  /\ {as[j].id : j \in DOMAIN as} = For(message, DOMAIN crew)
  /\ \A j, n \in DOMAIN as : as[j].id = as[n].id => j = n
  /\ \A j \in DOMAIN as : \E r \in Answers(message, crew[as[j].id]) :
       as[j].to = r.to /\ as[j].emitted = r.emitted

Joined(as) ==
  LET upTo[n \in 0 .. Len(as)] == IF n = 0 THEN <<>> ELSE upTo[n - 1] \o as[n].emitted
  IN upTo[Len(as)]

Tell ==
  /\ round = "asked"
  /\ round' = "told"
  /\ Complete(answers')
  /\ printed' = Joined(answers')
  /\ UNCHANGED <<crew, message>>

Stop == message' = Nothing /\ answers' = <<>> /\ printed' = <<>>

\* The crew after the answers as.
Entry(as, id) == CHOOSE j \in DOMAIN as : as[j].id = id
After(as) ==
  [id \in DOMAIN crew |-> IF \E j \in DOMAIN as : as[j].id = id
                          THEN Moved(crew[id], as[Entry(as, id)].to)
                          ELSE crew[id]]
Move ==
  /\ round = "told"
  /\ round' = "idle"
  /\ crew' = After(answers)
  /\ Stop

GiveUp ==
  /\ round \in {"asked", "told"}
  /\ round' = "over"
  /\ Stop
  /\ UNCHANGED crew

Next ==
  \/ \E mc \in Machine : Set(mc) \/ Remove(mc.id)
  \/ \E m \in Message : Ask(m)
  \/ Tell \/ Move \/ GiveUp

\* A message that was asked is done with, one way or the other.
Spec == Init /\ [][Next]_vars /\ WF_vars(Move \/ GiveUp)
=============================================================================
