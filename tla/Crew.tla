-------------------------------- MODULE Crew --------------------------------
(***************************************************************************)
(* A crew of machines and the host that runs it: SetMachine, RemMachine,   *)
(* CrewProcess, CrewUpdate and GetEmitted (driver.js), what mach_* makes   *)
(* of their results (machines.c), and the loop of sheensio.c, which gives  *)
(* the crew one message after another.  Between messages the host may      *)
(* change the crew as demo.c does.                                         *)
(*                                                                         *)
(* The host holds texts.  A crew is the sequence of its machines, in the   *)
(* order of the properties of its JavaScript object.  An exception is a    *)
(* text too, with MACH_OKAY: as steppeds it is ErrorText, and as a crew it *)
(* is JSON without machines.                                               *)
(***************************************************************************)
EXTENDS Integers, Sequences, FiniteSets

CONSTANTS
  Id,            \* the ids of machines
  Ref,           \* the names of specifications
  Node, Bs,      \* the nodes and the bindings machines can be in
  Message,       \* the messages the host reads, see MessageAssumption
  Emission,      \* what machines emit
  Start,         \* the crews the host starts with
  Fresh,         \* the states it sets machines to
  Everyone,      \* the property "to" of a message is absent, or falsy
  Unusable,      \* a line that is not JSON, or null
  NoMachines,    \* the value undefined of crew.machines
  ErrorText,     \* {"err":...,"errstr":...}
  Empty,         \* a destination without a message
  Threw,         \* walk throws
  Most,          \* max_emitted
  MaxMachines,   \* bound: how many machines a crew gets
  Lookup(_),     \* Lookup(ref): what GetSpec can do
  Walk(_, _, _)  \* Walk(ref, s, m): what walk can do from the state s

State    == [node : Node, bs : Bs]
Machine  == [id : Id, spec : Ref, node : Node, bs : Bs]
Walked   == [to : State, emitted : Seq(Emission), left : Bs]
Stepped  == [id : Id, to : State, emitted : Seq(Emission)]
CrewText == Seq(Machine) \cup {NoMachines}

ASSUME NamesAssumption ==
  /\ NoMachines \notin Seq(Machine)
  /\ ErrorText \notin Seq(Stepped)
  /\ Everyone \notin Seq(Id)
  /\ Empty \notin Emission
  /\ Threw \notin Walked
  /\ Most \in Nat
ASSUME MessageAssumption ==
  \A m \in Message : m = Unusable \/ m.to \in Seq(Id) \cup {Everyone}
ASSUME StartAssumption ==
  /\ Start \subseteq CrewText
  /\ \A c \in Start \ {NoMachines} : \A i, j \in DOMAIN c : c[i].id = c[j].id => i = j
ASSUME FreshAssumption == Fresh \subseteq State
ASSUME LookupAssumption == \A ref \in Ref : Lookup(ref) \subseteq {"spec", "thrown", "exit"}
ASSUME WalkAssumption ==
  \A ref \in Ref, s \in State, m \in Message \ {Unusable} :
    Walk(ref, s, m) \subseteq Walked \cup {Threw}

VARIABLES
  pc,         \* where the host is
  crew,       \* its crew
  message,    \* the line it read last
  steppeds,   \* what mach_crew_process wrote last
  slots,      \* the destinations of mach_get_emitted
  said,       \* what the host printed for the last message
  rc,         \* the last return code
  targets, i, \* targets and i of CrewProcess
  machines,   \* crew.machines of CrewProcess
  text        \* steppeds of CrewProcess

callVars == <<targets, i, machines, text>>
hostVars == <<crew, message, steppeds, slots, said, rc>>
vars     == <<pc, hostVars, callVars>>

NoCall == targets' = <<>> /\ i' = 1 /\ machines' = NoMachines /\ text' = <<>>

Init ==
  /\ crew \in Start
  /\ pc = "idle"
  /\ message = Unusable
  /\ steppeds = <<>>
  /\ slots = [j \in 1 .. Most |-> Empty]
  /\ said = <<>>
  /\ rc = "okay"
  /\ targets = <<>> /\ i = 1 /\ machines = NoMachines /\ text = <<>>

Ids(c)       == IF c = NoMachines THEN {} ELSE {c[j].id : j \in DOMAIN c}
Place(c, id) == CHOOSE j \in DOMAIN c : c[j].id = id
StateOf(mc)  == [node |-> mc.node, bs |-> mc.bs]

(***************************************************************************)
(* SetMachine and RemMachine, with the host's copy of the result.  Their   *)
(* results fit, as those of demo.c do.                                     *)
(***************************************************************************)
SetMachine(id, ref, s) ==
  LET mc == [id |-> id, spec |-> ref, node |-> s.node, bs |-> s.bs]
  IN /\ pc = "idle"
     /\ \/ id \in Ids(crew) /\ crew' = [crew EXCEPT ![Place(crew, id)] = mc]
        \/ /\ id \notin Ids(crew) /\ crew # NoMachines /\ Len(crew) < MaxMachines
           /\ crew' = Append(crew, mc)
        \/ crew = NoMachines /\ crew' = <<mc>>
     /\ rc' = "okay"
     /\ UNCHANGED <<pc, message, steppeds, slots, said, callVars>>

Without(c, p) == [j \in 1 .. Len(c) - 1 |-> IF j < p THEN c[j] ELSE c[j + 1]]
RemMachine(id) ==
  /\ pc = "idle"
  /\ crew' = IF id \in Ids(crew) THEN Without(crew, Place(crew, id)) ELSE crew
  /\ rc' = "okay"
  /\ UNCHANGED <<pc, message, steppeds, slots, said, callVars>>

(***************************************************************************)
(* CrewProcess.                                                            *)
(***************************************************************************)
\* "to" names one machine or several; without it the message is for all.
Targets(m, c) ==
  IF m.to # Everyone THEN m.to
  ELSE IF c = NoMachines THEN <<>> ELSE [j \in DOMAIN c |-> c[j].id]

\* The host reads a line and calls mach_crew_process.
Receive(m) ==
  /\ pc = "idle"
  /\ message' = m
  /\ \/ /\ m = Unusable
        /\ pc' = "written" /\ text' = ErrorText
        /\ UNCHANGED <<targets, i, machines>>
     \/ /\ m # Unusable
        /\ pc' = "walking" /\ text' = <<>>
        /\ targets' = Targets(m, crew) /\ i' = 1 /\ machines' = crew
  /\ UNCHANGED <<crew, steppeds, slots, said, rc>>

AtTarget == pc = "walking" /\ i <= Len(targets)
mach_afresh == crew[Place(crew, targets[i])]
mach == machines[Place(machines, targets[i])]

Skip ==
  /\ AtTarget
  /\ machines # NoMachines
  /\ targets[i] \notin Ids(machines)
  /\ i' = i + 1
  /\ UNCHANGED <<pc, targets, machines, text, hostVars>>

\* steppeds[mid] = walk(...): a machine named again keeps its place.
Put(t, id, r) ==
  LET s == [id |-> id, to |-> r.to, emitted |-> r.emitted]
  IN IF \E j \in DOMAIN t : t[j].id = id
     THEN [j \in DOMAIN t |-> IF t[j].id = id THEN s ELSE t[j]]
     ELSE Append(t, s)

\* walk can write into the bindings it is given, which are the crew's own.
Process ==
  /\ AtTarget
  /\ targets[i] \in Ids(machines)
  /\ "spec" \in Lookup(mach.spec)
  /\ \E r \in Walk(mach.spec, StateOf(mach), message) \ {Threw} :
       /\ text' = Put(text, targets[i], r)
       /\ machines' = [machines EXCEPT ![Place(machines, targets[i])].bs = r.left]
  /\ i' = i + 1
  /\ UNCHANGED <<pc, targets, hostVars>>

\* Something throws: the results so far are gone.
Thrown_partial(t) == t
Thrown(t) == ErrorText
Throw ==
  /\ AtTarget
  /\ \/ machines = NoMachines
     \/ /\ targets[i] \in Ids(machines)
        /\ \/ "thrown" \in Lookup(mach.spec)
           \/ /\ "spec" \in Lookup(mach.spec)
              /\ Threw \in Walk(mach.spec, StateOf(mach), message)
  /\ text' = Thrown(text)
  /\ pc' = "written"
  /\ UNCHANGED <<targets, i, machines, hostVars>>

\* The provider cannot read the file.
ProviderExits ==
  /\ AtTarget
  /\ targets[i] \in Ids(machines)
  /\ "exit" \in Lookup(mach.spec)
  /\ pc' = "exited"
  /\ UNCHANGED <<hostVars, callVars>>

AllProcessed ==
  /\ pc = "walking" /\ i > Len(targets)
  /\ pc' = "written"
  /\ UNCHANGED <<hostVars, callVars>>

(***************************************************************************)
(* The host: every call that does not return MACH_OKAY makes it exit.      *)
(***************************************************************************)
Onward(code, next) == IF code = "okay" THEN next ELSE "exited"

\* getResult: any result may be too big, and all others are okay.
Result(fits) == IF fits THEN "okay" ELSE "tooBig"

ProcessReturns ==
  /\ pc = "written"
  /\ \E fits \in BOOLEAN :
       /\ rc' = Result(fits)
       /\ steppeds' = IF fits THEN text ELSE steppeds
       /\ pc' = Onward(Result(fits), "processed")
  /\ NoCall
  /\ UNCHANGED <<crew, message, slots, said>>

\* GetEmitted: all that the machines emitted, in the order of the steppeds.
GetEmitted(t) ==
  LET upTo[n \in 0 .. Len(t)] == IF n = 0 THEN <<>> ELSE upTo[n - 1] \o t[n].emitted
  IN upTo[Len(t)]

\* mach_get_emitted copies the first n of them and clears the other destinations.
Copied_only(all, n, old) == [j \in 1 .. Most |-> IF j <= n THEN all[j] ELSE old[j]]
Copied(all, n, old) == [j \in 1 .. Most |-> IF j <= n THEN all[j] ELSE Empty]

\* An exception is an error here, and a message that is too big stops the copying.
\* No more than Most messages are modelled.
GetEmittedFails_okay == "okay"
GetEmittedFails == "sad"
EmittedReturns ==
  /\ pc = "processed"
  /\ \/ /\ steppeds = ErrorText
        /\ rc' = GetEmittedFails
        /\ UNCHANGED slots
     \/ /\ steppeds # ErrorText
        /\ LET all == GetEmitted(steppeds)
           IN /\ Len(all) <= Most
              /\ \E n \in 0 .. Len(all) :
                   /\ slots' = Copied(all, n, slots)
                   /\ rc' = Result(n = Len(all))
  /\ pc' = Onward(rc', "emitted")
  /\ UNCHANGED <<crew, message, steppeds, said, callVars>>

Spoken_all(all) == all
Spoken(all) ==
  LET upTo[j \in 0 .. Most] == IF j = 0 THEN <<>>
                               ELSE IF all[j] = Empty THEN upTo[j - 1]
                               ELSE Append(upTo[j - 1], all[j])
  IN upTo[Most]
Say ==
  /\ pc = "emitted"
  /\ said' = Spoken(slots)
  /\ pc' = "said"
  /\ UNCHANGED <<crew, message, steppeds, slots, rc, callVars>>

\* The round is over: the texts that nothing reads again are dropped.
\* CrewUpdate throws when there is an entry without a state, or without its
\* machine.
Entry(id) == CHOOSE j \in DOMAIN steppeds : steppeds[j].id = id
Moved_node(mc, s) == [mc EXCEPT !.node = s.node]
Moved(mc, s) == [mc EXCEPT !.node = s.node, !.bs = s.bs]
Updatable ==
  /\ steppeds # ErrorText
  /\ \A j \in DOMAIN steppeds : steppeds[j].id \in Ids(crew)
Updated ==
  IF crew = NoMachines THEN NoMachines
  ELSE [j \in DOMAIN crew |->
          IF \E n \in DOMAIN steppeds : steppeds[n].id = crew[j].id
          THEN Moved(crew[j], steppeds[Entry(crew[j].id)].to)
          ELSE crew[j]]
CrewUpdate == IF Updatable THEN Updated ELSE NoMachines

UpdateReturns ==
  /\ pc = "said"
  /\ \E fits \in BOOLEAN :
       /\ rc' = Result(fits)
       /\ crew' = IF fits THEN CrewUpdate ELSE crew
       /\ pc' = Onward(Result(fits), "idle")
  /\ message' = Unusable /\ steppeds' = <<>> /\ said' = <<>>
  /\ UNCHANGED <<slots, callVars>>

\* The end of the process.
Exited == pc = "exited" /\ UNCHANGED vars

Change == \/ \E id \in Id, ref \in Ref, s \in Fresh : SetMachine(id, ref, s)
          \/ \E id \in Id : RemMachine(id)
Call   == \E m \in Message : Receive(m)
Run    == \/ Skip \/ Process \/ Throw \/ ProviderExits \/ AllProcessed
          \/ ProcessReturns \/ EmittedReturns \/ Say \/ UpdateReturns
Next   == Change \/ Call \/ Run \/ Exited

\* The host runs in one thread, and walk always ends: WalksEnd of Walk.
Spec == Init /\ [][Next]_vars /\ WF_vars(Run)

(***************************************************************************)
(* Properties.                                                             *)
(***************************************************************************)
TypeOK ==
  /\ pc \in {"idle", "walking", "written", "processed", "emitted", "said", "exited"}
  /\ crew \in CrewText
  /\ message \in Message \cup {Unusable}
  /\ steppeds \in Seq(Stepped) \cup {ErrorText}
  /\ slots \in [1 .. Most -> Emission \cup {Empty}]
  /\ said \in Seq(Emission)
  /\ rc \in {"okay", "sad", "tooBig"}
  /\ targets \in Seq(Id)
  /\ i \in Nat \ {0}
  /\ machines \in CrewText
  /\ text \in Seq(Stepped) \cup {ErrorText}

Addressed(m) == IF m.to = Everyone THEN Ids(crew) ELSE {m.to[j] : j \in DOMAIN m.to}

\* When mach_crew_process has returned steppeds they are those of the machines
\* the message is for, all of them and each once: however "to" repeats names or
\* names nobody, and whichever machines fail.
Routed ==
  (pc = "processed" /\ steppeds # ErrorText) =>
    /\ {steppeds[j].id : j \in DOMAIN steppeds} = Addressed(message) \cap Ids(crew)
    /\ \A j, n \in DOMAIN steppeds : steppeds[j].id = steppeds[n].id => j = n

\* What the host prints for a message is what the machines it was for emitted
\* for it, in order, without anything left from an earlier message.
SaidIsEmitted ==
  (pc = "said" /\ steppeds # ErrorText) => said = GetEmitted(steppeds)

\* Processing a message never costs the crew a machine, or the machine its
\* specification: not even a message that makes a machine throw.
Shape(c) == IF c = NoMachines THEN c ELSE [j \in DOMAIN c |-> <<c[j].id, c[j].spec>>]
CrewKept == [][pc # "idle" => Shape(crew') = Shape(crew)]_vars

\* The machines that a message is for move to where walk took them from the
\* state that the crew had them in, and the others stay as they are.  A machine
\* named twice is walked twice, the second time with the bindings that the first
\* walk may have written into, and only the second counts.
NamedOnce(id) == message.to = Everyone \/ \A j, n \in DOMAIN message.to :
                   message.to[j] = id /\ message.to[n] = id => j = n
Delivered ==
  [][pc = "said" /\ pc' = "idle" /\ crew # NoMachines =>
       \A j \in DOMAIN crew :
         IF crew[j].id \in Addressed(message)
         THEN NamedOnce(crew[j].id) =>
                \E r \in Walk(crew[j].spec, StateOf(crew[j]), message) \ {Threw} :
                  StateOf(crew'[j]) = r.to
         ELSE crew'[j] = crew[j]]_vars

\* A machine is walked as often as the message names it, each time from its node
\* with the bindings that the walk before may have written into.  Outcomes(mc, m)
\* gives what the k-th of these walks can return; the last is the answer.
Times(m, id) ==
  IF m.to = Everyone THEN 1 ELSE Cardinality({j \in DOMAIN m.to : m.to[j] = id})
Outcomes(mc, m) ==
  LET walks[k \in 0 .. Times(m, mc.id)] ==
        IF k = 0 THEN {[to |-> StateOf(mc), emitted |-> <<>>, left |-> mc.bs]}
        ELSE UNION {Walk(mc.spec, [node |-> mc.node, bs |-> r.left], m) \ {Threw} : r \in walks[k - 1]}
  IN walks
LastOutcomes(m, mc) == Outcomes(mc, m)[Times(m, mc.id)]
Reaches(m, ids) ==
  IF m.to = Everyone THEN ids ELSE {m.to[j] : j \in DOMAIN m.to} \cap ids

\* A message is one round of an abstract crew: all machines it reaches answer, and
\* what is printed and where they move come of the same answers, or the host gives
\* up and none has moved.  Whatever the message and the machines, names that are
\* not in the crew included, the host is done with it in the end.
ById(c)    == [id \in Ids(c) |-> c[Place(c, id)]]
RoundNow   == CASE pc = "idle" -> "idle" [] pc = "said" -> "told"
                [] pc = "exited" -> "over" [] OTHER -> "asked"
MessageNow == IF RoundNow \in {"asked", "told"} THEN message ELSE Unusable
AnswersNow == IF pc = "said" THEN steppeds ELSE <<>>
Abstract   == INSTANCE Rounds
  WITH Nothing <- Unusable, Start <- {ById(c) : c \in Start},
       For <- Reaches, Answers <- LastOutcomes, Moved <- Moved,
       crew <- ById(crew), round <- RoundNow, message <- MessageNow,
       answers <- AnswersNow, printed <- said
Implements == Abstract!Spec
=============================================================================
