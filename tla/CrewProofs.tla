----------------------------- MODULE CrewProofs -----------------------------
(***************************************************************************)
(* Proofs about Crew, for all crews, messages, specifications and limits:  *)
(* a message reaches the machines it is for (Routed), moves them where     *)
(* walk took them (Delivered), and costs the crew none of them (CrewKept). *)
(***************************************************************************)
EXTENDS Crew, SequenceTheorems, WellFoundedInduction, TLAPS

\* Crews and steppeds are sequences of records with ids.
Named(t)    == {t[j].id : j \in DOMAIN t}
Distinct(t) == \A j, n \in DOMAIN t : t[j].id = t[n].id => j = n

\* The text t holds what every machine the message is for came to.
Whole(t) == Named(t) = Addressed(message) \cap Ids(crew) /\ Distinct(t)

Types ==
  /\ crew \in CrewText
  /\ message \in Message \cup {Unusable}
  /\ steppeds \in Seq(Stepped) \cup {ErrorText}
  /\ targets \in Seq(Id)
  /\ i \in Nat \ {0}
  /\ machines \in CrewText
  /\ text \in Seq(Stepped) \cup {ErrorText}
NoTwins == crew # NoMachines => Distinct(crew)
InCall ==
  pc = "walking" =>
    /\ message # Unusable
    /\ text # ErrorText
    /\ targets = Targets(message, crew)
    /\ Ids(machines) = Ids(crew)
    /\ i <= Len(targets) + 1
    /\ Distinct(text)
    /\ Named(text) = {targets[j] : j \in 1 .. i - 1} \cap Ids(crew)
AfterCall ==
  (pc = "written" /\ text # ErrorText) => Whole(text)
InHost ==
  /\ (pc \in {"processed", "emitted", "said"} /\ steppeds # ErrorText) => Whole(steppeds)
  /\ pc \in {"emitted", "said"} => steppeds # ErrorText
Inv == Types /\ NoTwins /\ InCall /\ AfterCall /\ InHost

(***************************************************************************)
(* Lemmas about the operators.                                             *)
(***************************************************************************)
\* A function on 1 .. n is a sequence.
LEMMA IsSeq ==
  ASSUME NEW S, NEW n \in Nat, NEW f, f = [j \in 1 .. n |-> f[j]],
         \A j \in 1 .. n : f[j] \in S
  PROVE  f \in Seq(S) /\ Len(f) = n
OBVIOUS

\* The place of an id is where it is.
LEMMA PlaceIsThere ==
  ASSUME NEW c \in Seq(Machine), NEW id \in Ids(c)
  PROVE  Place(c, id) \in DOMAIN c /\ c[Place(c, id)].id = id
<1>1. \E j \in DOMAIN c : c[j].id = id
  BY NamesAssumption DEF Ids
<1> QED BY <1>1 DEF Place

\* Removing one machine leaves a crew without twins.
LEMMA Removing ==
  ASSUME NEW c \in Seq(Machine), NEW p \in DOMAIN c, Distinct(c)
  PROVE  Without(c, p) \in Seq(Machine) /\ Distinct(Without(c, p))
<1> DEFINE w == Without(c, p)
<1>1. Len(c) \in Nat /\ DOMAIN c = 1 .. Len(c) /\ Len(c) - 1 \in Nat
  OBVIOUS
<1>2. \A j \in 1 .. Len(c) - 1 : w[j] = IF j < p THEN c[j] ELSE c[j + 1]
  BY DEF Without
<1>3. \A j \in 1 .. Len(c) - 1 : w[j] \in Machine
  BY <1>1, <1>2
<1>4. w = [j \in 1 .. Len(c) - 1 |-> w[j]]
  BY DEF Without
<1>5. w \in Seq(Machine) /\ Len(w) = Len(c) - 1
  <2> HIDE DEF w
  <2> QED BY <1>1, <1>3, <1>4, IsSeq
<1>6. DOMAIN w = 1 .. Len(c) - 1
  BY DEF Without
<1>7. Distinct(w)
  <2> SUFFICES ASSUME NEW j \in DOMAIN w, NEW n \in DOMAIN w, w[j].id = w[n].id
               PROVE  j = n
    BY DEF Distinct
  <2>1. j \in 1 .. Len(c) - 1 /\ n \in 1 .. Len(c) - 1
    BY <1>6
  <2> DEFINE at(x) == IF x < p THEN x ELSE x + 1
  <2>2. at(j) \in DOMAIN c /\ at(n) \in DOMAIN c
    BY <2>1, <1>1
  <2>3. w[j] = c[at(j)] /\ w[n] = c[at(n)]
    BY <2>1, <1>2
  <2>4. at(j) = at(n)
    <3> HIDE DEF at, w
    <3> QED BY <2>2, <2>3 DEF Distinct
  <2>5. p \in Int
    BY <1>1
  <2> QED BY <2>1, <2>4, <2>5
<1> QED BY <1>5, <1>7

\* Setting a machine in place, and adding one.
LEMMA Setting ==
  ASSUME NEW c \in Seq(Machine), Distinct(c), NEW mc \in Machine
  PROVE  /\ mc.id \in Ids(c) => /\ [c EXCEPT ![Place(c, mc.id)] = mc] \in Seq(Machine)
                                /\ Distinct([c EXCEPT ![Place(c, mc.id)] = mc])
         /\ mc.id \notin Ids(c) => Append(c, mc) \in Seq(Machine) /\ Distinct(Append(c, mc))
<1>0. c # NoMachines
  BY NamesAssumption
<1>1. CASE mc.id \in Ids(c)
  <2> DEFINE p == Place(c, mc.id)
             e == [c EXCEPT ![p] = mc]
  <2>1. p \in DOMAIN c /\ c[p].id = mc.id
    BY <1>1, PlaceIsThere
  <2> HIDE DEF p
  <2>2. e \in Seq(Machine) /\ DOMAIN e = DOMAIN c
    BY <2>1
  <2>3. \A j \in DOMAIN c : e[j].id = c[j].id
    BY <2>1
  <2>4. Distinct(e)
    <3> HIDE DEF e
    <3> QED BY <2>2, <2>3 DEF Distinct
  <2> QED BY <1>1, <2>2, <2>4 DEF p
<1>2. CASE mc.id \notin Ids(c)
  <2> DEFINE e == Append(c, mc)
  <2>1. /\ e \in Seq(Machine) /\ DOMAIN e = DOMAIN c \cup {Len(c) + 1}
        /\ \A j \in DOMAIN c : e[j] = c[j]
        /\ e[Len(c) + 1] = mc
    BY AppendProperties
  <2>2. \A j \in DOMAIN c : c[j].id # mc.id
    BY <1>0, <1>2 DEF Ids
  <2>3. Distinct(e)
    <3> HIDE DEF e
    <3> QED BY <2>1, <2>2 DEF Distinct
  <2> QED BY <1>2, <2>1, <2>3
<1> QED BY <1>1, <1>2

\* Put adds the id, or renews its entry.
LEMMA Putting ==
  ASSUME NEW t \in Seq(Stepped), Distinct(t), NEW id \in Id, NEW r \in Walked
  PROVE  /\ Put(t, id, r) \in Seq(Stepped)
         /\ Distinct(Put(t, id, r))
         /\ Named(Put(t, id, r)) = Named(t) \cup {id}
<1> DEFINE s == [id |-> id, to |-> r.to, emitted |-> r.emitted]
<1>1. s \in Stepped /\ s.id = id
  BY DEF Stepped, Walked
<1> HIDE DEF s
<1>2. CASE \E j \in DOMAIN t : t[j].id = id
  <2> DEFINE e == [j \in DOMAIN t |-> IF t[j].id = id THEN s ELSE t[j]]
  <2>1. Put(t, id, r) = e
    BY <1>2 DEF Put, s
  <2>2. DOMAIN e = DOMAIN t /\ \A j \in DOMAIN t : e[j].id = t[j].id /\ e[j] \in Stepped
    BY <1>1
  <2>3. e \in Seq(Stepped)
    <3>1. Len(t) \in Nat /\ DOMAIN t = 1 .. Len(t)
      OBVIOUS
    <3>2. e = [j \in 1 .. Len(t) |-> e[j]]
      BY <3>1
    <3> HIDE DEF e
    <3> QED BY <2>2, <3>1, <3>2, IsSeq
  <2> HIDE DEF e
  <2>4. Distinct(e)
    BY <2>2 DEF Distinct
  <2>5. Named(e) = Named(t) /\ id \in Named(t)
    BY <1>2, <2>2 DEF Named
  <2> QED BY <2>1, <2>3, <2>4, <2>5
<1>3. CASE ~ \E j \in DOMAIN t : t[j].id = id
  <2> DEFINE e == Append(t, s)
  <2>1. Put(t, id, r) = e
    BY <1>3 DEF Put, s
  <2>2. /\ e \in Seq(Stepped) /\ DOMAIN e = DOMAIN t \cup {Len(t) + 1}
        /\ \A j \in DOMAIN t : e[j] = t[j]
        /\ e[Len(t) + 1] = s
    BY <1>1, AppendProperties
  <2> HIDE DEF e
  <2>3. Distinct(e)
    BY <1>1, <1>3, <2>2 DEF Distinct
  <2>4. Named(e) = Named(t) \cup {id}
    BY <1>1, <2>2 DEF Named
  <2> QED BY <2>1, <2>2, <2>3, <2>4
<1> QED BY <1>2, <1>3

\* Every target is an id, and the targets are those addressed, of which the crew's
\* machines count.
LEMMA TargetsAddressed ==
  ASSUME Types, NEW m \in Message \ {Unusable}
  PROVE  /\ Targets(m, crew) \in Seq(Id)
         /\ {Targets(m, crew)[j] : j \in DOMAIN Targets(m, crew)} \cap Ids(crew)
              = Addressed(m) \cap Ids(crew)
<1>1. CASE m.to # Everyone
  BY <1>1, MessageAssumption DEF Targets, Addressed
<1>2. CASE m.to = Everyone /\ crew = NoMachines
  BY <1>2 DEF Targets, Addressed, Ids
<1>3. CASE m.to = Everyone /\ crew # NoMachines
  <2> DEFINE t == [j \in DOMAIN crew |-> crew[j].id]
  <2>1. crew \in Seq(Machine) /\ Len(crew) \in Nat /\ DOMAIN crew = 1 .. Len(crew)
    BY <1>3 DEF Types, CrewText
  <2>2. \A j \in DOMAIN crew : t[j] = crew[j].id /\ t[j] \in Id
    <3>1. \A j \in DOMAIN crew : crew[j] \in Machine
      BY <2>1
    <3>2. \A mc \in Machine : mc.id \in Id
      BY DEF Machine
    <3> QED BY <3>1, <3>2
  <2>3. DOMAIN t = DOMAIN crew /\ t = [j \in 1 .. Len(crew) |-> t[j]]
    BY <2>1
  <2>4. Targets(m, crew) = t
    BY <1>3 DEF Targets
  <2> HIDE DEF t
  <2>5. t \in Seq(Id)
    BY <2>1, <2>2, <2>3, IsSeq
  <2>6. {t[j] : j \in DOMAIN t} = Ids(crew)
    BY <1>3, <2>2, <2>3 DEF Ids
  <2> QED BY <1>3, <2>4, <2>5, <2>6 DEF Addressed
<1> QED BY <1>1, <1>2, <1>3

\* The machine at the target of the call.
LEMMA TargetFacts ==
  ASSUME Types, InCall, AtTarget, targets[i] \in Ids(machines)
  PROVE  /\ targets[i] \in Id
         /\ machines \in Seq(Machine) /\ machines # NoMachines
         /\ Place(machines, targets[i]) \in DOMAIN machines
         /\ mach \in Machine
<1>1. targets[i] \in Id
  BY DEF Types, AtTarget
<1>2. machines \in Seq(Machine) /\ machines # NoMachines
  BY DEF Types, CrewText, Ids
<1>3. Place(machines, targets[i]) \in DOMAIN machines
  BY <1>2, PlaceIsThere
<1> QED BY <1>1, <1>2, <1>3 DEF mach

(***************************************************************************)
(* The inductive invariant.                                                *)
(***************************************************************************)
LEMMA InvInit == ASSUME Init PROVE Inv
<1>1. Types
  BY StartAssumption DEF Init, Types, CrewText
<1>2. NoTwins
  BY StartAssumption DEF Init, NoTwins, Distinct
<1>3. InCall /\ AfterCall /\ InHost
  BY DEF Init, InCall, AfterCall, InHost
<1> QED BY <1>1, <1>2, <1>3 DEF Inv

\* The host changes the crew between messages.
LEMMA ChangeKeepsInv == ASSUME Inv, Change PROVE Inv'
<1>1. pc' = "idle" /\ UNCHANGED <<message, steppeds, callVars>>
  BY DEF Change, SetMachine, RemMachine
<1>2. crew' \in CrewText /\ NoTwins'
  <2>1. ASSUME NEW id \in Id, NEW ref \in Ref, NEW s \in Fresh, SetMachine(id, ref, s)
        PROVE  crew' \in CrewText /\ NoTwins'
    <3> DEFINE mc == [id |-> id, spec |-> ref, node |-> s.node, bs |-> s.bs]
    <3>1. mc \in Machine /\ mc.id = id
      BY FreshAssumption DEF Machine, State
    <3> HIDE DEF mc
    <3>2. CASE crew = NoMachines
      <4>1. crew' = <<mc>>
        BY <2>1, <3>2 DEF SetMachine, Ids, mc
      <4> QED BY <3>1, <4>1 DEF CrewText, NoTwins, Distinct
    <3>3. CASE crew # NoMachines
      <4>1. crew \in Seq(Machine) /\ Distinct(crew)
        BY <3>3 DEF Inv, Types, NoTwins, CrewText
      <4>2. \/ id \in Ids(crew) /\ crew' = [crew EXCEPT ![Place(crew, id)] = mc]
            \/ id \notin Ids(crew) /\ crew' = Append(crew, mc)
        BY <2>1, <3>3 DEF SetMachine, mc
      <4>3. crew' \in Seq(Machine) /\ Distinct(crew')
        BY <3>1, <4>1, <4>2, Setting
      <4> QED BY <4>3 DEF CrewText, NoTwins, Distinct
    <3> QED BY <3>2, <3>3
  <2>2. ASSUME NEW id \in Id, RemMachine(id)
        PROVE  crew' \in CrewText /\ NoTwins'
    <3>1. CASE id \notin Ids(crew)
      BY <2>2, <3>1 DEF RemMachine, Inv, Types, NoTwins, Distinct
    <3>2. CASE id \in Ids(crew)
      <4>1. crew \in Seq(Machine) /\ Distinct(crew)
        BY <3>2 DEF Inv, Types, NoTwins, CrewText, Ids
      <4>2. crew' = Without(crew, Place(crew, id)) /\ Place(crew, id) \in DOMAIN crew
        BY <2>2, <3>2, <4>1, PlaceIsThere DEF RemMachine
      <4>3. crew' \in Seq(Machine) /\ Distinct(crew')
        BY <4>1, <4>2, Removing
      <4> QED BY <4>3 DEF CrewText, NoTwins, Distinct
    <3> QED BY <3>1, <3>2
  <2> QED BY <2>1, <2>2 DEF Change
<1>3. Types'
  BY <1>1, <1>2 DEF Inv, Types, callVars
<1>4. InCall' /\ AfterCall' /\ InHost'
  BY <1>1 DEF InCall, AfterCall, InHost
<1> QED BY <1>2, <1>3, <1>4 DEF Inv

LEMMA ReceiveKeepsInv == ASSUME Inv, NEW m \in Message, Receive(m) PROVE Inv'
<1>1. UNCHANGED <<crew, steppeds>> /\ message' = m
  BY DEF Receive
<1>2. NoTwins'
  BY <1>1 DEF Inv, NoTwins, Distinct
<1>3. CASE m = Unusable
  <2>1. pc' = "written" /\ text' = ErrorText /\ UNCHANGED <<targets, i, machines>>
    BY <1>3 DEF Receive
  <2>2. Types'
    BY <1>1, <2>1 DEF Inv, Types
  <2>3. InCall' /\ AfterCall' /\ InHost'
    BY <2>1 DEF InCall, AfterCall, InHost
  <2> QED BY <1>2, <2>2, <2>3 DEF Inv
<1>4. CASE m # Unusable
  <2>1. /\ pc' = "walking" /\ text' = <<>> /\ i' = 1 /\ machines' = crew
        /\ targets' = Targets(m, crew)
    BY <1>4 DEF Receive
  <2>2. targets' \in Seq(Id)
    BY <1>4, <2>1, TargetsAddressed DEF Inv
  <2>3. Types'
    BY <1>1, <2>1, <2>2 DEF Inv, Types
  <2>4. text' # ErrorText
    <3>1. <<>> \in Seq(Stepped)
      BY EmptySeq
    <3> QED BY <2>1, <3>1, NamesAssumption
  <2>5. targets' = Targets(message, crew)'
    BY <1>1, <2>1 DEF Targets
  <2>6. Ids(machines)' = Ids(crew)'
    BY <1>1, <2>1 DEF Ids
  <2>7. i' <= Len(targets') + 1
    BY <2>1, <2>2, LenProperties
  <2>8. Distinct(text)' /\ Named(text)' = {}
    BY <2>1 DEF Distinct, Named
  <2>9. {targets'[j] : j \in 1 .. i' - 1} = {}
    BY <2>1
  <2>10. InCall'
    BY <1>1, <1>4, <2>4, <2>5, <2>6, <2>7, <2>8, <2>9 DEF InCall
  <2>11. AfterCall' /\ InHost'
    BY <2>1 DEF AfterCall, InHost
  <2> QED BY <1>2, <2>3, <2>10, <2>11 DEF Inv
<1> QED BY <1>3, <1>4

\* A text stays whole while the crew and the message do not change.
LEMMA StaysWhole ==
  ASSUME UNCHANGED <<crew, message>>
  PROVE  /\ text' = text /\ Whole(text) => Whole(text)'
         /\ steppeds' = text /\ Whole(text) => Whole(steppeds)'
         /\ steppeds' = steppeds /\ Whole(steppeds) => Whole(steppeds)'
<1>1. Addressed(message)' = Addressed(message) /\ Ids(crew)' = Ids(crew)
  BY DEF Addressed, Ids
<1> QED BY <1>1 DEF Whole, Named, Distinct

\* The actions of CrewProcess before it returns.
LEMMA SkipKeepsInv == ASSUME Inv, Skip PROVE Inv'
<1>1. /\ UNCHANGED <<pc, targets, machines, text, crew, message, steppeds>>
      /\ i' = i + 1 /\ pc = "walking" /\ i <= Len(targets)
  BY DEF Skip, AtTarget, hostVars
<1>2. i \in Nat \ {0} /\ Len(targets) \in Nat /\ DOMAIN targets = 1 .. Len(targets)
  BY LenProperties DEF Inv, Types
<1>3. targets[i] \notin Ids(crew)
  BY <1>1 DEF Skip, Inv, InCall
<1>4. Types' /\ NoTwins'
  BY <1>1, <1>2 DEF Inv, Types, NoTwins, Distinct
<1>5. {targets[j] : j \in 1 .. i' - 1} = {targets[j] : j \in 1 .. i - 1} \cup {targets[i]}
  BY <1>1, <1>2
<1>6. Named(text) = {targets[j] : j \in 1 .. i' - 1} \cap Ids(crew)
  BY <1>1, <1>3, <1>5 DEF Inv, InCall
<1>7. i' <= Len(targets) + 1
  BY <1>1, <1>2
<1>8. InCall'
  BY <1>1, <1>6, <1>7 DEF Inv, InCall, Targets, Ids, Distinct, Named
<1>9. AfterCall' /\ InHost'
  BY <1>1 DEF AfterCall, InHost
<1> QED BY <1>4, <1>8, <1>9 DEF Inv

LEMMA ProcessKeepsInv == ASSUME Inv, Process PROVE Inv'
<1>1. /\ UNCHANGED <<pc, targets, crew, message, steppeds>>
      /\ i' = i + 1 /\ pc = "walking" /\ i <= Len(targets)
  BY DEF Process, AtTarget, hostVars
<1>2. i \in Nat \ {0} /\ Len(targets) \in Nat /\ DOMAIN targets = 1 .. Len(targets)
  BY LenProperties DEF Inv, Types
<1> DEFINE id == targets[i]
           p == Place(machines, id)
<1>3. /\ id \in Ids(machines) /\ id \in Ids(crew) /\ id \in Id
      /\ machines \in Seq(Machine) /\ machines # NoMachines
      /\ p \in DOMAIN machines /\ mach \in Machine
  BY <1>1, TargetFacts DEF Process, Inv, InCall
<1>4. PICK r \in Walk(mach.spec, StateOf(mach), message) \ {Threw} :
        /\ text' = Put(text, id, r)
        /\ machines' = [machines EXCEPT ![p].bs = r.left]
  BY DEF Process
<1>5. r \in Walked
  <2>1. mach.spec \in Ref /\ StateOf(mach) \in State
    BY <1>3 DEF Machine, StateOf, State
  <2>2. message \in Message \ {Unusable}
    BY <1>1 DEF Inv, Types, InCall
  <2> QED BY <1>4, <2>1, <2>2, WalkAssumption
<1>6. text \in Seq(Stepped) /\ Distinct(text)
  BY <1>1 DEF Inv, Types, InCall
<1> HIDE DEF id, p
<1>7. /\ text' \in Seq(Stepped) /\ Distinct(text)'
      /\ Named(text)' = Named(text) \cup {id}
  <2>1. /\ Put(text, id, r) \in Seq(Stepped) /\ Distinct(Put(text, id, r))
        /\ Named(Put(text, id, r)) = Named(text) \cup {id}
    BY <1>3, <1>5, <1>6, Putting
  <2> QED BY <1>4, <2>1 DEF Distinct, Named
<1>8. /\ machines' \in Seq(Machine) /\ DOMAIN machines' = DOMAIN machines
      /\ \A j \in DOMAIN machines : machines'[j].id = machines[j].id
  <2>1. r.left \in Bs
    BY <1>5 DEF Walked
  <2>2. machines[p] \in Machine
    BY <1>3
  <2> DEFINE mc == [machines[p] EXCEPT !.bs = r.left]
  <2>3. mc \in Machine /\ mc.id = machines[p].id
    BY <2>1, <2>2 DEF Machine
  <2>4. machines' = [machines EXCEPT ![p] = mc]
    BY <1>4
  <2> HIDE DEF mc
  <2> QED BY <1>3, <2>3, <2>4
<1>9. Ids(machines)' = Ids(machines)
  BY <1>3, <1>8, NamesAssumption DEF Ids
<1>10. Types' /\ NoTwins'
  BY <1>1, <1>2, <1>7, <1>8 DEF Inv, Types, NoTwins, Distinct, CrewText
<1>11. {targets[j] : j \in 1 .. i' - 1} = {targets[j] : j \in 1 .. i - 1} \cup {id}
  BY <1>1, <1>2 DEF id
<1>12. Named(text)' = {targets[j] : j \in 1 .. i' - 1} \cap Ids(crew)
  BY <1>1, <1>3, <1>7, <1>11 DEF Inv, InCall
<1>13. i' <= Len(targets) + 1 /\ text' # ErrorText
  BY <1>1, <1>2, <1>7, NamesAssumption
<1>14. InCall'
  <2>1. Ids(crew)' = Ids(crew) /\ Targets(message, crew)' = Targets(message, crew)
    BY <1>1 DEF Ids, Targets
  <2> QED BY <1>1, <1>7, <1>9, <1>12, <1>13, <2>1 DEF Inv, InCall
<1>15. AfterCall' /\ InHost'
  BY <1>1 DEF AfterCall, InHost
<1> QED BY <1>10, <1>14, <1>15 DEF Inv

LEMMA CallEndsKeepsInv ==
  ASSUME Inv, Throw \/ ProviderExits \/ AllProcessed
  PROVE  Inv'
<1>1. /\ UNCHANGED <<crew, message, steppeds, targets, i, machines>>
      /\ pc' \in {"written", "exited"} /\ text' \in {text, ErrorText}
  BY DEF Throw, ProviderExits, AllProcessed, Thrown, hostVars, callVars
<1>2. Types' /\ NoTwins'
  BY <1>1 DEF Inv, Types, NoTwins, Distinct
<1>3. InCall' /\ InHost'
  BY <1>1 DEF InCall, InHost
<1>4. AfterCall'
  <2>1. CASE Throw \/ ProviderExits
    BY <1>1, <2>1 DEF Throw, Thrown, ProviderExits, AfterCall
  <2>2. CASE AllProcessed /\ text # ErrorText
    <3>1. /\ pc = "walking" /\ i > Len(targets) /\ text' = text
          /\ UNCHANGED <<crew, message>>
      BY <2>2 DEF AllProcessed, hostVars, callVars
    <3>2. i \in Nat \ {0} /\ Len(targets) \in Nat /\ DOMAIN targets = 1 .. Len(targets)
      BY LenProperties DEF Inv, Types
    <3>3. 1 .. i - 1 = DOMAIN targets
      BY <3>1, <3>2 DEF Inv, InCall
    <3>4. Named(text) = {targets[j] : j \in DOMAIN targets} \cap Ids(crew)
      BY <3>1, <3>3 DEF Inv, InCall
    <3>5. message \in Message \ {Unusable} /\ targets = Targets(message, crew)
      BY <3>1 DEF Inv, Types, InCall
    <3>6. Whole(text)
      BY <3>1, <3>4, <3>5, TargetsAddressed DEF Inv, InCall, Whole
    <3>7. Whole(text)'
      BY <3>1, <3>6, StaysWhole
    <3> QED BY <3>7 DEF AfterCall
  <2>3. CASE AllProcessed /\ text = ErrorText
    BY <2>3 DEF AllProcessed, Inv, InCall
  <2> QED BY <2>1, <2>2, <2>3
<1> QED BY <1>2, <1>3, <1>4 DEF Inv

\* The host takes the results.
LEMMA HostKeepsInv ==
  ASSUME Inv, ProcessReturns \/ EmittedReturns \/ Say
  PROVE  Inv'
<1>1. UNCHANGED <<crew, message>>
  BY DEF ProcessReturns, EmittedReturns, Say
<1>2. CASE ProcessReturns
  <2>1. /\ pc = "written" /\ pc' \in {"processed", "exited"}
        /\ pc' = "processed" => steppeds' = text
        /\ steppeds' \in {steppeds, text}
    BY <1>2 DEF ProcessReturns, Onward, Result
  <2>2. targets' = <<>> /\ i' = 1 /\ machines' = NoMachines /\ text' = <<>>
    BY <1>2 DEF ProcessReturns, NoCall
  <2>3. Types'
    BY <1>1, <2>1, <2>2 DEF Inv, Types, CrewText
  <2>4. InCall' /\ AfterCall'
    BY <2>1 DEF InCall, AfterCall
  <2>5. InHost'
    BY <1>1, <2>1, StaysWhole DEF Inv, AfterCall, InHost
  <2> QED BY <1>1, <2>3, <2>4, <2>5 DEF Inv, NoTwins, Distinct
<1>3. CASE EmittedReturns
  <2>1. /\ pc = "processed" /\ pc' \in {"emitted", "exited"}
        /\ UNCHANGED <<steppeds, callVars>>
    BY <1>3 DEF EmittedReturns, Onward
  <2>2. pc' = "emitted" => steppeds # ErrorText
    BY <1>3 DEF EmittedReturns, Onward, GetEmittedFails
  <2>3. Types'
    BY <1>1, <2>1 DEF Inv, Types, callVars
  <2>4. InCall' /\ AfterCall'
    BY <2>1 DEF InCall, AfterCall
  <2>5. InHost'
    BY <1>1, <2>1, <2>2, StaysWhole DEF Inv, InHost
  <2> QED BY <1>1, <2>3, <2>4, <2>5 DEF Inv, NoTwins, Distinct
<1>4. CASE Say
  <2>1. /\ pc = "emitted" /\ pc' = "said"
        /\ UNCHANGED <<steppeds, callVars>>
    BY <1>4 DEF Say
  <2>2. Types'
    BY <1>1, <2>1 DEF Inv, Types, callVars
  <2>3. InCall' /\ AfterCall'
    BY <2>1 DEF InCall, AfterCall
  <2>4. InHost'
    BY <1>1, <2>1, StaysWhole DEF Inv, InHost
  <2> QED BY <1>1, <2>2, <2>3, <2>4 DEF Inv, NoTwins, Distinct
<1> QED BY <1>2, <1>3, <1>4

\* CrewUpdate finds all machines, and moves them without changing what they are.
LEMMA UpdateFacts ==
  ASSUME Inv, UpdateReturns
  PROVE  /\ crew' = crew \/ (crew # NoMachines /\ crew' = Updated)
         /\ crew # NoMachines =>
              /\ Updated \in Seq(Machine) /\ DOMAIN Updated = DOMAIN crew
              /\ \A j \in DOMAIN crew : /\ Updated[j].id = crew[j].id
                                        /\ Updated[j].spec = crew[j].spec
<1>1. pc = "said" /\ steppeds # ErrorText /\ steppeds \in Seq(Stepped)
  BY DEF UpdateReturns, Inv, InHost, Types
<1>2. Named(steppeds) \subseteq Ids(crew)
  BY <1>1 DEF Inv, InHost, Whole
<1>3. Updatable
  BY <1>1, <1>2 DEF Updatable, Named
<1>4. crew' \in {crew, Updated}
  BY <1>3 DEF UpdateReturns, CrewUpdate
<1>5. crew = NoMachines => Updated = crew
  BY DEF Updated
<1>6. ASSUME crew # NoMachines
      PROVE  /\ Updated \in Seq(Machine) /\ DOMAIN Updated = DOMAIN crew
             /\ \A j \in DOMAIN crew : /\ Updated[j].id = crew[j].id
                                       /\ Updated[j].spec = crew[j].spec
  <2>1. crew \in Seq(Machine) /\ Len(crew) \in Nat /\ DOMAIN crew = 1 .. Len(crew)
    BY <1>6 DEF Inv, Types, CrewText
  <2> DEFINE u == Updated
  <2>2. u = [j \in DOMAIN crew |-> u[j]] /\ DOMAIN u = DOMAIN crew
    BY <1>6 DEF Updated
  <2>3. ASSUME NEW j \in DOMAIN crew
        PROVE  u[j] \in Machine /\ u[j].id = crew[j].id /\ u[j].spec = crew[j].spec
    <3>1. crew[j] \in Machine
      BY <2>1
    <3>2. CASE \E n \in DOMAIN steppeds : steppeds[n].id = crew[j].id
      <4> DEFINE e == Entry(crew[j].id)
      <4>1. e \in DOMAIN steppeds
        BY <3>2 DEF Entry
      <4> HIDE DEF e
      <4>2. steppeds[e].to \in State
        <5>1. steppeds[e] \in Stepped
          BY <1>1, <4>1
        <5> QED BY <5>1 DEF Stepped
      <4>3. u[j] = Moved(crew[j], steppeds[e].to)
        BY <1>6, <3>2 DEF Updated, e
      <4> QED BY <3>1, <4>2, <4>3 DEF Moved, Machine, State
    <3>3. CASE ~ \E n \in DOMAIN steppeds : steppeds[n].id = crew[j].id
      BY <1>6, <3>1, <3>3 DEF Updated
    <3> QED BY <3>2, <3>3
  <2> HIDE DEF u
  <2>4. u \in Seq(Machine)
    BY <2>1, <2>2, <2>3, IsSeq
  <2> QED BY <2>2, <2>3, <2>4 DEF u
<1> QED BY <1>4, <1>5, <1>6

LEMMA UpdateKeepsInv == ASSUME Inv, UpdateReturns PROVE Inv'
<1>1. /\ pc' \in {"idle", "exited"} /\ UNCHANGED callVars
      /\ message' = Unusable /\ steppeds' = <<>>
  BY DEF UpdateReturns, Onward
<1>2. crew' \in CrewText /\ NoTwins'
  <2> DEFINE u == Updated
  <2>1. CASE crew' = crew
    BY <2>1 DEF Inv, Types, NoTwins, Distinct
  <2>2. CASE crew # NoMachines /\ crew' = u
    <3>1. /\ u \in Seq(Machine) /\ DOMAIN u = DOMAIN crew
          /\ \A j \in DOMAIN crew : u[j].id = crew[j].id
      BY <2>2, UpdateFacts
    <3> HIDE DEF u
    <3>2. Distinct(crew)
      BY <2>2 DEF Inv, NoTwins
    <3>3. Distinct(u)
      BY <3>1, <3>2 DEF Distinct
    <3> QED BY <2>2, <3>1, <3>3 DEF CrewText, NoTwins, Distinct
  <2> QED BY <2>1, <2>2, UpdateFacts
<1>3. Types'
  BY <1>1, <1>2 DEF Inv, Types, callVars
<1>4. InCall' /\ AfterCall' /\ InHost'
  BY <1>1 DEF InCall, AfterCall, InHost
<1> QED BY <1>2, <1>3, <1>4 DEF Inv

LEMMA InvNext == ASSUME Inv, [Next]_vars PROVE Inv'
<1>1. CASE Change BY <1>1, ChangeKeepsInv
<1>2. CASE Call BY <1>2, ReceiveKeepsInv DEF Call
<1>3. CASE Run
  BY <1>3, SkipKeepsInv, ProcessKeepsInv, CallEndsKeepsInv, HostKeepsInv, UpdateKeepsInv
     DEF Run
<1>4. CASE UNCHANGED vars
  <2>1. UNCHANGED <<pc, crew, message, steppeds, targets, i, machines, text>>
    BY <1>4 DEF vars, hostVars, callVars
  <2>2. Addressed(message)' = Addressed(message) /\ Ids(crew)' = Ids(crew)
    BY <2>1 DEF Addressed, Ids
  <2>3. Whole(text)' = Whole(text) /\ Whole(steppeds)' = Whole(steppeds)
    BY <2>1, <2>2 DEF Whole, Named, Distinct
  <2>4. Types' /\ NoTwins'
    BY <2>1 DEF Inv, Types, NoTwins, Distinct
  <2>5. InCall'
    <3>1. /\ Targets(message, crew)' = Targets(message, crew)
          /\ Ids(machines)' = Ids(machines)
          /\ Distinct(text)' = Distinct(text) /\ Named(text)' = Named(text)
      BY <2>1 DEF Distinct, Named, Targets, Ids
    <3> QED BY <2>1, <2>2, <3>1 DEF Inv, InCall
  <2>6. AfterCall' /\ InHost'
    BY <2>1, <2>3 DEF Inv, AfterCall, InHost
  <2> QED BY <2>4, <2>5, <2>6 DEF Inv
<1>5. CASE Exited BY <1>4, <1>5 DEF Exited
<1> QED BY <1>1, <1>2, <1>3, <1>4, <1>5 DEF Next

LEMMA InvHolds == Spec => []Inv
<1>1. Init => Inv BY InvInit
<1>2. Inv /\ [Next]_vars => Inv' BY InvNext
<1> QED BY <1>1, <1>2, PTL DEF Spec

(***************************************************************************)
(* The theorems.                                                           *)
(***************************************************************************)
\* For every crew and every message: mach_crew_process returns the steppeds of all
\* the machines the message is for, each once, and of no others, unless it returns
\* an exception.
THEOREM MessagesReachTheirMachines == Spec => []Routed
<1>1. Inv => Routed
  BY DEF Inv, InHost, Whole, Named, Distinct, Routed
<1> QED BY <1>1, InvHolds, PTL

\* Processing a message never takes a machine out of the crew, adds one, changes
\* their order, or gives one another specification: the host never takes an
\* exception for a crew.
THEOREM CrewSurvivesMessages == Spec => CrewKept
<1>1. Inv /\ [Next]_vars => (pc # "idle" => Shape(crew') = Shape(crew)) \/ UNCHANGED vars
  <2> SUFFICES ASSUME Inv, Next, pc # "idle" PROVE Shape(crew') = Shape(crew)
    OBVIOUS
  <2>1. CASE UpdateReturns
    <3> DEFINE u == Updated
    <3>1. CASE crew' = crew
      BY <3>1
    <3>2. CASE crew # NoMachines /\ crew' = u
      <4>1. /\ u \in Seq(Machine) /\ DOMAIN u = DOMAIN crew
            /\ \A j \in DOMAIN crew : u[j].id = crew[j].id /\ u[j].spec = crew[j].spec
        BY <2>1, <3>2, UpdateFacts
      <4> HIDE DEF u
      <4>2. u # NoMachines
        BY <4>1, NamesAssumption
      <4> QED BY <3>2, <4>1, <4>2 DEF Shape
    <3> QED BY <2>1, <3>1, <3>2, UpdateFacts
  <2>2. CASE ~UpdateReturns
    <3>1. UNCHANGED crew
      BY <2>2 DEF Next, Change, SetMachine, RemMachine, Call, Receive, Run, Skip, Process,
                  Throw, ProviderExits, AllProcessed, ProcessReturns, EmittedReturns,
                  Say, Exited, vars, hostVars
    <3> QED BY <3>1
  <2> QED BY <2>1, <2>2
<1>2. Inv /\ [Next]_vars => [pc # "idle" => Shape(crew') = Shape(crew)]_vars
  BY <1>1
<1> QED BY <1>2, InvHolds, PTL DEF Spec, CrewKept

(***************************************************************************)
(* Where the machines go.  Until a machine has been processed the call has *)
(* it as the crew does, so a machine that is named once is walked from the *)
(* state the crew has it in; its entry keeps where walk took it until      *)
(* CrewUpdate copies that into the crew.                                   *)
(***************************************************************************)
Copies ==
  /\ DOMAIN machines = DOMAIN crew
  /\ \A j \in DOMAIN crew :
       /\ machines[j].id = crew[j].id
       /\ crew[j].id \notin Named(text) => machines[j] = crew[j]
Reached(j, s) ==
  \E r \in Walk(crew[j].spec, StateOf(crew[j]), message) \ {Threw} : s = r.to
Keeps(t) ==
  \A n \in DOMAIN t, j \in DOMAIN crew :
    t[n].id = crew[j].id /\ NamedOnce(crew[j].id) => Reached(j, t[n].to)
Following ==
  crew # NoMachines =>
    /\ pc = "walking" => Copies
    /\ pc \in {"walking", "written"} /\ text # ErrorText => Keeps(text)
    /\ pc \in {"processed", "emitted", "said"} /\ steppeds # ErrorText => Keeps(steppeds)

\* What an entry holds does not change while the crew and the message stay.
LEMMA StaysKept ==
  ASSUME UNCHANGED <<crew, message>>
  PROVE  /\ text' = text /\ Keeps(text) => Keeps(text)'
         /\ steppeds' = text /\ Keeps(text) => Keeps(steppeds)'
         /\ steppeds' = steppeds /\ Keeps(steppeds) => Keeps(steppeds)'
<1>1. \A j, s : Reached(j, s) <=> Reached(j, s)'
  BY DEF Reached
<1>2. \A id : NamedOnce(id) <=> NamedOnce(id)'
  BY DEF NamedOnce
<1> QED BY <1>1, <1>2 DEF Keeps

\* A target that the message names once has not been processed before.
LEMMA NamedOnceIsNew ==
  ASSUME Inv, AtTarget, NamedOnce(targets[i]), targets[i] \in Ids(crew)
  PROVE  targets[i] \notin Named(text)
<1>1. /\ i \in 1 .. Len(targets) /\ Len(targets) \in Nat
      /\ DOMAIN targets = 1 .. Len(targets)
  BY LenProperties DEF Inv, Types, AtTarget
<1>2. targets = Targets(message, crew) /\ crew # NoMachines
  BY DEF Inv, InCall, AtTarget, Ids
<1>3. \A n \in DOMAIN targets : targets[n] = targets[i] => n = i
  <2>1. CASE message.to # Everyone
    BY <1>1, <1>2, <2>1 DEF Targets, NamedOnce
  <2>2. CASE message.to = Everyone
    <3>1. targets = [j \in DOMAIN crew |-> crew[j].id] /\ Distinct(crew)
      BY <1>2, <2>2 DEF Targets, Inv, NoTwins
    <3>2. DOMAIN targets = DOMAIN crew /\ i \in DOMAIN crew
      BY <1>1, <3>1
    <3>3. \A n \in DOMAIN crew : targets[n] = crew[n].id
      BY <3>1
    <3> QED BY <3>1, <3>2, <3>3 DEF Distinct
  <2> QED BY <2>1, <2>2
<1>4. Named(text) \subseteq {targets[n] : n \in 1 .. i - 1}
  BY DEF Inv, InCall, AtTarget
<1>5. \A n \in 1 .. i - 1 : n \in DOMAIN targets /\ n # i
  BY <1>1
<1> QED BY <1>3, <1>4, <1>5

\* The entry that Put makes, and the ones it leaves alone.
LEMMA PutEntries ==
  ASSUME NEW t \in Seq(Stepped), NEW id \in Id, NEW r \in Walked
  PROVE  /\ Put(t, id, r) \in Seq(Stepped)
         /\ \A n \in DOMAIN Put(t, id, r) :
              IF Put(t, id, r)[n].id = id
              THEN Put(t, id, r)[n].to = r.to /\ Put(t, id, r)[n].emitted = r.emitted
              ELSE n \in DOMAIN t /\ Put(t, id, r)[n] = t[n]
<1> DEFINE s == [id |-> id, to |-> r.to, emitted |-> r.emitted]
           e == Put(t, id, r)
<1>1. s \in Stepped /\ s.id = id /\ s.to = r.to /\ s.emitted = r.emitted
  BY DEF Stepped, Walked
<1> HIDE DEF s
<1>2. CASE \E j \in DOMAIN t : t[j].id = id
  <2>1. e = [j \in DOMAIN t |-> IF t[j].id = id THEN s ELSE t[j]]
    BY <1>2 DEF Put, s
  <2> HIDE DEF e
  <2>2. /\ DOMAIN e = 1 .. Len(t) /\ Len(t) \in Nat
        /\ \A j \in DOMAIN t : e[j] = IF t[j].id = id THEN s ELSE t[j]
    BY <2>1, LenProperties
  <2>3. \A j \in 1 .. Len(t) : e[j] \in Stepped
    BY <1>1, <2>2
  <2>4. e = [j \in 1 .. Len(t) |-> e[j]]
    BY <2>1, <2>2
  <2>5. e \in Seq(Stepped)
    BY <2>2, <2>3, <2>4, IsSeq
  <2>6. \A n \in DOMAIN e : n \in DOMAIN t
    BY <2>1
  <2>7. \A n \in DOMAIN e : IF e[n].id = id THEN e[n].to = r.to /\ e[n].emitted = r.emitted
                          ELSE e[n] = t[n]
    BY <1>1, <2>2, <2>6
  <2> QED BY <2>5, <2>6, <2>7 DEF e
<1>3. CASE ~ \E j \in DOMAIN t : t[j].id = id
  <2>1. e = Append(t, s)
    BY <1>3 DEF Put, s
  <2> HIDE DEF e
  <2>2. /\ e \in Seq(Stepped) /\ DOMAIN e = DOMAIN t \cup {Len(t) + 1}
        /\ \A j \in DOMAIN t : e[j] = t[j]
        /\ e[Len(t) + 1] = s
    BY <1>1, <2>1, AppendProperties
  <2> QED BY <1>1, <1>3, <2>2 DEF e
<1> QED BY <1>2, <1>3

\* One machine is processed.
LEMMA ProcessFollows ==
  ASSUME Inv, Following, Process, crew # NoMachines
  PROVE  Copies' /\ Keeps(text)'
<1> DEFINE id == targets[i]
           p == Place(machines, id)
<1>1. /\ UNCHANGED <<targets, crew, message>> /\ pc = "walking" /\ AtTarget
  BY DEF Process, AtTarget, hostVars
<1>2. /\ id \in Ids(machines) /\ id \in Ids(crew) /\ id \in Id
      /\ machines \in Seq(Machine) /\ machines # NoMachines
      /\ p \in DOMAIN machines /\ machines[p].id = id /\ mach = machines[p] /\ mach \in Machine
  BY <1>1, TargetFacts, PlaceIsThere DEF Process, Inv, InCall, mach
<1>3. PICK r \in Walk(mach.spec, StateOf(mach), message) \ {Threw} :
        /\ text' = Put(text, id, r)
        /\ machines' = [machines EXCEPT ![p].bs = r.left]
  BY DEF Process
<1>4. r \in Walked /\ r.left \in Bs
  <2>1. mach.spec \in Ref /\ StateOf(mach) \in State
    BY <1>2 DEF Machine, StateOf, State
  <2>2. message \in Message \ {Unusable}
    BY <1>1 DEF Inv, Types, InCall
  <2>3. r \in Walked
    BY <1>3, <2>1, <2>2, WalkAssumption
  <2> QED BY <2>3 DEF Walked
<1>5. text \in Seq(Stepped) /\ Distinct(text)
  BY <1>1 DEF Inv, Types, InCall
<1>6. Copies /\ Keeps(text) /\ Distinct(crew)
  BY <1>1 DEF Following, Inv, InCall, NoTwins
<1>7. NamedOnce(id) => id \notin Named(text)
  BY <1>1, <1>2, NamedOnceIsNew
<1> HIDE DEF id, p
<1>8. p \in DOMAIN crew /\ crew[p].id = id
  BY <1>2, <1>6 DEF Copies
<1>9. \A j \in DOMAIN crew : crew[j].id = id => j = p
  BY <1>6, <1>8 DEF Distinct
<1>10. /\ DOMAIN machines' = DOMAIN machines
       /\ \A j \in DOMAIN machines : machines'[j].id = machines[j].id
       /\ \A j \in DOMAIN machines : j # p => machines'[j] = machines[j]
  <2>1. \A j \in DOMAIN machines : machines[j] \in Machine
    BY <1>2
  <2> QED BY <1>2, <1>3, <2>1 DEF Machine
<1>11. Named(text)' = Named(text) \cup {id}
  <2>1. Named(Put(text, id, r)) = Named(text) \cup {id}
    BY <1>2, <1>4, <1>5, Putting
  <2> QED BY <1>3, <2>1 DEF Named
<1>12. Copies'
  <2>1. ASSUME NEW j \in DOMAIN crew, crew[j].id \notin Named(text)'
        PROVE  machines'[j] = crew[j]
    <3>1. crew[j].id \notin Named(text) /\ j # p
      BY <1>8, <1>11, <2>1
    <3> QED BY <1>6, <1>10, <3>1 DEF Copies
  <2> QED BY <1>1, <1>6, <1>10, <2>1 DEF Copies
<1>13. Keeps(text)'
  <2>1. \A n \in DOMAIN text' :
          IF text'[n].id = id THEN text'[n].to = r.to
          ELSE n \in DOMAIN text /\ text'[n] = text[n]
    BY <1>2, <1>3, <1>4, <1>5, PutEntries
  <2>2. ASSUME NEW n \in DOMAIN text', NEW j \in DOMAIN crew,
               text'[n].id = crew[j].id, NamedOnce(crew[j].id)
        PROVE  Reached(j, text'[n].to)
    <3>1. CASE text'[n].id = id
      <4>1. j = p
        BY <1>9, <2>2, <3>1
      <4>2. mach = crew[j]
        BY <1>2, <1>6, <1>7, <1>8, <2>2, <3>1, <4>1 DEF Copies
      <4> QED BY <1>3, <2>1, <3>1, <4>2 DEF Reached
    <3>2. CASE text'[n].id # id
      BY <1>6, <2>1, <2>2, <3>2 DEF Keeps
    <3> QED BY <3>1, <3>2
  <2>3. /\ \A j, s : Reached(j, s) <=> Reached(j, s)'
        /\ \A x : NamedOnce(x) <=> NamedOnce(x)'
    BY <1>1 DEF Reached, NamedOnce
  <2> QED BY <1>1, <2>2, <2>3 DEF Keeps
<1> QED BY <1>12, <1>13

LEMMA FollowingNext == ASSUME Inv, Following, [Next]_vars PROVE Following'
<1> SUFFICES ASSUME crew' # NoMachines
             PROVE  /\ pc' = "walking" => Copies'
                    /\ pc' \in {"walking", "written"} /\ text' # ErrorText => Keeps(text)'
                    /\ pc' \in {"processed", "emitted", "said"} /\ steppeds' # ErrorText
                         => Keeps(steppeds)'
  BY DEF Following
<1>1. CASE pc' \in {"idle", "exited"}
  BY <1>1
<1>2. ASSUME NEW m \in Message, Receive(m), m # Unusable
      PROVE  pc' = "walking" /\ Copies' /\ Keeps(text)'
  <2>1. pc' = "walking" /\ machines' = crew' /\ text' = <<>>
    BY <1>2 DEF Receive
  <2>2. Copies'
    BY <2>1 DEF Copies
  <2>3. Keeps(text)'
    BY <2>1 DEF Keeps
  <2> QED BY <2>1, <2>2, <2>3
<1>3. ASSUME NEW m \in Message, Receive(m), m = Unusable
      PROVE  pc' = "written" /\ text' = ErrorText
  BY <1>3 DEF Receive
<1>4. CASE Process
  <2>1. pc' = "walking" /\ UNCHANGED crew
    BY <1>4 DEF Process, AtTarget, hostVars
  <2> QED BY <1>4, <2>1, ProcessFollows
<1>5. CASE Skip \/ UNCHANGED vars
  <2>1. UNCHANGED <<pc, crew, message, machines, text, steppeds>>
    BY <1>5 DEF Skip, vars, hostVars, callVars
  <2>2. Copies => Copies'
    BY <2>1 DEF Copies, Named
  <2> QED BY <2>1, <2>2, StaysKept DEF Following
<1>6. CASE Throw \/ AllProcessed
  <2>1. pc = "walking" /\ pc' = "written" /\ UNCHANGED <<crew, message>>
    BY <1>6 DEF Throw, AllProcessed, AtTarget, hostVars
  <2>2. text' = ErrorText \/ text' = text
    BY <1>6 DEF Throw, Thrown, AllProcessed, callVars
  <2> QED BY <2>1, <2>2, StaysKept DEF Following
<1>7. CASE ProcessReturns
  <2>1. UNCHANGED <<crew, message>> /\ pc = "written"
    BY <1>7 DEF ProcessReturns
  <2>2. pc' = "exited" \/ (pc' = "processed" /\ steppeds' = text)
    BY <1>7 DEF ProcessReturns, Onward, Result
  <2> QED BY <2>1, <2>2, StaysKept DEF Following
<1>8. CASE EmittedReturns \/ Say
  <2>1. UNCHANGED <<crew, message, steppeds>> /\ pc \in {"processed", "emitted"}
    BY <1>8 DEF EmittedReturns, Say
  <2>2. pc' \in {"emitted", "said", "exited"}
    BY <1>8 DEF EmittedReturns, Say, Onward
  <2> QED BY <2>1, <2>2, StaysKept DEF Following
<1>9. Change \/ UpdateReturns \/ ProviderExits \/ Exited => pc' \in {"idle", "exited"}
  BY DEF Change, SetMachine, RemMachine, UpdateReturns, ProviderExits, Exited, Onward, vars
<1> QED
  BY <1>1, <1>2, <1>3, <1>4, <1>5, <1>6, <1>7, <1>8, <1>9 DEF Next, Call, Run

LEMMA FollowingHolds == Spec => []Following
<1>1. Init => Following
  BY DEF Init, Following
<1>2. Inv /\ Following /\ [Next]_vars => Following'
  BY FollowingNext
<1> QED BY <1>1, <1>2, InvHolds, PTL DEF Spec

\* For every crew and every message: a machine that the message names once is,
\* afterwards, where walk took it from the state the crew had it in, and a
\* machine it does not name is untouched.
THEOREM MachinesMoveAsTold == Spec => Delivered
<1> DEFINE Right ==
      pc = "said" /\ pc' = "idle" /\ crew # NoMachines =>
        \A j \in DOMAIN crew :
          IF crew[j].id \in Addressed(message)
          THEN NamedOnce(crew[j].id) =>
                 \E r \in Walk(crew[j].spec, StateOf(crew[j]), message) \ {Threw} :
                   StateOf(crew'[j]) = r.to
          ELSE crew'[j] = crew[j]
<1>1. ASSUME Inv, Following, Next PROVE Right
  <2> SUFFICES ASSUME pc = "said", pc' = "idle", crew # NoMachines, NEW j \in DOMAIN crew
               PROVE  IF crew[j].id \in Addressed(message)
                      THEN NamedOnce(crew[j].id) => Reached(j, StateOf(crew'[j]))
                      ELSE crew'[j] = crew[j]
    BY DEF Reached
  <2>1. UpdateReturns
    BY <1>1 DEF Next, Change, SetMachine, RemMachine, Call, Receive, Run, Skip, Process,
                Throw, ProviderExits, AllProcessed, AtTarget, ProcessReturns,
                EmittedReturns, Say, Exited
  <2>2. /\ steppeds # ErrorText /\ steppeds \in Seq(Stepped)
        /\ Whole(steppeds) /\ Keeps(steppeds)
    BY <1>1 DEF Inv, Types, InHost, Following
  <2>3. Updatable
    BY <2>2 DEF Updatable, Whole, Named
  <2>4. crew' = Updated
    BY <2>1, <2>3 DEF UpdateReturns, Onward, Result, CrewUpdate
  <2> DEFINE e == Entry(crew[j].id)
  <2>5. crew'[j] = IF \E n \in DOMAIN steppeds : steppeds[n].id = crew[j].id
                   THEN Moved(crew[j], steppeds[e].to) ELSE crew[j]
    BY <2>4 DEF Updated
  <2>6. crew[j].id \in Ids(crew)
    BY DEF Ids
  <2>7. CASE crew[j].id \in Addressed(message)
    <3>1. \E n \in DOMAIN steppeds : steppeds[n].id = crew[j].id
      BY <2>2, <2>6, <2>7 DEF Whole, Named
    <3>2. e \in DOMAIN steppeds /\ steppeds[e].id = crew[j].id
      BY <3>1 DEF Entry
    <3>3. crew'[j] = Moved(crew[j], steppeds[e].to)
      BY <2>5, <3>1
    <3> HIDE DEF e
    <3>4. steppeds[e] \in Stepped
      BY <2>2, <3>2
    <3>5. crew[j] \in Machine
      <4>1. crew \in Seq(Machine)
        BY <1>1 DEF Inv, Types, CrewText
      <4> QED BY <4>1
    <3>6. StateOf(crew'[j]) = steppeds[e].to
      BY <3>3, <3>4, <3>5 DEF Moved, StateOf, Stepped, State, Machine
    <3> QED BY <2>2, <2>7, <3>2, <3>6 DEF Keeps
  <2>8. CASE crew[j].id \notin Addressed(message)
    <3>1. ~ \E n \in DOMAIN steppeds : steppeds[n].id = crew[j].id
      BY <2>2, <2>8 DEF Whole, Named
    <3> QED BY <2>5, <2>8, <3>1
  <2> QED BY <2>7, <2>8
<1> HIDE DEF Right
<1>2. Inv /\ Following /\ [Next]_vars => [Right]_vars
  BY <1>1
<1>3. Spec => [][Right]_vars
  BY <1>2, InvHolds, FollowingHolds, PTL DEF Spec
<1> QED BY <1>3 DEF Delivered, Right

(***************************************************************************)
(* What the loops compute.  A recursive function over 0 .. N has a value   *)
(* at every step, which is found without induction: the least step without *)
(* one would have its predecessor's to start from.                         *)
(***************************************************************************)
\* A set of natural numbers that is not empty has a least one.
LEMMA LeastOfNat ==
  ASSUME NEW T, T \subseteq Nat, T # {}
  PROVE  \E m \in T : \A n \in T : m <= n
<1>1. PICK m \in T : \A n \in T : <<n, m>> \notin OpToRel(<, Nat)
  BY WFMin, NatLessThanWellFounded, Zenon
<1>2. m \in Nat
  OBVIOUS
<1>3. ASSUME NEW n \in T PROVE ~(n < m)
  <2>1. n \in Nat
    OBVIOUS
  <2> QED BY <1>1, <1>2, <2>1, Zenon DEF OpToRel
<1>4. \A n \in T : m <= n
  BY <1>2, <1>3
<1> QED BY <1>4

\* f holds the results of N steps from base.
Steps(f, N, base, step) == f[0] = base /\ \A n \in 1 .. N : f[n] = step[n][f[n - 1]]

\* Steps that stay in S have results, and they are in S.
LEMMA StepsExist ==
  ASSUME NEW S, NEW N \in Nat, NEW base \in S, NEW step \in [1 .. N -> [S -> S]]
  PROVE  \E f \in [0 .. N -> S] : Steps(f, N, base, step)
<1> DEFINE Has(m) == \E f \in [0 .. m -> S] : Steps(f, m, base, step)
           T == {m \in 0 .. N : ~Has(m)}
<1> SUFFICES ASSUME T # {} PROVE FALSE
  <2>1. N \in 0 .. N
    OBVIOUS
  <2>2. Has(N) \/ N \in T
    BY <2>1
  <2>3. T = {} => Has(N)
    BY <2>2
  <2> QED BY <2>3
<1>1. PICK m \in T : \A n \in T : m <= n
  <2>1. T \subseteq Nat
    OBVIOUS
  <2>2. T # {}
    OBVIOUS
  <2> HIDE DEF T
  <2> QED BY <2>1, <2>2, LeastOfNat
<1>2. m \in 0 .. N /\ ~Has(m)
  OBVIOUS
<1>3. Has(0)
  <2> DEFINE f == [n \in 0 .. 0 |-> base]
  <2>1. f \in [0 .. 0 -> S] /\ Steps(f, 0, base, step)
    BY DEF Steps
  <2> QED BY <2>1
<1>4. m # 0
  BY <1>2, <1>3
<1>5. Has(m - 1)
  <2>1. m - 1 \in 0 .. N /\ ~(m <= m - 1)
    BY <1>2, <1>4
  <2> QED BY <1>1, <2>1
<1>6. PICK f \in [0 .. m - 1 -> S] : Steps(f, m - 1, base, step)
  BY <1>5
<1> DEFINE g == [n \in 0 .. m |-> IF n = m THEN step[m][f[m - 1]] ELSE f[n]]
<1>7. m \in 1 .. N
  BY <1>2, <1>4
<1>8. step[m][f[m - 1]] \in S
  <2>1. f[m - 1] \in S
    BY <1>6, <1>7
  <2> QED BY <1>7, <2>1
<1>9. g \in [0 .. m -> S]
  <2>1. \A n \in 0 .. m : n # m => n \in 0 .. m - 1
    BY <1>7
  <2> QED BY <1>6, <1>8, <2>1
<1>10. g[0] = base
  BY <1>6, <1>7 DEF Steps
<1>11. ASSUME NEW n \in 1 .. m PROVE g[n] = step[n][g[n - 1]]
  <2>1. CASE n = m
    <3>1. g[n - 1] = f[m - 1]
      BY <1>7, <2>1
    <3> QED BY <1>7, <2>1, <3>1
  <2>2. CASE n # m
    <3>1. n \in 1 .. m - 1 /\ n - 1 \in 0 .. m /\ n - 1 # m
      BY <1>7, <2>2
    <3>2. g[n] = f[n] /\ g[n - 1] = f[n - 1]
      BY <1>7, <2>2, <3>1
    <3> QED BY <1>6, <3>1, <3>2 DEF Steps
  <2> QED BY <2>1, <2>2
<1>12. Has(m)
  <2> HIDE DEF g
  <2> QED BY <1>9, <1>10, <1>11 DEF Steps
<1> QED BY <1>2, <1>12

\* What every step keeps in S is in S.
LEMMA StepsStay ==
  ASSUME NEW S, NEW N \in Nat, NEW f, f[0] \in S,
         \A n \in 1 .. N : f[n - 1] \in S => f[n] \in S
  PROVE  \A n \in 0 .. N : f[n] \in S
<1> DEFINE T == {n \in 0 .. N : f[n] \notin S}
<1> SUFFICES ASSUME T # {} PROVE FALSE
  OBVIOUS
<1>1. PICK m \in T : \A n \in T : m <= n
  <2>1. T \subseteq Nat /\ T # {}
    OBVIOUS
  <2> HIDE DEF T
  <2> QED BY <2>1, LeastOfNat
<1>2. m \in 1 .. N
  OBVIOUS
<1>3. m - 1 \in 0 .. N /\ ~(m <= m - 1)
  BY <1>2
<1>4. f[m - 1] \in S
  BY <1>1, <1>3
<1> QED BY <1>2, <1>4

\* GetEmitted concatenates what each of the steppeds emitted.
LEMMA GetEmittedIsEmissions ==
  ASSUME NEW t \in Seq(Stepped)
  PROVE  GetEmitted(t) \in Seq(Emission)
<1> DEFINE N == Len(t)
           S == Seq(Emission)
           Is(f) == f = [n \in 0 .. Len(t) |->
                           IF n = 0 THEN <<>> ELSE f[n - 1] \o t[n].emitted]
           upTo == CHOOSE f : Is(f)
           base == <<>>
           step == [n \in 1 .. N |-> [s \in S |-> s \o t[n].emitted]]
<1>1. N \in Nat /\ \A n \in 1 .. N : t[n].emitted \in S
  <2>1. N \in Nat
    BY LenProperties
  <2>2. \A n \in 1 .. N : t[n] \in Stepped
    BY ElementOfSeq
  <2>3. \A x \in Stepped : x.emitted \in S
    BY DEF Stepped
  <2> QED BY <2>1, <2>2, <2>3
<1>2. base \in S /\ step \in [1 .. N -> [S -> S]]
  BY <1>1
<1>3. \A n \in 1 .. N, s \in S : step[n][s] = s \o t[n].emitted
  OBVIOUS
<1>4. PICK f \in [0 .. N -> S] : Steps(f, N, base, step)
  <2> HIDE DEF N, S, base, step
  <2> QED BY <1>1, <1>2, StepsExist
<1>5. Is(f)
  <2> SUFFICES ASSUME NEW n \in 0 .. N
               PROVE  f[n] = IF n = 0 THEN <<>> ELSE f[n - 1] \o t[n].emitted
    OBVIOUS
  <2>1. CASE n = 0
    BY <1>4, <2>1 DEF Steps
  <2>2. CASE n # 0
    <3>1. n \in 1 .. N /\ f[n - 1] \in S
      BY <2>2
    <3>2. f[n] = step[n][f[n - 1]]
      BY <1>4, <3>1 DEF Steps
    <3> QED BY <1>3, <2>2, <3>1, <3>2
  <2> QED BY <2>1, <2>2
<1>6. Is(upTo)
  <2> HIDE DEF Is
  <2> QED BY <1>5, Zenon
<1>7. GetEmitted(t) = upTo[N]
  BY DEF GetEmitted
<1> HIDE DEF upTo, step
<1>8. \A n \in 0 .. N : upTo[n] = IF n = 0 THEN <<>> ELSE upTo[n - 1] \o t[n].emitted
  BY <1>6
<1> HIDE DEF Is, N, S
<1>9. upTo[0] \in S
  <2>1. upTo[0] = base
    BY <1>1, <1>8
  <2> QED BY <1>2, <2>1
<1>10. \A n \in 1 .. N : upTo[n - 1] \in S => upTo[n] \in S
  <2> SUFFICES ASSUME NEW n \in 1 .. N, upTo[n - 1] \in S PROVE upTo[n] \in S
    OBVIOUS
  <2>1. upTo[n] = upTo[n - 1] \o t[n].emitted
    <3>1. n \in 0 .. N /\ n # 0
      BY <1>1
    <3> QED BY <1>8, <3>1
  <2>2. upTo[n - 1] \in Seq(Emission) /\ t[n].emitted \in Seq(Emission)
    BY <1>1 DEF S
  <2>3. upTo[n - 1] \o t[n].emitted \in Seq(Emission)
    BY <2>2, ConcatProperties
  <2> QED BY <2>1, <2>3 DEF S
<1>11. \A n \in 0 .. N : upTo[n] \in S
  BY <1>1, <1>9, <1>10, StepsStay
<1> QED BY <1>1, <1>7, <1>11 DEF S

\* The host finds in the destinations what was copied into them, and no more.
LEMMA SpokenIsCopied ==
  ASSUME NEW all \in Seq(Emission), Len(all) <= Most, NEW old
  PROVE  Spoken(Copied(all, Len(all), old)) = all
<1> DEFINE N == Len(all)
           c == Copied(all, Len(all), old)
           Is(f) == f = [j \in 0 .. Most |-> IF j = 0 THEN <<>>
                                             ELSE IF c[j] = Empty THEN f[j - 1]
                                             ELSE Append(f[j - 1], c[j])]
           upTo == CHOOSE f : Is(f)
           read == [j \in 0 .. Most |-> SubSeq(all, 1, IF j <= N THEN j ELSE N)]
<1>1. N \in Nat /\ Most \in Nat /\ N <= Most
  BY LenProperties, NamesAssumption
<1>2. \A j \in 1 .. Most : c[j] = IF j <= N THEN all[j] ELSE Empty
  BY DEF Copied
<1>3. \A j \in 1 .. N : all[j] \in Emission /\ all[j] # Empty
  <2>1. \A j \in 1 .. N : all[j] \in Emission
    BY ElementOfSeq
  <2> QED BY <2>1, NamesAssumption
<1> HIDE DEF c
<1>4. read[0] = <<>> /\ read[Most] = all
  <2>1. read[0] = SubSeq(all, 1, 0)
    BY <1>1
  <2>2. read[Most] = SubSeq(all, 1, N)
    BY <1>1
  <2>3. SubSeq(all, 1, N) = all
    BY SubSeqFull
  <2>4. SubSeq(all, 1, 0) = <<>>
    BY SubSeqEmpty
  <2> QED BY <2>1, <2>2, <2>3, <2>4
<1>5. ASSUME NEW j \in 1 .. N
      PROVE  SubSeq(all, 1, j) = Append(SubSeq(all, 1, j - 1), all[j])
  <2> QED BY <1>1, <1>5
<1>6. \A j \in 1 .. Most : read[j] = IF c[j] = Empty THEN read[j - 1]
                                     ELSE Append(read[j - 1], c[j])
  <2> SUFFICES ASSUME NEW j \in 1 .. Most
               PROVE  read[j] = IF c[j] = Empty THEN read[j - 1]
                                ELSE Append(read[j - 1], c[j])
    OBVIOUS
  <2>1. CASE j <= N
    <3>1. j \in 1 .. N /\ j - 1 <= N
      BY <1>1, <2>1
    <3>2. read[j] = SubSeq(all, 1, j) /\ read[j - 1] = SubSeq(all, 1, j - 1)
      BY <1>1, <3>1
    <3>3. c[j] = all[j] /\ c[j] # Empty
      BY <1>2, <1>3, <3>1
    <3> HIDE DEF read
    <3> QED BY <1>5, <3>1, <3>2, <3>3
  <2>2. CASE ~(j <= N)
    <3>1. c[j] = Empty
      BY <1>2, <2>2
    <3>2. read[j] = SubSeq(all, 1, N)
      BY <2>2
    <3>3. read[j - 1] = SubSeq(all, 1, N)
      <4>1. CASE j - 1 <= N
        <5>1. j - 1 = N
          BY <1>1, <2>2, <4>1
        <5> QED BY <1>1, <5>1
      <4>2. CASE ~(j - 1 <= N)
        BY <1>1, <4>2
      <4> QED BY <4>1, <4>2
    <3> HIDE DEF read
    <3> QED BY <3>1, <3>2, <3>3
  <2> QED BY <2>1, <2>2
<1>7. read = [j \in 0 .. Most |-> read[j]]
  OBVIOUS
<1> HIDE DEF read
<1>8. Is(read)
  <2>1. \A j \in 0 .. Most : j # 0 => j \in 1 .. Most
    BY <1>1
  <2>2. \A j \in 0 .. Most : read[j] = IF j = 0 THEN <<>>
                                       ELSE IF c[j] = Empty THEN read[j - 1]
                                       ELSE Append(read[j - 1], c[j])
    BY <1>4, <1>6, <2>1
  <2> QED BY <1>7, <2>2
<1>9. Is(upTo)
  <2> HIDE DEF Is
  <2> QED BY <1>8, Zenon
<1>10. Spoken(c) = upTo[Most]
  BY DEF Spoken
<1> HIDE DEF upTo
<1>11. \A j \in 0 .. Most : upTo[j] = IF j = 0 THEN <<>>
                                      ELSE IF c[j] = Empty THEN upTo[j - 1]
                                      ELSE Append(upTo[j - 1], c[j])
  BY <1>9
<1>12. upTo[0] = read[0]
  BY <1>1, <1>4, <1>11
<1>13. ASSUME NEW j \in 1 .. Most, upTo[j - 1] = read[j - 1]
       PROVE  upTo[j] = read[j]
  <2>1. upTo[j] = IF c[j] = Empty THEN upTo[j - 1] ELSE Append(upTo[j - 1], c[j])
    BY <1>1, <1>11
  <2> QED BY <1>6, <1>13, <2>1
<1>14. \A j \in 0 .. Most : upTo[j] = read[j]
  <2> DEFINE T == {j \in 0 .. Most : upTo[j] # read[j]}
  <2> SUFFICES ASSUME T # {} PROVE FALSE
    OBVIOUS
  <2>1. PICK j \in T : \A n \in T : j <= n
    <3>1. T \subseteq Nat /\ T # {}
      OBVIOUS
    <3> HIDE DEF T
    <3> QED BY <3>1, LeastOfNat
  <2>2. j \in 1 .. Most
    BY <1>1, <1>12
  <2>3. j - 1 \in 0 .. Most /\ ~(j <= j - 1)
    BY <1>1, <2>2
  <2>4. upTo[j - 1] = read[j - 1]
    BY <2>1, <2>3
  <2> QED BY <1>13, <2>2, <2>4
<1>15. Spoken(c) = all
  <2>1. Most \in 0 .. Most
    BY <1>1
  <2>2. upTo[Most] = read[Most]
    BY <1>14, <2>1
  <2> QED BY <1>4, <1>10, <2>2
<1> QED BY <1>15 DEF c

(***************************************************************************)
(* What the host says.                                                     *)
(***************************************************************************)
Speech ==
  /\ pc \in {"idle", "walking", "written", "processed", "emitted", "said", "exited"}
  /\ slots \in [1 .. Most -> Emission \cup {Empty}]
  /\ said \in Seq(Emission)
  /\ rc \in {"okay", "sad", "tooBig"}
  /\ pc = "emitted" => LET all == GetEmitted(steppeds)
                       IN Len(all) <= Most /\ slots = Copied(all, Len(all), slots)
  /\ pc = "said" => said = GetEmitted(steppeds)

LEMMA SpeechInit == ASSUME Init PROVE Speech
<1>1. slots \in [1 .. Most -> Emission \cup {Empty}]
  BY DEF Init
<1>2. said \in Seq(Emission)
  BY EmptySeq DEF Init
<1> QED BY <1>1, <1>2 DEF Init, Speech

\* mach_get_emitted fills the destinations from the first.
LEMMA EmittedSpeech == ASSUME Inv, Speech, EmittedReturns PROVE Speech'
<1>1. steppeds' = steppeds /\ said' = said
  BY DEF EmittedReturns
<1>2. CASE steppeds = ErrorText
  <2>1. rc' = "sad" /\ slots' = slots /\ pc' = "exited"
    BY <1>2 DEF EmittedReturns, GetEmittedFails, Onward
  <2> QED BY <1>1, <2>1 DEF Speech
<1>3. CASE steppeds # ErrorText
  <2> DEFINE all == GetEmitted(steppeds)
  <2>1. all \in Seq(Emission)
    BY <1>3, GetEmittedIsEmissions DEF Inv, Types
  <2>2. PICK n \in 0 .. Len(all) :
          Len(all) <= Most /\ slots' = Copied(all, n, slots) /\ rc' = Result(n = Len(all))
    BY <1>3 DEF EmittedReturns
  <2>3. pc' = Onward(rc', "emitted")
    BY DEF EmittedReturns
  <2>4. all' = all
    BY <1>1
  <2> HIDE DEF all
  <2>5. slots' \in [1 .. Most -> Emission \cup {Empty}]
    <3>1. Len(all) \in Nat /\ \A j \in 1 .. Len(all) : all[j] \in Emission
      BY <2>1, LenProperties, ElementOfSeq
    <3> QED BY <2>2, <3>1, NamesAssumption DEF Copied
  <2>6. rc' \in {"okay", "tooBig"} /\ pc' \in {"emitted", "exited"}
    BY <2>2, <2>3 DEF Result, Onward
  <2>7. ASSUME pc' = "emitted"
        PROVE  Len(all) <= Most /\ slots' = Copied(all, Len(all), slots')
    <3>1. n = Len(all)
      BY <2>2, <2>3, <2>7 DEF Result, Onward
    <3> QED BY <2>2, <3>1 DEF Copied
  <2> QED BY <1>1, <2>4, <2>5, <2>6, <2>7 DEF Speech, all
<1> QED BY <1>2, <1>3

LEMMA SaySpeech == ASSUME Inv, Speech, Say PROVE Speech'
<1>1. /\ pc = "emitted" /\ pc' = "said" /\ said' = Spoken(slots)
      /\ UNCHANGED <<steppeds, slots, rc>>
  BY DEF Say
<1>2. steppeds \in Seq(Stepped)
  BY <1>1 DEF Inv, InHost, Types
<1> DEFINE all == GetEmitted(steppeds)
<1>3. all \in Seq(Emission)
  BY <1>2, GetEmittedIsEmissions
<1>4. Len(all) <= Most /\ slots = Copied(all, Len(all), slots)
  BY <1>1 DEF Speech
<1>5. said' = all
  <2> HIDE DEF all
  <2> QED BY <1>1, <1>3, <1>4, SpokenIsCopied
<1>6. all' = all
  BY <1>1
<1> HIDE DEF all
<1> QED BY <1>1, <1>3, <1>5, <1>6 DEF Speech, all

LEMMA SpeechNext == ASSUME Inv, Speech, [Next]_vars PROVE Speech'
<1>1. CASE Change
  <2>1. pc' = "idle" /\ UNCHANGED <<slots, said>> /\ rc' = "okay"
    BY <1>1 DEF Change, SetMachine, RemMachine
  <2> QED BY <2>1 DEF Speech
<1>2. CASE Call
  <2>1. pc' \in {"walking", "written"} /\ UNCHANGED <<slots, said, rc>>
    BY <1>2 DEF Call, Receive
  <2> QED BY <2>1 DEF Speech
<1>3. CASE Skip \/ Process \/ Throw \/ ProviderExits \/ AllProcessed
  <2>1. pc' \in {"walking", "written", "exited"} /\ UNCHANGED <<slots, said, rc>>
    BY <1>3 DEF Skip, Process, Throw, ProviderExits, AllProcessed, AtTarget, hostVars
  <2> QED BY <2>1 DEF Speech
<1>4. CASE ProcessReturns
  <2>1. /\ pc' \in {"processed", "exited"} /\ UNCHANGED <<slots, said>>
        /\ rc' \in {"okay", "tooBig"}
    BY <1>4 DEF ProcessReturns, Onward, Result
  <2> QED BY <2>1 DEF Speech
<1>5. CASE EmittedReturns
  BY <1>5, EmittedSpeech
<1>6. CASE Say
  BY <1>6, SaySpeech
<1>7. CASE UpdateReturns
  <2>1. /\ pc' \in {"idle", "exited"} /\ slots' = slots /\ said' = <<>>
        /\ rc' \in {"okay", "tooBig"}
    BY <1>7 DEF UpdateReturns, Onward, Result
  <2>2. said' \in Seq(Emission)
    BY <2>1, EmptySeq
  <2> QED BY <2>1, <2>2 DEF Speech
<1>8. CASE UNCHANGED vars
  <2>1. UNCHANGED <<pc, slots, said, rc, steppeds>>
    BY <1>8 DEF vars, hostVars
  <2>2. GetEmitted(steppeds)' = GetEmitted(steppeds)
    BY <2>1
  <2> QED BY <2>1, <2>2 DEF Speech
<1>9. CASE Exited BY <1>8, <1>9 DEF Exited
<1> QED BY <1>1, <1>2, <1>3, <1>4, <1>5, <1>6, <1>7, <1>8, <1>9 DEF Next, Run

LEMMA SpeechHolds == Spec => []Speech
<1>1. Init => Speech BY SpeechInit
<1>2. Inv /\ Speech /\ [Next]_vars => Speech' BY SpeechNext
<1> QED BY <1>1, <1>2, InvHolds, PTL DEF Spec

\* Every state of the host and of the call has the types the comments of the code
\* give it, the destinations of mach_get_emitted among them.
THEOREM CrewTypes == Spec => []TypeOK
<1>1. Inv /\ Speech => TypeOK
  BY DEF Inv, Types, Speech, TypeOK
<1> QED BY <1>1, InvHolds, SpeechHolds, PTL

\* For every crew, message and number of destinations: what the host prints after a
\* message is all that the machines emitted for it, in order, and nothing that an
\* earlier message left in the destinations.
THEOREM HostSaysWhatWasEmitted == Spec => []SaidIsEmitted
<1>1. Speech => SaidIsEmitted
  BY DEF Speech, SaidIsEmitted
<1> QED BY <1>1, SpeechHolds, PTL

(***************************************************************************)
(* The end of a round: every step of it leaves fewer targets, or a later   *)
(* phase.                                                                  *)
(***************************************************************************)
RoundLeft ==
  CASE pc = "walking"   -> 5 + (Len(targets) + 1 - i)
    [] pc = "written"   -> 4
    [] pc = "processed" -> 3
    [] pc = "emitted"   -> 2
    [] pc = "said"      -> 1
    [] OTHER            -> 0

\* For every crew and message, repeated and unknown names included, every step of a
\* round leaves less of it, so that it ends after at most as many steps as "to" has
\* names, and five more.
THEOREM RoundsRunOut == Spec => [](RoundLeft \in Nat) /\ [][Run => RoundLeft' < RoundLeft]_vars
<1>1. Inv => RoundLeft \in Nat
  <2> SUFFICES ASSUME Inv PROVE RoundLeft \in Nat
    OBVIOUS
  <2>1. CASE pc = "walking"
    <3>1. i \in Nat \ {0} /\ Len(targets) \in Nat /\ i <= Len(targets) + 1
      BY <2>1, LenProperties DEF Inv, Types, InCall
    <3> QED BY <2>1, <3>1 DEF RoundLeft
  <2>2. CASE pc # "walking"
    BY <2>2 DEF RoundLeft
  <2> QED BY <2>1, <2>2
<1>2. ASSUME Inv, Run PROVE RoundLeft' < RoundLeft
  <2>1. CASE pc = "walking"
    <3>1. i \in Nat \ {0} /\ Len(targets) \in Nat /\ i <= Len(targets) + 1
      BY <1>2, <2>1, LenProperties DEF Inv, Types, InCall
    <3>2. RoundLeft = 5 + (Len(targets) + 1 - i)
      BY <2>1 DEF RoundLeft
    <3>3. CASE Skip \/ Process
      <4>1. pc' = "walking" /\ i' = i + 1 /\ targets' = targets
        BY <2>1, <3>3 DEF Skip, Process
      <4>2. RoundLeft' = 5 + (Len(targets) + 1 - (i + 1))
        BY <4>1 DEF RoundLeft
      <4> QED BY <3>1, <3>2, <4>2
    <3>4. CASE Throw \/ ProviderExits \/ AllProcessed
      <4>1. pc' \in {"written", "exited"}
        BY <3>4 DEF Throw, ProviderExits, AllProcessed
      <4>2. RoundLeft' \in {0, 4}
        BY <4>1 DEF RoundLeft
      <4> QED BY <3>1, <3>2, <4>2
    <3> QED BY <1>2, <2>1, <3>3, <3>4
            DEF Run, ProcessReturns, EmittedReturns, Say, UpdateReturns
  <2>2. CASE pc # "walking"
    <3>1. \/ pc = "written" /\ pc' \in {"processed", "exited"}
          \/ pc = "processed" /\ pc' \in {"emitted", "exited"}
          \/ pc = "emitted" /\ pc' = "said"
          \/ pc = "said" /\ pc' \in {"idle", "exited"}
      BY <1>2, <2>2 DEF Run, Skip, Process, Throw, ProviderExits, AllProcessed, AtTarget,
                        ProcessReturns, EmittedReturns, Say, UpdateReturns, Onward
    <3> QED BY <3>1 DEF RoundLeft
  <2> QED BY <2>1, <2>2
<1>3. Inv /\ [Next]_vars => [Run => RoundLeft' < RoundLeft]_vars
  BY <1>2
<1> QED BY <1>1, <1>3, InvHolds, PTL DEF Spec
=============================================================================
