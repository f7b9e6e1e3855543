---------------------------- MODULE RoundsProofs ----------------------------
(***************************************************************************)
(* Proof that Crew implements Rounds, for all crews, messages,             *)
(* specifications and limits.                                              *)
(***************************************************************************)
EXTENDS CrewProofs, FiniteSetTheorems

(***************************************************************************)
(* Counting.  Had(ts, id, n) is how often the first n of ts name id.       *)
(***************************************************************************)
Naming(ts, id, n) == {j \in 1 .. n : ts[j] = id}
Had(ts, id, n)    == Cardinality(Naming(ts, id, n))

LEMMA NamingIsFinite ==
  ASSUME NEW ts, NEW id, NEW n \in Nat
  PROVE  IsFiniteSet(Naming(ts, id, n)) /\ Had(ts, id, n) \in Nat
<1>1. IsFiniteSet(1 .. n)
  BY FS_Interval
<1>2. Naming(ts, id, n) \subseteq 1 .. n
  BY DEF Naming
<1>3. IsFiniteSet(Naming(ts, id, n))
  BY <1>1, <1>2, FS_Subset
<1> QED BY <1>3, FS_CardinalityType DEF Had

LEMMA HadNone == ASSUME NEW ts, NEW id PROVE Had(ts, id, 0) = 0
<1>1. Naming(ts, id, 0) = {}
  BY DEF Naming
<1> QED BY <1>1, FS_EmptySet DEF Had

LEMMA HadGrows ==
  ASSUME NEW ts, NEW id, NEW n \in Nat \ {0}
  PROVE  Had(ts, id, n) = IF ts[n] = id THEN Had(ts, id, n - 1) + 1 ELSE Had(ts, id, n - 1)
<1>1. n - 1 \in Nat /\ n \notin Naming(ts, id, n - 1)
  BY DEF Naming
<1>2. CASE ts[n] = id
  <2>1. Naming(ts, id, n) = Naming(ts, id, n - 1) \cup {n}
    BY <1>2 DEF Naming
  <2> QED BY <1>1, <1>2, <2>1, NamingIsFinite, FS_AddElement DEF Had
<1>3. CASE ts[n] # id
  <2>1. Naming(ts, id, n) = Naming(ts, id, n - 1)
    BY <1>3 DEF Naming
  <2> QED BY <1>3, <2>1 DEF Had
<1> QED BY <1>2, <1>3

LEMMA HadWithin ==
  ASSUME NEW ts, NEW id, NEW N \in Nat, NEW n \in 0 .. N
  PROVE  Had(ts, id, n) \in 0 .. Had(ts, id, N)
<1>1. Naming(ts, id, n) \subseteq Naming(ts, id, N)
  BY DEF Naming
<1>2. Had(ts, id, n) <= Had(ts, id, N)
  BY <1>1, NamingIsFinite, FS_Subset DEF Had
<1> QED BY <1>2, NamingIsFinite

\* When all targets are done each machine of the crew was walked as often as the
\* message names it.
LEMMA HadAll ==
  ASSUME Inv, pc = "walking", crew # NoMachines, NEW j \in DOMAIN crew
  PROVE  /\ Len(targets) \in Nat
         /\ Had(targets, crew[j].id, Len(targets)) = Times(message, crew[j].id)
<1> DEFINE id == crew[j].id
           N == Len(targets)
<1>1. targets \in Seq(Id) /\ N \in Nat /\ DOMAIN targets = 1 .. N
  BY LenProperties DEF Inv, Types
<1>2. targets = Targets(message, crew)
  BY DEF Inv, InCall
<1>3. CASE message.to # Everyone
  <2>1. targets = message.to
    BY <1>2, <1>3 DEF Targets
  <2>2. Naming(targets, id, N) = {n \in DOMAIN message.to : message.to[n] = id}
    BY <1>1, <2>1 DEF Naming
  <2> QED BY <1>1, <1>3, <2>2 DEF Had, Times
<1>4. CASE message.to = Everyone
  <2>1. targets = [n \in DOMAIN crew |-> crew[n].id]
    BY <1>2, <1>4 DEF Targets
  <2>2. DOMAIN crew = 1 .. N /\ \A n \in DOMAIN crew : targets[n] = crew[n].id
    BY <1>1, <2>1
  <2>3. \A n \in DOMAIN crew : crew[n].id = id => n = j
    BY DEF Inv, NoTwins, Distinct
  <2>4. Naming(targets, id, N) = {j}
    BY <2>2, <2>3 DEF Naming
  <2> QED BY <1>1, <1>4, <2>4, FS_Singleton DEF Had, Times
<1> QED BY <1>1, <1>3, <1>4

LEMMA TimesIsNat ==
  ASSUME NEW m \in Message \ {Unusable}, NEW id
  PROVE  Times(m, id) \in Nat
<1>1. CASE m.to # Everyone
  <2>1. Len(m.to) \in Nat /\ DOMAIN m.to = 1 .. Len(m.to)
    BY <1>1, MessageAssumption, LenProperties
  <2>2. {n \in DOMAIN m.to : m.to[n] = id} = Naming(m.to, id, Len(m.to))
    BY <2>1 DEF Naming
  <2> QED BY <1>1, <2>1, <2>2, NamingIsFinite DEF Times, Had
<1>2. CASE m.to = Everyone
  BY <1>2 DEF Times
<1> QED BY <1>1, <1>2

(***************************************************************************)
(* Walks in a row.                                                         *)
(***************************************************************************)
From(mc, m, b) == Walk(mc.spec, [node |-> mc.node, bs |-> b], m) \ {Threw}
FirstOutcome(mc) == [to |-> StateOf(mc), emitted |-> <<>>, left |-> mc.bs]

LEMMA FromIsWalked ==
  ASSUME NEW mc \in Machine, NEW m \in Message \ {Unusable}, NEW b \in Bs
  PROVE  From(mc, m, b) \subseteq Walked
<1>1. [node |-> mc.node, bs |-> b] \in State /\ mc.spec \in Ref
  BY DEF Machine, State
<1> QED BY <1>1, WalkAssumption DEF From

LEMMA OutcomesAre ==
  ASSUME NEW mc \in Machine, NEW m \in Message \ {Unusable}
  PROVE  /\ Outcomes(mc, m)[0] = {FirstOutcome(mc)}
         /\ \A k \in 1 .. Times(m, mc.id) :
              Outcomes(mc, m)[k] = UNION {From(mc, m, r.left) : r \in Outcomes(mc, m)[k - 1]}
         /\ \A k \in 0 .. Times(m, mc.id) : Outcomes(mc, m)[k] \subseteq Walked
<1> DEFINE N == Times(m, mc.id)
           S == SUBSET Walked
           Next1(o) == UNION {From(mc, m, r.left) : r \in o}
           Is(f) == f = [k \in 0 .. Times(m, mc.id) |->
                           IF k = 0 THEN {[to |-> StateOf(mc), emitted |-> <<>>, left |-> mc.bs]}
                           ELSE UNION {Walk(mc.spec, [node |-> mc.node, bs |-> r.left], m) \ {Threw}
                                         : r \in f[k - 1]}]
           walks == CHOOSE f : Is(f)
           base == {FirstOutcome(mc)}
           step == [k \in 1 .. N |-> [o \in S |-> Next1(o)]]
<1>0. N \in Nat
  BY TimesIsNat
<1>1. base \in S
  <2>1. StateOf(mc) \in State /\ mc.bs \in Bs
    BY DEF StateOf, State, Machine
  <2>2. <<>> \in Seq(Emission)
    BY EmptySeq
  <2> QED BY <2>1, <2>2 DEF FirstOutcome, Walked
<1>2. \A o \in S : Next1(o) \in S
  <2>1. \A o \in S : \A r \in o : r.left \in Bs
    BY DEF Walked
  <2>2. \A o \in S : \A r \in o : From(mc, m, r.left) \subseteq Walked
    BY <2>1, FromIsWalked
  <2> QED BY <2>2
<1>3. step \in [1 .. N -> [S -> S]] /\ \A k \in 1 .. N, o \in S : step[k][o] = Next1(o)
  <2> HIDE DEF Next1, S
  <2> QED BY <1>2
<1>4. PICK f \in [0 .. N -> S] : Steps(f, N, base, step)
  <2> HIDE DEF N, S, base, step
  <2> QED BY <1>0, <1>1, <1>3, StepsExist
<1>5. Is(f)
  <2> SUFFICES ASSUME NEW k \in 0 .. N
               PROVE  f[k] = IF k = 0 THEN base ELSE Next1(f[k - 1])
    BY DEF From, FirstOutcome
  <2>1. CASE k = 0
    BY <1>4, <2>1 DEF Steps
  <2>2. CASE k # 0
    <3> HIDE DEF step, Next1, S, base, N
    <3>1. k \in 1 .. N /\ f[k - 1] \in S
      BY <1>0, <2>2
    <3>2. f[k] = step[k][f[k - 1]]
      BY <1>4, <3>1 DEF Steps
    <3> QED BY <1>3, <2>2, <3>1, <3>2
  <2> QED BY <2>1, <2>2
<1>6. Is(walks)
  <2> HIDE DEF Is
  <2> QED BY <1>5, Zenon
<1>7. Outcomes(mc, m) = walks
  BY DEF Outcomes
<1> HIDE DEF walks
<1>8. walks[0] = base /\ \A k \in 1 .. N : walks[k] = Next1(walks[k - 1])
  <2>1. walks = [k \in 0 .. N |-> IF k = 0 THEN base ELSE Next1(walks[k - 1])]
    BY <1>6, Zenon DEF From, FirstOutcome
  <2> HIDE DEF Is, N, base, Next1
  <2>3. 0 \in 0 .. N /\ \A k \in 1 .. N : k \in 0 .. N /\ k # 0
    BY <1>0
  <2>2. \A k \in 0 .. N : walks[k] = IF k = 0 THEN base ELSE Next1(walks[k - 1])
    BY <2>1, Zenon
  <2> QED BY <2>2, <2>3
<1>9. \A k \in 0 .. N : walks[k] \in S
  <2> HIDE DEF S, Next1, base, Is
  <2>1. \A k \in 1 .. N : walks[k - 1] \in S => walks[k] \in S
    BY <1>2, <1>8
  <2> QED BY <1>0, <1>1, <1>8, <2>1, StepsStay
<1> QED BY <1>7, <1>8, <1>9

(***************************************************************************)
(* Where the machines are in their walks.  While the call runs a machine   *)
(* of the call is the crew's, but for the bindings that its last walk      *)
(* left; its entry holds what that walk returned.                          *)
(***************************************************************************)
Bears(t, mc, r) ==
  \A n \in DOMAIN t : t[n].id = mc.id => t[n].to = r.to /\ t[n].emitted = r.emitted
Reaching(j) ==
  \E r \in Outcomes(crew[j], message)[Had(targets, crew[j].id, i - 1)] :
    machines[j].bs = r.left /\ Bears(text, crew[j], r)
Alike(mc, other) == mc.id = other.id /\ mc.spec = other.spec /\ mc.node = other.node
Chained ==
  /\ DOMAIN machines = DOMAIN crew
  /\ \A j \in DOMAIN crew : Alike(machines[j], crew[j]) /\ Reaching(j)
Answered(t) ==
  \A j \in DOMAIN crew : \E r \in LastOutcomes(message, crew[j]) : Bears(t, crew[j], r)
ChainInv ==
  crew # NoMachines =>
    /\ pc = "walking" => Chained
    /\ pc = "written" /\ text # ErrorText => Answered(text)
    /\ pc \in {"processed", "emitted", "said"} /\ steppeds # ErrorText => Answered(steppeds)

LEMMA CrewFacts ==
  ASSUME Inv, crew # NoMachines
  PROVE  /\ crew \in Seq(Machine) /\ Distinct(crew)
         /\ \A j \in DOMAIN crew : crew[j] \in Machine
<1>1. crew \in Seq(Machine)
  BY DEF Inv, Types, CrewText
<1> QED BY <1>1 DEF Inv, NoTwins

\* A call begins with the machines as the crew has them.
LEMMA ReceiveChains ==
  ASSUME Inv, NEW m \in Message \ {Unusable}, Receive(m), crew # NoMachines
  PROVE  Chained'
<1>1. /\ machines' = crew /\ i' = 1 /\ text' = <<>> /\ crew' = crew /\ message' = m
  BY DEF Receive
<1>2. ASSUME NEW j \in DOMAIN crew PROVE Alike(machines[j], crew[j])' /\ Reaching(j)'
  <2>1. Had(targets', crew[j].id, 0) = 0
    BY HadNone
  <2>2. FirstOutcome(crew[j]) \in Outcomes(crew[j], m)[0]
    BY CrewFacts, OutcomesAre
  <2>3. Bears(<<>>, crew[j], FirstOutcome(crew[j]))
    BY DEF Bears
  <2>4. crew[j].bs = FirstOutcome(crew[j]).left
    BY DEF FirstOutcome
  <2>5. i' - 1 = 0
    BY <1>1
  <2> HIDE DEF FirstOutcome
  <2>6. \E r \in Outcomes(crew'[j], message')[Had(targets', crew'[j].id, i' - 1)] :
          machines'[j].bs = r.left /\ Bears(text', crew'[j], r)
    BY <1>1, <2>1, <2>2, <2>3, <2>4, <2>5
  <2> QED BY <1>1, <2>6 DEF Reaching, Alike, Bears
<1> QED BY <1>1, <1>2 DEF Chained

\* The machine that is walked again starts from what its last walk left.
LEMMA ProcessChains ==
  ASSUME Inv, Chained, Process, crew # NoMachines
  PROVE  Chained'
<1> DEFINE id == targets[i]
           p  == Place(machines, id)
           k  == Had(targets, id, i - 1)
<1>1. /\ UNCHANGED <<targets, crew, message>> /\ pc = "walking" /\ AtTarget
      /\ i' = i + 1 /\ i \in Nat \ {0}
  BY DEF Process, AtTarget, hostVars, Inv, Types
<1>2. /\ id \in Ids(machines) /\ machines \in Seq(Machine)
      /\ p \in DOMAIN machines /\ machines[p].id = id /\ mach = machines[p] /\ mach \in Machine
  BY <1>1, TargetFacts, PlaceIsThere DEF Process, Inv, InCall, mach
<1>3. PICK r \in Walk(mach.spec, StateOf(mach), message) \ {Threw} :
        /\ text' = Put(text, id, r)
        /\ machines' = [machines EXCEPT ![p].bs = r.left]
  BY DEF Process
<1>4. message \in Message \ {Unusable} /\ text \in Seq(Stepped) /\ id \in Id
  <2>1. id \in Id
    BY <1>1, <1>2, TargetFacts DEF Inv, InCall
  <2> QED BY <1>1, <2>1 DEF Inv, Types, InCall
<1>5. DOMAIN machines = DOMAIN crew /\ p \in DOMAIN crew /\ crew[p].id = id
  BY <1>2 DEF Chained, Alike
<1>6. \A j \in DOMAIN crew : crew[j].id = id => j = p
  BY <1>5, CrewFacts DEF Distinct
<1>7. PICK last \in Outcomes(crew[p], message)[k] : machines[p].bs = last.left
  BY <1>5 DEF Chained, Reaching
<1>8. k + 1 \in 1 .. Times(message, id) /\ k \in Nat /\ k + 1 = Had(targets, id, i' - 1)
  <2>1. i \in 0 .. Len(targets) /\ Len(targets) \in Nat
    BY <1>1, LenProperties DEF Inv, Types, AtTarget
  <2>2. Had(targets, id, i) = k + 1
    BY <1>1, HadGrows
  <2>3. Had(targets, id, Len(targets)) = Times(message, id)
    BY <1>1, <1>5, HadAll
  <2>4. k \in Nat
    BY <1>1, NamingIsFinite
  <2>5. Had(targets, id, i) \in 0 .. Times(message, id)
    BY <2>1, <2>3, HadWithin
  <2>6. i' - 1 = i
    BY <1>1
  <2> HIDE DEF k, id
  <2> QED BY <2>2, <2>4, <2>5, <2>6
<1>9. r \in Outcomes(crew[p], message)[k + 1] /\ r \in Walked
  <2>1. StateOf(mach) = [node |-> crew[p].node, bs |-> last.left] /\ mach.spec = crew[p].spec
    BY <1>2, <1>5, <1>7 DEF Chained, Alike, StateOf
  <2>2. r \in From(crew[p], message, last.left)
    BY <1>3, <2>1 DEF From
  <2>3. crew[p] \in Machine
    BY <1>5, CrewFacts
  <2> HIDE DEF k, p, id
  <2>4. k + 1 - 1 = k
    BY <1>8
  <2>5. Outcomes(crew[p], message)[k + 1]
          = UNION {From(crew[p], message, x.left) : x \in Outcomes(crew[p], message)[k]}
    BY <1>4, <1>5, <1>8, <2>3, <2>4, OutcomesAre
  <2>6. k + 1 \in 0 .. Times(message, crew[p].id)
    BY <1>5, <1>8
  <2>7. Outcomes(crew[p], message)[k + 1] \subseteq Walked
    BY <1>4, <2>3, <2>6, OutcomesAre
  <2> QED BY <1>7, <2>2, <2>5, <2>7
<1>10. \A n \in DOMAIN text' :
         IF text'[n].id = id THEN text'[n].to = r.to /\ text'[n].emitted = r.emitted
         ELSE n \in DOMAIN text /\ text'[n] = text[n]
  BY <1>3, <1>4, <1>9, PutEntries
<1>11. /\ DOMAIN machines' = DOMAIN machines
       /\ \A j \in DOMAIN machines : Alike(machines'[j], machines[j])
       /\ \A j \in DOMAIN machines : j # p => machines'[j] = machines[j]
       /\ machines'[p].bs = r.left
  <2>1. \A j \in DOMAIN machines : machines[j] \in Machine
    BY <1>2
  <2> HIDE DEF p
  <2> QED BY <1>2, <1>3, <2>1 DEF Machine, Alike
<1>12. ASSUME NEW j \in DOMAIN crew PROVE Alike(machines[j], crew[j])' /\ Reaching(j)'
  <2>1. Alike(machines'[j], crew[j])
    BY <1>5, <1>11, <1>12 DEF Chained, Alike
  <2>2. CASE j = p
    <3>1. Bears(text', crew[j], r)
      BY <1>5, <1>10, <2>2 DEF Bears
    <3> HIDE DEF p, k, id
    <3>2. r \in Outcomes(crew[j], message)[Had(targets, crew[j].id, i' - 1)]
      BY <1>5, <1>8, <1>9, <2>2
    <3>3. Reaching(j)'
      BY <1>1, <1>11, <2>2, <3>1, <3>2 DEF Reaching, Bears
    <3> QED BY <1>1, <2>1, <3>3 DEF Alike
  <2>3. CASE j # p
    <3>1. crew[j].id # id
      BY <1>6, <2>3
    <3>2. PICK s \in Outcomes(crew[j], message)[Had(targets, crew[j].id, i - 1)] :
            machines[j].bs = s.left /\ Bears(text, crew[j], s)
      BY DEF Chained, Reaching
    <3>3. Had(targets, crew[j].id, i' - 1) = Had(targets, crew[j].id, i - 1)
      <4>1. i' - 1 = i
        BY <1>1
      <4> QED BY <1>1, <3>1, <4>1, HadGrows
    <3>4. Bears(text', crew[j], s)
      BY <1>10, <3>1, <3>2 DEF Bears
    <3>5. machines'[j] = machines[j]
      BY <1>5, <1>11, <2>3
    <3> HIDE DEF p, k, id
    <3>6. Reaching(j)'
      BY <1>1, <3>2, <3>3, <3>4, <3>5 DEF Reaching, Bears
    <3> QED BY <1>1, <2>1, <3>6 DEF Alike
  <2> QED BY <2>2, <2>3
<1> QED BY <1>1, <1>5, <1>11, <1>12 DEF Chained

\* A target that is no machine of the crew changes nothing.
LEMMA SkipChains ==
  ASSUME Inv, Chained, Skip, crew # NoMachines
  PROVE  Chained'
<1>1. /\ UNCHANGED <<targets, crew, message, machines, text>> /\ pc = "walking"
      /\ i' = i + 1 /\ i \in Nat \ {0} /\ targets[i] \notin Ids(crew)
  BY DEF Skip, AtTarget, hostVars, Inv, Types, InCall
<1>2. ASSUME NEW j \in DOMAIN crew PROVE Reaching(j)'
  <2>1. crew[j].id # targets[i]
    BY <1>1 DEF Ids
  <2>2. Had(targets, crew[j].id, i' - 1) = Had(targets, crew[j].id, i - 1)
    <3>1. i' - 1 = i
      BY <1>1
    <3> QED BY <1>1, <2>1, <3>1, HadGrows
  <2>3. Reaching(j)
    BY DEF Chained
  <2> QED BY <1>1, <2>2, <2>3 DEF Reaching, Bears
<1> QED BY <1>1, <1>2 DEF Chained, Alike

\* After the last target the entries are the answers.
LEMMA ChainsEnd ==
  ASSUME Inv, Chained, pc = "walking", i > Len(targets), crew # NoMachines
  PROVE  Answered(text)
<1>1. i - 1 = Len(targets)
  BY LenProperties DEF Inv, Types, InCall
<1> SUFFICES ASSUME NEW j \in DOMAIN crew
             PROVE  \E r \in LastOutcomes(message, crew[j]) : Bears(text, crew[j], r)
  BY DEF Answered
<1>2. Had(targets, crew[j].id, i - 1) = Times(message, crew[j].id)
  BY <1>1, HadAll
<1>3. Reaching(j)
  BY DEF Chained
<1> QED BY <1>2, <1>3 DEF Reaching, LastOutcomes

LEMMA AnsweredStays ==
  ASSUME UNCHANGED <<crew, message>>
  PROVE  /\ text' = text /\ Answered(text) => Answered(text)'
         /\ steppeds' = text /\ Answered(text) => Answered(steppeds)'
         /\ steppeds' = steppeds /\ Answered(steppeds) => Answered(steppeds)'
BY DEF Answered, Bears

LEMMA ChainNext == ASSUME Inv, ChainInv, [Next]_vars PROVE ChainInv'
<1> SUFFICES ASSUME crew' # NoMachines
             PROVE  /\ pc' = "walking" => Chained'
                    /\ pc' = "written" /\ text' # ErrorText => Answered(text)'
                    /\ pc' \in {"processed", "emitted", "said"} /\ steppeds' # ErrorText
                         => Answered(steppeds)'
  BY DEF ChainInv
<1>1. CASE pc' \in {"idle", "exited"}
  BY <1>1
<1>2. ASSUME NEW m \in Message, Receive(m), m # Unusable
      PROVE  pc' = "walking" /\ Chained'
  BY <1>2, ReceiveChains DEF Receive
<1>3. ASSUME NEW m \in Message, Receive(m), m = Unusable
      PROVE  pc' = "written" /\ text' = ErrorText
  BY <1>3 DEF Receive
<1>4. CASE Process \/ Skip
  <2>1. pc' = "walking" /\ pc = "walking" /\ UNCHANGED crew
    BY <1>4 DEF Process, Skip, AtTarget, hostVars
  <2> QED BY <1>4, <2>1, ProcessChains, SkipChains DEF ChainInv
<1>5. CASE UNCHANGED vars
  <2>1. UNCHANGED <<pc, crew, message, machines, text, steppeds, targets, i>>
    BY <1>5 DEF vars, hostVars, callVars
  <2>2. Chained => Chained'
    BY <2>1 DEF Chained, Reaching, Bears, Alike
  <2> QED BY <2>1, <2>2, AnsweredStays DEF ChainInv
<1>6. CASE Throw
  BY <1>6 DEF Throw, Thrown
<1>7. CASE AllProcessed
  <2>1. pc = "walking" /\ pc' = "written" /\ UNCHANGED <<crew, message, text>> /\ i > Len(targets)
    BY <1>7 DEF AllProcessed, hostVars, callVars
  <2> QED BY <2>1, ChainsEnd, AnsweredStays DEF ChainInv
<1>8. CASE ProcessReturns
  <2>1. UNCHANGED <<crew, message>> /\ pc = "written"
    BY <1>8 DEF ProcessReturns
  <2>2. pc' = "exited" \/ (pc' = "processed" /\ steppeds' = text)
    BY <1>8 DEF ProcessReturns, Onward, Result
  <2> QED BY <2>1, <2>2, AnsweredStays DEF ChainInv
<1>9. CASE EmittedReturns \/ Say
  <2>1. UNCHANGED <<crew, message, steppeds>> /\ pc \in {"processed", "emitted"}
    BY <1>9 DEF EmittedReturns, Say
  <2>2. pc' \in {"emitted", "said", "exited"}
    BY <1>9 DEF EmittedReturns, Say, Onward
  <2> QED BY <2>1, <2>2, AnsweredStays DEF ChainInv
<1>10. Change \/ UpdateReturns \/ ProviderExits \/ Exited => pc' \in {"idle", "exited"}
  BY DEF Change, SetMachine, RemMachine, UpdateReturns, ProviderExits, Exited, Onward, vars
<1> QED
  BY <1>1, <1>2, <1>3, <1>4, <1>5, <1>6, <1>7, <1>8, <1>9, <1>10 DEF Next, Call, Run

LEMMA ChainHolds == Spec => []ChainInv
<1>1. Init => ChainInv
  BY DEF Init, ChainInv
<1>2. Inv /\ ChainInv /\ [Next]_vars => ChainInv'
  BY ChainNext
<1> QED BY <1>1, <1>2, InvHolds, PTL DEF Spec

(***************************************************************************)
(* The mapping.                                                            *)
(***************************************************************************)
IsCrew(c) == c \in CrewText /\ (c # NoMachines => Distinct(c))

LEMMA CrewIsCrew == ASSUME Inv PROVE IsCrew(crew)
BY DEF Inv, Types, NoTwins, IsCrew

LEMMA ByIdIs ==
  ASSUME NEW c, IsCrew(c)
  PROVE  /\ ById(c) = [id \in Ids(c) |-> ById(c)[id]] /\ DOMAIN ById(c) = Ids(c)
         /\ c # NoMachines => \A j \in DOMAIN c : ById(c)[c[j].id] = c[j]
<1>1. ASSUME c # NoMachines, NEW j \in DOMAIN c
      PROVE  ById(c)[c[j].id] = c[j]
  <2>1. c \in Seq(Machine) /\ Distinct(c) /\ c[j].id \in Ids(c)
    BY <1>1 DEF IsCrew, CrewText, Ids
  <2>2. Place(c, c[j].id) \in DOMAIN c /\ c[Place(c, c[j].id)].id = c[j].id
    BY <2>1, PlaceIsThere
  <2>3. Place(c, c[j].id) = j
    BY <2>1, <2>2 DEF Distinct
  <2> QED BY <2>1, <2>3 DEF ById
<1> QED BY <1>1 DEF ById

\* A function that has the crew's machines at their ids is the crew by ids.
LEMMA IsById ==
  ASSUME NEW c, IsCrew(c), c # NoMachines,
         NEW g, g = [id \in Ids(c) |-> g[id]], \A j \in DOMAIN c : g[c[j].id] = c[j]
  PROVE  ById(c) = g
<1>1. ASSUME NEW id \in Ids(c) PROVE ById(c)[id] = g[id]
  <2>1. PICK j \in DOMAIN c : c[j].id = id
    BY DEF Ids
  <2>2. ById(c)[c[j].id] = c[j]
    BY ByIdIs
  <2> QED BY <2>1, <2>2
<1> QED BY <1>1, ByIdIs

LEMMA NowIs ==
  ASSUME pc \in {"idle", "walking", "written", "processed", "emitted", "said", "exited"}
  PROVE  /\ pc = "idle" => RoundNow = "idle" /\ MessageNow = Unusable /\ AnswersNow = <<>>
         /\ pc \in {"walking", "written", "processed", "emitted"} =>
              RoundNow = "asked" /\ MessageNow = message /\ AnswersNow = <<>>
         /\ pc = "said" => RoundNow = "told" /\ MessageNow = message /\ AnswersNow = steppeds
         /\ pc = "exited" => RoundNow = "over" /\ MessageNow = Unusable /\ AnswersNow = <<>>
<1>1. pc = "idle" => RoundNow = "idle"
  BY DEF RoundNow
<1>2. pc \in {"walking", "written", "processed", "emitted"} => RoundNow = "asked"
  BY DEF RoundNow
<1>3. pc = "said" => RoundNow = "told"
  BY DEF RoundNow
<1>4. pc = "exited" => RoundNow = "over"
  BY DEF RoundNow
<1> QED BY <1>1, <1>2, <1>3, <1>4 DEF MessageNow, AnswersNow

\* Between rounds the host has printed nothing.
Quiet == pc # "said" => said = <<>>

LEMMA QuietHolds == Spec => []Quiet
<1>1. Init => Quiet
  BY DEF Init, Quiet
<1>2. Quiet /\ [Next]_vars => Quiet'
  BY DEF Quiet, Next, Change, SetMachine, RemMachine, Call, Receive, Run, Skip, Process, Throw,
         ProviderExits, AllProcessed, AtTarget, ProcessReturns, EmittedReturns, Say,
         UpdateReturns, Exited, vars, hostVars, callVars, Onward, Result
<1> QED BY <1>1, <1>2, PTL DEF Spec

(***************************************************************************)
(* The steps.                                                              *)
(***************************************************************************)
LEMMA RoundsInit == ASSUME Init PROVE Abstract!Init
<1>1. RoundNow = "idle" /\ MessageNow = Unusable /\ AnswersNow = <<>>
  BY NowIs DEF Init
<1> QED BY <1>1 DEF Init, Abstract!Init

\* mach_set_machine sets one machine of the crew.
LEMMA SetRefines ==
  ASSUME Inv, Inv', NEW id \in Id, NEW ref \in Ref, NEW s \in Fresh, SetMachine(id, ref, s)
  PROVE  Abstract!Next
<1> DEFINE mc == [id |-> id, spec |-> ref, node |-> s.node, bs |-> s.bs]
           g  == [x \in DOMAIN ById(crew) \cup {mc.id} |->
                    IF x = mc.id THEN mc ELSE ById(crew)[x]]
<1>1. mc \in Machine /\ mc.id = id
  BY FreshAssumption DEF Machine, State
<1>2. /\ UNCHANGED <<pc, message, steppeds, said>> /\ pc = "idle"
      /\ IsCrew(crew) /\ IsCrew(crew')
  BY CrewIsCrew DEF SetMachine, Inv, Types, NoTwins, IsCrew, Distinct
<1>3. DOMAIN ById(crew) = Ids(crew)
  BY <1>2, ByIdIs
<1>4. /\ crew' # NoMachines /\ Ids(crew') = Ids(crew) \cup {id}
      /\ \A j \in DOMAIN crew' : g[crew'[j].id] = crew'[j]
  <2>1. CASE id \in Ids(crew)
    <3> DEFINE p == Place(crew, id)
    <3>1. crew \in Seq(Machine) /\ crew # NoMachines /\ Distinct(crew)
      BY <1>2, <2>1 DEF IsCrew, CrewText, Ids
    <3>2. p \in DOMAIN crew /\ crew[p].id = id
      BY <2>1, <3>1, PlaceIsThere
    <3>3. crew' = [crew EXCEPT ![p] = mc]
      BY <2>1, <3>1 DEF SetMachine
    <3>4. \A j \in DOMAIN crew : ById(crew)[crew[j].id] = crew[j]
      BY <1>2, <3>1, ByIdIs
    <3> HIDE DEF mc, p
    <3>5. DOMAIN crew' = DOMAIN crew /\ \A j \in DOMAIN crew : crew'[j].id = crew[j].id
      BY <1>1, <3>2, <3>3
    <3>6. crew' # NoMachines
      <4>1. crew' \in Seq(Machine)
        BY <1>1, <3>1, <3>2, <3>3, Setting
      <4> QED BY <4>1, NamesAssumption
    <3>7. Ids(crew') = Ids(crew)
      BY <3>1, <3>5, <3>6 DEF Ids
    <3>8. \A j \in DOMAIN crew : crew[j].id \in Ids(crew) /\ (crew[j].id = id => j = p)
      BY <3>1, <3>2 DEF Ids, Distinct
    <3>9. \A j \in DOMAIN crew : g[crew[j].id] = crew'[j]
      BY <1>1, <1>3, <3>2, <3>3, <3>4, <3>8
    <3> QED BY <2>1, <3>5, <3>6, <3>7, <3>9
  <2>2. CASE id \notin Ids(crew) /\ crew # NoMachines
    <3>1. crew \in Seq(Machine) /\ crew' = Append(crew, mc)
      BY <1>2, <2>2 DEF SetMachine, IsCrew, CrewText
    <3>2. \A j \in DOMAIN crew : /\ ById(crew)[crew[j].id] = crew[j]
                                 /\ crew[j].id \in Ids(crew) /\ crew[j].id # id
      BY <1>2, <2>2, ByIdIs DEF Ids
    <3> HIDE DEF mc
    <3>3. /\ crew' \in Seq(Machine) /\ DOMAIN crew' = DOMAIN crew \cup {Len(crew) + 1}
          /\ \A j \in DOMAIN crew : crew'[j] = crew[j]
          /\ crew'[Len(crew) + 1] = mc
      BY <1>1, <3>1, AppendProperties
    <3>4. crew' # NoMachines
      BY <3>3, NamesAssumption
    <3>5. Ids(crew') = Ids(crew) \cup {id}
      BY <1>1, <2>2, <3>3, <3>4 DEF Ids
    <3>6. \A j \in DOMAIN crew : g[crew[j].id] = crew[j]
      BY <1>1, <1>3, <3>2
    <3>7. g[id] = mc
      BY <1>1
    <3> QED BY <1>1, <3>3, <3>4, <3>5, <3>6, <3>7
  <2>3. CASE id \notin Ids(crew) /\ crew = NoMachines
    <3>1. crew' = <<mc>>
      BY <2>3 DEF SetMachine
    <3> HIDE DEF mc
    <3>2. crew' # NoMachines
      <4>1. <<mc>> \in Seq(Machine)
        BY <1>1
      <4> QED BY <3>1, <4>1, NamesAssumption
    <3>3. DOMAIN crew' = {1} /\ crew'[1] = mc
      BY <3>1
    <3>4. Ids(crew) = {} /\ Ids(crew') = {id}
      BY <1>1, <2>3, <3>2, <3>3 DEF Ids
    <3> QED BY <1>1, <1>3, <3>2, <3>3, <3>4
  <2> QED BY <2>1, <2>2, <2>3
<1>5. ById(crew') = g
  <2>1. g = [x \in Ids(crew') |-> g[x]]
    BY <1>1, <1>3, <1>4
  <2> HIDE DEF g
  <2> QED BY <1>2, <1>4, <2>1, IsById
<1>6. RoundNow' = RoundNow /\ MessageNow' = MessageNow /\ AnswersNow' = AnswersNow /\ RoundNow = "idle"
  BY <1>2 DEF RoundNow, MessageNow, AnswersNow
<1>7. Abstract!Set(mc)
  BY <1>2, <1>5, <1>6 DEF Abstract!Set
<1> QED BY <1>1, <1>7 DEF Abstract!Next

\* mach_rem_machine removes one, or does nothing.
LEMMA RemRefines ==
  ASSUME Inv, Inv', NEW id \in Id, RemMachine(id)
  PROVE  Abstract!Next \/ UNCHANGED Abstract!vars
<1>1. /\ UNCHANGED <<pc, message, steppeds, said>> /\ pc = "idle"
      /\ IsCrew(crew) /\ IsCrew(crew')
  BY CrewIsCrew DEF RemMachine, Inv, Types, NoTwins, IsCrew, Distinct
<1>2. RoundNow' = RoundNow /\ MessageNow' = MessageNow /\ AnswersNow' = AnswersNow /\ RoundNow = "idle"
  BY <1>1 DEF RoundNow, MessageNow, AnswersNow
<1>3. CASE id \notin Ids(crew)
  <2>1. crew' = crew
    BY <1>3 DEF RemMachine
  <2> QED BY <1>1, <1>2, <2>1 DEF Abstract!vars
<1>4. CASE id \in Ids(crew)
  <2> DEFINE p == Place(crew, id)
             g == [x \in DOMAIN ById(crew) \ {crew[p].id} |-> ById(crew)[x]]
  <2>1. crew \in Seq(Machine) /\ crew # NoMachines /\ Distinct(crew)
    BY <1>1, <1>4 DEF IsCrew, CrewText, Ids
  <2>2. p \in DOMAIN crew /\ crew[p].id = id /\ crew[p] \in Machine
    BY <1>4, <2>1, PlaceIsThere
  <2>3. crew' = Without(crew, p)
    BY <1>4 DEF RemMachine
  <2>4. crew' \in Seq(Machine) /\ crew' # NoMachines
    BY <2>1, <2>2, <2>3, Removing, NamesAssumption
  <2> HIDE DEF p
  <2>5. Len(crew) \in Nat /\ DOMAIN crew = 1 .. Len(crew) /\ p \in 1 .. Len(crew)
    BY <2>1, <2>2, LenProperties
  <2>6. /\ DOMAIN crew' = 1 .. Len(crew) - 1
        /\ \A j \in 1 .. Len(crew) - 1 : crew'[j] = IF j < p THEN crew[j] ELSE crew[j + 1]
    BY <2>3 DEF Without
  <2>7. \A j \in DOMAIN crew' : \E n \in DOMAIN crew \ {p} : crew'[j] = crew[n]
    <3> SUFFICES ASSUME NEW j \in DOMAIN crew'
                 PROVE  \E n \in DOMAIN crew \ {p} : crew'[j] = crew[n]
      OBVIOUS
    <3>1. CASE j < p
      BY <2>5, <2>6, <3>1
    <3>2. CASE ~(j < p)
      <4>1. j + 1 \in DOMAIN crew \ {p} /\ crew'[j] = crew[j + 1]
        BY <2>5, <2>6, <3>2
      <4> QED BY <4>1
    <3> QED BY <3>1, <3>2
  <2>8. \A n \in DOMAIN crew \ {p} : \E j \in DOMAIN crew' : crew'[j] = crew[n]
    <3> SUFFICES ASSUME NEW n \in DOMAIN crew \ {p}
                 PROVE  \E j \in DOMAIN crew' : crew'[j] = crew[n]
      OBVIOUS
    <3>1. CASE n < p
      BY <2>5, <2>6, <3>1
    <3>2. CASE ~(n < p)
      <4>1. n - 1 \in DOMAIN crew' /\ crew'[n - 1] = crew[n]
        BY <2>5, <2>6, <3>2
      <4> QED BY <4>1
    <3> QED BY <3>1, <3>2
  <2>9. \A n \in DOMAIN crew \ {p} : crew[n].id \in Ids(crew) /\ crew[n].id # id
    BY <2>1, <2>2 DEF Ids, Distinct
  <2>10. Ids(crew') = Ids(crew) \ {id}
    BY <2>1, <2>2, <2>4, <2>7, <2>8, <2>9 DEF Ids
  <2>11. DOMAIN ById(crew) = Ids(crew) /\ \A n \in DOMAIN crew : ById(crew)[crew[n].id] = crew[n]
    BY <1>1, <2>1, ByIdIs
  <2>12. \A j \in DOMAIN crew' : g[crew'[j].id] = crew'[j]
    BY <2>2, <2>7, <2>9, <2>11
  <2>13. g = [x \in Ids(crew') |-> g[x]]
    BY <2>2, <2>10, <2>11
  <2>14. ById(crew') = g
    <3> HIDE DEF g
    <3> QED BY <1>1, <2>4, <2>12, <2>13, IsById
  <2>15. Abstract!Remove(crew[p].id)
    BY <1>1, <1>2, <2>14 DEF Abstract!Remove
  <2> QED BY <2>2, <2>15 DEF Abstract!Next
<1> QED BY <1>3, <1>4

\* mach_crew_process is given a message: what it does with it is not seen yet.
LEMMA ReceiveRefines ==
  ASSUME Inv, NEW m \in Message, Receive(m)
  PROVE  Abstract!Next
<1>1. /\ UNCHANGED <<crew, said>> /\ message' = m /\ pc = "idle"
      /\ pc' \in {"walking", "written"}
  BY DEF Receive
<1>2. RoundNow = "idle" /\ AnswersNow = <<>>
  BY <1>1 DEF RoundNow, AnswersNow
<1>3. RoundNow' = "asked"
  BY <1>1 DEF RoundNow
<1>4. MessageNow' = m /\ AnswersNow' = <<>>
  BY <1>1, <1>3 DEF MessageNow, AnswersNow
<1>5. ById(crew)' = ById(crew)
  BY <1>1
<1>6. Abstract!Ask(m)
  BY <1>1, <1>2, <1>3, <1>4, <1>5 DEF Abstract!Ask
<1> QED BY <1>6 DEF Abstract!Next

\* Nor is anything between that and what the host prints.
LEMMA WorkRefines ==
  ASSUME pc \in {"walking", "written", "processed"},
         pc' \in {"walking", "written", "processed", "emitted"},
         UNCHANGED <<crew, message, said>>
  PROVE  UNCHANGED Abstract!vars
<1>1. RoundNow = "asked" /\ RoundNow' = "asked"
  BY DEF RoundNow
<1>2. MessageNow' = MessageNow /\ AnswersNow' = AnswersNow
  BY <1>1 DEF MessageNow, AnswersNow
<1> QED BY <1>1, <1>2 DEF Abstract!vars

\* Wherever the host exits the crew it has is the one it asked.
LEMMA ExitRefines ==
  ASSUME pc \in {"walking", "written", "processed", "said"}, pc' = "exited",
         crew' = crew, said' = <<>>
  PROVE  Abstract!Next
<1>1. RoundNow \in {"asked", "told"} /\ RoundNow' = "over"
  BY DEF RoundNow
<1>2. MessageNow' = Unusable /\ AnswersNow' = <<>>
  BY <1>1 DEF MessageNow, AnswersNow
<1>3. ById(crew)' = ById(crew)
  OBVIOUS
<1>4. Abstract!GiveUp
  BY <1>1, <1>2, <1>3 DEF Abstract!GiveUp, Abstract!Stop
<1> QED BY <1>4 DEF Abstract!Next

\* What the host prints is what every machine that the message is for emitted.
LEMMA SayRefines ==
  ASSUME Inv, ChainInv, Speech, Say
  PROVE  Abstract!Next
<1>1. /\ UNCHANGED <<crew, message, steppeds>> /\ pc = "emitted" /\ pc' = "said"
      /\ steppeds # ErrorText /\ steppeds \in Seq(Stepped)
      /\ IsCrew(crew)
  BY CrewIsCrew DEF Say, Inv, InHost, Types
<1>2. RoundNow = "asked" /\ RoundNow' = "told"
  BY <1>1 DEF RoundNow
<1>3. MessageNow = message /\ MessageNow' = message /\ AnswersNow' = steppeds
  BY <1>1, <1>2 DEF MessageNow, AnswersNow
<1>4. said' = GetEmitted(steppeds)
  BY <1>1, SaySpeech DEF Speech
<1>5. Named(steppeds) = Addressed(message) \cap Ids(crew) /\ Distinct(steppeds)
  BY <1>1 DEF Inv, InHost, Whole
<1>6. DOMAIN ById(crew) = Ids(crew)
  BY <1>1, ByIdIs
<1>7. {steppeds[j].id : j \in DOMAIN steppeds} = Reaches(message, DOMAIN ById(crew))
  BY <1>5, <1>6 DEF Named, Addressed, Reaches
<1>8. ASSUME NEW j \in DOMAIN steppeds
      PROVE  \E r \in LastOutcomes(message, ById(crew)[steppeds[j].id]) :
               steppeds[j].to = r.to /\ steppeds[j].emitted = r.emitted
  <2>1. steppeds[j].id \in Ids(crew)
    BY <1>5 DEF Named
  <2>2. crew # NoMachines
    BY <2>1 DEF Ids
  <2>3. PICK n \in DOMAIN crew : crew[n].id = steppeds[j].id
    BY <2>1, <2>2 DEF Ids
  <2>4. PICK r \in LastOutcomes(message, crew[n]) : Bears(steppeds, crew[n], r)
    BY <1>1, <2>2 DEF ChainInv, Answered
  <2>5. ById(crew)[crew[n].id] = crew[n]
    BY <1>1, <2>2, ByIdIs
  <2> QED BY <2>3, <2>4, <2>5 DEF Bears
<1>9. Abstract!Complete(steppeds)
  BY <1>3, <1>5, <1>7, <1>8 DEF Abstract!Complete, Distinct
<1>10. Abstract!Joined(steppeds) = GetEmitted(steppeds)
  BY DEF Abstract!Joined, GetEmitted
<1>11. ById(crew)' = ById(crew)
  BY <1>1
<1>12. Abstract!Tell
  BY <1>2, <1>3, <1>4, <1>9, <1>10, <1>11 DEF Abstract!Tell
<1> QED BY <1>12 DEF Abstract!Next

\* The crew moves as its machines have answered.
LEMMA UpdateRefines ==
  ASSUME Inv, Inv', UpdateReturns
  PROVE  Abstract!Next
<1>1. /\ pc = "said" /\ message' = Unusable /\ steppeds' = <<>> /\ said' = <<>>
      /\ steppeds # ErrorText /\ Distinct(steppeds)
      /\ Named(steppeds) \subseteq Ids(crew)
      /\ IsCrew(crew) /\ IsCrew(crew')
  BY CrewIsCrew DEF UpdateReturns, Inv, InHost, Whole, Types, NoTwins, IsCrew, Distinct
<1>2. CASE pc' = "exited"
  <2>1. crew' = crew
    BY <1>2 DEF UpdateReturns, Onward, Result
  <2> QED BY <1>1, <1>2, <2>1, ExitRefines
<1>3. CASE pc' # "exited"
  <2>1. pc' = "idle" /\ crew' = Updated
    <3>1. Updatable
      BY <1>1 DEF Updatable, Named
    <3> QED BY <1>3, <3>1 DEF UpdateReturns, Onward, Result, CrewUpdate
  <2>2. RoundNow = "told" /\ RoundNow' = "idle"
    BY <1>1, <2>1 DEF RoundNow
  <2>3. MessageNow' = Unusable /\ AnswersNow' = <<>> /\ AnswersNow = steppeds
    BY <1>1, <2>1, <2>2 DEF MessageNow, AnswersNow
  <2> DEFINE g == Abstract!After(steppeds)
  <2>4. /\ g = [id \in Ids(crew) |-> g[id]]
        /\ \A id \in Ids(crew) :
             g[id] = IF \E n \in DOMAIN steppeds : steppeds[n].id = id
                     THEN Moved(ById(crew)[id], steppeds[Entry(id)].to)
                     ELSE ById(crew)[id]
    <3>1. DOMAIN ById(crew) = Ids(crew)
      BY <1>1, ByIdIs
    <3> QED BY <3>1 DEF Abstract!After, Abstract!Entry, Entry
  <2> HIDE DEF g
  <2>5. ASSUME crew = NoMachines PROVE ById(crew') = g
    <3>1. crew' = crew /\ Ids(crew) = {}
      BY <2>1, <2>5 DEF Updated, Ids
    <3>2. ById(crew') = [id \in {} |-> g[id]]
      BY <3>1 DEF ById
    <3>3. ById(crew') = g
      BY <2>4, <3>1, <3>2
    <3> QED BY <3>3
  <2>6. ASSUME crew # NoMachines PROVE ById(crew') = g
    <3>1. /\ crew' \in Seq(Machine) /\ DOMAIN crew' = DOMAIN crew
          /\ \A j \in DOMAIN crew : crew'[j].id = crew[j].id
      BY <2>1, <2>6, UpdateFacts
    <3>2. crew' # NoMachines
      BY <3>1, NamesAssumption
    <3>3. Ids(crew') = Ids(crew)
      BY <2>6, <3>1, <3>2 DEF Ids
    <3>4. \A j \in DOMAIN crew : ById(crew)[crew[j].id] = crew[j] /\ crew[j].id \in Ids(crew)
      BY <1>1, <2>6, ByIdIs DEF Ids
    <3>5. \A j \in DOMAIN crew :
            crew'[j] = IF \E n \in DOMAIN steppeds : steppeds[n].id = crew[j].id
                       THEN Moved(crew[j], steppeds[Entry(crew[j].id)].to)
                       ELSE crew[j]
      BY <2>1, <2>6 DEF Updated
    <3>6. \A j \in DOMAIN crew' : g[crew'[j].id] = crew'[j]
      BY <2>4, <3>1, <3>4, <3>5
    <3> QED BY <1>1, <2>4, <3>2, <3>3, <3>6, IsById
  <2>7. ById(crew') = Abstract!After(steppeds)
    BY <2>5, <2>6 DEF g
  <2>8. Abstract!Move
    BY <1>1, <2>2, <2>3, <2>7 DEF Abstract!Move, Abstract!Stop
  <2> QED BY <2>8 DEF Abstract!Next
<1> QED BY <1>2, <1>3

LEMMA RoundsNext ==
  ASSUME Inv, Inv', ChainInv, Speech, Quiet, [Next]_vars
  PROVE  Abstract!Next \/ UNCHANGED Abstract!vars
<1>1. CASE Change
  BY <1>1, SetRefines, RemRefines DEF Change
<1>2. CASE Call
  BY <1>2, ReceiveRefines DEF Call
<1>3. CASE Skip \/ Process \/ Throw \/ AllProcessed
  <2>1. /\ pc = "walking" /\ pc' \in {"walking", "written"}
        /\ UNCHANGED <<crew, message, said>>
    BY <1>3 DEF Skip, Process, Throw, AllProcessed, AtTarget, hostVars
  <2> QED BY <2>1, WorkRefines
<1>4. CASE ProviderExits \/ ProcessReturns \/ EmittedReturns
  <2>1. /\ pc \in {"walking", "written", "processed"}
        /\ pc' \in {"processed", "emitted", "exited"}
        /\ UNCHANGED <<crew, message, said>>
    BY <1>4 DEF ProviderExits, ProcessReturns, EmittedReturns, AtTarget, hostVars, Onward
  <2>2. said' = <<>>
    BY <2>1 DEF Quiet
  <2> QED BY <2>1, <2>2, WorkRefines, ExitRefines
<1>5. CASE Say
  BY <1>5, SayRefines
<1>6. CASE UpdateReturns
  BY <1>6, UpdateRefines
<1>7. CASE UNCHANGED vars
  <2>1. UNCHANGED <<pc, crew, message, steppeds, said>>
    BY <1>7 DEF vars, hostVars
  <2>2. RoundNow' = RoundNow
    BY <2>1 DEF RoundNow
  <2>3. MessageNow' = MessageNow /\ AnswersNow' = AnswersNow
    BY <2>1, <2>2 DEF MessageNow, AnswersNow
  <2> QED BY <2>1, <2>2, <2>3 DEF Abstract!vars
<1>8. CASE Exited
  BY <1>7, <1>8 DEF Exited
<1> QED BY <1>1, <1>2, <1>3, <1>4, <1>5, <1>6, <1>7, <1>8 DEF Next, Run

(***************************************************************************)
(* The theorem.                                                            *)
(***************************************************************************)
\* For every crew, message, specification and limit: what driver.js, machines.c
\* and the loop of sheensio.c do to a message is one round of the abstract crew.
\* Each machine the message is for answers once, with what the last of its walks
\* returned; the host prints what the answers emitted and moves the machines to
\* where the same answers took them; or it exits, before it printed or after, and none
\* has moved.
THEOREM CrewRefinement == Spec => Abstract!Init /\ [][Abstract!Next]_(Abstract!vars)
<1>1. Init => Abstract!Init
  BY RoundsInit
<1>2. Inv /\ Inv' /\ ChainInv /\ Speech /\ Quiet /\ [Next]_vars
        => Abstract!Next \/ UNCHANGED Abstract!vars
  BY RoundsNext
<1>3. Inv /\ Inv' /\ ChainInv /\ Speech /\ Quiet /\ [Next]_vars
        => [Abstract!Next]_(Abstract!vars)
  BY <1>2
<1> QED BY <1>1, <1>3, InvHolds, ChainHolds, SpeechHolds, QuietHolds, PTL DEF Spec
=============================================================================
