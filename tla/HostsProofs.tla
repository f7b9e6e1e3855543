---------------------------- MODULE HostsProofs -----------------------------
(***************************************************************************)
(* Theorems about Hosts, for all lists of scripts and any number of rounds *)
(* and lines.                                                              *)
(***************************************************************************)
EXTENDS Hosts, TLAPS

\* Where a program may be.
Places ==
  /\ program \in Program /\ argv \in Seq(Outcome) /\ cache \in BOOLEAN
  /\ pc \in {"begin", "opened", "scripts", "utilities", "makecrew", "crewfile", "process",
             "emit", "update", "rounds over", "count", "close", "exited"}
  /\ exit \in Codes \cup {"running", "readFile"}
  /\ some_rc \in Codes
  /\ pc # "exited" => exit = "running"
  /\ pc = "crewfile" => program = "sheensio"
  /\ pc \in {"utilities", "makecrew", "rounds over", "count"} => HasDemo
  /\ pc \in {"process", "emit", "update"} => HasDemo \/ program = "sheensio"
  /\ pc = "scripts" => program # "sheensio"

\* The blocks that are allocated when a program is there, each of them once.
Each(bs) == [b \in Blocks |-> IF b \in bs THEN 1 ELSE 0]
OfDemo     == {"ctx", "dst", "crew", "steppeds", "emitted", "msg"}
OfSheensio == {"ctx", "dst", "crew", "steppeds", "emitted", "line"}
Memory ==
  /\ pc \in {"begin", "opened", "scripts", "crewfile", "utilities", "close"} => live = Each({"ctx"})
  /\ pc = "makecrew" => live = Each({"ctx", "dst"})
  /\ pc \in {"process", "emit", "update", "rounds over"} =>
       live = Each(IF program = "sheensio" THEN OfSheensio ELSE OfDemo)
  /\ pc = "count" => live = Each({"ctx", "dst", "crew"})
  /\ exit = "okay" => live = Each({}) /\ ~heap

\* The scripts before the next one were all there, and some_rc remembers whether
\* one of them threw.
Scripts ==
  /\ n \in Nat /\ some_rc \in Codes
  /\ pc \in {"begin", "opened", "scripts"} =>
       /\ n <= Len(argv)
       /\ some_rc = "okay" => \A j \in 1 .. n : argv[j] = "result"
  /\ (program \in {"driver", "demo"} /\ (pc \notin {"begin", "opened", "scripts", "exited"}
                                         \/ exit = "okay")) =>
       \A j \in DOMAIN argv : argv[j] = "result"

\* A crew counts all messages and has announced them, or has no machines: then
\* sheensio has not read a line, and a demonstration will not count.
Stepped(count) == Text("steppeds", {"doubler"}, count)
Counts(k) == crew = Doublers(n) /\ said = k
Lost == crew.kind \in {"error", "garbage"} /\ crew.members = {}
Useless == crew = Garbage /\ n = 0
Counting ==
  /\ n \in Nat
  /\ pc \in {"begin", "opened", "crewfile", "utilities", "makecrew"} => n = 0 /\ said = 0
  /\ pc = "scripts" => said = 0
  /\ pc = "process" => Counts(n) \/ (IF program = "sheensio" THEN Useless ELSE Lost)
  /\ pc = "emit" => \/ Counts(n) /\ steppeds \in {Error, Stepped(n + 1)}
                    \/ program = "sheensio" /\ Useless /\ steppeds = Error
                    \/ program # "sheensio" /\ Lost /\ steppeds \in {Error, None}
  /\ pc = "update" =>
       \/ Counts(n + 1) /\ steppeds = Stepped(n + 1)
       \/ program # "sheensio" /\ crew.kind \in {"crew", "error", "garbage"} /\ steppeds = Error
       \/ program # "sheensio" /\ Lost /\ steppeds = None
  /\ pc \in {"rounds over", "count"} => Lost \/ (Counts(n) /\ n = Rounds + 1)
  /\ (HasDemo /\ (pc = "close" \/ exit = "okay")) => reported = Rounds + 1 /\ said = reported

(***************************************************************************)
(* Every program is where it may be, whatever it does.                     *)
(***************************************************************************)
LEMMA PlacesHold == Spec => []Places
<1>1. Init => Places
  BY HostsAssumption DEF Init, Places, Program, Codes
<1>2. ASSUME Places, [Next]_vars PROVE Places'
  <2> USE DEF Places, HasDemo, Goto, Exit, inputs, Program, Codes
  <2>1. CASE Open \/ SetUp \/ ReadCrew \/ EndOfInput
    BY <1>2, <2>1 DEF Open, SetUp, ReadCrew, EndOfInput
  <2>2. CASE EvalFile
    BY <1>2, <2>2 DEF EvalFile, SomeRc
  <2>3. CASE FilesEvaluated
    BY <1>2, <2>3 DEF FilesEvaluated
  <2>4. CASE Utilities \/ MakeCrew \/ Close
    BY <1>2, <2>4 DEF Utilities, MakeCrew, Close
  <2>5. CASE Process
    BY <1>2, <2>5 DEF Process
  <2>6. CASE Emit \/ Update
    BY <1>2, <2>6 DEF Emit, Update
  <2>7. CASE RoundsOver \/ Count
    BY <1>2, <2>7 DEF RoundsOver, Count
  <2>8. CASE UNCHANGED vars
    BY <1>2, <2>8 DEF vars
  <2> QED BY <1>2, <2>1, <2>2, <2>3, <2>4, <2>5, <2>6, <2>7, <2>8 DEF Next, Step, Exited
<1> QED BY <1>1, <1>2, PTL DEF Spec

(***************************************************************************)
(* Memory.                                                                 *)
(***************************************************************************)
LEMMA MallocAdds ==
  ASSUME NEW as, NEW bs, live = Each(as), as \cap bs = {}, Malloc(bs)
  PROVE  live' = Each(as \cup bs)
<1> DEFINE all == as \cup bs
<1>1. ASSUME NEW b \in Blocks PROVE live'[b] = Each(all)[b]
  <2>1. live[b] = IF b \in as THEN 1 ELSE 0
    BY DEF Each
  <2>2. live'[b] = IF b \in bs THEN live[b] + 1 ELSE live[b]
    BY DEF Malloc
  <2>3. Each(all)[b] = IF b \in all THEN 1 ELSE 0
    BY DEF Each
  <2>4. CASE b \in bs
    <3>1. live[b] = 0
      BY <2>1, <2>4
    <3>2. live'[b] = live[b] + 1
      BY <2>2, <2>4
    <3> QED BY <2>3, <2>4, <3>1, <3>2
  <2>5. CASE b \notin bs
    BY <2>1, <2>2, <2>3, <2>5
  <2> QED BY <2>4, <2>5
<1>2. live' = [b \in Blocks |-> live'[b]]
  BY DEF Malloc
<1>3. Each(all) = [b \in Blocks |-> Each(all)[b]]
  BY DEF Each
<1> QED BY <1>1, <1>2, <1>3, Zenon

LEMMA FreeTakes ==
  ASSUME NEW as, NEW bs, live = Each(as), bs \subseteq as, Free(bs)
  PROVE  live' = Each(as \ bs)
<1> DEFINE all == as \ bs
<1>1. ASSUME NEW b \in Blocks PROVE live'[b] = Each(all)[b]
  <2>1. live[b] = IF b \in as THEN 1 ELSE 0
    BY DEF Each
  <2>2. live'[b] = IF b \in bs THEN live[b] - 1 ELSE live[b]
    BY DEF Free
  <2>3. Each(all)[b] = IF b \in all THEN 1 ELSE 0
    BY DEF Each
  <2>4. CASE b \in bs
    <3>1. live[b] = 1
      BY <2>1, <2>4
    <3>2. live'[b] = live[b] - 1
      BY <2>2, <2>4
    <3> QED BY <2>3, <2>4, <3>1, <3>2
  <2>5. CASE b \notin bs
    BY <2>1, <2>2, <2>3, <2>5
  <2> QED BY <2>4, <2>5
<1>2. live' = [b \in Blocks |-> live'[b]]
  BY DEF Free
<1>3. Each(all) = [b \in Blocks |-> Each(all)[b]]
  BY DEF Each
<1> QED BY <1>1, <1>2, <1>3, Zenon

LEMMA MemoryHolds == Spec => []Memory
<1>1. Init => Memory
  BY DEF Init, Memory, Each
<1>2. ASSUME Places, Memory, [Next]_vars PROVE Memory'
  <2> USE DEF Memory, Goto, Exit, inputs
  <2>1. CASE Open \/ SetUp
    BY <1>2, <2>1 DEF Open, SetUp, Places, memory
  <2>2. CASE EvalFile \/ FilesEvaluated
    BY <1>2, <2>2 DEF EvalFile, FilesEvaluated, Places, memory, Codes
  <2>3. CASE Utilities
    <3>1. live' = Each({"ctx"} \cup {"dst"})
      BY <1>2, <2>3, MallocAdds DEF Utilities
    <3>2. {"ctx"} \cup {"dst"} = {"ctx", "dst"}
      OBVIOUS
    <3> QED BY <1>2, <2>3, <3>1, <3>2 DEF Utilities, Places
  <2>4. CASE MakeCrew
    <3> DEFINE bs == {"crew", "steppeds", "emitted", "msg"}
    <3>1. live' = Each({"ctx", "dst"} \cup bs)
      BY <1>2, <2>4, MallocAdds DEF MakeCrew
    <3>2. {"ctx", "dst"} \cup bs = OfDemo
      BY DEF OfDemo
    <3>3. program' # "sheensio"
      BY <1>2, <2>4 DEF MakeCrew, Places, HasDemo
    <3>4. exit' = "running"
      BY <1>2, <2>4 DEF MakeCrew, Places
    <3> QED BY <2>4, <3>1, <3>2, <3>3, <3>4 DEF MakeCrew
  <2>5. CASE ReadCrew
    <3> DEFINE bs == {"crew", "line", "steppeds", "dst", "emitted"}
    <3>1. CASE Malloc(bs) /\ Goto("process")
      <4>1. live' = Each({"ctx"} \cup bs)
        BY <1>2, <2>5, <3>1, MallocAdds DEF ReadCrew
      <4>2. {"ctx"} \cup bs = OfSheensio
        BY DEF OfSheensio
      <4>3. program' = "sheensio" /\ exit' = "running"
        BY <1>2, <2>5, <3>1 DEF ReadCrew, Places
      <4> QED BY <3>1, <4>1, <4>2, <4>3
    <3> QED BY <2>5, <3>1 DEF ReadCrew
  <2>6. CASE EndOfInput
    <3> DEFINE bs == {"line", "steppeds", "dst", "emitted", "crew"}
    <3>1. live' = Each(OfSheensio \ bs)
      BY <1>2, <2>6, FreeTakes DEF EndOfInput, OfSheensio
    <3>2. OfSheensio \ bs = {"ctx"}
      BY DEF OfSheensio
    <3> QED BY <1>2, <2>6, <3>1, <3>2 DEF EndOfInput, Places
  <2>7. CASE Process \/ Emit \/ Update
    BY <1>2, <2>7 DEF Process, Emit, Update, Places, memory, HasDemo
  <2>8. CASE RoundsOver
    <3>1. live = Each(OfDemo)
      BY <1>2, <2>8 DEF RoundsOver, Places, HasDemo
    <3>2. live' = Each(OfDemo \ OfRounds)
      BY <2>8, <3>1, FreeTakes DEF RoundsOver, OfDemo, OfRounds
    <3>3. OfDemo \ OfRounds = {"ctx", "dst", "crew"}
      BY DEF OfDemo, OfRounds
    <3> QED BY <1>2, <2>8, <3>2, <3>3 DEF RoundsOver, Places
  <2>9. CASE Count
    <3>1. CASE Free(OfCount) /\ Goto("close")
      <4>1. live' = Each({"ctx", "dst", "crew"} \ OfCount)
        BY <1>2, <2>9, <3>1, FreeTakes DEF Count, OfCount
      <4>2. {"ctx", "dst", "crew"} \ OfCount = {"ctx"}
        BY DEF OfCount
      <4> QED BY <1>2, <2>9, <3>1, <4>1, <4>2 DEF Count, Places
    <3> QED BY <2>9, <3>1 DEF Count
  <2>10. CASE Close
    <3>1. live' = Each({"ctx"} \ {"ctx"})
      BY <1>2, <2>10, FreeTakes DEF Close
    <3>2. {"ctx"} \ {"ctx"} = {}
      OBVIOUS
    <3> QED BY <2>10, <3>1, <3>2 DEF Close
  <2>11. CASE UNCHANGED vars
    BY <1>2, <2>11 DEF vars, memory
  <2> QED BY <1>2, <2>1, <2>2, <2>3, <2>4, <2>5, <2>6, <2>7, <2>8, <2>9, <2>10, <2>11
          DEF Next, Step, Exited
<1> QED BY <1>1, <1>2, PlacesHold, PTL DEF Spec

\* CleanExitFreesAll: a program that exits with 0 holds nothing, whichever way it
\* took there.
THEOREM CleanExits == Spec => []CleanExitFreesAll
<1>1. Memory => CleanExitFreesAll
  BY DEF Memory, CleanExitFreesAll, Each
<1> QED BY <1>1, MemoryHolds, PTL

(***************************************************************************)
(* Scripts.                                                                *)
(***************************************************************************)
LEMMA ScriptsHold == Spec => []Scripts
<1>1. Init => Scripts
  BY HostsAssumption DEF Init, Scripts, Codes
<1>2. ASSUME Places, Scripts, [Next]_vars PROVE Scripts'
  <2> DEFINE Fine == (program \in {"driver", "demo"} /\ (pc \notin {"begin", "opened", "scripts", "exited"}
                                         \/ exit = "okay")) =>
                       \A j \in DOMAIN argv : argv[j] = "result"
             Early == {"begin", "opened", "scripts"}
  <2>1. CASE Open \/ SetUp
    BY <1>2, <2>1 DEF Open, SetUp, Scripts, Places, Goto, Exit, inputs
  <2>2. CASE EvalFile
    <3>1. argv[n + 1] \in Outcome /\ n < Len(argv) /\ n \in Nat /\ pc = "scripts"
      BY <1>2, <2>2 DEF EvalFile, Scripts, Places
    <3>2. CASE argv[n + 1] = "missing"
      BY <1>2, <2>2, <3>2 DEF EvalFile, Scripts, Exit, inputs
    <3>3. CASE argv[n + 1] # "missing"
      <4>1. n' = n + 1 /\ pc' = "scripts" /\ exit' = "running" /\ argv' = argv
        BY <1>2, <2>2, <3>3 DEF EvalFile, NextFile, Goto, Places, inputs
      <4>2. some_rc' = IF argv[n + 1] = "thrown" THEN "sad" ELSE some_rc
        BY <2>2, <3>3 DEF EvalFile, SomeRc
      <4>3. some_rc' \in Codes /\ (some_rc' = "okay" => argv[n + 1] = "result" /\ some_rc = "okay")
        BY <1>2, <3>1, <3>3, <4>2 DEF Scripts, Codes, Outcome
      <4> argv \in Seq(Outcome)
        BY <1>2 DEF Places
      <4>4. Len(argv) \in Nat
        OBVIOUS
      <4>5. \A j \in 1 .. n + 1 : j \in 1 .. n \/ j = n + 1
        BY <3>1
      <4>6. some_rc' = "okay" => \A j \in 1 .. n + 1 : argv[j] = "result"
        BY <1>2, <3>1, <4>3, <4>5 DEF Scripts
      <4>7. n + 1 \in Nat /\ n + 1 <= Len(argv)
        BY <3>1, <4>4
      <4> QED BY <4>1, <4>3, <4>6, <4>7 DEF Scripts
    <3> QED BY <3>2, <3>3
  <2>3. CASE FilesEvaluated
    <3>1. pc = "scripts" /\ n = Len(argv) /\ n' = 0 /\ some_rc' = some_rc /\ program' = program /\ argv' = argv
      BY <2>3 DEF FilesEvaluated, inputs
    <3>2. some_rc = "okay" => \A j \in DOMAIN argv : argv[j] = "result"
      BY <1>2, <3>1 DEF Scripts, Places
    <3>3. /\ pc' \notin Early
          /\ (program \in {"driver", "demo"} /\ some_rc # "okay") => pc' = "exited" /\ exit' # "okay"
      BY <2>3 DEF FilesEvaluated, Goto, Exit
    <3> QED BY <1>2, <3>1, <3>2, <3>3 DEF Scripts
  <2>4. CASE Utilities \/ MakeCrew \/ ReadCrew \/ EndOfInput
    BY <1>2, <2>4 DEF Utilities, MakeCrew, ReadCrew, EndOfInput, Scripts, Places, Goto, Exit, inputs
  <2>5. CASE Process \/ Emit
    BY <1>2, <2>5 DEF Process, Emit, Scripts, Places, Goto, Exit, inputs
  <2>6. CASE Update
    <3>1. n' = n + 1 /\ some_rc' = some_rc /\ program' = program /\ argv' = argv
      BY <2>6, Zenon DEF Update, inputs
    <3>. n' \in Nat
      <4>1. n \in Nat
        BY <1>2 DEF Scripts
      <4> QED BY <3>1, <4>1
    <3>2. pc = "update" /\ pc' \in {"rounds over", "process"} /\ exit' = exit
      BY <2>6 DEF Update, Goto
    <3> QED BY <1>2, <3>1, <3>2 DEF Scripts
  <2>7. CASE RoundsOver \/ Count \/ Close
    BY <1>2, <2>7 DEF RoundsOver, Count, Close, Scripts, Places, Goto, Exit, inputs
  <2>8. CASE UNCHANGED vars
    BY <1>2, <2>8 DEF vars, Scripts, inputs
  <2> QED BY <1>2, <2>1, <2>2, <2>3, <2>4, <2>5, <2>6, <2>7, <2>8 DEF Next, Step, Exited
<1> QED BY <1>1, <1>2, PlacesHold, PTL DEF Spec

\* FailuresAreReported: an exit with 0 vouches for all scripts, however many there
\* are and whichever of them failed.
THEOREM ScriptFailuresShow == Spec => []FailuresAreReported
<1>1. Scripts => FailuresAreReported
  BY DEF Scripts, FailuresAreReported
<1> QED BY <1>1, ScriptsHold, PTL

(***************************************************************************)
(* Messages.                                                               *)
(***************************************************************************)
\* The texts of crews and results are told apart by their kinds and members.
LEMMA TextsDiffer ==
  ASSUME NEW k, NEW c
  PROVE  /\ Doublers(k).kind = "crew" /\ Doublers(k).members = {"doubler"} /\ Doublers(k).count = k
         /\ Stepped(k).kind = "steppeds" /\ Stepped(k).members = {"doubler"} /\ Stepped(k).count = k
         /\ Error.kind = "error" /\ Error.members = {}
         /\ None.kind = "steppeds" /\ None.members = {}
         /\ Garbage.kind = "garbage" /\ Garbage.members = {}
         /\ [Doublers(k) EXCEPT !.count = c] = Doublers(c)
BY DEF Doublers, Stepped, Error, None, Garbage, Text

LEMMA CountingHolds == Spec => []Counting
<1>1. Init => Counting
  BY DEF Init, Counting
<1>2. ASSUME Places, Counting, [Next]_vars PROVE Counting'
  <2>0. n \in Nat
    BY <1>2 DEF Counting
  <2>1. CASE Open \/ SetUp
    BY <1>2, <2>1 DEF Open, SetUp, Counting, Places, Goto, Exit, inputs, texts, output, HasDemo
  <2>2. CASE EvalFile
    <3>1. n' \in Nat
      BY <2>0, <2>2 DEF EvalFile, NextFile
    <3> QED BY <1>2, <2>2, <3>1 DEF EvalFile, Counting, Places, Goto, Exit, inputs, texts, output
  <2>3. CASE FilesEvaluated
    BY <1>2, <2>3 DEF FilesEvaluated, Counting, Places, Goto, Exit, inputs, texts, output, HasDemo, Codes
  <2>4. CASE Utilities
    BY <1>2, <2>4 DEF Utilities, Counting, Places, Goto, Exit, inputs, texts, output
  <2>5. CASE MakeCrew
    <3>1. crew' = Doublers(0)
      BY <2>5 DEF MakeCrew, SetMachine, RemMachine, NewCrew, Doublers, Text
    <3>2. n' = 0 /\ said' = 0 /\ pc' = "process" /\ exit' = "running"
      BY <1>2, <2>5 DEF MakeCrew, Counting, Places, Goto, output
    <3> QED BY <3>1, <3>2 DEF Counting, Counts
  <2>6. CASE ReadCrew
    <3>1. n' = 0 /\ said' = 0 /\ program' = "sheensio" /\ n' \in Nat
      BY <1>2, <2>6 DEF ReadCrew, Counting, Places, inputs, output
    <3>2. \/ pc' = "process" /\ exit' = "running" /\ crew' \in {Doublers(0), Garbage}
          \/ pc' = "exited" /\ exit' = "readFile"
      BY <1>2, <2>6 DEF ReadCrew, Places, Goto, Exit
    <3> QED BY <3>1, <3>2 DEF Counting, Counts, Useless
  <2>7. CASE EndOfInput
    <3>1. n' = n /\ program' = "sheensio" /\ pc' = "close" /\ exit' = "running"
      BY <1>2, <2>7 DEF EndOfInput, Places, Goto, inputs
    <3> QED BY <2>0, <3>1 DEF Counting, HasDemo
  <2>8. CASE Process
    <3>1. n' = n /\ said' = said /\ crew' = crew /\ program' = program /\ pc = "process"
      BY <2>8 DEF Process, inputs, output
    <3>2. CASE pc' = "exited" /\ exit' = "readFile"
      BY <2>0, <3>1, <3>2 DEF Counting
    <3>3. CASE pc' = "emit" /\ exit' = "running"
      <4>1. PICK usable \in BOOLEAN, found \in Found : steppeds' = CrewProcess(crew, usable, found)
        BY <2>8, <3>3 DEF Process, Exit
      <4>2. CASE Counts(n)
        <5>1. CrewProcess(crew, usable, found) \in {Error, Stepped(n + 1)}
          <6>1. crew.kind = "crew" /\ crew.members = {"doubler"} /\ crew.count = n
            BY <4>2, TextsDiffer, Zenon DEF Counts
          <6>2. crew.members # {}
            BY <6>1
          <6> QED BY <6>1, <6>2 DEF CrewProcess, Stepped
        <5> QED BY <2>0, <3>1, <3>3, <4>1, <4>2, <5>1 DEF Counting, Counts
      <4>3. CASE IF program = "sheensio" THEN Useless ELSE Lost
        <5>1. crew.members = {}
          BY <4>3, TextsDiffer DEF Useless, Lost
        <5>2. /\ CrewProcess(crew, usable, found) \in {Error, None}
              /\ Useless => CrewProcess(crew, usable, found) = Error
          BY <5>1, TextsDiffer DEF CrewProcess, Useless
        <5> QED BY <2>0, <3>1, <3>3, <4>1, <4>3, <5>2 DEF Counting, Useless, Lost
      <4> QED BY <1>2, <3>1, <4>2, <4>3 DEF Counting
    <3> QED BY <1>2, <2>8, <3>2, <3>3 DEF Process, Places, Goto, Exit
  <2>9. CASE Emit
    <3>1. /\ n' = n /\ crew' = crew /\ steppeds' = steppeds /\ program' = program /\ pc = "emit"
          /\ said' = IF GetEmitted(steppeds) = "okay" /\ steppeds # None THEN said + 1 ELSE said
      BY <2>9 DEF Emit, inputs, texts
    <3>2. CASE pc' = "exited" /\ exit' = "sad"
      BY <2>0, <3>1, <3>2 DEF Counting
    <3>3. CASE pc' = "update" /\ exit' = "running"
      <4>1. ~(program = "sheensio" /\ steppeds = Error)
        BY <2>9, <3>3 DEF Emit, Strict, GetEmitted, Exit
      <4>2. ASSUME Counts(n), steppeds = Stepped(n + 1) PROVE Counting'
        <5>1. steppeds # Error /\ steppeds # None
          BY <4>2, TextsDiffer
        <5>2. said' = n + 1
          BY <3>1, <4>2, <5>1 DEF Counts, GetEmitted
        <5>3. crew' = Doublers(n')
          BY <3>1, <4>2 DEF Counts
        <5> QED BY <2>0, <3>1, <3>3, <4>2, <5>2, <5>3 DEF Counting, Counts
      <4>3. ASSUME program # "sheensio", steppeds = Error, Counts(n) \/ Lost PROVE Counting'
        <5>1. crew.kind \in {"crew", "error", "garbage"}
          BY <4>3, TextsDiffer DEF Counts, Lost
        <5> QED BY <2>0, <3>1, <3>3, <4>3, <5>1 DEF Counting
      <4>4. ASSUME program # "sheensio", steppeds = None, Lost PROVE Counting'
        BY <2>0, <3>1, <3>3, <4>4 DEF Counting, Lost
      <4> QED BY <1>2, <3>1, <4>1, <4>2, <4>3, <4>4 DEF Counting
    <3> QED BY <1>2, <2>9, <3>2, <3>3 DEF Emit, Places, Goto, Exit
  <2>10. CASE Update
    <3>1. /\ n' = n + 1 /\ said' = said /\ program' = program /\ crew' = CrewUpdate(crew, steppeds)
          /\ reported' = reported /\ pc = "update" /\ exit' = "running" /\ argv' = argv
          /\ pc' = IF HasDemo /\ n = Rounds THEN "rounds over" ELSE "process"
      BY <1>2, <2>10 DEF Update, Places, Goto, inputs, output
    <3>2. n' \in Nat
      <4>1. n' = n + 1
        BY <3>1, Zenon
      <4> QED BY <2>0, <4>1
    <3>3. ASSUME Counts(n + 1), steppeds = Stepped(n + 1) PROVE Counting'
      <4>1. CrewUpdate(crew, steppeds) = Doublers(n + 1)
        BY <3>3, TextsDiffer DEF CrewUpdate, Counts
      <4>2. Counts(n)'
        BY <3>1, <3>3, <4>1 DEF Counts
      <4>3. pc' = "rounds over" => n' = Rounds + 1
        BY <3>1
      <4>4. pc' \in {"rounds over", "process"}
        BY <3>1
      <4> QED BY <3>1, <3>2, <4>2, <4>3, <4>4 DEF Counting
    <3>4. ASSUME program # "sheensio", Lost' PROVE Counting'
      <4>1. pc' \in {"rounds over", "process"} /\ exit' = "running" /\ program' # "sheensio"
        BY <3>1, <3>4
      <4> QED BY <3>2, <3>4, <4>1 DEF Counting
    <3>5. ASSUME steppeds = Error PROVE Lost'
      BY <3>1, <3>5, TextsDiffer DEF CrewUpdate, Lost
    <3>6. ASSUME Lost, steppeds = None PROVE Lost'
      BY <3>1, <3>6, TextsDiffer DEF CrewUpdate, Lost
    <3> QED BY <1>2, <3>1, <3>3, <3>4, <3>5, <3>6 DEF Counting
  <2>11. CASE RoundsOver
    <3>1. n' = n /\ said' = said /\ crew' = crew /\ pc = "rounds over" /\ pc' = "count" /\ exit' = "running"
      BY <1>2, <2>11 DEF RoundsOver, Places, Goto, texts, output
    <3> QED BY <1>2, <3>1 DEF Counting, Counts, Lost
  <2>12. CASE Count
    <3>1. n' = n /\ said' = said /\ crew' = crew /\ pc = "count"
      BY <2>12 DEF Count, texts
    <3>2. CASE "doubler" \in crew.members
      <4>1. reported' = crew.count /\ pc' = "close" /\ exit' = "running"
        BY <1>2, <2>12, <3>2 DEF Count, Places, Goto
      <4>2. Counts(n) /\ n = Rounds + 1
        BY <1>2, <3>1, <3>2 DEF Counting, Lost
      <4>3. reported' = Rounds + 1 /\ said' = Rounds + 1
        BY <3>1, <4>1, <4>2, TextsDiffer DEF Counts
      <4> QED BY <2>0, <3>1, <4>1, <4>3 DEF Counting
    <3>3. CASE "doubler" \notin crew.members
      <4>1. pc' = "exited" /\ exit' = "sad"
        BY <2>12, <3>3 DEF Count, Exit
      <4> QED BY <2>0, <3>1, <4>1 DEF Counting
    <3> QED BY <3>2, <3>3
  <2>13. CASE Close
    <3>1. /\ n' = n /\ said' = said /\ reported' = reported /\ program' = program /\ argv' = argv
          /\ pc = "close" /\ pc' = "exited"
      BY <2>13 DEF Close, Exit, inputs, output
    <3> QED BY <1>2, <3>1 DEF Counting, HasDemo
  <2>14. CASE UNCHANGED vars
    BY <1>2, <2>14 DEF vars, Counting, Counts, Lost, Useless, HasDemo, inputs, texts, output
  <2> QED BY <1>2, <2>1, <2>2, <2>3, <2>4, <2>5, <2>6, <2>7, <2>8, <2>9, <2>10, <2>11,
             <2>12, <2>13, <2>14 DEF Next, Step, Exited
<1> QED BY <1>1, <1>2, PlacesHold, PTL DEF Spec

\* ReportsTruth: whatever the look-ups of a demonstration find, and however many
\* rounds it has, the count it prints is of all messages, or it does not exit with 0.
THEOREM CountsAreTrue == Spec => []ReportsTruth
<1>1. Counting => ReportsTruth
  BY DEF Counting, ReportsTruth
<1> QED BY <1>1, CountingHolds, PTL

\* LinesAreCounted: sheensio's crew has counted and announced all lines it has read.
THEOREM NoLineIsSkipped == Spec => []LinesAreCounted
<1>1. Counting => LinesAreCounted
  BY DEF Counting, LinesAreCounted, Waiting, Counts, Useless
<1> QED BY <1>1, CountingHolds, PTL

(***************************************************************************)
(* Types.                                                                  *)
(***************************************************************************)
Texts == [kind : {"unset", "error", "garbage", "crew", "steppeds"},
          members : SUBSET {"hal", "doubler"}, count : Nat]
Typed ==
  /\ crew \in Texts /\ steppeds \in Texts
  /\ cached \in BOOLEAN /\ heap \in BOOLEAN /\ live \in [Blocks -> Nat]
  /\ said \in Nat /\ reported \in Nat

LEMMA EachIsTyped == ASSUME NEW bs PROVE Each(bs) \in [Blocks -> Nat]
BY DEF Each

LEMMA DriverIsTyped ==
  ASSUME NEW c \in Texts, NEW s \in Texts, NEW usable, NEW found
  PROVE  CrewProcess(c, usable, found) \in Texts /\ CrewUpdate(c, s) \in Texts
<1>1. c.count + 1 \in Nat /\ c.members \in SUBSET {"hal", "doubler"}
  BY DEF Texts
<1>2. Error \in Texts /\ None \in Texts
  BY DEF Texts, Error, None, Text
<1>3. Text("steppeds", c.members, c.count + 1) \in Texts
  BY <1>1 DEF Texts, Text
<1>4. [c EXCEPT !.count = s.count] \in Texts
  BY DEF Texts
<1> QED BY <1>2, <1>3, <1>4 DEF CrewProcess, CrewUpdate

\* The state of a host has its type; no block is freed that is not allocated.
THEOREM HostTypeCorrect == Spec => []TypeOK
<1>1. Init => Typed
  <2>1. Unset \in Texts
    BY DEF Texts, Unset, Text
  <2>2. [b \in Blocks |-> IF b = "ctx" THEN 1 ELSE 0] \in [Blocks -> Nat]
    OBVIOUS
  <2> SUFFICES ASSUME Init PROVE Typed
    OBVIOUS
  <2>3. crew = Unset /\ steppeds = Unset /\ cached = FALSE /\ heap = FALSE /\ said = 0 /\ reported = 0
    BY DEF Init
  <2>4. live \in [Blocks -> Nat]
    BY <2>2, Zenon DEF Init
  <2> QED BY <2>1, <2>3, <2>4 DEF Typed
<1>2. ASSUME Typed, Memory, Memory', Places, Places', [Next]_vars PROVE Typed'
  <2>1. live' \in [Blocks -> Nat]
    <3>1. CASE live' = live
      BY <1>2, <3>1 DEF Typed
    <3>2. CASE pc' # "exited" \/ exit' = "okay"
      BY <1>2, <3>2, EachIsTyped DEF Memory, Places
    <3>3. CASE Count
      BY <1>2, <3>1, <3>2, <3>3 DEF Count, Goto, Exit
    <3>4. CASE Utilities
      BY <1>2, <3>4 DEF Utilities, Malloc, Typed
    <3> QED BY <1>2, <3>1, <3>2, <3>3, <3>4 DEF Next, Step, Exited, vars, memory, Open, SetUp, EvalFile,
              FilesEvaluated, Utilities, MakeCrew, ReadCrew, EndOfInput, Process, Emit, Update,
              RoundsOver, Close, Goto, Exit
  <2>2. crew' \in Texts /\ steppeds' \in Texts
    <3>1. ASSUME NEW k \in Nat PROVE Doublers(k) \in Texts /\ Garbage \in Texts
      BY DEF Texts, Doublers, Garbage, Text
    <3>2. CASE MakeCrew
      <4>1. crew' = Doublers(0)
        BY <3>2 DEF MakeCrew, SetMachine, RemMachine, NewCrew, Doublers, Text
      <4> QED BY <1>2, <3>1, <3>2, <4>1 DEF MakeCrew, Typed
    <3>3. CASE Update
      BY <1>2, <3>3, DriverIsTyped DEF Update, Typed
    <3>5. CASE Process
      <4>1. steppeds' = steppeds \/ \E usable, found : steppeds' = CrewProcess(crew, usable, found)
        BY <3>5 DEF Process
      <4> QED BY <1>2, <3>5, <4>1, DriverIsTyped DEF Process, Typed
    <3>4. CASE ReadCrew
      BY <1>2, <3>1, <3>4 DEF ReadCrew, Typed
    <3> QED BY <1>2, <3>2, <3>3, <3>4, <3>5 DEF Next, Step, Exited, vars, texts, Open, SetUp, EvalFile,
              FilesEvaluated, Utilities, EndOfInput, Emit, RoundsOver, Count, Close, Typed
  <2>3. said' \in Nat /\ reported' \in Nat
    <3>1. ASSUME Emit PROVE said' \in Nat /\ reported' = reported
      BY <1>2, <3>1 DEF Emit, Typed
    <3>2. ASSUME Count PROVE reported' \in Nat /\ said' = said
      BY <1>2, <3>2 DEF Count, Typed, Texts
    <3> QED BY <1>2, <3>1, <3>2 DEF Next, Step, Exited, vars, output, Open, SetUp, EvalFile,
              FilesEvaluated, Utilities, MakeCrew, ReadCrew, EndOfInput, Process, Update,
              RoundsOver, Close, Typed
  <2>4. cached' \in BOOLEAN
    BY <1>2 DEF Next, Step, Exited, vars, texts, Open, SetUp, EvalFile, FilesEvaluated,
              Utilities, MakeCrew, ReadCrew, EndOfInput, Process, Emit, Update, RoundsOver,
              Count, Close, Typed
  <2>5. heap' \in BOOLEAN
    BY <1>2 DEF Next, Step, Exited, vars, memory, Open, SetUp, EvalFile, FilesEvaluated,
              Utilities, MakeCrew, ReadCrew, EndOfInput, Process, Emit, Update, RoundsOver,
              Count, Close, Typed
  <2> QED BY <2>1, <2>2, <2>3, <2>4, <2>5 DEF Typed
<1>3. Typed /\ Places /\ Scripts => TypeOK
  BY DEF Typed, Texts, Places, Scripts, TypeOK
<1> QED BY <1>1, <1>2, <1>3, PlacesHold, MemoryHolds, ScriptsHold, PTL DEF Spec

(***************************************************************************)
(* Every program comes to its end.                                         *)
(***************************************************************************)
\* What a program has left to do: scripts and messages to go, and the places
\* behind them.  At its input sheensio has nothing left but to wait.
MessagesToGo == IF HasDemo THEN 3 * (Rounds - n) ELSE 0
ToDo ==
  CASE pc = "begin"       -> 3 * Rounds + Len(argv) + 12
    [] pc = "opened"      -> 3 * Rounds + Len(argv) + 11
    [] pc = "scripts"     -> 3 * Rounds + (Len(argv) - n) + 10
    [] pc = "utilities"   -> 3 * Rounds + 9
    [] pc = "makecrew"    -> 3 * Rounds + 8
    [] pc = "crewfile"    -> 1
    [] pc = "process"     -> IF Waiting THEN 0 ELSE MessagesToGo + 7
    [] pc = "emit"        -> MessagesToGo + 6
    [] pc = "update"      -> MessagesToGo + 5
    [] pc = "rounds over" -> 3
    [] pc = "count"       -> 2
    [] pc = "close"       -> 1
    [] OTHER              -> 0

\* A demonstration sends no message after its last round.
InRounds == HasDemo /\ pc \in {"process", "emit", "update"} => n \in 0 .. Rounds

LEMMA InRoundsHolds == Spec => []InRounds
<1>1. Init => InRounds
  BY DEF Init, InRounds
<1>2. ASSUME Places, Counting, InRounds, [Next]_vars PROVE InRounds'
  <2>1. CASE MakeCrew
    <3>1. n' = 0
      BY <1>2, <2>1 DEF MakeCrew, Counting
    <3> QED BY <3>1, HostsAssumption DEF InRounds
  <2>2. CASE Process \/ Emit
    <3>1. n' = n /\ pc \in {"process", "emit"} /\ HasDemo' = HasDemo
      BY <2>2 DEF Process, Emit, inputs, HasDemo
    <3> QED BY <1>2, <3>1 DEF InRounds
  <2>3. CASE Update
    <3>1. n' = n + 1 /\ pc = "update" /\ HasDemo' = HasDemo
      BY <2>3 DEF Update, inputs, HasDemo
    <3>2. HasDemo /\ n = Rounds => pc' = "rounds over"
      BY <2>3 DEF Update, Goto
    <3>3. Rounds \in Nat /\ n \in Nat
      BY <1>2, HostsAssumption DEF Counting
    <3>4. HasDemo => n \in 0 .. Rounds
      BY <1>2, <3>1 DEF InRounds
    <3>5. HasDemo /\ n # Rounds => n + 1 \in 0 .. Rounds
      BY <3>3, <3>4
    <3>6. HasDemo /\ n = Rounds => pc' \notin {"process", "emit", "update"}
      BY <3>2
    <3> QED BY <3>1, <3>5, <3>6 DEF InRounds
  <2>4. CASE UNCHANGED vars
    <3>1. n' = n /\ pc' = pc /\ HasDemo' = HasDemo
      BY <2>4 DEF vars, inputs, HasDemo
    <3> QED BY <1>2, <3>1 DEF InRounds
  <2>5. CASE ReadCrew
    <3>1. pc = "crewfile" /\ program' = program
      BY <2>5 DEF ReadCrew, inputs
    <3> QED BY <1>2, <3>1 DEF Places, InRounds, HasDemo
  <2>6. CASE \/ Open \/ SetUp \/ EvalFile \/ FilesEvaluated \/ Utilities \/ EndOfInput
             \/ RoundsOver \/ Count \/ Close
    <3>1. pc' \notin {"process", "emit", "update"}
      BY <2>6 DEF Open, SetUp, EvalFile, FilesEvaluated, Utilities, EndOfInput, RoundsOver, Count,
                  Close, Goto, Exit
    <3> QED BY <3>1 DEF InRounds
  <2> QED BY <1>2, <2>1, <2>2, <2>3, <2>4, <2>5, <2>6 DEF Next, Step, Exited
<1> QED BY <1>1, <1>2, PlacesHold, CountingHolds, PTL DEF Spec

\* Whatever its scripts and look-ups come to, every step of a program leaves less of
\* it, until it exits or sheensio waits for a line: no list of scripts, no number of
\* rounds and no failure makes a program go on for ever.
THEOREM HostsRunOut ==
  Spec => [](ToDo \in Nat) /\ [][Step /\ ~Waiting => ToDo' < ToDo]_vars
<1> DEFINE I == Places /\ Scripts /\ Counting /\ InRounds
<1>1. ASSUME I
      PROVE  /\ ToDo \in Nat /\ Rounds \in Nat /\ Len(argv) \in Nat /\ n \in Nat
             /\ pc = "scripts" => n <= Len(argv)
             /\ pc \in {"process", "emit", "update"} /\ HasDemo =>
                  MessagesToGo = 3 * (Rounds - n) /\ MessagesToGo \in Nat
             /\ pc \in {"process", "emit", "update"} /\ ~HasDemo =>
                  MessagesToGo = 0 /\ program = "sheensio"
  <2>1. Rounds \in Nat /\ Len(argv) \in Nat /\ n \in Nat
    <3>1. argv \in Seq(Outcome)
      BY <1>1 DEF Places
    <3>2. Len(argv) \in Nat
      BY <3>1
    <3>3. n \in Nat
      BY <1>1 DEF Counting
    <3> QED BY <3>2, <3>3, HostsAssumption
  <2>2. pc = "scripts" => n <= Len(argv)
    BY <1>1 DEF Scripts
  <2>3. pc \in {"process", "emit", "update"} /\ HasDemo =>
          MessagesToGo = 3 * (Rounds - n) /\ MessagesToGo \in Nat
    BY <1>1, <2>1 DEF MessagesToGo, InRounds
  <2>4. pc \in {"process", "emit", "update"} /\ ~HasDemo =>
          MessagesToGo = 0 /\ program = "sheensio"
    BY <1>1 DEF MessagesToGo, Places
  <2>5. pc \in {"process", "emit", "update"} => MessagesToGo \in Nat
    BY <2>3, <2>4
  <2>6. ToDo \in Nat
    <3>1. \/ ToDo \in {3 * Rounds + Len(argv) + 12, 3 * Rounds + Len(argv) + 11,
                       3 * Rounds + 9, 3 * Rounds + 8, 3, 2, 1, 0}
          \/ pc = "scripts" /\ ToDo = 3 * Rounds + (Len(argv) - n) + 10
          \/ /\ pc \in {"process", "emit", "update"}
             /\ ToDo \in {MessagesToGo + 7, MessagesToGo + 6, MessagesToGo + 5}
      BY DEF ToDo
    <3> QED BY <2>1, <2>2, <2>5, <3>1
  <2> QED BY <2>1, <2>2, <2>3, <2>4, <2>6
<1>2. ASSUME I, I', Step, ~Waiting PROVE ToDo' < ToDo
  <2> DEFINE L == Len(argv)
  <2>0. Rounds \in Nat /\ L \in Nat /\ n \in Nat
    BY <1>1, <1>2
  <2>1. CASE pc' = "exited"
    <3>1. ToDo' = 0
      BY <2>1 DEF ToDo
    <3>2. pc # "exited"
      BY <1>2 DEF Step, Open, SetUp, EvalFile, FilesEvaluated, Utilities, MakeCrew, ReadCrew,
                  EndOfInput, Process, Emit, Update, RoundsOver, Count, Close
    <3>3. pc = "scripts" => n <= L
      BY <1>1, <1>2
    <3>4. pc \in {"process", "emit", "update"} => MessagesToGo \in Nat
      BY <1>1, <1>2
    <3>5. ToDo > 0
      <4>1. pc \in {"begin", "opened", "scripts", "utilities", "makecrew", "crewfile", "process",
                    "emit", "update", "rounds over", "count", "close"} /\ ~Waiting
        BY <1>2, <3>2 DEF Places
      <4>2. \/ ToDo \in {3 * Rounds + L + 12, 3 * Rounds + L + 11, 3 * Rounds + 9,
                         3 * Rounds + 8, 3, 2, 1}
            \/ pc = "scripts" /\ ToDo = 3 * Rounds + (L - n) + 10
            \/ /\ pc \in {"process", "emit", "update"}
               /\ ToDo \in {MessagesToGo + 7, MessagesToGo + 6, MessagesToGo + 5}
        BY <4>1 DEF ToDo
      <4> QED BY <2>0, <3>3, <3>4, <4>2
    <3> QED BY <3>1, <3>5
  <2>2. CASE (Open \/ SetUp) /\ pc' # "exited"
    <3>1. /\ argv' = argv /\ n' = n /\ n = 0
          /\ \/ pc = "begin" /\ pc' = "opened"
             \/ pc = "opened" /\ pc' \in {"scripts", "crewfile"}
      BY <1>2, <2>2 DEF Open, SetUp, Goto, Exit, inputs, Counting
    <3>2. \/ ToDo = 3 * Rounds + L + 12 /\ ToDo' = 3 * Rounds + L + 11
          \/ ToDo = 3 * Rounds + L + 11 /\ ToDo' = 3 * Rounds + (L - 0) + 10
          \/ ToDo = 3 * Rounds + L + 11 /\ ToDo' = 1
      BY <3>1 DEF ToDo
    <3> QED BY <2>0, <3>2
  <2>3. CASE EvalFile /\ pc' # "exited"
    <3>1. argv' = argv /\ n' = n + 1 /\ pc = "scripts" /\ pc' = "scripts"
      BY <2>3 DEF EvalFile, Goto, Exit, inputs, NextFile
    <3>2. ToDo = 3 * Rounds + (L - n) + 10 /\ ToDo' = 3 * Rounds + (L - (n + 1)) + 10
      BY <3>1 DEF ToDo
    <3> QED BY <2>0, <3>2
  <2>4. CASE FilesEvaluated /\ pc' # "exited"
    <3>1. n = L /\ pc = "scripts" /\ pc' \in {"utilities", "close"}
      BY <2>4 DEF FilesEvaluated, Goto, Exit
    <3>2. ToDo = 3 * Rounds + (L - n) + 10 /\ ToDo' \in {3 * Rounds + 9, 1}
      BY <3>1 DEF ToDo
    <3> QED BY <2>0, <3>1, <3>2
  <2>5. CASE (Utilities \/ MakeCrew) /\ pc' # "exited"
    <3>1. \/ pc = "utilities" /\ pc' = "makecrew"
          \/ pc = "makecrew" /\ pc' = "process" /\ HasDemo' /\ n' = 0
      BY <1>2, <2>5 DEF Utilities, MakeCrew, Goto, Exit, Places, Counting, inputs, HasDemo
    <3>2. CASE pc = "utilities"
      <4>1. ToDo = 3 * Rounds + 9 /\ ToDo' = 3 * Rounds + 8
        BY <3>1, <3>2 DEF ToDo
      <4> QED BY <2>0, <4>1
    <3>3. CASE pc = "makecrew"
      <4>1. ~Waiting' /\ MessagesToGo' = 3 * (Rounds - 0)
        BY <3>1, <3>3 DEF Waiting, HasDemo, MessagesToGo
      <4>2. ToDo = 3 * Rounds + 8 /\ ToDo' = 3 * (Rounds - 0) + 7
        BY <3>1, <3>3, <4>1 DEF ToDo
      <4> QED BY <2>0, <4>2
    <3> QED BY <3>1, <3>2, <3>3
  <2>6. CASE ReadCrew /\ pc' # "exited"
    <3>1. pc = "crewfile" /\ pc' = "process" /\ Waiting'
      BY <1>2, <2>6 DEF ReadCrew, Goto, Exit, Places, inputs, Waiting
    <3>2. ToDo = 1 /\ ToDo' = 0
      BY <3>1 DEF ToDo
    <3> QED BY <3>2
  <2>7. CASE EndOfInput
    BY <1>2, <2>7 DEF EndOfInput, Waiting
  <2>8. CASE (Process \/ Emit) /\ pc' # "exited"
    <3>1. /\ n' = n /\ HasDemo' = HasDemo
          /\ \/ pc = "process" /\ pc' = "emit"
             \/ pc = "emit" /\ pc' = "update"
      BY <2>8 DEF Process, Emit, Goto, Exit, inputs, HasDemo
    <3>2. MessagesToGo' = MessagesToGo /\ MessagesToGo \in Nat
      BY <1>1, <1>2, <3>1 DEF MessagesToGo
    <3>3. \/ ToDo = MessagesToGo + 7 /\ ToDo' = MessagesToGo + 6
          \/ ToDo = MessagesToGo + 6 /\ ToDo' = MessagesToGo + 5
      BY <1>2, <3>1, <3>2 DEF ToDo
    <3> QED BY <3>2, <3>3
  <2>9. CASE Update
    <3>1. /\ n' = n + 1 /\ HasDemo' = HasDemo /\ program' = program /\ pc = "update"
          /\ pc' = IF HasDemo /\ n = Rounds THEN "rounds over" ELSE "process"
      BY <2>9 DEF Update, Goto, inputs, HasDemo
    <3>2. ToDo = MessagesToGo + 5
      BY <3>1 DEF ToDo
    <3>3. CASE ~HasDemo
      <4>1. pc' = "process" /\ Waiting' /\ MessagesToGo = 0
        BY <1>1, <1>2, <3>1, <3>3 DEF Waiting
      <4>2. ToDo' = 0
        BY <4>1 DEF ToDo
      <4> QED BY <3>2, <4>1, <4>2
    <3>4. CASE HasDemo /\ n = Rounds
      <4>1. ToDo' = 3 /\ MessagesToGo \in Nat
        BY <1>1, <1>2, <3>1, <3>4 DEF ToDo
      <4> QED BY <3>2, <4>1
    <3>5. CASE HasDemo /\ n # Rounds
      <4>1. pc' = "process" /\ ~Waiting'
        BY <3>1, <3>5 DEF Waiting, HasDemo
      <4>2. MessagesToGo = 3 * (Rounds - n) /\ MessagesToGo' = 3 * (Rounds - (n + 1))
        BY <3>1, <3>5 DEF MessagesToGo
      <4>3. ToDo' = MessagesToGo' + 7
        BY <4>1 DEF ToDo
      <4> QED BY <2>0, <3>2, <4>2, <4>3
    <3> QED BY <3>3, <3>4, <3>5
  <2>10. CASE (RoundsOver \/ Count \/ Close) /\ pc' # "exited"
    <3>1. \/ pc = "rounds over" /\ pc' = "count"
          \/ pc = "count" /\ pc' = "close"
      BY <2>10 DEF RoundsOver, Count, Close, Goto, Exit
    <3>2. CASE pc = "rounds over"
      <4>1. ToDo = 3 /\ ToDo' = 2
        BY <3>1, <3>2 DEF ToDo
      <4> QED BY <4>1
    <3>3. CASE pc = "count"
      <4>1. ToDo = 2 /\ ToDo' = 1
        BY <3>1, <3>3 DEF ToDo
      <4> QED BY <4>1
    <3> QED BY <3>1, <3>2, <3>3
  <2> HIDE DEF L
  <2> QED BY <1>2, <2>1, <2>2, <2>3, <2>4, <2>5, <2>6, <2>7, <2>8, <2>9, <2>10 DEF Step
<1>3. I /\ I' /\ [Next]_vars => [Step /\ ~Waiting => ToDo' < ToDo]_vars
  BY <1>2
<1> QED BY <1>1, <1>3, PlacesHold, ScriptsHold, CountingHolds, InRoundsHolds, PTL DEF Spec
=============================================================================
