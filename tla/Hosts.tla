------------------------------- MODULE Hosts --------------------------------
(***************************************************************************)
(* The programs that come with the library: driver, demo and main, which   *)
(* evaluate the scripts they are given and, demo always and main without   *)
(* scripts, send messages to a crew they make; and sheensio, which sends   *)
(* the lines of its input to the crew in crew.json.  All of them run in    *)
(* one thread from main to an exit.                                        *)
(*                                                                         *)
(* The crew has a machine "doubler", which counts the messages it gets and *)
(* announces each.  Its specification is in a file that can change while a *)
(* program runs.  Of a crew's text counts who is in it and what the        *)
(* doubler has counted.  The texts of exceptions are results of the calls  *)
(* that failed, as in Crew; the results of these programs are never too    *)
(* big for their destinations.                                             *)
(***************************************************************************)
EXTENDS Integers, Sequences

CONSTANTS
  Argv,     \* the scripts a program may be given: sequences of Outcome
  Rounds,   \* iterations
  MaxLines  \* bound: how many lines sheensio reads

Program == {"driver", "demo", "main", "sheensio"}
\* What comes of a script: a result, an exception, or the file is not there.
Outcome == {"result", "thrown", "missing"}
\* What a look-up of specs/double.js finds.
Found   == {"fine", "broken", "missing"}
Codes   == {"okay", "sad"}
Blocks  == {"ctx", "dst", "crew", "steppeds", "emitted", "msg", "src", "line"}

ASSUME HostsAssumption ==
  /\ Argv \subseteq Seq(Outcome)
  /\ Rounds \in Nat \ {0} /\ MaxLines \in Nat

VARIABLES
  program,   \* which of them runs
  argv,      \* its scripts
  cache,     \* sheensio -c
  pc,        \* where it is
  n,         \* the next script, message or line
  some_rc,   \* of evalFiles
  crew,      \* the host's crew
  steppeds,  \* what mach_crew_process wrote last
  cached,    \* whether the cache has the specification
  heap,      \* whether the context is open
  live,      \* [Blocks -> Nat]: blocks that are allocated
  said,      \* how many messages of machines were printed
  reported,  \* the count that was printed
  exit       \* the exit status, or "running"

inputs == <<program, argv, cache>>
memory == <<heap, live>>
texts  == <<crew, steppeds, cached>>
output == <<said, reported>>
vars   == <<inputs, pc, n, some_rc, texts, memory, output, exit>>

Text(kind, members, count) == [kind |-> kind, members |-> members, count |-> count]
Unset    == Text("unset", {}, 0)
Error    == Text("error", {}, 0)
Garbage  == Text("garbage", {}, 0)
NewCrew  == Text("crew", {}, 0)
None     == Text("steppeds", {}, 0)
Doublers(count) == Text("crew", {"doubler"}, count)

Init ==
  /\ program \in Program /\ argv \in Argv /\ cache \in BOOLEAN
  /\ program = "sheensio" => argv = <<>>
  /\ program # "sheensio" => ~cache
  /\ pc = "begin" /\ n = 0 /\ some_rc = "okay"
  /\ crew = Unset /\ steppeds = Unset /\ cached = FALSE
  /\ heap = FALSE /\ live = [b \in Blocks |-> IF b = "ctx" THEN 1 ELSE 0]
  /\ said = 0 /\ reported = 0
  /\ exit = "running"

Goto(label) == pc' = label /\ UNCHANGED exit
Exit(code)  == pc' = "exited" /\ exit' = code
Malloc(bs)  == live' = [b \in Blocks |-> IF b \in bs THEN live[b] + 1 ELSE live[b]]
Free(bs)    == live' = [b \in Blocks |-> IF b \in bs THEN live[b] - 1 ELSE live[b]]

(***************************************************************************)
(* driver.js, for crews of "hal" and "doubler".                            *)
(***************************************************************************)
SetMachine(c, id) == [c EXCEPT !.members = @ \cup {id}]
RemMachine(c, id) == [c EXCEPT !.members = @ \ {id}]

\* The text of an exception, taken for a crew, is one without machines.
CrewProcess(c, usable, found) ==
  IF c.kind = "garbage" \/ ~usable THEN Error
  ELSE IF c.members = {} THEN None
  ELSE IF found = "broken" THEN Error
  ELSE Text("steppeds", c.members, c.count + 1)

CrewUpdate_forgiving(c, s) ==
  IF s = Error \/ s.members = {} THEN c ELSE [c EXCEPT !.count = s.count]
CrewUpdate(c, s) ==
  IF s = Error THEN Error
  ELSE IF s.members = {} THEN c
  ELSE [c EXCEPT !.count = s.count]

\* mach_get_emitted and mach_do_emitted.
GetEmitted(s) == IF s = Error THEN "sad" ELSE "okay"

(***************************************************************************)
(* All programs.                                                           *)
(***************************************************************************)
Open ==
  /\ pc = "begin"
  /\ \/ heap' = TRUE /\ Goto("opened")
     \/ heap' = FALSE /\ Exit("sad")
  /\ UNCHANGED <<inputs, n, some_rc, texts, live, output>>

\* The provider, and the cache: only sheensio minds when that fails.  Its options
\* -d, -p and -s only make it print.
SetUp ==
  /\ pc = "opened"
  /\ IF program # "sheensio" THEN Goto("scripts")
     ELSE Goto("crewfile") \/ (cache /\ Exit("sad"))
  /\ UNCHANGED <<inputs, n, some_rc, texts, memory, output>>

Close ==
  /\ pc = "close"
  /\ heap' = FALSE /\ Free({"ctx"})
  /\ Exit("okay")
  /\ UNCHANGED <<inputs, n, some_rc, texts, output>>

(***************************************************************************)
(* evalFiles, and the same loop in main.c, which forgets what failed.      *)
(***************************************************************************)
SomeRc_last(old, code) == code
SomeRc(old, code) == IF code = "okay" THEN old ELSE code

NextFile_same(k) == k
NextFile(k) == k + 1
EvalFile ==
  /\ pc = "scripts" /\ n < Len(argv)
  /\ IF argv[n + 1] = "missing" THEN Exit("readFile") /\ UNCHANGED <<n, some_rc>>
     ELSE /\ n' = NextFile(n)
          /\ some_rc' = SomeRc(some_rc, IF argv[n + 1] = "thrown" THEN "sad" ELSE "okay")
          /\ Goto("scripts")
  /\ UNCHANGED <<inputs, texts, memory, output>>

HasDemo == program = "demo" \/ (program = "main" /\ argv = <<>>)

FilesEvaluated ==
  /\ pc = "scripts" /\ n = Len(argv)
  /\ IF program # "main" /\ some_rc # "okay" THEN Exit(some_rc)
     ELSE Goto(IF HasDemo THEN "utilities" ELSE "close")
  /\ n' = 0
  /\ UNCHANGED <<inputs, some_rc, texts, memory, output>>

(***************************************************************************)
(* The demonstration of demo.c and main.c.                                 *)
(***************************************************************************)
\* mach_eval, mach_process and mach_match: an exception is printed as a result.
Utilities ==
  /\ pc = "utilities"
  /\ Malloc({"dst"})
  /\ \E found \in Found : IF found = "missing" THEN Exit("readFile") ELSE Goto("makecrew")
  /\ UNCHANGED <<inputs, n, some_rc, texts, heap, output>>

\* The specification of hal does not exist, and hal is removed in time.
MakeCrew ==
  /\ pc = "makecrew"
  /\ crew' = SetMachine(RemMachine(SetMachine(NewCrew, "hal"), "hal"), "doubler")
  /\ Malloc({"crew", "steppeds", "emitted", "msg"})
  /\ Goto("process")
  /\ UNCHANGED <<inputs, n, some_rc, steppeds, cached, heap, output>>

(***************************************************************************)
(* sheensio.                                                               *)
(***************************************************************************)
ReadCrew ==
  /\ pc = "crewfile"
  /\ \/ \E c \in {Doublers(0), Garbage} :
          /\ crew' = c
          /\ Malloc({"crew", "line", "steppeds", "dst", "emitted"})
          /\ Goto("process")
     \/ Exit("readFile") /\ UNCHANGED <<crew, live>>
  /\ UNCHANGED <<inputs, n, some_rc, steppeds, cached, heap, output>>

\* The statistics that may follow do not matter to the exit.
EndOfInput ==
  /\ program = "sheensio" /\ pc = "process"
  /\ Free({"line", "steppeds", "dst", "emitted", "crew"})
  /\ Goto("close")
  /\ UNCHANGED <<inputs, n, some_rc, texts, heap, output>>

(***************************************************************************)
(* A message.                                                              *)
(***************************************************************************)
\* sheensio exits on any error, the others say so and go on.
Strict_never == FALSE
Strict == program = "sheensio"

Lookups(c, usable) == c.members # {} /\ usable /\ ~cached
Process ==
  /\ pc = "process" /\ (program = "sheensio" => n < MaxLines)
  /\ \E usable \in BOOLEAN, found \in Found :
       /\ program # "sheensio" => usable
       /\ ~Lookups(crew, usable) => found = "fine"
       /\ IF found = "missing" THEN Exit("readFile") /\ UNCHANGED <<steppeds, cached>>
          ELSE /\ steppeds' = CrewProcess(crew, usable, found)
               /\ cached' = (cached \/ (cache /\ Lookups(crew, usable) /\ found = "fine"))
               /\ Goto("emit")
  /\ UNCHANGED <<inputs, n, some_rc, crew, memory, output>>

\* Each doubling is announced once.
Emit ==
  /\ pc = "emit"
  /\ said' = IF GetEmitted(steppeds) = "okay" /\ steppeds # None THEN said + 1 ELSE said
  /\ IF Strict /\ GetEmitted(steppeds) # "okay" THEN Exit("sad") ELSE Goto("update")
  /\ UNCHANGED <<inputs, n, some_rc, texts, memory, reported>>

\* The host takes the result for its crew, whatever it is.  The first message of
\* a demonstration is followed by Rounds others.
Update ==
  /\ pc = "update"
  /\ crew' = CrewUpdate(crew, steppeds)
  /\ n' = n + 1
  /\ Goto(IF HasDemo /\ n = Rounds THEN "rounds over" ELSE "process")
  /\ UNCHANGED <<inputs, some_rc, steppeds, cached, memory, output>>

(***************************************************************************)
(* The end of the demonstration.                                           *)
(***************************************************************************)
OfRounds_noMsg == {"emitted", "steppeds"}
OfRounds == {"msg", "emitted", "steppeds"}
RoundsOver ==
  /\ pc = "rounds over"
  /\ Free(OfRounds)
  /\ Goto("count")
  /\ UNCHANGED <<inputs, n, some_rc, texts, heap, output>>

\* The source for mach_eval is made of the crew; without machines it throws.
OfCount_again == {"dst", "crew", "steppeds"}
OfCount == {"dst", "crew"}
Count ==
  /\ pc = "count"
  /\ IF "doubler" \in crew.members
     THEN reported' = crew.count /\ Free(OfCount) /\ Goto("close")
     ELSE UNCHANGED <<reported, live>> /\ Exit("sad")
  /\ UNCHANGED <<inputs, n, some_rc, texts, heap, said>>

Exited == pc = "exited" /\ UNCHANGED vars

Step == \/ Open \/ SetUp \/ EvalFile \/ FilesEvaluated \/ Utilities \/ MakeCrew
        \/ ReadCrew \/ EndOfInput \/ Process \/ Emit \/ Update
        \/ RoundsOver \/ Count \/ Close
Next == Step \/ Exited

\* One thread, that nothing keeps from running but sheensio's input.
Waiting == program = "sheensio" /\ pc = "process"
Spec == Init /\ [][Next]_vars /\ WF_vars(~Waiting /\ Step)

(***************************************************************************)
(* Properties.                                                             *)
(***************************************************************************)
TypeOK ==
  /\ program \in Program /\ argv \in Seq(Outcome) /\ cache \in BOOLEAN
  /\ pc \in {"begin", "opened", "scripts", "utilities", "makecrew", "crewfile", "process",
             "emit", "update", "rounds over", "count", "close", "exited"}
  /\ n \in Nat /\ some_rc \in Codes
  /\ \A t \in {crew, steppeds} :
       /\ t.kind \in {"unset", "error", "garbage", "crew", "steppeds"}
       /\ t.members \subseteq {"hal", "doubler"} /\ t.count \in Nat
  /\ cached \in BOOLEAN /\ heap \in BOOLEAN /\ live \in [Blocks -> Nat]
  /\ said \in Nat /\ reported \in Nat
  /\ exit \in Codes \cup {"running", "readFile"}

\* A demonstration that exits with 0 has printed the count of all its messages,
\* and every one was announced: a specification that could not be read, or was
\* broken for a single message, never ends in a count that is too small, though
\* every call returned MACH_OKAY or had its code printed only.
ReportsTruth ==
  (exit = "okay" /\ HasDemo) => reported = Rounds + 1 /\ said = reported

\* driver and demo exit with 0 only when all of their scripts were evaluated
\* without an exception, whichever of them came last.
FailuresAreReported ==
  (exit = "okay" /\ program \in {"driver", "demo"}) =>
    \A j \in DOMAIN argv : argv[j] = "result"

\* A program that exits with 0 has freed what it allocated, each block once, and
\* the heap.
CleanExitFreesAll ==
  exit = "okay" => ~heap /\ \A b \in Blocks : live[b] = 0

\* When sheensio reads its next line its crew has counted all lines before, and
\* has announced them: lines that failed are never skipped.
LinesAreCounted ==
  Waiting => \/ crew = Doublers(n) /\ said = n
             \/ crew = Garbage /\ n = 0

\* A program exits, or is sheensio and waits for a line.
Ends == <>(pc = "exited" \/ Waiting)
=============================================================================
