---------------------------- MODULE MachinesApi -----------------------------
(***************************************************************************)
(* The C interface (machines.c, machines.h) as a host may use it: contexts *)
(* are made, set, opened, closed and freed, and the active one is called,  *)
(* in any order that machines.h allows.  A context has a Duktape heap      *)
(* while it is open.  Opening it loads every library of ./lib and enters   *)
(* their functions into the heap; of the handles it keeps only the last.   *)
(*                                                                         *)
(* What the ECMAScript behind a call does is any outcome of Results.  The  *)
(* host has one destination for all results; the destinations of emissions *)
(* are in Crew.                                                            *)
(***************************************************************************)
EXTENDS Results

CONSTANTS
  Context,       \* the addresses malloc gives to contexts
  NoContext,     \* NULL
  Library,       \* the files of ./lib
  Registering,   \* those that have register_functions
  NoHandle,      \* NULL
  Limit,         \* the size of the destination
  MaxEntries,    \* bound: entries left on a value stack
  MaxReferences  \* bound: references to a library

ASSUME ApiAssumption ==
  /\ NoContext \notin Context
  /\ Registering \subseteq Library /\ NoHandle \notin Library
  /\ Limit \in Nat \ {0}

\* A context, with the references to libraries that were taken for it: dlopen
\* takes one, dlclose gives one back.
Runtime == [open : BOOLEAN, top : Nat, functions : SUBSET Library,
            handle : Library \cup {NoHandle}, references : [Library -> Nat]]

VARIABLES
  made,      \* contexts that were made and not freed
  active,    \* ctx
  contexts,  \* [Context -> Runtime]
  dst,       \* the host's destination
  rc,        \* the last return code
  call,      \* the call that gave it, if that writes into dst
  given,     \* what its ECMAScript said
  failures   \* [Context -> Nat]: calls that failed since the context was opened

ctxVars  == <<made, active>>
vars     == <<made, active, contexts, dst, rc, call, given, failures>>

\* Calls that do not write into dst.
Elsewhere == dst' = dst /\ call' = "none" /\ given' = Blank

Init ==
  /\ made = {} /\ active = NoContext
  /\ contexts = [c \in Context |->
                   [open |-> FALSE, top |-> 0, functions |-> {}, handle |-> NoHandle,
                    references |-> [l \in Library |-> 0]]]
  /\ dst = Fresh
  /\ rc = "okay" /\ call = "none" /\ given = Blank
  /\ failures = [c \in Context |-> 0]

(***************************************************************************)
(* Contexts.                                                               *)
(***************************************************************************)
\* The memory is cleared; references that were leaked for it stay.
MakeCtx(c) ==
  /\ c \notin made
  /\ made' = made \cup {c}
  /\ contexts' = [contexts EXCEPT ![c].open = FALSE, ![c].handle = NoHandle]
  /\ Elsewhere /\ UNCHANGED <<active, rc, failures>>

SetCtx(c) ==
  /\ c \in made
  /\ active' = c
  /\ Elsewhere /\ UNCHANGED <<made, contexts, rc, failures>>

\* free(mach_get_ctx()), after mach_close.
FreeCtx ==
  /\ active \in made /\ ~contexts[active].open
  /\ made' = made \ {active}
  /\ Elsewhere /\ UNCHANGED <<active, contexts, rc, failures>>

(***************************************************************************)
(* Opening and closing.                                                    *)
(***************************************************************************)
\* mach_close: the heap goes first, then the library whose handle was kept.
GivenBack(r) ==
  IF r.handle = NoHandle THEN r.references ELSE [r.references EXCEPT ![r.handle] = @ - 1]
Closed_again(r) ==
  [r EXCEPT !.open = FALSE, !.top = 0, !.functions = {}, !.references = GivenBack(r)]
Closed(r) ==
  [r EXCEPT !.open = FALSE, !.top = 0, !.functions = {}, !.handle = NoHandle,
            !.references = GivenBack(r)]

\* load_and_register_functions, library after library up to "last": each one
\* that loads takes a reference, which is given back when it has nothing to
\* register.
Registered_closing(r, loads, last) ==
  [r EXCEPT !.functions = loads \cap Registering,
            !.handle = IF last \in loads \cap Registering THEN last ELSE NoHandle,
            !.references = [l \in Library |->
               IF l \in loads \cap Registering /\ l = last THEN @[l] + 1 ELSE @[l]]]
Registered(r, loads, last) ==
  [r EXCEPT !.functions = loads \cap Registering,
            !.handle = IF last \in loads \cap Registering THEN last ELSE NoHandle,
            !.references = [l \in Library |->
               IF l \in loads \cap Registering THEN @[l] + 1 ELSE @[l]]]

Opened(r, loads, last) ==
  Registered([r EXCEPT !.open = TRUE, !.top = 0, !.functions = {}], loads, last)

\* No context, or no memory.
OpenFails ==
  /\ active \in made \cup {NoContext}
  /\ rc' = "sad"
  /\ Elsewhere /\ UNCHANGED <<ctxVars, contexts, failures>>

\* An open context is closed first.  When the library's own ECMAScript fails
\* the context is closed again.
Unopened_left(r) == r
Unopened(r) == Closed(r)
Open ==
  /\ active \in made
  /\ \E loads \in SUBSET Library, last \in Library, ok \in BOOLEAN :
       LET r == IF contexts[active].open THEN Closed(contexts[active]) ELSE contexts[active]
           o == Opened(r, loads, last)
       IN /\ \A l \in Library : o.references[l] <= MaxReferences
          /\ contexts' = [contexts EXCEPT ![active] = IF ok THEN o ELSE Unopened(o)]
          /\ rc' = IF ok THEN "okay" ELSE "sad"
  /\ failures' = [failures EXCEPT ![active] = 0]
  /\ Elsewhere /\ UNCHANGED ctxVars

Close ==
  /\ active \in made
  /\ contexts' = [contexts EXCEPT ![active] =
                    IF @.open \/ @.handle # NoHandle THEN Closed(@) ELSE @]
  /\ failures' = [failures EXCEPT ![active] = 0]
  /\ Elsewhere /\ UNCHANGED <<ctxVars, rc>>

(***************************************************************************)
(* Calls.                                                                  *)
(***************************************************************************)
Callable == active \in made /\ contexts[active].open

\* A call is over: what it leaves on the stack, and its code.
Ends(code, entries) ==
  /\ contexts[active].top + entries <= MaxEntries
  /\ contexts' = [contexts EXCEPT ![active].top = @ + entries]
  /\ rc' = code
  /\ failures' = [failures EXCEPT ![active] = IF code = "sad" THEN @ + 1 ELSE @]
  /\ UNCHANGED ctxVars

Writes(name, t, e) ==
  /\ Callable
  /\ Ends(e.rc, e.left)
  /\ dst' = e.dst /\ call' = name /\ given' = t

Eval(o) == Writes("eval", Said(o), mach_eval(o, dst, Limit))

\* mach_set_spec_cache_limit, mach_enable_spec_cache, mach_clear_spec_cache:
\* evalf has a destination of its own.
EvalF(o) ==
  LET e == mach_eval(o, Fresh, Limit)
  IN Callable /\ Ends(e.rc, e.left) /\ Elsewhere

\* mach_process, mach_match.
Process(o) == Writes("process", Said(o), mach_process(o, dst, Limit))

\* mach_set_machine, mach_rem_machine, mach_crew_process, mach_crew_update.
CallCrew(o) == Writes("crew", Said(o), getResult(o, dst, Limit))

\* Needs no heap.
MakeCrew(t) ==
  LET e == mach_make_crew(t, Limit)
  IN /\ rc' = e.rc /\ dst' = e.dst /\ given' = t /\ call' = "makeCrew"
     /\ UNCHANGED <<ctxVars, contexts, failures>>

\* mach_get_emitted and mach_do_emitted; mach_do_emitted is okay whatever the
\* host's function returns.  When GetEmitted throws neither takes the exception
\* off the stack.
EmittedThrows == 1
GetEmitted == Callable /\ Elsewhere /\ (Ends("okay", 0) \/ Ends("tooBig", 0) \/ Ends("sad", EmittedThrows))
DoEmitted  == Callable /\ Elsewhere /\ (Ends("okay", 0) \/ Ends("sad", EmittedThrows))

UseContexts == \/ \E c \in Context : MakeCtx(c) \/ SetCtx(c)
               \/ FreeCtx \/ OpenFails \/ Open \/ Close
Calls == \/ \E o \in Outcome : Eval(o) \/ EvalF(o) \/ Process(o) \/ CallCrew(o)
         \/ \E t \in Text : MakeCrew(t)
         \/ GetEmitted \/ DoEmitted
Next == UseContexts \/ Calls
Spec == Init /\ [][Next]_vars

(***************************************************************************)
(* Properties.                                                             *)
(***************************************************************************)
TypeOK ==
  /\ made \subseteq Context /\ active \in Context \cup {NoContext}
  /\ contexts \in [Context -> Runtime]
  /\ dst \in Buffer
  /\ rc \in Codes /\ given \in Text
  /\ call \in {"none", "eval", "process", "crew", "makeCrew"}
  /\ failures \in [Context -> Nat]

\* A function that ECMAScript can call is in a library that is loaded, however
\* often contexts are opened, opened again, closed and exchanged: mach_open
\* overwrites the handles of all libraries but one, and mach_close unloads one.
FunctionsAreLoaded ==
  \A c \in Context : \A l \in contexts[c].functions : contexts[c].references[l] > 0

\* The value stack of a heap holds one entry for each call that failed with
\* MACH_SAD, and none for any other, whatever its outcome.
StackCountsFailures ==
  \A c \in Context : contexts[c].open => contexts[c].top = failures[c]

\* When mach_open or any other call returns MACH_SAD, what was open is either
\* closed altogether or as it was, but for its stack.
SadIsCleanOrSame ==
  [][\A c \in Context :
       (rc' = "sad" /\ contexts'[c] # contexts[c]) =>
          \/ contexts'[c] = [contexts[c] EXCEPT !.top = @ + 1]
          \/ ~contexts'[c].open /\ contexts'[c].functions = {} /\ contexts'[c].top = 0]_vars

\* A destination that changed holds all that the call's ECMAScript said, and its
\* end: but for the calls that use getResult, when that is exactly as long as the
\* destination, and for mach_make_crew, which cuts a text off.
DestinationIsWhole ==
  [][dst' # dst =>
       \/ dst'.says = given' /\ (dst'.ended \/ (call' = "crew" /\ Length(given') = Limit))
       \/ call' = "makeCrew" /\ dst'.says = Torn /\ Length(given') >= Limit]_vars

\* When mach_eval returns MACH_OKAY its destination holds the result.
OkayMeansResult == (call = "eval" /\ rc = "okay") => dst = String(given)
=============================================================================
