------------------------- MODULE MachinesApiProofs --------------------------
(***************************************************************************)
(* Theorems about MachinesApi, for all texts, contexts, libraries and      *)
(* sizes of destinations.                                                  *)
(***************************************************************************)
EXTENDS MachinesApi, TLAPS

\* A context: its functions and the handle it kept are of libraries that are
\* loaded, and a closed one has neither functions nor a stack.
Loaded(r) ==
  /\ \A l \in r.functions : r.references[l] > 0
  /\ r.handle # NoHandle => r.references[r.handle] > 0
  /\ ~r.open => r.functions = {} /\ r.top = 0
Inv ==
  /\ TypeOK
  /\ \A c \in Context : Loaded(contexts[c])
  /\ \A c \in Context \ made : ~contexts[c].open
  /\ StackCountsFailures

(***************************************************************************)
(* What a call makes of an outcome.                                        *)
(***************************************************************************)
\* An effect: a code, a destination, and an entry exactly when it is MACH_SAD.
Sound(e) ==
  /\ e.rc \in Codes /\ e.dst \in Buffer
  /\ e.left = IF e.rc = "sad" THEN 1 ELSE 0

LEMMA SaidIsText == ASSUME NEW o \in Outcome PROVE Said(o) \in Text
BY TextAssumption DEF Outcome, Said

LEMMA CopyIsBuffer ==
  ASSUME NEW t \in Text, NEW limit PROVE Copy(t, limit) \in Buffer
<1>1. (Length(t) < limit) \in BOOLEAN
  OBVIOUS
<1> QED BY <1>1, Zenon DEF Copy, Buffer

LEMMA CopystrIsSound ==
  ASSUME NEW t \in Text, NEW limit, NEW d \in Buffer
  PROVE  Sound(copystr(d, limit, t))
BY CopyIsBuffer DEF Sound, copystr, Effect, Codes

LEMMA EvalIsSound ==
  ASSUME NEW o \in Outcome, NEW limit, NEW d \in Buffer
  PROVE  Sound(mach_eval(o, d, limit))
<1>1. copystr(d, limit, Said(o)).dst \in Buffer
  BY CopystrIsSound, SaidIsText DEF Sound
<1> QED BY <1>1 DEF Sound, mach_eval, Effect, Codes

LEMMA ProcessIsSound ==
  ASSUME NEW o \in Outcome, NEW limit, NEW d \in Buffer
  PROVE  Sound(mach_process(o, d, limit))
BY CopystrIsSound, SaidIsText DEF mach_process

LEMMA GetResultIsSound ==
  ASSUME NEW o \in Outcome, NEW limit, NEW d \in Buffer
  PROVE  Sound(getResult(o, d, limit))
BY CopyIsBuffer, SaidIsText DEF Sound, getResult, Effect, Codes

(***************************************************************************)
(* Opening and closing one context.                                        *)
(***************************************************************************)
LEMMA ClosedIsSound ==
  ASSUME NEW r \in Runtime, Loaded(r)
  PROVE  /\ Closed(r) \in Runtime /\ Loaded(Closed(r))
         /\ Closed(r).open = FALSE
<1>1. CASE r.handle = NoHandle
  BY <1>1, ApiAssumption DEF Closed, GivenBack, Runtime, Loaded
<1>2. CASE r.handle # NoHandle
  <2> DEFINE refs == [r.references EXCEPT ![r.handle] = @ - 1]
  <2>1. r.handle \in Library /\ r.references[r.handle] \in Nat /\ r.references[r.handle] > 0
    BY <1>2 DEF Runtime, Loaded
  <2>2. refs \in [Library -> Nat]
    BY <2>1 DEF Runtime
  <2>3. Closed(r) = [r EXCEPT !.open = FALSE, !.top = 0, !.functions = {}, !.handle = NoHandle,
                              !.references = refs]
    BY <1>2 DEF Closed, GivenBack
  <2> DEFINE p == [r EXCEPT !.open = FALSE, !.top = 0, !.functions = {}]
  <2>4. p \in Runtime
    BY DEF Runtime
  <2>5. Closed(r) = [p EXCEPT !.handle = NoHandle, !.references = refs]
    BY <2>3
  <2> HIDE DEF refs, p
  <2>6. Closed(r) \in Runtime
    BY <2>2, <2>4, <2>5 DEF Runtime
  <2>7. Closed(r).functions = {} /\ Closed(r).top = 0 /\ Closed(r).handle = NoHandle /\ Closed(r).open = FALSE
    BY <2>3 DEF Runtime
  <2> QED BY <2>6, <2>7 DEF Loaded
<1> QED BY <1>1, <1>2

LEMMA OpenedIsSound ==
  ASSUME NEW r \in Runtime, Loaded(r), NEW loads \in SUBSET Library, NEW last \in Library
  PROVE  LET o == Opened(r, loads, last)
         IN o \in Runtime /\ Loaded(o) /\ o.top = 0 /\ o.open
<1> DEFINE o    == Opened(r, loads, last)
           refs == [l \in Library |-> IF l \in loads \cap Registering
                                      THEN r.references[l] + 1 ELSE r.references[l]]
<1>1. refs \in [Library -> Nat]
  BY DEF Runtime
<1>2. \A l \in loads \cap Registering : refs[l] > 0
  BY DEF Runtime
<1> DEFINE handle == IF last \in loads \cap Registering THEN last ELSE NoHandle
           p == [r EXCEPT !.open = TRUE, !.top = 0, !.functions = {}]
<1>3. p \in Runtime /\ p.top = 0 /\ p.open /\ p.references = r.references
  BY DEF Runtime
<1>4. o = [p EXCEPT !.functions = loads \cap Registering, !.handle = handle, !.references = refs]
  BY <1>3 DEF Opened, Registered
<1>5. loads \cap Registering \in SUBSET Library /\ handle \in Library \cup {NoHandle}
  OBVIOUS
<1>6. handle # NoHandle => refs[handle] > 0
  BY <1>2
<1> HIDE DEF o, refs, p, handle
<1>7. o \in Runtime
  BY <1>1, <1>3, <1>4, <1>5 DEF Runtime
<1>8. o.functions = loads \cap Registering /\ o.handle = handle /\ o.references = refs /\ o.top = 0 /\ o.open
  BY <1>3, <1>4 DEF Runtime
<1>9. Loaded(o)
  BY <1>2, <1>6, <1>8 DEF Loaded
<1> QED BY <1>7, <1>8, <1>9 DEF o

(***************************************************************************)
(* The invariant.                                                          *)
(***************************************************************************)
LEMMA InitInv == Init => Inv
<1> SUFFICES ASSUME Init PROVE Inv
  OBVIOUS
<1>1. contexts \in [Context -> Runtime]
  BY DEF Init, Runtime
<1>2. \A c \in Context : Loaded(contexts[c]) /\ ~contexts[c].open
  BY DEF Init, Loaded
<1>3. dst \in Buffer
  BY DEF Init, Buffer, Fresh
<1> QED BY <1>1, <1>2, <1>3, TextAssumption DEF Init, Inv, TypeOK, StackCountsFailures, Codes

\* A call that ends with a sound effect.
LEMMA EndsKeeps ==
  ASSUME Inv, Callable, NEW code \in Codes, NEW entries,
         entries = (IF code = "sad" THEN 1 ELSE 0), Ends(code, entries)
  PROVE  /\ contexts' \in [Context -> Runtime] /\ \A c \in Context : Loaded(contexts'[c])
         /\ failures' \in [Context -> Nat]
         /\ made' \subseteq Context /\ active' \in Context \cup {NoContext}
         /\ rc' \in Codes /\ StackCountsFailures'
         /\ \A c \in Context \ made' : ~contexts'[c].open
<1>1. active \in Context /\ contexts[active].top \in Nat /\ failures[active] \in Nat
  BY DEF Inv, TypeOK, Callable, Runtime
<1>2. contexts[active].top = failures[active]
  BY <1>1 DEF Inv, StackCountsFailures, Callable
<1> DEFINE k == contexts[active].top + entries
           r == [contexts[active] EXCEPT !.top = k]
<1>3. k \in Nat /\ k = (IF code = "sad" THEN failures[active] + 1 ELSE failures[active])
  BY <1>1, <1>2
<1>4. contexts' = [contexts EXCEPT ![active] = r]
  BY DEF Ends
<1>5. failures' = [failures EXCEPT ![active] = k]
  BY <1>3 DEF Ends
<1>6. rc' = code /\ made' = made /\ active' = active
  BY DEF Ends, ctxVars
<1> HIDE DEF k
<1>7. r \in Runtime /\ Loaded(r) /\ r.top = k
  <2>1. contexts[active] \in Runtime /\ Loaded(contexts[active])
    BY <1>1 DEF Inv, TypeOK
  <2> QED BY <2>1, <1>3 DEF Runtime, Loaded, Callable
<1> HIDE DEF r
<1>8. contexts' \in [Context -> Runtime] /\ failures' \in [Context -> Nat]
  BY <1>1, <1>3, <1>4, <1>5, <1>7 DEF Inv, TypeOK
<1>9. \A c \in Context : Loaded(contexts'[c])
  BY <1>1, <1>4, <1>7 DEF Inv, TypeOK
<1>10. ASSUME NEW c \in Context, contexts'[c].open PROVE contexts'[c].top = failures'[c]
  <2>1. CASE c = active
    BY <1>1, <1>4, <1>5, <1>7, <2>1 DEF Inv, TypeOK
  <2>2. CASE c # active
    BY <1>4, <1>5, <1>10, <2>2 DEF Inv, TypeOK, StackCountsFailures
  <2> QED BY <2>1, <2>2
<1>11. \A c \in Context \ made : ~contexts'[c].open
  BY <1>4 DEF Inv, TypeOK, Callable
<1> QED BY <1>6, <1>8, <1>9, <1>10, <1>11 DEF Inv, TypeOK, StackCountsFailures

\* One context that is exchanged for another, with no failures in it.
LEMMA ExchangeKeeps ==
  ASSUME Inv, NEW a \in Context, NEW r \in Runtime, Loaded(r), r.open => r.top = 0,
         contexts' = [contexts EXCEPT ![a] = r], failures' = [failures EXCEPT ![a] = 0]
  PROVE  /\ contexts' \in [Context -> Runtime] /\ failures' \in [Context -> Nat]
         /\ \A c \in Context : Loaded(contexts'[c])
         /\ StackCountsFailures'
BY DEF Inv, TypeOK, StackCountsFailures

LEMMA ElsewhereKeeps ==
  ASSUME TypeOK, Elsewhere
  PROVE  /\ dst' \in Buffer /\ given' \in Text
         /\ call' \in {"none", "eval", "process", "crew", "makeCrew"}
BY TextAssumption DEF TypeOK, Elsewhere

LEMMA NextInv == Inv /\ [Next]_vars => Inv'
<1> SUFFICES ASSUME Inv, [Next]_vars PROVE Inv'
  OBVIOUS
<1>1. TypeOK /\ dst \in Buffer
  BY DEF Inv, TypeOK
<1>2. ASSUME NEW c \in Context, MakeCtx(c) PROVE Inv'
  <2> DEFINE r == [contexts[c] EXCEPT !.open = FALSE, !.handle = NoHandle]
  <2>1. r \in Runtime /\ Loaded(r) /\ ~r.open
    <3>1. contexts[c] \in Runtime /\ Loaded(contexts[c])
      BY DEF Inv, TypeOK
    <3>2. contexts[c].functions = {} /\ contexts[c].top = 0
      BY <1>2 DEF MakeCtx, Inv, Loaded
    <3> QED BY <3>1, <3>2 DEF Runtime, Loaded
  <2>2. contexts' = [contexts EXCEPT ![c] = r]
    BY <1>2 DEF MakeCtx, Inv, TypeOK, Runtime
  <2> HIDE DEF r
  <2>3. contexts' \in [Context -> Runtime] /\ \A d \in Context : Loaded(contexts'[d])
    BY <2>1, <2>2 DEF Inv, TypeOK
  <2>4. StackCountsFailures'
    BY <1>2, <2>1, <2>2 DEF MakeCtx, Inv, TypeOK, StackCountsFailures
  <2>5. dst' \in Buffer /\ given' \in Text /\ call' \in {"none", "eval", "process", "crew", "makeCrew"}
    BY <1>1, <1>2, ElsewhereKeeps DEF MakeCtx
  <2> QED BY <1>2, <2>3, <2>4, <2>5 DEF MakeCtx, Inv, TypeOK
<1>3. ASSUME NEW c \in Context, SetCtx(c) PROVE Inv'
  <2>1. dst' \in Buffer /\ given' \in Text /\ call' \in {"none", "eval", "process", "crew", "makeCrew"}
    BY <1>1, <1>3, ElsewhereKeeps DEF SetCtx
  <2> QED BY <1>3, <2>1 DEF SetCtx, Inv, TypeOK, StackCountsFailures
<1>4. CASE FreeCtx
  <2>1. dst' \in Buffer /\ given' \in Text /\ call' \in {"none", "eval", "process", "crew", "makeCrew"}
    BY <1>1, <1>4, ElsewhereKeeps DEF FreeCtx
  <2> QED BY <1>4, <2>1 DEF FreeCtx, Inv, TypeOK, StackCountsFailures
<1>5. CASE OpenFails
  <2>1. dst' \in Buffer /\ given' \in Text /\ call' \in {"none", "eval", "process", "crew", "makeCrew"}
    BY <1>1, <1>5, ElsewhereKeeps DEF OpenFails
  <2> QED BY <1>5, <2>1 DEF OpenFails, ctxVars, Inv, TypeOK, StackCountsFailures, Codes
<1>6. CASE Open
  <2>1. active \in Context /\ contexts[active] \in Runtime /\ Loaded(contexts[active])
    BY <1>6 DEF Open, Inv, TypeOK
  <2> DEFINE before == IF contexts[active].open THEN Closed(contexts[active]) ELSE contexts[active]
  <2>2. before \in Runtime /\ Loaded(before)
    BY <2>1, ClosedIsSound
  <2> HIDE DEF before
  <2>3. PICK loads \in SUBSET Library, last \in Library, ok \in BOOLEAN :
          /\ contexts' = [contexts EXCEPT ![active] =
                IF ok THEN Opened(before, loads, last) ELSE Unopened(Opened(before, loads, last))]
          /\ rc' = IF ok THEN "okay" ELSE "sad"
    BY <1>6 DEF Open, before
  <2> DEFINE o == Opened(before, loads, last)
             r == IF ok THEN o ELSE Unopened(o)
  <2>4. o \in Runtime /\ Loaded(o) /\ o.top = 0
    BY <2>2, OpenedIsSound
  <2>5. Unopened(o) \in Runtime /\ Loaded(Unopened(o)) /\ ~Unopened(o).open
    <3> HIDE DEF o
    <3> QED BY <2>4, ClosedIsSound DEF Unopened
  <2>6. r \in Runtime /\ Loaded(r) /\ (r.open => r.top = 0)
    BY <2>4, <2>5
  <2>7. contexts' = [contexts EXCEPT ![active] = r] /\ failures' = [failures EXCEPT ![active] = 0]
    BY <1>6, <2>3 DEF Open
  <2> HIDE DEF r
  <2>8. /\ contexts' \in [Context -> Runtime] /\ failures' \in [Context -> Nat]
        /\ \A c \in Context : Loaded(contexts'[c])
        /\ StackCountsFailures'
    BY <2>1, <2>6, <2>7, ExchangeKeeps
  <2>9. dst' \in Buffer /\ given' \in Text /\ call' \in {"none", "eval", "process", "crew", "makeCrew"}
    BY <1>1, <1>6, ElsewhereKeeps DEF Open
  <2>10. made' = made /\ active' = active /\ rc' \in Codes
    BY <1>6, <2>3 DEF Open, ctxVars, Codes
  <2>11. \A c \in Context \ made : ~contexts'[c].open
    BY <1>6, <2>7 DEF Open, Inv, TypeOK
  <2> QED BY <2>8, <2>9, <2>10, <2>11 DEF Inv, TypeOK
<1>7. CASE Close
  <2>1. active \in Context /\ contexts[active] \in Runtime /\ Loaded(contexts[active])
    BY <1>7 DEF Close, Inv, TypeOK
  <2> DEFINE r == IF contexts[active].open \/ contexts[active].handle # NoHandle
                  THEN Closed(contexts[active]) ELSE contexts[active]
  <2>2. r \in Runtime /\ Loaded(r) /\ ~r.open
    BY <2>1, ClosedIsSound
  <2>3. contexts' = [contexts EXCEPT ![active] = r] /\ failures' = [failures EXCEPT ![active] = 0]
    BY <1>7 DEF Close
  <2> HIDE DEF r
  <2>4. /\ contexts' \in [Context -> Runtime] /\ failures' \in [Context -> Nat]
        /\ \A c \in Context : Loaded(contexts'[c])
        /\ StackCountsFailures'
    BY <2>1, <2>2, <2>3, ExchangeKeeps
  <2>5. dst' \in Buffer /\ given' \in Text /\ call' \in {"none", "eval", "process", "crew", "makeCrew"}
    BY <1>1, <1>7, ElsewhereKeeps DEF Close
  <2> QED BY <1>7, <2>4, <2>5 DEF Close, ctxVars, Inv, TypeOK
<1>8. ASSUME NEW t \in Text, NEW e, Sound(e),
             NEW name \in {"eval", "process", "crew"}, Writes(name, t, e)
      PROVE  Inv'
  <2>1. Callable /\ Ends(e.rc, e.left)
    BY <1>8 DEF Writes
  <2>2. /\ contexts' \in [Context -> Runtime] /\ \A c \in Context : Loaded(contexts'[c])
        /\ failures' \in [Context -> Nat]
        /\ made' \subseteq Context /\ active' \in Context \cup {NoContext}
        /\ rc' \in Codes /\ StackCountsFailures'
        /\ \A c \in Context \ made' : ~contexts'[c].open
    BY <1>8, <2>1, EndsKeeps DEF Sound
  <2>3. dst' \in Buffer /\ given' \in Text /\ call' \in {"none", "eval", "process", "crew", "makeCrew"}
    BY <1>8 DEF Writes, Sound
  <2> QED BY <2>2, <2>3 DEF Inv, TypeOK
<1>9. ASSUME NEW code \in Codes, NEW entries, entries = (IF code = "sad" THEN 1 ELSE 0),
             Callable, Ends(code, entries), Elsewhere
      PROVE  Inv'
  <2>1. /\ contexts' \in [Context -> Runtime] /\ \A c \in Context : Loaded(contexts'[c])
        /\ failures' \in [Context -> Nat]
        /\ made' \subseteq Context /\ active' \in Context \cup {NoContext}
        /\ rc' \in Codes /\ StackCountsFailures'
        /\ \A c \in Context \ made' : ~contexts'[c].open
    BY <1>9, EndsKeeps
  <2>2. dst' \in Buffer /\ given' \in Text /\ call' \in {"none", "eval", "process", "crew", "makeCrew"}
    BY <1>1, <1>9, ElsewhereKeeps
  <2> QED BY <2>1, <2>2 DEF Inv, TypeOK
<1>10. ASSUME NEW o \in Outcome, Eval(o) \/ Process(o) \/ CallCrew(o) PROVE Inv'
  <2>1. Said(o) \in Text
    BY SaidIsText
  <2>2. CASE Eval(o)
    BY <1>1, <1>8, <2>1, <2>2, EvalIsSound DEF Eval
  <2>3. CASE Process(o)
    BY <1>1, <1>8, <2>1, <2>3, ProcessIsSound DEF Process
  <2>4. CASE CallCrew(o)
    BY <1>1, <1>8, <2>1, <2>4, GetResultIsSound DEF CallCrew
  <2> QED BY <1>10, <2>2, <2>3, <2>4
<1>11. ASSUME NEW o \in Outcome, EvalF(o) PROVE Inv'
  <2>1. Fresh \in Buffer
    BY DEF Fresh, Buffer
  <2>2. Sound(mach_eval(o, Fresh, Limit))
    BY <2>1, EvalIsSound
  <2> DEFINE e == mach_eval(o, Fresh, Limit)
  <2>3. Callable /\ Ends(e.rc, e.left) /\ Elsewhere
    BY <1>11 DEF EvalF
  <2> QED BY <1>9, <2>2, <2>3 DEF Sound
<1>12. ASSUME NEW t \in Text, MakeCrew(t) PROVE Inv'
  <2>1. mach_make_crew(t, Limit).rc \in Codes /\ mach_make_crew(t, Limit).dst \in Buffer
    BY DEF mach_make_crew, Effect, String, Buffer, Codes
  <2> QED BY <1>12, <2>1 DEF MakeCrew, ctxVars, Inv, TypeOK, StackCountsFailures
<1>13. CASE GetEmitted \/ DoEmitted
  <2>1. /\ Callable /\ Elsewhere
        /\ Ends("okay", 0) \/ Ends("tooBig", 0) \/ Ends("sad", EmittedThrows)
    BY <1>13 DEF GetEmitted, DoEmitted
  <2> QED BY <1>9, <2>1 DEF Codes, EmittedThrows
<1>14. CASE UNCHANGED vars
  BY <1>14 DEF vars, Inv, TypeOK, StackCountsFailures
<1> QED BY <1>2, <1>3, <1>4, <1>5, <1>6, <1>7, <1>10, <1>11, <1>12, <1>13, <1>14
        DEF Next, UseContexts, Calls

LEMMA InvHolds == Spec => []Inv
BY InitInv, NextInv, PTL DEF Spec

(***************************************************************************)
(* The results.                                                            *)
(***************************************************************************)
\* The state of the interface has its type; with it no library is given back
\* more often than it was taken.
THEOREM ApiTypeCorrect == Spec => []TypeOK
<1>1. Inv => TypeOK
  BY DEF Inv
<1> QED BY <1>1, InvHolds, PTL

\* However contexts are opened, closed and exchanged, a function that can be
\* called is in a library that is loaded.
THEOREM CallsFindTheirCode == Spec => []FunctionsAreLoaded
<1>1. Inv => FunctionsAreLoaded
  BY DEF Inv, Loaded, FunctionsAreLoaded
<1> QED BY <1>1, InvHolds, PTL

\* A value stack holds one entry for every call that failed, and no other.
THEOREM FailuresFillTheStack == Spec => []StackCountsFailures
<1>1. Inv => StackCountsFailures
  BY DEF Inv
<1> QED BY <1>1, InvHolds, PTL

\* A call that returns MACH_SAD leaves every context as it was, but for one more
\* entry on a stack, or closed.
THEOREM SadLeavesNoRest == Spec => SadIsCleanOrSame
<1> DEFINE Clean(c) ==
      (rc' = "sad" /\ contexts'[c] # contexts[c]) =>
          \/ contexts'[c] = [contexts[c] EXCEPT !.top = @ + 1]
          \/ ~contexts'[c].open /\ contexts'[c].functions = {} /\ contexts'[c].top = 0
<1>1. ASSUME Inv, Inv', [Next]_vars, NEW c \in Context PROVE Clean(c)
  <2>1. Loaded(contexts'[c])
    BY <1>1 DEF Inv
  <2>2. CASE ~contexts'[c].open
    BY <2>1, <2>2 DEF Loaded
  <2>3. CASE contexts'[c].open
    <3>1. ASSUME NEW code, NEW entries, Ends(code, entries), Callable,
                 entries = (IF code = "sad" THEN 1 ELSE 0)
          PROVE  Clean(c)
      BY <3>1, <1>1 DEF Ends, Inv, TypeOK, Runtime
    <3>2. CASE contexts' = contexts
      BY <3>2
    <3>3. ASSUME NEW d \in Context, MakeCtx(d) PROVE contexts'[c] = contexts[c]
      BY <3>3, <2>3, <1>1 DEF MakeCtx, Inv, TypeOK, Runtime
    <3>4. ASSUME Open, rc' = "sad" PROVE contexts'[c] = contexts[c]
      <4>1. active \in Context /\ contexts[active] \in Runtime /\ Loaded(contexts[active])
        BY <1>1, <3>4 DEF Open, Inv, TypeOK
      <4> DEFINE before == IF contexts[active].open THEN Closed(contexts[active])
                           ELSE contexts[active]
      <4>2. before \in Runtime /\ Loaded(before)
        BY <4>1, ClosedIsSound
      <4> HIDE DEF before
      <4>3. PICK loads \in SUBSET Library, last \in Library :
              contexts' = [contexts EXCEPT ![active] = Unopened(Opened(before, loads, last))]
        BY <3>4 DEF Open, before
      <4> DEFINE o == Opened(before, loads, last)
      <4>4. o \in Runtime /\ Loaded(o)
        BY <4>2, OpenedIsSound
      <4>5. contexts' = [contexts EXCEPT ![active] = Unopened(o)]
        BY <4>3
      <4> HIDE DEF o
      <4>6. Unopened(o).open = FALSE
        BY <4>4, ClosedIsSound DEF Unopened
      <4> QED BY <1>1, <2>3, <4>1, <4>5, <4>6 DEF Inv, TypeOK
    <3>5. ASSUME Close PROVE contexts'[c] = contexts[c]
      <4>1. active \in Context /\ contexts[active] \in Runtime /\ Loaded(contexts[active])
        BY <1>1, <3>5 DEF Close, Inv, TypeOK
      <4>2. Closed(contexts[active]).open = FALSE
        BY <4>1, ClosedIsSound
      <4> QED BY <1>1, <2>3, <3>5, <4>1, <4>2 DEF Close, Inv, TypeOK
    <3>6. ASSUME NEW t, NEW e, NEW name, Writes(name, t, e), Sound(e) PROVE Clean(c)
      BY <3>1, <3>6 DEF Writes, Sound
    <3>7. dst \in Buffer /\ Fresh \in Buffer
      BY <1>1 DEF Inv, TypeOK, Fresh, Buffer
    <3> HIDE DEF Clean
    <3>8. ASSUME NEW o \in Outcome, Eval(o) \/ Process(o) \/ CallCrew(o) PROVE Clean(c)
      BY <3>6, <3>7, <3>8, EvalIsSound, ProcessIsSound, GetResultIsSound
         DEF Eval, Process, CallCrew
    <3>9. ASSUME NEW o \in Outcome, EvalF(o) PROVE Clean(c)
      BY <3>1, <3>7, <3>9, EvalIsSound DEF EvalF, Sound
    <3>10. ASSUME GetEmitted \/ DoEmitted PROVE Clean(c)
      <4>1. /\ Callable
            /\ Ends("okay", 0) \/ Ends("tooBig", 0) \/ Ends("sad", EmittedThrows)
        BY <3>10 DEF GetEmitted, DoEmitted
      <4> QED BY <3>1, <4>1 DEF EmittedThrows
    <3>11. ASSUME NEW d \in Context, SetCtx(d) PROVE contexts' = contexts
      BY <3>11 DEF SetCtx
    <3>12. ASSUME FreeCtx \/ OpenFails \/ \E t \in Text : MakeCrew(t) PROVE contexts' = contexts
      BY <3>12 DEF FreeCtx, OpenFails, MakeCrew
    <3>13. UNCHANGED vars => contexts' = contexts
      BY DEF vars
    <3>14. contexts'[c] = contexts[c] \/ rc' # "sad" => Clean(c)
      BY DEF Clean
    <3> QED BY <1>1, <3>3, <3>4, <3>5, <3>8, <3>9, <3>10, <3>11, <3>12, <3>13, <3>14
            DEF Next, UseContexts, Calls
  <2> QED BY <2>2, <2>3
<1>2. Inv /\ Inv' /\ [Next]_vars => [\A c \in Context : Clean(c)]_vars
  BY <1>1
<1> QED BY <1>2, InvHolds, PTL DEF Spec, SadIsCleanOrSame

(***************************************************************************)
(* Destinations.                                                           *)
(***************************************************************************)
\* DestinationIsWhole: whatever a call was given, its destination is as it was, or
\* holds all of it, with the terminator that getResult leaves out when the
\* text is as long as the destination; only mach_make_crew cuts a text off.
THEOREM DestinationsAreWhole == Spec => DestinationIsWhole
<1> DEFINE Whole == \/ dst'.says = given' /\ (dst'.ended \/ (call' = "crew" /\ Length(given') = Limit))
                    \/ call' = "makeCrew" /\ dst'.says = Torn /\ Length(given') >= Limit
<1>1. \A t \in Text : Length(t) \in Nat
  BY TextAssumption
<1>2. Limit \in Nat
  BY ApiAssumption
<1>3. ASSUME [Next]_vars, dst' # dst PROVE Whole
  <2>1. PICK o \in Outcome : Eval(o) \/ Process(o) \/ CallCrew(o) \/ \E t \in Text : MakeCrew(t)
    <3>1. Outcome # {}
      BY DEF Outcome
    <3> QED
      BY <1>3, <3>1 DEF Next, UseContexts, Calls, vars, Elsewhere, MakeCtx, SetCtx, FreeCtx,
                        OpenFails, Open, Close, EvalF, GetEmitted, DoEmitted
  <2>2. Said(o) \in Text
    BY SaidIsText
  <2>3. CASE Eval(o)
    BY <1>3, <2>2, <2>3 DEF Eval, Writes, mach_eval, copystr, Copy, Fits, Effect
  <2>4. CASE Process(o)
    BY <1>3, <2>2, <2>4 DEF Process, Writes, mach_process, copystr, Copy, Fits, Effect
  <2>5. CASE CallCrew(o)
    <3>1. /\ call' = "crew" /\ given' = Said(o) /\ dst' = getResult(o, dst, Limit).dst
      BY <2>5 DEF CallCrew, Writes
    <3>2. dst' = Copy(Said(o), Limit) /\ ~(Limit < Length(Said(o)))
      BY <1>3, <3>1 DEF getResult, Effect
    <3>3. Length(Said(o)) < Limit \/ Length(Said(o)) = Limit
      BY <1>1, <1>2, <2>2, <3>2
    <3>4. dst'.says = Said(o)
      BY <3>2 DEF Copy
    <3>5. Length(Said(o)) < Limit => dst'.ended
      BY <3>2 DEF Copy
    <3> QED BY <3>1, <3>3, <3>4, <3>5
  <2>6. ASSUME NEW t \in Text, MakeCrew(t) PROVE Whole
    <3>1. /\ call' = "makeCrew" /\ given' = t
          /\ dst' = String(IF Length(t) < Limit THEN t ELSE Torn)
      BY <2>6 DEF MakeCrew, mach_make_crew, Effect
    <3> QED BY <1>1, <1>2, <3>1 DEF String
  <2> QED BY <2>1, <2>3, <2>4, <2>5, <2>6
<1>4. [Next]_vars => [dst' # dst => Whole]_vars
  BY <1>3
<1> QED BY <1>4, PTL DEF Spec, DestinationIsWhole
=============================================================================
