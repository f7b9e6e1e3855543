# Little Sheens in TLA+

This directory specifies Little Sheens, a library that runs *machines*: a
machine has a specification (a graph of nodes, each with actions and branches),
stands at a node with a set of bindings, and is offered JSON messages. The
JavaScript of `src/js/` and `src/driver.js` decides what a machine does, the C
of `src/machines.c` embeds it with Duktape, and small hosts (`sheensio.c`,
`demo.c`, `main.c`, `driver.c`) feed it.

The modules here are written from the code. TLC checks them on small instances;
TLAPS proves the most important safety properties for every instance.

## 1. The system

| component | source | state it keeps | operations |
|---|---|---|---|
| pattern matcher | `js/match.js` | none of its own; writes into the bindings objects it is given | `match(ctx, pattern, message, bindings)` |
| step and walk | `js/step.js` | for one call: the state reached, the pending message, emissions, the step count | `step`, `walk` |
| sandboxed actions | `js/sandbox.js`, `sandbox` in `machines.c` | none; writes an error into the bindings | `sandboxedAction` |
| one machine's driver | `Process` in `driver.js` | none; the host keeps the machine's state between calls | `Process` (`mach_process`) |
| specification cache | `SpecCache`, `GetSpec` in `driver.js` | enabled, entries in order of addition, limit, size | enable, disable, clear, setLimit, add, get, `GetSpec` |
| spec providers | `util.c`, `sheensio.c`; contract in `machines.h` | the file system | `specProvider(ctx, name, cached)` |
| crews | `driver.js` | a crew as JSON: machines by id | `SetMachine`, `RemMachine`, `CrewProcess`, `CrewUpdate`, `GetEmitted` |
| C interface | `machines.c` | the contexts, the active one; per context its Duktape heap and value stack, and handles of libraries | `mach_*` |
| native libraries | `lib/libc.c`, `lib/libcurl.c` | for one request: an easy handle, the answer so far | `arrtoip`, `httpGet`, `httpPost`, `httpPut`, `httpDelete` |
| stream host | `sheensio.c` | the crew, as text | read, process, print, update |
| demonstration hosts | `driver.c`, `demo.c`, `main.c`, `util.c` | the crew, as text; what failed of their scripts | evaluate scripts, send messages, count |
| machine specifications | `specs/*.yaml` | the bindings of their machines | nodes |
| action library | `js/core.js` | none | helpers for the sources of actions |
| profiling | `js/prof.js` | timers | `Times` |

How they interact: a host calls `mach_process` or `mach_crew_process`; the
driver asks `GetSpec` for the specification (which asks the provider, on every
call, and parses what it returns unless it is what the cache holds) and calls
`walk`; `walk` calls `step` until nothing moves; `step` runs the node's actions
in the sandbox and matches the branches' patterns. `mach_open` loads the native
libraries and enters their functions into the heap it makes, where scripts and
the library's own ECMAScript call them. Everything runs in one
thread, and no call is interrupted. What makes the code hard is not concurrency
but *aliasing* (the bindings object that the host gets back is the one that
`match` and `sandboxedAction` write into), *partial failure* (a walk that throws
after some steps, an action that fails inside a step), *sequences* of calls (a
walk cut by its limit goes on with the next message; a cache that was disabled,
resized, and used again) and *JavaScript's conversions* (`if (binding)`, `==`).
The hazards of `PROJECT.json` list these places line by line.

What makes each component correct:

- matcher: it returns exactly the sets of bindings under which the pattern
  agrees with the message; it throws only for patterns it does not allow; it
  leaves its caller's bindings alone.
- step and walk: a message is used once; no emission of a step that made a
  transition is lost, or repeated; a walk ends; it stops only where nothing is
  left to do or at its limit; a walk that throws changes nothing.
- cache: the counter is right, the limit is kept, the oldest entry leaves and
  only when it must; a machine runs with the specification its file holds, or
  with the cached one where the file says nothing or is not read again.
- crews: a message reaches the machines it is for, once; what is printed and
  where the machines go come of the same answers; an update applies every stepped,
  or none.
- C interface: a return code of `MACH_OKAY` means that the destination holds the
  whole result; a failed call leaves nothing behind but an entry on the value
  stack; no function can be called whose library is gone.
- native libraries: a request gives back what it took, wherever it fails, but for
  a block that it holds while Duktape has no room for its string; it returns whole
  answers only; an address is the one that was asked for.
- hosts: an exit with 0 means that everything was done, counted and freed.

## 2. Modules

| module | models | role |
|---|---|---|
| `Values` | what `js/match.js` reads and writes | JSON values as tagged records, objects as sequences of entries; variables, bindings, JavaScript's conversions |
| `Matching` | `js/match.js` | pure operators; bindings live in a heap so that in-place writes are visible |
| `MatchSpec` | a call of `match` | the reference (`Agree`, `Answers`) and the matcher's properties |
| `MCMatch` | | the calls TLC enumerates |
| `Machine` | what a machine promises its host | abstract specification: Receive, Move, Break, Settle, Fail |
| `Walk` | `js/step.js`, `js/sandbox.js`, `Process` | the core: one action per stretch of code between two decisions |
| `MCGadget` | | a machine that takes `Walk` through every path, with `Matching` as its matcher |
| `WalkProofs` | | theorems about `Walk` |
| `Specs` | `specs/double, turnstile, ladder, latch` | their nodes, for `Walk`, and their sources; what those machines are for |
| `MCShipped` | | starts, messages and bindings, with `Matching` as the matcher |
| `SpecsProofs` | | theorems about `Specs` |
| `SpecCache` | `SpecCache`, `GetSpec`, `mach_*_spec_cache*`, the providers | one action per call of the host |
| `MCCache` | | model values and symmetry |
| `SpecCacheProofs` | | theorems about `SpecCache` |
| `Crew` | the crew functions of `driver.js`, `mach_crew_*` and `mach_get_emitted`, the loop of `sheensio.c` | a host that gives a crew one message after another |
| `MCCrew` | | machines that move, write, speak and throw; a specification that cannot always be read |
| `CrewProofs` | | theorems about `Crew` |
| `Rounds` | what a crew promises its host | abstract specification: Set, Remove, Ask, Tell, Move, GiveUp |
| `RoundsProofs` | | the theorem that `Crew` implements `Rounds` |
| `Results` | `copystr`, `getResult` and what each call does with its result in `machines.c` | operators: code, destination, what stays on the value stack |
| `MachinesApi` | `machines.c`, `machines.h` | a host that makes, opens, closes and frees contexts and calls the active one, in any order |
| `MCApi` | | texts that are empty, fit, fit exactly and do not fit |
| `MachinesApiProofs` | | theorems about `MachinesApi` |
| `Natives` | `lib/libc.c`, `lib/libcurl.c` | a script that calls native functions one after another |
| `MCNatives` | | arrays and answers |
| `NativesProofs` | | theorems about `Natives` |
| `Hosts` | `driver.c`, `demo.c`, `main.c`, `util.c`, `sheensio.c`, and what of `driver.js` they use | one program from `main` to its exit |
| `MCHosts` | | lists of scripts |
| `HostsProofs` | | theorems about `Hosts` |

`Walk` implements `Machine`, and `Crew` implements `Rounds`. `MCGadget` composes
`Walk` with `Matching`; `Specs` extends `Walk` with the shipped machines, which
`MCShipped` composes with `Matching`. `Matching` and `Specs` extend `Values`. `MachinesApi` extends `Results`. `Crew` and `Hosts`
take what the modules below them can do as parameters or outcomes: look-ups, walks,
results.

### Matching and MatchSpec

`match`, `arraycatMatch`, `mapcatMatch`, `inequal`, `matchWithBindings` and
`extend` keep their names. Loops over arrays are folds; mutual recursion stays
recursion. Every operator takes the heap and returns it, with the result and
whether it threw; `Matched` is the view from outside: results, what is left in
the caller's object, and whether the first result *is* that object. `Walk` needs
the last two.

`Agree(p, m, s)` says, without any algorithm, that pattern `p` agrees with
message `m` under bindings `s`; an array pattern needs an injection of its
elements into the message's. `Answers` are the smallest agreeing extensions of
the call's bindings.

### Walk

| variable | code |
|---|---|
| `state` | the state the host holds between calls |
| `at` | `stepped.to` in `walk`, `state` in `step` |
| `message`, `consumed`, `emitted`, `steps` | the locals of `walk` (`steps` is `i`) |
| `bs`, `out`, `k` | the locals `bs`, `emitted`, `i` of `step` |
| `shared` | whether `bs` and `at.bs` are the same object |
| `against`, `reading` | the local `against` of `step` at a node that does not listen, and whether it and `bs` are the same object |
| `pc` | where the call is; `"idle"` between calls |
| `voiced`, `said`, `uses`, `resting` | history, read by properties only |

| action | code |
|---|---|
| `Begin` | `Process` calls `walk` |
| `Limited`, `Enter` | the loop head; the look-up of the node |
| `Skip`, `Act` | one action of the node: log or bad interpreter; run in the sandbox |
| `Branching` | nothing to branch on, or no message to listen to, ends the step; otherwise what patterns are matched against is fixed for all branches |
| `Unconditional`, `TryPattern`, `NoBranchLeft` | the branch loop, with and without pattern |
| `TryGuard` | the guard; one that returns nothing moves on to the next branch |
| `Take`, `TakeFails` | `step` returns a transition; `walk` adds it up, or throws on undefined emissions |
| `Done` | the host keeps the returned state, or the old one after an exception |

The matcher, the sandbox and the specification are parameters (`Match`,
`MatchBs`, `Eval`, `Nodes`), constrained by named assumptions that the
instances meet and the proofs use. A source is a set of outcomes: bindings (or
nothing) with emissions, or an error. The sandbox of `machines.c` returns an error
as its text, so there is a third kind: a source that throws text which is itself
JSON is taken for a reply, whose bindings and emissions are undefined; for `null`
there is the action `NoReply`, where `evaled.bs` is a `TypeError`.

Two things a reader should know that no property judges. `step` keeps the
emissions of the last action of a node only (`Accumulate`): those of a first of
two actions are dropped. And a walk that makes no transition can return changed
bindings, because `match` and `sandboxedAction` write into the object that `walk`
hands back.

### Specs

Each machine is a function from its nodes to their actions, type and branches,
`Shipped` is the four together, and `Runs` says what each source does to bindings.
`count++`, `rung++` and `rung--` stop at bounds (`MaxCount`, `Lowest`). The
sources of one machine run on its own bindings only: for others `Runs` is
empty. The assumptions say what an instance must be for the properties to be
about these machines: the nodes and sources are the shipped ones
(`ShippedAssumption`), a host starts a machine at its first node with its
parameters (`StartsAssumption`), and a pattern is one property of a message,
which is found once or not at all, and whose match keeps the bindings there are
(`PatternsAssumption`). TLC evaluates them for `Matching` in `walk_shipped`.

### SpecCache

The entries are a sequence because `Object.keys` lists properties in the order
they were added. `Enable`, `Clear`, `SetLimit` are the host's calls, `GetSpec`
is the look-up with the provider's answer and everything `SpecCache.add` does,
`Exit` is the host's `exit(1)` when the file cannot be read, `Edit` changes a
file behind the host's back, and `Register` is `mach_set_spec_provider`. A
provider is one of three kinds: `"always"` reads
the file (`util.c`), `"whenUncached"` answers only when nothing is cached
(`sheensio.c`), `"ifChanged"` keeps the contract of `machines.h:33-37` (no host
of the repository registers one).

A file holds JSON, something else, nothing, or is missing. `readFile` writes a 0
over the last byte of a file, so that one of a single byte answers `""`; `GetSpec`
tests the answer for truth, so that `""` is no answer, like NULL (`NoAnswer`): the
cached specification is used, or `not provided` is thrown. With the provider of
`sheensio.c` a cached specification is never read again, so that an edit is not
seen while the cache is enabled and holds the entry. `Current` says precisely
that: in these two cases the cached specification is used, and in all others the
file's.

### Crew

| variable | code |
|---|---|
| `crew`, `steppeds`, `slots` | the host's texts: `crew`, `steppeds`, `emitted[]` of `sheensio.c` |
| `message`, `rc` | `line`, `rc` |
| `said` | what was printed for this message |
| `targets`, `i`, `machines`, `text` | the locals of `CrewProcess`: `crew.machines` after parsing, and `steppeds` as far as it has got |

`Receive` reads a line and enters `CrewProcess`; `Skip`, `Process`, `Throw`,
`ProviderExits` and `AllProcessed` are its loop, one target at a time;
`ProcessReturns`, `EmittedReturns` and `UpdateReturns` are the three calls of the
C interface with their return codes, after each of which the host goes on or
exits; `Say` prints. Between messages the host may call `mach_set_machine` and
`mach_rem_machine`, as `demo.c` does. `GetSpec` and `walk` are parameters: what
`SpecCache` and `Walk` let them do, one result out of a set each time. A walk may
write into the bindings it is given (`left`), which only a machine that the
message names twice can notice.

A result that is too big for its destination is possible at every call. The text
of an exception is a value of its own, because the C interface returns it with
`MACH_OKAY`; taken for a crew it is JSON without machines. What keeps the host of
`sheensio.c` from taking it for one is that `mach_get_emitted`, which it calls in
between, fails on it: `CrewKept` holds because of that detour. `demo.c` goes on
after that failure, and its next `strcpy` would replace the crew (`Hosts`).

`Rounds` says the same without texts, loops, destinations and return codes. A crew
is a function from ids to machines. A message is asked; then either each machine it
is for has one answer, the host prints what the answers emitted, and the machines
move to where the same answers took them (`Tell`, `Move`), or the host gives up,
before it printed or after, and none has moved (`GiveUp`: a result that is too big
makes it exit at any of its calls, the update included). `Crew` implements it with this mapping:

| `Rounds` | `Crew` |
|---|---|
| `crew` | `ById(crew)`: the machines of the sequence at their ids; none for a crew without `machines` |
| `round` | `"idle"`; `"told"` at `pc = "said"`; `"over"` when the process has exited; otherwise `"asked"` |
| `message`, `answers` | `message` while a round lasts; `steppeds` once they were printed |
| `printed` | `said` |
| `Answers(m, mc)` | `LastOutcomes`: what the last of as many walks as `m` names `mc` can return, each from the machine's node and the bindings that the one before left |

Two answers of one machine, an answer of a machine that the message is not for, an
update from other `steppeds` than those that were printed, or a half moved crew
would each be a step that `Rounds` does not have.

### Results and MachinesApi

| variable | code |
|---|---|
| `made`, `active` | contexts from `mach_make_ctx`; `ctx` |
| `contexts` | of each: `dctx` is there; the height of its value stack; the native functions of its heap; `func_handle`; references that `dlopen` took for it |
| `dst` | the host's destination: what it says, and whether that has an end |
| `rc`, `call`, `given` | the last return code, the call, and what its ECMAScript said |
| `failures` | history: calls that failed since the context was opened |

A result is a string, no string, or an exception with its text; a text is its
length. `copystr`, `mach_eval`, `mach_process` (also `mach_match`), `getResult` and
`mach_make_crew` say what becomes of it: they compare with the limit in three
different ways, treat an exception in two, and `mach_eval` drops the code of
`copystr`. `Open` is all of `mach_open`: closing what was open, the heap, every
library of `./lib` in the order of the directory, the evaluation of the library's
ECMAScript and closing again when that fails. `load_and_register_functions`
overwrites `func_handle`, so that `Close` gives back one library only; the others
stay loaded, which is a leak, and the reason why nothing that was registered ever
dangles.

### Natives

`Arrtoip` is `native_arrtoip` with its loop as a function over the array; a
fraction is cut off, a NaN passes both comparisons and is cast to any octet; the
string of an array of another length than 4 and 16 is the contents of an
uninitialised buffer. `AddressIsOfArray` is about arrays of 4 and 16 elements
without NaNs and fractions; that the others are rejected, as `core.js` says, is
`RejectsInvalidArrays`, which does not hold. A request
is several steps, between which the server sends: `Request` (the arguments and
the method), `InitFails`, `Start` or `StartWithoutMemory`, then `Receive` for each
call of `write_callback`, `GrowFails` when `realloc` fails, `Complete` or `Break`,
and `Finish` in the caller, which returns or throws and frees, or `PushFails`:
`duk_push_string` throws when Duktape has no memory (`NoMemory`), and
`free(response.data)` behind it is not reached. `lost` counts the blocks that are
lost in this way, and `OnlyFailedPushesLeak` says that there are no others. `wire`
is what libcurl was told to send: a POST without a body reads it from standard
input.

### Hosts

`program` says which of the four programs runs; the actions are the stretches of
its `main` between two calls: `Open`, `SetUp`, `EvalFile`, `FilesEvaluated` (the
scripts of `driver`, `demo` and `main`, in `evalFiles` or a loop of their own),
`Utilities`, `MakeCrew` (the calls of the demonstration before its messages),
`ReadCrew` (sheensio's crew file), then `Process`, `Emit`, `Update` for each message
or line, `RoundsOver` and `Count`, `EndOfInput`, `Close`. `live` counts allocated
blocks by the variable that holds them. What a look-up finds changes from one to
the next: the file is edited while the program runs. The crew's text keeps what
the programs depend on, its machines and the doubler's count; an exception is a
text that is returned with `MACH_OKAY`, as in `Crew`.

## 3. Runs

Passing:

| run | instance | shows |
|---|---|---|
| `match_covered` | 79,392 states: one call each | `Sound`, `Complete`, `ThrowsOnlyWhenNotAllowed`, `CallerUntouched` on flat objects (every order of up to two properties, three with a property variable), arrays as property values (patterns of two elements, messages of three), inequalities with all five operators |
| `walk_gadget` | 9 nodes, 7 messages, 4 names to bind, `MaxSteps = 3` | `TypeOK`, `MessageUsedOnce`, `NothingSaidIsLost`, `WalksEnd`, and `Implements`: `Walk` implements `Machine`, fairness included |
| `walk_shipped` | the four machines, 10 messages, `MaxSteps = 4`, counts up to 6 | `RestIsFinal` and what each machine is for |
| `cache_fresh` | 3 files, each with one of 2 contents, broken, empty or missing; limits -1 to 3, three providers | `TypeOK`, `SizeIsCount`, `WithinLimit`, `EvictsOnlyWhenFull`, `OldestLeaveFirst`, `Current` |
| `crew_rounds` | up to 2 machines of 3 ids, 2 specifications, messages to one, to several, to one twice, to nobody, to all | `TypeOK`, `Routed`, `SaidIsEmitted`, `CrewKept`, `Delivered`, and `Implements`: `Crew` implements `Rounds`, fairness included, so that every round ends |
| `api_calls` | 2 contexts, 2 libraries, texts of four lengths | `TypeOK`, `FunctionsAreLoaded`, `StackCountsFailures`, `SadIsCleanOrSame`, `DestinationIsWhole` |
| `native_calls` | some 1,500 arrays; answers of up to 3 bytes | `OnlyFailedPushesLeak`, `AnswersAreComplete`, `AddressIsOfArray` |
| `host_runs` | 4 programs, up to 3 scripts, 11 messages or 4 lines | `TypeOK`, `ReportsTruth`, `FailuresAreReported`, `CleanExitFreesAll`, `LinesAreCounted`, `Ends` |

Where the code departs from what the repository says, a run shows it, and
`PROJECT.json` quotes the words:

| run | what TLC finds |
|---|---|
| `match_departs` | one call with three wrong answers, each for one reason: an element of an array pattern is skipped (`[["?x"],"a",1]` matches `[["a",1],"a",2]`); `1` matches `true`; a variable bound to 0 is bound again, to 1 |
| `walk_errors` | a branch deals with an error, and `walk` throws |
| `api_eval` | `mach_eval` returns `MACH_OKAY` for a result that did not fit, and leaves the destination as it was |
| `native_rejects` | `arrtoip` of 1.5, a NaN and 3 returns a string, of an uninitialised buffer |

`match_covered` leaves classes of calls out of its inputs on which `Matching`
follows the code and differs from the reference. The first three are contradicted
by `match_test.js`, and `match_departs` has a call of each:

- several results before the last element of an array: the rest of the pattern is
  cut by an index over the results, while the tests say that an array is treated
  as a set (line 74);
- booleans against numbers: values are compared with `==`, and `1` matches `true`,
  while the tests have that very case and want no result (lines 142-145);
- falsy values for a variable that occurs twice: a binding to 0, `false`, `null` or
  `""` is no binding, so `{"a":"?x","b":"?x"}` matches `{"a":0,"b":1}`, while the
  tests say that the bindings must agree (line 60).

Of the other two no document speaks:

- optional elements in arrays: one that matches nothing ends the matching, so
  that `["??x","a",1]` matches `[]`;
- inequalities in arrays: `inequal` binds the plain variable in place, so that
  `["?<n"]` against `[1,2]`, with `?<n` bound to 3, finds one answer where the
  reference has two.

### Bounds, and why they are enough

- Matcher: two property names, values of two numbers and a string (`0` and `true`
  in `match_departs`). The matcher treats values only by type, truth and
  equality, and recursion by structure; two properties are the least for which
  order and repeated variables matter, three message elements the least for
  which taking one out leaves two. Not enumerated: property names of arrays
  (`"0"`, `"length"`) in object patterns, strings in messages that begin with
  `?` (`match` may then not end), deeper nesting.
- `walk_gadget`: every disjunct of `Walk`'s next-state relation fires, and
  every way a call can end is reached. Bindings are over four names, with two
  numbers or an array for `?x`, two numbers for the variables of inequalities and
  one for `error`, which is what its patterns tell apart. Only one node (`look`)
  matches bindings that a rejected branch left against those that the node began
  to branch with.
- `walk_shipped`: `MaxSteps = 4` makes the limit cut a ladder's fall, which
  `Cfg.MaxSteps = 100` of the driver does for high ladders only; `MaxCount` and
  `Lowest` bound counters whose properties speak of differences, and the properties
  are stated where the bounds are not felt (`Unfelt`: from 0 to `MaxCount - 2`,
  since a walk climbs, or falls below the ladder, at most twice). `parseFloat` is
  modelled for the values that the messages ask to double.
- Cache: three files and limits up to three give every relation between number,
  limit and size; `-1` and `0` are the limits that hold nothing.
- Crew: two machines are the least for which one can throw after another has
  moved; three ids let a message name no machine; `Most = 4` destinations are as
  many as two machines can fill in the instance. With more emissions than
  destinations `mach_get_emitted` writes beyond them, which the model does not
  follow. `MaxMachines` bounds `mach_set_machine` only. Machines are set to one
  state, and get to the others by messages.
- `api_calls`: two contexts are the least for which one can be called while the
  other is open, and two libraries the least of which one handle is overwritten.
  `Limit = 2` with texts of length 0, 1, 2 and 3 gives both sides of every
  comparison. `MaxEntries = 1` and `MaxReferences = 2` bound what leaks: entries
  left on a stack and references to libraries, of which the code has no limit.
- `native_calls`: arrays of three and of four over six elements (both sides of
  both ends of the range, a fraction, something else), one of 16 for each, one
  with a NaN. Longer arrays than the 46 octets of the buffer are excluded by
  assumption. `MaxAnswer = 3` lets an answer come in up to three pieces with a Nul
  at each place. `MaxLost = 1` bounds the blocks that are lost, of which the code
  has no limit: any requests can follow the one that lost a block.
- `host_runs`: the rounds are those of `demo.c`; three scripts are enough for a
  failure before, between and after others; `MaxLines = 4` bounds sheensio's
  input.

Also left out: a branch on bindings whose match writes into the object it is
reading; patterns that are not JSON (`parsepatterns`); a message that is `0`,
`false` or `""`, which `step` treats like `null`; the counters of `Stats`,
`Times`, hits and misses.

### Fairness

`Walk` assumes weak fairness of `Run`: a call, once made, goes on. The code runs
in one thread that nothing interrupts, and every source is assumed to return,
because the sandbox has no timeout. `Begin` has no fairness: a host may never
call. Under it TLC checks that every walk ends (`WalksEnd`) and that `Walk`
implements the liveness of `Machine`. `Crew` assumes the same of its `Run`, and
that a single walk ends, which is `WalksEnd`; reading lines has no fairness. It gives
the fairness of `Rounds`, which asks that a message is done with:
`WF_vars(Move \/ GiveUp)`.
`Hosts` assumes it of its steps while the program does not wait for input: one
thread that nothing interrupts, and calls that return. `Natives` assumes none: a
request has no timeout, and a server may never answer. The others need none.

## 4. Proofs

`WalkProofs` (TLAPS), from the assumptions of `Walk` (nodes are functions to
records of the given type; `MaxSteps` is positive; `Eval`, `Match` and `MatchBs`
return what their types say; `NoMessage` is not a message; `NoBs` is no
bindings; undefined is not a sequence):

- `TypeCorrect`: `Spec => []TypeOK`. `TypeOK` alone is not inductive: inside
  a step the node must exist and `k` must be within the node's branches for
  `Take` and `TryGuard` to stay within the types, and a step must have begun
  before the limit for `steps` to stay within it. The invariant of `InvHolds`
  adds these.
- `MessageOnce`: `Spec => []MessageUsedOnce`. A step that listens has a
  message, and a message that is there has not been used.
- `NothingLost`: with at most one action per node, `Spec =>
  []NothingSaidIsLost`. Within a step what the actions said is what `step` will
  return, or that is undefined because the last action failed; the assumption is
  needed, because `Accumulate` keeps what the last action said only.
- `Refinement`: `Spec => Abstract!Init /\ [][Abstract!Next]_(Abstract!vars)`, by
  one step per action: most stutter, or are `Break` when `walk` will throw,
  `Begin` is `Receive`, `Take` is `Move`,
  `Done` is `Settle` or `Fail`.
- `RestsAreFinal`: `Spec => []RestIsFinal`, for machines of which every node that
  does not listen has a branch without pattern and guard (`Decided`) and no action
  of the others replies with `null` (`Replying`). Both are needed: without the
  first a walk may stop at a node where a source that is run again lets it go on,
  without the second it may stop by an exception. The invariant says, at each
  place of a step, that a branch is still ahead if the node does not listen, and
  that a walk that stopped did so where all interpreters are known.
- `WalksRunOut`: every step of a walk leaves less to do, in the lexicographic
  order of three naturals: steps to the limit, phases of the step, actions,
  branches and guards ahead. The order is well founded. With the fairness of `Run`
  this is why `WalksEnd` holds; the last conclusion is temporal and stays with TLC.

`SpecsProofs`, from the assumptions of `Walk`, `Values` and `Specs`, for any
bound on steps and on counters, any messages and any starts:
`TurnstileHonest`, `LatchOnce`, `LadderAnnounces`, `DoubleIsExact` and
`ShippedRestIsFinal`. All rest on `Inside` and what it says of a step
(`InsideNext`): only a transition changes where the machine is and what it has
said, the bindings that the host holds are not written into, and the sources of a
step run on what the step began with. From it each machine has
one lemma that says which transitions its steps can return (`TurnstileMove`, ...),
and an invariant of its own:

- turnstile and latch: what has been emitted in this call, by the node the host
  holds and the node reached;
- ladder (`RungInv`, `LadderInv`): every node of the machine has a rung, which is
  a number, and the emissions count the rungs climbed, descended and fallen since
  the call began. The property holds while the counter's bounds are not felt, so
  the invariant also keeps how far the rung can be from where it was;
- double (`CountInv`, `DoubleInv`): a machine that listens has a count and binds no
  `?x`, or the next message would be matched against the last one's value; and an
  answer takes exactly three steps. The theorem assumes `MaxSteps >= 3`: a
  shorter limit would cut the answer in the middle, and the driver's is 100.

`ShippedRestIsFinal` discharges both assumptions of `RestsAreFinal` from the
nodes themselves.

`SpecCacheProofs`, from the assumptions of `SpecCache` (contents, the broken
string, the empty one, the missing file and NULL differ; limits are integers):
`CacheTypeCorrect`, `CacheCounts`, `CacheStaysWithinLimit`,
`LookupsEvictOneAtMost`, `OldestLeave` and `SpecificationsAreCurrent`, for all
files, limits and providers. The invariant
is the conjunction of the three state properties, none of which is inductive
alone: evictions are computed from `size`, so the limit holds only because the
counter is right; the counter is never negative only because no more entries
are evicted than there are; and it stays right because `add` finds the one
entry a file has. For `OldestLeaveFirst` the lemma `StepSlides` says what any
step does to the order: the `d` oldest entries go, the others move up by `d`, and
what comes behind them is of files that had no entry. `Current` follows from one
step and the types: the provider returns what the file holds, or NULL, and NULL
only when the file is missing, when the cache holds what the file does, or, with
sheensio's provider, when it holds anything. Of no answer, NULL or `""`, `GetSpec`
makes the cached string if there is one.

`CrewProofs`, from the assumptions of `Crew` (starting crews have distinct ids;
look-ups and walks return what their types say; the values that stand for exceptions
and missing machines are no sequences): `MessagesReachTheirMachines` is `Spec =>
[]Routed`, `MachinesMoveAsTold` is `Spec => Delivered`, `CrewSurvivesMessages` is
`Spec => CrewKept`, `CrewTypes` is `Spec => []TypeOK`, and `HostSaysWhatWasEmitted`
is `Spec => []SaidIsEmitted`. The invariant says what `steppeds` holds at each place
of the loop: after `i - 1` targets the entries of exactly those that are machines;
when `CrewProcess` has returned, of exactly those addressed, or an exception; once
`mach_get_emitted` has succeeded, no exception. Then `CrewUpdate` finds every
machine it looks for. That ids in a crew are distinct is part of it, because `Set`
and `Rem` must keep a machine in one place. `Delivered` needs a second invariant,
`Following`: a machine that has no entry yet is in the call as it is in the crew
(`walk` may have written into the bindings of those that have), and the entry of a
machine that is named once is where `walk` took it from there. Both parts rest on
the first invariant: an id that is named once has no entry when its turn comes. What
is printed needs a third, `Speech`: once the emissions are copied, the destinations
hold what `CrewProcess` collected, in order, and nothing behind it, because
`mach_get_emitted` clears the rest of what an earlier message left there.
`GetEmitted` joins emissions and `Spoken` reads destinations by recursion. The
library's induction theorems take an operator as a parameter, which these provers
cannot instantiate, so that such a function exists (`StepsExist`) and stays where
its steps stay (`StepsStay`) is proved by the least counterexample, which a set of
naturals has if it is not empty. `RoundsRunOut` says that every step of a round
leaves fewer targets or a later phase.

`RoundsProofs`, from the same assumptions: `CrewRefinement` is `Spec => Abstract!Init
/\ [][Abstract!Next]_(Abstract!vars)`, for every crew, message, specification and
limit. It rests on the invariants of `CrewProofs` and on `ChainInv`: while the call
runs, each machine in it is the crew's but for the bindings that its last walk left,
that walk is the `k`-th of `Outcomes` if `k` of the targets so far name the machine,
and the machine's entry, if it has one, holds what that walk returned. Without the
bindings the second walk of a machine named twice could not be told; without the
count the last walk could not be known for the last. `Had` counts how often the
first targets name an id; after all of them that is how often the message names it
(`HadAll`), so that the entries are the answers (`ChainsEnd`). That `Outcomes` is
what its recursion says comes from `StepsExist` and `StepsStay`. The steps of the
host are then taken one by one: `Set` and `Rem` change the crew by ids at one id
(`SetRefines`, `RemRefines`); reading a message is `Ask`; what follows stutters until
the host prints (`Tell`, from `Whole`, `ChainInv` and `Speech`) or exits (`GiveUp`,
which needs that nothing was printed: `Quiet`); the update is `Move`.

`MachinesApiProofs`, from the assumptions on texts, contexts and libraries:
`ApiTypeCorrect`, `CallsFindTheirCode`, `FailuresFillTheStack`, `SadLeavesNoRest` and
`DestinationsAreWhole`, for any number of contexts and libraries, any size of the
destination and any lengths of texts. The invariant adds to the type that a handle
that is kept has a reference (or `mach_close` would give back one that was not
taken), that a context that is not open has neither functions nor a stack, and
that one that was freed is not open. The lemmas say what opening and closing do to
one context; the rest of a step concerns the active one only.

`NativesProofs`, from the assumptions on arrays and answers: `RequestsGiveBack`
(`Spec => []OnlyFailedPushesLeak`), `AnswersComplete` and `AddressesOfArrays`, for
arrays of any length up to 46, answers of any length and any number of blocks lost.
The invariant says what is held at each place of a request: the handle while it
transfers, and of blocks those lost before and its own, if it has one. While it
transfers, the block holds what the server has sent, so that `Complete` makes the
two agree. An array is remembered until the next request only (`Calling`), so that
what a request returns is not judged as that array's address.

`HostsProofs`, for any lists of scripts and any number of rounds and lines:
`HostTypeCorrect`, `CountsAreTrue`, `ScriptFailuresShow`, `CleanExits` and
`NoLineIsSkipped`, from four invariants, each inductive with the one before it:
`Places` (which program can be where), `Memory` (which blocks are allocated
there, each once), `Scripts` (`some_rc` is that none before `n` threw) and
`Counting` (the crew counts all messages and has announced them, or has no
machines and will not be counted). `HostsRunOut` says that every step of a program
leaves less to do, but for those that sheensio takes at its input: `ToDo` adds up the
scripts and messages to go and the places behind them, and is a natural number
because a demonstration sends no message after its last round (`InRounds`).

Only model-checked: liveness and the fairness part of both refinements, which are
out of the prover's reach, so that of `WalksEnd`, of `Ends` and of the fairness of
`Rounds` the variants are proved and the conclusion is checked; and what the matcher computes (`Sound`,
`Complete`, `ThrowsOnlyWhenNotAllowed`, `CallerUntouched`), which is recursive over
patterns and messages. That `Matching` keeps `PatternsAssumption` is evaluated by
TLC for the patterns and messages of `walk_shipped`.

## 5. Not modelled

- `js/core.js`: functions that keep no state and that nothing in the library
  calls; what is worth saying of them is a unit test each. `js/prof.js`: timers
  that only a report reads.
- `specs/simple.yaml`, `specs/simple2.yaml`: nothing beyond what the four other
  machines do.
- `register_test.c`, `misc/match.lua`, the tests and the build.
- What the C code leaves undefined and a host can avoid: more emissions than
  destinations, more elements than the buffer of `arrtoip`, an updated crew that
  is longer than the file it was read from, a file of no bytes at all (`readFile`
  writes its 0 in front of the buffer). The models stop short of these and
  name the bound (`Most`, `MAX_IP_STR_LEN`; crews have no sizes; a file has at
  least one byte).
- A restart: no program writes anything that it reads when it starts again
  (`crew.json` is never written), so a second run is a run of its own.
- The calls of `mach_dump_stack`, which prints, and counters that only reports
  read (`Stats`, `Times`, hits and misses).

## 6. Plan

Done, in this order: `Matching` and its reference; `Machine` and `Walk`; the
shipped machines; the proofs of `Walk`; `SpecCache` and its proofs; `Crew` and its
first proofs; `Results` and `MachinesApi`, `Natives`, `Hosts`, each with its proofs;
the remaining invariants of `Crew` and `Walk`, their variants, and the shipped
machines proved; `Rounds`, the abstract crew, with the proof that `Crew` implements it.

What could follow: lemmas about those of `Matching`'s helpers that are not
recursive (`inequal`, the conversions of `Values`), in a module of their own without
the recursion; programs of `Hosts` over any crew, as an implementation of `Rounds`.
