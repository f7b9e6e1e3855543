----------------------------- MODULE SpecCache -----------------------------
(***************************************************************************)
(* SpecCache and GetSpec (driver.js), the C functions that control the     *)
(* cache (machines.c), and the spec providers of the hosts (util.c,        *)
(* sheensio.c).  The cache is a JavaScript object, whose properties keep   *)
(* the order in which they were added: here, a sequence of entries.        *)
(***************************************************************************)
EXTENDS Integers, Sequences

CONSTANTS
  File,       \* the names of specifications
  Content,    \* the strings a file can hold that are JSON
  Broken,     \* a string that is not
  Empty,      \* the string "": that of a file of one byte, whose last byte readFile
              \*   overwrites
  Missing,    \* no such file
  Limit,      \* the limits a host sets
  Default,    \* DefaultSpecCacheLimit
  Providers   \* the kinds of provider that the host registers

\* No string: what an absent entry has, and NULL.
None == "none"

\* What a look-up can find of a file.
Found == Content \cup {Broken, Empty, Missing}

ASSUME ContentAssumption ==
  /\ Broken \notin Content /\ Empty \notin Content /\ Missing \notin Content
  /\ Broken # Empty /\ Broken # Missing /\ Empty # Missing
  /\ None \notin Found
ASSUME LimitAssumption == Default \in Limit /\ Limit \subseteq Int
ASSUME ProvidersAssumption == Providers \subseteq {"always", "whenUncached", "ifChanged"}

VARIABLES
  enabled,    \* the cache is in use
  entries,    \* its entries, oldest first
  limit,      \* how many it may hold
  size,       \* how many it believes it holds
  provider,   \* the registered provider
  files,      \* what is in the file system
  answer,     \* what the last GetSpec returned, or threw
  running     \* the host has not exited

cacheVars == <<enabled, entries, limit, size>>
vars == <<cacheVars, provider, files, answer, running>>

Thrown  == {"not provided", "not JSON"}
Entry   == [name : File, string : Content]

Init ==
  /\ enabled = FALSE
  /\ entries = <<>>
  /\ limit = Default
  /\ size = 0
  /\ provider \in Providers
  /\ files \in [File -> Found]
  /\ answer = None
  /\ running = TRUE

Holds(f)  == \E i \in DOMAIN entries : entries[i].name = f
Place(f)  == CHOOSE i \in DOMAIN entries : entries[i].name = f

\* makeRoom(n) deletes the oldest entries, as long as there are any, until n
\* more are within the limit lim.
Excess_late(n, lim) == size - lim
Excess(n, lim) == size + n - lim
Evicted_beyond(n, lim) == IF Excess(n, lim) <= 0 THEN 0 ELSE Excess(n, lim)
Evicted_oneMore(n, lim) ==
  IF Excess(n, lim) < 0 THEN 0
  ELSE IF Excess(n, lim) < Len(entries) THEN Excess(n, lim) + 1 ELSE Len(entries)
Evicted(n, lim) ==
  IF Excess(n, lim) <= 0 THEN 0
  ELSE IF Excess(n, lim) < Len(entries) THEN Excess(n, lim) ELSE Len(entries)
Kept_oldest(d) == SubSeq(entries, 1, Len(entries) - d)
Kept(d) == SubSeq(entries, d + 1, Len(entries))

(***************************************************************************)
(* mach_enable_spec_cache, mach_clear_spec_cache, mach_set_spec_cache_limit *)
(***************************************************************************)
Enable(on) ==
  /\ enabled' = on
  /\ UNCHANGED <<entries, limit, size, provider, files, answer, running>>

Clear ==
  /\ entries' = <<>>
  /\ size' = 0
  /\ UNCHANGED <<enabled, limit, provider, files, answer, running>>

SetLimit(n) ==
  /\ limit' = n
  /\ entries' = Kept(Evicted(0, n))
  /\ size' = size - Evicted(0, n)
  /\ UNCHANGED <<enabled, provider, files, answer, running>>

\* mach_set_spec_provider: the cache stays as it is.
Register(p) ==
  /\ provider' = p
  /\ UNCHANGED <<cacheVars, files, answer, running>>

(***************************************************************************)
(* GetSpec.                                                                *)
(***************************************************************************)
Grown_always(held, n) == n + 1
Grown(held, n) == IF held THEN n ELSE n + 1

\* SpecCache.add(f, s).
Add(f, s) ==
  IF ~enabled \/ limit <= 0 THEN UNCHANGED <<entries, size>>
  ELSE IF Holds(f)
       THEN /\ entries' = [entries EXCEPT ![Place(f)].string = s]
            /\ size' = Grown(TRUE, size)
       ELSE LET d == Evicted(1, limit)
            IN /\ entries' = Append(Kept(d), [name |-> f, string |-> s])
               /\ size' = Grown(FALSE, size - d)

\* SpecCache.get(f).string, if there is one.
Cached(f) == IF enabled /\ Holds(f) THEN entries[Place(f)].string ELSE None

\* What the provider returns: a string, or None for NULL.  The string that it is
\* given for an absent entry is empty.
Provided(f, cached) ==
  IF \/ provider = "whenUncached" /\ cached # None
     \/ provider = "ifChanged" /\ files[f] = cached
     \/ provider = "ifChanged" /\ files[f] = Missing
  THEN None ELSE files[f]

\* The providers of the hosts read the file, and exit when they cannot.
Exit(f) ==
  /\ Provided(f, Cached(f)) = Missing
  /\ running' = FALSE
  /\ UNCHANGED <<cacheVars, provider, files, answer>>

\* "if (!js)": neither NULL nor an empty string is an answer.
NoAnswer == {None, Empty}
Unchanged_always(s, cached) == TRUE
Unchanged(s, cached) == s \in NoAnswer \cup {cached}
GetSpec(f) ==
  LET cached == Cached(f)
      s      == Provided(f, cached)
  IN /\ s # Missing
     /\ \/ /\ s \in NoAnswer /\ cached = None
           /\ answer' = "not provided"
           /\ UNCHANGED <<entries, size>>
        \/ /\ cached # None /\ Unchanged(s, cached)
           /\ answer' = cached
           /\ UNCHANGED <<entries, size>>
        \/ /\ s = Broken
           /\ answer' = "not JSON"
           /\ UNCHANGED <<entries, size>>
        \/ /\ s \in Content /\ s # cached
           /\ answer' = s
           /\ Add(f, s)
     /\ UNCHANGED <<enabled, limit, provider, files, running>>

\* Somebody edits the file.
Edit(f, s) ==
  /\ files' = [files EXCEPT ![f] = s]
  /\ UNCHANGED <<cacheVars, provider, answer, running>>

Next ==
  /\ running
  /\ \/ \E on \in BOOLEAN : Enable(on)
     \/ Clear
     \/ \E n \in Limit : SetLimit(n)
     \/ \E p \in Providers : Register(p)
     \/ \E f \in File : GetSpec(f) \/ Exit(f)
     \/ \E f \in File, s \in Found : Edit(f, s)

Spec == Init /\ [][Next]_vars

(***************************************************************************)
(* Properties.                                                             *)
(***************************************************************************)
TypeOK ==
  /\ enabled \in BOOLEAN
  /\ entries \in Seq(Entry)
  /\ limit \in Limit
  /\ size \in Nat
  /\ provider \in Providers
  /\ files \in [File -> Found]
  /\ answer \in Content \cup Thrown \cup {None}
  /\ running \in BOOLEAN

\* The counter that the limit is enforced with counts the entries, and no
\* specification is in the cache twice, whatever was added, refreshed, evicted
\* or cleared, and whatever the cache did while it was disabled.
SizeIsCount ==
  /\ size = Len(entries)
  /\ \A i, j \in DOMAIN entries : entries[i].name = entries[j].name => i = j

\* The cache never holds more than its limit, also right after the limit was
\* lowered, and holds nothing when the limit is not positive.
WithinLimit == Len(entries) = 0 \/ Len(entries) <= limit

\* A lookup pushes a specification out only when the cache is full, and only to
\* take its place: the cache is as full afterwards.
EvictsOnlyWhenFull ==
  [][\A f, g \in File :
       GetSpec(f) /\ Holds(g) /\ ~Holds(g)'
         => Len(entries) = limit /\ Len(entries') = limit]_vars

\* What leaves the cache is what was added first: while a specification stays,
\* so does every one that was added after it, and their order does not change.
OldestLeaveFirst ==
  [][\A f, g \in File :
       Holds(f) /\ Holds(g) /\ Place(f) < Place(g) /\ Holds(f)'
         => Holds(g)' /\ Place(f)' < Place(g)']_vars

\* The cache saves parsing, never reading: a machine is processed with the
\* specification that its file holds now, and not at all when that is not JSON.
\* A cached specification is used without regard to the file in two cases only:
\* the provider of sheensio.c does not read again what is in the cache at that
\* moment; and a file that says nothing (it is empty, or gone and its provider
\* goes on) is no answer, so that what the file said before is still used.
\* Without a cached specification nothing is used in the second case.
Current ==
  [][\A f \in File : GetSpec(f) =>
       LET silent == files[f] \in {Empty, Missing}
       IN IF enabled /\ Holds(f) /\ (provider = "whenUncached" \/ silent)
          THEN answer' = entries[Place(f)].string
          ELSE answer' = IF silent THEN "not provided"
                         ELSE IF files[f] = Broken THEN "not JSON" ELSE files[f]]_vars
=============================================================================
