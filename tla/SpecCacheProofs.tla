-------------------------- MODULE SpecCacheProofs --------------------------
(***************************************************************************)
(* Proofs about SpecCache.  The counter size is what evictions are         *)
(* computed from, so that the cache stays within its limit only because    *)
(* size is right, and size stays right only because a file has at most one *)
(* entry: the three are proved together.                                   *)
(***************************************************************************)
EXTENDS SpecCache, SequenceTheorems, TLAPS

CacheInv == TypeOK /\ SizeIsCount /\ WithinLimit

\* makeRoom(n) deletes no more entries than there are, and enough of them for n
\* more to be within the limit, unless it deletes all.
LEMMA EvictedFacts ==
  ASSUME CacheInv, NEW n \in Nat, NEW lim \in Int
  PROVE  /\ Evicted(n, lim) \in 0 .. Len(entries)
         /\ \/ Evicted(n, lim) = Len(entries)
            \/ Len(entries) - Evicted(n, lim) + n <= lim
         /\ Evicted(n, lim) > 0 => size + n - lim > 0
         /\ Evicted(n, lim) <= size + n - lim \/ Evicted(n, lim) = 0
<1>1. Len(entries) \in Nat /\ size = Len(entries)
  BY LenProperties DEF CacheInv, TypeOK, SizeIsCount
<1> QED  BY <1>1 DEF Evicted, Excess

\* What is left of the entries, when the d oldest are deleted.
LEMMA KeptFacts ==
  ASSUME CacheInv, NEW d \in 0 .. Len(entries)
  PROVE  /\ Kept(d) \in Seq(Entry)
         /\ Len(Kept(d)) = Len(entries) - d
         /\ DOMAIN Kept(d) = 1 .. Len(entries) - d
         /\ \A i \in 1 .. Len(entries) - d : Kept(d)[i] = entries[d + i]
<1>1. entries \in Seq(Entry) /\ Len(entries) \in Nat
  BY LenProperties DEF CacheInv, TypeOK
<1> QED  BY <1>1 DEF Kept

\* A sequence with one more entry at its end.
LEMMA OneMore ==
  ASSUME NEW q \in Seq(Entry), NEW e \in Entry
  PROVE  /\ Append(q, e) \in Seq(Entry)
         /\ Len(Append(q, e)) = Len(q) + 1
         /\ DOMAIN Append(q, e) = 1 .. Len(q) + 1
         /\ Append(q, e)[Len(q) + 1] = e
         /\ \A i \in 1 .. Len(q) : Append(q, e)[i] = q[i]
<1>1. Append(q, e) \in Seq(Entry)
  BY AppendProperties
<1>2. Len(Append(q, e)) = Len(q) + 1
  BY AppendProperties
<1> QED  BY <1>1, <1>2, AppendProperties, LenProperties

\* An entry's place is where the entry is, and no other entry has its name.
LEMMA PlaceFacts ==
  ASSUME CacheInv, NEW f, Holds(f)
  PROVE  /\ Place(f) \in 1 .. Len(entries)
         /\ entries[Place(f)].name = f
         /\ \A i \in 1 .. Len(entries) : entries[i].name = f => i = Place(f)
<1>1. DOMAIN entries = 1 .. Len(entries)
  BY DEF CacheInv, TypeOK
<1>2. Place(f) \in DOMAIN entries /\ entries[Place(f)].name = f
  BY DEF Holds, Place
<1> QED  BY <1>1, <1>2 DEF CacheInv, SizeIsCount

LEMMA CacheInit == Init => CacheInv
<1> SUFFICES ASSUME Init PROVE CacheInv
  OBVIOUS
<1>1. entries = <<>> /\ entries \in Seq(Entry) /\ Len(entries) = 0
  BY EmptySeq DEF Init
<1>2. TypeOK
  BY <1>1, LimitAssumption DEF Init, TypeOK, None
<1>3. SizeIsCount /\ WithinLimit
  BY <1>1 DEF Init, SizeIsCount, WithinLimit
<1> QED  BY <1>2, <1>3 DEF CacheInv

\* Deleting the oldest entries, and counting down as many.
LEMMA AfterEviction ==
  ASSUME CacheInv, NEW d \in 0 .. Len(entries),
         entries' = Kept(d), size' = size - d
  PROVE  entries' \in Seq(Entry) /\ size' \in Nat /\ SizeIsCount'
         /\ Len(entries') = Len(entries) - d
<1>1. Len(entries) \in Nat /\ size = Len(entries) /\ DOMAIN entries = 1 .. Len(entries)
  BY LenProperties DEF CacheInv, TypeOK, SizeIsCount
<1>2. /\ entries' \in Seq(Entry) /\ Len(entries') = Len(entries) - d
      /\ DOMAIN entries' = 1 .. Len(entries) - d
      /\ \A i \in 1 .. Len(entries) - d : entries'[i] = entries[d + i]
  BY KeptFacts
<1>3. size' \in Nat /\ size' = Len(entries')
  BY <1>1, <1>2
<1>4. ASSUME NEW i \in DOMAIN entries', NEW j \in DOMAIN entries',
             entries'[i].name = entries'[j].name
      PROVE  i = j
  <2>1. d + i \in DOMAIN entries /\ d + j \in DOMAIN entries
    BY <1>1, <1>2
  <2>2. entries[d + i].name = entries[d + j].name
    BY <1>2, <1>4
  <2>3. d + i = d + j
    BY <2>1, <2>2 DEF CacheInv, SizeIsCount
  <2> QED  BY <1>1, <1>2, <2>3
<1> QED  BY <1>2, <1>3, <1>4 DEF SizeIsCount

\* SpecCache.add keeps the entries apart, counts them, and makes room first.
LEMMA AddFacts ==
  ASSUME CacheInv, NEW f \in File, NEW s \in Content, Add(f, s), UNCHANGED limit
  PROVE  entries' \in Seq(Entry) /\ size' \in Nat /\ SizeIsCount' /\ WithinLimit'
<1>1. /\ entries \in Seq(Entry) /\ Len(entries) \in Nat /\ size = Len(entries)
      /\ DOMAIN entries = 1 .. Len(entries) /\ limit \in Int
  BY LenProperties, LimitAssumption DEF CacheInv, TypeOK, SizeIsCount
<1>2. CASE ~enabled \/ limit <= 0
  BY <1>1, <1>2 DEF Add, CacheInv, SizeIsCount, WithinLimit
<1>3. CASE ~(~enabled \/ limit <= 0) /\ Holds(f)
  <2> DEFINE p == Place(f)
  <2>1. p \in 1 .. Len(entries) /\ entries[p].name = f
    BY <1>3, PlaceFacts
  <2>2. entries[p] \in Entry
    BY <1>1, <2>1
  <2>3. [entries[p] EXCEPT !.string = s] \in Entry
        /\ [entries[p] EXCEPT !.string = s].name = f
    BY <2>1, <2>2 DEF Entry
  <2>4. entries' = [entries EXCEPT ![p].string = s] /\ size' = size
    BY <1>3 DEF Add, Grown
  <2>5. entries' = [entries EXCEPT ![p] = [entries[p] EXCEPT !.string = s]]
    BY <2>4
  <2> HIDE DEF p
  <2>6. entries' \in Seq(Entry) /\ Len(entries') = Len(entries)
        /\ DOMAIN entries' = DOMAIN entries
    BY <1>1, <2>1, <2>3, <2>5
  <2>7. \A i \in DOMAIN entries : entries'[i].name = entries[i].name
    BY <1>1, <2>1, <2>3, <2>5
  <2> QED
    BY <1>1, <2>4, <2>6, <2>7 DEF CacheInv, SizeIsCount, WithinLimit
<1>4. CASE ~(~enabled \/ limit <= 0) /\ ~Holds(f)
  <2> DEFINE d == Evicted(1, limit)
             kept == Kept(d)
             new == [name |-> f, string |-> s]
  <2>1. /\ d \in 0 .. Len(entries)
        /\ d = Len(entries) \/ Len(entries) - d + 1 <= limit
    BY <1>1, EvictedFacts
  <2>2. entries' = Append(kept, new) /\ size' = size - d + 1
    BY <1>4 DEF Add, Grown
  <2>3. /\ kept \in Seq(Entry) /\ Len(kept) = Len(entries) - d
        /\ DOMAIN kept = 1 .. Len(entries) - d
        /\ \A i \in 1 .. Len(entries) - d : kept[i] = entries[d + i]
    BY <2>1, KeptFacts
  <2>4. new \in Entry /\ new.name = f
    BY DEF Entry
  <2> HIDE DEF d, kept, new
  <2>5. /\ entries' \in Seq(Entry) /\ Len(entries') = Len(entries) - d + 1
        /\ DOMAIN entries' = 1 .. Len(entries) - d + 1
        /\ entries'[Len(entries) - d + 1] = new
        /\ \A i \in 1 .. Len(entries) - d : entries'[i] = entries[d + i]
    BY <2>2, <2>3, <2>4, OneMore
  <2>6. \A i \in 1 .. Len(entries) : entries[i].name # f
    BY <1>1, <1>4 DEF Holds
  <2>7. size' \in Nat /\ size' = Len(entries')
    BY <1>1, <2>1, <2>2, <2>5
  <2>8. ASSUME NEW i \in DOMAIN entries', NEW j \in DOMAIN entries',
               entries'[i].name = entries'[j].name
        PROVE  i = j
    <3> DEFINE last == Len(entries) - d + 1
    <3>1. \A x \in DOMAIN entries' :
            x = last \/ (x \in 1 .. Len(entries) - d /\ d + x \in 1 .. Len(entries))
      BY <1>1, <2>1, <2>5
    <3>2. CASE i = last \/ j = last
      BY <1>1, <2>1, <2>4, <2>5, <2>6, <2>8, <3>1, <3>2
    <3>3. CASE i # last /\ j # last
      <4>1. d + i \in DOMAIN entries /\ d + j \in DOMAIN entries
        BY <1>1, <3>1, <3>3
      <4>2. entries[d + i].name = entries[d + j].name
        BY <2>5, <2>8, <3>1, <3>3
      <4>3. d + i = d + j
        BY <4>1, <4>2 DEF CacheInv, SizeIsCount
      <4> QED  BY <1>1, <2>1, <2>5, <4>3
    <3> QED  BY <3>2, <3>3
  <2>9. WithinLimit'
    BY <1>1, <1>4, <2>1, <2>5 DEF WithinLimit
  <2> QED  BY <2>5, <2>7, <2>8, <2>9 DEF SizeIsCount
<1> QED  BY <1>2, <1>3, <1>4

LEMMA CacheNext == CacheInv /\ [Next]_vars => CacheInv'
<1> SUFFICES ASSUME CacheInv, [Next]_vars PROVE CacheInv'
  OBVIOUS
<1> USE DEF cacheVars
<1>0. Len(entries) \in Nat /\ size = Len(entries) /\ limit \in Int
  BY LenProperties, LimitAssumption DEF CacheInv, TypeOK, SizeIsCount
<1>1. CASE UNCHANGED vars
  BY <1>1 DEF vars, CacheInv, TypeOK, SizeIsCount, WithinLimit
<1>2. ASSUME NEW on \in BOOLEAN, Enable(on) PROVE CacheInv'
  BY <1>2 DEF Enable, CacheInv, TypeOK, SizeIsCount, WithinLimit
<1>3. CASE Clear
  <2>1. entries' = <<>> /\ entries' \in Seq(Entry) /\ Len(entries') = 0 /\ size' = 0
    BY <1>3, EmptySeq DEF Clear
  <2>2. TypeOK'
    BY <1>3, <2>1 DEF Clear, CacheInv, TypeOK
  <2>3. SizeIsCount' /\ WithinLimit'
    BY <2>1 DEF SizeIsCount, WithinLimit
  <2> QED  BY <2>2, <2>3 DEF CacheInv
<1>4. ASSUME NEW n \in Limit, SetLimit(n) PROVE CacheInv'
  <2> DEFINE d == Evicted(0, n)
  <2>0. n \in Int
    BY LimitAssumption
  <2>1. d \in 0 .. Len(entries) /\ (d = Len(entries) \/ Len(entries) - d <= n)
    BY <1>0, <2>0, EvictedFacts
  <2>2. entries' = Kept(d) /\ size' = size - d /\ limit' = n
    BY <1>4 DEF SetLimit
  <2> HIDE DEF d
  <2>3. /\ entries' \in Seq(Entry) /\ size' \in Nat /\ SizeIsCount'
        /\ Len(entries') = Len(entries) - d
    BY <2>1, <2>2, AfterEviction
  <2>4. TypeOK'
    BY <1>4, <2>3 DEF SetLimit, CacheInv, TypeOK
  <2>5. WithinLimit'
    BY <1>0, <2>0, <2>1, <2>2, <2>3 DEF WithinLimit
  <2> QED  BY <2>3, <2>4, <2>5 DEF CacheInv
<1>5. ASSUME NEW f \in File, GetSpec(f) PROVE CacheInv'
  <2> DEFINE s == Provided(f, Cached(f))
  <2>0. /\ Cached(f) \in Content \cup {None}
        /\ UNCHANGED <<enabled, limit, provider, files, running>>
    <3>1. Holds(f) => entries[Place(f)] \in Entry
      <4> SUFFICES ASSUME Holds(f) PROVE entries[Place(f)] \in Entry
        OBVIOUS
      <4>1. Place(f) \in 1 .. Len(entries)
        BY PlaceFacts
      <4> QED  BY <4>1 DEF CacheInv, TypeOK
    <3>2. Holds(f) => entries[Place(f)].string \in Content
      BY <3>1 DEF Entry
    <3> QED  BY <1>5, <3>2 DEF Cached, GetSpec
  <2>1. CASE Cached(f) = None /\ answer' = "not provided" /\ UNCHANGED <<entries, size>>
    BY <2>0, <2>1 DEF CacheInv, TypeOK, Thrown, SizeIsCount, WithinLimit
  <2>2. CASE Cached(f) # None /\ answer' = Cached(f) /\ UNCHANGED <<entries, size>>
    BY <2>0, <2>2 DEF CacheInv, TypeOK, SizeIsCount, WithinLimit
  <2>3. CASE answer' = "not JSON" /\ UNCHANGED <<entries, size>>
    BY <2>0, <2>3 DEF CacheInv, TypeOK, Thrown, SizeIsCount, WithinLimit
  <2>4. CASE s \in Content /\ answer' = s /\ Add(f, s)
    <3>1. entries' \in Seq(Entry) /\ size' \in Nat /\ SizeIsCount' /\ WithinLimit'
      BY <2>0, <2>4, AddFacts
    <3>2. TypeOK'
      BY <2>0, <2>4, <3>1 DEF CacheInv, TypeOK
    <3> QED  BY <3>1, <3>2 DEF CacheInv
  <2> QED  BY <1>5, <2>1, <2>2, <2>3, <2>4 DEF GetSpec
<1>6. ASSUME NEW f \in File, Exit(f) PROVE CacheInv'
  BY <1>6 DEF Exit, CacheInv, TypeOK, SizeIsCount, WithinLimit
<1>7. ASSUME NEW p \in Providers, Register(p) PROVE CacheInv'
  BY <1>7 DEF Register, CacheInv, TypeOK, SizeIsCount, WithinLimit
<1>8. ASSUME NEW f \in File, NEW s \in Found, Edit(f, s)
      PROVE  CacheInv'
  BY <1>8 DEF Edit, CacheInv, TypeOK, SizeIsCount, WithinLimit
<1> QED  BY <1>1, <1>2, <1>3, <1>4, <1>5, <1>6, <1>7, <1>8 DEF Next

THEOREM CacheInvHolds == Spec => []CacheInv
BY CacheInit, CacheNext, PTL DEF Spec

\* The state of the cache has its type, whatever the host does with it.
THEOREM CacheTypeCorrect == Spec => []TypeOK
<1>1. CacheInv => TypeOK
  BY DEF CacheInv
<1> QED  BY <1>1, CacheInvHolds, PTL

\* The counter of SpecCache is right, and no file has two entries.
THEOREM CacheCounts == Spec => []SizeIsCount
<1>1. CacheInv => SizeIsCount
  BY DEF CacheInv
<1> QED  BY <1>1, CacheInvHolds, PTL

\* The cache never holds more than the limit that its host set last.
THEOREM CacheStaysWithinLimit == Spec => []WithinLimit
<1>1. CacheInv => WithinLimit
  BY DEF CacheInv
<1> QED  BY <1>1, CacheInvHolds, PTL

\* A lookup evicts only from a full cache, and leaves it full: the counter being
\* right is what makes makeRoom delete one entry then, and none otherwise.
THEOREM LookupsEvictOneAtMost == Spec => EvictsOnlyWhenFull
<1> DEFINE Full == Len(entries) = limit /\ Len(entries') = limit
<1>1. ASSUME CacheInv, NEW f \in File, NEW g \in File, GetSpec(f), Holds(g), ~Holds(g)'
      PROVE  Full
  <2>0. /\ entries \in Seq(Entry) /\ Len(entries) \in Nat /\ size = Len(entries)
        /\ DOMAIN entries = 1 .. Len(entries) /\ limit \in Int
    BY <1>1, LenProperties, LimitAssumption DEF CacheInv, TypeOK, SizeIsCount
  <2>1. entries' # entries
    BY <1>1 DEF Holds
  <2> DEFINE s == Provided(f, Cached(f))
             d == Evicted(1, limit)
             new == [name |-> f, string |-> s]
  <2>2. s \in Content /\ Add(f, s) /\ UNCHANGED limit
    BY <1>1, <2>1 DEF GetSpec
  <2> HIDE DEF s
  <2>3. ~Holds(f)
    <3> SUFFICES ASSUME Holds(f) PROVE FALSE
      OBVIOUS
    <3>1. entries' = [entries EXCEPT ![Place(f)].string = s]
      BY <2>1, <2>2 DEF Add
    <3>2. Place(f) \in 1 .. Len(entries) /\ entries[Place(f)] \in Entry
      BY <1>1, <2>0, PlaceFacts
    <3>3. DOMAIN entries' = DOMAIN entries
          /\ \A i \in DOMAIN entries : entries'[i].name = entries[i].name
      BY <2>0, <3>1, <3>2 DEF Entry
    <3> QED  BY <1>1, <3>3 DEF Holds
  <2>4. entries' = Append(Kept(d), new) /\ limit > 0
    <3>1. ~(~enabled \/ limit <= 0)
      BY <2>1, <2>2 DEF Add
    <3>2. entries' = Append(Kept(d), new)
      BY <2>2, <2>3, <3>1 DEF Add
    <3> QED  BY <2>0, <3>1, <3>2
  <2>5. /\ d \in 0 .. Len(entries)
        /\ d = Len(entries) \/ Len(entries) - d + 1 <= limit
        /\ d <= size + 1 - limit \/ d = 0
    BY <1>1, <2>0, EvictedFacts
  <2>6. /\ Kept(d) \in Seq(Entry) /\ Len(Kept(d)) = Len(entries) - d
        /\ \A i \in 1 .. Len(entries) - d : Kept(d)[i] = entries[d + i]
    BY <1>1, <2>5, KeptFacts
  <2> HIDE DEF d, new
  <2>7. /\ Len(entries') = Len(entries) - d + 1
        /\ DOMAIN entries' = 1 .. Len(entries) - d + 1
        /\ \A i \in 1 .. Len(entries) - d : entries'[i] = entries[d + i]
    <3>1. new \in Entry
      BY <2>2 DEF new, Entry
    <3> QED  BY <2>4, <2>6, <3>1, OneMore
  <2>8. d # 0
    <3> SUFFICES ASSUME d = 0 PROVE FALSE
      OBVIOUS
    <3>1. \A i \in 1 .. Len(entries) : i \in DOMAIN entries' /\ entries'[i] = entries[i]
      BY <2>0, <2>7
    <3> QED  BY <1>1, <2>0, <3>1 DEF Holds
  <2>9. Len(entries) <= limit
    BY <1>1, <2>0, <2>4 DEF CacheInv, WithinLimit
  <2> QED  BY <2>0, <2>4, <2>5, <2>7, <2>8, <2>9
<1> HIDE DEF Full
<1>2. CacheInv /\ [Next]_vars =>
        [\A f, g \in File : GetSpec(f) /\ Holds(g) /\ ~Holds(g)' => Full]_vars
  BY <1>1
<1>3. Spec => [][\A f, g \in File : GetSpec(f) /\ Holds(g) /\ ~Holds(g)' => Full]_vars
  BY <1>2, CacheInvHolds, PTL DEF Spec
<1> QED  BY <1>3 DEF EvictsOnlyWhenFull, Full

(***************************************************************************)
(* The order of the entries.  Whatever happens to the cache, its d oldest  *)
(* entries go, the others move up, and what comes behind them is new.      *)
(***************************************************************************)
Slides(d) ==
  /\ Len(entries') \in Nat /\ DOMAIN entries' = 1 .. Len(entries')
  /\ Len(entries) - d <= Len(entries')
  /\ \A i \in 1 .. Len(entries) - d : entries'[i].name = entries[d + i].name
  /\ \A i \in 1 .. Len(entries') : i > Len(entries) - d =>
       \A j \in 1 .. Len(entries) : entries[j].name # entries'[i].name

LEMMA EntriesFacts ==
  ASSUME CacheInv
  PROVE  /\ entries \in Seq(Entry) /\ Len(entries) \in Nat
         /\ DOMAIN entries = 1 .. Len(entries) /\ limit \in Int
BY LenProperties, LimitAssumption DEF CacheInv, TypeOK

LEMMA SameSlides == ASSUME CacheInv, UNCHANGED entries PROVE Slides(0)
BY EntriesFacts DEF Slides

LEMMA AddSlides ==
  ASSUME CacheInv, NEW f \in File, NEW s \in Content, Add(f, s)
  PROVE  \E d \in 0 .. Len(entries) : Slides(d)
<1>1. /\ entries \in Seq(Entry) /\ Len(entries) \in Nat
      /\ DOMAIN entries = 1 .. Len(entries) /\ limit \in Int
  BY EntriesFacts
<1>2. CASE ~enabled \/ limit <= 0
  <2>1. UNCHANGED entries
    BY <1>2 DEF Add
  <2>2. Slides(0)
    BY <2>1, SameSlides
  <2> QED  BY <1>1, <2>2
<1>3. CASE ~(~enabled \/ limit <= 0) /\ Holds(f)
  <2> DEFINE p == Place(f)
  <2>1. p \in 1 .. Len(entries)
    BY <1>3, PlaceFacts
  <2>2. entries' = [entries EXCEPT ![p].string = s] /\ entries[p] \in Entry
    BY <1>1, <1>3, <2>1 DEF Add
  <2> HIDE DEF p
  <2>3. /\ DOMAIN entries' = 1 .. Len(entries)
        /\ \A i \in 1 .. Len(entries) : entries'[i].name = entries[i].name
    BY <1>1, <2>1, <2>2 DEF Entry
  <2>4. Len(entries') = Len(entries)
    BY <1>1, <2>2
  <2>5. Slides(0)
    BY <1>1, <2>3, <2>4 DEF Slides
  <2> QED  BY <1>1, <2>5
<1>4. CASE ~(~enabled \/ limit <= 0) /\ ~Holds(f)
  <2> DEFINE d == Evicted(1, limit)
             new == [name |-> f, string |-> s]
  <2>1. d \in 0 .. Len(entries)
    BY <1>1, EvictedFacts
  <2>2. entries' = Append(Kept(d), new)
    BY <1>4 DEF Add
  <2>3. /\ Kept(d) \in Seq(Entry) /\ Len(Kept(d)) = Len(entries) - d
        /\ \A i \in 1 .. Len(entries) - d : Kept(d)[i] = entries[d + i]
    BY <2>1, KeptFacts
  <2>4. new \in Entry /\ new.name = f
    BY DEF Entry
  <2> HIDE DEF d, new
  <2>5. /\ Len(entries') = Len(entries) - d + 1
        /\ DOMAIN entries' = 1 .. Len(entries) - d + 1
        /\ entries'[Len(entries) - d + 1] = new
        /\ \A i \in 1 .. Len(entries) - d : entries'[i] = entries[d + i]
    BY <2>2, <2>3, <2>4, OneMore
  <2>6. \A j \in 1 .. Len(entries) : entries[j].name # f
    BY <1>1, <1>4 DEF Holds
  <2>7. \A i \in 1 .. Len(entries') : i > Len(entries) - d => entries'[i].name = f
    <3>1. ASSUME NEW i \in 1 .. Len(entries'), i > Len(entries) - d
          PROVE  i = Len(entries) - d + 1
      <4>1. Len(entries') = Len(entries) - d + 1
        BY <2>5
      <4>2. i \in Nat /\ i <= Len(entries') /\ i > Len(entries) - d
        BY <1>1, <2>1, <3>1, <4>1
      <4> QED  BY <1>1, <2>1, <4>1, <4>2
    <3> QED  BY <2>4, <2>5, <3>1
  <2>8. Slides(d)
    BY <1>1, <2>1, <2>5, <2>6, <2>7 DEF Slides
  <2> QED  BY <2>1, <2>8
<1> QED  BY <1>2, <1>3, <1>4

LEMMA StepSlides ==
  ASSUME CacheInv, [Next]_vars
  PROVE  \E d \in 0 .. Len(entries) : Slides(d)
<1>1. /\ entries \in Seq(Entry) /\ Len(entries) \in Nat
      /\ DOMAIN entries = 1 .. Len(entries) /\ limit \in Int
  BY EntriesFacts
<1>2. CASE UNCHANGED entries
  BY <1>1, <1>2, SameSlides
<1>3. CASE Clear
  <2>1. entries' = <<>> /\ Len(entries') = 0 /\ DOMAIN entries' = 1 .. 0
    BY <1>3 DEF Clear
  <2>2. Slides(Len(entries))
    BY <1>1, <2>1 DEF Slides
  <2> QED  BY <1>1, <2>2
<1>4. ASSUME NEW n \in Limit, SetLimit(n) PROVE \E d \in 0 .. Len(entries) : Slides(d)
  <2> DEFINE d == Evicted(0, n)
  <2>1. n \in Int /\ entries' = Kept(d)
    BY <1>4, LimitAssumption DEF SetLimit
  <2>2. d \in 0 .. Len(entries)
    BY <2>1, EvictedFacts
  <2> HIDE DEF d
  <2>3. /\ Len(entries') = Len(entries) - d /\ DOMAIN entries' = 1 .. Len(entries) - d
        /\ \A i \in 1 .. Len(entries) - d : entries'[i] = entries[d + i]
    BY <2>1, <2>2, KeptFacts
  <2>4. Slides(d)
    BY <1>1, <2>2, <2>3 DEF Slides
  <2> QED  BY <2>2, <2>4
<1>5. ASSUME NEW f \in File, GetSpec(f) PROVE \E d \in 0 .. Len(entries) : Slides(d)
  <2>1. CASE UNCHANGED entries
    BY <1>2, <2>1
  <2>2. CASE Provided(f, Cached(f)) \in Content /\ Add(f, Provided(f, Cached(f)))
    BY <2>2, AddSlides
  <2> QED  BY <1>5, <2>1, <2>2 DEF GetSpec
<1> QED
  BY <1>2, <1>3, <1>4, <1>5 DEF Next, vars, cacheVars, Enable, Register, Exit, Edit

\* What leaves the cache is always its oldest entries, and none changes its place
\* among the others: refreshing an entry does not make it younger.
THEOREM OldestLeave == Spec => OldestLeaveFirst
<1> DEFINE Follows(f, g) ==
      Holds(f) /\ Holds(g) /\ Place(f) < Place(g) /\ Holds(f)'
        => Holds(g)' /\ Place(f)' < Place(g)'
<1>1. ASSUME CacheInv, CacheInv', [Next]_vars, NEW f \in File, NEW g \in File
      PROVE  Follows(f, g)
  <2> SUFFICES ASSUME Holds(f), Holds(g), Place(f) < Place(g), Holds(f)'
               PROVE  Holds(g)' /\ Place(f)' < Place(g)'
    OBVIOUS
  <2>1. PICK d \in 0 .. Len(entries) : Slides(d)
    BY <1>1, StepSlides
  <2>2. Len(entries) \in Nat /\ DOMAIN entries = 1 .. Len(entries)
    BY <1>1, EntriesFacts
  <2> DEFINE i == Place(f)
             j == Place(g)
             x == Place(f)'
             y == Place(g)'
  <2>3. /\ i \in 1 .. Len(entries) /\ entries[i].name = f
        /\ \A n \in 1 .. Len(entries) : entries[n].name = f => n = i
        /\ j \in 1 .. Len(entries) /\ entries[j].name = g
    BY <1>1, PlaceFacts
  <2>4. DOMAIN entries' = 1 .. Len(entries') /\ Len(entries') \in Nat
    BY <2>1 DEF Slides
  <2>5. \A m, n \in 1 .. Len(entries') : entries'[m].name = entries'[n].name => m = n
    BY <1>1, <2>4 DEF CacheInv, SizeIsCount
  <2>6. x \in 1 .. Len(entries') /\ entries'[x].name = f
    BY <2>4 DEF Holds, Place
  <2>7. i < j
    OBVIOUS
  <2>8. Holds(g)' => y \in 1 .. Len(entries') /\ entries'[y].name = g
    BY <2>4 DEF Holds, Place
  <2>9. (\E n \in 1 .. Len(entries') : entries'[n].name = g) => Holds(g)'
    BY <2>4 DEF Holds
  <2> HIDE DEF i, j, x, y
  <2>10. x <= Len(entries) - d
    BY <2>1, <2>2, <2>3, <2>6 DEF Slides
  <2>11. entries[d + x].name = f /\ d + x \in 1 .. Len(entries)
    BY <2>1, <2>2, <2>6, <2>10 DEF Slides
  <2>12. d + x = i
    BY <2>3, <2>11
  <2>13. /\ j - d \in 1 .. Len(entries) - d /\ j - d \in 1 .. Len(entries')
         /\ d + (j - d) = j
    BY <2>1, <2>2, <2>3, <2>4, <2>6, <2>7, <2>12 DEF Slides
  <2>14. entries'[j - d].name = g
    BY <2>1, <2>3, <2>13 DEF Slides
  <2>15. Holds(g)' /\ y = j - d
    BY <2>5, <2>8, <2>9, <2>13, <2>14
  <2>16. x < y
    BY <2>1, <2>2, <2>3, <2>4, <2>6, <2>7, <2>12, <2>15
  <2> QED  BY <2>15, <2>16 DEF x, y
<1> HIDE DEF Follows
<1>2. CacheInv /\ CacheInv' /\ [Next]_vars => [\A f, g \in File : Follows(f, g)]_vars
  BY <1>1
<1>3. Spec => [][\A f, g \in File : Follows(f, g)]_vars
  BY <1>2, CacheInvHolds, PTL DEF Spec
<1> QED  BY <1>3 DEF OldestLeaveFirst, Follows

\* A machine never runs with another specification than its file holds, but for
\* the two cases in which a cached one is used without regard to the file: with
\* sheensio's provider, and when the file says nothing.
THEOREM SpecificationsAreCurrent == Spec => Current
<1> DEFINE Silent(f) == files[f] \in {Empty, Missing}
           Right(f) ==
      GetSpec(f) =>
        IF enabled /\ Holds(f) /\ (provider = "whenUncached" \/ Silent(f))
        THEN answer' = entries[Place(f)].string
        ELSE answer' = IF Silent(f) THEN "not provided"
                       ELSE IF files[f] = Broken THEN "not JSON" ELSE files[f]
<1>1. ASSUME CacheInv, NEW f \in File PROVE Right(f)
  <2> SUFFICES ASSUME GetSpec(f) PROVE Right(f)
    OBVIOUS
  <2> DEFINE c == Cached(f)
             s == Provided(f, c)
             held == enabled /\ Holds(f)
  <2>1. Holds(f) => entries[Place(f)].string \in Content
    <3> SUFFICES ASSUME Holds(f) PROVE entries[Place(f)].string \in Content
      OBVIOUS
    <3>1. entries \in Seq(Entry) /\ Place(f) \in 1 .. Len(entries)
      BY <1>1, PlaceFacts, EntriesFacts
    <3>2. \A i \in 1 .. Len(entries) : entries[i] \in Entry
      BY <3>1
    <3>3. entries[Place(f)] \in Entry
      BY <3>1, <3>2
    <3>4. \A e \in Entry : e.string \in Content
      BY DEF Entry
    <3> QED  BY <3>3, <3>4
  <2>2. /\ held => c = entries[Place(f)].string /\ c \in Content
        /\ ~held => c = None
    BY <2>1 DEF Cached
  <2>3. s # Missing
    BY DEF GetSpec
  <2>4. \/ s \in NoAnswer /\ c = None /\ answer' = "not provided"
        \/ c # None /\ s \in NoAnswer \cup {c} /\ answer' = c
        \/ s = Broken /\ answer' = "not JSON"
        \/ s \in Content /\ s # c /\ answer' = s
    BY DEF GetSpec, Unchanged
  <2>5. files[f] \in Found
    BY <1>1 DEF CacheInv, TypeOK
  <2>6. s = files[f] \/ (s = None /\ files[f] \in {c, Missing}) \/ (s = None /\ held /\ provider = "whenUncached")
    BY <2>2 DEF Provided
  <2>7. provider = "whenUncached" /\ held => s = None
    BY <2>2, ContentAssumption DEF Provided, Found
  <2> HIDE DEF c, s, held
  <2>8. CASE held /\ (provider = "whenUncached" \/ Silent(f))
    <3>1. c \in Content
      BY <2>2, <2>8
    <3>2. s \in NoAnswer
      BY <2>3, <2>6, <2>7, <2>8, <3>1, ContentAssumption DEF NoAnswer
    <3>3. s \notin Content /\ s # Broken /\ c # None
      BY <3>1, <3>2, ContentAssumption DEF NoAnswer, Found
    <3>4. answer' = c
      BY <2>4, <3>3
    <3> QED  BY <2>2, <2>8, <3>4 DEF held
  <2>9. CASE Silent(f) /\ ~held
    <3>1. s \in NoAnswer /\ c = None
      BY <2>2, <2>3, <2>6, <2>9, ContentAssumption DEF NoAnswer, Found
    <3>2. s \notin Content /\ s # Broken
      BY <3>1, ContentAssumption DEF NoAnswer, Found
    <3>3. answer' = "not provided"
      BY <2>4, <3>1, <3>2
    <3> QED  BY <2>9, <3>3 DEF held
  <2>10. CASE ~Silent(f) /\ ~(held /\ provider = "whenUncached")
    <3>1. files[f] \in Content \cup {Broken}
      BY <2>5, <2>10 DEF Found
    <3>2. s = files[f] \/ (s = None /\ files[f] = c)
      BY <2>6, <2>10
    <3>3. CASE files[f] = Broken
      <4>1. s = Broken
        BY <2>2, <3>2, <3>3, ContentAssumption DEF Found
      <4>2. answer' = "not JSON"
        BY <2>2, <2>4, <4>1, ContentAssumption DEF NoAnswer, Found
      <4> QED  BY <2>10, <3>3, <4>2 DEF held
    <3>4. CASE files[f] \in Content
      <4>1. files[f] # Broken /\ files[f] # None /\ files[f] # Empty
        BY <3>4, ContentAssumption DEF Found
      <4>2. CASE s = files[f]
        BY <2>4, <2>10, <3>4, <4>1, <4>2 DEF NoAnswer, held
      <4>3. CASE s = None /\ files[f] = c
        <5>1. s \notin Content /\ s # Broken /\ c # None
          BY <4>1, <4>3, ContentAssumption DEF Found
        <5>2. answer' = files[f]
          BY <2>4, <4>3, <5>1
        <5> QED  BY <2>10, <4>1, <5>2 DEF held
      <4> QED  BY <3>2, <4>2, <4>3
    <3> QED  BY <3>1, <3>3, <3>4
  <2> QED  BY <2>8, <2>9, <2>10
<1> HIDE DEF Right
<1>2. CacheInv /\ [Next]_vars => [\A f \in File : Right(f)]_vars
  BY <1>1
<1>3. Spec => [][\A f \in File : Right(f)]_vars
  BY <1>2, CacheInvHolds, PTL DEF Spec
<1> QED  BY <1>3 DEF Current, Right
=============================================================================
