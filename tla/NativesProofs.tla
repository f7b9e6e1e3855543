--------------------------- MODULE NativesProofs ----------------------------
(***************************************************************************)
(* Theorems about Natives, for all arrays, bodies and answers.             *)
(***************************************************************************)
EXTENDS Natives, TLAPS, SequenceTheorems

\* Where the script is decides what a request holds besides the blocks that were
\* lost: nothing before it starts, a handle and one block with all that was sent
\* while it transfers, and that block, if there is one, when it was performed.
Holds ==
  /\ pc \in {"script", "starting"} => ~handle /\ data = NoBlock /\ blocks = lost
  /\ pc = "starting" => ~complete /\ answer = <<>>
  /\ pc = "transferring" => handle /\ data = answer /\ blocks = lost + 1 /\ ~complete
  /\ pc = "performed" =>
       /\ ~handle /\ blocks = lost + Held
       /\ complete = (code = "ok")
       /\ code = "ok" => data = answer
Places == pc \in {"script", "starting", "transferring", "performed", "crashed"}
\* An address is there only between calls, and that of the last array.
Calling == arr # NotArray => pc = "script"
Inv == Places /\ answer \in Seq(Byte) /\ complete \in BOOLEAN /\ lost \in Nat
       /\ Holds /\ Calling /\ AnswersAreComplete /\ AddressIsOfArray

\* The cast of an accepted number without a fraction is that number.
LEMMA CastKeeps ==
  ASSUME NEW h \in 0 .. 510, h % 2 = 0
  PROVE  (h \div 2) % 256 = h \div 2
OBVIOUS

\* What arrtoip returns for arrays of the two lengths, without NaNs and fractions.
Proper(a) == a # NotArray /\ Len(a) \in {4, 16} /\ \A j \in DOMAIN a : Whole(a[j])
Expected(a) == IF \A j \in DOMAIN a : IsOctet(a[j])
               THEN {Address([j \in DOMAIN a |-> a[j].halves \div 2]), NoMemory}
               ELSE {Undefined}

LEMMA ArrtoipAddress ==
  ASSUME NEW a, Proper(a), NEW r \in native_arrtoip(a)
  PROVE  r \in Expected(a)
<1>1. \A j \in DOMAIN a : a[j].kind # "nan" /\ (Accepted(a[j]) <=> IsOctet(a[j]))
  BY DEF Proper, Whole, Accepted, IsOctet
<1>2. CASE \E j \in DOMAIN a : ~IsOctet(a[j])
  BY <1>1, <1>2 DEF native_arrtoip, Expected
<1>3. CASE \A j \in DOMAIN a : IsOctet(a[j])
  <2> DEFINE nans == {j \in DOMAIN a : a[j].kind = "nan"}
             Cast(f) == [j \in DOMAIN a |->
                           IF j \in nans THEN f[j] ELSE (a[j].halves \div 2) % 256]
  <2>1. a # NotArray /\ \A j \in DOMAIN a : Accepted(a[j])
    BY <1>1, <1>3 DEF Proper
  <2>2. native_arrtoip(a) = {Address(Cast(f)) : f \in [nans -> Octet]} \cup {NoMemory}
    BY <2>1, Zenon DEF native_arrtoip, Proper
  <2>3. ASSUME NEW f PROVE Cast(f) = [j \in DOMAIN a |-> a[j].halves \div 2]
    <3>1. ASSUME NEW j \in DOMAIN a
          PROVE  j \notin nans /\ (a[j].halves \div 2) % 256 = a[j].halves \div 2
      <4>1. a[j].halves \in 0 .. 510 /\ a[j].halves % 2 = 0
        BY <1>3 DEF IsOctet, Proper, Whole
      <4> QED BY <4>1, <1>1, CastKeeps
    <3> QED BY <3>1
  <2> QED BY <1>3, <2>2, <2>3 DEF Expected
<1> QED BY <1>2, <1>3

\* Its results tell what kind they are.
LEMMA ArrtoipForms ==
  ASSUME NEW a, NEW r \in native_arrtoip(a)
  PROVE  r.kind \in {"undefined", "address", "uninitialised", "noMemory"}
<1> DEFINE nans == {j \in DOMAIN a : a[j].kind = "nan"}
           Cast(f) == [j \in DOMAIN a |->
                         IF j \in nans THEN f[j] ELSE (a[j].halves \div 2) % 256]
<1>1. \/ r \in {Undefined, Uninitialised, NoMemory}
      \/ \E f : r = Address(Cast(f))
  BY Zenon DEF native_arrtoip
<1> QED BY <1>1 DEF Undefined, Uninitialised, NoMemory, Address

LEMMA InitInv == Init => Inv
<1>1. <<>> \in Seq(Byte)
  BY EmptySeq
<1>2. Init => Holds
  BY DEF Init, Holds
<1>3. Init => AnswersAreComplete /\ AddressIsOfArray
  BY DEF Init, AnswersAreComplete, AddressIsOfArray, Undefined
<1>4. Init => Calling /\ Places /\ lost \in Nat /\ answer = <<>>
  BY DEF Init, Calling, Places
<1>5. Init => complete \in BOOLEAN
  BY DEF Init
<1> QED BY <1>1, <1>2, <1>3, <1>4, <1>5 DEF Inv

(***************************************************************************)
(* Every step keeps the invariant.                                         *)
(***************************************************************************)
LEMMA NextInv == Inv /\ [Next]_vars => Inv'
<1> SUFFICES ASSUME Inv, [Next]_vars PROVE Inv'
  OBVIOUS
<1> USE DEF Inv, Places, Calling
<1>1. ASSUME NEW a \in Arrays, Arrtoip(a) PROVE Inv'
  <2>1. pc = "script" /\ pc' = "script" /\ arr' = a /\ result' \in native_arrtoip(a)
    BY <1>1 DEF Arrtoip
  <2>2. AddressIsOfArray'
    <3>1. Proper(a) => result' \in Expected(a)
      BY <2>1, ArrtoipAddress
    <3> QED BY <2>1, <3>1 DEF AddressIsOfArray, Proper, Expected
  <2>3. Holds' /\ Calling' /\ answer' = <<>> /\ complete' = FALSE /\ lost' = lost
    BY <1>1, <2>1 DEF Arrtoip, Forget, Holds, Held
  <2>4. AnswersAreComplete'
    BY <2>1, ArrtoipForms DEF AnswersAreComplete
  <2> QED BY <2>1, <2>2, <2>3, <2>4, EmptySeq
<1>2. ASSUME NEW verb \in Verbs, NEW d \in Data \cup {NoData}, Request(verb, d) PROVE Inv'
  BY <1>2, EmptySeq DEF Request, Forget, Holds, Held, AnswersAreComplete, AddressIsOfArray, Undefined
<1>3. CASE BadUrl
  <2>1. /\ pc' = "script" /\ arr' = NotArray /\ lost' = lost
        /\ answer' = <<>> /\ complete' = FALSE
    BY <1>3 DEF BadUrl, Forget
  <2>2. Holds'
    BY <1>3 DEF BadUrl, Forget, Holds, Held
  <2>3. AnswersAreComplete'
    <3>1. result' = Thrown \/ result'.kind = "noMemory"
      BY <1>3 DEF BadUrl, NoMemory
    <3> QED BY <2>1, <3>1 DEF AnswersAreComplete
  <2>4. AddressIsOfArray'
    BY <2>1 DEF AddressIsOfArray
  <2> QED BY <2>1, <2>2, <2>3, <2>4, EmptySeq
<1>4. CASE InitFails
  BY <1>4 DEF InitFails, Holds, Held, AnswersAreComplete, AddressIsOfArray
<1>5. CASE Start
  BY <1>5 DEF Start, Holds, Held, AnswersAreComplete, AddressIsOfArray
<1>6. CASE StartWithoutMemory
  BY <1>6 DEF StartWithoutMemory, Holds, Held, AnswersAreComplete, AddressIsOfArray
<1>7. ASSUME NEW chunk \in Chunks, Receive(chunk) \/ GrowFails(chunk) PROVE Inv'
  <2>1. answer' = answer \o chunk /\ pc = "transferring"
    BY <1>7 DEF Receive, GrowFails, Performed
  <2>2. answer' \in Seq(Byte)
    BY <2>1, NativesAssumption, ConcatProperties
  <2>3. data = answer /\ data # NoBlock /\ blocks = lost + 1 /\ handle /\ ~complete
    BY <2>1, NativesAssumption DEF Holds
  <2>4. ASSUME Receive(chunk) PROVE Holds' /\ AnswersAreComplete' /\ AddressIsOfArray'
    BY <2>3, <2>4 DEF Receive, Grown, Holds, Held, AnswersAreComplete, AddressIsOfArray
  <2>5. ASSUME GrowFails(chunk) PROVE Holds' /\ AnswersAreComplete' /\ AddressIsOfArray'
    BY <2>3, <2>5 DEF GrowFails, Performed, Holds, Held, AnswersAreComplete, AddressIsOfArray
  <2>6. pc' \in {"transferring", "performed"} /\ UNCHANGED <<arr, complete, lost>>
    BY <1>7 DEF Receive, GrowFails, Performed
  <2>7. Holds' /\ AnswersAreComplete' /\ AddressIsOfArray'
    BY <1>7, <2>4, <2>5
  <2> QED BY <2>1, <2>2, <2>6, <2>7
<1>8. CASE Complete
  BY <1>8, NativesAssumption
     DEF Complete, Performed, Holds, Held, AnswersAreComplete, AddressIsOfArray
<1>9. CASE Break
  BY <1>9, NativesAssumption
     DEF Break, Performed, Holds, Held, AnswersAreComplete, AddressIsOfArray
<1>10. CASE Finish
  <2>1. Holds' /\ Calling' /\ lost' = lost
    BY <1>10 DEF Finish, Holds, Held, Freed
  <2>2. AnswersAreComplete'
    BY <1>10 DEF Finish, Holds, AnswersAreComplete, ResultOf
  <2>3. AddressIsOfArray'
    BY <1>10 DEF Finish, AddressIsOfArray
  <2> QED BY <1>10, <2>1, <2>2, <2>3 DEF Finish
<1>11. CASE PushFails
  <2>1. Holds' /\ Calling' /\ lost' \in Nat
    BY <1>11 DEF PushFails, Holds, Held
  <2>2. AnswersAreComplete' /\ AddressIsOfArray'
    BY <1>11 DEF PushFails, AnswersAreComplete, AddressIsOfArray, NoMemory
  <2> QED BY <1>11, <2>1, <2>2 DEF PushFails
<1>12. CASE UNCHANGED vars
  BY <1>12 DEF vars, curlVars, Holds, Held, AnswersAreComplete, AddressIsOfArray
<1>13. CASE Crashed
  BY <1>12, <1>13 DEF Crashed
<1> QED BY <1>1, <1>2, <1>3, <1>4, <1>5, <1>6, <1>7, <1>8, <1>9, <1>10, <1>11, <1>12, <1>13
        DEF Next

LEMMA InvHolds == Spec => []Inv
BY InitInv, NextInv, PTL DEF Spec

(***************************************************************************)
(* The results.                                                            *)
(***************************************************************************)
\* Between calls no handle is left, and of the blocks of memory exactly those of
\* requests whose string could not be pushed; none was freed twice, wherever a
\* request failed.
THEOREM RequestsGiveBack == Spec => []OnlyFailedPushesLeak
<1>1. Inv => OnlyFailedPushesLeak
  BY DEF Inv, Holds, OnlyFailedPushesLeak
<1> QED BY <1>1, InvHolds, PTL

\* A request that returns returns the whole answer up to its first Nul.
THEOREM AnswersComplete == Spec => []AnswersAreComplete
<1>1. Inv => AnswersAreComplete
  BY DEF Inv
<1> QED BY <1>1, InvHolds, PTL

\* arrtoip returns the address of an array of 4 or 16 octets, and rejects what
\* else there is of these lengths, NaNs and fractions aside.
THEOREM AddressesOfArrays == Spec => []AddressIsOfArray
<1>1. Inv => AddressIsOfArray
  BY DEF Inv
<1> QED BY <1>1, InvHolds, PTL
=============================================================================
