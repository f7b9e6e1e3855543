------------------------------ MODULE Natives -------------------------------
(***************************************************************************)
(* The native libraries, as a script calls their functions one after       *)
(* another: arrtoip (lib/libc.c), and httpGet, httpPost, httpPut and       *)
(* httpDelete (lib/libcurl.c).                                             *)
(*                                                                         *)
(* A request blocks the script.  While it does, the server's answer comes  *)
(* in chunks, and write_callback collects them in a block of memory that   *)
(* grows; any allocation can fail, and the transfer can break off.  What   *)
(* comes back is a string that Duktape must find room for, on its heap.    *)
(***************************************************************************)
EXTENDS Integers, Sequences

CONSTANTS
  Arrays,    \* what scripts give to arrtoip: sequences of elements, or NotArray
  NotArray,
  Data,      \* the bodies that scripts give to requests
  NoData,    \* no second argument, or one that is no string
  Stdin,     \* what the host's standard input holds
  Byte, Nul, \* the bytes of answers; Nul is the one that ends a C string
  Chunks,    \* what a server sends at once: sequences of bytes
  NoBlock,   \* NULL
  MaxAnswer, \* bound: how many bytes a server sends
  MaxLost    \* bound: how many blocks are lost

\* Numbers are counted in halves, so that 3 is not an integer.
Number  == [kind : {"number"}, halves : Int]
Element == Number \cup [kind : {"nan", "other"}]
Octet   == 0 .. 255

\* The room for octets.  The loop does not look whether an array is longer, and
\* what it does then is undefined: longer arrays are left out.
MAX_IP_STR_LEN == 46

Verbs   == {"GET", "POST", "PUT", "DELETE"}

ASSUME NativesAssumption ==
  /\ \A a \in Arrays \ {NotArray} : a \in Seq(Element) /\ Len(a) <= MAX_IP_STR_LEN
  /\ NotArray \notin Seq(Element)
  /\ Chunks \subseteq Seq(Byte) /\ Nul \in Byte
  /\ NoBlock \notin Seq(Byte) /\ MaxLost \in Nat
  /\ NoData \notin Data /\ Stdin \notin Data \cup {NoData}

\* duk_push_string throws an error of its own, past the code that called it, if
\* Duktape has no memory.
NoMemory == [kind |-> "noMemory"]

(***************************************************************************)
(* arrtoip.                                                                *)
(***************************************************************************)
Undefined     == [kind |-> "undefined"]
Address(bs)   == [kind |-> "address", octets |-> bs]
Uninitialised == [kind |-> "uninitialised"]

\* duk_is_number and the range; both comparisons are false for a NaN.
Accepted_wide(e) == e.kind = "nan" \/ (e.kind = "number" /\ e.halves \in 0 .. 512)
Accepted(e) == e.kind = "nan" \/ (e.kind = "number" /\ e.halves \in 0 .. 510)

\* The loop of native_arrtoip, and arrtoip, whose failure it ignores.  The cast
\* to unsigned char cuts off a fraction, and is undefined for a NaN.
native_arrtoip(arr) ==
  LET nans == {j \in DOMAIN arr : arr[j].kind = "nan"}
      cast(f) == [j \in DOMAIN arr |-> IF j \in nans THEN f[j] ELSE (arr[j].halves \div 2) % 256]
      strings == IF Len(arr) \in {4, 16} THEN {Address(cast(f)) : f \in [nans -> Octet]}
                 ELSE {Uninitialised}
  IN IF arr = NotArray \/ \E j \in DOMAIN arr : ~Accepted(arr[j]) THEN {Undefined}
     ELSE strings \cup {NoMemory}

(***************************************************************************)
(* Requests.                                                               *)
(***************************************************************************)
VARIABLES
  pc,        \* where the script is
  arr,       \* the argument of the last call of arrtoip
  result,    \* what the last call returned
  wire,      \* what libcurl was told to send: a verb and a body
  handle,    \* whether there is an easy handle
  data,      \* response.data
  blocks,    \* how many blocks were allocated and not freed
  code,      \* the code of curl_easy_perform
  answer,    \* what the server has sent
  complete,  \* that is all there is
  lost       \* history: in how many requests the string could not be pushed
             \* while there was a block

curlVars == <<wire, handle, data, blocks, code, answer, complete, lost>>
vars     == <<pc, arr, result, curlVars>>

Returned(text) == [kind |-> "returned", text |-> text]
Thrown         == [kind |-> "thrown"]

Init ==
  /\ pc = "script" /\ arr = NotArray /\ result = Undefined
  /\ wire = [verb |-> "GET", body |-> NoData]
  /\ handle = FALSE /\ data = NoBlock /\ blocks = 0 /\ code = "ok"
  /\ answer = <<>> /\ complete = FALSE /\ lost = 0

\* What was of an earlier request does not matter any more.
Forget == code' = "ok" /\ answer' = <<>> /\ complete' = FALSE

Arrtoip(a) ==
  /\ pc = "script"
  /\ arr' = a /\ result' \in native_arrtoip(a)
  /\ Forget /\ UNCHANGED <<pc, wire, handle, data, blocks, lost>>

\* httpGet and httpDelete take no second argument.  A POST without a body has
\* libcurl read one from standard input.
Takes(verb) == IF verb \in {"POST", "PUT"} THEN 2 ELSE 1
Body(verb, d) == IF Takes(verb) = 1 THEN NoData
                 ELSE IF verb = "POST" /\ d = NoData THEN Stdin ELSE d

\* duk_require_string throws unless the URL is a string.
Request(verb, d) ==
  /\ pc = "script"
  /\ pc' = "starting"
  /\ wire' = [verb |-> verb, body |-> Body(verb, d)]
  /\ arr' = NotArray /\ result' = Undefined
  /\ Forget /\ UNCHANGED <<handle, data, blocks, lost>>
BadUrl ==
  /\ pc = "script"
  /\ arr' = NotArray /\ result' \in {Thrown, NoMemory}
  /\ Forget /\ UNCHANGED <<pc, wire, handle, data, blocks, lost>>

\* perform_http_request, up to curl_easy_perform.
InitFails ==
  /\ pc = "starting"
  /\ pc' = "performed" /\ code' = "failed"
  /\ UNCHANGED <<arr, result, wire, handle, data, blocks, answer, complete, lost>>
Start ==
  /\ pc = "starting"
  /\ pc' = "transferring" /\ handle' = TRUE /\ data' = <<>> /\ blocks' = blocks + 1
  /\ UNCHANGED <<arr, result, wire, code, answer, complete, lost>>
\* The first byte is written without looking whether there is one.
StartWithoutMemory ==
  /\ pc = "starting"
  /\ pc' = "crashed" /\ handle' = TRUE
  /\ UNCHANGED <<arr, result, wire, data, blocks, code, answer, complete, lost>>

\* write_callback
Grown_restarted(d, chunk) == chunk
Grown(d, chunk) == d \o chunk
Receive(chunk) ==
  /\ pc = "transferring"
  /\ Len(answer) + Len(chunk) <= MaxAnswer
  /\ answer' = answer \o chunk
  /\ data' = Grown(data, chunk)
  /\ UNCHANGED <<pc, arr, result, wire, handle, blocks, code, complete, lost>>

\* curl_easy_perform returns, and curl_easy_cleanup follows.
Performed(c) ==
  /\ pc = "transferring"
  /\ pc' = "performed" /\ code' = c /\ handle' = FALSE
  /\ UNCHANGED <<arr, result, wire, data, blocks, lost>>
Complete == Performed("ok") /\ complete' = TRUE /\ UNCHANGED answer
Break    == Performed("failed") /\ UNCHANGED <<answer, complete>>
\* realloc fails, write_callback returns 0, and libcurl gives up.
GrowFails(chunk) ==
  /\ Performed("failed")
  /\ Len(answer) + Len(chunk) <= MaxAnswer
  /\ answer' = answer \o chunk
  /\ UNCHANGED complete

\* duk_push_string reads up to the first Nul.  On an error the collected data
\* are dropped and its description is thrown.
UpToNul(s) ==
  IF \E j \in DOMAIN s : s[j] = Nul
  THEN SubSeq(s, 1, (CHOOSE j \in DOMAIN s : s[j] = Nul /\ \A n \in 1 .. j - 1 : s[n] # Nul) - 1)
  ELSE s
ResultOf_any(c, d) == IF d = NoBlock THEN Thrown ELSE Returned(UpToNul(d))
ResultOf(c, d) == IF c = "ok" THEN Returned(UpToNul(d)) ELSE Thrown
Freed_onSuccess(n) == IF code = "ok" /\ data # NoBlock THEN n - 1 ELSE n
Freed(n) == IF data # NoBlock THEN n - 1 ELSE n
Finish ==
  /\ pc = "performed"
  /\ pc' = "script"
  /\ result' = ResultOf(code, data)
  /\ data' = NoBlock /\ blocks' = Freed(blocks)
  /\ UNCHANGED <<arr, wire, handle, code, answer, complete, lost>>
\* The string, the answer or the description, cannot be pushed: what follows,
\* free(response.data) too, is not reached.
Held == IF data # NoBlock THEN 1 ELSE 0
PushFails ==
  /\ pc = "performed"
  /\ lost + Held <= MaxLost
  /\ pc' = "script"
  /\ result' = NoMemory
  /\ data' = NoBlock /\ lost' = lost + Held
  /\ UNCHANGED <<arr, wire, handle, blocks, code, answer, complete>>

Crashed == pc = "crashed" /\ UNCHANGED vars

Next == \/ \E a \in Arrays : Arrtoip(a)
        \/ \E verb \in Verbs, d \in Data \cup {NoData} : Request(verb, d)
        \/ BadUrl \/ InitFails \/ Start \/ StartWithoutMemory
        \/ \E chunk \in Chunks : Receive(chunk) \/ GrowFails(chunk)
        \/ Complete \/ Break \/ Finish \/ PushFails \/ Crashed
Spec == Init /\ [][Next]_vars

(***************************************************************************)
(* Properties.                                                             *)
(***************************************************************************)
\* Between calls no request has left a handle or a block of memory behind, or
\* freed a block twice, whichever step of it failed, but for one: each request
\* whose string could not be pushed while it held a block lost that block.
OnlyFailedPushesLeak == pc = "script" => (~handle /\ data = NoBlock /\ blocks = lost)

\* A request returns an answer only when it is complete, and then all of it up
\* to its first Nul; one that broke off throws.  (Either can end in Duktape's own
\* error, which returns nothing.)
AnswersAreComplete ==
  (result.kind \in {"returned", "thrown"} /\ pc = "script") =>
    result = IF complete THEN Returned(UpToNul(answer)) ELSE Thrown

\* For an array of 4 or 16 elements without NaNs and fractions, arrtoip returns
\* the address of these very elements if all are numbers from 0 to 255, and
\* rejects it otherwise.  Arrays of other lengths, NaNs and fractions it does not
\* always reject, as its comment in core.js says it does: RejectsInvalidArrays.
Whole(e)   == e.kind # "nan" /\ (e.kind = "number" => e.halves % 2 = 0)
IsOctet(e) == e.kind = "number" /\ e.halves \in 0 .. 510
AddressIsOfArray ==
  (arr # NotArray /\ Len(arr) \in {4, 16} /\ \A j \in DOMAIN arr : Whole(arr[j])) =>
    result \in IF \A j \in DOMAIN arr : IsOctet(arr[j])
               THEN {Address([j \in DOMAIN arr |-> arr[j].halves \div 2]), NoMemory}
               ELSE {Undefined}

\* arrtoip rejects an array of another length than 4 and 16, and one of which
\* an element is not an integer from 0 to 255.
RejectsInvalidArrays ==
  result.kind \in {"address", "uninitialised"} =>
    Len(arr) \in {4, 16} /\ \A j \in DOMAIN arr : Whole(arr[j]) /\ IsOctet(arr[j])
=============================================================================
