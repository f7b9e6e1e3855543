------------------------------ MODULE Results -------------------------------
(***************************************************************************)
(* What the calls of the C interface (machines.c) make of what ECMAScript  *)
(* leaves on top of Duktape's value stack: the return code, the contents   *)
(* of the host's destination, and how many entries the call leaves on the  *)
(* stack.  A text is whatever a string says; all that counts here is how   *)
(* long it is.                                                             *)
(***************************************************************************)
EXTENDS Integers

CONSTANTS
  Text,       \* texts that ECMAScript can give or throw
  Length(_),  \* strlen
  Blank,      \* the empty string
  Unset,      \* what a destination holds before anything is written into it
  Torn        \* what it holds when a text was cut off

ASSUME TextAssumption ==
  /\ \A t \in Text : Length(t) \in Nat
  /\ Blank \in Text /\ Length(Blank) = 0
  /\ Unset \notin Text /\ Torn \notin Text /\ Unset # Torn

Codes == {"okay", "sad", "tooBig"}

\* A string, a value that is none (duk_get_string gives NULL), or an exception,
\* which is a text too (duk_safe_to_string).
Outcome == [kind : {"string", "thrown"}, text : Text] \cup {[kind |-> "other", text |-> Blank]}

\* A destination: what it says, and whether there is a terminator behind that.
Buffer == [says : Text \cup {Unset, Torn}, ended : BOOLEAN]
Fresh  == [says |-> Unset, ended |-> FALSE]
String(t) == [says |-> t, ended |-> TRUE]

Effect(code, buffer, entries) == [rc |-> code, dst |-> buffer, left |-> entries]

\* What copystr and getResult take the outcome for: NULL is the empty string.
Said(o) == o.text

\* strncpy writes no terminator behind a text as long as the destination.
Copy(t, limit) == [says |-> t, ended |-> Length(t) < limit]

Fits_closely(t, limit) == Length(t) <= limit
Fits(t, limit) == Length(t) < limit
copystr(dst, limit, t) ==
  IF Fits(t, limit) THEN Effect("okay", Copy(t, limit), 0) ELSE Effect("tooBig", dst, 0)

\* An exception stays on the stack; the code of copystr is dropped.
mach_eval(o, dst, limit) ==
  IF o.kind = "thrown" THEN Effect("sad", dst, 1)
  ELSE Effect("okay", copystr(dst, limit, Said(o)).dst, 0)

\* mach_process and mach_match: an exception is a result like any other.
mach_process(o, dst, limit) == copystr(dst, limit, Said(o))

\* getResult compares with limit < n.
getResult_notPopping(o, dst, limit) ==
  IF limit < Length(Said(o)) THEN Effect("tooBig", dst, 1)
  ELSE Effect("okay", Copy(Said(o), limit), 0)
getResult(o, dst, limit) ==
  IF limit < Length(Said(o)) THEN Effect("tooBig", dst, 0)
  ELSE Effect("okay", Copy(Said(o), limit), 0)

\* mach_make_crew: snprintf always terminates, and cuts what does not fit.
mach_make_crew(t, limit) ==
  Effect(IF limit < Length(t) THEN "tooBig" ELSE "okay",
         String(IF Length(t) < limit THEN t ELSE Torn), 0)
=============================================================================
