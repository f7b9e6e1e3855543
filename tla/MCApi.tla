------------------------------- MODULE MCApi --------------------------------
(***************************************************************************)
(* MachinesApi with texts that are empty, fit, fit exactly and do not fit. *)
(***************************************************************************)
EXTENDS MachinesApi, TLC

Sizes  == {"empty", "short", "full", "long"}
strlen(t) == CASE t = "empty" -> 0 [] t = "short" -> 1 [] t = "full" -> Limit [] OTHER -> Limit + 1

CONSTANTS ctx1, ctx2, libc, libcurl
Alike == Permutations(Context) \cup Permutations(Library)
=============================================================================
