------------------------------ MODULE MCCache ------------------------------
(***************************************************************************)
(* SpecCache with model values for files and contents, which are           *)
(* interchangeable: no operator of SpecCache tells them apart.             *)
(***************************************************************************)
EXTENDS SpecCache, TLC

Symmetry == Permutations(File) \cup Permutations(Content)

\* Limits that hold nothing, and up to every file.
Limits == -1 .. 3
=============================================================================
