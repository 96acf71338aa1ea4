------------------------------- MODULE MCHook -------------------------------
(***************************************************************************)
(* Instances of JobHook for TLC.                                           *)
(***************************************************************************)
EXTENDS JobHook, TLC

\* The calls and jobs play the same parts; used in safety runs only.
Interchangeable == Permutations(Submits) \cup Permutations(Clicks) \cup Permutations(Jobs)
=============================================================================
