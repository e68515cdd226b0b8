----------------------------- MODULE MCRunCache -----------------------------
(* Finite instances of the run cache: processes and versions of the inputs  *)
(* are interchangeable.                                                     *)
EXTENDS RunCache, TLC

Interchangeable == Permutations(Procs) \cup Permutations(Worlds)
=============================================================================
