------------------------------ MODULE MCMemory ------------------------------
(***************************************************************************)
(* Instances of Memory for TLC: interchangeable coroutines, sessions and   *)
(* lengths of vectors.                                                     *)
(***************************************************************************)
EXTENDS Memory, TLC

Symmetry == Permutations(Procs) \cup Permutations(Sessions) \cup Permutations(Dims \ {Zero})

=============================================================================
