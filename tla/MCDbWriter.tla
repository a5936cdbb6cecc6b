----------------------------- MODULE MCDbWriter -----------------------------
(***************************************************************************)
(* Instances of DbWriter for TLC: three writes and a fetch, any of which   *)
(* the configuration may let be cancelled.                                 *)
(***************************************************************************)
EXTENDS DbWriter, TLC

Symmetry == Permutations(Writes) \cup Permutations(Callers \ Writes)

=============================================================================
