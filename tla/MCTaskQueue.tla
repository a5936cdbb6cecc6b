---------------------------- MODULE MCTaskQueue ----------------------------
(***************************************************************************)
(* Instances of TaskQueue for TLC.  The workers w1 and w2 are alike.  (A   *)
(* configuration with liveness properties does not use the symmetry.)      *)
(***************************************************************************)
EXTENDS TaskQueue, TLC

Symmetry == Permutations(Workers)

=============================================================================
