---------------------------- MODULE MCCephBackup -----------------------------
(***************************************************************************)
(* The images of one PVC, which is deleted and re-created.                 *)
(***************************************************************************)
EXTENDS CephBackup, TLC

MCClaimOf == [i \in Images |-> "pvc"]

\* The images differ in nothing: one PVC, none of them excluded.
Symmetry == Permutations(Images)
=============================================================================
