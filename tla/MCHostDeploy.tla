---------------------------- MODULE MCHostDeploy ----------------------------
(***************************************************************************)
(* Instances of HostDeploy: g0 is what the host runs at first, g1 a good   *)
(* new generation with another kernel, g2 one that cuts ssh off, g3 one    *)
(* that breaks some other connectivity check.                              *)
(***************************************************************************)
EXTENDS HostDeploy

CONSTANTS g0, g1, g2, g3

FewGens == {g0, g1, g2}
AllGens == {g0, g1, g2, g3}
MCKernel == [g \in AllGens |-> IF g = g0 THEN "k0" ELSE "k1"]
=============================================================================
