------------------------------ MODULE MCSshMux -------------------------------
(***************************************************************************)
(* Two hosts, so that one can open a master while Close is at the other's. *)
(***************************************************************************)
EXTENDS SshMux, TLC

Symmetry == Permutations(Hosts)
=============================================================================
