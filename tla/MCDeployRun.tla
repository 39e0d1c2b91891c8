---------------------------- MODULE MCDeployRun -----------------------------
(***************************************************************************)
(* Two k3s nodes and a printer, and a host that is only built by default.  *)
(***************************************************************************)
EXTENDS DeployRun

CONSTANTS k1, k2, p, b, unknown

MCHosts == <<k1, k2, p, b>>
MCSelections == {<<>>, <<k2, k1, k2>>, <<unknown, k1>>}
=============================================================================
