----------------------------- MODULE MCPipeline -----------------------------
(***************************************************************************)
(* A fleet of two k3s nodes and one other host, and one build-only host.   *)
(***************************************************************************)
EXTENDS Pipeline

CONSTANTS k1, k2, h3

MCHosts == <<k1, k2, h3>>
TwoHosts == <<k1, h3>>
=============================================================================
