----------------------------- MODULE MCCephGate -----------------------------
(***************************************************************************)
(* The three storage hosts of AllHosts.                                    *)
(***************************************************************************)
EXTENDS CephGate

CONSTANTS joor, zah, frul

StorageHosts == {joor, zah, frul}
=============================================================================
