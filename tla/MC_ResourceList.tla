--------------------------- MODULE MC_ResourceList --------------------------
(***************************************************************************)
(* The resource list for TLC: the target and four members, URIs in       *)
(* strcmp() order; content lengths 0 and 1.                               *)
(***************************************************************************)
EXTENDS ResourceList

MCUris == 0..4
MCTarget == 0
=============================================================================
