--------------------------- MODULE MCHostSettings ---------------------------
(***************************************************************************)
(* A host with two targets, p in its agent.conf and q declared by the hub  *)
(* before there were check rows.                                           *)
(***************************************************************************)
EXTENDS HostSettings

CONSTANTS p, q, h1, s1, s2
=============================================================================
