----------------------------- MODULE MCRegistry -----------------------------
(***************************************************************************)
(* Three nodes, one of them a bootstrap peer.                              *)
(***************************************************************************)
EXTENDS Registry

CONSTANTS n1, n2, n3
=============================================================================
