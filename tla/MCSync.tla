------------------------------- MODULE MCSync -------------------------------
(***************************************************************************)
(* One honest peer and one that claims heights, stalls, leaves and returns. *)
(***************************************************************************)
EXTENDS Sync

CONSTANTS p1, p2

Lengths == [p \in Peer |-> IF p = p1 THEN 3 ELSE 2]
=============================================================================
