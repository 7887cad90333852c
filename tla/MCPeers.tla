------------------------------ MODULE MCPeers ------------------------------
(***************************************************************************)
(* The node dials a peer that connects to it under the same id, and three  *)
(* other connections come in, one from that peer's address and two from    *)
(* other addresses of its subnets.  A peer id, and an address, is the      *)
(* first connection that has it.                                           *)
(***************************************************************************)
EXTENDS Peers, TLC

CONSTANTS o1, i1, i2, i3, i4

Ids == [c \in Conn |-> IF c = o1 THEN i1 ELSE c]
Addresses == [i \in Id |-> IF i = i2 THEN i1 ELSE i]
OneNet == [a \in Ip |-> "net"]
Neighbours == Permutations({i3, i4})
=============================================================================
