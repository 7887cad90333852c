----------------------------- MODULE MCExplorer -----------------------------
(***************************************************************************)
(* Two chains.  Ann mines and pays Bob, in a1 or in b1.  On one chain Bob  *)
(* pays Carl in the same block; on the other, in the next block, he pays   *)
(* Dan and Eve together, and Carl is never named.                          *)
(***************************************************************************)
EXTENDS Explorer, TLC

CONSTANTS g, a1, a2, b1, b2, ann, bob, carl, dan, eve

TwoChains == {<<g, a1, a2>>, <<g, b1, b2>>}
Txids == {"g", "a1", "a2", "b1", "b2", "p", "q", "r"}

TxsInBlock ==
  g :> <<"g">> @@ a1 :> <<"a1", "p", "q">> @@ a2 :> <<"a2">> @@
  b1 :> <<"b1", "p">> @@ b2 :> <<"b2", "r">>

Spends == [t \in Txids |->
  CASE t = "p" -> {<<"g", 1>>}
    [] t = "q" -> {<<"p", 1>>}
    [] t = "r" -> {<<"p", 1>>}
    [] OTHER -> {}]

To(a, n) == [to |-> a, amount |-> n]
Pays == [t \in Txids |->
  CASE t = "p" -> <<To(bob, 5), To(ann, 2)>>
    [] t = "q" -> <<To(carl, 4)>>
    [] t = "r" -> <<To(dan, 2), To(eve, 2)>>
    [] OTHER -> <<To(ann, 8)>>]

Signer == [t \in Txids |-> IF t \in {"q", "r"} THEN bob ELSE ann]
Fees == [t \in Txids |-> 3]
=============================================================================
