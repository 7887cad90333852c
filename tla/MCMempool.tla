------------------------------ MODULE MCMempool ------------------------------
(***************************************************************************)
(* Mempool with up to three transactions: t1 and t2 spend the same coin,   *)
(* and t3 spends the output of t1.  t1 was made before the clock begins and *)
(* expires at its last tick, when seen_tx forgets what came first.          *)
(***************************************************************************)
EXTENDS Mempool, TLC

CONSTANTS t1, t2, t3

Coins == 1..4
Start == {1, 2, 3}
Spends == [t \in Tx |-> CASE t = t1 -> {2} [] t = t2 -> {1, 2} [] t = t3 -> {4}]
Creates == [t \in Tx |-> IF t = t1 THEN {4} ELSE {}]
Values == [o \in Coins |-> IF o = 4 THEN 4 ELSE 5]
Fees == [t \in Tx |-> 1]
Sizes == [t \in Tx |-> IF t = t2 THEN 3 ELSE 1]
Rates == [t \in Tx |-> CASE t = t1 -> 2 [] t = t2 -> 3 [] t = t3 -> 1]
Stamps == [t \in Tx |-> IF t = t1 THEN -2 ELSE 0]

Entries ==
  [t \in Tx |-> {"p2p"} \cup (IF t = t1 THEN {"post", "relay"} ELSE {"post"})]

Tasks == Permutations(Worker)
=============================================================================
