------------------------------- MODULE MCPool -------------------------------
(***************************************************************************)
(* Pool with two miners on one connection each, as it starts again.        *)
(***************************************************************************)
EXTENDS Pool, TLC

CONSTANTS ann, bob, c1, c2

Owner == [c \in Conn |-> IF c = c1 THEN ann ELSE bob]

\* The pool has run before: it has a coin.
OneCoin == {[job |-> 0, of |-> "coinbase", value |-> Reward]}

\* One connection with two blocks to find while ann's payout is due, or with one
\* while both are, or two connections that race for one block and may fail once more.
ThreeStarts ==
  LET Due(S) == [m \in Miner |-> IF m \in S THEN Threshold ELSE 0]
  IN  {[height |-> 0, conns |-> {c1}, owed |-> Due({ann}), faults |-> 1],
       [height |-> 1, conns |-> {c1}, owed |-> Due(Miner), faults |-> 1],
       [height |-> 1, conns |-> Conn, owed |-> Due({}), faults |-> 0]}

\* Keys are hashes: this order lists later blocks first.
Rank(x) == 3 * x.job + (CASE x.of = "coinbase" -> 0 [] x.of = ann -> 2 [] x.of = bob -> 1)
RankedBefore(x, y) == Rank(x) > Rank(y)
=============================================================================
