------------------------------- MODULE Mempool -------------------------------
(***************************************************************************)
(* The memory pool of a node: MempoolState (node/src/lib.rs) and the       *)
(* handlers that fill and empty it.  A transaction comes in over P2P       *)
(* (on_tx), from a client (POST /tx) or from a node (POST /tx/relay).  Each *)
(* handler takes a first look under one lock, gives that lock up and then  *)
(* decides under the mempool lock, so handlers, blocks and the periodic    *)
(* cleanup interleave between the two.                                     *)
(*                                                                         *)
(* The chain is represented by the set of transactions it confirms; Ledger *)
(* models how it comes to be.                                              *)
(***************************************************************************)
EXTENDS Integers, Sequences, FiniteSets, FiniteSetsExt, SequencesExt

CONSTANTS
  Tx,             \* the transactions that may ever be sent, all well signed
  Coin,           \* the outputs they spend and create
  Funded,         \* the outputs that exist before any of them
  Inputs,         \* the outputs a transaction spends
  Outputs,        \* the outputs it creates
  Value,          \* amount of an output
  MinFee,         \* calculate_min_fee of its encoding
  Size,           \* length of its encoding
  Rate,           \* the fee per byte that enforce_mempool_limit estimates
  Stamp,          \* tx.timestamp
  Worker,         \* handler tasks that can be under way at a time
  Entry,          \* entry points a transaction comes in through
  MaxSize,        \* MAX_MEMPOOL_SIZE
  MaxBytes,       \* MAX_MEMPOOL_BYTES
  EstimatedSize,  \* 10240, the size from which the byte limit is looked at
  Expiry,         \* MEMPOOL_EXPIRY_TIME
  SeenTtl,        \* 3600, the age at which seen_tx forgets
  MaxTime         \* bound on the clock

Never == -1
Time == 0..MaxTime
Free == [entry |-> "none", tx |-> Never]
EntryPoint == {"p2p", "post", "relay"}
Job == [entry : EntryPoint, tx : Tx] \cup {Free}

ASSUME ConstantsTyped ==
  /\ Inputs \in [Tx -> (SUBSET Coin) \ {{}}] /\ Outputs \in [Tx -> SUBSET Coin]
  /\ Value \in [Coin -> Nat] /\ MinFee \in [Tx -> Nat]
  /\ Size \in [Tx -> Nat] /\ Rate \in [Tx -> Nat] /\ Stamp \in [Tx -> Int]
  /\ Entry \in [Tx -> SUBSET EntryPoint]
  /\ {MaxSize, MaxBytes, Expiry, SeenTtl, MaxTime} \subseteq Nat
  /\ EstimatedSize \in Nat \ {0}

VARIABLES
  pending,    \* MempoolState.pending, in the order of the Vec
  seen,       \* MempoolState.seen_tx, time of first sight or Never
  worker,     \* what every handler task is about to commit
  confirmed,  \* transactions on the main chain
  unpruned,   \* confirmed by an inserted block, pending not yet pruned
  relayed,    \* when the node broadcast the transaction it took last, Never if it
              \* came by /tx/relay or was evicted since (a history variable)
  viaRelay,   \* transactions whose last push was that of POST /tx/relay (another)
  now         \* the clock

vars == <<pending, seen, worker, confirmed, unpruned, relayed, viaRelay, now>>

-----------------------------------------------------------------------------
(* The chain, as far as the pool depends on it *)

Utxo(C) ==
  (Funded \cup UNION {Outputs[t] : t \in C}) \ UNION {Inputs[t] : t \in C}

\* C can be the transactions of a chain: nothing is spent twice or from nowhere.
Valid(C) ==
  /\ \A s, t \in C : s # t => Inputs[s] \cap Inputs[t] = {}
  /\ \A t \in C : Inputs[t] \subseteq Funded \cup UNION {Outputs[s] : s \in C}

-----------------------------------------------------------------------------
(* Decisions of the handlers *)

Total(S) == MapThenSumSet(LAMBDA o : Value[o], S)

\* The fee check of both HTTP handlers: an input that is not in the database
\* counts nothing.
FeeOK(t) ==
  Total(Inputs[t] \cap Utxo(confirmed)) >= Total(Outputs[t]) + MinFee[t]

\* Mutant: only the first input of the new transaction is compared.
Conflict_FirstInput(t) ==
  \E i \in DOMAIN pending : (CHOOSE o \in Inputs[t] : TRUE) \in Inputs[pending[i]]

\* A pending transaction spends one of its inputs.
Conflict(t) == \E i \in DOMAIN pending : Inputs[pending[i]] \cap Inputs[t] # {}

\* The encoded size of a list: sizes, and their sum.
Bytes(p) ==
  LET sizes == [i \in DOMAIN p |-> Size[p[i]]]
  IN  MapThenSumSet(LAMBDA i : sizes[i], DOMAIN p)

\* The indices I in the order B, and the list that has the entries of p at those
\* indices in that order.
Arrangement(I, B) ==
  CHOOSE f \in [1..Cardinality(I) -> I] :
    \A i, j \in DOMAIN f : i < j => <<f[i], f[j]>> \in B

Arranged(p, I, B) ==
  LET f == Arrangement(I, B) IN [k \in 1..Cardinality(I) |-> p[f[k]]]

\* Vec::retain: the entries in S stay, in the order they had.
Retained(p, S) ==
  LET I == {i \in DOMAIN p : p[i] \in S}
  IN  Arranged(p, I, {b \in I \X I : b[1] < b[2]})

\* sort_by_cached_key: by estimated rate, equals in the order they had.
ByRate(p) ==
  Arranged(p, DOMAIN p,
    {b \in (DOMAIN p) \X (DOMAIN p) :
       \/ Rate[p[b[1]]] < Rate[p[b[2]]]
       \/ Rate[p[b[1]]] = Rate[p[b[2]]] /\ b[1] < b[2]})

Drop(p, n) == SubSeq(p, n + 1, Len(p))

\* The fewest entries from the front that bring the pool within both limits.
EvictCount(p) ==
  Min({n \in 0..Len(p) : Len(p) - n <= MaxSize /\ Bytes(Drop(p, n)) <= MaxBytes})

\* Mutants: the pool may hold one more; the best go first.
Limited_OneMore(p, s) ==
  LET n == IF Len(p) > MaxSize + 1 THEN Len(p) - MaxSize - 1 ELSE 0
  IN  [pending |-> Drop(ByRate(p), n), seen |-> s]
Limited_BestFirst(p, s) ==
  LET q == Reverse(ByRate(p))
      n == EvictCount(q)
  IN  [pending |-> Drop(q, n),
       seen |-> [t \in Tx |-> IF t \in ToSet(SubSeq(q, 1, n)) THEN Never ELSE s[t]]]

\* enforce_mempool_limit on pending p and seen_tx s.
Limited(p, s) ==
  LET live == Retained(p, {t \in Tx : now - Stamp[t] <= Expiry})
      q == ByRate(live)
      n == EvictCount(q)
      evicted == ToSet(SubSeq(q, 1, n))
  IN  IF Len(live) <= MaxSize /\ Len(live) <= MaxBytes \div EstimatedSize
      THEN [pending |-> live, seen |-> s]
      ELSE [pending |-> Drop(q, n),
            seen |-> [t \in Tx |-> IF t \in evicted THEN Never ELSE s[t]]]

-----------------------------------------------------------------------------
(* Handlers *)

\* First look of on_tx: not seen yet.  The signatures are verified after it.
P2pCheck(w, t) ==
  /\ "p2p" \in Entry[t] /\ worker[w] = Free
  /\ seen[t] = Never
  /\ worker' = [worker EXCEPT ![w] = [entry |-> "p2p", tx |-> t]]
  /\ UNCHANGED <<pending, seen, confirmed, unpruned, relayed, viaRelay, now>>

\* Second look of on_tx, with the mempool lock again.  The transaction is
\* broadcast even if the limit has just evicted it.
P2pCommit(w) ==
  LET t == worker[w].tx
      known == [seen EXCEPT ![t] = now]
      new == Limited(Append(pending, t), known)
  IN  /\ worker[w].entry = "p2p"
      /\ worker' = [worker EXCEPT ![w] = Free]
      /\ \/ /\ seen[t] = Never /\ ~ Conflict(t)
            /\ pending' = new.pending
            /\ seen' = new.seen
            /\ relayed' = [s \in Tx |-> IF new.seen[s] # known[s] THEN Never
                                        ELSE IF s = t THEN now ELSE relayed[s]]
            /\ viaRelay' = viaRelay \ {t}
         \/ /\ seen[t] # Never \/ Conflict(t)
            /\ UNCHANGED <<pending, seen, relayed, viaRelay>>
      /\ UNCHANGED <<confirmed, unpruned, now>>

\* Fee check of POST /tx and POST /tx/relay, under the bc lock.
HttpCheck(w, t) ==
  /\ worker[w] = Free
  /\ FeeOK(t)
  /\ \E e \in Entry[t] \ {"p2p"} : worker' = [worker EXCEPT ![w] = [entry |-> e, tx |-> t]]
  /\ UNCHANGED <<pending, seen, confirmed, unpruned, relayed, viaRelay, now>>

\* The rest of the two handlers.  Only POST /tx looks for conflicts, and
\* neither enforces the limits.
HttpCommit(w) ==
  LET t == worker[w].tx
      Refused == seen[t] # Never \/ (worker[w].entry = "post" /\ Conflict(t))
  IN  /\ worker[w].entry \in {"post", "relay"}
      /\ worker' = [worker EXCEPT ![w] = Free]
      /\ \/ /\ ~ Refused
            /\ pending' = Append(pending, t)
            /\ seen' = [seen EXCEPT ![t] = now]
            /\ relayed' = [relayed EXCEPT ![t] =
                 IF worker[w].entry = "post" THEN now ELSE Never]
            /\ viaRelay' = IF worker[w].entry = "post" THEN viaRelay \ {t}
                           ELSE viaRelay \cup {t}
         \/ Refused /\ UNCHANGED <<pending, seen, relayed, viaRelay>>
      /\ UNCHANGED <<confirmed, unpruned, now>>

\* A block is inserted, mined here or received; pending is pruned afterwards,
\* under the mempool lock.
InsertBlock(C) ==
  /\ confirmed \subseteq C /\ C # confirmed /\ Valid(C)
  /\ confirmed' = C
  /\ unpruned' = unpruned \cup (C \ confirmed)
  /\ UNCHANGED <<pending, seen, worker, relayed, viaRelay, now>>

\* The pruning that follows.
Prune ==
  /\ unpruned # {}
  /\ pending' = Retained(pending, Tx \ unpruned)
  /\ unpruned' = {}
  /\ UNCHANGED <<seen, worker, confirmed, relayed, viaRelay, now>>

\* A fork block wins: the chain changes, pending is left as it is.
SwitchBranch(C) ==
  /\ ~ confirmed \subseteq C /\ Valid(C)
  /\ confirmed' = C
  /\ UNCHANGED <<pending, seen, worker, unpruned, relayed, viaRelay, now>>

\* Mutants: an entry is forgotten one tick early; ages replace times.
CleanSeen_Early ==
  /\ seen' = [t \in Tx |-> IF now - seen[t] < SeenTtl - 1 THEN seen[t] ELSE Never]
  /\ UNCHANGED <<pending, worker, confirmed, unpruned, relayed, viaRelay, now>>

CleanSeen_Ages ==
  /\ seen' = [t \in Tx |-> now - seen[t]]
  /\ UNCHANGED <<pending, worker, confirmed, unpruned, relayed, viaRelay, now>>

\* The cleanup task of seen_tx.
CleanSeen ==
  /\ seen' = [t \in Tx |-> IF now - seen[t] < SeenTtl THEN seen[t] ELSE Never]
  /\ UNCHANGED <<pending, worker, confirmed, unpruned, relayed, viaRelay, now>>

Tick ==
  /\ now < MaxTime
  /\ now' = now + 1
  /\ UNCHANGED <<pending, seen, worker, confirmed, unpruned, relayed, viaRelay>>

-----------------------------------------------------------------------------
Init ==
  /\ pending = <<>>
  /\ seen = [t \in Tx |-> Never]
  /\ worker = [w \in Worker |-> Free]
  /\ confirmed = {} /\ unpruned = {}
  /\ relayed = [t \in Tx |-> Never]
  /\ viaRelay = {}
  /\ now = 0

Next ==
  \/ \E w \in Worker : \/ \E t \in Tx : P2pCheck(w, t) \/ HttpCheck(w, t)
                       \/ P2pCommit(w) \/ HttpCommit(w)
  \/ \E C \in SUBSET Tx : InsertBlock(C) \/ SwitchBranch(C)
  \/ Prune \/ CleanSeen \/ Tick

Spec == Init /\ [][Next]_vars

-----------------------------------------------------------------------------
(* Properties *)

\* The pool, its handlers and the chain's confirmations have their types.
TypeOK ==
  /\ pending \in Seq(Tx)
  /\ seen \in [Tx -> Time \cup {Never}]
  /\ worker \in [Worker -> Job]
  /\ confirmed \subseteq Tx /\ unpruned \subseteq Tx
  /\ relayed \in [Tx -> Time \cup {Never}]
  /\ viaRelay \subseteq Tx
  /\ now \in Time

\* Of two pending transactions that spend the same output one was pushed by
\* POST /tx/relay, which does not look for conflicts, however the handlers
\* interleave and whatever seen_tx has forgotten: on_tx and POST /tx repeat the
\* check under the lock under which they push.
NoConflicts ==
  \A i, j \in DOMAIN pending :
    i # j /\ Inputs[pending[i]] \cap Inputs[pending[j]] # {} =>
      {pending[i], pending[j]} \cap viaRelay # {}

\* on_tx leaves the pool within its count limit, also when POST /tx had filled it
\* beyond the limit before.
P2pBoundsPool ==
  [][\A w \in Worker :
       worker[w].entry = "p2p" /\ worker'[w] = Free /\ pending' # pending
         => Len(pending') <= MaxSize]_vars

\* What on_tx evicts has no better rate than anything it keeps, and can be
\* submitted again.
EvictsWorst ==
  [][\A w \in Worker :
       worker[w].entry = "p2p" /\ worker'[w] = Free =>
         \A t \in ToSet(Append(pending, worker[w].tx)) \ ToSet(pending') :
           now - Stamp[t] <= Expiry /\ pending' # pending =>
             /\ seen'[t] = Never
             /\ \A s \in ToSet(pending') : Rate[t] <= Rate[s]]_vars

\* A transaction that has not been evicted is broadcast again only once it is old
\* enough for seen_tx to have forgotten it ("to prevent relay loops").
RelayedOnce ==
  [][\A w \in Worker :
       LET t == worker[w].tx IN
       worker[w].entry \in {"p2p", "post"} /\ worker'[w] = Free
         /\ relayed[t] # Never /\ seen[t] = Never /\ ~ Conflict(t)
         => now - relayed[t] >= SeenTtl]_vars
=============================================================================
