-------------------------------- MODULE Pool --------------------------------
(***************************************************************************)
(* The accounting of the mining pool: ShareTracker (shares.rs), the payout *)
(* queue and database (payout.rs) and the tasks that share them (main.rs). *)
(* A task gives up control at every await and at every unlock, so an       *)
(* operation with several of them is several actions.                      *)
(*                                                                         *)
(* The node is represented by its height, by the pool's blocks on its      *)
(* chain and by the pool's unspent coins with their values.  Sessions are  *)
(* authorized; a share that is rejected only changes statistics.           *)
(***************************************************************************)
EXTENDS Integers, Sequences, FiniteSets, FiniteSetsExt, SequencesExt

CONSTANTS
  Miner,       \* payout addresses, other than the pool's own
  Conn,        \* stratum connections that may submit a block
  MinerOf,     \* the address a connection has authorized with
  Reward,      \* coinbase_value of a template
  Fee,         \* the part of it that pool_fee_fraction keeps back
  WindowSize,  \* PPLNS_WINDOW
  Threshold,   \* payout_threshold_ram
  TxFee,       \* fee of a payout transaction, one for every size of it
  Earlier,     \* coins of the pool from before it started
  Starts,      \* where the chain may be when it starts, the balances it has saved
               \* before, who is connected and how many of the faults are used up
  Before(_, _), \* the order of coins in the node's list, which is that of its keys
  MaxJobs,     \* bound on the templates built
  MaxHeight,   \* bound on the height of the node's chain
  MaxFaults    \* bound on restarts, lost answers, failed builds and late
               \* templates together

\* A coin of the pool is the coinbase output of a block or the change of one of
\* its payouts; job 0 stands for the blocks before it started.
Coin == [job : 0..MaxJobs, of : Miner \cup {"coinbase"}, value : Nat]

ASSUME ConstantsTyped ==
  /\ MinerOf \in [Conn -> Miner]
  /\ {Reward, Fee, TxFee, Threshold, MaxJobs, MaxHeight, MaxFaults} \subseteq Nat
  /\ WindowSize \in Nat \ {0} /\ Fee <= Reward /\ Threshold > 0
  /\ Starts \subseteq [height : 0..MaxHeight, conns : SUBSET Conn, owed : [Miner -> Nat],
                        faults : 0..MaxFaults]
  /\ Earlier \subseteq Coin /\ IsFiniteSet(Earlier)
  /\ IsFiniteSet(Miner)

VARIABLES
  recent,     \* recent_shares, as the miner of every share
  balances,   \* ShareTracker.balances, 0 if absent
  found,      \* hashes in found_blocks; a block is named by its job
  saved,      \* the bal: keys of the payout database
  queue,      \* PendingPayouts
  paying,     \* run_payout_loop: candidates left to build for, payouts built
  building,   \* run_template_loop: build_template between its awaits
  store,      \* TemplateStore
  sent,       \* templates broadcast, which some connection may yet receive
  conn,       \* where mining.submit of a connection stands
  height,     \* height of the node's tip
  mined,      \* jobs whose block the node has accepted
  coins,      \* unspent outputs of the pool's address
  jobs,       \* templates built so far
  credited,   \* sum of all credits a miner was given
  faults      \* faults so far

tracker == <<recent, balances, found, credited>>
node == <<height, mined, coins>>
templates == <<building, store, sent, jobs>>
vars == <<recent, balances, found, saved, queue, paying, building, store, sent,
          conn, height, mined, coins, jobs, credited, faults>>

Value(S) == LET value == [x \in S |-> x.value] IN MapThenSumSet(LAMBDA x : value[x], S)

Payout == [miner : Miner, amount : Nat, ins : SUBSET Coin]
Template == [job : 1..MaxJobs, height : 1..MaxHeight, payouts : SUBSET Payout]

Idle == [step |-> "idle"]
Closed == [step |-> "closed"]
NotPaying == [active |-> FALSE, todo |-> {}, built |-> {}]
Sum(f) == MapThenSumSet(LAMBDA m : f[m], Miner)

-----------------------------------------------------------------------------
(* Shares and credits *)

\* Mutant: the window is not trimmed.
AddShare_NoTrim(m) == Append(recent, m)

\* add_share: the window keeps the latest WindowSize shares.
AddShare(m) ==
  LET all == Append(recent, m)
  IN  SubSeq(all, Len(all) - (IF Len(all) > WindowSize THEN WindowSize ELSE Len(all)) + 1,
             Len(all))

Count(window, m) == Cardinality({i \in DOMAIN window : window[i] = m})

\* Mutant: the size of a full window is the divisor.
Credit_OfFullWindow(window, m) ==
  ((Reward - Fee) * Count(window, m)) \div WindowSize

\* distribute_pplns: proportional to the shares in the window, rounded down.
\* The share of the finder has just been added, so the window is not empty.
Credit(window, m) == ((Reward - Fee) * Count(window, m)) \div Len(window)

\* Mutant: no look at found_blocks.
Undistributed_Always(t) == TRUE

\* The block hash is not in found_blocks yet.
Undistributed(t) == t.job \notin found

\* A share below the network's difficulty.
AcceptShare(c) ==
  /\ conn[c] = Idle /\ store # {}
  /\ recent' = AddShare(MinerOf[c])
  /\ UNCHANGED <<balances, found, credited, saved, queue, paying, templates, conn,
                 node, faults>>

-----------------------------------------------------------------------------
(* A connection that finds a block *)

\* mining.submit: the block of template t is sent to the node.
FindBlock(c, t) ==
  /\ conn[c] = Idle
  /\ conn' = [conn EXCEPT ![c] = [step |-> "sent", tmpl |-> t]]
  /\ UNCHANGED <<tracker, saved, queue, paying, templates, node, faults>>

Fault == faults < MaxFaults /\ faults' = faults + 1

Answer(c, s) == conn' = [conn EXCEPT ![c].step = s]

\* An error that is not "stale": the connection counts a rejected share.
Refused(c) == conn' = [conn EXCEPT ![c] = Idle]

\* The outputs of a block for the pool: the reward, and what a payout leaves.
Outputs(t) ==
  LET change == {[job |-> t.job, of |-> p.miner, value |-> Value(p.ins) - p.amount - TxFee] :
                    p \in t.payouts}
  IN  {[job |-> t.job, of |-> "coinbase", value |-> Reward]}
        \cup {x \in change : x.value > 0}

\* POST /mining/submit of the node.  A known block is Ok; "fork detected" and
\* "referenced utxo not found" are the errors an honest template can meet.
\* Two payouts of a block may spend the same coin: the node looks a coin up as it
\* was before the block.
NodeSubmit(c) ==
  LET t == conn[c].tmpl
      spent == UNION {p.ins : p \in t.payouts}
      Extends == t.height = height + 1
  IN  /\ conn[c].step = "sent"
      /\ \/ /\ t.job \in mined
            /\ Answer(c, "ok")
            /\ UNCHANGED node
         \/ /\ t.job \notin mined /\ Extends /\ spent \subseteq coins
            /\ Answer(c, "ok")
            /\ height' = t.height
            /\ mined' = mined \cup {t.job}
            /\ coins' = (coins \ spent) \cup Outputs(t)
         \/ /\ t.job \notin mined /\ ~ Extends
            /\ Refused(c)
            /\ UNCHANGED node
         \/ /\ t.job \notin mined /\ Extends /\ ~ spent \subseteq coins
            /\ Answer(c, "stale")
            /\ UNCHANGED node
      /\ UNCHANGED <<tracker, saved, queue, paying, templates, faults>>

\* The node's answer is lost: submit_block is an error that is not "stale".
LoseAnswer(c) ==
  /\ conn[c].step = "ok"
  /\ Fault
  /\ Refused(c)
  /\ UNCHANGED <<tracker, saved, queue, paying, templates, node>>

\* The block was accepted: the tracker counts the share and distributes.
CreditBlock(c) ==
  LET t == conn[c].tmpl
      window == AddShare(MinerOf[c])
      Plus(f) == [m \in Miner |-> f[m] + Credit(window, m)]
  IN  /\ conn[c].step = "ok"
      /\ recent' = window
      /\ \/ /\ Undistributed(t)
            /\ balances' = Plus(balances)
            /\ credited' = Plus(credited)
            /\ found' = found \cup {t.job}
         \/ ~ Undistributed(t) /\ UNCHANGED <<balances, credited, found>>
      /\ Answer(c, "credited")
      /\ UNCHANGED <<saved, queue, paying, templates, node, faults>>

\* Templates of this height are purged and the payout queue is drained.
DrainQueue(c) ==
  LET t == conn[c].tmpl
  IN  /\ conn[c].step = "credited"
      /\ store' = {s \in store : s.height # t.height}
      /\ queue' = {}
      /\ conn' = [conn EXCEPT ![c] =
           IF queue = {} THEN Idle ELSE [step |-> "paid", tmpl |-> t, paid |-> queue]]
      /\ UNCHANGED <<tracker, saved, paying, building, sent, jobs, node, faults>>

\* The balances of the drained payouts are removed, whatever they are now.
ZeroBalances(c) ==
  LET gone == {p.miner : p \in conn[c].paid}
  IN  /\ conn[c].step = "paid"
      /\ balances' = [m \in Miner |-> IF m \in gone THEN 0 ELSE balances[m]]
      /\ conn' = [conn EXCEPT ![c] = Idle]
      /\ UNCHANGED <<recent, found, credited, saved, queue, paying, templates, node,
                     faults>>

\* A stale template clears the payout queue.
SubmitFailed(c) ==
  /\ conn[c].step = "stale"
  /\ queue' = {}
  /\ conn' = [conn EXCEPT ![c] = Idle]
  /\ UNCHANGED <<tracker, saved, paying, templates, node, faults>>

-----------------------------------------------------------------------------
(* Templates *)

\* build_template: the answer of /status and the payouts queued when it arrives;
\* the call then waits for /mempool.  If the tip changes before the answer arrives
\* the template is one that NodeSubmit refuses.
TemplateStatus ==
  /\ building = {} /\ jobs < MaxJobs /\ height < MaxHeight
  /\ jobs' = jobs + 1
  /\ building' = {[job |-> jobs', height |-> height + 1, payouts |-> queue]}
  /\ UNCHANGED <<tracker, saved, queue, paying, store, sent, conn, node, faults>>

\* The template is stored and broadcast.
TemplateReady ==
  /\ building # {}
  /\ building' = {}
  /\ store' = store \cup building
  /\ sent' = sent \cup building
  /\ UNCHANGED <<tracker, saved, queue, paying, jobs, conn, node, faults>>

\* A connection receives a template so late that it has been purged, and stores it
\* again; storing one that is there changes nothing.
JobReceived ==
  /\ Fault
  /\ \E t \in sent \ store : store' = store \cup {t}
  /\ UNCHANGED <<tracker, saved, queue, paying, building, sent, jobs, conn, node>>

-----------------------------------------------------------------------------
(* Payouts *)

\* The miners that run_payout_loop finds eligible.
Candidates ==
  {[miner |-> m, amount |-> balances[m]] : m \in {n \in Miner : balances[n] >= Threshold}}

\* An interval has passed; nothing is done for no candidates.
PayoutSnapshot ==
  /\ paying = NotPaying
  /\ paying' = IF Candidates = {} THEN NotPaying
               ELSE [active |-> TRUE, todo |-> Candidates, built |-> {}]
  /\ UNCHANGED <<tracker, saved, queue, templates, conn, node, faults>>

\* The fronts of the node's list that cover a sum, and the shortest of them.
Covering(sum) ==
  {S \in SUBSET coins : Value(S) >= sum /\ \A x \in S, y \in coins \ S : Before(x, y)}
Selected(sum) == {S \in Covering(sum) : \A T \in Covering(sum) : S \subseteq T}

\* Mutant: an error ends the round.
PayoutBuild_EndsRound ==
  /\ \E k \in paying.todo :
       LET paid == {[miner |-> k.miner, amount |-> k.amount, ins |-> S] :
                      S \in Selected(k.amount + TxFee)}
       IN  paying' = [paying EXCEPT !.todo = IF paid = {} THEN {} ELSE @ \ {k},
                                    !.built = @ \cup paid]
  /\ UNCHANGED <<tracker, saved, queue, templates, conn, node, faults>>

\* build_payout_tx for the next candidate.  It takes coins from the front of the
\* node's list until they cover the amount and the fee; when all of them do not,
\* it is an error and the candidate is skipped.
PayoutBuild ==
  /\ \E k \in paying.todo :
       LET paid == {[miner |-> k.miner, amount |-> k.amount, ins |-> S] :
                      S \in Selected(k.amount + TxFee)}
       IN  paying' = [paying EXCEPT !.todo = @ \ {k}, !.built = @ \cup paid]
  /\ UNCHANGED <<tracker, saved, queue, templates, conn, node, faults>>

\* The node does not answer: the candidate is skipped.
PayoutBuildFailed ==
  /\ Fault
  /\ \E k \in paying.todo : paying' = [paying EXCEPT !.todo = @ \ {k}]
  /\ UNCHANGED <<tracker, saved, queue, templates, conn, node>>

\* The new queue replaces the old one.
PayoutPublish ==
  /\ paying.active /\ paying.todo = {}
  /\ queue' = paying.built
  /\ paying' = NotPaying
  /\ UNCHANGED <<tracker, saved, templates, conn, node, faults>>

\* run_balance_sync.  What it saves is read only by a restart.
BalanceSync ==
  /\ faults < MaxFaults
  /\ saved' = balances
  /\ UNCHANGED <<tracker, queue, paying, templates, conn, node, faults>>

\* The pool stops at any point, and main loads the saved balances.
Restart ==
  /\ Fault
  /\ recent' = <<>> /\ found' = {}
  /\ balances' = saved
  /\ queue' = {} /\ paying' = NotPaying
  /\ building' = {} /\ store' = {} /\ sent' = {}
  /\ conn' = [c \in Conn |-> IF conn[c] = Closed THEN Closed ELSE Idle]
  /\ UNCHANGED <<saved, jobs, credited, node>>

\* A block of somebody else reaches the node, or one by getblocktemplate and
\* submitblock, for which distribute_pplns has nothing to distribute.
OtherBlock ==
  /\ height < MaxHeight
  /\ height' = height + 1
  /\ UNCHANGED <<tracker, saved, queue, paying, templates, conn, mined, coins, faults>>

-----------------------------------------------------------------------------
Init ==
  /\ recent = <<>> /\ found = {}
  /\ credited = [m \in Miner |-> 0]
  /\ queue = {} /\ paying = NotPaying
  /\ building = {} /\ store = {} /\ sent = {}
  /\ \E s \in Starts :
       /\ height = s.height /\ balances = s.owed /\ saved = s.owed /\ faults = s.faults
       /\ conn = [c \in Conn |-> IF c \in s.conns THEN Idle ELSE Closed]
  /\ mined = {} /\ coins = Earlier
  /\ jobs = 0

PayoutStep == PayoutSnapshot \/ PayoutBuild \/ PayoutPublish

Next ==
  \/ \E c \in Conn :
       \/ AcceptShare(c)
       \/ \E t \in store : FindBlock(c, t)
       \/ NodeSubmit(c) \/ LoseAnswer(c) \/ CreditBlock(c)
       \/ DrainQueue(c) \/ ZeroBalances(c) \/ SubmitFailed(c)
  \/ TemplateStatus \/ TemplateReady \/ JobReceived
  \/ PayoutStep \/ PayoutBuildFailed \/ BalanceSync \/ Restart \/ OtherBlock

Spec == Init /\ [][Next]_vars

\* The payout loop keeps running while the pool does.
FairSpec == Spec /\ WF_vars(PayoutStep)

-----------------------------------------------------------------------------
(* Properties *)

\* Tracker, queue, templates and connections have their types, and the window is
\* never longer than WindowSize.
TypeOK ==
  /\ recent \in Seq(Miner) /\ Len(recent) <= WindowSize
  /\ {balances, saved, credited} \subseteq [Miner -> Nat]
  /\ found \subseteq 1..jobs /\ mined \subseteq 1..jobs
  /\ queue \subseteq Payout /\ paying.built \subseteq Payout
  /\ (building \cup store \cup sent) \subseteq Template
  /\ \A c \in Conn :
       conn[c].step \in {"idle", "closed", "sent", "ok", "stale", "credited", "paid"}
  /\ height \in 0..MaxHeight /\ coins \subseteq Coin

\* A block is distributed once, however many connections submit it and get Ok for
\* it, and only if the node has it: the credits of all miners together never
\* exceed the rewards, less the fee, of the pool's blocks on the chain.
CreditsBacked == Sum(credited) <= Cardinality(mined) * (Reward - Fee)

\* What a found block distributes differs from its reward less the fee by less
\* than one unit per miner, also while the window is still filling up.
OnlyDustKept ==
  [][found' # found /\ found \subseteq found' =>
       LET given == Sum(credited') - Sum(credited)
       IN  given <= Reward - Fee /\ given > Reward - Fee - Cardinality(Miner)]_vars

\* A miner whose balance reaches the threshold gets a payout into the queue, or
\* loses the balance to a payout before that, or else the pool's coins do not cover
\* the balance and the fee of the payout: neither stale templates nor the payouts of
\* other miners can keep the queue from it, once the faults are over.
EligibleQueued ==
  \A m \in Miner :
    balances[m] >= Threshold ~> \/ \E p \in queue : p.miner = m
                               \/ balances[m] < Threshold
                               \/ Value(coins) < balances[m] + TxFee
=============================================================================
