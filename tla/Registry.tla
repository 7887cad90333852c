------------------------------ MODULE Registry ------------------------------
(***************************************************************************)
(* How nodes find each other: the DNS server (astram-dns/src/main.rs),     *)
(* which keeps a list of registered nodes in memory, and the tasks of a    *)
(* node that register it and connect it to listed nodes (start_services,   *)
(* node/src/main.rs).                                                      *)
(*                                                                         *)
(* A unit of time is the 300 s between two registrations of a node, which  *)
(* is also the interval of the clean-up.  The heights, uptimes and         *)
(* latencies that order the lists are left out: which nodes of a list that *)
(* is too long come first is arbitrary.  The server listens on a public    *)
(* address, and so do the nodes; others are refused and exit.              *)
(***************************************************************************)
EXTENDS Integers, FiniteSets, FiniteSetsExt

CONSTANTS
  Node,
  Steady,       \* nodes that run from the beginning and do not stop
  Fallback,     \* addresses of bootstrap_peers and of saved peers
  MaxAge,       \* max_age, in units
  CheckEvery,   \* units between two health checks
  Listing,      \* nodes of an answer, three times Limit in the code
  Limit,        \* nodes that are dialled
  MaxFaults     \* bound on what goes wrong

ASSUME ConstantsTyped ==
  /\ Fallback \cup Steady \subseteq Node
  /\ {MaxAge, CheckEvery, Listing, Limit} \subseteq Nat \ {0}
  /\ MaxFaults \in Nat

VARIABLES
  dns,       \* whether the server runs
  seen,      \* nodes of the server: age of last_seen of a listed node
  sweep,     \* whether the clean-up is due
  clock,     \* units since the last health check
  probing,   \* nodes that the health check has yet to probe
  failed,    \* to_remove
  up,        \* nodes that run
  due,       \* those that are to register again
  fetch,     \* whether a node is to fetch a list, for the "first" time or "again"
  wire,      \* register requests on their way
  links,     \* connections, as pairs of nodes
  faults     \* how much has gone wrong

server == <<dns, seen, sweep, clock, probing, failed>>
vars == <<dns, seen, sweep, clock, probing, failed, up, due, fetch, wire, links,
          faults>>

listed == DOMAIN seen
Only(S) == [n \in S |-> seen[n]]

Init ==
  /\ dns = "up" /\ seen = [n \in Steady |-> 0] /\ sweep = FALSE /\ clock = 0
  /\ probing = {} /\ failed = {}
  /\ up = Steady /\ due = {} /\ fetch = [n \in Node |-> "done"]
  /\ wire = {}
  /\ links = {}
  /\ faults = 0

Fault == faults < MaxFaults /\ faults' = faults + 1

-----------------------------------------------------------------------------
(* The server *)

\* Mutant: a node that is listed keeps its old entry.
Registered_First(n) ==
  [m \in listed \cup {n} |-> IF m \in listed THEN seen[m] ELSE 0]

\* register_node: last_seen is now.
Registered(n) == [m \in listed \cup {n} |-> IF m = n THEN 0 ELSE seen[m]]

Receive(n) ==
  /\ dns = "up" /\ n \in wire
  /\ wire' = wire \ {n}
  /\ seen' = Registered(n)
  /\ UNCHANGED <<dns, sweep, clock, probing, failed, up, due, fetch, links, faults>>

\* cleanup_stale_nodes.
CleanUp ==
  /\ dns = "up" /\ sweep
  /\ sweep' = FALSE
  /\ seen' = Only({n \in listed : seen[n] < MaxAge})
  /\ UNCHANGED <<dns, clock, probing, failed, up, due, fetch, wire, links, faults>>

CheckDue == clock >= CheckEvery

\* health_check_nodes copies the list under the read lock, ...
CheckStart ==
  /\ dns = "up" /\ CheckDue
  /\ clock' = 0
  /\ probing' = listed
  /\ UNCHANGED <<dns, seen, sweep, failed, up, due, fetch, wire, links, faults>>

\* ... tries to connect to each node for 3 s, all at the same time, ...
Probe(n) ==
  /\ n \in probing
  /\ probing' = probing \ {n}
  /\ \/ n \in up /\ UNCHANGED <<failed, faults>>
     \/ n \in up /\ Fault /\ failed' = failed \cup {n}
     \/ n \notin up /\ failed' = failed \cup {n} /\ UNCHANGED faults
  /\ UNCHANGED <<dns, seen, sweep, clock, up, due, fetch, wire, links>>

\* ... and removes those that failed, also one that has registered since.
CheckEnd ==
  /\ probing = {} /\ failed # {}
  /\ seen' = Only(listed \ failed)
  /\ failed' = {}
  /\ UNCHANGED <<dns, sweep, clock, probing, up, due, fetch, wire, links, faults>>

\* The list is in memory only.
Crash ==
  /\ dns = "up" /\ Fault
  /\ dns' = "down"
  /\ seen' = [n \in {} |-> 0]
  /\ sweep' = FALSE /\ clock' = 0 /\ probing' = {} /\ failed' = {}
  /\ UNCHANGED <<up, due, fetch, wire, links>>

Restart ==
  /\ dns = "down"
  /\ dns' = "up"
  /\ UNCHANGED <<seen, sweep, clock, probing, failed, up, due, fetch, wire, links,
                 faults>>

-----------------------------------------------------------------------------
(* The nodes *)

\* A node starts and registers; if that fails it exits again.
Start(n) ==
  /\ n \notin up /\ dns = "up"
  /\ seen' = Registered(n)
  /\ up' = up \cup {n}
  /\ fetch' = [fetch EXCEPT ![n] = "first"]
  /\ UNCHANGED <<dns, sweep, clock, probing, failed, due, wire, links, faults>>

\* The answer takes longer than 2 s: the node is listed and exits.
StartTimesOut(n) ==
  /\ n \notin up /\ dns = "up" /\ Fault
  /\ seen' = Registered(n)
  /\ UNCHANGED <<dns, sweep, clock, probing, failed, up, due, fetch, wire, links>>

\* It stops or crashes; a request may still be on its way.
Stop(n) ==
  /\ n \in up \ Steady /\ Fault
  /\ up' = up \ {n} /\ due' = due \ {n} /\ fetch' = [fetch EXCEPT ![n] = "done"]
  /\ links' = {e \in links : n \notin e}
  /\ UNCHANGED <<server, wire>>

\* The re-registration tick: the request is sent, unless the tip cannot be read
\* because bc is locked.
Reregister(n) ==
  /\ n \in due
  /\ due' = due \ {n}
  /\ \/ wire' = wire \cup {n} /\ UNCHANGED faults
     \/ Fault /\ UNCHANGED wire
  /\ UNCHANGED <<server, up, fetch, links>>

\* A request is lost.
Lost(n) ==
  /\ n \in wire /\ dns = "up" /\ Fault
  /\ wire' = wire \ {n}
  /\ UNCHANGED <<server, up, due, fetch, links>>

\* The server is down.
Unanswered(n) ==
  /\ n \in wire /\ dns = "down"
  /\ wire' = wire \ {n}
  /\ UNCHANGED <<server, up, due, fetch, links, faults>>

\* The first k of S in an order that is not modelled.
Top(k, S) == IF Cardinality(S) <= k THEN {S} ELSE kSubset(k, S)

\* Mutant: a node does not leave itself out.
Candidates_WithSelf(n, answer) == answer

\* A node leaves itself out by the address it was registered under.
Candidates(n, answer) == answer \ {n}

\* fetch_best_nodes_from_dns: those that answer a probe, or any if none does.
BestNodes(n, answer) ==
  LET reachable == Candidates(n, answer) \cap up
  IN  IF reachable # {} THEN Top(Limit, reachable)
      ELSE Top(Limit, Candidates(n, answer))

\* build_fallback_peer_targets.
FallbackTargets(n) == Top(Limit, Fallback \ {n})

Targets(n, answer) ==
  UNION {IF T = {} THEN FallbackTargets(n) ELSE {T} : T \in BestNodes(n, answer)}

\* connect_peer for each; it refuses this node's own address, and others may refuse
\* this node, by the limits of handle_incoming (see Peers).
Connect(n, T) ==
  \E refusing \in SUBSET ((T \cap up) \ {n}) :
    /\ \/ refusing = {} /\ UNCHANGED faults
       \/ refusing # {} /\ Fault
    /\ links' = links \cup {{n, m} : m \in ((T \cap up) \ {n}) \ refusing}

\* A list is fetched, at first and then at intervals.
Fetch(n) ==
  /\ fetch[n] # "done" /\ dns = "up"
  /\ \E answer \in Top(Listing, listed) : \E T \in Targets(n, answer) : Connect(n, T)
  /\ fetch' = [fetch EXCEPT ![n] = "done"]
  /\ UNCHANGED <<server, up, due, wire>>

\* The server does not answer: only the first time the fallback is tried.
FetchFails(n) ==
  /\ fetch[n] # "done" /\ dns = "down"
  /\ IF fetch[n] = "first" THEN \E T \in FallbackTargets(n) : Connect(n, T)
     ELSE UNCHANGED <<links, faults>>
  /\ fetch' = [fetch EXCEPT ![n] = "done"]
  /\ UNCHANGED <<server, up, due, wire>>

-----------------------------------------------------------------------------
\* A unit of time is over when all that was due in it has happened.
Elapse ==
  /\ due = {} /\ wire = {} /\ ~ sweep /\ probing = {} /\ failed = {}
  /\ ~ (CheckDue /\ dns = "up")
  /\ \A n \in Node : fetch[n] = "done"
  /\ fetch' = [n \in Node |-> IF n \in up THEN "again" ELSE "done"]
  /\ due' = up
  /\ seen' = [n \in listed |-> IF seen[n] < MaxAge THEN seen[n] + 1 ELSE MaxAge]
  /\ sweep' = (dns = "up")
  /\ clock' = IF dns = "up" THEN clock + 1 ELSE clock
  /\ UNCHANGED <<dns, probing, failed, up, wire, links, faults>>

Work(n) == Receive(n) \/ Probe(n) \/ Reregister(n) \/ Unanswered(n)
           \/ Fetch(n) \/ FetchFails(n)

Next ==
  \/ \E n \in Node : \/ Start(n) \/ StartTimesOut(n) \/ Stop(n)
                     \/ Work(n) \/ Lost(n)
  \/ CleanUp \/ CheckStart \/ CheckEnd \/ Crash \/ Restart
  \/ Elapse

Spec == Init /\ [][Next]_vars

\* The intervals elapse and what is due happens; a server that has crashed is
\* started again.
FairSpec ==
  /\ Spec
  /\ WF_vars(CleanUp) /\ WF_vars(CheckStart) /\ WF_vars(CheckEnd)
  /\ WF_vars(Restart) /\ WF_vars(Elapse)
  /\ \A n \in Node : WF_vars(Work(n))

-----------------------------------------------------------------------------
(* Properties *)

\* Type invariant.
TypeOK ==
  /\ dns \in {"up", "down"}
  /\ listed \subseteq Node /\ seen \in [listed -> 0 .. MaxAge]
  /\ sweep \in BOOLEAN /\ clock \in 0 .. CheckEvery
  /\ probing \subseteq Node /\ failed \subseteq Node
  /\ up \subseteq Node /\ due \subseteq up
  /\ fetch \in [Node -> {"first", "again", "done"}]
  /\ wire \subseteq Node
  /\ links \subseteq SUBSET Node
  /\ faults \in 0 .. MaxFaults

\* Once nothing goes wrong any more the list settles to the nodes that run: a
\* node that was dropped by a health check which overlapped its return comes
\* back, one whose last request arrived after its end disappears, and a server
\* that has lost its list gets it back.
ListSettles == <>[](listed = up)

\* Once nothing goes wrong any more no node stays alone while another one is
\* up, although a list may be cut and may hold nodes that are gone.
FindsPeers ==
  <>[](Cardinality(up) > 1 => \A n \in up : \E e \in links : n \in e)
=============================================================================
