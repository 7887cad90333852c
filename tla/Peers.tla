-------------------------------- MODULE Peers --------------------------------
(***************************************************************************)
(* The peer table of PeerManager (p2p/manager.rs): connections that are    *)
(* dialled or accepted, admitted, registered, served by a reader and a     *)
(* writer task and removed again.  Every acquisition of a mutex is a step, *)
(* so two connections interleave between any two of them.                  *)
(*                                                                         *)
(* A connection is named apart from its peer id.  An outbound id is the    *)
(* dialled address and may be dialled twice; an inbound one is the remote  *)
(* end's address and port, which it may use again for a new connection     *)
(* before the old one is removed, and which the node may have dialled.  Of *)
(* the messages only what they do to the tables and to the mutexes peers   *)
(* and bc is kept; other threads hold bc without waiting for peers and are *)
(* left out.                                                               *)
(***************************************************************************)
EXTENDS Integers, FiniteSets, FiniteSetsExt

CONSTANTS
  Conn,        \* TCP connections
  Inbound,     \* those that were accepted
  Talking,     \* those whose remote end sends messages
  IdOf,        \* peer id of a connection
  IpOf,        \* address of a peer id
  Subnet24, Subnet16,   \* prefixes of an address
  SelfId,      \* ids under which the node would meet itself
  MaxPerIp,    \* MAX_PEERS_PER_IP
  Max24,       \* MAX_PEERS_PER_SUBNET_24
  Max16,       \* MAX_PEERS_PER_SUBNET_16
  Free         \* a mutex nobody holds

Id == {IdOf[c] : c \in Conn}
Ip == {IpOf[i] : i \in Id}

ASSUME ConstantsTyped ==
  /\ Inbound \cup Talking \subseteq Conn /\ Free \notin Conn
  /\ {MaxPerIp, Max24, Max16} \subseteq Nat \ {0}
  /\ IsFiniteSet(Conn)

VARIABLES
  stage,      \* where connect_peer, handle_incoming or spawn_peer_loop stands
  reading,    \* connections whose reader task handles the messages of a talking remote end
  peers,      \* peers: the connection whose sender an id maps to
  ips,        \* peer_ips, as how often an id is listed under its address
  heights,    \* ids in peer_heights; peer_handshakes is written beside it
  doing,      \* what the reader's handler of a message does next
  peersLock, bcLock,   \* holders of the two mutexes across steps
  unseen      \* history: inbound connections that an admission did not count, because
              \* they were not in peer_ips yet, or not any more

tables == <<peers, ips, heights>>
locks == <<doing, peersLock, bcLock>>
vars == <<stage, reading, peers, ips, heights, doing,
          peersLock, bcLock, unseen>>

Without(i) == [j \in DOMAIN peers \ {i} |-> peers[j]]
Go(c, s) == stage' = [stage EXCEPT ![c] = s]
Do(c, d) == doing' = [doing EXCEPT ![c] = d]
PeersFree == peersLock = Free

Init ==
  /\ stage = [c \in Conn |-> "new"]
  /\ reading = {}
  /\ peers = [i \in {} |-> Free]
  /\ ips = [i \in Id |-> 0]
  /\ heights = {}
  /\ doing = [c \in Conn |-> "nothing"]
  /\ peersLock = Free /\ bcLock = Free
  /\ unseen = {}

-----------------------------------------------------------------------------
(* Admission *)

\* Inbound connections that passed their checks and are not in peer_ips yet.
UnderWay == {c \in Inbound : stage[c] \in {"admitted", "guarded", "listed"}}

\* Addresses that count towards the limits of each other.
Near(a, b) == a = b \/ Subnet24[a] = Subnet24[b] \/ Subnet16[a] = Subnet16[b]

PeersOfIp(a) == {i \in Id : IpOf[i] = a /\ ips[i] > 0}
CountOfIp(a) == MapThenSumSet(LAMBDA i : ips[i], PeersOfIp(a))
IpsListed == {IpOf[i] : i \in {j \in Id : ips[j] > 0}}

\* Mutant: one connection more from an address.
IpAllowed_OffByOne(a) == CountOfIp(a) <= MaxPerIp

IpAllowed(a) == CountOfIp(a) < MaxPerIp

\* Distinct addresses count, not connections.
SubnetAllowed(a) ==
  /\ Cardinality({b \in IpsListed : Subnet24[b] = Subnet24[a]}) < Max24
  /\ Cardinality({b \in IpsListed : Subnet16[b] = Subnet16[a]}) < Max16

\* handle_incoming, all checks under one lock of peer_ips.
Accept(c) ==
  LET a == IpOf[IdOf[c]]
  IN  /\ c \in Inbound /\ stage[c] = "new"
      /\ \/ /\ IpAllowed(a) /\ SubnetAllowed(a)
            /\ Go(c, "admitted")
            /\ unseen' = unseen \cup {d \in UnderWay : Near(IpOf[IdOf[d]], a)}
         \/ /\ ~ (IpAllowed(a) /\ SubnetAllowed(a))
            /\ Go(c, "gone")
            /\ UNCHANGED unseen
      /\ UNCHANGED <<reading, tables, locks>>

\* connect_peer: neither this node itself nor a peer that is connected.
Dial(c) ==
  /\ c \notin Inbound /\ stage[c] = "new" /\ PeersFree
  /\ Go(c, IF IdOf[c] \in SelfId \cup DOMAIN peers THEN "gone" ELSE "dialled")
  /\ UNCHANGED <<reading, tables, locks, unseen>>

\* The remote end takes the connection or not.
Connected(c) ==
  /\ stage[c] = "dialled"
  /\ Go(c, "admitted") \/ Go(c, "gone")
  /\ UNCHANGED <<reading, tables, locks, unseen>>

\* spawn_peer_loop: the duplicate guard.
Guard(c) ==
  /\ stage[c] = "admitted" /\ PeersFree
  /\ Go(c, IF IdOf[c] \in DOMAIN peers THEN "gone" ELSE "guarded")
  /\ UNCHANGED <<reading, tables, locks, unseen>>

\* The sender is inserted; one that was there is dropped.
Register(c) ==
  /\ stage[c] = "guarded" /\ PeersFree
  /\ peers' = [i \in DOMAIN peers \cup {IdOf[c]} |-> IF i = IdOf[c] THEN c ELSE peers[i]]
  /\ Go(c, "listed")
  /\ UNCHANGED <<reading, ips, heights, locks, unseen>>

\* The id is pushed to the list of its address.
Track(c) ==
  /\ stage[c] = "listed"
  /\ ips' = [ips EXCEPT ![IdOf[c]] = @ + 1]
  /\ Go(c, "tracked")
  /\ UNCHANGED <<reading, peers, heights, locks, unseen>>

\* The handshake is queued and the two tasks start.
Greet(c) ==
  /\ stage[c] = "tracked" /\ PeersFree
  /\ reading' = reading \cup ({c} \cap Talking)
  /\ Go(c, "open")
  /\ UNCHANGED <<tables, locks, unseen>>

-----------------------------------------------------------------------------
(* The tasks of a connection and its removal *)

\* The stream ends; a frame that is malformed or of another network also
\* makes the reader leave its loop.
ReaderEnds(c) ==
  /\ stage[c] = "open" /\ doing[c] = "nothing"
  /\ reading' = reading \ {c}
  /\ Go(c, "ended")
  /\ UNCHANGED <<tables, locks, unseen>>

\* A write fails, or all senders are dropped.  The reader goes on, also when the
\* connection is removed.
WriterEnds(c) ==
  /\ stage[c] = "open"
  /\ Go(c, "ended")
  /\ UNCHANGED <<reading, tables, locks, unseen>>

\* Either task has ended: the id is removed from peers, ...
RemovePeer(c) ==
  /\ stage[c] = "ended" /\ PeersFree
  /\ peers' = Without(IdOf[c])
  /\ Go(c, "unlisted")
  /\ UNCHANGED <<reading, ips, heights, locks, unseen>>

\* Mutant: the charges of an id that has registered again are kept.
IpsWithout_IfUnlisted(i) == IF i \in DOMAIN peers THEN ips ELSE [ips EXCEPT ![i] = 0]

\* retain drops every entry of the id.
IpsWithout(i) == [ips EXCEPT ![i] = 0]

\* The other connections of the id that are charged, whose charge goes with it.
Uncharged(c) ==
  {d \in Inbound \ {c} : IdOf[d] = IdOf[c] /\ stage[d] \in {"tracked", "open", "ended", "unlisted"}}

\* ... from the heights and from peer_ips.  The loop then waits for the other
\* task, which touches none of this, and ends.
RemoveIp(c) ==
  /\ stage[c] = "unlisted"
  /\ heights' = heights \ {IdOf[c]}
  /\ ips' = IpsWithout(IdOf[c])
  /\ unseen' = unseen \cup Uncharged(c)
  /\ Go(c, "gone")
  /\ UNCHANGED <<reading, peers, locks>>

-----------------------------------------------------------------------------
(* Messages *)

Receives(c) == c \in reading /\ doing[c] = "nothing"

\* Mutant: the charge of the address is dropped here as well.
Disconnect_Uncharges(c) ==
  /\ Receives(c) /\ PeersFree
  /\ peers' = Without(IdOf[c])
  /\ heights' = heights \ {IdOf[c]}
  /\ ips' = [ips EXCEPT ![IdOf[c]] = @ - 1]
  /\ UNCHANGED <<stage, reading, locks, unseen>>

\* Handshake or HandshakeAck of another network or protocol or of this node
\* itself, or headers from another genesis: the peer is removed from the
\* tables, not from peer_ips, and the writer ends with its sender.
Disconnect(c) ==
  /\ Receives(c) /\ PeersFree
  /\ peers' = Without(IdOf[c])
  /\ heights' = heights \ {IdOf[c]}
  /\ UNCHANGED <<stage, reading, ips, locks, unseen>>

\* Handshake: the peer's height and data are stored, then it is answered.
Handshake(c) ==
  /\ Receives(c) /\ IdOf[c] \notin SelfId
  /\ heights' = heights \cup {IdOf[c]}
  /\ Do(c, "getheaders")
  /\ UNCHANGED <<stage, reading, peers, ips, peersLock, bcLock, unseen>>

HandshakeAck(c) ==
  /\ Receives(c) /\ IdOf[c] \notin SelfId
  /\ heights' = heights \cup {IdOf[c]}
  /\ UNCHANGED <<stage, reading, peers, ips, locks, unseen>>

\* Headers that the policy accepts raise the height.
Headers(c) ==
  /\ Receives(c)
  /\ heights' = heights \cup {IdOf[c]}
  /\ UNCHANGED <<stage, reading, peers, ips, locks, unseen>>

\* Version: a height and no handshake.
Version(c) ==
  /\ Receives(c)
  /\ heights' = heights \cup {IdOf[c]}
  /\ Do(c, "getheaders")
  /\ UNCHANGED <<stage, reading, peers, ips, peersLock, bcLock,
                 unseen>>

\* The answer is queued under a lock of its own, which changes nothing here.
\* The peers lock is taken again and, if the peer is there, kept while the
\* locator is computed.
LockPeers(c) ==
  /\ doing[c] = "getheaders" /\ PeersFree
  /\ \/ /\ IdOf[c] \in DOMAIN peers
        /\ peersLock' = c
        /\ Do(c, "locator")
     \/ /\ IdOf[c] \notin DOMAIN peers
        /\ Do(c, "nothing")
        /\ UNCHANGED peersLock
  /\ UNCHANGED <<stage, reading, tables, bcLock, unseen>>

BcFree == bcLock = Free

\* The locator callback takes bc; GetHeaders is queued and both are released.
Locator(c) ==
  /\ doing[c] = "locator" /\ BcFree
  /\ peersLock' = Free
  /\ Do(c, "nothing")
  /\ UNCHANGED <<stage, reading, tables, bcLock, unseen>>

\* GetData: the guard of bc lives until the block is sent.
GetData(c) ==
  /\ Receives(c) /\ BcFree
  /\ bcLock' = c
  /\ Do(c, "serve")
  /\ UNCHANGED <<stage, reading, tables, peersLock, unseen>>

\* send_to_peer takes peers and queues the block.
Serve(c) ==
  /\ doing[c] = "serve" /\ PeersFree
  /\ bcLock' = Free
  /\ Do(c, "nothing")
  /\ UNCHANGED <<stage, reading, tables, peersLock, unseen>>

-----------------------------------------------------------------------------
\* The task that opens the connection and removes it, and the two it spawns.
Loop(c) == Connected(c) \/ Guard(c) \/ Register(c) \/ Track(c) \/ Greet(c)
           \/ RemovePeer(c) \/ RemoveIp(c)
Writer(c) == WriterEnds(c)
Reader(c) == LockPeers(c) \/ Locator(c) \/ Serve(c)

\* What the remote end and the operator do.
Environment(c) ==
  \/ Accept(c) \/ Dial(c) \/ ReaderEnds(c)
  \/ Disconnect(c) \/ Handshake(c) \/ HandshakeAck(c) \/ Version(c)
  \/ Headers(c) \/ GetData(c)

Next == \E c \in Conn : Loop(c) \/ Writer(c) \/ Reader(c) \/ Environment(c)

Spec == Init /\ [][Next]_vars

-----------------------------------------------------------------------------
(* Properties *)

Stage == {"new", "dialled", "admitted", "guarded", "listed", "tracked",
          "open", "ended", "unlisted", "gone"}

\* Type invariant.
TypeOK ==
  /\ stage \in [Conn -> Stage]
  /\ reading \subseteq Talking
  /\ DOMAIN peers \subseteq Id /\ \A i \in DOMAIN peers : peers[i] \in Conn
  /\ ips \in [Id -> Nat]
  /\ heights \subseteq Id
  /\ doing \in [Conn -> {"nothing", "getheaders", "locator", "serve"}]
  /\ peersLock \in Conn \cup {Free} /\ bcLock \in Conn \cup {Free}
  /\ unseen \subseteq Inbound

Alive == {"listed", "tracked", "open", "ended"}

\* The tables hold nothing of a connection that is gone, although a removal
\* goes by the id and not by the connection: a sender belongs to a connection
\* that has not been removed yet, and an address is charged only for an id of
\* which some connection still has to be removed.
NoGhosts ==
  /\ \A i \in DOMAIN peers : IdOf[peers[i]] = i /\ stage[peers[i]] \in Alive
  /\ \A i \in Id : ips[i] > 0 =>
       \E c \in Conn : IdOf[c] = i /\ stage[c] \in {"tracked", "open", "ended", "unlisted"}

\* Inbound connections of an address that are registered or about to be, but for
\* those that an admission could not count.
Guests(a) == {c \in Inbound \ unseen : IpOf[IdOf[c]] = a /\ stage[c] \in Alive}

\* The inbound connections respect MAX_PEERS_PER_IP and the subnet limits through
\* disconnections, replaced connections, late removals and ids that are used again.
\* They are exceeded only by connections that an admission nearby overtook between
\* their own check and their entry in peer_ips, or whose entry the removal of another
\* connection of the same id has dropped, and by no more than there are of these.
AdmissionLimits ==
  \A a \in Ip :
    /\ Cardinality(Guests(a)) <= MaxPerIp
    /\ Cardinality({b \in Ip : Subnet24[b] = Subnet24[a] /\ Guests(b) # {}}) <= Max24
    /\ Cardinality({b \in Ip : Subnet16[b] = Subnet16[a] /\ Guests(b) # {}}) <= Max16

\* Two handlers wait for each other.
Deadlocked == peersLock # Free /\ bcLock # Free

\* No handler keeps the others from ever going on: nobody waits for bc with
\* peers locked while somebody waits for peers with bc locked.
NoDeadlock == ~ Deadlocked
=============================================================================
