------------------------------ MODULE PeersProofs ------------------------------
(***************************************************************************)
(* The peer tables have their types, hold nothing of connections that are  *)
(* gone, and admit no more inbound connections than the limits allow, for  *)
(* any number of connections, ids and addresses, and however their steps   *)
(* interleave.                                                             *)
(***************************************************************************)
EXTENDS Peers, SumLemmas

\* The types of the variables that a connection's own steps write.
Tasks ==
  /\ stage \in [Conn -> Stage]
  /\ reading \subseteq Talking
  /\ doing \in [Conn -> {"nothing", "getheaders", "locator", "serve"}]

\* The types of the shared tables.
Tables ==
  /\ DOMAIN peers \subseteq Id /\ \A i \in DOMAIN peers : peers[i] \in Conn
  /\ ips \in [Id -> Nat]
  /\ heights \subseteq Id

Mutexes ==
  /\ peersLock \in Conn \cup {Free} /\ bcLock \in Conn \cup {Free}
  /\ unseen \subseteq Inbound

\* A sender belongs to a connection of its id that is not removed yet.
Senders ==
  \A i \in DOMAIN peers : IdOf[peers[i]] = i /\ stage[peers[i]] \in Alive

Charged == {"tracked", "open", "ended", "unlisted"}

\* An address is charged for an id only while a removal of that id is to come.
Charges ==
  \A i \in Id : ips[i] > 0 => \E c \in Conn : IdOf[c] = i /\ stage[c] \in Charged

\* The id of a connection is an id.
LEMMA IdTyped ==
  ASSUME NEW c \in Conn
  PROVE  IdOf[c] \in Id
BY DEF Id

\* What the steps say of the entries of the peer tables that they leave.
LEMMA WithoutFacts ==
  ASSUME Tables, NEW i, peers' = Without(i)
  PROVE  /\ DOMAIN peers' = DOMAIN peers \ {i}
         /\ \A j \in DOMAIN peers' : peers'[j] = peers[j]
BY DEF Tables, Without

-----------------------------------------------------------------------------
(* Types *)

\* Every step of a connection keeps the types of the tasks.
LEMMA TasksKept ==
  ASSUME Tasks, NEW c \in Conn, Loop(c) \/ Writer(c) \/ Reader(c) \/ Environment(c)
  PROVE  Tasks'
<1> USE DEF Tasks, Stage
<1>1. CASE Loop(c)
  BY <1>1 DEF Loop, Connected, Guard, Register, Track, Greet, RemovePeer, RemoveIp, Go, locks
<1>2. CASE Writer(c)
  BY <1>2 DEF Writer, WriterEnds, Go, locks
<1>3. CASE Reader(c)
  BY <1>3 DEF Reader, LockPeers, Locator, Serve, ReaderEnds, Do, locks
<1>4. CASE Environment(c)
  <2>1. CASE Accept(c) \/ Dial(c)
    BY <2>1 DEF Accept, Dial, Go, locks
  <2>2. CASE ReaderEnds(c) \/ Disconnect(c) \/ HandshakeAck(c) \/ Headers(c)
    BY <2>2 DEF ReaderEnds, Disconnect, HandshakeAck, Headers, Go, locks
  <2>3. CASE Handshake(c) \/ Version(c) \/ GetData(c)
    BY <2>3 DEF Handshake, Version, GetData, Do
  <2> QED
    BY <1>4, <2>1, <2>2, <2>3 DEF Environment
<1> QED
  BY <1>1, <1>2, <1>3, <1>4

\* Every step keeps the types of the shared tables.
LEMMA TablesKept ==
  ASSUME Tables, NEW c \in Conn, Loop(c) \/ Writer(c) \/ Reader(c) \/ Environment(c)
  PROVE  Tables'
<1>0. IdOf[c] \in Id
  BY IdTyped
<1>1. CASE UNCHANGED tables
  BY <1>1 DEF tables, Tables
<1>2. CASE Register(c)
  BY <1>0, <1>2 DEF Register, Tables
<1>3. CASE Track(c)
  BY <1>0, <1>3 DEF Track, Tables
<1>4. CASE RemovePeer(c) \/ Disconnect(c)
  <2>1. peers' = Without(IdOf[c]) /\ ips' = ips /\ heights' \subseteq heights
    BY <1>4 DEF RemovePeer, Disconnect
  <2>2. /\ DOMAIN peers' = DOMAIN peers \ {IdOf[c]}
        /\ \A j \in DOMAIN peers' : peers'[j] = peers[j]
    BY <2>1, WithoutFacts
  <2> QED
    BY <2>1, <2>2 DEF Tables
<1>5. CASE RemoveIp(c)
  BY <1>0, <1>5 DEF RemoveIp, IpsWithout, Tables
<1>6. CASE Handshake(c) \/ HandshakeAck(c) \/ Headers(c) \/ Version(c)
  BY <1>0, <1>6 DEF Handshake, HandshakeAck, Headers, Version, Tables
<1>7. CASE Accept(c) \/ Dial(c) \/ Connected(c) \/ Guard(c) \/ Greet(c)
  BY <1>1, <1>7 DEF Accept, Dial, Connected, Guard, Greet
<1>8. CASE ReaderEnds(c) \/ WriterEnds(c) \/ GetData(c)
  BY <1>1, <1>8 DEF ReaderEnds, WriterEnds, GetData
<1>9. CASE LockPeers(c) \/ Locator(c) \/ Serve(c)
  BY <1>1, <1>9 DEF LockPeers, Locator, Serve
<1> QED
  BY <1>2, <1>3, <1>4, <1>5, <1>6, <1>7, <1>8, <1>9 DEF Loop, Writer, Reader, Environment

\* Every step keeps the types of the mutexes.
LEMMA MutexesKept ==
  ASSUME Mutexes, NEW c \in Conn, Loop(c) \/ Writer(c) \/ Reader(c) \/ Environment(c)
  PROVE  Mutexes'
<1>1. CASE Loop(c)
  <2>1. CASE RemoveIp(c)
    BY <2>1 DEF RemoveIp, Uncharged, locks, Mutexes
  <2>2. CASE ~ RemoveIp(c)
    BY <1>1, <2>2 DEF Loop, Connected, Guard, Register, Track, Greet, RemovePeer, locks, Mutexes
  <2> QED BY <2>1, <2>2
<1>2. CASE Writer(c)
  BY <1>2 DEF Writer, WriterEnds, locks, Mutexes
<1>3. CASE Reader(c)
  BY <1>3 DEF Reader, LockPeers, Locator, Serve, Mutexes
<1>4. CASE Environment(c)
  <2>1. CASE Accept(c)
    BY <2>1 DEF Accept, UnderWay, locks, Mutexes
  <2>2. CASE Dial(c) \/ ReaderEnds(c) \/ Disconnect(c) \/ HandshakeAck(c) \/ Headers(c)
    BY <2>2 DEF Dial, ReaderEnds, Disconnect, HandshakeAck, Headers, locks, Mutexes
  <2>3. CASE Handshake(c) \/ Version(c) \/ GetData(c)
    BY <2>3 DEF Handshake, Version, GetData, Mutexes
  <2> QED BY <1>4, <2>1, <2>2, <2>3 DEF Environment
<1> QED
  BY <1>1, <1>2, <1>3, <1>4

\* TypeOK is the conjunction of the three parts.
LEMMA TypeParts == TypeOK <=> Tasks /\ Tables /\ Mutexes
BY Zenon DEF TypeOK, Tasks, Tables, Mutexes

-----------------------------------------------------------------------------
(* No ghosts *)

\* The stages that a step which is neither registration nor removal leads to.
Moves(c) ==
  \/ stage' = stage
  \/ stage[c] \in {"new", "dialled", "admitted"} /\ stage' = [stage EXCEPT ![c] = stage'[c]]
  \/ stage[c] \in {"tracked", "open"} /\ stage'[c] \in {"open", "ended"}
     /\ stage' = [stage EXCEPT ![c] = stage'[c]]

\* A step that neither registers nor removes leaves the stage of a connection
\* that is alive or charged alive or charged, and adds no sender and no charge.
LEMMA QuietStep ==
  ASSUME Tasks, Tables, NEW c \in Conn,
         Loop(c) \/ Writer(c) \/ Reader(c) \/ Environment(c),
         ~ Register(c), ~ Track(c), ~ RemovePeer(c), ~ RemoveIp(c)
  PROVE  /\ Moves(c)
         /\ ips' = ips
         /\ DOMAIN peers' \subseteq DOMAIN peers
         /\ \A i \in DOMAIN peers' : peers'[i] = peers[i]
<1>1. CASE Accept(c) \/ Dial(c) \/ Connected(c) \/ Guard(c)
  BY <1>1 DEF Accept, Dial, Connected, Guard, Go, Moves, tables, Tasks
<1>2. CASE Greet(c)
  BY <1>2 DEF Greet, Go, Moves, tables, Tasks
<1>3. CASE Disconnect(c)
  BY <1>3, WithoutFacts DEF Disconnect, Moves
<1>4. CASE Handshake(c) \/ HandshakeAck(c) \/ Headers(c) \/ Version(c) \/ GetData(c)
  BY <1>4 DEF Handshake, HandshakeAck, Headers, Version, GetData, tables, Moves
<1>5. CASE ReaderEnds(c) \/ WriterEnds(c)
  BY <1>5 DEF ReaderEnds, WriterEnds, Go, tables, Moves, Tasks
<1>6. CASE LockPeers(c) \/ Locator(c) \/ Serve(c)
  BY <1>6 DEF LockPeers, Locator, Serve, tables, Moves
<1> QED
  BY <1>1, <1>2, <1>3, <1>4, <1>5, <1>6 DEF Loop, Writer, Reader, Environment

\* A step that leaves the tables alone takes no connection out of the stages in
\* which it is registered or charged.
LEMMA MovesFacts ==
  ASSUME Tasks, NEW c \in Conn, Moves(c), NEW d \in Conn
  PROVE  /\ stage[d] \in Alive => stage'[d] \in Alive
         /\ stage[d] \in Charged => stage'[d] \in Charged
BY DEF Tasks, Moves, Alive, Charged

\* The senders.  A removal goes by the id; it cannot leave a sender of the
\* connection that is removed, for that is filed under the same id.
LEMMA SendersKept ==
  ASSUME Tasks, Tables, Senders, NEW c \in Conn,
         Loop(c) \/ Writer(c) \/ Reader(c) \/ Environment(c)
  PROVE  Senders'
<1>1. CASE Register(c)
  <2>1. stage' = [stage EXCEPT ![c] = "listed"] /\ stage[c] = "guarded"
    BY <1>1 DEF Register, Go
  <2>2. peers' = [i \in DOMAIN peers \cup {IdOf[c]} |-> IF i = IdOf[c] THEN c ELSE peers[i]]
    BY <1>1 DEF Register
  <2>3. ASSUME NEW i \in DOMAIN peers' PROVE IdOf[peers'[i]] = i /\ stage'[peers'[i]] \in Alive
    <3>1. CASE i = IdOf[c]
      BY <2>1, <2>2, <3>1 DEF Tasks, Alive
    <3>2. CASE i # IdOf[c]
      <4>1. i \in DOMAIN peers /\ peers'[i] = peers[i]
        BY <2>2, <2>3, <3>2
      <4>2. peers[i] # c /\ peers[i] \in Conn
        BY <2>1, <4>1 DEF Senders, Alive, Tables
      <4> QED
        BY <2>1, <4>1, <4>2 DEF Senders, Tasks
    <3> QED
      BY <3>1, <3>2
  <2> QED
    BY <2>3 DEF Senders
<1>2. CASE RemovePeer(c)
  <2>1. stage' = [stage EXCEPT ![c] = "unlisted"] /\ peers' = Without(IdOf[c])
    BY <1>2 DEF RemovePeer, Go
  <2>2. /\ DOMAIN peers' = DOMAIN peers \ {IdOf[c]}
        /\ \A j \in DOMAIN peers' : peers'[j] = peers[j]
    BY <2>1, WithoutFacts
  <2>3. ASSUME NEW i \in DOMAIN peers' PROVE peers[i] # c /\ peers[i] \in Conn
    BY <2>2, <2>3 DEF Senders, Tables
  <2> QED
    BY <2>1, <2>2, <2>3 DEF Senders, Tasks
<1>3. CASE Track(c)
  <2>1. stage' = [stage EXCEPT ![c] = "tracked"] /\ peers' = peers
    BY <1>3 DEF Track, Go
  <2> QED
    BY <2>1 DEF Senders, Tasks, Tables, Alive
<1>4. CASE RemoveIp(c)
  <2>1. stage' = [stage EXCEPT ![c] = "gone"] /\ peers' = peers /\ stage[c] = "unlisted"
    BY <1>4 DEF RemoveIp, Go
  <2> QED
    BY <2>1 DEF Senders, Tasks, Tables, Alive
<1>5. CASE ~ Register(c) /\ ~ Track(c) /\ ~ RemovePeer(c) /\ ~ RemoveIp(c)
  <2>1. /\ Moves(c) /\ DOMAIN peers' \subseteq DOMAIN peers
        /\ \A i \in DOMAIN peers' : peers'[i] = peers[i]
    BY <1>5, QuietStep
  <2>2. ASSUME NEW i \in DOMAIN peers' PROVE IdOf[peers'[i]] = i /\ stage'[peers'[i]] \in Alive
    <3>1. i \in DOMAIN peers /\ peers'[i] = peers[i] /\ peers[i] \in Conn
      BY <2>1, <2>2 DEF Tables
    <3> QED
      BY <2>1, <3>1, MovesFacts DEF Senders
  <2> QED
    BY <2>2 DEF Senders
<1> QED
  BY <1>1, <1>2, <1>3, <1>4, <1>5

\* The charges.  retain drops every entry of the id, so that the last removal
\* of an id leaves none.
LEMMA ChargesKept ==
  ASSUME Tasks, Tables, Charges, NEW c \in Conn,
         Loop(c) \/ Writer(c) \/ Reader(c) \/ Environment(c)
  PROVE  Charges'
<1>0. IdOf[c] \in Id
  BY IdTyped
<1> DEFINE Covered(i) == \E d \in Conn : IdOf[d] = i /\ stage'[d] \in Charged
<1>1. CASE Register(c) \/ RemovePeer(c)
  <2>1. ips' = ips
    BY <1>1 DEF Register, RemovePeer
  <2>2. \A d \in Conn : stage[d] \in Charged => stage'[d] \in Charged
    BY <1>1 DEF Register, RemovePeer, Go, Tasks, Charged
  <2> QED
    BY <2>1, <2>2 DEF Charges
<1>2. CASE Track(c)
  <2>1. stage' = [stage EXCEPT ![c] = "tracked"] /\ stage[c] = "listed"
    BY <1>2 DEF Track, Go
  <2>2. ips' = [ips EXCEPT ![IdOf[c]] = ips[IdOf[c]] + 1]
    BY <1>2 DEF Track
  <2>3. \A d \in Conn : stage[d] \in Charged => stage'[d] \in Charged
    BY <2>1 DEF Tasks, Charged
  <2>4. ASSUME NEW i \in Id, ips'[i] > 0 PROVE Covered(i)
    <3>1. CASE i = IdOf[c]
      BY <2>1, <3>1 DEF Tasks, Charged
    <3>2. CASE i # IdOf[c]
      <4>1. ips'[i] = ips[i]
        BY <2>2, <3>2 DEF Tables
      <4> QED
        BY <2>3, <2>4, <4>1 DEF Charges
    <3> QED
      BY <3>1, <3>2
  <2> QED
    BY <2>4 DEF Charges
<1>3. CASE RemoveIp(c)
  <2>1. stage' = [stage EXCEPT ![c] = "gone"]
    BY <1>3 DEF RemoveIp, Go
  <2>2. ips' = [ips EXCEPT ![IdOf[c]] = 0]
    BY <1>3 DEF RemoveIp, IpsWithout
  <2>3. ASSUME NEW i \in Id, ips'[i] > 0 PROVE Covered(i)
    <3>1. i # IdOf[c]
      BY <2>2, <2>3 DEF Tables
    <3>2. ips'[i] = ips[i]
      BY <2>2, <3>1 DEF Tables
    <3>3. PICK d \in Conn : IdOf[d] = i /\ stage[d] \in Charged
      BY <2>3, <3>2 DEF Charges
    <3>4. stage'[d] = stage[d]
      BY <2>1, <3>1, <3>3 DEF Tasks
    <3> QED
      BY <3>3, <3>4
  <2> QED
    BY <2>3 DEF Charges
<1>4. CASE ~ Register(c) /\ ~ Track(c) /\ ~ RemovePeer(c) /\ ~ RemoveIp(c)
  <2>1. Moves(c) /\ ips' = ips
    BY <1>4, QuietStep
  <2>2. \A d \in Conn : stage[d] \in Charged => stage'[d] \in Charged
    BY <2>1, MovesFacts
  <2> QED
    BY <2>1, <2>2 DEF Charges
<1> QED
  BY <1>1, <1>2, <1>3, <1>4

-----------------------------------------------------------------------------
IInv == TypeOK /\ Senders /\ Charges

\* IInv holds at first.
LEMMA IInvInit == Init => IInv
<1> SUFFICES ASSUME Init PROVE IInv
  OBVIOUS
<1>1. DOMAIN peers = {}
  BY DEF Init
<1>2. Tasks
  BY DEF Init, Tasks, Stage
<1>3. Tables
  BY <1>1 DEF Init, Tables
<1>4. unseen \subseteq Inbound
  BY DEF Init
<1>5. Mutexes
  BY <1>4, Zenon DEF Init, Mutexes
<1>6. Senders
  BY <1>1 DEF Senders
<1>7. Charges
  BY DEF Init, Charges
<1> QED
  BY <1>2, <1>3, <1>5, <1>6, <1>7, TypeParts, Zenon DEF IInv

\* IInv is inductive.
LEMMA IInvInductive == IInv /\ [Next]_vars => IInv'
<1> SUFFICES ASSUME IInv, [Next]_vars PROVE IInv'
  OBVIOUS
<1>1. Tasks /\ Tables /\ Mutexes /\ Senders /\ Charges
  BY TypeParts, Zenon DEF IInv
<1>2. CASE Next
  <2>1. PICK c \in Conn : Loop(c) \/ Writer(c) \/ Reader(c) \/ Environment(c)
    BY <1>2, Zenon DEF Next
  <2>2. Tasks' /\ Tables' /\ Mutexes'
    BY <1>1, <2>1, TasksKept, TablesKept, MutexesKept, Zenon
  <2>3. Senders' /\ Charges'
    BY <1>1, <2>1, SendersKept, ChargesKept, Zenon
  <2> QED
    BY <2>2, <2>3, Zenon DEF IInv, TypeOK, Tasks, Tables, Mutexes
<1>3. CASE UNCHANGED vars
  <2>1. TypeOK'
    BY <1>3, Zenon DEF vars, IInv, TypeOK
  <2>2. Senders' /\ Charges'
    BY <1>1, <1>3, Zenon DEF vars, Senders, Charges
  <2> QED
    BY <2>1, <2>2, Zenon DEF IInv
<1> QED
  BY <1>2, <1>3

\* Every variable has its type; in particular no charge goes below zero.
THEOREM TypeCorrect == Spec => []TypeOK
BY IInvInit, IInvInductive, PTL DEF Spec, IInv

\* However dials, admissions, removals and replaced connections interleave,
\* the tables keep nothing of a connection that is gone.
THEOREM TablesClean == Spec => []NoGhosts
<1>1. IInv => NoGhosts
  BY Zenon DEF IInv, NoGhosts, Senders, Charges, Charged
<1> QED
  BY <1>1, IInvInit, IInvInductive, PTL DEF Spec

-----------------------------------------------------------------------------
(* Admission limits *)

\* The stages of an inbound connection from its admission to its removal.
Inside == {"admitted", "guarded", "listed"} \cup Charged

Entered(a) == {c \in Inbound \ unseen : IpOf[IdOf[c]] = a /\ stage[c] \in Inside}
Occupied24(a) == {b \in Ip : Subnet24[b] = Subnet24[a] /\ Entered(b) # {}}
Occupied16(a) == {b \in Ip : Subnet16[b] = Subnet16[a] /\ Entered(b) # {}}

\* The connections among them that peer_ips has, by id and by address.
Paid(i) == {c \in Inbound \ unseen : IdOf[c] = i /\ stage[c] \in Charged}
Settled(a) == {c \in Entered(a) : stage[c] \in Charged}

\* peer_ips has an entry for every inbound connection that is tracked and whose
\* entry no removal of another connection has dropped.
Listed ==
  /\ \A c \in Inbound : stage[c] # "dialled"
  /\ \A i \in Id : Cardinality(Paid(i)) <= ips[i]

\* The limits count every inbound connection that is inside.
Limited ==
  \A a \in Ip : /\ Cardinality(Entered(a)) <= MaxPerIp
               /\ Cardinality(Occupied24(a)) <= Max24
               /\ Cardinality(Occupied16(a)) <= Max16

\* The sets that the limits count are finite.
LEMMA LimitsFinite ==
  /\ IsFiniteSet(Conn) /\ IsFiniteSet(Id) /\ IsFiniteSet(Ip) /\ Inbound \subseteq Conn
  /\ \A a : /\ IsFiniteSet(Entered(a)) /\ IsFiniteSet(Settled(a)) /\ IsFiniteSet(Paid(a))
           /\ IsFiniteSet(Occupied24(a)) /\ IsFiniteSet(Occupied16(a))
<1>1. IsFiniteSet(Conn) /\ Inbound \subseteq Conn
  BY ConstantsTyped
<1>2. IsFiniteSet(Id)
  <2> DEFINE f == [c \in Conn |-> IdOf[c]]
  <2>1. f \in Surjection(Conn, Id)
    BY DEF Id, Surjection
  <2> HIDE DEF f
  <2> QED BY <1>1, <2>1, FS_Surjection
<1>3. IsFiniteSet(Ip)
  <2> DEFINE f == [i \in Id |-> IpOf[i]]
  <2>1. f \in Surjection(Id, Ip)
    BY DEF Ip, Surjection
  <2> HIDE DEF f
  <2> QED BY <1>2, <2>1, FS_Surjection
<1>4. \A a : /\ Entered(a) \subseteq Conn /\ Settled(a) \subseteq Conn /\ Paid(a) \subseteq Conn
            /\ Occupied24(a) \subseteq Ip /\ Occupied16(a) \subseteq Ip
  BY <1>1 DEF Entered, Settled, Paid, Occupied24, Occupied16
<1> QED BY <1>1, <1>2, <1>3, <1>4, FS_Subset

\* A set that grows by at most one element of its own class stays within a limit
\* that a larger set was below.
LEMMA OneMore ==
  ASSUME NEW S, NEW T, NEW x, NEW max \in Nat, IsFiniteSet(S), T \subseteq S \cup {x},
         Cardinality(S) < max
  PROVE  Cardinality(T) <= max
<1>0. Cardinality(S) \in Nat
  BY FS_CardinalityType
<1>1. IsFiniteSet(S \cup {x}) /\ Cardinality(S \cup {x}) <= Cardinality(S) + 1
  <2>1. CASE x \in S
    <3>1. S \cup {x} = S
      BY <2>1
    <3>2. IsFiniteSet(S \cup {x}) /\ Cardinality(S \cup {x}) = Cardinality(S)
      BY <3>1, Zenon
    <3> QED BY <1>0, <3>2
  <2>2. CASE x \notin S
    <3>1. IsFiniteSet(S \cup {x}) /\ Cardinality(S \cup {x}) = Cardinality(S) + 1
      BY <2>2, FS_AddElement
    <3> QED BY <1>0, <3>1
  <2> QED BY <2>1, <2>2
<1>2. Cardinality(T) <= Cardinality(S \cup {x}) /\ Cardinality(T) \in Nat
  BY <1>1, FS_Subset, FS_CardinalityType
<1>3. Cardinality(S) \in Nat /\ Cardinality(S \cup {x}) \in Nat
  BY <1>1, FS_CardinalityType
<1> QED BY <1>1, <1>2, <1>3

\* A smaller set stays within a limit.
LEMMA NoMore ==
  ASSUME NEW S, NEW T, NEW max \in Nat, IsFiniteSet(S), T \subseteq S, Cardinality(S) <= max
  PROVE  Cardinality(T) <= max
<1>1. Cardinality(T) <= Cardinality(S) /\ Cardinality(T) \in Nat /\ Cardinality(S) \in Nat
  BY FS_Subset, FS_CardinalityType
<1> QED BY <1>1

\* Only Accept lets an inbound connection in, and only Track charges one.
LEMMA OnlyAcceptAdmits ==
  ASSUME Tasks, Listed, NEW c \in Conn,
         Loop(c) \/ Writer(c) \/ Reader(c) \/ Environment(c), ~ Accept(c)
  PROVE  /\ unseen \subseteq unseen'
         /\ \A d \in Inbound : /\ stage'[d] # "dialled"
                               /\ stage'[d] \in Inside => stage[d] \in Inside
                               /\ ~ Track(c) /\ stage'[d] \in Charged => stage[d] \in Charged
<1>0. Inbound \subseteq Conn
  BY LimitsFinite
<1>1. CASE Loop(c)
  <2> USE <1>0 DEF Tasks, Listed, Inside, Charged, Go
  <2>1. CASE Connected(c) \/ Guard(c)
    BY <2>1 DEF Connected, Guard
  <2>2. CASE Register(c) \/ Track(c) \/ Greet(c)
    BY <2>2 DEF Register, Track, Greet
  <2>3. CASE RemovePeer(c) \/ RemoveIp(c)
    BY <2>3 DEF RemovePeer, RemoveIp
  <2> QED BY <1>1, <2>1, <2>2, <2>3 DEF Loop
<1>2. CASE stage' = stage /\ unseen' = unseen
  BY <1>2 DEF Listed
<1>3. CASE Reader(c)
  BY <1>2, <1>3 DEF Reader, LockPeers, Locator, Serve
<1>4. CASE Writer(c) \/ ReaderEnds(c) \/ Dial(c)
  BY <1>0, <1>4 DEF Writer, WriterEnds, ReaderEnds, Dial, Go, Tasks, Listed, Inside, Charged
<1>5. CASE Environment(c) /\ ~ ReaderEnds(c) /\ ~ Dial(c)
  BY <1>2, <1>5 DEF Environment, Disconnect, Handshake, HandshakeAck, Version, Headers, GetData
<1> QED BY <1>1, <1>3, <1>4, <1>5

\* Only Track and RemoveIp write peer_ips.
LEMMA IpsLeft ==
  ASSUME NEW c \in Conn, Loop(c) \/ Writer(c) \/ Reader(c) \/ Environment(c),
         ~ Track(c), ~ RemoveIp(c)
  PROVE  ips' = ips
<1>1. CASE Loop(c)
  BY <1>1 DEF Loop, Connected, Guard, Register, Greet, RemovePeer, tables
<1>2. CASE Writer(c) \/ Reader(c)
  BY <1>2 DEF Writer, WriterEnds, Reader, LockPeers, Locator, Serve, tables
<1>3. CASE Environment(c)
  BY <1>3 DEF Environment, Accept, Dial, ReaderEnds, Disconnect, Handshake,
       HandshakeAck, Version, Headers, GetData, tables
<1> QED BY <1>1, <1>2, <1>3

\* A removal by id drops the entries of all connections of the id: those of the
\* others count as unseen from then on.
LEMMA ListedKept ==
  ASSUME Tasks, Tables, Listed, NEW c \in Conn,
         Loop(c) \/ Writer(c) \/ Reader(c) \/ Environment(c)
  PROVE  Listed'
<1>0. Inbound \subseteq Conn /\ IdOf[c] \in Id
  BY LimitsFinite, IdTyped
<1>1. \A d \in Inbound : stage'[d] # "dialled"
  <2>1. CASE Accept(c)
    BY <1>0, <2>1 DEF Accept, Go, Tasks, Listed
  <2>2. CASE ~ Accept(c)
    BY <2>2, OnlyAcceptAdmits
  <2> QED BY <2>1, <2>2
<1>2. ASSUME NEW i \in Id PROVE Cardinality(Paid(i)') <= ips'[i]
  <2>0. /\ Cardinality(Paid(i)) <= ips[i] /\ ips[i] \in Nat /\ Cardinality(Paid(i)) \in Nat
        /\ IsFiniteSet(Paid(i))
    BY LimitsFinite, FS_CardinalityType DEF Listed, Tables
  <2>1. CASE Track(c)
    <3>1. stage' = [stage EXCEPT ![c] = "tracked"] /\ unseen' = unseen
      BY <2>1 DEF Track, Go
    <3>2. ips' = [ips EXCEPT ![IdOf[c]] = ips[IdOf[c]] + 1]
      BY <2>1 DEF Track
    <3>3. CASE i = IdOf[c]
      <4>1. ips'[i] = ips[i] + 1
        BY <1>0, <3>2, <3>3 DEF Tables
      <4>2. Paid(i)' \subseteq Paid(i) \cup {c}
        BY <1>0, <3>1 DEF Paid, Tasks
      <4> DEFINE max == ips[i] + 1
      <4>3. Cardinality(Paid(i)) < max /\ max \in Nat
        BY <2>0
      <4>4. ips'[i] = max
        BY <4>1
      <4> HIDE DEF max
      <4>5. Cardinality(Paid(i)') <= max
        BY <2>0, <4>2, <4>3, OneMore
      <4> QED BY <4>4, <4>5
    <3>4. CASE i # IdOf[c]
      <4>1. ips'[i] = ips[i]
        BY <3>2, <3>4 DEF Tables
      <4>2. Paid(i)' \subseteq Paid(i)
        BY <1>0, <3>1, <3>4 DEF Paid, Tasks
      <4> QED BY <2>0, <4>1, <4>2, NoMore
    <3> QED BY <3>3, <3>4
  <2>2. CASE RemoveIp(c)
    <3>1. stage' = [stage EXCEPT ![c] = "gone"] /\ unseen' = unseen \cup Uncharged(c)
      BY <2>2 DEF RemoveIp, Go
    <3>2. ips' = [ips EXCEPT ![IdOf[c]] = 0]
      BY <2>2 DEF RemoveIp, IpsWithout
    <3>3. CASE i = IdOf[c]
      <4>1. Paid(i)' = {}
        BY <1>0, <3>1, <3>3 DEF Paid, Uncharged, Charged, Tasks
      <4>2. ips'[i] = 0
        BY <1>0, <3>2, <3>3 DEF Tables
      <4> QED BY <4>1, <4>2, FS_EmptySet
    <3>4. CASE i # IdOf[c]
      <4>1. ips'[i] = ips[i]
        BY <3>2, <3>4 DEF Tables
      <4>2. Paid(i)' \subseteq Paid(i)
        BY <1>0, <3>1 DEF Paid, Charged, Tasks
      <4> QED BY <2>0, <4>1, <4>2, NoMore
    <3> QED BY <3>3, <3>4
  <2>3. CASE ~ Track(c) /\ ~ RemoveIp(c)
    <3>1. ips' = ips
      BY <2>3, IpsLeft
    <3>2. Paid(i)' \subseteq Paid(i)
      <4>1. CASE Accept(c)
        BY <1>0, <4>1 DEF Accept, Go, Tasks, Paid, Charged
      <4>2. CASE ~ Accept(c)
        <5>1. /\ unseen \subseteq unseen'
              /\ \A d \in Inbound : stage'[d] \in Charged => stage[d] \in Charged
          BY <2>3, <4>2, OnlyAcceptAdmits
        <5> QED BY <5>1 DEF Paid
      <4> QED BY <4>1, <4>2
    <3> QED BY <2>0, <3>1, <3>2, NoMore
  <2> QED BY <2>1, <2>2, <2>3
<1> QED BY <1>1, <1>2 DEF Listed

\* An address has no more settled connections than entries in peer_ips, ...
LEMMA SettledCounted ==
  ASSUME Tables, Listed, NEW a
  PROVE  Cardinality(Settled(a)) <= CountOfIp(a) /\ CountOfIp(a) \in Nat
<1> DEFINE D == Settled(a)
           M == PeersOfIp(a)
           w == [c \in D |-> IdOf[c]]
           n == [i \in M |-> Cardinality(Having(D, w, i))]
<1>1. IsFiniteSet(D) /\ IsFiniteSet(M)
  <2>1. M \subseteq Id
    BY DEF PeersOfIp
  <2> QED BY <2>1, LimitsFinite, FS_Subset
<1>2. \A c \in D : c \in Paid(IdOf[c]) /\ IdOf[c] \in Id /\ IpOf[IdOf[c]] = a
  BY LimitsFinite, IdTyped DEF Settled, Entered, Paid
<1>3. \A i \in M : i \in Id /\ ips[i] \in Nat
  BY DEF PeersOfIp, Tables
<1>4. \A c \in D : w[c] \in M
  <2> SUFFICES ASSUME NEW c \in D PROVE IdOf[c] \in M
    OBVIOUS
  <2> DEFINE i == IdOf[c]
  <2>1. {c} \subseteq Paid(i) /\ IsFiniteSet(Paid(i)) /\ i \in Id /\ IpOf[i] = a
    BY <1>2, LimitsFinite
  <2>2. Cardinality({c}) = 1 /\ Cardinality({c}) <= Cardinality(Paid(i))
    BY <2>1, FS_Subset, FS_Singleton
  <2>3. ips[i] \in Nat /\ Cardinality(Paid(i)) <= ips[i] /\ Cardinality(Paid(i)) \in Nat
    BY <2>1, FS_CardinalityType DEF Tables, Listed
  <2>4. ips[i] > 0
    BY <2>2, <2>3
  <2> QED BY <2>1, <2>4 DEF PeersOfIp
<1>5. \A i \in M : n[i] <= ips[i]
  <2> SUFFICES ASSUME NEW i \in M PROVE Cardinality(Having(D, w, i)) <= ips[i]
    OBVIOUS
  <2>1. Having(D, w, i) \subseteq Paid(i)
    BY <1>2 DEF Having
  <2>2. Cardinality(Paid(i)) <= ips[i] /\ ips[i] \in Nat /\ IsFiniteSet(Paid(i))
    BY <1>3, LimitsFinite DEF Listed
  <2> HIDE DEF D, w
  <2> QED BY <2>1, <2>2, NoMore
<1>6. (\A i \in M : n[i] \in Nat) /\ SumOf(n, M) = Cardinality(D)
  <2>1. \A i \in M : n[i] = Cardinality(Having(D, w, i))
    OBVIOUS
  <2> HIDE DEF D, M, w, n
  <2> QED BY <1>1, <1>4, <2>1, SumCounts
<1>7. SumOf(n, M) <= SumOf(ips, M) /\ SumOf(ips, M) \in Nat
  <2> HIDE DEF D, M, w, n
  <2>1. \A i \in M : n[i] \in Int /\ ips[i] \in Int /\ n[i] <= ips[i]
    BY <1>3, <1>5, <1>6
  <2> QED BY <1>1, <1>3, <2>1, SumMono, SumNat
<1>8. CountOfIp(a) = SumOf(ips, M)
  BY DEF CountOfIp, SumOf
<1> HIDE DEF D, M, w, n
<1>9. Cardinality(D) <= CountOfIp(a) /\ CountOfIp(a) \in Nat
  BY <1>6, <1>7, <1>8
<1> QED BY <1>9 DEF D

\* ... and every address that has any is listed.
LEMMA SettledListed ==
  ASSUME Tables, Listed, NEW b, Settled(b) # {}
  PROVE  b \in IpsListed
<1>1. PICK c \in Inbound : /\ c \in Conn /\ IpOf[IdOf[c]] = b /\ IdOf[c] \in Id
                          /\ {c} \subseteq Paid(IdOf[c])
  BY LimitsFinite, IdTyped DEF Settled, Entered, Paid
<1> DEFINE i == IdOf[c]
<1>2. Cardinality({c}) = 1 /\ Cardinality({c}) <= Cardinality(Paid(i))
  BY <1>1, LimitsFinite, FS_Subset, FS_Singleton
<1>3. ips[i] \in Nat /\ Cardinality(Paid(i)) <= ips[i] /\ Cardinality(Paid(i)) \in Nat
  BY <1>1, LimitsFinite, FS_CardinalityType DEF Tables, Listed
<1>4. ips[i] > 0
  BY <1>2, <1>3
<1> QED BY <1>1, <1>4 DEF IpsListed

\* An admission was decided on tables that are complete but for the connections
\* under way nearby.
LEMMA LimitedAccept ==
  ASSUME Tasks, Tables, Listed, Limited, NEW c \in Conn, Accept(c)
  PROVE  Limited'
<1> DEFINE a == IpOf[IdOf[c]]
<1> SUFFICES ASSUME NEW b \in Ip
             PROVE  /\ Cardinality(Entered(b)') <= MaxPerIp
                    /\ Cardinality(Occupied24(b)') <= Max24
                    /\ Cardinality(Occupied16(b)') <= Max16
  BY DEF Limited
<1>1. c \in Inbound /\ stage[c] = "new"
  BY DEF Accept
<1>3. {MaxPerIp, Max24, Max16} \subseteq Nat
  BY ConstantsTyped
<1>4. /\ Cardinality(Entered(b)) <= MaxPerIp /\ Cardinality(Occupied24(b)) <= Max24
      /\ Cardinality(Occupied16(b)) <= Max16
  BY DEF Limited
<1>5. CASE ~ (IpAllowed(a) /\ SubnetAllowed(a))
  <2>0. stage' = [stage EXCEPT ![c] = "gone"] /\ unseen' = unseen
    BY <1>5 DEF Accept, Go
  <2>1. \A e : Entered(e)' \subseteq Entered(e)
    BY <2>0, LimitsFinite DEF Entered, Inside, Charged, Tasks
  <2>2. Occupied24(b)' \subseteq Occupied24(b) /\ Occupied16(b)' \subseteq Occupied16(b)
    BY <2>1 DEF Occupied24, Occupied16
  <2>3. Entered(b)' \subseteq Entered(b)
    BY <2>1
  <2> QED BY <1>3, <1>4, <2>2, <2>3, NoMore, LimitsFinite
<1>6. CASE IpAllowed(a) /\ SubnetAllowed(a)
  <2>0. /\ stage' = [stage EXCEPT ![c] = "admitted"]
        /\ unseen' = unseen \cup {d \in UnderWay : Near(IpOf[IdOf[d]], a)}
    BY <1>6 DEF Accept, Go
  <2>1. \A e : e # a => Entered(e)' \subseteq Entered(e)
    BY <2>0, LimitsFinite DEF Entered, Tasks
  <2>2. \A e : Near(e, a) => Entered(e)' \subseteq Settled(e) \cup {c}
    BY <2>0, LimitsFinite DEF Entered, Settled, Inside, Charged, UnderWay, Tasks
  <2>3. Cardinality(Entered(b)') <= MaxPerIp
    <3>1. CASE b = a
      <4>1. Cardinality(Settled(b)) <= CountOfIp(b) /\ CountOfIp(b) \in Nat
        BY SettledCounted
      <4>2. Cardinality(Settled(b)) \in Nat /\ CountOfIp(b) < MaxPerIp
        BY <1>6, <3>1, LimitsFinite, FS_CardinalityType DEF IpAllowed
      <4>3. Cardinality(Settled(b)) < MaxPerIp
        BY <1>3, <4>1, <4>2
      <4>4. Entered(b)' \subseteq Settled(b) \cup {c}
        BY <2>2, <3>1 DEF Near
      <4> QED BY <1>3, <4>3, <4>4, OneMore, LimitsFinite
    <3>2. CASE b # a
      <4>1. Entered(b)' \subseteq Entered(b)
        BY <2>1, <3>2
      <4> QED BY <1>3, <1>4, <4>1, NoMore, LimitsFinite
    <3> QED BY <3>1, <3>2
  <2>4. \A e : Near(e, a) /\ Entered(e)' # {} => e \in IpsListed \/ e = a
    <3> SUFFICES ASSUME NEW e, Near(e, a), Entered(e)' # {}, e # a PROVE Settled(e) # {}
      BY SettledListed
    <3>1. c \notin Entered(e)'
      BY DEF Entered
    <3> QED BY <2>2, <3>1
  <2>5. Cardinality(Occupied24(b)') <= Max24
    <3>1. CASE Subnet24[b] = Subnet24[a]
      <4> DEFINE S == {e \in IpsListed : Subnet24[e] = Subnet24[a]}
      <4>1. Cardinality(S) < Max24
        BY <1>6 DEF SubnetAllowed
      <4>2. IsFiniteSet(S)
        <5>1. S \subseteq Ip
          BY DEF IpsListed, Ip
        <5> QED BY <5>1, LimitsFinite, FS_Subset
      <4>3. Occupied24(b)' \subseteq S \cup {a}
        BY <2>4, <3>1 DEF Occupied24, Near
      <4> HIDE DEF S, a
      <4> QED BY <1>3, <4>1, <4>2, <4>3, OneMore
    <3>2. CASE Subnet24[b] # Subnet24[a]
      <4>1. Occupied24(b)' \subseteq Occupied24(b)
        BY <2>1, <3>2 DEF Occupied24
      <4> QED BY <1>3, <1>4, <4>1, NoMore, LimitsFinite
    <3> QED BY <3>1, <3>2
  <2>6. Cardinality(Occupied16(b)') <= Max16
    <3>1. CASE Subnet16[b] = Subnet16[a]
      <4> DEFINE S == {e \in IpsListed : Subnet16[e] = Subnet16[a]}
      <4>1. Cardinality(S) < Max16
        BY <1>6 DEF SubnetAllowed
      <4>2. IsFiniteSet(S)
        <5>1. S \subseteq Ip
          BY DEF IpsListed, Ip
        <5> QED BY <5>1, LimitsFinite, FS_Subset
      <4>3. Occupied16(b)' \subseteq S \cup {a}
        BY <2>4, <3>1 DEF Occupied16, Near
      <4> HIDE DEF S, a
      <4> QED BY <1>3, <4>1, <4>2, <4>3, OneMore
    <3>2. CASE Subnet16[b] # Subnet16[a]
      <4>1. Occupied16(b)' \subseteq Occupied16(b)
        BY <2>1, <3>2 DEF Occupied16
      <4> QED BY <1>3, <1>4, <4>1, NoMore, LimitsFinite
    <3> QED BY <3>1, <3>2
  <2> QED BY <2>3, <2>5, <2>6
<1> QED BY <1>5, <1>6

\* All other steps let nobody in.
LEMMA LimitedKept ==
  ASSUME Tasks, Tables, Listed, Limited, NEW c \in Conn,
         Loop(c) \/ Writer(c) \/ Reader(c) \/ Environment(c)
  PROVE  Limited'
<1>1. CASE Accept(c)
  BY <1>1, LimitedAccept
<1>2. CASE ~ Accept(c)
  <2> SUFFICES ASSUME NEW b \in Ip
               PROVE  /\ Cardinality(Entered(b)') <= MaxPerIp
                      /\ Cardinality(Occupied24(b)') <= Max24
                      /\ Cardinality(Occupied16(b)') <= Max16
    BY DEF Limited
  <2>1. /\ unseen \subseteq unseen'
        /\ \A d \in Inbound : stage'[d] \in Inside => stage[d] \in Inside
    BY <1>2, OnlyAcceptAdmits
  <2>2. \A e : Entered(e)' \subseteq Entered(e)
    BY <2>1 DEF Entered
  <2>3. /\ Entered(b)' \subseteq Entered(b)
        /\ Occupied24(b)' \subseteq Occupied24(b) /\ Occupied16(b)' \subseteq Occupied16(b)
    BY <2>2 DEF Occupied24, Occupied16
  <2>4. {MaxPerIp, Max24, Max16} \subseteq Nat
    BY ConstantsTyped
  <2> QED BY <2>1, <2>3, <2>4, NoMore, LimitsFinite DEF Limited
<1> QED BY <1>1, <1>2

\* The limits follow for the connections that are registered.
LEMMA LimitedImplies == Limited => AdmissionLimits
<1> SUFFICES ASSUME Limited, NEW a \in Ip
      PROVE  /\ Cardinality(Guests(a)) <= MaxPerIp
             /\ Cardinality({b \in Ip : Subnet24[b] = Subnet24[a] /\ Guests(b) # {}}) <= Max24
             /\ Cardinality({b \in Ip : Subnet16[b] = Subnet16[a] /\ Guests(b) # {}}) <= Max16
  BY DEF AdmissionLimits
<1>1. \A b : Guests(b) \subseteq Entered(b)
  BY DEF Guests, Entered, Alive, Inside, Charged
<1>2. /\ Guests(a) \subseteq Entered(a)
      /\ {b \in Ip : Subnet24[b] = Subnet24[a] /\ Guests(b) # {}} \subseteq Occupied24(a)
      /\ {b \in Ip : Subnet16[b] = Subnet16[a] /\ Guests(b) # {}} \subseteq Occupied16(a)
  BY <1>1 DEF Occupied24, Occupied16
<1>3. {MaxPerIp, Max24, Max16} \subseteq Nat
  BY ConstantsTyped
<1>4. /\ Cardinality(Entered(a)) <= MaxPerIp /\ Cardinality(Occupied24(a)) <= Max24
      /\ Cardinality(Occupied16(a)) <= Max16
  BY DEF Limited
<1> QED BY <1>2, <1>3, <1>4, NoMore, LimitsFinite

LInv == IInv /\ Listed /\ Limited

\* Nobody is inside at first.
LEMMA LInvInit == Init => LInv
<1> SUFFICES ASSUME Init PROVE LInv
  OBVIOUS
<1>1. Listed
  <2>1. \A i : Paid(i) = {}
    BY LimitsFinite DEF Init, Paid, Charged
  <2>2. Cardinality({}) = 0
    BY FS_EmptySet
  <2>3. ASSUME NEW i \in Id PROVE Cardinality(Paid(i)) <= ips[i]
    <3>1. Cardinality(Paid(i)) = 0
      BY <2>1, <2>2, Zenon
    <3>2. ips[i] = 0
      BY DEF Init
    <3> QED BY <3>1, <3>2
  <2> QED BY <2>3, LimitsFinite DEF Init, Listed
<1>2. \A b : Entered(b) = {}
  BY LimitsFinite DEF Init, Entered, Inside, Charged
<1>3. \A b : Occupied24(b) = {} /\ Occupied16(b) = {}
  BY <1>2 DEF Occupied24, Occupied16
<1>4. {MaxPerIp, Max24, Max16} \subseteq Nat /\ Cardinality({}) = 0
  BY ConstantsTyped, FS_EmptySet
<1>5. Limited
  BY <1>2, <1>3, <1>4 DEF Limited
<1> QED BY <1>1, <1>5, IInvInit DEF LInv

\* The invariant of the limits is inductive.
LEMMA LInvInductive == LInv /\ [Next]_vars => LInv'
<1> SUFFICES ASSUME LInv, [Next]_vars PROVE LInv'
  OBVIOUS
<1>1. IInv' /\ IInv /\ Listed /\ Limited
  BY IInvInductive DEF LInv
<1>2. Tasks /\ Tables
  BY <1>1, TypeParts, Zenon DEF IInv
<1>3. CASE Next
  <2>1. PICK c \in Conn : Loop(c) \/ Writer(c) \/ Reader(c) \/ Environment(c)
    BY <1>3, Zenon DEF Next
  <2> QED BY <1>1, <1>2, <2>1, ListedKept, LimitedKept, Zenon DEF LInv
<1>4. CASE UNCHANGED vars
  <2>1. stage' = stage /\ ips' = ips /\ unseen' = unseen
    BY <1>4 DEF vars
  <2>2. Listed'
    BY <1>1, <2>1 DEF Listed, Paid
  <2>3. Limited'
    BY <1>1, <2>1 DEF Limited, Entered, Occupied24, Occupied16
  <2> QED BY <1>1, <2>2, <2>3 DEF LInv
<1> QED BY <1>3, <1>4

\* Through disconnections, replaced connections, late removals and ids that are used
\* again, the limits hold for the inbound connections but those that an admission
\* nearby overtook on their way into peer_ips or whose entry the removal of another
\* connection of their id dropped, for any limits, addresses and subnets.
THEOREM LimitsRespected == Spec => []AdmissionLimits
<1>1. LInv => AdmissionLimits
  BY LimitedImplies DEF LInv
<1> QED BY <1>1, LInvInit, LInvInductive, PTL DEF Spec
=============================================================================
