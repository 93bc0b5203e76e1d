----------------------------- MODULE Nharp_proofs -----------------------------
(***************************************************************************)
(* Proofs about Nharp for any stations, links, addresses and capacity: its *)
(* types, that no entry mixes two stations or two links, and that whoever  *)
(* was answered is known.                                                  *)
(***************************************************************************)
EXTENDS Nharp, FiniteSetTheorems, SequenceTheorems, TLAPS

\* A port is a pair of a station and a link.
LEMMA PortPairs ==
  \A port \in Ports : /\ port = <<port[1], port[2]>>
                      /\ port[2] \in Links
                      /\ port \in DaemonPorts <=> port[1] \in Daemons
  BY StationAssumption DEF Links, DaemonPorts

\* What a frame under way claims was announced by a station of its link, and
\* it is under way to a daemon with a port there.
FramesSound ==
  \A f \in wire : /\ <<f.to, f.link>> \in DaemonPorts
                  /\ f.order = "be" =>
                       [link |-> f.link, node |-> f.node, mac |-> f.mac] \in announced

\* Every announcement is true of one port.
ClaimsTrue ==
  \A a \in announced : \E port \in Ports :
     port[2] = a.link /\ a.node \in NodesOf(port) /\ a.mac \in MacPool[port]

\* The entries of the tables; the third conjunct of CacheSound follows.
EntriesAnnounced ==
  \A d \in Daemons : \A key \in DOMAIN cache[d] :
     /\ <<d, key[1]>> \in Ports
     /\ [link |-> key[1], node |-> key[2], mac |-> cache[d][key]] \in announced

NharpInv == TypeOK /\ FramesSound /\ ClaimsTrue /\ EntriesAnnounced /\ AnsweredAreKnown

\* Frame f is on its way to a daemon of port's link, and claims that node is at port.
Carries(f, port, node) ==
  /\ f \in Frames
  /\ <<f.to, f.link>> \in DaemonPorts
  /\ [link |-> f.link, node |-> f.node, mac |-> f.mac]
       = [link |-> port[2], node |-> node, mac |-> mac[port]]

\* The copies of a frame carry the claim of their sender to daemons of the link.
LEMMA CopiesSound ==
  ASSUME PortTypes, NEW port \in Ports, NEW hear, NEW oper \in {"request", "reply"},
         NEW node \in NodeIds, NEW target \in NodeIds, NEW order \in {"le", "be"}
  PROVE  \A f \in Copies(port, hear, oper, node, target, order) : Carries(f, port, node)
<1> SUFFICES ASSUME NEW f \in Copies(port, hear, oper, node, target, order)
             PROVE  Carries(f, port, node)
  OBVIOUS
<1>1. PICK q \in DaemonPorts :
        /\ q[2] = port[2]
        /\ f = [to |-> q[1], link |-> port[2], order |-> order, oper |-> oper,
                node |-> node, mac |-> mac[port], target |-> target]
  BY DEF Copies
<1>2. q = <<q[1], q[2]>> /\ q[1] \in Daemons /\ port[2] \in Links /\ mac[port] \in Macs
  BY PortPairs DEF DaemonPorts, PortTypes
<1>3. f \in Frames
  BY <1>1, <1>2 DEF Frames
<1>4. f.to = q[1] /\ f.link = port[2] /\ f.node = node /\ f.mac = mac[port]
  BY <1>1
<1>5. <<f.to, f.link>> \in DaemonPorts
  BY <1>1, <1>2, <1>4
<1>6. QED BY <1>3, <1>4, <1>5 DEF Carries

\* A station that sends frames about itself keeps the wire and the claims sound.
LEMMA SendKeeps ==
  ASSUME NharpInv, NEW port \in Ports, NEW node \in NodesOf(port), NEW frames,
         \A f \in frames : Carries(f, port, node),
         wire' \subseteq wire \cup frames,
         announced' = announced \cup {[link |-> port[2], node |-> node, mac |-> mac[port]]},
         UNCHANGED changes
  PROVE  WireTypes' /\ FramesSound' /\ ClaimsTrue' /\ announced \subseteq announced'
<1> DEFINE claim == [link |-> port[2], node |-> node, mac |-> mac[port]]
<1>1. mac[port] \in Macs /\ mac[port] \in MacPool[port]
  BY DEF NharpInv, TypeOK, PortTypes
<1>2. node \in NodeIds /\ port[2] \in Links
  BY PortPairs DEF NodeIds
<1>3. claim \in Claims
  BY <1>1, <1>2 DEF Claims
<1>4. claim.link = port[2] /\ claim.node = node /\ claim.mac = mac[port]
  OBVIOUS
<1>5. WireTypes'
  BY <1>3 DEF NharpInv, TypeOK, WireTypes, Carries
<1>6. FramesSound'
  BY DEF NharpInv, FramesSound, Carries
<1>7. ClaimsTrue'
  <2> HIDE DEF claim
  <2>1. announced' = announced \cup {claim}
    BY DEF claim
  <2>2. QED BY <1>1, <1>4, <2>1 DEF NharpInv, ClaimsTrue
<1>8. QED BY <1>5, <1>6, <1>7

\* Storing the sender of a frame that was under way keeps the tables sound.
LEMMA InsertKeeps ==
  ASSUME NharpInv, NEW f \in wire, f.order = "be", Room(f.to, <<f.link, f.node>>),
         Insert(f.to, <<f.link, f.node>>, f.mac),
         announced \subseteq announced',
         answered' \in {answered, [answered EXCEPT ![f.to] = @ \cup {<<f.link, f.node>>}]}
  PROVE  TableTypes' /\ EntriesAnnounced' /\ AnsweredAreKnown'
<1> DEFINE key == <<f.link, f.node>>
<1> USE DEF NharpInv, TypeOK
<1>1. /\ f.to \in Daemons /\ f.link \in Links /\ f.node \in NodeIds /\ f.mac \in Macs
      /\ <<f.to, f.link>> \in Ports
      /\ [link |-> f.link, node |-> f.node, mac |-> f.mac] \in announced
  BY DEF WireTypes, Frames, FramesSound, DaemonPorts
<1>2. key \in Links \X NodeIds /\ key[1] = f.link /\ key[2] = f.node
  BY <1>1
<1> HIDE DEF key
<1>3. /\ DOMAIN cache' = Daemons
      /\ \A d \in Daemons : d # f.to => cache'[d] = cache[d]
      /\ DOMAIN cache'[f.to] = DOMAIN cache[f.to] \cup {key}
      /\ cache'[f.to][key] = f.mac
      /\ \A k \in DOMAIN cache[f.to] : k # key => cache'[f.to][k] = cache[f.to][k]
  BY <1>1 DEF Insert, TableTypes, key
<1>4. IsFiniteSet(DOMAIN cache'[f.to]) /\ Cardinality(DOMAIN cache'[f.to]) <= Capacity
  <2>1. CASE key \in DOMAIN cache[f.to]
    <3>1. DOMAIN cache'[f.to] = DOMAIN cache[f.to]
      BY <1>3, <2>1
    <3>2. QED BY <1>1, <3>1 DEF TableTypes
  <2>2. CASE key \notin DOMAIN cache[f.to]
    <3>1. Cardinality(DOMAIN cache[f.to]) < Capacity
      BY <2>2 DEF Room, key
    <3>2. IsFiniteSet(DOMAIN cache[f.to]) /\ Cardinality(DOMAIN cache[f.to]) \in Nat
      BY <1>1, FS_CardinalityType DEF TableTypes
    <3>3. /\ IsFiniteSet(DOMAIN cache[f.to] \cup {key})
          /\ Cardinality(DOMAIN cache[f.to] \cup {key}) = Cardinality(DOMAIN cache[f.to]) + 1
      BY <2>2, <3>2, FS_AddElement
    <3>4. QED BY <1>3, <3>1, <3>2, <3>3, BoundAssumption
  <2>3. QED BY <2>1, <2>2
<1>5. TableTypes'
  <2>1. answered' \in [Daemons -> SUBSET (Links \X NodeIds)]
    BY <1>1, <1>2 DEF TableTypes, key
  <2>2. QED BY <1>1, <1>2, <1>3, <1>4, <2>1 DEF TableTypes
<1>6. EntriesAnnounced'
  <2> SUFFICES ASSUME NEW d \in Daemons, NEW k \in DOMAIN cache'[d]
               PROVE  /\ <<d, k[1]>> \in Ports
                      /\ [link |-> k[1], node |-> k[2], mac |-> cache'[d][k]] \in announced
    BY DEF EntriesAnnounced
  <2>1. CASE d = f.to /\ k = key
    BY <1>1, <1>2, <1>3, <2>1
  <2>2. CASE d # f.to \/ k # key
    BY <1>3, <2>2 DEF EntriesAnnounced
  <2>3. QED BY <2>1, <2>2
<1>7. AnsweredAreKnown'
  BY <1>1, <1>3 DEF AnsweredAreKnown, TableTypes, key
<1>8. QED BY <1>5, <1>6, <1>7

LEMMA InitNharp == Init => NharpInv
<1> SUFFICES ASSUME Init PROVE NharpInv
  OBVIOUS
<1>1. PortTypes
  BY PoolAssumption DEF Init, PortTypes
<1>2. TableTypes
  BY FS_EmptySet, BoundAssumption DEF Init, TableTypes
<1>3. WireTypes
  BY BoundAssumption DEF Init, WireTypes
<1>4. FramesSound /\ ClaimsTrue /\ EntriesAnnounced /\ AnsweredAreKnown
  BY DEF Init, FramesSound, ClaimsTrue, EntriesAnnounced, AnsweredAreKnown
<1>5. QED BY <1>1, <1>2, <1>3, <1>4 DEF NharpInv, TypeOK

LEMMA PortsUnchanged ==
  ASSUME PortTypes, UNCHANGED <<mac, addrs>>  PROVE PortTypes'
  BY DEF PortTypes

LEMMA TablesUnchanged ==
  ASSUME NharpInv, UNCHANGED <<cache, answered>>, announced \subseteq announced'
  PROVE  TableTypes' /\ EntriesAnnounced' /\ AnsweredAreKnown'
  BY DEF NharpInv, TypeOK, TableTypes, EntriesAnnounced, AnsweredAreKnown

LEMMA FramesConsumed ==
  ASSUME NharpInv, wire' \subseteq wire, UNCHANGED announced, changes' \in 0..MaxChanges
  PROVE  WireTypes' /\ FramesSound' /\ ClaimsTrue'
  BY DEF NharpInv, TypeOK, WireTypes, FramesSound, ClaimsTrue

\* A request is sent on behalf of an address of the port.
LEMMA RequestKeeps ==
  ASSUME NharpInv, NEW port \in DaemonPorts, NEW node \in NodeIds, NEW net \in Nets,
         Request(port, node, net)
  PROVE  NharpInv'
<1>1. PICK i \in DOMAIN addrs[port] :
        Transmit(port, Copies(port, Everyone, "request", addrs[port][i].node, node, "le"),
                 addrs[port][i].node)
  BY DEF Request, Senders
<1> DEFINE own == addrs[port][i].node
           frames == Copies(port, Everyone, "request", own, node, "le")
<1>2. port \in Ports /\ own \in NodesOf(port) /\ own \in NodeIds
  <2>1. port \in Ports /\ addrs[port] \in Seq(Pool[port])
    BY DEF DaemonPorts, NharpInv, TypeOK, PortTypes
  <2>2. addrs[port][i] \in Pool[port]
    BY <2>1
  <2>3. QED BY <2>1, <2>2 DEF NodesOf, NodeIds
<1> HIDE DEF own
<1>3. \A f \in frames : Carries(f, port, own)
  BY <1>2, CopiesSound DEF NharpInv, TypeOK
<1>4. /\ wire' \subseteq wire \cup frames
      /\ announced' = announced \cup {[link |-> port[2], node |-> own, mac |-> mac[port]]}
      /\ UNCHANGED <<mac, addrs, cache, answered, changes>>
  BY <1>1 DEF Transmit, Request, own
<1> HIDE DEF frames
<1>5. WireTypes' /\ FramesSound' /\ ClaimsTrue' /\ announced \subseteq announced'
  BY <1>2, <1>3, <1>4, SendKeeps
<1>6. QED BY <1>4, <1>5, PortsUnchanged, TablesUnchanged DEF NharpInv, TypeOK

\* A peer is truthful about itself.
LEMMA PeerKeeps ==
  ASSUME NharpInv, NEW port \in Ports, NEW oper \in {"request", "reply"},
         NEW node \in NodeIds, NEW target \in NodeIds, PeerSend(port, oper, node, target)
  PROVE  NharpInv'
<1> DEFINE frames == Copies(port, Everyone, oper, node, target, "be")
<1>1. /\ node \in NodesOf(port)
      /\ wire' \subseteq wire \cup frames
      /\ announced' = announced \cup {[link |-> port[2], node |-> node, mac |-> mac[port]]}
      /\ UNCHANGED <<mac, addrs, cache, answered, changes>>
  BY DEF PeerSend, Transmit, NodesOf
<1>2. \A f \in frames : Carries(f, port, node)
  BY CopiesSound DEF NharpInv, TypeOK
<1> HIDE DEF frames
<1>3. WireTypes' /\ FramesSound' /\ ClaimsTrue' /\ announced \subseteq announced'
  BY <1>1, <1>2, SendKeeps
<1>4. QED BY <1>1, <1>3, PortsUnchanged, TablesUnchanged DEF NharpInv, TypeOK

\* handle_nharp, with its error path and with or without a reply.
LEMMA ReceiveKeeps ==
  ASSUME NharpInv, NEW f \in wire, Receive(f)
  PROVE  NharpInv'
<1>0. changes \in 0..MaxChanges
  BY DEF NharpInv, TypeOK, WireTypes
<1>1. CASE Ignore(f) \/ Refuse(f)
  BY <1>0, <1>1, FramesConsumed, PortsUnchanged, TablesUnchanged
     DEF Ignore, Refuse, NharpInv, TypeOK
<1>2. CASE Learn(f)
  BY <1>0, <1>2, FramesConsumed, PortsUnchanged, InsertKeeps DEF Learn, NharpInv, TypeOK
<1>3. CASE LearnAndReply(f)
  <2> DEFINE port == <<f.to, f.link>>
             frames == Copies(port, Holding(f.mac), "reply", f.target, f.node, "le")
  <2>1. /\ wire' \subseteq wire \cup frames
        /\ announced' = announced \cup {[link |-> f.link, node |-> f.target, mac |-> mac[port]]}
        /\ UNCHANGED <<mac, addrs, changes>>
        /\ f.order = "be" /\ Room(f.to, <<f.link, f.node>>)
        /\ Insert(f.to, <<f.link, f.node>>, f.mac)
        /\ answered' = [answered EXCEPT ![f.to] = @ \cup {<<f.link, f.node>>}]
        /\ IsMyNodeId(port, f.target)
    BY <1>3 DEF LearnAndReply
  <2>2. port \in DaemonPorts /\ port \in Ports /\ f.node \in NodeIds /\ f.target \in NodeIds
    BY DEF NharpInv, TypeOK, WireTypes, Frames, FramesSound, DaemonPorts
  <2>3. f.target \in NodesOf(port)
    <3>1. PICK i \in DOMAIN addrs[port] : addrs[port][i].node = f.target
      BY <2>1 DEF IsMyNodeId
    <3>2. addrs[port] \in Seq(Pool[port])
      BY <2>2 DEF NharpInv, TypeOK, PortTypes
    <3>3. addrs[port][i] \in Pool[port]
      BY <3>1, <3>2
    <3>4. QED BY <3>1, <3>3 DEF NodesOf
  <2>4. port[2] = f.link
    OBVIOUS
  <2> HIDE DEF port
  <2>5. \A g \in frames : Carries(g, port, f.target)
    BY <2>2, CopiesSound DEF NharpInv, TypeOK
  <2> HIDE DEF frames
  <2>6. WireTypes' /\ FramesSound' /\ ClaimsTrue' /\ announced \subseteq announced'
    BY <2>1, <2>2, <2>3, <2>4, <2>5, SendKeeps
  <2>7. TableTypes' /\ EntriesAnnounced' /\ AnsweredAreKnown'
    BY <2>1, <2>6, InsertKeeps
  <2>8. QED BY <2>1, <2>6, <2>7, PortsUnchanged DEF NharpInv, TypeOK
<1>4. QED BY <1>1, <1>2, <1>3 DEF Receive

\* Changes of MACs and addresses, and restarts.
LEMMA PrefixIsSeq ==
  ASSUME NEW S, NEW s \in Seq(S), NEW n \in 0..Len(s)
  PROVE  SubSeq(s, 1, n) \in Seq(S)
<1>1. \A k \in 1..n : s[k] \in S
  OBVIOUS
<1>2. 1 \in Int /\ n \in Int
  OBVIOUS
<1>3. QED BY <1>1, <1>2, SubSeqProperties

LEMMA SuffixIsSeq ==
  ASSUME NEW S, NEW s \in Seq(S), NEW n \in 1..(Len(s) + 1)
  PROVE  SubSeq(s, n, Len(s)) \in Seq(S)
<1>1. \A k \in n..Len(s) : s[k] \in S
  OBVIOUS
<1>2. n \in Int /\ Len(s) \in Int
  OBVIOUS
<1>3. QED BY <1>1, <1>2, SubSeqProperties

LEMMA ChangeKeeps ==
  ASSUME NharpInv,
         \/ \E port \in Ports : ChangeMac(port)
         \/ \E port \in DaemonPorts : \E a \in Pool[port] :
               AddAddress(port, a) \/ DeleteAddress(port, a)
  PROVE  NharpInv'
<1> USE BoundAssumption DEF NharpInv, TypeOK
<1>1. UNCHANGED <<cache, wire, announced, answered>> /\ changes' \in 0..MaxChanges
  BY DEF ChangeMac, AddAddress, DeleteAddress, WireTypes
<1>2. PortTypes'
  <2>1. ASSUME NEW port \in Ports, ChangeMac(port) PROVE PortTypes'
    BY <2>1, PoolAssumption DEF ChangeMac, PortTypes
  <2>2. ASSUME NEW port \in DaemonPorts, NEW a \in Pool[port], AddAddress(port, a)
        PROVE  PortTypes'
    <3>1. addrs[port] \in Seq(Pool[port]) /\ Append(addrs[port], a) \in Seq(Pool[port])
      BY DEF PortTypes
    <3>2. addrs' = [addrs EXCEPT ![port] = Append(addrs[port], a)] /\ mac' = mac
      BY <2>2 DEF AddAddress
    <3>3. QED BY <3>1, <3>2 DEF PortTypes
  <2>3. ASSUME NEW port \in DaemonPorts, NEW a \in Pool[port], DeleteAddress(port, a)
        PROVE  PortTypes'
    <3>1. PICK i \in DOMAIN addrs[port] :
            addrs' = [addrs EXCEPT ![port] =
                        SubSeq(@, 1, i - 1) \o SubSeq(@, i + 1, Len(@))]
      BY <2>3 DEF DeleteAddress
    <3>2. addrs[port] \in Seq(Pool[port]) /\ i \in 1..Len(addrs[port])
      BY DEF PortTypes
    <3>3. SubSeq(addrs[port], 1, i - 1) \o SubSeq(addrs[port], i + 1, Len(addrs[port]))
            \in Seq(Pool[port])
      <4> DEFINE list == addrs[port]
      <4>1. list \in Seq(Pool[port]) /\ i - 1 \in 0..Len(list) /\ i + 1 \in 1..(Len(list) + 1)
        BY <3>2
      <4> HIDE DEF list
      <4>2. SubSeq(list, 1, i - 1) \in Seq(Pool[port])
        BY <4>1, PrefixIsSeq
      <4>3. SubSeq(list, i + 1, Len(list)) \in Seq(Pool[port])
        BY <4>1, SuffixIsSeq
      <4>4. QED BY <4>2, <4>3, ConcatProperties DEF list
    <3>4. mac' = mac
      BY <2>3 DEF DeleteAddress
    <3>5. QED BY <3>1, <3>3, <3>4 DEF PortTypes
  <2>4. QED BY <2>1, <2>2, <2>3
<1>3. QED BY <1>1, <1>2, FramesConsumed, TablesUnchanged

LEMMA RestartKeeps ==
  ASSUME NharpInv, NEW d \in Daemons, Restart(d)
  PROVE  NharpInv'
<1> USE BoundAssumption DEF NharpInv, TypeOK
<1>1. UNCHANGED <<mac, addrs, wire, announced>> /\ changes' \in 0..MaxChanges
  BY DEF Restart, WireTypes
<1>2. TableTypes'
  BY FS_EmptySet DEF Restart, TableTypes
<1>3. EntriesAnnounced' /\ AnsweredAreKnown'
  BY DEF Restart, TableTypes, EntriesAnnounced, AnsweredAreKnown
<1>4. QED BY <1>1, <1>2, <1>3, FramesConsumed, PortsUnchanged

LEMMA NextNharp == NharpInv /\ [Next]_vars => NharpInv'
<1> SUFFICES ASSUME NharpInv, [Next]_vars PROVE NharpInv'
  OBVIOUS
<1>1. CASE \E port \in DaemonPorts, node \in NodeIds, net \in Nets : Request(port, node, net)
  BY <1>1, RequestKeeps
<1>2. CASE \E f \in wire : Receive(f)
  BY <1>2, ReceiveKeeps
<1>3. CASE \E f \in wire : Lose(f)
  <2>1. changes \in 0..MaxChanges
    BY DEF NharpInv, TypeOK, WireTypes
  <2>2. QED BY <1>3, <2>1, FramesConsumed, PortsUnchanged, TablesUnchanged
            DEF Lose, NharpInv, TypeOK
<1>4. CASE \E port \in Ports, oper \in {"request", "reply"}, node, target \in NodeIds :
             PeerSend(port, oper, node, target)
  BY <1>4, PeerKeeps
<1>5. CASE \/ \E port \in Ports : ChangeMac(port)
           \/ \E port \in DaemonPorts : \E a \in Pool[port] :
                 AddAddress(port, a) \/ DeleteAddress(port, a)
  BY <1>5, ChangeKeeps
<1>6. CASE \E d \in Daemons : Restart(d)
  BY <1>6, RestartKeeps
<1>7. CASE UNCHANGED vars
  <2>1. changes \in 0..MaxChanges
    BY DEF NharpInv, TypeOK, WireTypes
  <2>2. QED BY <1>7, <2>1, FramesConsumed, PortsUnchanged, TablesUnchanged
            DEF vars, NharpInv, TypeOK
<1>8. QED BY <1>1, <1>2, <1>3, <1>4, <1>5, <1>6, <1>7 DEF Next

LEMMA NharpInvariance == Spec => []NharpInv
  BY InitNharp, NextNharp, PTL DEF Spec

\* Types, and the capacity of nharp_table.
THEOREM NharpTypeCorrect == Spec => []TypeOK
<1>1. NharpInv => TypeOK
  BY DEF NharpInv
<1>2. QED BY <1>1, NharpInvariance, PTL

\* No entry mixes two stations or two links, for any number of both.
THEOREM NharpCacheSound == Spec => []CacheSound
<1>1. NharpInv => CacheSound
  <2> SUFFICES ASSUME NharpInv, NEW d \in Daemons, NEW key \in DOMAIN cache[d]
               PROVE  /\ <<d, key[1]>> \in Ports
                      /\ [link |-> key[1], node |-> key[2], mac |-> cache[d][key]] \in announced
                      /\ \E port \in Ports : /\ port[2] = key[1]
                                             /\ key[2] \in NodesOf(port)
                                             /\ cache[d][key] \in MacPool[port]
    BY DEF CacheSound
  <2> DEFINE claim == [link |-> key[1], node |-> key[2], mac |-> cache[d][key]]
  <2>1. <<d, key[1]>> \in Ports /\ claim \in announced
    BY DEF NharpInv, EntriesAnnounced
  <2>2. claim.link = key[1] /\ claim.node = key[2] /\ claim.mac = cache[d][key]
    OBVIOUS
  <2> HIDE DEF claim
  <2>3. \E port \in Ports : /\ port[2] = key[1]
                            /\ key[2] \in NodesOf(port)
                            /\ cache[d][key] \in MacPool[port]
    BY <2>1, <2>2 DEF NharpInv, ClaimsTrue
  <2>4. QED BY <2>1, <2>3 DEF claim
<1>2. QED BY <1>1, NharpInvariance, PTL

\* Whoever was answered has an entry, as long as the daemon runs.
THEOREM NharpAnsweredAreKnown == Spec => []AnsweredAreKnown
<1>1. NharpInv => AnsweredAreKnown
  BY DEF NharpInv
<1>2. QED BY <1>1, NharpInvariance, PTL

-----------------------------------------------------------------------------
(* What the byte order of the ether type means for daemons among themselves *)

\* A port of a station that does not run this code.
PeerPorts == {port \in Ports : port[1] \in Peers}

\* A claim is true of a port of such a station.
OfPeer(link, node, m) ==
  \E port \in PeerPorts : port[2] = link /\ node \in NodesOf(port) /\ m \in MacPool[port]

\* Every frame that the receiver does not ignore comes from such a station.
HeardFromPeers == \A f \in wire : f.order = "be" => OfPeer(f.link, f.node, f.mac)

\* A daemon learns from such stations only, and answers no other.
LearnsFromPeers ==
  \A d \in Daemons :
     /\ \A key \in DOMAIN cache[d] : OfPeer(key[1], key[2], cache[d][key])
     /\ \A key \in answered[d] : \E m \in Macs : OfPeer(key[1], key[2], m)

PeerInv == HeardFromPeers /\ LearnsFromPeers

\* The order and the claim of a frame are those it is sent with.
LEMMA CopiesOrder ==
  ASSUME NEW port, NEW hear, NEW oper, NEW node, NEW target, NEW order
  PROVE  \A f \in Copies(port, hear, oper, node, target, order) :
            f.order = order /\ f.link = port[2] /\ f.node = node /\ f.mac = mac[port]
  BY DEF Copies

\* What daemons send is not heard by daemons.
LEMMA NobodyHears ==
  ASSUME HeardFromPeers, NEW frames, \A f \in frames : f.order = "le",
         wire' \subseteq wire \cup frames
  PROVE  HeardFromPeers'
  BY DEF HeardFromPeers, OfPeer

LEMMA StillLearned ==
  ASSUME LearnsFromPeers, UNCHANGED <<cache, answered>>
  PROVE  LearnsFromPeers'
  BY DEF LearnsFromPeers, OfPeer

\* handle_nharp stores, and answers, only what it has heard.
LEMMA HeardIsLearned ==
  ASSUME NharpInv, PeerInv, NEW f \in wire, f.order = "be",
         Insert(f.to, <<f.link, f.node>>, f.mac),
         answered' \in {answered, [answered EXCEPT ![f.to] = @ \cup {<<f.link, f.node>>}]}
  PROVE  LearnsFromPeers'
<1> DEFINE key == <<f.link, f.node>>
<1>1. f.to \in Daemons /\ f.mac \in Macs /\ OfPeer(f.link, f.node, f.mac)
  BY DEF NharpInv, TypeOK, WireTypes, Frames, PeerInv, HeardFromPeers
<1>2. key[1] = f.link /\ key[2] = f.node
  OBVIOUS
<1> HIDE DEF key
<1>3. /\ \A d \in Daemons : d # f.to => cache'[d] = cache[d]
      /\ DOMAIN cache'[f.to] = DOMAIN cache[f.to] \cup {key}
      /\ cache'[f.to][key] = f.mac
      /\ \A k \in DOMAIN cache[f.to] : k # key => cache'[f.to][k] = cache[f.to][k]
  BY <1>1 DEF Insert, NharpInv, TypeOK, TableTypes, key
<1>4. \A d \in Daemons : answered'[d] \subseteq answered[d] \cup (IF d = f.to THEN {key} ELSE {})
  BY <1>1 DEF NharpInv, TypeOK, TableTypes, key
<1>5. SUFFICES ASSUME NEW d \in Daemons
               PROVE  /\ \A k \in DOMAIN cache'[d] : OfPeer(k[1], k[2], cache'[d][k])
                      /\ \A k \in answered'[d] : \E m \in Macs : OfPeer(k[1], k[2], m)
  BY DEF LearnsFromPeers, OfPeer
<1>6. ASSUME NEW k \in DOMAIN cache'[d] PROVE OfPeer(k[1], k[2], cache'[d][k])
  <2>1. CASE d = f.to /\ k = key
    BY <1>1, <1>2, <1>3, <2>1
  <2>2. CASE d # f.to \/ k # key
    BY <1>3, <2>2 DEF PeerInv, LearnsFromPeers
  <2>3. QED BY <2>1, <2>2
<1>7. ASSUME NEW k \in answered'[d] PROVE \E m \in Macs : OfPeer(k[1], k[2], m)
  <2>1. CASE k = key
    BY <1>1, <1>2, <2>1
  <2>2. CASE k # key
    BY <1>4, <2>2 DEF PeerInv, LearnsFromPeers
  <2>3. QED BY <2>1, <2>2
<1>8. QED BY <1>6, <1>7

LEMMA ReceiveFromPeers ==
  ASSUME NharpInv, PeerInv, NEW f \in wire, Receive(f)
  PROVE  PeerInv'
<1>1. CASE Ignore(f) \/ Refuse(f)
  BY <1>1, StillLearned DEF Ignore, Refuse, PeerInv, HeardFromPeers, OfPeer
<1>2. CASE Learn(f)
  <2>1. HeardFromPeers'
    BY <1>2 DEF Learn, PeerInv, HeardFromPeers, OfPeer
  <2>2. QED BY <1>2, <2>1, HeardIsLearned DEF Learn, PeerInv
<1>3. CASE LearnAndReply(f)
  <2> DEFINE frames == Copies(<<f.to, f.link>>, Holding(f.mac), "reply", f.target, f.node, "le")
  <2>1. wire' \subseteq wire \cup frames
    BY <1>3 DEF LearnAndReply
  <2>2. \A g \in frames : g.order = "le"
    BY CopiesOrder
  <2> HIDE DEF frames
  <2>3. HeardFromPeers'
    BY <2>1, <2>2, NobodyHears DEF PeerInv
  <2>4. QED BY <1>3, <2>3, HeardIsLearned DEF LearnAndReply, PeerInv
<1>4. QED BY <1>1, <1>2, <1>3 DEF Receive

LEMMA PeersAreHeard ==
  ASSUME NharpInv, PeerInv, NEW port \in Ports, NEW oper, NEW node, NEW target,
         PeerSend(port, oper, node, target)
  PROVE  PeerInv'
<1> DEFINE frames == Copies(port, Everyone, oper, node, target, "be")
<1>1. /\ port \in PeerPorts /\ node \in NodesOf(port) /\ mac[port] \in MacPool[port]
      /\ wire' \subseteq wire \cup frames
      /\ UNCHANGED <<cache, answered>>
  BY DEF PeerSend, Transmit, PeerPorts, NodesOf, NharpInv, TypeOK, PortTypes
<1>2. \A f \in frames : OfPeer(f.link, f.node, f.mac)
  BY <1>1, CopiesOrder DEF OfPeer
<1> HIDE DEF frames
<1>3. HeardFromPeers'
  BY <1>1, <1>2 DEF PeerInv, HeardFromPeers, OfPeer
<1>4. QED BY <1>1, <1>3, StillLearned DEF PeerInv

LEMMA NextPeer == NharpInv /\ PeerInv /\ [Next]_vars => PeerInv'
<1> SUFFICES ASSUME NharpInv, PeerInv, [Next]_vars PROVE PeerInv'
  OBVIOUS
<1>1. ASSUME NEW port \in DaemonPorts, NEW node \in NodeIds, NEW net \in Nets,
             Request(port, node, net)
      PROVE  PeerInv'
  <2>1. PICK own \in Senders(port, net) :
          Transmit(port, Copies(port, Everyone, "request", own, node, "le"), own)
    BY <1>1 DEF Request
  <2> DEFINE frames == Copies(port, Everyone, "request", own, node, "le")
  <2>2. wire' \subseteq wire \cup frames /\ UNCHANGED <<cache, answered>>
    BY <1>1, <2>1 DEF Transmit, Request
  <2>3. \A g \in frames : g.order = "le"
    BY CopiesOrder
  <2> HIDE DEF frames
  <2>4. QED BY <2>2, <2>3, NobodyHears, StillLearned DEF PeerInv
<1>2. CASE \E f \in wire : Receive(f)
  BY <1>2, ReceiveFromPeers
<1>3. ASSUME wire' \subseteq wire, UNCHANGED <<cache, answered>> PROVE PeerInv'
  BY <1>3, StillLearned DEF PeerInv, HeardFromPeers, OfPeer
<1>4. CASE \E f \in wire : Lose(f)
  BY <1>3, <1>4 DEF Lose
<1>5. CASE \E port \in Ports, oper \in {"request", "reply"}, node, target \in NodeIds :
             PeerSend(port, oper, node, target)
  BY <1>5, PeersAreHeard
<1>6. CASE \/ \E port \in Ports : ChangeMac(port)
           \/ \E port \in DaemonPorts : \E a \in Pool[port] :
                 AddAddress(port, a) \/ DeleteAddress(port, a)
  BY <1>3, <1>6 DEF ChangeMac, AddAddress, DeleteAddress
<1>7. CASE \E d \in Daemons : Restart(d)
  BY <1>7 DEF Restart, NharpInv, TypeOK, TableTypes, PeerInv, HeardFromPeers, LearnsFromPeers,
              OfPeer
<1>8. CASE UNCHANGED vars
  BY <1>3, <1>8 DEF vars
<1>9. QED BY <1>1, <1>2, <1>4, <1>5, <1>6, <1>7, <1>8 DEF Next

\* However many daemons there are, whatever they ask each other and for however
\* long: what a daemon knows and whom it answers are stations with other software,
\* since the ether type is written in little-endian order (nhip-cfg/src/lib.rs:159)
\* and read in network order (nhipd/src/daemon.rs:222).
THEOREM DaemonsLearnFromPeersOnly == Spec => []LearnsFromPeers
<1>1. Init => PeerInv
  BY DEF Init, PeerInv, HeardFromPeers, LearnsFromPeers
<1>2. PeerInv => LearnsFromPeers
  BY DEF PeerInv
<1>3. QED BY <1>1, <1>2, NextPeer, NharpInvariance, PTL DEF Spec

\* Daemons alone on their links resolve nobody and answer nobody.
THEOREM DaemonsAloneResolveNothing ==
  ASSUME Peers = {}
  PROVE  Spec => [](\A d \in Daemons : DOMAIN cache[d] = {} /\ answered[d] = {})
<1>1. LearnsFromPeers => \A d \in Daemons : DOMAIN cache[d] = {} /\ answered[d] = {}
  BY DEF LearnsFromPeers, OfPeer, PeerPorts
<1>2. QED BY <1>1, DaemonsLearnFromPeersOnly, PTL
=============================================================================
