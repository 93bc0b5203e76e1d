-------------------------------- MODULE Nharp --------------------------------
(***************************************************************************)
(* Neighbour resolution (NHARP) of the daemons of one network.  A port     *)
(* <<s, l>> is the interface of station s on link l; the daemon's ifindex  *)
(* stands for its port.  Every daemon keeps the eBPF map nharp_table from  *)
(* (ifindex, NodeID) to a MAC address: it is filled by handle_nharp, read  *)
(* by nharp_lookup and never emptied.                                      *)
(*                                                                         *)
(* build_eth_header writes the ether type in little-endian order ("le"),   *)
(* recv_handler reads it in network order ("be").  Peers are stations that *)
(* do not run this code and put it in network order: they are external,    *)
(* and send any request or reply at any time, truthful about themselves.   *)
(***************************************************************************)
EXTENDS Naturals, Sequences, FiniteSets

CONSTANTS Daemons, Peers, \* the stations
          Ports,          \* the station-link pairs that exist
          Macs, MacPool,  \* MacPool[port]: MACs the port may get
          Pool,           \* Pool[port]: addresses that may be configured on it
          StartAddrs,     \* StartAddrs[port]: a daemon's configuration at first
          Capacity,       \* entries that nharp_table holds (8192)
          MaxWire,        \* bound: frames under way at one time
          MaxChanges      \* bound: changes of addresses and MACs, restarts

Links == {port[2] : port \in Ports}
DaemonPorts == {port \in Ports : port[1] \in Daemons}
NodesOf(port) == {a.node : a \in Pool[port]}
NodeIds == UNION {NodesOf(port) : port \in Ports}
Nets == UNION {{a.net : a \in Pool[port]} : port \in Ports}

ASSUME StationAssumption ==
  /\ Ports \subseteq (Daemons \cup Peers) \X Links
  /\ Daemons \cap Peers = {}

ASSUME PoolAssumption ==
  /\ MacPool \in [Ports -> SUBSET Macs]
  /\ StartAddrs \in [DaemonPorts -> UNION {Seq(Pool[port]) : port \in Ports}]
  /\ \A port \in DaemonPorts : StartAddrs[port] \in Seq(Pool[port])

ASSUME BoundAssumption == Capacity \in Nat /\ MaxWire \in Nat /\ MaxChanges \in Nat

VARIABLES mac,       \* mac[port]: current MAC (/sys/class/net/*/address)
          addrs,     \* addrs[port]: addresses of the interface in addresses.conf, in order
          cache,     \* cache[d]: nharp_table of daemon d
          wire,      \* copies of frames on their way to a daemon
          announced, \* history: who was said to be where, by the stations themselves
          answered,  \* history: requesters that daemon d has sent a reply
          changes    \* number of changes so far

vars == <<mac, addrs, cache, wire, announced, answered, changes>>

Claims == [link : Links, node : NodeIds, mac : Macs]
Frames == [to : Daemons, link : Links, order : {"le", "be"}, oper : {"request", "reply"},
           node : NodeIds, mac : Macs, target : NodeIds]

Init == /\ mac \in {m \in [Ports -> Macs] : \A port \in Ports : m[port] \in MacPool[port]}
        /\ addrs = StartAddrs
        /\ cache = [d \in Daemons |-> <<>>]
        /\ wire = {}
        /\ announced = {}
        /\ answered = [d \in Daemons |-> {}]
        /\ changes = 0

-----------------------------------------------------------------------------
(* Helpers of nhip-cfg and nharp_ctl *)

\* is_my_node_id: the NodeID is configured on the interface, under any network.
IsMyNodeId(port, node) == \E i \in DOMAIN addrs[port] : addrs[port][i].node = node

\* pick_node_id_for_netpart picks the first configured address of the network:
\* it is at position i.
Picks(list, net, i) ==
  list[i].net = net /\ \A j \in DOMAIN list : list[j].net = net => i <= j

\* The copies of a frame sent from a port: every other daemon on the link hears
\* a broadcast; a unicast reaches the daemon that has the MAC.
Copies(port, hear, oper, node, target, order) ==
  {[to |-> p[1], link |-> port[2], order |-> order, oper |-> oper,
    node |-> node, mac |-> mac[port], target |-> target] :
     p \in {q \in DaemonPorts : q # port /\ q[2] = port[2] /\ hear[q]}}

\* Frames that exceed what the link holds are dropped; so is a full TX buffer.
Transmit(port, frames, node) ==
  /\ wire' = IF Cardinality(wire \cup frames) <= MaxWire THEN wire \cup frames ELSE wire
  /\ announced' = announced \cup {[link |-> port[2], node |-> node, mac |-> mac[port]]}

Everyone == [q \in DaemonPorts |-> TRUE]
Holding(m) == [q \in DaemonPorts |-> mac[q] = m]

\* A faulty variant: one entry too many.
Room_OneTooMany(d, key) ==
  key \in DOMAIN cache[d] \/ Cardinality(DOMAIN cache[d]) <= Capacity

\* nharp_insert: an update of the map fails only for a new key in a full map.
Room(d, key) == key \in DOMAIN cache[d] \/ Cardinality(DOMAIN cache[d]) < Capacity
Insert(d, key, m) ==
  cache' = [cache EXCEPT ![d] = [k \in DOMAIN @ \cup {key} |-> IF k = key THEN m ELSE @[k]]]

-----------------------------------------------------------------------------
(* The daemon *)

\* nharp_lookup finds no entry.
Misses(port, node) == <<port[2], node>> \notin DOMAIN cache[port[1]]

\* The NodeIDs that get_addrs_from_ifindex and pick_node_id_for_netpart find.
Senders(port, net) ==
  {addrs[port][i].node : i \in {j \in DOMAIN addrs[port] : Picks(addrs[port], net, j)}}

\* nharp_lookup misses for node, and nharp_send_request asks for it on behalf
\* of an address of the destination's network.
Request(port, node, net) ==
  /\ Misses(port, node)
  /\ \E own \in Senders(port, net) :
        Transmit(port, Copies(port, Everyone, "request", own, node, "le"), own)
  /\ UNCHANGED <<mac, addrs, cache, answered, changes>>

\* A frame of unknown ether type is ignored.
Ignore(f) == /\ f.order # "be"
             /\ wire' = wire \ {f}
             /\ UNCHANGED <<mac, addrs, cache, announced, answered, changes>>

\* handle_nharp of a new NodeID when the table is full: an error, no reply.
Refuse(f) == /\ f.order = "be"
             /\ ~Room(f.to, <<f.link, f.node>>)
             /\ wire' = wire \ {f}
             /\ UNCHANGED <<mac, addrs, cache, announced, answered, changes>>

\* Faulty variants: the entry is stored under any interface of the daemon, or for
\* requests only.
Learn_AnyLink(f) ==
  /\ f.order = "be"
  /\ \E port \in DaemonPorts : /\ port[1] = f.to
                               /\ Room(f.to, <<port[2], f.node>>)
                               /\ Insert(f.to, <<port[2], f.node>>, f.mac)
  /\ wire' = wire \ {f}
  /\ UNCHANGED <<mac, addrs, announced, answered, changes>>

Learn_RequestsOnly(f) ==
  /\ f.order = "be"
  /\ Room(f.to, <<f.link, f.node>>)
  /\ IF f.oper = "request" THEN Insert(f.to, <<f.link, f.node>>, f.mac) ELSE UNCHANGED cache
  /\ wire' = wire \ {f}
  /\ UNCHANGED <<mac, addrs, announced, answered, changes>>

\* handle_nharp stores the sender; no reply is due, or none can be sent (the
\* configuration or the MAC is unreadable, the send fails).
Learn(f) == /\ f.order = "be"
            /\ Room(f.to, <<f.link, f.node>>)
            /\ Insert(f.to, <<f.link, f.node>>, f.mac)
            /\ wire' = wire \ {f}
            /\ UNCHANGED <<mac, addrs, announced, answered, changes>>

\* A faulty variant: the error of nharp_insert does not stop the reply.
LearnAndReply_EvenIfFull(f) ==
  /\ f.order = "be"
  /\ f.oper = "request"
  /\ IsMyNodeId(<<f.to, f.link>>, f.target)
  /\ IF Room(f.to, <<f.link, f.node>>)
     THEN Insert(f.to, <<f.link, f.node>>, f.mac) ELSE UNCHANGED cache
  /\ wire' = wire \ {f}
  /\ answered' = [answered EXCEPT ![f.to] = @ \cup {<<f.link, f.node>>}]
  /\ UNCHANGED <<mac, addrs, announced, changes>>

\* handle_nharp stores the sender of a request for an own NodeID, and replies
\* to its MAC with the own MAC.
LearnAndReply(f) ==
  LET port == <<f.to, f.link>>
      copies == Copies(port, Holding(f.mac), "reply", f.target, f.node, "le")
      rest == wire \ {f}
  IN /\ f.order = "be"
     /\ f.oper = "request"
     /\ Room(f.to, <<f.link, f.node>>)
     /\ IsMyNodeId(port, f.target)
     /\ Insert(f.to, <<f.link, f.node>>, f.mac)
     /\ wire' = IF Cardinality(rest \cup copies) <= MaxWire THEN rest \cup copies ELSE rest
     /\ announced' = announced \cup {[link |-> f.link, node |-> f.target, mac |-> mac[port]]}
     /\ answered' = [answered EXCEPT ![f.to] = @ \cup {<<f.link, f.node>>}]
     /\ UNCHANGED <<mac, addrs, changes>>

Receive(f) == Ignore(f) \/ Refuse(f) \/ Learn(f) \/ LearnAndReply(f)

-----------------------------------------------------------------------------
(* External: peers, the operator, the operating system, the links *)

\* A peer announces one of its NodeIDs, asking for or answering any NodeID.
PeerSend(port, oper, node, target) ==
  /\ port[1] \in Peers
  /\ node \in {a.node : a \in Pool[port]}
  /\ Transmit(port, Copies(port, Everyone, oper, node, target, "be"), node)
  /\ UNCHANGED <<mac, addrs, cache, answered, changes>>

ChangeMac(port) == /\ changes < MaxChanges
                   /\ \E m \in MacPool[port] \ {mac[port]} : mac' = [mac EXCEPT ![port] = m]
                   /\ changes' = changes + 1
                   /\ UNCHANGED <<addrs, cache, wire, announced, answered>>

\* nhipctl addr add and addr delete; an address is never configured twice.
AddAddress(port, a) ==
  /\ changes < MaxChanges
  /\ \A i \in DOMAIN addrs[port] : addrs[port][i] # a
  /\ addrs' = [addrs EXCEPT ![port] = Append(@, a)]
  /\ changes' = changes + 1
  /\ UNCHANGED <<mac, cache, wire, announced, answered>>

DeleteAddress(port, a) ==
  /\ changes < MaxChanges
  /\ \E i \in DOMAIN addrs[port] :
        /\ addrs[port][i] = a
        /\ addrs' = [addrs EXCEPT ![port] = SubSeq(@, 1, i - 1) \o SubSeq(@, i + 1, Len(@))]
  /\ changes' = changes + 1
  /\ UNCHANGED <<mac, cache, wire, announced, answered>>

Lose(f) == /\ wire' = wire \ {f}
           /\ UNCHANGED <<mac, addrs, cache, announced, answered, changes>>

\* A daemon is started again: it removes the pinned maps and creates new ones.
Restart(d) == /\ changes < MaxChanges
              /\ cache' = [cache EXCEPT ![d] = <<>>]
              /\ answered' = [answered EXCEPT ![d] = {}]
              /\ changes' = changes + 1
              /\ UNCHANGED <<mac, addrs, wire, announced>>

-----------------------------------------------------------------------------
Next ==
  \/ \E port \in DaemonPorts, node \in NodeIds, net \in Nets : Request(port, node, net)
  \/ \E f \in wire : Receive(f) \/ Lose(f)
  \/ \E port \in Ports, oper \in {"request", "reply"}, node, target \in NodeIds :
        PeerSend(port, oper, node, target)
  \/ \E port \in Ports : ChangeMac(port)
  \/ \E port \in DaemonPorts : \E a \in Pool[port] :
        AddAddress(port, a) \/ DeleteAddress(port, a)
  \/ \E d \in Daemons : Restart(d)

Spec == Init /\ [][Next]_vars

\* Some frame of node arrives at d and is handled.
Hear(d, l, node) == \E f \in wire : /\ f.to = d /\ f.link = l /\ f.node = node
                                    /\ Receive(f)

\* A peer announces itself and the link takes the frame.
Announce(port, node) ==
  /\ \E target \in NodeIds : PeerSend(port, "reply", node, target)
  /\ \E f \in wire' : f.link = port[2] /\ f.node = node

\* Programs keep asking for a NodeID that is not resolved, peers keep announcing
\* themselves, and a frame that is sent again and again arrives at last.
Fairness ==
  /\ \A port \in DaemonPorts, node \in NodeIds :
        /\ WF_vars(\E net \in Nets : Request(port, node, net))
        /\ SF_vars(Hear(port[1], port[2], node))
  /\ \A port \in Ports, node \in NodeIds : SF_vars(Announce(port, node))

FairSpec == Spec /\ Fairness

-----------------------------------------------------------------------------
(* Properties *)

PortTypes ==
  /\ mac \in [Ports -> Macs] /\ \A port \in Ports : mac[port] \in MacPool[port]
  /\ DOMAIN addrs = DaemonPorts
  /\ \A port \in DaemonPorts : addrs[port] \in Seq(Pool[port])

TableTypes ==
  /\ DOMAIN cache = Daemons
  /\ \A d \in Daemons : /\ DOMAIN cache[d] \subseteq Links \X NodeIds
                        /\ \A key \in DOMAIN cache[d] : cache[d][key] \in Macs
                        /\ IsFiniteSet(DOMAIN cache[d])
                        /\ Cardinality(DOMAIN cache[d]) <= Capacity
  /\ answered \in [Daemons -> SUBSET (Links \X NodeIds)]

WireTypes == /\ wire \subseteq Frames
             /\ announced \subseteq Claims
             /\ changes \in 0..MaxChanges

\* Types; nharp_table never holds more entries than its map has room for.
TypeOK == PortTypes /\ TableTypes /\ WireTypes

\* An entry of nharp_table says what one station on the same link has said of
\* itself: the NodeID and the MAC of an entry never come from two stations, and
\* never from another link than that of the daemon's own interface, whatever
\* the order in which requests, replies and changes of MACs are seen.
CacheSound ==
  \A d \in Daemons : \A key \in DOMAIN cache[d] :
     /\ <<d, key[1]>> \in Ports
     /\ [link |-> key[1], node |-> key[2], mac |-> cache[d][key]] \in announced
     /\ \E port \in Ports : /\ port[2] = key[1]
                            /\ key[2] \in NodesOf(port)
                            /\ cache[d][key] \in MacPool[port]

\* Whoever a daemon has answered, it can reach itself: its table holds the
\* requester, also when the table is full (the "?" after nharp_insert).
AnsweredAreKnown == \A d \in Daemons : answered[d] \subseteq DOMAIN cache[d]

\* Who a daemon can expect to resolve: the other stations of its link.
Neighbours(port) ==
  {node \in NodeIds : \E q \in Ports :
     /\ q[2] = port[2] /\ q # port
     /\ IF q \in DaemonPorts THEN \E i \in DOMAIN StartAddrs[q] : StartAddrs[q][i].node = node
                             ELSE node \in NodesOf(q)}

\* Every NodeID of a neighbour is resolved again and again, restarts included:
\* handle_nharp stores the sender of the packets that arrive.
NeighboursResolved ==
  \A port \in DaemonPorts : \A node \in NodeIds :
     node \in Neighbours(port) => []<>(<<port[2], node>> \in DOMAIN cache[port[1]])
=============================================================================
