------------------------------ MODULE Forwarding ------------------------------
(***************************************************************************)
(* Forwarding of NHIP packets by the daemons of a network: the slow path   *)
(* (forward_slowpass, insert_fastpath) that fills the table of labels, and *)
(* the XDP program that follows it.  Which route is chosen is the matter   *)
(* of RouteSelection, which neighbours are known that of Nharp: here both  *)
(* change at any time.                                                     *)
(*                                                                         *)
(* A frame is one copy for one port of a host that runs the daemon.  order *)
(* is the byte order of its ether type: the XDP program only looks at "le" *)
(* frames, which the receiver ignores; "be" frames go to the receiver.     *)
(* label is link_label as the processor reads it; hops is not in the       *)
(* packet, it counts the daemons that have sent it on.                     *)
(*                                                                         *)
(* A panic ends the daemon (panic = "abort"), and the XDP program goes     *)
(* with it.  IFACE_MAC is left out: it gives a source to frames that hit,  *)
(* and those do not leave.                                                 *)
(***************************************************************************)
EXTENDS Naturals, FiniteSets

CONSTANTS Hosts, Ports, Links, Macs, Networks, Nodes, Labels,
          HostOf, LinkOf,    \* of each port
          OwnOf,             \* addresses of each port: pairs of network and NodeID
          Hash(_, _),        \* fnvla: hash of the MACs, lower first, and the network
          Swap(_),           \* u64::from_be on a little-endian processor
          LongNets,          \* networks of more than 152 bytes
          LabelDefault, LabelEgress,
          Broadcast,         \* the MAC ff:ff:ff:ff:ff:ff
          BroadcastNode,     \* BROADCAST_NODE_ID
          NoMac, NoRoute, NoFrame,
          Capacity,          \* max_entries of FASTPATH_TABLE
          EntrySize,         \* size of ForwardEntry in the daemon
          ValueSize,         \* size of ForwardEntry in the XDP program
          StartRoutes, StartNeigh, StartMacs,
          PeerFrames,        \* frames that other stations send to a port
          MaxSent,           \* bound on frames of other stations
          MaxChanges         \* bound on changes of MACs, routes and neighbours,
                             \* and on restarts

\* Each host has its own routes (one per network), and each port its neighbours.
Routes == [port : Ports, hop : Nodes \cup {"local"}]
Frames == [to : Ports, order : {"le", "be"}, label : Labels, ttl : 0..255,
           net : Networks, node : Nodes, src : Networks, hops : 0..2]

ASSUME LinkAssumption ==
  /\ HostOf \in [Ports -> Hosts]
  /\ LinkOf \in [Ports -> Links]
  /\ OwnOf \in [Ports -> SUBSET (Networks \X Nodes)]
  /\ Broadcast \in Macs /\ NoMac \notin Macs
  /\ BroadcastNode \in Nodes /\ "local" \notin Nodes
  /\ NoRoute \notin Routes /\ NoFrame \notin Frames
  /\ StartRoutes \in [Hosts -> [Networks -> Routes \cup {NoRoute}]]
  /\ \A h \in Hosts, d \in Networks :
       StartRoutes[h][d] # NoRoute => HostOf[StartRoutes[h][d].port] = h
  /\ StartNeigh \in [Ports -> [Nodes -> Macs \cup {NoMac}]]
  /\ StartMacs \in [Ports -> Macs]
  /\ Capacity \in Nat /\ MaxSent \in Nat /\ MaxChanges \in Nat

\* Nothing is assumed of the labels that other stations use.
ASSUME LabelAssumption ==
  /\ {LabelDefault, LabelEgress} \subseteq Labels
  /\ \A l \in Labels : Swap(l) \in Labels
  /\ \A s \in SUBSET Macs, d \in Networks : Hash(s, d) \in Labels
  /\ LongNets \subseteq Networks
  /\ PeerFrames \subseteq Frames
  /\ \A f \in PeerFrames : f.hops = 0

VARIABLES
  wire,       \* frames on their way to a host
  table,      \* FASTPATH_TABLE of each host: label to entry
  macs,       \* MAC of each port
  neigh,      \* NHARP table: neighbours of each port
  routes,     \* the route that each host selects for a network
  slow,       \* the packet in the slow path of each host
  sent, changes,
  dropped     \* history: frames that hit and did not leave

vars == <<wire, table, macs, neigh, routes, slow, sent, changes, dropped>>

Entries == [next_label : Labels, port : Ports, dmac : Macs]

NoEntries == [l \in {} |-> l]
Idle == [step |-> "idle", frame |-> NoFrame]

\* The daemon is gone, until it is started again.
Ended == [step |-> "ended", frame |-> NoFrame]

Init ==
  /\ wire = {}
  /\ table = [h \in Hosts |-> NoEntries]
  /\ macs = StartMacs
  /\ neigh = StartNeigh
  /\ routes = StartRoutes
  /\ slow = [h \in Hosts |-> Idle]
  /\ sent = 0
  /\ changes = 0
  /\ dropped = {}

-----------------------------------------------------------------------------
(* The links.  A network card takes frames to its own MAC or to all. *)

Copies(port, dmac, f) ==
  {[f EXCEPT !.to = q] :
     q \in {r \in Ports \ {port} : LinkOf[r] = LinkOf[port] /\ dmac \in {macs[r], Broadcast}}}

PeerSends(f) ==
  /\ sent < MaxSent
  /\ sent' = sent + 1
  /\ wire' = wire \cup {f}
  /\ UNCHANGED <<table, macs, neigh, routes, slow, changes, dropped>>

\* The link loses it; or the slow path returns before it has a route (an unreadable
\* routes.conf, a network that is not UTF-8, a vanished interface).
Lose(f) ==
  /\ wire' = wire \ {f}
  /\ UNCHANGED <<table, macs, neigh, routes, slow, sent, changes, dropped>>

-----------------------------------------------------------------------------
(* The XDP program: nhipd_xdp.  It computes the TTL in 8 bits and does not   *)
(* write it back.  It is attached as long as the daemon runs.               *)

Minus1(ttl) == IF ttl = 0 THEN 255 ELSE ttl - 1

Expires(f) == Minus1(f.ttl) = 0

\* Its label is in the table, and not for delivery.
Hits(f) ==
  LET t == table[HostOf[f.to]]
  IN /\ f.order = "le"
     /\ slow[HostOf[f.to]] # Ended
     /\ ~Expires(f)
     /\ f.label # LabelDefault
     /\ f.label \in DOMAIN t
     /\ t[f.label].next_label # LabelEgress

\* XDP_DROP, or XDP_PASS to the receiver, which ignores the ether type.
XdpEnds(f) ==
  /\ f.order = "le"
  /\ ~Hits(f)
  /\ wire' = wire \ {f}
  /\ UNCHANGED <<table, macs, neigh, routes, slow, sent, changes, dropped>>

\* What bpf_redirect answers an XDP program: XDP_REDIRECT, which is 4, when it has
\* noted the port; XDP_ABORTED, which is 0, when it has not.
RedirectAnswers == {[code |-> 4, noted |-> TRUE], [code |-> 0, noted |-> FALSE]}

\* XDP_REDIRECT is returned for the answer 0, XDP_DROP for any other; a frame
\* leaves with XDP_REDIRECT through the port that was noted.
Leaves(answer) == answer.code = 0 /\ answer.noted

Redirect(f) ==
  LET e == table[HostOf[f.to]][f.label]
      out == [f EXCEPT !.label = e.next_label]
  IN /\ Hits(f)
     /\ \E answer \in RedirectAnswers :
          /\ wire' = (wire \ {f}) \cup {c \in Copies(e.port, e.dmac, out) : Leaves(answer)}
          /\ dropped' = dropped \cup {g \in {f} : ~Leaves(answer)}
     /\ UNCHANGED <<table, macs, neigh, routes, slow, sent, changes>>

-----------------------------------------------------------------------------
(* The slow path *)

\* recv_handler takes it as its own: an address of the port has its network,
\* and one has its NodeID.
IsLocal(f) == /\ \E a \in OwnOf[f.to] : a[1] = f.net
              /\ \E a \in OwnOf[f.to] : a[2] = f.node

Arrives(f) == f.order = "be" /\ slow[HostOf[f.to]] = Idle

TakeLocal(f) ==
  /\ Arrives(f)
  /\ IsLocal(f)
  /\ wire' = wire \ {f}
  /\ UNCHANGED <<table, macs, neigh, routes, slow, sent, changes, dropped>>

\* A packet that the slow path of h will drop.
Fails(h, why) ==
  slow' = [slow EXCEPT ![h] = [step |-> why, frame |-> slow[h].frame, port |-> slow[h].port]]

\* select_route finds none.
NoRouteFor(f) ==
  /\ Arrives(f)
  /\ ~IsLocal(f)
  /\ routes[HostOf[f.to]][f.net] = NoRoute
  /\ wire' = wire \ {f}
  /\ slow' = [slow EXCEPT ![HostOf[f.to]] = [step |-> "no route", frame |-> f, port |-> f.to]]
  /\ UNCHANGED <<table, macs, neigh, routes, sent, changes, dropped>>

\* The route, and the MAC of its interface.
Choose(f) ==
  LET h == HostOf[f.to]
      r == routes[h][f.net]
  IN /\ Arrives(f)
     /\ ~IsLocal(f)
     /\ r # NoRoute
     /\ slow' = [slow EXCEPT ![h] = [step |-> "resolve", frame |-> f, port |-> r.port,
                                     hop |-> r.hop, smac |-> macs[r.port]]]
     /\ wire' = wire \ {f}
     /\ UNCHANGED <<table, macs, neigh, routes, sent, changes, dropped>>

NextNode(s) == IF s.hop = "local" THEN s.frame.node ELSE s.hop

\* NodeID 1000000000 in a connected network is for everybody.
NextMac(s) == IF s.hop = "local" /\ s.frame.node = BroadcastNode THEN Broadcast
              ELSE neigh[s.port][NextNode(s)]

\* A faulty variant: the entry that is not there is used as well.
Resolve_Unchecked(h) ==
  LET s == slow[h]
  IN /\ s.step = "resolve"
     /\ slow' = [slow EXCEPT ![h] =
                   [step |-> "install", frame |-> s.frame, port |-> s.port,
                    smac |-> s.smac, dmac |-> NextMac(s)]]
     /\ UNCHANGED <<wire, table, macs, neigh, routes, sent, changes, dropped>>

Resolve(h) ==
  LET s == slow[h]
  IN /\ s.step = "resolve"
     /\ NextMac(s) # NoMac
     /\ slow' = [slow EXCEPT ![h] =
                   [step |-> "install", frame |-> s.frame, port |-> s.port,
                    smac |-> s.smac, dmac |-> NextMac(s)]]
     /\ UNCHANGED <<wire, table, macs, neigh, routes, sent, changes, dropped>>

\* nharp_send_request looks for an own address in the network it is given: that
\* of the source of the packet.
MayAsk(s) == \E a \in OwnOf[s.port] : a[1] = s.frame.src

\* The neighbour is not known: the packet is dropped, with a request or with an
\* error.  (The request is a matter of Nharp.)
Miss(h) ==
  /\ slow[h].step = "resolve"
  /\ NextMac(slow[h]) = NoMac
  /\ Fails(h, IF MayAsk(slow[h]) THEN "asked" ELSE "not asked")
  /\ UNCHANGED <<wire, table, macs, neigh, routes, sent, changes, dropped>>

Failures == {"no route", "asked", "not asked", "not installed"}

Drop(h) ==
  /\ slow[h].step \in Failures
  /\ slow' = [slow EXCEPT ![h] = Idle]
  /\ UNCHANGED <<wire, table, macs, neigh, routes, sent, changes, dropped>>

\* get_link_hash: both ends of a link compute the same label.
LinkHash(a, b, d) == Hash({a, b}, d)

NextLabel(s) == LinkHash(s.smac, s.dmac, s.frame.net)

\* The table has the label already, or has room.
Room(t, l) == l \in DOMAIN t \/ Cardinality(DOMAIN t) < Capacity

\* u64::from_be(nhip_header.link_label)
Key(f) == Swap(f.label)

\* get_link_hash copies the network into 152 bytes.
HashPanics(h) ==
  /\ slow[h].step = "install"
  /\ slow[h].frame.net \in LongNets
  /\ slow' = [slow EXCEPT ![h] = Ended]
  /\ UNCHANGED <<wire, table, macs, neigh, routes, sent, changes, dropped>>

\* insert_fastpath
Install(h) ==
  LET s == slow[h]
      key == Key(s.frame)
      entry == [next_label |-> NextLabel(s), port |-> s.port, dmac |-> s.dmac]
  IN /\ s.step = "install"
     /\ s.frame.net \notin LongNets
     /\ EntrySize = ValueSize
     /\ Room(table[h], key)
     /\ table' = [table EXCEPT ![h] =
                    [l \in DOMAIN @ \cup {key} |-> IF l = key THEN entry ELSE @[l]]]
     /\ slow' = [slow EXCEPT ![h].step = "send"]
     /\ UNCHANGED <<wire, macs, neigh, routes, sent, changes, dropped>>

\* The map refuses the entry, and the packet is not sent.
InstallFails(h) ==
  /\ slow[h].step = "install"
  /\ slow[h].frame.net \notin LongNets
  /\ EntrySize # ValueSize \/ ~Room(table[h], Key(slow[h].frame))
  /\ Fails(h, "not installed")
  /\ UNCHANGED <<wire, table, macs, neigh, routes, sent, changes, dropped>>

\* A faulty variant: the ether type stays as it came.
Rebuilt_KeepsType(s) == [s.frame EXCEPT !.label = NextLabel(s), !.ttl = Minus1(@),
                                        !.hops = IF @ = 2 THEN 2 ELSE @ + 1]

\* The frame that leaves: the ether type is written by build_eth_header, and the
\* release build computes the TTL in 8 bits.  hops is counted up to 2.
Rebuilt(s) == [s.frame EXCEPT !.order = "le", !.label = NextLabel(s), !.ttl = Minus1(@),
                              !.hops = IF @ = 2 THEN 2 ELSE @ + 1]

\* The dev build checks the subtraction.
TtlPanics(h) ==
  /\ slow[h].step = "send"
  /\ slow[h].frame.ttl = 0
  /\ slow' = [slow EXCEPT ![h] = Ended]
  /\ UNCHANGED <<wire, table, macs, neigh, routes, sent, changes, dropped>>

\* socket.send: the frame leaves, or is dropped.
Transmit(h) ==
  LET s == slow[h]
  IN /\ s.step = "send"
     /\ \/ wire' = wire \cup Copies(s.port, s.dmac, Rebuilt(s))
        \/ UNCHANGED wire
     /\ slow' = [slow EXCEPT ![h] = Idle]
     /\ UNCHANGED <<table, macs, neigh, routes, sent, changes, dropped>>

-----------------------------------------------------------------------------
(* Other tasks, commands and restarts *)

Change == changes < MaxChanges /\ changes' = changes + 1

ChangeMac(p, m) ==
  /\ Change
  /\ m # macs[p]
  /\ macs' = [macs EXCEPT ![p] = m]
  /\ UNCHANGED <<wire, table, neigh, routes, slow, sent, dropped>>

ChangeRoute(h, d, r) ==
  /\ Change
  /\ r # NoRoute => HostOf[r.port] = h
  /\ routes' = [routes EXCEPT ![h][d] = r]
  /\ UNCHANGED <<wire, table, macs, neigh, slow, sent, dropped>>

\* nharp_insert by another task.
Learn(p, n, m) ==
  /\ Change
  /\ neigh' = [neigh EXCEPT ![p][n] = m]
  /\ UNCHANGED <<wire, table, macs, routes, slow, sent, dropped>>

\* The pinned maps are removed and made anew.
Restart(h) ==
  /\ Change
  /\ table' = [table EXCEPT ![h] = NoEntries]
  /\ neigh' = [p \in Ports |-> IF HostOf[p] = h THEN [n \in Nodes |-> NoMac] ELSE neigh[p]]
  /\ slow' = [slow EXCEPT ![h] = Idle]
  /\ UNCHANGED <<wire, macs, routes, sent, dropped>>

-----------------------------------------------------------------------------
FrameStep(f) == \/ Lose(f)
                \/ XdpEnds(f)
                \/ Redirect(f)
                \/ TakeLocal(f)
                \/ NoRouteFor(f)
                \/ Choose(f)

SlowStep(h) == \/ Resolve(h)
               \/ Miss(h)
               \/ Drop(h)
               \/ HashPanics(h)
               \/ Install(h)
               \/ InstallFails(h)
               \/ TtlPanics(h)
               \/ Transmit(h)

Surroundings == \/ \E p \in Ports, m \in Macs \ {Broadcast} : ChangeMac(p, m)
                \/ \E h \in Hosts, d \in Networks, r \in Routes \cup {NoRoute} :
                     ChangeRoute(h, d, r)
                \/ \E p \in Ports, n \in Nodes, m \in Macs \ {Broadcast} : Learn(p, n, m)
                \/ \E h \in Hosts : Restart(h)

Next == \/ \E f \in PeerFrames : PeerSends(f)
        \/ \E f \in wire : FrameStep(f)
        \/ \E h \in Hosts : SlowStep(h)
        \/ Surroundings

Spec == Init /\ [][Next]_vars

-----------------------------------------------------------------------------
(* Properties *)

\* Types, and the capacity of the table (src/nhipd-ebpf/src/main.rs:29).
TypeOK ==
  /\ wire \subseteq Frames
  /\ \A h \in Hosts :
       /\ Cardinality(DOMAIN table[h]) <= Capacity
       /\ \A l \in DOMAIN table[h] : l \in Labels /\ table[h][l] \in Entries
       /\ slow[h].step \in {"idle", "ended", "resolve", "install", "send"} \cup Failures
       /\ slow[h].step \notin {"idle", "ended"} =>
            slow[h].frame \in Frames /\ HostOf[slow[h].port] = h
  /\ dropped \subseteq Frames
  /\ macs \in [Ports -> Macs]
  /\ neigh \in [Ports -> [Nodes -> Macs \cup {NoMac}]]
  /\ routes \in [Hosts -> [Networks -> Routes \cup {NoRoute}]]
  /\ sent \in 0..MaxSent /\ changes \in 0..MaxChanges

\* No packet is sent on by two daemons, so that none goes round although the XDP program
\* never writes the TTL back (src/nhipd-ebpf/src/main.rs:99) and that of the slow path
\* wraps (nhipd/src/forward.rs:460): what a daemon sends has the ether type that
\* receivers ignore, and where the XDP program has an entry for it, it is dropped.
NoCirculation == \A f \in wire : f.hops < 2

\* A frame that hits is sent on (src/nhipd-ebpf/src/main.rs:110: "Fast Path lookup and
\* redirect").
HitIsForwarded == dropped = {}

\* A packet whose next hop is resolved gets its entry and is sent, while the table
\* has room (nhipd/src/forward.rs:323: "Otherwise resolves the next hop via NHARP,
\* installs a FastPath entry, and forwards the packet on the egress interface.").
ResolvedIsInstalled == \A h \in Hosts : slow[h].step # "not installed"

\* When a packet has been sent by the slow path, the XDP program finds the way under
\* its label (nhipd/src/forward.rs:33: "`label` - key of the map; current
\* link-label."; src/nhipd-ebpf/src/main.rs:25: "Key: link_label").
KeyIsLabel ==
  \A h \in Hosts : slow[h].step = "send" => slow[h].frame.label \in DOMAIN table[h]

\* Only packets to networks that are not those of the host's own ports are dropped
\* for want of a route (nhipd/src/forward.rs:322: "If no route matches, attempts
\* connected delivery on a local netpart.").
LocalIsDelivered ==
  \A h \in Hosts, p \in Ports :
    (slow[h].step = "no route" /\ HostOf[p] = h)
      => \A a \in OwnOf[p] : a[1] # slow[h].frame.net

\* A packet to a network of the port that it leaves by, whose NodeID is not known,
\* makes the daemon ask for it (nhipd/src/nharp_ctl.rs:159: "Find local NodeID in
\* the same network as the destination").
MissAsks ==
  \A h \in Hosts : slow[h].step = "not asked"
                     => \A a \in OwnOf[slow[h].port] : a[1] # slow[h].frame.net
=============================================================================
