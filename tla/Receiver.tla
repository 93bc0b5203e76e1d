------------------------------- MODULE Receiver -------------------------------
(***************************************************************************)
(* The receiver task of the daemon (the NHIP arm of recv_handler) while    *)
(* processes of nhipctl edit the files in /etc/nhip.  For one packet it    *)
(* loads the addresses twice, and a third time to answer a ping to an      *)
(* unresolved neighbour; to forward it loads the routes.  The receiver     *)
(* ends for good if it cannot load the addresses, if the interface has     *)
(* vanished, or if anything goes wrong with a pong.  A panic ends it too,  *)
(* and the whole daemon with it (Cargo.toml: panic = "abort"), which is    *)
(* the same to the packets: nobody receives any more.                      *)
(***************************************************************************)
EXTENDS ConfigFiles

CONSTANTS Packets,    \* arrival interface, destination, source network, kind, form
          NoPacket,
          MaxPackets, \* bound on packets
          MayVanish   \* interfaces that may vanish

\* short: its lengths promise more bytes than there are; long: its destination network
\* has more than 152 bytes, for which get_link_hash has no room (in the dev build also: its
\* TTL is 0).
Forms == {"proper", "short", "long"}

ASSUME PacketAssumption ==
  /\ \A k \in Packets : /\ DOMAIN k = {"dev", "net", "node", "from", "next", "form"}
                        /\ k.net \in Texts /\ k.node \in Texts
                        /\ k.form \in Forms
  /\ NoPacket \notin Packets
  /\ MaxPackets \in Nat
  /\ MayVanish \subseteq Ifaces

VARIABLES
  rx,       \* what the receiver does next
  packet,   \* the packet that it handles
  isMyNet,  \* its first decision
  present,  \* interfaces that exist
  packets,  \* number of packets so far
  always,   \* history: addresses that the interface had all the time
  ever      \* history: addresses that it had at some time

rvars == <<rx, packet, isMyNet, present, packets, always, ever>>
allvars == <<vars, rvars>>

RxSteps == {"waiting", "parse", "net", "node", "forward", "local", "ask", "send", "ended"}

AddressesOf(content, dev) == IF dev \in DOMAIN content THEN content[dev].addresses ELSE {}

ReceiverInit ==
  /\ Init
  /\ rx = "waiting"
  /\ packet = NoPacket
  /\ isMyNet = FALSE
  /\ present = Ifaces
  /\ packets = 0
  /\ always = {}
  /\ ever = {}

-----------------------------------------------------------------------------
(* The surroundings *)

\* A step of nhipctl, and what it changes during the handling of a packet.
Edit ==
  /\ \E p \in Tools : ToolStep(p) \/ CommandStep(p)
  /\ IF packet = NoPacket THEN UNCHANGED <<always, ever>>
     ELSE LET now == AddressesOf(files'["addr"].has, packet.dev)
          IN always' = always \cap now /\ ever' = ever \cup now
  /\ UNCHANGED <<rx, packet, isMyNet, present, packets>>

Vanish(dev) ==
  /\ dev \in present \cap MayVanish
  /\ present' = present \ {dev}
  /\ UNCHANGED <<vars, rx, packet, isMyNet, packets, always, ever>>

Arrive(k) ==
  /\ rx = "waiting"
  /\ packets < MaxPackets
  /\ k.dev \in present
  /\ rx' = "parse"
  /\ packet' = k
  /\ packets' = packets + 1
  /\ always' = AddressesOf(files["addr"].has, k.dev)
  /\ ever' = always'
  /\ UNCHANGED <<vars, isMyNet, present>>

-----------------------------------------------------------------------------
(* The receiver *)

\* The next packet, or none any more.
Finished(state) ==
  /\ rx' = state
  /\ packet' = NoPacket
  /\ isMyNet' = FALSE
  /\ always' = {}
  /\ ever' = {}
  /\ UNCHANGED <<vars, present, packets>>

Goes(state) ==
  /\ rx' = state
  /\ UNCHANGED <<vars, packet, isMyNet, present, packets, always, ever>>

Here == packet.dev \in present

Own == AddressesOf(files["addr"].has, packet.dev)

\* The addresses are sliced out of the packet.
Parse ==
  /\ rx = "parse"
  /\ packet.form # "short"
  /\ Goes("net")

\* Nobody has compared the lengths in the header with the packet: a panic.
ParsePanics ==
  /\ rx = "parse"
  /\ packet.form = "short"
  /\ Finished("ended")

\* rsplit(':'): the text behind the last colon.
NodePart(addr) ==
  LET colons == {k \in DOMAIN addr : addr[k] = ":"}
  IN IF colons = {} THEN addr
     ELSE SubSeq(addr, 1 + (CHOOSE k \in colons : \A j \in colons : k >= j), Len(addr))

\* The first load: is there an address in the network of the packet?
CheckNet ==
  /\ rx = "net"
  /\ Readable("addr") /\ Here
  /\ isMyNet' = \E a \in Own : Netpart(a) = packet.net
  /\ rx' = "node"
  /\ UNCHANGED <<vars, packet, present, packets, always, ever>>

\* A faulty variant: only one of the addresses is looked at.
HasNode_One(own) == own # {} /\ NodePart(CHOOSE a \in own : TRUE) = packet.node

\* A faulty variant: the NodeID is not compared.
HasNode_Any(own) == own # {}

HasNode(own) == \E a \in own : NodePart(a) = packet.node

\* The second load, in is_my_node_id: is there one with its NodeID?
CheckNode ==
  /\ rx = "node"
  /\ Readable("addr") /\ Here
  /\ Goes(IF isMyNet /\ HasNode(Own) THEN "local" ELSE "forward")

\* One of the two loads fails, or the interface has no name any more.
CheckFails ==
  /\ rx \in {"net", "node"}
  /\ ~(Readable("addr") /\ Here)
  /\ Finished("ended")

\* A faulty variant: the error of forward_slowpass ends the receiver.
Forward_Returns ==
  /\ rx = "forward"
  /\ Finished(IF Readable("route") THEN "waiting" ELSE "ended")

\* forward_slowpass; whatever its error, it is logged, and the packet is lost.  (A next
\* hop that parse_node_id does not come back from is a matter of NodeIdParsing.)
Forward ==
  /\ rx = "forward"
  /\ Finished("waiting")

\* With a route and the MAC of the next hop, get_link_hash panics, or the TTL does.
ForwardPanics ==
  /\ rx = "forward"
  /\ packet.form = "long"
  /\ Readable("route")
  /\ Finished("ended")

\* Not a ping: a pong goes to the slot of PingControl, the rest is ignored.
Take ==
  /\ rx = "local"
  /\ packet.next # "ping"
  /\ Finished("waiting")

\* pingpong with oper 2: the neighbour's MAC is known, or it is asked for.
Answer ==
  /\ rx = "local"
  /\ packet.next = "ping"
  /\ Here
  /\ \/ Goes("send")
     \/ Goes("ask")

\* nharp_send_request loads the addresses: one of them must be in the network
\* that the ping comes from.
Ask ==
  /\ rx = "ask"
  /\ Readable("addr") /\ Here
  /\ \E a \in Own : Netpart(a) = packet.from
  /\ Goes("send")

Send ==
  /\ rx = "send"
  /\ Here
  /\ Finished("waiting")

Answering == rx \in {"local", "ask", "send"} /\ packet.next = "ping"

\* A pong may fail at every step: an address that does not parse, no MAC, an error of
\* nharp_send_request or of sendto.  Whatever it is, recv_handler returns.
AnswerFails ==
  /\ Answering
  /\ Finished("ended")

ReceiverStep == \/ \E k \in Packets : Arrive(k)
                \/ Parse
                \/ ParsePanics
                \/ CheckNet
                \/ CheckNode
                \/ CheckFails
                \/ Forward
                \/ ForwardPanics
                \/ Take
                \/ Answer
                \/ Ask
                \/ Send
                \/ AnswerFails

ReceiverNext == Edit \/ (\E dev \in Ifaces : Vanish(dev)) \/ ReceiverStep

ReceiverSpec == ReceiverInit /\ [][ReceiverNext]_allvars

-----------------------------------------------------------------------------
(* Properties *)

Destination == packet.net \o <<":">> \o packet.node

\* A packet to an address that its interface has had ever since the packet
\* arrived is not forwarded, although the two halves of the decision come from two
\* loads (nhipd/src/daemon.rs:277, nhip-cfg/src/lib.rs:33).
MineIsAccepted == rx = "forward" => Destination \notin always

\* A packet that is whole, whose network is not too long and that is not a ping for
\* this daemon ends the receiver only if the addresses cannot be loaded or the
\* interface has vanished: a routes.conf that is torn, even for ever, costs packets
\* but not the task (nhipd/src/daemon.rs:309).
EndsForAddresses ==
  [][(rx # "ended" /\ rx' = "ended" /\ packet.form = "proper" /\ ~Answering)
       => ~Readable("addr") \/ packet.dev \notin present]_allvars

\* A packet that is taken as local has its network and its NodeID from addresses that its
\* interface had at some time since it arrived, though perhaps from two of them
\* (nhipd/src/daemon.rs:292 and 300, nhip-cfg/src/lib.rs:46).
HalvesAreLocal ==
  rx = "local" => /\ packet.net \in {Netpart(a) : a \in ever}
                  /\ packet.node \in {NodePart(a) : a \in ever}

\* A packet that is taken as local is addressed to an address of its interface
\* (nhipd/src/daemon.rs:315: "Received packer with local destination").
AcceptedIsLocal == rx = "local" => Destination \in ever
=============================================================================
