--------------------------- MODULE Receiver_proofs ---------------------------
(***************************************************************************)
(* Proofs about Receiver for any packets, files and commands.  Its steps   *)
(* are steps of ConfigFiles, so that what holds of the files holds here.   *)
(* A packet to an address that is there all the time is taken, although    *)
(* its network and its NodeID are looked up in two loads.                  *)
(***************************************************************************)
EXTENDS Receiver, ConfigFiles_proofs

-----------------------------------------------------------------------------
(* The files, whatever the receiver does *)

LEMMA ReceiverStepIsFileStep ==
  ASSUME [ReceiverNext]_allvars
  PROVE  [Next]_vars
<1>1. CASE Edit
  BY <1>1 DEF Edit, Next, Procs
<1>2. CASE \E dev \in Ifaces : Vanish(dev)
  BY <1>2 DEF Vanish
<1>3. CASE ReceiverStep
  BY <1>3 DEF ReceiverStep, Arrive, Parse, ParsePanics, CheckNet, CheckNode, CheckFails, Forward,
              ForwardPanics, Take, Answer, Ask, Send, AnswerFails, Finished, Goes
<1>4. CASE UNCHANGED allvars
  BY <1>4 DEF allvars
<1>5. QED BY <1>1, <1>2, <1>3, <1>4 DEF ReceiverNext

\* While packets arrive, the files go through steps of ConfigFiles only: the receiver
\* never writes (nhipd/src/daemon.rs:277-310), and needs no more of them.
THEOREM ReceiverKeepsFiles == ReceiverSpec => Spec
<1>1. ReceiverInit => Init
  BY DEF ReceiverInit
<1>2. QED BY <1>1, ReceiverStepIsFileStep, PTL DEF ReceiverSpec, Spec

\* Routes stay in routes.conf while packets arrive, too (nhip-cfg/src/lib.rs:299).
THEOREM RoutesStayForReceiver == ReceiverSpec => []InsertedStay
BY ReceiverKeepsFiles, InsertedRoutesStay, PTL

\* No readable routes.conf has a route twice while packets arrive either
\* (nhip-cfg/src/lib.rs:324).
THEOREM RoutesUniqueForReceiver == ReceiverSpec => []RoutesUnique
BY ReceiverKeepsFiles, NoRouteTwice, PTL

LEMMA FilesTypedForReceiver == ReceiverSpec => []TypeOK
BY ReceiverKeepsFiles, FilesTypeCorrect, PTL

-----------------------------------------------------------------------------
(* The two parts of an address *)

LEMMA TwoParts ==
  ASSUME NEW n \in Texts, NEW m \in Texts, IsAddress(n \o <<":">> \o m)
  PROVE  Netpart(n \o <<":">> \o m) = n /\ NodePart(n \o <<":">> \o m) = m
<1> DEFINE S == Tokens \cup {":"}
           a == n \o <<":">> \o m
           L == Len(n)
           M == Len(m)
<1>1. n \in Seq(S) /\ m \in Seq(S) /\ <<":">> \in Seq(S) /\ Len(<<":">>) = 1 /\ <<":">>[1] = ":"
  <2>1. n \in Seq(S) /\ m \in Seq(S)
    BY SeqMonotonic DEF Texts
  <2>2. QED BY <2>1
<1>2. L \in Nat /\ M \in Nat
  BY LenProperties DEF Texts
<1> HIDE DEF S, L, M
<1>3. /\ n \o <<":">> \in Seq(S) /\ Len(n \o <<":">>) = L + 1
      /\ \A i \in 1..L + 1 : (n \o <<":">>)[i] = IF i <= L THEN n[i] ELSE <<":">>[i - L]
  BY <1>1, ConcatProperties DEF L
<1>4. /\ a \in Seq(S) /\ Len(a) = L + 1 + M
      /\ \A i \in 1..L + 1 + M :
           a[i] = IF i <= L + 1 THEN (n \o <<":">>)[i] ELSE m[i - (L + 1)]
  <2> DEFINE b == n \o <<":">>
  <2>1. b \in Seq(S) /\ Len(b) = L + 1 /\ a = b \o m
    BY <1>3
  <2> HIDE DEF b, a
  <2>2. /\ a \in Seq(S) /\ Len(a) = Len(b) + Len(m)
        /\ \A i \in 1..Len(b) + Len(m) : a[i] = IF i <= Len(b) THEN b[i] ELSE m[i - Len(b)]
    BY <1>1, <2>1, ConcatProperties
  <2>3. QED BY <2>1, <2>2 DEF M, b
<1> HIDE DEF a
<1>5. /\ DOMAIN a = 1..L + 1 + M
      /\ a[L + 1] = ":"
      /\ \A i \in 1..L : a[i] = n[i]
      /\ \A i \in 1..M : a[L + 1 + i] = m[i]
  <2>1. DOMAIN a = 1..L + 1 + M
    BY <1>4, LenProperties
  <2>2. a[L + 1] = ":"
    <3>1. L + 1 \in 1..L + 1 /\ L + 1 \in 1..L + 1 + M /\ ~(L + 1 <= L) /\ L + 1 - L = 1
      BY <1>2
    <3>2. QED BY <1>1, <1>3, <1>4, <3>1
  <2>3. ASSUME NEW i \in 1..L PROVE a[i] = n[i]
    <3>1. i \in 1..L + 1 /\ i \in 1..L + 1 + M /\ i <= L /\ i <= L + 1
      BY <1>2
    <3>2. QED BY <1>3, <1>4, <3>1
  <2>4. ASSUME NEW i \in 1..M PROVE a[L + 1 + i] = m[i]
    <3> DEFINE x == L + 1 + i
    <3>1. x \in 1..L + 1 + M /\ ~(x <= L + 1) /\ x - (L + 1) = i
      BY <1>2
    <3> HIDE DEF x
    <3>2. a[x] = m[i]
      BY <1>4, <3>1
    <3>3. QED BY <3>2 DEF x
  <2>5. QED BY <2>1, <2>2, <2>3, <2>4
<1>6. {j \in DOMAIN a : a[j] = ":"} = {L + 1}
  <2>1. PICK k \in DOMAIN a : {j \in DOMAIN a : a[j] = ":"} = {k}
    BY DEF IsAddress, a
  <2>2. L + 1 \in {j \in DOMAIN a : a[j] = ":"}
    BY <1>2, <1>5
  <2>3. QED BY <2>1, <2>2
<1>7. Netpart(a) = n
  <2>1. Netpart(a) = SubSeq(a, 1, L)
    <3> DEFINE colons == {j \in DOMAIN a : a[j] = ":"}
               first == CHOOSE k \in colons : \A j \in colons : k <= j
    <3>1. Netpart(a) = IF colons = {} THEN a ELSE SubSeq(a, 1, first - 1)
      BY DEF Netpart
    <3>2. colons = {L + 1}
      BY <1>6
    <3> HIDE DEF colons
    <3>3. first = L + 1 /\ colons # {}
      BY <1>2, <3>2
    <3> HIDE DEF first
    <3>4. first - 1 = L
      BY <1>2, <3>3
    <3>5. QED BY <3>1, <3>3, <3>4
  <2>2. /\ SubSeq(a, 1, L) \in Seq(S) /\ Len(SubSeq(a, 1, L)) = L
        /\ \A i \in 1..L : SubSeq(a, 1, L)[i] = a[i]
    <3>1. \A i \in 1..L : a[i] \in S
      BY <1>1, <1>5, ElementOfSeq DEF L
    <3>2. 1 \in Int /\ L \in Int /\ L - 1 + 1 = L /\ (IF 1 <= L THEN L - 1 + 1 ELSE 0) = L
          /\ \A i \in 1..L : 1 + i - 1 = i
      BY <1>2
    <3>3. QED BY <3>1, <3>2, SubSeqProperties
  <2>3. SubSeq(a, 1, L) = n
    BY <1>1, <1>5, <2>2, SeqEqual DEF L
  <2>4. QED BY <2>1, <2>3
<1>8. NodePart(a) = m
  <2> DEFINE e == L + 1 + M
  <2>1. NodePart(a) = SubSeq(a, L + 2, e)
    <3>1. (CHOOSE k \in {L + 1} : \A j \in {L + 1} : k >= j) = L + 1
      BY <1>2
    <3>2. 1 + (L + 1) = L + 2 /\ {L + 1} # {}
      BY <1>2
    <3>3. QED BY <1>4, <1>6, <3>1, <3>2 DEF NodePart
  <2>2. /\ SubSeq(a, L + 2, e) \in Seq(S) /\ Len(SubSeq(a, L + 2, e)) = M
        /\ \A i \in 1..M : SubSeq(a, L + 2, e)[i] = m[i]
    <3>1. \A i \in L + 2..e : a[i] \in S
      <4>1. \A i \in L + 2..e : i \in 1..Len(a)
        BY <1>2, <1>4
      <4>2. QED BY <1>4, <4>1, ElementOfSeq
    <3>2. L + 2 \in Int /\ e \in Int /\ e - (L + 2) + 1 = M
          /\ (IF L + 2 <= e THEN e - (L + 2) + 1 ELSE 0) = M
          /\ \A i \in 1..M : L + 2 + i - 1 = L + 1 + i
      BY <1>2
    <3> HIDE DEF e
    <3>3. /\ SubSeq(a, L + 2, e) \in Seq(S) /\ Len(SubSeq(a, L + 2, e)) = M
          /\ \A i \in 1..M : SubSeq(a, L + 2, e)[i] = a[L + 2 + i - 1]
      BY <3>1, <3>2, SubSeqProperties
    <3>4. QED BY <1>5, <3>2, <3>3
  <2>3. SubSeq(a, L + 2, e) = m
    BY <1>1, <2>2, SeqEqual DEF M
  <2>4. QED BY <2>1, <2>3
<1>9. QED BY <1>7, <1>8 DEF a

-----------------------------------------------------------------------------
(* The decision about a packet *)

Networks(addresses) == {Netpart(a) : a \in addresses}
NodeIds(addresses) == {NodePart(a) : a \in addresses}

\* What was there all the time is there now and has two parts, and the first decision
\* was made when it was there; what is there now was there at some time.
DecisionInv ==
  /\ rx \in RxSteps
  /\ rx # "waiting" /\ rx # "ended" => packet \in Packets
  /\ packet = NoPacket => always = {}
  /\ packet # NoPacket => /\ always \subseteq AddressesOf(files["addr"].has, packet.dev)
                          /\ AddressesOf(files["addr"].has, packet.dev) \subseteq ever
  /\ \A a \in always : IsAddress(a)
  /\ rx = "node" /\ Destination \in always => isMyNet
  /\ rx = "forward" => Destination \notin always
  /\ rx = "node" /\ isMyNet => packet.net \in Networks(ever)
  /\ rx = "local" => packet.net \in Networks(ever) /\ packet.node \in NodeIds(ever)
  /\ rx \in {"ask", "send"} => packet.next = "ping"

LEMMA EditKeepsDecision ==
  ASSUME DecisionInv, Edit
  PROVE  DecisionInv'
<1>1. always' \subseteq always /\ ever \subseteq ever'
  BY DEF Edit
<1>2. packet' # NoPacket => /\ always' \subseteq AddressesOf(files'["addr"].has, packet'.dev)
                            /\ AddressesOf(files'["addr"].has, packet'.dev) \subseteq ever'
  BY DEF Edit
<1>3. UNCHANGED <<rx, packet, isMyNet>>
  BY DEF Edit
<1>4. Networks(ever) \subseteq Networks(ever') /\ NodeIds(ever) \subseteq NodeIds(ever')
  BY <1>1 DEF Networks, NodeIds
<1>5. QED BY <1>1, <1>2, <1>3, <1>4 DEF DecisionInv, Destination, AddressesOf

\* The two decisions of the receiver.
LEMMA LoadsKeepDecision ==
  ASSUME DecisionInv, CheckNet \/ CheckNode
  PROVE  DecisionInv'
<1> DEFINE d == Destination
<1>1. packet \in Packets /\ packet # NoPacket /\ Own \subseteq ever
  BY PacketAssumption DEF DecisionInv, CheckNet, CheckNode, Own
<1>2. d \in always => Netpart(d) = packet.net /\ NodePart(d) = packet.node
  <2>1. packet.net \in Texts /\ packet.node \in Texts
    BY <1>1, PacketAssumption
  <2>2. d \in always => IsAddress(d)
    BY DEF DecisionInv
  <2>3. QED BY <2>1, <2>2, TwoParts DEF Destination
<1>3. d \in always => d \in Own
  BY <1>1 DEF DecisionInv, Own
<1>4. UNCHANGED <<files, packet, always, ever>>
  BY DEF CheckNet, CheckNode, Goes, vars
<1> HIDE DEF d
<1>5. CASE CheckNet
  <2>1. isMyNet' <=> packet.net \in Networks(Own)
    BY <1>5 DEF CheckNet, Networks
  <2>2. d \in always => isMyNet'
    BY <1>2, <1>3, <2>1 DEF Networks
  <2>3. isMyNet' => packet.net \in Networks(ever)
    BY <1>1, <2>1 DEF Networks
  <2>4. rx' = "node"
    BY <1>5 DEF CheckNet
  <2>5. QED BY <1>1, <1>4, <2>2, <2>3, <2>4 DEF DecisionInv, RxSteps, Destination, AddressesOf, d
<1>6. CASE CheckNode
  <2>1. rx = "node" /\ rx' = (IF isMyNet /\ HasNode(Own) THEN "local" ELSE "forward")
    BY <1>6 DEF CheckNode, Goes
  <2>2. d \in always => isMyNet /\ HasNode(Own)
    BY <1>2, <1>3, <2>1 DEF DecisionInv, HasNode, d
  <2>3. HasNode(Own) => packet.node \in NodeIds(ever)
    BY <1>1 DEF HasNode, NodeIds
  <2>4. rx' \in RxSteps /\ rx' \notin {"node", "ask", "send"}
        /\ (rx' = "forward" => d \notin always)
        /\ (rx' = "local" => packet.net \in Networks(ever) /\ packet.node \in NodeIds(ever))
    BY <2>1, <2>2, <2>3 DEF DecisionInv, RxSteps
  <2>5. QED BY <1>1, <1>4, <2>4 DEF DecisionInv, Destination, AddressesOf, d
<1>7. QED BY <1>5, <1>6

LEMMA DecisionInductive ==
  ASSUME TypeOK, DecisionInv, [ReceiverNext]_allvars
  PROVE  DecisionInv'
<1> USE DEF RxSteps
<1>1. CASE Edit
  BY <1>1, EditKeepsDecision
<1>2. ASSUME NEW dev \in Ifaces, Vanish(dev) PROVE DecisionInv'
  BY <1>2 DEF Vanish, vars, DecisionInv, Destination, AddressesOf
<1>3. ASSUME NEW k \in Packets, Arrive(k) PROVE DecisionInv'
  <2>1. rx' = "parse" /\ packet' = k /\ files' = files /\ k # NoPacket
    BY <1>3, PacketAssumption DEF Arrive, vars
  <2>2. always' = AddressesOf(files["addr"].has, k.dev) /\ ever' = always'
    BY <1>3 DEF Arrive
  <2>3. \A a \in always' : IsAddress(a)
    <3>1. AddrContent(files["addr"].has)
      BY FilesNamed DEF TypeOK, Content
    <3>2. QED BY <2>2, <3>1 DEF AddressesOf, AddrContent
  <2>4. QED BY <2>1, <2>2, <2>3 DEF DecisionInv, AddressesOf
<1>4. CASE CheckNet \/ CheckNode
  BY <1>4, LoadsKeepDecision
<1>5. ASSUME NEW s \in {"waiting", "ended"}, Finished(s) PROVE DecisionInv'
  BY <1>5 DEF Finished, DecisionInv
<1>6. CASE ParsePanics \/ CheckFails \/ Forward \/ ForwardPanics \/ Take \/ Send \/ AnswerFails
  BY <1>5, <1>6 DEF ParsePanics, CheckFails, Forward, ForwardPanics, Take, Send, AnswerFails
<1>7. ASSUME NEW s \in {"send", "ask"}, Goes(s), rx \in {"local", "ask"}, packet.next = "ping"
      PROVE  DecisionInv'
  BY <1>7 DEF Goes, vars, DecisionInv, Destination, AddressesOf
<1>8. CASE Answer \/ Ask
  BY <1>7, <1>8 DEF Answer, Ask, DecisionInv
<1>9. CASE Parse
  BY <1>9 DEF Parse, Goes, vars, DecisionInv, Destination, AddressesOf
<1>10. CASE UNCHANGED allvars
  BY <1>10 DEF allvars, rvars, vars, DecisionInv, Destination, AddressesOf
<1>11. QED BY <1>1, <1>2, <1>3, <1>4, <1>6, <1>8, <1>9, <1>10 DEF ReceiverNext, ReceiverStep

LEMMA DecisionAlways == ReceiverSpec => []DecisionInv
<1>1. ReceiverInit => DecisionInv
  BY DEF ReceiverInit, DecisionInv, RxSteps
<1>2. TypeOK /\ DecisionInv /\ [ReceiverNext]_allvars => DecisionInv'
  BY DecisionInductive
<1>3. QED BY <1>1, <1>2, FilesTypedForReceiver, PTL DEF ReceiverSpec

\* A packet to an address that its interface has had ever since the packet
\* arrived is not forwarded (nhipd/src/daemon.rs:307), for any packets,
\* commands and interleaving.
THEOREM MineIsAlwaysAccepted == ReceiverSpec => []MineIsAccepted
<1>1. DecisionInv => MineIsAccepted
  BY DEF DecisionInv, MineIsAccepted
<1>2. QED BY <1>1, DecisionAlways, PTL

\* A packet that is taken as local has its network and its NodeID from addresses of its
\* interface, though perhaps from two of them (nhipd/src/daemon.rs:292 and 300).
THEOREM HalvesAreAlwaysLocal == ReceiverSpec => []HalvesAreLocal
<1>1. DecisionInv => HalvesAreLocal
  BY DEF DecisionInv, HalvesAreLocal, Networks, NodeIds
<1>2. QED BY <1>1, DecisionAlways, PTL

\* A whole packet whose network is not too long and that is not a ping for this
\* daemon ends the receiver only because of the addresses or an interface that has
\* vanished, never because of routes.conf (nhipd/src/daemon.rs:309).
THEOREM ReceiverEndsForAddresses == ReceiverSpec => EndsForAddresses
<1> DEFINE Ending == (rx # "ended" /\ rx' = "ended" /\ packet.form = "proper" /\ ~Answering)
                       => ~Readable("addr") \/ packet.dev \notin present
<1>1. ASSUME [ReceiverNext]_allvars PROVE [Ending]_allvars
  <2>1. CASE CheckFails
    BY <2>1 DEF CheckFails, Here
  <2>2. CASE ParsePanics \/ ForwardPanics \/ AnswerFails
    BY <2>2 DEF ParsePanics, ForwardPanics, AnswerFails
  <2>3. CASE Parse \/ CheckNet \/ CheckNode \/ Forward \/ Take \/ Answer \/ Ask \/ Send
    BY <2>3 DEF Parse, CheckNet, CheckNode, Forward, Take, Answer, Ask, Send, Goes, Finished
  <2>4. CASE \E k \in Packets : Arrive(k)
    BY <2>4 DEF Arrive
  <2>5. CASE Edit \/ \E dev \in Ifaces : Vanish(dev)
    BY <2>5 DEF Edit, Vanish
  <2>6. CASE UNCHANGED allvars
    BY <2>6
  <2>7. QED BY <1>1, <2>1, <2>2, <2>3, <2>4, <2>5, <2>6 DEF ReceiverNext, ReceiverStep
<1>2. QED BY <1>1, PTL DEF ReceiverSpec, EndsForAddresses
=============================================================================
