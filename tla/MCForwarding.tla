---------------------------- MODULE MCForwarding ----------------------------
(***************************************************************************)
(* Instances of Forwarding for TLC: a station (a) on the first link, host  *)
(* h1 between the links, host h2 and another station (c) on the second.    *)
(***************************************************************************)
EXTENDS Forwarding, Sequences, TLC

AllHosts == {"h1", "h2"}
AllPorts == {"p1", "p2", "q2"}
AllLinks == {"l1", "l2"}
Host == "p1" :> "h1" @@ "p2" :> "h1" @@ "q2" :> "h2"
Link == "p1" :> "l1" @@ "p2" :> "l2" @@ "q2" :> "l2"
AllMacs == {"a", "c", "m1", "m2", "m3", "all"}
PortMacs == "p1" :> "m1" @@ "p2" :> "m2" @@ "q2" :> "m3"

\* Networks: of the first link, of the second link, and two behind h2, one of them with
\* a long name.
AllNets == {"n1", "n2", "n3", "n4"}
Long == {"n4"}
AllNodes == {"1", "2", "3", "9", "everybody"}
Own == "p1" :> {<<"n1", "1">>} @@ "p2" :> {<<"n2", "1">>} @@ "q2" :> {<<"n2", "2">>}

\* A label is the default one, or of a set of MACs and a network, as the hash gives it
\* or with its bytes swapped.
NoLabel == <<"none">>
Egress == <<"egress">>
LabelOf(s, d) == <<"native", s, d>>
AllLabels == {NoLabel, Egress} \cup ({"native", "swapped"} \X (SUBSET AllMacs) \X AllNets)
Swapped(l) ==
  IF l \in {NoLabel, Egress} THEN l
  ELSE <<IF l[1] = "native" THEN "swapped" ELSE "native", l[2], l[3]>>

Via(port, hop) == [port |-> port, hop |-> hop]
NoRoutes == [d \in AllNets |-> NoRoute]
FirstRoutes == "h1" :> ("n2" :> Via("p2", "local") @@ "n3" :> Via("p2", "2") @@ "n1" :> NoRoute
                           @@ "n4" :> Via("p2", "2"))
            @@ "h2" :> ("n3" :> Via("q2", "3") @@ "n2" :> Via("q2", "local") @@ "n1" :> Via("q2", "1")
                           @@ "n4" :> NoRoute)
Unknown == [n \in AllNodes |-> NoMac]
FirstNeigh == "p1" :> Unknown @@ "p2" :> [Unknown EXCEPT !["2"] = "m3", !["3"] = "c"]
           @@ "q2" :> [Unknown EXCEPT !["1"] = "m2", !["3"] = "c"]

Frame(to, order, label, ttl, net, node, src) ==
  [to |-> to, order |-> order, label |-> label, ttl |-> ttl, net |-> net, node |-> node,
   src |-> src, hops |-> 0]

\* Station a sends with or without labels, in both orders.
FirstLabel(order, d) ==
  LET l == LabelOf({"a", "m1"}, d) IN IF order = "be" THEN Swapped(l) ELSE l
FromA(order, d, node, labels) ==
  {Frame("p1", order, l, 2, d, node, "n1") : l \in labels}

\* Frames of one kind, in both orders.
OneLabel == FromA("be", "n2", "3", {FirstLabel("be", "n2")})
         \cup FromA("le", "n2", "3", {FirstLabel("le", "n2")})

\* With and without label to two networks, to everybody, and to the host itself; to a
\* long network, and with TTL 0.
Mixed == FromA("be", "n3", "9", {FirstLabel("be", "n3"), NoLabel})
         \cup FromA("le", "n3", "9", {FirstLabel("le", "n3")})
         \cup FromA("le", "n2", "3", {NoLabel})
         \cup FromA("be", "n2", "everybody", {FirstLabel("be", "n2")})
         \cup FromA("be", "n1", "1", {NoLabel})
         \cup FromA("be", "n4", "9", {NoLabel})
         \cup {[f EXCEPT !.ttl = 0] : f \in FromA("be", "n2", "3", {NoLabel})}

ToUnknown == FromA("be", "n2", "9", {NoLabel})
ToFirstLink == FromA("be", "n1", "3", {NoLabel})
=============================================================================
