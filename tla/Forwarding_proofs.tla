-------------------------- MODULE Forwarding_proofs --------------------------
(***************************************************************************)
(* Proofs about Forwarding for any network, packets, changes and bounds:   *)
(* its types with the capacity of the table of labels, that no packet is   *)
(* sent on twice, and what is never forwarded at all.                      *)
(***************************************************************************)
EXTENDS Forwarding, FiniteSetTheorems, TLAPS

OfHost(h) == {p \in Ports : HostOf[p] = h}

\* No daemon has sent it.
ToSlowPath == {f \in Frames : f.order = "be" /\ f.hops = 0}

\* What can be in the slow path of h.
InSlowPath(h) ==
  {Idle, Ended}
    \cup [step : {"resolve"}, frame : ToSlowPath, port : OfHost(h),
          hop : Nodes \cup {"local"}, smac : Macs]
    \cup [step : {"install", "send"}, frame : ToSlowPath, port : OfHost(h),
          smac : Macs, dmac : Macs]
    \cup [step : Failures, frame : ToSlowPath, port : OfHost(h)]

TableOK(t) ==
  /\ IsFiniteSet(DOMAIN t)
  /\ Cardinality(DOMAIN t) <= Capacity
  /\ \A l \in DOMAIN t : l \in Labels /\ t[l] \in Entries

\* What a daemon has sent once is for no receiver.
OnWire == {f \in Frames : f.hops < 2 /\ (f.hops > 0 => f.order = "le")}

WireInv == wire \subseteq OnWire
TableInv == DOMAIN table = Hosts /\ \A h \in Hosts : TableOK(table[h])
SlowInv == DOMAIN slow = Hosts /\ \A h \in Hosts : slow[h] \in InSlowPath(h)

RouteInv == /\ routes \in [Hosts -> [Networks -> Routes \cup {NoRoute}]]
            /\ \A h \in Hosts, d \in Networks :
                 routes[h][d] # NoRoute => HostOf[routes[h][d].port] = h

SimpleTypes == /\ dropped \subseteq Frames
               /\ macs \in [Ports -> Macs]
               /\ neigh \in [Ports -> [Nodes -> Macs \cup {NoMac}]]
               /\ sent \in 0..MaxSent
               /\ changes \in 0..MaxChanges

ForwardInv == WireInv /\ TableInv /\ SlowInv /\ RouteInv /\ SimpleTypes

-----------------------------------------------------------------------------
(* Frames *)

LEMMA CopiesOnWire ==
  ASSUME NEW f \in OnWire, NEW port, NEW dmac
  PROVE  Copies(port, dmac, f) \subseteq OnWire
<1>1. ASSUME NEW q \in Ports PROVE [f EXCEPT !.to = q] \in OnWire
  BY DEF OnWire, Frames
<1>2. QED BY <1>1 DEF Copies

LEMMA SentOnWire ==
  ASSUME NEW f \in Frames, NEW l \in Labels, NEW t \in 0..255
  PROVE  [f EXCEPT !.order = "le", !.label = l, !.ttl = t, !.hops = 1] \in OnWire
<1> DEFINE g == [f EXCEPT !.order = "le", !.label = l, !.ttl = t, !.hops = 1]
<1>1. g \in Frames
  BY 1 \in 0..2, "le" \in {"le", "be"} DEF Frames
<1>2. g.hops = 1 /\ g.order = "le"
  BY DEF Frames
<1> HIDE DEF g
<1>3. g \in OnWire
  BY <1>1, <1>2 DEF OnWire
<1>4. QED BY <1>3 DEF g

LEMMA Minus1Type == ASSUME NEW t \in 0..255 PROVE Minus1(t) \in 0..255
BY DEF Minus1

LEMMA LinkHashIsLabel ==
  ASSUME NEW a \in Macs, NEW b \in Macs, NEW d \in Networks
  PROVE  LinkHash(a, b, d) \in Labels
<1>1. {a, b} \in SUBSET Macs
  OBVIOUS
<1>2. QED BY <1>1, LabelAssumption DEF LinkHash

LEMMA NoAnswerLeaves == \A answer \in RedirectAnswers : ~Leaves(answer)
BY DEF RedirectAnswers, Leaves

-----------------------------------------------------------------------------
(* Frames of other stations, and the XDP program *)

LEMMA WireOnly ==
  ASSUME ForwardInv, WireInv', UNCHANGED <<table, macs, neigh, routes, slow, changes>>,
         sent' \in 0..MaxSent, dropped' \subseteq Frames
  PROVE  ForwardInv'
BY DEF ForwardInv, TableInv, SlowInv, RouteInv, SimpleTypes

LEMMA PeerSendsKeeps ==
  ASSUME ForwardInv, NEW f \in PeerFrames, PeerSends(f)
  PROVE  ForwardInv'
<1>1. f \in OnWire
  BY LabelAssumption DEF OnWire
<1>2. WireInv'
  BY <1>1 DEF PeerSends, ForwardInv, WireInv
<1>3. sent' \in 0..MaxSent
  BY LinkAssumption DEF PeerSends, ForwardInv, SimpleTypes
<1>4. QED BY <1>2, <1>3, WireOnly DEF PeerSends, ForwardInv, SimpleTypes

LEMMA DropsKeep ==
  ASSUME ForwardInv, NEW f \in wire, Lose(f) \/ XdpEnds(f) \/ TakeLocal(f)
  PROVE  ForwardInv'
<1>1. wire' \subseteq wire
  BY DEF Lose, XdpEnds, TakeLocal
<1>2. WireInv'
  BY <1>1 DEF ForwardInv, WireInv
<1>3. QED BY <1>2, WireOnly DEF Lose, XdpEnds, TakeLocal, ForwardInv, SimpleTypes

\* Whatever the helper answers.
LEMMA RedirectDrops ==
  ASSUME NEW f, Redirect(f)
  PROVE  wire' = wire \ {f} /\ dropped' = dropped \cup {f}
<1> DEFINE e == table[HostOf[f.to]][f.label]
           out == [f EXCEPT !.label = e.next_label]
<1>1. PICK answer \in RedirectAnswers :
        /\ wire' = (wire \ {f}) \cup {c \in Copies(e.port, e.dmac, out) : Leaves(answer)}
        /\ dropped' = dropped \cup {g \in {f} : ~Leaves(answer)}
  BY DEF Redirect
<1>2. ~Leaves(answer)
  BY NoAnswerLeaves
<1>3. QED BY <1>1, <1>2

LEMMA RedirectKeeps ==
  ASSUME ForwardInv, NEW f \in wire, Redirect(f)
  PROVE  ForwardInv'
<1>1. f \in Frames
  BY DEF ForwardInv, WireInv, OnWire
<1>2. WireInv' /\ dropped' \subseteq Frames
  BY <1>1, RedirectDrops DEF ForwardInv, WireInv, SimpleTypes
<1>3. QED BY <1>2, WireOnly DEF Redirect, ForwardInv, SimpleTypes

-----------------------------------------------------------------------------
(* The slow path *)

LEMMA SlowOnly ==
  ASSUME ForwardInv, NEW h \in Hosts, NEW s \in InSlowPath(h),
         slow' = [slow EXCEPT ![h] = s], wire' \subseteq wire,
         UNCHANGED <<table, macs, neigh, routes, sent, changes, dropped>>
  PROVE  ForwardInv'
<1>1. SlowInv'
  BY DEF ForwardInv, SlowInv
<1>2. WireInv'
  BY DEF ForwardInv, WireInv
<1>3. QED BY <1>1, <1>2 DEF ForwardInv, TableInv, RouteInv, SimpleTypes

LEMMA ArrivalsKeep ==
  ASSUME ForwardInv, NEW f \in wire, NoRouteFor(f) \/ Choose(f)
  PROVE  ForwardInv'
<1> DEFINE h == HostOf[f.to]
           r == routes[h][f.net]
<1>1. f \in ToSlowPath /\ h \in Hosts /\ f.to \in OfHost(h) /\ f.net \in Networks
  <2>1. f.order = "be" /\ f \in OnWire
    BY DEF NoRouteFor, Choose, Arrives, ForwardInv, WireInv
  <2>2. f \in Frames /\ (f.hops > 0 => f.order = "le")
    BY <2>1 DEF OnWire
  <2>3. f.hops \in 0..2 /\ f.to \in Ports /\ f.net \in Networks
    BY <2>2 DEF Frames
  <2>4. f.hops = 0
    BY <2>1, <2>2, <2>3
  <2>5. QED BY <2>1, <2>2, <2>3, <2>4, LinkAssumption DEF ToSlowPath, OfHost
<1>2. CASE NoRouteFor(f)
  <2>1. [step |-> "no route", frame |-> f, port |-> f.to] \in InSlowPath(h)
    BY <1>1 DEF InSlowPath, Failures
  <2>2. QED BY <1>1, <1>2, <2>1, SlowOnly DEF NoRouteFor
<1>3. CASE Choose(f)
  <2> DEFINE s == [step |-> "resolve", frame |-> f, port |-> r.port, hop |-> r.hop,
                   smac |-> macs[r.port]]
  <2>1. r \in Routes /\ HostOf[r.port] = h
    BY <1>1, <1>3 DEF Choose, ForwardInv, RouteInv
  <2>2. r.port \in OfHost(h) /\ r.hop \in Nodes \cup {"local"} /\ macs[r.port] \in Macs
    BY <2>1 DEF Routes, OfHost, ForwardInv, SimpleTypes
  <2>3. s \in InSlowPath(h)
    BY <1>1, <2>2 DEF InSlowPath
  <2>4. slow' = [slow EXCEPT ![h] = s] /\ wire' \subseteq wire
        /\ UNCHANGED <<table, macs, neigh, routes, sent, changes, dropped>>
    BY <1>3 DEF Choose
  <2>5. QED BY <1>1, <2>3, <2>4, SlowOnly
<1>4. QED BY <1>2, <1>3

LEMMA ResolvingInv ==
  ASSUME ForwardInv, NEW h \in Hosts, slow[h].step = "resolve"
  PROVE  /\ slow[h].frame \in ToSlowPath
         /\ slow[h].port \in OfHost(h)
         /\ slow[h].smac \in Macs
         /\ slow[h].hop \in Nodes \cup {"local"}
<1>1. slow[h] \in InSlowPath(h)
  BY DEF ForwardInv, SlowInv
<1>2. slow[h] \notin {Idle, Ended}
  BY DEF Idle, Ended
<1>3. slow[h] \in [step : {"resolve"}, frame : ToSlowPath, port : OfHost(h),
                   hop : Nodes \cup {"local"}, smac : Macs]
  BY <1>1, <1>2 DEF InSlowPath, Failures
<1>4. QED BY <1>3

LEMMA InstallingInv ==
  ASSUME ForwardInv, NEW h \in Hosts, slow[h].step \in {"install", "send"}
  PROVE  /\ slow[h].frame \in ToSlowPath
         /\ slow[h].port \in OfHost(h)
         /\ slow[h].smac \in Macs
         /\ slow[h].dmac \in Macs
         /\ slow[h] \in [step : {"install", "send"}, frame : ToSlowPath, port : OfHost(h),
                         smac : Macs, dmac : Macs]
<1>1. slow[h] \in InSlowPath(h)
  BY DEF ForwardInv, SlowInv
<1>2. slow[h] \notin {Idle, Ended}
  BY DEF Idle, Ended
<1>3. slow[h] \in [step : {"install", "send"}, frame : ToSlowPath, port : OfHost(h),
                   smac : Macs, dmac : Macs]
  BY <1>1, <1>2 DEF InSlowPath, Failures
<1>4. QED BY <1>3

LEMMA ResolveKeeps ==
  ASSUME ForwardInv, NEW h \in Hosts, Resolve(h)
  PROVE  ForwardInv'
<1> DEFINE s == slow[h]
           t == [step |-> "install", frame |-> s.frame, port |-> s.port,
                 smac |-> s.smac, dmac |-> NextMac(s)]
<1>1. s.step = "resolve" /\ NextMac(s) # NoMac
  BY DEF Resolve
<1>2. /\ s.frame \in ToSlowPath
      /\ s.port \in OfHost(h)
      /\ s.smac \in Macs
      /\ s.hop \in Nodes \cup {"local"}
  BY <1>1, ResolvingInv
<1>3. s.port \in Ports /\ s.frame.node \in Nodes
  BY <1>2 DEF OfHost, ToSlowPath, Frames
<1>4. NextNode(s) \in Nodes
  BY <1>2, <1>3 DEF NextNode
<1>5. neigh[s.port][NextNode(s)] \in Macs \cup {NoMac}
  BY <1>3, <1>4 DEF ForwardInv, SimpleTypes
<1>6. NextMac(s) \in Macs
  BY <1>1, <1>5, LinkAssumption DEF NextMac
<1>7. t \in InSlowPath(h)
  BY <1>2, <1>6 DEF InSlowPath
<1>8. slow' = [slow EXCEPT ![h] = t] /\ wire' = wire
      /\ UNCHANGED <<table, macs, neigh, routes, sent, changes, dropped>>
  BY DEF Resolve
<1>9. QED BY <1>7, <1>8, SlowOnly

\* What is dropped, the end of it, and the end of the daemon.
LEMMA FailuresKeep ==
  ASSUME ForwardInv, NEW h \in Hosts, Miss(h) \/ InstallFails(h) \/ Drop(h)
  PROVE  ForwardInv'
<1>1. ASSUME NEW why \in Failures, Fails(h, why), slow[h].step \in {"resolve", "install"},
             UNCHANGED <<wire, table, macs, neigh, routes, sent, changes, dropped>>
      PROVE  ForwardInv'
  <2>1. slow[h].frame \in ToSlowPath /\ slow[h].port \in OfHost(h)
    BY <1>1, ResolvingInv, InstallingInv
  <2>2. [step |-> why, frame |-> slow[h].frame, port |-> slow[h].port] \in InSlowPath(h)
    BY <2>1 DEF InSlowPath
  <2>3. QED BY <1>1, <2>2, SlowOnly DEF Fails
<1>2. CASE Miss(h)
  BY <1>1, <1>2 DEF Miss, Failures
<1>3. CASE InstallFails(h)
  BY <1>1, <1>3 DEF InstallFails, Failures
<1>4. CASE Drop(h)
  BY <1>4, SlowOnly DEF Drop, InSlowPath
<1>5. QED BY <1>2, <1>3, <1>4

LEMMA PanicsKeep ==
  ASSUME ForwardInv, NEW h \in Hosts, HashPanics(h) \/ TtlPanics(h)
  PROVE  ForwardInv'
BY SlowOnly DEF HashPanics, TtlPanics, InSlowPath

LEMMA InstallKeeps ==
  ASSUME ForwardInv, NEW h \in Hosts, Install(h)
  PROVE  ForwardInv'
<1> DEFINE s == slow[h]
           f == s.frame
           key == Key(f)
           entry == [next_label |-> NextLabel(s), port |-> s.port, dmac |-> s.dmac]
           t == table[h]
           new == [l \in DOMAIN t \cup {key} |-> IF l = key THEN entry ELSE t[l]]
<1>1. s.step = "install" /\ Room(t, key)
      /\ table' = [table EXCEPT ![h] = new] /\ slow' = [slow EXCEPT ![h].step = "send"]
      /\ UNCHANGED <<wire, macs, neigh, routes, sent, changes, dropped>>
  BY DEF Install
<1>2. /\ f \in ToSlowPath
      /\ s.port \in OfHost(h)
      /\ s.smac \in Macs /\ s.dmac \in Macs
      /\ s \in [step : {"install", "send"}, frame : ToSlowPath, port : OfHost(h),
                smac : Macs, dmac : Macs]
  BY <1>1, InstallingInv
<1>3. f.label \in Labels /\ f.net \in Networks
  BY <1>2 DEF ToSlowPath, Frames
<1>4. NextLabel(s) \in Labels
  BY <1>2, <1>3, LinkHashIsLabel DEF NextLabel
<1>5. key \in Labels
  BY <1>3, LabelAssumption DEF Key
<1>6. entry \in Entries
  BY <1>2, <1>4 DEF Entries, OfHost
<1>8. TableOK(t)
  BY DEF ForwardInv, TableInv
<1>9. IsFiniteSet(DOMAIN new) /\ Cardinality(DOMAIN new) <= Capacity
  <2>1. DOMAIN new = DOMAIN t \cup {key} /\ IsFiniteSet(DOMAIN t) /\ Cardinality(DOMAIN t) <= Capacity
    BY <1>8 DEF TableOK
  <2>2. CASE key \in DOMAIN t
    <3>1. DOMAIN new = DOMAIN t
      BY <2>1, <2>2
    <3>2. QED BY <2>1, <3>1
  <2>3. CASE key \notin DOMAIN t
    <3>1. Cardinality(DOMAIN t) < Capacity
      BY <1>1, <2>3 DEF Room
    <3>2. IsFiniteSet(DOMAIN t \cup {key})
          /\ Cardinality(DOMAIN t \cup {key}) = Cardinality(DOMAIN t) + 1
      BY <2>1, <2>3, FS_AddElement
    <3>3. Cardinality(DOMAIN t) \in Nat
      BY <2>1, FS_CardinalityType
    <3>4. QED BY <2>1, <3>1, <3>2, <3>3, LinkAssumption
  <2>4. QED BY <2>2, <2>3
<1>11. TableOK(new)
  BY <1>5, <1>6, <1>8, <1>9 DEF TableOK
<1>12. TableInv'
  BY <1>1, <1>11 DEF ForwardInv, TableInv
<1>13. SlowInv'
  <2>1. [s EXCEPT !.step = "send"] \in InSlowPath(h)
    BY <1>2 DEF InSlowPath
  <2>2. QED BY <1>1, <2>1 DEF ForwardInv, SlowInv
<1>14. QED BY <1>1, <1>12, <1>13 DEF ForwardInv, WireInv, RouteInv, SimpleTypes

LEMMA TransmitKeeps ==
  ASSUME ForwardInv, NEW h \in Hosts, Transmit(h)
  PROVE  ForwardInv'
<1> DEFINE s == slow[h]
           out == Rebuilt(s)
<1>1. s.step = "send" /\ wire' \subseteq wire \cup Copies(s.port, s.dmac, out)
      /\ slow' = [slow EXCEPT ![h] = Idle]
      /\ UNCHANGED <<table, macs, neigh, routes, sent, changes, dropped>>
  BY DEF Transmit
<1>2. s.frame \in ToSlowPath /\ s.smac \in Macs /\ s.dmac \in Macs
  BY <1>1, InstallingInv
<1>3. s.frame \in Frames /\ s.frame.hops = 0 /\ s.frame.net \in Networks
      /\ s.frame.ttl \in 0..255
  BY <1>2 DEF ToSlowPath, Frames
<1>4. NextLabel(s) \in Labels
  BY <1>2, <1>3, LinkHashIsLabel DEF NextLabel
<1>5. Minus1(s.frame.ttl) \in 0..255
  BY <1>3, Minus1Type
<1>6. out \in OnWire
  <2>1. out = [s.frame EXCEPT !.order = "le", !.label = NextLabel(s),
                              !.ttl = Minus1(s.frame.ttl), !.hops = 1]
    BY <1>3 DEF Rebuilt, Frames
  <2> HIDE DEF out
  <2>2. QED BY <1>3, <1>4, <1>5, <2>1, SentOnWire
<1>7. WireInv'
  BY <1>1, <1>6, CopiesOnWire DEF ForwardInv, WireInv
<1>8. SlowInv'
  BY <1>1 DEF ForwardInv, SlowInv, InSlowPath
<1>9. QED BY <1>1, <1>7, <1>8 DEF ForwardInv, TableInv, RouteInv, SimpleTypes

-----------------------------------------------------------------------------
(* Other tasks, commands and restarts *)

LEMMA ChangeInv == ASSUME ForwardInv, Change PROVE changes' \in 0..MaxChanges
BY LinkAssumption DEF Change, ForwardInv, SimpleTypes

LEMMA RestartKeeps ==
  ASSUME ForwardInv, NEW h \in Hosts, Restart(h)
  PROVE  ForwardInv'
<1>1. TableOK(NoEntries)
  <2>1. DOMAIN NoEntries = {}
    BY DEF NoEntries
  <2>2. IsFiniteSet(DOMAIN NoEntries) /\ Cardinality(DOMAIN NoEntries) <= Capacity
    BY <2>1, FS_EmptySet, LinkAssumption
  <2>3. QED BY <2>1, <2>2 DEF TableOK
<1>2. TableInv'
  BY <1>1 DEF Restart, ForwardInv, TableInv
<1>3. SlowInv'
  BY DEF Restart, ForwardInv, SlowInv, InSlowPath
<1>4. SimpleTypes'
  BY ChangeInv DEF Restart, ForwardInv, SimpleTypes
<1>5. QED BY <1>2, <1>3, <1>4 DEF Restart, ForwardInv, WireInv, RouteInv

LEMMA SurroundingsKeep ==
  ASSUME ForwardInv, Surroundings
  PROVE  ForwardInv'
<1>1. ASSUME NEW p \in Ports, NEW m \in Macs \ {Broadcast}, ChangeMac(p, m)
      PROVE  ForwardInv'
  <2>1. SimpleTypes'
    BY <1>1, ChangeInv DEF ChangeMac, ForwardInv, SimpleTypes
  <2>2. QED BY <1>1, <2>1
            DEF ChangeMac, ForwardInv, WireInv, TableInv, SlowInv, RouteInv
<1>2. ASSUME NEW h \in Hosts, NEW d \in Networks, NEW r \in Routes \cup {NoRoute},
             ChangeRoute(h, d, r)
      PROVE  ForwardInv'
  <2>1. RouteInv'
    BY <1>2 DEF ChangeRoute, ForwardInv, RouteInv
  <2>2. SimpleTypes'
    BY <1>2, ChangeInv DEF ChangeRoute, ForwardInv, SimpleTypes
  <2>3. QED BY <1>2, <2>1, <2>2
            DEF ChangeRoute, ForwardInv, WireInv, TableInv, SlowInv
<1>3. ASSUME NEW p \in Ports, NEW n \in Nodes, NEW m \in Macs \ {Broadcast}, Learn(p, n, m)
      PROVE  ForwardInv'
  <2>1. SimpleTypes'
    BY <1>3, ChangeInv DEF Learn, ForwardInv, SimpleTypes
  <2>2. QED BY <1>3, <2>1
            DEF Learn, ForwardInv, WireInv, TableInv, SlowInv, RouteInv
<1>4. QED BY <1>1, <1>2, <1>3, RestartKeeps DEF Surroundings

-----------------------------------------------------------------------------
LEMMA ForwardInvInit == Init => ForwardInv
<1> SUFFICES ASSUME Init PROVE ForwardInv
  OBVIOUS
<1>1. TableInv
  <2>1. DOMAIN NoEntries = {}
    BY DEF NoEntries
  <2>2. IsFiniteSet(DOMAIN NoEntries) /\ Cardinality(DOMAIN NoEntries) <= Capacity
    BY <2>1, FS_EmptySet, LinkAssumption
  <2>3. ASSUME NEW h \in Hosts PROVE TableOK(table[h])
    BY <2>1, <2>2 DEF Init, TableOK
  <2>4. QED BY <2>3 DEF Init, TableInv
<1>2. SlowInv
  BY DEF Init, SlowInv, InSlowPath
<1>3. RouteInv /\ SimpleTypes
  BY LinkAssumption DEF Init, RouteInv, SimpleTypes
<1>4. QED BY <1>1, <1>2, <1>3 DEF Init, ForwardInv, WireInv

LEMMA ForwardInvInductive ==
  ASSUME ForwardInv, [Next]_vars
  PROVE  ForwardInv'
<1>1. CASE UNCHANGED vars
  BY <1>1 DEF vars, ForwardInv, WireInv, TableInv, SlowInv, RouteInv, SimpleTypes
<1>2. ASSUME NEW f \in wire, FrameStep(f) PROVE ForwardInv'
  BY <1>2, DropsKeep, RedirectKeeps, ArrivalsKeep DEF FrameStep
<1>3. ASSUME NEW h \in Hosts, SlowStep(h) PROVE ForwardInv'
  BY <1>3, ResolveKeeps, FailuresKeep, PanicsKeep, InstallKeeps, TransmitKeeps DEF SlowStep
<1>4. QED BY <1>1, <1>2, <1>3, PeerSendsKeeps, SurroundingsKeep DEF Next

LEMMA ForwardInvTypes == ForwardInv => TypeOK
<1> SUFFICES ASSUME ForwardInv PROVE TypeOK
  OBVIOUS
<1>1. wire \subseteq Frames
  BY DEF ForwardInv, WireInv, OnWire
<1>2. ASSUME NEW h \in Hosts
      PROVE  /\ Cardinality(DOMAIN table[h]) <= Capacity
             /\ \A l \in DOMAIN table[h] : l \in Labels /\ table[h][l] \in Entries
  BY DEF ForwardInv, TableInv, TableOK
<1>3. ASSUME NEW h \in Hosts
      PROVE  /\ slow[h].step \in {"idle", "ended", "resolve", "install", "send"} \cup Failures
             /\ slow[h].step \notin {"idle", "ended"} =>
                  slow[h].frame \in Frames /\ HostOf[slow[h].port] = h
  <2>1. slow[h] \in InSlowPath(h)
    BY DEF ForwardInv, SlowInv
  <2>2. CASE slow[h] \in {Idle, Ended}
    BY <2>2 DEF Idle, Ended
  <2>3. CASE slow[h] \notin {Idle, Ended}
    BY <2>1, <2>3 DEF InSlowPath, ToSlowPath, OfHost
  <2>4. QED BY <2>2, <2>3
<1>4. QED BY <1>1, <1>2, <1>3 DEF TypeOK, ForwardInv, RouteInv, SimpleTypes

LEMMA ForwardInvAlways == Spec => []ForwardInv
<1>1. ForwardInv /\ [Next]_vars => ForwardInv'
  BY ForwardInvInductive
<1>2. QED BY <1>1, ForwardInvInit, PTL DEF Spec

\* Types, and the capacity of FASTPATH_TABLE (src/nhipd-ebpf/src/main.rs:29).
THEOREM ForwardingTypeCorrect == Spec => []TypeOK
BY ForwardInvAlways, ForwardInvTypes, PTL

\* No packet is sent on by two daemons (nhipd/src/forward.rs:464, nhip-cfg/src/lib.rs:159),
\* for any network of hosts, packets, labels, changes and restarts.
THEOREM NothingCirculates == Spec => []NoCirculation
<1>1. ForwardInv => NoCirculation
  BY DEF ForwardInv, WireInv, OnWire, NoCirculation
<1>2. QED BY <1>1, ForwardInvAlways, PTL

\* A frame that hits never leaves, whatever the table says and the helper answers: the
\* program returns XDP_REDIRECT only when no port was noted
\* (src/nhipd-ebpf/src/main.rs:130).
THEOREM HitsNeverLeave == Spec => [][\A f \in wire : Redirect(f) => wire' = wire \ {f}]_vars
<1>1. [Next]_vars => [\A f \in wire : Redirect(f) => wire' = wire \ {f}]_vars
  BY RedirectDrops
<1>2. QED BY <1>1, PTL DEF Spec

-----------------------------------------------------------------------------
(* What the size of an entry means *)

\* No entry, no decision, and no packet that a daemon or its XDP program has sent.
NothingForwarded ==
  /\ \A h \in Hosts : DOMAIN table[h] = {} /\ slow[h].step # "send"
  /\ dropped = {}
  /\ wire \subseteq PeerFrames

LEMMA NothingIsForwarded ==
  ASSUME EntrySize # ValueSize, ForwardInv, NothingForwarded, [Next]_vars
  PROVE  NothingForwarded'
<1>1. ASSUME wire' \subseteq wire \cup PeerFrames, UNCHANGED <<table, slow, dropped>>
      PROVE  NothingForwarded'
  BY <1>1 DEF NothingForwarded
<1>2. ASSUME NEW h \in Hosts, NEW s, s.step # "send", slow' = [slow EXCEPT ![h] = s],
             wire' \subseteq wire, UNCHANGED <<table, dropped>>
      PROVE  NothingForwarded'
  BY <1>2 DEF NothingForwarded, ForwardInv, SlowInv
<1>3. CASE \E f \in PeerFrames : PeerSends(f)
  BY <1>1, <1>3 DEF PeerSends
<1>4. ASSUME NEW f \in wire, FrameStep(f) PROVE NothingForwarded'
  <2>1. HostOf[f.to] \in Hosts
    BY LinkAssumption DEF ForwardInv, WireInv, OnWire, Frames
  <2>2. ~Redirect(f)
    BY <2>1 DEF Redirect, Hits, NothingForwarded
  <2>3. CASE Lose(f) \/ XdpEnds(f) \/ TakeLocal(f)
    BY <1>1, <2>3 DEF Lose, XdpEnds, TakeLocal
  <2>4. CASE NoRouteFor(f)
    <3> DEFINE s == [step |-> "no route", frame |-> f, port |-> f.to]
    <3>1. s.step # "send"
      OBVIOUS
    <3> HIDE DEF s
    <3>2. QED BY <1>2, <2>1, <2>4, <3>1 DEF NoRouteFor, s
  <2>5. CASE Choose(f)
    <3> DEFINE r == routes[HostOf[f.to]][f.net]
               s == [step |-> "resolve", frame |-> f, port |-> r.port, hop |-> r.hop,
                     smac |-> macs[r.port]]
    <3>1. s.step # "send"
      OBVIOUS
    <3> HIDE DEF s
    <3>2. QED BY <1>2, <2>1, <2>5, <3>1 DEF Choose, s
  <2>6. QED BY <1>4, <2>2, <2>3, <2>4, <2>5 DEF FrameStep
<1>5. ASSUME NEW h \in Hosts, SlowStep(h) PROVE NothingForwarded'
  <2>1. ~Install(h) /\ ~TtlPanics(h) /\ ~Transmit(h)
    BY DEF Install, TtlPanics, Transmit, NothingForwarded
  <2>2. CASE Resolve(h)
    <3> DEFINE s == [step |-> "install", frame |-> slow[h].frame, port |-> slow[h].port,
                     smac |-> slow[h].smac, dmac |-> NextMac(slow[h])]
    <3>1. s.step # "send"
      OBVIOUS
    <3> HIDE DEF s
    <3>2. QED BY <1>2, <2>2, <3>1 DEF Resolve, s
  <2>3. ASSUME NEW why \in Failures, Fails(h, why), UNCHANGED <<wire, table, dropped>>
        PROVE  NothingForwarded'
    <3> DEFINE s == [step |-> why, frame |-> slow[h].frame, port |-> slow[h].port]
    <3>1. s.step # "send"
      BY DEF Failures
    <3> HIDE DEF s
    <3>2. QED BY <1>2, <2>3, <3>1 DEF Fails, s
  <2>4. CASE Miss(h)
    <3>1. \E why \in Failures : Fails(h, why)
      BY <2>4 DEF Miss, Failures
    <3>2. QED BY <2>3, <2>4, <3>1 DEF Miss
  <2>5. CASE InstallFails(h)
    BY <2>3, <2>5 DEF InstallFails, Failures
  <2>6. CASE Drop(h)
    <3>1. Idle.step # "send"
      BY DEF Idle
    <3>2. QED BY <1>2, <2>6, <3>1 DEF Drop
  <2>7. CASE HashPanics(h)
    <3>1. Ended.step # "send"
      BY DEF Ended
    <3>2. QED BY <1>2, <2>7, <3>1 DEF HashPanics
  <2>8. QED BY <1>5, <2>1, <2>2, <2>4, <2>5, <2>6, <2>7 DEF SlowStep
<1>7. ASSUME NEW h \in Hosts, Restart(h) PROVE NothingForwarded'
  <2>1. DOMAIN NoEntries = {} /\ Idle.step # "send"
    BY DEF NoEntries, Idle
  <2>2. QED BY <1>7, <2>1 DEF Restart, NothingForwarded, ForwardInv, TableInv, SlowInv
<1>8. CASE Surroundings
  BY <1>1, <1>7, <1>8 DEF Surroundings, ChangeMac, ChangeRoute, Learn
<1>9. CASE UNCHANGED vars
  BY <1>1, <1>9 DEF vars
<1>10. QED BY <1>3, <1>4, <1>5, <1>8, <1>9 DEF Next

\* Where ForwardEntry of the daemon and the value of the map differ in size, as they do
\* on a 64-bit host, no daemon ever forwards anything, in the slow path or the fast
\* path: insert_fastpath comes before the transmission, and its error ends the handler
\* (nhipd/src/forward.rs:52 and 450).
THEOREM WideEntriesForwardNothing ==
  ASSUME EntrySize # ValueSize
  PROVE  Spec => []NothingForwarded
<1>1. Init => NothingForwarded
  BY DEF Init, NothingForwarded, NoEntries, Idle
<1>2. ForwardInv /\ NothingForwarded /\ [Next]_vars => NothingForwarded'
  BY NothingIsForwarded
<1>3. QED BY <1>1, <1>2, ForwardInvAlways, PTL DEF Spec
=============================================================================
