------------------------------- MODULE MCNharp -------------------------------
(* Instances of Nharp for TLC. *)
EXTENDS Nharp, TLC

CONSTANTS d1, d2, p1, p2,  \* daemons and peers
          l1, l2,          \* links
          n1, n2, n3,      \* NodeIDs
          m1, m2, m3, m4,  \* MACs
          x, y             \* network parts

Addr(net, node) == [net |-> net, node |-> node]

\* A daemon with an interface on each of two links, a peer on each, and another
\* daemon on the second; the peers use the same NodeID.
TwoLinks == {<<d1, l1>>, <<d1, l2>>, <<d2, l2>>, <<p1, l1>>, <<p2, l2>>}
TwoLinksMacs == <<d1, l1>> :> {m1} @@ <<d1, l2>> :> {m1} @@ <<d2, l2>> :> {m2}
                @@ <<p1, l1>> :> {m2, m3} @@ <<p2, l2>> :> {m4}
TwoLinksPool == <<d1, l1>> :> {Addr(x, n1)} @@ <<d1, l2>> :> {Addr(y, n1)}
                @@ <<d2, l2>> :> {Addr(y, n2)}
                @@ <<p1, l1>> :> {Addr(x, n3)} @@ <<p2, l2>> :> {Addr(y, n3)}
TwoLinksStart == <<d1, l1>> :> <<Addr(x, n1)>> @@ <<d1, l2>> :> <<Addr(y, n1)>>
                 @@ <<d2, l2>> :> <<Addr(y, n2)>>

\* Two daemons alone, or a daemon and a peer, for what is resolved at last.
TwoDaemons == {<<d1, l1>>, <<d2, l1>>}
TwoDaemonsMacs == <<d1, l1>> :> {m1} @@ <<d2, l1>> :> {m2}
TwoDaemonsPool == <<d1, l1>> :> {Addr(x, n1)} @@ <<d2, l1>> :> {Addr(x, n2)}
TwoDaemonsStart == <<d1, l1>> :> <<Addr(x, n1)>> @@ <<d2, l1>> :> <<Addr(x, n2)>>

DaemonAndPeer == {<<d1, l1>>, <<p1, l1>>}
DaemonAndPeerMacs == <<d1, l1>> :> {m1} @@ <<p1, l1>> :> {m3, m4}
DaemonAndPeerPool == <<d1, l1>> :> {Addr(x, n1)} @@ <<p1, l1>> :> {Addr(x, n3)}
DaemonAndPeerStart == <<d1, l1>> :> <<Addr(x, n1)>>

NoStations == {}
OneDaemon == {d1}
BothDaemons == {d1, d2}
OnePeer == {p1}
BothPeers == {p1, p2}
AllMacs == {m1, m2, m3, m4}
=============================================================================
