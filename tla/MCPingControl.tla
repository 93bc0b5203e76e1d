--------------------------- MODULE MCPingControl ---------------------------
(* Instances of PingControl for TLC. *)
EXTENDS PingControl, TLC

CONSTANTS c1, c2,             \* clients
          peerA, peerB, home  \* addresses, NodeIDs written in decimal

\* Two clients of one host that ping different destinations.
TwoClients == {c1, c2}
PlainAddresses == {peerA, peerB, home}
TwoDests == c1 :> peerA @@ c2 :> peerB
HomeSource == [c \in Clients |-> home]

TwoThenOne == c1 :> 2 @@ c2 :> 1
OnceEach == [c \in Clients |-> 1]

\* peerA was typed with letter multipliers (1m12k36); the daemon prints peerB.
LetterDest == c1 :> peerA
OneClient == {c1}
Decimal == [a \in Addresses |-> IF a = peerA THEN peerB ELSE a]
SameText == [a \in Addresses |-> a]
=============================================================================
