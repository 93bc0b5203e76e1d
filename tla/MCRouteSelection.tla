-------------------------- MODULE MCRouteSelection --------------------------
(* Instances of RouteSelection for TLC. *)
EXTENDS RouteSelection

Letters == {"a", "b", "c", "d", "e", "f", "l", "t", "u", ".", ":"}
DefaultText == <<"d", "e", "f", "a", "u", "l", "t">>
ShortNet == <<"a">>
TwoBlocks == <<"a", ".", "b">>
LongBlock == <<"a", "b", ".", "c", ".", "d">>
LongTail == <<"a", "b", ".", "c", "c", "c", "c">>
ManyBlocks == <<"a", "a", ".", "b", ".", "c", ".", "d", ".", "e">>

\* A network that get_link_hash has no room for.
TooLong == [i \in 1..153 |-> IF i = 2 THEN "." ELSE "a"]

AllNets == {ShortNet, TwoBlocks, LongBlock, LongTail, ManyBlocks, TooLong}
AllPointers == 0..5 \cup {AtNodeId}

\* Tables of at most two routes to the given destinations.
Upto2(S) == {<<>>} \cup {<<r>> : r \in S} \cup {<<r, s>> : r, s \in S}
RoutesTo(D, protos, prios) == [destination : D, proto : protos, priority : prios]

\* Destinations that a pointer into the first block of LongBlock or LongTail
\* can match, some that it cannot, and texts with empty blocks.
Destinations == {DefaultText, TwoBlocks, <<"a", ".", "b", ".", "c">>,
                 <<"a", ".", "b", ".", "c", "c", "c", "c">>, <<"a", "b">>,
                 <<".">>, <<"a", ".">>}
MixedTables == Upto2(RoutesTo(Destinations, {"static", "ospf"}, {0, 1}))

\* Static routes of priority 0 to the network of the packet and to its blocks.
PlainTables == Upto2(RoutesTo({DefaultText, <<"a">>, <<"a", "b">>, TwoBlocks,
                               <<"a", "b", ".", "c">>, LongBlock}, {"static"}, {0}))
=============================================================================
