--------------------------- MODULE RouteSelection ---------------------------
(***************************************************************************)
(* How forward_slowpass chooses a route and moves the pointer of a packet  *)
(* on its way from router to router.  Every router looks the packet up in  *)
(* its own routes.conf; what it does between the choice and the new        *)
(* pointer (MAC of the next hop, FastPath entry) either succeeds or drops  *)
(* the packet here.                                                        *)
(*                                                                         *)
(* The pointer is a byte offset into the text of the destination network,  *)
(* so texts are sequences of characters; offset p of the code is position  *)
(* p + 1 here.                                                             *)
(***************************************************************************)
EXTENDS Naturals, Sequences

CONSTANTS Chars,     \* characters of texts
          Netparts,  \* destination networks of packets
          Pointers,  \* pointers that packets arrive with
          Tables,    \* routing tables (routes.conf) of the routers
          Default,   \* the text "default"
          NoRoute    \* None

Protocols == {"static", "ospf", "rip", "unknown"}
Routes == [destination : Seq(Chars), proto : Protocols, priority : 0..255]

\* The longest network that get_link_hash has room for.
MaxHashed == 152

\* Networks of packets and destinations of routes are any texts: neither the
\* receiver nor insert_route nor load_routes checks them.
ASSUME TextAssumption ==
  /\ "." \in Chars
  /\ Netparts \subseteq Seq(Chars)
  /\ \A n \in Netparts : Len(n) <= 255
  /\ Default \in Seq(Chars)
  /\ Pointers \subseteq 0..255

ASSUME TableAssumption == Tables \subseteq Seq(Routes) /\ NoRoute \notin Routes

VARIABLES netpart, pointer,  \* of the packet
          table,             \* the routes that the router has loaded
          route,             \* the route that it has selected
          status             \* the packet: "arrived", "routed" or "dropped"

vars == <<netpart, pointer, table, route, status>>

-----------------------------------------------------------------------------
\* 0xFF: the pointer has reached the NodeID.
AtNodeId == 255

\* A pointer divides the network only strictly inside of it; otherwise both
\* parts are empty.
Inside == 0 < pointer /\ pointer < Len(netpart)
BeforePointer == IF Inside THEN SubSeq(netpart, 1, pointer) ELSE <<>>
AfterPointer == IF Inside THEN SubSeq(netpart, pointer + 1, Len(netpart)) ELSE <<>>

\* The first k characters of a text are whole blocks of it.
EndsBlock(text, k) == k = Len(text) \/ text[k + 1] = "."

\* processed_str after each block: a dot is put behind the text before the pointer.
Processed ==
  {BeforePointer \o <<".">> \o SubSeq(AfterPointer, 1, k) :
     k \in {n \in 0..Len(AfterPointer) : EndsBlock(AfterPointer, n)}}

Candidates ==
  {i \in DOMAIN table : table[i].destination = Default \/ table[i].destination \in Processed}

\* proto_to_ad: the administrative distance.
ProtoToAd(proto) == CASE proto = "static" -> 1
                      [] proto = "ospf" -> 110
                      [] proto = "rip" -> 120
                      [] proto = "unknown" -> 255

\* What each of the three retain calls of filter_candidates leaves of the set S.
NearestOf(S) == {i \in S : \A j \in S : ProtoToAd(table[i].proto) <= ProtoToAd(table[j].proto)}
PreferredOf(S) == {i \in S : \A j \in S : table[i].priority <= table[j].priority}
LongestOf(S) ==
  {i \in S : \A j \in S : Len(table[i].destination) >= Len(table[j].destination)}

\* A faulty variant: the first retain goes by priority.
Filtered_PriorityFirst(S) == LongestOf(NearestOf(PreferredOf(S)))

Filtered(S) == LongestOf(PreferredOf(NearestOf(S)))

\* candidates holds the default routes first, then longer and longer matches,
\* each in the order of the table.
Rank(i) == IF table[i].destination = Default THEN 0 ELSE Len(table[i].destination)
Sooner(i, j) == Rank(i) < Rank(j) \/ (Rank(i) = Rank(j) /\ i <= j)
FirstOf(S) == CHOOSE i \in S : \A j \in S : Sooner(i, j)

\* A faulty variant: the dot behind the destination is not skipped.
NextPointer_AtDot(r) ==
  LET raw == Len(r.destination) % 256
  IN CASE r.destination = Default -> pointer
       [] r.destination # Default ->
            IF raw >= Len(netpart) \/ netpart[raw + 1] = ":" THEN AtNodeId ELSE raw

\* The pointer skips the destination of the route and the dot after it.
NextPointer(r) ==
  LET raw == (Len(r.destination) + 1) % 256
  IN CASE r.destination = Default -> pointer
       [] r.destination # Default ->
            IF raw >= Len(netpart) \/ netpart[raw + 1] = ":" THEN AtNodeId ELSE raw

-----------------------------------------------------------------------------
Init == /\ netpart \in Netparts
        /\ pointer \in Pointers
        /\ table \in Tables
        /\ route = NoRoute
        /\ status = "arrived"

\* select_route finds a route.
Select == /\ status = "arrived"
          /\ Candidates # {}
          /\ route' = table[FirstOf(Filtered(Candidates))]
          /\ status' = "routed"
          /\ UNCHANGED <<netpart, pointer, table>>

\* select_route finds none: the packet ends here.
Unroutable == /\ status = "arrived"
              /\ Candidates = {}
              /\ status' = "dropped"
              /\ UNCHANGED <<netpart, pointer, table, route>>

\* The next hop has no MAC yet, or another step of forward_slowpass fails; a
\* network that get_link_hash has no room for ends the daemon.
Discard == /\ status = "routed"
           /\ status' = "dropped"
           /\ UNCHANGED <<netpart, pointer, table, route>>

\* A faulty variant: the route of the previous router is still selected.
Forward_KeepsRoute == /\ status = "routed"
                      /\ Len(netpart) <= MaxHashed
                      /\ pointer' = NextPointer(route)
                      /\ table' \in Tables
                      /\ status' = "arrived"
                      /\ UNCHANGED <<netpart, route>>

\* The packet is sent on with its new pointer and arrives at another router.
Forward == /\ status = "routed"
           /\ Len(netpart) <= MaxHashed
           /\ pointer' = NextPointer(route)
           /\ table' \in Tables
           /\ route' = NoRoute
           /\ status' = "arrived"
           /\ UNCHANGED netpart

Next == Select \/ Unroutable \/ Discard \/ Forward

Spec == Init /\ [][Next]_vars

-----------------------------------------------------------------------------
(* Properties *)

\* Types; a packet that is routed has a route of the router's own table.
TypeOK == /\ netpart \in Netparts
          /\ pointer \in 0..255
          /\ table \in Tables
          /\ status \in {"arrived", "routed", "dropped"}
          /\ \/ route = NoRoute /\ status # "routed"
             \/ route \in {table[i] : i \in DOMAIN table} /\ status # "arrived"

\* r is preferred to s: administrative distance, then priority, then length.
Better(r, s) ==
  \/ ProtoToAd(r.proto) < ProtoToAd(s.proto)
  \/ /\ ProtoToAd(r.proto) = ProtoToAd(s.proto)
     /\ \/ r.priority < s.priority
        \/ r.priority = s.priority /\ Len(r.destination) > Len(s.destination)

\* select_route and the three filters of filter_candidates, one after another,
\* choose a candidate that no other candidate beats in the documented order.
BestRoute ==
  status = "routed" =>
     /\ \E i \in Candidates : route = table[i]
     /\ \A i \in Candidates : ~Better(table[i], route)

\* A pointer inside the network only moves forward from router to router, by a dot
\* and a character at least, and stays inside until it is 0xFF, whatever the routes
\* are named: neither the 8 bits of the new pointer nor the end of the network is
\* missed.  A pointer that is not inside (0, 0xFF, behind the end) is moved by a
\* route to "." alone, to 2 or 0xFF: backwards too (forward_slowpass, new_pointer).
PointerForward ==
  [][pointer' # pointer =>
       \/ /\ Inside
          /\ pointer' > pointer + 1
          /\ pointer' < Len(netpart) \/ pointer' = AtNodeId
       \/ /\ ~Inside
          /\ route.destination = <<".">>
          /\ pointer' \in {2, AtNodeId}]_vars

\* validate_pointer, which the daemon never calls.
ValidPointer(p) ==
  p = 0 \/ p = AtNodeId \/ (p <= Len(netpart) /\ netpart[p] = ".")

\* The destinations that the documentation of select_route promises to match:
\* the network up to the end of some block behind the pointer.
Documented ==
  {SubSeq(netpart, 1, k) :
     k \in {n \in 1..Len(netpart) : n > pointer /\ EndsBlock(netpart, n)}}

HasDocumentedRoute == \E i \in DOMAIN table : table[i].destination \in Documented

\* A packet whose pointer is at the start of the network, as in every ping that
\* the daemon sends, is routed by any route to the network or to blocks of it.
StartIsRouted == (status = "dropped" /\ pointer = 0) => (route # NoRoute \/ ~HasDocumentedRoute)

\* The same for a pointer behind the dot between two blocks.
InnerIsRouted ==
  (status = "dropped" /\ pointer # 0 /\ ValidPointer(pointer))
     => (route # NoRoute \/ ~HasDocumentedRoute)

\* Of two candidates with equal distance and priority the longer prefix wins:
\* a default route, the empty prefix, never beats a match.
LongestPrefixWins ==
  (status = "routed" /\ route.destination = Default) =>
     \A i \in Candidates :
        (/\ table[i].proto = route.proto
         /\ table[i].priority = route.priority) => table[i].destination = Default
=============================================================================
