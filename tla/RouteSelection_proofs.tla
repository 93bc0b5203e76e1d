----------------------- MODULE RouteSelection_proofs -----------------------
(***************************************************************************)
(* Proofs about RouteSelection for all networks and routing tables: a      *)
(* candidate that no other one beats is chosen, and a pointer inside the    *)
(* network only moves forward.                                             *)
(***************************************************************************)
EXTENDS RouteSelection, WellFoundedInduction, SequenceTheorems, TLAPS

\* A non-empty set of numbers has a least element.
LEMMA LeastExists ==
  ASSUME NEW N, N \subseteq Nat, N # {}
  PROVE  \E n \in N : \A m \in N : n <= m
<1> DEFINE Less == {pair \in Nat \X Nat : pair[1] < pair[2]}
<1>1. IsWellFoundedOn(Less, Nat)
  BY NatLessThanWellFounded DEF OpToRel
<1>2. PICK n \in N : \A m \in N : <<m, n>> \notin Less
  <2> HIDE DEF Less
  <2>1. QED BY <1>1, WFMin
<1>3. ASSUME NEW m \in N PROVE n <= m
  <2>1. m \in Nat /\ n \in Nat /\ <<m, n>> \notin Less
    BY <1>2
  <2>2. ~(m < n)
    BY <2>1
  <2>3. QED BY <2>1, <2>2
<1>4. QED BY <1>3

\* A function into the numbers takes its least value somewhere.
LEMMA MinimizerExists ==
  ASSUME NEW S, S # {}, NEW f, \A i \in S : f[i] \in Nat
  PROVE  \E i \in S : \A j \in S : f[i] <= f[j]
<1> DEFINE N == {f[i] : i \in S}
<1>1. N \subseteq Nat /\ N # {}
  OBVIOUS
<1>2. PICK n \in N : \A m \in N : n <= m
  <2> HIDE DEF N
  <2>1. QED BY <1>1, LeastExists
<1>3. QED BY <1>2

LEMMA DistanceIsNat ==
  ASSUME NEW proto \in Protocols PROVE ProtoToAd(proto) \in Nat
  BY DEF Protocols, ProtoToAd

\* The routes of a table are routes.
LEMMA RoutesTyped ==
  ASSUME table \in Tables, NEW i \in DOMAIN table
  PROVE  /\ table[i] \in Routes
         /\ table[i].proto \in Protocols
         /\ table[i].priority \in Nat
         /\ table[i].destination \in Seq(Chars)
         /\ Len(table[i].destination) \in Nat
<1>1. table \in Seq(Routes)
  BY TableAssumption
<1>2. table[i] \in Routes
  BY <1>1
<1>3. /\ table[i].proto \in Protocols /\ table[i].priority \in 0..255
      /\ table[i].destination \in Seq(Chars)
  BY <1>2 DEF Routes
<1>4. table[i].priority \in Nat
  <2> DEFINE n == table[i].priority
  <2>1. n \in 0..255
    BY <1>3
  <2> HIDE DEF n
  <2>2. n \in Nat
    BY <2>1
  <2>3. QED BY <2>2 DEF n
<1>5. Len(table[i].destination) \in Nat
  BY <1>3, LenProperties
<1>6. QED BY <1>1, <1>2, <1>3, <1>4, <1>5

\* What the code compares a destination with: the text before the pointer, a
\* dot, and whole blocks behind the pointer.
LEMMA ProcessedLength ==
  ASSUME netpart \in Netparts, NEW text \in Processed, pointer \in Nat
  PROVE  \/ ~Inside /\ text = <<".">>
         \/ /\ Inside
            /\ text \in Seq(Chars)
            /\ text[pointer + 1] = "."
            /\ \A k \in 1..pointer : text[k] = netpart[k]
            /\ Len(text) > pointer
            /\ Len(text) <= Len(netpart) + 1
<1>1. netpart \in Seq(Chars) /\ Len(netpart) \in Nat
  BY TextAssumption
<1>2. PICK k \in 0..Len(AfterPointer) :
        text = BeforePointer \o <<".">> \o SubSeq(AfterPointer, 1, k)
  BY DEF Processed
<1>3. CASE ~Inside
  <2>1. BeforePointer = <<>> /\ AfterPointer = <<>>
    BY <1>3 DEF BeforePointer, AfterPointer
  <2>2. k = 0 /\ SubSeq(AfterPointer, 1, k) = <<>>
    BY <2>1
  <2>3. text = <<>> \o <<".">> \o <<>>
    BY <1>2, <2>1, <2>2
  <2>4. <<>> \o <<".">> \o <<>> = <<".">>
    OBVIOUS
  <2>5. QED BY <1>3, <2>3, <2>4
<1>4. CASE Inside
  <2>1. 0 < pointer /\ pointer < Len(netpart)
    BY <1>4 DEF Inside
  <2>2. /\ BeforePointer \in Seq(Chars) /\ Len(BeforePointer) = pointer
        /\ \A j \in 1..pointer : BeforePointer[j] = netpart[j]
    BY <1>1, <1>4, <2>1 DEF BeforePointer
  <2>3. /\ AfterPointer \in Seq(Chars)
        /\ Len(AfterPointer) = Len(netpart) - pointer
    BY <1>1, <1>4, <2>1 DEF AfterPointer
  <2> DEFINE tail == SubSeq(AfterPointer, 1, k)
  <2>4. tail \in Seq(Chars) /\ k \in Nat /\ Len(tail) = k
       /\ k <= Len(netpart) - pointer
    BY <1>1, <1>2, <2>1, <2>3
  <2> HIDE DEF tail
  <2> DEFINE head == BeforePointer \o <<".">>
  <2>5. /\ head \in Seq(Chars) /\ Len(head) = pointer + 1
        /\ \A j \in 1..pointer : head[j] = netpart[j]
        /\ head[pointer + 1] = "."
    <3>1. <<".">> \in Seq(Chars) /\ Len(<<".">>) = 1 /\ <<".">>[1] = "."
      <4>1. "." \in Chars
        BY TextAssumption
      <4>2. Len(<<".">>) = 1
        OBVIOUS
      <4>3. <<".">>[1] = "."
        OBVIOUS
      <4>4. <<".">> \in Seq(Chars)
        BY <4>1
      <4>5. QED BY <4>2, <4>3, <4>4
    <3>2. /\ head \in Seq(Chars) /\ Len(head) = pointer + 1
          /\ \A j \in 1..(pointer + 1) :
                head[j] = IF j <= pointer THEN BeforePointer[j] ELSE <<".">>[j - pointer]
      BY <2>1, <2>2, <3>1, ConcatProperties
    <3>3. QED BY <2>1, <2>2, <3>1, <3>2
  <2>6. text = head \o tail
    BY <1>2 DEF tail
  <2> HIDE DEF head
  <2>7. /\ text \in Seq(Chars) /\ Len(text) = pointer + 1 + k
        /\ \A j \in 1..(pointer + 1) : text[j] = head[j]
    <3>1. /\ text \in Seq(Chars) /\ Len(text) = (pointer + 1) + k
          /\ \A j \in 1..((pointer + 1) + k) :
                text[j] = IF j <= pointer + 1 THEN head[j] ELSE tail[j - (pointer + 1)]
      <4>1. /\ head \o tail \in Seq(Chars)
            /\ Len(head \o tail) = Len(head) + Len(tail)
            /\ \A j \in 1..(Len(head) + Len(tail)) :
                  (head \o tail)[j] = IF j <= Len(head) THEN head[j] ELSE tail[j - Len(head)]
        BY <2>4, <2>5, ConcatProperties
      <4>2. QED BY <2>4, <2>5, <2>6, <4>1
    <3>2. QED BY <3>1
  <2>8. QED BY <1>1, <1>4, <2>1, <2>4, <2>5, <2>7
<1>5. QED BY <1>3, <1>4

\* A candidate is the default route or at most one character longer than the
\* network.
LEMMA CandidateLength ==
  ASSUME table \in Tables, netpart \in Netparts, pointer \in Nat, NEW i \in Candidates
  PROVE  Len(table[i].destination) <= Len(netpart) + Len(Default) + 1
<1>1. CASE table[i].destination = Default
  BY <1>1, TextAssumption
<1>2. CASE table[i].destination \in Processed
  <2>1. Len(netpart) \in Nat /\ Len(Default) \in Nat
    BY TextAssumption
  <2> DEFINE text == table[i].destination
  <2>2. text = <<".">> \/ Len(text) <= Len(netpart) + 1
    BY <1>2, ProcessedLength
  <2> HIDE DEF text
  <2>3. Len(text) <= Len(netpart) + Len(Default) + 1
    BY <2>1, <2>2
  <2>4. QED BY <2>3 DEF text
<1>3. QED BY <1>1, <1>2 DEF Candidates

-----------------------------------------------------------------------------
(* The choice *)

\* Every filter of a set of routes leaves one of them, and so one is first.
LEMMA ChoiceExists ==
  ASSUME table \in Tables, netpart \in Netparts, pointer \in Nat, Candidates # {}
  PROVE  FirstOf(Filtered(Candidates)) \in Filtered(Candidates)
<1> DEFINE near == NearestOf(Candidates)
           pref == PreferredOf(near)
           long == LongestOf(pref)
<1>1. \A i \in Candidates : i \in DOMAIN table /\ i \in Nat
  BY TableAssumption DEF Candidates
<1>2. near # {} /\ near \subseteq Candidates
  <2> DEFINE f == [i \in Candidates |-> ProtoToAd(table[i].proto)]
  <2>1. \A i \in Candidates : f[i] \in Nat
    BY <1>1, RoutesTyped, DistanceIsNat
  <2>2. \E i \in Candidates : \A j \in Candidates : f[i] <= f[j]
    <3> HIDE DEF f
    <3>1. QED BY <2>1, MinimizerExists
  <2>3. QED BY <2>2 DEF NearestOf
<1>3. pref # {} /\ pref \subseteq near
  <2> DEFINE f == [i \in near |-> table[i].priority]
  <2>1. \A i \in near : f[i] \in Nat
    BY <1>1, <1>2, RoutesTyped
  <2>2. \E i \in near : \A j \in near : f[i] <= f[j]
    <3> HIDE DEF f, near
    <3>1. QED BY <1>2, <2>1, MinimizerExists
  <2>3. QED BY <2>2 DEF PreferredOf
<1>4. long # {} /\ long \subseteq pref
  <2> DEFINE bound == Len(netpart) + Len(Default) + 1
             f == [i \in pref |-> bound - Len(table[i].destination)]
  <2>1. \A i \in pref : /\ Len(table[i].destination) \in Nat
                        /\ Len(table[i].destination) <= bound
    BY <1>1, <1>2, <1>3, RoutesTyped, CandidateLength
  <2>2. bound \in Nat
    BY TextAssumption
  <2>3. \A i \in pref : f[i] \in Nat
    <3> HIDE DEF bound, pref
    <3>1. QED BY <2>1, <2>2
  <2>4. PICK i \in pref : \A j \in pref : f[i] <= f[j]
    <3> HIDE DEF f, pref
    <3>1. QED BY <1>3, <2>3, MinimizerExists
  <2>5. \A j \in pref : Len(table[i].destination) >= Len(table[j].destination)
    <3> HIDE DEF bound, pref
    <3>1. QED BY <2>1, <2>2, <2>4
  <2>6. QED BY <2>5 DEF LongestOf
<1>5. \E i \in long : \A j \in long : Sooner(i, j)
  <2> DEFINE f == [i \in long |-> Rank(i)]
             soonest == {i \in long : \A j \in long : f[i] <= f[j]}
  <2>1. \A i \in long : i \in Nat /\ Rank(i) \in Nat
    BY <1>1, <1>2, <1>3, <1>4, RoutesTyped DEF Rank
  <2>2. soonest # {} /\ soonest \subseteq Nat
    <3> HIDE DEF long
    <3>1. \A i \in long : f[i] \in Nat
      BY <2>1
    <3>2. \E i \in long : \A j \in long : f[i] <= f[j]
      <4> HIDE DEF f
      <4>1. QED BY <1>4, <3>1, MinimizerExists
    <3>3. QED BY <2>1, <3>2
  <2>3. PICK i \in soonest : \A j \in soonest : i <= j
    <3> HIDE DEF soonest
    <3>1. QED BY <2>2, LeastExists
  <2>4. ASSUME NEW j \in long PROVE Sooner(i, j)
    <3> HIDE DEF long
    <3>1. i \in long /\ Rank(i) <= Rank(j)
      BY <2>3
    <3>2. CASE Rank(i) = Rank(j)
      <4>1. j \in soonest
        BY <3>1, <3>2
      <4>2. QED BY <2>3, <3>2, <4>1 DEF Sooner
    <3>3. QED BY <2>1, <3>1, <3>2 DEF Sooner
  <2>5. QED BY <2>3, <2>4
<1>6. Filtered(Candidates) = long
  BY DEF Filtered
<1>7. QED
  <2> HIDE DEF long
  <2>1. QED BY <1>5, <1>6 DEF FirstOf

\* What a filter leaves is not beaten by anything that it was given.
LEMMA FilteredIsBest ==
  ASSUME table \in Tables, NEW i \in Filtered(Candidates), NEW j \in Candidates
  PROVE  i \in Candidates /\ ~Better(table[j], table[i])
<1> DEFINE near == NearestOf(Candidates)
           pref == PreferredOf(near)
<1>1. /\ i \in Candidates /\ i \in near /\ i \in pref
      /\ \A k \in pref : Len(table[i].destination) >= Len(table[k].destination)
  BY DEF Filtered, LongestOf, PreferredOf, NearestOf
<1>2. \A k \in near : table[i].priority <= table[k].priority
  BY <1>1 DEF PreferredOf
<1>3. \A k \in Candidates : ProtoToAd(table[i].proto) <= ProtoToAd(table[k].proto)
  BY <1>1 DEF NearestOf
<1>4. \A k \in {i, j} :
        /\ ProtoToAd(table[k].proto) \in Nat
        /\ table[k].priority \in Nat
        /\ Len(table[k].destination) \in Nat
  BY <1>1, RoutesTyped, DistanceIsNat DEF Candidates
<1>5. ASSUME Better(table[j], table[i]) PROVE FALSE
  <2>1. ProtoToAd(table[j].proto) = ProtoToAd(table[i].proto)
    BY <1>3, <1>4, <1>5 DEF Better
  <2>2. j \in near
    BY <1>3, <2>1 DEF NearestOf
  <2>3. table[j].priority = table[i].priority
    BY <1>2, <1>4, <1>5, <2>1, <2>2 DEF Better
  <2>4. j \in pref
    BY <1>2, <2>2, <2>3 DEF PreferredOf
  <2>5. Len(table[j].destination) > Len(table[i].destination)
    BY <1>4, <1>5, <2>1, <2>3 DEF Better
  <2>6. QED BY <1>1, <1>4, <2>4, <2>5
<1>6. QED BY <1>1, <1>5

-----------------------------------------------------------------------------
(* The invariant *)

\* The choice depends on the packet and the table alone.
LEMMA SameChoice ==
  ASSUME UNCHANGED <<netpart, pointer, table>>
  PROVE  Filtered(Candidates)' = Filtered(Candidates)
<1>1. Inside' = Inside /\ netpart' = netpart /\ pointer' = pointer /\ table' = table
  BY DEF Inside
<1>2. BeforePointer' = BeforePointer /\ AfterPointer' = AfterPointer
  BY <1>1 DEF BeforePointer, AfterPointer
<1>3. Processed' = Processed
  BY <1>2 DEF Processed, EndsBlock
<1>4. Candidates' = Candidates
  BY <1>1, <1>3 DEF Candidates
<1>5. NearestOf(Candidates)' = NearestOf(Candidates)
  BY <1>1, <1>4 DEF NearestOf
<1>6. PreferredOf(NearestOf(Candidates))' = PreferredOf(NearestOf(Candidates))
  BY <1>1, <1>5 DEF PreferredOf
<1>7. QED BY <1>1, <1>6 DEF Filtered, LongestOf

\* The route of a packet that is routed is what the filters leave.
RouteChosen == status = "routed" => \E i \in Filtered(Candidates) : route = table[i]

RouteInv == TypeOK /\ RouteChosen

LEMMA PointerTyped ==
  ASSUME TypeOK, status = "routed"
  PROVE  NextPointer(route) \in 0..255
<1>1. route \in {table[i] : i \in DOMAIN table} /\ table \in Tables
  BY TableAssumption DEF TypeOK
<1>2. Len(route.destination) \in Nat
  BY <1>1, RoutesTyped
<1>3. (Len(route.destination) + 1) % 256 \in 0..255
  <2> DEFINE n == Len(route.destination) + 1
  <2>1. n \in Nat
    BY <1>2
  <2> HIDE DEF n
  <2>2. n % 256 \in 0..255
    BY <2>1
  <2>3. QED BY <2>2 DEF n
<1>4. pointer \in 0..255 /\ AtNodeId \in 0..255
  BY DEF TypeOK, AtNodeId
<1>5. QED BY <1>3, <1>4 DEF NextPointer

LEMMA InitRoute == Init => RouteInv
<1>1. Init => TypeOK
  BY TextAssumption DEF Init, TypeOK
<1>2. QED BY <1>1 DEF Init, RouteInv, RouteChosen

LEMMA NextRoute == RouteInv /\ [Next]_vars => RouteInv'
<1> SUFFICES ASSUME RouteInv, [Next]_vars PROVE RouteInv'
  OBVIOUS
<1>1. TypeOK /\ table \in Tables /\ netpart \in Netparts /\ pointer \in Nat
  BY DEF RouteInv, TypeOK
<1>2. CASE Select
  <2>1. PICK i \in Filtered(Candidates) : route' = table[i]
    BY <1>1, <1>2, ChoiceExists DEF Select
  <2>2. i \in DOMAIN table
    BY <1>1, <2>1, FilteredIsBest DEF Candidates, Filtered, LongestOf, PreferredOf, NearestOf
  <2>3. TypeOK'
    BY <1>1, <1>2, <2>1, <2>2 DEF Select, TypeOK
  <2>4. RouteChosen'
    BY <1>2, <2>1, SameChoice DEF Select, RouteChosen
  <2>5. QED BY <2>3, <2>4 DEF RouteInv
<1>3. CASE Unroutable
  BY <1>1, <1>3 DEF Unroutable, TypeOK, RouteInv, RouteChosen
<1>4. CASE Discard
  BY <1>1, <1>4 DEF Discard, TypeOK, RouteInv, RouteChosen
<1>5. CASE Forward
  <2>1. pointer' \in 0..255
    BY <1>1, <1>5, PointerTyped DEF Forward
  <2>2. QED BY <1>1, <1>5, <2>1 DEF Forward, TypeOK, RouteInv, RouteChosen
<1>6. CASE UNCHANGED vars
  BY <1>1, <1>6, SameChoice DEF vars, TypeOK, RouteInv, RouteChosen
<1>7. QED BY <1>2, <1>3, <1>4, <1>5, <1>6 DEF Next

LEMMA RouteInvariant == Spec => []RouteInv
  BY InitRoute, NextRoute, PTL DEF Spec

\* Types, for all tables: a packet that is routed has a route of its router.
THEOREM SelectionTypeCorrect == Spec => []TypeOK
<1>1. RouteInv => TypeOK
  BY DEF RouteInv
<1>2. QED BY <1>1, RouteInvariant, PTL

\* The three filters always leave a candidate, and choose one that no other
\* candidate beats.
THEOREM SelectionIsBest == Spec => []BestRoute
<1>1. RouteInv => BestRoute
  <2> SUFFICES ASSUME RouteInv, status = "routed"
               PROVE  /\ \E i \in Candidates : route = table[i]
                      /\ \A j \in Candidates : ~Better(table[j], route)
    BY DEF BestRoute
  <2>1. PICK i \in Filtered(Candidates) : route = table[i]
    BY DEF RouteInv, RouteChosen
  <2>2. table \in Tables
    BY DEF RouteInv, TypeOK
  <2>3. i \in Candidates
    BY DEF Filtered, LongestOf, PreferredOf, NearestOf
  <2>4. \A j \in Candidates : ~Better(table[j], route)
    BY <2>1, <2>2, FilteredIsBest
  <2>5. QED BY <2>1, <2>3, <2>4
<1>2. QED BY <1>1, RouteInvariant, PTL

-----------------------------------------------------------------------------
(* The pointer *)

LEMMA PacketTyped ==
  ASSUME RouteInv
  PROVE  Len(netpart) \in Nat /\ Len(netpart) <= 255 /\ pointer \in Nat
<1>1. netpart \in Netparts /\ pointer \in 0..255
  BY DEF RouteInv, TypeOK
<1>2. netpart \in Seq(Chars) /\ Len(netpart) <= 255
  BY <1>1, TextAssumption
<1>3. Len(netpart) \in Nat
  BY <1>2, LenProperties
<1>4. QED BY <1>1, <1>2, <1>3

\* No block of the text is empty, as validate_addr wants it.
WellFormed(text) ==
  \A k \in DOMAIN text : text[k] = "." =>
     /\ 1 < k /\ k < Len(text)
     /\ text[k + 1] # "."

\* The length of a specific route that is chosen: the text before the pointer, a
\* dot, and the blocks matched; the dot of a block start would be doubled.  Outside
\* of the network only the text "." is compared.
LEMMA SpecificRoute ==
  ASSUME RouteInv, status = "routed", route.destination # Default
  PROVE  \/ ~Inside /\ route.destination = <<".">>
         \/ /\ Inside /\ pointer < Len(route.destination)
            /\ Len(route.destination) <= Len(netpart) + 1
            /\ Len(route.destination) \in Nat
            /\ WellFormed(route.destination) => netpart[pointer] # "."
<1>1. PICK i \in Filtered(Candidates) : route = table[i]
  BY DEF RouteInv, RouteChosen
<1>2. table \in Tables /\ netpart \in Netparts /\ pointer \in Nat
  BY DEF RouteInv, TypeOK
<1>3. i \in DOMAIN table /\ route.destination \in Processed
  BY <1>1, <1>2 DEF Filtered, LongestOf, PreferredOf, NearestOf, Candidates
<1>4. Len(route.destination) \in Nat /\ route.destination \in Seq(Chars)
  BY <1>1, <1>2, <1>3, RoutesTyped
<1>5. CASE ~Inside
  BY <1>2, <1>3, <1>5, ProcessedLength
<1>6. CASE Inside
  <2>1. /\ route.destination[pointer + 1] = "."
        /\ \A k \in 1..pointer : route.destination[k] = netpart[k]
        /\ Len(route.destination) > pointer
        /\ Len(route.destination) <= Len(netpart) + 1
    BY <1>2, <1>3, <1>6, ProcessedLength
  <2>2. ASSUME WellFormed(route.destination) PROVE netpart[pointer] # "."
    <3>1. pointer \in 1..pointer /\ pointer \in DOMAIN route.destination
      BY <1>2, <1>4, <1>6, <2>1 DEF Inside
    <3>2. route.destination[pointer] # "."
      BY <1>4, <2>1, <2>2, <3>1 DEF WellFormed
    <3>3. QED BY <2>1, <3>1, <3>2
  <2>3. QED BY <1>4, <1>6, <2>1, <2>2
<1>7. QED BY <1>5, <1>6

\* Whatever networks packets carry and whatever routes are named, a pointer inside
\* the network moves forward only and never wraps around in its 8 bits: longer
\* networks than 152 bytes never get that far (label.rs:41-44).  Outside of the
\* network nothing but a route to "." moves it (nhipd/src/forward.rs:434-445).
THEOREM PointerMovesForward == Spec => PointerForward
<1>1. RouteInv /\ [Next]_vars
        => [pointer' # pointer =>
              \/ /\ Inside
                 /\ pointer' > pointer + 1
                 /\ pointer' < Len(netpart) \/ pointer' = AtNodeId
              \/ /\ ~Inside
                 /\ route.destination = <<".">>
                 /\ pointer' \in {2, AtNodeId}]_vars
  <2> SUFFICES ASSUME RouteInv, Next, pointer' # pointer
               PROVE  \/ /\ Inside
                         /\ pointer' > pointer + 1
                         /\ pointer' < Len(netpart) \/ pointer' = AtNodeId
                      \/ /\ ~Inside
                         /\ route.destination = <<".">>
                         /\ pointer' \in {2, AtNodeId}
    BY DEF vars
  <2>1. status = "routed" /\ pointer' = NextPointer(route) /\ Len(netpart) <= 152
    BY DEF Next, Select, Unroutable, Discard, Forward, MaxHashed
  <2>2. route.destination # Default
    BY <2>1 DEF NextPointer
  <2> DEFINE length == Len(route.destination)
             raw == (length + 1) % 256
  <2>3. Len(netpart) \in Nat /\ pointer \in Nat
    BY PacketTyped
  <2>4. pointer' = IF raw >= Len(netpart) \/ netpart[raw + 1] = ":" THEN AtNodeId ELSE raw
    BY <2>1, <2>2 DEF NextPointer
  <2>5. CASE ~Inside
    <3>1. route.destination = <<".">>
      BY <2>1, <2>2, <2>5, SpecificRoute
    <3>2. length = 1
      BY <3>1
    <3> HIDE DEF length
    <3>3. raw = 2
      BY <3>2
    <3>4. QED BY <2>4, <2>5, <3>1, <3>3
  <2>6. CASE Inside
    <3>1. pointer < length /\ length <= Len(netpart) + 1 /\ length \in Nat
      BY <2>1, <2>2, <2>6, SpecificRoute
    <3> HIDE DEF length
    <3>2. raw = length + 1
      BY <2>1, <2>3, <3>1
    <3>3. QED BY <2>1, <2>3, <2>4, <2>6, <3>1, <3>2 DEF Inside, AtNodeId
  <2>7. QED BY <2>5, <2>6
<1>2. QED BY <1>1, RouteInvariant, PTL DEF Spec, PointerForward

-----------------------------------------------------------------------------
(* What the doubled dot means *)

\* A packet whose pointer is at the start of a block, of the network (0) or of the
\* NodeID (0xFF) takes a default route, or one to a text with an empty block, whatever the
\* table holds for its network: the texts that its blocks are compared with begin with a
\* dot or have two in a row (nhipd/src/forward.rs:235-245, 375).
OnlyDefaults ==
  status = "routed" /\ ValidPointer(pointer) =>
     route.destination = Default \/ ~WellFormed(route.destination)

THEOREM BlocksTakeDefaultsOnly == Spec => []OnlyDefaults
<1>1. RouteInv => OnlyDefaults
  <2> SUFFICES ASSUME RouteInv, status = "routed", route.destination # Default,
                      WellFormed(route.destination), ValidPointer(pointer)
               PROVE  FALSE
    BY DEF OnlyDefaults
  <2>1. route.destination # <<".">>
    BY DEF WellFormed
  <2>2. Inside /\ netpart[pointer] # "."
    BY <2>1, SpecificRoute
  <2>3. Len(netpart) \in Nat /\ Len(netpart) <= 255 /\ pointer \in Nat
    BY PacketTyped
  <2>4. QED BY <2>2, <2>3 DEF ValidPointer, Inside, AtNodeId
<1>2. QED BY <1>1, RouteInvariant, PTL

\* So a valid pointer is moved by a route with an empty block alone: with destinations
\* as validate_addr wants them, a ping, which starts with pointer 0, ends with pointer 0.
THEOREM ValidPointersRest ==
  Spec => [][ValidPointer(pointer) /\ pointer' # pointer =>
               ~WellFormed(route.destination)]_vars
<1>1. RouteInv /\ OnlyDefaults /\ [Next]_vars
        => [ValidPointer(pointer) /\ pointer' # pointer =>
              ~WellFormed(route.destination)]_vars
  BY DEF Next, Select, Unroutable, Discard, Forward, OnlyDefaults, NextPointer, vars
<1>2. QED BY <1>1, RouteInvariant, BlocksTakeDefaultsOnly, PTL DEF Spec
=============================================================================
