------------------------ MODULE AddressParsing_proofs ------------------------
(***************************************************************************)
(* Proof about AddressParsing for any texts and limits: a network that     *)
(* validate_addr accepts fits the packet, although the lengths of its      *)
(* blocks are added up.                                                    *)
(***************************************************************************)
EXTENDS AddressParsing, FiniteSetTheorems, TLAPS

\* The separators before pos.
DotsRead == {k \in 1..pos - 1 : addr[k] = Dot}

\* What is known of the characters before pos: block_len bounds every block of
\* them, because it is never reset, and block_count counts the separators.
ReadFits ==
  /\ \A k \in 1..pos - 1 : addr[k] \in Letters \cup {Dot}
  /\ IsFiniteSet(DotsRead)
  /\ block_count = Cardinality(DotsRead) + 1
  /\ block_count <= MaxBlocks
  /\ block_len <= MaxBlockLen
  /\ \A a, b \in 1..pos - 1 : InBlock(addr, a, b) => b - a < block_len

ParseInv ==
  /\ Len(addr) \in Nat
  /\ pos \in 1..Len(addr) + 1
  /\ block_count \in Nat \ {0}
  /\ block_len \in Nat
  /\ network_verdict = "start" => pos = 1 /\ block_count = 1 /\ block_len = 0
  /\ network_verdict \in {"running", "Ok"} => Len(addr) # 0 /\ ReadFits
  /\ network_verdict = "Ok" => pos = Len(addr) + 1

LEMMA LetterKeepsInv ==
  ASSUME ParseInv, TakeLetter
  PROVE  ParseInv'
<1> USE TextAssumption
<1>1. /\ network_verdict = "running" /\ pos \in 1..Len(addr) /\ addr[pos] # Dot
      /\ UNCHANGED <<addr, block_count>> /\ block_len' = block_len + 1
  BY DEF TakeLetter, AtByte, ParseInv
<1>2. CASE block_len + 1 > MaxBlockLen
  BY <1>1, <1>2 DEF TakeLetter, ParseInv
<1>3. CASE ~(block_len + 1 > MaxBlockLen)
  <2>1. pos' = pos + 1 /\ UNCHANGED network_verdict
    BY <1>3 DEF TakeLetter
  <2>2. 1..pos' - 1 = 1..pos
    BY <1>1, <2>1
  <2>3. UNCHANGED DotsRead
    <3>1. DotsRead' = {k \in 1..pos : addr[k] = Dot}
      BY <1>1, <2>2 DEF DotsRead
    <3>2. \A k \in 1..pos : addr[k] = Dot => k \in 1..pos - 1
      BY <1>1
    <3>3. 1..pos - 1 \subseteq 1..pos
      BY <1>1
    <3>4. QED BY <3>1, <3>2, <3>3 DEF DotsRead
  <2>4. \A k \in 1..pos' - 1 : addr'[k] \in Letters \cup {Dot}
    BY <1>1, <2>2 DEF ParseInv, ReadFits, TakeLetter
  <2>5. ASSUME NEW a \in 1..pos, NEW b \in 1..pos, InBlock(addr, a, b)
        PROVE  b - a < block_len + 1
    <3>1. CASE a = pos
      BY <1>1, <3>1 DEF ParseInv
    <3>2. CASE a # pos /\ b # pos
      <4>1. a \in 1..pos - 1 /\ b \in 1..pos - 1
        BY <1>1, <3>2
      <4>2. b - a < block_len
        BY <1>1, <2>5, <4>1 DEF ParseInv, ReadFits
      <4>3. QED BY <4>1, <4>2 DEF ParseInv
    <3>3. CASE a # pos /\ b = pos
      <4>1. a \in 1..pos - 1 /\ pos - 1 \in 1..pos - 1 /\ InBlock(addr, a, pos - 1)
        BY <1>1, <2>5, <3>3 DEF InBlock
      <4>2. (pos - 1) - a < block_len
        BY <1>1, <4>1 DEF ParseInv, ReadFits
      <4>3. QED BY <1>1, <3>3, <4>2 DEF ParseInv
    <3>4. QED BY <3>1, <3>2, <3>3
  <2>6. \A a, b \in 1..pos' - 1 : InBlock(addr', a, b) => b - a < block_len'
    BY <1>1, <2>2, <2>5
  <2>7. ReadFits'
    BY <1>1, <1>3, <2>3, <2>4, <2>6 DEF ParseInv, ReadFits
  <2>8. QED BY <1>1, <2>1, <2>7 DEF ParseInv
<1>4. QED BY <1>2, <1>3

LEMMA SeparatorKeepsInv ==
  ASSUME ParseInv, TakeSeparator
  PROVE  ParseInv'
<1> USE TextAssumption
<1>1. /\ network_verdict = "running" /\ pos \in 1..Len(addr) /\ addr[pos] = Dot
      /\ UNCHANGED <<addr, block_len>> /\ block_count' = block_count + 1 /\ block_len # 0
  BY DEF TakeSeparator, AtByte, ParseInv
<1>2. CASE block_count + 1 > MaxBlocks
  BY <1>1, <1>2 DEF TakeSeparator, ParseInv
<1>3. CASE ~(block_count + 1 > MaxBlocks)
  <2>1. pos' = pos + 1 /\ UNCHANGED network_verdict
    BY <1>3 DEF TakeSeparator
  <2>2. 1..pos' - 1 = (1..pos - 1) \cup {pos}
    BY <1>1, <2>1
  <2>3. DotsRead' = DotsRead \cup {pos} /\ pos \notin DotsRead
    BY <1>1, <2>2 DEF DotsRead
  <2>4. IsFiniteSet(DotsRead') /\ Cardinality(DotsRead') = Cardinality(DotsRead) + 1
    BY <1>1, <2>3, FS_AddElement DEF ParseInv, ReadFits
  <2>5. \A k \in 1..pos' - 1 : addr'[k] \in Letters \cup {Dot}
    BY <1>1, <2>2 DEF ParseInv, ReadFits
  <2>6. ASSUME NEW a \in 1..pos, NEW b \in 1..pos, InBlock(addr, a, b)
        PROVE  b - a < block_len
    <3>1. b # pos
      BY <1>1, <2>6 DEF InBlock
    <3>2. CASE a = pos
      BY <1>1, <3>1, <3>2 DEF ParseInv
    <3>3. CASE a # pos
      BY <1>1, <2>6, <3>1, <3>3 DEF ParseInv, ReadFits
    <3>4. QED BY <3>2, <3>3
  <2>7. \A a, b \in 1..pos' - 1 : InBlock(addr', a, b) => b - a < block_len'
    BY <1>1, <2>1, <2>6
  <2>8. ReadFits'
    BY <1>1, <1>3, <2>4, <2>5, <2>7 DEF ParseInv, ReadFits
  <2>9. QED BY <1>1, <2>1, <2>8 DEF ParseInv
<1>4. QED BY <1>2, <1>3

LEMMA BeginKeepsInv ==
  ASSUME ParseInv, BeginNetwork
  PROVE  ParseInv'
<1>1. UNCHANGED <<addr, pos, block_count, block_len>> /\ pos = 1 /\ block_count = 1 /\ block_len = 0
  BY DEF BeginNetwork, NetworkReturns, ParseInv
<1>2. network_verdict' = "running" => Len(addr) # 0
  BY DEF BeginNetwork, NetworkReturns
<1>3. DotsRead' = {}
  BY <1>1 DEF DotsRead
<1>4. IsFiniteSet(DotsRead') /\ Cardinality(DotsRead') = 0
  BY <1>3, FS_EmptySet
<1>5. ReadFits'
  BY <1>1, <1>4, TextAssumption DEF ReadFits
<1>6. network_verdict' \in {"Empty", "TooLong", "running"}
  BY DEF BeginNetwork, NetworkReturns
<1>7. QED BY <1>1, <1>2, <1>5, <1>6 DEF ParseInv

LEMMA ParseInvInductive ==
  ASSUME ParseInv, [Next]_allVars
  PROVE  ParseInv'
<1>1. CASE UNCHANGED networkVars
  BY <1>1 DEF networkVars, ParseInv, ReadFits, DotsRead
<1>2. ASSUME NEW v \in {"EmptyBlock", "InvalidChar"}, NetworkReturns(v)
      PROVE  ParseInv'
  BY <1>2 DEF NetworkReturns, ParseInv
<1>3. CASE RejectSeparator \/ RejectByte
  BY <1>2, <1>3 DEF RejectSeparator, RejectByte
<1>4. CASE FinishNetwork
  <2>1. UNCHANGED <<addr, pos, block_count, block_len>>
    BY <1>4 DEF FinishNetwork, NetworkReturns
  <2>2. ReadFits' /\ pos = Len(addr) + 1 /\ Len(addr) # 0
    BY <1>4, <2>1 DEF FinishNetwork, ParseInv, ReadFits, DotsRead
  <2>3. network_verdict' \in {"EmptyBlock", "Ok"}
    BY <1>4 DEF FinishNetwork, NetworkReturns
  <2>4. QED BY <2>1, <2>2, <2>3 DEF ParseInv
<1>5. QED
  BY <1>1, <1>3, <1>4, BeginKeepsInv, LetterKeepsInv, SeparatorKeepsInv
  DEF Next, ParseNodeId, ValidateAddr, NetworkNext, allVars

LEMMA ParseInvariance == Spec => []ParseInv
<1>1. Init => ParseInv
  BY AddressAssumption DEF Init, NetworkStart, ParseInv
<1>2. ParseInv /\ [Next]_allVars => ParseInv'
  BY ParseInvInductive
<1>3. QED BY <1>1, <1>2, PTL DEF Spec

\* validate_addr accepts only what fits the packet (nhip-core/src/addr.rs:52-91),
\* for any text, number of blocks and length of a block.
THEOREM AcceptedNetworksFit == Spec => []AcceptedFits
<1>1. ParseInv => AcceptedFits
  <2> SUFFICES ASSUME ParseInv, network_verdict = "Ok" PROVE AcceptedFits
    BY DEF AcceptedFits
  <2>1. ReadFits /\ pos - 1 = Len(addr) /\ Len(addr) # 0
    BY DEF ParseInv
  <2>2. DotsRead = Dots(addr)
    BY <2>1 DEF DotsRead, Dots
  <2>3. Cardinality(Dots(addr)) < MaxBlocks
    BY <2>1, <2>2, TextAssumption, FS_CardinalityType DEF ReadFits
  <2>4. \A a, b \in 1..Len(addr) : InBlock(addr, a, b) => b - a < MaxBlockLen
    BY <2>1, TextAssumption DEF ReadFits, ParseInv
  <2>5. addr # <<>>
    BY <2>1
  <2>6. QED BY <2>1, <2>3, <2>4, <2>5 DEF AcceptedFits, ReadFits
<1>2. QED BY <1>1, ParseInvariance, PTL
=============================================================================
