---------------------------- MODULE NetworkParsing ----------------------------
(***************************************************************************)
(* validate_addr: the network part of an address, byte by byte.  The       *)
(* length of a block is not reset at a separator, so that the limit is     *)
(* one of all blocks together.                                             *)
(***************************************************************************)
EXTENDS Naturals, Sequences, FiniteSets

CONSTANTS Letters,     \* a-z, A-Z, 0-9, - and _
          Dot,         \* BLOCK_SEPARATOR
          MaxBlocks,   \* MAX_ADDR_BLOCKS
          MaxBlockLen  \* MAX_BLOCK_LEN

ASSUME TextAssumption == /\ MaxBlocks \in Nat \ {0}
                         /\ MaxBlockLen \in Nat \ {0}
                         /\ Dot \notin Letters

MaxAddrLen == MaxBlocks * MaxBlockLen + (MaxBlocks - 1)

VARIABLES addr, pos, block_count, block_len, network_verdict

networkVars == <<addr, pos, block_count, block_len, network_verdict>>

\* The call validate_addr(text).
NetworkStart(text) ==
  /\ addr = text
  /\ pos = 1
  /\ block_count = 1
  /\ block_len = 0
  /\ network_verdict = "start"

NetworkReturns(v) == network_verdict' = v /\ UNCHANGED <<addr, pos, block_count, block_len>>

BeginNetwork ==
  /\ network_verdict = "start"
  /\ NetworkReturns(IF Len(addr) = 0 THEN "Empty"
                    ELSE IF Len(addr) > MaxAddrLen THEN "TooLong" ELSE "running")

AtByte == network_verdict = "running" /\ pos <= Len(addr)

TakeLetter ==
  /\ AtByte
  /\ addr[pos] \in Letters
  /\ block_len' = block_len + 1
  /\ IF block_len + 1 > MaxBlockLen
     THEN network_verdict' = "BlockTooLong" /\ UNCHANGED pos
     ELSE pos' = pos + 1 /\ UNCHANGED network_verdict
  /\ UNCHANGED <<addr, block_count>>

\* A faulty variant: one block more is accepted.
TakeSeparator_OneMore ==
  /\ AtByte
  /\ addr[pos] = Dot
  /\ block_len # 0
  /\ block_count' = block_count + 1
  /\ IF block_count > MaxBlocks
     THEN network_verdict' = "TooManyBlocks" /\ UNCHANGED pos
     ELSE pos' = pos + 1 /\ UNCHANGED network_verdict
  /\ UNCHANGED <<addr, block_len>>

TakeSeparator ==
  /\ AtByte
  /\ addr[pos] = Dot
  /\ block_len # 0
  /\ block_count' = block_count + 1
  /\ IF block_count + 1 > MaxBlocks
     THEN network_verdict' = "TooManyBlocks" /\ UNCHANGED pos
     ELSE pos' = pos + 1 /\ UNCHANGED network_verdict
  /\ UNCHANGED <<addr, block_len>>

RejectSeparator == AtByte /\ addr[pos] = Dot /\ block_len = 0 /\ NetworkReturns("EmptyBlock")

RejectByte == AtByte /\ addr[pos] \notin Letters \cup {Dot} /\ NetworkReturns("InvalidChar")

FinishNetwork ==
  /\ network_verdict = "running"
  /\ pos > Len(addr)
  /\ NetworkReturns(IF block_len = 0 THEN "EmptyBlock" ELSE "Ok")

NetworkNext == BeginNetwork \/ TakeLetter \/ TakeSeparator \/ RejectSeparator \/ RejectByte \/ FinishNetwork

-----------------------------------------------------------------------------
(* Properties *)

Dots(t) == {k \in 1..Len(t) : t[k] = Dot}

\* Positions a to b are part of one block.
InBlock(t, a, b) == \A k \in a..b : t[k] # Dot

\* An accepted network fits the packet format: at most MAX_ADDR_BLOCKS blocks, none
\* longer than MAX_BLOCK_LEN, of the permitted characters only, and not empty
\* (nhip-core/src/addr.rs:52-91), although the lengths of blocks are added up.
AcceptedFits ==
  network_verdict = "Ok" =>
    /\ addr # <<>>
    /\ \A k \in 1..Len(addr) : addr[k] \in Letters \cup {Dot}
    /\ Cardinality(Dots(addr)) < MaxBlocks
    /\ \A a, b \in 1..Len(addr) : InBlock(addr, a, b) => b - a < MaxBlockLen

\* An accepted network has no empty block (nhip-core/src/addr.rs:40: "empty block").
NoEmptyBlock ==
  network_verdict = "Ok" =>
    /\ addr[1] # Dot /\ addr[Len(addr)] # Dot
    /\ \A k \in 2..Len(addr) : addr[k - 1] # Dot \/ addr[k] # Dot

\* Only a network that has a long block is rejected for one
\* (nhip-core/src/addr.rs:38: "block is too long").
OnlyLongBlocks ==
  network_verdict = "BlockTooLong" =>
    \E a, b \in 1..Len(addr) : InBlock(addr, a, b) /\ b - a >= MaxBlockLen
=============================================================================
