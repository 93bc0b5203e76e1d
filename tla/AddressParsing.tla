---------------------------- MODULE AddressParsing ----------------------------
(***************************************************************************)
(* nhipctl addr add: the NodeID of the address is parsed first; if it is   *)
(* accepted, the network is validated.  The verdict on the network is not  *)
(* looked at, the address is added whatever it is.                         *)
(***************************************************************************)
EXTENDS NetworkParsing, NodeIdParsing

CONSTANT Addresses  \* pairs of texts, the parts before and behind the colon

ASSUME AddressAssumption ==
  \A a \in Addresses : \A k \in {1, 2} : Len(a[k]) \in Nat /\ DOMAIN a[k] = 1..Len(a[k])

allVars == <<networkVars, nodeIdVars>>

AddrErr == {"Empty", "TooLong", "TooManyBlocks", "BlockTooLong", "NodeIdTooLong",
            "InvalidChar", "NoNodeId", "EmptyBlock", "NodeIdOutOfRange"}

Init == \E a \in Addresses : NetworkStart(a[1]) /\ NodeIdStart(a[2])

ParseNodeId == NodeIdNext /\ UNCHANGED networkVars

ValidateAddr == verdict = "Ok" /\ NetworkNext /\ UNCHANGED nodeIdVars

Next == ParseNodeId \/ ValidateAddr

\* The command runs on until it ends.
Spec == Init /\ [][Next]_allVars /\ WF_allVars(Next)

-----------------------------------------------------------------------------
(* Properties *)

\* Of an address of digits, dots and letters both parts are accepted or rejected in the
\* end, whatever their order (nhip-core/src/addr.rs:63-90 and 188-227).
ParsingEnds ==
  <>(verdict \in AddrErr \/ (verdict = "Ok" /\ network_verdict \in AddrErr \cup {"Ok"}))

\* Digits, letters and dots only.
Readable == \A k \in 1..Len(raw) : ~OtherChar(raw[k])

\* How many steps of each part are left at most: one for each character, one to begin
\* and one to finish.
NodeIdLeft == IF verdict = "start" THEN Len(raw) + 2
              ELSE IF verdict \in {"digits", "letters"} THEN Len(raw) + 2 - i ELSE 0
NetworkLeft == IF network_verdict = "start" THEN Len(addr) + 2
               ELSE IF network_verdict = "running" THEN Len(addr) + 2 - pos ELSE 0

\* Each step that is taken on the way through an address whose NodeID has no other
\* character than digits, letters and dots leaves fewer steps to take: no state of the two
\* loops is ever met twice, and together they take at most one step for each character
\* and four more (nhip-core/src/addr.rs:63-90 and 188-227).
ParsingShrinks ==
  [][Readable => /\ NodeIdLeft' + NetworkLeft' < NodeIdLeft + NetworkLeft
                 /\ NodeIdLeft' + NetworkLeft' \in Nat]_allVars

\* An address whose NodeID is accepted and whose network is not is not added
\* (nhipctl/src/main.rs:226 calls validate_addr and drops what it returns).
OnlyValidAdded == verdict = "Ok" => network_verdict \notin AddrErr
=============================================================================
