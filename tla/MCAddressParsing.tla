--------------------------- MODULE MCAddressParsing ---------------------------
(***************************************************************************)
(* All short texts of a few characters, with scaled limits and             *)
(* multipliers, and the spellings of the formatting rules for the real     *)
(* multipliers.                                                            *)
(***************************************************************************)
EXTENDS AddressParsing

Texts(chars, length) == UNION {[1..n -> chars] : n \in 0..length}

\* One character more than the longest network of two blocks of two characters.
NetworkTexts == Texts({"a", Dot, "?"}, 6)

\* One character more than MAX_NODE_ID_LEN; other characters only without letters.
NodeIdTexts == Texts({"1", "9", ".", "g", "m", "k"}, 5) \cup Texts({"1", "k"}, 6)
                 \cup Texts({"1", ".", "?"}, 3)

AnyNetwork == NetworkTexts \X {<<"1">>}
AnyNodeId == {<<"a">>} \X NodeIdTexts
AnyPart == AnyNetwork \cup AnyNodeId
Strange == {<<"a">>} \X Texts({"1", ".", "k", "?"}, 3)

\* 1m12k36, 1m.12.36, 1m12.36, 1.12.36 and 1.012.36
SpellingsOfOne ==
  {<<"1", "m", "1", "2", "k", "3", "6">>,
   <<"1", "m", ".", "1", "2", ".", "3", "6">>,
   <<"1", "m", "1", "2", ".", "3", "6">>,
   <<"1", ".", "1", "2", ".", "3", "6">>,
   <<"1", ".", "0", "1", "2", ".", "3", "6">>}

Spelled == {<<"a">>} \X SpellingsOfOne
OneMeaning == [t \in SpellingsOfOne |-> 1012036]
NoMeaning == <<>>
=============================================================================
