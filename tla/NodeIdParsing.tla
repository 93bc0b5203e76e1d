---------------------------- MODULE NodeIdParsing ----------------------------
(***************************************************************************)
(* parse_node_id: a NodeID, either plain digits, where dots are skipped,   *)
(* or groups of digits with letters g, m and k.  The numbers of the code   *)
(* have 32 bits and wrap around; Word is 2^32 or scaled down.              *)
(***************************************************************************)
EXTENDS Naturals, Sequences, FiniteSets

CONSTANTS Giga, Mega, Kilo,  \* letter_multiplier
          Word,              \* 2^32
          MaxNodeId,         \* MAX_NODE_ID
          MaxNodeIdLen,      \* MAX_NODE_ID_LEN
          GroupLen,          \* digits between two dots
          Meaning            \* numbers that the rules of NodeID formatting give

ASSUME NumberAssumption ==
  /\ {Giga, Mega, Kilo, Word, GroupLen} \subseteq Nat \ {0}
  /\ MaxNodeId \in 0..Word - 1
  /\ MaxNodeIdLen \in Nat

VARIABLES raw, i, result, next_multiplier, verdict

nodeIdVars == <<raw, i, result, next_multiplier, verdict>>

Digits == <<"0", "1", "2", "3", "4", "5", "6", "7", "8", "9">>
IsDigit(c) == \E d \in 1..10 : Digits[d] = c
DigitOf(c) == (CHOOSE d \in 1..10 : Digits[d] = c) - 1

IsLetter(c) == c \in {"g", "m", "k"}
Multiplier(c) == CASE c = "g" -> Giga [] c = "m" -> Mega [] c = "k" -> Kilo

\* What a number after a letter and a dot is multiplied with.
NextMultiplier(c) == CASE c = "g" -> Mega [] c = "m" -> Kilo [] c = "k" -> 1

HasLetters(t) == \E k \in DOMAIN t : IsLetter(t[k])

None == 0

\* The call parse_node_id(text).
NodeIdStart(text) ==
  /\ raw = text
  /\ i = 1
  /\ result = 0
  /\ next_multiplier = None
  /\ verdict = "start"

Returns(v) == verdict' = v /\ UNCHANGED <<raw, i, result, next_multiplier>>

Begin ==
  /\ verdict = "start"
  /\ Returns(IF Len(raw) = 0 THEN "NoNodeId"
             ELSE IF Len(raw) > MaxNodeIdLen THEN "NodeIdTooLong"
             ELSE IF HasLetters(raw) THEN "letters" ELSE "digits")

At(path) == verdict = path /\ i <= Len(raw)

-----------------------------------------------------------------------------
(* Digits only *)

SkipDot ==
  /\ At("digits")
  /\ raw[i] = "."
  /\ i' = i + 1
  /\ UNCHANGED <<raw, result, next_multiplier, verdict>>

TakeDigit ==
  /\ At("digits")
  /\ IsDigit(raw[i])
  /\ result' = (result * 10 + DigitOf(raw[i])) % Word
  /\ i' = i + 1
  /\ UNCHANGED <<raw, next_multiplier, verdict>>

RejectChar == At("digits") /\ raw[i] # "." /\ ~IsDigit(raw[i]) /\ Returns("InvalidChar")

FinishDigits == verdict = "digits" /\ i > Len(raw) /\ Returns("Ok")

-----------------------------------------------------------------------------
(* With letters *)

\* A faulty variant: the dot is not skipped.
TakeDot_Stays ==
  /\ At("letters")
  /\ raw[i] = "."
  /\ next_multiplier' = IF i > 1 /\ IsLetter(raw[i - 1]) THEN NextMultiplier(raw[i - 1])
                                                         ELSE next_multiplier
  /\ UNCHANGED <<raw, i, result, verdict>>

\* A dot behind a letter announces a number.
TakeDot ==
  /\ At("letters")
  /\ raw[i] = "."
  /\ next_multiplier' = IF i > 1 /\ IsLetter(raw[i - 1]) THEN NextMultiplier(raw[i - 1])
                                                         ELSE next_multiplier
  /\ i' = i + 1
  /\ UNCHANGED <<raw, result, verdict>>

\* The first position from i that is not a digit.
RunEnd == CHOOSE j \in i..Len(raw) + 1 :
            /\ \A k \in i..j - 1 : IsDigit(raw[k])
            /\ j <= Len(raw) => ~IsDigit(raw[j])

\* The number of the run, as it is accumulated digit by digit.
Accumulated == LET n[k \in i - 1..RunEnd - 1] ==
                     IF k < i THEN 0 ELSE (n[k - 1] * 10 + DigitOf(raw[k])) % Word
               IN n

Number == Accumulated[RunEnd - 1]

LetterAt(j) == j <= Len(raw) /\ IsLetter(raw[j])

Adds(factor) == result' = (result + Number * factor) % Word

\* A faulty variant: the multiplier of a dot is not used up.
TakeNumber_KeepsMultiplier ==
  /\ At("letters")
  /\ raw[i] # "."
  /\ IF LetterAt(RunEnd)
     THEN i' = RunEnd + 1 /\ Adds(Multiplier(raw[RunEnd])) /\ next_multiplier' = None
     ELSE /\ i' = RunEnd
          /\ Adds(IF next_multiplier # None THEN next_multiplier ELSE 1)
          /\ UNCHANGED next_multiplier
  /\ UNCHANGED <<raw, verdict>>

\* A faulty variant: the letter is not skipped.
TakeNumber_Stays ==
  /\ At("letters")
  /\ raw[i] # "."
  /\ i' = RunEnd
  /\ Adds(IF LetterAt(RunEnd) THEN Multiplier(raw[RunEnd])
          ELSE IF next_multiplier # None THEN next_multiplier ELSE 1)
  /\ next_multiplier' = None
  /\ UNCHANGED <<raw, verdict>>

\* A run of digits, which may be empty, and the letter behind it if there is one.
\* At any other character the loop stays where it is.
TakeNumber ==
  /\ At("letters")
  /\ raw[i] # "."
  /\ IF LetterAt(RunEnd)
     THEN i' = RunEnd + 1 /\ Adds(Multiplier(raw[RunEnd]))
     ELSE i' = RunEnd /\ Adds(IF next_multiplier # None THEN next_multiplier ELSE 1)
  /\ next_multiplier' = None
  /\ UNCHANGED <<raw, verdict>>

FinishLetters ==
  /\ verdict = "letters"
  /\ i > Len(raw)
  /\ Returns(IF result > MaxNodeId THEN "NodeIdOutOfRange" ELSE "Ok")

-----------------------------------------------------------------------------
NodeIdNext == \/ Begin
              \/ SkipDot \/ TakeDigit \/ RejectChar \/ FinishDigits
              \/ TakeDot \/ TakeNumber \/ FinishLetters

-----------------------------------------------------------------------------
(* What a text means by the rules of NodeID formatting *)

\* The end of the run of digits that position j is in, and its beginning.
LastOfRun(t, j) == CHOOSE e \in j..Len(t) : /\ \A k \in j..e : IsDigit(t[k])
                                            /\ e < Len(t) => ~IsDigit(t[e + 1])
FirstOfRun(t, j) == CHOOSE b \in 1..j : /\ \A k \in b..j : IsDigit(t[k])
                                        /\ b > 1 => ~IsDigit(t[b - 1])

\* Rule 1: the letter behind a run is its multiplier.  Rule 2.1: a dot right behind a
\* letter makes the run behind it the next digits of that letter.
Factor(t, b, e) ==
  IF e < Len(t) /\ IsLetter(t[e + 1]) THEN Multiplier(t[e + 1])
  ELSE IF b > 2 /\ t[b - 1] = "." /\ IsLetter(t[b - 2]) THEN NextMultiplier(t[b - 2])
  ELSE None

DigitsBehind(t, j) == Cardinality({k \in j + 1..Len(t) : IsDigit(t[k])})

PowerOfTen[k \in Nat] == IF k = 0 THEN 1 ELSE 10 * PowerOfTen[k - 1]

\* How much the character at position j adds to the number.  Rule 2.2: otherwise the
\* digits are counted from right to left.
Worth(t, j) ==
  LET e == LastOfRun(t, j)
      factor == Factor(t, FirstOfRun(t, j), e)
  IN CASE ~IsDigit(t[j]) -> 0
       [] IsDigit(t[j]) /\ factor = None -> DigitOf(t[j]) * PowerOfTen[DigitsBehind(t, j)]
       [] IsDigit(t[j]) /\ factor # None -> DigitOf(t[j]) * PowerOfTen[e - j] * factor

\* What the first positions add up to.
Sums(worth, n) == LET sum[k \in 0..n] == IF k = 0 THEN 0 ELSE sum[k - 1] + worth[k]
                  IN sum

Written(t) == Sums([j \in 1..Len(t) |-> Worth(t, j)], Len(t))[Len(t)]

\* Rule 3 is not used: no leading zeros are left out, neither in the groups between dots
\* nor behind a number without letter; and no dot follows another.
FullyWritten(t) ==
  /\ \A k \in 2..Len(t) : \E c \in {t[k - 1], t[k]} : IsDigit(c) \/ IsLetter(c)
  /\ ~HasLetters(t) =>
       \A j \in DOMAIN t : IsDigit(t[j]) /\ FirstOfRun(t, j) > 1
         => LastOfRun(t, j) + 1 - FirstOfRun(t, j) = GroupLen
  /\ HasLetters(t) =>
       \A j \in DOMAIN t : IsDigit(t[j]) /\ Factor(t, FirstOfRun(t, j), LastOfRun(t, j)) = None
         => \A k \in LastOfRun(t, j) + 1..Len(t) : ~IsDigit(t[k])

-----------------------------------------------------------------------------
(* Properties *)

\* A NodeID with all its zeros is accepted as the number, in 32 bits, that the rules of
\* formatting give: a run of digits counts in the letter behind it, in the next lower one
\* behind a letter and a dot, and from right to left otherwise
\* (nhip-core/src/addr.rs:124-150 for addr.rs:152-234).
NodeIdMeans == verdict = "Ok" /\ FullyWritten(raw) => result = Written(raw) % Word

OtherChar(c) == ~IsDigit(c) /\ ~IsLetter(c) /\ c # "."

\* A text with any other character is rejected
\* (nhip-core/src/addr.rs:38: "invalid character in address").
InvalidIsRejected ==
  (verdict \in {"digits", "letters"} /\ \E k \in DOMAIN raw : OtherChar(raw[k]))
    ~> verdict = "InvalidChar"

\* What is accepted is not beyond MAX_NODE_ID
\* (nhip-core/src/addr.rs:41: "node id out of range").
AcceptedInRange == verdict = "Ok" /\ FullyWritten(raw) => Written(raw) <= MaxNodeId

\* The spellings of the formatting rules mean the same number
\* (nhip-core/src/addr.rs:142: "0.001.012.36 can be:" 1m12.36 and others).
SpellingsAgree == verdict = "Ok" /\ raw \in DOMAIN Meaning => result = Meaning[raw]
=============================================================================
