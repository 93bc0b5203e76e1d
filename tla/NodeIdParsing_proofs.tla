------------------------- MODULE NodeIdParsing_proofs -------------------------
(***************************************************************************)
(* Proofs about AddressParsing for any texts, multipliers and width of the *)
(* numbers: the number that parse_node_id accepts is the one that the      *)
(* rules of formatting give, where no zeros are left out; and a text       *)
(* without other characters is parsed in a number of steps that its length *)
(* bounds.                                                                 *)
(*                                                                         *)
(* Induction is over sets of numbers (NatSet): a set of natural numbers    *)
(* that has 0, and n + 1 with each n, has them all.                        *)
(***************************************************************************)
EXTENDS AddressParsing_proofs, WellFoundedInduction

-----------------------------------------------------------------------------
(* Natural numbers *)

Less == OpToRel(<, Nat)

LEMMA LeastNat ==
  ASSUME NEW N \in SUBSET Nat, N # {}
  PROVE  \E n \in N : \A m \in N : n <= m
<1>1. IsWellFoundedOn(Less, Nat)
  BY NatLessThanWellFounded DEF Less
<1>2. PICK n \in N : \A m \in N : <<m, n>> \notin Less
  <2> HIDE DEF Less
  <2>1. QED BY <1>1, WFMin
<1>3. ASSUME NEW m \in N PROVE n <= m
  <2>1. m \in Nat /\ n \in Nat /\ <<m, n>> \notin Less
    BY <1>2
  <2>2. m < n => <<m, n>> \in Less
    BY <2>1 DEF Less, OpToRel
  <2>3. QED BY <2>1, <2>2
<1>4. QED BY <1>3

LEMMA NatSet ==
  ASSUME NEW N \in SUBSET Nat, 0 \in N, \A n \in N : n + 1 \in N
  PROVE  N = Nat
<1>1. SUFFICES ASSUME Nat \ N # {} PROVE FALSE
  OBVIOUS
<1>2. PICK n \in Nat \ N : \A m \in Nat \ N : n <= m
  <2>1. (Nat \ N) \in SUBSET Nat
    OBVIOUS
  <2>2. QED BY <1>1, <2>1, LeastNat
<1>3. n - 1 \in Nat /\ ~(n <= n - 1)
  BY <1>2
<1>4. n - 1 + 1 \in N
  BY <1>2, <1>3
<1>5. QED BY <1>2, <1>3, <1>4

\* f is defined by recursion up to n: f[0] is a, f[k + 1] is computed from f[k].
Solves(f, n, S, a, step) ==
  /\ f \in [0..n -> S]
  /\ f[0] = a
  /\ \A k \in 0..n - 1 : f[k + 1] = step[k + 1][f[k]]

LEMMA Solvable ==
  ASSUME NEW S, NEW a \in S, NEW step \in [Nat -> [S -> S]]
  PROVE  \A n \in Nat : \E f : Solves(f, n, S, a, step)
<1> DEFINE N == {n \in Nat : \E f : Solves(f, n, S, a, step)}
<1>1. 0 \in N
  <2>1. Solves([k \in 0..0 |-> a], 0, S, a, step)
    BY DEF Solves
  <2>2. QED BY <2>1
<1>2. ASSUME NEW n \in N PROVE n + 1 \in N
  <2>1. PICK f : Solves(f, n, S, a, step)
    OBVIOUS
  <2> DEFINE g == [k \in 0..n + 1 |-> IF k = n + 1 THEN step[n + 1][f[n]] ELSE f[k]]
  <2>2. f[n] \in S /\ step[n + 1][f[n]] \in S
    BY <2>1 DEF Solves
  <2>3. g \in [0..n + 1 -> S] /\ g[0] = a
    BY <2>1, <2>2 DEF Solves
  <2>4. ASSUME NEW k \in 0..n PROVE g[k + 1] = step[k + 1][g[k]]
    <3>1. f[k] \in S /\ g[k] = f[k]
      BY <2>1 DEF Solves
    <3>2. CASE k = n
      BY <3>1, <3>2
    <3>3. CASE k # n
      <4>1. k \in 0..n - 1 /\ k + 1 \in 0..n + 1 /\ k + 1 # n + 1
        BY <3>3
      <4>2. g[k + 1] = f[k + 1]
        BY <4>1
      <4>3. QED BY <2>1, <3>1, <4>1, <4>2 DEF Solves
    <3>4. QED BY <3>2, <3>3
  <2>5. Solves(g, n + 1, S, a, step)
    <3> HIDE DEF g
    <3>1. (n + 1) - 1 = n
      OBVIOUS
    <3>2. QED BY <2>3, <2>4, <3>1 DEF Solves
  <2>6. QED BY <2>5
<1>3. N = Nat
  <2> HIDE DEF N
  <2>1. N \in SUBSET Nat
    BY DEF N
  <2>2. QED BY <1>1, <1>2, <2>1, NatSet
<1>4. QED BY <1>3

LEMMA SolutionsAgree ==
  ASSUME NEW S, NEW a, NEW step, NEW m \in Nat, NEW n \in Nat, m <= n,
         NEW f, NEW g, Solves(f, m, S, a, step), Solves(g, n, S, a, step)
  PROVE  f[m] = g[m]
<1> DEFINE N == {k \in Nat : k <= m => f[k] = g[k]}
<1>1. 0 \in N
  BY DEF Solves
<1>2. ASSUME NEW k \in N PROVE k + 1 \in N
  <2>1. CASE k + 1 <= m
    <3>1. k \in 0..m - 1 /\ k \in 0..n - 1 /\ k <= m
      BY <2>1
    <3>2. f[k] = g[k]
      BY <3>1
    <3>3. QED BY <3>1, <3>2 DEF Solves
  <2>2. CASE ~(k + 1 <= m)
    BY <2>2
  <2>3. QED BY <2>1, <2>2
<1>3. N = Nat
  <2> HIDE DEF N
  <2>1. N \in SUBSET Nat
    BY DEF N
  <2>2. QED BY <1>1, <1>2, <2>1, NatSet
<1>4. QED BY <1>3

IsRule(step, S) == step \in [Nat -> [S -> S]]
IsRecursive(f, S, a, step) ==
  f \in [Nat -> S] /\ f[0] = a /\ \A k \in Nat : f[k + 1] = step[k + 1][f[k]]

\* Functions that are defined by recursion exist.
LEMMA NatRecursion ==
  ASSUME NEW S, NEW a, a \in S, NEW step, IsRule(step, S)
  PROVE  \E f : IsRecursive(f, S, a, step)
<1> DEFINE Sol(n) == CHOOSE f : Solves(f, n, S, a, step)
           f == [n \in Nat |-> Sol(n)[n]]
<1>1. \A n \in Nat : Solves(Sol(n), n, S, a, step)
  BY Solvable DEF IsRule
<1>2. f \in [Nat -> S] /\ f[0] = a
  <2> HIDE DEF Sol
  <2>1. \A n \in Nat : Sol(n)[n] \in S /\ Sol(n)[0] = a
    BY <1>1 DEF Solves
  <2>2. QED BY <2>1
<1>3. ASSUME NEW k \in Nat PROVE f[k + 1] = step[k + 1][f[k]]
  <2> HIDE DEF Sol
  <2>1. Sol(k)[k] = Sol(k + 1)[k]
    BY <1>1, SolutionsAgree
  <2>2. Sol(k + 1)[k + 1] = step[k + 1][Sol(k + 1)[k]]
    <3>1. Solves(Sol(k + 1), k + 1, S, a, step)
      BY <1>1
    <3>2. k \in 0..(k + 1) - 1
      OBVIOUS
    <3>3. QED BY <3>1, <3>2 DEF Solves
  <2>3. QED BY <2>1, <2>2
<1>4. IsRecursive(f, S, a, step)
  <2> HIDE DEF f
  <2>1. QED BY <1>2, <1>3 DEF IsRecursive
<1>5. QED BY <1>4

-----------------------------------------------------------------------------
(* Remainders *)

LEMMA RemainderRange ==
  ASSUME NEW w \in Nat \ {0}, NEW a \in Nat
  PROVE  a % w \in 0..w - 1
OBVIOUS

LEMMA RemainderUnique ==
  ASSUME NEW w \in Nat \ {0}, NEW q \in Nat, NEW r \in 0..w - 1
  PROVE  (q * w + r) % w = r
OBVIOUS

LEMMA Remainder ==
  ASSUME NEW w \in Nat \ {0}, NEW a \in Nat
  PROVE  \E q \in Nat : a = q * w + (a % w)
<1> DEFINE N == {n \in Nat : \E q \in Nat : \E r \in 0..w - 1 : n = q * w + r}
<1>1. 0 \in N
  <2>1. 0 = 0 * w + 0 /\ 0 \in 0..w - 1
    OBVIOUS
  <2>2. QED BY <2>1
<1>2. ASSUME NEW n \in N PROVE n + 1 \in N
  <2>1. PICK q \in Nat, r \in 0..w - 1 : n = q * w + r
    OBVIOUS
  <2>2. CASE r + 1 = w
    <3>1. n + 1 = (q + 1) * w + 0 /\ 0 \in 0..w - 1
      BY <2>1, <2>2
    <3>2. q + 1 \in Nat /\ n + 1 \in Nat
      OBVIOUS
    <3>3. QED BY <3>1, <3>2
  <2>3. CASE r + 1 # w
    <3>1. n + 1 = q * w + (r + 1) /\ r + 1 \in 0..w - 1
      BY <2>1, <2>3
    <3>2. QED BY <3>1
  <2>4. QED BY <2>2, <2>3
<1>3. N = Nat
  <2> HIDE DEF N
  <2>1. N \in SUBSET Nat
    BY DEF N
  <2>2. QED BY <1>1, <1>2, <2>1, NatSet
<1>4. PICK q \in Nat, r \in 0..w - 1 : a = q * w + r
  <2> HIDE DEF N
  <2>1. a \in N
    BY <1>3
  <2>2. QED BY <2>1 DEF N
<1>5. a % w = r
  BY <1>4, RemainderUnique
<1>6. QED BY <1>4, <1>5

\* What is a multiple of w more has the same remainder.
LEMMA RemainderSame ==
  ASSUME NEW w \in Nat \ {0}, NEW q \in Nat, NEW a \in Nat
  PROVE  (q * w + a) % w = a % w
<1>1. PICK p \in Nat : a = p * w + (a % w)
  BY Remainder
<1> DEFINE x == a % w
<1>2. x \in 0..w - 1
  BY RemainderRange
<1> HIDE DEF x
<1>3. q * w + a = (q + p) * w + x
  BY <1>1, <1>2 DEF x
<1>4. q + p \in Nat
  OBVIOUS
<1>5. QED BY <1>2, <1>3, <1>4, RemainderUnique DEF x

\* A remainder may be taken of a term or a factor first.
LEMMA RemainderOfSum ==
  ASSUME NEW w \in Nat \ {0}, NEW a \in Nat, NEW b \in Nat, NEW f \in Nat
  PROVE  ((a % w) + (b % w) * f) % w = (a + b * f) % w
<1>1. PICK p \in Nat : a = p * w + (a % w)
  BY Remainder
<1>2. PICK q \in Nat : b = q * w + (b % w)
  BY Remainder
<1> DEFINE x == a % w
           y == b % w
<1>3. x \in Nat /\ y \in Nat
  BY RemainderRange
<1> HIDE DEF x, y
<1>4. a + b * f = (p + q * f) * w + (x + y * f)
  <2>1. a = p * w + x /\ b = q * w + y
    BY <1>1, <1>2 DEF x, y
  <2>2. (q * w + y) * f = (q * f) * w + y * f
    BY <1>3
  <2>3. QED BY <1>3, <2>1, <2>2
<1>5. p + q * f \in Nat /\ x + y * f \in Nat
  BY <1>3
<1>6. ((p + q * f) * w + (x + y * f)) % w = (x + y * f) % w
  BY <1>5, RemainderSame
<1>7. QED BY <1>4, <1>6 DEF x, y

-----------------------------------------------------------------------------
(* Characters and texts *)

Text(t) == Len(t) \in Nat /\ DOMAIN t = 1..Len(t)

LEMMA Characters ==
  ASSUME NEW c
  PROVE  /\ IsDigit(c) => ~IsLetter(c) /\ c # "."
         /\ IsLetter(c) => c # "."
         /\ IsDigit(c) => DigitOf(c) \in 0..9
         /\ IsLetter(c) => Multiplier(c) \in Nat \ {0} /\ NextMultiplier(c) \in Nat \ {0}
<1>1. IsLetter(c) => c # "." /\ Multiplier(c) \in Nat \ {0} /\ NextMultiplier(c) \in Nat \ {0}
  BY NumberAssumption DEF IsLetter, Multiplier, NextMultiplier
<1>2. \A d \in 1..10 : Digits[d] \notin {"g", "m", "k", "."}
  BY DEF Digits
<1>3. IsDigit(c) => ~IsLetter(c) /\ c # "."
  BY <1>2 DEF IsDigit, IsLetter
<1>4. IsDigit(c) => DigitOf(c) \in 0..9
  <2>1. IsDigit(c) => (CHOOSE d \in 1..10 : Digits[d] = c) \in 1..10
    BY DEF IsDigit
  <2>2. QED BY <2>1 DEF DigitOf
<1>5. QED BY <1>1, <1>3, <1>4

LEMMA PowerOfTenDef ==
  /\ PowerOfTen \in [Nat -> Nat]
  /\ PowerOfTen[0] = 1
  /\ \A k \in Nat : PowerOfTen[k + 1] = 10 * PowerOfTen[k]
<1> DEFINE step == [k \in Nat |-> [v \in Nat |-> 10 * v]]
<1>1. IsRule(step, Nat) /\ \A k, v \in Nat : step[k + 1][v] = 10 * v
  BY DEF IsRule
<1>2. PICK f : IsRecursive(f, Nat, 1, step)
  <2> HIDE DEF step
  <2>1. 1 \in Nat
    OBVIOUS
  <2>2. QED BY <1>1, <2>1, NatRecursion
<1>3. f \in [Nat -> Nat] /\ f[0] = 1 /\ \A k \in Nat : f[k + 1] = 10 * f[k]
  <2> HIDE DEF step
  <2>1. QED BY <1>1, <1>2 DEF IsRecursive
<1>4. \A k \in Nat : f[k] = IF k = 0 THEN 1 ELSE 10 * f[k - 1]
  <2> TAKE k \in Nat
  <2>1. CASE k = 0
    BY <1>3, <2>1
  <2>2. CASE k # 0
    <3>1. k - 1 \in Nat /\ k - 1 + 1 = k
      BY <2>2
    <3>2. QED BY <1>3, <2>2, <3>1
  <2>3. QED BY <2>1, <2>2
<1>5. f = [k \in Nat |-> IF k = 0 THEN 1 ELSE 10 * f[k - 1]]
  BY <1>3, <1>4
<1>6. PowerOfTen = [k \in Nat |-> IF k = 0 THEN 1 ELSE 10 * PowerOfTen[k - 1]]
  BY <1>5 DEF PowerOfTen
<1>7. PowerOfTen[0] = 1
  BY <1>6
<1>8. ASSUME NEW k \in Nat PROVE PowerOfTen[k + 1] = 10 * PowerOfTen[k]
  <2>1. k + 1 \in Nat /\ k + 1 # 0 /\ (k + 1) - 1 = k
    OBVIOUS
  <2>2. PowerOfTen[k + 1] = IF k + 1 = 0 THEN 1 ELSE 10 * PowerOfTen[(k + 1) - 1]
    BY <1>6, <2>1
  <2>3. QED BY <2>1, <2>2
<1>9. PowerOfTen \in [Nat -> Nat]
  <2> DEFINE N == {k \in Nat : PowerOfTen[k] \in Nat}
  <2>1. 0 \in N
    BY <1>7
  <2>2. ASSUME NEW k \in N PROVE k + 1 \in N
    BY <1>8
  <2>3. N = Nat
    <3> HIDE DEF N
    <3>1. N \in SUBSET Nat
      BY DEF N
    <3>2. QED BY <2>1, <2>2, <3>1, NatSet
  <2>4. \A k \in Nat : PowerOfTen[k] \in Nat
    BY <2>3
  <2>5. QED BY <1>6, <2>4
<1>10. QED BY <1>7, <1>8, <1>9

-----------------------------------------------------------------------------
(* Runs of digits *)

\* b to e is a whole run of digits of t.
IsRun(t, b, e) ==
  /\ b \in 1..Len(t) /\ e \in b..Len(t)
  /\ \A k \in b..e : IsDigit(t[k])
  /\ b > 1 => ~IsDigit(t[b - 1])
  /\ e < Len(t) => ~IsDigit(t[e + 1])

LEMMA LastExists ==
  ASSUME NEW t, Text(t), NEW j \in 1..Len(t), IsDigit(t[j])
  PROVE  \E e \in j..Len(t) : /\ \A k \in j..e : IsDigit(t[k])
                              /\ e < Len(t) => ~IsDigit(t[e + 1])
<1> DEFINE N == {m \in j..Len(t) : m < Len(t) => ~IsDigit(t[m + 1])}
<1>1. Len(t) \in Nat
  BY DEF Text
<1>2. N \in SUBSET Nat /\ N # {}
  <2>1. Len(t) \in N
    BY <1>1
  <2>2. QED BY <1>1, <2>1
<1>3. PICK e \in N : \A m \in N : e <= m
  <2> HIDE DEF N
  <2>1. QED BY <1>2, LeastNat
<1>4. e \in j..Len(t) /\ (e < Len(t) => ~IsDigit(t[e + 1]))
  OBVIOUS
<1>5. ASSUME NEW k \in j..e PROVE IsDigit(t[k])
  <2>1. CASE k = j
    BY <2>1
  <2>2. CASE k # j
    <3>1. k - 1 \in j..Len(t) /\ k - 1 < e /\ (k - 1) + 1 = k
      BY <1>1, <1>4, <2>2
    <3>2. k - 1 \notin N
      <4>1. e \in Int /\ k - 1 \in Int
        BY <1>1, <1>4, <2>2
      <4> HIDE DEF N
      <4>2. QED BY <1>3, <3>1, <4>1
    <3>3. QED BY <3>1, <3>2
  <2>3. QED BY <2>1, <2>2
<1>6. QED BY <1>4, <1>5

LEMMA FirstExists ==
  ASSUME NEW t, Text(t), NEW j \in 1..Len(t), IsDigit(t[j])
  PROVE  \E b \in 1..j : /\ \A k \in b..j : IsDigit(t[k])
                         /\ b > 1 => ~IsDigit(t[b - 1])
<1> DEFINE N == {m \in 0..j - 1 : j - m > 1 => ~IsDigit(t[j - m - 1])}
<1>1. Len(t) \in Nat /\ j \in Nat
  BY DEF Text
<1>2. N \in SUBSET Nat /\ N # {}
  <2>1. j - 1 \in N
    BY <1>1
  <2>2. 0..j - 1 \subseteq Nat
    BY <1>1
  <2>3. QED BY <2>1, <2>2
<1>3. PICK m \in N : \A n \in N : m <= n
  <2> HIDE DEF N
  <2>1. QED BY <1>2, LeastNat
<1>4. m \in 0..j - 1 /\ (j - m > 1 => ~IsDigit(t[j - m - 1]))
  OBVIOUS
<1>5. ASSUME NEW k \in j - m..j PROVE IsDigit(t[k])
  <2>1. CASE k = j
    BY <2>1
  <2>2. CASE k # j
    <3>1. j - k - 1 \in 0..j - 1 /\ j - k - 1 < m /\ j - (j - k - 1) - 1 = k
      BY <1>1, <1>4, <2>2
    <3>2. j - k - 1 \notin N
      <4>1. m \in Int /\ j - k - 1 \in Int
        BY <1>1, <1>4, <2>2
      <4> HIDE DEF N
      <4>2. QED BY <1>3, <3>1, <4>1
    <3>3. QED BY <3>1, <3>2
  <2>3. QED BY <2>1, <2>2
<1>6. j - m \in 1..j
  BY <1>1, <1>4
<1>7. QED BY <1>4, <1>5, <1>6

LEMMA RunOf ==
  ASSUME NEW t, Text(t), NEW j \in 1..Len(t), IsDigit(t[j])
  PROVE  /\ LastOfRun(t, j) \in j..Len(t) /\ FirstOfRun(t, j) \in 1..j
         /\ IsRun(t, FirstOfRun(t, j), LastOfRun(t, j))
<1> DEFINE e == LastOfRun(t, j)
           b == FirstOfRun(t, j)
<1>1. e \in j..Len(t) /\ (\A k \in j..e : IsDigit(t[k])) /\ (e < Len(t) => ~IsDigit(t[e + 1]))
  BY LastExists DEF LastOfRun
<1>2. b \in 1..j /\ (\A k \in b..j : IsDigit(t[k])) /\ (b > 1 => ~IsDigit(t[b - 1]))
  BY FirstExists DEF FirstOfRun
<1> HIDE DEF b, e
<1>3. Len(t) \in Nat
  BY DEF Text
<1>4. \A k \in b..e : k \in b..j \/ k \in j..e
  BY <1>1, <1>2, <1>3
<1>5. IsRun(t, b, e)
  BY <1>1, <1>2, <1>3, <1>4 DEF IsRun
<1>6. QED BY <1>1, <1>2, <1>5 DEF b, e

\* A position is in one run only.
LEMMA OneRun ==
  ASSUME NEW t, Text(t), NEW b, NEW e, IsRun(t, b, e), NEW j \in b..e
  PROVE  FirstOfRun(t, j) = b /\ LastOfRun(t, j) = e
<1>1. Len(t) \in Nat /\ b \in 1..Len(t) /\ e \in b..Len(t)
  BY DEF Text, IsRun
<1>2. j \in 1..Len(t) /\ IsDigit(t[j])
  BY <1>1 DEF IsRun
<1> DEFINE f == FirstOfRun(t, j)
           l == LastOfRun(t, j)
<1>3. l \in j..Len(t) /\ f \in 1..j /\ IsRun(t, f, l)
  BY <1>2, RunOf
<1> HIDE DEF f, l
<1>4. ~(f < b)
  <2>1. f < b => b - 1 \in f..l /\ b > 1
    BY <1>1, <1>3
  <2>2. QED BY <1>3, <2>1 DEF IsRun
<1>5. ~(b < f)
  <2>1. b < f => f - 1 \in b..e /\ f > 1
    BY <1>1, <1>3
  <2>2. QED BY <1>3, <2>1 DEF IsRun
<1>6. ~(l < e)
  <2>1. l < e => l + 1 \in b..e /\ l < Len(t)
    BY <1>1, <1>3
  <2>2. QED BY <1>3, <2>1 DEF IsRun
<1>7. ~(e < l)
  <2>1. e < l => e + 1 \in f..l /\ e < Len(t)
    BY <1>1, <1>3
  <2>2. QED BY <1>3, <2>1 DEF IsRun
<1>8. f = b /\ l = e
  BY <1>1, <1>3, <1>4, <1>5, <1>6, <1>7
<1>9. QED BY <1>8 DEF f, l

-----------------------------------------------------------------------------
(* What the loop counts the positions of a text as *)

\* The first number after a letter and a dot continues the letter's digits, whatever
\* else than digits and letters is in between.
Continues(t, b, p) == /\ IsLetter(t[p])
                      /\ t[p + 1] = "."
                      /\ \A k \in p + 1..b - 1 : ~IsDigit(t[k]) /\ ~IsLetter(t[k])

\* What a run of digits from b to e is counted in.
LoopWeight(t, b, e) ==
  IF e < Len(t) /\ IsLetter(t[e + 1]) THEN Multiplier(t[e + 1])
  ELSE IF \E p \in 1..b - 1 : Continues(t, b, p)
       THEN NextMultiplier(t[CHOOSE p \in 1..b - 1 : Continues(t, b, p)])
       ELSE 1

LoopWorth(t, j) ==
  IF ~IsDigit(t[j]) THEN 0
  ELSE IF ~HasLetters(t) THEN DigitOf(t[j]) * PowerOfTen[DigitsBehind(t, j)]
  ELSE DigitOf(t[j]) * PowerOfTen[LastOfRun(t, j) - j]
         * LoopWeight(t, FirstOfRun(t, j), LastOfRun(t, j))

LoopSums(t) == Sums([j \in 1..Len(t) |-> LoopWorth(t, j)], Len(t))

LoopWritten(t) == LoopSums(t)[Len(t)]

LEMMA DigitsBehindDef ==
  ASSUME NEW t, Text(t)
  PROVE  /\ DigitsBehind(t, Len(t)) = 0
         /\ \A j \in 0..Len(t) : DigitsBehind(t, j) \in Nat
         /\ \A j \in 1..Len(t) :
              DigitsBehind(t, j - 1) = DigitsBehind(t, j) + (IF IsDigit(t[j]) THEN 1 ELSE 0)
<1> DEFINE D(j) == {k \in j + 1..Len(t) : IsDigit(t[k])}
<1>1. Len(t) \in Nat
  BY DEF Text
<1>2. ASSUME NEW j \in Int PROVE IsFiniteSet(D(j)) /\ DigitsBehind(t, j) \in Nat
  <2>1. IsFiniteSet(j + 1..Len(t))
    BY <1>1, FS_Interval
  <2>2. D(j) \subseteq j + 1..Len(t)
    OBVIOUS
  <2>3. IsFiniteSet(D(j))
    BY <2>1, <2>2, FS_Subset
  <2>4. QED BY <2>3, FS_CardinalityType DEF DigitsBehind
<1>3. DigitsBehind(t, Len(t)) = 0
  <2>1. D(Len(t)) = {}
    BY <1>1
  <2>2. QED BY <2>1, FS_EmptySet DEF DigitsBehind
<1>4. ASSUME NEW j \in 1..Len(t)
      PROVE  DigitsBehind(t, j - 1) = DigitsBehind(t, j) + (IF IsDigit(t[j]) THEN 1 ELSE 0)
  <2>1. j \notin D(j)
    OBVIOUS
  <2>2. CASE IsDigit(t[j])
    <3>1. D(j - 1) = D(j) \cup {j}
      BY <1>1, <2>2
    <3>2. Cardinality(D(j) \cup {j}) = Cardinality(D(j)) + 1
      <4> HIDE DEF D
      <4>1. IsFiniteSet(D(j))
        BY <1>2
      <4>2. QED BY <2>1, <4>1, FS_AddElement
    <3>3. QED BY <2>2, <3>1, <3>2 DEF DigitsBehind
  <2>3. CASE ~IsDigit(t[j])
    <3>1. D(j - 1) = D(j)
      BY <1>1, <2>3
    <3>2. j \in Int
      BY <1>1
    <3>3. DigitsBehind(t, j) \in Nat
      BY <1>2, <3>2
    <3>4. DigitsBehind(t, j - 1) = DigitsBehind(t, j)
      BY <3>1 DEF DigitsBehind
    <3>5. QED BY <2>3, <3>3, <3>4
  <2>4. QED BY <2>2, <2>3
<1>5. \A j \in 0..Len(t) : j \in Int
  BY <1>1
<1>6. QED BY <1>2, <1>3, <1>4, <1>5

LEMMA WeightType ==
  ASSUME NEW t, NEW b, NEW e
  PROVE  LoopWeight(t, b, e) \in Nat
<1>1. CASE e < Len(t) /\ IsLetter(t[e + 1])
  BY <1>1, Characters DEF LoopWeight
<1>2. CASE ~(e < Len(t) /\ IsLetter(t[e + 1])) /\ \E p \in 1..b - 1 : Continues(t, b, p)
  <2> DEFINE p == CHOOSE p \in 1..b - 1 : Continues(t, b, p)
  <2>1. Continues(t, b, p)
    BY <1>2
  <2>2. NextMultiplier(t[p]) \in Nat
    <3> HIDE DEF p
    <3>1. QED BY <2>1, Characters DEF Continues
  <2>3. LoopWeight(t, b, e) = NextMultiplier(t[p])
    BY <1>2 DEF LoopWeight
  <2>4. QED BY <2>2, <2>3
<1>3. CASE ~(e < Len(t) /\ IsLetter(t[e + 1])) /\ ~\E p \in 1..b - 1 : Continues(t, b, p)
  BY <1>3 DEF LoopWeight
<1>4. QED BY <1>1, <1>2, <1>3

LEMMA WorthType ==
  ASSUME NEW t, Text(t), NEW j \in 1..Len(t)
  PROVE  LoopWorth(t, j) \in Nat
<1>1. Len(t) \in Nat /\ j \in 0..Len(t)
  BY DEF Text
<1>2. CASE ~IsDigit(t[j])
  BY <1>2 DEF LoopWorth
<1>3. CASE IsDigit(t[j]) /\ ~HasLetters(t)
  <2>1. DigitOf(t[j]) \in Nat
    BY <1>3, Characters
  <2>2. DigitsBehind(t, j) \in Nat
    BY <1>1, DigitsBehindDef
  <2>3. PowerOfTen[DigitsBehind(t, j)] \in Nat
    BY <2>2, PowerOfTenDef
  <2>4. QED BY <1>3, <2>1, <2>3 DEF LoopWorth
<1>4. CASE IsDigit(t[j]) /\ HasLetters(t)
  <2> DEFINE e == LastOfRun(t, j)
             b == FirstOfRun(t, j)
  <2>1. e \in j..Len(t)
    BY <1>4, RunOf
  <2>2. DigitOf(t[j]) \in Nat /\ LoopWeight(t, b, e) \in Nat
    BY <1>4, Characters, WeightType
  <2>3. PowerOfTen[e - j] \in Nat
    <3> HIDE DEF e
    <3>1. e - j \in Nat
      BY <1>1, <2>1
    <3>2. QED BY <3>1, PowerOfTenDef
  <2>4. LoopWorth(t, j) = DigitOf(t[j]) * PowerOfTen[e - j] * LoopWeight(t, b, e)
    BY <1>4 DEF LoopWorth
  <2>5. QED BY <2>2, <2>3, <2>4
<1>5. QED BY <1>2, <1>3, <1>4

LEMMA SumsDef ==
  ASSUME NEW t, Text(t)
  PROVE  /\ LoopSums(t)[0] = 0
         /\ \A k \in 0..Len(t) : LoopSums(t)[k] \in Nat
         /\ \A k \in 1..Len(t) : LoopSums(t)[k] = LoopSums(t)[k - 1] + LoopWorth(t, k)
<1> DEFINE step == [k \in Nat |-> [v \in Nat |-> IF k \in 1..Len(t) THEN v + LoopWorth(t, k) ELSE v]]
<1>1. Len(t) \in Nat /\ 0 \in Nat
  BY DEF Text
<1>2. IsRule(step, Nat)
  BY WorthType DEF IsRule
<1>3. \A k \in 1..Len(t) : \A v \in Nat : step[k][v] = v + LoopWorth(t, k)
  BY <1>1
<1>4. PICK f : IsRecursive(f, Nat, 0, step)
  <2> HIDE DEF step
  <2>1. QED BY <1>1, <1>2, NatRecursion
<1> HIDE DEF step
<1>5. f \in [Nat -> Nat] /\ f[0] = 0
  BY <1>4 DEF IsRecursive
<1>6. ASSUME NEW k \in 1..Len(t) PROVE f[k] = f[k - 1] + LoopWorth(t, k)
  <2>1. k - 1 \in Nat /\ (k - 1) + 1 = k /\ f[k - 1] \in Nat
    BY <1>5
  <2>2. f[(k - 1) + 1] = step[(k - 1) + 1][f[k - 1]]
    BY <1>4, <2>1 DEF IsRecursive
  <2>3. QED BY <1>3, <2>1, <2>2
<1> DEFINE g == [k \in 0..Len(t) |-> f[k]]
<1>7. g = [k \in 0..Len(t) |-> IF k = 0 THEN 0 ELSE g[k - 1] + LoopWorth(t, k)]
  <2>1. ASSUME NEW k \in 0..Len(t) PROVE f[k] = IF k = 0 THEN 0 ELSE g[k - 1] + LoopWorth(t, k)
    <3>1. CASE k = 0
      BY <1>5, <3>1
    <3>2. CASE k # 0
      <4>1. k \in 1..Len(t) /\ k - 1 \in 0..Len(t)
        BY <1>1, <3>2
      <4>2. QED BY <1>6, <3>2, <4>1
    <3>3. QED BY <3>1, <3>2
  <2>2. QED BY <2>1
<1> DEFINE w == [j \in 1..Len(t) |-> LoopWorth(t, j)]
<1>8. LoopSums(t) = [k \in 0..Len(t) |-> IF k = 0 THEN 0 ELSE LoopSums(t)[k - 1] + LoopWorth(t, k)]
  <2>1. \A k \in 0..Len(t) : k # 0 => w[k] = LoopWorth(t, k)
    BY <1>1
  <2>2. LoopSums(t) = Sums(w, Len(t))
    BY DEF LoopSums
  <2> HIDE DEF g, w
  <2>3. g = [k \in 0..Len(t) |-> IF k = 0 THEN 0 ELSE g[k - 1] + w[k]]
    BY <1>7, <2>1
  <2>4. Sums(w, Len(t)) = [k \in 0..Len(t) |-> IF k = 0 THEN 0 ELSE Sums(w, Len(t))[k - 1] + w[k]]
    BY <2>3 DEF Sums
  <2>5. QED BY <2>1, <2>2, <2>4
<1>9. LoopSums(t)[0] = 0
  BY <1>1, <1>8
<1>10. ASSUME NEW k \in 1..Len(t) PROVE LoopSums(t)[k] = LoopSums(t)[k - 1] + LoopWorth(t, k)
  BY <1>1, <1>8
<1>11. ASSUME NEW k \in 0..Len(t) PROVE LoopSums(t)[k] \in Nat
  <2> DEFINE N == {n \in Nat : n <= Len(t) => LoopSums(t)[n] \in Nat}
  <2>1. 0 \in N
    BY <1>9
  <2>2. ASSUME NEW n \in N PROVE n + 1 \in N
    <3>1. CASE n + 1 <= Len(t)
      <4>1. n + 1 \in 1..Len(t) /\ (n + 1) - 1 = n /\ n <= Len(t)
        BY <1>1, <3>1
      <4>2. QED BY <1>10, <4>1, WorthType
    <3>2. CASE ~(n + 1 <= Len(t))
      BY <3>2
    <3>3. QED BY <3>1, <3>2
  <2>3. N = Nat
    <3> HIDE DEF N
    <3>1. N \in SUBSET Nat
      BY DEF N
    <3>2. QED BY <2>1, <2>2, <3>1, NatSet
  <2>4. QED BY <1>1, <2>3
<1>12. QED BY <1>9, <1>10, <1>11

-----------------------------------------------------------------------------
(* A run of digits in the loop for texts with letters *)

\* A digit is appended to a number of which only the remainder is kept.
LEMMA RemainderOfFactor ==
  ASSUME NEW w \in Nat \ {0}, NEW a \in Nat, NEW b \in Nat, NEW f \in Nat
  PROVE  ((b % w) * f + a) % w = (b * f + a) % w
<1> DEFINE r == b % w
<1>1. r \in 0..w - 1
  BY RemainderRange
<1> HIDE DEF r
<1>2. r % w = r
  <2>1. r = 0 * w + r /\ 0 \in Nat
    BY <1>1
  <2>2. QED BY <1>1, <2>1, RemainderUnique
<1>3. r \in Nat
  BY <1>1
<1>4. \A x, y, z \in Nat : ((x % w) + (y % w) * z) % w = (x + y * z) % w
  BY RemainderOfSum
<1>5. ((a % w) + (r % w) * f) % w = (a + r * f) % w
  BY <1>3, <1>4
<1>6. ((a % w) + r * f) % w = (a + b * f) % w
  BY <1>4 DEF r
<1>7. r * f + a = a + r * f /\ b * f + a = a + b * f
  BY <1>3
<1>8. QED BY <1>2, <1>5, <1>6, <1>7 DEF r

LEMMA NextDigit ==
  ASSUME NEW s \in Nat, NEW h \in Nat, NEW p \in Nat, NEW d \in Nat, NEW w \in Nat
  PROVE  (s + h * (10 * p) * w) + d * p * w = s + (h * 10 + d) * p * w
<1> DEFINE x == p * w
<1>1. x \in Nat
  OBVIOUS
<1>2. h * (10 * p) * w = (h * 10) * x /\ d * p * w = d * x
  OBVIOUS
<1>3. (h * 10 + d) * p * w = (h * 10 + d) * x
  OBVIOUS
<1> HIDE DEF x
<1>4. (h * 10 + d) * x = (h * 10) * x + d * x
  BY <1>1
<1>5. QED BY <1>1, <1>2, <1>3, <1>4

LEMMA RunEndDef ==
  ASSUME Text(raw), i \in 1..Len(raw)
  PROVE  /\ RunEnd \in i..Len(raw) + 1
         /\ \A k \in i..RunEnd - 1 : IsDigit(raw[k])
         /\ RunEnd <= Len(raw) => ~IsDigit(raw[RunEnd])
<1> DEFINE N == {j \in i..Len(raw) + 1 : j <= Len(raw) => ~IsDigit(raw[j])}
<1>1. Len(raw) \in Nat /\ i \in Nat
  BY DEF Text
<1>2. N \in SUBSET Nat /\ N # {}
  <2>1. Len(raw) + 1 \in N
    BY <1>1
  <2>2. i..Len(raw) + 1 \subseteq Nat
    BY <1>1
  <2>3. QED BY <2>1, <2>2
<1>3. PICK j \in N : \A m \in N : j <= m
  <2> HIDE DEF N
  <2>1. QED BY <1>2, LeastNat
<1>4. j \in i..Len(raw) + 1 /\ (j <= Len(raw) => ~IsDigit(raw[j]))
  OBVIOUS
<1>5. ASSUME NEW k \in i..j - 1 PROVE IsDigit(raw[k])
  <2>1. k \in i..Len(raw) + 1 /\ k < j
    BY <1>1, <1>4
  <2>2. k \notin N
    <3>1. j \in Int /\ k \in Int
      BY <1>1, <1>4
    <3> HIDE DEF N
    <3>2. QED BY <1>3, <2>1, <3>1
  <2>3. QED BY <2>1, <2>2
<1>6. QED BY <1>4, <1>5 DEF RunEnd

LEMMA AccumulatedDef ==
  ASSUME Text(raw), i \in 1..Len(raw)
  PROVE  /\ Accumulated[i - 1] = 0
         /\ \A k \in i..RunEnd - 1 :
              Accumulated[k] = (Accumulated[k - 1] * 10 + DigitOf(raw[k])) % Word
<1> DEFINE step == [m \in Nat |-> [v \in Nat |->
                      IF m \in 1..RunEnd - i THEN (v * 10 + DigitOf(raw[i - 1 + m])) % Word
                                             ELSE v]]
<1>1. Len(raw) \in Nat /\ i \in Nat \ {0} /\ RunEnd \in i..Len(raw) + 1 /\ 0 \in Nat
  BY RunEndDef DEF Text
<1>2. ASSUME NEW k \in i..RunEnd - 1 PROVE DigitOf(raw[k]) \in Nat
  BY RunEndDef, Characters
<1>3. ASSUME NEW m \in Nat, NEW v \in Nat PROVE step[m][v] \in Nat
  <2>1. CASE m \in 1..RunEnd - i
    <3>1. i - 1 + m \in i..RunEnd - 1
      BY <1>1, <2>1
    <3>2. DigitOf(raw[i - 1 + m]) \in Nat
      BY <1>2, <3>1
    <3>3. v * 10 + DigitOf(raw[i - 1 + m]) \in Nat /\ Word \in Nat \ {0}
      BY <3>2, NumberAssumption
    <3> DEFINE x == v * 10 + DigitOf(raw[i - 1 + m])
    <3>4. x % Word \in 0..Word - 1
      <4> HIDE DEF x
      <4>1. x \in Nat /\ Word \in Nat \ {0}
        BY <3>3 DEF x
      <4>2. QED BY <4>1, RemainderRange
    <3>5. x % Word \in Nat
      <4> HIDE DEF x
      <4>1. QED BY <3>3, <3>4
    <3>6. QED BY <2>1, <3>5
  <2>2. CASE m \notin 1..RunEnd - i
    BY <2>2
  <2>3. QED BY <2>1, <2>2
<1>4. IsRule(step, Nat)
  BY <1>3 DEF IsRule
<1>5. \A m \in 1..RunEnd - i : \A v \in Nat :
        step[m][v] = (v * 10 + DigitOf(raw[i - 1 + m])) % Word
  BY <1>1
<1>6. PICK f : IsRecursive(f, Nat, 0, step)
  <2> HIDE DEF step
  <2>1. QED BY <1>1, <1>4, NatRecursion
<1> HIDE DEF step
<1>7. f \in [Nat -> Nat] /\ f[0] = 0
  BY <1>6 DEF IsRecursive
<1> DEFINE g == [k \in i - 1..RunEnd - 1 |-> f[k - (i - 1)]]
<1>8. ASSUME NEW k \in i - 1..RunEnd - 1
      PROVE  f[k - (i - 1)] = IF k < i THEN 0 ELSE (g[k - 1] * 10 + DigitOf(raw[k])) % Word
  <2>1. CASE k < i
    <3>1. k - (i - 1) = 0
      BY <1>1, <2>1
    <3>2. QED BY <1>7, <2>1, <3>1
  <2>2. CASE ~(k < i)
    <3> DEFINE m == k - i
    <3>1. m \in Nat /\ m + 1 \in 1..RunEnd - i /\ k - 1 \in i - 1..RunEnd - 1
          /\ k - (i - 1) = m + 1 /\ (k - 1) - (i - 1) = m /\ i - 1 + (m + 1) = k
      BY <1>1, <2>2
    <3>2. g[k - 1] = f[m] /\ f[m] \in Nat
      BY <1>7, <3>1
    <3> HIDE DEF m, g
    <3>3. f[m + 1] = step[m + 1][f[m]]
      BY <1>6, <3>1 DEF IsRecursive
    <3>4. step[m + 1][f[m]] = (f[m] * 10 + DigitOf(raw[k])) % Word
      BY <1>5, <3>1, <3>2
    <3>5. QED BY <2>2, <3>1, <3>2, <3>3, <3>4
  <2>3. QED BY <2>1, <2>2
<1>9. g = [k \in i - 1..RunEnd - 1 |->
             IF k < i THEN 0 ELSE (g[k - 1] * 10 + DigitOf(raw[k])) % Word]
  BY <1>8
<1>10. Accumulated = [k \in i - 1..RunEnd - 1 |->
             IF k < i THEN 0 ELSE (Accumulated[k - 1] * 10 + DigitOf(raw[k])) % Word]
  <2> HIDE DEF g
  <2>1. QED BY <1>9 DEF Accumulated
<1>11. i - 1 \in i - 1..RunEnd - 1 /\ i - 1 < i
  BY <1>1
<1>12. \A k \in i..RunEnd - 1 : k \in i - 1..RunEnd - 1 /\ ~(k < i)
  BY <1>1
<1>13. Accumulated[i - 1] = 0
  BY <1>10, <1>11
<1>14. QED BY <1>10, <1>12, <1>13

\* What the loop adds for a run is what the positions of the run are worth.
LEMMA RunAdds ==
  ASSUME Text(raw), HasLetters(raw), i \in 1..Len(raw),
         i > 1 => ~(IsDigit(raw[i - 1]) /\ IsDigit(raw[i]))
  PROVE  \E h \in Nat :
           /\ Number = h % Word
           /\ LoopSums(raw)[RunEnd - 1] = LoopSums(raw)[i - 1] + h * LoopWeight(raw, i, RunEnd - 1)
<1> DEFINE e == RunEnd - 1
           w == LoopWeight(raw, i, e)
           N == {n \in Nat : n <= RunEnd - i =>
                   \E h \in Nat :
                     /\ Accumulated[i - 1 + n] = h % Word
                     /\ LoopSums(raw)[i - 1 + n]
                          = LoopSums(raw)[i - 1] + h * PowerOfTen[RunEnd - i - n] * w}
<1>1. Len(raw) \in Nat /\ i \in Nat \ {0} /\ RunEnd \in i..Len(raw) + 1
  BY RunEndDef DEF Text
<1>2. e = RunEnd - 1 /\ w \in Nat /\ Word \in Nat \ {0} /\ LoopSums(raw)[i - 1] \in Nat
  <2>1. i - 1 \in 0..Len(raw)
    BY <1>1
  <2>2. QED BY <2>1, WeightType, NumberAssumption, SumsDef
<1>3. 0 \in N
  <2>1. 0 % Word = 0
    <3>1. 0 = 0 * Word + 0 /\ 0 \in 0..Word - 1 /\ 0 \in Nat
      BY <1>2
    <3>2. QED BY <1>2, <3>1, RemainderUnique
  <2>2. PowerOfTen[RunEnd - i - 0] \in Nat
    <3>1. RunEnd - i - 0 \in Nat
      BY <1>1
    <3>2. QED BY <3>1, PowerOfTenDef
  <2> HIDE DEF w, e
  <2>3. LoopSums(raw)[i - 1] = LoopSums(raw)[i - 1] + 0 * PowerOfTen[RunEnd - i - 0] * w
    BY <1>2, <2>2
  <2>4. i - 1 + 0 = i - 1 /\ 0 \in Nat
    BY <1>1
  <2>5. QED BY <2>1, <2>3, <2>4, AccumulatedDef
<1>4. ASSUME NEW n \in N, n + 1 <= RunEnd - i PROVE n + 1 \in N
  <2> DEFINE k == i - 1 + (n + 1)
             q == RunEnd - i - (n + 1)
             d == DigitOf(raw[k])
  <2>1. n \in Nat /\ n <= RunEnd - i /\ k \in i..e /\ k \in 1..Len(raw) /\ k - 1 = i - 1 + n
        /\ q \in Nat /\ RunEnd - i - n = q + 1 /\ e - k = q
    BY <1>1, <1>4
  <2>2. PICK h \in Nat :
          /\ Accumulated[k - 1] = h % Word
          /\ LoopSums(raw)[k - 1] = LoopSums(raw)[i - 1] + h * PowerOfTen[q + 1] * w
    <3> HIDE DEF k, q, w
    <3>1. QED BY <2>1
  <2>3. IsDigit(raw[k]) /\ d \in Nat
    <3> HIDE DEF k
    <3>1. IsDigit(raw[k])
      BY <2>1, RunEndDef
    <3>2. d \in 0..9
      BY <3>1, Characters
    <3>3. QED BY <3>1, <3>2
  <2>4. IsRun(raw, i, e)
    <3>1. i \in i..RunEnd - 1 /\ i \in 1..Len(raw) /\ e \in i..Len(raw)
      BY <1>1, <2>1
    <3>2. IsDigit(raw[i])
      BY <3>1, RunEndDef
    <3>3. e < Len(raw) => ~IsDigit(raw[e + 1])
      <4>1. e + 1 = RunEnd /\ (e < Len(raw) => RunEnd <= Len(raw))
        BY <1>1
      <4>2. QED BY <4>1, RunEndDef
    <3>4. QED BY <3>1, <3>2, <3>3, RunEndDef DEF IsRun
  <2>5. FirstOfRun(raw, k) = i /\ LastOfRun(raw, k) = e
    <3> HIDE DEF e, k
    <3>1. QED BY <2>1, <2>4, OneRun
  <2>6. LoopWorth(raw, k) = d * PowerOfTen[q] * w
    <3> HIDE DEF k, q
    <3>1. QED BY <2>1, <2>3, <2>5 DEF LoopWorth
  <2>7. PowerOfTen[q] \in Nat /\ PowerOfTen[q + 1] = 10 * PowerOfTen[q]
    BY <2>1, PowerOfTenDef
  <2> HIDE DEF q, d, w, e
  <2>8. LoopSums(raw)[k] = LoopSums(raw)[i - 1] + (h * 10 + d) * PowerOfTen[q] * w
    <3>1. LoopSums(raw)[k] = LoopSums(raw)[k - 1] + LoopWorth(raw, k)
      BY <2>1, SumsDef
    <3>2. (LoopSums(raw)[i - 1] + h * (10 * PowerOfTen[q]) * w) + d * PowerOfTen[q] * w
            = LoopSums(raw)[i - 1] + (h * 10 + d) * PowerOfTen[q] * w
      <4>1. \A s, p \in Nat : (s + h * (10 * p) * w) + d * p * w = s + (h * 10 + d) * p * w
        BY <1>2, <2>3, NextDigit
      <4>2. QED BY <1>2, <2>7, <4>1
    <3>3. QED BY <2>2, <2>6, <2>7, <3>1, <3>2
  <2>9. Accumulated[k] = (h * 10 + d) % Word
    <3>1. Accumulated[k] = (Accumulated[k - 1] * 10 + d) % Word
      BY <2>1, AccumulatedDef DEF d, e
    <3>2. ((h % Word) * 10 + d) % Word = (h * 10 + d) % Word
      <4>1. \A a, b, f \in Nat : ((b % Word) * f + a) % Word = (b * f + a) % Word
        BY <1>2, RemainderOfFactor
      <4>2. QED BY <2>3, <4>1
    <3>3. QED BY <2>2, <3>1, <3>2
  <2>10. h * 10 + d \in Nat /\ n + 1 \in Nat
    BY <2>1, <2>3
  <2>11. QED BY <2>8, <2>9, <2>10 DEF q
<1>5. N = Nat
  <2> HIDE DEF N
  <2>1. N \in SUBSET Nat
    BY DEF N
  <2>2. ASSUME NEW n \in N PROVE n + 1 \in N
    <3>1. CASE n + 1 <= RunEnd - i
      BY <1>4, <3>1
    <3>2. CASE ~(n + 1 <= RunEnd - i)
      BY <2>1, <3>2 DEF N
    <3>3. QED BY <3>1, <3>2
  <2>3. QED BY <1>3, <2>1, <2>2, NatSet
<1>6. RunEnd - i \in N /\ i - 1 + (RunEnd - i) = e /\ RunEnd - i - (RunEnd - i) = 0
  <2>1. RunEnd - i \in Nat
    BY <1>1
  <2> HIDE DEF N
  <2>2. QED BY <1>1, <1>5, <2>1
<1> HIDE DEF w
<1>7. PICK h \in Nat : /\ Accumulated[e] = h % Word
                       /\ LoopSums(raw)[e] = LoopSums(raw)[i - 1] + h * PowerOfTen[0] * w
  <2> HIDE DEF e
  <2>1. QED BY <1>1, <1>6
<1>8. h * PowerOfTen[0] * w = h * w
  BY <1>2, PowerOfTenDef
<1>9. QED BY <1>7, <1>8 DEF w, Number

-----------------------------------------------------------------------------
(* The inductive invariant *)

\* The digits so far are those of a number v, to which the rest is still to be appended.
DigitState ==
  /\ ~HasLetters(raw)
  /\ i \in 1..Len(raw) + 1
  /\ \E v \in Nat : /\ result = v % Word
                    /\ LoopSums(raw)[i - 1] = v * PowerOfTen[DigitsBehind(raw, i - 1)]

\* next_multiplier belongs to the letter whose digits position i continues.
Announced ==
  \/ next_multiplier = None /\ \A p \in 1..i - 2 : ~Continues(raw, i, p)
  \/ \E p \in 1..i - 2 : Continues(raw, i, p) /\ next_multiplier = NextMultiplier(raw[p])

\* Every position so far is counted, and position i does not split a run of digits.
Counted ==
  /\ result = LoopSums(raw)[i - 1] % Word
  /\ i > 1 /\ i <= Len(raw) => ~(IsDigit(raw[i - 1]) /\ IsDigit(raw[i]))
  /\ Announced

\* At any other character the loop has stopped.
LetterState ==
  /\ HasLetters(raw)
  /\ i \in 1..Len(raw) + 1
  /\ (i <= Len(raw) /\ OtherChar(raw[i])) \/ Counted

NodeIdInv ==
  /\ Text(raw)
  /\ verdict = "start" => i = 1 /\ result = 0 /\ next_multiplier = None
  /\ verdict = "digits" => DigitState
  /\ verdict = "letters" => LetterState
  /\ verdict = "Ok" => result = LoopWritten(raw) % Word

LEMMA InitNodeIdInv == Init => NodeIdInv
<1> SUFFICES ASSUME Init PROVE NodeIdInv
  OBVIOUS
<1>1. PICK a \in Addresses : NodeIdStart(a[2])
  BY DEF Init
<1>2. Text(a[2])
  <2>1. 2 \in {1, 2}
    OBVIOUS
  <2>2. QED BY <2>1, AddressAssumption DEF Text
<1>3. QED BY <1>1, <1>2 DEF NodeIdStart, NodeIdInv

LEMMA ZeroRemainder == 0 % Word = 0
<1>1. Word \in Nat \ {0} /\ 0 \in Nat /\ 0 \in 0..Word - 1 /\ 0 = 0 * Word + 0
  BY NumberAssumption
<1>2. QED BY <1>1, RemainderUnique

LEMMA StepBegin ==
  ASSUME NodeIdInv, Begin
  PROVE  NodeIdInv'
<1>1. Text(raw)' /\ i = 1 /\ result = 0 /\ next_multiplier = None /\ UNCHANGED <<raw, i, result, next_multiplier>>
  BY DEF NodeIdInv, Begin, Returns, Text
<1>2. Len(raw) \in Nat /\ i \in 1..Len(raw) + 1 /\ i - 1 = 0
  BY <1>1 DEF NodeIdInv, Text
<1>3. LoopSums(raw)[0] = 0
  BY SumsDef DEF NodeIdInv
<1>4. verdict' = "digits" => DigitState
  <2>1. verdict' = "digits" => ~HasLetters(raw)
    BY DEF Begin, Returns
  <2>2. result = 0 % Word /\ 0 \in Nat
    BY <1>1, ZeroRemainder
  <2>3. DigitsBehind(raw, 0) \in Nat
    BY <1>2, DigitsBehindDef DEF NodeIdInv
  <2>4. LoopSums(raw)[i - 1] = 0 * PowerOfTen[DigitsBehind(raw, i - 1)]
    <3>1. PowerOfTen[DigitsBehind(raw, 0)] \in Nat
      BY <2>3, PowerOfTenDef
    <3>2. QED BY <1>2, <1>3, <3>1
  <2>5. QED BY <1>2, <2>1, <2>2, <2>4 DEF DigitState
<1>5. verdict' = "letters" => LetterState
  <2>1. verdict' = "letters" => HasLetters(raw)
    BY DEF Begin, Returns
  <2>2. result = LoopSums(raw)[i - 1] % Word
    BY <1>1, <1>2, <1>3, ZeroRemainder
  <2>3. Announced
    BY <1>1 DEF Announced
  <2>4. QED BY <1>1, <1>2, <2>1, <2>2, <2>3 DEF LetterState, Counted
<1>6. verdict' \notin {"start", "Ok"}
  BY DEF Begin, Returns
<1>7. (DigitState => DigitState') /\ (LetterState => LetterState')
  BY <1>1 DEF DigitState, LetterState, Counted, Announced
<1>8. QED BY <1>1, <1>4, <1>5, <1>6, <1>7 DEF NodeIdInv

-----------------------------------------------------------------------------
(* Digits only *)

LEMMA StepSkipDot ==
  ASSUME NodeIdInv, SkipDot
  PROVE  NodeIdInv'
<1>1. Text(raw) /\ DigitState /\ verdict = "digits"
  BY DEF NodeIdInv, SkipDot, At
<1>2. Len(raw) \in Nat /\ i \in 1..Len(raw) /\ i' = i + 1 /\ raw[i] = "."
      /\ UNCHANGED <<raw, result, verdict>>
  BY <1>1 DEF SkipDot, At, DigitState, Text
<1>3. ~IsDigit(raw[i])
  BY <1>2, Characters
<1>4. LoopSums(raw)[i] = LoopSums(raw)[i - 1]
  <2>1. LoopSums(raw)[i] = LoopSums(raw)[i - 1] + LoopWorth(raw, i) /\ i - 1 \in 0..Len(raw)
    BY <1>1, <1>2, SumsDef
  <2>2. LoopWorth(raw, i) = 0
    BY <1>3 DEF LoopWorth
  <2>3. LoopSums(raw)[i - 1] \in Nat
    BY <1>1, <2>1, SumsDef
  <2>4. QED BY <2>1, <2>2, <2>3
<1>5. DigitsBehind(raw, i - 1) = DigitsBehind(raw, i)
  <2>1. DigitsBehind(raw, i - 1) = DigitsBehind(raw, i) + 0 /\ i \in 0..Len(raw)
    BY <1>1, <1>2, <1>3, DigitsBehindDef
  <2>2. DigitsBehind(raw, i) \in Nat
    BY <1>1, <2>1, DigitsBehindDef
  <2>3. QED BY <2>1, <2>2
<1>6. i' - 1 = i /\ i' \in 1..Len(raw) + 1
  BY <1>2
<1>7. DigitState'
  BY <1>1, <1>2, <1>4, <1>5, <1>6 DEF DigitState
<1>8. Text(raw)' /\ verdict' = "digits"
  BY <1>1, <1>2 DEF Text
<1>9. QED BY <1>7, <1>8 DEF NodeIdInv

LEMMA StepTakeDigit ==
  ASSUME NodeIdInv, TakeDigit
  PROVE  NodeIdInv'
<1>1. Text(raw) /\ DigitState /\ verdict = "digits" /\ ~HasLetters(raw)
  BY DEF NodeIdInv, TakeDigit, At, DigitState
<1> DEFINE d == DigitOf(raw[i])
           p == PowerOfTen[DigitsBehind(raw, i)]
<1>2. Len(raw) \in Nat /\ i \in 1..Len(raw) /\ i' = i + 1 /\ IsDigit(raw[i])
      /\ result' = (result * 10 + d) % Word
      /\ UNCHANGED <<raw, verdict>>
  BY <1>1 DEF TakeDigit, At, DigitState, Text
<1>3. d \in 0..9
  BY <1>2, Characters
<1>4. DigitsBehind(raw, i) \in Nat /\ DigitsBehind(raw, i - 1) = DigitsBehind(raw, i) + 1
  <2>1. i \in 0..Len(raw)
    BY <1>2
  <2>2. DigitsBehind(raw, i) \in Nat
    BY <1>1, <2>1, DigitsBehindDef
  <2>3. QED BY <1>1, <1>2, <2>2, DigitsBehindDef
<1>5. p \in Nat /\ PowerOfTen[DigitsBehind(raw, i - 1)] = 10 * p
  BY <1>4, PowerOfTenDef
<1>6. PICK v \in Nat : result = v % Word /\ LoopSums(raw)[i - 1] = v * (10 * p)
  <2> HIDE DEF p
  <2>1. QED BY <1>1, <1>5 DEF DigitState
<1>7. LoopSums(raw)[i] = LoopSums(raw)[i - 1] + d * p
  <2>1. LoopSums(raw)[i] = LoopSums(raw)[i - 1] + LoopWorth(raw, i)
    BY <1>1, <1>2, SumsDef
  <2>2. LoopWorth(raw, i) = d * p
    BY <1>1, <1>2 DEF LoopWorth
  <2>3. QED BY <2>1, <2>2
<1> HIDE DEF d, p
<1>8. LoopSums(raw)[i] = (v * 10 + d) * p
  <2>1. v * (10 * p) + d * p = (v * 10 + d) * p
    BY <1>3, <1>5
  <2>2. QED BY <1>6, <1>7, <2>1
<1>9. result' = (v * 10 + d) % Word
  <2>1. Word \in Nat \ {0} /\ d \in Nat /\ 10 \in Nat
    BY <1>3, NumberAssumption
  <2>2. \A a, b, f \in Nat : ((b % Word) * f + a) % Word = (b * f + a) % Word
    BY <2>1, RemainderOfFactor
  <2>3. QED BY <1>2, <1>6, <2>1, <2>2
<1>10. v * 10 + d \in Nat /\ i' - 1 = i /\ i' \in 1..Len(raw) + 1
  BY <1>2, <1>3
<1>11. DigitState'
  <2>1. LoopSums(raw')[i' - 1] = (v * 10 + d) * PowerOfTen[DigitsBehind(raw', i' - 1)]
    BY <1>2, <1>8, <1>10 DEF p
  <2>2. QED BY <1>1, <1>2, <1>9, <1>10, <2>1 DEF DigitState
<1>12. Text(raw)' /\ verdict' = "digits"
  BY <1>1, <1>2 DEF Text
<1>13. QED BY <1>11, <1>12 DEF NodeIdInv

LEMMA StepRejectChar ==
  ASSUME NodeIdInv, RejectChar
  PROVE  NodeIdInv'
BY DEF NodeIdInv, RejectChar, Returns, Text

LEMMA StepFinishDigits ==
  ASSUME NodeIdInv, FinishDigits
  PROVE  NodeIdInv'
<1>1. Text(raw) /\ DigitState
  BY DEF NodeIdInv, FinishDigits
<1>2. Len(raw) \in Nat /\ i - 1 = Len(raw) /\ verdict' = "Ok" /\ UNCHANGED <<raw, result>>
  BY <1>1 DEF FinishDigits, DigitState, Text, Returns
<1>3. PICK v \in Nat : result = v % Word /\ LoopSums(raw)[Len(raw)] = v * PowerOfTen[0]
  BY <1>1, <1>2, DigitsBehindDef DEF DigitState
<1>4. LoopWritten(raw) = v
  BY <1>3, PowerOfTenDef DEF LoopWritten
<1>5. QED BY <1>1, <1>2, <1>3, <1>4 DEF NodeIdInv, Text

-----------------------------------------------------------------------------
(* With letters *)

LEMMA StepTakeDot ==
  ASSUME NodeIdInv, TakeDot
  PROVE  NodeIdInv'
<1>1. Text(raw) /\ LetterState /\ verdict = "letters"
  BY DEF NodeIdInv, TakeDot, At
<1>2. Len(raw) \in Nat /\ i \in 1..Len(raw) /\ i' = i + 1 /\ raw[i] = "."
      /\ UNCHANGED <<raw, result, verdict>>
  BY <1>1 DEF TakeDot, At, LetterState, Text
<1>3. ~IsDigit(raw[i]) /\ ~IsLetter(raw[i])
  BY <1>2, Characters
<1>4. Counted
  BY <1>1, <1>2 DEF LetterState, OtherChar
<1>5. LoopSums(raw)[i] = LoopSums(raw)[i - 1]
  <2>1. LoopSums(raw)[i] = LoopSums(raw)[i - 1] + LoopWorth(raw, i) /\ i - 1 \in 0..Len(raw)
    BY <1>1, <1>2, SumsDef
  <2>2. LoopWorth(raw, i) = 0
    BY <1>3 DEF LoopWorth
  <2>3. LoopSums(raw)[i - 1] \in Nat
    BY <1>1, <2>1, SumsDef
  <2>4. QED BY <2>1, <2>2, <2>3
<1>6. i' - 1 = i /\ i' \in 1..Len(raw) + 1
  BY <1>2
<1>7. Announced'
  <2>1. CASE i > 1 /\ IsLetter(raw[i - 1])
    <3>1. next_multiplier' = NextMultiplier(raw[i - 1])
      BY <2>1 DEF TakeDot
    <3>2. i - 1 \in 1..i' - 2 /\ \A k \in (i - 1) + 1..i' - 1 : k = i
      BY <1>2, <2>1
    <3>3. Continues(raw, i', i - 1)
      BY <1>2, <1>3, <2>1, <3>2 DEF Continues
    <3>4. QED BY <1>2, <3>1, <3>2, <3>3 DEF Announced
  <2>2. CASE ~(i > 1 /\ IsLetter(raw[i - 1]))
    <3>1. next_multiplier' = next_multiplier
      BY <2>2 DEF TakeDot
    <3>2. ASSUME NEW p \in 1..i - 2
          PROVE  p \in 1..i' - 2 /\ (Continues(raw, i', p) <=> Continues(raw, i, p))
      <4>1. p \in 1..i' - 2 /\ \A k \in p + 1..i' - 1 : k = i \/ k \in p + 1..i - 1
        BY <1>2
      <4>2. \A k \in p + 1..i - 1 : k \in p + 1..i' - 1
        BY <1>2
      <4>3. QED BY <1>3, <4>1, <4>2 DEF Continues
    <3>3. ASSUME NEW p \in 1..i' - 2, Continues(raw, i', p) PROVE p \in 1..i - 2
      <4>1. p = i - 1 => i > 1 /\ IsLetter(raw[i - 1])
        BY <1>2, <3>3 DEF Continues
      <4>2. QED BY <1>2, <2>2, <4>1
    <3>4. CASE next_multiplier = None /\ \A p \in 1..i - 2 : ~Continues(raw, i, p)
      BY <1>2, <3>1, <3>2, <3>3, <3>4 DEF Announced
    <3>5. CASE \E p \in 1..i - 2 :
                 Continues(raw, i, p) /\ next_multiplier = NextMultiplier(raw[p])
      BY <1>2, <3>1, <3>2, <3>5 DEF Announced
    <3>6. QED BY <1>4, <3>4, <3>5 DEF Counted, Announced
  <2>3. QED BY <2>1, <2>2
<1>8. Counted'
  BY <1>2, <1>3, <1>4, <1>5, <1>6, <1>7 DEF Counted
<1>9. Text(raw)' /\ verdict' = "letters" /\ LetterState'
  BY <1>1, <1>2, <1>6, <1>8 DEF Text, LetterState
<1>10. QED BY <1>9 DEF NodeIdInv

LEMMA StepFinishLetters ==
  ASSUME NodeIdInv, FinishLetters
  PROVE  NodeIdInv'
<1>1. Text(raw) /\ LetterState
  BY DEF NodeIdInv, FinishLetters
<1>2. Len(raw) \in Nat /\ i - 1 = Len(raw) /\ verdict' \in {"NodeIdOutOfRange", "Ok"}
      /\ UNCHANGED <<raw, result>>
  BY <1>1 DEF FinishLetters, LetterState, Text, Returns
<1>3. result = LoopSums(raw)[Len(raw)] % Word
  BY <1>1, <1>2 DEF LetterState, Counted
<1>4. QED BY <1>1, <1>2, <1>3 DEF NodeIdInv, Text, LoopWritten

\* Before a number the loop is where every position so far is counted, unless it has
\* stopped, and the run that it takes adds what its positions are worth.
LEMMA AddRun ==
  ASSUME NodeIdInv, At("letters"), Counted,
         NEW f \in Nat, Adds(f),
         RunEnd = i \/ f = LoopWeight(raw, i, RunEnd - 1)
  PROVE  result' = LoopSums(raw)[RunEnd - 1] % Word
<1>1. Text(raw) /\ LetterState /\ HasLetters(raw)
  BY DEF NodeIdInv, At, LetterState
<1>2. i \in 1..Len(raw) /\ Len(raw) \in Nat
  BY <1>1 DEF At, LetterState, Text
<1>3. RunEnd \in i..Len(raw) + 1 /\ i - 1 \in 0..Len(raw)
  BY <1>1, <1>2, RunEndDef
<1>4. result = LoopSums(raw)[i - 1] % Word /\ LoopSums(raw)[i - 1] \in Nat /\ Word \in Nat \ {0}
  BY <1>1, <1>3, SumsDef, NumberAssumption DEF Counted
<1> DEFINE s == LoopSums(raw)[i - 1]
<1>5. \A h \in Nat : Number = h % Word => result' = (s + h * f) % Word
  <2>1. \A a, b, c \in Nat : ((a % Word) + (b % Word) * c) % Word = (a + b * c) % Word
    BY <1>4, RemainderOfSum
  <2>2. s \in Nat /\ result = s % Word /\ result' = (result + Number * f) % Word
    BY <1>4 DEF Adds
  <2> HIDE DEF s
  <2>3. \A h \in Nat : ((s % Word) + (h % Word) * f) % Word = (s + h * f) % Word
    BY <2>1, <2>2
  <2>4. QED BY <2>2, <2>3
<1>6. CASE RunEnd = i
  <2>1. Number = 0
    BY <1>1, <1>2, <1>6, AccumulatedDef DEF Number
  <2>2. result' = (s + 0 * f) % Word /\ 0 \in Nat
    BY <1>5, <2>1, ZeroRemainder
  <2>3. s + 0 * f = s
    BY <1>4
  <2>4. QED BY <1>6, <2>2, <2>3
<1>7. CASE RunEnd # i /\ f = LoopWeight(raw, i, RunEnd - 1)
  <2>1. PICK h \in Nat :
          Number = h % Word /\ LoopSums(raw)[RunEnd - 1] = s + h * LoopWeight(raw, i, RunEnd - 1)
    <3>1. i > 1 => ~(IsDigit(raw[i - 1]) /\ IsDigit(raw[i]))
      BY <1>2 DEF Counted
    <3>2. QED BY <1>1, <1>2, <3>1, RunAdds
  <2>2. QED BY <1>5, <1>7, <2>1
<1>8. QED BY <1>6, <1>7

LEMMA StepTakeNumber ==
  ASSUME NodeIdInv, TakeNumber
  PROVE  NodeIdInv'
<1>1. Text(raw) /\ LetterState /\ At("letters") /\ verdict = "letters" /\ HasLetters(raw)
      /\ raw[i] # "." /\ next_multiplier' = None
      /\ UNCHANGED <<raw, verdict>>
  BY DEF NodeIdInv, TakeNumber, At, LetterState
<1>2. Len(raw) \in Nat /\ i \in 1..Len(raw)
  BY <1>1 DEF At, LetterState, Text
<1>3. RunEnd \in i..Len(raw) + 1 /\ (\A k \in i..RunEnd - 1 : IsDigit(raw[k]))
      /\ (RunEnd <= Len(raw) => ~IsDigit(raw[RunEnd]))
  BY <1>1, <1>2, RunEndDef
<1> DEFINE e == RunEnd - 1
<1>4. CASE OtherChar(raw[i])
  <2>1. RunEnd = i
    <3>1. RunEnd # i => i \in i..RunEnd - 1
      BY <1>2, <1>3
    <3>2. QED BY <1>3, <1>4, <3>1 DEF OtherChar
  <2>2. ~LetterAt(RunEnd)
    BY <1>4, <2>1 DEF LetterAt, OtherChar
  <2>3. i' = i
    BY <2>1, <2>2 DEF TakeNumber
  <2>4. LetterState'
    BY <1>1, <1>2, <1>4, <2>3 DEF LetterState
  <2>5. QED BY <1>1, <2>4 DEF NodeIdInv, Text
<1>5. CASE ~OtherChar(raw[i]) /\ LetterAt(RunEnd)
  <2>1. Counted
    BY <1>1, <1>5 DEF LetterState
  <2>2. RunEnd <= Len(raw) /\ IsLetter(raw[RunEnd]) /\ i' = RunEnd + 1
        /\ Adds(Multiplier(raw[RunEnd]))
    BY <1>5 DEF LetterAt, TakeNumber
  <2>3. e \in Nat /\ e < Len(raw) /\ e + 1 = RunEnd
    BY <1>2, <1>3, <2>2
  <2>4. LoopWeight(raw, i, e) = Multiplier(raw[RunEnd])
    BY <2>2, <2>3 DEF LoopWeight
  <2>5. Multiplier(raw[RunEnd]) \in Nat
    BY <2>2, Characters
  <2>6. result' = LoopSums(raw)[e] % Word
    BY <1>1, <2>1, <2>2, <2>4, <2>5, AddRun
  <2>7. LoopSums(raw)[RunEnd] = LoopSums(raw)[e]
    <3>1. RunEnd \in 1..Len(raw) /\ e \in 0..Len(raw) /\ RunEnd - 1 = e
      BY <1>2, <1>3, <2>2
    <3>2. LoopSums(raw)[RunEnd] = LoopSums(raw)[e] + LoopWorth(raw, RunEnd) /\ LoopSums(raw)[e] \in Nat
      BY <1>1, <3>1, SumsDef
    <3>3. LoopWorth(raw, RunEnd) = 0
      BY <1>3, <2>2 DEF LoopWorth
    <3>4. QED BY <3>2, <3>3
  <2>8. i' - 1 = RunEnd /\ i' \in 1..Len(raw) + 1
    BY <1>2, <1>3, <2>2
  <2>9. Announced'
    <3>1. ASSUME NEW p \in 1..i' - 2, Continues(raw, i', p) PROVE FALSE
      <4>1. RunEnd \in Int /\ i' - 2 = RunEnd - 1 /\ i' - 1 = RunEnd /\ p \in 1..RunEnd - 1
        BY <1>2, <1>3, <2>2
      <4>2. RunEnd \in p + 1..i' - 1
        BY <4>1
      <4>3. QED BY <2>2, <3>1, <4>2 DEF Continues
    <3>2. QED BY <1>1, <3>1 DEF Announced
  <2>10. Counted'
    BY <1>1, <1>3, <2>2, <2>6, <2>7, <2>8, <2>9 DEF Counted
  <2>11. LetterState'
    BY <1>1, <2>8, <2>10 DEF LetterState
  <2>12. QED BY <1>1, <2>11 DEF NodeIdInv, Text
<1>6. CASE ~OtherChar(raw[i]) /\ ~LetterAt(RunEnd)
  <2> DEFINE f == IF next_multiplier # None THEN next_multiplier ELSE 1
  <2>1. Counted
    BY <1>1, <1>6 DEF LetterState
  <2>2. i' = RunEnd /\ Adds(f)
    BY <1>6 DEF TakeNumber
  <2>3. RunEnd # i /\ IsDigit(raw[i])
    <3>1. IsDigit(raw[i]) \/ IsLetter(raw[i])
      BY <1>1, <1>6 DEF OtherChar
    <3>2. RunEnd = i => ~IsDigit(raw[i]) /\ ~IsLetter(raw[i])
      BY <1>2, <1>3, <1>6 DEF LetterAt
    <3>3. RunEnd # i => i \in i..RunEnd - 1
      BY <1>2, <1>3
    <3>4. QED BY <1>3, <3>1, <3>2, <3>3
  <2>4. e \in i..Len(raw) /\ e + 1 = RunEnd /\ IsDigit(raw[e])
    <3>1. e \in i..Len(raw) /\ e + 1 = RunEnd /\ e \in i..RunEnd - 1
      BY <1>2, <1>3, <2>3
    <3>2. QED BY <1>3, <3>1
  <2>5. ~(e < Len(raw) /\ IsLetter(raw[e + 1]))
    BY <1>2, <1>6, <2>4 DEF LetterAt
  <2>6. f = LoopWeight(raw, i, e) /\ f \in Nat
    <3>1. ~Continues(raw, i, i - 1)
      <4>1. raw[(i - 1) + 1] # "."
        BY <1>1, <1>2
      <4>2. QED BY <4>1 DEF Continues
    <3>2. \A p \in 1..i - 1 : p \in 1..i - 2 \/ p = i - 1
      BY <1>2
    <3>3. CASE next_multiplier = None /\ \A p \in 1..i - 2 : ~Continues(raw, i, p)
      <4>1. ~\E p \in 1..i - 1 : Continues(raw, i, p)
        BY <3>1, <3>2, <3>3
      <4>2. QED BY <2>5, <3>3, <4>1 DEF LoopWeight
    <3>4. CASE \E p \in 1..i - 2 :
                 Continues(raw, i, p) /\ next_multiplier = NextMultiplier(raw[p])
      <4>1. PICK p \in 1..i - 2 :
              Continues(raw, i, p) /\ next_multiplier = NextMultiplier(raw[p])
        BY <3>4
      <4>2. p \in 1..i - 1
        BY <1>2
      <4>3. ASSUME NEW q \in 1..i - 1, Continues(raw, i, q) PROVE q = p
        <5>1. q < p => p \in q + 1..i - 1
          BY <1>2
        <5>2. p < q => q \in p + 1..i - 1
          BY <1>2
        <5>3. ~(q < p) /\ ~(p < q)
          BY <4>1, <4>3, <5>1, <5>2 DEF Continues
        <5>4. QED BY <1>2, <5>3
      <4>4. LoopWeight(raw, i, e) = NextMultiplier(raw[p])
        <5>1. (CHOOSE q \in 1..i - 1 : Continues(raw, i, q)) = p
          BY <4>1, <4>2, <4>3
        <5>2. QED BY <2>5, <4>1, <4>2, <5>1 DEF LoopWeight
      <4>5. NextMultiplier(raw[p]) \in Nat \ {0}
        BY <4>1, Characters DEF Continues
      <4>6. QED BY <4>1, <4>4, <4>5 DEF None
    <3>5. QED BY <2>1, <3>3, <3>4 DEF Counted, Announced
  <2> HIDE DEF f
  <2>7. result' = LoopSums(raw)[e] % Word
    BY <1>1, <2>1, <2>2, <2>6, AddRun
  <2>8. i' - 1 = e /\ i' \in 1..Len(raw) + 1
    BY <1>2, <1>3, <2>2
  <2>9. Announced'
    <3>1. ASSUME NEW p \in 1..i' - 2, Continues(raw, i', p) PROVE FALSE
      <4>1. e \in Int /\ i' - 2 = e - 1 /\ i' - 1 = e /\ p \in 1..e - 1
        BY <1>2, <1>3, <2>2, <2>4
      <4>2. e \in p + 1..i' - 1
        BY <4>1
      <4>3. QED BY <2>4, <3>1, <4>2 DEF Continues
    <3>2. QED BY <1>1, <3>1 DEF Announced
  <2>10. Counted'
    BY <1>1, <1>3, <2>2, <2>7, <2>8, <2>9 DEF Counted
  <2>11. LetterState'
    BY <1>1, <2>8, <2>10 DEF LetterState
  <2>12. QED BY <1>1, <2>11 DEF NodeIdInv, Text
<1>7. QED BY <1>4, <1>5, <1>6

LEMMA StutterNodeId ==
  ASSUME NodeIdInv, UNCHANGED nodeIdVars
  PROVE  NodeIdInv'
BY DEF NodeIdInv, nodeIdVars, Text, DigitState, LetterState, Counted, Announced

LEMMA NodeIdInvariance == Spec => []NodeIdInv
<1>1. ASSUME NodeIdInv, [Next]_allVars
      PROVE  NodeIdInv'
  <2>1. CASE NodeIdNext
    BY <1>1, <2>1, StepBegin, StepSkipDot, StepTakeDigit, StepRejectChar, StepFinishDigits,
       StepTakeDot, StepTakeNumber, StepFinishLetters DEF NodeIdNext
  <2>2. CASE UNCHANGED nodeIdVars
    BY <1>1, <2>2, StutterNodeId
  <2>3. QED BY <1>1, <2>1, <2>2 DEF Next, ParseNodeId, ValidateAddr, allVars
<1>2. QED BY <1>1, InitNodeIdInv, PTL DEF Spec

-----------------------------------------------------------------------------
(* The rules of formatting *)

\* In a text with all its zeros, the loop counts each run as the rules do.
LEMMA RunsAgree ==
  ASSUME NEW t, Text(t), FullyWritten(t), NEW b, NEW e, IsRun(t, b, e)
  PROVE  LoopWeight(t, b, e) = IF Factor(t, b, e) = None THEN 1 ELSE Factor(t, b, e)
<1>1. Len(t) \in Nat /\ b \in 1..Len(t) /\ e \in b..Len(t)
  BY DEF Text, IsRun
<1>2. CASE e < Len(t) /\ IsLetter(t[e + 1])
  <2>1. Multiplier(t[e + 1]) # None
    BY <1>2, Characters DEF None
  <2>2. QED BY <1>2, <2>1 DEF LoopWeight, Factor
<1>3. ASSUME ~(e < Len(t) /\ IsLetter(t[e + 1])), NEW p \in 1..b - 1, Continues(t, b, p)
      PROVE  p = b - 2 /\ t[b - 1] = "." /\ IsLetter(t[b - 2]) /\ b > 2
  <2>1. p \in Int /\ IsLetter(t[p]) /\ t[p + 1] = "."
        /\ \A k \in p + 1..b - 1 : ~IsDigit(t[k]) /\ ~IsLetter(t[k])
    BY <1>1, <1>3 DEF Continues
  <2>2. p # b - 1
    <3>1. IsDigit(t[b])
      BY <1>1 DEF IsRun
    <3>2. p = b - 1 => t[b] = "."
      BY <1>1, <2>1
    <3>3. QED BY <3>1, <3>2, Characters
  <2>3. ~(p < b - 2)
    <3>1. SUFFICES ASSUME p < b - 2 PROVE FALSE
      OBVIOUS
    <3>2. b - 1 \in 2..Len(t) /\ b - 1 \in p + 1..b - 1 /\ (b - 1) - 1 \in p + 1..b - 1
      BY <1>1, <2>1, <3>1
    <3>3. QED BY <2>1, <3>2 DEF FullyWritten
  <2>4. p = b - 2
    BY <1>1, <2>1, <2>2, <2>3
  <2>5. p + 1 = b - 1 /\ b > 2
    BY <1>1, <1>3, <2>4
  <2>6. QED BY <2>1, <2>4, <2>5
<1>4. CASE ~(e < Len(t) /\ IsLetter(t[e + 1])) /\ \E p \in 1..b - 1 : Continues(t, b, p)
  <2>1. (CHOOSE p \in 1..b - 1 : Continues(t, b, p)) = b - 2
    BY <1>3, <1>4
  <2>2. b > 2 /\ t[b - 1] = "." /\ IsLetter(t[b - 2])
    BY <1>3, <1>4
  <2>3. NextMultiplier(t[b - 2]) # None
    BY <2>2, Characters DEF None
  <2>4. QED BY <1>4, <2>1, <2>2, <2>3 DEF LoopWeight, Factor
<1>5. CASE ~(e < Len(t) /\ IsLetter(t[e + 1])) /\ ~\E p \in 1..b - 1 : Continues(t, b, p)
  <2>1. ~(b > 2 /\ t[b - 1] = "." /\ IsLetter(t[b - 2]))
    <3>1. SUFFICES ASSUME b > 2, t[b - 1] = ".", IsLetter(t[b - 2]) PROVE FALSE
      OBVIOUS
    <3>2. b - 2 \in 1..b - 1 /\ (b - 2) + 1 = b - 1 /\ \A k \in (b - 2) + 1..b - 1 : k = b - 1
      BY <1>1, <3>1
    <3>3. ~IsDigit(t[b - 1]) /\ ~IsLetter(t[b - 1])
      BY <3>1, Characters
    <3>4. Continues(t, b, b - 2)
      BY <3>1, <3>2, <3>3 DEF Continues
    <3>5. QED BY <1>5, <3>2, <3>4
  <2>2. QED BY <1>5, <2>1 DEF LoopWeight, Factor
<1>6. QED BY <1>2, <1>4, <1>5

LEMMA LastRun ==
  ASSUME NEW t, Text(t), NEW b, NEW e, IsRun(t, b, e), NEW j \in b..e,
         \A k \in e + 1..Len(t) : ~IsDigit(t[k])
  PROVE  DigitsBehind(t, j) = e - j
<1>1. Len(t) \in Nat /\ b \in 1..Len(t) /\ e \in b..Len(t) /\ \A k \in b..e : IsDigit(t[k])
  BY DEF Text, IsRun
<1>2. {k \in j + 1..Len(t) : IsDigit(t[k])} = j + 1..e
  BY <1>1
<1>3. Cardinality(j + 1..e) = e - j
  <2>1. j + 1 \in Int /\ e \in Int /\ j <= e
    BY <1>1
  <2>2. Cardinality(j + 1..e) = IF j + 1 > e THEN 0 ELSE e - (j + 1) + 1
    BY <2>1, FS_Interval
  <2>3. QED BY <2>1, <2>2
<1>4. QED BY <1>2, <1>3 DEF DigitsBehind

LEMMA WorthsAgree ==
  ASSUME NEW t, Text(t), FullyWritten(t), NEW j \in 1..Len(t)
  PROVE  LoopWorth(t, j) = Worth(t, j)
<1> DEFINE e == LastOfRun(t, j)
           b == FirstOfRun(t, j)
           d == DigitOf(t[j])
<1>1. CASE ~IsDigit(t[j])
  BY <1>1 DEF LoopWorth, Worth
<1>2. ASSUME IsDigit(t[j])
      PROVE  /\ IsRun(t, b, e) /\ j \in b..e /\ d \in Nat
             /\ LoopWeight(t, b, e) = IF Factor(t, b, e) = None THEN 1 ELSE Factor(t, b, e)
             /\ Worth(t, j) = IF Factor(t, b, e) = None THEN d * PowerOfTen[DigitsBehind(t, j)]
                              ELSE d * PowerOfTen[e - j] * Factor(t, b, e)
  <2>1. IsRun(t, b, e) /\ e \in j..Len(t) /\ b \in 1..j
    BY <1>2, RunOf
  <2>2. j \in b..e
    BY <2>1 DEF Text
  <2>3. d \in Nat
    BY <1>2, Characters
  <2>4. Worth(t, j) = IF Factor(t, b, e) = None THEN d * PowerOfTen[DigitsBehind(t, j)]
                     ELSE d * PowerOfTen[e - j] * Factor(t, b, e)
    BY <1>2 DEF Worth
  <2> HIDE DEF b, e, d
  <2>5. QED BY <2>1, <2>2, <2>3, <2>4, RunsAgree
<1>3. CASE IsDigit(t[j]) /\ ~HasLetters(t)
  <2>1. ~(e < Len(t) /\ IsLetter(t[e + 1])) /\ ~(b > 2 /\ IsLetter(t[b - 2]))
    <3>1. e \in Int /\ b \in Int /\ 1 <= e /\ b <= Len(t) /\ Len(t) \in Nat
      <4> HIDE DEF b, e
      <4>1. QED BY <1>2, <1>3 DEF IsRun, Text
    <3> HIDE DEF b, e
    <3>2. (e < Len(t) => e + 1 \in DOMAIN t) /\ (b > 2 => b - 2 \in DOMAIN t)
      BY <3>1 DEF Text
    <3>3. QED BY <1>3, <3>2 DEF HasLetters
  <2>2. Factor(t, b, e) = None
    BY <2>1 DEF Factor
  <2>3. LoopWorth(t, j) = d * PowerOfTen[DigitsBehind(t, j)]
    BY <1>3 DEF LoopWorth
  <2>4. QED BY <1>2, <1>3, <2>2, <2>3
<1>4. CASE IsDigit(t[j]) /\ HasLetters(t)
  <2>1. LoopWorth(t, j) = d * PowerOfTen[e - j] * LoopWeight(t, b, e)
    BY <1>4 DEF LoopWorth
  <2>2. CASE Factor(t, b, e) # None
    BY <1>2, <1>4, <2>1, <2>2
  <2>3. CASE Factor(t, b, e) = None
    <3>1. \A k \in e + 1..Len(t) : ~IsDigit(t[k])
      BY <1>4, <2>3 DEF FullyWritten, Text
    <3>2. IsRun(t, b, e) /\ j \in b..e /\ d \in Nat
      BY <1>2, <1>4
    <3>3. LoopWeight(t, b, e) = 1 /\ Worth(t, j) = d * PowerOfTen[DigitsBehind(t, j)]
      BY <1>2, <1>4, <2>3
    <3> HIDE DEF b, e, d
    <3>4. DigitsBehind(t, j) = e - j
      BY <3>1, <3>2, LastRun
    <3>5. PowerOfTen[e - j] \in Nat
      <4>1. e - j \in Nat
        BY <3>2 DEF IsRun, Text
      <4>2. QED BY <4>1, PowerOfTenDef
    <3>6. d * PowerOfTen[e - j] * 1 = d * PowerOfTen[e - j]
      BY <3>2, <3>5
    <3>7. QED BY <2>1, <3>3, <3>4, <3>6
  <2>4. QED BY <2>2, <2>3
<1>5. QED BY <1>1, <1>3, <1>4

LEMMA WrittenAgree ==
  ASSUME NEW t, Text(t), FullyWritten(t)
  PROVE  LoopWritten(t) = Written(t)
<1>1. [j \in 1..Len(t) |-> LoopWorth(t, j)] = [j \in 1..Len(t) |-> Worth(t, j)]
  BY WorthsAgree
<1>2. QED BY <1>1 DEF LoopWritten, LoopSums, Written

\* A NodeID with all its zeros is accepted as the number, in the width of the code's
\* numbers, that the rules of formatting give (parse_node_id, nhip-core/src/addr.rs:124-150).
THEOREM AcceptedNodeIdsMean == Spec => []NodeIdMeans
<1>1. NodeIdInv => NodeIdMeans
  BY WrittenAgree DEF NodeIdInv, NodeIdMeans
<1>2. QED BY <1>1, NodeIdInvariance, PTL

-----------------------------------------------------------------------------
(* Parsing ends *)

LEMMA NodeIdSteps ==
  ASSUME NodeIdInv, Readable, NodeIdNext
  PROVE  NodeIdLeft \in Nat /\ NodeIdLeft' \in Nat /\ NodeIdLeft' < NodeIdLeft
<1>1. Text(raw) /\ Len(raw) \in Nat /\ raw' = raw
  BY DEF NodeIdInv, Text, NodeIdNext, Begin, SkipDot, TakeDigit, RejectChar, FinishDigits,
         TakeDot, TakeNumber, FinishLetters, Returns
<1>2. verdict = "start" => i = 1
  BY DEF NodeIdInv
<1>3. verdict \in {"digits", "letters"} => i \in 1..Len(raw) + 1
  BY DEF NodeIdInv, DigitState, LetterState
<1>4. CASE Begin
  BY <1>1, <1>2, <1>4 DEF Begin, Returns, NodeIdLeft
<1>5. CASE RejectChar \/ FinishDigits \/ FinishLetters
  BY <1>1, <1>3, <1>5 DEF RejectChar, FinishDigits, FinishLetters, At, Returns, NodeIdLeft
<1>6. ASSUME verdict \in {"digits", "letters"}, UNCHANGED verdict, i <= Len(raw),
             i' \in i + 1..Len(raw) + 1
      PROVE  NodeIdLeft \in Nat /\ NodeIdLeft' \in Nat /\ NodeIdLeft' < NodeIdLeft
  BY <1>1, <1>3, <1>6 DEF NodeIdLeft
<1>7. CASE SkipDot \/ TakeDigit \/ TakeDot
  <2>1. /\ verdict \in {"digits", "letters"} /\ UNCHANGED verdict /\ i <= Len(raw)
        /\ i' = i + 1
    BY <1>7 DEF SkipDot, TakeDigit, TakeDot, At
  <2>2. QED BY <1>1, <1>3, <1>6, <2>1
<1>8. CASE TakeNumber
  <2>1. verdict = "letters" /\ UNCHANGED verdict /\ i \in 1..Len(raw) /\ raw[i] # "."
    BY <1>1, <1>3, <1>8 DEF TakeNumber, At
  <2>2. RunEnd \in i..Len(raw) + 1 /\ (RunEnd <= Len(raw) => ~IsDigit(raw[RunEnd]))
    BY <1>1, <2>1, RunEndDef
  <2>3. RunEnd = i => LetterAt(RunEnd)
    BY <1>1, <2>1, <2>2 DEF Readable, OtherChar, LetterAt
  <2>4. i' = IF LetterAt(RunEnd) THEN RunEnd + 1 ELSE RunEnd
    BY <1>8 DEF TakeNumber
  <2>5. i' \in i + 1..Len(raw) + 1
    <3> DEFINE e == RunEnd
    <3>1. /\ e \in i..Len(raw) + 1 /\ (e = i => LetterAt(e))
          /\ i' = IF LetterAt(e) THEN e + 1 ELSE e
      BY <2>2, <2>3, <2>4
    <3> HIDE DEF e
    <3>2. QED BY <1>1, <2>1, <3>1 DEF LetterAt
  <2>6. QED BY <1>6, <2>1, <2>5
<1>9. QED BY <1>4, <1>5, <1>7, <1>8 DEF NodeIdNext

LEMMA NetworkSteps ==
  ASSUME ParseInv, NetworkNext
  PROVE  NetworkLeft \in Nat /\ NetworkLeft' \in Nat /\ NetworkLeft' < NetworkLeft
<1>1. Len(addr) \in Nat /\ pos \in 1..Len(addr) + 1 /\ addr' = addr
      /\ (network_verdict = "start" => pos = 1)
  BY DEF ParseInv, NetworkNext, BeginNetwork, TakeLetter, TakeSeparator, RejectSeparator,
         RejectByte, FinishNetwork, NetworkReturns
<1>2. CASE BeginNetwork
  BY <1>1, <1>2 DEF BeginNetwork, NetworkReturns, NetworkLeft
<1>3. CASE TakeLetter
  BY <1>1, <1>3 DEF TakeLetter, AtByte, NetworkLeft
<1>4. CASE TakeSeparator
  BY <1>1, <1>4 DEF TakeSeparator, AtByte, NetworkLeft
<1>5. CASE RejectSeparator \/ RejectByte \/ FinishNetwork
  BY <1>1, <1>5
  DEF RejectSeparator, RejectByte, FinishNetwork, AtByte, NetworkReturns, NetworkLeft
<1>6. QED BY <1>2, <1>3, <1>4, <1>5 DEF NetworkNext

LEMMA Closer ==
  \A m, n, x, y \in Nat : (x < m /\ y = n) \/ (x = m /\ y < n) => x + y < m + n /\ x + y \in Nat
OBVIOUS

\* A parser that goes on comes closer to its end with every step it takes, for any text
\* of digits, letters and dots: no state of its loops is ever met twice.
THEOREM ParsingAlwaysShrinks == Spec => ParsingShrinks
<1>1. ASSUME NodeIdInv, ParseInv, Readable, Next
      PROVE  /\ NodeIdLeft' + NetworkLeft' < NodeIdLeft + NetworkLeft
             /\ NodeIdLeft' + NetworkLeft' \in Nat
  <2>1. NetworkLeft \in Nat
    BY <1>1 DEF ParseInv, NetworkLeft
  <2>2. NodeIdLeft \in Nat
    BY <1>1 DEF NodeIdInv, Text, DigitState, LetterState, NodeIdLeft
  <2>3. CASE ParseNodeId
    <3>1. UNCHANGED NetworkLeft
      BY <2>3 DEF ParseNodeId, networkVars, NetworkLeft
    <3>2. NodeIdLeft' \in Nat /\ NodeIdLeft' < NodeIdLeft
      BY <1>1, <2>3, NodeIdSteps DEF ParseNodeId
    <3>3. QED BY <2>1, <2>2, <3>1, <3>2, Closer
  <2>4. CASE ValidateAddr
    <3>1. UNCHANGED NodeIdLeft
      BY <2>4 DEF ValidateAddr, nodeIdVars, NodeIdLeft
    <3>2. NetworkLeft' \in Nat /\ NetworkLeft' < NetworkLeft
      BY <1>1, <2>4, NetworkSteps DEF ValidateAddr
    <3>3. QED BY <2>1, <2>2, <3>1, <3>2, Closer
  <2>5. QED BY <1>1, <2>3, <2>4 DEF Next
<1>2. NodeIdInv /\ ParseInv /\ [Next]_allVars
        => [Readable => /\ NodeIdLeft' + NetworkLeft' < NodeIdLeft + NetworkLeft
                        /\ NodeIdLeft' + NetworkLeft' \in Nat]_allVars
  BY <1>1
<1>3. QED BY <1>2, NodeIdInvariance, ParseInvariance, PTL DEF Spec, ParsingShrinks
=============================================================================
