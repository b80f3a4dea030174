---------------------------- MODULE InductionFacts ----------------------------
(***************************************************************************)
(* Induction and recursion over natural numbers, stated of sets and of     *)
(* functions: the library's theorems take an operator as a parameter,      *)
(* which no prover here can instantiate, but a set of numbers that holds 0 *)
(* and with a number the next one can be cited like any other fact.        *)
(***************************************************************************)
EXTENDS Integers, TLAPS, WellFoundedInduction

LessThan == {e \in Nat \X Nat : e[1] < e[2]}

\* The order of the natural numbers, as a set of pairs.
LEMMA LessThanIsOrder == \A a, b \in Nat : <<a, b>> \in LessThan <=> a < b
BY DEF LessThan

LEMMA LessThanWellFounded == IsWellFoundedOn(LessThan, Nat)
<1>1. OpToRel(<, Nat) = LessThan
  BY DEF OpToRel, LessThan
<1> QED BY <1>1, NatLessThanWellFounded

\* A set of natural numbers that is not empty has a least element.
THEOREM LeastElement ==
  ASSUME NEW T \in SUBSET Nat, T # {}
  PROVE  \E x \in T : \A y \in T : x <= y
<1>1. PICK x \in T : \A y \in T : <<y, x>> \notin LessThan
  BY LessThanWellFounded, WFMin
<1>2. ASSUME NEW y \in T PROVE x <= y
  <2>1. x \in Nat /\ y \in Nat /\ <<y, x>> \notin LessThan
    BY <1>1
  <2>2. ~(y < x)
    BY <2>1, LessThanIsOrder
  <2> QED BY <2>1, <2>2
<1> QED BY <1>2

\* Induction: what holds of 0 and with n of n + 1 holds of every natural number.
THEOREM Induction ==
  ASSUME NEW S, 0 \in S, \A n \in Nat : n \in S => n + 1 \in S
  PROVE  Nat \subseteq S
<1> SUFFICES ASSUME Nat \ S # {} PROVE FALSE
  OBVIOUS
<1>1. PICK x \in Nat \ S : \A y \in Nat \ S : x <= y
  BY LeastElement
<1>2. x # 0 /\ x - 1 \in Nat /\ x - 1 \in S
  BY <1>1
<1> QED BY <1>1, <1>2

\* Induction from lo to hi.
Inductive(S, lo, hi) == lo \in S /\ \A q \in lo..(hi - 1) : q \in S => q + 1 \in S

THEOREM IntervalInduction ==
  ASSUME NEW lo \in Int, NEW hi \in Int, NEW S, Inductive(S, lo, hi)
  PROVE  lo..hi \subseteq S
<1> USE DEF Inductive
<1> DEFINE T == {n \in Nat : lo + n <= hi => lo + n \in S}
<1>1. 0 \in T
  OBVIOUS
<1>2. ASSUME NEW n \in Nat, n \in T PROVE n + 1 \in T
  <2>1. CASE lo + n + 1 <= hi
    <3>1. lo + n \in lo..(hi - 1) /\ lo + n \in S
      BY <2>1, <1>2
    <3> QED BY <3>1
  <2> QED BY <2>1
<1>3. Nat \subseteq T
  <2> HIDE DEF T
  <2> QED BY <1>1, <1>2, Induction
<1>4. ASSUME NEW q \in lo..hi PROVE q \in S
  <2>1. q - lo \in Nat /\ q - lo \in T /\ lo + (q - lo) = q
    BY <1>3
  <2> QED BY <2>1
<1> QED BY <1>4

\* f starts with c, and F gives each value from the one before it and from
\* the number it belongs to, counted from lo.
Follows(f, c, lo, F) == f[0] = c /\ \A n \in Nat : f[n + 1] = F[<<f[n], lo + n + 1>>]

\* A function may be defined by its first value and a step, which may look at
\* the number it leads to, counted from lo.
THEOREM Recursion ==
  ASSUME NEW S, NEW c \in S, NEW lo \in Int, NEW F \in [S \X Int -> S]
  PROVE  \E f \in [Nat -> S] : Follows(f, c, lo, F)
<1> DEFINE Upto(n, g) == g[0] = c /\ \A k \in 0..(n - 1) : g[k + 1] = F[<<g[k], lo + k + 1>>]
           Has == {n \in Nat : \E g \in [0..n -> S] : Upto(n, g)}
<1>1. 0 \in Has
  <2>1. [k \in 0..0 |-> c] \in [0..0 -> S] /\ Upto(0, [k \in 0..0 |-> c])
    OBVIOUS
  <2> QED BY <2>1
<1>2. ASSUME NEW n \in Nat, n \in Has PROVE n + 1 \in Has
  <2>1. PICK g \in [0..n -> S] : Upto(n, g)
    BY <1>2
  <2> DEFINE g2 == [k \in 0..(n + 1) |-> IF k = n + 1 THEN F[<<g[n], lo + n + 1>>] ELSE g[k]]
  <2>2. g2 \in [0..(n + 1) -> S]
    OBVIOUS
  <2>3. g2[0] = c
    BY <2>1
  <2>4. ASSUME NEW k \in 0..n PROVE g2[k + 1] = F[<<g2[k], lo + k + 1>>]
    <3>1. CASE k = n
      <4>1. g2[n + 1] = F[<<g[n], lo + n + 1>>] /\ g2[n] = g[n]
        OBVIOUS
      <4> QED BY <3>1, <4>1
    <3>2. CASE k < n
      <4>1. k \in 0..(n - 1) /\ g2[k + 1] = g[k + 1] /\ g2[k] = g[k]
        BY <3>2
      <4> QED BY <4>1, <2>1
    <3> QED BY <3>1, <3>2
  <2>5. Upto(n + 1, g2)
    <3> HIDE DEF g2
    <3> QED BY <2>3, <2>4
  <2> HIDE DEF g2, Upto
  <2> QED BY <2>2, <2>5
<1>3. Nat \subseteq Has
  <2> HIDE DEF Has
  <2> QED BY <1>1, <1>2, Induction
\* Two such functions agree where both are defined.
<1>4. ASSUME NEW m \in Nat, NEW n \in Nat, NEW g1, NEW g2, Upto(m, g1), Upto(n, g2)
      PROVE  \A k \in Nat : k <= m /\ k <= n => g1[k] = g2[k]
  <2> DEFINE Same == {k \in Nat : k <= m /\ k <= n => g1[k] = g2[k]}
  <2>1. 0 \in Same
    BY <1>4
  <2>2. ASSUME NEW k \in Nat, k \in Same PROVE k + 1 \in Same
    <3> SUFFICES ASSUME k + 1 <= m, k + 1 <= n PROVE g1[k + 1] = g2[k + 1]
      OBVIOUS
    <3>1. k \in 0..(m - 1) /\ k \in 0..(n - 1) /\ g1[k] = g2[k]
      BY <2>2
    <3> QED BY <3>1, <1>4
  <2>3. Nat \subseteq Same
    <3> HIDE DEF Same
    <3> QED BY <2>1, <2>2, Induction
  <2> QED BY <2>3
<1> DEFINE G(n) == CHOOSE g \in [0..n -> S] : Upto(n, g)
           f == [n \in Nat |-> G(n)[n]]
<1>5. ASSUME NEW n \in Nat PROVE G(n) \in [0..n -> S] /\ Upto(n, G(n))
  <2>1. n \in Has
    BY <1>3
  <2> QED BY <2>1
<1> HIDE DEF G
<1>6. f \in [Nat -> S]
  BY <1>5
<1>7. f[0] = c
  BY <1>5
<1>8. ASSUME NEW n \in Nat PROVE f[n + 1] = F[<<f[n], lo + n + 1>>]
  <2>1. Upto(n, G(n)) /\ Upto(n + 1, G(n + 1))
    BY <1>5
  <2>2. G(n + 1)[n] = G(n)[n]
    <3> HIDE DEF Upto
    <3> QED BY <2>1, <1>4
  <2>3. G(n + 1)[n + 1] = F[<<G(n + 1)[n], lo + n + 1>>]
    BY <2>1
  <2> QED BY <2>2, <2>3
<1>9. Follows(f, c, lo, F)
  <2> HIDE DEF f
  <2> QED BY <1>7, <1>8 DEF Follows
<1> HIDE DEF f
<1> QED BY <1>6, <1>9

\* The same from lo to hi, in the shape of a recursive definition.
Recursive(f, c, lo, hi, F) == f = [q \in lo..hi |-> IF q = lo THEN c ELSE F[<<f[q - 1], q>>]]

THEOREM IntervalRecursion ==
  ASSUME NEW S, NEW c \in S, NEW lo \in Int, NEW F \in [S \X Int -> S], NEW hi \in Int
  PROVE  \E f \in [lo..hi -> S] : Recursive(f, c, lo, hi, F)
<1>1. PICK g \in [Nat -> S] : Follows(g, c, lo, F)
  BY Recursion
<1> DEFINE f == [q \in lo..hi |-> g[q - lo]]
<1>2. f \in [lo..hi -> S]
  OBVIOUS
<1>3. ASSUME NEW q \in lo..hi PROVE f[q] = IF q = lo THEN c ELSE F[<<f[q - 1], q>>]
  <2>1. CASE q = lo
    BY <2>1, <1>1 DEF Follows
  <2>2. CASE q # lo
    <3>1. q - 1 - lo \in Nat /\ q - 1 \in lo..hi
      BY <2>2
    <3>2. g[(q - 1 - lo) + 1] = F[<<g[q - 1 - lo], lo + (q - 1 - lo) + 1>>]
      BY <3>1, <1>1 DEF Follows
    <3>3. (q - 1 - lo) + 1 = q - lo /\ lo + (q - 1 - lo) + 1 = q
      OBVIOUS
    <3>4. g[q - lo] = F[<<g[q - 1 - lo], q>>]
      BY <3>2, <3>3
    <3> QED BY <2>2, <3>1, <3>4
  <2> QED BY <2>1, <2>2
<1>4. Recursive(f, c, lo, hi, F)
  <2> HIDE DEF f
  <2> QED BY <1>2, <1>3 DEF Recursive
<1> HIDE DEF f
<1> QED BY <1>2, <1>4
=============================================================================
