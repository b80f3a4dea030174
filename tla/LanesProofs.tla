------------------------------ MODULE LanesProofs -----------------------------
(***************************************************************************)
(* Theorems about module Lanes, for bytes and words of every size: what a  *)
(* borrow between the lanes of a subtraction can and cannot do.            *)
(***************************************************************************)
EXTENDS Lanes, InductionFacts

\* --- arithmetic ----------------------------------------------------------
LEMMA Grows == ASSUME NEW b \in Nat \ {0}, NEW q \in Int PROVE q >= 1 => b * q >= b
<1>1. CASE q >= 1
  <2>1. q - 1 \in Nat /\ b \in Nat
    BY <1>1
  <2>2. b * (q - 1) \in Nat
    BY <2>1
  <2>3. b * q = b * (q - 1) + b
    OBVIOUS
  <2> QED BY <2>1, <2>2, <2>3
<1> QED BY <1>1

\* Quotient and remainder.
LEMMA Divides ==
  ASSUME NEW b \in Nat \ {0}, NEW x \in Int
  PROVE  /\ x \div b \in Int /\ x % b \in 0..(b - 1)
         /\ x = b * (x \div b) + (x % b)
OBVIOUS

LEMMA Division ==
  ASSUME NEW b \in Nat \ {0}, NEW q \in Int, NEW r \in 0..(b - 1)
  PROVE  (b * q + r) \div b = q /\ (b * q + r) % b = r
<1> DEFINE x == b * q + r
<1>1. x \in Int /\ r \in Int /\ 0 <= r /\ r < b /\ b \in Int /\ b > 0
  OBVIOUS
<1>2. x = b * q + r
  OBVIOUS
<1> HIDE DEF x
<1>3. x \div b = q
  BY <1>1, <1>2
<1>4. x % b = r
  BY <1>1, <1>2
<1> QED BY <1>3, <1>4 DEF x

\* Dividing twice divides by the product.
LEMMA DividedTwice ==
  ASSUME NEW a \in Nat \ {0}, NEW b \in Nat \ {0}, NEW x \in Int
  PROVE  x \div (b * a) = (x \div a) \div b
<1> DEFINE q == x \div a
           r == x % a
           p == q \div b
           s == q % b
<1>1. q \in Int /\ r \in 0..(a - 1) /\ x = a * q + r
  BY Divides
<1> HIDE DEF q, r
<1>2. p \in Int /\ s \in 0..(b - 1) /\ q = b * p + s
  BY <1>1, Divides
<1> HIDE DEF p, s
<1>3. b * a \in Nat \ {0}
  <2>1. b * a >= b
    BY Grows
  <2> QED BY <2>1
<1>4. a * s + r \in 0..(b * a - 1)
  <2>1. a * s \in Nat
    BY <1>2
  <2>2. a * (b - s) >= a
    <3>1. b - s \in Int /\ b - s >= 1
      BY <1>2
    <3> QED BY <3>1, Grows
  <2>3. a * (b - s) = b * a - a * s
    BY <1>2
  <2> QED BY <1>1, <1>3, <2>1, <2>2, <2>3
<1>5. x = (b * a) * p + (a * s + r)
  <2>1. a * q = a * (b * p) + a * s
    BY <1>1, <1>2
  <2>2. a * (b * p) = (b * a) * p
    BY <1>2
  <2> QED BY <1>1, <1>2, <2>1, <2>2
<1>6. x \div (b * a) = p
  <2> DEFINE c == b * a
             t == a * s + r
  <2>1. c \in Nat \ {0} /\ t \in 0..(c - 1) /\ x = c * p + t
    BY <1>3, <1>4, <1>5
  <2> HIDE DEF c, t
  <2>2. x \div c = p
    BY <1>2, <2>1, Division
  <2> QED BY <2>2 DEF c
<1> QED BY <1>6 DEF p, q

\* --- places and words ----------------------------------------------------
LEMMA Sizes ==
  /\ Base \in Nat \ {0} /\ Base = Top + Top /\ Top \in Nat \ {0}
  /\ Width \in Nat \ {0} /\ 0 \in Lanes
BY LanesAssumption DEF Base, Lanes

\* The places are the powers of Base.
LEMMA Places ==
  /\ \A k \in 0..Width : Place[k] \in Nat \ {0}
  /\ Place[0] = 1
  /\ \A k \in 0..(Width - 1) : Place[k + 1] = Base * Place[k]
<1> DEFINE S == Nat \ {0}
           F == [e \in S \X Int |-> Base * e[1]]
<1>1. F \in [S \X Int -> S]
  <2>1. ASSUME NEW n \in S PROVE Base * n \in S
    <3>1. n \in Int /\ n >= 1
      OBVIOUS
    <3>2. Base * n >= Base /\ Base * n \in Int
      BY <3>1, Sizes, Grows
    <3> QED BY <3>2, Sizes
  <2> QED BY <2>1
<1>2. PICK f \in [0..Width -> S] : Recursive(f, 1, 0, Width, F)
  <2>1. 1 \in S /\ 0 \in Int /\ Width \in Int
    BY Sizes
  <2> HIDE DEF S, F
  <2> QED BY <1>1, <2>1, IntervalRecursion
<1>3. ASSUME NEW k \in 0..Width, k # 0 PROVE F[<<f[k - 1], k>>] = Base * f[k - 1]
  <2>1. k - 1 \in 0..Width
    BY <1>3, Sizes
  <2>2. <<f[k - 1], k>> \in S \X Int
    BY <1>2, <2>1
  <2> QED BY <2>2
<1> HIDE DEF S, F
<1>4. f = [k \in 0..Width |-> IF k = 0 THEN 1 ELSE Base * f[k - 1]]
  BY <1>2, <1>3 DEF Recursive
<1>5. \E g : g = [k \in 0..Width |-> IF k = 0 THEN 1 ELSE Base * g[k - 1]]
  BY <1>4
<1>6. Place = [k \in 0..Width |-> IF k = 0 THEN 1 ELSE Base * Place[k - 1]]
  BY <1>5, Zenon DEF Place
<1>7. \A k \in 0..(Width - 1) : Place[k + 1] = Base * Place[k]
  <2> TAKE k \in 0..(Width - 1)
  <2>1. k + 1 \in 0..Width /\ k + 1 # 0 /\ (k + 1) - 1 = k
    BY Sizes
  <2> QED BY <1>6, <2>1
<1>8. 0 \in 0..Width /\ Place[0] = 1
  BY <1>6, Sizes
<1> DEFINE T == {k \in 0..Width : Place[k] \in Nat \ {0}}
<1>9. Inductive(T, 0, Width)
  <2>1. ASSUME NEW k \in 0..(Width - 1), k \in T PROVE k + 1 \in T
    <3>1. Place[k] \in Int /\ Place[k] >= 1 /\ k + 1 \in 0..Width
      BY <2>1, Sizes
    <3>2. Base * Place[k] >= Base /\ Base * Place[k] \in Int
      BY <3>1, Sizes, Grows
    <3> QED BY <1>7, <3>1, <3>2, Sizes
  <2>2. 0 \in T
    BY <1>8
  <2> HIDE DEF T
  <2> QED BY <2>1, <2>2 DEF Inductive
<1>10. 0..Width \subseteq T
  <2> HIDE DEF T
  <2> QED BY <1>9, Sizes, IntervalInduction
<1> QED BY <1>7, <1>8, <1>10

Digits == [Lanes -> 0..(Base - 1)]

\* high[k] is the value of the k highest lanes of b.
Highest(high, b) ==
  /\ high \in [0..Width -> Nat] /\ high[0] = 0 /\ Value(b) = high[Width]
  /\ \A k \in 0..(Width - 1) : high[Width - k] = Base * high[Width - k - 1] + b[k]

LEMMA Values == ASSUME NEW b \in Digits PROVE \E high : Highest(high, b)
<1> DEFINE F == [e \in Nat \X Int |-> IF e[2] \in 1..Width THEN e[1] * Base + b[Width - e[2]] ELSE 0]
           Is(g) == g = [k \in 0..Width |-> IF k = 0 THEN 0 ELSE g[k - 1] * Base + b[Width - k]]
<1>1. F \in [Nat \X Int -> Nat]
  <2>1. ASSUME NEW n \in Nat, NEW k \in 1..Width PROVE n * Base + b[Width - k] \in Nat
    <3>1. b[Width - k] \in Nat
      BY Sizes DEF Digits, Lanes
    <3>2. n * Base \in Nat
      BY Sizes
    <3> QED BY <3>1, <3>2
  <2> QED BY <2>1
<1>2. PICK f \in [0..Width -> Nat] : Recursive(f, 0, 0, Width, F)
  <2>1. 0 \in Nat /\ 0 \in Int /\ Width \in Int
    BY Sizes
  <2> HIDE DEF F
  <2> QED BY <1>1, <2>1, IntervalRecursion
<1>3. ASSUME NEW k \in 0..Width, k # 0 PROVE F[<<f[k - 1], k>>] = f[k - 1] * Base + b[Width - k]
  <2>1. k - 1 \in 0..Width /\ k \in 1..Width
    BY <1>3, Sizes
  <2>2. <<f[k - 1], k>> \in Nat \X Int
    BY <1>2, <2>1
  <2> QED BY <2>1, <2>2
<1> HIDE DEF F
<1>4. Is(f)
  BY <1>2, <1>3 DEF Recursive
<1> DEFINE high == CHOOSE g : Is(g)
<1>5. Is(high)
  <2> HIDE DEF Is
  <2> QED BY <1>4
<1>6. Value(b) = high[Width]
  BY DEF Value
<1> HIDE DEF high
<1>7. \A k \in 0..Width : high[k] = IF k = 0 THEN 0 ELSE high[k - 1] * Base + b[Width - k]
  BY <1>5
<1>8. DOMAIN high = 0..Width /\ high = [k \in 0..Width |-> high[k]]
  BY <1>5
<1> HIDE DEF Is
<1> DEFINE T == {k \in 0..Width : high[k] \in Nat}
<1>9. Inductive(T, 0, Width)
  <2>1. ASSUME NEW k \in 0..(Width - 1), k \in T PROVE k + 1 \in T
    <3>1. k + 1 \in 0..Width /\ k + 1 # 0 /\ (k + 1) - 1 = k /\ Width - (k + 1) \in 0..(Width - 1)
      BY Sizes
    <3>2. high[k] \in Nat /\ b[Width - (k + 1)] \in Nat
      BY <2>1, <3>1, Sizes DEF Digits, Lanes
    <3>3. \A n \in Nat : n * Base \in Nat
      BY Sizes
    <3>4. high[k + 1] = high[k] * Base + b[Width - (k + 1)]
      BY <1>7, <3>1
    <3>5. high[k] * Base \in Nat
      BY <3>2, <3>3
    <3>6. high[k] * Base + b[Width - (k + 1)] \in Nat
      BY <3>2, <3>5
    <3> QED BY <3>1, <3>4, <3>6
  <2>2. 0 \in T
    BY <1>7, Sizes
  <2> HIDE DEF T
  <2> QED BY <2>1, <2>2 DEF Inductive
<1>10. 0..Width \subseteq T
  <2> HIDE DEF T
  <2> QED BY <1>9, Sizes, IntervalInduction
<1>11. \A k \in 0..Width : high[k] \in Nat
  BY <1>10
<1>12. high \in [0..Width -> Nat] /\ high[0] = 0
  <2>1. high \in [0..Width -> Nat]
    BY <1>8, <1>11
  <2>2. 0 \in 0..Width
    BY Sizes
  <2> QED BY <1>7, <2>1, <2>2
<1>13. \A k \in 0..(Width - 1) : high[Width - k] = Base * high[Width - k - 1] + b[k]
  <2> TAKE k \in 0..(Width - 1)
  <2>1. Width - k \in 0..Width /\ Width - k # 0 /\ Width - (Width - k) = k /\ Width - k - 1 \in 0..Width
    BY Sizes
  <2>2. high[Width - k] = high[Width - k - 1] * Base + b[k]
    BY <1>7, <2>1
  <2>3. high[Width - k - 1] \in Nat
    BY <1>11, <2>1
  <2> QED BY <2>2, <2>3, Sizes
<1> QED BY <1>6, <1>12, <1>13 DEF Highest

\* --- borrows -------------------------------------------------------------
\* The lanes below k borrow from it: one is less, and those between are equal.
Borrowed(u, l, k) ==
  \E j \in 0..(k - 1) : u[j] < l[j] /\ \A n \in (j + 1)..(k - 1) : u[n] = l[n]

LEMMA BorrowedOn ==
  ASSUME NEW u \in Digits, NEW l \in Digits, NEW k \in Lanes
  PROVE  /\ Borrowed(u, l, k + 1) <=> u[k] < l[k] \/ (u[k] = l[k] /\ Borrowed(u, l, k))
         /\ Borrowed(u, l, k) => k > 0 /\ k - 1 \in Lanes /\ u[k - 1] <= l[k - 1]
<1>1. k \in Nat /\ Width \in Nat /\ k < Width /\ Lanes = 0..(Width - 1) /\ (k + 1) - 1 = k
  BY Sizes DEF Lanes
<1>2. \A j \in Lanes : u[j] \in Int /\ l[j] \in Int
  BY Sizes DEF Digits
<1>3. ASSUME Borrowed(u, l, k + 1) PROVE u[k] < l[k] \/ (u[k] = l[k] /\ Borrowed(u, l, k))
  <2>1. PICK j \in 0..k : u[j] < l[j] /\ \A n \in (j + 1)..k : u[n] = l[n]
    BY <1>1, <1>3 DEF Borrowed
  <2>2. CASE j = k
    BY <2>1, <2>2
  <2>3. CASE j # k
    <3>1. j \in 0..(k - 1) /\ k \in (j + 1)..k /\ \A n \in (j + 1)..(k - 1) : n \in (j + 1)..k
      BY <1>1, <2>3
    <3> QED BY <2>1, <3>1 DEF Borrowed
  <2> QED BY <2>2, <2>3
<1>4. ASSUME u[k] < l[k] PROVE Borrowed(u, l, k + 1)
  <2>1. k \in 0..k /\ \A n \in (k + 1)..k : u[n] = l[n]
    BY <1>1
  <2> QED BY <1>1, <1>4, <2>1 DEF Borrowed
<1>5. ASSUME u[k] = l[k], Borrowed(u, l, k) PROVE Borrowed(u, l, k + 1)
  <2>1. PICK j \in 0..(k - 1) : u[j] < l[j] /\ \A n \in (j + 1)..(k - 1) : u[n] = l[n]
    BY <1>5 DEF Borrowed
  <2>2. j \in 0..k /\ \A n \in (j + 1)..k : n \in (j + 1)..(k - 1) \/ n = k
    BY <1>1
  <2>3. \A n \in (j + 1)..k : u[n] = l[n]
    BY <1>5, <2>1, <2>2
  <2> QED BY <1>1, <2>1, <2>2, <2>3 DEF Borrowed
<1>6. ASSUME Borrowed(u, l, k) PROVE k > 0 /\ k - 1 \in Lanes /\ u[k - 1] <= l[k - 1]
  <2>1. PICK j \in 0..(k - 1) : u[j] < l[j] /\ \A n \in (j + 1)..(k - 1) : u[n] = l[n]
    BY <1>6 DEF Borrowed
  <2>2. k > 0 /\ k - 1 \in Lanes /\ (j = k - 1 \/ k - 1 \in (j + 1)..(k - 1))
    BY <1>1
  <2> QED BY <1>2, <2>1, <2>2
<1> QED BY <1>3, <1>4, <1>5, <1>6

\* Taking the word of l from that of u: what is left above lane k lacks what
\* the lanes below borrowed, if they did; c counts the borrows of the whole word.
Borrows(u, l, x, k) ==
  \E r \in {0, 1}, y \in Int :
    /\ x \div Place[k] = y
    /\ k < Width => \E q \in Int : y = Base * q + (u[k] - l[k] - r)
    /\ r = 1 <=> Borrowed(u, l, k)

LEMMA BorrowsPass ==
  ASSUME NEW u \in Digits, NEW l \in Digits, NEW c \in Int, NEW x \in Int,
         x = Value(u) - Value(l) + c * Place[Width]
  PROVE  \A k \in 0..Width : Borrows(u, l, x, k)
<1>1. PICK hu : Highest(hu, u)
  BY Values
<1>2. PICK hl : Highest(hl, l)
  BY Values
<1> DEFINE Rest(k) == hu[Width - k] - hl[Width - k] + c * Place[Width - k]
           At(k) == \E r \in {0, 1} :
                      /\ x \div Place[k] = Rest(k) - r
                      /\ r = 1 <=> Borrowed(u, l, k)
           T == {k \in 0..Width : At(k)}
<1>3. \A k \in 0..Width : Rest(k) \in Int
  <2> TAKE k \in 0..Width
  <2>1. Width - k \in 0..Width
    BY Sizes
  <2>2. hu[Width - k] \in Int /\ hl[Width - k] \in Int /\ Place[Width - k] \in Int
    BY <1>1, <1>2, <2>1, Places DEF Highest
  <2>3. c * Place[Width - k] \in Int
    BY <2>2
  <2> QED BY <2>2, <2>3
<1>4. \A k \in 0..(Width - 1) : Rest(k) = Base * Rest(k + 1) + (u[k] - l[k])
  <2> TAKE k \in 0..(Width - 1)
  <2> DEFINE m == Width - k - 1
  <2>1. m \in 0..(Width - 1) /\ m + 1 = Width - k /\ Width - (k + 1) = m
    BY Sizes
  <2>2. hu[Width - k] = Base * hu[m] + u[k] /\ hl[Width - k] = Base * hl[m] + l[k]
    BY <1>1, <1>2 DEF Highest
  <2>3. Place[Width - k] = Base * Place[m]
    <3>1. Place[m + 1] = Base * Place[m]
      BY <2>1, Places
    <3> QED BY <2>1, <3>1
  <2>4. hu[m] \in Int /\ hl[m] \in Int /\ Place[m] \in Int /\ u[k] \in Int /\ l[k] \in Int
    <3>1. m \in 0..Width /\ k \in Lanes
      BY <2>1, Sizes DEF Lanes
    <3>2. hu[m] \in Int /\ hl[m] \in Int
      BY <1>1, <1>2, <3>1 DEF Highest
    <3>3. Place[m] \in Int
      BY <3>1, Places
    <3>4. u[k] \in Int /\ l[k] \in Int
      BY <3>1 DEF Digits
    <3> QED BY <3>2, <3>3, <3>4
  <2>5. Rest(k + 1) = hu[m] - hl[m] + c * Place[m]
    BY <2>1
  <2>6. Rest(k) = (Base * hu[m] + u[k]) - (Base * hl[m] + l[k]) + c * (Base * Place[m])
    BY <2>2, <2>3
  <2> HIDE DEF m, Rest
  <2>7. c * (Base * Place[m]) = Base * (c * Place[m]) /\ c * Place[m] \in Int
    BY <2>4, Sizes
  <2> QED BY <2>4, <2>5, <2>6, <2>7, Sizes
<1>5. x = Rest(0)
  BY <1>1, <1>2, Sizes DEF Highest
<1> HIDE DEF Rest
<1>6. ASSUME NEW k \in 0..(Width - 1), k \in T PROVE k + 1 \in T
  <2>1. PICK r \in {0, 1} :
        /\ x \div Place[k] = Rest(k) - r
        /\ r = 1 <=> Borrowed(u, l, k)
    BY <1>6
  <2> DEFINE d == u[k] - l[k] - r
             q == Rest(k + 1)
  <2>2. k + 1 \in 0..Width /\ q \in Int /\ u[k] \in 0..(Base - 1) /\ l[k] \in 0..(Base - 1)
        /\ d \in Int /\ d < Base /\ d >= -Base
    <3>1. k + 1 \in 0..Width /\ k \in Lanes
      BY Sizes DEF Lanes
    <3>2. q \in Int
      BY <1>3, <3>1
    <3>3. u[k] \in 0..(Base - 1) /\ l[k] \in 0..(Base - 1)
      BY <3>1 DEF Digits
    <3>4. d \in Int /\ d < Base /\ d >= -Base
      BY <3>3, Sizes
    <3> QED BY <3>1, <3>2, <3>3, <3>4
  <2>3. x \div Place[k] = Base * q + d
    <3>1. Rest(k) - r = Base * q + d
      BY <1>4, <2>2, Sizes
    <3> QED BY <2>1, <3>1
  <2>4. x \div Place[k + 1] = (x \div Place[k]) \div Base
    <3>1. Place[k + 1] = Base * Place[k] /\ Place[k] \in Nat \ {0}
      BY Places, Sizes
    <3>2. x \div (Base * Place[k]) = (x \div Place[k]) \div Base
      BY <3>1, Sizes, DividedTwice
    <3> QED BY <3>1, <3>2
  <2>5. Borrowed(u, l, k + 1) <=> u[k] < l[k] \/ (u[k] = l[k] /\ r = 1)
    BY <2>1, Sizes, BorrowedOn DEF Lanes
  <2> HIDE DEF d, q
  <2>6. CASE d >= 0
    <3>1. (Base * q + d) \div Base = q
      <4>1. d \in 0..(Base - 1)
        BY <2>2, <2>6, Sizes
      <4> QED BY <2>2, <4>1, Sizes, Division
    <3>2. x \div Place[k + 1] = Rest(k + 1) - 0
      BY <2>2, <2>3, <2>4, <3>1 DEF q
    <3>3. ~Borrowed(u, l, k + 1)
      BY <2>2, <2>6, <2>5 DEF d
    <3> QED BY <2>2, <3>2, <3>3
  <2>7. CASE d < 0
    <3> DEFINE e == d + Base
               p == q - 1
    <3>1. e \in 0..(Base - 1) /\ p \in Int /\ Base * q + d = Base * p + e
      <4>1. Base * q = Base * (q - 1) + Base
        BY <2>2, Sizes
      <4> QED BY <2>2, <2>7, <4>1, Sizes
    <3> HIDE DEF e
    <3>2. (Base * p + e) \div Base = p
      <4> HIDE DEF p
      <4> QED BY <3>1, Sizes, Division
    <3>3. x \div Place[k + 1] = Rest(k + 1) - 1
      BY <2>3, <2>4, <3>1, <3>2 DEF q
    <3>4. Borrowed(u, l, k + 1)
      BY <2>2, <2>7, <2>5 DEF d
    <3>5. At(k + 1)
      BY <3>3, <3>4
    <3> QED BY <2>2, <3>5
  <2> QED BY <2>2, <2>6, <2>7
<1>7. 0 \in T
  <2>1. x \div Place[0] = x
    <3>1. 1 * x + 0 = x
      OBVIOUS
    <3>2. (1 * x + 0) \div 1 = x
      BY Division
    <3> QED BY <3>1, <3>2, Places
  <2>2. x \div Place[0] = Rest(0) - 0
    BY <1>5, <2>1
  <2>3. ~Borrowed(u, l, 0)
    BY DEF Borrowed
  <2> QED BY <2>2, <2>3, Sizes
<1>8. Inductive(T, 0, Width)
  <2> HIDE DEF T
  <2> QED BY <1>6, <1>7 DEF Inductive
<1>9. 0..Width \subseteq T
  <2> HIDE DEF T
  <2> QED BY <1>8, Sizes, IntervalInduction
<1> TAKE k \in 0..Width
<1>10. PICK r \in {0, 1} :
      /\ x \div Place[k] = Rest(k) - r
      /\ r = 1 <=> Borrowed(u, l, k)
  BY <1>9
<1>11. Rest(k) - r \in Int
  BY <1>3
<1>12. k < Width => Rest(k + 1) \in Int /\ Rest(k) - r = Base * Rest(k + 1) + (u[k] - l[k] - r)
  <2> HAVE k < Width
  <2>1. k \in 0..(Width - 1) /\ k + 1 \in 0..Width
    BY Sizes
  <2>2. u[k] \in Int /\ l[k] \in Int
    BY <2>1, Sizes DEF Digits, Lanes
  <2> QED BY <1>3, <1>4, <2>1, <2>2, Sizes
<1> QED BY <1>10, <1>11, <1>12 DEF Borrows

\* What is in a lane, when a word lies in the digits of u less those of l.
LaneLess(w, u, l, k) ==
  \E r \in {0, 1}, d \in Int :
    /\ d = u[k] - l[k] - r
    /\ Lane(w, k) = IF d >= 0 THEN d ELSE d + Base
    /\ r = 1 <=> Borrowed(u, l, k)

LEMMA LanesLess ==
  ASSUME NEW u \in Digits, NEW l \in Digits, NEW c \in Int, NEW x \in Int,
         x = Value(u) - Value(l) + c * Place[Width]
  PROVE  \A k \in Lanes : LaneLess(x, u, l, k)
<1> TAKE k \in Lanes
<1>1. k \in 0..Width /\ k < Width
  BY Sizes DEF Lanes
<1>2. Borrows(u, l, x, k)
  BY <1>1, BorrowsPass
<1>3. PICK r \in {0, 1}, q \in Int :
        /\ x \div Place[k] = Base * q + (u[k] - l[k] - r)
        /\ r = 1 <=> Borrowed(u, l, k)
  BY <1>1, <1>2 DEF Borrows
<1> DEFINE d == u[k] - l[k] - r
<1>4. d \in Int /\ d < Base /\ d >= -Base
  <2>1. u[k] \in 0..(Base - 1) /\ l[k] \in 0..(Base - 1)
    BY DEF Digits
  <2> QED BY <2>1, Sizes
<1>5. Lane(x, k) = IF d >= 0 THEN d ELSE d + Base
  <2>1. Lane(x, k) = (Base * q + d) % Base
    BY <1>3 DEF Lane
  <2> HIDE DEF d
  <2>2. CASE d >= 0
    <3>1. d \in 0..(Base - 1)
      BY <1>4, <2>2, Sizes
    <3>2. (Base * q + d) % Base = d
      BY <3>1, Sizes, Division
    <3> QED BY <2>1, <2>2, <3>2
  <2>3. CASE d < 0
    <3> DEFINE e == d + Base
               p == q - 1
    <3>1. e \in 0..(Base - 1) /\ p \in Int /\ Base * q + d = Base * p + e
      <4>1. Base * q = Base * (q - 1) + Base
        BY Sizes
      <4> QED BY <1>4, <2>3, <4>1, Sizes
    <3> HIDE DEF e
    <3>2. (Base * p + e) % Base = e
      <4> HIDE DEF p
      <4> QED BY <3>1, Sizes, Division
    <3>3. ~(d >= 0)
      BY <1>4, <2>3
    <3> QED BY <2>1, <3>1, <3>2, <3>3 DEF e
  <2> QED BY <1>4, <2>2, <2>3
<1> QED BY <1>3, <1>4, <1>5 DEF LaneLess

LEMMA ValueTypes == ASSUME NEW b \in Digits PROVE Value(b) \in Nat
<1>1. PICK high : Highest(high, b)
  BY Values
<1>2. Width \in 0..Width
  BY Sizes
<1> QED BY <1>1, <1>2 DEF Highest

LEMMA MinusTypes ==
  ASSUME NEW u \in Digits, NEW l \in Digits
  PROVE  \E c \in Int :
        /\ Minus(Value(u), Value(l)) \in Int
        /\ Minus(Value(u), Value(l)) = Value(u) - Value(l) + c * Place[Width]
<1> DEFINE v == Value(u) - Value(l)
           b == Place[Width]
<1>1. v \in Int
  BY ValueTypes
<1>2. b \in Nat \ {0}
  BY Places, Sizes
<1> HIDE DEF v, b
<1> DEFINE q == v \div b
           m == v % b
<1>3. q \in Int /\ m \in Int /\ v = b * q + m
  BY <1>1, <1>2, Divides
<1>4. m = Minus(Value(u), Value(l))
  BY DEF Minus, v, b
<1> HIDE DEF q, m
<1>5. m = v + (-q) * b
  <2>1. (-q) * b = -(b * q) /\ b * q \in Int
    BY <1>2, <1>3
  <2> QED BY <1>1, <1>3, <2>1
<1>6. -q \in Int
  BY <1>3
<1> QED BY <1>3, <1>4, <1>5, <1>6 DEF v, b

\* A loaded word has the bytes of the text in its lanes.
LEMMA LaneIsByte ==
  ASSUME NEW b \in Digits, NEW k \in Lanes
  PROVE  Lane(Value(b), k) = b[k]
<1> DEFINE z == [j \in Lanes |-> 0]
<1>1. z \in Digits
  BY Sizes DEF Digits
<1>2. Value(z) = 0
  <2>1. PICK high : Highest(high, z)
    BY <1>1, Values
  <2> DEFINE T == {n \in 0..Width : high[n] = 0}
  <2>2. ASSUME NEW n \in 0..(Width - 1), n \in T PROVE n + 1 \in T
    <3> DEFINE k1 == Width - (n + 1)
    <3>1. k1 \in 0..(Width - 1) /\ Width - k1 = n + 1 /\ Width - k1 - 1 = n /\ n + 1 \in 0..Width
      BY Sizes
    <3>2. high[Width - k1] = Base * high[Width - k1 - 1] + z[k1]
      BY <2>1, <3>1 DEF Highest
    <3>3. z[k1] = 0
      BY <3>1 DEF Lanes
    <3> HIDE DEF k1, z
    <3> QED BY <2>2, <3>1, <3>2, <3>3, Sizes
  <2>3. 0 \in T
    BY <2>1, Sizes DEF Highest
  <2>4. Inductive(T, 0, Width)
    <3> HIDE DEF T
    <3> QED BY <2>2, <2>3 DEF Inductive
  <2>5. 0..Width \subseteq T
    <3> HIDE DEF T
    <3> QED BY <2>4, Sizes, IntervalInduction
  <2>6. Width \in 0..Width
    BY Sizes
  <2> QED BY <2>1, <2>5, <2>6 DEF Highest
<1>3. z[k] = 0 /\ \A j \in 0..(k - 1) : z[j] = 0
  BY Sizes DEF Lanes
<1> HIDE DEF z
<1>4. Value(b) \in Int /\ Value(b) = Value(b) - Value(z) + 0 * Place[Width]
  <2>1. Place[Width] \in Int
    BY Places, Sizes
  <2> QED BY <1>2, <2>1, ValueTypes
<1>5. LaneLess(Value(b), b, z, k)
  BY <1>1, <1>4, LanesLess
<1>6. ~Borrowed(b, z, k)
  <2>1. \A j \in 0..(k - 1) : ~(b[j] < z[j])
    BY <1>3, Sizes DEF Digits, Lanes
  <2> QED BY <2>1 DEF Borrowed
<1>7. b[k] \in Nat
  BY Sizes DEF Digits
<1> QED BY <1>3, <1>5, <1>6, <1>7 DEF LaneLess

\* --- the test of a word --------------------------------------------------
Low == [Lanes -> 0..(Top - 1)]

\* With ASCII bytes on both sides, a lane is flagged exactly if it borrows itself,
\* be it because it is less or because it is equal and was borrowed from.
LEMMA Flags ==
  ASSUME NEW u \in Low, NEW l \in Low
  PROVE  LET flagged == TopBits(Minus(Value(u), Value(l)))
         IN  /\ flagged \subseteq Lanes
             /\ \A k \in Lanes : k \in flagged <=> Borrowed(u, l, k + 1)
             /\ flagged = {} => \A k \in Lanes : u[k] >= l[k]
             /\ \A k \in flagged : u[k] >= l[k] => k > 0 /\ u[k] = l[k] /\ u[k - 1] <= l[k - 1]
<1> DEFINE w == Minus(Value(u), Value(l))
<1>1. u \in Digits /\ l \in Digits /\ \A k \in Lanes : u[k] \in 0..(Top - 1) /\ l[k] \in 0..(Top - 1)
  BY Sizes DEF Low, Digits
<1>2. \A k \in Lanes : LaneLess(w, u, l, k)
  <2>1. PICK c \in Int : w \in Int /\ w = Value(u) - Value(l) + c * Place[Width]
    BY <1>1, MinusTypes
  <2> HIDE DEF w
  <2> QED BY <1>1, <2>1, LanesLess
<1> HIDE DEF w
<1>3. ASSUME NEW k \in Lanes PROVE k \in TopBits(w) <=> Borrowed(u, l, k + 1)
  <2>1. PICK r \in {0, 1}, d \in Int :
        /\ d = u[k] - l[k] - r
        /\ Lane(w, k) = IF d >= 0 THEN d ELSE d + Base
        /\ r = 1 <=> Borrowed(u, l, k)
    BY <1>2 DEF LaneLess
  <2>2. u[k] \in 0..(Top - 1) /\ l[k] \in 0..(Top - 1)
    BY <1>1
  <2>3. Lane(w, k) >= Top <=> d < 0
    BY <2>1, <2>2, Sizes
  <2>4. d < 0 <=> u[k] < l[k] \/ (u[k] = l[k] /\ r = 1)
    BY <2>1, <2>2, Sizes
  <2>5. Borrowed(u, l, k + 1) <=> u[k] < l[k] \/ (u[k] = l[k] /\ Borrowed(u, l, k))
    BY <1>1, BorrowedOn
  <2> QED BY <2>1, <2>3, <2>4, <2>5 DEF TopBits
<1>4. TopBits(w) \subseteq Lanes
  BY DEF TopBits
<1>5. ASSUME NEW k \in Lanes
      PROVE  /\ ~(u[k] >= l[k]) => k \in TopBits(w)
             /\ k \in TopBits(w) /\ u[k] >= l[k] => k > 0 /\ u[k] = l[k] /\ u[k - 1] <= l[k - 1]
  <2>1. u[k] \in Int /\ l[k] \in Int
    BY <1>1, Sizes
  <2>2. /\ Borrowed(u, l, k + 1) <=> u[k] < l[k] \/ (u[k] = l[k] /\ Borrowed(u, l, k))
        /\ Borrowed(u, l, k) => k > 0 /\ u[k - 1] <= l[k - 1]
    BY <1>1, BorrowedOn
  <2> QED BY <1>3, <2>1, <2>2
<1> QED BY <1>3, <1>4, <1>5 DEF w

\* --- the invariant -------------------------------------------------------
IsCall(c) ==
  /\ c.op \in {"warp", "index"} /\ c.kernel \in Kernels(c.op)
  /\ c.lo \in Bytes /\ c.hi \in c.lo..(Base - 1)
  /\ c.kernel = "equal" => c.hi = c.lo
  /\ c.kernel = "range" => c.hi < Top
  /\ c.kernel = "asciiAny" => c.lo = 0 /\ c.hi = Top - 1

\* The byte at p is at an edge of the range, and the one before it borrows.
AtEdge(p) ==
  /\ p % Width > 0
  /\ \/ text[p + 1] = call.lo /\ text[p] <= call.lo
     \/ text[p + 1] = call.hi /\ text[p] >= call.hi

\* What the loops have passed: bytes of the class, or, for IndexClass, others and
\* bytes at an edge.
Passed ==
  \A p \in 0..(i - 1) : IF call.op = "warp" THEN p \in Hits ELSE p \in Hits => AtEdge(p)

LanesInv ==
  /\ pc \in {"block", "byte", "done"} /\ (pc # "done" => call # NoCall)
  /\ call # NoCall =>
       /\ IsCall(call) /\ text \in Seq(Bytes)
       /\ pc # "done" => i \in 0..Len(text) /\ Passed
       /\ pc = "block" => \E m \in Nat : i = Width * m
  /\ WarpExact /\ MissesOnlyEdges

\* --- a block -------------------------------------------------------------
Loaded == [k \in Lanes |-> text[i + k + 1]]

LEMMA LoadedTypes ==
  ASSUME text \in Seq(Bytes), i \in 0..Len(text), WholeWords
  PROVE  /\ Loaded \in Digits /\ Word = Value(Loaded)
         /\ \A k \in Lanes : i + k \in 0..(Len(text) - 1) /\ text[i + k + 1] \in Bytes
                           /\ Lane(Word, k) = text[i + k + 1]
<1>1. \A k \in Lanes : i + k \in 0..(Len(text) - 1) /\ i + k + 1 \in 1..Len(text)
  BY Sizes DEF WholeWords, Lanes
<1>2. \A k \in Lanes : text[i + k + 1] \in Bytes
  BY <1>1
<1>3. Loaded \in Digits /\ Word = Value(Loaded)
  BY <1>2 DEF Loaded, Digits, Bytes, Word
<1>4. \A k \in Lanes : Lane(Word, k) = Loaded[k]
  BY <1>3, LaneIsByte
<1>5. \A k \in Lanes : Loaded[k] = text[i + k + 1]
  BY DEF Loaded
<1> QED BY <1>1, <1>2, <1>3, <1>4, <1>5

LEMMA AsciiTest ==
  ASSUME text \in Seq(Bytes), i \in 0..Len(text), WholeWords, AsciiWord(Word)
  PROVE  /\ Loaded \in Low
         /\ \A k \in Lanes : text[i + k + 1] \in 0..(Top - 1)
<1>1. \A k \in Lanes : ~(Lane(Word, k) >= Top)
  BY DEF AsciiWord, TopBits
<1>2. \A k \in Lanes : text[i + k + 1] \in 0..(Top - 1)
  <2> TAKE k \in Lanes
  <2>1. text[i + k + 1] \in Nat /\ Lane(Word, k) = text[i + k + 1]
    BY LoadedTypes, Sizes DEF Bytes
  <2> QED BY <1>1, <2>1, Sizes
<1> QED BY <1>2 DEF Low, Loaded

LEMMA SplatTypes ==
  ASSUME NEW b \in 0..(Top - 1)
  PROVE  [k \in Lanes |-> b] \in Low /\ Splat(b) = Value([k \in Lanes |-> b])
BY DEF Low, Splat

\* If no lane is flagged, every byte of the word is in the range.
LEMMA NoneOutside ==
  ASSUME text \in Seq(Bytes), i \in 0..Len(text), WholeWords, AsciiWord(Word),
         call.lo \in 0..(Top - 1), call.hi \in 0..(Top - 1), Outside(Word) = {}
  PROVE  \A k \in Lanes : call.lo <= text[i + k + 1] /\ text[i + k + 1] <= call.hi
<1> DEFINE lo == [k \in Lanes |-> call.lo]
           hi == [k \in Lanes |-> call.hi]
<1>1. Loaded \in Low /\ Word = Value(Loaded)
  BY AsciiTest, LoadedTypes
<1>2. lo \in Low /\ hi \in Low /\ Splat(call.lo) = Value(lo) /\ Splat(call.hi) = Value(hi)
  BY SplatTypes
<1>3. TopBits(Minus(Value(Loaded), Value(lo))) = {} /\ TopBits(Minus(Value(hi), Value(Loaded))) = {}
  BY <1>1, <1>2 DEF Outside
<1>4. \A k \in Lanes : Loaded[k] = text[i + k + 1] /\ lo[k] = call.lo /\ hi[k] = call.hi
  BY DEF Loaded
<1> HIDE DEF lo, hi
<1>5. \A k \in Lanes : Loaded[k] >= lo[k]
  BY <1>1, <1>2, <1>3, Flags
<1>6. \A k \in Lanes : hi[k] >= Loaded[k]
  BY <1>1, <1>2, <1>3, Flags
<1>7. \A k \in Lanes : text[i + k + 1] \in 0..(Top - 1)
  BY AsciiTest
<1> QED BY <1>4, <1>5, <1>6, <1>7, Sizes

\* If every lane is flagged, a byte in the range is at its edge and not the first.
LEMMA AllOutside ==
  ASSUME text \in Seq(Bytes), i \in 0..Len(text), WholeWords, AsciiWord(Word),
         call.lo \in 0..(Top - 1), call.hi \in 0..(Top - 1), Outside(Word) = Lanes,
         NEW k \in Lanes, call.lo <= text[i + k + 1], text[i + k + 1] <= call.hi
  PROVE  /\ k > 0
         /\ \/ text[i + k + 1] = call.lo /\ text[i + k] <= call.lo
            \/ text[i + k + 1] = call.hi /\ text[i + k] >= call.hi
<1> DEFINE lo == [j \in Lanes |-> call.lo]
           hi == [j \in Lanes |-> call.hi]
           below == TopBits(Minus(Value(Loaded), Value(lo)))
           above == TopBits(Minus(Value(hi), Value(Loaded)))
<1>1. Loaded \in Low /\ Word = Value(Loaded)
  BY AsciiTest, LoadedTypes
<1>2. lo \in Low /\ hi \in Low /\ Splat(call.lo) = Value(lo) /\ Splat(call.hi) = Value(hi)
  BY SplatTypes
<1>3. k \in below \/ k \in above
  BY <1>1, <1>2 DEF Outside
<1>4. \A j \in Lanes : Loaded[j] = text[i + j + 1] /\ lo[j] = call.lo /\ hi[j] = call.hi
  BY DEF Loaded
<1> HIDE DEF lo, hi
<1>5. k > 0 => k - 1 \in Lanes /\ i + (k - 1) + 1 = i + k
  BY Sizes DEF Lanes
<1>6. CASE k \in below
  <2>1. Loaded[k] >= lo[k]
    BY <1>4, Sizes DEF Bytes
  <2>2. k > 0 /\ Loaded[k] = lo[k] /\ Loaded[k - 1] <= lo[k - 1]
    BY <1>1, <1>2, <1>6, <2>1, Flags
  <2> QED BY <1>4, <1>5, <2>2
<1>7. CASE k \in above
  <2>1. hi[k] >= Loaded[k]
    BY <1>4, Sizes DEF Bytes
  <2>2. k > 0 /\ hi[k] = Loaded[k] /\ hi[k - 1] <= Loaded[k - 1]
    BY <1>1, <1>2, <1>7, <2>1, Flags
  <2>3. text[i + k] >= call.hi
    <3>1. Loaded[k - 1] = text[i + k] /\ hi[k - 1] = call.hi
      BY <1>4, <1>5, <2>2
    <3>2. Loaded[k - 1] \in Int /\ hi[k - 1] \in Int
      BY <1>1, <1>2, <1>5, <2>2 DEF Low
    <3> QED BY <2>2, <3>1, <3>2
  <2> QED BY <1>4, <2>2, <2>3
<1> QED BY <1>3, <1>6, <1>7

\* --- the actions ---------------------------------------------------------
\* The least element of a set is what Min takes.
LEMMA MinIs ==
  ASSUME NEW S \in SUBSET Int, NEW x \in S, \A y \in S : x <= y
  PROVE  Min(S) = x
<1>1. \A z \in S : (\A y \in S : z <= y) => z = x
  OBVIOUS
<1>2. (CHOOSE z \in S : \A y \in S : z <= y) = x
  BY <1>1
<1> QED BY <1>2 DEF Min

\* An answer of Warp that has the run before it and a byte that ends it.
LEMMA WarpAnswer ==
  ASSUME text \in Seq(Bytes), i \in 0..Len(text), Passed, call.op = "warp",
         NEW r \in i..Len(text), \A p \in i..(r - 1) : p \in Hits, r < Len(text) => r \notin Hits
  PROVE  r = Min({Len(text)} \cup ((0..(Len(text) - 1)) \ Hits))
<1> DEFINE S == {Len(text)} \cup ((0..(Len(text) - 1)) \ Hits)
<1>1. Len(text) \in Nat /\ S \in SUBSET Int /\ r \in S
  OBVIOUS
<1>2. ASSUME NEW y \in S PROVE r <= y
  <2>1. y \in 0..Len(text) /\ (y = Len(text) \/ y \notin Hits)
    BY <1>1
  <2>2. \A p \in 0..(i - 1) : p \in Hits
    BY DEF Passed
  <2>3. y \in 0..(i - 1) \/ y \in i..(r - 1) \/ r <= y
    BY <1>1, <2>1
  <2>4. CASE y = Len(text)
    BY <1>1, <2>4
  <2>5. CASE y \notin Hits
    BY <2>2, <2>3, <2>5
  <2> QED BY <2>1, <2>4, <2>5
<1> HIDE DEF S
<1>3. Min(S) = r
  BY <1>1, <1>2, MinIs
<1> QED BY <1>3 DEF S

LEMMA CallInv == ASSUME LanesInv, Call PROVE LanesInv'
<1>1. PICK op \in {"warp", "index"} : \E kernel \in Kernels(op), lo \in Bytes : \E hi \in lo..(Base - 1) :
        /\ kernel = "equal" => hi = lo
        /\ kernel = "range" => hi < Top
        /\ kernel = "asciiAny" => lo = 0 /\ hi = Top - 1
        /\ call' = [op |-> op, kernel |-> kernel, lo |-> lo, hi |-> hi]
  BY DEF Call
<1>2. IsCall(call')
  BY <1>1 DEF IsCall
<1>3. text' \in Seq(Bytes)
  <2>1. PICK n \in 0..MaxTextLength : text' \in [1..n -> Bytes]
    BY DEF Call
  <2>2. n \in Nat
    BY <2>1, LanesAssumption
  <2> QED BY <2>1, <2>2
<1>4. pc' = "block" /\ i' = 0
  BY DEF Call
<1>5. i' \in 0..Len(text') /\ 0 \in Nat /\ i' = Width * 0 /\ Passed'
  BY <1>3, <1>4, Sizes DEF Passed
<1>6. call' # NoCall
  <2>1. \E kernel, lo, hi : call' = [op |-> op, kernel |-> kernel, lo |-> lo, hi |-> hi]
    BY <1>1
  <2> QED BY <2>1 DEF NoCall
<1> QED BY <1>2, <1>3, <1>4, <1>5, <1>6 DEF LanesInv, WarpExact, MissesOnlyEdges, Answered

\* A call is answered.
LEMMA Answers ==
  ASSUME LanesInv, pc # "done", NEW r, Answer(r), UNCHANGED <<call, text>>,
         call.op = "warp" => /\ r \in i..Len(text) /\ (r < Len(text) => r \notin Hits)
                             /\ \A p \in i..(r - 1) : p \in Hits,
         call.op = "index" => (r = -1 /\ i = Len(text)) \/ (r = i /\ r \in Hits)
  PROVE  LanesInv'
<1>1. /\ call # NoCall /\ IsCall(call) /\ text \in Seq(Bytes) /\ i \in 0..Len(text) /\ Passed
      /\ call' = call /\ text' = text /\ pc' = "done" /\ result' = r /\ Hits' = Hits
  BY DEF LanesInv, Answer, Hits, Has
<1>2. WarpExact'
  <2> SUFFICES ASSUME call.op = "warp" PROVE r = Min({Len(text)} \cup ((0..(Len(text) - 1)) \ Hits))
    BY <1>1 DEF WarpExact, Answered
  <2> QED BY <1>1, WarpAnswer
<1>3. MissesOnlyEdges'
  <2> SUFFICES ASSUME call.op = "index"
      PROVE  /\ r # -1 => r \in Hits
             /\ \A p \in Hits : (r = -1 \/ p < r) => AtEdge(p)
    BY <1>1, Zenon DEF MissesOnlyEdges, Answered, AtEdge
  <2>1. (r = -1 /\ i = Len(text)) \/ (r = i /\ r \in Hits)
    OBVIOUS
  <2>2. \A p \in Hits : p \in 0..(Len(text) - 1)
    BY DEF Hits
  <2>3. \A p \in Hits : (r = -1 \/ p < r) => p \in 0..(i - 1)
    BY <1>1, <2>1, <2>2
  <2>4. call.op # "warp"
    OBVIOUS
  <2>5. r # -1 => r \in Hits
    BY <2>1
  <2> QED BY <1>1, <2>3, <2>4, <2>5 DEF Passed
<1> QED BY <1>1, <1>2, <1>3 DEF LanesInv

\* The loop goes on over n bytes it may pass.
LEMMA GoesOn ==
  ASSUME LanesInv, pc # "done", NEW n \in Nat, OnBy(n), UNCHANGED <<call, text>>, i + n <= Len(text),
         pc = "block" => n = Width,
         \A p \in i..(i + n - 1) : IF call.op = "warp" THEN p \in Hits ELSE p \in Hits => AtEdge(p)
  PROVE  LanesInv'
<1>1. /\ call # NoCall /\ IsCall(call) /\ text \in Seq(Bytes) /\ i \in 0..Len(text) /\ Passed
      /\ call' = call /\ text' = text /\ pc' = pc /\ i' = i + n /\ Hits' = Hits
      /\ pc \in {"block", "byte"}
  BY DEF LanesInv, OnBy, Hits, Has
<1>2. i' \in 0..Len(text)
  BY <1>1
<1>3. \A p : AtEdge(p)' <=> AtEdge(p)
  BY <1>1 DEF AtEdge
<1>4. Passed'
  <2>1. \A p \in 0..(i + n - 1) : p \in 0..(i - 1) \/ p \in i..(i + n - 1)
    BY <1>1
  <2>2. \A p \in 0..(i + n - 1) : IF call.op = "warp" THEN p \in Hits ELSE p \in Hits => AtEdge(p)
    BY <2>1, <1>1 DEF Passed
  <2> QED BY <1>1, <1>3, <2>2 DEF Passed
<1>5. pc = "block" => \E m \in Nat : i' = Width * m
  <2> HAVE pc = "block"
  <2>1. PICK m \in Nat : i = Width * m
    BY <1>1 DEF LanesInv
  <2>2. Width * (m + 1) = Width * m + Width
    BY Sizes
  <2>3. i' = Width * (m + 1) /\ m + 1 \in Nat
    BY <1>1, <2>1, <2>2
  <2> QED BY <2>3
<1>6. WarpExact' /\ MissesOnlyEdges'
  BY <1>1 DEF WarpExact, MissesOnlyEdges, Answered
<1> QED BY <1>1, <1>2, <1>4, <1>5, <1>6 DEF LanesInv

\* The block loop hands over to the loop that goes byte by byte.
LEMMA SlowlyInv == ASSUME LanesInv, pc = "block", Slowly, UNCHANGED <<call, text>> PROVE LanesInv'
<1>1. /\ call # NoCall /\ IsCall(call) /\ text \in Seq(Bytes) /\ i \in 0..Len(text) /\ Passed
      /\ call' = call /\ text' = text /\ pc' = "byte" /\ i' = i /\ Hits' = Hits
  BY DEF LanesInv, Slowly, Hits, Has
<1>2. Passed'
  BY <1>1 DEF Passed, AtEdge
<1> QED BY <1>1, <1>2 DEF LanesInv, WarpExact, MissesOnlyEdges, Answered

\* What the kernels take for a byte of the class.
LEMMA HasRange ==
  ASSUME IsCall(call), NEW b \in Bytes
  PROVE  /\ Has(b) <=> call.lo <= b /\ b <= call.hi
         /\ call.kernel # "equal" => call.lo \in 0..(Top - 1) /\ call.hi \in 0..(Top - 1)
         /\ call.kernel \in {"equal", "range", "asciiAny"} /\ call.op \in {"warp", "index"}
         /\ call.op = "index" => call.kernel = "range"
<1>1. /\ call.kernel \in {"equal", "range", "asciiAny"} /\ call.op \in {"warp", "index"}
      /\ call.op = "index" => call.kernel = "range"
  BY DEF IsCall, Kernels
<1>2. /\ call.lo \in 0..(Base - 1) /\ call.hi \in call.lo..(Base - 1)
      /\ call.kernel = "equal" => call.hi = call.lo
      /\ call.kernel = "range" => call.hi < Top
      /\ call.kernel = "asciiAny" => call.lo = 0 /\ call.hi = Top - 1
  BY DEF IsCall, Bytes
<1>3. b \in 0..(Base - 1)
  BY DEF Bytes
<1>4. CASE call.kernel = "equal"
  BY <1>1, <1>2, <1>3, <1>4, Sizes DEF Has
<1>5. CASE call.kernel = "range"
  BY <1>1, <1>2, <1>3, <1>5, Sizes DEF Has
<1>6. CASE call.kernel = "asciiAny"
  BY <1>1, <1>2, <1>3, <1>6, Sizes DEF Has
<1> QED BY <1>1, <1>4, <1>5, <1>6

\* The positions of a loaded word, in lanes.
LEMMA InLanes ==
  ASSUME i \in Nat, NEW p \in i..(i + Width - 1)
  PROVE  p - i \in Lanes /\ i + (p - i) = p
BY Sizes DEF Lanes

LEMMA BlockInv == ASSUME LanesInv, Block PROVE LanesInv'
<1>1. /\ pc = "block" /\ UNCHANGED <<call, text>>
      /\ ~WholeWords => Slowly
      /\ WholeWords /\ call.kernel = "equal" =>
           LET differ == {k \in Lanes : Lane(Word, k) # call.lo}
           IN  IF differ = {} THEN OnBy(Width) ELSE Answer(i + Min(differ))
      /\ WholeWords /\ call.kernel = "asciiAny" => (AsciiWord(Word) /\ OnBy(Width)) \/ Slowly
      /\ WholeWords /\ call.kernel = "range" =>
           \/ AsciiWord(Word) /\ Outside(Word) = (IF call.op = "warp" THEN {} ELSE Lanes) /\ OnBy(Width)
           \/ Slowly
  BY DEF Block
<1>2. /\ IsCall(call) /\ text \in Seq(Bytes) /\ i \in 0..Len(text) /\ i \in Nat
  BY <1>1 DEF LanesInv
<1>3. CASE Slowly
  BY <1>1, <1>3, SlowlyInv
<1> SUFFICES ASSUME WholeWords, ~Slowly PROVE LanesInv'
  BY <1>1, <1>3
<1>4. i + Width <= Len(text) /\ Len(text) \in Nat
  BY <1>2 DEF WholeWords
\* the bytes of the word
<1> DEFINE B(p) == text[p + 1]
<1>5. \A p \in i..(i + Width - 1) :
        /\ p - i \in Lanes /\ p \in 0..(Len(text) - 1) /\ B(p) \in Bytes /\ Lane(Word, p - i) = B(p)
        /\ p \in Hits <=> call.lo <= B(p) /\ B(p) <= call.hi
  <2> TAKE p \in i..(i + Width - 1)
  <2>1. p - i \in Lanes /\ i + (p - i) = p
    BY <1>2, InLanes
  <2>2. i + (p - i) \in 0..(Len(text) - 1) /\ text[i + (p - i) + 1] \in Bytes /\ Lane(Word, p - i) = text[i + (p - i) + 1]
    BY <1>2, <2>1, LoadedTypes
  <2>3. Has(B(p)) <=> call.lo <= B(p) /\ B(p) <= call.hi
    BY <1>2, <2>1, <2>2, HasRange
  <2> QED BY <2>1, <2>2, <2>3 DEF Hits
\* a step over the whole word
<1>6. ASSUME OnBy(Width),
             \A p \in i..(i + Width - 1) : IF call.op = "warp" THEN p \in Hits ELSE p \in Hits => AtEdge(p)
      PROVE  LanesInv'
  <2>1. Width \in Nat /\ pc # "done"
    BY <1>1, Sizes
  <2> QED BY <1>1, <1>4, <1>6, <2>1, GoesOn
<1>7. CASE call.kernel = "equal"
  <2> DEFINE differ == {k \in Lanes : Lane(Word, k) # call.lo}
  <2>1. call.op = "warp" /\ call.hi = call.lo /\ call.lo \in Int
    BY <1>2, <1>7, Sizes DEF IsCall, Kernels, Bytes
  <2>2. \A p \in i..(i + Width - 1) : p \in Hits <=> p - i \notin differ
    BY <1>5, <2>1, Sizes DEF Bytes
  <2>3. IF differ = {} THEN OnBy(Width) ELSE Answer(i + Min(differ))
    BY <1>1, <1>7
  <2> HIDE DEF differ
  <2>4. CASE differ = {}
    BY <1>6, <2>1, <2>2, <2>3, <2>4
  <2>5. CASE differ # {}
    <3>1. differ \in SUBSET Nat /\ differ \subseteq Lanes
      BY Sizes DEF differ, Lanes
    <3>2. PICK k \in differ : \A j \in differ : k <= j
      BY <2>5, <3>1, LeastElement
    <3>3. Min(differ) = k
      <4>1. differ \in SUBSET Int
        BY <3>1
      <4> QED BY <3>2, <4>1, MinIs
    <3>4. k \in Nat /\ k <= Width - 1 /\ i + k \in i..(i + Width - 1) /\ (i + k) - i = k
      BY <1>2, <3>1, <3>2, Sizes DEF Lanes
    <3>5. i + k \in i..Len(text) /\ i + k \notin Hits
      BY <1>2, <1>4, <2>2, <3>2, <3>4, Sizes
    <3>6. \A p \in i..((i + k) - 1) : p \in Hits
      <4> TAKE p \in i..((i + k) - 1)
      <4>1. p \in i..(i + Width - 1) /\ p - i < k /\ p - i \in Nat
        BY <1>2, <3>4, Sizes
      <4>2. p - i \notin differ
        BY <3>2, <3>4, <4>1
      <4> QED BY <2>2, <4>1, <4>2
    <3>7. Answer(i + k)
      BY <2>3, <2>5, <3>3
    <3>8. pc # "done" /\ call.op # "index"
      BY <1>1, <2>1
    <3> QED BY <1>1, <3>5, <3>6, <3>7, <3>8, Answers
  <2> QED BY <2>4, <2>5
<1>8. CASE call.kernel = "asciiAny"
  <2>1. OnBy(Width) /\ AsciiWord(Word)
    BY <1>1, <1>8
  <2>2. call.op = "warp" /\ call.lo = 0 /\ call.hi = Top - 1
    BY <1>2, <1>8 DEF IsCall, Kernels
  <2>3. \A k \in Lanes : text[i + k + 1] \in 0..(Top - 1)
    BY <1>2, <2>1, AsciiTest
  <2>4. \A p \in i..(i + Width - 1) : p \in Hits
    <3> TAKE p \in i..(i + Width - 1)
    <3>1. p - i \in Lanes /\ i + (p - i) = p
      BY <1>2, InLanes
    <3>2. text[i + (p - i) + 1] \in 0..(Top - 1)
      BY <2>3, <3>1
    <3> QED BY <1>5, <2>2, <3>1, <3>2, Sizes
  <2> QED BY <1>6, <2>1, <2>2, <2>4
<1>9. CASE call.kernel = "range"
  <2>1. call.lo \in 0..(Top - 1) /\ call.hi \in 0..(Top - 1) /\ call.op \in {"warp", "index"}
    <3>1. 0 \in Bytes
      BY Sizes DEF Bytes
    <3> QED BY <1>2, <1>9, <3>1, HasRange
  <2>2. CASE call.op = "warp"
    <3>1. OnBy(Width) /\ AsciiWord(Word) /\ Outside(Word) = {}
      BY <1>1, <1>9, <2>2
    <3>2. \A k \in Lanes : call.lo <= text[i + k + 1] /\ text[i + k + 1] <= call.hi
      BY <1>2, <2>1, <3>1, NoneOutside
    <3>3. \A p \in i..(i + Width - 1) : p \in Hits
      <4> TAKE p \in i..(i + Width - 1)
      <4>1. p - i \in Lanes /\ i + (p - i) = p
        BY <1>2, InLanes
      <4>2. call.lo <= text[i + (p - i) + 1] /\ text[i + (p - i) + 1] <= call.hi
        BY <3>2, <4>1
      <4> QED BY <1>5, <4>1, <4>2
    <3> QED BY <1>6, <2>2, <3>1, <3>3
  <2>3. CASE call.op = "index"
    <3>1. OnBy(Width) /\ AsciiWord(Word) /\ Outside(Word) = Lanes
      BY <1>1, <1>9, <2>3
    <3>2. PICK m \in Nat : i = Width * m
      BY <1>1 DEF LanesInv
    <3>3. \A p \in i..(i + Width - 1) : p \in Hits => AtEdge(p)
      <4> TAKE p \in i..(i + Width - 1)
      <4> HAVE p \in Hits
      <4> DEFINE k == p - i
      <4>1. k \in Lanes /\ i + k = p
        BY <1>2, InLanes
      <4>2. call.lo <= text[i + k + 1] /\ text[i + k + 1] <= call.hi
        BY <1>5, <4>1
      <4> HIDE DEF k
      <4>3. /\ k > 0
            /\ \/ text[i + k + 1] = call.lo /\ text[i + k] <= call.lo
               \/ text[i + k + 1] = call.hi /\ text[i + k] >= call.hi
        BY <1>2, <2>1, <3>1, <4>1, <4>2, AllOutside
      <4>4. p % Width = k
        <5>1. k \in 0..(Width - 1) /\ p = Width * m + k
          BY <3>2, <4>1 DEF Lanes
        <5>2. (Width * m + k) % Width = k
          <6>1. Width \in Nat \ {0} /\ m \in Int
            BY <3>2, Sizes
          <6> QED BY <5>1, <6>1, Division
        <5> QED BY <5>1, <5>2
      <4> QED BY <4>1, <4>3, <4>4 DEF AtEdge
    <3> QED BY <1>6, <2>3, <3>1, <3>3
  <2> QED BY <2>1, <2>2, <2>3
<1>10. call.kernel \in {"equal", "range", "asciiAny"}
  BY <1>2 DEF IsCall, Kernels
<1> QED BY <1>7, <1>8, <1>9, <1>10

LEMMA ByteInv == ASSUME LanesInv, Byte PROVE LanesInv'
<1>1. /\ pc = "byte" /\ UNCHANGED <<call, text>>
      /\ IF i = Len(text) THEN Answer(IF call.op = "warp" THEN i ELSE -1)
         ELSE IF Has(text[i + 1]) = (call.op = "warp") THEN OnBy(1) ELSE Answer(i)
  BY DEF Byte
<1>2. /\ IsCall(call) /\ text \in Seq(Bytes) /\ i \in 0..Len(text) /\ Len(text) \in Nat
      /\ call.op \in {"warp", "index"}
  BY <1>1 DEF LanesInv, IsCall
<1>3. \A p \in i..(i - 1) : p \in Hits
  BY <1>2
<1>4. CASE i = Len(text)
  <2>1. CASE call.op = "warp"
    <3>1. Answer(i) /\ i \in i..Len(text) /\ ~(i < Len(text)) /\ call.op # "index" /\ pc # "done"
      BY <1>1, <1>2, <1>4, <2>1
    <3> QED BY <1>1, <1>3, <3>1, Answers
  <2>2. CASE call.op = "index"
    <3>1. PICK r : r = -1 /\ Answer(r)
      BY <1>1, <1>4, <2>2
    <3>2. call.op # "warp" /\ pc # "done"
      BY <1>1, <2>2
    <3>3. call.op = "index" => (r = -1 /\ i = Len(text)) \/ (r = i /\ r \in Hits)
      BY <1>4, <3>1
    <3>4. call.op = "warp" => FALSE
      BY <3>2
    <3>5. UNCHANGED <<call, text>>
      BY <1>1
    <3> QED BY <3>1, <3>2, <3>3, <3>4, <3>5, Answers
  <2> QED BY <1>2, <2>1, <2>2
<1>5. CASE i # Len(text)
  <2>1. i \in 0..(Len(text) - 1) /\ (i \in Hits <=> Has(text[i + 1])) /\ i + 1 <= Len(text)
    BY <1>2, <1>5 DEF Hits
  <2>2. Has(text[i + 1]) \in BOOLEAN
    <3>1. call.kernel = "equal" \/ call.kernel = "range" \/ call.kernel = "asciiAny"
      BY <1>2 DEF IsCall, Kernels
    <3>2. CASE call.kernel = "equal"
      <4>1. Has(text[i + 1]) = (text[i + 1] = call.lo)
        BY <3>2 DEF Has
      <4> QED BY <4>1
    <3>3. CASE call.kernel = "range"
      <4>1. Has(text[i + 1]) = (call.lo <= text[i + 1] /\ text[i + 1] <= call.hi)
        BY <3>3 DEF Has
      <4> QED BY <4>1
    <3>4. CASE call.kernel = "asciiAny"
      <4>1. Has(text[i + 1]) = (text[i + 1] < Top)
        BY <3>4 DEF Has
      <4> QED BY <4>1
    <3> QED BY <3>1, <3>2, <3>3, <3>4
  <2>3. CASE Has(text[i + 1]) = (call.op = "warp")
    <3>1. OnBy(1) /\ pc # "done" /\ pc # "block" /\ 1 \in Nat
      BY <1>1, <1>5, <2>3
    <3>2. \A p \in i..(i + 1 - 1) : IF call.op = "warp" THEN p \in Hits ELSE p \in Hits => AtEdge(p)
      <4>1. \A p \in i..(i + 1 - 1) : p = i
        BY <1>2
      <4>2. IF call.op = "warp" THEN i \in Hits ELSE i \notin Hits
        BY <2>1, <2>3
      <4> QED BY <4>1, <4>2
    <3> QED BY <1>1, <2>1, <3>1, <3>2, GoesOn
  <2>4. CASE Has(text[i + 1]) # (call.op = "warp")
    <3>1. Answer(i) /\ pc # "done" /\ i \in i..Len(text)
      BY <1>1, <1>2, <1>5, <2>4
    <3>2. IF call.op = "warp" THEN i \notin Hits ELSE i \in Hits
      BY <2>1, <2>2, <2>4
    <3>3. (call.op = "warp" => i \notin Hits) /\ (call.op = "index" => i \in Hits)
      BY <3>2
    <3> QED BY <1>1, <1>3, <3>1, <3>3, Answers
  <2> QED BY <2>3, <2>4
<1> QED BY <1>4, <1>5

LEMMA ReturnInv == ASSUME LanesInv, Return PROVE LanesInv'
<1>1. call' = NoCall /\ pc' = "done"
  BY DEF Return
<1> QED BY <1>1 DEF LanesInv, WarpExact, MissesOnlyEdges, Answered

\* What a call has passed is of the class, or may be passed, at every step.
THEOREM LanesInductive == Spec => []LanesInv
<1>1. Init => LanesInv
  BY DEF Init, LanesInv, WarpExact, MissesOnlyEdges, Answered
<1>2. LanesInv /\ [Next]_vars => LanesInv'
  <2> SUFFICES ASSUME LanesInv, [Next]_vars PROVE LanesInv'
    OBVIOUS
  <2>1. CASE UNCHANGED vars
    BY <2>1 DEF vars, LanesInv, Passed, AtEdge, WarpExact, MissesOnlyEdges, Answered, Hits, Has
  <2> QED BY <2>1, CallInv, BlockInv, ByteInv, ReturnInv DEF Next
<1> QED BY <1>1, <1>2, PTL DEF Spec

\* Warp ends its run at the first byte that is not in the class, for bytes and
\* words of every size: a borrow cannot hide a byte outside the range.
THEOREM WarpStopsExactly == Spec => []WarpExact
<1>1. LanesInv => WarpExact
  BY DEF LanesInv
<1> QED BY <1>1, LanesInductive, PTL

\* IndexClass passes over no byte inside the range, and over one at its edge only
\* behind a byte of the same word that borrows.
THEOREM OnlyEdgesAreMissed == Spec => []MissesOnlyEdges
<1>1. LanesInv => MissesOnlyEdges
  BY DEF LanesInv
<1> QED BY <1>1, LanesInductive, PTL

(***************************************************************************)
(* Module Index says of a word what the subtraction comes to, and so which *)
(* bytes the loop over words cannot find; IndexClass returns the first of  *)
(* the others.                                                             *)
(***************************************************************************)
Class  == call.lo..call.hi
Skips(w) == Idx!PassedOver(text, w, Class)
LostAt(q) == Idx!Lost(text, 0, q, Class)
Indexing == call # NoCall /\ call.op = "index"

\* What the loop over words has passed was passed over word by word; the loop that
\* goes byte by byte is behind the start of a word that is not.  A hit that was
\* passed is lost.
FindInv ==
  /\ Indexing /\ pc = "block" => \E m \in Nat : i = m * Width /\ \A n \in 0..(m - 1) : Skips(n * Width)
  /\ Indexing /\ pc = "byte" => \E m \in Nat : m * Width <= i /\ ~Skips(m * Width)
  /\ Indexing /\ pc # "done" => \A q \in 0..(i - 1) : q \in Hits => LostAt(q)
  /\ IndexFinds

LEMMA Multiples ==
  ASSUME NEW n \in Nat, NEW m \in Nat
  PROVE  /\ n * Width \in Nat /\ (n + 1) * Width = n * Width + Width
         /\ n <= m => n * Width <= m * Width
<1>1. n * Width \in Nat /\ m * Width \in Nat /\ (n + 1) * Width = n * Width + Width
  BY Sizes
<1>2. ASSUME n < m PROVE n * Width <= m * Width
  <2>1. m - n \in Int /\ m - n >= 1
    BY <1>2
  <2>2. Width * (m - n) >= Width
    BY <2>1, Sizes, Grows
  <2>3. Width * (m - n) = m * Width - n * Width
    BY Sizes
  <2> QED BY <1>1, <2>2, <2>3, Sizes
<1> QED BY <1>1, <1>2

\* What is known of a call of IndexClass.
LEMMA IndexingIs ==
  ASSUME LanesInv, Indexing
  PROVE  /\ IsCall(call) /\ call.kernel = "range" /\ text \in Seq(Bytes) /\ Len(text) \in Nat
         /\ call.lo \in 0..(Top - 1) /\ call.hi \in call.lo..(Top - 1)
         /\ \A q \in 0..(Len(text) - 1) : text[q + 1] \in Nat /\ (q \in Hits <=> text[q + 1] \in Class)
         /\ \A q \in Hits : q \in 0..(Len(text) - 1)
<1>1. IsCall(call) /\ text \in Seq(Bytes) /\ call.kernel = "range" /\ Len(text) \in Nat
  BY DEF LanesInv, Indexing, IsCall, Kernels
<1>2. call.lo \in 0..(Top - 1) /\ call.hi \in call.lo..(Top - 1)
  BY <1>1, Sizes DEF IsCall, Bytes
<1>3. ASSUME NEW q \in 0..(Len(text) - 1) PROVE text[q + 1] \in Nat /\ (q \in Hits <=> text[q + 1] \in Class)
  <2>1. text[q + 1] \in Bytes
    <3>1. q + 1 \in 1..Len(text)
      BY <1>1
    <3> QED BY <1>1, <3>1
  <2>2. Has(text[q + 1]) <=> call.lo <= text[q + 1] /\ text[q + 1] <= call.hi
    BY <1>1, <2>1, HasRange
  <2>3. text[q + 1] \in Nat
    BY <2>1, Sizes DEF Bytes
  <2> QED BY <1>2, <2>2, <2>3 DEF Hits, Class
<1>4. \A q \in Hits : q \in 0..(Len(text) - 1)
  BY DEF Hits
<1> QED BY <1>1, <1>2, <1>3, <1>4

\* The loop over words goes on exactly over the words that Index names.
LEMMA SkipsIs ==
  ASSUME LanesInv, Indexing, pc # "done"
  PROVE  Skips(i) <=> WholeWords /\ AsciiWord(Word) /\ Outside(Word) = Lanes
<1>1. /\ text \in Seq(Bytes) /\ i \in 0..Len(text) /\ Len(text) \in Nat
      /\ call.lo \in 0..(Top - 1) /\ call.hi \in call.lo..(Top - 1)
  BY IndexingIs DEF LanesInv, Indexing
<1>2. CASE ~WholeWords
  BY <1>2 DEF Skips, Idx!PassedOver, WholeWords
<1>3. CASE WholeWords
  <2> DEFINE lo == [k \in Lanes |-> call.lo]
             hi == [k \in Lanes |-> call.hi]
             u  == Loaded
  <2>1. /\ \A k \in Lanes : u[k] = text[i + k + 1] /\ lo[k] = call.lo /\ hi[k] = call.hi
        /\ \A k \in Lanes : u[k] \in Nat /\ Lane(Word, k) = u[k]
        /\ \A k \in Lanes : k \in Nat /\ (\A j \in 0..k : j \in Lanes)
    <3>1. \A k \in Lanes : u[k] = text[i + k + 1] /\ lo[k] = call.lo /\ hi[k] = call.hi
      BY DEF Loaded
    <3>2. \A k \in Lanes : u[k] \in Nat /\ Lane(Word, k) = u[k]
      <4> TAKE k \in Lanes
      <4>1. text[i + k + 1] \in Bytes /\ Lane(Word, k) = text[i + k + 1]
        BY <1>1, <1>3, LoadedTypes
      <4> QED BY <3>1, <4>1, Sizes DEF Bytes
    <3>3. \A k \in Lanes : k \in Nat /\ (\A j \in 0..k : j \in Lanes)
      BY Sizes DEF Lanes
    <3> QED BY <3>1, <3>2, <3>3
  <2>2. Word = Value(u) /\ Splat(call.lo) = Value(lo) /\ Splat(call.hi) = Value(hi) /\ lo \in Low /\ hi \in Low
    <3>1. call.hi \in 0..(Top - 1)
      BY <1>1, Sizes
    <3>2. Word = Value(u)
      BY <1>1, <1>3, LoadedTypes DEF u
    <3> QED BY <1>1, <3>1, <3>2, SplatTypes DEF lo, hi
  <2> HIDE DEF lo, hi, u
  <2>3. AsciiWord(Word) <=> \A k \in Lanes : text[i + k + 1] \in 0..(Top - 1)
    <3>1. \A k \in Lanes : Lane(Word, k) >= Top <=> ~(text[i + k + 1] \in 0..(Top - 1))
      BY <2>1, Sizes
    <3> QED BY <3>1 DEF AsciiWord, TopBits
  <2>4. ASSUME NEW k \in Lanes PROVE Idx!Below(text, i, k, Class) <=> Borrowed(u, lo, k + 1)
    <3>1. \A j \in 0..k : /\ (\A b \in Class : text[i + j + 1] < b) <=> u[j] < lo[j]
                          /\ text[i + j + 1] \in Class /\ (\A b \in Class : text[i + j + 1] <= b) <=> u[j] = lo[j]
      <4> TAKE j \in 0..k
      <4>1. u[j] = text[i + j + 1] /\ u[j] \in Nat /\ lo[j] = call.lo
        BY <2>1
      <4>2. call.lo \in Class /\ \A b \in Class : b \in Int /\ call.lo <= b
        BY <1>1 DEF Class
      <4> QED BY <4>1, <4>2, <1>1
    <3>2. (k + 1) - 1 = k /\ \A j \in 0..k : \A n \in (j + 1)..k : n \in 0..k
      BY <2>1
    <3> QED BY <3>1, <3>2 DEF Idx!Below, Borrowed
  <2>5. ASSUME NEW k \in Lanes PROVE Idx!Above(text, i, k, Class) <=> Borrowed(hi, u, k + 1)
    <3>1. \A j \in 0..k : /\ (\A b \in Class : text[i + j + 1] > b) <=> hi[j] < u[j]
                          /\ text[i + j + 1] \in Class /\ (\A b \in Class : text[i + j + 1] >= b) <=> hi[j] = u[j]
      <4> TAKE j \in 0..k
      <4>1. u[j] = text[i + j + 1] /\ u[j] \in Nat /\ hi[j] = call.hi
        BY <2>1
      <4>2. call.hi \in Class /\ \A b \in Class : b \in Int /\ b <= call.hi
        BY <1>1 DEF Class
      <4> QED BY <4>1, <4>2, <1>1
    <3>2. (k + 1) - 1 = k /\ \A j \in 0..k : \A n \in (j + 1)..k : n \in 0..k
      BY <2>1
    <3> QED BY <3>1, <3>2 DEF Idx!Above, Borrowed
  <2>6. ASSUME AsciiWord(Word)
        PROVE  Outside(Word) = Lanes <=> \A k \in Lanes : Borrowed(u, lo, k + 1) \/ Borrowed(hi, u, k + 1)
    <3>1. u \in Low
      BY <1>1, <1>3, <2>6, AsciiTest DEF u
    <3> DEFINE below == TopBits(Minus(Value(u), Value(lo)))
               above == TopBits(Minus(Value(hi), Value(u)))
    <3>2. below \subseteq Lanes /\ \A k \in Lanes : k \in below <=> Borrowed(u, lo, k + 1)
      BY <2>2, <3>1, Flags
    <3>3. above \subseteq Lanes /\ \A k \in Lanes : k \in above <=> Borrowed(hi, u, k + 1)
      BY <2>2, <3>1, Flags
    <3>4. Outside(Word) = below \cup above
      BY <2>2 DEF Outside
    <3> HIDE DEF below, above
    <3> QED BY <3>2, <3>3, <3>4
  <2>7. Skips(i) <=> /\ \A k \in Lanes : text[i + k + 1] \in 0..(Top - 1)
                     /\ \A k \in Lanes : Idx!Below(text, i, k, Class) \/ Idx!Above(text, i, k, Class)
    BY <1>3 DEF Skips, Idx!PassedOver, WholeWords, Lanes
  <2> QED BY <1>3, <2>3, <2>4, <2>5, <2>6, <2>7
<1> QED BY <1>2, <1>3

\* A hit of a word that was passed over, behind words that were too, is lost.
LEMMA LostIn ==
  ASSUME NEW m \in Nat, \A n \in 0..m : Skips(n * Width),
         NEW q \in (m * Width)..(m * Width + Width - 1)
  PROVE  LostAt(q)
<1>1. m * Width \in Nat /\ q \in Nat /\ m * Width <= q /\ q < m * Width + Width
  BY Multiples, Sizes
<1>2. m \in 0..q
  <2>1. CASE m = 0
    BY <1>1, <2>1
  <2>2. CASE m # 0
    <3>1. m \in Int /\ Width \in Int /\ Width >= 1 /\ m \in Nat \ {0}
      BY <2>2, Sizes
    <3>2. m * Width >= m
      BY <3>1, Grows
    <3> QED BY <1>1, <3>2
  <2> QED BY <2>1, <2>2
<1>3. \A n \in 0..m : 0 + n * Width = n * Width
  BY Multiples
<1>4. \A n \in 0..m : Idx!PassedOver(text, 0 + n * Width, Class)
  BY <1>3 DEF Skips
<1>5. m \in 0..(q - 0) /\ 0 + m * Width <= q /\ q < 0 + m * Width + Width
  BY <1>1, <1>2
<1> QED BY <1>4, <1>5 DEF LostAt, Idx!Lost

\* A byte behind the start of a word that is not passed over is never lost.
LEMMA NotLost ==
  ASSUME NEW m \in Nat, ~Skips(m * Width), NEW q \in Nat, m * Width <= q
  PROVE  ~LostAt(q)
<1> SUFFICES ASSUME LostAt(q) PROVE FALSE
  OBVIOUS
<1>1. PICK n \in 0..(q - 0) : /\ 0 + n * Width <= q /\ q < 0 + n * Width + Width
                              /\ \A k \in 0..n : Idx!PassedOver(text, 0 + k * Width, Class)
  BY DEF LostAt, Idx!Lost
<1>2. n \in Nat /\ n + 1 \in Nat /\ n * Width \in Nat /\ m * Width \in Nat /\ (n + 1) * Width = n * Width + Width
  BY Multiples
<1>3. m <= n
  <2> SUFFICES ASSUME n + 1 <= m PROVE FALSE
    BY <1>2
  <2>1. (n + 1) * Width <= m * Width
    BY <1>2, Multiples
  <2> QED BY <1>1, <1>2, <2>1, Sizes
<1>4. m \in 0..n /\ 0 + m * Width = m * Width
  BY <1>2, <1>3
<1> QED BY <1>1, <1>4 DEF Skips

\* An answer behind which every hit is lost is the first that can be found.
LEMMA FindAnswer ==
  ASSUME LanesInv, FindInv, Indexing, pc = "byte", NEW r, Answer(r), UNCHANGED <<call, text>>,
         (r = -1 /\ i = Len(text)) \/ (r = i /\ r \in Hits)
  PROVE  FindInv'
<1> DEFINE found == Idx!Findable(text, 0, Class, TRUE)
<1>1. /\ call' = call /\ text' = text /\ pc' = "done" /\ result' = r /\ Len(text) \in Nat
      /\ i \in 0..Len(text)
  BY IndexingIs DEF Answer, LanesInv, Indexing
<1>2. \A q : q \in found <=> q \in Hits /\ ~LostAt(q)
  <2>1. \A q \in 0..(Len(text) - 1) : q \in Hits <=> text[q + 1] \in Class
    BY IndexingIs
  <2>2. \A q \in Hits : q \in 0..(Len(text) - 1)
    BY IndexingIs
  <2> QED BY <2>1, <2>2 DEF LostAt, Idx!Findable
<1> HIDE DEF found
<1>3. \A q \in found : q \in i..(Len(text) - 1)
  <2>1. \A q \in Hits : q \in 0..(Len(text) - 1)
    BY IndexingIs
  <2>2. \A q \in 0..(i - 1) : q \in Hits => LostAt(q)
    BY DEF FindInv
  <2> QED BY <1>1, <1>2, <2>1, <2>2
<1>4. r = IF found = {} THEN -1 ELSE Min(found)
  <2>1. CASE r = -1 /\ i = Len(text)
    <3>1. found = {}
      BY <1>1, <1>3, <2>1
    <3> QED BY <2>1, <3>1
  <2>2. CASE r = i /\ r \in Hits
    <3>1. PICK m \in Nat : m * Width <= i /\ ~Skips(m * Width)
      BY DEF FindInv
    <3>2. r \in found
      BY <1>1, <1>2, <2>2, <3>1, NotLost
    <3>3. found \in SUBSET Int /\ \A q \in found : r <= q
      BY <1>1, <1>3, <2>2
    <3>4. Min(found) = r
      BY <3>2, <3>3, MinIs
    <3> QED BY <3>2, <3>4
  <2> QED BY <2>1, <2>2
<1>5. IndexFinds'
  <2> SUFFICES r = IF found = {} THEN -1 ELSE Min(found)
    BY <1>1 DEF IndexFinds, found, Class
  <2> QED BY <1>4
<1> QED BY <1>1, <1>5 DEF FindInv

\* Before it is answered a call has no answer to judge.
LEMMA Unanswered == ASSUME pc' # "done" PROVE IndexFinds'
BY DEF IndexFinds, Answered

LEMMA BlockFinds == ASSUME LanesInv, FindInv, Block PROVE FindInv'
<1>1. pc = "block" /\ call' = call /\ text' = text
  BY DEF Block
<1>2. CASE ~Indexing
  <2>1. ~Indexing' /\ ~Answered("index")'
    BY <1>1, <1>2 DEF Indexing, Answered
  <2> QED BY <2>1 DEF FindInv, IndexFinds
<1>3. CASE Indexing
  <2>1. /\ call.kernel = "range" /\ call.op = "index" /\ i \in 0..Len(text) /\ Len(text) \in Nat /\ Indexing'
        /\ Hits' = Hits /\ \A w : Skips(w)' <=> Skips(w)
        /\ \A q : LostAt(q)' <=> LostAt(q)
    BY <1>1, <1>3, IndexingIs DEF Indexing, LanesInv, Hits, Has, Skips, LostAt, Class
  <2>2. PICK m \in Nat : i = m * Width /\ \A n \in 0..(m - 1) : Skips(n * Width)
    BY <1>1, <1>3 DEF FindInv
  <2>3. \A q \in 0..(i - 1) : q \in Hits => LostAt(q)
    BY <1>1, <1>3 DEF FindInv
  <2>4. \/ Skips(i) /\ OnBy(Width)
        \/ ~Skips(i) /\ Slowly
    <3>1. Skips(i) <=> WholeWords /\ AsciiWord(Word) /\ Outside(Word) = Lanes
      BY <1>1, <1>3, SkipsIs
    <3> QED BY <2>1, <3>1 DEF Block
  <2>5. CASE Skips(i) /\ OnBy(Width)
    <3>1. pc' = "block" /\ i' = i + Width
      BY <1>1, <2>5 DEF OnBy
    <3>2. \A n \in 0..m : Skips(n * Width)
      <4>1. \A n \in 0..m : n \in 0..(m - 1) \/ n = m
        OBVIOUS
      <4> QED BY <2>2, <2>5, <4>1
    <3>3. i' = (m + 1) * Width /\ m + 1 \in Nat /\ (m + 1) - 1 = m
      BY <2>2, <3>1, Multiples
    <3>4. \A q \in 0..(i' - 1) : q \in Hits => LostAt(q)
      <4> TAKE q \in 0..(i' - 1)
      <4>1. q \in 0..(i - 1) \/ q \in i..(i + Width - 1)
        BY <2>1, <3>1, Sizes
      <4>2. CASE q \in i..(i + Width - 1)
        BY <2>2, <3>2, <4>2, LostIn
      <4> QED BY <2>3, <4>1, <4>2
    <3>5. IndexFinds'
      BY <3>1, Unanswered
    <3>6. \A n \in 0..((m + 1) - 1) : Skips(n * Width)'
      BY <2>1, <3>2, <3>3
    <3>7. \A q \in 0..(i' - 1) : q \in Hits' => LostAt(q)'
      BY <2>1, <3>4
    <3> QED BY <3>1, <3>3, <3>5, <3>6, <3>7 DEF FindInv
  <2>6. CASE ~Skips(i) /\ Slowly
    <3>1. pc' = "byte" /\ i' = i
      BY <2>6 DEF Slowly
    <3>2. m * Width <= i' /\ ~Skips(m * Width)'
      BY <2>1, <2>2, <2>6, <3>1
    <3>3. \A q \in 0..(i' - 1) : q \in Hits' => LostAt(q)'
      BY <2>1, <2>3, <3>1
    <3>4. IndexFinds'
      BY <3>1, Unanswered
    <3> QED BY <3>1, <3>2, <3>3, <3>4 DEF FindInv
  <2> QED BY <2>4, <2>5, <2>6
<1> QED BY <1>2, <1>3

LEMMA ByteFinds == ASSUME LanesInv, FindInv, Byte PROVE FindInv'
<1>1. pc = "byte" /\ call' = call /\ text' = text
  BY DEF Byte
<1>2. CASE ~Indexing
  <2>1. ~Indexing' /\ ~Answered("index")'
    BY <1>1, <1>2 DEF Indexing, Answered
  <2> QED BY <2>1 DEF FindInv, IndexFinds
<1>3. CASE Indexing
  <2>1. /\ call.kernel = "range" /\ call.op = "index" /\ i \in 0..Len(text) /\ Len(text) \in Nat /\ Indexing'
        /\ Hits' = Hits /\ \A w : Skips(w)' <=> Skips(w)
        /\ \A q : LostAt(q)' <=> LostAt(q)
    BY <1>1, <1>3, IndexingIs DEF Indexing, LanesInv, Hits, Has, Skips, LostAt, Class
  <2>2. PICK m \in Nat : m * Width <= i /\ ~Skips(m * Width)
    BY <1>1, <1>3 DEF FindInv
  <2>3. CASE i = Len(text)
    <3>1. PICK r : r = -1 /\ Answer(r)
      BY <2>1, <2>3 DEF Byte
    <3> QED BY <1>1, <1>3, <2>3, <3>1, FindAnswer
  <2>4. CASE i # Len(text) /\ i \in Hits
    <3>1. Has(text[i + 1])
      BY <2>4 DEF Hits
    <3>2. Answer(i)
      BY <2>1, <2>4, <3>1 DEF Byte
    <3> QED BY <1>1, <1>3, <2>4, <3>2, FindAnswer
  <2>5. CASE i # Len(text) /\ i \notin Hits
    <3>1. i \in 0..(Len(text) - 1) /\ ~Has(text[i + 1])
      BY <2>1, <2>5 DEF Hits
    <3>2. Has(text[i + 1]) = FALSE
      BY <3>1, <2>1 DEF Has
    <3>3. OnBy(1)
      BY <2>1, <2>5, <3>2 DEF Byte
    <3>4. pc' = "byte" /\ i' = i + 1
      BY <1>1, <3>3 DEF OnBy
    <3>5. m * Width <= i' /\ ~Skips(m * Width)'
      BY <2>1, <2>2, <3>4, Multiples
    <3>6. \A q \in 0..(i' - 1) : q \in Hits' => LostAt(q)'
      <4>1. \A q \in 0..(i' - 1) : q \in 0..(i - 1) \/ q = i
        BY <2>1, <3>4
      <4>2. \A q \in 0..(i - 1) : q \in Hits => LostAt(q)
        BY <1>1, <1>3 DEF FindInv
      <4> QED BY <2>1, <2>5, <4>1, <4>2
    <3>7. IndexFinds'
      BY <3>4, Unanswered
    <3> QED BY <3>4, <3>5, <3>6, <3>7 DEF FindInv
  <2> QED BY <2>3, <2>4, <2>5
<1> QED BY <1>2, <1>3

LEMMA CallFinds == ASSUME Call PROVE FindInv'
<1>1. pc' = "block" /\ i' = 0
  BY DEF Call
<1>2. 0 \in Nat /\ i' = 0 * Width /\ (\A n \in 0..(0 - 1) : Skips(n * Width)') /\ \A q \in 0..(i' - 1) : FALSE
  BY <1>1, Sizes
<1>3. IndexFinds'
  BY <1>1, Unanswered
<1> QED BY <1>1, <1>2, <1>3 DEF FindInv

\* IndexClass returns the first byte of its range that module Index leaves to be
\* found, for bytes and words of every size: what the searches of pass 0 are
\* modelled with, and their theorems assume no better of.
THEOREM IndexFindsFirst == Spec => []IndexFinds
<1>1. Init => FindInv
  BY DEF Init, FindInv, Indexing, IndexFinds, Answered
<1>2. LanesInv /\ FindInv /\ [Next]_vars => FindInv'
  <2> SUFFICES ASSUME LanesInv, FindInv, [Next]_vars PROVE FindInv'
    OBVIOUS
  <2>1. CASE UNCHANGED vars
    BY <2>1 DEF vars, FindInv, Indexing, Skips, LostAt, Class, Hits, Has, IndexFinds, Answered
  <2>2. CASE Return
    BY <2>2 DEF Return, FindInv, Indexing, IndexFinds, Answered
  <2> QED BY <2>1, <2>2, CallFinds, BlockFinds, ByteFinds DEF Next
<1>3. FindInv => IndexFinds
  BY DEF FindInv
<1> QED BY <1>1, <1>2, <1>3, LanesInductive, PTL DEF Spec
=============================================================================
