----------------------------- MODULE ExpandProofs -----------------------------
(***************************************************************************)
(* Theorems about Expand, for templates of any length, any groups and      *)
(* names, and an int of any width: apart from the spellings that Differs   *)
(* names, a template expands to what the standard makes of it, and no read *)
(* lies outside the match.                                                 *)
(***************************************************************************)
EXTENDS Expand, InductionFacts, SequenceTheorems

Items == {Token(b) : b \in Tokens} \cup {Group(g) : g \in 0..Groups}

Places == 1..(Len(template) + 1)

TypeInv ==
  /\ template \in Seq(Tokens) /\ unmatched \subseteq 1..Groups
  /\ i \in Places /\ dst \in Seq(Items) /\ pc \in {"loop", "done", "panic"}

\* No spelling in the template is read differently.
Agreed == \A p \in DOMAIN template : ~Differs(p)

\* What was copied, followed by what the standard makes of the rest, is what the
\* standard makes of it all.
CopiedInv == Agreed /\ pc # "panic" => dst \o Standard[i] = Standard[1]

DoneInv == pc = "done" => ~At(i)

IInv == TypeInv /\ CopiedInv /\ DoneInv /\ PanicsBeyondLimit

\* Copies are joined in any order.
LEMMA JoinAssociates ==
  ASSUME NEW a \in Seq(Items), NEW b \in Seq(Items), NEW c \in Seq(Items)
  PROVE  (a \o b) \o c = a \o (b \o c)
BY ConcatAssociative

\* --- runs of tokens ------------------------------------------------------
LEMMA Greatest ==
  ASSUME NEW T \in SUBSET Int, NEW m \in Int, T # {}, \A x \in T : x <= m
  PROVE  Max(T) \in T /\ \A y \in T : Max(T) >= y
<1> DEFINE U == {n \in Nat : m - n \in T}
<1>1. \A x \in T : m - x \in U
  OBVIOUS
<1>2. PICK n \in U : \A k \in U : n <= k
  <2>1. U # {} /\ U \in SUBSET Nat
    BY <1>1
  <2> QED BY <2>1, LeastElement
<1>3. m - n \in T /\ \A y \in T : m - n >= y
  <2>1. ASSUME NEW y \in T PROVE m - n >= y
    <3>1. n <= m - y
      BY <1>1, <1>2
    <3> QED BY <3>1, <1>2
  <2> QED BY <2>1, <1>2
<1>4. \E x \in T : \A y \in T : x >= y
  BY <1>3
<1> QED BY <1>4 DEF Max

LEMMA Places1 == ASSUME TypeInv PROVE Len(template) \in Nat /\ DOMAIN template = 1..Len(template)
BY LenProperties DEF TypeInv

\* A run ends before the first token that is of another kind.
LEMMA RunEndIs ==
  ASSUME TypeInv, NEW p \in Places, NEW kind
  PROVE  /\ RunEnd(p, kind) \in (p - 1)..Len(template)
         /\ \A r \in p..RunEnd(p, kind) : template[r] \in kind
         /\ At(RunEnd(p, kind) + 1) => template[RunEnd(p, kind) + 1] \notin kind
<1> DEFINE len == Len(template)
           Q == {q \in p..len : \A r \in p..q : template[r] \in kind}
           T == {p - 1} \cup Q
           e == Max(T)
<1>1. len \in Nat /\ DOMAIN template = 1..len /\ p \in 1..(len + 1)
  BY Places1 DEF Places
<1>2. RunEnd(p, kind) = e
  BY DEF RunEnd
<1> HIDE DEF len, e
<1>3. e \in T /\ \A y \in T : e >= y
  <2>1. T \in SUBSET Int /\ T # {} /\ \A x \in T : x <= len
    BY <1>1
  <2>2. len \in Int
    BY <1>1
  <2> HIDE DEF T
  <2>3. Max(T) \in T /\ \A y \in T : Max(T) >= y
    BY <2>1, <2>2, Greatest
  <2> QED BY <2>3 DEF e
<1>4. e \in (p - 1)..len /\ \A r \in p..e : template[r] \in kind
  BY <1>1, <1>3
<1>5. ASSUME At(e + 1), template[e + 1] \in kind PROVE FALSE
  <2>1. e + 1 \in p..len
    BY <1>1, <1>4, <1>5 DEF At
  <2>2. \A r \in p..(e + 1) : template[r] \in kind
    BY <1>1, <1>4, <1>5
  <2>3. e + 1 \in T
    BY <2>1, <2>2
  <2> QED BY <2>3, <1>3, <1>4, <1>1
<1> QED BY <1>2, <1>4, <1>5 DEF len

\* It is the only such place.
LEMMA RunEndAt ==
  ASSUME TypeInv, NEW p \in Places, NEW kind, NEW e \in (p - 1)..Len(template),
         \A r \in p..e : template[r] \in kind, At(e + 1) => template[e + 1] \notin kind
  PROVE  RunEnd(p, kind) = e
<1> DEFINE w == RunEnd(p, kind)
<1>1. /\ w \in (p - 1)..Len(template) /\ \A r \in p..w : template[r] \in kind
      /\ At(w + 1) => template[w + 1] \notin kind
  BY RunEndIs
<1> HIDE DEF w
<1>2. Len(template) \in Nat /\ DOMAIN template = 1..Len(template) /\ p \in 1..(Len(template) + 1)
  BY Places1 DEF Places
<1>3. ~(w < e)
  <2> SUFFICES ASSUME w < e PROVE FALSE
    OBVIOUS
  <2>1. w + 1 \in p..e /\ At(w + 1)
    BY <1>1, <1>2 DEF At
  <2> QED BY <2>1, <1>1
<1>4. ~(e < w)
  <2> SUFFICES ASSUME e < w PROVE FALSE
    OBVIOUS
  <2>1. e + 1 \in p..w /\ At(e + 1)
    BY <1>1, <1>2 DEF At
  <2> QED BY <2>1, <1>1
<1> QED BY <1>1, <1>2, <1>3, <1>4 DEF w

\* --- names ---------------------------------------------------------------
LEMMA NameIs ==
  ASSUME TypeInv, NEW p \in Places, NEW e \in (p - 1)..Len(template)
  PROVE  /\ SubSeq(template, p, e) \in Seq(Tokens) /\ Len(SubSeq(template, p, e)) = e - p + 1
         /\ \A k \in 1..(e - p + 1) : SubSeq(template, p, e)[k] = template[p + k - 1]
         /\ SubSeq(template, p, e) = <<>> <=> e < p
         /\ \A S : Range(SubSeq(template, p, e)) \subseteq S <=> \A r \in p..e : template[r] \in S
<1> DEFINE name == SubSeq(template, p, e)
<1>1. Len(template) \in Nat /\ DOMAIN template = 1..Len(template) /\ p \in 1..(Len(template) + 1)
  BY Places1 DEF Places
<1>2. \A k \in p..e : template[k] \in Tokens
  BY <1>1, ElementOfSeq DEF TypeInv
<1>3. /\ name \in Seq(Tokens) /\ Len(name) = IF p <= e THEN e - p + 1 ELSE 0
      /\ \A k \in 1..(e - p + 1) : name[k] = template[p + k - 1]
  BY <1>1, <1>2, SubSeqProperties
<1> HIDE DEF name
<1>4. Len(name) = e - p + 1 /\ DOMAIN name = 1..(e - p + 1)
  BY <1>1, <1>3, LenProperties
<1>5. name = <<>> <=> e < p
  BY <1>1, <1>3, <1>4, EmptySeq
<1>6. ASSUME NEW S PROVE Range(name) \subseteq S <=> \A r \in p..e : template[r] \in S
  <2>1. ASSUME Range(name) \subseteq S, NEW r \in p..e PROVE template[r] \in S
    <3>1. r - p + 1 \in 1..(e - p + 1) /\ p + (r - p + 1) - 1 = r
      BY <1>1
    <3>2. name[r - p + 1] = template[r] /\ name[r - p + 1] \in Range(name)
      BY <3>1, <1>3, <1>4 DEF Range
    <3> QED BY <3>2, <2>1
  <2>2. ASSUME \A r \in p..e : template[r] \in S, NEW x \in Range(name) PROVE x \in S
    <3>1. PICK k \in 1..(e - p + 1) : x = name[k]
      BY <2>2, <1>4 DEF Range
    <3>2. p + k - 1 \in p..e
      BY <1>1, <3>1
    <3> QED BY <3>1, <3>2, <2>2, <1>3
  <2> QED BY <2>1, <2>2
<1> QED BY <1>3, <1>4, <1>5, <1>6 DEF name

\* Each digit multiplies what was read by ten.
LEMMA ValuesAre ==
  ASSUME NEW name \in Seq(Tokens), IsNumber(name)
  PROVE  /\ Len(name) \in Nat \ {0} /\ Values(name) \in [0..Len(name) -> Nat] /\ Values(name)[0] = 0
         /\ \A n \in 1..Len(name) : /\ Digits[name[n]] \in 0..9
                                    /\ Values(name)[n] = 10 * Values(name)[n - 1] + Digits[name[n]]
<1> DEFINE len == Len(name)
           F == [e \in Nat \X Int |-> IF e[2] \in 1..len THEN 10 * e[1] + Digits[name[e[2]]] ELSE 0]
           Is(g) == g = [n \in 0..len |-> IF n = 0 THEN 0 ELSE 10 * g[n - 1] + Digits[name[n]]]
           v == CHOOSE g : Is(g)
<1>1. len \in Nat \ {0} /\ DOMAIN name = 1..len
  BY EmptySeq, LenProperties DEF IsNumber
<1>2. \A n \in 1..len : Digits[name[n]] \in 0..9
  <2>1. \A n \in 1..len : name[n] \in DOMAIN Digits
    BY <1>1 DEF IsNumber, Range
  <2> QED BY <2>1, ExpandAssumption
<1>3. Values(name) = v
  BY DEF Values
<1> HIDE DEF len
<1>4. F \in [Nat \X Int -> Nat]
  <2>1. ASSUME NEW x \in Nat, NEW k \in Int PROVE (IF k \in 1..len THEN 10 * x + Digits[name[k]] ELSE 0) \in Nat
    BY <1>2
  <2> QED BY <2>1
<1>5. PICK f \in [0..len -> Nat] : Recursive(f, 0, 0, len, F)
  <2>1. 0 \in Nat /\ 0 \in Int /\ len \in Int
    BY <1>1
  <2> HIDE DEF F
  <2> QED BY <2>1, <1>4, IntervalRecursion
<1>6. ASSUME NEW n \in 0..len, n # 0 PROVE F[<<f[n - 1], n>>] = 10 * f[n - 1] + Digits[name[n]]
  <2>1. n - 1 \in 0..len /\ n \in 1..len /\ f[n - 1] \in Nat /\ n \in Int
    BY <1>1, <1>5, <1>6
  <2> QED BY <2>1
<1> HIDE DEF F
<1>7. Is(f)
  BY <1>5, <1>6 DEF Recursive
<1>8. Is(v)
  BY <1>7
<1> HIDE DEF v
<1> DEFINE T == {n \in 0..len : v[n] \in Nat}
<1>9. ASSUME NEW n \in 1..len PROVE v[n] = 10 * v[n - 1] + Digits[name[n]]
  BY <1>8, <1>1
<1>10. v[0] = 0
  BY <1>8, <1>1
<1>11. Inductive(T, 0, len)
  <2>1. ASSUME NEW q \in 0..(len - 1), q \in T PROVE q + 1 \in T
    <3>1. q + 1 \in 1..len /\ (q + 1) - 1 = q
      BY <1>1
    <3>2. v[q + 1] = 10 * v[q] + Digits[name[q + 1]]
      BY <3>1, <1>9
    <3>3. v[q] \in Nat
      BY <2>1
    <3>4. Digits[name[q + 1]] \in 0..9
      BY <3>1, <1>2
    <3>5. v[q + 1] \in Nat /\ q + 1 \in 0..len
      <4>1. Digits[name[q + 1]] \in Nat
        BY <3>4
      <4>2. 10 * v[q] + Digits[name[q + 1]] \in Nat
        BY <3>3, <4>1
      <4> QED BY <3>1, <3>2, <4>2
    <3> QED BY <3>5
  <2>2. 0 \in T
    BY <1>1, <1>10
  <2> HIDE DEF T
  <2> QED BY <2>1, <2>2 DEF Inductive
<1>12. 0..len \subseteq T
  <2> HIDE DEF T
  <2> QED BY <1>1, <1>11, IntervalInduction
<1>13. v \in [0..len -> Nat]
  <2>1. DOMAIN v = 0..len /\ v = [n \in 0..len |-> v[n]]
    BY <1>8
  <2>2. \A n \in 0..len : v[n] \in Nat
    BY <1>12
  <2> QED BY <2>1, <2>2
<1> QED BY <1>1, <1>2, <1>3, <1>9, <1>10, <1>13 DEF len

LEMMA Limits ==
  /\ Groups \in Nat /\ Limit \in Nat \ {0} /\ IntLimit \in Nat
  /\ 20 * Limit <= IntLimit /\ 2 * (Groups + 1) < IntLimit
BY ExpandAssumption

\* Below the limit of an int, arithmetic is exact.
LEMMA SmallIsExact ==
  ASSUME NEW n \in Int, -1 <= n, n < IntLimit
  PROVE  Int64(n) = n
<1>1. IntLimit \in Nat /\ IntLimit > 0
  BY Limits
<1>2. (n + IntLimit) % (2 * IntLimit) = n + IntLimit
  <2>1. n + IntLimit \in 0..(2 * IntLimit - 1) /\ 2 * IntLimit \in Nat \ {0}
    BY <1>1
  <2> QED BY <2>1
<1> QED BY <1>1, <1>2 DEF Int64

\* A number that the standard would not read.
Unread(name) == IsNumber(name) /\ Len(name) > 1 /\ (Digits[name[1]] = 0 \/ Values(name)[Len(name) - 1] >= Limit)

\* Any other name refers to the group the standard takes, and never past the last.
LEMMA NamesAgree ==
  ASSUME NEW name \in Seq(Tokens), ~Unread(name)
  PROVE  /\ Num(name) = StandardNum(name) /\ Num(name) \in Int
         /\ InMatch(Num(name)) <=> Num(name) \in 0..Groups
         /\ ~Panics(name)
<1> DEFINE num == Num(name)
<1>0. Limit \in Nat \ {0} /\ IntLimit \in Nat /\ 20 * Limit <= IntLimit /\ Groups \in Nat /\ 2 * (Groups + 1) < IntLimit
  BY Limits
<1>1. num = StandardNum(name) /\ num \in Int /\ -1 <= num /\ 2 * num + 1 < IntLimit
  <2>1. CASE IsNumber(name)
    <3> DEFINE n == Len(name)
               v == Values(name)
    <3>1. /\ n \in Nat \ {0} /\ v \in [0..n -> Nat] /\ v[0] = 0
          /\ \A k \in 1..n : Digits[name[k]] \in 0..9 /\ v[k] = 10 * v[k - 1] + Digits[name[k]]
      BY <2>1, ValuesAre
    <3>2. v[n - 1] \in Nat /\ v[n - 1] < Limit /\ (n = 1 \/ Digits[name[1]] # 0)
      <4>1. CASE n = 1
        <5>1. n - 1 = 0
          BY <4>1
        <5>2. v[n - 1] = 0
          BY <5>1, <3>1
        <5> QED BY <5>2, <4>1, <1>0
      <4>2. CASE n # 1
        <5>1. n > 1 /\ n - 1 \in 0..n
          <6>1. n \in Nat \ {0} /\ n # 1
            BY <4>2, <3>1
          <6> HIDE DEF n
          <6> QED BY <6>1
        <5>2. v[n - 1] \in Nat /\ Digits[name[1]] # 0 /\ ~(v[n - 1] >= Limit)
          BY <5>1, <3>1, <2>1 DEF Unread
        <5> QED BY <5>2, <1>0
      <4> QED BY <4>1, <4>2
    <3>3. Value(name) = v[n] /\ StandardNum(name) = Value(name) /\ num = Int64(Value(name))
      BY <2>1, <3>2 DEF Value, StandardNum, Num
    <3>4. v[n] \in Nat /\ v[n] < 10 * Limit
      <4> DEFINE w == v[n - 1]
                 d == Digits[name[n]]
      <4>1. w \in Nat /\ w < Limit /\ d \in 0..9 /\ v[n] = 10 * w + d
        <5>1. n \in 1..n
          BY <3>1
        <5> QED BY <5>1, <3>1, <3>2
      <4> HIDE DEF w, d, v, n
      <4> QED BY <4>1, <1>0
    <3> HIDE DEF n, v
    <3>5. Int64(v[n]) = v[n]
      BY <3>4, <1>0, SmallIsExact
    <3> HIDE DEF num
    <3> QED BY <3>3, <3>4, <3>5, <1>0
  <2>2. CASE ~IsNumber(name)
    <3>1. num = SubexpIndex(name) /\ StandardNum(name) = SubexpIndex(name)
      BY <2>2 DEF Num, StandardNum
    <3>2. SubexpIndex(name) \in 1..Groups \/ SubexpIndex(name) = -1
      BY ExpandAssumption DEF SubexpIndex
    <3> HIDE DEF num
    <3> QED BY <3>1, <3>2, <1>0
  <2> QED BY <2>1, <2>2
<1> HIDE DEF num
<1>2. Int64(2 * num + 1) = 2 * num + 1
  BY <1>0, <1>1, SmallIsExact
<1>3. InMatch(num) <=> num \in 0..Groups
  BY <1>0, <1>1, <1>2 DEF InMatch
<1>4. ~Panics(name)
  BY <1>0, <1>1, <1>3 DEF Panics, num
<1> QED BY <1>1, <1>3, <1>4 DEF num

\* A read that passes the test and lies outside the match is that of a number
\* whose index wraps, which is far beyond the standard's limit.
LEMMA PanicMeans ==
  ASSUME NEW name \in Seq(Tokens), Panics(name)
  PROVE  Beyond(name)
<1> DEFINE num == Num(name)
           val == Value(name)
           n == Len(name)
           w == Values(name)[n - 1]
           d == Digits[name[n]]
<1>0. Limit \in Nat \ {0} /\ IntLimit \in Nat /\ 20 * Limit <= IntLimit /\ Groups \in Nat /\ 2 * (Groups + 1) < IntLimit
  BY Limits
<1>1. num >= 0 /\ num > Groups /\ Int64(2 * num + 1) < 2 * (Groups + 1)
  BY DEF Panics, InMatch
<1>2. IsNumber(name)
  <2> SUFFICES ASSUME ~IsNumber(name) PROVE FALSE
    OBVIOUS
  <2>1. num = SubexpIndex(name)
    BY DEF Num
  <2>2. SubexpIndex(name) \in 1..Groups \/ SubexpIndex(name) = -1
    BY ExpandAssumption DEF SubexpIndex
  <2> HIDE DEF num
  <2> QED BY <2>1, <2>2, <1>0, <1>1
<1>3. num = Int64(val)
  BY <1>2 DEF Num
<1>4. val \in Nat /\ w \in Nat /\ d \in 0..9 /\ val = 10 * w + d
  <2>1. /\ n \in Nat \ {0} /\ Values(name) \in [0..n -> Nat]
        /\ \A k \in 1..n : Digits[name[k]] \in 0..9
                           /\ Values(name)[k] = 10 * Values(name)[k - 1] + Digits[name[k]]
    BY <1>2, ValuesAre
  <2>2. n \in 1..n /\ n \in 0..n /\ n - 1 \in 0..n
    BY <2>1
  <2>3. val = Values(name)[n]
    BY DEF Value
  <2>4. d \in 0..9 /\ val = 10 * w + d
    BY <2>1, <2>2, <2>3, Zenon
  <2>5. val \in Nat /\ w \in Nat
    <3> DEFINE V == Values(name)
    <3>1. V \in [0..n -> Nat] /\ val = V[n] /\ w = V[n - 1]
      BY <2>1, <2>3, Zenon
    <3> HIDE DEF V, val, w, n
    <3> QED BY <2>2, <3>1, Zenon
  <2> QED BY <2>4, <2>5
<1> HIDE DEF num, val, w, d, n
<1>5. 2 * val + 1 >= IntLimit
  <2> SUFFICES ASSUME 2 * val + 1 < IntLimit PROVE FALSE
    BY <1>0, <1>4
  <2>1. Int64(val) = val
    BY <1>0, <1>4, SmallIsExact
  <2>2. Int64(2 * val + 1) = 2 * val + 1
    BY <1>0, <1>4, SmallIsExact
  <2> QED BY <2>1, <2>2, <1>0, <1>1, <1>3, <1>4
<1>6. w >= Limit
  BY <1>0, <1>4, <1>5
<1> QED BY <1>2, <1>5, <1>6 DEF Beyond, val, w, n

\* --- the standard's Expand -----------------------------------------------
LEMMA OneToken == ASSUME NEW b \in Tokens PROVE <<Token(b)>> \in Seq(Items)
<1>1. Token(b) \in Items
  BY DEF Items
<1> HIDE DEF Items
<1> QED BY <1>1

LEMMA OneGroup == ASSUME NEW g \in 0..Groups PROVE <<Group(g)>> \in Seq(Items)
<1>1. Group(g) \in Items
  BY DEF Items
<1> HIDE DEF Items
<1> QED BY <1>1

LEMMA NoItem == <<>> \in Seq(Items)
BY EmptySeq

LEMMA DollarIsToken == "$" \in Tokens /\ "{" \in Tokens /\ "}" \in Tokens
BY DEF Tokens

LEMMA TokenAt == ASSUME TypeInv, NEW p \in DOMAIN template PROVE template[p] \in Tokens /\ p \in Places /\ p + 1 \in Places
BY Places1, ElementOfSeq DEF TypeInv, Places

\* What the standard reads behind a dollar sign lies in the template.
LEMMA ExtractIs ==
  ASSUME TypeInv, NEW p \in Places, Extract(p).ok
  PROVE  Extract(p).rest \in (p + 1)..(Len(template) + 1)
<1> DEFINE braced == At(p) /\ template[p] = "{"
           first  == IF braced THEN p + 1 ELSE p
           last   == RunEnd(first, WordTokens)
           closed == At(last + 1) /\ template[last + 1] = "}"
<1>1. Len(template) \in Nat /\ DOMAIN template = 1..Len(template) /\ p \in 1..(Len(template) + 1)
  BY Places1 DEF Places
<1>2. first \in Places /\ first >= p /\ (braced => first = p + 1)
  <2>1. CASE braced
    <3>1. p \in 1..Len(template) /\ first = p + 1
      BY <1>1, <2>1 DEF At
    <3> HIDE DEF first, braced
    <3> QED BY <3>1, <2>1, <1>1 DEF Places
  <2>2. CASE ~braced
    <3>1. first = p
      BY <2>2
    <3> HIDE DEF first, braced
    <3> QED BY <3>1, <2>2, <1>1 DEF Places
  <2> QED BY <2>1, <2>2
<1>3. last \in (first - 1)..Len(template)
  <2> HIDE DEF first
  <2> QED BY <1>2, RunEndIs
<1>4. ~(last < first) /\ (braced => closed)
  BY DEF Extract
<1>5. Extract(p).rest = last + (IF braced THEN 2 ELSE 1)
  BY <1>4 DEF Extract
<1>6. closed => last + 1 <= Len(template)
  <2> HIDE DEF last
  <2>1. closed => last + 1 \in 1..Len(template)
    BY <1>1 DEF At
  <2> HIDE DEF closed, first
  <2>2. first \in Int
    <3>1. first \in Places
      BY <1>2
    <3>2. Places \subseteq Int
      BY DEF Places
    <3> QED BY <3>1, <3>2
  <2> QED BY <2>1, <2>2, <1>1, <1>3
<1> HIDE DEF closed, last, first, braced
<1> QED BY <1>1, <1>2, <1>3, <1>4, <1>5, <1>6 DEF Places

LEMMA ReadIs ==
  ASSUME TypeInv, NEW p \in DOMAIN template
  PROVE  Read(p).copied \in Seq(Items) /\ Read(p).rest \in (p + 1)..(Len(template) + 1)
<1> DEFINE e == Extract(p + 1)
           g == StandardNum(e.name)
<1>1. Len(template) \in Nat /\ p \in 1..Len(template) /\ template[p] \in Tokens /\ p + 1 \in Places
  BY Places1, TokenAt
<1>2. CASE template[p] # "$"
  BY <1>1, <1>2, OneToken DEF Read
<1>3. CASE template[p] = "$" /\ At(p + 1) /\ template[p + 1] = "$"
  <2>1. Read(p) = [copied |-> <<Token("$")>>, rest |-> p + 2]
    BY <1>3 DEF Read
  <2>2. p + 2 \in (p + 1)..(Len(template) + 1)
    BY <1>1, <1>3, Places1 DEF At
  <2>3. <<Token("$")>> \in Seq(Items)
    BY OneToken, DollarIsToken
  <2> QED BY <2>1, <2>2, <2>3
<1>4. CASE template[p] = "$" /\ ~(At(p + 1) /\ template[p + 1] = "$") /\ ~e.ok
  <2>1. Read(p) = [copied |-> <<Token("$")>>, rest |-> p + 1]
    BY <1>4 DEF Read
  <2>2. <<Token("$")>> \in Seq(Items)
    BY OneToken, DollarIsToken
  <2>3. p + 1 \in (p + 1)..(Len(template) + 1)
    BY <1>1
  <2> QED BY <2>1, <2>2, <2>3
<1>5. CASE template[p] = "$" /\ ~(At(p + 1) /\ template[p + 1] = "$") /\ e.ok
  <2>1. Read(p) = [copied |-> IF g \in (0..Groups) \ unmatched THEN <<Group(g)>> ELSE <<>>, rest |-> e.rest]
    BY <1>5 DEF Read
  <2>2. e.rest \in (p + 1 + 1)..(Len(template) + 1)
    BY <1>1, <1>5, ExtractIs
  <2> HIDE DEF e, g
  <2>3. Read(p).copied \in Seq(Items)
    <3>1. CASE g \in (0..Groups) \ unmatched
      BY <2>1, <3>1, OneGroup
    <3>2. CASE g \notin (0..Groups) \ unmatched
      BY <2>1, <3>2, NoItem
    <3> QED BY <3>1, <3>2
  <2> QED BY <2>1, <2>2, <2>3, <1>1
<1> QED BY <1>2, <1>3, <1>4, <1>5

\* The function that Standard stands for exists, from the last place on: what it
\* is at a place depends on places behind only.
LEMMA StandardIs ==
  ASSUME TypeInv
  PROVE  \A p \in Places : /\ Standard[p] \in Seq(Items)
                           /\ Standard[p] = IF At(p) THEN Read(p).copied \o Standard[Read(p).rest] ELSE <<>>
<1> DEFINE len == Len(template)
           From(f, p) == IF At(p) THEN Read(p).copied \o f[Read(p).rest] ELSE <<>>
           Has == {n \in Nat : n <= len => \E f : f = [p \in (len + 1 - n)..(len + 1) |-> From(f, p)]}
<1>1. len \in Nat /\ DOMAIN template = 1..len /\ Places = 1..(len + 1)
  BY Places1 DEF Places
<1>2. ASSUME NEW p \in DOMAIN template PROVE Read(p).copied \in Seq(Items) /\ Read(p).rest \in (p + 1)..(len + 1)
  BY ReadIs
<1>3. \A p \in Places : At(p) <=> p \in 1..len
  BY <1>1 DEF At
<1> HIDE DEF len
<1>4. 0 \in Has
  <2> DEFINE f == [p \in (len + 1 - 0)..(len + 1) |-> <<>>]
  <2>1. \A p \in (len + 1 - 0)..(len + 1) : ~At(p)
    BY <1>1, <1>3
  <2>2. f = [p \in (len + 1 - 0)..(len + 1) |-> From(f, p)]
    <3> HIDE DEF f
    <3>1. f = [p \in (len + 1 - 0)..(len + 1) |-> <<>>]
      BY DEF f
    <3>2. \A p \in (len + 1 - 0)..(len + 1) : From(f, p) = <<>>
      BY <2>1
    <3> HIDE DEF From
    <3> QED BY <3>1, <3>2
  <2> QED BY <2>2
<1>5. ASSUME NEW n \in Nat, n \in Has PROVE n + 1 \in Has
  <2> SUFFICES ASSUME n + 1 <= len
               PROVE  \E f : f = [p \in (len + 1 - (n + 1))..(len + 1) |-> From(f, p)]
    <3> HIDE DEF From
    <3> QED OBVIOUS
  <2> DEFINE q == len - n
  <2>0. q \in 1..len /\ q \in DOMAIN template /\ q \in Int /\ len + 1 - n = q + 1 /\ len + 1 - (n + 1) = q
    BY <1>1
  <2>1. PICK f : f = [p \in (q + 1)..(len + 1) |-> From(f, p)]
    <3>1. n <= len
      BY <1>1
    <3> HIDE DEF From, q
    <3> QED BY <1>5, <2>0, <3>1
  <2> HIDE DEF q
  <2> DEFINE g == [p \in q..(len + 1) |-> IF p = q THEN From(f, q) ELSE f[p]]
  <2>2. ASSUME NEW p \in q..(len + 1) PROVE From(g, p) = From(f, p)
    <3>1. CASE At(p)
      <4>1. p \in DOMAIN template
        BY <3>1, <1>1 DEF At
      <4>2. Read(p).rest \in (p + 1)..(len + 1)
        BY <4>1, <1>2
      <4>3. Read(p).rest \in q..(len + 1) /\ Read(p).rest # q
        BY <4>2, <2>0, <1>1
      <4> QED BY <4>3
    <3>2. CASE ~At(p)
      BY <3>2
    <3> QED BY <3>1, <3>2
  <2>3. ASSUME NEW p \in q..(len + 1) PROVE g[p] = From(f, p)
    <3>1. CASE p = q
      BY <3>1
    <3>2. CASE p # q
      <4>1. p \in (q + 1)..(len + 1)
        BY <3>2, <2>0, <1>1
      <4>2. f[p] = From(f, p)
        <5> HIDE DEF From
        <5> QED BY <4>1, <2>1
      <4> QED BY <3>2, <4>2
    <3> QED BY <3>1, <3>2
  <2>4. g = [p \in q..(len + 1) |-> g[p]]
    OBVIOUS
  <2> HIDE DEF g, From
  <2>5. g = [p \in q..(len + 1) |-> From(g, p)]
    BY <2>2, <2>3, <2>4
  <2> QED BY <2>5, <2>0
<1>6. len \in Has
  <2>1. Nat \subseteq Has
    <3> HIDE DEF Has
    <3> QED BY <1>4, <1>5, Induction
  <2> QED BY <2>1, <1>1
<1>7. Standard = [p \in 1..(len + 1) |-> From(Standard, p)]
  <2>1. \E f : f = [p \in 1..(len + 1) |-> From(f, p)]
    <3>1. len <= len /\ len + 1 - len = 1
      BY <1>1
    <3> QED BY <1>6, <3>1
  <2>2. Standard = CHOOSE f : f = [p \in 1..(len + 1) |-> From(f, p)]
    BY DEF Standard, len
  <2> QED BY <2>1, <2>2
<1>8. ASSUME NEW p \in Places PROVE Standard[p] = From(Standard, p)
  <2> HIDE DEF From
  <2> QED BY <1>1, <1>7
<1> DEFINE Typed == {n \in Nat : \A p \in Places : p >= len + 1 - n => Standard[p] \in Seq(Items)}
<1>9. 0 \in Typed
  <2>1. ASSUME NEW p \in Places, p >= len + 1 - 0 PROVE Standard[p] \in Seq(Items)
    <3>1. ~At(p)
      BY <1>1, <1>3, <2>1
    <3> QED BY <3>1, <1>8, NoItem
  <2> QED BY <2>1
<1>10. ASSUME NEW n \in Nat, n \in Typed PROVE n + 1 \in Typed
  <2>1. ASSUME NEW p \in Places, p >= len + 1 - (n + 1) PROVE Standard[p] \in Seq(Items)
    <3>1. CASE ~At(p)
      BY <3>1, <1>8, NoItem
    <3>2. CASE At(p)
      <4>1. p \in DOMAIN template
        BY <3>2 DEF At
      <4>2. Read(p).copied \in Seq(Items) /\ Read(p).rest \in (p + 1)..(len + 1)
        BY <4>1, <1>2
      <4>3. Read(p).rest \in Places /\ Read(p).rest >= len + 1 - n
        BY <4>2, <2>1, <1>1
      <4>4. Standard[Read(p).rest] \in Seq(Items)
        BY <4>3, <1>10
      <4>5. Standard[p] = Read(p).copied \o Standard[Read(p).rest]
        BY <3>2, <1>8
      <4> QED BY <4>2, <4>4, <4>5, ConcatProperties
    <3> QED BY <3>1, <3>2
  <2> QED BY <2>1
<1>11. len + 1 \in Typed
  <2>1. Nat \subseteq Typed
    <3> HIDE DEF Typed
    <3> QED BY <1>9, <1>10, Induction
  <2> QED BY <2>1, <1>1
<1>12. ASSUME NEW p \in Places PROVE Standard[p] \in Seq(Items)
  BY <1>11, <1>1
<1> QED BY <1>8, <1>12

\* The template stays, and so does what the standard makes of it.
LEMMA StandardFrame ==
  ASSUME UNCHANGED <<template, unmatched>>
  PROVE  Standard' = Standard
BY DEF Standard, Read, Extract, At, RunEnd

LEMMA AgreedFrame ==
  ASSUME UNCHANGED <<template, unmatched>>
  PROVE  Agreed' = Agreed
BY DEF Agreed, Differs, NameAt, At, RunEnd

LEMMA BeyondFrame ==
  ASSUME UNCHANGED <<template, i>>
  PROVE  Beyond(NameAt(i))' = Beyond(NameAt(i))
BY DEF Beyond, IsNumber, Value, Values, NameAt, At, RunEnd

\* --- the loop ------------------------------------------------------------
\* A step that copies what the standard makes of the tokens it reads.
LEMMA StepKeeps ==
  ASSUME IInv, Kept, NEW x \in Seq(Items), NEW q \in Places,
         dst' = dst \o x, i' = q, pc = "loop", pc' = "loop",
         Agreed => Standard[i] = x \o Standard[q]
  PROVE  IInv'
<1> USE DEF Kept
<1>1. /\ template \in Seq(Tokens) /\ unmatched \subseteq 1..Groups
      /\ i \in Places /\ dst \in Seq(Items)
  BY DEF IInv, TypeInv
<1>2. TypeInv'
  <2>1. Places' = Places
    BY DEF Places
  <2>2. dst' \in Seq(Items)
    BY <1>1, ConcatProperties
  <2> QED BY <1>1, <2>1, <2>2 DEF TypeInv
<1>3. CopiedInv'
  <2> SUFFICES ASSUME Agreed PROVE dst' \o Standard[i'] = Standard[1]
    BY AgreedFrame, StandardFrame DEF CopiedInv
  <2>1. Standard[q] \in Seq(Items)
    BY StandardIs DEF IInv
  <2>2. (dst \o x) \o Standard[q] = dst \o (x \o Standard[q])
    <3> DEFINE y == Standard[q]
    <3>1. y \in Seq(Items) /\ dst \in Seq(Items)
      BY <2>1, <1>1
    <3> HIDE DEF y
    <3>2. (dst \o x) \o y = dst \o (x \o y)
      BY <3>1, JoinAssociates
    <3> QED BY <3>2 DEF y
  <2> QED BY <2>2 DEF IInv, CopiedInv
<1> QED BY <1>2, <1>3 DEF IInv, DoneInv, PanicsBeyondLimit

\* What Copy appends.
LEMMA OneCopied == ASSUME NEW a \in Tokens PROVE [k \in DOMAIN <<a>> |-> Token(<<a>>[k])] = <<Token(a)>>
OBVIOUS

LEMMA TwoCopied ==
  ASSUME NEW a \in Tokens, NEW b \in Tokens
  PROVE  /\ [k \in DOMAIN <<a, b>> |-> Token(<<a, b>>[k])] = <<Token(a)>> \o <<Token(b)>>
         /\ <<Token(a)>> \o <<Token(b)>> \in Seq(Items)
<1>1. <<Token(a)>> \in Seq(Items) /\ <<Token(b)>> \in Seq(Items)
  BY OneToken
<1> DEFINE A == Token(a)
           B == Token(b)
<1>2. [k \in DOMAIN <<a, b>> |-> Token(<<a, b>>[k])] = <<A, B>>
  OBVIOUS
<1>3. <<A>> \o <<B>> = <<A, B>>
  <2> HIDE DEF A, B
  <2>1. <<A>> \in Seq({A, B}) /\ B \in {A, B}
    OBVIOUS
  <2> DEFINE f == <<A>> \o <<B>>
  <2>2. f \in Seq({A, B}) /\ Len(f) = 2 /\ f[1] = A /\ f[2] = B
    OBVIOUS
  <2> HIDE DEF f
  <2>3. f = [k \in 1..2 |-> f[k]]
    BY <2>2, LenProperties
  <2>4. <<A, B>> = [k \in 1..2 |-> IF k = 1 THEN A ELSE B]
    OBVIOUS
  <2>5. \A k \in 1..2 : f[k] = IF k = 1 THEN A ELSE B
    BY <2>2
  <2> QED BY <2>3, <2>4, <2>5 DEF f
<1> QED BY <1>1, <1>2, <1>3, ConcatProperties

LEMMA StandardAt ==
  ASSUME TypeInv, NEW p \in DOMAIN template
  PROVE  /\ Standard[p] = Read(p).copied \o Standard[Read(p).rest]
         /\ Read(p).copied \in Seq(Items) /\ Standard[Read(p).rest] \in Seq(Items)
<1>1. Read(p).copied \in Seq(Items) /\ Read(p).rest \in Places
  BY ReadIs, Places1 DEF Places
<1> QED BY <1>1, StandardIs, TokenAt DEF At

\* A token that is no dollar sign, or the last, stands for itself.
LEMMA PlainToken ==
  ASSUME TypeInv, NEW p \in DOMAIN template, template[p] # "$" \/ ~At(p + 1)
  PROVE  Standard[p] = <<Token(template[p])>> \o Standard[p + 1]
<1>1. Read(p) = [copied |-> <<Token(template[p])>>, rest |-> p + 1]
  <2>1. CASE template[p] # "$"
    BY <2>1 DEF Read
  <2>2. CASE template[p] = "$" /\ ~At(p + 1)
    <3>1. RunEnd(p + 1, WordTokens) \in p..Len(template) /\ p \in 1..Len(template) /\ p + 1 \notin 1..Len(template)
      <4>1. p + 1 \in Places
        BY TokenAt
      <4> QED BY <4>1, <2>2, RunEndIs, Places1 DEF At
    <3>2. ~Extract(p + 1).ok
      <4> DEFINE last == RunEnd(p + 1, WordTokens)
      <4>1. last < p + 1
        BY <3>1
      <4>2. last < p + 1 => Extract(p + 1) = [ok |-> FALSE]
        BY <2>2 DEF Extract
      <4> QED BY <4>1, <4>2
    <3> QED BY <2>2, <3>2 DEF Read
  <2> QED BY <2>1, <2>2
<1>2. Read(p).copied = <<Token(template[p])>> /\ Read(p).rest = p + 1
  BY <1>1
<1> QED BY <1>2, StandardAt

\* A dollar sign with no name behind it stands for itself.
LEMMA BareDollar ==
  ASSUME TypeInv, NEW p \in DOMAIN template, template[p] = "$", At(p + 1), template[p + 1] # "$", ~Extract(p + 1).ok
  PROVE  Standard[p] = <<Token("$")>> \o Standard[p + 1]
<1>1. Read(p) = [copied |-> <<Token("$")>>, rest |-> p + 1]
  BY DEF Read
<1>2. Read(p).copied = <<Token("$")>> /\ Read(p).rest = p + 1
  BY <1>1
<1> QED BY <1>2, StandardAt

\* The first token of a run that is empty.
LEMMA EmptyRun ==
  ASSUME TypeInv, NEW p \in DOMAIN template, NEW kind, template[p] \notin kind
  PROVE  RunEnd(p, kind) = p - 1
<1>1. p \in Places /\ p \in 1..Len(template) /\ Len(template) \in Nat
  BY TokenAt, Places1
<1>2. p - 1 \in (p - 1)..Len(template) /\ \A r \in p..(p - 1) : template[r] \in kind
  BY <1>1
<1>3. (p - 1) + 1 = p
  BY <1>1
<1> QED BY <1>1, <1>2, <1>3, RunEndAt

LEMMA KindsApart ==
  /\ "$" \notin WordTokens /\ "{" \notin WordTokens /\ "}" \notin WordTokens
  /\ \A t \in Others \cup {"}"} : t \notin WordTokens /\ t # "$" /\ t # "{"
BY ExpandAssumption

LEMMA ByteKeeps == ASSUME IInv, Byte PROVE IInv'
<1> DEFINE x == <<Token(template[i])>>
<1>0. TypeInv /\ pc = "loop" /\ i \in DOMAIN template /\ Kept /\ i' = i + 1 /\ pc' = pc
  BY DEF IInv, Byte, Copy, At
<1>1. template[i] \in Tokens /\ i + 1 \in Places /\ x \in Seq(Items)
  BY <1>0, TokenAt, OneToken
<1>2. dst' = dst \o x
  BY <1>1, OneCopied DEF Byte, Copy
<1>3. Standard[i] = x \o Standard[i + 1]
  <2>1. template[i] # "$" \/ ~At(i + 1)
    BY DEF Byte, Dollar
  <2> QED BY <1>0, <2>1, PlainToken
<1> HIDE DEF x
<1> QED BY <1>0, <1>1, <1>2, <1>3, StepKeeps

LEMMA DollarIs ==
  ASSUME TypeInv, Dollar
  PROVE  /\ pc = "loop" /\ i \in DOMAIN template /\ i + 1 \in DOMAIN template
         /\ template[i] = "$" /\ template[i + 1] \in Tokens
         /\ i + 1 \in Places /\ i + 2 \in Places
<1>1. i \in DOMAIN template /\ i + 1 \in DOMAIN template /\ (i + 1) + 1 = i + 2
  BY Places1 DEF Dollar, At
<1> QED BY <1>1, TokenAt DEF Dollar

LEMMA DollarDollarKeeps == ASSUME IInv, DollarDollar PROVE IInv'
<1> DEFINE x == <<Token("$")>>
<1>0. TypeInv /\ Dollar /\ Kept /\ i' = i + 2 /\ pc' = pc /\ template[i + 1] = "$"
  BY DEF IInv, DollarDollar, Copy
<1>1. i + 2 \in Places /\ x \in Seq(Items) /\ i \in DOMAIN template /\ pc = "loop" /\ template[i] = "$"
  BY <1>0, DollarIs, OneToken, DollarIsToken
<1>2. dst' = dst \o x
  BY DollarIsToken, OneCopied DEF DollarDollar, Copy
<1>3. Standard[i] = x \o Standard[i + 2]
  <2>1. Read(i) = [copied |-> x, rest |-> i + 2]
    BY <1>0, <1>1 DEF Read, Dollar
  <2>2. Read(i).copied = x /\ Read(i).rest = i + 2
    BY <2>1
  <2> QED BY <1>0, <1>1, <2>2, StandardAt
<1> HIDE DEF x
<1> QED BY <1>0, <1>1, <1>2, <1>3, StepKeeps

\* A dollar sign that names nothing, and the token behind it.
LEMMA NothingNamed ==
  ASSUME IInv, Dollar, Kept, Copy(<<"$", template[i + 1]>>, i + 2), template[i + 1] # "$", ~Extract(i + 1).ok
  PROVE  IInv'
<1> DEFINE a == <<Token("$")>>
           b == <<Token(template[i + 1])>>
<1>0. TypeInv /\ i' = i + 2 /\ pc' = pc
  BY DEF IInv, Copy
<1>1. /\ pc = "loop" /\ i \in DOMAIN template /\ i + 1 \in DOMAIN template
      /\ template[i] = "$" /\ template[i + 1] \in Tokens /\ i + 2 \in Places
  BY <1>0, DollarIs
<1>2. a \in Seq(Items) /\ b \in Seq(Items) /\ a \o b \in Seq(Items)
  BY <1>1, OneToken, DollarIsToken, ConcatProperties
<1>3. dst' = dst \o (a \o b)
  BY <1>1, DollarIsToken, TwoCopied DEF Copy
<1>4. Standard[i] = a \o Standard[i + 1]
  BY <1>0, <1>1, BareDollar DEF At
<1>5. Standard[i + 1] = b \o Standard[i + 2]
  <2>1. Standard[i + 1] = b \o Standard[(i + 1) + 1]
    BY <1>0, <1>1, PlainToken
  <2>2. (i + 1) + 1 = i + 2
    BY <1>1, Places1
  <2> QED BY <2>1, <2>2
<1>6. Standard[i] = (a \o b) \o Standard[i + 2]
  <2> DEFINE y == Standard[i + 2]
  <2>1. y \in Seq(Items)
    BY <1>0, <1>1, StandardIs
  <2> HIDE DEF a, b, y
  <2>2. a \in Seq(Items) /\ b \in Seq(Items)
    BY <1>2
  <2>3. (a \o b) \o y = a \o (b \o y)
    BY <2>1, <2>2, JoinAssociates
  <2> QED BY <1>4, <1>5, <2>3 DEF y
<1> DEFINE x == a \o b
<1>7. x \in Seq(Items) /\ dst' = dst \o x /\ Standard[i] = x \o Standard[i + 2]
  BY <1>2, <1>3, <1>6
<1> HIDE DEF x
<1> QED BY <1>0, <1>1, <1>7, StepKeeps

LEMMA DollarOtherKeeps == ASSUME IInv, DollarOther PROVE IInv'
<1>1. TypeInv /\ Dollar /\ Kept /\ Copy(<<"$", template[i + 1]>>, i + 2) /\ template[i + 1] \in Others \cup {"}"}
  BY DEF IInv, DollarOther
<1>2. i + 1 \in DOMAIN template /\ Len(template) \in Nat /\ DOMAIN template = 1..Len(template)
  BY <1>1, DollarIs, Places1
<1>3. template[i + 1] \notin WordTokens /\ template[i + 1] # "$" /\ template[i + 1] # "{"
  BY <1>1, KindsApart
<1>4. RunEnd(i + 1, WordTokens) = (i + 1) - 1
  BY <1>1, <1>2, <1>3, EmptyRun
<1>5. ~Extract(i + 1).ok
  <2>1. RunEnd(i + 1, WordTokens) < i + 1
    BY <1>2, <1>4
  <2>2. RunEnd(i + 1, WordTokens) < i + 1 => Extract(i + 1) = [ok |-> FALSE]
    BY <1>3 DEF Extract
  <2> QED BY <2>1, <2>2
<1> QED BY <1>1, <1>3, <1>5, NothingNamed

LEMMA NumIsInt == ASSUME NEW name \in Seq(Tokens) PROVE Num(name) \in Int
<1>1. CASE IsNumber(name)
  <2>1. Value(name) \in Nat
    <3>1. Len(name) \in Nat \ {0} /\ Values(name) \in [0..Len(name) -> Nat]
      BY <1>1, ValuesAre
    <3>2. Len(name) \in 0..Len(name)
      BY <3>1
    <3> QED BY <3>1, <3>2 DEF Value
  <2>2. Int64(Value(name)) \in Int
    <3> DEFINE v == Value(name)
    <3>1. v + IntLimit \in Int /\ 2 * IntLimit \in Nat \ {0} /\ IntLimit \in Int
      BY <2>1, Limits
    <3> HIDE DEF v
    <3>2. (v + IntLimit) % (2 * IntLimit) \in Int
      BY <3>1
    <3> QED BY <3>1, <3>2 DEF Int64, v
  <2> QED BY <1>1, <2>2 DEF Num
<1>2. CASE ~IsNumber(name)
  <2>1. Num(name) = SubexpIndex(name)
    BY <1>2 DEF Num
  <2>2. SubexpIndex(name) \in 1..Groups \/ SubexpIndex(name) = -1
    BY ExpandAssumption DEF SubexpIndex
  <2> QED BY <2>1, <2>2, Limits
<1> QED BY <1>1, <1>2

\* A name is replaced by the group the standard takes; where a read would lie
\* outside the match, the name is a number far beyond the standard's limit.
LEMMA ReferKeeps ==
  ASSUME IInv, Dollar, Kept, template[i + 1] # "$",
         NEW name \in Seq(Tokens), NEW q \in Places, Refer(name, q),
         name = NameAt(i), Unread(name) => Differs(i),
         Agreed => Extract(i + 1) = [ok |-> TRUE, name |-> name, rest |-> q]
  PROVE  IInv'
<1> DEFINE num == Num(name)
           x == IF InMatch(num) /\ num \notin unmatched THEN <<Group(num)>> ELSE <<>>
<1>0. TypeInv /\ pc = "loop" /\ i \in DOMAIN template /\ template[i] = "$"
  BY DollarIs DEF IInv
<1>1. CASE Panics(name)
  <2>1. pc' = "panic" /\ dst' = dst /\ i' = i
    BY <1>1 DEF Refer
  <2>2. Beyond(NameAt(i))
    BY <1>1, PanicMeans
  <2>3. TypeInv'
    BY <2>1, <1>0 DEF TypeInv, Places, Kept
  <2>4. PanicsBeyondLimit'
    BY <2>1, <2>2, <1>0, BeyondFrame DEF PanicsBeyondLimit, Kept
  <2> QED BY <2>1, <2>3, <2>4 DEF IInv, CopiedInv, DoneInv
<1>2. CASE ~Panics(name)
  <2>1. dst' = dst \o x /\ pc' = pc /\ i' = q
    BY <1>2 DEF Refer, Insert
  <2>2. x \in Seq(Items)
    <3>1. num \in Int
      BY NumIsInt
    <3>2. CASE InMatch(num) /\ num \notin unmatched
      <4>1. num \in 0..Groups
        <5>1. num >= 0 /\ ~(num > Groups)
          BY <3>2, <1>2 DEF Panics, InMatch
        <5> HIDE DEF num
        <5> QED BY <5>1, <3>1, Limits
      <4> HIDE DEF num
      <4> QED BY <4>1, <3>2, OneGroup
    <3>3. CASE ~(InMatch(num) /\ num \notin unmatched)
      BY <3>3, NoItem
    <3> QED BY <3>2, <3>3
  <2>3. ASSUME Agreed PROVE Standard[i] = x \o Standard[q]
    <3>1. ~Unread(name)
      BY <2>3, <1>0 DEF Agreed
    <3>2. num = StandardNum(name) /\ (InMatch(num) <=> num \in 0..Groups)
      BY <3>1, NamesAgree
    <3> DEFINE e == Extract(i + 1)
               g == StandardNum(e.name)
    <3>3. e.ok /\ e.name = name /\ e.rest = q
      BY <2>3
    <3>4. Read(i) = [copied |-> IF g \in (0..Groups) \ unmatched THEN <<Group(g)>> ELSE <<>>, rest |-> e.rest]
      BY <3>3, <1>0 DEF Read
    <3>5. g = num
      BY <3>2, <3>3
    <3> HIDE DEF e, g, num
    <3>6. Read(i).copied = x /\ Read(i).rest = q
      BY <3>2, <3>3, <3>4, <3>5
    <3> QED BY <3>6, <1>0, StandardAt
  <2> HIDE DEF x
  <2> QED BY <2>1, <2>2, <2>3, <1>0, StepKeeps
<1> QED BY <1>1, <1>2

LEMMA BareKeeps == ASSUME IInv, Bare PROVE IInv'
<1> DEFINE last == RunEnd(i + 1, WordTokens)
           name == SubSeq(template, i + 1, last)
<1>0. TypeInv /\ Dollar /\ Kept /\ template[i + 1] \in WordTokens /\ Refer(name, last + 1)
  BY DEF IInv, Bare
<1>1. /\ i + 1 \in Places /\ i \in 1..Len(template) /\ i + 1 \in 1..Len(template) /\ Len(template) \in Nat
      /\ DOMAIN template = 1..Len(template) /\ template[i] = "$"
  BY <1>0, DollarIs, Places1
<1>2. template[i + 1] # "$" /\ template[i + 1] # "{"
  BY <1>0, KindsApart
<1>3. /\ last \in ((i + 1) - 1)..Len(template)
      /\ At(last + 1) => template[last + 1] \notin WordTokens
  BY <1>0, <1>1, RunEndIs
<1>4. last >= i + 1 /\ last + 1 \in Places
  <2> HIDE DEF last
  <2>1. last # i
    BY <1>0, <1>1, <1>3 DEF At
  <2> QED BY <2>1, <1>1, <1>3 DEF Places
<1>5. name \in Seq(Tokens)
  <2> HIDE DEF last
  <2> QED BY <1>0, <1>1, <1>3, NameIs
<1>6. Extract(i + 1) = [ok |-> TRUE, name |-> name, rest |-> last + 1]
  <2>1. ~(last < i + 1)
    BY <1>1, <1>3, <1>4
  <2> QED BY <1>2, <2>1 DEF Extract
<1>7. name = NameAt(i) /\ (Unread(name) => Differs(i))
  BY <1>1, <1>2 DEF Unread, Differs, NameAt
<1> HIDE DEF last, name
<1> QED BY <1>0, <1>2, <1>4, <1>5, <1>6, <1>7, ReferKeeps

LEMMA BracedKeeps == ASSUME IInv, Braced PROVE IInv'
<1> DEFINE last == RunEnd(i + 2, Unclosed)
           name == SubSeq(template, i + 2, last)
           word == RunEnd(i + 2, WordTokens)
<1>0. TypeInv /\ Dollar /\ Kept /\ template[i + 1] = "{" /\ template[i + 1] # "$"
  BY DEF IInv, Braced
<1>1. /\ i + 2 \in Places /\ i \in 1..Len(template) /\ i + 1 \in 1..Len(template) /\ Len(template) \in Nat
      /\ DOMAIN template = 1..Len(template) /\ template[i] = "$" /\ At(i + 1) /\ (i + 1) + 1 = i + 2
  <2>1. /\ i + 2 \in Places /\ i \in DOMAIN template /\ i + 1 \in DOMAIN template /\ template[i] = "$"
    BY <1>0, DollarIs
  <2>2. Len(template) \in Nat /\ DOMAIN template = 1..Len(template)
    BY <1>0, Places1
  <2>3. (i + 1) + 1 = i + 2
    BY <2>1, <2>2
  <2> QED BY <2>1, <2>2, <2>3 DEF At
<1>2. /\ last \in ((i + 2) - 1)..Len(template) /\ \A r \in (i + 2)..last : template[r] \in Unclosed
      /\ At(last + 1) => template[last + 1] \notin Unclosed
  BY <1>0, <1>1, RunEndIs
<1>3. /\ word \in ((i + 2) - 1)..Len(template)
  BY <1>0, <1>1, RunEndIs
<1>4. CASE At(last + 1)
  <2>0. Refer(name, last + 2) /\ last + 2 \in Places /\ template[last + 1] = "}"
    <3>1. Refer(name, Resume(last + 1))
      BY <1>4 DEF Braced
    <3>2. last + 1 \in 1..Len(template)
      BY <1>4, <1>1 DEF At
    <3>3. template[last + 1] \in Tokens
      BY <1>0, <3>2, <1>1, TokenAt
    <3> HIDE DEF last, name
    <3>4. Resume(last + 1) = last + 2
      BY <1>1, <1>2 DEF Resume
    <3>5. last + 2 \in Places
      BY <3>2, <1>1, <1>2 DEF Places
    <3>6. template[last + 1] = "}"
      BY <3>3, <1>2, <1>4 DEF Unclosed
    <3> QED BY <3>1, <3>4, <3>5, <3>6
  <2>1. /\ name \in Seq(Tokens) /\ (name = <<>> <=> last < i + 2)
        /\ Range(name) \subseteq WordTokens <=> \A r \in (i + 2)..last : template[r] \in WordTokens
    <3> HIDE DEF last
    <3> QED BY <1>0, <1>1, <1>2, NameIs
  <2>2. name = NameAt(i) /\ (Unread(name) => Differs(i))
    BY <1>0, <1>1, <1>4 DEF Unread, Differs, NameAt
  <2>3. ASSUME Agreed PROVE Extract(i + 1) = [ok |-> TRUE, name |-> name, rest |-> last + 2]
    <3>1. ~Differs(i)
      BY <2>3, <1>1 DEF Agreed
    <3>2. name # <<>> /\ Range(name) \subseteq WordTokens
      BY <3>1, <1>0, <1>1, <1>4 DEF Differs, NameAt
    <3>3. ~(last < i + 2) /\ \A r \in (i + 2)..last : template[r] \in WordTokens
      BY <3>2, <2>1
    <3>4. word = last
      <4> HIDE DEF last, name
      <4> QED BY <3>3, <1>0, <1>1, <1>2, <2>0, KindsApart, RunEndAt
    <3>5. Extract(i + 1) = [ok |-> TRUE, name |-> SubSeq(template, i + 2, word), rest |-> word + 2]
      BY <1>0, <1>1, <1>4, <2>0, <3>3, <3>4 DEF Extract
    <3> QED BY <3>4, <3>5
  <2> HIDE DEF last, name
  <2> QED BY <1>0, <2>0, <2>1, <2>2, <2>3, ReferKeeps
<1>5. CASE ~At(last + 1)
  <2>1. Copy(<<"$", template[i + 1]>>, i + 2)
    BY <1>0, <1>5 DEF Braced
  <2>2. ASSUME At(word + 1) PROVE template[word + 1] # "}"
    <3> HIDE DEF last, word
    <3>1. word + 1 \in (i + 2)..last
      BY <2>2, <1>1, <1>2, <1>3, <1>5 DEF At
    <3> QED BY <3>1, <1>2 DEF Unclosed
  <2>3. ~Extract(i + 1).ok
    <3>1. Extract(i + 1) = [ok |-> FALSE]
      BY <1>0, <1>1, <2>2 DEF Extract
    <3> QED BY <3>1
  <2> QED BY <1>0, <2>1, <2>3, NothingNamed
<1> QED BY <1>4, <1>5

LEMMA EndKeeps == ASSUME IInv, End PROVE IInv'
<1>1. TypeInv'
  BY DEF IInv, TypeInv, Places, End
<1>2. CopiedInv'
  BY AgreedFrame, StandardFrame DEF IInv, CopiedInv, End
<1> QED BY <1>1, <1>2 DEF IInv, DoneInv, PanicsBeyondLimit, End, At

LEMMA InitKeeps == ASSUME Init PROVE IInv
<1>1. template \in Seq(Tokens)
  BY DEF Init
<1>2. TypeInv
  <2>1. 1 \in Places
    BY <1>1, LenProperties DEF Places
  <2> QED BY <1>1, <2>1, NoItem DEF Init, TypeInv
<1>3. Standard[1] \in Seq(Items)
  BY <1>2, StandardIs DEF TypeInv, Init
<1>4. dst \o Standard[i] = Standard[1]
  <2>1. <<>> \o Standard[1] = Standard[1]
    BY <1>3, ConcatEmptySeq
  <2> QED BY <2>1 DEF Init
<1> QED BY <1>2, <1>4 DEF Init, IInv, CopiedInv, DoneInv, PanicsBeyondLimit

LEMMA StutterKeeps == ASSUME IInv, UNCHANGED vars PROVE IInv'
<1>1. TypeInv' /\ DoneInv'
  BY DEF vars, IInv, TypeInv, DoneInv, Places, At
<1>2. CopiedInv'
  BY AgreedFrame, StandardFrame DEF vars, IInv, CopiedInv
<1>3. PanicsBeyondLimit'
  <2>1. template' = template /\ i' = i /\ pc' = pc
    BY DEF vars
  <2>2. Beyond(NameAt(i))' = Beyond(NameAt(i))
    BY <2>1, BeyondFrame
  <2> QED BY <2>1, <2>2 DEF IInv, PanicsBeyondLimit
<1> QED BY <1>1, <1>2, <1>3 DEF IInv

\* The loop keeps what it promises at each place of the template.
THEOREM ExpandInductive == Spec => []IInv
<1>1. ASSUME IInv, [Next]_vars PROVE IInv'
  <2>1. CASE Byte
    BY <1>1, <2>1, ByteKeeps
  <2>2. CASE DollarDollar
    BY <1>1, <2>2, DollarDollarKeeps
  <2>3. CASE DollarOther
    BY <1>1, <2>3, DollarOtherKeeps
  <2>4. CASE Braced
    BY <1>1, <2>4, BracedKeeps
  <2>5. CASE Bare
    BY <1>1, <2>5, BareKeeps
  <2>6. CASE End
    BY <1>1, <2>6, EndKeeps
  <2>7. CASE UNCHANGED vars
    BY <1>1, <2>7, StutterKeeps
  <2> QED BY <1>1, <2>1, <2>2, <2>3, <2>4, <2>5, <2>6, <2>7 DEF Next
<1> QED BY <1>1, InitKeeps, PTL DEF Spec

\* Expand makes of a template what the standard package makes of it, but for
\* braces around what is no word, leading zeros and numbers too large.
THEOREM ExpandsAsStandard == Spec => []AsStandard
<1>1. ASSUME IInv PROVE AsStandard
  <2> SUFFICES ASSUME pc = "done", Agreed PROVE dst = Standard[1]
    BY DEF AsStandard, Agreed
  <2>1. TypeInv /\ ~At(i) /\ dst \in Seq(Items) /\ i \in Places
    BY <1>1 DEF IInv, DoneInv, TypeInv
  <2>2. Standard[i] = <<>>
    BY <2>1, StandardIs
  <2>3. dst \o <<>> = dst
    BY <2>1, ConcatEmptySeq
  <2> QED BY <1>1, <2>2, <2>3 DEF IInv, CopiedInv
<1> QED BY <1>1, ExpandInductive, PTL

\* With any groups, names and limits, Expand reads outside the match only at a
\* dollar whose number is beyond the standard's limit and so large that its index
\* wraps: what fails is the test of num*2+1, for no other spelling.
THEOREM PanicsExplained == Spec => []PanicsBeyondLimit
<1>1. IInv => PanicsBeyondLimit
  BY DEF IInv
<1> QED BY <1>1, ExpandInductive, PTL

=============================================================================
