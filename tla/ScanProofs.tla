------------------------------ MODULE ScanProofs -----------------------------
(***************************************************************************)
(* Theorems about module Scan: over every well formed table, and for every *)
(* text, a call answers what reading byte by byte leads to, and the passes *)
(* of a submatch call walk over one and the same match.                    *)
(***************************************************************************)
EXTENDS Scan, InductionFacts, SequenceTheorems

(***************************************************************************)
(* What a search computes over a well formed table, for every table and    *)
(* every input: the byte-by-byte run of pass 1 that module Scan defines,   *)
(* the blocks the real pass skips, and the starts of pass 0.               *)
(***************************************************************************)
Bests(x)      == [end : -1..N(x), prio : Nat]
Configs(d, x) == [state : States(d) \cup {NoState}, prio : Nat, best : Bests(x), over : BOOLEAN]

\* The bytes of an input.
LEMMA InputTypes ==
  ASSUME NEW x, InputOK(x)
  PROVE  /\ N(x) \in Nat /\ x.absPos \in Nat
         /\ \A p \in 0..(N(x) - 1) : Byte(x, p) \in Bytes
BY DEF InputOK, N, Byte

LEMMA InfinityIsPositive == Infinity \in Nat /\ Infinity # 0
BY SMT DEF Infinity

\* What a table says of its states and of a transition.
LEMMA StateTypes ==
  ASSUME NEW d, WellFormed(d), NEW s \in States(d)
  PROVE  /\ s \in Nat \ {NoState} /\ IsAccepting(d, s) \in BOOLEAN /\ IsBestMatch(d, s) \in BOOLEAN
         /\ MatchP(d, s) \in Nat /\ (IsBestMatch(d, s) => MatchP(d, s) = 0 /\ IsAccepting(d, s))
         /\ WarpBytes(d, s) \subseteq Bytes
BY InfinityIsPositive DEF WellFormed, StatesOK

LEMMA TransitionTypes ==
  ASSUME NEW d, WellFormed(d), NEW s \in States(d), NEW b \in Bytes,
         Valid(Transition(d, s, b))
  PROVE  LET raw == Transition(d, s, b)
         IN  /\ raw.to \in States(d) /\ raw.ccwarp \in BOOLEAN /\ raw.warp \in BOOLEAN
             /\ raw.accept = IsAccepting(d, raw.to) /\ raw.delta \in Nat
             /\ (raw.warp => GetTrailingByteCount(b) = 0)
             /\ (raw.ccwarp => raw.to = s)
<1>1. Transition(d, s, b).to \in States(d) \cup {NoState} /\ Transition(d, s, b).ccwarp \in BOOLEAN
  BY DEF WellFormed, TransitionsOK
<1>2. Transition(d, s, b).to \in States(d)
  BY <1>1 DEF Valid
<1>3. /\ Transition(d, s, b).accept = IsAccepting(d, Transition(d, s, b).to)
      /\ Transition(d, s, b).warp \in BOOLEAN /\ Transition(d, s, b).delta \in Nat
  BY DEF WellFormed, TransitionsOK
<1>4. Transition(d, s, b).warp => GetTrailingByteCount(b) = 0
  BY DEF WellFormed, NoTrailingWarp
<1>5. Transition(d, s, b).ccwarp => Transition(d, s, b).to = s
  BY DEF WellFormed, FlagsAreLoops
<1> QED BY <1>1, <1>2, <1>3, <1>4, <1>5

LEMMA StartTypes ==
  ASSUME NEW d, WellFormed(d)
  PROVE  /\ 1 \in States(d) /\ MatchState(d).to = 1 /\ MatchState(d).ccwarp = FALSE
         /\ MatchState(d).accept = IsAccepting(d, 1) /\ d.groups \in Nat
BY DEF WellFormed, StatesOK, MatchState

\* --- the best end --------------------------------------------------------
LEMMA BetterTypes ==
  ASSUME NEW d, NEW x, WellFormed(d), InputOK(x), NEW b \in Bests(x), NEW p \in 0..N(x),
         NEW s, s.to \in States(d), NEW pr \in Nat
  PROVE  /\ Better(d, x, b, p, s, pr) \in Bests(x)
         /\ Better(d, x, b, p, s, pr) = b
              \/ (s.accept /\ Better(d, x, b, p, s, pr).end = p)
<1>1. MatchP(d, s.to) \in Nat
  BY StateTypes
<1> DEFINE m == MatchP(d, s.to)
<1> HIDE DEF m
<1>2. [end |-> p, prio |-> 0] \in Bests(x) /\ [end |-> p, prio |-> pr + m] \in Bests(x)
  BY <1>1 DEF Bests, m
<1> QED BY <1>2 DEF Better, m

LEMMA NoneTypes ==
  ASSUME NEW x, InputOK(x) PROVE None \in Bests(x) /\ None.end = -1 /\ None.prio # 0
BY InputTypes, InfinityIsPositive DEF None, Bests

\* --- the run -------------------------------------------------------------
LEMMA FirstConfigTypes ==
  ASSUME NEW d, NEW x, WellFormed(d), InputOK(x), NEW s \in 0..N(x)
  PROVE  FirstConfig(d, x, s) \in Configs(d, x)
<1>1. Better(d, x, None, s, MatchState(d), 0) \in Bests(x)
  BY BetterTypes, NoneTypes, StartTypes
<1> QED BY <1>1, StartTypes DEF FirstConfig, Configs

LEMMA NextConfigTypes ==
  ASSUME NEW d, NEW x, WellFormed(d), InputOK(x), NEW c \in Configs(d, x), NEW q \in 1..N(x)
  PROVE  NextConfig(d, x, c, q) \in Configs(d, x)
<1> DEFINE raw == Transition(d, c.state, Byte(x, q - 1))
           pr  == c.prio + raw.delta
           b   == IF c.over THEN c.best ELSE Better(d, x, c.best, q, raw, pr)
<1>1. CASE c.state = NoState \/ ~CanStep(x, raw, q - 1)
  <2>1. NextConfig(d, x, c, q) = [c EXCEPT !.state = NoState]
    BY <1>1 DEF NextConfig
  <2> QED BY <2>1 DEF Configs
<1>2. CASE c.state # NoState /\ CanStep(x, raw, q - 1)
  <2>1. c.state \in States(d) /\ c.best \in Bests(x) /\ c.prio \in Nat /\ c.over \in BOOLEAN
    BY <1>2 DEF Configs
  <2>2. Byte(x, q - 1) \in Bytes /\ q \in 0..N(x)
    BY InputTypes
  <2>3. raw.to \in States(d) /\ raw.delta \in Nat /\ raw.accept \in BOOLEAN
    BY <1>2, <2>1, <2>2, TransitionTypes, StateTypes DEF CanStep
  <2>4. pr \in Nat
    BY <2>1, <2>3
  <2>5. b \in Bests(x)
    BY <2>1, <2>2, <2>3, <2>4, BetterTypes
  <2>6. Stops(d, raw, b) \in BOOLEAN
    BY <2>3, StateTypes DEF Stops
  <2>7. NextConfig(d, x, c, q) = [state |-> raw.to, prio |-> pr, best |-> b, over |-> c.over \/ Stops(d, raw, b)]
    BY <1>2 DEF NextConfig
  <2> HIDE DEF raw, pr, b
  <2> QED BY <2>1, <2>3, <2>4, <2>5, <2>6, <2>7 DEF Configs
<1> QED BY <1>1, <1>2

\* The recursive definition of the run defines it.
LEMMA RunExists ==
  ASSUME NEW d, NEW x, WellFormed(d), InputOK(x), NEW s \in 0..N(x)
  PROVE  Bytewise(d, x, s) = [q \in s..N(x) |-> IF q = s THEN FirstConfig(d, x, s)
                                ELSE NextConfig(d, x, Bytewise(d, x, s)[q - 1], q)]
<1> DEFINE C == Configs(d, x)
           F == [e \in C \X Int |-> IF e[2] \in 1..N(x) THEN NextConfig(d, x, e[1], e[2]) ELSE e[1]]
<1>1. F \in [C \X Int -> C]
  <2>1. ASSUME NEW e \in C \X Int
        PROVE (IF e[2] \in 1..N(x) THEN NextConfig(d, x, e[1], e[2]) ELSE e[1]) \in C
    <3>1. e[1] \in C /\ e[2] \in Int
      BY <2>1
    <3> QED BY <3>1, NextConfigTypes
  <2> HIDE DEF C
  <2> QED BY <2>1
<1>2. FirstConfig(d, x, s) \in C /\ s \in Int /\ N(x) \in Int
  BY FirstConfigTypes, InputTypes
<1>3. PICK f \in [s..N(x) -> C] : Recursive(f, FirstConfig(d, x, s), s, N(x), F)
  <2> HIDE DEF C, F
  <2> QED BY <1>1, <1>2, IntervalRecursion
<1>4. ASSUME NEW q \in s..N(x), q # s
      PROVE  F[<<f[q - 1], q>>] = NextConfig(d, x, f[q - 1], q)
  <2>1. q - 1 \in s..N(x) /\ q \in 1..N(x)
    BY <1>2, <1>4
  <2>2. f[q - 1] \in C
    BY <2>1
  <2>3. <<f[q - 1], q>> \in C \X Int
    BY <2>1, <2>2
  <2> HIDE DEF C
  <2> QED BY <2>1, <2>3
<1> HIDE DEF C, F
<1>5. f = [q \in s..N(x) |-> IF q = s THEN FirstConfig(d, x, s) ELSE NextConfig(d, x, f[q - 1], q)]
  BY <1>3, <1>4 DEF Recursive
<1>6. \E g : g = [q \in s..N(x) |-> IF q = s THEN FirstConfig(d, x, s) ELSE NextConfig(d, x, g[q - 1], q)]
  BY <1>5
<1> QED BY <1>6 DEF Bytewise

LEMMA RunTypes ==
  ASSUME NEW d, NEW x, WellFormed(d), InputOK(x), NEW s \in 0..N(x)
  PROVE  /\ Bytewise(d, x, s)[s] = FirstConfig(d, x, s)
         /\ \A q \in (s + 1)..N(x) :
              Bytewise(d, x, s)[q] = NextConfig(d, x, Bytewise(d, x, s)[q - 1], q)
         /\ \A q \in s..N(x) : Bytewise(d, x, s)[q] \in Configs(d, x)
<1> DEFINE run == Bytewise(d, x, s)
<1>0. N(x) \in Nat
  BY InputTypes
<1>1. run = [q \in s..N(x) |-> IF q = s THEN FirstConfig(d, x, s) ELSE NextConfig(d, x, run[q - 1], q)]
  BY RunExists
<1> HIDE DEF run
<1>2. run[s] = FirstConfig(d, x, s)
  BY <1>0, <1>1
<1>3. ASSUME NEW q \in (s + 1)..N(x) PROVE run[q] = NextConfig(d, x, run[q - 1], q)
  BY <1>0, <1>1
<1> DEFINE T == {q \in s..N(x) : run[q] \in Configs(d, x)}
<1>4. s..N(x) \subseteq T
  <2>1. s \in T
    BY <1>0, <1>2, FirstConfigTypes
  <2>2. ASSUME NEW q \in s..(N(x) - 1), q \in T PROVE q + 1 \in T
    <3>1. q + 1 \in (s + 1)..N(x) /\ q + 1 \in 1..N(x) /\ (q + 1) - 1 = q /\ q + 1 \in s..N(x)
      BY <1>0
    <3>2. run[q + 1] = NextConfig(d, x, run[q], q + 1)
      BY <3>1, <1>3
    <3> QED BY <2>2, <3>1, <3>2, NextConfigTypes
  <2>3. Inductive(T, s, N(x))
    <3> HIDE DEF T
    <3> QED BY <2>1, <2>2 DEF Inductive
  <2> HIDE DEF T
  <2> QED BY <1>0, <2>3, IntervalInduction
<1> QED BY <1>2, <1>3, <1>4 DEF run

\* Where the run is dead or over, the best end stays what it is.
LEMMA EndIsKept ==
  ASSUME NEW d, NEW x, WellFormed(d), InputOK(x), NEW s \in 0..N(x), NEW p \in s..N(x),
         \/ Bytewise(d, x, s)[p].state = NoState
         \/ Bytewise(d, x, s)[p].over
  PROVE  EndOf(d, x, s) = Bytewise(d, x, s)[p].best.end
<1> DEFINE run == Bytewise(d, x, s)
           T == {q \in p..N(x) : /\ run[q].state = NoState \/ run[q].over
                                 /\ run[q].best = run[p].best}
<1>0. N(x) \in Nat
  BY InputTypes
<1>1. p \in T
  BY <1>0
<1>2. ASSUME NEW q \in p..(N(x) - 1), q \in T PROVE q + 1 \in T
  <2>1. q + 1 \in (s + 1)..N(x) /\ (q + 1) - 1 = q /\ q \in s..N(x) /\ q + 1 \in p..N(x)
    BY <1>0
  <2>2. run[q + 1] = NextConfig(d, x, run[q], q + 1) /\ run[q] \in Configs(d, x)
    BY <2>1, RunTypes
  <2> HIDE DEF run
  <2>3. run[q + 1].best = run[q].best /\ (run[q + 1].state = NoState \/ run[q + 1].over)
    BY <1>2, <2>1, <2>2 DEF NextConfig, Configs
  <2> QED BY <1>2, <2>1, <2>3
<1>3. Inductive(T, p, N(x))
  <2> HIDE DEF T
  <2> QED BY <1>1, <1>2 DEF Inductive
<1>4. p..N(x) \subseteq T
  <2> HIDE DEF T
  <2> QED BY <1>0, <1>3, IntervalInduction
<1>5. N(x) \in T
  BY <1>0, <1>4
<1> QED BY <1>5 DEF EndOf

\* A dead run stays dead.
LEMMA DeadStaysDead ==
  ASSUME NEW d, NEW x, WellFormed(d), InputOK(x), NEW s \in 0..N(x),
         NEW p \in s..N(x), NEW q \in p..N(x), Bytewise(d, x, s)[q].state # NoState
  PROVE  Bytewise(d, x, s)[p].state # NoState
<1> SUFFICES ASSUME Bytewise(d, x, s)[p].state = NoState PROVE FALSE
  OBVIOUS
<1> DEFINE run == Bytewise(d, x, s)
           T == {r \in p..N(x) : run[r].state = NoState}
<1>0. N(x) \in Nat
  BY InputTypes
<1>1. p \in T
  BY <1>0
<1>2. ASSUME NEW r \in p..(N(x) - 1), r \in T PROVE r + 1 \in T
  <2>1. r + 1 \in (s + 1)..N(x) /\ (r + 1) - 1 = r /\ r \in s..N(x) /\ r + 1 \in p..N(x)
    BY <1>0
  <2>2. run[r + 1] = NextConfig(d, x, run[r], r + 1) /\ run[r] \in Configs(d, x)
    BY <2>1, RunTypes
  <2> HIDE DEF run
  <2>3. run[r + 1].state = NoState
    BY <1>2, <2>1, <2>2 DEF NextConfig, Configs
  <2> QED BY <1>2, <2>1, <2>3
<1>3. Inductive(T, p, N(x))
  <2> HIDE DEF T
  <2> QED BY <1>1, <1>2 DEF Inductive
<1>4. p..N(x) \subseteq T
  <2> HIDE DEF T
  <2> QED BY <1>0, <1>3, IntervalInduction
<1> QED BY <1>0, <1>4

\* --- one byte ------------------------------------------------------------
\* The configuration after c on raw transition raw, at position q.
Taken(d, x, c, raw, q) ==
  LET b == IF c.over THEN c.best ELSE Better(d, x, c.best, q, raw, c.prio + raw.delta)
  IN  [state |-> raw.to, prio |-> c.prio + raw.delta, best |-> b, over |-> c.over \/ Stops(d, raw, b)]

\* A state of the run takes the transition on the byte at p, or is dead after it.
LEMMA OneByte ==
  ASSUME NEW d, NEW x, WellFormed(d), InputOK(x), NEW s \in 0..N(x), NEW p \in s..(N(x) - 1),
         Bytewise(d, x, s)[p].state \in States(d)
  PROVE  LET c   == Bytewise(d, x, s)[p]
             raw == Transition(d, c.state, Byte(x, p))
             new == Bytewise(d, x, s)[p + 1]
         IN  /\ CanStep(x, raw, p) => new = Taken(d, x, c, raw, p + 1)
             /\ ~CanStep(x, raw, p) => new.state = NoState /\ new.best = c.best
<1>0. N(x) \in Nat
  BY InputTypes
<1>1. p + 1 \in (s + 1)..N(x) /\ (p + 1) - 1 = p /\ p \in s..N(x)
  BY <1>0
<1>2. Bytewise(d, x, s)[p + 1] = NextConfig(d, x, Bytewise(d, x, s)[p], p + 1)
        /\ Bytewise(d, x, s)[p] \in Configs(d, x)
  BY <1>1, RunTypes
<1>3. Bytewise(d, x, s)[p].state # NoState
  BY StateTypes
<1> QED BY <1>1, <1>2, <1>3 DEF NextConfig, Configs, Taken

\* --- blocks --------------------------------------------------------------
\* A skip ends at the first byte the state does not skip, or at the limit.
LEMMA WarpEnds ==
  ASSUME NEW d, NEW x, NEW s, NEW p \in Int, NEW limit \in Int, p <= limit
  PROVE  /\ WarpTo(d, x, s, p, limit) \in p..limit
         /\ \A q \in p..(WarpTo(d, x, s, p, limit) - 1) : Byte(x, q) \in WarpBytes(d, s)
         /\ \/ WarpTo(d, x, s, p, limit) = limit
            \/ Byte(x, WarpTo(d, x, s, p, limit)) \notin WarpBytes(d, s)
<1> DEFINE stop == {q \in p..limit : q = limit \/ Byte(x, q) \notin WarpBytes(d, s)}
           T == {n \in Nat : p + n \in stop}
<1>1. T # {} /\ T \in SUBSET Nat
  <2>1. limit - p \in T
    OBVIOUS
  <2> QED BY <2>1
<1>2. PICK n \in T : \A m \in T : n <= m
  <2> HIDE DEF T
  <2> QED BY <1>1, LeastElement
<1>3. p + n \in stop /\ \A r \in stop : p + n <= r
  <2>1. ASSUME NEW r \in stop PROVE p + n <= r
    <3>1. r - p \in T
      OBVIOUS
    <3> QED BY <3>1, <1>2
  <2> QED BY <2>1, <1>2
<1> DEFINE j == WarpTo(d, x, s, p, limit)
<1>4. j \in stop /\ \A r \in stop : j <= r
  <2>1. \E q \in stop : \A r \in stop : q <= r
    BY <1>3
  <2> HIDE DEF stop
  <2>2. (CHOOSE q \in stop : \A r \in stop : q <= r) \in stop /\ \A r \in stop : (CHOOSE q \in stop : \A t \in stop : q <= t) <= r
    BY <2>1
  <2>3. j = CHOOSE q \in stop : \A r \in stop : q <= r
    BY DEF WarpTo, stop
  <2> QED BY <2>2, <2>3
<1> HIDE DEF j
<1>5. ASSUME NEW q \in p..(j - 1) PROVE Byte(x, q) \in WarpBytes(d, s)
  <2>1. q \in p..limit /\ q # limit /\ q \notin stop
    BY <1>4
  <2> QED BY <2>1
<1> QED BY <1>4, <1>5 DEF j

\* The next m bytes of the input continue a rune.
Ahead(x, q, m) == \A k \in 0..(m - 1) : q + k < N(x) /\ Byte(x, q + k) \in Cont

\* In state u at q, the run is m bytes before the end of a rune of a block of t.
Midway(d, x, t, q, u, m) ==
  u \in Inside(d, t, m) /\ Ahead(x, q, m) /\ (m > 0 => Cont \subseteq WarpBytes(d, t))

LEMMA InsideTypes ==
  ASSUME NEW d, NEW s, NEW n \in 1..3, NEW t \in Inside(d, s, n)
  PROVE  /\ t \in States(d) /\ ~IsAccepting(d, t)
         /\ \A c \in Cont : /\ Transition(d, t, c).to \in Inside(d, s, n - 1)
                            /\ Quiet(Transition(d, t, c))
<1>1. Inside(d, s, n) = Before(d, Inside(d, s, n - 1))
  BY DEF Inside
<1> QED BY <1>1 DEF Before

\* A lead byte of a valid text has its continuation bytes.
LEMMA LeadAhead ==
  ASSUME NEW x, InputOK(x), NEW q \in 0..(N(x) - 1)
  PROVE  /\ GetTrailingByteCount(Byte(x, q)) \in 0..3
         /\ GetTrailingByteCount(Byte(x, q)) # 0 => Byte(x, q) \in Lead
         /\ Ahead(x, q + 1, GetTrailingByteCount(Byte(x, q)))
<1> DEFINE b == Byte(x, q)
           n == GetTrailingByteCount(b)
           p == x.absPos + q + 1
<1>1. p \in 1..Len(x.text) /\ p \in DOMAIN x.text /\ b = x.text[p] /\ Len(x.text) \in Nat
  BY DEF InputOK, N, Byte
<1>2. CASE b \notin Lead
  <2>1. n = 0
    BY <1>2 DEF GetTrailingByteCount
  <2> QED BY <2>1 DEF Ahead
<1>3. CASE b \in Lead
  <2>1. n = LeadLen[b] /\ n \in 1..3
    BY <1>3, TextAssumption DEF GetTrailingByteCount
  <2>2. p + n <= Len(x.text) /\ \A r \in 1..n : x.text[p + r] \in Cont
    BY <1>1, <1>3, <2>1 DEF InputOK, ValidUTF8
  <2> HIDE DEF n, b
  <2>3. ASSUME NEW k \in 0..(n - 1) PROVE (q + 1) + k < N(x) /\ Byte(x, (q + 1) + k) \in Cont
    <3>1. k + 1 \in 1..n /\ x.absPos \in Nat /\ q \in Nat
      BY <2>1, InputTypes
    <3>2. x.absPos + ((q + 1) + k) + 1 = p + (k + 1)
      BY <2>1, <3>1
    <3>3. p + (k + 1) <= Len(x.text)
      <4>1. p \in Nat /\ Len(x.text) \in Nat /\ p + n <= Len(x.text)
        BY <1>1, <2>2
      <4>2. k + 1 <= n /\ n \in Nat /\ k \in Nat
        BY <2>1
      <4> HIDE DEF p
      <4> QED BY <4>1, <4>2
    <3>4. (q + 1) + k < Len(x.text) - x.absPos
      <4> HIDE DEF p
      <4> DEFINE L == Len(x.text)
                 a == x.absPos
      <4>1. a + ((q + 1) + k) + 1 <= L /\ L \in Nat /\ a \in Nat /\ k \in Nat
        BY <1>1, <2>1, <3>1, <3>2, <3>3
      <4> HIDE DEF L, a
      <4>2. (q + 1) + k < L - a
        BY <3>1, <4>1
      <4> QED BY <4>2 DEF L, a
    <3> QED BY <2>2, <3>1, <3>2, <3>4 DEF Byte, N
  <2> QED BY <1>3, <2>1, <2>3 DEF Ahead, n, b
<1> QED BY <1>2, <1>3

\* A transition that is quiet and leads to a state is taken.
LEMMA QuietStep ==
  ASSUME NEW d, NEW x, WellFormed(d), NEW t \in States(d), NEW b \in Bytes, NEW p,
         Quiet(Transition(d, t, b)), Transition(d, t, b).to \in States(d)
  PROVE  LET raw == Transition(d, t, b)
         IN  raw.accept = IsAccepting(d, raw.to) /\ raw.delta = 0 /\ CanStep(x, raw, p)
<1>1. Valid(Transition(d, t, b))
  BY StateTypes DEF Valid
<1>2. Transition(d, t, b).accept = IsAccepting(d, Transition(d, t, b).to)
  BY <1>1, TransitionTypes
<1>3. Holds(x, p, {})
  BY DEF Holds, Verify
<1> QED BY <1>1, <1>2, <1>3 DEF CanStep, Quiet

\* A byte of a block leads through a rune or to the end of one, with nothing to
\* verify or to add.
LEMMA RuneByte ==
  ASSUME NEW d, NEW x, WellFormed(d), InputOK(x), NEW t \in States(d), NEW q \in 0..(N(x) - 1),
         NEW u, NEW m \in 0..3, Midway(d, x, t, q, u, m), Byte(x, q) \in WarpBytes(d, t)
  PROVE  LET raw == Transition(d, u, Byte(x, q))
         IN  /\ u \in States(d) /\ raw.to \in States(d)
             /\ raw.accept = IsAccepting(d, raw.to) /\ raw.delta = 0 /\ CanStep(x, raw, q)
             /\ \E n \in 0..3 : /\ Midway(d, x, t, q + 1, raw.to, n)
                                /\ n = 0 => raw.to = t
                                /\ n # 0 => ~IsAccepting(d, raw.to)
<1> DEFINE b   == Byte(x, q)
           raw == Transition(d, u, b)
           n   == IF m = 0 THEN GetTrailingByteCount(b) ELSE m - 1
<1>1. b \in Bytes
  BY InputTypes
<1>2. /\ u \in States(d) /\ n \in 0..3 /\ Quiet(raw) /\ raw.to \in Inside(d, t, n)
      /\ Ahead(x, q + 1, n) /\ (n > 0 => Cont \subseteq WarpBytes(d, t))
  <2>1. CASE m = 0
    <3>1. u = t
      BY <2>1 DEF Midway, Inside
    <3>2. /\ Transition(d, t, b).to \in Inside(d, t, GetTrailingByteCount(b)) /\ Quiet(Transition(d, t, b))
          /\ b \in Lead => Cont \subseteq WarpBytes(d, t)
      BY DEF WellFormed, WarpsSkipPureLoops, SkipsPureLoops
    <3>3. n = GetTrailingByteCount(b) /\ n \in 0..3 /\ (n # 0 => b \in Lead) /\ Ahead(x, q + 1, n)
      BY <2>1, LeadAhead
    <3> HIDE DEF n, b
    <3> QED BY <3>1, <3>2, <3>3 DEF b
  <2>2. CASE m # 0
    <3>1. m \in 1..3 /\ n = m - 1 /\ n \in 0..3
      BY <2>2
    <3>2. u \in Inside(d, t, m) /\ Ahead(x, q, m) /\ Cont \subseteq WarpBytes(d, t)
      BY <3>1 DEF Midway
    <3>3. b \in Cont
      <4>1. 0 \in 0..(m - 1) /\ q + 0 = q
        BY <3>1, InputTypes
      <4> QED BY <3>2, <4>1 DEF Ahead
    <3>4. u \in States(d) /\ raw.to \in Inside(d, t, m - 1) /\ Quiet(raw)
      <4> HIDE DEF b
      <4> QED BY <3>1, <3>2, <3>3, InsideTypes
    <3>5. Ahead(x, q + 1, m - 1)
      <4> SUFFICES ASSUME NEW k \in 0..((m - 1) - 1)
                   PROVE  (q + 1) + k < N(x) /\ Byte(x, (q + 1) + k) \in Cont
        BY DEF Ahead
      <4>1. k + 1 \in 0..(m - 1) /\ (q + 1) + k = q + (k + 1)
        BY <3>1, InputTypes
      <4> QED BY <3>2, <4>1 DEF Ahead
    <3> HIDE DEF n, b, raw
    <3> QED BY <3>1, <3>2, <3>4, <3>5
  <2> QED BY <2>1, <2>2
<1> HIDE DEF n
<1>3. raw.to \in States(d) /\ (n = 0 => raw.to = t) /\ (n # 0 => ~IsAccepting(d, raw.to))
  <2> HIDE DEF raw
  <2>1. CASE n = 0
    BY <1>2, <2>1 DEF Inside
  <2>2. CASE n # 0
    <3>1. n \in 1..3
      BY <1>2, <2>2
    <3> QED BY <1>2, <2>2, <3>1, InsideTypes
  <2> QED BY <2>1, <2>2
<1>4. raw.accept = IsAccepting(d, raw.to) /\ raw.delta = 0 /\ CanStep(x, raw, q)
  <2> HIDE DEF b
  <2> QED BY <1>1, <1>2, <1>3, QuietStep
<1>5. Midway(d, x, t, q + 1, raw.to, n)
  BY <1>2 DEF Midway
<1> QED BY <1>2, <1>3, <1>4, <1>5

\* A run that is at the end of no byte of t is at the end of no rune either.
LEMMA BlockCut ==
  ASSUME NEW d, NEW x, InputOK(x), NEW t, NEW j \in 0..N(x), NEW u, NEW m \in 0..3,
         Midway(d, x, t, j, u, m), j = N(x) \/ Byte(x, j) \notin WarpBytes(d, t)
  PROVE  m = 0 /\ u = t
<1>1. ASSUME m # 0 PROVE FALSE
  <2>1. 0 \in 0..(m - 1) /\ j + 0 = j /\ m > 0 /\ N(x) \in Nat
    BY <1>1, InputTypes
  <2>2. j < N(x) /\ Byte(x, j) \in Cont /\ Cont \subseteq WarpBytes(d, t)
    BY <2>1 DEF Midway, Ahead
  <2> QED BY <2>1, <2>2
<1> QED BY <1>1 DEF Midway, Inside

\* Inside a block the run is in the state of the block or inside a rune of it.
LEMMA BlockWalk ==
  ASSUME NEW d, NEW x, WellFormed(d), InputOK(x), NEW s \in 0..N(x), NEW p \in s..N(x),
         NEW j \in p..N(x), NEW t \in States(d), Bytewise(d, x, s)[p].state = t,
         \A q \in p..(j - 1) : Byte(x, q) \in WarpBytes(d, t)
  PROVE  \E m \in 0..3 : Midway(d, x, t, j, Bytewise(d, x, s)[j].state, m)
<1> DEFINE run == Bytewise(d, x, s)
           T == {q \in p..j : \E m \in 0..3 : Midway(d, x, t, q, run[q].state, m)}
<1>0. N(x) \in Nat
  BY InputTypes
<1>1. p \in T
  <2>1. Midway(d, x, t, p, t, 0)
    BY DEF Midway, Inside, Ahead
  <2> QED BY <1>0, <2>1
<1>2. ASSUME NEW q \in p..(j - 1), q \in T PROVE q + 1 \in T
  <2>1. q \in s..(N(x) - 1) /\ q \in 0..(N(x) - 1) /\ q + 1 \in p..j
    BY <1>0
  <2>2. PICK m \in 0..3 : Midway(d, x, t, q, run[q].state, m)
    BY <1>2
  <2> DEFINE raw == Transition(d, run[q].state, Byte(x, q))
  <2>3. /\ run[q].state \in States(d) /\ CanStep(x, raw, q)
        /\ \E n \in 0..3 : Midway(d, x, t, q + 1, raw.to, n)
    <3> HIDE DEF run
    <3> QED BY <2>1, <2>2, RuneByte
  <2>4. run[q + 1].state = raw.to
    <3>1. Bytewise(d, x, s)[q + 1] = Taken(d, x, Bytewise(d, x, s)[q], Transition(d, Bytewise(d, x, s)[q].state, Byte(x, q)), q + 1)
      BY <2>1, <2>3, OneByte
    <3> QED BY <3>1 DEF Taken
  <2> HIDE DEF run, raw
  <2> QED BY <2>1, <2>3, <2>4
<1>3. Inductive(T, p, j)
  <2> HIDE DEF T
  <2> QED BY <1>1, <1>2 DEF Inductive
<1>4. p..j \subseteq T
  <2> HIDE DEF T
  <2> QED BY <1>0, <1>3, IntervalInduction
<1>5. j \in T
  BY <1>0, <1>4
<1> QED BY <1>5

\* Between two bytes of a block no condition of an accepting state holds.
LEMMA NeverInside ==
  ASSUME NEW d, NEW x, WellFormed(d), InputOK(x), BlocksDecided(d), NEW t \in States(d),
         NEW q \in 1..(N(x) - 1), Byte(x, q - 1) \in WarpBytes(d, t), Byte(x, q) \in WarpBytes(d, t),
         Guard(d, t) # {}
  PROVE  ~Holds(x, q, Guard(d, t)) /\ ~IsBestMatch(d, t)
<1> DEFINE b1 == Byte(x, q - 1)
           b2 == Byte(x, q)
           two == <<b1, b2>>
           p == x.absPos + q
<1>1. ~Verify(two, 1, Guard(d, t)) /\ ~IsBestMatch(d, t)
  BY DEF BlocksDecided
<1>2. x.text[p] = b1 /\ x.text[p + 1] = b2 /\ p > 0 /\ p < Len(x.text) /\ p \in Nat
  <2>1. x.absPos \in Nat /\ Len(x.text) \in Nat /\ q \in Nat /\ q > 0 /\ q < Len(x.text) - x.absPos
    BY DEF InputOK, N
  <2>2. x.absPos + (q - 1) + 1 = p /\ p > 0 /\ p < Len(x.text) /\ p \in Nat
    BY <2>1
  <2> QED BY <2>2 DEF Byte
<1>3. two[1] = b1 /\ two[2] = b2 /\ Len(two) = 2
  OBVIOUS
<1> HIDE DEF b1, b2, two, p
<1>5. ASSUME NEW req, Verify(x.text, p, req) PROVE Verify(two, 1, req)
  <2>1. VerifyBegin(x.text, p, req) => VerifyBegin(two, 1, req)
    BY <1>2, <1>3 DEF VerifyBegin, ByteBefore
  <2>2. VerifyEnd(x.text, p, req) => VerifyEnd(two, 1, req)
    BY <1>2, <1>3 DEF VerifyEnd, ByteAfter
  <2>3. VerifyWord(x.text, p, req) => VerifyWord(two, 1, req)
    BY <1>2, <1>3 DEF VerifyWord, ByteBefore, ByteAfter
  <2> QED BY <1>5, <2>1, <2>2, <2>3 DEF Verify
<1> QED BY <1>1, <1>5 DEF Holds, p

\* Updating the best end at two positions of a block is updating it at the second.
LEMMA BetterTwice ==
  ASSUME NEW d, NEW x, WellFormed(d), InputOK(x), NEW b \in Bests(x), NEW p, NEW q,
         NEW s, s.to \in States(d), s.accept \in BOOLEAN,
         NEW r, r.to = s.to, r.accept = s.accept, NEW pr \in Nat,
         Guard(d, s.to) = {}
  PROVE  Better(d, x, Better(d, x, b, p, s, pr), q, r, pr) = Better(d, x, b, q, s, pr)
<1>1. Holds(x, p, {}) /\ Holds(x, q, {})
  BY DEF Holds, Verify
<1>2. MatchP(d, s.to) \in Nat /\ b.prio \in Nat
  BY StateTypes DEF Bests
<1> DEFINE m == MatchP(d, s.to)
<1>3. m \in Nat /\ pr + m \in Nat
  BY <1>2
<1> HIDE DEF m
<1> QED BY <1>1, <1>2, <1>3 DEF Better, m

\* What makes a block harmless: the state stops no search inside it.
Harmless(d, x, t, b, pr) ==
  IsBestMatch(d, t) /\ Guard(d, t) = {} =>
    x.op = "submatch" /\ b.prio # 0 /\ pr + MatchP(d, t) # 0

LEMMA HarmlessStops ==
  ASSUME NEW d, NEW x, WellFormed(d), BlocksDecided(d), NEW t \in States(d), NEW b \in Bests(x), NEW pr \in Nat,
         Harmless(d, x, t, b, pr), Guard(d, t) = {} \/ ~IsBestMatch(d, t),
         NEW raw, raw.to = t, NEW q
  PROVE  ~Stops(d, raw, Better(d, x, b, q, raw, pr))
<1>1. CASE ~IsBestMatch(d, t)
  BY <1>1 DEF Stops
<1>2. CASE IsBestMatch(d, t)
  <2>1. x.op = "submatch" /\ b.prio # 0 /\ pr + MatchP(d, t) # 0
    BY <1>2 DEF Harmless
  <2> DEFINE m == pr + MatchP(d, t)
             e == Better(d, x, b, q, raw, pr)
  <2>2. e = b \/ e = [end |-> q, prio |-> m]
    BY <2>1 DEF Better
  <2>3. e.prio # 0
    <3> HIDE DEF e, m
    <3>1. m # 0
      BY <2>1 DEF m
    <3> QED BY <2>1, <2>2, <3>1
  <2> QED BY <2>3 DEF Stops
<1> QED BY <1>1, <1>2

\* The configuration after the block from p to j that raw state S skips.
SkippedTo(d, x, c, p, j, S) ==
  [state |-> S.to, prio |-> c.prio, over |-> FALSE,
   best |-> IF j > p THEN Better(d, x, c.best, j, S, c.prio) ELSE c.best]

\* At the end of a rune of a block, the best end of the last rune before it is
\* updated as the one before the block would be, and the search does not stop.
LEMMA BlockUpdate ==
  ASSUME NEW d, NEW x, WellFormed(d), InputOK(x), BlocksDecided(d), NEW p \in 0..N(x),
         NEW q \in p..(N(x) - 1), NEW l \in p..q, NEW t \in States(d),
         \A r \in p..q : Byte(x, r) \in WarpBytes(d, t),
         NEW S, S.to = t, S.accept = IsAccepting(d, t), NEW b \in Bests(x), NEW pr \in Nat,
         Harmless(d, x, t, b, pr), NEW raw, raw.to = t, raw.accept = IsAccepting(d, t)
  PROVE  LET c == IF l > p THEN Better(d, x, b, l, S, pr) ELSE b
             e == Better(d, x, c, q + 1, raw, pr)
         IN  e = Better(d, x, b, q + 1, S, pr) /\ ~Stops(d, raw, e)
<1> DEFINE c == IF l > p THEN Better(d, x, b, l, S, pr) ELSE b
           e == Better(d, x, c, q + 1, raw, pr)
<1>0. N(x) \in Nat
  BY InputTypes
<1>1. \A f, g : Better(d, x, f, g, raw, pr) = Better(d, x, f, g, S, pr)
  BY DEF Better
<1>2. Guard(d, t) = {} \/ ~IsBestMatch(d, t)
  BY DEF BlocksDecided
<1>3. e = Better(d, x, b, q + 1, S, pr)
  <2>1. CASE ~(l > p)
    BY <2>1, <1>1
  <2>2. CASE l > p /\ Guard(d, t) = {}
    <3>1. e = Better(d, x, Better(d, x, b, l, S, pr), q + 1, S, pr)
      BY <1>1, <2>2
    <3>2. S.accept \in BOOLEAN
      BY StateTypes
    <3> HIDE DEF e
    <3> QED BY <3>1, <3>2, <2>2, BetterTwice
  <2>3. CASE l > p /\ Guard(d, t) # {}
    <3>1. l \in 1..(N(x) - 1) /\ l - 1 \in p..q /\ l \in p..q
      BY <1>0, <2>3
    <3>2. ~Holds(x, l, Guard(d, t))
      BY <2>3, <3>1, NeverInside
    <3>3. c = b
      BY <2>3, <3>2 DEF Better
    <3> HIDE DEF c
    <3> QED BY <3>3, <1>1
  <2> QED BY <2>1, <2>2, <2>3
<1>4. ~Stops(d, raw, Better(d, x, b, q + 1, raw, pr))
  BY <1>2, HarmlessStops
<1>5. e = Better(d, x, b, q + 1, raw, pr)
  BY <1>1, <1>3
<1> HIDE DEF e
<1>6. ~Stops(d, raw, e)
  BY <1>4, <1>5
<1> QED BY <1>3, <1>6 DEF e

\* The configuration of the run inside a block, in state u: l is the end of the
\* last rune of the block.
BlockAt(d, x, b, pr, p, l, S, u) ==
  [state |-> u, prio |-> pr, over |-> FALSE,
   best |-> IF l > p THEN Better(d, x, b, l, S, pr) ELSE b]

\* Reading a block byte by byte updates the best end as one update at its end
\* does, and stops nowhere.
LEMMA BlockBest ==
  ASSUME NEW d, NEW x, WellFormed(d), InputOK(x), BlocksDecided(d), NEW s \in 0..N(x), NEW p \in s..N(x),
         NEW j \in p..N(x), NEW t \in States(d),
         Bytewise(d, x, s)[p].state = t, ~Bytewise(d, x, s)[p].over,
         \A q \in p..(j - 1) : Byte(x, q) \in WarpBytes(d, t),
         j = N(x) \/ Byte(x, j) \notin WarpBytes(d, t),
         NEW S, S.to = t, S.accept = IsAccepting(d, t),
         Harmless(d, x, t, Bytewise(d, x, s)[p].best, Bytewise(d, x, s)[p].prio)
  PROVE  Bytewise(d, x, s)[j] = SkippedTo(d, x, Bytewise(d, x, s)[p], p, j, S)
<1> DEFINE run == Bytewise(d, x, s)
           b   == run[p].best
           pr  == run[p].prio
           At(q, l) == run[q] = BlockAt(d, x, b, pr, p, l, S, run[q].state)
           Found(q) == \E m \in 0..3, l \in p..q :
                         At(q, l) /\ Midway(d, x, t, q, run[q].state, m) /\ (m = 0 => l = q)
           T == {q \in p..j : Found(q)}
<1>0. N(x) \in Nat
  BY InputTypes
<1>1. run[p] \in Configs(d, x)
  BY <1>0, RunTypes
<1>2. b \in Bests(x) /\ pr \in Nat /\ At(p, p)
  <2>1. run[p].over = FALSE
    BY <1>1 DEF Configs
  <2>2. ~(p > p)
    BY <1>0
  <2> HIDE DEF run
  <2>3. run[p] = [state |-> run[p].state, prio |-> run[p].prio, over |-> run[p].over, best |-> run[p].best]
    BY <1>1 DEF Configs
  <2>4. b \in Bests(x) /\ pr \in Nat
    BY <1>1 DEF Configs
  <2> QED BY <2>1, <2>2, <2>3, <2>4 DEF BlockAt
<1>3. p \in T
  <2>1. Midway(d, x, t, p, run[p].state, 0)
    BY DEF Midway, Inside, Ahead
  <2>2. p \in p..p /\ p \in p..j /\ 0 \in 0..3
    BY <1>0
  <2> HIDE DEF At, run
  <2> QED BY <1>2, <2>1, <2>2
<1>4. ASSUME NEW q \in p..(j - 1), q \in T PROVE q + 1 \in T
  <2>0. /\ q \in s..(N(x) - 1) /\ q \in p..(N(x) - 1) /\ q \in 0..(N(x) - 1) /\ q + 1 \in p..j
        /\ q + 1 > p /\ q + 1 \in p..(q + 1)
    BY <1>0
  <2>1. Byte(x, q) \in WarpBytes(d, t) /\ \A r \in p..q : Byte(x, r) \in WarpBytes(d, t)
    BY <1>0
  <2>2. PICK m \in 0..3, l \in p..q :
          At(q, l) /\ Midway(d, x, t, q, run[q].state, m) /\ (m = 0 => l = q)
    BY <1>4
  <2> DEFINE raw == Transition(d, run[q].state, Byte(x, q))
             c   == IF l > p THEN Better(d, x, b, l, S, pr) ELSE b
             e   == Better(d, x, c, q + 1, raw, pr)
  <2>3. /\ run[q].state \in States(d) /\ raw.accept = IsAccepting(d, raw.to)
        /\ raw.delta = 0 /\ CanStep(x, raw, q)
        /\ \E n \in 0..3 : /\ Midway(d, x, t, q + 1, raw.to, n)
                           /\ n = 0 => raw.to = t
                           /\ n # 0 => ~IsAccepting(d, raw.to)
    <3> HIDE DEF run
    <3> QED BY <2>0, <2>1, <2>2, RuneByte
  <2>4. PICK n \in 0..3 : /\ Midway(d, x, t, q + 1, raw.to, n)
                          /\ n = 0 => raw.to = t
                          /\ n # 0 => ~IsAccepting(d, raw.to)
    <3> HIDE DEF raw
    <3> QED BY <2>3
  <2>5. run[q + 1] = Taken(d, x, run[q], raw, q + 1)
    BY <2>0, <2>3, OneByte
  <2> HIDE DEF run, b, pr, raw
  <2>6. run[q].best = c /\ run[q].prio = pr /\ run[q].over = FALSE
    BY <2>2 DEF BlockAt
  <2>7. pr + raw.delta = pr
    BY <1>2, <2>3
  <2>8. run[q + 1] = [state |-> raw.to, prio |-> pr, best |-> e, over |-> FALSE \/ Stops(d, raw, e)]
    <3> HIDE DEF c
    <3> QED BY <2>5, <2>6, <2>7 DEF Taken
  <2>9. CASE n = 0
    <3>1. e = Better(d, x, b, q + 1, S, pr) /\ ~Stops(d, raw, e)
      <4>1. Harmless(d, x, t, b, pr) /\ p \in 0..N(x)
        BY <1>0 DEF b, pr, run
      <4>2. raw.to = t /\ raw.accept = IsAccepting(d, t)
        BY <2>3, <2>4, <2>9
      <4> QED BY <1>2, <2>0, <2>1, <4>1, <4>2, BlockUpdate
    <3> HIDE DEF e
    <3>2. (FALSE \/ Stops(d, raw, e)) = FALSE
      BY <3>1
    <3>3. run[q + 1].state = raw.to
      BY <2>8
    <3>4. At(q + 1, q + 1)
      BY <2>0, <2>8, <3>1, <3>2, <3>3 DEF BlockAt
    <3> HIDE DEF At
    <3> QED BY <2>0, <2>4, <3>3, <3>4
  <2>10. CASE n # 0
    <3>1. ~raw.accept
      BY <2>3, <2>4, <2>10
    <3>2. e = c
      BY <3>1 DEF Better
    <3> HIDE DEF e
    <3>3. (FALSE \/ Stops(d, raw, e)) = FALSE
      BY <3>1 DEF Stops
    <3>4. run[q + 1].state = raw.to
      BY <2>8
    <3>5. At(q + 1, l)
      BY <2>8, <3>2, <3>3, <3>4 DEF BlockAt
    <3>6. l \in p..(q + 1)
      BY <1>0
    <3> HIDE DEF At
    <3> QED BY <2>0, <2>4, <2>10, <3>4, <3>5, <3>6
  <2> QED BY <2>9, <2>10
<1>5. Inductive(T, p, j)
  <2> HIDE DEF T
  <2> QED BY <1>3, <1>4 DEF Inductive
<1>6. p..j \subseteq T
  <2> HIDE DEF T
  <2> QED BY <1>0, <1>5, IntervalInduction
<1>7. PICK m \in 0..3, l \in p..j :
        At(j, l) /\ Midway(d, x, t, j, run[j].state, m) /\ (m = 0 => l = j)
  <2>1. j \in T
    BY <1>0, <1>6
  <2> QED BY <2>1
<1>8. l = j /\ run[j].state = t
  <2>1. j \in 0..N(x)
    BY <1>0
  <2> HIDE DEF run, At
  <2> QED BY <1>7, <2>1, BlockCut
<1> QED BY <1>7, <1>8 DEF BlockAt, SkippedTo

\* --- pass 0 --------------------------------------------------------------
\* Where IndexClass looks for its class in a text: at a byte of the class it
\* stops when it starts there, and wherever it starts if no word hides one.
LEMMA FindableFacts ==
  ASSUME NEW t \in Seq(Bytes), NEW S, NEW words \in BOOLEAN, NEW p \in Nat, NEW q \in p..(Len(t) - 1)
  PROVE  /\ q \in Findable(t, p, S, words) => t[q + 1] \in S
         /\ t[p + 1] \in S => p \in Findable(t, p, S, words)
         /\ (words => HidesNone(t, S)) /\ t[q + 1] \in S => q \in Findable(t, p, S, words)
<1>0. /\ q \in Nat /\ p <= q /\ q < Len(t) /\ Len(t) \in Nat /\ WordLength \in Nat \ {0}
      /\ \A n \in 0..(Len(t) - 1) : t[n + 1] \in Nat
  <2>1. Bytes \subseteq Nat
    BY TextAssumption DEF Bytes
  <2>2. Len(t) \in Nat /\ WordLength \in Nat \ {0}
    BY ScanAssumption
  <2>3. \A n \in 1..Len(t) : t[n] \in Nat
    <3>1. \A n \in 1..Len(t) : t[n] \in Bytes
      OBVIOUS
    <3> QED BY <2>1, <3>1
  <2>4. \A n \in 0..(Len(t) - 1) : n + 1 \in 1..Len(t)
    BY <2>2
  <2> QED BY <2>2, <2>3, <2>4
<1>1. q \in Findable(t, p, S, words) => t[q + 1] \in S
  BY DEF Findable
<1>2. ASSUME t[p + 1] \in S PROVE ~Lost(t, p, p, S)
  <2> SUFFICES ASSUME Lost(t, p, p, S) PROVE FALSE
    OBVIOUS
  <2>1. PassedOver(t, p + 0 * WordLength, S)
    BY DEF Lost
  <2>2. p + 0 * WordLength = p /\ 0 \in 0..(WordLength - 1) /\ p + 0 + 1 = p + 1
    BY <1>0
  <2>3. Below(t, p, 0, S) \/ Above(t, p, 0, S)
    BY <2>1, <2>2 DEF PassedOver
  <2>4. (\A b \in S : t[p + 1] < b) \/ (\A b \in S : t[p + 1] > b)
    <3>1. \A j \in 0..0 : j = 0
      OBVIOUS
    <3> QED BY <2>2, <2>3, <3>1 DEF Below, Above
  <2>5. t[p + 1] \in Nat
    BY <1>0
  <2> QED BY <1>2, <2>4, <2>5
<1>3. ASSUME HidesNone(t, S), t[q + 1] \in S PROVE ~Lost(t, p, q, S)
  <2> SUFFICES ASSUME Lost(t, p, q, S) PROVE FALSE
    OBVIOUS
  <2>1. PICK n \in 0..(q - p) : /\ p + n * WordLength <= q /\ q < p + n * WordLength + WordLength
                                /\ PassedOver(t, p + n * WordLength, S)
    <3>1. \A n \in 0..(q - p) : n \in 0..n
      BY <1>0
    <3> QED BY <3>1, Zenon DEF Lost
  <2> DEFINE w == p + n * WordLength
  <2>2. w \in Nat
    <3>1. n \in Nat /\ WordLength \in Nat
      BY <1>0
    <3>2. n * WordLength \in Nat
      BY <3>1
    <3> QED BY <3>2
  <2>3. w <= q /\ q < w + WordLength /\ PassedOver(t, w, S)
    BY <2>1
  <2> HIDE DEF w
  <2>4. w \in 0..Len(t) /\ q - w \in 0..(WordLength - 1) /\ w + (q - w) + 1 = q + 1
    BY <1>0, <2>2, <2>3
  <2>5. t[w + (q - w) + 1] \notin S
    BY <1>3, <2>3, <2>4 DEF HidesNone
  <2> QED BY <1>3, <2>4, <2>5
<1>4. t[p + 1] \in S => p \in Findable(t, p, S, words)
  BY <1>0, <1>2 DEF Findable
<1>5. (words => HidesNone(t, S)) /\ t[q + 1] \in S => q \in Findable(t, p, S, words)
  BY <1>3 DEF Findable
<1> QED BY <1>1, <1>4, <1>5

\* A byte of a word that is not its last is followed by one of the text.
LEMMA InWord ==
  ASSUME NEW len \in Nat, NEW w \in 0..len, NEW size \in Nat, w + size <= len,
         NEW k \in 0..(size - 1), NEW j \in 0..k, j # k
  PROVE  j + 1 \in (j + 1)..k /\ w + j + 1 \in 1..(len - 1) /\ w + (j + 1) + 1 = (w + j + 1) + 1
OBVIOUS

\* No word hides a byte of a text that is shorter than a word, nor where no byte
\* outside the range stands right before a byte of its bound.
THEOREM WhenWordsDecide ==
  ASSUME NEW d, NEW x, InputOK(x), Sought(d) \subseteq Nat,
         \/ Len(x.text) < WordLength
         \/ \A p \in 1..(Len(x.text) - 1) : LET b == x.text[p]
                                                c == x.text[p + 1]
              IN  /\ (\A e \in Sought(d) : b < e) => ~(c \in Sought(d) /\ \A e \in Sought(d) : c <= e)
                  /\ (\A e \in Sought(d) : b > e) => ~(c \in Sought(d) /\ \A e \in Sought(d) : c >= e)
  PROVE  WordsDecided(d, x)
<1> DEFINE t == x.text
           S == Sought(d)
<1>0. t \in Seq(Bytes) /\ Len(t) \in Nat /\ WordLength \in Nat \ {0}
  BY ScanAssumption DEF InputOK
<1> SUFFICES ASSUME NEW w \in 0..Len(t), PassedOver(t, w, S), NEW k \in 0..(WordLength - 1), t[w + k + 1] \in S
             PROVE  FALSE
  BY DEF WordsDecided, HidesNone
<1>1. w + WordLength <= Len(t) /\ (Below(t, w, k, S) \/ Above(t, w, k, S))
  BY DEF PassedOver
<1>2. \A p \in 1..(Len(t) - 1) :
        /\ (\A e \in S : t[p] < e) => ~(t[p + 1] \in S /\ \A e \in S : t[p + 1] <= e)
        /\ (\A e \in S : t[p] > e) => ~(t[p + 1] \in S /\ \A e \in S : t[p + 1] >= e)
  <2>1. ~(Len(t) < WordLength)
    <3> HIDE DEF t, S
    <3> QED BY <1>0, <1>1
  <2> QED BY <2>1, Zenon
<1>3. \A n \in 0..k : t[w + n + 1] \in Nat
  <2> TAKE n \in 0..k
  <2>1. w + n + 1 \in 1..Len(t)
    BY <1>0, <1>1
  <2>2. Bytes \subseteq Nat
    BY TextAssumption DEF Bytes
  <2>3. t[w + n + 1] \in Bytes
    <3> HIDE DEF t
    <3> QED BY <1>0, <2>1
  <2> QED BY <2>2, <2>3
<1> HIDE DEF t, S
<1>4. CASE Below(t, w, k, S)
  <2>1. PICK j \in 0..k : /\ \A b \in S : t[w + j + 1] < b
                          /\ \A n \in (j + 1)..k : t[w + n + 1] \in S /\ \A b \in S : t[w + n + 1] <= b
    BY <1>4 DEF Below
  <2>2. CASE j = k
    <3>1. t[w + k + 1] < t[w + k + 1] /\ t[w + k + 1] \in Nat
      BY <2>1, <2>2, <1>3
    <3> QED BY <3>1
  <2>3. CASE j # k
    <3>1. j + 1 \in (j + 1)..k /\ w + j + 1 \in 1..(Len(t) - 1) /\ w + (j + 1) + 1 = (w + j + 1) + 1
      BY <1>0, <1>1, <2>3, InWord
    <3>2. t[(w + j + 1) + 1] \in S /\ \A b \in S : t[(w + j + 1) + 1] <= b
      BY <2>1, <3>1
    <3> QED BY <1>2, <2>1, <3>1, <3>2
  <2> QED BY <2>2, <2>3
<1>5. CASE Above(t, w, k, S)
  <2>1. PICK j \in 0..k : /\ \A b \in S : t[w + j + 1] > b
                          /\ \A n \in (j + 1)..k : t[w + n + 1] \in S /\ \A b \in S : t[w + n + 1] >= b
    BY <1>5 DEF Above
  <2>2. CASE j = k
    <3>1. t[w + k + 1] > t[w + k + 1] /\ t[w + k + 1] \in Nat
      BY <2>1, <2>2, <1>3
    <3> QED BY <3>1
  <2>3. CASE j # k
    <3>1. j + 1 \in (j + 1)..k /\ w + j + 1 \in 1..(Len(t) - 1) /\ w + (j + 1) + 1 = (w + j + 1) + 1
      BY <1>0, <1>1, <2>3, InWord
    <3>2. t[(w + j + 1) + 1] \in S /\ \A b \in S : t[(w + j + 1) + 1] >= b
      BY <2>1, <3>1
    <3> QED BY <1>2, <2>1, <3>1, <3>2
  <2> QED BY <2>2, <2>3
<1> QED BY <1>1, <1>4, <1>5

\* The same of the positions of pass 0.
LEMMA PlacesFacts ==
  ASSUME NEW d, NEW x, InputOK(x), NEW p \in 0..N(x)
  PROVE  /\ Places(d, x, p) \subseteq {q \in p..(N(x) - 1) : Byte(x, q) \in Sought(d)}
         /\ p < N(x) /\ Byte(x, p) \in Sought(d) => p \in Places(d, x, p)
         /\ WordsDecided(d, x) => Places(d, x, p) = {q \in p..(N(x) - 1) : Byte(x, q) \in Sought(d)}
<1> DEFINE t == x.text
           k == x.absPos
           S == Sought(d)
           F == Findable(t, k + p, S, ByWords(d))
<1>0. /\ t \in Seq(Bytes) /\ Len(t) \in Nat /\ k \in Nat /\ N(x) = Len(t) - k /\ N(x) \in Nat
      /\ p \in Nat /\ k + p \in Nat /\ ByWords(d) \in BOOLEAN
  BY InputTypes DEF InputOK, N, ByWords, Consecutive
<1>1. Places(d, x, p) = {q \in p..(N(x) - 1) : k + q \in F}
  BY DEF Places
<1>2. \A q \in p..(N(x) - 1) : Byte(x, q) = t[(k + q) + 1] /\ k + q \in (k + p)..(Len(t) - 1)
  <2> TAKE q \in p..(N(x) - 1)
  <2>1. Byte(x, q) = t[(k + q) + 1]
    BY DEF Byte
  <2> HIDE DEF t, k
  <2>2. k + q \in (k + p)..(Len(t) - 1)
    BY <1>0
  <2> QED BY <2>1, <2>2
<1>3. \A n \in (k + p)..(Len(t) - 1) :
        /\ n \in F => t[n + 1] \in S
        /\ t[(k + p) + 1] \in S => k + p \in F
        /\ (ByWords(d) => HidesNone(t, S)) /\ t[n + 1] \in S => n \in F
  BY <1>0, FindableFacts
<1>4. WordsDecided(d, x) => (ByWords(d) => HidesNone(t, S))
  BY DEF WordsDecided
<1> HIDE DEF F, t, k, S
<1>5. \A q \in p..(N(x) - 1) : /\ k + q \in F => Byte(x, q) \in S
                               /\ WordsDecided(d, x) /\ Byte(x, q) \in S => k + q \in F
  BY <1>2, <1>3, <1>4
<1>6. p < N(x) /\ Byte(x, p) \in S => k + p \in F /\ p \in p..(N(x) - 1)
  <2>1. p < N(x) => p \in p..(N(x) - 1)
    BY <1>0
  <2> QED BY <1>2, <1>3, <2>1
<1> QED BY <1>1, <1>5, <1>6 DEF S

\* The slice a place is looked for in starts at it, or before it.
LEMMA SinceFacts ==
  ASSUME NEW d, NEW x, InputOK(x), NEW p \in 0..N(x)
  PROVE  Since(d, x, p)[p] = p /\ \A q \in p..N(x) : Since(d, x, p)[q] \in p..q
<1> DEFINE F == [e \in Int \X Int |-> IF e[2] - 1 \in Places(d, x, e[1]) THEN e[2] ELSE e[1]]
           Step(g, q) == IF q = p THEN p ELSE IF q - 1 \in Places(d, x, g[q - 1]) THEN q ELSE g[q - 1]
<1>0. N(x) \in Nat /\ p \in Int /\ p \in p..N(x)
  BY InputTypes
<1>1. F \in [Int \X Int -> Int]
  OBVIOUS
<1>2. PICK f \in [p..N(x) -> Int] : Recursive(f, p, p, N(x), F)
  <2> DEFINE I == Int
  <2>1. F \in [I \X Int -> I] /\ p \in I /\ p \in Int /\ N(x) \in Int
    BY <1>0, <1>1
  <2> HIDE DEF F, I
  <2>2. \E f \in [p..N(x) -> I] : Recursive(f, p, p, N(x), F)
    BY <2>1, IntervalRecursion
  <2> QED BY <2>2 DEF I
<1>3. ASSUME NEW q \in p..N(x), q # p
      PROVE  F[<<f[q - 1], q>>] = IF q - 1 \in Places(d, x, f[q - 1]) THEN q ELSE f[q - 1]
  <2>1. q - 1 \in p..N(x)
    BY <1>0, <1>3
  <2>2. <<f[q - 1], q>> \in Int \X Int
    BY <1>0, <2>1
  <2> QED BY <2>2
<1> HIDE DEF F
<1>4. f = [q \in p..N(x) |-> Step(f, q)]
  BY <1>2, <1>3 DEF Recursive
<1>5. \E g : g = [q \in p..N(x) |-> Step(g, q)]
  BY <1>4
<1> DEFINE g == Since(d, x, p)
<1>6. g = [q \in p..N(x) |-> Step(g, q)]
  BY <1>5 DEF Since
<1> HIDE DEF g
<1> DEFINE T == {q \in p..N(x) : g[q] \in p..q}
<1>7. g[p] = p /\ p \in T
  BY <1>0, <1>6
<1>8. ASSUME NEW q \in p..(N(x) - 1), q \in T PROVE q + 1 \in T
  <2>1. q + 1 \in p..N(x) /\ q + 1 # p /\ (q + 1) - 1 = q
    BY <1>0
  <2>2. g[q + 1] = IF q \in Places(d, x, g[q]) THEN q + 1 ELSE g[q]
    BY <1>6, <2>1
  <2>3. g[q] \in p..q
    BY <1>8
  <2> QED BY <1>0, <2>1, <2>2, <2>3
<1>9. Inductive(T, p, N(x))
  <2> HIDE DEF T
  <2> QED BY <1>7, <1>8 DEF Inductive
<1>10. p..N(x) \subseteq T
  <2> HIDE DEF T
  <2> QED BY <1>0, <1>9, IntervalInduction
<1> QED BY <1>7, <1>10 DEF g

\* What is a candidate when pass 0 is asked for it.
Candidate(d, x, q) == Byte(x, q) \in Sought(d) /\ (d.strategy = "sdfa" => Confirmed(d, x, q))

LEMMA CandidatesFacts ==
  ASSUME NEW d, NEW x, InputOK(x), d.strategy \in {"warp", "sdfa"}, NEW p \in 0..N(x)
  PROVE  /\ Candidates(d, x, p) \subseteq {q \in p..(N(x) - 1) : Candidate(d, x, q)}
         /\ p < N(x) /\ Candidate(d, x, p) => p \in Candidates(d, x, p)
         /\ WordsDecided(d, x) => Candidates(d, x, p) = {q \in p..(N(x) - 1) : Candidate(d, x, q)}
<1>0. N(x) \in Nat
  BY InputTypes
<1>1. CASE d.strategy = "warp"
  <2>1. Candidates(d, x, p) = Places(d, x, p) /\ \A q : Candidate(d, x, q) <=> Byte(x, q) \in Sought(d)
    BY <1>1 DEF Candidates, Candidate
  <2>2. /\ Places(d, x, p) \subseteq {q \in p..(N(x) - 1) : Byte(x, q) \in Sought(d)}
        /\ p < N(x) /\ Byte(x, p) \in Sought(d) => p \in Places(d, x, p)
        /\ WordsDecided(d, x) => Places(d, x, p) = {q \in p..(N(x) - 1) : Byte(x, q) \in Sought(d)}
    BY PlacesFacts
  <2> QED BY <2>1, <2>2, Zenon
<1>2. CASE d.strategy = "sdfa"
  <2> DEFINE since == Since(d, x, p)
  <2>1. Candidates(d, x, p) = {q \in p..(N(x) - 1) : q \in Places(d, x, since[q]) /\ Confirmed(d, x, q)}
    BY <1>2 DEF Candidates
  <2>2. \A q : Candidate(d, x, q) <=> Byte(x, q) \in Sought(d) /\ Confirmed(d, x, q)
    BY <1>2 DEF Candidate
  <2>3. since[p] = p /\ \A q \in p..N(x) : since[q] \in p..q
    BY SinceFacts
  <2> HIDE DEF since
  <2>4. ASSUME NEW q \in p..(N(x) - 1)
        PROVE  /\ q \in Places(d, x, since[q]) => Byte(x, q) \in Sought(d)
               /\ WordsDecided(d, x) /\ Byte(x, q) \in Sought(d) => q \in Places(d, x, since[q])
    <3>1. since[q] \in 0..N(x) /\ q \in since[q]..(N(x) - 1)
      <4>1. q \in p..N(x)
        BY <1>0
      <4>2. since[q] \in p..q
        BY <2>3, <4>1
      <4> QED BY <1>0, <4>2
    <3> DEFINE s == since[q]
    <3>2. /\ Places(d, x, s) \subseteq {n \in s..(N(x) - 1) : Byte(x, n) \in Sought(d)}
          /\ WordsDecided(d, x) => Places(d, x, s) = {n \in s..(N(x) - 1) : Byte(x, n) \in Sought(d)}
      BY <3>1, PlacesFacts
    <3>3. q \in s..(N(x) - 1)
      BY <3>1
    <3> HIDE DEF s
    <3>4. /\ q \in Places(d, x, s) => Byte(x, q) \in Sought(d)
          /\ WordsDecided(d, x) /\ Byte(x, q) \in Sought(d) => q \in Places(d, x, s)
      BY <3>2, <3>3
    <3> QED BY <3>4 DEF s
  <2>5. p < N(x) /\ Byte(x, p) \in Sought(d) => p \in Places(d, x, since[p]) /\ p \in p..(N(x) - 1)
    BY <1>0, <2>3, PlacesFacts
  <2> QED BY <2>1, <2>2, <2>4, <2>5
<1> QED BY <1>1, <1>2

\* Pass 0 answers with a place it would propose when asked there, and if no word
\* hides a byte with the least one from there on.
LEMMA Pass0Least ==
  ASSUME NEW d, NEW x, WellFormed(d), InputOK(x), NEW p \in 0..N(x)
  PROVE  \/ /\ Pass0(d, x, p) = -1
            /\ WordsDecided(d, x) => \A q \in p..N(x) : ~Proposed(d, x, q)
         \/ /\ Pass0(d, x, p) \in p..N(x) /\ Proposed(d, x, Pass0(d, x, p))
            /\ WordsDecided(d, x) => \A q \in p..(Pass0(d, x, p) - 1) : ~Proposed(d, x, q)
<1>0. N(x) \in Nat
  BY InputTypes
<1>1. CASE d.strategy \notin {"warp", "sdfa"}
  <2>1. \A q : Candidates(d, x, q) = {q}
    BY <1>1 DEF Candidates
  <2>2. \A q \in Nat : Pass0(d, x, q) = q
    <3> SUFFICES ASSUME NEW q \in Nat PROVE Pass0(d, x, q) = q
      OBVIOUS
    <3>1. \A n \in {q} : \A m \in {q} : n <= m
      OBVIOUS
    <3>2. (CHOOSE n \in {q} : \A m \in {q} : n <= m) \in {q}
      BY <3>1
    <3> QED BY <2>1, <3>2 DEF Pass0
  <2>3. Pass0(d, x, p) = p /\ Proposed(d, x, p)
    BY <2>2 DEF Proposed
  <2>4. p..(p - 1) = {}
    BY <1>0
  <2> QED BY <1>0, <2>3, <2>4
<1>2. CASE d.strategy \in {"warp", "sdfa"}
  <2>1. ~IsAccepting(d, 1)
    BY <1>2 DEF WellFormed, PrefilterNeedsAByte
  <2>2. ASSUME NEW q \in 0..N(x)
        PROVE  /\ Candidates(d, x, q) \subseteq {r \in q..(N(x) - 1) : Candidate(d, x, r)}
               /\ q < N(x) /\ Candidate(d, x, q) => q \in Candidates(d, x, q)
               /\ WordsDecided(d, x) => Candidates(d, x, q) = {r \in q..(N(x) - 1) : Candidate(d, x, r)}
    BY <1>2, CandidatesFacts
  <2>3. \A q : Pass0(d, x, q) = IF Candidates(d, x, q) = {} THEN -1
                 ELSE CHOOSE n \in Candidates(d, x, q) : \A m \in Candidates(d, x, q) : n <= m
    BY <2>1 DEF Pass0
  <2>4. ASSUME NEW q \in 0..N(x), Candidates(d, x, q) # {}
        PROVE  Pass0(d, x, q) \in Candidates(d, x, q) /\ \A m \in Candidates(d, x, q) : Pass0(d, x, q) <= m
    <3> DEFINE K == Candidates(d, x, q)
    <3>1. K \in SUBSET Nat
      BY <1>0, <2>2
    <3>2. \E n \in K : \A m \in K : n <= m
      <4> HIDE DEF K
      <4> QED BY <2>4, <3>1, LeastElement DEF K
    <3>3. Pass0(d, x, q) = CHOOSE n \in K : \A m \in K : n <= m
      BY <2>3, <2>4
    <3> HIDE DEF K
    <3> QED BY <3>2, <3>3 DEF K
  <2>5. ASSUME NEW q \in 0..N(x), Proposed(d, x, q) PROVE Candidate(d, x, q) /\ q <= N(x) - 1
    <3>1. Candidates(d, x, q) # {}
      BY <2>3, <2>5 DEF Proposed
    <3>2. q \in Candidates(d, x, q)
      BY <3>1, <2>4, <2>5 DEF Proposed
    <3> QED BY <1>0, <2>2, <3>2
  <2>6. CASE Candidates(d, x, p) = {}
    <3>1. Pass0(d, x, p) = -1
      BY <2>3, <2>6
    <3>2. ASSUME WordsDecided(d, x), NEW q \in p..N(x) PROVE ~Proposed(d, x, q)
      <4>1. q \in 0..N(x) /\ p \in Nat /\ p <= q
        BY <1>0
      <4>2. CASE Proposed(d, x, q)
        <5>1. q \in {r \in p..(N(x) - 1) : Candidate(d, x, r)}
          BY <1>0, <2>5, <4>1, <4>2
        <5> QED BY <2>2, <2>6, <3>2, <5>1
      <4> QED BY <4>2
    <3> QED BY <3>1, <3>2
  <2>7. CASE Candidates(d, x, p) # {}
    <3> DEFINE s == Pass0(d, x, p)
    <3>1. s \in Candidates(d, x, p) /\ \A m \in Candidates(d, x, p) : s <= m
      BY <2>4, <2>7
    <3>2. s \in p..(N(x) - 1) /\ Candidate(d, x, s)
      BY <2>2, <3>1
    <3> HIDE DEF s
    <3>3. s \in p..N(x) /\ s \in 0..N(x) /\ s < N(x)
      BY <1>0, <3>2
    <3>4. s \in Candidates(d, x, s)
      BY <2>2, <3>2, <3>3
    <3>5. Proposed(d, x, s)
      <4>1. Pass0(d, x, s) \in Candidates(d, x, s) /\ Pass0(d, x, s) <= s
        BY <2>4, <3>3, <3>4
      <4>2. Pass0(d, x, s) \in s..(N(x) - 1)
        BY <2>2, <3>3, <4>1
      <4> QED BY <3>3, <4>1, <4>2 DEF Proposed
    <3>6. ASSUME WordsDecided(d, x), NEW q \in p..(s - 1) PROVE ~Proposed(d, x, q)
      <4>1. q \in 0..N(x) /\ q < s
        BY <1>0, <3>3
      <4>2. CASE Proposed(d, x, q)
        <5>1. q \in {r \in p..(N(x) - 1) : Candidate(d, x, r)}
          BY <1>0, <2>5, <3>3, <4>1, <4>2
        <5>2. s <= q
          BY <2>2, <3>1, <3>6, <5>1 DEF s
        <5> QED BY <3>3, <4>1, <5>2
      <4> QED BY <4>2
    <3> QED BY <3>3, <3>5, <3>6 DEF s
  <2> QED BY <2>6, <2>7
<1> QED BY <1>1, <1>2

(***************************************************************************)
(* The invariant of a call, and what it implies.                           *)
(***************************************************************************)

\* --- the invariant of passes 0 and 1 -------------------------------------
\* Where no word hides a byte, no start that pass 0 can propose before p has an end.
FailedBefore(d, x, p) ==
  WordsDecided(d, x) => \A q \in 0..(p - 1) : Proposed(d, x, q) => EndOf(d, x, q) < 0

\* The best end e, found at p at the latest, is none yet or at a position where
\* the run from s is in a state that accepts.
AcceptsAtEnd(d, x, s, e, p) ==
  \/ e = None
  \/ /\ e \in Bests(x) /\ e.end \in s..p
     /\ Bytewise(d, x, s)[e.end].state \in States(d)
     /\ IsAccepting(d, Bytewise(d, x, s)[e.end].state)

Chosen ==
  pc \in {"pass1", "pass2", "pass3", "pass4"} =>
    /\ from \in 0..N(in) /\ start \in from..N(in) /\ Pass0(dfa, in, from) = start
    /\ BlocksDecided(dfa) => FailedBefore(dfa, in, from)

\* Passes 1 and 2 are in the state of the byte-by-byte run.
InStep ==
  pc \in {"pass1", "pass2"} =>
    /\ i \in start..N(in) /\ state.to \in States(dfa) /\ prio \in Nat
    /\ Bytewise(dfa, in, start)[i].state = state.to

\* The rest of the run's configuration, when blocks are decided; a flagged loop
\* was entered by a transition that did not stop, so none of its bytes would.
Scanning ==
  pc = "pass1" =>
    /\ state.accept = IsAccepting(dfa, state.to)
    /\ AcceptsAtEnd(dfa, in, start, best, i)
    /\ BlocksDecided(dfa) =>
         /\ Bytewise(dfa, in, start)[i] =
              [state |-> state.to, prio |-> prio, best |-> best, over |-> FALSE]
         /\ state.ccwarp => Harmless(dfa, in, state.to, best, prio)

Matched ==
  pc \in {"pass2", "pass3", "pass4"} =>
    /\ in.op = "submatch" /\ best # None /\ AcceptsAtEnd(dfa, in, start, best, N(in))
    /\ BlocksDecided(dfa) => best.end = EndOf(dfa, in, start)
    /\ pc = "pass2" => i <= best.end

LoopInv ==
  /\ InputOK(in)
  /\ pc \in {"idle", "pass0", "pass1", "pass2", "pass3", "pass4", "done"}
  /\ pc # "idle" => WellFormed(dfa)
  /\ IF pc = "idle" THEN from = 0 /\ best = None ELSE best \in Bests(in)
  /\ pc = "pass0" => /\ from \in 0..(N(in) + 1)
                     /\ BlocksDecided(dfa) => FailedBefore(dfa, in, from)
  /\ Chosen /\ InStep /\ Scanning /\ Matched
  /\ AnswersBytewise

\* --- lemmas --------------------------------------------------------------
LEMMA EndTypes ==
  ASSUME NEW d, NEW x, WellFormed(d), InputOK(x), NEW s \in 0..N(x)
  PROVE  EndOf(d, x, s) \in -1..N(x)
<1>1. N(x) \in s..N(x)
  BY InputTypes
<1>2. Bytewise(d, x, s)[N(x)] \in Configs(d, x)
  BY <1>1, RunTypes
<1> QED BY <1>2 DEF EndOf, Configs, Bests

\* A text that is searched.
LEMMA TextTypes ==
  ASSUME NEW t \in TextsUpTo(MaxTextLength)
  PROVE  t \in Seq(Bytes) /\ Len(t) <= MaxTextLength
<1>1. PICK k \in 0..MaxTextLength : t \in [1..k -> Bytes]
  BY ScanAssumption DEF TextsUpTo
<1>2. k \in Nat /\ k <= MaxTextLength
  BY <1>1, ScanAssumption
<1>3. t \in Seq(Bytes)
  BY <1>1, <1>2
<1>4. Len(t) = k
  BY <1>1, <1>2, <1>3, LenProperties
<1> QED BY <1>2, <1>3, <1>4

LEMMA OneByteSkip ==
  ASSUME NEW d, NEW x, WellFormed(d), InputOK(x), NEW t \in States(d), NEW p \in 0..(N(x) - 1),
         Valid(Transition(d, t, Byte(x, p)))
  PROVE  Skip(x, Transition(d, t, Byte(x, p)), p) = p + 1
<1>1. Byte(x, p) \in Bytes
  BY InputTypes
<1>2. /\ Transition(d, t, Byte(x, p)).warp \in BOOLEAN
      /\ Transition(d, t, Byte(x, p)).warp => GetTrailingByteCount(Byte(x, p)) = 0
  BY <1>1, TransitionTypes
<1>3. p \in Nat
  BY InputTypes
<1> QED BY <1>2, <1>3 DEF Skip

LEMMA HarmlessAfter ==
  ASSUME NEW d, NEW x, WellFormed(d), InputOK(x), NEW raw, raw.to \in States(d),
         raw.accept = IsAccepting(d, raw.to), NEW e \in Bests(x), e = None \/ e.end >= 0,
         NEW p \in 0..N(x), NEW pr \in Nat, ~Stops(d, raw, Better(d, x, e, p, raw, pr))
  PROVE  Harmless(d, x, raw.to, Better(d, x, e, p, raw, pr), pr)
<1> SUFFICES ASSUME IsBestMatch(d, raw.to), Guard(d, raw.to) = {}
    PROVE  /\ x.op = "submatch" /\ Better(d, x, e, p, raw, pr).prio # 0
           /\ pr + MatchP(d, raw.to) # 0
  BY DEF Harmless
<1> DEFINE f == Better(d, x, e, p, raw, pr)
           m == pr + MatchP(d, raw.to)
<1>1. raw.accept = TRUE /\ Holds(x, p, Guard(d, raw.to))
  BY StateTypes DEF Holds, Verify
<1>2. ~(f.end >= 0 /\ f.prio = 0)
  BY <1>1 DEF Stops
<1>3. f = IF x.op = "find" THEN [end |-> p, prio |-> 0]
          ELSE IF m <= e.prio THEN [end |-> p, prio |-> m] ELSE e
  BY <1>1 DEF Better
<1>4. x.op \in {"find", "submatch"} /\ p >= 0 /\ m \in Nat /\ e.prio \in Nat /\ e.end \in Int
  BY StateTypes, InputTypes DEF InputOK, Bests
<1>5. e.prio = 0 => e.end >= 0
  BY NoneTypes
<1> HIDE DEF f, m
<1>6. x.op = "submatch"
  BY <1>2, <1>3, <1>4
<1>7. CASE m <= e.prio
  BY <1>2, <1>3, <1>4, <1>6, <1>7 DEF f, m
<1>8. CASE ~(m <= e.prio)
  <2>1. f = e /\ m # 0
    BY <1>3, <1>4, <1>6, <1>8
  <2> QED BY <1>2, <1>5, <1>6, <2>1 DEF f, m
<1> QED BY <1>7, <1>8

LEMMA BetterAccepts ==
  ASSUME NEW d, NEW x, WellFormed(d), InputOK(x), NEW s \in 0..N(x), NEW e, NEW p \in s..N(x),
         NEW q \in s..p, AcceptsAtEnd(d, x, s, e, q), NEW raw, raw.to \in States(d),
         raw.accept = IsAccepting(d, raw.to), Bytewise(d, x, s)[p].state = raw.to, NEW pr \in Nat
  PROVE  /\ AcceptsAtEnd(d, x, s, e, p) /\ e \in Bests(x) /\ (e = None \/ e.end >= 0)
         /\ AcceptsAtEnd(d, x, s, Better(d, x, e, p, raw, pr), p)
<1>0. N(x) \in Nat
  BY InputTypes
<1>1. e \in Bests(x) /\ (e = None \/ e.end >= 0)
  BY <1>0, NoneTypes DEF AcceptsAtEnd
<1>2. AcceptsAtEnd(d, x, s, e, p)
  BY <1>0 DEF AcceptsAtEnd
<1> DEFINE f == Better(d, x, e, p, raw, pr)
<1>3. f \in Bests(x) /\ (f = e \/ (raw.accept /\ f.end = p))
  BY <1>0, <1>1, BetterTypes
<1> HIDE DEF f
<1>4. AcceptsAtEnd(d, x, s, f, p)
  <2>1. CASE f = e
    BY <1>2, <2>1
  <2>2. CASE raw.accept /\ f.end = p
    <3>1. IsAccepting(d, Bytewise(d, x, s)[f.end].state) /\ Bytewise(d, x, s)[f.end].state \in States(d)
      BY <2>2
    <3>2. f.end \in s..p
      BY <1>0, <2>2
    <3> QED BY <1>3, <3>1, <3>2 DEF AcceptsAtEnd
  <2> QED BY <1>3, <2>1, <2>2
<1> QED BY <1>1, <1>2, <1>4 DEF f

LEMMA AcceptsLater ==
  ASSUME NEW d, NEW x, InputOK(x), NEW s \in 0..N(x), NEW p \in s..N(x), NEW q \in s..p, NEW e,
         AcceptsAtEnd(d, x, s, e, q)
  PROVE  AcceptsAtEnd(d, x, s, e, p)
<1>1. N(x) \in Nat
  BY InputTypes
<1> QED BY <1>1 DEF AcceptsAtEnd

\* --- the answer ----------------------------------------------------------
\* What AnswersBytewise says of a result.
Answered(d, x, r) ==
  LET found    == {p \in 0..N(x) : Proposed(d, x, p) /\ EndOf(d, x, p) >= 0}
      Least(s) == WordsDecided(d, x) => \A p \in found : s <= p
  IN  IF r = NoMatch THEN WordsDecided(d, x) => found = {}
      ELSE \E s \in found : Least(s) /\ <<r[1], r[2]>> = Span(x, s, EndOf(d, x, s))

\* The start pass 0 answers with is proposed, and nothing before it is but what failed.
LEMMA AnswerFound ==
  ASSUME NEW d, NEW x, WellFormed(d), InputOK(x), NEW p \in 0..N(x), FailedBefore(d, x, p),
         NEW s \in p..N(x), Pass0(d, x, p) = s, EndOf(d, x, s) >= 0,
         NEW r, r # NoMatch, <<r[1], r[2]>> = Span(x, s, EndOf(d, x, s))
  PROVE  Answered(d, x, r)
<1> DEFINE found == {q \in 0..N(x) : Proposed(d, x, q) /\ EndOf(d, x, q) >= 0}
<1>0. N(x) \in Nat /\ s # -1 /\ s \in 0..N(x)
  BY InputTypes
<1>1. Proposed(d, x, s) /\ (WordsDecided(d, x) => \A q \in p..(s - 1) : ~Proposed(d, x, q))
  BY <1>0, Pass0Least
<1>2. s \in found
  BY <1>0, <1>1
<1>3. ASSUME WordsDecided(d, x), NEW q \in found PROVE s <= q
  <2>1. q \in 0..N(x) /\ Proposed(d, x, q) /\ EndOf(d, x, q) >= 0
    OBVIOUS
  <2>2. EndOf(d, x, q) \in -1..N(x)
    BY <2>1, EndTypes
  <2>3. ~(q \in 0..(p - 1))
    BY <1>0, <1>3, <2>1, <2>2 DEF FailedBefore
  <2>4. ~(q \in p..(s - 1))
    BY <1>1, <1>3, <2>1
  <2> QED BY <1>0, <2>1, <2>3, <2>4
<1> HIDE DEF found
<1>4. r # NoMatch /\ \E t \in found : /\ WordsDecided(d, x) => \A q \in found : t <= q
                                      /\ <<r[1], r[2]>> = Span(x, t, EndOf(d, x, t))
  BY <1>2, <1>3
<1> QED BY <1>4 DEF Answered, found

LEMMA AnswerNone ==
  ASSUME NEW d, NEW x, WellFormed(d), InputOK(x), NEW p \in 0..(N(x) + 1), FailedBefore(d, x, p),
         p <= N(x) => Pass0(d, x, p) < 0
  PROVE  Answered(d, x, NoMatch)
<1> DEFINE found == {q \in 0..N(x) : Proposed(d, x, q) /\ EndOf(d, x, q) >= 0}
<1>0. N(x) \in Nat
  BY InputTypes
<1>1. ASSUME WordsDecided(d, x), NEW q \in 0..N(x) PROVE ~(Proposed(d, x, q) /\ EndOf(d, x, q) >= 0)
  <2>1. EndOf(d, x, q) \in -1..N(x)
    BY EndTypes
  <2>2. CASE q \in 0..(p - 1)
    BY <1>0, <1>1, <2>1, <2>2 DEF FailedBefore
  <2>3. CASE q \notin 0..(p - 1)
    <3>1. p \in 0..N(x) /\ q \in p..N(x) /\ Pass0(d, x, p) < 0
      BY <1>0, <2>3
    <3>2. Pass0(d, x, p) \notin p..N(x)
      BY <1>0, <3>1
    <3> QED BY <1>1, <3>1, <3>2, Pass0Least
  <2> QED BY <2>2, <2>3
<1>2. WordsDecided(d, x) => found = {}
  BY <1>1
<1> QED BY <1>2 DEF Answered

\* --- pass 1 is over ------------------------------------------------------
LEMMA ConcludeInv ==
  ASSUME LoopInv, pc = "pass1", NEW b, AcceptsAtEnd(dfa, in, start, b, N(in)),
         BlocksDecided(dfa) => b.end = EndOf(dfa, in, start),
         Conclude(b), UNCHANGED <<in, start, dfa>>
  PROVE  LoopInv'
<1>0. /\ InputOK(in) /\ N(in) \in Nat /\ WellFormed(dfa)
      /\ from \in 0..N(in) /\ start \in from..N(in) /\ Pass0(dfa, in, from) = start
      /\ BlocksDecided(dfa) => FailedBefore(dfa, in, from)
      /\ in' = in /\ dfa' = dfa /\ start' = start /\ best' = b /\ in.op \in {"find", "submatch"}
  BY InputTypes DEF LoopInv, Chosen, Conclude, InputOK
<1>1. start \in 0..N(in)
  BY <1>0
<1>2. b = None \/ (b.end \in start..N(in) /\ b \in Bests(in))
  BY DEF AcceptsAtEnd
<1>3. None.end = -1 /\ b \in Bests(in)
  BY <1>0, <1>2, NoneTypes
<1>4. CASE b.end < 0
  <2>1. pc' = "pass0" /\ from' = from + 1
    BY <1>4 DEF Conclude
  <2>2. from + 1 \in 0..(N(in) + 1)
    BY <1>0
  <2>3. ASSUME BlocksDecided(dfa) PROVE FailedBefore(dfa, in, from + 1)
    <3>1. ASSUME WordsDecided(dfa, in), NEW q \in 0..from, Proposed(dfa, in, q) PROVE EndOf(dfa, in, q) < 0
      <4>1. CASE q = from
        BY <1>0, <1>4, <2>3, <3>1, <4>1 DEF Proposed
      <4>2. CASE q # from
        <5>1. q \in 0..(from - 1)
          BY <1>0, <4>2
        <5> QED BY <1>0, <2>3, <3>1, <5>1 DEF FailedBefore
      <4> QED BY <4>1, <4>2
    <3>2. 0..((from + 1) - 1) = 0..from
      BY <1>0
    <3> QED BY <3>1, <3>2 DEF FailedBefore
  <2> QED BY <1>0, <1>3, <2>1, <2>2, <2>3 DEF LoopInv, Chosen, InStep, Scanning, Matched, AnswersBytewise
<1>5. CASE ~(b.end < 0) /\ in.op = "find"
  <2>1. pc' = "done" /\ result' = Span(in, start, b.end)
    BY <1>5 DEF Conclude, Return
  <2>2. ASSUME BlocksDecided(dfa) PROVE Answered(dfa, in, result')
    <3>1. EndOf(dfa, in, start) >= 0 /\ FailedBefore(dfa, in, from)
      BY <1>0, <1>2, <1>3, <1>5, <2>2
    <3>2. result' # NoMatch /\ <<result'[1], result'[2]>> = Span(in, start, EndOf(dfa, in, start))
      BY <2>1, <2>2 DEF Span, NoMatch
    <3> QED BY <1>0, <3>1, <3>2, AnswerFound
  <2>3. AnswersBytewise'
    BY <1>0, <2>2 DEF AnswersBytewise, Answered
  <2> QED BY <1>0, <1>3, <2>1, <2>3 DEF LoopInv, Chosen, InStep, Scanning, Matched
<1>6. CASE ~(b.end < 0) /\ in.op # "find"
  <2>1. pc' = "pass2" /\ i' = start /\ state' = MatchState(dfa) /\ prio' = 0 /\ from' = from
    BY <1>6 DEF Conclude
  <2>2. b # None /\ i' <= b.end /\ b.end \in start..N(in)
    BY <1>0, <1>2, <1>3, <1>6, <2>1
  <2>3. Bytewise(dfa, in, start)[start].state = 1
    <3>1. Bytewise(dfa, in, start)[start] = FirstConfig(dfa, in, start)
      BY <1>0, <1>1, RunTypes
    <3> QED BY <3>1 DEF FirstConfig
  <2>4. state'.to = 1 /\ 1 \in States(dfa)
    BY <1>0, <2>1, StartTypes
  <2>5. InStep'
    BY <1>0, <2>1, <2>3, <2>4 DEF InStep
  <2>6. Matched' /\ Scanning' /\ Chosen' /\ AnswersBytewise'
    BY <1>0, <1>6, <2>1, <2>2 DEF Matched, Scanning, Chosen, AnswersBytewise
  <2> QED BY <1>0, <1>3, <2>1, <2>5, <2>6 DEF LoopInv
<1> QED BY <1>4, <1>5, <1>6

\* --- the actions ---------------------------------------------------------
LEMMA CallInv == ASSUME LoopInv, WellFormed(dfa), Call, UNCHANGED dfa PROVE LoopInv'
<1>1. PICK op \in {"find", "submatch"}, t \in TextsUpTo(MaxTextLength) : \E p \in 0..Len(t) :
        ValidUTF8(t) /\ in' = [op |-> op, text |-> t, absPos |-> p]
  BY DEF Call
<1>2. t \in Seq(Bytes) /\ Len(t) <= MaxTextLength /\ ValidUTF8(t)
  BY <1>1, TextTypes
<1>3. InputOK(in')
  BY <1>1, <1>2 DEF InputOK
<1>4. N(in') \in Nat
  BY <1>3, InputTypes
<1>5. pc' = "pass0" /\ from' = 0 /\ dfa' = dfa /\ best' = None
  BY DEF Call, LoopInv, loopVars
<1>6. FailedBefore(dfa', in', 0)
  BY DEF FailedBefore
<1>7. best' \in Bests(in')
  BY <1>3, <1>5, NoneTypes
<1> QED BY <1>3, <1>4, <1>5, <1>6, <1>7 DEF LoopInv, Chosen, InStep, Scanning, Matched, AnswersBytewise

LEMMA DiscoverInv == ASSUME LoopInv, Discover, UNCHANGED dfa PROVE LoopInv'
<1> DEFINE s == IF from > N(in) THEN -1 ELSE Pass0(dfa, in, from)
<1>0. /\ pc = "pass0" /\ InputOK(in) /\ N(in) \in Nat /\ WellFormed(dfa) /\ from \in 0..(N(in) + 1)
      /\ BlocksDecided(dfa) => FailedBefore(dfa, in, from)
      /\ in' = in /\ dfa' = dfa /\ best \in Bests(in)
  BY InputTypes DEF LoopInv, Discover
<1>1. CASE s < 0
  <2>1. pc' = "done" /\ result' = NoMatch /\ best' = best
    BY <1>1 DEF Discover, Return, loopVars
  <2>2. ASSUME BlocksDecided(dfa) PROVE Answered(dfa, in, NoMatch)
    <3>1. from <= N(in) => Pass0(dfa, in, from) < 0
      BY <1>0, <1>1
    <3> QED BY <1>0, <2>2, <3>1, AnswerNone
  <2>3. AnswersBytewise'
    BY <1>0, <2>1, <2>2 DEF AnswersBytewise, Answered
  <2> QED BY <1>0, <2>1, <2>3 DEF LoopInv, Chosen, InStep, Scanning, Matched
<1>2. CASE ~(s < 0)
  <2>1. /\ pc' = "pass1" /\ start' = s /\ i' = s /\ prio' = 0 /\ state' = MatchState(dfa)
        /\ best' = Better(dfa, in, None, s, MatchState(dfa), 0) /\ from' = from
    BY <1>2 DEF Discover
  <2>2. from \in 0..N(in) /\ s = Pass0(dfa, in, from)
    BY <1>0, <1>2
  <2>3. s \in from..N(in)
    <3>1. Pass0(dfa, in, from) # -1
      BY <1>2, <2>2
    <3> QED BY <1>0, <2>2, <3>1, Pass0Least
  <2> HIDE DEF s
  <2>4. s \in 0..N(in) /\ s \in s..N(in) /\ s \in s..s
    BY <1>0, <2>3
  <2>5. Bytewise(dfa, in, s)[s] = FirstConfig(dfa, in, s)
    BY <1>0, <2>4, RunTypes
  <2>6. MatchState(dfa).to = 1 /\ 1 \in States(dfa) /\ MatchState(dfa).ccwarp = FALSE
          /\ MatchState(dfa).accept = IsAccepting(dfa, 1)
    BY <1>0, StartTypes
  <2>7. AcceptsAtEnd(dfa, in, s, best', s)
    <3>1. AcceptsAtEnd(dfa, in, s, None, s)
      BY DEF AcceptsAtEnd
    <3>2. Bytewise(dfa, in, s)[s].state = MatchState(dfa).to
      BY <2>5, <2>6 DEF FirstConfig
    <3> QED BY <1>0, <2>1, <2>4, <2>6, <3>1, <3>2, BetterAccepts
  <2>8. Bytewise(dfa, in, s)[s] = [state |-> 1, prio |-> 0, best |-> best', over |-> FALSE]
    BY <2>1, <2>5 DEF FirstConfig
  <2>9. Chosen' /\ InStep'
    BY <1>0, <2>1, <2>2, <2>3, <2>4, <2>6, <2>8 DEF Chosen, InStep
  <2>10. Scanning'
    BY <1>0, <2>1, <2>6, <2>7, <2>8 DEF Scanning
  <2>11. best' \in Bests(in)
    BY <1>0, <2>7, NoneTypes DEF AcceptsAtEnd
  <2> QED BY <1>0, <2>1, <2>9, <2>10, <2>11 DEF LoopInv, Matched, AnswersBytewise
<1> QED BY <1>1, <1>2

\* Passes 3 and 4 leave the choice of passes 0 to 2 alone.
LEMMA TagStepInv ==
  ASSUME LoopInv, SelectPath \/ StartRecap \/ Recap, UNCHANGED dfa
  PROVE  LoopInv'
<1>1. /\ pc \in {"pass3", "pass4"} /\ pc' \in {"pass3", "pass4"} /\ dfa' = dfa
      /\ in' = in /\ from' = from /\ start' = start /\ best' = best
  BY DEF SelectPath, StartRecap, Recap
<1> QED BY <1>1 DEF LoopInv, Chosen, InStep, Scanning, Matched, AnswersBytewise

LEMMA EndRecapInv == ASSUME LoopInv, EndRecap, UNCHANGED dfa PROVE LoopInv'
<1>1. /\ pc = "pass4" /\ pc' = "done" /\ dfa' = dfa /\ in' = in
      /\ InputOK(in) /\ WellFormed(dfa) /\ N(in) \in Nat
      /\ from \in 0..N(in) /\ start \in from..N(in) /\ Pass0(dfa, in, from) = start
      /\ BlocksDecided(dfa) => FailedBefore(dfa, in, from) /\ best.end = EndOf(dfa, in, start)
      /\ best # None /\ AcceptsAtEnd(dfa, in, start, best, N(in)) /\ best' = best
  BY InputTypes DEF LoopInv, Chosen, Matched, EndRecap, Return, loopVars
<1>2. dfa.groups \in Nat
  BY <1>1, StartTypes
<1>3. /\ 1 \in DOMAIN result' /\ 2 \in DOMAIN result'
      /\ result'[1] = start + in.absPos /\ result'[2] = best.end + in.absPos
  BY <1>2 DEF EndRecap, Return
<1>4. result' # NoMatch
  BY <1>3 DEF NoMatch
<1>5. best.end >= 0
  BY <1>1 DEF AcceptsAtEnd
<1>6. ASSUME BlocksDecided(dfa) PROVE Answered(dfa, in, result')
  <2>1. <<result'[1], result'[2]>> = Span(in, start, EndOf(dfa, in, start))
    BY <1>1, <1>3, <1>6 DEF Span
  <2> QED BY <1>1, <1>4, <1>5, <1>6, <2>1, AnswerFound
<1>7. AnswersBytewise'
  BY <1>1, <1>6 DEF AnswersBytewise, Answered
<1> QED BY <1>1, <1>7 DEF LoopInv, Chosen, InStep, Scanning, Matched

LEMMA TakeInv == ASSUME LoopInv, Take, UNCHANGED dfa PROVE LoopInv'
<1>1. pc' = "idle" /\ in' = NoInput /\ from' = 0 /\ best' = None
  BY DEF Take
<1>2. InputOK(in')
  BY <1>1, ScanAssumption DEF InputOK, NoInput, ValidUTF8
<1> QED BY <1>1, <1>2 DEF LoopInv, Chosen, InStep, Scanning, Matched, AnswersBytewise

\* The position a turn of pass 1 or 2 skips to: the run is in the state again,
\* for it cannot be inside a rune at the end of the text, nor where it accepts.
LEMMA SkipWalk ==
  ASSUME NEW d, NEW x, WellFormed(d), InputOK(x), NEW s \in 0..N(x), NEW p \in s..N(x),
         NEW limit \in p..N(x), NEW t \in States(d), Bytewise(d, x, s)[p].state = t,
         limit = N(x) \/ IsAccepting(d, Bytewise(d, x, s)[limit].state),
         NEW flag, NEW j, j = IF flag THEN WarpTo(d, x, t, p, limit) ELSE p
  PROVE  /\ j \in p..limit /\ Bytewise(d, x, s)[j].state = t
         /\ \A q \in p..(j - 1) : Byte(x, q) \in WarpBytes(d, t)
         /\ flag => j = limit \/ Byte(x, j) \notin WarpBytes(d, t)
<1>0. N(x) \in Nat /\ p \in Int /\ limit \in Int /\ p <= limit
  BY InputTypes
<1>1. /\ j \in p..limit /\ \A q \in p..(j - 1) : Byte(x, q) \in WarpBytes(d, t)
      /\ flag => j = limit \/ Byte(x, j) \notin WarpBytes(d, t)
  <2>1. CASE flag
    BY <1>0, <2>1, WarpEnds
  <2>2. CASE ~flag
    BY <1>0, <2>2
  <2> QED BY <2>1, <2>2
<1>2. j \in p..N(x) /\ j \in 0..N(x)
  BY <1>0, <1>1
<1>3. Bytewise(d, x, s)[j].state = t
  <2>1. CASE ~flag
    BY <2>1
  <2>2. CASE flag
    <3>1. PICK m \in 0..3 : Midway(d, x, t, j, Bytewise(d, x, s)[j].state, m)
      BY <1>1, <1>2, BlockWalk
    <3>2. CASE j = N(x) \/ Byte(x, j) \notin WarpBytes(d, t)
      BY <1>2, <3>1, <3>2, BlockCut
    <3>3. CASE ~(j = N(x) \/ Byte(x, j) \notin WarpBytes(d, t))
      <4>1. j = limit /\ IsAccepting(d, Bytewise(d, x, s)[j].state)
        BY <1>1, <2>2, <3>3
      <4>2. ~(m \in 1..3)
        BY <3>1, <4>1, InsideTypes DEF Midway
      <4>3. m = 0
        BY <4>2
      <4> QED BY <3>1, <4>3 DEF Midway, Inside
    <3> QED BY <3>2, <3>3
  <2> QED BY <2>1, <2>2
<1> QED BY <1>1, <1>3

LEMMA RecordInv == ASSUME LoopInv, Record, UNCHANGED dfa PROVE LoopInv'
<1> DEFINE j   == IF state.ccwarp THEN WarpTo(dfa, in, state.to, i, best.end) ELSE i
           raw == Transition(dfa, state.to, Byte(in, i))
<1>0. /\ pc = "pass2" /\ InputOK(in) /\ N(in) \in Nat /\ WellFormed(dfa)
      /\ dfa' = dfa /\ in' = in /\ from' = from /\ start' = start /\ best' = best /\ result' = result
      /\ from \in 0..N(in) /\ start \in from..N(in)
      /\ i \in start..N(in) /\ state.to \in States(dfa) /\ prio \in Nat
      /\ Bytewise(dfa, in, start)[i].state = state.to
      /\ best # None /\ AcceptsAtEnd(dfa, in, start, best, N(in)) /\ i <= best.end /\ best \in Bests(in)
  BY InputTypes DEF LoopInv, Record, Chosen, InStep, Matched
<1>1. best.end \in i..N(in) /\ start \in 0..N(in)
        /\ IsAccepting(dfa, Bytewise(dfa, in, start)[best.end].state)
  BY <1>0 DEF AcceptsAtEnd
<1>2. CASE i >= best.end \/ (j = i /\ ~CanStep(in, raw, i))
  <2>1. pc' = "pass3"
    BY <1>2 DEF Record
  <2> QED BY <1>0, <2>1 DEF LoopInv, Chosen, InStep, Scanning, Matched, AnswersBytewise
<1>3. CASE ~(i >= best.end \/ (j = i /\ ~CanStep(in, raw, i)))
  <2>1. pc' = "pass2"
    BY <1>0, <1>3 DEF Record
  <2>2. j \in i..best.end /\ Bytewise(dfa, in, start)[j].state = state.to
    <3>1. j = IF state.ccwarp THEN WarpTo(dfa, in, state.to, i, best.end) ELSE i
      OBVIOUS
    <3> HIDE DEF j
    <3> QED BY <1>0, <1>1, <3>1, SkipWalk
  <2>3. CASE j > i
    <3>1. i' = j /\ state' = state /\ prio' = prio
      BY <1>3, <2>3 DEF Record
    <3> HIDE DEF j, raw
    <3>2. j \in start..N(in) /\ j <= best.end
      BY <1>0, <1>1, <2>2
    <3>3. InStep'
      BY <1>0, <2>1, <2>2, <3>1, <3>2 DEF InStep
    <3>4. Matched' /\ Chosen' /\ Scanning' /\ AnswersBytewise'
      BY <1>0, <2>1, <3>1, <3>2 DEF Matched, Chosen, Scanning, AnswersBytewise, LoopInv
    <3> QED BY <1>0, <2>1, <3>3, <3>4 DEF LoopInv
  <2>4. CASE ~(j > i)
    <3>1. j = i
      BY <1>0, <1>1, <2>2, <2>4
    <3>2. CanStep(in, raw, i) /\ i < best.end
      BY <1>0, <1>1, <1>3, <3>1
    <3>3. i' = Skip(in, raw, i) /\ state' = raw /\ prio' = prio + raw.delta
      BY <1>3, <2>4 DEF Record
    <3>4. i \in start..(N(in) - 1) /\ i \in 0..(N(in) - 1) /\ Byte(in, i) \in Bytes
      BY <1>0, <1>1, <3>2, InputTypes
    <3>5. Valid(raw)
      BY <3>2 DEF CanStep
    <3>6. raw.to \in States(dfa) /\ raw.delta \in Nat
      BY <1>0, <3>4, <3>5, TransitionTypes
    <3>7. i' = i + 1
      BY <1>0, <3>3, <3>4, <3>5, OneByteSkip
    <3>8. Bytewise(dfa, in, start)[i + 1].state = raw.to
      <4>1. Bytewise(dfa, in, start)[i].state \in States(dfa)
        BY <1>0
      <4>2. Bytewise(dfa, in, start)[i + 1] = Taken(dfa, in, Bytewise(dfa, in, start)[i], raw, i + 1)
        BY <1>0, <1>1, <3>2, <3>4, <4>1, OneByte
      <4> QED BY <4>2 DEF Taken
    <3> HIDE DEF j, raw
    <3>9. i + 1 \in start..N(in) /\ i + 1 <= best.end /\ prio' \in Nat
      BY <1>0, <1>1, <3>2, <3>3, <3>6
    <3>10. InStep'
      BY <1>0, <2>1, <3>3, <3>6, <3>7, <3>8, <3>9 DEF InStep
    <3>11. Matched' /\ Chosen' /\ Scanning' /\ AnswersBytewise'
      BY <1>0, <2>1, <3>7, <3>9 DEF Matched, Chosen, Scanning, AnswersBytewise, LoopInv
    <3> QED BY <1>0, <2>1, <3>10, <3>11 DEF LoopInv
  <2> QED BY <2>3, <2>4
<1> QED BY <1>2, <1>3

LEMMA BoundaryInv == ASSUME LoopInv, Boundary, UNCHANGED dfa PROVE LoopInv'
<1> DEFINE j      == IF state.ccwarp THEN WarpTo(dfa, in, state.to, i, N(in)) ELSE i
           warped == IF j > i THEN Better(dfa, in, best, j, state, prio) ELSE best
           raw    == Transition(dfa, state.to, Byte(in, j))
           next   == Skip(in, raw, j)
           pr     == prio + raw.delta
           b      == Better(dfa, in, warped, next, raw, pr)
<1>0. /\ pc = "pass1" /\ InputOK(in) /\ N(in) \in Nat /\ WellFormed(dfa)
      /\ dfa' = dfa /\ in' = in /\ start' = start
      /\ from \in 0..N(in) /\ start \in from..N(in)
      /\ i \in start..N(in) /\ state.to \in States(dfa) /\ prio \in Nat
      /\ Bytewise(dfa, in, start)[i].state = state.to
      /\ state.accept = IsAccepting(dfa, state.to) /\ AcceptsAtEnd(dfa, in, start, best, i)
  BY InputTypes DEF LoopInv, Boundary, Chosen, InStep, Scanning
<1>d. ASSUME BlocksDecided(dfa)
      PROVE  /\ Bytewise(dfa, in, start)[i] =
                  [state |-> state.to, prio |-> prio, best |-> best, over |-> FALSE]
             /\ state.ccwarp => Harmless(dfa, in, state.to, best, prio)
  BY <1>0, <1>d DEF LoopInv, Scanning
<1>1. start \in 0..N(in) /\ N(in) \in i..N(in)
  BY <1>0
<1>2. /\ j \in i..N(in) /\ Bytewise(dfa, in, start)[j].state = state.to
      /\ \A q \in i..(j - 1) : Byte(in, q) \in WarpBytes(dfa, state.to)
      /\ state.ccwarp => j = N(in) \/ Byte(in, j) \notin WarpBytes(dfa, state.to)
  <2>1. j = IF state.ccwarp THEN WarpTo(dfa, in, state.to, i, N(in)) ELSE i
    OBVIOUS
  <2> HIDE DEF j
  <2> QED BY <1>0, <1>1, <2>1, SkipWalk
<1>3. /\ AcceptsAtEnd(dfa, in, start, warped, j) /\ warped \in Bests(in)
      /\ (warped = None \/ warped.end >= 0)
  <2>1. j \in start..N(in) /\ i \in start..j /\ j \in start..j
    BY <1>0, <1>2
  <2>2. /\ AcceptsAtEnd(dfa, in, start, best, j)
        /\ AcceptsAtEnd(dfa, in, start, Better(dfa, in, best, j, state, prio), j)
    <3> HIDE DEF j
    <3> QED BY <1>0, <1>1, <1>2, <2>1, BetterAccepts
  <2>3. AcceptsAtEnd(dfa, in, start, warped, j)
    BY <2>2
  <2> HIDE DEF j, warped
  <2> QED BY <1>0, <1>1, <1>2, <2>1, <2>3, BetterAccepts
<1>4. ASSUME BlocksDecided(dfa)
      PROVE  Bytewise(dfa, in, start)[j] =
               [state |-> state.to, prio |-> prio, best |-> warped, over |-> FALSE]
  <2>1. CASE state.ccwarp
    <3>1. /\ ~Bytewise(dfa, in, start)[i].over /\ Bytewise(dfa, in, start)[i].best = best
          /\ Bytewise(dfa, in, start)[i].prio = prio
          /\ Harmless(dfa, in, state.to, Bytewise(dfa, in, start)[i].best, Bytewise(dfa, in, start)[i].prio)
      BY <1>d, <1>4, <2>1
    <3>2. Bytewise(dfa, in, start)[j] =
             [state |-> state.to, prio |-> prio, over |-> FALSE,
              best |-> IF j > i THEN Better(dfa, in, best, j, state, prio) ELSE best]
      <4> DEFINE c == Bytewise(dfa, in, start)[i]
      <4> HIDE DEF j
      <4>1. Bytewise(dfa, in, start)[j] = SkippedTo(dfa, in, c, i, j, state)
        <5>1. /\ WellFormed(dfa) /\ InputOK(in) /\ start \in 0..N(in) /\ i \in start..N(in)
              /\ j \in i..N(in) /\ state.to \in States(dfa) /\ c.state = state.to /\ ~c.over
              /\ state.accept = IsAccepting(dfa, state.to)
              /\ \A q \in i..(j - 1) : Byte(in, q) \in WarpBytes(dfa, state.to)
              /\ j = N(in) \/ Byte(in, j) \notin WarpBytes(dfa, state.to)
              /\ Harmless(dfa, in, state.to, c.best, c.prio)
          BY <1>0, <1>1, <1>2, <2>1, <3>1
        <5> QED BY <1>4, <5>1, BlockBest
      <4> QED BY <3>1, <4>1 DEF SkippedTo
    <3> QED BY <3>2
  <2>2. CASE ~state.ccwarp
    <3>1. j = i /\ warped = best
      BY <1>0, <2>2
    <3> QED BY <1>d, <1>4, <3>1
  <2> QED BY <2>1, <2>2
<1>5. CASE j = N(in) \/ ~CanStep(in, raw, j)
  <2>1. Conclude(warped)
    BY <1>5 DEF Boundary
  <2>2. j \in start..N(in) /\ N(in) \in start..N(in)
    BY <1>0, <1>2
  <2>3. AcceptsAtEnd(dfa, in, start, warped, N(in))
    <3> HIDE DEF j, warped
    <3> QED BY <1>0, <1>1, <1>3, <2>2, AcceptsLater
  <2>4. ASSUME BlocksDecided(dfa) PROVE warped.end = EndOf(dfa, in, start)
    <3>1. CASE j = N(in)
      BY <1>4, <2>4, <3>1 DEF EndOf
    <3>2. CASE j # N(in)
      <4>1. j \in start..(N(in) - 1) /\ j + 1 \in start..N(in)
        BY <1>0, <2>2, <3>2
      <4>2. Bytewise(dfa, in, start)[j].state \in States(dfa)
        BY <1>0, <1>2
      <4>3. /\ Bytewise(dfa, in, start)[j + 1].state = NoState
            /\ Bytewise(dfa, in, start)[j + 1].best = Bytewise(dfa, in, start)[j].best
        <5>1. ~CanStep(in, Transition(dfa, Bytewise(dfa, in, start)[j].state, Byte(in, j)), j)
          BY <1>2, <1>5, <3>2
        <5> HIDE DEF j, raw
        <5> QED BY <1>0, <1>1, <4>1, <4>2, <5>1, OneByte
      <4>4. EndOf(dfa, in, start) = Bytewise(dfa, in, start)[j + 1].best.end
        <5> HIDE DEF j
        <5> QED BY <1>0, <1>1, <4>1, <4>3, EndIsKept
      <4>5. Bytewise(dfa, in, start)[j].best = warped
        <5> HIDE DEF j, warped
        <5> QED BY <1>4, <2>4
      <4> QED BY <4>3, <4>4, <4>5
    <3> QED BY <3>1, <3>2
  <2> HIDE DEF warped, j
  <2> QED BY <1>0, <2>1, <2>3, <2>4, ConcludeInv
<1>6. CASE ~(j = N(in) \/ ~CanStep(in, raw, j))
  <2>1. IF Stops(dfa, raw, b) THEN Conclude(b)
        ELSE /\ i' = next /\ state' = raw /\ prio' = pr /\ best' = b
             /\ UNCHANGED <<pc, from, result>>
    BY <1>6 DEF Boundary
  <2>2. j \in start..(N(in) - 1) /\ j \in 0..(N(in) - 1) /\ j + 1 \in start..N(in) /\ j + 1 \in 0..N(in)
          /\ j \in start..(j + 1) /\ j + 1 \in start..(j + 1)
    BY <1>0, <1>2, <1>6
  <2>3. Byte(in, j) \in Bytes
    BY <1>0, <2>2, InputTypes
  <2>4. Valid(raw)
    BY <1>6 DEF CanStep
  <2>5. raw.to \in States(dfa) /\ raw.delta \in Nat /\ raw.accept = IsAccepting(dfa, raw.to)
    <3> HIDE DEF j
    <3> QED BY <1>0, <2>3, <2>4, TransitionTypes
  <2>6. next = j + 1
    <3> HIDE DEF j
    <3> QED BY <1>0, <2>2, <2>4, OneByteSkip
  <2>7. Bytewise(dfa, in, start)[j + 1] = Taken(dfa, in, Bytewise(dfa, in, start)[j], raw, j + 1)
    <3>1. Bytewise(dfa, in, start)[j].state \in States(dfa)
      BY <1>0, <1>2
    <3>2. CanStep(in, Transition(dfa, Bytewise(dfa, in, start)[j].state, Byte(in, j)), j)
      BY <1>2, <1>6
    <3>3. raw = Transition(dfa, Bytewise(dfa, in, start)[j].state, Byte(in, j))
      BY <1>2
    <3> HIDE DEF j, raw
    <3> QED BY <1>0, <1>1, <2>2, <3>1, <3>2, <3>3, OneByte
  <2>8. Bytewise(dfa, in, start)[j + 1].state = raw.to
    BY <2>7 DEF Taken
  <2>9. pr \in Nat
    <3> HIDE DEF raw
    <3> QED BY <1>0, <2>5
  <2>10. AcceptsAtEnd(dfa, in, start, b, j + 1)
    <3>1. AcceptsAtEnd(dfa, in, start, Better(dfa, in, warped, j + 1, raw, pr), j + 1)
      <4> HIDE DEF j, warped, raw, pr
      <4> QED BY <1>0, <1>1, <1>3, <2>2, <2>5, <2>8, <2>9, BetterAccepts
    <3> HIDE DEF j, warped, raw, pr, next
    <3> QED BY <2>6, <3>1
  <2>11. ASSUME BlocksDecided(dfa)
         PROVE  Bytewise(dfa, in, start)[j + 1] =
                  [state |-> raw.to, prio |-> pr, best |-> b, over |-> FALSE \/ Stops(dfa, raw, b)]
    <3>1. Bytewise(dfa, in, start)[j] =
             [state |-> state.to, prio |-> prio, best |-> warped, over |-> FALSE]
      <4> HIDE DEF j, warped
      <4> QED BY <1>4, <2>11
    <3> HIDE DEF j, warped, raw, next
    <3>2. b = Better(dfa, in, warped, j + 1, raw, prio + raw.delta)
      BY <2>6
    <3> HIDE DEF b
    <3> QED BY <2>7, <3>1, <3>2 DEF Taken
  <2>12. CASE Stops(dfa, raw, b)
    <3>1. Conclude(b)
      BY <2>1, <2>12
    <3> HIDE DEF j, warped, raw, next, pr, b
    <3>2. N(in) \in start..N(in) /\ j + 1 \in start..N(in)
      BY <1>0, <2>2
    <3>3. AcceptsAtEnd(dfa, in, start, b, N(in))
      BY <1>0, <1>1, <2>10, <3>2, AcceptsLater
    <3>4. ASSUME BlocksDecided(dfa) PROVE b.end = EndOf(dfa, in, start)
      <4>0. (FALSE \/ Stops(dfa, raw, b)) = TRUE
        BY <2>12
      <4>3. Bytewise(dfa, in, start)[j + 1] =
               [state |-> raw.to, prio |-> pr, best |-> b, over |-> TRUE]
        BY <2>11, <3>4, <4>0
      <4>1. Bytewise(dfa, in, start)[j + 1].over /\ Bytewise(dfa, in, start)[j + 1].best = b
        BY <4>3
      <4>2. EndOf(dfa, in, start) = Bytewise(dfa, in, start)[j + 1].best.end
        BY <1>0, <1>1, <3>2, <4>1, EndIsKept
      <4> QED BY <4>1, <4>2
    <3> QED BY <1>0, <3>1, <3>3, <3>4, ConcludeInv
  <2>13. CASE ~Stops(dfa, raw, b)
    <3>1. /\ i' = j + 1 /\ state' = raw /\ prio' = pr /\ best' = b
          /\ pc' = pc /\ from' = from /\ result' = result
      <4> HIDE DEF j, warped, raw, next, pr, b
      <4> QED BY <2>1, <2>6, <2>13
    <3>2. ASSUME BlocksDecided(dfa) PROVE Harmless(dfa, in, raw.to, b, pr)
      <4>1. b = Better(dfa, in, warped, j + 1, raw, pr)
        <5> HIDE DEF j, warped, raw, next, pr
        <5> QED BY <2>6
      <4> HIDE DEF j, warped, raw, next, pr, b
      <4> QED BY <1>0, <1>3, <2>2, <2>5, <2>9, <2>13, <4>1, HarmlessAfter
    <3> HIDE DEF j, warped, raw, next, pr, b
    <3>3. ASSUME BlocksDecided(dfa)
          PROVE  Bytewise(dfa, in, start)[j + 1] =
                   [state |-> raw.to, prio |-> pr, best |-> b, over |-> FALSE]
      <4>1. (FALSE \/ Stops(dfa, raw, b)) = FALSE
        BY <2>13
      <4> QED BY <2>11, <3>3, <4>1
    <3>4. Chosen' /\ InStep'
      BY <1>0, <2>2, <2>5, <2>8, <2>9, <3>1 DEF LoopInv, Chosen, InStep
    <3>5. Scanning'
      BY <1>0, <2>5, <2>10, <3>1, <3>2, <3>3 DEF Scanning
    <3>6. best' \in Bests(in)
      BY <1>0, <2>10, <3>1, NoneTypes DEF AcceptsAtEnd
    <3> QED BY <1>0, <3>1, <3>4, <3>5, <3>6 DEF LoopInv, Matched, AnswersBytewise
  <2> QED BY <2>12, <2>13
<1> QED BY <1>5, <1>6

\* --- the theorems --------------------------------------------------------
LEMMA LoopInvInit == ScanInit => LoopInv
<1> SUFFICES ASSUME ScanInit PROVE LoopInv
  OBVIOUS
<1>1. pc = "idle" /\ in = NoInput /\ from = 0 /\ best = None
  BY DEF ScanInit, Idle
<1>2. InputOK(in)
  BY <1>1, ScanAssumption DEF InputOK, NoInput, ValidUTF8
<1> QED BY <1>1, <1>2 DEF LoopInv, Chosen, InStep, Scanning, Matched, AnswersBytewise

LEMMA LoopInvNext == LoopInv /\ [Search \/ Prepare]_<<dfa, scanVars>> => LoopInv'
<1> SUFFICES ASSUME LoopInv, [Search \/ Prepare]_<<dfa, scanVars>> PROVE LoopInv'
  OBVIOUS
<1>1. CASE Search
  <2>1. WellFormed(dfa) /\ UNCHANGED dfa
    BY <1>1 DEF Search
  <2>2. CASE Call
    BY <2>1, <2>2, CallInv
  <2>3. CASE Discover
    BY <2>1, <2>3, DiscoverInv
  <2>4. CASE Boundary
    BY <2>1, <2>4, BoundaryInv
  <2>5. CASE Record
    BY <2>1, <2>5, RecordInv
  <2>6. CASE SelectPath \/ StartRecap \/ Recap
    BY <2>1, <2>6, TagStepInv
  <2>7. CASE EndRecap
    BY <2>1, <2>7, EndRecapInv
  <2>8. CASE Take
    BY <2>1, <2>8, TakeInv
  <2> QED BY <1>1, <2>2, <2>3, <2>4, <2>5, <2>6, <2>7, <2>8 DEF Search, ScanNext
<1>2. CASE Prepare
  BY <1>2 DEF Prepare, LoopInv, Chosen, InStep, Scanning, Matched, AnswersBytewise,
              scanVars, loopVars, tagVars
<1>3. CASE UNCHANGED <<dfa, scanVars>>
  BY <1>3 DEF LoopInv, Chosen, InStep, Scanning, Matched, AnswersBytewise, scanVars, loopVars, tagVars
<1> QED BY <1>1, <1>2, <1>3

THEOREM ScanInductive == ScanSpec => []LoopInv
<1> QED BY LoopInvInit, LoopInvNext, PTL DEF ScanSpec

\* Over a well formed table whose blocks are decided, a call answers what reading
\* byte by byte leads to: the blocks pass 1 skips, the discovery loop and the tag
\* passes change neither the start nor the end of a match.
THEOREM AnswerIsBytewise == ScanSpec => []AnswersBytewise
<1>1. LoopInv => AnswersBytewise
  BY DEF LoopInv
<1> QED BY <1>1, ScanInductive, PTL

(***************************************************************************)
(* Theorems about the tag passes of module Scan: while no block is longer  *)
(* than a word of the history can say, the history lays out the match from *)
(* its start to its end, and the passes that walk it backwards and         *)
(* forwards are at the positions its words were recorded at.               *)
(***************************************************************************)

\* --- the invariant of passes 2 to 4 --------------------------------------
\* The bytes a word of the history covers.
Width(word) == IF word.warp THEN word.length ELSE 1

\* The words of hist were recorded at the positions at, the first one at s: a
\* raw word before each byte that was read, and a warp where the raw word before
\* it was, which it replaces.
LaidOut(hist, at, s) ==
  /\ \A k \in 1..Len(hist) : at[k] \in Int
  /\ hist # <<>> => at[1] = s /\ ~hist[1].warp
  /\ \A k \in 1..(Len(hist) - 1) :
       IF hist[k + 1].warp THEN ~hist[k].warp /\ at[k + 1] = at[k]
       ELSE at[k + 1] = at[k] + Width(hist[k])

\* The position the words of hist lead to.
After(hist, at, s) == IF hist = <<>> THEN s ELSE at[Len(hist)] + Width(hist[Len(hist)])

Within(hist, at, s, e) == \A k \in 1..Len(hist) : at[k] \in s..e

Recording(at) ==
  /\ LaidOut(history, at, start) /\ Within(history, at, start, best.end)
  /\ After(history, at, start) = i

Walking(at) ==
  /\ LaidOut(history, at, start) /\ Within(history, at, start, best.end)
  /\ h \in 1..Len(history) /\ ~history[h].warp /\ at[h] = i
  /\ ~history[Len(history)].warp /\ at[Len(history)] = best.end
  /\ IsAccepting(dfa, history[Len(history)].state)

WalkInv ==
  /\ TypeOK
  /\ pc = "idle" => Idle
  /\ pc \in {"pass0", "pass1"} => history = <<>> /\ h = 0
  /\ pc = "pass2" => h = 0 /\ \E at : Recording(at)
  /\ pc \in {"pass3", "pass4"} => \E at : Walking(at)

\* --- lemmas of the history -----------------------------------------------
LEMMA RawTypes ==
  ASSUME NEW d, NEW s \in States(d), NEW hist \in Seq(Words(d))
  PROVE  /\ AppendRaw(hist, s) = Append(hist, Raw(s))
         /\ AppendRaw(hist, s) \in Seq(Words(d)) /\ ~Raw(s).warp /\ Raw(s).state = s
<1>1. Raw(s) \in Words(d)
  BY HistoryAssumption DEF Raw, Words
<1> QED BY <1>1 DEF AppendRaw, Raw

\* A warp after a raw word is a word of its own, and as long as it says.
LEMMA WarpTypes ==
  ASSUME NEW d, NEW s \in States(d), NEW hist \in Seq(Words(d)), NEW n \in 0..HistMaxLength
  PROVE  /\ Warp(s, n) \in Words(d) /\ Warp(s, n).warp /\ Warp(s, n).length = n
         /\ AppendWarp(AppendRaw(hist, s), s, n) = Append(Append(hist, Raw(s)), Warp(s, n))
         /\ AppendWarp(AppendRaw(hist, s), s, n) \in Seq(Words(d))
<1>1. n % (HistMaxLength + 1) = n
  BY HistoryAssumption
<1>2. Warp(s, n) \in Words(d) /\ Warp(s, n).warp /\ Warp(s, n).length = n
  BY <1>1 DEF Warp, Words
<1> DEFINE rec == AppendRaw(hist, s)
<1>3. rec = Append(hist, Raw(s)) /\ rec \in Seq(Words(d)) /\ ~Raw(s).warp
  BY RawTypes
<1>4. Len(rec) = Len(hist) + 1 /\ rec[Len(rec)] = Raw(s)
  BY <1>3, AppendProperties, RawTypes
<1> HIDE DEF rec
<1>5. ~Extends(rec, s, n)
  BY <1>3, <1>4 DEF Extends
<1>6. AppendWarp(rec, s, n) = Append(rec, Warp(s, n))
  BY <1>5 DEF AppendWarp
<1> QED BY <1>2, <1>3, <1>6 DEF rec

\* A raw word is laid out where the words before it lead to.
LEMMA RawLaidOut ==
  ASSUME NEW W, NEW hist \in Seq(W), NEW at, NEW s \in Int, NEW e \in Int,
         LaidOut(hist, at, s), Within(hist, at, s, e), NEW p \in s..e, After(hist, at, s) = p,
         NEW word \in W, ~word.warp
  PROVE  \E pos : LET new == Append(hist, word)
                  IN  /\ LaidOut(new, pos, s) /\ Within(new, pos, s, e)
                      /\ new # <<>> /\ pos[Len(new)] = p /\ After(new, pos, s) = p + 1
<1> DEFINE new == Append(hist, word)
           n   == Len(hist)
           pos == [k \in 1..(n + 1) |-> IF k = n + 1 THEN p ELSE at[k]]
<1>1. /\ n \in Nat /\ Len(new) = n + 1 /\ new[n + 1] = word
      /\ \A k \in 1..n : new[k] = hist[k]
      /\ hist = <<>> <=> n = 0
  BY AppendProperties
<1>2. pos[n + 1] = p /\ \A k \in 1..n : pos[k] = at[k]
  BY <1>1
<1>3. new # <<>>
  BY <1>1
<1> HIDE DEF new, pos, n
<1>4. Within(new, pos, s, e)
  BY <1>1, <1>2 DEF Within, n
<1>5. LaidOut(new, pos, s)
  <2>1. \A k \in 1..Len(new) : pos[k] \in Int
    BY <1>1, <1>2 DEF LaidOut, n
  <2>2. pos[1] = s /\ ~new[1].warp
    <3>1. CASE n = 0
      BY <1>1, <1>2, <3>1 DEF After
    <3>2. CASE n # 0
      <4>1. hist # <<>> /\ 1 \in 1..n
        BY <1>1, <3>2
      <4> QED BY <1>1, <1>2, <4>1 DEF LaidOut
    <3> QED BY <3>1, <3>2
  <2>3. ASSUME NEW k \in 1..(Len(new) - 1)
        PROVE IF new[k + 1].warp THEN ~new[k].warp /\ pos[k + 1] = pos[k]
              ELSE pos[k + 1] = pos[k] + Width(new[k])
    <3>1. CASE k = n
      <4>1. n # 0 /\ hist # <<>> /\ new[k + 1] = word /\ pos[k + 1] = p /\ new[k] = hist[n] /\ pos[k] = at[n]
        BY <1>1, <1>2, <3>1
      <4>2. p = at[n] + Width(hist[n])
        BY <4>1 DEF After, n
      <4> QED BY <4>1, <4>2
    <3>2. CASE k # n
      <4>1. k \in 1..(n - 1) /\ k \in 1..n /\ k + 1 \in 1..n
        BY <1>1, <3>2
      <4>2. new[k] = hist[k] /\ new[k + 1] = hist[k + 1] /\ pos[k] = at[k] /\ pos[k + 1] = at[k + 1]
        BY <1>1, <1>2, <4>1
      <4>3. IF hist[k + 1].warp THEN ~hist[k].warp /\ at[k + 1] = at[k]
            ELSE at[k + 1] = at[k] + Width(hist[k])
        BY <4>1 DEF LaidOut, n
      <4> QED BY <4>2, <4>3
    <3> QED BY <3>1, <3>2
  <2> QED BY <2>1, <2>2, <2>3 DEF LaidOut
<1>6. pos[Len(new)] = p /\ After(new, pos, s) = p + 1
  BY <1>1, <1>2, <1>3 DEF After, Width
<1>7. \E a : /\ LaidOut(new, a, s) /\ Within(new, a, s, e)
             /\ new # <<>> /\ a[Len(new)] = p /\ After(new, a, s) = p + 1
  BY <1>3, <1>4, <1>5, <1>6
<1> QED BY <1>7 DEF new

\* A warp is laid out where the raw word before it is.
LEMMA WarpLaidOut ==
  ASSUME NEW W, NEW hist \in Seq(W), hist # <<>>, NEW at, NEW s \in Int, NEW e \in Int,
         LaidOut(hist, at, s), Within(hist, at, s, e), ~hist[Len(hist)].warp,
         NEW word \in W, word.warp
  PROVE  \E pos : LET new == Append(hist, word)
                  IN  /\ LaidOut(new, pos, s) /\ Within(new, pos, s, e)
                      /\ After(new, pos, s) = at[Len(hist)] + word.length
<1> DEFINE new == Append(hist, word)
           n   == Len(hist)
           pos == [k \in 1..(n + 1) |-> IF k = n + 1 THEN at[n] ELSE at[k]]
<1>1. /\ n \in Nat \ {0} /\ Len(new) = n + 1 /\ new[n + 1] = word
      /\ \A k \in 1..n : new[k] = hist[k]
  BY AppendProperties
<1>2. pos[n + 1] = at[n] /\ \A k \in 1..n : pos[k] = at[k]
  BY <1>1
<1>3. new # <<>>
  BY <1>1
<1> HIDE DEF new, pos, n
<1>4. Within(new, pos, s, e)
  <2>1. \A k \in 1..n : at[k] \in s..e
    BY DEF Within, n
  <2> QED BY <1>1, <1>2, <2>1 DEF Within
<1>5. LaidOut(new, pos, s)
  <2>1. \A k \in 1..Len(new) : pos[k] \in Int
    <3>1. \A k \in 1..n : at[k] \in Int
      BY DEF LaidOut, n
    <3> QED BY <1>1, <1>2, <3>1
  <2>2. pos[1] = s /\ ~new[1].warp
    <3>1. 1 \in 1..n
      BY <1>1
    <3> QED BY <1>1, <1>2, <3>1 DEF LaidOut
  <2>3. ASSUME NEW k \in 1..(Len(new) - 1)
        PROVE IF new[k + 1].warp THEN ~new[k].warp /\ pos[k + 1] = pos[k]
              ELSE pos[k + 1] = pos[k] + Width(new[k])
    <3>1. CASE k = n
      <4>1. new[k + 1] = word /\ pos[k + 1] = at[n] /\ new[k] = hist[n] /\ pos[k] = at[n]
        BY <1>1, <1>2, <3>1
      <4> QED BY <4>1 DEF n
    <3>2. CASE k # n
      <4>1. k \in 1..(n - 1) /\ k \in 1..n /\ k + 1 \in 1..n
        BY <1>1, <3>2
      <4>2. new[k] = hist[k] /\ new[k + 1] = hist[k + 1] /\ pos[k] = at[k] /\ pos[k + 1] = at[k + 1]
        BY <1>1, <1>2, <4>1
      <4>3. IF hist[k + 1].warp THEN ~hist[k].warp /\ at[k + 1] = at[k]
            ELSE at[k + 1] = at[k] + Width(hist[k])
        BY <4>1 DEF LaidOut, n
      <4> QED BY <4>2, <4>3
    <3> QED BY <3>1, <3>2
  <2> QED BY <2>1, <2>2, <2>3 DEF LaidOut
<1>6. After(new, pos, s) = at[n] + word.length
  BY <1>1, <1>2, <1>3 DEF After, Width
<1>7. \E a : /\ LaidOut(new, a, s) /\ Within(new, a, s, e)
             /\ After(new, a, s) = at[n] + word.length
  BY <1>4, <1>5, <1>6
<1> QED BY <1>7 DEF new, n

\* --- the actions ---------------------------------------------------------
\* No text is longer than what a word of the history can say of a block.
BlocksFit == MaxTextLength <= HistMaxLength

LEMMA CallWalk == ASSUME LoopInv', WalkInv, Call PROVE WalkInv'
<1>1. /\ pc = "idle" /\ pc' = "pass0"
      /\ i' = i /\ from' = from /\ start' = start /\ best' = best /\ history' = history /\ h' = h
  BY DEF Call, loopVars, tagVars
<1>2. i = 0 /\ from = 0 /\ start = -1 /\ best = None /\ history = <<>> /\ h = 0
  BY <1>1 DEF WalkInv, Idle
<1>3. InputOK(in') /\ N(in') \in Nat
  BY InputTypes DEF LoopInv
<1>4. best'.end = -1 /\ best'.prio \in Nat
  BY <1>1, <1>2, InfinityIsPositive DEF None
<1>5. TypeOK'
  BY <1>1, <1>2, <1>3, <1>4 DEF TypeOK
<1> QED BY <1>1, <1>2, <1>5 DEF WalkInv

LEMMA DiscoverWalk == ASSUME LoopInv, LoopInv', WalkInv, Discover, UNCHANGED dfa PROVE WalkInv'
<1>1. /\ pc = "pass0" /\ in' = in /\ history' = history /\ h' = h /\ dfa' = dfa
      /\ history = <<>> /\ h = 0 /\ InputOK(in) /\ N(in) \in Nat /\ TypeOK
      /\ from' = from
  BY InputTypes DEF Discover, tagVars, loopVars, WalkInv, LoopInv
<1>2. CASE pc' = "done" /\ UNCHANGED loopVars
  BY <1>1, <1>2 DEF WalkInv, TypeOK, loopVars
<1>3. CASE pc' = "pass1"
  <2>1. /\ from' \in 0..N(in') /\ start' \in from'..N(in') /\ i' \in start'..N(in')
        /\ state'.to \in States(dfa') /\ prio' \in Nat /\ best' \in Bests(in')
    BY <1>3 DEF LoopInv, Chosen, InStep
  <2>2. best'.end \in -1..N(in) /\ best'.prio \in Nat
    BY <1>1, <2>1 DEF Bests
  <2>3. TypeOK'
    BY <1>1, <1>3, <2>1, <2>2 DEF TypeOK
  <2> QED BY <1>1, <1>3, <2>3 DEF WalkInv
<1>4. (pc' = "done" /\ UNCHANGED loopVars) \/ pc' = "pass1"
  BY DEF Discover, Return
<1> QED BY <1>2, <1>3, <1>4

LEMMA BoundaryWalk == ASSUME LoopInv, LoopInv', WalkInv, Boundary, UNCHANGED dfa PROVE WalkInv'
<1>1. /\ pc = "pass1" /\ in' = in /\ start' = start /\ history' = history /\ h' = h /\ dfa' = dfa
      /\ history = <<>> /\ h = 0 /\ InputOK(in) /\ N(in) \in Nat /\ TypeOK
      /\ from \in 0..N(in) /\ start \in from..N(in)
  BY InputTypes DEF Boundary, tagVars, WalkInv, LoopInv, Chosen
<1>2. (\E b : Conclude(b)) \/ (pc' = pc /\ from' = from)
  BY DEF Boundary
<1>3. best' \in Bests(in)
  <2>1. pc' # "idle"
    BY <1>1, <1>2 DEF Conclude, Return
  <2> QED BY <1>1, <2>1 DEF LoopInv
<1>4. best'.end \in -1..N(in) /\ best'.prio \in Nat
  BY <1>1, <1>3 DEF Bests
<1>5. CASE pc' \in {"pass1", "pass2"}
  <2>1. /\ from' \in 0..N(in) /\ i' \in start..N(in) /\ state'.to \in States(dfa') /\ prio' \in Nat
    BY <1>1, <1>5 DEF LoopInv, Chosen, InStep
  <2>2. TypeOK'
    <3>1. history' \in Seq(Words(dfa'))
      BY <1>1
    <3>2. h' \in 0..Len(history') /\ start' \in -1..N(in')
      BY <1>1
    <3>3. i' \in 0..N(in') /\ from' \in 0..(N(in') + 1)
      BY <1>1, <2>1
    <3> QED BY <1>1, <1>4, <1>5, <2>1, <3>1, <3>2, <3>3 DEF TypeOK
  <2>3. ASSUME pc' = "pass2" PROVE i' = start
    BY <1>1, <1>2, <2>3 DEF Conclude, Return
  <2>4. pc' = "pass2" => Recording(<<>>)'
    BY <1>1, <2>3 DEF Recording, LaidOut, Within, After
  <2>5. pc' = "pass2" => (\E at : Recording(at))'
    BY <2>4
  <2> QED BY <1>1, <1>5, <2>2, <2>5 DEF WalkInv
<1>6. CASE pc' \notin {"pass1", "pass2"}
  <2>1. pc' \in {"pass0", "done"} /\ i' = i /\ from' \in {from, from + 1}
    BY <1>1, <1>2, <1>6 DEF Conclude, Return
  <2>2. from' \in 0..(N(in) + 1)
    BY <1>1, <2>1
  <2>3. TypeOK'
    BY <1>1, <1>4, <2>1, <2>2 DEF TypeOK
  <2> QED BY <1>1, <2>1, <2>3 DEF WalkInv
<1> QED BY <1>5, <1>6

LEMMA RecordWalk ==
  ASSUME LoopInv, LoopInv', WalkInv, BlocksFit, Record, UNCHANGED dfa
  PROVE  WalkInv'
<1> DEFINE rec  == AppendRaw(history, state.to)
           j    == IF state.ccwarp THEN WarpTo(dfa, in, state.to, i, best.end) ELSE i
           raw  == Transition(dfa, state.to, Byte(in, i))
           next == Skip(in, raw, i)
           W    == Words(dfa)
<1>0. /\ pc = "pass2" /\ InputOK(in) /\ N(in) \in Nat /\ WellFormed(dfa) /\ TypeOK
      /\ dfa' = dfa /\ in' = in /\ from' = from /\ start' = start /\ best' = best
      /\ from \in 0..N(in) /\ start \in from..N(in)
      /\ i \in start..N(in) /\ state.to \in States(dfa) /\ prio \in Nat
      /\ Bytewise(dfa, in, start)[i].state = state.to
      /\ best # None /\ AcceptsAtEnd(dfa, in, start, best, N(in)) /\ i <= best.end
      /\ h = 0 /\ history \in Seq(W)
  BY InputTypes DEF LoopInv, Record, Chosen, InStep, Matched, WalkInv, TypeOK
<1>1. /\ best.end \in i..N(in) /\ start \in 0..N(in) /\ i \in start..best.end
      /\ start \in Int /\ best.end \in Int
      /\ IsAccepting(dfa, Bytewise(dfa, in, start)[best.end].state)
      /\ Bytewise(dfa, in, start)[best.end].state \in States(dfa)
  BY <1>0 DEF AcceptsAtEnd
<1>2. PICK at : Recording(at)
  BY <1>0 DEF WalkInv
<1> DEFINE word == Raw(state.to)
<1>3. rec = Append(history, word) /\ rec \in Seq(W) /\ word \in W /\ ~word.warp /\ word.state = state.to
  <2>1. word \in W
    BY <1>0, HistoryAssumption DEF Raw, Words
  <2> QED BY <1>0, <2>1, RawTypes
<1>4. Len(rec) = Len(history) + 1 /\ rec[Len(rec)] = word /\ Len(rec) \in Nat \ {0}
  <2> HIDE DEF word, W
  <2> QED BY <1>0, <1>3, AppendProperties, LenProperties
<1>5. PICK pos : /\ LaidOut(rec, pos, start) /\ Within(rec, pos, start, best.end)
                 /\ rec # <<>> /\ pos[Len(rec)] = i /\ After(rec, pos, start) = i + 1
  <2>1. LaidOut(history, at, start) /\ Within(history, at, start, best.end) /\ After(history, at, start) = i
    BY <1>2 DEF Recording
  <2> HIDE DEF word, W, rec
  <2>2. \E pos : /\ LaidOut(Append(history, word), pos, start) /\ Within(Append(history, word), pos, start, best.end)
                 /\ Append(history, word) # <<>> /\ pos[Len(Append(history, word))] = i
                 /\ After(Append(history, word), pos, start) = i + 1
    BY <1>0, <1>1, <1>3, <2>1, RawLaidOut
  <2> QED BY <1>3, <2>2
<1>6. j \in i..best.end
  <2>1. j = IF state.ccwarp THEN WarpTo(dfa, in, state.to, i, best.end) ELSE i
    OBVIOUS
  <2> HIDE DEF j
  <2> QED BY <1>0, <1>1, <2>1, SkipWalk
<1>7. CASE i >= best.end \/ (j = i /\ ~CanStep(in, raw, i))
  <2>1. /\ pc' = "pass3" /\ history' = rec /\ h' = Len(rec) /\ i' = best.end
        /\ DOMAIN path' = start..best.end
    BY <1>7 DEF Record
  <2>2. i = best.end
    <3>1. CASE i >= best.end
      BY <1>0, <1>1, <3>1
    <3>2. CASE i < best.end
      <4>1. ~CanStep(in, raw, i)
        BY <1>0, <1>1, <1>7, <3>2
      <4>2. i \in start..(N(in) - 1) /\ i + 1 \in start..N(in) /\ best.end \in (i + 1)..N(in)
        BY <1>0, <1>1, <3>2
      <4>3. Bytewise(dfa, in, start)[i + 1].state = NoState
        <5>1. Bytewise(dfa, in, start)[i].state \in States(dfa)
          BY <1>0
        <5>2. ~CanStep(in, Transition(dfa, Bytewise(dfa, in, start)[i].state, Byte(in, i)), i)
          BY <1>0, <4>1
        <5> HIDE DEF raw
        <5> QED BY <1>0, <1>1, <4>2, <5>1, <5>2, OneByte
      <4>4. Bytewise(dfa, in, start)[best.end].state # NoState
        BY <1>0, <1>1, StateTypes
      <4> QED BY <1>0, <1>1, <4>2, <4>3, <4>4, DeadStaysDead
    <3> QED BY <1>0, <1>1, <3>1, <3>2
  <2>3. IsAccepting(dfa, word.state)
    BY <1>0, <1>1, <1>3, <2>2
  <2> HIDE DEF rec, word, W
  <2>4. Walking(pos)'
    BY <1>0, <1>3, <1>4, <1>5, <2>1, <2>2, <2>3 DEF Walking
  <2>5. (\E a : Walking(a))'
    BY <2>4
  <2>6. best.end \in 0..N(in) /\ h' \in 0..Len(history')
    BY <1>0, <1>1, <1>4, <2>1
  <2>7. TypeOK'
    BY <1>0, <1>3, <2>1, <2>6 DEF TypeOK, W
  <2> QED BY <2>1, <2>5, <2>7 DEF WalkInv
<1>8. CASE ~(i >= best.end \/ (j = i /\ ~CanStep(in, raw, i)))
  <2>1. pc' = "pass2" /\ h' = 0 /\ path' = path
    BY <1>0, <1>8 DEF Record
  <2>2. /\ i' \in start..N(in) /\ state'.to \in States(dfa) /\ prio' \in Nat /\ i' <= best.end
    BY <1>0, <2>1 DEF LoopInv, InStep, Matched
  <2>3. history' \in Seq(W) /\ (\E a : Recording(a))'
    <3>1. CASE j > i
      <4>1. history' = AppendWarp(rec, state.to, j - i) /\ i' = j
        BY <1>8, <3>1 DEF Record
      <4>2. j - i \in 0..HistMaxLength
        <5>1. N(in) <= MaxTextLength /\ MaxTextLength \in Nat /\ HistMaxLength \in Nat
          BY <1>0, HistoryAssumption, ScanAssumption DEF InputOK, N
        <5>2. i \in Nat /\ best.end \in Nat /\ best.end <= N(in) /\ j \in i..best.end
          BY <1>0, <1>1, <1>6
        <5> HIDE DEF j
        <5> QED BY <1>0, <5>1, <5>2 DEF BlocksFit
      <4> DEFINE w   == Warp(state.to, j - i)
                 new == Append(rec, w)
      <4>3. /\ w \in W /\ w.warp /\ w.length = j - i
            /\ history' = new /\ new \in Seq(W)
        <5>1. /\ w \in W /\ w.warp /\ w.length = j - i
              /\ AppendWarp(rec, state.to, j - i) = Append(Append(history, word), w)
              /\ AppendWarp(rec, state.to, j - i) \in Seq(W)
          <6> HIDE DEF j
          <6> QED BY <1>0, <4>2, WarpTypes
        <5> HIDE DEF j, rec, w, word, W
        <5> QED BY <1>3, <4>1, <5>1
      <4>4. PICK end : LaidOut(new, end, start) /\ Within(new, end, start, best.end)
              /\ After(new, end, start) = pos[Len(rec)] + w.length
        <5> HIDE DEF rec, word, w, W, j
        <5>1. /\ rec \in Seq(W) /\ rec # <<>> /\ ~rec[Len(rec)].warp /\ w \in W /\ w.warp
              /\ start \in Int /\ best.end \in Int
              /\ LaidOut(rec, pos, start) /\ Within(rec, pos, start, best.end)
          BY <1>1, <1>3, <1>4, <1>5, <4>3
        <5>2. \E end : /\ LaidOut(Append(rec, w), end, start) /\ Within(Append(rec, w), end, start, best.end)
                       /\ After(Append(rec, w), end, start) = pos[Len(rec)] + w.length
          BY <5>1, WarpLaidOut
        <5> QED BY <5>2
      <4>5. After(new, end, start) = i'
        <5> HIDE DEF rec, word, w, W, new, j
        <5> QED BY <1>0, <1>1, <1>5, <1>6, <4>1, <4>3, <4>4
      <4> HIDE DEF rec, word, w, W, new, j
      <4>6. Recording(end)'
        BY <1>0, <4>3, <4>4, <4>5 DEF Recording
      <4> QED BY <4>3, <4>6
    <3>2. CASE ~(j > i)
      <4>1. j = i /\ CanStep(in, raw, i) /\ i < best.end
        BY <1>0, <1>1, <1>6, <1>8, <3>2
      <4>2. Valid(raw) /\ i \in 0..(N(in) - 1)
        BY <1>0, <1>1, <4>1 DEF CanStep
      <4>3. next = i + 1
        BY <1>0, <4>2, OneByteSkip
      <4>4. history' = rec /\ i' = i + 1
        <5>1. /\ history' = IF next = i + 1 THEN rec ELSE AppendWarp(rec, raw.to, next - i - 1)
              /\ i' = next
          BY <1>8, <3>2 DEF Record
        <5> HIDE DEF rec, next
        <5> QED BY <4>3, <5>1
      <4> HIDE DEF rec, word, W, j, raw, next
      <4>5. Recording(pos)'
        BY <1>0, <1>5, <4>4 DEF Recording
      <4> QED BY <1>3, <4>4, <4>5
    <3> QED BY <3>1, <3>2
  <2> HIDE DEF rec, word, W, j, raw, next
  <2>4. i' \in 0..N(in) /\ 0 \in 0..Len(history')
    <3>1. Len(history') \in Nat
      BY <2>3, LenProperties
    <3> QED BY <1>0, <1>1, <2>2, <3>1
  <2>5. TypeOK'
    BY <1>0, <2>1, <2>2, <2>3, <2>4 DEF TypeOK, W
  <2> QED BY <2>1, <2>3, <2>5 DEF WalkInv
<1> QED BY <1>7, <1>8

LEMMA SelectPathWalk == ASSUME LoopInv, WalkInv, SelectPath, UNCHANGED dfa PROVE WalkInv'
<1>0. /\ pc = "pass3" /\ pc' = "pass3" /\ TypeOK /\ h > 1
      /\ dfa' = dfa /\ in' = in /\ from' = from /\ start' = start /\ best' = best
      /\ history' = history /\ N(in) \in Nat /\ start \in 0..N(in) /\ best.end \in -1..N(in)
  BY InputTypes DEF SelectPath, WalkInv, TypeOK, LoopInv, Chosen
<1>1. PICK at : Walking(at)
  BY <1>0 DEF WalkInv
<1> DEFINE n == Len(history)
<1>2. /\ n \in Nat /\ h \in 2..n /\ ~history[h].warp /\ at[h] = i
      /\ \A k \in 1..n : at[k] \in start..best.end
      /\ history # <<>> /\ ~history[1].warp
      /\ \A k \in 1..(n - 1) : IF history[k + 1].warp THEN ~history[k].warp /\ at[k + 1] = at[k]
                               ELSE at[k + 1] = at[k] + Width(history[k])
  <2>1. n \in Nat /\ h \in 1..n
    BY <1>0, <1>1, LenProperties DEF TypeOK, Walking
  <2>2. history # <<>>
    BY <2>1
  <2> QED BY <1>0, <1>1, <2>1, <2>2 DEF Walking, LaidOut, Within
<1> HIDE DEF n
<1>3. /\ h - 1 \in 1..(n - 1) /\ h - 1 \in 1..n /\ (h - 1) + 1 = h
      /\ at[h] = at[h - 1] + Width(history[h - 1])
  <2>1. h - 1 \in 1..(n - 1) /\ h - 1 \in 1..n /\ (h - 1) + 1 = h
    BY <1>2
  <2> QED BY <1>2, <2>1
<1>4. h' \in 1..n /\ ~history[h'].warp /\ at[h'] = i'
  <2>1. CASE history[h - 1].warp
    <3>1. i' = i - history[h - 1].length /\ h' = h - 2
      BY <2>1 DEF SelectPath
    <3>2. h - 1 # 1
      BY <1>2, <2>1
    <3>3. h - 2 \in 1..(n - 1) /\ h - 2 \in 1..n /\ (h - 2) + 1 = h - 1
      BY <1>2, <3>2
    <3>4. ~history[h - 2].warp /\ at[h - 1] = at[h - 2]
      BY <1>2, <2>1, <3>3
    <3>5. history[h - 1].length \in Int
      <4>1. history \in Seq(Words(dfa)) /\ h - 1 \in 1..Len(history)
        BY <1>0, <1>3 DEF TypeOK, n
      <4>2. history[h - 1] \in Words(dfa)
        BY <4>1
      <4> QED BY <4>2, HistoryAssumption DEF Words
    <3>6. at[h - 2] \in Int /\ i = at[h - 2] + history[h - 1].length
      BY <1>0, <1>2, <1>3, <2>1, <3>3, <3>4 DEF Width
    <3> QED BY <3>1, <3>3, <3>4, <3>5, <3>6
  <2>2. CASE ~history[h - 1].warp
    <3>1. i' = i - 1 /\ h' = h - 1
      BY <2>2 DEF SelectPath
    <3>2. at[h - 1] \in Int /\ i = at[h - 1] + 1
      BY <1>0, <1>2, <1>3, <2>2 DEF Width
    <3> QED BY <1>3, <2>2, <3>1, <3>2
  <2> QED BY <2>1, <2>2
<1>5. Walking(at)'
  BY <1>0, <1>1, <1>4 DEF Walking, n
<1>6. DOMAIN path' = DOMAIN path
  BY DEF SelectPath
<1>7. i' \in 0..N(in) /\ h' \in 0..Len(history')
  BY <1>0, <1>2, <1>4 DEF n
<1>8. TypeOK'
  BY <1>0, <1>6, <1>7 DEF TypeOK
<1>9. (\E a : Walking(a))'
  BY <1>5
<1> QED BY <1>0, <1>8, <1>9 DEF WalkInv

\* Registers hold positions of the match.
LEMMA TagTypes ==
  ASSUME NEW D, NEW P, NEW r \in [D -> P \cup {-1}], NEW tags, NEW p \in P
  PROVE  ApplyTags(r, tags, p) \in [D -> P \cup {-1}]
BY DEF ApplyTags

LEMMA StartRecapWalk == ASSUME LoopInv, WalkInv, StartRecap, UNCHANGED dfa PROVE WalkInv'
<1>0. /\ pc = "pass3" /\ pc' = "pass4" /\ TypeOK /\ h <= 1 /\ h' = 1 /\ i' = start
      /\ dfa' = dfa /\ in' = in /\ from' = from /\ start' = start /\ best' = best
      /\ history' = history /\ path' = path
      /\ N(in) \in Nat /\ start \in 0..N(in) /\ best.end \in -1..N(in)
  BY InputTypes DEF StartRecap, WalkInv, TypeOK, LoopInv, Chosen
<1>1. PICK at : Walking(at)
  BY <1>0 DEF WalkInv
<1>2. h = 1 /\ 1 \in 1..Len(history) /\ at[1] = i /\ history # <<>> /\ Len(history) \in Nat
  <2>1. Len(history) \in Nat
    BY <1>0, LenProperties DEF TypeOK
  <2> QED BY <1>0, <1>1, <2>1 DEF Walking
<1>3. at[1] = start /\ ~history[1].warp /\ start \in start..best.end
  BY <1>1, <1>2 DEF Walking, LaidOut, Within
<1>4. Walking(at)'
  BY <1>0, <1>1, <1>2, <1>3 DEF Walking
<1> DEFINE D == 0..(2 * dfa.groups + 1)
           P == start..best.end
<1>5. regs' \in [D -> P \cup {-1}]
  <2>1. regs' = ApplyTags([t \in D |-> -1], EntryTags(dfa, path[start]), start)
    BY DEF StartRecap
  <2>2. [t \in D |-> -1] \in [D -> P \cup {-1}]
    OBVIOUS
  <2> HIDE DEF D, P
  <2>3. start \in P
    BY <1>3 DEF P
  <2> QED BY <2>1, <2>2, <2>3, TagTypes
<1>6. TypeOK'
  BY <1>0, <1>2, <1>5 DEF TypeOK
<1>7. (\E a : Walking(a))'
  BY <1>4
<1> QED BY <1>0, <1>6, <1>7 DEF WalkInv

LEMMA RecapWalk == ASSUME LoopInv, WalkInv, Recap, UNCHANGED dfa PROVE WalkInv'
<1>0. /\ pc = "pass4" /\ pc' = "pass4" /\ TypeOK /\ h < Len(history)
      /\ dfa' = dfa /\ in' = in /\ from' = from /\ start' = start /\ best' = best
      /\ history' = history /\ path' = path
      /\ N(in) \in Nat /\ start \in 0..N(in) /\ best.end \in -1..N(in)
  BY InputTypes DEF Recap, WalkInv, TypeOK, LoopInv, Chosen
<1>1. PICK at : Walking(at)
  BY <1>0 DEF WalkInv
<1> DEFINE n == Len(history)
<1>2. /\ n \in Nat /\ h \in 1..(n - 1) /\ ~history[h].warp /\ ~history[n].warp /\ at[h] = i
      /\ \A k \in 1..n : at[k] \in start..best.end
      /\ \A k \in 1..(n - 1) : IF history[k + 1].warp THEN ~history[k].warp /\ at[k + 1] = at[k]
                               ELSE at[k + 1] = at[k] + Width(history[k])
  <2>1. n \in Nat /\ h \in 1..(n - 1)
    BY <1>0, <1>1, LenProperties DEF TypeOK, Walking
  <2> QED BY <1>0, <1>1, <2>1 DEF Walking, LaidOut, Within
<1> HIDE DEF n
<1>3. h + 1 \in 1..n /\ at[h] \in start..best.end /\ at[h + 1] \in start..best.end
  BY <1>2
<1> DEFINE D == 0..(2 * dfa.groups + 1)
           P == start..best.end
<1>4. h' \in 1..n /\ ~history[h'].warp /\ at[h'] = i' /\ regs' \in [D -> P \cup {-1}]
  <2>1. CASE history[h + 1].warp
    <3>1. i' = i + history[h + 1].length /\ h' = h + 2 /\ regs' = regs
      BY <2>1 DEF Recap
    <3>2. h + 1 # n
      BY <1>2, <2>1
    <3>3. h + 1 \in 1..(n - 1) /\ h + 2 \in 1..n /\ (h + 1) + 1 = h + 2
      BY <1>2, <3>2
    <3>4. at[h + 1] = at[h] /\ ~history[h + 2].warp /\ at[h + 2] = at[h + 1] + history[h + 1].length
      BY <1>2, <2>1, <3>3 DEF Width
    <3> QED BY <1>0, <1>2, <3>1, <3>3, <3>4 DEF TypeOK
  <2>2. CASE ~history[h + 1].warp
    <3> DEFINE found == FirstThat(Entries(dfa, in, history[h], i), LAMBDA e :
                          e.rel = path[i] /\ e.next = path[i + 1] /\ e.isMatch = IsLast(i))
    <3>1. /\ i' = i + 1 /\ h' = h + 1
          /\ regs' = IF found = <<>> THEN regs
                     ELSE ApplyTags(ApplyTags(regs, found[1].pre, i), found[1].post, i + 1)
      BY <2>2 DEF Recap
    <3> HIDE DEF found
    <3>2. at[h + 1] = i + 1 /\ i \in P /\ i + 1 \in P
      BY <1>2, <1>3, <2>2 DEF Width
    <3> HIDE DEF D, P
    <3>3. regs \in [D -> P \cup {-1}]
      BY <1>0 DEF TypeOK, D, P
    <3>4. ApplyTags(regs, found[1].pre, i) \in [D -> P \cup {-1}]
      BY <3>2, <3>3, TagTypes
    <3>5. ApplyTags(ApplyTags(regs, found[1].pre, i), found[1].post, i + 1) \in [D -> P \cup {-1}]
      BY <3>2, <3>4, TagTypes
    <3> QED BY <1>3, <2>2, <3>1, <3>2, <3>3, <3>5
  <2> QED BY <2>1, <2>2
<1>5. Walking(at)'
  BY <1>0, <1>1, <1>4 DEF Walking, n
<1>6. i' \in 0..N(in) /\ h' \in 0..Len(history')
  BY <1>0, <1>2, <1>4 DEF n
<1>7. TypeOK'
  BY <1>0, <1>4, <1>6 DEF TypeOK
<1>8. (\E a : Walking(a))'
  BY <1>5
<1> QED BY <1>0, <1>7, <1>8 DEF WalkInv

LEMMA EndRecapWalk == ASSUME WalkInv, EndRecap, UNCHANGED dfa PROVE WalkInv'
<1>1. /\ pc = "pass4" /\ pc' = "done" /\ UNCHANGED <<in, loopVars, tagVars, dfa>> /\ TypeOK
  BY DEF EndRecap, Return, WalkInv
<1> QED BY <1>1 DEF WalkInv, TypeOK, loopVars, tagVars

LEMMA TakeWalk == ASSUME LoopInv', Take PROVE WalkInv'
<1>1. Idle' /\ pc' = "idle" /\ InputOK(in') /\ N(in') \in Nat
  BY InputTypes DEF Take, Idle, LoopInv
<1>2. best'.end = -1 /\ best'.prio \in Nat
  BY <1>1, InfinityIsPositive DEF Idle, None
<1> QED BY <1>1, <1>2 DEF WalkInv, TypeOK, Idle

\* --- the theorems --------------------------------------------------------
LEMMA WalkInvInit == ScanInit => WalkInv
<1> SUFFICES ASSUME ScanInit PROVE WalkInv
  OBVIOUS
<1>1. Idle /\ pc = "idle" /\ LoopInv
  BY LoopInvInit DEF ScanInit
<1>2. InputOK(in) /\ N(in) \in Nat
  BY <1>1, InputTypes DEF LoopInv
<1>3. best.end = -1 /\ best.prio \in Nat
  BY <1>1, InfinityIsPositive DEF Idle, None
<1> QED BY <1>1, <1>2, <1>3 DEF WalkInv, TypeOK, Idle

LEMMA WalkInvNext ==
  ASSUME BlocksFit, LoopInv, LoopInv', WalkInv, [Search \/ Prepare]_<<dfa, scanVars>>
  PROVE  WalkInv'
<1>1. CASE Search
  <2>1. UNCHANGED dfa
    BY <1>1 DEF Search
  <2>2. CASE Call
    BY <2>2, CallWalk
  <2>3. CASE Discover
    BY <2>1, <2>3, DiscoverWalk
  <2>4. CASE Boundary
    BY <2>1, <2>4, BoundaryWalk
  <2>5. CASE Record
    BY <2>1, <2>5, RecordWalk
  <2>6. CASE SelectPath
    BY <2>1, <2>6, SelectPathWalk
  <2>7. CASE StartRecap
    BY <2>1, <2>7, StartRecapWalk
  <2>8. CASE Recap
    BY <2>1, <2>8, RecapWalk
  <2>9. CASE EndRecap
    BY <2>1, <2>9, EndRecapWalk
  <2>10. CASE Take
    BY <2>10, TakeWalk
  <2> QED BY <1>1, <2>2, <2>3, <2>4, <2>5, <2>6, <2>7, <2>8, <2>9, <2>10 DEF Search, ScanNext
<1>2. CASE Prepare
  BY <1>2 DEF Prepare, WalkInv, TypeOK, Idle, scanVars, loopVars, tagVars
<1>3. CASE UNCHANGED <<dfa, scanVars>>
  <2>1. /\ UNCHANGED <<dfa, in, pc, i, from, start, state, prio, best, history, h, path, regs, result>>
    BY <1>3 DEF scanVars, loopVars, tagVars
  <2>2. TypeOK' = TypeOK /\ Idle' = Idle
    BY <2>1 DEF TypeOK, Idle
  <2>3. \A at : Recording(at) => Recording(at)'
    BY <2>1 DEF Recording
  <2>4. \A at : Walking(at) => Walking(at)'
    BY <2>1 DEF Walking
  <2> QED BY <2>1, <2>2, <2>3, <2>4 DEF WalkInv
<1> QED BY <1>1, <1>2, <1>3

LEMMA WalkMeets == ASSUME LoopInv, WalkInv PROVE WalksMeet
<1>1. ASSUME pc \in {"pass3", "pass4"}
      PROVE  /\ IsAccepting(dfa, history[Len(history)].state)
             /\ h <= 1 => i = start
             /\ h = Len(history) => i = best.end
  <2>1. PICK at : Walking(at)
    BY <1>1 DEF WalkInv
  <2>2. h <= 1 => h = 1
    BY <1>1, <2>1 DEF Walking, WalkInv, TypeOK
  <2>3. history # <<>>
    BY <2>1 DEF Walking
  <2> QED BY <2>1, <2>2, <2>3 DEF Walking, LaidOut
<1> QED BY <1>1 DEF WalksMeet

THEOREM WalkInductive == ASSUME BlocksFit PROVE ScanSpec => []WalkInv
<1>1. LoopInv /\ LoopInv' /\ WalkInv /\ [Search \/ Prepare]_<<dfa, scanVars>> => WalkInv'
  BY WalkInvNext
<1> QED BY <1>1, WalkInvInit, ScanInductive, PTL DEF ScanSpec

\* Over a well formed table, while no text is longer than a word of the history
\* can say of a block, every position of the passes is in the input, the history
\* holds states of the table, and the groups lie in the match or are unset.
THEOREM WalkTypes == ASSUME BlocksFit PROVE ScanSpec => []TypeOK
<1>1. WalkInv => TypeOK
  BY DEF WalkInv
<1> QED BY <1>1, WalkInductive, PTL

\* Under the same conditions the walks of passes 1 to 4 over a match agree: pass 2
\* ends in a state that accepts, where pass 1 found the end, pass 3 arrives at the
\* start of the match, and pass 4 at its end.
THEOREM WalksAgree == ASSUME BlocksFit PROVE ScanSpec => []WalksMeet
<1>1. LoopInv /\ WalkInv => WalksMeet
  BY WalkMeets
<1> QED BY <1>1, WalkInductive, ScanInductive, PTL
=============================================================================
