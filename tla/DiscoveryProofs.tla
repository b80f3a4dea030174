---------------------------- MODULE DiscoveryProofs --------------------------
(***************************************************************************)
(* Theorems about module Discovery: a search by an anchor whose place in   *)
(* the match is known finds the first match there is, whatever the         *)
(* pattern and the text, if the constraints of the anchor refuse none.     *)
(***************************************************************************)
EXTENDS Discovery, InductionFacts

\* --- anchors whose place is known ----------------------------------------
\* Every match has the anchor, at one distance from its start.
Fixed == primary.mandatory /\ primary.fixed /\ primary.distance \in Nat /\ primary.literal \in Seq(Bytes)

\* Tied to the start of the text, and to nothing else.
AtBegin == Jump = "begin" /\ "beginLine" \notin primary.begin

\* A literal that is looked for by itself.
AtLiteral == Jump = "none" /\ plan.strategy = "literal" /\ plan.augmented = NoAug /\ ~HasClass(primary)
             /\ ~plan.anchorStart

\* A class the match starts with.
AtClass == Jump = "none" /\ plan.strategy = "warp" /\ HasClass(primary) /\ plan.searchWarp = primary.class
           /\ primary.distance = 0 /\ ~plan.anchorStart

Placed == Fixed /\ (AtBegin \/ AtLiteral \/ AtClass)

\* --- the invariant -------------------------------------------------------
Running == pc \in {"enter", "search", "proposed", "confirm", "done"}

Shape ==
  /\ pattern \in Patterns /\ pc \in {"parsed", "idle", "enter", "search", "proposed", "confirm", "done"}
  /\ pc \in {"parsed", "idle"} => i = 0 /\ from = 0 /\ result = -1
  /\ Running => text \in TextsFor(pattern) /\ absPos \in 0..Len(text)

\* GazeKeepsMatches, throughout a search.
Gazed == \A s \in Starting : Validate(primary, s + primary.distance)

\* A class that is looked for is not hidden from IndexClass.
Seen == AtClass => WordsDecided

\* No match has its anchor before q.
Ahead(q) == Seen => \A s \in Starting : s + primary.distance >= q

\* The one place of an anchor at the start of the text is q, or is behind it.
Tied(q) == AtBegin => q = 0 \/ q > primary.distance

\* What was proposed is the first place that is left.
Candidate ==
  /\ DOMAIN found = {"pos", "lit", "anchor"}
  /\ found.lit \in from..N /\ Ahead(found.lit) /\ found.pos = found.lit - primary.distance
  /\ found.anchor = (IF AtClass THEN NoAnchor ELSE primary)
  /\ AtBegin => absPos = 0 /\ found.lit = primary.distance

PlaceInv ==
  Running /\ Placed =>
    /\ Gazed /\ i \in Nat /\ from \in Nat
    /\ pc # "done" => result = -1
    /\ pc = "enter" => Ahead(from) /\ Tied(from)
    /\ pc = "search" => Ahead(i) /\ Tied(i) /\ from <= i
    /\ pc = "proposed" => Candidate /\ i <= found.lit /\ from <= i
    /\ pc = "confirm" => Candidate /\ found.pos >= 0
    /\ FirstStart

IInv == Shape /\ PlaceInv

\* --- lemmas --------------------------------------------------------------
LEMMA Smallest ==
  ASSUME NEW T \in SUBSET Nat, T # {}
  PROVE  Min(T) \in T /\ \A x \in T : Min(T) <= x
BY LeastElement DEF Min

\* The text of a search, and where the rest of it begins.
LEMMA Lengths ==
  ASSUME Shape, Running
  PROVE  text \in Seq(Bytes) /\ Len(text) \in Nat /\ absPos \in Nat /\ N \in Nat /\ Starting \subseteq 0..N
<1>1. text \in Seq(Bytes)
  BY DiscoveryAssumption DEF Shape
<1> QED BY <1>1 DEF Shape, N, Starting

\* What the place of the anchor of a match is.
LEMMA PlaceOf ==
  ASSUME Shape, Running, Placed, Gazed, NEW s \in Starting
  PROVE  /\ s \in Nat /\ s + primary.distance \in 0..N /\ s + primary.distance + Size(primary) <= N
         /\ Validate(primary, s + primary.distance)
         /\ AtBegin => absPos = 0 /\ s = 0
<1>1. s \in Nat /\ primary.distance \in Nat /\ N \in Nat /\ Size(primary) \in Nat /\ absPos \in Nat
  BY Lengths DEF Placed, Fixed, Size
<1>2. Validate(primary, s + primary.distance)
  BY DEF Gazed
<1>3. Within(s + primary.distance, s + primary.distance + Size(primary))
  BY <1>2 DEF Validate
<1>4. ASSUME AtBegin PROVE absPos = 0 /\ s = 0
  <2>1. "beginText" \in primary.begin /\ "beginLine" \notin primary.begin
    BY <1>4 DEF AtBegin, Jump
  <2>2. VerifyBegin(text, absPos + (s + primary.distance) - primary.distance, primary.begin \cup {"beginText"})
    BY <1>2, <2>1 DEF Validate
  <2>3. absPos + (s + primary.distance) - primary.distance = absPos + s
    BY <1>1
  <2>4. absPos + s = 0
    BY <2>1, <2>2, <2>3 DEF VerifyBegin
  <2> QED BY <1>1, <2>4
<1> QED BY <1>1, <1>2, <1>3, <1>4 DEF Within

\* A search that ends without a place has none to find.
LEMMA NothingLeft ==
  ASSUME Shape, Running, Placed, Gazed, Seen, NEW q \in Nat, Ahead(q), q > N
  PROVE  Starting = {}
<1> SUFFICES ASSUME NEW s \in Starting PROVE FALSE
  OBVIOUS
<1>1. s + primary.distance \in 0..N /\ s + primary.distance >= q
  BY PlaceOf DEF Ahead
<1> QED BY <1>1, Lengths

\* The first place a class or a literal can be at is that of no later match.
LEMMA NotTied ==
  ASSUME Placed
  PROVE  /\ AtLiteral \/ AtClass => ~AtBegin /\ Jump = "none" /\ ~plan.anchorStart
         /\ AtLiteral => ~AtClass
         /\ AtBegin \/ AtLiteral => Seen
BY DEF Placed, AtBegin, AtLiteral, AtClass, Seen

\* --- the search ----------------------------------------------------------
\* What depends on the pattern and the text alone.
LEMMA Frame ==
  ASSUME UNCHANGED <<pattern, plan, text, absPos>>
  PROVE  /\ primary' = primary /\ N' = N /\ Starting' = Starting /\ (Gazed' <=> Gazed)
         /\ (AtBegin' <=> AtBegin) /\ (AtLiteral' <=> AtLiteral) /\ (AtClass' <=> AtClass) /\ (Placed' <=> Placed)
         /\ (WordsDecided' <=> WordsDecided) /\ (Seen' <=> Seen)
<1>1. primary' = primary /\ N' = N
  BY DEF primary, N
<1>2. Starting' = Starting
  BY <1>1 DEF Starting, Matches
<1>3. Jump' = Jump
  BY <1>1 DEF Jump
<1>4. \A p : Validate(primary, p)' <=> Validate(primary, p)
  BY <1>1 DEF Validate, Within, Slice, Accepts, Met
<1>5. WordsDecided' <=> WordsDecided
  BY DEF WordsDecided, ByWords
<1> QED BY <1>1, <1>2, <1>3, <1>4, <1>5 DEF Gazed, AtBegin, AtLiteral, AtClass, Placed, Fixed, Seen

\* What a proposal leaves.
LEMMA Proposed ==
  ASSUME Shape, pc = "search", PlaceInv, Placed, NEW p \in i..N, Ahead(p), NEW a, Propose(a, p), Kept,
         a = (IF AtClass THEN NoAnchor ELSE primary), AtBegin => absPos = 0 /\ p = primary.distance
  PROVE  IInv'
<1>1. a.distance = primary.distance /\ primary.distance \in Nat
  BY DEF Placed, Fixed, AtClass, NoAnchor, Blank
<1>2. pc' = "proposed" /\ found' = [pos |-> p - a.distance, lit |-> p, anchor |-> a]
      /\ UNCHANGED <<pattern, plan, text, absPos, from, result, i>>
  BY DEF Propose, Kept
<1>3. Running /\ i \in Nat /\ from \in Nat /\ N \in Nat
  BY Lengths DEF PlaceInv, Running
<1>4. Shape'
  BY <1>2, <1>3 DEF Shape, Running
<1>5. Gazed /\ result = -1 /\ from <= i
  BY <1>3 DEF PlaceInv
<1>6. Gazed' /\ Ahead(p)' /\ N' = N /\ (AtClass' <=> AtClass) /\ (AtBegin' <=> AtBegin) /\ primary' = primary
  BY <1>2, <1>5, Frame DEF Ahead
<1>7. Candidate'
  BY <1>1, <1>2, <1>3, <1>5, <1>6 DEF Candidate, Ahead
<1>8. FirstStart'
  BY <1>2 DEF FirstStart
<1> QED BY <1>2, <1>3, <1>4, <1>5, <1>6, <1>7, <1>8 DEF IInv, PlaceInv

\* What remains when there is no match.
LEMMA GaveUp ==
  ASSUME Shape, PlaceInv, Running, pc # "done", Placed /\ Seen => Starting = {}, GiveUp, Kept
  PROVE  IInv'
<1>1. pc' = "done" /\ UNCHANGED <<pattern, plan, text, absPos, from, result, i, found>>
  BY DEF GiveUp, Kept
<1>2. Shape'
  BY <1>1 DEF Shape, Running
<1>3. (Placed' <=> Placed) /\ Starting' = Starting /\ (Gazed' <=> Gazed) /\ (WordsDecided' <=> WordsDecided)
  BY <1>1, Frame
<1>4. Placed => result = -1 /\ Gazed /\ (WordsDecided => Starting = {})
  BY DEF PlaceInv, Seen
<1>5. Placed' => FirstStart'
  BY <1>1, <1>3, <1>4 DEF FirstStart
<1> QED BY <1>1, <1>2, <1>3, <1>4, <1>5 DEF IInv, PlaceInv

LEMMA ShapeStep == ASSUME Shape, Next PROVE Shape'
<1>1. CASE Build
  BY <1>1 DEF Build, Shape, Running
<1>2. CASE Call
  <2>1. text' \in TextsFor(pattern) /\ absPos' \in Resumptions(text') /\ pattern' = pattern /\ pc' = "enter"
    BY <1>2 DEF Call
  <2>2. Resumptions(text') \subseteq 0..Len(text')
    <3>1. text' \in Seq(Bytes) /\ Len(text') \in Nat
      BY <2>1, DiscoveryAssumption DEF Shape
    <3>2. ASSUME NEW p \in 0..Len(text'), MatchesIn(pattern, text', p) # <<>>
          PROVE  Head(MatchesIn(pattern, text', p)).end \in 0..Len(text')
      <4>1. Head(MatchesIn(pattern, text', p)).end \in p..Len(text')
        BY <2>1, <3>2, DiscoveryAssumption DEF Shape
      <4> QED BY <3>1, <4>1
    <3> QED BY <3>1, <3>2 DEF Resumptions
  <2> QED BY <2>1, <2>2 DEF Shape, Running
<1>3. CASE Enter \/ JumpToBegin \/ JumpToEnd \/ SearchLiteral \/ SearchClass \/ RunOut
  <2>1. Running /\ UNCHANGED <<pattern, plan, text, absPos>>
    BY <1>3 DEF Enter, JumpToBegin, JumpToEnd, SearchLiteral, SearchClass, RunOut, Searching, Kept, Running
  <2>2. pc' \in {"search", "proposed", "done"}
    BY <1>3 DEF Enter, JumpToBegin, JumpToEnd, SearchLiteral, SearchClass, RunOut, Searching, Propose, GiveUp, GoOn
  <2> QED BY <2>1, <2>2 DEF Shape, Running
<1>4. CASE SnapBack
  BY <1>4 DEF SnapBack, GiveUp, Shape, Running
<1>5. CASE Confirm
  BY <1>5 DEF Confirm, Shape, Running
<1>6. CASE Return
  BY <1>6 DEF Return, Shape, Running
<1> QED BY <1>1, <1>2, <1>3, <1>4, <1>5, <1>6 DEF Next

LEMMA CallKeeps == ASSUME IInv, Call, GazeKeepsMatches' PROVE IInv'
<1>1. Shape'
  BY ShapeStep DEF IInv, Next
<1>2. pc' = "enter" /\ from' = 0 /\ i' = 0 /\ result' = -1
  BY DEF Call, IInv, Shape
<1>3. Placed' => Gazed'
  BY <1>2 DEF GazeKeepsMatches, Fresh, Placed, Fixed, Gazed
<1>4. ASSUME Placed' PROVE Ahead(0)' /\ Tied(0)'
  <2>1. Starting' \subseteq Nat
    BY DEF Starting
  <2> QED BY <1>4, <2>1 DEF Ahead, Tied, Placed, Fixed
<1> QED BY <1>1, <1>2, <1>3, <1>4 DEF IInv, PlaceInv, FirstStart, Tied, Ahead

LEMMA EnterKeeps == ASSUME IInv, Enter PROVE IInv'
<1>1. Shape'
  BY ShapeStep DEF IInv, Next
<1>2. pc = "enter" /\ Running /\ Kept
  BY DEF Enter, Running
<1>3. CASE from > N \/ (plan.anchorStart /\ (absPos > 0 \/ from > 0))
  <2>1. GiveUp
    BY <1>3 DEF Enter
  <2>2. ASSUME Placed, Seen PROVE Starting = {}
    <3>1. Gazed /\ from \in Nat /\ Ahead(from) /\ Tied(from)
      BY <1>2, <2>2 DEF IInv, PlaceInv
    <3>2. CASE from > N
      BY <1>2, <2>2, <3>1, <3>2, NothingLeft DEF IInv
    <3>3. CASE plan.anchorStart /\ (absPos > 0 \/ from > 0)
      <4>1. AtBegin
        BY <2>2, <3>3, NotTied DEF Placed
      <4>2. ASSUME NEW s \in Starting PROVE FALSE
        <5>1. absPos = 0 /\ s = 0 /\ primary.distance \in Nat
          BY <1>2, <2>2, <3>1, <4>1, PlaceOf DEF IInv, Placed, Fixed
        <5>2. from > primary.distance /\ s + primary.distance >= from
          BY <2>2, <3>1, <3>3, <4>1, <4>2, <5>1 DEF Tied, Ahead
        <5> QED BY <3>1, <5>1, <5>2
      <4> QED BY <4>2
    <3> QED BY <1>3, <3>2, <3>3
  <2> QED BY <1>2, <2>1, <2>2, GaveUp DEF IInv
<1>4. CASE ~(from > N \/ (plan.anchorStart /\ (absPos > 0 \/ from > 0)))
  <2>1. i' = from /\ pc' = "search" /\ UNCHANGED <<found, pattern, plan, text, absPos, from, result>>
    BY <1>4 DEF Enter, Kept
  <2>2. (Placed' <=> Placed) /\ (Gazed' <=> Gazed) /\ (Ahead(i)' <=> Ahead(from)) /\ (Tied(i)' <=> Tied(from))
    BY <2>1, Frame DEF Ahead, Tied
  <2>3. Placed => Gazed /\ result = -1 /\ Ahead(from) /\ Tied(from) /\ from \in Nat
    BY <1>2 DEF IInv, PlaceInv
  <2> QED BY <1>1, <2>1, <2>2, <2>3 DEF IInv, PlaceInv, FirstStart
<1> QED BY <1>3, <1>4

LEMMA JumpToBeginKeeps == ASSUME IInv, JumpToBegin PROVE IInv'
<1>1. pc = "search" /\ Running /\ Kept /\ Jump = "begin" /\ Shape /\ PlaceInv
  BY DEF JumpToBegin, Searching, Running, IInv
<1>2. Shape'
  BY ShapeStep DEF IInv, Next
<1>3. CASE ~Placed
  BY <1>1, <1>2, <1>3, Frame DEF IInv, PlaceInv, Kept
<1>4. CASE Placed
  <2>1. AtBegin /\ ~AtClass /\ primary.distance \in Nat
    BY <1>1, <1>4 DEF Placed, Fixed, AtLiteral, AtClass
  <2>2. Gazed /\ Ahead(i) /\ Tied(i) /\ i \in Nat /\ absPos \in Nat /\ N \in Nat
    BY <1>1, <1>4, Lengths DEF PlaceInv
  <2>3. CASE absPos + i = 0 /\ Validate(primary, primary.distance)
    <3>1. Propose(primary, primary.distance) /\ absPos = 0 /\ i = 0
      BY <2>2, <2>3 DEF JumpToBegin
    <3>2. primary.distance <= N
      BY <2>1, <2>2, <2>3 DEF Validate, Within, Size
    <3>3. Ahead(primary.distance)
      <4>1. \A s \in Starting : s \in Nat
        BY <1>1, Lengths
      <4> QED BY <2>1, <4>1 DEF Ahead
    <3> QED BY <1>1, <1>4, <2>1, <2>2, <3>1, <3>2, <3>3, Proposed
  <2>4. CASE ~(absPos + i = 0 /\ Validate(primary, primary.distance))
    <3>1. GiveUp
      BY <2>4 DEF JumpToBegin
    <3>2. ASSUME NEW s \in Starting PROVE FALSE
      <4>1. absPos = 0 /\ s = 0 /\ Validate(primary, s + primary.distance)
        BY <1>1, <1>4, <2>1, <2>2, PlaceOf
      <4>2. i # 0
        BY <2>1, <2>2, <2>4, <4>1
      <4>3. i > primary.distance /\ s + primary.distance >= i
        BY <2>1, <2>2, <3>2, <4>2 DEF Tied, Ahead, Seen
      <4> QED BY <2>1, <2>2, <4>1, <4>3
    <3> QED BY <1>1, <3>1, <3>2, GaveUp
  <2> QED BY <2>3, <2>4
<1> QED BY <1>3, <1>4

\* No anchor whose place is known is looked for at the end of the text.
LEMMA JumpToEndKeeps == ASSUME IInv, JumpToEnd PROVE IInv'
<1>1. Shape' /\ Kept
  BY ShapeStep DEF IInv, Next, JumpToEnd
<1>2. ~Placed
  BY DEF JumpToEnd, Placed, AtBegin, AtLiteral, AtClass
<1> QED BY <1>1, <1>2, Frame DEF IInv, PlaceInv, Kept

\* A byte is accepted by a class that has it.
LEMMA OneByte ==
  ASSUME text \in Seq(Bytes), absPos \in Nat, NEW s \in Nat, absPos + s < Len(text), NEW info, Accepts(info, s, s + 1)
  PROVE  text[(absPos + s) + 1] \in info.accept
<1>1. Len(text) \in Nat /\ (absPos + s) + 1 \in 1..Len(text) /\ absPos + (s + 1) = (absPos + s) + 1
  OBVIOUS
<1> DEFINE n == (absPos + s) + 1
           t == SubSeq(text, n, n)
<1>2. Slice(s, s + 1) = t
  BY <1>1 DEF Slice
<1>3. 1 \in DOMAIN t /\ t[1] = text[n]
  BY <1>1
<1> HIDE DEF n, t
<1>4. t[1] \in Range(t)
  BY <1>3 DEF Range
<1> QED BY <1>2, <1>3, <1>4 DEF Accepts, n

\* Where no word hides a byte, IndexClass can find every one.
LEMMA NoneLost ==
  ASSUME NEW t \in Seq(Bytes), NEW S, NEW words \in BOOLEAN, words => HidesNone(t, S),
         NEW p \in Nat, NEW q \in p..(Len(t) - 1), t[q + 1] \in S
  PROVE  q \in Findable(t, p, S, words)
<1>0. q \in Nat /\ p <= q /\ q < Len(t) /\ Len(t) \in Nat /\ WordLength \in Nat \ {0}
  BY DiscoveryAssumption
<1>1. ASSUME HidesNone(t, S), Lost(t, p, q, S) PROVE FALSE
  <2>1. PICK n \in 0..(q - p) : /\ p + n * WordLength <= q /\ q < p + n * WordLength + WordLength
                                /\ PassedOver(t, p + n * WordLength, S)
    <3>1. \A n \in 0..(q - p) : n \in 0..n
      BY <1>0
    <3> QED BY <1>1, <3>1, Zenon DEF Lost
  <2> DEFINE w == p + n * WordLength
  <2>2. w \in Nat
    <3>1. n \in Nat /\ WordLength \in Nat
      BY <1>0
    <3>2. n * WordLength \in Nat
      BY <3>1
    <3> QED BY <3>2
  <2>3. w <= q /\ q < w + WordLength /\ PassedOver(t, w, S)
    BY <2>1
  <2> HIDE DEF w
  <2>4. w \in 0..Len(t) /\ q - w \in 0..(WordLength - 1) /\ w + (q - w) + 1 = q + 1
    BY <1>0, <2>2, <2>3
  <2>5. t[w + (q - w) + 1] \notin S
    BY <1>1, <2>3, <2>4 DEF HidesNone
  <2> QED BY <2>4, <2>5
<1> QED BY <1>1 DEF Findable

LEMMA SearchClassKeeps == ASSUME IInv, SearchClass PROVE IInv'
<1>1. pc = "search" /\ Running /\ Kept /\ plan.strategy = "warp" /\ Jump = "none" /\ Shape /\ PlaceInv
  BY DEF SearchClass, Searching, Running, IInv
<1>2. Shape'
  BY ShapeStep DEF IInv, Next
<1>3. CASE ~Placed
  BY <1>1, <1>2, <1>3, Frame DEF IInv, PlaceInv, Kept
<1>4. CASE Placed
  <2> DEFINE S  == plan.searchWarp.accept
             ps == {p \in i..(N - 1) : absPos + p \in Findable(text, absPos + i, S, ByWords)}
  <2>1. AtClass /\ ~AtBegin /\ primary.distance = 0
    BY <1>1, <1>4 DEF Placed, AtBegin, AtLiteral, AtClass
  <2>2. /\ Gazed /\ Ahead(i) /\ i \in Nat /\ N \in Nat /\ absPos \in Nat
        /\ text \in Seq(Bytes) /\ Len(text) \in Nat /\ N = Len(text) - absPos
    BY <1>1, <1>4, Lengths DEF PlaceInv, N
  <2>3. ASSUME Seen, NEW s \in Starting PROVE s \in ps
    <3>1. s \in Nat /\ s + primary.distance + Size(primary) <= N /\ Validate(primary, s + primary.distance)
          /\ s + primary.distance >= i
      BY <1>1, <1>4, <2>2, <2>3, PlaceOf DEF Ahead
    <3>2. s + primary.distance = s /\ Size(primary) = 1 /\ HasClass(primary) /\ plan.searchWarp = primary.class
      BY <2>1, <3>1 DEF AtClass, Size
    <3>3. Accepts(primary.class, s, s + 1)
      BY <3>1, <3>2 DEF Validate
    <3>4. s \in i..(N - 1) /\ absPos + s \in (absPos + i)..(Len(text) - 1)
      BY <2>2, <3>1, <3>2
    <3>5. text[(absPos + s) + 1] \in S
      <4>1. s \in Nat /\ absPos + s < Len(text) /\ Accepts(plan.searchWarp, s, s + 1)
        BY <2>2, <3>1, <3>2, <3>3, <3>4
      <4> QED BY <2>2, <4>1, OneByte
    <3>6. ByWords => HidesNone(text, S)
      BY <1>1, <2>1, <2>3 DEF Seen, WordsDecided
    <3>7. absPos + s \in Findable(text, absPos + i, S, ByWords)
      <4>1. ByWords \in BOOLEAN /\ absPos + i \in Nat
        BY <2>2 DEF ByWords
      <4> HIDE DEF S
      <4> QED BY <2>2, <3>4, <3>5, <3>6, <4>1, NoneLost
    <3> QED BY <3>4, <3>7
  <2>4. CASE ps = {}
    <3>1. GiveUp /\ (Seen => Starting = {})
      BY <2>3, <2>4 DEF SearchClass
    <3> QED BY <1>1, <3>1, GaveUp
  <2>5. CASE ps # {}
    <3>1. Propose(NoAnchor, Min(ps))
      BY <2>5 DEF SearchClass
    <3>2. Min(ps) \in ps /\ \A p \in ps : Min(ps) <= p
      <4>1. ps \subseteq Nat
        BY <2>2
      <4> HIDE DEF ps
      <4> QED BY <2>5, <4>1, Smallest
    <3>3. Ahead(Min(ps))
      <4>1. Seen => \A s \in Starting : s \in Nat /\ s + primary.distance = s /\ Min(ps) <= s
        BY <1>1, <2>1, <2>3, <3>2, Lengths
      <4> HIDE DEF ps
      <4> QED BY <4>1 DEF Ahead
    <3>4. Min(ps) \in i..N
      <4>1. Min(ps) \in i..(N - 1)
        BY <3>2
      <4> HIDE DEF ps
      <4> QED BY <2>2, <4>1
    <3> HIDE DEF ps
    <3> QED BY <1>1, <1>4, <2>1, <3>1, <3>3, <3>4, Proposed
  <2> QED BY <2>4, <2>5
<1> QED BY <1>3, <1>4

LEMMA SearchLiteralKeeps == ASSUME IInv, SearchLiteral PROVE IInv'
<1>1. pc = "search" /\ Running /\ Kept /\ plan.strategy = "literal" /\ Jump = "none" /\ Shape /\ PlaceInv
  BY DEF SearchLiteral, Searching, Running, IInv
<1>2. Shape'
  BY ShapeStep DEF IInv, Next
<1>3. CASE ~Placed
  BY <1>1, <1>2, <1>3, Frame DEF IInv, PlaceInv, Kept
<1>4. CASE Placed
  <2> DEFINE at == Places(primary.literal)
             d  == primary.distance
  <2>1. AtLiteral /\ ~AtBegin /\ ~AtClass /\ plan.augmented = NoAug /\ ~HasClass(primary)
    BY <1>1, <1>4 DEF Placed, AtBegin, AtLiteral, AtClass
  <2>2. Gazed /\ Ahead(i) /\ Tied(i) /\ result = -1 /\ i \in Nat /\ from \in Nat /\ from <= i /\ N \in Nat /\ d \in Nat
    BY <1>1, <1>4, Lengths DEF PlaceInv, Placed, Fixed
  <2>3. at \subseteq i..N /\ i..N \subseteq Nat
    BY <2>2 DEF Places
  <2> USE <2>1 DEF Seen
  <2>4. ASSUME NEW s \in Starting PROVE s \in Nat /\ s + d \in at /\ Validate(primary, s + d)
    <3>1. /\ s \in Nat /\ s + d \in 0..N /\ s + d + Size(primary) <= N
          /\ Validate(primary, s + d) /\ s + d >= i
      BY <1>1, <1>4, <2>2, PlaceOf DEF Ahead
    <3>2. Size(primary) = Len(primary.literal)
      BY <2>1 DEF Size
    <3>3. Within(s + d, s + d + Len(primary.literal)) /\ Slice(s + d, s + d + Len(primary.literal)) = primary.literal
      BY <2>1, <3>1, <3>2 DEF Validate
    <3>4. s + d \in i..N
      BY <2>2, <3>1
    <3> QED BY <3>1, <3>3, <3>4 DEF Places
  <2>5. Target.pattern = primary.literal /\ Target.offset = 0 /\ Target.anchor = primary
    BY <2>1 DEF Target
  <2> HIDE DEF at
  <2>6. CASE at = {}
    <3>1. GiveUp
      BY <2>1, <2>5, <2>6 DEF SearchLiteral, at
    <3>2. Starting = {}
      BY <2>4, <2>6
    <3> QED BY <1>1, <3>1, <3>2, GaveUp
  <2>7. CASE at # {}
    <3> DEFINE p == Min(at)
    <3>1. p \in i..N /\ p \in Nat /\ \A q \in at : p <= q
      BY <2>3, <2>7, Smallest
    <3> HIDE DEF p
    <3>2. Ahead(p)
      <4>1. \A s \in Starting : s + d >= p
        BY <2>2, <2>4, <3>1
      <4> QED BY <4>1 DEF Ahead
    <3>3. IF Validate(primary, p) THEN Propose(primary, p) ELSE GoOn(p + 1)
      <4>1. p + 0 = p
        BY <3>1
      <4> QED BY <2>1, <2>5, <2>7, <4>1 DEF SearchLiteral, at, p
    <3>4. CASE Validate(primary, p)
      BY <1>1, <1>4, <2>1, <3>1, <3>2, <3>3, <3>4, Proposed
    <3>5. CASE ~Validate(primary, p)
      <4>1. GoOn(p + 1)
        BY <3>3, <3>5
      <4>2. i' = p + 1 /\ UNCHANGED <<pc, found, pattern, plan, text, absPos, from, result>>
        BY <1>1, <4>1 DEF GoOn, Kept
      <4>3. \A s \in Starting : s + d >= p + 1
        <5>1. ASSUME NEW s \in Starting PROVE s + d >= p + 1
          <6>1. s \in Nat /\ s + d >= p /\ s + d # p
            BY <2>4, <3>2, <3>5 DEF Ahead
          <6> QED BY <2>2, <3>1, <6>1
        <5> QED BY <5>1
      <4>4. Ahead(i)' /\ Gazed' /\ ~AtBegin'
        BY <2>1, <2>2, <4>2, <4>3, Frame DEF Ahead
      <4>5. i' \in Nat /\ from <= i'
        BY <2>2, <3>1, <4>2
      <4> QED BY <1>1, <1>2, <2>2, <4>2, <4>4, <4>5 DEF IInv, PlaceInv, Tied, FirstStart
    <3> QED BY <3>4, <3>5
  <2> QED BY <2>6, <2>7
<1> QED BY <1>3, <1>4

LEMMA RunOutKeeps == ASSUME IInv, RunOut PROVE IInv'
<1>1. pc = "search" /\ Running /\ Kept /\ GiveUp /\ ~(i <= N /\ (plan.anchorStart => i = 0)) /\ Shape /\ PlaceInv
  BY DEF RunOut, Searching, Running, IInv
<1>2. ASSUME Placed, Seen PROVE Starting = {}
  <2>1. Gazed /\ Ahead(i) /\ Tied(i) /\ i \in Nat /\ N \in Nat /\ primary.distance \in Nat
    BY <1>1, <1>2, Lengths DEF PlaceInv, Placed, Fixed
  <2>2. CASE i > N
    BY <1>1, <1>2, <2>1, <2>2, NothingLeft
  <2>3. CASE plan.anchorStart /\ i # 0
    <3>1. AtBegin
      BY <1>2, <2>3, NotTied DEF Placed
    <3>2. ASSUME NEW s \in Starting PROVE FALSE
      <4>1. s = 0 /\ s + primary.distance >= i /\ i > primary.distance
        BY <1>1, <1>2, <2>1, <2>3, <3>1, PlaceOf DEF Ahead, Tied
      <4> QED BY <2>1, <4>1
    <3> QED BY <3>2
  <2> QED BY <1>1, <2>1, <2>2, <2>3
<1> QED BY <1>1, <1>2, GaveUp

\* With nothing to its left, a place is not snapped back from.
LEMMA SnapNothing == ASSUME NEW lit PROVE Snap(NoAnchor, lit) = lit
<1>1. NoAnchor.backward = <<>>
  BY DEF NoAnchor, Blank
<1> DEFINE Is(g) ==
             g = [k \in 0..0 |->
                    IF k = 0 THEN [j |-> lit, offset |-> 0]
                    ELSE LET c == NoAnchor.backward[k]
                             j == g[k - 1].j + c.offset - g[k - 1].offset
                         IN  [j |-> IF c.repeat /\ j > 0 THEN j - WarpBack(c.info, j) ELSE j, offset |-> c.offset]]
           back == CHOOSE g : Is(g)
<1>2. Is([k \in 0..0 |-> [j |-> lit, offset |-> 0]])
  OBVIOUS
<1>3. Is(back)
  BY <1>2
<1>4. back[0] = [j |-> lit, offset |-> 0]
  <2> HIDE DEF back
  <2> QED BY <1>3
<1>5. Len(NoAnchor.backward) = 0
  BY <1>1
<1>6. Snap(NoAnchor, lit) = back[0].j
  BY <1>5 DEF Snap
<1> HIDE DEF back
<1> QED BY <1>4, <1>6

LEMMA SnapBackKeeps == ASSUME IInv, SnapBack PROVE IInv'
<1>1. pc = "proposed" /\ Running /\ UNCHANGED <<pattern, plan, text, absPos, from, result>> /\ Shape /\ PlaceInv
  BY DEF SnapBack, Running, IInv
<1>2. Shape'
  BY ShapeStep DEF IInv, Next
<1>3. CASE ~Placed
  BY <1>1, <1>2, <1>3, Frame DEF IInv, PlaceInv
<1>4. CASE Placed
  <2> DEFINE j == IF found.anchor.fixed THEN found.pos ELSE Snap(found.anchor, found.lit)
             d == primary.distance
  <2>1. /\ Gazed /\ Candidate /\ i <= found.lit /\ from <= i /\ result = -1
        /\ i \in Nat /\ from \in Nat /\ N \in Nat /\ d \in Nat /\ found.lit \in from..N
        /\ found.pos = found.lit - d /\ Ahead(found.lit)
    BY <1>1, <1>4, Lengths DEF PlaceInv, Placed, Fixed, Candidate
  <2>2. j = found.pos
    <3>1. CASE AtClass
      <4>1. found.anchor = NoAnchor /\ d = 0
        BY <2>1, <3>1 DEF Candidate, AtClass
      <4>2. ~NoAnchor.fixed
        BY DEF NoAnchor, Blank
      <4>3. j = found.lit
        BY <4>1, <4>2, SnapNothing
      <4> QED BY <2>1, <4>1, <4>3
    <3>2. CASE ~AtClass
      BY <1>4, <2>1, <3>2 DEF Candidate, Placed, Fixed
    <3> QED BY <3>1, <3>2
  <2>3. /\ found.pos < 0 => pc' = "search" /\ i' = i + 1 /\ UNCHANGED found
        /\ found.pos >= 0 =>
             IF plan.anchorStart /\ absPos + found.pos > 0 THEN GiveUp
             ELSE pc' = "confirm" /\ found' = [found EXCEPT !.pos = found.pos] /\ UNCHANGED i
    <3> HIDE DEF j
    <3>1. IF found.pos < 0 THEN pc' = "search" /\ i' = i + 1 /\ UNCHANGED found
          ELSE IF j < 0 \/ (plan.anchorStart /\ absPos + j > 0) THEN GiveUp
          ELSE pc' = "confirm" /\ found' = [found EXCEPT !.pos = j] /\ UNCHANGED i
      BY DEF SnapBack, j
    <3> QED BY <2>1, <2>2, <3>1
  <2> HIDE DEF j
  <2>4. CASE found.pos < 0
    <3>1. pc' = "search" /\ i' = i + 1
      BY <2>3, <2>4
    <3>2. ~AtBegin
      BY <2>1, <2>4 DEF Candidate
    <3>3. ASSUME Seen, NEW s \in Starting PROVE s + d >= i + 1
      <4>1. s \in Nat
        BY <1>1, Lengths
      <4> QED BY <2>1, <2>4, <4>1
    <3>4. Ahead(i)' /\ Gazed' /\ ~AtBegin'
      BY <1>1, <2>1, <3>1, <3>2, <3>3, Frame DEF Ahead
    <3>5. i' \in Nat /\ from' \in Nat /\ from' <= i' /\ result' = -1
      BY <1>1, <2>1, <3>1
    <3> QED BY <1>2, <3>1, <3>4, <3>5 DEF IInv, PlaceInv, Tied, FirstStart
  <2>5. CASE found.pos >= 0
    <3>1. ~(plan.anchorStart /\ absPos + found.pos > 0)
      <4>1. CASE AtBegin
        <5>1. absPos = 0 /\ found.lit = d
          BY <2>1, <4>1 DEF Candidate
        <5> QED BY <2>1, <5>1
      <4>2. CASE ~AtBegin
        BY <1>4, <4>2, NotTied DEF Placed
      <4> QED BY <4>1, <4>2
    <3>2. pc' = "confirm" /\ found' = [found EXCEPT !.pos = found.pos] /\ UNCHANGED i
      BY <2>3, <2>5, <3>1
    <3>3. found'.pos = found.pos /\ found'.lit = found.lit /\ found'.anchor = found.anchor
          /\ DOMAIN found' = {"pos", "lit", "anchor"}
      <4>1. DOMAIN found = {"pos", "lit", "anchor"}
        BY <1>1, <1>4 DEF PlaceInv, Candidate
      <4> QED BY <3>2, <4>1
    <3>4. Candidate' /\ Gazed'
      BY <1>1, <2>1, <3>3, Frame DEF Candidate, Ahead
    <3>5. i' \in Nat /\ from' \in Nat /\ result' = -1 /\ found'.pos >= 0
      BY <1>1, <2>1, <2>5, <3>2, <3>3
    <3> QED BY <1>2, <3>2, <3>4, <3>5 DEF IInv, PlaceInv, FirstStart
  <2> QED BY <2>1, <2>4, <2>5
<1> QED BY <1>3, <1>4

\* Pass 1 decides about a candidate, and no match is before the next one.
LEMMA ConfirmKeeps == ASSUME IInv, Confirm PROVE IInv'
<1>1. pc = "confirm" /\ Running /\ UNCHANGED <<pattern, plan, text, absPos, i, found>> /\ Shape /\ PlaceInv
  BY DEF Confirm, Running, IInv
<1>2. Shape'
  BY ShapeStep DEF IInv, Next
<1>3. CASE ~Placed
  BY <1>1, <1>2, <1>3, Frame DEF IInv, PlaceInv
<1>4. CASE Placed
  <2> DEFINE d == primary.distance
  <2>1. /\ Gazed /\ Candidate /\ result = -1 /\ i \in Nat /\ from \in Nat /\ N \in Nat /\ d \in Nat
        /\ found.lit \in from..N /\ found.pos = found.lit - d /\ Ahead(found.lit) /\ found.pos >= 0
    BY <1>1, <1>4, Lengths DEF PlaceInv, Placed, Fixed, Candidate
  <2>2. Seen => \A s \in Starting : s \in Nat /\ s >= found.pos
    <3>1. ASSUME Seen, NEW s \in Starting PROVE s \in Nat /\ s >= found.pos
      <4>1. s \in Nat /\ s + d >= found.lit
        BY <1>1, <2>1, <3>1, Lengths DEF Ahead
      <4> QED BY <2>1, <4>1
    <3> QED BY <3>1
  <2>3. found.pos \in 0..N
    BY <2>1
  <2>4. CASE Matches(absPos + found.pos) # <<>>
    <3>1. pc' = "done" /\ result' = absPos + found.pos /\ UNCHANGED from
      BY <2>4 DEF Confirm
    <3>2. found.pos \in Starting
      BY <2>3, <2>4 DEF Starting
    <3>3. WordsDecided => \A s \in Starting : found.pos <= s
      BY <2>1, <2>2 DEF Seen
    <3>4. FirstStart' /\ Gazed'
      BY <1>1, <2>1, <3>1, <3>2, <3>3, Frame DEF FirstStart
    <3> QED BY <1>1, <1>2, <2>1, <3>1, <3>4 DEF IInv, PlaceInv
  <2>5. CASE Matches(absPos + found.pos) = <<>>
    <3> DEFINE next == (IF found.anchor.mandatory /\ found.anchor.fixed THEN found.lit ELSE from) + 1
    <3>1. pc' = "enter" /\ from' = next /\ UNCHANGED result
      BY <2>5 DEF Confirm
    <3>2. next \in Nat /\ next <= found.lit + 1
      BY <2>1
    <3>3. AtBegin => next = d + 1
      <4> SUFFICES ASSUME AtBegin PROVE next = d + 1
        OBVIOUS
      <4>1. ~AtClass
        BY DEF AtBegin, AtClass
      <4>2. found.anchor = primary /\ found.lit = d
        BY <2>1, <4>1 DEF Candidate
      <4> QED BY <1>4, <4>2 DEF Placed, Fixed
    <3> HIDE DEF next
    <3>4. found.pos \notin Starting
      BY <2>5 DEF Starting
    <3>5. ASSUME Seen, NEW s \in Starting PROVE s + d >= next
      <4>1. s \in Nat /\ s >= found.pos /\ s # found.pos
        BY <2>2, <3>4, <3>5
      <4>2. s + d >= found.lit + 1
        BY <2>1, <4>1
      <4> QED BY <2>1, <3>2, <4>1, <4>2
    <3>6. Ahead(from)' /\ Gazed'
      BY <1>1, <2>1, <3>1, <3>5, Frame DEF Ahead
    <3>7. Tied(from)'
      BY <1>1, <2>1, <3>1, <3>3, Frame DEF Tied
    <3> QED BY <1>1, <1>2, <2>1, <3>1, <3>2, <3>6, <3>7 DEF IInv, PlaceInv, FirstStart
  <2> QED BY <2>4, <2>5
<1> QED BY <1>3, <1>4

LEMMA StepKeeps == ASSUME IInv, [Next]_vars, GazeKeepsMatches' PROVE IInv'
<1>1. CASE Build
  <2>1. Shape' /\ pc' = "idle"
    BY <1>1, ShapeStep DEF Build, IInv, Next
  <2> QED BY <2>1 DEF IInv, PlaceInv, Running
<1>2. CASE Return
  <2>1. Shape' /\ pc' = "idle"
    BY <1>2, ShapeStep DEF Return, IInv, Next
  <2> QED BY <2>1 DEF IInv, PlaceInv, Running
<1>3. CASE UNCHANGED vars
  <2>1. Shape' /\ UNCHANGED <<pattern, plan, text, absPos>> /\ UNCHANGED <<pc, i, from, found, result>>
    BY <1>3 DEF vars, IInv, Shape, Running
  <2>2. \A q : (Ahead(q)' <=> Ahead(q)) /\ (Tied(q)' <=> Tied(q))
    BY <2>1, Frame DEF Ahead, Tied
  <2>3. (Candidate' <=> Candidate) /\ (FirstStart' <=> FirstStart) /\ (Placed' <=> Placed) /\ (Gazed' <=> Gazed)
        /\ (Ahead(from)' <=> Ahead(from)) /\ (Tied(from)' <=> Tied(from))
        /\ (Ahead(i)' <=> Ahead(i)) /\ (Tied(i)' <=> Tied(i))
    BY <2>1, Frame DEF Candidate, FirstStart, Ahead, Tied
  <2> QED BY <2>1, <2>3 DEF IInv, PlaceInv, Running
<1> QED BY <1>1, <1>2, <1>3, CallKeeps, EnterKeeps, JumpToBeginKeeps, JumpToEndKeeps, SearchLiteralKeeps,
           SearchClassKeeps, RunOutKeeps, SnapBackKeeps, ConfirmKeeps DEF Next

\* Where a search is, and that no match is behind it, at every step.
THEOREM DiscoveryInductive == Spec /\ []GazeKeepsMatches => []IInv
<1>1. Init => IInv
  BY DEF Init, IInv, Shape, PlaceInv, Running
<1> QED BY <1>1, StepKeeps, PTL DEF Spec

\* A search by a fixed anchor returns the start of a match, and the leftmost one if
\* no word hides a byte of its class: its turns skip no place but a hidden one, a
\* refused candidate costs none, and every way to give up means that there is
\* nothing to find.
THEOREM FixedAnchorsFindTheFirst == Spec /\ []GazeKeepsMatches => [](Placed => FirstStart)
<1>1. IInv => (Placed => FirstStart)
  BY DEF IInv, PlaceInv, FirstStart, Running
<1> QED BY <1>1, DiscoveryInductive, PTL
=============================================================================
