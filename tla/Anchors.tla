-------------------------------- MODULE Anchors ------------------------------
(***************************************************************************)
(* The pieces of a pattern that pass 0 looks for (internal/ir/anchor.go,   *)
(* the choice among them in dfa_builder.go and regexp.go): a literal or a  *)
(* class of bytes at some distance from the start of the match, with what  *)
(* must stand around it.                                                   *)
(*                                                                         *)
(* Patterns are those Optimize returns, without counted repetitions and    *)
(* without case folding; a class is of ASCII bytes, the complement of a    *)
(* range of them, or one of the two dots.                                  *)
(***************************************************************************)
EXTENDS Compatibility, AnchorInfo

CONSTANT LowByte   \* rune of several bytes |-> byte(r), the low byte of its number

Begins == {"beginText", "beginLine"}
Ends   == {"endText", "endLine"}

Is(re, conds) == re.op = "assert" /\ re.cond \in conds
Sum(s)        == FoldLeft(LAMBDA m, n : m + n, 0, s)

\* The elements of s that are there if a condition holds.
When(cond, s) == IF cond THEN s ELSE <<>>

\* The least of some indices; 0 if there are none.
Least(ks) == IF ks = {} THEN 0 ELSE Min(ks)

\* The first index of the largest of the values above floor.
Best(values, floor) ==
  Least({k \in DOMAIN values : values[k] > floor /\ \A v \in Range(values) : v <= values[k]})

\* --- shapes --------------------------------------------------------------
\* Capture groups go, what they held joins its neighbours.
RECURSIVE StripCaptures(_)
StripCaptures(re) ==
  LET subs == [k \in DOMAIN Subs(re) |-> StripCaptures(Subs(re)[k])]
      flat == FlattenSeq([k \in DOMAIN subs |-> IF subs[k].op = "concat" THEN subs[k].subs ELSE <<subs[k]>>])
      Merge(acc, sub) == IF Last(acc).op = "lit" /\ sub.op = "lit"
                         THEN Append(Front(acc), Lit(Last(acc).str \o sub.str))
                         ELSE Append(acc, sub)
  IN  CASE re.op = "group"  -> subs[1]
        [] re.op = "concat" -> Concat(FoldLeft(Merge, <<Head(flat)>>, Tail(flat)))
        [] OTHER            -> WithSubs(re, subs)

Infinite == -1

\* Lengths in bytes, where any class counts as one byte.
RECURSIVE MaxLen(_), MinLen(_)
MaxLen(re) ==
  LET lens == [k \in DOMAIN Subs(re) |-> MaxLen(Subs(re)[k])]
  IN  CASE re.op = "lit"                                       -> Len(Encoded(re.str))
        [] re.op = "class"                                     -> 1
        [] re.op \in {"star", "plus"} \/ Infinite \in Range(lens) -> Infinite
        [] re.op = "alternate"                                 -> Max(Range(lens))
        [] OTHER                                               -> Sum(lens)

MinLen(re) ==
  LET lens == [k \in DOMAIN Subs(re) |-> MinLen(Subs(re)[k])]
  IN  CASE re.op = "lit"               -> Len(Encoded(re.str))
        [] re.op = "class"             -> 1
        [] re.op \in {"star", "quest"} -> 0
        [] re.op = "alternate"         -> Min(Range(lens))
        [] OTHER                       -> Sum(lens)

\* --- classes of bytes ----------------------------------------------------
\* A CCWarpInfo: the kernel, and the bytes it accepts.
AnyWarp == [kernel |-> "anyChar", accept |-> Bytes]

ByteOf(r)     == IF Len(r) = 1 THEN r[1] ELSE LowByte[r]
Contiguous(S) == S = Min(S)..Max(S)

ClassWarp(re) ==
  LET bytes    == {ByteOf(r) : r \in re.runes}
      excluded == {ByteOf(r) : r \in AsciiRunes \ re.runes}
  IN  CASE re.runes = AnyRunes         -> AnyWarp
        [] re.any                      -> [kernel |-> "anyExceptNL", accept |-> Bytes \ {NL}]
        [] ~(re.runes \subseteq AsciiRunes) -> [kernel |-> "notRange", accept |-> Bytes \ excluded]
        [] Contiguous(bytes)           -> [kernel |-> "range", accept |-> bytes]
        [] OTHER                       -> [kernel |-> "set", accept |-> bytes]

RECURSIVE ToCCWarp(_)
ToCCWarp(re) ==
  LET subs  == {sub \in Range(Subs(re)) : sub # EmptyMatch /\ ~Is(sub, Begins \cup Ends)}
      warps == {ToCCWarp(sub) : sub \in subs}
      Simple(w) == w.kernel \in {"equal", "set", "range"}
  IN  CASE re.op = "lit" /\ Len(re.str) = 1      -> [kernel |-> "equal", accept |-> {ByteOf(re.str[1])}]
        [] re.op = "class"                       -> ClassWarp(re)
        [] re.op \in {"star", "plus", "group"}   -> ToCCWarp(re.x)
        [] re.op = "alternate" /\ warps # {} /\ \A w \in warps : Simple(w) ->
             [kernel |-> "set", accept |-> UNION {w.accept : w \in warps}]
        [] OTHER                                 -> NoWarp

IsLiteral(re) == IF re.op = "lit" THEN Encoded(re.str) ELSE <<>>

\* --- scores --------------------------------------------------------------
CalculateSelectivity(literal, joined, hasClass) ==
  LET bonus == IF joined THEN 200 ELSE 0
      n     == Len(literal)
  IN  IF hasClass THEN 5 + 15 + bonus - 30
      ELSE n * 5 + Cardinality(Range(literal)) * 15 + bonus
           + (IF n >= 4 THEN 20 ELSE 0) + (IF n >= 8 THEN 40 ELSE 0)

Score(a) ==
  LET joined == a.begin \cup a.end # {}
      own    == IF a.literal = <<>> /\ ~HasClass(a) THEN 0
                ELSE CalculateSelectivity(a.literal, joined, HasClass(a))
      best   == Max({own} \cup {aug.selectivity : aug \in Range(a.augmented)})
      quarter == IF best < 0 THEN -((-best) \div 4) ELSE best \div 4
  IN  IF ~a.mandatory THEN 0 ELSE IF a.fixed THEN best ELSE quarter

\* --- constraints ---------------------------------------------------------
\* The part of a concatenation that the anchor was taken from; 0 if none is.
Locate(subs, a) ==
  LET At(k) == /\ Sum([j \in 1..(k - 1) |-> MinLen(subs[j])]) = a.distance
               /\ IF HasClass(a) THEN ToCCWarp(subs[k]) = a.class
                  ELSE a.literal # <<>> /\ IsLiteral(subs[k]) = a.literal
  IN  Least({k \in DOMAIN subs : At(k)})

\* Mutant of Constraint: what follows a repetition still counts as fixed.
ConstraintFixed(sub, acc) ==
  [offset |-> acc.offset, length |-> MinLen(sub), fixed |-> TRUE, info |-> ToCCWarp(sub),
   repeat |-> MinLen(sub) # MaxLen(sub) \/ sub.op \in {"star", "plus"}]

\* What sub demands of the bytes at the offset.
Constraint(sub, acc) ==
  [offset |-> acc.offset, length |-> MinLen(sub), fixed |-> acc.fixed, info |-> ToCCWarp(sub),
   repeat |-> MinLen(sub) # MaxLen(sub) \/ sub.op \in {"star", "plus"}]

\* A part that demands c and reads at most longest bytes.  If it is no class but
\* may be of any length it counts as any bytes; a loop of such parts is ignored.
AddConstraint(acc, next, longest, c) ==
  LET Add(constraint) == [list |-> Append(acc.list, constraint), offset |-> next,
                          fixed |-> acc.fixed /\ ~constraint.repeat]
  IN  CASE c.info # NoWarp                       -> Add(c)
        [] c.length = longest /\ longest > 0     -> Add([c EXCEPT !.repeat = FALSE])
        [] longest > 0                           -> Add([c EXCEPT !.offset = acc.offset, !.length = 0,
                                                                  !.repeat = TRUE, !.info = AnyWarp])
        [] OTHER                                 -> [acc EXCEPT !.offset = next]

\* One more part, in the direction dir from the anchor.
Constrain(dir, acc, sub) ==
  LET next == acc.offset + dir * MinLen(sub)
  IN  AddConstraint(acc, next, MaxLen(sub),
                    Constraint(sub, [acc EXCEPT !.offset = IF dir < 0 THEN next ELSE @]))

\* A literal constrains rune by rune.
ByRune(subs) == FlattenSeq([k \in DOMAIN subs |->
  IF subs[k].op = "lit" THEN [j \in DOMAIN subs[k].str |-> Lit(<<subs[k].str[j]>>)] ELSE <<subs[k]>>])

Along(dir, subs, offset) ==
  FoldLeft(LAMBDA acc, sub : Constrain(dir, acc, sub), [list |-> <<>>, offset |-> offset, fixed |-> TRUE],
           ByRune(subs)).list

\* The constraints around the anchor, which is the part at.
Around(subs, a, at) ==
  IF at = 0 THEN a
  ELSE [a EXCEPT !.backward = @ \o Along(-1, Reverse(ByRune(SubSeq(subs, 1, at - 1))), 0),
                 !.forward  = @ \o Along(1, SubSeq(subs, at + 1, Len(subs)), Size(a))]

RECURSIVE WithConstraints(_, _)
WithConstraints(re, a) ==
  CASE re.op = "alternate" -> FoldLeft(LAMBDA acc, sub : WithConstraints(sub, acc), a, re.subs)
    [] re.op = "concat"    -> Around(re.subs, a, Locate(re.subs, a))
    [] OTHER               -> a

NoDist == <<>>

\* The distances from the anchor to the condition, over all alternatives.
Spread(dists) == IF dists = {} THEN NoDist ELSE <<Min({d[1] : d \in dists}), Max({d[2] : d \in dists})>>

\* From the anchor, which is the part at, to the first such condition behind it.
Gap(cond, subs, at) ==
  LET ends == {k \in (at + 1)..Len(subs) : Is(subs[k], {cond})}
      gap  == SubSeq(subs, at + 1, Min(ends) - 1)
      most == [k \in DOMAIN gap |-> MaxLen(gap[k])]
  IN  IF at = 0 \/ ends = {} \/ Infinite \in Range(most) THEN NoDist
      ELSE <<Sum([k \in DOMAIN gap |-> MinLen(gap[k])]), Sum(most)>>

RECURSIVE DistTo(_, _, _)
DistTo(cond, re, a) ==
  CASE re.op = "alternate" -> Spread({DistTo(cond, sub, a) : sub \in Range(re.subs)} \ {NoDist})
    [] re.op = "concat"    -> Gap(cond, re.subs, Locate(re.subs, a))
    [] OTHER               -> NoDist

\* The anchor together with the start or end of a text or line next to it.
Augmentations(a, idx) ==
  LET Aug(pattern, offset, isEnd) ==
        [pattern |-> pattern, offset |-> offset, isEnd |-> isEnd, owner |-> idx,
         selectivity |-> CalculateSelectivity(pattern, TRUE, HasClass(a))]
      mark  == a.literal
      nl    == <<NL>>
      first == a.distance = 0
  IN  IF mark = <<>> /\ ~HasClass(a) THEN <<>>
      ELSE When("beginText" \in a.begin /\ first, <<Aug(mark, 0, FALSE)>>)
        \o When(mark # <<>> /\ "endText" \in a.end /\ a.toEnd[2] = 0, <<Aug(mark, 0, TRUE)>>)
        \o When("beginLine" \in a.begin /\ first, <<Aug(nl \o mark, 1, FALSE), Aug(mark, 0, FALSE)>>)
        \o When(mark # <<>> /\ "endLine" \in a.end /\ a.toLineEnd[2] = 0,
                <<Aug(mark \o nl, 0, FALSE), Aug(mark, 0, TRUE)>>)

WithEnds(a, text, line) ==
  [a EXCEPT !.end       = @ \cup (IF text # NoDist THEN {"endText"} ELSE {})
                            \cup (IF line # NoDist THEN {"endLine"} ELSE {}),
            !.toEnd     = IF text # NoDist THEN text ELSE @,
            !.toLineEnd = IF line # NoDist THEN line ELSE @]

Augmented(a, idx) == [a EXCEPT !.augmented = Augmentations(a, idx)]

ExtractConstraints(re, a, idx) ==
  LET flat == StripCaptures(re)
  IN  Augmented(WithEnds(WithConstraints(flat, a), DistTo("endText", flat, a), DistTo("endLine", flat, a)), idx)

\* --- the anchors of a pattern --------------------------------------------
\* Alternatives: one must have been taken, but none in particular.  Distances
\* count from the first that is not negative (commonDist).
Alternatives(lists) ==
  LET all    == FlattenSeq(lists)
      from   == {k \in DOMAIN all : \E j \in 1..k : all[j].distance >= 0}
      common == /\ \A a \in Range(all) : a.fixed
                /\ Cardinality({all[k].distance : k \in from}) <= 1
  IN  IF <<>> \in Range(lists) THEN <<>>
      ELSE [k \in DOMAIN all |-> [all[k] EXCEPT !.mandatory = FALSE, !.fixed = common]]

\* The anchors of a part, when what precedes it has one length, or not.
Taken(found, sub, fixed) ==
  [k \in DOMAIN found |-> [found[k] EXCEPT !.fixed = @ /\ fixed, !.mandatory = @ /\ sub.op \notin {"star", "quest"}]]

OneLength(subs) == \A sub \in Range(subs) : MinLen(sub) = MaxLen(sub)

\* The parts of a concatenation up to the first that reads a byte.
Leading(subs) == {k \in DOMAIN subs : \A j \in 1..(k - 1) : MatchesEmpty(subs[j])}

RECURSIVE FindCoveringAnchors(_, _)
FindCoveringAnchors(re, begin) ==
  LET Before(k) == {re.subs[j].cond : j \in {j \in 1..(k - 1) : Is(re.subs[j], Begins)}}
      Part(k)   == Taken(FindCoveringAnchors(re.subs[k], begin \cup Before(k)), re.subs[k],
                         OneLength(SubSeq(re.subs, 1, k - 1)))
  IN  CASE re.op = "lit" -> <<[Blank EXCEPT !.literal = Encoded(re.str), !.begin = begin]>>
        [] re.op = "class" /\ ~re.any -> <<[Blank EXCEPT !.class = ToCCWarp(re), !.begin = begin]>>
        [] Is(re, Begins) -> <<[Blank EXCEPT !.begin = begin \cup {re.cond}]>>
        [] re.op \in Unaries -> FindCoveringAnchors(re.x, begin)
        [] re.op = "concat" -> FlattenSeq([k \in 1..Max(Leading(re.subs)) |-> Part(k)])
        [] re.op = "alternate" ->
             Alternatives([k \in DOMAIN re.subs |-> FindCoveringAnchors(re.subs[k], begin)])
        [] OTHER -> <<>>

\* The same from the end; only literals, dist bytes before the end of the match.
RECURSIVE FindCoveringSuffixAnchors(_, _, _)
FindCoveringSuffixAnchors(re, dist, end) ==
  LET back     == Reverse(re.subs)
      After(k) == {back[j].cond : j \in {j \in 1..(k - 1) : Is(back[j], Ends)}}
      Part(k)  == Taken(FindCoveringSuffixAnchors(back[k], dist, end \cup After(k)), back[k],
                        OneLength(SubSeq(back, k + 1, Len(back))))
  IN  CASE re.op = "lit" ->
             <<[Blank EXCEPT !.literal = Encoded(re.str), !.distance = dist - Len(Encoded(re.str)), !.end = end]>>
        [] re.op \in Unaries -> FindCoveringSuffixAnchors(re.x, dist, end)
        [] re.op = "concat" -> FlattenSeq([k \in 1..Max(Leading(back)) |-> Part(k)])
        [] re.op = "alternate" ->
             Alternatives([k \in DOMAIN re.subs |-> FindCoveringSuffixAnchors(re.subs[k], dist, end)])
        [] OTHER -> <<>>

MaxAnchors == 16

SelectBestAnchors(re) ==
  LET flat == StripCaptures(re)
      all  == FindCoveringAnchors(flat, {}) \o FindCoveringSuffixAnchors(flat, MinLen(flat), {})
      kept == SubSeq(all, 1, Min({MaxAnchors, Len(all)}))
  IN  IF MinLen(re) = 0 THEN <<>> ELSE [k \in DOMAIN kept |-> ExtractConstraints(re, kept[k], k)]

\* Several literals at one distance: what they all begin with is one more anchor.
WithCommonPrefix(re, anchors) ==
  LET all    == Range(anchors)
      common == LongestCommonPrefix({a.literal : a \in all})
      Shared == /\ Len(anchors) > 1 /\ \A a \in all : a.literal # <<>> /\ a.fixed
                /\ Cardinality({a.distance : a \in all}) = 1
                /\ Len(common) > 1
      joint  == [Blank EXCEPT !.literal = common, !.distance = anchors[1].distance,
                              !.begin = {c \in Begins : \A a \in all : c \in a.begin},
                              !.end = {c \in Ends : \A a \in all : c \in a.end}]
  IN  IF Shared THEN Append(anchors, ExtractConstraints(re, joint, Len(anchors) + 1)) ELSE anchors

MinLiteralScore == 31

\* The mandatory anchor with the highest score.
PrimaryOf(anchors) ==
  LET best == Best([k \in DOMAIN anchors |-> IF anchors[k].mandatory THEN Score(anchors[k]) ELSE -2], -1)
  IN  IF best = 0 THEN NoAnchor ELSE anchors[best]

\* The augmented pattern of the highest selectivity.
BestAugmented(augs) ==
  LET top == Best([k \in DOMAIN augs |-> augs[k].selectivity], -1)
  IN  IF top = 0 THEN NoAug ELSE augs[top]

\* What pass 0 reads: the anchor to look for, the strategy, the class SearchWarp
\* looks for, and the augmented pattern, whose owner then takes the first
\* anchor's place.
PlanWith(re, anchors, primary, aug) ==
  LET good == Score(primary) >= MinLiteralScore
  IN  [anchors     |-> anchors,
       primary     |-> IF aug = NoAug THEN primary ELSE anchors[aug.owner],
       augmented   |-> aug,
       strategy    |-> CASE good /\ primary.literal # <<>> -> "literal"
                         [] good /\ HasClass(primary)      -> "warp"
                         [] OTHER                          -> "none",
       searchWarp  |-> primary.class,
       anchorStart |-> Is(re, {"beginText"}) \/ (re.op = "concat" /\ Is(re.subs[1], {"beginText"}))]

PlanFor(re, anchors) ==
  PlanWith(re, anchors, PrimaryOf(anchors),
           BestAugmented(FlattenSeq([k \in DOMAIN anchors |-> When(anchors[k].fixed, anchors[k].augmented)])))

\* What Compile leaves for pass 0.
Plan(re) == PlanFor(re, WithCommonPrefix(re, SelectBestAnchors(re)))
=============================================================================
