------------------------------- MODULE Discovery -----------------------------
(***************************************************************************)
(* Pass 0 of a search with an anchor (pass0_DiscoveryLoop) and the loop    *)
(* that has pass 1 confirm its proposals (fastDiscoveryLoop,               *)
(* fastMatchExecLoop).  Module Scan has pass 0 without anchors; here pass  *)
(* 1 is what module Engine shows of it: it fails where no match starts.    *)
(*                                                                         *)
(* What Compile makes of a pattern (module Anchors) and the matches of the *)
(* standard are parameters.                                                *)
(*                                                                         *)
(* Positions are relative to Input.B, the part of the text from absPos on. *)
(* Patterns match no empty text: of others no anchor is taken.             *)
(***************************************************************************)
EXTENDS AnchorInfo, SequencesExt

CONSTANTS
  WordLength,    \* the bytes IndexClass compares at once: 8
  Patterns,      \* the optimized patterns that are compiled
  TextsFor(_),   \* the texts a pattern is searched in
  PlanOf(_),     \* what Compile leaves for pass 0
  MatchesIn(_, _, _)  \* the matches of a pattern in a text that start at a position, in order

ASSUME DiscoveryAssumption ==
  /\ WordLength \in Nat \ {0}
  /\ \A re \in Patterns : \A t \in TextsFor(re) :
       /\ t \in Seq(Bytes)
       /\ \A p \in 0..Len(t) : MatchesIn(re, t, p) # <<>> => Head(MatchesIn(re, t, p)).end \in p..Len(t)

INSTANCE Index

VARIABLES
  pattern,   \* the optimized tree
  plan,      \* the fields of Regexp and DFA that pass 0 reads
  text,      \* Input.OriginalB
  absPos,    \* Input.AbsPos
  pc,        \* what comes next
  i,         \* the position of pass 0's loop
  from,      \* the position of the outer loop
  found,     \* candidatePos, matchLiteralPos and candidateAnchor
  result     \* the start of the match, absolute; -1 for none

vars == <<pattern, plan, text, absPos, pc, i, from, found, result>>

NoPlan    == [strategy |-> "none"]
Nothing   == [pos |-> -1, lit |-> -1, anchor |-> NoAnchor]
N         == Len(text) - absPos
Slice(p, q)   == SubSeq(text, absPos + p + 1, absPos + q)
Within(p, q)  == 0 <= p /\ p <= q /\ q <= N
Accepts(info, p, q) == Range(Slice(p, q)) \subseteq info.accept

Init ==
  /\ pattern \in Patterns
  /\ plan = NoPlan /\ text = <<>> /\ absPos = 0
  /\ pc = "parsed" /\ i = 0 /\ from = 0 /\ found = Nothing /\ result = -1

\* --- Gaze ----------------------------------------------------------------
\* A constraint next to an anchor at p; of a repetition only that a dot does
\* not start at a newline is looked at, and only to the right of the anchor.
Met(c, p) ==
  LET start == p + c.offset
  IN  IF c.repeat
      THEN start >= 0 /\ start <= N /\ (c.info.kernel = "anyExceptNL" /\ start < N => text[absPos + start + 1] # NL)
      ELSE Within(start, start + c.length) /\ Accepts(c.info, start, start + c.length)

\* AnchorInfo.Validate: could the anchor at p be part of a match?
Validate(a, p) ==
  LET Fixed(cs) == {c \in Range(cs) : c.fixed}
      Exact(d)  == d[1] = d[2]
      dist      == IF Exact(a.toEnd) THEN a.toEnd[2] ELSE a.toLineEnd[2]
      EndAt(q)  == VerifyEnd(text, absPos + q, a.end \cup {"endText"})
  IN  /\ \A c \in Fixed(a.backward) : ~c.repeat => Met(c, p)
      /\ Within(p, p + Size(a))
      /\ IF HasClass(a) THEN Accepts(a.class, p, p + 1) ELSE Slice(p, p + Size(a)) = a.literal
      /\ \A c \in Fixed(a.forward) : Met(c, p)
      /\ a.begin # {} => VerifyBegin(text, absPos + p - a.distance, a.begin \cup {"beginText"})
      /\ a.end # {} /\ (Exact(a.toEnd) \/ Exact(a.toLineEnd)) => EndAt(p + Size(a) + dist)

\* --- the search ----------------------------------------------------------
primary == plan.primary

\* What bytes.Index looks for, and the anchor that is in it at an offset.
Target ==
  IF plan.augmented = NoAug THEN [pattern |-> primary.literal, offset |-> 0, anchor |-> primary]
  ELSE [pattern |-> plan.augmented.pattern, offset |-> plan.augmented.offset,
        anchor |-> plan.anchors[plan.augmented.owner]]

\* Mutant of Places: the search starts one byte late.
PlacesLate(literal) == {p \in (i + 1)..N : Within(p, p + Len(literal)) /\ Slice(p, p + Len(literal)) = literal}

Places(literal) == {p \in i..N : Within(p, p + Len(literal)) /\ Slice(p, p + Len(literal)) = literal}

\* The ways a turn of the loop ends.
Searching     == pc = "search" /\ i <= N /\ (plan.anchorStart => i = 0)
Propose(a, p) == found' = [pos |-> p - a.distance, lit |-> p, anchor |-> a] /\ pc' = "proposed" /\ UNCHANGED i
GiveUp        == pc' = "done" /\ UNCHANGED <<i, found>>
GoOn(p)       == i' = p /\ UNCHANGED <<pc, found>>
Kept          == UNCHANGED <<pattern, plan, text, absPos, from, result>>

\* A pattern tied to `^` or `$` has one place for its anchor, or two, as `$`
\* also stands before a last newline.
Jump == IF ~(primary.mandatory /\ primary.fixed) THEN "none"
        ELSE IF "beginText" \in primary.begin THEN "begin"
        ELSE IF "endText" \in primary.end THEN "end"
        ELSE "none"

JumpToBegin ==
  /\ Searching /\ Jump = "begin"
  /\ IF absPos + i = 0 /\ Validate(primary, primary.distance) THEN Propose(primary, primary.distance) ELSE GiveUp
  /\ Kept

JumpToEnd ==
  LET atEnd  == N - Size(primary) - primary.toEnd[1]
      places == {atEnd} \cup (IF ByteBefore(text, Len(text), {NL}) THEN {atEnd - 1} ELSE {})
      valid  == {p \in places : p >= i /\ Validate(primary, p)}
  IN  /\ Searching /\ Jump = "end"
      /\ IF valid = {} THEN GiveUp ELSE Propose(primary, Max(valid))
      /\ Kept

\* The first line has no newline before it, and the last may have none after it.
SearchLiteral ==
  LET at      == Places(Target.pattern)
      p       == Min(at) + Target.offset
      Begun   == /\ i = 0 /\ absPos = 0 /\ plan.augmented # NoAug
                 /\ primary.begin # {} /\ Validate(primary, primary.distance)
      Ending(a) == /\ \E g \in Range(a.augmented) : g.isEnd
                   /\ N - Size(a) >= i /\ Validate(a, N - Size(a))
      ends    == {k \in DOMAIN plan.anchors : plan.augmented # NoAug /\ Ending(plan.anchors[k])}
      ending  == plan.anchors[Min(ends)]
  IN  /\ Searching /\ Jump = "none" /\ plan.strategy = "literal"
      /\ IF Begun THEN Propose(primary, primary.distance)
         ELSE IF at # {} THEN IF Validate(Target.anchor, p) THEN Propose(Target.anchor, p) ELSE GoOn(Min(at) + 1)
         ELSE IF ends # {} THEN Propose(ending, N - Size(ending))
         ELSE GiveUp
      /\ Kept

\* CCWarpSingleRange, the kernel of IndexClass that goes by words.
ByWords == plan.searchWarp.kernel = "range"

\* SearchWarp: where IndexClass finds the class, a match is taken to start.
SearchClass ==
  LET ps == {p \in i..(N - 1) : absPos + p \in Findable(text, absPos + i, plan.searchWarp.accept, ByWords)}
  IN  /\ Searching /\ Jump = "none" /\ plan.strategy = "warp"
      /\ IF ps = {} THEN GiveUp ELSE Propose(NoAnchor, Min(ps))
      /\ Kept

RunOut == pc = "search" /\ ~Searching /\ GiveUp /\ Kept

\* --- Snap ----------------------------------------------------------------
\* ir.WarpBack: the longest run of accepted bytes that ends before q.
WarpBack(info, q) == Max({n \in 0..q : Accepts(info, q - n, q)})

\* Mutant of Snap: repetitions are taken to be empty.
SnapFixed(a, lit) == lit - a.distance

\* The start of a match whose anchor, at a variable distance, is at lit: back
\* over the bytes that the parts to its left can have read.
Snap(a, lit) ==
  LET back[k \in 0..Len(a.backward)] ==
        IF k = 0 THEN [j |-> lit, offset |-> 0]
        ELSE LET c == a.backward[k]
                 j == back[k - 1].j + c.offset - back[k - 1].offset
             IN  [j |-> IF c.repeat /\ j > 0 THEN j - WarpBack(c.info, j) ELSE j, offset |-> c.offset]
  IN  back[Len(a.backward)].j

\* A place before the text is dropped; otherwise pass 0 returns.
SnapBack ==
  LET j == IF found.anchor.fixed THEN found.pos ELSE Snap(found.anchor, found.lit)
  IN  /\ pc = "proposed"
      /\ IF found.pos < 0 THEN pc' = "search" /\ i' = i + 1 /\ UNCHANGED found
         ELSE IF j < 0 \/ (plan.anchorStart /\ absPos + j > 0) THEN GiveUp
         ELSE pc' = "confirm" /\ found' = [found EXCEPT !.pos = j] /\ UNCHANGED i
      /\ UNCHANGED <<pattern, plan, text, absPos, from, result>>

\* --- the outer loop ------------------------------------------------------
Matches(p) == MatchesIn(pattern, text, p)

\* The ends of matches, where FindAll goes on.
Resumptions(t) == {0} \cup {Head(MatchesIn(pattern, t, p)).end : p \in {p \in 0..Len(t) : MatchesIn(pattern, t, p) # <<>>}}

\* CompileContextWithOptions, as far as pass 0 is concerned.
Build ==
  /\ pc = "parsed"
  /\ plan' = PlanOf(pattern) /\ pc' = "idle"
  /\ UNCHANGED <<pattern, text, absPos, i, from, found, result>>

Call ==
  /\ pc = "idle"
  /\ text' \in TextsFor(pattern)
  /\ absPos' \in Resumptions(text')
  /\ pc' = "enter"
  /\ UNCHANGED <<pattern, plan, i, from, found, result>>

\* Pass 0 is called: a pattern that starts with `^` is tried once.
Enter ==
  /\ pc = "enter"
  /\ IF from > N \/ (plan.anchorStart /\ (absPos > 0 \/ from > 0)) THEN GiveUp
     ELSE i' = from /\ pc' = "search" /\ UNCHANGED found
  /\ Kept

\* Mutant of Confirm: the search goes on at the anchor, not after it.
ConfirmAgain ==
  /\ pc = "confirm"
  /\ IF Matches(absPos + found.pos) # <<>>
     THEN pc' = "done" /\ result' = absPos + found.pos /\ UNCHANGED from
     ELSE pc' = "enter" /\ from' = found.lit /\ UNCHANGED result
  /\ UNCHANGED <<pattern, plan, text, absPos, i, found>>

\* Pass 1 finds an end, or the search goes on after the anchor.
Confirm ==
  LET anchored == found.anchor.mandatory /\ found.anchor.fixed
  IN  /\ pc = "confirm"
      /\ IF Matches(absPos + found.pos) # <<>>
         THEN pc' = "done" /\ result' = absPos + found.pos /\ UNCHANGED from
         ELSE pc' = "enter" /\ from' = (IF anchored THEN found.lit ELSE from) + 1 /\ UNCHANGED result
      /\ UNCHANGED <<pattern, plan, text, absPos, i, found>>

Return ==
  /\ pc = "done" /\ pc' = "idle"
  /\ text' = <<>> /\ absPos' = 0 /\ i' = 0 /\ from' = 0 /\ found' = Nothing /\ result' = -1
  /\ UNCHANGED <<pattern, plan>>

Next ==
  \/ Build \/ Call \/ Enter \/ JumpToBegin \/ JumpToEnd \/ SearchLiteral \/ SearchClass \/ RunOut
  \/ SnapBack \/ Confirm \/ Return

Spec == Init /\ [][Next]_vars

\* A search is a loop that nothing suspends: its steps are weakly fair, calls
\* are made at will.  Weak fairness is spelled out, a step of a search being
\* enabled until it has returned.
Resting  == pc \in {"parsed", "idle", "done"}
FairSpec == Spec /\ ([]<>Resting \/ []<><<~Resting /\ Next>>_vars)

\* --- properties ----------------------------------------------------------
\* The starts of the matches in Input.B.
Starting == {p \in 0..N : Matches(absPos + p) # <<>>}

\* No word of the text hides a byte of the class from IndexClass.
WordsDecided == plan.strategy = "warp" /\ ByWords => HidesNone(text, plan.searchWarp.accept)

\* The search returns the start of a match, and if no byte is hidden from
\* IndexClass the leftmost one, and -1 only if none is left: but for that no
\* pre-filter costs a match ("zero-false-negative guarantee").
FirstStart == pc = "done" =>
  \/ result = -1 /\ (WordsDecided => Starting = {})
  \/ \E s \in Starting : result = absPos + s /\ (WordsDecided => \A p \in Starting : s <= p)

Fresh == pc = "enter" /\ from = 0

\* Gaze refuses no match: the first anchor of a pattern, if it is mandatory and
\* at a known distance, stands where Validate wants it in every match.
GazeKeepsMatches == Fresh /\ primary.mandatory /\ primary.fixed =>
  \A p \in Starting : Validate(primary, p + primary.distance)

\* Snap goes back far enough: of an anchor at a variable distance some place
\* leads to the start of every match, or before it.
SnapReaches == Fresh /\ primary.mandatory /\ ~primary.fixed =>
  \A p \in Starting : \E q \in (p + primary.distance)..N : Validate(primary, q) /\ Snap(primary, q) <= p

\* A search returns: every refused proposal moves it on.
Terminates == []<>Resting
=============================================================================
