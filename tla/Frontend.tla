------------------------------- MODULE Frontend ------------------------------
(***************************************************************************)
(* CompileContextWithOptions up to the choice between the literal matcher  *)
(* and a table: optimize the tree, refuse what the engine cannot do, look  *)
(* for a literal; then calls of a matcher that was found.                  *)
(*                                                                         *)
(* Optimize works bottom up; the loop it runs on the alternation at the    *)
(* root is taken one turn at a time, the trees below it at once.           *)
(***************************************************************************)
EXTENDS Optimize, Compatibility, Literal

CONSTANTS
  Patterns,   \* what the parser and Simplify make of some patterns
  Texts       \* the texts they are searched in

VARIABLES
  pattern,    \* the tree as parsed
  tree,       \* the tree as optimized so far
  changed,    \* has the loop of factorAlternate changed anything this turn
  stage,      \* how far Compile has come
  matcher,    \* the literal matcher, if the pattern is one literal
  prefix,     \* what LiteralPrefix will report
  call        \* the call of the matcher that has just returned

vars == <<pattern, tree, changed, stage, matcher, prefix, call>>

NoCall == [text |-> <<>>, absPos |-> -1, result |-> NotFound]

Init ==
  /\ pattern \in Patterns /\ tree = pattern
  /\ changed = FALSE /\ stage = "parsed"
  /\ matcher = NoMatcher /\ prefix = [prefix |-> <<>>, complete |-> FALSE] /\ call = NoCall

OptimizeParts ==
  /\ stage = "parsed"
  /\ tree' = Arranged(OptimizedSubs(tree))
  /\ stage' = IF tree.op = "alternate" THEN "flatten" ELSE "optimized"
  /\ UNCHANGED <<pattern, changed, matcher, prefix, call>>

\* A turn of the loop of factorAlternate, in its three parts.
FlattenTurn ==
  /\ stage = "flatten"
  /\ tree' = Alternate(Inlined("alternate", tree.subs))
  /\ changed' = Nested(tree)
  /\ stage' = "prefix"
  /\ UNCHANGED <<pattern, matcher, prefix, call>>

PrefixTurn ==
  LET subs == Factor("head", tree.subs)
  IN  /\ stage = "prefix"
      /\ tree' = Alternate(subs)
      /\ changed' = (changed \/ Len(subs) # Len(tree.subs))
      /\ stage' = "suffix"
      /\ UNCHANGED <<pattern, matcher, prefix, call>>

\* Mutant of SuffixTurn: the loop goes on until one alternative is left.
SuffixTurnOn ==
  LET subs == Factor("tail", tree.subs)
  IN  /\ stage = "suffix"
      /\ tree' = IF Len(subs) = 1 THEN subs[1] ELSE Alternate(subs)
      /\ stage' = IF Len(subs) = 1 THEN "optimized" ELSE "flatten"
      /\ UNCHANGED <<pattern, changed, matcher, prefix, call>>

SuffixTurn ==
  LET subs == Factor("tail", tree.subs)
  IN  /\ stage = "suffix"
      /\ tree' = IF Len(subs) = 1 THEN subs[1] ELSE Alternate(subs)
      /\ changed' = (changed \/ Len(subs) # Len(tree.subs))
      /\ stage' = IF Len(subs) > 1 /\ changed' THEN "flatten" ELSE "optimized"
      /\ UNCHANGED <<pattern, matcher, prefix, call>>

Check ==
  /\ stage = "optimized"
  /\ stage' = IF CheckCompatibility(tree) THEN "checked" ELSE "refused"
  /\ UNCHANGED <<pattern, tree, changed, matcher, prefix, call>>

Analyze ==
  /\ stage = "checked"
  /\ matcher' = AnalyzeLiteralPattern(tree)
  /\ prefix' = LiteralPrefix(tree)
  /\ stage' = CASE matcher' # NoMatcher                         -> "literal"
                [] CheckEpsilonLoop(Compile(Meaning(tree))) -> "table"
                [] OTHER                                        -> "refused"
  /\ UNCHANGED <<pattern, tree, changed, call>>

\* A call of the matcher, from any position FindAll may have come to.
Find ==
  /\ stage = "literal" /\ call = NoCall
  /\ \E text \in Texts : \E absPos \in 0..Len(text) :
       call' = [text |-> text, absPos |-> absPos, result |-> Found(matcher, text, absPos)]
  /\ UNCHANGED <<pattern, tree, changed, stage, matcher, prefix>>

\* The call has returned, and its result is the caller's.
Return ==
  /\ call # NoCall /\ call' = NoCall
  /\ UNCHANGED <<pattern, tree, changed, stage, matcher, prefix>>

Compiled == stage \in {"refused", "literal", "table"}

\* Compile has returned its error, or a Regexp that module Engine takes over.
Finished == stage \in {"refused", "table"} /\ UNCHANGED vars

Next == OptimizeParts \/ FlattenTurn \/ PrefixTurn \/ SuffixTurn \/ Check \/ Analyze \/ Find \/ Return \/ Finished

Spec == Init /\ [][Next]_vars

\* Compile is a loop that nothing suspends, so its steps are weakly fair; calls
\* are made at will.  Weak fairness is spelled out: a step of Compile is enabled
\* until it has returned.
CompileStep == OptimizeParts \/ FlattenTurn \/ PrefixTurn \/ SuffixTurn \/ Check \/ Analyze

FairSpec == Spec /\ ([]<>Compiled \/ []<><<CompileStep>>_vars)

\* --- the optimizer -------------------------------------------------------
\* A loop whose body can match nothing.
Loops(re) == \E sub \in Nodes(re) : sub.op \in {"star", "plus"} /\ MinLength(Meaning(sub.x)) = 0

FirstOf(s) == SubSeq(s, 1, Min({1, Len(s)}))

\* A pattern the standard's search is defined for, and no call to look at.
Searchable == call = NoCall /\ ~Loops(pattern)

\* Where two patterns are compared: at the start of a text and one byte on.
Agree(re1, re2, View(_)) ==
  LET m1 == Meaning(re1)
      m2 == Meaning(re2)
  IN  \A t \in Texts : \A p \in 0..Min({1, Len(t)}) :
        View(MatchesAt(m1, t, p, <<>>)) = View(MatchesAt(m2, t, p, <<>>))

\* Optimize rewrites a pattern into one that matches the same texts, with the
\* same groups: flattening, joining and factoring lose and invent nothing.
LanguageKept == Searchable => Agree(tree, pattern, Range)

\* And of these the same is the first choice: regrouping alternatives keeps
\* leftmost-first priority (factorAlternate).
FirstChoiceKept == Searchable => Agree(tree, pattern, FirstOf)

\* Whether a pattern is refused depends on what was written, not on how
\* Optimize happened to regroup it (CheckCompatibility runs after Optimize).
RefusalStable == CheckCompatibility(tree) = CheckCompatibility(pattern)

\* A table is built exactly for the patterns without a loop that reads nothing
\* (checkEpsilonLoop on the program against the trees it was compiled from),
\* and no group that may match nothing is left behind a `?`.
LoopsRefused ==
  /\ stage = "table"   => ~Loops(pattern)
  /\ stage = "refused" => Loops(pattern) \/ \E sub \in Nodes(pattern) : Unsupported(sub)
  /\ stage = "table"   => \A sub \in Nodes(tree) :
       sub.op = "quest" /\ HasCapture(sub.x) => MinLength(Meaning(sub.x)) > 0

\* Compile ends: the loop of factorAlternate stops changing the alternatives.
Compiles == <>Compiled

\* --- the matcher ---------------------------------------------------------
Standard(t, absPos) ==
  LET meaning == Meaning(pattern)
      starts  == {p \in absPos..Len(t) : MatchesAt(meaning, t, p, <<>>) # <<>>}
      first   == MatchesAt(meaning, t, Min(starts), <<>>)[1]
  IN  IF starts = {} THEN NotFound ELSE [start |-> Min(starts), end |-> first.end, caps |-> first.caps]

\* A pattern answered without a table gets the standard's answer, groups
\* included, wherever in the text the search starts (LiteralMatcher).
LiteralExact == call # NoCall => call.result = Standard(call.text, call.absPos)

\* Every match begins with the reported prefix, and is the prefix when that is
\* reported to be all of the pattern (calculateLiteralPrefix).
PrefixSound ==
  Searchable /\ stage \in {"literal", "table"} =>
    LET meaning == Meaning(pattern)
    IN  \A t \in Texts : \A m \in Range(MatchesAt(meaning, t, 0, <<>>)) :
          LET matched == SubSeq(t, 1, m.end)
          IN  IsPrefix(prefix.prefix, matched) /\ (prefix.complete => matched = prefix.prefix)
=============================================================================
