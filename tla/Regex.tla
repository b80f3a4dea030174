-------------------------------- MODULE Regex -------------------------------
(***************************************************************************)
(* Patterns as syntax trees, the leftmost-first matches that Go's standard *)
(* regexp package defines for them, and the program that the standard      *)
(* regexp/syntax package compiles them to.  Both are outside the           *)
(* repository: syntax/syntax.go re-exports regexp/syntax, and the tests    *)
(* compare every result with the standard package.                         *)
(*                                                                         *)
(* A rune is the sequence of its UTF-8 bytes.                              *)
(***************************************************************************)
EXTENDS Text, FiniteSets, SequencesExt

AsciiRunes == {<<b>> : b \in Ascii}
MultiRunes == {r \in UNION {[1..(k + 1) -> Lead \cup Cont] : k \in {LeadLen[l] : l \in Lead}} :
                 /\ r[1] \in Lead /\ Len(r) = LeadLen[r[1]] + 1
                 /\ \A j \in 2..Len(r) : r[j] \in Cont}

\* Trie.AddInvalidUTF8: a byte that can start no rune is matched on its own.
InvalidRunes == {<<b>> : b \in Cont}
AnyRunes     == AsciiRunes \cup MultiRunes \cup InvalidRunes

\* --- syntax trees --------------------------------------------------------
Class(runes) == [op |-> "class", runes |-> runes, any |-> FALSE]
AnyChar      == [op |-> "class", runes |-> AnyRunes, any |-> TRUE]
AnyNotNL     == [op |-> "class", runes |-> AnyRunes \ {<<NL>>}, any |-> TRUE]
Char(b)      == Class({<<b>>})
EmptyMatch   == [op |-> "empty"]
Cond(c)      == [op |-> "assert", cond |-> c]
Cat(x, y)    == [op |-> "cat", x |-> x, y |-> y]
Alt(x, y)    == [op |-> "alt", x |-> x, y |-> y]
Star(x)      == [op |-> "star", x |-> x, greedy |-> TRUE]
LazyStar(x)  == [op |-> "star", x |-> x, greedy |-> FALSE]
Plus(x)      == [op |-> "plus", x |-> x, greedy |-> TRUE]
Quest(x)     == [op |-> "quest", x |-> x, greedy |-> TRUE]
LazyQuest(x) == [op |-> "quest", x |-> x, greedy |-> FALSE]
Group(k, x)  == [op |-> "group", k |-> k, x |-> x]

RECURSIVE Groups(_)
Groups(re) ==
  CASE re.op = "group"                     -> {re.k} \cup Groups(re.x)
    [] re.op \in {"cat", "alt"}            -> Groups(re.x) \cup Groups(re.y)
    [] re.op \in {"star", "plus", "quest"} -> Groups(re.x)
    [] OTHER                               -> {}

\* Can the pattern match without consuming a byte?
RECURSIVE MinLength(_)
MinLength(re) ==
  CASE re.op = "class"            -> 1
    [] re.op = "cat"              -> MinLength(re.x) + MinLength(re.y)
    [] re.op = "alt"              -> IF MinLength(re.x) < MinLength(re.y)
                                     THEN MinLength(re.x) ELSE MinLength(re.y)
    [] re.op \in {"plus", "group"} -> MinLength(re.x)
    [] OTHER                      -> 0

\* --- the standard's matches ----------------------------------------------
\* The matches of re that start at p, best first: a backtracking search would
\* try them in this order.  A match is its end and the groups it set.
RECURSIVE MatchesAt(_, _, _, _)
MatchesAt(re, text, p, caps) ==
  LET Then(ms, y) == FlattenSeq([k \in DOMAIN ms |-> MatchesAt(y, text, ms[k].end, ms[k].caps)])
      Here        == <<[end |-> p, caps |-> caps]>>
      Prefer(more) == IF re.greedy THEN more \o Here ELSE Here \o more
      Again == [op |-> "star", x |-> re.x, greedy |-> re.greedy]
  IN CASE re.op = "class" ->
            LET fits == {r \in re.runes : p + Len(r) <= Len(text) /\ SubSeq(text, p + 1, p + Len(r)) = r}
            IN  IF fits = {} THEN <<>>
                ELSE <<[end |-> p + Len(CHOOSE r \in fits : TRUE), caps |-> caps]>>
       [] re.op = "empty"  -> Here
       [] re.op = "assert" -> IF Verify(text, p, {re.cond}) THEN Here ELSE <<>>
       [] re.op = "cat"    -> Then(MatchesAt(re.x, text, p, caps), re.y)
       [] re.op = "alt"    -> MatchesAt(re.x, text, p, caps) \o MatchesAt(re.y, text, p, caps)
       [] re.op = "quest"  -> Prefer(MatchesAt(re.x, text, p, caps))
       [] re.op = "star"   -> Prefer(Then(MatchesAt(re.x, text, p, caps), Again))
       [] re.op = "plus"   -> Then(MatchesAt(re.x, text, p, caps), Again)
       [] re.op = "group"  ->
            LET ms == MatchesAt(re.x, text, p, caps)
            IN  [k \in DOMAIN ms |->
                   [ms[k] EXCEPT !.caps = (re.k :> <<p, ms[k].end>>) @@ ms[k].caps]]
=============================================================================
