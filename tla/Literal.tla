-------------------------------- MODULE Literal ------------------------------
(***************************************************************************)
(* Patterns that are one literal, perhaps with groups and with `^` or `$`  *)
(* at its ends: ir.AnalyzeLiteralPattern recognizes them and they are      *)
(* matched without a table (ir.LiteralMatcher).  Also the literal prefix   *)
(* that LiteralPrefix reports of any pattern.                              *)
(*                                                                         *)
(* Positions in a matcher are those of the slice it is given, which starts *)
(* at absPos of the text; Found adds absPos as findSubmatchIndexAt does.   *)
(***************************************************************************)
EXTENDS Syntax

\* --- analysis ------------------------------------------------------------
\* What the walk over a pattern has found: ok turns FALSE on anything that is
\* no literal, and the walk stops; groups are offsets into the literal.
Blank == [ok |-> TRUE, begin |-> FALSE, end |-> FALSE, literal |-> <<>>, groups |-> <<>>]

\* Mutant of BeginText: `^` may come after a byte of the literal.
BeginTextAnywhere(m) == [m EXCEPT !.begin = TRUE]

\* `^` stands for a literal's start only before any of its bytes.
BeginText(m) == [m EXCEPT !.ok = (m.literal = <<>>), !.begin = TRUE]

RECURSIVE ExtractLiteral(_, _)
ExtractLiteral(re, m) ==
  LET offset == Len(m.literal)
      inner  == ExtractLiteral(re.x, m)
      Is(c)  == re.op = "assert" /\ re.cond = c
      One    == re.op = "class" /\ Cardinality(re.runes) = 1
      Next(acc, sub) == ExtractLiteral(sub, acc)
  IN  CASE ~m.ok              -> m
        [] re.op = "empty"    -> m
        [] Is("beginText")    -> BeginText(m)
        [] Is("endText")      -> [m EXCEPT !.end = TRUE]
        [] re.op = "lit"      -> [m EXCEPT !.literal = @ \o Encoded(re.str)]
        [] One                -> [m EXCEPT !.literal = @ \o (CHOOSE r \in re.runes : TRUE)]
        [] re.op = "group"    -> [inner EXCEPT !.groups = (re.k :> <<offset, Len(inner.literal)>>) @@ @]
        [] re.op = "concat"   -> FoldLeft(Next, m, re.subs)
        [] OTHER              -> [m EXCEPT !.ok = FALSE]

NoMatcher == [strategy |-> "none"]

AnalyzeLiteralPattern(re) ==
  LET m == ExtractLiteral(re, Blank)
      strategy == CASE m.begin /\ m.end -> "exact"
                    [] m.begin          -> "prefix"
                    [] m.end            -> "suffix"
                    [] OTHER            -> "contains"
  IN  IF ~m.ok THEN NoMatcher
      ELSE [strategy |-> strategy, literal |-> m.literal, groups |-> m.groups]

\* --- matching ------------------------------------------------------------
\* bytes.Index: every place of the literal in b.
Places(b, literal) == {p \in 0..(Len(b) - Len(literal)) : SubSeq(b, p + 1, p + Len(literal)) = literal}

\* Where the matcher puts its match in the slice b of a text of total bytes.
Offsets(m, b, absPos, total) ==
  LET AtBegin == absPos = 0
      AtEnd   == absPos + Len(b) = total
  IN  CASE m.strategy = "exact"    -> {p \in {0} : AtBegin /\ AtEnd /\ b = m.literal}
        [] m.strategy = "prefix"   -> {p \in {0} : AtBegin /\ IsPrefix(m.literal, b)}
        [] m.strategy = "suffix"   -> {p \in {Len(b) - Len(m.literal)} : AtEnd /\ IsSuffix(m.literal, b)}
        [] m.strategy = "contains" -> LET at == Places(b, m.literal) IN IF at = {} THEN {} ELSE {Min(at)}

NotFound == [start |-> -1]

\* FindSubmatchIndexInto and its caller: the match, its groups, from absPos on.
Found(m, text, absPos) ==
  LET at == Offsets(m, SubSeq(text, absPos + 1, Len(text)), absPos, Len(text))
      start == absPos + Min(at)
  IN  IF at = {} THEN NotFound
      ELSE [start |-> start, end |-> start + Len(m.literal),
            caps |-> [k \in DOMAIN m.groups |-> <<start + m.groups[k][1], start + m.groups[k][2]>>]]

\* --- the literal prefix --------------------------------------------------
\* Mutant of Joined: an incomplete part does not end the prefix.
JoinedAlways(acc, part) == [prefix |-> acc.prefix \o part.prefix, complete |-> part.complete]

\* One more part of a concatenation, if the parts before it are complete.
Joined(acc, part) ==
  IF acc.complete THEN [prefix |-> acc.prefix \o part.prefix, complete |-> part.complete] ELSE acc

RECURSIVE LiteralPrefix(_)
LiteralPrefix(re) ==
  LET none == [prefix |-> <<>>, complete |-> FALSE]
      Of(k) == LiteralPrefix(re.subs[k])
      Further(acc, k) == Joined(acc, Of(k))
      Common(acc, k) ==
        LET common == LongestCommonPrefix({acc.prefix, Of(k).prefix})
        IN  CASE k = 1            -> Of(1)
              [] acc.prefix = <<>> -> acc
              [] OTHER            -> [prefix   |-> common,
                                      complete |-> /\ acc.complete /\ Of(k).complete
                                                   /\ Len(common) = Len(Of(k).prefix)]
  IN  CASE re.op = "lit"       -> [prefix |-> Encoded(re.str), complete |-> TRUE]
        [] re.op = "group"     -> LiteralPrefix(re.x)
        [] re.op = "concat"    -> FoldLeftDomain(Further, [prefix |-> <<>>, complete |-> TRUE], re.subs)
        [] re.op = "alternate" -> FoldLeftDomain(Common, none, re.subs)
        [] OTHER               -> none
=============================================================================
