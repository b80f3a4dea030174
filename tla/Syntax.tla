-------------------------------- MODULE Syntax -------------------------------
(***************************************************************************)
(* Patterns as the parser hands them over (syntax.Regexp after Parse and   *)
(* Simplify): a literal is a run of runes, a concatenation and an          *)
(* alternation have any number of parts, a counted repetition has been     *)
(* unrolled.  The other operators are those of module Regex, which says    *)
(* what a pattern matches; Meaning translates.                             *)
(***************************************************************************)
EXTENDS Regex

Lit(str)        == [op |-> "lit", str |-> str]
Concat(subs)    == [op |-> "concat", subs |-> subs]
Alternate(subs) == [op |-> "alternate", subs |-> subs]

Lists   == {"concat", "alternate"}
Unaries == {"star", "plus", "quest", "group"}

Subs(re) == CASE re.op \in Lists   -> re.subs
              [] re.op \in Unaries -> <<re.x>>
              [] OTHER             -> <<>>

WithSubs(re, subs) == CASE re.op \in Lists   -> [re EXCEPT !.subs = subs]
                        [] re.op \in Unaries -> [re EXCEPT !.x = subs[1]]
                        [] OTHER             -> re

RECURSIVE Nodes(_)
Nodes(re) == {re} \cup UNION {Nodes(sub) : sub \in Range(Subs(re))}

\* The bytes of a run of runes.
Encoded(str) == FlattenSeq(str)

RECURSIVE Meaning(_)
Meaning(re) ==
  LET parts == [k \in DOMAIN Subs(re) |-> Meaning(Subs(re)[k])]
  IN  CASE re.op = "lit"       -> FoldRight(LAMBDA r, rest : Cat(Class({r}), rest), Front(re.str),
                                            Class({Last(re.str)}))
        [] re.op = "concat"    -> FoldRight(LAMBDA x, rest : Cat(x, rest), Front(parts), Last(parts))
        [] re.op = "alternate" -> FoldRight(LAMBDA x, rest : Alt(x, rest), Front(parts), Last(parts))
        [] OTHER               -> WithSubs(re, parts)
=============================================================================
