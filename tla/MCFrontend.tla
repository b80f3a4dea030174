------------------------------ MODULE MCFrontend -----------------------------
(***************************************************************************)
(* Small instances of Frontend, with the bytes of MCEngine: 'a' and 'b',   *)
(* '.' for bytes without a name, and e' for a rune of two bytes.           *)
(***************************************************************************)
EXTENDS Frontend

CONSTANT MaxTextLength

LeadTrailing == (5 :> 1)

a  == Lit(<<<<2>>>>)
b  == Lit(<<<<3>>>>)
x  == Lit(<<<<1>>>>)
e  == Lit(<<<<5, 4>>>>)
ab == Class({<<2>>, <<3>>})
str(u, v) == Lit(u.str \o v.str)
BOT == Cond("beginText")
EOT == Cond("endText")

\* Alternatives with common heads and tails, some of which only a part shares.
Factored == {
  Alternate(<<Concat(<<Star(a), b>>), Concat(<<Star(ab), b>>)>>),            \* a*b|[ab]*b
  Alternate(<<Concat(<<Star(a), str(b, x)>>), Concat(<<Star(b), str(b, x)>>)>>),  \* a*bx|b*bx
  Alternate(<<Concat(<<ab, str(x, str(a, b))>>), Concat(<<Star(b), str(a, b)>>)>>), \* [ab]xab|b*ab
  Alternate(<<Concat(<<Star(a), str(b, b)>>), str(b, b), Concat(<<x, Star(b)>>)>>), \* a*bb|bb|xb*
  Alternate(<<Concat(<<Star(a), b>>), Concat(<<Star(a), x>>)>>),             \* a*b|a*x
  Alternate(<<Concat(<<Plus(a), b>>), Plus(a), str(x, a), x>>),              \* a+b|a+|xa|x
  Alternate(<<Concat(<<Plus(a), Alternate(<<b, Concat(<<b, Star(x)>>)>>)>>), Plus(a)>>),
  Alternate(<<str(a, Lit(b.str \o x.str)), Star(x)>>),                       \* abx|x*
  Alternate(<<Concat(<<Group(1, a), str(b, x)>>), Concat(<<Group(2, ab), str(b, x)>>), str(b, x)>>),
  Concat(<<a, Alternate(<<Concat(<<Group(1, b), x>>), Concat(<<Group(2, b), a>>)>>)>>),
  Concat(<<a, Alternate(<<b, Concat(<<b, Star(x)>>)>>), Concat(<<a, x>>)>>),
  Group(1, Alternate(<<Concat(<<Star(a), e, b>>), Concat(<<b, e, b>>)>>)),   \* (a*e'b|be'b)
  Star(Alternate(<<Concat(<<Plus(a), str(b, x)>>), Concat(<<Quest(x), str(b, x)>>)>>)),
  Alternate(<<Alternate(<<Concat(<<Star(a), b>>), EmptyMatch>>), EmptyMatch>>),
  Alternate(<<Concat(<<a, EmptyMatch, b, Quest(a)>>), Concat(<<Star(x), EmptyMatch, Quest(a)>>)>>),
  Alternate(<<Concat(<<Cond("word"), a>>), Concat(<<Cond("word"), b>>)>>),   \* \ba|\bb
  Alternate(<<Concat(<<Cond("beginLine"), a>>), Concat(<<ab, x>>)>>)
}

\* Every order of three alternatives, but for those that share a head or a tail
\* across a third, where factoring changes the order.
Pieces == {
  Concat(<<Star(a), b>>), Concat(<<Star(a), str(b, x)>>), Concat(<<ab, b, x>>),
  str(b, str(b, x)), str(x, b), EmptyMatch
}
Share(p, q) == \E side \in {"head", "tail"} : CommonLen(side, Split(side, p).fix, q) > 0
Triples == {Alternate(s) : s \in {t \in [1..3 -> Pieces] : IsInjective(t)}}
Ordered == {t \in Triples : ~Share(t.subs[1], t.subs[3])}

\* Patterns that are refused, next to ones that are not.
Refusable == {
  Group(1, Alternate(<<EmptyMatch, a>>)),                       \* (|a)
  Group(1, Group(2, Concat(<<EmptyMatch, EmptyMatch>>))),
  Group(1, Alternate(<<Concat(<<Star(a), str(b, x)>>), str(b, x)>>)),
  Group(1, Alternate(<<Plus(a), Concat(<<Plus(a), b>>)>>)),     \* (a+|a+b)
  Quest(Group(1, Star(a))),                                     \* (a*)?
  Quest(Group(1, a)),
  Quest(Group(1, Alternate(<<a, Concat(<<Cond("word"), Quest(b)>>)>>))),
  Quest(Concat(<<Group(1, a), Star(b)>>)),
  Star(Group(1, Star(a))),                                      \* (a*)*
  Star(Concat(<<Star(a), Star(b)>>)),
  Plus(Alternate(<<a, Star(b)>>)),
  Star(Alternate(<<a, Concat(<<Cond("noWord"), Star(b)>>)>>)),
  Star(Plus(Concat(<<Quest(a), b>>))),
  Alternate(<<Concat(<<Star(Quest(a)), b>>), Concat(<<x, b>>)>>)
}

\* One literal, with groups and with text conditions.
Literals == {
  EmptyMatch, a, str(a, b), str(a, a), e, Concat(<<a, EmptyMatch, b>>),
  BOT, EOT, Concat(<<BOT, EOT>>),
  Concat(<<BOT, str(a, b)>>), Concat(<<a, EOT>>), Concat(<<BOT, str(a, b), EOT>>),
  Concat(<<Group(1, a), b>>), Concat(<<a, Group(1, Group(2, b)), e>>), Group(1, str(a, a)),
  Concat(<<Group(1, BOT), Group(2, a)>>), Concat(<<Group(1, EmptyMatch), Group(2, EOT)>>),
  Concat(<<a, BOT>>), Concat(<<a, Cond("beginLine")>>), Concat(<<Cond("beginLine"), a>>),
  Alternate(<<Group(1, str(a, b)), Group(2, str(a, x))>>),
  Alternate(<<Group(1, a), Group(2, str(a, b))>>)
}

Sound == Factored \cup Ordered \cup Refusable \cup Literals

\* Texts where `$` holds at the end only.
OpenTexts == {t \in TextsUpTo(MaxTextLength) : ValidUTF8(t) /\ (t = <<>> \/ Last(t) # NL)}
=============================================================================
