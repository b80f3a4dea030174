------------------------------ MODULE MCDiscovery ----------------------------
(***************************************************************************)
(* Small instances of Discovery, with the bytes of MCEngine: 'a' and 'b',  *)
(* '.' for bytes without a name, and e' for a rune of two bytes.           *)
(***************************************************************************)
EXTENDS Discovery, Anchors

CONSTANT MaxTextLength

LeadTrailing == (5 :> 1)
LowBytes     == (<<5, 4>> :> 1)

\* What the standard matches.
Meant(re, t, p) == MatchesAt(Meaning(re), t, p, <<>>)

a   == Lit(<<<<2>>>>)
x   == Lit(<<<<1>>>>)
nl  == Lit(<<<<0>>>>)
lit(bytes) == Lit([k \in DOMAIN bytes |-> <<bytes[k]>>])
ab  == lit(<<2, 3>>)
ba  == lit(<<3, 2>>)
e   == Lit(<<<<5, 4>>>>)
AB  == Class({<<2>>, <<3>>})
BOT == Cond("beginText")
BOL == Cond("beginLine")
EOT == Cond("endText")
EOL == Cond("endLine")

\* Pass 0 takes a dot for one byte, so this is searched in ASCII texts.
dotted == Concat(<<BOT, AnyNotNL, ab>>)                    \* ^.ab

\* An anchor at a known distance.
Pinned == {
  dotted,
  Concat(<<AB, lit(<<1, 2>>)>>),                           \* [ab]xa
  Concat(<<ab, AB>>),                                      \* ab[ab]
  Concat(<<ab, AnyNotNL, Star(AB), ab>>),                  \* ab.[ab]*ab
  Concat(<<ab, Star(AB), ba>>),                            \* ab[ab]*ba
  Concat(<<lit(<<2, 1>>), Quest(a), Plus(AB)>>),           \* axa?[ab]+
  Concat(<<Group(1, a), Group(2, lit(<<1, 2>>))>>),        \* (a)(xa)
  Concat(<<BOT, ab>>), Concat(<<BOT, AB, x>>),             \* ^ab ^[ab]x
  Concat(<<ab, EOT>>), Concat(<<AB, EOT>>),                \* ab$ [ab]$
  Concat(<<AB, ab, EOT>>),
  Concat(<<BOL, ab>>), Concat(<<BOL, AB, Star(x)>>),       \* (?m:^)ab (?m:^)[ab]x*
  Concat(<<ab, EOL>>), Concat(<<AB, EOL>>),                \* ab(?m:$) [ab](?m:$)
  Concat(<<ab, Alternate(<<Plus(x), ba>>)>>),                 \* ab(?:x+|ba)
  Concat(<<Alternate(<<x, AB>>), ab>>)                        \* (?:x|[ab])ab
}

\* An anchor at a variable distance.
long == lit(<<2, 3, 2, 3, 2, 3, 2, 3>>)
Afloat == {
  Concat(<<Star(AB), lit(<<1, 2>>), EOT>>),                \* [ab]*xa$
  Concat(<<Plus(AnyNotNL), ba, EOL>>),                     \* .+ba(?m:$)
  Concat(<<Star(AnyNotNL), ba, EOT>>),                     \* .*ba$
  Concat(<<Star(AnyNotNL), long>>)                         \* .*abababab
}

Sound == Pinned \cup Afloat

\* A repeated class next to `$`: the anchor is its first byte, and its last.
Trailing == {Concat(<<Plus(AB), EOT>>)}                          \* [ab]+$

Chunks == {<<0>>, <<1>>, <<2>>, <<3>>, <<2, 3, 2, 3, 2, 3, 2, 3>>}
LongTexts == {FlattenSeq(s) : s \in UNION {[1..k -> Chunks] : k \in 0..3}}
AllTexts  == {t \in UNION {[1..k -> Bytes] : k \in 0..MaxTextLength} : ValidUTF8(t)}
Fitting(re) == CASE long \in Nodes(re) -> LongTexts
                 [] re = dotted         -> {t \in AllTexts : Range(t) \subseteq Ascii}
                 [] OTHER               -> AllTexts
=============================================================================
