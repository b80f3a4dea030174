------------------------------- MODULE MCEngine ------------------------------
(***************************************************************************)
(* Small instances of Engine: 'a' and 'b' are the word bytes, '.' of the   *)
(* bytes a pattern does not name, and one two-byte rune.                   *)
(***************************************************************************)
EXTENDS Engine

LeadTrailing == (5 :> 1)

a  == Char(2)
b  == Char(3)
ab == Class({<<2>>, <<3>>})

\* a*, .*, .*a, \b[ab]+\b, (?:a[ab])*, a*?, [ab]*?b, (a|[ab]b)+, (?s:.)a+,
\* [ab]*a[ab]?, [ab]*a[ab][ab], (?:(?:b|\A|(?m:^))a)*, (?:(?:b|\b|\B)a)+b: loops,
\* conditions, groups and runes, whatever the priorities.  [ab]*a[ab][ab] needs eight
\* states, twice the limit, which others just meet.  In the last two the second and
\* the third alternative tie and differ in their condition: the order of the sort
\* decides whether the very last meets the limit or exceeds it.
Wide == {
  Star(a),
  Star(AnyNotNL),
  Cat(Star(AnyNotNL), a),
  Cat(Cond("word"), Cat(Plus(ab), Cond("word"))),
  Star(Cat(a, ab)),
  LazyStar(a),
  Cat(LazyStar(ab), b),
  Plus(Group(1, Alt(a, Cat(ab, b)))),
  Cat(AnyChar, Plus(a)),
  Cat(Star(ab), Cat(a, Quest(ab))),
  Cat(Star(ab), Cat(a, Cat(ab, ab))),
  Star(Cat(Alt(Alt(b, Cond("beginText")), Cond("beginLine")), a)),
  Cat(Plus(Cat(Alt(Alt(b, Cond("word")), Cond("noWord")), a)), b)
}

\* Patterns whose priorities never compete and whose groups are next to the
\* end: (a*)b, [ab]+(b), (a)|[ab]b, .(a+), (a?)[ab], \B([ab]), ([ab]*?)(b).
Exact == {
  Cat(Group(1, Star(a)), b),
  Cat(Plus(ab), Group(1, b)),
  Alt(Group(1, a), Cat(ab, b)),
  Cat(AnyChar, Group(1, Plus(a))),
  Cat(Group(1, Quest(a)), ab),
  Cat(Cond("noWord"), Group(1, ab)),
  Cat(Group(1, LazyStar(ab)), Group(2, b))
}

\* [ab]*a[ab]?, on which priorities do compete.
Optional == {Cat(Star(ab), Cat(a, Quest(ab)))}

WidePrograms     == {ProgramOf(re) : re \in Wide}
ExactPrograms    == {ProgramOf(re) : re \in Exact}
OptionalPrograms == {ProgramOf(re) : re \in Optional}
=============================================================================
