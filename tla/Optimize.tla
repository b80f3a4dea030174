------------------------------- MODULE Optimize ------------------------------
(***************************************************************************)
(* syntax.Optimize: concatenations are flattened and their literals        *)
(* joined, alternations are factored.  The source has one copy of the      *)
(* factoring code for prefixes and one for suffixes; here a side, "head"   *)
(* or "tail", is a parameter, and fix is the common prefix or suffix.      *)
(***************************************************************************)
EXTENDS Syntax

\* --- concatenations ------------------------------------------------------
Inlined(op, subs) == FlattenSeq([k \in DOMAIN subs |-> IF subs[k].op = op THEN subs[k].subs ELSE <<subs[k]>>])

FlattenConcat(re) == [re EXCEPT !.subs = Inlined("concat", @)]

AggregateLiterals(re) ==
  LET Add(subs, sub) ==
        IF sub = EmptyMatch THEN subs
        ELSE IF sub.op = "lit" /\ subs # <<>> /\ Last(subs).op = "lit"
        THEN Append(Front(subs), Lit(Last(subs).str \o sub.str))
        ELSE Append(subs, sub)
      subs == FoldLeft(Add, <<>>, re.subs)
  IN  CASE Len(re.subs) = 1 -> re
        [] Len(subs) = 0    -> EmptyMatch
        [] Len(subs) = 1    -> subs[1]
        [] OTHER            -> Concat(subs)

\* --- one side of a sequence ----------------------------------------------
At(side, s)      == IF side = "head" THEN Head(s) ELSE Last(s)
Others(side, s)  == IF side = "head" THEN Tail(s) ELSE Front(s)
Put(side, x, s)  == IF side = "head" THEN <<x>> \o s ELSE Append(s, x)
Keep(side, s, n) == IF side = "head" THEN SubSeq(s, 1, n) ELSE SubSeq(s, Len(s) - n + 1, Len(s))
Drop(side, s, n) == IF side = "head" THEN SubSeq(s, n + 1, Len(s)) ELSE SubSeq(s, 1, Len(s) - n)

Parts(re)     == IF re.op = "concat" THEN re.subs ELSE <<re>>
Sequence(subs) == CASE Len(subs) = 0 -> EmptyMatch
                    [] Len(subs) = 1 -> subs[1]
                    [] OTHER         -> Concat(subs)

\* A pattern that is no concatenation is its own prefix, but has no suffix.
Split(side, re) ==
  CASE re.op = "concat" -> [fix |-> At(side, re.subs), rest |-> Sequence(Others(side, re.subs))]
    [] side = "head"    -> [fix |-> re, rest |-> EmptyMatch]
    [] OTHER            -> [fix |-> EmptyMatch, rest |-> re]

Combine(side, fix, rest) ==
  CASE rest = EmptyMatch -> fix
    [] fix = EmptyMatch  -> rest
    [] OTHER             -> Concat(Put(side, fix, Parts(rest)))

\* How much of fix, in runes if it is a literal, re has on this side.
CommonLen(side, fix, re) ==
  LET other == Split(side, re).fix
      Same(n) == Keep(side, fix.str, n) = Keep(side, other.str, n)
  IN  CASE fix = EmptyMatch  -> 0
        [] fix.op # "lit"    -> IF fix = other THEN 1 ELSE 0
        [] other.op # "lit"  -> 0
        [] OTHER             -> Max({n \in 0..Min({Len(fix.str), Len(other.str)}) : Same(n)})

\* What is left of re without n runes, or without its part on this side.
RestAt(side, re, n) ==
  LET part == At(side, Parts(re))
      left == Others(side, Parts(re))
  IN  IF part.op # "lit" THEN Split(side, re).rest
      ELSE Sequence(IF n = Len(part.str) THEN left ELSE Put(side, Lit(Drop(side, part.str, n)), left))

\* --- factoring -----------------------------------------------------------
\* An entry has alternatives that share fix, or is one alternative by itself.
Alone(re) == [fix |-> EmptyMatch, items |-> <<re>>]

NewEntry(side, sub) ==
  LET s == Split(side, sub)
  IN  IF s.fix = EmptyMatch THEN Alone(sub) ELSE [fix |-> s.fix, items |-> <<s.rest>>]

\* Mutant of Join: the end cut off a literal is forgotten.
JoinCutting(side, e, sub) ==
  LET n == CommonLen(side, e.fix, sub)
  IN  [fix   |-> IF e.fix.op = "lit" /\ n > 0 THEN Lit(Keep(side, e.fix.str, n)) ELSE e.fix,
       items |-> Append(e.items, IF n > 0 THEN RestAt(side, sub, n) ELSE EmptyMatch)]
Join(side, e, sub) ==
  LET n     == CommonLen(side, e.fix, sub)
      cut   == n > 0 /\ e.fix.op = "lit" /\ n < Len(e.fix.str)
      outer == Lit(Drop(side, e.fix.str, n))
      items == IF cut THEN [k \in DOMAIN e.items |-> Combine(side, outer, e.items[k])] ELSE e.items
  IN  [fix   |-> IF cut THEN Lit(Keep(side, e.fix.str, n)) ELSE e.fix,
       items |-> Append(items, IF n > 0 THEN RestAt(side, sub, n) ELSE EmptyMatch)]

\* Mutant of AddTo: an alternative that joins none goes first.
AddToFront(side, entries, sub) ==
  LET fitting == {k \in DOMAIN entries : CommonLen(side, entries[k].fix, sub) > 0}
  IN  IF fitting = {} THEN <<NewEntry(side, sub)>> \o entries
      ELSE [entries EXCEPT ![Min(fitting)] = Join(side, @, sub)]

AddTo(side, entries, sub) ==
  LET Fits(e) == e.fix # EmptyMatch /\ (CommonLen(side, e.fix, sub) > 0 \/ e.fix = sub)
      fitting == {k \in DOMAIN entries : Fits(entries[k])}
  IN  CASE sub = EmptyMatch -> Append(entries, Alone(sub))
        [] fitting = {}     -> Append(entries, NewEntry(side, sub))
        [] OTHER            -> [entries EXCEPT ![Min(fitting)] = Join(side, @, sub)]

\* A common literal of one rune is not worth an alternation.
Significant(fix) == fix.op # "lit" \/ Len(fix.str) > 1

EmitEntry(side, e) ==
  IF Len(e.items) > 1 /\ Significant(e.fix)
  THEN <<Combine(side, e.fix, Alternate(Inlined("alternate", e.items)))>>
  ELSE [k \in DOMAIN e.items |-> Combine(side, e.fix, e.items[k])]

Emitted(side, entries) == FlattenSeq([k \in DOMAIN entries |-> EmitEntry(side, entries[k])])

Factor(side, subs) ==
  IF Len(subs) <= 1 THEN subs
  ELSE Emitted(side, FoldLeft(LAMBDA es, sub : AddTo(side, es, sub), <<>>, subs))

\* --- the loop of factorAlternate -----------------------------------------
Nested(re) == \E k \in DOMAIN re.subs : re.subs[k].op = "alternate"

\* How a turn that leaves these alternatives of re ends.
AfterTurn(re, subs) ==
  LET changed == Nested(re) \/ Len(subs) # Len(re.subs)
  IN  IF Len(subs) = 1 THEN [re |-> subs[1], done |-> TRUE] ELSE [re |-> Alternate(subs), done |-> ~changed]

\* One turn: flatten, factor prefixes, factor suffixes.
Turn(re) == AfterTurn(re, Factor("tail", Factor("head", Inlined("alternate", re.subs))))

\* The alternatives, with their own concatenations in order.
Gathered(re) ==
  [re EXCEPT !.subs = [k \in DOMAIN @ |-> IF @[k].op = "concat" THEN AggregateLiterals(FlattenConcat(@[k])) ELSE @[k]]]

RECURSIVE FactorAlternate(_)
FactorAlternate(re) == IF Turn(re).done THEN Turn(re).re ELSE FactorAlternate(Turn(re).re)

\* A concatenation left with one part gives way to it; but when aggregating has
\* already replaced it by that part, it is the part that gives way to its own.
Collapsed(re) == IF Len(Subs(re)) = 1 THEN Subs(re)[1] ELSE re

\* What becomes of a tree, its parts optimized, short of factoring.
Arranged(re) ==
  CASE re.op = "alternate" -> Gathered(re)
    [] re.op = "concat"    -> Collapsed(AggregateLiterals(FlattenConcat(re)))
    [] OTHER               -> re

RECURSIVE Optimized(_)
OptimizedSubs(re) == WithSubs(re, [k \in DOMAIN Subs(re) |-> Optimized(Subs(re)[k])])
Optimized(re) ==
  LET arranged == Arranged(OptimizedSubs(re))
  IN  IF re.op = "alternate" THEN FactorAlternate(arranged) ELSE arranged
=============================================================================
