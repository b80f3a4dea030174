----------------------------- MODULE Compatibility ---------------------------
(***************************************************************************)
(* What Compile refuses: patterns whose groups the passes could not place  *)
(* (ir.CheckCompatibility, on the optimized tree) and programs that can go *)
(* round without reading a byte (checkEpsilonLoop, on the program).        *)
(***************************************************************************)
EXTENDS Syntax, Compiler

HasCapture(re) == \E sub \in Nodes(re) : sub.op = "group"

\* Mutant of HasEmptyAlternative: anything empty anywhere counts.
HasEmptyAlternativeDeep(re) == EmptyMatch \in Nodes(re)

RECURSIVE HasEmptyAlternative(_)
HasEmptyAlternative(re) ==
  LET subs == Range(Subs(re))
  IN  CASE re.op = "empty"     -> TRUE
        [] re.op = "group"     -> HasEmptyAlternative(re.x)
        [] re.op = "alternate" -> \E sub \in subs : HasEmptyAlternative(sub)
        [] re.op = "concat"    -> \A sub \in subs : HasEmptyAlternative(sub)
        [] OTHER               -> FALSE

\* A one-or-more loop counts as one that reads something: if its body can match
\* nothing, the program has a loop and is refused anyway.
RECURSIVE MatchesEmpty(_)
MatchesEmpty(re) ==
  LET subs == Range(Subs(re))
  IN  CASE re.op \in {"empty", "star", "quest", "assert"} -> TRUE
        [] re.op = "group"     -> MatchesEmpty(re.x)
        [] re.op = "concat"    -> \A sub \in subs : MatchesEmpty(sub)
        [] re.op = "alternate" -> \E sub \in subs : MatchesEmpty(sub)
        [] OTHER               -> FALSE

Unsupported(re) ==
  \/ re.op = "group" /\ HasEmptyAlternative(re.x)
  \/ re.op = "quest" /\ HasCapture(re.x) /\ MatchesEmpty(re.x)

CheckCompatibility(re) == \A sub \in Nodes(re) : ~Unsupported(sub)

\* Mutant of EpsilonOuts: the second branch is not followed.
EpsilonOutsFirst(inst) == IF IsEpsilon(inst.op) THEN {inst.out} ELSE {}

\* The depth-first search over the epsilon instructions of a program: an
\* instruction that is met again on the way from itself closes a loop.
EpsilonOuts(inst) ==
  CASE inst.op = "alt"    -> {inst.out, inst.arg}
    [] IsEpsilon(inst.op) -> {inst.out}
    [] OTHER              -> {}

RECURSIVE Visit(_, _, _)
Visit(prog, id, search) ==
  LET Enter(s, next) == Visit(prog, next, s)
      entered == [search EXCEPT !.visited = @ \cup {id}, !.onStack = @ \cup {id}]
      left    == FoldLeft(Enter, entered, SetToSeq(EpsilonOuts(prog.inst[id])))
  IN  CASE search.loop               -> search
        [] id \in search.onStack     -> [search EXCEPT !.loop = TRUE]
        [] id \in search.visited     -> search
        [] OTHER                     -> [left EXCEPT !.onStack = @ \ {id}]

CheckEpsilonLoop(prog) ==
  LET none == [visited |-> {}, onStack |-> {}, loop |-> FALSE]
  IN  ~FoldLeft(LAMBDA s, id : Visit(prog, id, s), none, [id \in DOMAIN prog.inst |-> id]).loop
=============================================================================
