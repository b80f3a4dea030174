------------------------------ MODULE Compiler -------------------------------
(***************************************************************************)
(* regexp/syntax's compiler (outside the repository): it numbers the       *)
(* instructions in the order of allocation and patches the dangling exits  *)
(* of a fragment.                                                          *)
(***************************************************************************)
EXTENDS Regex, Instructions

\* A fragment: the program so far, its entry and its dangling exits.
Fragment(prog, entry, exits) == [prog |-> prog, entry |-> entry, exits |-> exits]

Patch(prog, exits, target) ==
  [k \in DOMAIN prog |->
     [f \in DOMAIN prog[k] |-> IF <<k, f>> \in exits THEN target ELSE prog[k][f]]]

Emit(prog, inst) == Append(prog, inst)

\* The alternative instruction of a loop or an optional part: the greedy one
\* tries its body first.
Branch(body, greedy) == IF greedy THEN [op |-> "alt", out |-> body, arg |-> 0]
                                  ELSE [op |-> "alt", out |-> 0, arg |-> body]
BranchExit(greedy)   == IF greedy THEN "arg" ELSE "out"

RECURSIVE CompileFragment(_, _)
CompileFragment(re, prog) ==
  LET next == Len(prog) + 1
      One(inst) == Fragment(Emit(prog, inst), next, {<<next, "out">>})
  IN CASE re.op = "class" ->
            One([op |-> "rune", runes |-> re.runes, any |-> re.any, out |-> 0])
       [] re.op = "empty"  -> One([op |-> "nop", out |-> 0])
       [] re.op = "assert" -> One([op |-> "empty", cond |-> re.cond, out |-> 0])
       [] re.op = "cat" ->
            LET x == CompileFragment(re.x, prog)
                y == CompileFragment(re.y, x.prog)
            IN  Fragment(Patch(y.prog, x.exits, y.entry), x.entry, y.exits)
       [] re.op = "alt" ->
            LET x == CompileFragment(re.x, prog)
                y == CompileFragment(re.y, x.prog)
            IN  Fragment(Emit(y.prog, [op |-> "alt", out |-> x.entry, arg |-> y.entry]),
                         Len(y.prog) + 1, x.exits \cup y.exits)
       [] re.op \in {"star", "plus", "quest"} ->
            LET x    == CompileFragment(re.x, prog)
                k    == Len(x.prog) + 1
                alt  == Emit(x.prog, Branch(x.entry, re.greedy))
                exit == {<<k, BranchExit(re.greedy)>>}
            IN  IF re.op = "quest" THEN Fragment(alt, k, exit \cup x.exits)
                ELSE Fragment(Patch(alt, x.exits, k), IF re.op = "star" THEN k ELSE x.entry, exit)
       [] re.op = "group" ->
            LET bra == Emit(prog, [op |-> "cap", tag |-> 2 * re.k, out |-> next + 1])
                x   == CompileFragment(re.x, bra)
                ket == Emit(x.prog, [op |-> "cap", tag |-> 2 * re.k + 1, out |-> 0])
                k   == Len(x.prog) + 1
            IN  Fragment(Patch(Patch(ket, x.exits, k), {<<next, "out">>}, x.entry),
                         next, {<<k, "out">>})

Compile(re) ==
  LET f == CompileFragment(re, <<Fail>>)
  IN  [inst  |-> Emit(Patch(f.prog, f.exits, Len(f.prog) + 1), [op |-> "match"]),
       start |-> f.entry]

\* The program of a pattern, with what Compile keeps of its tree.
ProgramOf(re) ==
  LET p == Compile(re)
  IN  [inst |-> p.inst, start |-> p.start, source |-> re,
       groups |-> Cardinality(Groups(re)), minLength |-> MinLength(re)]
=============================================================================
