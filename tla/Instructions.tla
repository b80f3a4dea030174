----------------------------- MODULE Instructions ----------------------------
(***************************************************************************)
(* The program of a pattern (syntax.Prog): numbered instructions, of which *)
(* instruction 1 is the fail instruction, and what the builder takes for   *)
(* granted of them.  A program also keeps of its pattern the number of     *)
(* groups, the least length of a match and, in source, the syntax tree.    *)
(***************************************************************************)
EXTENDS Text

Fail == [op |-> "fail"]

\* Instructions that read no byte.
IsEpsilon(op) == op \in {"alt", "cap", "empty", "nop"}

\* Where an instruction leads without reading a byte.
EpsilonEdges(inst) ==
  IF inst.op = "alt" THEN {inst.out, inst.arg}
  ELSE IF IsEpsilon(inst.op) THEN {inst.out} ELSE {}

\* A lead byte begins a rune of several bytes and stands nowhere else in one.
RuneOK(r) == r \in Seq(Bytes) /\ r # <<>> /\ \A k \in DOMAIN r : r[k] \in Lead => k = 1 /\ Len(r) > 1

InstructionOK(inst, ids) ==
  /\ inst.op \in {"rune", "match", "fail", "alt", "cap", "empty", "nop"}
  /\ inst.op = "rune" => inst.out \in ids /\ inst.any \in BOOLEAN /\ \A r \in inst.runes : RuneOK(r)
  /\ EpsilonEdges(inst) \subseteq ids
  /\ inst.op = "cap" => inst.tag \in Nat
  /\ inst.op = "empty" => inst.cond \in Conditions

\* No match among the instructions of M, which no epsilon instruction leaves.
NoMatchWithin(p, M) ==
  p.start \in M /\ \A i \in M : p.inst[i].op # "match" /\ EpsilonEdges(p.inst[i]) \subseteq M

\* What regexp/syntax compiles; if a match has a byte, none is reached without one.
ProgramOK(p) ==
  /\ p.start \in DOMAIN p.inst /\ p.groups \in Nat
  /\ \A i \in DOMAIN p.inst : InstructionOK(p.inst[i], DOMAIN p.inst)
  /\ p.minLength # 0 => \E M \in SUBSET DOMAIN p.inst : NoMatchWithin(p, M)
=============================================================================
