------------------------------- MODULE History ------------------------------
(***************************************************************************)
(* The history of a recording pass (context.go): one 32-bit word per step, *)
(* either the state before a byte, or a warp, which covers a block of      *)
(* bytes the machine skipped without leaving a state.  Of the word's       *)
(* fields only the length can be exceeded: it keeps its low bits, because  *)
(* what overflows lands in the marker bit (already set) or past bit 31.    *)
(***************************************************************************)
EXTENDS Integers, Sequences

CONSTANT HistMaxLength   \* histMaxLength: all the bits of the length field set

ASSUME HistoryAssumption == HistMaxLength \in Nat \ {0}

\* The words of the history: h & histWarpMarker, histStateMask, histLengthMask.
Raw(s)     == [warp |-> FALSE, state |-> s, length |-> 0]
Warp(s, n) == [warp |-> TRUE, state |-> s, length |-> n % (HistMaxLength + 1)]

AppendRaw(h, s) == Append(h, Raw(s))

\* A warp extends the warp before it when that is of the same state and has room.
Extends(h, s, n) ==
  /\ h # <<>>
  /\ h[Len(h)].warp /\ h[Len(h)].state = s
  /\ h[Len(h)].length + n <= HistMaxLength

\* Mutant of AppendWarp: the byte of the raw word before it is not counted.
AppendWarpRest(h, s, n) == Append(h, Warp(s, n - 1))

AppendWarp(h, s, n) ==
  IF Extends(h, s, n)
  THEN [h EXCEPT ![Len(h)] = Warp(s, h[Len(h)].length + n)]
  ELSE Append(h, Warp(s, n))
=============================================================================
