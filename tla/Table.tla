-------------------------------- MODULE Table --------------------------------
(***************************************************************************)
(* The finished table of a pattern (ir.DFA): what the builder hands to the *)
(* passes of a search.  A raw transition is a record of the fields the     *)
(* code packs in 32 bits, and state 1 is the start state.                  *)
(***************************************************************************)
EXTENDS Text

VARIABLE
  dfa  \* [states, trans, recap, startUpdates, groups, strategy, searchSet, searchDFA]

NoDFA        == <<>>
NoState      == 0
InvalidState == [to |-> NoState, ccwarp |-> FALSE]
Valid(raw)   == raw.to # NoState
Infinity     == 1073741823        \* 1<<30 - 1: no priority

\* The operators on a table take it as an argument, as the passes do.
States(d)           == DOMAIN d.states
Transition(d, s, b) == d.trans[<<s, b>>]
IsAccepting(d, s)   == d.states[s].accepting
Guard(d, s)         == d.states[s].guard
MatchP(d, s)        == d.states[s].matchP
IsBestMatch(d, s)   == d.states[s].best
WarpBytes(d, s)     == d.states[s].warpSet

\* re.matchState: the raw start state.  It never carries CCWarpFlag.
MatchState(d) == [to |-> 1, accept |-> IsAccepting(d, 1), anchors |-> {},
                  warp |-> FALSE, updates |-> <<>>, delta |-> 0, ccwarp |-> FALSE]

\* --- what a search may rely on -------------------------------------------
StatesOK(d) ==
  /\ 1 \in States(d) /\ States(d) \subseteq Nat \ {NoState} /\ d.groups \in Nat
  /\ \A s \in States(d) :
       /\ IsAccepting(d, s) \in BOOLEAN /\ IsBestMatch(d, s) \in BOOLEAN
       /\ MatchP(d, s) \in Nat
       /\ IsAccepting(d, s) = (MatchP(d, s) # Infinity)
       /\ IsBestMatch(d, s) => MatchP(d, s) = 0
       /\ Guard(d, s) \subseteq Conditions /\ WarpBytes(d, s) \subseteq Bytes

TransitionsOK(d) ==
  /\ DOMAIN d.trans = States(d) \X Bytes /\ DOMAIN d.recap = States(d) \X Bytes
  /\ \A s \in States(d), b \in Bytes :
       LET raw == Transition(d, s, b)
       IN  /\ raw.to \in States(d) \cup {NoState} /\ raw.ccwarp \in BOOLEAN
           /\ Valid(raw) =>
                /\ raw.accept = IsAccepting(d, raw.to)
                /\ raw.anchors \subseteq Conditions
                /\ raw.warp \in BOOLEAN /\ raw.delta \in Nat

\* A warp transition adds the trailing bytes of the byte it read, and the walks
\* of passes 3 and 4 cannot undo that: the byte never has any.
NoTrailingWarp(d) ==
  \A s \in States(d), b \in Bytes :
    LET raw == Transition(d, s, b)
    IN  Valid(raw) /\ raw.warp => GetTrailingByteCount(b) = 0

\* A transition is flagged only where its state comes back to itself.
FlagsAreLoops(d) ==
  \A s \in States(d), b \in Bytes : Transition(d, s, b).ccwarp => Transition(d, s, b).to = s

\* A transition with no condition to verify, no priority to add and no tag to apply.
Quiet(raw) ==
  /\ raw.anchors = {} /\ raw.delta = 0
  /\ \A k \in DOMAIN raw.updates : raw.updates[k].pre \cup raw.updates[k].post = {}

\* The states from which any continuation byte leads into T, and nothing is missed.
Before(d, T) ==
  {t \in States(d) : ~IsAccepting(d, t) /\ \A c \in Cont :
     Transition(d, t, c).to \in T /\ Quiet(Transition(d, t, c))}

\* The states that n continuation bytes lead back to s from.
Inside(d, s, n) ==
  CASE n = 0 -> {s}
    [] n = 1 -> Before(d, {s})
    [] n = 2 -> Before(d, Before(d, {s}))
    [] n = 3 -> Before(d, Before(d, Before(d, {s})))

\* A state that skips blocks of bytes would have come back to itself on each
\* rune of them, and nothing is missed on the way.
SkipsPureLoops(d, s) ==
  \A b \in WarpBytes(d, s) :
    /\ Transition(d, s, b).to \in Inside(d, s, GetTrailingByteCount(b)) /\ Quiet(Transition(d, s, b))
    /\ b \in Lead => Cont \subseteq WarpBytes(d, s)

WarpsSkipPureLoops(d) == \A s \in States(d) : SkipsPureLoops(d, s)

\* A pattern that may match nothing has no prefilter, which would pass over the
\* places where it does.
PrefilterNeedsAByte(d) == d.strategy # "none" => ~IsAccepting(d, 1)

\* What the passes take for granted of the table they are given.
WellFormed(d) ==
  /\ StatesOK(d) /\ TransitionsOK(d) /\ NoTrailingWarp(d) /\ FlagsAreLoops(d)
  /\ WarpsSkipPureLoops(d) /\ PrefilterNeedsAByte(d)
=============================================================================
