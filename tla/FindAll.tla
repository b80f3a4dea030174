-------------------------------- MODULE FindAll -------------------------------
(***************************************************************************)
(* What the loops that search again and again promise (FindAll and its     *)
(* variants, Split, ReplaceAll), without their position, their counter and *)
(* the limit they make up: the matches of a text, one after the other,     *)
(* each the leftmost behind the one before it.  Module Iteration           *)
(* implements this.                                                        *)
(***************************************************************************)
EXTENDS Integers, Sequences

VARIABLES
  length, trailing,  \* a text: its length, position |-> bytes left of its rune
  ends,              \* start of a match |-> its end
  limit,             \* the most matches wanted, negative for all of them
  delivered,         \* the matches, in the order they are delivered
  over               \* no more will be delivered

vars == <<length, trailing, ends, limit, delivered, over>>

Init ==
  /\ length \in Nat /\ trailing \in [0..(length - 1) -> Nat]
  /\ DOMAIN ends \subseteq 0..length /\ \A s \in DOMAIN ends : ends[s] \in s..length
  /\ limit \in Int
  /\ delivered = <<>> /\ over = FALSE

Final(ms) == ms[Len(ms)]

\* Where the search behind the matches ms may go on: where the last one ends, or
\* behind an empty one a rune further.  An empty match may so be delivered a
\* second time, but no third time.
Empty(m)    == m[1] = m[2]
Repeated(ms) == Len(ms) > 1 /\ Final(ms) = ms[Len(ms) - 1]
PastRune(p) == p + 1 + IF p < length THEN trailing[p] ELSE 0

Resumptions(ms) ==
  IF ms = <<>> THEN {0}
  ELSE (IF Empty(Final(ms)) /\ Repeated(ms) THEN {} ELSE {Final(ms)[2]})
       \cup (IF Empty(Final(ms)) THEN {PastRune(Final(ms)[2])} ELSE {})

From(p)     == {s \in DOMAIN ends : p <= s}
Leftmost(p) == {s \in From(p) : \A t \in From(p) : s <= t}

Wanted(ms) == limit < 0 \/ Len(ms) < limit

\* The matches are all there is, or all that is wanted.
Exhausted(ms) == ~Wanted(ms) \/ \E p \in Resumptions(ms) : From(p) = {}

Deliver ==
  /\ ~over /\ Wanted(delivered)
  /\ \E p \in Resumptions(delivered) : \E s \in Leftmost(p) :
       delivered' = Append(delivered, <<s, ends[s]>>)
  /\ over' = FALSE \/ (over' = TRUE /\ Exhausted(delivered'))
  /\ UNCHANGED <<length, trailing, ends, limit>>

Close ==
  /\ ~over /\ Exhausted(delivered)
  /\ over' = TRUE
  /\ UNCHANGED <<length, trailing, ends, limit, delivered>>

Next == Deliver \/ Close
Spec == Init /\ [][Next]_vars
=============================================================================
