------------------------------- MODULE Iteration ------------------------------
(***************************************************************************)
(* The loops that search a text again and again: all and allSubmatch       *)
(* (FindAll), Split (which cuts the text at what FindAll returns) and      *)
(* replaceAll.  A search from pos returns the leftmost match that starts   *)
(* at pos or later, and the end of a match depends on its start alone: an  *)
(* oracle, the function ends from the starts of matches to their ends,     *)
(* stands for the pattern.  Module Engine checks the passes against it.    *)
(***************************************************************************)
EXTENDS Integers, Sequences

CONSTANTS
  MaxLength,    \* bound on the text
  MaxTrailing,  \* the most bytes that follow a lead byte: 3
  MaxLimit      \* bound on the n of a call

ASSUME IterationAssumption == MaxLength \in Nat /\ MaxTrailing \in Nat /\ MaxLimit \in Nat

VARIABLES
  length,     \* totalBytes
  trailing,   \* position |-> GetTrailingByteCount of its byte
  ends,       \* start of a match |-> its end
  op,         \* "findAll", "split" or "replaceAll"
  limit,      \* the argument n, negative for no limit
  n,          \* n once a negative limit is replaced
  pc, pos,
  count,      \* i
  delivered,  \* the matches delivered, or replaced
  dst,        \* replaceAll's output: positions of src and replacements
  from,       \* start, in Split
  pieces      \* result, in Split: pairs of positions

textVars == <<length, trailing, ends>>
argVars  == <<op, limit, n>>
vars     == <<textVars, argVars, pc, pos, count, delivered, dst, from, pieces>>

Ops == {"findAll", "split", "replaceAll"}

\* The matches a pattern may have in a text of length len.
MatchSets(len) == UNION {{e \in [S -> 0..len] : \A s \in S : s <= e[s]} : S \in SUBSET (0..len)}

\* The leftmost match from pos on (findIndexAt, findSubmatchIndexAt).
Starts  == {s \in DOMAIN ends : pos <= s}
Find(s) == s \in Starts /\ \A t \in Starts : s <= t

\* Mutants of Advance: one rune past the start of every match, one byte too far.
AdvanceOneRune(e) == 1 + IF pos < length THEN trailing[pos] ELSE 0
AdvanceTooFar(e)  == e - pos + 1

\* How far pos moves past a match with end e: over one rune if it is empty.
Advance(e) == IF e - pos > 0 THEN e - pos
              ELSE 1 + IF pos < length THEN trailing[pos] ELSE 0

Init ==
  /\ length \in 0..MaxLength
  /\ trailing \in [0..(length - 1) -> 0..MaxTrailing]
  /\ ends \in MatchSets(length)
  /\ op \in Ops
  /\ limit \in -1..MaxLimit
  /\ n = 0 /\ pc = "call" /\ pos = 0 /\ count = 0
  /\ delivered = <<>> /\ dst = <<>> /\ from = 0 /\ pieces = <<>>

\* Mutants of Call: the limit of a call without one stays negative, or is the
\* length.
Calls(k) ==
  /\ pc = "call"
  /\ n' = k
  /\ pc' = IF op = "replaceAll" THEN "replace" ELSE IF op = "split" /\ limit = 0 THEN "done" ELSE "find"
  /\ UNCHANGED <<textVars, op, limit, pos, count, delivered, dst, from, pieces>>

CallNegative  == Calls(limit)
CallShort     == Calls(IF limit < 0 THEN length ELSE limit)

\* A split into no pieces returns at once.
Call ==
  /\ pc = "call"
  /\ n' = IF limit < 0 THEN length + 1 ELSE limit
  /\ pc' = IF op = "replaceAll" THEN "replace" ELSE IF op = "split" /\ limit = 0 THEN "done" ELSE "find"
  /\ UNCHANGED <<textVars, op, limit, pos, count, delivered, dst, from, pieces>>

\* --- all, allSubmatch ----------------------------------------------------
EndFind == pc' = IF op = "split" THEN "cut" ELSE "done"

LimitReached ==
  /\ pc = "find" /\ count >= n
  /\ EndFind
  /\ UNCHANGED <<textVars, argVars, pos, count, delivered, dst, from, pieces>>

FindNone ==
  /\ pc = "find" /\ count < n
  /\ Starts = {}
  /\ EndFind
  /\ UNCHANGED <<textVars, argVars, pos, count, delivered, dst, from, pieces>>

\* Mutant of FindNext: an empty match right after the match before it is skipped,
\* and the loop goes on without moving.
FindNextSkipping ==
  /\ pc = "find" /\ count < n
  /\ \E s \in Starts :
       /\ Find(s)
       /\ IF ends[s] = s /\ delivered # <<>> /\ delivered[Len(delivered)][2] = s
          THEN UNCHANGED <<delivered, pos, count, pc>>
          ELSE /\ delivered' = Append(delivered, <<s, ends[s]>>)
               /\ IF pos >= length
                  THEN EndFind /\ UNCHANGED <<pos, count>>
                  ELSE /\ pos' = pos + Advance(ends[s])
                       /\ IF pos' > length
                          THEN EndFind /\ UNCHANGED count
                          ELSE count' = count + 1 /\ UNCHANGED pc
  /\ UNCHANGED <<textVars, argVars, dst, from, pieces>>

FindNext ==
  /\ pc = "find" /\ count < n
  /\ \E s \in Starts :
       /\ Find(s)
       /\ delivered' = Append(delivered, <<s, ends[s]>>)
       /\ IF pos >= length
          THEN EndFind /\ UNCHANGED <<pos, count>>
          ELSE /\ pos' = pos + Advance(ends[s])
               /\ IF pos' > length
                  THEN EndFind /\ UNCHANGED count
                  ELSE count' = count + 1 /\ UNCHANGED pc
  /\ UNCHANGED <<textVars, argVars, dst, from, pieces>>

\* --- Split ---------------------------------------------------------------
\* Every turn of the loop of Split makes one piece.
CutAll == Len(pieces) = Len(delivered) \/ Len(pieces) = n - 1

Cut ==
  /\ pc = "cut" /\ ~CutAll
  /\ LET m == delivered[Len(pieces) + 1]
     IN  pieces' = Append(pieces, <<from, m[1]>>) /\ from' = m[2]
  /\ UNCHANGED <<textVars, argVars, pc, pos, count, delivered, dst>>

CutRest ==
  /\ pc = "cut" /\ CutAll
  /\ pieces' = Append(pieces, <<from, length>>)
  /\ pc' = "done"
  /\ UNCHANGED <<textVars, argVars, pos, count, delivered, dst, from>>

\* --- replaceAll ----------------------------------------------------------
Src(p)      == [src |-> TRUE, at |-> p]
Repl(s)     == [src |-> FALSE, at |-> s]
\* Mutant of Bytes: the slice includes its end.
BytesInclusive(p, q) == [k \in 1..(q - p + 1) |-> Src(p + k - 1)]

Bytes(p, q) == [k \in 1..(q - p) |-> Src(p + k - 1)]

ReplaceNext ==
  /\ pc = "replace" /\ pos <= length
  /\ \E s \in Starts :
       /\ Find(s)
       /\ delivered' = Append(delivered, <<s, ends[s]>>)
       /\ LET out == dst \o Bytes(pos, s) \o <<Repl(s)>>
          IN  IF ends[s] > pos
              THEN dst' = out /\ pos' = ends[s] /\ UNCHANGED pc
              ELSE IF pos < length
              THEN dst' = Append(out, Src(pos)) /\ pos' = pos + Advance(ends[s]) /\ UNCHANGED pc
              ELSE dst' = out /\ pos' = length + 1 /\ pc' = "done"
  /\ UNCHANGED <<textVars, argVars, count, from, pieces>>

ReplaceEnd ==
  /\ pc = "replace" /\ (pos > length \/ Starts = {})
  /\ dst' = IF pos <= length THEN dst \o Bytes(pos, length) ELSE dst
  /\ pc' = "done"
  /\ UNCHANGED <<textVars, argVars, pos, count, delivered, from, pieces>>

Done == pc = "done" /\ UNCHANGED vars

Next == Call \/ LimitReached \/ FindNone \/ FindNext \/ Cut \/ CutRest
             \/ ReplaceNext \/ ReplaceEnd \/ Done

Spec == Init /\ [][Next]_vars

\* The loops run to their end once the call is made.
FairSpec == Spec /\ WF_vars(Next)

\* --- properties ----------------------------------------------------------
Span == (0..length) \X (0..length)

TypeOK ==
  /\ length \in 0..MaxLength
  /\ trailing \in [0..(length - 1) -> 0..MaxTrailing]
  /\ ends \in MatchSets(length)
  /\ op \in Ops /\ limit \in -1..MaxLimit /\ n \in Nat
  /\ pc \in {"call", "find", "cut", "replace", "done"}
  /\ pos \in Nat /\ count \in Nat
  /\ delivered \in Seq(Span)
  /\ dst \in Seq([src : BOOLEAN, at : 0..length])
  /\ from \in 0..length
  /\ pieces \in Seq(Span)

\* The matches that FindAll delivers and replaceAll replaces come in the order
\* of the text and do not overlap, whatever the matcher finds.
InOrder ==
  \A j, k \in DOMAIN delivered : j < k => delivered[j][2] <= delivered[k][1]

\* A negative n becomes len(b) + 1, and that limit never ends the loop: an
\* unlimited FindAll loses no match to it.
UnlimitedIsNeverCut == pc = "find" /\ limit < 0 => count < n

\* A limit bounds what is delivered and how many pieces Split makes.
LimitHolds ==
  limit >= 0 => /\ op # "replaceAll" => Len(delivered) <= limit
                /\ Len(pieces) <= limit

\* The slices of Split, s[start:m[0]] and s[start:], are never out of order.
SlicesValid == \A k \in DOMAIN pieces : pieces[k][1] <= pieces[k][2]

\* When an unlimited call is over, the start of every match was delivered, lies
\* in a match that was, or lies inside a rune the loop stepped over because it
\* had an empty match in front of it.
Covered(s) ==
  \E k \in DOMAIN delivered :
    LET m == delivered[k]
    IN  \/ m[1] <= s /\ s < m[2]
        \/ m[1] = s
        \/ m[1] = m[2] /\ m[1] < s /\ s <= m[1] + trailing[m[1]]

NothingSkipped ==
  pc = "done" /\ (op = "replaceAll" \/ (op = "findAll" /\ limit < 0)) =>
    \A s \in DOMAIN ends : Covered(s)

Matched(p) == \E k \in DOMAIN delivered : delivered[k][1] <= p /\ p < delivered[k][2]
SteppedOver(p) ==
  \E k \in DOMAIN delivered :
    LET m == delivered[k] IN m[1] = m[2] /\ m[1] < p /\ p <= m[1] + trailing[m[1]]

\* The positions of src that an output copies.
KeptPositions(out) == {out[k].at : k \in {j \in DOMAIN out : out[j].src}}

\* What follows a copied byte is of a later position, and what follows a
\* replacement of no earlier one.
InTextOrder(out) ==
  \A j, k \in DOMAIN out : j < k =>
    /\ out[j].at <= out[k].at
    /\ out[j].src => out[j].at < out[k].at

\* replaceAll copies the bytes that are in no replaced match and that it did not
\* step over behind an empty one, each once, and puts them and the replacements
\* in the order of the text.
KeepsOutside ==
  pc = "done" /\ op = "replaceAll" =>
    /\ InTextOrder(dst)
    /\ KeptPositions(dst) = {p \in 0..(length - 1) : ~Matched(p) /\ ~SteppedOver(p)}

\* A delivery moves the search on, or is the last one.
Advances == [][delivered' # delivered => pos < pos' \/ pc' # pc]_vars

\* The loops deliver what FindAll promises, each match the leftmost behind the
\* one before it and none but those, and stop only when there is no other or no
\* other is wanted; Split and replaceAll see the same matches.
Promise == INSTANCE FindAll WITH
  limit <- IF op = "replaceAll" THEN -1 ELSE limit,
  over  <- pc \in {"cut", "done"}

Implements == Promise!Spec

\* Every call returns: an empty match cannot hold the loop in place.
Terminates == pc = "call" ~> pc = "done"
=============================================================================
