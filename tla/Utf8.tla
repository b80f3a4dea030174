--------------------------------- MODULE Utf8 -------------------------------
(***************************************************************************)
(* The trie of an instruction (internal/ir/utf8.go): the rune ranges of a  *)
(* class, turned into sequences of byte ranges and merged into a tree that *)
(* is walked a byte at a time.  Module Regex takes a class to be the set   *)
(* of its encodings; here is what the code makes of it.                    *)
(*                                                                         *)
(* UTF-8 is scaled down: a continuation byte has one of Digits values, a   *)
(* rune takes one to three bytes, and as in UTF-8 a lead byte is unused    *)
(* where its runes have a shorter encoding or lie beyond MaxRune, and one  *)
(* lead byte of three-byte runes is used in part.                          *)
(***************************************************************************)
EXTENDS Integers, SequencesExt

CONSTANTS
  Digits,      \* values of a continuation byte (64)
  OneByte,     \* runes of one byte (0x80)
  TwoBytes,    \* runes of at most two bytes (0x800)
  MaxRune,     \* 0x10FFFF
  NL,          \* '\n'
  Surrogates,  \* 0xD800..0xDFFF
  RuneError,   \* 0xFFFD
  MaxRanges    \* bound on the ranges of a class

Runes == 0..MaxRune

ASSUME Utf8Assumption ==
  /\ Digits \in Nat \ {0, 1} /\ MaxRanges \in Nat
  /\ 0 < OneByte /\ OneByte < TwoBytes /\ TwoBytes <= MaxRune
  /\ NL \in 0..(OneByte - 1)
  /\ Surrogates \subseteq TwoBytes..MaxRune /\ RuneError \in (TwoBytes..MaxRune) \ Surrogates

VARIABLES
  trie,    \* Trie.Nodes; the root is node 1
  class,   \* the ranges added so far
  invalid  \* AddInvalidUTF8 was called

vars == <<trie, class, invalid>>

\* --- encoding ------------------------------------------------------------
ContLo == OneByte
ContHi == OneByte + Digits - 1

\* Lead bytes of two and of three bytes follow the continuation bytes.
Lead2 == ContHi + 1
Lead3 == Lead2 + TwoBytes \div Digits
Last3 == Lead3 + MaxRune \div (Digits * Digits)

\* More lead bytes than runes to encode: 0xF5..0xFF.
Bytes == 0..(Last3 + 1)

Digit(n) == ContLo + (n % Digits)

\* The encoding by arithmetic, of surrogates too.
Raw(r) == CASE r < OneByte  -> <<r>>
            [] r < TwoBytes -> <<Lead2 + r \div Digits, Digit(r)>>
            [] OTHER        -> <<Lead3 + r \div (Digits * Digits), Digit(r \div Digits), Digit(r)>>

\* utf8.EncodeRune
EncodeRune(r) == Raw(IF r \in Surrogates THEN RuneError ELSE r)

\* --- byte ranges ---------------------------------------------------------
Under(lo, hi, seqs) == [k \in DOMAIN seqs |-> <<[lo |-> lo, hi |-> hi]>> \o seqs[k]]
Times(b, n)         == [k \in 1..n |-> b]

\* Mutant of Split: no room is left for the bytes between the first and the last.
RECURSIVE SplitEnds(_, _)
SplitEnds(lo, hi) ==
  IF lo = <<>> THEN <<<<>>>>
  ELSE IF Head(lo) = Head(hi) THEN Under(Head(lo), Head(lo), SplitEnds(Tail(lo), Tail(hi)))
  ELSE Under(Head(lo), Head(lo), SplitEnds(Tail(lo), Times(ContHi, Len(lo) - 1)))
       \o Under(Head(hi), Head(hi), SplitEnds(Times(ContLo, Len(lo) - 1), Tail(hi)))

\* The sequences between two of one length: those that share the first byte of
\* lo, those with a byte between the two first bytes, and those of hi.
RECURSIVE Split(_, _)
Split(lo, hi) ==
  LET l == Head(lo)
      h == Head(hi)
      n == Len(lo) - 1
      first  == Under(l, l, Split(Tail(lo), Times(ContHi, n)))
      middle == <<<<[lo |-> l + 1, hi |-> h - 1]>> \o Times([lo |-> ContLo, hi |-> ContHi], n)>>
      last   == Under(h, h, Split(Times(ContLo, n), Tail(hi)))
  IN  CASE lo = <<>> -> <<<<>>>>
        [] l = h     -> Under(l, l, Split(Tail(lo), Tail(hi)))
        [] OTHER     -> first \o (IF l + 1 <= h - 1 THEN middle ELSE <<>>) \o last

MaxRuneForBytes(n) == CASE n = 1 -> OneByte - 1 [] n = 2 -> TwoBytes - 1 [] OTHER -> MaxRune

RECURSIVE RangeToUTF8(_, _)
RangeToUTF8(lo, hi) ==
  LET max == MaxRuneForBytes(Len(EncodeRune(lo)))
  IN  CASE lo > hi -> <<>>
        [] Len(EncodeRune(lo)) = Len(EncodeRune(hi)) -> Split(EncodeRune(lo), EncodeRune(hi))
        [] OTHER -> Split(EncodeRune(lo), EncodeRune(max)) \o RangeToUTF8(max + 1, hi)

\* --- the trie ------------------------------------------------------------
Completed == 0
NewTrie   == <<<<>>>>

AddTransition(t, node, r, next) == [t EXCEPT ![node] = Append(@, [lo |-> r.lo, hi |-> r.hi, next |-> next])]

\* Mutant of Shared: a node is never shared.
SharedNever(t, node, r) == {}

\* The nodes that a range already leads to.
Shared(t, node, r) == {tr.next : tr \in {tr \in Range(t[node]) : tr.lo = r.lo /\ tr.hi = r.hi}} \ {Completed}

NewNode(t) == Len(t) + 1

RECURSIVE AddSequence(_, _, _)
AddSequence(t, node, seq) ==
  LET r      == Head(seq)
      shared == Shared(t, node, r)
      new    == NewNode(t)
  IN  CASE Len(seq) = 1 -> AddTransition(t, node, r, Completed)
        [] shared # {}  -> AddSequence(t, CHOOSE n \in shared : TRUE, Tail(seq))
        [] OTHER        -> AddSequence(AddTransition(Append(t, <<>>), node, r, new), new, Tail(seq))

\* Trie.AddRuneRange
RangeAdded(t, lo, hi) == FoldLeft(LAMBDA acc, seq : AddSequence(acc, 1, seq), t, RangeToUTF8(lo, hi))

\* Bytes that start no rune: continuation bytes, the lead bytes of overlong
\* two-byte forms and those past the last rune.
InvalidRanges == <<[lo |-> ContLo, hi |-> ContHi],
                   [lo |-> Lead2, hi |-> Lead2 + OneByte \div Digits - 1],
                   [lo |-> Last3 + 1, hi |-> Last3 + 1]>>

\* Trie.GetTransitions: the first transition that has the byte, if there is one.
GetTransitions(node, b) ==
  LET fits == {k \in DOMAIN trie[node] : trie[node][k].lo <= b /\ b <= trie[node][k].hi}
  IN  IF fits = {} THEN {} ELSE {trie[node][Min(fits)].next}

\* --- construction --------------------------------------------------------
Init == trie = NewTrie /\ class = <<>> /\ invalid = FALSE

\* The ranges of a class have no rune in common (syntax.Regexp); those of the
\* cases of a folded letter come in any order.  Their ends are no surrogates.
AddRuneRange ==
  /\ ~invalid /\ Len(class) < MaxRanges
  /\ \E lo \in Runes : \E hi \in lo..MaxRune :
       /\ {lo, hi} \cap Surrogates = {}
       /\ \A k \in DOMAIN class : hi < class[k][1] \/ class[k][2] < lo
       /\ trie' = RangeAdded(trie, lo, hi)
       /\ class' = Append(class, <<lo, hi>>)
  /\ UNCHANGED invalid

\* Only for the two dots.
AddInvalidUTF8 ==
  /\ ~invalid /\ class \in {<<<<0, MaxRune>>>>, <<<<0, NL - 1>>, <<NL + 1, MaxRune>>>>}
  /\ trie' = FoldLeft(LAMBDA t, r : AddTransition(t, 1, r, Completed), trie, InvalidRanges)
  /\ invalid' = TRUE
  /\ UNCHANGED class

Next == AddRuneRange \/ AddInvalidUTF8
Spec == Init /\ [][Next]_vars

\* --- properties ----------------------------------------------------------
RECURSIVE Language(_)
Language(node) ==
  IF node = Completed THEN {<<>>}
  ELSE UNION {{<<b>> \o w : w \in Language(next)} : <<b, next>> \in
                UNION {{<<b, next>> : next \in GetTransitions(node, b)} : b \in Bytes}}

\* The runes of the class, surrogates between the ends of a range included.
InClass == {r \in Runes : \E k \in DOMAIN class : class[k][1] <= r /\ r <= class[k][2]}

\* What a walk over the trie accepts are the encodings of the runes of the class
\* and nothing else: no overlong form, no byte past the last rune, and for the
\* dots also each byte that starts no encoding.  A surrogate inside a range
\* counts as a rune here, though EncodeRune knows none.
TrieExact ==
  Language(1) = {Raw(r) : r \in InClass}
                \cup {<<b>> : b \in {b \in Bytes : invalid /\ \A r \in Runes : Head(Raw(r)) # b}}

\* A byte has one way on: GetTransitions stops at the first range that fits, and
\* so must miss nothing behind it, in whatever order ranges were added.
OneWay == \A n \in DOMAIN trie : \A j, k \in DOMAIN trie[n] :
  j # k => trie[n][j].hi < trie[n][k].lo \/ trie[n][k].hi < trie[n][j].lo
=============================================================================
