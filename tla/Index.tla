--------------------------------- MODULE Index -------------------------------
(***************************************************************************)
(* What ir.IndexClass finds where pass 0 calls it on a range of ASCII      *)
(* bytes: every word in front of the first byte of the range is compared   *)
(* by one subtraction from each side, and a lane next to one that borrows  *)
(* is taken to be outside the range when its byte is the bound.  Module    *)
(* Lanes has the subtraction; here is what it comes to for ASCII bytes.    *)
(*                                                                         *)
(* Positions are counted from 0, and S holds the bytes of the range.       *)
(***************************************************************************)
EXTENDS Integers, Sequences

CONSTANTS
  Ascii,       \* the bytes below 0x80
  WordLength   \* the bytes of a word: 8

\* A byte before byte k of the word at w, or byte k itself, is below the range,
\* and all bytes after it, up to byte k, are the lower bound; from the other side
\* alike.
Below(text, w, k, S) ==
  \E j \in 0..k : /\ \A b \in S : text[w + j + 1] < b
                  /\ \A n \in (j + 1)..k : text[w + n + 1] \in S /\ \A b \in S : text[w + n + 1] <= b
Above(text, w, k, S) ==
  \E j \in 0..k : /\ \A b \in S : text[w + j + 1] > b
                  /\ \A n \in (j + 1)..k : text[w + n + 1] \in S /\ \A b \in S : text[w + n + 1] >= b

\* No lane of the word at w is taken to be inside the range.
PassedOver(text, w, S) ==
  /\ w + WordLength <= Len(text)
  /\ \A k \in 0..(WordLength - 1) :
       text[w + k + 1] \in Ascii /\ (Below(text, w, k, S) \/ Above(text, w, k, S))

\* The loop over words that starts at p passes over the word that q is in.
Lost(text, p, q, S) ==
  \E n \in 0..(q - p) :
    /\ p + n * WordLength <= q /\ q < p + n * WordLength + WordLength
    /\ \A m \in 0..n : PassedOver(text, p + m * WordLength, S)

\* The places of bytes of S that a search from p can return; it returns the
\* first.  Kernels that go byte by byte lose none.
Findable(text, p, S, words) ==
  {q \in p..(Len(text) - 1) : text[q + 1] \in S /\ ~(words /\ Lost(text, p, q, S))}

\* No word of the text, wherever it is loaded from, hides a byte of S.
HidesNone(text, S) ==
  \A w \in 0..Len(text) : PassedOver(text, w, S) =>
    \A k \in 0..(WordLength - 1) : text[w + k + 1] \notin S
=============================================================================
