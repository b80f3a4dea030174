-------------------------------- MODULE Text --------------------------------
(***************************************************************************)
(* The input of a search: a sequence of bytes, and the empty-width         *)
(* conditions that are verified at a position of it.  A position p lies    *)
(* before byte p of the Go slice, so it ranges over 0..Len(text), and the  *)
(* byte that follows it is text[p + 1].                                    *)
(*                                                                         *)
(* Bytes are small numbers: an ASCII byte, a UTF-8 continuation byte or a  *)
(* UTF-8 lead byte with its number of continuation bytes.  Other stands    *)
(* for all the ASCII bytes that no pattern names one by one.               *)
(***************************************************************************)
EXTENDS Integers, Sequences

CONSTANTS
  Ascii,    \* the bytes below 0x80
  NL,       \* '\n'
  Other,    \* the ASCII bytes no pattern tells apart
  Word,     \* [0-9A-Za-z_]
  Cont,     \* the bytes 0x80..0xBF
  LeadLen   \* lead byte |-> number of continuation bytes that follow it

Lead  == DOMAIN LeadLen
Bytes == Ascii \cup Cont \cup Lead

ASSUME TextAssumption ==
  /\ Ascii \subseteq Nat /\ Cont \subseteq Nat /\ Lead \subseteq Nat
  /\ Word \subseteq Ascii /\ NL \in Ascii \ Word /\ Other \in Ascii \ (Word \cup {NL})
  /\ Ascii \cap Cont = {} /\ Ascii \cap Lead = {} /\ Cont \cap Lead = {}
  /\ LeadLen \in [Lead -> 1..3]

\* The number of bytes that follow a lead byte; 0 for any other byte.
GetTrailingByteCount(b) == IF b \in Lead THEN LeadLen[b] ELSE 0

\* syntax.EmptyOp: a set of conditions stands for the bit mask.
Conditions == {"beginText", "beginLine", "endText", "endLine", "word", "noWord"}

ByteBefore(text, p, S) == p > 0 /\ text[p] \in S
ByteAfter(text, p, S)  == p < Len(text) /\ text[p + 1] \in S

VerifyBegin(text, p, req) ==
  \/ p = 0
  \/ "beginLine" \in req /\ ByteBefore(text, p, {NL})

VerifyEnd(text, p, req) ==
  \/ p = Len(text)
  \/ "endText" \in req /\ p = Len(text) - 1 /\ ByteAfter(text, p, {NL})
  \/ "endLine" \in req /\ ByteAfter(text, p, {NL})

VerifyWord(text, p, req) ==
  IF ByteBefore(text, p, Word) # ByteAfter(text, p, Word)
  THEN "word" \in req
  ELSE "noWord" \in req

\* Positions are absolute: p already includes Input.AbsPos.
Verify(text, p, req) ==
  /\ req \cap {"beginText", "beginLine"} # {} => VerifyBegin(text, p, req)
  /\ req \cap {"endText", "endLine"} # {}     => VerifyEnd(text, p, req)
  /\ req \cap {"word", "noWord"} # {}         => VerifyWord(text, p, req)

\* Every lead byte has its continuation bytes, every one of these its lead byte.
ValidUTF8(text) ==
  /\ \A p \in DOMAIN text : text[p] \in Lead =>
       /\ p + LeadLen[text[p]] <= Len(text)
       /\ \A q \in 1..LeadLen[text[p]] : text[p + q] \in Cont
  /\ \A p \in DOMAIN text : text[p] \in Cont =>
       \E q \in 1..(p - 1) : text[q] \in Lead /\ p <= q + LeadLen[text[q]]

TextsUpTo(n) == UNION {[1..k -> Bytes] : k \in 0..n}
=============================================================================
