-------------------------------- MODULE Lanes -------------------------------
(***************************************************************************)
(* The kernels that look at eight bytes at once (ir.Warp, ir.IndexClass):  *)
(* a word is loaded from the text, compared by one subtraction for all its *)
(* lanes, and the loop goes on byte by byte where a word decides nothing.  *)
(* Warp counts the bytes of a class from the front of the text, IndexClass *)
(* looks for the first one.                                                *)
(*                                                                         *)
(* A byte has 2 * Top values (Top is 0x80), a word has Width lanes of one   *)
(* byte (8), and the first byte is in the lowest lane.  Kernels that go    *)
(* byte by byte from the start are their own definition and are left out.  *)
(***************************************************************************)
EXTENDS Integers, Sequences, FiniteSetsExt

CONSTANTS Top, Width, MaxTextLength

ASSUME LanesAssumption == Top \in Nat \ {0} /\ Width \in Nat \ {0} /\ MaxTextLength \in Nat

VARIABLES
  call,    \* "warp" or "index", with the kernel and its bytes V0 and V1
  text,
  pc,      \* "block", "byte" or "done"
  i,
  result

vars == <<call, text, pc, i, result>>

Base  == 2 * Top
Bytes == 0..(Base - 1)
Lanes == 0..(Width - 1)

Kernels(op) == IF op = "warp" THEN {"equal", "range", "asciiAny"} ELSE {"range"}

\* --- words ---------------------------------------------------------------
\* What a 1 in lane k counts.
Place[k \in 0..Width] == IF k = 0 THEN 1 ELSE Base * Place[k - 1]

Lane(w, k)  == (w \div Place[k]) % Base
TopBits(w)  == {k \in Lanes : Lane(w, k) >= Top}
Minus(v, w) == (v - w) % Place[Width]

\* The word with the byte b[k] in lane k, put together from the highest lane on.
Value(b) ==
  LET high[k \in 0..Width] == IF k = 0 THEN 0 ELSE high[k - 1] * Base + b[Width - k]
  IN  high[Width]

\* Mutant of Splat: the constant lacks its last byte.
SplatShort(b) == Value([k \in Lanes |-> IF k = Width - 1 THEN 0 ELSE b])

\* splat, and binary.LittleEndian.Uint64
Splat(b) == Value([k \in Lanes |-> b])
Word     == Value([k \in Lanes |-> text[i + k + 1]])

\* Mutant of Outside: the upper bound is not looked at.
OutsideBelow(w) == TopBits(Minus(w, Splat(call.lo)))

\* The lanes that one subtraction from each side takes to be outside V0..V1.
Outside(w) == TopBits(Minus(w, Splat(call.lo))) \cup TopBits(Minus(Splat(call.hi), w))

\* Mutant of AsciiWord: the high bits of the word are not looked at.
AsciiAlways(w) == TRUE

AsciiWord(w) == TopBits(w) = {}

\* --- the loops -----------------------------------------------------------
\* One byte, by the loop behind the blocks.
Has(b) == CASE call.kernel = "equal"    -> b = call.lo
            [] call.kernel = "range"    -> call.lo <= b /\ b <= call.hi
            [] call.kernel = "asciiAny" -> b < Top

NoCall == [op |-> "none"]

Init == call = NoCall /\ text = <<>> /\ pc = "done" /\ i = 0 /\ result = -1

Call ==
  /\ pc = "done" /\ call = NoCall
  /\ \E op \in {"warp", "index"} : \E kernel \in Kernels(op) : \E lo \in Bytes : \E hi \in lo..(Base - 1) :
       /\ kernel = "equal" => hi = lo
       /\ kernel = "range" => hi < Top      \* both bounds are ASCII
       /\ kernel = "asciiAny" => lo = 0 /\ hi = Top - 1
       /\ call' = [op |-> op, kernel |-> kernel, lo |-> lo, hi |-> hi]
  /\ text' \in UNION {[1..n -> Bytes] : n \in 0..MaxTextLength}
  /\ pc' = "block" /\ i' = 0 /\ result' = -1

Answer(r) == pc' = "done" /\ result' = r /\ UNCHANGED i
Slowly    == pc' = "byte" /\ UNCHANGED <<i, result>>

OnBy(n) == i' = i + n /\ UNCHANGED <<pc, result>>

WholeWords == i + Width <= Len(text)

\* A word, if a whole one is left.  Only the kernel for one byte knows from it
\* where the run ends; the others go on byte by byte.
Block ==
  /\ pc = "block"
  /\ IF ~WholeWords THEN Slowly
     ELSE CASE call.kernel = "equal" ->
                 LET differ == {k \in Lanes : Lane(Word, k) # call.lo}
                 IN  IF differ = {} THEN OnBy(Width) ELSE Answer(i + Min(differ))
            [] call.kernel = "asciiAny" -> IF AsciiWord(Word) THEN OnBy(Width) ELSE Slowly
            [] call.kernel = "range" ->
                 IF AsciiWord(Word) /\ Outside(Word) = (IF call.op = "warp" THEN {} ELSE Lanes)
                 THEN OnBy(Width) ELSE Slowly
  /\ UNCHANGED <<call, text>>

Byte ==
  /\ pc = "byte"
  /\ IF i = Len(text) THEN Answer(IF call.op = "warp" THEN i ELSE -1)
     ELSE IF Has(text[i + 1]) = (call.op = "warp") THEN OnBy(1) ELSE Answer(i)
  /\ UNCHANGED <<call, text>>

Return ==
  /\ pc = "done" /\ call # NoCall
  /\ call' = NoCall /\ text' = <<>> /\ i' = 0 /\ result' = -1 /\ UNCHANGED pc

Next == Call \/ Block \/ Byte \/ Return
Spec == Init /\ [][Next]_vars

\* --- properties ----------------------------------------------------------
Answered(op) == pc = "done" /\ call # NoCall /\ call.op = op

\* The positions (from 0) of the bytes of the class.
Hits == {p \in 0..(Len(text) - 1) : Has(text[p + 1])}

\* Warp ends its run at the first byte that is not in the class, whatever the
\* subtraction carries from one lane into the next.
WarpExact == Answered("warp") =>
  result = Min({Len(text)} \cup ((0..(Len(text) - 1)) \ Hits))

\* IndexClass returns the first byte of the class, and -1 only if there is none
\* ("skip segments of text that cannot possibly start a match").
IndexExact == Answered("index") => result = IF Hits = {} THEN -1 ELSE Min(Hits)

\* What the modules about the search take IndexClass for.
Idx == INSTANCE Index WITH Ascii <- 0..(Top - 1), WordLength <- Width

\* IndexClass returns the first byte of the range that module Index leaves to be
\* found: the words that hide one are those it names and no other, so pass 0 is
\* modelled with the borrows of the code.
IndexFinds ==
  LET found == Idx!Findable(text, 0, call.lo..call.hi, TRUE)
  IN  Answered("index") => result = IF found = {} THEN -1 ELSE Min(found)

\* What IndexClass passes over is at an edge of the range, where the byte
\* before it in the word is at or beyond the same edge and borrows from its
\* lane; whatever lies inside the range ends the search.
MissesOnlyEdges == Answered("index") =>
  /\ result # -1 => result \in Hits
  /\ \A p \in Hits : (result = -1 \/ p < result) =>
       /\ p % Width > 0
       /\ \/ text[p + 1] = call.lo /\ text[p] <= call.lo
          \/ text[p + 1] = call.hi /\ text[p] >= call.hi
=============================================================================
