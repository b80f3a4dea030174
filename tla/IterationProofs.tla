---------------------------- MODULE IterationProofs ---------------------------
(***************************************************************************)
(* What holds of the loops of Iteration for texts of every length, for     *)
(* runes of every width and for every matcher.                             *)
(***************************************************************************)
EXTENDS Iteration, SequenceTheorems, TLAPS

\* Where the loops are when they have work to do, and what they have done.
PhaseInv ==
  /\ pc = "call" => delivered = <<>> /\ pieces = <<>> /\ pos = 0 /\ count = 0 /\ from = 0
  /\ pc # "call" => n = IF limit < 0 THEN length + 1 ELSE limit
  /\ pc = "find" => pieces = <<>> /\ from = 0 /\ op # "replaceAll" /\ (op = "split" => n > 0)
  /\ pc = "cut" => op = "split" /\ n > 0
  /\ pc = "replace" => op = "replaceAll" /\ pieces = <<>>

\* Every delivered match ends at pos or before it, so that the next one, which
\* starts at pos or after it, cannot overlap any of them.
OrderInv ==
  /\ \A k \in DOMAIN delivered : delivered[k][1] <= delivered[k][2] /\ delivered[k][2] <= pos
  /\ InOrder

\* Every turn but the last delivers one match and moves pos by one or more.
CountInv ==
  /\ pc = "find" => count = Len(delivered) /\ count <= n /\ count <= pos /\ pos <= length
  /\ pc # "call" /\ op # "replaceAll" => Len(delivered) <= n

\* Split resumes where the match before the next piece ended.
SplitInv ==
  /\ pc = "cut" => /\ Len(pieces) <= Len(delivered) /\ Len(pieces) < n
                   /\ from = IF pieces = <<>> THEN 0 ELSE delivered[Len(pieces)][2]
  /\ SlicesValid
  /\ limit >= 0 => Len(pieces) <= limit

IInv == TypeOK /\ PhaseInv /\ OrderInv /\ CountInv /\ SplitInv

\* A match set is a function on positions whose values are not before them.
LEMMA MatchSetsType ==
  ASSUME NEW len \in Nat, NEW e \in MatchSets(len)
  PROVE  /\ DOMAIN e \subseteq 0..len
         /\ \A s \in DOMAIN e : e[s] \in 0..len /\ s <= e[s]
<1>1. PICK S \in SUBSET (0..len) : e \in {f \in [S -> 0..len] : \A s \in S : s <= f[s]}
  BY DEF MatchSets
<1> QED BY <1>1

\* A loop that is not stopped moves on by at least one position.
LEMMA AdvanceType ==
  ASSUME TypeOK, NEW e \in 0..length
  PROVE  Advance(e) \in Nat /\ Advance(e) > 0 /\ pos + Advance(e) >= e
<1>1. pos \in Nat /\ e \in Nat /\ (pos < length => trailing[pos] \in Nat)
  BY IterationAssumption DEF TypeOK
<1> QED BY <1>1 DEF Advance

\* The matches delivered so far, and one more found from pos on, are in order.
LEMMA DeliverInOrder ==
  ASSUME TypeOK, OrderInv, NEW s \in Starts, NEW q \in Nat, q >= pos, q >= ends[s],
         delivered' = Append(delivered, <<s, ends[s]>>)
  PROVE  /\ delivered' \in Seq(Span) /\ Len(delivered') = Len(delivered) + 1
         /\ \A k \in DOMAIN delivered' : delivered'[k][1] <= delivered'[k][2] /\ delivered'[k][2] <= q
         /\ \A j, k \in DOMAIN delivered' : j < k => delivered'[j][2] <= delivered'[k][1]
<1>1. s \in 0..length /\ ends[s] \in 0..length /\ s <= ends[s] /\ pos <= s
  BY MatchSetsType DEF TypeOK, Starts
<1>2. <<s, ends[s]>> \in Span
  BY <1>1 DEF Span
<1>3. delivered \in Seq(Span)
  BY DEF TypeOK
<1>4. delivered' \in Seq(Span) /\ Len(delivered') = Len(delivered) + 1
  BY <1>2, <1>3
<1>5. /\ \A k \in 1..Len(delivered) : delivered'[k] = delivered[k]
      /\ delivered'[Len(delivered) + 1] = <<s, ends[s]>>
      /\ DOMAIN delivered' = 1..(Len(delivered) + 1) /\ DOMAIN delivered = 1..Len(delivered)
  BY <1>2, <1>3
<1>6. \A k \in DOMAIN delivered : delivered[k][1] \in Int /\ delivered[k][2] \in Int
  <2>1. \A k \in DOMAIN delivered : delivered[k] \in Span
    BY <1>3, <1>5
  <2>2. Span \subseteq Int \X Int
    BY DEF Span, TypeOK
  <2> QED BY <2>1, <2>2
<1>7. pos \in Nat
  BY DEF TypeOK
<1>8. \A k \in DOMAIN delivered' : delivered'[k][1] <= delivered'[k][2] /\ delivered'[k][2] <= q
  <2> SUFFICES ASSUME NEW k \in DOMAIN delivered'
               PROVE  delivered'[k][1] <= delivered'[k][2] /\ delivered'[k][2] <= q
    OBVIOUS
  <2>1. CASE k = Len(delivered) + 1
    BY <2>1, <1>1, <1>5
  <2>2. CASE k \in DOMAIN delivered
    BY <2>2, <1>5, <1>6, <1>7 DEF OrderInv
  <2> QED BY <2>1, <2>2, <1>3, <1>5
<1>9. ASSUME NEW j \in DOMAIN delivered', NEW k \in DOMAIN delivered', j < k
      PROVE  delivered'[j][2] <= delivered'[k][1]
  <2>1. j \in DOMAIN delivered
    BY <1>3, <1>5, <1>9
  <2>2. CASE k = Len(delivered) + 1
    BY <2>1, <2>2, <1>1, <1>5, <1>6, <1>7 DEF OrderInv
  <2>3. CASE k \in DOMAIN delivered
    BY <2>1, <2>3, <1>5, <1>9 DEF OrderInv, InOrder
  <2> QED BY <2>2, <2>3, <1>3, <1>5
<1> QED BY <1>4, <1>8, <1>9

\* Before its call, a loop has delivered and cut nothing.
LEMMA InitInv == Init => IInv
<1> SUFFICES ASSUME Init PROVE IInv
  OBVIOUS
<1> USE DEF Init
<1>1. TypeOK
  BY IterationAssumption DEF TypeOK, Span
<1>2. PhaseInv /\ CountInv
  BY DEF PhaseInv, CountInv
<1>3. OrderInv /\ SplitInv
  BY DEF OrderInv, InOrder, SplitInv, SlicesValid
<1> QED BY <1>1, <1>2, <1>3 DEF IInv

\* The call fixes n and enters the loop of its operation.
LEMMA CallInv == IInv /\ Call => IInv'
<1> SUFFICES ASSUME IInv, Call PROVE IInv'
  OBVIOUS
<1> USE DEF IInv, Call, textVars
<1>1. TypeOK'
  BY DEF TypeOK, Span
<1>2. PhaseInv'
  BY DEF PhaseInv, TypeOK, Ops
<1>3. OrderInv'
  BY DEF OrderInv, InOrder
<1>4. CountInv'
  BY DEF CountInv, PhaseInv, TypeOK, Ops
<1>5. SplitInv'
  BY DEF SplitInv, SlicesValid, PhaseInv
<1> QED BY <1>1, <1>2, <1>3, <1>4, <1>5

\* The end of the loop of FindAll, whatever ended it: Split goes on.
LEMMA EndInv ==
  ASSUME IInv, LimitReached \/ FindNone
  PROVE  IInv'
<1> USE DEF IInv, LimitReached, FindNone, EndFind, textVars, argVars
<1>1. TypeOK'
  BY DEF TypeOK, Span
<1>2. PhaseInv'
  BY DEF PhaseInv
<1>3. OrderInv'
  BY DEF OrderInv, InOrder
<1>4. CountInv'
  BY DEF CountInv
<1>5. SplitInv'
  BY DEF SplitInv, SlicesValid, PhaseInv, TypeOK
<1> QED BY <1>1, <1>2, <1>3, <1>4, <1>5

\* A turn of all: the match found is in order, is counted, and pos passes it.
LEMMA FindNextInv == IInv /\ FindNext => IInv'
<1> SUFFICES ASSUME IInv, FindNext PROVE IInv'
  OBVIOUS
<1>1. PICK s \in Starts :
        /\ delivered' = Append(delivered, <<s, ends[s]>>)
        /\ IF pos >= length
           THEN EndFind /\ UNCHANGED <<pos, count>>
           ELSE /\ pos' = pos + Advance(ends[s])
                /\ IF pos' > length
                   THEN EndFind /\ UNCHANGED count
                   ELSE count' = count + 1 /\ UNCHANGED pc
  BY DEF FindNext
<1>2. pc = "find" /\ count < n /\ UNCHANGED <<textVars, argVars, dst, from, pieces>>
  BY DEF FindNext
<1>3. s \in 0..length /\ ends[s] \in 0..length /\ s <= ends[s] /\ pos <= s
  BY MatchSetsType DEF IInv, TypeOK, Starts
<1>4. Advance(ends[s]) \in Nat /\ Advance(ends[s]) > 0 /\ pos + Advance(ends[s]) >= ends[s]
  BY <1>3, AdvanceType DEF IInv
<1>5. pos' \in Nat /\ pos' >= pos /\ pos' >= ends[s] /\ count' \in Nat
  <2>1. pos \in Nat /\ count \in Nat /\ length \in Nat
    BY DEF IInv, TypeOK
  <2>2. CASE pos >= length
    BY <2>1, <2>2, <1>1, <1>3
  <2>3. CASE ~(pos >= length)
    <3>1. pos' = pos + Advance(ends[s]) /\ (count' = count \/ count' = count + 1)
      BY <2>3, <1>1
    <3> QED BY <2>1, <3>1, <1>3, <1>4
  <2> QED BY <2>2, <2>3
<1>6. /\ delivered' \in Seq(Span) /\ Len(delivered') = Len(delivered) + 1
      /\ \A k \in DOMAIN delivered' : delivered'[k][1] <= delivered'[k][2] /\ delivered'[k][2] <= pos'
      /\ \A j, k \in DOMAIN delivered' : j < k => delivered'[j][2] <= delivered'[k][1]
  BY <1>1, <1>5, DeliverInOrder DEF IInv
<1>7. pc' \in {"find", "cut", "done"} /\ (pc' = "cut" => op = "split")
  BY <1>1, <1>2 DEF EndFind
<1>8. TypeOK'
  BY <1>2, <1>5, <1>6, <1>7 DEF IInv, TypeOK, Span, textVars, argVars
<1>9. PhaseInv'
  BY <1>2, <1>7 DEF IInv, PhaseInv, textVars, argVars
<1>10. OrderInv'
  BY <1>6 DEF OrderInv, InOrder
<1>11. CountInv'
  <2>1. count = Len(delivered) /\ count <= pos /\ n \in Nat /\ count \in Nat /\ pos \in Nat /\ length \in Nat
    BY <1>2 DEF IInv, CountInv, TypeOK
  <2>2. Len(delivered') <= n'
    BY <1>2, <1>6, <2>1 DEF argVars
  <2>3. ASSUME pc' = "find"
        PROVE  count' = Len(delivered') /\ count' <= n' /\ count' <= pos' /\ pos' <= length'
    <3>1. count' = count + 1 /\ pos' = pos + Advance(ends[s]) /\ ~(pos' > length)
      BY <1>1, <1>2, <2>3 DEF EndFind
    <3> QED BY <1>2, <1>4, <1>5, <1>6, <2>1, <3>1 DEF textVars, argVars
  <2> QED BY <2>2, <2>3 DEF CountInv
<1>12. SplitInv'
  <2>1. pieces = <<>> /\ from = 0 /\ (op = "split" => n > 0) /\ n \in Nat
    BY <1>2 DEF IInv, PhaseInv, TypeOK
  <2> QED BY <1>2, <1>6, <1>7, <2>1 DEF IInv, SplitInv, SlicesValid, TypeOK, textVars, argVars
<1> QED BY <1>8, <1>9, <1>10, <1>11, <1>12 DEF IInv

\* A turn of Split cuts up to the next match, which starts at from or later.
LEMMA CutInv ==
  ASSUME IInv, Cut
  PROVE  IInv'
<1>1. /\ pieces' = Append(pieces, <<from, delivered[Len(pieces) + 1][1]>>)
      /\ from' = delivered[Len(pieces) + 1][2]
      /\ UNCHANGED <<textVars, argVars, pc, pos, count, delivered, dst>>
      /\ pc = "cut" /\ Len(pieces) # Len(delivered) /\ Len(pieces) # n - 1
  BY DEF Cut, CutAll
<1>2. delivered \in Seq(Span) /\ pieces \in Seq(Span) /\ n \in Nat /\ length \in Nat /\ from \in 0..length
  BY DEF IInv, TypeOK
<1>3. Len(pieces) < Len(delivered) /\ Len(pieces) + 1 < n
  BY <1>1, <1>2 DEF IInv, SplitInv
<1>4. Len(pieces) + 1 \in DOMAIN delivered
  BY <1>2, <1>3
<1>5. delivered[Len(pieces) + 1][1] \in 0..length /\ delivered[Len(pieces) + 1][2] \in 0..length
  BY <1>2, <1>4 DEF Span
<1>6. from <= delivered[Len(pieces) + 1][1]
  <2>1. CASE pieces = <<>>
    BY <2>1, <1>1, <1>5 DEF IInv, SplitInv
  <2>2. CASE pieces # <<>>
    <3>1. Len(pieces) \in DOMAIN delivered /\ Len(pieces) < Len(pieces) + 1
      BY <2>2, <1>2, <1>3
    <3>2. delivered[Len(pieces)][2] <= delivered[Len(pieces) + 1][1]
      BY <3>1, <1>4 DEF IInv, OrderInv, InOrder
    <3> QED BY <2>2, <3>2, <1>1 DEF IInv, SplitInv
  <2> QED BY <2>1, <2>2
<1>7. <<from, delivered[Len(pieces) + 1][1]>> \in Span
  BY <1>2, <1>5 DEF Span
<1>8. /\ pieces' \in Seq(Span) /\ Len(pieces') = Len(pieces) + 1 /\ pieces' # <<>>
      /\ DOMAIN pieces' = 1..(Len(pieces) + 1)
      /\ \A k \in 1..Len(pieces) : pieces'[k] = pieces[k]
      /\ pieces'[Len(pieces) + 1] = <<from, delivered[Len(pieces) + 1][1]>>
  BY <1>1, <1>2, <1>7
<1>9. TypeOK'
  BY <1>1, <1>5, <1>8 DEF IInv, TypeOK, Span, textVars, argVars
<1>10. PhaseInv' /\ CountInv'
  BY <1>1 DEF IInv, PhaseInv, CountInv, textVars, argVars
<1>11. OrderInv'
  BY <1>1 DEF IInv, OrderInv, InOrder
<1>12. SplitInv'
  <2>1. SlicesValid'
    <3>1. SlicesValid /\ DOMAIN pieces = 1..Len(pieces) /\ Len(pieces) \in Nat
      BY <1>2 DEF IInv, SplitInv
    <3>2. pieces'[Len(pieces) + 1][1] <= pieces'[Len(pieces) + 1][2]
      BY <1>6, <1>8
    <3>3. \A k \in DOMAIN pieces' : k \in DOMAIN pieces \/ k = Len(pieces) + 1
      BY <1>8, <3>1
    <3> QED BY <1>8, <3>1, <3>2, <3>3 DEF SlicesValid
  <2>2. limit >= 0 => n = limit
    BY <1>1 DEF IInv, PhaseInv, TypeOK
  <2> QED BY <2>1, <2>2, <1>1, <1>2, <1>3, <1>8 DEF SplitInv, textVars, argVars
<1> QED BY <1>9, <1>10, <1>11, <1>12 DEF IInv

\* The last piece of a split runs to the end of the text and fits the limit.
LEMMA CutRestInv ==
  ASSUME IInv, CutRest
  PROVE  IInv'
<1>1. /\ pieces' = Append(pieces, <<from, length>>) /\ pc = "cut" /\ pc' = "done"
      /\ UNCHANGED <<textVars, argVars, pos, count, delivered, dst, from>>
  BY DEF CutRest
<1>2. pieces \in Seq(Span) /\ n \in Nat /\ length \in Nat /\ from \in 0..length
  BY DEF IInv, TypeOK
<1>3. <<from, length>> \in Span
  BY <1>2 DEF Span
<1>4. /\ pieces' \in Seq(Span) /\ Len(pieces') = Len(pieces) + 1
      /\ DOMAIN pieces' = 1..(Len(pieces) + 1)
      /\ \A k \in 1..Len(pieces) : pieces'[k] = pieces[k]
      /\ pieces'[Len(pieces) + 1] = <<from, length>>
  BY <1>1, <1>2, <1>3
<1>5. TypeOK'
  BY <1>1, <1>4 DEF IInv, TypeOK, Span, textVars, argVars
<1>6. PhaseInv' /\ CountInv'
  BY <1>1 DEF IInv, PhaseInv, CountInv, textVars, argVars
<1>7. OrderInv'
  BY <1>1 DEF IInv, OrderInv, InOrder
<1>8. SplitInv'
  <2>1. SlicesValid'
    BY <1>2, <1>4 DEF IInv, SplitInv, SlicesValid
  <2>2. limit >= 0 => n = limit
    BY <1>1 DEF IInv, PhaseInv, TypeOK
  <2>3. Len(pieces) < n
    BY <1>1 DEF IInv, SplitInv
  <2> QED BY <2>1, <2>2, <2>3, <1>1, <1>2, <1>4 DEF SplitInv, textVars, argVars
<1> QED BY <1>5, <1>6, <1>7, <1>8 DEF IInv

Output == [src : BOOLEAN, at : 0..length]

\* A copied slice of src is a sequence of its positions.
LEMMA BytesType ==
  ASSUME length \in Nat, NEW p \in 0..length, NEW q \in 0..length, p <= q
  PROVE  Bytes(p, q) \in Seq(Output)
<1>1. q - p \in Nat
  OBVIOUS
<1>2. \A k \in 1..(q - p) : p + k - 1 \in 0..length
  OBVIOUS
<1>3. \A k \in 1..(q - p) : Src(p + k - 1) \in Output
  BY <1>2 DEF Src, Output
<1>4. \A m \in Nat : [1..m -> Output] \subseteq Seq(Output)
  OBVIOUS
<1>5. Bytes(p, q) \in [1..(q - p) -> Output]
  BY <1>3 DEF Bytes
<1> QED BY <1>1, <1>4, <1>5

\* A turn of replaceAll: the match replaced is in order and pos passes it.
LEMMA ReplaceNextInv ==
  ASSUME IInv, ReplaceNext
  PROVE  IInv'
<1>1. PICK s \in Starts :
        /\ delivered' = Append(delivered, <<s, ends[s]>>)
        /\ LET out == dst \o Bytes(pos, s) \o <<Repl(s)>>
           IN  IF ends[s] > pos
               THEN dst' = out /\ pos' = ends[s] /\ UNCHANGED pc
               ELSE IF pos < length
               THEN dst' = Append(out, Src(pos)) /\ pos' = pos + Advance(ends[s]) /\ UNCHANGED pc
               ELSE dst' = out /\ pos' = length + 1 /\ pc' = "done"
  BY DEF ReplaceNext
<1>2. pc = "replace" /\ pos <= length /\ UNCHANGED <<textVars, argVars, count, from, pieces>>
  BY DEF ReplaceNext
<1>3. s \in 0..length /\ ends[s] \in 0..length /\ s <= ends[s] /\ pos <= s
  BY MatchSetsType DEF IInv, TypeOK, Starts
<1>4. Advance(ends[s]) \in Nat /\ Advance(ends[s]) > 0 /\ pos + Advance(ends[s]) >= ends[s]
  BY <1>3, AdvanceType DEF IInv
<1>5. pos \in Nat /\ length \in Nat /\ pos \in 0..length /\ dst \in Seq(Output)
  BY <1>2 DEF IInv, TypeOK, Output
<1>6. pos' \in Nat /\ pos' >= ends[s] /\ pc' \in {"replace", "done"}
  <2>1. CASE ends[s] > pos
    BY <2>1, <1>1, <1>2, <1>3
  <2>2. CASE ~(ends[s] > pos) /\ pos < length
    BY <2>2, <1>1, <1>2, <1>4, <1>5
  <2>3. CASE ~(ends[s] > pos) /\ ~(pos < length)
    BY <2>3, <1>1, <1>3, <1>5
  <2> QED BY <2>1, <2>2, <2>3
<1>7. pos' >= pos
  BY <1>3, <1>5, <1>6
<1>8. /\ delivered' \in Seq(Span) /\ Len(delivered') = Len(delivered) + 1
      /\ \A k \in DOMAIN delivered' : delivered'[k][1] <= delivered'[k][2] /\ delivered'[k][2] <= pos'
      /\ \A j, k \in DOMAIN delivered' : j < k => delivered'[j][2] <= delivered'[k][1]
  BY <1>1, <1>6, <1>7, DeliverInOrder DEF IInv
<1>9. dst' \in Seq(Output)
  <2>1. Bytes(pos, s) \in Seq(Output)
    BY <1>3, <1>5, BytesType
  <2>2. Repl(s) \in Output /\ Src(pos) \in Output
    BY <1>3, <1>5 DEF Repl, Src, Output
  <2> DEFINE out == dst \o Bytes(pos, s) \o <<Repl(s)>>
  <2>3. out \in Seq(Output)
    BY <2>1, <2>2, <1>5
  <2>4. dst' = out \/ dst' = Append(out, Src(pos))
    BY <1>1
  <2> HIDE DEF out
  <2> QED BY <2>2, <2>3, <2>4
<1>10. TypeOK'
  BY <1>2, <1>6, <1>8, <1>9 DEF IInv, TypeOK, Span, Output, textVars, argVars
<1>11. PhaseInv' /\ CountInv'
  BY <1>2, <1>6 DEF IInv, PhaseInv, CountInv, textVars, argVars
<1>12. OrderInv'
  BY <1>8 DEF OrderInv, InOrder
<1>13. SplitInv'
  BY <1>2, <1>6 DEF IInv, SplitInv, SlicesValid, textVars, argVars
<1> QED BY <1>10, <1>11, <1>12, <1>13 DEF IInv

\* The end of replaceAll only copies the rest of the text.
LEMMA ReplaceEndInv ==
  ASSUME IInv, ReplaceEnd
  PROVE  IInv'
<1>1. /\ dst' = (IF pos <= length THEN dst \o Bytes(pos, length) ELSE dst)
      /\ pc = "replace" /\ pc' = "done"
      /\ UNCHANGED <<textVars, argVars, pos, count, delivered, from, pieces>>
  BY DEF ReplaceEnd
<1>2. length \in Nat /\ pos \in Nat /\ dst \in Seq(Output)
  BY DEF IInv, TypeOK, Output
<1>3. dst' \in Seq(Output)
  <2>1. CASE pos <= length
    <3>1. Bytes(pos, length) \in Seq(Output)
      BY <2>1, <1>2, BytesType
    <3> QED BY <2>1, <3>1, <1>1, <1>2
  <2>2. CASE ~(pos <= length)
    BY <2>2, <1>1, <1>2
  <2> QED BY <2>1, <2>2
<1>4. TypeOK'
  BY <1>1, <1>3 DEF IInv, TypeOK, Span, Output, textVars, argVars
<1>5. PhaseInv' /\ CountInv'
  BY <1>1 DEF IInv, PhaseInv, CountInv, textVars, argVars
<1>6. OrderInv'
  BY <1>1 DEF IInv, OrderInv, InOrder
<1>7. SplitInv'
  BY <1>1 DEF IInv, SplitInv, SlicesValid, textVars, argVars
<1> QED BY <1>4, <1>5, <1>6, <1>7 DEF IInv

\* A step that changes nothing keeps the invariant.
LEMMA StutterInv ==
  ASSUME IInv, UNCHANGED vars
  PROVE  IInv'
<1>1. TypeOK' /\ PhaseInv' /\ CountInv'
  BY DEF IInv, TypeOK, Span, PhaseInv, CountInv, vars, textVars, argVars
<1>2. OrderInv' /\ SplitInv'
  BY DEF IInv, OrderInv, InOrder, SplitInv, SlicesValid, vars, textVars, argVars
<1> QED BY <1>1, <1>2 DEF IInv

\* The strengthened invariant holds of every behaviour of the loops.
THEOREM Inductive == Spec => []IInv
<1>1. Init => IInv
  BY InitInv
<1>2. IInv /\ [Next]_vars => IInv'
  <2> SUFFICES ASSUME IInv, [Next]_vars PROVE IInv'
    OBVIOUS
  <2>1. CASE Call
    BY <2>1, CallInv
  <2>2. CASE LimitReached \/ FindNone
    BY <2>2, EndInv
  <2>3. CASE FindNext
    BY <2>3, FindNextInv
  <2>4. CASE Cut
    BY <2>4, CutInv
  <2>5. CASE CutRest
    BY <2>5, CutRestInv
  <2>6. CASE ReplaceNext
    BY <2>6, ReplaceNextInv
  <2>7. CASE ReplaceEnd
    BY <2>7, ReplaceEndInv
  <2>8. CASE Done \/ UNCHANGED vars
    BY <2>8, StutterInv DEF Done
  <2> QED BY <2>1, <2>2, <2>3, <2>4, <2>5, <2>6, <2>7, <2>8 DEF Next
<1> QED BY <1>1, <1>2, PTL DEF Spec

\* The variables of the loops keep their types; in particular every delivered
\* position lies in the text (all, Split, replaceAll).
THEOREM TypeCorrect == Spec => []TypeOK
<1>1. IInv => TypeOK
  BY DEF IInv
<1> QED BY <1>1, Inductive, PTL

\* Matches are delivered and replaced in the order of the text and never
\* overlap, whatever the pattern, the text and the limit.
THEOREM DeliveredInOrder == Spec => []InOrder
<1>1. IInv => InOrder
  BY DEF IInv, OrderInv
<1> QED BY <1>1, Inductive, PTL

\* The limit len(b) + 1 that stands for "no limit" never ends the loop.
THEOREM NoLimitIsNoLimit == Spec => []UnlimitedIsNeverCut
<1>1. IInv => UnlimitedIsNeverCut
  BY DEF IInv, TypeOK, PhaseInv, CountInv, UnlimitedIsNeverCut
<1> QED BY <1>1, Inductive, PTL

\* A limit bounds the matches delivered and the pieces of a split.
THEOREM LimitIsKept == Spec => []LimitHolds
<1>1. IInv => LimitHolds
  <2> SUFFICES ASSUME IInv, limit >= 0, op # "replaceAll" PROVE Len(delivered) <= limit
    BY DEF IInv, SplitInv, LimitHolds
  <2>1. CASE pc = "call"
    BY <2>1 DEF IInv, PhaseInv, TypeOK
  <2>2. CASE pc # "call"
    BY <2>2 DEF IInv, PhaseInv, CountInv, TypeOK
  <2> QED BY <2>1, <2>2
<1> QED BY <1>1, Inductive, PTL

\* Split never slices its text out of order.
THEOREM SplitSlicesInOrder == Spec => []SlicesValid
<1>1. IInv => SlicesValid
  BY DEF IInv, SplitInv
<1> QED BY <1>1, Inductive, PTL

\* --- nothing is skipped --------------------------------------------------
\* Every start before pos is covered while the loop runs.
CoverInv ==
  /\ pc \in {"find", "replace"} => \A t \in DOMAIN ends : t < pos => Covered(t)
  /\ NothingSkipped

\* A start that was covered stays covered, and the match just delivered covers
\* the starts from pos on, as far as the loop moves.
LEMMA CoverStep ==
  ASSUME IInv, CoverInv, pc \in {"find", "replace"}, UNCHANGED textVars,
         NEW s \in Starts, Find(s), delivered' = Append(delivered, <<s, ends[s]>>),
         NEW q \in Nat, q = pos + Advance(ends[s]),
         NEW t \in DOMAIN ends, t < q \/ t = pos, pos <= length
  PROVE  Covered(t)'
<1>1. s \in 0..length /\ ends[s] \in 0..length /\ s <= ends[s] /\ pos <= s /\ t \in 0..length
  BY MatchSetsType DEF IInv, TypeOK, Starts
<1>2. pos \in Nat /\ length \in Nat /\ delivered \in Seq(Span)
  BY DEF IInv, TypeOK
<1>3. <<s, ends[s]>> \in Span
  BY <1>1 DEF Span
<1>4. /\ \A k \in DOMAIN delivered : k \in DOMAIN delivered' /\ delivered'[k] = delivered[k]
      /\ Len(delivered) + 1 \in DOMAIN delivered'
      /\ delivered'[Len(delivered) + 1] = <<s, ends[s]>>
  BY <1>2, <1>3
<1>5. CASE t < pos
  <2>1. Covered(t)
    BY <1>5 DEF CoverInv
  <2>2. PICK k \in DOMAIN delivered :
          LET m == delivered[k]
          IN  \/ m[1] <= t /\ t < m[2]
              \/ m[1] = t
              \/ m[1] = m[2] /\ m[1] < t /\ t <= m[1] + trailing[m[1]]
    BY <2>1 DEF Covered
  <2>3. k \in DOMAIN delivered' /\ delivered'[k] = delivered[k] /\ trailing' = trailing
    BY <1>4 DEF textVars
  <2> QED BY <2>2, <2>3 DEF Covered
<1>6. CASE ~(t < pos)
  <2>1. s <= t
    BY <1>1, <1>2, <1>6 DEF Find, Starts
  <2> DEFINE m == delivered'[Len(delivered) + 1]
  <2>2. m[1] = s /\ m[2] = ends[s]
    BY <1>4
  <2>3. \/ s <= t /\ t < ends[s]
        \/ s = t
        \/ s = ends[s] /\ s < t /\ t <= s + trailing[s]
    <3>1. CASE ends[s] > pos
      <4>1. Advance(ends[s]) = ends[s] - pos
        BY <3>1, <1>1, <1>2 DEF Advance
      <4>2. q = ends[s]
        BY <4>1, <1>1, <1>2
      <4> QED BY <4>2, <2>1, <1>1, <1>2, <1>6
    <3>2. CASE ~(ends[s] > pos)
      <4>1. s = pos /\ ends[s] = pos
        BY <3>2, <1>1, <1>2
      <4>2. Advance(ends[s]) = 1 + (IF pos < length THEN trailing[pos] ELSE 0)
        BY <4>1, <1>2 DEF Advance
      <4>3. CASE pos < length
        <5>1. trailing[pos] \in Nat
          BY <4>3, <1>2, IterationAssumption DEF IInv, TypeOK
        <5> QED BY <4>1, <4>2, <4>3, <5>1, <2>1, <1>1, <1>2
      <4>4. CASE ~(pos < length)
        BY <4>1, <4>2, <4>4, <2>1, <1>1, <1>2
      <4> QED BY <4>3, <4>4
    <3> QED BY <3>1, <3>2
  <2>4. Len(delivered) + 1 \in DOMAIN delivered' /\ trailing' = trailing
    BY <1>4 DEF textVars
  <2> HIDE DEF m
  <2> QED BY <2>2, <2>3, <2>4 DEF Covered, m
<1> QED BY <1>5, <1>6

\* A turn of all covers every start that pos leaves behind.
LEMMA FindNextCover ==
  ASSUME IInv, CoverInv, FindNext
  PROVE  CoverInv'
<1>1. PICK s \in Starts :
        /\ Find(s)
        /\ delivered' = Append(delivered, <<s, ends[s]>>)
        /\ IF pos >= length
           THEN EndFind /\ UNCHANGED <<pos, count>>
           ELSE /\ pos' = pos + Advance(ends[s])
                /\ IF pos' > length
                   THEN EndFind /\ UNCHANGED count
                   ELSE count' = count + 1 /\ UNCHANGED pc
  BY DEF FindNext
<1>2. pc = "find" /\ UNCHANGED <<textVars, argVars, dst, from, pieces>>
  BY DEF FindNext
<1>3. pos <= length /\ pos \in Nat /\ length \in Nat /\ ends[s] \in 0..length
  BY <1>2, MatchSetsType DEF IInv, CountInv, TypeOK, Starts
<1>4. pos + Advance(ends[s]) \in Nat
  BY <1>3, AdvanceType DEF IInv
<1>5. \A t \in DOMAIN ends : t < pos + Advance(ends[s]) \/ t = pos => Covered(t)'
  BY <1>1, <1>2, <1>3, <1>4, CoverStep
<1>6. DOMAIN ends \subseteq 0..length /\ ends' = ends
  BY <1>2, MatchSetsType DEF IInv, TypeOK, textVars
<1>7. CASE pos >= length
  <2>1. \A t \in DOMAIN ends : Covered(t)'
    <3> SUFFICES ASSUME NEW t \in DOMAIN ends PROVE Covered(t)'
      OBVIOUS
    <3>1. t <= pos /\ t \in Nat
      BY <1>3, <1>6, <1>7
    <3>2. t < pos + Advance(ends[s]) \/ t = pos
      BY <3>1, <1>3, AdvanceType DEF IInv
    <3> QED BY <3>2, <1>5
  <2>2. pc' \in {"cut", "done"}
    BY <1>1, <1>7 DEF EndFind
  <2> QED BY <2>1, <2>2, <1>6 DEF CoverInv, NothingSkipped
<1>8. CASE ~(pos >= length)
  <2>1. \A t \in DOMAIN ends : t < pos' => Covered(t)'
    BY <1>1, <1>5, <1>8
  <2>2. pc' = "done" => pos' > length
    BY <1>1, <1>2, <1>8 DEF EndFind
  <2>3. pos' > length => \A t \in DOMAIN ends : t < pos'
    BY <1>1, <1>3, <1>4, <1>6, <1>8
  <2> QED BY <2>1, <2>2, <2>3, <1>6 DEF CoverInv, NothingSkipped
<1> QED BY <1>7, <1>8

\* A turn of replaceAll covers every start that pos leaves behind.
LEMMA ReplaceNextCover ==
  ASSUME IInv, CoverInv, ReplaceNext
  PROVE  CoverInv'
<1>1. PICK s \in Starts :
        /\ Find(s)
        /\ delivered' = Append(delivered, <<s, ends[s]>>)
        /\ LET out == dst \o Bytes(pos, s) \o <<Repl(s)>>
           IN  IF ends[s] > pos
               THEN dst' = out /\ pos' = ends[s] /\ UNCHANGED pc
               ELSE IF pos < length
               THEN dst' = Append(out, Src(pos)) /\ pos' = pos + Advance(ends[s]) /\ UNCHANGED pc
               ELSE dst' = out /\ pos' = length + 1 /\ pc' = "done"
  BY DEF ReplaceNext
<1>2. pc = "replace" /\ pos <= length /\ UNCHANGED <<textVars, argVars, count, from, pieces>>
  BY DEF ReplaceNext
<1>3. pos \in Nat /\ length \in Nat /\ ends[s] \in 0..length
  BY MatchSetsType DEF IInv, TypeOK, Starts
<1>4. pos + Advance(ends[s]) \in Nat
  BY <1>3, AdvanceType DEF IInv
<1>5. \A t \in DOMAIN ends : t < pos + Advance(ends[s]) \/ t = pos => Covered(t)'
  BY <1>1, <1>2, <1>3, <1>4, CoverStep
<1>6. DOMAIN ends \subseteq 0..length /\ ends' = ends
  BY <1>2, MatchSetsType DEF IInv, TypeOK, textVars
<1>7. CASE ~(ends[s] > pos) /\ ~(pos < length)
  <2>1. ASSUME NEW t \in DOMAIN ends PROVE t < pos \/ t = pos
    BY <1>2, <1>3, <1>6, <1>7
  <2>2. Advance(ends[s]) > 0 /\ Advance(ends[s]) \in Nat
    BY <1>3, AdvanceType DEF IInv
  <2>3. \A t \in DOMAIN ends : t < pos + Advance(ends[s]) \/ t = pos
    BY <2>1, <2>2, <1>3, <1>6
  <2>4. pc' = "done"
    BY <1>1, <1>7
  <2> QED BY <2>3, <2>4, <1>5, <1>6 DEF CoverInv, NothingSkipped
<1>8. CASE ends[s] > pos \/ pos < length
  <2>1. pos' = pos + Advance(ends[s]) /\ pc' = "replace"
    BY <1>1, <1>2, <1>3, <1>8 DEF Advance
  <2> QED BY <2>1, <1>5, <1>6 DEF CoverInv, NothingSkipped
<1> QED BY <1>7, <1>8

\* When no match is left, every start lies before pos.
LEMMA EndCover ==
  ASSUME IInv, CoverInv, FindNone \/ LimitReached \/ ReplaceEnd
  PROVE  CoverInv'
<1>1. pc' \in {"cut", "done"} /\ UNCHANGED <<textVars, argVars, delivered>> /\ pc \in {"find", "replace"}
  BY DEF FindNone, LimitReached, ReplaceEnd, EndFind
<1>2. DOMAIN ends \subseteq 0..length /\ pos \in Nat /\ length \in Nat
  BY MatchSetsType DEF IInv, TypeOK
<1>3. ASSUME op = "replaceAll" \/ (op = "findAll" /\ limit < 0), NEW t \in DOMAIN ends
      PROVE  Covered(t)
  <2>1. CASE Starts = {}
    BY <2>1, <1>1, <1>2 DEF Starts, CoverInv
  <2>2. CASE ReplaceEnd /\ pos > length
    BY <2>2, <1>1, <1>2 DEF CoverInv
  <2>3. CASE LimitReached
    <3>1. count < n
      BY <2>3, <1>3 DEF IInv, TypeOK, PhaseInv, CountInv, LimitReached
    <3> QED BY <3>1, <2>3 DEF LimitReached, IInv, TypeOK
  <2> QED BY <2>1, <2>2, <2>3 DEF FindNone, ReplaceEnd
<1>4. \A t \in DOMAIN ends : Covered(t)' = Covered(t)
  BY <1>1 DEF Covered, textVars
<1> QED BY <1>1, <1>3, <1>4 DEF CoverInv, NothingSkipped, textVars, argVars

\* The steps that neither find nor replace a match leave the cover as it is.
LEMMA OtherCover ==
  ASSUME IInv, CoverInv, Call \/ Cut \/ CutRest \/ UNCHANGED vars
  PROVE  CoverInv'
<1>1. UNCHANGED <<textVars, op, limit, pos, delivered>>
  BY DEF Call, Cut, CutRest, vars, argVars
<1>2. \A t \in DOMAIN ends : Covered(t)' = Covered(t)
  BY <1>1 DEF Covered, textVars
<1>3. CASE Call
  <2>1. pos = 0 /\ DOMAIN ends \subseteq Nat
    BY <1>3, MatchSetsType DEF Call, IInv, PhaseInv, TypeOK
  <2>2. pc' # "done" \/ op = "split"
    BY <1>3 DEF Call
  <2> QED BY <2>1, <2>2, <1>1 DEF CoverInv, NothingSkipped, textVars
<1>4. CASE Cut \/ CutRest
  <2>1. op = "split" /\ pc' \in {"cut", "done"}
    BY <1>4 DEF IInv, PhaseInv, Cut, CutRest
  <2> QED BY <2>1, <1>1 DEF CoverInv, NothingSkipped
<1>5. CASE UNCHANGED vars
  BY <1>5, <1>1, <1>2 DEF CoverInv, NothingSkipped, vars, textVars, argVars
<1> QED BY <1>3, <1>4, <1>5

\* When an unlimited FindAll or a ReplaceAll is over, no match was missed: every
\* start was delivered, or is inside a delivered match, or is inside a rune the
\* loop stepped over after an empty match.
THEOREM NoMatchIsSkipped == Spec => []NothingSkipped
<1>1. Init => CoverInv
  BY DEF Init, CoverInv, NothingSkipped
<1>2. IInv /\ CoverInv /\ [Next]_vars => CoverInv'
  <2> SUFFICES ASSUME IInv, CoverInv, [Next]_vars PROVE CoverInv'
    OBVIOUS
  <2>1. CASE FindNext
    BY <2>1, FindNextCover
  <2>2. CASE ReplaceNext
    BY <2>2, ReplaceNextCover
  <2>3. CASE FindNone \/ LimitReached \/ ReplaceEnd
    BY <2>3, EndCover
  <2>4. CASE Call \/ Cut \/ CutRest \/ Done \/ UNCHANGED vars
    BY <2>4, OtherCover DEF Done
  <2> QED BY <2>1, <2>2, <2>3, <2>4 DEF Next
<1>3. CoverInv => NothingSkipped
  BY DEF CoverInv
<1> QED BY <1>1, <1>2, <1>3, Inductive, PTL DEF Spec

\* Every delivery moves the search on or ends it: no match is delivered twice
\* from one position, whatever its length.
THEOREM DeliveryAdvances == Spec => Advances
<1>1. ASSUME IInv, [Next]_vars
      PROVE  [delivered' # delivered => pos < pos' \/ pc' # pc]_vars
  <2>1. ASSUME NEW s \in Starts
        PROVE  Advance(ends[s]) \in Nat /\ Advance(ends[s]) > 0 /\ pos \in Nat
    <3>1. ends[s] \in 0..length
      BY <1>1, MatchSetsType DEF IInv, TypeOK, Starts
    <3> QED BY <3>1, <1>1, AdvanceType DEF IInv, TypeOK
  <2>2. CASE FindNext
    BY <1>1, <2>1, <2>2 DEF FindNext, EndFind
  <2>3. CASE ReplaceNext
    <3>1. PICK s \in Starts :
            \/ pos < ends[s] /\ pos' = ends[s]
            \/ pos' = pos + Advance(ends[s])
            \/ pc' = "done"
      BY <2>3 DEF ReplaceNext
    <3> QED BY <2>1, <2>3, <3>1 DEF ReplaceNext
  <2>4. CASE ~FindNext /\ ~ReplaceNext
    BY <1>1, <2>4 DEF Next, Call, LimitReached, FindNone, Cut, CutRest, ReplaceEnd, Done, vars
  <2> QED BY <2>2, <2>3, <2>4
<1> QED BY <1>1, Inductive, PTL DEF Spec, Advances


\* --- the promise ---------------------------------------------------------
\* The position of the loops is one where FindAll may go on.
ResumeInv ==
  pc \in {"call", "find", "replace"} => pos \in Promise!Resumptions(delivered)

\* The search may go on where the last match ended unless that match is empty and
\* was delivered twice, and past the rune behind an empty one.
LEMMA ResumptionsOf ==
  ASSUME NEW ms, NEW m, ms # <<>>, Promise!Final(ms) = m
  PROVE  /\ ~(Promise!Empty(m) /\ Promise!Repeated(ms)) => m[2] \in Promise!Resumptions(ms)
         /\ Promise!Empty(m) => Promise!PastRune(m[2]) \in Promise!Resumptions(ms)
<1>1. CASE Promise!Empty(m)
  BY <1>1 DEF Promise!Resumptions
<1>2. CASE ~Promise!Empty(m)
  BY <1>2 DEF Promise!Resumptions
<1> QED BY <1>1, <1>2

\* What a match found from pos leaves to do: its successor may start at its end,
\* and past the rune behind it if it is empty; found from its own position, it
\* is not looked for again.
LEMMA ResumeNext ==
  ASSUME IInv, NEW s \in Starts, pc \in {"find", "replace"},
         delivered' = Append(delivered, <<s, ends[s]>>)
  PROVE  /\ ends[s] > pos => ends[s] \in Promise!Resumptions(delivered')
         /\ ends[s] <= pos => /\ s = pos /\ ends[s] = pos
                              /\ Promise!PastRune(pos) \in Promise!Resumptions(delivered')
<1>1. s \in 0..length /\ ends[s] \in 0..length /\ s <= ends[s] /\ pos <= s /\ pos \in Nat
  BY MatchSetsType DEF IInv, TypeOK, Starts
<1>2. delivered \in Seq(Span)
  BY DEF IInv, TypeOK
<1> DEFINE m == <<s, ends[s]>>
           ms == Append(delivered, m)
<1>3. <<s, ends[s]>> \in Span
  BY <1>1 DEF Span
<1>4. /\ Len(ms) = Len(delivered) + 1 /\ ms # <<>> /\ Promise!Final(ms) = m
      /\ Len(delivered) > 0 => ms[Len(delivered)] = delivered[Len(delivered)]
      /\ Len(delivered) \in Nat
  BY <1>2, <1>3 DEF Promise!Final
<1>5. CASE ends[s] > pos
  <2>1. ~(Promise!Empty(m) /\ Promise!Repeated(ms))
    <3> SUFFICES ASSUME Promise!Empty(m), Promise!Repeated(ms) PROVE FALSE
      OBVIOUS
    <3>1. Len(delivered) > 0 /\ delivered[Len(delivered)] = m
      BY <1>4 DEF Promise!Repeated
    <3>2. m[2] <= pos
      BY <3>1, <1>2, <1>4 DEF IInv, OrderInv
    <3> QED BY <3>2, <1>1, <1>5
  <2>2. m[2] \in Promise!Resumptions(ms)
    <3> HIDE DEF m, ms
    <3> QED BY <2>1, <1>4, ResumptionsOf
  <2> QED BY <2>2, <1>5, <1>1
<1>6. CASE ends[s] <= pos
  <2>1. s = pos /\ ends[s] = pos
    BY <1>1, <1>6
  <2>2. Promise!Empty(m)
    BY <2>1 DEF Promise!Empty
  <2>3. Promise!PastRune(m[2]) \in Promise!Resumptions(ms)
    <3> HIDE DEF m, ms
    <3> QED BY <2>2, <1>4, ResumptionsOf
  <2> QED BY <2>1, <2>3, <1>1
<1> QED BY <1>5, <1>6, <1>1

\* A search that starts behind the text finds nothing.
LEMMA NothingBehind ==
  ASSUME TypeOK, NEW p \in Nat, p > length
  PROVE  Promise!From(p) = {}
BY MatchSetsType DEF TypeOK, Promise!From

\* One match is found and delivered by FindNext and by ReplaceNext alike.
LEMMA DeliverStep ==
  ASSUME IInv, ResumeInv, NEW s \in Starts, Find(s), pc \in {"find", "replace"},
         delivered' = Append(delivered, <<s, ends[s]>>), UNCHANGED <<textVars, argVars>>,
         pc = "find" => count < n,
         pc' \in {"find", "replace"} \/ \E p \in Promise!Resumptions(delivered') : p > length /\ p \in Nat
  PROVE  Promise!Deliver
<1>1. pc \notin {"cut", "done"}
  OBVIOUS
<1>2. Promise!Wanted(delivered)
  <2>1. CASE op = "replaceAll"
    BY <2>1 DEF Promise!Wanted
  <2>2. CASE op # "replaceAll"
    BY <2>2 DEF Promise!Wanted, IInv, PhaseInv, CountInv, TypeOK
  <2> QED BY <2>1, <2>2
<1>3. s \in Promise!Leftmost(pos) /\ pos \in Promise!Resumptions(delivered)
  BY DEF Promise!Leftmost, Promise!From, Starts, Find, ResumeInv
<1>4. ~(pc' \in {"cut", "done"}) \/ Promise!Exhausted(delivered')
  <2> SUFFICES ASSUME pc' \in {"cut", "done"} PROVE Promise!Exhausted(delivered')
    OBVIOUS
  <2>1. PICK p \in Promise!Resumptions(delivered') : p > length /\ p \in Nat
    OBVIOUS
  <2>2. Promise!From(p) = {}
    BY <2>1, NothingBehind DEF IInv
  <2> QED BY <2>1, <2>2 DEF Promise!Exhausted
<1>5. \E p \in Promise!Resumptions(delivered) : \E t \in Promise!Leftmost(p) :
        delivered' = Append(delivered, <<t, ends[t]>>)
  BY <1>3
<1>6. UNCHANGED <<length, trailing, ends, IF op = "replaceAll" THEN -1 ELSE limit>>
  BY DEF textVars, argVars
<1>7. (pc \in {"cut", "done"})' = FALSE \/ (pc \in {"cut", "done"})' = TRUE
  OBVIOUS
<1>8. (pc \in {"cut", "done"})' = TRUE => Promise!Exhausted(delivered')
  BY <1>4
<1> QED BY <1>1, <1>2, <1>5, <1>6, <1>7, <1>8, Zenon DEF Promise!Deliver

\* The match after which FindNext stops is at the end of the text, or the rune
\* behind it reaches over it.
LEMMA FindNextDelivers ==
  ASSUME IInv, ResumeInv, FindNext
  PROVE  Promise!Deliver /\ ResumeInv'
<1>1. PICK s \in Starts :
        /\ Find(s)
        /\ delivered' = Append(delivered, <<s, ends[s]>>)
        /\ IF pos >= length
           THEN EndFind /\ UNCHANGED <<pos, count>>
           ELSE /\ pos' = pos + Advance(ends[s])
                /\ IF pos' > length
                   THEN EndFind /\ UNCHANGED count
                   ELSE count' = count + 1 /\ UNCHANGED pc
  BY DEF FindNext
<1>2. pc = "find" /\ count < n /\ UNCHANGED <<textVars, argVars>>
  BY DEF FindNext
<1>3. s \in 0..length /\ ends[s] \in 0..length /\ pos <= s /\ s <= ends[s] /\ pos \in Nat /\ length \in Nat
  BY MatchSetsType DEF IInv, TypeOK, Starts
<1>4. Advance(ends[s]) \in Nat /\ pos + Advance(ends[s]) \in Nat
  BY <1>3, AdvanceType DEF IInv
<1>5. pos + Advance(ends[s]) \in Promise!Resumptions(delivered')
  <2>1. CASE ends[s] > pos
    <3>1. pos + Advance(ends[s]) = ends[s]
      BY <2>1, <1>3 DEF Advance
    <3> QED BY <3>1, <2>1, <1>1, <1>2, ResumeNext
  <2>2. CASE ends[s] <= pos
    <3>1. pos + Advance(ends[s]) = Promise!PastRune(pos)
      <4>1. CASE pos < length
        <5>1. trailing[pos] \in Nat
          BY <4>1, <1>3, IterationAssumption DEF IInv, TypeOK
        <5> QED BY <5>1, <4>1, <2>2, <1>3 DEF Advance, Promise!PastRune
      <4>2. CASE ~(pos < length)
        BY <4>2, <2>2, <1>3 DEF Advance, Promise!PastRune
      <4> QED BY <4>1, <4>2
    <3> QED BY <3>1, <2>2, <1>1, <1>2, ResumeNext
  <2> QED BY <2>1, <2>2, <1>3
<1>6. pc' \in {"find", "replace"} \/ \E p \in Promise!Resumptions(delivered') : p > length /\ p \in Nat
  <2>1. CASE pos >= length
    BY <2>1, <1>3, <1>4, <1>5, AdvanceType DEF IInv
  <2>2. CASE ~(pos >= length) /\ pos' > length
    BY <2>2, <1>1, <1>4, <1>5
  <2>3. CASE ~(pos >= length) /\ ~(pos' > length)
    BY <2>3, <1>1, <1>2
  <2> QED BY <2>1, <2>2, <2>3
<1>7. Promise!Deliver
  BY <1>1, <1>2, <1>6, DeliverStep
<1>8. pc' \in {"call", "find", "replace"} => pos' = pos + Advance(ends[s])
  BY <1>1 DEF EndFind
<1>9. \A ms : Promise!Resumptions(ms)' = Promise!Resumptions(ms)
  BY <1>2 DEF Promise!Resumptions, Promise!PastRune, textVars
<1> QED BY <1>5, <1>7, <1>8, <1>9 DEF ResumeInv

\* replaceAll goes on from the end of a match, and past an empty one over a rune.
LEMMA ReplaceNextDelivers ==
  ASSUME IInv, ResumeInv, ReplaceNext
  PROVE  Promise!Deliver /\ ResumeInv'
<1>1. PICK s \in Starts :
        /\ Find(s)
        /\ delivered' = Append(delivered, <<s, ends[s]>>)
        /\ \/ ends[s] > pos /\ pos' = ends[s] /\ UNCHANGED pc
           \/ ~(ends[s] > pos) /\ pos < length /\ pos' = pos + Advance(ends[s]) /\ UNCHANGED pc
           \/ ~(ends[s] > pos) /\ ~(pos < length) /\ pos' = length + 1 /\ pc' = "done"
  BY DEF ReplaceNext
<1>2. pc = "replace" /\ pos <= length /\ UNCHANGED <<textVars, argVars>>
  BY DEF ReplaceNext
<1>3. s \in 0..length /\ ends[s] \in 0..length /\ pos <= s /\ s <= ends[s] /\ pos \in Nat /\ length \in Nat
  BY MatchSetsType DEF IInv, TypeOK, Starts
<1>4. pos' \in Promise!Resumptions(delivered') /\ (pc' \in {"find", "replace"} \/ (pos' > length /\ pos' \in Nat))
  <2>1. CASE ends[s] > pos /\ pos' = ends[s] /\ UNCHANGED pc
    <3>1. ends[s] \in Promise!Resumptions(delivered')
      BY <2>1, <1>1, <1>2, ResumeNext
    <3>2. pc' = "replace"
      BY <2>1, <1>2
    <3> QED BY <3>1, <3>2, <2>1
  <2>2. CASE ~(ends[s] > pos) /\ pos < length /\ pos' = pos + Advance(ends[s]) /\ UNCHANGED pc
    <3>1. trailing[pos] \in Nat
      BY <2>2, <1>3, IterationAssumption DEF IInv, TypeOK
    <3>2. pos' = Promise!PastRune(pos)
      BY <3>1, <2>2, <1>3 DEF Advance, Promise!PastRune
    <3>3. Promise!PastRune(pos) \in Promise!Resumptions(delivered')
      BY <2>2, <1>1, <1>2, <1>3, ResumeNext
    <3>4. pc' = "replace"
      BY <2>2, <1>2
    <3> QED BY <3>2, <3>3, <3>4
  <2>3. CASE ~(ends[s] > pos) /\ ~(pos < length) /\ pos' = length + 1 /\ pc' = "done"
    <3>1. pos' = Promise!PastRune(pos)
      BY <2>3, <1>2, <1>3 DEF Promise!PastRune
    <3> QED BY <3>1, <2>3, <1>1, <1>2, <1>3, ResumeNext
  <2> QED BY <1>1, <2>1, <2>2, <2>3
<1>5. Promise!Deliver
  BY <1>1, <1>2, <1>4, DeliverStep
<1>6. \A ms : Promise!Resumptions(ms)' = Promise!Resumptions(ms)
  BY <1>2 DEF Promise!Resumptions, Promise!PastRune, textVars
<1> QED BY <1>4, <1>5, <1>6 DEF ResumeInv

\* A loop that ends without a match has all there is or all that is wanted.
LEMMA EndCloses ==
  ASSUME IInv, ResumeInv, LimitReached \/ FindNone \/ ReplaceEnd
  PROVE  Promise!Close /\ ResumeInv'
<1>1. pc \in {"find", "replace"} /\ pc' \in {"cut", "done"}
  BY DEF LimitReached, FindNone, ReplaceEnd, EndFind
<1>2. UNCHANGED <<length, trailing, ends, IF op = "replaceAll" THEN -1 ELSE limit, delivered>>
  BY DEF LimitReached, FindNone, ReplaceEnd, textVars, argVars
<1>3. Promise!Exhausted(delivered)
  <2>1. CASE LimitReached
    <3>1. ~Promise!Wanted(delivered)
      BY <2>1 DEF Promise!Wanted, LimitReached, IInv, PhaseInv, CountInv, TypeOK
    <3> QED BY <3>1 DEF Promise!Exhausted
  <2>2. CASE FindNone \/ ReplaceEnd
    <3>1. pos \in Promise!Resumptions(delivered)
      BY <1>1 DEF ResumeInv
    <3>2. CASE Starts = {}
      BY <3>1, <3>2 DEF Promise!Exhausted, Promise!From, Starts
    <3>3. CASE pos > length
      BY <3>1, <3>3, NothingBehind DEF Promise!Exhausted, IInv, TypeOK
    <3> QED BY <2>2, <3>2, <3>3 DEF FindNone, ReplaceEnd
  <2> QED BY <2>1, <2>2
<1>4. ~(pc \in {"cut", "done"}) /\ (pc \in {"cut", "done"})' = TRUE
  BY <1>1
<1> QED BY <1>1, <1>2, <1>3, <1>4 DEF Promise!Close, ResumeInv

\* The call, the cuts of Split and a loop that is over deliver nothing; only the
\* call of a Split into no pieces closes.
LEMMA OtherSteps ==
  ASSUME IInv, ResumeInv, Call \/ Cut \/ CutRest \/ UNCHANGED vars
  PROVE  [Promise!Next]_(Promise!vars) /\ ResumeInv'
<1>1. UNCHANGED <<length, trailing, ends, delivered>> /\ UNCHANGED <<op, limit>>
  BY DEF Call, Cut, CutRest, vars, textVars, argVars
<1>2. Promise!Resumptions(delivered)' = Promise!Resumptions(delivered)
  BY <1>1 DEF Promise!Resumptions, Promise!PastRune, Promise!Final, Promise!Empty, Promise!Repeated
<1>3. CASE Call
  <2>1. pc = "call" /\ pos' = pos /\ delivered = <<>>
    BY <1>3 DEF Call, IInv, PhaseInv
  <2>2. ResumeInv'
    BY <2>1, <1>2 DEF ResumeInv
  <2>3. CASE pc' = "done"
    <3>1. op = "split" /\ limit = 0
      BY <1>3, <2>3 DEF Call
    <3>2. Promise!Exhausted(delivered)
      BY <3>1, <2>1 DEF Promise!Exhausted, Promise!Wanted
    <3>3. ~(pc \in {"cut", "done"}) /\ (pc \in {"cut", "done"})' = TRUE
      BY <2>1, <2>3
    <3> QED BY <2>2, <3>2, <3>3, <1>1 DEF Promise!Next, Promise!Close
  <2>4. CASE pc' # "done"
    <3>1. (pc \in {"cut", "done"})' = (pc \in {"cut", "done"})
      BY <1>3, <2>4 DEF Call
    <3> QED BY <2>2, <3>1, <1>1 DEF Promise!vars
  <2> QED BY <2>3, <2>4
<1>4. CASE Cut \/ CutRest \/ UNCHANGED vars
  <2>1. (pc \in {"cut", "done"})' = (pc \in {"cut", "done"})
    BY <1>4 DEF Cut, CutRest, vars
  <2>2. ResumeInv'
    BY <1>4, <1>2 DEF ResumeInv, Cut, CutRest, vars
  <2> QED BY <2>1, <2>2, <1>1 DEF Promise!vars
<1> QED BY <1>3, <1>4

\* FindAll, Split and ReplaceAll implement what module FindAll promises: for
\* every text, every matcher and every limit, they deliver the matches one after
\* the other, each the leftmost behind the one before it, and stop only when
\* there is none left or none wanted.
THEOREM PromiseKept == Spec => Implements
<1>1. Init => Promise!Init /\ ResumeInv
  <2> SUFFICES ASSUME Init PROVE Promise!Init /\ ResumeInv
    OBVIOUS
  <2>1. TypeOK
    BY InitInv DEF IInv
  <2>2. /\ length \in Nat /\ trailing \in [0..(length - 1) -> Nat]
        /\ (IF op = "replaceAll" THEN -1 ELSE limit) \in Int
    BY <2>1, IterationAssumption DEF TypeOK
  <2>3. DOMAIN ends \subseteq 0..length /\ \A s \in DOMAIN ends : ends[s] \in s..length
    BY <2>1, MatchSetsType DEF TypeOK
  <2>4. delivered = <<>> /\ (pc \in {"cut", "done"}) = FALSE /\ pos = 0
    BY DEF Init
  <2>5. Promise!Init
    BY <2>2, <2>3, <2>4 DEF Promise!Init
  <2>6. ResumeInv
    BY <2>4 DEF ResumeInv, Promise!Resumptions
  <2> QED BY <2>5, <2>6
<1>2. IInv /\ ResumeInv /\ [Next]_vars => [Promise!Next]_(Promise!vars) /\ ResumeInv'
  <2> SUFFICES ASSUME IInv, ResumeInv, [Next]_vars
               PROVE  [Promise!Next]_(Promise!vars) /\ ResumeInv'
    OBVIOUS
  <2>1. CASE FindNext
    BY <2>1, FindNextDelivers DEF Promise!Next
  <2>2. CASE ReplaceNext
    BY <2>2, ReplaceNextDelivers DEF Promise!Next
  <2>3. CASE LimitReached \/ FindNone \/ ReplaceEnd
    BY <2>3, EndCloses DEF Promise!Next
  <2>4. CASE Call \/ Cut \/ CutRest \/ Done \/ UNCHANGED vars
    BY <2>4, OtherSteps DEF Done
  <2> QED BY <2>1, <2>2, <2>3, <2>4 DEF Next
<1> QED BY <1>1, <1>2, Inductive, PTL DEF Spec, Implements, Promise!Spec

\* --- what the output of replaceAll is made of ------------------------------
\* The output ends before p, but for a replacement at p.
EndsAt(out, p) == \A k \in DOMAIN out : out[k].at <= p /\ (out[k].src => out[k].at < p)

\* The loop stands at an empty match it replaced, and will find it again, or has
\* stepped over the rune behind it.
EmptyInv ==
  \A k \in DOMAIN delivered :
    LET m == delivered[k]
    IN  m[1] = m[2] =>
          \/ pos = m[1] /\ m[1] \in DOMAIN ends /\ ends[m[1]] = m[1]
          \/ m[1] < length /\ pos > m[1] + trailing[m[1]]

Outside(p) == ~Matched(p) /\ ~SteppedOver(p)

\* Up to pos, the output is what it must be.
KeepInv ==
  /\ pc = "call" => dst = <<>>
  /\ pc = "replace" =>
       /\ EmptyInv
       /\ InTextOrder(dst) /\ EndsAt(dst, pos)
       /\ KeptPositions(dst) = {p \in 0..(length - 1) : p < pos /\ Outside(p)}
  /\ KeepsOutside

\* --- the output ----------------------------------------------------------
\* Copying a slice keeps its positions, in order.
LEMMA CopySlice ==
  ASSUME NEW out \in Seq(Output), length \in Nat, NEW p \in 0..length, NEW q \in 0..length, p <= q,
         InTextOrder(out), EndsAt(out, p)
  PROVE  /\ out \o Bytes(p, q) \in Seq(Output)
         /\ InTextOrder(out \o Bytes(p, q)) /\ EndsAt(out \o Bytes(p, q), q)
         /\ KeptPositions(out \o Bytes(p, q)) = KeptPositions(out) \cup (p..(q - 1))
<1> DEFINE b   == Bytes(p, q)
           all == out \o b
           z   == Len(out)
<1>1. b \in Seq(Output) /\ Len(b) = q - p /\ DOMAIN b = 1..(q - p)
      /\ \A k \in 1..(q - p) : b[k].src = TRUE /\ b[k].at = p + k - 1
  <2>1. b \in Seq(Output)
    BY BytesType
  <2>2. q - p \in Nat /\ DOMAIN b = 1..(q - p)
    BY DEF Bytes
  <2>3. Len(b) = q - p
    BY <2>1, <2>2, LenProperties
  <2> QED BY <2>1, <2>2, <2>3 DEF Bytes, Src
<1>2. /\ z \in Nat /\ all \in Seq(Output) /\ DOMAIN all = 1..(z + (q - p)) /\ DOMAIN out = 1..z
      /\ \A k \in 1..z : all[k] = out[k]
      /\ \A k \in (z + 1)..(z + (q - p)) : all[k] = b[k - z]
  <2> HIDE DEF b
  <2>1. /\ all \in Seq(Output) /\ Len(all) = z + Len(b) /\ z \in Nat
        /\ \A k \in 1..(z + Len(b)) : all[k] = IF k <= z THEN out[k] ELSE b[k - z]
    BY <1>1, ConcatProperties, LenProperties
  <2>2. DOMAIN all = 1..Len(all) /\ DOMAIN out = 1..z
    BY <2>1, LenProperties
  <2> HIDE DEF all, z
  <2> QED BY <1>1, <2>1, <2>2
<1>3. \A k \in 1..z : out[k] \in Output
  BY <1>2
<1> HIDE DEF b, all, z
<1>4. \A k \in (z + 1)..(z + (q - p)) : all[k].src = TRUE /\ all[k].at = p + (k - z) - 1
  <2> TAKE k \in (z + 1)..(z + (q - p))
  <2>1. k - z \in 1..(q - p)
    BY <1>2
  <2> QED BY <1>1, <1>2, <2>1
<1>5. \A k \in 1..z : all[k].at \in 0..length /\ all[k].at <= p /\ (all[k].src => all[k].at < p)
  BY <1>2, <1>3 DEF EndsAt, Output
<1>6. InTextOrder(all)
  <2> SUFFICES ASSUME NEW j \in DOMAIN all, NEW k \in DOMAIN all, j < k
      PROVE  all[j].at <= all[k].at /\ (all[j].src => all[j].at < all[k].at)
    BY DEF InTextOrder
  <2>1. CASE k \in 1..z
    <3>1. j \in 1..z
      BY <1>2, <2>1
    <3> QED BY <1>2, <2>1, <3>1 DEF InTextOrder
  <2>2. CASE k \notin 1..z
    <3>1. k \in (z + 1)..(z + (q - p))
      BY <1>2, <2>2
    <3>2. CASE j \in 1..z
      <4>1. all[j].at \in Int /\ all[j].at <= p /\ (all[j].src => all[j].at < p)
        BY <1>2, <1>5, <3>2
      <4>2. all[k].at \in Int /\ p <= all[k].at
        BY <1>2, <1>4, <3>1
      <4> QED BY <4>1, <4>2
    <3>3. CASE j \notin 1..z
      <4>1. j \in (z + 1)..(z + (q - p))
        BY <1>2, <3>3
      <4> QED BY <1>2, <1>4, <3>1, <4>1
    <3> QED BY <3>2, <3>3
  <2> QED BY <2>1, <2>2
<1>7. EndsAt(all, q)
  <2> SUFFICES ASSUME NEW k \in DOMAIN all PROVE all[k].at <= q /\ (all[k].src => all[k].at < q)
    BY DEF EndsAt
  <2>1. CASE k \in 1..z
    BY <1>5, <2>1
  <2>2. CASE k \notin 1..z
    <3>1. k \in (z + 1)..(z + (q - p))
      BY <1>2, <2>2
    <3> QED BY <1>2, <1>4, <3>1
  <2> QED BY <2>1, <2>2
<1>8. KeptPositions(all) = KeptPositions(out) \cup (p..(q - 1))
  <2>1. ASSUME NEW x \in KeptPositions(all) PROVE x \in KeptPositions(out) \cup (p..(q - 1))
    <3>1. PICK k \in DOMAIN all : all[k].src /\ x = all[k].at
      BY DEF KeptPositions
    <3>2. CASE k \in 1..z
      BY <1>2, <3>1, <3>2 DEF KeptPositions
    <3>3. CASE k \notin 1..z
      <4>1. k \in (z + 1)..(z + (q - p))
        BY <1>2, <3>3
      <4> QED BY <1>2, <1>4, <3>1, <4>1
    <3> QED BY <3>2, <3>3
  <2>2. ASSUME NEW x \in KeptPositions(out) PROVE x \in KeptPositions(all)
    <3>1. PICK k \in DOMAIN out : out[k].src /\ x = out[k].at
      BY <2>2 DEF KeptPositions
    <3>2. k \in DOMAIN all /\ all[k] = out[k]
      BY <1>2
    <3> QED BY <3>1, <3>2 DEF KeptPositions
  <2>3. ASSUME NEW x \in p..(q - 1) PROVE x \in KeptPositions(all)
    <3> DEFINE k == z + (x - p) + 1
    <3>1. k \in (z + 1)..(z + (q - p)) /\ k \in DOMAIN all /\ p + (k - z) - 1 = x
      BY <1>2
    <3> HIDE DEF k
    <3>2. all[k].src /\ all[k].at = x
      BY <1>4, <3>1
    <3> QED BY <3>1, <3>2 DEF KeptPositions
  <2> QED BY <2>1, <2>2, <2>3
<1> QED BY <1>2, <1>6, <1>7, <1>8 DEF all, b

\* One entry more: a copied byte, or a replacement, which keeps nothing.
LEMMA PutOne ==
  ASSUME NEW out \in Seq(Output), length \in Nat, NEW e \in Output,
         InTextOrder(out), EndsAt(out, e.at), NEW all \in {out \o <<e>>, Append(out, e)}
  PROVE  /\ all \in Seq(Output)
         /\ InTextOrder(all) /\ EndsAt(all, IF e.src THEN e.at + 1 ELSE e.at)
         /\ KeptPositions(all) = KeptPositions(out) \cup (IF e.src THEN {e.at} ELSE {})
<1> DEFINE z == Len(out)
<1>1. /\ z \in Nat /\ all \in Seq(Output) /\ DOMAIN all = 1..(z + 1) /\ DOMAIN out = 1..z
      /\ \A k \in 1..z : all[k] = out[k]
      /\ all[z + 1] = e
  <2>1. <<e>> \in Seq(Output) /\ Len(<<e>>) = 1 /\ <<e>>[1] = e
    OBVIOUS
  <2>2. CASE all = out \o <<e>>
    <3>1. /\ all \in Seq(Output) /\ Len(all) = z + 1 /\ z \in Nat
          /\ \A k \in 1..(z + 1) : all[k] = IF k <= z THEN out[k] ELSE <<e>>[k - z]
      BY <2>1, <2>2, ConcatProperties, LenProperties
    <3>2. DOMAIN all = 1..Len(all) /\ DOMAIN out = 1..z
      BY <3>1, LenProperties
    <3> HIDE DEF z
    <3> QED BY <2>1, <3>1, <3>2
  <2>3. CASE all = Append(out, e)
    <3>1. /\ all \in Seq(Output) /\ Len(all) = z + 1 /\ z \in Nat
          /\ \A k \in 1..z : all[k] = out[k]
          /\ all[z + 1] = e
      BY <2>3, AppendProperties, LenProperties
    <3>2. DOMAIN all = 1..Len(all) /\ DOMAIN out = 1..z
      BY <3>1, LenProperties
    <3> QED BY <3>1, <3>2
  <2> QED BY <2>2, <2>3
<1>2. \A k \in 1..z : out[k] \in Output
  BY <1>1
<1>3. e.at \in 0..length /\ e.src \in BOOLEAN /\ \A k \in 1..z : out[k].at \in 0..length
  BY <1>2 DEF Output
<1> HIDE DEF z
<1>4. InTextOrder(all)
  <2> SUFFICES ASSUME NEW j \in DOMAIN all, NEW k \in DOMAIN all, j < k
      PROVE  all[j].at <= all[k].at /\ (all[j].src => all[j].at < all[k].at)
    BY DEF InTextOrder
  <2>1. j \in 1..z /\ j \in DOMAIN out /\ all[j] = out[j]
    BY <1>1
  <2>2. CASE k \in 1..z
    <3>1. k \in DOMAIN out /\ all[k] = out[k]
      BY <1>1, <2>2
    <3> QED BY <2>1, <3>1 DEF InTextOrder
  <2>3. CASE k \notin 1..z
    <3>1. all[k] = e
      BY <1>1, <2>3
    <3> QED BY <2>1, <3>1 DEF EndsAt
  <2> QED BY <2>2, <2>3
<1>5. EndsAt(all, IF e.src THEN e.at + 1 ELSE e.at)
  <2> DEFINE q == IF e.src THEN e.at + 1 ELSE e.at
  <2>1. \A k \in 1..z : out[k].at <= e.at /\ (out[k].src => out[k].at < e.at)
    BY <1>1 DEF EndsAt
  <2>2. q \in Int /\ e.at <= q /\ (e.src => e.at < q)
    BY <1>3
  <2> HIDE DEF q
  <2>3. \A k \in 1..z : out[k].at <= q /\ (out[k].src => out[k].at < q)
    BY <1>3, <2>1, <2>2
  <2>4. \A k \in DOMAIN all : k \in 1..z \/ k = z + 1
    BY <1>1
  <2>5. \A k \in DOMAIN all : all[k].at <= q /\ (all[k].src => all[k].at < q)
    BY <1>1, <2>2, <2>3, <2>4
  <2>6. EndsAt(all, q)
    BY <2>5 DEF EndsAt
  <2> QED BY <2>6 DEF q
<1>6. KeptPositions(all) = KeptPositions(out) \cup (IF e.src THEN {e.at} ELSE {})
  <2>1. \A k \in DOMAIN all : \/ k \in DOMAIN out /\ all[k] = out[k]
                              \/ k = z + 1 /\ all[k] = e
    BY <1>1
  <2>2. \A k \in DOMAIN out : k \in DOMAIN all /\ all[k] = out[k]
    BY <1>1
  <2>3. z + 1 \in DOMAIN all /\ all[z + 1] = e
    BY <1>1
  <2> QED BY <1>3, <2>1, <2>2, <2>3 DEF KeptPositions
<1> QED BY <1>1, <1>4, <1>5, <1>6

\* --- the matches ---------------------------------------------------------
\* A match more changes nothing outside of it.
LEMMA OneMatchMore ==
  ASSUME TypeOK, NEW m \in Span, delivered' = Append(delivered, m), trailing' = trailing
  PROVE  \A p : /\ Matched(p)' <=> Matched(p) \/ (m[1] <= p /\ p < m[2])
                /\ SteppedOver(p)' <=> \/ SteppedOver(p)
                                       \/ m[1] = m[2] /\ m[1] < p /\ p <= m[1] + trailing[m[1]]
<1>1. delivered \in Seq(Span)
  BY DEF TypeOK
<1>2. /\ DOMAIN delivered' = 1..(Len(delivered) + 1) /\ DOMAIN delivered = 1..Len(delivered)
      /\ Len(delivered) \in Nat
      /\ \A k \in 1..Len(delivered) : delivered'[k] = delivered[k]
      /\ delivered'[Len(delivered) + 1] = m
  BY <1>1
<1>3. /\ \A k \in DOMAIN delivered' : \/ k \in DOMAIN delivered /\ delivered'[k] = delivered[k]
                                      \/ delivered'[k] = m
      /\ \A k \in DOMAIN delivered : k \in DOMAIN delivered' /\ delivered'[k] = delivered[k]
      /\ \E k \in DOMAIN delivered' : delivered'[k] = m
  BY <1>2
<1>4. \A p : Matched(p)' <=> Matched(p) \/ (m[1] <= p /\ p < m[2])
  BY <1>3 DEF Matched
<1>5. \A p : SteppedOver(p)' <=> \/ SteppedOver(p)
                                 \/ m[1] = m[2] /\ m[1] < p /\ p <= m[1] + trailing[m[1]]
  BY <1>3 DEF SteppedOver
<1> QED BY <1>4, <1>5

\* From pos to the next match, or to the end, no byte is in a match or stepped
\* over: at an empty match, the next match is at pos itself.
LEMMA AheadIsOutside ==
  ASSUME IInv, EmptyInv, NEW p \in Nat, p >= pos, p < length,
         (pos \in DOMAIN ends /\ ends[pos] = pos) => p = pos
  PROVE  Outside(p)
<1>1. /\ pos \in Nat /\ delivered \in Seq(Span) /\ length \in Nat
      /\ \A k \in DOMAIN delivered : delivered[k] \in Span
      /\ \A k \in DOMAIN delivered : delivered[k][2] <= pos
      /\ trailing \in [0..(length - 1) -> 0..MaxTrailing]
  BY DEF IInv, TypeOK, OrderInv
<1>2. \A k \in DOMAIN delivered : delivered[k][1] \in Nat /\ delivered[k][2] \in Nat
  BY <1>1 DEF Span
<1>3. ~Matched(p)
  BY <1>1, <1>2 DEF Matched
<1>4. ASSUME NEW k \in DOMAIN delivered, delivered[k][1] = delivered[k][2],
             delivered[k][1] < p, p <= delivered[k][1] + trailing[delivered[k][1]]
      PROVE  FALSE
  <2> DEFINE m == delivered[k]
  <2>1. m[1] \in Nat /\ m[1] < length
    BY <1>1, <1>2, <1>4
  <2>2. trailing[m[1]] \in Nat
    BY <1>1, <2>1, IterationAssumption
  <2>3. \/ pos = m[1] /\ m[1] \in DOMAIN ends /\ ends[m[1]] = m[1]
        \/ m[1] < length /\ pos > m[1] + trailing[m[1]]
    BY <1>4 DEF EmptyInv
  <2> HIDE DEF m
  <2>4. m[1] < p /\ p <= m[1] + trailing[m[1]]
    BY <1>4 DEF m
  <2> QED BY <1>1, <2>1, <2>2, <2>3, <2>4
<1> QED BY <1>3, <1>4 DEF Outside, SteppedOver

\* --- the actions ---------------------------------------------------------
\* A turn of replaceAll copies what lies before the match it replaces, and the
\* first byte behind an empty one.
LEMMA ReplaceNextKeep ==
  ASSUME IInv, KeepInv, ReplaceNext
  PROVE  KeepInv'
<1>1. PICK s \in Starts :
        /\ Find(s)
        /\ delivered' = Append(delivered, <<s, ends[s]>>)
        /\ LET out == dst \o Bytes(pos, s) \o <<Repl(s)>>
           IN  IF ends[s] > pos
               THEN dst' = out /\ pos' = ends[s] /\ UNCHANGED pc
               ELSE IF pos < length
               THEN dst' = Append(out, Src(pos)) /\ pos' = pos + Advance(ends[s]) /\ UNCHANGED pc
               ELSE dst' = out /\ pos' = length + 1 /\ pc' = "done"
  BY DEF ReplaceNext
<1>2. /\ pc = "replace" /\ pos <= length /\ UNCHANGED <<textVars, argVars, count, from, pieces>>
      /\ op' = op /\ length' = length /\ trailing' = trailing /\ ends' = ends
  BY DEF ReplaceNext, textVars, argVars
<1>3. /\ s \in 0..length /\ ends[s] \in 0..length /\ s <= ends[s] /\ pos <= s /\ s \in DOMAIN ends
      /\ \A t \in DOMAIN ends : pos <= t => s <= t
      /\ DOMAIN ends \subseteq 0..length
  BY <1>1, MatchSetsType DEF IInv, TypeOK, Starts, Find
<1>4. /\ pos \in Nat /\ length \in Nat /\ pos \in 0..length /\ dst \in Seq(Output)
      /\ trailing \in [0..(length - 1) -> 0..MaxTrailing]
  BY <1>2 DEF IInv, TypeOK, Output
<1>5. /\ EmptyInv /\ InTextOrder(dst) /\ EndsAt(dst, pos)
      /\ KeptPositions(dst) = {p \in 0..(length - 1) : p < pos /\ Outside(p)}
  BY <1>2 DEF KeepInv
<1> DEFINE m    == <<s, ends[s]>>
           part == dst \o Bytes(pos, s)
           out  == part \o <<Repl(s)>>
\* the output so far
<1>6. /\ out \in Seq(Output) /\ InTextOrder(out) /\ EndsAt(out, s)
      /\ KeptPositions(out) = KeptPositions(dst) \cup (pos..(s - 1))
  <2>1. /\ part \in Seq(Output) /\ InTextOrder(part) /\ EndsAt(part, s)
        /\ KeptPositions(part) = KeptPositions(dst) \cup (pos..(s - 1))
    BY <1>3, <1>4, <1>5, CopySlice
  <2>2. Repl(s) \in Output /\ Repl(s).at = s /\ Repl(s).src = FALSE
    BY <1>3 DEF Repl, Output
  <2> HIDE DEF part
  <2> DEFINE e == Repl(s)
  <2> HIDE DEF e
  <2>3. e \in Output /\ e.at = s /\ e.src = FALSE /\ EndsAt(part, e.at) /\ out \in {part \o <<e>>, Append(part, e)}
    BY <2>1, <2>2 DEF e
  <2> HIDE DEF out
  <2>4. /\ out \in Seq(Output)
        /\ InTextOrder(out) /\ EndsAt(out, IF e.src THEN e.at + 1 ELSE e.at)
        /\ KeptPositions(out) = KeptPositions(part) \cup (IF e.src THEN {e.at} ELSE {})
    BY <1>4, <2>1, <2>3, PutOne
  <2> QED BY <2>1, <2>3, <2>4
\* what the new match changes
<1>7. \A p : /\ Matched(p)' <=> Matched(p) \/ (s <= p /\ p < ends[s])
             /\ SteppedOver(p)' <=> SteppedOver(p) \/ (s = ends[s] /\ s < p /\ p <= s + trailing[s])
  <2>1. m \in Span
    BY <1>3 DEF Span
  <2>2. m[1] = s /\ m[2] = ends[s] /\ TypeOK
    BY DEF IInv
  <2> HIDE DEF m
  <2>3. delivered' = Append(delivered, m)
    BY <1>1 DEF m
  <2> QED BY <1>2, <2>1, <2>2, <2>3, OneMatchMore
<1>8. \A p \in Nat : p < s => (Outside(p)' <=> Outside(p))
  BY <1>3, <1>4, <1>7 DEF Outside
<1>9. \A p \in pos..(s - 1) : Outside(p)
  <2> TAKE p \in pos..(s - 1)
  <2>1. ~(pos \in DOMAIN ends)
    BY <1>3, <1>4
  <2>2. p \in Nat /\ p >= pos /\ p < length
    BY <1>3, <1>4
  <2> QED BY <1>5, <2>1, <2>2, AheadIsOutside
<1>10. KeptPositions(out) = {p \in 0..(length - 1) : p < s /\ Outside(p)'}
  <2> HIDE DEF out
  <2>1. KeptPositions(out) = {p \in 0..(length - 1) : p < pos /\ Outside(p)} \cup (pos..(s - 1))
    BY <1>5, <1>6
  <2>2. \A p \in 0..(length - 1) : p < s => (Outside(p)' <=> Outside(p))
    BY <1>4, <1>8
  <2>3. pos..(s - 1) \subseteq 0..(length - 1)
    BY <1>3, <1>4
  <2> HIDE DEF m, part
  <2> QED BY <1>3, <1>4, <1>9, <2>1, <2>2, <2>3
\* at the empty match pos stands at, the same match is found
<1>11. \A t \in DOMAIN ends : t = pos => s = pos
  BY <1>3, <1>4
<1>12. pos < length => trailing[pos] \in Nat
  BY <1>4, IterationAssumption
<1>13. \A k \in 1..Len(out) : out[k].at \in 0..length
  <2> HIDE DEF out
  <2> TAKE k \in 1..Len(out)
  <2>1. out[k] \in Output
    BY <1>6, ElementOfSeq
  <2> QED BY <2>1 DEF Output
<1>14. DOMAIN out = 1..Len(out) /\ Len(out) \in Nat
  BY <1>6, LenProperties
<1>15. ASSUME pos' \in Nat, pos' >= pos,
              s = pos /\ ends[s] = s => pos < length /\ pos' > pos + trailing[pos],
              s = ends[s] /\ s # pos => pos' = s
       PROVE  EmptyInv'
  <2>1. delivered \in Seq(Span)
    BY DEF IInv, TypeOK
  <2>2. \A k \in DOMAIN delivered' : \/ k \in DOMAIN delivered /\ delivered'[k] = delivered[k]
                                     \/ delivered'[k] = m
    <3>1. m \in Span
      BY <1>3 DEF Span
    <3> HIDE DEF m
    <3>2. delivered' = Append(delivered, m)
      BY <1>1 DEF m
    <3> QED BY <2>1, <3>1, <3>2
  <2> SUFFICES ASSUME NEW k \in DOMAIN delivered', delivered'[k][1] = delivered'[k][2]
      PROVE  LET w == delivered'[k]
             IN  \/ pos' = w[1] /\ w[1] \in DOMAIN ends /\ ends[w[1]] = w[1]
                 \/ w[1] < length /\ pos' > w[1] + trailing[w[1]]
    BY <1>2 DEF EmptyInv
  <2>3. CASE k \in DOMAIN delivered /\ delivered'[k] = delivered[k]
    <3> DEFINE w == delivered[k]
    <3>1. w \in Span /\ w[1] = w[2]
      BY <2>1, <2>3
    <3>2. \/ pos = w[1] /\ w[1] \in DOMAIN ends /\ ends[w[1]] = w[1]
          \/ w[1] < length /\ pos > w[1] + trailing[w[1]]
      BY <1>5, <2>3, <3>1 DEF EmptyInv
    <3>3. w[1] \in Nat
      BY <1>4, <3>1 DEF Span
    <3> HIDE DEF w
    <3>4. CASE pos = w[1] /\ w[1] \in DOMAIN ends /\ ends[w[1]] = w[1]
      <4>1. s = pos /\ ends[s] = s
        BY <1>11, <3>4
      <4>2. w[1] < length /\ pos' > w[1] + trailing[w[1]]
        BY <1>15, <3>4, <4>1
      <4> QED BY <2>3, <4>2 DEF w
    <3>5. CASE w[1] < length /\ pos > w[1] + trailing[w[1]]
      <4>1. trailing[w[1]] \in Nat
        BY <1>4, <3>3, <3>5, IterationAssumption
      <4>2. w[1] < length /\ pos' > w[1] + trailing[w[1]]
        BY <1>4, <1>15, <3>3, <3>5, <4>1
      <4> QED BY <2>3, <4>2 DEF w
    <3> QED BY <3>2, <3>4, <3>5
  <2>4. CASE delivered'[k] = m
    <3>1. delivered'[k][1] = s /\ s = ends[s]
      BY <2>4
    <3> QED BY <1>3, <1>15, <3>1
  <2> QED BY <2>2, <2>3, <2>4
<1>16. CASE ends[s] > pos
  <2>1. dst' = out /\ pos' = ends[s] /\ pc' = pc
    BY <1>1, <1>16
  <2>2. EndsAt(out, ends[s])
    <3> HIDE DEF out
    <3> QED BY <1>3, <1>6, <1>13, <1>14 DEF EndsAt
  <2>3. EmptyInv'
    BY <1>3, <1>4, <1>15, <1>16, <2>1
  <2>4. \A p \in 0..(length - 1) : (p < s /\ Outside(p)') <=> (p < ends[s] /\ Outside(p)')
    <3>1. \A p \in 0..(length - 1) : p >= s /\ p < ends[s] => Matched(p)'
      BY <1>7
    <3> HIDE DEF out, m, part
    <3> QED BY <1>3, <1>4, <3>1 DEF Outside
  <2>5. KeptPositions(dst') = {p \in 0..(length' - 1) : p < pos' /\ Outside(p)'}
    <3> HIDE DEF out, m, part
    <3> QED BY <1>2, <1>10, <2>1, <2>4
  <2> HIDE DEF out, m, part
  <2> QED BY <1>2, <1>6, <2>1, <2>2, <2>3, <2>5 DEF KeepInv, KeepsOutside
<1>17. CASE ~(ends[s] > pos) /\ pos < length
  <2>1. s = pos /\ ends[s] = pos
    BY <1>3, <1>4, <1>17
  <2>2. dst' = Append(out, Src(pos)) /\ pos' = pos + 1 + trailing[pos] /\ pc' = pc
    <3>1. dst' = Append(out, Src(pos)) /\ pos' = pos + Advance(ends[s]) /\ pc' = pc
      BY <1>1, <1>17
    <3>2. Advance(ends[s]) = 1 + trailing[pos]
      BY <1>4, <1>17, <2>1 DEF Advance
    <3> HIDE DEF out, m, part
    <3>3. trailing[pos] \in Nat
      BY <1>12, <1>17
    <3>4. \A a, b \in Nat : a + (1 + b) = a + 1 + b
      OBVIOUS
    <3>5. pos + (1 + trailing[pos]) = pos + 1 + trailing[pos]
      BY <1>4, <3>3, <3>4, Zenon
    <3> QED BY <3>1, <3>2, <3>5, Zenon
  <2>3. /\ InTextOrder(dst') /\ EndsAt(dst', pos + 1) /\ dst' \in Seq(Output)
        /\ KeptPositions(dst') = KeptPositions(out) \cup {pos}
    <3> DEFINE e == Src(pos)
    <3>1. e \in Output /\ e.at = pos /\ e.src = TRUE
      BY <1>4 DEF Src, Output
    <3> HIDE DEF e, out
    <3>2. EndsAt(out, e.at) /\ dst' \in {out \o <<e>>, Append(out, e)}
      BY <1>6, <2>1, <2>2, <3>1 DEF e
    <3>3. /\ dst' \in Seq(Output) /\ InTextOrder(dst') /\ EndsAt(dst', IF e.src THEN e.at + 1 ELSE e.at)
          /\ KeptPositions(dst') = KeptPositions(out) \cup (IF e.src THEN {e.at} ELSE {})
      BY <1>4, <1>6, <3>1, <3>2, PutOne
    <3> QED BY <3>1, <3>3
  <2> HIDE DEF out, m, part
  <2>4. EndsAt(dst', pos')
    <3>1. \A k \in DOMAIN dst' : dst'[k].at \in 0..length
      <4>1. DOMAIN dst' = 1..Len(dst')
        BY <2>3, LenProperties
      <4> TAKE k \in DOMAIN dst'
      <4>2. dst'[k] \in Output
        BY <2>3, <4>1, ElementOfSeq
      <4> QED BY <4>2 DEF Output
    <3>2. pos' \in Nat /\ pos + 1 <= pos'
      BY <1>4, <1>12, <1>17, <2>2
    <3> QED BY <1>4, <2>3, <3>1, <3>2 DEF EndsAt
  <2>5. EmptyInv'
    BY <1>4, <1>12, <1>15, <1>17, <2>1, <2>2
  <2>6. \A p : p = pos => Outside(p)'
    <3> TAKE p
    <3> HAVE p = pos
    <3>1. Outside(p)
      BY <1>4, <1>5, <1>17, AheadIsOutside
    <3>2. ~(s <= p /\ p < ends[s]) /\ ~(s < p)
      BY <1>4, <2>1
    <3> QED BY <1>7, <3>1, <3>2 DEF Outside
  <2>7. \A p \in 0..(length - 1) : (p < pos' /\ Outside(p)') <=> ((p < s /\ Outside(p)') \/ p = pos)
    <3>1. \A p \in 0..(length - 1) : p > pos /\ p < pos' => SteppedOver(p)'
      <4> TAKE p \in 0..(length - 1)
      <4>1. p > pos /\ p < pos' => s < p /\ p <= s + trailing[s] /\ s = ends[s]
        BY <1>4, <1>12, <1>17, <2>1, <2>2
      <4> QED BY <1>7, <4>1
    <3>2. pos' \in Nat /\ pos < pos'
      BY <1>4, <1>12, <1>17, <2>2
    <3> TAKE p \in 0..(length - 1)
    <3>3. \/ p < s /\ p # pos /\ p < pos'
          \/ p = pos /\ ~(p < s) /\ p < pos'
          \/ p > pos /\ ~(p < s) /\ p # pos
      BY <1>4, <2>1, <3>2
    <3>4. p > pos /\ p < pos' => ~Outside(p)'
      BY <3>1 DEF Outside
    <3> QED BY <2>6, <3>3, <3>4
  <2>8. KeptPositions(dst') = {p \in 0..(length' - 1) : p < pos' /\ Outside(p)'}
    <3>1. pos \in 0..(length - 1)
      BY <1>4, <1>17
    <3> QED BY <1>2, <1>10, <2>3, <2>7, <3>1
  <2> QED BY <1>2, <2>2, <2>3, <2>4, <2>5, <2>8 DEF KeepInv, KeepsOutside
<1>18. CASE ~(ends[s] > pos) /\ ~(pos < length)
  <2>1. dst' = out /\ pc' = "done" /\ s = length
    BY <1>1, <1>2, <1>3, <1>4, <1>18
  <2> HIDE DEF out, m, part
  <2>2. \A p \in 0..(length - 1) : p < s
    BY <1>4, <2>1
  <2>3. KeptPositions(dst') = {p \in 0..(length' - 1) : Outside(p)'}
    BY <1>2, <1>10, <2>1, <2>2
  <2> QED BY <1>2, <1>6, <2>1, <2>3 DEF KeepInv, KeepsOutside, Outside
<1> QED BY <1>16, <1>17, <1>18

\* The end of replaceAll copies the rest.
LEMMA ReplaceEndKeep ==
  ASSUME IInv, KeepInv, ReplaceEnd
  PROVE  KeepInv'
<1>1. /\ pc = "replace" /\ pc' = "done" /\ (pos > length \/ Starts = {})
      /\ dst' = IF pos <= length THEN dst \o Bytes(pos, length) ELSE dst
      /\ length' = length /\ trailing' = trailing /\ ends' = ends /\ delivered' = delivered
  BY DEF ReplaceEnd, textVars
<1>2. /\ EmptyInv /\ InTextOrder(dst) /\ EndsAt(dst, pos)
      /\ KeptPositions(dst) = {p \in 0..(length - 1) : p < pos /\ Outside(p)}
      /\ pos \in Nat /\ length \in Nat /\ dst \in Seq(Output)
  BY <1>1 DEF KeepInv, IInv, TypeOK, Output, ReplaceEnd
<1>3. \A p : Matched(p)' = Matched(p) /\ SteppedOver(p)' = SteppedOver(p)
  BY <1>1 DEF Matched, SteppedOver
<1>4. CASE pos > length
  <2>1. dst' = dst /\ \A p \in 0..(length - 1) : p < pos
    BY <1>1, <1>2, <1>4
  <2>2. KeptPositions(dst') = {p \in 0..(length - 1) : Outside(p)}
    BY <1>2, <2>1
  <2> QED BY <1>1, <1>2, <1>3, <2>1, <2>2 DEF ReplaceEnd, KeepInv, KeepsOutside, Outside
<1>5. CASE ~(pos > length)
  <2>1. pos \in 0..length /\ length \in 0..length /\ pos <= length /\ Starts = {}
    BY <1>1, <1>2, <1>5
  <2>2. dst' = dst \o Bytes(pos, length)
    BY <1>1, <2>1
  <2>3. InTextOrder(dst') /\ KeptPositions(dst') = KeptPositions(dst) \cup (pos..(length - 1))
    BY <1>2, <2>1, <2>2, CopySlice
  <2>4. \A p \in pos..(length - 1) : Outside(p)
    <3> TAKE p \in pos..(length - 1)
    <3>1. p \in Nat /\ p >= pos /\ p < length /\ pos \notin DOMAIN ends
      BY <1>2, <2>1 DEF Starts
    <3> QED BY <1>2, <3>1, AheadIsOutside
  <2>5. KeptPositions(dst') = {p \in 0..(length - 1) : Outside(p)}
    <3>1. \A p \in 0..(length - 1) : p < pos \/ p \in pos..(length - 1)
      BY <1>2
    <3>2. pos..(length - 1) \subseteq 0..(length - 1)
      BY <1>2
    <3> QED BY <1>2, <2>3, <2>4, <3>1, <3>2
  <2> QED BY <1>1, <1>2, <1>3, <2>3, <2>5 DEF ReplaceEnd, KeepInv, KeepsOutside, Outside
<1> QED BY <1>4, <1>5

\* ReplaceAll puts the bytes outside the matches and the replacements together in
\* the order of the text, and loses no byte but those it stepped over behind an
\* empty match.
THEOREM NothingElseIsLost == Spec => []KeepsOutside
<1>1. Init => KeepInv
  BY DEF Init, KeepInv, KeepsOutside
<1>2. IInv /\ KeepInv /\ [Next]_vars => KeepInv'
  <2> SUFFICES ASSUME IInv, KeepInv, [Next]_vars PROVE KeepInv'
    OBVIOUS
  <2>1. CASE ReplaceNext
    BY <2>1, ReplaceNextKeep
  <2>2. CASE ReplaceEnd
    BY <2>2, ReplaceEndKeep
  <2>3. CASE Call
    <3>1. /\ pc = "call" /\ pc' \in {"replace", "find", "done"} /\ (pc' = "done" => op' = "split")
          /\ dst' = <<>> /\ delivered' = <<>> /\ pos' = 0 /\ length' = length
      BY <2>3 DEF Call, KeepInv, IInv, PhaseInv, textVars
    <3>2. KeptPositions(<<>>) = {} /\ InTextOrder(<<>>) /\ EndsAt(<<>>, 0) /\ EmptyInv'
      BY <3>1 DEF KeptPositions, InTextOrder, EndsAt, EmptyInv
    <3>3. {p \in 0..(length - 1) : p < 0 /\ Outside(p)'} = {}
      BY DEF IInv, TypeOK
    <3> QED BY <3>1, <3>2, <3>3 DEF KeepInv, KeepsOutside
  <2>4. CASE LimitReached \/ FindNone \/ FindNext \/ Cut \/ CutRest
    <3>1. pc \in {"find", "cut"} /\ op # "replaceAll" /\ op' = op /\ pc' \in {"find", "cut", "done"}
      BY <2>4 DEF LimitReached, FindNone, FindNext, Cut, CutRest, EndFind, IInv, PhaseInv, argVars
    <3> QED BY <3>1 DEF KeepInv, KeepsOutside
  <2>5. CASE Done \/ UNCHANGED vars
    BY <2>5 DEF Done, KeepInv, KeepsOutside, EmptyInv, Outside, Matched, SteppedOver,
                vars, textVars, argVars
  <2> QED BY <2>1, <2>2, <2>3, <2>4, <2>5 DEF Next
<1>3. KeepInv => KeepsOutside
  BY DEF KeepInv
<1> QED BY <1>1, <1>2, <1>3, Inductive, PTL DEF Spec
=============================================================================
