--------------------------- MODULE ContextPoolProofs --------------------------
(***************************************************************************)
(* What holds of the pool of contexts for every number of goroutines,      *)
(* contexts and calls, texts of every length and buffers of every size.    *)
(***************************************************************************)
EXTENDS ContextPool, FiniteSetTheorems, TLAPS

Steps == {"idle", "search", "prepare", "record", "select", "recap", "copy", "put"}
Spans == [n : Nat, start : Nat, end : Nat]

\* A cell array of some size.
IsCells(f) == \E k \in Nat : DOMAIN f = Cells(k)

Types ==
  /\ pool \subseteq made /\ made \subseteq Contexts
  /\ calls \in [Goroutines -> 0..MaxCalls]
  /\ pc \in [Goroutines -> Steps]
  /\ mc \in [Goroutines -> Contexts \cup {NoContext}]
  /\ span \in [Goroutines -> Spans]
  /\ DOMAIN buf = Contexts /\ \A c \in Contexts : DOMAIN buf[c] = Cells(BufSize)
  /\ DOMAIN path = Contexts /\ \A c \in Contexts : IsCells(path[c])
  /\ inner \in [Contexts -> BOOLEAN] /\ size \in [Contexts -> Nat]
  /\ DOMAIN history = Contexts /\ DOMAIN base = Contexts /\ DOMAIN regs = Contexts
  /\ DOMAIN read = Goroutines

\* What a goroutine has done to the context it holds, by the step it is at: the
\* cells of its match are there once it is prepared, and its own once recorded.
Holds(g)  == pc[g] = "idle" <=> mc[g] = NoContext
Bounded(g) == pc[g] \in {"prepare", "record", "select", "recap"} =>
                span[g].start <= span[g].end /\ span[g].end <= span[g].n
Roomy(g)  == pc[g] \in {"record", "select", "recap"} =>
                span[g].end < size[mc[g]] /\ Cells(size[mc[g]]) \subseteq DOMAIN PathOf(mc[g])
Based(g)  == pc[g] \in {"record", "select", "recap", "copy"} =>
                base[mc[g]] = Call(g) /\ regs[mc[g]] = Call(g)
Recorded(g) == pc[g] \in {"select", "recap"} =>
                /\ history[mc[g]] = {Call(g)}
                /\ \A p \in span[g].start..span[g].end : PathOf(mc[g])[p] = Call(g)
Own(g)    == read[g] \subseteq {Call(g)}

GoInv(g) == Holds(g) /\ Bounded(g) /\ Roomy(g) /\ Based(g) /\ Recorded(g) /\ Own(g)

IInv == Types /\ Exclusive /\ \A g \in Goroutines : GoInv(g)

\* --- frame ---------------------------------------------------------------
\* A goroutine whose own state and whose context stay as they are keeps what it
\* has.
LEMMA Frame ==
  ASSUME NEW g \in Goroutines, GoInv(g),
         pc'[g] = pc[g], mc'[g] = mc[g], span'[g] = span[g], calls'[g] = calls[g], read'[g] = read[g],
         mc[g] # NoContext => /\ PathOf(mc[g])' = PathOf(mc[g]) /\ size'[mc[g]] = size[mc[g]]
                              /\ history'[mc[g]] = history[mc[g]]
                              /\ base'[mc[g]] = base[mc[g]] /\ regs'[mc[g]] = regs[mc[g]]
  PROVE  GoInv(g)'
<1>1. Call(g)' = Call(g)
  BY DEF Call
<1>2. Holds(g)' /\ Bounded(g)' /\ Own(g)'
  BY <1>1 DEF GoInv, Holds, Bounded, Own
<1>3. CASE mc[g] = NoContext
  <2>1. pc[g] = "idle"
    BY <1>3 DEF GoInv, Holds
  <2>2. Roomy(g)' /\ Based(g)' /\ Recorded(g)'
    BY <2>1 DEF Roomy, Based, Recorded
  <2> QED BY <1>2, <2>2 DEF GoInv
<1>4. CASE mc[g] # NoContext
  <2>1. PathOf(mc[g])' = PathOf(mc[g]) /\ size'[mc[g]] = size[mc[g]]
    BY <1>4
  <2>2. Roomy(g)'
    BY <2>1 DEF GoInv, Roomy
  <2>3. Based(g)'
    BY <1>1, <1>4 DEF GoInv, Based
  <2>4. Recorded(g)'
    BY <1>1, <1>4, <2>1 DEF GoInv, Recorded
  <2> QED BY <1>2, <2>2, <2>3, <2>4 DEF GoInv
<1> QED BY <1>3, <1>4

\* The other goroutines hold other contexts: a step of one, on its own context,
\* changes nothing of theirs.
LEMMA Others ==
  ASSUME IInv, NEW g \in Goroutines, NEW h \in Goroutines, h # g,
         mc[g] # NoContext \/ UNCHANGED <<buf, path, inner, size, history, base, regs>>,
         \E w : pc' = [pc EXCEPT ![g] = w],
         mc'[h] = mc[h], span'[h] = span[h], calls'[h] = calls[h], read'[h] = read[h],
         \A d \in Contexts : d # mc[g] =>
           /\ buf'[d] = buf[d] /\ path'[d] = path[d] /\ inner'[d] = inner[d] /\ size'[d] = size[d]
           /\ history'[d] = history[d] /\ base'[d] = base[d] /\ regs'[d] = regs[d]
  PROVE  GoInv(h)'
<1>1. pc'[h] = pc[h]
  BY DEF IInv, Types
<1>2. ASSUME mc[h] # NoContext
      PROVE  /\ PathOf(mc[h])' = PathOf(mc[h]) /\ size'[mc[h]] = size[mc[h]]
             /\ history'[mc[h]] = history[mc[h]]
             /\ base'[mc[h]] = base[mc[h]] /\ regs'[mc[h]] = regs[mc[h]]
  <2>1. mc[h] \in Contexts /\ mc'[h] = mc[h]
    BY <1>2 DEF IInv, Types
  <2>2. CASE mc[g] # NoContext
    <3>1. mc[h] # mc[g]
      BY <1>2 DEF IInv, Exclusive
    <3> QED BY <2>1, <3>1 DEF PathOf
  <2>3. CASE UNCHANGED <<buf, path, inner, size, history, base, regs>>
    BY <2>1, <2>3 DEF PathOf
  <2> QED BY <2>2, <2>3
<1>3. GoInv(h)
  BY DEF IInv
<1> QED BY <1>1, <1>2, <1>3, Frame

\* A write to cells changes those cells and no others, in the array that
\* pathHistory is a slice of.
LEMMA WriteCells ==
  ASSUME Types, NEW c \in Contexts, NEW cells, NEW w, Write(c, cells, w), UNCHANGED inner
  PROVE  /\ DOMAIN buf' = Contexts /\ \A d \in Contexts : DOMAIN buf'[d] = Cells(BufSize)
         /\ DOMAIN path' = Contexts /\ \A d \in Contexts : IsCells(path'[d])
         /\ \A d \in Contexts : d # c => buf'[d] = buf[d] /\ path'[d] = path[d]
         /\ LET f == IF inner[c] THEN buf'[c] ELSE path'[c]
            IN  /\ DOMAIN f = DOMAIN PathOf(c)
                /\ \A p \in DOMAIN PathOf(c) : f[p] = IF p \in cells THEN w ELSE PathOf(c)[p]
<1>1. CASE inner[c]
  <2>1. /\ buf' = [buf EXCEPT ![c] = [p \in DOMAIN buf[c] |-> IF p \in cells THEN w ELSE buf[c][p]]]
        /\ path' = path
    BY <1>1 DEF Write, Marked
  <2> QED BY <1>1, <2>1 DEF Types, PathOf
<1>2. CASE ~inner[c]
  <2>1. /\ path' = [path EXCEPT ![c] = [p \in DOMAIN path[c] |-> IF p \in cells THEN w ELSE path[c][p]]]
        /\ buf' = buf
    BY <1>2 DEF Write, Marked
  <2> QED BY <1>2, <2>1 DEF Types, PathOf, IsCells
<1> QED BY <1>1, <1>2

\* Nobody holds a context at first, and none was made.
LEMMA InitInv == Init => IInv
<1> SUFFICES ASSUME Init PROVE IInv
  OBVIOUS
<1> USE DEF Init
<1>1. Types
  <2>1. \A c \in Contexts : DOMAIN buf[c] = Cells(BufSize)
    BY DEF Fresh
  <2>2. \A c \in Contexts : DOMAIN path[c] = Cells(0)
    BY DEF Cells
  <2> QED BY <2>1, <2>2, PoolAssumption DEF Types, Steps, Spans, NoSpan, IsCells
<1>2. Exclusive
  BY DEF Exclusive
<1>3. \A g \in Goroutines : GoInv(g)
  BY DEF GoInv, Holds, Bounded, Roomy, Based, Recorded, Own
<1> QED BY <1>1, <1>2, <1>3 DEF IInv

\* A step that leaves pool, made and mc alone keeps contexts apart.
LEMMA KeepsApart ==
  ASSUME Exclusive, UNCHANGED <<pool, made, mc>>
  PROVE  Exclusive'
BY DEF Exclusive

\* A context that is taken is free or was not made: nobody holds it.
LEMMA GetInv ==
  ASSUME IInv, NEW g \in Goroutines, Get(g)
  PROVE  IInv'
<1>1. PICK c \in pool \cup (Contexts \ made) :
        mc' = [mc EXCEPT ![g] = c] /\ pool' = pool \ {c} /\ made' = made \cup {c}
  BY DEF Get
<1>2. /\ pc[g] = "idle" /\ calls[g] < MaxCalls
      /\ calls' = [calls EXCEPT ![g] = @ + 1] /\ read' = [read EXCEPT ![g] = {}]
      /\ pc' = [pc EXCEPT ![g] = "search"]
      /\ UNCHANGED <<span, buf, path, inner, size, history, base, regs>>
  BY DEF Get
<1>3. c \in Contexts /\ c # NoContext /\ mc[g] = NoContext
  BY <1>1, <1>2, PoolAssumption DEF IInv, Types, GoInv, Holds
<1>4. \A h \in Goroutines : mc[h] # c
  BY <1>1, <1>3 DEF IInv, Exclusive
<1>5. Types'
  BY <1>1, <1>2, <1>3, PoolAssumption DEF IInv, Types, Steps
<1>6. Exclusive'
  <2>1. \A h \in Goroutines : mc'[h] = IF h = g THEN c ELSE mc[h]
    BY <1>1 DEF IInv, Types
  <2>2. {mc'[h] : h \in Goroutines} \ {NoContext} = ({mc[h] : h \in Goroutines} \ {NoContext}) \cup {c}
    BY <2>1, <1>3
  <2>3. made' = pool' \cup ({mc'[h] : h \in Goroutines} \ {NoContext})
    BY <2>2, <1>1 DEF IInv, Exclusive
  <2>4. \A h \in Goroutines : mc'[h] \notin pool'
    BY <2>1, <1>1 DEF IInv, Exclusive
  <2>5. \A h, k \in Goroutines : h # k /\ mc'[h] # NoContext => mc'[h] # mc'[k]
    BY <2>1, <1>3, <1>4 DEF IInv, Exclusive
  <2> QED BY <2>3, <2>4, <2>5 DEF Exclusive
<1>7. GoInv(g)'
  <2>1. pc'[g] = "search" /\ mc'[g] = c /\ read'[g] = {}
    BY <1>1, <1>2 DEF IInv, Types
  <2> QED BY <2>1, <1>3 DEF GoInv, Holds, Bounded, Roomy, Based, Recorded, Own
<1>8. ASSUME NEW h \in Goroutines, h # g PROVE GoInv(h)'
  <2>1. mc'[h] = mc[h] /\ calls'[h] = calls[h] /\ read'[h] = read[h]
    BY <1>1, <1>2, <1>8 DEF IInv, Types
  <2> QED BY <2>1, <1>2, <1>8, Others
<1> QED BY <1>5, <1>6, <1>7, <1>8 DEF IInv

\* The search touches no context.
LEMMA SearchInv ==
  ASSUME IInv, NEW g \in Goroutines, Search(g)
  PROVE  IInv'
<1>1. /\ pc[g] = "search"
      /\ UNCHANGED <<pool, made, calls, mc, buf, path, inner, size, history, base, regs, read>>
  BY DEF Search, poolVars
<1>2. \/ pc' = [pc EXCEPT ![g] = "put"] /\ UNCHANGED span
      \/ \E n, s, e \in Nat :
           /\ s <= e /\ e <= n
           /\ span' = [span EXCEPT ![g] = [n |-> n, start |-> s, end |-> e]]
           /\ pc' = [pc EXCEPT ![g] = "prepare"]
  <2>1. CASE pc' = [pc EXCEPT ![g] = "put"] /\ UNCHANGED span
    BY <2>1
  <2>2. ASSUME NEW n \in 0..MaxLength, NEW s \in 0..n, NEW e \in 0..n, s <= e,
               span' = [span EXCEPT ![g] = [n |-> n, start |-> s, end |-> e]],
               pc' = [pc EXCEPT ![g] = "prepare"]
        PROVE  \E m, t, f \in Nat :
                 /\ t <= f /\ f <= m
                 /\ span' = [span EXCEPT ![g] = [n |-> m, start |-> t, end |-> f]]
                 /\ pc' = [pc EXCEPT ![g] = "prepare"]
    <3>1. n \in Nat /\ s \in Nat /\ e \in Nat /\ e <= n
      BY PoolAssumption
    <3> QED BY <3>1, <2>2, Zenon
  <2> QED BY <2>1, <2>2 DEF Search
<1>3. Types'
  <2>1. pc' \in [Goroutines -> Steps]
    BY <1>2 DEF IInv, Types, Steps
  <2>2. ASSUME NEW n \in Nat, NEW s \in Nat, NEW e \in Nat PROVE [n |-> n, start |-> s, end |-> e] \in Spans
    BY DEF Spans
  <2>3. span' \in [Goroutines -> Spans]
    <3>1. CASE UNCHANGED span
      BY <3>1 DEF IInv, Types
    <3>2. ASSUME NEW n \in Nat, NEW s \in Nat, NEW e \in Nat,
                 span' = [span EXCEPT ![g] = [n |-> n, start |-> s, end |-> e]]
          PROVE  span' \in [Goroutines -> Spans]
      BY <2>2, <3>2 DEF IInv, Types
    <3> QED BY <1>2, <3>1, <3>2
  <2> QED BY <2>1, <2>3, <1>1 DEF IInv, Types, IsCells
<1>4. mc[g] # NoContext
  BY <1>1 DEF IInv, GoInv, Holds
<1>5. GoInv(g)'
  <2>1. Holds(g)' /\ Own(g)' /\ Based(g)' /\ Roomy(g)' /\ Recorded(g)'
    BY <1>1, <1>2, <1>4 DEF IInv, Types, GoInv, Holds, Own, Call, Based, Roomy, Recorded
  <2>2. Bounded(g)'
    BY <1>1, <1>2 DEF IInv, Types, Bounded
  <2> QED BY <2>1, <2>2 DEF GoInv
<1>6. ASSUME NEW h \in Goroutines, h # g PROVE GoInv(h)'
  <2>1. span'[h] = span[h]
    BY <1>2, <1>6 DEF IInv, Types
  <2> QED BY <2>1, <1>1, <1>2, <1>6, Others
<1> QED BY <1>1, <1>3, <1>5, <1>6, KeepsApart DEF IInv

\* An array of k cells has the capacity k.
LEMMA CellsCardinality ==
  ASSUME NEW k \in Nat
  PROVE  Cardinality(Cells(k)) = k
<1>1. Cells(k) = 0..(k - 1)
  BY DEF Cells
<1> QED BY <1>1, FS_Interval

\* Whichever array prepare takes, it can be cut to the required cells, and those
\* are enough for every position up to the end.
LEMMA PrepareInv ==
  ASSUME IInv, NEW g \in Goroutines, Prepare(g)
  PROVE  IInv'
<1> DEFINE c        == mc[g]
           required == Required(span[g].n)
           capacity == Cardinality(DOMAIN PathOf(c))
<1>1. /\ pc[g] = "prepare"
      /\ inner' = [inner EXCEPT ![c] = required <= BufSize] /\ size' = [size EXCEPT ![c] = required]
      /\ path' = IF required <= BufSize THEN [path EXCEPT ![c] = <<>>]
                 ELSE IF capacity < required THEN [path EXCEPT ![c] = Fresh(required)] ELSE path
      /\ history' = [history EXCEPT ![c] = {}]
      /\ base' = [base EXCEPT ![c] = Call(g)] /\ regs' = [regs EXCEPT ![c] = Call(g)]
      /\ pc' = [pc EXCEPT ![g] = "record"]
      /\ UNCHANGED <<pool, made, calls, mc, span, buf, read>>
  BY DEF Prepare, poolVars, goVars
<1>2. c \in Contexts /\ c # NoContext /\ span[g] \in Spans
  BY <1>1 DEF IInv, Types, GoInv, Holds
<1>3. required \in Nat /\ required = span[g].n + 2
  BY <1>2 DEF Required, Spans
<1>4. PICK k \in Nat : DOMAIN path[c] = Cells(k)
  BY <1>2 DEF IInv, Types, IsCells
<1>5. inner[c] \in BOOLEAN /\ (~inner[c] => capacity = k) /\ (inner[c] => capacity = BufSize)
  BY <1>2, <1>4, CellsCardinality, PoolAssumption DEF IInv, Types, PathOf
<1>6. DOMAIN path' = Contexts /\ IsCells(path'[c]) /\ \A d \in Contexts : d # c => path'[d] = path[d]
  <2>1. IsCells(<<>>)
    BY DEF IsCells, Cells
  <2>2. IsCells(Fresh(required))
    BY <1>3 DEF IsCells, Fresh
  <2>3. IsCells(path[c])
    BY <1>2 DEF IInv, Types
  <2> QED BY <2>1, <2>2, <2>3, <1>1, <1>2 DEF IInv, Types
<1>7. Types'
  BY <1>1, <1>2, <1>3, <1>6 DEF IInv, Types, Steps
<1>8. inner'[c] = (required <= BufSize) /\ size'[c] = required
  BY <1>1, <1>2 DEF IInv, Types
<1>9. span[g].end < required /\ Cells(required) \subseteq DOMAIN (IF inner'[c] THEN buf'[c] ELSE path'[c])
  <2>1. span[g].end < required
    BY <1>1, <1>2, <1>3 DEF IInv, GoInv, Bounded, Spans
  <2>2. CASE required <= BufSize
    <3>1. inner'[c] /\ DOMAIN buf'[c] = Cells(BufSize)
      BY <2>2, <1>1, <1>2, <1>8 DEF IInv, Types
    <3>2. Cells(required) \subseteq Cells(BufSize)
      BY <2>2, <1>3, PoolAssumption DEF Cells
    <3> QED BY <3>1, <3>2, <2>1
  <2>3. CASE ~(required <= BufSize) /\ capacity < required
    <3>1. ~inner'[c]
      BY <2>3, <1>8
    <3>2. path'[c] = Fresh(required)
      BY <2>3, <1>1, <1>2 DEF IInv, Types
    <3> QED BY <3>1, <3>2, <2>1 DEF Fresh
  <2>4. CASE ~(required <= BufSize) /\ ~(capacity < required)
    <3>1. ~inner'[c] /\ path'[c] = path[c]
      BY <2>4, <1>1, <1>8
    <3>2. Cells(required) \subseteq Cells(k)
      BY <2>4, <1>3, <1>4, <1>5, PoolAssumption DEF Cells
    <3> QED BY <3>1, <3>2, <2>1, <1>4
  <2> QED BY <2>2, <2>3, <2>4
<1>10. GoInv(g)'
  <2>1. pc'[g] = "record" /\ mc'[g] = c /\ span'[g] = span[g]
    BY <1>1 DEF IInv, Types
  <2>2. Roomy(g)'
    BY <2>1, <1>8, <1>9 DEF Roomy, PathOf
  <2>3. Based(g)'
    BY <2>1, <1>1, <1>2 DEF Based, Call, IInv, Types
  <2>4. Holds(g)' /\ Bounded(g)' /\ Recorded(g)' /\ Own(g)'
    BY <2>1, <1>1, <1>2 DEF IInv, GoInv, Holds, Bounded, Recorded, Own, Call
  <2> QED BY <2>2, <2>3, <2>4 DEF GoInv
<1>11. ASSUME NEW h \in Goroutines, h # g PROVE GoInv(h)'
  <2>1. \A d \in Contexts : d # c =>
          /\ buf'[d] = buf[d] /\ path'[d] = path[d] /\ inner'[d] = inner[d] /\ size'[d] = size[d]
          /\ history'[d] = history[d] /\ base'[d] = base[d] /\ regs'[d] = regs[d]
    BY <1>1, <1>6 DEF IInv, Types
  <2> QED BY <2>1, <1>1, <1>2, <1>11, Others
<1> QED BY <1>1, <1>7, <1>11, <1>10, KeepsApart DEF IInv

\* A step of a goroutine to w that writes cells of its match, its own history at
\* most and what it has read.
Writes(g, w, cells) ==
  /\ pc[g] \in {"record", "select"}
  /\ cells \subseteq span[g].start..span[g].end /\ Write(mc[g], cells, Call(g))
  /\ pc' = [pc EXCEPT ![g] = w]
  /\ UNCHANGED <<pool, made, calls, mc, span, inner, size, base, regs>>
  /\ DOMAIN history' = Contexts /\ \A d \in Contexts : d # mc[g] => history'[d] = history[d]
  /\ DOMAIN read' = Goroutines /\ \A h \in Goroutines : h # g => read'[h] = read[h]

\* What such a step leaves: its mark in the cells, the others as they were.
Marks(g, cells) ==
  /\ DOMAIN PathOf(mc[g])' = DOMAIN PathOf(mc[g])
  /\ \A p \in DOMAIN PathOf(mc[g]) :
       PathOf(mc[g])'[p] = IF p \in cells THEN Call(g) ELSE PathOf(mc[g])[p]

LEMMA WriteStep ==
  ASSUME IInv, NEW g \in Goroutines, NEW w \in Steps, NEW cells, Writes(g, w, cells)
  PROVE  /\ Types' /\ Exclusive' /\ \A h \in Goroutines : h # g => GoInv(h)'
         /\ mc[g] \in Contexts /\ mc[g] # NoContext
         /\ Marks(g, cells)
<1> USE DEF Writes
<1>1. mc[g] \in Contexts /\ mc[g] # NoContext
  BY DEF IInv, Types, GoInv, Holds
<1>2. Types
  BY DEF IInv
<1>3. /\ DOMAIN buf' = Contexts /\ \A d \in Contexts : DOMAIN buf'[d] = Cells(BufSize)
      /\ DOMAIN path' = Contexts /\ \A d \in Contexts : IsCells(path'[d])
      /\ \A d \in Contexts : d # mc[g] => buf'[d] = buf[d] /\ path'[d] = path[d]
  BY <1>1, <1>2, WriteCells
<1>4. LET f == IF inner[mc[g]] THEN buf'[mc[g]] ELSE path'[mc[g]]
      IN  /\ DOMAIN f = DOMAIN PathOf(mc[g])
          /\ \A p \in DOMAIN PathOf(mc[g]) : f[p] = IF p \in cells THEN Call(g) ELSE PathOf(mc[g])[p]
  BY <1>1, <1>2, WriteCells
<1>5. PathOf(mc[g])' = IF inner[mc[g]] THEN buf'[mc[g]] ELSE path'[mc[g]]
  BY DEF PathOf
<1>6. Types'
  BY <1>2, <1>3 DEF Types
<1>7. Exclusive'
  BY KeepsApart DEF IInv
<1>8. ASSUME NEW h \in Goroutines, h # g PROVE GoInv(h)'
  <2>1. \A d \in Contexts : d # mc[g] =>
          /\ buf'[d] = buf[d] /\ path'[d] = path[d] /\ inner'[d] = inner[d] /\ size'[d] = size[d]
          /\ history'[d] = history[d] /\ base'[d] = base[d] /\ regs'[d] = regs[d]
    BY <1>3
  <2> QED BY <2>1, <1>1, <1>8, Others
<1> QED BY <1>1, <1>4, <1>5, <1>6, <1>7, <1>8 DEF Marks

\* Pass 2 keeps the array of prepare, resets every cell of the match and writes
\* the whole history.
LEMMA RecordInv ==
  ASSUME IInv, NEW g \in Goroutines, Record(g)
  PROVE  IInv'
<1> DEFINE cells == span[g].start..span[g].end
<1>0. GoInv(g) /\ span[g] \in Spans /\ mc[g] \in Contexts /\ pc[g] = "record"
  BY DEF Record, IInv, Types, GoInv, Holds
<1>a. ~(span[g].end + 1 > size[mc[g]]) /\ cells \subseteq DOMAIN PathOf(mc[g])
  <2>1. size[mc[g]] \in Nat /\ span[g].end < size[mc[g]] /\ Cells(size[mc[g]]) \subseteq DOMAIN PathOf(mc[g])
    BY <1>0 DEF IInv, Types, GoInv, Roomy
  <2> QED BY <2>1, <1>0 DEF Spans, Cells
<1>1. /\ pc[g] = "record" /\ Write(mc[g], cells, Call(g))
      /\ history' = [history EXCEPT ![mc[g]] = {Call(g)}]
      /\ pc' = [pc EXCEPT ![g] = "select"]
      /\ UNCHANGED <<pool, made, calls, mc, span, inner, size, base, regs, read>>
  BY <1>a DEF Record, poolVars, goVars
<1>2. /\ DOMAIN history' = Contexts /\ \A d \in Contexts : d # mc[g] => history'[d] = history[d]
      /\ DOMAIN read' = Goroutines /\ \A h \in Goroutines : h # g => read'[h] = read[h]
  BY <1>1 DEF IInv, Types
<1>3. Writes(g, "select", cells) /\ "select" \in Steps
  BY <1>1, <1>2 DEF Steps, Writes
<1>4. /\ Types' /\ Exclusive' /\ \A h \in Goroutines : h # g => GoInv(h)'
      /\ mc[g] \in Contexts /\ mc[g] # NoContext
      /\ Marks(g, cells)
  BY <1>3, WriteStep
<1>5. GoInv(g)'
  <2>1. pc'[g] = "select" /\ Call(g)' = Call(g) /\ GoInv(g)
    BY <1>1 DEF IInv, Types, Call
  <2>2. Holds(g)' /\ Own(g)' /\ Bounded(g)' /\ Based(g)'
    BY <2>1, <1>1, <1>4 DEF GoInv, Holds, Own, Bounded, Based
  <2>3. Roomy(g)'
    BY <2>1, <1>1, <1>4 DEF GoInv, Roomy, Marks
  <2>4. history'[mc[g]] = {Call(g)}
    BY <1>1, <1>4 DEF IInv, Types
  <2>5. Recorded(g)'
    BY <2>1, <2>4, <1>a, <1>1, <1>4 DEF Recorded, Marks
  <2> QED BY <2>2, <2>3, <2>5 DEF GoInv
<1> QED BY <1>4, <1>5 DEF IInv

\* Pass 3 reads its own history and writes cells that are its own already.
LEMMA SelectInv ==
  ASSUME IInv, NEW g \in Goroutines, Select(g)
  PROVE  IInv'
<1>1. PICK first \in span[g].start..span[g].end : Write(mc[g], first..span[g].end, Call(g))
  BY DEF Select
<1> DEFINE cells == first..span[g].end
<1>2. /\ pc[g] = "select" /\ read' = [read EXCEPT ![g] = @ \cup history[mc[g]]]
      /\ pc' = [pc EXCEPT ![g] = "recap"]
      /\ UNCHANGED <<pool, made, calls, mc, span, inner, size, history, base, regs>>
  BY DEF Select, poolVars, goVars
<1>3. /\ DOMAIN history' = Contexts /\ \A d \in Contexts : d # mc[g] => history'[d] = history[d]
      /\ DOMAIN read' = Goroutines /\ \A h \in Goroutines : h # g => read'[h] = read[h]
  BY <1>2 DEF IInv, Types
<1>4. Writes(g, "recap", cells) /\ "recap" \in Steps
  <2>1. span[g] \in Spans
    BY DEF IInv, Types
  <2>2. cells \subseteq span[g].start..span[g].end
    BY <2>1 DEF Spans
  <2> QED BY <2>2, <1>1, <1>2, <1>3 DEF Steps, Writes
<1>5. /\ Types' /\ Exclusive' /\ \A h \in Goroutines : h # g => GoInv(h)'
      /\ mc[g] \in Contexts /\ mc[g] # NoContext
      /\ Marks(g, cells)
  BY <1>4, WriteStep
<1>6. GoInv(g)'
  <2>1. pc'[g] = "recap" /\ Call(g)' = Call(g) /\ GoInv(g)
    BY <1>2 DEF IInv, Types, Call
  <2>2. Holds(g)' /\ Bounded(g)' /\ Based(g)'
    BY <2>1, <1>2, <1>5 DEF GoInv, Holds, Bounded, Based
  <2>3. Roomy(g)'
    BY <2>1, <1>2, <1>5 DEF GoInv, Roomy, Marks
  <2>a. span[g].start..span[g].end \subseteq DOMAIN PathOf(mc[g])
    <3>1. /\ span[g] \in Spans /\ size[mc[g]] \in Nat /\ span[g].end < size[mc[g]]
          /\ Cells(size[mc[g]]) \subseteq DOMAIN PathOf(mc[g])
      BY <2>1, <1>2, <1>5 DEF IInv, Types, GoInv, Roomy
    <3> QED BY <3>1 DEF Spans, Cells
  <2>4. Recorded(g)'
    BY <2>1, <2>a, <1>2, <1>5 DEF GoInv, Recorded, Marks
  <2>5. read'[g] = read[g] \cup {Call(g)}
    BY <2>1, <1>2 DEF IInv, Types, GoInv, Recorded
  <2> QED BY <2>1, <2>2, <2>3, <2>4, <2>5 DEF GoInv, Own
<1> QED BY <1>5, <1>6 DEF IInv

\* A step that writes no cells and reads what is its own.
LEMMA ReadStep ==
  ASSUME IInv, NEW g \in Goroutines, NEW w \in Steps \ {"idle"}, pc[g] \in {"recap", "copy"},
         pc' = [pc EXCEPT ![g] = w], w \in {"copy", "put"},
         UNCHANGED <<pool, made, calls, mc, span, buf, path, inner, size, history, base>>,
         regs' = regs \/ regs' = [regs EXCEPT ![mc[g]] = Call(g)],
         NEW seen \in SUBSET {Call(g)}, read' = [read EXCEPT ![g] = @ \cup seen]
  PROVE  IInv'
<1>1. mc[g] \in Contexts /\ mc[g] # NoContext
  BY DEF IInv, Types, GoInv, Holds
<1>2. pc'[g] = w /\ read'[g] = read[g] \cup seen /\ Call(g)' = Call(g) /\ GoInv(g)
  BY DEF IInv, Types, Call
<1>3. Types'
  BY <1>1 DEF IInv, Types
<1>4. regs'[mc[g]] = Call(g)
  BY <1>1, <1>2 DEF IInv, Types, GoInv, Based
<1>5. GoInv(g)'
  <2>1. Holds(g)' /\ Own(g)'
    BY <1>1, <1>2 DEF GoInv, Holds, Own
  <2>2. Bounded(g)' /\ Roomy(g)' /\ Recorded(g)'
    BY <1>2 DEF Bounded, Roomy, Recorded
  <2>3. Based(g)'
    BY <1>2, <1>4 DEF GoInv, Based
  <2> QED BY <2>1, <2>2, <2>3 DEF GoInv
<1>6. ASSUME NEW h \in Goroutines, h # g PROVE GoInv(h)'
  <2>1. \A d \in Contexts : d # mc[g] => regs'[d] = regs[d]
    BY DEF IInv, Types
  <2>2. read'[h] = read[h]
    BY <1>6 DEF IInv, Types
  <2> QED BY <2>1, <2>2, <1>1, <1>6, Others
<1> QED BY <1>3, <1>5, <1>6, KeepsApart DEF IInv

\* Pass 4 reads the history, the cells of the match and the base.
LEMMA RecapInv ==
  ASSUME IInv, NEW g \in Goroutines, Recap(g)
  PROVE  IInv'
<1> DEFINE seen == history[mc[g]] \cup {base[mc[g]]}
                   \cup {PathOf(mc[g])[p] : p \in span[g].start..span[g].end}
<1>1. /\ pc[g] = "recap" /\ pc' = [pc EXCEPT ![g] = "copy"]
      /\ regs' = [regs EXCEPT ![mc[g]] = Call(g)]
      /\ UNCHANGED <<pool, made, calls, mc, span, buf, path, inner, size, history, base>>
  BY DEF Recap, poolVars, goVars
<1>2. GoInv(g)
  BY DEF IInv
<1>3. seen \in SUBSET {Call(g)}
  BY <1>1, <1>2 DEF GoInv, Based, Recorded
<1>4. read' = [read EXCEPT ![g] = @ \cup seen]
  BY DEF Recap
<1>5. "copy" \in Steps \ {"idle"} /\ "copy" \in {"copy", "put"}
  BY DEF Steps
<1> HIDE DEF seen
<1> QED BY <1>1, <1>3, <1>4, <1>5, ReadStep

\* The registers are copied while the context is still the call's.
LEMMA CopyInv ==
  ASSUME IInv, NEW g \in Goroutines, Copy(g)
  PROVE  IInv'
<1> DEFINE seen == {regs[mc[g]]}
<1>1. /\ pc[g] = "copy" /\ pc' = [pc EXCEPT ![g] = "put"] /\ regs' = regs
      /\ UNCHANGED <<pool, made, calls, mc, span, buf, path, inner, size, history, base>>
  BY DEF Copy, poolVars, goVars
<1>2. GoInv(g)
  BY DEF IInv
<1>3. seen \in SUBSET {Call(g)}
  BY <1>1, <1>2 DEF GoInv, Based
<1>4. read' = [read EXCEPT ![g] = @ \cup seen]
  BY DEF Copy
<1>5. "put" \in Steps \ {"idle"} /\ "put" \in {"copy", "put"}
  BY DEF Steps
<1> HIDE DEF seen
<1> QED BY <1>1, <1>3, <1>4, <1>5, ReadStep

\* What is put back is held by nobody.
LEMMA PutInv ==
  ASSUME IInv, NEW g \in Goroutines, Put(g)
  PROVE  IInv'
<1>1. /\ pc[g] = "put" /\ pool' = pool \cup {mc[g]}
      /\ mc' = [mc EXCEPT ![g] = NoContext] /\ span' = [span EXCEPT ![g] = NoSpan]
      /\ pc' = [pc EXCEPT ![g] = "idle"]
      /\ UNCHANGED <<made, calls, buf, path, inner, size, history, base, regs, read>>
  BY DEF Put
<1>2. mc[g] \in Contexts /\ mc[g] # NoContext /\ mc[g] \in made
  BY <1>1 DEF IInv, Types, GoInv, Holds, Exclusive
<1>3. \A h \in Goroutines : mc'[h] = IF h = g THEN NoContext ELSE mc[h]
  BY <1>1 DEF IInv, Types
<1>4. Types'
  <2>1. NoSpan \in Spans /\ "idle" \in Steps
    BY DEF NoSpan, Spans, Steps
  <2> QED BY <1>1, <1>2, <2>1 DEF IInv, Types, IsCells
<1>5. Exclusive'
  <2>1. {mc[h] : h \in Goroutines} \ {NoContext} = ({mc'[h] : h \in Goroutines} \ {NoContext}) \cup {mc[g]}
    BY <1>2, <1>3
  <2>2. made' = pool' \cup ({mc'[h] : h \in Goroutines} \ {NoContext})
    BY <2>1, <1>1 DEF IInv, Exclusive
  <2>3. NoContext \notin pool'
    BY <1>1, <1>2, PoolAssumption DEF IInv, Types
  <2>4. \A h \in Goroutines : mc'[h] \notin pool'
    BY <2>3, <1>1, <1>2, <1>3 DEF IInv, Exclusive
  <2>5. \A h, k \in Goroutines : h # k /\ mc'[h] # NoContext => mc'[h] # mc'[k]
    BY <1>3 DEF IInv, Exclusive
  <2> QED BY <2>2, <2>4, <2>5 DEF Exclusive
<1>6. GoInv(g)'
  <2>1. pc'[g] = "idle" /\ mc'[g] = NoContext /\ Call(g)' = Call(g) /\ read'[g] = read[g] /\ GoInv(g)
    BY <1>1, <1>3 DEF IInv, Types, Call
  <2> QED BY <2>1 DEF GoInv, Holds, Bounded, Roomy, Based, Recorded, Own
<1>7. ASSUME NEW h \in Goroutines, h # g PROVE GoInv(h)'
  <2>1. mc'[h] = mc[h] /\ span'[h] = span[h]
    BY <1>1, <1>7 DEF IInv, Types
  <2> QED BY <2>1, <1>1, <1>7, Others
<1> QED BY <1>4, <1>5, <1>6, <1>7 DEF IInv

\* A context that the collector drops is held by nobody.
LEMMA DropInv ==
  ASSUME IInv, Drop
  PROVE  IInv'
<1>1. PICK c \in pool :
        /\ pool' = pool \ {c} /\ made' = made \ {c}
        /\ buf' = [buf EXCEPT ![c] = Fresh(BufSize)] /\ path' = [path EXCEPT ![c] = <<>>]
        /\ inner' = [inner EXCEPT ![c] = FALSE] /\ size' = [size EXCEPT ![c] = 0]
        /\ history' = [history EXCEPT ![c] = {}]
        /\ base' = [base EXCEPT ![c] = Nobody] /\ regs' = [regs EXCEPT ![c] = Nobody]
        /\ UNCHANGED <<calls, mc, span, pc, read>>
  BY DEF Drop, goVars
<1>2. c \in Contexts /\ \A g \in Goroutines : mc[g] # c
  BY DEF IInv, Types, Exclusive
<1>3. Types'
  <2>1. DOMAIN Fresh(BufSize) = Cells(BufSize) /\ IsCells(<<>>)
    BY DEF Fresh, IsCells, Cells
  <2>2. DOMAIN path' = Contexts /\ \A d \in Contexts : IsCells(path'[d])
    BY <2>1, <1>1, <1>2 DEF IInv, Types
  <2> QED BY <2>1, <2>2, <1>1, <1>2 DEF IInv, Types
<1>4. Exclusive'
  BY <1>1, <1>2 DEF IInv, Exclusive
<1>5. ASSUME NEW h \in Goroutines PROVE GoInv(h)'
  <2>1. ASSUME mc[h] # NoContext
        PROVE  /\ PathOf(mc[h])' = PathOf(mc[h]) /\ size'[mc[h]] = size[mc[h]]
               /\ history'[mc[h]] = history[mc[h]]
               /\ base'[mc[h]] = base[mc[h]] /\ regs'[mc[h]] = regs[mc[h]]
    <3>1. mc[h] \in Contexts /\ mc[h] # c /\ mc'[h] = mc[h]
      BY <1>1, <1>2, <2>1 DEF IInv, Types
    <3> QED BY <3>1, <1>1 DEF IInv, Types, PathOf
  <2> QED BY <2>1, <1>1, Frame DEF IInv
<1> QED BY <1>3, <1>4, <1>5 DEF IInv

\* Nothing moves.
LEMMA StutterInv == IInv /\ UNCHANGED vars => IInv'
<1> SUFFICES ASSUME IInv, UNCHANGED vars PROVE IInv'
  OBVIOUS
<1> USE DEF vars
<1>1. Types' /\ Exclusive'
  BY DEF IInv, Types, IsCells, Exclusive
<1>2. ASSUME NEW h \in Goroutines PROVE GoInv(h)'
  <2>1. PathOf(mc[h])' = PathOf(mc[h]) /\ size'[mc[h]] = size[mc[h]]
    BY DEF PathOf
  <2> QED BY <2>1, Frame DEF IInv
<1> QED BY <1>1, <1>2 DEF IInv

\* --- theorems ------------------------------------------------------------
THEOREM Inductive == Spec => []IInv
<1>1. Init => IInv
  BY InitInv
<1>2. IInv /\ [Next]_vars => IInv'
  <2> SUFFICES ASSUME IInv, [Next]_vars PROVE IInv'
    OBVIOUS
  <2>1. CASE Drop
    BY <2>1, DropInv
  <2>2. ASSUME NEW g \in Goroutines, Step(g) PROVE IInv'
    BY <2>2, GetInv, SearchInv, PrepareInv, RecordInv, SelectInv, RecapInv, CopyInv, PutInv DEF Step
  <2>3. CASE UNCHANGED vars
    BY <2>3, StutterInv
  <2> QED BY <2>1, <2>2, <2>3 DEF Next
<1> QED BY <1>1, <1>2, PTL DEF Spec

\* The pool and the calls keep their types (matchContextPool, findSubmatchIndexAt).
THEOREM TypeCorrect == Spec => []TypeOK
<1>1. IInv => TypeOK
  BY DEF IInv, Types, Steps, TypeOK
<1> QED BY <1>1, Inductive, PTL

\* However many goroutines search one Regexp, no two work on one context, and
\* none is lost.
THEOREM ContextsAreExclusive == Spec => []Exclusive
<1>1. IInv => Exclusive
  BY DEF IInv
<1> QED BY <1>1, Inductive, PTL

\* Whatever earlier and concurrent calls leave in a context, a call reads only
\* what it wrote itself.
THEOREM CallsAreIsolated == Spec => []ReadsOwnWrites
<1>1. IInv => ReadsOwnWrites
  BY DEF IInv, GoInv, Own, ReadsOwnWrites
<1> QED BY <1>1, Inductive, PTL

\* For every length of the text, every size of the inner buffers and whatever
\* array an earlier call has left, prepare cuts pathHistory to a length beyond the
\* match's end, so that resetForRecording never replaces it.
THEOREM CellsAreThere == Spec => []CellsExist
<1>1. IInv => CellsExist
  BY DEF IInv, GoInv, Roomy, CellsExist
<1> QED BY <1>1, Inductive, PTL
=============================================================================
