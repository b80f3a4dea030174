----------------------------- MODULE BuilderProofs ----------------------------
(***************************************************************************)
(* Theorems about the construction, for any programs, any limit and either *)
(* identity of states: the builder has one state for each identity, stays  *)
(* under its limit and finishes a well formed table; and so the theorems   *)
(* about the passes hold for what Compile returns.                         *)
(***************************************************************************)
EXTENDS Matcher, ScanProofs, FiniteSetTheorems

\* --- sequences -----------------------------------------------------------
LEMMA Flattened ==
  ASSUME NEW S, NEW ss \in Seq(Seq(S))
  PROVE  FlattenSeq(ss) \in Seq(S)
<1> DEFINE n == Len(ss)
           F == [e \in Seq(S) \X Int |-> IF e[2] \in 1..n THEN e[1] \o ss[e[2]] ELSE e[1]]
<1>0. n \in Nat /\ \A k \in 1..n : ss[k] \in Seq(S)
  BY LenProperties, ElementOfSeq
<1>1. CASE n = 0
  <2>1. ss = <<>>
    BY <1>1, EmptySeq
  <2>2. <<>> \in Seq(S)
    BY EmptySeq
  <2> QED BY <2>1, <2>2, <1>1 DEF FlattenSeq
<1>2. CASE n # 0
  <2>1. F \in [Seq(S) \X Int -> Seq(S)]
    <3>1. ASSUME NEW x \in Seq(S), NEW k \in Int
          PROVE  (IF k \in 1..n THEN x \o ss[k] ELSE x) \in Seq(S)
      <4>1. ASSUME k \in 1..n PROVE x \o ss[k] \in Seq(S)
        <5>1. ss[k] \in Seq(S)
          BY <4>1, <1>0
        <5> HIDE DEF n
        <5> QED BY <5>1, ConcatProperties
      <4> HIDE DEF n
      <4> QED BY <4>1
    <3> HIDE DEF n
    <3> QED BY <3>1
  <2>2. ss[1] \in Seq(S) /\ n \in Int /\ 1 \in Int
    BY <1>0, <1>2
  <2>3. PICK f \in [1..n -> Seq(S)] : Recursive(f, ss[1], 1, n, F)
    <3> HIDE DEF F, n
    <3> QED BY <2>1, <2>2, IntervalRecursion
  <2>4. ASSUME NEW k \in 1..n, k # 1 PROVE F[<<f[k - 1], k>>] = f[k - 1] \o ss[k]
    <3>1. k - 1 \in 1..n /\ k \in Int
      BY <1>0, <2>4
    <3>2. f[k - 1] \in Seq(S)
      BY <2>3, <3>1
    <3> HIDE DEF n
    <3> QED BY <3>1, <3>2
  <2> HIDE DEF F
  <2>5. f = [k \in 1..n |-> IF k = 1 THEN ss[k] ELSE f[k - 1] \o ss[k]]
    <3> HIDE DEF n
    <3> QED BY <2>3, <2>4 DEF Recursive
  <2> DEFINE Is(g) == g = [k \in 1..n |-> IF k = 1 THEN ss[k] ELSE g[k - 1] \o ss[k]]
             flat == CHOOSE g : Is(g)
  <2>6. Is(flat)
    <3>1. \E g : Is(g)
      BY <2>5
    <3> QED BY <3>1
  <2>7. FlattenSeq(ss) = flat[n]
    BY <1>0, <1>2 DEF FlattenSeq
  <2> HIDE DEF flat, n
  <2> DEFINE T == {k \in 1..n : flat[k] \in Seq(S)}
  <2>8. 1 \in T
    <3>1. 1 \in 1..n
      BY <1>0, <1>2
    <3>2. flat[1] = ss[1]
      BY <2>6, <3>1
    <3> QED BY <3>1, <3>2, <1>0
  <2>9. ASSUME NEW k \in 1..(n - 1), k \in T PROVE k + 1 \in T
    <3>1. k + 1 \in 1..n /\ k + 1 # 1 /\ (k + 1) - 1 = k
      BY <1>0, <2>9
    <3>2. flat[k + 1] = flat[k] \o ss[k + 1]
      BY <2>6, <3>1
    <3>3. ss[k + 1] \in Seq(S) /\ flat[k] \in Seq(S)
      BY <3>1, <1>0, <2>9
    <3>4. flat[k] \o ss[k + 1] \in Seq(S)
      BY <3>3, ConcatProperties
    <3> QED BY <3>1, <3>2, <3>4
  <2>10. Inductive(T, 1, n)
    <3> HIDE DEF T
    <3> QED BY <2>8, <2>9 DEF Inductive
  <2>11. 1..n \subseteq T
    <3> HIDE DEF T
    <3> QED BY <1>0, <2>10, IntervalInduction
  <2>12. n \in T
    <3> HIDE DEF T
    <3> QED BY <1>0, <1>2, <2>11
  <2> QED BY <2>7, <2>12
<1> QED BY <1>1, <1>2

\* What is no sequence but the empty one has a length.
LEMMA Filled ==
  ASSUME NEW S, NEW seq \in Seq(S), seq # <<>>
  PROVE  Len(seq) \in Nat \ {0} /\ DOMAIN seq = 1..Len(seq) /\ 1 \in DOMAIN seq
<1>1. Len(seq) \in Nat \ {0}
  BY EmptySeq
<1> QED BY <1>1, LenProperties

\* --- what is built -------------------------------------------------------
Paths(p) == [id : DOMAIN p.inst, node : Seq(Bytes), prio : Nat, anchors : SUBSET Conditions, tags : SUBSET Nat]

UpdateRecs == [rel : Int, next : Int, isMatch : BOOLEAN, pre : SUBSET Nat, post : SUBSET Nat]

\* A set of paths that the epsilon closure does not leave, whatever the
\* priorities, the conditions and the tags.
Steady(p, S) ==
  /\ S \subseteq Paths(p)
  /\ \A q \in S, r \in Paths(p) :
       r.node = q.node /\ (r.id = q.id \/ (q.node = <<>> /\ r.id \in EpsilonEdges(p.inst[q.id]))) => r \in S

\* The instructions a pattern that needs a byte reaches without one.
Byteless(p) == CHOOSE M \in SUBSET DOMAIN p.inst : NoMatchWithin(p, M)

Kinds == {"any", "halfway", "byteless"}

\* All the paths, those inside a rune, and those no byte was read on.
OfKind(p, kind) ==
  {q \in Paths(p) : /\ kind = "halfway" => q.node # <<>>
                    /\ kind = "byteless" /\ p.minLength # 0 => q.node = <<>> /\ q.id \in Byteless(p)}

\* A closure in the cache.
ResultOK(p, res) ==
  /\ res.paths \in Seq(Paths(p)) /\ res.updates \in Seq(UpdateRecs) /\ res.guard \subseteq Conditions
  /\ res.updates = <<>> => res.paths = <<>>

\* The loop of a closure while it runs on paths of S.
Pending(S) == [p : S, newTags : SUBSET Nat, source : Nat, preTags : SUBSET Nat]

LoopOK(S, c) ==
  /\ DOMAIN c = {"open", "stack", "best", "updates", "res", "matchPrio", "guard"} /\ c.open = TRUE
  /\ c.stack \in Seq(Pending(S)) /\ c.updates \in Seq(UpdateRecs) /\ c.guard \subseteq Conditions
  /\ IsFiniteSet(DOMAIN c.res) /\ \A k \in DOMAIN c.res : c.res[k] \in S
  /\ c.updates = <<>> => DOMAIN c.res = {}

LEMMA PathTypes ==
  ASSUME NEW p, NEW q \in Paths(p)
  PROVE  /\ q.id \in DOMAIN p.inst /\ q.node \in Seq(Bytes) /\ q.prio \in Nat
         /\ q.anchors \subseteq Conditions /\ q.tags \subseteq Nat
BY DEF Paths

LEMMA KindsSteady ==
  ASSUME NEW p, ProgramOK(p), NEW kind \in Kinds
  PROVE  Steady(p, OfKind(p, kind))
<1> DEFINE S == OfKind(p, kind)
<1>1. ASSUME NEW q \in S, NEW r \in Paths(p), r.node = q.node,
             r.id = q.id \/ (q.node = <<>> /\ r.id \in EpsilonEdges(p.inst[q.id]))
      PROVE  r \in S
  <2>1. CASE kind # "byteless" \/ p.minLength = 0
    BY <1>1, <2>1 DEF OfKind
  <2>2. CASE kind = "byteless" /\ p.minLength # 0
    <3>1. Byteless(p) \in SUBSET DOMAIN p.inst /\ NoMatchWithin(p, Byteless(p))
      BY <2>2 DEF ProgramOK, Byteless
    <3>2. q.id \in Byteless(p) /\ q.node = <<>>
      BY <1>1, <2>2 DEF OfKind
    <3>3. r.id \in Byteless(p)
      BY <1>1, <3>1, <3>2 DEF NoMatchWithin
    <3> QED BY <1>1, <2>2, <3>2, <3>3 DEF OfKind
  <2> QED BY <2>1, <2>2
<1>2. S \subseteq Paths(p)
  BY DEF OfKind
<1> QED BY <1>1, <1>2 DEF Steady

LEMMA AnyIsAll == ASSUME NEW p PROVE OfKind(p, "any") = Paths(p)
BY DEF OfKind

\* The kind of a path is a matter of its instruction and of its node.
LEMMA SameKind ==
  ASSUME NEW p, NEW kind \in Kinds, NEW a \in Seq(OfKind(p, kind)), NEW b \in Seq(Paths(p)),
         Identity(a) = Identity(b)
  PROVE  b \in Seq(OfKind(p, kind))
<1>1. DOMAIN a = 1..Len(a) /\ DOMAIN b = 1..Len(b) /\ Len(b) \in Nat
  BY LenProperties
<1>2. DOMAIN Identity(a) = DOMAIN a /\ DOMAIN Identity(b) = DOMAIN b
  BY DEF Identity
<1>3. ASSUME NEW k \in 1..Len(b) PROVE b[k] \in OfKind(p, kind)
  <2>1. k \in DOMAIN a /\ k \in DOMAIN b /\ k \in 1..Len(a)
    BY <1>1, <1>2, <1>3
  <2>2. Identity(a)[k] = Identity(b)[k]
    OBVIOUS
  <2>3. Key(a[k]) = Key(b[k])
    <3>1. CASE Naked
      BY <3>1, <2>1, <2>2 DEF Identity
    <3>2. CASE ~Naked
      BY <3>2, <2>1, <2>2 DEF Identity
    <3> QED BY <3>1, <3>2
  <2>4. a[k].id = b[k].id /\ a[k].node = b[k].node
    BY <2>3 DEF Key
  <2>5. a[k] \in OfKind(p, kind) /\ b[k] \in Paths(p)
    BY <1>3, <2>1, ElementOfSeq
  <2> QED BY <2>4, <2>5 DEF OfKind
<1>4. b = [k \in 1..Len(b) |-> b[k]]
  BY <1>1
<1> QED BY <1>1, <1>3, <1>4

LEMMA Sequenced ==
  ASSUME NEW S, NEW n \in Nat, NEW f \in [1..n -> S]
  PROVE  f \in Seq(S) /\ Len(f) = n
<1>1. f \in Seq(S) /\ DOMAIN f = 1..n
  OBVIOUS
<1>2. Len(f) \in Nat /\ DOMAIN f = 1..Len(f)
  BY <1>1, LenProperties
<1> QED BY <1>1, <1>2

\* --- priorities ----------------------------------------------------------
LEMMA Smallest ==
  ASSUME NEW T \in SUBSET Nat, T # {}
  PROVE  Min(T) \in T /\ \A y \in T : Min(T) <= y
BY LeastElement DEF Min

LEMMA LeastPrioIs ==
  ASSUME NEW p, NEW paths \in Seq(Paths(p)), paths # <<>>
  PROVE  /\ LeastPrio(paths) \in Nat
         /\ \A k \in DOMAIN paths : LeastPrio(paths) <= paths[k].prio
         /\ \E k \in DOMAIN paths : LeastPrio(paths) = paths[k].prio
<1> DEFINE T == {paths[k].prio : k \in DOMAIN paths}
<1>1. \A k \in DOMAIN paths : paths[k].prio \in Nat
  BY LenProperties, ElementOfSeq, PathTypes
<1>2. T \in SUBSET Nat /\ T # {}
  BY <1>1, Filled
<1>3. Min(T) \in T /\ \A y \in T : Min(T) <= y
  <2> HIDE DEF T
  <2> QED BY <1>2, Smallest
<1>4. LeastPrio(paths) = Min(T)
  BY DEF LeastPrio
<1> QED BY <1>1, <1>3, <1>4

\* A path with another priority is one of the same set.
LEMMA Reprioritised ==
  ASSUME NEW p, NEW S, Steady(p, S), NEW q \in S, NEW n \in Nat
  PROVE  /\ [q EXCEPT !.prio = n] \in S
         /\ Key([q EXCEPT !.prio = n]) = Key(q) /\ [q EXCEPT !.prio = n].prio = n
         /\ [q EXCEPT !.prio = n].tags = q.tags
<1>1. q \in Paths(p)
  BY DEF Steady
<1>2. [q EXCEPT !.prio = n] \in Paths(p)
  BY <1>1 DEF Paths
<1>3. [q EXCEPT !.prio = n].id = q.id /\ [q EXCEPT !.prio = n].node = q.node
      /\ [q EXCEPT !.prio = n].anchors = q.anchors /\ [q EXCEPT !.prio = n].prio = n
      /\ [q EXCEPT !.prio = n].tags = q.tags
  BY <1>1 DEF Paths
<1>4. [q EXCEPT !.prio = n] \in S
  BY <1>2, <1>3 DEF Steady
<1> QED BY <1>3, <1>4 DEF Key

LEMMA Lowered ==
  ASSUME NEW p, NEW S, Steady(p, S), NEW paths \in Seq(S)
  PROVE  /\ Lower(paths) \in Seq(S) /\ DOMAIN Lower(paths) = DOMAIN paths
         /\ \A k \in DOMAIN paths : /\ Key(Lower(paths)[k]) = Key(paths[k])
                                    /\ Lower(paths)[k].tags = paths[k].tags
                                    /\ Lower(paths)[k].prio = paths[k].prio - LeastPrio(paths)
<1>1. paths \in Seq(Paths(p))
  BY SeqMonotonic DEF Steady
<1>2. ASSUME NEW k \in DOMAIN paths PROVE paths[k].prio - LeastPrio(paths) \in Nat /\ paths[k] \in S
  <2>1. paths # <<>>
    BY <1>2
  <2>2. LeastPrio(paths) \in Nat /\ LeastPrio(paths) <= paths[k].prio
    BY <1>1, <1>2, <2>1, LeastPrioIs
  <2>3. paths[k] \in S /\ paths[k] \in Paths(p)
    BY <1>1, <1>2, LenProperties, ElementOfSeq
  <2>4. paths[k].prio \in Nat
    BY <2>3, PathTypes
  <2> QED BY <2>2, <2>3, <2>4
<1> DEFINE Low(k) == [paths[k] EXCEPT !.prio = paths[k].prio - LeastPrio(paths)]
<1>3. Lower(paths) = [k \in DOMAIN paths |-> Low(k)]
  BY DEF Lower
<1>4. ASSUME NEW k \in DOMAIN paths
      PROVE  Low(k) \in S /\ Key(Low(k)) = Key(paths[k]) /\ Low(k).tags = paths[k].tags
             /\ Low(k).prio = paths[k].prio - LeastPrio(paths)
  BY <1>2, Reprioritised
<1> HIDE DEF Low
<1>5. Lower(paths) \in Seq(S)
  <2>1. Lower(paths) \in [1..Len(paths) -> S] /\ Len(paths) \in Nat
    BY <1>3, <1>4, LenProperties
  <2> QED BY <2>1, Sequenced
<1> QED BY <1>3, <1>4, <1>5

LEMMA Empty == Lower(<<>>) = <<>> /\ LeastPrio(<<>>) = Infinity
BY DEF Lower, LeastPrio

\* The identity of a path list is that of its lowered form.
LEMMA IdentityOfLower ==
  ASSUME NEW p, ProgramOK(p), NEW paths \in Seq(Paths(p))
  PROVE  Identity(Lower(paths)) = Identity(paths)
<1>1. Steady(p, Paths(p))
  BY KindsSteady, AnyIsAll DEF Kinds
<1> DEFINE low == Lower(paths)
<1>2. /\ low \in Seq(Paths(p)) /\ DOMAIN low = DOMAIN paths
      /\ \A k \in DOMAIN paths : /\ Key(low[k]) = Key(paths[k]) /\ low[k].tags = paths[k].tags
                                 /\ low[k].prio = paths[k].prio - LeastPrio(paths)
  BY <1>1, Lowered
<1>3. /\ Lower(low) \in Seq(Paths(p)) /\ DOMAIN Lower(low) = DOMAIN low
      /\ \A k \in DOMAIN low : Lower(low)[k].prio = low[k].prio - LeastPrio(low)
  <2> HIDE DEF low
  <2> QED BY <1>1, <1>2, Lowered
<1> HIDE DEF low
<1>4. ASSUME NEW k \in DOMAIN paths PROVE Lower(low)[k].prio = low[k].prio
  <2>1. paths # <<>> /\ low # <<>>
    BY <1>2, <1>4
  <2>2. /\ LeastPrio(paths) \in Nat /\ \A j \in DOMAIN paths : LeastPrio(paths) <= paths[j].prio
        /\ \E j \in DOMAIN paths : LeastPrio(paths) = paths[j].prio
    BY <2>1, LeastPrioIs
  <2>3. /\ LeastPrio(low) \in Nat /\ \A j \in DOMAIN low : LeastPrio(low) <= low[j].prio
        /\ \E j \in DOMAIN low : LeastPrio(low) = low[j].prio
    BY <1>2, <2>1, LeastPrioIs
  <2>4. \A j \in DOMAIN low : low[j].prio \in Nat
    BY <1>2, LenProperties, ElementOfSeq, PathTypes
  <2>5. LeastPrio(low) = 0
    <3>1. PICK j \in DOMAIN paths : LeastPrio(paths) = paths[j].prio
      BY <2>2
    <3>2. low[j].prio = LeastPrio(paths) - LeastPrio(paths) /\ LeastPrio(low) <= low[j].prio
      BY <1>2, <2>3, <3>1
    <3> QED BY <2>2, <2>3, <3>2
  <2> QED BY <1>2, <1>3, <1>4, <2>4, <2>5
<1>5. Identity(low) = Identity(paths)
  <2>1. CASE Naked
    BY <2>1, <1>2 DEF Identity
  <2>2. CASE ~Naked
    <3>1. \A k \in DOMAIN paths : <<Key(low[k]), Lower(low)[k].prio, low[k].tags>> = <<Key(paths[k]), low[k].prio, paths[k].tags>>
      BY <1>2, <1>4
    <3> QED BY <2>2, <1>2, <3>1 DEF Identity, low
  <2> QED BY <2>1, <2>2
<1> QED BY <1>5 DEF low

\* --- reading a byte ------------------------------------------------------
\* After a lead byte every path is inside a rune.
LEMMA StepKind ==
  ASSUME NEW p, ProgramOK(p), NEW q \in Paths(p), NEW b \in Bytes, NEW kind \in {"any", "halfway"},
         kind = "halfway" => b \in Lead
  PROVE  StepOn(p.inst, q, b) \in Seq(OfKind(p, kind))
<1> DEFINE read == Append(q.node, b)
           inst == p.inst[q.id]
           runes == IF inst.op = "rune" THEN inst.runes ELSE {}
<1>1. q.id \in DOMAIN p.inst /\ q.node \in Seq(Bytes) /\ q.prio \in Nat /\ q.tags \subseteq Nat
  BY PathTypes
<1>2. InstructionOK(inst, DOMAIN p.inst)
  BY <1>1 DEF ProgramOK
<1>3. read \in Seq(Bytes) /\ read # <<>> /\ Len(read) = Len(q.node) + 1 /\ read[Len(read)] = b
      /\ Len(read) \in DOMAIN read
  BY <1>1, AppendProperties, LenProperties
<1> HIDE DEF read
<1>4. ASSUME NEW r \in Paths(p), kind = "halfway" => r.node # <<>>
      PROVE  <<r>> \in Seq(OfKind(p, kind))
  <2>1. r \in OfKind(p, kind)
    BY <1>4 DEF OfKind
  <2> QED BY <2>1
<1>5. CASE read \in runes
  <2>1. inst.op = "rune" /\ read \in inst.runes /\ RuneOK(read) /\ inst.out \in DOMAIN p.inst
    BY <1>5, <1>2 DEF InstructionOK
  <2>2. b \notin Lead
    <3>1. SUFFICES ASSUME b \in Lead PROVE FALSE
      OBVIOUS
    <3>2. Len(read) = 1 /\ Len(read) > 1
      BY <2>1, <1>3, <3>1 DEF RuneOK
    <3> QED BY <3>2
  <2>3. Path(inst.out, <<>>, q.prio, q.tags) \in Paths(p)
    <3>1. <<>> \in Seq(Bytes)
      BY EmptySeq
    <3> QED BY <1>1, <2>1, <3>1 DEF Path, Paths
  <2>4. StepOn(p.inst, q, b) = <<Path(inst.out, <<>>, q.prio, q.tags)>>
    BY <1>5 DEF StepOn, read
  <2> QED BY <1>4, <2>2, <2>3, <2>4
<1>6. CASE read \notin runes /\ \E r \in runes : IsStrictPrefix(read, r)
  <2>1. StepOn(p.inst, q, b) = <<Path(q.id, read, q.prio, q.tags)>>
    BY <1>6 DEF StepOn, read
  <2>2. Path(q.id, read, q.prio, q.tags) \in Paths(p)
    BY <1>1, <1>3 DEF Path, Paths
  <2>3. Path(q.id, read, q.prio, q.tags).node # <<>>
    BY <1>3 DEF Path
  <2> QED BY <1>4, <2>1, <2>2, <2>3
<1>7. CASE read \notin runes /\ ~\E r \in runes : IsStrictPrefix(read, r)
  <2>1. StepOn(p.inst, q, b) = <<>>
    BY <1>7 DEF StepOn, read
  <2> QED BY <2>1, EmptySeq
<1> QED BY <1>5, <1>6, <1>7

LEMMA PathsOnKind ==
  ASSUME ProgramOK(prog), NEW s, s.paths \in Seq(Paths(prog)), NEW b \in Bytes,
         NEW kind \in {"any", "halfway"}, kind = "halfway" => b \in Lead
  PROVE  PathsOn(s, b) \in Seq(OfKind(prog, kind))
<1> DEFINE S == OfKind(prog, kind)
           ss == [k \in DOMAIN s.paths |-> StepOn(prog.inst, s.paths[k], b)]
<1>1. DOMAIN s.paths = 1..Len(s.paths) /\ Len(s.paths) \in Nat
  BY LenProperties
<1>2. ASSUME NEW k \in DOMAIN s.paths PROVE StepOn(prog.inst, s.paths[k], b) \in Seq(S)
  <2>1. s.paths[k] \in Paths(prog)
    BY <1>1, <1>2, ElementOfSeq
  <2> QED BY <2>1, StepKind
<1> HIDE DEF S
<1>3. ss \in [1..Len(s.paths) -> Seq(S)]
  BY <1>1, <1>2
<1> HIDE DEF ss
<1>4. ss \in Seq(Seq(S))
  BY <1>1, <1>3, Sequenced
<1>5. FlattenSeq(ss) \in Seq(S)
  BY <1>4, Flattened
<1> QED BY <1>5 DEF PathsOn, ss, S

\* Nothing is reached from no path.
LEMMA NothingFromNothing ==
  ASSUME NEW s, s.paths = <<>>, NEW b PROVE PathsOn(s, b) = <<>>
<1>1. [k \in DOMAIN s.paths |-> StepOn(prog.inst, s.paths[k], b)] = <<>>
  OBVIOUS
<1>2. FlattenSeq(<<>>) = <<>>
  BY DEF FlattenSeq
<1> QED BY <1>1, <1>2 DEF PathsOn

\* --- the loop of a closure -----------------------------------------------
LEMMA PushKeeps ==
  ASSUME NEW S, NEW c, LoopOK(S, c), NEW e \in Pending(S)
  PROVE  LoopOK(S, Push(c, e))
<1>1. CASE Push(c, e) = c
  BY <1>1
<1>2. CASE Push(c, e) = [c EXCEPT !.best = With(@, SourceKey(e), e.p.prio), !.stack = Append(@, e)]
  <2> DEFINE d == [c EXCEPT !.best = With(@, SourceKey(e), e.p.prio), !.stack = Append(@, e)]
  <2>1. Append(c.stack, e) \in Seq(Pending(S))
    BY AppendProperties DEF LoopOK
  <2>2. /\ DOMAIN d = DOMAIN c /\ d.open = c.open /\ d.stack = Append(c.stack, e) /\ d.updates = c.updates
        /\ d.guard = c.guard /\ d.res = c.res
    BY DEF LoopOK
  <2> HIDE DEF d
  <2>3. LoopOK(S, d)
    BY <2>1, <2>2 DEF LoopOK
  <2> QED BY <2>3, <1>2 DEF d
<1> QED BY <1>1, <1>2 DEF Push

LEMMA FollowKeeps ==
  ASSUME NEW p, ProgramOK(p), NEW S, Steady(p, S), NEW c, LoopOK(S, c), NEW e \in Pending(S),
         ~Consumes(p.inst, e.p)
  PROVE  LoopOK(S, Follow(p.inst, c, e))
<1> DEFINE inst == p.inst[e.p.id]
           Q(id, dprio, anchors, tags) ==
             [e.p EXCEPT !.id = id, !.prio = @ + dprio, !.anchors = @ \cup anchors, !.tags = @ \cup tags]
           To(id, dprio, anchors, tags) ==
             Entry(Q(id, dprio, anchors, tags), e.newTags \cup tags, e.source, e.preTags)
<1>1. /\ e.p \in S /\ e.p \in Paths(p) /\ e.newTags \subseteq Nat /\ e.source \in Nat /\ e.preTags \subseteq Nat
  BY DEF Pending, Steady
<1>2. e.p.node = <<>> /\ IsEpsilon(inst.op)
  BY DEF Consumes
<1>3. InstructionOK(inst, DOMAIN p.inst)
  BY <1>1, PathTypes DEF ProgramOK
<1>4. ASSUME NEW id \in EpsilonEdges(inst), NEW dprio \in Nat, NEW anchors \in SUBSET Conditions,
             NEW tags \in SUBSET Nat
      PROVE  To(id, dprio, anchors, tags) \in Pending(S)
  <2>1. id \in DOMAIN p.inst
    BY <1>3 DEF InstructionOK
  <2>2. Q(id, dprio, anchors, tags) \in Paths(p) /\ Q(id, dprio, anchors, tags).id = id
        /\ Q(id, dprio, anchors, tags).node = e.p.node
    <3>1. e.p.prio + dprio \in Nat /\ e.p.anchors \cup anchors \subseteq Conditions /\ e.p.tags \cup tags \subseteq Nat
      <4>1. e.p.prio \in Nat /\ e.p.anchors \subseteq Conditions /\ e.p.tags \subseteq Nat
        BY <1>1, PathTypes
      <4>2. e.p.prio + dprio \in Nat
        BY <4>1
      <4> QED BY <4>1, <4>2
    <3>2. ASSUME NEW n \in Nat, NEW A \in SUBSET Conditions, NEW T \in SUBSET Nat
          PROVE  LET r == [e.p EXCEPT !.id = id, !.prio = n, !.anchors = A, !.tags = T]
                 IN  r \in Paths(p) /\ r.id = id /\ r.node = e.p.node
      BY <1>1, <2>1 DEF Paths
    <3>3. Q(id, dprio, anchors, tags) =
            [e.p EXCEPT !.id = id, !.prio = e.p.prio + dprio, !.anchors = e.p.anchors \cup anchors,
                        !.tags = e.p.tags \cup tags]
      OBVIOUS
    <3> DEFINE r == [e.p EXCEPT !.id = id, !.prio = e.p.prio + dprio, !.anchors = e.p.anchors \cup anchors,
                                !.tags = e.p.tags \cup tags]
    <3>4. r \in Paths(p) /\ r.id = id /\ r.node = e.p.node
      <4> DEFINE n == e.p.prio + dprio
                 A == e.p.anchors \cup anchors
                 T == e.p.tags \cup tags
      <4>1. n \in Nat /\ A \in SUBSET Conditions /\ T \in SUBSET Nat
        BY <3>1
      <4> HIDE DEF n, A, T
      <4>2. LET q == [e.p EXCEPT !.id = id, !.prio = n, !.anchors = A, !.tags = T]
            IN  q \in Paths(p) /\ q.id = id /\ q.node = e.p.node
        BY <3>2, <4>1
      <4> QED BY <4>2 DEF n, A, T
    <3> HIDE DEF Q
    <3> QED BY <3>3, <3>4
  <2> HIDE DEF Q
  <2>3. Q(id, dprio, anchors, tags) \in S
    BY <1>1, <1>2, <2>2 DEF Steady
  <2> QED BY <1>1, <2>3 DEF Pending, Entry
<1>5. 0 \in Nat /\ 1 \in Nat /\ {} \in SUBSET Conditions /\ {} \in SUBSET Nat
  OBVIOUS
<1>6. ASSUME NEW d, LoopOK(S, d), NEW id \in EpsilonEdges(inst), NEW dprio \in Nat,
             NEW anchors \in SUBSET Conditions, NEW tags \in SUBSET Nat
      PROVE  LoopOK(S, Push(d, To(id, dprio, anchors, tags)))
  <2> HIDE DEF To
  <2> QED BY <1>4, <1>6, PushKeeps
<1> HIDE DEF inst
<1>7. CASE inst.op = "alt"
  <2>1. inst.arg \in EpsilonEdges(inst) /\ inst.out \in EpsilonEdges(inst)
    BY <1>7 DEF EpsilonEdges
  <2>2. Follow(p.inst, c, e) = Push(Push(c, To(inst.arg, 1, {}, {})), To(inst.out, 0, {}, {}))
    BY <1>7 DEF Follow, inst
  <2> HIDE DEF To
  <2>3. LoopOK(S, Push(c, To(inst.arg, 1, {}, {})))
    BY <2>1, <1>5, <1>6
  <2> QED BY <2>1, <2>2, <2>3, <1>5, <1>6
<1>8. CASE inst.op = "cap"
  <2>1. inst.out \in EpsilonEdges(inst) /\ {inst.tag} \in SUBSET Nat
    BY <1>8, <1>3 DEF EpsilonEdges, IsEpsilon, InstructionOK
  <2>2. Follow(p.inst, c, e) = Push(c, To(inst.out, 0, {}, {inst.tag}))
    BY <1>8 DEF Follow, inst
  <2> HIDE DEF To
  <2> QED BY <2>1, <2>2, <1>5, <1>6
<1>9. CASE inst.op = "empty"
  <2>1. inst.out \in EpsilonEdges(inst) /\ {inst.cond} \in SUBSET Conditions
    BY <1>9, <1>3 DEF EpsilonEdges, IsEpsilon, InstructionOK
  <2>2. Follow(p.inst, c, e) = Push(c, To(inst.out, 0, {inst.cond}, {}))
    BY <1>9 DEF Follow, inst
  <2> HIDE DEF To
  <2> QED BY <2>1, <2>2, <1>5, <1>6
<1>10. CASE inst.op = "nop"
  <2>1. inst.out \in EpsilonEdges(inst)
    BY <1>10 DEF EpsilonEdges, IsEpsilon
  <2>2. Follow(p.inst, c, e) = Push(c, To(inst.out, 0, {}, {}))
    BY <1>10 DEF Follow, inst
  <2> HIDE DEF To
  <2> QED BY <2>1, <2>2, <1>5, <1>6
<1> QED BY <1>2, <1>7, <1>8, <1>9, <1>10 DEF IsEpsilon, inst

LEMMA UpdateTypes ==
  ASSUME NEW p, NEW q \in Paths(p), NEW source \in Nat, NEW pre \in SUBSET Nat, NEW post \in SUBSET Nat
  PROVE  Update(p.inst, q, source, pre, post) \in UpdateRecs
<1>1. IsMatch(p.inst, q) \in BOOLEAN
  BY DEF IsMatch
<1>2. q.prio \in Int /\ source \in Int
  BY PathTypes
<1> HIDE DEF IsMatch
<1> QED BY <1>1, <1>2 DEF Update, UpdateRecs

LEMMA ReachKeeps ==
  ASSUME NEW p, NEW S, Steady(p, S), NEW c, LoopOK(S, c), NEW e \in Pending(S)
  PROVE  LoopOK(S, Reach(p.inst, c, e))
<1> DEFINE q == [e.p EXCEPT !.tags = e.preTags \cup e.newTags]
           better == IsMatch(p.inst, q) /\ q.prio < c.matchPrio
           same == IsMatch(p.inst, q) /\ q.prio = c.matchPrio
           u == Update(p.inst, e.p, e.source, e.preTags, e.newTags)
           r == Reach(p.inst, c, e)
           res == With(c.res, Key(q), Kept(c.res, q))
<1>1. /\ e.p \in S /\ e.p \in Paths(p) /\ e.newTags \subseteq Nat /\ e.source \in Nat /\ e.preTags \subseteq Nat
  BY DEF Pending, Steady
<1>2. ASSUME NEW x \in S, NEW T \in SUBSET Nat PROVE [x EXCEPT !.tags = T] \in S /\ [x EXCEPT !.tags = T] \in Paths(p)
  <2>1. x \in Paths(p)
    BY DEF Steady
  <2>2. [x EXCEPT !.tags = T] \in Paths(p) /\ [x EXCEPT !.tags = T].id = x.id /\ [x EXCEPT !.tags = T].node = x.node
    BY <2>1 DEF Paths
  <2> QED BY <2>2 DEF Steady
<1>3. q \in S /\ q \in Paths(p)
  BY <1>1, <1>2
<1> HIDE DEF q
<1>4. Kept(c.res, q) \in S
  <2>1. CASE Key(q) \notin DOMAIN c.res
    BY <2>1, <1>3 DEF Kept
  <2>2. CASE Key(q) \in DOMAIN c.res
    <3> DEFINE old == c.res[Key(q)]
    <3>1. old \in S
      BY <2>2 DEF LoopOK
    <3>2. old \in Paths(p) /\ old.tags \cup q.tags \subseteq Nat
      BY <3>1, <1>3, PathTypes DEF Steady
    <3>3. [old EXCEPT !.tags = old.tags \cup q.tags] \in S
      BY <1>2, <3>1, <3>2
    <3>4. Kept(c.res, q) \in {q, [old EXCEPT !.tags = old.tags \cup q.tags], old}
      BY DEF Kept
    <3> QED BY <1>3, <3>1, <3>3, <3>4
  <2> QED BY <2>1, <2>2
<1>5. DOMAIN res = DOMAIN c.res \cup {Key(q)} /\ \A k \in DOMAIN res : res[k] \in S
  BY <1>4 DEF With, LoopOK
<1>6. IsFiniteSet(DOMAIN res)
  <2> HIDE DEF res
  <2> QED BY <1>5, FS_AddElement DEF LoopOK
<1>7. u \in UpdateRecs
  BY <1>1, UpdateTypes
<1>8. Append(c.updates, u) \in Seq(UpdateRecs) /\ Append(c.updates, u) # <<>>
  <2> HIDE DEF u
  <2> QED BY <1>7, AppendProperties DEF LoopOK
<1>9. q.anchors \subseteq Conditions
  BY <1>3, PathTypes
<1>10. /\ DOMAIN r = DOMAIN c /\ r.open = c.open /\ r.stack = c.stack
       /\ r.updates = Append(c.updates, u) /\ r.res = res
       /\ r.guard = IF better THEN q.anchors ELSE IF same THEN c.guard \cup q.anchors ELSE c.guard
  <2> HIDE DEF u, res, better, same
  <2>1. r = [c EXCEPT !.updates = Append(@, u), !.res = res, !.matchPrio = IF better THEN q.prio ELSE @,
                      !.guard = IF better THEN q.anchors ELSE IF same THEN @ \cup q.anchors ELSE @]
    BY DEF Reach, u, res, better, same, q
  <2> QED BY <2>1 DEF LoopOK
<1>11. r.guard \subseteq Conditions
  <2> HIDE DEF better, same, r
  <2> QED BY <1>9, <1>10 DEF LoopOK
<1> HIDE DEF r, res, u, better, same
<1>12. LoopOK(S, r)
  BY <1>5, <1>6, <1>8, <1>10, <1>11 DEF LoopOK
<1> QED BY <1>12 DEF r

LEMMA TurnKeeps ==
  ASSUME NEW p, ProgramOK(p), NEW S, Steady(p, S), NEW c, LoopOK(S, c), c.stack # <<>>
  PROVE  LoopOK(S, Turn(p.inst, c))
<1> DEFINE e == Last(c.stack)
           d == [c EXCEPT !.stack = Front(@)]
<1>1. c.stack \in Seq(Pending(S)) /\ Len(c.stack) \in Nat \ {0}
  BY Filled DEF LoopOK
<1>2. e \in Pending(S)
  BY <1>1, ElementOfSeq DEF Last
<1>3. Front(c.stack) \in Seq(Pending(S))
  <2>1. \A j \in 1..(Len(c.stack) - 1) : c.stack[j] \in Pending(S)
    BY <1>1, ElementOfSeq
  <2> QED BY <1>1, <2>1, SubSeqProperties DEF Front
<1>4. LoopOK(S, d)
  <2>1. /\ DOMAIN d = DOMAIN c /\ d.open = c.open /\ d.stack = Front(c.stack) /\ d.updates = c.updates
        /\ d.guard = c.guard /\ d.res = c.res
    BY DEF LoopOK
  <2> HIDE DEF d
  <2> QED BY <1>3, <2>1 DEF LoopOK
<1> HIDE DEF e, d
<1>5. LoopOK(S, Reach(p.inst, d, e))
  BY <1>2, <1>4, ReachKeeps
<1>6. ~Consumes(p.inst, e.p) => LoopOK(S, Follow(p.inst, d, e))
  BY <1>2, <1>4, FollowKeeps
<1> QED BY <1>4, <1>5, <1>6 DEF Turn, e, d

LEMMA OpenedKeeps ==
  ASSUME NEW p, NEW S, Steady(p, S), NEW paths \in Seq(S)
  PROVE  LoopOK(S, Opened(p.inst, paths))
<1> DEFINE begin == [k \in DOMAIN paths |-> Entry(paths[k], {}, paths[k].prio, paths[k].tags)]
           Direct(q) == IF Consumes(p.inst, q) THEN <<Update(p.inst, q, q.prio, q.tags, {})>> ELSE <<>>
           found == [k \in DOMAIN paths |-> Direct(paths[k])]
           c == Opened(p.inst, paths)
<1>1. DOMAIN paths = 1..Len(paths) /\ Len(paths) \in Nat
  BY LenProperties
<1>2. ASSUME NEW k \in DOMAIN paths
      PROVE  paths[k] \in S /\ paths[k] \in Paths(p) /\ paths[k].prio \in Nat /\ paths[k].tags \in SUBSET Nat
  <2>1. paths[k] \in S /\ paths[k] \in Paths(p)
    BY <1>1, <1>2, ElementOfSeq DEF Steady
  <2> QED BY <2>1, PathTypes
<1>3. begin \in Seq(Pending(S))
  <2>1. \A k \in DOMAIN paths : Entry(paths[k], {}, paths[k].prio, paths[k].tags) \in Pending(S)
    BY <1>2 DEF Entry, Pending
  <2>2. begin \in [1..Len(paths) -> Pending(S)]
    BY <1>1, <2>1
  <2> HIDE DEF begin
  <2> QED BY <1>1, <2>2, Sequenced
<1>4. ASSUME NEW k \in DOMAIN paths PROVE Direct(paths[k]) \in Seq(UpdateRecs)
  <2>1. Update(p.inst, paths[k], paths[k].prio, paths[k].tags, {}) \in UpdateRecs
    BY <1>2, UpdateTypes
  <2>2. <<>> \in Seq(UpdateRecs)
    BY EmptySeq
  <2>3. <<Update(p.inst, paths[k], paths[k].prio, paths[k].tags, {})>> \in Seq(UpdateRecs)
    BY <2>1
  <2> QED BY <2>2, <2>3
<1> HIDE DEF Direct
<1>5. found \in Seq(Seq(UpdateRecs))
  <2>1. found \in [1..Len(paths) -> Seq(UpdateRecs)]
    BY <1>1, <1>4
  <2> HIDE DEF found
  <2> QED BY <1>1, <2>1, Sequenced
<1>6. /\ DOMAIN c = {"open", "stack", "best", "updates", "res", "matchPrio", "guard"} /\ c.open = TRUE
      /\ c.stack = begin /\ c.updates = FlattenSeq(found) /\ c.res = <<>> /\ c.guard = {}
  BY DEF Opened, Direct
<1>7. FlattenSeq(found) \in Seq(UpdateRecs)
  <2> HIDE DEF found
  <2> QED BY <1>5, Flattened
<1> HIDE DEF c
<1>8. DOMAIN c.res = {} /\ IsFiniteSet(DOMAIN c.res)
  <2>1. DOMAIN <<>> = {}
    OBVIOUS
  <2> QED BY <1>6, <2>1, FS_EmptySet
<1>9. LoopOK(S, c)
  BY <1>3, <1>6, <1>7, <1>8 DEF LoopOK
<1> QED BY <1>9 DEF c

\* Every order of the members is a sequence of the same kind of paths.
LEMMA ClosedIs ==
  ASSUME NEW p, NEW S, Steady(p, S), NEW c, LoopOK(S, c), NEW ordered \in Orders(Members(c))
  PROVE  ordered \in Seq(S) /\ (c.updates = <<>> => ordered = <<>>)
<1>1. \A q \in Found(c) : q \in S /\ q \in Paths(p) /\ q.prio \in Nat
  BY PathTypes DEF Found, LoopOK, Steady
<1>2. Least(c) \in Nat /\ \A q \in Found(c) : Least(c) <= q.prio
  <2>1. CASE Found(c) = {}
    BY <2>1 DEF Least
  <2>2. CASE Found(c) # {}
    <3> DEFINE T == {q.prio : q \in Found(c)}
    <3>1. T \in SUBSET Nat /\ T # {}
      BY <1>1, <2>2
    <3>2. Min(T) \in T /\ \A y \in T : Min(T) <= y
      <4> HIDE DEF T
      <4> QED BY <3>1, Smallest
    <3>3. Least(c) = Min(T)
      BY <2>2 DEF Least
    <3> QED BY <3>1, <3>2, <3>3
  <2> QED BY <2>1, <2>2
<1>3. Members(c) \subseteq S
  <2>1. ASSUME NEW q \in Found(c) PROVE [q EXCEPT !.prio = @ - Least(c)] \in S
    <3>1. q.prio - Least(c) \in Nat
      BY <1>1, <1>2
    <3>2. [q EXCEPT !.prio = q.prio - Least(c)] \in S
      BY <1>1, <3>1, Reprioritised
    <3> QED BY <3>2
  <2> QED BY <2>1 DEF Members
<1>4. IsFiniteSet(Members(c))
  <2> DEFINE At(k) == [c.res[k] EXCEPT !.prio = @ - Least(c)]
             f == [k \in DOMAIN c.res |-> At(k)]
  <2>1. Members(c) = {At(k) : k \in DOMAIN c.res}
    BY DEF Members, Found
  <2> HIDE DEF At
  <2>2. f \in Surjection(DOMAIN c.res, Members(c))
    BY <2>1 DEF Surjection
  <2> QED BY <2>2, FS_Surjection DEF LoopOK, ExistsSurjection
<1>5. Cardinality(Members(c)) \in Nat
  BY <1>4, FS_CardinalityType
<1>6. ordered \in [1..Cardinality(Members(c)) -> Members(c)]
  BY DEF Orders, SetToSeqs
<1>7. ordered \in Seq(S) /\ Len(ordered) = Cardinality(Members(c))
  <2>1. ordered \in [1..Cardinality(Members(c)) -> S]
    BY <1>3, <1>6
  <2> QED BY <1>5, <2>1, Sequenced
<1>8. ASSUME c.updates = <<>> PROVE ordered = <<>>
  <2>1. Members(c) = {}
    BY <1>8 DEF Members, Found, LoopOK
  <2>2. Len(ordered) = 0
    BY <1>7, <2>1, FS_EmptySet
  <2> QED BY <1>7, <2>2, EmptySeq
<1> QED BY <1>7, <1>8

LEMMA ClosedOK ==
  ASSUME NEW p, ProgramOK(p), NEW c, LoopOK(Paths(p), c), NEW ordered \in Orders(Members(c))
  PROVE  ResultOK(p, Closed(c, ordered))
<1> DEFINE S == Paths(p)
           At(k) == [c.updates[k] EXCEPT !.next = @ - Least(c)]
           updates == [k \in DOMAIN c.updates |-> At(k)]
<1>1. Steady(p, S)
  BY KindsSteady, AnyIsAll DEF Kinds
<1>2. ordered \in Seq(S) /\ (c.updates = <<>> => ordered = <<>>)
  BY <1>1, ClosedIs
<1>3. Least(c) \in Int
  <2>1. CASE Found(c) = {}
    BY <2>1 DEF Least
  <2>2. CASE Found(c) # {}
    <3> DEFINE T == {q.prio : q \in Found(c)}
    <3>1. \A q \in Found(c) : q.prio \in Nat
      BY PathTypes DEF Found, LoopOK
    <3>2. T \in SUBSET Nat /\ T # {}
      BY <2>2, <3>1
    <3>3. Min(T) \in T
      <4> HIDE DEF T
      <4> QED BY <3>2, Smallest
    <3> QED BY <2>2, <3>2, <3>3 DEF Least
  <2> QED BY <2>1, <2>2
<1>4. ASSUME NEW k \in DOMAIN c.updates PROVE At(k) \in UpdateRecs
  <2>1. c.updates[k] \in UpdateRecs
    BY LenProperties, ElementOfSeq DEF LoopOK
  <2>2. c.updates[k].next - Least(c) \in Int
    BY <1>3, <2>1 DEF UpdateRecs
  <2>3. [c.updates[k] EXCEPT !.next = c.updates[k].next - Least(c)] \in UpdateRecs
    BY <2>1, <2>2 DEF UpdateRecs
  <2> QED BY <2>3
<1> HIDE DEF At
<1>5. updates \in Seq(UpdateRecs) /\ Len(updates) = Len(c.updates) /\ Len(updates) \in Nat
  <2>1. Len(c.updates) \in Nat /\ DOMAIN c.updates = 1..Len(c.updates)
    BY LenProperties DEF LoopOK
  <2>2. updates \in [1..Len(c.updates) -> UpdateRecs]
    BY <1>4, <2>1
  <2> HIDE DEF updates
  <2> QED BY <2>1, <2>2, Sequenced
<1>6. updates = <<>> => c.updates = <<>>
  <2>1. SUFFICES ASSUME updates = <<>> PROVE c.updates = <<>>
    OBVIOUS
  <2>2. Len(updates) = 0
    BY <2>1
  <2> QED BY <1>5, <2>2, EmptySeq DEF LoopOK
<1>7. Closed(c, ordered) = [paths |-> ordered, updates |-> updates, guard |-> c.guard]
  BY DEF Closed, At
<1> HIDE DEF updates
<1> QED BY <1>2, <1>5, <1>6, <1>7 DEF ResultOK, LoopOK

\* --- states --------------------------------------------------------------
StateRecs(p) ==
  {s \in [paths : Seq(Paths(p)), matchP : Nat, accepting : BOOLEAN, best : BOOLEAN, guard : SUBSET Conditions] :
     s.accepting = (s.matchP # Infinity) /\ (s.best => s.matchP = 0)}

\* One state for each identity, and never more than the limit.
StatesApart ==
  \A j, k \in DOMAIN states : Identity(states[j].paths) = Identity(states[k].paths) => j = k

StatesUnderLimit == Len(states) <= MaxStates

\* A pattern that needs a byte does not accept at its start.
StartNeedsByte == states # <<>> /\ prog.minLength # 0 => ~states[1].accepting

StatesInv == states \in Seq(StateRecs(prog)) /\ StatesUnderLimit /\ StatesApart /\ StartNeedsByte

LEMMA MatchPrioTypes ==
  ASSUME NEW paths \in Seq(Paths(prog))
  PROVE  MatchPrio(paths) \in Nat
<1> DEFINE m == {paths[k].prio : k \in {j \in DOMAIN paths : IsMatch(prog.inst, paths[j])}}
<1>1. m \in SUBSET Nat
  BY LenProperties, ElementOfSeq, PathTypes
<1>2. MatchPrio(paths) = IF m = {} THEN Infinity ELSE Min(m)
  BY DEF MatchPrio
<1>3. m # {} => Min(m) \in Nat
  <2> HIDE DEF m
  <2> QED BY <1>1, Smallest
<1> HIDE DEF m
<1> QED BY <1>2, <1>3, InfinityIsPositive

LEMMA NewStateTypes ==
  ASSUME ProgramOK(prog), NEW res, ResultOK(prog, res)
  PROVE  NewState(res) \in StateRecs(prog) /\ NewState(res).paths = Lower(res.paths)
<1>1. Lower(res.paths) \in Seq(Paths(prog))
  BY KindsSteady, AnyIsAll, Lowered DEF Kinds, ResultOK
<1>2. MatchPrio(Lower(res.paths)) \in Nat
  BY <1>1, MatchPrioTypes
<1>3. (MatchPrio(Lower(res.paths)) = 0 /\ LeastPrio(res.paths) = 0) \in BOOLEAN
  OBVIOUS
<1>4. res.guard \in SUBSET Conditions
  BY DEF ResultOK
<1> HIDE DEF MatchPrio, Lower, LeastPrio, Infinity, Conditions
<1> QED BY <1>1, <1>2, <1>3, <1>4 DEF NewState, StateRecs

\* A state of paths no byte was read on does not accept if the pattern needs one.
LEMMA BytelessRejects ==
  ASSUME ProgramOK(prog), prog.minLength # 0, NEW res, res.paths \in Seq(OfKind(prog, "byteless"))
  PROVE  ~NewState(res).accepting
<1> DEFINE S == OfKind(prog, "byteless")
           low == Lower(res.paths)
<1>1. Steady(prog, S)
  BY KindsSteady DEF Kinds
<1>2. low \in Seq(S)
  <2>1. res.paths \in Seq(S)
    OBVIOUS
  <2> HIDE DEF S
  <2> QED BY <1>1, <2>1, Lowered
<1>3. NoMatchWithin(prog, Byteless(prog))
  BY DEF ProgramOK, Byteless
<1>4. ASSUME NEW j \in DOMAIN low PROVE ~IsMatch(prog.inst, low[j])
  <2>1. low[j] \in S
    <3> HIDE DEF S, low
    <3> QED BY <1>2, LenProperties, ElementOfSeq
  <2>2. low[j].id \in Byteless(prog)
    BY <2>1 DEF OfKind
  <2> QED BY <1>3, <2>2 DEF IsMatch, NoMatchWithin
<1>5. MatchPrio(low) = Infinity
  <2> HIDE DEF low
  <2> QED BY <1>4 DEF MatchPrio
<1> QED BY <1>5 DEF NewState

LEMMA AddedIs ==
  ASSUME ProgramOK(prog), states \in Seq(StateRecs(prog)), StatesApart, StatesUnderLimit,
         NEW res, ResultOK(prog, res), ~Full(res)
  PROVE  /\ Added(res) \in Seq(StateRecs(prog)) /\ Len(Added(res)) <= MaxStates
         /\ Len(states) <= Len(Added(res)) /\ Len(Added(res)) \in Nat
         /\ \A k \in DOMAIN states : k \in DOMAIN Added(res) /\ Added(res)[k] = states[k]
         /\ IdOf(res) \in DOMAIN Added(res)
         /\ Identity(Added(res)[IdOf(res)].paths) = Identity(res.paths)
         /\ \A j, k \in DOMAIN Added(res) :
              Identity(Added(res)[j].paths) = Identity(Added(res)[k].paths) => j = k
<1>0. Len(states) \in Nat /\ DOMAIN states = 1..Len(states)
  BY LenProperties
<1>1. CASE StateOf(res) # {}
  <2>1. Added(res) = states /\ IdOf(res) \in StateOf(res)
    BY <1>1 DEF Added, IdOf
  <2>2. IdOf(res) \in DOMAIN states /\ Identity(states[IdOf(res)].paths) = Identity(res.paths)
    BY <2>1 DEF StateOf
  <2> QED BY <1>0, <2>1, <2>2 DEF StatesApart, StatesUnderLimit
<1>2. CASE StateOf(res) = {}
  <2> DEFINE new == NewState(res)
             all == Added(res)
  <2>1. all = Append(states, new) /\ IdOf(res) = Len(states) + 1
    BY <1>2 DEF Added, IdOf
  <2>2. new \in StateRecs(prog) /\ new.paths = Lower(res.paths)
    BY NewStateTypes
  <2> HIDE DEF new, all
  <2>3. /\ all \in Seq(StateRecs(prog)) /\ Len(all) = Len(states) + 1
        /\ \A k \in 1..Len(states) : all[k] = states[k]
        /\ all[Len(states) + 1] = new
    BY <2>1, <2>2, AppendProperties
  <2>4. Len(all) <= MaxStates
    BY <1>0, <1>2, <2>3, BuilderAssumption DEF Full
  <2>5. Identity(new.paths) = Identity(res.paths)
    BY <2>2, IdentityOfLower DEF ResultOK
  <2>6. DOMAIN all = 1..(Len(states) + 1)
    BY <2>3, LenProperties
  <2>7. ASSUME NEW j \in DOMAIN all, NEW k \in DOMAIN all, Identity(all[j].paths) = Identity(all[k].paths)
        PROVE  j = k
    <3>1. \A x \in DOMAIN states : Identity(states[x].paths) # Identity(res.paths)
      BY <1>2 DEF StateOf
    <3>2. CASE j \in DOMAIN states /\ k \in DOMAIN states
      BY <1>0, <2>3, <2>7, <3>2 DEF StatesApart
    <3>3. CASE j \notin DOMAIN states /\ k \in DOMAIN states
      <4>1. j = Len(states) + 1 /\ all[k] = states[k]
        BY <1>0, <2>3, <2>6, <3>3
      <4> QED BY <2>3, <2>5, <2>7, <3>1, <3>3, <4>1
    <3>4. CASE j \in DOMAIN states /\ k \notin DOMAIN states
      <4>1. k = Len(states) + 1 /\ all[j] = states[j]
        BY <1>0, <2>3, <2>6, <3>4
      <4> QED BY <2>3, <2>5, <2>7, <3>1, <3>4, <4>1
    <3>5. CASE j \notin DOMAIN states /\ k \notin DOMAIN states
      BY <1>0, <2>6, <3>5
    <3> QED BY <3>2, <3>3, <3>4, <3>5
  <2>8. Len(states) + 1 \in DOMAIN all /\ \A k \in DOMAIN states : k \in DOMAIN all /\ all[k] = states[k]
    BY <1>0, <2>3, <2>6
  <2>9. Len(states) <= Len(all) /\ Len(all) \in Nat
    BY <1>0, <2>3
  <2> QED BY <2>1, <2>3, <2>4, <2>5, <2>7, <2>8, <2>9 DEF all
<1> QED BY <1>1, <1>2

\* --- the inductive invariant ---------------------------------------------
\* An entry of the table, on byte b of state k of those in list.
RawOK(list, k, b, raw) ==
  \/ raw = InvalidState
  \/ /\ DOMAIN raw = {"to", "accept", "anchors", "warp", "updates", "delta", "ccwarp"}
     /\ raw.to \in DOMAIN list /\ raw.accept = list[raw.to].accepting
     /\ raw.anchors \subseteq Conditions /\ raw.warp \in BOOLEAN /\ raw.delta \in Nat /\ raw.ccwarp = FALSE
     /\ raw.warp => b \notin Lead
     /\ raw.updates = <<>> => list[raw.to].paths = <<>>
     /\ list[k].paths # <<>>

\* What the worklist has filled.
CursorInv ==
  /\ cursor \in [s : 1..(Len(states) + 1), left : SUBSET Bytes] /\ cursor.left # {}
  /\ cursor.s = Len(states) + 1 => cursor.left = Bytes
  /\ DOMAIN recap = DOMAIN trans /\ DOMAIN trans \subseteq (DOMAIN states) \X Bytes
  /\ \A k \in DOMAIN states, b \in Bytes :
       <<k, b>> \in DOMAIN trans <=> k < cursor.s \/ (k = cursor.s /\ b \notin cursor.left)

EntriesInv == \A k \in DOMAIN states, b \in Bytes : <<k, b>> \in DOMAIN trans =>
                RawOK(states, k, b, trans[<<k, b>>])

\* A cached closure has the kind of every path list it is kept for.
CacheInv ==
  /\ \A id \in DOMAIN cache : ResultOK(prog, cache[id])
  /\ \A kind \in Kinds : \A paths \in Seq(OfKind(prog, kind)) :
       Identity(paths) \in DOMAIN cache => cache[Identity(paths)].paths \in Seq(OfKind(prog, kind))

ClosingInv ==
  closing.open =>
    /\ Wanted # <<>>
    /\ \A kind \in Kinds : Wanted \in Seq(OfKind(prog, kind)) => LoopOK(OfKind(prog, kind), closing)

TableInv ==
  /\ prog \in Programs /\ phase \in {"start", "build", "built", "failed"} /\ StatesInv
  /\ phase = "start" => states = <<>> /\ trans = <<>> /\ recap = <<>> /\ cursor = AtStart
  /\ phase = "build" => states # <<>> /\ CursorInv /\ EntriesInv
  /\ phase = "built" => states # <<>> /\ (KernelsFit => WellFormed(dfa))

BuildInv == TableInv /\ ClosingInv /\ (Building => CacheInv)

LEMMA TableFrame ==
  ASSUME TableInv, UNCHANGED <<prog, states, trans, recap, cursor, phase, dfa>>
  PROVE  TableInv'
<1>1. StatesInv' /\ (phase' = "build" => states' # <<>> /\ CursorInv' /\ EntriesInv')
  BY DEF TableInv, StatesInv, StatesUnderLimit, StatesApart, StartNeedsByte, CursorInv, EntriesInv, RawOK
<1>2. KernelsFit' = KernelsFit
  BY DEF KernelsFit
<1> QED BY <1>1, <1>2 DEF TableInv, AtStart

LEMMA ProgramIsOK == ASSUME BuildInv PROVE ProgramOK(prog)
BY BuilderAssumption DEF BuildInv, TableInv

LEMMA NextByteIs ==
  ASSUME CursorInv
  PROVE  NextByte \in cursor.left /\ NextByte \in Bytes
<1>1. cursor.left \subseteq Bytes /\ cursor.left # {} /\ Bytes \subseteq Nat
  BY TextAssumption DEF CursorInv, Bytes
<1>2. Min(cursor.left) \in cursor.left
  BY <1>1, Smallest
<1> QED BY <1>1, <1>2 DEF NextByte

\* The paths whose closure is wanted are paths of the program; at the start no
\* byte was read on them, after a lead byte all are inside a rune.
LEMMA WantedKind ==
  ASSUME BuildInv, NEW kind \in Kinds, kind = "halfway" => Filling /\ NextByte \in Lead,
         kind = "byteless" => phase = "start"
  PROVE  Wanted \in Seq(OfKind(prog, kind))
<1>0. ProgramOK(prog)
  BY ProgramIsOK
<1>1. CASE phase = "start"
  <2> DEFINE q == Path(prog.start, <<>>, 0, {})
  <2>1. Wanted = <<q>> /\ ~Filling
    BY <1>1 DEF Wanted, StartPaths, Filling
  <2>2. q \in Paths(prog)
    <3>1. <<>> \in Seq(Bytes) /\ prog.start \in DOMAIN prog.inst
      BY <1>0, EmptySeq DEF ProgramOK
    <3> QED BY <3>1 DEF Path, Paths
  <2>3. q.node = <<>> /\ q.id = prog.start
    BY DEF Path
  <2>4. prog.minLength # 0 => prog.start \in Byteless(prog)
    BY <1>0 DEF ProgramOK, Byteless, NoMatchWithin
  <2>5. q \in OfKind(prog, kind)
    <3> HIDE DEF q
    <3> QED BY <2>1, <2>2, <2>3, <2>4 DEF OfKind
  <2> HIDE DEF q
  <2> QED BY <2>1, <2>5
<1>2. CASE Filling
  <2>1. phase = "build" /\ CursorInv /\ cursor.s \in DOMAIN states /\ states \in Seq(StateRecs(prog))
    BY <1>2 DEF Filling, BuildInv, TableInv, StatesInv
  <2>2. kind \in {"any", "halfway"}
    BY <2>1 DEF Kinds
  <2>3. states[cursor.s].paths \in Seq(Paths(prog))
    <3>1. states[cursor.s] \in StateRecs(prog)
      BY <2>1, LenProperties, ElementOfSeq
    <3> QED BY <3>1 DEF StateRecs
  <2>4. Wanted = PathsOn(states[cursor.s], NextByte)
    BY <1>2, <2>1 DEF Wanted
  <2> QED BY <1>0, <2>1, <2>2, <2>3, <2>4, NextByteIs, PathsOnKind
<1>3. CASE phase # "start" /\ ~Filling
  <2>1. Wanted = <<>>
    BY <1>3 DEF Wanted
  <2> QED BY <2>1, EmptySeq
<1> QED BY <1>1, <1>2, <1>3

LEMMA WantedPaths == ASSUME BuildInv PROVE Wanted \in Seq(Paths(prog))
BY WantedKind, AnyIsAll DEF Kinds

LEMMA ClosureIs ==
  ASSUME BuildInv, Building, Cached
  PROVE  /\ ResultOK(prog, Closure)
         /\ \A kind \in Kinds : Wanted \in Seq(OfKind(prog, kind)) => Closure.paths \in Seq(OfKind(prog, kind))
BY DEF BuildInv, CacheInv, Cached, Closure

\* --- the actions ---------------------------------------------------------
LEMMA OpenClosureBuild == ASSUME BuildInv, OpenClosure PROVE BuildInv'
<1>1. Wanted' = Wanted
  BY DEF OpenClosure, Wanted, Filling, StartPaths, PathsOn, NextByte
<1>2. ASSUME NEW kind \in Kinds, Wanted \in Seq(OfKind(prog, kind))
      PROVE  LoopOK(OfKind(prog, kind), closing')
  <2>1. Steady(prog, OfKind(prog, kind))
    BY ProgramIsOK, KindsSteady
  <2>2. Lower(Wanted) \in Seq(OfKind(prog, kind))
    BY <1>2, <2>1, Lowered
  <2>3. closing' = Opened(prog.inst, Lower(Wanted))
    BY DEF OpenClosure
  <2> QED BY <2>1, <2>2, <2>3, OpenedKeeps
<1>3. ClosingInv'
  <2>1. Wanted # <<>> /\ prog' = prog
    BY DEF OpenClosure
  <2> QED BY <1>1, <1>2, <2>1 DEF ClosingInv
<1>4. UNCHANGED <<prog, states, trans, recap, cache, cursor, phase, dfa>>
  BY DEF OpenClosure
<1>5. (Building => CacheInv)'
  BY <1>4 DEF BuildInv, Building, CacheInv
<1> QED BY <1>3, <1>4, <1>5, TableFrame DEF BuildInv

LEMMA CloseTurnBuild == ASSUME BuildInv, CloseTurn PROVE BuildInv'
<1>1. Wanted' = Wanted
  BY DEF CloseTurn, Wanted, Filling, StartPaths, PathsOn, NextByte
<1>2. ASSUME NEW kind \in Kinds, Wanted \in Seq(OfKind(prog, kind))
      PROVE  LoopOK(OfKind(prog, kind), closing')
  <2>1. Steady(prog, OfKind(prog, kind)) /\ ProgramOK(prog)
    BY ProgramIsOK, KindsSteady
  <2>2. LoopOK(OfKind(prog, kind), closing) /\ closing.stack # <<>> /\ closing' = Turn(prog.inst, closing)
    BY <1>2 DEF BuildInv, ClosingInv, CloseTurn
  <2> QED BY <2>1, <2>2, TurnKeeps
<1>3. ClosingInv'
  <2>1. Wanted # <<>> /\ prog' = prog
    BY DEF CloseTurn, BuildInv, ClosingInv
  <2> QED BY <1>1, <1>2, <2>1 DEF ClosingInv
<1>4. UNCHANGED <<prog, states, trans, recap, cache, cursor, phase, dfa>>
  BY DEF CloseTurn
<1>5. (Building => CacheInv)'
  BY <1>4 DEF BuildInv, Building, CacheInv
<1> QED BY <1>3, <1>4, <1>5, TableFrame DEF BuildInv

LEMMA KeepClosureBuild == ASSUME BuildInv, KeepClosure PROVE BuildInv'
<1>1. UNCHANGED <<prog, states, trans, recap, cursor, phase, dfa>> /\ closing' = NoClosure /\ closing.open
  BY DEF KeepClosure
<1>2. PICK ordered \in Orders(Members(closing)) :
        cache' = With(cache, Identity(Wanted), Closed(closing, ordered))
  BY DEF KeepClosure
<1> DEFINE res == Closed(closing, ordered)
<1>3. ASSUME NEW kind \in Kinds, Wanted \in Seq(OfKind(prog, kind))
      PROVE  res.paths \in Seq(OfKind(prog, kind))
  <2>1. Steady(prog, OfKind(prog, kind)) /\ LoopOK(OfKind(prog, kind), closing)
    BY <1>1, <1>3, ProgramIsOK, KindsSteady DEF BuildInv, ClosingInv
  <2> QED BY <2>1, ClosedIs DEF Closed
<1>4. ResultOK(prog, res)
  <2>1. LoopOK(Paths(prog), closing)
    BY <1>1, WantedPaths, AnyIsAll DEF BuildInv, ClosingInv, Kinds
  <2> QED BY <2>1, ProgramIsOK, ClosedOK
<1> HIDE DEF res
<1>5. /\ DOMAIN cache' = DOMAIN cache \cup {Identity(Wanted)} /\ cache'[Identity(Wanted)] = res
      /\ \A id \in DOMAIN cache : id # Identity(Wanted) => cache'[id] = cache[id]
  BY <1>2 DEF With, res
<1>6. ASSUME Building PROVE CacheInv'
  <2>1. CacheInv
    BY <1>6 DEF BuildInv
  <2>2. \A id \in DOMAIN cache' : ResultOK(prog, cache'[id])
    BY <1>4, <1>5, <2>1 DEF CacheInv
  <2>3. ASSUME NEW kind \in Kinds, NEW paths \in Seq(OfKind(prog, kind)), Identity(paths) \in DOMAIN cache'
        PROVE  cache'[Identity(paths)].paths \in Seq(OfKind(prog, kind))
    <3>1. CASE Identity(paths) = Identity(Wanted)
      <4>1. Wanted \in Seq(OfKind(prog, kind))
        BY <3>1, WantedPaths, SameKind
      <4> QED BY <1>3, <1>5, <3>1, <4>1
    <3>2. CASE Identity(paths) # Identity(Wanted)
      BY <1>5, <2>1, <2>3, <3>2 DEF CacheInv
    <3> QED BY <3>1, <3>2
  <2> QED BY <1>1, <2>2, <2>3 DEF CacheInv
<1>7. (Building => CacheInv)'
  BY <1>1, <1>6 DEF Building
<1>8. ClosingInv'
  BY <1>1 DEF ClosingInv, NoClosure
<1> QED BY <1>1, <1>7, <1>8, TableFrame DEF BuildInv

LEMMA TableFullBuild == ASSUME BuildInv, TableFull PROVE BuildInv'
<1>1. UNCHANGED <<prog, states, trans, recap, cache, closing, cursor, dfa>> /\ phase' = "failed" /\ ~closing.open
  BY DEF TableFull, Cached
<1>2. StatesInv'
  BY <1>1 DEF BuildInv, TableInv, StatesInv, StatesUnderLimit, StatesApart, StartNeedsByte
<1>3. TableInv'
  BY <1>1, <1>2 DEF BuildInv, TableInv
<1>4. ClosingInv' /\ ~Building'
  BY <1>1 DEF ClosingInv, Building
<1> QED BY <1>3, <1>4 DEF BuildInv

LEMMA StartStateBuild == ASSUME BuildInv, StartState PROVE BuildInv'
<1>1. /\ UNCHANGED <<prog, trans, recap, cache, closing, cursor, dfa>> /\ phase = "start" /\ phase' = "build"
      /\ ~closing.open /\ Building /\ Cached /\ states' = Added(Closure)
  BY DEF StartState, Cached, Building
<1>2. states = <<>> /\ trans = <<>> /\ recap = <<>> /\ cursor = AtStart /\ StatesInv
  BY <1>1 DEF BuildInv, TableInv
<1>3. ResultOK(prog, Closure) /\ Closure.paths \in Seq(OfKind(prog, "byteless"))
  <2>1. Wanted \in Seq(OfKind(prog, "byteless"))
    BY <1>1, WantedKind DEF Kinds
  <2> QED BY <1>1, <2>1, ClosureIs DEF Kinds
<1>4. StateOf(Closure) = {} /\ states' = <<NewState(Closure)>>
  <2>1. StateOf(Closure) = {}
    BY <1>2 DEF StateOf
  <2> QED BY <1>1, <1>2, <2>1 DEF Added
<1>5. ProgramOK(prog)
  BY ProgramIsOK
<1>6. NewState(Closure) \in StateRecs(prog)
  BY <1>3, <1>5, NewStateTypes
<1>7. StatesInv'
  <2>1. states' \in Seq(StateRecs(prog)) /\ Len(states') = 1 /\ DOMAIN states' = {1} /\ states'[1] = NewState(Closure)
    <3> HIDE DEF NewState
    <3> QED BY <1>4, <1>6
  <2>2. StatesUnderLimit' /\ StatesApart'
    BY <2>1, BuilderAssumption DEF StatesUnderLimit, StatesApart
  <2>3. StartNeedsByte'
    BY <1>1, <1>3, <1>5, <2>1, BytelessRejects DEF StartNeedsByte
  <2> QED BY <1>1, <2>1, <2>2, <2>3 DEF StatesInv
<1>8. states' # <<>> /\ CursorInv' /\ EntriesInv'
  <2>1. Len(states') = 1 /\ DOMAIN states' = {1} /\ states' # <<>>
    <3> HIDE DEF NewState
    <3> QED BY <1>4
  <2>2. DOMAIN trans' = {} /\ DOMAIN recap' = {} /\ cursor' = [s |-> 1, left |-> Bytes]
    BY <1>1, <1>2 DEF AtStart
  <2>3. Bytes # {}
    BY TextAssumption DEF Bytes
  <2>4. CursorInv'
    BY <2>1, <2>2, <2>3 DEF CursorInv
  <2> QED BY <2>1, <2>2, <2>4 DEF EntriesInv
<1>9. TableInv'
  BY <1>1, <1>7, <1>8 DEF BuildInv, TableInv
<1>10. ClosingInv' /\ (Building => CacheInv)'
  BY <1>1 DEF ClosingInv, BuildInv, CacheInv
<1> QED BY <1>9, <1>10 DEF BuildInv

\* The list of the states grows at its end.
Grown(list, more) ==
  /\ Len(list) \in Nat /\ Len(more) \in Nat /\ Len(list) <= Len(more)
  /\ DOMAIN list = 1..Len(list) /\ DOMAIN more = 1..Len(more)
  /\ \A k \in DOMAIN list : more[k] = list[k]

LEMMA EntryStays ==
  ASSUME NEW list, NEW more, Grown(list, more), NEW k \in DOMAIN list, NEW b, NEW raw, RawOK(list, k, b, raw)
  PROVE  RawOK(more, k, b, raw)
<1>1. CASE raw = InvalidState
  BY <1>1 DEF RawOK
<1>2. CASE raw # InvalidState
  <2>1. raw.to \in DOMAIN list /\ k \in DOMAIN list
    BY <1>2 DEF RawOK
  <2>2. raw.to \in DOMAIN more /\ more[raw.to] = list[raw.to] /\ more[k] = list[k]
    BY <2>1 DEF Grown
  <2> QED BY <1>2, <2>1, <2>2 DEF RawOK
<1> QED BY <1>1, <1>2

LEMMA EnterKeeps ==
  ASSUME CursorInv, EntriesInv, Filling, Grown(states, states'), NEW raw, NEW entries, Enter(raw, entries),
         RawOK(states', cursor.s, NextByte, raw)
  PROVE  CursorInv' /\ EntriesInv'
<1> DEFINE s == cursor.s
           c == NextByte
<1>1. c \in cursor.left /\ c \in Bytes /\ s \in DOMAIN states /\ s \in 1..Len(states) /\ Len(states) \in Nat
  BY NextByteIs DEF Filling, Grown
<1>2. /\ DOMAIN trans' = DOMAIN trans \cup {<<s, c>>} /\ DOMAIN recap' = DOMAIN recap \cup {<<s, c>>}
      /\ trans'[<<s, c>>] = raw /\ \A e \in DOMAIN trans : e # <<s, c>> => trans'[e] = trans[e]
  BY DEF Enter, With
<1>3. DOMAIN states \subseteq DOMAIN states' /\ s \in DOMAIN states'
  BY <1>1 DEF Grown
<1> HIDE DEF c
<1>4. /\ cursor' \in [s : 1..(Len(states') + 1), left : SUBSET Bytes] /\ cursor'.left # {}
      /\ cursor'.s = Len(states') + 1 => cursor'.left = Bytes
      /\ \A b \in Bytes : b \notin cursor'.left /\ cursor'.s = s <=> cursor'.s = s /\ (b \notin cursor.left \/ b = c)
      /\ \/ cursor'.s = s
         \/ cursor'.s = s + 1 /\ cursor'.left = Bytes /\ cursor.left = {c}
  <2>1. cursor \in [s : 1..(Len(states) + 1), left : SUBSET Bytes] /\ Bytes # {}
    BY <1>1 DEF CursorInv
  <2>2. CASE cursor.left = {c}
    <3>1. cursor' = [s |-> s + 1, left |-> Bytes]
      BY <2>2 DEF Enter, Advance, c
    <3>2. s + 1 \in 1..(Len(states') + 1) /\ s + 1 # s
      BY <1>1, <1>3 DEF Grown
    <3> QED BY <2>1, <2>2, <3>1, <3>2
  <2>3. CASE cursor.left # {c}
    <3>1. cursor' = [cursor EXCEPT !.left = cursor.left \ {c}]
      BY <2>3 DEF Enter, Advance, c
    <3>2. cursor'.s = s /\ cursor'.left = cursor.left \ {c}
      BY <2>1, <3>1
    <3>3. s \in 1..(Len(states') + 1) /\ s # Len(states') + 1
      BY <1>1 DEF Grown
    <3>4. cursor' \in [s : 1..(Len(states') + 1), left : SUBSET Bytes]
      BY <2>1, <3>1, <3>3
    <3> QED BY <1>1, <2>3, <3>2, <3>3, <3>4
  <2> QED BY <2>2, <2>3
<1>5. DOMAIN recap' = DOMAIN trans' /\ DOMAIN trans' \subseteq (DOMAIN states') \X Bytes
  <2>1. DOMAIN trans \subseteq (DOMAIN states) \X Bytes /\ DOMAIN recap = DOMAIN trans
    BY DEF CursorInv
  <2>2. <<s, c>> \in (DOMAIN states') \X Bytes /\ (DOMAIN states) \X Bytes \subseteq (DOMAIN states') \X Bytes
    BY <1>1, <1>3
  <2> QED BY <1>2, <2>1, <2>2
<1>6. ASSUME NEW k \in DOMAIN states', NEW b \in Bytes
      PROVE  <<k, b>> \in DOMAIN trans' <=> k < cursor'.s \/ (k = cursor'.s /\ b \notin cursor'.left)
  <2>0. k \in Int /\ s \in Int
    BY <1>1 DEF Grown
  <2>1. <<k, b>> \in DOMAIN trans' <=> <<k, b>> \in DOMAIN trans \/ (k = s /\ b = c)
    BY <1>2
  <2>2. <<k, b>> \in DOMAIN trans <=> k < s \/ (k = s /\ b \notin cursor.left)
    <3>1. CASE k \in DOMAIN states
      BY <3>1 DEF CursorInv
    <3>2. CASE k \notin DOMAIN states
      <4>1. <<k, b>> \notin DOMAIN trans
        BY <3>2 DEF CursorInv
      <4>2. k > s
        BY <1>1, <3>2 DEF Grown
      <4> QED BY <2>0, <4>1, <4>2
    <3> QED BY <3>1, <3>2
  <2>3. CASE cursor'.s = s
    BY <1>4, <2>0, <2>1, <2>2, <2>3
  <2>4. CASE cursor'.s = s + 1 /\ cursor'.left = Bytes /\ cursor.left = {c}
    BY <2>0, <2>1, <2>2, <2>4
  <2> QED BY <1>4, <2>3, <2>4
<1>7. CursorInv'
  BY <1>4, <1>5, <1>6 DEF CursorInv
<1>8. ASSUME NEW k \in DOMAIN states', NEW b \in Bytes, <<k, b>> \in DOMAIN trans'
      PROVE  RawOK(states', k, b, trans'[<<k, b>>])
  <2>1. CASE k = s /\ b = c
    BY <1>2, <2>1 DEF c
  <2>2. CASE ~(k = s /\ b = c)
    <3>1. <<k, b>> \in DOMAIN trans /\ trans'[<<k, b>>] = trans[<<k, b>>]
      BY <1>2, <1>8, <2>2
    <3>2. k \in DOMAIN states
      BY <3>1 DEF CursorInv
    <3>3. RawOK(states, k, b, trans[<<k, b>>])
      BY <3>1, <3>2 DEF EntriesInv
    <3> QED BY <3>1, <3>2, <3>3, EntryStays
  <2> QED BY <2>1, <2>2
<1>9. EntriesInv'
  BY <1>8 DEF EntriesInv
<1> QED BY <1>7, <1>9

LEMMA NoTransitionBuild == ASSUME BuildInv, NoTransition PROVE BuildInv'
<1>1. /\ UNCHANGED <<prog, states, cache, closing, phase, dfa>> /\ Filling /\ Wanted = <<>>
      /\ Enter(InvalidState, <<>>) /\ phase = "build"
  BY DEF NoTransition, Filling
<1>2. StatesInv /\ CursorInv /\ EntriesInv /\ states # <<>>
  BY <1>1 DEF BuildInv, TableInv
<1>3. Grown(states, states')
  BY <1>1, <1>2, LenProperties DEF Grown, StatesInv
<1>4. CursorInv' /\ EntriesInv'
  <2>1. RawOK(states', cursor.s, NextByte, InvalidState)
    BY DEF RawOK
  <2> QED BY <1>1, <1>2, <1>3, <2>1, EnterKeeps
<1>5. StatesInv'
  BY <1>1, <1>2 DEF StatesInv, StatesUnderLimit, StatesApart, StartNeedsByte
<1>6. TableInv'
  BY <1>1, <1>2, <1>4, <1>5 DEF BuildInv, TableInv
<1>7. ~closing'.open
  BY <1>1 DEF BuildInv, ClosingInv
<1> QED BY <1>1, <1>6, <1>7 DEF BuildInv, ClosingInv, Building, CacheInv

LEMMA BestAnchorsTypes ==
  ASSUME NEW s, s.paths \in Seq(Paths(prog)), NEW b
  PROVE  BestAnchors(s, b) \subseteq Conditions
<1>1. \A k \in DOMAIN s.paths : s.paths[k].anchors \subseteq Conditions
  BY LenProperties, ElementOfSeq, PathTypes
<1> QED BY <1>1 DEF BestAnchors

LEMMA NewEntryOK ==
  ASSUME BuildInv, Filling, Wanted # <<>>, Cached, ~Full(Closure)
  PROVE  RawOK(Added(Closure), cursor.s, NextByte, RawTransition(states[cursor.s], NextByte, Closure))
<1> DEFINE s == states[cursor.s]
           c == NextByte
           res == Closure
           all == Added(Closure)
           raw == RawTransition(s, c, res)
<1>1. /\ phase = "build" /\ Building /\ cursor.s \in DOMAIN states /\ StatesInv /\ CursorInv
      /\ Wanted = PathsOn(s, c)
  BY DEF Filling, Building, BuildInv, TableInv, Wanted
<1>2. s \in StateRecs(prog)
  BY <1>1, LenProperties, ElementOfSeq DEF StatesInv
<1>3. s.paths \in Seq(Paths(prog))
  BY <1>2 DEF StateRecs
<1>4. ResultOK(prog, res) /\ ProgramOK(prog)
  BY <1>1, ClosureIs, ProgramIsOK
<1>5. /\ \A k \in DOMAIN states : k \in DOMAIN all /\ all[k] = states[k]
      /\ IdOf(res) \in DOMAIN all /\ Identity(all[IdOf(res)].paths) = Identity(res.paths)
      /\ all \in Seq(StateRecs(prog))
  BY <1>1, <1>4, AddedIs DEF StatesInv
<1>6. /\ DOMAIN raw = {"to", "accept", "anchors", "warp", "updates", "delta", "ccwarp"}
      /\ raw.to = IdOf(res) /\ raw.accept = all[raw.to].accepting /\ raw.anchors = BestAnchors(s, c)
      /\ raw.warp = (c \notin Ascii /\ AllWarpable(res.paths)) /\ raw.updates = res.updates
      /\ raw.delta = LeastPrio(PathsOn(s, c)) /\ raw.ccwarp = FALSE
  BY DEF RawTransition
<1>7. raw.delta \in Nat
  BY <1>1, <1>6, WantedPaths, LeastPrioIs
<1>8. raw.anchors \subseteq Conditions
  BY <1>3, <1>6, BestAnchorsTypes
<1> HIDE DEF raw, all
<1>9. raw.warp \in BOOLEAN
  <2> HIDE DEF AllWarpable
  <2> QED BY <1>6
<1>10. ASSUME raw.warp PROVE c \notin Lead
  <2>1. SUFFICES ASSUME c \in Lead PROVE FALSE
    OBVIOUS
  <2>2. res.paths \in Seq(OfKind(prog, "halfway"))
    <3>1. Wanted \in Seq(OfKind(prog, "halfway"))
      BY <2>1, WantedKind DEF Kinds
    <3> QED BY <1>1, <3>1, ClosureIs DEF Kinds
  <2>3. AllWarpable(res.paths)
    BY <1>6, <1>10
  <2>4. res.paths # <<>> /\ \A k \in DOMAIN res.paths : res.paths[k].node = <<>>
    BY <2>3 DEF AllWarpable
  <2>5. 1 \in DOMAIN res.paths /\ 1 \in 1..Len(res.paths)
    BY <2>2, <2>4, Filled
  <2>6. res.paths[1] \in OfKind(prog, "halfway")
    BY <2>2, <2>5, ElementOfSeq
  <2> QED BY <2>4, <2>5, <2>6 DEF OfKind
<1>11. ASSUME raw.updates = <<>> PROVE all[raw.to].paths = <<>>
  <2>1. res.paths = <<>>
    BY <1>4, <1>6, <1>11 DEF ResultOK
  <2>2. all[raw.to] \in StateRecs(prog)
    BY <1>5, <1>6, LenProperties, ElementOfSeq
  <2>3. all[raw.to].paths \in Seq(Paths(prog))
    BY <2>2 DEF StateRecs
  <2>4. DOMAIN Identity(all[raw.to].paths) = DOMAIN all[raw.to].paths /\ DOMAIN Identity(res.paths) = {}
    BY <2>1 DEF Identity
  <2>5. DOMAIN all[raw.to].paths = {}
    BY <1>5, <1>6, <2>4
  <2> QED BY <2>3, <2>5, Filled
<1>12. all[cursor.s].paths # <<>>
  <2>1. s.paths # <<>>
    BY <1>1, NothingFromNothing
  <2> QED BY <1>1, <1>5, <2>1
<1> QED BY <1>5, <1>6, <1>7, <1>8, <1>9, <1>10, <1>11, <1>12 DEF RawOK, all, raw

LEMMA FillTransitionBuild == ASSUME BuildInv, FillTransition PROVE BuildInv'
<1>1. /\ UNCHANGED <<prog, cache, closing, phase, dfa>> /\ Filling /\ phase = "build" /\ Building
      /\ Wanted # <<>> /\ Cached /\ ~Full(Closure) /\ ~closing.open
      /\ states' = Added(Closure)
      /\ Enter(RawTransition(states[cursor.s], NextByte, Closure),
               RecapEntries(states[cursor.s], NextByte, Closure))
  BY DEF FillTransition, Filling, Building, Cached
<1>2. StatesInv /\ CursorInv /\ EntriesInv /\ states # <<>>
  BY <1>1 DEF BuildInv, TableInv
<1>3. ProgramOK(prog) /\ ResultOK(prog, Closure)
  BY <1>1, ProgramIsOK, ClosureIs
<1>4. /\ states' \in Seq(StateRecs(prog)) /\ Len(states') <= MaxStates
      /\ Len(states) <= Len(states') /\ Len(states') \in Nat
      /\ \A k \in DOMAIN states : k \in DOMAIN states' /\ states'[k] = states[k]
      /\ \A j, k \in DOMAIN states' :
           Identity(states'[j].paths) = Identity(states'[k].paths) => j = k
  BY <1>1, <1>2, <1>3, AddedIs DEF StatesInv
<1>5. Grown(states, states')
  BY <1>2, <1>4, LenProperties DEF Grown, StatesInv
<1>6. RawOK(states', cursor.s, NextByte, RawTransition(states[cursor.s], NextByte, Closure))
  BY <1>1, NewEntryOK
<1>7. CursorInv' /\ EntriesInv'
  BY <1>1, <1>2, <1>5, <1>6, EnterKeeps
<1>8. 1 \in DOMAIN states /\ states' # <<>>
  <2>1. 1 \in DOMAIN states
    BY <1>2, Filled DEF StatesInv
  <2> QED BY <1>4, <2>1
<1>9. StatesInv'
  <2>1. StartNeedsByte'
    BY <1>1, <1>2, <1>4, <1>8 DEF StatesInv, StartNeedsByte
  <2> QED BY <1>1, <1>4, <2>1 DEF StatesInv, StatesUnderLimit, StatesApart
<1>10. TableInv'
  BY <1>1, <1>7, <1>8, <1>9 DEF BuildInv, TableInv
<1> QED BY <1>1, <1>10 DEF BuildInv, ClosingInv, Building, CacheInv

\* --- the finished table --------------------------------------------------
LEMMA WarpSetIs ==
  ASSUME NEW k
  PROVE  WarpSet(k) \subseteq Bytes /\ (WarpSet(k) \subseteq Ascii => WarpSet(k) \subseteq PureLoops(k))
<1>1. PureLoops(k) \subseteq Ascii
  BY DEF PureLoops
<1>2. Ascii \subseteq Bytes /\ NL \in Ascii
  BY TextAssumption DEF Bytes
<1>3. WarpSet(k) \in {Bytes, Ascii, Bytes \ {NL}, PureLoops(k), {}}
  BY DEF WarpSet
<1>4. CASE PureLoops(k) = Ascii
  BY <1>1, <1>2, <1>3, <1>4
<1>5. CASE PureLoops(k) # Ascii /\ PureLoops(k) = Ascii \ {NL}
  <2>1. WarpSet(k) = Bytes \ {NL}
    BY <1>5 DEF WarpSet
  <2> QED BY <1>2, <1>5, <2>1
<1>6. CASE PureLoops(k) # Ascii /\ PureLoops(k) # Ascii \ {NL}
  <2>1. WarpSet(k) \in {PureLoops(k), {}}
    BY <1>6 DEF WarpSet
  <2> QED BY <1>1, <1>2, <2>1
<1> QED BY <1>4, <1>5, <1>6

\* An entry of the finished table is that of the builder, flagged if it loops.
LEMMA FlaggedIs ==
  ASSUME NEW k, k # NoState, NEW b, <<k, b>> \in DOMAIN trans,
         RawOK(states, k, b, trans[<<k, b>>])
  PROVE  LET old == trans[<<k, b>>]
             raw == FlagLoops[<<k, b>>]
         IN  /\ raw.to = old.to /\ raw.ccwarp \in BOOLEAN /\ (raw.ccwarp => raw.to = k)
             /\ old # InvalidState =>
                  /\ raw.accept = old.accept /\ raw.anchors = old.anchors /\ raw.warp = old.warp
                  /\ raw.delta = old.delta /\ raw.updates = old.updates
<1> DEFINE old == trans[<<k, b>>]
           raw == FlagLoops[<<k, b>>]
           flagged == [old EXCEPT !.ccwarp = TRUE]
<1>1. raw = IF old.to = k /\ WarpSet(k) # {} THEN flagged ELSE old
  BY DEF FlagLoops
<1>2. old.ccwarp = FALSE /\ DOMAIN old \in {{"to", "ccwarp"}, {"to", "accept", "anchors", "warp", "updates", "delta", "ccwarp"}}
  BY DEF RawOK, InvalidState
<1>3. flagged.to = old.to /\ flagged.ccwarp = TRUE
  BY <1>2
<1> HIDE DEF raw
<1>4. CASE old = InvalidState
  <2>1. old.to # k
    BY <1>4 DEF InvalidState
  <2>2. raw = old
    BY <1>1, <2>1
  <2> QED BY <1>2, <1>4, <2>2 DEF raw
<1>5. CASE old # InvalidState
  <2>1. DOMAIN old = {"to", "accept", "anchors", "warp", "updates", "delta", "ccwarp"}
    BY <1>5 DEF RawOK
  <2>2. /\ flagged.accept = old.accept /\ flagged.anchors = old.anchors /\ flagged.warp = old.warp
        /\ flagged.delta = old.delta /\ flagged.updates = old.updates
    BY <2>1
  <2> HIDE DEF flagged, old
  <2>3. /\ raw.to = old.to /\ raw.ccwarp \in BOOLEAN /\ (raw.ccwarp => raw.to = k)
        /\ raw.accept = old.accept /\ raw.anchors = old.anchors /\ raw.warp = old.warp
        /\ raw.delta = old.delta /\ raw.updates = old.updates
    BY <1>1, <1>2, <1>3, <2>2
  <2> QED BY <2>3 DEF raw, old
<1> QED BY <1>4, <1>5

LEMMA FinishedStates ==
  ASSUME ProgramOK(prog), StatesInv, states # <<>>, Finish
  PROVE  StatesOK(dfa') /\ States(dfa') = DOMAIN states /\ PrefilterNeedsAByte(dfa')
<1> DEFINE d == dfa'
<1>1. /\ d.states = [k \in DOMAIN states |->
                       [accepting |-> states[k].accepting, guard |-> states[k].guard,
                        matchP |-> states[k].matchP, best |-> states[k].best, warpSet |-> WarpSet(k)]]
      /\ d.groups = prog.groups /\ d.strategy = Strategy
  BY DEF Finish
<1> HIDE DEF d
<1>2. 1 \in DOMAIN states /\ DOMAIN states = 1..Len(states) /\ Len(states) \in Nat
  BY Filled DEF StatesInv
<1>3. ASSUME NEW k \in DOMAIN states
      PROVE  /\ IsAccepting(d, k) \in BOOLEAN /\ IsBestMatch(d, k) \in BOOLEAN /\ MatchP(d, k) \in Nat
             /\ IsAccepting(d, k) = (MatchP(d, k) # Infinity) /\ (IsBestMatch(d, k) => MatchP(d, k) = 0)
             /\ Guard(d, k) \subseteq Conditions /\ WarpBytes(d, k) \subseteq Bytes
  <2>1. states[k] \in StateRecs(prog)
    BY <1>2, <1>3, ElementOfSeq DEF StatesInv
  <2>2. WarpSet(k) \subseteq Bytes
    BY WarpSetIs
  <2>3. /\ IsAccepting(d, k) = states[k].accepting /\ IsBestMatch(d, k) = states[k].best
        /\ MatchP(d, k) = states[k].matchP /\ Guard(d, k) = states[k].guard /\ WarpBytes(d, k) = WarpSet(k)
    BY <1>1, <1>3 DEF IsAccepting, IsBestMatch, MatchP, Guard, WarpBytes
  <2> QED BY <2>1, <2>2, <2>3 DEF StateRecs
<1>4. States(d) = DOMAIN states /\ NoState \notin DOMAIN states /\ DOMAIN states \subseteq Nat
  BY <1>1, <1>2 DEF States, NoState
<1>5. d.groups \in Nat
  BY <1>1 DEF ProgramOK
<1>6. StatesOK(d)
  BY <1>2, <1>3, <1>4, <1>5 DEF StatesOK
<1>7. PrefilterNeedsAByte(d)
  <2>1. Strategy # "none" => prog.minLength # 0
    BY DEF Strategy
  <2>2. IsAccepting(d, 1) = states[1].accepting
    BY <1>1, <1>2 DEF IsAccepting
  <2> QED BY <1>1, <2>1, <2>2 DEF PrefilterNeedsAByte, StatesInv, StartNeedsByte
<1> QED BY <1>4, <1>6, <1>7 DEF d

LEMMA FinishedTable ==
  ASSUME StatesInv, CursorInv, EntriesInv, Finish
  PROVE  /\ dfa'.trans = FlagLoops /\ DOMAIN dfa'.recap = DOMAIN trans
         /\ DOMAIN FlagLoops = DOMAIN trans /\ DOMAIN trans = (DOMAIN states) \X Bytes
         /\ \A k \in DOMAIN states, b \in Bytes : RawOK(states, k, b, trans[<<k, b>>]) /\ k \in Nat \ {NoState}
<1>1. Len(states) \in Nat /\ DOMAIN states = 1..Len(states)
  BY LenProperties DEF StatesInv
<1>2. cursor.s = Len(states) + 1 /\ cursor.left = Bytes
  BY <1>1 DEF CursorInv, Finish
<1>3. ASSUME NEW k \in DOMAIN states, NEW b \in Bytes PROVE <<k, b>> \in DOMAIN trans
  <2>1. k < cursor.s
    BY <1>1, <1>2
  <2> QED BY <2>1 DEF CursorInv
<1>4. DOMAIN trans = (DOMAIN states) \X Bytes
  <2>1. ASSUME NEW e \in (DOMAIN states) \X Bytes PROVE e \in DOMAIN trans
    <3>1. e = <<e[1], e[2]>> /\ e[1] \in DOMAIN states /\ e[2] \in Bytes
      OBVIOUS
    <3> QED BY <3>1, <1>3
  <2> QED BY <2>1 DEF CursorInv
<1>5. dfa'.trans = FlagLoops /\ dfa'.recap = recap
  BY DEF Finish
<1>6. DOMAIN FlagLoops = DOMAIN trans
  BY DEF FlagLoops
<1>7. \A k \in DOMAIN states : k \in Nat \ {NoState}
  BY <1>1 DEF NoState
<1> QED BY <1>3, <1>4, <1>5, <1>6, <1>7 DEF CursorInv, EntriesInv

LEMMA FinishedWellFormed ==
  ASSUME ProgramOK(prog), StatesInv, CursorInv, EntriesInv, states # <<>>, Finish, KernelsFit'
  PROVE  WellFormed(dfa')
<1> DEFINE d == dfa'
<1>1. StatesOK(d) /\ States(d) = DOMAIN states /\ PrefilterNeedsAByte(d)
  BY FinishedStates
<1>2. /\ d.trans = FlagLoops /\ DOMAIN d.recap = DOMAIN trans
      /\ DOMAIN FlagLoops = DOMAIN trans /\ DOMAIN trans = (DOMAIN states) \X Bytes
      /\ \A k \in DOMAIN states, b \in Bytes : RawOK(states, k, b, trans[<<k, b>>]) /\ k \in Nat \ {NoState}
  BY FinishedTable
<1>3. d.states = [k \in DOMAIN states |->
                   [accepting |-> states[k].accepting, guard |-> states[k].guard,
                    matchP |-> states[k].matchP, best |-> states[k].best, warpSet |-> WarpSet(k)]]
  BY DEF Finish
<1>4. \A k \in States(d) : WarpBytes(d, k) \subseteq Ascii \/ SkipsPureLoops(d, k)
  BY DEF KernelsFit, Finish
<1> HIDE DEF d
<1>5. ASSUME NEW k \in DOMAIN states, NEW b \in Bytes
      PROVE  LET old == trans[<<k, b>>]
                 raw == Transition(d, k, b)
             IN  /\ RawOK(states, k, b, old)
                 /\ raw.to = old.to /\ raw.ccwarp \in BOOLEAN /\ (raw.ccwarp => raw.to = k)
                 /\ old # InvalidState =>
                      /\ raw.accept = old.accept /\ raw.anchors = old.anchors /\ raw.warp = old.warp
                      /\ raw.delta = old.delta /\ raw.updates = old.updates
  <2>1. k # NoState /\ <<k, b>> \in DOMAIN trans /\ RawOK(states, k, b, trans[<<k, b>>])
    BY <1>2
  <2>2. Transition(d, k, b) = FlagLoops[<<k, b>>]
    BY <1>2 DEF Transition
  <2> QED BY <2>1, <2>2, FlaggedIs
<1>6. ASSUME NEW k \in DOMAIN states, NEW b \in Bytes, Valid(Transition(d, k, b))
      PROVE  LET old == trans[<<k, b>>]
             IN  old # InvalidState
  BY <1>5, <1>6 DEF Valid, InvalidState
<1>7. \A k \in DOMAIN states : IsAccepting(d, k) = states[k].accepting /\ WarpBytes(d, k) = WarpSet(k)
  BY <1>3 DEF IsAccepting, WarpBytes
<1>8. ASSUME NEW k \in DOMAIN states, NEW b \in Bytes
      PROVE  LET raw == Transition(d, k, b)
             IN  /\ raw.to \in (DOMAIN states) \cup {NoState} /\ raw.ccwarp \in BOOLEAN
                 /\ Valid(raw) =>
                      /\ raw.accept = IsAccepting(d, raw.to) /\ raw.anchors \subseteq Conditions
                      /\ raw.warp \in BOOLEAN /\ raw.delta \in Nat /\ (raw.warp => b \notin Lead)
  <2> DEFINE raw == Transition(d, k, b)
             old == trans[<<k, b>>]
  <2>1. CASE old = InvalidState
    <3>1. raw.to = NoState
      BY <1>5, <2>1 DEF InvalidState
    <3> QED BY <1>5, <3>1 DEF Valid
  <2>2. CASE old # InvalidState
    <3>1. /\ old.to \in DOMAIN states /\ old.accept = states[old.to].accepting /\ old.anchors \subseteq Conditions
          /\ old.warp \in BOOLEAN /\ old.delta \in Nat /\ (old.warp => b \notin Lead)
      BY <1>5, <2>2 DEF RawOK
    <3>2. /\ raw.to = old.to /\ raw.accept = old.accept /\ raw.anchors = old.anchors /\ raw.warp = old.warp
          /\ raw.delta = old.delta /\ raw.ccwarp \in BOOLEAN
      BY <1>5, <2>2
    <3> HIDE DEF raw, old
    <3>3. raw.accept = IsAccepting(d, raw.to)
      BY <1>7, <3>1, <3>2
    <3> QED BY <3>1, <3>2, <3>3 DEF raw
  <2> QED BY <2>1, <2>2
<1>9. TransitionsOK(d)
  <2>1. DOMAIN d.trans = States(d) \X Bytes /\ DOMAIN d.recap = States(d) \X Bytes
    BY <1>1, <1>2
  <2> QED BY <1>1, <1>8, <2>1 DEF TransitionsOK
<1>10. NoTrailingWarp(d)
  BY <1>1, <1>8 DEF NoTrailingWarp, GetTrailingByteCount
<1>11. FlagsAreLoops(d)
  BY <1>1, <1>5 DEF FlagsAreLoops
<1>12. ASSUME NEW k \in DOMAIN states, WarpBytes(d, k) \subseteq Ascii PROVE SkipsPureLoops(d, k)
  <2>1. ASSUME NEW b \in WarpBytes(d, k)
        PROVE  /\ Transition(d, k, b).to \in Inside(d, k, GetTrailingByteCount(b)) /\ Quiet(Transition(d, k, b))
               /\ b \in Lead => Cont \subseteq WarpBytes(d, k)
    <3> DEFINE raw == Transition(d, k, b)
               old == trans[<<k, b>>]
    <3>1. b \in PureLoops(k) /\ b \in Ascii
      BY <1>7, <1>12, <2>1, WarpSetIs
    <3>2. b \in Bytes /\ b \notin Lead
      BY <3>1, TextAssumption DEF Bytes
    <3>3. old.to = k /\ ~HasRealTags(old) /\ old.anchors = {}
      BY <3>1 DEF PureLoops, SelfLoop
    <3>4. old # InvalidState
      <4>1. k # NoState
        BY <1>2, <3>2
      <4> QED BY <3>3, <4>1 DEF InvalidState
    <3>5. raw.to = old.to /\ raw.anchors = old.anchors /\ raw.delta = old.delta /\ raw.updates = old.updates
      BY <1>5, <3>2, <3>4
    <3>6. old.updates # <<>>
      <4>1. RawOK(states, k, b, trans[<<k, b>>]) /\ k # NoState
        <5>1. \A c \in Bytes : RawOK(states, k, c, trans[<<k, c>>]) /\ k \in Nat \ {NoState}
          BY <1>2, <1>12
        <5> QED BY <3>2, <5>1
      <4> HIDE DEF old
      <4>2. RawOK(states, k, b, old)
        BY <4>1 DEF old
      <4> QED BY <3>3, <3>4, <4>1, <4>2 DEF RawOK
    <3>7. old.delta = 0 /\ \A j \in DOMAIN old.updates : old.updates[j].pre \cup old.updates[j].post = {}
      BY <3>3, <3>6 DEF HasRealTags
    <3> HIDE DEF raw, old
    <3>8. Quiet(raw)
      BY <3>3, <3>5, <3>7 DEF Quiet
    <3>9. GetTrailingByteCount(b) = 0 /\ Inside(d, k, 0) = {k}
      BY <3>2 DEF GetTrailingByteCount, Inside
    <3> QED BY <3>2, <3>3, <3>5, <3>8, <3>9 DEF raw
  <2> QED BY <2>1 DEF SkipsPureLoops
<1>13. WarpsSkipPureLoops(d)
  BY <1>1, <1>4, <1>12 DEF WarpsSkipPureLoops
<1>14. WellFormed(d)
  BY <1>1, <1>9, <1>10, <1>11, <1>13 DEF WellFormed
<1> QED BY <1>14 DEF d

LEMMA FinishBuild == ASSUME BuildInv, Finish PROVE BuildInv'
<1>1. /\ UNCHANGED <<prog, states, closing>> /\ phase = "build" /\ phase' = "built" /\ cursor.s > Len(states)
  BY DEF Finish
<1>2. StatesInv /\ CursorInv /\ EntriesInv /\ states # <<>> /\ prog \in Programs
  BY <1>1 DEF BuildInv, TableInv
<1>3. ~closing.open
  <2>1. Len(states) \in Nat /\ DOMAIN states = 1..Len(states)
    BY <1>2, LenProperties DEF StatesInv
  <2>2. ~Filling
    BY <1>1, <1>2, <2>1 DEF Filling, CursorInv
  <2>3. Wanted = <<>>
    BY <1>1, <2>2 DEF Wanted
  <2> QED BY <2>3 DEF BuildInv, ClosingInv
<1>4. (KernelsFit => WellFormed(dfa))'
  BY <1>2, ProgramIsOK, FinishedWellFormed
<1>5. StatesInv'
  BY <1>1, <1>2 DEF StatesInv, StatesUnderLimit, StatesApart, StartNeedsByte
<1>6. TableInv'
  BY <1>1, <1>2, <1>4, <1>5 DEF TableInv
<1>7. ClosingInv' /\ ~Building'
  BY <1>1, <1>3 DEF ClosingInv, Building
<1> QED BY <1>6, <1>7 DEF BuildInv

\* --- the theorems --------------------------------------------------------
LEMMA BuildInvInit == Init => BuildInv
<1> SUFFICES ASSUME Init PROVE BuildInv
  OBVIOUS
<1> USE DEF Init
<1>1. StatesInv
  <2>1. states \in Seq(StateRecs(prog)) /\ Len(states) = 0 /\ DOMAIN states = {}
    BY EmptySeq
  <2> QED BY <2>1, BuilderAssumption DEF StatesInv, StatesUnderLimit, StatesApart, StartNeedsByte
<1>2. TableInv
  BY <1>1 DEF TableInv
<1>3. ClosingInv
  BY DEF ClosingInv, NoClosure
<1>4. CacheInv
  <2>1. DOMAIN cache = {}
    OBVIOUS
  <2> QED BY <2>1 DEF CacheInv
<1> QED BY <1>2, <1>3, <1>4 DEF BuildInv

LEMMA BuildInvStep == ASSUME BuildInv, BuildNext PROVE BuildInv'
BY OpenClosureBuild, CloseTurnBuild, KeepClosureBuild, StartStateBuild, NoTransitionBuild,
   FillTransitionBuild, TableFullBuild, FinishBuild DEF BuildNext

LEMMA BuildInvStutter == ASSUME BuildInv, UNCHANGED buildVars PROVE BuildInv'
<1>1. TableInv'
  BY TableFrame DEF buildVars, BuildInv
<1>2. Wanted' = Wanted
  BY DEF buildVars, Wanted, Filling, StartPaths, PathsOn, NextByte
<1>3. ClosingInv'
  BY <1>2 DEF buildVars, BuildInv, ClosingInv
<1>4. (Building => CacheInv)'
  BY DEF buildVars, BuildInv, Building, CacheInv
<1> QED BY <1>1, <1>3, <1>4 DEF BuildInv

\* The construction by itself keeps its invariant.
THEOREM BuilderInductive == BuildSpec => []BuildInv
<1>1. BuildInv /\ [BuildNext]_buildVars => BuildInv'
  BY BuildInvStep, BuildInvStutter
<1> QED BY <1>1, BuildInvInit, PTL DEF BuildSpec

\* What addDfaState says of the states.
StatesBounded == StatesApart /\ StatesUnderLimit

\* Two states of the table are never the same set of paths, and there are never
\* more than the limit: what addDfaState finds in stateMap is the state it looks
\* for, and a full table is refused before a state too many is added.
THEOREM OneStatePerIdentity == BuildSpec => []StatesBounded
<1>1. BuildInv => StatesBounded
  BY DEF BuildInv, TableInv, StatesInv, StatesBounded
<1> QED BY <1>1, BuilderInductive, PTL

\* A call runs only on a table that is finished.
CallsNeedTable == pc # "idle" => phase = "built"

MatcherInv == BuildInv /\ CallsNeedTable

\* A finished construction does not go on.
LEMMA BuiltIsFinal == ASSUME BuildInv, BuildNext PROVE phase \in {"start", "build"}
<1>1. phase \notin {"start", "build"} => Wanted = <<>> /\ ~closing.open /\ ~Filling
  BY DEF Wanted, Filling, BuildInv, ClosingInv
<1> QED BY <1>1 DEF BuildNext, OpenClosure, CloseTurn, KeepClosure, StartState, NoTransition,
                    FillTransition, TableFull, Finish, Filling

LEMMA MatcherInvStep == ASSUME MatcherInv, [Next]_vars PROVE MatcherInv'
<1>1. CASE Build
  <2>1. BuildInv' /\ phase \in {"start", "build"}
    BY <1>1, BuildInvStep, BuiltIsFinal DEF Build, MatcherInv
  <2>2. pc' = "idle"
    BY <1>1, <2>1 DEF Build, MatcherInv, CallsNeedTable, scanVars
  <2> QED BY <2>1, <2>2 DEF MatcherInv, CallsNeedTable
<1>2. CASE Calls
  BY <1>2, BuildInvStutter DEF Calls, MatcherInv, CallsNeedTable, buildVars
<1>3. CASE UNCHANGED vars
  BY <1>3, BuildInvStutter DEF MatcherInv, CallsNeedTable, vars, buildVars, scanVars
<1> QED BY <1>1, <1>2, <1>3 DEF Next, Refused

\* A call searches only what the construction has finished, and leaves it alone.
THEOREM MatcherInductive == Spec => []MatcherInv
<1>1. EngineInit => MatcherInv
  BY BuildInvInit DEF EngineInit, ScanInit, MatcherInv, CallsNeedTable
<1> QED BY <1>1, MatcherInvStep, PTL DEF Spec

\* Whatever the programs, a table whose kernels fit has all that the passes take
\* for granted of it: states and transitions of the table, no warp on a byte with
\* trailing bytes, flags on loops only, blocks of loops without tags, and no
\* prefilter for a pattern that may match nothing.
THEOREM TableIsWellFormed == Spec /\ []KernelsFit => []TableWellFormed
<1>1. MatcherInv /\ KernelsFit => TableWellFormed
  BY DEF MatcherInv, BuildInv, TableInv, TableWellFormed, Ready
<1> QED BY <1>1, MatcherInductive, PTL

\* Compile and the calls after it are a search of a well formed table, so what is
\* proved of the passes holds of them.
THEOREM CallsSearchWellFormed == Spec /\ []KernelsFit => ScanSpec
<1>1. MatcherInv /\ KernelsFit /\ [Next]_vars => [Search \/ Prepare]_<<dfa, scanVars>>
  <2> SUFFICES ASSUME MatcherInv, KernelsFit, [Next]_vars PROVE [Search \/ Prepare]_<<dfa, scanVars>>
    OBVIOUS
  <2>1. CASE Build
    <3>1. phase \in {"start", "build"}
      BY <2>1, BuiltIsFinal DEF Build, MatcherInv
    <3> QED BY <2>1, <3>1 DEF Build, MatcherInv, CallsNeedTable, Prepare
  <2>2. CASE Calls
    <3>1. WellFormed(dfa)
      BY <2>2 DEF Calls, MatcherInv, BuildInv, TableInv
    <3> QED BY <2>2, <3>1 DEF Calls, Search, buildVars
  <2>3. CASE UNCHANGED vars
    BY <2>3 DEF vars, buildVars
  <2> QED BY <2>1, <2>2, <2>3 DEF Next, Refused
<1>2. EngineInit => ScanInit
  BY DEF EngineInit
<1> QED BY <1>1, <1>2, MatcherInductive, PTL DEF Spec, ScanSpec

\* What Compile returns answers as a walk of its table byte by byte does.
THEOREM CompiledAnswers == Spec /\ []KernelsFit => []AnswersBytewise
BY CallsSearchWellFormed, AnswerIsBytewise, PTL

\* The walks of passes 1 to 4 over a match of what Compile returns agree, and
\* every position and state they keep is one of the input and of the table.
THEOREM CompiledWalks == ASSUME BlocksFit PROVE Spec /\ []KernelsFit => []TypeOK /\ []WalksMeet
BY CallsSearchWellFormed, WalkTypes, WalksAgree, PTL
=============================================================================
