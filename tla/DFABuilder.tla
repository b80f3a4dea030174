------------------------------ MODULE DFABuilder ----------------------------
(***************************************************************************)
(* NewDFAWithMemoryLimit (internal/ir/dfa_builder.go): the worklist that   *)
(* turns the program of a pattern into the table the passes of a search    *)
(* run on.  A state of the table is a list of NFA paths; the identity of a *)
(* state leaves out priorities and tags when the build is naked (regexp.go *)
(* always asks for a naked build).  A closure that is not cached is        *)
(* computed turn by turn before the worklist goes on.  After the worklist  *)
(* is empty the self loops that may be skipped in blocks are detected      *)
(* (CCWarp), and the prefilter of pass 0 is chosen.                        *)
(***************************************************************************)
EXTENDS Program

CONSTANTS
  Programs,        \* the programs to compile
  Naked,           \* the naked argument
  MaxStates,       \* max(100, maxMemory / 2048)
  MaxSearchStates  \* 255: the states of the search DFA fit in a byte

ASSUME BuilderAssumption ==
  /\ \A p \in Programs : ProgramOK(p)
  /\ Naked \in BOOLEAN /\ MaxStates \in Nat \ {0} /\ MaxSearchStates \in Nat

VARIABLES
  prog,     \* the program
  states,   \* state id |-> its paths and what is kept of them (storage, accepting, ...)
  trans,    \* <<state id, byte>> |-> raw transition (transitions, tagUpdates)
  recap,    \* <<state id, byte>> |-> entries of the recap table
  cache,    \* closureCache
  closing,  \* the closure that is being computed
  cursor,   \* the state the worklist is at, and the bytes it has left there
  phase     \* "start", "build", "built", "failed" (the panic turned into an error)

buildVars == <<prog, states, trans, recap, cache, closing, cursor, phase, dfa>>

\* --- closures and states -------------------------------------------------
Lower(paths) == [k \in DOMAIN paths |-> [paths[k] EXCEPT !.prio = @ - LeastPrio(paths)]]

\* Mutant of Identity: a hash that keeps the priorities and the tags.
IdentityWithTags(paths) ==
  [k \in DOMAIN paths |-> <<Key(paths[k]), Lower(paths)[k].prio, paths[k].tags>>]

\* The FNV hash of a path list, taken as injective: hashSet, and the key of
\* closureCache.
Identity(paths) ==
  [k \in DOMAIN paths |-> IF Naked THEN Key(paths[k])
                          ELSE <<Key(paths[k]), Lower(paths)[k].prio, paths[k].tags>>]

MatchPrio(paths) ==
  LET m == {paths[k].prio : k \in {j \in DOMAIN paths : IsMatch(prog.inst, paths[j])}}
  IN  IF m = {} THEN Infinity ELSE Min(m)

\* Mutant of NewState: an accepting state has no condition.
NewStateUnguarded(res) ==
  LET matchP == MatchPrio(Lower(res.paths))
  IN  [paths |-> Lower(res.paths), matchP |-> matchP, accepting |-> matchP # Infinity,
       best |-> matchP = 0, guard |-> {}]

NewState(res) ==
  LET minP   == LeastPrio(res.paths)
      matchP == MatchPrio(Lower(res.paths))
  IN  [paths |-> Lower(res.paths), matchP |-> matchP, accepting |-> matchP # Infinity,
       best |-> matchP = 0 /\ minP = 0, guard |-> res.guard]

StateOf(res) == {k \in DOMAIN states : Identity(states[k].paths) = Identity(res.paths)}

\* addDfaState on a state that is not in the table yet may find the table full.
Full(res) == StateOf(res) = {} /\ Len(states) >= MaxStates
Added(res) == IF StateOf(res) = {} THEN Append(states, NewState(res)) ELSE states
IdOf(res)  == IF StateOf(res) = {} THEN Len(states) + 1 ELSE CHOOSE k \in StateOf(res) : TRUE

\* --- one entry of the table ----------------------------------------------
PathsOn(s, b) == FlattenSeq([k \in DOMAIN s.paths |-> StepOn(prog.inst, s.paths[k], b)])

\* The conditions a transition verifies are those of its best paths only.
BestAnchors(s, b) ==
  LET live  == {k \in DOMAIN s.paths : StepOn(prog.inst, s.paths[k], b) # <<>>}
      least == Min({s.paths[k].prio : k \in live})
  IN  UNION {s.paths[k].anchors : k \in {j \in live : s.paths[j].prio = least}}

\* Mutant of AllWarpable: a path inside a rune counts as well.
AllWarpableInside(paths) ==
  paths # <<>> /\ \A k \in DOMAIN paths :
    prog.inst[paths[k].id].op = "rune" /\ prog.inst[paths[k].id].any

\* Every path that is left is a whole "any character" instruction.
AllWarpable(paths) ==
  paths # <<>> /\ \A k \in DOMAIN paths :
    /\ paths[k].node = <<>>
    /\ prog.inst[paths[k].id].op = "rune" /\ prog.inst[paths[k].id].any

RawTransition(s, b, res) ==
  [to      |-> IdOf(res),
   accept  |-> Added(res)[IdOf(res)].accepting,
   anchors |-> BestAnchors(s, b),
   warp    |-> b \notin Ascii /\ AllWarpable(res.paths),
   updates |-> res.updates,
   delta   |-> LeastPrio(PathsOn(s, b)),
   ccwarp  |-> FALSE]

RecapEntries(s, b, res) ==
  [k \in DOMAIN res.updates |->
     [res.updates[k] EXCEPT !.rel = @ + LeastPrio(PathsOn(s, b))]]

\* --- the worklist --------------------------------------------------------
AtStart == [s |-> 1, left |-> Bytes]
NextByte == Min(cursor.left)

\* Mutant of Advance: no state but the first is ever filled.
AdvanceInPlace ==
  cursor' = [cursor EXCEPT !.left = IF @ = {NextByte} THEN Bytes ELSE @ \ {NextByte}]

Advance ==
  cursor' = IF cursor.left = {NextByte} THEN [s |-> cursor.s + 1, left |-> Bytes]
            ELSE [cursor EXCEPT !.left = @ \ {NextByte}]

Init ==
  /\ prog \in Programs
  /\ states = <<>> /\ trans = <<>> /\ recap = <<>> /\ cache = <<>>
  /\ closing = NoClosure /\ cursor = AtStart
  /\ phase = "start"
  /\ dfa = NoDFA

StartPaths == <<Path(prog.start, <<>>, 0, {})>>

\* The state to fill, and the paths whose closure is needed for that, or for the
\* start state.
Filling == phase = "build" /\ cursor.s \in DOMAIN states
Wanted  == CASE phase = "start" -> StartPaths
             [] Filling         -> PathsOn(states[cursor.s], NextByte)
             [] OTHER           -> <<>>

\* getCachedClosure: a result that is not in the cache is computed, and kept.
OpenClosure ==
  /\ ~closing.open /\ Wanted # <<>> /\ Identity(Wanted) \notin DOMAIN cache
  /\ closing' = Opened(prog.inst, Lower(Wanted))
  /\ UNCHANGED <<prog, states, trans, recap, cache, cursor, phase, dfa>>

CloseTurn ==
  /\ closing.open /\ closing.stack # <<>>
  /\ closing' = Turn(prog.inst, closing)
  /\ UNCHANGED <<prog, states, trans, recap, cache, cursor, phase, dfa>>

KeepClosure ==
  /\ closing.open /\ closing.stack = <<>>
  /\ \E ordered \in Orders(Members(closing)) :
       cache' = With(cache, Identity(Wanted), Closed(closing, ordered))
  /\ closing' = NoClosure
  /\ UNCHANGED <<prog, states, trans, recap, cursor, phase, dfa>>

\* The closure of the paths, once it is there.
Cached  == ~closing.open /\ Identity(Wanted) \in DOMAIN cache
Closure == cache[Identity(Wanted)]

StartState ==
  /\ phase = "start" /\ Cached
  /\ states' = Added(Closure)
  /\ phase' = "build"
  /\ UNCHANGED <<prog, trans, recap, cache, closing, cursor, dfa>>

Enter(raw, entries) ==
  /\ trans' = With(trans, <<cursor.s, NextByte>>, raw)
  /\ recap' = With(recap, <<cursor.s, NextByte>>, entries)
  /\ Advance

NoTransition ==
  /\ Filling /\ Wanted = <<>>
  /\ Enter(InvalidState, <<>>)
  /\ UNCHANGED <<prog, states, cache, closing, phase, dfa>>

FillTransition ==
  /\ Filling /\ Wanted # <<>> /\ Cached /\ ~Full(Closure)
  /\ states' = Added(Closure)
  /\ Enter(RawTransition(states[cursor.s], NextByte, Closure),
           RecapEntries(states[cursor.s], NextByte, Closure))
  /\ UNCHANGED <<prog, cache, closing, phase, dfa>>

\* The panic of a full table.
TableFull ==
  /\ Filling /\ Wanted # <<>> /\ Cached /\ Full(Closure)
  /\ phase' = "failed"
  /\ UNCHANGED <<prog, states, trans, recap, cache, closing, cursor, dfa>>

\* --- CCWarp detection ----------------------------------------------------
SelfLoop(i, b) == trans[<<i, b>>].to = i

HasRealTags(raw) ==
  raw.updates # <<>> /\
    \/ raw.delta # 0
    \/ \E k \in DOMAIN raw.updates : raw.updates[k].pre \cup raw.updates[k].post # {}

PureLoops(i) ==
  {b \in Ascii : /\ SelfLoop(i, b)
                 /\ ~HasRealTags(trans[<<i, b>>])
                 /\ trans[<<i, b>>].anchors = {}}

\* A single range of ASCII bytes; Other stands for bytes on both sides of the
\* named ones, so a set with Other in it is a range only when it is all of Ascii.
SingleRange(S) == S # {} /\ Other \notin S /\ \A b \in Ascii : Min(S) <= b /\ b <= Max(S) => b \in S

\* The bytes the kernel chosen for a state skips; none without a kernel.  The passes
\* ask for it only at a flagged loop, and a state without pure loops has no loop
\* flagged: the kernel it gets when all its bytes loop is left out.
WarpSet(i) ==
  LET loops == PureLoops(i)
  IN  IF loops = Ascii
      THEN IF \A b \in Bytes \ Ascii : SelfLoop(i, b) THEN Bytes ELSE Ascii
      ELSE IF loops = Ascii \ {NL} THEN Bytes \ {NL}
      ELSE IF SingleRange(loops) THEN loops ELSE {}

FlagLoops == [k \in DOMAIN trans |->
                IF trans[k].to = k[1] /\ WarpSet(k[1]) # {}
                THEN [trans[k] EXCEPT !.ccwarp = TRUE] ELSE trans[k]]

\* --- prefilters of pass 0 ------------------------------------------------
\* The first bytes of a match, when they are few: count is below 64 exactly
\* when Other is not among them.
SearchWarpSet ==
  LET first == {b \in Ascii : Valid(trans[<<1, b>>])}
  IN  IF Other \in first THEN {} ELSE first

\* buildSearchDFA: sets of instructions, conditions ignored.  A round for each
\* instruction reaches all there are.
ComputeClosure(ids) ==
  LET round[n \in 0..Len(prog.inst)] ==
        IF n = 0 THEN ids
        ELSE LET seen == round[n - 1]
             IN  seen \cup UNION {EpsilonEdges(prog.inst[i]) : i \in seen}
  IN  round[Len(prog.inst)]

SearchNext(set, b) ==
  ComputeClosure({prog.inst[i].out : i \in {j \in set : prog.inst[j].op = "rune" /\ <<b>> \in prog.inst[j].runes}})

\* The sets reached from the start, or more than there may be.
SearchStates ==
  LET round[n \in 0..MaxSearchStates] ==
        IF n = 0 THEN {ComputeClosure({prog.start})}
        ELSE LET seen == round[n - 1]
             IN  seen \cup ({SearchNext(s, b) : s \in seen, b \in Bytes} \ {{}})
  IN  round[MaxSearchStates]

AsciiProgram == Len(prog.inst) <= 64 /\ \A i \in DOMAIN prog.inst :
  prog.inst[i].op = "rune" =>
    ~prog.inst[i].any /\ \A r \in prog.inst[i].runes : Len(r) = 1 /\ r[1] \in Ascii

SearchDFA ==
  LET start == ComputeClosure({prog.start})
      all   == SearchStates
      Accepting(s) == s # start /\ \E i \in s : prog.inst[i].op = "match"
  IN  [start |-> start,
       next  |-> [s \in all, b \in Bytes |-> SearchNext(s, b)],
       accepting |-> {s \in all : Accepting(s)}]

HasSearchDFA ==
  /\ AsciiProgram
  /\ Cardinality(SearchStates) <= MaxSearchStates
  /\ \E b \in Bytes : SearchNext(ComputeClosure({prog.start}), b) # {}

Complex(sd) == \E b \in Bytes : sd.next[sd.start, b] \notin sd.accepting \cup {{}}

\* The order of preference of the three prefilters; the literal one needs an
\* anchor that scores, which no pattern here has.
Strategy ==
  IF prog.minLength = 0 THEN "none"
  ELSE IF HasSearchDFA /\ Complex(SearchDFA) THEN "sdfa"
  ELSE IF SearchWarpSet # {} THEN "warp"
  ELSE "none"

Finish ==
  /\ phase = "build" /\ cursor.s > Len(states)
  /\ phase' = "built"
  /\ dfa' = [states |-> [i \in DOMAIN states |->
                           [accepting |-> states[i].accepting, guard |-> states[i].guard,
                            matchP |-> states[i].matchP, best |-> states[i].best,
                            warpSet |-> WarpSet(i)]],
             trans |-> FlagLoops,
             recap |-> recap,
             startUpdates |-> cache[Identity(StartPaths)].updates,
             groups |-> prog.groups,
             strategy |-> Strategy,
             searchSet |-> SearchWarpSet,
             searchDFA |-> IF Strategy = "sdfa" THEN SearchDFA ELSE <<>>]
  \* The table is the DFA's now, and the builder's own variables are gone.
  /\ trans' = <<>> /\ recap' = <<>> /\ cache' = <<>> /\ cursor' = AtStart
  /\ UNCHANGED <<prog, states, closing>>

BuildNext ==
  \/ OpenClosure \/ CloseTurn \/ KeepClosure
  \/ StartState \/ NoTransition \/ FillTransition \/ TableFull \/ Finish

BuildSpec == Init /\ [][BuildNext]_buildVars
=============================================================================
