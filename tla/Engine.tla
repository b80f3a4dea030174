-------------------------------- MODULE Engine -------------------------------
(***************************************************************************)
(* What a compiled pattern returns, compared with the matches of the       *)
(* standard package, and its table, compared with the subset construction. *)
(***************************************************************************)
EXTENDS Matcher, Compiler

pattern == prog.source

\* --- the standard's answer -----------------------------------------------
Matches(p) == MatchesAt(pattern, in.text, p, <<>>)
Starts     == {p \in in.absPos..Len(in.text) : Matches(p) # <<>>}
Leftmost   == Min(Starts)
Ends(p)    == {Matches(p)[k].end : k \in DOMAIN Matches(p)}

Registers(p, m) ==
  [k \in 1..(2 * dfa.groups + 2) |->
     IF k <= 2 THEN <<p, m.end>>[k]
     ELSE LET g == (k - 1) \div 2 IN IF g \in DOMAIN m.caps THEN m.caps[g][2 - (k % 2)] ELSE -1]

Standard == IF Starts = {} THEN NoMatch ELSE Registers(Leftmost, Matches(Leftmost)[1])

\* --- the table -----------------------------------------------------------
\* The state the table is in after the bytes of t up to p, and the positions
\* where it accepts.
RunTo(t, p) ==
  FoldLeft(LAMBDA s, q :
             IF s = NoState THEN s
             ELSE LET raw == Transition(dfa, s, t[q])
                  IN  IF Valid(raw) /\ Verify(t, q - 1, raw.anchors) THEN raw.to ELSE NoState,
           1, [q \in 1..p |-> q])

TableEnds(t) ==
  {p \in 0..Len(t) : LET s == RunTo(t, p)
                     IN  s # NoState /\ IsAccepting(dfa, s) /\ Verify(t, p, Guard(dfa, s))}

\* The table of a pattern accepts a prefix of a text exactly when the standard
\* can match it: merging paths into states and dropping their priorities from
\* the identity of a state loses and adds no match (hashSet, addDfaState).
TableExact ==
  Ready =>
    \A t \in {u \in TextsUpTo(MaxTextLength) : ValidUTF8(u)} :
      LET ms == MatchesAt(pattern, t, 0, <<>>)
      IN  TableEnds(t) = {ms[k].end : k \in DOMAIN ms}

\* The subset construction, with nothing but sets: the keys reachable over
\* epsilon instructions, the step of a set, the sets reachable from the start.
RECURSIVE KeyClosure(_)
KeyClosure(keys) ==
  LET Onward(k) == IF k[2] # <<>> \/ ~IsEpsilon(prog.inst[k[1]].op) THEN {k}
                 ELSE LET inst == prog.inst[k[1]]
                          cond == IF inst.op = "empty" THEN {inst.cond} ELSE {}
                      IN  {<<j, <<>>, k[3] \cup cond>> : j \in EpsilonEdges(inst)}
      more == UNION {Onward(k) : k \in keys}
  IN  IF more = keys THEN keys ELSE KeyClosure(more)

KeyStep(keys, b) ==
  KeyClosure(UNION {{Key(p) : p \in Range(StepOn(prog.inst, Path(k[1], k[2], 0, {}), b))} : k \in keys})

RECURSIVE KeySets(_)
KeySets(sets) ==
  LET more == sets \cup ({KeyStep(s, b) : s \in sets, b \in Bytes} \ {{}})
  IN  IF more = sets THEN sets ELSE KeySets(more)

Subsets == KeySets({KeyClosure({<<prog.start, <<>>, {}>>})})

\* The orders the sort may leave a set in: it goes by the instruction first.
SortedById(keys) ==
  {seq \in SetToSeqs(keys) : \A j, k \in DOMAIN seq : j < k => seq[j][1] <= seq[k][1]}
Arrangements == MapThenSumSet(LAMBDA keys : Cardinality(SortedById(keys)), Subsets)
KeysOf(s)    == {Key(p) : p \in Range(s.paths)}

\* The sets of the table's states are those of the subset construction.  Paths of
\* one instruction that differ in their conditions are sorted by priority, and where
\* they tie in an order that Go's map chose, so a set has a state for each order it
\* came out in, and no other: a pattern is refused only when there are more orders
\* than the limit (hashSet, addDfaState).
OneStatePerOrder ==
  /\ Ready => /\ {KeysOf(s) : s \in Range(states)} = Subsets
              /\ Len(states) <= Min({Arrangements, MaxStates})
  /\ phase = "failed" => Arrangements > MaxStates

\* Construction ends, with a table or with the error of a full one.
Compiles == <>(phase \in {"built", "failed"})

\* --- the calls -----------------------------------------------------------
\* A match that is returned is one the pattern has; where no word hides a byte
\* from IndexClass, pass 0 and pass 1 together find the leftmost start, and find
\* nothing only when there is nothing.
LeftmostStart ==
  pc = "done" =>
    IF result = NoMatch THEN WordsDecided(dfa, in) => Starts = {}
    ELSE /\ result[1] \in Starts /\ result[2] \in Ends(result[1])
         /\ WordsDecided(dfa, in) => result[1] = Leftmost

Returned(op) == pc = "done" /\ in.op = op /\ WordsDecided(dfa, in)

\* The result is the standard's where no word hides a byte from IndexClass:
\* FindIndex for a pattern without priorities to respect, FindSubmatchIndex with
\* the groups too.
FindExact     == Returned("find") => result = SubSeq(Standard, 1, Min({2, Len(Standard)}))
SubmatchExact == Returned("submatch") => result = Standard

\* Of a submatch call, the boundaries alone.
SubmatchSpan ==
  Returned("submatch") =>
    SubSeq(result, 1, Min({2, Len(result)})) = SubSeq(Standard, 1, Min({2, Len(Standard)}))

\* The path pass 3 selects backwards is one path of the pattern: the start state
\* starts it, and pass 4 finds an entry for each of its bytes that is not in a
\* block, so no tag of it is lost.
PathConnected ==
  /\ pc = "pass3" /\ h <= 1 =>
       \E k \in DOMAIN dfa.startUpdates : dfa.startUpdates[k].next = path[start]
  /\ pc = "pass4" /\ h < Len(history) /\ ~history[h + 1].warp =>
       \E k \in DOMAIN Entries(dfa, in, history[h], i) :
         LET e == Entries(dfa, in, history[h], i)[k]
         IN  e.rel = path[i] /\ e.next = path[i + 1] /\ e.isMatch = IsLast(i)

\* A call returns.
Returns == pc = "pass0" ~> pc = "done"
=============================================================================
