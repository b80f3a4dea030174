--------------------------------- MODULE Scan -------------------------------
(***************************************************************************)
(* A search over a finished table (exec_dfa.go, exec_tdfa.go,              *)
(* exec_dispatch.go): pass 0 proposes a start, pass 1 finds the end of the *)
(* match from there, and for a call that wants groups pass 2 records the   *)
(* states of the match, pass 3 walks them backwards to the priority of     *)
(* the winning path at every byte, and pass 4 walks them forwards and      *)
(* applies the tags of that path.                                          *)
(*                                                                         *)
(* Input.B is the part of the text from absPos on; every position of a     *)
(* pass is relative to it, and only the conditions and the results are     *)
(* absolute.  One step of a pass is one turn of its loop.  What a pass only *)
(* computes takes the table and the input as arguments, d and x, as the    *)
(* functions of the code do.                                               *)
(***************************************************************************)
EXTENDS Table, History, SequencesExt

CONSTANTS
  WordLength,     \* the bytes IndexClass compares at once: 8
  MaxTextLength   \* bound on the texts that are searched

ASSUME ScanAssumption == WordLength \in Nat \ {0} /\ MaxTextLength \in Nat

INSTANCE Index

VARIABLES
  in,      \* ir.Input: text is OriginalB, absPos is AbsPos; and the call, op, which
           \* is "find" (findIndexAt) or "submatch" (findSubmatchIndexAt)
  pc,      \* the pass
  i,       \* the position of the loop of the pass
  from,    \* the position the discovery loop is at
  start,   \* the start pass 0 returned
  state,   \* the raw state of passes 1 and 2
  prio,    \* currPrio
  best,    \* bestEnd and bestPriority
  history, \* mc.history
  h,       \* hIdx
  path,    \* mc.pathHistory
  regs,    \* mc.regs
  result   \* what the call returned, absolute

loopVars  == <<i, from, start, state, prio, best>>
tagVars   == <<history, h, path, regs>>
scanVars  == <<in, pc, loopVars, tagVars, result>>

None     == [end |-> -1, prio |-> Infinity]
NoMatch  == <<>>
NoInput  == [op |-> "find", text |-> <<>>, absPos |-> 0]
N(x)     == Len(x.text) - x.absPos
Byte(x, p)       == x.text[x.absPos + p + 1]
Holds(x, p, req) == Verify(x.text, x.absPos + p, req)

\* ir.Warp on the kernel of state s: the end of the block of bytes it skips.
WarpTo(d, x, s, p, limit) ==
  LET stop == {q \in p..limit : q = limit \/ Byte(x, q) \notin WarpBytes(d, s)}
  IN  CHOOSE q \in stop : \A r \in stop : q <= r

\* --- pass 0 --------------------------------------------------------------
SearchRun(d, x, p, q) ==
  FoldLeft(LAMBDA s, k : IF s = {} THEN {} ELSE d.searchDFA.next[s, Byte(x, k)],
           d.searchDFA.start, [k \in 1..(q - p) |-> p + k - 1])


\* The class pass 0 looks for: the bytes a match can start with, or those that
\* lead out of the start state of the search DFA.
Trigger(sd) == {b \in Bytes : sd.next[sd.start, b] # {}}
Sought(d)   == CASE d.strategy = "warp" -> d.searchSet
                 [] d.strategy = "sdfa" -> Trigger(d.searchDFA)
                 [] OTHER               -> {}

\* CCWarpSingleRange, the kernel that goes by words: ASCII bytes with none missing
\* between them.  For a single byte SearchWarp has a kernel of its own.
Consecutive(S) == S \subseteq Ascii /\ \A b, c \in S, e \in Bytes : b <= e /\ e <= c => e \in S
ByWords(d)     == Consecutive(Sought(d)) /\ (d.strategy = "warp" => \A b \in Sought(d) : Sought(d) # {b})

\* What ir.IndexClass can return for b[p:].
Places(d, x, p) ==
  {q \in p..(N(x) - 1) : x.absPos + q \in Findable(x.text, x.absPos + p, Sought(d), ByWords(d))}

\* The search DFA accepts a prefix of what follows q.
Confirmed(d, x, q) == \E r \in (q + 1)..N(x) : SearchRun(d, x, q, r) \in d.searchDFA.accepting

\* Mutant of Candidates: the prefilter starts one byte late.
CandidatesLate(d, x, p) ==
  CASE d.strategy = "warp" -> Places(d, x, p + 1)
    [] d.strategy = "sdfa" -> {q \in Places(d, x, p + 1) : Confirmed(d, x, q)}
    [] OTHER -> {p}

\* The loop of the search DFA looks for the class again behind every place it
\* has tried: the position from which it looks for the one that may be at q.
Since(d, x, p) ==
  LET since[q \in p..N(x)] ==
        IF q = p THEN p ELSE IF q - 1 \in Places(d, x, since[q - 1]) THEN q ELSE since[q - 1]
  IN  since

Candidates(d, x, p) ==
  CASE d.strategy = "warp" -> Places(d, x, p)
    [] d.strategy = "sdfa" ->
         {q \in p..(N(x) - 1) : q \in Places(d, x, Since(d, x, p)[q]) /\ Confirmed(d, x, q)}
    [] OTHER -> {p}

\* The start pass 0 proposes from p on, or -1.
Pass0(d, x, p) ==
  IF IsAccepting(d, 1) /\ Holds(x, p, Guard(d, 1)) THEN p
  ELSE IF Candidates(d, x, p) = {} THEN -1
  ELSE CHOOSE q \in Candidates(d, x, p) : \A r \in Candidates(d, x, p) : q <= r

Idle ==
  /\ i = 0 /\ from = 0 /\ start = -1 /\ state = InvalidState /\ prio = 0 /\ best = None
  /\ history = <<>> /\ h = 0 /\ path = <<>> /\ regs = <<>>

ScanInit ==
  /\ in = NoInput
  /\ pc = "idle" /\ Idle /\ result = NoMatch

\* A call on any position of a text that is not inside a rune.
Call ==
  /\ pc = "idle"
  /\ \E op \in {"find", "submatch"}, t \in TextsUpTo(MaxTextLength) : \E p \in 0..Len(t) :
       /\ ValidUTF8(t) /\ ~ByteAfter(t, p, Cont)
       /\ in' = [op |-> op, text |-> t, absPos |-> p]
  /\ pc' = "pass0"
  /\ UNCHANGED <<loopVars, tagVars, result>>

Return(r) == pc' = "done" /\ result' = r

Span(x, s, e) == <<s + x.absPos, e + x.absPos>>

\* --- passes 0 and 1 ------------------------------------------------------
\* Mutant of Better: a find keeps the first end.
BetterFirst(d, x, b, p, s, pr) ==
  IF ~s.accept \/ ~Holds(x, p, Guard(d, s.to)) THEN b
  ELSE IF x.op = "find" THEN (IF b.end >= 0 THEN b ELSE [end |-> p, prio |-> 0])
  ELSE IF pr + MatchP(d, s.to) <= b.prio THEN [end |-> p, prio |-> pr + MatchP(d, s.to)] ELSE b

\* Update the best end b at position p in raw state s; the loop of a find keeps
\* the last end, whatever its priority.
Better(d, x, b, p, s, pr) ==
  IF ~s.accept \/ ~Holds(x, p, Guard(d, s.to)) THEN b
  ELSE IF x.op = "find" THEN [end |-> p, prio |-> 0]
  ELSE IF pr + MatchP(d, s.to) <= b.prio THEN [end |-> p, prio |-> pr + MatchP(d, s.to)] ELSE b

\* One turn of fastDiscoveryLoop and fastMatchExecLoop.
Discover ==
  /\ pc = "pass0"
  /\ LET s == IF from > N(in) THEN -1 ELSE Pass0(dfa, in, from)
     IN  IF s < 0
         THEN Return(NoMatch) /\ UNCHANGED loopVars
         ELSE /\ pc' = "pass1"
              /\ start' = s /\ i' = s /\ prio' = 0 /\ state' = MatchState(dfa)
              /\ best' = Better(dfa, in, None, s, MatchState(dfa), 0)
              /\ UNCHANGED <<from, result>>
  /\ UNCHANGED <<in, tagVars>>

\* Mutant of Conclude: the discovery loop stays where it is.
ConcludeInPlace(b) ==
  /\ best' = b
  /\ IF b.end < 0
     THEN pc' = "pass0" /\ UNCHANGED <<from, i, state, prio, result>>
     ELSE /\ UNCHANGED from
          /\ IF in.op = "find"
             THEN Return(Span(in, start, b.end)) /\ UNCHANGED <<i, state, prio>>
             ELSE pc' = "pass2" /\ i' = start /\ state' = MatchState(dfa) /\ prio' = 0 /\ UNCHANGED result

\* Mutant of Conclude: the discovery loop goes on from where pass 1 stopped.
ConcludeAhead(b) ==
  /\ best' = b
  /\ IF b.end < 0
     THEN pc' = "pass0" /\ from' = i + 1 /\ UNCHANGED <<i, state, prio, result>>
     ELSE /\ UNCHANGED from
          /\ IF in.op = "find"
             THEN Return(Span(in, start, b.end)) /\ UNCHANGED <<i, state, prio>>
             ELSE pc' = "pass2" /\ i' = start /\ state' = MatchState(dfa) /\ prio' = 0 /\ UNCHANGED result

\* Pass 1 is over: no end was found, or a find returns, or pass 2 starts.
Conclude(b) ==
  /\ best' = b
  /\ IF b.end < 0
     THEN pc' = "pass0" /\ from' = from + 1 /\ UNCHANGED <<i, state, prio, result>>
     ELSE /\ UNCHANGED from
          /\ IF in.op = "find"
             THEN Return(Span(in, start, b.end)) /\ UNCHANGED <<i, state, prio>>
             ELSE pc' = "pass2" /\ i' = start /\ state' = MatchState(dfa) /\ prio' = 0 /\ UNCHANGED result

\* The transition on the byte at p exists and its conditions hold.
CanStep(x, raw, p) == Valid(raw) /\ Holds(x, p, raw.anchors)

\* The position after the byte at p, and after the rest of its rune on a warp.
Skip(x, raw, p) ==
  p + 1 + IF raw.warp /\ Byte(x, p) \notin Ascii THEN GetTrailingByteCount(Byte(x, p)) ELSE 0

\* No later end can have a better priority.
Stops(d, raw, b) == raw.accept /\ b.end >= 0 /\ b.prio = 0 /\ IsBestMatch(d, raw.to)

\* One turn of the loop of pass1_BoundaryDiscovery(Fast).
Boundary ==
  /\ pc = "pass1"
  /\ LET j      == IF state.ccwarp THEN WarpTo(dfa, in, state.to, i, N(in)) ELSE i
         warped == IF j > i THEN Better(dfa, in, best, j, state, prio) ELSE best
         raw    == Transition(dfa, state.to, Byte(in, j))
     IN  IF j = N(in) \/ ~CanStep(in, raw, j) THEN Conclude(warped)
         ELSE LET next == Skip(in, raw, j)
                  pr   == prio + raw.delta
                  b    == Better(dfa, in, warped, next, raw, pr)
              IN  IF Stops(dfa, raw, b) THEN Conclude(b)
                  ELSE /\ i' = next /\ state' = raw /\ prio' = pr /\ best' = b
                       /\ UNCHANGED <<pc, from, result>>
  /\ UNCHANGED <<in, start, tagVars>>

\* --- pass 2 --------------------------------------------------------------
\* One turn of pass2_RecordingLoop.
Record ==
  /\ pc = "pass2"
  /\ LET recorded == AppendRaw(history, state.to)
         j    == IF state.ccwarp THEN WarpTo(dfa, in, state.to, i, best.end) ELSE i
         raw  == Transition(dfa, state.to, Byte(in, i))
         next == Skip(in, raw, i)
     IN  IF i >= best.end \/ (j = i /\ ~CanStep(in, raw, i))
         THEN /\ pc' = "pass3"
              /\ history' = recorded /\ h' = Len(recorded)
              /\ i' = best.end /\ prio' = MatchP(dfa, state.to)
              /\ path' = [p \in start..best.end |-> IF p = best.end THEN MatchP(dfa, state.to) ELSE -1]
              /\ UNCHANGED state
         ELSE /\ IF j > i
                 THEN /\ history' = AppendWarp(recorded, state.to, j - i)
                      /\ i' = j /\ UNCHANGED <<state, prio>>
                 ELSE /\ history' = IF next = i + 1 THEN recorded
                                    ELSE AppendWarp(recorded, raw.to, next - i - 1)
                      /\ i' = next /\ state' = raw /\ prio' = prio + raw.delta
              /\ UNCHANGED <<pc, h, path>>
  /\ UNCHANGED <<in, from, start, best, regs, result>>

\* --- pass 3 --------------------------------------------------------------
\* The recap entries on the byte at p that leave the recorded state.
Entries(d, x, word, p) == d.recap[<<word.state, Byte(x, p)>>]
FirstThat(seq, Test(_)) ==
  LET k == {n \in DOMAIN seq : Test(seq[n])}
  IN  IF k = {} THEN <<>> ELSE <<seq[CHOOSE n \in k : \A m \in k : n <= m]>>

IsLast(p) == p = best.end - 1

\* Mutant of SelectPath: the entry may end the match or not, whatever the byte.
SelectPathAnyEntry ==
  /\ pc = "pass3" /\ h > 1
  /\ LET word  == history[h - 1]
         found == FirstThat(Entries(dfa, in, word, i - 1), LAMBDA e : e.next = prio)
     IN  IF word.warp
         THEN /\ i' = i - word.length /\ h' = h - 2
              /\ path' = [p \in DOMAIN path |-> IF i - word.length <= p /\ p < i THEN prio ELSE path[p]]
              /\ UNCHANGED prio
         ELSE /\ i' = i - 1 /\ h' = h - 1
              /\ prio' = IF found = <<>> THEN prio ELSE found[1].rel
              /\ path' = [path EXCEPT ![i - 1] = prio']
  /\ UNCHANGED <<in, pc, from, start, state, best, history, regs, result>>

\* One turn of sparseTDFA_PathSelection, from the end of the history.
SelectPath ==
  /\ pc = "pass3" /\ h > 1
  /\ LET word  == history[h - 1]
         found == FirstThat(Entries(dfa, in, word, i - 1), LAMBDA e : e.next = prio /\ e.isMatch = IsLast(i - 1))
     IN  IF word.warp
         THEN /\ i' = i - word.length /\ h' = h - 2
              /\ path' = [p \in DOMAIN path |-> IF i - word.length <= p /\ p < i THEN prio ELSE path[p]]
              /\ UNCHANGED prio
         ELSE /\ i' = i - 1 /\ h' = h - 1
              /\ prio' = IF found = <<>> THEN prio ELSE found[1].rel
              /\ path' = [path EXCEPT ![i - 1] = prio']
  /\ UNCHANGED <<in, pc, from, start, state, best, history, regs, result>>

\* --- pass 4 --------------------------------------------------------------
\* Mutants of ApplyTags: the start of a group is overwritten as its end is, and a
\* group ends after the byte it ends before.
ApplyTagsAlways(r, tags, p) == [t \in DOMAIN r |-> IF t \in tags THEN p ELSE r[t]]
ApplyTagsAfter(r, tags, p) ==
  [t \in DOMAIN r |-> IF t \in tags /\ (t % 2 = 1 \/ r[t] = -1) THEN p + (t % 2) ELSE r[t]]

\* applyRawTags: the start of a group is kept once set, its end is overwritten.
ApplyTags(r, tags, p) ==
  [t \in DOMAIN r |-> IF t \in tags /\ (t % 2 = 1 \/ r[t] = -1) THEN p ELSE r[t]]

\* applyEntryTags, on the updates of the start state.
EntryTags(d, id) == UNION {u.pre \cup u.post : u \in {d.startUpdates[k] :
                       k \in {n \in DOMAIN d.startUpdates : d.startUpdates[n].next = id}}}

StartRecap ==
  /\ pc = "pass3" /\ h <= 1
  /\ pc' = "pass4" /\ h' = 1 /\ i' = start
  /\ regs' = ApplyTags([t \in 0..(2 * dfa.groups + 1) |-> -1], EntryTags(dfa, path[start]), start)
  /\ UNCHANGED <<in, from, start, state, prio, best, history, path, result>>

\* One turn of sparseTDFA_Recap.
Recap ==
  /\ pc = "pass4" /\ h < Len(history)
  /\ LET word  == history[h]
         next  == history[h + 1]
         found == FirstThat(Entries(dfa, in, word, i), LAMBDA e :
                    e.rel = path[i] /\ e.next = path[i + 1] /\ e.isMatch = IsLast(i))
     IN  IF next.warp
         THEN i' = i + next.length /\ h' = h + 2 /\ UNCHANGED regs
         ELSE /\ i' = i + 1 /\ h' = h + 1
              /\ regs' = IF found = <<>> THEN regs
                         ELSE ApplyTags(ApplyTags(regs, found[1].pre, i), found[1].post, i + 1)
  /\ UNCHANGED <<in, pc, from, start, state, prio, best, history, path, result>>

\* The registers of the groups become absolute, 0 and 1 are the whole match.
EndRecap ==
  /\ pc = "pass4" /\ h >= Len(history)
  /\ Return([k \in 1..(2 * dfa.groups + 2) |->
               IF k = 1 THEN start + in.absPos
               ELSE IF k = 2 THEN best.end + in.absPos
               ELSE IF regs[k - 1] >= 0 THEN regs[k - 1] + in.absPos ELSE -1])
  /\ UNCHANGED <<in, loopVars, tagVars>>

\* The caller takes the result; the Regexp is ready for another call.
Take ==
  /\ pc = "done"
  /\ pc' = "idle" /\ result' = NoMatch
  /\ i' = 0 /\ from' = 0 /\ start' = -1 /\ state' = InvalidState /\ prio' = 0 /\ best' = None
  /\ history' = <<>> /\ h' = 0 /\ path' = <<>> /\ regs' = <<>>
  /\ in' = NoInput

ScanNext ==
  \/ Call \/ Discover \/ Boundary \/ Record
  \/ SelectPath \/ StartRecap \/ Recap \/ EndRecap \/ Take

\* A search of a finished table; while no call runs, another pattern is compiled.
Search  == WellFormed(dfa) /\ ScanNext /\ UNCHANGED dfa
Prepare == pc = "idle" /\ UNCHANGED scanVars

ScanSpec == ScanInit /\ [][Search \/ Prepare]_<<dfa, scanVars>>

\* --- types ---------------------------------------------------------------
InputOK(x) ==
  /\ x.op \in {"find", "submatch"} /\ x.text \in Seq(Bytes) /\ Len(x.text) <= MaxTextLength
  /\ ValidUTF8(x.text) /\ x.absPos \in 0..Len(x.text)

Words(d) == [warp : BOOLEAN, state : States(d), length : 0..HistMaxLength]

\* The types of a search; its positions are in the input, the groups in the match.
TypeOK ==
  /\ InputOK(in)
  /\ pc \in {"idle", "pass0", "pass1", "pass2", "pass3", "pass4", "done"}
  /\ i \in 0..N(in) /\ from \in 0..(N(in) + 1) /\ start \in -1..N(in)
  /\ best.end \in -1..N(in) /\ best.prio \in Nat
  /\ pc \in {"pass1", "pass2"} => state.to \in States(dfa) /\ prio \in Nat
  /\ pc # "idle" => history \in Seq(Words(dfa))
  /\ h \in 0..Len(history)
  /\ pc \in {"pass3", "pass4"} => DOMAIN path = start..best.end
  /\ pc = "pass4" => regs \in [0..(2 * dfa.groups + 1) -> (start..best.end) \cup {-1}]

\* --- what a call promises ------------------------------------------------
\* Pass 0 proposes p when it is asked for a start from p on.
Proposed(d, x, p) == Pass0(d, x, p) = p

\* Pass 1 from s one byte at a time, without skipping a block: the state at
\* every position, NoState where there is none, and the best end so far, which
\* stays what it is once no later end can be better.
FirstConfig(d, x, s) ==
  [state |-> 1, prio |-> 0, best |-> Better(d, x, None, s, MatchState(d), 0), over |-> FALSE]

NextConfig(d, x, c, q) ==
  LET raw == Transition(d, c.state, Byte(x, q - 1))
      pr  == c.prio + raw.delta
      b   == IF c.over THEN c.best ELSE Better(d, x, c.best, q, raw, pr)
  IN  IF c.state = NoState \/ ~CanStep(x, raw, q - 1)
      THEN [c EXCEPT !.state = NoState]
      ELSE [state |-> raw.to, prio |-> pr, best |-> b, over |-> c.over \/ Stops(d, raw, b)]

Bytewise(d, x, s) ==
  LET run[q \in s..N(x)] == IF q = s THEN FirstConfig(d, x, s) ELSE NextConfig(d, x, run[q - 1], q)
  IN  run

EndOf(d, x, s) == Bytewise(d, x, s)[N(x)].best.end

\* The condition of an accepting state that skips blocks is not verified inside a
\* block, but never holds there; then the state stops no search either.
BlocksDecided(d) ==
  \A s \in States(d) :
    \/ Guard(d, s) = {}
    \/ /\ ~IsBestMatch(d, s)
       /\ \A b1, b2 \in WarpBytes(d, s) : ~Verify(<<b1, b2>>, 1, Guard(d, s))

\* No word of the text hides a byte of the class pass 0 looks for from IndexClass.
WordsDecided(d, x) == ByWords(d) => HidesNone(x.text, Sought(d))

\* Blocks, the loop of pass 0 and the tag passes change no answer: a call
\* returns a start pass 0 can propose, with the end that reading one byte after
\* the other leads to, and if no byte is hidden from IndexClass it is the least
\* start with an end, and there is none when it returns nothing
\* (fastMatchExecLoop, fastDiscoveryLoop, pass1_BoundaryDiscovery).
AnswersBytewise ==
  pc = "done" /\ BlocksDecided(dfa) =>
    LET found    == {p \in 0..N(in) : Proposed(dfa, in, p) /\ EndOf(dfa, in, p) >= 0}
        Least(s) == WordsDecided(dfa, in) => \A p \in found : s <= p
    IN  IF result = NoMatch THEN WordsDecided(dfa, in) => found = {}
        ELSE \E s \in found : Least(s) /\ <<result[1], result[2]>> = Span(in, s, EndOf(dfa, in, s))

\* Four walks over one match agree: pass 2 takes the way pass 1 took and ends in
\* a state that accepts, the walk of pass 3 back over what it recorded ends at
\* the start of the match, and that of pass 4 at its end.
WalksMeet ==
  /\ pc = "pass3" /\ i = best.end => IsAccepting(dfa, history[Len(history)].state)
  /\ pc = "pass3" /\ h <= 1 => i = start
  /\ pc = "pass4" /\ h = Len(history) => i = best.end
=============================================================================
