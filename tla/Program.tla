------------------------------- MODULE Program ------------------------------
(***************************************************************************)
(* The epsilon closure of a program: epsilonClosureWithAnchorWall, a stack *)
(* of paths, each with the priority it started from, the tags it met and   *)
(* the conditions it passed.  An instruction inside a multi-byte rune is a *)
(* path whose node is the part of the rune already read (a node of the     *)
(* UTF-8 trie).  prog is the sequence of the instructions.                 *)
(***************************************************************************)
EXTENDS Instructions, Table, SequencesExt

With(f, k, v) == [x \in DOMAIN f \cup {k} |-> IF x = k THEN v ELSE f[x]]

\* --- paths ---------------------------------------------------------------
Path(id, node, prio, tags) ==
  [id |-> id, node |-> node, prio |-> prio, anchors |-> {}, tags |-> tags]

Consumes(prog, p) == p.node # <<>> \/ ~IsEpsilon(prog[p.id].op)
IsMatch(prog, p)  == p.node = <<>> /\ prog[p.id].op = "match"

\* What a path becomes on byte b: inside a rune, past it, or nowhere (the trie
\* of the instruction, instructionTries).  The path it becomes, or none.
StepOn(prog, p, b) ==
  LET read  == Append(p.node, b)
      runes == IF prog[p.id].op = "rune" THEN prog[p.id].runes ELSE {}
  IN  IF read \in runes THEN <<Path(prog[p.id].out, <<>>, p.prio, p.tags)>>
      ELSE IF \E r \in runes : IsStrictPrefix(read, r) THEN <<Path(p.id, read, p.prio, p.tags)>>
      ELSE <<>>

LeastPrio(paths) == IF paths = <<>> THEN Infinity
                    ELSE Min({paths[k].prio : k \in DOMAIN paths})

\* --- epsilonClosureWithAnchorWall ----------------------------------------
Entry(p, newTags, source, preTags) ==
  [p |-> p, newTags |-> newTags, source |-> source, preTags |-> preTags]
Key(p)         == <<p.id, p.node, p.anchors>>
SourceKey(e)   == <<e.source, Key(e.p)>>

Update(prog, p, source, pre, post) ==
  [rel |-> source, next |-> p.prio, isMatch |-> IsMatch(prog, p), pre |-> pre, post |-> post]

\* No closure is being computed.
NoClosure == [open |-> FALSE]

\* The loop before its first turn.
Opened(prog, paths) ==
  LET start     == [k \in DOMAIN paths |-> Entry(paths[k], {}, paths[k].prio, paths[k].tags)]
      Direct(p) == IF Consumes(prog, p) THEN <<Update(prog, p, p.prio, p.tags, {})>> ELSE <<>>
  IN  [open    |-> TRUE,
       stack   |-> start,
       best    |-> [k \in {SourceKey(start[j]) : j \in DOMAIN start} |-> k[1]],
       updates |-> FlattenSeq([k \in DOMAIN paths |-> Direct(paths[k])]),
       res |-> <<>>, matchPrio |-> Infinity, guard |-> {}]

\* Push an entry unless its key was reached with a better priority from the
\* same source.
Push(c, e) ==
  LET k == SourceKey(e)
  IN  IF k \in DOMAIN c.best /\ e.p.prio > c.best[k] THEN c
      ELSE [c EXCEPT !.best = With(@, k, e.p.prio), !.stack = Append(@, e)]

\* What follows e over its epsilon instruction, pushed in the order of the code:
\* the second branch of an alternative before the first.
Follow(prog, c, e) ==
  LET inst == prog[e.p.id]
      To(id, dprio, anchors, tags) ==
        Entry([e.p EXCEPT !.id = id, !.prio = @ + dprio, !.anchors = @ \cup anchors,
                          !.tags = @ \cup tags],
              e.newTags \cup tags, e.source, e.preTags)
  IN  CASE inst.op = "alt"   -> Push(Push(c, To(inst.arg, 1, {}, {})), To(inst.out, 0, {}, {}))
        [] inst.op = "cap"   -> Push(c, To(inst.out, 0, {}, {inst.tag}))
        [] inst.op = "empty" -> Push(c, To(inst.out, 0, {inst.cond}, {}))
        [] OTHER             -> Push(c, To(inst.out, 0, {}, {}))

\* Of two paths with one key the better is kept, of two alike the tags of both.
Kept(res, p) ==
  LET old == res[Key(p)]
  IN  IF Key(p) \notin DOMAIN res \/ p.prio < old.prio THEN p
      ELSE IF p.prio = old.prio THEN [old EXCEPT !.tags = @ \cup p.tags]
      ELSE old

\* A path that consumes a byte or matches is a member of the closure.
Reach(prog, c, e) ==
  LET p      == [e.p EXCEPT !.tags = e.preTags \cup e.newTags]
      better == IsMatch(prog, p) /\ p.prio < c.matchPrio
      same   == IsMatch(prog, p) /\ p.prio = c.matchPrio
  IN  [c EXCEPT !.updates = Append(@, Update(prog, e.p, e.source, e.preTags, e.newTags)),
                !.res = With(@, Key(p), Kept(@, p)),
                !.matchPrio = IF better THEN p.prio ELSE @,
                !.guard = IF better THEN p.anchors ELSE IF same THEN @ \cup p.anchors ELSE @]

\* One turn of the loop.
Turn(prog, c) ==
  LET e == Last(c.stack)
      d == [c EXCEPT !.stack = Front(@)]
  IN  IF e.p.prio > c.best[SourceKey(e)] THEN d
      ELSE IF Consumes(prog, e.p) THEN Reach(prog, d, e)
      ELSE Follow(prog, d, e)

\* sort.Slice by (ID, Priority) is not stable and its input is a Go map's range:
\* paths that tie come out in any order.
Orders(paths) ==
  {seq \in SetToSeqs(paths) : \A j, k \in DOMAIN seq : j < k =>
     seq[j].id < seq[k].id \/ (seq[j].id = seq[k].id /\ seq[j].prio <= seq[k].prio)}

\* What the loop found, with the least priority taken off.
Found(c)   == {c.res[k] : k \in DOMAIN c.res}
Least(c)   == IF Found(c) = {} THEN 0 ELSE Min({p.prio : p \in Found(c)})
Members(c) == {[p EXCEPT !.prio = @ - Least(c)] : p \in Found(c)}

\* The result, when the loop is over: ordered is one of the orders of its members.
Closed(c, ordered) ==
  [paths   |-> ordered,
   updates |-> [k \in DOMAIN c.updates |-> [c.updates[k] EXCEPT !.next = @ - Least(c)]],
   guard   |-> c.guard]
=============================================================================
