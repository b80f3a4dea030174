----------------------------- MODULE ContextPool ------------------------------
(***************************************************************************)
(* The pool of match contexts (context.go, findSubmatchIndexAt): a call    *)
(* takes a context, searches, prepares the context for the text, records,  *)
(* selects, recaps, copies the registers and puts the context back, while  *)
(* other goroutines do the same on the same Regexp.  A context keeps its   *)
(* buffers from call to call.                                              *)
(*                                                                         *)
(* What is in a cell is abstracted to who wrote it: a call, or Nobody for  *)
(* memory that was just allocated.                                         *)
(***************************************************************************)
EXTENDS Integers, Sequences, FiniteSets

CONSTANTS
  Goroutines, Contexts,
  MaxLength,   \* bound on len(b)
  BufSize,     \* 1024: the cells of the buffers inside a context
  MaxCalls,    \* bound on the calls of a goroutine
  Nobody, NoContext

ASSUME PoolAssumption ==
  /\ MaxLength \in Nat /\ BufSize \in Nat /\ MaxCalls \in Nat
  /\ NoContext \notin Contexts

VARIABLES
  pool,    \* the free contexts
  made,    \* the contexts that were allocated
  calls,   \* goroutine |-> its calls so far
  pc,      \* goroutine |-> its next step
  mc,      \* goroutine |-> the context it holds
  span,    \* goroutine |-> [n, start, end] of its search
  buf,     \* context |-> pathHistoryBuf
  path,    \* context |-> the array of pathHistory when it is not the buffer
  inner,   \* context |-> is pathHistory a slice of the buffer?
  size,    \* context |-> len(pathHistory)
  history, \* context |-> history
  base,    \* context |-> absBase
  regs,    \* context |-> regs
  read     \* goroutine |-> who wrote what its call has read

vars == <<pool, made, calls, pc, mc, span, buf, path, inner, size, history, base, regs, read>>
goVars == <<calls, mc, span>>
poolVars == <<pool, made>>

Call(g) == <<g, calls[g]>>
Cells(k) == 0..(k - 1)
Fresh(k) == [p \in Cells(k) |-> Nobody]

\* The array that pathHistory is a slice of: its cells from size[c] on are in
\* the capacity, and an index beyond size[c] is a panic.
PathOf(c) == IF inner[c] THEN buf[c] ELSE path[c]
NoSpan    == [n |-> 0, start |-> 0, end |-> 0]

Init ==
  /\ pool = {} /\ made = {}
  /\ calls = [g \in Goroutines |-> 0]
  /\ pc = [g \in Goroutines |-> "idle"]
  /\ mc = [g \in Goroutines |-> NoContext]
  /\ span = [g \in Goroutines |-> NoSpan]
  /\ buf = [c \in Contexts |-> Fresh(BufSize)]
  /\ path = [c \in Contexts |-> <<>>]
  /\ inner = [c \in Contexts |-> FALSE]
  /\ size = [c \in Contexts |-> 0]
  /\ history = [c \in Contexts |-> {}]
  /\ base = [c \in Contexts |-> Nobody]
  /\ regs = [c \in Contexts |-> Nobody]
  /\ read = [g \in Goroutines |-> {}]

\* Mutant of Get: the context stays in the pool.
GetShared(g) ==
  /\ pc[g] = "idle" /\ calls[g] < MaxCalls
  /\ \E c \in pool \cup (Contexts \ made) :
       mc' = [mc EXCEPT ![g] = c] /\ made' = made \cup {c}
  /\ calls' = [calls EXCEPT ![g] = @ + 1]
  /\ read' = [read EXCEPT ![g] = {}]
  /\ pc' = [pc EXCEPT ![g] = "search"]
  /\ UNCHANGED <<pool, span, buf, path, inner, size, history, base, regs>>

\* matchContextPool.Get: a free context, or a new one.
Get(g) ==
  /\ pc[g] = "idle" /\ calls[g] < MaxCalls
  /\ \E c \in pool \cup (Contexts \ made) :
       /\ mc' = [mc EXCEPT ![g] = c]
       /\ pool' = pool \ {c} /\ made' = made \cup {c}
  /\ calls' = [calls EXCEPT ![g] = @ + 1]
  /\ read' = [read EXCEPT ![g] = {}]
  /\ pc' = [pc EXCEPT ![g] = "search"]
  /\ UNCHANGED <<span, buf, path, inner, size, history, base, regs>>

\* submatch: no match, and the deferred Put, or a match in a text of n bytes.
Search(g) ==
  /\ pc[g] = "search"
  /\ \/ pc' = [pc EXCEPT ![g] = "put"] /\ UNCHANGED span
     \/ \E n \in 0..MaxLength : \E s \in 0..n, e \in 0..n :
          /\ s <= e
          /\ span' = [span EXCEPT ![g] = [n |-> n, start |-> s, end |-> e]]
          /\ pc' = [pc EXCEPT ![g] = "prepare"]
  /\ UNCHANGED <<poolVars, calls, mc, buf, path, inner, size, history, base, regs, read>>

\* Mutant of Required: a cell for every byte, none for the end.
RequiredBytes(k) == k

\* A position more than a match can end at.
Required(k) == k + 2

\* prepare: pathHistory becomes a slice of the buffer, or of the array it has
\* when its capacity is large enough, or of a new one, and has `required` cells;
\* the registers are reset.
Prepare(g) ==
  /\ pc[g] = "prepare"
  /\ LET c        == mc[g]
         required == Required(span[g].n)
         capacity == Cardinality(DOMAIN PathOf(c))
     IN  /\ inner' = [inner EXCEPT ![c] = required <= BufSize]
         /\ size' = [size EXCEPT ![c] = required]
         /\ path' = IF required <= BufSize THEN [path EXCEPT ![c] = <<>>]
                    ELSE IF capacity < required THEN [path EXCEPT ![c] = Fresh(required)] ELSE path
         /\ history' = [history EXCEPT ![c] = {}]
         /\ base' = [base EXCEPT ![c] = Call(g)]
         /\ regs' = [regs EXCEPT ![c] = Call(g)]
  /\ pc' = [pc EXCEPT ![g] = "record"]
  /\ UNCHANGED <<poolVars, goVars, buf, read>>

Marked(f, cells, w) == [p \in DOMAIN f |-> IF p \in cells THEN w ELSE f[p]]

Write(c, cells, w) ==
  IF inner[c] THEN buf' = [buf EXCEPT ![c] = Marked(@, cells, w)] /\ UNCHANGED path
  ELSE path' = [path EXCEPT ![c] = Marked(@, cells, w)] /\ UNCHANGED buf

\* Mutant of Record: the cells of the match are not reset.
RecordOver(g) ==
  /\ pc[g] = "record"
  /\ history' = [history EXCEPT ![mc[g]] = {Call(g)}]
  /\ pc' = [pc EXCEPT ![g] = "select"]
  /\ UNCHANGED <<poolVars, goVars, buf, path, inner, size, base, regs, read>>

\* resetForRecording and pass 2: pathHistory is replaced if the match ends
\* beyond it, the cells of the match are reset, and every word of the history is
\* written.
Record(g) ==
  LET c      == mc[g]
      cells  == span[g].start..span[g].end
      needed == span[g].end + 1
  IN  /\ pc[g] = "record"
      /\ IF needed > size[c]
         THEN /\ path' = [path EXCEPT ![c] = Marked(Fresh(needed), cells, Call(g))]
              /\ inner' = [inner EXCEPT ![c] = FALSE] /\ size' = [size EXCEPT ![c] = needed]
              /\ UNCHANGED buf
         ELSE Write(c, cells, Call(g)) /\ UNCHANGED <<inner, size>>
      /\ history' = [history EXCEPT ![c] = {Call(g)}]
      /\ pc' = [pc EXCEPT ![g] = "select"]
      /\ UNCHANGED <<poolVars, goVars, base, regs, read>>

\* Pass 3 reads the history and writes cells of the match: a block that was cut
\* short by its length field leaves some as they were.
Select(g) ==
  /\ pc[g] = "select"
  /\ read' = [read EXCEPT ![g] = @ \cup history[mc[g]]]
  /\ \E first \in span[g].start..span[g].end : Write(mc[g], first..span[g].end, Call(g))
  /\ pc' = [pc EXCEPT ![g] = "recap"]
  /\ UNCHANGED <<poolVars, goVars, inner, size, history, base, regs>>

\* Pass 4 reads the history and the cells of the match, and makes the registers
\* absolute.
Recap(g) ==
  /\ pc[g] = "recap"
  /\ LET c == mc[g]
     IN  read' = [read EXCEPT ![g] =
           @ \cup history[c] \cup {base[c]} \cup {PathOf(c)[p] : p \in span[g].start..span[g].end}]
  /\ regs' = [regs EXCEPT ![mc[g]] = Call(g)]
  /\ pc' = [pc EXCEPT ![g] = "copy"]
  /\ UNCHANGED <<poolVars, goVars, buf, path, inner, size, history, base>>

\* copy(res, mc.regs): the result is the caller's, the registers are the pool's.
Copy(g) ==
  /\ pc[g] = "copy"
  /\ read' = [read EXCEPT ![g] = @ \cup {regs[mc[g]]}]
  /\ pc' = [pc EXCEPT ![g] = "put"]
  /\ UNCHANGED <<poolVars, goVars, buf, path, inner, size, history, base, regs>>

\* Mutant of Put: the context is let go before it is put back.
PutNothing(g) ==
  /\ pc[g] = "put"
  /\ mc' = [mc EXCEPT ![g] = NoContext] /\ span' = [span EXCEPT ![g] = NoSpan]
  /\ pool' = pool \cup {mc'[g]}
  /\ pc' = [pc EXCEPT ![g] = "idle"]
  /\ UNCHANGED <<made, calls, buf, path, inner, size, history, base, regs, read>>

Put(g) ==
  /\ pc[g] = "put"
  /\ pool' = pool \cup {mc[g]}
  /\ mc' = [mc EXCEPT ![g] = NoContext] /\ span' = [span EXCEPT ![g] = NoSpan]
  /\ pc' = [pc EXCEPT ![g] = "idle"]
  /\ UNCHANGED <<made, calls, buf, path, inner, size, history, base, regs, read>>

\* The collector may drop a free context; its place is new again.
Drop ==
  \E c \in pool :
    /\ pool' = pool \ {c} /\ made' = made \ {c}
    /\ buf' = [buf EXCEPT ![c] = Fresh(BufSize)] /\ path' = [path EXCEPT ![c] = <<>>]
    /\ inner' = [inner EXCEPT ![c] = FALSE] /\ size' = [size EXCEPT ![c] = 0] /\ history' = [history EXCEPT ![c] = {}]
    /\ base' = [base EXCEPT ![c] = Nobody] /\ regs' = [regs EXCEPT ![c] = Nobody]
    /\ UNCHANGED <<goVars, pc, read>>

Step(g) == \/ Get(g) \/ Search(g) \/ Prepare(g) \/ Record(g)
           \/ Select(g) \/ Recap(g) \/ Copy(g) \/ Put(g)

Next == Drop \/ \E g \in Goroutines : Step(g)

Spec == Init /\ [][Next]_vars

\* --- properties ----------------------------------------------------------
TypeOK ==
  /\ pool \subseteq made /\ made \subseteq Contexts
  /\ \A g \in Goroutines : mc[g] \in Contexts \cup {NoContext} /\ calls[g] \in 0..MaxCalls
  /\ \A g \in Goroutines : pc[g] \in
       {"idle", "search", "prepare", "record", "select", "recap", "copy", "put"}

\* Every context that was made is held by one call or is free, never both and
\* never neither: no call shares one and none is lost, with a match or without
\* (Get, the deferred Put).
Exclusive ==
  /\ made = pool \cup ({mc[g] : g \in Goroutines} \ {NoContext})
  /\ \A g \in Goroutines : mc[g] \notin pool
  /\ \A g, k \in Goroutines : g # k /\ mc[g] # NoContext => mc[g] # mc[k]

\* The passes of a call, and the copy of its registers, read only what the same
\* call wrote: not what an earlier call left in the buffers of the context, not
\* what a concurrent call writes, and no memory that was only allocated.
ReadsOwnWrites == \A g \in Goroutines : read[g] \subseteq {Call(g)}

\* What prepare leaves is enough for the whole call, whichever array it chose:
\* recording never replaces it, and every cell of the match that passes 2 to 4
\* use lies below len(pathHistory), not just in the capacity that an earlier call
\* has left.
CellsExist ==
  \A g \in Goroutines : pc[g] \in {"record", "select", "recap"} =>
    /\ span[g].end < size[mc[g]]
    /\ Cells(size[mc[g]]) \subseteq DOMAIN PathOf(mc[g])
=============================================================================
