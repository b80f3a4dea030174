# A verification model of go-regexp-re

go-regexp-re is a regular-expression engine with the API of Go's `regexp`. A pattern is compiled
into a byte-level DFA by subset construction, and a search walks that table in up to five passes.
This directory holds TLA+ modules of the engine, TLC configurations that check them on small
instances, and TLAPS proofs. Everything is translated from the Go source; positions in the source
are listed per definition in `PROJECT.json` (`map`).

## 1. Inventory

| component | source | state it keeps | operations | modelled in |
|---|---|---|---|---|
| Input, empty-width conditions | `internal/ir/context.go` | none | `Verify*`, `GetTrailingByteCount` | `Text` |
| UTF-8 tries | `internal/ir/utf8.go` | one trie per instruction | `AddRuneRange`, `AddInvalidUTF8` | `Utf8`; for the engine `Regex`, `Program` (as byte sequences) |
| DFA construction | `internal/ir/dfa_builder.go`, `dfa.go`, `storage.go`, `recap.go` | state list, transition table, recap table, closure cache, worklist | `NewDFAWithMemoryLimit`, closures, `addDfaState`, CCWarp detection, prefilters | `Compiler`, `Instructions`, `Program`, `DFABuilder`, `Table` |
| Discovery (pass 0) | `exec_dfa.go` | none | first-byte warp, search DFA; anchor jump, literal search, snapping | `Scan`, `Index`; `Discovery` |
| Passes 1–4, dispatch | `exec_dfa.go`, `exec_tdfa.go`, `exec_dispatch.go` | position, raw state, priority, best end, history, path, registers | boundary discovery, recording, path selection, recap | `Scan`, `Matcher`, `Engine` |
| Match history | `context.go` | 32-bit words | `appendRaw`, `appendWarp` | `History` |
| Context pool | `context.go`, `exec_dispatch.go` | pooled `matchContext`s with their buffers | `Get`, `prepare`, the passes, `Put` | `ContextPool` |
| FindAll, Split, ReplaceAll | `compat_find.go`, `compat_replace.go` | `pos`, count, output | `all`, `allSubmatch`, `Split`, `replaceAll` | `FindAll` (abstract), `Iteration` |
| Multi-point anchors | `internal/ir/anchor.go` | constraint list | covering anchors, scoring, constraints, `Validate`, `Warp` kernels | `Anchors`, `Discovery`, `Index`, `Lanes` |
| Literal matcher | `internal/ir/literal.go` | one literal | analysis, direct search | `Literal`, `Frontend` |
| Compatibility checks | `internal/ir/validate.go` | none | `CheckCompatibility`, `checkEpsilonLoop` | `Compatibility`, `Frontend` |
| AST optimizer | `syntax/optimize.go` | none | flattening, joining, factoring | `Optimize`, `Frontend` |
| Compile and options | `regexp.go` | the `Regexp` | `CompileContextWithOptions`, `calculateLiteralPrefix` | `Frontend`, `Anchors` (`Plan`), `Matcher` |
| Expand, SubexpIndex | `compat_misc.go` | position in the template, output | template expansion | `Expand` |
| Match, names, marshalling, QuoteMeta | `compat_match.go`, `compat_misc.go` | none | wrappers | not modelled |
| Explain, DOT, capture stack | `explain.go`, `dot.go`, `stack.go`, `cmd/` | none | formatting; the stack is used by no pass | not modelled |

**How they interact.** `CompileContextWithOptions` parses and optimises the pattern, picks a literal
matcher or builds a DFA; the `Regexp` is immutable afterwards. Each call of a find function enters
`findIndexAt` or `findSubmatchIndexAt` with the rest of the text, its absolute offset, and the whole
text for the conditions. `submatch` uses a `matchContext` from a `sync.Pool`, so the only mutable
state that goroutines share is that pool. FindAll, Split and ReplaceAll call these in a loop.

**What is hard, and what makes it correct.**

- *Construction.* Priorities and tags are left out of the identity of a state (every build is
  naked), closures are cached under that identity, and paths come out of a Go map and an unstable
  sort. The table must still accept exactly what the pattern matches, have no state that is not an order of a set
  of the subset construction, refuse a pattern only when there are too many of these, and construction must end.
- *Skipping.* A state that loops on itself is skipped over in blocks; a prefilter proposes starts.
  A skip must equal the steps it replaces, a prefilter must lose no match.
- *Five passes over one text.* Pass 2 must retrace pass 1, and passes 3 and 4 must read the run-length
  history in step with it, backwards and forwards; the path selected backwards must be one that
  exists, or its tags are lost. Discovery must retry after a false candidate, neither skipping nor
  repeating one for ever.
- *Rewriting.* Optimize regroups alternatives by common heads and tails: the language, the groups and
  the order of choice must survive, and the checks that follow see the rewritten tree.
- *Anchors.* Pass 0 jumps to where a literal or a class must stand, and back from there to where the
  match may start. No place may be refused or jumped over that belongs to a match, and the leftmost
  start must come first.
- *Words of eight bytes.* A subtraction over eight lanes borrows between them, and pass 0 goes on where a word let it.
- *Standard semantics.* The result must be the standard package's leftmost-first match and groups.
- *Pooled memory under concurrency.* A context is never shared, and no call reads a cell that it did
  not write itself: the buffers are resliced, never cleared.
- *Loops of calls.* Matches come in order, do not overlap, none is skipped, an empty match does not
  hold the loop, limits hold, `Split` slices in order, `ReplaceAll` loses no text.

`PROJECT.json` lists each hazard at its line with the properties that cover it, or why none does yet.

## 2. Modules

```
Text ─┬─ Regex ─────────┬─ Compiler ──────────────────────────────┐
      ├─ Instructions ──┘                                         │
      │       └── Program (with Table) ── DFABuilder ─┐           │
      ├─ Table ── Scan (with History) ────────────────┴─ Matcher ─┴─ Engine ── MCEngine
      └─ Regex ── Syntax ─┬─ Optimize ──────┐
                          ├─ Literal ───────┼─ Frontend ── MCFrontend
                          └─ Compatibility ─┘   (with Compiler)
                                  └─ Anchors (with AnchorInfo) ─┬─ MCDiscovery
Index ── Scan, Discovery, Lanes
AnchorInfo (with Text) ── Discovery ─┬──────────────────────────┘
                                     └─ DiscoveryProofs (with InductionFacts)
FindAll (abstract) ◁─ Iteration ── IterationProofs
ContextPool ── MCContextPool, ContextPoolProofs
Scan, InductionFacts ── ScanProofs ─┬─ BuilderProofs
                           Matcher ─┘
Lanes, InductionFacts ── LanesProofs
Expand ── MCExpand;  Expand, InductionFacts ── ExpandProofs
Utf8
```

**Text** — bytes as small numbers, split into ASCII, continuation and lead bytes; `Verify` and its
parts with their exact branches: a class of conditions holds when *any* member of that class in
the request does, and the end-of-text test accepts a position before a trailing newline.

**Table** — `dfa`, the finished table; a raw transition is a record of the fields the code packs
into 32 bits. `MatchState` is `re.matchState`, which never carries `CCWarpFlag`. The operators on a table
take it as an argument, as the passes do. `WellFormed` is what a search takes for granted of a table. Its
part `WarpsSkipPureLoops` is about whole runes: from a state that skips `é`, the lead byte leads to a state
one continuation byte before it (`Inside`, `Before`) that does not accept, and nothing is missed on the way (`Quiet`).
A kernel of one byte range skips ASCII only, `.*` skips runes.

**Regex** — syntax trees, and `MatchesAt`, the matches a backtracking leftmost-first search would
try, in order. This is the reference the engine is compared with; it and `Compiler`
stand for the standard library and are marked external in the map. Conditions inside `MatchesAt`
are checked with the code's own `Verify`: the model does not hold `$` before a trailing newline
against the engine.

**Instructions** — `regexp/syntax`'s instruction list, external: its operations, what a program is
(`ProgramOK`), which instructions are reached without a byte.

**Compiler** — `regexp/syntax`'s compiler, external, with the fragments and patches that decide which branch
is first; `ProgramOf` is the program of a pattern.

**Program** — NFA paths with a trie node, and
`EpsilonClosureWithAnchorWall`, one turn of its stack after another: `Opened` pushes the paths, `Turn` pops an
entry and either follows it (`Follow`) or keeps it in the result (`Reach`, `Kept`: best priority per source
and key, updates in the order they are reached), `Closed` says what is left of the result: its order, the guard of the
best match, priorities lowered by the least one. `Orders` are the orders of paths that tie, which the code leaves to map
order.

**DFABuilder** — one of `Programs` becomes a table. `OpenClosure`, `CloseTurn` and `KeepClosure` are
`getCachedClosure` on a miss: the closure that the start state or the next entry needs is computed a turn at a time and cached
under its identity. `StartState` adds the first state. `NoTransition` and `FillTransition` are the body of the worklist's
inner loop for one state and byte: the cached closure, the new state, the transition's anchors, warp flag, priority
delta, and recap entries. `TableFull` is the panic of a full table, which `Compile` turns into an error.
`Finish` detects CCWarp loops and kernels and chooses the first-byte set, the search DFA and the strategy; the kernel of a state without
pure loops all of whose bytes loop (`dfa_builder.go:402-413`) is left out, as a kernel is only asked for at a flagged loop, and such a state has none. `Identity` takes the 64-bit FNV hash as injective.

**History** — `appendRaw`, `appendWarp`; the length of a warp is reduced modulo the field's size.

**Scan** — one action per turn of a loop: `Discover` (pass 0 and the start of pass 1), `Boundary`
(pass 1), `Record` (pass 2), `SelectPath` (pass 3), `StartRecap`/`Recap`/`EndRecap` (pass 4). The
fast and the general pass 1 differ in `Better`, as in the code: the fast one keeps the last
accepting position whatever its priority. The table is given and the input of a call (`in`: its kind, the
text, the absolute offset) is chosen by `Call`: any valid UTF-8 text and any position outside a rune, as
the loops of `Iteration` do after the first match. What a pass computes without changing anything takes
the table and the input as arguments. `ScanSpec` searches any well formed table, and lets another one take
its place while no call runs. `Bytewise` is pass 1 without blocks, the reference of `AnswersBytewise`.
Pass 0 looks for the class `Sought` and can propose what `ir.IndexClass` can find (`Places`): where the class is a range (`ByWords`)
that is less than all its bytes (`Index`).

**Matcher** — `DFABuilder` and then calls of `Scan` one after another, and what makes the two fit: `TableWellFormed`
says that what the builder finishes is what `Scan` requires. It has no recursion over patterns, so that the
composition can be reasoned about for every program.

**Engine** — `Matcher` on the programs of `Patterns`, and what relates the table and the results to the patterns: the
subset construction, `MatchesAt`, and the standard's matches.

**Iteration** — `all`, `allSubmatch` (the same loop), `Split` and `replaceAll` over an oracle: the
function `ends` from match starts to match ends, chosen freely. It is what `Engine` checks of a
find: the leftmost start at or after `pos`, with an end that depends on the start alone. (Not where a word hides a byte: there a search may
return a later start. The order of the deliveries does not depend on it, that none is skipped does.)

**FindAll** — what those loops promise, without position, counter or made-up limit: each delivery is
the leftmost match behind the one before it, where "behind an empty match" may mean at its end (once)
or one rune further. `From` and `Leftmost` are the contract of a search, not a translation of the dispatch behind it. `Iteration!Implements` is this specification under the refinement mapping
`delivered` to itself, `limit` to the caller's (none for `ReplaceAll`), and `over` to the phases that
follow the search.

**Syntax, Optimize, Compatibility, Literal** — pure operators: the n-ary trees of `regexp/syntax` with
their `Meaning` as `Regex` patterns; the optimizer, whose two mirrored halves (prefix, suffix) are one
operator with a side; the two refusals; the literal analysis, the searches of its strategies and the
literal prefix.

**Frontend** — `CompileContextWithOptions` up to the choice of a matcher: the loop of
`factorAlternate` on the root one part of a turn at a time, then the checks, then calls of a literal
matcher from every position.

**AnchorInfo** — the record of an anchor, which `Anchors` fills and `Discovery` reads.

**Anchors** — pure operators again: covering anchors from either end, scores, the constraints around an
anchor, distances to the ends, augmentation with a newline, and `Plan`, the fields of the compiled
pattern that pass 0 reads.

**Discovery** — `pass0_DiscoveryLoop` with an anchor (one action per way a turn can go), `SnapBack`, and
the loop around it, in which pass 1 is what `Engine` shows of it: it fails where no match starts. What Compile leaves for pass 0 (`PlanOf`)
and the matches of the standard (`MatchesIn`) are parameters; `MCDiscovery` gives `Plan` of `Anchors` and `MatchesAt` of `Regex` for them.

**Index** — what `ir.IndexClass` can find: `Findable`, the places of the bytes of a class but for those in words that are passed over,
where each byte is outside the range or borrowed from at its bound (`PassedOver`). Its bytes are ordered as their numbers are. `WordsDecided` (in
`Scan` and in `Discovery`) says that no word of the text hides a byte of the class in question; what the project says about the *leftmost* start
is said of those texts, and that whatever is returned is a match, of all.

**Utf8** — the trie of one instruction: ranges of runes split into ranges of bytes and merged. UTF-8 is
scaled to three lengths and a few continuation values; a lead byte of two-byte runes is overlong and a
lead byte of three-byte runes is used in part, as in the original.

**Lanes** — `Warp` and `IndexClass` with the kernels that read a word at a time, their subtraction as
arithmetic modulo the size of the word. `IndexFinds` is what ties `Index` to it: the loops over words, with that arithmetic, return the first byte
that `Index` leaves to be found.

**Expand** — the loop over a template, with the group number as a wrapping integer, and next to it the
standard's `Expand` as a recursive function on the positions of the template. An index beyond the match ends the call in `panic`,
at the dollar sign that named the group.

**ContextPool** — goroutines, contexts and the cells of `pathHistory`, each cell holding *who wrote
it*: a call, or nobody. `pathHistory` is a slice: an array (`PathOf`: the buffer inside the context, or one that was kept or made) and a
length (`size`), to which `prepare` cuts it whatever the array holds. `Record` has both branches of `resetForRecording`, the one that replaces a
slice too short for the match too; `CellsExist` says that it is never taken and why. `Drop` is the garbage collector emptying a `sync.Pool`.

## 3. Runs

| run | what it asks | expected |
|---|---|---|
| `engine_boundaries` | thirteen patterns, every text up to 3 bytes, every position: table exactness, a state for each order of a set and no other, within the limit, the limit of the search DFA, a well formed table (pure skips among it), leftmost start, the answer of a walk byte by byte, alignment of the passes, termination | pass |
| `engine_captures` | seven patterns whose priorities do not compete: results equal the standard's, groups included, over a connected path | pass |
| `engine_priority` | `[ab]*a[ab]?` through FindSubmatchIndex | violation |
| `frontend` | 157 trees: rewriting keeps language, groups and first choice; refusals; literal matchers; the literal prefix; Compile ends | pass |
| `discovery` | 22 patterns with anchors, texts up to 5 bytes: leftmost start, constraints refuse nothing, snapping goes far enough, searches end | pass |
| `discovery_start` | `[ab]+$` | violation |
| `utf8` | every class of up to two disjoint ranges, in any order: the trie accepts its encodings and nothing else, deterministically | pass |
| `lanes` | every range, every text: where Warp's run ends; that IndexClass finds what `Index` says; what it may pass over | pass |
| `lanes_borrow` | IndexClass returns the first byte of the class | violation |
| `iteration_runes` | FindAll, Split, ReplaceAll over every oracle, texts up to 3 bytes, runes of two bytes, limits −1..2; they implement `FindAll` | pass |
| `context_pool` | two goroutines, two calls each, two contexts | pass |
| `expand` | every template of up to 5 tokens: what the standard makes of it, with the exceptions named | pass |

**Bounds.** The alphabet has `\n`, a byte no pattern names (`Other`), two word bytes, one lead and one
continuation byte: each class that `Verify`, the tries and the skip kernels tell apart has a member,
and two word bytes are enough for a prefix to be ambiguous. Three bytes hold a two-byte rune and a
neighbour, a block skip with a step before or after it, and a position past the first match.
`WordLength` is 2 in `engine_boundaries`, `engine_captures` and `discovery` (8 in the code), so that a word fits into the texts and its second byte can be hidden; `Other` is
just below the bytes that patterns name, none is above the highest.
`MaxStates` is 4 in `engine_boundaries` (the code's is at least 100): one of the patterns exceeds it,
others just meet it, and of `(?:(?:b|\b|\B)a)+b`, whose paths behind `\b` and `\B` tie, it depends on their order; `MaxSearchStates` is 3 there and 15 in the other two (255 in the
code); one pattern exceeds the three and falls back to another prefilter. `HistMaxLength` is 2047 as in the code. In
`ContextPool` the inner buffer has two cells instead of 1024 and texts up to two bytes, so that
`prepare` takes each of its three ways: the inner buffer, a kept array, a new one.
`discovery` takes texts of five bytes: an anchor of two, something on either side, and a second place
for it or a trailing newline; `.*abababab`, whose anchor is long enough to be preferred, is searched in
texts put together from its pieces; `^.ab` is searched in ASCII texts, as
pass 0 takes a dot for one byte. `frontend` has alternations of up to four parts that share heads,
tails, both or neither, nested and with captures, every order of three out of six such parts, and texts
of four bytes, as long as the longest literal with a neighbour. `utf8` has two lengths of cut and, with
two ranges, sequences that share a node from either side; the fourth length of UTF-8 repeats the step
from the second to the third. `lanes` has words of three lanes and bytes of eight values: a borrow can start, go
through a lane and end, and four bytes leave a rest behind a word. `expand` has an integer
below 256 (`IntLimit`), so that three digits wrap.

**Patterns of the two passing engine runs.** `engine_boundaries` has patterns with loops, lazy loops,
conditions, groups and a rune; its properties hold whatever the priorities. `engine_captures` has
patterns on which priorities cannot mislead the engine; on others the engine departs from the
standard (section 4).
No pattern has two adjacent literal characters or an anchor of the text or of a line, so no
multi-point anchor reaches the score of 31 (`MinLiteralScore`; one byte scores 20) that would turn
pass 0 to the literal search, and its jump to the start or the end of the text does not apply: those
patterns are in `discovery`.

**Fairness.** `Compile` and the passes of a call are loops that nothing suspends, so `FairSpec` says
that a build goes on and that a call goes on; whether a call is made is the caller's choice and is not
fair. The two conjuncts are weak fairness with ENABLED spelled out: a build step is enabled in the
phases `start` and `build` (`Building`), a step of a call while `pc` is neither `idle` nor `done`. `Frontend` and
`Discovery` say the same of Compile and of a search. `Iteration`
uses `WF_vars(Next)` for the same reason. `ContextPool` states no fairness and no liveness.

**Deadlock** is checked in every run but three, in which the system stops: in `context_pool` goroutines
after `MaxCalls`, in `utf8` after `MaxRanges`, in `expand` when a template is read. A
pattern whose construction fails has no Regexp: `Refused` lets that state stutter.

## 4. Where the code departs from its documents

**Three violation runs**, each a disagreement between the code and what a document says of it;
`PROJECT.json` quotes both.

1. `engine_priority`: priorities count the second branches a path took instead of comparing the first
   one where two paths differ, states are merged without them, and an end of equal priority
   replaces an earlier one.
2. `discovery_start`: the class under a `+` is taken for an anchor at a fixed distance; pass 0 jumps to
   its last place and does not snap back.
3. `lanes_borrow`: the subtraction over a word borrows between lanes, so `IndexClass` may pass over the
   lowest byte of its range.

The third is not only one of the kernel: pass 0 loses the match that starts at such a byte. `[ab][ab]?` is not found in "`` `a`a`a`a ``", as the
backquote is the byte before `a`, and neither is `(?m)[ab]$`, whose anchor is looked for in the same way. So `LeftmostStart`, `AnswersBytewise`, `FindExact`,
`SubmatchExact`, `FirstStart` and the theorems about them carry `WordsDecided`: *that the start is the leftmost one, and that there is none where nothing is
returned*, is said of texts in which no word of eight bytes hides a byte of the class, which all texts of less than eight bytes are (`WhenWordsDecide`).
The runs, whose words have two bytes, contain texts of both sorts.

**Known divergences without a run.** These were met while the modules were written. They
say why the patterns of the passing runs are what they are; where a module models the code in question,
putting the pattern into its MC module shows the divergence again.

*Engine* (the passing runs leave these patterns out):

- The fast pass 1 sets the best end at every accepting position, so FindIndex of a lazy loop (`a*?`)
  returns the longest end (`exec_dfa.go:424`).
- Tags ride along with a path and are applied again on every later transition (`dfa_builder.go:285`): in
  `(a)[ab][ab]` the end of the group moves to the end of the match. The start of a group keeps its
  first value, so a repeated group reports its first start. Tags of groups from 32 on vanish.
- The first-byte set holds ASCII bytes only, and nothing disables it when a match may start with
  another byte: `[aé]+` (`dfa_builder.go:476`).
- 127 ASCII self-loops are taken for "any byte but newline", bytes from 0x80 on included:
  `[\x00-\x09\x0b-\x7f]*` (`dfa_builder.go:431`). Its table is not well formed;
  `KernelsFit` names the tables without that.
- A block skip tests the condition of an accepting state only where the block ends (`exec_dfa.go:377`), so
  an end inside the block is lost: `[\x00-\x7f]*\b` on "\na\n" ends at 1 instead of 2.
  `AnswersBytewise` names the tables without that as `BlocksDecided`.
- `appendWarp` caps the extension of a warp but not a single one longer than 2047 (`context.go:102`).
- Paths of one instruction that differ in their conditions are sorted by priority, and where these are equal they stay in the order of Go's map
  (`dfa_builder.go:710`). The identity of a state is that of the list, so one set becomes several states, and a pattern near the limit is compiled or refused
  by chance: of `(?:(?:b|\b|\B)a)+b`, whose four sets are the limit of `engine_boundaries`, TLC finds both. `OneStatePerOrder` says no more than that.
- A set of conditions is verified as if any one of its class sufficed: `\b\Ba` matches "a"
  (`context.go:22`), and the conditions kept are those of the best paths only.

*Loops*: `ReplaceAll` copies one byte after an empty match and steps over a whole rune
(`compat_replace.go:54`). An empty match next to the match before it is delivered, and one found ahead
of `pos` twice: `a*` on "ab" gives [0 1] and [1 1], `$` on "a" gives [1 1] twice (`compat_find.go:192`).
`FindAll` (the module) promises exactly that and no more.

*Optimizer*: `(?:)a*` becomes `a` (`optimize.go:36`); `.*a|.*b` on "ab" ends at 2 instead of 1, since
factoring a loop out of its branches makes the loop decide first; branches are regrouped across a third
one between them. `FirstChoiceKept` is checked on trees free of both.

*Literals*: the suffix strategy of `ab$` refuses a trailing newline that the DFA would accept, and `a$b`
is taken for a suffix (`literal.go:164`); `(abc)|ab` has a literal prefix that claims to be complete.

*Anchors*: an anchor behind `^` and a loop is refused unless it stands at the start of the text, since the
length of the loop does not count (`^[ab]*xa` does not match "axa"; `anchor.go:1237`); a dot counts as one
byte (`^.ab` after a rune of two); a place refused at the start is not tried again when it overlaps the
next (`^.aaaa` on "aaaaa"); the first line is tried apart only when the search starts at offset 0 (`(?m)^ab\n` in
FindAll); `SearchWarp` does not snap (`[a-z]*[0-9]$`); `foo.*` before a newline takes a repetition
for one that must meet it (`anchor.go:1369`); the default of `MaxDistToEnd` is 0 (`(?m)foo[0-9]$`,
`abcx?$`); an unbounded loop that is not of a class leaves the distance fixed (`foo(?:bar)*baz`); a
place before the text makes pass 0 give up (`[ab]c.*target`); an optional condition owns its newline as
if it were mandatory (`(?:^|x)target`); a negative common distance is read as none (`xy(?:abc|d)$`);
constraints of runes of several bytes are validated bytewise (`é.abc`, `^[а-я]`).

*UTF-8*: a surrogate at the end of a range becomes U+FFFD and surrogates inside one keep their raw
form; a sequence cut short after a valid lead byte is matched by no dot.

*Expand*: `${}` and `${a-b}` vanish where the standard reads them as text; `$01` is group 1; a long
number wraps, and one that wraps to a negative index panics (`${4611686018427387904}`); letters outside
ASCII are not part of a name. `AsStandard` names these exceptions and holds for every other template; that the panic is there is a defect of
the code, and `PanicsBeyondLimit` says exactly which numbers cause it, and that nothing else does.

Two facts that are not disagreements but worth knowing: `NoTrailingWarp`, a part of `WellFormed`, says the multi-byte warp is
dead code, since the transition on a lead byte always lands inside a rune — and that is what keeps
passes 3 and 4 aligned, as the warp they would read is recorded in a shape they do not expect; and
`PathConnected` does not hold for every pattern: a block skip that ends at the match end leaves the
backward walk with a priority no entry has. A pattern with groups has no pure loop after a group was
entered (its tags are cumulative), which hides it.

## 5. Proofs

### The loops

`IterationProofs` proves about `Iteration`, for texts of every length, runes of every width, every
limit and **every** oracle:

| theorem | property | also checked by a run |
|---|---|---|
| `TypeCorrect` | `TypeOK` | yes |
| `DeliveredInOrder` | `InOrder` | yes |
| `NoMatchIsSkipped` | `NothingSkipped` | yes |
| `PromiseKept` | `Implements` | yes |
| `NoLimitIsNoLimit` | `UnlimitedIsNeverCut` | through `Implements` |
| `LimitIsKept` | `LimitHolds` | through `Implements` |
| `DeliveryAdvances` | `Advances` | through `Implements` |
| `SplitSlicesInOrder` | `SlicesValid` | no |
| `NothingElseIsLost` | `KeepsOutside` | yes |

The only assumption is `IterationAssumption`: the three bounds are natural numbers. None of the
properties is inductive. The strengthening `IInv` is

- `PhaseInv`: what each phase of the loop has not touched yet, and the value of `n`;
- `OrderInv`: every delivered match ends at or before `pos`, so the next one, found at `pos` or later,
  overlaps none;
- `CountInv`: while the loop runs, `count` is the number of deliveries and is at most `pos`, because
  each turn moves `pos` by at least one; with `pos <= length` this is `count < length + 1`, which is
  why the limit for "no limit" is never met;
- `SplitInv`: `Split` resumes where the match before the next piece ended.

`Init => IInv` is `InitInv`; there is one lemma per action, combined in `Inductive`.
`NoMatchIsSkipped` adds `CoverInv`: every start before `pos` is covered by a delivery
(`CoverStep` says why a turn keeps that), and when the search finds nothing no start is left behind
`pos` (`EndCover`).

`PromiseKept` is the refinement of `FindAll`. It adds `ResumeInv`: while the loop runs, `pos` is one of
the places from which the abstract specification may resume after its last delivery (`ResumeNext`). A
turn that finds a match is then `Deliver` (`FindNextDelivers`, `ReplaceNextDelivers`); a turn that finds
none, or meets the limit, is `Close`, as no match is left behind `pos` (`NothingBehind`, `EndCloses`);
every other step, the pieces of `Split` included, is a stutter (`OtherSteps`).

`NothingElseIsLost`: what `ReplaceAll` copies is every byte outside the matches, once and in order, but for
the runes the loop steps over behind an empty match. `KeepInv` says it of the text before `pos`, and that the output is in
the order of the text and ends at `pos` (`InTextOrder`, `EndsAt`). Two lemmas say what
the two ways of writing do to an output: `CopySlice` (a slice of the text) and `PutOne` (one replacement).
The third, `AheadIsOutside`, is why the invariant survives a turn: no delivered match reaches over `pos`,
unless it is the empty match at `pos`, which is found again (`EmptyInv`).

### The pool

`ContextPoolProofs` proves about `ContextPool`, for any number of goroutines, contexts and calls, texts
of every length and an inner buffer of any size: `TypeCorrect`, `ContextsAreExclusive`,
`CallsAreIsolated` (`ReadsOwnWrites`) and `CellsAreThere` (`CellsExist`). All follow from
`Inductive`, whose invariant `IInv` joins the types and `Exclusive` with `GoInv`, what each goroutine
has done to the context it holds by the step it is at: it holds one unless it is idle (`Holds`); its
match lies in its text (`Bounded`); once `prepare` is over, the cells of the match are below the length of `pathHistory`, and that is
no more than its array has (`Roomy`), so `resetForRecording` never replaces it; and
the base and the registers are its own (`Based`); once recorded, so are the cells and the history
(`Recorded`); and all it has read was its own (`Own`). `ReadsOwnWrites` alone is not
inductive: what keeps a read from meeting a cell of an earlier call is that pass 2 wrote every position
from the start to the end of the match, and that nobody else wrote there since. The second half is
`Exclusive`; lemma `Others` uses it to say that a step of one goroutine, on its own context, leaves
`GoInv` of the others alone. There is one lemma per action.

### The construction

`BuilderProofs` proves about `DFABuilder` and `Matcher`, for **every** set of programs, either identity of states, every
order of the paths that tie, and every limit:

| theorem | says | also checked by a run |
|---|---|---|
| `BuilderInductive` | `BuildInv` is an invariant of the construction | no |
| `OneStatePerIdentity` | no two states have the same identity, and there are at most `MaxStates` | no |
| `TableIsWellFormed` | `TableWellFormed`, if `KernelsFit` | yes |
| `CallsSearchWellFormed` | Compile and the calls after it implement `ScanSpec`, if `KernelsFit` | no |
| `CompiledAnswers` | `AnswersBytewise` of a compiled pattern, if `KernelsFit` | yes |
| `CompiledWalks` | `WalksMeet` and the types of a compiled pattern, if `KernelsFit` and `BlocksFit` | yes |

What has to be shown of a table is said of its states (a state accepts if one of its paths is a match), of
its entries (they lead to states of the table, a warp is no lead byte) and of the start (no prefilter is used on a pattern that may
match nothing, so the start must not accept when one is used). All of that goes back to what a closure
does with the paths it is given, and a closure is computed in a loop and then kept in a cache under an identity that has
forgotten priorities and tags. The invariant therefore speaks of *kinds* of paths:

- `Steady` is a set of paths that following an epsilon instruction does not leave. Three such sets are enough (`KindsSteady`):
  all paths; those inside a rune (`halfway`), which nothing follows; and those no byte was read on (`byteless`), which
  stay within the instructions the start reaches and meet no match in a program whose shortest match needs a byte.
- `ClosingInv`: while a closure runs, its stack and its result keep to every kind that all the paths it was opened for have, and a
  result without updates has no paths (`LoopOK`; one lemma per step: `PushKeeps`, `FollowKeeps`, `ReachKeeps`, `TurnKeeps`, `ClosedOK`).
- `CacheInv`: a cached closure has the kind of **every** path list with its identity. The kind of a path is a matter of its
  instruction and its node, which the identity keeps (`SameKind`): that is why a cache that mixes path lists with different priorities does no harm here.
- `StatesInv`: the paths of a state are paths of the program; no two states have the same identity (`StatesApart`); they are no more than the limit
  (`StatesUnderLimit`); and the start rejects when the pattern needs a byte (`StartNeedsByte`).
- `CursorInv` and `EntriesInv`: exactly the entries before the worklist's position are filled, each with a state that is there, with
  that state's acceptance, and without a warp on a lead byte, since all paths behind one are inside a rune (`NewEntryOK`).

`Finish` then has all entries (`FinishedTable`), and what it flags and skips are loops without tags (`FinishedWellFormed`).
`BuilderInductive` alone says nothing of the calls; `MatcherInductive` adds that a call runs only on a finished table, which the
construction does not touch any more (`BuiltIsFinal`). Calls over that table are `Search` steps of `ScanSpec`, and the
construction's own steps are `Prepare` or stutter: `CallsSearchWellFormed`, by which every theorem about the passes holds of compiled patterns.

The hypothesis `KernelsFit` says that a kernel which also skips bytes from 0x80 on is on a state that loops on the runes they make.
The code chooses such a kernel by counting ASCII loops, and there are patterns on which that is wrong (section 4), so it cannot be
dropped. A kernel for ASCII alone always fits. It holds of all patterns of `engine_boundaries`,
`.*` with its kernel for all but newlines among them: `TableWellFormed` is checked there without the hypothesis.

The assumptions are `TextAssumption` (the split of the bytes) and `BuilderAssumption`: every program is one (`ProgramOK`: an edge
leads to an instruction, the runes are whole, and a pattern of non-zero minimal length reaches no match without a byte), and the limit is positive. TLC
evaluates them on the programs that `Compiler` makes of the patterns.

`OneStatePerIdentity` and `OneStatePerOrder`, which TLC checks, meet in the middle: the identity is an *ordered* list, so no list has two states; which
lists a set comes out in is a matter of the closures' order.

### The passes

`ScanProofs` proves about `ScanSpec`: calls one after another, over **every** well formed
table and every valid text, between which another table may take the place of the first. Nothing is
assumed of how the table came about; `CallsSearchWellFormed` above connects them with the construction. What `IndexClass` can find
is what `Index` says it can, with a word of any number of bytes.

| theorem | says | also checked by a run |
|---|---|---|
| `ScanInductive` | `LoopInv` is an invariant | no |
| `AnswerIsBytewise` | `AnswersBytewise` | yes |
| `WhenWordsDecide` | `WordsDecided` holds of a text shorter than a word, and of one where no byte outside the range stands right before one of its bound | no |
| `WalkInductive` | `WalkInv` is an invariant | no |
| `WalkTypes` | `TypeOK` of `Scan` | as a part of `Engine!TypeOK` |
| `WalksAgree` | `WalksMeet` | yes |

*The answer.* `AnswersBytewise` speaks of the end of a call only. `LoopInv` says what each pass knows on
the way: no start before `from` had an end, if no word hides a byte (`Chosen`); passes 1 and 2 stand in the state that
`Bytewise`, the same walk without blocks, has at that position (`InStep`); in pass 1 its priority, its best
end and the fact that it goes on are the same too, when blocks are decided (`Scanning`); and the end that
was found is that of the walk (`Matched`). The lemmas about `Bytewise` carry it: `RunExists` (the walk is a function on the
positions, by recursion), `OneByte` and `DeadStaysDead` (its steps), `BlockBest` (a block that goes on ends
in what its bytes one by one lead to, `SkippedTo`: inside a block the walk is in the state of the block or
`Midway` through a rune of it, where it cannot accept, and the rune is whole in a valid text, `LeadAhead`), `Pass0Least` (what pass 0 proposes is the least start
it could, if no word hides a byte; `FindableFacts`, `PlacesFacts` and `CandidatesFacts` say how what it can propose depends on where it looks from:
all of it lies in the class, a byte of the class where it starts is a part of it, and so is every one when no word hides any). A flagged loop is only entered by a transition that did not stop, so no byte of it would
stop either (`Harmless`, which `Scanning` carries). `BlocksDecided` is a part of the property: where a
condition may hold inside a block, the answer does differ (section 4).

*The walks.* Pass 2 records raw words and warps, passes 3 and 4 count positions back and forth over them.
`WalkInv` says there are positions `at` for the words of the history such that a raw word lies where
the word before it ends and a warp where the raw word before it lies, which it replaces (`LaidOut`), none outside the match (`Within`), and that the pass stands at the
position of the word it is at: at the end of the last while it records (`Recording`), at word `h` while it
walks (`Walking`); when the recording is over, the last word is raw, lies at the end of the match and
its state accepts. Pass 2 is not refused before that end, because a refused step would leave the walk dead
from there on (`DeadStaysDead`), and pass 1 was alive at the end it found. That end is also where pass 2 cuts
a block short, which cannot be inside a rune, since no state there accepts (`SkipWalk`).

The hypothesis of the last three theorems is `BlocksFit`: `MaxTextLength <= HistMaxLength`, which is
2047 in the code. Beyond it `appendWarp` loses the high bits of a length (`context.go:102`), and the
walks part: the hypothesis is the code's own limit, not one of the proof.

### Discovery by an anchor

`DiscoveryProofs` proves about `Discovery`, for **every** set of patterns, texts, plans and matches:

| theorem | says | also checked by a run |
|---|---|---|
| `DiscoveryInductive` | `IInv` is an invariant, if `GazeKeepsMatches` always holds | no |
| `FixedAnchorsFindTheFirst` | `FirstStart` of a pattern whose anchor is `Placed`, if `GazeKeepsMatches` always holds | `FirstStart`, of every pattern |

An anchor is `Placed` if every match has it, at one distance from its start (`Fixed`), and if the search for it is of one of three kinds:
it is tied to the start of the text and to no start of a line (`AtBegin`); it is a literal that is looked for by itself (`AtLiteral`);
or it is the class a match begins with (`AtClass`). Of the 22 patterns of run `discovery`, 12 are of these kinds, some of each.
`FirstStart` has the hypothesis `WordsDecided`, which matters for `AtClass` alone. What is left out is what needs more than the place of an anchor:

- *Tied to the end* (`JumpToEnd`): of the two places before a last newline the later one is tried first, which finds the first match only if no
  match is at the other. Of `[ab]+$`, whose anchor is a byte of a loop, the claim is wrong (section 4).
- *Augmented literals*: what is looked for is not the primary anchor, but it with a newline, or another anchor with one.
- *Anchors at a variable distance*: the start is where `Snap` goes back to, which `SnapReaches` compares with the pattern.
- *`anchorStart`* with a literal or a class: the search does not go beyond the start of the text, and that no match starts later is a matter of the pattern.

`GazeKeepsMatches` says that the constraints refuse no match. It is a matter of how `Anchors` gets them from the tree of the
pattern, and stays with TLC; the theorem is that no step of the search loses a match besides. The invariant is `Ahead(q)`: no match that is left has its
anchor before `q`, if no word hides one. It holds of `from` when pass 0 is entered, of `i` while it searches, of the place that is proposed (`Candidate`), and of the place behind it
when pass 1 has found no match there (`ConfirmKeeps`), since the one start a place stands for is then none. A proposal that is confirmed is the first start, and when there is no place left there is no match (`NothingLeft`).
An anchor at the start of the text has one place, and a search that is past it gives up: `Tied` says that it got there by having tried it.

`DiscoveryAssumption` says that texts are texts and that matches end in them; TLC evaluates it on the instances of `MCDiscovery`.

### The words

`LanesProofs` proves about `Lanes`, for words of any number of lanes, bytes of any even number of
values and texts of every length, `WarpStopsExactly` (`WarpExact`: the answer of `Warp` is the first byte outside the
class) and `OnlyEdgesAreMissed` (`MissesOnlyEdges`: what `IndexClass` passes over is outside the
class, or at an edge of the range behind a byte that borrows). Both follow from `LanesInductive`,
whose invariant `LanesInv` says the same of the bytes behind `i` at each turn (`Passed`, `AtEdge`). A third, `IndexFindsFirst` (`IndexFinds`), is what
the modules of the search rest on: what `Index` says that `IndexClass` can find is what the loop over words does find, with its subtraction.

The kernels test a word with one subtraction, so the arithmetic is the proof. A word is its value in
base `Base` (`Places`, `Values`). `Borrows(u, l, x, k)` says what is left of `x`, the value of `u` less
that of `l`, above lane `k`: the difference of the lanes above, less one if the lanes below borrowed, which they do (`Borrowed`) when one of
them is less and all between are equal.
`BorrowsPass` is that by induction over the lanes; `LanesLess` reads off what each lane of the
difference holds. From there, a word without a flag has every byte in the range (`NoneOutside`), so
`Warp` is exact; a word with all flags has every byte outside or borrowed from at an edge (`AllOutside`). `Flags` says that a lane is flagged *exactly* if it
borrows itself, so the words the loop goes over are those that `Index` names (`SkipsIs`), and the hits behind `i` are the ones it calls lost (`FindInv`):
`LostIn` for those in the words passed over, `NotLost` for all that come after the start of a word that is not.

### Template expansion

`ExpandProofs` proves about `Expand`, for templates of every length, every alphabet, every set of groups and names, and every
choice of the groups that took no part, `ExpandsAsStandard` (`AsStandard`) and `PanicsExplained` (`PanicsBeyondLimit`),
both checked by `expand`. They follow from `ExpandInductive`. `PanicMeans` reads off the test of the code, `num*2+1 < len(match)`, that an index that passes it and is
none of the match is a negative one, so the number is one that wraps (`Beyond`); the invariant keeps that of the place where the call ended (`BeyondFrame`). The loop and the standard's `Expand` do not go in step: the loop copies `$-` at
once where the standard copies the dollar alone, and it resumes behind a brace where the standard has cut the template. What they share is `CopiedInv`:
what has been copied so far, followed by what the standard makes of the rest of the template, is what the standard makes of all of it, as long as
no spelling of the template is read differently. `Standard` is recursive on places that move forward; that there is such a function is induction
over the suffixes of the template (`StandardIs`). Then each action skips as much as one or two steps of `Standard` (`StepKeeps`):
`RunEndAt` says where a run of tokens ends, `ExtractIs` what the standard takes for a name, `NamesAgree` that a name which both read
names the same group. The last is where the arithmetic is: a number that the standard accepts is less than ten times its limit, which
an int holds, and so does its double (`SmallIsExact`); what the code reads beyond that wraps, and `Differs` names it.

`ExpandAssumption` says what the code and the compiler of the pattern ensure: names stand for groups of the pattern, the length of a match
(two positions per group) is an int, dollar and braces are no word tokens, and an int holds twenty times the standard's limit (1e8 and 2^63 in the original).

### Induction

The induction theorems of the library take an operator as a parameter, which the installed provers do not
instantiate. `InductionFacts` states induction, least elements and recursion about *sets* and
*functions* (`Induction`, `IntervalInduction`, `LeastElement`, `Recursion`, `IntervalRecursion`), from
the well-foundedness of `<` on the naturals. `RunExists`, `Places`, `ValuesAre` and `Flattened` are instances: recursive
functions over an interval of numbers. What recurses over data (trees, patterns) is out of their reach.

### Model-checked only

- Liveness (`Terminates`, `Returns`, `Compiles`), which is out of the prover's reach.
- What compares the engine with the pattern (`TableExact`, `LeftmostStart`, `FindExact`, `SubmatchExact`), what compares an anchor with it (`GazeKeepsMatches`,
  `SnapReaches`), and all of `Frontend` and `Utf8`: their references are RECURSIVE operators over trees (`MatchesAt`, the compiler, the tries), with which tlapm loses
  its arithmetic, and induction over data is out of its reach. `CompiledAnswers` and `TableExact` together give the start and the end of a
  match over one pattern; only the second needs the runs.
- `FirstStart` of anchors that are not `Placed`.
- `OneStatePerOrder`, which depends on the order of the paths, and `PathConnected`, which does not hold for every well formed table (section 4).

## 6. Plan

Done: the construction and passes 0–4 with their composition, the history, the loops and the pool, the
compile pipeline from the tree to the choice of a matcher, anchors and the discovery by them, the UTF-8
tries, the words of eight bytes, template expansion, the abstract `FindAll`, and the theorems about the
loops, the pool, the construction, the passes over an arbitrary table and over a compiled one, the words, discovery by an anchor at a known place, and the expansion. Next, in this order:

1. `FirstStart` of augmented literals and of anchors at a variable distance, from `SnapReaches`.
2. `LeftmostStart` from `TableExact` and `AnswersBytewise`, with the reference as a parameter in the same way.
3. `Utf8`: two ranges cut at the same places share no path.
4. `PathConnected`, from what the tables of patterns with groups have and others lack.
5. Guards and anchors of states over *pairs* of conditions on competing paths (`BestAnchors`,
   `Verify`).

## 7. Not modelled, and why

- Packing into 32-bit words, except the one field that overflows; FNV collisions.
- What nothing reads or calls: `strategyFast` and `strategyExtended` lead to the same passes;
  `searchAny`, `searchMask`, `IsLineBounded` and `SimpleBackward` feed `Explain` only;
  `ExtractAnchors`, `extractAnchors`, `dfaStateKey`, `GetAnyRuneTrie` and the capture stack are called
  by nobody; `HasComplexAnchors` is always false and `IncludeNL` is never set.
- Case folding, in the optimizer, the anchors and the literals; in a trie a folded rune is one range
  more. Counted repetitions: `Simplify` expands them before the construction sees them.
- `(?m)` switched on inside a group at the root: the flag of the root node decides about augmentation.
- Kernels that go byte by byte are modelled by the bytes they accept; bounds of a `SingleRange` that are
  not ASCII are left out of `Lanes`.
- Invalid UTF-8 texts in the engine (`Utf8` has them); calls at a position inside a rune.
- Context cancellation and the memory estimate behind `MaxStates`.
- `Match`, names, marshalling and `QuoteMeta`: wrappers without state. `Explain`, DOT, benchmarks, tools
  and test suites: formatting and reporting.
