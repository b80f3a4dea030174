-------------------------------- MODULE Expand --------------------------------
(***************************************************************************)
(* Regexp.Expand: a template is read once from left to right, and what     *)
(* follows a dollar sign names a group, by number or by name.  A byte is a *)
(* token: a digit, a letter, "$", "{", "}" or one that is none of these.     *)
(***************************************************************************)
EXTENDS Integers, SequencesExt

CONSTANTS
  Digits,       \* the digits of templates, token |-> value
  Letters,      \* word tokens that are no digits
  Others,       \* tokens that are no word, dollar or brace
  Groups,       \* the last group of the pattern; 0 is the match
  Named,        \* word |-> the group it names
  IntLimit,     \* an int is below it (2 ^ 63)
  Limit,        \* the standard reads no further digit from here on (1e8)
  MaxLength     \* bound on the template

WordTokens == DOMAIN Digits \cup Letters

ASSUME ExpandAssumption ==
  /\ Digits \in [DOMAIN Digits -> 0..9] /\ Groups \in Nat /\ Named \in [DOMAIN Named -> 1..Groups]
  /\ "$" \notin WordTokens \cup Others /\ "{" \notin WordTokens \cup Others
  /\ "}" \notin WordTokens \cup Others /\ WordTokens \cap Others = {}
  /\ Limit \in Nat \ {0} /\ IntLimit \in Nat /\ 20 * Limit <= IntLimit
  \* The length of a match is an int.
  /\ 2 * (Groups + 1) < IntLimit
  /\ MaxLength \in Nat

VARIABLES
  template,
  unmatched,  \* the groups that took no part in the match
  i,          \* where the loop is
  dst,        \* tokens and groups copied so far
  pc          \* "loop", "done" or "panic"

vars == <<template, unmatched, i, dst, pc>>

Tokens     == WordTokens \cup Others \cup {"$", "{", "}"}
Group(g)   == [group |-> g]
Token(b)   == [token |-> b]

Init ==
  /\ template \in UNION {[1..n -> Tokens] : n \in 0..MaxLength}
  /\ unmatched \in SUBSET (1..Groups)
  /\ i = 1 /\ dst = <<>> /\ pc = "loop"

\* --- a name --------------------------------------------------------------
\* Where the tokens of a kind end that begin at p.
RunEnd(p, kind) == Max({p - 1} \cup {q \in p..Len(template) : \A r \in p..q : template[r] \in kind})

Unclosed == Tokens \ {"}"}

\* Arithmetic on an int.
Int64(n) == ((n + IntLimit) % (2 * IntLimit)) - IntLimit

\* The values of the numbers that the first digits of a name make.
Values(name) ==
  LET v[n \in 0..Len(name)] == IF n = 0 THEN 0 ELSE 10 * v[n - 1] + Digits[name[n]]
  IN  v

Value(name)    == Values(name)[Len(name)]
IsNumber(name) == name # <<>> /\ Range(name) \subseteq DOMAIN Digits

\* SubexpIndex
SubexpIndex(name) == IF name \in DOMAIN Named THEN Named[name] ELSE -1

Num(name) == IF IsNumber(name) THEN Int64(Value(name)) ELSE SubexpIndex(name)

\* Mutant of InMatch: the group itself is compared with the number of positions.
InMatchPast(num) == num >= 0 /\ num < 2 * (Groups + 1)

\* The test before match[num*2] is read; a number may wrap to one that passes it.
InMatch(num) == num >= 0 /\ Int64(2 * num + 1) < 2 * (Groups + 1)

Panics(name) == InMatch(Num(name)) /\ Num(name) > Groups

Insert(name) == dst' = dst \o (IF InMatch(Num(name)) /\ Num(name) \notin unmatched
                               THEN <<Group(Num(name))>> ELSE <<>>)

\* --- the loop ------------------------------------------------------------
At(p)   == p \in DOMAIN template
Dollar  == pc = "loop" /\ At(i) /\ template[i] = "$" /\ At(i + 1)
Kept    == UNCHANGED <<template, unmatched>>
Copy(bs, p) == dst' = dst \o [k \in DOMAIN bs |-> Token(bs[k])] /\ i' = p /\ UNCHANGED pc

Byte ==
  /\ pc = "loop" /\ At(i) /\ ~Dollar
  /\ Copy(<<template[i]>>, i + 1) /\ Kept

DollarDollar ==
  /\ Dollar /\ template[i + 1] = "$"
  /\ Copy(<<"$">>, i + 2) /\ Kept

DollarOther ==
  /\ Dollar /\ template[i + 1] \in Others \cup {"}"}
  /\ Copy(<<"$", template[i + 1]>>, i + 2) /\ Kept

\* A name is replaced, and the loop goes on at p; a read outside the match ends
\* the call at this dollar.
Refer(name, p) ==
  IF Panics(name) THEN pc' = "panic" /\ UNCHANGED <<i, dst>>
  ELSE Insert(name) /\ i' = p /\ UNCHANGED pc

\* Mutant of Resume: the closing brace is forgotten.
ResumeAtBrace(p) == p

\* Where the loop goes on behind a name whose closing brace is at p.
Resume(p) == p + 1

\* A name in braces ends at the first closing one, whatever is in it; without
\* one the dollar and the brace stand for themselves.
Braced ==
  LET last == RunEnd(i + 2, Unclosed)
  IN  /\ Dollar /\ template[i + 1] = "{"
      /\ IF At(last + 1) THEN Refer(SubSeq(template, i + 2, last), Resume(last + 1))
         ELSE Copy(<<"$", "{">>, i + 2)
      /\ Kept

Bare ==
  LET last == RunEnd(i + 1, WordTokens)
  IN  /\ Dollar /\ template[i + 1] \in WordTokens
      /\ Refer(SubSeq(template, i + 1, last), last + 1)
      /\ Kept

End == pc = "loop" /\ ~At(i) /\ pc' = "done" /\ UNCHANGED <<template, unmatched, i, dst>>

Next == Byte \/ DollarDollar \/ DollarOther \/ Braced \/ Bare \/ End
Spec == Init /\ [][Next]_vars

\* --- the standard's Expand -----------------------------------------------
\* extract, behind a dollar sign: a word, in braces or not, or nothing.
Extract(p) ==
  LET braced == At(p) /\ template[p] = "{"
      first  == IF braced THEN p + 1 ELSE p
      last   == RunEnd(first, WordTokens)
      closed == At(last + 1) /\ template[last + 1] = "}"
  IN  IF last < first \/ (braced /\ ~closed) THEN [ok |-> FALSE]
      ELSE [ok |-> TRUE, name |-> SubSeq(template, first, last),
            rest |-> last + (IF braced THEN 2 ELSE 1)]

\* A number has no leading zero and no digit behind one that made it too large.
StandardNum(name) ==
  IF IsNumber(name) /\ (Digits[name[1]] # 0 \/ Len(name) = 1) /\ Values(name)[Len(name) - 1] < Limit
  THEN Value(name) ELSE SubexpIndex(name)

\* What the standard makes of the template at p, and where it goes on.
Read(p) ==
  LET e == Extract(p + 1)
      g == StandardNum(e.name)
      Plain(b, q) == [copied |-> <<Token(b)>>, rest |-> q]
  IN  IF template[p] # "$" THEN Plain(template[p], p + 1)
      ELSE IF At(p + 1) /\ template[p + 1] = "$" THEN Plain("$", p + 2)
      ELSE IF ~e.ok THEN Plain("$", p + 1)
      ELSE [copied |-> IF g \in (0..Groups) \ unmatched THEN <<Group(g)>> ELSE <<>>, rest |-> e.rest]

\* What it makes of the template from p on.
Standard[p \in 1..(Len(template) + 1)] ==
  IF At(p) THEN Read(p).copied \o Standard[Read(p).rest] ELSE <<>>

\* --- properties ----------------------------------------------------------
\* The name behind the dollar sign at p, in braces or not.
NameAt(p) ==
  IF At(p + 1) /\ template[p + 1] = "{" THEN SubSeq(template, p + 2, RunEnd(p + 2, Unclosed))
  ELSE SubSeq(template, p + 1, RunEnd(p + 1, WordTokens))

\* What follows a dollar sign and is read differently here: braces around what is
\* no word, a leading zero, a number beyond the standard's limit.
Differs(p) ==
  LET braced == At(p + 1) /\ template[p + 1] = "{"
      name   == NameAt(p)
  IN  /\ template[p] = "$"
      /\ braced => At(RunEnd(p + 2, Unclosed) + 1)
      /\ \/ braced /\ (name = <<>> \/ ~(Range(name) \subseteq WordTokens))
         \/ IsNumber(name) /\ Len(name) > 1 /\ (Digits[name[1]] = 0 \/ Values(name)[Len(name) - 1] >= Limit)

\* Apart from those, a template expands to what the standard makes of it: escaped
\* dollars, dollars that name nothing, unclosed braces, groups without a match.
AsStandard == (pc = "done" /\ \A p \in DOMAIN template : ~Differs(p)) => dst = Standard[1]

\* A number that the standard does not read, as its digits but the last reach the
\* limit already, and whose index in the match is beyond an int.
Beyond(name) ==
  /\ IsNumber(name) /\ Values(name)[Len(name) - 1] >= Limit
  /\ 2 * Value(name) + 1 >= IntLimit

\* A read outside the match is always that of such a number, at the dollar where
\* the call ends: num*2+1 must wrap to pass the test.  No smaller number and no
\* name ever panics, however few groups there are.
PanicsBeyondLimit == pc = "panic" => template[i] = "$" /\ Beyond(NameAt(i))
=============================================================================
