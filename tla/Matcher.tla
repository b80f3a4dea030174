-------------------------------- MODULE Matcher ------------------------------
(***************************************************************************)
(* A compiled pattern at work: Compile builds the table, and then calls of *)
(* FindIndex and FindSubmatchIndex run over it one after the other.        *)
(***************************************************************************)
EXTENDS DFABuilder, Scan

vars == <<buildVars, scanVars>>

EngineInit == Init /\ ScanInit

Build == BuildNext /\ UNCHANGED scanVars
Calls == phase = "built" /\ ScanNext /\ UNCHANGED buildVars

\* Compile returned its error: there is no Regexp to call.
Refused == phase = "failed" /\ UNCHANGED vars

Next == Build \/ Calls \/ Refused

Spec == EngineInit /\ [][Next]_vars

\* Compile and the passes of a call are loops that nothing suspends, so both
\* are weakly fair; whether a call is made is up to the caller.  Weak fairness
\* is spelled out: Build is enabled in two phases, a step of a call while pc is
\* neither "idle" nor "done".
Building == phase \in {"start", "build"}
Calling  == pc \notin {"idle", "done"}

FairSpec ==
  /\ Spec
  /\ []<>(~Building) \/ []<><<Build>>_vars
  /\ []<>(~Calling)  \/ []<><<Calls>>_vars

\* --- the table -----------------------------------------------------------
\* A table that no call works on.
Ready == phase = "built" /\ pc = "idle"

\* The kernels for bytes beyond ASCII are chosen by the ASCII bytes that loop (the
\* CCWarp detection); they fit a table if the other bytes they skip loop as well.
KernelsFit ==
  phase = "built" => \A s \in States(dfa) : WarpBytes(dfa, s) \subseteq Ascii \/ SkipsPureLoops(dfa, s)

\* The table has all that the passes take for granted of it (FillTransition and
\* the CCWarp detection of NewDFAWithMemoryLimit).
TableWellFormed == Ready => WellFormed(dfa)
=============================================================================
