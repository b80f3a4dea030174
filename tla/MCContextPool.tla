---------------------------- MODULE MCContextPool -----------------------------
(***************************************************************************)
(* Two goroutines on two contexts.  The goroutines and the contexts are    *)
(* interchangeable: no property names one.                                *)
(***************************************************************************)
EXTENDS ContextPool, TLC

CONSTANTS g1, g2, c1, c2

Symmetry == Permutations({g1, g2}) \cup Permutations({c1, c2})
=============================================================================
