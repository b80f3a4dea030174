------------------------------ MODULE AnchorInfo -----------------------------
(***************************************************************************)
(* An anchor (AnchorInfo, CCWarpInfo): a literal or a class of bytes at    *)
(* some distance from the start of a match.  Anchors extracts them from a  *)
(* pattern, Discovery looks for them in a text.                            *)
(***************************************************************************)
EXTENDS Text

\* The CCWarpInfo of no class.
NoWarp == [kernel |-> "none", accept |-> Bytes]

\* An AnchorInfo; toEnd and toLineEnd are the least and the greatest distance
\* to `$`, which are 0 where the pattern was not found to have one.
Blank == [literal |-> <<>>, class |-> NoWarp, distance |-> 0, fixed |-> TRUE, mandatory |-> TRUE,
          begin |-> {}, end |-> {}, toEnd |-> <<0, 0>>, toLineEnd |-> <<0, 0>>,
          backward |-> <<>>, forward |-> <<>>, augmented |-> <<>>]

HasClass(a) == a.class # NoWarp
Size(a)     == IF HasClass(a) THEN 1 ELSE Len(a.literal)

NoAnchor == [Blank EXCEPT !.mandatory = FALSE, !.fixed = FALSE]
NoAug    == [pattern |-> <<>>, owner |-> 0]
=============================================================================
