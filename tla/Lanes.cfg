\* Words of three lanes of three bits (four ASCII bytes, four beyond), and every
\* text of up to four bytes: a chain of borrows, and a rest behind a word.
SPECIFICATION Spec
CONSTANTS
  Top = 4
  Width = 3
  MaxTextLength = 4
INVARIANTS WarpExact IndexFinds MissesOnlyEdges
