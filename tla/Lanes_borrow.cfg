SPECIFICATION Spec
CONSTANTS
  Top = 4
  Width = 2
  MaxTextLength = 2
INVARIANT IndexExact
