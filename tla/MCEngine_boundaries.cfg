SPECIFICATION FairSpec
CONSTANTS
  Ascii = {0, 1, 2, 3}
  NL = 0
  Other = 1
  Word = {2, 3}
  Cont = {4}
  LeadLen <- LeadTrailing
  Programs <- WidePrograms
  Naked = TRUE
  MaxStates = 4
  MaxSearchStates = 3
  HistMaxLength = 2047
  WordLength = 2
  MaxTextLength = 3
INVARIANTS TypeOK TableExact OneStatePerOrder TableWellFormed LeftmostStart WalksMeet AnswersBytewise
PROPERTIES Returns Compiles
