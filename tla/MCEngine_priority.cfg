SPECIFICATION FairSpec
CONSTANTS
  Ascii = {0, 1, 2, 3}
  NL = 0
  Other = 1
  Word = {2, 3}
  Cont = {4}
  LeadLen <- LeadTrailing
  Programs <- OptionalPrograms
  Naked = TRUE
  MaxStates = 100
  MaxSearchStates = 15
  HistMaxLength = 2047
  WordLength = 2
  MaxTextLength = 3
INVARIANTS SubmatchSpan
