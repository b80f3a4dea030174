SPECIFICATION FairSpec
CONSTANTS
  Ascii = {0, 1, 2, 3}
  NL = 0
  Other = 1
  Word = {2, 3}
  Cont = {4}
  LeadLen <- LeadTrailing
  LowByte <- LowBytes
  Patterns <- Trailing
  TextsFor <- Fitting
  PlanOf <- Plan
  MatchesIn <- Meant
  WordLength = 2
  MaxTextLength = 4
INVARIANTS FirstStart
