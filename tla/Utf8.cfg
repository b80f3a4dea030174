SPECIFICATION Spec
CONSTANTS
  Digits = 4
  OneByte = 4
  TwoBytes = 12
  MaxRune = 37
  NL = 1
  Surrogates = {24, 25}
  RuneError = 35
  MaxRanges = 2
INVARIANTS TrieExact OneWay
CHECK_DEADLOCK FALSE
