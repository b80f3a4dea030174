\* Templates of up to five tokens over a match and one group, named x; an int of
\* nine bits, so that three digits reach past it.
SPECIFICATION Spec
CONSTANTS
  Digits <- DigitsTo2
  Letters = {"x"}
  Others = {"-"}
  Groups = 1
  Named <- NamedX
  IntLimit = 256
  Limit = 10
  MaxLength = 5
INVARIANTS AsStandard PanicsBeyondLimit
CHECK_DEADLOCK FALSE
