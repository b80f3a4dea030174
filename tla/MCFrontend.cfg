SPECIFICATION FairSpec
CONSTANTS
  Ascii = {0, 1, 2, 3}
  NL = 0
  Other = 1
  Word = {2, 3}
  Cont = {4}
  LeadLen <- LeadTrailing
  Patterns <- Sound
  Texts <- OpenTexts
  MaxTextLength = 4
INVARIANTS LanguageKept FirstChoiceKept RefusalStable LoopsRefused LiteralExact PrefixSound
PROPERTIES Compiles
