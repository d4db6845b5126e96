\* `..` with a sum to its right: docs/language.md:220 lets the sum bind tighter.
SPECIFICATION Spec
CONSTANTS
  Letters <- MCLetters
  Digits <- MCDigits
  ParseText <- Parse
  Pieces <- MCPieces
  Entries <- MixedPrograms
  Written <- MixedWritten
  Texts <- MixedTexts
  Slips <- MixedSlips
  BufMax = 100
  NoiseMax = 1
INVARIANTS
  RunsWhatIsMeant
CHECK_DEADLOCK FALSE
