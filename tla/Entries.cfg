\* Every program in every style, typed at the prompt and read from a file, one
\* line forgotten, one blank line or comment more, or one slip of the pen.
SPECIFICATION Spec
CONSTANTS
  Letters <- MCLetters
  Digits <- MCDigits
  ParseText <- Parse
  Pieces <- MCPieces
  Entries <- MCPrograms
  Written <- MCWritten
  Texts <- MCTexts
  Slips <- MCSlips
  BufMax = 100
  NoiseMax = 1
INVARIANTS
  TypeOK
  RunsWhatIsMeant
  NothingIgnored
  CarryFits
CHECK_DEADLOCK FALSE
