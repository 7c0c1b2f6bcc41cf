\* Texts of up to five characters: every token at its limits.
SPECIFICATION Spec
CONSTANTS
  Letters <- MCLetters
  Texts <- MCTexts
  MaxIdentifierLen = 4
  MaxStrLiteralLen = 2
  MaxCommentLen = 3
  MaxInt = 17
  MaxFraction = 15
INVARIANTS TypeOK LimitsHold AgreesWithinLimits PositionsAreExact
