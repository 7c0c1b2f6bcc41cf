\* Int literals around the largest int.
SPECIFICATION Spec
CONSTANTS
  Letters <- MCLetters
  Texts <- LargeInts
  MaxIdentifierLen = 4
  MaxStrLiteralLen = 2
  MaxCommentLen = 3
  MaxInt = 127
  MaxFraction = 15
INVARIANTS IntNeverWraps
