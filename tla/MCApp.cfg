\* 196 programs as texts, each from its first character to its report.
SPECIFICATION Spec
CONSTANTS
  Letters <- MCLetters
  Texts <- MCTexts
  MaxIdentifierLen = 8
  MaxStrLiteralLen = 4
  MaxCommentLen = 4
  MaxFraction = 15
  MaxInt = 9
  StringOrder <- MCStringOrder
  IntStrings <- MCIntStrings
  FloatStrings <- MCFloatStrings
  CaseTable <- MCCaseTable
  Inputs = {"a"}
  Names <- MCNames
  Types = {}
  Values = {}
INVARIANT RunsAsDocumented
PROPERTY EndsInReport
