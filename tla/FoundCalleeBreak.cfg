\* A break in a function called from a loop.
SPECIFICATION FairSpec
CONSTANTS
  MaxInt = 9
  StringOrder <- MCStringOrder
  IntStrings <- MCIntStrings
  FloatStrings <- MCFloatStrings
  CaseTable <- MCCaseTable
  Inputs = {"a"}
  Programs <- CalleeBreak
  Names <- MCNames
  Types = {}
  Values = {}
PROPERTIES LoopStatementsHaveALoop
