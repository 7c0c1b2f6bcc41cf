\* The flag that says a loop is around.
SPECIFICATION Spec
CONSTANTS
  MaxInt = 9
  StringOrder <- MCStringOrder
  IntStrings <- MCIntStrings
  FloatStrings <- MCFloatStrings
  CaseTable <- MCCaseTable
  Inputs = {"a"}
  Programs <- InnerLoop
  Names <- MCNames
  Types = {}
  Values = {}
INVARIANTS InsideLoopIsAccurate
