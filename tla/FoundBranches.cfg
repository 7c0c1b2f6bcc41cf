\* else after an else if that was taken.
SPECIFICATION Spec
CONSTANTS
  MaxInt = 9
  StringOrder <- MCStringOrder
  IntStrings <- MCIntStrings
  FloatStrings <- MCFloatStrings
  CaseTable <- MCCaseTable
  Inputs = {"a"}
  Programs <- Branches
  Names <- MCNames
  Types = {}
  Values = {}
INVARIANTS BranchesAreExclusive
