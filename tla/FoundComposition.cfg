\* A composition of two functions with bodies.
SPECIFICATION Spec
CONSTANTS
  MaxInt = 9
  StringOrder <- MCStringOrder
  IntStrings <- MCIntStrings
  FloatStrings <- MCFloatStrings
  CaseTable <- MCCaseTable
  Inputs = {"a"}
  Programs <- Composition
  Names <- MCNames
  Types = {}
  Values = {}
INVARIANTS CompositionCallsBoth
