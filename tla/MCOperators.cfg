\* An int of -10..9, so that sums, products and the bounds are within reach.
SPECIFICATION Spec
CONSTANTS
  MaxInt = 9
  StringOrder <- MCStringOrder
  IntStrings <- MCIntStrings
  FloatStrings <- MCFloatStrings
  CaseTable <- MCCaseTable
  Inputs = {}
  Operands <- MCOperands
INVARIANTS OrderIsTotal DivisionTruncates ArithmeticIsExact  RoundIsNearest
