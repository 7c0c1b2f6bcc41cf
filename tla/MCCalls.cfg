\* 222 programs, each run to its end.
SPECIFICATION Spec
CONSTANTS
  MaxInt = 9
  StringOrder <- MCStringOrder
  IntStrings <- MCIntStrings
  FloatStrings <- MCFloatStrings
  CaseTable <- MCCaseTable
  Inputs = {"a"}
  Programs <- MCProgs
  Expressions <- MCExpressions
  Statements <- MCStatements
  Names <- CallNames
  Types <- MCTypes
  Values <- MCValues
INVARIANTS ReturnsAreValues HoldersInFlight AgreesWithReference
PROPERTIES NoNameTaken ConstantsStay EnvImplemented
