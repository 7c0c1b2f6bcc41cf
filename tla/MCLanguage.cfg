\* 1125 fillings of a loop, 2033 programs of expressions and 450 of jumps, each run to its end.
SPECIFICATION FairSpec
CONSTANTS
  MaxInt = 9
  StringOrder <- MCStringOrder
  IntStrings <- MCIntStrings
  FloatStrings <- MCFloatStrings
  CaseTable <- MCCaseTable
  Inputs = {"a"}
  Programs <- MCProgs
  Names <- MCNames
  Types = {}
  Values = {}
INVARIANTS TypeOK ReturnsAreValues FramesMatchCalls NothingLeftUnlessJumping JumpsHaveALoop AgreesUnlessJumping
PROPERTIES Terminates ReturnsEndTheirCall BreaksEndTheirLoop InsideLoopUnlessNested
