SPECIFICATION FairSpec
CONSTANTS
  Gives <- MCGives
  Feeds <- MCFeeds
  Tokens <- MCTokens
  Sources <- MCSources
INVARIANTS TypeOK GivesTheTree RefusesNoProgram NothingGivenNothingTaken RecursionIsNested
PROPERTY Terminates
