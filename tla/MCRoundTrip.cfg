SPECIFICATION FairSpec

CONSTANTS
  Texts <- MCTexts
  Values <- MCValues
  Expressions <- MCExpressions
  Programs <- MCTrees
  Streams <- MCStreams

INVARIANTS
  TypeOK
  LocationsExist
  ConstructorAssertions
  TreesCoverTokens
  OperatorsBind
  ParsesTheGrammar
  PrintsWhatItMeans

PROPERTIES
  Termination
