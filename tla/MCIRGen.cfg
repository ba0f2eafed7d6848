SPECIFICATION FairSpec

CONSTANTS
  Texts <- MCTexts
  Values <- MCValues
  Expressions <- MCExpressions
  Programs <- MCPrograms

INVARIANTS
  TypeOK
  NamesHaveAllocations
  OneGlobalEach
  OperandsAreDefined
  CodeMeansProgram
  GenerationFailuresAreExplained
  TypedStoresFit

PROPERTIES
  Termination
