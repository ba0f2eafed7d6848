SPECIFICATION FairSpec

CONSTANTS
  Texts <- MCTexts
  Values <- MCValues
  Expressions <- MCExpressions
  Programs <- MCPrograms

INVARIANTS
  TypeOK
  VerdictIsTyping
  FailuresAreExplained
  MissingVariablesAreReported
  ErrorsDoNotCascade

PROPERTIES
  Termination
