SPECIFICATION Spec

CONSTANTS
  Texts <- MCTexts
  Values <- MCValues
  Expressions <- MCExpressions
  Programs <- MCOneDefinition

INVARIANTS
  DefinitionsHaveAnEntry
