SPECIFICATION Spec

CONSTANTS
  Texts <- MCTexts
  Values <- MCValues
  Expressions <- MCExpressions
  Programs <- OneAssignment

INVARIANTS
  ConstantsAreNotLoaded
