SPECIFICATION Spec

CONSTANTS
  Streams <- MCGroups

INVARIANTS
  GroupingsHaveAnExpression
