SPECIFICATION Spec

CONSTANTS
  Streams <- MCUnfinished

INVARIANTS
  EveryPeekHasAToken
