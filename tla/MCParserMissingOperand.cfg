SPECIFICATION Spec

CONSTANTS
  Streams <- MCStatements

INVARIANTS
  MissingOperandsAreReported
