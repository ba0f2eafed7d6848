SPECIFICATION Spec

CONSTANTS
  Buffers <- MCLines
  Keywords <- MCKeywords
  IntMax = 7

INVARIANTS
  OnlyLogicalLinesIndent
