SPECIFICATION Spec

CONSTANTS
  Buffers <- MCKeywordLines
  Keywords <- MCKeywords
  IntMax = 7

INVARIANTS
  WordsHaveNoWhitespace
