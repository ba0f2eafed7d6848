SPECIFICATION FairSpec

CONSTANTS
  Texts <- MCTexts
  Values <- MCValues
  Expressions <- MCExpressions
  Programs <- MCPrograms
  FileNames <- MCFileNames
  Contents <- MCContents
  CommandLines <- MCCommandLines

INVARIANTS
  TypeOK
  HandOver
  PrintedOnce

PROPERTIES
  BatchSpec
