SPECIFICATION FairSpec

CONSTANTS
  Buffers <- MCBuffers
  Keywords <- MCKeywords
  IntMax = 7

INVARIANTS
  TypeOK
  NoEmptyDeref
  StreamOK
  NothingLost
  LinesAreKept
  MaximalMunch
  StringsAreClosed
  BlocksFollowIndentation
  DepthIsBounded

PROPERTIES
  ContractSpec
  Termination
