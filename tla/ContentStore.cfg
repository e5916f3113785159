SPECIFICATION Spec
CONSTANTS
  Keys = {k1, k2}
  NoKey = NoKey
  Empty = Empty
  NumItems = 2
  NumRows = 2
  BatchSize = 1
  Typed = {"raw"}
  Procs = {p1, p2}
  Guarded = {p2}
  MaxWrites = 1
SYMMETRY Symmetry
INVARIANTS
  TypeOK
  ReadsBack
  SealedItemsHoldNoPlaintext
  OkMeansScrubbed
  StandaloneStoreIsPinned
PROPERTY
  SealsWhereItCanRead
