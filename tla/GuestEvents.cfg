SPECIFICATION FairSpec
CONSTANTS
  Tasks = {t1, t2}
  MaxTurns = 1
  MaxDeltas = 1
  Capacity = 2
  Drops = TRUE
INVARIANTS
  TypeOK
  NothingAfterSessionEnds
  LagIsResynced
PROPERTY
  StreamEndsWithSession
\* A closed room whose guest is gone may stay as it is.
CHECK_DEADLOCK FALSE
