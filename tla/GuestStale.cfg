SPECIFICATION Spec
CONSTANTS
  Tasks = {t1, t2}
  MaxTurns = 1
  MaxDeltas = 1
  Capacity = 2
  Drops = FALSE
INVARIANT GuestSeesRoom
CHECK_DEADLOCK FALSE
