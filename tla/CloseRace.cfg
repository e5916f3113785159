SPECIFICATION Spec
CONSTANTS
  NoKey = NoKey
  NoGen = NoGen
  Rooms = {r1}
  Guests = {}
  Keys = {k1}
  Texts = {a}
  MaxRuns = 2
  MaxInvites = 1
  MaxNow = 0
  MaxParticipants = 2
  MaxHistory = 2
  MaxRetained = 2
  MaxPartial = 1
  InviteTTL = 1
  SessionTTL = 2
  Faults = FALSE
  Reqs = {q1, q2}
  Gens = {g1, g2}
  Disconnects = FALSE
  Restarts = FALSE
SYMMETRY Symmetry
INVARIANT
  ClosedRoomHasNoOpenRun
