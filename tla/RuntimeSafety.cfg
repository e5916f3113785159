SPECIFICATION Spec
CONSTANTS
  NoKey = NoKey
  NoGen = NoGen
  Rooms = {r1}
  Guests = {}
  Keys = {k1}
  Texts = {a}
  MaxRuns = 2
  MaxInvites = 1
  MaxNow = 0
  MaxParticipants = 2
  MaxHistory = 1
  MaxRetained = 1
  MaxPartial = 0
  InviteTTL = 1
  SessionTTL = 2
  Faults = TRUE
  Reqs = {q1, q2}
  Gens = {g1, g2}
  Disconnects = TRUE
  Restarts = FALSE
SYMMETRY Symmetry
VIEW TasksView
INVARIANTS
  TypeOK
  OneWriterPerRun
  DriverIsRegistered
  ActiveIsLive
