SPECIFICATION FairSpec
CONSTANTS
  NoKey = NoKey
  NoGen = NoGen
  Rooms = {r1}
  Guests = {}
  Keys = {}
  Texts = {a}
  MaxRuns = 1
  MaxInvites = 1
  MaxNow = 0
  MaxParticipants = 2
  MaxHistory = 2
  MaxRetained = 2
  MaxPartial = 1
  InviteTTL = 1
  SessionTTL = 2
  Faults = FALSE
  Reqs = {q1, q2}
  Gens = {g1, g2}
  Disconnects = TRUE
  Restarts = TRUE
PROPERTIES
  DrivenRunFinishes
  HandlersReturn
  SlotIsFreed
