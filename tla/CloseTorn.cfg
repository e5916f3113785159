SPECIFICATION StoreSpec
CONSTANTS
  NoKey = NoKey
  InviteTTL = 1
  SessionTTL = 2
  Faults = TRUE
  Rooms = {r1}
  Guests = {g1}
  Keys = {}
  Texts = {a}
  MaxRuns = 0
  MaxInvites = 1
  MaxNow = 0
  MaxParticipants = 2
  MaxHistory = 1
  MaxRetained = 1
  MaxPartial = 0
INVARIANT
  ClosedRoomHasNoLiveSession
