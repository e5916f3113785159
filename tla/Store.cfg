SPECIFICATION StoreSpec
CONSTANTS
  NoKey = NoKey
  InviteTTL = 1
  SessionTTL = 2
  Faults = TRUE
  Rooms = {r1, r2}
  Guests = {g1, g2, g3}
  Keys = {k1}
  Texts = {a}
  MaxRuns = 4
  MaxInvites = 2
  MaxNow = 3
  MaxParticipants = 2
  MaxHistory = 3
  MaxRetained = 2
  MaxPartial = 1
SYMMETRY Symmetry
CONSTRAINT TurnsOrGuests
INVARIANTS
  StoreTypeOK
  OneOpenRun
  OpenRunShows
  RunningRoomHasRun
  AnswersFollowPrompts
  LiveSessionFromCurrentInvite
  LiveParticipantsCapped
PROPERTIES
  FinishedRunIsFinal
  ClosedIsFinal
  KeepsLedger
