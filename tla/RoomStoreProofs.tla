--------------------------- MODULE RoomStoreProofs ---------------------------
(***************************************************************************)
(* Theorems about RoomStore, for every number of rooms, guests, runs and   *)
(* messages and every value of the limits: its types, the turns of a room  *)
(* and its transcript; then what a room's status says, that a closed room  *)
(* stays closed, and which guests are authorized; last, that the store     *)
(* implements the ledger of turns.                                         *)
(***************************************************************************)
EXTENDS RoomStore, FiniteSetTheorems, TLAPS

-----------------------------------------------------------------------------
(* Rows *)

\* A run that has a row has all of its columns.
LEMMA RowColumns ==
  ASSUME StoreTypeOK, NEW n \in RunIds, HasRow(n)
  PROVE  run[n] \in RunRow
BY DEF StoreTypeOK, ColumnsOK, HasRow, RunCell, RunRow, RowStatuses, OpenStatuses, TerminalStatuses

\* Writing one status into a row leaves a row.
LEMMA RowWithStatus ==
  ASSUME StoreTypeOK, NEW n \in RunIds, HasRow(n), NEW s \in RowStatuses
  PROVE  /\ [run[n] EXCEPT !.status = s] \in RunRow
         /\ [run[n] EXCEPT !.status = s].status = s
         /\ [run[n] EXCEPT !.status = s].room = run[n].room
         /\ [run[n] EXCEPT !.status = s].text = run[n].text
         /\ [run[n] EXCEPT !.status = s].partial = run[n].partial
BY RowColumns DEF RunRow

\* A joined guest has all the columns of its participant and session rows.
LEMMA GuestColumns ==
  ASSUME StoreTypeOK, NEW g \in Guests, guest[g].state = "joined"
  PROVE  guest[g] \in GuestRow
BY DEF StoreTypeOK, ColumnsOK, GuestCell, GuestRow

\* Trimming keeps the newest messages, in their order, and at most n of them.
LEMMA NewestKeepsTail ==
  ASSUME NEW T, NEW s \in Seq(T), NEW n \in Nat \ {0}
  PROVE  /\ Newest(s, n) \in Seq(T)
         /\ Len(Newest(s, n)) <= Len(s)
         /\ Len(s) > 0 => Len(Newest(s, n)) > 0
         /\ \A i \in 1..Len(Newest(s, n)) :
              Newest(s, n)[i] = s[Len(s) - Len(Newest(s, n)) + i]
<1>1. CASE Len(s) <= n
  BY <1>1 DEF Newest
<1>2. CASE Len(s) > n
  <2>1. Newest(s, n) = SubSeq(s, Len(s) - n + 1, Len(s))
    BY <1>2 DEF Newest
  <2>2. Len(s) - n + 1 \in 1..Len(s) + 1 /\ Len(s) \in Nat
    BY <1>2
  <2>3. SubSeq(s, Len(s) - n + 1, Len(s)) \in Seq(T)
    BY <2>2
  <2>4. Len(Newest(s, n)) = n
    BY <2>1, <2>2
  <2> QED
    BY <1>2, <2>1, <2>2, <2>3, <2>4
<1> QED
  BY <1>1, <1>2

-----------------------------------------------------------------------------
(* Types *)

\* A finish writes messages, whether or not it appends the answer.
LEMMA MessagesTyped ==
  ASSUME StoreTypeOK, NEW n \in RunIds, HasRow(n), NEW terminal
  PROVE  /\ WithAnswer(n, terminal) \in Seq(Message)
         /\ Newest(WithAnswer(n, terminal), MaxHistory) \in Seq(Message)
<1>1. run[n] \in RunRow
  BY RowColumns
<1>2. messages[run[n].room] \in Seq(Message)
  BY <1>1 DEF StoreTypeOK, ColumnsOK, RunRow
<1>3. run[n].partial > 0 =>
        [role |-> "assistant", text |-> run[n].partial, run |-> n] \in Message
  BY <1>1, BoundsAssumption, LimitsAssumption DEF Message, RunRow
<1>4. WithAnswer(n, terminal) \in Seq(Message)
  BY <1>2, <1>3 DEF WithAnswer
<1> QED
  BY <1>4, NewestKeepsTail, LimitsAssumption

\* Revoking, deleting and setting guests offline keep the shape of their rows.
LEMMA GuestCellsKept ==
  ASSUME StoreTypeOK, NEW r \in Rooms
  PROVE  /\ GuestsDeleted(r) \in [Guests -> GuestCell]
         /\ SessionsRevoked(r) \in [Guests -> GuestCell]
         /\ GuestsOffline(SessionsRevoked(r), r) \in [Guests -> GuestCell]
<1>1. \A g \in Joined(r) : guest[g] \in GuestRow
  BY GuestColumns DEF Joined
<1>2. GuestsDeleted(r) \in [Guests -> GuestCell]
  BY DEF GuestsDeleted, NoGuest, GuestCell, StoreTypeOK, ColumnsOK
<1>3. \A g \in Joined(r) : [guest[g] EXCEPT !.revoked = TRUE] \in GuestRow
  BY <1>1 DEF GuestRow
<1>4. SessionsRevoked(r) \in [Guests -> GuestCell]
  BY <1>3 DEF SessionsRevoked, GuestCell, StoreTypeOK, ColumnsOK
<1>5. \A g \in Joined(r) : [SessionsRevoked(r)[g] EXCEPT !.online = FALSE] \in GuestRow
  BY <1>3 DEF SessionsRevoked, GuestRow, Joined
<1>6. GuestsOffline(SessionsRevoked(r), r) \in [Guests -> GuestCell]
  BY <1>4, <1>5 DEF GuestsOffline, GuestCell
<1> QED
  BY <1>2, <1>4, <1>6

\* A step keeps the foreign keys when no room disappears, invites are numbered
\* from their rooms' creation on, and new rows name an existing room.
LEMMA RoomsKept ==
  ASSUME StoreTypeOK,
         \A r \in Rooms : status'[r] = "absent" => status[r] = "absent",
         \A r \in Rooms : status'[r] = "absent" <=> invite'[r].secret = 0,
         \A n \in RunIds : HasRow(n)' =>
           \/ HasRow(n) /\ run'[n].room = run[n].room
           \/ run'[n].room \in Rooms /\ status'[run'[n].room] # "absent",
         \A g \in Guests : guest'[g].state = "joined" =>
           \/ guest[g].state = "joined" /\ guest'[g].room = guest[g].room
           \/ guest'[g].room \in Rooms /\ status'[guest'[g].room] # "absent"
  PROVE  RowsHaveRooms'
<1>1. \A n \in RunIds : HasRow(n) => run[n].room \in Rooms
  BY RowColumns DEF RunRow
<1>2. \A g \in Guests : guest[g].state = "joined" => guest[g].room \in Rooms
  BY GuestColumns DEF GuestRow
<1>3. \A n \in RunIds : HasRow(n)' => (status[run[n].room] # "absent")'
  BY <1>1 DEF StoreTypeOK, RowsHaveRooms
<1>4. \A g \in Guests : guest'[g].state = "joined" => status'[guest'[g].room] # "absent"
  BY <1>2 DEF StoreTypeOK, RowsHaveRooms
<1> QED
  BY <1>3, <1>4 DEF RowsHaveRooms

\* No operation on the guests of a room moves one to another room.
LEMMA GuestRoomsKept ==
  ASSUME StoreTypeOK, NEW r \in Rooms, NEW gs \in {GuestsDeleted(r), SessionsRevoked(r),
           GuestsOffline(SessionsRevoked(r), r)}, NEW g \in Guests, gs[g].state = "joined"
  PROVE  guest[g].state = "joined" /\ gs[g].room = guest[g].room
<1>1. g \in Joined(r) => guest[g] \in GuestRow /\ guest[g].state = "joined"
  BY GuestColumns DEF Joined
<1>2. CASE gs = GuestsDeleted(r)
  BY <1>2 DEF GuestsDeleted, NoGuest
<1>3. CASE gs = SessionsRevoked(r)
  BY <1>1, <1>3 DEF SessionsRevoked, GuestRow
<1>4. CASE gs = GuestsOffline(SessionsRevoked(r), r)
  BY <1>1, <1>4 DEF SessionsRevoked, GuestsOffline, GuestRow
<1> QED
  BY <1>2, <1>3, <1>4

\* A status written to a run never reopens a closed room, never removes one and
\* touches no other.
LEMMA RoomBecomesFacts ==
  ASSUME StoreTypeOK, NEW n \in RunIds, HasRow(n), NEW s \in RoomStatuses
  PROVE  /\ RoomBecomes(run[n].room, s) \in [Rooms -> RoomStatuses \cup {"absent"}]
         /\ \A r \in Rooms : (RoomBecomes(run[n].room, s)[r] = "absent" <=> status[r] = "absent")
         /\ \A r \in Rooms : status[r] = "closed" => RoomBecomes(run[n].room, s)[r] = "closed"
         /\ \A r \in Rooms \ {run[n].room} : RoomBecomes(run[n].room, s)[r] = status[r]
         /\ RoomBecomes(run[n].room, s)[run[n].room] \in {s, "closed"}
<1>1. run[n].room \in Rooms /\ status[run[n].room] # "absent"
  BY RowColumns DEF RunRow, StoreTypeOK, RowsHaveRooms
<1> QED
  BY <1>1 DEF StoreTypeOK, ColumnsOK, RoomBecomes, RoomStatuses

\* Marking a room torn and clearing the mark keep the marks' type.
LEMMA TornKept ==
  ASSUME StoreTypeOK, NEW r \in Rooms, NEW x \in {"run", "access"}
  PROVE  /\ [torn EXCEPT ![r] = @ \cup {x}] \in [Rooms -> SUBSET {"run", "access"}]
         /\ [torn EXCEPT ![r] = @ \ {x}] \in [Rooms -> SUBSET {"run", "access"}]
<1>1. torn[r] \cup {x} \in SUBSET {"run", "access"} /\ torn[r] \ {x} \in SUBSET {"run", "access"}
  BY DEF StoreTypeOK, ColumnsOK
<1> QED
  BY <1>1 DEF StoreTypeOK, ColumnsOK

\* Every operation keeps the columns and the foreign keys.
LEMMA StoreTypeStep ==
  ASSUME StoreTypeOK, [StoreNext]_storeVars
  PROVE  StoreTypeOK'
<1>0. ColumnsOK /\ RowsHaveRooms
  BY DEF StoreTypeOK
<1>1. ASSUME NEW r \in Rooms, CreateRoom(r) PROVE StoreTypeOK'
  <2>1. ColumnsOK'
    BY <1>0, <1>1, BoundsAssumption, LimitsAssumption
    DEF ColumnsOK, CreateRoom, InviteRow, RoomStatuses
  <2>2. RowsHaveRooms'
    BY <1>0, <1>1, RoomsKept DEF ColumnsOK, RowsHaveRooms, CreateRoom, HasRow
  <2> QED
    BY <2>1, <2>2 DEF StoreTypeOK
<1>2. ASSUME NEW r \in Rooms, NEW g \in Guests, ExchangeInvite(r, g) PROVE StoreTypeOK'
  <2>1. invite[r].secret \in 1..MaxInvites /\ status[r] # "absent"
    BY <1>0, <1>2, BoundsAssumption
    DEF ColumnsOK, RowsHaveRooms, ExchangeInvite, InviteUsable, InviteRow
  <2>2. [state |-> "joined", room |-> r, via |-> invite[r].secret,
         expires |-> now + SessionTTL, revoked |-> FALSE, online |-> TRUE] \in GuestCell
    BY <1>0, <2>1, LimitsAssumption DEF ColumnsOK, GuestCell, GuestRow
  <2>3. ColumnsOK'
    BY <1>0, <1>2, <2>2 DEF ColumnsOK, ExchangeInvite
  <2>4. RowsHaveRooms'
    BY <1>0, <1>2, <2>1, RoomsKept DEF ColumnsOK, RowsHaveRooms, ExchangeInvite, HasRow
  <2> QED
    BY <2>3, <2>4 DEF StoreTypeOK
<1>3. ASSUME NEW r \in Rooms, IssueInvite(r) PROVE StoreTypeOK'
  <2>1. ColumnsOK'
    BY <1>0, <1>3, GuestCellsKept, BoundsAssumption, LimitsAssumption
    DEF ColumnsOK, IssueInvite, InviteRow
  <2>2. RowsHaveRooms'
    BY <1>0, <1>3, RoomsKept, GuestRoomsKept
    DEF ColumnsOK, RowsHaveRooms, IssueInvite, InviteRow, HasRow
  <2> QED
    BY <2>1, <2>2 DEF StoreTypeOK
<1>4. ASSUME NEW r \in Rooms, RevokeInvite(r) \/ RevokeInviteTorn(r) PROVE StoreTypeOK'
  <2>1. /\ guest' \in {guest, SessionsRevoked(r), GuestsDeleted(r)}
        /\ invite' = [invite EXCEPT ![r].revoked = TRUE]
        /\ UNCHANGED <<now, writable, status, online, run, messages>>
    BY <1>4 DEF RevokeInvite, RevokeInviteTorn
  <2>2. torn' \in [Rooms -> SUBSET {"run", "access"}]
    BY <1>4, TornKept DEF RevokeInvite, RevokeInviteTorn
  <2>3. guest' \in [Guests -> GuestCell]
    BY <1>0, <2>1, GuestCellsKept DEF ColumnsOK
  <2>4. ColumnsOK'
    BY <1>0, <2>1, <2>2, <2>3 DEF ColumnsOK, InviteRow
  <2>5. \A g \in Guests : guest'[g].state = "joined" =>
          guest[g].state = "joined" /\ guest'[g].room = guest[g].room
    BY <2>1, GuestRoomsKept
  <2>6. RowsHaveRooms'
    BY <1>0, <2>1, <2>5, RoomsKept DEF ColumnsOK, RowsHaveRooms, InviteRow, HasRow
  <2> QED
    BY <2>4, <2>6 DEF StoreTypeOK
<1>5. ASSUME NEW r \in Rooms, CloseRoom(r) PROVE StoreTypeOK'
  <2>1. ColumnsOK'
    BY <1>0, <1>5, GuestCellsKept DEF ColumnsOK, CloseRoom, InviteRow, RoomStatuses
  <2>2. RowsHaveRooms'
    BY <1>0, <1>5, RoomsKept, GuestRoomsKept
    DEF ColumnsOK, RowsHaveRooms, CloseRoom, InviteRow, HasRow
  <2> QED
    BY <2>1, <2>2 DEF StoreTypeOK
<1>6. ASSUME NEW r \in Rooms, CloseRoomTorn(r) PROVE StoreTypeOK'
  <2>1. guest' \in {guest, SessionsRevoked(r)}
        /\ invite' \in {invite, [invite EXCEPT ![r].revoked = TRUE]}
    BY <1>6 DEF CloseRoomTorn
  <2>a. torn' \in [Rooms -> SUBSET {"run", "access"}]
    BY <1>0, <1>6 DEF ColumnsOK, CloseRoomTorn
  <2>b. guest' \in [Guests -> GuestCell] /\ invite' \in [Rooms -> InviteRow]
    <3>1. guest \in [Guests -> GuestCell] /\ invite \in [Rooms -> InviteRow]
      BY <1>0 DEF ColumnsOK
    <3>2. SessionsRevoked(r) \in [Guests -> GuestCell]
      BY GuestCellsKept
    <3>3. [invite EXCEPT ![r].revoked = TRUE] \in [Rooms -> InviteRow]
      BY <3>1 DEF InviteRow
    <3> QED
      BY <2>1, <3>1, <3>2, <3>3, Zenon
  <2>2. ColumnsOK'
    BY <1>0, <1>6, <2>a, <2>b DEF ColumnsOK, CloseRoomTorn, RoomStatuses
  <2>3. RowsHaveRooms'
    BY <1>0, <1>6, <2>1, RoomsKept, GuestRoomsKept
    DEF ColumnsOK, RowsHaveRooms, CloseRoomTorn, InviteRow, HasRow
  <2> QED
    BY <2>2, <2>3 DEF StoreTypeOK
<1>7. ASSUME NEW r \in Rooms, NEW n \in RunIds, NEW k \in Keys \cup {NoKey}, NEW t \in Texts,
             AppendUserTurn(r, n, k, t)
      PROVE  StoreTypeOK'
  <2>1. [role |-> "user", text |-> t, run |-> n] \in Message
    BY DEF Message
  <2>2. Append(messages[r], [role |-> "user", text |-> t, run |-> n]) \in Seq(Message)
    BY <1>0, <2>1 DEF ColumnsOK
  <2>3. [status |-> "running", room |-> r, key |-> k, text |-> t, partial |-> 0] \in RunCell
    BY LimitsAssumption DEF RunCell, RunRow, RowStatuses, OpenStatuses
  <2>4. ColumnsOK'
    BY <1>0, <1>7, <2>2, <2>3 DEF ColumnsOK, AppendUserTurn, RoomStatuses
  <2>5. RowsHaveRooms'
    BY <1>0, <1>7, RoomsKept DEF ColumnsOK, RowsHaveRooms, AppendUserTurn, HasRow
  <2> QED
    BY <2>4, <2>5 DEF StoreTypeOK
<1>8. ASSUME NEW n \in RunIds, AppendDelta(n) PROVE StoreTypeOK'
  <2>1. HasRow(n) /\ run[n] \in RunRow
    BY <1>8, RowColumns DEF AppendDelta, HasRow, RowStatuses, OpenStatuses
  <2>2. [run[n] EXCEPT !.partial = run[n].partial + 1] \in RunCell
    BY <1>8, <2>1, LimitsAssumption DEF AppendDelta, RunCell, RunRow
  <2>3. ColumnsOK'
    BY <1>0, <1>8, <2>2 DEF ColumnsOK, AppendDelta
  <2>4. RowsHaveRooms'
    BY <1>0, <1>8, <2>1, RoomsKept
    DEF ColumnsOK, RowsHaveRooms, AppendDelta, HasRow, RunRow
  <2> QED
    BY <2>3, <2>4 DEF StoreTypeOK
<1>9. ASSUME NEW n \in RunIds, NEW terminal \in {"completed", "failed"},
             FinishRun(n, terminal)
      PROVE  StoreTypeOK'
  <2>1. HasRow(n) /\ terminal \in RowStatuses
    BY <1>9 DEF FinishRun, Open, HasRow, RowStatuses, TerminalStatuses
  <2>2. run[n] \in RunRow /\ run[n].room \in Rooms
    BY <2>1, RowColumns DEF RunRow
  <2>3. [run[n] EXCEPT !.status = terminal] \in RunCell
    BY <2>1, RowWithStatus DEF RunCell
  <2>4. NoRun("trimmed") \in RunCell
    BY DEF NoRun, RunCell
  <2>5. run' \in [RunIds -> RunCell]
    BY <1>0, <1>9, <2>3, <2>4 DEF FinishRun, ColumnsOK
  <2>6. messages' \in [Rooms -> Seq(Message)]
    BY <1>0, <1>9, <2>1, <2>2, MessagesTyped DEF FinishRun, ColumnsOK
  <2>7. status' \in [Rooms -> RoomStatuses \cup {"absent"}]
        /\ \A r \in Rooms : (status'[r] = "absent" <=> status[r] = "absent")
    BY <1>9, <2>1, RoomBecomesFacts DEF FinishRun, RoomStatuses
  <2>8. ColumnsOK'
    BY <1>0, <1>9, <2>2, <2>5, <2>6, <2>7 DEF FinishRun, ColumnsOK
  <2>9. \A m \in RunIds : HasRow(m)' => HasRow(m) /\ run'[m].room = run[m].room
    BY <1>9, <2>1, RowWithStatus
    DEF FinishRun, HasRow, NoRun, RowStatuses, OpenStatuses, TerminalStatuses
  <2>10. RowsHaveRooms'
    BY <1>0, <1>9, <2>7, <2>9, RoomsKept DEF FinishRun, RowsHaveRooms
  <2> QED
    BY <2>8, <2>10 DEF StoreTypeOK
<1>10. ASSUME NEW n \in RunIds, StopRun(n) \/ StopRunTorn(n) PROVE StoreTypeOK'
  <2>1. HasRow(n) /\ "canceled" \in RowStatuses
    BY <1>10 DEF StopRun, StopRunTorn, Open, HasRow, RowStatuses, TerminalStatuses
  <2>2. run[n].room \in Rooms
    BY <2>1, RowColumns DEF RunRow
  <2>3. [run[n] EXCEPT !.status = "canceled"] \in RunCell
        /\ [run[n] EXCEPT !.status = "canceled"].room = run[n].room
    BY <2>1, RowWithStatus DEF RunCell
  <2>4. status' \in [Rooms -> RoomStatuses \cup {"absent"}]
        /\ \A r \in Rooms : (status'[r] = "absent" <=> status[r] = "absent")
    BY <1>0, <1>10, <2>1, RoomBecomesFacts DEF StopRun, StopRunTorn, RoomStatuses, ColumnsOK
  <2>a. torn' \in [Rooms -> SUBSET {"run", "access"}]
    BY <1>10, <2>2, TornKept DEF StopRun, StopRunTorn
  <2>b. run' = [run EXCEPT ![n] = [run[n] EXCEPT !.status = "canceled"]]
    BY <1>10 DEF StopRun, StopRunTorn
  <2>5. ColumnsOK'
    BY <1>0, <1>10, <2>3, <2>4, <2>a, <2>b DEF StopRun, StopRunTorn, ColumnsOK
  <2>6. \A m \in RunIds : HasRow(m)' => HasRow(m) /\ run'[m].room = run[m].room
    BY <1>0, <1>10, <2>1, <2>3 DEF StopRun, StopRunTorn, HasRow, ColumnsOK
  <2>7. RowsHaveRooms'
    BY <1>0, <1>10, <2>4, <2>6, RoomsKept DEF StopRun, StopRunTorn, RowsHaveRooms
  <2> QED
    BY <2>5, <2>7 DEF StoreTypeOK
<1>11. ASSUME NEW w \in BOOLEAN, NEW S \in SUBSET RunIds,
              RecoverRunning(w) \/ RecoverRunningTorn(w, S)
       PROVE  StoreTypeOK'
  <2>1. PICK F \in SUBSET {n \in RunIds : Open(n)} : run' = RunsFailed(F)
    BY <1>11 DEF RecoverRunning, RecoverRunningTorn
  <2>2. \A n \in F : HasRow(n) /\ "failed" \in RowStatuses
    BY <2>1 DEF Open, HasRow, RowStatuses, TerminalStatuses
  <2>3. \A n \in F : /\ [run[n] EXCEPT !.status = "failed"] \in RunCell
                     /\ [run[n] EXCEPT !.status = "failed"].room = run[n].room
    BY <2>1, <2>2, RowWithStatus DEF RunCell
  <2>4. run' \in [RunIds -> RunCell]
    BY <1>0, <2>1, <2>3 DEF RunsFailed, ColumnsOK
  <2>a. torn' \in [Rooms -> SUBSET {"run", "access"}]
    <3>1. \A r \in Rooms : torn[r] \in SUBSET {"run", "access"}
      BY <1>0 DEF ColumnsOK
    <3>2. \A r \in Rooms : /\ torn[r] \ {"run"} \in SUBSET {"run", "access"}
                           /\ torn[r] \cup {"run"} \in SUBSET {"run", "access"}
      BY <3>1
    <3>3. CASE RecoverRunning(w)
      BY <3>2, <3>3 DEF RecoverRunning
    <3>4. CASE RecoverRunningTorn(w, S)
      BY <3>1, <3>2, <3>4 DEF RecoverRunningTorn
    <3> QED
      BY <1>11, <3>3, <3>4
  <2>b. status' \in [Rooms -> RoomStatuses \cup {"absent"}]
    BY <1>0, <1>11 DEF RecoverRunning, RecoverRunningTorn, ColumnsOK, RoomStatuses
  <2>5. ColumnsOK'
    BY <1>0, <1>11, <2>4, <2>a, <2>b DEF RecoverRunning, RecoverRunningTorn, ColumnsOK
  <2>6. \A m \in RunIds : HasRow(m)' => HasRow(m) /\ run'[m].room = run[m].room
    BY <2>1, <2>2, <2>3 DEF RunsFailed, HasRow
  <2>7. RowsHaveRooms'
    BY <1>0, <1>11, <2>6, RoomsKept
    DEF RecoverRunning, RecoverRunningTorn, RowsHaveRooms, ColumnsOK
  <2> QED
    BY <2>5, <2>7 DEF StoreTypeOK
<1>12. CASE Tick
  BY <1>0, <1>12 DEF Tick, StoreTypeOK, ColumnsOK, RowsHaveRooms, HasRow
<1>13. CASE UNCHANGED storeVars
  BY <1>0, <1>13 DEF storeVars, StoreTypeOK, ColumnsOK, RowsHaveRooms, HasRow
<1> QED
  BY <1>1, <1>2, <1>3, <1>4, <1>5, <1>6, <1>7, <1>8, <1>9, <1>10, <1>11, <1>12, <1>13
  DEF StoreNext

\* An empty database has its type.
LEMMA StoreTypeInit == StoreInit => StoreTypeOK
BY BoundsAssumption DEF StoreInit, StoreTypeOK, ColumnsOK, RowsHaveRooms, RoomStatuses,
   InviteRow, NoGuest, NoRun, GuestCell, RunCell, HasRow, RowStatuses, OpenStatuses,
   TerminalStatuses

\* Initially and after every operation each table holds rows of its own shape,
\* in rooms that exist.  An answer never grows past the message limit, because
\* append_delta measures the combined text, and a row never loses a column to a
\* torn operation.
THEOREM StoreTypeInvariant == StoreSpec => []StoreTypeOK
<1> QED
  BY StoreTypeInit, StoreTypeStep, PTL DEF StoreSpec

-----------------------------------------------------------------------------
(* Turns *)

\* The steps that start no turn.
Settles ==
  \/ \E n \in RunIds, terminal \in {"completed", "failed"} : FinishRun(n, terminal)
  \/ \E n \in RunIds : StopRun(n) \/ StopRunTorn(n)
  \/ \E w \in BOOLEAN : RecoverRunning(w)
  \/ \E w \in BOOLEAN, S \in SUBSET RunIds : RecoverRunningTorn(w, S)

\* The steps on rooms, invites, sessions and the clock.
LeavesTurns ==
  \/ \E r \in Rooms : \/ CreateRoom(r) \/ IssueInvite(r)
                      \/ RevokeInvite(r) \/ RevokeInviteTorn(r)
                      \/ CloseRoom(r) \/ CloseRoomTorn(r)
  \/ \E r \in Rooms, g \in Guests : ExchangeInvite(r, g)
  \/ Tick
  \/ UNCHANGED storeVars

Appends == \E r \in Rooms, n \in RunIds, k \in Keys \cup {NoKey}, t \in Texts :
             AppendUserTurn(r, n, k, t)

Streams == \E n \in RunIds : AppendDelta(n)

\* Every step is of one of these kinds.
LEMMA StepKinds ==
  ASSUME [StoreNext]_storeVars
  PROVE  Settles \/ LeavesTurns \/ Appends \/ Streams
BY Zenon DEF StoreNext, Settles, LeavesTurns, Appends, Streams

\* finish_run leaves its own run finished or trimmed, every other run as it is
\* or trimmed.
LEMMA FinishRunFacts ==
  ASSUME StoreTypeOK, NEW n \in RunIds, NEW terminal \in {"completed", "failed"},
         FinishRun(n, terminal)
  PROVE  /\ HasRow(n) /\ run[n].room \in Rooms
         /\ run'[n] = NoRun("trimmed") \/ run'[n] = [run[n] EXCEPT !.status = terminal]
         /\ \A m \in RunIds \ {n} : run'[m] = run[m] \/ run'[m] = NoRun("trimmed")
<1>1. HasRow(n)
  BY DEF FinishRun, Open, HasRow, RowStatuses
<1> QED
  BY <1>1, RowColumns DEF FinishRun, RunRow

\* Settling runs opens none and changes none that stays open.
LEMMA SettledStaysSettled ==
  ASSUME StoreTypeOK, Settles
  PROVE  \A m \in RunIds : Open(m)' => Open(m) /\ run'[m] = run[m]
<1>1. ASSUME NEW n \in RunIds, NEW terminal \in {"completed", "failed"}, FinishRun(n, terminal)
      PROVE  \A m \in RunIds : Open(m)' => Open(m) /\ run'[m] = run[m]
  <2>1. [run[n] EXCEPT !.status = terminal].status = terminal
    BY <1>1, FinishRunFacts, RowWithStatus DEF RowStatuses, TerminalStatuses
  <2>2. NoRun("trimmed").status = "trimmed"
    BY DEF NoRun
  <2> QED
    BY <1>1, <2>1, <2>2, FinishRunFacts DEF Open, OpenStatuses
<1>2. ASSUME NEW n \in RunIds, StopRun(n) \/ StopRunTorn(n)
      PROVE  \A m \in RunIds : Open(m)' => Open(m) /\ run'[m] = run[m]
  <2>1. HasRow(n) /\ "canceled" \in RowStatuses
    BY <1>2 DEF StopRun, StopRunTorn, Open, HasRow, RowStatuses, TerminalStatuses
  <2>2. [run[n] EXCEPT !.status = "canceled"].status = "canceled"
    BY <2>1, RowWithStatus
  <2>3. run' = [run EXCEPT ![n] = [run[n] EXCEPT !.status = "canceled"]]
    BY <1>2 DEF StopRun, StopRunTorn
  <2> QED
    BY <2>2, <2>3 DEF Open, OpenStatuses, StoreTypeOK, ColumnsOK
<1>3. ASSUME NEW w \in BOOLEAN, NEW S \in SUBSET RunIds,
             RecoverRunning(w) \/ RecoverRunningTorn(w, S)
      PROVE  \A m \in RunIds : Open(m)' => Open(m) /\ run'[m] = run[m]
  <2>1. PICK F \in SUBSET {n \in RunIds : Open(n)} : run' = RunsFailed(F)
    BY <1>3 DEF RecoverRunning, RecoverRunningTorn
  <2>2. \A n \in F : HasRow(n) /\ "failed" \in RowStatuses
    BY <2>1 DEF Open, HasRow, RowStatuses, TerminalStatuses
  <2>3. \A n \in F : [run[n] EXCEPT !.status = "failed"].status = "failed"
    BY <2>1, <2>2, RowWithStatus
  <2> QED
    BY <2>1, <2>3 DEF RunsFailed, Open, OpenStatuses
<1> QED
  BY <1>1, <1>2, <1>3 DEF Settles

\* A delta changes neither the room nor the prompt nor the status of any run.
LEMMA DeltaFacts ==
  ASSUME StoreTypeOK, NEW n \in RunIds, AppendDelta(n), NEW m \in RunIds
  PROVE  /\ run'[m].status = run[m].status
         /\ HasRow(m) => run'[m].room = run[m].room /\ run'[m].text = run[m].text
         /\ m # n => run'[m] = run[m]
<1>1. HasRow(n)
  BY DEF AppendDelta, HasRow, RowStatuses, OpenStatuses
<1>2. run[n] \in RunRow
  BY <1>1, RowColumns
<1> QED
  BY <1>2 DEF AppendDelta, RunRow, StoreTypeOK, ColumnsOK

\* The operations on invites and sessions touch neither runs nor messages.
LEMMA LeavesTurnsFacts ==
  ASSUME LeavesTurns
  PROVE  run' = run /\ messages' = messages
BY DEF LeavesTurns, CreateRoom, IssueInvite, RevokeInvite, RevokeInviteTorn, CloseRoom,
   CloseRoomTorn, ExchangeInvite, Tick, storeVars

\* append_user_turn counts the open rows of the room under the lock it inserts
\* under, and no other operation opens a run.
LEMMA OneOpenRunStep ==
  ASSUME StoreTypeOK, OneOpenRun, [StoreNext]_storeVars
  PROVE  OneOpenRun'
<1>1. CASE Settles
  BY <1>1, SettledStaysSettled DEF OneOpenRun
<1>2. CASE LeavesTurns
  BY <1>2, LeavesTurnsFacts DEF OneOpenRun, Open
<1>3. CASE Streams
  <2>1. PICK n \in RunIds : AppendDelta(n)
    BY <1>3 DEF Streams
  <2> QED
    BY <2>1, DeltaFacts DEF OneOpenRun, Open, HasRow, RowStatuses
<1>4. CASE Appends
  <2>1. PICK r \in Rooms, n \in RunIds, k \in Keys \cup {NoKey}, t \in Texts :
          AppendUserTurn(r, n, k, t)
    BY <1>4 DEF Appends
  <2>2. run'[n].room = r /\ \A m \in RunIds \ {n} : run'[m] = run[m]
    BY <2>1 DEF AppendUserTurn, StoreTypeOK, ColumnsOK
  <2>3. \A m \in RunIds : Open(m) => run[m].room # r
    BY <2>1 DEF AppendUserTurn, OpenRunsOf, RunsOf, HasRow, Open, RowStatuses
  <2> QED
    BY <2>2, <2>3 DEF OneOpenRun, Open
<1> QED
  BY <1>1, <1>2, <1>3, <1>4, StepKinds

\* A room never has two open runs, for any number of rooms, guests, keys and
\* turns, with and without torn operations and failed recoveries.
THEOREM OneOpenRunInvariant == StoreSpec => []OneOpenRun
<1>1. StoreInit => OneOpenRun
  BY DEF StoreInit, OneOpenRun, Open, OpenStatuses, NoRun
<1>2. StoreTypeOK /\ OneOpenRun /\ [StoreNext]_storeVars => OneOpenRun'
  BY OneOpenRunStep
<1> QED
  BY <1>1, <1>2, StoreTypeInvariant, PTL DEF StoreSpec

\* What each step does to the status of a room that has an open run.
LEMMA OpenRunShowsStep ==
  ASSUME StoreTypeOK, OneOpenRun, OpenRunShows, [StoreNext]_storeVars
  PROVE  OpenRunShows'
<1>1. \A m \in RunIds : Open(m) => run[m].room \in Rooms /\ status[run[m].room] # "absent"
  BY RowColumns DEF Open, HasRow, RowStatuses, RunRow, StoreTypeOK, RowsHaveRooms
<1>2. CASE Settles
  <2>1. ASSUME NEW n \in RunIds, Open(n), ~(Open(n)'),
               NEW s \in RoomStatuses, status' = RoomBecomes(run[n].room, s)
        PROVE  OpenRunShows'
    <3>1. HasRow(n)
      BY <2>1 DEF Open, HasRow, RowStatuses
    <3>2. \A r \in Rooms \ {run[n].room} : status'[r] = status[r]
      BY <2>1, <3>1, RoomBecomesFacts
    <3>3. \A m \in RunIds : Open(m)' => Open(m) /\ run'[m] = run[m] /\ run[m].room # run[n].room
      BY <1>2, <2>1, SettledStaysSettled DEF OneOpenRun
    <3> QED
      BY <1>1, <3>2, <3>3 DEF OpenRunShows
  <2>2. ASSUME NEW n \in RunIds, NEW terminal \in {"completed", "failed"}, FinishRun(n, terminal)
        PROVE  OpenRunShows'
    <3>1. [run[n] EXCEPT !.status = terminal].status = terminal
      BY <2>2, FinishRunFacts, RowWithStatus DEF RowStatuses, TerminalStatuses
    <3>2. Open(n) /\ ~(Open(n)')
      BY <2>2, <3>1, FinishRunFacts DEF FinishRun, NoRun, Open, OpenStatuses
    <3>3. status' = RoomBecomes(run[n].room, IF terminal = "failed" THEN "failed" ELSE "idle")
      BY <2>2 DEF FinishRun
    <3> QED
      BY <2>1, <3>2, <3>3 DEF RoomStatuses
  <2>3. ASSUME NEW n \in RunIds, StopRun(n) PROVE OpenRunShows'
    <3>1. HasRow(n) /\ "canceled" \in RowStatuses
      BY <2>3 DEF StopRun, Open, HasRow, RowStatuses, TerminalStatuses
    <3>2. run'[n].status = "canceled"
      BY <2>3, <3>1, RowWithStatus DEF StopRun, StoreTypeOK, ColumnsOK
    <3>3. Open(n) /\ ~(Open(n)')
      BY <2>3, <3>2 DEF StopRun, Open, OpenStatuses
    <3> QED
      BY <2>1, <2>3, <3>3 DEF StopRun, RoomStatuses
  <2>4. ASSUME NEW w \in BOOLEAN, RecoverRunning(w) PROVE OpenRunShows'
    <3>1. \A m \in RunIds : Open(m) => run'[m].status = "failed"
      <4>1. \A m \in RunIds : Open(m) => HasRow(m) /\ "failed" \in RowStatuses
        BY DEF Open, HasRow, RowStatuses, TerminalStatuses
      <4> QED
        BY <2>4, <4>1, RowWithStatus DEF RecoverRunning, RunsFailed
    <3>2. \A m \in RunIds : ~(Open(m)')
      BY <1>2, <3>1, SettledStaysSettled DEF Open, OpenStatuses
    <3> QED
      BY <3>2 DEF OpenRunShows
  <2>5. ASSUME UNCHANGED status PROVE OpenRunShows'
    BY <1>2, <2>5, SettledStaysSettled DEF OpenRunShows
  <2> QED
    BY <1>2, <2>2, <2>3, <2>4, <2>5 DEF Settles, StopRunTorn, RecoverRunningTorn
<1>3. CASE LeavesTurns
  <2>1. \A r \in Rooms : status'[r] = status[r] \/ status[r] = "absent" \/ status'[r] = "closed"
    BY <1>3 DEF LeavesTurns, CreateRoom, IssueInvite, RevokeInvite, RevokeInviteTorn, CloseRoom,
       CloseRoomTorn, ExchangeInvite, Tick, storeVars, StoreTypeOK, ColumnsOK
  <2> QED
    BY <1>1, <1>3, <2>1, LeavesTurnsFacts DEF OpenRunShows, Open
<1>4. CASE Streams
  <2>1. PICK n \in RunIds : AppendDelta(n)
    BY <1>4 DEF Streams
  <2> QED
    BY <2>1, DeltaFacts DEF OpenRunShows, Open, HasRow, RowStatuses, AppendDelta
<1>5. CASE Appends
  <2>1. PICK r \in Rooms, n \in RunIds, k \in Keys \cup {NoKey}, t \in Texts :
          AppendUserTurn(r, n, k, t)
    BY <1>5 DEF Appends
  <2>2. run'[n].room = r /\ \A m \in RunIds \ {n} : run'[m] = run[m]
    BY <2>1 DEF AppendUserTurn, StoreTypeOK, ColumnsOK
  <2>3. status'[r] = "running" /\ \A p \in Rooms \ {r} : status'[p] = status[p]
    BY <2>1 DEF AppendUserTurn, StoreTypeOK, ColumnsOK
  <2> QED
    BY <1>1, <2>2, <2>3 DEF OpenRunShows, Open
<1> QED
  BY <1>2, <1>3, <1>4, <1>5, StepKinds

\* An open run always shows in its room's status, so that a snapshot, a stop and
\* a close can tell that the room is busy.  It needs OneOpenRun: a finish writes
\* 'idle' into the room of its run, which must have no other open run.
THEOREM OpenRunShowsInvariant == StoreSpec => []OpenRunShows
<1>1. StoreInit => OpenRunShows
  BY DEF StoreInit, OpenRunShows, Open, OpenStatuses, NoRun
<1>2. StoreTypeOK /\ OneOpenRun /\ OpenRunShows /\ [StoreNext]_storeVars => OpenRunShows'
  BY OpenRunShowsStep
<1> QED
  BY <1>1, <1>2, StoreTypeInvariant, OneOpenRunInvariant, PTL DEF StoreSpec

-----------------------------------------------------------------------------
(* What a step never does *)

\* A finished run stays as it is until it is trimmed, and a trimmed one is gone.
LEMMA FinalStep ==
  ASSUME StoreTypeOK, [StoreNext]_storeVars, NEW m \in RunIds,
         run[m].status \in TerminalStatuses \cup {"trimmed"}
  PROVE  run'[m] = run[m] \/ run'[m].status = "trimmed"
<1>1. CASE Settles
  <2>1. ASSUME NEW n \in RunIds, NEW terminal \in {"completed", "failed"},
               FinishRun(n, terminal)
        PROVE  run'[m] = run[m] \/ run'[m].status = "trimmed"
    <3>1. m # n
      BY <2>1 DEF FinishRun, Open, OpenStatuses, TerminalStatuses
    <3>2. NoRun("trimmed").status = "trimmed"
      BY DEF NoRun
    <3> QED
      BY <2>1, <3>1, <3>2, FinishRunFacts
  <2>2. ASSUME NEW n \in RunIds, StopRun(n) \/ StopRunTorn(n)
        PROVE  run'[m] = run[m]
    BY <2>2 DEF StopRun, StopRunTorn, Open, OpenStatuses, TerminalStatuses, StoreTypeOK,
       ColumnsOK
  <2>3. ASSUME NEW w \in BOOLEAN, NEW S \in SUBSET RunIds,
               RecoverRunning(w) \/ RecoverRunningTorn(w, S)
        PROVE  run'[m] = run[m]
    <3>1. PICK F \in SUBSET {n \in RunIds : Open(n)} : run' = RunsFailed(F)
      BY <2>3 DEF RecoverRunning, RecoverRunningTorn
    <3> QED
      BY <3>1 DEF RunsFailed, Open, OpenStatuses, TerminalStatuses
  <2> QED
    BY <1>1, <2>1, <2>2, <2>3 DEF Settles
<1>2. CASE LeavesTurns
  BY <1>2, LeavesTurnsFacts
<1>3. CASE Streams
  BY <1>3, DeltaFacts DEF Streams, AppendDelta, TerminalStatuses
<1>4. CASE Appends
  BY <1>4 DEF Appends, AppendUserTurn, TerminalStatuses, StoreTypeOK, ColumnsOK
<1> QED
  BY <1>1, <1>2, <1>3, <1>4, StepKinds

\* A row is never unwritten: its number is not used again, and it changes neither
\* its room nor, once it is finished, back to open.
LEMMA RunsStayKnown ==
  ASSUME StoreTypeOK, [StoreNext]_storeVars, NEW m \in RunIds, run[m].status # "absent"
  PROVE  /\ run'[m].status # "absent"
         /\ HasRow(m)' => HasRow(m) /\ run'[m].room = run[m].room
         /\ Open(m)' => Open(m)
<1>1. CASE ~Open(m)
  <2>1. run[m].status \in TerminalStatuses \cup {"trimmed"}
    BY <1>1 DEF Open, StoreTypeOK, ColumnsOK, RunCell, RunRow, RowStatuses
  <2> QED
    BY <1>1, <2>1, FinalStep
    DEF HasRow, Open, RowStatuses, OpenStatuses, TerminalStatuses
<1>2. CASE Open(m)
  <2>1. HasRow(m) /\ run[m] \in RunRow
    BY <1>2, RowColumns DEF HasRow, Open, RowStatuses
  <2>2. ASSUME NEW s \in RowStatuses, run'[m] = [run[m] EXCEPT !.status = s]
        PROVE  run'[m].status # "absent" /\ run'[m].room = run[m].room
    BY <2>1, <2>2, RowWithStatus DEF RowStatuses, OpenStatuses, TerminalStatuses
  <2>3. run'[m] = NoRun("trimmed") => run'[m].status = "trimmed"
    BY DEF NoRun
  <2>4. {"completed", "failed", "canceled"} \subseteq RowStatuses
    BY DEF RowStatuses, TerminalStatuses
  <2>5. CASE Settles
    <3>1. ASSUME NEW n \in RunIds, NEW terminal \in {"completed", "failed"},
                 FinishRun(n, terminal)
          PROVE  run'[m] \in {run[m], NoRun("trimmed"), [run[m] EXCEPT !.status = terminal]}
      BY <3>1, FinishRunFacts
    <3>2. ASSUME NEW n \in RunIds, StopRun(n) \/ StopRunTorn(n)
          PROVE  run'[m] \in {run[m], [run[m] EXCEPT !.status = "canceled"]}
      BY <3>2 DEF StopRun, StopRunTorn, StoreTypeOK, ColumnsOK
    <3>3. ASSUME NEW w \in BOOLEAN, NEW S \in SUBSET RunIds,
                 RecoverRunning(w) \/ RecoverRunningTorn(w, S)
          PROVE  run'[m] \in {run[m], [run[m] EXCEPT !.status = "failed"]}
      BY <3>3 DEF RecoverRunning, RecoverRunningTorn, RunsFailed
    <3>4. \E s \in RowStatuses :
            run'[m] \in {run[m], NoRun("trimmed"), [run[m] EXCEPT !.status = s]}
      BY <2>4, <2>5, <3>1, <3>2, <3>3 DEF Settles
    <3> QED
      BY <1>2, <2>1, <2>2, <2>3, <3>4 DEF HasRow, Open, RowStatuses, OpenStatuses, TerminalStatuses
  <2>6. CASE LeavesTurns
    BY <1>2, <2>1, <2>6, LeavesTurnsFacts DEF Open, OpenStatuses
  <2>7. CASE Streams
    BY <1>2, <2>1, <2>7, DeltaFacts DEF Streams, Open, OpenStatuses
  <2>8. CASE Appends
    BY <1>2, <2>1, <2>8
    DEF Appends, AppendUserTurn, Open, OpenStatuses, StoreTypeOK, ColumnsOK
  <2> QED
    BY <1>2, <2>1, <2>5, <2>6, <2>7, <2>8, StepKinds
<1> QED
  BY <1>1, <1>2

\* Every UPDATE of a room's status keeps 'closed'.
LEMMA ClosedStays ==
  ASSUME StoreTypeOK, [StoreNext]_storeVars, NEW r \in Rooms, status[r] = "closed"
  PROVE  status'[r] = "closed"
<1>1. ASSUME NEW n \in RunIds, HasRow(n), NEW s \in {"idle", "failed"},
             status' = RoomBecomes(run[n].room, s)
      PROVE  status'[r] = "closed"
  BY <1>1, RoomBecomesFacts DEF RoomStatuses
<1>2. CASE Settles
  <2>1. ASSUME NEW n \in RunIds, NEW terminal \in {"completed", "failed"},
               FinishRun(n, terminal)
        PROVE  status'[r] = "closed"
    BY <1>1, <2>1 DEF FinishRun, Open, HasRow, RowStatuses
  <2>2. ASSUME NEW n \in RunIds, StopRun(n) PROVE status'[r] = "closed"
    BY <1>1, <2>2 DEF StopRun, Open, HasRow, RowStatuses
  <2> QED
    BY <1>2, <2>1, <2>2 DEF Settles, StopRunTorn, RecoverRunning, RecoverRunningTorn
<1>3. CASE LeavesTurns
  BY <1>3 DEF LeavesTurns, CreateRoom, IssueInvite, RevokeInvite, RevokeInviteTorn,
     CloseRoom, CloseRoomTorn, ExchangeInvite, Tick, storeVars, StoreTypeOK, ColumnsOK
<1>4. CASE Streams \/ Appends
  BY <1>4 DEF Streams, AppendDelta, Appends, AppendUserTurn, StoreTypeOK, ColumnsOK
<1> QED
  BY <1>2, <1>3, <1>4, StepKinds

\* A finished run never changes again before it is trimmed, whatever finish,
\* delta, stop or recovery comes late.
THEOREM FinishedRunsStay == StoreSpec => FinishedRunIsFinal
<1> DEFINE Final == \A n \in RunIds : run[n].status \in TerminalStatuses =>
                      run'[n] = run[n] \/ run'[n].status = "trimmed"
<1>1. StoreTypeOK /\ [StoreNext]_storeVars => [Final]_storeVars
  BY FinalStep
<1> QED
  BY <1>1, StoreTypeInvariant, PTL DEF StoreSpec, FinishedRunIsFinal

-----------------------------------------------------------------------------
(* The transcript *)

\* What a finish leaves of the transcript of its room.
LEMMA FinishedTranscript ==
  ASSUME StoreTypeOK, OpenRunPromptIsLast, NEW n \in RunIds,
         NEW terminal \in {"completed", "failed"}, FinishRun(n, terminal)
  PROVE  /\ \A r \in Rooms \ {run[n].room} : messages'[r] = messages[r]
         /\ messages'[run[n].room] = Newest(WithAnswer(n, terminal), MaxHistory)
<1>1. run[n].room \in Rooms
  BY FinishRunFacts
<1> QED
  BY <1>1 DEF FinishRun, StoreTypeOK, ColumnsOK

\* The inductive step, by the four kinds of steps.
LEMMA OpenRunPromptIsLastStep ==
  ASSUME StoreTypeOK, OneOpenRun, OpenRunPromptIsLast, [StoreNext]_storeVars
  PROVE  OpenRunPromptIsLast'
<1>1. \A m \in RunIds : Open(m) => run[m].room \in Rooms
  BY RowColumns DEF Open, HasRow, RowStatuses, RunRow
<1>2. CASE Settles
  <2>1. \A m \in RunIds : Open(m)' => Open(m) /\ run'[m] = run[m]
    BY <1>2, SettledStaysSettled
  <2>2. ASSUME NEW m \in RunIds, Open(m)'
        PROVE  messages'[run[m].room] = messages[run[m].room]
    <3>1. ASSUME NEW n \in RunIds, NEW terminal \in {"completed", "failed"},
                 FinishRun(n, terminal)
          PROVE  messages'[run[m].room] = messages[run[m].room]
      <4>1. [run[n] EXCEPT !.status = terminal].status = terminal
        BY <3>1, FinishRunFacts, RowWithStatus DEF RowStatuses, TerminalStatuses
      <4>2. Open(n) /\ ~(Open(n)')
        BY <3>1, <4>1, FinishRunFacts DEF FinishRun, NoRun, Open, OpenStatuses
      <4>3. run[m].room # run[n].room
        BY <2>1, <2>2, <4>2 DEF OneOpenRun
      <4> QED
        BY <1>1, <2>1, <2>2, <3>1, <4>3, FinishedTranscript
    <3> QED
      BY <1>2, <3>1 DEF Settles, StopRun, StopRunTorn, RecoverRunning, RecoverRunningTorn
  <2> QED
    BY <2>1, <2>2 DEF OpenRunPromptIsLast
<1>3. CASE LeavesTurns
  BY <1>3, LeavesTurnsFacts DEF OpenRunPromptIsLast, Open
<1>4. CASE Streams
  <2>1. PICK n \in RunIds : AppendDelta(n)
    BY <1>4 DEF Streams
  <2>2. messages' = messages
    BY <2>1 DEF AppendDelta
  <2>3. \A m \in RunIds : Open(m)' => Open(m) /\ run'[m].room = run[m].room
                                              /\ run'[m].text = run[m].text
    BY <2>1, DeltaFacts DEF Open, HasRow, RowStatuses
  <2> QED
    BY <2>2, <2>3 DEF OpenRunPromptIsLast
<1>5. CASE Appends
  <2>1. PICK r \in Rooms, n \in RunIds, k \in Keys \cup {NoKey}, t \in Texts :
          AppendUserTurn(r, n, k, t)
    BY <1>5 DEF Appends
  <2> DEFINE prompt == [role |-> "user", text |-> t, run |-> n]
  <2>2. run'[n].room = r /\ run'[n].text = t /\ \A m \in RunIds \ {n} : run'[m] = run[m]
    BY <2>1 DEF AppendUserTurn, StoreTypeOK, ColumnsOK
  <2>3. \A m \in RunIds : Open(m) => run[m].room # r
    BY <2>1 DEF AppendUserTurn, OpenRunsOf, RunsOf, HasRow, Open, RowStatuses
  <2>4. messages'[r] = Append(messages[r], prompt)
        /\ \A p \in Rooms \ {r} : messages'[p] = messages[p]
    BY <2>1 DEF AppendUserTurn, StoreTypeOK, ColumnsOK
  <2>5. messages[r] \in Seq(Message) /\ prompt \in Message
    BY DEF StoreTypeOK, ColumnsOK, Message
  <2>6. messages'[r] # <<>> /\ messages'[r][Len(messages'[r])] = prompt
    BY <2>4, <2>5
  <2>7. ASSUME NEW m \in RunIds \ {n}, Open(m)'
        PROVE  Open(m) /\ run'[m] = run[m]
               /\ messages'[run'[m].room] = messages[run[m].room]
    BY <1>1, <2>2, <2>3, <2>4, <2>7 DEF Open
  <2> QED
    BY <2>2, <2>6, <2>7 DEF OpenRunPromptIsLast
<1> QED
  BY <1>2, <1>3, <1>4, <1>5, StepKinds

\* The prompt of an open run is the newest message of its room, however the
\* history is trimmed: the model is always asked that prompt last.
THEOREM OpenRunPromptIsLastInvariant == StoreSpec => []OpenRunPromptIsLast
<1>1. StoreInit => OpenRunPromptIsLast
  BY DEF StoreInit, OpenRunPromptIsLast, Open, OpenStatuses, NoRun
<1>2. StoreTypeOK /\ OneOpenRun /\ OpenRunPromptIsLast /\ [StoreNext]_storeVars
        => OpenRunPromptIsLast'
  BY OpenRunPromptIsLastStep
<1> QED
  BY <1>1, <1>2, StoreTypeInvariant, OneOpenRunInvariant, PTL DEF StoreSpec

\* AnswersFollowPrompts for one transcript s of room r over the runs rs.
TranscriptOK(s, r, rs) ==
  \A i \in DOMAIN s : s[i].role = "assistant" =>
    /\ \/ rs[s[i].run].status = "trimmed"
       \/ /\ rs[s[i].run].status = "completed"
          /\ rs[s[i].run].room = r
          /\ rs[s[i].run].partial = s[i].text
    /\ i > 1 => s[i - 1].role = "user" /\ s[i - 1].run = s[i].run

\* What AnswersFollowPrompts says of one room's history.
LEMMA AnswersAreTranscripts ==
  /\ AnswersFollowPrompts <=> \A r \in Rooms : TranscriptOK(messages[r], r, run)
  /\ AnswersFollowPrompts' <=> \A r \in Rooms : TranscriptOK(messages'[r], r, run')
BY DEF AnswersFollowPrompts, TranscriptOK

\* Trimming the oldest messages separates no answer from its prompt but the
\* first one's.
LEMMA TrimmedTranscript ==
  ASSUME NEW s \in Seq(Message), NEW r, NEW rs, TranscriptOK(s, r, rs)
  PROVE  TranscriptOK(Newest(s, MaxHistory), r, rs)
<1> DEFINE kept == Newest(s, MaxHistory)
           d == Len(s) - Len(kept)
<1>1. /\ kept \in Seq(Message) /\ Len(kept) <= Len(s)
      /\ \A i \in 1..Len(kept) : kept[i] = s[d + i]
  BY NewestKeepsTail, LimitsAssumption
<1>2. d \in Nat /\ DOMAIN kept = 1..Len(kept) /\ DOMAIN s = 1..Len(s)
  BY <1>1
<1>3. SUFFICES ASSUME NEW i \in 1..Len(kept), kept[i].role = "assistant"
               PROVE  /\ \/ rs[kept[i].run].status = "trimmed"
                         \/ /\ rs[kept[i].run].status = "completed"
                            /\ rs[kept[i].run].room = r
                            /\ rs[kept[i].run].partial = kept[i].text
                      /\ i > 1 => kept[i - 1].role = "user" /\ kept[i - 1].run = kept[i].run
  BY <1>2 DEF TranscriptOK
<1>4. d + i \in DOMAIN s /\ kept[i] = s[d + i]
  BY <1>1, <1>2
<1>5. i > 1 => kept[i - 1] = s[(d + i) - 1] /\ d + i > 1
  BY <1>1, <1>2
<1> HIDE DEF kept, d
<1> QED
  BY <1>3, <1>4, <1>5 DEF TranscriptOK

\* The answers of a transcript stay right while runs only finish and are trimmed.
LEMMA SameTranscript ==
  ASSUME StoreTypeOK, [StoreNext]_storeVars, NEW r \in Rooms,
         TranscriptOK(messages[r], r, run)
  PROVE  TranscriptOK(messages[r], r, run')
<1>1. messages[r] \in Seq(Message)
  BY DEF StoreTypeOK, ColumnsOK
<1>2. \A i \in DOMAIN messages[r] : messages[r][i].run \in RunIds
  BY <1>1 DEF Message
<1>3. \A m \in RunIds : run[m].status \in {"completed", "trimmed"} =>
        run'[m] = run[m] \/ run'[m].status = "trimmed"
  BY FinalStep DEF TerminalStatuses
<1> QED
  BY <1>2, <1>3 DEF TranscriptOK

\* The inductive step, by the four kinds of steps.
LEMMA AnswersFollowPromptsStep ==
  ASSUME StoreTypeOK, OpenRunPromptIsLast, AnswersFollowPrompts, [StoreNext]_storeVars
  PROVE  AnswersFollowPrompts'
<1>1. \A r \in Rooms : TranscriptOK(messages[r], r, run') /\ messages[r] \in Seq(Message)
  BY SameTranscript, AnswersAreTranscripts DEF StoreTypeOK, ColumnsOK
<1>2. CASE messages' = messages
  BY <1>1, <1>2, AnswersAreTranscripts
<1>3. ASSUME NEW n \in RunIds, NEW terminal \in {"completed", "failed"}, FinishRun(n, terminal)
      PROVE  AnswersFollowPrompts'
  <2> DEFINE r == run[n].room
             s == WithAnswer(n, terminal)
             answer == [role |-> "assistant", text |-> run[n].partial, run |-> n]
  <2>1. HasRow(n) /\ r \in Rooms /\ Open(n)
    BY <1>3, FinishRunFacts DEF FinishRun
  <2>2. s \in Seq(Message)
    BY <2>1, MessagesTyped
  <2>3. TranscriptOK(s, r, run')
    <3>1. CASE s = messages[r]
      BY <1>1, <2>1, <3>1
    <3>2. CASE s # messages[r]
      <4>1. s = Append(messages[r], answer) /\ terminal = "completed"
        BY <3>2 DEF WithAnswer
      <4>2. \/ run'[n].status = "trimmed"
            \/ /\ run'[n].status = "completed"
               /\ run'[n].room = r
               /\ run'[n].partial = run[n].partial
        <5>1. NoRun("trimmed").status = "trimmed" /\ "completed" \in RowStatuses
          BY DEF NoRun, RowStatuses, TerminalStatuses
        <5> DEFINE row == [run[n] EXCEPT !.status = "completed"]
        <5>2. row.status = "completed" /\ row.room = run[n].room /\ row.partial = run[n].partial
          BY <2>1, <5>1, RowWithStatus
        <5>3. run'[n] = NoRun("trimmed") \/ run'[n] = row
          BY <1>3, <4>1, FinishRunFacts
        <5> HIDE DEF row
        <5> QED
          BY <5>1, <5>2, <5>3
      <4>3. /\ Len(messages[r]) > 0
            /\ messages[r][Len(messages[r])].role = "user"
            /\ messages[r][Len(messages[r])].run = n
        <5>1. messages[r] # <<>>
              /\ messages[r][Len(messages[r])] = [role |-> "user", text |-> run[n].text, run |-> n]
          BY <2>1 DEF OpenRunPromptIsLast
        <5>2. messages[r] \in Seq(Message)
          BY <1>1, <2>1
        <5> QED
          BY <5>1, <5>2
      <4>4. /\ Len(s) = Len(messages[r]) + 1
            /\ s[Len(s)] = answer
            /\ \A i \in 1..Len(messages[r]) : s[i] = messages[r][i]
            /\ DOMAIN s = 1..Len(s) /\ DOMAIN messages[r] = 1..Len(messages[r])
        BY <1>1, <2>1, <4>1
      <4>5. answer.run = n /\ answer.text = run[n].partial /\ answer.role = "assistant"
        OBVIOUS
      <4>6. Len(messages[r]) \in Nat /\ TranscriptOK(messages[r], r, run')
        BY <1>1, <2>1
      <4> HIDE DEF r, s, answer
      <4> QED
        BY <4>2, <4>3, <4>4, <4>5, <4>6 DEF TranscriptOK
    <3> QED
      BY <3>1, <3>2
  <2>4. TranscriptOK(Newest(s, MaxHistory), r, run')
    BY <2>2, <2>3, TrimmedTranscript
  <2> QED
    BY <1>1, <1>3, <2>4, FinishedTranscript, AnswersAreTranscripts
<1>4. CASE Appends
  <2>1. PICK r \in Rooms, n \in RunIds, k \in Keys \cup {NoKey}, t \in Texts :
          AppendUserTurn(r, n, k, t)
    BY <1>4 DEF Appends
  <2> DEFINE prompt == [role |-> "user", text |-> t, run |-> n]
             s == Append(messages[r], prompt)
  <2>2. messages'[r] = s /\ \A p \in Rooms \ {r} : messages'[p] = messages[p]
    BY <2>1 DEF AppendUserTurn, StoreTypeOK, ColumnsOK
  <2>3. /\ Len(s) = Len(messages[r]) + 1
        /\ s[Len(s)].role = "user"
        /\ \A i \in 1..Len(messages[r]) : s[i] = messages[r][i]
        /\ DOMAIN s = 1..Len(s) /\ DOMAIN messages[r] = 1..Len(messages[r])
    <3>1. prompt \in Message
      BY DEF Message
    <3> QED
      BY <1>1, <3>1
  <2>4. Len(messages[r]) \in Nat /\ TranscriptOK(messages[r], r, run')
    BY <1>1
  <2>5. TranscriptOK(s, r, run')
    <3> HIDE DEF s
    <3> QED
      BY <2>3, <2>4 DEF TranscriptOK
  <2> QED
    BY <1>1, <2>2, <2>5, AnswersAreTranscripts
<1>5. CASE Settles
  BY <1>2, <1>3, <1>5 DEF Settles, StopRun, StopRunTorn, RecoverRunning, RecoverRunningTorn
<1>6. CASE Streams
  BY <1>2, <1>6 DEF Streams, AppendDelta
<1>7. CASE LeavesTurns
  BY <1>2, <1>7, LeavesTurnsFacts
<1> QED
  BY <1>4, <1>5, <1>6, <1>7, StepKinds

\* Every answer in a room's history is the whole text of a completed run of that
\* room and directly follows that run's prompt.  It needs OpenRunPromptIsLast: a
\* finish appends the answer behind whatever message is last.
THEOREM AnswersFollowPromptsInvariant == StoreSpec => []AnswersFollowPrompts
<1>1. StoreInit => AnswersFollowPrompts
  BY DEF StoreInit, AnswersFollowPrompts
<1>2. StoreTypeOK /\ OpenRunPromptIsLast /\ AnswersFollowPrompts /\ [StoreNext]_storeVars
        => AnswersFollowPrompts'
  BY AnswersFollowPromptsStep
<1> QED
  BY <1>1, <1>2, StoreTypeInvariant, OpenRunPromptIsLastInvariant, PTL DEF StoreSpec
-----------------------------------------------------------------------------
(* Rooms *)

\* The runs of other rooms are not touched when a run is finished or stopped.
LEMMA OtherRoomsRunsKept ==
  ASSUME StoreTypeOK, NEW n \in RunIds,
         \/ \E terminal \in {"completed", "failed"} : FinishRun(n, terminal)
         \/ StopRun(n) \/ StopRunTorn(n),
         NEW m \in RunIds, HasRow(m), run[m].room # run[n].room
  PROVE  run'[m] = run[m]
<1>1. m \notin RunsTrimmed(run[n].room)
  BY DEF RunsTrimmed, RunsOf
<1> QED
  BY <1>1 DEF FinishRun, StopRun, StopRunTorn, StoreTypeOK, ColumnsOK

\* An unchanged open row is still among the open runs of its room.
LEMMA OpenRunsKept ==
  ASSUME NEW r \in Rooms, OpenRunsOf(r) # {}, \A m \in OpenRunsOf(r) : run'[m] = run[m]
  PROVE  OpenRunsOf(r)' # {}
BY DEF OpenRunsOf, RunsOf, HasRow, Open

\* The inductive step, by the four kinds of steps.
LEMMA RunningRoomHasRunStep ==
  ASSUME StoreTypeOK, RunningRoomHasRun, [StoreNext]_storeVars
  PROVE  RunningRoomHasRun'
<1>1. SUFFICES ASSUME NEW r \in Rooms, status'[r] = "running", "run" \notin torn'[r]
               PROVE  OpenRunsOf(r)' # {}
  BY DEF RunningRoomHasRun
<1>2. ASSUME status[r] = "running", "run" \notin torn[r],
             \A m \in OpenRunsOf(r) : run'[m] = run[m]
      PROVE  OpenRunsOf(r)' # {}
  BY <1>2, OpenRunsKept DEF RunningRoomHasRun
<1>3. \A m \in OpenRunsOf(r) : m \in RunIds /\ HasRow(m) /\ Open(m) /\ run[m].room = r
  BY DEF OpenRunsOf, RunsOf
<1>4. CASE LeavesTurns
  <2>1. status[r] = "running" /\ "run" \notin torn[r]
    <3>1. ASSUME NEW p \in Rooms, CreateRoom(p) \/ CloseRoom(p) \/ CloseRoomTorn(p)
          PROVE  status[r] = "running" /\ "run" \notin torn[r]
      BY <1>1, <3>1 DEF CreateRoom, CloseRoom, CloseRoomTorn, StoreTypeOK, ColumnsOK
    <3>2. ASSUME NEW p \in Rooms, IssueInvite(p) \/ RevokeInvite(p) \/ RevokeInviteTorn(p)
          PROVE  status[r] = "running" /\ "run" \notin torn[r]
      <4>1. \/ torn' = [torn EXCEPT ![p] = @ \ {"access"}]
            \/ torn' = [torn EXCEPT ![p] = @ \cup {"access"}]
        BY <3>2 DEF IssueInvite, RevokeInvite, RevokeInviteTorn
      <4>2. "run" \notin torn[r]
        BY <1>1, <4>1 DEF StoreTypeOK, ColumnsOK
      <4> QED
        BY <1>1, <3>2, <4>2 DEF IssueInvite, RevokeInvite, RevokeInviteTorn
    <3> QED
      BY <1>1, <1>4, <3>1, <3>2 DEF LeavesTurns, ExchangeInvite, Tick, storeVars
  <2> QED
    BY <1>2, <1>4, <2>1, LeavesTurnsFacts
<1>5. CASE Streams
  <2>1. PICK n \in RunIds : AppendDelta(n)
    BY <1>5 DEF Streams
  <2>2. OpenRunsOf(r) # {}
    BY <1>1, <2>1 DEF AppendDelta, RunningRoomHasRun
  <2>3. PICK m \in RunIds : HasRow(m) /\ Open(m) /\ run[m].room = r
    BY <1>3, <2>2
  <2>4. run'[m].status = run[m].status /\ run'[m].room = r
    BY <2>1, <2>3, DeltaFacts
  <2> QED
    BY <2>3, <2>4 DEF OpenRunsOf, RunsOf, HasRow, Open
<1>6. CASE Appends
  <2>1. PICK p \in Rooms, n \in RunIds, k \in Keys \cup {NoKey}, t \in Texts :
          AppendUserTurn(p, n, k, t)
    BY <1>6 DEF Appends
  <2>2. /\ run'[n].status = "running" /\ run'[n].room = p
        /\ \A m \in RunIds \ {n} : run'[m] = run[m]
    BY <2>1 DEF AppendUserTurn, StoreTypeOK, ColumnsOK
  <2>3. CASE r = p
    BY <2>2, <2>3 DEF OpenRunsOf, RunsOf, HasRow, Open, RowStatuses, OpenStatuses
  <2>4. CASE r # p
    <3>1. status[r] = "running" /\ torn[r] = torn'[r] /\ run[n].status = "absent"
      BY <1>1, <2>1, <2>4 DEF AppendUserTurn, StoreTypeOK, ColumnsOK
    <3>2. n \notin OpenRunsOf(r)
      BY <1>3, <3>1 DEF Open, OpenStatuses
    <3> QED
      BY <1>1, <1>2, <1>3, <2>2, <3>1, <3>2
  <2> QED
    BY <2>3, <2>4
<1>7. CASE Settles
  <2>1. ASSUME NEW n \in RunIds,
               \/ \E terminal \in {"completed", "failed"} : FinishRun(n, terminal)
               \/ StopRun(n) \/ StopRunTorn(n)
        PROVE  OpenRunsOf(r)' # {}
    <3>1. HasRow(n) /\ run[n].room \in Rooms
      <4>1. HasRow(n)
        BY <2>1 DEF FinishRun, StopRun, StopRunTorn, Open, HasRow, RowStatuses
      <4> QED
        BY <4>1, RowColumns DEF RunRow
    <3>2. r # run[n].room
      <4>1. ASSUME NEW terminal \in {"completed", "failed"}, FinishRun(n, terminal)
            PROVE  status'[run[n].room] # "running"
        BY <3>1, <4>1, RoomBecomesFacts DEF FinishRun, RoomStatuses
      <4>2. ASSUME StopRun(n) PROVE status'[run[n].room] # "running"
        BY <3>1, <4>2, RoomBecomesFacts DEF StopRun, RoomStatuses
      <4>3. ASSUME StopRunTorn(n) PROVE "run" \in torn'[run[n].room]
        BY <3>1, <4>3 DEF StopRunTorn, StoreTypeOK, ColumnsOK
      <4> QED
        BY <1>1, <2>1, <4>1, <4>2, <4>3
    <3>3. status'[r] = status[r] /\ torn'[r] = torn[r]
      <4>1. \A s \in RoomStatuses : RoomBecomes(run[n].room, s)[r] = status[r]
        BY <3>1, <3>2, RoomBecomesFacts
      <4>2. ASSUME NEW terminal \in {"completed", "failed"}, FinishRun(n, terminal)
            PROVE  status'[r] = status[r] /\ torn'[r] = torn[r]
        BY <3>2, <4>1, <4>2 DEF FinishRun, RoomStatuses, StoreTypeOK, ColumnsOK
      <4>3. ASSUME StopRun(n) \/ StopRunTorn(n)
            PROVE  status'[r] = status[r] /\ torn'[r] = torn[r]
        BY <3>2, <4>1, <4>3 DEF StopRun, StopRunTorn, RoomStatuses, StoreTypeOK, ColumnsOK
      <4> QED
        BY <2>1, <4>2, <4>3
    <3>4. \A m \in OpenRunsOf(r) : run'[m] = run[m]
      BY <1>3, <2>1, <3>2, OtherRoomsRunsKept
    <3> QED
      BY <1>1, <1>2, <3>3, <3>4
  <2>2. ASSUME NEW w \in BOOLEAN, RecoverRunning(w) PROVE FALSE
    BY <1>1, <2>2 DEF RecoverRunning
  <2>3. ASSUME NEW w \in BOOLEAN, NEW S \in SUBSET RunIds, RecoverRunningTorn(w, S)
        PROVE  OpenRunsOf(r)' # {}
    <3>1. S \cap OpenRunsOf(r) = {} /\ torn'[r] = torn[r] /\ status'[r] = status[r]
      BY <1>1, <2>3 DEF RecoverRunningTorn
    <3>2. \A m \in OpenRunsOf(r) : run'[m] = run[m]
      BY <1>3, <2>3, <3>1 DEF RecoverRunningTorn, RunsFailed
    <3> QED
      BY <1>1, <1>2, <3>1, <3>2
  <2> QED
    BY <1>7, <2>1, <2>2, <2>3 DEF Settles
<1> QED
  BY <1>4, <1>5, <1>6, <1>7, StepKinds

\* A room that shows 'running' has an open run, unless a torn stop or recovery
\* left it behind; with OpenRunShows the status and the runs agree.
THEOREM RunningRoomHasRunInvariant == StoreSpec => []RunningRoomHasRun
<1>1. StoreInit => RunningRoomHasRun
  BY DEF StoreInit, RunningRoomHasRun
<1>2. StoreTypeOK /\ RunningRoomHasRun /\ [StoreNext]_storeVars => RunningRoomHasRun'
  BY RunningRoomHasRunStep
<1> QED
  BY <1>1, <1>2, StoreTypeInvariant, PTL DEF StoreSpec

\* Nobody is in a room after a step who was not before, except a guest who has
\* just exchanged the room's invite.
LEMMA GuestsKept ==
  ASSUME StoreTypeOK, [StoreNext]_storeVars,
         \A r \in Rooms, g \in Guests : ~ExchangeInvite(r, g),
         NEW g \in Guests, guest'[g].state = "joined"
  PROVE  /\ guest[g].state = "joined" /\ guest'[g].room = guest[g].room
         /\ guest'[g].via = guest[g].via /\ guest'[g].expires = guest[g].expires
         /\ guest[g].revoked => guest'[g].revoked
<1>1. \A r \in Rooms : g \in Joined(r) => guest[g] \in GuestRow /\ guest[g].state = "joined"
  BY GuestColumns DEF Joined
<1>2. \/ guest' = guest
      \/ \E r \in Rooms : guest' \in {GuestsDeleted(r), SessionsRevoked(r),
                                      GuestsOffline(SessionsRevoked(r), r)}
  BY DEF StoreNext, CreateRoom, IssueInvite, RevokeInvite, RevokeInviteTorn, CloseRoom,
     CloseRoomTorn, AppendUserTurn, AppendDelta, FinishRun, StopRun, StopRunTorn,
     RecoverRunning, RecoverRunningTorn, Tick, storeVars
<1>3. ASSUME NEW r \in Rooms, guest' = GuestsDeleted(r)
      PROVE  guest'[g] = guest[g]
  BY <1>3 DEF GuestsDeleted, NoGuest
<1>4. ASSUME NEW r \in Rooms, guest' = SessionsRevoked(r)
      PROVE  guest'[g] = guest[g] \/ (guest[g] \in GuestRow
                                      /\ guest'[g] = [guest[g] EXCEPT !.revoked = TRUE])
  BY <1>1, <1>4 DEF SessionsRevoked
<1>5. ASSUME NEW r \in Rooms, guest' = GuestsOffline(SessionsRevoked(r), r)
      PROVE  guest'[g] = guest[g] \/ (guest[g] \in GuestRow
               /\ guest'[g] = [[guest[g] EXCEPT !.revoked = TRUE] EXCEPT !.online = FALSE])
  BY <1>1, <1>5 DEF SessionsRevoked, GuestsOffline
<1>6. CASE guest'[g] = guest[g]
  BY <1>6
<1>7. CASE /\ guest[g] \in GuestRow
           /\ \/ guest'[g] = [guest[g] EXCEPT !.revoked = TRUE]
              \/ guest'[g] = [[guest[g] EXCEPT !.revoked = TRUE] EXCEPT !.online = FALSE]
  BY <1>7 DEF GuestRow
<1> QED
  BY <1>2, <1>3, <1>4, <1>5, <1>6, <1>7

\* A closed room stays closed, takes no further turn and no further guest.
THEOREM ClosedRoomsStay == StoreSpec => ClosedIsFinal
<1> DEFINE Final == \A r \in Rooms : status[r] = "closed" =>
             /\ status'[r] = "closed"
             /\ \A n \in RunIds : n \in OpenRunsOf(r)' => n \in OpenRunsOf(r)
             /\ Joined(r)' \subseteq Joined(r)
<1>1. ASSUME StoreTypeOK, [StoreNext]_storeVars, NEW r \in Rooms, status[r] = "closed",
             NEW n \in RunIds, n \in OpenRunsOf(r)'
      PROVE  n \in OpenRunsOf(r)
  <2>1. Open(n)' /\ run'[n].room = r
    BY <1>1 DEF OpenRunsOf, RunsOf
  <2>2. CASE Settles \/ LeavesTurns
    BY <1>1, <2>1, <2>2, SettledStaysSettled, LeavesTurnsFacts
    DEF OpenRunsOf, RunsOf, HasRow, Open, RowStatuses
  <2>3. CASE Streams
    BY <1>1, <2>1, <2>3, DeltaFacts DEF Streams, OpenRunsOf, RunsOf, HasRow, Open, RowStatuses
  <2>4. CASE Appends
    <3>1. PICK p \in Rooms, m \in RunIds, k \in Keys \cup {NoKey}, t \in Texts :
            AppendUserTurn(p, m, k, t)
      BY <2>4 DEF Appends
    <3>2. run'[m].room = p /\ p # r /\ \A q \in RunIds \ {m} : run'[q] = run[q]
      BY <1>1, <3>1 DEF AppendUserTurn, StoreTypeOK, ColumnsOK
    <3> QED
      BY <2>1, <3>2 DEF OpenRunsOf, RunsOf, HasRow, Open, RowStatuses
  <2> QED
    BY <1>1, <2>2, <2>3, <2>4, StepKinds
<1>2. ASSUME StoreTypeOK, [StoreNext]_storeVars, NEW r \in Rooms, status[r] = "closed"
      PROVE  Joined(r)' \subseteq Joined(r)
  <2>1. ASSUME NEW p \in Rooms, NEW h \in Guests, ExchangeInvite(p, h)
        PROVE  Joined(r)' \subseteq Joined(r)
    <3>1. p # r /\ guest'[h].room = p /\ \A g \in Guests \ {h} : guest'[g] = guest[g]
      BY <1>2, <2>1 DEF ExchangeInvite, InviteUsable, StoreTypeOK, ColumnsOK
    <3> QED
      BY <3>1 DEF Joined
  <2>2. ASSUME \A p \in Rooms, h \in Guests : ~ExchangeInvite(p, h)
        PROVE  Joined(r)' \subseteq Joined(r)
    BY <1>2, <2>2, GuestsKept DEF Joined
  <2> QED
    BY <2>1, <2>2
<1>3. StoreTypeOK /\ [StoreNext]_storeVars => [Final]_storeVars
  BY ClosedStays, <1>1, <1>2
<1> QED
  BY <1>3, StoreTypeInvariant, PTL DEF StoreSpec, ClosedIsFinal

-----------------------------------------------------------------------------
(* Guests *)

\* The clock never goes back.
LEMMA ClockAdvances ==
  ASSUME StoreTypeOK, [StoreNext]_storeVars
  PROVE  now \in Nat /\ now' \in Nat /\ now <= now'
<1>1. now \in Nat
  BY DEF StoreTypeOK, ColumnsOK
<1>2. now' = now \/ now' = now + 1
  BY DEF StoreNext, CreateRoom, ExchangeInvite, IssueInvite, RevokeInvite, RevokeInviteTorn,
     CloseRoom, CloseRoomTorn, AppendUserTurn, AppendDelta, FinishRun, StopRun, StopRunTorn,
     RecoverRunning, RecoverRunningTorn, Tick, storeVars
<1> QED
  BY <1>1, <1>2

\* No session comes alive but by an exchange.
LEMMA LiveGuestsKept ==
  ASSUME StoreTypeOK, [StoreNext]_storeVars,
         \A r \in Rooms, g \in Guests : ~ExchangeInvite(r, g),
         NEW r \in Rooms
  PROVE  LiveGuests(r)' \subseteq LiveGuests(r)
<1>1. SUFFICES ASSUME NEW g \in Guests, g \in LiveGuests(r)' PROVE g \in LiveGuests(r)
  BY DEF LiveGuests, Joined
<1>2. /\ guest'[g].state = "joined" /\ guest'[g].room = r
      /\ ~guest'[g].revoked /\ guest'[g].expires > now'
  BY <1>1 DEF LiveGuests, Joined, LiveSession, FutureTimestamp
<1>3. /\ guest[g].state = "joined" /\ guest'[g].room = guest[g].room
      /\ guest'[g].expires = guest[g].expires /\ ~guest[g].revoked
  BY <1>2, GuestsKept
<1>4. guest[g].expires \in Nat
  BY <1>3, GuestColumns DEF GuestRow
<1>5. guest[g].expires > now
  BY <1>2, <1>3, <1>4, ClockAdvances
<1> QED
  BY <1>2, <1>3, <1>5 DEF LiveGuests, Joined, LiveSession, FutureTimestamp

\* An exchange adds its guest to its room and nobody anywhere else.
LEMMA ExchangeFacts ==
  ASSUME StoreTypeOK, NEW p \in Rooms, NEW h \in Guests, ExchangeInvite(p, h), NEW r \in Rooms
  PROVE  /\ LiveGuests(r)' \subseteq LiveGuests(r) \cup {h}
         /\ r # p => LiveGuests(r)' \subseteq LiveGuests(r)
         /\ guest'[h].room = p /\ guest'[h].via = invite[p].secret
         /\ \A g \in Guests \ {h} : guest'[g] = guest[g]
<1>1. guest'[h].room = p /\ guest'[h].via = invite[p].secret
      /\ \A g \in Guests \ {h} : guest'[g] = guest[g]
  BY DEF ExchangeInvite, StoreTypeOK, ColumnsOK
<1>2. now' = now
  BY DEF ExchangeInvite
<1>3. \A g \in Guests \ {h} : g \in LiveGuests(r)' => g \in LiveGuests(r)
  BY <1>1, <1>2 DEF LiveGuests, Joined, LiveSession, FutureTimestamp
<1>4. r # p => h \notin LiveGuests(r)'
  BY <1>1 DEF LiveGuests, Joined
<1>5. LiveGuests(r)' \subseteq Guests
  BY DEF LiveGuests, Joined
<1> QED
  BY <1>1, <1>3, <1>4, <1>5

\* A room's live guests are finitely many.
LEMMA LiveGuestsFinite ==
  ASSUME NEW r \in Rooms
  PROVE  IsFiniteSet(LiveGuests(r)) /\ Cardinality(LiveGuests(r)) \in Nat
<1>1. LiveGuests(r) \subseteq Guests
  BY DEF LiveGuests, Joined
<1> QED
  BY <1>1, NamesAssumption, FS_Subset, FS_CardinalityType

\* The host and the guests with a live session never exceed the cap, which is
\* only checked at the exchange: nothing else brings a session to life, not even
\* an operation that stops halfway, and expiry is never undone.
THEOREM LiveParticipantsCappedInvariant == StoreSpec => []LiveParticipantsCapped
<1>1. ASSUME StoreInit PROVE LiveParticipantsCapped
  <2>1. \A r \in Rooms : LiveGuests(r) = {}
    BY <1>1 DEF StoreInit, LiveGuests, Joined, NoGuest
  <2> QED
    BY <2>1, FS_EmptySet, LimitsAssumption DEF LiveParticipantsCapped
<1>2. ASSUME StoreTypeOK, LiveParticipantsCapped, [StoreNext]_storeVars
      PROVE  LiveParticipantsCapped'
  <2>1. ASSUME NEW r \in Rooms, LiveGuests(r)' \subseteq LiveGuests(r)
        PROVE  Cardinality(LiveGuests(r)') + 1 <= MaxParticipants
    <3>1. /\ Cardinality(LiveGuests(r)') <= Cardinality(LiveGuests(r))
          /\ Cardinality(LiveGuests(r)') \in Nat /\ Cardinality(LiveGuests(r)) \in Nat
      BY <2>1, LiveGuestsFinite, FS_Subset, FS_CardinalityType
    <3>2. Cardinality(LiveGuests(r)) + 1 <= MaxParticipants
      BY <1>2 DEF LiveParticipantsCapped
    <3> QED
      BY <3>1, <3>2, LimitsAssumption
  <2>2. ASSUME NEW p \in Rooms, NEW h \in Guests, ExchangeInvite(p, h), NEW r \in Rooms
        PROVE  Cardinality(LiveGuests(r)') + 1 <= MaxParticipants
    <3>1. CASE r # p
      BY <1>2, <2>1, <2>2, <3>1, ExchangeFacts
    <3>2. CASE r = p
      <4>1. LiveGuests(r)' \subseteq LiveGuests(r) \cup {h}
        BY <1>2, <2>2, ExchangeFacts
      <4>2. /\ IsFiniteSet(LiveGuests(r) \cup {h})
            /\ Cardinality(LiveGuests(r) \cup {h}) \in Nat
            /\ Cardinality(LiveGuests(r) \cup {h}) <= Cardinality(LiveGuests(r)) + 1
        <5>1. IsFiniteSet(LiveGuests(r)) /\ Cardinality(LiveGuests(r)) \in Nat
          BY LiveGuestsFinite
        <5>2. IsFiniteSet(LiveGuests(r) \cup {h})
          BY <5>1, FS_AddElement
        <5>3. Cardinality(LiveGuests(r) \cup {h}) =
                IF h \in LiveGuests(r) THEN Cardinality(LiveGuests(r))
                                       ELSE Cardinality(LiveGuests(r)) + 1
          BY <5>1, FS_AddElement
        <5> QED
          BY <5>1, <5>2, <5>3
      <4>3. /\ Cardinality(LiveGuests(r)') <= Cardinality(LiveGuests(r) \cup {h})
            /\ Cardinality(LiveGuests(r)') \in Nat
        BY <4>1, <4>2, FS_Subset, FS_CardinalityType
      <4>4. ~(Cardinality(LiveGuests(r)) + 1 >= MaxParticipants)
        BY <2>2, <3>2 DEF ExchangeInvite, RoomFull
      <4> QED
        BY <4>2, <4>3, <4>4, LiveGuestsFinite, LimitsAssumption
    <3> QED
      BY <3>1, <3>2
  <2>3. ASSUME \A p \in Rooms, h \in Guests : ~ExchangeInvite(p, h), NEW r \in Rooms
        PROVE  Cardinality(LiveGuests(r)') + 1 <= MaxParticipants
    BY <1>2, <2>1, <2>3, LiveGuestsKept
  <2> QED
    BY <2>2, <2>3 DEF LiveParticipantsCapped
<1> QED
  BY <1>1, <1>2, StoreTypeInvariant, PTL DEF StoreSpec

\* The steps that are not about invites and sessions leave them alone.
LEMMA AccessKept ==
  ASSUME StoreTypeOK, Settles \/ Streams \/ Appends \/ Tick \/ UNCHANGED storeVars,
         NEW r \in Rooms
  PROVE  /\ invite' = invite /\ guest' = guest
         /\ status'[r] = "closed" => status[r] = "closed"
         /\ "access" \in torn[r] => "access" \in torn'[r]
<1>1. invite' = invite /\ guest' = guest
  BY DEF Settles, Streams, Appends, FinishRun, StopRun, StopRunTorn, RecoverRunning,
     RecoverRunningTorn, AppendDelta, AppendUserTurn, Tick, storeVars
<1>2. ASSUME NEW n \in RunIds, Open(n),
             \/ torn' = [torn EXCEPT ![run[n].room] = @ \ {"run"}]
             \/ torn' = [torn EXCEPT ![run[n].room] = @ \cup {"run"}],
             \/ status' = status
             \/ \E s \in {"idle", "failed"} : status' = RoomBecomes(run[n].room, s)
      PROVE  /\ status'[r] = "closed" => status[r] = "closed"
             /\ "access" \in torn[r] => "access" \in torn'[r]
  <2>1. status'[r] = "closed" => status[r] = "closed"
    BY <1>2 DEF RoomBecomes, StoreTypeOK, ColumnsOK
  <2>2. "access" \in torn[r] => "access" \in torn'[r]
    BY <1>2 DEF StoreTypeOK, ColumnsOK
  <2> QED
    BY <2>1, <2>2
<1>3. ASSUME NEW n \in RunIds, NEW terminal \in {"completed", "failed"}, FinishRun(n, terminal)
      PROVE  /\ status'[r] = "closed" => status[r] = "closed"
             /\ "access" \in torn[r] => "access" \in torn'[r]
  <2>1. /\ Open(n) /\ torn' = [torn EXCEPT ![run[n].room] = @ \ {"run"}]
        /\ \E s \in {"idle", "failed"} : status' = RoomBecomes(run[n].room, s)
    BY <1>3 DEF FinishRun
  <2> QED
    BY <1>2, <2>1
<1>4. ASSUME NEW n \in RunIds, StopRun(n) \/ StopRunTorn(n)
      PROVE  /\ status'[r] = "closed" => status[r] = "closed"
             /\ "access" \in torn[r] => "access" \in torn'[r]
  BY <1>2, <1>4 DEF StopRun, StopRunTorn
<1>5. ASSUME NEW w \in BOOLEAN, RecoverRunning(w)
      PROVE  /\ status'[r] = "closed" => status[r] = "closed"
             /\ "access" \in torn[r] => "access" \in torn'[r]
  BY <1>5 DEF RecoverRunning
<1>6. ASSUME NEW w \in BOOLEAN, NEW S \in SUBSET RunIds, RecoverRunningTorn(w, S)
      PROVE  /\ status'[r] = "closed" => status[r] = "closed"
             /\ "access" \in torn[r] => "access" \in torn'[r]
  BY <1>6 DEF RecoverRunningTorn
<1>7. CASE Appends
  BY <1>7 DEF Appends, AppendUserTurn, StoreTypeOK, ColumnsOK
<1>8. CASE Streams \/ Tick \/ UNCHANGED storeVars
  BY <1>8 DEF Streams, AppendDelta, Tick, storeVars
<1> QED
  BY <1>1, <1>3, <1>4, <1>5, <1>6, <1>7, <1>8 DEF Settles

\* Rotating, revoking and closing leave the room without a live guest.
LEMMA CutGuests ==
  ASSUME StoreTypeOK, NEW r \in Rooms, IssueInvite(r) \/ RevokeInvite(r) \/ CloseRoom(r)
  PROVE  LiveGuests(r)' = {}
<1>1. SUFFICES ASSUME NEW g \in Guests, guest'[g].state = "joined", guest'[g].room = r
               PROVE  guest'[g].revoked
  BY DEF LiveGuests, Joined, LiveSession
<1>2. PICK gs \in {GuestsDeleted(r), GuestsOffline(SessionsRevoked(r), r)} : guest' = gs
  BY DEF IssueInvite, RevokeInvite, CloseRoom
<1>3. g \in Joined(r)
  BY <1>1, <1>2, GuestRoomsKept DEF Joined
<1>4. guest[g] \in GuestRow
  BY <1>3, GuestColumns DEF Joined
<1>5. guest' # GuestsDeleted(r)
  BY <1>1, <1>3 DEF GuestsDeleted, NoGuest
<1>6. guest'[g] = [[guest[g] EXCEPT !.revoked = TRUE] EXCEPT !.online = FALSE]
  BY <1>2, <1>3, <1>5 DEF GuestsOffline, SessionsRevoked
<1> QED
  BY <1>4, <1>6 DEF GuestRow

\* The inductive step: who may still act.
LEMMA LiveSessionStep ==
  ASSUME StoreTypeOK, LiveSessionFromCurrentInvite, [StoreNext]_storeVars
  PROVE  LiveSessionFromCurrentInvite'
<1> DEFINE Current(g, r) ==
             guest[g].via = invite[r].secret /\ ~invite[r].revoked /\ status[r] # "closed"
<1>1. SUFFICES ASSUME NEW r \in Rooms, "access" \notin torn'[r], NEW g \in LiveGuests(r)'
               PROVE  Current(g, r)'
  BY DEF LiveSessionFromCurrentInvite
<1>2. g \in Guests /\ guest'[g].state = "joined" /\ guest'[g].room = r
  BY DEF LiveGuests, Joined, LiveSession
<1>3. ASSUME "access" \notin torn[r], g \in LiveGuests(r) PROVE Current(g, r)
  BY <1>3 DEF LiveSessionFromCurrentInvite
<1>4. ASSUME NEW p \in Rooms, NEW h \in Guests, ExchangeInvite(p, h) PROVE Current(g, r)'
  <2>1. /\ invite' = invite /\ status' = status /\ torn' = torn
        /\ ~invite[p].revoked /\ status[p] # "closed"
    BY <1>4 DEF ExchangeInvite, InviteUsable
  <2>2. CASE g = h
    <3>1. r = p /\ guest'[g].via = invite[r].secret
      BY <1>2, <1>4, <2>2, ExchangeFacts
    <3> QED
      BY <2>1, <3>1
  <2>3. CASE g # h
    <3>1. g \in LiveGuests(r) /\ guest'[g] = guest[g]
      BY <1>1, <1>2, <1>4, <2>3, ExchangeFacts
    <3> QED
      BY <1>1, <1>3, <2>1, <3>1
  <2> QED
    BY <2>2, <2>3
<1>5. ASSUME \A p \in Rooms, h \in Guests : ~ExchangeInvite(p, h) PROVE Current(g, r)'
  <2>1. g \in LiveGuests(r) /\ guest[g].state = "joined" /\ guest[g].room = r
        /\ guest'[g].via = guest[g].via
    BY <1>1, <1>2, <1>5, LiveGuestsKept, GuestsKept
  <2>2. ASSUME invite'[r] = invite[r], status'[r] = "closed" => status[r] = "closed",
               "access" \in torn[r] => "access" \in torn'[r]
        PROVE  Current(g, r)'
    BY <1>1, <1>3, <2>1, <2>2
  <2>3. CASE Settles \/ Streams \/ Appends \/ Tick \/ UNCHANGED storeVars
    BY <2>2, <2>3, AccessKept
  <2>4. ASSUME NEW p \in Rooms, CreateRoom(p) PROVE Current(g, r)'
    <3>1. status[r] # "absent"
      BY <1>2, <2>1 DEF StoreTypeOK, RowsHaveRooms
    <3>2. p # r
      BY <2>4, <3>1 DEF CreateRoom
    <3> QED
      BY <2>2, <2>4, <3>2 DEF CreateRoom, StoreTypeOK, ColumnsOK
  <2>5. ASSUME NEW p \in Rooms, IssueInvite(p) \/ RevokeInvite(p) \/ CloseRoom(p)
        PROVE  Current(g, r)'
    <3>1. p # r
      BY <1>1, <2>5, CutGuests
    <3> QED
      BY <2>2, <2>5, <3>1 DEF IssueInvite, RevokeInvite, CloseRoom, StoreTypeOK, ColumnsOK
  <2>6. ASSUME NEW p \in Rooms, RevokeInviteTorn(p) \/ CloseRoomTorn(p)
        PROVE  Current(g, r)'
    <3>1. torn' = [torn EXCEPT ![p] = @ \cup {"access"}]
      BY <2>6 DEF RevokeInviteTorn, CloseRoomTorn
    <3>2. p # r /\ torn'[r] = torn[r]
      BY <1>1, <3>1 DEF StoreTypeOK, ColumnsOK
    <3> QED
      BY <2>2, <2>6, <3>2 DEF RevokeInviteTorn, CloseRoomTorn, StoreTypeOK, ColumnsOK
  <2> QED
    BY <1>5, <2>3, <2>4, <2>5, <2>6, StepKinds DEF LeavesTurns
<1> QED
  BY <1>4, <1>5

\* Unless a torn operation stopped short, every session that authorizes requests
\* was opened with the invite the room holds now, which is not revoked.
THEOREM LiveSessionInvariant == StoreSpec => []LiveSessionFromCurrentInvite
<1>1. StoreInit => LiveSessionFromCurrentInvite
  BY DEF StoreInit, LiveSessionFromCurrentInvite, LiveGuests, Joined, NoGuest
<1>2. StoreTypeOK /\ LiveSessionFromCurrentInvite /\ [StoreNext]_storeVars
        => LiveSessionFromCurrentInvite'
  BY LiveSessionStep
<1> QED
  BY <1>1, <1>2, StoreTypeInvariant, PTL DEF StoreSpec

-----------------------------------------------------------------------------
(* The ledger of turns *)

IsNewest(r, n) == n \in RunsOf(r) /\ \A m \in RunsOf(r) : m <= n

\* Numbers are given out in their order.
NumbersInOrder ==
  \A m, n \in RunIds : m < n /\ run[m].status = "absent" => run[n].status = "absent"

\* A room that has had a turn has its latest: a trim never takes it.
NewestStays == \A r \in Rooms : RunsOf(r) # {} => \E n \in RunsOf(r) : IsNewest(r, n)

\* A room's turns come one after the other, so an open run is its latest.
OpenIsNewest == \A n \in RunIds : Open(n) => IsNewest(run[n].room, n)

LedgerInv == StoreTypeOK /\ NumbersInOrder /\ NewestStays /\ OpenIsNewest

\* A step that leaves the runs of every other room.
OtherRunsStay(r0) ==
  \A r \in Rooms \ {r0} : RunsOf(r)' = RunsOf(r) /\ \A m \in RunsOf(r) : run'[m] = run[m]

\* What a row tells of its turn.
TurnOf(n) ==
  [outcome |-> IF Open(n) THEN "ongoing" ELSE run[n].status,
   id |-> n, text |-> run[n].text, said |-> run[n].partial]

\* There is one newest run at most, and it is the latest turn.
LEMMA LatestTurnFacts ==
  ASSUME NEW r \in Rooms
  PROVE  /\ RunsOf(r) = {} => LatestTurn(r) = [outcome |-> "none"]
         /\ \A n : IsNewest(r, n) => LatestTurn(r) = TurnOf(n)
<1>1. RunsOf(r) \subseteq Int
  BY BoundsAssumption DEF RunsOf, RunIds
<1>2. ASSUME NEW n, IsNewest(r, n) PROVE LatestTurn(r) = TurnOf(n)
  <2>1. n \in RunsOf(r) /\ RunsOf(r) # {} /\ \A m \in RunsOf(r) : m <= n
    BY <1>2 DEF IsNewest
  <2>2. ASSUME NEW k \in RunsOf(r), \A m \in RunsOf(r) : m <= k PROVE k = n
    BY <1>1, <2>1, <2>2
  <2>3. (CHOOSE k \in RunsOf(r) : \A m \in RunsOf(r) : m <= k) = n
    BY <2>1, <2>2
  <2> QED
    BY <2>1, <2>3, Zenon DEF LatestTurn, TurnOf
<1> QED
  BY <1>2 DEF LatestTurn

\* The same of the next state.
LEMMA LatestTurnNext ==
  ASSUME NEW r \in Rooms
  PROVE  /\ RunsOf(r)' = {} => LatestTurn(r)' = [outcome |-> "none"]
         /\ \A n : IsNewest(r, n)' => LatestTurn(r)' = TurnOf(n)'
<1>1. RunsOf(r)' \subseteq Int
  BY BoundsAssumption DEF RunsOf, RunIds
<1>2. ASSUME NEW n, IsNewest(r, n)' PROVE LatestTurn(r)' = TurnOf(n)'
  <2>1. n \in RunsOf(r)' /\ RunsOf(r)' # {} /\ \A m \in RunsOf(r)' : m <= n
    BY <1>2 DEF IsNewest
  <2>2. ASSUME NEW k \in RunsOf(r)', \A m \in RunsOf(r)' : m <= k PROVE k = n
    BY <1>1, <2>1, <2>2
  <2>3. (CHOOSE k \in RunsOf(r)' : \A m \in RunsOf(r)' : m <= k) = n
    BY <2>1, <2>2
  <2> QED
    BY <2>1, <2>3, Zenon DEF LatestTurn, TurnOf
<1> QED
  BY <1>2 DEF LatestTurn

\* A room whose rows stay has the same latest turn.
LEMMA SameTurn ==
  ASSUME LedgerInv, NEW r \in Rooms, RunsOf(r)' = RunsOf(r),
         \A n \in RunsOf(r) : run'[n] = run[n]
  PROVE  LatestTurn(r)' = LatestTurn(r)
<1>1. CASE RunsOf(r) = {}
  BY <1>1, LatestTurnFacts, LatestTurnNext
<1>2. ASSUME NEW n \in RunsOf(r), IsNewest(r, n) PROVE LatestTurn(r)' = LatestTurn(r)
  <2>1. IsNewest(r, n)'
    BY <1>2 DEF IsNewest
  <2>2. TurnOf(n)' = TurnOf(n)
    BY <1>2 DEF TurnOf, Open
  <2> QED
    BY <1>2, <2>1, <2>2, LatestTurnFacts, LatestTurnNext
<1> QED
  BY <1>1, <1>2 DEF LedgerInv, NewestStays

\* A step that writes only status s into the rows F.
LEMMA StatusesWritten ==
  ASSUME StoreTypeOK, NEW F \in SUBSET RunIds, \A n \in F : HasRow(n), NEW s \in RowStatuses,
         run' = [n \in RunIds |-> IF n \in F THEN [run[n] EXCEPT !.status = s] ELSE run[n]]
  PROVE  /\ \A r \in Rooms : RunsOf(r)' = RunsOf(r)
         /\ \A n \in RunIds : (run'[n].status = "absent") <=> (run[n].status = "absent")
         /\ \A n \in F : /\ run'[n].status = s /\ run'[n].room = run[n].room
                         /\ run'[n].text = run[n].text /\ run'[n].partial = run[n].partial
         /\ \A n \in RunIds \ F : run'[n] = run[n]
<1>1. ASSUME NEW n \in F
      PROVE  /\ run'[n].status = s /\ run'[n].room = run[n].room
             /\ run'[n].text = run[n].text /\ run'[n].partial = run[n].partial
  <2>1. run[n] \in RunRow
    BY <1>1, RowColumns
  <2> QED
    BY <2>1 DEF RunRow
<1>2. \A n \in RunIds \ F : run'[n] = run[n]
  OBVIOUS
<1>3. s # "absent" /\ "absent" \notin RowStatuses
  BY DEF RowStatuses, OpenStatuses, TerminalStatuses
<1>4. ASSUME NEW r \in Rooms PROVE RunsOf(r)' = RunsOf(r)
  BY <1>1, <1>2 DEF RunsOf, HasRow
<1> QED
  BY <1>1, <1>2, <1>3, <1>4 DEF HasRow

\* A finish trims no newest run: what it keeps of its room's runs has the one it ends.
LEMMA FinishedRows ==
  ASSUME LedgerInv, NEW n \in RunIds, NEW terminal \in {"completed", "failed"},
         FinishRun(n, terminal), NEW r0 \in Rooms, run[n].room = r0
  PROVE  /\ IsNewest(r0, n) /\ Open(n)
         /\ run'[n] = [run[n] EXCEPT !.status = terminal]
         /\ OtherRunsStay(r0)
         /\ RunsOf(r0)' \subseteq RunsOf(r0)
         /\ n \in RunsOf(r0)'
         /\ \A m \in RunIds : (run'[m].status = "absent") <=> (run[m].status = "absent")
<1>1. Open(n) /\ HasRow(n) /\ IsNewest(r0, n)
  BY FinishRunFacts DEF FinishRun, LedgerInv, OpenIsNewest
<1>2. run' = [m \in RunIds |-> IF m \in RunsTrimmed(r0) THEN NoRun("trimmed")
                               ELSE IF m = n THEN [run[m] EXCEPT !.status = terminal] ELSE run[m]]
  BY DEF FinishRun
<1>3. n \notin RunsTrimmed(r0)
  <2>1. n \in RunsOf(r0) /\ \A m \in RunsOf(r0) : m <= n
    BY <1>1 DEF IsNewest
  <2>2. RunsOf(r0) \subseteq Int /\ n \in Int
    BY BoundsAssumption DEF RunsOf, RunIds
  <2>3. {m \in RunsOf(r0) : m > n} = {}
    BY <2>1, <2>2
  <2>4. Cardinality({m \in RunsOf(r0) : m > n}) = 0
    BY <2>3, FS_EmptySet
  <2> QED
    BY <2>4, LimitsAssumption DEF RunsTrimmed
<1>4. run'[n] = [run[n] EXCEPT !.status = terminal]
  BY <1>2, <1>3
<1>5. /\ run'[n].status = terminal /\ run'[n].room = r0 /\ terminal \in RowStatuses
  BY <1>1, <1>4, RowWithStatus DEF LedgerInv, RowStatuses, TerminalStatuses
<1>6. /\ NoRun("trimmed").status = "trimmed"
      /\ "trimmed" \notin RowStatuses /\ "absent" \notin RowStatuses
  BY DEF NoRun, RowStatuses, OpenStatuses, TerminalStatuses
<1>7. \A m \in RunsTrimmed(r0) : HasRow(m) /\ run[m].room = r0 /\ run'[m] = NoRun("trimmed")
  BY <1>2 DEF RunsTrimmed, RunsOf
<1>8. \A m \in RunIds : m \notin RunsTrimmed(r0) /\ m # n => run'[m] = run[m]
  BY <1>2
<1>9. ASSUME NEW r \in Rooms \ {r0}
      PROVE  RunsOf(r)' = RunsOf(r) /\ \A m \in RunsOf(r) : run'[m] = run[m]
  <2>1. \A m \in RunIds : run[m].room = r => run'[m] = run[m] \/ ~HasRow(m)
    BY <1>7, <1>8, <1>9
  <2>2. \A m \in RunIds : HasRow(m)' /\ run'[m].room = r => run'[m] = run[m]
    BY <1>5, <1>6, <1>7, <1>8, <1>9 DEF HasRow
  <2> QED
    BY <2>1, <2>2 DEF RunsOf, HasRow
<1>10. RunsOf(r0)' \subseteq RunsOf(r0) /\ n \in RunsOf(r0)'
  <2>1. \A m \in RunIds : HasRow(m)' /\ run'[m].room = r0 => HasRow(m) /\ run[m].room = r0
    BY <1>1, <1>6, <1>7, <1>8 DEF HasRow
  <2>2. HasRow(n)'
    BY <1>5 DEF HasRow
  <2> QED
    BY <1>5, <2>1, <2>2 DEF RunsOf
<1>11. \A m \in RunIds : (run'[m].status = "absent") <=> (run[m].status = "absent")
  BY <1>1, <1>5, <1>6, <1>7, <1>8 DEF HasRow
<1> QED
  BY <1>1, <1>4, <1>9, <1>10, <1>11 DEF OtherRunsStay

\* How a stop and a recovery write the statuses of runs that are open.
LEMMA StoppedRows ==
  ASSUME LedgerInv, Settles,
         \A n \in RunIds, terminal \in {"completed", "failed"} : ~FinishRun(n, terminal)
  PROVE  \E F \in SUBSET {n \in RunIds : Open(n)}, s \in {"canceled", "failed"} :
           run' = [n \in RunIds |-> IF n \in F THEN [run[n] EXCEPT !.status = s] ELSE run[n]]
<1>1. ASSUME NEW n \in RunIds, StopRun(n) \/ StopRunTorn(n)
      PROVE  /\ {n} \subseteq {m \in RunIds : Open(m)}
             /\ run' = [m \in RunIds |-> IF m \in {n} THEN [run[m] EXCEPT !.status = "canceled"]
                                        ELSE run[m]]
  BY <1>1 DEF StopRun, StopRunTorn, LedgerInv, StoreTypeOK, ColumnsOK
<1>2. ASSUME NEW w \in BOOLEAN, NEW S \in SUBSET RunIds,
             RecoverRunning(w) \/ RecoverRunningTorn(w, S)
      PROVE  \E F \in SUBSET {n \in RunIds : Open(n)} : run' = RunsFailed(F)
  BY <1>2 DEF RecoverRunning, RecoverRunningTorn
<1> QED
  BY <1>1, <1>2 DEF Settles, RunsFailed

\* A new run has the next number, above those of all rows, and its room has no open one.
LEMMA AppendedRows ==
  ASSUME LedgerInv, NEW r \in Rooms, NEW n \in RunIds, NEW k \in Keys \cup {NoKey}, NEW t \in Texts,
         AppendUserTurn(r, n, k, t)
  PROVE  /\ run'[n] = [status |-> "running", room |-> r, key |-> k, text |-> t, partial |-> 0]
         /\ \A m \in RunIds \ {n} : run'[m] = run[m]
         /\ \A m \in RunIds : HasRow(m) => m < n
         /\ \A m \in RunIds : m < n => run[m].status # "absent"
         /\ \A m \in RunsOf(r) : ~Open(m)
         /\ RunsOf(r)' = RunsOf(r) \cup {n}
         /\ \A q \in Rooms \ {r} : RunsOf(q)' = RunsOf(q)
<1>1. /\ run'[n] = [status |-> "running", room |-> r, key |-> k, text |-> t, partial |-> 0]
      /\ \A m \in RunIds \ {n} : run'[m] = run[m]
  BY DEF AppendUserTurn, LedgerInv, StoreTypeOK, ColumnsOK
<1>2. run[n].status = "absent" /\ ~HasRow(n)
  BY DEF AppendUserTurn, HasRow, RowStatuses, OpenStatuses, TerminalStatuses
<1>3. ASSUME NEW m \in RunIds, HasRow(m) PROVE m < n
  <2>1. run[m].status # "absent"
    BY <1>3 DEF HasRow, RowStatuses, OpenStatuses, TerminalStatuses
  <2>2. ~(n < m) /\ m # n /\ m \in Int /\ n \in Int
    BY <1>2, <2>1, BoundsAssumption DEF LedgerInv, NumbersInOrder, RunIds
  <2> QED
    BY <2>2
<1>4. /\ \A m \in RunIds : m < n => run[m].status # "absent"
      /\ \A m \in RunsOf(r) : ~Open(m)
  BY DEF AppendUserTurn, OpenRunsOf
<1>5. HasRow(n)' /\ run'[n].room = r
  BY <1>1 DEF HasRow, RowStatuses, OpenStatuses
<1>6. \A q \in Rooms : RunsOf(q)' = IF q = r THEN RunsOf(r) \cup {n} ELSE RunsOf(q)
  BY <1>1, <1>2, <1>5 DEF RunsOf, HasRow
<1> QED
  BY <1>1, <1>3, <1>4, <1>6

\* The inductive step. No settled row is written back, and only an append adds one, with a
\* number above those of all others.
LEMMA LedgerInvStep ==
  ASSUME LedgerInv, [StoreNext]_storeVars
  PROVE  LedgerInv'
<1>1. StoreTypeOK'
  BY StoreTypeStep DEF LedgerInv
<1>2. ASSUME \A m \in RunIds : (run'[m].status = "absent") <=> (run[m].status = "absent"),
             \A m \in RunIds : Open(m)' => Open(m) /\ run'[m].room = run[m].room,
             \A r \in Rooms : RunsOf(r)' \subseteq RunsOf(r),
             \A r \in Rooms : \A n \in RunsOf(r) : IsNewest(r, n) => n \in RunsOf(r)'
      PROVE  NumbersInOrder' /\ NewestStays' /\ OpenIsNewest'
  <2>1. \A r \in Rooms : \A n \in RunsOf(r) : IsNewest(r, n) => IsNewest(r, n)'
    BY <1>2 DEF IsNewest
  <2>2. NumbersInOrder'
    BY <1>2 DEF LedgerInv, NumbersInOrder
  <2>3. NewestStays'
    BY <1>2, <2>1 DEF LedgerInv, NewestStays
  <2>4. \A m \in RunIds : Open(m) => run[m].room \in Rooms /\ m \in RunsOf(run[m].room)
    BY RowColumns DEF LedgerInv, Open, HasRow, RowStatuses, RunRow, RunsOf
  <2>5. OpenIsNewest'
    BY <1>2, <2>1, <2>4 DEF LedgerInv, OpenIsNewest
  <2> QED
    BY <2>2, <2>3, <2>5
<1>3. CASE Settles
  <2>1. \A m \in RunIds : Open(m)' => Open(m) /\ run'[m].room = run[m].room
    BY <1>3, SettledStaysSettled DEF LedgerInv
  <2>2. ASSUME NEW n \in RunIds, NEW terminal \in {"completed", "failed"}, FinishRun(n, terminal)
        PROVE  LedgerInv'
    <3> PICK r0 \in Rooms : run[n].room = r0
      BY <2>2, FinishRunFacts DEF LedgerInv
    <3>0. \A r \in Rooms : r = r0 \/ r \in Rooms \ {r0}
      OBVIOUS
    <3>1. \A r \in Rooms : \A m \in RunsOf(r) : IsNewest(r, m) => m \in RunsOf(r)'
      <4>1. ASSUME NEW m \in RunsOf(r0), IsNewest(r0, m) PROVE m = n
        <5>1. IsNewest(r0, n)
          BY <2>2, FinishedRows, Zenon
        <5>2. m <= n /\ n <= m /\ m \in Int /\ n \in Int
          BY <4>1, <5>1, BoundsAssumption DEF IsNewest, RunsOf, RunIds
        <5> QED
          BY <5>2
      <4>2. /\ n \in RunsOf(r0)'
            /\ \A r \in Rooms \ {r0} : RunsOf(r)' = RunsOf(r)
        BY <2>2, FinishedRows, Zenon DEF OtherRunsStay
      <4> QED
        BY <3>0, <4>1, <4>2, Zenon
    <3>2. /\ \A r \in Rooms : RunsOf(r)' \subseteq RunsOf(r)
          /\ \A m \in RunIds : (run'[m].status = "absent") <=> (run[m].status = "absent")
      <4>1. /\ \A r \in Rooms \ {r0} : RunsOf(r)' = RunsOf(r)
            /\ RunsOf(r0)' \subseteq RunsOf(r0)
            /\ \A m \in RunIds : (run'[m].status = "absent") <=> (run[m].status = "absent")
        BY <2>2, FinishedRows, Zenon DEF OtherRunsStay
      <4> QED
        BY <3>0, <4>1, Zenon
    <3>3. NumbersInOrder' /\ NewestStays' /\ OpenIsNewest'
      BY <1>2, <2>1, <3>1, <3>2, Zenon
    <3> QED
      BY <1>1, <3>3 DEF LedgerInv
  <2>3. ASSUME NEW F \in SUBSET {n \in RunIds : Open(n)}, NEW s \in {"canceled", "failed"},
               run' = [n \in RunIds |-> IF n \in F THEN [run[n] EXCEPT !.status = s] ELSE run[n]]
        PROVE  LedgerInv'
    <3>1. F \in SUBSET RunIds /\ (\A n \in F : HasRow(n)) /\ s \in RowStatuses
      BY <2>3 DEF Open, HasRow, RowStatuses, TerminalStatuses
    <3>2. /\ \A r \in Rooms : RunsOf(r)' = RunsOf(r)
          /\ \A n \in RunIds : (run'[n].status = "absent") <=> (run[n].status = "absent")
      BY <2>3, <3>1, StatusesWritten DEF LedgerInv
    <3> QED
      BY <1>1, <1>2, <2>1, <3>2 DEF LedgerInv
  <2> QED
    BY <1>3, <2>2, <2>3, StoppedRows
<1>4. CASE LeavesTurns
  <2>1. run' = run
    BY <1>4, LeavesTurnsFacts
  <2> QED
    BY <1>1, <1>2, <2>1 DEF LedgerInv, RunsOf, HasRow, Open
<1>5. CASE Streams
  <2>1. PICK n \in RunIds : AppendDelta(n)
    BY <1>5 DEF Streams
  <2>2. \A m \in RunIds : /\ run'[m].status = run[m].status
                          /\ HasRow(m) => run'[m].room = run[m].room
    BY <2>1, DeltaFacts DEF LedgerInv
  <2>3. \A m \in RunIds : (HasRow(m)' <=> HasRow(m)) /\ (Open(m)' <=> Open(m)) /\ (Open(m) => HasRow(m))
    BY <2>2 DEF HasRow, Open, RowStatuses
  <2>4. \A r \in Rooms : RunsOf(r)' = RunsOf(r)
    BY <2>2, <2>3 DEF RunsOf
  <2> QED
    BY <1>1, <1>2, <2>2, <2>3, <2>4 DEF LedgerInv
<1>6. CASE Appends
  <2>1. PICK r \in Rooms, n \in RunIds, k \in Keys \cup {NoKey}, t \in Texts :
          AppendUserTurn(r, n, k, t)
    BY <1>6 DEF Appends
  <2>2. /\ run'[n].room = r /\ run'[n].status # "absent"
        /\ \A m \in RunIds \ {n} : run'[m] = run[m]
        /\ \A m \in RunIds : HasRow(m) => m < n
        /\ \A m \in RunIds : m < n => run[m].status # "absent"
        /\ \A m \in RunsOf(r) : ~Open(m)
        /\ RunsOf(r)' = RunsOf(r) \cup {n}
        /\ \A q \in Rooms \ {r} : RunsOf(q)' = RunsOf(q)
    <3>1. /\ run'[n] = [status |-> "running", room |-> r, key |-> k, text |-> t, partial |-> 0]
          /\ \A m \in RunIds \ {n} : run'[m] = run[m]
      BY <2>1, AppendedRows, Zenon
    <3>2. run'[n].room = r /\ run'[n].status # "absent"
      BY <3>1
    <3> QED
      BY <2>1, <3>1, <3>2, AppendedRows, Zenon
  <2>3. IsNewest(r, n)'
    <3>1. \A m \in RunsOf(r) \cup {n} : m <= n
      BY <2>2, BoundsAssumption DEF RunsOf, RunIds
    <3> QED
      BY <2>2, <3>1 DEF IsNewest
  <2>4. \A q \in Rooms \ {r} : \A m \in RunsOf(q) : IsNewest(q, m) => IsNewest(q, m)'
    BY <2>2 DEF IsNewest
  <2>5. NumbersInOrder'
    <3>1. \A m \in RunIds : run'[m].status = "absent" => m # n /\ run[m].status = "absent"
      BY <2>2
    <3>2. ASSUME NEW m \in RunIds, NEW p \in RunIds, m < p, run'[m].status = "absent"
          PROVE  run'[p].status = "absent"
      <4>1. run[p].status = "absent" /\ ~(m < n) /\ m # n
        BY <2>2, <3>1, <3>2 DEF LedgerInv, NumbersInOrder
      <4>2. p # n
        BY <3>2, <4>1, BoundsAssumption DEF RunIds
      <4> QED
        BY <2>2, <4>1, <4>2
    <3> QED
      BY <3>2 DEF NumbersInOrder
  <2>6. NewestStays'
    BY <2>2, <2>3, <2>4 DEF LedgerInv, NewestStays
  <2>7. OpenIsNewest'
    <3>1. ASSUME NEW m \in RunIds \ {n}, Open(m)' PROVE IsNewest(run[m].room, m)'
      <4>1. Open(m) /\ run'[m] = run[m] /\ run[m].room \in Rooms
        BY <2>2, <3>1, RowColumns DEF LedgerInv, Open, HasRow, RowStatuses, RunRow
      <4>2. run[m].room # r
        BY <2>2, <4>1 DEF RunsOf, Open, HasRow, RowStatuses
      <4> QED
        <5>1. IsNewest(run[m].room, m) /\ m \in RunsOf(run[m].room)
          BY <4>1 DEF LedgerInv, OpenIsNewest, IsNewest
        <5>2. \A q \in Rooms \ {r} : IsNewest(q, m) => m \in RunsOf(q)' /\ \A p \in RunsOf(q)' : p <= m
          BY <2>2 DEF IsNewest
        <5> QED
          BY <4>1, <4>2, <5>1, <5>2 DEF IsNewest
    <3> QED
      BY <2>2, <2>3, <3>1 DEF OpenIsNewest
  <2> QED
    BY <1>1, <2>5, <2>6, <2>7 DEF LedgerInv
<1> QED
  BY <1>3, <1>4, <1>5, <1>6, StepKinds

\* What the ledger shows of a run that ends, in a room where nothing else moves.
LEMMA TurnEnds ==
  ASSUME LedgerInv, NEW r0 \in Rooms, NEW n \in RunIds, Open(n), IsNewest(r0, n), IsNewest(r0, n)',
         NEW s \in TerminalStatuses, run'[n] = [run[n] EXCEPT !.status = s],
         OtherRunsStay(r0)
  PROVE  /\ LatestTurn(r0) = [outcome |-> "ongoing", id |-> n, text |-> run[n].text,
                              said |-> run[n].partial]
         /\ LatestTurn(r0)' = [LatestTurn(r0) EXCEPT !.outcome = s]
         /\ \A r \in Rooms \ {r0} : LatestTurn(r)' = LatestTurn(r)
<1>1. LatestTurn(r0) = TurnOf(n) /\ LatestTurn(r0)' = TurnOf(n)'
  BY LatestTurnFacts, LatestTurnNext
<1>2. TurnOf(n) = [outcome |-> "ongoing", id |-> n, text |-> run[n].text, said |-> run[n].partial]
  BY DEF TurnOf
<1>3. /\ run'[n].status = s /\ run'[n].text = run[n].text /\ run'[n].partial = run[n].partial
      /\ s \notin OpenStatuses
  <2>1. run[n] \in RunRow
    BY RowColumns DEF LedgerInv, Open, HasRow, RowStatuses
  <2> QED
    BY <2>1 DEF RunRow, TerminalStatuses, OpenStatuses
<1>4. TurnOf(n)' = [outcome |-> s, id |-> n, text |-> run[n].text, said |-> run[n].partial]
  BY <1>3 DEF TurnOf, Open
<1> QED
  BY <1>1, <1>2, <1>4, SameTurn DEF OtherRunsStay

\* Ending a run makes no difference to whether its room takes turns.
LEMMA StandsKept ==
  ASSUME StoreTypeOK, Settles
  PROVE  \A r \in Rooms : RoomStands(r)' = RoomStands(r)
<1>1. ASSUME NEW n \in RunIds, HasRow(n), NEW s \in {"idle", "failed"},
             status' = RoomBecomes(run[n].room, s), NEW r \in Rooms
      PROVE  RoomStands(r)' = RoomStands(r)
  <2>1. run[n].room \in Rooms /\ status[run[n].room] # "absent"
    BY <1>1, RowColumns DEF StoreTypeOK, RowsHaveRooms, RunRow
  <2> QED
    BY <1>1, <2>1 DEF RoomBecomes, RoomStands, StoreTypeOK, ColumnsOK
<1>2. ASSUME NEW n \in RunIds, NEW terminal \in {"completed", "failed"}, FinishRun(n, terminal),
             NEW r \in Rooms
      PROVE  RoomStands(r)' = RoomStands(r)
  BY <1>1, <1>2 DEF FinishRun, Open, HasRow, RowStatuses
<1>3. ASSUME NEW n \in RunIds, StopRun(n), NEW r \in Rooms
      PROVE  RoomStands(r)' = RoomStands(r)
  BY <1>1, <1>3 DEF StopRun, Open, HasRow, RowStatuses
<1>4. ASSUME NEW w \in BOOLEAN, RecoverRunning(w), NEW r \in Rooms
      PROVE  RoomStands(r)' = RoomStands(r)
  BY <1>4 DEF RecoverRunning, RoomStands, StoreTypeOK, ColumnsOK
<1>5. ASSUME NEW n \in RunIds, StopRunTorn(n), NEW r \in Rooms
      PROVE  RoomStands(r)' = RoomStands(r)
  BY <1>5 DEF StopRunTorn, RoomStands
<1>6. ASSUME NEW w \in BOOLEAN, NEW S \in SUBSET RunIds, RecoverRunningTorn(w, S), NEW r \in Rooms
      PROVE  RoomStands(r)' = RoomStands(r)
  BY <1>6 DEF RecoverRunningTorn, RoomStands
<1> QED
  BY <1>2, <1>3, <1>4, <1>5, <1>6 DEF Settles

Standing == [r \in Rooms |-> RoomStands(r)]
Turns == [r \in Rooms |-> LatestTurn(r)]

LEMMA FinishIsLedgerStep ==
  ASSUME LedgerInv, NEW n \in RunIds, NEW terminal \in {"completed", "failed"}, FinishRun(n, terminal)
  PROVE  Ledger!LedgerNext
<1> PICK r0 \in Rooms : run[n].room = r0
  BY FinishRunFacts DEF LedgerInv
<1>1. /\ IsNewest(r0, n) /\ Open(n) /\ run'[n] = [run[n] EXCEPT !.status = terminal]
      /\ OtherRunsStay(r0)
      /\ RunsOf(r0)' \subseteq RunsOf(r0) /\ n \in RunsOf(r0)'
  BY FinishedRows, Zenon
<1>2. IsNewest(r0, n)' /\ terminal \in TerminalStatuses
  BY <1>1 DEF IsNewest, TerminalStatuses
<1>3. /\ LatestTurn(r0) = [outcome |-> "ongoing", id |-> n, text |-> run[n].text,
                           said |-> run[n].partial]
      /\ LatestTurn(r0)' = [LatestTurn(r0) EXCEPT !.outcome = terminal]
      /\ \A r \in Rooms \ {r0} : LatestTurn(r)' = LatestTurn(r)
  BY <1>1, <1>2, TurnEnds
<1>4. Turns' = [Turns EXCEPT ![r0].outcome = terminal] /\ Turns[r0] = LatestTurn(r0)
  BY <1>3 DEF Turns
<1>5. Standing' = Standing
  <2>1. Settles
    BY DEF Settles
  <2> QED
    BY <2>1, StandsKept DEF Standing, LedgerInv
<1>6. messages' = [messages EXCEPT ![r0] = Ledger!Kept(WithAnswer(n, terminal))]
  BY DEF FinishRun, Newest, Ledger!Kept
<1>7. Turns[r0].outcome = "ongoing" /\ Turns[r0].said = run[n].partial /\ Turns[r0].id = n
  BY <1>3, <1>4
<1>8. CASE terminal = "completed"
  <2>1. run[n].partial \in Nat
    BY <1>1, RowColumns, LimitsAssumption DEF LedgerInv, Open, HasRow, RowStatuses, RunRow
  <2>2. WithAnswer(n, terminal) = IF Turns[r0].said = 0 THEN messages[r0]
          ELSE Append(messages[r0],
                      [role |-> "assistant", text |-> Turns[r0].said, run |-> Turns[r0].id])
    BY <1>7, <1>8, <2>1 DEF WithAnswer
  <2>3. Ledger!Answers(r0)
    BY <1>4, <1>5, <1>6, <1>7, <1>8, <2>2
    DEF Ledger!Answers, Ledger!Answered, Ledger!Ongoing, Turns, Standing
  <2> QED
    BY <2>3 DEF Ledger!LedgerNext
<1>9. CASE terminal = "failed"
  <2>1. WithAnswer(n, terminal) = messages[r0]
    BY <1>9 DEF WithAnswer
  <2>2. Ledger!Fails(r0)
    BY <1>4, <1>5, <1>6, <1>7, <1>9, <2>1 DEF Ledger!Fails, Ledger!Ongoing, Turns, Standing
  <2> QED
    BY <2>2 DEF Ledger!LedgerNext
<1> QED
  BY <1>8, <1>9

\* A stop ends one room's turn, a recovery those of some rooms.
LEMMA StopIsLedgerStep ==
  ASSUME LedgerInv, NEW n \in RunIds, StopRun(n) \/ StopRunTorn(n)
  PROVE  Ledger!LedgerNext
<1>1. Open(n) /\ HasRow(n) /\ messages' = messages
      /\ run' = [m \in RunIds |-> IF m \in {n} THEN [run[m] EXCEPT !.status = "canceled"] ELSE run[m]]
  BY DEF StopRun, StopRunTorn, LedgerInv, StoreTypeOK, ColumnsOK, Open, HasRow, RowStatuses
<1> PICK r0 \in Rooms : run[n].room = r0
  BY <1>1, RowColumns DEF LedgerInv, RunRow
<1>2. /\ \A r \in Rooms : RunsOf(r)' = RunsOf(r)
      /\ \A m \in RunIds \ {n} : run'[m] = run[m]
  BY <1>1, StatusesWritten DEF LedgerInv, RowStatuses, TerminalStatuses
<1>3. IsNewest(r0, n) /\ IsNewest(r0, n)'
  BY <1>1, <1>2 DEF LedgerInv, OpenIsNewest, IsNewest
<1>4. run'[n] = [run[n] EXCEPT !.status = "canceled"] /\ "canceled" \in TerminalStatuses
  BY <1>1 DEF TerminalStatuses
<1>5. OtherRunsStay(r0)
  BY <1>2 DEF RunsOf, OtherRunsStay
<1>6. /\ LatestTurn(r0).outcome = "ongoing"
      /\ LatestTurn(r0)' = [LatestTurn(r0) EXCEPT !.outcome = "canceled"]
      /\ \A r \in Rooms \ {r0} : LatestTurn(r)' = LatestTurn(r)
  BY <1>1, <1>3, <1>4, <1>5, TurnEnds
<1>7. Turns' = [Turns EXCEPT ![r0].outcome = "canceled"] /\ Turns[r0] = LatestTurn(r0)
  BY <1>6 DEF Turns
<1>8. Standing' = Standing
  <2>1. Settles
    BY DEF Settles
  <2> QED
    BY <2>1, StandsKept DEF Standing, LedgerInv
<1>9. Ledger!Cancels(r0)
  BY <1>1, <1>6, <1>7, <1>8 DEF Ledger!Cancels, Ledger!Ongoing, Turns, Standing
<1> QED
  BY <1>9 DEF Ledger!LedgerNext

LEMMA RecoveryIsLedgerStep ==
  ASSUME LedgerInv, NEW w \in BOOLEAN, NEW S \in SUBSET RunIds,
         RecoverRunning(w) \/ RecoverRunningTorn(w, S)
  PROVE  Ledger!LedgerNext
<1>1. PICK F \in SUBSET {n \in RunIds : Open(n)} :
        run' = [n \in RunIds |-> IF n \in F THEN [run[n] EXCEPT !.status = "failed"] ELSE run[n]]
  BY DEF RecoverRunning, RecoverRunningTorn, RunsFailed
<1>2. F \subseteq RunIds /\ \A n \in F : Open(n) /\ HasRow(n) /\ run[n].room \in Rooms
  BY RowColumns DEF LedgerInv, Open, HasRow, RowStatuses, RunRow
<1>3. /\ \A r \in Rooms : RunsOf(r)' = RunsOf(r)
      /\ \A n \in F : /\ run'[n].status = "failed" /\ run'[n].room = run[n].room
                      /\ run'[n].text = run[n].text /\ run'[n].partial = run[n].partial
      /\ \A n \in RunIds \ F : run'[n] = run[n]
  BY <1>1, <1>2, StatusesWritten DEF LedgerInv, RowStatuses, TerminalStatuses
<1> DEFINE R == {run[n].room : n \in F}
<1>4. ASSUME NEW r \in R
      PROVE  LatestTurn(r).outcome = "ongoing"
             /\ LatestTurn(r)' = [LatestTurn(r) EXCEPT !.outcome = "failed"]
  <2>1. PICK n \in F : run[n].room = r
    OBVIOUS
  <2>2. r \in Rooms /\ IsNewest(r, n) /\ IsNewest(r, n)'
    BY <1>2, <1>3, <2>1 DEF LedgerInv, OpenIsNewest, IsNewest
  <2>3. LatestTurn(r) = TurnOf(n) /\ LatestTurn(r)' = TurnOf(n)'
    BY <2>2, LatestTurnFacts, LatestTurnNext
  <2>4. TurnOf(n) = [outcome |-> "ongoing", id |-> n, text |-> run[n].text, said |-> run[n].partial]
    BY <1>2 DEF TurnOf
  <2>5. TurnOf(n)' = [outcome |-> "failed", id |-> n, text |-> run[n].text, said |-> run[n].partial]
    BY <1>3 DEF TurnOf, Open, OpenStatuses
  <2> QED
    BY <2>3, <2>4, <2>5
<1>5. ASSUME NEW r \in Rooms \ R PROVE LatestTurn(r)' = LatestTurn(r)
  <2>1. \A n \in RunsOf(r) : run'[n] = run[n]
    BY <1>3, <1>5 DEF RunsOf
  <2> QED
    BY <1>3, <2>1, SameTurn
<1>6. R \in SUBSET Rooms
  BY <1>2
<1> HIDE DEF R
<1>7. /\ \A r \in R : Turns[r].outcome = "ongoing"
      /\ Turns' = [r \in Rooms |-> IF r \in R THEN [Turns[r] EXCEPT !.outcome = "failed"] ELSE Turns[r]]
  BY <1>4, <1>5, <1>6 DEF Turns
<1>8. Standing' = Standing /\ messages' = messages
  <2>1. Settles /\ messages' = messages
    BY DEF Settles, RecoverRunning, RecoverRunningTorn
  <2> QED
    BY <2>1, StandsKept DEF Standing, LedgerInv
<1>9. Ledger!Interrupts(R)
  BY <1>7, <1>8 DEF Ledger!Interrupts, Ledger!Ongoing, Turns, Standing
<1> QED
  BY <1>6, <1>9 DEF Ledger!LedgerNext

LEMMA AppendIsLedgerStep ==
  ASSUME LedgerInv, NEW r \in Rooms, NEW n \in RunIds, NEW k \in Keys \cup {NoKey}, NEW t \in Texts,
         AppendUserTurn(r, n, k, t)
  PROVE  Ledger!LedgerNext
<1>1. /\ run'[n] = [status |-> "running", room |-> r, key |-> k, text |-> t, partial |-> 0]
      /\ \A m \in RunIds \ {n} : run'[m] = run[m]
  BY AppendedRows, Zenon
<1>2. /\ \A m \in RunIds : HasRow(m) => m < n
      /\ \A m \in RunsOf(r) : ~Open(m)
      /\ RunsOf(r)' = RunsOf(r) \cup {n}
      /\ \A q \in Rooms \ {r} : RunsOf(q)' = RunsOf(q)
  BY AppendedRows, Zenon
<1>3. IsNewest(r, n)'
  <2>1. \A m \in RunsOf(r) \cup {n} : m <= n
    BY <1>2, BoundsAssumption DEF RunsOf, RunIds
  <2> QED
    BY <1>2, <2>1 DEF IsNewest
<1>4. LatestTurn(r)' = [outcome |-> "ongoing", id |-> n, text |-> t, said |-> 0]
  <2>1. TurnOf(n)' = [outcome |-> "ongoing", id |-> n, text |-> t, said |-> 0]
    BY <1>1 DEF TurnOf, Open, OpenStatuses
  <2> QED
    BY <1>3, <2>1, LatestTurnNext
<1>5. \A q \in Rooms \ {r} : LatestTurn(q)' = LatestTurn(q)
  <2>1. \A q \in Rooms : \A m \in RunsOf(q) : run'[m] = run[m]
    BY <1>1, <1>2, BoundsAssumption DEF RunsOf, RunIds
  <2> QED
    BY <1>2, <2>1, SameTurn
<1>6. Turns' = [Turns EXCEPT ![r] = [outcome |-> "ongoing", id |-> n, text |-> t, said |-> 0]]
  BY <1>4, <1>5 DEF Turns
<1>7. /\ Turns[r].outcome # "ongoing"
      /\ Turns[r] # [outcome |-> "none"] => Turns[r].id < n
  <2>1. CASE RunsOf(r) = {}
    BY <2>1, LatestTurnFacts DEF Turns
  <2>2. ASSUME NEW m \in RunsOf(r), IsNewest(r, m)
        PROVE  Turns[r].outcome # "ongoing" /\ Turns[r].id < n
    <3>1. Turns[r] = TurnOf(m) /\ ~Open(m) /\ HasRow(m) /\ m < n
      BY <1>2, <2>2, LatestTurnFacts DEF Turns, RunsOf
    <3> QED
      BY <3>1 DEF TurnOf, HasRow, RowStatuses, OpenStatuses, TerminalStatuses
  <2> QED
    BY <2>1, <2>2 DEF LedgerInv, NewestStays
<1>8. Standing[r] = "open" /\ Standing' = Standing
  BY DEF AppendUserTurn, Standing, RoomStands, LedgerInv, StoreTypeOK, ColumnsOK
<1>9. messages' = [messages EXCEPT ![r] =
                     Append(messages[r], [role |-> "user", text |-> t, run |-> n])]
  BY DEF AppendUserTurn
<1>10. Ledger!Asks(r, n, t)
  BY <1>6, <1>7, <1>8, <1>9 DEF Ledger!Asks, Ledger!Ongoing, Ledger!NoTurn, Turns, Standing
<1> QED
  BY <1>10 DEF Ledger!LedgerNext

LEMMA DeltaIsLedgerStep ==
  ASSUME LedgerInv, NEW n \in RunIds, AppendDelta(n)
  PROVE  Ledger!LedgerNext
<1>1. Open(n) /\ HasRow(n) /\ run[n] \in RunRow /\ run[n].partial < MaxPartial
  BY RowColumns DEF AppendDelta, LedgerInv, Open, HasRow, RowStatuses, OpenStatuses
<1> PICK r0 \in Rooms : run[n].room = r0
  BY <1>1 DEF RunRow
<1>2. /\ run'[n] = [run[n] EXCEPT !.partial = run[n].partial + 1]
      /\ \A m \in RunIds \ {n} : run'[m] = run[m]
  BY DEF AppendDelta, LedgerInv, StoreTypeOK, ColumnsOK
<1>3. /\ run'[n].status = run[n].status /\ run'[n].room = r0 /\ run'[n].text = run[n].text
      /\ run'[n].partial = run[n].partial + 1
  BY <1>1, <1>2 DEF RunRow
<1>4. \A r \in Rooms : RunsOf(r)' = RunsOf(r)
  BY <1>1, <1>2, <1>3 DEF RunsOf, HasRow
<1>5. IsNewest(r0, n) /\ IsNewest(r0, n)'
  BY <1>1, <1>4 DEF LedgerInv, OpenIsNewest, IsNewest
<1>6. /\ LatestTurn(r0) = [outcome |-> "ongoing", id |-> n, text |-> run[n].text,
                           said |-> run[n].partial]
      /\ LatestTurn(r0)' = [outcome |-> "ongoing", id |-> n, text |-> run[n].text,
                            said |-> run[n].partial + 1]
  <2>1. TurnOf(n) = [outcome |-> "ongoing", id |-> n, text |-> run[n].text, said |-> run[n].partial]
    BY <1>1 DEF TurnOf
  <2>2. TurnOf(n)' = [outcome |-> "ongoing", id |-> n, text |-> run[n].text,
                      said |-> run[n].partial + 1]
    BY <1>1, <1>3 DEF TurnOf, Open
  <2> QED
    BY <1>5, <2>1, <2>2, LatestTurnFacts, LatestTurnNext
<1>7. \A r \in Rooms \ {r0} : LatestTurn(r)' = LatestTurn(r)
  <2>1. \A r \in Rooms \ {r0} : \A m \in RunsOf(r) : run'[m] = run[m]
    BY <1>2 DEF RunsOf
  <2> QED
    BY <1>4, <2>1, SameTurn
<1>8. /\ Turns[r0] = LatestTurn(r0)
      /\ Turns[r0].outcome = "ongoing" /\ Turns[r0].said = run[n].partial
      /\ Turns' = [Turns EXCEPT ![r0].said = run[n].partial + 1]
  <2>1. LatestTurn(r0)' = [LatestTurn(r0) EXCEPT !.said = run[n].partial + 1]
    BY <1>6
  <2>2. /\ Turns[r0] = LatestTurn(r0) /\ LatestTurn(r0).outcome = "ongoing"
        /\ LatestTurn(r0).said = run[n].partial
    BY <1>6 DEF Turns
  <2>3. Turns' = [Turns EXCEPT ![r0] = [LatestTurn(r0) EXCEPT !.said = run[n].partial + 1]]
    BY <1>7, <2>1 DEF Turns
  <2> QED
    BY <2>2, <2>3
<1>9. Standing' = Standing /\ messages' = messages
  BY DEF AppendDelta, Standing, RoomStands
<1>10. Ledger!Says(r0)
  BY <1>1, <1>8, <1>9 DEF Ledger!Says, Ledger!Ongoing, Turns, Standing
<1> QED
  BY <1>10 DEF Ledger!LedgerNext

\* Beside the turns only a creation and a close show.
LEMMA RoomIsLedgerStep ==
  ASSUME LedgerInv, LeavesTurns
  PROVE  [Ledger!LedgerNext]_(Ledger!ledgerVars)
<1>1. Turns' = Turns /\ messages' = messages
  <2>1. run' = run /\ messages' = messages
    BY LeavesTurnsFacts
  <2>2. \A r \in Rooms : RunsOf(r)' = RunsOf(r) /\ \A n \in RunsOf(r) : run'[n] = run[n]
    BY <2>1 DEF RunsOf, HasRow
  <2> QED
    BY <2>1, <2>2, SameTurn DEF Turns
<1>2. ASSUME NEW r \in Rooms, CreateRoom(r) PROVE Ledger!Opens(r)
  <2>1. Standing[r] = "absent" /\ Standing' = [Standing EXCEPT ![r] = "open"]
    BY <1>2 DEF CreateRoom, Standing, RoomStands, LedgerInv, StoreTypeOK, ColumnsOK
  <2> QED
    BY <1>1, <2>1 DEF Ledger!Opens, Standing, Turns
<1>3. ASSUME NEW r \in Rooms, CloseRoom(r) \/ CloseRoomTorn(r) PROVE Ledger!Closes(r)
  <2>1. Standing[r] = "open" /\ Standing' = [Standing EXCEPT ![r] = "closed"]
    BY <1>3 DEF CloseRoom, CloseRoomTorn, Standing, RoomStands, LedgerInv, StoreTypeOK, ColumnsOK
  <2> QED
    BY <1>1, <2>1 DEF Ledger!Closes, Standing, Turns
<1>4. ASSUME status' = status PROVE UNCHANGED Ledger!ledgerVars
  BY <1>1, <1>4 DEF Ledger!ledgerVars, Standing, Turns, RoomStands
<1>5. \/ \E r \in Rooms : CreateRoom(r) \/ CloseRoom(r) \/ CloseRoomTorn(r)
      \/ status' = status
  BY DEF LeavesTurns, IssueInvite, RevokeInvite, RevokeInviteTorn, ExchangeInvite, Tick, storeVars
<1> QED
  BY <1>2, <1>3, <1>4, <1>5 DEF Ledger!LedgerNext

LEMMA LedgerInitially ==
  ASSUME StoreInit PROVE LedgerInv /\ Ledger!LedgerInit
<1>1. StoreTypeOK
  BY StoreTypeInit
<1>2. \A n \in RunIds : run[n].status = "absent" /\ ~HasRow(n) /\ ~Open(n)
  BY DEF StoreInit, NoRun, HasRow, Open, RowStatuses, OpenStatuses, TerminalStatuses
<1>3. \A r \in Rooms : RunsOf(r) = {}
  BY <1>2 DEF RunsOf
<1>4. \A r \in Rooms : LatestTurn(r) = [outcome |-> "none"] /\ RoomStands(r) = "absent"
  BY <1>3, LatestTurnFacts DEF StoreInit, RoomStands
<1>5. messages = [r \in Rooms |-> <<>>]
  BY DEF StoreInit
<1>6. Ledger!LedgerInit
  BY <1>4, <1>5 DEF Ledger!LedgerInit, Ledger!NoTurn
<1> QED
  BY <1>1, <1>2, <1>3, <1>6 DEF LedgerInv, NumbersInOrder, NewestStays, OpenIsNewest

\* The store implements the ledger of turns: whatever mix of turns, stops, closes, trims, torn
\* operations and restarts it has been through, each room is asked one turn at a time, and
\* each turn ends once, answered in full right behind its prompt or dropped.
THEOREM StoreKeepsLedger == StoreSpec => KeepsLedger
<1>1. StoreInit => LedgerInv /\ Ledger!LedgerInit
  BY LedgerInitially
<1>2. LedgerInv /\ [StoreNext]_storeVars => LedgerInv'
  BY LedgerInvStep
<1>3. LedgerInv /\ [StoreNext]_storeVars => [Ledger!LedgerNext]_(Ledger!ledgerVars)
  <2> SUFFICES ASSUME LedgerInv, [StoreNext]_storeVars
               PROVE  [Ledger!LedgerNext]_(Ledger!ledgerVars)
    OBVIOUS
  <2>1. CASE Settles
    BY <2>1, FinishIsLedgerStep, StopIsLedgerStep, RecoveryIsLedgerStep DEF Settles
  <2>2. CASE LeavesTurns
    BY <2>2, RoomIsLedgerStep
  <2>3. CASE Appends
    BY <2>3, AppendIsLedgerStep DEF Appends
  <2>4. CASE Streams
    BY <2>4, DeltaIsLedgerStep DEF Streams
  <2> QED
    BY <2>1, <2>2, <2>3, <2>4, StepKinds
<1> QED
  BY <1>1, <1>2, <1>3, PTL DEF StoreSpec, KeepsLedger, Ledger!LedgerSpec
================================================================================
