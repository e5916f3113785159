------------------------------- MODULE RoomStore -------------------------------
(***************************************************************************)
(* The durable state of Rooms (backend/src/store.rs): rooms, their runs,   *)
(* messages, invites and guest sessions in one SQLite database behind one  *)
(* mutex.  Every operation of RoomStore is one action, because it runs     *)
(* under the connection's lock; an operation made of several autocommit    *)
(* statements also has a torn variant, in which an I/O error or a crash    *)
(* stops it between two of them (constant Faults).                         *)
(*                                                                         *)
(* Row ids are numbered in the order in which rows are created, which      *)
(* stands for ORDER BY created_at.  Texts are model values; a streamed     *)
(* answer is the number of deltas it is made of.                           *)
(***************************************************************************)
EXTENDS Integers, Sequences, FiniteSets

CONSTANTS
  Rooms,            \* room ids that may be created
  Guests,           \* guest participants that may join (each holds one session)
  Keys,             \* idempotency keys
  NoKey,            \* a turn submitted without a key
  Texts,            \* prompts
  MaxRuns,          \* bound: runs created over a behaviour
  MaxInvites,       \* bound: invites issued per room
  MaxNow,           \* bound: ticks of the clock
  MaxParticipants,  \* limits::MAX_PARTICIPANTS
  MaxHistory,       \* limits::MAX_HISTORY_MESSAGES
  MaxRetained,      \* limits::MAX_RETAINED_RUNS
  MaxPartial,       \* limits::MAX_MESSAGE_CHARS, in deltas
  InviteTTL,        \* limits::INVITE_TTL_SECS, in ticks
  SessionTTL,       \* limits::SESSION_TTL_SECS, in ticks
  Faults            \* TRUE: operations may stop between two statements

ASSUME BoundsAssumption ==
  /\ MaxRuns \in Nat /\ MaxInvites \in Nat /\ MaxNow \in Nat
ASSUME LimitsAssumption ==
  /\ MaxParticipants \in Nat \ {0}
  /\ MaxHistory \in Nat \ {0}
  /\ MaxRetained \in Nat \ {0}
  /\ MaxPartial \in Nat
  /\ InviteTTL \in Nat /\ SessionTTL \in Nat
ASSUME NamesAssumption ==
  /\ NoKey \notin Keys
  /\ Faults \in BOOLEAN
  /\ IsFiniteSet(Guests)

VARIABLES
  now,       \* the wall clock
  writable,  \* this process may seal, so it may store content
  status,    \* rooms.status
  online,    \* room_participants.online of the room's host
  invite,    \* room_invites: at most one row per room
  guest,     \* room_participants of role guest, each with its room_sessions row
  run,       \* room_runs
  messages,  \* room_messages, per room, oldest first
  torn       \* history: what a torn operation has left inconsistent in a room

storeVars == <<now, writable, status, online, invite, guest, run, messages, torn>>

-----------------------------------------------------------------------------
(* Rows *)

RunIds == 1..MaxRuns
OpenStatuses == {"queued", "running"}
TerminalStatuses == {"completed", "failed", "canceled"}
RowStatuses == OpenStatuses \cup TerminalStatuses

\* A run is absent before its row is inserted and trimmed after it is deleted.
RunRow == [status: RowStatuses, room: Rooms, key: Keys \cup {NoKey},
           text: Texts, partial: 0..MaxPartial]
NoRun(s) == [status |-> s]
RunCell == RunRow \cup [status: {"absent", "trimmed"}]

\* run is auxiliary: it records which run the message belongs to.
Message == [role: {"user"}, text: Texts, run: RunIds]
             \cup [role: {"assistant"}, text: 1..MaxPartial, run: RunIds]

\* via is auxiliary: it records which invite of the room the guest exchanged.
GuestRow == [state: {"joined"}, room: Rooms, via: 1..MaxInvites,
             expires: Nat, revoked: BOOLEAN, online: BOOLEAN]
NoGuest(s) == [state |-> s]
GuestCell == GuestRow \cup [state: {"absent", "removed"}]

InviteRow == [secret: 0..MaxInvites, expires: Nat, revoked: BOOLEAN]

RoomStatuses == {"idle", "running", "failed", "closed"}

-----------------------------------------------------------------------------
(* Queries *)

HasRow(n) == run[n].status \in RowStatuses
Open(n) == run[n].status \in OpenStatuses
RunsOf(r) == {n \in RunIds : HasRow(n) /\ run[n].room = r}

\* Mutant: the busy check counts only queued rows.
OpenRunsOf_QueuedOnly(r) == {n \in RunsOf(r) : run[n].status = "queued"}

OpenRunsOf(r) == {n \in RunsOf(r) : Open(n)}

RunWithKey(r, k) == {n \in RunsOf(r) : k # NoKey /\ run[n].key = k}

\* The newest run that is queued, running or failed; 0 when there is none.
CurrentRun(r) ==
  LET shown == {n \in RunsOf(r) : run[n].status \in OpenStatuses \cup {"failed"}}
  IN IF shown = {} THEN 0 ELSE CHOOSE n \in shown : \A m \in shown : m <= n

FutureTimestamp(t) == t > now

Joined(r) == {g \in Guests : guest[g].state = "joined" /\ guest[g].room = r}
LiveSession(g) ==
  /\ guest[g].state = "joined"
  /\ ~guest[g].revoked
  /\ FutureTimestamp(guest[g].expires)
LiveGuests(r) == {g \in Joined(r) : LiveSession(g)}

\* The newest n elements of a table in insertion order.
Newest(s, n) == IF Len(s) <= n THEN s ELSE SubSeq(s, Len(s) - n + 1, Len(s))

LoadMessages(r) == Newest(messages[r], MaxHistory)

-----------------------------------------------------------------------------
(* Rooms, invites and sessions *)

CreateRoom(r) ==
  /\ writable
  /\ status[r] = "absent"
  /\ MaxInvites > 0
  /\ status' = [status EXCEPT ![r] = "idle"]
  /\ online' = [online EXCEPT ![r] = TRUE]
  /\ invite' = [invite EXCEPT ![r] =
                  [secret |-> 1, expires |-> now + InviteTTL, revoked |-> FALSE]]
  /\ UNCHANGED <<now, writable, guest, run, messages, torn>>

InviteUsable(r) ==
  /\ status[r] \notin {"absent", "closed"}
  /\ ~invite[r].revoked
  /\ FutureTimestamp(invite[r].expires)

\* Mutant: the host is not counted.
RoomFull_GuestsOnly(r) == Cardinality(LiveGuests(r)) >= MaxParticipants

\* The host always counts as live.
RoomFull(r) == Cardinality(LiveGuests(r)) + 1 >= MaxParticipants

ExchangeInvite(r, g) ==
  /\ writable
  /\ guest[g].state = "absent"
  /\ InviteUsable(r)
  /\ ~RoomFull(r)
  /\ guest' = [guest EXCEPT ![g] =
                 [state |-> "joined", room |-> r, via |-> invite[r].secret,
                  expires |-> now + SessionTTL, revoked |-> FALSE, online |-> TRUE]]
  /\ UNCHANGED <<now, writable, status, online, invite, run, messages, torn>>

\* UPDATE room_sessions SET revoked_at ... WHERE room_id = r
SessionsRevoked(r) ==
  [g \in Guests |-> IF g \in Joined(r) THEN [guest[g] EXCEPT !.revoked = TRUE] ELSE guest[g]]

\* Mutant: rotation and revocation leave the guests of the old invite.
GuestsDeleted_Kept(r) == guest

\* DELETE FROM room_participants WHERE role = 'guest'; sessions cascade.
GuestsDeleted(r) ==
  [g \in Guests |-> IF g \in Joined(r) THEN NoGuest("removed") ELSE guest[g]]

\* One transaction: a new secret, every guest of the old one dropped.
IssueInvite(r) ==
  /\ status[r] \notin {"absent", "closed"}
  /\ invite[r].secret < MaxInvites
  /\ invite' = [invite EXCEPT ![r] =
                  [secret |-> @.secret + 1, expires |-> now + InviteTTL, revoked |-> FALSE]]
  /\ guest' = GuestsDeleted(r)
  /\ torn' = [torn EXCEPT ![r] = @ \ {"access"}]
  /\ UNCHANGED <<now, writable, status, online, run, messages>>

RevokeInvite(r) ==
  /\ status[r] # "absent"
  /\ ~invite[r].revoked
  /\ invite' = [invite EXCEPT ![r].revoked = TRUE]
  /\ guest' = GuestsDeleted(r)
  /\ torn' = [torn EXCEPT ![r] = @ \ {"access"}]
  /\ UNCHANGED <<now, writable, status, online, run, messages>>

RevokeInviteTorn(r) ==
  /\ Faults
  /\ status[r] # "absent"
  /\ ~invite[r].revoked
  /\ invite' = [invite EXCEPT ![r].revoked = TRUE]
  /\ guest' \in {guest, SessionsRevoked(r)}
  /\ torn' = [torn EXCEPT ![r] = @ \cup {"access"}]
  /\ UNCHANGED <<now, writable, status, online, run, messages>>

GuestsOffline(gs, r) ==
  [g \in Guests |-> IF g \in Joined(r) THEN [gs[g] EXCEPT !.online = FALSE] ELSE gs[g]]

CloseRoom(r) ==
  /\ status[r] \notin {"absent", "closed"}
  /\ status' = [status EXCEPT ![r] = "closed"]
  /\ invite' = [invite EXCEPT ![r].revoked = TRUE]
  /\ guest' = GuestsOffline(SessionsRevoked(r), r)
  /\ online' = [online EXCEPT ![r] = FALSE]
  /\ UNCHANGED <<now, writable, run, messages, torn>>

\* The second, third or fourth statement of close_room is not reached.
CloseRoomTorn(r) ==
  /\ Faults
  /\ status[r] \notin {"absent", "closed"}
  /\ status' = [status EXCEPT ![r] = "closed"]
  /\ \/ UNCHANGED <<invite, guest>>
     \/ invite' = [invite EXCEPT ![r].revoked = TRUE] /\ UNCHANGED guest
     \/ invite' = [invite EXCEPT ![r].revoked = TRUE] /\ guest' = SessionsRevoked(r)
  /\ torn' = [torn EXCEPT ![r] = @ \cup {"access"}]
  /\ UNCHANGED <<now, writable, online, run, messages>>

-----------------------------------------------------------------------------
(* Runs *)

\* A new turn.  An idempotent replay changes nothing and is not a step here.
AppendUserTurn(r, n, k, t) ==
  /\ writable
  /\ status[r] \notin {"absent", "closed"}
  /\ RunWithKey(r, k) = {}
  /\ OpenRunsOf(r) = {}
  /\ run[n].status = "absent"
  /\ \A m \in RunIds : m < n => run[m].status # "absent"
  /\ messages' = [messages EXCEPT ![r] = Append(@, [role |-> "user", text |-> t, run |-> n])]
  /\ run' = [run EXCEPT ![n] = [status |-> "running", room |-> r, key |-> k,
                                text |-> t, partial |-> 0]]
  /\ status' = [status EXCEPT ![r] = "running"]
  /\ torn' = [torn EXCEPT ![r] = @ \ {"run"}]
  /\ UNCHANGED <<now, writable, online, invite, guest>>

\* Mutant: the combined text is not measured.
AppendDelta_Unmeasured(n) ==
  /\ writable
  /\ run[n].status = "running"
  /\ run[n].partial <= MaxPartial
  /\ run' = [run EXCEPT ![n].partial = @ + 1]
  /\ UNCHANGED <<now, writable, status, online, invite, guest, messages, torn>>

AppendDelta(n) ==
  /\ writable
  /\ run[n].status = "running"
  /\ run[n].partial < MaxPartial
  /\ run' = [run EXCEPT ![n].partial = @ + 1]
  /\ UNCHANGED <<now, writable, status, online, invite, guest, messages, torn>>

\* Mutant: the status is set without the CASE that keeps 'closed'.
RoomBecomes_Unconditional(r, s) == [status EXCEPT ![r] = s]

\* Mutant: the room row is not updated with its run.
RoomBecomes_Skipped(r, s) == status

\* UPDATE rooms SET status = CASE WHEN status = 'closed' THEN 'closed' ELSE s END
RoomBecomes(r, s) == [status EXCEPT ![r] = IF @ = "closed" THEN "closed" ELSE s]

\* Mutant: a failed run's partial text is kept as an answer.
WithAnswer_AnyTerminal(n, terminal) ==
  IF run[n].partial > 0
  THEN Append(messages[run[n].room],
              [role |-> "assistant", text |-> run[n].partial, run |-> n])
  ELSE messages[run[n].room]

\* The run's answer becomes a message only when it completes and is not empty.
WithAnswer(n, terminal) ==
  IF terminal = "completed" /\ run[n].partial > 0
  THEN Append(messages[run[n].room],
              [role |-> "assistant", text |-> run[n].partial, run |-> n])
  ELSE messages[run[n].room]

\* Mutant: trim_runs keeps the oldest rows, the newest one goes.
RunsTrimmed_OldestKept(r) ==
  {n \in RunsOf(r) : Cardinality({m \in RunsOf(r) : m < n}) >= MaxRetained}

\* trim_runs: the rows of room r that are not among its newest MaxRetained.
RunsTrimmed(r) ==
  {n \in RunsOf(r) : Cardinality({m \in RunsOf(r) : m > n}) >= MaxRetained}

\* Only an open run changes; on any other row finish_run returns a snapshot.
\* An empty completion has nothing to seal.
FinishRun(n, terminal) ==
  /\ Open(n)
  /\ writable \/ (terminal = "completed" /\ run[n].partial = 0)
  /\ LET r == run[n].room
     IN /\ messages' = [messages EXCEPT ![r] = Newest(WithAnswer(n, terminal), MaxHistory)]
        /\ run' = [m \in RunIds |->
                     IF m \in RunsTrimmed(r) THEN NoRun("trimmed")
                     ELSE IF m = n THEN [run[m] EXCEPT !.status = terminal] ELSE run[m]]
        /\ status' = RoomBecomes(r, IF terminal = "failed" THEN "failed" ELSE "idle")
        /\ torn' = [torn EXCEPT ![r] = @ \ {"run"}]
  /\ UNCHANGED <<now, writable, online, invite, guest>>

StopRun(n) ==
  /\ writable
  /\ Open(n)
  /\ run' = [run EXCEPT ![n].status = "canceled"]
  /\ status' = RoomBecomes(run[n].room, "idle")
  /\ torn' = [torn EXCEPT ![run[n].room] = @ \ {"run"}]
  /\ UNCHANGED <<now, writable, online, invite, guest, messages>>

\* Mutant: the room row is updated before the run row.
StopRunTorn_RoomFirst(n) ==
  /\ Faults
  /\ writable
  /\ Open(n)
  /\ status' = RoomBecomes(run[n].room, "idle")
  /\ torn' = [torn EXCEPT ![run[n].room] = @ \cup {"run"}]
  /\ UNCHANGED <<now, writable, run, online, invite, guest, messages>>

StopRunTorn(n) ==
  /\ Faults
  /\ writable
  /\ Open(n)
  /\ run' = [run EXCEPT ![n].status = "canceled"]
  /\ torn' = [torn EXCEPT ![run[n].room] = @ \cup {"run"}]
  /\ UNCHANGED <<now, writable, status, online, invite, guest, messages>>

\* Mutant: recovery fails every row, finished ones too.
RunsFailed_EveryRow(S) ==
  [n \in RunIds |-> IF HasRow(n) THEN [run[n] EXCEPT !.status = "failed"] ELSE run[n]]

\* UPDATE room_runs SET status = 'failed', one statement per run of S.
RunsFailed(S) ==
  [n \in RunIds |-> IF n \in S THEN [run[n] EXCEPT !.status = "failed"] ELSE run[n]]

\* Recovery runs whether or not this process may seal.
RecoverRunning(w) ==
  /\ writable' = w
  /\ run' = RunsFailed({n \in RunIds : Open(n)})
  /\ status' = [r \in Rooms |-> IF status[r] = "running" THEN "failed" ELSE status[r]]
  /\ torn' = [r \in Rooms |-> torn[r] \ {"run"}]
  /\ UNCHANGED <<now, online, invite, guest, messages>>

\* A start whose recovery fails after the runs of S: it is logged and ignored.
RecoverRunningTorn(w, S) ==
  /\ Faults
  /\ S \subseteq {n \in RunIds : Open(n)}
  /\ writable' = w
  /\ run' = RunsFailed(S)
  /\ torn' = [r \in Rooms |-> IF S \cap OpenRunsOf(r) # {} THEN torn[r] \cup {"run"} ELSE torn[r]]
  /\ UNCHANGED <<now, status, online, invite, guest, messages>>

Tick ==
  /\ now < MaxNow
  /\ now' = now + 1
  /\ UNCHANGED <<writable, status, online, invite, guest, run, messages, torn>>

-----------------------------------------------------------------------------

StoreInit ==
  /\ now = 0
  /\ writable \in BOOLEAN
  /\ status = [r \in Rooms |-> "absent"]
  /\ online = [r \in Rooms |-> FALSE]
  /\ invite = [r \in Rooms |-> [secret |-> 0, expires |-> 0, revoked |-> FALSE]]
  /\ guest = [g \in Guests |-> NoGuest("absent")]
  /\ run = [n \in RunIds |-> NoRun("absent")]
  /\ messages = [r \in Rooms |-> <<>>]
  /\ torn = [r \in Rooms |-> {}]

StoreNext ==
  \/ \E r \in Rooms : CreateRoom(r)
  \/ \E r \in Rooms, g \in Guests : ExchangeInvite(r, g)
  \/ \E r \in Rooms : IssueInvite(r)
  \/ \E r \in Rooms : RevokeInvite(r)
  \/ \E r \in Rooms : RevokeInviteTorn(r)
  \/ \E r \in Rooms : CloseRoom(r)
  \/ \E r \in Rooms : CloseRoomTorn(r)
  \/ \E r \in Rooms, n \in RunIds, k \in Keys \cup {NoKey}, t \in Texts :
       AppendUserTurn(r, n, k, t)
  \/ \E n \in RunIds : AppendDelta(n)
  \/ \E n \in RunIds, terminal \in {"completed", "failed"} : FinishRun(n, terminal)
  \/ \E n \in RunIds : StopRun(n)
  \/ \E n \in RunIds : StopRunTorn(n)
  \/ \E w \in BOOLEAN : RecoverRunning(w)
  \/ \E w \in BOOLEAN, S \in SUBSET RunIds : RecoverRunningTorn(w, S)
  \/ Tick

StoreSpec == StoreInit /\ [][StoreNext]_storeVars
-----------------------------------------------------------------------------
(* Properties *)

ColumnsOK ==
  /\ now \in Nat
  /\ writable \in BOOLEAN
  /\ status \in [Rooms -> RoomStatuses \cup {"absent"}]
  /\ online \in [Rooms -> BOOLEAN]
  /\ invite \in [Rooms -> InviteRow]
  /\ guest \in [Guests -> GuestCell]
  /\ run \in [RunIds -> RunCell]
  /\ messages \in [Rooms -> Seq(Message)]
  /\ torn \in [Rooms -> SUBSET {"run", "access"}]

\* The foreign keys: a room has an invite row from its creation on, and runs and
\* guests refer to rooms that exist.
RowsHaveRooms ==
  /\ \A r \in Rooms : status[r] = "absent" <=> invite[r].secret = 0
  /\ \A n \in RunIds : HasRow(n) => status[run[n].room] # "absent"
  /\ \A g \in Guests : guest[g].state = "joined" => status[guest[g].room] # "absent"

\* Every variable has its type: runs and guests carry the columns of their rows
\* exactly while they have one, an answer is never longer than its limit, and
\* every row belongs to a room.
StoreTypeOK == ColumnsOK /\ RowsHaveRooms

\* A room never has two open runs, whatever mix of turns, stops, closes, torn
\* operations and restarts it has been through: append_user_turn counts open
\* rows and no other operation reopens one.
OneOpenRun ==
  \A m, n \in RunIds :
    Open(m) /\ Open(n) /\ run[m].room = run[n].room => m = n

\* An open run is visible in its room's status: the room is 'running', or was
\* closed over it.  No finish, stop or recovery of another run may clear it.
OpenRunShows ==
  \A n \in RunIds : Open(n) => status[run[n].room] \in {"running", "closed"}

\* Conversely a 'running' room has an open run, unless a torn stop or a torn
\* recovery has left it behind; every later complete operation heals that.
RunningRoomHasRun ==
  \A r \in Rooms : status[r] = "running" /\ "run" \notin torn[r] => OpenRunsOf(r) # {}

\* The prompt of an open run is the newest message of its room: nothing is
\* appended behind it and no trim removes it, so the model sees it last.
OpenRunPromptIsLast ==
  \A n \in RunIds : Open(n) =>
    LET s == messages[run[n].room]
    IN s # <<>> /\ s[Len(s)] = [role |-> "user", text |-> run[n].text, run |-> n]

\* An answer in the history is the whole text of a completed run of that room
\* and directly follows that run's prompt (unless the prompt was trimmed), so
\* stopped, failed and interrupted runs leave none and no run answers twice.
AnswersFollowPrompts ==
  \A r \in Rooms : \A i \in DOMAIN messages[r] :
    LET m == messages[r][i] IN m.role = "assistant" =>
      /\ \/ run[m.run].status = "trimmed"
         \/ /\ run[m.run].status = "completed"
            /\ run[m.run].room = r
            /\ run[m.run].partial = m.text
      /\ i > 1 => messages[r][i - 1].role = "user" /\ messages[r][i - 1].run = m.run

\* Every session that still authorizes requests was opened with the invite the
\* room holds now, and that invite is not revoked: rotating, revoking and
\* closing cut every earlier guest, unless a torn operation stopped short.
LiveSessionFromCurrentInvite ==
  \A r \in Rooms : "access" \notin torn[r] => \A g \in LiveGuests(r) :
    guest[g].via = invite[r].secret /\ ~invite[r].revoked /\ status[r] # "closed"

\* The host and the guests with a live session never exceed MAX_PARTICIPANTS,
\* although the cap is only checked at the exchange and torn operations may
\* leave sessions behind.
LiveParticipantsCapped ==
  \A r \in Rooms : Cardinality(LiveGuests(r)) + 1 <= MaxParticipants

\* A finished run never changes again before it is trimmed: a late delta,
\* finish, stop or recovery of it is a no-op.
FinishedRunIsFinal ==
  [][\A n \in RunIds : run[n].status \in TerminalStatuses =>
       run'[n] = run[n] \/ run'[n].status = "trimmed"]_storeVars

\* A closed room stays closed: neither a run that finishes late, nor a stop, nor
\* recovery reopens it, and it takes no further turn or guest.
ClosedIsFinal ==
  [][\A r \in Rooms : status[r] = "closed" =>
       /\ status'[r] = "closed"
       /\ \A n \in RunIds : n \in OpenRunsOf(r)' => n \in OpenRunsOf(r)
       /\ Joined(r)' \subseteq Joined(r)]_storeVars

\* Whether a room takes turns; a run makes no difference.
RoomStands(r) == IF status[r] \in {"absent", "closed"} THEN status[r] ELSE "open"

\* A room's latest turn, as its newest run's row tells it.
LatestTurn(r) ==
  LET rows == RunsOf(r)
      newest == CHOOSE n \in rows : \A m \in rows : m <= n
      row == run[newest]
  IN IF rows = {} THEN [outcome |-> "none"]
     ELSE [outcome |-> IF Open(newest) THEN "ongoing" ELSE row.status,
           id |-> newest, text |-> row.text, said |-> row.partial]

\* The store keeps the ledger of its rooms' turns: through stops and recoveries that
\* stop halfway, trims of runs and messages and closes over an open run, a room's
\* newest run and its messages move only as one turn at a time would move them.
Ledger ==
  INSTANCE TurnLedger WITH
    TurnIds <- RunIds, MaxSaid <- MaxPartial, MaxTalk <- MaxHistory,
    room <- [r \in Rooms |-> RoomStands(r)],
    turn <- [r \in Rooms |-> LatestTurn(r)],
    talk <- messages
KeepsLedger == Ledger!LedgerSpec

\* What closing a room promises its host: no guest session outlives it.
ClosedRoomHasNoLiveSession ==
  \A r \in Rooms : status[r] = "closed" => LiveGuests(r) = {}
================================================================================
