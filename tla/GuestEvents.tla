------------------------------ MODULE GuestEvents ------------------------------
(***************************************************************************)
(* What a guest sees of a room: the event hub (backend/src/realtime.rs),   *)
(* the guest event stream (guest_events in backend/src/api.rs) and the     *)
(* guest page (ui/src/guest/guest-page.js).                                *)
(*                                                                         *)
(* The room is reduced to what a snapshot shows of it.  A task commits a   *)
(* change, reads the room back under another lock and sends its event; a   *)
(* generation sends a delta for each write and a terminal event at last.   *)
(* Tasks interleave between any two of these, so events may reach the hub  *)
(* in another order than the changes they report.  One guest follows one   *)
(* room; the browser reopens its event source whenever it ends.            *)
(***************************************************************************)
EXTENDS Integers, Sequences

CONSTANTS
  Tasks,        \* handlers and generations that may be in flight together
  MaxTurns,     \* bound: turns accepted over a behaviour
  MaxDeltas,    \* bound: deltas of a turn
  Capacity,     \* ROOM_EVENT_CAPACITY
  Drops         \* TRUE: clients may go away, streams may break

ASSUME EventsAssumption ==
  /\ MaxTurns \in Nat /\ MaxDeltas \in Nat
  /\ Capacity \in Nat \ {0}
  /\ Drops \in BOOLEAN

VARIABLES
  room,     \* the room's rows, as a snapshot shows them
  session,  \* the guest's session
  task,     \* the handlers and generations
  hub,      \* the broadcast channel: how many events were sent, which are kept
  stream,   \* the guest's event stream: its receiver and the item at hand
  page      \* what the guest page holds

vars == <<room, session, task, hub, stream, page>>

-----------------------------------------------------------------------------
(* State *)

\* version is auxiliary: it numbers the commits.  open tells whether the turn's
\* run is open, which a close alone does not end.
Room == [version: Nat, turn: 0..MaxTurns, open: BOOLEAN, partial: 0..MaxDeltas,
         messages: Nat, status: {"idle", "running", "failed", "closed"}]

HandlerEvents == {"turn.accepted", "turn.canceled", "room.closed"}
TerminalEvents == {"turn.completed", "turn.failed"}
EventNames == HandlerEvents \cup TerminalEvents \cup {"turn.delta"}

\* live is auxiliary: the session was live when the item was made.
Event == [name: EventNames, at: Room, live: BOOLEAN]
Snapshot == [name: {"snapshot"}, at: Room, live: BOOLEAN]
Lagged == [name |-> "lagged"]
Nothing == [name |-> "nothing"]

NoTask == [pc |-> "idle"]
Task == [pc: {"read", "stream"}, name: EventNames, turn: 0..MaxTurns]
          \cup [pc: {"send"}, name: EventNames, turn: 0..MaxTurns, at: Room]

IsGeneration(t) == task[t].pc # "idle" /\ task[t].name \notin HandlerEvents
Commits(r) == room' = [r EXCEPT !.version = @ + 1]

-----------------------------------------------------------------------------
(* The room's tasks: a commit, a snapshot read back, an event *)

AcceptTurn(t) ==
  /\ task[t] = NoTask
  /\ ~room.open /\ room.status # "closed"
  /\ room.turn < MaxTurns
  /\ Commits([room EXCEPT !.turn = @ + 1, !.open = TRUE, !.partial = 0,
                          !.messages = @ + 1, !.status = "running"])
  /\ task' = [task EXCEPT ![t] = [pc |-> "read", name |-> "turn.accepted", turn |-> room.turn + 1]]
  /\ UNCHANGED <<session, hub, stream, page>>

\* What a run's end makes of the room's status.
StatusBecomes(s) == IF room.status = "closed" THEN "closed" ELSE s

StopTurn(t) ==
  /\ task[t] = NoTask
  /\ room.open
  /\ Commits([room EXCEPT !.open = FALSE, !.status = StatusBecomes("idle")])
  /\ task' = [task EXCEPT ![t] = [pc |-> "read", name |-> "turn.canceled", turn |-> room.turn]]
  /\ UNCHANGED <<session, hub, stream, page>>

\* close_room revokes every session of the room.
CloseRoom(t) ==
  /\ task[t] = NoTask
  /\ room.status # "closed"
  /\ Commits([room EXCEPT !.status = "closed"])
  /\ session' = "ended"
  /\ task' = [task EXCEPT ![t] = [pc |-> "read", name |-> "room.closed", turn |-> room.turn]]
  /\ UNCHANGED <<hub, stream, page>>

\* The invite is revoked or rotated, or the session expires.
EndSession ==
  /\ session = "live"
  /\ session' = "ended"
  /\ UNCHANGED <<room, task, hub, stream, page>>

\* The snapshot that goes into the event.  An accepted turn that was stopped
\* meanwhile may find no run to answer, and then sends nothing.
ReadBack(t) ==
  /\ task[t].pc = "read"
  /\ \/ task' = [task EXCEPT ![t] = [pc |-> "send", name |-> task[t].name,
                                     turn |-> task[t].turn, at |-> room]]
     \/ /\ task[t].name = "turn.accepted" /\ ~room.open
        /\ task' = [task EXCEPT ![t] = NoTask]
  /\ UNCHANGED <<room, session, hub, stream, page>>

\* A handler whose client is gone is dropped while it waits for a lock.
DropHandler(t) ==
  /\ Drops
  /\ task[t].pc \in {"read", "send"} /\ task[t].name \in HandlerEvents
  /\ task' = [task EXCEPT ![t] = NoTask]
  /\ UNCHANGED <<room, session, hub, stream, page>>

\* Mutant: the channel has no bound.
Publish_Unbounded(e) ==
  hub' = [sent |-> hub.sent + 1, kept |-> Append(hub.kept, e)]

\* RoomEventHub::publish: the oldest event makes room for the newest.
Publish(e) ==
  LET all == Append(hub.kept, e)
  IN hub' = [sent |-> hub.sent + 1,
             kept |-> IF Len(all) > Capacity THEN Tail(all) ELSE all]

\* What the task does once its event is sent: a handler that was answered a running
\* run starts its generation, unless another is registered; a generation goes on
\* after a delta and returns after its terminal event.
Continues(t) ==
  CASE task[t].name = "turn.accepted" /\ task[t].at.open ->
         {[pc |-> "stream", name |-> "turn.delta", turn |-> task[t].at.turn]}
           \cup (IF \E u \in Tasks : IsGeneration(u) THEN {NoTask} ELSE {})
    [] task[t].name = "turn.delta" ->
         {[pc |-> "stream", name |-> "turn.delta", turn |-> task[t].turn]}
    [] OTHER -> {NoTask}

Send(t) ==
  /\ task[t].pc = "send"
  /\ Publish([name |-> task[t].name, at |-> task[t].at, live |-> session = "live"])
  /\ \E next \in Continues(t) : task' = [task EXCEPT ![t] = next]
  /\ UNCHANGED <<room, session, stream, page>>

Drives(t) == room.open /\ room.turn = task[t].turn

\* A delta is stored and then sent, with the whole partial text.
WriteDelta(t) ==
  /\ task[t].pc = "stream"
  /\ Drives(t) /\ room.partial < MaxDeltas
  /\ LET r == [room EXCEPT !.partial = @ + 1, !.version = @ + 1]
     IN /\ room' = r
        /\ task' = [task EXCEPT ![t] = [pc |-> "send", name |-> "turn.delta",
                                        turn |-> task[t].turn, at |-> r]]
  /\ UNCHANGED <<session, hub, stream, page>>

\* finish_run; on a run that is no longer open it only reads the snapshot.
FinishTurn(t, name) ==
  /\ task[t].pc = "stream"
  /\ IF Drives(t)
     THEN Commits([room EXCEPT
            !.open = FALSE,
            !.messages = IF name = "turn.completed" /\ room.partial > 0 THEN @ + 1 ELSE @,
            !.status = StatusBecomes(IF name = "turn.completed" THEN "idle" ELSE "failed")])
     ELSE UNCHANGED room
  /\ task' = [task EXCEPT ![t] = [pc |-> "read", name |-> name, turn |-> task[t].turn]]
  /\ UNCHANGED <<session, hub, stream, page>>

\* A generation whose run was stopped sees the cancel flag and returns.
CancelTurn(t) ==
  /\ task[t].pc = "stream"
  /\ ~Drives(t)
  /\ task' = [task EXCEPT ![t] = NoTask]
  /\ UNCHANGED <<room, session, hub, stream, page>>

-----------------------------------------------------------------------------
(* guest_events: every check of the session is a query of its own *)

Live == session = "live"

\* The request is authorized; an event source that gets an error gives up.
StreamOpens ==
  /\ stream.pc = "off"
  /\ \/ Live /\ stream' = [stream EXCEPT !.pc = "snapshot"]
     \/ (~Live \/ Drops) /\ stream' = [stream EXCEPT !.pc = "refused"]
  /\ UNCHANGED <<room, session, task, hub, page>>

ReadRoom(pc) ==
  stream' = [stream EXCEPT !.pc = pc, !.item = [name |-> "snapshot", at |-> room, live |-> Live]]

StreamSnapshot ==
  /\ stream.pc = "snapshot"
  /\ ReadRoom("subscribe")
  /\ UNCHANGED <<room, session, task, hub, page>>

\* RoomEventHub::subscribe: the receiver sees what is sent from now on.
StreamSubscribes ==
  /\ stream.pc = "subscribe"
  /\ stream' = [stream EXCEPT !.pc = "recheck", !.received = hub.sent]
  /\ UNCHANGED <<room, session, task, hub, page>>

Off(pc) == [pc |-> pc, received |-> 0, item |-> Nothing, owed |-> 0]
StreamEnds == stream' = Off("off")

\* Mutant: the session is only looked at when an event arrives.
StreamTick_Never ==
  /\ stream.pc = "wait"
  /\ ~Live /\ Live
  /\ StreamEnds
  /\ UNCHANGED <<room, session, task, hub, page>>

\* The authorization tick, once a second.
StreamTick ==
  /\ stream.pc = "wait"
  /\ ~Live
  /\ StreamEnds
  /\ UNCHANGED <<room, session, task, hub, page>>

Oldest == hub.sent - Len(hub.kept)

\* recv: the next event, or word that the receiver has lagged past some.
StreamReceives ==
  /\ stream.pc = "wait"
  /\ stream.received < hub.sent
  /\ stream' = IF stream.received < Oldest
               THEN [pc |-> "check", received |-> Oldest, item |-> Lagged, owed |-> room.version]
               ELSE [stream EXCEPT !.pc = "check", !.received = @ + 1,
                                   !.item = hub.kept[stream.received + 1 - Oldest]]
  /\ UNCHANGED <<room, session, task, hub, page>>

\* Mutant: a lagging receiver goes on with the events that are left.
AfterCheck_NoResync(item) == "yield"

AfterCheck(item) == IF item = Lagged THEN "resync" ELSE "yield"

StreamChecks ==
  /\ stream.pc = "check"
  /\ IF Live THEN stream' = [stream EXCEPT !.pc = AfterCheck(stream.item)] ELSE StreamEnds
  /\ UNCHANGED <<room, session, task, hub, page>>

StreamResyncs ==
  /\ stream.pc = "resync"
  /\ ReadRoom("recheck")
  /\ UNCHANGED <<room, session, task, hub, page>>

\* Mutant: the session is not looked at again after the snapshot was read.
StreamRechecks_Trusts ==
  /\ stream.pc = "recheck"
  /\ stream' = [stream EXCEPT !.pc = "yield"]
  /\ UNCHANGED <<room, session, task, hub, page>>

\* A snapshot was read since the session was last looked at.
StreamRechecks ==
  /\ stream.pc = "recheck"
  /\ IF Live THEN stream' = [stream EXCEPT !.pc = "yield"] ELSE StreamEnds
  /\ UNCHANGED <<room, session, task, hub, page>>

\* The page's listeners.  A delta replaces the partial text, everything else
\* carries a snapshot, which also clears it.
Applied(item) ==
  CASE item.name = "turn.delta" -> [page EXCEPT !.partial = item.at.partial, !.live = item.live]
    [] OTHER -> [shown |-> item.at, partial |-> 0, live |-> item.live]

StreamYields ==
  /\ stream.pc = "yield"
  /\ page' = IF stream.item = Lagged THEN page ELSE Applied(stream.item)
  /\ stream' = [stream EXCEPT !.pc = "wait", !.item = Nothing,
                              !.owed = IF stream.item.name = "snapshot" THEN 0 ELSE @]
  /\ UNCHANGED <<room, session, task, hub>>

\* The connection or a query of the stream fails.
StreamBreaks ==
  /\ Drops
  /\ stream.pc \notin {"off", "refused"}
  /\ StreamEnds \/ (stream.pc = "snapshot" /\ stream' = Off("refused"))
  /\ UNCHANGED <<room, session, task, hub, page>>

-----------------------------------------------------------------------------

Init ==
  /\ room = [version |-> 0, turn |-> 0, open |-> FALSE, partial |-> 0,
             messages |-> 0, status |-> "idle"]
  /\ session = "live"
  /\ task = [t \in Tasks |-> NoTask]
  /\ hub = [sent |-> 0, kept |-> <<>>]
  /\ stream = Off("off")
  /\ page = [shown |-> room, partial |-> 0, live |-> TRUE]

TaskStep(t) ==
  \/ AcceptTurn(t) \/ StopTurn(t) \/ CloseRoom(t)
  \/ ReadBack(t) \/ DropHandler(t) \/ Send(t)
  \/ WriteDelta(t) \/ CancelTurn(t)
  \/ \E name \in TerminalEvents : FinishTurn(t, name)

StreamStep ==
  \/ StreamOpens \/ StreamSnapshot \/ StreamSubscribes \/ StreamTick \/ StreamReceives
  \/ StreamChecks \/ StreamResyncs \/ StreamRechecks \/ StreamYields

Next ==
  \/ \E t \in Tasks : TaskStep(t)
  \/ EndSession
  \/ StreamStep
  \/ StreamBreaks

Spec == Init /\ [][Next]_vars

\* The stream's task is polled, its interval ticks, and the browser reopens an
\* event source that ended.
FairSpec == Spec /\ WF_vars(StreamStep)
-----------------------------------------------------------------------------
(* Properties *)

\* Tasks, channel, stream and page have their types, and the channel
\* keeps at most its capacity.
TypeOK ==
  /\ room \in Room
  /\ session \in {"live", "ended"}
  /\ task \in [Tasks -> Task \cup {NoTask}]
  /\ hub.sent \in Nat /\ hub.kept \in Seq(Event) /\ Len(hub.kept) <= Capacity
  /\ stream \in [pc: {"off", "refused", "snapshot", "subscribe", "wait", "check", "resync",
                      "recheck", "yield"},
                 received: 0..hub.sent, item: Event \cup Snapshot \cup {Lagged, Nothing}, owed: Nat]
  /\ page \in [shown: Room, partial: 0..MaxDeltas, live: BOOLEAN]

\* "A room subscription never outlives its authoritative guest session": nothing
\* that was published or read after the session ended reaches the page, neither
\* buffered events nor the snapshots read for a new or a lagging stream.
NothingAfterSessionEnds == page.live

\* A receiver that has lagged goes on only after a snapshot at least as new as
\* the events it has missed: the page never silently skips a change.
LagIsResynced ==
  /\ stream.pc = "wait" => stream.owed = 0
  /\ stream.pc = "yield" /\ stream.item.name = "snapshot" => stream.item.at.version >= stream.owed

\* Once the session has ended, so does the stream, even in a silent room, and the
\* browser is refused a new one.
StreamEndsWithSession == session = "ended" ~> stream.pc = "refused"

\* What the hub's comment and the page's text say: with nothing left to send or to
\* receive, the guest sees the room as it is.
GuestSeesRoom ==
  /\ session = "live" /\ stream.pc = "wait" /\ stream.received = hub.sent
  /\ \A t \in Tasks : task[t] = NoTask
  => /\ page.shown.status = room.status
     /\ page.shown.messages = room.messages
================================================================================
