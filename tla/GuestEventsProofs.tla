--------------------------- MODULE GuestEventsProofs ---------------------------
(***************************************************************************)
(* Theorems about GuestEvents, for any number of tasks, turns and deltas   *)
(* and any capacity of the channel.                                        *)
(***************************************************************************)
EXTENDS GuestEvents, TLAPS

-----------------------------------------------------------------------------
(* Types *)

\* What the stream holds at each place: a snapshot it has read, what it has
\* received, and something to deliver.
ItemAtHand ==
  /\ stream.pc \in {"subscribe", "recheck"} => stream.item \in Snapshot
  /\ stream.pc = "check" => stream.item \in Event \cup {Lagged}
  /\ stream.pc = "yield" => stream.item \in Event \cup Snapshot

StreamInv == TypeOK /\ ItemAtHand

\* The record of a stream, as TypeOK has it.
StreamRecord(sent) ==
  [pc: {"off", "refused", "snapshot", "subscribe", "wait", "check", "resync", "recheck", "yield"},
   received: 0..sent, item: Event \cup Snapshot \cup {Lagged, Nothing}, owed: Nat]

\* A task of the room leaves the stream and the page alone.
TaskOK ==
  /\ room \in Room
  /\ session \in {"live", "ended"}
  /\ task \in [Tasks -> Task \cup {NoTask}]

\* Every commit leaves a room.
LEMMA CommitTyped ==
  ASSUME NEW r \in Room, Commits(r)
  PROVE  room' \in Room /\ room'.version = r.version + 1
BY DEF Commits, Room

\* Replacing one task by another of the type keeps the type.
LEMMA TaskReplaced ==
  ASSUME TypeOK, NEW t \in Tasks, NEW k \in Task \cup {NoTask}, task' = [task EXCEPT ![t] = k]
  PROVE  task' \in [Tasks -> Task \cup {NoTask}]
BY DEF TypeOK

\* A task at a place has the columns of that place.
LEMMA TaskColumns ==
  ASSUME TypeOK, NEW t \in Tasks
  PROVE  /\ task[t].pc = "read" => task[t].name \in EventNames /\ task[t].turn \in 0..MaxTurns
         /\ task[t].pc = "stream" => task[t].turn \in 0..MaxTurns
         /\ task[t].pc = "send" => /\ task[t].name \in EventNames
                                   /\ task[t].turn \in 0..MaxTurns /\ task[t].at \in Room
<1>1. task[t] \in Task \cup {NoTask}
  BY DEF TypeOK
<1> QED
  BY <1>1 DEF Task, NoTask

\* Every step of a task keeps the types of the room and of the tasks.
LEMMA TaskTyped ==
  ASSUME TypeOK, NEW t \in Tasks, TaskStep(t)
  PROVE  TaskOK'
<1>0. room \in Room /\ session \in {"live", "ended"} /\ task \in [Tasks -> Task \cup {NoTask}]
  BY DEF TypeOK
<1>1. CASE AcceptTurn(t)
  <2>1. [room EXCEPT !.turn = @ + 1, !.open = TRUE, !.partial = 0,
                     !.messages = @ + 1, !.status = "running"] \in Room
    <3>1. room.turn < MaxTurns
      BY <1>1 DEF AcceptTurn
    <3>2. room.turn + 1 \in 0..MaxTurns /\ 0 \in 0..MaxDeltas /\ room.messages + 1 \in Nat
      BY <1>0, <3>1, EventsAssumption DEF Room
    <3> QED
      BY <1>0, <3>2 DEF Room
  <2>2. [pc |-> "read", name |-> "turn.accepted", turn |-> room.turn + 1] \in Task
    BY <1>0, <1>1, EventsAssumption DEF AcceptTurn, Room, Task, EventNames, HandlerEvents
  <2> QED
    BY <1>0, <1>1, <2>1, <2>2, CommitTyped, TaskReplaced DEF AcceptTurn, TaskOK
<1>2. CASE StopTurn(t)
  <2>1. [room EXCEPT !.open = FALSE, !.status = StatusBecomes("idle")] \in Room
    BY <1>0 DEF StatusBecomes, Room
  <2>2. [pc |-> "read", name |-> "turn.canceled", turn |-> room.turn] \in Task
    BY <1>0 DEF Room, Task, EventNames, HandlerEvents
  <2> QED
    BY <1>0, <1>2, <2>1, <2>2, CommitTyped, TaskReplaced DEF StopTurn, TaskOK
<1>3. CASE CloseRoom(t)
  <2>1. [room EXCEPT !.status = "closed"] \in Room
    BY <1>0 DEF Room
  <2>2. [pc |-> "read", name |-> "room.closed", turn |-> room.turn] \in Task
    BY <1>0 DEF Room, Task, EventNames, HandlerEvents
  <2> QED
    BY <1>0, <1>3, <2>1, <2>2, CommitTyped, TaskReplaced DEF CloseRoom, TaskOK
<1>4. CASE ReadBack(t)
  <2>1. [pc |-> "send", name |-> task[t].name, turn |-> task[t].turn, at |-> room] \in Task
    BY <1>0, <1>4, TaskColumns DEF ReadBack, Task
  <2> QED
    BY <1>0, <1>4, <2>1, TaskReplaced DEF ReadBack, TaskOK
<1>5. CASE DropHandler(t) \/ CancelTurn(t)
  BY <1>0, <1>5, TaskReplaced DEF DropHandler, CancelTurn, TaskOK
<1>6. CASE Send(t)
  <2>1. \A next \in Continues(t) : next \in Task \cup {NoTask}
    BY <1>6, TaskColumns DEF Send, Continues, Task, EventNames, Room
  <2> QED
    BY <1>0, <1>6, <2>1, TaskReplaced DEF Send, TaskOK
<1>7. CASE WriteDelta(t)
  <2> DEFINE r == [room EXCEPT !.partial = @ + 1, !.version = @ + 1]
  <2>1. r \in Room
    <3>1. room.partial < MaxDeltas
      BY <1>7 DEF WriteDelta
    <3>2. room.partial + 1 \in 0..MaxDeltas /\ room.version + 1 \in Nat
      BY <1>0, <3>1, EventsAssumption DEF Room
    <3> QED
      BY <1>0, <3>2 DEF Room
  <2>2. [pc |-> "send", name |-> "turn.delta", turn |-> task[t].turn, at |-> r] \in Task
    BY <1>7, <2>1, TaskColumns DEF WriteDelta, Task, EventNames
  <2> QED
    BY <1>0, <1>7, <2>1, <2>2, TaskReplaced DEF WriteDelta, TaskOK
<1>8. ASSUME NEW name \in TerminalEvents, FinishTurn(t, name) PROVE TaskOK'
  <2> DEFINE m == IF name = "turn.completed" /\ room.partial > 0
                  THEN room.messages + 1 ELSE room.messages
             st == StatusBecomes(IF name = "turn.completed" THEN "idle" ELSE "failed")
  <2>1. [room EXCEPT !.open = FALSE, !.messages = m, !.status = st] \in Room
    <3>1. m \in Nat /\ st \in {"idle", "running", "failed", "closed"}
      BY <1>0 DEF Room, StatusBecomes
    <3> HIDE DEF m, st
    <3> QED
      BY <1>0, <3>1 DEF Room
  <2>2. room' \in Room
    BY <1>0, <1>8, <2>1, CommitTyped DEF FinishTurn
  <2>3. [pc |-> "read", name |-> name, turn |-> task[t].turn] \in Task
    BY <1>8, TaskColumns DEF FinishTurn, Task, EventNames
  <2> QED
    BY <1>0, <1>8, <2>2, <2>3, TaskReplaced DEF FinishTurn, TaskOK
<1> QED
  BY <1>1, <1>2, <1>3, <1>4, <1>5, <1>6, <1>7, <1>8 DEF TaskStep

\* A send keeps the channel's type and its bound.
LEMMA HubTyped ==
  ASSUME TypeOK, NEW e \in Event, Publish(e)
  PROVE  /\ hub'.sent = hub.sent + 1 /\ hub'.sent \in Nat
         /\ hub'.kept \in Seq(Event) /\ Len(hub'.kept) <= Capacity
         /\ \A i \in 1..Len(hub'.kept) :
              hub'.kept[i] = e \/ \E j \in 1..Len(hub.kept) : hub'.kept[i] = hub.kept[j]
<1> DEFINE all == Append(hub.kept, e)
<1>1. hub.sent \in Nat /\ hub.kept \in Seq(Event) /\ Len(hub.kept) <= Capacity
  BY DEF TypeOK
<1>2. /\ all \in Seq(Event) /\ Len(all) = Len(hub.kept) + 1
      /\ \A i \in 1..Len(all) : all[i] = IF i <= Len(hub.kept) THEN hub.kept[i] ELSE e
  BY <1>1
<1>3. /\ Tail(all) \in Seq(Event) /\ Len(Tail(all)) = Len(hub.kept)
      /\ \A i \in 1..Len(Tail(all)) : Tail(all)[i] = all[i + 1]
  BY <1>1, <1>2
<1>4. hub'.sent = hub.sent + 1 /\ hub'.kept = IF Len(all) > Capacity THEN Tail(all) ELSE all
  BY DEF Publish
<1> HIDE DEF all
<1>5. CASE Len(all) > Capacity
  <2>1. hub'.kept = Tail(all)
    BY <1>4, <1>5
  <2>2. \A i \in 1..Len(Tail(all)) :
          Tail(all)[i] = e \/ \E j \in 1..Len(hub.kept) : Tail(all)[i] = hub.kept[j]
    BY <1>1, <1>2, <1>3
  <2> QED
    BY <1>1, <1>3, <1>4, <2>1, <2>2
<1>6. CASE ~(Len(all) > Capacity)
  <2>1. hub'.kept = all
    BY <1>4, <1>6
  <2>2. \A i \in 1..Len(all) : all[i] = e \/ \E j \in 1..Len(hub.kept) : all[i] = hub.kept[j]
    BY <1>1, <1>2
  <2> QED
    BY <1>1, <1>2, <1>4, <1>6, <2>1, <2>2, EventsAssumption
<1> QED
  BY <1>5, <1>6

\* What a task sends is an event.
LEMMA SentIsEvent ==
  ASSUME TypeOK, NEW t \in Tasks, Send(t)
  PROVE  [name |-> task[t].name, at |-> task[t].at, live |-> session = "live"] \in Event
BY TaskColumns DEF Send, Event

\* A task keeps every type.
LEMMA TaskStepInv ==
  ASSUME StreamInv, NEW t \in Tasks, TaskStep(t)
  PROVE  StreamInv'
<1>1. TypeOK /\ ItemAtHand
  BY DEF StreamInv
<1>2. TaskOK'
  BY <1>1, TaskTyped
<1>3. UNCHANGED <<stream, page>>
  BY DEF TaskStep, AcceptTurn, StopTurn, CloseRoom, ReadBack, DropHandler, Send, WriteDelta,
     CancelTurn, FinishTurn
<1>4. /\ hub'.sent \in Nat /\ hub'.sent >= hub.sent
      /\ hub'.kept \in Seq(Event) /\ Len(hub'.kept) <= Capacity
  <2>1. CASE Send(t)
    <3> DEFINE e == [name |-> task[t].name, at |-> task[t].at, live |-> session = "live"]
    <3>1. e \in Event /\ Publish(e)
      BY <1>1, <2>1, SentIsEvent DEF Send
    <3> HIDE DEF e
    <3>2. hub'.sent = hub.sent + 1 /\ hub.sent \in Nat
      BY <1>1, <3>1, HubTyped DEF TypeOK
    <3> QED
      BY <1>1, <3>1, <3>2, HubTyped
  <2>2. CASE ~Send(t)
    <3>1. UNCHANGED hub
      BY <2>2 DEF TaskStep, AcceptTurn, StopTurn, CloseRoom, ReadBack, DropHandler, WriteDelta,
         CancelTurn, FinishTurn
    <3> QED
      BY <1>1, <3>1 DEF TypeOK
  <2> QED
    BY <2>1, <2>2
<1>5. stream \in StreamRecord(hub.sent) /\ hub.sent \in Nat
  BY <1>1 DEF TypeOK, StreamRecord
<1>6. stream' \in StreamRecord(hub'.sent)
  BY <1>3, <1>4, <1>5 DEF StreamRecord
<1>7. page' \in [shown: Room, partial: 0..MaxDeltas, live: BOOLEAN]
  BY <1>1, <1>3 DEF TypeOK
<1>8. ItemAtHand'
  BY <1>1, <1>3 DEF ItemAtHand
<1> QED
  BY <1>2, <1>4, <1>6, <1>7, <1>8 DEF StreamInv, TypeOK, TaskOK, StreamRecord

\* The snapshot a stream reads.
LEMMA ReadRoomTyped ==
  ASSUME StreamInv, NEW pc \in {"subscribe", "recheck"}, ReadRoom(pc)
  PROVE  /\ stream' \in StreamRecord(hub.sent) /\ stream'.item \in Snapshot
         /\ stream'.pc = pc /\ stream'.item.at = room /\ stream'.item.live = Live
         /\ stream'.owed = stream.owed
<1>1. stream \in StreamRecord(hub.sent) /\ room \in Room
  BY DEF StreamInv, TypeOK, StreamRecord
<1>2. [name |-> "snapshot", at |-> room, live |-> Live] \in Snapshot
  BY <1>1 DEF Snapshot, Live
<1> QED
  BY <1>1, <1>2 DEF ReadRoom, StreamRecord

\* What a receiver that has not lagged receives.
LEMMA ReceivedIsEvent ==
  ASSUME TypeOK, stream.received < hub.sent, ~(stream.received < Oldest)
  PROVE  /\ stream.received + 1 - Oldest \in 1..Len(hub.kept)
         /\ hub.kept[stream.received + 1 - Oldest] \in Event
<1>1. stream.received \in Nat /\ hub.sent \in Nat /\ hub.kept \in Seq(Event)
  BY DEF TypeOK
<1>2. stream.received + 1 - Oldest \in 1..Len(hub.kept)
  BY <1>1 DEF Oldest
<1> QED
  BY <1>1, <1>2

\* A stream that has ended holds nothing.
LEMMA OffTyped ==
  ASSUME TypeOK, NEW pc \in {"off", "refused"}
  PROVE  Off(pc) \in StreamRecord(hub.sent)
BY DEF Off, StreamRecord, TypeOK

\* Every step of the stream keeps every type.
LEMMA StreamStepInv ==
  ASSUME StreamInv, StreamStep \/ StreamBreaks
  PROVE  StreamInv'
<1>0. TypeOK /\ ItemAtHand /\ stream \in StreamRecord(hub.sent) /\ hub.sent \in Nat /\ room \in Room
  BY DEF StreamInv, TypeOK, StreamRecord
<1>1. UNCHANGED <<room, session, task, hub>>
  BY DEF StreamStep, StreamBreaks, StreamOpens, StreamSnapshot, StreamSubscribes, StreamTick,
     StreamReceives, StreamChecks, StreamResyncs, StreamRechecks, StreamYields
<1>2. ASSUME stream' \in StreamRecord(hub.sent), UNCHANGED page, ItemAtHand' PROVE StreamInv'
  BY <1>0, <1>1, <1>2 DEF StreamInv, TypeOK, StreamRecord
<1>3. ASSUME NEW pc \in {"off", "refused"}, stream' = Off(pc), UNCHANGED page PROVE StreamInv'
  BY <1>0, <1>2, <1>3, OffTyped DEF ItemAtHand, Off
<1>4. CASE StreamOpens
  BY <1>0, <1>2, <1>4 DEF StreamOpens, StreamRecord, ItemAtHand
<1>5. CASE StreamSnapshot
  BY <1>2, <1>5, ReadRoomTyped DEF StreamSnapshot, ItemAtHand
<1>6. CASE StreamSubscribes
  <2>1. stream' \in StreamRecord(hub.sent)
    <3>1. hub.sent \in 0..hub.sent
      BY <1>0
    <3> QED
      BY <1>0, <1>6, <3>1 DEF StreamSubscribes, StreamRecord
  <2> QED
    BY <1>0, <1>2, <1>6, <2>1 DEF StreamSubscribes, ItemAtHand, StreamRecord
<1>7. CASE StreamTick \/ StreamBreaks
  BY <1>3, <1>7 DEF StreamTick, StreamBreaks, StreamEnds
<1>8. CASE StreamReceives
  <2>1. CASE stream.received < Oldest
    <3>1. Oldest \in 0..hub.sent
      BY <1>0, <2>1 DEF Oldest, TypeOK, StreamRecord
    <3>2. stream' = [pc |-> "check", received |-> Oldest, item |-> Lagged, owed |-> room.version]
      BY <1>8, <2>1 DEF StreamReceives
    <3>3. stream' \in StreamRecord(hub.sent)
      BY <1>0, <3>1, <3>2 DEF StreamRecord, Room
    <3>4. stream'.pc = "check" /\ stream'.item = Lagged
      BY <3>2
    <3>5. ItemAtHand'
      BY <3>4 DEF ItemAtHand
    <3> QED
      BY <1>2, <1>8, <3>3, <3>5 DEF StreamReceives
  <2>2. CASE ~(stream.received < Oldest)
    <3> DEFINE e == hub.kept[stream.received + 1 - Oldest]
    <3>1. e \in Event
      BY <1>0, <1>8, <2>2, ReceivedIsEvent DEF StreamReceives
    <3>2. stream' = [stream EXCEPT !.pc = "check", !.received = @ + 1, !.item = e]
      BY <1>8, <2>2 DEF StreamReceives
    <3>3. stream.received + 1 \in 0..hub.sent
      BY <1>0, <1>8 DEF StreamReceives, StreamRecord
    <3> HIDE DEF e
    <3>4. stream' \in StreamRecord(hub.sent) /\ stream'.pc = "check" /\ stream'.item = e
      BY <1>0, <3>1, <3>2, <3>3 DEF StreamRecord
    <3> QED
      BY <1>2, <1>8, <3>1, <3>4 DEF StreamReceives, ItemAtHand
  <2> QED
    BY <2>1, <2>2
<1>9. CASE StreamChecks
  <2>1. CASE StreamEnds
    BY <1>3, <1>9, <2>1 DEF StreamChecks, StreamEnds
  <2>2. CASE stream' = [stream EXCEPT !.pc = AfterCheck(stream.item)]
    BY <1>0, <1>2, <1>9, <2>2 DEF StreamChecks, AfterCheck, StreamRecord, ItemAtHand
  <2> QED
    BY <1>9, <2>1, <2>2 DEF StreamChecks
<1>10. CASE StreamResyncs
  BY <1>2, <1>10, ReadRoomTyped DEF StreamResyncs, ItemAtHand
<1>11. CASE StreamRechecks
  <2>1. CASE StreamEnds
    BY <1>3, <1>11, <2>1 DEF StreamRechecks, StreamEnds
  <2>2. CASE stream' = [stream EXCEPT !.pc = "yield"]
    BY <1>0, <1>2, <1>11, <2>2 DEF StreamRechecks, StreamRecord, ItemAtHand
  <2> QED
    BY <1>11, <2>1, <2>2 DEF StreamRechecks
<1>12. CASE StreamYields
  <2>1. stream.item \in Event \cup Snapshot /\ stream.item # Lagged
    BY <1>0, <1>12 DEF StreamYields, ItemAtHand, Event, Snapshot, Lagged, EventNames,
       HandlerEvents, TerminalEvents
  <2>2. stream.item.at \in Room /\ stream.item.at.partial \in 0..MaxDeltas
        /\ stream.item.live \in BOOLEAN
    BY <2>1 DEF Event, Snapshot, Room
  <2>3. page' = Applied(stream.item)
    BY <1>12, <2>1 DEF StreamYields
  <2>4. page' \in [shown: Room, partial: 0..MaxDeltas, live: BOOLEAN]
    <3>1. page \in [shown: Room, partial: 0..MaxDeltas, live: BOOLEAN] /\ 0 \in 0..MaxDeltas
      BY <1>0, EventsAssumption DEF TypeOK
    <3>2. CASE stream.item.name = "turn.delta"
      BY <2>2, <2>3, <3>1, <3>2 DEF Applied
    <3>3. CASE stream.item.name # "turn.delta"
      <4>1. page' = [shown |-> stream.item.at, partial |-> 0, live |-> stream.item.live]
        BY <2>3, <3>3 DEF Applied
      <4> QED
        BY <2>2, <3>1, <4>1
    <3> QED
      BY <3>2, <3>3
  <2>5. stream' \in StreamRecord(hub.sent) /\ stream'.pc = "wait"
    BY <1>0, <1>12 DEF StreamYields, StreamRecord
  <2> QED
    BY <1>0, <1>1, <2>4, <2>5 DEF StreamInv, TypeOK, StreamRecord, ItemAtHand
<1> QED
  BY <1>4, <1>5, <1>6, <1>7, <1>8, <1>9, <1>10, <1>11, <1>12 DEF StreamStep

\* The inductive step of the types.
LEMMA StreamInvStep ==
  ASSUME StreamInv, [Next]_vars
  PROVE  StreamInv'
<1>1. CASE \E t \in Tasks : TaskStep(t)
  BY <1>1, TaskStepInv
<1>2. CASE StreamStep \/ StreamBreaks
  BY <1>2, StreamStepInv
<1>3. CASE EndSession
  BY <1>3 DEF EndSession, StreamInv, TypeOK, ItemAtHand
<1>4. CASE UNCHANGED vars
  BY <1>4 DEF vars, StreamInv, TypeOK, ItemAtHand
<1> QED
  BY <1>1, <1>2, <1>3, <1>4 DEF Next

\* A quiet room and a page that has just joined.
LEMMA StreamInvInit == Init => StreamInv
<1> SUFFICES ASSUME Init PROVE StreamInv
  OBVIOUS
<1>1. room \in Room
  BY EventsAssumption DEF Init, Room
<1>2. stream \in StreamRecord(0) /\ stream.pc = "off"
  BY DEF Init, Off, StreamRecord
<1>3. hub.sent = 0 /\ hub.kept = <<>> /\ hub.kept \in Seq(Event) /\ Len(hub.kept) <= Capacity
  BY EventsAssumption DEF Init
<1>4. page \in [shown: Room, partial: 0..MaxDeltas, live: BOOLEAN]
  BY <1>1, EventsAssumption DEF Init
<1> QED
  BY <1>1, <1>2, <1>3, <1>4 DEF Init, StreamInv, TypeOK, StreamRecord, ItemAtHand

\* Tasks, channel, stream and page keep their types, and the channel its bound.
THEOREM EventsTypeInvariant == Spec => []TypeOK
<1>1. StreamInv => TypeOK
  BY DEF StreamInv
<1> QED
  BY <1>1, StreamInvInit, StreamInvStep, PTL DEF Spec

-----------------------------------------------------------------------------
(* Nothing after the session *)

\* While the session is live, everything in the channel and in the stream's hands
\* was made under it; what is about to be delivered was, even if it has ended.
LiveInv ==
  /\ page.live = TRUE
  /\ stream.pc = "yield" => stream.item.live = TRUE
  /\ Live => \A i \in 1..Len(hub.kept) : hub.kept[i].live = TRUE
  /\ Live => (stream.pc \in {"subscribe", "check", "recheck"} /\ stream.item # Lagged
                => stream.item.live = TRUE)

\* A session that has ended stays so; tasks add only what is made under it.
LEMMA TaskStepLive ==
  ASSUME StreamInv, LiveInv, NEW t \in Tasks, TaskStep(t)
  PROVE  LiveInv'
<1>1. UNCHANGED <<stream, page>>
  BY DEF TaskStep, AcceptTurn, StopTurn, CloseRoom, ReadBack, DropHandler, Send, WriteDelta,
     CancelTurn, FinishTurn
<1>2. Live' => Live
  BY DEF TaskStep, AcceptTurn, StopTurn, CloseRoom, ReadBack, DropHandler, Send, WriteDelta,
     CancelTurn, FinishTurn, Live
<1>3. Live' => \A i \in 1..Len(hub'.kept) : hub'.kept[i].live = TRUE
  <2>1. CASE Send(t)
    <3> DEFINE e == [name |-> task[t].name, at |-> task[t].at, live |-> session = "live"]
    <3>1. e \in Event /\ Publish(e)
      BY <2>1, SentIsEvent DEF Send, StreamInv
    <3>2. Live => e.live = TRUE
      BY DEF Live
    <3> HIDE DEF e
    <3>3. \A i \in 1..Len(hub'.kept) :
            hub'.kept[i] = e \/ \E j \in 1..Len(hub.kept) : hub'.kept[i] = hub.kept[j]
      BY <3>1, HubTyped DEF StreamInv
    <3> QED
      BY <1>2, <3>2, <3>3 DEF LiveInv
  <2>2. CASE ~Send(t)
    <3>1. UNCHANGED hub
      BY <2>2 DEF TaskStep, AcceptTurn, StopTurn, CloseRoom, ReadBack, DropHandler, WriteDelta,
         CancelTurn, FinishTurn
    <3> QED
      BY <1>2, <3>1 DEF LiveInv
  <2> QED
    BY <2>1, <2>2
<1> QED
  BY <1>1, <1>2, <1>3 DEF LiveInv

\* The stream delivers only what it has checked the session for after it was made.
LEMMA StreamStepLive ==
  ASSUME StreamInv, LiveInv, StreamStep \/ StreamBreaks
  PROVE  LiveInv'
<1>0. TypeOK /\ ItemAtHand /\ stream \in StreamRecord(hub.sent)
  BY DEF StreamInv, TypeOK, StreamRecord
<1>1. UNCHANGED <<session, hub>>
  BY DEF StreamStep, StreamBreaks, StreamOpens, StreamSnapshot, StreamSubscribes, StreamTick,
     StreamReceives, StreamChecks, StreamResyncs, StreamRechecks, StreamYields
<1>2. ASSUME UNCHANGED page, stream'.pc \in {"off", "refused", "snapshot", "wait", "resync"}
      PROVE  LiveInv'
  BY <1>1, <1>2 DEF LiveInv, Live
<1>3. CASE StreamOpens \/ StreamTick \/ StreamBreaks
  BY <1>0, <1>2, <1>3 DEF StreamOpens, StreamTick, StreamBreaks, StreamEnds, Off, StreamRecord
<1>4. CASE StreamSnapshot \/ StreamResyncs
  <2>1. UNCHANGED page /\ stream'.pc \in {"subscribe", "recheck"} /\ stream'.item.live = Live
    BY <1>4, ReadRoomTyped DEF StreamSnapshot, StreamResyncs
  <2> QED
    BY <1>1, <2>1 DEF LiveInv, Live
<1>5. CASE StreamSubscribes
  <2>1. /\ UNCHANGED page /\ stream.pc = "subscribe" /\ stream'.pc = "recheck"
        /\ stream'.item = stream.item
    BY <1>0, <1>5 DEF StreamSubscribes, StreamRecord
  <2> QED
    BY <1>1, <2>1 DEF LiveInv, Live
<1>6. CASE StreamReceives
  <2>1. CASE stream.received < Oldest
    <3>1. UNCHANGED page /\ stream'.pc = "check" /\ stream'.item = Lagged
      BY <1>6, <2>1 DEF StreamReceives
    <3> QED
      BY <1>1, <3>1 DEF LiveInv, Live
  <2>2. CASE ~(stream.received < Oldest)
    <3> DEFINE i == stream.received + 1 - Oldest
    <3>1. i \in 1..Len(hub.kept)
      BY <1>0, <1>6, <2>2, ReceivedIsEvent DEF StreamReceives
    <3>2. stream' = [stream EXCEPT !.pc = "check", !.received = @ + 1, !.item = hub.kept[i]]
      BY <1>6, <2>2 DEF StreamReceives
    <3> HIDE DEF i
    <3>3. UNCHANGED page /\ stream'.pc = "check" /\ stream'.item = hub.kept[i]
      BY <1>0, <1>6, <3>2 DEF StreamReceives, StreamRecord
    <3> QED
      BY <1>1, <3>1, <3>3 DEF LiveInv, Live
  <2> QED
    BY <2>1, <2>2
<1>7. CASE StreamChecks \/ StreamRechecks
  <2>1. CASE StreamEnds
    BY <1>2, <1>7, <2>1 DEF StreamChecks, StreamRechecks, StreamEnds, Off
  <2>2. CASE ~StreamEnds
    <3>1. /\ Live /\ UNCHANGED page /\ stream.pc \in {"check", "recheck"}
          /\ stream'.item = stream.item
          /\ \/ stream'.pc = "resync"
             \/ stream'.pc = "yield" /\ (stream.pc = "check" => stream.item # Lagged)
      BY <1>0, <1>7, <2>2 DEF StreamChecks, StreamRechecks, AfterCheck, StreamRecord
    <3>2. stream.pc = "recheck" => stream.item # Lagged
      BY <1>0 DEF ItemAtHand, Snapshot, Lagged
    <3> QED
      BY <1>1, <3>1, <3>2 DEF LiveInv, Live
  <2> QED
    BY <2>1, <2>2
<1>8. CASE StreamYields
  <2>1. stream.item # Lagged /\ stream.item.live = TRUE
    BY <1>0, <1>8 DEF StreamYields, ItemAtHand, LiveInv, Event, Snapshot, Lagged, EventNames,
       HandlerEvents, TerminalEvents
  <2>2. page' = Applied(stream.item) /\ stream'.pc = "wait"
    BY <1>0, <1>8, <2>1 DEF StreamYields, StreamRecord
  <2>3. page'.live = stream.item.live
    <3>1. page \in [shown: Room, partial: 0..MaxDeltas, live: BOOLEAN]
      BY <1>0 DEF TypeOK
    <3>2. CASE stream.item.name = "turn.delta"
      BY <2>2, <3>1, <3>2 DEF Applied
    <3>3. CASE stream.item.name # "turn.delta"
      BY <2>2, <3>3 DEF Applied
    <3> QED
      BY <3>2, <3>3
  <2> QED
    BY <1>1, <2>1, <2>2, <2>3 DEF LiveInv, Live
<1> QED
  BY <1>3, <1>4, <1>5, <1>6, <1>7, <1>8 DEF StreamStep

\* Nothing that was published or read after the guest's session ended reaches the
\* page: guest_events looks at the session after each receive and after each
\* snapshot, and a session never comes back to life.
THEOREM NothingAfterSessionEndsInvariant == Spec => []NothingAfterSessionEnds
<1>1. Init => LiveInv
  BY DEF Init, LiveInv, Off
<1>2. StreamInv /\ LiveInv /\ [Next]_vars => LiveInv'
  <2> SUFFICES ASSUME StreamInv, LiveInv, [Next]_vars PROVE LiveInv'
    OBVIOUS
  <2>1. CASE EndSession
    BY <2>1 DEF EndSession, LiveInv, Live
  <2>2. CASE UNCHANGED vars
    BY <2>2 DEF vars, LiveInv, Live
  <2> QED
    BY <2>1, <2>2, TaskStepLive, StreamStepLive DEF Next
<1>3. LiveInv => NothingAfterSessionEnds
  BY DEF LiveInv, NothingAfterSessionEnds
<1> QED
  BY <1>1, <1>2, <1>3, StreamInvInit, StreamInvStep, PTL DEF Spec

-----------------------------------------------------------------------------
(* Lag *)

\* What the page is owed is never newer than the room; it is nothing unless the
\* receiver has lagged, and the snapshot in hand covers it.
LagInv ==
  /\ stream.owed <= room.version
  /\ stream.pc = "wait" => stream.owed = 0
  /\ stream.pc \in {"check", "yield"} /\ stream.item \in Event => stream.owed = 0
  /\ stream.pc \in {"subscribe", "recheck", "yield"} /\ stream.item \in Snapshot
       => stream.item.at.version >= stream.owed

\* Commits only make the room newer.
LEMMA VersionGrows ==
  ASSUME StreamInv, NEW t \in Tasks, TaskStep(t)
  PROVE  room'.version >= room.version
<1>0. room \in Room
  BY DEF StreamInv, TypeOK
<1>1. CASE UNCHANGED room
  BY <1>0, <1>1 DEF Room
<1>2. CASE AcceptTurn(t)
  <2> DEFINE r == [room EXCEPT !.turn = @ + 1, !.open = TRUE, !.partial = 0,
                               !.messages = @ + 1, !.status = "running"]
  <2>1. r.version = room.version /\ room'.version = r.version + 1
    BY <1>0, <1>2 DEF AcceptTurn, Commits, Room
  <2> QED
    BY <1>0, <2>1 DEF Room
<1>3. CASE StopTurn(t)
  BY <1>0, <1>3 DEF StopTurn, Commits, Room
<1>4. CASE CloseRoom(t)
  BY <1>0, <1>4 DEF CloseRoom, Commits, Room
<1>5. CASE WriteDelta(t)
  BY <1>0, <1>5 DEF WriteDelta, Room
<1>6. ASSUME NEW name \in TerminalEvents, FinishTurn(t, name)
      PROVE  room'.version >= room.version
  <2>1. CASE ~Drives(t)
    BY <1>1, <1>6, <2>1 DEF FinishTurn
  <2>2. CASE Drives(t)
    <3>1. PICK m, st : room' = [[room EXCEPT !.open = FALSE, !.messages = m, !.status = st]
                                  EXCEPT !.version = @ + 1]
      BY <1>6, <2>2, Zenon DEF FinishTurn, Commits
    <3> QED
      BY <1>0, <3>1 DEF Room
  <2> QED
    BY <2>1, <2>2
<1>7. CASE ReadBack(t) \/ DropHandler(t) \/ Send(t) \/ CancelTurn(t)
  BY <1>1, <1>7 DEF ReadBack, DropHandler, Send, CancelTurn
<1> QED
  BY <1>2, <1>3, <1>4, <1>5, <1>6, <1>7 DEF TaskStep

\* The kinds of items do not overlap.
LEMMA ItemKinds ==
  ASSUME NEW x
  PROVE  /\ x \in Event => x.name # "snapshot" /\ x \notin Snapshot /\ x # Lagged
         /\ x \in Snapshot => x.name = "snapshot" /\ x \notin Event /\ x # Lagged
         /\ Lagged \notin Event /\ Lagged \notin Snapshot
         /\ Nothing \notin Event /\ Nothing \notin Snapshot
BY DEF Event, Snapshot, Lagged, Nothing, EventNames, HandlerEvents, TerminalEvents

\* Each step of the stream keeps what is owed covered.
LEMMA StreamStepLag ==
  ASSUME StreamInv, LagInv, StreamStep \/ StreamBreaks
  PROVE  LagInv'
<1>0. TypeOK /\ ItemAtHand /\ stream \in StreamRecord(hub.sent) /\ room \in Room
  BY DEF StreamInv, TypeOK, StreamRecord
<1>1. UNCHANGED room
  BY DEF StreamStep, StreamBreaks, StreamOpens, StreamSnapshot, StreamSubscribes, StreamTick,
     StreamReceives, StreamChecks, StreamResyncs, StreamRechecks, StreamYields
<1>2. ASSUME stream'.pc \in {"off", "refused", "snapshot", "resync"},
             stream'.owed \in {0, stream.owed}
      PROVE  LagInv'
  BY <1>0, <1>1, <1>2 DEF LagInv, Room
<1>3. CASE StreamOpens \/ StreamTick \/ StreamBreaks
  BY <1>0, <1>2, <1>3 DEF StreamOpens, StreamTick, StreamBreaks, StreamEnds, Off, StreamRecord
<1>4. CASE StreamSnapshot \/ StreamResyncs
  <2>1. /\ stream'.pc \in {"subscribe", "recheck"} /\ stream'.item \in Snapshot
        /\ stream'.item.at = room /\ stream'.owed = stream.owed
    BY <1>4, ReadRoomTyped DEF StreamSnapshot, StreamResyncs
  <2> QED
    BY <1>0, <1>1, <2>1 DEF LagInv, StreamRecord, Room
<1>5. CASE StreamSubscribes
  <2>1. /\ stream.pc = "subscribe" /\ stream'.pc = "recheck"
        /\ stream'.item = stream.item /\ stream'.owed = stream.owed
    BY <1>0, <1>5 DEF StreamSubscribes, StreamRecord
  <2> QED
    BY <1>1, <2>1 DEF LagInv
<1>6. CASE StreamReceives
  <2>1. CASE stream.received < Oldest
    <3>1. stream'.pc = "check" /\ stream'.item = Lagged /\ stream'.owed = room.version
      BY <1>6, <2>1 DEF StreamReceives
    <3> QED
      BY <1>0, <1>1, <3>1, ItemKinds DEF LagInv, Room
  <2>2. CASE ~(stream.received < Oldest)
    <3>1. stream.pc = "wait" /\ stream'.pc = "check" /\ stream'.owed = stream.owed
      BY <1>0, <1>6, <2>2 DEF StreamReceives, StreamRecord
    <3> QED
      BY <1>1, <3>1 DEF LagInv
  <2> QED
    BY <2>1, <2>2
<1>7. CASE StreamChecks \/ StreamRechecks
  <2>1. CASE StreamEnds
    BY <1>2, <2>1 DEF StreamEnds, Off
  <2>2. CASE ~StreamEnds
    <3>1. /\ stream.pc \in {"check", "recheck"}
          /\ stream'.item = stream.item /\ stream'.owed = stream.owed
          /\ stream'.pc \in {"resync", "yield"}
      BY <1>0, <1>7, <2>2 DEF StreamChecks, StreamRechecks, AfterCheck, StreamRecord
    <3>2. stream.pc = "check" => stream.item \notin Snapshot
      BY <1>0, ItemKinds DEF ItemAtHand
    <3>3. stream.pc = "recheck" => stream.item \notin Event
      BY <1>0, ItemKinds DEF ItemAtHand
    <3> QED
      BY <1>1, <3>1, <3>2, <3>3 DEF LagInv
  <2> QED
    BY <2>1, <2>2
<1>8. CASE StreamYields
  <2>1. stream.pc = "yield" /\ stream.item \in Event \cup Snapshot
    BY <1>0, <1>8 DEF StreamYields, ItemAtHand
  <2>2. /\ stream'.pc = "wait" /\ stream'.item = Nothing
        /\ stream'.owed = IF stream.item.name = "snapshot" THEN 0 ELSE stream.owed
    BY <1>0, <1>8 DEF StreamYields, StreamRecord
  <2>3. stream'.owed = 0
    BY <2>1, <2>2, ItemKinds DEF LagInv
  <2> QED
    BY <1>0, <1>1, <2>2, <2>3 DEF LagInv, Room
<1> QED
  BY <1>3, <1>4, <1>5, <1>6, <1>7, <1>8 DEF StreamStep

\* A receiver that has lagged goes on only after a snapshot at least as new as
\* what it has missed, whatever the capacity of the channel.
THEOREM LagIsResyncedInvariant == Spec => []LagIsResynced
<1>1. Init => LagInv
  BY DEF Init, LagInv, Off
<1>2. StreamInv /\ LagInv /\ [Next]_vars => LagInv'
  <2> SUFFICES ASSUME StreamInv, LagInv, [Next]_vars PROVE LagInv'
    OBVIOUS
  <2>1. ASSUME NEW t \in Tasks, TaskStep(t) PROVE LagInv'
    <3>1. UNCHANGED stream
      BY <2>1 DEF TaskStep, AcceptTurn, StopTurn, CloseRoom, ReadBack, DropHandler, Send,
         WriteDelta, CancelTurn, FinishTurn
    <3>2. room.version \in Nat /\ room'.version \in Nat /\ stream.owed \in Nat
      BY <2>1, TaskTyped DEF StreamInv, TypeOK, TaskOK, Room
    <3>3. stream.owed <= room'.version
      BY <2>1, <3>2, VersionGrows DEF LagInv
    <3> QED
      BY <3>1, <3>3 DEF LagInv
  <2>2. CASE EndSession
    BY <2>2 DEF EndSession, LagInv
  <2>3. CASE UNCHANGED vars
    BY <2>3 DEF vars, LagInv
  <2> QED
    BY <2>1, <2>2, <2>3, StreamStepLag DEF Next
<1>3. StreamInv /\ LagInv => LagIsResynced
  <2> SUFFICES ASSUME StreamInv, LagInv PROVE LagIsResynced
    OBVIOUS
  <2>1. stream.pc = "yield" /\ stream.item.name = "snapshot" => stream.item \in Snapshot
    BY ItemKinds DEF StreamInv, ItemAtHand
  <2> QED
    BY <2>1 DEF LagInv, LagIsResynced
<1> QED
  BY <1>1, <1>2, <1>3, StreamInvInit, StreamInvStep, PTL DEF Spec
================================================================================
