------------------------------ MODULE RoomRuntime ------------------------------
(***************************************************************************)
(* RoomRuntime (backend/src/inference.rs) over the store: the request      *)
(* handlers that submit a turn, stop a run and close a room, the spawned   *)
(* generations that stream the model's answer into a run, and the active   *)
(* map that ties them together.  Handlers and generations are tasks of a   *)
(* multi-threaded runtime: they interleave at every lock they take and at  *)
(* every await.  A handler whose client goes away is dropped at an await;  *)
(* a restart drops every task and recovers the store.  An event is a wait  *)
(* here: its publish asks Core through a client without a timeout, so the  *)
(* task goes on when Core answers, which may be never.  Invites and        *)
(* sessions, which no task below reads, stay in RoomStore.                 *)
(***************************************************************************)
EXTENDS RoomStore

CONSTANTS
  Reqs,         \* handlers that may be in flight together
  Gens,         \* generations that may be in flight together
  NoGen,
  Disconnects,  \* TRUE: clients may go away before they are answered
  Restarts      \* TRUE: the process may stop and start again

ASSUME RuntimeAssumption ==
  /\ NoGen \notin Gens
  /\ Disconnects \in BOOLEAN /\ Restarts \in BOOLEAN

VARIABLES
  req,     \* the handlers in flight
  gen,     \* the spawned generations, each with its end of the cancel channel
  active   \* RoomRuntime.active: the generation registered for each room

runtimeVars == <<req, gen, active>>
vars == <<storeVars, runtimeVars>>

\* A handler's locals; run is 0 until there is one.
NoReq == [pc |-> "idle"]
Submit(pcs, runs) == [kind: {"submit"}, pc: pcs, room: Rooms, key: Keys \cup {NoKey},
                      text: Texts, run: runs, seen: RowStatuses]
Submits == Submit({"append"}, {0})
             \cup Submit({"read", "replay", "lookup", "publish", "start"}, RunIds)
Stops == [kind: {"stop"}, pc: {"signal", "stop", "remove", "publish"}, room: Rooms, run: RunIds]
Close(pcs, runs) == [kind: {"close"}, pc: pcs, room: Rooms, run: runs]
Closes == Close({"snapshot"}, {0})
            \cup Close({"signal", "stop", "remove", "publish"}, RunIds)
            \cup Close({"close", "clear", "closed"}, 0..MaxRuns)

NoRunning == [pc |-> "idle", run |-> 0]
Generation == [pc: {"connect", "stream", "delta", "finish", "fail", "publish", "exit"},
               room: Rooms, run: RunIds, cancel: BOOLEAN]

At(q, kinds, pc) == req[q].pc = pc /\ req[q].kind \in kinds
Goto(q, pc) == req' = [req EXCEPT ![q].pc = pc]
Done(q) == req' = [req EXCEPT ![q] = NoReq]
GenGoto(g, pc) == gen' = [gen EXCEPT ![g].pc = pc]

\* Mutant: whatever is registered goes, other runs' generations too.
ActiveWithout_AnyRun(r, n) == [active EXCEPT ![r] = NoGen]

\* Mutant: a generation that returns leaves its entry behind.
ActiveWithout_Kept(r, n) == active

\* remove_active: by room and run id, whichever generation is registered.
ActiveWithout(r, n) ==
  [active EXCEPT ![r] = IF @ # NoGen /\ gen[@].run = n THEN NoGen ELSE @]

-----------------------------------------------------------------------------
(* submit_turn *)

SubmitBegin(q, r, k, t) ==
  /\ req[q] = NoReq
  /\ req' = [req EXCEPT ![q] = [kind |-> "submit", pc |-> "append", room |-> r, key |-> k,
                                text |-> t, run |-> 0, seen |-> "queued"]]
  /\ UNCHANGED <<storeVars, gen, active>>

SubmitAppend(q) ==
  /\ At(q, {"submit"}, "append")
  /\ \E n \in RunIds :
       /\ AppendUserTurn(req[q].room, n, req[q].key, req[q].text)
       /\ req' = [req EXCEPT ![q].pc = "read", ![q].run = n]
  /\ UNCHANGED <<gen, active>>

SubmitReplay(q) ==
  /\ At(q, {"submit"}, "append")
  /\ status[req[q].room] \notin {"absent", "closed"}
  /\ \E n \in RunWithKey(req[q].room, req[q].key) :
       /\ run[n].text = req[q].text
       /\ req' = [req EXCEPT ![q].pc = "replay", ![q].run = n]
  /\ UNCHANGED <<storeVars, gen, active>>

\* notFound, closed, conflict, busy, a store that cannot seal, a database error.
SubmitRefused(q) ==
  /\ At(q, {"submit"}, "append")
  /\ \/ Faults
     \/ status[req[q].room] \in {"absent", "closed"}
     \/ ~writable
     \/ \E n \in RunWithKey(req[q].room, req[q].key) : run[n].text # req[q].text
     \/ /\ RunWithKey(req[q].room, req[q].key) = {}
        /\ \/ OpenRunsOf(req[q].room) # {}
           \/ \A n \in RunIds : run[n].status # "absent"  \* bound: MaxRuns
  /\ Done(q)
  /\ UNCHANGED <<storeVars, gen, active>>

\* append_user_turn answers run n; the key has served its purpose.
Accepted(q, n) ==
  req' = [req EXCEPT ![q].pc = "publish", ![q].run = n, ![q].seen = run[n].status,
                     ![q].key = NoKey]

\* The snapshot read back under a second lock; its current run is answered.
SubmitRead(q) ==
  /\ At(q, {"submit"}, "read")
  /\ LET r == req[q].room
         current == CurrentRun(r)
         prompt == [role |-> "user", text |-> req[q].text, run |-> req[q].run]
         kept == LoadMessages(r)
     IN \/ /\ current # 0 /\ \E i \in DOMAIN kept : kept[i] = prompt
           /\ Accepted(q, current)
        \/ /\ Faults \/ current = 0 \/ \A i \in DOMAIN kept : kept[i] # prompt
           /\ Done(q)
  /\ UNCHANGED <<storeVars, gen, active>>

\* A replay needs some kept prompt with its text, then the run's row; a process
\* that cannot seal may not be able to open them either.
SubmitReplayRead(q) ==
  /\ At(q, {"submit"}, "replay")
  /\ LET kept == LoadMessages(req[q].room)
         shown == \E i \in DOMAIN kept : kept[i].role = "user" /\ kept[i].text = req[q].text
     IN \/ shown /\ Goto(q, "lookup")
        \/ (Faults \/ ~writable \/ ~shown) /\ Done(q)
  /\ UNCHANGED <<storeVars, gen, active>>

SubmitReplayLookup(q) ==
  /\ At(q, {"submit"}, "lookup")
  /\ \/ HasRow(req[q].run) /\ Accepted(q, req[q].run)
     \/ (Faults \/ ~writable \/ ~HasRow(req[q].run)) /\ Done(q)
  /\ UNCHANGED <<storeVars, gen, active>>

\* turn.accepted reaches the hub and Core before the generation is started: Core
\* has answered.
SubmitPublish(q) ==
  /\ At(q, {"submit"}, "publish")
  /\ IF req[q].seen = "running" THEN Goto(q, "start") ELSE Done(q)
  /\ UNCHANGED <<storeVars, gen, active>>

\* Mutant: start_run does not look at the map.
Registered_Ignored(r) == FALSE

Registered(r) == active[r] # NoGen

\* start_run.  While any generation is registered for the room, it returns.
StartRun(q) ==
  /\ At(q, {"submit"}, "start")
  /\ Done(q)
  /\ LET r == req[q].room
     IN \/ Registered(r) /\ UNCHANGED <<gen, active>>
        \/ /\ ~Registered(r)
           /\ \E g \in Gens :
                /\ gen[g] = NoRunning
                /\ gen' = [gen EXCEPT ![g] = [pc |-> "connect", room |-> r,
                                              run |-> req[q].run, cancel |-> FALSE]]
                /\ active' = [active EXCEPT ![r] = g]
  /\ UNCHANGED storeVars

-----------------------------------------------------------------------------
(* stop_run, also called by close_room *)

StopBegin(q, n) ==
  /\ req[q] = NoReq
  /\ HasRow(n)
  /\ req' = [req EXCEPT ![q] = [kind |-> "stop", pc |-> "signal", room |-> run[n].room, run |-> n]]
  /\ UNCHANGED <<storeVars, gen, active>>

StopSignal(q) ==
  /\ At(q, {"stop", "close"}, "signal")
  /\ Goto(q, "stop")
  /\ LET g == active[req[q].room]
     IN gen' = IF g # NoGen /\ gen[g].run = req[q].run
               THEN [gen EXCEPT ![g].cancel = TRUE] ELSE gen
  /\ UNCHANGED <<storeVars, active>>

\* What the caller of stop_run does once it has returned.
StopReturns(q) == IF req[q].kind = "close" THEN Goto(q, "close") ELSE Done(q)

StopStore(q) ==
  /\ At(q, {"stop", "close"}, "stop")
  /\ StopRun(req[q].run)
  /\ Goto(q, "remove")
  /\ UNCHANGED <<gen, active>>

\* Mutant: a stop waits for the run instead of answering notFound.
StopRefused_OnlyUnwritable(q) ==
  /\ At(q, {"stop", "close"}, "stop")
  /\ ~writable
  /\ StopReturns(q)
  /\ UNCHANGED <<storeVars, gen, active>>

\* The run is no longer open, the message cannot be sealed, a database error.
StopRefused(q) ==
  /\ At(q, {"stop", "close"}, "stop")
  /\ ~Open(req[q].run) \/ ~writable \/ Faults
  /\ StopReturns(q)
  /\ UNCHANGED <<storeVars, gen, active>>

StopStoreTorn(q) ==
  /\ At(q, {"stop", "close"}, "stop")
  /\ StopRunTorn(req[q].run)
  /\ StopReturns(q)
  /\ UNCHANGED <<gen, active>>

\* remove_active, then the snapshot that turn.canceled carries, if it can be read.
StopRemove(q) ==
  /\ At(q, {"stop", "close"}, "remove")
  /\ active' = ActiveWithout(req[q].room, req[q].run)
  /\ Goto(q, "publish") \/ (Faults /\ StopReturns(q))
  /\ UNCHANGED <<storeVars, gen>>

\* Core has answered turn.canceled.
StopPublish(q) ==
  /\ At(q, {"stop", "close"}, "publish")
  /\ StopReturns(q)
  /\ UNCHANGED <<storeVars, gen, active>>

-----------------------------------------------------------------------------
(* close_room *)

CloseBegin(q, r) ==
  /\ req[q] = NoReq
  /\ req' = [req EXCEPT ![q] = [kind |-> "close", pc |-> "snapshot", room |-> r, run |-> 0]]
  /\ UNCHANGED <<storeVars, gen, active>>

CloseSnapshot(q) ==
  /\ At(q, {"close"}, "snapshot")
  /\ LET current == CurrentRun(req[q].room)
     IN \/ (Faults \/ ~writable \/ status[req[q].room] = "absent") /\ Done(q)
        \/ /\ status[req[q].room] # "absent"
           /\ IF current # 0 /\ Open(current)
              THEN req' = [req EXCEPT ![q].pc = "signal", ![q].run = current]
              ELSE Goto(q, "close")
  /\ UNCHANGED <<storeVars, gen, active>>

CloseStore(q) ==
  /\ At(q, {"close"}, "close")
  /\ CloseRoom(req[q].room)
  /\ Goto(q, "clear")
  /\ UNCHANGED <<gen, active>>

CloseRefused(q) ==
  /\ At(q, {"close"}, "close")
  /\ \/ (status[req[q].room] = "closed" \/ Faults) /\ UNCHANGED storeVars
     \/ CloseRoomTorn(req[q].room)
  /\ Done(q)
  /\ UNCHANGED <<gen, active>>

\* remove_active_for_room: the entry goes, its generation is not canceled.  Then
\* the snapshot that room.closed carries, if it can be read.
CloseClear(q) ==
  /\ At(q, {"close"}, "clear")
  /\ active' = [active EXCEPT ![req[q].room] = NoGen]
  /\ Goto(q, "closed") \/ ((Faults \/ ~writable) /\ Done(q))
  /\ UNCHANGED <<storeVars, gen>>

\* Core has answered room.closed.
ClosePublish(q) ==
  /\ At(q, {"close"}, "closed")
  /\ Done(q)
  /\ UNCHANGED <<storeVars, gen, active>>

-----------------------------------------------------------------------------
(* run_generation.  The model is external: it accepts or refuses the request,  *)
(* then sends deltas and at last one terminal event, an error or nothing.      *)

GenConnect(g) ==
  /\ gen[g].pc = "connect"
  /\ GenGoto(g, "stream") \/ GenGoto(g, "fail")
  /\ UNCHANGED <<storeVars, req, active>>

\* The cancel branch of the select.
GenCanceled(g) ==
  /\ gen[g].pc = "stream"
  /\ gen[g].cancel
  /\ GenGoto(g, "exit")
  /\ UNCHANGED <<storeVars, req, active>>

\* The delta is published, unless append_delta fails after the run's row is written.
GenDelta(g) ==
  /\ gen[g].pc = "stream"
  /\ AppendDelta(gen[g].run)
  /\ GenGoto(g, "delta") \/ (Faults /\ GenGoto(g, IF gen[g].cancel THEN "exit" ELSE "fail"))
  /\ UNCHANGED <<req, active>>

\* Core has answered turn.delta; a cancel is not looked at before.
GenDeltaPublish(g) ==
  /\ gen[g].pc = "delta"
  /\ GenGoto(g, "stream")
  /\ UNCHANGED <<storeVars, req, active>>

\* Mutant: a rejected delta ends the generation without failing the run.
GenDeltaRejected_Silent(g) ==
  /\ gen[g].pc = "stream"
  /\ run[gen[g].run].status = "running" /\ run[gen[g].run].partial = MaxPartial
  /\ GenGoto(g, "exit")
  /\ UNCHANGED <<storeVars, req, active>>

GenDeltaRejected(g) ==
  /\ gen[g].pc = "stream"
  /\ \/ run[gen[g].run].status # "running"
     \/ run[gen[g].run].status = "running" /\ run[gen[g].run].partial = MaxPartial
     \/ ~writable \/ Faults
  /\ GenGoto(g, IF gen[g].cancel THEN "exit" ELSE "fail")
  /\ UNCHANGED <<storeVars, req, active>>

\* A stop between this check and finish_run goes unnoticed.
GenCompleted(g) ==
  /\ gen[g].pc = "stream"
  /\ GenGoto(g, IF gen[g].cancel THEN "exit" ELSE "finish")
  /\ UNCHANGED <<storeVars, req, active>>

\* A failed event or a broken stream is dropped once canceled; a stream that
\* ends, or answers another request, fails the generation either way.
GenBroken(g) ==
  /\ gen[g].pc = "stream"
  /\ GenGoto(g, "fail") \/ (gen[g].cancel /\ GenGoto(g, "exit"))
  /\ UNCHANGED <<storeVars, req, active>>

\* A run that cannot be completed is failed; one that cannot be failed is left.
AfterError(pc) == IF pc = "finish" THEN "fail" ELSE "exit"

\* finish_run on an open run; on a finished one it only returns a snapshot,
\* which it may fail to read.
GenFinishes(g, pc, terminal) ==
  /\ gen[g].pc = pc
  /\ \/ FinishRun(gen[g].run, terminal)
     \/ run[gen[g].run].status \in TerminalStatuses /\ UNCHANGED storeVars
  /\ GenGoto(g, "publish") \/ (Faults /\ GenGoto(g, AfterError(pc)))
  /\ UNCHANGED <<req, active>>

GenFinish(g) == GenFinishes(g, "finish", "completed")

GenFail(g) == GenFinishes(g, "fail", "failed")

\* finish_run refuses: the row is gone, the store cannot seal, a database error.
GenFinishRefused(g) ==
  /\ gen[g].pc \in {"finish", "fail"}
  /\ ~HasRow(gen[g].run) \/ (Open(gen[g].run) /\ ~writable) \/ Faults
  /\ GenGoto(g, AfterError(gen[g].pc))
  /\ UNCHANGED <<storeVars, req, active>>

\* Core has answered turn.completed or turn.failed.
GenPublish(g) ==
  /\ gen[g].pc = "publish"
  /\ GenGoto(g, "exit")
  /\ UNCHANGED <<storeVars, req, active>>

GenExit(g) ==
  /\ gen[g].pc = "exit"
  /\ active' = ActiveWithout(gen[g].room, gen[g].run)
  /\ gen' = [gen EXCEPT ![g] = NoRunning]
  /\ UNCHANGED <<storeVars, req>>

-----------------------------------------------------------------------------

\* The handler's future is dropped while it waits for a lock or a publish.
Disconnect(q) ==
  /\ Disconnects
  /\ req[q].pc \in {"publish", "start", "signal", "remove", "clear", "closed"}
  /\ Done(q)
  /\ UNCHANGED <<storeVars, gen, active>>

\* The process stops and starts: main opens the store and recovers it.
Restart ==
  /\ Restarts
  /\ \/ \E w \in BOOLEAN : RecoverRunning(w)
     \/ \E w \in BOOLEAN, S \in SUBSET RunIds : RecoverRunningTorn(w, S)
  /\ req' = [q \in Reqs |-> NoReq]
  /\ gen' = [g \in Gens |-> NoRunning]
  /\ active' = [r \in Rooms |-> NoGen]

ReqBegin(q) ==
  \/ \E r \in Rooms, k \in Keys \cup {NoKey}, t \in Texts : SubmitBegin(q, r, k, t)
  \/ \E n \in RunIds : StopBegin(q, n)
  \/ \E r \in Rooms : CloseBegin(q, r)

\* A handler's steps that wait for no one outside the process.
ReqLocal(q) ==
  \/ SubmitAppend(q) \/ SubmitReplay(q) \/ SubmitRefused(q)
  \/ SubmitRead(q) \/ SubmitReplayRead(q) \/ SubmitReplayLookup(q) \/ StartRun(q)
  \/ StopSignal(q) \/ StopStore(q) \/ StopRefused(q) \/ StopStoreTorn(q) \/ StopRemove(q)
  \/ CloseSnapshot(q) \/ CloseStore(q) \/ CloseRefused(q) \/ CloseClear(q)

\* Its steps once Core has answered.
ReqAnswered(q) == SubmitPublish(q) \/ StopPublish(q) \/ ClosePublish(q)

ReqStep(q) == ReqLocal(q) \/ ReqAnswered(q)

\* A generation's steps that wait for no one outside the process.
GenLocal(g) ==
  GenCanceled(g) \/ GenFinish(g) \/ GenFail(g) \/ GenFinishRefused(g) \/ GenExit(g)

\* Its steps once the model or Core has answered.
GenAnswered(g) ==
  \/ GenConnect(g) \/ GenDelta(g) \/ GenDeltaRejected(g) \/ GenCompleted(g) \/ GenBroken(g)
  \/ GenDeltaPublish(g) \/ GenPublish(g)

GenStep(g) == GenLocal(g) \/ GenAnswered(g)

Init ==
  /\ StoreInit
  /\ req = [q \in Reqs |-> NoReq]
  /\ gen = [g \in Gens |-> NoRunning]
  /\ active = [r \in Rooms |-> NoGen]

Next ==
  \/ \E q \in Reqs : ReqBegin(q) \/ ReqStep(q) \/ Disconnect(q)
  \/ \E g \in Gens : GenStep(g)
  \/ \E r \in Rooms : CreateRoom(r) /\ UNCHANGED runtimeVars
  \/ Restart

Spec == Init /\ [][Next]_vars

\* Tasks that can run are eventually scheduled.  Nothing is assumed of Core and
\* the model: neither client has a timeout.
FairSpec ==
  /\ Spec
  /\ \A q \in Reqs : WF_vars(ReqLocal(q))
  /\ \A g \in Gens : WF_vars(GenLocal(g))

\* FairSpec where Core and the model do answer every request in the end.
AnsweringSpec ==
  /\ FairSpec
  /\ \A q \in Reqs : WF_vars(ReqAnswered(q))
  /\ \A g \in Gens : WF_vars(GenAnswered(g))
-----------------------------------------------------------------------------
(* Properties *)

\* Handlers, generations and the active map have their types, and
\* the store keeps its own under them.
TypeOK ==
  /\ StoreTypeOK
  /\ req \in [Reqs -> Submits \cup Stops \cup Closes \cup {NoReq}]
  /\ gen \in [Gens -> Generation \cup {NoRunning}]
  /\ active \in [Rooms -> Gens \cup {NoGen}]

\* A generation that may still write to its run.
Drives(g, n) ==
  gen[g].pc \in {"connect", "stream", "delta", "finish", "fail"} /\ gen[g].run = n

\* A generation that waits for the model, or for Core to answer a publish.  A
\* canceled one waits for the model only until it has answered the request.
Awaits(g) ==
  \/ gen[g].pc \in {"connect", "delta", "publish"}
  \/ gen[g].pc = "stream" /\ ~gen[g].cancel

\* A handler that waits for Core to answer a publish.
AwaitsCore(q) == req[q].pc \in {"publish", "closed"}

\* An entry of the active map belongs to a generation of that room that has not
\* returned: no order of exits, stops, closes and late starts leaves an entry
\* behind, which would keep every later turn of the room from starting.
ActiveIsLive ==
  \A r \in Rooms : active[r] # NoGen =>
    gen[active[r]] # NoRunning /\ gen[active[r]].room = r

\* While its room is not closed, an open run is written by one generation at
\* most, however often its turn was submitted and retried: two would interleave
\* their deltas in one answer.
OneWriterPerRun ==
  \A n \in RunIds : Open(n) /\ status[run[n].room] # "closed" =>
    \A g, h \in Gens : Drives(g, n) /\ Drives(h, n) => g = h

\* While its room is not closed, the generation that drives an open run is the
\* registered one, so that a stop reaches it.
DriverIsRegistered ==
  \A n \in RunIds : Open(n) /\ status[run[n].room] # "closed" =>
    \A g \in Gens : Drives(g, n) => active[run[n].room] = g

\* An open run that a generation drives is finished, through any stop, close,
\* disconnect or restart, as long as the store works; only an answer that never
\* comes, from the model or from Core, can hold it, and it holds that generation.
DrivenRunFinishes ==
  \A n \in RunIds, g \in Gens :
    (Open(n) /\ Drives(g, n)) ~> (~Open(n) \/ [](Drives(g, n) /\ Awaits(g)))

\* Every handler returns, unless its own publish is never answered: a stop or a
\* close does not depend on the model, nor on the generation it cancels.
HandlersReturn ==
  \A q \in Reqs : (req[q].pc # "idle") ~> (req[q].pc = "idle" \/ []AwaitsCore(q))

\* A room's slot in the active map is freed again, unless its generation waits for
\* ever for an answer; a canceled one no longer needs the model's.
SlotIsFreed ==
  \A r \in Rooms, g \in Gens :
    (active[r] = g) ~> (active[r] # g \/ []Awaits(g))

\* What the guest page tells a guest who is refused as busy: the prompt that is
\* running will finish, at least while Core and the model answer.
AcceptedTurnFinishes ==
  \A n \in RunIds : Open(n) ~> ~Open(n)

\* What the lifecycle test says of close: it has canceled the room's run.
ClosedRoomHasNoOpenRun ==
  \A r \in Rooms : status[r] = "closed" => OpenRunsOf(r) = {}
================================================================================
