--------------------------- MODULE RoomRuntimeProofs ---------------------------
(***************************************************************************)
(* Theorems about RoomRuntime, for any number of handlers, generations,    *)
(* rooms and runs: its types, that the active map holds only generations   *)
(* in flight, that it uses the store only through its operations, and that *)
(* an open run has one writer, the registered one.                         *)
(***************************************************************************)
EXTENDS RoomRuntime, RoomStoreProofs, WellFoundedInduction

\* The part of TypeOK that is the runtime's own.
RuntimeTypeOK ==
  /\ req \in [Reqs -> Submits \cup Stops \cup Closes \cup {NoReq}]
  /\ gen \in [Gens -> Generation \cup {NoRunning}]
  /\ active \in [Rooms -> Gens \cup {NoGen}]

-----------------------------------------------------------------------------
(* Every step of a task is a step of the store or leaves it alone *)

\* Handlers of a kind at a place that has a run hold its number.
LEMMA HandlerColumns ==
  ASSUME RuntimeTypeOK, NEW q \in Reqs
  PROVE  /\ At(q, {"submit"}, "append") =>
              /\ req[q].room \in Rooms /\ req[q].key \in Keys \cup {NoKey}
              /\ req[q].text \in Texts
         /\ \A pc \in {"stop", "remove"} : At(q, {"stop", "close"}, pc) =>
              req[q].room \in Rooms /\ req[q].run \in RunIds
         /\ At(q, {"close"}, "close") => req[q].room \in Rooms
<1>1. req[q] \in Submits \cup Stops \cup Closes \cup {NoReq}
  BY DEF RuntimeTypeOK
<1>2. CASE req[q] \in Submits
  BY <1>2 DEF Submits, Submit, At
<1>3. CASE req[q] \in Stops
  BY <1>3 DEF Stops, At
<1>4. CASE req[q] \in Closes
  BY <1>4 DEF Closes, Close, At
<1>5. CASE req[q] = NoReq
  BY <1>5 DEF NoReq, At
<1> QED
  BY <1>1, <1>2, <1>3, <1>4, <1>5

\* A generation in flight has all its columns.
LEMMA GenerationColumns ==
  ASSUME RuntimeTypeOK, NEW g \in Gens, gen[g].pc # "idle"
  PROVE  gen[g] \in Generation
BY DEF RuntimeTypeOK, NoRunning

\* A request that arrives touches no table.
LEMMA ReqBeginIsLocal ==
  ASSUME NEW q \in Reqs, ReqBegin(q) PROVE UNCHANGED storeVars
BY DEF ReqBegin, SubmitBegin, StopBegin, CloseBegin

\* A handler calls one operation of the store per step, or none.
LEMMA ReqStepIsStoreStep ==
  ASSUME RuntimeTypeOK, NEW q \in Reqs, ReqStep(q)
  PROVE  StoreNext \/ UNCHANGED storeVars
<1>1. CASE SubmitAppend(q)
  BY <1>1, HandlerColumns DEF SubmitAppend, StoreNext
<1>2. CASE StopStore(q)
  BY <1>2, HandlerColumns DEF StopStore, StoreNext
<1>3. CASE StopStoreTorn(q)
  BY <1>3, HandlerColumns DEF StopStoreTorn, StoreNext
<1>4. CASE CloseStore(q)
  BY <1>4, HandlerColumns DEF CloseStore, StoreNext
<1>5. CASE CloseRefused(q)
  BY <1>5, HandlerColumns DEF CloseRefused, StoreNext
<1>6. CASE \/ SubmitReplay(q) \/ SubmitRefused(q) \/ SubmitRead(q) \/ SubmitReplayRead(q)
           \/ SubmitReplayLookup(q) \/ SubmitPublish(q) \/ StartRun(q)
  BY <1>6 DEF SubmitReplay, SubmitRefused, SubmitRead, SubmitReplayRead, SubmitReplayLookup,
     SubmitPublish, StartRun
<1>7. CASE \/ StopSignal(q) \/ StopRefused(q) \/ StopRemove(q) \/ StopPublish(q)
           \/ CloseSnapshot(q) \/ CloseClear(q) \/ ClosePublish(q)
  BY <1>7 DEF StopSignal, StopRefused, StopRemove, StopPublish, CloseSnapshot, CloseClear,
     ClosePublish
<1> QED
  BY <1>1, <1>2, <1>3, <1>4, <1>5, <1>6, <1>7 DEF ReqStep, ReqLocal, ReqAnswered

\* So does a generation.
LEMMA GenStepIsStoreStep ==
  ASSUME RuntimeTypeOK, NEW g \in Gens, GenStep(g)
  PROVE  StoreNext \/ UNCHANGED storeVars
<1>1. ASSUME NEW pc \in {"stream", "finish", "fail"}, gen[g].pc = pc PROVE gen[g].run \in RunIds
  BY <1>1, GenerationColumns DEF Generation
<1>2. CASE GenDelta(g)
  BY <1>1, <1>2 DEF GenDelta, StoreNext
<1>3. CASE GenFinish(g)
  <2>1. gen[g].run \in RunIds
    BY <1>1, <1>3 DEF GenFinish, GenFinishes
  <2> QED
    BY <1>3, <2>1 DEF GenFinish, GenFinishes, StoreNext
<1>4. CASE GenFail(g)
  <2>1. gen[g].run \in RunIds
    BY <1>1, <1>4 DEF GenFail, GenFinishes
  <2> QED
    BY <1>4, <2>1 DEF GenFail, GenFinishes, StoreNext
<1>5. CASE \/ GenConnect(g) \/ GenCanceled(g) \/ GenDeltaRejected(g) \/ GenCompleted(g)
           \/ GenBroken(g) \/ GenFinishRefused(g) \/ GenDeltaPublish(g) \/ GenPublish(g) \/ GenExit(g)
  BY <1>5 DEF GenConnect, GenCanceled, GenDeltaRejected, GenCompleted, GenBroken,
     GenFinishRefused, GenDeltaPublish,
     GenPublish, GenExit
<1> QED
  BY <1>2, <1>3, <1>4, <1>5 DEF GenStep, GenLocal, GenAnswered

\* Every step of the runtime is a step of the store or leaves it alone.
LEMMA NextIsStoreStep ==
  ASSUME RuntimeTypeOK, [Next]_vars
  PROVE  [StoreNext]_storeVars
<1>1. CASE \E q \in Reqs : ReqBegin(q) \/ ReqStep(q) \/ Disconnect(q)
  BY <1>1, ReqBeginIsLocal, ReqStepIsStoreStep DEF Disconnect
<1>2. CASE \E g \in Gens : GenStep(g)
  BY <1>2, GenStepIsStoreStep
<1>3. CASE \E r \in Rooms : CreateRoom(r) /\ UNCHANGED runtimeVars
  BY <1>3 DEF StoreNext
<1>4. CASE Restart
  BY <1>4 DEF Restart, StoreNext
<1>5. CASE UNCHANGED vars
  BY <1>5 DEF vars
<1> QED
  BY <1>1, <1>2, <1>3, <1>4, <1>5 DEF Next

-----------------------------------------------------------------------------
(* Types *)

\* A set of ids below a bound has a newest one.
LEMMA NewestExists ==
  ASSUME NEW N \in Nat, NEW S, S \subseteq 1..N, S # {}
  PROVE  \E n \in S : \A m \in S : m <= n
<1> DEFINE T == {y \in Nat : N - y \in S}
<1>1. \A n \in S : n \in Nat /\ N - n \in Nat /\ N - (N - n) = n
  OBVIOUS
<1>2. T \subseteq Nat /\ \A n \in S : N - n \in T
  BY <1>1
<1>3. T # {}
  BY <1>2
<1>4. PICK x \in T : \A y \in T : <<y, x>> \notin OpToRel(<, Nat)
  BY <1>2, <1>3, WFMin, NatLessThanWellFounded, Zenon
<1>5. \A y \in T : ~(y < x)
  BY <1>2, <1>4 DEF OpToRel
<1>6. N - x \in S /\ x \in Nat
  OBVIOUS
<1>7. ASSUME NEW m \in S PROVE m <= N - x
  BY <1>1, <1>2, <1>5, <1>6
<1> QED
  BY <1>6, <1>7

\* The run a room shows has a row.
LEMMA CurrentRunHasRow ==
  ASSUME NEW r \in Rooms, CurrentRun(r) # 0
  PROVE  /\ CurrentRun(r) \in RunIds /\ run[CurrentRun(r)].status \in RowStatuses
         /\ run[CurrentRun(r)].room = r
<1> DEFINE shown == {n \in RunsOf(r) : run[n].status \in OpenStatuses \cup {"failed"}}
<1>1. shown # {} /\ CurrentRun(r) = CHOOSE n \in shown : \A m \in shown : m <= n
  BY DEF CurrentRun
<1>2. shown \subseteq 1..MaxRuns
  BY DEF RunsOf, RunIds
<1>3. \E n \in shown : \A m \in shown : m <= n
  BY <1>1, <1>2, NewestExists, BoundsAssumption
<1>4. CurrentRun(r) \in shown
  BY <1>1, <1>3, Zenon
<1> QED
  BY <1>4 DEF RunsOf, HasRow

\* The type of a handler's slot.
Handlers == Submits \cup Stops \cup Closes \cup {NoReq}

\* A handler away from idle is of the kind it says.
LEMMA HandlerKinds ==
  ASSUME RuntimeTypeOK, NEW q \in Reqs
  PROVE  /\ \A pc : At(q, {"submit"}, pc) /\ pc # "idle" => req[q] \in Submits
         /\ \A pc : At(q, {"close"}, pc) /\ pc # "idle" => req[q] \in Closes
         /\ \A pc : At(q, {"stop", "close"}, pc) /\ pc # "idle" => req[q] \in Stops \cup Closes
<1>1. req[q] \in Submits \cup Stops \cup Closes \cup {NoReq}
  BY DEF RuntimeTypeOK
<1>2. CASE req[q] \in Submits
  BY <1>2 DEF Submits, Submit, At
<1>3. CASE req[q] \in Stops
  BY <1>3 DEF Stops, At
<1>4. CASE req[q] \in Closes
  BY <1>4 DEF Closes, Close, At
<1>5. CASE req[q] = NoReq
  BY <1>5 DEF NoReq, At
<1> QED
  BY <1>1, <1>2, <1>3, <1>4, <1>5

\* Replacing one handler by another of the type keeps the type.
LEMMA HandlerReplaced ==
  ASSUME RuntimeTypeOK, NEW q \in Reqs, NEW h \in Handlers
  PROVE  [req EXCEPT ![q] = h] \in [Reqs -> Handlers]
BY DEF RuntimeTypeOK, Handlers

\* A handler that returns leaves a free slot.
LEMMA HandlerDone ==
  ASSUME RuntimeTypeOK, NEW q \in Reqs, Done(q)
  PROVE  req' \in [Reqs -> Handlers]
BY HandlerReplaced DEF Done, Handlers

\* So does moving one to another place.
LEMMA HandlerMoves ==
  ASSUME RuntimeTypeOK, NEW q \in Reqs, NEW pc, Goto(q, pc),
         [req[q] EXCEPT !.pc = pc] \in Handlers
  PROVE  req' \in [Reqs -> Handlers]
BY HandlerReplaced DEF Goto, RuntimeTypeOK

\* Each step of submit_turn keeps the handlers' type: a run it is answered has a row.
LEMMA SubmitTyped ==
  ASSUME StoreTypeOK, RuntimeTypeOK, NEW q \in Reqs,
         \/ SubmitAppend(q) \/ SubmitReplay(q) \/ SubmitRefused(q)
         \/ SubmitRead(q) \/ SubmitReplayRead(q) \/ SubmitReplayLookup(q)
         \/ SubmitPublish(q) \/ StartRun(q)
  PROVE  req' \in [Reqs -> Handlers]
<1>1. req[q] \in Submits
  BY HandlerKinds DEF SubmitAppend, SubmitReplay, SubmitRefused, SubmitRead, SubmitReplayRead,
     SubmitReplayLookup, SubmitPublish, StartRun
<1>2. ASSUME NEW n \in RunIds, NEW pc \in {"read", "replay"},
             req' = [req EXCEPT ![q].pc = pc, ![q].run = n]
      PROVE  req' \in [Reqs -> Handlers]
  <2>1. [req[q] EXCEPT !.pc = pc, !.run = n] \in Handlers
    BY <1>1 DEF Handlers, Submits, Submit
  <2>2. req' = [req EXCEPT ![q] = [req[q] EXCEPT !.pc = pc, !.run = n]]
    BY <1>2 DEF RuntimeTypeOK
  <2> QED
    BY <2>1, <2>2, HandlerReplaced
<1>3. ASSUME NEW n \in RunIds, HasRow(n), Accepted(q, n)
      PROVE  req' \in [Reqs -> Handlers]
  <2> DEFINE h == [req[q] EXCEPT !.pc = "publish", !.run = n, !.seen = run[n].status,
                                 !.key = NoKey]
  <2>1. h \in Handlers
    BY <1>1, <1>3 DEF Handlers, Submits, Submit, HasRow
  <2>2. req' = [req EXCEPT ![q] = h]
    BY <1>3 DEF RuntimeTypeOK, Accepted
  <2> QED
    BY <2>1, <2>2, HandlerReplaced
<1>4. CASE SubmitAppend(q)
  BY <1>2, <1>4 DEF SubmitAppend
<1>5. CASE SubmitReplay(q)
  BY <1>2, <1>5 DEF SubmitReplay, RunWithKey, RunsOf
<1>6. CASE SubmitRead(q)
  <2>1. req[q].room \in Rooms
    BY <1>1 DEF Submits, Submit
  <2>2. CASE Done(q)
    BY <2>2, HandlerDone
  <2>3. CASE CurrentRun(req[q].room) # 0 /\ Accepted(q, CurrentRun(req[q].room))
    BY <1>3, <2>1, <2>3, CurrentRunHasRow DEF HasRow
  <2> QED
    BY <1>6, <2>2, <2>3 DEF SubmitRead
<1>7. CASE SubmitReplayRead(q)
  <2>1. [req[q] EXCEPT !.pc = "lookup"] \in Handlers
    BY <1>1, <1>7 DEF SubmitReplayRead, At, Handlers, Submits, Submit
  <2> QED
    BY <1>7, <2>1, HandlerMoves, HandlerDone DEF SubmitReplayRead
<1>8. CASE SubmitReplayLookup(q)
  <2>1. req[q].run \in RunIds
    BY <1>1, <1>8 DEF SubmitReplayLookup, At, Submits, Submit
  <2> QED
    BY <1>3, <1>8, <2>1, HandlerDone DEF SubmitReplayLookup
<1>9. CASE SubmitPublish(q)
  <2>1. [req[q] EXCEPT !.pc = "start"] \in Handlers
    BY <1>1, <1>9 DEF SubmitPublish, At, Handlers, Submits, Submit
  <2> QED
    BY <1>9, <2>1, HandlerMoves, HandlerDone DEF SubmitPublish
<1>10. CASE SubmitRefused(q) \/ StartRun(q)
  BY <1>10, HandlerDone DEF SubmitRefused, StartRun
<1> QED
  BY <1>4, <1>5, <1>6, <1>7, <1>8, <1>9, <1>10

\* Each step of stop_run and close_room keeps it.
LEMMA StopAndCloseTyped ==
  ASSUME RuntimeTypeOK, NEW q \in Reqs,
         \/ StopSignal(q) \/ StopStore(q) \/ StopRefused(q) \/ StopStoreTorn(q)
         \/ StopRemove(q) \/ StopPublish(q)
         \/ CloseSnapshot(q) \/ CloseStore(q) \/ CloseRefused(q) \/ CloseClear(q)
         \/ ClosePublish(q)
  PROVE  req' \in [Reqs -> Handlers]
<1>1. req[q] \in Stops \cup Closes
  BY HandlerKinds DEF StopSignal, StopStore, StopRefused, StopStoreTorn, StopRemove, StopPublish,
     CloseSnapshot, CloseStore, CloseRefused, CloseClear, ClosePublish
<1>2. ASSUME StopReturns(q), NEW pc \in {"stop", "remove", "publish"}, At(q, {"stop", "close"}, pc)
      PROVE  req' \in [Reqs -> Handlers]
  <2>1. req[q].kind = "close" => [req[q] EXCEPT !.pc = "close"] \in Handlers
    BY <1>1, <1>2, BoundsAssumption DEF At, Handlers, Stops, Closes, Close, RunIds
  <2> QED
    BY <1>2, <2>1, HandlerMoves, HandlerDone DEF StopReturns
<1>3. CASE StopSignal(q)
  <2>1. [req[q] EXCEPT !.pc = "stop"] \in Handlers
    BY <1>1, <1>3 DEF StopSignal, At, Handlers, Stops, Closes, Close
  <2> QED
    BY <1>3, <2>1, HandlerMoves DEF StopSignal
<1>4. CASE StopStore(q)
  <2>1. [req[q] EXCEPT !.pc = "remove"] \in Handlers
    BY <1>1, <1>4 DEF StopStore, At, Handlers, Stops, Closes, Close
  <2> QED
    BY <1>4, <2>1, HandlerMoves DEF StopStore
<1>5. CASE StopRefused(q) \/ StopStoreTorn(q)
  BY <1>2, <1>5 DEF StopRefused, StopStoreTorn
<1>6. CASE StopRemove(q)
  <2>1. [req[q] EXCEPT !.pc = "publish"] \in Handlers
    BY <1>1, <1>6 DEF StopRemove, At, Handlers, Stops, Closes, Close
  <2> QED
    BY <1>2, <1>6, <2>1, HandlerMoves DEF StopRemove
<1>7. CASE StopPublish(q)
  BY <1>2, <1>7 DEF StopPublish
<1>8. CASE CloseSnapshot(q)
  <2>1. req[q] \in Close({"snapshot"}, {0})
    BY <1>1, <1>8 DEF CloseSnapshot, At, Stops, Closes, Close
  <2>2. [req[q] EXCEPT !.pc = "close"] \in Handlers
    BY <2>1, BoundsAssumption DEF Handlers, Closes, Close
  <2>3. ASSUME NEW n \in RunIds, req' = [req EXCEPT ![q].pc = "signal", ![q].run = n]
        PROVE  req' \in [Reqs -> Handlers]
    <3>1. [req[q] EXCEPT !.pc = "signal", !.run = n] \in Handlers
      BY <2>1 DEF Handlers, Closes, Close
    <3>2. req' = [req EXCEPT ![q] = [req[q] EXCEPT !.pc = "signal", !.run = n]]
      BY <2>3 DEF RuntimeTypeOK
    <3> QED
      BY <3>1, <3>2, HandlerReplaced
  <2>4. CurrentRun(req[q].room) # 0 => CurrentRun(req[q].room) \in RunIds
    BY <2>1, CurrentRunHasRow DEF Close
  <2> QED
    BY <1>8, <2>2, <2>3, <2>4, HandlerMoves, HandlerDone DEF CloseSnapshot
<1>9. CASE CloseStore(q)
  <2>1. [req[q] EXCEPT !.pc = "clear"] \in Handlers
    BY <1>1, <1>9 DEF CloseStore, At, Handlers, Stops, Closes, Close
  <2> QED
    BY <1>9, <2>1, HandlerMoves DEF CloseStore
<1>10. CASE CloseClear(q)
  <2>1. [req[q] EXCEPT !.pc = "closed"] \in Handlers
    BY <1>1, <1>10 DEF CloseClear, At, Handlers, Stops, Closes, Close
  <2> QED
    BY <1>10, <2>1, HandlerMoves, HandlerDone DEF CloseClear
<1>11. CASE CloseRefused(q) \/ ClosePublish(q)
  BY <1>11, HandlerDone DEF CloseRefused, ClosePublish
<1> QED
  BY <1>3, <1>4, <1>5, <1>6, <1>7, <1>8, <1>9, <1>10, <1>11

\* A request that arrives has the columns of its kind.
LEMMA BeginTyped ==
  ASSUME StoreTypeOK, RuntimeTypeOK, NEW q \in Reqs, ReqBegin(q)
  PROVE  req' \in [Reqs -> Handlers]
<1>1. ASSUME NEW r \in Rooms, NEW k \in Keys \cup {NoKey}, NEW t \in Texts, SubmitBegin(q, r, k, t)
      PROVE  req' \in [Reqs -> Handlers]
  BY <1>1, HandlerReplaced DEF SubmitBegin, Handlers, Submits, Submit, RowStatuses, OpenStatuses
<1>2. ASSUME NEW n \in RunIds, StopBegin(q, n) PROVE req' \in [Reqs -> Handlers]
  <2>1. run[n].room \in Rooms
    BY <1>2, RowColumns DEF StopBegin, RunRow
  <2> QED
    BY <1>2, <2>1, HandlerReplaced DEF StopBegin, Handlers, Stops
<1>3. ASSUME NEW r \in Rooms, CloseBegin(q, r) PROVE req' \in [Reqs -> Handlers]
  BY <1>3, HandlerReplaced DEF CloseBegin, Handlers, Closes, Close
<1> QED
  BY <1>1, <1>2, <1>3 DEF ReqBegin

-----------------------------------------------------------------------------
(* The active map *)

\* The inductive invariant.
RuntimeInv == StoreTypeOK /\ RuntimeTypeOK /\ ActiveIsLive

\* What a step must leave of gen and active: their types, and no entry for a
\* generation that has returned.
RegistryOK ==
  /\ gen \in [Gens -> Generation \cup {NoRunning}]
  /\ active \in [Rooms -> Gens \cup {NoGen}]
  /\ ActiveIsLive

\* Entries may go at any time.
LEMMA EntryDropped ==
  ASSUME RuntimeInv, UNCHANGED gen, NEW r \in Rooms, NEW g \in {NoGen, active[r]},
         active' = [active EXCEPT ![r] = g]
  PROVE  RegistryOK'
BY DEF RuntimeInv, RuntimeTypeOK, RegistryOK, ActiveIsLive

\* A generation moves on within its run; it is still in flight.
LEMMA GenerationMoves ==
  ASSUME RuntimeInv, UNCHANGED active, NEW g \in Gens, gen[g] \in Generation,
         NEW h \in Generation, h.room = gen[g].room, gen' = [gen EXCEPT ![g] = h]
  PROVE  RegistryOK'
<1>1. h # NoRunning
  BY DEF Generation, NoRunning
<1>2. gen' \in [Gens -> Generation \cup {NoRunning}]
  BY DEF RuntimeInv, RuntimeTypeOK
<1>3. ASSUME NEW r \in Rooms, active[r] # NoGen
      PROVE  gen'[active[r]] # NoRunning /\ gen'[active[r]].room = r
  BY <1>1, <1>3 DEF RuntimeInv, RuntimeTypeOK, ActiveIsLive
<1> QED
  BY <1>2, <1>3 DEF RuntimeInv, RuntimeTypeOK, RegistryOK, ActiveIsLive

\* Every step of a generation but its return leaves the map right.
LEMMA GenGotoKeepsRegistry ==
  ASSUME RuntimeInv, UNCHANGED active, NEW g \in Gens, gen[g].pc # "idle",
         NEW pc \in {"connect", "stream", "delta", "finish", "fail", "publish", "exit"},
         GenGoto(g, pc)
  PROVE  RegistryOK'
<1>1. gen[g] \in Generation
  BY GenerationColumns DEF RuntimeInv
<1>2. /\ [gen[g] EXCEPT !.pc = pc] \in Generation
      /\ [gen[g] EXCEPT !.pc = pc].room = gen[g].room
  BY <1>1 DEF Generation
<1>3. gen' = [gen EXCEPT ![g] = [gen[g] EXCEPT !.pc = pc]]
  BY DEF GenGoto, RuntimeInv, RuntimeTypeOK
<1> QED
  BY <1>1, <1>2, <1>3, GenerationMoves

\* start_run registers a generation that nobody else is registered as.
LEMMA StartRunRegisters ==
  ASSUME RuntimeInv, NEW q \in Reqs, StartRun(q)
  PROVE  RegistryOK'
<1>1. CASE UNCHANGED <<gen, active>>
  BY <1>1 DEF RuntimeInv, RuntimeTypeOK, RegistryOK, ActiveIsLive
<1>2. ASSUME NEW g \in Gens, gen[g] = NoRunning,
             gen' = [gen EXCEPT ![g] = [pc |-> "connect", room |-> req[q].room,
                                        run |-> req[q].run, cancel |-> FALSE]],
             active' = [active EXCEPT ![req[q].room] = g]
      PROVE  RegistryOK'
  <2>1. At(q, {"submit"}, "start") /\ req[q] \in Submits
    BY HandlerKinds DEF StartRun, RuntimeInv
  <2>2. req[q].room \in Rooms /\ req[q].run \in RunIds
    BY <2>1 DEF At, Submits, Submit
  <2>3. \A r \in Rooms : active[r] # g
    BY <1>2, RuntimeAssumption DEF RuntimeInv, ActiveIsLive
  <2> DEFINE h == [pc |-> "connect", room |-> req[q].room, run |-> req[q].run, cancel |-> FALSE]
  <2>4. h \in Generation /\ h # NoRunning /\ h.room = req[q].room
    BY <2>2 DEF Generation, NoRunning
  <2>5. /\ gen' \in [Gens -> Generation \cup {NoRunning}]
        /\ active' \in [Rooms -> Gens \cup {NoGen}]
    BY <1>2, <2>2, <2>4 DEF RuntimeInv, RuntimeTypeOK
  <2>6. gen'[g] = h /\ \A k \in Gens \ {g} : gen'[k] = gen[k]
    BY <1>2 DEF RuntimeInv, RuntimeTypeOK
  <2>7. active'[req[q].room] = g /\ \A r \in Rooms \ {req[q].room} : active'[r] = active[r]
    BY <1>2, <2>2 DEF RuntimeInv, RuntimeTypeOK
  <2>8. ASSUME NEW r \in Rooms, active'[r] # NoGen
        PROVE  gen'[active'[r]] # NoRunning /\ gen'[active'[r]].room = r
    <3>1. CASE r = req[q].room
      BY <3>1, <2>4, <2>6, <2>7
    <3>2. CASE r # req[q].room
      <4>1. active'[r] = active[r] /\ active[r] \in Gens \ {g}
        BY <2>3, <2>7, <2>8, <3>2 DEF RuntimeInv, RuntimeTypeOK
      <4> QED
        BY <2>6, <2>8, <4>1 DEF RuntimeInv, ActiveIsLive
    <3> QED
      BY <3>1, <3>2
  <2> QED
    BY <2>5, <2>8 DEF RegistryOK, ActiveIsLive
<1> QED
  BY <1>1, <1>2 DEF StartRun

\* remove_active drops the entry of the generation that returns, wherever it
\* is registered: only under its own room.
LEMMA GenExitUnregisters ==
  ASSUME RuntimeInv, NEW g \in Gens, GenExit(g)
  PROVE  RegistryOK'
<1>1. gen[g] \in Generation
  BY GenerationColumns DEF GenExit, RuntimeInv
<1>2. gen[g].room \in Rooms
  BY <1>1 DEF Generation
<1>3. /\ gen' \in [Gens -> Generation \cup {NoRunning}]
      /\ active' \in [Rooms -> Gens \cup {NoGen}]
  BY <1>2 DEF GenExit, ActiveWithout, RuntimeInv, RuntimeTypeOK
<1>4. \A k \in Gens \ {g} : gen'[k] = gen[k]
  BY DEF GenExit, RuntimeInv, RuntimeTypeOK
<1>5. ASSUME NEW r \in Rooms, active'[r] # NoGen
      PROVE  active'[r] = active[r] /\ active[r] \in Gens \ {g}
  <2>1. CASE r = gen[g].room
    BY <1>5, <2>1 DEF GenExit, ActiveWithout, RuntimeInv, RuntimeTypeOK
  <2>2. CASE r # gen[g].room
    <3>1. active'[r] = active[r]
      BY <2>2, <1>2 DEF GenExit, ActiveWithout, RuntimeInv, RuntimeTypeOK
    <3>2. active[r] # g
      BY <1>5, <2>2, <3>1 DEF RuntimeInv, ActiveIsLive
    <3> QED
      BY <1>5, <3>1, <3>2 DEF RuntimeInv, RuntimeTypeOK
  <2> QED
    BY <2>1, <2>2
<1> QED
  BY <1>3, <1>4, <1>5 DEF RegistryOK, RuntimeInv, ActiveIsLive

\* Handlers register a generation, signal it or drop an entry.
LEMMA ReqStepRegistry ==
  ASSUME RuntimeInv, NEW q \in Reqs, ReqBegin(q) \/ ReqStep(q) \/ Disconnect(q)
  PROVE  RegistryOK'
<1>1. CASE UNCHANGED <<gen, active>>
  BY <1>1 DEF RuntimeInv, RuntimeTypeOK, RegistryOK, ActiveIsLive
<1>2. CASE StartRun(q)
  BY <1>2, StartRunRegisters
<1>3. CASE StopSignal(q)
  <2>1. req[q].room \in Rooms
    BY <1>3, HandlerKinds DEF StopSignal, RuntimeInv, Stops, Closes, Close
  <2> DEFINE g == active[req[q].room]
  <2>2. CASE gen' = gen
    BY <1>1, <1>3, <2>2 DEF StopSignal
  <2>3. CASE g # NoGen /\ gen' = [gen EXCEPT ![g].cancel = TRUE]
    <3>1. g \in Gens /\ gen[g] \in Generation
      BY <2>1, <2>3 DEF RuntimeInv, RuntimeTypeOK, ActiveIsLive
    <3>2. /\ [gen[g] EXCEPT !.cancel = TRUE] \in Generation
          /\ [gen[g] EXCEPT !.cancel = TRUE].room = gen[g].room
      BY <3>1 DEF Generation
    <3>3. gen' = [gen EXCEPT ![g] = [gen[g] EXCEPT !.cancel = TRUE]]
      BY <2>3, <3>1 DEF RuntimeInv, RuntimeTypeOK
    <3> QED
      BY <1>3, <3>1, <3>2, <3>3, GenerationMoves DEF StopSignal
  <2> QED
    BY <1>3, <2>2, <2>3 DEF StopSignal
<1>4. CASE StopRemove(q)
  <2>1. req[q].room \in Rooms
    BY <1>4, HandlerColumns DEF StopRemove, RuntimeInv
  <2>2. UNCHANGED gen /\ \E g \in {NoGen, active[req[q].room]} :
          active' = [active EXCEPT ![req[q].room] = g]
    BY <1>4 DEF StopRemove, ActiveWithout
  <2> QED
    BY <2>1, <2>2, EntryDropped
<1>5. CASE CloseClear(q)
  <2>1. req[q].room \in Rooms
    BY <1>5, HandlerKinds DEF CloseClear, RuntimeInv, Closes, Close
  <2> QED
    BY <1>5, <2>1, EntryDropped DEF CloseClear
<1>6. CASE ReqBegin(q) \/ Disconnect(q)
  BY <1>1, <1>6 DEF ReqBegin, SubmitBegin, StopBegin, CloseBegin, Disconnect
<1>7. CASE \/ SubmitAppend(q) \/ SubmitReplay(q) \/ SubmitRefused(q) \/ SubmitRead(q)
           \/ SubmitReplayRead(q) \/ SubmitReplayLookup(q) \/ SubmitPublish(q)
  BY <1>1, <1>7 DEF SubmitAppend, SubmitReplay, SubmitRefused, SubmitRead, SubmitReplayRead,
     SubmitReplayLookup, SubmitPublish
<1>8. CASE \/ StopStore(q) \/ StopRefused(q) \/ StopStoreTorn(q) \/ StopPublish(q)
           \/ CloseSnapshot(q) \/ CloseStore(q) \/ CloseRefused(q) \/ ClosePublish(q)
  BY <1>1, <1>8 DEF StopStore, StopRefused, StopStoreTorn, StopPublish, CloseSnapshot,
     CloseStore, CloseRefused, ClosePublish
<1> QED
  BY <1>2, <1>3, <1>4, <1>5, <1>6, <1>7, <1>8 DEF ReqStep, ReqLocal, ReqAnswered

\* Generations leave the map right, their return included.
LEMMA GenStepRegistry ==
  ASSUME RuntimeInv, NEW g \in Gens, GenStep(g)
  PROVE  RegistryOK'
<1>1. CASE GenExit(g)
  BY <1>1, GenExitUnregisters
<1>2. CASE GenDelta(g)
  BY <1>2, GenGotoKeepsRegistry DEF GenDelta
<1>3. CASE GenConnect(g) \/ GenCanceled(g) \/ GenDeltaRejected(g) \/ GenCompleted(g) \/ GenBroken(g)
  BY <1>3, GenGotoKeepsRegistry
  DEF GenConnect, GenCanceled, GenDeltaRejected, GenCompleted, GenBroken
<1>4. CASE GenFinish(g) \/ GenFail(g) \/ GenFinishRefused(g) \/ GenDeltaPublish(g) \/ GenPublish(g)
  BY <1>4, GenGotoKeepsRegistry
  DEF GenFinish, GenFail, GenFinishes, AfterError, GenFinishRefused, GenDeltaPublish, GenPublish
<1> QED
  BY <1>1, <1>2, <1>3, <1>4 DEF GenStep, GenLocal, GenAnswered

\* The inductive step: the store's types, the runtime's types and the map.
LEMMA RuntimeInvStep ==
  ASSUME RuntimeInv, [Next]_vars
  PROVE  RuntimeInv'
<1>1. StoreTypeOK'
  BY NextIsStoreStep, StoreTypeStep DEF RuntimeInv
<1>2. CASE \E q \in Reqs : ReqBegin(q) \/ ReqStep(q) \/ Disconnect(q)
  <2>1. PICK q \in Reqs : ReqBegin(q) \/ ReqStep(q) \/ Disconnect(q)
    BY <1>2
  <2>2. RegistryOK'
    BY <2>1, ReqStepRegistry
  <2>3. req' \in [Reqs -> Handlers]
    <3>1. CASE ReqBegin(q)
      BY <3>1, BeginTyped DEF RuntimeInv
    <3>2. CASE ReqStep(q)
      BY <3>2, SubmitTyped, StopAndCloseTyped DEF RuntimeInv, ReqStep, ReqLocal, ReqAnswered
    <3>3. CASE Disconnect(q)
      BY <3>3, HandlerDone DEF RuntimeInv, Disconnect
    <3> QED
      BY <2>1, <3>1, <3>2, <3>3
  <2> QED
    BY <1>1, <2>2, <2>3 DEF RuntimeInv, RuntimeTypeOK, RegistryOK, Handlers
<1>3. CASE \E g \in Gens : GenStep(g)
  <2>1. RegistryOK'
    BY <1>3, GenStepRegistry
  <2>2. UNCHANGED req
    BY <1>3 DEF GenStep, GenLocal, GenAnswered, GenConnect, GenCanceled, GenDelta,
     GenDeltaRejected, GenCompleted,
       GenBroken, GenFinish, GenFail, GenFinishes, GenFinishRefused, GenDeltaPublish,
     GenPublish, GenExit
  <2> QED
    BY <1>1, <2>1, <2>2 DEF RuntimeInv, RuntimeTypeOK, RegistryOK
<1>4. CASE UNCHANGED runtimeVars
  BY <1>1, <1>4 DEF runtimeVars, RuntimeInv, RuntimeTypeOK, ActiveIsLive
<1>5. CASE Restart
  BY <1>1, <1>5 DEF Restart, RuntimeInv, RuntimeTypeOK, ActiveIsLive
<1> QED
  BY <1>2, <1>3, <1>4, <1>5 DEF Next, vars

\* Nothing is in flight at the start.
LEMMA RuntimeInvInit == Init => RuntimeInv
<1> SUFFICES ASSUME Init PROVE RuntimeInv
  OBVIOUS
<1>1. StoreTypeOK
  BY StoreTypeInit DEF Init
<1> QED
  BY <1>1 DEF Init, RuntimeInv, RuntimeTypeOK, ActiveIsLive

\* Handlers, generations, the active map and the store under them keep their
\* types: no interleaving makes a task read a column its row does not have.
THEOREM TypeInvariant == Spec => []TypeOK
<1>1. RuntimeInv => TypeOK
  BY DEF RuntimeInv, RuntimeTypeOK, TypeOK
<1> QED
  BY <1>1, RuntimeInvInit, RuntimeInvStep, PTL DEF Spec

\* RoomRuntime.active never holds an entry of a generation that has returned or
\* that belongs to another room.
THEOREM ActiveIsLiveInvariant == Spec => []ActiveIsLive
<1>1. RuntimeInv => ActiveIsLive
  BY DEF RuntimeInv
<1> QED
  BY <1>1, RuntimeInvInit, RuntimeInvStep, PTL DEF Spec

\* The runtime uses the store only through the operations of RoomStore, one at a
\* time, so that whatever holds of StoreSpec holds under every interleaving of
\* handlers, generations, disconnects and restarts.
THEOREM RuntimeImplementsStore == Spec => StoreSpec
<1>1. Init => StoreInit
  BY DEF Init
<1>2. RuntimeInv /\ [Next]_vars => [StoreNext]_storeVars
  BY NextIsStoreStep DEF RuntimeInv
<1> QED
  BY <1>1, <1>2, RuntimeInvInit, RuntimeInvStep, PTL DEF Spec, StoreSpec

\* So the runtime keeps the ledger of turns, whatever its handlers and generations do.
THEOREM RuntimeKeepsLedger == Spec => KeepsLedger
BY RuntimeImplementsStore, StoreKeepsLedger

-----------------------------------------------------------------------------
(* Who writes to a run.  Only generations that still write matter to           *)
(* OneWriterPerRun and DriverIsRegistered, but a generation that is about to   *)
(* return must be registered too, or its exit could drop another one's entry;  *)
(* and a handler must not hold a run of another room, or a finished run's      *)
(* number where it removes the entry.                                          *)

\* Every generation of an open run is the registered one of the run's room.
RunsRegistered ==
  \A n \in RunIds : Open(n) /\ status[run[n].room] # "closed" =>
    \A g \in Gens : gen[g] # NoRunning /\ gen[g].run = n => active[run[n].room] = g

\* A generation's run was inserted before it was started.
RunsKnown ==
  \A g \in Gens : gen[g] # NoRunning => run[gen[g].run].status # "absent"

\* The run that submit_turn found or inserted is one of the room it was asked for.
SubmitKnows(q) ==
  req[q] \in Submits /\ req[q].pc # "append" =>
    /\ run[req[q].run].status # "absent"
    /\ HasRow(req[q].run) => run[req[q].run].room = req[q].room

\* Where a handler removes entries, their run is finished or the room closed.
RemoverKnows(q) ==
  /\ req[q].pc = "remove" => run[req[q].run].status \in TerminalStatuses \cup {"trimmed"}
  /\ req[q].pc = "clear" => status[req[q].room] = "closed"

HandlersKnow == \A q \in Reqs : SubmitKnows(q) /\ RemoverKnows(q)

\* The inductive invariant.
OwnerInv == RuntimeInv /\ RunsRegistered /\ RunsKnown /\ HandlersKnow

\* What the store's step leaves of what the tasks remember of it.
LEMMA StoreStepKnown ==
  ASSUME OwnerInv, [Next]_vars
  PROVE  /\ \A m \in RunIds : run[m].status # "absent" =>
              /\ run'[m].status # "absent"
              /\ HasRow(m)' => HasRow(m) /\ run'[m].room = run[m].room
              /\ Open(m)' => Open(m)
              /\ run[m].status \in TerminalStatuses \cup {"trimmed"} =>
                   run'[m].status \in TerminalStatuses \cup {"trimmed"}
         /\ \A r \in Rooms : status[r] = "closed" => status'[r] = "closed"
<1>1. StoreTypeOK /\ [StoreNext]_storeVars
  BY NextIsStoreStep DEF OwnerInv, RuntimeInv
<1> QED
  BY <1>1, RunsStayKnown, FinalStep, ClosedStays

\* A run in the store that stays open keeps its room, and that room was open.
LEMMA OpenRunWasOpen ==
  ASSUME OwnerInv, [Next]_vars, NEW n \in RunIds, run[n].status # "absent",
         Open(n)', status'[run'[n].room] # "closed"
  PROVE  /\ Open(n) /\ run'[n].room = run[n].room /\ run[n].room \in Rooms
         /\ status[run[n].room] # "closed"
<1>1. Open(n) /\ run'[n].room = run[n].room
  BY StoreStepKnown DEF HasRow, Open, RowStatuses
<1>2. run[n].room \in Rooms
  BY <1>1, RowColumns DEF OwnerInv, RuntimeInv, RunRow, HasRow, Open, RowStatuses
<1> QED
  BY <1>1, <1>2, StoreStepKnown

\* A step that starts no generation, and drops no entry of a run that stays open.
LEMMA OwnersKept ==
  ASSUME OwnerInv, [Next]_vars,
         \A g \in Gens : gen'[g] # NoRunning => gen[g] # NoRunning /\ gen'[g].run = gen[g].run,
         \A g \in Gens, r \in Rooms :
           /\ gen'[g] # NoRunning /\ active[r] = g
           /\ Open(gen[g].run) /\ run[gen[g].run].room = r /\ status[r] # "closed"
           /\ Open(gen[g].run)'
           => active'[r] = g
  PROVE  RunsRegistered' /\ RunsKnown'
<1>1. \A g \in Gens : gen[g] # NoRunning => gen[g].run \in RunIds
  BY DEF OwnerInv, RuntimeInv, RuntimeTypeOK, Generation
<1>2. RunsKnown'
  BY <1>1, StoreStepKnown DEF OwnerInv, RunsKnown
<1>3. ASSUME NEW n \in RunIds, Open(n)', status'[run'[n].room] # "closed",
             NEW g \in Gens, gen'[g] # NoRunning, gen'[g].run = n
      PROVE  active'[run'[n].room] = g
  <2>1. gen[g] # NoRunning /\ gen[g].run = n /\ run[n].status # "absent"
    BY <1>3 DEF OwnerInv, RunsKnown
  <2>2. /\ Open(n) /\ run'[n].room = run[n].room /\ run[n].room \in Rooms
        /\ status[run[n].room] # "closed"
    BY <1>3, <2>1, OpenRunWasOpen
  <2>3. active[run[n].room] = g
    BY <2>1, <2>2 DEF OwnerInv, RunsRegistered
  <2> QED
    BY <1>3, <2>1, <2>2, <2>3
<1> QED
  BY <1>2, <1>3 DEF RunsRegistered

\* A handler that does not move still knows what it knew.
LEMMA HandlerStillKnows ==
  ASSUME OwnerInv, [Next]_vars, NEW q \in Reqs, req'[q] = req[q]
  PROVE  SubmitKnows(q)' /\ RemoverKnows(q)'
<1>1. /\ req[q] \in Submits /\ req[q].pc # "append" => req[q].run \in RunIds
      /\ req[q].pc = "remove" => req[q].run \in RunIds
      /\ req[q].pc = "clear" => req[q].room \in Rooms
  BY DEF OwnerInv, RuntimeInv, RuntimeTypeOK, Submits, Submit, Stops, Closes, Close, NoReq
<1>2. SubmitKnows(q) /\ RemoverKnows(q)
  BY DEF OwnerInv, HandlersKnow
<1>3. SubmitKnows(q)'
  BY <1>1, <1>2, StoreStepKnown DEF SubmitKnows
<1>4. RemoverKnows(q)'
  <2>1. ASSUME NEW m \in RunIds, run[m].status \in TerminalStatuses \cup {"trimmed"}
        PROVE  run'[m].status \in TerminalStatuses \cup {"trimmed"}
    BY <2>1, StoreStepKnown DEF TerminalStatuses
  <2>2. \A r \in Rooms : status[r] = "closed" => status'[r] = "closed"
    BY StoreStepKnown
  <2> QED
    BY <1>1, <1>2, <2>1, <2>2, Zenon DEF RemoverKnows
<1> QED
  BY <1>3, <1>4

\* A step of one handler leaves every other one as it is.
LEMMA HandlersKept ==
  ASSUME OwnerInv, [Next]_vars, NEW q \in Reqs, \A p \in Reqs \ {q} : req'[p] = req[p],
         SubmitKnows(q)', RemoverKnows(q)'
  PROVE  HandlersKnow'
BY HandlerStillKnows DEF HandlersKnow

\* A handler that has returned, or that is at neither kind of place, knows enough.
LEMMA NothingToKnow ==
  ASSUME NEW q \in Reqs,
         req'[q] = NoReq \/ (req'[q] \notin Submits /\ req'[q].pc \notin {"remove", "clear"})
  PROVE  SubmitKnows(q)' /\ RemoverKnows(q)'
BY DEF SubmitKnows, RemoverKnows, NoReq, Submits, Submit

\* A submitted turn goes on with the run it holds, or gets a run of its room.
LEMMA SubmitLearns ==
  ASSUME OwnerInv, [Next]_vars, NEW q \in Reqs, req'[q].pc \notin {"remove", "clear"},
         req'[q].run \in RunIds, req'[q].room = req[q].room,
         \/ req[q] \in Submits /\ req[q].pc # "append" /\ req'[q].run = req[q].run
         \/ HasRow(req'[q].run) /\ run[req'[q].run].room = req[q].room
  PROVE  SubmitKnows(q)' /\ RemoverKnows(q)'
<1>1. /\ run[req'[q].run].status # "absent"
      /\ HasRow(req'[q].run) => run[req'[q].run].room = req[q].room
  BY DEF OwnerInv, HandlersKnow, SubmitKnows, HasRow, RowStatuses, OpenStatuses, TerminalStatuses
<1>2. PICK m \in RunIds : m = req'[q].run
  OBVIOUS
<1>3. run'[m].status # "absent" /\ (HasRow(m)' => run'[m].room = req[q].room)
  BY <1>1, <1>2, StoreStepKnown
<1> QED
  BY <1>2, <1>3 DEF SubmitKnows, RemoverKnows, HasRow

\* The steps of submit_turn.
LEMMA SubmitStepKnows ==
  ASSUME OwnerInv, [Next]_vars, NEW q \in Reqs,
         \/ SubmitAppend(q) \/ SubmitReplay(q) \/ SubmitRefused(q)
         \/ SubmitRead(q) \/ SubmitReplayRead(q) \/ SubmitReplayLookup(q)
         \/ SubmitPublish(q) \/ StartRun(q)
  PROVE  HandlersKnow'
<1>1. req[q] \in Submits /\ req \in [Reqs -> Handlers]
  BY HandlerKinds DEF SubmitAppend, SubmitReplay, SubmitRefused, SubmitRead, SubmitReplayRead,
     SubmitReplayLookup, SubmitPublish, StartRun, OwnerInv, RuntimeInv, RuntimeTypeOK, Handlers
<1>2. req[q].pc # "append" => req[q].run \in RunIds
  BY <1>1 DEF Submits, Submit
<1>3. CASE Done(q)
  <2>1. req'[q] = NoReq /\ \A p \in Reqs \ {q} : req'[p] = req[p]
    BY <1>1, <1>3 DEF Done
  <2> QED
    BY <2>1, NothingToKnow, HandlersKept
<1>4. ASSUME NEW pc \in {"replay", "lookup", "publish", "start"}, Goto(q, pc), req[q].pc # "append"
      PROVE  HandlersKnow'
  <2>1. /\ req'[q].pc = pc /\ req'[q].run = req[q].run /\ req'[q].room = req[q].room
        /\ \A p \in Reqs \ {q} : req'[p] = req[p]
    BY <1>1, <1>4 DEF Goto, Submits, Submit
  <2>2. SubmitKnows(q)' /\ RemoverKnows(q)'
    BY <1>1, <1>2, <1>4, <2>1, SubmitLearns
  <2> QED
    BY <2>1, <2>2, HandlersKept
<1>5. ASSUME NEW n \in RunIds, HasRow(n), run[n].room = req[q].room, NEW h,
             h.pc \notin {"remove", "clear"}, h.run = n, h.room = req[q].room,
             req' = [req EXCEPT ![q] = h]
      PROVE  HandlersKnow'
  <2>1. req'[q] = h /\ \A p \in Reqs \ {q} : req'[p] = req[p]
    BY <1>1, <1>5
  <2>2. SubmitKnows(q)' /\ RemoverKnows(q)'
    BY <1>5, <2>1, SubmitLearns
  <2> QED
    BY <2>1, <2>2, HandlersKept
<1>6. ASSUME NEW n \in RunIds, HasRow(n), run[n].room = req[q].room, Accepted(q, n)
      PROVE  HandlersKnow'
  <2> DEFINE h == [req[q] EXCEPT !.pc = "publish", !.run = n, !.seen = run[n].status,
                                 !.key = NoKey]
  <2>1. h.pc = "publish" /\ h.run = n /\ h.room = req[q].room
    BY <1>1 DEF Submits, Submit
  <2>2. req' = [req EXCEPT ![q] = h]
    BY <1>1, <1>6 DEF Accepted
  <2> QED
    BY <1>5, <1>6, <2>1, <2>2
<1>7. CASE SubmitAppend(q)
  <2>1. PICK n \in RunIds :
          /\ AppendUserTurn(req[q].room, n, req[q].key, req[q].text)
          /\ req' = [req EXCEPT ![q].pc = "read", ![q].run = n]
    BY <1>7 DEF SubmitAppend
  <2>2. /\ req'[q].pc = "read" /\ req'[q].run = n /\ req'[q].room = req[q].room
        /\ \A p \in Reqs \ {q} : req'[p] = req[p]
    BY <1>1, <2>1 DEF Submits, Submit
  <2>3. run'[n].status = "running" /\ run'[n].room = req[q].room
    BY <2>1 DEF AppendUserTurn, OwnerInv, RuntimeInv, StoreTypeOK, ColumnsOK
  <2>4. SubmitKnows(q)' /\ RemoverKnows(q)'
    BY <2>2, <2>3 DEF SubmitKnows, RemoverKnows
  <2> QED
    BY <2>2, <2>4, HandlersKept
<1>8. CASE SubmitReplay(q)
  <2>1. PICK n \in RunWithKey(req[q].room, req[q].key) :
          req' = [req EXCEPT ![q].pc = "replay", ![q].run = n]
    BY <1>8 DEF SubmitReplay
  <2>2. n \in RunIds /\ HasRow(n) /\ run[n].room = req[q].room
    BY DEF RunWithKey, RunsOf
  <2> DEFINE h == [req[q] EXCEPT !.pc = "replay", !.run = n]
  <2>3. h.pc = "replay" /\ h.run = n /\ h.room = req[q].room
    BY <1>1 DEF Submits, Submit
  <2>4. req' = [req EXCEPT ![q] = h]
    BY <1>1, <2>1
  <2> QED
    BY <1>5, <2>2, <2>3, <2>4
<1>9. CASE SubmitRead(q)
  <2>1. req[q].room \in Rooms
    BY <1>1 DEF Submits, Submit
  <2>2. Done(q) \/ (CurrentRun(req[q].room) # 0 /\ Accepted(q, CurrentRun(req[q].room)))
    BY <1>9 DEF SubmitRead
  <2> QED
    BY <1>3, <1>6, <2>1, <2>2, CurrentRunHasRow DEF HasRow
<1>10. CASE SubmitReplayLookup(q)
  <2>1. req[q].run \in RunIds /\ req[q].pc # "append"
    BY <1>2, <1>10 DEF SubmitReplayLookup, At
  <2>2. HasRow(req[q].run) => run[req[q].run].room = req[q].room
    BY <1>1, <2>1 DEF OwnerInv, HandlersKnow, SubmitKnows
  <2> QED
    BY <1>3, <1>6, <1>10, <2>1, <2>2 DEF SubmitReplayLookup
<1>11. CASE SubmitRefused(q) \/ SubmitReplayRead(q) \/ SubmitPublish(q) \/ StartRun(q)
  BY <1>3, <1>4, <1>11 DEF SubmitRefused, SubmitReplayRead, SubmitPublish, StartRun, At
<1> QED
  BY <1>7, <1>8, <1>9, <1>10, <1>11

\* The steps of stop_run and close_room: an entry is removed for a run that this
\* stop has canceled, or after the room was closed.
LEMMA StopAndCloseStepKnows ==
  ASSUME OwnerInv, [Next]_vars, NEW q \in Reqs,
         \/ StopSignal(q) \/ StopStore(q) \/ StopRefused(q) \/ StopStoreTorn(q)
         \/ StopRemove(q) \/ StopPublish(q)
         \/ CloseSnapshot(q) \/ CloseStore(q) \/ CloseRefused(q) \/ CloseClear(q)
         \/ ClosePublish(q)
  PROVE  HandlersKnow'
<1>1. req[q] \in Stops \cup Closes /\ req \in [Reqs -> Handlers]
  BY HandlerKinds DEF StopSignal, StopStore, StopRefused, StopStoreTorn, StopRemove, StopPublish,
     CloseSnapshot, CloseStore, CloseRefused, CloseClear, ClosePublish, At, OwnerInv, RuntimeInv,
     RuntimeTypeOK, Handlers
<1>2. CASE Done(q)
  <2>1. req'[q] = NoReq /\ \A p \in Reqs \ {q} : req'[p] = req[p]
    BY <1>1, <1>2 DEF Done
  <2> QED
    BY <2>1, NothingToKnow, HandlersKept
<1>3. ASSUME NEW pc \in {"stop", "publish", "close", "closed"}, Goto(q, pc)
      PROVE  HandlersKnow'
  <2>1. /\ req'[q].pc = pc /\ req'[q].kind = req[q].kind
        /\ \A p \in Reqs \ {q} : req'[p] = req[p]
    BY <1>1, <1>3 DEF Goto, Stops, Closes, Close
  <2>2. req'[q] \notin Submits
    BY <1>1, <2>1 DEF Submits, Submit, Stops, Closes, Close
  <2> QED
    BY <2>1, <2>2, NothingToKnow, HandlersKept
<1>4. CASE StopStore(q)
  <2>1. /\ req'[q].pc = "remove" /\ req'[q].kind = req[q].kind /\ req'[q].run = req[q].run
        /\ \A p \in Reqs \ {q} : req'[p] = req[p]
    BY <1>1, <1>4 DEF StopStore, Goto, Stops, Closes, Close
  <2>2. req'[q] \notin Submits
    BY <1>1, <2>1 DEF Submits, Submit, Stops, Closes, Close
  <2>3. req[q].run \in RunIds
    BY <1>4, HandlerColumns DEF StopStore, OwnerInv, RuntimeInv
  <2>4. PICK n \in RunIds : n = req[q].run
    BY <2>3
  <2>5. run'[n].status = "canceled"
    <3>1. HasRow(n) /\ StopRun(n)
      BY <1>4, <2>4 DEF StopStore, StopRun, Open, HasRow, RowStatuses
    <3>2. run[n] \in RunRow
      BY <3>1, RowColumns DEF OwnerInv, RuntimeInv
    <3> QED
      BY <3>1, <3>2 DEF StopRun, OwnerInv, RuntimeInv, StoreTypeOK, ColumnsOK, RunRow
  <2>6. SubmitKnows(q)' /\ RemoverKnows(q)'
    BY <2>1, <2>2, <2>4, <2>5 DEF SubmitKnows, RemoverKnows, TerminalStatuses
  <2> QED
    BY <2>1, <2>6, HandlersKept
<1>5. CASE CloseStore(q)
  <2>1. /\ req'[q].pc = "clear" /\ req'[q].kind = req[q].kind /\ req'[q].room = req[q].room
        /\ \A p \in Reqs \ {q} : req'[p] = req[p]
    BY <1>1, <1>5 DEF CloseStore, Goto, Stops, Closes, Close
  <2>2. req'[q] \notin Submits
    BY <1>1, <2>1 DEF Submits, Submit, Stops, Closes, Close
  <2>3. status'[req[q].room] = "closed"
    BY <1>5, HandlerColumns
    DEF CloseStore, CloseRoom, OwnerInv, RuntimeInv, StoreTypeOK, ColumnsOK
  <2>4. SubmitKnows(q)' /\ RemoverKnows(q)'
    BY <2>1, <2>2, <2>3 DEF SubmitKnows, RemoverKnows
  <2> QED
    BY <2>1, <2>4, HandlersKept
<1>6. CASE CloseSnapshot(q)
  <2>1. ASSUME NEW n, req' = [req EXCEPT ![q].pc = "signal", ![q].run = n]
        PROVE  HandlersKnow'
    <3>1. /\ req'[q].pc = "signal" /\ req'[q].kind = req[q].kind
          /\ \A p \in Reqs \ {q} : req'[p] = req[p]
      BY <1>1, <2>1 DEF Stops, Closes, Close
    <3>2. req'[q] \notin Submits
      BY <1>1, <3>1 DEF Submits, Submit, Stops, Closes, Close
    <3> QED
      BY <3>1, <3>2, NothingToKnow, HandlersKept
  <2>2. \/ Done(q) \/ Goto(q, "close")
        \/ req' = [req EXCEPT ![q].pc = "signal", ![q].run = CurrentRun(req[q].room)]
    BY <1>6 DEF CloseSnapshot
  <2> QED
    BY <1>2, <1>3, <2>1, <2>2
<1>7. CASE \/ StopSignal(q) \/ StopRefused(q) \/ StopStoreTorn(q) \/ StopRemove(q)
           \/ StopPublish(q) \/ CloseRefused(q) \/ CloseClear(q) \/ ClosePublish(q)
  BY <1>2, <1>3, <1>7 DEF StopSignal, StopRefused, StopStoreTorn, StopReturns, StopRemove,
     StopPublish, CloseRefused, CloseClear, ClosePublish
<1> QED
  BY <1>4, <1>5, <1>6, <1>7

\* Every step leaves the handlers knowing what they must.
LEMMA HandlersKnowStep ==
  ASSUME OwnerInv, [Next]_vars
  PROVE  HandlersKnow'
<1>1. ASSUME NEW q \in Reqs, ReqBegin(q) PROVE HandlersKnow'
  <2>1. req \in [Reqs -> Handlers]
    BY DEF OwnerInv, RuntimeInv, RuntimeTypeOK, Handlers
  <2>2. ASSUME NEW h, req' = [req EXCEPT ![q] = h], h.pc \notin {"remove", "clear"},
               h.kind # "submit" \/ h.pc = "append"
        PROVE  HandlersKnow'
    <3>1. req'[q] = h /\ \A p \in Reqs \ {q} : req'[p] = req[p]
      BY <2>1, <2>2
    <3>2. SubmitKnows(q)' /\ RemoverKnows(q)'
      BY <2>2, <3>1 DEF SubmitKnows, RemoverKnows, Submits, Submit
    <3> QED
      BY <3>1, <3>2, HandlersKept
  <2>3. ASSUME NEW r \in Rooms, NEW k \in Keys \cup {NoKey}, NEW t \in Texts,
               SubmitBegin(q, r, k, t)
        PROVE  HandlersKnow'
    BY <2>2, <2>3 DEF SubmitBegin
  <2>4. ASSUME NEW n \in RunIds, StopBegin(q, n) PROVE HandlersKnow'
    BY <2>2, <2>4 DEF StopBegin
  <2>5. ASSUME NEW r \in Rooms, CloseBegin(q, r) PROVE HandlersKnow'
    BY <2>2, <2>5 DEF CloseBegin
  <2> QED
    BY <1>1, <2>3, <2>4, <2>5 DEF ReqBegin
<1>2. ASSUME NEW q \in Reqs, ReqStep(q) PROVE HandlersKnow'
  BY <1>2, SubmitStepKnows, StopAndCloseStepKnows DEF ReqStep, ReqLocal, ReqAnswered
<1>3. ASSUME NEW q \in Reqs, Disconnect(q) PROVE HandlersKnow'
  <2>1. req'[q] = NoReq /\ \A p \in Reqs \ {q} : req'[p] = req[p]
    BY <1>3 DEF Disconnect, Done, OwnerInv, RuntimeInv, RuntimeTypeOK
  <2> QED
    BY <2>1, NothingToKnow, HandlersKept
<1>4. CASE UNCHANGED req
  BY <1>4, HandlerStillKnows DEF HandlersKnow
<1>5. CASE \E g \in Gens : GenStep(g)
  BY <1>4, <1>5 DEF GenStep, GenLocal, GenAnswered, GenConnect, GenCanceled, GenDelta,
     GenDeltaRejected, GenCompleted,
     GenBroken, GenFinish, GenFail, GenFinishes, GenFinishRefused, GenDeltaPublish,
     GenPublish, GenExit
<1>6. CASE Restart
  BY <1>6, NothingToKnow DEF Restart, HandlersKnow
<1> QED
  BY <1>1, <1>2, <1>3, <1>4, <1>5, <1>6 DEF Next, vars, runtimeVars

\* Generations that only move on, while no entry is touched.
LEMMA OwnersUntouched ==
  ASSUME OwnerInv, [Next]_vars, UNCHANGED active,
         \/ UNCHANGED gen
         \/ \E g \in Gens : gen[g] # NoRunning /\
              \/ \E pc : GenGoto(g, pc)
              \/ gen' = [gen EXCEPT ![g].cancel = TRUE]
  PROVE  RunsRegistered' /\ RunsKnown'
<1>1. ASSUME NEW g \in Gens, gen[g] # NoRunning,
             \/ \E pc : GenGoto(g, pc)
             \/ gen' = [gen EXCEPT ![g].cancel = TRUE]
      PROVE  gen'[g].run = gen[g].run /\ \A k \in Gens \ {g} : gen'[k] = gen[k]
  BY <1>1 DEF GenGoto, OwnerInv, RuntimeInv, RuntimeTypeOK, Generation
<1>2. \A g \in Gens : gen'[g] # NoRunning => gen[g] # NoRunning /\ gen'[g].run = gen[g].run
  BY <1>1
<1> QED
  BY <1>2, OwnersKept

\* start_run: a run of the room that is open and has a generation would have kept
\* the room's entry taken.
LEMMA StartRunOwners ==
  ASSUME OwnerInv, [Next]_vars, NEW q \in Reqs, StartRun(q)
  PROVE  RunsRegistered' /\ RunsKnown'
<1>1. CASE UNCHANGED <<gen, active>>
  BY <1>1, OwnersUntouched
<1>2. ASSUME active[req[q].room] = NoGen, NEW g \in Gens, gen[g] = NoRunning,
             gen' = [gen EXCEPT ![g] = [pc |-> "connect", room |-> req[q].room,
                                        run |-> req[q].run, cancel |-> FALSE]],
             active' = [active EXCEPT ![req[q].room] = g]
      PROVE  RunsRegistered' /\ RunsKnown'
  <2>1. req[q] \in Submits /\ req[q].pc = "start"
    BY HandlerKinds DEF StartRun, At, OwnerInv, RuntimeInv
  <2>2. req[q].room \in Rooms /\ req[q].run \in RunIds
    BY <2>1 DEF Submits, Submit
  <2>3. PICK r \in Rooms, n \in RunIds : r = req[q].room /\ n = req[q].run
    BY <2>2
  <2>4. run[n].status # "absent" /\ (HasRow(n) => run[n].room = r)
    BY <2>1, <2>3 DEF OwnerInv, HandlersKnow, SubmitKnows
  <2>5. UNCHANGED run /\ UNCHANGED status
    BY DEF StartRun, storeVars
  <2>6. /\ gen'[g].run = n /\ \A k \in Gens \ {g} : gen'[k] = gen[k]
        /\ active'[r] = g /\ \A p \in Rooms \ {r} : active'[p] = active[p]
    BY <1>2, <2>3 DEF OwnerInv, RuntimeInv, RuntimeTypeOK
  <2>7. RunsKnown'
    BY <2>4, <2>5, <2>6 DEF OwnerInv, RunsKnown
  <2>8. ASSUME NEW m \in RunIds, Open(m), status[run[m].room] # "closed", NEW k \in Gens,
               gen'[k] # NoRunning, gen'[k].run = m
        PROVE  active'[run[m].room] = k
    <3>1. HasRow(m) /\ run[m].room \in Rooms
      BY <2>8, RowColumns DEF OwnerInv, RuntimeInv, RunRow, HasRow, Open, RowStatuses
    <3>2. CASE k = g
      BY <2>4, <2>6, <2>8, <3>1, <3>2
    <3>3. CASE k # g
      <4>1. active[run[m].room] = k
        BY <2>6, <2>8, <3>3 DEF OwnerInv, RunsRegistered
      <4>2. run[m].room # r
        BY <1>2, <2>3, <4>1, RuntimeAssumption
      <4> QED
        BY <2>6, <3>1, <4>1, <4>2
    <3> QED
      BY <3>2, <3>3
  <2> QED
    BY <2>5, <2>7, <2>8 DEF RunsRegistered, Open
<1> QED
  BY <1>1, <1>2 DEF StartRun, Registered

\* A stop removes the entry of a run that is finished; no open run is written by
\* the generation registered there.
LEMMA StopRemoveOwners ==
  ASSUME OwnerInv, [Next]_vars, NEW q \in Reqs, StopRemove(q)
  PROVE  RunsRegistered' /\ RunsKnown'
<1>1. req[q].room \in Rooms /\ req[q].run \in RunIds /\ ~Open(req[q].run)
  BY HandlerColumns
  DEF StopRemove, At, OwnerInv, RuntimeInv, HandlersKnow, RemoverKnows, Open, OpenStatuses,
      TerminalStatuses
<1>2. UNCHANGED gen /\ active' = ActiveWithout(req[q].room, req[q].run)
  BY DEF StopRemove
<1>3. ASSUME NEW g \in Gens, NEW r \in Rooms, active[r] = g, Open(gen[g].run)
      PROVE  active'[r] = g
  BY <1>1, <1>2, <1>3 DEF ActiveWithout, OwnerInv, RuntimeInv, RuntimeTypeOK
<1> QED
  BY <1>2, <1>3, OwnersKept

\* close_room drops the entry of a closed room, whoever is registered.
LEMMA CloseClearOwners ==
  ASSUME OwnerInv, [Next]_vars, NEW q \in Reqs, CloseClear(q)
  PROVE  RunsRegistered' /\ RunsKnown'
<1>1. status[req[q].room] = "closed"
  BY DEF CloseClear, At, OwnerInv, HandlersKnow, RemoverKnows
<1>2. UNCHANGED gen /\ active' = [active EXCEPT ![req[q].room] = NoGen]
  BY DEF CloseClear
<1>3. ASSUME NEW g \in Gens, NEW r \in Rooms, active[r] = g, status[r] # "closed"
      PROVE  active'[r] = g
  BY <1>1, <1>2, <1>3 DEF OwnerInv, RuntimeInv, RuntimeTypeOK
<1> QED
  BY <1>2, <1>3, OwnersKept

\* A generation that returns drops its own entry, or that of a generation of the
\* same run, which is no other while the run is open.
LEMMA GenExitOwners ==
  ASSUME OwnerInv, [Next]_vars, NEW g \in Gens, GenExit(g)
  PROVE  RunsRegistered' /\ RunsKnown'
<1>1. /\ gen'[g] = NoRunning /\ gen[g] # NoRunning
      /\ \A k \in Gens \ {g} : gen'[k] = gen[k]
  BY DEF GenExit, OwnerInv, RuntimeInv, RuntimeTypeOK, NoRunning
<1>2. ASSUME NEW k \in Gens, NEW r \in Rooms, gen'[k] # NoRunning, active[r] = k,
             Open(gen[k].run), run[gen[k].run].room = r, status[r] # "closed"
      PROVE  active'[r] = k
  <2>1. k # g /\ gen[k] # NoRunning /\ gen[k].run \in RunIds
    BY <1>1, <1>2 DEF OwnerInv, RuntimeInv, RuntimeTypeOK, Generation
  <2>2. gen[g].run # gen[k].run
    BY <1>1, <1>2, <2>1 DEF OwnerInv, RunsRegistered
  <2> QED
    BY <1>2, <2>2 DEF GenExit, ActiveWithout, OwnerInv, RuntimeInv, RuntimeTypeOK
<1> QED
  BY <1>1, <1>2, OwnersKept

\* Every step leaves the generations of open runs registered.
LEMMA OwnersStep ==
  ASSUME OwnerInv, [Next]_vars
  PROVE  RunsRegistered' /\ RunsKnown'
<1>1. CASE UNCHANGED <<gen, active>>
  BY <1>1, OwnersUntouched
<1>2. ASSUME NEW q \in Reqs, ReqBegin(q) \/ Disconnect(q) PROVE UNCHANGED <<gen, active>>
  BY <1>2 DEF ReqBegin, SubmitBegin, StopBegin, CloseBegin, Disconnect
<1>3. ASSUME NEW q \in Reqs, StopSignal(q) PROVE RunsRegistered' /\ RunsKnown'
  <2>1. req[q].room \in Rooms
    BY <1>3, HandlerKinds DEF StopSignal, OwnerInv, RuntimeInv, Stops, Closes, Close
  <2> DEFINE g == active[req[q].room]
  <2>2. g # NoGen => g \in Gens /\ gen[g] # NoRunning
    BY <2>1 DEF OwnerInv, RuntimeInv, RuntimeTypeOK, ActiveIsLive
  <2>3. /\ UNCHANGED active
        /\ UNCHANGED gen \/ (g # NoGen /\ gen' = [gen EXCEPT ![g].cancel = TRUE])
    BY <1>3 DEF StopSignal
  <2> QED
    BY <2>2, <2>3, OwnersUntouched
<1>4. ASSUME NEW q \in Reqs, ReqStep(q) PROVE RunsRegistered' /\ RunsKnown'
  <2>1. CASE StartRun(q) \/ StopSignal(q) \/ StopRemove(q) \/ CloseClear(q)
    BY <1>3, <2>1, StartRunOwners, StopRemoveOwners, CloseClearOwners
  <2>2. CASE \/ SubmitAppend(q) \/ SubmitReplay(q) \/ SubmitRefused(q) \/ SubmitRead(q)
             \/ SubmitReplayRead(q) \/ SubmitReplayLookup(q) \/ SubmitPublish(q)
    BY <1>1, <2>2 DEF SubmitAppend, SubmitReplay, SubmitRefused, SubmitRead, SubmitReplayRead,
       SubmitReplayLookup, SubmitPublish
  <2>3. CASE \/ StopStore(q) \/ StopRefused(q) \/ StopStoreTorn(q) \/ StopPublish(q)
             \/ CloseSnapshot(q) \/ CloseStore(q) \/ CloseRefused(q) \/ ClosePublish(q)
    BY <1>1, <2>3 DEF StopStore, StopRefused, StopStoreTorn, StopPublish, CloseSnapshot,
       CloseStore, CloseRefused, ClosePublish
  <2> QED
    BY <1>4, <2>1, <2>2, <2>3 DEF ReqStep, ReqLocal, ReqAnswered
<1>5. ASSUME NEW g \in Gens, GenStep(g) PROVE RunsRegistered' /\ RunsKnown'
  <2>1. CASE GenExit(g)
    BY <2>1, GenExitOwners
  <2>2. CASE ~GenExit(g)
    <3>1. gen[g] # NoRunning /\ UNCHANGED active
      BY <1>5, <2>2 DEF GenStep, GenLocal, GenAnswered, GenConnect, GenCanceled, GenDelta,
     GenDeltaRejected, GenCompleted,
         GenBroken, GenFinish, GenFail, GenFinishes, GenFinishRefused, GenDeltaPublish,
     GenPublish, NoRunning
    <3>2. ASSUME UNCHANGED gen PROVE RunsRegistered' /\ RunsKnown'
      BY <3>1, <3>2, OwnersUntouched
    <3>3. ASSUME NEW pc \in {"stream", "delta", "finish", "fail", "publish", "exit"}, GenGoto(g, pc)
          PROVE  RunsRegistered' /\ RunsKnown'
      BY <3>1, <3>3, OwnersUntouched
    <3>4. CASE GenConnect(g) \/ GenCanceled(g) \/ GenBroken(g) \/ GenDeltaPublish(g) \/ GenPublish(g)
      BY <3>3, <3>4 DEF GenConnect, GenCanceled, GenBroken, GenDeltaPublish, GenPublish
    <3>5. CASE GenDelta(g) \/ GenDeltaRejected(g) \/ GenCompleted(g)
      BY <3>2, <3>3, <3>5 DEF GenDelta, GenDeltaRejected, GenCompleted
    <3>6. CASE GenFinish(g) \/ GenFail(g) \/ GenFinishRefused(g)
      BY <3>3, <3>6 DEF GenFinish, GenFail, GenFinishes, GenFinishRefused, AfterError
    <3> QED
      BY <1>5, <2>2, <3>4, <3>5, <3>6 DEF GenStep, GenLocal, GenAnswered
  <2> QED
    BY <2>1, <2>2
<1>6. CASE Restart
  <2>1. \A g \in Gens : gen'[g] = NoRunning
    BY <1>6 DEF Restart
  <2> QED
    BY <2>1 DEF RunsRegistered, RunsKnown
<1> QED
  BY <1>1, <1>2, <1>4, <1>5, <1>6 DEF Next, vars, runtimeVars

\* The inductive step.
LEMMA OwnerInvStep ==
  ASSUME OwnerInv, [Next]_vars
  PROVE  OwnerInv'
BY RuntimeInvStep, OwnersStep, HandlersKnowStep DEF OwnerInv

\* Nothing runs at the start.
LEMMA OwnerInvInit == Init => OwnerInv
<1> SUFFICES ASSUME Init PROVE OwnerInv
  OBVIOUS
<1>1. (\A g \in Gens : gen[g] = NoRunning) /\ (\A q \in Reqs : req[q] = NoReq)
  BY DEF Init
<1>2. RunsRegistered /\ RunsKnown
  BY <1>1 DEF RunsRegistered, RunsKnown
<1>3. HandlersKnow
  BY <1>1 DEF HandlersKnow, SubmitKnows, RemoverKnows, NoReq, Submits, Submit
<1> QED
  BY <1>2, <1>3, RuntimeInvInit DEF OwnerInv

\* While its room is open, the generation that drives an open run is the
\* registered one, so that a stop reaches it: whatever turns were retried, runs
\* stopped, rooms closed and clients lost in between.
THEOREM DriverIsRegisteredInvariant == Spec => []DriverIsRegistered
<1>1. OwnerInv => DriverIsRegistered
  BY DEF OwnerInv, RunsRegistered, DriverIsRegistered, Drives, NoRunning
<1> QED
  BY <1>1, OwnerInvInit, OwnerInvStep, PTL DEF Spec

\* No two generations write to an open run of an open room, however often its
\* turn was submitted and retried.
THEOREM OneWriterPerRunInvariant == Spec => []OneWriterPerRun
<1>1. OwnerInv => OneWriterPerRun
  BY DEF OwnerInv, RunsRegistered, OneWriterPerRun, Drives, NoRunning
<1> QED
  BY <1>1, OwnerInvInit, OwnerInvStep, PTL DEF Spec
================================================================================
