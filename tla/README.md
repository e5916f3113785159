# A TLA+ model of Rooms

Rooms is a sidecar that hosts shared chat rooms for a local model: a host
creates a room, guests join it with an invite, and everyone's prompts are
answered one at a time by a model whose answer is streamed into the room. This
directory models the part of it in which the order of events matters, and the
libraries it is linked with (model stream, calls to Core, sealing, key custody,
handoff), checks them with TLC on small instances and proves with TLAPS, for every
value of the constants, each safety property and each refinement that a passing run
checks. Liveness is model-checked only.

## The system

| component | state | operations | what is hard about it |
|---|---|---|---|
| room store (`backend/src/store.rs`, `limits.rs`, `model.rs`) | rooms, runs, messages, invites, participants and sessions in one SQLite database behind one mutex | create, exchange, rotate and revoke invites, close, append a turn, append a delta, finish, stop, recover | some operations are transactions, others several autocommit statements; retention deletes rows that others still name; a process may hold no key to seal with |
| room runtime (`inference.rs`) | the `active` map: one generation and its cancel channel per room | submit, stop, close, the spawned generation | tasks interleave at every lock and await; state is read under one lock and used under another; clients go away; the process restarts |
| HTTP api (`api.rs`) | none | authorizes and calls the two above; the guest event stream | authorization is checked before it is used; a snapshot is read before the subscription |
| event hub (`realtime.rs`) and guest page (`ui/src/guest`) | a broadcast channel of 128 events per room; the page's transcript | publish, subscribe, lag, resynchronize | events lost, buffered and reordered against snapshots |
| process start (`main.rs`) | none | opens and recovers the store, bearer gate | recovery may fail and is then ignored |
| app events (`crates/core/app-events`) | a model stream in progress; a call to Core in progress | request validation, event framing; publishing, emitting, reporting, authorizing, provider calls | chunks cut anywhere, streams that end early; answers lost, late or declining |
| store sealing and content migration (`crates/core/crypto`: `plugin_keys`, `process_keys.rs`, `content.rs`, `content_sqlite.rs`) | key files of a folder, the store's seal record, the sealed values, the traces of plaintext in the database file | finding the key, checking it against the record, sealing a legacy store in batches, scrubbing and compacting it, writing and reading values | processes that stop between batches, hold another key or none, or decided at open what no longer holds |
| key custody (`crypto/src/custody.rs`, the ladder of `lib.rs`) | the keychain's slot, key files, the recorded key check value, the retired keys | resolving the master key, adopt, import, retire | several processes, several files, a keychain that comes and goes |
| sealed files and logs (`sealed_file.rs`, `sealed_log.rs`) | a file and its `.sealing` sibling; a log and its writer | sealing in place, reading by chunk, appending, scanning, compacting | crashes that keep any part of what was not synced |
| sidecar runtime (`crates/core/sidecar-runtime`) | the handoff file; the cache of proofs | publish, withdraw, connect, challenge, send | the port changes hands between any two steps |
| companion UI, release scripts | | rendering, build tooling | |

The api resolves a session or the host, calls the runtime, and the runtime calls
the store; the runtime's generations call the model and write to the store; all
of them publish to the hub. The store's mutex and the mutex of the active map
are never held together, so every interleaving of the two is possible.

What makes each correct:

- store: one open run per room; the room's status tells whether there is one;
  finished runs and closed rooms stay so; an answer belongs to a completed run and
  follows its prompt; only guests of the current invite are authorized, and never
  more than the cap;
- runtime: one generation writes to a run, a stop reaches it, the active map leaks
  no entry, and no handler, driven run or slot is held by anything but an answer of
  Core or of the model that never comes;
- hub and event stream: a guest's view converges to the room; nothing is
  delivered after its session ended;
- app events: the events of a model stream do not depend on how its bytes arrive
  and end exactly once; a result says no more than Core has done;
- sealing: a crash loses no value and leaves none unsealed behind a finished mark;
  a store that says it is scrubbed is; no process seals what it could not read;
- custody: no key that seals data is destroyed; a process that found a recorded key
  seals under that one;
- files and logs: what was synced or stood under a name survives;
- sidecar runtime: a handoff token that went astray is worth nothing; a proof is
  relied on for a bounded time, and only for the bearer it was made with.

## Modules

`RoomStore` is the database. Each public operation that changes a table is one
action, since it runs under the connection's lock. `close_room`, `revoke_invite`,
`stop_run` and `recover_running` are sequences of autocommit statements; each has
a `...Torn` variant that stops between two of them, enabled by `Faults`. Rows are
numbered in creation order, which stands for `ORDER BY created_at` (the clock is
assumed to advance between two rows of a room). Texts and keys are model
values and a streamed answer is the number of its deltas, because no rule depends
on more than equality and length. A guest is its participant row with its only
session. Three things are history, not columns: `run` in a message, `via` in a
guest, and `torn`, which records that a torn operation has left a room's run
status or its access inconsistent until a complete one repairs it. `writable` is
the verdict of `StoreSeal::ensure_writable`, chosen anew at each start: a store
sealed under a key that the process lacks refuses every operation that seals.
`append_user_turn` answers a repeated idempotency key from the existing row; that
changes no table and is therefore a step of the runtime only.

`TurnLedger` is what the store promises about turns, without runs, rows or statements: a
room is asked one turn at a time, and each turn ends once, answered in full right
behind its prompt, failed or canceled; a restart drops turns, a closed room takes none;
the talk may lose its oldest part when a turn ends. `RoomStore` maps its newest run of a
room to the ledger's latest turn and its messages to the talk (`Ledger`, `KeepsLedger`);
invites, keys, the sealing, `torn` and the room's status but for "closed" have no part in it.

`RoomRuntime` extends `RoomStore` with the handlers (`req`), the generations
(`gen`) and the `active` map. A handler is a small program counter machine with
one step per lock it takes or await it passes: `submit_turn` appends, reads its
snapshot back under a second lock, publishes and starts; `stop_run` signals,
updates the store, removes its entry and publishes; `close_room` reads a snapshot,
runs the whole of `stop_run`, closes the store, clears the map and publishes. A
generation connects, streams, publishes each delta, finishes or fails, publishes that
and exits. A publish is a request to Core without a timeout: the task waits in a place
of its own, and the step that leaves it (`SubmitPublish`, `StopPublish`, `ClosePublish`,
`GenDeltaPublish`, `GenPublish`) is Core's answer or an error of the connection. `Disconnect` drops a handler at
a point where its future can be suspended. `Restart` drops every task and
recovers the store. With `Faults` every store call may also fail, before or after
its commit. The model host is external: it accepts or refuses, sends deltas, and
ends with a terminal event, an error or nothing. Invites and sessions are left to
`RoomStore`, since no task of the runtime reads them.

`GuestEvents` is what a guest sees of a room: the hub, `guest_events` and the
listeners of the guest page. The room is reduced to what a snapshot shows of it
(its status, its turn, the number of its messages and the length of the partial
answer). A task commits a change, reads the room back under a second lock and
sends its event, as `submit_turn`, `stop_run`, `close_room` and a generation do;
tasks interleave between any two of these. Each check of the session by the stream
is a query of its own and a step of its own, and so are the first snapshot, the
subscription, a receive and the snapshot after a lag. `hub` counts the events
sent and keeps the last `Capacity` of them; the stream's receiver is the number of
the last event it has taken. `version`, `live` and `owed` are history: the number of
a commit, whether the session was live when an item was made, and the commit up to
which a lagging receiver must be brought. A browser reopens an event source that
ended and gives up on one that was refused. Who may be driving a turn
is `RoomRuntime`'s question, so a start next to a registered generation goes either
way here.

`StreamContract` is what the runtime's generation relies on: a stream yields deltas
and then exactly one ending, unless its owner drops it. `ModelStream` is the client
that promises it (`ModelStreamClient::stream`): bytes arrive in chunks cut anywhere,
frames are found, parsed and yielded, and the response ends or fails at any point. A
frame with bytes that are not UTF-8 anywhere in it is an error, whatever else it holds.
`Contract == INSTANCE StreamContract WITH ...` is the refinement, and
`ImplementsContract` the property that checks it.

`HostCalls` is one call of a client of Core, with the environment it was
spawned with and the request it was given: checks, request, what Core and Gateway
do (external), the answer or its loss, and the best-effort wrappers. Time is counted
only for a call with `timeout_ms`: on the way less than the margin, upstream at most
what Gateway keeps.

`PeerLink` is a port that sidecars take one after the other, and another program in
between. A sidecar publishes its handoff, withdraws it in two steps and may crash;
a client loads the handoff and sends its token; callers of
`send_with_verified_bearer` challenge the listener, cache the proof and send the
bearer to whoever listens by then. All sidecars use the same port and one address, and
a proof cannot be forged.

`Custody` is a data folder and the keychain, shared by processes that resolve the
master key (`load_master_key_guarded`, `resolve`) and by the operator's commands,
which run while nothing else does, as the code asks. Every write is a step.
A key check value tells keys apart and is the key itself. `lost` is history: keys
that the keychain lost, that a second store into an empty slot overwrote, or that
`install_current` overwrote in a key file without retiring them. The last two happen
in the model as they do in the code; `SealingKeyIsHeld` says that nothing else
destroys a key. What a host sees
of sealed data is as partial as in the code: the evidence that forbids a new key may
be missing (`SealedEvidence`, a set of possible answers), and a probe opens a sample of
what is sealed, which may be empty (`ProbeKey`).

`ContentStore` is a store that an older version filled with plaintext, and the
processes that open it: `resolve_with` and the standalone root with its pinned check
value, `check_store_key`, the deferred compaction, `migrate_columns` batch by batch,
`finish_store`, and writes and reads. Every transaction is a step. A text is the
sequence of envelope prefixes it starts with, since only these are treated
differently; `residue` is where overwritten plaintext can still be found. `Guarded`
processes open the store as the SQL stores of other plugins do (`open_store` with
`reopen_plaintext_items`), and call `refresh_compat` before a write without a key: a step
of its own (`RefreshCompat`), since the code reads the record outside the write's
transaction. Rooms does neither. `strays` is history: the values that a process without
a key wrote when the store had a record already.

`SealedFile` and `SealedLog` are a file sealed in place and an append-only log, down
to chunks and cells, through crashes and key rotations. A crash may leave any length the
log had since its last sync, with any of the cells written since then missing (`Left`),
except that a length is lost whole or not at all. Opening a log for appending cuts
and syncs a torn tail; a log with a clean tail is opened as it is and nothing becomes
durable. `holed` is history: a crash kept something behind what it lost (`LeavesHole`), which
the scan cannot tell from corruption and may refuse. `MCLibrary` runs the six parts of the library (stream, handoff, proof,
calls, file, log) side by side in one run: each initial state picks one of them, and
they share no state.

`MCRoomStore`, `MCRoomRuntime`, `MCGuestEvents`, `MCCustody` and `MCContentStore` only
define symmetry sets and a view for TLC. A module `...Proofs` holds the theorems of the
module it is named after; `LibraryProofs` holds those of `ModelStream`, `HostCalls`,
`PeerLink` and of `MCLibrary`, which puts them together. Definitions named `X_Something` next to `X`
are deliberately wrong variants of it, used to check that the properties notice.

## What is checked

| run | instance | what it shows |
|---|---|---|
| `store` | one room, four runs, retention of 2 runs and 3 messages; two rooms, three guests, two invites each, cap 2, clock of 3 ticks; faults | `OneOpenRun`, `OpenRunShows`, `RunningRoomHasRun`, `AnswersFollowPrompts`, `FinishedRunIsFinal`, `ClosedIsFinal`, `KeepsLedger`, `LiveSessionFromCurrentInvite`, `LiveParticipantsCapped`, types |
| `runtime_safety` | two handlers, two generations, two runs, one key, disconnects, faults | `OneWriterPerRun`, `DriverIsRegistered`, `ActiveIsLive`, types |
| `runtime_liveness` | two handlers, two generations, one run, restarts, disconnects; fair to the tasks, nothing assumed of Core and the model | `DrivenRunFinishes`, `HandlersReturn`, `SlotIsFreed` |
| `guest_events` | two tasks, one turn, one delta, a channel of two events, drops, fair | `NothingAfterSessionEnds`, `LagIsResynced`, `StreamEndsWithSession`, types |
| `custody` | two processes, one of which records, two keys and an operator's, two retired at most, one command | `SealingKeyIsHeld`, `SealsUnderRecord`, types |
| `content_store` | two keys, a guarded process and one that is not, two columns of two rows, batches of one, one write | `ReadsBack`, `SealedItemsHoldNoPlaintext`, `OkMeansScrubbed`, `SealsWhereItCanRead`, `StandaloneStoreIsPinned`, types |
| `sidecar_library` | streams of six bytes in chunks of up to three; two sidecars, two bearers, two callers, a clock of four; every environment and request; files of up to a few chunks; logs of three records | `ChunksAreInvisible`, `ImplementsContract`, `ExposedTokenIsDead`, `BearerFollowsProof`, `ResultsAreTrue`, `GatewayDecides`, `NameKeepsContent`, `SyncedRecordsSurvive`, types |
| `close_torn`, `turn_stuck`, `close_race`, `guest_stale`, `bearer_astray` | as small as shows it | the disagreements below |

Bounds. Four runs with a retention of two let a run be trimmed while another is
open and a key be used again after its run is gone; three messages cut a history
between a prompt and its answer. Three guests against a cap of two meet the cap
with a live, an expired and a revoked session. The run `store` follows two slices of
one instance (`TurnsOrGuests`): the turns of a room without guests, and the guests of rooms
without turns, since no operation on the one reads the tables of the other but for
the status of a room. Two handlers are the fewest that
race; a third adds only another copy of one of them. Two generations are needed
because a stopped generation outlives its entry in the map; with both in flight
`StartRun` waits for one to return, which is a bound of the model (`Gens`) and not
of the code. `runtime_safety` takes states that differ only in what no task reads (invites,
guests, the clock, history) for one (`TasksView`). `MaxRuns`, `MaxInvites` and `MaxNow` end behaviours early: a turn is
refused once every run number is used. One turn with a delta sends up to four
events, which overrun a channel of two while the stream waits and leave events
behind a resynchronization; two tasks let events be sent in another order than
their commits. Two columns of two rows in batches of one give every place where a
migration can stop: between batches, before a column is marked, between columns,
before the scrub and before the compaction; two keys are a current and a retired one,
and a process under Core may hold either, both or none. Two processes and one command
race every write of custody; the third key lets the vault overflow its two entries.
A stream of six bytes holds a delta and an ending, each cut at every place; three records
are one that is synced, one that a crash may hole and one behind the hole; the
smallest chunk, tag and record sizes keep every boundary (empty last chunk, record
cut in its length, zeros after it). The cap, the history and the retention are
the code's constants (8, 40 and 100), made small; the theorems hold for all values.

Fairness. `FairSpec` is weakly fair to the steps of each handler and each generation
that wait for nobody outside the process (`ReqLocal`, `GenLocal`): the runtime polls every
task that is ready, and locks are held across no await of a request. The steps that are an
answer (`ReqAnswered`, `GenAnswered`: the model accepts, sends or ends, Core answers
a publish) are not fair, since neither client has a timeout
(`app-events/src/lib.rs:467-468`, `518-525`). So `DrivenRunFinishes`, `HandlersReturn` and
`SlotIsFreed` each name the one way out: the very generation or handler waits for ever.
What they say is that nothing else can hold it: no stop, close, disconnect, restart or
other task, and that a stop or a close does not wait for the model, nor for the
generation it cancels. `AnsweringSpec` adds that Core and the model answer in the end;
it is used by `turn_stuck` only, whose counterexample is then not an answer that failed to
come. Requests, disconnects and restarts are not fair. The
event stream is weakly fair too: its task is polled, its interval ticks every
second, and the browser reopens an event source by itself. Deadlock is not checked
in the runs where a closed room whose clients are gone may rightly stay as it is.

### Disagreements found

- `turn_stuck`: a generation commits the end of its run before it leaves the
  active map. A turn accepted in between is stored as running, but `start_run`
  sees the old entry and returns (`inference.rs:126`); nothing ever drives the
  turn, and the room refuses every other one. The guest page says "Another prompt
  is already running. Wait for it to finish."
- `close_race`: a turn accepted after `close_room` has read the room and before it
  closes it stays open in the closed room (`inference.rs:106-112`), where the
  lifecycle test says the close has canceled it.
- `close_torn`: `close_room` is four autocommit statements (`store.rs:904-926`).
  Stopped after the first or the second it leaves the room's guests authorized,
  and a second close answers `NotFound` without revoking them; the companion
  says that closing "revokes its current guest sessions".
- `guest_stale`: `guest_events` reads its first snapshot and subscribes afterwards
  (`api.rs:316-321`). An event sent in between is in neither; if it is the last
  one of a turn, the page shows the turn as running, and refuses to send
  (`guest-page.js:287`), until a later event or a reconnect. The hub's comment says that
  it "carries named changes between snapshot reads" (`realtime.rs:9-10`).
- `bearer_astray`: a proof is not bound to the connection the bearer goes out on. A program
  that takes the port between the two, or while a cached proof is fresh, receives the
  bearer; `peer_proof.rs` says that only a peer that proved it holds the token "is ever sent
  the token" (19-20) and that an unverified listener receives neither the token nor the
  request (313-315).

Four more places where the code and what is said about it part are in the model
and are not runs of their own:

- `content_sqlite.rs:568` says of the moment the record moves to the current key that
  "Every value now opens under the current root". A column that was finished in an
  earlier run is skipped, and neither `RoomStore::from_connection` nor `open_store`
  calls `reset_items`, as `StoreKeyState::Retired` asks ("run `reset_items`, then
  `migrate_columns`"); its values stay under the retired key. They open as long as
  Core delivers that key.
- Rooms decides when it opens the store whether it may write plaintext
  (`store.rs:231`). A process without a key that is still running when another one seals the
  store writes plaintext into it, where it stays in a column marked sealed (`strays = {}`
  fails after two starts, two checks and a write). The comment on
  `ensure_compat_write` asks for a call inside every write transaction, "so no plaintext
  is written into a sealed store" (`plugin_keys/sqlite.rs:28-31`); nothing calls it.
  `refresh_compat`, which the SQL stores of other plugins have, narrows the window to the
  time between its read and the write.
- Two processes that find the keychain's slot empty mint a key each; the second stores its
  own over one that the first has verified and sealed with (`crypto/src/lib.rs:1275`,
  `StoreKey`). The ladder's comment says that it "refuses instead of minting a
  key that would orphan the sealed data" (1225-1227); the guard is asked before, and the
  lock around a resolution is one process's.
- `withdraw` compares the token of the file it read and removes the file by name
  (`handoff.rs:132-133`, `WithdrawReads` and `WithdrawRemoves`); a sidecar that publishes in
  between loses its handoff. The test says "a stale owner keeps out" (`handoff.rs:389`).

## What is proved

Every invariant, action property and refinement that a passing run checks is also
proved, for every value of the constants that satisfies the assumptions named at the
end. The other four properties are liveness (see the end of this section). Few of
the invariants are inductive as they stand; what each had to be strengthened with is
where the design of the code shows.

`RoomStoreProofs`:

- `StoreTypeInvariant`: `StoreSpec => []StoreTypeOK`. The column types alone are
  not inductive: an exchange copies the number of the room's invite, and a finish
  writes the status of the run's room, so the invariant also carries the foreign
  keys (`RowsHaveRooms`).
- `OneOpenRunInvariant`: `StoreSpec => []OneOpenRun`. Inductive given the types:
  steps fall into four kinds (`StepKinds`), only an append opens a run, and it does
  so when the room has none.
- `OpenRunShowsInvariant`: `StoreSpec => []OpenRunShows`. It needs
  `OneOpenRun`: a finish or a stop writes `idle` into the room of its run, which is
  right only because no other run of the room is open.
- `OpenRunPromptIsLastInvariant`: `StoreSpec => []OpenRunPromptIsLast`. Trimming
  keeps the newest messages (`NewestKeepsTail`), and a finish appends an answer only
  to the room of the one open run, which it closes. Also a consequence of `KeepsLedger`,
  which a run checks.
- `AnswersFollowPromptsInvariant`: `StoreSpec => []AnswersFollowPrompts`. Its
  inductive invariant adds `OneOpenRun` and `OpenRunPromptIsLast`: the answer is
  appended behind whatever message is last.
- `FinishedRunsStay`: `StoreSpec => FinishedRunIsFinal`, from the types.
- `RunningRoomHasRunInvariant`: `StoreSpec => []RunningRoomHasRun`, the converse of
  `OpenRunShows`; the history variable `torn` says when it may fail.
- `ClosedRoomsStay`: `StoreSpec => ClosedIsFinal`.
- `LiveParticipantsCappedInvariant`: `StoreSpec => []LiveParticipantsCapped`. Only an
  exchange adds a live session; the cardinality argument is about the set of live
  guests, which every other step leaves or shrinks.
- `LiveSessionInvariant`: `StoreSpec => []LiveSessionFromCurrentInvite`.
- `StoreKeepsLedger`: `StoreSpec => KeepsLedger`, the refinement of `TurnLedger`, one lemma
  per kind of step. The mapping shows only the newest run of a room, so the invariant
  (`LedgerInv`) says that there is one if the room has any (`NewestStays`: `trim_runs` keeps
  it), that an open run is it (`OpenIsNewest`), and that numbers are given out in order
  (`NumbersInOrder`), which stands for the order of `created_at` on which the code's
  retention rests. The run checks it for one room; a recovery that ends the turns of
  several is in the theorem.

`RoomRuntimeProofs`, for any number of handlers and generations:

- `TypeInvariant`: `Spec => []TypeOK`, and `ActiveIsLiveInvariant`:
  `Spec => []ActiveIsLive`. They are proved together (`RuntimeInv`), since neither is
  inductive alone: a stop signals the generation it finds in the map, which has a
  cancel channel only because the map holds no returned generation; and a
  generation unregisters itself only because it is registered under its own room.
- `RuntimeImplementsStore`: `Spec => StoreSpec`. Every step of a task is one
  operation of the store or leaves it alone, so each theorem of `RoomStoreProofs`
  holds of the store under every interleaving of tasks; `RuntimeKeepsLedger` says so of
  the ledger. The theorem is a means, not a result: the runtime's actions are written with
  the store's.
- `DriverIsRegisteredInvariant` and `OneWriterPerRunInvariant`, from `OwnerInv`. The map
  is keyed by room while the properties are about runs, so the invariant says that a
  generation in flight for an open run of a room that is not closed is the registered
  one (`RunsRegistered`), that tasks name runs that exist (`RunsKnown`), and what each
  handler has seen to before its next step (`HandlersKnow`): a submission has its
  run in its own room, a stop about to remove an entry has finished its run, a close about
  to clear the map has closed the room. The last two are needed because a handler acts on the
  map after it has released the store.

`GuestEventsProofs`, for any number of tasks, turns and deltas and any capacity:

- `EventsTypeInvariant`: `Spec => []TypeOK`, with the bound on the channel. It also
  carries what the stream holds at each place (`ItemAtHand`): a page applies an item
  only because a lag never gets as far as a delivery.
- `NothingAfterSessionEndsInvariant`: `Spec => []NothingAfterSessionEnds`. The
  strengthening (`LiveInv`) follows an item from the check that found the session live to
  the page: at the point of delivery it was made while the session was live.
- `LagIsResyncedInvariant`: `Spec => []LagIsResynced`. The strengthening (`LagInv`) says
  where a stream may owe a snapshot, and that commits only grow, so the snapshot
  read after a lag covers what was missed.

`ContentStoreProofs`, for any number of keys, processes, columns and rows, from one
inductive invariant (`StoreInv`):

- `ContentTypeInvariant`, `StandaloneStoreIsPinnedInvariant`,
  `SealedItemsHoldNoPlaintextInvariant`, `OkMeansScrubbedInvariant`,
  `ReadsBackInvariant`, and the action property `SealsWhereItCanReadHolds`.
- `SealedItemsHoldNoPlaintext` is about the migration: what a keyless process wrote
  after the store had a record (`strays`) is exempt.
- The properties need each other, and what a process knows between two of its
  transactions: how it came to its key (`KeyStage`); once it has the store
  open, that the record names a key of its ring, that the columns before its own are
  done, and that what it seals is recorded as owed (`WorkStage`); that the rows the
  cursor has passed, and those of a finished column, are not plaintext
  (`PassedIsSealed`); that nothing is sealed before the store has a record
  (`ItemsFollowRecord`); that every value still holds the text (`ValuesKeepText`).
  `OneKeyed` says that no two processes with a key run at once, as Core starts them;
  without it the record could move between a check and the batch that relies on it.

`CustodyProofs`, for any number of keys, processes, retired keys and commands:

- `CustodyTypeInvariant`, `SealingKeyIsHeldInvariant` and `SealsUnderRecordInvariant`,
  from `CustodyInv`. It says for each place of a resolution or a command what the process
  has staged, read, resolved or indexed (`Good`), that a key an index names is in the vault
  (`IndexedIsStored`: the vault is written before the index), and that a command runs
  alone. `SealingKeyIsHeld` alone is not inductive: a command overwrites a slot or a file
  whose key it retired some steps earlier, and a process writes back an index that it
  read before others wrote theirs. `SealsUnderRecord` covers the processes that read a
  record; one that found none keeps the key it resolved, whatever Core records later.

`SealedFileProofs`, for chunks, tags and contents of any length:

- `FileTypeInvariant` and `NameKeepsContentInvariant`, from `FileInv`: the name, and what
  it stood for before the last rename, hold a readable file (`Good`); the sibling is, while
  it is written, what has been sealed of the source so far (`WritesSource`), and from
  then on the source sealed under the current key, all of it synced (`SealsSource`); a
  name that is published is the sibling (`NamesSealed`).
- A compaction may start from any sequence of records here (`CompactsAny`), so that the
  theorems hold of every log.
- The reader finds chunks by division. The lemmas before it show, for all sizes, that a
  range covers the chunks it touches (`ReadsRange`), that a file cut anywhere does not
  open (`CutDoesNotOpen`), and that what the writer makes opens as the content
  (`EncodedOpens`).

`SealedLogProofs`, for records and lengths of any size:

- `LogTypeInvariant`, and `SyncedRecordsSurviveInvariant` from `LogInv`: under some key
  of the program the log is its records in order, the synced ones whole and on disk, and
  behind them what a crash may leave (`LogFound`). Nothing is read that was not appended,
  after any crash; that the synced records are read back excludes the crashes that
  left a hole (`holed`). And an open writer's
  index is the number of records before it (`WriterKnows`), which the seal of the next
  record binds.
- `LogHasFile`: `LogSpec => FileSpec`. Compaction is the file's seal, so the theorems
  of `SealedFileProofs` hold of a log.

`LibraryProofs`:

- `LinkTypeInvariant`, `ExposedTokenIsDeadInvariant`, `BearerFollowsProofInvariant`, with
  both kinds of client at once (a run has one kind at a time). `HandoffInv` says that a
  token is its run's and was published by it, and that the run of an exposed token has
  given up the port for good; `ProofInv` that a cached proof is no older than a probe
  when it is stored. `BearerFollowsProof` bounds the age of the proof a bearer is sent on;
  who has the port by then is the finding `bearer_astray`.
- `HostTypeInvariant`, `ResultsAreTrueInvariant`, `GatewayDecidesInvariant`, from `HostInv`:
  what Core was asked (`CoreIsAsked`), and that the time on the way and the time upstream
  stay inside the request's limit (`InBudget`).
- `StreamTypeInvariant`; `StreamKeepsContract`: every behaviour of the streaming client is
  one of `StreamContract`, by a refinement mapping under which a step yields a delta,
  the one ending, or nothing; `ChunksAreInvisibleInvariant`, for responses and chunks of
  any length: the buffer is what was received behind the last whole frame, and the
  items are what the bytes before it say (`BufferIsRest`).
- `LibraryHasItsParts`: the specification that TLC runs implies that of each part, so the
  theorems hold of it; `LibraryTypeInvariant` puts their types together.

The proofs corrected the model in one place. `BearerFollowsProof` was stated as `age < TTL
+ ProbeTime`; the step that stores a fresh proof could not be proved, and with a
lifetime of zero, which a test uses (`peer_proof.rs:488`), the bearer of the call that
made the proof goes out at up to that very age, so the property has a case for it.

Two definitions are recursive functions over data: the scan of a log, and reading a
response byte by byte. The library's induction theorems take an operator as a
parameter, which the installed provers cannot instantiate; the facts about these two
functions (`ScanEnds`, `ScanFinds`, `ReadFacts`, `ReadAgrees`) are proved by taking the
least position at which they fail (`WellFoundedInduction`).

The assumptions: limits are positive naturals (`LimitsAssumption`), bounds are
naturals (`BoundsAssumption`), `NoKey` is no key and the guests are finitely many
(`NamesAssumption`); the capacity of a channel is positive (`EventsAssumption`); a
store has a column and batches are not empty (`StoreAssumption`: the columns are a
fixed list of the code); at most one process records the key check value
(`CustodyAssumption`: Core alone does, `crypto/src/lib.rs:194-201`); the clock has a
first tick (`PeerLinkAssumption`); the margin of a call with a limit is positive
(`HostCallsAssumption`: `TIMEOUT_MARGIN_MS`); chunks, tags, lengths and bodies are not
empty and contents are sequences (`SealedFileAssumption`, `SealedLogAssumption`);
lines are of the kinds the parser tells apart (`ModelStreamAssumption`). TLC evaluates each
on every run of its module.

Only model-checked: `DrivenRunFinishes`, `HandlersReturn`, `SlotIsFreed` and
`StreamEndsWithSession`, which need fairness and `ENABLED`, both beyond the prover. The
disagreements are counterexamples and have no theorem; the theorems of the store say
under which condition (`torn`) its invariants may fail.

## Not modelled

- Text validation and formatting, HTTP framing and error bodies, the bearer gate
  (one comparison per request), rendering, release scripts, and cryptographic
  primitives: they keep no state. Listing and reading rooms changes nothing. A stop
  that names a run of another room matches no row and is left out.
- The busy loop of a generation whose cancel sender is gone (`inference.rs:181`): it
  costs time, not state. Runs and messages of a room whose turns are all stopped are
  never trimmed (`store.rs:876`); no document states a bound that this breaks.
- Of content migration: the deferred compaction queue, `reset_items`, and store
  formats of a newer version, which Rooms does not use or cannot meet; BLOB columns
  and empty texts. Plaintext of an older version that happens to start with an
  envelope prefix is left out of the initial store. At most one process that holds a
  key is up at a time, as Core starts one sidecar; a folder is either under Core or
  standalone for good.
- Of custody: the data-format marker, `install_file_custody`, copying retired keys
  between folders, app keys, and the status reports.
- Of sealed logs: records of different lengths, a length whose bytes are
  partly zero, a writer that is used again after a failed append, and a log that is
  written again after it was compacted.
- Of the sidecar runtime: layout, branding and protocol framing.

## Plan

1. The hazards without a property: a turn accepted from a guest between the check of
   its session and the append (`api.rs:159`), which needs the handler's authorization as
   a step of its own in `RoomRuntime`; and the columns finished under a retired key
   (`content_sqlite.rs:568`).
2. An abstract specification of the event stream (a guest sees versions of the room that
   never go back once a snapshot was taken) that `GuestEvents` implements when the first
   snapshot is read after the subscription, to show that this order would remove the
   disagreement `guest_stale`.
3. An abstract sealed store (a value is written, read back or refused) that
   `ContentStore` implements, from `ReadsBack` and `SealsWhereItCanRead`.
