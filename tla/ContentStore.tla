------------------------------ MODULE ContentStore ------------------------------
(***************************************************************************)
(* A SQLite store that is sealed at rest: how a process gets its key       *)
(* (crates/core/crypto/src/plugin_keys, process_keys.rs), how it opens the *)
(* store, seals what an older version left in plaintext and scrubs the     *)
(* pages that held it (content_sqlite.rs), and how values are written and  *)
(* read afterwards (content.rs, plugin_keys/store_seal.rs).                *)
(*                                                                         *)
(* Each transaction is one step and a process may stop between any two.    *)
(* A key check value tells keys apart, so it is the key itself here.       *)
(***************************************************************************)
EXTENDS Naturals, Sequences, FiniteSets

CONSTANTS
  Keys,        \* root keys of this store's plugin
  NoKey,       \* no key; a file that is missing
  Empty,       \* a key file that was created and not filled
  NumItems,    \* planned columns, sealed in this order
  NumRows,     \* rows of each column
  BatchSize,   \* BATCH_SIZE
  Typed,       \* prefixes that users type
  Procs,       \* processes that open the store
  Guarded,     \* those that open it as plugin_keys/sql.rs does and look at the record
               \* before each write they make without a key; Rooms does neither
  MaxWrites    \* bound: values written

ASSUME StoreAssumption ==
  /\ NoKey \notin Keys /\ Empty \notin Keys /\ NoKey # Empty
  /\ Typed \subseteq {"v1", "raw"} /\ Guarded \subseteq Procs
  /\ NumItems \in Nat \ {0} /\ NumRows \in Nat /\ BatchSize \in Nat \ {0} /\ MaxWrites \in Nat

VARIABLES
  alone,     \* the folder is not one that Core gives its sidecars
  root,      \* secrets/standalone-root.key
  pin,       \* secrets/standalone-root.kcv.json
  record,    \* the store's row of ryu_content_seal
  item,      \* the columns' rows of ryu_content_seal
  cell,      \* the stored values
  residue,   \* where plaintext that was overwritten can still be found in the file
  proc,      \* the processes
  written,   \* history: the text last accepted for each value
  strays,    \* history: values that keyless processes wrote into a store with a record
  writes     \* how many values were written

files == <<alone, root, pin>>
database == <<record, item, cell, residue>>
history == <<written, strays, writes>>
vars == <<alone, root, pin, record, item, cell, residue, proc, written, strays, writes>>

Items == 1..NumItems
Rows == 1..NumRows
Cells == Items \X Rows

-----------------------------------------------------------------------------
(* Values *)

\* A text is the envelope prefixes it starts with: "v1" is encb:v1: and "raw" is
\* encb:raw:, the escape. Users may type either.
Texts == {<<>>} \cup {<<prefix>> : prefix \in Typed}

\* What a column holds: an envelope around a text, or the text itself.
Sealed(k, text) == [key |-> k, text |-> text]
Plain(text) == [key |-> NoKey, text |-> text]

Starts(text, prefix) == text # <<>> /\ Head(text) = prefix

\* StoreSeal::seal_text without a key.
Escape(text) == IF text = <<>> THEN text ELSE <<"raw">> \o text

Unescape(text) == IF Starts(text, "raw") THEN Tail(text) ELSE text

\* ContentCipher::open_text and StoreSeal::open_text under a ring of keys: the
\* text, or nothing when the value does not open.
Opened(ring, v) ==
  IF v.key # NoKey THEN {v.text : k \in ring \cap {v.key}}
  ELSE IF Starts(v.text, "v1") THEN {} ELSE {Unescape(v.text)}

\* Mutant: the text is sealed with its escape.
Resealed_KeepsEscape(k, ring, v) ==
  IF v.key = NoKey /\ ~Starts(v.text, "v1") THEN Sealed(k, v.text)
  ELSE IF v.key \in ring \ {k} THEN Sealed(k, v.text) ELSE v

\* reseal_value: plaintext and values of retired keys, sealed under key k; any other
\* value stays as it is.
Resealed(k, ring, v) ==
  IF v.key = NoKey /\ ~Starts(v.text, "v1") THEN Sealed(k, Unescape(v.text))
  ELSE IF v.key \in ring \ {k} THEN Sealed(k, v.text) ELSE v

Unreadable(ring, v) == Opened(ring, v) = {}

-----------------------------------------------------------------------------
(* Processes *)

Off == [pc |-> "off"]

\* key seals and ring opens, both empty without a key.
Process ==
  [pc: {"root", "fill", "pin", "check", "vacuum", "scrub", "compact", "reopen", "migrate",
        "item", "batch", "close", "finish", "deferred", "serve", "write", "unhealthy"},
   key: Keys \cup {NoKey}, ring: SUBSET Keys,
   item: 0..(NumItems + 1), retired: BOOLEAN, sealed: BOOLEAN, unreadable: BOOLEAN]

Begins(pc, k, retired) ==
  [pc |-> pc, key |-> k, ring |-> (retired \cup {k}) \cap Keys, item |-> 0,
   retired |-> FALSE, sealed |-> FALSE, unreadable |-> FALSE]

Ends(p) == proc' = [proc EXCEPT ![p] = Off]
Goto(p, pc) == proc' = [proc EXCEPT ![p].pc = pc]

\* The store is open; how far its migration came no longer matters.
Serves(p) ==
  proc' = [proc EXCEPT ![p].pc = "serve", ![p].item = 0, ![p].retired = FALSE,
                       ![p].sealed = FALSE, ![p].unreadable = FALSE]

Keyless(p) == proc[p].key = NoKey

\* read_delivered: the key Core hands its sidecar and the retired ones beside it.
DeliveredKeys == {d \in [key: Keys, retired: SUBSET Keys] : d.key \notin d.retired}

\* process_master_key: a key derived from RYU_MASTER_KEY; a sidecar installs no host
\* that could resolve another, nor retired ones.
MasterKeys == [key: Keys, retired: {{}}]

\* PluginKeys::resolve_with: the delivered key and its retired predecessors, a master
\* key, no key under a Core that delivers none, or the root file. One process with
\* a key is up at a time.
Start(p) ==
  /\ proc[p] = Off
  /\ \A q \in Procs : proc[q] # Off => Keyless(q) /\ ~alone
  /\ \/ /\ ~alone
        /\ \E d \in DeliveredKeys : proc' = [proc EXCEPT ![p] = Begins("check", d.key, d.retired)]
     \/ /\ alone
        /\ proc' = [proc EXCEPT ![p] = Begins("root", NoKey, {})]
     \/ /\ alone /\ root = NoKey
        /\ \E d \in MasterKeys : proc' = [proc EXCEPT ![p] = Begins("pin", d.key, d.retired)]
  /\ UNCHANGED <<files, database, history>>

\* An older Core delivers no key; such a process may run beside any other.
StartKeyless(p) ==
  /\ proc[p] = Off /\ ~alone
  /\ proc' = [proc EXCEPT ![p] = Begins("check", NoKey, {})]
  /\ UNCHANGED <<files, database, history>>

\* load_or_create_standalone_root.
ReadRoot(p) ==
  /\ proc[p].pc = "root"
  /\ \/ /\ root \in Keys
        /\ proc' = [proc EXCEPT ![p] = Begins("pin", root, {})]
        /\ UNCHANGED root
     \/ /\ root = Empty \/ (root = NoKey /\ pin # NoKey)
        /\ Ends(p) /\ UNCHANGED root
     \/ /\ root = NoKey /\ pin = NoKey
        /\ root' = Empty
        /\ \E k \in Keys : proc' = [proc EXCEPT ![p] = Begins("fill", k, {})]
  /\ UNCHANGED <<alone, pin, database, history>>

FillRoot(p) ==
  /\ proc[p].pc = "fill"
  /\ root' = proc[p].key
  /\ Goto(p, "pin")
  /\ UNCHANGED <<alone, pin, database, history>>

\* Mutant: the key of this start is pinned, whatever was pinned before.
PinKey_Replaces(p) ==
  /\ proc[p].pc = "pin"
  /\ pin' = proc[p].key
  /\ Goto(p, "check")
  /\ UNCHANGED <<alone, root, database, history>>

\* pin_standalone_kcv.
PinKey(p) ==
  /\ proc[p].pc = "pin"
  /\ \/ /\ pin \in {NoKey, proc[p].key}
        /\ pin' = proc[p].key
        /\ Goto(p, "check")
     \/ /\ pin \notin {NoKey, proc[p].key}
        /\ UNCHANGED pin /\ Ends(p)
  /\ UNCHANGED <<alone, root, database, history>>

-----------------------------------------------------------------------------
(* Opening the store *)

\* scrubbed and tried are the row's cursor: only the VACUUM is owed, and an attempt
\* was made today.
Record ==
  [state: {"none", "ok", "vacuum_pending"}, kcv: Keys \cup {NoKey},
   scrubbed: BOOLEAN, tried: BOOLEAN]

Recorded(k) ==
  [record EXCEPT !.kcv = k, !.state = IF @ = "none" THEN "ok" ELSE @]

\* match_kcv: which of the process's keys a check value belongs to.
MatchKcv(p, kcv) ==
  IF kcv = proc[p].key THEN "current" ELSE IF kcv \in proc[p].ring THEN "retired" ELSE "unknown"

\* Mutant: a key that the store was not sealed under is accepted.
Mismatch_Ignored(p) == FALSE

\* check_store_key: the record names a key this process does not hold.
Mismatch(p) == record.kcv # NoKey /\ MatchKcv(p, record.kcv) = "unknown"

\* sqlite_store_seal.
CheckKey(p) ==
  /\ proc[p].pc = "check"
  /\ IF Keyless(p)
     THEN /\ Goto(p, IF record.kcv = NoKey THEN "serve" ELSE "unhealthy")
          /\ UNCHANGED record
     ELSE IF Mismatch(p) THEN Goto(p, "unhealthy") /\ UNCHANGED record
     ELSE /\ record' = IF record.kcv = NoKey THEN Recorded(proc[p].key) ELSE record
          /\ Goto(p, "vacuum")
  /\ UNCHANGED <<files, item, cell, residue, history>>

\* What follows the deferred compaction.
AfterVacuum(p) == IF p \in Guarded THEN "reopen" ELSE "migrate"

\* set_pending.
Pending(scrubbed, tried) ==
  [record EXCEPT !.state = "vacuum_pending", !.scrubbed = scrubbed, !.tried = tried]

\* set_store_state(ok).
Cleared == [record EXCEPT !.state = "ok", !.scrubbed = FALSE, !.tried = FALSE]

\* run_pending_vacuum: nothing owed, tried today, or the WAL cannot be truncated
\* because a reader holds it.
PendingSkips(p) ==
  /\ proc[p].pc = "vacuum"
  /\ Goto(p, AfterVacuum(p))
  /\ UNCHANGED <<files, database, history>>

PendingRuns(p) ==
  /\ proc[p].pc = "vacuum"
  /\ record.state = "vacuum_pending" /\ ~record.tried
  /\ residue' = residue \ {"wal"}
  /\ Goto(p, IF record.scrubbed THEN "compact" ELSE "scrub")
  /\ UNCHANGED <<files, record, item, cell, history>>

\* scrub_freelist finishes and is noted, finds no room, or fails part of the way.
PendingScrubs(p) ==
  /\ proc[p].pc = "scrub"
  /\ \/ residue' = residue \ {"free"} /\ record' = Pending(TRUE, FALSE) /\ Goto(p, "compact")
     \/ UNCHANGED residue /\ record' = Pending(FALSE, TRUE) /\ Goto(p, AfterVacuum(p))
     \/ residue' \in {residue, residue \ {"free"}} /\ UNCHANGED record /\ Goto(p, AfterVacuum(p))
  /\ UNCHANGED <<files, item, cell, history>>

\* VACUUM and a truncated WAL, then the record; no room; or a failure before the
\* record is written.
PendingCompacts(p) ==
  /\ proc[p].pc = "compact"
  /\ \/ residue' = {} /\ record' = Cleared
     \/ UNCHANGED residue /\ record' = Pending(TRUE, TRUE)
     \/ residue' \in {residue, {}} /\ UNCHANGED record
  /\ Goto(p, AfterVacuum(p))
  /\ UNCHANGED <<files, item, cell, history>>

ItemRow(state, cursor) == [state |-> state, cursor |-> cursor]

\* reopen_plaintext_items.
ReopenItems(p) ==
  /\ proc[p].pc = "reopen"
  /\ item' = [i \in Items |->
                IF item[i].state = "sealed" /\ \E r \in Rows : cell[<<i, r>>].key = NoKey
                THEN ItemRow("pending", 0) ELSE item[i]]
  /\ Goto(p, "migrate")
  /\ UNCHANGED <<files, record, cell, residue, history>>

-----------------------------------------------------------------------------
(* migrate_columns *)

MigrateBegin(p) ==
  /\ proc[p].pc = "migrate"
  /\ proc' = [proc EXCEPT ![p].pc = "item", ![p].item = 1,
                          ![p].retired = MatchKcv(p, record.kcv) = "retired"]
  /\ UNCHANGED <<files, database, history>>

\* Finished items are skipped.
ItemSkips(p) ==
  /\ proc[p].pc = "item"
  /\ \/ /\ proc[p].item > NumItems
        /\ IF proc[p].sealed THEN Goto(p, "finish") ELSE Serves(p)
     \/ /\ proc[p].item \in Items /\ item[proc[p].item].state = "sealed"
        /\ proc' = [proc EXCEPT ![p].item = @ + 1]
  /\ UNCHANGED <<files, database, history>>

\* Mutant: the debt is recorded when the store is finished, not before.
ScrubOwed_Later == record

\* mark_scrub_owed: a scrub noted as finished is forgotten.
ScrubOwed ==
  IF record.state = "vacuum_pending" THEN Pending(FALSE, record.tried) ELSE Pending(FALSE, FALSE)

ItemBegins(p) ==
  /\ proc[p].pc = "item" /\ proc[p].item \in Items
  /\ item[proc[p].item].state # "sealed"
  /\ record' = ScrubOwed
  /\ item' = [item EXCEPT ![proc[p].item].state = "sealing"]
  /\ Goto(p, "batch")
  /\ UNCHANGED <<files, cell, residue, history>>

\* Mutant: the row after the cursor is taken as done.
Batch_SkipsOne(i) == {r \in Rows : r > item[i].cursor + 1 /\ r <= item[i].cursor + 1 + BatchSize}

\* The next rows after the committed cursor.
Batch(i) == {r \in Rows : r > item[i].cursor /\ r <= item[i].cursor + BatchSize}

\* Mutant: a short batch moves the cursor like a full one.
CursorAfter_Full(i) == item[i].cursor + BatchSize

CursorAfter(i) == item[i].cursor + Cardinality(Batch(i))

\* The next rows after the committed cursor, which moves in the same transaction.
\* A short batch is the last.
SealBatch(p) ==
  /\ proc[p].pc = "batch"
  /\ LET i == proc[p].item
         rows == Batch(i)
         new == [c \in Cells |->
                   IF c[1] = i /\ c[2] \in rows
                   THEN Resealed(proc[p].key, proc[p].ring, cell[c]) ELSE cell[c]]
     IN /\ cell' = new
        /\ residue' = IF \E c \in Cells : cell[c].key = NoKey /\ new[c].key # NoKey
                      THEN {"wal", "free", "pages"} ELSE residue
        /\ item' = [item EXCEPT ![i].cursor = CursorAfter(i)]
        /\ proc' = [proc EXCEPT
                      ![p].pc = IF Cardinality(rows) < BatchSize THEN "close" ELSE "batch",
                      ![p].sealed = @ \/ new # cell,
                      ![p].unreadable = @ \/ \E r \in rows : Unreadable(proc[p].ring, cell[<<i, r>>])]
  /\ UNCHANGED <<files, record, history>>

\* The record moves to the current key once the last item that has a row is sealed.
ItemCloses(p) ==
  /\ proc[p].pc = "close"
  /\ item' = [item EXCEPT ![proc[p].item] = ItemRow("sealed", 0)]
  /\ record' = IF /\ proc[p].retired /\ ~proc[p].unreadable
                  /\ \A i \in Items : item'[i].state \in {"none", "sealed"}
               THEN Recorded(proc[p].key) ELSE record
  /\ proc' = [proc EXCEPT ![p].pc = "item", ![p].item = @ + 1]
  /\ UNCHANGED <<files, cell, residue, history>>

\* finish_store: a failure, which keeps the store pending and forgets the scrub.
FinishFails(p) ==
  /\ proc[p].pc \in {"finish", "deferred"}
  /\ residue' \in {residue, residue \ {"wal"}, residue \ {"wal", "free"}}
  /\ record' = Pending(FALSE, FALSE)
  /\ Serves(p)
  /\ UNCHANGED <<files, item, cell, history>>

\* The WAL is truncated and the free pages are zeroed, unless there is no room.
FinishScrubs(p) ==
  /\ proc[p].pc = "finish"
  /\ \/ residue' = residue \ {"wal", "free"} /\ UNCHANGED record /\ Goto(p, "deferred")
     \/ residue' = residue \ {"wal"} /\ record' = Pending(FALSE, FALSE) /\ Serves(p)
  /\ UNCHANGED <<files, item, cell, history>>

\* vacuum_fits: the file is small enough to be compacted at once and the disk has
\* room. Either may be so.
VacuumFits == BOOLEAN

\* VACUUM now, or at a later start.
FinishCompacts(p) ==
  /\ proc[p].pc = "deferred"
  /\ \E fits \in VacuumFits :
       IF fits THEN residue' = {} /\ record' = Cleared
       ELSE UNCHANGED residue /\ record' = Pending(TRUE, FALSE)
  /\ Serves(p)
  /\ UNCHANGED <<files, item, cell, history>>

-----------------------------------------------------------------------------
(* Serving *)

\* refresh_compat, called before a write and outside its transaction: once the store
\* has a record, a process without a key no longer writes.
Refreshes(p) == Keyless(p) /\ p \in Guarded

RefreshCompat(p) ==
  /\ proc[p].pc = "serve" /\ Refreshes(p)
  /\ Goto(p, IF record.kcv = NoKey THEN "write" ELSE "unhealthy")
  /\ UNCHANGED <<files, database, history>>

\* StoreSeal::ensure_writable: an unhealthy store refuses.
EnsureWritable(p) ==
  proc[p] # Off /\ proc[p].pc = IF Refreshes(p) THEN "write" ELSE "serve"

\* StoreSeal::seal_text.
Write(p) ==
  /\ EnsureWritable(p) /\ writes < MaxWrites
  /\ \E c \in Cells, text \in Texts :
       /\ cell' = [cell EXCEPT ![c] = IF Keyless(p) THEN Plain(Escape(text)) ELSE Sealed(proc[p].key, text)]
       /\ written' = [written EXCEPT ![c] = text]
       /\ strays' = strays \cup (IF Keyless(p) /\ record.kcv # NoKey THEN {c} ELSE {})
       /\ residue' = IF cell[c].key = NoKey THEN {"wal", "free", "pages"} ELSE residue
  /\ writes' = writes + 1
  /\ Goto(p, "serve")
  /\ UNCHANGED <<files, record, item>>

Stop(p) ==
  /\ proc[p] # Off
  /\ Ends(p)
  /\ UNCHANGED <<files, database, history>>

\* VACUUM_RETRY_SECS have passed.
DayPasses ==
  /\ record.tried
  /\ record' = [record EXCEPT !.tried = FALSE]
  /\ UNCHANGED <<files, item, cell, residue, proc, history>>

\* A store that an older version filled with plaintext.
Init ==
  /\ alone \in BOOLEAN
  /\ root = NoKey /\ pin = NoKey
  /\ record = [state |-> "none", kcv |-> NoKey, scrubbed |-> FALSE, tried |-> FALSE]
  /\ item = [i \in Items |-> ItemRow("none", 0)]
  /\ cell = [c \in Cells |-> Plain(<<>>)]
  /\ residue = {"free", "pages"}
  /\ proc = [p \in Procs |-> Off]
  /\ written = [c \in Cells |-> <<>>]
  /\ strays = {}
  /\ writes = 0

Resolves(p) == Start(p) \/ StartKeyless(p) \/ ReadRoot(p) \/ FillRoot(p) \/ PinKey(p)

Opens(p) ==
  \/ CheckKey(p) \/ PendingSkips(p) \/ PendingRuns(p) \/ PendingScrubs(p) \/ PendingCompacts(p)
  \/ ReopenItems(p)

Migrates(p) ==
  \/ MigrateBegin(p) \/ ItemSkips(p) \/ ItemBegins(p) \/ SealBatch(p) \/ ItemCloses(p)
  \/ FinishFails(p) \/ FinishScrubs(p) \/ FinishCompacts(p)

Next ==
  \/ \E p \in Procs : Resolves(p) \/ Opens(p) \/ Migrates(p) \/ RefreshCompat(p) \/ Write(p) \/ Stop(p)
  \/ DayPasses

Spec == Init /\ [][Next]_vars
-----------------------------------------------------------------------------
(* Properties *)

Escaped == Texts \cup {<<"raw">> \o text : text \in Texts}

\* The key files, the store and the processes have their types, and a cursor never
\* points past the rows of an item that is being sealed.
TypeOK ==
  /\ alone \in BOOLEAN /\ root \in Keys \cup {NoKey, Empty} /\ pin \in Keys \cup {NoKey}
  /\ record \in Record
  /\ item \in [Items -> [state: {"none", "pending", "sealing", "sealed"}, cursor: 0..NumRows]]
  /\ cell \in [Cells -> [key: Keys \cup {NoKey}, text: Escaped]]
  /\ residue \subseteq {"wal", "free", "pages"}
  /\ proc \in [Procs -> Process \cup {Off}]
  /\ written \in [Cells -> Texts] /\ strays \subseteq Cells /\ writes \in 0..MaxWrites

\* A value reads back as the text that was last written, or not at all: never with
\* an escape too many or too few, nor as an envelope that a user typed, however
\* often a migration was interrupted and under whatever keys the store was opened.
\* It fails to open only for a process that lacks its key.
ReadsBack ==
  \A p \in Procs : proc[p].pc = "serve" =>
    \A c \in Cells :
      Opened(proc[p].ring, cell[c]) =
        IF cell[c].key \in proc[p].ring \cup {NoKey} THEN {written[c]} ELSE {}

\* A finished column holds no plaintext, except what keyless processes wrote after
\* the store had a record: no crash between batches, no skipped row, no change of key
\* and no write before the record leaves a value unsealed.
SealedItemsHoldNoPlaintext ==
  \A c \in Cells \ strays : item[c[1]].state = "sealed" => cell[c].key # NoKey

\* A store whose columns are sealed and whose record says ok keeps no trace of the
\* plaintext in its file: the debt is recorded before a value is rewritten and paid
\* before it is cleared, whatever fails or stops in between.
OkMeansScrubbed ==
  record.state = "ok" /\ strays = {} /\ (\A i \in Items : item[i].state = "sealed")
    => residue = {}

\* A value is sealed only by a process that holds the key which the store records.
SealsWhereItCanRead ==
  [][\A c \in Cells : cell'[c] # cell[c] /\ cell'[c].key # NoKey =>
       \E p \in Procs : proc[p] # Off /\ proc[p].key = cell'[c].key /\ record.kcv \in proc[p].ring]_cell

\* Outside Core, the key that a store is sealed under is the pinned one: whatever
\* a process crashed on, and whichever of the root file and the master key it was
\* started with, no store is sealed under a key that a later start would not insist on.
StandaloneStoreIsPinned ==
  alone /\ record.kcv # NoKey => pin = record.kcv
===============================================================================
