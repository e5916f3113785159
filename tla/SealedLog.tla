------------------------------- MODULE SealedLog -------------------------------
(***************************************************************************)
(* Append-only sealed logs (crates/core/crypto/src/sealed_log.rs): records *)
(* appended and synced, what a crash leaves of the ones that were not      *)
(* synced, the scan that finds the committed records again, and the        *)
(* compaction of a closed log into a sealed file.                          *)
(*                                                                         *)
(* Records have one length. A crash loses the length of a record as a      *)
(* whole or not at all. A writer whose append failed is dropped.           *)
(***************************************************************************)
EXTENDS SealedFile

CONSTANTS
  LenCells,    \* cells of a record's length
  BodyCells,   \* cells of a record's nonce, ciphertext and tag
  MaxRecords   \* bound: records of a log

ASSUME SealedLogAssumption ==
  LenCells \in Nat \ {0} /\ BodyCells \in Nat \ {0} /\ MaxRecords \in Nat

VARIABLES
  header,      \* the log's first bytes: absent, not yet on disk, cut short, whole
  cells,       \* the records
  onDisk,      \* how many cells are on disk
  writer,      \* SealedLogWriter, or none
  appended,    \* history: the records whose append succeeded and that are not lost
  durable,     \* history: how many of them a sync has covered
  holed        \* history: a crash left a damaged record that is not the tail of the log

recordVars == <<header, cells, onDisk, writer, appended, durable, holed>>
logVars == <<fileVars, recordVars>>

Frame == LenCells + BodyCells
NoWriter == [open |-> FALSE, key |-> "none", next |-> 0]
Zero == [of |-> <<>>, at |-> 0]

\* append_with_nonce: a record sealed with its index and framed by its length.
FramedRecord(key, index, record) == [at \in 1..Frame |-> [of |-> <<key, index, record>>, at |-> at]]

LogInit ==
  /\ FileInit
  /\ header = "absent" /\ cells = <<>> /\ onDisk = 0 /\ writer = NoWriter
  /\ appended = <<>> /\ durable = 0 /\ holed = FALSE
-----------------------------------------------------------------------------
(* Reading *)

AllZero(bytes) == \A i \in DOMAIN bytes : bytes[i] = Zero

\* Whether the cells after position p are a whole length.
LengthAt(bytes, p) == \A i \in 1..LenCells : bytes[p + i].at = i

\* Whether the body after position p opens as the record of that index.
OpensAt(bytes, key, p) ==
  LET index == p \div Frame
  IN \A i \in (LenCells + 1)..Frame :
       /\ bytes[p + i].at = i /\ bytes[p + i].of = bytes[p + 1].of
       /\ bytes[p + i].of[1] = key /\ bytes[p + i].of[2] = index

\* Mutant: zeros are a record like any other.
TornAt_NoZeros(bytes, p) ==
  \/ Len(bytes) - p < LenCells
  \/ LengthAt(bytes, p) /\ Len(bytes) - p < Frame

\* The tail of an interrupted write: a short length, zeros to the end, or a short body.
TornAt(bytes, p) ==
  \/ Len(bytes) - p < LenCells
  \/ AllZero(SubSeq(bytes, p + 1, Len(bytes)))
  \/ LengthAt(bytes, p) /\ Len(bytes) - p < Frame

\* scan_with: how the scan under a key ends, and where.
ScanWith(bytes, key) ==
  LET scan[p \in 0..Len(bytes)] ==
        IF p = Len(bytes) THEN [tail |-> "clean", end |-> p]
        ELSE IF TornAt(bytes, p) THEN [tail |-> "short", end |-> p]
        ELSE IF ~LengthAt(bytes, p) THEN [tail |-> "corrupt", end |-> p]
        ELSE IF OpensAt(bytes, key, p) THEN scan[p + Frame]
        ELSE IF p + Frame = Len(bytes) THEN [tail |-> "finalFailed", end |-> p]
        ELSE [tail |-> "corrupt", end |-> p]
  IN scan[0]

\* A key is taken for the log's, unless the scan fails or the first record does not open.
Accepts(bytes, key) ==
  LET scan == ScanWith(bytes, key)
  IN scan.tail # "corrupt" /\ ~(scan.tail = "finalFailed" /\ scan.end = 0)

\* parse_header, of a file that is not shorter than its header.
ParsesHeader == header = "whole"

\* open_log: the current key is tried before the retired ones.
Opens == ParsesHeader /\ \E key \in CandidateKeys : Accepts(cells, key)
OpenedKey ==
  IF Accepts(cells, cipher.current) THEN cipher.current
  ELSE CHOOSE key \in cipher.retired : Accepts(cells, key)

\* The committed cells, and the records in them (open_recovering).
Committed == SubSeq(cells, 1, ScanWith(cells, OpenedKey).end)
Recovered == [i \in 1..(Len(Committed) \div Frame) |-> Committed[i * Frame].of[3]]

\* Scan::torn_tail
TornTail == ScanWith(cells, OpenedKey).tail # "clean"
-----------------------------------------------------------------------------
(* Writing *)

\* create: the header is written, then synced with the directory.
LogCreates ==
  /\ header = "absent" /\ ~writer.open
  /\ header' = "unsynced"
  /\ UNCHANGED <<fileVars, cells, onDisk, writer, appended, durable, holed>>

LogCreated ==
  /\ header = "unsynced"
  /\ header' = "whole"
  /\ writer' = [open |-> TRUE, key |-> cipher.current, next |-> 0]
  /\ UNCHANGED <<fileVars, cells, onDisk, appended, durable, holed>>

\* open_append: a log that does not open, or opens under a retired key, is refused. A torn
\* tail is cut off, and only then is the file synced.
LogReopens ==
  /\ ~writer.open /\ Opens /\ OpenedKey = cipher.current
  /\ cells' = Committed
  /\ writer' = [open |-> TRUE, key |-> OpenedKey, next |-> Len(Recovered)]
  /\ appended' = Recovered
  /\ onDisk' = IF TornTail THEN Len(Committed) ELSE onDisk
  /\ durable' = IF TornTail THEN Len(Recovered) ELSE durable
  /\ UNCHANGED <<fileVars, header, holed>>

LogAppends ==
  /\ writer.open /\ Len(appended) < MaxRecords
  /\ \E record \in {"x", "y"} :
       /\ cells' = cells \o FramedRecord(writer.key, writer.next, record)
       /\ appended' = Append(appended, record)
  /\ writer' = [writer EXCEPT !.next = @ + 1]
  /\ UNCHANGED <<fileVars, header, onDisk, durable, holed>>

\* write_all fails part way.
LogAppendFails ==
  /\ writer.open /\ Len(appended) < MaxRecords
  /\ \E n \in 0..(Frame - 1) :
       cells' = cells \o SubSeq(FramedRecord(writer.key, writer.next, "x"), 1, n)
  /\ writer' = NoWriter
  /\ UNCHANGED <<fileVars, header, onDisk, appended, durable, holed>>

LogSyncs ==
  /\ writer.open
  /\ onDisk' = Len(cells) /\ durable' = Len(appended)
  /\ UNCHANGED <<fileVars, header, cells, writer, appended, holed>>

LogCloses ==
  /\ writer.open
  /\ writer' = NoWriter
  /\ UNCHANGED <<fileVars, header, cells, onDisk, appended, durable, holed>>

\* What a crash of the machine leaves: the file's length is any it had since the last sync,
\* and any of the cells written since then are missing, zeros in their place, as the blocks
\* of a file reach the disk in any order.
Left(len, lost) == [i \in 1..len |-> IF i \in lost THEN Zero ELSE cells[i]]

\* The first record with a missing cell, f, is not the tail of an interrupted write: its
\* length is missing and not all that follows is, or there is more behind it.
LeavesHole(len, lost) ==
  \E f \in lost :
    /\ \A i \in lost : f <= i
    /\ IF (f - 1) % Frame = 0 THEN ~(f..len \subseteq lost)
       ELSE ((f - 1) % Frame) + (len - (f - 1)) > Frame

LogCrashes ==
  /\ header # "absent"
  /\ header' \in IF header = "unsynced" THEN {"short", "whole"} ELSE {header}
  /\ \E len \in onDisk..Len(cells) : \E lost \in SUBSET ((onDisk + 1)..len) :
       /\ \A i \in 1..(len - 1) :
            i % Frame \in 1..(LenCells - 1) => (i \in lost <=> i + 1 \in lost)
       /\ cells' = Left(len, lost)
       /\ onDisk' = len
       /\ holed' = (holed \/ LeavesHole(len, lost))
  /\ writer' = NoWriter
  /\ UNCHANGED <<fileVars, appended, durable>>

\* compact_to_sealed_file: a strict read of a closed log; its records are the source.
CompactStarts ==
  /\ ~writer.open
  /\ Opens /\ ~TornTail
  /\ JobStarts("compact", Recovered)
  /\ UNCHANGED <<cipher, name, former, recordVars>>

\* No writer outlives the program.
LogKeysRotated ==
  /\ ~writer.open /\ header # "unsynced"
  /\ KeysRotated
  /\ UNCHANGED recordVars

\* A log is compacted once it is closed for good; a compaction that fails or crashes is
\* tried again, after the log was opened again or not.
LogNext ==
  \/ JobNext /\ UNCHANGED recordVars
  \/ LogKeysRotated
  \/ /\ job.pc = "idle" /\ name.kind = "absent"
     /\ \/ LogCreates \/ LogCreated \/ LogReopens \/ LogAppends \/ LogAppendFails \/ LogSyncs
        \/ LogCloses \/ LogCrashes \/ CompactStarts
-----------------------------------------------------------------------------
(* Properties *)

\* The log has its types, and an open writer's index is the number of its records.
LogTypeOK ==
  /\ header \in {"absent", "unsynced", "short", "whole"}
  /\ onDisk \in 0..Len(cells) /\ durable \in 0..Len(appended) /\ holed \in BOOLEAN
  /\ writer.open => writer.next = Len(appended) /\ Len(cells) = Frame * Len(appended)

\* Records that were synced are read back after a crash, in their order, and nothing is
\* read that was not appended: the log loses a tail of unsynced records at most. One case
\* is left out, in which the code refuses a log that is sound up to its last sync, as its
\* header says ("a failing record followed by more data is corruption"): the crash lost
\* part of an unsynced record and kept part of a later one, or lost the length of the last
\* one and kept part of its body.
SyncedRecordsSurvive ==
  /\ Opens => IsPrefix(Recovered, appended)
  /\ durable > 0 /\ ~holed => Opens /\ Len(Recovered) >= durable
===============================================================================
