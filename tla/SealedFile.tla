------------------------------ MODULE SealedFile ------------------------------
(***************************************************************************)
(* Write-once sealed files (crates/core/crypto/src/sealed_file.rs): the    *)
(* chunks a writer cuts the plaintext into, the reader that finds them by  *)
(* the file's size alone, and the jobs that publish a sealed file under a  *)
(* name: seal_file_in_place, and sealed_log.rs compact_to_sealed_file.     *)
(*                                                                         *)
(* A file's body is a sequence of cells; a cell knows the chunk it is of,  *)
(* so a run of cells opens only when it is one whole chunk. Each file has  *)
(* its own salt and so its own key: it is named after the key it is sealed *)
(* under. Cryptography is ideal.                                           *)
(***************************************************************************)
EXTENDS Integers, Sequences, SequencesExt

CONSTANTS
  ChunkSize,   \* plaintext cells of a full chunk
  TagLen,      \* TAG_LEN, in cells
  Contents     \* the plaintexts of files to seal

ASSUME SealedFileAssumption ==
  /\ ChunkSize \in Nat \ {0} /\ TagLen \in Nat \ {0}
  /\ \A content \in Contents : content \in Seq(Range(content))

\* chunk_nonce
ChunkNonce(index, last) == <<index, last>>

\* The cells of one sealed chunk.
SealedChunk(key, index, last, plain) ==
  [at \in 1..(Len(plain) + TagLen) |->
     [key |-> key, nonce |-> ChunkNonce(index, last), plain |-> plain, at |-> at]]

\* with_params: a writer and what it has put in its sink.
NewWriter == [buffer |-> <<>>, next |-> 0]

\* write_plain of one cell: a full buffer is sealed only when more data follows.
WritePlain(writer, x) ==
  IF Len(writer.buffer) = ChunkSize
  THEN [buffer |-> <<x>>, next |-> writer.next + 1]
  ELSE [writer EXCEPT !.buffer = Append(@, x)]

\* What write_plain puts in the sink.
WrittenBy(writer, key) ==
  IF Len(writer.buffer) = ChunkSize THEN SealedChunk(key, writer.next, FALSE, writer.buffer) ELSE <<>>

\* finish: the last chunk, which may be full or empty.
LastChunk(writer, key) == SealedChunk(key, writer.next, TRUE, writer.buffer)

\* SealedFileReader::open: the number of chunks and the plaintext length, from the size.
ChunkCount(body) ==
  (Len(body) \div (ChunkSize + TagLen)) + (IF Len(body) % (ChunkSize + TagLen) = 0 THEN 0 ELSE 1)

PlaintextLen(body) == Len(body) - ChunkCount(body) * TagLen

\* A size that no writer leaves.
Malformed(body) ==
  \/ Len(body) < TagLen
  \/ Len(body) % (ChunkSize + TagLen) \in 1..(TagLen - 1)

\* load_chunk: the cells at the place of chunk i, opened with its nonce, or none.
LoadChunk(body, key, i) ==
  LET last == i + 1 = ChunkCount(body)
      from == i * (ChunkSize + TagLen)
      len == IF last THEN PlaintextLen(body) - i * ChunkSize + TagLen ELSE ChunkSize + TagLen
      sealed == SubSeq(body, from + 1, from + len)
  IN IF sealed = SealedChunk(key, i, last, sealed[1].plain) THEN <<sealed[1].plain>> ELSE <<>>

\* open: the last chunk opens under one of the candidate keys.
OpensUnder(body, key) == ~Malformed(body) /\ LoadChunk(body, key, ChunkCount(body) - 1) # <<>>

\* read_range: from start, len cells, clamped to the end; <<>> when a chunk does not open.
ReadRange(body, key, start, len) ==
  LET end == IF start + len < PlaintextLen(body) THEN start + len ELSE PlaintextLen(body)
      cell(position) == LoadChunk(body, key, position \div ChunkSize)
  IN IF start >= end THEN <<<<>>>>
     ELSE IF \E p \in start..(end - 1) : cell(p) = <<>> THEN <<>>
     ELSE <<[k \in 1..(end - start) |-> cell(start + k - 1)[1][((start + k - 1) % ChunkSize) + 1]]>>

\* The Read of a reader that has just been opened, to its end.
ReadAll(body, key) == ReadRange(body, key, 0, PlaintextLen(body))
-----------------------------------------------------------------------------
(* The jobs *)

VARIABLES
  cipher,     \* the current key and the retired ones
  job,        \* the running job: its kind, its step, its source and its writer
  name,       \* what is under the published name, and (history) the content it stands for
  former,     \* what was there before a rename the directory has not been synced after
  temp        \* the .sealing file of the job: its cells, and how many are on disk

fileVars == <<cipher, job, name, former, temp>>

Plain(content) == [kind |-> "plain", body |-> content, content |-> content]
Absent == [kind |-> "absent", body |-> <<>>, content |-> <<>>]
NoTemp == [cells |-> <<>>, synced |-> 0]
NoJob == [kind |-> "none", pc |-> "idle", source |-> <<>>, left |-> <<>>, writer |-> NewWriter]

\* ContentCipher::candidate_keys
CandidateKeys == {cipher.current} \cup cipher.retired

FileInit ==
  /\ cipher = [current |-> "k1", retired |-> {}]
  /\ name \in {Plain(content) : content \in Contents} \cup {Absent}
  /\ former = name /\ temp = NoTemp /\ job = NoJob

\* A job of its kind begins with an empty .sealing file; a stale one is removed.
JobStarts(kind, source) ==
  /\ job' = [kind |-> kind, pc |-> "writing", source |-> source, left |-> source, writer |-> NewWriter]
  /\ temp' = NoTemp

\* is_sealed_file, by the first bytes.
IsSealedFile(file) == file.kind = "sealed"

\* seal_file_in_place: nothing to do for a sealed file; without room the caller tries
\* again at a later start.
InPlaceStarts ==
  /\ job.pc = "idle" /\ name # Absent /\ ~IsSealedFile(name)
  /\ JobStarts("inPlace", name.body)
  /\ UNCHANGED <<cipher, name, former>>

\* One more cell of the source through write_plain.
JobWrites ==
  /\ job.pc = "writing" /\ job.left # <<>>
  /\ temp' = [temp EXCEPT !.cells = @ \o WrittenBy(job.writer, cipher.current)]
  /\ job' = [job EXCEPT !.left = Tail(@), !.writer = WritePlain(@, Head(job.left))]
  /\ UNCHANGED <<cipher, name, former>>

\* Mutant: the last chunk is not synced before the rename.
Synced_Never(cells) == 0

\* How much of the temp file is on disk when finish returns.
Synced(cells) == Len(cells)

\* finish: the last chunk and the sync.
JobFinishes ==
  /\ job.pc = "writing" /\ job.left = <<>>
  /\ LET cells == temp.cells \o LastChunk(job.writer, cipher.current)
     IN temp' = [temp EXCEPT !.cells = cells, !.synced = Synced(cells)]
  /\ job' = [job EXCEPT !.pc = IF job.kind = "inPlace" THEN "verifying" ELSE "renaming"]
  /\ UNCHANGED <<cipher, name, former>>

\* The sealed copy must open to what was read; compact_to_sealed_file leaves this out.
JobVerifies ==
  /\ job.pc = "verifying"
  /\ OpensUnder(temp.cells, cipher.current)
  /\ ReadAll(temp.cells, cipher.current) = <<job.source>>
  /\ job' = [job EXCEPT !.pc = "renaming"]
  /\ UNCHANGED <<cipher, name, former, temp>>

\* A step fails, and the name stands. The temp file is removed, or left over when it is
\* the rename that failed.
JobFails ==
  /\ job.pc \in {"writing", "verifying", "renaming"}
  /\ temp' = NoTemp /\ job' = NoJob
  /\ UNCHANGED <<cipher, name, former>>

JobRenames ==
  /\ job.pc = "renaming"
  /\ name' = [kind |-> "sealed", body |-> temp.cells, content |-> job.source]
  /\ former' = name
  /\ job' = [job EXCEPT !.pc = "published"]
  /\ UNCHANGED <<cipher, temp>>

\* sync_parent_dir
JobEnds ==
  /\ job.pc = "published"
  /\ former' = name /\ temp' = NoTemp /\ job' = NoJob
  /\ UNCHANGED <<cipher, name>>

\* A crash loses the job. Cells that are not on disk may be missing from the renamed
\* file, and a rename that is not on disk may be undone. A .sealing file that is left
\* over is removed by the next job unread.
JobCrashes ==
  /\ job.pc # "idle"
  /\ job' = NoJob
  /\ \/ job.pc # "published" /\ UNCHANGED <<name, former>>
     \/ job.pc = "published" /\ name' = former /\ UNCHANGED former
     \/ /\ job.pc = "published"
        /\ \E n \in temp.synced..Len(temp.cells) :
             name' = [name EXCEPT !.body = SubSeq(temp.cells, 1, n)]
        /\ former' = name'
  /\ temp' = NoTemp
  /\ UNCHANGED cipher

\* The keys are rotated between two runs of the program.
KeysRotated ==
  /\ job.pc = "idle" /\ cipher.retired = {}
  /\ cipher' = [current |-> "k2", retired |-> {cipher.current}]
  /\ UNCHANGED <<job, name, former, temp>>

JobNext ==
  \/ InPlaceStarts \/ JobWrites \/ JobFinishes \/ JobVerifies \/ JobFails \/ JobRenames
  \/ JobEnds \/ JobCrashes
-----------------------------------------------------------------------------
(* Properties *)

\* The job and its files have their types.
FileTypeOK ==
  /\ job.kind \in {"none", "inPlace", "compact"}
  /\ job.pc \in {"idle", "writing", "verifying", "renaming", "published"}
  /\ name.kind \in {"plain", "sealed", "absent"}
  /\ Len(job.writer.buffer) <= ChunkSize
  /\ temp.synced <= Len(temp.cells)

\* Whatever step a job fails or crashes at, the name stands for its content: as the
\* plaintext it was, or as a sealed file of which every range reads as the content's,
\* under the key that opens it. And the sealed file is known to be whole: cut anywhere,
\* between two chunks too, it does not open.
NameKeepsContent ==
  /\ name.kind = "plain" => name.body = name.content
  /\ name.kind = "sealed" =>
       \E key \in CandidateKeys :
         /\ OpensUnder(name.body, key)
         /\ PlaintextLen(name.body) = Len(name.content)
         /\ \A start \in 0..Len(name.content) : \A len \in 0..(Len(name.content) + 1) :
              ReadRange(name.body, key, start, len) =
                <<SubSeq(name.content, start + 1,
                         IF start + len < Len(name.content) THEN start + len ELSE Len(name.content))>>
  /\ name.kind = "sealed" =>
       \A key \in CandidateKeys : \A n \in 0..(Len(name.body) - 1) :
         ~OpensUnder(SubSeq(name.body, 1, n), key)
===============================================================================
