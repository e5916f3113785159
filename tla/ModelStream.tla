------------------------------ MODULE ModelStream ------------------------------
(***************************************************************************)
(* The client of Core's model stream (crates/core/app-events/src/lib.rs,   *)
(* ModelStreamClient): the checks before the request, the response that    *)
(* arrives in chunks cut anywhere, the frames found in the buffer, and the *)
(* items that they become.                                                 *)
(*                                                                         *)
(* A byte is a line break or stands for a whole line: the frame parser     *)
(* tells lines apart by what their data is.                                *)
(***************************************************************************)
EXTENDS Naturals, Sequences, SequencesExt

CONSTANTS
  Lines,      \* the lines Core may send
  MaxBytes,   \* bound: bytes of a response
  MaxChunk    \* bound: bytes of a chunk

ASSUME ModelStreamAssumption ==
  /\ Lines \subseteq {"delta", "completed", "failed", "[DONE]", "error", "invalid", "other", "comment",
                      "notUtf8"}
  /\ MaxBytes \in Nat /\ MaxChunk \in Nat

VARIABLES
  phase,      \* of the call: before the request, reading, finding frames, over
  received,   \* history: the bytes of the response so far
  buffer,     \* the bytes that are not yet part of a frame
  items       \* what the stream has yielded

streamVars == <<phase, received, buffer, items>>

Break == "nl"
Bytes == Lines \cup {Break}

\* find_sse_frame_boundary: the position of the first of two line breaks, or none.
FindBoundary(bytes) ==
  SelectInSeq([i \in 1..(Len(bytes) - 1) |-> <<bytes[i], bytes[i + 1]>>],
              LAMBDA pair : pair = <<Break, Break>>)

\* What is left once the frame and its boundary are drained.
AfterBoundary(bytes) == SubSeq(bytes, FindBoundary(bytes) + 2, Len(bytes))

\* parse_model_stream_frame: a frame that is not UTF-8 is an error, whichever line of it
\* is not; otherwise the first line with data decides, and what it is not told about is
\* ignored.
ParseFrame(frame) ==
  LET data == SelectSeq(frame, LAMBDA line : line \notin {Break, "comment"})
  IN IF Contains(frame, "notUtf8") THEN <<"error">>
     ELSE IF data = <<>> THEN <<>>
     ELSE CASE Head(data) \in {"completed", "[DONE]"} -> <<"completed">>
            [] Head(data) \in {"failed", "error"} -> <<"failed">>
            [] Head(data) = "delta" -> <<"delta">>
            [] Head(data) = "invalid" -> <<"error">>
            [] OTHER -> <<>>

\* The item that makes the client stop reading.
EndsStream(item) == item \in {"completed", "failed", "error"}

-----------------------------------------------------------------------------

StreamInit ==
  /\ phase = "request"
  /\ received = <<>> /\ buffer = <<>> /\ items = <<>>

\* ModelStreamRequest::validate: an invalid request is not sent.
StreamInvalid ==
  /\ phase = "request"
  /\ phase' = "refused"
  /\ UNCHANGED <<received, buffer, items>>

\* ModelStreamClient::stream: without a host, with a transport error or a status that
\* is not 2xx there is no stream.
StreamOpens ==
  /\ phase = "request"
  /\ phase' \in {"refused", "reading"}
  /\ UNCHANGED <<received, buffer, items>>

\* Mutant: what a chunk begins is not kept for the next one.
ChunkArrives_Restarts ==
  /\ phase = "reading"
  /\ \E n \in 1..MaxChunk : \E chunk \in [1..n -> Bytes] :
       /\ Len(received) + n <= MaxBytes
       /\ received' = received \o chunk
       /\ buffer' = chunk
  /\ phase' = "framing"
  /\ UNCHANGED items

\* A chunk of any bytes is put behind what is left of the last one.
ChunkArrives ==
  /\ phase = "reading"
  /\ \E n \in 1..MaxChunk : \E chunk \in [1..n -> Bytes] :
       /\ Len(received) + n <= MaxBytes
       /\ received' = received \o chunk
       /\ buffer' = buffer \o chunk
  /\ phase' = "framing"
  /\ UNCHANGED items

\* A read fails, and the stream ends with the error.
ChunkFails ==
  /\ phase = "reading"
  /\ items' = Append(items, "error")
  /\ phase' = "ended"
  /\ UNCHANGED <<received, buffer>>

\* Mutant: the end of the response is taken for the end of the answer.
ResponseEnds_Silent ==
  /\ phase = "reading"
  /\ phase' = "ended"
  /\ UNCHANGED <<received, buffer, items>>

\* No frame has ended the stream: a protocol error does.
ResponseEnds ==
  /\ phase = "reading"
  /\ items' = Append(items, "error")
  /\ phase' = "ended"
  /\ UNCHANGED <<received, buffer>>

\* One frame of the buffer.
FrameParsed ==
  /\ phase = "framing"
  /\ FindBoundary(buffer) # 0
  /\ LET item == ParseFrame(SubSeq(buffer, 1, FindBoundary(buffer) - 1))
     IN /\ items' = items \o item
        /\ phase' = IF item # <<>> /\ EndsStream(Head(item)) THEN "ended" ELSE "framing"
  /\ buffer' = AfterBoundary(buffer)
  /\ UNCHANGED received

\* Mutant: one frame is taken from each chunk.
NoFrameLeft_FirstOnly ==
  /\ phase = "framing"
  /\ phase' = "reading"
  /\ UNCHANGED <<received, buffer, items>>

NoFrameLeft ==
  /\ phase = "framing"
  /\ FindBoundary(buffer) = 0
  /\ phase' = "reading"
  /\ UNCHANGED <<received, buffer, items>>

\* drive_run drops the stream when its run is canceled; the generator is suspended
\* where it awaits a chunk or yields an item.
StreamDropped ==
  /\ phase \in {"reading", "framing"}
  /\ phase' = "dropped"
  /\ UNCHANGED <<received, buffer, items>>

StreamNext ==
  \/ StreamInvalid \/ StreamOpens \/ ChunkArrives \/ ChunkFails \/ ResponseEnds
  \/ FrameParsed \/ NoFrameLeft \/ StreamDropped

StreamSpec == StreamInit /\ [][StreamNext]_streamVars
-----------------------------------------------------------------------------
(* Properties *)

\* The call and its buffer have their types, and between two reads no whole frame
\* waits in the buffer.
StreamTypeOK ==
  /\ phase \in {"request", "refused", "reading", "framing", "ended", "dropped"}
  /\ received \in Seq(Bytes) /\ buffer \in Seq(Bytes)
  /\ items \in Seq({"delta", "completed", "failed", "error"})
  /\ phase = "reading" => FindBoundary(buffer) = 0

\* Reference: a response read byte by byte, without a buffer: the frame that has begun and
\* the items of those before it.
NothingRead == [frame |-> <<>>, items |-> <<>>]
ReadByte(acc, byte) ==
  IF byte = Break /\ acc.frame # <<>> /\ Last(acc.frame) = Break
  THEN [frame |-> <<>>, items |-> acc.items \o ParseFrame(Front(acc.frame))]
  ELSE [frame |-> Append(acc.frame, byte), items |-> acc.items]

Reading(bytes) ==
  LET read[n \in 0..Len(bytes)] == IF n = 0 THEN NothingRead ELSE ReadByte(read[n - 1], bytes[n])
  IN read

ItemsOf(bytes) == Reading(bytes)[Len(bytes)].items

\* However the response is cut into chunks, through a line, between the two line
\* breaks of a boundary or after several frames, what has been yielded when the
\* client waits for more is what the bytes received so far say, in their order.
ChunksAreInvisible ==
  phase = "reading" => items = ItemsOf(received)

\* The stream keeps the contract that the runtime consumes it under.
Contract ==
  INSTANCE StreamContract WITH
    yielded <- items,
    state <- IF phase \in {"ended", "dropped"} THEN phase
             ELSE IF phase = "refused" THEN "dropped" ELSE "open"
ImplementsContract == Contract!ContractSpec
===============================================================================
