------------------------- MODULE ChunkedProperties -------------------------
(***************************************************************************)
(* What a resumable upload promises although its record is written back    *)
(* from a copy and may expire at any time.                                 *)
(***************************************************************************)
EXTENDS ChunkedUpload

RequestStates ==
  {NotServing}
    \union [op : {"chunk"}, chunk : Chunks, content : Contents,
            received : 0 .. TotalChunks]
    \union [op : {"put"}, chunk : Chunks, received : 0 .. TotalChunks]
    \union [op : {"merge"}, next : 0 .. TotalChunks, excess : Int]
    \union [op : {"enqueue"}, object : 1 .. MaxCompletions]

\* Every variable has its type, and only stored raw objects are queued.
ChunkTypeOK ==
  /\ record \in [live : BOOLEAN, received : 0 .. TotalChunks]
  /\ parts \in [Chunks -> Contents \union {Missing}]
  /\ raw \in 0 .. MaxCompletions
  /\ queued \subseteq 1 .. raw
  /\ chunkRequest \in [ChunkRequests -> RequestStates]
  /\ acked \subseteq Chunks
  /\ overlapped \in BOOLEAN
  /\ \A r \in ChunkRequests :
       chunkRequest[r].op = "enqueue" => chunkRequest[r].object \in 1 .. raw

\* The mark never runs ahead of storage: the chunk just below received_chunks is
\* stored, although the record is written from a copy that other requests and
\* the expiry may have outrun, and chunks come in any order and more than once
\* (store_chunk, chunked_upload_service.py:110-127).  So a session that looks
\* complete has at least its last chunk.
MarkIsStored ==
  record.received > 0 => parts[record.received - 1] # Missing

\* While requests do not overlap, the record knows every acknowledged chunk, so
\* complete_session does not refuse a session whose chunks were all
\* acknowledged.  Overlapping requests write back older marks and lose them.
AckedIsCounted ==
  ~overlapped /\ record.live => \A i \in acked : i < record.received
=============================================================================
