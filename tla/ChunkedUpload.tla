---------------------------- MODULE ChunkedUpload ----------------------------
(***************************************************************************)
(* One resumable upload session (services/ingest/chunked_upload_service.py *)
(* and its three endpoints in api/v1/endpoints/datasets.py): a record in   *)
(* Valkey that expires, the chunks in object storage, and the raw object a *)
(* completed session hands to process_upload.  Every key carries the       *)
(* session's id, so one session stands for all.                            *)
(*                                                                         *)
(* A request loads the record, calls storage and writes the record back    *)
(* as it loaded it; other requests of the session run in between.          *)
(***************************************************************************)
EXTENDS Integers

CONSTANTS
  TotalChunks,    \* fixed by total_size when the session is created
  ChunkRequests,  \* requests in flight at once; with one, nothing overlaps
  MaxCompletions  \* raw objects made from the session

ASSUME ChunkedAssumption ==
  /\ TotalChunks \in Nat \ {0}
  /\ MaxCompletions \in Nat

VARIABLES
  record,        \* the Valkey record: whether it is there, and received_chunks
  parts,         \* per chunk, what storage holds under its key
  raw,           \* how many raw objects were made from the session
  queued,        \* which of them were handed to process_upload
  chunkRequest,  \* per request in flight, how far it is and what it loaded
  acked,         \* history: chunks whose request was answered with 200
  overlapped     \* history: a request began while another was in flight

chunkVars == <<record, parts, raw, queued, chunkRequest, acked, overlapped>>

Chunks == 0 .. TotalChunks - 1

\* Whatever bytes a client sends: as many as total_size has room for, or not.
Contents == {"fits", "short", "long"}

\* How far one content is from the length it should have.
Excess(content) ==
  CASE content = "fits" -> 0 [] content = "short" -> -1 [] content = "long" -> 1

Missing == "missing"

NotServing == [op |-> "idle"]

ChunkInit ==
  /\ record = [live |-> TRUE, received |-> 0]
  /\ parts = [i \in Chunks |-> Missing]
  /\ raw = 0
  /\ queued = {}
  /\ chunkRequest = [r \in ChunkRequests |-> NotServing]
  /\ acked = {}
  /\ overlapped = FALSE

\* The record expires an hour after it was last written.
Expire ==
  /\ record.live
  /\ record' = [live |-> FALSE, received |-> 0]
  /\ UNCHANGED <<parts, raw, queued, chunkRequest, acked, overlapped>>

BeginRequest(r, state) ==
  /\ chunkRequest[r] = NotServing
  /\ record.live
  /\ chunkRequest' = [chunkRequest EXCEPT ![r] = state]
  /\ overlapped' = (overlapped \/ \E o \in ChunkRequests \ {r} : chunkRequest[o] # NotServing)

\* The process dies, or storage, Valkey, the broker or a check raises.
Fail(r) ==
  /\ chunkRequest[r] # NotServing
  /\ chunkRequest' = [chunkRequest EXCEPT ![r] = NotServing]
  /\ UNCHANGED <<record, parts, raw, queued, acked, overlapped>>

-----------------------------------------------------------------------------
(* store_chunk *)

ValidIndex(i) == i < TotalChunks

BeginChunk(r, i, content) ==
  /\ ValidIndex(i)
  /\ BeginRequest(r, [op |-> "chunk", chunk |-> i, content |-> content,
                      received |-> record.received])
  /\ UNCHANGED <<record, parts, raw, queued, acked>>

PutChunk(r) ==
  /\ chunkRequest[r].op = "chunk"
  /\ parts' = [parts EXCEPT ![chunkRequest[r].chunk] = chunkRequest[r].content]
  /\ chunkRequest' = [chunkRequest EXCEPT ![r] =
                        [op |-> "put", chunk |-> chunkRequest[r].chunk,
                         received |-> chunkRequest[r].received]]
  /\ UNCHANGED <<record, raw, queued, acked, overlapped>>

\* Mutant: it is the last chunk seen, plus one.
Received_Last(loaded, i) == i + 1

\* Mutant: the chunks received are counted.
Received_Counted(loaded, i) == IF loaded < TotalChunks THEN loaded + 1 ELSE loaded

\* received_chunks is the highest chunk seen so far, plus one.
Received(loaded, i) == IF i >= loaded THEN i + 1 ELSE loaded

\* The record is written back, which also brings an expired one back.
SaveChunk(r) ==
  /\ chunkRequest[r].op = "put"
  /\ record' = [live |-> TRUE,
                received |-> Received(chunkRequest[r].received, chunkRequest[r].chunk)]
  /\ acked' = acked \union {chunkRequest[r].chunk}
  /\ chunkRequest' = [chunkRequest EXCEPT ![r] = NotServing]
  /\ UNCHANGED <<parts, raw, queued, overlapped>>

-----------------------------------------------------------------------------
(* complete_session *)

BeginComplete(r) ==
  /\ record.received >= TotalChunks
  /\ BeginRequest(r, [op |-> "merge", next |-> 0, excess |-> 0])
  /\ UNCHANGED <<record, parts, raw, queued, acked>>

\* storage.get raises for a chunk that is not there; then only Fail is left.
ReadPart(r) ==
  /\ chunkRequest[r].op = "merge"
  /\ chunkRequest[r].next \in Chunks
  /\ parts[chunkRequest[r].next] # Missing
  /\ chunkRequest' = [chunkRequest EXCEPT ![r] =
                        [op |-> "merge", next |-> chunkRequest[r].next + 1,
                         excess |-> chunkRequest[r].excess + Excess(parts[chunkRequest[r].next])]]
  /\ UNCHANGED <<record, parts, raw, queued, acked, overlapped>>

\* Only the length of the whole is compared, not that of each chunk.
SizeMatches(excess) == excess = 0

PutRaw(r) ==
  /\ chunkRequest[r].op = "merge"
  /\ chunkRequest[r].next = TotalChunks
  /\ SizeMatches(chunkRequest[r].excess)
  /\ raw < MaxCompletions
  /\ raw' = raw + 1
  /\ chunkRequest' = [chunkRequest EXCEPT ![r] = [op |-> "enqueue", object |-> raw']]
  /\ UNCHANGED <<record, parts, queued, acked, overlapped>>

\* process_upload.delay; the record stays as it is.
EnqueueMerged(r) ==
  /\ chunkRequest[r].op = "enqueue"
  /\ queued' = queued \union {chunkRequest[r].object}
  /\ chunkRequest' = [chunkRequest EXCEPT ![r] = NotServing]
  /\ UNCHANGED <<record, parts, raw, acked, overlapped>>

-----------------------------------------------------------------------------
(* The specification *)

ChunkNext ==
  \/ Expire
  \/ \E r \in ChunkRequests :
       \/ \E i \in 0 .. TotalChunks, content \in Contents : BeginChunk(r, i, content)
       \/ PutChunk(r)
       \/ SaveChunk(r)
       \/ BeginComplete(r)
       \/ ReadPart(r)
       \/ PutRaw(r)
       \/ EnqueueMerged(r)
       \/ Fail(r)

ChunkSpec == ChunkInit /\ [][ChunkNext]_chunkVars
=============================================================================
