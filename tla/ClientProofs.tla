---------------------------- MODULE ClientProofs -----------------------------
(***************************************************************************)
(* Proofs about clients that take several steps: the resumable upload, for *)
(* any number of chunks and of requests in flight, the chat and the pages  *)
(* of a file, for any number of versions, rows and any threshold, and the  *)
(* walks through the catalogue, for any number of datasets and page size.  *)
(***************************************************************************)
EXTENDS ChunkedProperties, Answers, DataPages, Catalogue, SequenceTheorems, FiniteSetTheorems, TLAPS

Storing(r) == chunkRequest[r].op \in {"chunk", "put"}

-----------------------------------------------------------------------------
(* Types *)

LEMMA StateShapes ==
  ASSUME ChunkTypeOK, NEW r \in ChunkRequests
  PROVE  /\ chunkRequest[r] \in RequestStates
         /\ chunkRequest[r].op = "idle" <=> chunkRequest[r] = NotServing
         /\ chunkRequest[r].op = "chunk" =>
              chunkRequest[r] \in [op : {"chunk"}, chunk : Chunks, content : Contents,
                              received : 0 .. TotalChunks]
         /\ chunkRequest[r].op = "put" =>
              chunkRequest[r] \in [op : {"put"}, chunk : Chunks,
                              received : 0 .. TotalChunks]
         /\ chunkRequest[r].op = "merge" =>
              chunkRequest[r] \in [op : {"merge"}, next : 0 .. TotalChunks, excess : Int]
         /\ chunkRequest[r].op = "enqueue" =>
              chunkRequest[r] \in [op : {"enqueue"}, object : 1 .. MaxCompletions]
  BY DEF ChunkTypeOK, RequestStates, NotServing

LEMMA MarkType ==
  ASSUME NEW loaded \in 0 .. TotalChunks, NEW i \in Chunks
  PROVE  /\ Received(loaded, i) \in 0 .. TotalChunks
         /\ Received(loaded, i) >= loaded
         /\ Received(loaded, i) > i
         /\ Received(loaded, i) = loaded \/ Received(loaded, i) = i + 1
  BY ChunkedAssumption DEF Received, Chunks

LEMMA TypeInit == ChunkInit => ChunkTypeOK
<1> SUFFICES ASSUME ChunkInit PROVE ChunkTypeOK
  OBVIOUS
<1>1. raw \in 0 .. MaxCompletions
  BY ChunkedAssumption DEF ChunkInit
<1>2. record \in [live : BOOLEAN, received : 0 .. TotalChunks]
  BY ChunkedAssumption DEF ChunkInit
<1>3. parts \in [Chunks -> Contents \union {Missing}]
  BY DEF ChunkInit
<1>4. /\ chunkRequest \in [ChunkRequests -> RequestStates]
      /\ \A r \in ChunkRequests : chunkRequest[r].op = "idle"
  BY DEF ChunkInit, RequestStates, NotServing
<1>5. queued = {} /\ acked = {} /\ overlapped \in BOOLEAN
  BY DEF ChunkInit
<1> QED
  BY <1>1, <1>2, <1>3, <1>4, <1>5 DEF ChunkTypeOK

\* A request may become any well-typed state that refers to a stored object.
LEMMA RequestMoves ==
  ASSUME ChunkTypeOK, NEW r \in ChunkRequests, NEW s \in RequestStates,
         chunkRequest' = [chunkRequest EXCEPT ![r] = s],
         1 .. raw \subseteq 1 .. raw',
         s.op = "enqueue" => s.object \in 1 .. raw'
  PROVE  /\ chunkRequest' \in [ChunkRequests -> RequestStates]
         /\ \A o \in ChunkRequests :
              chunkRequest'[o].op = "enqueue" => chunkRequest'[o].object \in 1 .. raw'
  BY DEF ChunkTypeOK

LEMMA IdleType == NotServing \in RequestStates /\ NotServing.op = "idle"
  BY DEF RequestStates, NotServing

LEMMA TypeStep ==
  ASSUME ChunkTypeOK, [ChunkNext]_chunkVars
  PROVE  ChunkTypeOK'
<1>1. CASE Expire
  BY <1>1, ChunkedAssumption DEF Expire, ChunkTypeOK
<1>2. ASSUME NEW r \in ChunkRequests, Fail(r)
      PROVE  ChunkTypeOK'
  BY <1>2, IdleType, RequestMoves DEF Fail, ChunkTypeOK
<1>3. ASSUME NEW r \in ChunkRequests, NEW i \in 0 .. TotalChunks,
             NEW content \in Contents, BeginChunk(r, i, content)
      PROVE  ChunkTypeOK'
  <2> DEFINE s == [op |-> "chunk", chunk |-> i, content |-> content,
                   received |-> record.received]
  <2>1. s \in RequestStates /\ s.op # "enqueue"
    BY <1>3, ChunkedAssumption
       DEF BeginChunk, ValidIndex, Chunks, ChunkTypeOK, RequestStates
  <2>2. chunkRequest' = [chunkRequest EXCEPT ![r] = s] /\ overlapped' \in BOOLEAN
    BY <1>3 DEF BeginChunk, BeginRequest, ChunkTypeOK
  <2> HIDE DEF s
  <2> QED
    BY <1>3, <2>1, <2>2, RequestMoves DEF BeginChunk, ChunkTypeOK
<1>4. ASSUME NEW r \in ChunkRequests, PutChunk(r)
      PROVE  ChunkTypeOK'
  <2>1. chunkRequest[r] \in [op : {"chunk"}, chunk : Chunks, content : Contents,
                        received : 0 .. TotalChunks]
    BY <1>4, StateShapes DEF PutChunk
  <2> DEFINE s == [op |-> "put", chunk |-> chunkRequest[r].chunk,
                   received |-> chunkRequest[r].received]
  <2>2. s \in RequestStates /\ s.op # "enqueue"
    BY <2>1 DEF RequestStates
  <2>3. chunkRequest' = [chunkRequest EXCEPT ![r] = s]
    BY <1>4 DEF PutChunk
  <2>4. parts' \in [Chunks -> Contents \union {Missing}]
    BY <1>4, <2>1 DEF PutChunk, ChunkTypeOK
  <2> HIDE DEF s
  <2> QED
    BY <1>4, <2>2, <2>3, <2>4, RequestMoves DEF PutChunk, ChunkTypeOK
<1>5. ASSUME NEW r \in ChunkRequests, SaveChunk(r)
      PROVE  ChunkTypeOK'
  <2>1. chunkRequest[r].chunk \in Chunks /\ chunkRequest[r].received \in 0 .. TotalChunks
    BY <1>5, StateShapes DEF SaveChunk
  <2>2. record' \in [live : BOOLEAN, received : 0 .. TotalChunks]
    BY <1>5, <2>1, MarkType DEF SaveChunk
  <2>3. acked' \subseteq Chunks
    BY <1>5, <2>1 DEF SaveChunk, ChunkTypeOK
  <2> QED
    BY <1>5, <2>2, <2>3, IdleType, RequestMoves DEF SaveChunk, ChunkTypeOK
<1>6. ASSUME NEW r \in ChunkRequests, BeginComplete(r)
      PROVE  ChunkTypeOK'
  <2> DEFINE s == [op |-> "merge", next |-> 0, excess |-> 0]
  <2>1. s \in RequestStates /\ s.op # "enqueue"
    BY ChunkedAssumption DEF RequestStates
  <2>2. chunkRequest' = [chunkRequest EXCEPT ![r] = s] /\ overlapped' \in BOOLEAN
    BY <1>6 DEF BeginComplete, BeginRequest, ChunkTypeOK
  <2> HIDE DEF s
  <2> QED
    BY <1>6, <2>1, <2>2, RequestMoves DEF BeginComplete, ChunkTypeOK
<1>7. ASSUME NEW r \in ChunkRequests, ReadPart(r)
      PROVE  ChunkTypeOK'
  <2>1. chunkRequest[r] \in [op : {"merge"}, next : 0 .. TotalChunks, excess : Int]
    BY <1>7, StateShapes DEF ReadPart
  <2>2. PICK part \in Contents : part = parts[chunkRequest[r].next]
    BY <1>7 DEF ReadPart, ChunkTypeOK
  <2>3. Excess(part) \in Int
    BY DEF Excess, Contents
  <2> DEFINE s == [op |-> "merge", next |-> chunkRequest[r].next + 1,
                   excess |-> chunkRequest[r].excess + Excess(part)]
  <2>4. s \in RequestStates /\ s.op # "enqueue"
    <3>1. chunkRequest[r].next + 1 \in 0 .. TotalChunks
      BY <1>7, <2>1, ChunkedAssumption DEF ReadPart, Chunks
    <3>2. chunkRequest[r].excess + Excess(part) \in Int
      BY <2>1, <2>3
    <3> QED
      BY <3>1, <3>2 DEF RequestStates
  <2>5. chunkRequest' = [chunkRequest EXCEPT ![r] = s]
    BY <1>7, <2>2 DEF ReadPart, ChunkTypeOK
  <2> HIDE DEF s
  <2> QED
    BY <1>7, <2>4, <2>5, RequestMoves DEF ReadPart, ChunkTypeOK
<1>8. ASSUME NEW r \in ChunkRequests, PutRaw(r)
      PROVE  ChunkTypeOK'
  <2> DEFINE s == [op |-> "enqueue", object |-> raw']
  <2>1. raw' \in 1 .. MaxCompletions /\ 1 .. raw \subseteq 1 .. raw'
    BY <1>8, ChunkedAssumption DEF PutRaw, ChunkTypeOK
  <2>2. s \in RequestStates /\ s.object \in 1 .. raw'
    BY <2>1 DEF RequestStates
  <2>3. chunkRequest' = [chunkRequest EXCEPT ![r] = s]
    BY <1>8 DEF PutRaw
  <2> HIDE DEF s
  <2> QED
    BY <1>8, <2>1, <2>2, <2>3, RequestMoves DEF PutRaw, ChunkTypeOK
<1>9. ASSUME NEW r \in ChunkRequests, EnqueueMerged(r)
      PROVE  ChunkTypeOK'
  BY <1>9, IdleType, RequestMoves DEF EnqueueMerged, ChunkTypeOK
<1>10. CASE UNCHANGED chunkVars
  BY <1>10 DEF chunkVars, ChunkTypeOK
<1> QED
  BY <1>1, <1>2, <1>3, <1>4, <1>5, <1>6, <1>7, <1>8, <1>9, <1>10 DEF ChunkNext

\* The record, the chunks, the raw objects and the requests are well typed.
THEOREM TypeCorrect == ChunkSpec => []ChunkTypeOK
  BY TypeInit, TypeStep, PTL DEF ChunkSpec

-----------------------------------------------------------------------------
(* The mark and the chunks *)

\* What is inductive: the record's mark and every mark a request holds stand on
\* a stored chunk, and a chunk about to be saved is stored.
MarksAreStored ==
  /\ ChunkTypeOK
  /\ record.received > 0 => parts[record.received - 1] # Missing
  /\ \A r \in ChunkRequests :
       /\ Storing(r) /\ chunkRequest[r].received > 0 => parts[chunkRequest[r].received - 1] # Missing
       /\ chunkRequest[r].op = "put" => parts[chunkRequest[r].chunk] # Missing

LEMMA MarksInit == ChunkInit => MarksAreStored
  BY TypeInit DEF ChunkInit, MarksAreStored, Storing, NotServing

\* A chunk that is stored stays stored.
LEMMA StoredStays ==
  ASSUME ChunkTypeOK, [ChunkNext]_chunkVars, NEW i \in Chunks, parts[i] # Missing
  PROVE  parts'[i] # Missing
<1>1. ASSUME NEW r \in ChunkRequests, PutChunk(r)
      PROVE  parts'[i] # Missing
  <2>1. chunkRequest[r].content \in Contents /\ chunkRequest[r].chunk \in Chunks
    BY <1>1, StateShapes DEF PutChunk
  <2>2. chunkRequest[r].content # Missing
    BY <2>1 DEF Contents, Missing
  <2>3. parts' = [parts EXCEPT ![chunkRequest[r].chunk] = chunkRequest[r].content]
    BY <1>1 DEF PutChunk
  <2> QED
    BY <2>1, <2>2, <2>3 DEF ChunkTypeOK
<1>2. ASSUME UNCHANGED parts
      PROVE  parts'[i] # Missing
  BY <1>2
<1> QED
  BY <1>1, <1>2
     DEF ChunkNext, chunkVars, Expire, BeginChunk, SaveChunk, BeginComplete, ReadPart,
         PutRaw, EnqueueMerged, Fail

LEMMA MarksStep ==
  ASSUME MarksAreStored, [ChunkNext]_chunkVars
  PROVE  MarksAreStored'
<1>1. ChunkTypeOK /\ ChunkTypeOK'
  BY TypeStep DEF MarksAreStored
<1>2. \A i \in Chunks : parts[i] # Missing => parts'[i] # Missing
  BY <1>1, StoredStays
<1>3. \A n \in 0 .. TotalChunks : n > 0 => n - 1 \in Chunks
  BY ChunkedAssumption DEF Chunks
<1>4. \A r \in ChunkRequests : Storing(r) => chunkRequest[r].received \in 0 .. TotalChunks
  BY <1>1, StateShapes DEF Storing
<1>5. record.received \in 0 .. TotalChunks
  BY <1>1 DEF ChunkTypeOK
\* A step that brings no new mark.
<1>6. ASSUME record'.received = record.received \/ record'.received = 0,
             \A r \in ChunkRequests :
               Storing(r)' => /\ Storing(r)
                              /\ chunkRequest'[r].received = chunkRequest[r].received,
             \A r \in ChunkRequests :
               chunkRequest'[r].op = "put" => /\ chunkRequest[r].op = "put"
                                              /\ chunkRequest'[r] = chunkRequest[r]
      PROVE  MarksAreStored'
  <2>1. record'.received > 0 => parts'[record'.received - 1] # Missing
    BY <1>2, <1>3, <1>5, <1>6 DEF MarksAreStored
  <2>2. ASSUME NEW r \in ChunkRequests, Storing(r)', chunkRequest'[r].received > 0
        PROVE  parts'[chunkRequest'[r].received - 1] # Missing
    BY <1>2, <1>3, <1>4, <1>6, <2>2 DEF MarksAreStored
  <2>3. ASSUME NEW r \in ChunkRequests, chunkRequest'[r].op = "put"
        PROVE  parts'[chunkRequest'[r].chunk] # Missing
    <3>1. chunkRequest[r].chunk \in Chunks
      BY <1>1, <1>6, <2>3, StateShapes
    <3> QED
      BY <1>2, <1>6, <2>3, <3>1 DEF MarksAreStored
  <2> QED
    BY <1>1, <2>1, <2>2, <2>3 DEF MarksAreStored, Storing
<1>7. ASSUME NEW r \in ChunkRequests, NEW i \in 0 .. TotalChunks,
             NEW content \in Contents, BeginChunk(r, i, content)
      PROVE  MarksAreStored'
  <2>1. /\ chunkRequest'[r].op = "chunk" /\ chunkRequest'[r].received = record.received
        /\ record' = record /\ parts' = parts
        /\ \A o \in ChunkRequests \ {r} : chunkRequest'[o] = chunkRequest[o]
    BY <1>1, <1>7 DEF BeginChunk, BeginRequest, ChunkTypeOK
  <2> QED
    BY <1>1, <2>1 DEF MarksAreStored, Storing
<1>8. ASSUME NEW r \in ChunkRequests, PutChunk(r)
      PROVE  MarksAreStored'
  <2>1. /\ chunkRequest[r].op = "chunk" /\ chunkRequest[r].chunk \in Chunks
        /\ chunkRequest[r].content \in Contents
        /\ chunkRequest[r].received \in 0 .. TotalChunks
    BY <1>1, <1>8, StateShapes DEF PutChunk
  <2>2. /\ chunkRequest'[r].op = "put"
        /\ chunkRequest'[r].chunk = chunkRequest[r].chunk
        /\ chunkRequest'[r].received = chunkRequest[r].received
        /\ record' = record
        /\ \A o \in ChunkRequests \ {r} : chunkRequest'[o] = chunkRequest[o]
    BY <1>1, <1>8 DEF PutChunk, ChunkTypeOK
  <2>3. parts'[chunkRequest[r].chunk] # Missing
    BY <1>1, <1>8, <2>1 DEF PutChunk, ChunkTypeOK, Contents, Missing
  <2>4. record'.received > 0 => parts'[record'.received - 1] # Missing
    BY <1>2, <1>3, <1>5, <2>2 DEF MarksAreStored
  <2>5. ASSUME NEW o \in ChunkRequests, Storing(o)', chunkRequest'[o].received > 0
        PROVE  parts'[chunkRequest'[o].received - 1] # Missing
    <3>1. Storing(o) /\ chunkRequest'[o].received = chunkRequest[o].received
      BY <2>1, <2>2, <2>5 DEF Storing
    <3> QED
      BY <1>2, <1>3, <1>4, <2>5, <3>1 DEF MarksAreStored
  <2>6. ASSUME NEW o \in ChunkRequests, chunkRequest'[o].op = "put"
        PROVE  parts'[chunkRequest'[o].chunk] # Missing
    <3>1. CASE o = r
      BY <2>2, <2>3, <3>1
    <3>2. CASE o # r
      <4>1. chunkRequest[o].chunk \in Chunks /\ chunkRequest'[o] = chunkRequest[o]
        BY <1>1, <2>2, <2>6, <3>2, StateShapes
      <4> QED
        BY <1>2, <2>6, <4>1 DEF MarksAreStored
    <3> QED
      BY <3>1, <3>2
  <2> QED
    BY <1>1, <2>4, <2>5, <2>6 DEF MarksAreStored, Storing
<1>9. ASSUME NEW r \in ChunkRequests, SaveChunk(r)
      PROVE  MarksAreStored'
  <2>1. /\ chunkRequest[r].op = "put" /\ chunkRequest[r].chunk \in Chunks
        /\ chunkRequest[r].received \in 0 .. TotalChunks
    BY <1>1, <1>9, StateShapes DEF SaveChunk
  <2>2. /\ record'.received = Received(chunkRequest[r].received, chunkRequest[r].chunk)
        /\ parts' = parts
        /\ chunkRequest'[r] = NotServing
        /\ \A o \in ChunkRequests \ {r} : chunkRequest'[o] = chunkRequest[o]
    BY <1>1, <1>9 DEF SaveChunk, ChunkTypeOK
  <2>3. \/ record'.received = chunkRequest[r].received
        \/ record'.received = chunkRequest[r].chunk + 1
    BY <2>1, <2>2, MarkType
  <2>4. record'.received > 0 => parts[record'.received - 1] # Missing
    <3>1. CASE record'.received = chunkRequest[r].received
      BY <2>1, <3>1 DEF MarksAreStored, Storing
    <3>2. CASE record'.received = chunkRequest[r].chunk + 1
      <4>1. record'.received - 1 = chunkRequest[r].chunk
        BY <2>1, <3>2 DEF Chunks
      <4> QED
        BY <2>1, <4>1 DEF MarksAreStored
    <3> QED
      BY <2>3, <3>1, <3>2
  <2> QED
    BY <1>1, <2>2, <2>4 DEF MarksAreStored, Storing, NotServing
<1>10. CASE Expire
  <2>1. record'.received = 0 /\ chunkRequest' = chunkRequest
    BY <1>10 DEF Expire
  <2> QED
    BY <1>6, <2>1 DEF Storing
<1>11. ASSUME NEW r \in ChunkRequests,
              NEW s, s.op \notin {"chunk", "put"},
              chunkRequest' = [chunkRequest EXCEPT ![r] = s], record' = record
       PROVE  MarksAreStored'
  <2>1. chunkRequest'[r] = s /\ \A o \in ChunkRequests \ {r} : chunkRequest'[o] = chunkRequest[o]
    BY <1>1, <1>11 DEF ChunkTypeOK
  <2> QED
    BY <1>6, <1>11, <2>1 DEF Storing
<1>12. ASSUME NEW r \in ChunkRequests,
              \/ BeginComplete(r) \/ ReadPart(r) \/ PutRaw(r)
              \/ EnqueueMerged(r) \/ Fail(r)
       PROVE  MarksAreStored'
  BY <1>11, <1>12
     DEF BeginComplete, BeginRequest, ReadPart, PutRaw, EnqueueMerged, Fail, NotServing
<1>13. CASE UNCHANGED chunkVars
  BY <1>6, <1>13 DEF chunkVars, Storing
<1> QED
  BY <1>7, <1>8, <1>9, <1>10, <1>12, <1>13 DEF ChunkNext

\* The mark never runs ahead of storage, for any number of chunks and however
\* many requests write back marks they loaded earlier.
THEOREM MarkNeverAhead == ChunkSpec => []MarkIsStored
<1>1. MarksAreStored => MarkIsStored
  BY DEF MarksAreStored, MarkIsStored
<1> QED
  BY <1>1, MarksInit, MarksStep, PTL DEF ChunkSpec

-----------------------------------------------------------------------------
(* Acknowledged chunks, while requests do not overlap *)

Alone == \A r, o \in ChunkRequests : chunkRequest[r] # NotServing /\ chunkRequest[o] # NotServing => r = o

\* What is inductive: only one request is in flight, and the mark it loaded
\* counts every acknowledged chunk too.
Counting ==
  /\ ChunkTypeOK
  /\ ~overlapped =>
       /\ Alone
       /\ record.live => \A i \in acked : i < record.received
       /\ \A r \in ChunkRequests :
            Storing(r) => \A i \in acked : i < chunkRequest[r].received

LEMMA CountingInit == ChunkInit => Counting
  BY TypeInit DEF ChunkInit, Counting, Alone, Storing, NotServing

LEMMA CountingStep ==
  ASSUME Counting, [ChunkNext]_chunkVars
  PROVE  Counting'
<1>1. ChunkTypeOK /\ ChunkTypeOK'
  BY TypeStep DEF Counting
<1> SUFFICES ASSUME ~overlapped'
             PROVE  /\ Alone'
                    /\ record'.live => \A i \in acked' : i < record'.received
                    /\ \A r \in ChunkRequests :
                         Storing(r)' => \A i \in acked' : i < chunkRequest'[r].received
  BY <1>1 DEF Counting
\* A request that goes on, or ends, without touching record or mark.
<1>2. ASSUME NEW r \in ChunkRequests, NEW s, chunkRequest[r] # NotServing,
             chunkRequest' = [chunkRequest EXCEPT ![r] = s],
             s.op \in {"chunk", "put"} => Storing(r) /\ s.received = chunkRequest[r].received,
             record' = record, acked' = acked, overlapped' = overlapped
      PROVE  /\ Alone'
             /\ record'.live => \A i \in acked' : i < record'.received
             /\ \A o \in ChunkRequests :
                  Storing(o)' => \A i \in acked' : i < chunkRequest'[o].received
  <2>1. chunkRequest'[r] = s /\ \A o \in ChunkRequests \ {r} : chunkRequest'[o] = chunkRequest[o]
    BY <1>1, <1>2 DEF ChunkTypeOK
  <2>2. Alone'
    BY <1>2, <2>1 DEF Counting, Alone
  <2>3. ASSUME NEW o \in ChunkRequests, Storing(o)'
        PROVE  Storing(o) /\ chunkRequest'[o].received = chunkRequest[o].received
    BY <1>2, <2>1, <2>3 DEF Storing
  <2> QED
    BY <1>2, <2>2, <2>3 DEF Counting
\* A request that begins: no other is in flight.
<1>3. ASSUME NEW r \in ChunkRequests, NEW s, BeginRequest(r, s),
             s.op \in {"chunk", "put"} => s.received = record.received,
             record' = record, acked' = acked
      PROVE  /\ Alone'
             /\ record'.live => \A i \in acked' : i < record'.received
             /\ \A o \in ChunkRequests :
                  Storing(o)' => \A i \in acked' : i < chunkRequest'[o].received
  <2>1. chunkRequest'[r] = s /\ \A o \in ChunkRequests \ {r} : chunkRequest'[o] = chunkRequest[o]
    BY <1>1, <1>3 DEF BeginRequest, ChunkTypeOK
  <2>2. ~overlapped /\ \A o \in ChunkRequests \ {r} : chunkRequest[o] = NotServing
    BY <1>3 DEF BeginRequest
  <2>3. Alone'
    BY <2>1, <2>2 DEF Alone
  <2>4. record.live /\ \A i \in acked : i < record.received
    BY <1>3, <2>2 DEF BeginRequest, Counting
  <2>5. ASSUME NEW o \in ChunkRequests, Storing(o)'
        PROVE  chunkRequest'[o].received = record.received
    BY <1>3, <2>1, <2>2, <2>5 DEF Storing, NotServing
  <2> QED
    BY <1>3, <2>3, <2>4, <2>5
<1>4. ASSUME NEW r \in ChunkRequests, SaveChunk(r)
      PROVE  /\ Alone'
             /\ record'.live => \A i \in acked' : i < record'.received
             /\ \A o \in ChunkRequests :
                  Storing(o)' => \A i \in acked' : i < chunkRequest'[o].received
  <2>1. /\ chunkRequest[r].op = "put" /\ chunkRequest[r].chunk \in Chunks
        /\ chunkRequest[r].received \in 0 .. TotalChunks
    BY <1>1, <1>4, StateShapes DEF SaveChunk
  <2>2. /\ chunkRequest'[r] = NotServing
        /\ \A o \in ChunkRequests \ {r} : chunkRequest'[o] = chunkRequest[o]
        /\ ~overlapped
    BY <1>1, <1>4 DEF SaveChunk, ChunkTypeOK
  <2>3. chunkRequest[r] # NotServing
    BY <2>1 DEF NotServing
  <2>4. \A o \in ChunkRequests \ {r} : chunkRequest[o] = NotServing
    BY <2>2, <2>3 DEF Counting, Alone
  <2>5. \A o \in ChunkRequests : chunkRequest'[o] = NotServing
    BY <2>2, <2>4
  <2>6. \A i \in acked : i < chunkRequest[r].received
    BY <2>1, <2>2 DEF Counting, Storing
  <2>7. /\ Received(chunkRequest[r].received, chunkRequest[r].chunk) \in 0 .. TotalChunks
        /\ Received(chunkRequest[r].received, chunkRequest[r].chunk) >= chunkRequest[r].received
        /\ Received(chunkRequest[r].received, chunkRequest[r].chunk) > chunkRequest[r].chunk
    BY <2>1, MarkType
  <2>8. acked \subseteq Nat /\ chunkRequest[r].chunk \in Nat
    BY <1>1, <2>1, ChunkedAssumption DEF ChunkTypeOK, Chunks
  <2>9. ASSUME NEW i \in acked'
        PROVE  i < record'.received
    BY <1>4, <2>1, <2>6, <2>7, <2>8 DEF SaveChunk
  <2>10. \A o \in ChunkRequests : ~Storing(o)'
    BY <2>5 DEF Storing, NotServing
  <2> QED
    BY <2>5, <2>9, <2>10 DEF Alone
<1>5. CASE Expire
  BY <1>5 DEF Expire, Counting, Alone, Storing
<1>6. ASSUME NEW r \in ChunkRequests, NEW i \in 0 .. TotalChunks,
             NEW content \in Contents, BeginChunk(r, i, content)
      PROVE  /\ Alone'
             /\ record'.live => \A j \in acked' : j < record'.received
             /\ \A o \in ChunkRequests :
                  Storing(o)' => \A j \in acked' : j < chunkRequest'[o].received
  BY <1>3, <1>6 DEF BeginChunk
<1>7. ASSUME NEW r \in ChunkRequests, BeginComplete(r)
      PROVE  /\ Alone'
             /\ record'.live => \A j \in acked' : j < record'.received
             /\ \A o \in ChunkRequests :
                  Storing(o)' => \A j \in acked' : j < chunkRequest'[o].received
  BY <1>3, <1>7 DEF BeginComplete
<1>8. ASSUME NEW r \in ChunkRequests,
             PutChunk(r) \/ ReadPart(r) \/ PutRaw(r) \/ EnqueueMerged(r) \/ Fail(r)
      PROVE  /\ Alone'
             /\ record'.live => \A j \in acked' : j < record'.received
             /\ \A o \in ChunkRequests :
                  Storing(o)' => \A j \in acked' : j < chunkRequest'[o].received
  BY <1>2, <1>8 DEF PutChunk, ReadPart, PutRaw, EnqueueMerged, Fail, Storing, NotServing
<1>9. CASE UNCHANGED chunkVars
  BY <1>9 DEF chunkVars, Counting, Alone, Storing
<1> QED
  BY <1>4, <1>5, <1>6, <1>7, <1>8, <1>9 DEF ChunkNext

\* As long as requests do not overlap, the record counts every acknowledged
\* chunk, through expiry, repeated chunks and requests that die.
THEOREM AcknowledgedIsCounted == ChunkSpec => []AckedIsCounted
<1>1. Counting => AckedIsCounted
  BY DEF Counting, AckedIsCounted
<1> QED
  BY <1>1, CountingInit, CountingStep, PTL DEF ChunkSpec

-----------------------------------------------------------------------------
(* Answers *)

\* What a request has read is in the order in which it read it: the count is of
\* the oldest version, then the number, the file is of the newest.
InOrder ==
  /\ dataset \in [status : {"published", "archived"}, version : Nat, counted : Nat]
  /\ dataset.counted <= dataset.version
  /\ chat.phase \in {"loaded", "numbered", "opened"} => chat.counted \in Nat
  /\ chat.phase \in {"numbered", "opened", "queried"} => chat.number \in Nat
  /\ chat.phase \in {"opened", "queried"} => chat.file \in Nat
  /\ chat.phase = "loaded" =>
       /\ chat.counted <= dataset.version
       /\ ~chat.mixed => chat.counted = dataset.version
  /\ chat.phase = "numbered" =>
       /\ chat.counted <= chat.number /\ chat.number <= dataset.version
       /\ ~chat.mixed => chat.counted = dataset.version /\ chat.number = dataset.version
  /\ chat.phase = "opened" =>
       /\ chat.counted <= chat.number /\ chat.number <= chat.file
       /\ ~chat.mixed => chat.counted = chat.number /\ chat.number = chat.file
  /\ chat.phase = "queried" =>
       /\ chat.number <= chat.file
       /\ ~chat.mixed => chat.number = chat.file

LEMMA InOrderInit == AnswersInit => InOrder /\ AnswerIsOfItsVersion
  BY DEF AnswersInit, InOrder, AtRest, Unanswered, AnswerIsOfItsVersion

LEMMA FailsIsGrounded ==
  ASSUME ModelFails, InOrder, UNCHANGED dataset
  PROVE  InOrder' /\ AnswerIsOfItsVersion'
  BY DEF ModelFails, InOrder, AtRest, AnswerIsOfItsVersion

LEMMA HeuristicIsGrounded ==
  ASSUME InOrder, chat.phase = "opened", UNCHANGED dataset,
         NEW h \in Heuristics, Responds(h)
  PROVE  InOrder' /\ AnswerIsOfItsVersion'
<1>1. InOrder'
  BY DEF InOrder, Responds, AtRest
<1>2. CASE \E c \in {60, 100} :
             h = [kind |-> "heuristic", ai |-> FALSE, version |-> Cited, of |-> chat.counted,
                  confidence |-> c, rows |-> FALSE, mixed |-> chat.mixed]
  BY <1>1, <1>2 DEF InOrder, Responds, Cited, AnswerIsOfItsVersion
<1>3. CASE h = [kind |-> "heuristic", ai |-> FALSE, version |-> Cited, of |-> chat.file,
                confidence |-> 90, rows |-> TRUE, mixed |-> chat.mixed]
  BY <1>1, <1>3 DEF InOrder, Responds, Cited, AnswerIsOfItsVersion
<1> QED
  BY <1>2, <1>3 DEF Heuristics

LEMMA NotFoundIsGrounded ==
  ASSUME InOrder, chat.phase \in {"opened", "queried"}, UNCHANGED dataset,
         NEW c, NEW rows, Responds(LowConfidence(c, rows))
  PROVE  InOrder' /\ AnswerIsOfItsVersion'
<1>1. InOrder'
  BY DEF InOrder, Responds, AtRest
<1>2. /\ chat.number \in Nat /\ chat.file \in Nat /\ chat.number <= chat.file
      /\ ~chat.mixed => chat.number = chat.file
  BY DEF InOrder
<1>3. /\ answer'.kind = "not found" /\ answer'.version = chat.number
      /\ answer'.of = chat.file /\ answer'.mixed = chat.mixed
  BY DEF Responds, LowConfidence, Cited
<1> QED
  BY <1>1, <1>2, <1>3 DEF AnswerIsOfItsVersion

LEMMA QueryIsGrounded ==
  ASSUME InOrder, AnswerIsOfItsVersion, Query
  PROVE  InOrder' /\ AnswerIsOfItsVersion'
<1>1. UNCHANGED dataset /\ chat.phase = "opened"
  BY DEF Query
<1>2. PICK completion \in Completions, execution \in Executions :
        LET rows == completion = "query" /\ execution = "rows"
            confidence == IF completion = "query" THEN ProviderConfidence ELSE 0
        IN
        \/ completion = "down" /\ ModelFails
        \/ /\ completion = "refused" \/ (completion = "query" /\ execution = "invalid")
           /\ \E h \in Heuristics : Responds(h)
        \/ /\ completion = "other" \/ (completion = "query" /\ execution # "invalid")
           /\ IF NothingFound(confidence, rows)
                THEN Responds(LowConfidence(confidence, rows))
                ELSE /\ chat' = [phase |-> "queried", mixed |-> chat.mixed,
                                 number |-> chat.number, file |-> chat.file, rows |-> rows]
                     /\ UNCHANGED answer
  BY DEF Query
<1> DEFINE rows == completion = "query" /\ execution = "rows"
           confidence == IF completion = "query" THEN ProviderConfidence ELSE 0
<1>3. CASE ModelFails
  BY <1>1, <1>3, FailsIsGrounded
<1>4. CASE \E h \in Heuristics : Responds(h)
  BY <1>1, <1>4, HeuristicIsGrounded
<1>5. CASE Responds(LowConfidence(confidence, rows))
  <2> HIDE DEF rows, confidence
  <2> QED
    BY <1>1, <1>5, NotFoundIsGrounded
<1>6. CASE /\ chat' = [phase |-> "queried", mixed |-> chat.mixed,
                       number |-> chat.number, file |-> chat.file, rows |-> rows]
           /\ UNCHANGED answer
  <2> HIDE DEF rows, confidence
  <2>1. InOrder'
    BY <1>1, <1>6 DEF InOrder
  <2> QED
    BY <1>6, <2>1 DEF AnswerIsOfItsVersion
<1> QED
  BY <1>2, <1>3, <1>4, <1>5, <1>6

LEMMA NarrateIsGrounded ==
  ASSUME InOrder, AnswerIsOfItsVersion, Narrate
  PROVE  InOrder' /\ AnswerIsOfItsVersion'
<1>1. UNCHANGED dataset /\ chat.phase = "queried"
  BY DEF Narrate
<1>2. CASE ModelFails
  BY <1>1, <1>2, FailsIsGrounded
<1>3. CASE Responds(LowConfidence(ProviderConfidence, chat.rows))
  BY <1>1, <1>3, NotFoundIsGrounded
<1>4. CASE Responds([kind |-> "narration", ai |-> TRUE, version |-> Cited,
                     of |-> chat.file, confidence |-> ProviderConfidence,
                     rows |-> chat.rows, mixed |-> chat.mixed])
  <2>1. InOrder'
    BY <1>1, <1>4 DEF InOrder, Responds, AtRest
  <2>2. /\ chat.number \in Nat /\ chat.file \in Nat /\ chat.number <= chat.file
        /\ ~chat.mixed => chat.number = chat.file
    BY <1>1 DEF InOrder
  <2> QED
    BY <1>1, <1>4, <2>1, <2>2 DEF Responds, Cited, AnswerIsOfItsVersion
<1> QED
  BY <1>2, <1>3, <1>4 DEF Narrate

LEMMA InOrderStep ==
  InOrder /\ AnswerIsOfItsVersion /\ [AnswersNext]_answerVars => InOrder' /\ AnswerIsOfItsVersion'
<1> SUFFICES ASSUME InOrder, AnswerIsOfItsVersion, [AnswersNext]_answerVars
             PROVE  InOrder' /\ AnswerIsOfItsVersion'
  OBVIOUS
<1>0. CASE IngestVersion
  <2>1. PICK counted \in {dataset.counted, dataset.version + 1} :
          dataset' = [dataset EXCEPT !.version = @ + 1, !.counted = counted]
    BY <1>0 DEF IngestVersion
  <2>2. /\ dataset' \in [status : {"published", "archived"}, version : Nat, counted : Nat]
        /\ dataset'.counted <= dataset'.version
        /\ dataset'.version >= dataset.version
    <3>1. /\ dataset \in [status : {"published", "archived"}, version : Nat, counted : Nat]
          /\ dataset.counted <= dataset.version
      BY DEF InOrder
    <3>2. counted \in Nat /\ counted <= dataset.version + 1
      BY <3>1
    <3>3. /\ dataset' \in [status : {"published", "archived"}, version : Nat, counted : Nat]
          /\ dataset'.version = dataset.version + 1 /\ dataset'.counted = counted
      <4> DEFINE d == [dataset EXCEPT !.version = @ + 1]
      <4>1. /\ d \in [status : {"published", "archived"}, version : Nat, counted : Nat]
            /\ d.version = dataset.version + 1
        BY <3>1
      <4>2. dataset' = [d EXCEPT !.counted = counted]
        BY <2>1
      <4> HIDE DEF d
      <4> QED
        BY <3>2, <4>1, <4>2
    <3> QED
      BY <3>1, <3>2, <3>3
  <2>3. CASE Reading
    <3>1. /\ chat' = [chat EXCEPT !.mixed = TRUE]
          /\ chat.phase \in {"loaded", "numbered"}
      BY <1>0, <2>3 DEF IngestVersion, Reading
    <3>2. /\ chat'.phase = chat.phase /\ chat'.counted = chat.counted
          /\ chat.phase = "numbered" => chat'.number = chat.number
          /\ chat'.mixed = TRUE
      BY <3>1
    <3> QED
      BY <1>0, <2>2, <3>1, <3>2 DEF IngestVersion, InOrder, AnswerIsOfItsVersion
  <2>4. CASE ~Reading
    <3>1. UNCHANGED <<chat, answer>> /\ chat.phase \notin {"loaded", "numbered"}
      BY <1>0, <2>4 DEF IngestVersion, Reading
    <3> QED
      BY <2>2, <3>1 DEF InOrder, AnswerIsOfItsVersion
  <2> QED
    BY <2>3, <2>4
<1>1. CASE ArchiveDataset
  BY <1>1 DEF ArchiveDataset, InOrder, AnswerIsOfItsVersion
<1>2. ASSUME NEW text \in Texts, Ask(text)
      PROVE  InOrder' /\ AnswerIsOfItsVersion'
  <2>1. CASE ModelFails
    BY <1>2, <2>1, FailsIsGrounded DEF Ask
  <2>2. CASE /\ chat' = [phase |-> "loaded", counted |-> dataset.counted,
                         mixed |-> dataset.counted # dataset.version]
             /\ UNCHANGED <<dataset, answer>>
    BY <2>2 DEF InOrder, AnswerIsOfItsVersion
  <2> QED
    BY <1>2, <2>1, <2>2 DEF Ask
<1>3. CASE ReadNumber \/ ReadFile
  <2>1. CASE ModelFails
    BY <1>3, <2>1, FailsIsGrounded DEF ReadNumber, ReadFile
  <2>2. CASE /\ chat.phase = "loaded"
             /\ chat' = [phase |-> "numbered", counted |-> chat.counted,
                         mixed |-> chat.mixed, number |-> dataset.version]
             /\ UNCHANGED <<dataset, answer>>
    BY <2>2 DEF InOrder, AnswerIsOfItsVersion
  <2>3. CASE /\ chat.phase = "numbered"
             /\ chat' = [phase |-> "opened", counted |-> chat.counted, mixed |-> chat.mixed,
                         number |-> chat.number, file |-> dataset.version]
             /\ UNCHANGED <<dataset, answer>>
    BY <2>3 DEF InOrder, AnswerIsOfItsVersion
  <2> QED
    BY <1>3, <2>1, <2>2, <2>3 DEF ReadNumber, ReadFile
<1>4. CASE AnswerHeuristically
  BY <1>4, HeuristicIsGrounded DEF AnswerHeuristically
<1>5. CASE Query
  BY <1>5, QueryIsGrounded
<1>6. CASE Narrate
  BY <1>6, NarrateIsGrounded
<1>7. CASE \/ \E completion \in Completions, parses \in BOOLEAN :
                SuggestMetadata(completion, parses)
           \/ UNCHANGED answerVars
  BY <1>7 DEF SuggestMetadata, answerVars, InOrder, AnswerIsOfItsVersion
<1> QED
  BY <1>0, <1>1, <1>2, <1>3, <1>4, <1>5, <1>6, <1>7 DEF AnswersNext

\* For any number of versions and any threshold an answer is of the version it
\* cites unless an ingest commits between the three reads of its question or left
\* an older count behind, and a mixed one errs on one side only.
THEOREM AnswersAreOfTheirVersion == AnswersSpec => []AnswerIsOfItsVersion
  BY InOrderInit, InOrderStep, PTL DEF AnswersSpec

-----------------------------------------------------------------------------
(* Pages of one dataset's rows.                                              *)

FirstRows(n) == [i \in 1 .. n |-> i]

Paged ==
  /\ version \in Seq(Nat)
  /\ client # Gone =>
       /\ DOMAIN client = {"phase", "offset", "rows", "versions", "replaced"}
       /\ client.phase \in {"paging", "complete"}
       /\ version # <<>>
       /\ client.offset \in Nat
       /\ client.versions \subseteq DOMAIN version
       /\ client.versions = {} => client.offset = 0 /\ client.rows = <<>> /\ client.phase = "paging"
       /\ \A v \in DOMAIN version \ client.replaced :
            client.versions = {v} =>
              /\ client.phase = "paging" =>
                   client.offset <= version[v] /\ client.rows = FirstRows(client.offset)
              /\ client.phase = "complete" => client.rows = FirstRows(version[v])

LEMMA CutSize ==
  ASSUME NEW o \in Nat, NEW n \in Nat, o <= n
  PROVE  Cardinality(Cut(o, n)) = IF n - o > RowsPerPage THEN RowsPerPage + 1 ELSE n - o
<1> DEFINE m == IF n - o > RowsPerPage THEN o + RowsPerPage + 1 ELSE n
<1>0. RowsPerPage \in Nat
  BY PagesAssumption
<1>1. m \in Nat /\ m >= o
  BY <1>0
<1>2. Cut(o, n) = o + 1 .. m
  <2> SUFFICES ASSUME NEW k \in Int
               PROVE  k \in 1 .. n /\ o < k /\ k <= o + RowsPerPage + 1 <=> k \in o + 1 .. m
    BY <1>0 DEF Cut
  <2> QED
    BY <1>0
<1>3. Cardinality(o + 1 .. m) = IF o + 1 > m THEN 0 ELSE m - (o + 1) + 1
  <2>1. m \in Int /\ o + 1 \in Int
    BY <1>1
  <2> HIDE DEF m
  <2> QED
    BY <2>1, FS_Interval
<1> QED
  BY <1>0, <1>1, <1>2, <1>3

LEMMA NextRows ==
  ASSUME NEW o \in Nat, NEW l \in Nat
  PROVE  FirstRows(o) \o [i \in 1 .. l |-> o + i] = FirstRows(o + l)
<1> DEFINE s == FirstRows(o)
           t == [i \in 1 .. l |-> o + i]
<1>1. s \in Seq(Nat) /\ Len(s) = o /\ \A i \in 1 .. o : s[i] = i
  BY DEF FirstRows
<1>2. t \in Seq(Nat) /\ Len(t) = l /\ \A i \in 1 .. l : t[i] = o + i
  OBVIOUS
<1> HIDE DEF s, t
<1>3. s \o t \in Seq(Nat) /\ Len(s \o t) = o + l /\ DOMAIN (s \o t) = 1 .. o + l
  BY <1>1, <1>2
<1>4. \A i \in 1 .. o + l : (s \o t)[i] = i
  <2> SUFFICES ASSUME NEW i \in 1 .. o + l
               PROVE  (s \o t)[i] = i
    OBVIOUS
  <2>1. CASE i <= o
    BY <1>1, <1>2, <2>1
  <2>2. CASE i > o
    <3>1. i - o \in 1 .. l /\ (s \o t)[i] = t[i - o]
      BY <1>1, <1>2, <2>2
    <3> QED
      BY <1>2, <3>1
  <2>3. i <= o \/ i > o
    OBVIOUS
  <2> QED
    BY <2>1, <2>2, <2>3
<1>5. FirstRows(o + l) \in Seq(Nat) /\ Len(FirstRows(o + l)) = o + l
      /\ \A i \in 1 .. o + l : FirstRows(o + l)[i] = i
  <2>1. \A n \in Nat : /\ FirstRows(n) \in Seq(Nat) /\ Len(FirstRows(n)) = n
                       /\ \A i \in 1 .. n : FirstRows(n)[i] = i
    BY DEF FirstRows
  <2> QED
    BY <2>1
<1>6. s \o t = FirstRows(o + l)
  <2> DEFINE a == s \o t
             b == FirstRows(o + l)
  <2>1. a \in Seq(Nat) /\ b \in Seq(Nat) /\ Len(a) = o + l /\ Len(b) = o + l
    BY <1>3, <1>5
  <2>2. \A i \in 1 .. o + l : a[i] = i /\ b[i] = i
    BY <1>4, <1>5
  <2> HIDE DEF a, b
  <2>3. a = b
    BY <2>2, <2>1, SeqEqual
  <2> QED
    BY <2>3 DEF a, b
<1> QED
  BY <1>6 DEF s, t

LEMMA PagedStep ==
  ASSUME Paged, [PagesNext]_pageVars
  PROVE  Paged'
<1>1. ASSUME NEW n \in RowCounts, AddVersion(n)
      PROVE  Paged'
  <2>1. n \in Nat
    BY PagesAssumption
  <2>2. /\ version' \in Seq(Nat) /\ version' # <<>>
        /\ DOMAIN version' = 1 .. Len(version) + 1 /\ DOMAIN version = 1 .. Len(version)
        /\ \A v \in DOMAIN version : version'[v] = version[v]
    BY <1>1, <2>1 DEF AddVersion, Paged
  <2>3. client' = client
    BY <1>1 DEF AddVersion
  <2>4. client # Gone => client.versions \subseteq DOMAIN version'
    BY <2>2 DEF Paged
  <2>5. ASSUME client # Gone, NEW v \in DOMAIN version', client.versions = {v}
        PROVE  v \in DOMAIN version /\ version'[v] = version[v]
    BY <2>2, <2>5 DEF Paged
  <2> QED
    BY <2>2, <2>3, <2>4, <2>5 DEF Paged
<1>2. ASSUME StartPaging
      PROVE  Paged'
  <2>1. /\ client'.versions = {} /\ client'.offset = 0 /\ client'.rows = <<>>
        /\ client'.phase = "paging"
        /\ DOMAIN client' = {"phase", "offset", "rows", "versions", "replaced"}
    BY <1>2 DEF StartPaging, Fresh
  <2> QED
    BY <1>2, <2>1 DEF StartPaging, Paged
<1>3. ASSUME ReadRows
      PROVE  Paged'
  <2> DEFINE latest == Len(version)
             n == version[latest]
             o == client.offset
             size == Cardinality(Cut(o, n))
             more == size > RowsPerPage
             length == IF more THEN RowsPerPage ELSE size
  <2>1. client # Gone /\ client.phase = "paging" /\ version' = version
    BY <1>3 DEF ReadRows, Gone
  <2>2. latest \in DOMAIN version /\ n \in Nat /\ o \in Nat /\ RowsPerPage \in Nat
    BY <2>1, PagesAssumption DEF Paged
  <2>3. client' = [phase |-> IF more THEN "paging" ELSE "complete",
                   offset |-> o + RowsPerPage,
                   rows |-> client.rows \o [i \in 1 .. length |-> o + i],
                   versions |-> client.versions \union {latest},
                   replaced |-> client.replaced]
    BY <1>3 DEF ReadRows
  <2>4. client'.versions \subseteq DOMAIN version /\ client'.versions # {} /\ client'.offset \in Nat
        /\ client'.phase \in {"paging", "complete"} /\ client' # Gone
        /\ DOMAIN client' = {"phase", "offset", "rows", "versions", "replaced"}
        /\ client'.replaced = client.replaced
    <3>1. client.versions \subseteq DOMAIN version
      BY <2>1 DEF Paged
    <3> HIDE DEF n, o, size, more, length
    <3>2. /\ client'.phase \in {"paging", "complete"} /\ client'.offset = o + RowsPerPage
          /\ client'.versions = client.versions \union {latest}
          /\ DOMAIN client' = {"phase", "offset", "rows", "versions", "replaced"}
          /\ client'.replaced = client.replaced
      BY <2>3
    <3>3. client' # Gone
      BY <3>2 DEF Gone
    <3> QED
      BY <2>2, <3>1, <3>2, <3>3
  <2>5. ASSUME NEW v \in DOMAIN version \ client.replaced, client'.versions = {v}
        PROVE  /\ client'.phase = "paging" =>
                    client'.offset <= version[v] /\ client'.rows = FirstRows(client'.offset)
               /\ client'.phase = "complete" => client'.rows = FirstRows(version[v])
    <3>1. v = latest /\ (client.versions = {} \/ client.versions = {v})
      BY <2>3, <2>5
    <3>2. o <= n /\ client.rows = FirstRows(o)
      <4>1. CASE client.versions = {}
        <5>1. client.offset = 0 /\ client.rows = <<>>
          BY <2>1, <4>1 DEF Paged
        <5>2. FirstRows(0) = <<>>
          BY DEF FirstRows
        <5> QED
          BY <2>2, <5>1, <5>2
      <4>2. CASE client.versions = {v}
        <5>1. o <= version[v] /\ client.rows = FirstRows(o)
          BY <2>1, <2>5, <4>2 DEF Paged
        <5> QED
          BY <3>1, <5>1
      <4> QED
        BY <3>1, <4>1, <4>2
    <3>3. size = IF n - o > RowsPerPage THEN RowsPerPage + 1 ELSE n - o
      BY <2>2, <3>2, CutSize
    <3> HIDE DEF n, o, size
    <3>4. /\ more => length = RowsPerPage /\ o + RowsPerPage <= n
          /\ ~more => length = n - o
          /\ length \in Nat
      BY <2>2, <3>2, <3>3
    <3>5. client'.rows = FirstRows(o + length)
      <4> HIDE DEF length
      <4> QED
        BY <2>2, <2>3, <3>2, <3>4, NextRows
    <3>6. client'.offset = o + RowsPerPage /\ (client'.phase = "paging" <=> more)
      BY <2>3
    <3>7. CASE more
      BY <3>1, <3>4, <3>5, <3>6, <3>7, <2>3 DEF n
    <3>8. CASE ~more
      <4>1. o + length = n
        BY <2>2, <3>4, <3>8
      <4> QED
        BY <3>1, <3>5, <3>6, <3>8, <4>1 DEF n
    <3> QED
      BY <3>7, <3>8
  <2> QED
    BY <2>1, <2>4, <2>5 DEF Paged
<1>4. ASSUME NEW n \in RowCounts, NEW v \in DOMAIN version, ReplaceFile(v, n)
      PROVE  Paged'
  <2>1. n \in Nat /\ version \in Seq(Nat)
    BY PagesAssumption DEF Paged
  <2>2. /\ version' \in Seq(Nat) /\ DOMAIN version' = DOMAIN version
        /\ \A u \in DOMAIN version : u # v => version'[u] = version[u]
    BY <1>4, <2>1 DEF ReplaceFile
  <2>3. version' # <<>>
    BY <2>2
  <2>4. CASE client = Gone
    BY <1>4, <2>2, <2>4 DEF ReplaceFile, Paged
  <2>5. CASE client # Gone
    <3>1. DOMAIN client = {"phase", "offset", "rows", "versions", "replaced"}
      BY <2>5 DEF Paged
    <3>2. client' = [client EXCEPT !.replaced = @ \union {v}]
      BY <1>4, <2>5 DEF ReplaceFile
    <3>3. /\ DOMAIN client' = DOMAIN client /\ client'.phase = client.phase
          /\ client'.offset = client.offset /\ client'.rows = client.rows
          /\ client'.versions = client.versions
          /\ client'.replaced = client.replaced \union {v}
      BY <3>1, <3>2
    <3>4. \A u \in DOMAIN version' \ client'.replaced :
            u \in DOMAIN version \ client.replaced /\ version'[u] = version[u]
      BY <2>2, <3>3
    <3> QED
      BY <2>2, <2>3, <2>5, <3>1, <3>3, <3>4 DEF Paged
  <2> QED
    BY <2>4, <2>5
<1>5. CASE UNCHANGED pageVars
  BY <1>5 DEF pageVars, Paged
<1> QED
  BY <1>1, <1>2, <1>3, <1>4, <1>5 DEF PagesNext

\* However many rows the versions of a dataset have and whatever is ingested
\* between the pages, a client whose pages all name one version has read it from
\* the first row to the last, each once, unless that version's file was replaced
\* (dataset_data_reader.py:24-83).
THEOREM OneVersionReadWhole == PagesSpec => []OneVersionIsWhole
<1>1. PagesInit => Paged
  BY DEF PagesInit, Paged, Gone
<1>2. Paged /\ [PagesNext]_pageVars => Paged'
  BY PagedStep
<1>3. Paged => OneVersionIsWhole
  <2> SUFFICES ASSUME Paged, client.phase = "complete"
               PROVE  \A v \in DOMAIN version \ client.replaced :
                        client.versions = {v} => client.rows = [i \in 1 .. version[v] |-> i]
    BY DEF OneVersionIsWhole
  <2>1. client # Gone
    BY DEF Gone
  <2> QED
    BY <2>1 DEF Paged, FirstRows
<1> QED
  BY <1>1, <1>2, <1>3, PTL DEF PagesSpec

-----------------------------------------------------------------------------
(* A walk through the catalogue *)

LEMMA ConcatItems ==
  ASSUME NEW S, NEW s \in Seq(S), NEW t \in Seq(S)
  PROVE  /\ s \o t \in Seq(S) /\ Len(s \o t) = Len(s) + Len(t)
         /\ Len(s) \in Nat /\ Len(t) \in Nat
         /\ DOMAIN (s \o t) = 1 .. Len(s) + Len(t)
         /\ \A i \in 1 .. Len(s) + Len(t) :
              (s \o t)[i] = IF i <= Len(s) THEN s[i] ELSE t[i - Len(s)]
  OBVIOUS

LEMMA ConcatRange ==
  ASSUME NEW S, NEW s \in Seq(S), NEW t \in Seq(S)
  PROVE  Range(s \o t) = Range(s) \union Range(t)
<1> DEFINE m == Len(s)
           n == Len(t)
           u == s \o t
<1>1. /\ DOMAIN u = 1 .. m + n /\ DOMAIN s = 1 .. m /\ DOMAIN t = 1 .. n /\ m \in Nat /\ n \in Nat
      /\ \A i \in 1 .. m + n : u[i] = IF i <= m THEN s[i] ELSE t[i - m]
  BY ConcatItems
<1> HIDE DEF m, n, u
<1>2. \A i \in 1 .. m : i \in 1 .. m + n /\ u[i] = s[i]
  BY <1>1
<1>3. \A i \in 1 .. n : m + i \in 1 .. m + n /\ u[m + i] = t[i]
  BY <1>1
<1>4. \A i \in 1 .. m + n : i \in 1 .. m \/ (i - m \in 1 .. n /\ u[i] = t[i - m])
  BY <1>1
<1>5. Range(u) \subseteq Range(s) \union Range(t)
  BY <1>1, <1>2, <1>4 DEF Range
<1>6. Range(s) \union Range(t) \subseteq Range(u)
  <2>1. ASSUME NEW i \in 1 .. m
        PROVE  s[i] \in Range(u)
    BY <1>1, <1>2 DEF Range
  <2>2. ASSUME NEW i \in 1 .. n
        PROVE  t[i] \in Range(u)
    BY <1>1, <1>3 DEF Range
  <2> QED
    BY <1>1, <2>1, <2>2 DEF Range
<1> QED
  BY <1>5, <1>6 DEF u

LEMMA ConcatInjective ==
  ASSUME NEW S, NEW s \in Seq(S), NEW t \in Seq(S), IsInjective(s), IsInjective(t),
         \A i \in DOMAIN t : t[i] \notin Range(s)
  PROVE  IsInjective(s \o t)
<1> DEFINE m == Len(s)
           n == Len(t)
           u == s \o t
<1>1. /\ DOMAIN u = 1 .. m + n /\ DOMAIN s = 1 .. m /\ DOMAIN t = 1 .. n /\ m \in Nat /\ n \in Nat
      /\ \A i \in 1 .. m + n : u[i] = IF i <= m THEN s[i] ELSE t[i - m]
  BY ConcatItems
<1>2. \A i, j \in 1 .. m : s[i] = s[j] => i = j
  BY <1>1 DEF IsInjective
<1>3. \A i, j \in 1 .. n : t[i] = t[j] => i = j
  BY <1>1 DEF IsInjective
<1>4. \A i \in 1 .. m, j \in 1 .. n : s[i] # t[j]
  BY <1>1 DEF Range
<1> HIDE DEF m, n, u
<1>5. ASSUME NEW i \in 1 .. m + n, NEW j \in 1 .. m + n, u[i] = u[j]
      PROVE  i = j
  <2>1. CASE i <= m /\ j <= m
    BY <1>1, <1>2, <1>5, <2>1
  <2>2. CASE i <= m /\ ~(j <= m)
    <3>1. i \in 1 .. m /\ j - m \in 1 .. n /\ u[i] = s[i] /\ u[j] = t[j - m]
      BY <1>1, <2>2
    <3> QED
      BY <1>4, <1>5, <3>1
  <2>3. CASE ~(i <= m) /\ j <= m
    <3>1. j \in 1 .. m /\ i - m \in 1 .. n /\ u[j] = s[j] /\ u[i] = t[i - m]
      BY <1>1, <2>3
    <3> QED
      BY <1>4, <1>5, <3>1
  <2>4. CASE ~(i <= m) /\ ~(j <= m)
    <3>1. i - m \in 1 .. n /\ j - m \in 1 .. n /\ u[i] = t[i - m] /\ u[j] = t[j - m]
      BY <1>1, <2>4
    <3>2. i - m = j - m
      BY <1>3, <1>5, <3>1
    <3> QED
      BY <1>1, <3>2
  <2> QED
    BY <2>1, <2>2, <2>3, <2>4
<1> QED
  BY <1>1, <1>5 DEF IsInjective, u

LEMMA PairAbove ==
  ASSUME NEW a \in Int, NEW b \in Int, NEW c \in Int, NEW e \in Int
  PROVE  Above(<<a, b>>, <<c, e>>) <=> a > c \/ (a = c /\ b > e)
<1> DEFINE x == <<a, b>>
           y == <<c, e>>
<1>1. DOMAIN x = {1, 2} /\ x[1] = a /\ x[2] = b /\ y[1] = c /\ y[2] = e
  OBVIOUS
<1> HIDE DEF x, y
<1>2. 1 .. 1 - 1 = {} /\ 1 .. 2 - 1 = {1}
  OBVIOUS
<1>3. Above(x, y) <=> x[1] > y[1] \/ (x[2] > y[2] /\ x[1] = y[1])
  BY <1>1, <1>2 DEF Above
<1> QED
  BY <1>1, <1>3 DEF x, y

LEMMA TripleAbove ==
  ASSUME NEW a \in Int, NEW b \in Int, NEW c \in Int,
         NEW d \in Int, NEW e \in Int, NEW f \in Int
  PROVE  Above(<<a, b, c>>, <<d, e, f>>)
           <=> a > d \/ (a = d /\ b > e) \/ (a = d /\ b = e /\ c > f)
<1> DEFINE x == <<a, b, c>>
           y == <<d, e, f>>
<1>1. /\ DOMAIN x = {1, 2, 3}
      /\ x[1] = a /\ x[2] = b /\ x[3] = c /\ y[1] = d /\ y[2] = e /\ y[3] = f
  OBVIOUS
<1> HIDE DEF x, y
<1>2. 1 .. 1 - 1 = {} /\ 1 .. 2 - 1 = {1} /\ 1 .. 3 - 1 = {1, 2}
  OBVIOUS
<1>3. Above(x, y) <=> \/ x[1] > y[1]
                      \/ x[2] > y[2] /\ x[1] = y[1]
                      \/ x[3] > y[3] /\ x[1] = y[1] /\ x[2] = y[2]
  BY <1>1, <1>2 DEF Above
<1> QED
  BY <1>1, <1>3 DEF x, y

\* The key of a row that the cursor of such a walk may name, as numbers.
LEMMA KeyNumbers ==
  ASSUME CatTypeOK, NEW d \in CatIds
  PROVE  /\ d \in Int /\ row[d].created \in Int /\ row[d].published \in Int
         /\ Relevance[d] \in Int
  BY CatalogueAssumption DEF CatTypeOK, CatIds

\* The order of a walk is total, so a page can be cut at any row.
LEMMA KeyIsOrder ==
  ASSUME CatTypeOK, NEW sort, NEW scope, Keyset(sort, scope)
  PROVE  /\ \A d \in CatIds : ~Above(OrderKey(sort, d), OrderKey(sort, d))
         /\ \A d, e \in CatIds : d # e => \/ Above(OrderKey(sort, d), OrderKey(sort, e))
                                          \/ Above(OrderKey(sort, e), OrderKey(sort, d))
         /\ \A c, d, e \in CatIds :
              Above(OrderKey(sort, c), OrderKey(sort, d)) /\ Above(OrderKey(sort, d), OrderKey(sort, e))
                => Above(OrderKey(sort, c), OrderKey(sort, e))
<1>1. CASE sort = "-published_at"
  <2>1. \A d, e \in CatIds :
          Above(OrderKey(sort, d), OrderKey(sort, e))
            <=> \/ row[d].published > row[e].published
                \/ row[d].published = row[e].published /\ d > e
    BY <1>1, KeyNumbers, PairAbove DEF OrderKey
  <2> QED
    BY <2>1, KeyNumbers
<1>2. CASE sort = "-created_at"
  <2>1. \A d, e \in CatIds :
          Above(OrderKey(sort, d), OrderKey(sort, e))
            <=> \/ row[d].created > row[e].created
                \/ row[d].created = row[e].created /\ d > e
    BY <1>2, KeyNumbers, PairAbove DEF OrderKey
  <2> QED
    BY <2>1, KeyNumbers
<1>3. CASE sort = "relevance"
  <2>1. \A d, e \in CatIds :
          Above(OrderKey(sort, d), OrderKey(sort, e))
            <=> \/ Relevance[d] > Relevance[e]
                \/ Relevance[d] = Relevance[e] /\ row[d].created > row[e].created
                \/ Relevance[d] = Relevance[e] /\ row[d].created = row[e].created /\ d > e
    <3>1. \A d \in CatIds : OrderKey(sort, d) = <<Relevance[d], row[d].created, d>>
      BY <1>3 DEF OrderKey
    <3> QED
      BY <3>1, KeyNumbers, TripleAbove
  <2>2. \A d \in CatIds : ~Above(OrderKey(sort, d), OrderKey(sort, d))
    BY <2>1, KeyNumbers
  <2>3. \A d, e \in CatIds : d # e => \/ Above(OrderKey(sort, d), OrderKey(sort, e))
                                      \/ Above(OrderKey(sort, e), OrderKey(sort, d))
    BY <2>1, KeyNumbers
  <2>4. ASSUME NEW c \in CatIds, NEW d \in CatIds, NEW e \in CatIds,
               Above(OrderKey(sort, c), OrderKey(sort, d)),
               Above(OrderKey(sort, d), OrderKey(sort, e))
        PROVE  Above(OrderKey(sort, c), OrderKey(sort, e))
    BY <2>1, <2>4, KeyNumbers
  <2> QED
    BY <2>2, <2>3, <2>4
<1> QED
  BY <1>1, <1>2, <1>3 DEF Keyset

\* A row that may have been shown: its key no longer changes.
Known(scope, d) == row[d].status # "absent" /\ (scope = "published" => row[d].published > 0)

LEMMA CursorIsKey ==
  ASSUME NEW sort, NEW scope, Keyset(sort, scope), NEW d \in CatIds, Known(scope, d), CatTypeOK
  PROVE  CursorKey(sort, d) = OrderKey(sort, d)
  BY DEF Keyset, Known, CursorKey, OrderKey, Coalesce

Stamped ==
  \A d \in CatIds : /\ row[d].status \in {"published", "archived"} => row[d].published > 0
                    /\ row[d].status = "draft" => row[d].published = 0

LEMMA SelectedIsKnown ==
  ASSUME Stamped, NEW sort, NEW scope, NEW d \in Selected(sort, scope)
  PROVE  d \in CatIds /\ Known(scope, d)
  BY DEF Selected, Stamped, Known

\* What a reader may expect to see: in a search, what Postgres itself finds.
Lasting(sort, scope) ==
  {d \in Selected(sort, scope) : sort = "relevance" => Relevance[d] > 0}

\* A reader under way has seen everything it may expect down to its cursor, and
\* nothing that the next page will have.
InStep ==
  /\ walk.steady \subseteq Lasting(walk.sort, walk.scope)
  /\ IsInjective(walk.shown)
  /\ \A d \in Range(walk.shown) : Known(walk.scope, d)
  /\ walk.phase = "read" => walk.steady \subseteq Range(walk.shown)
  /\ walk.phase = "reading" /\ walk.cursor = NoCursor => walk.shown = <<>>
  /\ walk.phase = "reading" /\ walk.cursor # NoCursor =>
       /\ walk.cursor \in Range(walk.shown)
       /\ \A d \in Range(walk.shown) :
            d = walk.cursor \/ Above(OrderKey(walk.sort, d), OrderKey(walk.sort, walk.cursor))
       /\ \A d \in walk.steady :
            d \in Range(walk.shown) \/ Above(OrderKey(walk.sort, walk.cursor), OrderKey(walk.sort, d))

Walks == [phase : {"reading", "read"}, sort : Sorts, scope : Scopes,
          cursor : CatIds \union {NoCursor}, shown : Seq(CatIds), steady : SUBSET CatIds]

Walking ==
  /\ CatTypeOK /\ Stamped
  /\ walk = Away \/ (walk \in Walks /\ (KeysetWalk => InStep))

LEMMA WalkingInit == CatInit => Walking
BY DEF CatInit, Walking, CatTypeOK, Stamped, NotListed

\* A write to the rows leaves a walk in step: what may have been shown keeps its
\* key, and what is still to be expected is still selected.
LEMMA WritesKeepStep ==
  ASSUME Walking, CatTypeOK', Stamped',
         walk = Away => walk' = Away,
         walk # Away => \E steady \in SUBSET walk.steady :
                          /\ walk' = [walk EXCEPT !.steady = steady]
                          /\ KeysetWalk => steady \subseteq Lasting(walk.sort, walk.scope)',
         \A d \in CatIds : row[d].status # "absent" =>
           /\ row'[d].status # "absent" /\ row'[d].created = row[d].created
           /\ row[d].published > 0 => row'[d].published = row[d].published
  PROVE  Walking'
<1>1. CASE walk = Away
  BY <1>1 DEF Walking
<1>2. CASE walk # Away
  <2>1. PICK steady \in SUBSET walk.steady :
          /\ walk' = [walk EXCEPT !.steady = steady]
          /\ KeysetWalk => steady \subseteq Lasting(walk.sort, walk.scope)'
    BY <1>2
  <2>2. walk \in Walks /\ steady \subseteq CatIds
    BY <1>2 DEF Walking, Walks
  <2>3. /\ walk' \in Walks /\ walk'.steady = steady
        /\ walk'.phase = walk.phase /\ walk'.sort = walk.sort /\ walk'.scope = walk.scope
        /\ walk'.cursor = walk.cursor /\ walk'.shown = walk.shown
    BY <2>1, <2>2 DEF Walks
  <2>4. ASSUME KeysetWalk'
        PROVE  InStep'
    <3>1. KeysetWalk /\ Keyset(walk.sort, walk.scope) /\ InStep
      BY <1>2, <2>3, <2>4 DEF KeysetWalk, Walking
    <3>2. \A d \in CatIds : Known(walk.scope, d) =>
            /\ Known(walk.scope, d)' /\ OrderKey(walk.sort, d)' = OrderKey(walk.sort, d)
      BY <2>3, <3>1 DEF Known, OrderKey, Keyset, Walking, CatTypeOK
    <3>3. Range(walk.shown) \subseteq CatIds /\ Range(walk'.shown) = Range(walk.shown)
      BY <2>2, <2>3 DEF Walks, Range
    <3>4. \A d \in walk.steady : d \in CatIds /\ Known(walk.scope, d)
      BY <3>1, SelectedIsKnown DEF InStep, Lasting, Walking
    <3>5. walk'.steady \subseteq Lasting(walk.sort, walk.scope)'
      BY <2>1, <2>3, <3>1 DEF Lasting, Selected
    <3>6. \A d \in Range(walk'.shown) : Known(walk.scope, d)'
      BY <2>3, <3>1, <3>2, <3>3 DEF InStep, Known
    <3>7. ASSUME walk'.phase = "reading", walk'.cursor # NoCursor
          PROVE  /\ \A d \in Range(walk'.shown) :
                      d = walk'.cursor
                        \/ Above(OrderKey(walk.sort, d)', OrderKey(walk.sort, walk.cursor)')
                 /\ \A d \in walk'.steady :
                      d \in Range(walk'.shown)
                        \/ Above(OrderKey(walk.sort, walk.cursor)', OrderKey(walk.sort, d)')
      <4> DEFINE old(d) == OrderKey(walk.sort, d)
                 now(d) == OrderKey(walk.sort, d)'
      <4>1. PICK c \in CatIds : c = walk.cursor /\ c \in Range(walk.shown)
        BY <2>3, <3>1, <3>3, <3>7 DEF InStep
      <4>2. /\ \A d \in Range(walk.shown) : d = c \/ Above(old(d), old(c))
            /\ \A d \in walk.steady : d \in Range(walk.shown) \/ Above(old(c), old(d))
        BY <2>3, <3>1, <3>7, <4>1 DEF InStep
      <4>3. \A d \in Range(walk.shown) \union walk.steady : now(d) = old(d)
        BY <3>1, <3>2, <3>3, <3>4 DEF InStep
      <4>4. walk'.cursor = c /\ OrderKey(walk.sort, walk.cursor)' = now(c)
        BY <2>3, <4>1 DEF OrderKey
      <4> HIDE DEF old, now
      <4>5. /\ \A d \in Range(walk'.shown) : d = c \/ Above(now(d), now(c))
            /\ \A d \in walk'.steady : d \in Range(walk'.shown) \/ Above(now(c), now(d))
        BY <2>1, <2>3, <3>3, <4>1, <4>2, <4>3
      <4> QED
        BY <4>4, <4>5 DEF now
    <3> QED
      BY <2>1, <2>3, <3>1, <3>3, <3>5, <3>6, <3>7 DEF InStep, OrderKey
  <2> QED
    BY <2>3, <2>4 DEF Walking
<1> QED
  BY <1>1, <1>2

LEMMA PageShape ==
  ASSUME NEW sort, NEW scope, NEW cursor, NEW rows \in Pages(sort, scope, cursor)
  PROVE  /\ Following(sort, scope, cursor) \subseteq CatIds
         /\ rows \in Seq(CatIds) /\ Len(rows) \in Nat /\ DOMAIN rows = 1 .. Len(rows)
         /\ \A i \in 1 .. Len(rows) : rows[i] \in Following(sort, scope, cursor)
         /\ \A d \in Following(sort, scope, cursor) : \E i \in 1 .. Len(rows) : d = rows[i]
         /\ \A i, j \in 1 .. Len(rows) :
              i < j => Above(OrderKey(sort, rows[i]), OrderKey(sort, rows[j]))
<1> DEFINE rest == Following(sort, scope, cursor)
           n == Cardinality(rest)
<1>1. rest \subseteq CatIds
  BY DEF Following, Selected
<1>2. n \in Nat
  <2>1. IsFiniteSet(CatIds)
    BY CatalogueAssumption, FS_Interval DEF CatIds
  <2> QED
    BY <1>1, <2>1, FS_Subset, FS_CardinalityType
<1>3. /\ rows \in [1 .. n -> rest] /\ Range(rows) = rest
      /\ \A i, j \in DOMAIN rows : i < j => Above(OrderKey(sort, rows[i]), OrderKey(sort, rows[j]))
  BY DEF Pages
<1> HIDE DEF rest, n
<1>4. rows \in Seq(CatIds) /\ Len(rows) = n /\ DOMAIN rows = 1 .. n
  <2>1. rows \in [1 .. n -> CatIds]
    BY <1>1, <1>3
  <2> QED
    BY <1>2, <2>1
<1>5. \A d \in rest : \E i \in 1 .. n : d = rows[i]
  BY <1>3, <1>4 DEF Range
<1>6. \A i \in 1 .. n : rows[i] \in rest
  BY <1>3
<1> QED
  BY <1>1, <1>2, <1>3, <1>4, <1>5, <1>6 DEF rest

\* What follows the cursor is not among what was shown.
LEMMA FollowingIsNew ==
  ASSUME Walking, walk \in Walks, walk.phase = "reading", KeysetWalk, InStep,
         NEW d \in Following(walk.sort, walk.scope, walk.cursor)
  PROVE  /\ d \notin Range(walk.shown) /\ d \in CatIds /\ Known(walk.scope, d)
         /\ \A e \in Range(walk.shown) : Above(OrderKey(walk.sort, e), OrderKey(walk.sort, d))
<1> DEFINE K(e) == OrderKey(walk.sort, e)
<1>1. d \in Selected(walk.sort, walk.scope) /\ d \in CatIds /\ Known(walk.scope, d)
  BY SelectedIsKnown DEF Following, Walking
<1>2. Range(walk.shown) \subseteq CatIds
  BY DEF Walks, Range
<1>3. \A e \in Range(walk.shown) : Above(K(e), K(d))
  <2>1. CASE walk.cursor = NoCursor
    BY <2>1 DEF InStep, Range
  <2>2. CASE walk.cursor # NoCursor
    <3> DEFINE c == walk.cursor
    <3>1. c \in Range(walk.shown) /\ \A e \in Range(walk.shown) : e = c \/ Above(K(e), K(c))
      BY <2>2 DEF InStep
    <3>2. c \in CatIds /\ Known(walk.scope, c)
      BY <1>2, <3>1 DEF InStep
    <3>3. Above(K(c), K(d))
      BY <1>1, <2>2, <3>2, CursorIsKey DEF Following, Walking, KeysetWalk
    <3>4. \A x, y, z \in CatIds : Above(K(x), K(y)) /\ Above(K(y), K(z)) => Above(K(x), K(z))
      BY KeyIsOrder DEF Walking, KeysetWalk
    <3> HIDE DEF c, K
    <3> QED
      BY <1>1, <1>2, <3>1, <3>2, <3>3, <3>4
  <2> QED
    BY <2>1, <2>2
<1>4. ~Above(K(d), K(d))
  BY <1>1, KeyIsOrder DEF Walking, KeysetWalk
<1> QED
  BY <1>1, <1>3, <1>4

\* A page shows the first of what follows the cursor, and leaves what is below.
LEMMA PageKeepsStep ==
  ASSUME Walking, ReadPage
  PROVE  Walking'
<1> USE DEF NoCursor
<1>1. walk \in Walks /\ walk.phase = "reading"
  BY DEF ReadPage, Walking, Away
<1>2. PICK rows \in Pages(walk.sort, walk.scope, walk.cursor) :
        LET more == Len(rows) > PageSize
            items == IF more THEN SubSeq(rows, 1, PageSize) ELSE rows
        IN  walk' = [walk EXCEPT !.phase = IF more THEN "reading" ELSE "read",
                                 !.cursor = IF more THEN Last(items) ELSE NoCursor,
                                 !.shown = @ \o items]
  BY DEF ReadPage
<1> DEFINE rest == Following(walk.sort, walk.scope, walk.cursor)
           n == Len(rows)
           more == n > PageSize
           k == IF more THEN PageSize ELSE n
           items == IF more THEN SubSeq(rows, 1, PageSize) ELSE rows
           K(d) == OrderKey(walk.sort, d)
<1>3. /\ rest \subseteq CatIds
      /\ rows \in Seq(CatIds) /\ n \in Nat
      /\ \A i \in 1 .. n : rows[i] \in rest
      /\ \A d \in rest : \E i \in 1 .. n : d = rows[i]
      /\ \A i, j \in 1 .. n : i < j => Above(K(rows[i]), K(rows[j]))
  BY <1>2, PageShape
<1>4. /\ items \in Seq(CatIds) /\ Len(items) = k /\ k \in 0 .. n
      /\ \A i \in 1 .. k : items[i] = rows[i]
      /\ more => k \in 1 .. n /\ k = PageSize
      /\ ~more => k = n
  <2>1. CASE more
    <3>1. PageSize \in 1 .. n
      BY <1>3, <2>1, CatalogueAssumption
    <3>2. SubSeq(rows, 1, PageSize) \in Seq(CatIds)
      BY <1>3, <3>1
    <3> HIDE DEF n
    <3> QED
      BY <1>3, <2>1, <3>1, <3>2 DEF n
  <2>2. CASE ~more
    BY <1>3, <2>2
  <2> QED
    BY <2>1, <2>2
<1>5. walk' = [walk EXCEPT !.phase = IF more THEN "reading" ELSE "read",
                           !.cursor = IF more THEN Last(items) ELSE NoCursor,
                           !.shown = @ \o items]
  BY <1>2
<1>6. Last(items) = IF more THEN rows[k] ELSE Last(items)
  BY <1>4 DEF Last
<1> HIDE DEF n, more, k, items, rest
<1>7. walk.shown \in Seq(CatIds) /\ walk.shown \o items \in Seq(CatIds)
  BY <1>1, <1>4 DEF Walks
<1>8. /\ walk' \in Walks
      /\ walk'.sort = walk.sort /\ walk'.scope = walk.scope /\ walk'.steady = walk.steady
      /\ walk'.shown = walk.shown \o items
      /\ walk'.phase = IF more THEN "reading" ELSE "read"
      /\ walk'.cursor = IF more THEN rows[k] ELSE NoCursor
  BY <1>1, <1>3, <1>4, <1>5, <1>6, <1>7 DEF Walks
<1>9. CatTypeOK' /\ Stamped' /\ UNCHANGED row
  BY DEF ReadPage, Walking, CatTypeOK, Stamped
<1>10. ASSUME KeysetWalk'
       PROVE  InStep'
  <2>1. KeysetWalk /\ InStep
    BY <1>1, <1>8, <1>10 DEF KeysetWalk, Walking, Away
  <2>2. \A d \in rest : /\ d \notin Range(walk.shown) /\ d \in CatIds /\ Known(walk.scope, d)
                        /\ \A e \in Range(walk.shown) : Above(K(e), K(d))
    BY <1>1, <2>1, FollowingIsNew DEF rest
  <2>3. \A i, j \in 1 .. n : rows[i] = rows[j] => i = j
    <3>1. \A d \in CatIds : ~Above(K(d), K(d))
      BY <2>1, KeyIsOrder DEF Walking, KeysetWalk
    <3> HIDE DEF K
    <3> QED
      BY <1>3, <3>1
  <2>4. Range(walk.shown \o items) = Range(walk.shown) \union {rows[i] : i \in 1 .. k}
    <3>1. Range(items) = {rows[i] : i \in 1 .. k}
      BY <1>4 DEF Range
    <3> QED
      BY <1>4, <1>7, <3>1, ConcatRange
  <2>5. IsInjective(walk.shown \o items)
    <3>1. DOMAIN items = 1 .. k /\ IsInjective(items)
      BY <1>3, <1>4, <2>3 DEF IsInjective
    <3>2. \A i \in DOMAIN items : items[i] \notin Range(walk.shown)
      BY <1>3, <1>4, <2>2, <3>1
    <3> QED
      BY <1>4, <1>7, <2>1, <3>1, <3>2, ConcatInjective DEF InStep
  <2>6. \A d \in Range(walk'.shown) : Known(walk.scope, d)'
    BY <1>3, <1>4, <1>8, <1>9, <2>1, <2>2, <2>4 DEF InStep, Known
  <2>7. walk.steady \subseteq Range(walk.shown) \union rest
    <3> SUFFICES ASSUME NEW d \in walk.steady, d \notin Range(walk.shown)
                 PROVE  d \in rest
      OBVIOUS
    <3>1. d \in Selected(walk.sort, walk.scope) /\ d \in CatIds /\ Known(walk.scope, d)
      BY <2>1, SelectedIsKnown DEF InStep, Lasting, Walking
    <3>2. CASE walk.cursor = NoCursor
      BY <3>1, <3>2 DEF rest, Following
    <3>3. CASE walk.cursor # NoCursor
      <4>1. Above(K(walk.cursor), K(d)) /\ walk.cursor \in Range(walk.shown)
        BY <1>1, <2>1, <3>3 DEF InStep
      <4>2. walk.cursor \in CatIds /\ Known(walk.scope, walk.cursor)
        BY <1>1, <2>1, <3>3, <4>1 DEF InStep, Walks
      <4>3. Above(CursorKey(walk.sort, walk.cursor), CursorKey(walk.sort, d))
        BY <2>1, <3>1, <4>1, <4>2, CursorIsKey DEF Walking, KeysetWalk
      <4> QED
        BY <3>1, <4>3 DEF rest, Following
    <3> QED
      BY <3>2, <3>3
  <2>8. CASE ~more
    <3>1. walk.steady \subseteq Range(walk'.shown)
      BY <1>3, <1>4, <1>8, <2>4, <2>7, <2>8
    <3>2. walk'.phase = "read"
      BY <1>8, <2>8
    <3>3. walk'.steady \subseteq Lasting(walk.sort, walk.scope)'
      BY <1>8, <1>9, <2>1 DEF InStep, Lasting, Selected
    <3> QED
      BY <1>8, <2>5, <2>6, <3>1, <3>2, <3>3 DEF InStep
  <2>9. CASE more
    <3> DEFINE c == rows[k]
    <3>1. c \in rest /\ c \in Range(walk'.shown) /\ c \in CatIds
      BY <1>3, <1>4, <1>8, <2>4, <2>9
    <3>2. \A d \in Range(walk'.shown) : d = c \/ Above(K(d), K(c))
      <4>1. \A i \in 1 .. k : i = k \/ Above(K(rows[i]), K(rows[k]))
        BY <1>3, <1>4, <2>9
      <4> HIDE DEF K
      <4> QED
        BY <1>8, <2>2, <2>4, <3>1, <4>1
    <3>3. \A d \in walk.steady : d \in Range(walk'.shown) \/ Above(K(c), K(d))
      <4>1. \A i \in 1 .. n : i \in 1 .. k \/ Above(K(rows[k]), K(rows[i]))
        <5>1. k \in 1 .. n /\ \A i \in 1 .. n : i \in 1 .. k \/ k < i
          BY <1>3, <1>4, <2>9
        <5> HIDE DEF K
        <5> QED
          BY <1>3, <5>1
      <4>2. Range(walk'.shown) = Range(walk.shown) \union {rows[i] : i \in 1 .. k}
        BY <1>8, <2>4
      <4> HIDE DEF K, c
      <4> SUFFICES ASSUME NEW d \in walk.steady, d \notin Range(walk'.shown)
                   PROVE  Above(K(c), K(d))
        OBVIOUS
      <4>3. PICK i \in 1 .. n : d = rows[i]
        BY <1>3, <2>7, <4>2
      <4>4. i \notin 1 .. k
        BY <4>2, <4>3
      <4> QED
        BY <4>1, <4>3, <4>4 DEF c
    <3>4. walk'.phase = "reading" /\ walk'.cursor = c
      BY <1>8, <2>9
    <3>5. c # NoCursor
      BY <3>1 DEF CatIds
    <3>6. walk'.steady \subseteq Lasting(walk.sort, walk.scope)'
      BY <1>8, <1>9, <2>1 DEF InStep, Lasting, Selected
    <3>7. /\ \A d : OrderKey(walk.sort, d)' = K(d)
          /\ OrderKey(walk.sort, walk.cursor)' = K(c)
      BY <1>8, <1>9, <3>4 DEF OrderKey
    <3> HIDE DEF c
    <3>8. /\ walk'.cursor \in Range(walk'.shown)
          /\ \A d \in Range(walk'.shown) :
               d = walk'.cursor \/ Above(OrderKey(walk.sort, d)', OrderKey(walk.sort, walk.cursor)')
          /\ \A d \in walk'.steady :
               d \in Range(walk'.shown)
                 \/ Above(OrderKey(walk.sort, walk.cursor)', OrderKey(walk.sort, d)')
      <4> HIDE DEF K
      <4> QED
        BY <1>8, <3>1, <3>2, <3>3, <3>4, <3>7
    <3> QED
      BY <1>8, <2>5, <2>6, <3>4, <3>5, <3>6, <3>8 DEF InStep
  <2> QED
    BY <2>8, <2>9
<1> QED
  BY <1>8, <1>9, <1>10 DEF Walking

LEMMA CatalogueStep == Walking /\ [CatNext]_catVars => Walking'
<1> SUFFICES ASSUME Walking, [CatNext]_catVars PROVE Walking'
  OBVIOUS
<1>1. ASSUME NEW sort \in Sorts, NEW scope \in Scopes, OpenWalk(sort, scope)
      PROVE  Walking'
  <2> DEFINE steady == {d \in Selected(sort, scope) : sort = "relevance" => Relevance[d] > 0}
  <2>1. steady \subseteq CatIds
    BY DEF Selected
  <2>2. walk' = [phase |-> "reading", sort |-> sort, scope |-> scope, cursor |-> NoCursor,
                 shown |-> <<>>, steady |-> steady]
    BY <1>1 DEF OpenWalk
  <2>3. walk'.steady \subseteq Lasting(walk.sort, walk.scope)'
    BY <1>1, <2>2 DEF OpenWalk, Lasting, Selected
  <2> HIDE DEF steady
  <2>4. walk' \in Walks
    BY <2>1, <2>2 DEF Walks
  <2>5. CatTypeOK' /\ Stamped'
    BY <1>1 DEF OpenWalk, Walking, CatTypeOK, Stamped
  <2>6. InStep'
    <3>1. walk'.shown = <<>> /\ walk'.phase = "reading" /\ walk'.cursor = NoCursor
      BY <2>2
    <3>2. Range(walk'.shown) = {} /\ IsInjective(walk'.shown)
      BY <3>1 DEF Range, IsInjective
    <3> QED
      BY <2>3, <3>1, <3>2 DEF InStep
  <2> QED
    BY <2>4, <2>5, <2>6 DEF Walking
<1>2. CASE ReadPage
  BY <1>2, PageKeepsStep
<1>3. ASSUME NEW d \in CatIds, CreateRow(d)
      PROVE  Walking'
  <2>1. /\ row[d] = NotListed /\ UNCHANGED <<semantic, walk>> /\ time' = time + 1
        /\ row' = [row EXCEPT ![d] = [status |-> "draft", created |-> time', published |-> 0]]
    BY <1>3 DEF CreateRow
  <2>2. CatTypeOK'
    BY <2>1 DEF Walking, CatTypeOK
  <2>3. /\ row'[d].status = "draft" /\ row'[d].published = 0 /\ row[d].status = "absent"
        /\ \A e \in CatIds \ {d} : row'[e] = row[e]
    BY <2>1 DEF Walking, CatTypeOK, NotListed
  <2>4. Stamped'
    BY <2>3 DEF Walking, Stamped
  <2>5. \A e \in CatIds : row[e].status # "absent" => e # d /\ row'[e] = row[e]
    BY <2>3
  <2>6. ASSUME walk # Away, KeysetWalk
        PROVE  walk.steady \subseteq Lasting(walk.sort, walk.scope)'
    <3>1. walk.steady \subseteq Lasting(walk.sort, walk.scope)
      BY <2>6 DEF Walking, InStep
    <3>2. \A e \in Lasting(walk.sort, walk.scope) : e \in CatIds /\ row'[e] = row[e]
      BY <2>5 DEF Lasting, Selected
    <3> QED
      BY <2>1, <3>1, <3>2 DEF Lasting, Selected
  <2>7. walk # Away => walk' = [walk EXCEPT !.steady = walk.steady]
    BY <2>1 DEF Walking, Walks
  <2> QED
    BY <2>1, <2>2, <2>4, <2>5, <2>6, <2>7, WritesKeepStep
<1>4. ASSUME NEW due \in SUBSET CatIds, PublishRows(due)
      PROVE  Walking'
  <2>1. /\ \A d \in due : row[d].status = "draft"
        /\ time' = time + 1 /\ UNCHANGED <<semantic, walk>>
        /\ row' = [d \in CatIds |-> IF d \in due
                                   THEN [row[d] EXCEPT !.status = "published", !.published = time']
                                   ELSE row[d]]
    BY <1>4 DEF PublishRows
  <2>2. time' \in Nat /\ time' > 0
    <3>1. time \in Nat /\ time' = time + 1
      BY <2>1 DEF Walking, CatTypeOK
    <3> QED
      BY <3>1
  <2>3. \A d \in CatIds :
          /\ d \in due => /\ row'[d].status = "published" /\ row'[d].published = time'
                          /\ row'[d].created = row[d].created
                          /\ row'[d] \in [status : {"absent", "draft", "published", "archived"},
                                          created : Nat, published : Nat]
          /\ d \notin due => row'[d] = row[d]
    BY <2>1, <2>2 DEF Walking, CatTypeOK
  <2>4. CatTypeOK'
    BY <2>1, <2>2, <2>3 DEF Walking, CatTypeOK
  <2>5. Stamped'
    BY <2>2, <2>3 DEF Walking, Stamped
  <2>6. \A d \in CatIds : row[d].status # "absent" =>
           /\ row'[d].status # "absent" /\ row'[d].created = row[d].created
           /\ row[d].published > 0 => row'[d].published = row[d].published
    <3>1. \A d \in due : row[d].published = 0
      BY <2>1 DEF Walking, Stamped
    <3> QED
      BY <2>3, <3>1
  <2>7. ASSUME walk # Away, KeysetWalk
        PROVE  walk.steady \subseteq Lasting(walk.sort, walk.scope)'
    <3>1. walk.steady \subseteq Lasting(walk.sort, walk.scope)
      BY <2>7 DEF Walking, InStep
    <3>2. walk'.sort = walk.sort /\ walk'.scope = walk.scope
      BY <2>1
    <3> SUFFICES ASSUME NEW d \in walk.steady
                 PROVE  d \in Lasting(walk.sort, walk.scope)'
      OBVIOUS
    <3>3. d \in CatIds /\ d \in Lasting(walk.sort, walk.scope)
      BY <3>1 DEF Lasting, Selected
    <3>4. CASE d \in due
      <4>1. row[d].status = "draft" /\ row'[d].status = "published"
        BY <2>1, <2>3, <3>4
      <4>2. /\ walk.scope # "published"
            /\ walk.sort = "relevance" => Relevance[d] > 0
        BY <3>3, <4>1 DEF Lasting, Selected
      <4> QED
        BY <3>2, <3>3, <4>1, <4>2 DEF Lasting, Selected
    <3>5. CASE d \notin due
      BY <2>3, <3>2, <3>3, <3>5 DEF Lasting, Selected
    <3> QED
      BY <3>4, <3>5
  <2>8. walk # Away => walk' = [walk EXCEPT !.steady = walk.steady]
    BY <2>1 DEF Walking, Walks
  <2> QED
    BY <2>1, <2>4, <2>5, <2>6, <2>7, <2>8, WritesKeepStep
<1>5. ASSUME NEW d \in CatIds, ArchiveRow(d)
      PROVE  Walking'
  <2>1. /\ row[d].status = "published" /\ row' = [row EXCEPT ![d].status = "archived"]
        /\ UNCHANGED <<time, semantic>>
    BY <1>5 DEF ArchiveRow
  <2>2. /\ row'[d].status = "archived" /\ row'[d].created = row[d].created
        /\ row'[d].published = row[d].published
        /\ \A e \in CatIds \ {d} : row'[e] = row[e]
    BY <2>1 DEF Walking, CatTypeOK
  <2>3. CatTypeOK'
    BY <2>1 DEF Walking, CatTypeOK
  <2>4. Stamped'
    BY <2>1, <2>2 DEF Walking, Stamped
  <2>5. \A e \in CatIds : row[e].status # "absent" =>
           /\ row'[e].status # "absent" /\ row'[e].created = row[e].created
           /\ row[e].published > 0 => row'[e].published = row[e].published
    BY <2>2
  <2>6. ASSUME walk # Away
        PROVE  \E steady \in SUBSET walk.steady :
                 /\ walk' = [walk EXCEPT !.steady = steady]
                 /\ KeysetWalk => steady \subseteq Lasting(walk.sort, walk.scope)'
    <3> DEFINE steady == IF walk.scope = "published" THEN walk.steady \ {d} ELSE walk.steady
    <3>1. walk \in Walks
      BY <2>6 DEF Walking
    <3>2. walk' = [walk EXCEPT !.steady = steady] /\ walk'.sort = walk.sort /\ walk'.scope = walk.scope
      BY <1>5, <2>6, <3>1 DEF ArchiveRow, Walks
    <3>3. ASSUME KeysetWalk
          PROVE  steady \subseteq Lasting(walk.sort, walk.scope)'
      <4>1. walk.steady \subseteq Lasting(walk.sort, walk.scope)
        BY <2>6, <3>3 DEF Walking, InStep
      <4> SUFFICES ASSUME NEW e \in steady
                   PROVE  e \in Lasting(walk.sort, walk.scope)'
        OBVIOUS
      <4>2. e \in CatIds /\ e \in Lasting(walk.sort, walk.scope)
        BY <4>1 DEF Lasting, Selected
      <4>3. CASE e = d
        BY <2>2, <3>2, <4>2, <4>3 DEF Lasting, Selected
      <4>4. CASE e # d
        BY <2>2, <3>2, <4>2, <4>4 DEF Lasting, Selected
      <4> QED
        BY <4>3, <4>4
    <3> QED
      BY <3>2, <3>3
  <2>7. walk = Away => walk' = Away
    BY <1>5 DEF ArchiveRow
  <2> QED
    BY <2>3, <2>4, <2>5, <2>6, <2>7, WritesKeepStep
<1>6. CASE SemanticChange
  <2>1. semantic' \subseteq CatIds /\ UNCHANGED <<time, row, walk>>
    BY <1>6 DEF SemanticChange
  <2>2. CatTypeOK' /\ Stamped'
    BY <2>1 DEF Walking, CatTypeOK, Stamped
  <2>3. walk # Away /\ KeysetWalk => walk.steady \subseteq Lasting(walk.sort, walk.scope)'
    BY <2>1 DEF Walking, InStep, Lasting, Selected
  <2>4. walk # Away => walk' = [walk EXCEPT !.steady = walk.steady]
    BY <2>1 DEF Walking, Walks
  <2> QED
    BY <2>1, <2>2, <2>3, <2>4, WritesKeepStep
<1>7. CASE UNCHANGED catVars
  <2>1. UNCHANGED <<time, row, semantic, walk>>
    BY <1>7 DEF catVars
  <2>2. CatTypeOK' /\ Stamped' /\ (KeysetWalk' <=> KeysetWalk) /\ (InStep' <=> InStep)
    BY <2>1 DEF Walking, CatTypeOK, Stamped, KeysetWalk, InStep, Lasting, Selected, Known, OrderKey
  <2> QED
    BY <2>1, <2>2 DEF Walking
<1> QED
  BY <1>1, <1>2, <1>3, <1>4, <1>5, <1>6, <1>7 DEF CatNext

\* Whoever follows the cursors to the end has seen every dataset that was there
\* all along, and none twice, for any number of datasets and any page size
\* (dataset_repository.py:124-174, search_service.py:62-95).
THEOREM WalksAreComplete == CatSpec => []WalkIsComplete
<1>1. Walking => WalkIsComplete
  BY DEF Walking, Away, WalkIsComplete, InStep
<1> QED
  BY <1>1, WalkingInit, CatalogueStep, PTL DEF CatSpec

=============================================================================
