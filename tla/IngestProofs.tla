---------------------------- MODULE IngestProofs ----------------------------
(***************************************************************************)
(* Proofs about the upload pipeline for any number of uploads, workers and *)
(* worker losses.                                                          *)
(***************************************************************************)
EXTENDS IngestProperties, Sequences, TLAPS

-----------------------------------------------------------------------------
(* The numbering of versions.  What is inductive is that the numbers are an *)
(* interval and that no worker holds a number beyond its end: the unique    *)
(* constraint then admits no number but the next.                           *)

LEMMA LargestOfInterval ==
  ASSUME NEW n \in Nat \ {0}
  PROVE  (CHOOSE k \in 1 .. n : \A m \in 1 .. n : m <= k) = n
<1> DEFINE Largest(k) == \A m \in 1 .. n : m <= k
<1>1. n \in 1 .. n /\ Largest(n)
  OBVIOUS
<1>2. \A k \in 1 .. n : Largest(k) => k = n
  BY <1>1
<1>3. /\ (CHOOSE k \in 1 .. n : Largest(k)) \in 1 .. n
      /\ Largest(CHOOSE k \in 1 .. n : Largest(k))
  BY <1>1
<1> QED
  BY <1>2, <1>3

LEMMA LatestOfInterval ==
  \A n \in Nat : Numbers = 1 .. n => LatestNumber = n
<1> SUFFICES ASSUME NEW n \in Nat, Numbers = 1 .. n
             PROVE  LatestNumber = n
  OBVIOUS
<1>1. CASE n = 0
  BY <1>1 DEF LatestNumber, Numbers
<1>2. CASE n # 0
  <2>1. versions # {}
    BY <1>2 DEF Numbers
  <2> QED
    BY <2>1, <1>2, LargestOfInterval DEF LatestNumber
<1> QED
  BY <1>1, <1>2

\* The same of the next state.
LEMMA LatestOfIntervalNext ==
  \A n \in Nat : Numbers' = 1 .. n => LatestNumber' = n
<1> SUFFICES ASSUME NEW n \in Nat, Numbers' = 1 .. n
             PROVE  LatestNumber' = n
  OBVIOUS
<1>1. CASE n = 0
  BY <1>1 DEF LatestNumber, Numbers
<1>2. CASE n # 0
  <2>1. versions' # {}
    BY <1>2 DEF Numbers
  <2> QED
    BY <2>1, <1>2, LargestOfInterval DEF LatestNumber
<1> QED
  BY <1>1, <1>2

Interval == \E n \in Nat : Numbers = 1 .. n

OneRowPerNumber == \A v, o \in versions : v.number = o.number => v = o

Numbered(w) == worker[w].phase \in {"numbered", "stored"}

NotAhead ==
  \A w \in Workers : Numbered(w) => worker[w].number <= LatestNumber + 1

\* A worker that is past storing its object left the object there.
ObjectStored ==
  \A w \in Workers :
    worker[w].phase = "stored" => worker[w].number \in DOMAIN parquet

Numbering ==
  TypeOK /\ Interval /\ OneRowPerNumber /\ NotAhead /\ ObjectStored
    /\ VersionsStored

LEMMA LatestIsNat ==
  ASSUME Interval
  PROVE  LatestNumber \in Nat /\ Numbers = 1 .. LatestNumber
<1>1. PICK n \in Nat : Numbers = 1 .. n
  BY DEF Interval
<1> QED
  BY <1>1, LatestOfInterval

LEMMA NumberingInit == Init => Numbering
<1> SUFFICES ASSUME Init PROVE Numbering
  OBVIOUS
<1> USE DEF Init
<1>1. TypeOK
  BY IngestAssumption DEF TypeOK, MessageStates, WorkerStates, Idle,
     EmptyDataset, DatasetRow
<1>2. Numbers = 1 .. 0
  BY DEF Numbers
<1>3. Interval /\ OneRowPerNumber /\ VersionsStored
  BY <1>2 DEF Interval, OneRowPerNumber, VersionsStored
<1>4. NotAhead /\ ObjectStored
  BY DEF NotAhead, Numbered, ObjectStored, Idle
<1> QED
  BY <1>1, <1>3, <1>4 DEF Numbering

-----------------------------------------------------------------------------
(* Type correctness *)

LEMMA AcknowledgeType ==
  ASSUME TypeOK, NEW w \in Workers, worker[w].phase # "idle", Acknowledge(w)
  PROVE  /\ message' \in [Uploads -> MessageStates]
         /\ worker' \in [Workers -> WorkerStates]
         /\ \A x \in Workers : worker'[x].phase # "idle" =>
              worker'[x] = worker[x]
<1>1. Idle \in WorkerStates /\ Idle.phase = "idle"
  BY DEF WorkerStates, Idle
<1> QED
  BY <1>1 DEF TypeOK, Acknowledge, MessageStates

LEMMA ActiveUpload ==
  ASSUME TypeOK, NEW w \in Workers, worker[w].phase # "idle"
  PROVE  /\ worker[w].upload \in Uploads
         /\ raw[worker[w].upload] \in Contents
         /\ worker[w].phase \in {"checked", "numbered", "stored"} =>
              worker[w].loaded \in DatasetRow
         /\ Numbered(w) => worker[w].number \in Nat \ {0}
<1>1. worker[w] \in WorkerStates
  BY DEF TypeOK
<1>2. worker[w].upload \in Uploads
  BY <1>1 DEF WorkerStates, Idle
<1>3. raw[worker[w].upload] \in Contents
  BY <1>2 DEF TypeOK
<1>4. worker[w].phase \in {"checked", "numbered", "stored"} =>
        worker[w].loaded \in DatasetRow
  BY <1>1 DEF WorkerStates, Idle
<1>5. Numbered(w) => worker[w].number \in Nat \ {0}
  BY <1>1 DEF WorkerStates, Idle, Numbered
<1> QED
  BY <1>2, <1>3, <1>4, <1>5

LEMMA WorkerSet ==
  ASSUME NEW u \in Uploads, NEW row \in DatasetRow, NEW n \in Nat \ {0}
  PROVE  [phase |-> "numbered", upload |-> u, loaded |-> row, number |-> n]
           \in WorkerStates
  BY DEF WorkerStates

\* Only one worker changes, and its upload's raw object is in storage.
LEMMA OneWorkerMoves ==
  ASSUME TypeOK, NEW w \in Workers, NEW s \in WorkerStates,
         s.phase # "idle" => raw[s.upload] # None,
         worker' = [worker EXCEPT ![w] = s], raw' = raw
  PROVE  /\ worker' \in [Workers -> WorkerStates]
         /\ \A x \in Workers :
              worker'[x].phase # "idle" => raw'[worker'[x].upload] # None
  BY DEF TypeOK

LEMMA StageType ==
  ASSUME TypeOK, NEW w \in Workers
  PROVE  /\ worker[w].phase = "numbered" =>
              /\ [worker[w] EXCEPT !.phase = "stored"] \in WorkerStates
              /\ [worker[w] EXCEPT !.phase = "stored"].upload = worker[w].upload
         /\ worker[w].phase = "committed" =>
              /\ [worker[w] EXCEPT !.phase = "marked"] \in WorkerStates
              /\ [worker[w] EXCEPT !.phase = "marked"].upload = worker[w].upload
<1>1. worker[w] \in WorkerStates
  BY DEF TypeOK
<1>2. ASSUME worker[w].phase = "numbered"
      PROVE  /\ [worker[w] EXCEPT !.phase = "stored"] \in WorkerStates
             /\ [worker[w] EXCEPT !.phase = "stored"].upload = worker[w].upload
  <2>1. worker[w] \in [phase : {"numbered", "stored"}, upload : Uploads,
                       loaded : DatasetRow, number : Nat \ {0}]
    BY <1>1, <1>2 DEF WorkerStates, Idle
  <2> QED
    BY <2>1 DEF WorkerStates
<1>3. ASSUME worker[w].phase = "committed"
      PROVE  /\ [worker[w] EXCEPT !.phase = "marked"] \in WorkerStates
             /\ [worker[w] EXCEPT !.phase = "marked"].upload = worker[w].upload
  <2>1. worker[w] \in [phase : {"started", "committed", "marked"},
                       upload : Uploads]
    BY <1>1, <1>3 DEF WorkerStates, Idle
  <2> QED
    BY <2>1 DEF WorkerStates
<1> QED
  BY <1>2, <1>3

LEMMA TypeStep ==
  ASSUME Numbering, [Next]_vars
  PROVE  TypeOK'
<1> USE DEF Numbering
<1>1. ASSUME NEW u \in Uploads, NEW c \in Contents, Upload(u, c)
      PROVE  TypeOK'
  <2>1. c # None
    BY IngestAssumption DEF Contents
  <2>2. \A x \in Workers :
          worker[x].phase # "idle" => worker[x].upload \in Uploads
    BY ActiveUpload
  <2> QED
    BY <1>1, <2>1, <2>2 DEF Upload, TypeOK, MessageStates
<1>2. ASSUME NEW w \in Workers, Crash(w)
      PROVE  TypeOK'
  <2>1. worker[w].upload \in Uploads
    BY <1>2, ActiveUpload DEF Crash
  <2>2. Idle \in WorkerStates /\ Idle.phase = "idle"
    BY DEF WorkerStates, Idle
  <2>3. redelivered' \in [Uploads -> 0 .. MaxRedeliveries]
    BY <1>2, <2>1, IngestAssumption DEF Crash, TypeOK
  <2> QED
    BY <1>2, <2>1, <2>2, <2>3 DEF Crash, TypeOK, MessageStates
<1>3. ASSUME NEW w \in Workers, NEW u \in Uploads, Start(w, u)
      PROVE  TypeOK'
  <2>1. Delivery(u) \in WorkerStates
    BY DEF Delivery, WorkerStates
  <2>2. raw[u] # None
    BY <1>3 DEF Start, TypeOK
  <2> QED
    BY <1>3, <2>1, <2>2 DEF Start, TypeOK, MessageStates, Delivery
<1>4. ASSUME NEW w \in Workers, NEW u \in Uploads, Skip(w, u)
      PROVE  TypeOK'
  <2>1. raw[u] # None
    BY <1>4 DEF Skip, TypeOK
  <2> QED
    BY <1>4, <2>1 DEF Skip, TypeOK, MessageStates
<1>5. ASSUME NEW w \in Workers, CheckDrift(w)
      PROVE  TypeOK'
  <2>1. worker[w].upload \in Uploads /\ raw[worker[w].upload] # None
    BY <1>5, ActiveUpload DEF CheckDrift, TypeOK
  <2>2. [phase |-> "checked", upload |-> worker[w].upload, loaded |-> dataset]
          \in WorkerStates
    BY <2>1 DEF WorkerStates, TypeOK
  <2>3. /\ worker' \in [Workers -> WorkerStates]
        /\ \A x \in Workers :
             worker'[x].phase # "idle" => raw'[worker'[x].upload] # None
    BY <1>5, <2>1, <2>2, OneWorkerMoves DEF CheckDrift
  <2> QED
    BY <1>5, <2>3 DEF CheckDrift, TypeOK
<1>6. ASSUME NEW w \in Workers, worker[w].phase # "idle", Acknowledge(w),
             UNCHANGED <<raw, redelivered, processed, versions, parquet,
                         dataset, journal>>
      PROVE  TypeOK'
  <2>1. /\ message' \in [Uploads -> MessageStates]
        /\ worker' \in [Workers -> WorkerStates]
        /\ \A x \in Workers : worker'[x].phase # "idle" =>
             worker'[x] = worker[x]
    BY <1>6, AcknowledgeType
  <2>2. \A u \in Uploads : message'[u] # "none" => raw[u] # None
    BY <1>6, ActiveUpload DEF Acknowledge, TypeOK
  <2> QED
    BY <1>6, <2>1, <2>2 DEF TypeOK
<1>7. ASSUME NEW w \in Workers, NumberVersion(w)
      PROVE  TypeOK'
  <2>1. /\ worker[w].upload \in Uploads /\ raw[worker[w].upload] # None
        /\ worker[w].loaded \in DatasetRow
    BY <1>7, ActiveUpload DEF NumberVersion, TypeOK
  <2>2. NextVersion \in Nat \ {0}
    BY LatestIsNat DEF NextVersion
  <2>3. [phase |-> "numbered", upload |-> worker[w].upload,
         loaded |-> worker[w].loaded, number |-> NextVersion] \in WorkerStates
    BY <2>1, <2>2, WorkerSet
  <2>4. /\ worker' \in [Workers -> WorkerStates]
        /\ \A x \in Workers :
             worker'[x].phase # "idle" => raw'[worker'[x].upload] # None
    BY <1>7, <2>1, <2>3, OneWorkerMoves DEF NumberVersion
  <2> QED
    BY <1>7, <2>4 DEF NumberVersion, TypeOK
<1>8. ASSUME NEW w \in Workers, StoreParquet(w)
      PROVE  TypeOK'
  <2>1. /\ worker[w].upload \in Uploads /\ raw[worker[w].upload] # None
        /\ worker[w].number \in Nat \ {0}
    BY <1>8, ActiveUpload DEF StoreParquet, TypeOK, Numbered
  <2>2. /\ [worker[w] EXCEPT !.phase = "stored"] \in WorkerStates
        /\ [worker[w] EXCEPT !.phase = "stored"].upload = worker[w].upload
    BY <1>8, StageType DEF StoreParquet
  <2>3. /\ worker' \in [Workers -> WorkerStates]
        /\ \A x \in Workers :
             worker'[x].phase # "idle" => raw'[worker'[x].upload] # None
    BY <1>8, <2>1, <2>2, OneWorkerMoves DEF StoreParquet
  <2>4. /\ DOMAIN parquet' \subseteq Nat \ {0}
        /\ parquet' \in [DOMAIN parquet' -> Uploads]
    BY <1>8, <2>1 DEF StoreParquet, ParquetKey, TypeOK
  <2> QED
    BY <1>8, <2>3, <2>4 DEF StoreParquet, TypeOK
<1>9. ASSUME NEW w \in Workers, CommitVersion(w)
      PROVE  TypeOK'
  <2> DEFINE u == worker[w].upload
  <2>1. /\ u \in Uploads /\ raw[u] \in Contents /\ raw[u] # None
        /\ worker[w].loaded \in DatasetRow
        /\ worker[w].number \in Nat \ {0}
    BY <1>9, ActiveUpload DEF CommitVersion, TypeOK, Numbered
  <2>2. [phase |-> "committed", upload |-> u] \in WorkerStates
    BY <2>1 DEF WorkerStates
  <2>3. /\ worker' \in [Workers -> WorkerStates]
        /\ \A x \in Workers :
             worker'[x].phase # "idle" => raw'[worker'[x].upload] # None
    BY <1>9, <2>1, <2>2, OneWorkerMoves DEF CommitVersion
  <2>4. versions' \subseteq Versions /\ journal' \subseteq Events
    BY <1>9, <2>1 DEF CommitVersion, TypeOK, Versions, Events, Contents
  <2>5. dataset' \in DatasetRow
    BY <1>9, <2>1 DEF CommitVersion, Applied, TypeOK, DatasetRow, Contents
  <2> QED
    BY <1>9, <2>3, <2>4, <2>5 DEF CommitVersion, TypeOK
<1>10. ASSUME NEW w \in Workers, MarkProcessed(w)
       PROVE  TypeOK'
  <2>1. worker[w].upload \in Uploads /\ raw[worker[w].upload] # None
    BY <1>10, ActiveUpload DEF MarkProcessed, TypeOK
  <2>2. /\ [worker[w] EXCEPT !.phase = "marked"] \in WorkerStates
        /\ [worker[w] EXCEPT !.phase = "marked"].upload = worker[w].upload
    BY <1>10, StageType DEF MarkProcessed
  <2>3. /\ worker' \in [Workers -> WorkerStates]
        /\ \A x \in Workers :
             worker'[x].phase # "idle" => raw'[worker'[x].upload] # None
    BY <1>10, <2>1, <2>2, OneWorkerMoves DEF MarkProcessed
  <2> QED
    BY <1>10, <2>1, <2>3 DEF MarkProcessed, TypeOK
<1>11. CASE UNCHANGED vars
  BY <1>11 DEF vars, TypeOK, WorkerStates, Versions, Contents
<1> QED
  BY <1>1, <1>2, <1>3, <1>4, <1>5, <1>6, <1>7, <1>8, <1>9, <1>10, <1>11
     DEF Next, Receive, Step, PauseOnDrift, Finish, Fail

-----------------------------------------------------------------------------
(* Numbers stay an interval, and the objects of committed versions stay *)

\* Steps that leave the version rows alone, and add no worker's number and
\* take no object away, keep the numbering.
LEMMA NumberingKept ==
  ASSUME Numbering, TypeOK', versions' = versions,
         DOMAIN parquet \subseteq DOMAIN parquet',
         \A w \in Workers : Numbered(w)' =>
            \/ worker'[w] = worker[w]
            \/ /\ worker'[w].number <= LatestNumber + 1
               /\ worker'[w].phase = "stored" =>
                    worker'[w].number \in DOMAIN parquet'
  PROVE  Numbering'
<1>1. Numbers' = Numbers /\ LatestNumber' = LatestNumber
  BY DEF Numbers, LatestNumber
<1>2. Interval' /\ OneRowPerNumber' /\ VersionsStored'
  BY <1>1 DEF Numbering, Interval, OneRowPerNumber, VersionsStored
<1>3. NotAhead'
  BY <1>1 DEF Numbering, NotAhead, Numbered
<1>4. ObjectStored'
  BY DEF Numbering, ObjectStored, Numbered
<1> QED
  BY <1>2, <1>3, <1>4 DEF Numbering

LEMMA CommitNumbering ==
  ASSUME Numbering, TypeOK', NEW w \in Workers, CommitVersion(w)
  PROVE  Numbering'
<1> DEFINE n == LatestNumber
<1>1. n \in Nat /\ Numbers = 1 .. n
  BY LatestIsNat DEF Numbering
<1>2. worker[w].number \in Nat \ {0} /\ worker[w].number <= n + 1
  BY ActiveUpload DEF CommitVersion, Numbering, NotAhead, Numbered
<1>3. worker[w].number = n + 1
  BY <1>1, <1>2 DEF CommitVersion, NumberFree
<1>4. Numbers' = Numbers \union {n + 1}
  <2> DEFINE u == worker[w].upload
             row == [number |-> worker[w].number, upload |-> u,
                     schema |-> raw[u].schema, rows |-> raw[u].rows]
  <2>1. versions' = versions \union {row} /\ row.number = worker[w].number
    BY DEF CommitVersion
  <2> HIDE DEF row
  <2> QED
    BY <2>1, <1>3 DEF Numbers
<1>5. Numbers' = 1 .. (n + 1)
  BY <1>1, <1>4
<1>6. LatestNumber' = n + 1
  BY <1>1, <1>5, LatestOfIntervalNext
<1>7. Interval'
  BY <1>1, <1>5 DEF Interval
<1>8. OneRowPerNumber'
  BY DEF CommitVersion, NumberFree, Numbers, Numbering, OneRowPerNumber
<1>9. \A x \in Workers : Numbered(x)' => worker'[x] = worker[x] /\ Numbered(x)
  BY DEF CommitVersion, Numbered, Numbering, TypeOK
<1>10. NotAhead'
  <2> SUFFICES ASSUME NEW x \in Workers, Numbered(x)'
               PROVE  worker'[x].number <= LatestNumber' + 1
    BY DEF NotAhead
  <2>1. worker[x].number \in Nat /\ worker[x].number <= n + 1
    BY <1>9, ActiveUpload DEF Numbering, NotAhead, Numbered
  <2> QED
    BY <1>1, <1>6, <1>9, <2>1
<1>11. ObjectStored'
  BY <1>9 DEF CommitVersion, Numbering, ObjectStored, Numbered
<1>12. VersionsStored'
  BY <1>3, <1>4 DEF CommitVersion, Numbering, ObjectStored, VersionsStored
<1> QED
  BY <1>7, <1>8, <1>10, <1>11, <1>12 DEF Numbering

LEMMA NumberingStep ==
  ASSUME Numbering, [Next]_vars
  PROVE  Numbering'
<1>0. TypeOK'
  BY TypeStep
<1>1. ASSUME NEW w \in Workers, NumberVersion(w)
      PROVE  Numbering'
  <2>1. LatestNumber \in Nat
    BY LatestIsNat DEF Numbering
  <2>2. \A x \in Workers : Numbered(x)' =>
          \/ worker'[x] = worker[x]
          \/ /\ worker'[x].number <= LatestNumber + 1
             /\ worker'[x].phase # "stored"
    BY <1>1, <2>1 DEF NumberVersion, NextVersion, Numbered, Numbering, TypeOK
  <2> QED
    BY <1>0, <1>1, <2>2, NumberingKept DEF NumberVersion
<1>2. ASSUME NEW w \in Workers, StoreParquet(w)
      PROVE  Numbering'
  <2>1. worker[w].number <= LatestNumber + 1
    BY <1>2 DEF StoreParquet, Numbering, NotAhead, Numbered
  <2>2. DOMAIN parquet' = DOMAIN parquet \union {worker[w].number}
    BY <1>2 DEF StoreParquet, ParquetKey
  <2>3. worker'[w].number = worker[w].number
    <3>1. worker[w] \in WorkerStates
      BY DEF Numbering, TypeOK
    <3>2. worker[w] \in [phase : {"numbered", "stored"}, upload : Uploads,
                         loaded : DatasetRow, number : Nat \ {0}]
      BY <1>2, <3>1 DEF StoreParquet, WorkerStates, Idle
    <3> QED
      BY <1>2, <3>2 DEF StoreParquet, Numbering, TypeOK
  <2>4. \A x \in Workers : x # w => worker'[x] = worker[x]
    BY <1>2 DEF StoreParquet, Numbering, TypeOK
  <2> QED
    BY <1>0, <1>2, <2>1, <2>2, <2>3, <2>4, NumberingKept DEF StoreParquet
<1>3. ASSUME NEW w \in Workers, CommitVersion(w)
      PROVE  Numbering'
  BY <1>0, <1>3, CommitNumbering
<1>4. ASSUME UNCHANGED <<versions, parquet>>,
             \A w \in Workers : Numbered(w)' => worker'[w] = worker[w]
      PROVE  Numbering'
  BY <1>0, <1>4, NumberingKept
<1>5. ASSUME NEW w \in Workers, NEW s, s.phase \notin {"numbered", "stored"},
             worker' = [worker EXCEPT ![w] = s]
      PROVE  \A x \in Workers : Numbered(x)' => worker'[x] = worker[x]
  BY <1>5 DEF Numbered, Numbering, TypeOK
<1>6. ASSUME NEW w \in Workers, MarkProcessed(w)
      PROVE  \A x \in Workers : Numbered(x)' => worker'[x] = worker[x]
  <2>1. [worker[w] EXCEPT !.phase = "marked"].phase = "marked"
    <3>1. worker[w] \in WorkerStates
      BY DEF Numbering, TypeOK
    <3>2. worker[w] \in [phase : {"started", "committed", "marked"},
                         upload : Uploads]
      BY <1>6, <3>1 DEF MarkProcessed, WorkerStates, Idle
    <3> QED
      BY <3>2
  <2> QED
    BY <1>6, <2>1, <1>5 DEF MarkProcessed
<1>7. CASE \E u \in Uploads : Receive(u)
  BY <1>7, <1>4, <1>5 DEF Receive, Start, Skip, Delivery
<1>8. CASE \E u \in Uploads, c \in Contents : Upload(u, c)
  BY <1>8, <1>4 DEF Upload
<1>9. ASSUME NEW w \in Workers, Step(w) \/ Crash(w)
      PROVE  Numbering'
  <2>1. CASE Crash(w)
    BY <2>1, <1>4, <1>5 DEF Crash, Idle
  <2>2. CASE CheckDrift(w)
    BY <2>2, <1>4, <1>5 DEF CheckDrift
  <2>3. CASE PauseOnDrift(w) \/ Finish(w) \/ Fail(w)
    BY <2>3, <1>4, <1>5 DEF PauseOnDrift, Finish, Fail, Acknowledge, Idle
  <2>4. CASE MarkProcessed(w)
    BY <2>4, <1>4, <1>6 DEF MarkProcessed
  <2> QED
    BY <1>9, <2>1, <2>2, <2>3, <2>4, <1>1, <1>2, <1>3 DEF Step
<1>10. CASE UNCHANGED vars
  BY <1>10, <1>4 DEF vars
<1> QED
  BY <1>7, <1>8, <1>9, <1>10 DEF Next

-----------------------------------------------------------------------------
(* Theorems *)

LEMMA NumberingInvariant == Spec => []Numbering
  BY NumberingInit, NumberingStep, PTL DEF Spec

\* Rows, messages, objects and workers are well typed, however many workers
\* overlap and are lost.
THEOREM TypeCorrect == Spec => []TypeOK
<1>1. Numbering => TypeOK
  BY DEF Numbering
<1> QED
  BY <1>1, NumberingInvariant, PTL

\* Versions are numbered without gaps or doubles although nothing but the
\* unique constraint orders concurrent ingests.
THEOREM NumbersAreContiguous == Spec => []VersionsContiguous
<1>1. Numbering => VersionsContiguous
  BY LatestIsNat DEF Numbering, OneRowPerNumber, VersionsContiguous
<1> QED
  BY <1>1, NumberingInvariant, PTL

\* Every committed version has its Parquet object, through failures, losses and
\* ingests that overwrite each other's objects.
THEOREM ObjectsAreStored == Spec => []VersionsStored
<1>1. Numbering => VersionsStored
  BY DEF Numbering
<1> QED
  BY <1>1, NumberingInvariant, PTL

-----------------------------------------------------------------------------
(* The idempotency key.  A message is with one worker at a time, so a worker *)
(* that is not past marking its upload works on one that is not marked.     *)

OneHolder ==
  \A w \in Workers : worker[w].phase # "idle" =>
    /\ message[worker[w].upload] = "unacked"
    /\ \A x \in Workers :
         x # w /\ worker[x].phase # "idle" => worker[x].upload # worker[w].upload

MarkedLast ==
  \A w \in Workers :
    worker[w].phase \notin {"idle", "marked"} => worker[w].upload \notin processed

Delivered == TypeOK /\ OneHolder /\ MarkedLast

LEMMA DeliveredInit == Init => Delivered
  BY NumberingInit DEF Init, Numbering, Delivered, OneHolder, MarkedLast, Idle

\* A worker that only moves on to another phase before "marked" keeps its upload.
LEMMA DeliveredMoves ==
  ASSUME Delivered, TypeOK', NEW w \in Workers, NEW s, worker[w].phase # "idle",
         s.upload = worker[w].upload, s.phase # "idle",
         worker' = [worker EXCEPT ![w] = s], message' = message,
         \/ processed' = processed /\ worker[w].phase # "marked"
         \/ processed' = processed \union {s.upload} /\ s.phase = "marked"
  PROVE  Delivered'
<1>1. /\ worker'[w] = s
      /\ \A x \in Workers : x # w => worker'[x] = worker[x]
  BY DEF Delivered, TypeOK
<1>2. OneHolder'
  BY <1>1 DEF Delivered, OneHolder
<1>3. MarkedLast'
  BY <1>1 DEF Delivered, OneHolder, MarkedLast
<1> QED
  BY <1>2, <1>3 DEF Delivered

\* A worker that becomes idle gives its message back.
LEMMA DeliveredLeaves ==
  ASSUME Delivered, TypeOK', NEW w \in Workers, NEW m, worker[w].phase # "idle",
         worker' = [worker EXCEPT ![w] = Idle], processed' = processed,
         message' = [message EXCEPT ![worker[w].upload] = m]
  PROVE  Delivered'
<1>1. /\ worker'[w].phase = "idle"
      /\ \A x \in Workers : x # w => worker'[x] = worker[x]
  BY DEF Delivered, TypeOK, Idle
<1>2. \A x \in Workers : worker'[x].phase # "idle" =>
        /\ worker[x].upload \in Uploads
        /\ worker[x].upload # worker[w].upload
  BY <1>1, ActiveUpload DEF Delivered, OneHolder
<1>3. OneHolder'
  BY <1>1, <1>2 DEF Delivered, OneHolder, TypeOK
<1>4. MarkedLast'
  BY <1>1 DEF Delivered, MarkedLast
<1> QED
  BY <1>3, <1>4 DEF Delivered

LEMMA DeliveredStep ==
  ASSUME Delivered, TypeOK', [Next]_vars
  PROVE  Delivered'
<1> USE DEF Delivered
<1>1. ASSUME NEW w \in Workers, NEW u \in Uploads, Start(w, u)
      PROVE  Delivered'
  <2>1. /\ worker'[w] = [phase |-> "started", upload |-> u]
        /\ \A x \in Workers : x # w => worker'[x] = worker[x]
    BY <1>1 DEF Start, Delivery, TypeOK
  <2>2. \A x \in Workers : worker[x].phase # "idle" =>
          worker[x].upload \in Uploads /\ worker[x].upload # u
    BY <1>1, ActiveUpload DEF Start, OneHolder
  <2>3. OneHolder'
    BY <1>1, <2>1, <2>2 DEF Start, OneHolder, TypeOK
  <2>4. MarkedLast'
    BY <1>1, <2>1 DEF Start, MarkedLast, AlreadyProcessed
  <2> QED
    BY <2>3, <2>4
<1>2. ASSUME NEW w \in Workers, NEW u \in Uploads, Skip(w, u)
      PROVE  Delivered'
  <2>1. \A x \in Workers : worker[x].phase # "idle" =>
          worker[x].upload \in Uploads /\ worker[x].upload # u
    BY <1>2, ActiveUpload DEF Skip, OneHolder
  <2>2. OneHolder'
    BY <1>2, <2>1 DEF Skip, OneHolder, TypeOK
  <2>3. MarkedLast'
    BY <1>2 DEF Skip, MarkedLast
  <2> QED
    BY <2>2, <2>3
<1>3. ASSUME NEW u \in Uploads, NEW c \in Contents, Upload(u, c)
      PROVE  Delivered'
  <2>1. \A x \in Workers : worker[x].phase # "idle" =>
          worker[x].upload \in Uploads /\ worker[x].upload # u
    BY <1>3, ActiveUpload, IngestAssumption DEF Upload
  <2>2. OneHolder'
    BY <1>3, <2>1 DEF Upload, OneHolder, TypeOK
  <2>3. MarkedLast'
    BY <1>3 DEF Upload, MarkedLast
  <2> QED
    BY <2>2, <2>3
<1>4. ASSUME NEW w \in Workers, Crash(w)
      PROVE  Delivered'
  BY <1>4, DeliveredLeaves DEF Crash
<1>5. ASSUME NEW w \in Workers, PauseOnDrift(w) \/ Finish(w) \/ Fail(w)
      PROVE  Delivered'
  BY <1>5, DeliveredLeaves DEF PauseOnDrift, Finish, Fail, Acknowledge
<1>6. ASSUME NEW w \in Workers,
             CheckDrift(w) \/ NumberVersion(w) \/ CommitVersion(w)
      PROVE  Delivered'
  BY <1>6, DeliveredMoves DEF CheckDrift, NumberVersion, CommitVersion
<1>7. ASSUME NEW w \in Workers, StoreParquet(w)
      PROVE  Delivered'
  <2>1. worker[w] \in [phase : {"numbered", "stored"}, upload : Uploads,
                       loaded : DatasetRow, number : Nat \ {0}]
    BY <1>7 DEF StoreParquet, TypeOK, WorkerStates, Idle
  <2>2. /\ [worker[w] EXCEPT !.phase = "stored"].phase = "stored"
        /\ [worker[w] EXCEPT !.phase = "stored"].upload = worker[w].upload
    BY <2>1
  <2> QED
    BY <1>7, <2>2, DeliveredMoves DEF StoreParquet
<1>8. ASSUME NEW w \in Workers, MarkProcessed(w)
      PROVE  Delivered'
  <2>1. worker[w] \in [phase : {"started", "committed", "marked"},
                       upload : Uploads]
    BY <1>8 DEF MarkProcessed, TypeOK, WorkerStates, Idle
  <2>2. /\ [worker[w] EXCEPT !.phase = "marked"].phase = "marked"
        /\ [worker[w] EXCEPT !.phase = "marked"].upload = worker[w].upload
    BY <2>1
  <2> QED
    BY <1>8, <2>2, DeliveredMoves DEF MarkProcessed
<1>9. CASE UNCHANGED vars
  BY <1>9 DEF vars, OneHolder, MarkedLast
<1> QED
  BY <1>1, <1>2, <1>3, <1>4, <1>5, <1>6, <1>7, <1>8, <1>9
     DEF Next, Receive, Step

LEMMA DeliveredInvariant == Spec => []Delivered
  BY DeliveredInit, DeliveredStep, TypeCorrect, PTL DEF Spec

\* A redelivered upload whose key is set makes no further version.
THEOREM ProcessedStaysFinal == Spec => ProcessedIsFinal
<1>1. Delivered /\ [Next]_vars =>
        \A v \in versions' \ versions : v.upload \notin processed
  <2> SUFFICES ASSUME Delivered, [Next]_vars, NEW v \in versions' \ versions
               PROVE  v.upload \notin processed
    OBVIOUS
  <2>1. PICK w \in Workers : CommitVersion(w)
    BY DEF Next, Receive, Start, Skip, Upload, Step, Crash, CheckDrift,
       PauseOnDrift, NumberVersion, StoreParquet, MarkProcessed, Finish, Fail,
       vars
  <2>2. v.upload = worker[w].upload
    BY <2>1 DEF CommitVersion
  <2> QED
    BY <2>1, <2>2 DEF Delivered, MarkedLast, CommitVersion
<1> QED
  BY <1>1, DeliveredInvariant, PTL DEF Spec, ProcessedIsFinal

-----------------------------------------------------------------------------
(* The queue, as the doors see it *)

Told == {u \in Uploads : message[u] # "none"}
Pending == {u \in Uploads : raw[u] # None /\ message[u] \in {"queued", "unacked"}}
Settled == {u \in Uploads : message[u] = "acked"}
Made == {v.upload : v \in versions}

\* A message that is acknowledged, by a task or instead of one.
LEMMA AckSettles ==
  ASSUME TypeOK, NEW u \in Uploads, message[u] \in {"queued", "unacked"},
         message' = [message EXCEPT ![u] = "acked"], UNCHANGED <<raw, versions>>
  PROVE  Promised!Settle(u)
<1>0. raw[u] # None
  BY DEF TypeOK
<1>1. Pending' = Pending \ {u} /\ Settled' = Settled \union {u} /\ u \in Pending
  BY <1>0 DEF TypeOK, Pending, Settled
<1>2. Made' = Made
  BY DEF Made
<1>3. Told' = Told
  BY DEF TypeOK, Told
<1> QED
  BY <1>1, <1>2, <1>3 DEF Promised!Settle, Told, Pending, Settled, Made

\* A message that goes to a worker, comes back from one or is left alone.
LEMMA StaysPending ==
  ASSUME TypeOK, NEW u \in Uploads, message[u] \in {"queued", "unacked"},
         NEW m \in {"queued", "unacked"}, message' = [message EXCEPT ![u] = m],
         raw' = raw
  PROVE  Told' = Told /\ Pending' = Pending /\ Settled' = Settled
  BY DEF TypeOK, Told, Pending, Settled

LEMMA QueueStep ==
  ASSUME Delivered, [Next]_vars
  PROVE  [Promised!Next]_<<Told, Pending, Settled, Made>>
<1>0. TypeOK
  BY DEF Delivered
<1>1. ASSUME UNCHANGED <<raw, message, versions>>
      PROVE  UNCHANGED <<Told, Pending, Settled, Made>>
  BY <1>1 DEF Told, Pending, Settled, Made
<1>2. \A w \in Workers : worker[w].phase # "idle" =>
        worker[w].upload \in Uploads /\ message[worker[w].upload] = "unacked"
  BY <1>0, ActiveUpload DEF Delivered, OneHolder
<1>3. ASSUME NEW u \in Uploads, NEW c \in Contents, Upload(u, c)
      PROVE  Promised!Accept(u)
  <2>1. message[u] = "none"
    BY <1>0, <1>3 DEF Upload, TypeOK
  <2>2. raw'[u] # None /\ \A v \in Uploads : v # u => raw'[v] = raw[v]
    BY <1>0, <1>3, IngestAssumption DEF Upload, TypeOK
  <2>3. /\ message'[u] = "queued"
        /\ \A v \in Uploads : v # u => message'[v] = message[v]
    BY <1>0, <1>3 DEF Upload, TypeOK
  <2>4. Told' = Told \union {u} /\ Settled' = Settled
    BY <2>1, <2>3 DEF Told, Settled
  <2>5. Pending' = Pending \union {u}
    BY <2>1, <2>2, <2>3 DEF Pending
  <2>6. Made' = Made
    BY <1>3 DEF Upload, Made
  <2> QED
    BY <2>4, <2>5, <2>6 DEF Promised!Accept, Told, Pending, Settled, Made
<1>4. ASSUME NEW w \in Workers, NEW u \in Uploads, Start(w, u)
      PROVE  UNCHANGED <<Told, Pending, Settled, Made>>
  BY <1>0, <1>4, StaysPending DEF Start, Made
<1>5. ASSUME NEW w \in Workers, NEW u \in Uploads, Skip(w, u)
      PROVE  Promised!Settle(u)
  BY <1>0, <1>5, AckSettles DEF Skip
<1>6. ASSUME NEW w \in Workers, Crash(w)
      PROVE  UNCHANGED <<Told, Pending, Settled, Made>>
  <2>1. worker[w].upload \in Uploads /\ message[worker[w].upload] = "unacked"
    BY <1>2, <1>6 DEF Crash
  <2> QED
    BY <1>0, <1>6, <2>1, StaysPending DEF Crash, Made
<1>7. ASSUME NEW w \in Workers, PauseOnDrift(w) \/ Finish(w) \/ Fail(w)
      PROVE  \E u \in Uploads : Promised!Settle(u)
  <2>1. PICK u \in Uploads : u = worker[w].upload /\ message[u] = "unacked"
    BY <1>2, <1>7 DEF PauseOnDrift, Finish, Fail
  <2>2. /\ message' = [message EXCEPT ![u] = "acked"]
        /\ UNCHANGED <<raw, versions>>
    BY <1>7, <2>1 DEF PauseOnDrift, Finish, Fail, Acknowledge
  <2>3. Promised!Settle(u)
    BY <1>0, <2>1, <2>2, AckSettles
  <2> QED
    BY <2>3
<1>8. ASSUME NEW w \in Workers, CommitVersion(w)
      PROVE  \E u \in Uploads : Promised!Make(u)
  <2>1. PICK u \in Uploads : u = worker[w].upload /\ message[u] = "unacked"
    BY <1>2, <1>8 DEF CommitVersion
  <2> DEFINE row == [number |-> worker[w].number, upload |-> u,
                     schema |-> raw[u].schema, rows |-> raw[u].rows]
  <2>2. /\ versions' = versions \union {row} /\ row.upload = u
        /\ UNCHANGED <<raw, message>>
    BY <1>8, <2>1 DEF CommitVersion
  <2> HIDE DEF row
  <2>3. Made' = Made \union {u}
    BY <2>2 DEF Made
  <2>4. raw[u] # None
    BY <1>0, <2>1 DEF TypeOK
  <2>5. /\ u \in Pending
        /\ Told' = Told /\ Pending' = Pending /\ Settled' = Settled
    BY <2>1, <2>2, <2>4 DEF Told, Pending, Settled
  <2>6. Promised!Make(u)
    BY <2>3, <2>5 DEF Promised!Make, Told, Pending, Settled, Made
  <2> QED
    BY <2>6
<1>9. ASSUME NEW w \in Workers,
             CheckDrift(w) \/ NumberVersion(w) \/ StoreParquet(w) \/ MarkProcessed(w)
      PROVE  UNCHANGED <<raw, message, versions>>
  BY <1>9 DEF CheckDrift, NumberVersion, StoreParquet, MarkProcessed
<1>10. CASE UNCHANGED vars
  BY <1>1, <1>10 DEF vars
<1>11. ASSUME NEW u \in Uploads, Receive(u)
       PROVE  \/ \E v \in Uploads : Promised!Settle(v)
              \/ UNCHANGED <<Told, Pending, Settled, Made>>
  BY <1>4, <1>5, <1>11 DEF Receive
<1>12. ASSUME NEW w \in Workers, Step(w)
       PROVE  \/ \E u \in Uploads : Promised!Settle(u) \/ Promised!Make(u)
              \/ UNCHANGED <<Told, Pending, Settled, Made>>
  BY <1>1, <1>7, <1>8, <1>9, <1>12 DEF Step
<1> QED
  BY <1>3, <1>6, <1>10, <1>11, <1>12 DEF Next, Promised!Next

\* However workers overlap and are lost, an upload leaves the queue only settled,
\* and a version comes only of one that is pending: the interface on which
\* module UploadDoors rests.
THEOREM PipelineImplementsQueue == Spec => PipelineKeepsQueue
<1>1. Init => Promised!Init
  BY DEF Init, Promised!Init
<1>2. Delivered /\ [Next]_vars => [Promised!Next]_<<Told, Pending, Settled, Made>>
  BY QueueStep
<1> QED
  BY <1>1, <1>2, DeliveredInvariant, PTL
     DEF Spec, PipelineKeepsQueue, Promised!Spec, Told, Pending, Settled, Made

-----------------------------------------------------------------------------
(* While no two workers are between their comparison and their commit *)

\* What the worker that is about to commit has read is still so: the row it loaded, the schema of the
\* latest version, the number that is next.
Current ==
  \A w \in Workers :
    /\ Compared(w) => worker[w].loaded = dataset /\ ~Drifts(raw[worker[w].upload])
    /\ Numbered(w) => worker[w].number = LatestNumber + 1

Serially == Current /\ SchemasAgree /\ DatasetShowsLatest

\* A step that writes neither versions nor the row.
LEMMA SeriallyKept ==
  ASSUME Serially, UNCHANGED <<versions, dataset>>,
         \A w \in Workers : Compared(w)' =>
           /\ worker'[w].loaded = dataset
           /\ ~Drifts(raw'[worker'[w].upload]),
         \A w \in Workers : Numbered(w)' => worker'[w].number = LatestNumber + 1
  PROVE  Serially'
<1>1. LatestNumber' = LatestNumber
  BY DEF LatestNumber, Numbers
<1>2. \A c : Drifts(c)' <=> Drifts(c)
  BY <1>1 DEF Drifts
<1>3. SchemasAgree' /\ DatasetShowsLatest'
  BY <1>1 DEF Serially, SchemasAgree, DatasetShowsLatest
<1>4. Current'
  <2> SUFFICES ASSUME NEW w \in Workers
               PROVE  /\ Compared(w)' => /\ worker'[w].loaded = dataset'
                                         /\ ~Drifts(raw[worker[w].upload])'
                      /\ Numbered(w)' => worker'[w].number = LatestNumber' + 1
    BY DEF Current
  <2>1. Drifts(raw[worker[w].upload])' <=> Drifts(raw'[worker'[w].upload])
    BY <1>1 DEF Drifts
  <2> QED
    BY <1>1, <2>1
<1> QED
  BY <1>3, <1>4 DEF Serially

LEMMA CommitSerially ==
  ASSUME Alone, Numbering, Numbering', Serially, NEW w \in Workers, CommitVersion(w)
  PROVE  Serially'
<1> DEFINE n == LatestNumber
           c == raw[worker[w].upload]
           new == [number |-> worker[w].number, upload |-> worker[w].upload,
                   schema |-> c.schema, rows |-> c.rows]
<1>1. n \in Nat /\ Numbers = 1 .. n
  BY LatestIsNat DEF Numbering
<1>2. /\ worker[w].number = n + 1 /\ worker[w].loaded = dataset /\ ~Drifts(c)
      /\ worker[w].phase = "stored"
  BY DEF CommitVersion, Serially, Current, Compared, Numbered
<1>3. /\ versions' = versions \union {new}
      /\ dataset' = Applied(dataset, c)
      /\ worker' = [worker EXCEPT ![w] = [phase |-> "committed", upload |-> worker[w].upload]]
  BY <1>2 DEF CommitVersion
<1>4. c \in Contents
  BY <1>2, ActiveUpload DEF Numbering
<1>5. dataset' = [schema |-> c.schema, rows |-> c.rows]
  BY <1>3, <1>4 DEF Applied, Contents
<1>6. Numbers' = 1 .. n + 1
  <2>1. Numbers' = Numbers \union {n + 1}
    <3> DEFINE m == n + 1
    <3>1. new.number = m /\ versions' = versions \union {new}
      BY <1>2, <1>3
    <3> HIDE DEF new, m
    <3>2. Numbers' = Numbers \union {m}
      BY <3>1 DEF Numbers
    <3> QED
      BY <3>2 DEF m
  <2> QED
    BY <1>1, <2>1
<1>7. LatestNumber' = n + 1
  BY <1>1, <1>6, LatestOfIntervalNext
<1>8. \A v \in versions : v.schema = c.schema
  <2> SUFFICES ASSUME NEW v \in versions
               PROVE  v.schema = c.schema
    OBVIOUS
  <2>1. v.number \in 1 .. n
    BY <1>1 DEF Numbers
  <2>2. n \in Numbers
    BY <1>1, <2>1
  <2>3. PICK o \in versions : o.number = n
    BY <2>2 DEF Numbers
  <2>4. o.schema = c.schema
    BY <1>2, <2>3 DEF Drifts
  <2> QED
    BY <2>4 DEF Serially, SchemasAgree
<1>9. SchemasAgree'
  BY <1>3, <1>8 DEF SchemasAgree
<1>10. DatasetShowsLatest'
  <2>1. \A v \in versions : v.number # n + 1
    BY <1>1 DEF Numbers
  <2>2. new.number = n + 1 /\ new.schema = c.schema /\ new.rows = c.rows
    BY <1>2
  <2>3. versions' = versions \union {new}
    BY <1>3
  <2> HIDE DEF n, c, new
  <2> QED
    BY <1>5, <1>7, <2>1, <2>2, <2>3 DEF DatasetShowsLatest
<1>11. \A x \in Workers : ~Compared(x)'
  BY <1>2, <1>3 DEF Alone, Compared, Numbering, TypeOK
<1>12. Current'
  BY <1>11 DEF Current, Compared, Numbered
<1> QED
  BY <1>9, <1>10, <1>12 DEF Serially

LEMMA SeriallyStep ==
  ASSUME Alone, Numbering, Numbering', Serially, [Next]_vars
  PROVE  Serially'
<1>0. TypeOK
  BY DEF Numbering
<1> USE DEF Compared, Numbered
<1>1. ASSUME UNCHANGED <<versions, dataset, raw>>,
             \A w \in Workers : \/ worker'[w] = worker[w]
                                \/ worker'[w].phase \in {"idle", "started", "marked"}
      PROVE  Serially'
  BY <1>1, SeriallyKept DEF Serially, Current
<1>2. ASSUME NEW u \in Uploads, NEW c \in Contents, Upload(u, c)
      PROVE  Serially'
  <2>1. \A w \in Workers : worker[w].phase # "idle" => raw'[worker[w].upload] = raw[worker[w].upload]
    BY <1>0, <1>2 DEF Upload, TypeOK
  <2> QED
    BY <1>2, <2>1, SeriallyKept DEF Upload, Serially, Current
<1>3. ASSUME NEW u \in Uploads, Receive(u)
      PROVE  Serially'
  <2>1. \A w \in Workers : \/ worker'[w] = worker[w]
                           \/ worker'[w].phase \in {"idle", "started", "marked"}
    BY <1>0, <1>3 DEF Receive, Start, Skip, Delivery, TypeOK
  <2> QED
    BY <1>1, <1>3, <2>1 DEF Receive, Start, Skip
<1>4. ASSUME NEW w \in Workers, CheckDrift(w)
      PROVE  Serially'
  <2>1. /\ worker'[w].phase = "checked" /\ worker'[w].loaded = dataset
        /\ worker'[w].upload = worker[w].upload
        /\ ~Drifts(raw[worker[w].upload])
        /\ \A x \in Workers : x # w => worker'[x] = worker[x]
    BY <1>0, <1>4 DEF CheckDrift, TypeOK
  <2>2. UNCHANGED <<versions, dataset, raw>>
    BY <1>4 DEF CheckDrift
  <2> QED
    BY <2>1, <2>2, SeriallyKept DEF Serially, Current
<1>5. ASSUME NEW w \in Workers, NumberVersion(w)
      PROVE  Serially'
  <2>1. /\ worker[w].phase = "checked"
        /\ worker'[w].phase = "numbered" /\ worker'[w].loaded = worker[w].loaded
        /\ worker'[w].upload = worker[w].upload
        /\ worker'[w].number = LatestNumber + 1
        /\ \A x \in Workers : x # w => worker'[x] = worker[x]
    BY <1>0, <1>5 DEF NumberVersion, NextVersion, TypeOK
  <2>2. UNCHANGED <<versions, dataset, raw>>
    BY <1>5 DEF NumberVersion
  <2> QED
    BY <2>1, <2>2, SeriallyKept DEF Serially, Current
<1>6. ASSUME NEW w \in Workers, StoreParquet(w)
      PROVE  Serially'
  <2>1. /\ worker[w].phase = "numbered"
        /\ worker'[w].loaded = worker[w].loaded
        /\ worker'[w].upload = worker[w].upload
        /\ worker'[w].number = worker[w].number
        /\ \A x \in Workers : x # w => worker'[x] = worker[x]
    BY <1>0, <1>6 DEF StoreParquet, TypeOK, WorkerStates, Idle
  <2>2. UNCHANGED <<versions, dataset, raw>>
    BY <1>6 DEF StoreParquet
  <2> QED
    BY <2>1, <2>2, SeriallyKept DEF Serially, Current
<1>7. ASSUME NEW w \in Workers, CommitVersion(w)
      PROVE  Serially'
  BY <1>7, CommitSerially
<1>8. ASSUME NEW w \in Workers,
             PauseOnDrift(w) \/ MarkProcessed(w) \/ Finish(w) \/ Fail(w) \/ Crash(w)
      PROVE  Serially'
  <2>1. \A x \in Workers : \/ worker'[x] = worker[x]
                           \/ worker'[x].phase \in {"idle", "started", "marked"}
    BY <1>0, <1>8 DEF PauseOnDrift, MarkProcessed, Finish, Fail, Crash, Acknowledge, Idle,
       TypeOK, WorkerStates
  <2> QED
    BY <1>1, <1>8, <2>1 DEF PauseOnDrift, MarkProcessed, Finish, Fail, Crash, Acknowledge
<1>9. CASE UNCHANGED vars
  BY <1>1, <1>9 DEF vars
<1> QED
  BY <1>2, <1>3, <1>4, <1>5, <1>6, <1>7, <1>8, <1>9 DEF Next, Step

LEMMA SeriallyInvariant == Spec /\ []Alone => [](Numbering /\ Serially)
<1>1. Init => Serially
  BY DEF Init, Idle, Serially, Current, Compared, Numbered, SchemasAgree, DatasetShowsLatest
<1>2. Alone /\ Numbering /\ Numbering' /\ Serially /\ [Next]_vars => Serially'
  BY SeriallyStep
<1> QED
  BY <1>1, <1>2, NumberingInvariant, PTL DEF Spec

-----------------------------------------------------------------------------
(* The version log.  Committing is the step that appends to it; for that the *)
(* object at the number must still be the one this worker stored.            *)

LEMMA EntryOf ==
  ASSUME OneRowPerNumber, NEW v \in versions
  PROVE  VersionEntry(v.number) =
           [object |-> parquet[v.number],
            describes |-> [schema |-> v.schema, rows |-> v.rows]]
<1>1. (CHOOSE o \in versions : o.number = v.number) = v
  BY DEF OneRowPerNumber
<1> QED
  BY <1>1 DEF VersionEntry

\* The same of the next state.
LEMMA EntryOfNext ==
  ASSUME OneRowPerNumber', NEW v \in versions'
  PROVE  \A n : n = v.number =>
           VersionEntry(n)' = [object |-> parquet'[n],
                               describes |-> [schema |-> v.schema, rows |-> v.rows]]
<1>1. (CHOOSE o \in versions' : o.number = v.number) = v
  BY DEF OneRowPerNumber
<1> QED
  BY <1>1 DEF VersionEntry

\* A worker that stored its object finds it where it left it.
StoredIsOwn ==
  \A w \in Workers :
    worker[w].phase = "stored" => parquet[worker[w].number] = worker[w].upload

LEMMA StoredStep ==
  ASSUME Alone, Numbering, StoredIsOwn, [Next]_vars
  PROVE  StoredIsOwn'
<1>0. TypeOK
  BY DEF Numbering
<1>1. ASSUME UNCHANGED parquet,
             \A w \in Workers : worker'[w] = worker[w] \/ worker'[w].phase # "stored"
      PROVE  StoredIsOwn'
  BY <1>1 DEF StoredIsOwn
<1>2. ASSUME NEW w \in Workers, StoreParquet(w)
      PROVE  StoredIsOwn'
  <2>1. /\ worker'[w].number = worker[w].number
        /\ worker'[w].upload = worker[w].upload
    BY <1>0, <1>2 DEF StoreParquet, TypeOK, WorkerStates, Idle
  <2>2. parquet'[worker[w].number] = worker[w].upload
    BY <1>2 DEF StoreParquet, ParquetKey
  <2> QED
    <3>1. \A x \in Workers : worker'[x].phase = "stored" => x = w
      BY <1>0, <1>2 DEF StoreParquet, Alone, Compared, TypeOK
    <3> QED
      BY <2>1, <2>2, <3>1 DEF StoredIsOwn
<1>3. ASSUME NEW u \in Uploads, Receive(u) \/ \E c \in Contents : Upload(u, c)
      PROVE  StoredIsOwn'
  BY <1>0, <1>1, <1>3 DEF Receive, Start, Skip, Upload, Delivery, TypeOK
<1>4. ASSUME NEW w \in Workers,
             CheckDrift(w) \/ NumberVersion(w) \/ CommitVersion(w)
      PROVE  StoredIsOwn'
  BY <1>0, <1>1, <1>4 DEF CheckDrift, NumberVersion, CommitVersion, TypeOK
<1>5. ASSUME NEW w \in Workers,
             PauseOnDrift(w) \/ MarkProcessed(w) \/ Finish(w) \/ Fail(w) \/ Crash(w)
      PROVE  StoredIsOwn'
  <2>1. UNCHANGED parquet
    BY <1>5 DEF PauseOnDrift, MarkProcessed, Finish, Fail, Crash
  <2>2. \A x \in Workers : worker'[x] = worker[x] \/ worker'[x].phase # "stored"
    BY <1>0, <1>5 DEF PauseOnDrift, MarkProcessed, Finish, Fail, Crash, Acknowledge, Idle,
       TypeOK, WorkerStates
  <2> QED
    BY <1>1, <2>1, <2>2
<1>6. CASE UNCHANGED vars
  BY <1>1, <1>6 DEF vars
<1> QED
  BY <1>2, <1>3, <1>4, <1>5, <1>6 DEF Next, Step

\* The log does not change with the rows and objects it is made of.
LEMMA LogKept ==
  ASSUME Numbering, versions' = versions,
         \A n \in Numbers : parquet'[n] = parquet[n]
  PROVE  Log' = Log
<1>1. LatestNumber' = LatestNumber /\ Numbers = 1 .. LatestNumber
  BY LatestIsNat DEF Numbering, LatestNumber, Numbers
<1>2. \A n \in 1 .. LatestNumber : VersionEntry(n)' = VersionEntry(n)
  BY <1>1 DEF VersionEntry
<1> QED
  BY <1>1, <1>2 DEF Log

\* The version a commit adds, which describes what was uploaded.
LEMMA CommitAppends ==
  ASSUME Alone, Numbering, Numbering', Serially, Serially', StoredIsOwn,
         NEW w \in Workers, CommitVersion(w)
  PROVE  LET u == worker[w].upload IN
         /\ Log' = Append(Log, [object |-> u, describes |-> raw[u]])
         /\ dataset' = raw[u]
         /\ \A n \in DOMAIN Log : Log[n].describes.schema = raw[u].schema
<1>1. PICK n \in Nat : Numbers = 1 .. n /\ LatestNumber = n
  BY LatestIsNat DEF Numbering
<1> DEFINE u == worker[w].upload
           new == [number |-> n + 1, upload |-> u, schema |-> raw[u].schema,
                   rows |-> raw[u].rows]
<1>2. /\ worker[w].number = n + 1 /\ worker[w].phase = "stored"
      /\ parquet[n + 1] = u
  BY <1>1 DEF CommitVersion, Serially, Current, Numbered, StoredIsOwn
<1>3. raw[u] \in Contents
  BY <1>2, ActiveUpload DEF Numbering
<1>4. raw[u] = [schema |-> raw[u].schema, rows |-> raw[u].rows]
  BY <1>3 DEF Contents
<1>5. versions' = versions \union {new} /\ parquet' = parquet
  BY <1>2 DEF CommitVersion
<1>6. LatestNumber' = n + 1 /\ Numbers' = 1 .. n + 1
  <2>1. Numbers' = Numbers \union {n + 1}
    <3> DEFINE m == n + 1
    <3>1. new.number = m /\ versions' = versions \union {new}
      BY <1>5
    <3> HIDE DEF new, m
    <3>2. Numbers' = Numbers \union {m}
      BY <3>1 DEF Numbers
    <3> QED
      BY <3>2 DEF m
  <2>2. Numbers' = 1 .. n + 1
    BY <1>1, <2>1
  <2> QED
    BY <1>1, <2>2, LatestOfIntervalNext
<1>7. VersionEntry(n + 1)' = [object |-> u, describes |-> raw[u]]
  <2>1. new \in versions' /\ new.number = n + 1 /\ OneRowPerNumber'
        /\ new.schema = raw[u].schema /\ new.rows = raw[u].rows
    BY <1>5 DEF Numbering
  <2> HIDE DEF new
  <2> QED
    BY <1>2, <1>4, <1>5, <2>1, EntryOfNext
<1>8. \A i \in 1 .. n : VersionEntry(i)' = VersionEntry(i)
  <2> SUFFICES ASSUME NEW i \in 1 .. n
               PROVE  VersionEntry(i)' = VersionEntry(i)
    OBVIOUS
  <2>1. PICK v \in versions : v.number = i
    BY <1>1 DEF Numbers
  <2>2. v \in versions'
    BY <1>5, <2>1
  <2> QED
    BY <1>5, <2>1, <2>2, EntryOf, EntryOfNext DEF Numbering
<1>9. Log' = Append(Log, [object |-> u, describes |-> raw[u]])
  <2>1. Log = [i \in 1 .. n |-> VersionEntry(i)] /\ Len(Log) = n
    BY <1>1 DEF Log
  <2>2. Log' = [i \in 1 .. n + 1 |-> VersionEntry(i)']
    BY <1>6 DEF Log
  <2>3. Append(Log, [object |-> u, describes |-> raw[u]])
          = [i \in 1 .. n + 1 |-> IF i = n + 1 THEN [object |-> u, describes |-> raw[u]]
                                               ELSE Log[i]]
    BY <1>1, <2>1
  <2>4. \A i \in 1 .. n + 1 :
          VersionEntry(i)' = IF i = n + 1 THEN [object |-> u, describes |-> raw[u]]
                                          ELSE Log[i]
    BY <1>1, <1>7, <1>8, <2>1
  <2> QED
    BY <2>2, <2>3, <2>4
<1>10. dataset' = raw[u]
  <2>1. new \in versions' /\ new.number = LatestNumber'
    BY <1>5, <1>6
  <2> QED
    BY <1>4, <2>1 DEF Serially, DatasetShowsLatest
<1>11. \A i \in DOMAIN Log : Log[i].describes.schema = raw[u].schema
  <2> SUFFICES ASSUME NEW i \in 1 .. n
               PROVE  VersionEntry(i).describes.schema = raw[u].schema
    BY <1>1 DEF Log
  <2>1. PICK v \in versions : v.number = i
    BY <1>1 DEF Numbers
  <2>2. v.schema = raw[u].schema
    <3>1. new \in versions' /\ v \in versions' /\ new.schema = raw[u].schema
      BY <1>5
    <3>2. SchemasAgree'
      BY DEF Serially
    <3> HIDE DEF new
    <3> QED
      BY <3>1, <3>2 DEF SchemasAgree
  <2>3. VersionEntry(i) = [object |-> parquet[i],
                           describes |-> [schema |-> v.schema, rows |-> v.rows]]
    BY <2>1, EntryOf DEF Numbering
  <2> QED
    BY <2>2, <2>3
<1> QED
  BY <1>9, <1>10, <1>11

LEMMA LogStep ==
  ASSUME Alone, Numbering, Numbering', Serially, Serially', StoredIsOwn, [Next]_vars
  PROVE  [Published!Next]_<<raw, Log, dataset>>
<1>1. ASSUME UNCHANGED <<raw, versions, parquet, dataset>>
      PROVE  UNCHANGED <<raw, Log, dataset>>
  BY <1>1, LogKept
<1>2. ASSUME NEW u \in Uploads, NEW c \in Contents, Upload(u, c)
      PROVE  Published!Accept(u, c)
  BY <1>2, LogKept DEF Upload, Published!Accept
<1>3. ASSUME NEW w \in Workers, CommitVersion(w)
      PROVE  worker[w].upload \in Uploads /\ Published!Publish(worker[w].upload)
  <2>1. worker[w].upload \in Uploads /\ raw[worker[w].upload] # None
    BY <1>3, ActiveUpload DEF CommitVersion, Numbering, TypeOK
  <2>2. raw' = raw
    BY <1>3 DEF CommitVersion
  <2> QED
    BY <1>3, <2>1, <2>2, CommitAppends DEF Published!Publish
<1>4. ASSUME NEW w \in Workers, StoreParquet(w)
      PROVE  UNCHANGED <<raw, Log, dataset>>
  <2>1. LatestNumber \in Nat /\ Numbers = 1 .. LatestNumber
    BY LatestIsNat DEF Numbering
  <2>2. worker[w].number = LatestNumber + 1
    BY <1>4 DEF StoreParquet, Serially, Current, Numbered
  <2>3. \A n \in Numbers : n # worker[w].number /\ n \in DOMAIN parquet
    BY <2>1, <2>2 DEF Numbering, VersionsStored
  <2>4. \A n \in Numbers : parquet'[n] = parquet[n]
    BY <1>4, <2>3 DEF StoreParquet, ParquetKey
  <2> QED
    BY <1>4, <2>4, LogKept DEF StoreParquet
<1>5. ASSUME NEW u \in Uploads, Receive(u)
      PROVE  UNCHANGED <<raw, Log, dataset>>
  BY <1>1, <1>5 DEF Receive, Start, Skip
<1>6. ASSUME NEW w \in Workers,
             \/ CheckDrift(w) \/ PauseOnDrift(w) \/ NumberVersion(w) \/ MarkProcessed(w)
             \/ Finish(w) \/ Fail(w) \/ Crash(w)
      PROVE  UNCHANGED <<raw, Log, dataset>>
  BY <1>1, <1>6
     DEF CheckDrift, PauseOnDrift, NumberVersion, MarkProcessed, Finish, Fail, Crash
<1>7. CASE UNCHANGED vars
  BY <1>1, <1>7 DEF vars
<1> QED
  BY <1>2, <1>3, <1>4, <1>5, <1>6, <1>7 DEF Next, Step, Published!Next

\* While no two workers are between their comparison and their commit, and however
\* many there are, overlap elsewhere, fail or are lost, the pipeline is a log of
\* versions that only grows: an entry is published once, with its object, its row
\* and the dataset's description together, and is never revised.  That stretch of
\* IngestService.run is the one that needs a lock.
THEOREM AloneImplementsVersionLog == Spec /\ []Alone => ImplementsVersionLog
<1>1. Init => Published!Init
  <2> SUFFICES ASSUME Init PROVE Published!Init
    OBVIOUS
  <2>1. LatestNumber = 0
    BY DEF Init, LatestNumber
  <2>2. Log = <<>>
    BY <2>1 DEF Log
  <2> QED
    BY <2>2 DEF Init, Published!Init
<1>2. Init => StoredIsOwn
  BY DEF Init, Idle, StoredIsOwn
<1>3. Alone /\ Numbering /\ StoredIsOwn /\ [Next]_vars => StoredIsOwn'
  BY StoredStep
<1>4. /\ Alone /\ Numbering /\ Numbering' /\ Serially /\ Serially' /\ StoredIsOwn
      /\ [Next]_vars
      => [Published!Next]_<<raw, Log, dataset>>
  BY LogStep
<1> QED
  BY <1>1, <1>2, <1>3, <1>4, SeriallyInvariant, PTL
     DEF Spec, ImplementsVersionLog, Published!Spec
=============================================================================
