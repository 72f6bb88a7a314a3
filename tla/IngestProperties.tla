-------------------------- MODULE IngestProperties --------------------------
(***************************************************************************)
(* What the upload pipeline promises: the properties that hold however     *)
(* workers overlap and crash, those that hold only while ingests of one    *)
(* dataset do not overlap, and what the code says of itself and is not so. *)
(***************************************************************************)
EXTENDS Ingest, FiniteSets

Versions == [number : Nat \ {0}, upload : Uploads, schema : Schemas,
             rows : RowCounts]

Events == [type : {"DatasetIngested", "SchemaDriftDetected"}, upload : Uploads]

DatasetRow == [schema : Schemas \union {None}, rows : RowCounts \union {None}]

WorkerStates ==
  {Idle}
    \union [phase : {"started", "committed", "marked"}, upload : Uploads]
    \union [phase : {"checked"}, upload : Uploads, loaded : DatasetRow]
    \union [phase : {"numbered", "stored"}, upload : Uploads,
            loaded : DatasetRow, number : Nat \ {0}]

\* Every variable has its type; a message is sent for an upload whose raw object
\* is in storage, and a worker handles such an upload.  Version numbers start at 1.
TypeOK ==
  /\ raw \in [Uploads -> Contents \union {None}]
  /\ message \in [Uploads -> MessageStates]
  /\ redelivered \in [Uploads -> 0 .. MaxRedeliveries]
  /\ processed \subseteq Uploads
  /\ versions \subseteq Versions
  /\ parquet \in [DOMAIN parquet -> Uploads]
  /\ DOMAIN parquet \subseteq Nat \ {0}
  /\ dataset \in DatasetRow
  /\ journal \subseteq Events
  /\ worker \in [Workers -> WorkerStates]
  /\ \A u \in Uploads : message[u] # "none" => raw[u] # None
  /\ \A w \in Workers :
       worker[w].phase # "idle" => raw[worker[w].upload] # None

-----------------------------------------------------------------------------
(* In every interleaving *)

\* The versions of a dataset are numbered 1, 2, 3, ... with no gap and no two
\* alike, although ingests compute the next number without a lock, lose races
\* for it and are rolled back (next_version_number, the unique constraint).
VersionsContiguous ==
  /\ Numbers = 1 .. LatestNumber
  /\ \A v, o \in versions : v.number = o.number => v = o

\* A reader who finds a version row finds its Parquet object: the object is
\* stored before the row is visible and no abandoned ingest takes it away.
VersionsStored == Numbers \subseteq DOMAIN parquet

\* An upload that was marked processed is never ingested again, whatever is
\* redelivered afterwards (the idempotency key of process_upload).
ProcessedIsFinal ==
  [][\A v \in versions' \ versions : v.upload \notin processed]_vars

\* An accepted upload is settled: its message is not lost with a worker.
AcceptedIsSettled ==
  \A u \in Uploads : message[u] = "queued" ~> message[u] = "acked"

Promised == INSTANCE UploadQueue WITH
  told <- {u \in Uploads : message[u] # "none"},
  pending <- {u \in Uploads : raw[u] # None /\ message[u] \in {"queued", "unacked"}},
  settled <- {u \in Uploads : message[u] = "acked"},
  made <- {v.upload : v \in versions}

\* What the upload endpoint and tusd's hook count on: a message leaves the broker
\* only settled, and no version comes of an upload that is not pending, although
\* workers are lost and messages redelivered (task_acks_late, process_upload).
PipelineKeepsQueue == Promised!Spec

-----------------------------------------------------------------------------
(* While ingests do not overlap *)

Compared(w) == worker[w].phase \in {"checked", "numbered", "stored"}

\* No two workers are between their comparison with the latest version and their
\* commit.  Nothing in the code sees to it; a single worker does.
Alone == \A v, w \in Workers : Compared(v) /\ Compared(w) => v = w

\* Strengthenings of the refinement below.  Without an approval to accept a new
\* schema, all versions share one (detect_schema_drift).
SchemasAgree == \A v, o \in versions : v.schema = o.schema

\* The dataset row describes the latest version (apply_ingest_result).
DatasetShowsLatest ==
  \A v \in versions :
    v.number = LatestNumber =>
      dataset = [schema |-> v.schema, rows |-> v.rows]

\* The refinement mapping: the rows in the order of their numbers, each with the
\* upload whose Parquet object its storage_path names.
VersionEntry(n) ==
  LET v == CHOOSE v \in versions : v.number = n IN
  [object |-> parquet[n], describes |-> [schema |-> v.schema, rows |-> v.rows]]

Log == [n \in 1 .. LatestNumber |-> VersionEntry(n)]

Published == INSTANCE VersionLog WITH
  NoFile <- None, NoVersion <- EmptyDataset,
  files <- raw, log <- Log, shown <- dataset

\* While ingests do not overlap, losses before and after the object is stored, the
\* row committed and the key set, failures and redeliveries leave a log of versions
\* that only grows, each row describing what its object holds (IngestService.run,
\* process_upload).
ImplementsVersionLog == Published!Spec

-----------------------------------------------------------------------------
(* Said of the program, and not so *)

\* db/models/tenant.py:95 "Immutable published snapshot of a dataset.", of
\* DatasetVersion: neither a version's row nor the object its storage_path names is
\* ever replaced.
VersionsImmutable ==
  [][\A v \in versions :
       v \in versions' /\ parquet'[v.number] = parquet[v.number]]_vars
=============================================================================
