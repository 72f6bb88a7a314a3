------------------------------- MODULE Ingest -------------------------------
(***************************************************************************)
(* The upload pipeline of one dataset: the upload endpoint accepts a file, *)
(* Celery delivers process_upload at least once (workers/tasks/tasks.py),  *)
(* and IngestService.run (services/ingest/ingest_service.py) turns the     *)
(* file into a numbered version.  Datasets share no row, key or object     *)
(* here, so one stands for all.                                            *)
(*                                                                         *)
(* IngestService reads in several statements of a READ COMMITTED           *)
(* transaction, writes the Parquet object to storage before the            *)
(* transaction commits, and the task sets its idempotency key in Valkey    *)
(* after it.  Those are the steps of a worker; between any two of them     *)
(* other workers run and this one may be lost.                             *)
(***************************************************************************)
EXTENDS Naturals

CONSTANTS
  Uploads,          \* accepted uploads, each with a raw key and a message
  Schemas,          \* what infer_tabular_schema can find in a file
  RowCounts,
  Workers,          \* Celery worker processes
  MaxRedeliveries,  \* worker losses per message
  None

\* What is recorded about a file: its columns and its number of rows.
Contents == [schema : Schemas, rows : RowCounts]

ASSUME IngestAssumption ==
  /\ MaxRedeliveries \in Nat
  /\ None \notin Contents \union Uploads \union Schemas \union RowCounts

VARIABLES
  raw,        \* raw/<tenant>/<dataset>/<upload>: what the file holds
  message,    \* the broker's state of each upload's process_upload message
  redelivered,
  processed,  \* uploads whose idempotency key is set in Valkey
  versions,   \* dataset_versions rows
  parquet,    \* versions/<number>/data.parquet: the upload whose rows it holds
  dataset,    \* the columns of the datasets row that an ingest writes
  journal,    \* events committed to the event store
  worker      \* per worker, the delivery it is handling

vars == <<raw, message, redelivered, processed, versions, parquet, dataset,
          journal, worker>>

EmptyDataset == [schema |-> None, rows |-> None]

MessageStates == {"none", "queued", "unacked", "acked"}

Idle == [phase |-> "idle"]
Delivery(u) == [phase |-> "started", upload |-> u]

-----------------------------------------------------------------------------
(* Versions *)

Numbers == {v.number : v \in versions}

\* coalesce(max(version_number), 0)
LatestNumber ==
  IF versions = {} THEN 0
  ELSE CHOOSE n \in Numbers : \A m \in Numbers : m <= n

\* Mutant: off by one.
NextVersion_Latest == LatestNumber

NextVersion == LatestNumber + 1

\* Mutant: the comparison is left out.
Drifts_Never(content) == FALSE

\* Column names or types differ from those of the latest version.
Drifts(content) ==
  \E v \in versions : v.number = LatestNumber /\ v.schema # content.schema

\* Mutant: the table without its unique constraint.
NumberFree_Unconstrained(n) == TRUE

\* The unique constraint on (dataset_id, version_number).
NumberFree(n) == n \notin Numbers

\* Mutant: only the schema is applied.
Applied_SchemaOnly(loaded, content) == [dataset EXCEPT !.schema = content.schema]

\* The unit of work writes a column only when its new value differs from the
\* value the session loaded.
Applied(loaded, content) ==
  [schema |-> IF content.schema = loaded.schema THEN dataset.schema
                                                ELSE content.schema,
   rows |-> IF content.rows = loaded.rows THEN dataset.rows ELSE content.rows]

-----------------------------------------------------------------------------
(* The endpoint and the broker *)

Init ==
  /\ raw = [u \in Uploads |-> None]
  /\ message = [u \in Uploads |-> "none"]
  /\ redelivered = [u \in Uploads |-> 0]
  /\ processed = {}
  /\ versions = {}
  /\ parquet = [n \in {} |-> None]
  /\ dataset = EmptyDataset
  /\ journal = {}
  /\ worker = [w \in Workers |-> Idle]

\* upload_file: the raw object is stored, then the task is enqueued.
Upload(u, content) ==
  /\ raw[u] = None
  /\ raw' = [raw EXCEPT ![u] = content]
  /\ message' = [message EXCEPT ![u] = "queued"]
  /\ UNCHANGED <<redelivered, processed, versions, parquet, dataset, journal,
                 worker>>

\* Mutant: acknowledged on delivery, so the message goes with the worker.
Crash_Forgets(w) ==
  /\ worker[w].phase # "idle"
  /\ redelivered[worker[w].upload] < MaxRedeliveries
  /\ redelivered' = [redelivered EXCEPT ![worker[w].upload] = @ + 1]
  /\ worker' = [worker EXCEPT ![w] = Idle]
  /\ UNCHANGED <<raw, message, processed, versions, parquet, dataset, journal>>

\* A worker is lost at any point of the task: its transaction rolls back and
\* the broker queues the unacknowledged message again.
Crash(w) ==
  /\ worker[w].phase # "idle"
  /\ redelivered[worker[w].upload] < MaxRedeliveries
  /\ redelivered' = [redelivered EXCEPT ![worker[w].upload] = @ + 1]
  /\ message' = [message EXCEPT ![worker[w].upload] = "queued"]
  /\ worker' = [worker EXCEPT ![w] = Idle]
  /\ UNCHANGED <<raw, processed, versions, parquet, dataset, journal>>

\* The task returned or raised.  Either way the message is acknowledged:
\* process_upload never calls retry() and acks_on_failure is Celery's default.
Acknowledge(w) ==
  /\ message' = [message EXCEPT ![worker[w].upload] = "acked"]
  /\ worker' = [worker EXCEPT ![w] = Idle]

-----------------------------------------------------------------------------
(* process_upload and IngestService.run *)

AlreadyProcessed(u) == u \in processed

\* Mutant: acknowledged before the task runs.
Start_Acknowledged(w, u) ==
  /\ worker[w].phase = "idle"
  /\ message[u] = "queued"
  /\ ~AlreadyProcessed(u)
  /\ message' = [message EXCEPT ![u] = "acked"]
  /\ worker' = [worker EXCEPT ![w] = Delivery(u)]
  /\ UNCHANGED <<raw, redelivered, processed, versions, parquet, dataset,
                 journal>>

Start(w, u) ==
  /\ worker[w].phase = "idle"
  /\ message[u] = "queued"
  /\ ~AlreadyProcessed(u)
  /\ message' = [message EXCEPT ![u] = "unacked"]
  /\ worker' = [worker EXCEPT ![w] = Delivery(u)]
  /\ UNCHANGED <<raw, redelivered, processed, versions, parquet, dataset,
                 journal>>

Skip(w, u) ==
  /\ worker[w].phase = "idle"
  /\ message[u] = "queued"
  /\ AlreadyProcessed(u)
  /\ message' = [message EXCEPT ![u] = "acked"]
  /\ UNCHANGED <<raw, redelivered, processed, versions, parquet, dataset,
                 journal, worker>>

\* The file is read and inferred, the dataset row loaded and the latest
\* version compared with the file.
CheckDrift(w) ==
  LET content == raw[worker[w].upload] IN
    /\ worker[w].phase = "started"
    /\ ~Drifts(content)
    /\ worker' = [worker EXCEPT ![w] = [phase |-> "checked",
                                        upload |-> worker[w].upload,
                                        loaded |-> dataset]]
    /\ UNCHANGED <<raw, message, redelivered, processed, versions, parquet,
                   dataset, journal>>

\* The dataset is marked pending_refresh, SchemaDriftDetected is published,
\* and both are flushed; then SchemaDriftDetected is raised inside the session,
\* which rolls both back, and out of the task.
PauseOnDrift(w) ==
  /\ worker[w].phase = "started"
  /\ Drifts(raw[worker[w].upload])
  /\ Acknowledge(w)
  /\ UNCHANGED <<raw, redelivered, processed, versions, parquet, dataset,
                 journal>>

\* next_version_number, a statement of its own.
NumberVersion(w) ==
  /\ worker[w].phase = "checked"
  /\ worker' = [worker EXCEPT ![w] = [phase |-> "numbered",
                                      upload |-> worker[w].upload,
                                      loaded |-> worker[w].loaded,
                                      number |-> NextVersion]]
  /\ UNCHANGED <<raw, message, redelivered, processed, versions, parquet,
                 dataset, journal>>

\* Mutant: the key is built from the version being replaced.
ParquetKey_Latest(w) == LatestNumber

ParquetKey(w) == worker[w].number

\* Mutant: an object already at the key is kept.
StoreParquet_Keeps(w) ==
  /\ worker[w].phase = "numbered"
  /\ parquet' = [k \in DOMAIN parquet \union {ParquetKey(w)} |->
                   IF k \in DOMAIN parquet THEN parquet[k] ELSE worker[w].upload]
  /\ worker' = [worker EXCEPT ![w].phase = "stored"]
  /\ UNCHANGED <<raw, message, redelivered, processed, versions, dataset,
                 journal>>

\* Storage is not part of the transaction: the object is there at once, and
\* stays when the transaction does not commit.
StoreParquet(w) ==
  /\ worker[w].phase = "numbered"
  /\ parquet' = [k \in DOMAIN parquet \union {ParquetKey(w)} |->
                   IF k = ParquetKey(w) THEN worker[w].upload ELSE parquet[k]]
  /\ worker' = [worker EXCEPT ![w].phase = "stored"]
  /\ UNCHANGED <<raw, message, redelivered, processed, versions, dataset,
                 journal>>

\* The version row, the dataset columns and DatasetIngested, committed together.
CommitVersion(w) ==
  LET u == worker[w].upload IN
    /\ worker[w].phase = "stored"
    /\ NumberFree(worker[w].number)
    /\ versions' = versions \union {[number |-> worker[w].number, upload |-> u,
                                     schema |-> raw[u].schema,
                                     rows |-> raw[u].rows]}
    /\ dataset' = Applied(worker[w].loaded, raw[u])
    /\ journal' = journal \union {[type |-> "DatasetIngested", upload |-> u]}
    /\ worker' = [worker EXCEPT ![w] = [phase |-> "committed", upload |-> u]]
    /\ UNCHANGED <<raw, message, redelivered, processed, parquet>>

\* cache_set of the idempotency key, for longer than any redelivery takes.
MarkProcessed(w) ==
  /\ worker[w].phase = "committed"
  /\ processed' = processed \union {worker[w].upload}
  /\ worker' = [worker EXCEPT ![w].phase = "marked"]
  /\ UNCHANGED <<raw, message, redelivered, versions, parquet, dataset, journal>>

Finish(w) ==
  /\ worker[w].phase = "marked"
  /\ Acknowledge(w)
  /\ UNCHANGED <<raw, redelivered, processed, versions, parquet, dataset,
                 journal>>

\* Storage, the scanner, the parser, the database (the unique constraint
\* included) or Valkey raises; what the transaction wrote is rolled back.
Fail(w) ==
  /\ worker[w].phase \notin {"idle", "marked"}
  /\ Acknowledge(w)
  /\ UNCHANGED <<raw, redelivered, processed, versions, parquet, dataset,
                 journal>>

-----------------------------------------------------------------------------
(* The specification *)

Step(w) ==
  \/ CheckDrift(w)
  \/ PauseOnDrift(w)
  \/ NumberVersion(w)
  \/ StoreParquet(w)
  \/ CommitVersion(w)
  \/ MarkProcessed(w)
  \/ Finish(w)
  \/ Fail(w)

Receive(u) == \E w \in Workers : Start(w, u) \/ Skip(w, u)

Next ==
  \/ \E u \in Uploads : Receive(u)
  \/ \E u \in Uploads, c \in Contents : Upload(u, c)
  \/ \E w \in Workers : Step(w) \/ Crash(w)

Spec == Init /\ [][Next]_vars

\* A worker that is not lost runs its task to the end, and workers keep taking
\* messages.  Uploads, failures and losses are not fair.
FairSpec ==
  /\ Spec
  /\ \A w \in Workers : WF_vars(Step(w))
  /\ \A u \in Uploads : WF_vars(Receive(u))
=============================================================================
