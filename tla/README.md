# Formal models of OpenCivic

TLA+ modules for the parts of OpenCivic where several actors write the same
rows, objects, cache entries and messages, from the maker-checker workflow and
the upload pipeline to sessions, rate limits, background jobs and paging
clients. TLC checks each on small instances; TLAPS proves, for all values of the constants,
the safety properties and refinements that the passing runs check, all but
`NoEarlyRelease`, those of one handler or ingest at a time under a
premise that says so. Paths below are relative to `src/`; `SPEC` is `OPENCIVIC_PLATFORM_SPEC.md` and `app/` is `backend/app/`.

## The system

OpenCivic is a multi-tenant open-data portal: a FastAPI application, Celery
workers with a beat scheduler, Postgres (one writer, a lagging read replica,
READ COMMITTED, row-level security by tenant), Valkey (cache, broker and
short-lived records), an S3 object store, Keycloak, Qdrant, APISIX, tusd and a
Next.js frontend.

| Component | State | Operations | Interacts with |
|---|---|---|---|
| Governance workflow (`app/services/governance`, `endpoints/datasets.py`, `endpoints/workflow.py`) | `datasets.status`, `embargo_until`, `workflow_submissions`, events | create, edit, submit, review, approve, schedule, archive; beat jobs for embargoes and SLA | event store, webhooks, search index, ingest (`row_count`) |
| Upload ingest (`app/services/ingest`, `process_upload`) | raw and Parquet objects, `dataset_versions`, columns of `datasets`, idempotency keys in Valkey, broker messages | upload, deliver, drift check, number, store, commit, mark, acknowledge | object store, broker, event store |
| Ways in (`datasets.py`, `internal.py`, `tus_upload_service.py`, `chunked_upload_service.py`) | raw objects, tus sessions, the session record with an hour's TTL, chunk objects | upload, create session, hook, store chunk, complete | object store, ingest queue |
| Connector syncs (`app/services/connectors`, three tasks) | `connectors` row: `failure_count`, `circuit_state`, `next_sync_at`; queue | trigger, sync now, test, pull, ingest, mark, probe | seven plugins and their sources, ingest; each other, in the probe's transaction and behind the trigger's limit |
| Webhooks, search index, e-mail, in-app notifications | webhook rows, Qdrant points, idempotency keys, a trimmed list per user in Valkey | emit, deliver, index, send, push, mark read | governance events, SLA job |
| Sessions and identity (`services/auth`, `core/security.py`) | refresh tokens and families, Keycloak session index, cached signing keys | log in, rotate, log out, validate, deprovision | Keycloak, Valkey |
| API keys, gateway, rate limits | `api_keys`, identities cached for five minutes, counters per window | resolve, revoke, count | Valkey, APISIX |
| SCIM | user rows, their keys and sessions | create, patch, deprovision | Valkey, Keycloak |
| Tenant provisioning | tenant, licence and plan rows, storage prefix, idempotency key | provision, redeliver | Postgres, object store, Valkey |
| Staleness, quality, usage | `staleness_label`, `quality_score`, usage events and their hourly rows | check, decay, record, roll up | ingest, beat |
| Reading: catalogue, search, data pages, chat | cursors and offsets in the hands of the client; what an answer has read so far | list, search, page, ask | Postgres, Qdrant, Parquet files, the language model |
| Lineage, portal, users, administration, frontend | rows written by single statements | | |

What is hard about it:

- **Sessions overlap.** A handler reads its rows with a plain SELECT, decides,
  and then updates by primary key with no condition on what it read. Nothing
  takes a lock or compares a version column.
- **Storage, Valkey and the broker are outside the transaction.** An object put,
  a cache entry set or a message enqueued before the commit stays when the
  commit does not happen; one made after it may be missing.
- **Lists in Valkey are read, changed and written** in separate commands:
  notifications, token families, the session index.
- **Delivery is at least once.** `task_acks_late` and
  `task_reject_on_worker_lost` bring a message back when its worker is lost,
  with some of its effects already done. tusd repeats its hooks, too.
- **Loaded rows age.** SQLAlchemy's identity map keeps the row of the first
  SELECT while the task talks to storage or to a source, and later writes are
  computed from it; cached identities, limits and signing keys outlive what they copy.
- **Beat jobs race with people**, with ingests and with the previous run of the
  same job; the loop over tenants stops at the first that raises, and what one
  transaction does for several rows is undone for all.
- **A client's walk is many requests**, and rows, versions and statuses change between them.

## Modules

| Module | What it is |
|---|---|
| `DatasetLifecycle` | Abstract specification: the status an observer sees on each dataset |
| `GovernanceWorkflow`, `GovernanceProperties`, `GovernanceProofs` | The workflow: tables, event store, overlapping sessions, clock, beat jobs; its properties and refinement mapping; proofs for every interleaving, and for behaviours in which no two handlers are at one dataset |
| `VersionLog`, `UploadQueue` | Abstract specifications: the versions of a dataset as its readers see them; an accepted upload as the doors and the pipeline behind them see it |
| `Ingest`, `IngestProperties`, `IngestProofs` | The upload pipeline of one dataset, its two refinement mappings, proofs |
| `CircuitBreaker` | Abstract specification: a breaker that opens at a run of failures |
| `ConnectorSync`, `ConnectorProperties`, `ConnectorProofs` | Schedule and circuit breaker of one connector among others, the refinement, proofs |
| `SourcePlugins` | What test, schema and pull of each plugin do in turn, and where a test turns an exception into an answer |
| `UploadDoors` | The two doors of `process_upload`: the endpoint and tusd's hook |
| `ChunkedUpload`, `ChunkedProperties` | One resumable upload session |
| `EventDelivery`, `EventProperties` | From a workflow event to webhooks and the search index |
| `Inbox`, `InboxProperties` | The SLA job and the list of notifications |
| `EmailTask`, `MessagingProofs` | `send_email` for one idempotency key; proofs of the three |
| `RefreshSessions` | Refresh tokens and their families in Valkey |
| `KeycloakSessions`, `RefreshProofs` | Sign-in over OIDC and the index of Keycloak sessions; proofs of both |
| `SigningKeys`, `ApiKeys`, `RateLimit`, `ScimUsers`, `AccessProofs` | The key cache of the token validator; one API key's row and cached identity; the counter of one identity; users under SCIM; their proofs |
| `TenantOnce`, `TenantProvisioning` | Abstract specification of provisioning, `provision_tenant` step by step |
| `Freshness`, `UsageRollup`, `DoorsProofs` | Labels and scores against ingests; the hourly roll-up; proofs of `UsageRollup`, `UploadDoors`, `TenantProvisioning` and `SourcePlugins` |
| `Catalogue`, `DataPages`, `Answers`, `ClientProofs` | Walks of list and search, pages of one file, questions to the chat; proofs of all three and of `ChunkedUpload` |
| `MCGovernance`, `MCIngest`, `MCBackground`, `MCServices` | Instances for TLC |

Datasets share no row, key or object in the pipeline, users none in sessions and
notifications, and identities no counter, so the modules have one of each.
Connectors do share something; the others appear as `neighbours` in `ConnectorSync`.

`MCBackground` and `MCServices` put several modules that share no variable into one
run: `part` is the one that moves, and the others stay in an initial state.
The reachable states are those of the parts side by side and not their
product; a property of one part holds in the run exactly when it holds of the part
alone.

Operators named `X_Something` stand beside an operator `X` and state a
plausible slip in that piece of code; each property is confirmed to fail under
at least one of them. No specification uses them.

### GovernanceWorkflow

`dataset` and `submission` are the two tables with the columns the workflow
reads, `journal` is the status that the latest event of each dataset tells,
`txn` what each open session has decided to write, `now` the clock in UTC.

A handler is two steps. `BeginReview`, `BeginApprove`, `BeginSubmit`,
`BeginArchive`, `BeginEdit`, `BeginSchedule`, `BeginRelease` and `BeginFlag` evaluate
the handler's guards, in the code's terms (role, row found, maker, transition
table), on the committed rows. The `Commit...` actions apply the UPDATEs to
whatever the rows are by then, together with the event, and `Rollback` stands for any
exception before the commit. One step for all writes of a transaction is enough
because each writer except the SLA job holds the dataset's row lock from its
first UPDATE of that row to its commit, and the SLA job writes one column that
no other handler reads. `CreateDataset` and `IngestData` are single steps: they
read nothing another handler changes. The three CHECK constraints of
migration 008 are `ChecksHold`; a commit they refuse can only roll back.

Three details of the code that are kept: `check_embargo_releases` writes the
status and emits no event, so `CommitRelease` leaves `journal` alone; it compares
the clock with the stored datetime whose offset is replaced, not converted
(`ComparedInstant` beside `Instant`); and the event of a metadata edit tells the status
the handler loaded, so `CommitEdit` puts that into `journal`, whatever the row says by
then.

### Ingest

A worker goes through the phases `started`, `checked`, `numbered`, `stored`,
`committed`, `marked`: one per statement of `IngestService.run` or effect outside
the database that another worker can observe. `CheckDrift` also remembers the
dataset row it loaded, because `apply_ingest_result` writes only the columns
that differ from it (`Applied`). `StoreParquet` takes effect at once and
survives; `CommitVersion` is the transaction, guarded by the unique constraint
(`NumberFree`); `MarkProcessed` is the `cache_set` after it. `Crash` loses the
worker at any point and requeues the message; `Fail` is any exception, after
which the code acknowledges the message without a retry. A file is its schema
and its number of rows, which is all that drift detection and the dataset row
tell apart. The idempotency key's lifetime (24 hours) is taken to be longer
than any redelivery.

### ConnectorSync

`connector` holds the columns of the breaker and whether `next_sync_at` has
passed, `worker` the task each worker runs with the row it loaded, `remote` what the
external system does: serve, send what is refused, fail the test, make it raise. Each
of `TestFails`, `NothingToPull`, `SyncRaises`, `MarkSuccess` and `CommitProbe` is one way a task
ends. The failure count stops at the threshold: the code compares it with
nothing higher. The nested ingest commits in its own session and is one step.

Of the other connectors `neighbours` has the two things that reach this one.
`get_due_syncs` takes the 50 that have been due longest (`ahead`: there are 50
of them), and a connector whose pull raises stays where it is in that order.
`attempt_circuit_reset` probes all open circuits of a tenant in one transaction, and
the tenants in one loop, so a sibling whose configuration or plugin raises undoes a
circuit already closed (`raises`, `ProbeRaises`); until that transaction ends it holds the
row's lock (`RowIsFree`). Both change freely.

### ChunkedUpload

A request loads the record, calls storage, and writes the record back as it
loaded it (`BeginChunk`, `PutChunk`, `SaveChunk`). `complete_session` reads the
chunks one by one, so a chunk may be replaced while it reads, and compares the length
of the whole only: `excess` adds up what chunks are too short or too long, and two
that cancel out pass, as do other bytes of the right length.
`Expire` is the TTL; `SaveChunk` brings an expired record back, as `cache_set` does.

### UploadDoors, SourcePlugins

`UploadDoors` follows a file from the endpoint or from tusd to a handled
message. `accepted` is what some caller was told is queued. A hook looks for the
object, copies it and enqueues in separate steps, may break off between them, and
is sent again, also while the first is at work. What the validation and the scan
find is a property of the file (`Samples`); the declared MIME type, which the endpoint
also checks, is left out.

`SourcePlugins` writes each plugin's methods as a sequence of named steps
(driver, configuration, open, probe, table, close...) and, for the tests, the
place from which a `try` covers them. The source comes and goes between any two.

### EventDelivery, Inbox, EmailTask

`EventDelivery` has one dataset and its submission. `Emit` stands for
`_emit_event` inside an open transaction: it puts one message per matching
webhook, and the indexing message of a publication, into the queue at once;
`Commit` and `Rollback` follow, in any order with the workers. A delivery loads the
webhook through the read engine (`replica` has the webhooks that have arrived
there), posts, and records the outcome on the row as it is by then (`Counted`). An
exception of the look-up or of decrypting the secret ends the task before its POST
(`LookupRaises`, `RaiseInTask`); Celery acknowledges it, and nothing retries.
`RowSecurity` says whether the database role is bound by the policies of
migration 014: a lookup without the tenant set then finds nothing, and a DELETE
that has no policy removes nothing.

In `Inbox` a push is LPUSH and LTRIM, and `mark_read` reads, deletes and writes the list
in steps of its own. `EmailTask` has the check of the key, the sending and the
marking apart, with workers lost in between and exceptions after the server took the mail:
an error at QUIT, which `send_sync` reports as not sent, or a `cache_set` that raises
(`FaultAfterMail`).

### RefreshSessions, KeycloakSessions, SigningKeys

One Valkey command is one action, because two requests can interleave there; a request
may break off after any of them and a key may expire. In `RefreshSessions` the
variable `retired` collects tokens that were rotated away, revoked or have
expired, and `tangled` notes that two requests of one user were at the list of families at
once; in `KeycloakSessions` `overlapping` does so for the session index. Keycloak is
external: it accepts a code once and ends a session at a logout with any of its
tokens. In `SigningKeys` the cache is per process and tasks switch only while
one waits for Keycloak's answer or for its HTTP client to close: `Arrive` writes the
cache, `Reread` searches what the cache holds after that, and `crossed` has the requests whose
entry another one replaced or removed in between.

### ApiKeys, RateLimit, ScimUsers

`ApiKeys` has the revocation by the endpoint in its three steps - UPDATE, deletion of the
cached identity, commit - and the one by SCIM, which leaves the cache alone. In
`RateLimit` two layers both raise the counter of a window, each under the limit it finds
in the cache; the clock is explicit, EXPIRE follows the first INCR as a command of
its own, and the counter lapses at its time whoever is still to count. `late` has the
windows in which a request counted longer after naming it than a counter outlives
its window (10 s). `ScimUsers` goes by the user's list of families in Valkey, from
which entries may be missing (`ForgetEntry`), and lets a rotation in flight put a family
back in force (`FinishRotation`, `revived`); it keeps, per deprovisioning on record
(`suspensions`), the keys the user held when it began and the families it found on the list.

### TenantProvisioning, Freshness, UsageRollup

Each request of `TenantProvisioning` is one transaction, step by step; an insert
waits for an open transaction with the same key, and `rows`, `licensed` and
`plans` change at the commit. `Freshness` has a check, a decay and an ingest, each with
the row it loaded; `UsageRollup` counts in half hours so that the job's cutoff can
fall inside an hour, and `cut` and `unread` name the hours the code does not promise to count.

### Catalogue, DataPages, Answers

A walk is a cursor and what it has shown; a page is any list of the rows asked for that
obeys the ORDER BY (`Pages`), for the database may return rows that tie in it
in any order. Rows are created, published (several at
one instant, at the end of an embargo) and archived between pages. `DataPages` has an
offset and the versions the pages named; an ingest that loses the race for a number has by
then replaced the winner's file (`ReplaceFile`). In `Answers` a question reads the
dataset row, the latest version's number and its file in three statements, and `mixed`
notes that an ingest committed among them or had left an older count behind; `SafeComplete`
stands for the layers around a completion, and the model's reply is external.

## Runs

Passing runs; the instance is in the configuration file of the same name.

| Run | Instance | What it shows |
|---|---|---|
| `GovernanceSerial` | 1 session, 2 datasets (standard, high-sensitivity), 3 submissions, 3 people, 1 edit each, no embargo | Submissions and datasets stay in step (`OneOpenSubmission`), metadata under review is frozen (`ReviewedMetadataFrozen`), and the statuses implement `DatasetLifecycle`, as long as handlers do not overlap |
| `GovernanceConcurrent` | 2 sessions, 1 high-sensitivity dataset, 2 submissions, 2 edits, one embargo | In every interleaving a `DatasetPublished` event is backed by a signature of the role the variant requires last (`PublicationSigned`), and the event store is out of date only after a release or an overtaken edit (`JournalLag`) |
| `GovernanceEmbargo` | 1 session, time 0..2, fairness | The embargo job is never early for a UTC embargo and every scheduled dataset leaves that status; an overdue submission is flagged or decided at either gate |
| `IngestSerial` | 1 worker lost up to twice per message, 2 files, 2 schemas, 2 sizes, fairness | The pipeline implements `VersionLog`: one schema across versions, versions and their objects do not change, the dataset row shows the latest; every queued upload is settled |
| `IngestConcurrent` | 2 workers, 3 files, one loss per message | Numbers are contiguous and unique, every version has its object; the broker and the workers implement `UploadQueue` |
| `Background`, events | 1 webhook, 2 events, 1 test call, 1 loss, fairness | `failure_count` is the current streak of failures; what is indexed was published; a queued delivery is tried: posted, or ended by an exception |
| `Background`, syncs | 2 workers, threshold 2, queue of 1, one loss, neighbours that come and go, fairness | Although tasks write from the row they loaded, an open circuit closes and a due connector is synced once the source answers and the neighbours let it; the breaker opens at the failure that completes a run, and only an answer ends one |
| `Background`, scores | period 1, scores 0..4, fairness | An abandoned dataset ends stale with score zero |
| `Services`, messages | 2 overdue submissions, a list of 2, 2 requests; 2 mail workers, 3 messages, 2 losses, 1 fault | A breach on record was announced; the list keeps what was pushed as long as no write overlaps its rewriting; each further mail takes a worker, a loss or a fault |
| `Services`, access | 2 callers, 2 families, 3 tokens; 2 sign-ins; 2 rotations of keys; 2 layers, windows of 2 with a TTL of 3, 3 requests; 1 SCIM user with a key and a session, 2 requests | A retired token is never accepted; a family that was ended stays ended, and the session index covers what Keycloak has, as long as lists are not rewritten at once; a token is refused for a listed key only if the cache entry was touched before it was read again; a window admits no more than the limit unless a request counts late; a deprovisioning takes the keys, and the sessions on the list |
| `Services`, jobs and doors | 2 recorders, 6 half hours; 2 provisioning requests, 2 redeliveries; 1 file of 5 kinds, 2 servers, 2 consumers, 3 hooks; 3 flips of the source | The roll-up counts each event once; provisioning implements `TenantOnce`; the doors implement `UploadQueue`, so what a door accepted stays queued until it is handled; an outage during a test is an answer, and nothing leaves a connection open |
| `Services`, clients | 3 datasets one per page; up to 5 rows in 3 versions, 2 per page; 3 ingests, threshold 70; 2 chunks, 2 requests, 2 completions | A walk sees every dataset that stayed, once; pages of one version are that version unless its file was replaced; an answer is of the version it cites unless an ingest came between; the mark of a resumable upload names a stored chunk, and without overlap it covers every acknowledged one |

Runs in which TLC finds the counterexample to something the repository says:

| Run | Claim | What the code does |
|---|---|---|
| `GovernanceTwoStewards` | SPEC:1000 "permanently rejected" | A review that read `pending_review` overwrites a rejection committed meanwhile |
| `GovernanceOneGate` | SPEC:991 "Maker → steward → senior approver → published. Three different humans." | `approve` accepts a high-sensitivity submission in `pending_review`: a maker and an approver are enough |
| `IngestOverwritten` | `tenant.py:95` "Immutable published snapshot of a dataset." | Two overlapping ingests compute one number; the loser replaces the winner's Parquet object before its INSERT is refused |
| `ApiKeyRevocation` | `api_keys.py:62` "Revoke an API key immediately." | The cached identity is deleted before the commit; a lookup in between reads the old row and caches it again, for up to five minutes |
| `RowSecurity` | `tasks.py:253` "Deliver webhook", SPEC:1443 "No exceptions for background workers" | `deliver_webhook` looks its webhook up without a tenant set; bound by row-level security (`docker-compose.dev.yml`, CI) it finds nothing and ends with `not_found`. Under the role of `docker-compose.prod.yml`, which sees every row, the delivery is tried: that is the instance of `Background`, and `MessagingProofs!SettledWhenTried` proves it |

### Seen while modelling

Behaviour that is in the models, without a run of its own.

- *Governance.* A steward role that is also the maker's can publish alone through the
  schedule (SPEC:983); an embargo west of UTC ends early by its offset, one east of it late
  (SPEC:1009); a scheduled dataset can be published before its embargo by approving the
  submission that scheduling left open, and an archived one can come back the
  same way; a metadata edit that read a draft can land after the submission,
  and its event then says `draft` of a dataset under review (`datasets.py:261-269`); two overlapping
  submits of one draft leave two open submissions; the release emits no event
  (SPEC:298), so nothing is indexed or announced.
- *Ingest.* Two first ingests of different schemas can both pass the drift check; an ingest whose row count equals the
  one it loaded leaves another's count in place; the `SchemaDriftDetected`
  event is rolled back by the exception that carries its name (`ingest_service.py:82`); a worker lost
  between commit and key ingests twice (SPEC:291, `tasks.py:73`); failures are neither
  retried nor dead-lettered (`tasks.py:5`, SPEC:292), a scanner that is down included.
- *Ways in.* A repeated hook, or a second completion of a chunked session, enqueues the
  file twice under different objects or the same one, and two messages in flight may both be ingested; a
  hook without metadata is answered with success and nothing is ingested; the
  tus door checks neither size nor type; overlapping chunk requests lose marks.
- *Connectors.* Overlapping failed syncs count once, and failures are counted in a row and not
  within 60 seconds (SPEC:290); one connector that raises keeps the circuits of its
  tenant, and of the tenants after it, from closing (`tasks.py:173`), and 50 whose pull raises
  starve the rest (`connector_repository.py:79`); a pull that breaks off after a
  good test is not counted; a due connector is enqueued each minute until a sync
  is done, and a slow one runs twice; Oracle's test, and those of MySQL, SQL Server, Oracle and SQLite without
  their driver, raise instead of answering; S3 reads only the first key; a JSON body
  without a list syncs zero rows as a success. `schemas/connector.py` admits only `rest_api`.
- *Events.* Webhooks and indexing are enqueued before the commit, so a rollback
  leaves a delivery of what never was, and a quick worker skips what is about to be
  published; `deliver_webhook` never retries, whatever its docstring says (`tasks.py:253`), and a lagging
  replica settles the message; under a bound role DELETE of a webhook answers
  "deleted" and deletes nothing; marking a notification read reverses the order of the list
  (`in_app_service.py:56`, `:102`) and loses what is pushed meanwhile; a lost worker, an
  error at QUIT or a key that cannot be set has an e-mail sent twice.
- *Access.* The TTL of a user's list of families is set by logins, not by
  rotations (`refresh_service.py:44`); Keycloak's revocation is best effort while the index is dropped;
  gateway and middleware both count a request, and the middleware ignores the
  key's own limit (`rate_limit_middleware.py:55`); SCIM's revocation leaves the cached identity
  of a key for its five minutes (`scim_service.py:117`; `scim.py:97` "Suspend a user immediately"); a deprovisioning
  misses families that are not on the list, and a rotation in flight brings one back; a
  validation whose cache entry another one removes while its HTTP client closes ends in a
  `KeyError` (`security.py:194-196`); overlapping SCIM creations make two rows of one
  address; keys committed during a suspension survive it.
- *Reading.* Sorting by title, score or ascending dates, and any unknown sort,
  uses a cursor that does not match the order, so walks skip or repeat; staff
  lists drafts by `published_at`; the search total shrinks with the
  cursor; an ingest between the reads of a question mixes versions in its answer; a refusal ends the
  request at the narration but not at the query; the confidence is 1.0 whatever the provider says.
- *Jobs.* A decay computed from a score loaded before an ingest commits
  overwrites the new score (`dataset_repository.py:225`); the roll-up's unaligned
  cutoff overwrites its oldest hour with a part of it (`usage_event_repository.py:140`);
  a redelivered provisioning ends in `SlugConflict`; a refused one leaves its storage marker and limit behind.
- *Lineage* (not modelled). `upsert_node` is never given an id, so every recording makes a
  new dataset node and the graph of a dataset is that of one recording
  (`lineage_repository.py:22-99`).

### Bounds, and why they suffice

- *Two sessions, workers, callers or requests.* Every write is computed from what
  one handler read once, so an anomaly needs one reader and one writer in
  between. `IngestConcurrent` adds a third file so that a number is also taken over
  after a lost race; in `Services` there are as many refresh tokens as one family needs to
  rotate twice, or two families to be opened and one rotated.
- *Two or three submissions, one or two datasets.* A second submission of the same
  dataset exists after changes were requested; in `GovernanceSerial` the third lets both
  datasets have one at the same time. The concurrent run has the high-sensitivity
  dataset, whose gates include those of the standard one; what two datasets share
  is a release job's transaction, and the proofs are for any number of them.
- *Three people* cover the three roles; the administrator is publisher, steward
  and approver at once, which is the case the checks of maker, checker and approver are about.
  Two edits let the event of one that was overtaken follow another's (`JournalLag`).
- *Time* runs past the embargo, a review deadline, a cache entry's lifetime, two
  hours of the roll-up. `MaxTime`, `MaxTick` and `MaxClock` only stop the clock.
- *Counters.* Threshold 2 is the least with a failure that does not open the circuit.
  A plan limit of 2 over a default of 1 gives a counter that stands
  below, at and above a limit that changes under it; a window of two steps with a life of three
  has a request that counts in time and one that counts late. A decay step of 3 in scores 0..4
  reaches zero by subtraction and by the floor. `MaxRevision`, `MaxSyncs`, `MaxLosses`,
  `MaxSyncLosses`, `MaxMailFaults`, `MaxRedelivery`, `MaxHooks` and `MaxFlips` bound how often
  something is repeated. The sources and siblings of a connector change without bound.
- *Pages.* Three datasets and a page of one have a first, a middle and a last
  page; five rows in pages of two have a short last one, four a full one.
- *Two chunks* have one that is the last and one that is not, and lengths that cancel out;
  *two completions* a repeated one.

Deadlock is not checked: the bounded instances end, when all ids are used and the
clock stands, or every upload is settled. The connector alone never stops.

Symmetry is used only in runs without liveness, over ids that no constant
definition singles out.

### Fairness

- `BeatFairness` (governance): time passes and open transactions end (weak). Beat starts the
  embargo job every minute and the SLA job every quarter of an hour (`celery_app.py`),
  competing with people for sessions, hence strong fairness on starting them; a
  job tried infinitely often does not fail every time, hence strong fairness on
  its commit. People are never assumed to act.
- `Ingest!FairSpec`: a worker that is not lost finishes (weak, and `Fail` counts as
  finishing); workers take queued messages (weak). Losses are bounded per message.
- `ConnFairness`: the beat trigger (weak, while this connector is among the 50 it takes); workers
  take syncs and probes again and again although each enables and disables the other,
  hence strong; a task that was taken goes on (weak), to whatever end the source, its
  siblings and the row's lock leave it. Nothing is assumed of the source, of the siblings or
  of administrators. `CircuitRecovers` and `DueIsSynced` name in their premises what they
  need of them: that from some point on the source answers, no sibling makes the common probe
  raise, and no 50 connectors have been due longer.
- `EventDelivery!FairSpec`: workers go on (weak on `WorkerStep`); one that is lost is
  replaced. Transactions need not end and the replica need not catch up.
- `FreshFairness`: beat starts check and decay on their schedules for ever (weak: the check can
  be started whenever none runs, the decay as long as the label stays stale), and
  neither fails every time (strong on the commits). Nothing makes an ingest happen.

## Proofs

The assumptions are the named ones on constants: roles are sets of users,
`None` is not a value, bounds are natural numbers, thresholds, limits and the number of
chunks are positive, ids are finite sets where they are counted. The sets
themselves may be of any size.

| Theorem | Statement | Argument |
|---|---|---|
| `GovernanceProofs!TypeCorrect` | `[]TypeOK` | Inductive together with `TxnRefersToRows`: a transaction writes to rows that exist, and rows are never deleted |
| `GovernanceProofs!JournalLagsOnPublication` | `[]JournalLag` | Every commit but the release records its event with the status it writes, and an edit, whose event may be out of date, tells an editable one |
| `GovernanceProofs!PublicationIsSigned` | `[]PublicationSigned` | Needs `PublishingReviews`: a review in flight that publishes is of a standard dataset. `approved` and the signatures only grow, so a signed submission stays signed whatever overwrites its status |
| `GovernanceProofs!LockedOneOpen` | `[]DatasetsLocked /\ []Unscheduled`: `[]OneOpenSubmission` | Needs `GuardsStillHold`: what an open transaction checked is still true when it commits, since only transactions of other datasets ran meanwhile. `OneOpenSubmission` alone is not inductive |
| `GovernanceProofs!LockedImplementsLifecycle` | the same: implements `DatasetLifecycle` | From the same invariant, every step of the workflow is a step of the table or a stutter, and every step of the table is one of the abstract actions |
| `GovernanceProofs!LockedMetadataFrozen` | the same: `ReviewedMetadataFrozen` | From `GuardsStillHold` on edits |
| `IngestProofs!TypeCorrect` | `[]TypeOK` | Inductive with "a message and a worker have a raw object" |
| `IngestProofs!NumbersAreContiguous`, `ObjectsAreStored` | `[]VersionsContiguous`, `[]VersionsStored` | `Numbering`: the numbers are an interval, one row each; a worker's number is at most one above the latest, and once stored its object is there. A worker behind is stopped by the constraint |
| `IngestProofs!ProcessedStaysFinal` | `ProcessedIsFinal` | `Delivered`: at most one worker holds an upload, only while its message is unacknowledged, and a processed upload is held only by the worker that marked it |
| `IngestProofs!AloneImplementsVersionLog` | `[]Alone`: implements `VersionLog` | `Serially` (what the one worker past its comparison loaded, compared and numbered is still so; one schema; the row shows the latest) and `StoredIsOwn`: the object at the number it holds is still the one it stored. The commit is then `Publish`, the upload `Accept`, and storing an object, which no row names yet, a stutter |
| `IngestProofs!PipelineImplementsQueue` | implements `UploadQueue`, in every interleaving | From `Delivered`: a worker's upload is unacknowledged until it lets go of it, so an upload is `Accept`, a commit `Make`, an acknowledgement `Settle`, and a lost worker a stutter |
| `ConnectorProofs!TypeCorrect` | `[]TypeOK` | Inductive |
| `ConnectorProofs!CircuitAgreesWithCount` | `[]CircuitMatchesCount` | `Breaker`: the row *and every row a task has loaded* agree; the second half is what makes stale writes harmless to the agreement |
| `ConnectorProofs!TrippingOnTime` | `TripsOnTime`, in every interleaving | From `Breaker`: a failed test that finds the columns its task loaded is `Miss`, or a stutter while the circuit is open; one that was overtaken counts on from its row; a success and a probe that gets through are `Answer`, which a task that has heard the source must have enabled |
| `ConnectorProofs!UnovertakenImplementsBreaker` | `[]Unovertaken`: implements `CircuitBreaker` | The same steps, of which the overtaken ones are then none |
| `ClientProofs!TypeCorrect` | `[]TypeOK` of `ChunkedUpload` | Inductive |
| `ClientProofs!MarkNeverAhead` | `[]MarkIsStored` | `MarksAreStored`: every mark in flight, too, names a stored chunk, and chunks are never deleted |
| `ClientProofs!AcknowledgedIsCounted` | `[]AckedIsCounted` | `Counting`: without overlap the one request in flight has loaded a mark that covers everything acknowledged |
| `ClientProofs!AnswersAreOfTheirVersion` | `[]AnswerIsOfItsVersion` | `InOrder`: the count, the number and the file of one request were read in this order and versions only grow, and all are of the latest version as long as nothing came between. The property alone says nothing of a request in progress |
| `ClientProofs!OneVersionReadWhole` | `[]OneVersionIsWhole` | `Paged`: as long as one version is named, what was read is its first rows up to the offset, unless its file was replaced |
| `ClientProofs!WalksAreComplete` | `[]WalkIsComplete` | `Walking`: rows in the store are stamped as their status has it, and `InStep`: what was shown is shown once and lies before the cursor, and a row that was there all along is shown or lies beyond it. That the key is a total order on the rows asked for (`KeyIsOrder`) and the cursor the key of the last row shown (`CursorIsKey`) is what the walk needs of the sort |
| `RefreshProofs!RetiredTokensStayDead` | `[]RetiredStaysDead` | `Tokenwise`: a token in the making belongs to one request and has never been in force, and a token in force is so in the family of its record; so nothing can put a retired one back |
| `RefreshProofs!EndedFamiliesStayEnded` | `[]EndedStaysEnded` | `Tidy`: a client's token in force is in a family on the list that has not ended, and a deprovisioning has nothing in force behind it; with `Opened`, no login is given a family that has ended |
| `RefreshProofs!IndexCovers` | `[]IndexCoversSessions` | `Covering`: the one request on the index holds the list as it is, and has asked for the end of what it takes off |
| `AccessProofs!ListedKeysAreFound` | `[]ListedKeyIsFound` | `Fetched`: a key that a set in hand lacks is no longer listed, for Keycloak lists no key a second time; and an entry that nobody else touched is the one the request wrote |
| `AccessProofs!WindowsHold` | `[]WindowHolds` | `Counted`: before the earliest time at which it may lapse, a counter has counted all that passed, each under a limit no higher than the highest; what is counted later is counted late |
| `AccessProofs!DeprovisioningIsWhole` | `[]DeprovisionIsWhole` | `Deprovisioning`: what a request still has to end, phase by phase, and that a revoked key is spent and never held again, a session that ended only by a rotation |
| `DoorsProofs!AcceptedStaysQueued` | `[]AcceptedIsQueued` | `Stored`: a request that is about to enqueue has its file in storage, and a message stays until it is handled |
| `DoorsProofs!ProvisioningImplementsTenancy` | implements `TenantOnce` | `Provisioned`: two open transactions never hold one slug, none holds a committed one, and each has the plans or brings them. A commit is then `Provision`, every other step a stutter |
| `DoorsProofs!DoorsImplementQueue` | implements `UploadQueue` | From `Stored` and `HandedIsStored` (what has a message has its file): an enqueue is `Accept`, an acknowledgement `Settle`, and a message that passes between the broker and a worker stays pending |
| `DoorsProofs!OutagesAreContained` | `[]OutageIsContained` | Each plugin's tables are `TidyPlugin`: whatever may be open when a step breaks off is closed after it, and every step of a test that talks to the source is under its `try`. `Plugged` carries that along a run, for any number of outages |
| `DoorsProofs!RollupsCount` | `[]RollupCounts` | `Counted`: what an open run counted of an hour is exact unless its cutoff is inside the hour or an event was stored since |
| `MessagingProofs!IndexedDatasetsWerePublished` | `[]IndexedWasPublished` | `Indexing`: a task past its read, and the point itself, rest on a status that was committed |
| `MessagingProofs!FailureCountsAreStreaks` | `[]FailureCountIsStreak` | `Recorded` with the property itself: the count is the streak at the end of the outcomes, `IsStreak`, and the UPDATE adds to what is stored, not to what the task loaded |
| `MessagingProofs!SettledWhenTried` | `RowSecurity = FALSE`: `SettledWasTried` | `Attempting`: a delivery with a result has posted, and every other way to settle one, but for a webhook that is gone, is an exception. What `RowSecurity` refutes for a bound role holds for one that sees every row |
| `MessagingProofs!BreachesAreAnnounced` | `[]BreachIsAnnounced` | `Announcing`: what the job has flagged, committed or not, it has pushed before |
| `MessagingProofs!InboxStaysIntact` | `[]InboxIntact` | `Intact`: before a rewriting the list is whole; during it the list is empty and what the request holds is whole, up to its order |
| `MessagingProofs!MailsArePerWorker` | `[]MailedPerWorker` | `Accounted`: mails, workers past the check, losses and faults add up |

Only model-checked: the liveness properties (`ScheduledIsReleased`,
`OverdueIsSettled`, `AcceptedIsSettled`, `CircuitRecovers`, `DueIsSynced`,
`QueuedIsTried`, `AbandonedDecays`), which the prover does not handle, and
`NoEarlyRelease`, which is of one session at a time.

Five theorems are of behaviours that satisfy a premise, and say of which ones:
`DatasetsLocked` (no two handlers are at work on one dataset), `Unscheduled` (nobody asks for an
embargo), `Alone` (no two workers are between their comparison and their commit),
`Unovertaken` (no task writes over columns that changed since it loaded them). Nothing in the
code sees to any of them: the deployed workers overlap, and the hazards in `PROJECT.json` say
what happens then. The premises name the lock that is missing. For one session, or one
worker, they hold, and those are the instances of the serial runs. The premises are of
behaviours, not of constants, so the theorems speak of any number of sessions and workers
that leave each other alone where it matters. Three of the claims that runs refute hold in part and are
proved that far: see `SettledWhenTried`, `AloneImplementsVersionLog`, and `PublicationIsSigned`
for the one signature that neither a missing gate nor overlapping reviews take away.

`UploadDoors` takes of `process_upload` only that a message ends in a version or in
nothing and comes back when its worker is lost. `UploadQueue` says so; that both
modules implement it is what allows to read them as one system without a run over their product.

`CircuitMatchesCount`, `ProcessedIsFinal`, `GuardsStillHold` and
the type invariants are defined beside the others and proved, or used in a
proof, and are in no configuration. Nor are `SchemasAgree`, `DatasetShowsLatest`
and `AcceptedIsQueued`: the runs check the refinements that say
as much, of `VersionLog` and `UploadQueue`. `ImplementsBreaker` holds under `Unovertaken`;
`TripsOnTime` is what holds without it.

## Not modelled

Lineage (a graph of rows inserted once, no protocol), the portal, feedback,
user and administration endpoints (one statement each), the frontend (a client), the
scaffold copy, deployment and scripts. Of modelled components: claims,
MFA and role mapping of tokens, scopes of keys, ranking, filters and OData, type mapping of
plugins, signing and templates of messages, parsing and inference of files beyond
a schema and a count - pure functions of their inputs - and reads that merge
several statements for a report, redelivery by the broker's visibility timeout while the first worker is alive, and the expiry of
idempotency keys. `PROJECT.json` lists every component with its status.

## Plan

Done: governance, ingest, connectors, resumable uploads, then events and their
consumers, identity and rate limits, provisioning and jobs, the doors of
the queue, the plugins, and the reading side. What is left, most useful first:

1. Row-level security for the other background lookups, as `EventDelivery` has it.
2. An abstract specification of a family of tokens that `RefreshSessions` and
   `KeycloakSessions` both implement while nothing is rewritten at once.
3. The ingest inside a sync (`ConnectorSync!SyncIngests`) as a step of `VersionLog`.
