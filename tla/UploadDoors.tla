---------------------------- MODULE UploadDoors ----------------------------
(***************************************************************************)
(* How a file gets to process_upload: through the upload endpoint, or       *)
(* through tusd, whose hook copies the finished file and enqueues the task. *)
(* A hook that gets no answer is sent again, also while the first is still  *)
(* at work (tusd is external).  What a version is made of is left to module *)
(* Ingest; here a message ends in a version or in nothing.                  *)
(***************************************************************************)
EXTENDS Naturals, FiniteSets

CONSTANTS
  Uploads,    \* files, each with a raw key of its own
  Samples,    \* what a file may be: its extension, what it holds, is it large
  Servers,    \* requests in flight at once
  Consumers,  \* Celery workers
  MaxHooks    \* times tusd sends the hook of an upload

ASSUME DoorsAssumption ==
  /\ MaxHooks \in Nat
  /\ Samples \subseteq [extension : STRING, holds : STRING, large : BOOLEAN]

VARIABLES
  file,      \* per upload, what it is, and where its client is with it
  hooks,     \* hooks tusd has sent
  objects,   \* uploads whose raw key is in object storage
  server,    \* per request, how far it is
  ready,     \* per upload, process_upload messages that are ready
  consumer,  \* per worker, the message it has
  done,      \* uploads whose idempotency key is set
  ingested,  \* per upload, the versions made of it
  accepted,  \* history: uploads somebody was told are queued
  handled    \* history: uploads a message of which has been acknowledged

doorVars == <<file, hooks, objects, server, ready, consumer, done, ingested,
              accepted, handled>>

NoFile == [at |-> "nowhere"]
Serving == [phase |-> "idle"]
Resting == [phase |-> "rest"]

DoorsInit ==
  /\ file = [u \in Uploads |-> NoFile]
  /\ hooks = [u \in Uploads |-> 0]
  /\ objects = {}
  /\ server = [s \in Servers |-> Serving]
  /\ ready = [u \in Uploads |-> 0]
  /\ consumer = [w \in Consumers |-> Resting]
  /\ done = {}
  /\ ingested = [u \in Uploads |-> 0]
  /\ accepted = {} /\ handled = {}

brokerVars == <<ready, consumer, done, ingested, handled>>

Serves(s, from, to) ==
  /\ server[s].phase = from
  /\ server' = [server EXCEPT ![s] = to]

Enqueue(u) ==
  /\ ready' = [ready EXCEPT ![u] = @ + 1]
  /\ accepted' = accepted \union {u}

-----------------------------------------------------------------------------
(* The upload endpoint *)

\* extension_from_filename, with ALLOWED_UPLOAD_EXTENSIONS as shipped.
AllowedExtension(sample) ==
  sample.extension \in {"csv", "tsv", "json", "jsonl", "xls", "xlsx", "parquet", "pdf"}

\* validate_upload_file.
Valid(sample) == AllowedExtension(sample) /\ ~sample.large

\* The file is read and validated; its key is new.
BeginUpload(s, u, sample) ==
  /\ file[u] = NoFile /\ Valid(sample)
  /\ Serves(s, "idle", [phase |-> "put", u |-> u])
  /\ file' = [file EXCEPT ![u] = [at |-> "api", is |-> sample]]
  /\ UNCHANGED <<hooks, objects, brokerVars, accepted>>

StoreUpload(s) ==
  /\ Serves(s, "put", [phase |-> "delay", u |-> server[s].u])
  /\ objects' = objects \union {server[s].u}
  /\ UNCHANGED <<file, hooks, brokerVars, accepted>>

EnqueueUpload(s) ==
  /\ Serves(s, "delay", Serving)
  /\ Enqueue(server[s].u)
  /\ UNCHANGED <<file, hooks, objects, consumer, done, ingested, handled>>

\* An exception or a lost process, in a request of either kind.
DropRequest(s) ==
  /\ server[s] # Serving
  /\ server' = [server EXCEPT ![s] = Serving]
  /\ UNCHANGED <<file, hooks, objects, brokerVars, accepted>>

-----------------------------------------------------------------------------
(* create_tus_upload_session and tus_upload_hook *)

\* Only the name is checked here, the size and the rest by nobody.
CreateTusSession(u, sample) ==
  /\ file[u] = NoFile /\ AllowedExtension(sample)
  /\ file' = [file EXCEPT ![u] = [at |-> "client", is |-> sample]]
  /\ UNCHANGED <<hooks, objects, server, brokerVars, accepted>>

\* The client may or may not have passed the session's metadata on to tusd.
FinishTus(u) ==
  /\ file[u].at = "client"
  /\ \E at \in {"tusd", "tusd, unnamed"} : file' = [file EXCEPT ![u].at = at]
  /\ UNCHANGED <<hooks, objects, server, brokerVars, accepted>>

\* Without metadata the hook is answered and nothing else happens.
BeginHook(s, u) ==
  /\ file[u].at \in {"tusd", "tusd, unnamed"}
  /\ server[s] = Serving /\ hooks[u] < MaxHooks
  /\ hooks' = [hooks EXCEPT ![u] = @ + 1]
  /\ server' = IF file[u].at = "tusd"
                 THEN [server EXCEPT ![s] = [phase |-> "look", u |-> u]]
                 ELSE server
  /\ UNCHANGED <<file, objects, brokerVars, accepted>>

\* storage.exists.
LookForObject(s) ==
  LET copied == server[s].u \notin objects IN
  /\ Serves(s, "look", [phase |-> IF copied THEN "copy" ELSE "queue",
                        u |-> server[s].u, copied |-> copied])
  /\ UNCHANGED <<file, hooks, objects, brokerVars, accepted>>

\* copy_upload_to_storage: from tusd, which keeps it, to the raw key.
CopyUpload(s) ==
  /\ Serves(s, "copy", [server[s] EXCEPT !.phase = "queue"])
  /\ objects' = objects \union {server[s].u}
  /\ UNCHANGED <<file, hooks, brokerVars, accepted>>

\* Mutant: the attempt that did not copy leaves the rest to the one that did.
AnswerHook_IfCopied(s) ==
  /\ Serves(s, "queue", Serving)
  /\ IF server[s].copied
       THEN Enqueue(server[s].u)
       ELSE accepted' = accepted \union {server[s].u} /\ UNCHANGED ready
  /\ UNCHANGED <<file, hooks, objects, consumer, done, ingested, handled>>

\* Whoever copied it, the task is enqueued under the key of the upload.
AnswerHook(s) ==
  /\ Serves(s, "queue", Serving)
  /\ Enqueue(server[s].u)
  /\ UNCHANGED <<file, hooks, objects, consumer, done, ingested, handled>>

-----------------------------------------------------------------------------
(* process_upload, as far as the doors depend on it *)

\* scan_bytes: "found" by ClamAV, or ClamAV gives no answer.
Scans(sample) == IF sample.holds = "virus" THEN {"found", "unavailable"}
                                           ELSE {"ok", "unavailable"}

\* infer_tabular_schema: columns, though there be no row - but a PDF must have
\* a table with rows in it.
Inferred(sample) ==
  \/ sample.holds = "rows"
  \/ sample.holds = "header" /\ sample.extension # "pdf"

Take(w, u) ==
  /\ consumer[w] = Resting /\ ready[u] > 0
  /\ ready' = [ready EXCEPT ![u] = @ - 1]
  /\ consumer' = [consumer EXCEPT ![w] = [phase |-> IF u \in done THEN "skip" ELSE "run",
                                          u |-> u]]
  /\ UNCHANGED <<file, hooks, objects, server, done, ingested, accepted, handled>>

Acknowledges(w, phase) ==
  /\ consumer[w].phase = phase
  /\ consumer' = [consumer EXCEPT ![w] = Resting]
  /\ handled' = handled \union {consumer[w].u}

Skip(w) ==
  /\ Acknowledges(w, "skip")
  /\ UNCHANGED <<file, hooks, objects, server, ready, done, ingested, accepted>>

\* A version, and the key after it.
Ingests(w) ==
  LET u == consumer[w].u IN
  /\ Acknowledges(w, "run")
  /\ u \in objects /\ "ok" \in Scans(file[u].is) /\ Inferred(file[u].is)
  /\ ingested' = [ingested EXCEPT ![u] = @ + 1]
  /\ done' = done \union {u}
  /\ UNCHANGED <<file, hooks, objects, server, ready, accepted>>

\* Any failure, an unreachable scanner included, ends the message.
GiveUp(w) ==
  /\ Acknowledges(w, "run")
  /\ UNCHANGED <<file, hooks, objects, server, ready, done, ingested, accepted>>

\* Mutant: the message is gone with the worker.
LoseConsumer_Forgets(w) ==
  /\ consumer[w] # Resting
  /\ consumer' = [consumer EXCEPT ![w] = Resting]
  /\ UNCHANGED <<file, hooks, objects, server, ready, done, ingested, accepted, handled>>

\* The broker has the message of a lost worker again.
LoseConsumer(w) ==
  /\ consumer[w] # Resting
  /\ ready' = [ready EXCEPT ![consumer[w].u] = @ + 1]
  /\ consumer' = [consumer EXCEPT ![w] = Resting]
  /\ UNCHANGED <<file, hooks, objects, server, done, ingested, accepted, handled>>

DoorsNext ==
  \/ \E s \in Servers :
       \/ \E u \in Uploads, sample \in Samples : BeginUpload(s, u, sample)
       \/ StoreUpload(s) \/ EnqueueUpload(s) \/ DropRequest(s)
       \/ \E u \in Uploads : BeginHook(s, u)
       \/ LookForObject(s) \/ CopyUpload(s) \/ AnswerHook(s)
  \/ \E u \in Uploads :
       FinishTus(u) \/ \E sample \in Samples : CreateTusSession(u, sample)
  \/ \E w \in Consumers :
       \/ \E u \in Uploads : Take(w, u)
       \/ Skip(w) \/ Ingests(w) \/ GiveUp(w) \/ LoseConsumer(w)

DoorsSpec == DoorsInit /\ [][DoorsNext]_doorVars

-----------------------------------------------------------------------------

DoorsTypeOK ==
  /\ file \in [Uploads -> {NoFile} \union
                          [at : {"api", "client", "tusd", "tusd, unnamed"}, is : Samples]]
  /\ hooks \in [Uploads -> 0 .. MaxHooks]
  /\ objects \subseteq Uploads
  /\ ready \in [Uploads -> Nat] /\ ingested \in [Uploads -> Nat]
  /\ done \subseteq Uploads /\ accepted \subseteq Uploads /\ handled \subseteq Uploads

InHand(u) == ready[u] > 0 \/ \E w \in Consumers : consumer[w] # Resting /\ consumer[w].u = u

\* What somebody was told is queued is not lost: its file is stored, and a
\* message of it is ready, at a worker or handled - also when the hook that
\* copied the file broke off and another found it there, when hooks overlap,
\* and when workers are lost (internal.py:115-140, datasets.py:298-323).
AcceptedIsQueued ==
  \A u \in accepted : u \in objects /\ (InHand(u) \/ u \in handled)

Handed == INSTANCE UploadQueue WITH
  told <- accepted, pending <- {u \in objects : InHand(u)}, settled <- handled,
  made <- {u \in Uploads : ingested[u] > 0}

\* The doors ask no more of the pipeline than module Ingest delivers: whatever
\* requests, hooks and workers are lost, an upload stays pending from when it is
\* enqueued until one of its messages is settled, and only such uploads become
\* versions (tus_upload_hook, upload_file, process_upload).
DoorsKeepQueue == Handed!Spec
=============================================================================
