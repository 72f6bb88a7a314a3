---------------------------- MODULE ConnectorSync ----------------------------
(***************************************************************************)
(* The scheduled syncs of one connector: the beat jobs trigger_due_syncs   *)
(* and attempt_circuit_reset, the sync_connector task they and the admin   *)
(* endpoint enqueue, ConnectorSyncService.run and the columns of the       *)
(* connectors row it keeps (repositories/connector_repository.py).         *)
(*                                                                         *)
(* A sync loads the connector once and keeps it in the session's identity  *)
(* map while it talks to the source, so the counter it writes back is the  *)
(* one it loaded.  The ingest it calls commits in a session of its own; it *)
(* appears here as one step (module Ingest has its inside).                *)
(*                                                                         *)
(* Two things of the other connectors matter to this one: the beat takes   *)
(* the 50 that are due longest, and one transaction probes all the open    *)
(* circuits of a tenant, in one loop over the tenants.                     *)
(***************************************************************************)
EXTENDS Naturals

CONSTANTS
  SyncWorkers,  \* Celery workers on the refresh queue; with one, nothing overlaps
  Threshold,    \* settings.CONNECTOR_CIRCUIT_BREAKER_THRESHOLD
  MaxSyncs,     \* sync_connector messages waiting
  MaxSyncLosses \* workers lost in the middle of a task

ASSUME ConnectorAssumption ==
  /\ Threshold \in Nat \ {0}
  /\ MaxSyncs \in Nat
  /\ MaxSyncLosses \in Nat

VARIABLES
  connector,  \* the connectors row: failure_count, circuit_state, and whether
              \* next_sync_at has passed
  remote,     \* the external system, one of Remotes
  neighbours, \* the other connectors: whether 50 of them have been due longer,
              \* and whether the probe of an open one raises
  syncs,      \* sync_connector messages waiting
  worker,     \* per worker, the task it runs and the row the task loaded
  syncLosses  \* workers lost so far

connVars == <<connector, remote, neighbours, syncs, worker, syncLosses>>

Circuits == {"closed", "open"}

\* The source serves; it answers the test, but what it sends is refused (schema
\* drift) or cannot be stored; the test reports a failure; the test raises (a
\* configuration that does not decrypt or parse, a driver that is missing).
Answering == {"serves", "refused"}
Remotes == Answering \union {"down", "raises"}

\* Beyond the threshold the code does not tell failure counts apart.
OneMore(n) == IF n < Threshold THEN n + 1 ELSE n

AtRest == [task |-> "idle"]
Task(t) == [task |-> t, loaded |-> connector]

\* A row as create() leaves it: next_sync_at is the present.
ConnInit ==
  /\ connector = [failures |-> 0, circuit |-> "closed", due |-> FALSE]
  /\ remote = "serves"
  /\ neighbours = [ahead |-> FALSE, raises |-> FALSE]
  /\ syncs = 0
  /\ worker = [w \in SyncWorkers |-> AtRest]
  /\ syncLosses = 0

-----------------------------------------------------------------------------
(* The surroundings: the source, other connectors, the clock, lost workers *)

RemoteChanges ==
  /\ remote' \in Remotes \ {remote}
  /\ UNCHANGED <<connector, neighbours, syncs, worker, syncLosses>>

NeighboursChange ==
  /\ neighbours' \in [ahead : BOOLEAN, raises : BOOLEAN]
  /\ neighbours' # neighbours
  /\ UNCHANGED <<connector, remote, syncs, worker, syncLosses>>

\* The clock passes next_sync_at.
BecomeDue ==
  /\ ~connector.due
  /\ connector' = [connector EXCEPT !.due = TRUE]
  /\ UNCHANGED <<remote, neighbours, syncs, worker, syncLosses>>

\* task_acks_late and task_reject_on_worker_lost: the session rolls back and a
\* lost sync is queued again; a lost probe comes back with the next beat.
LoseSync(w) ==
  /\ worker[w].task # "idle"
  /\ syncLosses < MaxSyncLosses
  /\ syncLosses' = syncLosses + 1
  /\ syncs' = IF worker[w].task \in {"probing", "closing"} THEN syncs ELSE syncs + 1
  /\ worker' = [worker EXCEPT ![w] = AtRest]
  /\ UNCHANGED <<connector, remote, neighbours>>

-----------------------------------------------------------------------------
(* Who enqueues *)

\* Mutant: a connector that failed once is not due any more.
Due_Unfailed == connector.due /\ connector.failures = 0 /\ ~neighbours.ahead

\* get_due_syncs: LIMIT 50, the longest due first.
Due == connector.due /\ connector.circuit # "open" /\ ~neighbours.ahead

\* trigger_due_syncs, every minute; next_sync_at moves only when a sync succeeds.
Trigger ==
  /\ Due
  /\ syncs < MaxSyncs
  /\ syncs' = syncs + 1
  /\ UNCHANGED <<connector, remote, neighbours, worker, syncLosses>>

\* sync_connector_now, for an administrator, whatever the circuit.
SyncNow ==
  /\ syncs < MaxSyncs
  /\ syncs' = syncs + 1
  /\ UNCHANGED <<connector, remote, neighbours, worker, syncLosses>>

-----------------------------------------------------------------------------
(* sync_connector *)

BeginSync(w) ==
  /\ worker[w].task = "idle"
  /\ syncs > 0
  /\ syncs' = syncs - 1
  /\ worker' = [worker EXCEPT ![w] = Task("testing")]
  /\ UNCHANGED <<connector, remote, neighbours, syncLosses>>

\* A probe that has updated the row holds its lock until the probe's transaction,
\* which goes on to the next open circuit, ends.
RowIsFree == \A x \in SyncWorkers : worker[x].task # "closing"

\* Mutant: off by one.
Failed_Late(loaded) ==
  [connector EXCEPT
     !.failures = OneMore(loaded.failures),
     !.circuit = IF loaded.failures + 1 > Threshold THEN "open"
                                                    ELSE loaded.circuit]

\* The row after mark_sync_failure.
Failed(loaded) ==
  [connector EXCEPT
     !.failures = OneMore(loaded.failures),
     !.circuit = IF loaded.failures + 1 >= Threshold THEN "open"
                                                     ELSE loaded.circuit]

\* The row after mark_sync_success.
Succeeded == [failures |-> 0, circuit |-> "closed", due |-> FALSE]

TestFails(w) ==
  /\ worker[w].task = "testing"
  /\ remote = "down"
  /\ RowIsFree
  /\ connector' = Failed(worker[w].loaded)
  /\ worker' = [worker EXCEPT ![w] = AtRest]
  /\ UNCHANGED <<remote, neighbours, syncs, syncLosses>>

TestPasses(w) ==
  /\ worker[w].task = "testing"
  /\ remote \in Answering
  /\ worker' = [worker EXCEPT ![w].task = "pulling"]
  /\ UNCHANGED <<connector, remote, neighbours, syncs, syncLosses>>

\* No dataset is linked or no rows come back: a success without an ingest.
NothingToPull(w) ==
  /\ worker[w].task = "pulling"
  /\ RowIsFree
  /\ connector' = Succeeded
  /\ worker' = [worker EXCEPT ![w] = AtRest]
  /\ UNCHANGED <<remote, neighbours, syncs, syncLosses>>

\* The test, pull(), the drift check, the ingest or the lineage record raises; the
\* session rolls back and the task ends.  None of them is counted as a failure,
\* and next_sync_at stays in the past.
SyncRaises(w) ==
  /\ \/ worker[w].task = "testing" /\ remote = "raises"
     \/ worker[w].task = "pulling" /\ remote # "serves"
     \/ worker[w].task = "ingested" /\ remote = "refused"
  /\ worker' = [worker EXCEPT ![w] = AtRest]
  /\ UNCHANGED <<connector, remote, neighbours, syncs, syncLosses>>

\* IngestService.run commits a version.
SyncIngests(w) ==
  /\ worker[w].task = "pulling"
  /\ remote = "serves"
  /\ worker' = [worker EXCEPT ![w].task = "ingested"]
  /\ UNCHANGED <<connector, remote, neighbours, syncs, syncLosses>>

MarkSuccess(w) ==
  /\ worker[w].task = "ingested"
  /\ RowIsFree
  /\ connector' = Succeeded
  /\ worker' = [worker EXCEPT ![w] = AtRest]
  /\ UNCHANGED <<remote, neighbours, syncs, syncLosses>>

-----------------------------------------------------------------------------
(* attempt_circuit_reset *)

BeginProbe(w) ==
  /\ worker[w].task = "idle"
  /\ connector.circuit = "open"
  /\ worker' = [worker EXCEPT ![w] = Task("probing")]
  /\ UNCHANGED <<connector, remote, neighbours, syncs, syncLosses>>

\* The source answers the probe and close_circuit updates the row.
ProbeAnswered(w) ==
  /\ worker[w].task = "probing"
  /\ remote \in Answering
  /\ RowIsFree
  /\ worker' = [worker EXCEPT ![w].task = "closing"]
  /\ UNCHANGED <<connector, remote, neighbours, syncs, syncLosses>>

\* The source does not answer: the row stays as it is.
ProbeUnanswered(w) ==
  /\ worker[w].task = "probing"
  /\ remote = "down"
  /\ worker' = [worker EXCEPT ![w] = AtRest]
  /\ UNCHANGED <<connector, remote, neighbours, syncs, syncLosses>>

\* The probe of this connector, or of one before or after it, raises: the loop
\* ends and the transaction rolls back.
ProbeRaises(w) ==
  /\ \/ worker[w].task = "probing" /\ remote = "raises"
     \/ worker[w].task \in {"probing", "closing"} /\ neighbours.raises
  /\ worker' = [worker EXCEPT ![w] = AtRest]
  /\ UNCHANGED <<connector, remote, neighbours, syncs, syncLosses>>

\* Mutant: the circuit that answered is left as it is.
Probed_Ignored == connector

\* The row after close_circuit.
Probed == [failures |-> 0, circuit |-> "closed", due |-> connector.due]

CommitProbe(w) ==
  /\ worker[w].task = "closing"
  /\ connector' = Probed
  /\ worker' = [worker EXCEPT ![w] = AtRest]
  /\ UNCHANGED <<remote, neighbours, syncs, syncLosses>>

-----------------------------------------------------------------------------
(* The specification *)

SyncStep(w) ==
  \/ TestFails(w)
  \/ TestPasses(w)
  \/ NothingToPull(w)
  \/ SyncRaises(w)
  \/ SyncIngests(w)
  \/ MarkSuccess(w)

ProbeStep(w) ==
  \/ ProbeAnswered(w)
  \/ ProbeUnanswered(w)
  \/ ProbeRaises(w)
  \/ CommitProbe(w)

ConnNext ==
  \/ RemoteChanges
  \/ NeighboursChange
  \/ BecomeDue
  \/ Trigger
  \/ SyncNow
  \/ \E w \in SyncWorkers :
       \/ BeginSync(w) \/ BeginProbe(w)
       \/ SyncStep(w) \/ ProbeStep(w)
       \/ LoseSync(w)

ConnSpec == ConnInit /\ [][ConnNext]_connVars

\* Beat keeps beating, workers take both kinds of message again and again, and a
\* task that was taken goes on.  The source, the other connectors, losses and
\* administrators are free.
ConnFairness ==
  /\ WF_connVars(Trigger)
  /\ SF_connVars(\E w \in SyncWorkers : BeginSync(w))
  /\ SF_connVars(\E w \in SyncWorkers : BeginProbe(w))
  /\ \A w \in SyncWorkers : WF_connVars(SyncStep(w) \/ ProbeStep(w))
=============================================================================
