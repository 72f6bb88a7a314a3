---------------------------- MODULE UsageRollup ----------------------------
(***************************************************************************)
(* Usage events of one dataset and one type, and the hourly job that       *)
(* counts them.  A tick is half an hour, so that the job's look-back can   *)
(* begin inside an hour, as it does whenever the job does not start on the *)
(* stroke of the hour.                                                     *)
(***************************************************************************)
EXTENDS Naturals, FiniteSets

CONSTANTS
  Recorders,  \* requests that record an event
  MaxTick,    \* bound on time
  Lookback    \* hours a run of the job looks back

ASSUME RollupAssumption ==
  /\ IsFiniteSet(Recorders)
  /\ MaxTick \in Nat /\ Lookback \in Nat \ {0}

VARIABLES
  tick,       \* now, in half hours
  event,      \* per recorder, its row: none, in a transaction, stored, lost
  hourCount,  \* the Valkey counter of the dataset and type
  rollup,     \* usage_hourly_rollups: the count of each hour that has a row
  rollJob,    \* rollup_usage_events: its cutoff and what it read
  cut,        \* history: hours that a run counted from the middle
  unread      \* history: hours with an event stored since the last run that counted read

usageVars == <<tick, event, hourCount, rollup, rollJob, cut, unread>>

Hours == 0 .. MaxTick \div 2
HourOf(t) == t \div 2
NoRow == [at |-> "none"]
NotRolling == [phase |-> "idle"]

StoredIn(h) == {r \in Recorders : event[r].at = "stored" /\ HourOf(event[r].tick) = h}

UsageInit ==
  /\ tick = 0 /\ hourCount = 0
  /\ event = [r \in Recorders |-> NoRow]
  /\ rollup = [h \in Hours |-> 0]
  /\ rollJob = NotRolling
  /\ cut = {} /\ unread = {}

\* record_usage_event, after the response: created_at is the start of the
\* transaction.
RecordEvent(r) ==
  /\ event[r] = NoRow
  /\ event' = [event EXCEPT ![r] = [at |-> "open", tick |-> tick]]
  /\ UNCHANGED <<tick, hourCount, rollup, rollJob, cut, unread>>

CommitEvent(r) ==
  /\ event[r].at = "open"
  /\ event' = [event EXCEPT ![r].at = "stored"]
  /\ LET h == HourOf(event[r].tick) IN
       /\ unread' = unread \union {h}
       /\ rollJob' = IF rollJob = NotRolling THEN rollJob
                     ELSE [rollJob EXCEPT !.since = @ \union {h}]
  /\ UNCHANGED <<tick, hourCount, rollup, cut>>

\* A failed write is logged and forgotten; the response has gone out.
LoseEvent(r) ==
  /\ event[r].at = "open"
  /\ event' = [event EXCEPT ![r].at = "lost"]
  /\ UNCHANGED <<tick, hourCount, rollup, rollJob, cut, unread>>

\* cache_incr, after the commit; a failure is logged.
BumpCounter(r) ==
  /\ event[r].at = "stored" /\ hourCount < Cardinality(Recorders)
  /\ hourCount' = hourCount + 1
  /\ UNCHANGED <<tick, event, rollup, rollJob, cut, unread>>

\* rollup_hourly: the committed events since the cutoff, by hour.
ReadEvents ==
  /\ rollJob = NotRolling
  /\ LET cutoff == IF tick > 2 * Lookback THEN tick - 2 * Lookback ELSE 0
         seen(h) == {r \in StoredIn(h) : event[r].tick >= cutoff} IN
       rollJob' = [phase |-> "read", since |-> {}, cutoff |-> cutoff,
                   count |-> [h \in Hours |-> Cardinality(seen(h))]]
  /\ UNCHANGED <<tick, event, hourCount, rollup, cut, unread>>

\* Mutant: a row that exists is added to.
Upserted_Adds(old, new) == old + new

\* ON CONFLICT DO UPDATE: the row takes the new count.
Upserted(old, new) == IF new = 0 THEN old ELSE new

CommitRollup ==
  /\ rollJob # NotRolling
  /\ rollup' = [h \in Hours |-> Upserted(rollup[h], rollJob.count[h])]
  /\ cut' = cut \union {h \in Hours : HourOf(rollJob.cutoff) = h /\ 2 * h < rollJob.cutoff}
  /\ unread' = {h \in unread : 2 * h < rollJob.cutoff} \union rollJob.since
  /\ rollJob' = NotRolling
  /\ UNCHANGED <<tick, event, hourCount>>

AbortRollup ==
  /\ rollJob # NotRolling /\ rollJob' = NotRolling
  /\ UNCHANGED <<tick, event, hourCount, rollup, cut, unread>>

PassHalfHour ==
  /\ tick < MaxTick /\ tick' = tick + 1
  /\ UNCHANGED <<event, hourCount, rollup, rollJob, cut, unread>>

UsageNext ==
  \/ \E r \in Recorders :
       RecordEvent(r) \/ CommitEvent(r) \/ LoseEvent(r) \/ BumpCounter(r)
  \/ ReadEvents \/ CommitRollup \/ AbortRollup
  \/ PassHalfHour

UsageSpec == UsageInit /\ [][UsageNext]_usageVars

-----------------------------------------------------------------------------

UsageTypeOK ==
  /\ tick \in 0 .. MaxTick /\ hourCount \in 0 .. Cardinality(Recorders)
  /\ rollup \in [Hours -> 0 .. Cardinality(Recorders)]

\* However often a job recounts an hour and however late an event's transaction
\* commits, the row of an hour never counts an event twice, and it misses one
\* only while that event came after the last count, or when a run whose cutoff
\* fell inside the hour overwrote the row (usage_event_repository.py:138-187).
RollupCounts ==
  \A h \in Hours :
    /\ rollup[h] <= Cardinality(StoredIn(h))
    /\ h \notin cut \union unread => rollup[h] = Cardinality(StoredIn(h))
=============================================================================
