----------------------------- MODULE Freshness -----------------------------
(***************************************************************************)
(* One published dataset of one tenant between three jobs: the check that  *)
(* labels it by the age of its last ingest, the decay that lowers the      *)
(* score of what is labelled stale, and the ingest.  Each is a transaction *)
(* that works on the row as it loaded it; SQLAlchemy writes a column only  *)
(* when the new value differs from the loaded one.  The dataset stays      *)
(* published; an attempt of another tenant's handler that raises ends a    *)
(* job before it reaches this tenant.                                      *)
(***************************************************************************)
EXTENDS Naturals

CONSTANTS
  Period,     \* ticks in the dataset's update frequency
  MaxScore,   \* quality scores are 0 .. MaxScore
  DecayStep,  \* what one decay takes off
  Unscored    \* quality_score is NULL until the first ingest

ASSUME FreshnessAssumption ==
  Period \in Nat \ {0} /\ MaxScore \in Nat /\ DecayStep \in Nat \ {0} /\ Unscored \notin Nat

VARIABLES
  frequency,  \* update_frequency: a period, or on demand
  age,        \* ticks since last_refreshed_at (or publication), at most 2 * Period
  label,      \* staleness_state
  score,      \* quality_score
  checkJob,   \* check_all_datasets: the label it loaded and the one it computed
  decayJob,   \* decay_quality_scores: the score it loaded
  refresh     \* an ingest's transaction: the score it loaded and the one it computed

freshVars == <<frequency, age, label, score, checkJob, decayJob, refresh>>

Scores == 0 .. MaxScore
Labels == {"fresh", "possibly_outdated", "stale"}
NotRunning == [busy |-> FALSE]

FreshInit ==
  /\ frequency \in {"on_demand", "periodic"}
  /\ age = 0 /\ label = "fresh" /\ score \in Scores \union {Unscored}
  /\ checkJob = NotRunning /\ decayJob = NotRunning /\ refresh = NotRunning

\* refresh_staleness_states on the row at this moment.
Classify ==
  CASE frequency = "on_demand" -> "fresh"
    [] frequency # "on_demand" /\ age >= 2 * Period -> "stale"
    [] frequency # "on_demand" /\ age >= Period /\ age < 2 * Period -> "possibly_outdated"
    [] OTHER -> "fresh"

\* Mutant: a score is lowered only while a whole step can be taken off.
Decayed_Whole(s) == IF s > DecayStep THEN s - DecayStep ELSE s

\* decay_stale_quality_scores: a step less, never below zero.
Decayed(s) == IF s > DecayStep THEN s - DecayStep ELSE 0

\* The ORM's UPDATE: no column that ends as it was loaded.
Stored(current, loaded, new) == IF new = loaded THEN current ELSE new

\* check_all_datasets loads the published datasets; beat starts it every minute.
LoadForCheck ==
  /\ checkJob = NotRunning
  /\ checkJob' = [busy |-> TRUE, loaded |-> label, new |-> Classify]
  /\ UNCHANGED <<frequency, age, label, score, decayJob, refresh>>

CommitCheck ==
  /\ checkJob.busy
  /\ label' = Stored(label, checkJob.loaded, checkJob.new)
  /\ checkJob' = NotRunning
  /\ UNCHANGED <<frequency, age, score, decayJob, refresh>>

\* The transaction fails.  (A handler that raised for a tenant before this one
\* is a job that loads nothing.)
AbortCheck ==
  /\ checkJob.busy /\ checkJob' = NotRunning
  /\ UNCHANGED <<frequency, age, label, score, decayJob, refresh>>

\* decay_quality_scores: every night, the scored datasets labelled stale.
LoadForDecay ==
  /\ decayJob = NotRunning /\ label = "stale" /\ score # Unscored
  /\ decayJob' = [busy |-> TRUE, loaded |-> score]
  /\ UNCHANGED <<frequency, age, label, score, checkJob, refresh>>

CommitDecay ==
  /\ decayJob.busy
  /\ score' = Stored(score, decayJob.loaded, Decayed(decayJob.loaded))
  /\ decayJob' = NotRunning
  /\ UNCHANGED <<frequency, age, label, checkJob, refresh>>

AbortDecay ==
  /\ decayJob.busy /\ decayJob' = NotRunning
  /\ UNCHANGED <<frequency, age, label, score, checkJob, refresh>>

\* apply_ingest_result, with any score compute_quality_score may give; the label
\* is left to the next check.
LoadForIngest(s) ==
  /\ refresh = NotRunning
  /\ refresh' = [busy |-> TRUE, loaded |-> score, new |-> s]
  /\ UNCHANGED <<frequency, age, label, score, checkJob, decayJob>>

CommitIngest ==
  /\ refresh.busy
  /\ age' = 0 /\ score' = Stored(score, refresh.loaded, refresh.new)
  /\ refresh' = NotRunning
  /\ UNCHANGED <<frequency, label, checkJob, decayJob>>

\* The ingest fails; the mark of a drifted schema goes with its transaction.
AbortIngest ==
  /\ refresh.busy /\ refresh' = NotRunning
  /\ UNCHANGED <<frequency, age, label, score, checkJob, decayJob>>

GrowOld ==
  /\ age < 2 * Period /\ age' = age + 1
  /\ UNCHANGED <<frequency, label, score, checkJob, decayJob, refresh>>

FreshNext ==
  \/ LoadForCheck \/ CommitCheck \/ AbortCheck
  \/ LoadForDecay \/ CommitDecay \/ AbortDecay
  \/ (\E s \in Scores : LoadForIngest(s)) \/ CommitIngest \/ AbortIngest
  \/ GrowOld

\* Beat starts both jobs for ever, and neither fails every time.
FreshFairness ==
  /\ WF_freshVars(LoadForCheck) /\ SF_freshVars(CommitCheck)
  /\ WF_freshVars(LoadForDecay) /\ SF_freshVars(CommitDecay)

FreshSpec == FreshInit /\ [][FreshNext]_freshVars /\ FreshFairness

-----------------------------------------------------------------------------

FreshTypeOK ==
  /\ age \in 0 .. 2 * Period /\ label \in Labels
  /\ score \in Scores \union {Unscored}

\* A dataset with an update frequency that is never ingested again is labelled
\* in the end, whatever labels late transactions write, and its score comes down
\* to zero and stays there (dataset_repository.py:197-243).
AbandonedDecays ==
  (frequency = "periodic" /\ <>[](age = 2 * Period))
    => <>[](label = "stale" /\ score \in {0, Unscored})
=============================================================================
