\* Workflow events to webhooks and the search index, the syncs of a connector,
\* labels and scores: what is promised in the end.
CONSTANTS
  Webhooks = {h1}
  Subscriptions <- Lists
  MaxEvents = 2
  MaxTests = 1
  MaxLosses = 1
  RowSecurity = FALSE
  SyncWorkers = {w1, w2}
  Threshold = 2
  MaxSyncs = 1
  MaxSyncLosses = 1
  Period = 1
  MaxScore = 4
  DecayStep = 3
  Unscored = Unscored
SPECIFICATION BackgroundSpec
INVARIANTS
  FailureCountIsStreak
  IndexedWasPublished
PROPERTIES
  QueuedIsTried
  CircuitRecovers
  DueIsSynced
  TripsOnTime
  AbandonedDecays
CHECK_DEADLOCK FALSE
