\* One worker, lost and restarted: ingests do not overlap.
CONSTANTS
  Uploads = {u1, u2}
  Schemas = {x, y}
  RowCounts = {r1, r2}
  Workers = {w1}
  MaxRedeliveries = 2
  None = None
SPECIFICATION FairSpec
PROPERTIES
  ImplementsVersionLog
  AcceptedIsSettled
CHECK_DEADLOCK FALSE
