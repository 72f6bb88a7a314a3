\* Two workers and three uploads; each message may lose one worker.
CONSTANTS
  Uploads = {u1, u2, u3}
  Schemas = {x, y}
  RowCounts = {r1, r2}
  Workers = {w1, w2}
  MaxRedeliveries = 1
  None = None
SYMMETRY Interchangeable
SPECIFICATION Spec
INVARIANTS
  VersionsContiguous
  VersionsStored
PROPERTY PipelineKeepsQueue
CHECK_DEADLOCK FALSE
