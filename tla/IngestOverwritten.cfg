\* Two ingests overlap; nothing is lost.
CONSTANTS
  Uploads = {u1, u2}
  Schemas = {x}
  RowCounts = {r1}
  Workers = {w1, w2}
  MaxRedeliveries = 0
  None = None
SPECIFICATION Spec
PROPERTY VersionsImmutable
CHECK_DEADLOCK FALSE
