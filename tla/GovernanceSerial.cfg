\* One request at a time, no embargo: a standard and a high-sensitivity dataset.
CONSTANTS
  Datasets = {d1, d2}
  HighSensitivity = {d2}
  Submissions = {s1, s2, s3}
  Users = {ann, bob, eve}
  DataPublishers = {ann}
  DataStewards = {bob}
  OrgAdmins = {eve}
  Embargoes <- NoEmbargo
  Sessions = {w1}
  ReviewSLA = 0
  MaxTime = 1
  MaxRevision = 1
  None = None
SYMMETRY Interchangeable
SPECIFICATION Spec
INVARIANTS
  OneOpenSubmission
PROPERTIES
  ReviewedMetadataFrozen
  ImplementsLifecycle
CHECK_DEADLOCK FALSE
