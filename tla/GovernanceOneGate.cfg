\* A high-sensitivity dataset, one request at a time.
CONSTANTS
  Datasets = {d1}
  HighSensitivity = {d1}
  Submissions = {s1}
  Users = {ann, bob, eve}
  DataPublishers = {ann}
  DataStewards = {bob}
  OrgAdmins = {eve}
  Embargoes <- NoEmbargo
  Sessions = {w1}
  ReviewSLA = 1
  MaxTime = 1
  MaxRevision = 0
  None = None
SPECIFICATION Spec
INVARIANT ThreeHumans
CHECK_DEADLOCK FALSE
