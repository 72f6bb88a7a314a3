\* Two reviews of one submission overlap.
CONSTANTS
  Datasets = {d1}
  HighSensitivity = {}
  Submissions = {s1}
  Users = {ann, bob, eve}
  DataPublishers = {ann}
  DataStewards = {bob}
  OrgAdmins = {eve}
  Embargoes <- NoEmbargo
  Sessions = {w1, w2}
  ReviewSLA = 1
  MaxTime = 1
  MaxRevision = 0
  None = None
SPECIFICATION Spec
PROPERTY RejectedIsPermanent
CHECK_DEADLOCK FALSE
