\* Two overlapping sessions, an embargo included.
CONSTANTS
  Datasets = {d1}
  HighSensitivity = {d1}
  Submissions = {s1, s2}
  Users = {ann, bob, eve}
  DataPublishers = {ann}
  DataStewards = {bob}
  OrgAdmins = {eve}
  Embargoes <- UtcEmbargo
  Sessions = {w1, w2}
  ReviewSLA = 1
  MaxTime = 1
  MaxRevision = 2
  None = None
SYMMETRY Interchangeable
SPECIFICATION Spec
INVARIANTS
  PublicationSigned
  JournalLag
CHECK_DEADLOCK FALSE
