\* One session, embargoes in UTC: time, the two beat jobs, and their fairness.
CONSTANTS
  Datasets = {d1}
  HighSensitivity = {d1}
  Submissions = {s1, s2}
  Users = {ann, bob, eve}
  DataPublishers = {ann}
  DataStewards = {bob}
  OrgAdmins = {eve}
  Embargoes <- UtcEmbargo
  Sessions = {w1}
  ReviewSLA = 0
  MaxTime = 2
  MaxRevision = 1
  None = None
SPECIFICATION FairSpec
PROPERTIES
  NoEarlyRelease
  ScheduledIsReleased
  OverdueIsSettled
CHECK_DEADLOCK FALSE
