\* Reclaiming of everything a sweep is responsible for, BatchSize objects at a time.
SPECIFICATION FairSpec
CONSTANTS
  Requests = {r1, r2}
  Previews = {p1}
  Withdrawals = {}
  Sweeps = {c1}
  Users = {u1}
  Hashes = {h1}
  Keys = {k1}
  Scopes = {s1}
  None = None
  PreviewTTL = 1
  PreviewRetention = 3
  OrphanRetention = 2
  RawRetention = 2
  MaxRun = 1
  BatchSize = 1
  CommitAckLost = TRUE
  MaxClock = 3
PROPERTIES OrphansReclaimed ExpiredFilesMarked
CHECK_DEADLOCK FALSE
