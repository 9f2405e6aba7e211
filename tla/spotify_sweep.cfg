\* A commit, reprocesses and two overlapping sweeps (cron and script) under a running clock.
SPECIFICATION Spec
CONSTANTS
  Requests = {r1}
  Previews = {p1, p2}
  Withdrawals = {}
  Sweeps = {c1, c2}
  Users = {u1}
  Hashes = {h1}
  Keys = {k1}
  Scopes = {s1}
  None = None
  PreviewTTL = 1
  PreviewRetention = 3
  OrphanRetention = 2
  RawRetention = 2
  MaxRun = 1
  BatchSize = 1
  CommitAckLost = TRUE
  MaxClock = 4
SYMMETRY Symmetry
INVARIANTS RawFileKept PreviewKept MarkedFileIsGone
CHECK_DEADLOCK FALSE
