\* Commits that race for one key, one file and one replacement target.
SPECIFICATION Spec
CONSTANTS
  Requests = {r1, r2}
  Previews = {p1, p2}
  Withdrawals = {w1, w2}
  Sweeps = {}
  Users = {u1, u2}
  Hashes = {h1, h2}
  Keys = {k1, k2}
  Scopes = {s1, s2}
  None = None
  PreviewTTL = 1
  PreviewRetention = 3
  OrphanRetention = 2
  RawRetention = 2
  MaxRun = 1
  BatchSize = 1
  CommitAckLost = TRUE
  MaxClock = 0
SYMMETRY Symmetry
INVARIANTS AnswersAreTrue OneFatePerImport
PROPERTY ImplementsLedger
CHECK_DEADLOCK FALSE
