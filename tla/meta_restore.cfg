\* A withdrawal that leaves an earlier set of suggestions.
SPECIFICATION Spec
CONSTANTS
  Commits = {c1, c2}
  Withdrawals = {w1}
  Previews = {p1, p2}
  f1 = f1
  f2 = f2
  f3 = f3
  Files = {f1, f2, f3}
  Keys = {k1, k2}
  Days = {1, 2, 3}
  Export <- MCExport
  Buttons = {}
  None = None
  Faults = FALSE
SYMMETRY Symmetry
INVARIANT WithdrawalRestores
CHECK_DEADLOCK FALSE
