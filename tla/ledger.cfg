\* Chains of replacements and withdrawals over four imports.
SPECIFICATION Spec
CONSTANTS
  Imports = {i1, i2, i3, i4}
  Hashes = {h1, h2, h3, h4}
  Keys = {k1, k2, k3, k4}
  Scopes = {s1, s2}
  None = None
SYMMETRY Symmetry
INVARIANT ReplacementsAgree
PROPERTY HistoryIsKept
CHECK_DEADLOCK FALSE
