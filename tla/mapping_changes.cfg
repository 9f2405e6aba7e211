\* Three changes at once to two rows of one or two imports; both rows have one scope.
SPECIFICATION Spec
CONSTANTS
  Imports = {m1, m2}
  Rows = {r1, r2}
  Scopes = {s1}
  Releases = {a, b}
  Changes = {c1, c2, c3}
  None = None
SYMMETRY Symmetry
INVARIANTS OneRowPerRelease OneAliasPerScope AppliedAliasAgrees ConfirmedRowsHaveFigures SupersededByAgrees
PROPERTIES ImplementsDecisions RemapKnowsWhatItReplaces
CHECK_DEADLOCK FALSE
