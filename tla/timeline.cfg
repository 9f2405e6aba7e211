\* Three requests of the owner and two suggestions of one day, over two days.
SPECIFICATION Spec
CONSTANTS
  Changes = {c1, c2, c3}
  Suggestions = {s1, s2}
  Window <- MCWindow
  Days = {1, 2}
  Open = Open
  None = None
SYMMETRY Symmetry
CHECK_DEADLOCK FALSE
INVARIANTS
  TypeOK
  NoOverlapUnlessRaced
  EventsAgree
  LineageIsLinear
PROPERTY
  ConfirmedIsPreserved
