\* Two requests at a time, two images, two addresses, two releases.
SPECIFICATION Spec
CONSTANTS
  Images = {i1, i2}
  Urls = {u1, u2}
  Releases = {x1, x2}
  Requests = {r1, r2}
  None = None
CONSTRAINTS Judged OneLost
SYMMETRY Symmetry
INVARIANTS LinkedDraftIsWhole ImagesAccounted
PROPERTY EditsSurvive
CHECK_DEADLOCK FALSE
