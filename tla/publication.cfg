\* Two artists who may want one slug, three versions, two requests at a time.
SPECIFICATION Spec
CONSTANTS
  Artists = {a1, a2}
  Slugs = {s1, s2}
  Versions = {v1, v2, v3}
  Requests = {r1, r2}
  None = None
SYMMETRY Symmetry
CONSTRAINT FewVersions
INVARIANTS ActivePreviewIsLatest LiveIsApproved LiveSlugsDiffer
CHECK_DEADLOCK FALSE
