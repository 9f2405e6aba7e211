\* Three send requests, an edit that may give the lock away, and a deletion, with
\* faults.
SPECIFICATION FairSpec
CONSTANTS
  Sends = {x1, x2, x3}
  Edits = {e1}
  Deletes = {d1}
  Subscribers = {s1}
  None = None
  Faults = TRUE
  MaxChanges = 1
INVARIANTS OneSendPerDraft
PROPERTIES NothingAfterSent SendEnds
CHECK_DEADLOCK FALSE
