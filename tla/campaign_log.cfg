\* Two send requests, an edit that may give the lock away, and a deletion, with
\* faults.
SPECIFICATION Spec
CONSTANTS
  Sends = {x1, x2}
  Edits = {e1}
  Deletes = {d1}
  Subscribers = {s1, s2}
  None = None
  Faults = TRUE
  MaxChanges = 1
SYMMETRY Symmetry
INVARIANTS SentMeansDelivered LogsAreTrue FailureIsLogged
CHECK_DEADLOCK FALSE
