SPECIFICATION Spec
CONSTANTS
  BaseKeys = {1, 2, 3}
  DerivedKeys = {4, 5}
  Described = {1, 2, 3, 4}
  Owner <- MCOwner
  Revisions = {1, 2, 9}
  Valid <- MCValid
  Dependencies <- OnProperty
  Recreate <- RecreateOnRev
  Requests <- Faults
  Notifications = {}
  Drifts = {}
  Late = {}
  Outcomes <- Retriable
  MaxCount = 2
  MaxTxns = 3
INVARIANTS GraphMatchesSB StatusPublished RetryBounded ResyncHeals
PROPERTY RetryAdvances
CHECK_DEADLOCK FALSE
