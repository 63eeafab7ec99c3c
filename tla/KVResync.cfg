SPECIFICATION Spec
CONSTANTS
  BaseKeys = {1, 2, 3}
  DerivedKeys = {4, 5}
  Described = {1, 2, 3, 4}
  Owner <- MCOwner
  Revisions = {1, 2, 9}
  Valid <- MCValid
  Dependencies <- OnProperty
  Recreate <- RecreateOnRev
  Requests <- Recovering
  Notifications = {}
  Drifts <- Losses
  Late = {}
  Outcomes <- NoFailure
  MaxCount = 1
  MaxTxns = 3
INVARIANT ResyncHeals
CHECK_DEADLOCK FALSE
