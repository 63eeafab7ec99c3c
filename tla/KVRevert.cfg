SPECIFICATION Spec
CONSTANTS
  BaseKeys = {1, 2, 3}
  DerivedKeys = {4, 5}
  Described = {1, 2, 3, 4}
  Owner <- MCOwner
  Revisions = {1, 2, 9}
  Valid <- MCValid
  Dependencies <- OnProperty
  Recreate <- RecreateOnRev
  Requests <- Reverted
  Notifications = {}
  Drifts = {}
  Late = {}
  Outcomes <- CreateOrUpdateFails
  MaxCount = 1
  MaxTxns = 3
INVARIANTS GraphMatchesSB PendingJustified StatusTruthful
PROPERTY RevertRestores
CHECK_DEADLOCK FALSE
