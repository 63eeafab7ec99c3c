SPECIFICATION Spec
CONSTANTS
  BaseKeys = {1, 2, 3}
  DerivedKeys = {4, 5}
  Described = {1, 2, 3, 4}
  Owner <- MCOwner
  Revisions = {1, 2, 9}
  Valid <- MCValid
  Dependencies <- Cyclic
  Recreate <- NoRecreate
  Requests <- NotThree
  Notifications <- UpDown3
  Drifts = {}
  Late = {1}
  Outcomes <- NoFailure
  MaxCount = 1
  MaxTxns = 4
INVARIANT PendingJustified
PROPERTY Reconciles
CHECK_DEADLOCK FALSE
