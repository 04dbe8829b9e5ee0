SPECIFICATION Spec
CONSTANTS
  Task <- MCTasks
  Grant <- MCGrants
  Old <- MCOld
  Horizon = 1
  MaxAmount = 2
  MaxSaved = 3
  Term <- MCTerms
  None = None
INVARIANTS QuotaInv WithinQuota LoopAgrees
PROPERTIES ClaimsWithinQuota PausesOnlyForWant
CHECK_DEADLOCK FALSE
CONSTRAINT MCBound
