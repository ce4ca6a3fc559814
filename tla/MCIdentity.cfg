SPECIFICATION Spec
CONSTANTS
  boot = boot
  ann = ann
  bob = bob
  t1 = t1
  t2 = t2
  t3 = t3
  s1 = s1
  s2 = s2
  s3 = s3
  r1 = r1
  r2 = r2
  None = None
  Accounts <- MCAccounts
  Boot = boot
  States <- MCStates
  Sessions <- MCSessions
  Requests <- MCRequests
SYMMETRY Alike
INVARIANTS
  DisabledHasNoLiveSession
  OneLoginPerState
PROPERTIES
  AdminStays
  AccessChangesForCause
