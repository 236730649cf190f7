CONSTANTS
  None = None
  Keys = {k1, k2}
  Config = vendor
  Rotations = {r1, r2}
  MaxRows = 2
SPECIFICATION Spec
INVARIANT
  RestartKeepsLicence
CHECK_DEADLOCK FALSE
