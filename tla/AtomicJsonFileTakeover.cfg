SPECIFICATION Spec

CONSTANTS
  p1 = p1
  p2 = p2
  p3 = p3
  Nobody = Nobody
  Procs <- MCProcs
  MaxUpdates <- MCMaxUpdates
  MaxTries = 1
  Faults = {"crash"}

INVARIANT
  NoLostUpdate

CHECK_DEADLOCK FALSE
