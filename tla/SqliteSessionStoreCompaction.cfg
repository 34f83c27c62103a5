SPECIFICATION Spec
CONSTANTS
  p1 = p1
  p2 = p2
  s1 = s1
  s2 = s2
  b1 = b1
  b2 = b2
  NoSession = NoSession
  Procs <- Processes
  Sessions <- SessionIds
  Statuses <- RunStatuses
  Modes <- AgentModes
  Bodies <- Texts
  Keeps <- MoreKept
  MaxMessages = 3
  MaxNow = 0
  MaxCalls = 4
SYMMETRY StoreSymmetry
PROPERTY CompactionKeepsLast
CHECK_DEADLOCK FALSE
