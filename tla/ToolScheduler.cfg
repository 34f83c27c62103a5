SPECIFICATION SchedulerSpec

CONSTANTS
  root = root
  read = read
  external = external
  list = list
  exec = exec
  write = write
  fetch = fetch
  rule = rule
  NoRule = NoRule
  NoSession = NoSession
  Sessions <- MCSessions
  Requests <- MCRequests
  Rules = {rule}
  SessionOf <- MCSessionOf
  Parent <- MCParent
  SignalOf <- MCSignalOf
  Managed = {root}
  Watched <- MCWatched
  Static <- MCStatic
  RuleFor <- MCRuleFor
  Needs <- MCNeeds
  Env = {"save_fails", "inline_reply"}
  N = 5
  Safe = {1, 2, 4, 5}
  Unrunnable = {5}
  OverMode = {4}
  CapsOf <- MCCapsOf
  InnerOf <- MCInnerOf
  BatchSession = root

INVARIANTS
  SchedulerTypeOK
  ExecutedIsPermitted
  NoOrphanQuestion

PROPERTIES
  ImplementsBatch
  BatchReturns

CHECK_DEADLOCK FALSE
