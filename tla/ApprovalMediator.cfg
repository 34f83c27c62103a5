SPECIFICATION Spec

CONSTANTS
  root = root
  child = child
  fork = fork
  write = write
  shell = shell
  inner = inner
  ruleW = ruleW
  ruleS = ruleS
  NoRule = NoRule
  NoSession = NoSession
  Sessions <- MCSessions
  Requests <- MCRequests
  Rules <- MCRules
  SessionOf <- MCSessionOf
  Parent <- MCParent
  SignalOf <- MCSignalOf
  Managed <- MCManaged
  Watched <- MCWatched
  Static <- MCStatic
  RuleFor <- MCRuleFor
  Needs <- MCNeeds
  Env = {"save_fails", "inline_reply"}

INVARIANTS
  TypeOK
  AllowNeedsConsent
  ResolvedOnce
  NothingPendingAfterAbort

PROPERTIES
  AskedIsAnswered

CHECK_DEADLOCK FALSE
