SPECIFICATION Spec

CONSTANTS
  p1 = p1
  p2 = p2
  p3 = p3
  earlier = earlier
  NoRun = NoRun
  Prompts <- MCTwoPrompts
  maxIterations = 2
  MaxCalls = 1
  Earlier <- MCEarlierPrompts
  Restored <- MCRestored
  Env = {"delete", "cut", "results_lost", "budget", "fallback"}

INVARIANTS
  TypeOK
  OneRun
  TranscriptPaired
  ProviderSeesPaired
  StatusFollowsRun
  EventMatchesStatus

PROPERTIES
  SilentAfterAbort
  RunEnds

CHECK_DEADLOCK FALSE
