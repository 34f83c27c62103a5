SPECIFICATION Spec

CONSTANTS
  p1 = p1
  p2 = p2
  p3 = p3
  earlier = earlier
  NoRun = NoRun
  Prompts <- MCThreePrompts
  maxIterations = 2
  MaxCalls = 1
  Earlier <- MCEarlierPrompts
  Restored <- MCEarlierTurn
  Env = {"budget"}

INVARIANT
  CompactionKeepsPairs

CHECK_DEADLOCK FALSE
