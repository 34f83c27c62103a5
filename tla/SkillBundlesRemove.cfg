SPECIFICATION SkillSpec
CONSTANTS
  p1 = p1
  p2 = p2
  Nothing = Nothing
  Malformed = Malformed
  Paths <- SkillPaths
  Default = p1
  Names <- OneName
  Parts <- OnePart
INVARIANT SkillsKept
CHECK_DEADLOCK FALSE
