SPECIFICATION ComposerSpec
CONSTANTS
 MaxImages = 1
 MaxPicked = 2
 MaxSends = 2
CHECK_DEADLOCK FALSE
INVARIANT SkillThisTurnOnly
