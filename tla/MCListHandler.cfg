\* Lists of at most three commands; the board may refuse one list while idle.
SPECIFICATION Spec
CONSTANTS
  MaxRejects = 1
  MaxLength = 3
INVARIANTS
  TypeOK
  FillTargetIdle
  PolledMeansIdle
PROPERTY NoOverwriteWhileExecuting
