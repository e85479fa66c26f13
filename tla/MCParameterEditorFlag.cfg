\* A set was created and the layer range refused.
SPECIFICATION Spec
CONSTANTS
  IntMax = 3
  Tolerance = 2
  NaN = NaN
  Files <- MCFiles
  Wishes <- MCWishes
  Names = {"A", "B"}
  NoMetaData = NoMetaData
  Null = Null
INVARIANT UnmodifiedMeansUnchanged
