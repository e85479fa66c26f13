\* Two layers with two blocks and one; keys from -4 to 3.
SPECIFICATION Spec
CONSTANTS
  IntMax = 3
  Tolerance = 2
  NaN = NaN
  Files <- MCFiles
  Wishes <- MCWishes
  Names = {"A", "B"}
  NoMetaData = NoMetaData
  Null = Null
INVARIANTS
  TypeOK
  KeysResolve
  FileSetsKept
  NoNewDuplicates
  UnmodifiedMeansNoEdit
PROPERTY ImplementsEditSession
