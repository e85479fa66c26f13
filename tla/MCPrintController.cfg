\* A board that accepts every list.
SPECIFICATION FairSpec
CONSTANTS
  UNITS_PER_MM = 16
  MM_TO_BITS_CONVERSION_FACTOR = 4
  MAX_LASER_POWER_W = 400
  MaxRejects = 0
  LayerKinds = {"long", "short", "empty", "other", "badKey", "malformed"}
  MaxLayers = 3
  Jobs <- MCJobs
  Garbage <- MCGarbage
INVARIANTS
  TypeOK
  IdleWhenRecoating
  NeverRunsOff
  ExposesThePlan
  ProcessedMeansExposed
PROPERTIES
  NoOverwriteWhileExecuting
  NoStartAfterTheEnd
  ImplementsPrintJob
  JobEnds
