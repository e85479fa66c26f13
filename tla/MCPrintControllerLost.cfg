\* A board that may refuse one list.
SPECIFICATION FairSpec
CONSTANTS
  UNITS_PER_MM = 16
  MM_TO_BITS_CONVERSION_FACTOR = 4
  MAX_LASER_POWER_W = 400
  MaxRejects = 1
  LayerKinds = {"long", "short"}
  MaxLayers = 2
  Jobs <- MCJobs
  Garbage <- MCGarbage
INVARIANTS
  ProcessedMeansExposed
