\* A board that may refuse up to two lists.
SPECIFICATION FairSpec
CONSTANTS
  UNITS_PER_MM = 16
  MM_TO_BITS_CONVERSION_FACTOR = 4
  MAX_LASER_POWER_W = 400
  MaxRejects = 2
  LayerKinds = {"long", "short", "badKey"}
  MaxLayers = 4
  Jobs <- MCJobs
  Garbage <- MCGarbage
INVARIANTS
  RefusedLayersAreLostWhole
PROPERTIES
  NoOverwriteWhileExecuting
  ImplementsPrintJob
