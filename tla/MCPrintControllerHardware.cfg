\* The setup of the board may fail.
SPECIFICATION FairSpec
CONSTANTS
  UNITS_PER_MM = 16
  MM_TO_BITS_CONVERSION_FACTOR = 4
  MAX_LASER_POWER_W = 400
  MaxRejects = 0
  LayerKinds = {"short"}
  MaxLayers = 2
  Jobs <- MCJobs
  Garbage <- MCGarbage
INVARIANTS
  HardwareFailureIsReported
