\* A square of 3 mm with a hatch every 1.5 mm, on a grid of half millimetres.
SPECIFICATION ChainSpec
CONSTANTS
  UNITS_PER_MM = 2
  MM_TO_BITS_CONVERSION_FACTOR = 4
  MAX_LASER_POWER_W = 400
  MaxRejects = 0
  MaxLayers = 3
  SQUARE_SIZE = 6
  HATCH_SPACING = 3
  LayerArgs <- MCLayerArgs
  Jobs <- MCJobs
  Garbage = {0}
  NoFile = NoFile
INVARIANTS
  GeneratorTypeOK
  ExitZeroMeansComplete
  OnlyTheSquareIsExposed
  DamageStopsTheJob
PROPERTY GeneratedJobIsPrinted
