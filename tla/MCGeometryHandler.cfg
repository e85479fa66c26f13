\* One block at a time: lengths on a 1/16 um grid around the rounding points of
\* 4000 bits per mm, powers below, inside, at and above the laser's range.
SPECIFICATION Spec
CONSTANTS
  UNITS_PER_MM = 16000
  MM_TO_BITS_CONVERSION_FACTOR = 4000
  MAX_LASER_POWER_W = 400
  MaxPoints = 9
INVARIANTS
  TypeOK
  ExposesTheBlock
  MalformedAddsOneLineAtMost
