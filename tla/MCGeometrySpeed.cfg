\* The same inputs; the speed the scanner marks with is compared with the file.
SPECIFICATION Spec
CONSTANTS
  UNITS_PER_MM = 16000
  MM_TO_BITS_CONVERSION_FACTOR = 4000
  MAX_LASER_POWER_W = 400
  MaxPoints = 9
INVARIANT MarksAtRequestedSpeed
