\* Files of up to two planes with any part damaged, opened in any order.
SPECIFICATION Spec
CONSTANTS
  Files <- MCFiles
  NoFile = NoFile
INVARIANTS
  TypeOK
  TablesOfTheOpenFile
  PlaneIsWhole
  RefusedMeansDamaged
