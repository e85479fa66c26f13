--------------------------- MODULE GeometryHandler ---------------------------
(***************************************************************************)
(* GeometryHandler::processVectorBlock: one OVF vector block and its       *)
(* marking parameters become a sequence of list commands.  The class keeps *)
(* no state, so the component is a set of operators.                       *)
(*                                                                         *)
(* OVF values are floats.  Here a length is an integer number of steps of  *)
(* 1/UNITS_PER_MM mm, a power an integer number of Watts and a speed an    *)
(* integer number of mm/s: grids fine enough to make the code's rounding   *)
(* (lengths) and truncation (power) happen.                                *)
(***************************************************************************)
EXTENDS ListCommands

CONSTANTS
  UNITS_PER_MM,                 \* resolution of the modelled OVF lengths
  MM_TO_BITS_CONVERSION_FACTOR, \* MachineConfig: bits per mm
  MAX_LASER_POWER_W             \* MachineConfig: rated power

ASSUME ScaleAssumption ==
  /\ UNITS_PER_MM \in Nat \ {0}
  /\ MM_TO_BITS_CONVERSION_FACTOR \in Nat \ {0}
  /\ MAX_LASER_POWER_W \in Nat \ {0}

\* The vector_data cases the switch tells apart.  "other" stands for every
\* geometry without a case of its own, and for VECTOR_DATA_NOT_SET.
BlockKinds == {"line_sequence", "hatches", "other"}

Blocks == [key : Int, kind : BlockKinds, points : Seq(Int)]

Params == [speed : Int, focus : Int, power : Int]
-----------------------------------------------------------------------------
\* std::round: to the nearest integer, halfway cases away from zero.
RoundedDiv(n, d) ==
  IF n >= 0 THEN (2 * n + d) \div (2 * d) ELSE -((d - 2 * n) \div (2 * d))

\* Mutant: the cast alone, without std::round.
TruncatedToBits(len) == (len * MM_TO_BITS_CONVERSION_FACTOR) \div UNITS_PER_MM

mmToBits(len) ==
  RoundedDiv(len * MM_TO_BITS_CONVERSION_FACTOR, UNITS_PER_MM)

\* Mutant: the clamp to 100 percent is forgotten.
UnclampedDAC(watt) ==
  ((IF watt < 0 THEN 0 ELSE watt) * 4095) \div MAX_LASER_POWER_W

\* The power is turned into a percentage, clamped to 0..100 percent and scaled
\* to the 12-bit DAC; the cast to UINT truncates.
powerToDAC(watt) ==
  LET clamped == IF watt < 0 THEN 0
                 ELSE IF watt > MAX_LASER_POWER_W THEN MAX_LASER_POWER_W
                 ELSE watt
  IN (clamped * 4095) \div MAX_LASER_POWER_W
-----------------------------------------------------------------------------
\* points[k], k counted from 0 as in the code.  Reading behind the last element
\* of a protobuf repeated field is undefined: garbage is whatever the up to three
\* reads behind the end of a cut-short hatch yield.
GarbageReads(values) == [0 .. 2 -> values]

Coordinate(points, k, garbage) ==
  mmToBits(IF k < Len(points) THEN points[k + 1] ELSE garbage[k - Len(points)])

JumpTo(points, k, garbage) ==
  addJumpAbsolute(Coordinate(points, k, garbage), Coordinate(points, k + 1, garbage))

MarkTo(points, k, garbage) ==
  addMarkAbsolute(Coordinate(points, k, garbage), Coordinate(points, k + 1, garbage))

\* Mutant: the laser power is not set.
NoPowerCommand(params) ==
  << addSetMarkSpeed(params.speed), addSetFocusOffset(mmToBits(params.focus)) >>

ParameterCommands(params) ==
  << addSetMarkSpeed(params.speed),
     addSetFocusOffset(mmToBits(params.focus)),
     addSetLaserPower(1, powerToDAC(params.power)) >>

\* Mutant: the loop bound is size() - 2, so the last vertex is not marked.
ShortLineSequence(points, garbage) ==
  IF Len(points) < 4 THEN << >>
  ELSE << JumpTo(points, 0, garbage) >> \o
       [n \in 1 .. ((Len(points) - 1) \div 2) - 1 |-> MarkTo(points, 2 * n, garbage)]

\* for (i = 2; i < size; i += 2): one jump, then one mark per further vertex.
LineSequenceCommands(points, garbage) ==
  IF Len(points) < 4 THEN << >>
  ELSE << JumpTo(points, 0, garbage) >> \o
       [n \in 1 .. (Len(points) - 1) \div 2 |-> MarkTo(points, 2 * n, garbage)]

\* Mutant: i += 2, so that the end of a hatch is the start of the next one.
OverlappingHatches(points, garbage) ==
  IF Len(points) < 4 THEN << >>
  ELSE [n \in 1 .. 2 * ((Len(points) - 1) \div 2) |->
          IF n % 2 = 1 THEN JumpTo(points, n - 1, garbage)
                       ELSE MarkTo(points, n, garbage)]

\* for (i = 0; i < size; i += 4): a jump and a mark per hatch; command 2h+1 is
\* the jump of hatch h, command 2h+2 its mark.
HatchCommands(points, garbage) ==
  IF Len(points) < 4 THEN << >>
  ELSE [n \in 1 .. 2 * ((Len(points) + 3) \div 4) |->
          IF n % 2 = 1 THEN JumpTo(points, 2 * (n - 1), garbage)
                       ELSE MarkTo(points, 2 * (n - 1), garbage)]

GeometryCommands(block, garbage) ==
  CASE block.kind = "line_sequence" -> LineSequenceCommands(block.points, garbage)
    [] block.kind = "hatches"       -> HatchCommands(block.points, garbage)
    [] OTHER                        -> << >>

processVectorBlock(block, params, garbage) ==
  ParameterCommands(params) \o GeometryCommands(block, garbage)
=============================================================================
