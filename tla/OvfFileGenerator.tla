-------------------------- MODULE OvfFileGenerator --------------------------
(***************************************************************************)
(* OvfFileWriter: the command-line tool that writes a test job, a hatched  *)
(* square on every layer.  Lengths are on the grid of GeometryHandler.     *)
(* The writer of OVF files is a package outside the repository: each of    *)
(* its calls may throw; disposed of after that, it may leave the file as   *)
(* it is or complete it with the work planes it has got.                   *)
(***************************************************************************)
EXTENDS Integers, Sequences

CONSTANTS
  SQUARE_SIZE, HATCH_SPACING,
  LayerArgs    \* the numbers of layers given on the command line

ASSUME GeneratorAssumption ==
  /\ SQUARE_SIZE \in Nat \ {0} /\ SQUARE_SIZE % 2 = 0
  /\ HATCH_SPACING \in Nat \ {0}
  /\ LayerArgs \subseteq Int

VARIABLES
  genStep,         \* the call the tool makes next
  NumberOfLayers,  \* of the parsed arguments
  planes,          \* the work planes appended so far
  ovfFile,         \* "none", "partial" (without its tables) or "complete"
  genExitCode

generatorVars == << genStep, NumberOfLayers, planes, ovfFile, genExitCode >>

GeneratorInit ==
  /\ genStep = "Parse"
  /\ NumberOfLayers = 0 /\ planes = << >> /\ ovfFile = "none" /\ genExitCode = 0
-----------------------------------------------------------------------------
SquareDefinition(centerX, centerY, size) ==
  [XMin |-> centerX - size \div 2, XMax |-> centerX + size \div 2,
   YMin |-> centerY - size \div 2, YMax |-> centerY + size \div 2]

\* A new VectorBlock has the marking parameters key 0.
VectorBlock(kind, points) == [key |-> 0, kind |-> kind, points |-> points]

\* Mutant: the square is not closed.
CreateOpenContour(square) ==
  VectorBlock("line_sequence",
    << square.XMin, square.YMin, square.XMax, square.YMin,
       square.XMax, square.YMax, square.XMin, square.YMax >>)

CreateContourBlock(square) ==
  VectorBlock("line_sequence",
    << square.XMin, square.YMin, square.XMax, square.YMin,
       square.XMax, square.YMax, square.XMin, square.YMax,
       square.XMin, square.YMin >>)

\* One hatch for every y from YMin up to YMax in steps of the spacing.
CreateHatchBlock(square, spacing) ==
  LET hatches == (square.YMax - square.YMin) \div spacing + 1
      y(n) == square.YMin + ((n - 1) \div 4) * spacing
  IN  VectorBlock("hatches",
        [n \in 1 .. 4 * hatches |-> CASE n % 4 = 1 -> square.XMin
                                      [] n % 4 = 3 -> square.XMax
                                      [] OTHER     -> y(n)])

CreateHatchedSquareGeometry(square) ==
  << CreateContourBlock(square), CreateHatchBlock(square, HATCH_SPACING) >>

\* The same square on every layer.
CreateWorkPlaneForLayer == CreateHatchedSquareGeometry(SquareDefinition(0, 0, SQUARE_SIZE))

\* Mutant: the keys of the map count from 1.
KeysFromOne == [key \in {1} |-> [speed |-> 100, focus |-> 0, power |-> 0]]

\* The map of the job shell.
CreateJobShell == [key \in {0} |-> [speed |-> 100, focus |-> 0, power |-> 0]]
-----------------------------------------------------------------------------
\* An OvfFileWriterException reaches Main.
Fails == genStep' = "returned" /\ genExitCode' = 1

\* Mutant: a negative number of layers is accepted.
ParseAcceptsAll ==
  /\ genStep = "Parse"
  /\ \/ Fails /\ UNCHANGED NumberOfLayers
     \/ \E n \in LayerArgs : /\ NumberOfLayers' = n /\ genStep' = "StartWritePartial"
                             /\ UNCHANGED genExitCode
  /\ UNCHANGED << planes, ovfFile >>

\* CommandLineHandler.Parse: arguments that are too few or no numbers are refused.
Parse ==
  /\ genStep = "Parse"
  /\ \/ Fails /\ UNCHANGED NumberOfLayers
     \/ \E n \in LayerArgs : /\ n >= 0
                             /\ NumberOfLayers' = n /\ genStep' = "StartWritePartial"
                             /\ UNCHANGED genExitCode
  /\ UNCHANGED << planes, ovfFile >>

\* Generate: the using block and its catch.
StartWritePartial ==
  /\ genStep = "StartWritePartial"
  /\ \/ genStep' = "AppendWorkPlane" /\ ovfFile' = "partial" /\ UNCHANGED genExitCode
     \/ Fails /\ ovfFile' \in {"none", "partial", "complete"}
  /\ UNCHANGED << NumberOfLayers, planes >>

AppendWorkPlane ==
  /\ genStep = "AppendWorkPlane" /\ Len(planes) < NumberOfLayers
  /\ \/ planes' = Append(planes, CreateWorkPlaneForLayer)
        /\ UNCHANGED << genStep, ovfFile, genExitCode >>
     \/ Fails /\ ovfFile' \in {"partial", "complete"} /\ UNCHANGED planes
  /\ UNCHANGED NumberOfLayers

\* Mutant: an exception of Dispose is swallowed.
DisposeSwallows ==
  /\ genStep = "AppendWorkPlane" /\ Len(planes) = NumberOfLayers
  /\ genStep' = "returned"
  /\ ovfFile' \in {"partial", "complete"}
  /\ UNCHANGED << NumberOfLayers, planes, genExitCode >>

\* The end of the using block completes the file; Generate and Main return.
Dispose ==
  /\ genStep = "AppendWorkPlane" /\ Len(planes) = NumberOfLayers
  /\ \/ genStep' = "returned" /\ ovfFile' = "complete" /\ UNCHANGED genExitCode
     \/ Fails /\ ovfFile' \in {"partial", "complete"}
  /\ UNCHANGED << NumberOfLayers, planes >>

Generate == Parse \/ StartWritePartial \/ AppendWorkPlane \/ Dispose
-----------------------------------------------------------------------------
\* The tool never asks for a negative number of layers and appends no more planes
\* than were asked for, each with its two blocks (CommandLineHandler.Parse, Generate).
GeneratorTypeOK ==
  /\ genStep \in {"Parse", "StartWritePartial", "AppendWorkPlane", "returned"}
  /\ NumberOfLayers \in Nat /\ Len(planes) <= NumberOfLayers
  /\ \A p \in DOMAIN planes : planes[p] = CreateWorkPlaneForLayer
  /\ ovfFile \in {"none", "partial", "complete"} /\ genExitCode \in {0, 1}

\* An exit code of 0 stands for a complete file with all the layers that were asked
\* for, whichever call of the writer failed, its disposal included (Main, Generate).
ExitZeroMeansComplete ==
  genStep = "returned" /\ genExitCode = 0 =>
    ovfFile = "complete" /\ Len(planes) = NumberOfLayers
=============================================================================
