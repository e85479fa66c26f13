-------------------------- MODULE GenerateAndPrint --------------------------
(***************************************************************************)
(* The tool chain: OvfFileGenerator writes a file, part of it may be       *)
(* damaged on the way, and the print program opens it.  The answers that   *)
(* PrintController leaves open are here those of OvfParser reading that    *)
(* file.                                                                   *)
(***************************************************************************)
EXTENDS PrintController, OvfFileGenerator, ExposurePlan

CONSTANT NoFile

VARIABLES
  started,   \* the print program was started
  disk,      \* which parts of the file it finds can be read; NoFile if there is none
  m_file, failed, m_jobShell, m_jobLut, m_workPlaneLuts, opened, result
             \* of the parser

parserVars == << m_file, failed, m_jobShell, m_jobLut, m_workPlaneLuts, opened, result >>

chainVars == << vars, generatorVars, started, disk, parserVars >>

ReadableParts ==
  [header : BOOLEAN, jobLut : BOOLEAN, shell : BOOLEAN,
   planes : Seq([lut : BOOLEAN, shell : BOOLEAN, blocks : Seq(BOOLEAN)])]

Parser == INSTANCE OvfParser WITH Files <- ReadableParts

\* What a file with these work planes holds.
JobOf(layers) == [layers |-> layers, params |-> CreateJobShell]

\* A job with the square on n layers.
SquareJob(n) == JobOf([l \in 1 .. n |-> CreateWorkPlaneForLayer])

\* The jobs are those the generator can write, also when it fails half-way.
ToolsFit ==
  /\ \A most \in LayerArgs \cup {0} : \A n \in 0 .. most : SquareJob(n) \in Jobs
  /\ NoFile \notin ReadableParts

ASSUME ChainAssumption == ToolsFit

ChainInit ==
  /\ Init /\ job = JobOf(<< >>)
  /\ GeneratorInit
  /\ Parser!Init
  /\ started = FALSE /\ disk = NoFile
-----------------------------------------------------------------------------
\* The parts of the file that can be damaged, by work plane; 0 for the whole file.
Parts == ({0} \X {"header", "jobLut", "shell"})
           \cup ((DOMAIN planes) \X {"lut", "shell", "contour", "hatches"})

\* The file the generator left, without the damaged parts; a partial one has no
\* master look-up table.
Image(damaged) ==
  LET good(p, part) == << p, part >> \notin damaged
  IN  [header |-> good(0, "header"),
       jobLut |-> ovfFile = "complete" /\ good(0, "jobLut"),
       shell  |-> good(0, "shell"),
       planes |-> [p \in DOMAIN planes |->
                     [lut |-> good(p, "lut"), shell |-> good(p, "shell"),
                      blocks |-> << good(p, "contour"), good(p, "hatches") >>]]]

\* main() is started on the file, also when the generator has failed.
StartPrint ==
  /\ ~started /\ genStep = "returned"
  /\ started' = TRUE
  /\ job' = JobOf(planes)
  /\ \E damaged \in {{}} \cup {{part} : part \in Parts} :
       disk' = IF ovfFile = "none" THEN NoFile ELSE Image(damaged)
  /\ UNCHANGED << boardVars, handlerVars, isSuccessfullySetup, pc, loopVars, endVars,
                  scanVars, bed, generatorVars, parserVars >>

\* run() calls openFile and goes on if it returns true.
OpenTheFile ==
  /\ OpenFile
  /\ Parser!openFile(disk)
  /\ IF opened' THEN pc' = "process" ELSE outcome' = "FileParseError"

\* processOvfJob calls getWorkPlane(i).
GetThePlane ==
  /\ GetWorkPlane
  /\ Parser!getWorkPlane(i)
  /\ IF result'.kind = "plane" THEN pc' = "begin" ELSE outcome' = "FileParseError"

written == << generatorVars, started, disk >>

HostRuns ==
  /\ started
  /\ \/ OpenTheFile \/ GetThePlane
     \/ Host /\ pc \notin {"open", "getWorkPlane"} /\ UNCHANGED parserVars
  /\ UNCHANGED written

BoardRuns == started /\ Board /\ UNCHANGED << parserVars, written >>

Ends == started /\ (PromptForExit \/ Finished) /\ UNCHANGED << parserVars, written >>

ChainNext ==
  \/ Generate /\ UNCHANGED << vars, started, disk, parserVars >>
  \/ StartPrint \/ HostRuns \/ BoardRuns \/ Ends

\* As for the print job: nothing is assumed of the operator or of the generator.
ChainSpec ==
  /\ ChainInit /\ [][ChainNext]_chainVars
  /\ WF_chainVars(HostRuns)
  /\ WF_chainVars(BoardRuns)
-----------------------------------------------------------------------------
WholePlane(plane) == plane.lut /\ plane.shell /\ \A b \in DOMAIN plane.blocks : plane.blocks[b]

TablesIntact ==
  /\ disk # NoFile
  /\ disk.header /\ disk.jobLut /\ disk.shell
  /\ \A p \in DOMAIN disk.planes : disk.planes[p].lut

Intact == TablesIntact /\ \A p \in DOMAIN disk.planes : WholePlane(disk.planes[p])

\* The lines of a hatched square: its sides in turn, and a hatch at every multiple
\* of the spacing above its lower side.
SquareLines ==
  LET h == SQUARE_SIZE \div 2
  IN  {<< -h, -h, h, -h >>, << h, -h, h, h >>, << h, h, -h, h >>, << -h, h, -h, -h >>}
        \cup {<< -h, y, h, y >> : y \in {y \in -h .. h : (y + h) % HATCH_SPACING = 0}}

LinesPerLayer == 4 + SQUARE_SIZE \div HATCH_SPACING + 1

\* What comes out of the tool chain is the square: at every moment only lines of it
\* are exposed, all without laser power as the job shell says, and a job that is
\* reported as processed has exposed all of them once per layer
\* (CreateHatchedSquareGeometry, processVectorBlock, CreateJobShell).
OnlyTheSquareIsExposed ==
  LET lines == {<< e.fromX, e.fromY, e.toX, e.toY >> : e \in Range(exposed)}
      square == {[n \in 1 .. 4 |-> mmToBits(line[n])] : line \in SquareLines}
  IN  /\ lines \subseteq square
      /\ \A e \in Range(exposed) : e.power = 0
      /\ outcome = "AllLayersProcessed" =>
           lines = square /\ Len(exposed) = NumLayers * LinesPerLayer

\* Damage is noticed before the layer it concerns is exposed.  Damaged tables, or a
\* generator that has not completed the file, stop the job before the first layer;
\* a damaged work plane stops it there, with all layers before it exposed in full;
\* and a plane that is translated is the one of the layer the loop is at (openFile
\* reads all tables first, getWorkPlane all blocks).
DamageStopsTheJob ==
  /\ outcome \in {"NoLayers", "AllLayersProcessed"} => Intact
  /\ outcome = "FileParseError" =>
       /\ TablesIntact => /\ ~WholePlane(disk.planes[i + 1])
                          /\ \A p \in 1 .. i : WholePlane(disk.planes[p])
       /\ ~TablesIntact => i = 0
       /\ exec = 0 => Len(exposed) = i * LinesPerLayer
  /\ pc \in {"begin", "blocks"} => result.at = << disk, i + 1 >>
  /\ pc = "process" => Len(m_workPlaneLuts) = NumLayers

\* A file that the generator reports as written, with at least one layer, and that
\* nothing has damaged, is printed to its last layer once the board is set up:
\* every key resolves, every plane is read and no wait is endless.
GeneratedJobIsPrinted ==
  started /\ genExitCode = 0 /\ Intact /\ NumberOfLayers > 0
    ~> outcome \in {"HardwareFailed", "AllLayersProcessed"}
=============================================================================
