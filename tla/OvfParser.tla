------------------------------ MODULE OvfParser ------------------------------
(***************************************************************************)
(* OvfParser: openFile reads header, master look-up table, job shell and   *)
(* the look-up tables of the work planes, and throws at the first one it   *)
(* cannot read, keeping what it has read; getWorkPlane reads one plane.    *)
(* A file is described by which of its parts can be read; a position in a  *)
(* file is the pair of the file and what is there.  Protobuf parses a      *)
(* message by merging it into the object it is given.                      *)
(***************************************************************************)
EXTENDS Naturals, Sequences, SequencesExt

CONSTANTS
  Files,   \* the files that can be opened
  NoFile   \* a path that cannot be opened; no open stream

PlaneParts == [lut : BOOLEAN, shell : BOOLEAN, blocks : Seq(BOOLEAN)]

FileParts ==
  [header : BOOLEAN, jobLut : BOOLEAN, shell : BOOLEAN, planes : Seq(PlaneParts)]

ASSUME FilesAssumption == Files \subseteq FileParts /\ NoFile \notin Files

VARIABLES
  m_file,            \* the file of the open stream, or NoFile
  failed,            \* error bits of the stream
  m_jobShell,        \* the files whose job shells were merged into it
  m_jobLut,          \* positions of the work planes
  m_workPlaneLuts,   \* the tables that were read, by the position of their plane
  opened,            \* the last openFile returned true
  result             \* what the last call returned or threw

vars == << m_file, failed, m_jobShell, m_jobLut, m_workPlaneLuts, opened, result >>

\* Every member keeps its type; the tables only hold positions in files.
TypeOK ==
  /\ m_file \in Files \cup {NoFile}
  /\ {failed, opened} \subseteq BOOLEAN
  /\ m_jobShell \in Seq(Files)
  /\ \A pos \in Range(m_jobLut) \cup Range(m_workPlaneLuts) :
       pos[1] \in Files /\ pos[2] \in DOMAIN pos[1].planes
  /\ result.call \in {"none", "openFile", "getWorkPlane"}
  /\ result.kind \in {"none", "true", "FileParseError", "out_of_range", "plane"}

Init ==
  /\ m_file = NoFile /\ failed = FALSE
  /\ m_jobShell = << >> /\ m_jobLut = << >> /\ m_workPlaneLuts = << >>
  /\ opened = FALSE /\ result = [call |-> "none", kind |-> "none"]
-----------------------------------------------------------------------------
\* What the master look-up table of a file points to.
Planes(file) == [p \in DOMAIN file.planes |-> << file, p >>]

\* Mutant: the bits stay set.
NotCleared(bits) == bits

\* m_file.clear()
Cleared(bits) == FALSE

\* parseDelimitedMessageAt, parseMessageFromPointerAt: the parts are read one
\* after the other; bits set by an earlier read would make the first one fail.
Parses(parts, bits) == ~Cleared(bits) /\ \A part \in Range(parts) : part

\* readAndValidateHeader; parseMasterLut; parseJobShell
HeaderRead(file) == file # NoFile /\ file.header
LutRead(file) == HeaderRead(file) /\ Parses(<< file.jobLut >>, FALSE)
ShellRead(file) == LutRead(file) /\ Parses(<< file.shell >>, FALSE)

\* Mutant: resize instead of reserve puts empty tables in front.
ResizesTables(positions) == [p \in DOMAIN positions |-> << NoFile, p >>] \o positions

\* parseAllWorkPlaneLuts: the tables before the first one that cannot be read.
parseAllWorkPlaneLuts(positions) ==
  LET readable(n) == \A p \in 1 .. n : positions[p][1].planes[positions[p][2]].lut
  IN  SubSeq(positions, 1, CHOOSE n \in 0 .. Len(positions) :
                             readable(n) /\ (n = Len(positions) \/ ~readable(n + 1)))

\* Mutant: the objects of the file before are merged into.
clearNothing(message) == message

\* Clear()
clearMessage(message) == << >>

\* The earlier stream is closed and everything is cleared before the new path is
\* tried; a path that cannot be opened leaves the stream closed.  ifstream::open
\* resets the error bits; the last read may set them.
openFile(file) ==
  /\ m_file' = file
  /\ failed' \in BOOLEAN
  /\ m_jobLut' = clearMessage(m_jobLut) \o IF LutRead(file) THEN Planes(file) ELSE << >>
  /\ m_jobShell' = clearMessage(m_jobShell) \o IF ShellRead(file) THEN << file >> ELSE << >>
  /\ m_workPlaneLuts' = clearMessage(m_workPlaneLuts)
                          \o IF ShellRead(file) THEN parseAllWorkPlaneLuts(m_jobLut')
                                                ELSE << >>
  /\ opened' = (ShellRead(file) /\ Len(m_workPlaneLuts') = Len(m_jobLut'))
  /\ result' = [call |-> "openFile", kind |-> IF opened' THEN "true" ELSE "FileParseError"]

\* Mutant: parseVectorBlocks stops at a damaged block and reports success.
OnlyShell(plane, bits) == Parses(<< plane.shell >>, bits)

\* parseWorkPlaneShell, parseVectorBlocks
PlaneParses(plane, bits) == Parses(<< plane.shell >> \o plane.blocks, bits)

\* The stream that is open now is read at the positions of the table.
getWorkPlane(index) ==
  /\ \/ /\ m_file = NoFile
        /\ result' = [call |-> "getWorkPlane", kind |-> "FileParseError"]
        /\ UNCHANGED failed
     \/ /\ m_file # NoFile /\ index \notin 0 .. Len(m_workPlaneLuts) - 1
        /\ result' = [call |-> "getWorkPlane", kind |-> "out_of_range"]
        /\ UNCHANGED failed
     \/ /\ m_file # NoFile /\ index \in 0 .. Len(m_workPlaneLuts) - 1
        /\ LET pos == m_workPlaneLuts[index + 1]
           IN  result' = [call |-> "getWorkPlane", at |-> pos, index |-> index,
                          kind |-> IF PlaneParses(pos[1].planes[pos[2]], failed)
                                   THEN "plane" ELSE "FileParseError"]
        /\ failed' \in BOOLEAN
  /\ UNCHANGED << m_file, m_jobShell, m_jobLut, m_workPlaneLuts, opened >>

Next ==
  \/ \E file \in Files \cup {NoFile} : openFile(file)
  \/ \E index \in 0 .. Len(m_workPlaneLuts) : getWorkPlane(index)

Spec == Init /\ [][Next]_vars
-----------------------------------------------------------------------------
\* However many files were opened, and failed to, before: the tables and the shell
\* are those of the open stream, in the file's order, and after a successful
\* openFile they are complete (openFile's clears, parseAllWorkPlaneLuts).
TablesOfTheOpenFile ==
  /\ IF m_file = NoFile THEN m_workPlaneLuts = << >> /\ m_jobShell = << >>
     ELSE IsPrefix(m_workPlaneLuts, Planes(m_file)) /\ IsPrefix(m_jobShell, << m_file >>)
  /\ opened => m_workPlaneLuts = Planes(m_file) /\ m_jobShell = << m_file >>

\* A plane that is returned is the one asked for, of the open file, with its shell
\* and all its blocks intact (parseVectorBlocks).
PlaneIsWhole ==
  result.kind = "plane" =>
    /\ result.at = << m_file, result.index + 1 >>
    /\ LET plane == m_file.planes[result.index + 1]
       IN  plane.shell /\ \A b \in DOMAIN plane.blocks : plane.blocks[b]

\* Once a file is open, a plane is refused only if it is itself damaged: neither
\* the end of the stream nor a damaged plane read before spoils the stream
\* (parseDelimitedMessageAt's clear).
RefusedMeansDamaged ==
  opened /\ result.kind = "FileParseError" =>
    LET plane == m_file.planes[result.index + 1]
    IN  ~plane.shell \/ \E b \in DOMAIN plane.blocks : ~plane.blocks[b]
=============================================================================
