--------------------------- MODULE OvfParserProofs ---------------------------
(***************************************************************************)
(* Proofs about OvfParser, for every set of files, with any number of      *)
(* planes and blocks and any part of them damaged.                         *)
(***************************************************************************)
EXTENDS OvfParser, WellFoundedInduction, TLAPS

\* Where a table can point to: a work plane of a file.
Positions == {pos \in Files \X Nat : pos[2] \in DOMAIN pos[1].planes}

\* What the parser has read is the beginning of what the open file holds.
TablesInv ==
  /\ m_file \in Files \cup {NoFile} /\ failed \in BOOLEAN /\ opened \in BOOLEAN
  /\ m_file = NoFile => m_workPlaneLuts = << >> /\ m_jobLut = << >> /\ m_jobShell = << >>
  /\ m_file # NoFile => /\ \E n \in 0 .. Len(m_file.planes) :
                             m_workPlaneLuts = SubSeq(Planes(m_file), 1, n)
                        /\ m_jobLut \in {<< >>, Planes(m_file)}
                        /\ m_jobShell \in {<< >>, << m_file >>}
  /\ opened => /\ m_file # NoFile
               /\ m_workPlaneLuts = Planes(m_file) /\ m_jobShell = << m_file >>

\* The calls, and how they end; a failing openFile leaves nothing opened.
ResultInv ==
  /\ result.call \in {"none", "openFile", "getWorkPlane"}
  /\ result.kind \in {"none", "true", "FileParseError", "out_of_range", "plane"}
  /\ PlaneIsWhole
  /\ RefusedMeansDamaged

PInv == TablesInv /\ ResultInv
-----------------------------------------------------------------------------
(* Operators.                                                              *)

\* A file has a sequence of planes, of which every position points to one.
LEMMA PlanesOfFile ==
  ASSUME NEW f \in Files
  PROVE  /\ f.planes \in Seq(PlaneParts)
         /\ Planes(f) \in Seq(Positions) /\ Len(Planes(f)) = Len(f.planes)
         /\ \A p \in 1 .. Len(f.planes) : Planes(f)[p] = << f, p >>
<1>1. f.planes \in Seq(PlaneParts) /\ DOMAIN f.planes = 1 .. Len(f.planes)
      /\ Len(f.planes) \in Nat
  BY FilesAssumption DEF FileParts
<1>2. \A p \in 1 .. Len(f.planes) : << f, p >> \in Positions
  BY <1>1 DEF Positions
<1> QED
  BY <1>1, <1>2 DEF Planes

\* parseAllWorkPlaneLuts returns the beginning of the positions it is given: the
\* loop stops at the first table that it cannot read, or at the end.
LEMMA ReadTables ==
  ASSUME NEW positions, Len(positions) \in Nat
  PROVE  \E n \in 0 .. Len(positions) :
           parseAllWorkPlaneLuts(positions) = SubSeq(positions, 1, n)
<1> DEFINE readable(n) == \A p \in 1 .. n : positions[p][1].planes[positions[p][2]].lut
           stops(n) == readable(n) /\ (n = Len(positions) \/ ~readable(n + 1))
           T == {n \in Nat : n <= Len(positions) /\ readable(Len(positions) - n)}
<1>1. T \subseteq Nat /\ Len(positions) \in T
  <2>1. readable(Len(positions) - Len(positions))
    OBVIOUS
  <2> HIDE DEF readable
  <2> QED
    BY <2>1
<1>2. PICK n \in T : \A m \in T : ~(<<m, n>> \in OpToRel(<, Nat))
  <2> HIDE DEF T
  <2> QED
    BY <1>1, NatLessThanWellFounded, WFMin
<1>3. stops(Len(positions) - n)
  <2>1. n \in Nat /\ n <= Len(positions) /\ readable(Len(positions) - n)
    OBVIOUS
  <2>2. ASSUME n # 0 PROVE ~readable(Len(positions) - n + 1)
    <3>1. n - 1 \in Nat /\ n - 1 < n /\ n - 1 <= Len(positions)
          /\ Len(positions) - (n - 1) = Len(positions) - n + 1
      BY <2>1, <2>2
    <3>2. << n - 1, n >> \in OpToRel(<, Nat)
      BY <2>1, <3>1 DEF OpToRel
    <3>3. n - 1 \notin T
      BY <1>2, <3>2
    <3> HIDE DEF readable
    <3> QED
      BY <3>1, <3>3
  <2> HIDE DEF readable
  <2> QED
    BY <2>1, <2>2
<1>4. Len(positions) - n \in 0 .. Len(positions)
  OBVIOUS
<1>5. \E k \in 0 .. Len(positions) : stops(k)
  BY <1>3, <1>4
<1>6. parseAllWorkPlaneLuts(positions)
        = SubSeq(positions, 1, CHOOSE k \in 0 .. Len(positions) : stops(k))
  BY DEF parseAllWorkPlaneLuts
<1> HIDE DEF stops
<1> QED
  BY <1>5, <1>6

\* A plane parses when its shell and all its blocks can be read: the bits that an
\* earlier read has set are cleared first.
LEMMA PlaneParsesIff ==
  ASSUME NEW plane \in PlaneParts, NEW bits
  PROVE  PlaneParses(plane, bits) <=>
           plane.shell /\ \A b \in DOMAIN plane.blocks : plane.blocks[b]
<1> DEFINE parts == << plane.shell >> \o plane.blocks
<1>1. plane.blocks \in Seq(BOOLEAN) /\ plane.shell \in BOOLEAN
  BY DEF PlaneParts
<1>2. DOMAIN parts = 1 .. Len(plane.blocks) + 1 /\ parts[1] = plane.shell
      /\ \A b \in DOMAIN plane.blocks : parts[b + 1] = plane.blocks[b]
  BY <1>1
<1>3. DOMAIN plane.blocks = 1 .. Len(plane.blocks) /\ Len(plane.blocks) \in Nat
  BY <1>1
<1> HIDE DEF parts
<1>4. (\A part \in Range(parts) : part) <=> (\A n \in DOMAIN parts : parts[n])
  BY SMT DEF Range
<1>5. ASSUME \A n \in DOMAIN parts : parts[n]
      PROVE  plane.shell /\ \A b \in DOMAIN plane.blocks : plane.blocks[b]
  <2>1. 1 \in DOMAIN parts /\ \A b \in DOMAIN plane.blocks : b + 1 \in DOMAIN parts
    BY <1>2, <1>3
  <2> QED
    BY <1>2, <1>5, <2>1, Zenon
<1>6. ASSUME plane.shell, \A b \in DOMAIN plane.blocks : plane.blocks[b],
             NEW n \in DOMAIN parts
      PROVE  parts[n]
  <2>1. CASE n = 1
    BY <1>2, <1>6, <2>1, Zenon
  <2>2. CASE n # 1
    <3>1. n - 1 \in DOMAIN plane.blocks /\ (n - 1) + 1 = n
      BY <1>2, <1>3, <2>2
    <3>2. parts[(n - 1) + 1] = plane.blocks[n - 1]
      BY <1>2, <3>1, Zenon
    <3> QED
      BY <1>6, <3>1, <3>2, Zenon
  <2> QED
    BY <2>1, <2>2
<1>7. PlaneParses(plane, bits) <=> \A part \in Range(parts) : part
  BY Zenon DEF PlaneParses, Parses, Cleared, parts
<1> QED
  BY <1>4, <1>5, <1>6, <1>7, Zenon

-----------------------------------------------------------------------------
(* The parser.                                                             *)

\* A closed parser with empty tables satisfies the invariant.
LEMMA InitPInv == Init => PInv
<1> SUFFICES ASSUME Init PROVE PInv
  OBVIOUS
<1>1. failed \in BOOLEAN /\ opened \in BOOLEAN /\ ~opened
  BY Zenon DEF Init
<1>2. TablesInv
  BY <1>1 DEF Init, TablesInv
<1>3. ResultInv
  BY DEF Init, ResultInv, PlaneIsWhole, RefusedMeansDamaged
<1> QED
  BY <1>2, <1>3 DEF PInv

\* Opening a file, readable or not, keeps the invariant, whatever was open before.
LEMMA OpenPInv ==
  ASSUME NEW f \in Files \cup {NoFile}, openFile(f) PROVE PInv'
<1>1. m_file' = f /\ failed' \in BOOLEAN
  BY DEF openFile
<1>2. /\ m_jobLut' = IF LutRead(f) THEN Planes(f) ELSE << >>
      /\ m_jobShell' = IF ShellRead(f) THEN << f >> ELSE << >>
      /\ m_workPlaneLuts' = IF ShellRead(f) THEN parseAllWorkPlaneLuts(m_jobLut') ELSE << >>
  <2>1. CASE f = NoFile
    <3>1. ~LutRead(f) /\ ~ShellRead(f)
      BY <2>1 DEF LutRead, ShellRead, HeaderRead
    <3> QED
      BY <3>1 DEF openFile, clearMessage
  <2>2. CASE f \in Files
    <3>1. Planes(f) \in Seq(Positions) /\ Len(Planes(f)) \in Nat
      BY <2>2, PlanesOfFile
    <3>2. PICK n \in 0 .. Len(Planes(f)) :
            parseAllWorkPlaneLuts(Planes(f)) = SubSeq(Planes(f), 1, n)
      BY <3>1, ReadTables
    <3>3. ShellRead(f) => LutRead(f)
      BY DEF ShellRead
    <3>4. m_jobLut' = IF LutRead(f) THEN Planes(f) ELSE << >>
      BY <3>1 DEF openFile, clearMessage
    <3>5. m_jobShell' = IF ShellRead(f) THEN << f >> ELSE << >>
      BY DEF openFile, clearMessage
    <3>6. SubSeq(Planes(f), 1, n) \in Seq(Positions)
      BY <3>1
    <3>7. m_workPlaneLuts' = << >> \o IF ShellRead(f) THEN parseAllWorkPlaneLuts(m_jobLut')
                                                      ELSE << >>
      BY DEF openFile, clearMessage
    <3> QED
      BY <3>2, <3>3, <3>4, <3>5, <3>6, <3>7
  <2> QED
    BY <2>1, <2>2
<1>3. opened' = (ShellRead(f) /\ Len(m_workPlaneLuts') = Len(m_jobLut'))
  BY DEF openFile
<1>4. opened' \in BOOLEAN
  BY <1>3, Zenon
<1>5. TablesInv'
  <2>1. CASE f = NoFile
    <3>1. ~LutRead(f) /\ ~ShellRead(f)
      BY <2>1 DEF LutRead, ShellRead, HeaderRead
    <3> QED
      BY <1>1, <1>2, <1>3, <1>4, <2>1, <3>1 DEF TablesInv
  <2>2. CASE f \in Files
    <3>1. Planes(f) \in Seq(Positions) /\ Len(Planes(f)) \in Nat
          /\ Len(Planes(f)) = Len(f.planes)
      BY <2>2, PlanesOfFile
    <3>2. f # NoFile
      BY <2>2, FilesAssumption
    <3>3. CASE ShellRead(f)
      <4>1. m_jobLut' = Planes(f) /\ m_jobShell' = << f >>
            /\ m_workPlaneLuts' = parseAllWorkPlaneLuts(Planes(f))
        BY <1>2, <3>3 DEF ShellRead
      <4>2. PICK n \in 0 .. Len(Planes(f)) : m_workPlaneLuts' = SubSeq(Planes(f), 1, n)
        BY <3>1, <4>1, ReadTables
      <4>3. opened' => m_workPlaneLuts' = Planes(f)
        <5>1. Len(SubSeq(Planes(f), 1, n)) = n
          BY <3>1
        <5>2. opened' => n = Len(Planes(f))
          BY <1>3, <4>1, <4>2, <5>1
        <5>3. SubSeq(Planes(f), 1, Len(Planes(f))) = Planes(f)
          BY <3>1
        <5> QED
          BY <4>2, <5>2, <5>3
      <4> QED
        BY <1>1, <1>4, <2>2, <3>1, <3>2, <4>1, <4>2, <4>3 DEF TablesInv
    <3>4. CASE ~ShellRead(f)
      <4>1. m_workPlaneLuts' = SubSeq(Planes(f), 1, 0) /\ 0 \in 0 .. Len(f.planes)
        BY <1>2, <3>1, <3>4
      <4>2. m_jobLut' \in {<< >>, Planes(f)} /\ m_jobShell' = << >> /\ ~opened'
        BY <1>2, <1>3, <3>4
      <4> QED
        BY <1>1, <1>4, <2>2, <3>2, <4>1, <4>2 DEF TablesInv
    <3> QED
      BY <3>3, <3>4
  <2> QED
    BY <2>1, <2>2
<1>6. ResultInv'
  <2>1. /\ result'.call = "openFile"
        /\ result'.kind = IF opened' THEN "true" ELSE "FileParseError"
    BY DEF openFile
  <2> QED
    BY <2>1 DEF ResultInv, PlaneIsWhole, RefusedMeansDamaged
<1> QED
  BY <1>5, <1>6 DEF PInv

\* Reading a plane keeps the invariant, whatever planes were read before and
\* whatever bits they left in the stream.
LEMMA ReadPInv ==
  ASSUME PInv, NEW index \in Nat, getWorkPlane(index) PROVE PInv'
<1>1. UNCHANGED << m_file, m_jobShell, m_jobLut, m_workPlaneLuts, opened >>
  BY DEF getWorkPlane
<1>2. failed' \in BOOLEAN
  BY DEF getWorkPlane, PInv, TablesInv
<1>3. TablesInv'
  BY <1>1, <1>2 DEF PInv, TablesInv
<1>4. ResultInv'
  <2>1. CASE m_file = NoFile
    <3>1. ~opened
      BY <2>1 DEF PInv, TablesInv
    <3>2. result' = [call |-> "getWorkPlane", kind |-> "FileParseError"]
      BY <2>1 DEF getWorkPlane
    <3> QED
      BY <1>1, <3>1, <3>2 DEF ResultInv, PlaneIsWhole, RefusedMeansDamaged
  <2>2. CASE m_file # NoFile /\ index \notin 0 .. Len(m_workPlaneLuts) - 1
    <3>1. result' = [call |-> "getWorkPlane", kind |-> "out_of_range"]
      BY <2>2 DEF getWorkPlane
    <3> QED
      BY <3>1 DEF ResultInv, PlaneIsWhole, RefusedMeansDamaged
  <2>3. CASE m_file # NoFile /\ index \in 0 .. Len(m_workPlaneLuts) - 1
    <3> DEFINE pos == m_workPlaneLuts[index + 1]
               plane == m_file.planes[index + 1]
    <3>1. m_file \in Files
      BY <2>3 DEF PInv, TablesInv
    <3>2. PICK n \in 0 .. Len(m_file.planes) : m_workPlaneLuts = SubSeq(Planes(m_file), 1, n)
      BY <2>3 DEF PInv, TablesInv
    <3>3. /\ Planes(m_file) \in Seq(Positions) /\ Len(Planes(m_file)) = Len(m_file.planes)
          /\ m_file.planes \in Seq(PlaneParts)
          /\ \A p \in 1 .. Len(m_file.planes) : Planes(m_file)[p] = << m_file, p >>
      BY <3>1, PlanesOfFile
    <3>4. index + 1 \in 1 .. Len(m_file.planes) /\ pos = << m_file, index + 1 >>
      <4>1. Len(m_workPlaneLuts) = n
        BY <3>2, <3>3
      <4>2. index + 1 \in 1 .. n
        BY <2>3, <4>1
      <4> QED
        BY <3>2, <3>3, <4>2
    <3>5. plane \in PlaneParts
      BY <3>3, <3>4
    <3>6. result' = [call |-> "getWorkPlane", at |-> pos, index |-> index,
                     kind |-> IF PlaneParses(plane, failed) THEN "plane" ELSE "FileParseError"]
      <4>1. result' = [call |-> "getWorkPlane", at |-> pos, index |-> index,
                       kind |-> IF PlaneParses(pos[1].planes[pos[2]], failed)
                                THEN "plane" ELSE "FileParseError"]
        BY <2>3 DEF getWorkPlane
      <4> HIDE DEF pos
      <4> QED
        BY <3>4, <4>1
    <3> HIDE DEF pos, plane
    <3>7. /\ result'.call = "getWorkPlane" /\ result'.at = << m_file, index + 1 >>
          /\ result'.index = index
          /\ result'.kind = IF PlaneParses(plane, failed) THEN "plane" ELSE "FileParseError"
      BY <3>4, <3>6
    <3>8. PlaneParses(plane, failed) <=>
            plane.shell /\ \A b \in DOMAIN plane.blocks : plane.blocks[b]
      BY <3>5, PlaneParsesIff
    <3>9. CASE PlaneParses(plane, failed)
      BY <1>1, <3>7, <3>8, <3>9 DEF ResultInv, PlaneIsWhole, RefusedMeansDamaged, plane
    <3>10. CASE ~PlaneParses(plane, failed)
      BY <1>1, <3>7, <3>8, <3>10 DEF ResultInv, PlaneIsWhole, RefusedMeansDamaged, plane
    <3> QED
      BY <3>9, <3>10
  <2> QED
    BY <2>1, <2>2, <2>3
<1> QED
  BY <1>3, <1>4 DEF PInv

\* The inductive invariant holds through any sequence of openFile and getWorkPlane.
THEOREM ParserInvariance == Spec => []PInv
<1>1. PInv /\ [Next]_vars => PInv'
  <2> SUFFICES ASSUME PInv, [Next]_vars PROVE PInv'
    OBVIOUS
  <2>1. CASE \E f \in Files \cup {NoFile} : openFile(f)
    BY <2>1, OpenPInv
  <2>2. CASE \E index \in 0 .. Len(m_workPlaneLuts) : getWorkPlane(index)
    <3>1. PICK index \in 0 .. Len(m_workPlaneLuts) : getWorkPlane(index)
      BY <2>2
    <3> QED
      BY <3>1, ReadPInv
  <2>3. CASE UNCHANGED vars
    BY <2>3 DEF vars, PInv, TablesInv, ResultInv, PlaneIsWhole, RefusedMeansDamaged
  <2> QED
    BY <2>1, <2>2, <2>3 DEF Next
<1> QED
  BY <1>1, InitPInv, PTL DEF Spec

\* Every member keeps its type, and the tables hold positions of work planes only.
THEOREM ParserTypes == Spec => []TypeOK
<1>1. PInv => TypeOK
  <2> SUFFICES ASSUME PInv PROVE TypeOK
    OBVIOUS
  <2>1. m_jobShell \in Seq(Files)
    <3>1. m_jobShell = << >> \/ (m_file \in Files /\ m_jobShell = << m_file >>)
      BY DEF PInv, TablesInv
    <3>2. << >> \in Seq(Files)
      OBVIOUS
    <3>3. m_file \in Files => << m_file >> \in Seq(Files)
      OBVIOUS
    <3> QED
      BY <3>1, <3>2, <3>3
  <2>2. \A pos \in Range(m_jobLut) \cup Range(m_workPlaneLuts) : pos \in Positions
    <3>1. CASE m_file = NoFile
      BY <3>1 DEF PInv, TablesInv, Range
    <3>2. CASE m_file # NoFile
      <4>1. m_file \in Files
        BY <3>2 DEF PInv, TablesInv
      <4>2. Planes(m_file) \in Seq(Positions) /\ Len(Planes(m_file)) = Len(m_file.planes)
        BY <4>1, PlanesOfFile
      <4>3. PICK n \in 0 .. Len(m_file.planes) :
              m_workPlaneLuts = SubSeq(Planes(m_file), 1, n)
        BY <3>2 DEF PInv, TablesInv
      <4>4. m_workPlaneLuts \in Seq(Positions)
        BY <4>2, <4>3
      <4>5. m_jobLut = << >> \/ m_jobLut = Planes(m_file)
        BY <3>2 DEF PInv, TablesInv
      <4>6. m_jobLut \in Seq(Positions)
        <5>1. << >> \in Seq(Positions)
          OBVIOUS
        <5> QED
          BY <4>2, <4>5, <5>1
      <4> QED
        BY <4>4, <4>6 DEF Range
    <3> QED
      BY <3>1, <3>2
  <2>3. \A pos \in Positions : pos[1] \in Files /\ pos[2] \in DOMAIN pos[1].planes
    BY DEF Positions
  <2>4. \A pos \in Range(m_jobLut) \cup Range(m_workPlaneLuts) :
          pos[1] \in Files /\ pos[2] \in DOMAIN pos[1].planes
    BY <2>2, <2>3
  <2> QED
    BY <2>1, <2>4 DEF TypeOK, PInv, TablesInv, ResultInv
<1> QED
  BY <1>1, ParserInvariance, PTL

\* The tables and the shell are those of the open file and, once it is opened
\* successfully, all of them, however many files were opened or refused before.
THEOREM TablesOfOpenFile == Spec => []TablesOfTheOpenFile
<1>1. PInv => TablesOfTheOpenFile
  <2> SUFFICES ASSUME PInv PROVE TablesOfTheOpenFile
    OBVIOUS
  <2>1. ASSUME m_file # NoFile
        PROVE  IsPrefix(m_workPlaneLuts, Planes(m_file)) /\ IsPrefix(m_jobShell, << m_file >>)
    <3>1. m_file \in Files
      BY <2>1 DEF PInv, TablesInv
    <3>2. Planes(m_file) \in Seq(Positions) /\ Len(Planes(m_file)) = Len(m_file.planes)
      BY <3>1, PlanesOfFile
    <3>3. PICK n \in 0 .. Len(m_file.planes) : m_workPlaneLuts = SubSeq(Planes(m_file), 1, n)
      BY <2>1 DEF PInv, TablesInv
    <3>4. Len(m_workPlaneLuts) = n /\ SubSeq(m_workPlaneLuts, 1, n) = m_workPlaneLuts
      <4>1. m_workPlaneLuts \in Seq(Positions) /\ Len(m_workPlaneLuts) = n
        BY <3>2, <3>3
      <4> QED
        BY <4>1
    <3>5. IsPrefix(m_workPlaneLuts, Planes(m_file))
      BY <3>2, <3>3, <3>4 DEF IsPrefix
    <3>6. m_jobShell \in {<< >>, << m_file >>}
      BY <2>1 DEF PInv, TablesInv
    <3>7. IsPrefix(m_jobShell, << m_file >>)
      <4>1. CASE m_jobShell = << >>
        BY <4>1 DEF IsPrefix
      <4>2. CASE m_jobShell = << m_file >>
        BY <4>2 DEF IsPrefix
      <4> QED
        BY <3>6, <4>1, <4>2
    <3> QED
      BY <3>5, <3>7
  <2> QED
    BY <2>1 DEF TablesOfTheOpenFile, PInv, TablesInv
<1> QED
  BY <1>1, ParserInvariance, PTL

\* A plane that getWorkPlane returns is the one asked for, of the open file, with
\* its shell and all its blocks.
THEOREM ReturnedPlaneIsWhole == Spec => []PlaneIsWhole
<1>1. PInv => PlaneIsWhole
  BY DEF PInv, ResultInv
<1> QED
  BY <1>1, ParserInvariance, PTL

\* A plane of an opened file is refused only for damage of its own.
THEOREM RefusalMeansDamage == Spec => []RefusedMeansDamaged
<1>1. PInv => RefusedMeansDamaged
  BY DEF PInv, ResultInv
<1> QED
  BY <1>1, ParserInvariance, PTL
=============================================================================
