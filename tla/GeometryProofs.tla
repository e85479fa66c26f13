--------------------------- MODULE GeometryProofs ---------------------------
(***************************************************************************)
(* Proofs about GeometryHandler and the scanner, for every block, every    *)
(* parameter set and every scale: the rounding, the commands of a block,   *)
(* and the lines the scanner has exposed after some of them.               *)
(***************************************************************************)
EXTENDS ExposurePlan, Scanner, TLAPS

-----------------------------------------------------------------------------
(* The commands GeometryHandler produces.                                  *)

\* GeometryHandler::mmToBits yields an integer for every length.
LEMMA MmToBitsType == ASSUME NEW len \in Int PROVE mmToBits(len) \in Int
<1> DEFINE n == len * MM_TO_BITS_CONVERSION_FACTOR
           d == UNITS_PER_MM
<1>1. n \in Int /\ d \in Nat /\ d > 0
  BY ScaleAssumption
<1>2. mmToBits(len) = RoundedDiv(n, d)
  BY DEF mmToBits
<1> HIDE DEF n, d
<1>3. (2 * n + d) \div (2 * d) \in Int /\ (d - 2 * n) \div (2 * d) \in Int
  BY <1>1
<1> QED
  BY <1>1, <1>2, <1>3 DEF RoundedDiv

\* GeometryHandler::powerToDAC stays inside the 12-bit range of the laser's
\* analog output for every power, rated or not, positive or not.
THEOREM PowerToDACRange ==
  ASSUME NEW watt \in Int PROVE powerToDAC(watt) \in Nat /\ powerToDAC(watt) <= 4095
<1> DEFINE clamped == IF watt < 0 THEN 0
                      ELSE IF watt > MAX_LASER_POWER_W THEN MAX_LASER_POWER_W
                      ELSE watt
           m == MAX_LASER_POWER_W
           q == (clamped * 4095) \div m
<1>1. m \in Nat /\ m > 0 /\ clamped \in Nat /\ clamped <= m
  BY ScaleAssumption
<1>2. powerToDAC(watt) = q
  BY DEF powerToDAC
<1> HIDE DEF clamped, m
<1>3. q \in Int /\ clamped * 4095 \in Nat /\ clamped * 4095 <= 4095 * m
  BY <1>1
<1>4. q >= 0 /\ m * q <= clamped * 4095
  BY <1>1, <1>3
<1>5. q <= 4095
  <2>1. SUFFICES ASSUME q >= 4096 PROVE FALSE
    BY <1>3
  <2> HIDE DEF q
  <2>2. m * q >= m * 4096
    BY <2>1, <1>1, <1>3
  <2> QED
    BY <2>2, <1>1, <1>3, <1>4
<1> QED
  BY <1>2, <1>3, <1>4, <1>5

\* A jump or mark of processVectorBlock is a list command, whatever a read
\* behind the points array yields.
LEMMA MoveType ==
  ASSUME NEW points \in Seq(Int), NEW garbage \in GarbageReads(Int),
         NEW k \in Nat, k + 1 <= Len(points) + 2
  PROVE  JumpTo(points, k, garbage) \in Command /\ MarkTo(points, k, garbage) \in Command
<1>1. ASSUME NEW j \in Nat, j <= Len(points) + 2
      PROVE  Coordinate(points, j, garbage) \in Int
  <2>1. (IF j < Len(points) THEN points[j + 1] ELSE garbage[j - Len(points)]) \in Int
    <3>1. CASE j < Len(points)
      BY <3>1
    <3>2. CASE ~(j < Len(points))
      <4>1. j - Len(points) \in 0 .. 2
        BY <1>1, <3>2
      <4> QED
        BY <3>2, <4>1 DEF GarbageReads
    <3> QED
      BY <3>1, <3>2
  <2> QED
    BY <2>1, MmToBitsType DEF Coordinate
<1>2. Coordinate(points, k, garbage) \in Int /\ Coordinate(points, k + 1, garbage) \in Int
  BY <1>1
<1> QED
  BY <1>2 DEF JumpTo, MarkTo, addJumpAbsolute, addMarkAbsolute, Command, CommandOps

\* The commands of a line sequence form a sequence of list commands.
LEMMA LineSequenceType ==
  ASSUME NEW points \in Seq(Int), NEW garbage \in GarbageReads(Int)
  PROVE  LineSequenceCommands(points, garbage) \in Seq(Command)
<1>1. CASE Len(points) < 4
  BY <1>1 DEF LineSequenceCommands
<1>2. CASE ~(Len(points) < 4)
  <2> DEFINE k == (Len(points) - 1) \div 2
             marks == [n \in 1 .. k |-> MarkTo(points, 2 * n, garbage)]
  <2>1. k \in Nat /\ Len(points) \in Nat /\ 2 * k <= Len(points) - 1
    BY <1>2
  <2> HIDE DEF k
  <2>2. ASSUME NEW n \in 1 .. k PROVE MarkTo(points, 2 * n, garbage) \in Command
    <3>1. 2 * n \in Nat /\ 2 * n + 1 <= Len(points) + 2
      BY <2>1
    <3> QED
      BY <3>1, MoveType
  <2>3. marks \in Seq(Command)
    BY <2>1, <2>2
  <2>4. << JumpTo(points, 0, garbage) >> \in Seq(Command)
    <3>1. 0 \in Nat /\ 0 + 1 <= Len(points) + 2
      BY <2>1
    <3> QED
      BY <3>1, MoveType
  <2>5. LineSequenceCommands(points, garbage) = << JumpTo(points, 0, garbage) >> \o marks
    BY <1>2 DEF LineSequenceCommands, k
  <2> HIDE DEF marks
  <2> QED
    BY <2>3, <2>4, <2>5
<1> QED
  BY <1>1, <1>2

\* The commands of hatches form a sequence of list commands.
LEMMA HatchType ==
  ASSUME NEW points \in Seq(Int), NEW garbage \in GarbageReads(Int)
  PROVE  HatchCommands(points, garbage) \in Seq(Command)
<1>1. CASE Len(points) < 4
  BY <1>1 DEF HatchCommands
<1>2. CASE ~(Len(points) < 4)
  <2> DEFINE k == 2 * ((Len(points) + 3) \div 4)
             c(n) == IF n % 2 = 1 THEN JumpTo(points, 2 * (n - 1), garbage)
                                  ELSE MarkTo(points, 2 * (n - 1), garbage)
  <2>1. k \in Nat /\ Len(points) \in Nat /\ 2 * k <= Len(points) + 3
    BY <1>2
  <2>2. HatchCommands(points, garbage) = [n \in 1 .. k |-> c(n)]
    BY <1>2 DEF HatchCommands
  <2> HIDE DEF k
  <2>3. ASSUME NEW n \in 1 .. k PROVE c(n) \in Command
    <3>1. 2 * (n - 1) \in Nat /\ 2 * (n - 1) + 1 <= Len(points) + 2
      BY <2>1
    <3> QED
      BY <3>1, MoveType
  <2> HIDE DEF c
  <2> QED
    BY <2>1, <2>2, <2>3
<1> QED
  BY <1>1, <1>2

\* The parameters of a block become list commands.
LEMMA ParameterCommandsType ==
  ASSUME NEW params \in Params PROVE ParameterCommands(params) \in Seq(Command)
<1>1. params.speed \in Int /\ params.focus \in Int /\ params.power \in Int
  BY DEF Params
<1>2. addSetMarkSpeed(params.speed) \in Command
  BY <1>1 DEF addSetMarkSpeed, BITS_PER_MM, Command, CommandOps
<1>3. addSetFocusOffset(mmToBits(params.focus)) \in Command
  BY <1>1, MmToBitsType DEF addSetFocusOffset, Command, CommandOps
<1>4. addSetLaserPower(1, powerToDAC(params.power)) \in Command
  <2>1. powerToDAC(params.power) \in Int
    BY <1>1, PowerToDACRange
  <2> QED
    BY <2>1 DEF addSetLaserPower, Command, CommandOps
<1> QED
  BY <1>2, <1>3, <1>4 DEF ParameterCommands

\* GeometryHandler::processVectorBlock produces list commands only.
LEMMA ProcessVectorBlockType ==
  ASSUME NEW b \in Blocks, NEW params \in Params, NEW garbage \in GarbageReads(Int)
  PROVE  processVectorBlock(b, params, garbage) \in Seq(Command)
<1>1. GeometryCommands(b, garbage) \in Seq(Command)
  BY LineSequenceType, HatchType DEF GeometryCommands, Blocks
<1> QED
  BY <1>1, ParameterCommandsType DEF processVectorBlock
-----------------------------------------------------------------------------
(* What a list command does to the scanner.                                *)

\* The registers and the exposures keep their types.
LEMMA ScannerType ==
  ASSUME NEW r \in Registers, NEW e \in Seq(Exposures), NEW c \in Command
  PROVE  RegistersAfter(r, c) \in Registers /\ ExposedAfter(e, r, c) \in Seq(Exposures)
<1>1. c.a \in Int /\ c.b \in Int
  BY DEF Command
<1>2. [r EXCEPT !.speed = c.a] \in Registers
  BY <1>1 DEF Registers
<1>3. [r EXCEPT !.focus = c.a] \in Registers
  BY <1>1 DEF Registers
<1>4. [r EXCEPT !.power = c.b] \in Registers
  BY <1>1 DEF Registers
<1>5. [r EXCEPT !.x = c.a, !.y = c.b] \in Registers
  BY <1>1 DEF Registers
<1>6. RegistersAfter(r, c) \in Registers
  BY <1>2, <1>3, <1>4, <1>5, Zenon DEF RegistersAfter
<1>7. Exposure(r, c) \in Exposures
  BY <1>1 DEF Exposure, Exposures, Registers
<1>8. ExposedAfter(e, r, c) \in Seq(Exposures)
  BY <1>7 DEF ExposedAfter
<1> QED
  BY <1>6, <1>8
-----------------------------------------------------------------------------
(* Rounding and truncation.                                                *)

\* std::round in mmToBits gives a position at most half a bit away, for every
\* length of either sign.
THEOREM MmToBitsNearest == ASSUME NEW len \in Int PROVE Nearest(mmToBits(len), len)
<1> DEFINE n == len * MM_TO_BITS_CONVERSION_FACTOR
           d == UNITS_PER_MM
           q == RoundedDiv(n, d)
<1>1. n \in Int /\ d \in Nat /\ d > 0
  BY ScaleAssumption
<1>2. mmToBits(len) = q
  BY DEF mmToBits
<1>3. Nearest(q, len) <=> 2 * (q * d - n) <= d /\ -2 * (q * d - n) <= d
  BY DEF Nearest
<1> HIDE DEF n, d
<1>4. CASE n >= 0
  <2> DEFINE p == (2 * n + d) \div (2 * d)
  <2>1. q = p
    BY <1>4 DEF RoundedDiv
  <2>2. p \in Int /\ (2 * d) * p <= 2 * n + d /\ 2 * n + d < (2 * d) * p + 2 * d
    BY <1>1
  <2> HIDE DEF p, q
  <2>3. p * d \in Int /\ (2 * d) * p = 2 * (p * d)
    BY <1>1, <2>2
  <2>4. 2 * (p * d - n) <= d /\ -2 * (p * d - n) <= d
    <3> DEFINE z == p * d
    <3>1. z \in Int /\ 2 * z <= 2 * n + d /\ 2 * n + d < 2 * z + 2 * d
      BY <2>2, <2>3
    <3> HIDE DEF z
    <3>2. 2 * (z - n) <= d /\ -2 * (z - n) <= d
      BY <1>1, <3>1
    <3> QED
      BY <3>2 DEF z
  <2> QED
    BY <1>2, <1>3, <2>1, <2>4
<1>5. CASE ~(n >= 0)
  <2> DEFINE p == (d - 2 * n) \div (2 * d)
  <2>1. q = -p
    BY <1>5 DEF RoundedDiv
  <2>2. p \in Int /\ (2 * d) * p <= d - 2 * n /\ d - 2 * n < (2 * d) * p + 2 * d
    BY <1>1
  <2> HIDE DEF p, q
  <2>3. p * d \in Int /\ (2 * d) * p = 2 * (p * d) /\ (-p) * d = -(p * d)
    BY <1>1, <2>2
  <2>4. 2 * ((-p) * d - n) <= d /\ -2 * ((-p) * d - n) <= d
    <3> DEFINE z == p * d
    <3>1. z \in Int /\ 2 * z <= d - 2 * n /\ d - 2 * n < 2 * z + 2 * d /\ (-p) * d = -z
      BY <2>2, <2>3
    <3> HIDE DEF z
    <3>2. 2 * (-z - n) <= d /\ -2 * (-z - n) <= d
      BY <1>1, <3>1
    <3> QED
      BY <3>1, <3>2
  <2> QED
    BY <1>2, <1>3, <2>1, <2>4
<1> QED
  BY <1>4, <1>5

\* powerToDAC truncates to the DAC step below the wanted share of the rated power,
\* and stays at the ends of the scale outside the laser's range.
THEOREM PowerToDACRight == ASSUME NEW watt \in Int PROVE RightPower(powerToDAC(watt), watt)
<1> DEFINE m == MAX_LASER_POWER_W
           clamped == IF watt < 0 THEN 0
                      ELSE IF watt > m THEN m
                      ELSE watt
           q == (clamped * 4095) \div m
<1>1. m \in Nat /\ m > 0
  BY ScaleAssumption
<1>2. powerToDAC(watt) = q
  BY DEF powerToDAC
<1>3. q \in 0 .. 4095
  <2> HIDE DEF q
  <2>1. q \in Nat /\ q <= 4095
    BY <1>2, PowerToDACRange
  <2> QED
    BY <2>1
<1> HIDE DEF m
<1>4. q * m <= clamped * 4095 /\ clamped * 4095 < q * m + m /\ clamped \in Nat
  <2>1. clamped \in Nat
    BY <1>1
  <2> HIDE DEF clamped
  <2>2. clamped * 4095 \in Nat
    BY <2>1
  <2> QED
    BY <1>1, <2>1, <2>2
<1>5. clamped = 0 => q = 0
  <2> HIDE DEF clamped
  <2>1. clamped = 0 => q = 0 \div m
    BY DEF q
  <2> QED
    BY <1>1, <2>1
<1>6. clamped = m => q = 4095
  <2>1. ASSUME clamped = m, q < 4095 PROVE FALSE
    <3> HIDE DEF clamped, q
    <3>1. q * m <= 4094 * m
      BY <1>1, <1>3, <2>1
    <3> QED
      BY <1>1, <1>3, <1>4, <2>1, <3>1
  <2> HIDE DEF clamped, q
  <2>2. q \in Nat /\ q <= 4095
    BY <1>3
  <2>3. clamped = m => ~(q < 4095)
    BY <2>1
  <2> QED
    BY <2>2, <2>3
<1>7. /\ watt <= 0 => clamped = 0
      /\ watt >= m => clamped = m
      /\ watt \in 0 .. m - 1 => clamped = watt
  BY <1>1
<1> HIDE DEF clamped, q
<1>8. (q + 1) * m = q * m + m
  BY <1>1, <1>3
<1> QED
  BY <1>2, <1>3, <1>4, <1>5, <1>6, <1>7, <1>8 DEF RightPower, m
-----------------------------------------------------------------------------
(* The commands of one block.                                              *)

\* How many jumps and marks a block has.
MoveCount(blk) ==
  IF Len(blk.points) < 4 THEN 0
  ELSE CASE blk.kind = "line_sequence" -> (Len(blk.points) - 1) \div 2 + 1
         [] blk.kind = "hatches"       -> 2 * ((Len(blk.points) + 3) \div 4)
         [] OTHER                      -> 0

\* Whether its j-th move is a mark.
IsMark(blk, j) == IF blk.kind = "line_sequence" THEN j # 1 ELSE j % 2 = 0

\* The counters of the loops are natural numbers.
LEMMA Counters ==
  ASSUME NEW n \in Nat
  PROVE  /\ n \div 2 \in Nat /\ 2 * (n \div 2) <= n /\ n <= 2 * (n \div 2) + 1
         /\ n >= 1 => (n - 1) \div 2 \in Nat
         /\ 2 * ((n + 3) \div 4) \in Nat
  OBVIOUS

\* A read inside the array is a read of the file.
LEMMA MoveToVertex ==
  ASSUME NEW blk \in Blocks, NEW garbage, NEW j \in Nat, j >= 1, j <= Vertices(blk)
  PROVE  /\ Coordinate(blk.points, 2 * (j - 1), garbage) = mmToBits(Vertex(blk, j)[1])
         /\ Coordinate(blk.points, 2 * (j - 1) + 1, garbage) = mmToBits(Vertex(blk, j)[2])
<1>1. blk.points \in Seq(Int) /\ Len(blk.points) \in Nat
  BY DEF Blocks
<1>2. 2 * j <= Len(blk.points)
  <2> DEFINE n == Len(blk.points)
  <2>1. n \in Nat /\ j <= n \div 2
    BY <1>1 DEF Vertices
  <2> HIDE DEF n
  <2>2. n \div 2 \in Nat /\ 2 * (n \div 2) <= n
    BY <2>1, Counters
  <2>3. 2 * j <= n
    BY <2>1, <2>2
  <2> QED
    BY <2>3 DEF n
<1>3. /\ 2 * (j - 1) < Len(blk.points) /\ 2 * (j - 1) + 1 < Len(blk.points)
      /\ 2 * (j - 1) + 1 = 2 * j - 1 /\ 2 * (j - 1) + 1 + 1 = 2 * j
  BY <1>1, <1>2
<1> QED
  BY <1>3 DEF Coordinate, Vertex

\* The elements of two sequences that are joined.
LEMMA Joined ==
  ASSUME NEW S, NEW T, NEW s \in Seq(S), NEW t \in Seq(T)
  PROVE  /\ Len(s \o t) = Len(s) + Len(t)
         /\ \A n \in 1 .. Len(s) : (s \o t)[n] = s[n]
         /\ \A n \in 1 .. Len(t) : (s \o t)[n + Len(s)] = t[n]
  OBVIOUS

\* The moves of a block: its j-th move goes to its j-th vertex, as long as the file
\* has one.
LEMMA BlockMoves ==
  ASSUME NEW blk \in Blocks, NEW garbage \in GarbageReads(Int)
  PROVE  LET C == GeometryCommands(blk, garbage)
         IN  /\ C \in Seq(Command) /\ Len(C) = MoveCount(blk) /\ MoveCount(blk) \in Nat
             /\ \A j \in 1 .. MoveCount(blk) :
                  /\ C[j].op = IF IsMark(blk, j) THEN "mark_abs" ELSE "jump_abs"
                  /\ j <= Vertices(blk) => /\ C[j].a = mmToBits(Vertex(blk, j)[1])
                                           /\ C[j].b = mmToBits(Vertex(blk, j)[2])
<1> DEFINE C == GeometryCommands(blk, garbage)
           points == blk.points
           move(j) == IF IsMark(blk, j) THEN MarkTo(points, 2 * (j - 1), garbage)
                      ELSE JumpTo(points, 2 * (j - 1), garbage)
<1>1. points \in Seq(Int) /\ Len(points) \in Nat /\ blk.points = points
  BY DEF Blocks
<1> HIDE DEF points
<1>2. C \in Seq(Command)
  BY <1>1, LineSequenceType, HatchType DEF GeometryCommands
<1>3. MoveCount(blk) \in Nat
  <2>1. (Len(points) - 1) \div 2 \in Nat \/ Len(points) < 4
    BY <1>1, Counters
  <2>2. 2 * ((Len(points) + 3) \div 4) \in Nat
    BY <1>1, Counters
  <2> QED
    BY <1>1, <2>1, <2>2 DEF MoveCount
<1>4. ASSUME NEW j \in 1 .. MoveCount(blk)
      PROVE  /\ move(j).op = IF IsMark(blk, j) THEN "mark_abs" ELSE "jump_abs"
             /\ j <= Vertices(blk) => /\ move(j).a = mmToBits(Vertex(blk, j)[1])
                                      /\ move(j).b = mmToBits(Vertex(blk, j)[2])
  <2>1. j \in Nat /\ j >= 1
    BY <1>3
  <2>2. /\ move(j).op = IF IsMark(blk, j) THEN "mark_abs" ELSE "jump_abs"
        /\ move(j).a = Coordinate(points, 2 * (j - 1), garbage)
        /\ move(j).b = Coordinate(points, 2 * (j - 1) + 1, garbage)
    BY DEF MarkTo, JumpTo, addMarkAbsolute, addJumpAbsolute
  <2> HIDE DEF move
  <2> QED
    BY <1>1, <2>1, <2>2, MoveToVertex
<1>5. Len(C) = MoveCount(blk) /\ \A j \in 1 .. MoveCount(blk) : C[j] = move(j)
  <2>1. CASE Len(points) < 4 \/ blk.kind \notin {"line_sequence", "hatches"}
    <3>1. C = << >> /\ MoveCount(blk) = 0
      BY <1>1, <2>1 DEF GeometryCommands, LineSequenceCommands, HatchCommands, MoveCount
    <3> HIDE DEF C
    <3> QED
      BY <3>1
  <2>2. CASE Len(points) >= 4 /\ blk.kind = "line_sequence"
    <3> DEFINE k == (Len(points) - 1) \div 2
               jump == << JumpTo(points, 0, garbage) >>
               marks == [n \in 1 .. k |-> MarkTo(points, 2 * n, garbage)]
    <3>1. C = jump \o marks /\ MoveCount(blk) = k + 1
      BY <1>1, <2>2 DEF GeometryCommands, LineSequenceCommands, MoveCount
    <3>2. k \in Nat
      BY <1>1, <2>2, Counters
    <3> HIDE DEF k, C
    <3>3. Len(jump \o marks) = k + 1
      BY <3>2
    <3>4. ASSUME NEW j \in 1 .. k + 1 PROVE (jump \o marks)[j] = move(j)
      <4>1. CASE j = 1
        BY <2>2, <3>2, <4>1 DEF IsMark
      <4>2. CASE j # 1
        <5>1. j - 1 \in 1 .. k /\ j \in Nat
          BY <3>2, <4>2
        <5>2. (jump \o marks)[j] = marks[j - 1]
          BY <3>2, <4>2, <5>1
        <5>3. IsMark(blk, j)
          BY <2>2, <4>2 DEF IsMark
        <5> QED
          BY <5>1, <5>2, <5>3
      <4> QED
        BY <4>1, <4>2
    <3> QED
      BY <3>1, <3>3, <3>4
  <2>3. CASE Len(points) >= 4 /\ blk.kind = "hatches"
    <3> DEFINE k == 2 * ((Len(points) + 3) \div 4)
    <3>1. /\ MoveCount(blk) = k
          /\ C = [n \in 1 .. k |-> IF n % 2 = 1 THEN JumpTo(points, 2 * (n - 1), garbage)
                                   ELSE MarkTo(points, 2 * (n - 1), garbage)]
      BY <1>1, <2>3 DEF GeometryCommands, HatchCommands, MoveCount
    <3>2. k \in Nat
      BY <1>1, Counters
    <3> HIDE DEF k, C
    <3>3. \A j \in 1 .. k : IsMark(blk, j) <=> ~(j % 2 = 1)
      BY <2>3, <3>2 DEF IsMark
    <3> QED
      BY <3>1, <3>2, <3>3
  <2> QED
    BY <1>1, <2>1, <2>2, <2>3
<1> HIDE DEF C, move
<1> QED
  BY <1>2, <1>3, <1>4, <1>5 DEF C

\* All commands of a block: its parameters first, then its moves.
LEMMA BlockCommands ==
  ASSUME NEW blk \in Blocks, NEW par \in Params, NEW garbage \in GarbageReads(Int)
  PROVE  LET C == processVectorBlock(blk, par, garbage)
         IN  /\ C \in Seq(Command) /\ Len(C) = MoveCount(blk) + 3 /\ MoveCount(blk) \in Nat
             /\ C[1] = addSetMarkSpeed(par.speed)
             /\ C[2] = addSetFocusOffset(mmToBits(par.focus))
             /\ C[3] = addSetLaserPower(1, powerToDAC(par.power))
             /\ \A j \in 1 .. MoveCount(blk) :
                  /\ C[j + 3].op = IF IsMark(blk, j) THEN "mark_abs" ELSE "jump_abs"
                  /\ j <= Vertices(blk) => /\ C[j + 3].a = mmToBits(Vertex(blk, j)[1])
                                           /\ C[j + 3].b = mmToBits(Vertex(blk, j)[2])
<1> DEFINE C == processVectorBlock(blk, par, garbage)
           moves == GeometryCommands(blk, garbage)
           set == ParameterCommands(par)
<1>1. C \in Seq(Command)
  BY ProcessVectorBlockType
<1>2. /\ moves \in Seq(Command) /\ Len(moves) = MoveCount(blk) /\ MoveCount(blk) \in Nat
      /\ \A j \in 1 .. MoveCount(blk) :
           /\ moves[j].op = IF IsMark(blk, j) THEN "mark_abs" ELSE "jump_abs"
           /\ j <= Vertices(blk) => /\ moves[j].a = mmToBits(Vertex(blk, j)[1])
                                    /\ moves[j].b = mmToBits(Vertex(blk, j)[2])
  BY BlockMoves
<1>3. /\ Len(set) = 3
      /\ set[1] = addSetMarkSpeed(par.speed)
      /\ set[2] = addSetFocusOffset(mmToBits(par.focus))
      /\ set[3] = addSetLaserPower(1, powerToDAC(par.power))
  BY DEF ParameterCommands
<1>4. C = set \o moves
  BY DEF processVectorBlock
<1>5. set \in Seq(Command)
  BY ParameterCommandsType
<1> HIDE DEF C, moves, set
<1>6. /\ Len(C) = MoveCount(blk) + 3
      /\ \A n \in 1 .. 3 : C[n] = set[n]
      /\ \A j \in 1 .. MoveCount(blk) : C[j + 3] = moves[j]
  <2>0. set \in Seq(Command) /\ moves \in Seq(Command)
    BY <1>2, <1>5
  <2>1. /\ Len(set \o moves) = Len(set) + Len(moves)
        /\ \A n \in 1 .. Len(set) : (set \o moves)[n] = set[n]
        /\ \A n \in 1 .. Len(moves) : (set \o moves)[n + Len(set)] = moves[n]
    BY ONLY <2>0, Joined
  <2> QED
    BY <1>2, <1>3, <1>4, <2>1
<1> QED
  <2>1. C[1] = set[1] /\ C[2] = set[2] /\ C[3] = set[3]
    BY <1>6
  <2> QED
    BY <1>1, <1>2, <1>3, <1>6, <2>1 DEF C
-----------------------------------------------------------------------------
(* The lines of one block in the file.                                     *)

LineCount(blk) ==
  CASE blk.kind = "line_sequence" -> IF Vertices(blk) < 2 THEN 0 ELSE Vertices(blk) - 1
    [] blk.kind = "hatches"       -> Vertices(blk) \div 2
    [] OTHER                      -> 0

LineAt(blk, n) ==
  IF blk.kind = "line_sequence" THEN << Vertex(blk, n), Vertex(blk, n + 1) >>
  ELSE << Vertex(blk, 2 * n - 1), Vertex(blk, 2 * n) >>

Items == [line : (Int \X Int) \X (Int \X Int), params : Params]

\* The coordinates of the vertices are integers.
LEMMA VertexType ==
  ASSUME NEW blk \in Blocks
  PROVE  /\ Vertices(blk) \in Nat
         /\ \A j \in 1 .. Vertices(blk) : /\ Vertex(blk, j) \in Int \X Int
                                          /\ Vertex(blk, j)[1] \in Int
                                          /\ Vertex(blk, j)[2] \in Int
<1> DEFINE n == Len(blk.points)
<1>1. blk.points \in Seq(Int) /\ n \in Nat /\ Vertices(blk) = n \div 2
  BY DEF Blocks, Vertices
<1> HIDE DEF n
<1>2. n \div 2 \in Nat /\ 2 * (n \div 2) <= n
  BY <1>1, Counters
<1>3. ASSUME NEW j \in 1 .. Vertices(blk)
      PROVE  /\ Vertex(blk, j) \in Int \X Int
             /\ Vertex(blk, j)[1] \in Int /\ Vertex(blk, j)[2] \in Int
  <2>1. 2 * j - 1 \in 1 .. n /\ 2 * j \in 1 .. n
    BY <1>1, <1>2
  <2>2. blk.points[2 * j - 1] \in Int /\ blk.points[2 * j] \in Int
    BY <1>1, <2>1 DEF n
  <2> QED
    BY <2>2 DEF Vertex
<1> QED
  BY <1>1, <1>2, <1>3

\* Lines, for a sequence of vertices and for hatches alike.
LEMMA LinesOfBlock ==
  ASSUME NEW blk \in Blocks
  PROVE  /\ LineCount(blk) \in Nat
         /\ Lines(blk) = [n \in 1 .. LineCount(blk) |-> LineAt(blk, n)]
         /\ \A n \in 1 .. LineCount(blk) : LineAt(blk, n) \in (Int \X Int) \X (Int \X Int)
<1> DEFINE v == Vertices(blk)
<1>1. v \in Nat /\ \A j \in 1 .. v : Vertex(blk, j) \in Int \X Int
  BY VertexType
<1>2. CASE blk.kind = "line_sequence"
  <2>1. LineCount(blk) = IF v < 2 THEN 0 ELSE v - 1
    BY <1>2 DEF LineCount
  <2>2. Lines(blk) = [n \in 1 .. LineCount(blk) |-> LineAt(blk, n)]
    <3>1. CASE v < 2
      <4>1. Lines(blk) = << >> /\ LineCount(blk) = 0
        BY <1>2, <2>1, <3>1 DEF Lines
      <4> QED
        BY <4>1
    <3>2. CASE ~(v < 2)
      <4>1. Lines(blk) = [n \in 1 .. v - 1 |-> << Vertex(blk, n), Vertex(blk, n + 1) >>]
        BY <1>2, <3>2 DEF Lines
      <4> QED
        BY <1>2, <2>1, <3>2, <4>1 DEF LineAt
    <3> QED
      BY <3>1, <3>2
  <2>3. ASSUME NEW n \in 1 .. LineCount(blk) PROVE n \in 1 .. v /\ n + 1 \in 1 .. v
    <3> HIDE DEF v
    <3> QED
      BY <1>1, <2>1
  <2> HIDE DEF v
  <2>4. \A n \in 1 .. LineCount(blk) : LineAt(blk, n) \in (Int \X Int) \X (Int \X Int)
    BY <1>1, <1>2, <2>3 DEF LineAt
  <2> QED
    BY <1>1, <2>1, <2>2, <2>4
<1>3. CASE blk.kind = "hatches"
  <2>1. LineCount(blk) = v \div 2
    BY <1>3 DEF LineCount
  <2>2. Lines(blk) = [n \in 1 .. LineCount(blk) |-> LineAt(blk, n)]
    <3>1. Lines(blk) = [n \in 1 .. v \div 2 |-> << Vertex(blk, 2 * n - 1), Vertex(blk, 2 * n) >>]
      BY <1>3 DEF Lines
    <3> QED
      BY <1>3, <2>1, <3>1 DEF LineAt
  <2> HIDE DEF v
  <2>3. v \div 2 \in Nat /\ 2 * (v \div 2) <= v
    BY <1>1, Counters
  <2>4. ASSUME NEW n \in 1 .. LineCount(blk) PROVE 2 * n - 1 \in 1 .. v /\ 2 * n \in 1 .. v
    BY <1>1, <2>1, <2>3
  <2>5. \A n \in 1 .. LineCount(blk) : LineAt(blk, n) \in (Int \X Int) \X (Int \X Int)
    BY <1>1, <1>3, <2>4 DEF LineAt
  <2> QED
    BY <2>1, <2>2, <2>3, <2>5
<1>4. CASE blk.kind \notin {"line_sequence", "hatches"}
  <2>1. LineCount(blk) = 0 /\ Lines(blk) = << >>
    BY <1>4 DEF LineCount, Lines
  <2> QED
    BY <2>1
<1> QED
  BY <1>2, <1>3, <1>4

\* The plan of a block.
LEMMA PlanOfBlock ==
  ASSUME NEW blk \in Blocks, NEW par \in Params
  PROVE  /\ BlockPlan(blk, par) \in Seq(Items)
         /\ Len(BlockPlan(blk, par)) = LineCount(blk)
         /\ \A n \in 1 .. LineCount(blk) :
              BlockPlan(blk, par)[n] = [line |-> LineAt(blk, n), params |-> par]
<1> DEFINE P == BlockPlan(blk, par)
           k == LineCount(blk)
<1>1. /\ k \in Nat /\ Lines(blk) = [n \in 1 .. k |-> LineAt(blk, n)]
      /\ \A n \in 1 .. k : LineAt(blk, n) \in (Int \X Int) \X (Int \X Int)
  BY LinesOfBlock
<1>2. P = [n \in DOMAIN Lines(blk) |-> [line |-> Lines(blk)[n], params |-> par]]
  BY DEF BlockPlan
<1> HIDE DEF P, k
<1>3. P = [n \in 1 .. k |-> [line |-> LineAt(blk, n), params |-> par]]
  BY <1>1, <1>2
<1>4. \A n \in 1 .. k : [line |-> LineAt(blk, n), params |-> par] \in Items
  BY <1>1 DEF Items
<1>5. P \in Seq(Items) /\ Len(P) = k
  BY <1>1, <1>3, <1>4
<1> QED
  BY <1>3, <1>5 DEF P, k
-----------------------------------------------------------------------------
(* What the scanner has done after k commands of a block.                  *)

\* How many lines it has exposed.
LinesDone(blk, k) ==
  CASE blk.kind = "line_sequence" -> IF k <= 4 THEN 0 ELSE k - 4
    [] blk.kind = "hatches"       -> IF k <= 3 THEN 0 ELSE (k - 3) \div 2
    [] OTHER                      -> 0

\* What it holds in its registers, whatever was there before.
Progress(blk, par, k, r) ==
  /\ k >= 1 => r.speed = par.speed
  /\ k >= 2 => r.focus = mmToBits(par.focus)
  /\ k >= 3 => r.power = powerToDAC(par.power)
  /\ k >= 4 /\ k - 3 <= Vertices(blk) =>
       r.x = mmToBits(Vertex(blk, k - 3)[1]) /\ r.y = mmToBits(Vertex(blk, k - 3)[2])

\* The exposure e is the planned line as the code converts it.
Draws(e, item) ==
  /\ e.fromX = mmToBits(item.line[1][1]) /\ e.fromY = mmToBits(item.line[1][2])
  /\ e.toX = mmToBits(item.line[2][1])   /\ e.toY = mmToBits(item.line[2][2])
  /\ e.focus = mmToBits(item.params.focus)
  /\ e.power = powerToDAC(item.params.power)
  /\ e.speed = item.params.speed

\* The conversions are right, so that it is the line that the plan asks for.
LEMMA DrawsRealises ==
  ASSUME NEW item \in Items, NEW e, Draws(e, item) PROVE Realises(e, item)
<1>1. /\ item.line[1][1] \in Int /\ item.line[1][2] \in Int
      /\ item.line[2][1] \in Int /\ item.line[2][2] \in Int
      /\ item.params.focus \in Int /\ item.params.power \in Int
  BY DEF Items, Params
<1>2. /\ Nearest(e.fromX, item.line[1][1]) /\ Nearest(e.fromY, item.line[1][2])
      /\ Nearest(e.toX, item.line[2][1])   /\ Nearest(e.toY, item.line[2][2])
      /\ Nearest(e.focus, item.params.focus)
  BY <1>1, MmToBitsNearest DEF Draws
<1>3. RightPower(e.power, item.params.power)
  BY <1>1, PowerToDACRight DEF Draws
<1> QED
  BY <1>2, <1>3 DEF Draws, Realises

\* mm/s times 1000 bits/mm over 1000 ms/s is the number itself.
LEMMA SpeedKept ==
  ASSUME NEW v \in Int PROVE (v * BITS_PER_MM) \div 1000 = v
  BY DEF BITS_PER_MM

\* What each command does to the registers.
LEMMA CommandEffects ==
  ASSUME NEW r \in Registers, NEW x \in Int, NEW y \in Int
  PROVE  /\ LET s == RegistersAfter(r, addSetMarkSpeed(x))
            IN  s.speed = x /\ s.focus = r.focus /\ s.power = r.power
         /\ LET s == RegistersAfter(r, addSetFocusOffset(x))
            IN  s.speed = r.speed /\ s.focus = x /\ s.power = r.power
         /\ LET s == RegistersAfter(r, addSetLaserPower(1, x))
            IN  s.speed = r.speed /\ s.focus = r.focus /\ s.power = x
         /\ \A c \in Command : c.op \in {"jump_abs", "mark_abs"} =>
              LET s == RegistersAfter(r, c)
              IN  /\ s.speed = r.speed /\ s.focus = r.focus /\ s.power = r.power
                  /\ s.x = c.a /\ s.y = c.b
<1>1. LET s == RegistersAfter(r, addSetMarkSpeed(x))
      IN  s.speed = x /\ s.focus = r.focus /\ s.power = r.power
  <2>1. RegistersAfter(r, addSetMarkSpeed(x)) = [r EXCEPT !.speed = x]
    <3>1. addSetMarkSpeed(x).op = "set_mark_speed" /\ addSetMarkSpeed(x).a = x
      BY SpeedKept DEF addSetMarkSpeed
    <3> QED
      BY <3>1 DEF RegistersAfter
  <2> QED
    BY <2>1 DEF Registers
<1>2. LET s == RegistersAfter(r, addSetFocusOffset(x))
      IN  s.speed = r.speed /\ s.focus = x /\ s.power = r.power
  <2>1. RegistersAfter(r, addSetFocusOffset(x)) = [r EXCEPT !.focus = x]
    BY DEF RegistersAfter, addSetFocusOffset
  <2> QED
    BY <2>1 DEF Registers
<1>3. LET s == RegistersAfter(r, addSetLaserPower(1, x))
      IN  s.speed = r.speed /\ s.focus = r.focus /\ s.power = x
  <2>1. RegistersAfter(r, addSetLaserPower(1, x)) = [r EXCEPT !.power = x]
    BY DEF RegistersAfter, addSetLaserPower
  <2> QED
    BY <2>1 DEF Registers
<1>4. ASSUME NEW c \in Command, c.op \in {"jump_abs", "mark_abs"}
      PROVE  LET s == RegistersAfter(r, c)
             IN  /\ s.speed = r.speed /\ s.focus = r.focus /\ s.power = r.power
                 /\ s.x = c.a /\ s.y = c.b
  <2>1. RegistersAfter(r, c) = [r EXCEPT !.x = c.a, !.y = c.b]
    BY <1>4 DEF RegistersAfter
  <2> QED
    BY <2>1 DEF Registers
<1> QED
  BY <1>1, <1>2, <1>3, <1>4

\* One more command of a block: the registers are what they should be then, and a
\* line that is exposed is the next one of the plan, with the block's parameters.
LEMMA ProgressStep ==
  ASSUME NEW blk \in Blocks, NEW par \in Params, NEW garbage \in GarbageReads(Int),
         NEW k \in Nat, k < MoveCount(blk) + 3, NEW r \in Registers,
         Progress(blk, par, k, r)
  PROVE  LET c == processVectorBlock(blk, par, garbage)[k + 1]
         IN  /\ Progress(blk, par, k + 1, RegistersAfter(r, c))
             /\ c.op = "mark_abs" =>
                  /\ LinesDone(blk, k + 1) = LinesDone(blk, k) + 1
                  /\ LinesDone(blk, k + 1) <= LineCount(blk) =>
                       Draws(Exposure(r, c), BlockPlan(blk, par)[LinesDone(blk, k + 1)])
             /\ c.op # "mark_abs" => LinesDone(blk, k + 1) = LinesDone(blk, k)
<1> DEFINE C == processVectorBlock(blk, par, garbage)
           c == C[k + 1]
           s == RegistersAfter(r, c)
<1>1. /\ C \in Seq(Command) /\ Len(C) = MoveCount(blk) + 3 /\ MoveCount(blk) \in Nat
      /\ C[1] = addSetMarkSpeed(par.speed)
      /\ C[2] = addSetFocusOffset(mmToBits(par.focus))
      /\ C[3] = addSetLaserPower(1, powerToDAC(par.power))
      /\ \A j \in 1 .. MoveCount(blk) :
           /\ C[j + 3].op = IF IsMark(blk, j) THEN "mark_abs" ELSE "jump_abs"
           /\ j <= Vertices(blk) => /\ C[j + 3].a = mmToBits(Vertex(blk, j)[1])
                                    /\ C[j + 3].b = mmToBits(Vertex(blk, j)[2])
  BY BlockCommands
<1>2. par.speed \in Int /\ par.focus \in Int /\ par.power \in Int
  BY DEF Params
<1>3. mmToBits(par.focus) \in Int /\ powerToDAC(par.power) \in Int
  BY <1>2, MmToBitsType, PowerToDACRange
<1> HIDE DEF C
<1>4. CASE k < 3
  <2>1. c.op # "mark_abs" /\ Progress(blk, par, k + 1, s)
    <3>1. CASE k = 0
      <4>1. c = addSetMarkSpeed(par.speed)
        BY <1>1, <3>1
      <4>2. s.speed = par.speed
        BY <1>2, <4>1, CommandEffects
      <4> QED
        BY <3>1, <4>1, <4>2 DEF Progress, addSetMarkSpeed
    <3>2. CASE k = 1
      <4>1. c = addSetFocusOffset(mmToBits(par.focus))
        BY <1>1, <3>2
      <4>2. s.speed = r.speed /\ s.focus = mmToBits(par.focus)
        BY <1>3, <4>1, CommandEffects
      <4> QED
        BY <1>3, <3>2, <4>1, <4>2 DEF Progress, addSetFocusOffset
    <3>3. CASE k = 2
      <4>1. c = addSetLaserPower(1, powerToDAC(par.power))
        BY <1>1, <3>3
      <4>2. s.speed = r.speed /\ s.focus = r.focus /\ s.power = powerToDAC(par.power)
        BY <1>3, <4>1, CommandEffects
      <4> QED
        BY <1>3, <3>3, <4>1, <4>2 DEF Progress, addSetLaserPower
    <3> QED
      BY <1>4, <3>1, <3>2, <3>3
  <2>2. LinesDone(blk, k + 1) = 0 /\ LinesDone(blk, k) = 0
    BY <1>4 DEF LinesDone
  <2> QED
    BY <2>1, <2>2 DEF C
<1>5. CASE k >= 3
  <2> DEFINE j == k - 2
  <2>1. j \in 1 .. MoveCount(blk) /\ j + 3 = k + 1 /\ j = k + 1 - 3
    BY <1>1, <1>5
  <2>2. /\ c.op = IF IsMark(blk, j) THEN "mark_abs" ELSE "jump_abs"
        /\ j <= Vertices(blk) => /\ c.a = mmToBits(Vertex(blk, j)[1])
                                 /\ c.b = mmToBits(Vertex(blk, j)[2])
        /\ c \in Command
    <3>1. k + 1 \in 1 .. Len(C)
      BY <1>1
    <3> QED
      BY <1>1, <2>1, <3>1
  <2> HIDE DEF c
  <2>3. /\ s.speed = r.speed /\ s.focus = r.focus /\ s.power = r.power
        /\ s.x = c.a /\ s.y = c.b
    BY <2>2, CommandEffects
  <2> HIDE DEF j
  <2>4. Progress(blk, par, k + 1, s)
    BY <1>5, <2>1, <2>2, <2>3 DEF Progress
  <2>5. ASSUME c.op = "mark_abs"
        PROVE  /\ LinesDone(blk, k + 1) = LinesDone(blk, k) + 1
               /\ LinesDone(blk, k + 1) <= LineCount(blk) =>
                    Draws(Exposure(r, c), BlockPlan(blk, par)[LinesDone(blk, k + 1)])
    <3> DEFINE n == LinesDone(blk, k + 1)
               v == Vertices(blk)
    <3>1. IsMark(blk, j) /\ v \in Nat
      BY <2>2, <2>5, VertexType
    <3>2. /\ n = LinesDone(blk, k) + 1 /\ n \in Nat /\ n >= 1
          /\ n <= LineCount(blk) =>
               /\ j <= v /\ k >= 4 /\ k - 3 <= v
               /\ LineAt(blk, n) = << Vertex(blk, k - 3), Vertex(blk, j) >>
      <4>1. CASE blk.kind = "line_sequence"
        <5>1. k >= 4 /\ n = k - 3 /\ LinesDone(blk, k) = k - 4
          BY <1>5, <2>1, <3>1, <4>1 DEF IsMark, LinesDone
        <5>2. n <= LineCount(blk) => j <= v
          BY <2>1, <3>1, <4>1, <5>1 DEF LineCount
        <5>3. LineAt(blk, n) = << Vertex(blk, k - 3), Vertex(blk, j) >>
          BY <2>1, <4>1, <5>1 DEF LineAt
        <5> HIDE DEF n, v
        <5> QED
          BY <2>1, <3>1, <5>1, <5>2, <5>3
      <4>2. CASE blk.kind = "hatches"
        <5>1. j % 2 = 0 /\ j \in Nat /\ j >= 1 /\ k - 3 = j - 1
          BY <1>1, <2>1, <3>1, <4>2 DEF IsMark
        <5>2. PICK h \in Nat : j = 2 * h /\ h >= 1
          <6>1. j = 2 * (j \div 2) /\ j \div 2 \in Nat /\ j \div 2 >= 1
            BY <5>1
          <6> QED
            BY <6>1
        <5>3. k >= 4 /\ k + 1 - 3 = 2 * h /\ k - 3 = 2 * h - 1
          BY <5>1, <5>2, <2>1
        <5>4. n = h /\ LinesDone(blk, k) = h - 1
          <6>1. (2 * h) \div 2 = h
            BY <5>2
          <6>2. (2 * h - 1) \div 2 = h - 1
            BY <5>2
          <6>3. n = (2 * h) \div 2 /\ LinesDone(blk, k) = (2 * h - 1) \div 2
            BY <4>2, <5>3 DEF LinesDone
          <6> HIDE DEF n
          <6> QED
            BY <6>1, <6>2, <6>3
        <5> HIDE DEF n, v
        <5>5. n <= LineCount(blk) => j <= v
          <6>1. LineCount(blk) = v \div 2
            BY <4>2 DEF LineCount, v
          <6>2. v \div 2 \in Nat /\ 2 * (v \div 2) <= v
            BY <3>1, Counters
          <6> QED
            BY <3>1, <5>2, <5>4, <6>1, <6>2
        <5>6. LineAt(blk, n) = << Vertex(blk, k - 3), Vertex(blk, j) >>
          BY <4>2, <5>2, <5>3, <5>4 DEF LineAt
        <5> QED
          BY <3>1, <5>1, <5>2, <5>3, <5>4, <5>5, <5>6
      <4>3. CASE blk.kind \notin {"line_sequence", "hatches"}
        <5>1. MoveCount(blk) = 0
          BY <4>3 DEF MoveCount
        <5> QED
          BY <2>1, <5>1
      <4> QED
        BY <4>1, <4>2, <4>3
    <3> HIDE DEF n, v
    <3>3. ASSUME n <= LineCount(blk) PROVE Draws(Exposure(r, c), BlockPlan(blk, par)[n])
      <4>1. /\ j <= v /\ k >= 4 /\ k - 3 <= v
            /\ LineAt(blk, n) = << Vertex(blk, k - 3), Vertex(blk, j) >>
        BY <3>2, <3>3
      <4>2. BlockPlan(blk, par)[n] = [line |-> << Vertex(blk, k - 3), Vertex(blk, j) >>,
                                      params |-> par]
        <5>1. n \in 1 .. LineCount(blk)
          BY <3>2, <3>3, LinesOfBlock
        <5> QED
          BY <4>1, <5>1, PlanOfBlock
      <4>3. /\ r.x = mmToBits(Vertex(blk, k - 3)[1]) /\ r.y = mmToBits(Vertex(blk, k - 3)[2])
            /\ r.focus = mmToBits(par.focus) /\ r.power = powerToDAC(par.power)
            /\ r.speed = par.speed
        BY <1>5, <4>1 DEF Progress, v
      <4>4. c.a = mmToBits(Vertex(blk, j)[1]) /\ c.b = mmToBits(Vertex(blk, j)[2])
        BY <2>2, <4>1 DEF v
      <4> QED
        BY <4>2, <4>3, <4>4 DEF Draws, Exposure
    <3> QED
      BY <3>2, <3>3 DEF n
  <2>6. ASSUME c.op # "mark_abs" PROVE LinesDone(blk, k + 1) = LinesDone(blk, k)
    <3>1. ~IsMark(blk, j)
      BY <2>2, <2>6
    <3>2. CASE blk.kind = "line_sequence"
      BY <1>5, <2>1, <3>1, <3>2 DEF IsMark, LinesDone
    <3>3. CASE blk.kind = "hatches"
      <4>1. j % 2 # 0 /\ j \in Nat /\ j >= 1
        BY <1>1, <2>1, <3>1, <3>3 DEF IsMark
      <4>2. PICK h \in Nat : j = 2 * h + 1
        <5>1. j = 2 * (j \div 2) + 1 /\ j \div 2 \in Nat
          BY <4>1
        <5> QED
          BY <5>1
      <4>3. k + 1 - 3 = 2 * h + 1 /\ k - 3 = 2 * h
        BY <2>1, <4>2
      <4>4. (2 * h + 1) \div 2 = h /\ (2 * h) \div 2 = h
        BY <4>2
      <4>5. LinesDone(blk, k + 1) = h
        BY <1>5, <3>3, <4>3, <4>4 DEF LinesDone
      <4>6. LinesDone(blk, k) = h
        BY <1>5, <3>3, <4>2, <4>3, <4>4 DEF LinesDone
      <4> QED
        BY <4>5, <4>6
    <3>4. CASE blk.kind \notin {"line_sequence", "hatches"}
      BY <3>4 DEF LinesDone
    <3> QED
      BY <3>2, <3>3, <3>4
  <2> QED
    BY <2>4, <2>5, <2>6 DEF c, C
<1> QED
  BY <1>4, <1>5

\* The arithmetic of the loop bounds against the numbers of lines.
LEMMA LoopBounds ==
  ASSUME NEW n \in Nat, n >= 4
  PROVE  /\ (n - 1) \div 2 <= n \div 2 /\ n \div 2 >= 2
         /\ n % 2 = 0 => (n - 1) \div 2 = n \div 2 - 1
         /\ (n + 3) \div 4 <= (n \div 2) \div 2 + 1
         /\ n % 4 = 0 => (n + 3) \div 4 = (n \div 2) \div 2
<1>1. PICK q \in Nat, s \in 0 .. 3 : n = 4 * q + s
  <2>1. n = 4 * (n \div 4) + (n % 4) /\ n \div 4 \in Nat /\ n % 4 \in 0 .. 3
    OBVIOUS
  <2> QED
    BY <2>1
<1>2. CASE s = 0
  <2>1. /\ (n - 1) \div 2 = 2 * q - 1 /\ n \div 2 = 2 * q
        /\ (n + 3) \div 4 = q /\ (n \div 2) \div 2 = q
    BY <1>1, <1>2
  <2> QED
    BY <1>1, <1>2, <2>1
<1>3. CASE s = 1
  <2>1. /\ (n - 1) \div 2 = 2 * q /\ n \div 2 = 2 * q /\ (n + 3) \div 4 = q + 1
        /\ (n \div 2) \div 2 = q /\ n % 2 = 1 /\ n % 4 = 1
    BY <1>1, <1>3
  <2> QED
    BY <1>1, <1>3, <2>1
<1>4. CASE s = 2
  <2>1. /\ (n - 1) \div 2 = 2 * q /\ n \div 2 = 2 * q + 1 /\ (n + 3) \div 4 = q + 1
        /\ (n \div 2) \div 2 = q /\ n % 4 = 2
    BY <1>1, <1>4
  <2> QED
    BY <1>1, <1>4, <2>1
<1>5. CASE s = 3
  <2>1. /\ (n - 1) \div 2 = 2 * q + 1 /\ n \div 2 = 2 * q + 1 /\ (n + 3) \div 4 = q + 1
        /\ (n \div 2) \div 2 = q /\ n % 2 = 1 /\ n % 4 = 3
    BY <1>1, <1>5
  <2> QED
    BY <1>1, <1>5, <2>1
<1> QED
  BY <1>1, <1>2, <1>3, <1>4, <1>5

\* A block exposes as many lines as the file has, or one more if it is malformed;
\* it never has exposed more than it will in the end.
LEMMA LinesInAll ==
  ASSUME NEW blk \in Blocks
  PROVE  /\ LinesDone(blk, 0) = 0 /\ MoveCount(blk) \in Nat
         /\ \A k \in 0 .. MoveCount(blk) + 3 :
              /\ LinesDone(blk, k) \in Nat
              /\ LinesDone(blk, k) <= LineCount(blk) + 1
              /\ WellFormed(blk) => LinesDone(blk, k) <= LineCount(blk)
         /\ WellFormed(blk) => LinesDone(blk, MoveCount(blk) + 3) = LineCount(blk)
<1> DEFINE n == Len(blk.points)
           m == MoveCount(blk)
<1>1. /\ n \in Nat /\ Vertices(blk) = n \div 2 /\ blk.kind \in BlockKinds
      /\ Len(blk.points) = n
  BY DEF Blocks, Vertices
<1>2. LineCount(blk) \in Nat
  BY LinesOfBlock
<1> HIDE DEF n
<1>3. LinesDone(blk, 0) = 0 /\ LinesDone(blk, 3) = 0
  BY DEF LinesDone
<1>4. CASE n < 4 \/ blk.kind = "other"
  <2>1. m = 0
    BY <1>4 DEF MoveCount, n
  <2>2. \A k \in 0 .. 3 : LinesDone(blk, k) = 0
    BY DEF LinesDone
  <2>3. LineCount(blk) = 0
    <3>1. n < 4 => n \div 2 < 2 /\ (n \div 2) \div 2 = 0
      BY <1>1
    <3> QED
      BY <1>1, <1>4, <3>1 DEF LineCount
  <2> HIDE DEF m
  <2> QED
    BY <1>3, <2>1, <2>2, <2>3 DEF m
<1>5. CASE n >= 4 /\ blk.kind = "line_sequence"
  <2>1. m = (n - 1) \div 2 + 1 /\ LineCount(blk) = n \div 2 - 1
    <3>1. n \div 2 >= 2 /\ n \div 2 \in Nat
      BY <1>1, <1>5, LoopBounds, Counters
    <3>2. m = (n - 1) \div 2 + 1
      BY <1>1, <1>5 DEF MoveCount
    <3>3. LineCount(blk) = n \div 2 - 1
      BY <1>1, <1>5, <3>1 DEF LineCount
    <3> QED
      BY <3>2, <3>3
  <2>2. /\ (n - 1) \div 2 \in Nat /\ (n - 1) \div 2 <= n \div 2
        /\ n % 2 = 0 => (n - 1) \div 2 = n \div 2 - 1
    BY <1>1, <1>5, LoopBounds, Counters
  <2>3. WellFormed(blk) <=> n % 2 = 0
    BY <1>5 DEF WellFormed, n
  <2> HIDE DEF m
  <2>4. m \in Nat /\ m - 1 <= LineCount(blk) + 1 /\ (WellFormed(blk) => m - 1 = LineCount(blk))
        /\ m >= 1
    BY <1>1, <1>2, <2>1, <2>2, <2>3
  <2>5. \A k \in 0 .. m + 3 : LinesDone(blk, k) \in Nat /\ LinesDone(blk, k) <= m - 1
    BY <1>5, <2>4 DEF LinesDone
  <2>6. LinesDone(blk, m + 3) = m - 1
    BY <1>5, <2>4 DEF LinesDone
  <2> QED
    BY <1>2, <1>3, <2>4, <2>5, <2>6 DEF m
<1>6. CASE n >= 4 /\ blk.kind = "hatches"
  <2> DEFINE h == (n + 3) \div 4
  <2>1. m = 2 * h /\ LineCount(blk) = (n \div 2) \div 2
    <3>1. m = 2 * h
      BY <1>1, <1>6 DEF MoveCount
    <3>2. LineCount(blk) = (n \div 2) \div 2
      BY <1>1, <1>6 DEF LineCount
    <3> QED
      BY <3>1, <3>2
  <2>2. /\ h \in Nat /\ h <= (n \div 2) \div 2 + 1
        /\ n % 4 = 0 => h = (n \div 2) \div 2
    BY <1>1, <1>6, LoopBounds
  <2>3. WellFormed(blk) <=> n % 4 = 0
    BY <1>6 DEF WellFormed, n
  <2> HIDE DEF m, h
  <2>4. h <= LineCount(blk) + 1 /\ (WellFormed(blk) => h = LineCount(blk))
    BY <2>1, <2>2, <2>3
  <2>5. ASSUME NEW k \in 0 .. m + 3
        PROVE  LinesDone(blk, k) \in Nat /\ LinesDone(blk, k) <= h
    <3>1. CASE k <= 3
      BY <1>6, <2>2, <3>1 DEF LinesDone
    <3>2. CASE k > 3
      <4>1. LinesDone(blk, k) = (k - 3) \div 2
        BY <1>6, <2>1, <2>2, <3>2 DEF LinesDone
      <4>2. k - 3 \in Nat /\ k - 3 <= 2 * h
        BY <2>1, <2>2, <3>2
      <4>3. (k - 3) \div 2 \in Nat /\ 2 * ((k - 3) \div 2) <= k - 3
        BY <4>2, Counters
      <4> QED
        BY <2>2, <4>1, <4>2, <4>3
    <3> QED
      BY <2>1, <2>2, <3>1, <3>2
  <2>6. LinesDone(blk, m + 3) = h
    <3>1. CASE h = 0
      BY <1>6, <2>1, <3>1 DEF LinesDone
    <3>2. CASE h # 0
      <4>1. LinesDone(blk, m + 3) = (m + 3 - 3) \div 2
        BY <1>6, <2>1, <2>2, <3>2 DEF LinesDone
      <4>2. m + 3 - 3 = 2 * h /\ (2 * h) \div 2 = h
        BY <2>1, <2>2
      <4> QED
        BY <4>1, <4>2
    <3> QED
      BY <3>1, <3>2
  <2>7. m \in Nat
    BY <2>1, <2>2
  <2> QED
    BY <1>2, <1>3, <2>2, <2>4, <2>5, <2>6, <2>7 DEF m
<1> QED
  BY <1>1, <1>4, <1>5, <1>6 DEF BlockKinds
=============================================================================
