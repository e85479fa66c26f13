-------------------------- MODULE MCGeometryProofs --------------------------
(***************************************************************************)
(* Proofs about one block and the scanner that carries it out, for points  *)
(* arrays of every length, every scale and every rated power.              *)
(***************************************************************************)
EXTENDS MCGeometryHandler, GeometryProofs

\* k of the block's commands are carried out.
After(k, C) ==
  /\ Len(commands) = Len(C) - k
  /\ \A j \in 1 .. Len(commands) : commands[j] = C[k + j]
  /\ Progress(block, params, k, regs)
  /\ Len(exposed) = LinesDone(block, k)

GInv ==
  /\ TypeOK
  /\ \E garbage \in GarbageReads(Int), k \in 0 .. MoveCount(block) + 3 :
       After(k, processVectorBlock(block, params, garbage))
  /\ \A n \in DOMAIN exposed :
       n <= LineCount(block) => Draws(exposed[n], BlockPlan(block, params)[n])

\* The inputs are blocks and parameters.
LEMMA InputTypes ==
  /\ SomeBlocks \subseteq Blocks
  /\ SomeParams \subseteq Params
  /\ GarbageReads({-6, 3}) \subseteq GarbageReads(Int)
<1>1. SomePoints \subseteq Seq(Int)
  <2>1. ASSUME NEW n \in 0 .. MaxPoints, NEW u \in Lengths, NEW v \in Lengths
        PROVE  [k \in 1 .. n |-> IF k % 3 = 0 THEN u ELSE k * v] \in Seq(Int)
    <3>1. n \in Nat /\ u \in Int /\ v \in Int
      BY MaxPointsAssumption DEF Lengths
    <3>2. \A k \in 1 .. n : (IF k % 3 = 0 THEN u ELSE k * v) \in Int
      BY <3>1
    <3> QED
      BY <3>1, <3>2
  <2> QED
    BY <2>1 DEF SomePoints
<1>2. SomeBlocks \subseteq Blocks
  BY <1>1 DEF SomeBlocks, Blocks
<1>3. SomeParams \subseteq Params
  BY DEF SomeParams, Params, Powers
<1>4. GarbageReads({-6, 3}) \subseteq GarbageReads(Int)
  BY DEF GarbageReads
<1> QED
  BY <1>2, <1>3, <1>4

\* Before the first command.
LEMMA InitGInv == Init => GInv
<1> SUFFICES ASSUME Init PROVE GInv
  OBVIOUS
<1>1. block \in Blocks /\ params \in Params
  BY InputTypes DEF Init
<1>2. PICK garbage \in GarbageReads(Int) : commands = processVectorBlock(block, params, garbage)
  BY InputTypes DEF Init
<1> DEFINE C == processVectorBlock(block, params, garbage)
<1>3. C \in Seq(Command) /\ Len(C) = MoveCount(block) + 3 /\ MoveCount(block) \in Nat
  BY <1>1, BlockCommands
<1>4. regs \in Registers /\ regs.power \in 0 .. 4095
  <2>1. CASE regs = PowerOnRegisters
    BY <2>1 DEF Registers, PowerOnRegisters
  <2>2. CASE regs = [speed |-> 7, focus |-> 7, power |-> 4095, x |-> 9, y |-> -9]
    BY <2>2 DEF Registers
  <2> QED
    BY <2>1, <2>2 DEF Init
<1>5. exposed = << >> /\ exposed \in Seq(Exposures) /\ Len(exposed) = 0 /\ DOMAIN exposed = {}
  <2>1. exposed = << >>
    BY DEF Init
  <2> QED
    BY <2>1
<1> HIDE DEF C
<1>6. commands = C
  BY <1>2 DEF C
<1>7. TypeOK
  BY <1>1, <1>3, <1>4, <1>5, <1>6 DEF TypeOK, Blocks, Params
<1>8. After(0, C)
  <2>1. LinesDone(block, 0) = 0
    BY <1>1, LinesInAll
  <2>2. Progress(block, params, 0, regs)
    BY DEF Progress
  <2> QED
    BY <1>3, <1>5, <1>6, <2>1, <2>2 DEF After
<1> QED
  BY <1>3, <1>5, <1>7, <1>8 DEF GInv, C

\* One more command is carried out.
LEMMA ExecuteGInv == ASSUME GInv, Execute PROVE GInv'
<1>1. /\ block \in Blocks /\ params \in Params /\ commands \in Seq(Command)
      /\ regs \in Registers /\ regs.power \in 0 .. 4095 /\ exposed \in Seq(Exposures)
  BY DEF GInv, TypeOK, Blocks, Params
<1>2. PICK garbage \in GarbageReads(Int), k \in 0 .. MoveCount(block) + 3 :
        After(k, processVectorBlock(block, params, garbage))
  BY DEF GInv
<1> DEFINE C == processVectorBlock(block, params, garbage)
           c == C[k + 1]
<1>3. /\ C \in Seq(Command) /\ Len(C) = MoveCount(block) + 3 /\ MoveCount(block) \in Nat
      /\ C[1] = addSetMarkSpeed(params.speed)
      /\ C[2] = addSetFocusOffset(mmToBits(params.focus))
  BY <1>1, BlockCommands
<1>4. After(k, C)
  BY <1>2
<1>5. /\ commands # << >> /\ UNCHANGED << block, params >>
      /\ regs' = RegistersAfter(regs, Head(commands))
      /\ exposed' = ExposedAfter(exposed, regs, Head(commands))
      /\ commands' = Tail(commands)
  BY DEF Execute
<1> HIDE DEF C
<1>6. /\ k \in Nat /\ k < MoveCount(block) + 3 /\ k + 1 \in 0 .. MoveCount(block) + 3
      /\ Head(commands) = c /\ c \in Command
  <2>1. Len(commands) \in Nat /\ Len(commands) >= 1
    BY <1>1, <1>5
  <2>2. k \in Nat /\ k < MoveCount(block) + 3
    BY <1>3, <1>4, <2>1 DEF After
  <2>3. Head(commands) = commands[1] /\ commands[1] = C[k + 1]
    BY <1>1, <1>4, <1>5, <2>1 DEF After
  <2>4. k + 1 \in 1 .. Len(C)
    BY <1>3, <2>2
  <2> QED
    BY <1>3, <2>2, <2>3, <2>4
<1>7. /\ Progress(block, params, k + 1, RegistersAfter(regs, c))
      /\ c.op = "mark_abs" =>
           /\ LinesDone(block, k + 1) = LinesDone(block, k) + 1
           /\ LinesDone(block, k + 1) <= LineCount(block) =>
                Draws(Exposure(regs, c), BlockPlan(block, params)[LinesDone(block, k + 1)])
      /\ c.op # "mark_abs" => LinesDone(block, k + 1) = LinesDone(block, k)
  BY <1>1, <1>4, <1>6, ProgressStep DEF After, C
<1>8. /\ commands' \in Seq(Command) /\ Len(commands') = Len(commands) - 1
      /\ \A j \in 1 .. Len(commands') : commands'[j] = commands[j + 1]
  BY <1>1, <1>5
<1>9. regs' \in Registers /\ exposed' \in Seq(Exposures)
  <2> HIDE DEF c
  <2>1. RegistersAfter(regs, c) \in Registers /\ ExposedAfter(exposed, regs, c) \in Seq(Exposures)
    BY <1>1, <1>6, ScannerType
  <2> QED
    BY <1>5, <1>6, <2>1
<1>10. regs'.power \in 0 .. 4095
  <2>1. CASE k >= 2
    <3>1. regs'.power = powerToDAC(params.power)
      BY <1>5, <1>6, <1>7, <2>1 DEF Progress
    <3>2. params.power \in Int
      BY <1>1 DEF Params
    <3> DEFINE dac == powerToDAC(params.power)
    <3>3. dac \in Nat /\ dac <= 4095
      BY ONLY <3>2, PowerToDACRange
    <3> HIDE DEF dac
    <3>4. dac \in 0 .. 4095
      BY ONLY <3>3
    <3> QED
      BY <3>1, <3>4 DEF dac
  <2>2. CASE k < 2
    <3>1. mmToBits(params.focus) \in Int /\ params.speed \in Int
      BY <1>1, MmToBitsType DEF Params
    <3>2. c = addSetMarkSpeed(params.speed) \/ c = addSetFocusOffset(mmToBits(params.focus))
      BY <1>3, <1>6, <2>2
    <3>3. regs'.power = regs.power
      BY <1>1, <1>5, <1>6, <3>1, <3>2, CommandEffects
    <3> QED
      BY <1>1, <3>3
  <2> QED
    BY <1>6, <2>1, <2>2
<1>11. After(k + 1, C)'
  <2>1. C' = C
    BY <1>5 DEF C
  <2>2. /\ Len(commands') = Len(C) - (k + 1)
        /\ \A j \in 1 .. Len(commands') : commands'[j] = C[k + 1 + j]
    <3>1. Len(commands) = Len(C) - k /\ Len(commands) \in Nat
      BY <1>1, <1>4 DEF After
    <3>2. ASSUME NEW j \in 1 .. Len(commands') PROVE commands'[j] = C[k + 1 + j]
      <4>1. j + 1 \in 1 .. Len(commands) /\ k + (j + 1) = k + 1 + j
        BY <1>6, <1>8, <3>1
      <4>2. commands'[j] = commands[j + 1]
        BY <1>8
      <4>3. commands[j + 1] = C[k + (j + 1)]
        BY <1>4, <4>1 DEF After
      <4> QED
        BY <4>1, <4>2, <4>3
    <3> QED
      BY <1>3, <1>6, <1>8, <3>1, <3>2
  <2>3. Len(exposed') = LinesDone(block, k + 1)
    <3>1. Len(exposed) = LinesDone(block, k)
      BY <1>4 DEF After
    <3> QED
      BY <1>1, <1>5, <1>6, <1>7, <3>1 DEF ExposedAfter
  <2> QED
    BY <1>5, <1>6, <1>7, <2>1, <2>2, <2>3 DEF After
<1>12. ASSUME NEW n \in DOMAIN exposed', n <= LineCount(block)
       PROVE  Draws(exposed'[n], BlockPlan(block, params)[n])
  <2>1. CASE c.op = "mark_abs"
    <3>1. exposed' = Append(exposed, Exposure(regs, c))
      BY <1>5, <1>6, <2>1 DEF ExposedAfter
    <3>2. Len(exposed) + 1 = LinesDone(block, k + 1)
      BY <1>4, <1>7, <2>1 DEF After
    <3>3. CASE n = Len(exposed) + 1
      <4>1. exposed'[n] = Exposure(regs, c)
        BY <1>1, <3>1, <3>3
      <4> QED
        BY <1>7, <1>12, <2>1, <3>2, <3>3, <4>1
    <3>4. CASE n # Len(exposed) + 1
      <4>1. n \in DOMAIN exposed /\ exposed'[n] = exposed[n]
        BY <1>1, <3>1, <3>4
      <4> QED
        BY <1>12, <4>1 DEF GInv
    <3> QED
      BY <3>3, <3>4
  <2>2. CASE c.op # "mark_abs"
    <3>1. exposed' = exposed
      BY <1>5, <1>6, <2>2 DEF ExposedAfter
    <3> QED
      BY <1>12, <3>1 DEF GInv
  <2> QED
    BY <2>1, <2>2
<1>13. TypeOK'
  <2>1. block' = block /\ params' = params
    BY <1>5
  <2>2. block' \in Blocks /\ params' \in Params
    BY <1>1, <2>1
  <2>3. commands' \in Seq(Command)
    BY <1>8
  <2> QED
    BY ONLY <1>9, <1>10, <2>2, <2>3 DEF TypeOK, Blocks, Params
<1>14. \E g \in GarbageReads(Int), m \in 0 .. MoveCount(block') + 3 :
         After(m, processVectorBlock(block, params, g))'
  BY <1>5, <1>6, <1>11 DEF C
<1> QED
  BY <1>5, <1>12, <1>13, <1>14 DEF GInv

\* The inductive invariant of the run of one block.
THEOREM BlockInvariance == Spec => []GInv
<1>1. GInv /\ [Next]_vars => GInv'
  <2> SUFFICES ASSUME GInv, [Next]_vars PROVE GInv'
    OBVIOUS
  <2>1. CASE UNCHANGED vars
    <3>1. /\ block' = block /\ params' = params /\ commands' = commands
          /\ regs' = regs /\ exposed' = exposed
      BY <2>1 DEF vars
    <3>2. TypeOK'
      BY <3>1 DEF GInv, TypeOK
    <3>3. PICK garbage \in GarbageReads(Int), k \in 0 .. MoveCount(block) + 3 :
            After(k, processVectorBlock(block, params, garbage))
      BY DEF GInv
    <3>4. After(k, processVectorBlock(block, params, garbage))'
      BY <3>1, <3>3 DEF After
    <3> QED
      BY <3>1, <3>2, <3>3, <3>4 DEF GInv
  <2> QED
    BY <2>1, ExecuteGInv DEF Next, Finished
<1> QED
  BY <1>1, InitGInv, PTL DEF Spec

\* Commands, registers and exposures are well typed, and the laser power fits into
\* 12 bits, whatever a read behind the points array yields.
THEOREM BlockTypes == Spec => []TypeOK
<1>1. GInv => TypeOK
  BY DEF GInv
<1> QED
  BY <1>1, BlockInvariance, PTL

\* The lines of the plan are exposed as the plan asks for.
LEMMA PlannedLinesRealised ==
  ASSUME GInv, NEW n \in DOMAIN exposed, n <= LineCount(block)
  PROVE  Realises(exposed[n], BlockPlan(block, params)[n])
<1>1. block \in Blocks /\ params \in Params /\ exposed \in Seq(Exposures)
  BY DEF GInv, TypeOK, Blocks, Params
<1>2. BlockPlan(block, params) \in Seq(Items) /\ Len(BlockPlan(block, params)) = LineCount(block)
  BY <1>1, PlanOfBlock
<1>3. n \in 1 .. Len(BlockPlan(block, params))
  BY <1>1, <1>2
<1>4. BlockPlan(block, params)[n] \in Items
  BY <1>2, <1>3
<1> QED
  BY <1>4, DrawsRealises DEF GInv

\* A well-formed block of any length is exposed line by line as the file has it, to
\* the nearest bit and with its own parameters.
THEOREM BlockExposed == Spec => []ExposesTheBlock
<1>1. GInv => ExposesTheBlock
  <2> SUFFICES ASSUME GInv, WellFormed(block)
               PROVE  /\ FollowsPlan(exposed, BlockPlan(block, params))
                      /\ commands = << >> => Len(exposed) = Len(BlockPlan(block, params))
    BY DEF ExposesTheBlock
  <2>1. block \in Blocks /\ params \in Params /\ exposed \in Seq(Exposures)
    BY DEF GInv, TypeOK, Blocks, Params
  <2>2. PICK garbage \in GarbageReads(Int), k \in 0 .. MoveCount(block) + 3 :
          After(k, processVectorBlock(block, params, garbage))
    BY DEF GInv
  <2>3. Len(processVectorBlock(block, params, garbage)) = MoveCount(block) + 3
    BY <2>1, BlockCommands
  <2>4. Len(BlockPlan(block, params)) = LineCount(block)
    BY <2>1, PlanOfBlock
  <2>5. /\ MoveCount(block) \in Nat /\ LinesDone(block, k) <= LineCount(block)
        /\ LinesDone(block, MoveCount(block) + 3) = LineCount(block)
    BY <2>1, LinesInAll
  <2>6. Len(exposed) = LinesDone(block, k)
    BY <2>2 DEF After
  <2>7. FollowsPlan(exposed, BlockPlan(block, params))
    <3>1. \A n \in DOMAIN exposed : n <= LineCount(block)
      <4>1. LineCount(block) \in Nat
        BY <2>1, LinesOfBlock
      <4> QED
        BY <2>1, <2>5, <2>6, <4>1
    <3> QED
      BY <2>4, <2>5, <2>6, <3>1, PlannedLinesRealised DEF FollowsPlan
  <2>8. ASSUME commands = << >> PROVE Len(exposed) = Len(BlockPlan(block, params))
    <3>1. Len(commands) = 0
      BY <2>8
    <3>2. k = MoveCount(block) + 3
      BY <2>2, <2>3, <2>5, <3>1 DEF After
    <3> QED
      BY <2>4, <2>5, <2>6, <3>2
  <2> QED
    BY <2>7, <2>8
<1> QED
  BY <1>1, BlockInvariance, PTL

\* A malformed block of any length costs at most one line that is not in the file,
\* and every line before it is the file's.
THEOREM MalformedBlock == Spec => []MalformedAddsOneLineAtMost
<1>1. GInv => MalformedAddsOneLineAtMost
  <2> SUFFICES ASSUME GInv PROVE MalformedAddsOneLineAtMost
    OBVIOUS
  <2>1. block \in Blocks /\ params \in Params
    BY DEF GInv, TypeOK, Blocks, Params
  <2>2. PICK k \in 0 .. MoveCount(block) + 3 : Len(exposed) = LinesDone(block, k)
    BY DEF GInv, After
  <2>3. LinesDone(block, k) <= LineCount(block) + 1
    BY <2>1, LinesInAll
  <2>4. Len(BlockPlan(block, params)) = LineCount(block)
    BY <2>1, PlanOfBlock
  <2> QED
    BY <2>2, <2>3, <2>4, PlannedLinesRealised DEF MalformedAddsOneLineAtMost
<1> QED
  BY <1>1, BlockInvariance, PTL
=============================================================================
