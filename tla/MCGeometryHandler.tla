-------------------------- MODULE MCGeometryHandler --------------------------
(***************************************************************************)
(* Drives GeometryHandler and the scanner over bounded inputs: a block and *)
(* its parameters are picked, processVectorBlock translates them, and the  *)
(* scanner carries out the commands one by one, from whatever the previous *)
(* block left in its registers.                                            *)
(***************************************************************************)
EXTENDS ExposurePlan, Scanner

CONSTANT MaxPoints

ASSUME MaxPointsAssumption == MaxPoints \in Nat

\* In 1/16 um: -1.5, 0.25 and 0.75 bits at 4000 bits per mm.
Lengths == {-6, 1, 3}

\* Below, inside, at and above the laser's range.
Powers == {-5, 0, 57, 400, 450}

VARIABLES block, params, commands, regs, exposed

vars == << block, params, commands, regs, exposed >>

SomeParams == [speed : {100, 1000}, focus : {-3, 0}, power : Powers]

\* A fixed ramp of coordinates per length keeps the inputs few and distinct.
SomePoints ==
  UNION {{[k \in 1 .. n |-> IF k % 3 = 0 THEN u ELSE k * v] : u, v \in Lengths} :
         n \in 0 .. MaxPoints}

SomeBlocks == [key : {0}, kind : BlockKinds, points : SomePoints]

Init ==
  /\ block \in SomeBlocks
  /\ params \in SomeParams
  /\ \E garbage \in GarbageReads({-6, 3}) :
       commands = processVectorBlock(block, params, garbage)
  /\ regs \in {PowerOnRegisters,
               [speed |-> 7, focus |-> 7, power |-> 4095, x |-> 9, y |-> -9]}
  /\ exposed = << >>

Execute ==
  /\ commands # << >>
  /\ regs' = RegistersAfter(regs, Head(commands))
  /\ exposed' = ExposedAfter(exposed, regs, Head(commands))
  /\ commands' = Tail(commands)
  /\ UNCHANGED << block, params >>

Finished == commands = << >> /\ UNCHANGED vars

Next == Execute \/ Finished

Spec == Init /\ [][Next]_vars

\* The commands processVectorBlock sends and the registers they leave in the scanner
\* have their types; in particular a laser power fits into 12 bits (powerToDAC).
TypeOK ==
  /\ block \in [key : Int, kind : BlockKinds, points : Seq(Int)]
  /\ params \in [speed : Int, focus : Int, power : Int]
  /\ commands \in Seq(Command)
  /\ regs \in Registers /\ regs.power \in 0 .. 4095
  /\ exposed \in Seq(Exposures)

\* Every well-formed block is exposed exactly as the OVF format defines it, in
\* order, to the nearest bit and with its own power, speed and focus whatever
\* the registers held before (GeometryHandler::processVectorBlock).
ExposesTheBlock ==
  WellFormed(block) =>
    /\ FollowsPlan(exposed, BlockPlan(block, params))
    /\ commands = << >> => Len(exposed) = Len(BlockPlan(block, params))

\* A block whose last vertex or hatch is incomplete costs at most one line that
\* is not in the file (its end is read behind the array), and every line before
\* it is the file's (the size guards and loop steps of processVectorBlock).
MalformedAddsOneLineAtMost ==
  LET plan == BlockPlan(block, params)
      good == Len(plan)
  IN /\ Len(exposed) <= good + 1
     /\ \A n \in DOMAIN exposed : n <= good => Realises(exposed[n], plan[n])

\* The speed the scanner marks with is the speed the OVF file asks for, with
\* the machine's own scale: bits/ms * 1000 = mm/s * bits/mm (README: the factor
\* is "the primary scale factor that converts millimeters to the RTC6 board's
\* internal integer units"; addSetMarkSpeed uses 1000).
MarksAtRequestedSpeed ==
  \A n \in DOMAIN exposed :
    exposed[n].speed * 1000 = params.speed * MM_TO_BITS_CONVERSION_FACTOR
=============================================================================
