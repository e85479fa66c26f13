---------------------------- MODULE ExposurePlan ----------------------------
(***************************************************************************)
(* Reference definition: which lines an OVF job asks to expose, and with   *)
(* which parameters, read off the message definitions of the OVF format    *)
(* (open_vector_format.proto) without any list command.  The properties    *)
(* compare what the scanner exposed with this plan.                        *)
(***************************************************************************)
EXTENDS GeometryHandler, SequencesExt

\* A vertex of a 2D geometry is a pair of floats.
Vertex(block, n) == << block.points[2 * n - 1], block.points[2 * n] >>

Vertices(block) == Len(block.points) \div 2

\* Whole vertices, and for hatches a start and an end for every line.
WellFormed(block) ==
  CASE block.kind = "line_sequence" -> Len(block.points) % 2 = 0
    [] block.kind = "hatches"       -> Len(block.points) % 4 = 0
    [] OTHER                        -> TRUE

\* "connected contiguously in the listed order by straight line segments";
\* "independent straight lines, each defined by one start and one end point".
Lines(block) ==
  CASE block.kind = "line_sequence" ->
         IF Vertices(block) < 2 THEN << >>
         ELSE [n \in 1 .. Vertices(block) - 1 |->
                 << Vertex(block, n), Vertex(block, n + 1) >>]
    [] block.kind = "hatches" ->
         [n \in 1 .. Vertices(block) \div 2 |->
            << Vertex(block, 2 * n - 1), Vertex(block, 2 * n) >>]
    [] OTHER -> << >>

BlockPlan(block, params) ==
  [n \in DOMAIN Lines(block) |-> [line |-> Lines(block)[n], params |-> params]]

\* A block whose parameter set is missing cannot be planned.
LayerPlan(job, layer) ==
  FlattenSeq([b \in DOMAIN layer |->
    IF layer[b].key \in DOMAIN job.params
    THEN BlockPlan(layer[b], job.params[layer[b].key])
    ELSE << >>])

JobPlan(job) ==
  FlattenSeq([l \in DOMAIN job.layers |-> LayerPlan(job, job.layers[l])])
-----------------------------------------------------------------------------
\* At most half a bit away from the exact position.
Nearest(bits, len) ==
  LET error == bits * UNITS_PER_MM - len * MM_TO_BITS_CONVERSION_FACTOR
  IN 2 * error <= UNITS_PER_MM /\ -2 * error <= UNITS_PER_MM

\* The largest of the 4096 DAC steps that does not exceed the wanted share of
\* the rated power; the end of the scale for a power outside the laser's range.
RightPower(dac, watt) ==
  /\ dac \in 0 .. 4095
  /\ watt <= 0 => dac = 0
  /\ watt >= MAX_LASER_POWER_W => dac = 4095
  /\ watt \in 0 .. MAX_LASER_POWER_W - 1 =>
       /\ dac * MAX_LASER_POWER_W <= 4095 * watt
       /\ 4095 * watt < (dac + 1) * MAX_LASER_POWER_W

\* The exposure e is the planned line, with the planned parameters.  The speed
\* register holds bits/ms at ListHandler's own scale of 1000 bits per mm.
Realises(e, item) ==
  /\ Nearest(e.fromX, item.line[1][1]) /\ Nearest(e.fromY, item.line[1][2])
  /\ Nearest(e.toX, item.line[2][1])   /\ Nearest(e.toY, item.line[2][2])
  /\ Nearest(e.focus, item.params.focus)
  /\ RightPower(e.power, item.params.power)
  /\ e.speed = item.params.speed

FollowsPlan(exposed, plan) ==
  /\ Len(exposed) <= Len(plan)
  /\ \A n \in DOMAIN exposed : Realises(exposed[n], plan[n])
=============================================================================
