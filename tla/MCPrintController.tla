-------------------------- MODULE MCPrintController --------------------------
(***************************************************************************)
(* Small print jobs for TLC, and the properties that compare what was      *)
(* exposed with what the job asks for.                                     *)
(***************************************************************************)
EXTENDS PrintController, ExposurePlan

CONSTANTS
  LayerKinds,   \* which of the layers below a run's jobs are built from
  MaxLayers     \* bound on the number of layers of a job

P1 == [speed |-> 100, focus |-> 0, power |-> 100]
P2 == [speed |-> 300, focus |-> 6, power |-> 400]

Block(kind, key, points) ==
  [key |-> key, kind |-> kind, points |-> points]

\* A long layer of two blocks, a short one that leaves the end of a long one in
\* the list memory, a layer without blocks, one with a geometry that is not
\* supported, one whose second block refers to a missing parameter set, and one
\* with a hatch that is cut short.
Layer(kind) ==
  CASE kind = "long"      -> << Block("line_sequence", 1, << 0, 0, 4, 4, 8, 0 >>),
                                Block("hatches", 2, << 0, 4, 8, 4 >>) >>
    [] kind = "short"     -> << Block("hatches", 2, << 4, 0, 4, 12 >>) >>
    [] kind = "empty"     -> << >>
    [] kind = "other"     -> << Block("other", 1, << >>) >>
    [] kind = "badKey"    -> << Block("line_sequence", 2, << 0, 0, 4, 4 >>),
                                Block("line_sequence", 3, << 0, 4, 4, 0 >>) >>
    [] kind = "malformed" -> << Block("hatches", 2, << 0, 4, 8, 4, 8, 0, 4 >>) >>

\* Every job of at most MaxLayers such layers.
MCJobs ==
  {[layers |-> [l \in DOMAIN kinds |-> Layer(kinds[l])],
    params |-> [k \in {1, 2} |-> IF k = 1 THEN P1 ELSE P2]] :
     kinds \in UNION {[1 .. n -> LayerKinds] : n \in 0 .. MaxLayers}}

MCGarbage == {-4, 12}

WellFormedJob ==
  \A l \in DOMAIN job.layers : \A b \in DOMAIN job.layers[l] :
    WellFormed(job.layers[l][b])

\* What the first n layers of the job ask for.
PlanUpTo(n) == JobPlan([job EXCEPT !.layers = SubSeq(@, 1, n)])

\* The plan without the layers of the set lost.
PlanWithout(lost) ==
  JobPlan([job EXCEPT !.layers =
             [l \in DOMAIN @ |-> IF l \in lost THEN << >> ELSE @[l]]])
-----------------------------------------------------------------------------
\* At every moment the exposures made are the first ones of the job's plan, each
\* with the parameters of its own block, and whenever the board is idle they are
\* those of exactly the layers handed to it: nothing of a layer is left out,
\* doubled or taken from what an earlier layer left in the list memory.
ExposesThePlan ==
  WellFormedJob =>
    /\ FollowsPlan(exposed, PlanUpTo(i))
    /\ exec = 0 => Len(exposed) = Len(PlanUpTo(i))

\* "All N Layers Processed" is displayed, and main() exits with 0, only for a job
\* that has been exposed to its last line, with the board idle
\* (PrintController::processOvfJob).
ProcessedMeansExposed ==
  outcome = "AllLayersProcessed" =>
    /\ exec = 0
    /\ WellFormedJob => Len(exposed) = Len(JobPlan(job))

\* When the board refuses a list the whole layer is lost and every other layer
\* is still exposed in full and in order (executeCurrentListAndCycle switches
\* the fill target whether or not the board accepted the list).
RefusedLayersAreLostWhole ==
  outcome = "AllLayersProcessed" =>
    \E lost \in SUBSET DOMAIN job.layers :
      /\ Cardinality(lost) = rejected
      /\ LET plan == PlanWithout(lost)
         IN Len(exposed) = Len(plan) /\ FollowsPlan(exposed, plan)

\* A failure to set up the hardware is reported as a failure of the program
\* (HardwareError: "Thrown when an error occurs during communication with the
\* RTC6 hardware.", for which main() has a handler that sets the exit code).
HardwareFailureIsReported == outcome = "HardwareFailed" => exitCode = 1
=============================================================================
