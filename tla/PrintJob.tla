------------------------------ MODULE PrintJob ------------------------------
(***************************************************************************)
(* What a print job promises, without lists, commands or a host program:   *)
(* the layers are exposed one after the other, each on a fresh powder bed; *)
(* the recoater moves only between two exposures; the job is reported as   *)
(* processed only when its last layer was exposed and recoated; a job may  *)
(* stop early, and a layer whose exposure has begun is then still finished.*)
(***************************************************************************)
EXTENDS Naturals

CONSTANT MayLose   \* a Boolean: the board may refuse to expose a layer

VARIABLES
  numLayers,   \* layers of the job
  layer,       \* layers handed to the board so far
  phase,       \* of the powder bed
  result       \* what the job reports

vars == << numLayers, layer, phase, result >>

Init ==
  /\ numLayers \in Nat
  /\ layer = 0
  /\ phase = "fresh"
  /\ result = "running"

Expose ==
  /\ result = "running" /\ phase = "fresh" /\ layer < numLayers
  /\ layer' = layer + 1
  /\ phase' = "exposing"
  /\ UNCHANGED << numLayers, result >>

\* The board refuses the layer and nobody notices: the bed is recoated over a
\* layer that was not exposed.
Lose ==
  /\ MayLose
  /\ result = "running" /\ phase = "fresh" /\ layer < numLayers
  /\ layer' = layer + 1
  /\ phase' = "exposed"
  /\ UNCHANGED << numLayers, result >>

Finish ==
  /\ phase = "exposing"
  /\ phase' = "exposed"
  /\ UNCHANGED << numLayers, layer, result >>

Recoat ==
  /\ result = "running" /\ phase = "exposed"
  /\ phase' = "fresh"
  /\ UNCHANGED << numLayers, layer, result >>

Complete ==
  /\ result = "running" /\ phase = "fresh" /\ layer = numLayers
  /\ result' = "processed"
  /\ UNCHANGED << numLayers, layer, phase >>

Stop ==
  /\ result = "running"
  /\ result' = "stopped"
  /\ UNCHANGED << numLayers, layer, phase >>

Next == Expose \/ Lose \/ Finish \/ Recoat \/ Complete \/ Stop

Spec == Init /\ [][Next]_vars
=============================================================================
