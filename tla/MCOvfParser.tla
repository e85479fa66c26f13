----------------------------- MODULE MCOvfParser -----------------------------
(***************************************************************************)
(* Files of up to two planes, each with one block or two, in which any     *)
(* part may be damaged.                                                    *)
(***************************************************************************)
EXTENDS OvfParser

MCPlanes == [lut : BOOLEAN, shell : BOOLEAN, blocks : {<< TRUE >>, << TRUE, FALSE >>}]

MCFiles == [header : BOOLEAN, jobLut : BOOLEAN, shell : BOOLEAN,
            planes : BoundedSeq(MCPlanes, 2)]
=============================================================================
