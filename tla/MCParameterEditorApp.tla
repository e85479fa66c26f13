------------------------ MODULE MCParameterEditorApp ------------------------
(***************************************************************************)
(* Small source files for the editor: two layers, a map with a gap, keys   *)
(* that dangle, a map at the end of the ints, a file without metadata.     *)
(***************************************************************************)
EXTENDS ParameterEditorApp, TLC

Set(power, speed) == [power |-> power, speed |-> speed]

SomeParams == (0 :> Set(10, 5)) @@ (2 :> Set(12, 5))

FullParams == SomeParams @@ (IntMax :> Set(20, 5))

SomeLayers == << << Block(0, "Volume"), Block(2, "Contour") >>, << Block(2, "None") >> >>

DanglingLayers == << << Block(3, "Contour"), Block(0, "Volume") >>, << >> >>

MCFiles == {
  Job(SomeParams, SomeLayers, "A"),
  Job(SomeParams, DanglingLayers, "A"),
  Job(FullParams, SomeLayers, "A"),
  Job(<< >>, << << Block(0, "Volume"), Block(0, "Volume") >> >>, "A"),
  Job(<< >>, << >>, "A"),
  Job(SomeParams, SomeLayers, NoMetaData) }

\* With a tolerance of 2: the first is close to both sets of SomeParams, the
\* others to none; two of them are close to each other, and one not to itself.
MCWishes == {Set(11, 5), Set(30, 5), Set(31, 6), Set(NaN, 5)}
=============================================================================
