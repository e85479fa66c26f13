# RTC6 Controller: a TLA+ verification project

The RTC6 controller prints OVF jobs on a laser powder bed machine: it reads a
file of layers, translates every layer into a list of commands for a SCANLAB
RTC6 board, and lets the board execute one list while it fills the other one.
This directory holds TLA+ models of the program, TLC configurations that check
them on small instances, and proofs checked by TLAPS. `PROJECT.json` lists the
runs, the mapping from definitions to source lines, the findings, the hazards
and the theorems.

## The system

| Part | State | Operations | Works with |
|---|---|---|---|
| `main`, `PrintController` | loop counter, `lastListExecuted`, exit code | `run`, `processOvfJob`, `prepareLayer`, `waitForPreviousLayer`, `executeLayer` | calls all the others |
| `ListHandler` | list to fill, list executing, list executed last | begin, add, end, execute and cycle, busy check, auto-change | asks the communicator for readiness, calls `RtcApiWrapper` |
| `RtcApiWrapper`, board | two lists, input and output pointer, auto-change | ten DLL calls; executes lists by itself | shared with nobody but concurrent with the host |
| `GeometryHandler` | none | `processVectorBlock`, `mmToBits`, `powerToDAC` | calls the `add*` methods of `ListHandler` |
| `Rtc6Communicator` | board id, selected card, four flags | `connectAndSetupBoard`, `initializeAndShowBoardInfo`, destructor | DLL; its readiness flag guards `ListHandler` |
| `OvfParser` | stream, look-up tables, job shell | `openFile`, `getWorkPlane` | file |
| `JobEditor`, `ParameterEditorApp` | job in memory, modified flag, file | apply parameters, rename, discard, save, quit | file |
| `OvfFileGenerator` | planes written, exit code | parse arguments, start, append, dispose | file |
| `OvfViewer`, console UIs | none of interest | display | |

What is hard here: the host and the board run concurrently and share the list
memory without a lock; the only synchronisation is a status bit that is polled
without a timeout; DLL calls return nothing, so a refused list goes unnoticed;
exceptions leave a list half filled while the other one is executing; the
scanner keeps the parameters of the last block; conversions round, truncate and
clamp; arrays are read behind their end. What makes the parts correct:

- print job: every layer exposed in order, completely, with its own parameters,
  on a fresh bed; no recoating under the laser; success reported truthfully;
  the program ends;
- list handler: the executing list is never written to;
- geometry: the exposed lines are the lines of the file, to the nearest bit;
- communicator: "ready" means ready;
- parser: tables and planes are those of the open file, and whole;
- file generator: success means a complete file, and that file can be printed;
- editor: every block refers to a parameter set that exists, the sets of the
  file stay, only selected blocks get other parameters, and "unchanged" means
  unchanged.

## Modules

```
ListCommands <- GeometryHandler <----------- ExposurePlan (reference)
     ^   ^            ^                          ^       ^
     |   Scanner      |                          |       |
     |       ^        |                          |   MCGeometryHandler
     |       |        |                          |
Rtc6Board <- ListHandler <- PrintController <- MCPrintController
                 ^            |    ^
            MCListHandler     |    |
                          PrintJob |
                        (abstract) |
                                   |
OvfFileGenerator, OvfParser <- GenerateAndPrint <- MCGenerateAndPrint
                     ^
                 MCOvfParser                         Rtc6Communicator

JobEditor <- ParameterEditorApp <- MCParameterEditorApp
                |
           EditSession (abstract)
```

The proof modules:

| Module | Proves about |
|---|---|
| `PrintControllerProofs` | `PrintController`, and that it implements `PrintJob` |
| `GeometryProofs` | the operators of `GeometryHandler`, `Scanner` and `ExposurePlan` |
| `MCGeometryProofs` | the block translated and executed, `MCGeometryHandler` |
| `ListHandlerProofs` | `ListHandler` under arbitrary calls, `MCListHandler` |
| `ExposureProofs` | the exposures of a print job, `MCPrintController`, and the tool chain, `GenerateAndPrint` |
| `OvfParserProofs` | `OvfParser` |
| `Rtc6CommunicatorProofs` | `Rtc6Communicator` |
| `ParameterEditorProofs` | `ParameterEditorApp`, and that it implements `EditSession` |

- **ListCommands**: the commands a list may hold and the `add*` methods that
  build them. `addSetMarkSpeed` computes; the others forward.
- **GeometryHandler**: `processVectorBlock` as an operator from a block and its
  parameters to a sequence of commands. Lengths are integers on a grid of
  1/`UNITS_PER_MM` mm, fine enough that rounding matters; powers are Watts.
  A read behind the points array yields any value (`GarbageReads`), one for
  each of the up to three stray reads.
- **Scanner**, **Rtc6Board** (external): what the commands do, and the list
  memory. They are modelled from how the host uses the DLL; each assumption is
  in the header comment. `execute_list` starts a list only on an idle board, and
  the board may refuse it (`MaxRejects` bounds how often).
- **ListHandler**: the members and methods of the class; a method is an action
  and its guard is the readiness check.
- **PrintController**: `main` and `PrintController`. `pc` names the next call;
  one step per call that the board could observe; the board's steps interleave
  freely. `job` is the file, chosen at the start; `openFile` and every
  `getWorkPlane` may throw, the setup may fail. `outcome` and `exitCode` record
  how `run` and `main` end. `bed` is the powder bed: exposed when a list is
  handed to the board, fresh after the recoating delay.
- **PrintJob**: what a print job promises, in four variables.
- **ExposurePlan**: the lines a job asks for, read off the OVF message
  definitions, and what it means for an exposure to realise one.
- **Rtc6Communicator**: the setup sequence against a DLL whose calls fail and
  cards that come and go. `PrintController` uses only its answer. `select_rtc` may
  answer with any card that is present, also another one than it was asked for: the
  code stores the answer and compares it with 0 only. What is assumed is that the
  answer names the card the DLL talks to from then on, which is how
  `Rtc6Communicator.h` describes it. `asked` remembers the id `select_rtc` was last
  called with, `fellShort` whether a call has counted fewer cards than the requested
  id. The constructor checks no id: 0 and ids above every number of cards are tried.
- **OvfParser**: `openFile` and `getWorkPlane`. A file says which of its parts can
  be read; a table entry is a position, so that an entry of another file would
  show. Error bits of the stream and merging of messages are kept, because the
  code's `clear()` and `Clear()` calls are there for them.
- **JobEditor**: the operations on parameter sets, blocks and name. Keys are ints
  of width `IntMax`, additions wrap; powers and speeds are integers in units
  finer than the tolerance; `NaN` stands for every float that is not close to
  itself and that `float.TryParse` accepts. The order in which the map enumerates
  its entries is left open.
- **ParameterEditorApp**: the session. One action per menu entry;
  `DoVectorBlockEditing` one step per block, because it can end with an exception
  after any of them. `loaded` remembers what the last load returned, `source` is
  the file, which a failed save can destroy. A handler that changes nothing is a
  stuttering step.
- **EditSession**: what an editing session promises. Keys and the map are gone:
  every block has parameters or none, and an edit gives one choice of parameters
  to a range of layers, one area of a layer or one block. `ParameterEditorApp` is
  mapped to it by looking up every block's key. The abstract session also states
  the one thing the code does beyond that: a block whose key names no set may be
  captured by a new set that gets this key.
- **OvfFileGenerator**: the command-line tool, one action per call of the writer,
  each of which may throw. The `using` block disposes of the writer in every
  case; what that leaves on disk after a failure is left open.
- **GenerateAndPrint**: the tool chain. The generator writes a file, at most one
  part of it is damaged on the way, the print program is started on it. `OpenFile`
  and `GetWorkPlane` of `PrintController` are conjoined with `openFile` and
  `getWorkPlane` of `OvfParser`, so that their answers come from the file.
- **MCGeometryHandler**, **MCListHandler**, **MCPrintController**, **MCOvfParser**,
  **MCGenerateAndPrint**, **MCParameterEditorApp**: the instances.

Operators marked "Mutant" are plausible bugs. Each one, put in the place of the
definition it follows, makes TLC find the property `PROJECT.json` pairs it with
violated; no specification uses them.

## Runs

| Run | Shows |
|---|---|
| `block_exposure` | Blocks of 0 to 9 coordinates of each kind, lengths around the rounding points, powers below, inside, at and above the range, registers as the last block left them: exposed as planned; a malformed block costs at most one stray line. Nine coordinates are two hatches and a cut-short third, or four vertices and a half. |
| `list_handler` | ListHandler under arbitrary calls, a communicator that comes and goes, one refused list, lists of up to three commands. Three rules for the client are enough for the executing list to be safe; `PrintController` keeps to them. Three commands are a mark, an end marker, and one written behind or over it. |
| `print_job` | All 259 jobs of up to three layers out of six kinds (long, short, empty, unsupported, missing key, cut short). Three layers reuse the first list, so left-over commands matter. All properties of the print job, the refinement of `PrintJob`, and termination. |
| `refused_lists` | Up to four layers, up to two refusals: a refused layer is lost as a whole, the others are exposed in full, and the job implements `PrintJob` with `Lose`. |
| `communicator` | Board ids 0 to 4, up to three cards and three setups: a card can be missing, come back and be missing again between them. Success means that the card `select_rtc` answered with is present, current and programmed, and that the requested board, or the fallback, was the one asked for. |
| `ovf_parser` | All 584 files of up to two planes with any part damaged, and a missing file, opened and read in any order. Two planes give a damaged one before and after a good one; the state after an `openFile` depends on at most the file before. |
| `generated_job` | A hatched square of three hatches on up to three layers, written with any call failing, any one of up to fifteen parts damaged, then printed. Exit code 0 means a complete file; damage stops the job before the layer it concerns, and damaged tables before the first one; an intact file is printed to the end; what is exposed is the square, without laser power. Size and spacing are scaled down (6 and 3 units instead of 20 and 1 mm) and keep the property of the real ones that the last hatch lies on the upper side. |
| `editing_session` | Six files: with a gap in the keys, with dangling keys, with the largest key taken, empty ones, one without metadata. Four wishes: one close to two sets at once, two close to each other, one not close to itself; two layers with two blocks and one. `IntMax` = 3 leaves room for two to four new keys, lets the counter wrap and lets the keys run out. The session implements `EditSession`. It ends when the operator ends it, so no liveness is claimed. |
| `speed_scale`, `lost_layer`, `hardware_failure`, `unmarked_change` | Violations: the findings of `PROJECT.json`. |

Fairness: weak fairness of the host and of the board. The host is one thread
that never blocks except in the poll, which the board's progress ends; the board
executes by itself. A board that hangs or loses power is outside the model: the
program would poll for ever, since it has no timeout. Nothing is assumed of the
operator, so the program is only shown to reach its exit prompt.

The tool chain has the same fairness; nothing is assumed of the generator, which
may stop at any call.

Smaller disagreements, seen while modelling, without a run of their own:
`InterfaceOvfParser.h:12` promises that `openFile` returns false on failure, the
code throws; `PrintController.cpp:92` says "Skipping vector block." in the
exception that ends the job; `VectorBlock.repeats`, which
`open_vector_format.proto:385` defines, is never read by `processVectorBlock`;
`OvfFileGenerator.cs:11` declares an "Offset between square layers" that nothing
uses, so all squares lie upon each other.

## Proofs

Every theorem is about all values of the constants. An invariant the runs check
is seldom inductive by itself; each proof states the strengthening it needs, one
conjunct per idea, and shows that every action preserves it.

**The print job.** `PrintControllerProofs` proves type correctness,
`IdleWhenRecoating`, `NeverRunsOff`, `NoOverwriteWhileExecuting`,
`NoStartAfterTheEnd` and the refinement of `PrintJob`. `Inv` adds: where the loop
is (`LoopInv`); that the list executed last is the other list than the one to
fill and the only one that can be executing, that the host writes to the one to
fill, and that auto-change is never armed (`ListInv`); that a list is closed
before the host waits to execute it (`ClosedInv`); and the state of the bed
(`BedInv`). The heart is `StoreStep`: the host stores only while it prepares a
layer, then the input pointer is in the list to fill, and an executing list is
the other one. `PreviousLayerDone` turns one negative answer about
`lastListExecuted` into an idle board, by `exec \in {0, lastListExecuted}`. The
refinement maps a layer handed over to `Expose` or `Lose`, the end of a list to
`Finish`, and the recoating delay to `Recoat`.

**Geometry.** `GeometryProofs` proves what the conversions compute at every
scale: `mmToBits` rounds to a nearest bit, negative lengths and halves included
(`MmToBitsNearest`), and `powerToDAC` yields the largest step that does not exceed
the wanted share of the rated power (`PowerToDACRight`). `Progress` says what the
registers hold after the first k commands of a block; `ProgressStep` executes one
more. Both name the exact values of the conversions (`Draws`): "a nearest bit"
alone would leave two answers for a coordinate half-way between two bits.
`DrawsRealises` shows that such a line is the planned one. `MCGeometryProofs` uses them for the run's properties with blocks of any
length: a well-formed block is exposed as planned whatever the block before left
in the registers (`ExposesTheBlock`), and a block that is cut short costs at most
one stray line (`MalformedAddsOneLineAtMost`).

**The exposures of a job.** `ExposureProofs` carries this through the two lists
and the concurrent board. `XInv` adds to `Inv`: the list to fill holds exactly
what has been translated of the layer (`FillInv`), and the whole layer once the
host waits to execute it (`HeldInv`), left-overs of an earlier layer behind its
end; the exposures are those of the planned lines up to the command at which the
board stands in the executing list, with the registers of that place
(`ExposedInv`); a job that reports success has been through all layers, and has
at least one (`EndInv`). The plan is a concatenation of concatenations;
`FlattenSeq` is unfolded by one element at a time, and the equality of two
flattenings follows from the least index at which they could differ, which needs
the well-foundedness of the naturals and no induction principle. `ExposesThePlan`
and `ProcessedMeansExposed` are theorems as long as no list was refused, which is
what their run assumes (`MaxRejects` = 0); `RefusedLayersAreLostWhole` is one for
jobs of well-formed blocks and any number of refusals.

**The list handler.** `ListHandlerProofs` proves the four properties of the
`list_handler` run. `RulesInv` says what the three rules for a client amount to:
only the list executed last can be executing, it is the other one than the list
to fill, a poll that found it idle found the board idle, and the input pointer of
an open list is in the one to fill. It holds as long as the client has kept to
the rules; types are kept by every client.

**The parser.** `OvfParserProofs` proves its four properties for files of any
length, opened and read in any order. `PInv` says that the tables hold entries of
the open stream only, those of the work planes one per plane, in order and as far
as the last `openFile` got, all of them and the shell if it succeeded; and what
the two kinds of answer of `getWorkPlane` say about the plane.

**The tool chain.** The second half of `ExposureProofs` composes all of these.
`ChainInv` holds `XInv` and, next to it, what the generator has written
(`GenInv`), that the print program works on the file on disk (`StartInv`), that a
file that was opened has whole tables (`OpenInv`), that every plane handed over
was whole and the one the loop was at (`ReadInv`), and what each outcome says
about the file (`VerdictInv`). `GeneratorTypeOK`, `ExitZeroMeansComplete` and
`DamageStopsTheJob` follow, the last one with the length of the square's plan
(`SquaresPlan`), which is the same on every layer.

`OnlyTheSquareIsExposed` needs the lines themselves. `HatchHeights` shows for every
size and spacing that the hatches of `CreateHatchBlock` are at all multiples of the
spacing that fit into the square and at no others, `LinesAreTheSquare` that the two
blocks have the lines of the reference definition `SquareLines` and no others.
So the plan of any layers, some of them lost or not, is a sequence of these lines
(`SquareJobPlan`), and what traces it has their coordinates in bits and no power
(`TracesSquare`). `SquareLinesOnly` states the safety half without any condition:
no damage, failed call, left-over command or refused list ever adds another line.
The rest, all lines once per layer when the job is reported as processed, is
`OnlyTheSquare`. Like `DamageStops` it is stated as long as the board has refused
no list, which is what the run assumes (`MaxRejects` = 0): a refused list costs its
layer, as `RefusedLayersAreLostWhole` says.

**The communicator.** `Rtc6CommunicatorProofs` proves all four properties for any
board ids, cards and calls, and any card as the answer of `select_rtc`. `SetupInv`
adds what each step may rely on whatever earlier calls left in the members: the
DLL is open from `countCards` on; `loadFirmware` has the card `select_rtc` answered
with as the current one, and that call has asked for `m_boardId`; and `m_boardId` is
the requested id until some call has counted too few cards, then 1. Nothing is
claimed about the answer being the card asked for.

**The editor.** `ParameterEditorProofs` proves type correctness, `KeysResolve`,
`FileSetsKept`, `UnmodifiedMeansNoEdit`, `NoNewDuplicates` and the refinement of
`EditSession`, for all files, wishes, tolerances and int widths. `EInv` says that
the job in memory is an edit of the loaded one (`Edits`: same shape, all sets
kept, every key resolves or is the old one), that the sets' keys are ints, and
that a session which is not marked, and has no block edit pending, has the loaded
blocks unless the keys have run out. `NextKey` is the heart: the next key is taken
only when both ends of the ints are; it rests on `MaxIsLargest`, which uses the
well-foundedness of the naturals. Types need one fact more (`TInv`): a file that
can be loaded again has metadata. The refinement looks up every block's key; its
hard case is a new set whose key some block of the file already names, which the
abstract session allows as a capture.

Assumptions, all evaluated by TLC in the runs: positive scales
(`ScaleAssumption`); a job is a record of layers and parameter sets of the right
types, whose blocks may be malformed and whose keys may dangle
(`JobsAssumption`); stray reads are integers (`GarbageAssumption`); bounds are
naturals (`MaxRejectsAssumption`, `MaxPointsAssumption`), and so are board ids
(`CommunicatorAssumption`);
files say which of their parts can be read, and a missing file is none of them
(`FilesAssumption` of the parser); the editor's files are jobs, its wishes are
sets, and the markers for "no job" and "no name" are neither (`FilesAssumption`,
`WishesAssumption`, `NoMetaDataAssumption`, `NullAssumption`); int width and
tolerance (`EditorAssumption`); an even square and a positive spacing
(`GeneratorAssumption`); the jobs of the tool chain contain the ones the generator
writes (`ChainAssumption`).

Only model-checked: liveness (`JobEnds`, `GeneratedJobIsPrinted`), which this
prover does not reach. The four runs that end in a violation state what the code
does not do.

## Not modelled

About 1,800 of the repository's lines are its own program; the rest is generated
protobuf code (`Ovf_Core`, `libs/gprotobuf`), abseil, googletest and the RTC6
import headers under `libs`. None of that is modelled: it is not this project's
logic, and a model of it could only restate it. Of the own code these parts are
left out:

- messages, progress output and their layout in both console UIs. What the
  operator may answer is modelled; a standard input that has ended is not;
- `OvfViewer`: it shows the name of a job, one field that nothing else reads;
- the argument check of the print program, which returns before anything exists;
- the size of the list memory, when `select_rtc` answers with another card than
  the one asked for (every answer is modelled), what `read_status` answers for a board that is gone,
  and what releasing the DLL does to an executing list: the repository does not
  say, the hazards name the lines;
- the correction file (declared in `MachineConfig`, never loaded);
  `ListHandler::mmToBits`, which nobody calls;
- names, focus and jump speed of the editor's parameter sets; floating point beyond
  the integer grids and `NaN`;
- damage to more than one part of a generated file (`ovf_parser` covers any
  combination without the printer).

## Plan

1. Print job, list handler, geometry, communicator, parser, editor, file
   generator, tool chain, abstract editing session: modelled and checked.
2. Every safety property of a passing run, invariants, action properties and both
   refinements, is a theorem as well. What is left to the model checker is
   liveness.
