--------------------------- MODULE PrintController ---------------------------
(***************************************************************************)
(* The print job: main() and PrintController::run on the host, one step    *)
(* per call it makes, interleaved with the board, which executes the list  *)
(* it was given while the host fills the other one.  The scanner, the      *)
(* laser and the powder bed are modelled as far as the list commands and   *)
(* the recoating delay act on them.                                        *)
(***************************************************************************)
EXTENDS ListHandler, GeometryHandler, Scanner

CONSTANTS
  Jobs,      \* the OVF jobs considered: layers and marking_params_map
  Garbage    \* what a read behind the end of a points array may yield

ASSUME JobsAssumption ==
  \A j \in Jobs : /\ j = [layers |-> j.layers, params |-> j.params]
                  /\ j.layers \in Seq(Seq(Blocks))
                  /\ j.params \in [DOMAIN j.params -> Params]

ASSUME GarbageAssumption == Garbage \subseteq Int /\ Garbage # {}

VARIABLES
  job,              \* the file main() was started with
  pc,               \* where the host is
  i,                \* processOvfJob: the loop counter
  block,            \* prepareLayer: blocks of the layer already translated
  todo,             \* processVectorBlock: the add* calls still to be made
  lastListExecuted, \* processOvfJob: the local variable
  outcome,          \* how run() ended
  exitCode,         \* of main()
  regs, exposed,    \* the scanner's registers; the exposures made so far
  bed               \* the powder bed

loopVars == << i, block, todo, lastListExecuted >>

endVars == << outcome, exitCode >>

scanVars == << regs, exposed >>

vars == << boardVars, handlerVars, isSuccessfullySetup, job, pc, loopVars,
           endVars, scanVars, bed >>

HostSteps == {"connect", "open", "process", "getWorkPlane", "begin", "blocks",
              "wait", "recoat", "waited", "prompt", "exited"}

Outcomes == {"running", "HardwareFailed", "FileNotParsed", "FileParseError",
             "ConfigurationError", "NoLayers", "AllLayersProcessed"}

NumLayers == Len(job.layers)

WorkPlane == job.layers[i + 1]

Init ==
  /\ BoardInit
  /\ HandlerInit
  /\ isSuccessfullySetup = FALSE
  /\ job \in Jobs
  /\ pc = "connect"
  /\ i = 0 /\ block = 0 /\ todo = << >> /\ lastListExecuted = 0
  /\ outcome = "running" /\ exitCode = 0
  /\ regs = PowerOnRegisters /\ exposed = << >>
  /\ bed = "fresh"
-----------------------------------------------------------------------------
(* How run() ends: it returns and main() says goodbye, or an exception     *)
(* passes through it into one of main()'s handlers.                        *)

Returns(how) ==
  /\ pc' = "prompt"
  /\ outcome' = how
  /\ UNCHANGED exitCode

Throws(exception) ==
  /\ pc' = "prompt"
  /\ outcome' = exception
  /\ exitCode' = 1

Continues(next) == pc' = next /\ UNCHANGED endVars

idleVars == << scanVars, job, bed >>

(* PrintController::run.  Rtc6Communicator is a module of its own: here    *)
(* its answer, which is also the readiness ListHandler asks for, is either.*)
ConnectAndSetupBoard ==
  /\ pc = "connect"
  /\ isSuccessfullySetup' \in BOOLEAN
  /\ IF isSuccessfullySetup' THEN Continues("open") ELSE Returns("HardwareFailed")
  /\ UNCHANGED << boardVars, handlerVars, loopVars, idleVars >>

OpenFile ==
  /\ pc = "open"
  /\ Continues("process") \/ Returns("FileNotParsed") \/ Throws("FileParseError")
  /\ UNCHANGED << boardVars, handlerVars, isSuccessfullySetup, loopVars, idleVars >>

(* PrintController::processOvfJob.                                         *)
ProcessOvfJob ==
  /\ pc = "process"
  /\ IF NumLayers = 0 THEN Returns("NoLayers") ELSE Continues("getWorkPlane")
  /\ UNCHANGED << boardVars, handlerVars, isSuccessfullySetup, loopVars, idleVars >>

GetWorkPlane ==
  /\ pc = "getWorkPlane"
  /\ Continues("begin") \/ Throws("FileParseError")
  /\ UNCHANGED << boardVars, handlerVars, isSuccessfullySetup, loopVars, idleVars >>

(* PrintController::prepareLayer.  The value beginListPreparation returns  *)
(* is not looked at.                                                       *)
BeginLayer ==
  /\ pc = "begin"
  /\ beginListPreparation
  /\ block' = 0
  /\ Continues("blocks")
  /\ UNCHANGED << isSuccessfullySetup, i, todo, lastListExecuted, idleVars >>

NextBlock == WorkPlane[block + 1]

TranslateBlock ==
  /\ pc = "blocks" /\ todo = << >> /\ block < Len(WorkPlane)
  /\ NextBlock.key \in DOMAIN job.params
  /\ \E garbage \in GarbageReads(Garbage) :
       todo' = processVectorBlock(NextBlock, job.params[NextBlock.key], garbage)
  /\ block' = block + 1
  /\ UNCHANGED << boardVars, handlerVars, isSuccessfullySetup, pc, i,
                  lastListExecuted, endVars, idleVars >>

\* Mutant: the way out arms auto-change.
ArmsAutoChange ==
  /\ pc = "blocks" /\ todo = << >> /\ block < Len(WorkPlane)
  /\ NextBlock.key \notin DOMAIN job.params
  /\ Throws("ConfigurationError")
  /\ setupAutoChangeMode
  /\ UNCHANGED << isSuccessfullySetup, loopVars, idleVars >>

MissingParams ==
  /\ pc = "blocks" /\ todo = << >> /\ block < Len(WorkPlane)
  /\ NextBlock.key \notin DOMAIN job.params
  /\ Throws("ConfigurationError")
  /\ UNCHANGED << boardVars, handlerVars, isSuccessfullySetup, loopVars, idleVars >>

AddCommand ==
  /\ pc = "blocks" /\ todo # << >>
  /\ addCommand(Head(todo))
  /\ todo' = Tail(todo)
  /\ UNCHANGED << isSuccessfullySetup, pc, i, block, lastListExecuted, endVars,
                  idleVars >>

EndLayer ==
  /\ pc = "blocks" /\ todo = << >> /\ block = Len(WorkPlane)
  /\ endListPreparation
  /\ Continues("wait")
  /\ UNCHANGED << isSuccessfullySetup, loopVars, idleVars >>
-----------------------------------------------------------------------------
(* PrintController::waitForPreviousLayer, called once per layer and once   *)
(* after the loop (i = NumLayers).                                         *)

\* Mutant: without the early return the host polls list 0, which is always busy.
PollsForNobody ==
  /\ pc = "wait" /\ lastListExecuted = 0
  /\ isListBusy(lastListExecuted)
  /\ UNCHANGED vars

NoPreviousLayer ==
  /\ pc = "wait" /\ lastListExecuted = 0
  /\ Continues("waited")
  /\ UNCHANGED << boardVars, handlerVars, isSuccessfullySetup, loopVars, idleVars >>

PollBusy ==
  /\ pc = "wait" /\ lastListExecuted # 0
  /\ isListBusy(lastListExecuted)
  /\ UNCHANGED vars

\* Mutant: the first poll ends the wait.
WaitsForNobody ==
  /\ pc = "wait" /\ lastListExecuted # 0
  /\ Continues("recoat")
  /\ UNCHANGED << boardVars, handlerVars, isSuccessfullySetup, loopVars, idleVars >>

\* Mutant: the recoating delay is left out.
SkipsRecoating ==
  /\ pc = "wait" /\ lastListExecuted # 0
  /\ ~isListBusy(lastListExecuted)
  /\ Continues("waited")
  /\ UNCHANGED << boardVars, handlerVars, isSuccessfullySetup, loopVars, idleVars >>

PreviousLayerDone ==
  /\ pc = "wait" /\ lastListExecuted # 0
  /\ ~isListBusy(lastListExecuted)
  /\ Continues("recoat")
  /\ UNCHANGED << boardVars, handlerVars, isSuccessfullySetup, loopVars, idleVars >>

\* The delay in which the powder bed is recoated.
Recoat ==
  /\ pc = "recoat"
  /\ bed' = "fresh"
  /\ Continues("waited")
  /\ UNCHANGED << boardVars, handlerVars, isSuccessfullySetup, loopVars, scanVars,
                  job >>

(* PrintController::executeLayer and the end of the loop body.  The value  *)
(* executeCurrentListAndCycle returns is not looked at, and whether the    *)
(* board accepted the list is not asked.                                   *)
ExecuteLayer ==
  /\ pc = "waited" /\ i < NumLayers
  /\ executeCurrentListAndCycle
  /\ lastListExecuted' = m_lastExecutedListId'
  /\ i' = i + 1
  /\ bed' = "exposed"
  /\ Continues(IF i' < NumLayers THEN "getWorkPlane" ELSE "wait")
  /\ UNCHANGED << isSuccessfullySetup, block, todo, scanVars, job >>

\* Mutant: the loop stops one layer early.
ReportsEarly ==
  /\ pc = "waited" /\ i + 1 >= NumLayers
  /\ Returns("AllLayersProcessed")
  /\ UNCHANGED << boardVars, handlerVars, isSuccessfullySetup, loopVars, idleVars >>

AllLayersProcessed ==
  /\ pc = "waited" /\ i = NumLayers
  /\ Returns("AllLayersProcessed")
  /\ UNCHANGED << boardVars, handlerVars, isSuccessfullySetup, loopVars, idleVars >>

\* ConsoleUI::promptForExit: the operator presses Enter, main() returns.
PromptForExit ==
  /\ pc = "prompt"
  /\ Continues("exited")
  /\ UNCHANGED << boardVars, handlerVars, isSuccessfullySetup, loopVars, idleVars >>
-----------------------------------------------------------------------------
Host == \/ ConnectAndSetupBoard \/ OpenFile \/ ProcessOvfJob \/ GetWorkPlane
        \/ BeginLayer \/ TranslateBlock \/ MissingParams \/ AddCommand \/ EndLayer
        \/ NoPreviousLayer \/ PollBusy \/ PreviousLayerDone \/ Recoat \/ ExecuteLayer
        \/ AllLayersProcessed

hostVars == << handlerVars, isSuccessfullySetup, job, pc, loopVars, endVars, bed >>

Execute ==
  /\ BoardExecutes
  /\ regs' = RegistersAfter(regs, CurrentCommand)
  /\ exposed' = ExposedAfter(exposed, regs, CurrentCommand)
  /\ UNCHANGED hostVars

EndList ==
  /\ BoardEndsList
  /\ UNCHANGED << hostVars, scanVars >>

Board == Execute \/ EndList

Finished == pc = "exited" /\ exec = 0 /\ UNCHANGED vars

Next == Host \/ PromptForExit \/ Board \/ Finished

Spec == Init /\ [][Next]_vars

\* The host is one sequential program and the board runs by itself; nothing is
\* assumed of the operator.
FairSpec == Spec /\ WF_vars(Host) /\ WF_vars(Board)
-----------------------------------------------------------------------------
\* Loop, lists, registers and outcome have their types at every step of the job,
\* also when garbage coordinates were read (processOvfJob, prepareLayer).
TypeOK ==
  /\ BoardTypeOK
  /\ HandlerTypeOK
  /\ job \in Jobs
  /\ pc \in HostSteps
  /\ i \in Nat /\ block \in Nat
  /\ todo \in Seq(Command)
  /\ lastListExecuted \in ListIds \cup {0}
  /\ outcome \in Outcomes /\ exitCode \in {0, 1}
  /\ regs \in Registers /\ exposed \in Seq(Exposures)
  /\ bed \in {"fresh", "exposed"}

\* While a list is executing, no step of the host changes a command of it: the
\* geometry of the next layer goes to the other list (ListHandler's ping-pong,
\* prepareLayer running before waitForPreviousLayer).
NoOverwriteWhileExecuting ==
  [][exec # 0 /\ exec' = exec => mem'[exec] = mem[exec]]_vars

\* The recoater moves, and the next list is started, only when the board is idle
\* (waitForPreviousLayer asks about the one list that can be executing).
IdleWhenRecoating == pc \in {"recoat", "waited"} => exec = 0

\* The board never runs past the end of what the host stored in the list: every
\* list it was told to execute is closed by an end-of-list command at or after
\* the output pointer (endListPreparation before executeLayer).
NeverRunsOff ==
  exec # 0 => \E n \in DOMAIN mem[exec] : n >= outPos /\ mem[exec][n] = EndOfList

\* Once run() has ended, normally or by an exception in the middle of
\* prepareLayer, no list is started any more: a half-filled list is never burnt.
NoStartAfterTheEnd ==
  [][(pc = "prompt" \/ pc = "exited") => (exec' = 0 \/ exec' = exec)]_vars

(* The strengthening that makes the properties above inductive.            *)

\* Where the loop of processOvfJob is, and how run() ended.
LoopInv ==
  /\ i <= NumLayers
  /\ pc \in {"connect", "open", "process"} => i = 0
  /\ pc \in {"getWorkPlane", "begin", "blocks"} => i < NumLayers
  /\ outcome = "running" <=> pc \notin {"prompt", "exited"}
  /\ pc \notin {"connect", "prompt", "exited"} => isSuccessfullySetup

\* The list that was executed last is the other list than the one to fill, and
\* the only one that can be executing; the host writes to the one to fill.
ListInv ==
  /\ lastListExecuted = m_lastExecutedListId
  /\ lastListExecuted \in {0, OtherList(m_currentListIdForFilling)}
  /\ lastListExecuted = 0 <=> i = 0
  /\ pc = "recoat" => lastListExecuted # 0
  /\ exec \in {0, lastListExecuted}
  /\ armed = FALSE
  /\ pc = "blocks" => inList = m_currentListIdForFilling

\* A list is closed before it is executed.
ClosedInv ==
  pc \in {"wait", "recoat", "waited"} /\ i < NumLayers =>
    \E n \in DOMAIN mem[m_currentListIdForFilling] :
      mem[m_currentListIdForFilling][n] = EndOfList

\* The powder bed is fresh before the first layer and after every recoating.
BedInv ==
  /\ exec # 0 => bed = "exposed"
  /\ lastListExecuted = 0 => bed = "fresh"
  /\ pc = "waited" => bed = "fresh"
  /\ outcome = "running" /\ pc # "waited" /\ lastListExecuted # 0 => bed = "exposed"

\* The inductive invariant: between any two steps of the host and the board the
\* loop, the two lists, the board and the powder bed agree as described above.
Inv ==
  /\ TypeOK /\ LoopInv /\ ListInv /\ IdleWhenRecoating /\ ClosedInv /\ NeverRunsOff
  /\ BedInv

\* Under the fairness of FairSpec the program gets to its exit prompt and the
\* board finishes what it was given, also after an exception: no wait for a list
\* is endless although waitForPreviousLayer has no timeout.
JobEnds == <>[](pc \in {"prompt", "exited"} /\ exec = 0)
-----------------------------------------------------------------------------
(* The print job implements PrintJob.                                      *)

BedPhase == IF exec # 0 THEN "exposing" ELSE bed

JobResult ==
  IF outcome = "running" THEN "running"
  ELSE IF outcome = "AllLayersProcessed" THEN "processed" ELSE "stopped"

Abstract == INSTANCE PrintJob
  WITH MayLose <- MaxRejects > 0, numLayers <- NumLayers, layer <- i,
       phase <- BedPhase, result <- JobResult

\* Layers are exposed in order, each on a fresh bed, the recoater never moves
\* under the laser, and "All N Layers Processed" comes after the last exposure
\* and its recoating (processOvfJob, waitForPreviousLayer, executeLayer).
ImplementsPrintJob == Abstract!Spec
=============================================================================
