------------------------ MODULE PrintControllerProofs ------------------------
(***************************************************************************)
(* Proofs about the print job, for every set of jobs, every scale and every*)
(* number of refused lists.                                                *)
(***************************************************************************)
EXTENDS PrintController, GeometryProofs, TLAPS

-----------------------------------------------------------------------------
(* The lists of the board.                                                 *)

\* Storing a command keeps a list a list, and puts the command into it.
LEMMA StoredType ==
  ASSUME NEW list \in Seq(Command), NEW pos \in Nat \ {0}, NEW c \in Command
  PROVE  /\ Stored(list, pos, c) \in Seq(Command)
         /\ \E n \in DOMAIN Stored(list, pos, c) : Stored(list, pos, c)[n] = c
<1>1. CASE pos \in 1 .. Len(list)
  <2>1. Stored(list, pos, c) = [list EXCEPT ![pos] = c]
    BY <1>1 DEF Stored
  <2>2. pos \in DOMAIN list
    BY <1>1
  <2> QED
    BY <2>1, <2>2
<1>2. CASE pos \notin 1 .. Len(list)
  <2>1. Stored(list, pos, c) = Append(list, c)
    BY <1>2 DEF Stored
  <2>2. Len(list) + 1 \in DOMAIN Append(list, c) /\ Append(list, c)[Len(list) + 1] = c
    OBVIOUS
  <2> QED
    BY <2>1, <2>2
<1> QED
  BY <1>1, <1>2

\* The end-of-list marker is a list command.
LEMMA EndOfListType == EndOfList \in Command
BY DEF EndOfList, Command, CommandOps
-----------------------------------------------------------------------------
(* The inductive invariant holds at the start.                             *)

\* A new ListHandler on an idle board, before run() has made its first call.
LEMMA InitInv == Init => Inv
<1> SUFFICES ASSUME Init PROVE Inv
  OBVIOUS
<1> USE DEF Init, BoardInit, HandlerInit
<1>1. NumLayers \in Nat
  BY JobsAssumption DEF NumLayers
<1>2. TypeOK
  <2>1. BoardTypeOK
    <3>1. mem \in [ListIds -> Seq(Command)]
      OBVIOUS
    <3>2. armed \in BOOLEAN
      OBVIOUS
    <3>3. inList \in ListIds \cup {0} /\ exec \in ListIds \cup {0}
      OBVIOUS
    <3>4. inPos \in Nat \ {0} /\ outPos \in Nat \ {0} /\ rejected \in 0 .. MaxRejects
      BY MaxRejectsAssumption
    <3> QED
      BY <3>1, <3>2, <3>3, <3>4 DEF BoardTypeOK
  <2>2. HandlerTypeOK
    BY DEF HandlerTypeOK, ListIds
  <2>3. regs \in Registers
    BY DEF PowerOnRegisters, Registers
  <2> QED
    BY <2>1, <2>2, <2>3 DEF TypeOK, HostSteps, Outcomes
<1>3. LoopInv
  BY <1>1 DEF LoopInv
<1>4. ListInv
  BY DEF ListInv
<1> QED
  BY <1>2, <1>3, <1>4 DEF Inv, IdleWhenRecoating, ClosedInv, NeverRunsOff, BedInv
-----------------------------------------------------------------------------
(* Every step keeps the invariant.                                        *)

\* The steps that only move the host along keep the invariant: they touch
\* neither a list nor the scanner nor the powder bed.
LEMMA HostMovesInv ==
  ASSUME Inv,
         ConnectAndSetupBoard \/ OpenFile \/ ProcessOvfJob \/ GetWorkPlane \/ MissingParams
           \/ NoPreviousLayer \/ PreviousLayerDone \/ AllLayersProcessed \/ PromptForExit
  PROVE  Inv'
<1> USE JobsAssumption
    DEF Inv, TypeOK, BoardTypeOK, HandlerTypeOK, HostSteps, Outcomes, LoopInv, ListInv,
        IdleWhenRecoating, ClosedInv, NeverRunsOff, BedInv, NumLayers, boardVars,
        handlerVars, loopVars, idleVars, scanVars, endVars, Continues, Returns, Throws
<1>1. CASE ConnectAndSetupBoard
  BY <1>1 DEF ConnectAndSetupBoard
<1>2. CASE OpenFile
  BY <1>2 DEF OpenFile
<1>3. CASE ProcessOvfJob
  BY <1>3 DEF ProcessOvfJob
<1>4. CASE GetWorkPlane
  BY <1>4 DEF GetWorkPlane
<1>5. CASE MissingParams
  BY <1>5 DEF MissingParams
<1>6. CASE NoPreviousLayer
  BY <1>6 DEF NoPreviousLayer
<1>7. CASE PreviousLayerDone
  BY <1>7 DEF PreviousLayerDone, isListBusy, api_read_status
<1>8. CASE AllLayersProcessed
  BY <1>8 DEF AllLayersProcessed
<1>9. CASE PromptForExit
  BY <1>9 DEF PromptForExit
<1> QED
  BY <1>1, <1>2, <1>3, <1>4, <1>5, <1>6, <1>7, <1>8, <1>9

\* Opening the list to fill keeps the invariant.
LEMMA BeginLayerInv == ASSUME Inv, BeginLayer PROVE Inv'
<1> USE DEF BeginLayer, beginListPreparation, api_set_start_list, Continues,
        handlerVars, boardVars, idleVars, scanVars, endVars
<1>1. isSuccessfullySetup
  BY DEF Inv, LoopInv
<1>2. TypeOK'
  BY <1>1 DEF Inv, TypeOK, BoardTypeOK, HandlerTypeOK, HostSteps
<1>3. LoopInv'
  BY DEF Inv, LoopInv, NumLayers
<1>4. ListInv'
  BY <1>1 DEF Inv, ListInv
<1>5. IdleWhenRecoating' /\ ClosedInv' /\ NeverRunsOff' /\ BedInv'
  BY <1>1 DEF Inv, IdleWhenRecoating, ClosedInv, NeverRunsOff, BedInv
<1> QED
  BY <1>2, <1>3, <1>4, <1>5 DEF Inv

\* Translating a block changes nothing but the commands still to be added.
LEMMA TranslateBlockInv == ASSUME Inv, TranslateBlock PROVE Inv'
<1> USE DEF TranslateBlock, handlerVars, boardVars, idleVars, scanVars, endVars
<1>1. todo' \in Seq(Command)
  <2>1. job \in Jobs /\ i \in Nat /\ i < NumLayers /\ block \in Nat
    BY DEF Inv, TypeOK, LoopInv
  <2>2. job.layers \in Seq(Seq(Blocks)) /\ job.params \in [DOMAIN job.params -> Params]
    BY <2>1, JobsAssumption
  <2>3. WorkPlane \in Seq(Blocks)
    BY <2>1, <2>2 DEF NumLayers, WorkPlane
  <2>4. NextBlock \in Blocks
    BY <2>1, <2>3 DEF NextBlock
  <2>5. job.params[NextBlock.key] \in Params
    BY <2>2
  <2>6. PICK garbage \in GarbageReads(Garbage) :
          todo' = processVectorBlock(NextBlock, job.params[NextBlock.key], garbage)
    OBVIOUS
  <2>7. garbage \in GarbageReads(Int)
    BY GarbageAssumption DEF GarbageReads
  <2> QED
    BY <2>4, <2>5, <2>6, <2>7, ProcessVectorBlockType
<1>2. TypeOK'
  BY <1>1 DEF Inv, TypeOK, BoardTypeOK, HandlerTypeOK
<1>3. LoopInv' /\ ListInv'
  BY DEF Inv, LoopInv, NumLayers, ListInv
<1>4. IdleWhenRecoating' /\ ClosedInv' /\ NeverRunsOff' /\ BedInv'
  BY DEF Inv, IdleWhenRecoating, ClosedInv, NeverRunsOff, BedInv, NumLayers
<1> QED
  BY <1>2, <1>3, <1>4 DEF Inv

\* Storing a command in the list to fill: the list keeps its type, holds the
\* command, and the executing list is not touched.
LEMMA StoreStep ==
  ASSUME Inv, pc = "blocks", NEW c \in Command, api_list_command(c)
  PROVE  /\ mem' \in [ListIds -> Seq(Command)] /\ inPos' \in Nat \ {0}
         /\ \E n \in DOMAIN mem'[m_currentListIdForFilling] :
              mem'[m_currentListIdForFilling][n] = c
         /\ exec # 0 => exec # m_currentListIdForFilling /\ mem'[exec] = mem[exec]
<1> DEFINE fill == m_currentListIdForFilling
<1>1. inList = fill /\ fill \in ListIds /\ fill # 0
  BY DEF Inv, ListInv, TypeOK, HandlerTypeOK, ListIds
<1>2. mem \in [ListIds -> Seq(Command)] /\ inPos \in Nat \ {0}
  BY DEF Inv, TypeOK, BoardTypeOK
<1>3. mem' = [mem EXCEPT ![fill] = Stored(mem[fill], inPos, c)] /\ inPos' = inPos + 1
  BY <1>1 DEF api_list_command
<1>4. mem[fill] \in Seq(Command)
  BY <1>1, <1>2
<1>5. /\ Stored(mem[fill], inPos, c) \in Seq(Command)
      /\ \E n \in DOMAIN Stored(mem[fill], inPos, c) : Stored(mem[fill], inPos, c)[n] = c
  BY <1>2, <1>4, StoredType
<1>6. mem'[fill] = Stored(mem[fill], inPos, c)
  BY <1>1, <1>2, <1>3
<1>7. mem' \in [ListIds -> Seq(Command)]
  BY <1>1, <1>2, <1>3, <1>5
<1>8. ASSUME exec # 0 PROVE exec # fill /\ mem'[exec] = mem[exec]
  <2>1. exec = OtherList(fill) /\ exec \in ListIds
    BY <1>8 DEF Inv, ListInv, TypeOK, BoardTypeOK
  <2>2. exec # fill
    BY <1>1, <2>1 DEF OtherList, ListIds
  <2> QED
    BY <1>2, <1>3, <2>1, <2>2
<1> QED
  BY <1>2, <1>3, <1>5, <1>6, <1>7, <1>8

\* Adding a command keeps the invariant.
LEMMA AddCommandInv == ASSUME Inv, AddCommand PROVE Inv'
<1> USE DEF AddCommand, addCommand, handlerVars, idleVars, scanVars, endVars
<1>1. Head(todo) \in Command /\ todo' \in Seq(Command)
  BY DEF Inv, TypeOK
<1>2. /\ mem' \in [ListIds -> Seq(Command)] /\ inPos' \in Nat \ {0}
      /\ exec # 0 => mem'[exec] = mem[exec]
  BY <1>1, StoreStep
<1>3. UNCHANGED << inList, exec, outPos, armed, rejected >>
  BY DEF api_list_command
<1>4. TypeOK'
  BY <1>1, <1>2, <1>3 DEF Inv, TypeOK, BoardTypeOK, HandlerTypeOK
<1>5. LoopInv' /\ ListInv'
  BY <1>3 DEF Inv, LoopInv, NumLayers, ListInv
<1>6. NeverRunsOff'
  BY <1>2, <1>3 DEF Inv, NeverRunsOff
<1>7. IdleWhenRecoating' /\ ClosedInv' /\ BedInv'
  BY <1>3 DEF Inv, IdleWhenRecoating, ClosedInv, BedInv
<1> QED
  BY <1>4, <1>5, <1>6, <1>7 DEF Inv

\* Closing the list keeps the invariant, and makes ClosedInv true.
LEMMA EndLayerInv == ASSUME Inv, EndLayer PROVE Inv'
<1> USE DEF EndLayer, endListPreparation, api_set_end_of_list, Continues,
        handlerVars, loopVars, idleVars, scanVars, endVars
<1>1. /\ mem' \in [ListIds -> Seq(Command)] /\ inPos' \in Nat \ {0}
      /\ \E n \in DOMAIN mem'[m_currentListIdForFilling] :
           mem'[m_currentListIdForFilling][n] = EndOfList
      /\ exec # 0 => mem'[exec] = mem[exec]
  BY EndOfListType, StoreStep
<1>2. UNCHANGED << inList, exec, outPos, armed, rejected >>
  BY DEF api_list_command
<1>3. TypeOK'
  BY <1>1, <1>2 DEF Inv, TypeOK, BoardTypeOK, HandlerTypeOK, HostSteps
<1>4. LoopInv' /\ ListInv'
  BY <1>2 DEF Inv, LoopInv, NumLayers, ListInv
<1>5. NeverRunsOff'
  BY <1>1, <1>2 DEF Inv, NeverRunsOff
<1>6. ClosedInv'
  BY <1>1 DEF ClosedInv
<1>7. IdleWhenRecoating' /\ BedInv'
  BY <1>2 DEF Inv, IdleWhenRecoating, BedInv
<1> QED
  BY <1>3, <1>4, <1>5, <1>6, <1>7 DEF Inv

\* Recoating keeps the invariant: the board is idle and the bed gets fresh.
LEMMA RecoatInv == ASSUME Inv, Recoat PROVE Inv'
<1> USE DEF Recoat, Continues, boardVars, handlerVars, loopVars, scanVars, endVars
<1>1. TypeOK'
  BY DEF Inv, TypeOK, BoardTypeOK, HandlerTypeOK, HostSteps
<1>2. LoopInv' /\ ListInv'
  BY DEF Inv, LoopInv, NumLayers, ListInv
<1>3. IdleWhenRecoating' /\ BedInv'
  BY DEF Inv, IdleWhenRecoating, BedInv
<1>4. ClosedInv' /\ NeverRunsOff'
  BY DEF Inv, ClosedInv, NeverRunsOff, NumLayers
<1> QED
  BY <1>1, <1>2, <1>3, <1>4 DEF Inv

\* Starting the list keeps the invariant: the board was idle and the list is
\* closed, so it starts (or is refused), and the fill target moves away from it.
LEMMA ExecuteLayerInv == ASSUME Inv, ExecuteLayer PROVE Inv'
<1> DEFINE fill == m_currentListIdForFilling
<1> USE DEF ExecuteLayer, Continues, scanVars, endVars
<1>1. isSuccessfullySetup /\ exec = 0 /\ fill \in ListIds /\ fill # 0
  BY DEF Inv, LoopInv, IdleWhenRecoating, TypeOK, HandlerTypeOK, ListIds
<1>2. /\ api_execute_list(fill)
      /\ m_lastExecutedListId' = fill /\ m_currentListIdForExecution' = fill
      /\ m_currentListIdForFilling' = IF fill = 1 THEN 2 ELSE 1
  BY <1>1 DEF executeCurrentListAndCycle, switchFillListTarget
<1>3. /\ mem' = mem /\ inList' = inList /\ inPos' = inPos /\ armed' = armed
      /\ \/ exec' = fill /\ outPos' = 1 /\ rejected' = rejected
         \/ exec' = 0 /\ outPos' = outPos /\ rejected < MaxRejects /\ rejected' = rejected + 1
  <2>1. CASE StartsList(fill)
    BY <2>1 DEF StartsList
  <2>2. CASE RefusesIdle
    BY <1>1, <2>2 DEF RefusesIdle
  <2>3. CASE RefusesBusy
    BY <1>1, <2>3 DEF RefusesBusy
  <2> QED
    BY <1>2, <2>1, <2>2, <2>3 DEF api_execute_list
<1>4. i' = i + 1 /\ i \in Nat /\ NumLayers \in Nat /\ NumLayers' = NumLayers
  BY JobsAssumption DEF Inv, TypeOK, NumLayers
<1>5. BoardTypeOK'
  <2>1. mem' \in [ListIds -> Seq(Command)] /\ inList' \in ListIds \cup {0}
        /\ inPos' \in Nat \ {0}
    BY <1>3 DEF Inv, TypeOK, BoardTypeOK
  <2>2. exec' \in ListIds \cup {0}
    BY <1>1, <1>3
  <2>3. outPos' \in Nat \ {0} /\ rejected' \in 0 .. MaxRejects
    BY <1>3, MaxRejectsAssumption DEF Inv, TypeOK, BoardTypeOK
  <2>4. armed' \in BOOLEAN
    BY <1>3 DEF Inv, TypeOK, BoardTypeOK
  <2> QED
    BY <2>1, <2>2, <2>3, <2>4 DEF BoardTypeOK
<1>6. TypeOK'
  <2>1. HandlerTypeOK'
    BY <1>1, <1>2 DEF Inv, TypeOK, HandlerTypeOK, ListIds
  <2> QED
    BY <1>1, <1>2, <1>4, <1>5, <2>1 DEF Inv, TypeOK, HostSteps
<1>7. LoopInv'
  BY <1>1, <1>4 DEF Inv, LoopInv
<1>8. ListInv'
  BY <1>1, <1>2, <1>3, <1>4 DEF Inv, ListInv, OtherList, ListIds
<1>9. IdleWhenRecoating' /\ ClosedInv' /\ BedInv'
  BY <1>1, <1>2, <1>4 DEF IdleWhenRecoating, ClosedInv, BedInv
<1>10. NeverRunsOff'
  <2>1. PICK n \in DOMAIN mem[fill] : mem[fill][n] = EndOfList
    BY DEF Inv, ClosedInv
  <2>2. mem[fill] \in Seq(Command)
    BY <1>1 DEF Inv, TypeOK, BoardTypeOK
  <2>3. n >= 1
    BY <2>2
  <2> QED
    BY <1>3, <2>1, <2>3 DEF NeverRunsOff
<1> QED
  BY <1>6, <1>7, <1>8, <1>9, <1>10 DEF Inv

\* A command the board carries out keeps the invariant: the end of the list is
\* still ahead.
LEMMA ExecuteInv == ASSUME Inv, Execute PROVE Inv'
<1> USE DEF Execute, BoardExecutes, hostVars, handlerVars, loopVars, endVars
<1>1. exec \in ListIds /\ outPos \in Nat \ {0} /\ mem[exec] \in Seq(Command)
  BY DEF Running, Inv, TypeOK, BoardTypeOK
<1>2. CurrentCommand \in Command
  BY <1>1 DEF Running, CurrentCommand
<1>3. regs' \in Registers /\ exposed' \in Seq(Exposures)
  BY <1>2, ScannerType DEF Inv, TypeOK
<1>4. TypeOK'
  BY <1>1, <1>3 DEF Inv, TypeOK, BoardTypeOK, HandlerTypeOK
<1>5. LoopInv' /\ ListInv'
  BY DEF Inv, LoopInv, NumLayers, ListInv
<1>6. IdleWhenRecoating' /\ ClosedInv' /\ BedInv'
  BY DEF Inv, IdleWhenRecoating, ClosedInv, BedInv, NumLayers
<1>7. NeverRunsOff'
  <2>1. PICK n \in DOMAIN mem[exec] : n >= outPos /\ mem[exec][n] = EndOfList
    BY DEF Inv, NeverRunsOff, Running
  <2>2. n \in Nat
    BY <1>1
  <2>3. n # outPos
    BY <2>1 DEF CurrentCommand
  <2>4. n >= outPos + 1
    BY <1>1, <2>1, <2>2, <2>3
  <2> QED
    BY <2>1, <2>4 DEF NeverRunsOff
<1> QED
  BY <1>4, <1>5, <1>6, <1>7 DEF Inv

\* The end of a list keeps the invariant: auto-change is not armed, so the board
\* gets idle.
LEMMA EndListInv == ASSUME Inv, EndList PROVE Inv'
<1> USE DEF EndList, BoardEndsList, hostVars, handlerVars, loopVars, endVars, scanVars
<1>1. exec' = 0 /\ armed' = FALSE
  BY DEF Inv, ListInv
<1>2. BoardTypeOK'
  <2>1. armed' \in BOOLEAN
    BY <1>1
  <2> QED
    BY <1>1, <2>1 DEF Inv, TypeOK, BoardTypeOK
<1>3. TypeOK' /\ LoopInv' /\ ListInv'
  BY <1>1, <1>2 DEF Inv, TypeOK, HandlerTypeOK, LoopInv, NumLayers, ListInv
<1>4. IdleWhenRecoating' /\ ClosedInv' /\ NeverRunsOff' /\ BedInv'
  BY <1>1 DEF Inv, IdleWhenRecoating, ClosedInv, NeverRunsOff, BedInv, NumLayers
<1> QED
  BY <1>2, <1>3, <1>4 DEF Inv

\* A step that changes nothing.
LEMMA StutterInv == ASSUME Inv, UNCHANGED vars PROVE Inv'
<1> USE DEF vars, boardVars, handlerVars, loopVars, endVars, scanVars
<1>1. TypeOK'
  BY DEF Inv, TypeOK, BoardTypeOK, HandlerTypeOK
<1>2. LoopInv' /\ ListInv'
  BY DEF Inv, LoopInv, NumLayers, ListInv
<1>3. IdleWhenRecoating' /\ ClosedInv' /\ NeverRunsOff' /\ BedInv'
  BY DEF Inv, IdleWhenRecoating, ClosedInv, NeverRunsOff, BedInv, NumLayers
<1> QED
  BY <1>1, <1>2, <1>3 DEF Inv

\* Every step of the host, the operator and the board keeps the invariant.
LEMMA NextInv == ASSUME Inv, [Next]_vars PROVE Inv'
<1>1. CASE UNCHANGED vars
  BY <1>1, StutterInv
<1>2. CASE Host
  <2>1. CASE PollBusy
    BY <2>1, StutterInv DEF PollBusy
  <2> QED
    BY <1>2, <2>1, HostMovesInv, BeginLayerInv, TranslateBlockInv, AddCommandInv,
       EndLayerInv, RecoatInv, ExecuteLayerInv DEF Host
<1>3. CASE PromptForExit
  BY <1>3, HostMovesInv
<1>4. CASE Board
  BY <1>4, ExecuteInv, EndListInv DEF Board
<1>5. CASE Finished
  BY <1>5, StutterInv DEF Finished
<1> QED
  BY <1>1, <1>2, <1>3, <1>4, <1>5 DEF Next
-----------------------------------------------------------------------------
(* The properties of every print job.                                      *)

\* The inductive invariant holds in every state of every print job: main(),
\* PrintController::run and the board agree on loop, lists, board and bed.
THEOREM Invariance == Spec => []Inv
<1>1. Inv /\ [Next]_vars => Inv'
  BY NextInv
<1> QED
  BY <1>1, InitInv, PTL DEF Spec

\* Every variable of the print job keeps its type.
THEOREM TypeCorrect == Spec => []TypeOK
<1>1. Inv => TypeOK
  BY DEF Inv
<1> QED
  BY <1>1, Invariance, PTL

\* The recoater moves and the next list is started only on an idle board: the
\* wait of waitForPreviousLayer is enough.
THEOREM RecoatsIdleBoard == Spec => []IdleWhenRecoating
<1>1. Inv => IdleWhenRecoating
  BY DEF Inv
<1> QED
  BY <1>1, Invariance, PTL

\* An executing list always has its end-of-list command ahead of the output
\* pointer: endListPreparation closes every list before executeLayer starts it.
THEOREM NoRunOff == Spec => []NeverRunsOff
<1>1. Inv => NeverRunsOff
  BY DEF Inv
<1> QED
  BY <1>1, Invariance, PTL

\* No command of an executing list is overwritten by prepareLayer, however long
\* the list is and whichever lists the board refused.
THEOREM NoOverwrite == Spec => NoOverwriteWhileExecuting
<1> DEFINE A == exec # 0 /\ exec' = exec => mem'[exec] = mem[exec]
<1>1. ASSUME Inv, [Next]_vars PROVE [A]_vars
  <2>1. CASE AddCommand
    <3>1. pc = "blocks" /\ Head(todo) \in Command /\ api_list_command(Head(todo))
      BY <2>1, <1>1 DEF AddCommand, addCommand, Inv, TypeOK
    <3> QED
      BY <1>1, <3>1, StoreStep
  <2>2. CASE EndLayer
    <3>1. pc = "blocks" /\ api_list_command(EndOfList)
      BY <2>2 DEF EndLayer, endListPreparation, api_set_end_of_list
    <3> QED
      BY <1>1, <3>1, EndOfListType, StoreStep
  <2>3. CASE BeginLayer
    BY <2>3 DEF BeginLayer, beginListPreparation, api_set_start_list, boardVars
  <2>4. CASE ExecuteLayer
    BY <2>4 DEF ExecuteLayer, executeCurrentListAndCycle, api_execute_list, StartsList,
                RefusesBusy, RefusesIdle, boardVars
  <2>5. CASE Board
    BY <2>5 DEF Board, Execute, EndList, BoardExecutes, BoardEndsList
  <2>6. CASE \/ ConnectAndSetupBoard \/ OpenFile \/ ProcessOvfJob \/ GetWorkPlane
             \/ TranslateBlock \/ MissingParams \/ NoPreviousLayer \/ PreviousLayerDone
             \/ Recoat \/ AllLayersProcessed \/ PromptForExit
    BY <2>6 DEF ConnectAndSetupBoard, OpenFile, ProcessOvfJob, GetWorkPlane,
                TranslateBlock, MissingParams, NoPreviousLayer, PreviousLayerDone, Recoat,
                AllLayersProcessed, PromptForExit, boardVars
  <2>7. CASE PollBusy \/ Finished \/ UNCHANGED vars
    BY <2>7 DEF PollBusy, Finished
  <2> QED
    BY <1>1, <2>1, <2>2, <2>3, <2>4, <2>5, <2>6, <2>7 DEF Next, Host
<1> QED
  BY <1>1, Invariance, PTL DEF Spec, NoOverwriteWhileExecuting

\* After run() has ended, normally or by an exception, no list is started.
THEOREM NoLateStart == Spec => NoStartAfterTheEnd
<1> DEFINE A == (pc = "prompt" \/ pc = "exited") => (exec' = 0 \/ exec' = exec)
<1>1. ASSUME Inv, [Next]_vars PROVE [A]_vars
  <2>1. CASE Host
    BY <2>1 DEF Host, ConnectAndSetupBoard, OpenFile, ProcessOvfJob, GetWorkPlane,
                BeginLayer, TranslateBlock, MissingParams, AddCommand, EndLayer,
                NoPreviousLayer, PollBusy, PreviousLayerDone, Recoat, ExecuteLayer,
                AllLayersProcessed
  <2>2. CASE PromptForExit
    BY <2>2 DEF PromptForExit, boardVars
  <2>3. CASE Board
    BY <1>1, <2>3 DEF Board, Execute, EndList, BoardExecutes, BoardEndsList, Inv, ListInv
  <2>4. CASE Finished \/ UNCHANGED vars
    BY <2>4 DEF Finished
  <2> QED
    BY <1>1, <2>1, <2>2, <2>3, <2>4 DEF Next
<1> QED
  BY <1>1, Invariance, PTL DEF Spec, NoStartAfterTheEnd
-----------------------------------------------------------------------------
(* The print job implements PrintJob.                                      *)

\* A step that leaves the board, the bed, the loop counter and the outcome alone
\* is not visible in PrintJob.
LEMMA Invisible ==
  ASSUME exec' = exec, bed' = bed, i' = i, outcome' = outcome, job' = job
  PROVE  UNCHANGED Abstract!vars
BY DEF Abstract!vars, NumLayers, BedPhase, JobResult

\* Every step of a print job is a step of PrintJob or is not visible in it.
LEMMA StepRefines ==
  ASSUME Inv, [Next]_vars PROVE [Abstract!Next]_(Abstract!vars)
<1> USE DEF Abstract!Next, Abstract!vars
<1>1. CASE \/ BeginLayer \/ TranslateBlock \/ AddCommand \/ EndLayer
           \/ NoPreviousLayer \/ PollBusy \/ PreviousLayerDone
           \/ PromptForExit \/ Finished \/ UNCHANGED vars
  <2>1. exec' = exec
    BY <1>1 DEF BeginLayer, TranslateBlock, AddCommand, EndLayer, NoPreviousLayer,
                PollBusy, PreviousLayerDone, PromptForExit, Finished, vars, boardVars,
                beginListPreparation, api_set_start_list, addCommand,
                endListPreparation, api_set_end_of_list, api_list_command
  <2>2. bed' = bed /\ i' = i /\ outcome' = outcome /\ job' = job
    BY <1>1 DEF BeginLayer, TranslateBlock, AddCommand, EndLayer, NoPreviousLayer,
                PollBusy, PreviousLayerDone, PromptForExit, Finished, vars, loopVars,
                endVars, idleVars, Continues
  <2> QED
    BY <2>1, <2>2, Invisible
<1>2. CASE ConnectAndSetupBoard \/ OpenFile \/ ProcessOvfJob \/ GetWorkPlane
           \/ MissingParams
  <2>1. exec' = exec /\ bed' = bed /\ i' = i /\ job' = job /\ outcome = "running"
    BY <1>2 DEF ConnectAndSetupBoard, OpenFile, ProcessOvfJob, GetWorkPlane,
                MissingParams, boardVars, loopVars, idleVars, Inv, LoopInv
  <2>2. \/ outcome' = outcome
        \/ outcome' \in {"HardwareFailed", "FileNotParsed", "FileParseError",
                         "ConfigurationError", "NoLayers"}
    BY <1>2 DEF ConnectAndSetupBoard, OpenFile, ProcessOvfJob, GetWorkPlane,
                MissingParams, Continues, Returns, Throws, endVars
  <2> QED
    BY <2>1, <2>2 DEF Abstract!Stop, NumLayers, BedPhase, JobResult
<1>3. CASE Recoat
  <2>1. exec' = exec /\ exec = 0 /\ bed = "exposed" /\ bed' = "fresh" /\ i' = i
        /\ job' = job /\ outcome = "running" /\ outcome' = outcome
    BY <1>3 DEF Recoat, Continues, boardVars, loopVars, endVars, Inv, LoopInv, ListInv,
                IdleWhenRecoating, BedInv
  <2> QED
    BY <2>1 DEF Abstract!Recoat, NumLayers, BedPhase, JobResult
<1>4. CASE ExecuteLayer
  <2>1. exec = 0 /\ bed = "fresh" /\ bed' = "exposed" /\ i < NumLayers /\ i' = i + 1
        /\ job' = job /\ outcome = "running" /\ outcome' = outcome
    BY <1>4 DEF ExecuteLayer, Continues, endVars, Inv, LoopInv, IdleWhenRecoating, BedInv
  <2>2. \/ exec' # 0
        \/ exec' = 0 /\ MaxRejects > 0
    <3>1. isSuccessfullySetup /\ m_currentListIdForFilling # 0
      BY <1>4 DEF ExecuteLayer, Inv, LoopInv, TypeOK, HandlerTypeOK, ListIds
    <3>2. rejected \in Nat
      BY MaxRejectsAssumption DEF Inv, TypeOK, BoardTypeOK
    <3> QED
      BY <1>4, <2>1, <3>1, <3>2, MaxRejectsAssumption
         DEF ExecuteLayer, executeCurrentListAndCycle, api_execute_list, StartsList,
             RefusesBusy, RefusesIdle
  <2> QED
    BY <2>1, <2>2 DEF Abstract!Expose, Abstract!Lose, NumLayers, BedPhase, JobResult
<1>5. CASE AllLayersProcessed
  <2>1. exec' = exec /\ exec = 0 /\ bed = "fresh" /\ bed' = bed /\ i = NumLayers /\ i' = i
        /\ job' = job /\ outcome = "running" /\ outcome' = "AllLayersProcessed"
    BY <1>5 DEF AllLayersProcessed, Returns, boardVars, loopVars, idleVars, Inv,
                LoopInv, IdleWhenRecoating, BedInv
  <2> QED
    BY <2>1 DEF Abstract!Complete, NumLayers, BedPhase, JobResult
<1>6. CASE Execute
  BY <1>6, Invisible DEF Execute, BoardExecutes, hostVars, loopVars, endVars
<1>7. CASE EndList
  <2>1. exec # 0 /\ exec' = 0 /\ bed = "exposed" /\ bed' = bed /\ i' = i /\ job' = job
        /\ outcome' = outcome
    BY <1>7 DEF EndList, BoardEndsList, Running, hostVars, loopVars, endVars, Inv,
                ListInv, BedInv
  <2> QED
    BY <2>1 DEF Abstract!Finish, NumLayers, BedPhase, JobResult
<1> QED
  BY <1>1, <1>2, <1>3, <1>4, <1>5, <1>6, <1>7 DEF Next, Host, Board

\* The print job of the program, with lists, commands and a concurrent board, is
\* a print job as PrintJob promises it: layers in order, each on a fresh bed, no
\* recoating under the laser, "processed" only after the last layer.
THEOREM Refinement == Spec => ImplementsPrintJob
<1>1. Init => Abstract!Init
  <2> SUFFICES ASSUME Init PROVE Abstract!Init
    OBVIOUS
  <2>1. NumLayers \in Nat
    BY JobsAssumption DEF Init, NumLayers
  <2> QED
    BY <2>1 DEF Init, BoardInit, Abstract!Init, BedPhase, JobResult
<1>2. Inv /\ [Next]_vars => [Abstract!Next]_(Abstract!vars)
  BY StepRefines
<1> QED
  BY <1>1, <1>2, Invariance, PTL DEF Spec, ImplementsPrintJob, Abstract!Spec
=============================================================================
