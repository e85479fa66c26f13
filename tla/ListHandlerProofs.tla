-------------------------- MODULE ListHandlerProofs --------------------------
(***************************************************************************)
(* Proofs about ListHandler under arbitrary calls: lists of any length,    *)
(* any number of refused lists, a communicator that comes and goes.        *)
(***************************************************************************)
EXTENDS MCListHandler, TLAPS

\* What the rules a client keeps to are good for: auto-change is not armed, the
\* list executed last is the only one that can be executing and is not the list to
\* fill, and commands are added to the list to fill.
RulesInv ==
  /\ armed = FALSE
  /\ exec \in {0, m_lastExecutedListId}
  /\ m_lastExecutedListId \in {0, OtherList(m_currentListIdForFilling)}
  /\ polled => exec = 0
  /\ opened => inList = m_currentListIdForFilling

HInv == TypeOK /\ (disciplined => RulesInv)
-----------------------------------------------------------------------------
\* Storing a command keeps a list a list of commands.
LEMMA StoredIsList ==
  ASSUME NEW list \in Seq(Command), NEW pos \in Nat \ {0}, NEW c \in Command
  PROVE  Stored(list, pos, c) \in Seq(Command)
<1>1. CASE pos \in 1 .. Len(list)
  BY <1>1 DEF Stored
<1>2. CASE pos \notin 1 .. Len(list)
  BY <1>2 DEF Stored
<1> QED
  BY <1>1, <1>2

\* The two lists are different.
LEMMA TwoLists ==
  ASSUME NEW n \in ListIds
  PROVE  OtherList(n) \in ListIds /\ OtherList(n) # n /\ n # 0 /\ OtherList(n) # 0
BY DEF ListIds, OtherList

\* A list command changes the open list only, and keeps the board's types.
LEMMA StoreKeepsBoard ==
  ASSUME BoardTypeOK, NEW c \in Command, api_list_command(c)
  PROVE  /\ BoardTypeOK'
         /\ UNCHANGED << inList, exec, outPos, armed, rejected >>
         /\ \A n \in ListIds : n # inList => mem'[n] = mem[n]
<1>1. UNCHANGED << inList, exec, outPos, armed, rejected >>
  BY DEF api_list_command
<1>2. CASE inList = 0
  <2>1. mem' = mem /\ inPos' = inPos
    BY <1>2 DEF api_list_command
  <2> QED
    BY <1>1, <2>1 DEF BoardTypeOK
<1>3. CASE inList # 0
  <2>1. inList \in ListIds /\ mem[inList] \in Seq(Command) /\ inPos \in Nat \ {0}
    BY <1>3 DEF BoardTypeOK
  <2>2. mem' = [mem EXCEPT ![inList] = Stored(mem[inList], inPos, c)] /\ inPos' = inPos + 1
    BY <1>3 DEF api_list_command
  <2>3. Stored(mem[inList], inPos, c) \in Seq(Command)
    BY <2>1, StoredIsList
  <2>4. mem' \in [ListIds -> Seq(Command)]
    BY <2>1, <2>2, <2>3 DEF BoardTypeOK
  <2> QED
    BY <1>1, <2>1, <2>2, <2>4 DEF BoardTypeOK
<1> QED
  BY <1>2, <1>3

\* The commands a client adds are list commands.
LEMMA AddedCommands == addMarkAbsolute(1, 1) \in Command /\ EndOfList \in Command
BY DEF addMarkAbsolute, EndOfList, Command, CommandOps

\* CallAdd stores one command.
LEMMA AddStores == CallAdd => \E c \in Command : api_list_command(c)
BY AddedCommands DEF CallAdd, addCommand, endListPreparation, api_set_end_of_list
-----------------------------------------------------------------------------
\* A new handler on an idle board.
LEMMA InitHInv == Init => HInv
<1> SUFFICES ASSUME Init PROVE HInv
  OBVIOUS
<1>1. BoardTypeOK
  <2>1. mem \in [ListIds -> Seq(Command)]
    BY DEF Init, BoardInit
  <2>2. armed \in BOOLEAN
    BY DEF Init, BoardInit
  <2>3. inPos \in Nat \ {0} /\ outPos \in Nat \ {0} /\ rejected \in 0 .. MaxRejects
    BY MaxRejectsAssumption DEF Init, BoardInit
  <2> QED
    BY <2>1, <2>2, <2>3 DEF Init, BoardInit, BoardTypeOK
<1>2. HandlerTypeOK /\ {opened, polled, disciplined} \subseteq BOOLEAN
  BY DEF Init, HandlerInit, HandlerTypeOK, ListIds
<1>3. RulesInv
  BY DEF Init, BoardInit, HandlerInit, RulesInv
<1> QED
  BY <1>1, <1>2, <1>3 DEF HInv, TypeOK

\* Every call, in any order, and every step of the board keeps the invariant.
LEMMA StepHInv == HInv /\ [Next]_vars => HInv'
<1> SUFFICES ASSUME HInv, [Next]_vars PROVE HInv'
  OBVIOUS
<1> USE DEF handlerVars
<1>0. /\ BoardTypeOK /\ HandlerTypeOK /\ opened \in BOOLEAN /\ polled \in BOOLEAN
      /\ disciplined \in BOOLEAN /\ (disciplined => RulesInv)
  BY DEF HInv, TypeOK
<1>1. CASE Reconnect
  BY <1>0, <1>1 DEF Reconnect, HInv, TypeOK, BoardTypeOK, HandlerTypeOK, RulesInv, boardVars
<1>2. CASE CallBegin
  <2>1. CASE isSuccessfullySetup
    <3>1. api_set_start_list(m_currentListIdForFilling)
      BY <1>2, <2>1 DEF CallBegin, beginListPreparation
    <3>2. BoardTypeOK'
      BY <1>0, <3>1 DEF api_set_start_list, BoardTypeOK, HandlerTypeOK
    <3>3. HandlerTypeOK' /\ opened' \in BOOLEAN /\ polled' = polled /\ disciplined' = disciplined
      BY <1>0, <1>2 DEF CallBegin, beginListPreparation, HandlerTypeOK
    <3>4. disciplined' => RulesInv'
      BY <1>0, <1>2, <3>1, <3>3
         DEF CallBegin, beginListPreparation, api_set_start_list, RulesInv
    <3> QED
      BY <1>0, <3>2, <3>3, <3>4 DEF HInv, TypeOK
  <2>2. CASE ~isSuccessfullySetup
    <3>1. UNCHANGED << boardVars, handlerVars, isSuccessfullySetup, polled, disciplined >>
          /\ opened' = opened
      BY <1>0, <1>2, <2>2 DEF CallBegin, beginListPreparation
    <3> QED
      BY <1>0, <3>1 DEF HInv, TypeOK, BoardTypeOK, HandlerTypeOK, RulesInv, boardVars
  <2> QED
    BY <2>1, <2>2
<1>3. CASE CallAdd
  <2>1. PICK c \in Command : api_list_command(c)
    BY <1>3, AddStores
  <2>2. BoardTypeOK' /\ UNCHANGED << inList, exec, outPos, armed, rejected >>
    BY <1>0, <2>1, StoreKeepsBoard
  <2>3. UNCHANGED << handlerVars, isSuccessfullySetup, opened, polled >>
        /\ disciplined' \in BOOLEAN /\ (disciplined' => disciplined)
    BY <1>0, <1>3 DEF CallAdd, addCommand, endListPreparation
  <2> QED
    BY <1>0, <2>2, <2>3 DEF HInv, TypeOK, HandlerTypeOK, RulesInv
<1>4. CASE CallExecute
  <2>1. CASE isSuccessfullySetup
    <3> DEFINE fill == m_currentListIdForFilling
    <3>1. /\ api_execute_list(fill)
          /\ m_lastExecutedListId' = fill /\ m_currentListIdForExecution' = fill
          /\ m_currentListIdForFilling' = OtherList(fill)
          /\ opened' = FALSE /\ polled' = FALSE /\ isSuccessfullySetup' = isSuccessfullySetup
          /\ disciplined' = (disciplined /\ polled)
      BY <1>4, <2>1 DEF CallExecute, executeCurrentListAndCycle, switchFillListTarget,
                        OtherList
    <3>2. /\ UNCHANGED << mem, inList, inPos, armed >>
          /\ \/ exec = 0 /\ exec' = fill /\ outPos' = 1 /\ rejected' = rejected
             \/ exec' = exec /\ outPos' = outPos /\ rejected' \in {rejected, rejected + 1}
                /\ (rejected' # rejected => rejected < MaxRejects)
      BY <3>1 DEF api_execute_list, StartsList, RefusesBusy, RefusesIdle, boardVars
    <3>3. fill \in ListIds /\ OtherList(fill) \in ListIds /\ OtherList(OtherList(fill)) = fill
      BY <1>0 DEF HandlerTypeOK, ListIds, OtherList
    <3>4. BoardTypeOK'
      <4>1. rejected' \in 0 .. MaxRejects
        BY <1>0, <3>2, MaxRejectsAssumption DEF BoardTypeOK
      <4>2. exec' \in ListIds \cup {0} /\ outPos' \in Nat \ {0}
        BY <1>0, <3>2, <3>3 DEF BoardTypeOK
      <4> QED
        BY <1>0, <3>2, <4>1, <4>2 DEF BoardTypeOK
    <3>5. HandlerTypeOK' /\ opened' \in BOOLEAN /\ polled' \in BOOLEAN
          /\ disciplined' \in BOOLEAN
      BY <1>0, <3>1, <3>3 DEF HandlerTypeOK
    <3>6. disciplined' => RulesInv'
      BY <1>0, <3>1, <3>2, <3>3 DEF RulesInv
    <3> QED
      BY <3>4, <3>5, <3>6 DEF HInv, TypeOK
  <2>2. CASE ~isSuccessfullySetup
    BY <1>0, <1>4, <2>2 DEF CallExecute, executeCurrentListAndCycle, HInv, TypeOK,
                            BoardTypeOK, HandlerTypeOK, RulesInv, boardVars
  <2> QED
    BY <2>1, <2>2
<1>5. CASE CallIsListBusy
  <2>1. /\ polled' = TRUE /\ m_lastExecutedListId \in ListIds /\ exec # m_lastExecutedListId
        /\ UNCHANGED << boardVars, handlerVars, isSuccessfullySetup, opened, disciplined >>
    BY <1>5 DEF CallIsListBusy, isListBusy, api_read_status
  <2>2. disciplined => exec = 0
    BY <1>0, <2>1 DEF RulesInv
  <2> QED
    BY <1>0, <2>1, <2>2 DEF HInv, TypeOK, BoardTypeOK, HandlerTypeOK, RulesInv, boardVars
<1>6. CASE CallAutoChange
  <2>1. CASE isSuccessfullySetup
    <3>1. /\ armed' = TRUE /\ UNCHANGED << mem, inList, inPos, exec, outPos, rejected >>
          /\ UNCHANGED << handlerVars, isSuccessfullySetup, opened, polled >>
          /\ disciplined' = FALSE
      BY <1>6, <2>1 DEF CallAutoChange, setupAutoChangeMode, reArmAutoChange, api_auto_change
    <3>2. BoardTypeOK'
      <4>1. armed' \in BOOLEAN
        BY <3>1
      <4> QED
        BY <1>0, <3>1, <4>1 DEF BoardTypeOK
    <3> QED
      BY <1>0, <3>1, <3>2 DEF HInv, TypeOK, HandlerTypeOK
  <2>2. CASE ~isSuccessfullySetup
    <3>1. UNCHANGED << boardVars, handlerVars, isSuccessfullySetup, opened, polled >>
          /\ disciplined' = disciplined
      BY <1>0, <1>6, <2>2 DEF CallAutoChange, setupAutoChangeMode, reArmAutoChange
    <3> QED
      BY <1>0, <3>1 DEF HInv, TypeOK, BoardTypeOK, HandlerTypeOK, RulesInv, boardVars
  <2> QED
    BY <2>1, <2>2
<1>7. CASE BoardStep
  <2>1. UNCHANGED << handlerVars, isSuccessfullySetup, opened, polled, disciplined >>
    BY <1>7 DEF BoardStep
  <2>2. CASE BoardExecutes
    BY <1>0, <2>1, <2>2 DEF BoardExecutes, HInv, TypeOK, BoardTypeOK, HandlerTypeOK, RulesInv
  <2>3. CASE BoardEndsList
    <3>1. exec \in ListIds /\ exec' = (IF armed THEN OtherList(exec) ELSE 0)
          /\ outPos' = 1 /\ armed' = FALSE /\ UNCHANGED << mem, inList, inPos, rejected >>
      BY <1>0, <2>3 DEF BoardEndsList, Running, BoardTypeOK
    <3>2. BoardTypeOK'
      <4>1. armed' \in BOOLEAN
        BY <3>1
      <4>2. exec' \in ListIds \cup {0}
        BY <3>1, TwoLists
      <4> QED
        BY <1>0, <3>1, <4>1, <4>2 DEF BoardTypeOK
    <3>3. disciplined => RulesInv'
      BY <1>0, <2>1, <3>1 DEF RulesInv
    <3> QED
      BY <1>0, <2>1, <3>2, <3>3 DEF HInv, TypeOK, HandlerTypeOK
  <2> QED
    BY <1>7, <2>2, <2>3 DEF BoardStep
<1>8. CASE UNCHANGED vars
  BY <1>0, <1>8 DEF vars, HInv, TypeOK, BoardTypeOK, HandlerTypeOK, RulesInv, boardVars
<1> QED
  BY <1>1, <1>2, <1>3, <1>4, <1>5, <1>6, <1>7, <1>8 DEF Next
-----------------------------------------------------------------------------
\* The inductive invariant holds however ListHandler is called.
THEOREM HandlerInvariance == Spec => []HInv
BY InitHInv, StepHInv, PTL DEF Spec

\* The list ids name a list or none, and the lists hold commands only.
THEOREM HandlerTypes == Spec => []TypeOK
<1>1. HInv => TypeOK
  BY DEF HInv
<1> QED
  BY <1>1, HandlerInvariance, PTL

\* For a client that keeps to the rules the list to fill is never the executing one.
THEOREM FillTargetIsIdle == Spec => []FillTargetIdle
<1>1. HInv => FillTargetIdle
  BY TwoLists DEF HInv, TypeOK, HandlerTypeOK, RulesInv, FillTargetIdle
<1> QED
  BY <1>1, HandlerInvariance, PTL

\* For such a client one negative answer about the list executed last means that
\* the board is idle.
THEOREM OnePollIsEnough == Spec => []PolledMeansIdle
<1>1. HInv => PolledMeansIdle
  BY DEF HInv, RulesInv, PolledMeansIdle
<1> QED
  BY <1>1, HandlerInvariance, PTL

\* For such a client no command of an executing list is overwritten.
THEOREM ExecutingListIsSafe == Spec => NoOverwriteWhileExecuting
<1> DEFINE A == disciplined' /\ exec # 0 /\ exec' = exec => mem'[exec] = mem[exec]
<1>1. ASSUME HInv, [Next]_vars PROVE [A]_vars
  <2>1. CASE CallAdd
    <3>1. PICK c \in Command : api_list_command(c)
      BY <2>1, AddStores
    <3>2. \A n \in ListIds : n # inList => mem'[n] = mem[n]
      BY <1>1, <3>1, StoreKeepsBoard DEF HInv, TypeOK
    <3>3. disciplined' => disciplined /\ opened
      BY <2>1 DEF CallAdd
    <3>4. ASSUME disciplined', exec # 0 PROVE exec \in ListIds /\ exec # inList
      BY <1>1, <3>3, <3>4, TwoLists
         DEF HInv, TypeOK, BoardTypeOK, HandlerTypeOK, RulesInv
    <3> QED
      BY <3>2, <3>4
  <2>2. CASE Reconnect \/ CallBegin \/ CallExecute \/ CallIsListBusy \/ CallAutoChange
             \/ BoardStep
    <3>1. mem' = mem
      BY <2>2 DEF Reconnect, CallBegin, CallExecute, CallIsListBusy, CallAutoChange,
            BoardStep, beginListPreparation, api_set_start_list, executeCurrentListAndCycle,
            api_execute_list, StartsList, RefusesBusy, RefusesIdle, setupAutoChangeMode,
            reArmAutoChange, api_auto_change, BoardExecutes, BoardEndsList, boardVars
    <3> QED
      BY <3>1
  <2> QED
    BY <1>1, <2>1, <2>2 DEF Next
<1> QED
  BY <1>1, HandlerInvariance, PTL DEF Spec, NoOverwriteWhileExecuting
=============================================================================
