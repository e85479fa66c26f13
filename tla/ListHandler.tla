----------------------------- MODULE ListHandler -----------------------------
(***************************************************************************)
(* ListHandler: ping-pong between the two lists of the board.  Each method *)
(* is an action on the handler's members and on the board; its guard is    *)
(* the readiness check of the communicator, and the branch that fails it   *)
(* calls nothing.  Callers of these actions decide when a method is called.*)
(***************************************************************************)
EXTENDS Rtc6Board

VARIABLES
  m_currentListIdForFilling,
  m_currentListIdForExecution,
  m_lastExecutedListId,
  isSuccessfullySetup           \* of the communicator the handler refers to

handlerVars ==
  << m_currentListIdForFilling, m_currentListIdForExecution, m_lastExecutedListId >>

HandlerTypeOK ==
  /\ m_currentListIdForFilling \in ListIds
  /\ m_currentListIdForExecution \in ListIds \cup {0}
  /\ m_lastExecutedListId \in ListIds \cup {0}
  /\ isSuccessfullySetup \in BOOLEAN

HandlerInit ==
  /\ m_currentListIdForFilling = 1
  /\ m_currentListIdForExecution = 0
  /\ m_lastExecutedListId = 0
-----------------------------------------------------------------------------
setupAutoChangeMode ==
  /\ IF isSuccessfullySetup THEN api_auto_change ELSE UNCHANGED boardVars
  /\ UNCHANGED handlerVars

\* The same call; nothing is reported when the communicator is not ready.
reArmAutoChange == setupAutoChangeMode

\* Mutant: the list is opened behind what it already holds.
ContinuesOldList ==
  /\ IF isSuccessfullySetup
     THEN /\ inList' = m_currentListIdForFilling
          /\ inPos' = Len(mem[m_currentListIdForFilling]) + 1
          /\ UNCHANGED << mem, exec, outPos, armed, rejected >>
     ELSE UNCHANGED boardVars
  /\ UNCHANGED handlerVars

\* Mutant: the list that was executed last is opened again.
BeginsExecutedList ==
  /\ IF isSuccessfullySetup
     THEN api_set_start_list(OtherList(m_currentListIdForFilling))
     ELSE UNCHANGED boardVars
  /\ UNCHANGED handlerVars

beginListPreparation ==
  /\ IF isSuccessfullySetup
     THEN api_set_start_list(m_currentListIdForFilling)
     ELSE UNCHANGED boardVars
  /\ UNCHANGED handlerVars

\* No readiness check: the command goes wherever the input pointer is.
addCommand(c) == api_list_command(c) /\ UNCHANGED handlerVars

endListPreparation == api_set_end_of_list /\ UNCHANGED handlerVars

\* Mutant: the next list, without the wrap-around.
SwitchesByIncrement == m_currentListIdForFilling' = m_currentListIdForFilling + 1

switchFillListTarget ==
  m_currentListIdForFilling' = IF m_currentListIdForFilling = 1 THEN 2 ELSE 1

\* Mutant: the fill target is not switched.
ForgetsToSwitch ==
  IF isSuccessfullySetup
  THEN /\ api_execute_list(m_currentListIdForFilling)
       /\ m_lastExecutedListId' = m_currentListIdForFilling
       /\ m_currentListIdForExecution' = m_currentListIdForFilling
       /\ UNCHANGED m_currentListIdForFilling
  ELSE UNCHANGED << boardVars, handlerVars >>

executeCurrentListAndCycle ==
  IF isSuccessfullySetup
  THEN /\ api_execute_list(m_currentListIdForFilling)
       /\ m_lastExecutedListId' = m_currentListIdForFilling
       /\ m_currentListIdForExecution' = m_currentListIdForFilling
       /\ switchFillListTarget
  ELSE UNCHANGED << boardVars, handlerVars >>

\* Mutant: the bit of the other list is tested.
ChecksOtherList(listIdToCheck) ==
  ~isSuccessfullySetup \/ api_read_status(OtherList(listIdToCheck))

\* Busy is also the answer for a board that is not ready and for an id that is
\* neither 1 nor 2.
isListBusy(listIdToCheck) ==
  \/ ~isSuccessfullySetup
  \/ listIdToCheck \notin ListIds
  \/ api_read_status(listIdToCheck)
=============================================================================
