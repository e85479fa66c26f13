---------------------------- MODULE MCListHandler ----------------------------
(***************************************************************************)
(* ListHandler on its own, driven by a client that calls its methods in    *)
(* any order while the board executes and the communicator comes and goes. *)
(* What ListHandler promises depends on how it is called; the history      *)
(* variables record whether the client has kept to three rules:            *)
(*   - after an execution it opens the next list before it adds to it      *)
(*     (and beginListPreparation returned true);                           *)
(*   - it executes only after isListBusy(getLastExecutedListId()) was      *)
(*     false, unless nothing was executed yet;                             *)
(*   - it leaves auto-change alone.                                        *)
(***************************************************************************)
EXTENDS ListHandler

CONSTANT MaxLength   \* bound on the length of a list

VARIABLES
  opened,       \* the list to fill is open
  polled,       \* the list executed last was seen not to be busy
  disciplined   \* the client has kept to the rules so far

vars == << boardVars, handlerVars, isSuccessfullySetup, opened, polled, disciplined >>

Init ==
  /\ BoardInit
  /\ HandlerInit
  /\ isSuccessfullySetup = FALSE
  /\ opened = FALSE /\ polled = TRUE /\ disciplined = TRUE

\* connectAndSetupBoard succeeds, or fails and takes the readiness away.
Reconnect ==
  /\ isSuccessfullySetup' \in BOOLEAN
  /\ UNCHANGED << boardVars, handlerVars, opened, polled, disciplined >>

CallBegin ==
  /\ beginListPreparation
  /\ opened' = (opened \/ isSuccessfullySetup)
  /\ UNCHANGED << isSuccessfullySetup, polled, disciplined >>

CallAdd ==
  /\ inPos <= MaxLength
  /\ addCommand(addMarkAbsolute(1, 1)) \/ endListPreparation
  /\ disciplined' = (disciplined /\ opened)
  /\ UNCHANGED << isSuccessfullySetup, opened, polled >>

CallExecute ==
  /\ executeCurrentListAndCycle
  /\ IF isSuccessfullySetup
     THEN /\ opened' = FALSE /\ polled' = FALSE
          /\ disciplined' = (disciplined /\ polled)
     ELSE UNCHANGED << opened, polled, disciplined >>
  /\ UNCHANGED isSuccessfullySetup

CallIsListBusy ==
  /\ ~isListBusy(m_lastExecutedListId)
  /\ polled' = TRUE
  /\ UNCHANGED << boardVars, handlerVars, isSuccessfullySetup, opened, disciplined >>

CallAutoChange ==
  /\ setupAutoChangeMode \/ reArmAutoChange
  /\ disciplined' = (disciplined /\ ~isSuccessfullySetup)
  /\ UNCHANGED << isSuccessfullySetup, opened, polled >>

BoardStep ==
  /\ BoardExecutes \/ BoardEndsList
  /\ UNCHANGED << handlerVars, isSuccessfullySetup, opened, polled, disciplined >>

Next == \/ Reconnect \/ CallBegin \/ CallAdd \/ CallExecute \/ CallIsListBusy
        \/ CallAutoChange \/ BoardStep

Spec == Init /\ [][Next]_vars
-----------------------------------------------------------------------------
\* The list ids the handler keeps name one of the two lists, or none, and the
\* board holds list commands only (switchFillListTarget, the add methods).
TypeOK ==
  /\ BoardTypeOK
  /\ HandlerTypeOK
  /\ {opened, polled, disciplined} \subseteq BOOLEAN

\* For a client that keeps to the rules, the list ListHandler fills next is never
\* the one the board is executing, even when execute_list was refused or the
\* communicator lost its readiness in between (switchFillListTarget).
FillTargetIdle ==
  disciplined /\ exec # 0 => exec # m_currentListIdForFilling

\* For such a client one answer of isListBusy about the list executed last is
\* enough to know that the board is idle, until the client executes again.
PolledMeansIdle == disciplined /\ polled => exec = 0

\* For such a client no command of an executing list is overwritten.
NoOverwriteWhileExecuting ==
  [][disciplined' /\ exec # 0 /\ exec' = exec => mem'[exec] = mem[exec]]_vars
=============================================================================
