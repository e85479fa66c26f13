------------------------------ MODULE Rtc6Board ------------------------------
(***************************************************************************)
(* The part of the RTC6 board the list calls of RtcApiWrapper act on: two  *)
(* lists of command memory, an input pointer where list commands are       *)
(* stored, an output pointer from which the board executes on its own,     *)
(* concurrently with the host, and the auto-change flag.  The DLL and the  *)
(* firmware are not part of the repository; their effects are modelled     *)
(* from how ListHandler, PrintController and Rtc6Constants use them:       *)
(*   - set_start_list moves the input pointer to the start of a list; the  *)
(*     old contents stay in memory until they are overwritten;             *)
(*   - execute_list starts a list only when no list is executing; the      *)
(*     BUSY error bit is what the board raises otherwise;                  *)
(*   - a board may refuse a list command for another reason (the REJECTED, *)
(*     TIMEOUT and ETH_ERROR bits), at most MaxRejects times here;         *)
(*   - an armed auto-change starts the other list when one ends, once.     *)
(***************************************************************************)
EXTENDS ListCommands

CONSTANT MaxRejects   \* bound on the execute_list calls the board refuses

ASSUME MaxRejectsAssumption == MaxRejects \in Nat

VARIABLES
  mem,       \* contents of the two lists
  inList,    \* input pointer: the open list (0: none was ever opened)
  inPos,     \* input pointer: where the next list command is stored
  exec,      \* output pointer: the executing list (0: the board is idle)
  outPos,    \* output pointer: the next command of that list
  armed,     \* auto-change is armed
  rejected   \* number of execute_list calls refused although the board was idle

boardVars == << mem, inList, inPos, exec, outPos, armed, rejected >>

ListIds == {1, 2}

OtherList(n) == IF n = 1 THEN 2 ELSE 1

BoardTypeOK ==
  /\ mem \in [ListIds -> Seq(Command)]
  /\ inList \in ListIds \cup {0}
  /\ inPos \in Nat \ {0}
  /\ exec \in ListIds \cup {0}
  /\ outPos \in Nat \ {0}
  /\ armed \in BOOLEAN
  /\ rejected \in 0 .. MaxRejects

BoardInit ==
  /\ mem = [n \in ListIds |-> << >>]
  /\ inList = 0 /\ inPos = 1
  /\ exec = 0 /\ outPos = 1
  /\ armed = FALSE
  /\ rejected = 0
-----------------------------------------------------------------------------
(* The calls of RtcApiWrapper.                                             *)

api_auto_change ==
  /\ armed' = TRUE
  /\ UNCHANGED << mem, inList, inPos, exec, outPos, rejected >>

api_set_start_list(listNo) ==
  /\ inList' = listNo
  /\ inPos' = 1
  /\ UNCHANGED << mem, exec, outPos, armed, rejected >>

\* Contents of a list after a command is stored at position pos: it replaces
\* what an earlier layer left there, or extends the list by one.
Stored(list, pos, c) ==
  IF pos \in 1 .. Len(list) THEN [list EXCEPT ![pos] = c] ELSE Append(list, c)

\* api_jump_abs, api_mark_abs, api_set_defocus_list, api_set_mark_speed,
\* api_set_laser_power: without an open list there is nowhere to store it.
api_list_command(c) ==
  /\ IF inList = 0
     THEN UNCHANGED << mem, inPos >>
     ELSE /\ mem' = [mem EXCEPT ![inList] = Stored(@, inPos, c)]
          /\ inPos' = inPos + 1
  /\ UNCHANGED << inList, exec, outPos, armed, rejected >>

\* Mutant: the end-of-list marker is not stored.
NoEndOfList == UNCHANGED boardVars

api_set_end_of_list == api_list_command(EndOfList)

\* The board starts the list, or refuses: always when it is busy, and now and
\* then (counted) when it is idle.  The call returns nothing either way.
StartsList(listNo) ==
  /\ exec = 0
  /\ exec' = listNo
  /\ outPos' = 1
  /\ UNCHANGED << mem, inList, inPos, armed, rejected >>

RefusesBusy ==
  /\ exec # 0
  /\ UNCHANGED boardVars

RefusesIdle ==
  /\ exec = 0
  /\ rejected < MaxRejects
  /\ rejected' = rejected + 1
  /\ UNCHANGED << mem, inList, inPos, exec, outPos, armed >>

api_execute_list(listNo) == StartsList(listNo) \/ RefusesBusy \/ RefusesIdle

\* The BUSY1 and BUSY2 bits of read_status.
api_read_status(listNo) == exec = listNo
-----------------------------------------------------------------------------
(* What the board does on its own.  Running past the last stored command   *)
(* would execute whatever the memory holds; it is not a step here, and     *)
(* NeverRunsOff shows that no print job gets there.                        *)

CurrentCommand == mem[exec][outPos]

Running == exec # 0 /\ outPos \in 1 .. Len(mem[exec])

BoardExecutes ==
  /\ Running
  /\ CurrentCommand # EndOfList
  /\ outPos' = outPos + 1
  /\ UNCHANGED << mem, inList, inPos, exec, armed, rejected >>

BoardEndsList ==
  /\ Running
  /\ CurrentCommand = EndOfList
  /\ exec' = IF armed THEN OtherList(exec) ELSE 0
  /\ outPos' = 1
  /\ armed' = FALSE
  /\ UNCHANGED << mem, inList, inPos, rejected >>
=============================================================================
