---------------------------- MODULE ListCommands ----------------------------
(***************************************************************************)
(* The list commands the host can store in a list of the RTC6 board, and   *)
(* the ListHandler methods that produce them.  Every add* method of        *)
(* ListHandler forwards its arguments to one RtcApiWrapper call, which     *)
(* forwards them to the DLL; the only one that computes something is       *)
(* addSetMarkSpeed.  A command is a record with two integer operands (an   *)
(* operand a command does not have is 0).                                  *)
(***************************************************************************)
EXTENDS Integers, Sequences

\* ListHandler.cpp has its own scale constant, local to addSetMarkSpeed.
BITS_PER_MM == 1000

CommandOps ==
  {"jump_abs", "mark_abs", "set_defocus_list", "set_mark_speed",
   "set_laser_power", "set_end_of_list"}

Command == [op : CommandOps, a : Int, b : Int]

addJumpAbsolute(x, y) == [op |-> "jump_abs", a |-> x, b |-> y]

addMarkAbsolute(x, y) == [op |-> "mark_abs", a |-> x, b |-> y]

addSetFocusOffset(offset_bits) ==
  [op |-> "set_defocus_list", a |-> offset_bits, b |-> 0]

\* mm/s times bits/mm over 1000 ms/s: the board wants bits per millisecond.
addSetMarkSpeed(speed_mm_s) ==
  [op |-> "set_mark_speed", a |-> (speed_mm_s * BITS_PER_MM) \div 1000, b |-> 0]

addSetLaserPower(port, power) ==
  [op |-> "set_laser_power", a |-> port, b |-> power]

EndOfList == [op |-> "set_end_of_list", a |-> 0, b |-> 0]
=============================================================================
