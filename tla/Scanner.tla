------------------------------- MODULE Scanner -------------------------------
(***************************************************************************)
(* What the scan head and the laser do with a list command.  The firmware  *)
(* is not part of the repository: this is the reading of the commands that *)
(* GeometryHandler and ListHandler rely on.  A set_* command changes a     *)
(* register that stays in force until the next one; a jump moves with the  *)
(* laser off; a mark exposes the straight line from the current position.  *)
(***************************************************************************)
EXTENDS ListCommands

Registers == [speed : Int, focus : Int, power : Int, x : Int, y : Int]

PowerOnRegisters == [speed |-> 0, focus |-> 0, power |-> 0, x |-> 0, y |-> 0]

Exposures == [fromX : Int, fromY : Int, toX : Int, toY : Int,
              speed : Int, focus : Int, power : Int]

RegistersAfter(regs, c) ==
  CASE c.op = "set_mark_speed"   -> [regs EXCEPT !.speed = c.a]
    [] c.op = "set_defocus_list" -> [regs EXCEPT !.focus = c.a]
    [] c.op = "set_laser_power"  -> [regs EXCEPT !.power = c.b]
    [] c.op \in {"jump_abs", "mark_abs"} -> [regs EXCEPT !.x = c.a, !.y = c.b]
    [] OTHER -> regs

Exposure(regs, c) ==
  [fromX |-> regs.x, fromY |-> regs.y, toX |-> c.a, toY |-> c.b,
   speed |-> regs.speed, focus |-> regs.focus, power |-> regs.power]

\* The exposures so far, after the command c is carried out.
ExposedAfter(exposed, regs, c) ==
  IF c.op = "mark_abs" THEN Append(exposed, Exposure(regs, c)) ELSE exposed
=============================================================================
