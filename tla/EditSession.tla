----------------------------- MODULE EditSession -----------------------------
(***************************************************************************)
(* What an editing session promises, without keys, a map of parameter sets *)
(* or a menu: every block of a job is exposed with some parameters, or has *)
(* none.  An edit gives one choice of parameters to the blocks that were   *)
(* selected (a range of layers, one area of a layer, one block) and to no  *)
(* other block, except that a block without parameters may get the same    *)
(* ones.  The file is only changed by a save, and a save that fails may    *)
(* leave no readable file.                                                 *)
(***************************************************************************)
EXTENDS Integers

CONSTANTS
  Missing,    \* the block has no parameters
  NoJob       \* nothing loaded

VARIABLES
  state,      \* of the session
  exposure,   \* the parameters of every block, named by layer, number and area
  name,       \* of the job
  file        \* exposure and name in the file

vars == << state, exposure, name, file >>

\* The file is any one.
Init ==
  /\ state = "starting"
  /\ exposure = NoJob /\ name = NoJob

Current == [exposure |-> exposure, name |-> name]

\* A file that cannot be read.
Unreadable == [exposure |-> NoJob, name |-> NoJob]

Load ==
  /\ file # Unreadable
  /\ exposure' = file.exposure /\ name' = file.name
  /\ UNCHANGED file

\* A session may end at once, with or without a job.
Open ==
  /\ state = "starting"
  /\ \/ Load /\ state' \in {"open", "ended"}
     \/ state' = "ended" /\ UNCHANGED << exposure, name, file >>

\* The sets of blocks one edit can select; none when the selection was refused.
Selections ==
  LET ids == DOMAIN exposure
  IN  {{}} \cup {{id} : id \in ids}
        \cup {{id \in ids : id[1] \in first[1] .. last[1]} : first, last \in ids}
        \cup {{id \in ids : id[1] = one[1] /\ id[3] = one[3]} : one \in ids}

Assign ==
  /\ state = "open"
  /\ DOMAIN exposure' = DOMAIN exposure
  /\ \E ids \in Selections, given \in {exposure'[id] : id \in DOMAIN exposure} :
       /\ given # Missing
       /\ \A id \in DOMAIN exposure :
            \/ exposure'[id] = given /\ (id \in ids \/ exposure[id] = Missing)
            \/ exposure'[id] = exposure[id] /\ id \notin ids
  /\ UNCHANGED << state, name, file >>

Rename ==
  /\ state = "open"
  /\ UNCHANGED << state, exposure, file >>

Revert == state = "open" /\ Load /\ UNCHANGED state

Save ==
  /\ state = "open"
  /\ \/ state' = "ended" /\ file' \in {file, Current}
     \/ state' = "open" /\ file' \in {file, Unreadable}
  /\ UNCHANGED << exposure, name >>

Quit ==
  /\ state = "open"
  /\ state' = "ended"
  /\ UNCHANGED << exposure, name, file >>

Next == Open \/ Assign \/ Rename \/ Revert \/ Save \/ Quit

Spec == Init /\ [][Next]_vars
=============================================================================
