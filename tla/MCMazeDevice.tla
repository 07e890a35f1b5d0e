---------------------------- MODULE MCMazeDevice ----------------------------
(* Constants for model checking MazeDevice.  A 3 x 5 maze has two odd cells, *)
(* so generate_maze can only build the two layouts below.                   *)
EXTENDS MazeDevice, TLC

CONSTANTS p1, p2, p3, b1, b2, b3

Corridor(s, e) == [size |-> <<3, 5>>, start |-> s, end |-> e,
                   open |-> {<<1, 1>>, <<1, 2>>, <<1, 3>>}]
OneLayout == {Corridor(<<1, 1>>, <<1, 3>>)}
OneSize == {<<3, 5>>}
MCLayouts == {Corridor(<<1, 1>>, <<1, 3>>), Corridor(<<1, 3>>, <<1, 1>>)}

(* One size generate_maze serves, and one the argument check refuses. *)
MCSizes == {<<3, 5>>, <<0, 5>>}

(* Moves along the corridor and into its walls, and far ones: with ints of   *)
(* -5 .. 4, <<-5, 0>> leads from column 1 to -4, where a row's bytes are     *)
(* those of the row before, and back; <<0, -5>> leads out of blk and back.   *)
MCDeltas     == {<<0, 1>>, <<-5, 0>>}
MCFarDeltas  == {<<0, 1>>, <<0, -5>>}
MCWalkDeltas == {<<0, 1>>, <<0, -1>>, <<1, 0>>}
NoBatches == {<<>>}
(* Too few moves, none, and one full unit along the corridor. *)
MCBatches == {<<>>, <<<<0, 1>>>>, <<<<0, 1>>, <<0, 1>>>>,
              <<<<1, 0>>, <<0, -1>>>>}
MCFarBatches == {<<>>, <<<<0, 1>>>>, <<<<0, -5>>, <<0, 1>>>>}

IoctlCommands == {"CREATE", "RESET", "MOVE", "GETSIZE"}
WalkCommands  == {"CREATE", "WRITE", "GETPOS"}
CreateOnly    == {"CREATE"}

(* The statics a running handler has yet to read.  Each is written before it *)
(* is read again, so two states that differ in the others only behave alike. *)
At(labels) == \E p \in Procs : pc[p] \in labels
InUse(labels, static) == IF At(labels) THEN static ELSE NULL
SteersSteps ==
    <<globals, fd, pc, loc, fault,
      [p \in Procs |-> IF view[p] = NULL THEN NULL ELSE view[p].lay],
      InUse({"destroy_null"}, index),
      InUse({"read_fill", "read_ret"}, read_index),
      InUse({"write_copy", "write_load"}, write_index),
      InUse({"proc_loop", "proc_show"}, proc_i),
      InUse({"get_copy"}, tmp),
      InUse({"move_use", "move_test"}, coord_move),
      InUse({"store_maze"}, gmaze)>>
(* Results and expected positions steer nothing; RandomWalkCheck alone is    *)
(* about them.                                                              *)
LiveState == <<SteersSteps, ret, view>>

Sym2 == Permutations({p1, p2}) \cup Permutations({b1, b2})
=============================================================================
