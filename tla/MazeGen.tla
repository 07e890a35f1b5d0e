------------------------------- MODULE MazeGen -------------------------------
(***************************************************************************)
(* generate_maze: how a random maze is built.  Three versions of it are in *)
(* the repository: the driver's (lab02/hand_in_version/maze.c), its draft  *)
(* (lab02/mazemod/mazemod_backup.c) and the prototype the author wrote     *)
(* first (lab02/m_test.py).  They share dfs and differ in where the maze   *)
(* starts and ends and in what is done to the walls afterwards.            *)
(*                                                                         *)
(* Every draw of a random number is a choice.  A loop that draws until a   *)
(* condition holds is one step that draws a good value; where no value is  *)
(* good the loop never ends, and the step is never enabled.                *)
(***************************************************************************)
EXTENDS Integers, Sequences, FiniteSets

CONSTANTS Sizes,     \* the sizes asked for, <<rows, columns>>
          Versions   \* a subset of {"hand_in", "draft", "prototype"}

ASSUME GenSizes == Sizes \subseteq Nat \X Nat
ASSUME GenVersions == Versions \subseteq {"hand_in", "draft", "prototype"}

VARIABLES version, size, start, end, blk,
          trail,     \* the cells of the active calls of dfs, outermost first
          stage
vars == <<version, size, start, end, blk, trail, stage>>

Dirs == {<<-1, 0>>, <<1, 0>>, <<0, -1>>, <<0, 1>>}
At(c, d, k) == <<c[1] + k * d[1], c[2] + k * d[2]>>
Near(c) == {At(c, d, 1) : d \in Dirs}
Grid == (0 .. size[1] - 1) \X (0 .. size[2] - 1)
InsideWide == (1 .. size[1] - 1) \X (1 .. size[2] - 1)   \* seeded fault: coord->y for coord->y - 1
Inside == (1 .. size[1] - 2) \X (1 .. size[2] - 2)
OddCells == {c \in (1 .. size[1] - 2) \X (1 .. size[2] - 2) :
                c[1] % 2 = 1 /\ c[2] % 2 = 1}
Open == {c \in Grid : blk[c] # "#"}

NoCell == <<0, 0>>
Init ==
    /\ version \in Versions /\ size \in Sizes
    /\ start = NoCell /\ end = NoCell
    /\ blk = [c \in Grid |-> "#"]
    /\ trail = <<>> /\ stage = "pick"

(* A side of 2 divides by zero, a side of 1 takes the remainder by 2^32 - 1. *)
BadSize ==
    /\ stage = "pick" /\ (size[1] < 3 \/ size[2] < 3)
    /\ stage' = "fault"
    /\ UNCHANGED <<version, size, start, end, blk, trail>>

(* Start and end.  The driver draws odd coordinates (get_odd_number) until   *)
(* the two cells differ; the others take any cell off the border.            *)
OddPairsFar ==                  \* seeded fault: both coordinates must differ
    {p \in OddCells \X OddCells : p[1][1] # p[2][1] /\ p[1][2] # p[2][2]}
OddPairs == {p \in OddCells \X OddCells : p[1] # p[2]}
Pick ==
    /\ stage = "pick" /\ size[1] >= 3 /\ size[2] >= 3
    /\ \E p \in IF version = "hand_in" THEN OddPairs ELSE Inside \X Inside :
         /\ start' = p[1] /\ end' = p[2]
         /\ blk' = [blk EXCEPT ![p[1]] = "*"]
         /\ trail' = <<p[1]>>
    /\ stage' = "dfs"
    /\ UNCHANGED <<version, size>>

(* dfs.  It tries the four directions in a random order and carves towards   *)
(* each cell that is still wall when its turn comes.  A direction already    *)
(* tried leads to an open cell, so the directions that lead to a wall are    *)
(* among those left: any of them may be the next one that counts.            *)
Fresh(d) == LET c == At(trail[Len(trail)], d, 2) IN c \in Inside /\ blk[c] = "#"

CarveFar(d) == [blk EXCEPT ![At(trail[Len(trail)], d, 2)] = "."]   \* seeded fault: the wall between stays
Carve(d) == [blk EXCEPT ![At(trail[Len(trail)], d, 2)] = ".",
                        ![At(trail[Len(trail)], d, 1)] = "."]
Deeper ==
    /\ stage = "dfs" /\ trail # <<>>
    /\ \E d \in {d \in Dirs : Fresh(d)} :
         /\ blk' = Carve(d)
         /\ trail' = Append(trail, At(trail[Len(trail)], d, 2))
    /\ UNCHANGED <<version, size, start, end, stage>>

ReturnAtOnce == trail' = <<>>                  \* seeded fault: the callers stop too
Return == trail' = SubSeq(trail, 1, Len(trail) - 1)
Back ==
    /\ stage = "dfs" /\ trail # <<>>
    /\ \A d \in Dirs : ~Fresh(d)
    /\ Return
    /\ UNCHANGED <<version, size, start, end, blk, stage>>

(* The end is marked.  The draft first draws it again until one of its       *)
(* neighbours is open.                                                       *)
Joins(c) == Near(c) \cap Open # {}
PlaceEnd ==
    /\ stage = "dfs" /\ trail = <<>>
    /\ \E e \in IF version # "draft" \/ Joins(end) THEN {end} ELSE {c \in Inside : Joins(c)} :
         end' = e /\ blk' = [blk EXCEPT ![e] = "E"]
    /\ stage' = IF version = "draft" THEN "walls" ELSE "done"
    /\ UNCHANGED <<version, size, start, trail>>

(* check_wall: when a line of cells along the border is all wall, the cells  *)
(* of it (but the last) that face a passage are opened.                      *)
CheckWall(b, line, last, inward) ==
    IF \E c \in line : b[c] # "#" THEN b
    ELSE [c \in Grid |-> IF c \in line \ {last} /\ b[At(c, inward, 1)] = "."
                         THEN "." ELSE b[c]]
Row(b, r, inward) == CheckWall(b, {r} \X (1 .. size[2] - 2), <<r, size[2] - 2>>, <<inward, 0>>)
Column(b, k, inward) == CheckWall(b, (1 .. size[1] - 2) \X {k}, <<size[1] - 2, k>>, <<0, inward>>)

Walls ==
    /\ stage = "walls"
    /\ LET rows == IF size[1] > 5 THEN Row(Row(blk, 1, 1), size[1] - 2, -1) ELSE blk
       IN  blk' = IF size[2] > 5 THEN Column(Column(rows, 1, 1), size[2] - 2, -1) ELSE rows
    /\ stage' = "done"
    /\ UNCHANGED <<version, size, start, end, trail>>

Next == BadSize \/ Pick \/ Deeper \/ Back \/ PlaceEnd \/ Walls
Spec == Init /\ [][Next]_vars
(* The generator runs in one thread, and a random draw is repeated until it   *)
(* is good: with probability one the step is taken when it is enabled.        *)
FairSpec == Spec /\ WF_vars(Next)
-----------------------------------------------------------------------------
TypeOK ==
    /\ version \in Versions /\ size \in Sizes
    /\ start \in Nat \X Nat /\ end \in Nat \X Nat
    /\ blk \in [Grid -> {"#", ".", "*", "E"}]
    /\ trail \in Seq(Inside)
    /\ stage \in {"pick", "dfs", "walls", "done", "fault"}

(* The border of the grid is wall at every moment: the moves of read, write   *)
(* and MAZE_MOVE, which look one cell ahead without a bound, rely on it.      *)
Border == {c \in Grid : c[1] \in {0, size[1] - 1} \/ c[2] \in {0, size[2] - 1}}
BorderClosed == \A c \in Border : blk[c] = "#"

(* Nothing is carved apart from the rest: a set of open cells that holds the  *)
(* start and every open neighbour of its members is all of them.  At the end  *)
(* this joins the end to the start (the prototype's end may be walled in).    *)
Joined ==
    (stage = "dfs" \/ (stage = "done" /\ version # "prototype")) =>
        \A S \in SUBSET Open :
            (start \in S /\ \A c \in S : Near(c) \cap Open \subseteq S) => S = Open

(* What MazeDevice assumes of the layouts (LayoutAssumption), and that dfs    *)
(* leaves no odd cell uncarved and makes no loop: a spanning tree of the odd  *)
(* cells has one wall opened fewer than it has cells.                         *)
SpanningMaze ==
    (stage = "done" /\ version = "hand_in") =>
        /\ start # end /\ {start, end} \subseteq OddCells
        /\ OddCells \subseteq Open /\ Open \subseteq Inside
        /\ Cardinality(Open) = 2 * Cardinality(OddCells) - 1

(* generate_maze ends when the size leaves room for two different ends, and   *)
(* only then; MAZE_CREATE holds maze_mutex around it.                         *)
Room == /\ size[1] >= 3 /\ size[2] >= 3
        /\ Cardinality(IF version = "hand_in" THEN OddCells ELSE Inside) > 1
Builds == (stage = "pick" /\ Room) ~> stage = "done"
=============================================================================
