------------------------------- MODULE Solver -------------------------------
(***************************************************************************)
(* The maze challenge of lab03.  The program (maze.c) loads a maze and     *)
(* then calls move_1 .. move_1200 (moves.c), each of which takes a random  *)
(* step (libmaze_dummy.c).  libsolver.so, preloaded, replaces maze_init    *)
(* and maze_load: it finds the entries of the program's GOT that hold the  *)
(* move_n, searches a path, and overwrites the first entries with the      *)
(* functions that step up, down, left or right.                            *)
(***************************************************************************)
EXTENDS Integers, Sequences, FiniteSets, FiniteSetsExt

CONSTANTS
    Mazes,   \* the mazes a file can hold: [w, h, start, end, walls]
    NMoves,  \* move_n functions; also the length of move_directions (1200)
    Links    \* the GOTs a linker can lay out: sequences of functions

(* A function is a number: k is move_k, -1 - d steps in direction d, 0 is    *)
(* any other.  Directions are numbered as in move_direction.                *)
Dirs == 0 .. 3
StepFn(d) == -1 - d
Fns == -4 .. NMoves
DirVec == <<<<0, -1>>, <<0, 1>>, <<-1, 0>>, <<1, 0>>>>       \* _dirx, _diry
At(c, d) == <<c[1] + DirVec[d + 1][1], c[2] + DirVec[d + 1][2]>>

Cells(m) == (0 .. m.w - 1) \X (0 .. m.h - 1)
Border(m) == {c \in Cells(m) : c[1] \in {0, m.w - 1} \/ c[2] \in {0, m.h - 1}}
Roads(m) == Cells(m) \ m.walls
ASSUME SolverMazes ==
    \A m \in Mazes : /\ m.w \in Nat /\ m.h \in Nat
                     /\ Border(m) \subseteq m.walls
                     /\ m.start \in Roads(m) /\ m.end \in Cells(m)
ASSUME SolverMoves == NMoves \in Nat \ {0}
(* The program calls every move_n, so each has exactly one entry.           *)
ASSUME SolverLinks ==
    \A l \in Links : /\ l \in Seq(0 .. NMoves)
                     /\ \A n \in 1 .. NMoves : \E s \in DOMAIN l :
                            l[s] = n /\ \A t \in DOMAIN l : l[t] = n => t = s

VARIABLES mz, blk, cur,          \* the maze: as filed, its blk, position
          link, got, gotAt,      \* the GOT as linked, as it is; got_entries_to_move_n
          frames, dirs, depth,   \* active calls of dfs; move_directions; max_depth
          call,                  \* the last move_n called
          stage
vars == <<mz, blk, cur, link, got, gotAt, frames, dirs, depth, call, stage>>

Ended == {"failed", "fault", "Bingo", "No no no"}
None == 4                                             \* NO_DIRECTION
NoEntry == 0

Init ==
    /\ mz \in Mazes /\ link \in Links
    /\ blk = [c \in Cells(mz) |-> IF c \in mz.walls THEN 1 ELSE 0]
    /\ cur = mz.start
    /\ got = link /\ gotAt = [n \in 1 .. NMoves |-> NoEntry]
    /\ frames = <<>> /\ dirs = [k \in 0 .. NMoves - 1 |-> None] /\ depth = 0
    /\ call = 0 /\ stage = "init"

(* maze_init: the addresses of the direction functions, then readelf; and     *)
(* maze_load's reading of the file.  A library, symbol or file that cannot be *)
(* opened ends main - except ./maze for readelf, whose result is ignored, as   *)
(* is that of looking up the four directions, which libmaze.so always has.    *)
Fail == stage' = "failed" /\ UNCHANGED <<mz, blk, cur, link, got, gotAt, frames, dirs, depth, call>>
InitFails == stage = "init" /\ Fail
LoadFails == stage = "load" /\ Fail

EntryOf(n) == IF \E s \in DOMAIN got : got[s] = n
              THEN Max({s \in DOMAIN got : got[s] = n}) ELSE NoEntry
ReadElf ==
    /\ stage = "init"
    /\ \/ gotAt' = [n \in 1 .. NMoves |-> EntryOf(n)]
       \/ gotAt' = gotAt
    /\ stage' = "load"
    /\ UNCHANGED <<mz, blk, cur, link, got, frames, dirs, depth, call>>

(* maze_load up to its call of dfs, which marks the cell it is called for    *)
(* (blk = 2) unless that is the end.                                         *)
Mark(c) == IF c = mz.end THEN blk ELSE [blk EXCEPT ![c] = 2]
Load ==
    /\ stage = "load"
    /\ frames' = <<[at |-> mz.start, from |-> 0]>> /\ blk' = Mark(mz.start)
    /\ stage' = "search"
    /\ UNCHANGED <<mz, cur, link, got, gotAt, dirs, depth, call>>

(* dfs: the first direction of those left that leads to a road not visited.  *)
Top == frames[Len(frames)]
IsValidVisited(c) == /\ c[1] > 0 /\ c[1] < mz.w /\ c[2] > 0 /\ c[2] < mz.h
                     /\ blk[c] # 1                      \* seeded fault: visited cells again
IsValid(c) == /\ c[1] > 0 /\ c[1] < mz.w /\ c[2] > 0 /\ c[2] < mz.h
              /\ blk[c] = 0
LeftSkip == {d \in Top.from .. 2 : IsValid(At(Top.at, d))}   \* seeded fault: never right
Left == {d \in Top.from .. 3 : IsValid(At(Top.at, d))}
Searching == stage = "search" /\ Top.at # mz.end

(* max_depth follows move_directions in memory: an index past its end is     *)
(* undefined, here the end of the run.                                       *)
PushDir(d) == dirs' = [dirs EXCEPT ![Len(frames) - 1] = d]
Try ==
    /\ Searching /\ Left # {}
    /\ LET d == Min(Left)
           c == At(Top.at, d)
       IN  IF Len(frames) > NMoves
           THEN stage' = "fault" /\ UNCHANGED <<frames, dirs, blk>>
           ELSE /\ PushDir(d)
                /\ frames' = Append([frames EXCEPT ![Len(frames)].from = d + 1],
                                    [at |-> c, from |-> 0])
                /\ blk' = Mark(c)
                /\ UNCHANGED stage
    /\ UNCHANGED <<mz, cur, link, got, gotAt, depth, call>>

(* maze_load after dfs: the visited cells become roads again.                *)
Unmark2 == blk                                          \* seeded fault: not restored
Unmark == [c \in DOMAIN blk |-> IF blk[c] = 2 THEN 0 ELSE blk[c]]

GiveUp ==
    /\ Searching /\ Left = {}
    /\ frames' = SubSeq(frames, 1, Len(frames) - 1)
    /\ IF Len(frames) > 1 THEN UNCHANGED <<blk, stage>>
                          ELSE blk' = Unmark /\ stage' = "check"
    /\ UNCHANGED <<mz, cur, link, got, gotAt, dirs, depth, call>>

(* The calls of dfs return true one after the other; the frames are kept      *)
(* here as the path found.                                                    *)
Solve ==
    /\ stage = "search" /\ Top.at = mz.end
    /\ depth' = Len(frames) - 1
    /\ blk' = Unmark /\ stage' = "check"
    /\ UNCHANGED <<mz, cur, link, got, gotAt, frames, dirs, call>>

(* check_path.  Without an entry, or when mprotect refuses, it exits.         *)
PatchShort == depth - 1                                 \* seeded fault: off by one
PatchCount == depth
Patched(s) == {k \in 0 .. PatchCount - 1 : gotAt[k + 1] = s}
CheckPath ==
    /\ stage = "check"
    /\ \/ /\ \A k \in 0 .. PatchCount - 1 : gotAt[k + 1] # NoEntry
          /\ got' = [s \in DOMAIN got |-> IF Patched(s) = {} THEN got[s]
                                          ELSE StepFn(dirs[Max(Patched(s))])]
          /\ stage' = "moves"
       \/ depth > 0 /\ stage' = "failed" /\ UNCHANGED got
    /\ UNCHANGED <<mz, blk, cur, link, gotAt, frames, dirs, depth, call>>

(* main: the next move_n, through the entry it was linked to.  The library's *)
(* own move_n draws a direction (move_random).                               *)
Called(n) == got[CHOOSE s \in DOMAIN link : link[s] = n]
MoveDir(d) == IF blk[At(cur, d)] # 0 THEN cur ELSE At(cur, d)
NextCallMoved == IF cur' = cur THEN call ELSE call + 1   \* seeded fault: tries until it moves
NextCall == call + 1
Move ==
    /\ stage = "moves" /\ call < NMoves
    /\ \E d \in Dirs :
         /\ Called(call + 1) < 0 => Called(call + 1) = StepFn(d)
         /\ cur' = MoveDir(d)
    /\ call' = NextCall
    /\ stage' = IF cur' # cur /\ cur' = mz.end THEN "Bingo" ELSE stage
    /\ UNCHANGED <<mz, blk, link, got, gotAt, frames, dirs, depth>>

NoNoNo ==
    /\ stage = "moves" /\ call = NMoves
    /\ stage' = "No no no"
    /\ UNCHANGED <<mz, blk, cur, link, got, gotAt, frames, dirs, depth, call>>

Next == InitFails \/ LoadFails \/ ReadElf \/ Load \/ Try \/ GiveUp \/ Solve
        \/ CheckPath \/ Move \/ NoNoNo
Spec == Init /\ [][Next]_vars
FairSpec == Spec /\ WF_vars(Next)        \* one thread that never waits
-----------------------------------------------------------------------------
TypeOK ==
    /\ mz \in Mazes /\ link \in Links
    /\ blk \in [Cells(mz) -> {0, 1, 2}] /\ cur \in Cells(mz)
    /\ got \in Seq(Fns) /\ DOMAIN got = DOMAIN link
    /\ gotAt \in [1 .. NMoves -> DOMAIN got \cup {NoEntry}]
    /\ frames \in Seq([at : Cells(mz), from : 0 .. 4])
    /\ dirs \in [0 .. NMoves - 1 -> Dirs \cup {None}]
    /\ depth \in 0 .. NMoves /\ call \in 0 .. NMoves
    /\ stage \in Ended \cup {"init", "load", "search", "check", "moves"}

(* While dfs runs, and when it has succeeded, move_directions up to the depth *)
(* of the current call leads from the start to its cell over roads, although  *)
(* the entries past that depth are left over from branches given up.          *)
DirsFollowFrames ==
    frames # <<>> =>
        /\ frames[1].at = mz.start
        /\ \A k \in 1 .. Len(frames) - 1 :
             /\ frames[k + 1].at = At(frames[k].at, dirs[k - 1])
             /\ frames[k + 1].at \in Roads(mz)

(* The search finds a path when there is one to find: max_depth is positive   *)
(* exactly when the end is another road cell and every set of roads that      *)
(* holds the start and the neighbours of its members holds the end.           *)
Reachable ==
    \A S \in SUBSET Roads(mz) :
        /\ mz.start \in S
        /\ \A c \in S : \A d \in Dirs : At(c, d) \in Roads(mz) => At(c, d) \in S
        => mz.end \in S
SearchComplete ==
    stage \in {"check", "moves", "Bingo", "No no no"} =>
        (depth > 0 <=> mz.start # mz.end /\ mz.end \in Roads(mz) /\ Reachable)

(* The marks dfs leaves in blk are gone when the program moves: move_dir       *)
(* takes any non-zero block for a wall, so a mark left would block the path.   *)
MazeRestored ==
    stage \in {"check", "moves", "Bingo", "No no no"} =>
        \A c \in Cells(mz) : blk[c] = IF c \in mz.walls THEN 1 ELSE 0

(* Replaying: after n calls the program stands where dfs stood at depth n,     *)
(* and a path that was found is walked to its end.                             *)
ReplayFollows ==
    /\ (stage \in {"moves", "Bingo"} /\ depth > 0) =>
           call <= depth /\ cur = frames[call + 1].at
    /\ stage = "No no no" => depth = 0

(* The only way past the end of move_directions is a branch with more cells    *)
(* than it has entries.                                                        *)
OverflowNeedsCells == (stage = "fault") => Cardinality(Roads(mz)) > NMoves + 1

(* The program ends, whatever the maze: dfs visits no cell twice.              *)
Ends == <>(stage \in Ended)
=============================================================================
