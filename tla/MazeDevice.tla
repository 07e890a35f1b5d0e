----------------------------- MODULE MazeDevice -----------------------------
(***************************************************************************)
(* The maze character device of lab02 (src/lab02/hand_in_version/maze.c):  *)
(* a kernel module that lends each calling process one of _MAZE_MAXUSER    *)
(* slots with a random maze in it, and the file operations open, release,  *)
(* read, write and ioctl, plus the /proc/maze reader.                      *)
(*                                                                         *)
(* Handlers of different processes run concurrently (the guest is SMP and  *)
(* preemptible); maze_mutex is taken by MAZE_CREATE and del_user only.     *)
(* Handlers are cut at the calls that may sleep (mutex_lock, kmalloc,      *)
(* copy_from_user, copy_to_user, kfree, seq_printf) and at each re-read of *)
(* a shared word.  The function-local `static' variables are shared by all *)
(* processes; which of them a handler re-reads from memory and which it    *)
(* keeps in a register is taken from the build kept in the repository      *)
(* (src/lab02/dist/rootfs/verify/maze.o): get_user_index returns a         *)
(* register, ioctl re-reads `index' only after DESTROY's kfree, read and   *)
(* write re-read theirs after kmalloc/copy, tmp and coord_move go through  *)
(* memory.                                                                 *)
(***************************************************************************)
EXTENDS Integers, Sequences, FiniteSetsExt

CONSTANTS
    Procs,       \* the processes (task_pid_nr(current))
    NoPid,       \* the 0 of an empty slot and of an unlocked mutex
    MAXUSER,     \* _MAZE_MAXUSER
    MAXX, MAXY,  \* _MAZE_MAXX, _MAZE_MAXY
    HALF,        \* an int is one of -HALF .. HALF - 1 (2^31 in the code)
    Blocks,      \* the blocks kmalloc can return for a struct maze_info
    NULL,        \* the null pointer; also "nothing" in the history
    Freed, Raw,  \* content of a free block, of one not written yet
    Commands,    \* the requests the processes issue
    Sizes,       \* the sizes they ask for, <<x, y>>
    Layouts,     \* what generate_maze can build, for these sizes
    Deltas,      \* the moves they ask for, <<dx, dy>>: any coord_t
    Batches,     \* the move sequences they write()
    WriteUnit    \* num_moves must be a multiple of this (8 in the code)

Ints   == -HALF .. HALF - 1
Coord  == Int \X Int
Layout == [size : Coord, start : Coord, end : Coord, open : SUBSET Coord]

AllCommands == {"CREATE", "RESET", "DESTROY", "GETSIZE", "MOVE", "GETPOS",
                "GETSTART", "GETEND", "Q3", "READ", "WRITE", "PROC"}

(* The cells of a layout other than its border. *)
Interior(size) == (1 .. size[1] - 2) \X (1 .. size[2] - 2)

(* The sizes MAZE_CREATE accepts, the only ones generate_maze runs for. *)
ValidSize(c) == c[1] > 0 /\ c[2] > 0 /\ c[1] <= MAXX /\ c[2] <= MAXY

Slots == 0 .. MAXUSER - 1

ASSUME SlotAssumption == MAXUSER \in Nat \ {0}
ASSUME PidAssumption == NoPid \notin Procs /\ NULL \notin Blocks
ASSUME WidthAssumption == HALF \in Nat /\ MAXX \in 1 .. HALF /\ MAXY \in 1 .. HALF
ASSUME CommandAssumption == Commands \subseteq AllCommands
ASSUME SizeAssumption == Sizes \subseteq Coord
(* What generate_maze guarantees of a maze (lines 201-236): start and end   *)
(* differ and are passable, and the border is all wall.                    *)
ASSUME LayoutAssumption ==
    /\ Layouts \subseteq Layout
    /\ \A l \in Layouts : /\ ValidSize(l.size)
                          /\ l.open \subseteq Interior(l.size)
                          /\ l.start \in l.open /\ l.end \in l.open
                          /\ l.start # l.end
(* A move is whatever pair of ints the caller has put into its coord_t.     *)
Delta == Ints \X Ints
ASSUME DeltaAssumption == Deltas \subseteq Delta /\ Batches \subseteq Seq(Delta)

ASSUME NullAssumption == NULL \notin Layouts

MazeInfo == [lay : Layouts, pos : Coord]        \* struct maze_info
Pointer == Blocks \cup {NULL}
ASSUME ContentAssumption ==
    /\ Freed # Raw /\ Freed \notin MazeInfo /\ Raw \notin MazeInfo
    /\ NULL \notin MazeInfo

VARIABLES
    (* globals of the module *)
    pids, info, heap, error_no, only_for_q3, mutex,
    (* function-local statics *)
    index, read_index, write_index, proc_i, tmp, coord_move, gmaze,
    (* per process: the open file, where it is, its registers, last result *)
    fd, pc, loc, ret,
    (* history: what the process may expect of its maze; faults so far *)
    view, fault

globals == <<pids, info, heap, error_no, only_for_q3, mutex>>
statics == <<index, read_index, write_index, proc_i, tmp, coord_move, gmaze>>
self    == <<fd, pc, loc, ret>>
history == <<view, fault>>
table == <<pids, info>>
flags == <<error_no, only_for_q3>>
fileStatics  == <<read_index, write_index, proc_i>>
ioctlStatics == <<index, tmp, coord_move>>
vars == <<globals, statics, self, history>>

Labels == {"user", "oops", "create_lock", "create_check", "find_slot",
           "claim_slot", "alloc", "generate", "store_maze", "RESET",
           "DESTROY", "destroy_null", "GETSIZE", "GETPOS", "GETSTART",
           "GETEND", "get_copy", "MOVE", "move_use", "move_test", "store_x",
           "store_y", "read_fill", "read_ret", "write_copy", "write_load", "write_step",
           "proc_loop", "proc_show", "proc_q3",
           "del_lock", "del_free", "del_clear"}

Idle == [cmd |-> "none", idx |-> -1, blk |-> NULL, size |-> <<0, 0>>,
         tgt |-> <<0, 0>>, moves |-> <<>>]
Locals == [cmd : AllCommands \cup {"none"}, idx : Slots \cup {-1},
           blk : Pointer, size : Coord, tgt : Coord, moves : Seq(Delta)]

Errors == {"OK", "EBUSY", "EINVAL", "EEXIST", "ENOMEM", "ENOENT", "EBADFD"}
Results == [op : AllCommands \cup {"none"}, err : Errors, val : Coord]
NoResult == [op |-> "none", err |-> "OK", val |-> <<0, 0>>]

Init ==
    /\ pids = [i \in Slots |-> NoPid]
    /\ info = [i \in Slots |-> NULL]
    /\ heap = [b \in Blocks |-> Freed]
    /\ error_no = 0 /\ only_for_q3 = FALSE /\ mutex = NoPid
    /\ index = 0 /\ read_index = 0 /\ write_index = 0 /\ proc_i = 0
    /\ tmp = <<0, 0>> /\ coord_move = <<0, 0>> /\ gmaze = NULL
    /\ fd = [p \in Procs |-> FALSE]
    /\ pc = [p \in Procs |-> "user"]
    /\ loc = [p \in Procs |-> Idle]
    /\ ret = [p \in Procs |-> NoResult]
    /\ view = [p \in Procs |-> NULL]
    /\ fault = {}

-----------------------------------------------------------------------------
(* Lookups.  A missing entry is the code's -1. *)
FirstIndexUnset(S) == IF S = {} THEN MAXUSER ELSE Min(S)  \* seeded fault: i after the loop
FirstIndex(S) == IF S = {} THEN -1 ELSE Min(S)
UserIndex(p)  == FirstIndex({i \in Slots : pids[i] = p})    \* get_user_index
EmptyIndex    == FirstIndex({i \in Slots : pids[i] = NoPid}) \* get_empty_index
HaveMaze(p)   == UserIndex(p) # -1 /\ info[UserIndex(p)] # NULL

(* A move: the sums are ints, and the byte tested is the one at this        *)
(* distance from the start of blk, wherever that is.                       *)
Wrap(n) == IF n >= HALF THEN n - 2 * HALF
           ELSE IF n < -HALF THEN n + 2 * HALF ELSE n
Plus(c, d) == <<Wrap(c[1] + d[1]), Wrap(c[2] + d[2])>>
Offset(c)  == c[2] * MAXX + c[1]
InBlk(c)   == Offset(c) \in 0 .. MAXX * MAXY - 1

Grid(m)        == (0 .. m.lay.size[1] - 1) \X (0 .. m.lay.size[2] - 1)
ReadsOpen(m, c) == \E e \in m.lay.open : Offset(e) = Offset(c)
WallIgnored(m, c) == FALSE                \* seeded fault: no test for '#'
ReadsWall(m, c) == \E e \in Grid(m) \ m.lay.open : Offset(e) = Offset(c)

(* The byte is a '#', or it is none.  Beside the grid blk holds what older  *)
(* mazes left in generate_maze's static, and outside blk lies other memory, *)
(* perhaps not even mapped: either may be found there.                      *)
Stays(m, c) == ~ReadsOpen(m, c)
Moves(m, c) == ~ReadsWall(m, c)
Strays(c)   == IF InBlk(c) THEN {} ELSE {"stray"}

(* The client's account of a move (mazetest.c 215-221): lost once a move     *)
(* has led off the grid.  There its simulation stays where it is and the     *)
(* driver need not; its own steps, of one cell, never get there.             *)
Lost == <<-1, -1>>
Walk(m, d) ==
    LET c == Plus(m.pos, d) IN
    IF m.pos = Lost \/ c \in Grid(m) \ m.lay.open THEN m
    ELSE [m EXCEPT !.pos = IF c \in m.lay.open THEN c ELSE Lost]

Goto(p, l) == pc' = [pc EXCEPT ![p] = l]
(* A handler begins; the result of the call before it is gone. *)
Enter(p, l) == Goto(p, l) /\ ret' = [ret EXCEPT ![p] = NoResult]
Return(p, op, err, val) ==
    /\ Goto(p, "user")
    /\ ret' = [ret EXCEPT ![p] = [op |-> op, err |-> err, val |-> val]]
    /\ loc' = [loc EXCEPT ![p] = Idle]
Done(p, op, err) == Return(p, op, err, <<0, 0>>)

(* A process at user level with the device open issues request c. *)
Request(p, c) == pc[p] = "user" /\ fd[p] /\ c \in Commands

(* The block the next step of p dereferences: held in a register, or read   *)
(* through the slot that get_user_index or a static index names.           *)
HeldInRegister == {"move_test", "store_x", "store_y", "write_step"}
UseIndex(p) ==
    IF pc[p] \in {"read_fill", "read_ret"} THEN read_index
    ELSE IF pc[p] = "write_load" THEN write_index
    ELSE IF pc[p] = "proc_show" THEN proc_i
    ELSE IF pc[p] = "proc_q3" THEN 0
    ELSE UserIndex(p)
IoctlUse == {"RESET", "DESTROY", "GETSIZE", "GETPOS", "GETSTART", "GETEND",
             "move_use"}
UseLabels == IoctlUse \cup HeldInRegister \cup
             {"read_fill", "read_ret", "write_load", "proc_show", "proc_q3"}
Target(p) == IF pc[p] \in HeldInRegister THEN loc[p].blk
             ELSE info[UseIndex(p)]
Kind(p) ==
    IF pc[p] \notin HeldInRegister /\ UseIndex(p) \notin Slots THEN "oob"
    ELSE IF Target(p) = NULL THEN IF pc[p] = "DESTROY" THEN "none" ELSE "null"
    ELSE IF heap[Target(p)] = Freed THEN "uaf"
    ELSE IF heap[Target(p)] = Raw
         THEN IF pc[p] = "DESTROY" THEN "none" ELSE "uninit"
    ELSE "none"

(* p stands at label l, and the memory its next step uses is sound. *)
Uses(p, l) == pc[p] = l /\ Kind(p) = "none"

(* The step of p uses memory it must not: the kernel oopses and the process  *)
(* is killed; for a /proc/maze reader that is the `cat', not the client.    *)
(* What stale memory would have supplied is not modelled beyond this.       *)
Oops(p) ==
    /\ pc[p] \in UseLabels /\ Kind(p) # "none"
    /\ fault' = fault \cup {Kind(p)}
    /\ Goto(p, IF pc[p] \in {"proc_show", "proc_q3"} THEN "user" ELSE "oops")
    /\ loc' = [loc EXCEPT ![p] = Idle]
    /\ index' = IF pc[p] \in IoctlUse THEN UserIndex(p) ELSE index
    /\ UNCHANGED <<globals, fileStatics, tmp, coord_move, gmaze, fd, ret,
                   view>>

-----------------------------------------------------------------------------
(* open and release. *)

Open(p) ==          \* mazemod_dev_open
    /\ pc[p] = "user" /\ ~fd[p]
    /\ fd' = [fd EXCEPT ![p] = TRUE]
    /\ UNCHANGED <<globals, statics, history, pc, loc, ret>>

(* close(), or the exit of the process: mazemod_dev_close, and del_user up  *)
(* to its mutex_lock.                                                       *)
Close(p) ==
    /\ fd[p] /\ pc[p] \in {"user", "oops"}
    /\ fd' = [fd EXCEPT ![p] = FALSE]
    /\ view' = [view EXCEPT ![p] = NULL]
    /\ ret' = [ret EXCEPT ![p] = NoResult]
    /\ \/ /\ error_no = 12 /\ error_no' = 0
          /\ Goto(p, "user") /\ UNCHANGED loc
       \/ /\ error_no # 12 /\ UserIndex(p) = -1
          /\ Goto(p, "user") /\ UNCHANGED <<error_no, loc>>
       \/ /\ error_no # 12 /\ UserIndex(p) # -1
          /\ Goto(p, "del_lock")
          /\ loc' = [loc EXCEPT ![p].idx = UserIndex(p)]
          /\ UNCHANGED error_no
    /\ UNCHANGED <<statics, table, heap, only_for_q3, mutex, fault>>

LockNoWait(p, from, to) ==      \* seeded fault: the mutex is not waited for
    /\ pc[p] = from
    /\ mutex' = p /\ Goto(p, to)
    /\ UNCHANGED <<statics, history, table, flags, heap, fd, loc, ret>>

Lock(p, from, to) ==
    /\ pc[p] = from /\ mutex = NoPid
    /\ mutex' = p /\ Goto(p, to)
    /\ UNCHANGED <<statics, history, table, flags, heap, fd, loc, ret>>

DelLock(p) == Lock(p, "del_lock", "del_free")

DelFree(p) ==       \* kfree under the lock
    /\ pc[p] = "del_free"
    /\ LET b == info[loc[p].idx] IN
       \/ /\ b = NULL /\ UNCHANGED <<heap, fault>>
       \/ /\ b # NULL
          /\ fault' = IF heap[b] = Freed THEN fault \cup {"uaf"} ELSE fault
          /\ heap' = [heap EXCEPT ![b] = Freed]
    /\ Goto(p, "del_clear")
    /\ UNCHANGED <<statics, table, flags, mutex, fd, loc, ret, view>>

DelClear(p) ==      \* the slot's pointer and pid, mutex_unlock
    /\ pc[p] = "del_clear"
    /\ info' = [info EXCEPT ![loc[p].idx] = NULL]
    /\ pids' = [pids EXCEPT ![loc[p].idx] = NoPid]
    /\ mutex' = NoPid
    /\ Goto(p, "user")
    /\ loc' = [loc EXCEPT ![p] = Idle]
    /\ UNCHANGED <<statics, history, flags, heap, fd, ret>>

-----------------------------------------------------------------------------
(* MAZE_CREATE and ONLY_FOR_Q3. *)

Create(p) ==        \* copy_from_user and the argument check
    /\ Request(p, "CREATE")
    /\ \/ Done(p, "CREATE", "EBUSY")
       \/ \E c \in Sizes :
            \/ ~ValidSize(c) /\ Done(p, "CREATE", "EINVAL")
            \/ /\ ValidSize(c) /\ Enter(p, "create_lock")
               /\ loc' = [loc EXCEPT ![p].cmd = "CREATE", ![p].size = c]
    /\ UNCHANGED <<globals, statics, history, fd>>

CreateLock(p) == Lock(p, "create_lock", "create_check")

CreateCheck(p) ==
    LET i == UserIndex(p) IN
    /\ pc[p] = "create_check"
    /\ index' = i
    /\ \/ /\ HaveMaze(p)
          /\ mutex' = NoPid /\ Done(p, "CREATE", "EEXIST")
          /\ UNCHANGED error_no
       \/ /\ i = -1 /\ EmptyIndex = -1
          /\ error_no' = 12
          /\ mutex' = NoPid /\ Done(p, "CREATE", "ENOMEM")
       \/ /\ ~HaveMaze(p) /\ (i = -1 => EmptyIndex # -1)
          /\ Goto(p, "find_slot")
          /\ UNCHANGED <<error_no, mutex, loc, ret>>
    /\ UNCHANGED <<history, table, fileStatics, heap, only_for_q3, tmp,
                   coord_move, gmaze, fd>>

Q3(p) ==            \* no lock is taken on this path
    /\ Request(p, "Q3")
    /\ only_for_q3' = TRUE
    /\ \/ Done(p, "Q3", "EBUSY")
       \/ \E c \in Sizes :
            \/ ~ValidSize(c) /\ Done(p, "Q3", "EINVAL")
            \/ /\ ValidSize(c) /\ Enter(p, "find_slot")
               /\ loc' = [loc EXCEPT ![p].cmd = "Q3", ![p].size = c]
    /\ UNCHANGED <<statics, history, table, heap, error_no, mutex, fd>>

UnlockForgotten(p) == UNCHANGED mutex          \* seeded fault
Unlock(p) == mutex' = IF loc[p].cmd = "CREATE" THEN NoPid ELSE mutex

(* create_maze: get_empty_index; its -ENOMEM is dropped by both callers. *)
FindSlot(p) ==
    /\ pc[p] = "find_slot"
    /\ \/ /\ EmptyIndex = -1 /\ Unlock(p) /\ Done(p, loc[p].cmd, "OK")
       \/ /\ EmptyIndex # -1 /\ Goto(p, "claim_slot")
          /\ loc' = [loc EXCEPT ![p].idx = EmptyIndex]
          /\ UNCHANGED <<mutex, ret>>
    /\ UNCHANGED <<statics, history, table, flags, heap, fd>>

ClaimSlot(p) ==     \* create_maze: the pid, before kmalloc
    /\ pc[p] = "claim_slot"
    /\ pids' = [pids EXCEPT ![loc[p].idx] = p]
    /\ Goto(p, "alloc")
    /\ UNCHANGED <<statics, history, flags, info, heap, mutex, fd, loc, ret>>

(* kmalloc; a null result is stored and then written through. *)
Alloc(p) ==
    /\ pc[p] = "alloc"
    /\ \/ \E b \in Blocks :
            /\ heap[b] = Freed /\ heap' = [heap EXCEPT ![b] = Raw]
            /\ info' = [info EXCEPT ![loc[p].idx] = b]
            /\ loc' = [loc EXCEPT ![p].blk = b]
            /\ Goto(p, "generate") /\ UNCHANGED fault
       \/ /\ \A b \in Blocks : heap[b] # Freed
          /\ info' = [info EXCEPT ![loc[p].idx] = NULL]
          /\ fault' = fault \cup {"null"}
          /\ Goto(p, "oops") /\ UNCHANGED <<heap, loc>>
    /\ UNCHANGED <<statics, flags, pids, mutex, fd, ret, view>>

(* generate_maze up to line 230, in its static maze.  For a size no layout  *)
(* has (3 x 3: start and end cannot differ) the loop at 202 never ends.     *)
Generate(p) ==
    /\ pc[p] = "generate"
    /\ \E l \in Layouts : l.size = loc[p].size /\ gmaze' = l
    /\ Goto(p, "store_maze")
    /\ UNCHANGED <<globals, history, fileStatics, ioctlStatics, fd, loc, ret>>

StoreMaze(p) ==     \* generate_maze 232-236, return, mutex_unlock
    /\ pc[p] = "store_maze"
    /\ LET m == [lay |-> gmaze, pos |-> gmaze.start] b == loc[p].blk IN
       /\ \/ /\ heap[b] # Freed /\ heap' = [heap EXCEPT ![b] = m]
             /\ UNCHANGED fault
          \/ /\ heap[b] = Freed /\ fault' = fault \cup {"uaf"}
             /\ UNCHANGED heap
       /\ view' = IF loc[p].cmd = "CREATE" THEN [view EXCEPT ![p] = m]
                  ELSE view
    /\ Unlock(p) /\ Done(p, loc[p].cmd, "OK")
    /\ UNCHANGED <<statics, table, flags, fd>>

-----------------------------------------------------------------------------
(* The requests that need a maze: have_maze first, the use in a later step. *)

MazeRequests == {"RESET", "DESTROY", "GETSIZE", "GETPOS", "GETSTART", "GETEND",
                 "MOVE"}

MazeRequest(p, c) ==
    /\ Request(p, c)
    /\ \/ ~HaveMaze(p) /\ Done(p, c, "ENOENT")
       \/ HaveMaze(p) /\ Enter(p, c) /\ UNCHANGED loc
    /\ UNCHANGED <<globals, statics, history, fd>>

Reset(p) ==
    /\ Uses(p, "RESET")
    /\ index' = UserIndex(p)
    /\ LET b == Target(p) IN
       heap' = [heap EXCEPT ![b].pos = heap[b].lay.start]
    /\ view' = IF view[p] = NULL THEN view
               ELSE [view EXCEPT ![p].pos = view[p].lay.start]
    /\ Done(p, "RESET", "OK")
    /\ UNCHANGED <<table, flags, fileStatics, mutex, tmp, coord_move, gmaze,
                   fd, fault>>

Destroy(p) ==       \* kfree of the block of the caller's slot
    /\ Uses(p, "DESTROY")
    /\ index' = UserIndex(p)
    /\ heap' = IF Target(p) = NULL THEN heap
               ELSE [heap EXCEPT ![Target(p)] = Freed]
    /\ Goto(p, "destroy_null")
    /\ UNCHANGED <<history, table, flags, fileStatics, mutex, tmp, coord_move,
                   gmaze, fd, loc, ret>>

DestroyDangling(p) ==           \* seeded fault: kfree without the NULL
    /\ pc[p] = "destroy_null"
    /\ view' = [view EXCEPT ![p] = NULL]
    /\ Done(p, "DESTROY", "OK")
    /\ UNCHANGED <<globals, statics, fd, fault>>

(* The pointer of the slot the static index names by now is cleared; an    *)
(* index of -1 would clear the word before the array.                      *)
DestroyNull(p) ==
    /\ pc[p] = "destroy_null"
    /\ info' = IF index \in Slots THEN [info EXCEPT ![index] = NULL] ELSE info
    /\ fault' = IF index \in Slots THEN fault ELSE fault \cup {"oob"}
    /\ view' = [view EXCEPT ![p] = NULL]
    /\ Done(p, "DESTROY", "OK")
    /\ UNCHANGED <<statics, flags, pids, heap, mutex, fd>>

GetRequests == {"GETSIZE", "GETPOS", "GETSTART", "GETEND"}
Field(m, c) == CASE c = "GETSIZE"  -> m.lay.size
                 [] c = "GETPOS"   -> m.pos
                 [] c = "GETSTART" -> m.lay.start
                 [] c = "GETEND"   -> m.lay.end

Get(p, c) ==        \* into the static tmp
    /\ c \in GetRequests /\ Uses(p, c)
    /\ index' = UserIndex(p)
    /\ tmp' = Field(heap[Target(p)], c)
    /\ Goto(p, "get_copy") /\ loc' = [loc EXCEPT ![p].cmd = c]
    /\ UNCHANGED <<globals, history, fileStatics, coord_move, gmaze, fd, ret>>

GetCopy(p) ==       \* copy_to_user of the static tmp
    /\ pc[p] = "get_copy"
    /\ \/ Return(p, loc[p].cmd, "OK", tmp)
       \/ Done(p, loc[p].cmd, "EBUSY")
    /\ UNCHANGED <<globals, statics, history, fd>>

(* The caller's own account of a move it asked for (mazetest.c 215-221). *)
Expect(p, d) == view' = IF view[p] = NULL THEN view
                        ELSE [view EXCEPT ![p] = Walk(view[p], d)]

MoveCopy(p) ==      \* copy_from_user into the static coord_move
    /\ pc[p] = "MOVE"
    /\ \/ Done(p, "MOVE", "EBUSY") /\ UNCHANGED <<coord_move, view>>
       \/ \E d \in Deltas : /\ coord_move' = d /\ Expect(p, d)
                            /\ Goto(p, "move_use") /\ UNCHANGED <<loc, ret>>
    /\ UNCHANGED <<globals, fileStatics, index, tmp, gmaze, fd, fault>>

(* The block's address and coord_move.y are loaded, coord_move.x after them; *)
(* another caller may overwrite the static in between.                      *)
MoveUse(p) ==
    /\ Uses(p, "move_use")
    /\ index' = UserIndex(p)
    /\ loc' = [loc EXCEPT ![p].cmd = "MOVE", ![p].blk = Target(p),
                          ![p].tgt = <<0, coord_move[2]>>]
    /\ Goto(p, "move_test")
    /\ UNCHANGED <<globals, history, fileStatics, tmp, coord_move, gmaze, fd,
                   ret>>

(* A wall leaves the position alone; otherwise x and y are stored one after *)
(* the other.                                                              *)
MoveTest(p) ==
    /\ Uses(p, "move_test")
    /\ LET m == heap[loc[p].blk]
           c == Plus(m.pos, <<coord_move[1], loc[p].tgt[2]>>)
       IN /\ fault' = fault \cup Strays(c)
          /\ \/ Stays(m, c) /\ Done(p, "MOVE", "OK")
             \/ /\ Moves(m, c) /\ Goto(p, "store_x")
                /\ loc' = [loc EXCEPT ![p].tgt = c] /\ UNCHANGED ret
             \/ /\ ~InBlk(c) /\ Goto(p, "oops")
                /\ loc' = [loc EXCEPT ![p] = Idle] /\ UNCHANGED ret
    /\ UNCHANGED <<globals, statics, fd, view>>

StoreX(p) ==
    /\ Uses(p, "store_x")
    /\ heap' = [heap EXCEPT ![loc[p].blk].pos[1] = loc[p].tgt[1]]
    /\ Goto(p, "store_y")
    /\ UNCHANGED <<statics, history, table, flags, mutex, fd, loc, ret>>

StoreY(p) ==
    /\ Uses(p, "store_y")
    /\ heap' = [heap EXCEPT ![loc[p].blk].pos[2] = loc[p].tgt[2]]
    /\ IF loc[p].cmd = "MOVE" THEN Done(p, "MOVE", "OK")
       ELSE Goto(p, "write_step") /\ UNCHANGED <<loc, ret>>
    /\ UNCHANGED <<statics, history, table, flags, mutex, fd>>

-----------------------------------------------------------------------------
(* read, write, and the /proc/maze reader. *)

Area(m) == m.lay.size[1] * m.lay.size[2]

(* The common start of read and write: the index is stored in the static    *)
(* whether or not there is a maze behind it.                                *)
NoMazeError(p, c) == /\ ~HaveMaze(p) /\ Done(p, c, "EBADFD")
                     /\ UNCHANGED fault

Read(p) ==          \* up to kmalloc; the buffer's size is the maze's area
    /\ Request(p, "READ")
    /\ read_index' = UserIndex(p)
    /\ \/ NoMazeError(p, "READ")
       \/ /\ HaveMaze(p) /\ Enter(p, "read_fill")
          /\ LET m == heap[info[UserIndex(p)]] IN
             \/ /\ m \notin {Freed, Raw}
                /\ loc' = [loc EXCEPT ![p].size = m.lay.size]
                /\ UNCHANGED fault
             \/ /\ m \in {Freed, Raw}
                /\ fault' = fault \cup {"uaf"} /\ UNCHANGED loc
    /\ UNCHANGED <<globals, ioctlStatics, write_index, proc_i, gmaze, fd,
                   view>>

(* The layout of the slot the static index names by now is copied into the  *)
(* buffer and out to the user; past its end when that maze is larger.       *)
ReadFill(p) ==
    /\ Uses(p, "read_fill")
    /\ fault' = IF Area(heap[Target(p)]) > loc[p].size[1] * loc[p].size[2]
                THEN fault \cup {"oob"} ELSE fault
    /\ \/ Done(p, "READ", "EBUSY")
       \/ Goto(p, "read_ret") /\ UNCHANGED <<loc, ret>>
    /\ UNCHANGED <<globals, statics, fd, view>>

ReadRet(p) ==       \* the length comes from a third look at the static
    /\ Uses(p, "read_ret")
    /\ Return(p, "READ", "OK", heap[Target(p)].lay.size)
    /\ UNCHANGED <<globals, statics, history, fd>>

Write(p) ==
    /\ Request(p, "WRITE")
    /\ write_index' = UserIndex(p)
    /\ \/ NoMazeError(p, "WRITE")
       \/ HaveMaze(p) /\ Enter(p, "write_copy") /\ UNCHANGED <<loc, fault>>
    /\ UNCHANGED <<globals, ioctlStatics, read_index, proc_i, gmaze, fd,
                   view>>

WriteCopy(p) ==     \* copy_from_user and the num_moves check
    /\ pc[p] = "write_copy"
    /\ \/ Done(p, "WRITE", "EBUSY")
       \/ \E s \in Batches :
            \/ Len(s) % WriteUnit # 0 /\ Done(p, "WRITE", "EINVAL")
            \/ s = <<>> /\ Done(p, "WRITE", "OK")
            \/ /\ Len(s) % WriteUnit = 0 /\ s # <<>> /\ Goto(p, "write_load")
               /\ loc' = [loc EXCEPT ![p].moves = s] /\ UNCHANGED ret
    /\ UNCHANGED <<globals, statics, history, fd>>

WriteLoad(p) ==     \* the maze, through the static index
    /\ Uses(p, "write_load")
    /\ loc' = [loc EXCEPT ![p].blk = Target(p)]
    /\ Goto(p, "write_step")
    /\ UNCHANGED <<globals, statics, history, fd, ret>>

WriteStep(p) ==     \* the loop of lines 145-150, one move at a time
    /\ Uses(p, "write_step")
    /\ \/ /\ loc[p].moves = <<>> /\ Done(p, "WRITE", "OK")
          /\ UNCHANGED history
       \/ /\ loc[p].moves # <<>>
          /\ LET m == heap[loc[p].blk]
                 d == Head(loc[p].moves)
                 c == Plus(m.pos, d)
                 rest == [loc[p] EXCEPT !.moves = Tail(loc[p].moves)]
             IN /\ Expect(p, d)
                /\ fault' = fault \cup Strays(c)
                /\ \/ /\ Stays(m, c) /\ UNCHANGED pc
                      /\ loc' = [loc EXCEPT ![p] = rest]
                   \/ /\ Moves(m, c) /\ Goto(p, "store_x")
                      /\ loc' = [loc EXCEPT ![p] = [rest EXCEPT !.tgt = c]]
                   \/ /\ ~InBlk(c) /\ Goto(p, "oops")
                      /\ loc' = [loc EXCEPT ![p] = Idle]
          /\ UNCHANGED ret
    /\ UNCHANGED <<globals, statics, fd>>

ProcRead(p) ==      \* mazemod_proc_read, run for a process that waits for it
    /\ Request(p, "PROC")
    /\ \/ only_for_q3 /\ Enter(p, "proc_q3") /\ UNCHANGED proc_i
       \/ ~only_for_q3 /\ proc_i' = 0 /\ Enter(p, "proc_loop")
    /\ UNCHANGED <<globals, history, ioctlStatics, read_index, write_index,
                   gmaze, fd, loc>>

ProcQ3(p) ==        \* shows slot 0
    /\ Uses(p, "proc_q3")
    /\ only_for_q3' = FALSE
    /\ Done(p, "PROC", "OK")
    /\ UNCHANGED <<statics, history, table, heap, error_no, mutex, fd>>

ProcLoop(p) ==      \* the loop test and the vacancy case
    /\ pc[p] = "proc_loop"
    /\ \/ /\ proc_i >= MAXUSER /\ Done(p, "PROC", "OK") /\ UNCHANGED proc_i
       \/ /\ proc_i < MAXUSER /\ pids[proc_i] = NoPid
          /\ proc_i' = proc_i + 1 /\ UNCHANGED <<pc, loc, ret>>
       \/ /\ proc_i < MAXUSER /\ pids[proc_i] # NoPid
          /\ Goto(p, "proc_show") /\ UNCHANGED <<proc_i, loc, ret>>
    /\ UNCHANGED <<globals, history, ioctlStatics, read_index, write_index,
                   gmaze, fd>>

ProcShow(p) ==      \* the slot's maze, then ++i
    /\ Uses(p, "proc_show")
    /\ proc_i' = proc_i + 1
    /\ Goto(p, "proc_loop")
    /\ UNCHANGED <<globals, history, ioctlStatics, read_index, write_index,
                   gmaze, fd, loc, ret>>

-----------------------------------------------------------------------------
(* The steps that finish what a process has begun in the kernel. *)
Handler(p) ==
    \/ DelLock(p) \/ DelFree(p) \/ DelClear(p)
    \/ CreateLock(p) \/ CreateCheck(p) \/ FindSlot(p) \/ ClaimSlot(p)
    \/ Alloc(p) \/ Generate(p) \/ StoreMaze(p)
    \/ Reset(p) \/ Destroy(p) \/ DestroyNull(p)
    \/ (\E c \in GetRequests : Get(p, c)) \/ GetCopy(p)
    \/ MoveCopy(p) \/ MoveUse(p) \/ MoveTest(p) \/ StoreX(p) \/ StoreY(p)
    \/ ReadFill(p) \/ ReadRet(p)
    \/ WriteCopy(p) \/ WriteLoad(p) \/ WriteStep(p)
    \/ ProcQ3(p) \/ ProcLoop(p) \/ ProcShow(p)
    \/ Oops(p)

(* The system calls a process is free to make. *)
Call(p) ==
    \/ Open(p) \/ Close(p) \/ Create(p) \/ Q3(p)
    \/ \E c \in MazeRequests : MazeRequest(p, c)
    \/ Read(p) \/ Write(p) \/ ProcRead(p)

Next == \E p \in Procs : Call(p) \/ Handler(p)

Spec == Init /\ [][Next]_vars

(* A process inside a handler runs on; a kernel mutex is handed to its      *)
(* waiters, so a waiting locker that finds it free again and again gets it. *)
FairSpec == /\ Spec
            /\ \A p \in Procs : /\ WF_vars(Handler(p))
                                /\ SF_vars(CreateLock(p))
                                /\ SF_vars(DelLock(p))

-----------------------------------------------------------------------------
(* Properties. *)

GlobalTypes ==
    /\ pids \in [Slots -> Procs \cup {NoPid}]
    /\ info \in [Slots -> Pointer]
    /\ heap \in [Blocks -> MazeInfo \cup {Freed, Raw}]
    /\ error_no \in {0, 12} /\ only_for_q3 \in BOOLEAN
    /\ mutex \in Procs \cup {NoPid}
StaticTypes ==
    /\ index \in Slots \cup {-1} /\ read_index \in Slots \cup {-1}
    /\ write_index \in Slots \cup {-1} /\ proc_i \in Nat
    /\ tmp \in Coord /\ coord_move \in Coord
    /\ gmaze \in Layouts \cup {NULL}
ProcessTypes ==
    /\ fd \in [Procs -> BOOLEAN] /\ pc \in [Procs -> Labels]
    /\ loc \in [Procs -> Locals] /\ ret \in [Procs -> Results]
HistoryTypes ==
    /\ view \in [Procs -> MazeInfo \cup {NULL}]
    /\ fault \subseteq {"null", "uaf", "oob", "uninit", "stray"}

(* Every variable keeps its type; in particular error_no only ever holds 0   *)
(* or ENOMEM, and a static index is a slot or -1.                           *)
TypeOK == GlobalTypes /\ StaticTypes /\ ProcessTypes /\ HistoryTypes

(* The slot table and the heap agree: a process has one slot, a block hangs  *)
(* in one slot, an empty slot holds no block and no block is lost, at every  *)
(* step of MAZE_CREATE and del_user, whoever else is running.               *)
SlotsConsistent ==
    /\ \A i, j \in Slots : pids[i] # NoPid /\ pids[i] = pids[j] => i = j
    /\ \A i, j \in Slots : info[i] # NULL /\ info[i] = info[j] => i = j
    /\ \A i \in Slots : pids[i] = NoPid => info[i] = NULL
    /\ \A b \in Blocks : heap[b] # Freed => \E i \in Slots : info[i] = b

(* No handler dereferences a null or freed pointer, memory not yet written   *)
(* or a slot outside the table: have_maze of one step still answers for the  *)
(* use in the next.  The driver does read whatever lies where a move of its  *)
(* caller leads (lines 146, 320): nothing else goes wrong.                   *)
NoFault == fault \subseteq {"stray"}

(* A maze's position is no wall of that maze, whatever moves are requested,  *)
(* one of them overwriting another's in the static coord_move, or leading    *)
(* out of the grid, through the bytes beside it, and back; only between the  *)
(* store of x and the store of y it may be any cell.                         *)
OnWall(m) == m.pos \in Grid(m) \ m.lay.open
PosOpen ==
    \A b \in Blocks : heap[b] \notin {Freed, Raw} =>
        ~OnWall(heap[b]) \/ \E p \in Procs : pc[p] = "store_y" /\ loc[p].blk = b

(* The maze a successful MAZE_CREATE made is the one behind the caller's     *)
(* slot until the caller closes the device.                                 *)
MazeStaysMine ==
    \A p \in Procs : view[p] # NULL =>
        /\ HaveMaze(p)
        /\ heap[info[UserIndex(p)]] \notin {Freed, Raw}
        /\ heap[info[UserIndex(p)]].lay = view[p].lay

(* A slot in use changes hands only through its owner's del_user, inside     *)
(* the mutex: no claim in create_maze ever overwrites a slot another        *)
(* process took meanwhile.                                                  *)
OwnerOnlyRelease ==
    [][\A i \in Slots : pids[i] # NoPid /\ pids'[i] # pids[i] =>
          /\ pids'[i] = NoPid
          /\ pc[pids[i]] = "del_clear" /\ mutex = pids[i]]_vars

(* The device implements SlotLending: through claim, kmalloc, generate_maze  *)
(* and del_user of any number of processes a process that asks in            *)
(* MAZE_CREATE is lent one free slot in one step and never a second, and the *)
(* slot is free again only by a close of that same process.                  *)
AskLabels   == {"create_lock", "create_check", "find_slot", "claim_slot"}
LeaveLabels == {"del_lock", "del_free", "del_clear"}
Lending == INSTANCE SlotLending WITH
    Clients <- Procs, SlotIds <- Slots, Nobody <- NoPid, owner <- pids,
    asking  <- {p \in Procs : pc[p] \in AskLabels},
    leaving <- {p \in Procs : pc[p] \in LeaveLabels}
LendsSlots == Lending!LendSpec

(* Every system call returns: nobody waits for maze_mutex forever.           *)
HandlersReturn == \A p \in Procs : pc[p] # "user" ~> pc[p] = "user"

(* What case_randomwalk of mazetest.c checks: MAZE_GETPOS reports the        *)
(* position the caller computes for itself from the moves it has sent, as    *)
(* long as these have not led it off the grid.                               *)
RandomWalkCheck ==
    \A p \in Procs :
        pc[p] = "user" /\ ret[p].op = "GETPOS" /\ ret[p].err = "OK"
            /\ view[p] # NULL /\ view[p].pos # Lost
        => ret[p].val = view[p].pos

(* A process alone on the device can issue any sequence of requests without  *)
(* touching a freed block, one not written yet or a slot outside the table:  *)
(* all that can go wrong is the null pointer of a slot whose maze is         *)
(* destroyed, and a byte read where a move of its own leads out of blk.      *)
OnlyNullFaults == fault \subseteq {"null", "stray"}

(* del_user's promise (maze.c:60): once a process has closed the device, no  *)
(* slot is held in its name.                                                *)
SlotsReleased ==
    \A i \in Slots : pids[i] # NoPid =>
        \/ fd[pids[i]]
        \/ pc[pids[i]] \in {"del_lock", "del_free", "del_clear"}
=============================================================================
