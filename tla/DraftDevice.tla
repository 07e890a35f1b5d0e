----------------------------- MODULE DraftDevice -----------------------------
(***************************************************************************)
(* The draft of the maze driver (lab02/mazemod/mazemod_backup.c), the      *)
(* version before hand_in_version/maze.c: a slot is a pointer to a struct  *)
(* maze_info that holds its owner's pid, MAZE_DESTROY leaves a bare struct *)
(* in the slot, and /proc/maze shows as many slots as there are users.     *)
(*                                                                         *)
(* Calls are taken one after another, from any process; MazeDevice is      *)
(* about their interleaving.  A maze is what MazeGen builds: here one of a *)
(* few layouts.                                                            *)
(***************************************************************************)
EXTENDS Integers, Sequences, FiniteSets

CONSTANTS Procs, Slots,
          Destroyers,   \* the processes that use MAZE_DESTROY
          Layouts,   \* mazes: [x, y, start, end, open]
          BadSizes,  \* sizes refused by MAZE_CREATE: <<x, y>>
          Deltas,    \* what MAZE_MOVE is given: any <<dx, dy>>
          Batches    \* what write is given: sequences of them
MaxX == 101
MaxY == 101

Grid(m) == (0 .. m.x - 1) \X (0 .. m.y - 1)
DraftAssumption ==
    /\ Destroyers \subseteq Procs
    /\ {"null", "none"} \cap Procs = {}
    /\ Slots \subseteq Nat /\ IsFiniteSet(Slots)
    /\ \A l \in Layouts : /\ {l.start, l.end} \subseteq l.open /\ l.open \subseteq Grid(l)
                          /\ l.x \in 1 .. MaxX /\ l.y \in 1 .. MaxY
    /\ Deltas \subseteq Int \X Int /\ Batches \subseteq Seq(Int \X Int)
    /\ \A s \in BadSizes : s[1] \notin 1 .. MaxX \/ s[2] \notin 1 .. MaxY

VARIABLES
    maze_user_info,   \* by slot: Null, or [pid, maze, pos]; maze is Bare after DESTROY
    num_users,
    coord, maze,      \* the size last asked for and the maze last built
    only_for_q3,
    open,             \* processes with the device open
    reply,            \* the last answer: to whom, and from which maze
    fault             \* "none", "null" or "wild": a pointer or an index was
                      \* used that did harm
vars == <<maze_user_info, num_users, coord, maze, only_for_q3, open, reply, fault>>

Null == [pid |-> "null"]
Bare == [x |-> 0, y |-> 0]       \* blk is zeroed, all else is what kmalloc returned
Garbage == <<0, 0>>
NoReply == [of |-> "none", maze |-> Bare]
Outside == <<-1, -1>>            \* a position off the grid, wherever

Init ==
    /\ maze_user_info = [s \in Slots |-> Null] /\ num_users = 0
    /\ coord = <<0, 0>> /\ maze = Bare /\ only_for_q3 = FALSE
    /\ open = {} /\ reply = NoReply /\ fault = "none"

Full(s) == maze_user_info[s] # Null /\ maze_user_info[s].maze # Bare
Mine(p) == {s \in Slots : maze_user_info[s].pid = p}
First(S) == CHOOSE s \in S : \A t \in S : s <= t
Empty == {s \in Slots : maze_user_info[s] = Null}
who_is_user(p) == First(Mine(p))                    \* where Mine(p) is not empty
have_maze(p) == \E s \in Mine(p) : Full(s)

SetSlot(s, info) == maze_user_info' = [maze_user_info EXCEPT ![s] = info]
Asks(p) == p \in open /\ fault = "none"
Refuse == reply' = NoReply /\ UNCHANGED <<maze_user_info, num_users, maze, only_for_q3, open, fault>>

Open(p) ==
    /\ fault = "none" /\ p \notin open
    /\ open' = open \cup {p}
    /\ UNCHANGED <<maze_user_info, num_users, coord, maze, only_for_q3, reply, fault>>

(* release: del_user frees the first slot of the process, if it has one.     *)
(* error_no stays 0: the lines that set it are commented out.                *)
UsersLeftAll(p) == num_users - 1                    \* seeded fault: no test for -1
UsersLeft(p) == IF Mine(p) = {} THEN num_users ELSE num_users - 1
Close(p) ==
    /\ Asks(p)
    /\ open' = open \ {p} /\ reply' = NoReply
    /\ num_users' = UsersLeft(p)
    /\ IF Mine(p) = {} THEN UNCHANGED maze_user_info ELSE SetSlot(who_is_user(p), Null)
    /\ UNCHANGED <<coord, maze, only_for_q3, fault>>

(* MAZE_CREATE.  The size is stored before it is checked.  A process whose   *)
(* slot is bare gets another, if there is one; the result is not looked at.  *)
CreateBad(p) ==
    /\ Asks(p)
    /\ \E s \in BadSizes : coord' = s
    /\ Refuse
CanCreateAlways(p) == TRUE                          \* seeded fault: no EEXIST
CanCreate(p) == Mine(p) # {} => ~Full(who_is_user(p))
CreateRefused(p) ==
    /\ Asks(p) /\ (~CanCreate(p) \/ Empty = {})
    /\ \E l \in Layouts : coord' = <<l.x, l.y>>
    /\ Refuse
Create(p) ==
    /\ Asks(p) /\ CanCreate(p) /\ Empty # {}
    /\ \E l \in Layouts :
         /\ coord' = <<l.x, l.y>> /\ maze' = l
         /\ SetSlot(First(Empty), [pid |-> p, maze |-> l, pos |-> l.start])
    /\ num_users' = num_users + 1 /\ reply' = NoReply
    /\ UNCHANGED <<only_for_q3, open, fault>>

(* The other requests ask have_maze, then use the first slot of the process. *)
Uses(p) == Asks(p) /\ have_maze(p)
NoMaze(p) ==
    /\ Asks(p) /\ ~have_maze(p)
    /\ Refuse /\ UNCHANGED coord
MyInfo(p) == maze_user_info[who_is_user(p)]

Reset(p) ==
    /\ Uses(p)
    /\ SetSlot(who_is_user(p), [MyInfo(p) EXCEPT !.pos =
           IF MyInfo(p).maze = Bare THEN Garbage ELSE MyInfo(p).maze.start])
    /\ reply' = NoReply
    /\ UNCHANGED <<num_users, coord, maze, only_for_q3, open, fault>>

Destroyed(p) == [pid |-> p, maze |-> Bare, pos |-> Garbage]
Destroy(p) ==
    /\ p \in Destroyers /\ Uses(p)
    /\ SetSlot(who_is_user(p), Destroyed(p))
    /\ reply' = NoReply
    /\ UNCHANGED <<num_users, coord, maze, only_for_q3, open, fault>>

(* GETSIZE, GETPOS, GETSTART and GETEND. *)
Get(p) ==
    /\ Uses(p)
    /\ reply' = [of |-> p, maze |-> MyInfo(p).maze]
    /\ UNCHANGED <<maze_user_info, num_users, coord, maze, only_for_q3, open, fault>>

(* One move, not looked at before it is used: taken unless the byte there is  *)
(* a '#'.  Off the grid the byte is what it is, in blk or in other memory; and  *)
(* a position off the grid may have any cell within its reach.                 *)
Step(m, pos, d) ==
    LET c == <<pos[1] + d[1], pos[2] + d[2]>>
    IN  IF pos = Outside THEN m.open \cup {Outside}
        ELSE IF c \in m.open THEN {c}
        ELSE IF c \in Grid(m) THEN {pos}
        ELSE {pos, Outside}
InBlk(c) == c[2] * MaxX + c[1] \in 0 .. MaxX * MaxY - 1
Strays(pos, d) == pos = Outside \/ ~InBlk(<<pos[1] + d[1], pos[2] + d[2]>>)
(* Where the moves b may lead to, one after another.                          *)
Walk(m, pos, b) == LET at[k \in 0 .. Len(b)] ==
                           IF k = 0 THEN {pos} ELSE UNION {Step(m, c, b[k]) : c \in at[k - 1]}
                   IN  at
Walks(p, b) ==
    LET at == Walk(MyInfo(p).maze, MyInfo(p).pos, b)
    IN  /\ \E c \in at[Len(b)] : SetSlot(who_is_user(p), [MyInfo(p) EXCEPT !.pos = c])
        /\ \/ fault' = "none"
           \/ fault' = "wild" /\ \E k \in DOMAIN b : \E c \in at[k - 1] : Strays(c, b[k])

(* MAZE_MOVE, and write, which moves once per entry: eight or a multiple.    *)
(* write returns EBADFD for a bare slot, MOVE computes an index from it,      *)
(* which may lie in blk or not.                                               *)
Move(p) ==
    /\ Uses(p)
    /\ IF MyInfo(p).maze = Bare
       THEN fault' \in {"none", "wild"} /\ UNCHANGED maze_user_info
       ELSE \E d \in Deltas : Walks(p, <<d>>)
    /\ reply' = NoReply
    /\ UNCHANGED <<num_users, coord, maze, only_for_q3, open>>
Write(p) ==
    /\ Asks(p) /\ Mine(p) # {} /\ Full(who_is_user(p))
    /\ \E b \in {b \in Batches : Len(b) % 8 = 0} : Walks(p, b)
    /\ reply' = NoReply
    /\ UNCHANGED <<num_users, coord, maze, only_for_q3, open>>
(* read: the open cells of the caller's maze. *)
Read(p) ==
    /\ Asks(p) /\ Mine(p) # {} /\ Full(who_is_user(p))
    /\ reply' = [of |-> p, maze |-> MyInfo(p).maze]
    /\ UNCHANGED <<maze_user_info, num_users, coord, maze, only_for_q3, open, fault>>

(* ONLY_FOR_Q3: a maze of no slot, for the next reader of /proc/maze.        *)
Q3Bad(p) ==
    /\ Asks(p)
    /\ \E s \in BadSizes : coord' = s
    /\ only_for_q3' = TRUE /\ reply' = NoReply
    /\ UNCHANGED <<maze_user_info, num_users, maze, open, fault>>
Q3(p) ==
    /\ Asks(p)
    /\ \E l \in Layouts : coord' = <<l.x, l.y>> /\ maze' = l
    /\ only_for_q3' = TRUE /\ reply' = NoReply
    /\ UNCHANGED <<maze_user_info, num_users, open, fault>>

(* /proc/maze, by anyone: after ONLY_FOR_Q3 the maze built last, in the size *)
(* asked for last; else the slots below num_users.  In a bare slot the size  *)
(* that bounds the loops is what kmalloc left there.                         *)
Shown == {s \in Slots : s < num_users}
ProcQ3 ==
    /\ fault = "none" /\ only_for_q3
    /\ only_for_q3' = FALSE
    /\ fault' = IF coord[1] <= MaxX /\ coord[2] <= MaxY THEN "none" ELSE "wild"
    /\ UNCHANGED <<maze_user_info, num_users, coord, maze, open, reply>>
ProcRead ==
    /\ fault = "none" /\ ~only_for_q3
    /\ fault' \in CASE \E s \in Shown : maze_user_info[s] = Null -> {"null"}
                    [] \E s \in Shown : ~Full(s) -> {"none", "wild"}
                    [] OTHER -> {"none"}
    /\ UNCHANGED <<maze_user_info, num_users, coord, maze, only_for_q3, open, reply>>

Next ==
    \/ \E p \in Procs : \/ Open(p) \/ Close(p) \/ CreateBad(p) \/ CreateRefused(p)
                        \/ Create(p) \/ NoMaze(p) \/ Reset(p) \/ Destroy(p) \/ Get(p)
                        \/ Move(p) \/ Write(p) \/ Read(p) \/ Q3Bad(p) \/ Q3(p)
    \/ ProcQ3 \/ ProcRead
Spec == Init /\ [][Next]_vars
-----------------------------------------------------------------------------
Infos == {Null} \cup
    [pid : Procs, maze : Layouts \cup {Bare},
     pos : {Garbage, Outside} \cup UNION {l.open : l \in Layouts}]
TypeOK ==
    /\ maze_user_info \in [Slots -> Infos] /\ num_users \in 0 .. Cardinality(Slots)
    /\ coord \in {<<l.x, l.y>> : l \in Layouts} \cup BadSizes \cup {Garbage}
    /\ maze \in Layouts \cup {Bare} /\ only_for_q3 \in BOOLEAN /\ open \subseteq Procs
    /\ reply.of \in Procs \cup {"none"} /\ fault \in {"none", "null", "wild"}

(* num_users, which is changed apart from the slots, is the number of slots in *)
(* use, bare ones and second ones of a process included; only del_user of a     *)
(* process with a slot takes one away.                                          *)
UsersCounted == num_users = Cardinality(Slots \ Empty)

(* A client that does not use MAZE_DESTROY is not harmed by one that does: it   *)
(* has at most one slot, and only while it has the device open; its position    *)
(* is on no wall of its own maze: on an open cell or, after a far move, outside  *)
(* the grid; and it gets no answer from a bare slot.  The clients that do may    *)
(* end with every slot, and lose them all.                                      *)
OthersUnharmed ==
    /\ \A p \in Procs \ Destroyers :
         /\ Cardinality(Mine(p)) <= 1
         /\ Mine(p) # {} => p \in open
         /\ \A s \in Mine(p) : Full(s) /\ maze_user_info[s].pos \in maze_user_info[s].maze.open \cup {Outside}
    /\ reply.of \in Procs \ Destroyers => reply.maze # Bare

(* What the draft promises: its count, and its service to those clients.         *)
DraftServes == UsersCounted /\ OthersUnharmed
==============================================================================
