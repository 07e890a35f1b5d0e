------------------------- MODULE MazeIsolationProofs -------------------------
(***************************************************************************)
(* First, any number of processes use the ioctl requests of MazeDevice,    *)
(* except MAZE_DESTROY and ONLY_FOR_Q3, on a machine with memory for every *)
(* slot: each keeps its slot and its maze to itself although look-ups,     *)
(* uses and stores of different processes interleave and only MAZE_CREATE  *)
(* and del_user take the mutex.                                            *)
(*                                                                         *)
(* Then, one process alone uses the whole of the driver, with any number   *)
(* of slots and blocks: all that can go wrong is a null pointer and a byte *)
(* read outside blk, and the position it reads is the one it has worked    *)
(* out, while its moves keep to the grid.                                  *)
(***************************************************************************)
EXTENDS MazeDeviceProofs

Ioctls == {"CREATE", "RESET", "MOVE", "GETSIZE", "GETPOS", "GETSTART", "GETEND"}

(* Labels these requests and close can lead to, those of them where the      *)
(* caller has a maze, where its block is not written yet, where it cannot    *)
(* have a slot, and where it expects no maze.                                *)
Making  == {"generate", "store_maze"}
Storing == {"store_x", "store_y"}
Carrying == {"move_test"} \cup Storing
Holding == {"RESET", "GETSIZE", "GETPOS", "GETSTART", "GETEND", "MOVE",
            "move_use"} \cup Carrying
Calm    == InCreate \cup InDelUser \cup Holding
               \cup {"user", "oops", "create_lock", "del_lock", "get_copy"}
NoSlot  == {"find_slot", "claim_slot"}
NoView  == NoSlot \cup {"alloc"} \cup Making \cup InDelUser \cup {"del_lock"}

(* A slot of p: its pointer is null only before kmalloc, its block is free    *)
(* only between kfree and the clearing, unwritten only inside generate_maze.  *)
Slot(p, i) ==
    /\ pc[p] \notin NoSlot
    /\ info[i] = NULL <=> pc[p] = "alloc"
    /\ info[i] # NULL => /\ heap[info[i]] = Freed <=> pc[p] = "del_clear"
                         /\ heap[info[i]] = Raw <=> pc[p] \in Making

(* The block p holds in a register is the one behind its slot; what it is     *)
(* about to store is no wall, and half of it is stored after the first half.  *)
NoWall(m, c) == c \notin Grid(m) \ m.lay.open
Stored(p) ==
    /\ loc[p].cmd = "MOVE"
    /\ \E i \in Slots : pids[i] = p /\ info[i] = loc[p].blk
    /\ pc[p] \in Storing => NoWall(heap[loc[p].blk], loc[p].tgt)
    /\ pc[p] = "store_y" => heap[loc[p].blk].pos[1] = loc[p].tgt[1]

Work(p) ==
    /\ pc[p] \in Calm
    /\ pc[p] \in Holding => \E i \in Slots : pids[i] = p
    /\ pc[p] \in {"alloc"} \cup Making =>
           loc[p].idx \in Slots /\ pids[loc[p].idx] = p
    /\ pc[p] \in Making => info[loc[p].idx] = loc[p].blk
    /\ pc[p] \in Carrying => Stored(p)

Seen(p) ==
    view[p] # NULL =>
        /\ pc[p] \notin NoView
        /\ \E i \in Slots : pids[i] = p /\ heap[info[i]].lay = view[p].lay

Mine(p) == Work(p) /\ Seen(p) /\ \A i \in Slots : pids[i] = p => Slot(p, i)

(* What the processes share.                                                  *)
Shared == SlotsConsistent /\ PosOpen /\ NoFault

Isolated == Shared /\ \A p \in Procs : Mine(p)

Settled == Calm \ (NoSlot \cup {"alloc", "del_clear"} \cup Making)
Others(q) == \A p \in Procs \ {q} :
                 pc'[p] = pc[p] /\ loc'[p] = loc[p] /\ view'[p] = view[p]
-----------------------------------------------------------------------------
(* A process changes its own slots and empty ones, and its own blocks.        *)
Footprint(q) ==
    /\ Others(q)
    /\ \A i \in Slots : pids[i] \notin {q, NoPid} =>
           /\ pids'[i] = pids[i] /\ info'[i] = info[i]
           /\ info[i] # NULL => heap'[info[i]] = heap[info[i]]
    /\ \A i \in Slots : pids[i] \in {q, NoPid} => pids'[i] \in {q, NoPid}

LEMMA OthersKept ==
    ASSUME Isolated, NEW q \in Procs, NEW p \in Procs \ {q}, Footprint(q)
    PROVE  Mine(p)'
<1>1. /\ pc'[p] = pc[p] /\ loc'[p] = loc[p] /\ view'[p] = view[p]
      /\ p # q /\ p # NoPid /\ Mine(p)
  BY PidAssumption DEF Footprint, Others, Isolated
<1>2. \A i \in Slots : pids[i] = p =>
        /\ pids'[i] = p /\ info'[i] = info[i] /\ Slot(p, i)
        /\ info[i] # NULL => heap'[info[i]] = heap[info[i]]
  BY <1>1 DEF Footprint, Mine
<1>3. \A i \in Slots : pids'[i] = p => pids[i] = p
  BY <1>1 DEF Footprint
<1>4. \A i \in Slots : pids'[i] = p => Slot(p, i)'
  BY <1>1, <1>2, <1>3 DEF Slot
<1>5. Work(p)'
  <2>1. Work(p)
    BY <1>1 DEF Mine
  <2>2. pc[p] \in Carrying => Stored(p)'
    <3> HAVE pc[p] \in Carrying
    <3>1. Stored(p)
      BY <2>1 DEF Work
    <3>2. PICK i \in Slots : pids[i] = p /\ info[i] = loc[p].blk
      BY <3>1 DEF Stored
    <3>3. info[i] # NULL
      BY <1>2, <3>2 DEF Slot, Carrying, Storing
    <3>4. /\ pids'[i] = p /\ info'[i] = loc'[p].blk
          /\ heap'[loc'[p].blk] = heap[loc[p].blk]
      BY <1>1, <1>2, <3>2, <3>3
    <3> QED BY <1>1, <3>1, <3>4 DEF Stored, NoWall, Grid
  <2>3. pc[p] \in {"alloc"} \cup Making =>
           /\ loc[p].idx \in Slots /\ pids'[loc[p].idx] = p
           /\ info'[loc[p].idx] = info[loc[p].idx]
    BY <1>2, <2>1 DEF Work
  <2> QED BY <1>1, <1>2, <2>1, <2>2, <2>3 DEF Work
<1>6. Seen(p)'
  <2> SUFFICES ASSUME view[p] # NULL PROVE Seen(p)'
    BY <1>1 DEF Seen
  <2>1. PICK i \in Slots : pids[i] = p /\ heap[info[i]].lay = view[p].lay
    BY <1>1 DEF Mine, Seen
  <2>2. pc[p] \notin NoView /\ info[i] # NULL
    BY <1>1, <1>2, <2>1 DEF Mine, Seen, Slot, NoView
  <2> QED BY <1>1, <1>2, <2>1, <2>2 DEF Seen
<1> QED BY <1>4, <1>5, <1>6 DEF Mine

(* A step changes only its own blocks, and leaves none on a wall, except     *)
(* between its two stores.                                                    *)
LEMMA PosKept ==
    ASSUME PosOpen, NEW q \in Procs, Others(q),
           \A x \in Blocks :
               \/ heap'[x] = heap[x] /\ ~ (pc[q] = "store_y" /\ loc[q].blk = x)
               \/ heap'[x] \in {Freed, Raw}
               \/ ~OnWall(heap'[x])
               \/ pc'[q] = "store_y" /\ loc'[q].blk = x
    PROVE  PosOpen'
<1> SUFFICES ASSUME NEW x \in Blocks, heap'[x] \notin {Freed, Raw}, OnWall(heap'[x])
             PROVE  \E p \in Procs : pc'[p] = "store_y" /\ loc'[p].blk = x
  BY DEF PosOpen, OnWall, Grid
<1>1. CASE heap'[x] = heap[x] /\ ~ (pc[q] = "store_y" /\ loc[q].blk = x)
  <2>1. PICK p \in Procs : pc[p] = "store_y" /\ loc[p].blk = x
    BY <1>1 DEF PosOpen
  <2> QED BY <1>1, <2>1 DEF Others
<1> QED BY <1>1

(* A step that leaves the table and the heap alone.                           *)
LEMMA QuietStep ==
    ASSUME Isolated, NEW q \in Procs, Others(q), pc[q] # "store_y",
           UNCHANGED <<pids, info, heap>>, fault' \subseteq fault \cup {"stray"},
           Work(q)', Seen(q)', \A i \in Slots : pids[i] = q => Slot(q, i)'
    PROVE  Isolated'
<1>1. Footprint(q)
  BY DEF Footprint
<1>2. Mine(q)'
  BY DEF Mine
<1>3. \A p \in Procs : Mine(p)'
  BY <1>1, <1>2, OthersKept
<1>4. SlotsConsistent' /\ PosOpen' /\ NoFault'
  BY PosKept DEF Isolated, Shared, SlotsConsistent, NoFault
<1> QED BY <1>3, <1>4 DEF Isolated, Shared

(* Most of them lead from one label to another at which nothing is promised.  *)
LEMMA PlainStep ==
    ASSUME Isolated, NEW q \in Procs, Others(q),
           UNCHANGED <<pids, info, heap>>, fault' \subseteq fault \cup {"stray"},
           pc[q] \in Settled \ {"store_y"}, pc'[q] \in Settled \ Holding,
           \/ view'[q] = NULL
           \/ view'[q] = view[q] /\ (pc[q] \in NoView \/ pc'[q] \notin NoView)
    PROVE  Isolated'
<1>1. Mine(q)
  BY DEF Isolated
<1>2. Work(q)'
  <2>1. /\ pc'[q] \in Calm /\ pc'[q] \notin Holding /\ pc'[q] \notin Carrying
        /\ pc'[q] \notin {"alloc"} \cup Making
    BY DEF Settled, Holding
  <2> QED BY <2>1 DEF Work
<1>3. Seen(q)'
  BY <1>1 DEF Mine, Seen
<1>4. \A i \in Slots : pids[i] = q => Slot(q, i)'
  BY <1>1 DEF Mine, Slot, Settled
<1> QED BY <1>2, <1>3, <1>4, QuietStep

(* A process inside a request that needs its maze finds it sound.             *)
LEMMA HoldsMaze ==
    ASSUME TypeOK, Isolated, NEW p \in Procs, pc[p] \in Holding
    PROVE  /\ UserIndex(p) \in Slots /\ pids[UserIndex(p)] = p
           /\ info[UserIndex(p)] \in Blocks /\ Target(p) = info[UserIndex(p)]
           /\ heap[Target(p)] \in MazeInfo /\ Kind(p) = "none"
           /\ \A i \in Slots : pids[i] = p => i = UserIndex(p)
<1>1. Mine(p)
  BY DEF Isolated
<1>2. PICK i \in Slots : pids[i] = p
  BY <1>1 DEF Mine, Work
<1>3. UserIndex(p) # -1
  BY <1>2, FirstIndexType DEF UserIndex
<1>4. UserIndex(p) \in Slots /\ pids[UserIndex(p)] = p
  BY <1>3, LookupType
<1>5. \A j \in Slots : pids[j] = p => j = UserIndex(p)
  BY <1>4, PidAssumption DEF Isolated, Shared, SlotsConsistent
<1>6. /\ info[UserIndex(p)] # NULL /\ heap[info[UserIndex(p)]] \notin {Freed, Raw}
  BY <1>1, <1>4 DEF Mine, Slot, Holding, Carrying, Storing, Making
<1>7. info[UserIndex(p)] \in Blocks
  BY <1>4, <1>6 DEF TypeOK, GlobalTypes, Pointer
<1>8. heap[info[UserIndex(p)]] \in MazeInfo
  BY <1>6, <1>7 DEF TypeOK, GlobalTypes
<1>9. pc[p] \notin HeldInRegister => UseIndex(p) = UserIndex(p)
  BY DEF UseIndex, Holding, Carrying, Storing, HeldInRegister
<1>10. Target(p) = info[UserIndex(p)]
  <2>1. CASE pc[p] \in HeldInRegister
    <3>1. Stored(p)
      BY <1>1, <2>1 DEF Mine, Work, HeldInRegister, Carrying, Storing, Holding
    <3> QED BY <1>5, <2>1, <3>1 DEF Stored, Target
  <2>2. CASE pc[p] \notin HeldInRegister
    BY <1>9, <2>2 DEF Target
  <2> QED BY <2>1, <2>2
<1>11. Kind(p) = "none"
  BY <1>4, <1>6, <1>9, <1>10 DEF Kind
<1> QED BY <1>4, <1>5, <1>7, <1>8, <1>10, <1>11
-----------------------------------------------------------------------------
(* The steps that keep table and heap.                                        *)
LEMMA OpenCloseStep ==
    ASSUME TypeOK, Isolated, NEW p \in Procs, Open(p) \/ Close(p) PROVE Isolated'
<1>1. pc \in [Procs -> Labels] /\ loc \in [Procs -> Locals] /\ view \in [Procs -> MazeInfo \cup {NULL}]
  BY DEF TypeOK, ProcessTypes, HistoryTypes
<1>2. pc[p] \in {"user", "oops"} /\ Mine(p)
  BY DEF Open, Close, Isolated, Mine, Work, Calm, InCreate, InDelUser, Holding, Carrying, Storing
<1>3. CASE Open(p)
  <2>1. UNCHANGED <<pids, info, heap, fault, pc, loc, view>>
    BY <1>3 DEF Open, globals, statics, history
  <2> QED BY <1>2, <2>1, PlainStep DEF Others, Settled, Calm, Holding, Carrying, Storing, NoSlot, Making, NoView, InDelUser
<1>4. CASE Close(p)
  <2>1. /\ UNCHANGED <<pids, info, heap, fault>> /\ view'[p] = NULL
        /\ pc'[p] \in {"user", "del_lock"} /\ Others(p)
    BY <1>1, <1>4 DEF Close, statics, table, Goto, Others
  <2> QED BY <1>2, <2>1, PlainStep DEF Settled, Calm, Holding, Carrying, Storing, NoSlot, Making
<1> QED BY <1>3, <1>4

LEMMA LockingStep ==
    ASSUME TypeOK, Isolated, NEW p \in Procs, DelLock(p) \/ CreateLock(p) PROVE Isolated'
<1>1. pc \in [Procs -> Labels]
  BY DEF TypeOK, ProcessTypes
<1>2. /\ UNCHANGED <<pids, info, heap, fault, loc, view>> /\ Others(p)
      /\ \/ pc[p] = "del_lock" /\ pc'[p] = "del_free"
         \/ pc[p] = "create_lock" /\ pc'[p] = "create_check"
  BY <1>1 DEF DelLock, CreateLock, Lock, statics, history, table, Goto, Others
<1> QED BY <1>2, PlainStep
      DEF Settled, Calm, Holding, Carrying, Storing, NoSlot, Making, NoView, InDelUser, InCreate

LEMMA CreateStep ==
    ASSUME TypeOK, Isolated, NEW p \in Procs, Create(p) PROVE Isolated'
<1>1. pc \in [Procs -> Labels] /\ loc \in [Procs -> Locals]
  BY DEF TypeOK, ProcessTypes
<1>2. /\ UNCHANGED <<pids, info, heap, fault, view>> /\ Others(p)
      /\ pc[p] = "user" /\ pc'[p] \in {"user", "create_lock"}
  BY <1>1 DEF Create, Request, Enter, Done, Return, globals, statics, history, Goto, Others
<1> QED BY <1>2, PlainStep
      DEF Settled, Calm, Holding, Carrying, Storing, NoSlot, Making, NoView, InDelUser

(* Looking up the slot again under the mutex: a process without a maze has no *)
(* slot either, so create_maze cannot give it a second one.                   *)
LEMMA CreateCheckStep ==
    ASSUME TypeOK, Isolated, NEW p \in Procs, CreateCheck(p) PROVE Isolated'
<1>1. pc \in [Procs -> Labels] /\ loc \in [Procs -> Locals]
  BY DEF TypeOK, ProcessTypes
<1>2. /\ UNCHANGED <<pids, info, heap, fault, view>>
      /\ pc[p] = "create_check" /\ Mine(p)
  BY DEF CreateCheck, history, table, Isolated
<1>3. CASE Done(p, "CREATE", "EEXIST") \/ Done(p, "CREATE", "ENOMEM")
  <2>1. pc'[p] = "user" /\ Others(p)
    BY <1>1, <1>2, <1>3 DEF Done, Return, Goto, Others
  <2> QED BY <1>2, <2>1, PlainStep
        DEF Settled, Calm, Holding, Carrying, Storing, NoSlot, Making, NoView, InDelUser, InCreate
<1>4. CASE ~HaveMaze(p) /\ Goto(p, "find_slot") /\ UNCHANGED loc
  <2>1. pc'[p] = "find_slot" /\ Others(p)
    BY <1>1, <1>2, <1>4 DEF Goto, Others
  <2>2. \A i \in Slots : pids[i] # p
    <3> SUFFICES ASSUME NEW i \in Slots, pids[i] = p PROVE FALSE
      OBVIOUS
    <3>1. UserIndex(p) \in Slots /\ pids[UserIndex(p)] = p /\ UserIndex(p) # -1
      BY FirstIndexType, LookupType, SlotAssumption DEF UserIndex
    <3>2. Slot(p, UserIndex(p))
      BY <1>2, <3>1 DEF Mine
    <3> QED BY <1>2, <1>4, <3>1, <3>2 DEF Slot, HaveMaze
  <2>3. view[p] = NULL
    BY <1>2, <2>2 DEF Mine, Seen
  <2>4. Work(p)'
    BY <2>1 DEF Work, Calm, InCreate, Holding, Carrying, Storing, Making
  <2>5. Seen(p)'
    BY <1>2, <2>3 DEF Seen
  <2> QED BY <1>2, <2>1, <2>2, <2>4, <2>5, QuietStep
<1> QED BY <1>3, <1>4 DEF CreateCheck

LEMMA FindSlotStep ==
    ASSUME TypeOK, Isolated, NEW p \in Procs, FindSlot(p) PROVE Isolated'
<1>1. pc \in [Procs -> Labels] /\ loc \in [Procs -> Locals]
  BY DEF TypeOK, ProcessTypes
<1>2. /\ UNCHANGED <<pids, info, heap, fault, view>>
      /\ pc[p] = "find_slot" /\ pc'[p] \in {"user", "claim_slot"} /\ Others(p) /\ Mine(p)
  BY <1>1 DEF FindSlot, Done, Return, Goto, Others, statics, history, table, Isolated
<1>3. \A i \in Slots : pids[i] # p
  BY <1>2 DEF Mine, Slot, NoSlot
<1>4. Work(p)' /\ Seen(p)'
  BY <1>2 DEF Mine, Work, Seen, Calm, InCreate, Holding, Carrying, Storing, Making, NoView, NoSlot
<1> QED BY <1>2, <1>3, <1>4, QuietStep

LEMMA GenerateStep ==
    ASSUME TypeOK, Isolated, NEW p \in Procs, Generate(p) PROVE Isolated'
<1>1. pc \in [Procs -> Labels]
  BY DEF TypeOK, ProcessTypes
<1>2. /\ UNCHANGED <<pids, info, heap, fault, view, loc>>
      /\ pc[p] = "generate" /\ pc'[p] = "store_maze" /\ Others(p) /\ Mine(p)
  BY <1>1 DEF Generate, Goto, Others, globals, history, ioctlStatics, Isolated
<1>3. \A i \in Slots : pids[i] = p => Slot(p, i)'
  BY <1>2 DEF Mine, Slot, NoSlot, Making
<1>4. Work(p)' /\ Seen(p)'
  BY <1>2 DEF Mine, Work, Seen, Calm, InCreate, Holding, Carrying, Storing, Making, NoView, NoSlot
<1> QED BY <1>2, <1>3, <1>4, QuietStep

LEMMA RequestStep ==
    ASSUME TypeOK, Isolated, Commands \subseteq Ioctls,
           NEW p \in Procs, NEW c \in MazeRequests, MazeRequest(p, c)
    PROVE  Isolated'
<1>1. pc \in [Procs -> Labels] /\ loc \in [Procs -> Locals]
  BY DEF TypeOK, ProcessTypes
<1>2. /\ UNCHANGED <<pids, info, heap, fault, view>>
      /\ pc[p] = "user" /\ c \in Holding \ (Carrying \cup {"move_use"}) /\ Mine(p)
  BY DEF MazeRequest, Request, globals, statics, history, Isolated, MazeRequests,
         Ioctls, Holding, Carrying, Storing
<1>3. CASE Done(p, c, "ENOENT")
  <2>1. pc'[p] = "user" /\ Others(p)
    BY <1>1, <1>2, <1>3 DEF Done, Return, Goto, Others
  <2> QED BY <1>2, <2>1, PlainStep
        DEF Settled, Calm, Holding, Carrying, Storing, NoSlot, Making, NoView, InDelUser, InCreate
<1>4. CASE HaveMaze(p) /\ Enter(p, c) /\ UNCHANGED loc
  <2>1. pc'[p] = c /\ Others(p)
    BY <1>1, <1>2, <1>4 DEF Enter, Goto, Others
  <2>2. UserIndex(p) \in Slots /\ pids[UserIndex(p)] = p
    BY <1>4, LookupType DEF HaveMaze
  <2>3. \A i \in Slots : pids[i] = p => Slot(p, i)'
    BY <1>2, <2>1 DEF Mine, Slot, NoSlot, Making, Holding, Carrying, Storing
  <2>4. Work(p)'
    <3>1. c \in Calm /\ c \notin {"alloc"} \cup Making /\ c \notin Carrying
      BY <1>2 DEF Calm, Making, Holding
    <3> QED BY <1>2, <2>1, <2>2, <3>1 DEF Work
  <2>5. Seen(p)'
    BY <1>2, <2>1 DEF Mine, Seen, NoView, Holding, Carrying, Storing, NoSlot, Making, InDelUser
  <2> QED BY <1>2, <2>1, <2>3, <2>4, <2>5, QuietStep DEF Holding, Carrying, Storing
<1> QED BY <1>3, <1>4 DEF MazeRequest

LEMMA GetStep ==
    ASSUME TypeOK, Isolated, NEW p \in Procs,
           GetCopy(p) \/ \E c \in GetRequests : Get(p, c)
    PROVE  Isolated'
<1>1. pc \in [Procs -> Labels] /\ loc \in [Procs -> Locals]
  BY DEF TypeOK, ProcessTypes
<1>2. /\ UNCHANGED <<pids, info, heap, fault, view>> /\ Others(p)
      /\ \/ pc[p] \in GetRequests /\ pc'[p] = "get_copy"
         \/ pc[p] = "get_copy" /\ pc'[p] = "user"
  BY <1>1 DEF Get, GetCopy, Uses, Done, Return, globals, statics, history, Goto, Others
<1> QED BY <1>2, PlainStep
      DEF Settled, Calm, Holding, Carrying, Storing, NoSlot, Making, NoView, InDelUser, InCreate, GetRequests

(* MOVE: what the caller expects of a move leaves its layout alone.           *)
LEMMA ExpectKeeps ==
    ASSUME TypeOK, NEW p \in Procs, NEW d, Expect(p, d)
    PROVE  /\ \A q \in Procs \ {p} : view'[q] = view[q]
           /\ view'[p] # NULL => view[p] # NULL /\ view'[p].lay = view[p].lay
<1>1. view \in [Procs -> MazeInfo \cup {NULL}]
  BY DEF TypeOK, HistoryTypes
<1>2. CASE view[p] = NULL
  BY <1>2 DEF Expect
<1>3. CASE view[p] # NULL
  <2>1. view[p] \in MazeInfo /\ view' = [view EXCEPT ![p] = Walk(view[p], d)]
    BY <1>1, <1>3 DEF Expect
  <2>2. Walk(view[p], d).lay = view[p].lay
    BY <2>1 DEF Walk, MazeInfo
  <2> QED BY <1>1, <1>3, <2>1, <2>2
<1> QED BY <1>2, <1>3

LEMMA MoveCopyStep ==
    ASSUME TypeOK, Isolated, NEW p \in Procs, MoveCopy(p) PROVE Isolated'
<1>1. pc \in [Procs -> Labels] /\ loc \in [Procs -> Locals]
  BY DEF TypeOK, ProcessTypes
<1>2. UNCHANGED <<pids, info, heap, fault>> /\ pc[p] = "MOVE" /\ Mine(p)
  BY DEF MoveCopy, globals, Isolated
<1>3. CASE Done(p, "MOVE", "EBUSY") /\ UNCHANGED <<coord_move, view>>
  <2>1. pc'[p] = "user" /\ Others(p)
    BY <1>1, <1>3 DEF Done, Return, Goto, Others
  <2> QED BY <1>2, <1>3, <2>1, PlainStep
        DEF Settled, Calm, Holding, Carrying, Storing, NoSlot, Making, NoView, InDelUser, InCreate
<1>4. ASSUME NEW d \in Deltas, coord_move' = d, Expect(p, d), Goto(p, "move_use"), UNCHANGED loc
      PROVE  Isolated'
  <2>1. pc'[p] = "move_use" /\ Others(p)
    BY <1>1, <1>4, ExpectKeeps DEF Goto, Others
  <2>2. \A i \in Slots : pids[i] = p => Slot(p, i)'
    BY <1>2, <2>1 DEF Mine, Slot, NoSlot, Making
  <2>3. Work(p)'
    BY <1>2, <2>1 DEF Mine, Work, Calm, Making, Holding, Carrying, Storing
  <2>4. view'[p] # NULL => view[p] # NULL /\ view'[p].lay = view[p].lay
    BY <1>4, ExpectKeeps
  <2>5. Seen(p)'
    BY <1>2, <2>1, <2>4 DEF Mine, Seen, NoView, NoSlot, Making, InDelUser
  <2> QED BY <1>2, <2>1, <2>2, <2>3, <2>5, QuietStep
<1> QED BY <1>3, <1>4 DEF MoveCopy

LEMMA MoveUseStep ==
    ASSUME TypeOK, Isolated, NEW p \in Procs, MoveUse(p) PROVE Isolated'
<1>1. pc \in [Procs -> Labels] /\ loc \in [Procs -> Locals]
  BY DEF TypeOK, ProcessTypes
<1>2. /\ UNCHANGED <<pids, info, heap, fault, view>> /\ pc[p] = "move_use" /\ Mine(p)
      /\ pc'[p] = "move_test" /\ Others(p)
  BY <1>1 DEF MoveUse, Uses, globals, history, Goto, Others, Isolated
<1>3. UserIndex(p) \in Slots /\ pids[UserIndex(p)] = p /\ Target(p) = info[UserIndex(p)]
  BY <1>2, HoldsMaze DEF Holding
<1>4. loc'[p].cmd = "MOVE" /\ loc'[p].blk = Target(p)
  BY <1>1 DEF MoveUse, Locals
<1>5. \A i \in Slots : pids[i] = p => Slot(p, i)'
  BY <1>2 DEF Mine, Slot, NoSlot, Making
<1>6. Stored(p)'
  BY <1>2, <1>3, <1>4 DEF Stored, Storing
<1>7. Work(p)'
  BY <1>2, <1>3, <1>6 DEF Mine, Work, Calm, Making, Holding, Carrying, Storing
<1>8. Seen(p)'
  BY <1>2 DEF Mine, Seen, NoView, NoSlot, Making, InDelUser
<1> QED BY <1>2, <1>5, <1>7, <1>8, QuietStep

(* A byte that is a wall of the grid is never stepped on, wherever the move   *)
(* has come from.                                                             *)
LEMMA WallStays ==
    ASSUME NEW m, NEW c, Moves(m, c) PROVE NoWall(m, c)
BY DEF Moves, ReadsWall, NoWall

LEMMA MoveTestStep ==
    ASSUME TypeOK, Isolated, NEW p \in Procs, MoveTest(p) PROVE Isolated'
<1> DEFINE m == heap[loc[p].blk]
           c == Plus(m.pos, <<coord_move[1], loc[p].tgt[2]>>)
<1>1. pc \in [Procs -> Labels] /\ loc \in [Procs -> Locals]
  BY DEF TypeOK, ProcessTypes
<1>2. /\ UNCHANGED <<pids, info, heap, view>> /\ pc[p] = "move_test" /\ Mine(p)
      /\ fault' \subseteq fault \cup {"stray"} /\ Stored(p)
  BY DEF MoveTest, Uses, Strays, globals, Isolated, Mine, Work, Carrying
<1> HIDE DEF c, m
<1>3. CASE Done(p, "MOVE", "OK") \/ (Goto(p, "oops") /\ loc' = [loc EXCEPT ![p] = Idle])
  <2>1. pc'[p] \in {"user", "oops"} /\ Others(p)
    BY <1>1, <1>2, <1>3 DEF Done, Return, Goto, Others
  <2> QED BY <1>2, <2>1, PlainStep
        DEF Settled, Calm, Holding, Carrying, Storing, NoSlot, Making, NoView, InDelUser, InCreate
<1>4. CASE Moves(m, c) /\ Goto(p, "store_x") /\ loc' = [loc EXCEPT ![p].tgt = c]
  <2>1. pc'[p] = "store_x" /\ Others(p)
    BY <1>1, <1>2, <1>4 DEF Goto, Others
  <2>2. loc'[p].cmd = loc[p].cmd /\ loc'[p].blk = loc[p].blk /\ loc'[p].tgt = c
    BY <1>1, <1>4 DEF Locals
  <2>3. \A i \in Slots : pids[i] = p => Slot(p, i)'
    BY <1>2, <2>1 DEF Mine, Slot, NoSlot, Making
  <2>4. Stored(p)'
    <3>1. NoWall(m, c)
      BY <1>4, WallStays
    <3> QED BY <1>2, <2>1, <2>2, <3>1 DEF Stored, m, NoWall, Grid
  <2>5. Work(p)'
    BY <1>2, <2>1, <2>4 DEF Mine, Work, Calm, Making, Holding, Carrying, Storing
  <2>6. Seen(p)'
    BY <1>2, <2>1 DEF Mine, Seen, NoView, NoSlot, Making, InDelUser
  <2> QED BY <1>2, <2>1, <2>3, <2>5, <2>6, QuietStep
<1> QED BY <1>3, <1>4 DEF MoveTest, c, m
-----------------------------------------------------------------------------
(* Steps that change a block.  Writing to one's own maze, the layout kept:    *)
LEMMA OwnMazeStep ==
    ASSUME TypeOK, Isolated, NEW p \in Procs, Others(p), pc[p] \in Holding,
           UNCHANGED <<pids, info, fault>>,
           NEW m, heap' = [heap EXCEPT ![Target(p)] = m],
           m \in MazeInfo, m.lay = heap[Target(p)].lay,
           ~OnWall(m) \/ (pc'[p] = "store_y" /\ loc'[p].blk = Target(p)),
           pc'[p] \in {"user", "store_y"}, Work(p)',
           view'[p] # NULL => view[p] # NULL /\ view'[p].lay = view[p].lay
    PROVE  Isolated'
<1> DEFINE b == Target(p)
<1>1. /\ UserIndex(p) \in Slots /\ pids[UserIndex(p)] = p /\ b = info[UserIndex(p)]
      /\ b \in Blocks /\ b # NULL /\ heap[b] \in MazeInfo
      /\ \A i \in Slots : pids[i] = p => i = UserIndex(p)
  BY HoldsMaze, PidAssumption
<1>2. Mine(p) /\ SlotsConsistent /\ PosOpen /\ NoFault
  BY DEF Isolated, Shared
<1>3. heap[b] \notin {Freed, Raw} /\ m \notin {Freed, Raw}
  BY <1>1, ContentAssumption
<1>4. heap'[b] = m /\ \A x \in Blocks \ {b} : heap'[x] = heap[x]
  BY <1>1 DEF TypeOK, GlobalTypes
<1>5. \A i \in Slots : info[i] = b => i = UserIndex(p)
  BY <1>1, <1>2 DEF SlotsConsistent
<1>6. \A i \in Slots : info[i] # NULL => info[i] \in Blocks
  BY DEF TypeOK, GlobalTypes, Pointer
<1> HIDE DEF b
<1>7. Footprint(p)
  <2>1. \A i \in Slots : pids[i] # p /\ info[i] # NULL => heap'[info[i]] = heap[info[i]]
    BY <1>1, <1>4, <1>5, <1>6
  <2> QED BY <2>1 DEF Footprint
<1>8. \A i \in Slots : pids[i] = p => Slot(p, i)'
  <2> SUFFICES ASSUME NEW i \in Slots, pids[i] = p PROVE Slot(p, i)'
    OBVIOUS
  <2>1. info'[i] = b /\ info'[i] # NULL /\ heap'[info'[i]] = m
    BY <1>1, <1>4
  <2> QED BY <1>3, <2>1 DEF Slot, NoSlot, Making
<1>9. Seen(p)'
  <2> SUFFICES ASSUME view'[p] # NULL PROVE Seen(p)'
    BY DEF Seen
  <2>1. PICK i \in Slots : pids[i] = p /\ heap[info[i]].lay = view[p].lay
    BY <1>2 DEF Mine, Seen
  <2>2. info[i] = b /\ heap'[info'[i]].lay = view'[p].lay
    BY <1>1, <1>4, <2>1 DEF b
  <2> QED BY <2>1, <2>2 DEF Seen, NoView, NoSlot, Making, InDelUser
<1>10. \A q \in Procs : Mine(q)'
  BY <1>7, <1>8, <1>9, OthersKept DEF Mine
<1>11. SlotsConsistent'
  <2>1. \A x \in Blocks : heap'[x] # Freed => heap[x] # Freed
    BY <1>3, <1>4
  <2> QED BY <1>2, <2>1 DEF SlotsConsistent
<1>12. PosOpen'
  <2>1. pc[p] = "store_y" => loc[p].blk = b
    BY DEF Target, HeldInRegister, b
  <2> QED BY <1>2, <1>4, <2>1, PosKept DEF b
<1> QED BY <1>2, <1>10, <1>11, <1>12 DEF Isolated, Shared, NoFault

LEMMA ResetStep ==
    ASSUME TypeOK, Isolated, NEW p \in Procs, Reset(p) PROVE Isolated'
<1> DEFINE b == Target(p)
           m == [heap[b] EXCEPT !.pos = heap[b].lay.start]
<1>1. pc \in [Procs -> Labels] /\ loc \in [Procs -> Locals] /\ view \in [Procs -> MazeInfo \cup {NULL}]
  BY DEF TypeOK, ProcessTypes, HistoryTypes
<1>2. /\ UNCHANGED <<pids, info, fault>> /\ pc[p] = "RESET" /\ pc'[p] = "user"
      /\ Others(p)
  BY <1>1 DEF Reset, Uses, table, Done, Return, Goto, Others
<1>3. b \in Blocks /\ heap[b] \in MazeInfo
  BY <1>2, HoldsMaze DEF Holding
<1>4. m \in MazeInfo /\ m.lay = heap[b].lay /\ ~OnWall(m)
  <2>1. heap[b].lay \in Layouts
    BY <1>3, MazeType
  <2>2. heap[b].lay.start \in Coord /\ heap[b].lay.start \in heap[b].lay.open
    BY <2>1, LayoutType, LayoutAssumption
  <2> QED BY <1>3, <2>2, MazeType DEF MazeInfo, OnWall
<1>5. heap' = [heap EXCEPT ![b] = m]
  BY DEF Reset
<1>6. view'[p] # NULL => view[p] # NULL /\ view'[p].lay = view[p].lay
  <2>1. CASE view[p] = NULL
    BY <2>1 DEF Reset
  <2>2. CASE view[p] # NULL
    <3>1. view[p] \in MazeInfo /\ view' = [view EXCEPT ![p].pos = view[p].lay.start]
      BY <1>1, <2>2 DEF Reset
    <3> QED BY <1>1, <2>2, <3>1 DEF MazeInfo
  <2> QED BY <2>1, <2>2
<1>7. Work(p)'
  BY <1>2 DEF Work, Calm, Holding, Carrying, Storing, Making
<1> HIDE DEF m
<1> QED BY <1>2, <1>4, <1>5, <1>6, <1>7, OwnMazeStep DEF Holding

(* Half a move may stand anywhere; the whole stands on its target.            *)
LEMMA StoreXStep ==
    ASSUME TypeOK, Isolated, NEW p \in Procs, StoreX(p) PROVE Isolated'
<1> DEFINE b == Target(p)
           t == loc[p].tgt
           m == [heap[b] EXCEPT !.pos[1] = t[1]]
<1>1. pc \in [Procs -> Labels] /\ loc \in [Procs -> Locals]
  BY DEF TypeOK, ProcessTypes
<1>2. /\ UNCHANGED <<pids, info, fault, view, loc>> /\ pc[p] = "store_x"
      /\ pc'[p] = "store_y" /\ Others(p) /\ b = loc[p].blk
  BY <1>1 DEF StoreX, Uses, table, statics, history, Goto, Others, Target, HeldInRegister
<1>3. b \in Blocks /\ heap[b] \in MazeInfo
  BY <1>2, HoldsMaze DEF Holding, Carrying, Storing
<1>4. Stored(p)
  BY <1>2 DEF Isolated, Mine, Work, Carrying, Storing
<1>5. t \in Coord /\ heap[b].pos \in Coord
  BY <1>1, <1>3 DEF Locals, MazeInfo
<1>6. /\ m \in MazeInfo /\ m.lay = heap[b].lay /\ m.pos[1] = t[1]
  BY <1>3, <1>5, MazeType DEF MazeInfo, Coord
<1>7. heap' = [heap EXCEPT ![b] = m]
  BY <1>2 DEF StoreX
<1>8. Work(p)'
  <2>1. heap'[b] = m
    BY <1>3, <1>7 DEF TypeOK, GlobalTypes
  <2> HIDE DEF m, b
  <2>2. Stored(p)'
    BY <1>2, <1>4, <1>6, <2>1 DEF Stored, Storing, NoWall, Grid
  <2> QED BY <1>2, <2>2 DEF Work, Calm, Holding, Carrying, Storing, Making, Isolated, Mine
<1> HIDE DEF m
<1> QED BY <1>2, <1>6, <1>7, <1>8, OwnMazeStep DEF Holding, Carrying, Storing

LEMMA StoreYStep ==
    ASSUME TypeOK, Isolated, NEW p \in Procs, StoreY(p) PROVE Isolated'
<1> DEFINE b == Target(p)
           t == loc[p].tgt
           m == [heap[b] EXCEPT !.pos[2] = t[2]]
<1>1. pc \in [Procs -> Labels] /\ loc \in [Procs -> Locals]
  BY DEF TypeOK, ProcessTypes
<1>2. pc[p] = "store_y" /\ b = loc[p].blk /\ Stored(p)
  BY DEF StoreY, Uses, Target, HeldInRegister, Isolated, Mine, Work, Carrying, Storing
<1>3. /\ UNCHANGED <<pids, info, fault, view>> /\ pc'[p] = "user" /\ Others(p)
  <2>1. Done(p, "MOVE", "OK")
    BY <1>2 DEF StoreY, Stored
  <2> QED BY <1>1, <2>1 DEF StoreY, table, statics, history, Done, Return, Goto, Others
<1>4. b \in Blocks /\ heap[b] \in MazeInfo
  BY <1>2, HoldsMaze DEF Holding, Carrying, Storing
<1>5. /\ NoWall(heap[b], t) /\ t \in Coord /\ heap[b].pos \in Coord
      /\ heap[b].pos[1] = t[1]
  BY <1>1, <1>2, <1>4 DEF Stored, Storing, Locals, MazeInfo
<1>6. m \in MazeInfo /\ m.lay = heap[b].lay /\ m.pos = t
  BY <1>4, <1>5, MazeType DEF MazeInfo, Coord
<1>7. ~OnWall(m)
  BY <1>5, <1>6 DEF OnWall, NoWall, Grid
<1>8. heap' = [heap EXCEPT ![b] = m]
  BY <1>2 DEF StoreY
<1>9. Work(p)'
  BY <1>3 DEF Work, Calm, Holding, Carrying, Storing, Making
<1> HIDE DEF m
<1> QED BY <1>2, <1>3, <1>6, <1>7, <1>8, <1>9, OwnMazeStep DEF Holding, Carrying, Storing
-----------------------------------------------------------------------------
(* The steps under maze_mutex.                                                *)
LEMMA DelFreeStep ==
    ASSUME TypeOK, LockDiscipline, Isolated, NEW p \in Procs, DelFree(p) PROVE Isolated'
<1> DEFINE n == loc[p].idx
           b == info[n]
<1>1. pc \in [Procs -> Labels] /\ heap \in [Blocks -> MazeInfo \cup {Freed, Raw}]
      /\ info \in [Slots -> Pointer]
  BY DEF TypeOK, ProcessTypes, GlobalTypes
<1>2. /\ UNCHANGED <<pids, info, loc, view>> /\ pc[p] = "del_free"
      /\ pc'[p] = "del_clear" /\ Others(p) /\ Mine(p)
  BY <1>1 DEF DelFree, table, statics, Goto, Others, Isolated
<1>3. SlotsConsistent /\ PosOpen /\ NoFault
  BY DEF Isolated, Shared
<1>4. n \in Slots /\ pids[n] = p /\ \A i \in Slots : pids[i] = p => i = n
  BY <1>2, <1>3, PidAssumption DEF LockDiscipline, InDelUser, SlotsConsistent
<1>5. b # NULL /\ heap[b] # Freed /\ b \in Blocks
  <2>1. b # NULL /\ heap[b] # Freed
    BY <1>2, <1>4 DEF Mine, Slot
  <2> QED BY <1>1, <1>4, <2>1 DEF Pointer
<1>6. fault' = fault /\ heap' = [heap EXCEPT ![b] = Freed]
  BY <1>5 DEF DelFree
<1>7. heap'[b] = Freed /\ \A x \in Blocks \ {b} : heap'[x] = heap[x]
  BY <1>1, <1>5, <1>6
<1>8. \A i \in Slots : (info[i] = b => i = n) /\ (info[i] # NULL => info[i] \in Blocks)
  BY <1>1, <1>3, <1>4, <1>5 DEF SlotsConsistent, Pointer
<1> HIDE DEF b, n
<1>9. Footprint(p)
  <2>1. \A i \in Slots : pids[i] # p /\ info[i] # NULL => heap'[info[i]] = heap[info[i]]
    BY <1>4, <1>7, <1>8
  <2> QED BY <1>2, <2>1 DEF Footprint
<1>10. \A i \in Slots : pids'[i] = p => Slot(p, i)'
  <2> SUFFICES ASSUME NEW i \in Slots, pids[i] = p PROVE Slot(p, i)'
    BY <1>2
  <2>1. info'[i] = b /\ info'[i] # NULL /\ heap'[info'[i]] = Freed
    BY <1>2, <1>4, <1>5, <1>7 DEF b
  <2> QED BY <1>2, <2>1, ContentAssumption DEF Slot, NoSlot, Making
<1>11. Work(p)' /\ Seen(p)'
  BY <1>2 DEF Mine, Work, Seen, Calm, InDelUser, Holding, Carrying, Storing, Making, NoView
<1>12. \A q \in Procs : Mine(q)'
  BY <1>9, <1>10, <1>11, OthersKept DEF Mine
<1>13. SlotsConsistent' /\ PosOpen' /\ NoFault'
  BY <1>2, <1>3, <1>6, <1>7, PosKept DEF SlotsConsistent, NoFault
<1> QED BY <1>12, <1>13 DEF Isolated, Shared

LEMMA DelClearStep ==
    ASSUME TypeOK, LockDiscipline, Isolated, NEW p \in Procs, DelClear(p) PROVE Isolated'
<1> DEFINE n == loc[p].idx
<1>1. /\ pc \in [Procs -> Labels] /\ loc \in [Procs -> Locals]
      /\ info \in [Slots -> Pointer] /\ pids \in [Slots -> Procs \cup {NoPid}]
  BY DEF TypeOK, ProcessTypes, GlobalTypes
<1>2. /\ UNCHANGED <<heap, fault, view>> /\ pc[p] = "del_clear"
      /\ pc'[p] = "user" /\ Others(p) /\ Mine(p)
  BY <1>1 DEF DelClear, statics, history, Goto, Others, Isolated
<1>3. SlotsConsistent /\ PosOpen /\ NoFault
  BY DEF Isolated, Shared
<1>4. n \in Slots /\ pids[n] = p /\ \A i \in Slots : pids[i] = p => i = n
  BY <1>2, <1>3, PidAssumption DEF LockDiscipline, InDelUser, SlotsConsistent
<1>5. /\ pids'[n] = NoPid /\ info'[n] = NULL
      /\ \A i \in Slots \ {n} : pids'[i] = pids[i] /\ info'[i] = info[i]
  BY <1>1, <1>4 DEF DelClear
<1>6. heap[info[n]] = Freed
  BY <1>2, <1>4 DEF Mine, Slot
<1> HIDE DEF n
<1>7. Footprint(p)
  BY <1>2, <1>4, <1>5, PidAssumption DEF Footprint
<1>8. \A i \in Slots : pids'[i] # p
  BY <1>4, <1>5, PidAssumption
<1>9. Work(p)' /\ Seen(p)'
  BY <1>2 DEF Mine, Work, Seen, Calm, InDelUser, Holding, Carrying, Storing, Making, NoView
<1>10. \A q \in Procs : Mine(q)'
  BY <1>7, <1>8, <1>9, OthersKept DEF Mine
<1>11. SlotsConsistent'
  <2>1. \A i, j \in Slots : pids'[i] # NoPid /\ pids'[i] = pids'[j] => i = j
    BY <1>3, <1>5 DEF SlotsConsistent
  <2>2. \A i, j \in Slots : info'[i] # NULL /\ info'[i] = info'[j] => i = j
    BY <1>3, <1>5 DEF SlotsConsistent
  <2>3. \A i \in Slots : pids'[i] = NoPid => info'[i] = NULL
    BY <1>3, <1>5 DEF SlotsConsistent
  <2>4. \A b \in Blocks : heap'[b] # Freed => \E i \in Slots : info'[i] = b
    <3> TAKE b \in Blocks
    <3> HAVE heap'[b] # Freed
    <3>1. PICK i \in Slots : info[i] = b
      BY <1>2, <1>3 DEF SlotsConsistent
    <3>2. i # n
      BY <1>2, <1>6, <3>1
    <3> QED BY <1>5, <3>1, <3>2
  <2> QED BY <2>1, <2>2, <2>3, <2>4 DEF SlotsConsistent
<1>12. PosOpen' /\ NoFault'
  BY <1>2, <1>3, PosKept DEF NoFault
<1> QED BY <1>10, <1>11, <1>12 DEF Isolated, Shared

LEMMA ClaimSlotStep ==
    ASSUME TypeOK, LockDiscipline, Isolated, NEW p \in Procs, ClaimSlot(p) PROVE Isolated'
<1> DEFINE n == loc[p].idx
<1>1. pc \in [Procs -> Labels] /\ pids \in [Slots -> Procs \cup {NoPid}]
  BY DEF TypeOK, ProcessTypes, GlobalTypes
<1>2. /\ UNCHANGED <<heap, fault, view, loc, info>> /\ pc[p] = "claim_slot"
      /\ pc'[p] = "alloc" /\ Others(p) /\ Mine(p)
  BY <1>1 DEF ClaimSlot, statics, history, Goto, Others, Isolated
<1>3. SlotsConsistent /\ PosOpen /\ NoFault
  BY DEF Isolated, Shared
<1>4. n \in Slots /\ pids[n] = NoPid /\ info[n] = NULL
  BY <1>2, <1>3 DEF LockDiscipline, SlotsConsistent
<1>5. \A i \in Slots : pids[i] # p
  BY <1>2 DEF Mine, Slot, NoSlot
<1>6. pids'[n] = p /\ \A i \in Slots \ {n} : pids'[i] = pids[i]
  BY <1>1, <1>4 DEF ClaimSlot
<1> HIDE DEF n
<1>7. Footprint(p)
  BY <1>2, <1>4, <1>6, PidAssumption DEF Footprint
<1>8. \A i \in Slots : pids'[i] = p => Slot(p, i)'
  BY <1>2, <1>4, <1>5, <1>6 DEF Slot, NoSlot
<1>9. Work(p)'
  BY <1>2, <1>4, <1>6 DEF Work, Calm, InCreate, Holding, Carrying, Storing, Making, n
<1>10. Seen(p)'
  BY <1>2 DEF Mine, Seen, NoView, NoSlot
<1>11. \A q \in Procs : Mine(q)'
  BY <1>7, <1>8, <1>9, <1>10, OthersKept DEF Mine
<1>12. SlotsConsistent'
  <2>1. \A i, j \in Slots : pids'[i] # NoPid /\ pids'[i] = pids'[j] => i = j
    BY <1>3, <1>5, <1>6 DEF SlotsConsistent
  <2>2. \A i \in Slots : pids'[i] = NoPid => info'[i] = NULL
    BY <1>2, <1>3, <1>4, <1>6, PidAssumption DEF SlotsConsistent
  <2> QED BY <1>2, <1>3, <2>1, <2>2 DEF SlotsConsistent
<1>13. PosOpen' /\ NoFault'
  BY <1>2, <1>3, PosKept DEF NoFault
<1> QED BY <1>11, <1>12, <1>13 DEF Isolated, Shared

(* kmalloc finds a block: each block in use hangs in a slot of its own, and   *)
(* the slot just claimed has none.                                            *)
LEMMA BlockLeft ==
    ASSUME SlotsConsistent, NEW n \in Slots, info[n] = NULL,
           IsFiniteSet(Blocks), Cardinality(Blocks) >= MAXUSER
    PROVE  \E b \in Blocks : heap[b] = Freed
<1> SUFFICES ASSUME \A b \in Blocks : heap[b] # Freed PROVE FALSE
  OBVIOUS
<1> DEFINE at == [b \in Blocks |-> CHOOSE i \in Slots : info[i] = b]
<1>1. \A b \in Blocks : at[b] \in Slots /\ info[at[b]] = b
  BY DEF SlotsConsistent
<1>2. at \in [Blocks -> Slots \ {n}]
  BY <1>1, PidAssumption
<1>3. MAXUSER - 1 \in Int /\ MAXUSER \in Nat \ {0}
  BY SlotAssumption
<1>4. IsFiniteSet(Slots) /\ Cardinality(Slots) = MAXUSER
  <2>1. /\ IsFiniteSet(0 .. MAXUSER - 1)
        /\ Cardinality(0 .. MAXUSER - 1) = IF 0 > MAXUSER - 1 THEN 0 ELSE (MAXUSER - 1) - 0 + 1
    BY <1>3, FS_Interval
  <2> QED BY <1>3, <2>1 DEF Slots
<1>5. IsFiniteSet(Slots \ {n}) /\ Cardinality(Slots \ {n}) = MAXUSER - 1
  BY <1>4, FS_RemoveElement
<1>6. Cardinality(Blocks) \in Nat
  BY FS_CardinalityType
<1>7. Cardinality(Slots \ {n}) < Cardinality(Blocks)
  BY <1>3, <1>5, <1>6
<1> HIDE DEF at
<1>8. \E b, c \in Blocks : b # c /\ at[b] = at[c]
  BY <1>2, <1>5, <1>7, FS_PigeonHole
<1> QED BY <1>1, <1>8

LEMMA AllocStep ==
    ASSUME TypeOK, LockDiscipline, Isolated, NEW p \in Procs, Alloc(p),
           IsFiniteSet(Blocks), Cardinality(Blocks) >= MAXUSER
    PROVE  Isolated'
<1> DEFINE n == loc[p].idx
<1>1. /\ pc \in [Procs -> Labels] /\ loc \in [Procs -> Locals]
      /\ info \in [Slots -> Pointer] /\ heap \in [Blocks -> MazeInfo \cup {Freed, Raw}]
      /\ pids \in [Slots -> Procs \cup {NoPid}]
  BY DEF TypeOK, ProcessTypes, GlobalTypes
<1>2. UNCHANGED <<pids, view>> /\ pc[p] = "alloc" /\ Mine(p)
  BY DEF Alloc, statics, Isolated
<1>3. SlotsConsistent /\ PosOpen /\ NoFault
  BY DEF Isolated, Shared
<1>4. /\ n \in Slots /\ pids[n] = p /\ info[n] = NULL
      /\ \A i \in Slots : pids[i] = p => i = n
  <2>1. n \in Slots /\ pids[n] = p
    BY <1>2 DEF Mine, Work
  <2> QED BY <1>2, <1>3, <2>1, PidAssumption DEF Mine, Slot, SlotsConsistent
<1>5. PICK b \in Blocks :
         /\ heap[b] = Freed /\ heap' = [heap EXCEPT ![b] = Raw]
         /\ info' = [info EXCEPT ![n] = b] /\ loc' = [loc EXCEPT ![p].blk = b]
         /\ Goto(p, "generate") /\ UNCHANGED fault
  BY <1>3, <1>4, BlockLeft DEF Alloc
<1>6. /\ pc'[p] = "generate" /\ loc'[p].blk = b /\ loc'[p].idx = n /\ Others(p)
  BY <1>1, <1>2, <1>5 DEF Goto, Others, Locals
<1>7. /\ info'[n] = b /\ \A i \in Slots \ {n} : info'[i] = info[i]
      /\ heap'[b] = Raw /\ \A x \in Blocks \ {b} : heap'[x] = heap[x]
      /\ b # NULL
  BY <1>1, <1>4, <1>5, PidAssumption
<1>8. \A i \in Slots : info[i] # b
  <2> SUFFICES ASSUME NEW i \in Slots, info[i] = b PROVE FALSE
    OBVIOUS
  <2>1. pids[i] # NoPid /\ pids[i] \in Procs
    BY <1>1, <1>3, <1>7 DEF SlotsConsistent
  <2>2. Slot(pids[i], i)
    BY <2>1 DEF Isolated, Mine
  <2>3. pc[pids[i]] = "del_clear"
    BY <1>5, <1>7, <2>2 DEF Slot
  <2>4. mutex = pids[i] /\ mutex = p
    BY <1>2, <2>1, <2>3 DEF LockDiscipline, InCreate, InDelUser
  <2> QED BY <1>2, <2>3, <2>4
<1> HIDE DEF n
<1>9. Footprint(p)
  <2>1. \A i \in Slots : info[i] # NULL => heap'[info[i]] = heap[info[i]]
    BY <1>1, <1>7, <1>8 DEF Pointer
  <2> QED BY <1>2, <1>4, <1>6, <1>7, <2>1, PidAssumption DEF Footprint
<1>10. \A i \in Slots : pids'[i] = p => Slot(p, i)'
  BY <1>2, <1>4, <1>6, <1>7, ContentAssumption DEF Slot, NoSlot, Making
<1>11. Work(p)'
  BY <1>2, <1>4, <1>6, <1>7 DEF Work, Calm, InCreate, Holding, Carrying, Storing, Making
<1>12. Seen(p)'
  BY <1>2 DEF Mine, Seen, NoView, NoSlot
<1>13. \A q \in Procs : Mine(q)'
  BY <1>9, <1>10, <1>11, <1>12, OthersKept DEF Mine
<1>14. SlotsConsistent'
  <2>1. \A i, j \in Slots : info'[i] # NULL /\ info'[i] = info'[j] => i = j
    BY <1>3, <1>7, <1>8 DEF SlotsConsistent
  <2>2. \A i \in Slots : pids'[i] = NoPid => info'[i] = NULL
    BY <1>2, <1>3, <1>4, <1>7, PidAssumption DEF SlotsConsistent
  <2>3. \A x \in Blocks : heap'[x] # Freed => \E i \in Slots : info'[i] = x
    <3> TAKE x \in Blocks
    <3> HAVE heap'[x] # Freed
    <3>1. CASE x = b
      BY <1>4, <1>7, <3>1
    <3>2. CASE x # b
      <4>1. PICK i \in Slots : info[i] = x
        BY <1>3, <1>7, <3>2 DEF SlotsConsistent
      <4>2. i # n
        BY <1>4, <4>1, PidAssumption
      <4> QED BY <1>7, <4>1, <4>2
    <3> QED BY <3>1, <3>2
  <2> QED BY <1>2, <1>3, <2>1, <2>2, <2>3 DEF SlotsConsistent
<1>15. PosOpen' /\ NoFault'
  BY <1>2, <1>3, <1>5, <1>6, <1>7, PosKept DEF NoFault
<1> QED BY <1>13, <1>14, <1>15 DEF Isolated, Shared

(* generate_maze fills the block of its own slot, and the caller's maze.      *)
LEMMA StoreMazeStep ==
    ASSUME TypeOK, MazeBuilt, LockDiscipline, Isolated, NEW p \in Procs, StoreMaze(p)
    PROVE  Isolated'
<1> DEFINE n == loc[p].idx
           b == loc[p].blk
           m == [lay |-> gmaze, pos |-> gmaze.start]
<1>1. /\ pc \in [Procs -> Labels] /\ loc \in [Procs -> Locals]
      /\ info \in [Slots -> Pointer] /\ heap \in [Blocks -> MazeInfo \cup {Freed, Raw}]
      /\ view \in [Procs -> MazeInfo \cup {NULL}]
  BY DEF TypeOK, ProcessTypes, GlobalTypes, HistoryTypes
<1>2. /\ UNCHANGED <<pids, info>> /\ pc[p] = "store_maze" /\ Mine(p)
  BY DEF StoreMaze, statics, table, Isolated
<1>3. SlotsConsistent /\ PosOpen /\ NoFault
  BY DEF Isolated, Shared
<1>4. /\ n \in Slots /\ pids[n] = p /\ info[n] = b
      /\ \A i \in Slots : pids[i] = p => i = n
  <2>1. n \in Slots /\ pids[n] = p /\ info[n] = b
    BY <1>2 DEF Mine, Work, Making
  <2> QED BY <1>3, <2>1, PidAssumption DEF SlotsConsistent
<1>5. b \in Blocks /\ b # NULL /\ heap[b] # Freed
  BY <1>1, <1>2, <1>4 DEF Mine, Slot, Pointer
<1>6. m \in MazeInfo /\ m.pos \in m.lay.open /\ m \notin {Freed, Raw} /\ m # NULL
  <2>1. gmaze \in Layouts
    BY <1>2 DEF MazeBuilt, TypeOK, StaticTypes
  <2>2. gmaze.start \in gmaze.open /\ m \in MazeInfo
    BY <2>1, LayoutType, LayoutAssumption
  <2> QED BY <2>2, ContentAssumption
<1>7. loc[p].cmd = "CREATE"
  BY <1>2 DEF LockDiscipline, InCreate
<1>8. fault' = fault /\ heap' = [heap EXCEPT ![b] = m] /\ view' = [view EXCEPT ![p] = m]
  BY <1>5, <1>7 DEF StoreMaze
<1>9. /\ heap'[b] = m /\ \A x \in Blocks \ {b} : heap'[x] = heap[x]
      /\ view'[p] = m /\ m.lay = m.lay
  BY <1>1, <1>5, <1>8
<1>10. pc'[p] = "user" /\ Others(p)
  BY <1>1, <1>8 DEF StoreMaze, Done, Return, Goto, Others
<1>11. \A i \in Slots : (info[i] = b => i = n) /\ (info[i] # NULL => info[i] \in Blocks)
  BY <1>1, <1>3, <1>4, <1>5 DEF SlotsConsistent, Pointer
<1> HIDE DEF b, n, m
<1>12. Footprint(p)
  <2>1. \A i \in Slots : pids[i] # p /\ info[i] # NULL => heap'[info[i]] = heap[info[i]]
    BY <1>4, <1>9, <1>11
  <2> QED BY <1>2, <1>10, <2>1 DEF Footprint
<1>13. \A i \in Slots : pids'[i] = p => Slot(p, i)'
  <2> SUFFICES ASSUME NEW i \in Slots, pids[i] = p PROVE Slot(p, i)'
    BY <1>2
  <2>1. info'[i] = b /\ info'[i] # NULL /\ heap'[info'[i]] = m
    BY <1>2, <1>4, <1>5, <1>9
  <2> QED BY <1>6, <1>10, <2>1 DEF Slot, NoSlot, Making
<1>14. Work(p)'
  BY <1>10 DEF Work, Calm, Holding, Carrying, Storing, Making
<1>15. Seen(p)'
  <2>1. pids'[n] = p /\ heap'[info'[n]].lay = view'[p].lay
    BY <1>2, <1>4, <1>9
  <2> QED BY <1>4, <1>10, <2>1 DEF Seen, NoView, NoSlot, Making, InDelUser
<1>16. \A q \in Procs : Mine(q)'
  BY <1>12, <1>13, <1>14, <1>15, OthersKept DEF Mine
<1>17. SlotsConsistent'
  <2>1. \A x \in Blocks : heap'[x] # Freed => heap[x] # Freed
    BY <1>5, <1>9
  <2> QED BY <1>2, <1>3, <2>1 DEF SlotsConsistent
<1>18. PosOpen' /\ NoFault'
  BY <1>2, <1>3, <1>6, <1>8, <1>9, <1>10, PosKept DEF NoFault, OnWall
<1> QED BY <1>16, <1>17, <1>18 DEF Isolated, Shared

(* No step uses unsound memory, and none belongs to another request.          *)
LEMMA NoOops ==
    ASSUME TypeOK, Isolated, NEW p \in Procs, Oops(p) PROVE FALSE
<1>1. pc[p] \in Calm
  BY DEF Isolated, Mine, Work
<1>2. pc[p] \in Holding
  BY <1>1 DEF Oops, UseLabels, IoctlUse, HeldInRegister, Calm, InCreate, InDelUser, Holding, Carrying, Storing
<1> QED BY <1>2, HoldsMaze DEF Oops

LEMMA NoOther ==
    ASSUME Isolated, Commands \subseteq Ioctls, NEW p \in Procs,
           \/ Q3(p) \/ Read(p) \/ Write(p) \/ ProcRead(p)
           \/ Destroy(p) \/ DestroyNull(p) \/ ReadFill(p) \/ ReadRet(p)
           \/ WriteCopy(p) \/ WriteLoad(p) \/ WriteStep(p)
           \/ ProcQ3(p) \/ ProcLoop(p) \/ ProcShow(p)
    PROVE  FALSE
<1>1. ~ (Q3(p) \/ Read(p) \/ Write(p) \/ ProcRead(p))
  BY DEF Q3, Read, Write, ProcRead, Request, Ioctls
<1>2. pc[p] \in Calm
  BY DEF Isolated, Mine, Work
<1>3. pc[p] \in {"DESTROY", "destroy_null", "read_fill", "read_ret", "write_copy",
                 "write_load", "write_step", "proc_q3", "proc_loop", "proc_show"}
  BY <1>1 DEF Destroy, DestroyNull, ReadFill, ReadRet, WriteCopy, WriteLoad, WriteStep,
              ProcQ3, ProcLoop, ProcShow, Uses
<1> QED BY <1>2, <1>3 DEF Calm, InCreate, InDelUser, Holding, Carrying, Storing

LEMMA IsolatedStep ==
    ASSUME Commands \subseteq Ioctls, IsFiniteSet(Blocks), Cardinality(Blocks) >= MAXUSER,
           TypeOK, MazeBuilt, LockDiscipline, Isolated, [Next]_vars
    PROVE  Isolated'
<1>1. CASE UNCHANGED vars
  <2>1. UNCHANGED <<pids, info, heap, pc, loc, view, fault>>
    BY <1>1 DEF vars, globals, statics, self, history
  <2>2. Shared'
    BY <2>1 DEF Isolated, Shared, SlotsConsistent, PosOpen, OnWall, Grid, NoFault
  <2>3. \A p \in Procs : Mine(p)'
    <3> TAKE p \in Procs
    <3>1. Mine(p)
      BY DEF Isolated
    <3> QED BY <2>1, <3>1 DEF Mine, Work, Seen, Slot, Stored, NoWall, Grid
  <2> QED BY <2>2, <2>3 DEF Isolated
<1>2. ASSUME NEW p \in Procs, Call(p) PROVE Isolated'
  BY <1>2, OpenCloseStep, CreateStep, RequestStep, NoOther DEF Call
<1>3. ASSUME NEW p \in Procs, Handler(p) PROVE Isolated'
  <2>1. CASE DelLock(p) \/ DelFree(p) \/ DelClear(p) \/ CreateLock(p) \/ CreateCheck(p)
             \/ FindSlot(p) \/ ClaimSlot(p) \/ Alloc(p) \/ Generate(p) \/ StoreMaze(p)
    BY <2>1, LockingStep, DelFreeStep, DelClearStep, CreateCheckStep, FindSlotStep,
       ClaimSlotStep, AllocStep, GenerateStep, StoreMazeStep
  <2>2. CASE Reset(p) \/ (\E c \in GetRequests : Get(p, c)) \/ GetCopy(p)
             \/ MoveCopy(p) \/ MoveUse(p) \/ MoveTest(p) \/ StoreX(p) \/ StoreY(p)
    BY <2>2, ResetStep, GetStep, MoveCopyStep, MoveUseStep, MoveTestStep, StoreXStep, StoreYStep
  <2>3. CASE Destroy(p) \/ DestroyNull(p) \/ ReadFill(p) \/ ReadRet(p) \/ WriteCopy(p)
             \/ WriteLoad(p) \/ WriteStep(p) \/ ProcQ3(p) \/ ProcLoop(p) \/ ProcShow(p)
    BY <2>3, NoOther
  <2>4. CASE Oops(p)
    BY <2>4, NoOops
  <2> QED BY <1>3, <2>1, <2>2, <2>3, <2>4 DEF Handler
<1> QED BY <1>1, <1>2, <1>3 DEF Next

LEMMA IsolatedInit == Init => Isolated
<1> SUFFICES ASSUME Init PROVE Isolated
  OBVIOUS
<1>1. Shared
  BY PidAssumption DEF Init, Shared, SlotsConsistent, PosOpen, NoFault
<1>2. ASSUME NEW p \in Procs PROVE Mine(p)
  BY PidAssumption DEF Init, Mine, Work, Seen, Calm, Holding, Carrying, Storing, Making
<1> QED BY <1>1, <1>2 DEF Isolated

LEMMA Isolation ==
    ASSUME Commands \subseteq Ioctls, IsFiniteSet(Blocks), Cardinality(Blocks) >= MAXUSER
    PROVE  Spec => [](TypeOK /\ LockDiscipline /\ Isolated)
<1>1. "Q3" \notin Commands
  BY DEF Ioctls
<1>2. Init => TypeOK /\ MazeBuilt /\ LockDiscipline /\ Isolated
  BY TypeInit, LockInit, IsolatedInit DEF Init, MazeBuilt
<1>3. TypeOK /\ MazeBuilt /\ LockDiscipline /\ Isolated /\ [Next]_vars
        => (TypeOK /\ MazeBuilt /\ LockDiscipline /\ Isolated)'
  BY <1>1, TypeStep, BuiltStep, LockStep, IsolatedStep
<1> QED BY <1>2, <1>3, PTL DEF Spec
-----------------------------------------------------------------------------
(* A slot belongs to one process and a block to one slot, and no block is     *)
(* lost, through claim, kmalloc, kfree and clearing of any number of          *)
(* processes.                                                                 *)
THEOREM SlotsStayConsistent ==
    ASSUME Commands \subseteq Ioctls, IsFiniteSet(Blocks), Cardinality(Blocks) >= MAXUSER
    PROVE  Spec => []SlotsConsistent
<1>1. TypeOK /\ Isolated => SlotsConsistent
  BY DEF Isolated, Shared
<1> QED BY <1>1, Isolation, PTL

(* have_maze of one step still answers for the use in the next: no handler    *)
(* touches a null, freed or unwritten block, whatever its caller asks for;    *)
(* at most the byte a move is tested against lies outside blk.                *)
THEOREM NothingFaults ==
    ASSUME Commands \subseteq Ioctls, IsFiniteSet(Blocks), Cardinality(Blocks) >= MAXUSER
    PROVE  Spec => []NoFault
<1>1. TypeOK /\ Isolated => NoFault
  BY DEF Isolated, Shared
<1> QED BY <1>1, Isolation, PTL

(* A position at rest is no wall of its maze, whatever moves are asked for,   *)
(* and although coord_move is a static another MAZE_MOVE may overwrite.       *)
THEOREM PositionsOpen ==
    ASSUME Commands \subseteq Ioctls, IsFiniteSet(Blocks), Cardinality(Blocks) >= MAXUSER
    PROVE  Spec => []PosOpen
<1>1. TypeOK /\ Isolated => PosOpen
  BY DEF Isolated, Shared
<1> QED BY <1>1, Isolation, PTL

(* The maze a process created is the one it goes on to use.                   *)
THEOREM MazesStay ==
    ASSUME Commands \subseteq Ioctls, IsFiniteSet(Blocks), Cardinality(Blocks) >= MAXUSER
    PROVE  Spec => []MazeStaysMine
<1>1. TypeOK /\ Isolated => MazeStaysMine
  <2> SUFFICES ASSUME TypeOK, Isolated, NEW p \in Procs, view[p] # NULL
               PROVE  /\ HaveMaze(p)
                      /\ heap[info[UserIndex(p)]] \notin {Freed, Raw}
                      /\ heap[info[UserIndex(p)]].lay = view[p].lay
    BY DEF MazeStaysMine
  <2>1. Mine(p) /\ pc[p] \notin NoView
    BY DEF Isolated, Mine, Seen
  <2>2. PICK i \in Slots : pids[i] = p /\ heap[info[i]].lay = view[p].lay
    BY <2>1 DEF Mine, Seen
  <2>3. UserIndex(p) # -1
    BY <2>2, FirstIndexType DEF UserIndex
  <2>4. UserIndex(p) = i
    BY <2>2, <2>3, LookupType, PidAssumption DEF Isolated, Shared, SlotsConsistent
  <2>5. info[i] # NULL /\ heap[info[i]] \notin {Freed, Raw}
    BY <2>1, <2>2 DEF Mine, Slot, NoView, Making, InDelUser
  <2> QED BY <2>2, <2>3, <2>4, <2>5 DEF HaveMaze
<1> QED BY <1>1, Isolation, PTL
-----------------------------------------------------------------------------
(* The refinement.  What a step shows of the lending: the table, and whether  *)
(* its process waits for a slot or goes.                                      *)
Bystanding(p) == \A q \in Procs \ {p} : pc'[q] = pc[q]

LEMMA GotoBystands ==
    ASSUME TypeOK, NEW p \in Procs, NEW l, Goto(p, l)
    PROVE  pc'[p] = l /\ Bystanding(p)
  BY DEF Goto, Bystanding, TypeOK, ProcessTypes

LEMMA Standing ==
    ASSUME NEW p \in Procs, Bystanding(p), pids' = pids,
           pc[p] \in AskLabels <=> pc'[p] \in AskLabels,
           pc[p] \in LeaveLabels <=> pc'[p] \in LeaveLabels
    PROVE  UNCHANGED Lending!lending
<1>1. {q \in Procs : pc'[q] \in AskLabels} = {q \in Procs : pc[q] \in AskLabels}
  BY DEF Bystanding
<1>2. {q \in Procs : pc'[q] \in LeaveLabels} = {q \in Procs : pc[q] \in LeaveLabels}
  BY DEF Bystanding
<1> QED BY <1>1, <1>2 DEF Lending!lending

(* A MAZE_CREATE begins to wait, or is sent away.                             *)
LEMMA AskStep ==
    ASSUME NEW p \in Procs, Bystanding(p), pids' = pids,
           pc[p] = "user", pc'[p] = "create_lock"
    PROVE  Lending!Ask(p)
<1>1. {q \in Procs : pc'[q] \in AskLabels} = {q \in Procs : pc[q] \in AskLabels} \cup {p}
  BY DEF Bystanding, AskLabels
<1>2. {q \in Procs : pc'[q] \in LeaveLabels} = {q \in Procs : pc[q] \in LeaveLabels}
  BY DEF Bystanding, LeaveLabels
<1> QED BY <1>1, <1>2 DEF Lending!Ask, AskLabels, LeaveLabels

LEMMA SendAwayStep ==
    ASSUME NEW p \in Procs, Bystanding(p), pids' = pids,
           pc[p] \in AskLabels, pc'[p] = "user"
    PROVE  Lending!SendAway(p)
<1>1. {q \in Procs : pc'[q] \in AskLabels} = {q \in Procs : pc[q] \in AskLabels} \ {p}
  BY DEF Bystanding, AskLabels
<1>2. {q \in Procs : pc'[q] \in LeaveLabels} = {q \in Procs : pc[q] \in LeaveLabels}
  BY DEF Bystanding, LeaveLabels, AskLabels
<1> QED BY <1>1, <1>2 DEF Lending!SendAway

(* The claim is of a free slot, by a process that has none.                   *)
LEMMA LendStep ==
    ASSUME TypeOK, LockDiscipline, Isolated, NEW p \in Procs, ClaimSlot(p)
    PROVE  Lending!LendNext
<1>1. pc[p] = "claim_slot" /\ Goto(p, "alloc") /\ pids' = [pids EXCEPT ![loc[p].idx] = p]
  BY DEF ClaimSlot
<1>2. loc[p].idx \in Slots /\ pids[loc[p].idx] = NoPid
  BY <1>1 DEF LockDiscipline
<1>3. \A i \in Slots : pids[i] # p
  BY <1>1 DEF Isolated, Mine, Slot, NoSlot
<1>4. pc'[p] = "alloc" /\ Bystanding(p)
  BY <1>1, GotoBystands
<1>5. {q \in Procs : pc'[q] \in AskLabels} = {q \in Procs : pc[q] \in AskLabels} \ {p}
  BY <1>4 DEF Bystanding, AskLabels
<1>6. {q \in Procs : pc'[q] \in LeaveLabels} = {q \in Procs : pc[q] \in LeaveLabels}
  BY <1>1, <1>4 DEF Bystanding, LeaveLabels
<1>7. PICK s \in Slots : s = loc[p].idx
  BY <1>2
<1>8. Lending!Lend(p, s)
  BY <1>1, <1>2, <1>3, <1>5, <1>6, <1>7 DEF Lending!Lend, Lending!Free, Lending!Holds, AskLabels
<1> QED BY <1>8 DEF Lending!LendNext

LEMMA LeaveStep ==
    ASSUME TypeOK, NEW p \in Procs, Close(p)
    PROVE  [Lending!LendNext]_(Lending!lending)
<1>1. /\ pids' = pids /\ pc[p] \in {"user", "oops"}
      /\ \/ Goto(p, "user")
         \/ Goto(p, "del_lock") /\ UserIndex(p) # -1
  BY DEF Close, table
<1>2. CASE Goto(p, "user")
  <2>1. pc'[p] = "user" /\ Bystanding(p)
    BY <1>2, GotoBystands
  <2> QED BY <1>1, <2>1, Standing DEF AskLabels, LeaveLabels
<1>3. CASE Goto(p, "del_lock") /\ UserIndex(p) # -1
  <2>1. pc'[p] = "del_lock" /\ Bystanding(p)
    BY <1>3, GotoBystands
  <2>2. UserIndex(p) \in Slots /\ pids[UserIndex(p)] = p
    BY <1>3, LookupType
  <2>3. {q \in Procs : pc'[q] \in AskLabels} = {q \in Procs : pc[q] \in AskLabels}
    BY <1>1, <2>1 DEF Bystanding, AskLabels
  <2>4. {q \in Procs : pc'[q] \in LeaveLabels} = {q \in Procs : pc[q] \in LeaveLabels} \cup {p}
    BY <2>1 DEF Bystanding, LeaveLabels
  <2>5. Lending!Leave(p)
    BY <1>1, <2>2, <2>3, <2>4 DEF Lending!Leave, Lending!Holds, AskLabels, LeaveLabels
  <2> QED BY <2>5 DEF Lending!LendNext
<1> QED BY <1>1, <1>2, <1>3

(* The clearing is of a slot of the process that closes.                      *)
LEMMA GiveBackStep ==
    ASSUME TypeOK, LockDiscipline, NEW p \in Procs, DelClear(p)
    PROVE  Lending!LendNext
<1>1. pc[p] = "del_clear" /\ Goto(p, "user") /\ pids' = [pids EXCEPT ![loc[p].idx] = NoPid]
  BY DEF DelClear
<1>2. loc[p].idx \in Slots /\ pids[loc[p].idx] = p
  BY <1>1 DEF LockDiscipline, InDelUser
<1>3. pc'[p] = "user" /\ Bystanding(p)
  BY <1>1, GotoBystands
<1>4. {q \in Procs : pc'[q] \in AskLabels} = {q \in Procs : pc[q] \in AskLabels}
  BY <1>1, <1>3 DEF Bystanding, AskLabels
<1>5. {q \in Procs : pc'[q] \in LeaveLabels} = {q \in Procs : pc[q] \in LeaveLabels} \ {p}
  BY <1>3 DEF Bystanding, LeaveLabels
<1>6. PICK s \in Slots : s = loc[p].idx
  BY <1>2
<1>7. Lending!GiveBack(p, s)
  BY <1>1, <1>2, <1>4, <1>5, <1>6 DEF Lending!GiveBack, Lending!Holds, LeaveLabels
<1> QED BY <1>7 DEF Lending!LendNext

LEMMA CreateLends ==
    ASSUME TypeOK, NEW p \in Procs,
           Create(p) \/ CreateLock(p) \/ CreateCheck(p) \/ FindSlot(p)
    PROVE  [Lending!LendNext]_(Lending!lending)
<1>1. /\ pids' = pids
      /\ \E l \in {"user", "create_lock", "create_check", "find_slot", "claim_slot"} :
            /\ Goto(p, l)
            /\ \/ pc[p] = "user" /\ l \in {"user", "create_lock"}
               \/ pc[p] = "create_lock" /\ l = "create_check"
               \/ pc[p] \in {"create_check", "find_slot"}
                     /\ l \in {"user", "find_slot", "claim_slot"}
  BY DEF Create, CreateLock, CreateCheck, FindSlot, Lock, Request, Enter, Done, Return,
         globals, table
<1>2. /\ Bystanding(p)
      /\ \/ pc[p] = "user" /\ pc'[p] \in {"user", "create_lock"}
         \/ pc[p] = "create_lock" /\ pc'[p] = "create_check"
         \/ pc[p] \in {"create_check", "find_slot"}
               /\ pc'[p] \in {"user", "find_slot", "claim_slot"}
  BY <1>1, GotoBystands
<1>3. CASE pc[p] = "user" /\ pc'[p] = "create_lock"
  BY <1>1, <1>2, <1>3, AskStep DEF Lending!LendNext
<1>4. CASE pc[p] \in AskLabels /\ pc'[p] = "user"
  BY <1>1, <1>2, <1>4, SendAwayStep DEF Lending!LendNext
<1>5. CASE \/ pc[p] = "user" /\ pc'[p] = "user"
           \/ pc[p] \in AskLabels /\ pc'[p] \in AskLabels
  BY <1>1, <1>2, <1>5, Standing DEF AskLabels, LeaveLabels
<1> QED BY <1>2, <1>3, <1>4, <1>5 DEF AskLabels

(* The steps the lending does not see.                                        *)
LEMMA DelLends ==
    ASSUME TypeOK, NEW p \in Procs, DelLock(p) \/ DelFree(p)
    PROVE  UNCHANGED Lending!lending
<1>1. /\ pids' = pids /\ pc[p] \in LeaveLabels
      /\ \E l \in {"del_free", "del_clear"} : Goto(p, l)
  BY DEF DelLock, DelFree, Lock, table, LeaveLabels
<1>2. Bystanding(p) /\ pc'[p] \in {"del_free", "del_clear"}
  BY <1>1, GotoBystands
<1> QED BY <1>1, <1>2, Standing DEF AskLabels, LeaveLabels

LEMMA RestLends ==
    ASSUME TypeOK, NEW p \in Procs,
           \/ Open(p) \/ \E c \in MazeRequests : MazeRequest(p, c)
           \/ Alloc(p) \/ Generate(p) \/ StoreMaze(p) \/ Reset(p)
           \/ (\E c \in GetRequests : Get(p, c)) \/ GetCopy(p)
           \/ MoveCopy(p) \/ MoveUse(p) \/ MoveTest(p) \/ StoreX(p) \/ StoreY(p)
    PROVE  UNCHANGED Lending!lending
<1> DEFINE Away == Labels \ (AskLabels \cup LeaveLabels)
<1>1. CASE Open(p)
  <2>1. pids' = pids /\ pc' = pc
    BY <1>1 DEF Open, globals
  <2> QED BY <2>1, Standing DEF Bystanding
<1>2. ASSUME pids' = pids, pc[p] \in Away, \E l \in Away : Goto(p, l)
      PROVE  UNCHANGED Lending!lending
  <2>1. Bystanding(p) /\ pc'[p] \in Away
    BY <1>2, GotoBystands
  <2> QED BY <1>2, <2>1, Standing
<1>3. ASSUME NEW c \in MazeRequests, MazeRequest(p, c) PROVE UNCHANGED Lending!lending
  <2>1. pids' = pids /\ pc[p] \in Away /\ \E l \in Away : Goto(p, l)
    BY <1>3 DEF MazeRequest, Request, Enter, Done, Return, globals, MazeRequests, Labels,
                AskLabels, LeaveLabels
  <2> QED BY <1>2, <2>1
<1>4. CASE Alloc(p) \/ Generate(p) \/ StoreMaze(p)
  <2>1. pids' = pids /\ pc[p] \in Away /\ \E l \in Away : Goto(p, l)
    BY <1>4 DEF Alloc, Generate, StoreMaze, Done, Return, globals, table, Labels, AskLabels,
                LeaveLabels
  <2> QED BY <1>2, <2>1
<1>5. CASE Reset(p) \/ (\E c \in GetRequests : Get(p, c)) \/ GetCopy(p) \/ MoveCopy(p)
  <2>1. pids' = pids /\ pc[p] \in Away /\ \E l \in Away : Goto(p, l)
    BY <1>5 DEF Reset, Get, GetCopy, MoveCopy, Uses, Done, Return, globals, table,
                GetRequests, Labels, AskLabels, LeaveLabels
  <2> QED BY <1>2, <2>1
<1>6. CASE MoveUse(p) \/ MoveTest(p) \/ StoreX(p) \/ StoreY(p)
  <2>1. pids' = pids /\ pc[p] \in Away /\ \E l \in Away : Goto(p, l)
    BY <1>6 DEF MoveUse, MoveTest, StoreX, StoreY, Uses, Done, Return, globals, table,
                Labels, AskLabels, LeaveLabels
  <2> QED BY <1>2, <2>1
<1> QED BY <1>1, <1>3, <1>4, <1>5, <1>6

LEMMA LendingStep ==
    ASSUME Commands \subseteq Ioctls, TypeOK, LockDiscipline, Isolated, [Next]_vars
    PROVE  [Lending!LendNext]_(Lending!lending)
<1>1. CASE UNCHANGED vars
  BY <1>1 DEF vars, globals, self, Lending!lending
<1>2. ASSUME NEW p \in Procs, Call(p) PROVE [Lending!LendNext]_(Lending!lending)
  BY <1>2, RestLends, LeaveStep, CreateLends, NoOther DEF Call
<1>3. ASSUME NEW p \in Procs, Handler(p) PROVE [Lending!LendNext]_(Lending!lending)
  <2>1. CASE DelLock(p) \/ DelFree(p) \/ DelClear(p) \/ CreateLock(p) \/ CreateCheck(p)
             \/ FindSlot(p) \/ ClaimSlot(p)
    BY <2>1, DelLends, GiveBackStep, CreateLends, LendStep
  <2>2. CASE \/ Alloc(p) \/ Generate(p) \/ StoreMaze(p) \/ Reset(p)
             \/ (\E c \in GetRequests : Get(p, c)) \/ GetCopy(p)
             \/ MoveCopy(p) \/ MoveUse(p) \/ MoveTest(p) \/ StoreX(p) \/ StoreY(p)
    BY <2>2, RestLends
  <2>3. CASE Destroy(p) \/ DestroyNull(p) \/ ReadFill(p) \/ ReadRet(p) \/ WriteCopy(p)
             \/ WriteLoad(p) \/ WriteStep(p) \/ ProcQ3(p) \/ ProcLoop(p) \/ ProcShow(p)
    BY <2>3, NoOther
  <2>4. CASE Oops(p)
    BY <2>4, NoOops
  <2> QED BY <1>3, <2>1, <2>2, <2>3, <2>4 DEF Handler
<1> QED BY <1>1, <1>2, <1>3 DEF Next

(* With memory for every slot, and without MAZE_DESTROY and ONLY_FOR_Q3, the  *)
(* device lends as SlotLending says: a slot goes in one step, when it is      *)
(* free, to a process that waits in MAZE_CREATE and has none, and becomes     *)
(* free only by a close of the process that has it.                           *)
THEOREM DeviceLends ==
    ASSUME Commands \subseteq Ioctls, IsFiniteSet(Blocks), Cardinality(Blocks) >= MAXUSER
    PROVE  Spec => LendsSlots
<1>1. Init => Lending!LendInit
  BY DEF Init, Lending!LendInit, AskLabels, LeaveLabels
<1>2. TypeOK /\ LockDiscipline /\ Isolated /\ [Next]_vars
        => [Lending!LendNext]_(Lending!lending)
  BY LendingStep
<1> QED BY <1>1, <1>2, Isolation, PTL DEF Spec, LendsSlots, Lending!LendSpec
-----------------------------------------------------------------------------
(* One process alone, p.                                                      *)

(* Labels at which the process has a maze, and at which its slot is given     *)
(* back.                                                                      *)
WithMaze == {"RESET", "DESTROY", "GETSIZE", "GETPOS", "GETSTART", "GETEND", "MOVE",
             "move_use", "move_test", "read_fill", "read_ret", "write_copy",
             "write_load", "write_step", "store_x", "store_y"}
Leaving  == {"del_lock", "del_free", "del_clear"}
Filling  == {"alloc"} \cup Making

(* A slot's block is free only between kfree and the clearing of its pointer, *)
(* unwritten only inside generate_maze.                                       *)
Loose(p, i) == \/ pc[p] = "del_clear" /\ i = loc[p].idx
               \/ pc[p] = "destroy_null" /\ i = index
Table(p) ==
    /\ \A i \in Slots : pids[i] = NoPid => info[i] = NULL
    /\ \A i, j \in Slots : info[i] # NULL /\ info[i] = info[j] => i = j
    /\ \A i \in Slots : info[i] # NULL =>
           /\ heap[info[i]] = Freed => Loose(p, i)
           /\ heap[info[i]] = Raw => pc[p] \in Making /\ i = loc[p].idx
    /\ OnlyNullFaults

(* What the handler's registers and its static words hold, label by label.    *)
Halfway(p) ==
    /\ pc[p] = "move_test" => loc[p].tgt[2] = coord_move[2]
    /\ pc[p] = "store_y" => heap[loc[p].blk].pos[1] = loc[p].tgt[1]
Using(p) ==
    /\ pc[p] \in WithMaze => HaveMaze(p)
    /\ pc[p] \in {"read_fill", "read_ret"} => read_index = UserIndex(p)
    /\ pc[p] = "read_fill" => loc[p].size = heap[info[UserIndex(p)]].lay.size
    /\ pc[p] \in {"write_copy", "write_load"} => write_index = UserIndex(p)
    /\ pc[p] \in HeldInRegister => loc[p].blk = info[UserIndex(p)]
    /\ Halfway(p)
    /\ pc[p] = "proc_show" => proc_i \in Slots
Changing(p) ==
    /\ pc[p] = "destroy_null" => index \in Slots /\ index = UserIndex(p)
    /\ pc[p] \in Leaving => /\ loc[p].idx \in Slots /\ loc[p].idx = UserIndex(p)
                            /\ view[p] = NULL
    /\ pc[p] \in {"create_lock", "create_check"} => loc[p].cmd = "CREATE"
    /\ pc[p] \in NoSlot \cup Filling => loc[p].cmd \in {"CREATE", "Q3"}
    /\ pc[p] = "claim_slot" => loc[p].idx \in Slots /\ loc[p].idx = EmptyIndex
    /\ pc[p] \in Filling => loc[p].idx \in Slots /\ pids[loc[p].idx] = p
    /\ pc[p] = "alloc" => info[loc[p].idx] = NULL
    /\ pc[p] \in Making => info[loc[p].idx] = loc[p].blk /\ loc[p].blk # NULL

(* A process that expects a maze has slot 0, the first that get_user_index    *)
(* looks at.  Whatever hangs there is the maze it expects, its position known *)
(* until it is lost: a later MAZE_CREATE or ONLY_FOR_Q3 takes another slot.   *)
First(p) ==
    /\ view[p] # NULL => pids[0] = p
    /\ pc[p] \in Filling /\ view[p] # NULL => loc[p].idx # 0
    /\ pc[p] \in NoSlot /\ loc[p].cmd = "CREATE" => ~HaveMaze(p)
    /\ pc[p] \in Filling /\ loc[p].cmd = "CREATE" =>
           pids[0] = p /\ (loc[p].idx # 0 => info[0] = NULL)
SameAs(m, v) == m.lay = v.lay /\ (v.pos # Lost => m.pos = v.pos)
Agrees(p) ==
    LET m == heap[info[0]] IN
    SameAs(IF pc[p] \in {"move_use", "move_test"} THEN Walk(m, coord_move)
           ELSE IF pc[p] \in Storing THEN [m EXCEPT !.pos = loc[p].tgt]
           ELSE m, view[p])
Expects(p) == view[p] # NULL /\ view[p].pos # Lost
Answers(p) ==
    /\ pc[p] = "get_copy" /\ loc[p].cmd = "GETPOS" /\ Expects(p) => tmp = view[p].pos
    /\ pc[p] # "user" => ret[p] = NoResult
    /\ pc[p] = "user" /\ ret[p].op = "GETPOS" /\ ret[p].err = "OK" /\ Expects(p)
           => ret[p].val = view[p].pos
Account(p) ==
    /\ view[p] # NULL /\ info[0] # NULL /\ pc[p] \notin {"destroy_null", "oops"} => Agrees(p)
    /\ Answers(p)

Kept(p) == view[p] # NULL /\ info[0] # NULL => SameAs(heap[info[0]], view[p])

Alone(p) == Table(p) /\ Using(p) /\ Changing(p) /\ First(p) /\ Account(p)
(* Labels a step may reach without a promise of its own, and those at which   *)
(* the table or the agreement below is in suspense.                           *)
Resting == {"user", "oops", "get_copy", "proc_loop", "proc_q3"}
Carried == {"move_use", "move_test"} \cup Storing
Moving  == Carried \cup {"oops", "destroy_null", "del_clear"} \cup Making

LEMMA SameIndex ==
    ASSUME NEW p \in Procs, pids' = pids
    PROVE  UserIndex(p)' = UserIndex(p) /\ EmptyIndex' = EmptyIndex
  BY DEF UserIndex, EmptyIndex

(* get_user_index and get_empty_index look at slot 0 first.                   *)
LEMMA FirstFits ==
    ASSUME NEW S \in SUBSET Slots, 0 \in S PROVE FirstIndex(S) = 0
<1>1. S \in SUBSET Nat /\ S # {}
  BY SlotAssumption DEF Slots
<1>2. Min(S) \in S /\ Min(S) <= 0
  BY <1>1, LeastSlot
<1>3. Min(S) \in Nat
  BY <1>1, <1>2
<1>4. Min(S) = 0
  BY <1>2, <1>3
<1> QED BY <1>1, <1>4 DEF FirstIndex

LEMMA ZeroFirst ==
    ASSUME NEW p \in Procs, pids[0] = p PROVE UserIndex(p) = 0
<1>1. 0 \in Slots
  BY SlotAssumption DEF Slots
<1> QED BY <1>1, FirstFits DEF UserIndex

LEMMA EmptyFirst ==
    ASSUME TypeOK, NEW p \in Procs, \A q \in Procs : q = p
    PROVE  /\ 0 \in Slots
           /\ \A i \in Slots : pids[i] \in {p, NoPid}
           /\ pids[0] = NoPid => EmptyIndex = 0
           /\ EmptyIndex # 0 => pids[0] = p
<1>1. 0 \in Slots
  BY SlotAssumption DEF Slots
<1>2. \A i \in Slots : pids[i] \in {p, NoPid}
  BY DEF TypeOK, GlobalTypes
<1>3. pids[0] = NoPid => EmptyIndex = 0
  BY <1>1, FirstFits DEF EmptyIndex
<1> QED BY <1>1, <1>2, <1>3

(* The maze of a process that has one, as its next step finds it.             *)
LEMMA OwnMaze ==
    ASSUME TypeOK, NEW p \in Procs, Table(p), HaveMaze(p),
           pc[p] \notin {"destroy_null", "del_clear"} \cup Making
    PROVE  /\ UserIndex(p) \in Slots /\ pids[UserIndex(p)] = p
           /\ info[UserIndex(p)] \in Blocks /\ info[UserIndex(p)] # NULL
           /\ heap[info[UserIndex(p)]] \in MazeInfo \ {Freed, Raw}
           /\ heap[info[UserIndex(p)]].lay \in Layouts
<1>1. /\ UserIndex(p) \in Slots /\ pids[UserIndex(p)] = p /\ info[UserIndex(p)] # NULL
  BY LookupType DEF HaveMaze
<1>2. info[UserIndex(p)] \in Blocks
  BY <1>1 DEF TypeOK, GlobalTypes, Pointer
<1>3. heap[info[UserIndex(p)]] \notin {Freed, Raw}
  BY <1>1 DEF Table, Loose
<1>4. heap[info[UserIndex(p)]] \in MazeInfo
  BY <1>2, <1>3 DEF TypeOK, GlobalTypes
<1> QED BY <1>1, <1>2, <1>3, <1>4 DEF MazeInfo

LEMMA SoundUse ==
    ASSUME TypeOK, NEW p \in Procs, Alone(p), pc[p] \in WithMaze
    PROVE  /\ UserIndex(p) \in Slots /\ pids[UserIndex(p)] = p
           /\ info[UserIndex(p)] \in Blocks /\ info[UserIndex(p)] # NULL
           /\ heap[info[UserIndex(p)]] \in MazeInfo \ {Freed, Raw}
           /\ heap[info[UserIndex(p)]].lay \in Layouts
           /\ pc[p] # "write_copy" => Target(p) = info[UserIndex(p)] /\ Kind(p) = "none"
<1>1. HaveMaze(p) /\ Table(p) /\ Using(p)
  BY DEF Alone, Using
<1>2. pc[p] \notin {"destroy_null", "del_clear"} \cup Making
  BY DEF WithMaze, Making
<1>3. /\ UserIndex(p) \in Slots /\ info[UserIndex(p)] # NULL
      /\ heap[info[UserIndex(p)]] \notin {Freed, Raw}
  BY <1>1, <1>2, OwnMaze
<1>4. pc[p] # "write_copy" => Target(p) = info[UserIndex(p)]
  BY <1>1 DEF Using, Target, UseIndex, WithMaze, HeldInRegister
<1>5. pc[p] # "write_copy" /\ pc[p] \notin HeldInRegister => UseIndex(p) = UserIndex(p)
  BY <1>1 DEF Using, UseIndex, WithMaze, HeldInRegister
<1>6. pc[p] # "write_copy" => Kind(p) = "none"
  BY <1>3, <1>4, <1>5 DEF Kind
<1> QED BY <1>1, <1>2, <1>4, <1>6, OwnMaze
-----------------------------------------------------------------------------
(* What a step leaves in the result.                                          *)
LEMMA DoneAnswers ==
    ASSUME TypeOK, NEW p \in Procs, NEW op, NEW err, NEW val, Return(p, op, err, val),
           op # "GETPOS" \/ err # "OK"
    PROVE  pc'[p] = "user" /\ Answers(p)'
<1>1. pc' = [pc EXCEPT ![p] = "user"] /\ pc \in [Procs -> Labels]
  BY DEF Return, Goto, TypeOK, ProcessTypes
<1>2. ret' = [ret EXCEPT ![p] = [op |-> op, err |-> err, val |-> val]] /\ ret \in [Procs -> Results]
  BY DEF Return, TypeOK, ProcessTypes
<1>3. pc'[p] = "user" /\ ret'[p] = [op |-> op, err |-> err, val |-> val]
  BY <1>1, <1>2
<1> QED BY <1>3 DEF Answers

LEMMA EnterAnswers ==
    ASSUME TypeOK, NEW p \in Procs, NEW l, Enter(p, l), l \notin {"user", "get_copy"}
    PROVE  pc'[p] = l /\ Answers(p)'
<1>1. pc' = [pc EXCEPT ![p] = l] /\ pc \in [Procs -> Labels]
  BY DEF Enter, Goto, TypeOK, ProcessTypes
<1>2. ret' = [ret EXCEPT ![p] = NoResult] /\ ret \in [Procs -> Results]
  BY DEF Enter, TypeOK, ProcessTypes
<1>3. pc'[p] = l /\ ret'[p] = NoResult
  BY <1>1, <1>2
<1> QED BY <1>3 DEF Answers

LEMMA GotoAnswers ==
    ASSUME TypeOK, NEW p \in Procs, NEW l, Goto(p, l), ret' = ret, Answers(p),
           pc[p] # "user", l # "get_copy"
    PROVE  pc'[p] = l /\ Answers(p)'
<1>1. pc'[p] = l
  BY DEF Goto, TypeOK, ProcessTypes
<1>2. ret'[p] = NoResult /\ NoResult.op = "none"
  BY DEF Answers, NoResult
<1> QED BY <1>1, <1>2 DEF Answers

(* Steps that keep the table, the heap and the expectation.                   *)
LEMMA KeepTable ==
    ASSUME NEW p \in Procs, Table(p), UNCHANGED <<pids, info, heap>>,
           fault' \subseteq {"null", "stray"}, pc[p] \notin {"destroy_null", "del_clear"} \cup Making
    PROVE  Table(p)'
  BY DEF Table, Loose, OnlyNullFaults

LEMMA StillStep ==
    ASSUME TypeOK, NEW p \in Procs, Alone(p), UNCHANGED <<pids, info, heap, view>>,
           fault' \subseteq {"null", "stray"}, pc[p] \notin Moving,
           pc'[p] \notin Carried,
           Using(p)', Changing(p)', First(p)', Answers(p)'
    PROVE  Alone(p)'
<1>1. Table(p)'
  BY KeepTable DEF Alone, Moving
<1>2. Kept(p)
  BY DEF Alone, Account, Agrees, Kept, Moving, Carried
<1>3. Account(p)'
  BY <1>2 DEF Account, Agrees, Kept, Carried
<1> QED BY <1>1, <1>3 DEF Alone

LEMMA RestStep ==
    ASSUME TypeOK, NEW p \in Procs, Alone(p), UNCHANGED <<pids, info, heap, view>>,
           fault' \subseteq {"null", "stray"}, pc[p] \notin Moving, pc'[p] \in Resting, Answers(p)'
    PROVE  Alone(p)'
<1>1. Using(p)'
  BY DEF Using, Resting, WithMaze, HeldInRegister, Halfway
<1>2. Changing(p)'
  BY DEF Changing, Resting, Leaving, Filling, Making, NoSlot
<1>3. First(p)'
  BY DEF Alone, First, Resting, Filling, Making, NoSlot
<1>4. pc'[p] \notin Carried
  BY DEF Resting, Carried, Storing
<1> QED BY <1>1, <1>2, <1>3, <1>4, StillStep
-----------------------------------------------------------------------------
(* Open, close, and the two requests that make a maze.                        *)
LEMMA OpenAlone ==
    ASSUME TypeOK, NEW p \in Procs, Alone(p), Open(p) PROVE Alone(p)'
<1>1. /\ UNCHANGED <<pids, info, heap, view, fault, pc, ret>> /\ pc[p] = "user"
  BY DEF Open, globals, statics, history
<1>2. Answers(p)'
  BY <1>1 DEF Alone, Account, Answers, Expects
<1>3. fault' \subseteq {"null", "stray"} /\ pc[p] \notin Moving /\ pc'[p] \in Resting
  BY <1>1 DEF Alone, Table, OnlyNullFaults, Moving, Carried, Storing, Making, Resting
<1> QED BY <1>1, <1>2, <1>3, RestStep

LEMMA CloseAlone ==
    ASSUME TypeOK, NEW p \in Procs, Alone(p), Close(p) PROVE Alone(p)'
<1>1. /\ pc \in [Procs -> Labels] /\ loc \in [Procs -> Locals] /\ ret \in [Procs -> Results]
      /\ view \in [Procs -> MazeInfo \cup {NULL}]
  BY DEF TypeOK, ProcessTypes, HistoryTypes
<1>2. /\ UNCHANGED <<pids, info, heap, fault>> /\ pc[p] \in {"user", "oops"}
      /\ view'[p] = NULL /\ ret'[p] = NoResult
  BY <1>1 DEF Close, table
<1>3. \/ pc'[p] = "user"
      \/ pc'[p] = "del_lock" /\ loc'[p].idx = UserIndex(p) /\ UserIndex(p) # -1
  BY <1>1 DEF Close, Goto, Locals
<1>4. UserIndex(p)' = UserIndex(p) /\ UserIndex(p) \in Slots \cup {-1}
  BY <1>2, SameIndex, LookupType
<1>5. Table(p)'
  BY <1>2, KeepTable DEF Alone, Table, OnlyNullFaults, Making
<1>6. Using(p)'
  BY <1>3 DEF Using, Halfway, WithMaze, HeldInRegister
<1>7. Changing(p)'
  BY <1>2, <1>3, <1>4 DEF Changing, Leaving, Filling, Making, NoSlot
<1>8. First(p)'
  BY <1>2, <1>3 DEF First, Filling, Making, NoSlot
<1>9. Account(p)'
  <2>1. NoResult.op = "none"
    BY DEF NoResult
  <2> QED BY <1>2, <1>3, <2>1 DEF Account, Answers
<1> QED BY <1>5, <1>6, <1>7, <1>8, <1>9 DEF Alone

LEMMA DelLockAlone ==
    ASSUME TypeOK, NEW p \in Procs, Alone(p), DelLock(p) PROVE Alone(p)'
<1>1. /\ UNCHANGED <<pids, info, heap, view, fault, loc, ret>> /\ pc[p] = "del_lock"
      /\ Goto(p, "del_free")
  BY DEF DelLock, Lock, statics, history, table
<1>2. pc'[p] = "del_free" /\ Answers(p)'
  BY <1>1, GotoAnswers DEF Alone, Account
<1>3. UserIndex(p)' = UserIndex(p)
  BY <1>1, SameIndex
<1>4. Using(p)'
  BY <1>2 DEF Using, Halfway, WithMaze, HeldInRegister
<1>5. Changing(p)'
  BY <1>1, <1>2, <1>3 DEF Alone, Changing, Leaving, Filling, Making, NoSlot
<1>6. First(p)'
  BY <1>1, <1>2 DEF Alone, First, Filling, Making, NoSlot
<1>7. fault' \subseteq {"null", "stray"} /\ pc[p] \notin Moving /\ pc'[p] \notin Carried
  BY <1>1, <1>2 DEF Alone, Table, OnlyNullFaults, Moving, Carried, Storing, Making
<1> QED BY <1>1, <1>2, <1>4, <1>5, <1>6, <1>7, StillStep

LEMMA DelFreeAlone ==
    ASSUME TypeOK, NEW p \in Procs, Alone(p), DelFree(p) PROVE Alone(p)'
<1> DEFINE n == loc[p].idx
           b == info[n]
<1>1. /\ UNCHANGED <<pids, info, view, loc, ret>> /\ pc[p] = "del_free" /\ Goto(p, "del_clear")
  BY DEF DelFree, statics, table
<1>2. pc'[p] = "del_clear" /\ Answers(p)'
  BY <1>1, GotoAnswers DEF Alone, Account
<1>3. /\ heap \in [Blocks -> MazeInfo \cup {Freed, Raw}] /\ info \in [Slots -> Pointer]
  BY DEF TypeOK, GlobalTypes
<1>4. n \in Slots /\ n = UserIndex(p) /\ view[p] = NULL
  BY <1>1 DEF Alone, Changing, Leaving
<1>5. \A i \in Slots : info[i] # NULL => info[i] \in Blocks /\ heap[info[i]] \notin {Freed, Raw}
  BY <1>1, <1>3 DEF Alone, Table, Loose, Making, Pointer
<1>6. /\ fault' = fault
      /\ \A i \in Slots \ {n} : info[i] # NULL => heap'[info[i]] = heap[info[i]]
      /\ b # NULL => heap'[b] = Freed
      /\ \A x \in Blocks : heap'[x] # Freed => heap'[x] = heap[x]
  <2>1. CASE b = NULL
    BY <2>1 DEF DelFree
  <2>2. CASE b # NULL
    <3>1. fault' = fault /\ heap' = [heap EXCEPT ![b] = Freed] /\ b \in Blocks
      BY <1>4, <1>5, <2>2 DEF DelFree
    <3>2. \A i \in Slots \ {n} : info[i] # b
      BY <1>4, <2>2 DEF Alone, Table
    <3> QED BY <1>3, <1>5, <3>1, <3>2
  <2> QED BY <2>1, <2>2
<1> HIDE DEF b
<1>7. Table(p)'
  <2>1. OnlyNullFaults'
    BY <1>6 DEF Alone, Table, OnlyNullFaults
  <2>2. \A i \in Slots : info'[i] # NULL =>
           /\ heap'[info'[i]] = Freed => Loose(p, i)'
           /\ heap'[info'[i]] = Raw => pc'[p] \in Making /\ i = loc'[p].idx
    <3> SUFFICES ASSUME NEW i \in Slots, info[i] # NULL
                 PROVE  /\ heap'[info[i]] = Freed => Loose(p, i)'
                        /\ heap'[info[i]] # Raw
      BY <1>1
    <3>1. CASE i = n
      BY <1>1, <1>2, <1>6, <3>1, ContentAssumption DEF Loose, b
    <3>2. CASE i # n
      BY <1>5, <1>6, <3>2
    <3> QED BY <3>1, <3>2
  <2> QED BY <1>1, <2>1, <2>2 DEF Alone, Table
<1>8. Using(p)'
  BY <1>2 DEF Using, Halfway, WithMaze, HeldInRegister
<1>9. Changing(p)'
  <2>1. UserIndex(p)' = UserIndex(p)
    BY <1>1, SameIndex
  <2> QED BY <1>1, <1>2, <1>4, <2>1 DEF Changing, Leaving, Filling, Making, NoSlot
<1>10. First(p)' /\ Account(p)'
  BY <1>1, <1>2, <1>4 DEF First, Account, Filling, Making, NoSlot
<1> QED BY <1>7, <1>8, <1>9, <1>10 DEF Alone

LEMMA DelClearAlone ==
    ASSUME TypeOK, NEW p \in Procs, Alone(p), DelClear(p) PROVE Alone(p)'
<1> DEFINE n == loc[p].idx
<1>1. /\ UNCHANGED <<heap, view, ret, fault>> /\ pc[p] = "del_clear" /\ Goto(p, "user")
  BY DEF DelClear, statics, history
<1>2. pc'[p] = "user" /\ Answers(p)'
  BY <1>1, GotoAnswers DEF Alone, Account
<1>3. /\ pids \in [Slots -> Procs \cup {NoPid}] /\ info \in [Slots -> Pointer]
  BY DEF TypeOK, GlobalTypes
<1>4. n \in Slots /\ view[p] = NULL
  BY <1>1 DEF Alone, Changing, Leaving
<1>5. /\ pids'[n] = NoPid /\ info'[n] = NULL
      /\ \A i \in Slots \ {n} : pids'[i] = pids[i] /\ info'[i] = info[i]
  BY <1>3, <1>4 DEF DelClear
<1>6. \A i \in Slots \ {n} : info[i] # NULL => heap[info[i]] \notin {Freed, Raw}
  BY <1>1 DEF Alone, Table, Loose, Making
<1>7. OnlyNullFaults'
  BY <1>1 DEF Alone, Table, OnlyNullFaults
<1> HIDE DEF n
<1>8. Table(p)'
  <2>1. \A i \in Slots : pids'[i] = NoPid => info'[i] = NULL
    BY <1>5 DEF Alone, Table
  <2>2. \A i, j \in Slots : info'[i] # NULL /\ info'[i] = info'[j] => i = j
    BY <1>5 DEF Alone, Table
  <2>3. \A i \in Slots : info'[i] # NULL => heap'[info'[i]] \notin {Freed, Raw}
    BY <1>1, <1>5, <1>6
  <2> QED BY <1>7, <2>1, <2>2, <2>3 DEF Table
<1>9. Using(p)' /\ Changing(p)'
  BY <1>2 DEF Using, Halfway, WithMaze, HeldInRegister, Changing, Leaving, 
              Filling, Making, NoSlot
<1>10. First(p)' /\ Account(p)'
  BY <1>1, <1>2, <1>4 DEF First, Account, Filling, Making, NoSlot
<1> QED BY <1>8, <1>9, <1>10 DEF Alone

LEMMA CreateAlone ==
    ASSUME TypeOK, NEW p \in Procs, Alone(p), Create(p) \/ CreateLock(p) PROVE Alone(p)'
<1>1. /\ UNCHANGED <<pids, info, heap, view, fault>> /\ pc[p] \in {"user", "create_lock"}
  BY DEF Create, CreateLock, Lock, Request, globals, statics, history, table
<1>2. loc \in [Procs -> Locals] /\ fault' \subseteq {"null", "stray"} /\ pc[p] \notin Moving
  BY <1>1 DEF TypeOK, ProcessTypes, Alone, Table, OnlyNullFaults, Moving, Carried, Storing, Making
<1>3. CASE \E err \in {"EBUSY", "EINVAL"} : Done(p, "CREATE", err)
  <2>1. pc'[p] = "user" /\ Answers(p)'
    BY <1>3, DoneAnswers DEF Done
  <2> QED BY <1>1, <1>2, <2>1, RestStep DEF Resting
<1>4. CASE /\ pc'[p] \in {"create_lock", "create_check"} /\ loc'[p].cmd = "CREATE"
           /\ Answers(p)'
  <2>1. Using(p)'
    BY <1>4 DEF Using, Halfway, WithMaze, HeldInRegister
  <2>2. Changing(p)'
    BY <1>4 DEF Changing, Leaving, Filling, Making, NoSlot
  <2>3. First(p)'
    BY <1>1, <1>4 DEF Alone, First, Filling, Making, NoSlot
  <2>4. pc'[p] \notin Carried
    BY <1>4 DEF Carried, Storing
  <2> QED BY <1>1, <1>2, <1>4, <2>1, <2>2, <2>3, <2>4, StillStep
<1>5. ASSUME NEW c, Enter(p, "create_lock"),
             loc' = [loc EXCEPT ![p].cmd = "CREATE", ![p].size = c]
      PROVE  Alone(p)'
  <2>1. pc'[p] = "create_lock" /\ Answers(p)'
    BY <1>5, EnterAnswers
  <2>2. loc'[p].cmd = "CREATE"
    BY <1>2, <1>5 DEF Locals
  <2> QED BY <1>4, <2>1, <2>2
<1>6. CASE CreateLock(p)
  <2>1. pc[p] = "create_lock" /\ Goto(p, "create_check") /\ ret' = ret /\ loc' = loc
    BY <1>6 DEF CreateLock, Lock
  <2>2. pc'[p] = "create_check" /\ Answers(p)'
    BY <2>1, GotoAnswers DEF Alone, Account
  <2>3. loc[p].cmd = "CREATE"
    BY <2>1 DEF Alone, Changing
  <2> QED BY <1>4, <2>1, <2>2, <2>3
<1> QED BY <1>3, <1>5, <1>6 DEF Create

LEMMA CreateCheckAlone ==
    ASSUME TypeOK, NEW p \in Procs, Alone(p), CreateCheck(p) PROVE Alone(p)'
<1>1. /\ UNCHANGED <<pids, info, heap, view, fault>> /\ pc[p] = "create_check"
      /\ loc[p].cmd = "CREATE"
  BY DEF CreateCheck, history, table, Alone, Changing
<1>2. fault' \subseteq {"null", "stray"} /\ pc[p] \notin Moving
  BY <1>1 DEF Alone, Table, OnlyNullFaults, Moving, Carried, Storing, Making
<1>3. CASE Done(p, "CREATE", "EEXIST") \/ Done(p, "CREATE", "ENOMEM")
  <2>1. pc'[p] = "user" /\ Answers(p)'
    BY <1>3, DoneAnswers DEF Done
  <2> QED BY <1>1, <1>2, <2>1, RestStep DEF Resting
<1>4. CASE ~HaveMaze(p) /\ Goto(p, "find_slot") /\ UNCHANGED <<loc, ret>>
  <2>1. pc'[p] = "find_slot" /\ Answers(p)'
    BY <1>1, <1>4, GotoAnswers DEF Alone, Account
  <2>2. ~HaveMaze(p)'
    BY <1>1, <1>4, SameIndex DEF HaveMaze
  <2>3. Using(p)' /\ pc'[p] \notin Carried
    BY <2>1 DEF Using, Halfway, WithMaze, HeldInRegister, Carried, Storing
  <2>4. Changing(p)'
    BY <1>1, <1>4, <2>1 DEF Changing, Leaving, Filling, Making, NoSlot
  <2>5. First(p)'
    BY <1>1, <2>1, <2>2 DEF Alone, First, Filling, Making, NoSlot
  <2> QED BY <1>1, <1>2, <2>1, <2>3, <2>4, <2>5, StillStep
<1> QED BY <1>3, <1>4 DEF CreateCheck

LEMMA Q3Alone ==
    ASSUME TypeOK, NEW p \in Procs, Alone(p), Q3(p) PROVE Alone(p)'
<1>1. /\ UNCHANGED <<pids, info, heap, view, fault>> /\ pc[p] = "user"
      /\ loc \in [Procs -> Locals]
  BY DEF Q3, Request, statics, history, table, TypeOK, ProcessTypes
<1>2. fault' \subseteq {"null", "stray"} /\ pc[p] \notin Moving
  BY <1>1 DEF Alone, Table, OnlyNullFaults, Moving, Carried, Storing, Making
<1>3. CASE \E err \in {"EBUSY", "EINVAL"} : Done(p, "Q3", err)
  <2>1. pc'[p] = "user" /\ Answers(p)'
    BY <1>3, DoneAnswers DEF Done
  <2> QED BY <1>1, <1>2, <2>1, RestStep DEF Resting
<1>4. ASSUME NEW c, Enter(p, "find_slot"), loc' = [loc EXCEPT ![p].cmd = "Q3", ![p].size = c]
      PROVE  Alone(p)'
  <2>1. pc'[p] = "find_slot" /\ Answers(p)'
    BY <1>4, EnterAnswers
  <2>2. loc'[p].cmd = "Q3"
    BY <1>1, <1>4 DEF Locals
  <2>3. Using(p)' /\ pc'[p] \notin Carried
    BY <2>1 DEF Using, Halfway, WithMaze, HeldInRegister, Carried, Storing
  <2>4. Changing(p)'
    BY <2>1, <2>2 DEF Changing, Leaving, Filling, Making, NoSlot
  <2>5. First(p)'
    BY <1>1, <2>1, <2>2 DEF Alone, First, Filling, Making, NoSlot
  <2> QED BY <1>1, <1>2, <2>1, <2>3, <2>4, <2>5, StillStep
<1> QED BY <1>3, <1>4 DEF Q3

LEMMA FindSlotAlone ==
    ASSUME TypeOK, NEW p \in Procs, Alone(p), FindSlot(p) PROVE Alone(p)'
<1>1. /\ UNCHANGED <<pids, info, heap, view, fault>> /\ pc[p] = "find_slot"
      /\ loc[p].cmd \in {"CREATE", "Q3"} /\ loc \in [Procs -> Locals]
  BY DEF FindSlot, statics, history, table, Alone, Changing, NoSlot, TypeOK, ProcessTypes
<1>2. fault' \subseteq {"null", "stray"} /\ pc[p] \notin Moving
  BY <1>1 DEF Alone, Table, OnlyNullFaults, Moving, Carried, Storing, Making
<1>3. CASE Done(p, loc[p].cmd, "OK")
  <2>1. pc'[p] = "user" /\ Answers(p)'
    BY <1>1, <1>3, DoneAnswers DEF Done
  <2> QED BY <1>1, <1>2, <2>1, RestStep DEF Resting
<1>4. CASE /\ EmptyIndex # -1 /\ Goto(p, "claim_slot") /\ UNCHANGED ret
           /\ loc' = [loc EXCEPT ![p].idx = EmptyIndex]
  <2>1. pc'[p] = "claim_slot" /\ Answers(p)'
    BY <1>1, <1>4, GotoAnswers DEF Alone, Account
  <2>2. loc'[p].cmd = loc[p].cmd /\ loc'[p].idx = EmptyIndex
    BY <1>1, <1>4 DEF Locals
  <2>3. Using(p)' /\ pc'[p] \notin Carried
    BY <2>1 DEF Using, Halfway, WithMaze, HeldInRegister, Carried, Storing
  <2>4. EmptyIndex \in Slots /\ EmptyIndex' = EmptyIndex /\ HaveMaze(p)' = HaveMaze(p)
    BY <1>1, <1>4, LookupType, SameIndex DEF HaveMaze
  <2>5. Changing(p)'
    BY <1>1, <2>1, <2>2, <2>4 DEF Changing, Leaving, Filling, Making, NoSlot
  <2>6. First(p)'
    BY <1>1, <2>1, <2>2, <2>4 DEF Alone, First, Filling, Making, NoSlot
  <2> QED BY <1>1, <1>2, <2>1, <2>3, <2>5, <2>6, StillStep
<1> QED BY <1>3, <1>4 DEF FindSlot

(* get_empty_index takes slot 0 unless the process has it already.            *)
LEMMA ClaimSlotAlone ==
    ASSUME TypeOK, NEW p \in Procs, \A q \in Procs : q = p, Alone(p), ClaimSlot(p)
    PROVE  Alone(p)'
<1> DEFINE n == loc[p].idx
<1>1. /\ UNCHANGED <<info, heap, view, fault, loc, ret>> /\ pc[p] = "claim_slot"
      /\ Goto(p, "alloc") /\ pids' = [pids EXCEPT ![n] = p]
  BY DEF ClaimSlot, statics, history
<1>2. pc'[p] = "alloc" /\ Answers(p)'
  BY <1>1, GotoAnswers DEF Alone, Account
<1>3. n \in Slots /\ n = EmptyIndex /\ pids[n] = NoPid /\ info[n] = NULL
  <2>1. n \in Slots /\ n = EmptyIndex
    BY <1>1 DEF Alone, Changing
  <2>2. pids[n] = NoPid
    BY <2>1, LookupType, SlotAssumption DEF Slots
  <2> QED BY <2>1, <2>2 DEF Alone, Table
<1>4. pids'[n] = p /\ \A i \in Slots \ {n} : pids'[i] = pids[i]
  BY <1>1, <1>3 DEF TypeOK, GlobalTypes
<1>5. 0 \in Slots /\ (n # 0 => pids[0] = p)
  BY <1>3, EmptyFirst
<1>6. p # NoPid
  BY PidAssumption
<1>7. fault' \subseteq {"null", "stray"}
  BY <1>1 DEF Alone, Table, OnlyNullFaults
<1> HIDE DEF n
<1>8. Table(p)'
  <2>1. \A i \in Slots : pids'[i] = NoPid => info'[i] = NULL
    BY <1>1, <1>4, <1>6 DEF Alone, Table
  <2>2. \A i, j \in Slots : info'[i] # NULL /\ info'[i] = info'[j] => i = j
    BY <1>1 DEF Alone, Table
  <2>3. \A i \in Slots : info'[i] # NULL => heap'[info'[i]] \notin {Freed, Raw}
    BY <1>1 DEF Alone, Table, Loose, Making
  <2>4. OnlyNullFaults'
    BY <1>1, <1>7 DEF Alone, Table, OnlyNullFaults
  <2> QED BY <2>1, <2>2, <2>3, <2>4 DEF Table
<1>9. Using(p)'
  BY <1>2 DEF Using, Halfway, WithMaze, HeldInRegister
<1>10. Changing(p)'
  <2>1. loc[p].cmd \in {"CREATE", "Q3"}
    BY <1>1 DEF Alone, Changing, NoSlot
  <2> QED BY <1>1, <1>2, <1>3, <1>4, <2>1 DEF Changing, Leaving, Filling, Making, NoSlot, n
<1>11. pids'[0] = p
  BY <1>4, <1>5
<1>12. First(p)'
  <2>1. view[p] # NULL => n # 0
    BY <1>3, <1>6 DEF Alone, First
  <2>2. loc[p].cmd = "CREATE" /\ n # 0 => info[0] = NULL
    <3> HAVE loc[p].cmd = "CREATE" /\ n # 0
    <3>1. ~HaveMaze(p)
      BY <1>1 DEF Alone, First, NoSlot
    <3>2. UserIndex(p) = 0
      BY <1>5, ZeroFirst
    <3> QED BY <3>1, <3>2 DEF HaveMaze
  <2> QED BY <1>1, <1>2, <1>11, <2>1, <2>2 DEF First, NoSlot, Making, n
<1>13. Account(p)'
  <2>1. Kept(p)
    BY <1>1 DEF Alone, Account, Agrees, Kept, Storing
  <2> QED BY <1>1, <1>2, <2>1 DEF Account, Agrees, Kept, Storing
<1> QED BY <1>8, <1>9, <1>10, <1>12, <1>13 DEF Alone

LEMMA AllocAlone ==
    ASSUME TypeOK, NEW p \in Procs, Alone(p), Alloc(p) PROVE Alone(p)'
<1> DEFINE n == loc[p].idx
<1>1. /\ UNCHANGED <<pids, view, ret>> /\ pc[p] = "alloc" /\ loc \in [Procs -> Locals]
      /\ heap \in [Blocks -> MazeInfo \cup {Freed, Raw}] /\ info \in [Slots -> Pointer]
  BY DEF Alloc, statics, TypeOK, ProcessTypes, GlobalTypes
<1>2. /\ n \in Slots /\ pids[n] = p /\ info[n] = NULL /\ loc[p].cmd \in {"CREATE", "Q3"}
      /\ 0 \in Slots
  BY <1>1, SlotAssumption DEF Alone, Changing, Filling, Slots
<1>3. \A i \in Slots : info[i] # NULL => info[i] \in Blocks /\ heap[info[i]] \notin {Freed, Raw}
  BY <1>1 DEF Alone, Table, Loose, Making, Pointer
<1>4. fault \subseteq {"null", "stray"}
  BY DEF Alone, Table, OnlyNullFaults
<1>5. ASSUME NEW b \in Blocks, heap[b] = Freed, heap' = [heap EXCEPT ![b] = Raw],
             info' = [info EXCEPT ![n] = b], loc' = [loc EXCEPT ![p].blk = b],
             Goto(p, "generate"), UNCHANGED fault
      PROVE  Alone(p)'
  <2>1. pc'[p] = "generate" /\ Answers(p)'
    BY <1>1, <1>5, GotoAnswers DEF Alone, Account
  <2>2. loc'[p].idx = n /\ loc'[p].blk = b /\ loc'[p].cmd = loc[p].cmd
    BY <1>1, <1>5 DEF Locals
  <2>3. /\ info'[n] = b /\ \A i \in Slots \ {n} : info'[i] = info[i]
        /\ heap'[b] = Raw /\ \A x \in Blocks \ {b} : heap'[x] = heap[x]
        /\ b # NULL
    BY <1>1, <1>2, <1>5, PidAssumption
  <2>4. \A i \in Slots : info[i] # b
    BY <1>3, <1>5, <2>3
  <2> HIDE DEF n
  <2>5. Table(p)'
    <3>1. \A i \in Slots : pids'[i] = NoPid => info'[i] = NULL
      BY <1>1, <1>2, <2>3, PidAssumption DEF Alone, Table
    <3>2. \A i, j \in Slots : info'[i] # NULL /\ info'[i] = info'[j] => i = j
      BY <2>3, <2>4 DEF Alone, Table
    <3>3. \A i \in Slots : info'[i] # NULL =>
             /\ heap'[info'[i]] # Freed
             /\ heap'[info'[i]] = Raw => pc'[p] \in Making /\ i = loc'[p].idx
      <4> TAKE i \in Slots
      <4>1. CASE i = n
        BY <2>1, <2>2, <2>3, <4>1, ContentAssumption DEF Making
      <4>2. CASE i # n
        BY <1>3, <2>3, <2>4, <4>2
      <4> QED BY <4>1, <4>2
    <3>4. OnlyNullFaults'
      BY <1>4, <1>5, <2>3 DEF OnlyNullFaults
    <3> QED BY <3>1, <3>2, <3>3, <3>4 DEF Table
  <2>6. Using(p)'
    BY <2>1 DEF Using, Halfway, WithMaze, HeldInRegister
  <2>7. Changing(p)'
    BY <1>1, <1>2, <2>1, <2>2, <2>3 DEF Changing, Leaving, Filling, Making, NoSlot
  <2>8. First(p) /\ pc[p] \in Filling
    BY <1>1 DEF Alone, Filling
  <2>9. First(p)'
    BY <1>1, <1>2, <2>1, <2>2, <2>3, <2>8 DEF First, Filling, NoSlot, n
  <2>10. Account(p)'
    <3>1. view[p] # NULL => n # 0
      BY <2>8 DEF First, n
    <3>2. Kept(p)
      BY <1>1 DEF Alone, Account, Agrees, Kept, Storing
    <3>3. Kept(p)'
      BY <1>1, <1>2, <1>3, <2>3, <2>4, <3>1, <3>2 DEF Kept
    <3> QED BY <1>1, <2>1, <3>3 DEF Account, Agrees, Kept, Storing
  <2> QED BY <2>5, <2>6, <2>7, <2>9, <2>10 DEF Alone
<1>6. CASE /\ info' = [info EXCEPT ![n] = NULL] /\ fault' = fault \cup {"null"}
           /\ Goto(p, "oops") /\ UNCHANGED heap
  <2>1. pc'[p] = "oops" /\ Answers(p)'
    BY <1>1, <1>6, GotoAnswers DEF Alone, Account
  <2>2. info' = info /\ fault' \subseteq {"null", "stray"}
    BY <1>1, <1>2, <1>4, <1>6
  <2> QED BY <1>1, <1>6, <2>1, <2>2, RestStep DEF Resting, Moving, Carried, Storing, Making
<1> QED BY <1>5, <1>6 DEF Alloc

LEMMA GenerateAlone ==
    ASSUME TypeOK, NEW p \in Procs, Alone(p), Generate(p) PROVE Alone(p)'
<1>1. /\ UNCHANGED <<pids, info, heap, view, fault, loc, ret>> /\ pc[p] = "generate"
      /\ Goto(p, "store_maze")
  BY DEF Generate, globals, history
<1>2. pc'[p] = "store_maze" /\ Answers(p)'
  BY <1>1, GotoAnswers DEF Alone, Account
<1>3. Table(p)'
  BY <1>1, <1>2 DEF Alone, Table, Loose, Making, OnlyNullFaults
<1>4. Using(p)'
  BY <1>2 DEF Using, Halfway, WithMaze, HeldInRegister
<1>5. Changing(p)'
  BY <1>1, <1>2 DEF Alone, Changing, Leaving, Filling, Making, NoSlot
<1>6. First(p)'
  BY <1>1, <1>2 DEF Alone, First, Filling, Making, NoSlot
<1>7. Account(p)'
  BY <1>1, <1>2 DEF Alone, Account, Agrees, Storing
<1> QED BY <1>3, <1>4, <1>5, <1>6, <1>7 DEF Alone

(* The maze made for MAZE_CREATE hangs in slot 0, where it is looked for, or  *)
(* slot 0 stays without a maze.                                               *)
LEMMA StoreMazeAlone ==
    ASSUME TypeOK, MazeBuilt, NEW p \in Procs, Alone(p), StoreMaze(p) PROVE Alone(p)'
<1> DEFINE n == loc[p].idx
           b == loc[p].blk
           m == [lay |-> gmaze, pos |-> gmaze.start]
<1>1. /\ UNCHANGED <<pids, info>> /\ pc[p] = "store_maze" /\ pc[p] \in Making
      /\ heap \in [Blocks -> MazeInfo \cup {Freed, Raw}] /\ info \in [Slots -> Pointer]
      /\ view \in [Procs -> MazeInfo \cup {NULL}]
  BY DEF StoreMaze, table, TypeOK, GlobalTypes, HistoryTypes, Making
<1>2. /\ n \in Slots /\ pids[n] = p /\ info[n] = b /\ b # NULL /\ b \in Blocks
      /\ loc[p].cmd \in {"CREATE", "Q3"} /\ 0 \in Slots
  <2>1. n \in Slots /\ pids[n] = p /\ info[n] = b /\ b # NULL /\ loc[p].cmd \in {"CREATE", "Q3"}
    BY <1>1 DEF Alone, Changing, Filling
  <2> QED BY <1>1, <2>1, SlotAssumption DEF Slots, Pointer
<1>3. heap[b] # Freed
  BY <1>1, <1>2 DEF Alone, Table, Loose
<1>4. m \in MazeInfo /\ m \notin {Freed, Raw} /\ m # NULL
  <2>1. gmaze \in Layouts
    BY <1>1 DEF MazeBuilt, TypeOK, StaticTypes
  <2>2. m \in MazeInfo
    BY <2>1, LayoutType DEF MazeInfo
  <2> QED BY <2>2, ContentAssumption
<1>5. /\ fault' = fault /\ heap' = [heap EXCEPT ![b] = m]
      /\ view' = IF loc[p].cmd = "CREATE" THEN [view EXCEPT ![p] = m] ELSE view
      /\ Done(p, loc[p].cmd, "OK")
  BY <1>3 DEF StoreMaze
<1>6. /\ heap'[b] = m /\ \A x \in Blocks \ {b} : heap'[x] = heap[x]
      /\ view'[p] = IF loc[p].cmd = "CREATE" THEN m ELSE view[p]
  BY <1>1, <1>2, <1>5
<1>7. pc'[p] = "user" /\ Answers(p)'
  BY <1>2, <1>5, DoneAnswers DEF Done
<1> HIDE DEF m
<1>8. \A i \in Slots \ {n} : info[i] # NULL =>
         info[i] # b /\ info[i] \in Blocks /\ heap[info[i]] \notin {Freed, Raw}
  BY <1>1, <1>2 DEF Alone, Table, Loose, Pointer
<1> HIDE DEF b, n
<1>9. Table(p)'
  <2>1. \A i \in Slots : info'[i] # NULL => heap'[info'[i]] \notin {Freed, Raw}
    BY <1>1, <1>2, <1>4, <1>6, <1>8
  <2>2. OnlyNullFaults'
    BY <1>4, <1>5, <1>6 DEF Alone, Table, OnlyNullFaults
  <2> QED BY <1>1, <2>1, <2>2 DEF Alone, Table
<1>10. Using(p)' /\ Changing(p)'
  BY <1>7 DEF Using, Halfway, WithMaze, HeldInRegister, Changing, Leaving, Filling, Making, NoSlot
<1>11. First(p) /\ pc[p] \in Filling
  BY <1>1 DEF Alone, Filling
<1>12. First(p)'
  BY <1>1, <1>6, <1>7, <1>11 DEF First, Filling, Making, NoSlot
<1>13. Account(p)'
  <2>1. CASE loc[p].cmd = "CREATE"
    <3>1. n # 0 => info[0] = NULL
      BY <1>11, <2>1 DEF First, n
    <3>2. Kept(p)'
      BY <1>1, <1>2, <1>6, <2>1, <3>1 DEF Kept, SameAs
    <3> QED BY <1>7, <3>2 DEF Account, Agrees, Kept, Storing
  <2>2. CASE loc[p].cmd # "CREATE"
    <3>1. view[p] # NULL => n # 0
      BY <1>11 DEF First, n
    <3>2. Kept(p)
      BY <1>1 DEF Alone, Account, Agrees, Kept, Storing, Making
    <3>3. Kept(p)'
      BY <1>1, <1>2, <1>6, <1>8, <2>2, <3>1, <3>2 DEF Kept
    <3> QED BY <1>7, <3>3 DEF Account, Agrees, Kept, Storing
  <2> QED BY <2>1, <2>2
<1> QED BY <1>9, <1>10, <1>12, <1>13 DEF Alone
-----------------------------------------------------------------------------
(* The requests that use the maze.                                            *)
LEMMA RequestAlone ==
    ASSUME TypeOK, NEW p \in Procs, Alone(p), NEW c \in MazeRequests, MazeRequest(p, c)
    PROVE  Alone(p)'
<1>1. /\ UNCHANGED <<pids, info, heap, view, fault>> /\ pc[p] = "user"
  BY DEF MazeRequest, Request, globals, statics, history
<1>2. fault' \subseteq {"null", "stray"} /\ pc[p] \notin Moving
  BY <1>1 DEF Alone, Table, OnlyNullFaults, Moving, Carried, Storing, Making
<1>3. CASE Done(p, c, "ENOENT")
  <2>1. pc'[p] = "user" /\ Answers(p)'
    BY <1>3, DoneAnswers DEF Done
  <2> QED BY <1>1, <1>2, <2>1, RestStep DEF Resting
<1>4. CASE HaveMaze(p) /\ Enter(p, c)
  <2>1. pc'[p] = c /\ Answers(p)'
    BY <1>4, EnterAnswers DEF MazeRequests
  <2>2. HaveMaze(p)'
    BY <1>1, <1>4, SameIndex DEF HaveMaze
  <2>3. Using(p)' /\ pc'[p] \notin Carried
    BY <2>1, <2>2 DEF Using, MazeRequests, HeldInRegister, Halfway, Carried, Storing
  <2>4. Changing(p)'
    BY <2>1 DEF Changing, Leaving, Filling, Making, NoSlot, MazeRequests
  <2>5. First(p)'
    BY <1>1, <2>1 DEF Alone, First, Filling, Making, NoSlot, MazeRequests
  <2> QED BY <1>1, <1>2, <2>1, <2>3, <2>4, <2>5, StillStep
<1> QED BY <1>3, <1>4 DEF MazeRequest

(* What a process that expects a maze finds: the one it expects.              *)
LEMMA SameMaze ==
    ASSUME TypeOK, NEW p \in Procs, Alone(p), pc[p] \in WithMaze, view[p] # NULL
    PROVE  UserIndex(p) = 0 /\ info[0] # NULL /\ Agrees(p) /\ view[p] \in MazeInfo
<1>1. UserIndex(p) = 0
  BY ZeroFirst DEF Alone, First
<1>2. info[0] # NULL
  BY <1>1, SoundUse
<1>3. pc[p] \notin {"destroy_null", "oops"}
  BY DEF WithMaze
<1> QED BY <1>1, <1>2, <1>3 DEF Alone, Account, TypeOK, HistoryTypes

(* A step that writes to the caller's maze and leaves its layout.             *)
LEMMA WriteTable ==
    ASSUME TypeOK, NEW p \in Procs, Alone(p), pc[p] \in WithMaze,
           UNCHANGED <<pids, info, fault>>,
           NEW m, heap' = [heap EXCEPT ![info[UserIndex(p)]] = m],
           m \in MazeInfo
    PROVE  /\ Table(p)' /\ heap'[info[UserIndex(p)]] = m
           /\ info[UserIndex(p)] # NULL /\ UserIndex(p)' = UserIndex(p)
<1> DEFINE b == info[UserIndex(p)]
<1>1. /\ b \in Blocks /\ b # NULL /\ UserIndex(p) \in Slots
      /\ heap \in [Blocks -> MazeInfo \cup {Freed, Raw}] /\ info \in [Slots -> Pointer]
  BY SoundUse DEF TypeOK, GlobalTypes
<1>2. heap'[b] = m /\ \A x \in Blocks \ {b} : heap'[x] = heap[x]
  BY <1>1
<1>3. m \notin {Freed, Raw}
  BY ContentAssumption
<1>4. \A i \in Slots : info[i] # NULL => info[i] \in Blocks /\ heap[info[i]] \notin {Freed, Raw}
  BY <1>1 DEF Alone, Table, Loose, Making, WithMaze, Pointer
<1> HIDE DEF b
<1>5. \A i \in Slots : info'[i] # NULL => heap'[info'[i]] \notin {Freed, Raw}
  BY <1>2, <1>3, <1>4
<1>6. OnlyNullFaults'
  BY <1>2, <1>3 DEF Alone, Table, OnlyNullFaults
<1>7. Table(p)'
  BY <1>5, <1>6 DEF Alone, Table
<1> QED BY <1>1, <1>2, <1>7, SameIndex DEF b

LEMMA ResetAlone ==
    ASSUME TypeOK, NEW p \in Procs, Alone(p), Reset(p) PROVE Alone(p)'
<1> DEFINE b == info[UserIndex(p)]
           m == [heap[b] EXCEPT !.pos = heap[b].lay.start]
<1>1. /\ UNCHANGED <<pids, info, fault>> /\ pc[p] = "RESET" /\ Done(p, "RESET", "OK")
      /\ view \in [Procs -> MazeInfo \cup {NULL}]
  BY DEF Reset, Uses, table, TypeOK, HistoryTypes
<1>2. pc'[p] = "user" /\ Answers(p)' /\ pc[p] \in WithMaze
  BY <1>1, DoneAnswers DEF Done, WithMaze
<1>3. heap[b] \in MazeInfo /\ Target(p) = b /\ heap[b].lay \in Layouts
  BY <1>1, <1>2, SoundUse
<1>4. m \in MazeInfo /\ m.lay = heap[b].lay /\ m.pos = heap[b].lay.start
  <2>1. heap[b].lay.start \in Coord
    BY <1>3, LayoutType
  <2> QED BY <1>3, <2>1, MazeType DEF MazeInfo
<1>6. heap' = [heap EXCEPT ![b] = m]
  BY <1>3 DEF Reset
<1> HIDE DEF m
<1>7. Table(p)' /\ heap'[b] = m
  BY <1>1, <1>2, <1>4, <1>6, WriteTable
<1>8. Using(p)' /\ Changing(p)'
  BY <1>2 DEF Using, Halfway, WithMaze, HeldInRegister, Changing, Leaving, Filling, Making, NoSlot
<1>9. view'[p] # NULL => view[p] # NULL
  BY DEF Reset
<1>10. First(p)'
  BY <1>1, <1>2, <1>9 DEF Alone, First, Filling, Making, NoSlot
<1>11. Account(p)'
  <2>1. ASSUME view[p] # NULL PROVE SameAs(heap'[info'[0]], view'[p])
    <3>1. UserIndex(p) = 0 /\ Agrees(p) /\ view[p] \in MazeInfo
      BY <1>2, <2>1, SameMaze
    <3>2. heap[b].lay = view[p].lay
      BY <1>1, <3>1 DEF Agrees, SameAs, Storing
    <3>3. view'[p].lay = view[p].lay /\ view'[p].pos = view[p].lay.start
      BY <1>1, <2>1, <3>1 DEF Reset, MazeInfo
    <3> QED BY <1>1, <1>4, <1>7, <3>1, <3>2, <3>3 DEF SameAs
  <2> QED BY <1>2, <1>9, <2>1 DEF Account, Agrees, Storing
<1> QED BY <1>7, <1>8, <1>10, <1>11 DEF Alone

LEMMA DestroyAlone ==
    ASSUME TypeOK, NEW p \in Procs, Alone(p), Destroy(p) PROVE Alone(p)'
<1> DEFINE n == UserIndex(p)
           b == info[n]
<1>1. /\ UNCHANGED <<pids, info, view, fault, ret>> /\ pc[p] = "DESTROY" /\ pc[p] \in WithMaze
      /\ Goto(p, "destroy_null") /\ index' = n
      /\ heap \in [Blocks -> MazeInfo \cup {Freed, Raw}] /\ info \in [Slots -> Pointer]
  BY DEF Destroy, Uses, history, table, WithMaze, TypeOK, GlobalTypes
<1>2. pc'[p] = "destroy_null" /\ Answers(p)'
  BY <1>1, GotoAnswers DEF Alone, Account
<1>3. n \in Slots /\ b \in Blocks /\ b # NULL /\ Target(p) = b /\ UserIndex(p)' = n
  BY <1>1, SoundUse, SameIndex
<1>4. heap' = [heap EXCEPT ![b] = Freed]
  BY <1>3 DEF Destroy
<1>5. \A i \in Slots \ {n} : info[i] # NULL =>
         info[i] # b /\ info[i] \in Blocks /\ heap[info[i]] \notin {Freed, Raw}
  BY <1>1, <1>3 DEF Alone, Table, Loose, Making, Pointer
<1>6. heap'[b] = Freed /\ \A x \in Blocks \ {b} : heap'[x] = heap[x]
  BY <1>1, <1>3, <1>4
<1> HIDE DEF b, n
<1>7. Table(p)'
  <2>1. \A i \in Slots : info'[i] # NULL =>
           /\ heap'[info'[i]] = Freed => Loose(p, i)'
           /\ heap'[info'[i]] = Raw => pc'[p] \in Making /\ i = loc'[p].idx
    <3> TAKE i \in Slots
    <3>1. CASE i = n
      BY <1>1, <1>2, <1>6, <3>1, ContentAssumption DEF Loose, b
    <3>2. CASE i # n
      BY <1>1, <1>5, <1>6, <3>2
    <3> QED BY <3>1, <3>2
  <2>2. OnlyNullFaults'
    BY <1>1, <1>6 DEF Alone, Table, OnlyNullFaults
  <2> QED BY <1>1, <2>1, <2>2 DEF Alone, Table
<1>8. Using(p)'
  BY <1>2 DEF Using, Halfway, WithMaze, HeldInRegister
<1>9. Changing(p)'
  BY <1>1, <1>2, <1>3 DEF Changing, Leaving, Filling, Making, NoSlot, n
<1>10. First(p)' /\ Account(p)'
  BY <1>1, <1>2 DEF Alone, First, Account, Filling, Making, NoSlot
<1> QED BY <1>7, <1>8, <1>9, <1>10 DEF Alone

LEMMA DestroyNullAlone ==
    ASSUME TypeOK, NEW p \in Procs, Alone(p), DestroyNull(p) PROVE Alone(p)'
<1>1. /\ UNCHANGED <<pids, heap>> /\ pc[p] = "destroy_null" /\ Done(p, "DESTROY", "OK")
      /\ info \in [Slots -> Pointer] /\ view \in [Procs -> MazeInfo \cup {NULL}]
  BY DEF DestroyNull, TypeOK, GlobalTypes, HistoryTypes
<1>2. pc'[p] = "user" /\ Answers(p)'
  BY <1>1, DoneAnswers DEF Done
<1>3. index \in Slots
  BY <1>1 DEF Alone, Changing
<1>4. /\ fault' = fault /\ view'[p] = NULL
      /\ info'[index] = NULL /\ \A i \in Slots \ {index} : info'[i] = info[i]
  BY <1>1, <1>3 DEF DestroyNull
<1>5. \A i \in Slots \ {index} : info[i] # NULL => heap[info[i]] \notin {Freed, Raw}
  BY <1>1 DEF Alone, Table, Loose, Making
<1>6. Table(p)'
  <2>1. \A i \in Slots : pids'[i] = NoPid => info'[i] = NULL
    BY <1>1, <1>4 DEF Alone, Table
  <2>2. \A i, j \in Slots : info'[i] # NULL /\ info'[i] = info'[j] => i = j
    BY <1>4 DEF Alone, Table
  <2>3. \A i \in Slots : info'[i] # NULL => heap'[info'[i]] \notin {Freed, Raw}
    BY <1>1, <1>4, <1>5
  <2>4. OnlyNullFaults'
    BY <1>1, <1>4 DEF Alone, Table, OnlyNullFaults
  <2> QED BY <2>1, <2>2, <2>3, <2>4 DEF Table
<1>7. Using(p)' /\ Changing(p)'
  BY <1>2 DEF Using, Halfway, WithMaze, HeldInRegister, Changing, Leaving, Filling, Making, NoSlot
<1>8. First(p)' /\ Account(p)'
  BY <1>2, <1>4 DEF First, Account, Filling, Making, NoSlot
<1> QED BY <1>6, <1>7, <1>8 DEF Alone

LEMMA GetAlone ==
    ASSUME TypeOK, NEW p \in Procs, Alone(p), NEW c \in GetRequests, Get(p, c)
    PROVE  Alone(p)'
<1>1. /\ UNCHANGED <<pids, info, heap, view, fault, ret>> /\ pc[p] = c /\ pc[p] \in WithMaze
      /\ pc'[p] = "get_copy" /\ tmp' = Field(heap[Target(p)], c) /\ loc'[p].cmd = c
  BY DEF Get, Uses, globals, history, GetRequests, WithMaze, Goto, TypeOK, ProcessTypes, Locals
<1>2. pc[p] \notin Moving /\ pc[p] # "user" /\ fault' \subseteq {"null", "stray"}
  BY <1>1 DEF Moving, Carried, Storing, Making, WithMaze, GetRequests, Alone, Table, OnlyNullFaults
<1>3. c = "GETPOS" /\ Expects(p) => tmp' = view[p].pos
  <2> HAVE c = "GETPOS" /\ Expects(p)
  <2>1. heap[info[0]].pos = view[p].pos /\ Target(p) = info[0]
    BY <1>1, SameMaze, SoundUse DEF Agrees, SameAs, Expects, WithMaze, Storing, GetRequests
  <2> QED BY <1>1, <2>1 DEF Field
<1>4. Answers(p)'
  BY <1>1, <1>2, <1>3 DEF Alone, Account, Answers, Expects
<1> QED BY <1>1, <1>2, <1>4, RestStep DEF Resting

LEMMA GetCopyAlone ==
    ASSUME TypeOK, NEW p \in Procs, Alone(p), GetCopy(p) PROVE Alone(p)'
<1>1. /\ UNCHANGED <<pids, info, heap, view, fault>> /\ pc[p] = "get_copy"
      /\ pc \in [Procs -> Labels] /\ ret \in [Procs -> Results]
  BY DEF GetCopy, globals, statics, history, TypeOK, ProcessTypes
<1>2. pc[p] \notin Moving /\ fault' \subseteq {"null", "stray"}
  BY <1>1 DEF Moving, Carried, Storing, Making, Alone, Table, OnlyNullFaults
<1>3. CASE Return(p, loc[p].cmd, "OK", tmp)
  <2>1. pc'[p] = "user" /\ ret'[p] = [op |-> loc[p].cmd, err |-> "OK", val |-> tmp]
    BY <1>1, <1>3 DEF Return, Goto
  <2>2. Answers(p)'
    BY <1>1, <2>1 DEF Alone, Account, Answers, Expects
  <2> QED BY <1>1, <1>2, <2>1, <2>2, RestStep DEF Resting
<1>4. CASE Done(p, loc[p].cmd, "EBUSY")
  <2>1. pc'[p] = "user" /\ Answers(p)'
    BY <1>4, DoneAnswers DEF Done
  <2> QED BY <1>1, <1>2, <2>1, RestStep DEF Resting
<1> QED BY <1>3, <1>4 DEF GetCopy

(* MOVE: the caller counts on the move before the driver looks at the cell.   *)
LEMMA ExpectWalk ==
    ASSUME TypeOK, NEW p \in Procs, NEW d, Expect(p, d)
    PROVE  view'[p] # NULL => view[p] # NULL /\ view'[p] = Walk(view[p], d)
  BY DEF Expect, TypeOK, HistoryTypes

(* Two that agree agree after the same move; and the driver's step is the     *)
(* caller's, unless the caller has lost its way.                              *)
LEMMA WalkSame ==
    ASSUME NEW m \in MazeInfo, NEW v \in MazeInfo, NEW d, SameAs(m, v)
    PROVE  SameAs(Walk(m, d), Walk(v, d))
<1>1. Walk(m, d).lay = m.lay /\ Walk(v, d).lay = v.lay
  BY DEF Walk, MazeInfo
<1>2. v.pos = Lost => Walk(v, d) = v
  BY DEF Walk
<1>3. m.pos = v.pos => Walk(m, d).pos = Walk(v, d).pos
  BY DEF Walk, Grid, SameAs, MazeInfo
<1> QED BY <1>1, <1>2, <1>3 DEF SameAs

LEMMA WalkTaken ==
    ASSUME NEW m \in MazeInfo, NEW v, NEW d, SameAs(Walk(m, d), v), NEW c, c = Plus(m.pos, d)
    PROVE  /\ Stays(m, c) => SameAs(m, v)
           /\ Moves(m, c) => SameAs([m EXCEPT !.pos = c], v)
<1>1. Walk(m, d).lay = m.lay /\ [m EXCEPT !.pos = c].lay = m.lay /\ [m EXCEPT !.pos = c].pos = c
  BY DEF Walk, MazeInfo
<1>2. v.lay = m.lay
  BY <1>1 DEF SameAs
<1>3. CASE v.pos = Lost
  BY <1>1, <1>2, <1>3 DEF SameAs
<1>4. CASE v.pos # Lost
  <2>1. Walk(m, d).pos = v.pos
    BY <1>4 DEF SameAs
  <2>2. CASE c \in Grid(m) \ m.lay.open
    <3>1. ~Moves(m, c) /\ m.pos = v.pos
      BY <2>1, <2>2 DEF Moves, ReadsWall, Walk
    <3> QED BY <1>2, <3>1 DEF SameAs
  <2>3. CASE c \notin Grid(m) \ m.lay.open
    <3>1. m.pos # Lost
      BY <1>4, <2>1 DEF Walk
    <3>2. v.pos = IF c \in m.lay.open THEN c ELSE Lost
      BY <2>1, <2>3, <3>1 DEF Walk, MazeInfo
    <3>3. ~Stays(m, c) /\ v.pos = c
      BY <1>4, <3>2 DEF Stays, ReadsOpen
    <3> QED BY <1>1, <1>2, <3>3 DEF SameAs
  <2> QED BY <2>2, <2>3
<1> QED BY <1>3, <1>4

LEMMA MoveCopyAlone ==
    ASSUME TypeOK, NEW p \in Procs, Alone(p), MoveCopy(p) PROVE Alone(p)'
<1>1. /\ UNCHANGED <<pids, info, heap, fault>> /\ pc[p] = "MOVE" /\ pc[p] \in WithMaze
  BY DEF MoveCopy, globals, WithMaze
<1>2. pc[p] \notin Moving /\ fault' \subseteq {"null", "stray"}
  BY <1>1 DEF Moving, Carried, Storing, Making, Alone, Table, OnlyNullFaults
<1>3. CASE Done(p, "MOVE", "EBUSY") /\ UNCHANGED <<coord_move, view>>
  <2>1. pc'[p] = "user" /\ Answers(p)'
    BY <1>3, DoneAnswers DEF Done
  <2> QED BY <1>1, <1>2, <1>3, <2>1, RestStep DEF Resting
<1>4. ASSUME NEW d, coord_move' = d, Expect(p, d), Goto(p, "move_use"),
             UNCHANGED <<loc, ret>>
      PROVE  Alone(p)'
  <2>1. pc'[p] = "move_use" /\ Answers(p)'
    BY <1>1, <1>4, GotoAnswers DEF Alone, Account
  <2>2. Table(p)'
    BY <1>1, <1>2, KeepTable DEF Alone, Making
  <2>3. HaveMaze(p)'
    BY <1>1, SameIndex DEF Alone, Using, HaveMaze
  <2>4. Using(p)'
    BY <2>1, <2>3 DEF Using, Halfway, HeldInRegister
  <2>5. Changing(p)'
    BY <2>1 DEF Changing, Leaving, Filling, Making, NoSlot
  <2>6. view'[p] # NULL => view[p] # NULL /\ view'[p] = Walk(view[p], d)
    BY <1>4, ExpectWalk
  <2>7. First(p)'
    BY <1>1, <2>1, <2>6 DEF Alone, First, Filling, Making, NoSlot
  <2>8. Account(p)'
    <3>1. view[p] # NULL => /\ SameAs(heap[info[0]], view[p]) /\ view[p] \in MazeInfo
                            /\ heap[info[0]] \in MazeInfo
      BY <1>1, SameMaze, SoundUse DEF Agrees, Storing
    <3>2. view'[p] # NULL => SameAs(Walk(heap[info[0]], d), view'[p])
      BY <2>6, <3>1, WalkSame
    <3>3. view'[p] # NULL => Walk(heap'[info'[0]], coord_move') = Walk(heap[info[0]], d)
      BY <1>1, <1>4 DEF Walk, Grid
    <3>4. view'[p] # NULL => Agrees(p)'
      BY <2>1, <3>2, <3>3 DEF Agrees
    <3> QED BY <2>1, <3>4 DEF Account
  <2> QED BY <2>2, <2>4, <2>5, <2>7, <2>8 DEF Alone
<1> QED BY <1>3, <1>4 DEF MoveCopy

LEMMA MoveUseAlone ==
    ASSUME TypeOK, NEW p \in Procs, Alone(p), MoveUse(p) PROVE Alone(p)'
<1> DEFINE b == info[UserIndex(p)]
<1>1. /\ UNCHANGED <<pids, info, heap, coord_move, view, fault, ret>> /\ pc[p] = "move_use"
      /\ pc[p] \in WithMaze /\ loc \in [Procs -> Locals] /\ coord_move \in Coord
  BY DEF MoveUse, Uses, globals, history, WithMaze, TypeOK, ProcessTypes, StaticTypes
<1>2. Target(p) = b /\ UserIndex(p)' = UserIndex(p)
  BY <1>1, SoundUse, SameIndex
<1>3. pc'[p] = "move_test" /\ Answers(p)'
  BY <1>1, GotoAnswers DEF MoveUse, Alone, Account
<1>4. loc'[p].blk = b /\ loc'[p].tgt = <<0, coord_move[2]>>
  BY <1>1, <1>2 DEF MoveUse, Locals
<1>5. Table(p)'
  BY <1>1, KeepTable DEF Alone, Table, OnlyNullFaults, Making
<1>6. HaveMaze(p)'
  BY <1>1, SameIndex DEF Alone, Using, HaveMaze
<1>7. Using(p)'
  BY <1>1, <1>2, <1>3, <1>4, <1>6 DEF Using, Halfway
<1>8. Changing(p)'
  BY <1>3 DEF Changing, Leaving, Filling, Making, NoSlot
<1>9. First(p)'
  BY <1>1, <1>3 DEF Alone, First, Filling, Making, NoSlot
<1>10. Account(p)'
  <2>1. view[p] # NULL /\ info[0] # NULL => SameAs(Walk(heap[info[0]], coord_move), view[p])
    BY <1>1 DEF Alone, Account, Agrees
  <2>2. Walk(heap[info[0]], coord_move)' = Walk(heap[info[0]], coord_move)
    BY <1>1 DEF Walk, Grid
  <2> QED BY <1>1, <1>3, <2>1, <2>2 DEF Account, Agrees
<1> QED BY <1>5, <1>7, <1>8, <1>9, <1>10 DEF Alone

LEMMA MoveTestAlone ==
    ASSUME TypeOK, NEW p \in Procs, Alone(p), MoveTest(p) PROVE Alone(p)'
<1> DEFINE b == info[UserIndex(p)]
           m == heap[b]
           c == Plus(m.pos, coord_move)
<1>1. /\ UNCHANGED <<pids, info, heap, view>> /\ pc[p] = "move_test"
      /\ pc[p] \in WithMaze /\ loc \in [Procs -> Locals] /\ coord_move \in Coord
  BY DEF MoveTest, Uses, globals, WithMaze, TypeOK, ProcessTypes, StaticTypes
<1>2. loc[p].blk = b /\ m \in MazeInfo /\ UserIndex(p)' = UserIndex(p)
  BY <1>1, SoundUse, SameIndex DEF Alone, Using, HeldInRegister
<1>3. <<coord_move[1], loc[p].tgt[2]>> = coord_move
  BY <1>1 DEF Alone, Using, Halfway, Coord
<1>4. /\ fault' = fault \cup Strays(c)
      /\ \/ Stays(m, c) /\ Done(p, "MOVE", "OK")
         \/ /\ Moves(m, c) /\ Goto(p, "store_x")
            /\ loc' = [loc EXCEPT ![p].tgt = c] /\ UNCHANGED ret
         \/ Goto(p, "oops") /\ UNCHANGED ret
  BY <1>2, <1>3 DEF MoveTest
<1>5. Table(p)'
  <2>1. fault' \subseteq {"null", "stray"}
    BY <1>4 DEF Strays, Alone, Table, OnlyNullFaults
  <2> QED BY <1>1, <2>1, KeepTable DEF Alone, Making
<1>6. view[p] # NULL => UserIndex(p) = 0 /\ SameAs(Walk(m, coord_move), view[p])
  BY <1>1, SameMaze DEF Agrees
<1>7. view[p] # NULL => /\ Stays(m, c) => SameAs(m, view[p])
                        /\ Moves(m, c) => SameAs([m EXCEPT !.pos = c], view[p])
  BY <1>2, <1>6, WalkTaken
<1> HIDE DEF c
<1>8. CASE Stays(m, c) /\ Done(p, "MOVE", "OK")
  <2>1. pc'[p] = "user" /\ Answers(p)'
    BY <1>8, DoneAnswers DEF Done
  <2>2. Using(p)' /\ Changing(p)'
    BY <2>1 DEF Using, Halfway, WithMaze, HeldInRegister, Changing, Leaving, Filling, Making, NoSlot
  <2>3. First(p)'
    BY <1>1, <2>1 DEF Alone, First, Filling, Making, NoSlot
  <2>4. Account(p)'
    BY <1>1, <1>6, <1>7, <1>8, <2>1 DEF Account, Agrees, Storing
  <2> QED BY <1>5, <2>2, <2>3, <2>4 DEF Alone
<1>9. CASE /\ Moves(m, c) /\ Goto(p, "store_x")
           /\ loc' = [loc EXCEPT ![p].tgt = c] /\ UNCHANGED ret
  <2>1. pc'[p] = "store_x" /\ Answers(p)'
    BY <1>1, <1>9, GotoAnswers DEF Alone, Account
  <2>2. loc'[p].blk = b /\ loc'[p].tgt = c
    BY <1>1, <1>2, <1>9 DEF Locals
  <2>3. HaveMaze(p)'
    BY <1>1, SameIndex DEF Alone, Using, HaveMaze
  <2>4. Using(p)'
    BY <1>1, <1>2, <2>1, <2>2, <2>3 DEF Using, Halfway
  <2>5. Changing(p)'
    BY <2>1 DEF Changing, Leaving, Filling, Making, NoSlot
  <2>6. First(p)'
    BY <1>1, <2>1 DEF Alone, First, Filling, Making, NoSlot
  <2>7. Account(p)'
    BY <1>1, <1>6, <1>7, <1>9, <2>1, <2>2 DEF Account, Agrees, Storing
  <2> QED BY <1>5, <2>4, <2>5, <2>6, <2>7 DEF Alone
<1>10. CASE Goto(p, "oops") /\ UNCHANGED ret
  <2>1. pc'[p] = "oops" /\ Answers(p)'
    BY <1>1, <1>10, GotoAnswers DEF Alone, Account
  <2>2. Using(p)' /\ Changing(p)'
    BY <2>1 DEF Using, Halfway, WithMaze, HeldInRegister, Changing, Leaving, Filling, Making, NoSlot
  <2>3. First(p)' /\ Account(p)'
    BY <1>1, <2>1 DEF Alone, First, Account, Filling, Making, NoSlot
  <2> QED BY <1>5, <2>2, <2>3 DEF Alone
<1> QED BY <1>4, <1>8, <1>9, <1>10

LEMMA StoreXAlone ==
    ASSUME TypeOK, NEW p \in Procs, Alone(p), StoreX(p) PROVE Alone(p)'
<1> DEFINE b == info[UserIndex(p)]
           t == loc[p].tgt
           m == [heap[b] EXCEPT !.pos[1] = t[1]]
<1>1. /\ UNCHANGED <<pids, info, fault, view, loc, ret>> /\ pc[p] = "store_x"
      /\ pc[p] \in WithMaze /\ Goto(p, "store_y") /\ loc[p] \in Locals
  BY DEF StoreX, Uses, table, statics, history, WithMaze, TypeOK, ProcessTypes
<1>2. pc'[p] = "store_y" /\ Answers(p)'
  BY <1>1, GotoAnswers DEF Alone, Account
<1>3. heap[b] \in MazeInfo /\ loc[p].blk = b
  BY <1>1, SoundUse DEF Alone, Using, HeldInRegister
<1>4. t \in Coord /\ heap[b].pos \in Coord
  BY <1>1, <1>3, MazeType DEF Locals
<1>5. m \in MazeInfo /\ m.lay = heap[b].lay /\ m.pos = <<t[1], heap[b].pos[2]>>
  BY <1>3, <1>4, MazeType DEF MazeInfo, Coord
<1>6. [m EXCEPT !.pos = t] = [heap[b] EXCEPT !.pos = t]
  BY <1>3, <1>4, <1>5 DEF MazeInfo
<1>7. heap' = [heap EXCEPT ![b] = m]
  BY <1>3 DEF StoreX
<1> HIDE DEF m
<1>8. Table(p)' /\ heap'[b] = m /\ b # NULL /\ UserIndex(p)' = UserIndex(p)
  BY <1>1, <1>5, <1>7, WriteTable
<1>9. HaveMaze(p)'
  BY <1>1, SameIndex DEF Alone, Using, HaveMaze
<1>10. heap'[loc'[p].blk].pos[1] = loc'[p].tgt[1]
  BY <1>1, <1>3, <1>4, <1>5, <1>8
<1>11. Using(p)'
  BY <1>1, <1>2, <1>3, <1>8, <1>9, <1>10 DEF Using, Halfway
<1>12. Changing(p)'
  BY <1>2 DEF Changing, Leaving, Filling, Making, NoSlot
<1>13. First(p)'
  BY <1>1, <1>2 DEF Alone, First, Filling, Making, NoSlot
<1>14. Account(p)'
  <2>1. view[p] # NULL => UserIndex(p) = 0 /\ SameAs([heap[b] EXCEPT !.pos = t], view[p])
    BY <1>1, SameMaze DEF Agrees, Storing
  <2> QED BY <1>1, <1>2, <1>6, <1>8, <2>1 DEF Account, Agrees, Storing
<1> QED BY <1>8, <1>11, <1>12, <1>13, <1>14 DEF Alone

LEMMA StoreYAlone ==
    ASSUME TypeOK, NEW p \in Procs, Alone(p), StoreY(p) PROVE Alone(p)'
<1> DEFINE b == info[UserIndex(p)]
           t == loc[p].tgt
           m == [heap[b] EXCEPT !.pos[2] = t[2]]
<1>1. /\ UNCHANGED <<pids, info, fault, view>> /\ pc[p] = "store_y"
      /\ pc[p] \in WithMaze /\ loc[p] \in Locals
  BY DEF StoreY, Uses, table, statics, history, WithMaze, TypeOK, ProcessTypes
<1>2. /\ pc'[p] \in {"user", "write_step"} /\ Answers(p)'
      /\ pc'[p] = "write_step" => loc' = loc
  <2>1. CASE Done(p, "MOVE", "OK")
    BY <2>1, DoneAnswers DEF Done
  <2>2. CASE Goto(p, "write_step") /\ UNCHANGED <<loc, ret>>
    BY <1>1, <2>2, GotoAnswers DEF Alone, Account
  <2> QED BY <2>1, <2>2 DEF StoreY
<1>3. heap[b] \in MazeInfo /\ loc[p].blk = b
  BY <1>1, SoundUse DEF Alone, Using, HeldInRegister
<1>4. t \in Coord /\ heap[b].pos \in Coord /\ heap[b].pos[1] = t[1]
  BY <1>1, <1>3, MazeType DEF Alone, Using, Halfway, Locals
<1>5. m \in MazeInfo /\ m.lay = heap[b].lay /\ m.pos = t
  BY <1>3, <1>4, MazeType DEF MazeInfo, Coord
<1>6. [heap[b] EXCEPT !.pos = t] = m
  BY <1>3, <1>5 DEF MazeInfo
<1>7. heap' = [heap EXCEPT ![b] = m]
  BY <1>3 DEF StoreY
<1> HIDE DEF m
<1>8. Table(p)' /\ heap'[b] = m /\ UserIndex(p)' = UserIndex(p)
  BY <1>1, <1>5, <1>7, WriteTable
<1>9. HaveMaze(p)'
  BY <1>1, SameIndex DEF Alone, Using, HaveMaze
<1>10. Using(p)'
  BY <1>1, <1>2, <1>3, <1>8, <1>9 DEF Using, Halfway, WithMaze, HeldInRegister
<1>11. Changing(p)'
  BY <1>2 DEF Changing, Leaving, Filling, Making, NoSlot
<1>12. First(p)'
  BY <1>1, <1>2 DEF Alone, First, Filling, Making, NoSlot
<1>13. Account(p)'
  <2>1. view[p] # NULL => UserIndex(p) = 0 /\ SameAs(m, view[p])
    BY <1>1, <1>6, SameMaze DEF Agrees, Storing
  <2> QED BY <1>1, <1>2, <1>8, <2>1 DEF Account, Agrees, Storing
<1> QED BY <1>8, <1>10, <1>11, <1>12, <1>13 DEF Alone
-----------------------------------------------------------------------------
(* read and write: nobody else moves their static index.                      *)
LEMMA ReadAlone ==
    ASSUME TypeOK, NEW p \in Procs, Alone(p), Read(p) PROVE Alone(p)'
<1>1. /\ UNCHANGED <<pids, info, heap, view>> /\ pc[p] = "user" /\ read_index' = UserIndex(p)
      /\ UserIndex(p)' = UserIndex(p) /\ loc \in [Procs -> Locals]
  BY SameIndex DEF Read, Request, globals, TypeOK, ProcessTypes
<1>2. pc[p] \notin Moving /\ fault \subseteq {"null", "stray"}
  BY <1>1 DEF Alone, Table, OnlyNullFaults, Moving, Carried, Storing, Making
<1>3. CASE NoMazeError(p, "READ")
  <2>1. pc'[p] = "user" /\ Answers(p)'
    BY <1>3, DoneAnswers DEF NoMazeError, Done
  <2> QED BY <1>1, <1>2, <1>3, <2>1, RestStep DEF Resting, NoMazeError
<1>4. CASE /\ HaveMaze(p) /\ Enter(p, "read_fill")
           /\ LET m == heap[info[UserIndex(p)]] IN
              \/ /\ m \notin {Freed, Raw}
                 /\ loc' = [loc EXCEPT ![p].size = m.lay.size] /\ UNCHANGED fault
              \/ /\ m \in {Freed, Raw}
                 /\ fault' = fault \cup {"uaf"} /\ UNCHANGED loc
  <2>1. pc'[p] = "read_fill" /\ Answers(p)'
    BY <1>4, EnterAnswers
  <2>2. heap[info[UserIndex(p)]] \notin {Freed, Raw}
    BY <1>1, <1>4, OwnMaze DEF Alone, Making
  <2>3. fault' = fault /\ loc'[p].size = heap[info[UserIndex(p)]].lay.size
    BY <1>1, <1>4, <2>2 DEF Locals
  <2>4. HaveMaze(p)'
    BY <1>1, <1>4 DEF HaveMaze
  <2>5. Using(p)' /\ pc'[p] \notin Carried
    BY <1>1, <2>1, <2>3, <2>4 DEF Using, HeldInRegister, Halfway, Carried, Storing
  <2>6. Changing(p)'
    BY <2>1 DEF Changing, Leaving, Filling, Making, NoSlot
  <2>7. First(p)'
    BY <1>1, <2>1 DEF Alone, First, Filling, Making, NoSlot
  <2> QED BY <1>1, <1>2, <2>1, <2>3, <2>5, <2>6, <2>7, StillStep
<1> QED BY <1>3, <1>4 DEF Read

LEMMA ReadFillAlone ==
    ASSUME TypeOK, NEW p \in Procs, Alone(p), ReadFill(p) PROVE Alone(p)'
<1>1. /\ UNCHANGED <<pids, info, heap, view, read_index>> /\ pc[p] = "read_fill"
      /\ pc[p] \in WithMaze /\ UserIndex(p)' = UserIndex(p)
  BY SameIndex DEF ReadFill, Uses, globals, statics, WithMaze
<1>2. fault' = fault
  <2>1. heap[Target(p)].lay \in Layouts /\ loc[p].size = heap[Target(p)].lay.size
    BY <1>1, SoundUse DEF Alone, Using
  <2>2. Area(heap[Target(p)]) = loc[p].size[1] * loc[p].size[2]
    BY <2>1 DEF Area
  <2>3. loc[p].size[1] \in Int /\ loc[p].size[2] \in Int
    BY <2>1, LayoutType DEF Coord
  <2>4. \A a, b \in Int : ~ (a * b > a * b)
    OBVIOUS
  <2>5. ~ (Area(heap[Target(p)]) > loc[p].size[1] * loc[p].size[2])
    BY <2>2, <2>3, <2>4
  <2> QED BY <2>5 DEF ReadFill
<1>3. pc[p] \notin Moving /\ fault' \subseteq {"null", "stray"}
  BY <1>1, <1>2 DEF Alone, Table, OnlyNullFaults, Moving, Carried, Storing, Making
<1>4. CASE Done(p, "READ", "EBUSY")
  <2>1. pc'[p] = "user" /\ Answers(p)'
    BY <1>4, DoneAnswers DEF Done
  <2> QED BY <1>1, <1>3, <2>1, RestStep DEF Resting
<1>5. CASE Goto(p, "read_ret") /\ UNCHANGED <<loc, ret>>
  <2>1. pc'[p] = "read_ret" /\ Answers(p)'
    BY <1>1, <1>5, GotoAnswers DEF Alone, Account
  <2>2. HaveMaze(p)' /\ read_index' = UserIndex(p)'
    BY <1>1 DEF Alone, Using, HaveMaze
  <2>3. Using(p)' /\ pc'[p] \notin Carried
    BY <2>1, <2>2 DEF Using, HeldInRegister, Halfway, Carried, Storing
  <2>4. Changing(p)'
    BY <2>1 DEF Changing, Leaving, Filling, Making, NoSlot
  <2>5. First(p)'
    BY <1>1, <2>1 DEF Alone, First, Filling, Making, NoSlot
  <2> QED BY <1>1, <1>3, <2>1, <2>3, <2>4, <2>5, StillStep
<1> QED BY <1>4, <1>5 DEF ReadFill

LEMMA WriteAlone ==
    ASSUME TypeOK, NEW p \in Procs, Alone(p), Write(p) PROVE Alone(p)'
<1>1. /\ UNCHANGED <<pids, info, heap, view, fault>> /\ pc[p] = "user"
      /\ write_index' = UserIndex(p) /\ UserIndex(p)' = UserIndex(p)
  BY SameIndex DEF Write, Request, globals, NoMazeError
<1>2. pc[p] \notin Moving /\ fault' \subseteq {"null", "stray"}
  BY <1>1 DEF Alone, Table, OnlyNullFaults, Moving, Carried, Storing, Making
<1>3. CASE NoMazeError(p, "WRITE")
  <2>1. pc'[p] = "user" /\ Answers(p)'
    BY <1>3, DoneAnswers DEF NoMazeError, Done
  <2> QED BY <1>1, <1>2, <2>1, RestStep DEF Resting
<1>4. CASE HaveMaze(p) /\ Enter(p, "write_copy")
  <2>1. pc'[p] = "write_copy" /\ Answers(p)'
    BY <1>4, EnterAnswers
  <2>2. HaveMaze(p)'
    BY <1>1, <1>4 DEF HaveMaze
  <2>3. Using(p)' /\ pc'[p] \notin Carried
    BY <1>1, <2>1, <2>2 DEF Using, HeldInRegister, Halfway, Carried, Storing
  <2>4. Changing(p)'
    BY <2>1 DEF Changing, Leaving, Filling, Making, NoSlot
  <2>5. First(p)'
    BY <1>1, <2>1 DEF Alone, First, Filling, Making, NoSlot
  <2> QED BY <1>1, <1>2, <2>1, <2>3, <2>4, <2>5, StillStep
<1> QED BY <1>3, <1>4 DEF Write

LEMMA WriteCopyAlone ==
    ASSUME TypeOK, NEW p \in Procs, Alone(p), WriteCopy(p) PROVE Alone(p)'
<1>1. /\ UNCHANGED <<pids, info, heap, view, fault, write_index>> /\ pc[p] = "write_copy"
      /\ UserIndex(p)' = UserIndex(p)
  BY SameIndex DEF WriteCopy, globals, statics, history
<1>2. pc[p] \notin Moving /\ fault' \subseteq {"null", "stray"}
  BY <1>1 DEF Alone, Table, OnlyNullFaults, Moving, Carried, Storing, Making
<1>3. CASE \E err \in {"EBUSY", "EINVAL", "OK"} : Done(p, "WRITE", err)
  <2>1. pc'[p] = "user" /\ Answers(p)'
    BY <1>3, DoneAnswers DEF Done
  <2> QED BY <1>1, <1>2, <2>1, RestStep DEF Resting
<1>4. CASE Goto(p, "write_load") /\ UNCHANGED ret
  <2>1. pc'[p] = "write_load" /\ Answers(p)'
    BY <1>1, <1>4, GotoAnswers DEF Alone, Account
  <2>2. HaveMaze(p)' /\ write_index' = UserIndex(p)'
    BY <1>1 DEF Alone, Using, WithMaze, HaveMaze
  <2>3. Using(p)' /\ pc'[p] \notin Carried
    BY <2>1, <2>2 DEF Using, HeldInRegister, Halfway, Carried, Storing
  <2>4. Changing(p)'
    BY <2>1 DEF Changing, Leaving, Filling, Making, NoSlot
  <2>5. First(p)'
    BY <1>1, <2>1 DEF Alone, First, Filling, Making, NoSlot
  <2> QED BY <1>1, <1>2, <2>1, <2>3, <2>4, <2>5, StillStep
<1> QED BY <1>3, <1>4 DEF WriteCopy

LEMMA WriteLoadAlone ==
    ASSUME TypeOK, NEW p \in Procs, Alone(p), WriteLoad(p) PROVE Alone(p)'
<1>1. /\ UNCHANGED <<pids, info, heap, view, fault>> /\ pc[p] = "write_load"
      /\ pc[p] \in WithMaze /\ UserIndex(p)' = UserIndex(p) /\ loc \in [Procs -> Locals]
  BY SameIndex DEF WriteLoad, Uses, globals, statics, history, WithMaze, TypeOK, ProcessTypes
<1>2. pc[p] \notin Moving /\ fault' \subseteq {"null", "stray"}
  BY <1>1 DEF Alone, Table, OnlyNullFaults, Moving, Carried, Storing, Making
<1>3. pc'[p] = "write_step" /\ Answers(p)'
  BY <1>1, GotoAnswers DEF WriteLoad, Alone, Account
<1>4. loc'[p].blk = info[UserIndex(p)]
  <2>1. Target(p) = info[UserIndex(p)]
    BY <1>1, SoundUse
  <2> QED BY <1>1, <2>1 DEF WriteLoad, Locals
<1>5. HaveMaze(p)'
  BY <1>1 DEF Alone, Using, HaveMaze
<1>6. Using(p)' /\ pc'[p] \notin Carried
  BY <1>1, <1>3, <1>4, <1>5 DEF Using, Halfway, Carried, Storing
<1>7. Changing(p)'
  BY <1>3 DEF Changing, Leaving, Filling, Making, NoSlot
<1>8. First(p)'
  BY <1>1, <1>3 DEF Alone, First, Filling, Making, NoSlot
<1> QED BY <1>1, <1>2, <1>3, <1>6, <1>7, <1>8, StillStep

LEMMA WriteStepAlone ==
    ASSUME TypeOK, NEW p \in Procs, Alone(p), WriteStep(p) PROVE Alone(p)'
<1> DEFINE b == info[UserIndex(p)]
           m == heap[b]
           d == Head(loc[p].moves)
           c == Plus(m.pos, d)
<1>1. /\ UNCHANGED <<pids, info, heap>> /\ pc[p] = "write_step"
      /\ pc[p] \in WithMaze /\ loc \in [Procs -> Locals]
  BY DEF WriteStep, Uses, globals, WithMaze, TypeOK, ProcessTypes
<1>2. loc[p].blk = b /\ m \in MazeInfo /\ UserIndex(p)' = UserIndex(p)
  BY <1>1, SoundUse, SameIndex DEF Alone, Using, HeldInRegister
<1>3. pc[p] \notin Moving /\ fault \subseteq {"null", "stray"}
  BY <1>1 DEF Alone, Table, OnlyNullFaults, Moving, Carried, Storing, Making
<1>4. CASE loc[p].moves = <<>>
  <2>1. Done(p, "WRITE", "OK") /\ UNCHANGED <<view, fault>>
    BY <1>4 DEF WriteStep, history
  <2>2. pc'[p] = "user" /\ Answers(p)'
    BY <2>1, DoneAnswers DEF Done
  <2> QED BY <1>1, <1>3, <2>1, <2>2, RestStep DEF Resting
<1>5. CASE loc[p].moves # <<>>
  <2>1. /\ Expect(p, d) /\ fault' = fault \cup Strays(c) /\ UNCHANGED ret
        /\ \/ /\ Stays(m, c) /\ UNCHANGED pc
              /\ loc' = [loc EXCEPT ![p] = [loc[p] EXCEPT !.moves = Tail(loc[p].moves)]]
           \/ /\ Moves(m, c) /\ Goto(p, "store_x")
              /\ loc' = [loc EXCEPT ![p] =
                            [loc[p] EXCEPT !.moves = Tail(loc[p].moves), !.tgt = c]]
           \/ Goto(p, "oops")
    BY <1>2, <1>5 DEF WriteStep
  <2>2. Table(p)'
    <3>1. fault' \subseteq {"null", "stray"}
      BY <1>3, <2>1 DEF Strays
    <3> QED BY <1>1, <3>1, KeepTable DEF Alone, Making
  <2>3. HaveMaze(p)'
    BY <1>1, <1>2 DEF Alone, Using, HaveMaze
  <2>4. view'[p] # NULL => view[p] # NULL /\ view'[p] = Walk(view[p], d)
    BY <2>1, ExpectWalk
  <2>5. view[p] # NULL => UserIndex(p) = 0 /\ SameAs(m, view[p]) /\ view[p] \in MazeInfo
    BY <1>1, SameMaze DEF Agrees, Storing
  <2>6. view'[p] # NULL => /\ Stays(m, c) => SameAs(m, view'[p])
                           /\ Moves(m, c) => SameAs([m EXCEPT !.pos = c], view'[p])
    <3> HAVE view'[p] # NULL
    <3>1. SameAs(Walk(m, d), view'[p])
      BY <1>2, <2>4, <2>5, WalkSame
    <3> QED BY <1>2, <3>1, WalkTaken
  <2> HIDE DEF c, d
  <2>7. CASE /\ Stays(m, c) /\ UNCHANGED pc
             /\ loc' = [loc EXCEPT ![p] = [loc[p] EXCEPT !.moves = Tail(loc[p].moves)]]
    <3>1. pc'[p] = "write_step" /\ Answers(p)' /\ loc'[p].blk = b
      BY <1>1, <1>2, <2>1, <2>7 DEF Alone, Account, Answers, Locals
    <3>2. Using(p)'
      BY <1>1, <1>2, <2>3, <3>1 DEF Using, Halfway
    <3>3. Changing(p)'
      BY <3>1 DEF Changing, Leaving, Filling, Making, NoSlot
    <3>4. First(p)'
      BY <1>1, <2>4, <3>1 DEF Alone, First, Filling, Making, NoSlot
    <3>5. Account(p)'
      BY <1>1, <2>4, <2>5, <2>6, <2>7, <3>1 DEF Account, Agrees, Storing
    <3> QED BY <2>2, <3>2, <3>3, <3>4, <3>5 DEF Alone
  <2>8. CASE /\ Moves(m, c) /\ Goto(p, "store_x")
             /\ loc' = [loc EXCEPT ![p] =
                           [loc[p] EXCEPT !.moves = Tail(loc[p].moves), !.tgt = c]]
    <3>1. pc'[p] = "store_x" /\ Answers(p)'
      BY <1>1, <2>1, <2>8, GotoAnswers DEF Alone, Account
    <3>2. loc'[p].blk = b /\ loc'[p].tgt = c
      BY <1>1, <1>2, <2>8 DEF Locals
    <3>3. Using(p)'
      BY <1>1, <1>2, <2>3, <3>1, <3>2 DEF Using, Halfway
    <3>4. Changing(p)'
      BY <3>1 DEF Changing, Leaving, Filling, Making, NoSlot
    <3>5. First(p)'
      BY <1>1, <2>4, <3>1 DEF Alone, First, Filling, Making, NoSlot
    <3>6. Account(p)'
      BY <1>1, <2>4, <2>5, <2>6, <2>8, <3>1, <3>2 DEF Account, Agrees, Storing
    <3> QED BY <2>2, <3>3, <3>4, <3>5, <3>6 DEF Alone
  <2>9. CASE Goto(p, "oops")
    <3>1. pc'[p] = "oops" /\ Answers(p)'
      BY <1>1, <2>1, <2>9, GotoAnswers DEF Alone, Account
    <3>2. Using(p)' /\ Changing(p)'
      BY <3>1 DEF Using, Halfway, WithMaze, HeldInRegister, Changing, Leaving, Filling, Making, NoSlot
    <3>3. First(p)' /\ Account(p)'
      BY <1>1, <2>4, <3>1 DEF Alone, First, Account, Filling, Making, NoSlot
    <3> QED BY <2>2, <3>2, <3>3 DEF Alone
  <2> QED BY <2>1, <2>7, <2>8, <2>9
<1> QED BY <1>4, <1>5

(* The reader of /proc/maze, and the steps that only return.                  *)
LEMMA ProcAlone ==
    ASSUME TypeOK, NEW p \in Procs, Alone(p),
           ProcRead(p) \/ ProcQ3(p) \/ ProcLoop(p) \/ ProcShow(p) \/ ReadRet(p)
    PROVE  Alone(p)'
<1>1. /\ UNCHANGED <<pids, info, heap, view, fault>>
      /\ pc[p] \in {"user", "proc_q3", "proc_loop", "proc_show", "read_ret"}
  BY DEF ProcRead, ProcQ3, ProcLoop, ProcShow, ReadRet, Uses, Request, globals, statics,
         history, table
<1>2. pc[p] \notin Moving /\ fault' \subseteq {"null", "stray"}
  BY <1>1 DEF Alone, Table, OnlyNullFaults, Moving, Carried, Storing, Making
<1>3. CASE pc'[p] \in {"user", "proc_q3", "proc_loop"} /\ Answers(p)'
  BY <1>1, <1>2, <1>3, RestStep DEF Resting
<1>4. CASE ProcRead(p)
  <2>1. Enter(p, "proc_q3") \/ Enter(p, "proc_loop")
    BY <1>4 DEF ProcRead
  <2> QED BY <1>3, <2>1, EnterAnswers
<1>5. CASE Done(p, "PROC", "OK") \/ \E val : Return(p, "READ", "OK", val)
  BY <1>3, <1>5, DoneAnswers DEF Done
<1>6. CASE pc[p] = "proc_loop" /\ UNCHANGED <<pc, ret>>
  BY <1>1, <1>3, <1>6 DEF Alone, Account, Answers
<1>7. CASE ProcShow(p)
  <2>1. pc[p] = "proc_show" /\ Goto(p, "proc_loop") /\ UNCHANGED ret
    BY <1>7 DEF ProcShow, Uses
  <2> QED BY <1>3, <2>1, GotoAnswers DEF Alone, Account
<1>8. CASE pc[p] = "proc_loop" /\ proc_i < MAXUSER /\ Goto(p, "proc_show") /\ UNCHANGED <<proc_i, ret>>
  <2>1. pc'[p] = "proc_show" /\ Answers(p)'
    BY <1>8, GotoAnswers DEF Alone, Account
  <2>2. proc_i' \in Slots
    BY <1>8, SlotAssumption DEF TypeOK, StaticTypes, Slots
  <2>3. Using(p)' /\ pc'[p] \notin Carried
    BY <2>1, <2>2 DEF Using, Halfway, WithMaze, HeldInRegister, Carried, Storing
  <2>4. Changing(p)'
    BY <2>1 DEF Changing, Leaving, Filling, Making, NoSlot
  <2>5. First(p)'
    BY <1>1, <2>1 DEF Alone, First, Filling, Making, NoSlot
  <2> QED BY <1>1, <1>2, <2>1, <2>3, <2>4, <2>5, StillStep
<1>9. CASE ProcLoop(p)
  BY <1>5, <1>6, <1>8, <1>9 DEF ProcLoop
<1>10. CASE ProcQ3(p) \/ ReadRet(p)
  BY <1>5, <1>10 DEF ProcQ3, ReadRet
<1> QED BY <1>4, <1>7, <1>9, <1>10

(* Only the /proc/maze reader meets a null pointer, of a slot whose maze is   *)
(* destroyed.                                                                 *)
LEMMA OopsAlone ==
    ASSUME TypeOK, NEW p \in Procs, Alone(p), Oops(p) PROVE Alone(p)'
<1>1. /\ UNCHANGED <<pids, info, heap, view, ret>> /\ pc[p] \in UseLabels /\ Kind(p) # "none"
      /\ fault' = fault \cup {Kind(p)}
      /\ Goto(p, IF pc[p] \in {"proc_show", "proc_q3"} THEN "user" ELSE "oops")
  BY DEF Oops, globals
<1>2. pc[p] \in {"proc_show", "proc_q3"}
  <2> SUFFICES ASSUME pc[p] \notin {"proc_show", "proc_q3"} PROVE FALSE
    OBVIOUS
  <2>1. pc[p] \in WithMaze /\ pc[p] # "write_copy"
    BY <1>1 DEF UseLabels, IoctlUse, HeldInRegister, WithMaze
  <2> QED BY <1>1, <2>1, SoundUse
<1>3. UseIndex(p) \in Slots /\ pc[p] \notin HeldInRegister
  BY <1>2, SlotAssumption DEF UseIndex, HeldInRegister, Alone, Using, Slots
<1>4. Target(p) # NULL => heap[Target(p)] \notin {Freed, Raw}
  BY <1>2, <1>3 DEF Target, Alone, Table, Loose, Making
<1>5. Kind(p) = "null"
  BY <1>1, <1>2, <1>3, <1>4 DEF Kind
<1>6. fault' \subseteq {"null", "stray"} /\ pc[p] \notin Moving
  BY <1>1, <1>2, <1>5 DEF Alone, Table, OnlyNullFaults, Moving, Carried, Storing, Making
<1>7. pc'[p] = "user" /\ Answers(p)'
  BY <1>1, <1>2, GotoAnswers DEF Alone, Account
<1> QED BY <1>1, <1>6, <1>7, RestStep DEF Resting

LEMMA AloneStep ==
    ASSUME TypeOK, MazeBuilt, NEW p \in Procs, \A q \in Procs : q = p, Alone(p), [Next]_vars
    PROVE  Alone(p)'
<1>1. CASE UNCHANGED vars
  <2>1. /\ UNCHANGED <<pids, info, heap, index, read_index, write_index, proc_i, tmp>>
        /\ UNCHANGED <<coord_move, pc, loc, ret, view, fault>>
    BY <1>1 DEF vars, globals, statics, self, history
  <2>2. UserIndex(p)' = UserIndex(p) /\ EmptyIndex' = EmptyIndex /\ HaveMaze(p)' = HaveMaze(p)
    BY <2>1, SameIndex DEF HaveMaze
  <2>3. Table(p)'
    BY <2>1 DEF Alone, Table, Loose, OnlyNullFaults
  <2>4. Using(p)' /\ Changing(p)'
    BY <2>1, <2>2 DEF Alone, Using, Halfway, Changing
  <2>5. First(p)' /\ Account(p)'
    BY <2>1, <2>2 DEF Alone, First, Account, Agrees, Answers, Expects, Walk, Grid
  <2> QED BY <2>3, <2>4, <2>5 DEF Alone
<1>2. CASE Call(p)
  BY <1>2, OpenAlone, CloseAlone, CreateAlone, Q3Alone, RequestAlone, ReadAlone, WriteAlone,
     ProcAlone DEF Call
<1>3. CASE Handler(p)
  <2>1. CASE DelLock(p) \/ DelFree(p) \/ DelClear(p) \/ CreateLock(p) \/ CreateCheck(p)
             \/ FindSlot(p) \/ ClaimSlot(p) \/ Alloc(p) \/ Generate(p) \/ StoreMaze(p)
    BY <2>1, DelLockAlone, DelFreeAlone, DelClearAlone, CreateAlone, CreateCheckAlone,
       FindSlotAlone, ClaimSlotAlone, AllocAlone, GenerateAlone, StoreMazeAlone
  <2>2. CASE Reset(p) \/ Destroy(p) \/ DestroyNull(p) \/ (\E c \in GetRequests : Get(p, c))
             \/ GetCopy(p) \/ MoveCopy(p) \/ MoveUse(p) \/ MoveTest(p) \/ StoreX(p) \/ StoreY(p)
    BY <2>2, ResetAlone, DestroyAlone, DestroyNullAlone, GetAlone, GetCopyAlone,
       MoveCopyAlone, MoveUseAlone, MoveTestAlone, StoreXAlone, StoreYAlone
  <2>3. CASE ReadFill(p) \/ ReadRet(p) \/ WriteCopy(p) \/ WriteLoad(p) \/ WriteStep(p)
             \/ ProcQ3(p) \/ ProcLoop(p) \/ ProcShow(p) \/ Oops(p)
    BY <2>3, ReadFillAlone, WriteCopyAlone, WriteLoadAlone, WriteStepAlone, ProcAlone, OopsAlone
  <2> QED BY <1>3, <2>1, <2>2, <2>3 DEF Handler
<1> QED BY <1>1, <1>2, <1>3 DEF Next

LEMMA AloneInit == ASSUME NEW p \in Procs, Init PROVE Alone(p)
<1>1. 0 \in Slots /\ pc[p] = "user" /\ view[p] = NULL /\ ret[p] = NoResult
  BY SlotAssumption DEF Init, Slots
<1>2. Table(p)
  BY DEF Init, Table, OnlyNullFaults
<1>3. Using(p) /\ Changing(p)
  BY <1>1 DEF Using, Halfway, WithMaze, HeldInRegister, Changing, Leaving, Filling, Making, NoSlot
<1>4. First(p) /\ Account(p)
  BY <1>1 DEF First, Account, Answers, NoResult, Filling, Making, NoSlot
<1> QED BY <1>2, <1>3, <1>4 DEF Alone

LEMMA AloneAlways ==
    ASSUME NEW p \in Procs, \A q \in Procs : q = p PROVE Spec => []Alone(p)
<1>1. Init => TypeOK /\ MazeBuilt /\ Alone(p)
  BY TypeInit, AloneInit DEF Init, MazeBuilt
<1>2. TypeOK /\ MazeBuilt /\ Alone(p) /\ [Next]_vars => (TypeOK /\ MazeBuilt /\ Alone(p))'
  BY TypeStep, BuiltStep, AloneStep
<1> QED BY <1>1, <1>2, PTL DEF Spec

(* A process alone on the device, whatever it asks for in whatever order,     *)
(* MAZE_DESTROY, ONLY_FOR_Q3, read, write and /proc/maze included: no step    *)
(* touches a freed or unwritten block or a slot outside the table, whatever   *)
(* the number of slots and of blocks; only a move of its own may make the     *)
(* driver read outside blk.                                                   *)
THEOREM AloneOnlyNull ==
    ASSUME NEW p \in Procs, \A q \in Procs : q = p PROVE Spec => []OnlyNullFaults
<1>1. Alone(p) => OnlyNullFaults
  BY DEF Alone, Table
<1> QED BY <1>1, AloneAlways, PTL

(* MAZE_GETPOS answers the position its caller has worked out from the moves  *)
(* it sent by MAZE_MOVE and write since it made its maze, as long as they     *)
(* have not led it off the grid, although later requests may give it slots    *)
(* it does not look at.                                                       *)
THEOREM AloneWalks ==
    ASSUME NEW p \in Procs, \A q \in Procs : q = p PROVE Spec => []RandomWalkCheck
<1>1. Alone(p) => RandomWalkCheck
  BY DEF Alone, Account, Answers, Expects, RandomWalkCheck
<1> QED BY <1>1, AloneAlways, PTL
=============================================================================
