------------------------------ MODULE LabsProofs ------------------------------
(***************************************************************************)
(* Proofs about the rest of lab02, for any values of the constants: the    *)
(* loading of its modules (Drv), the driver's draft (Dra) and the test run *)
(* (Tes); and what they and the other small components promise, carried    *)
(* over to Labs, which runs them side by side.                             *)
(***************************************************************************)
EXTENDS CallLogProofs, MazeGenProofs

-----------------------------------------------------------------------------
(* Where init and exit stand says what is registered: class and region for     *)
(* sure, device, cdev and /proc file as far as their calls succeeded and exit   *)
(* has not come to them.                                                       *)
Classy == {"device", "cdev", "proc", "in", "remove_proc", "cdev_del",
           "device_destroy", "class_destroy"}
HeldAt ==
    \A m \in Modules :
        /\ at[m] = "out" => held[m] = {}
        /\ at[m] \in {"class", "oops", "unregister"} => held[m] = {"region"}
        /\ at[m] \in Classy => {"region", "class"} \subseteq held[m]
        /\ at[m] \in {"device", "class_destroy"} => held[m] \subseteq {"region", "class"}
        /\ at[m] \in {"cdev", "device_destroy"} => held[m] \subseteq {"region", "class", "device"}
        /\ at[m] \in {"proc", "cdev_del"} => held[m] \subseteq {"region", "class", "device", "cdev"}

(* The class belongs to one module at a time.                                 *)
OneClass == \A m, n \in Modules :
    "class" \in held[m] /\ "class" \in held[n] => m = n

DrvInv == Drv!TypeOK /\ HeldAt /\ OneClass /\ Drv!PinnedByOpen

(* Every module is at one of the steps; the sets above partition them.        *)
LEMMA AtStep ==
    ASSUME Drv!TypeOK, NEW m \in Modules
    PROVE  at[m] \in {"out", "class", "oops", "unregister"} \cup Classy
BY DEF Drv!TypeOK, Drv!Steps, Drv!Undo, Classy

LEMMA DrvInit == ASSUME Drv!DriverAssumption, Drv!Init PROVE DrvInv
BY DEF Drv!DriverAssumption, Drv!Init, DrvInv, Drv!TypeOK, HeldAt, OneClass,
       Drv!PinnedByOpen, Drv!Steps,
       Drv!Things, Classy

(* insmod: the class is only registered when no module has it.                *)
LEMMA LoadInv ==
    ASSUME DrvInv, NEW m \in Modules,
           \/ Drv!Insmod(m) \/ Drv!ClassCreate(m) \/ Drv!DeviceCreate(m)
           \/ Drv!CdevAdd(m) \/ Drv!ProcCreate(m)
    PROVE  DrvInv'
<1> USE DEF Drv!Goto, Drv!Register
<1>1. Drv!TypeOK'
  BY DEF DrvInv, Drv!TypeOK, Drv!Steps, Drv!Things, Drv!Insmod, Drv!ClassCreate,
         Drv!DeviceCreate, Drv!CdevAdd, Drv!ProcCreate
<1>2. HeldAt'
  BY AtStep DEF DrvInv, Drv!TypeOK, HeldAt, Classy, Drv!Insmod, Drv!ClassCreate,
                Drv!DeviceCreate, Drv!CdevAdd,
        Drv!ProcCreate
<1>3. OneClass'
  <2>1. CASE Drv!ClassCreate(m)
    BY <2>1 DEF DrvInv, Drv!TypeOK, OneClass, Drv!ClassCreate, Drv!ClassTaken
  <2>2. CASE ~Drv!ClassCreate(m)
    <3>1. \A n \in Modules : "class" \in held'[n] => "class" \in held[n]
      BY <2>2 DEF DrvInv, Drv!TypeOK, Drv!Insmod, Drv!DeviceCreate, Drv!CdevAdd,
                  Drv!ProcCreate
    <3> QED BY <3>1 DEF DrvInv, OneClass
  <2> QED BY <2>1, <2>2
<1>4. Drv!PinnedByOpen'
  BY DEF DrvInv, Drv!TypeOK, Drv!PinnedByOpen, Drv!Insmod, Drv!ClassCreate,
         Drv!DeviceCreate, Drv!CdevAdd, Drv!ProcCreate
<1> QED BY <1>1, <1>2, <1>3, <1>4 DEF DrvInv

(* rmmod: it begins without descriptors, and what it takes away is what the    *)
(* next step of HeldAt no longer allows.                                       *)
LEMMA UnloadInv ==
    ASSUME DrvInv, NEW m \in Modules, Drv!Rmmod(m) \/ Drv!Exit(m)
    PROVE  DrvInv'
<1> USE DEF Drv!Goto, Drv!Unregister
<1>1. Drv!TypeOK'
  BY DEF DrvInv, Drv!TypeOK, Drv!Steps, Drv!Things, Drv!Rmmod, Drv!Exit, Drv!Undo,
         Drv!UndoNext
<1>2. HeldAt'
  BY AtStep DEF DrvInv, Drv!TypeOK, HeldAt, Drv!Things, Classy, Drv!Rmmod, Drv!Exit,
                Drv!Undo, Drv!UndoNext
<1>3. OneClass'
  <2>1. \A n \in Modules : "class" \in held'[n] => "class" \in held[n]
    BY DEF DrvInv, Drv!TypeOK, Drv!Rmmod, Drv!Exit
  <2> QED BY <2>1 DEF DrvInv, OneClass
<1>4. Drv!PinnedByOpen'
  BY DEF DrvInv, Drv!TypeOK, Drv!PinnedByOpen, Drv!Rmmod, Drv!Exit, Drv!Undo, Drv!UndoNext,
         Drv!Unpinned
<1> QED BY <1>1, <1>2, <1>3, <1>4 DEF DrvInv

(* Users touch only their counts.                                             *)
LEMMA UserInv ==
    ASSUME Drv!DriverAssumption, DrvInv, NEW m \in Modules,
           Drv!Open(m) \/ Drv!Close(m) \/ Drv!ReadProc(m) \/ Drv!ReadDone(m)
    PROVE  DrvInv'
<1>1. Drv!TypeOK'
  BY DEF Drv!DriverAssumption, DrvInv, Drv!TypeOK, Drv!Open, Drv!Close, Drv!ReadProc,
         Drv!ReadDone
<1>2. HeldAt' /\ OneClass'
  BY DEF DrvInv, HeldAt, OneClass, Drv!Open, Drv!Close, Drv!ReadProc, Drv!ReadDone
<1>3. Drv!PinnedByOpen'
  BY DEF Drv!DriverAssumption, DrvInv, Drv!TypeOK, Drv!PinnedByOpen, Drv!Open, Drv!Close,
         Drv!ReadProc, Drv!ReadDone
<1> QED BY <1>1, <1>2, <1>3 DEF DrvInv

LEMMA DrvStepInv == ASSUME Drv!DriverAssumption, DrvInv, [Drv!Next]_(Drv!vars) PROVE DrvInv'
<1>1. CASE Drv!Next
  <2>1. PICK m \in Modules :
           \/ Drv!Insmod(m) \/ Drv!ClassCreate(m) \/ Drv!DeviceCreate(m)
           \/ Drv!CdevAdd(m) \/ Drv!ProcCreate(m)
           \/ Drv!Rmmod(m) \/ Drv!Exit(m) \/ Drv!Open(m) \/ Drv!Close(m)
           \/ Drv!ReadProc(m) \/ Drv!ReadDone(m)
    BY <1>1 DEF Drv!Next
  <2> QED BY <2>1, LoadInv, UnloadInv, UserInv
<1>2. CASE UNCHANGED Drv!vars
  BY <1>2 DEF Drv!vars, DrvInv, Drv!TypeOK, HeldAt, OneClass, Drv!PinnedByOpen
<1> QED BY <1>1, <1>2

LEMMA Dangling == ASSUME DrvInv PROVE NothingDangles
<1>1. Drv!NothingLeft
  <2> SUFFICES ASSUME NEW m \in Modules
               PROVE  /\ at[m] = "out" => held[m] = {}
                      /\ "device" \in held[m] => "class" \in held[m]
                      /\ held[m] # {} => "region" \in held[m]
    BY DEF Drv!NothingLeft
  <2> QED BY AtStep DEF DrvInv, HeldAt
<1>2. Drv!NeverBoth
  BY DEF DrvInv, HeldAt, OneClass, Drv!NeverBoth, Classy
<1> QED BY <1>1, <1>2 DEF NothingDangles, Drv!NothingDangles, DrvInv

(* insmod and rmmod of any modules of the shared class name, with failures of  *)
(* every call of init, and any number of users in between: what is out leaves   *)
(* nothing registered, an open descriptor keeps its module, and the class name  *)
(* lets one module in at a time.                                              *)
THEOREM LoadingIsClean == ASSUME Drv!DriverAssumption PROVE Drv!Spec => []NothingDangles
<1>1. Drv!Init => DrvInv
  BY DrvInit
<1>2. DrvInv /\ [Drv!Next]_(Drv!vars) => DrvInv'
  BY DrvStepInv
<1>3. DrvInv => NothingDangles
  BY Dangling
<1> QED BY <1>1, <1>2, <1>3, PTL DEF Drv!Spec

(* Types of the loading model, for any modules and descriptors.               *)
THEOREM LoadingTypes == ASSUME Drv!DriverAssumption PROVE Drv!Spec => []Drv!TypeOK
<1>1. Drv!Init => DrvInv
  BY DrvInit
<1>2. DrvInv /\ [Drv!Next]_(Drv!vars) => DrvInv'
  BY DrvStepInv
<1>3. DrvInv => Drv!TypeOK
  BY DEF DrvInv
<1> QED BY <1>1, <1>2, <1>3, PTL DEF Drv!Spec
-----------------------------------------------------------------------------
(* The driver's draft: num_users, kept beside the slots, counts them, and the  *)
(* clients that do not use MAZE_DESTROY are served whatever the others do.     *)

Used == Slots \ Dra!Empty
Others == Procs \ Destroyers

(* What a slot holds; a full one has its position on an open cell or outside.  *)
Places == {Dra!Garbage, Dra!Outside} \cup UNION {l.open : l \in Layouts}
NoWall(m) == m.open \cup {Dra!Outside}
Info == [pid : Procs, maze : Layouts \cup {Dra!Bare}, pos : Places]
Placed(info) == info.maze # Dra!Bare => info.pos \in NoWall(info.maze)
Table == /\ maze_user_info \in [Slots -> {Dra!Null} \cup Info]
         /\ \A s \in Slots : maze_user_info[s] # Dra!Null => Placed(maze_user_info[s])

(* A client has one slot at most, and a full one, while it has the device open. *)
Served(p) ==
    /\ \A s, t \in Dra!Mine(p) : s = t
    /\ Dra!Mine(p) # {} => p \in open
    /\ \A s \in Dra!Mine(p) : Dra!Full(s)
Answered == reply.of \in Others => reply.maze # Dra!Bare

Globals ==
    /\ coord \in {<<l.x, l.y>> : l \in Layouts} \cup BadSizes \cup {Dra!Garbage}
    /\ maze \in Layouts \cup {Dra!Bare} /\ only_for_q3 \in BOOLEAN /\ open \subseteq Procs
    /\ fault \in {"none", "null", "wild"}
Rest == Globals /\ reply.of \in Procs \cup {"none"}

NumRight == num_users = Cardinality(Used)
SlotsOk == Table /\ NumRight /\ \A p \in Others : Served(p)
DraInv == SlotsOk /\ Answered /\ Rest
-----------------------------------------------------------------------------
(* Walks of write.                                                            *)

LEMMA FirstIn ==
    ASSUME NEW S \in SUBSET Nat, S # {}
    PROVE  Dra!First(S) \in S
BY SmallestNumber DEF Dra!First

(* However long the batch and wherever it leads, a walk ends on no wall: it is  *)
(* a function on its prefixes, and the shortest prefix without one, or with an   *)
(* end on a wall, would have a shorter one.                                    *)
LEMMA WalkStays ==
    ASSUME NEW m, NEW from \in NoWall(m), NEW b, Len(b) \in Nat
    PROVE  \A k \in 0 .. Len(b) : Dra!Walk(m, from, b)[k] \subseteq NoWall(m)
<1> DEFINE P == NoWall(m)
           After(S, d) == UNION {Dra!Step(m, c, d) : c \in S}
           Track(f, n) == /\ f \in [0 .. n -> SUBSET P] /\ f[0] = {from}
                          /\ \A k \in 1 .. n : f[k] = After(f[k - 1], b[k])
           Short == {n \in Nat : ~ \E f : Track(f, n)}
           Next1(g) == [k \in 0 .. Len(b) |-> IF k = 0 THEN {from} ELSE After(g[k - 1], b[k])]
<1>1. \A S \in SUBSET P : \A d : After(S, d) \in SUBSET P
  <2>1. \A c \in P : \A d : Dra!Step(m, c, d) \subseteq P
    BY DEF Dra!Step, NoWall
  <2> QED BY <2>1
<1>9. {from} \in SUBSET P
  OBVIOUS
<1> HIDE DEF After, P
<1>2. Short = {}
  <2> SUFFICES ASSUME Short # {} PROVE FALSE
    OBVIOUS
  <2>1. PICK n \in Short : \A k \in Short : n <= k
    BY SmallestNumber
  <2>2. n # 0
    <3>1. Track([k \in 0 .. 0 |-> {from}], 0)
      BY <1>9
    <3> QED BY <2>1, <3>1
  <2>3. n - 1 \in Nat /\ ~(n <= n - 1)
    BY <2>1, <2>2
  <2>4. PICK f : Track(f, n - 1)
    BY <2>1, <2>3
  <2> DEFINE g == [k \in 0 .. n |-> IF k = n THEN After(f[n - 1], b[n]) ELSE f[k]]
  <2>5. g \in [0 .. n -> SUBSET P] /\ g[0] = {from}
    BY <1>1, <2>1, <2>2, <2>3, <2>4
  <2>6. ASSUME NEW k \in 1 .. n PROVE g[k] = After(g[k - 1], b[k])
    <3>1. g[k - 1] = f[k - 1]
      BY <2>1
    <3>2. CASE k = n
      BY <3>1, <3>2
    <3>3. CASE k # n
      BY <2>1, <2>4, <3>1, <3>3
    <3> QED BY <3>2, <3>3
  <2>7. Track(g, n)
    BY <2>5, <2>6
  <2> QED BY <2>1, <2>7
<1>3. PICK f : Track(f, Len(b))
  BY <1>2
<1>4. f = Next1(f)
  BY <1>3
<1> DEFINE way == CHOOSE g : g = Next1(g)
<1>5. way = Next1(way)
  BY <1>4
<1>6. Dra!Walk(m, from, b) = way
  BY DEF Dra!Walk, After
<1> HIDE DEF way
<1>7. \A k \in 0 .. Len(b) : way[k] = IF k = 0 THEN {from} ELSE After(way[k - 1], b[k])
  BY <1>5
<1>8. {k \in 0 .. Len(b) : way[k] \notin SUBSET P} = {}
  <2> DEFINE Off == {k \in 0 .. Len(b) : way[k] \notin SUBSET P}
  <2> SUFFICES ASSUME Off # {} PROVE FALSE
    OBVIOUS
  <2>1. Off \in SUBSET Nat
    OBVIOUS
  <2>2. PICK n \in Off : \A k \in Off : n <= k
    BY <2>1, SmallestNumber
  <2>3. n # 0
    BY <1>7, <1>9, <2>2
  <2>4. n - 1 \in 0 .. Len(b) /\ ~(n <= n - 1)
    BY <2>2, <2>3
  <2>5. way[n - 1] \in SUBSET P
    BY <2>2, <2>4
  <2> QED BY <1>1, <1>7, <2>2, <2>3, <2>5
<1> QED BY <1>6, <1>8 DEF P
-----------------------------------------------------------------------------
(* The slots.                                                                 *)

LEMMA Slotted ==
    ASSUME Dra!DraftAssumption, Table, NEW p \in Procs
    PROVE  /\ p # "null" /\ p # "none"
           /\ \A s \in Dra!Mine(p) : s \in Used /\ maze_user_info[s] \in Info
           /\ Dra!Mine(p) # {} => Dra!who_is_user(p) \in Dra!Mine(p)
<1>1. p # "null" /\ p # "none"
  BY DEF Dra!DraftAssumption
<1>2. \A s \in Dra!Mine(p) : s \in Used /\ maze_user_info[s] \in Info
  BY <1>1 DEF Dra!Mine, Used, Dra!Empty, Table, Dra!Null
<1>3. Dra!Mine(p) \in SUBSET Nat
  BY DEF Dra!DraftAssumption, Dra!Mine
<1>4. Dra!Mine(p) # {} => Dra!who_is_user(p) \in Dra!Mine(p)
  BY <1>3, FirstIn DEF Dra!who_is_user
<1> QED BY <1>1, <1>2, <1>4

(* The instances' notions of finite sets are the usual ones.                   *)
LEMMA DraFinite ==
    ASSUME NEW S
    PROVE  (Dra!IsFiniteSet(S) <=> IsFiniteSet(S)) /\ Dra!Cardinality(S) = Cardinality(S)
<1>1. Dra!IsFiniteSet(S) <=> IsFiniteSet(S)
  BY DEF Dra!IsFiniteSet, IsFiniteSet
<1>2. Dra!Cardinality(S) = Cardinality(S)
  BY DEF Dra!Cardinality, Cardinality
<1> QED BY <1>1, <1>2

LEMMA UsedFinite ==
    ASSUME Dra!DraftAssumption
    PROVE  /\ IsFiniteSet(Slots) /\ IsFiniteSet(Used)
           /\ Cardinality(Used) \in 0 .. Cardinality(Slots)
<1>1. IsFiniteSet(Slots)
  BY DraFinite DEF Dra!DraftAssumption
<1>2. Used \subseteq Slots
  BY DEF Used
<1>3. IsFiniteSet(Used) /\ Cardinality(Used) <= Cardinality(Slots)
  BY <1>1, <1>2, FS_Subset
<1> QED BY <1>1, <1>3, FS_CardinalityType

(* A request that leaves the slots alone.                                      *)
LEMMA Quiet ==
    ASSUME SlotsOk, maze_user_info' = maze_user_info, num_users' = num_users,
           open \subseteq open'
    PROVE  SlotsOk'
<1>1. Table' /\ Dra!Empty' = Dra!Empty /\ \A p : Dra!Mine(p)' = Dra!Mine(p)
  BY DEF SlotsOk, Table, Placed, Dra!Empty, Dra!Mine
<1>2. NumRight'
  BY <1>1 DEF SlotsOk, NumRight, Used
<1>3. \A p \in Others : Served(p)'
  BY <1>1 DEF SlotsOk, Served, Dra!Full
<1> QED BY <1>1, <1>2, <1>3 DEF SlotsOk

(* A request that rewrites a slot of its caller.                               *)
LEMMA Rewrite ==
    ASSUME Dra!DraftAssumption, SlotsOk, NEW q \in Procs, NEW s \in Dra!Mine(q),
           NEW i \in Info, i.pid = q, Placed(i), q \in Others => i.maze # Dra!Bare,
           Dra!SetSlot(s, i), num_users' = num_users, open' = open
    PROVE  SlotsOk'
<1>1. /\ s \in Slots /\ maze_user_info[s].pid = q /\ i # Dra!Null /\ maze_user_info[s] # Dra!Null
      /\ maze_user_info'[s] = i
      /\ \A t \in Slots \ {s} : maze_user_info'[t] = maze_user_info[t]
      /\ maze_user_info' \in [Slots -> {Dra!Null} \cup Info]
  BY Slotted DEF SlotsOk, Table, Dra!Mine, Dra!SetSlot, Dra!Null, Info
<1>2. Table'
  BY <1>1 DEF SlotsOk, Table
<1>3. Dra!Empty' = Dra!Empty /\ \A p : Dra!Mine(p)' = Dra!Mine(p)
  BY <1>1 DEF Dra!Empty, Dra!Mine
<1>4. NumRight'
  BY <1>3 DEF SlotsOk, NumRight, Used
<1>5. ASSUME NEW p \in Others PROVE Served(p)'
  <2>1. Served(p)
    BY DEF SlotsOk
  <2>2. \A t \in Dra!Mine(p) : Dra!Full(t)'
    <3> SUFFICES ASSUME NEW t \in Dra!Mine(p) PROVE Dra!Full(t)'
      OBVIOUS
    <3>1. CASE t = s
      BY <3>1, <1>1 DEF Dra!Full, Dra!Mine
    <3>2. CASE t # s
      BY <3>2, <1>1, <2>1 DEF Dra!Full, Dra!Mine, Served
    <3> QED BY <3>1, <3>2
  <2> QED BY <1>3, <2>1, <2>2 DEF Served
<1> QED BY <1>2, <1>4, <1>5 DEF SlotsOk

LEMMA CreateOk ==
    ASSUME Dra!DraftAssumption, SlotsOk, NEW q \in Procs, Dra!Create(q)
    PROVE  SlotsOk'
<1>1. PICK l \in Layouts :
          Dra!SetSlot(Dra!First(Dra!Empty), [pid |-> q, maze |-> l, pos |-> l.start])
  BY DEF Dra!Create
<1> DEFINE s == Dra!First(Dra!Empty)
           i == [pid |-> q, maze |-> l, pos |-> l.start]
<1>2. s \in Dra!Empty
  BY FirstIn DEF Dra!Create, Dra!Empty, Dra!DraftAssumption
<1>3. l.start \in l.open /\ l # Dra!Bare
  <2>1. l.start \in l.open /\ l.x \in 1 .. 101
    BY DEF Dra!DraftAssumption, Dra!MaxX
  <2>2. Dra!Bare.x = 0
    BY DEF Dra!Bare
  <2> QED BY <2>1, <2>2
<1>4. i \in Info /\ Placed(i) /\ i # Dra!Null
  BY <1>3, Slotted DEF Info, Places, Placed, NoWall, Dra!Null, SlotsOk
<1> HIDE DEF i, s
<1>5. /\ s \in Slots /\ maze_user_info[s] = Dra!Null /\ maze_user_info'[s] = i
      /\ i.pid = q /\ i.maze = l
      /\ \A t \in Slots \ {s} : maze_user_info'[t] = maze_user_info[t]
      /\ maze_user_info' \in [Slots -> {Dra!Null} \cup Info]
  <2>1. Dra!SetSlot(s, i) /\ i.pid = q /\ i.maze = l
    BY <1>1 DEF i, s
  <2> QED BY <2>1, <1>2, <1>4 DEF SlotsOk, Table, Dra!Empty, Dra!SetSlot
<1>6. Table'
  BY <1>4, <1>5 DEF SlotsOk, Table
<1>7. NumRight'
  <2>1. Used' = Used \cup {s} /\ s \notin Used
    BY <1>4, <1>5 DEF Used, Dra!Empty
  <2>2. Cardinality(Used') = Cardinality(Used) + 1
    BY <2>1, UsedFinite, FS_AddElement
  <2>3. num_users' = num_users + 1
    BY DEF Dra!Create
  <2> QED BY <2>2, <2>3 DEF SlotsOk, NumRight, Used
<1>8. ASSUME NEW p \in Others PROVE Served(p)'
  <2>1. Served(p) /\ p \in Procs /\ open' = open /\ p # "null" /\ Dra!Null.pid = "null"
    BY Slotted DEF SlotsOk, Others, Dra!Create, Dra!Null
  <2>2. CASE p = q
    <3>1. Dra!Mine(p) = {}
      BY <2>1, <2>2, Slotted DEF SlotsOk, Dra!Create, Dra!CanCreate, Served
    <3>2. Dra!Mine(p)' = {s}
      BY <1>5, <2>2, <3>1 DEF Dra!Mine
    <3>3. \A t \in Slots : t = s => Dra!Full(t)'
      BY <1>3, <1>4, <1>5 DEF Dra!Full
    <3>4. p \in open'
      BY <2>1, <2>2 DEF Dra!Create, Dra!Asks
    <3> QED BY <1>5, <3>2, <3>3, <3>4 DEF Served
  <2>3. CASE p # q
    <3>1. Dra!Mine(p)' = Dra!Mine(p)
      BY <1>5, <2>1, <2>3 DEF Dra!Mine
    <3>2. \A t \in Dra!Mine(p) : Dra!Full(t)'
      BY <1>5, <2>1 DEF Dra!Mine, Dra!Full, Served
    <3> QED BY <2>1, <3>1, <3>2 DEF Served
  <2> QED BY <2>2, <2>3
<1> QED BY <1>6, <1>7, <1>8 DEF SlotsOk

LEMMA CloseOk ==
    ASSUME Dra!DraftAssumption, SlotsOk, NEW q \in Procs, Dra!Close(q)
    PROVE  SlotsOk'
<1>1. \A p \in Others \ {q} : p \in open => p \in open'
  BY DEF Dra!Close
<1>2. CASE Dra!Mine(q) = {}
  <2>1. maze_user_info' = maze_user_info /\ num_users' = num_users
    BY <1>2 DEF Dra!Close, Dra!UsersLeft
  <2>2. Table' /\ Dra!Empty' = Dra!Empty /\ \A p : Dra!Mine(p)' = Dra!Mine(p)
    BY <2>1 DEF SlotsOk, Table, Placed, Dra!Empty, Dra!Mine
  <2>3. NumRight'
    BY <2>1, <2>2 DEF SlotsOk, NumRight, Used
  <2>4. \A p \in Others : Served(p)'
    BY <1>1, <1>2, <2>1, <2>2 DEF SlotsOk, Served, Dra!Full
  <2> QED BY <2>2, <2>3, <2>4 DEF SlotsOk
<1>3. CASE Dra!Mine(q) # {}
  <2> DEFINE s == Dra!who_is_user(q)
  <2>1. s \in Dra!Mine(q) /\ s \in Used
    BY <1>3, Slotted DEF SlotsOk
  <2>2. Dra!SetSlot(s, Dra!Null) /\ num_users' = num_users - 1
    BY <1>3 DEF Dra!Close, Dra!UsersLeft
  <2> HIDE DEF s
  <2>3. /\ s \in Slots /\ maze_user_info[s].pid = q /\ maze_user_info'[s] = Dra!Null
        /\ \A t \in Slots \ {s} : maze_user_info'[t] = maze_user_info[t]
        /\ maze_user_info' \in [Slots -> {Dra!Null} \cup Info]
    BY <2>1, <2>2 DEF SlotsOk, Table, Dra!Mine, Dra!SetSlot
  <2>4. Table'
    BY <2>3 DEF SlotsOk, Table
  <2>5. NumRight'
    <3>1. Used' = Used \ {s}
      BY <2>3 DEF Used, Dra!Empty
    <3>2. Cardinality(Used') = Cardinality(Used) - 1
      BY <2>1, <3>1, UsedFinite, FS_RemoveElement
    <3> QED BY <2>2, <3>2 DEF SlotsOk, NumRight, Used
  <2>6. ASSUME NEW p \in Others PROVE Served(p)'
    <3>1. Served(p) /\ p # "null" /\ Dra!Null.pid = "null"
      BY Slotted DEF SlotsOk, Others, Dra!Null
    <3>2. Dra!Mine(p)' = Dra!Mine(p) \ {s}
      BY <2>3, <3>1 DEF Dra!Mine
    <3>3. p = q => Dra!Mine(p)' = {}
      BY <2>1, <3>1, <3>2 DEF Served
    <3>4. \A t \in Dra!Mine(p)' : Dra!Full(t)'
      BY <2>3, <3>1, <3>2 DEF Dra!Mine, Dra!Full, Served
    <3> QED BY <1>1, <3>1, <3>2, <3>3, <3>4 DEF Served
  <2> QED BY <2>4, <2>5, <2>6 DEF SlotsOk
<1> QED BY <1>2, <1>3
-----------------------------------------------------------------------------
LEMMA DraInit == ASSUME Dra!DraftAssumption, Dra!Init PROVE DraInv
<1>1. /\ maze_user_info \in [Slots -> {Dra!Null} \cup Info]
      /\ \A s \in Slots : maze_user_info[s] = Dra!Null
  BY DEF Dra!Init
<1>2. Dra!Empty = Slots /\ Slots \ Dra!Empty = {}
  BY <1>1 DEF Dra!Empty
<1>3. NumRight
  BY <1>2, FS_EmptySet DEF Dra!Init, NumRight, Used
<1>4. Dra!Null.pid = "null" /\ \A p \in Others : p # "null" /\ p # "none"
  BY DEF Dra!Null, Others, Dra!DraftAssumption
<1>5. \A p \in Others : Dra!Mine(p) = {}
  BY <1>1, <1>4 DEF Dra!Mine
<1>6. reply.of = "none" /\ Answered
  BY <1>4 DEF Dra!Init, Dra!NoReply, Answered
<1>7. Rest
  BY <1>6 DEF Dra!Init, Rest, Globals, Dra!Garbage
<1> QED BY <1>1, <1>3, <1>5, <1>6, <1>7 DEF DraInv, SlotsOk, Table, Served

(* The slots, request by request.                                              *)
LEMMA SlotsStep ==
    ASSUME Dra!DraftAssumption, DraInv, Dra!Next
    PROVE  SlotsOk'
<1>1. ASSUME NEW p \in Procs,
             \/ Dra!Open(p) \/ Dra!CreateBad(p) \/ Dra!CreateRefused(p) \/ Dra!NoMaze(p)
             \/ Dra!Get(p)
             \/ Dra!Read(p) \/ Dra!Q3Bad(p) \/ Dra!Q3(p)
      PROVE  SlotsOk'
  BY <1>1, Quiet DEF DraInv, Dra!Open, Dra!CreateBad, Dra!CreateRefused, Dra!NoMaze,
                     Dra!Get, Dra!Read, Dra!Q3Bad, Dra!Q3, Dra!Refuse
<1>2. CASE Dra!ProcQ3 \/ Dra!ProcRead
  BY <1>2, Quiet DEF DraInv, Dra!ProcQ3, Dra!ProcRead
<1>3. ASSUME NEW p \in Procs, Dra!Create(p) \/ Dra!Close(p) PROVE SlotsOk'
  BY <1>3, CreateOk, CloseOk DEF DraInv
<1>4. ASSUME NEW p \in Procs,
             Dra!Reset(p) \/ Dra!Destroy(p) \/ Dra!Move(p) \/ Dra!Write(p)
      PROVE  SlotsOk'
  <2> DEFINE s == Dra!who_is_user(p)
             r == Dra!MyInfo(p)
  <2>1. num_users' = num_users /\ open' = open
    BY <1>4 DEF Dra!Reset, Dra!Destroy, Dra!Move, Dra!Write
  <2>2. s \in Dra!Mine(p) /\ s \in Slots
    BY <1>4, Slotted DEF DraInv, SlotsOk, Dra!Reset, Dra!Destroy, Dra!Move, Dra!Write,
                         Dra!Uses, Dra!have_maze, Dra!Mine
  <2>3. /\ r \in Info /\ r.pid = p /\ Placed(r)
        /\ p \in Others => r.maze # Dra!Bare
    BY <2>2, Slotted DEF DraInv, SlotsOk, Table, Dra!MyInfo, Dra!Mine, Served, Dra!Full,
                         Used, Dra!Empty
  <2>4. ASSUME NEW c \in Places, r.maze # Dra!Bare => c \in NoWall(r.maze),
               Dra!SetSlot(s, [r EXCEPT !.pos = c])
        PROVE  SlotsOk'
    <3>1. [r EXCEPT !.pos = c] \in Info /\ [r EXCEPT !.pos = c].pid = p
          /\ [r EXCEPT !.pos = c].maze = r.maze /\ [r EXCEPT !.pos = c].pos = c
      BY <2>3 DEF Info
    <3>2. Placed([r EXCEPT !.pos = c])
      BY <2>4, <3>1 DEF Placed
    <3> HIDE DEF r, s
    <3> QED BY <2>1, <2>2, <2>3, <2>4, <3>1, <3>2, Rewrite DEF DraInv
  <2>5. r.maze # Dra!Bare => r.maze \in Layouts /\ NoWall(r.maze) \subseteq Places
    BY <2>3 DEF Info, Places, NoWall
  <2>6. CASE Dra!Reset(p)
    <3>1. r.maze # Dra!Bare => r.maze.start \in NoWall(r.maze)
      BY <2>5 DEF Dra!DraftAssumption, NoWall
    <3> DEFINE c == IF r.maze = Dra!Bare THEN Dra!Garbage ELSE r.maze.start
    <3>2. c \in Places /\ (r.maze # Dra!Bare => c \in NoWall(r.maze))
      BY <2>5, <3>1 DEF Places
    <3>3. Dra!SetSlot(s, [r EXCEPT !.pos = c])
      BY <2>6 DEF Dra!Reset
    <3> HIDE DEF c, s, r
    <3> QED BY <2>4, <3>2, <3>3
  <2>7. ASSUME r.maze # Dra!Bare, NEW b, Len(b) \in Nat, Dra!Walks(p, b)
        PROVE  SlotsOk'
    <3>1. PICK c \in Dra!Walk(r.maze, r.pos, b)[Len(b)] : Dra!SetSlot(s, [r EXCEPT !.pos = c])
      BY <2>7 DEF Dra!Walks
    <3>2. c \in NoWall(r.maze)
      BY <2>3, <2>7, <3>1, WalkStays DEF Placed
    <3> HIDE DEF s, r
    <3> QED BY <2>4, <2>5, <2>7, <3>1, <3>2
  <2>8. CASE Dra!Move(p)
    <3>1. CASE r.maze = Dra!Bare
      BY <2>1, <2>8, <3>1, Quiet DEF Dra!Move, DraInv
    <3>2. CASE r.maze # Dra!Bare
      <4>1. PICK d \in Deltas : Dra!Walks(p, <<d>>)
        BY <2>8, <3>2 DEF Dra!Move
      <4>2. Len(<<d>>) \in Nat
        OBVIOUS
      <4> QED BY <2>7, <3>2, <4>1, <4>2
    <3> QED BY <3>1, <3>2
  <2>10. CASE Dra!Write(p)
    <3>1. PICK b \in Batches : Dra!Walks(p, b)
      BY <2>10 DEF Dra!Write
    <3>2. r.maze # Dra!Bare
      BY <2>10 DEF Dra!Write, Dra!Full, Dra!MyInfo
    <3>3. Len(b) \in Nat
      BY LenProperties DEF Dra!DraftAssumption
    <3> QED BY <2>7, <3>1, <3>2, <3>3
  <2>9. CASE Dra!Destroy(p)
    <3>1. Dra!Destroyed(p) \in Info /\ Dra!Destroyed(p).pid = p /\ Placed(Dra!Destroyed(p))
      BY DEF Dra!Destroyed, Info, Placed, Places
    <3>2. p \notin Others /\ Dra!SetSlot(s, Dra!Destroyed(p))
      BY <2>9 DEF Dra!Destroy, Others
    <3> HIDE DEF s, r
    <3> QED BY <2>1, <2>2, <3>1, <3>2, Rewrite DEF DraInv
  <2> QED BY <1>4, <2>6, <2>8, <2>9, <2>10
<1> QED BY <1>1, <1>2, <1>3, <1>4 DEF Dra!Next

(* The answers, and everything else.                                           *)
LEMMA RestStep ==
    ASSUME Dra!DraftAssumption, DraInv, Dra!Next
    PROVE  Answered' /\ Rest'
<1>1. ASSUME NEW p \in Procs, Dra!Get(p)
      \/ Dra!Read(p) PROVE Answered' /\ reply'.of \in Procs
  <2>1. reply' = [of |-> p, maze |-> Dra!MyInfo(p).maze]
    BY <1>1 DEF Dra!Get, Dra!Read
  <2>2. Dra!who_is_user(p) \in Dra!Mine(p)
    BY <1>1, Slotted DEF DraInv, SlotsOk, Dra!Get, Dra!Read, Dra!Uses, Dra!have_maze
  <2>3. p \in Others => Dra!MyInfo(p).maze # Dra!Bare
    BY <2>2 DEF DraInv, SlotsOk, Served, Dra!Full, Dra!MyInfo
  <2> QED BY <2>1, <2>3 DEF Answered
<1>2. reply' = Dra!NoReply => Answered' /\ reply'.of = "none"
  BY DEF Answered, Dra!NoReply, Others, Dra!DraftAssumption
<1>3. reply' = reply => Answered'
  BY DEF DraInv, Answered
<1>4. Answered' /\ reply'.of \in Procs \cup {"none"}
  BY <1>1, <1>2, <1>3
     DEF Dra!Next, DraInv, Rest, Dra!Open, Dra!Close, Dra!CreateBad, Dra!CreateRefused,
         Dra!Create, Dra!NoMaze, Dra!Reset, Dra!Destroy,
         Dra!Get, Dra!Move, Dra!Write, Dra!Read, Dra!Q3Bad, Dra!Q3, Dra!ProcQ3,
         Dra!ProcRead, Dra!Refuse
<1>5. Globals'
  <2>1. ASSUME NEW p \in Procs,
               \/ Dra!Open(p) \/ Dra!Close(p) \/ Dra!CreateBad(p)
               \/ Dra!CreateRefused(p) \/ Dra!Create(p)
               \/ Dra!NoMaze(p) \/ Dra!Q3Bad(p) \/ Dra!Q3(p)
        PROVE  Globals'
    BY <2>1 DEF DraInv, Rest, Globals, Dra!Open, Dra!Close, Dra!CreateBad,
                Dra!CreateRefused, Dra!Create, Dra!NoMaze, Dra!Refuse, Dra!Q3Bad, Dra!Q3
  <2>2. ASSUME NEW p \in Procs,
               \/ Dra!Reset(p) \/ Dra!Destroy(p) \/ Dra!Get(p)
               \/ Dra!Move(p) \/ Dra!Write(p) \/ Dra!Read(p)
        PROVE  Globals'
    BY <2>2 DEF DraInv, Rest, Globals, Dra!Reset, Dra!Destroy, Dra!Get, Dra!Move,
                Dra!Write, Dra!Walks, Dra!Read
  <2>3. CASE Dra!ProcQ3 \/ Dra!ProcRead
    BY <2>3 DEF DraInv, Rest, Globals, Dra!ProcQ3, Dra!ProcRead
  <2> QED BY <2>1, <2>2, <2>3 DEF Dra!Next
<1> QED BY <1>4, <1>5 DEF Rest

LEMMA DraStepInv ==
    ASSUME Dra!DraftAssumption, DraInv, [Dra!Next]_(Dra!vars)
    PROVE  DraInv'
<1>1. CASE Dra!Next
  BY <1>1, SlotsStep, RestStep DEF DraInv
<1>2. CASE UNCHANGED Dra!vars
  <2>1. SlotsOk'
    BY <1>2, Quiet DEF Dra!vars, DraInv
  <2>2. Answered' /\ Rest'
    BY <1>2 DEF Dra!vars, DraInv, Answered, Rest, Globals
  <2> QED BY <2>1, <2>2 DEF DraInv
<1> QED BY <1>1, <1>2
-----------------------------------------------------------------------------
(* For any processes, slots and mazes: num_users counts the slots in use,        *)
(* although it is stepped up and down apart from them, and a client that keeps   *)
(* off MAZE_DESTROY keeps one slot, its answers and, wherever its moves lead, a   *)
(* position on no wall, whatever bare and second slots the others leave.         *)
THEOREM DraftKeepsServing == ASSUME Dra!DraftAssumption PROVE Dra!Spec => []DraftServes
<1>1. Dra!Init => DraInv
  BY DraInit
<1>2. DraInv /\ [Dra!Next]_(Dra!vars) => DraInv'
  BY DraStepInv
<1>3. DraInv => DraftServes
  <2> SUFFICES ASSUME DraInv PROVE DraftServes
    OBVIOUS
  <2>3. Dra!UsersCounted
    <3>1. Dra!Cardinality(Slots \ Dra!Empty) = Cardinality(Slots \ Dra!Empty)
      BY DraFinite
    <3>2. NumRight
      BY DEF DraInv, SlotsOk
    <3> QED BY <3>1, <3>2, Zenon DEF NumRight, Used, Dra!UsersCounted
  <2>4. \A q \in Procs : Dra!Cardinality(Dra!Mine(q)) = Cardinality(Dra!Mine(q))
    BY DraFinite
  <2> SUFFICES ASSUME NEW p \in Others
               PROVE  /\ Cardinality(Dra!Mine(p)) <= 1
                      /\ Dra!Mine(p) # {} => p \in open
                      /\ \A s \in Dra!Mine(p) : Dra!Full(s) /\ maze_user_info[s].pos \in NoWall(maze_user_info[s].maze)
    BY <2>3, <2>4 DEF DraInv, DraftServes, Dra!DraftServes, Dra!OthersUnharmed, Answered, Others, NoWall
  <2>5. Served(p)
    BY DEF DraInv, SlotsOk
  <2>6. CASE Dra!Mine(p) = {}
    BY <2>5, <2>6, FS_EmptySet
  <2>7. CASE Dra!Mine(p) # {}
    <3>1. PICK s \in Dra!Mine(p) : Dra!Mine(p) = {s}
      BY <2>5, <2>7 DEF Served
    <3>2. Cardinality(Dra!Mine(p)) = 1
      BY <3>1, FS_Singleton
    <3> QED BY <2>5, <3>2 DEF Served, Dra!Full, Dra!Mine, DraInv, SlotsOk, Table, Placed
  <2> QED BY <2>6, <2>7
<1> QED BY <1>1, <1>2, <1>3, PTL DEF Dra!Spec

(* The draft's variables keep their types, num_users within the slots.           *)
THEOREM DraftTypes == ASSUME Dra!DraftAssumption PROVE Dra!Spec => []Dra!TypeOK
<1>1. Dra!Init => DraInv
  BY DraInit
<1>2. DraInv /\ [Dra!Next]_(Dra!vars) => DraInv'
  BY DraStepInv
<1>3. DraInv => Dra!TypeOK
  <2>1. Dra!Cardinality(Slots) = Cardinality(Slots)
    BY DraFinite
  <2>2. Dra!Infos = {Dra!Null} \cup Info
    BY DEF Dra!Infos, Info, Places
  <2> QED BY <2>1, <2>2, UsedFinite
          DEF DraInv, SlotsOk, Table, Rest, Globals, Dra!TypeOK, NumRight
<1> QED BY <1>1, <1>2, <1>3, PTL DEF Dra!Spec
-----------------------------------------------------------------------------
(* The test run: each process has one slot at most, and keeps it until its     *)
(* release; a release that error_no makes skip del_user has paid for it with   *)
(* a refused create.                                                          *)

Early == {"no", "start", "main"}
Stopped == {p \in Clients : st[p] \in {"exit", "gone"}}
TesTyped ==
    /\ owner \in [SlotIds -> Clients \cup {Nobody}] /\ script \in 9 .. 18
    /\ loaded \in BOOLEAN /\ st \in [Clients -> Tes!States] /\ fd \subseteq Clients
    /\ error_no \in BOOLEAN /\ stuck \in Clients \cup {Nobody} /\ refusals \in Nat
Holds(p) == \E s \in SlotIds : owner[s] = p
Owners ==
    /\ \A s, t \in SlotIds : owner[s] = owner[t] /\ owner[s] # Nobody => s = t
    /\ \A p \in Clients : Holds(p) => p \in fd \/ st[p] = "gone"
    /\ \A p \in Clients : Holds(p) /\ st[p] = "open" => stuck = p
    /\ \A p \in fd : st[p] \notin Early \cup {"gone"}
    /\ \A p \in Clients : st[p] \in {"open", "use", "asleep"} => p \in fd
Paid == Cardinality(Tes!Lost) + (IF error_no THEN 1 ELSE 0) <= refusals
TesInv == TesTyped /\ Owners /\ Paid /\ refusals <= Cardinality(Stopped)

LEMMA TesFinite ==
    ASSUME Tes!TestAssumption
    PROVE  /\ \A S : Tes!Cardinality(S) = Cardinality(S)
           /\ IsFiniteSet(SlotIds) /\ IsFiniteSet(Clients)
<1>1. \A S : Tes!IsFiniteSet(S) <=> IsFiniteSet(S)
  BY DEF Tes!IsFiniteSet, IsFiniteSet
<1>2. \A S : Tes!Cardinality(S) = Cardinality(S)
  BY DEF Tes!Cardinality, Cardinality
<1>3. IsFiniteSet(SlotIds)
  BY <1>1 DEF Tes!TestAssumption
<1>4. Clients \subseteq 1 .. 16
  BY DEF Tes!TestAssumption
<1>5. IsFiniteSet(1 .. 16)
  <2>1. \A a, b \in Int : IsFiniteSet(a .. b)
    BY FS_Interval
  <2>2. 1 \in Int /\ 16 \in Int
    OBVIOUS
  <2> QED BY <2>1, <2>2, Zenon
<1>6. IsFiniteSet(Clients)
  BY <1>4, <1>5, FS_Subset
<1> QED BY <1>2, <1>3, <1>6

LEMMA TesNames ==
    ASSUME Tes!TestAssumption
    PROVE  /\ Children \subseteq Clients /\ Nobody \notin Clients
           /\ \A k \in 0 .. 6 : Tes!Main(k) \in Clients /\ Tes!Main(k) = 10 + k
           /\ \A k \in 10 .. 16 : k \in Clients
<1>1. \A k \in 10 .. 16 : k - 10 \in 0 .. 6 /\ k = 10 + (k - 10)
  OBVIOUS
<1> QED BY <1>1 DEF Tes!TestAssumption, Tes!Main

(* Sets that are counted.                                                     *)
LEMMA TesSets ==
    ASSUME Tes!TestAssumption, TesTyped
    PROVE  /\ IsFiniteSet(Tes!Lost) /\ Cardinality(Tes!Lost) \in Nat
           /\ IsFiniteSet(Stopped) /\ Cardinality(Stopped) \in Nat
           /\ Cardinality(Stopped) <= Cardinality(Clients) /\ Cardinality(Clients) \in Nat
<1>1. Tes!Lost \subseteq SlotIds /\ Stopped \subseteq Clients
  BY DEF Tes!Lost, Stopped
<1> QED BY <1>1, TesFinite, FS_Subset, FS_CardinalityType

LEMMA TesInit ==
    ASSUME Tes!TestAssumption, Tes!Init PROVE TesInv
<1>1. Nobody \notin Clients /\ \A s \in SlotIds : owner[s] = Nobody
  BY TesNames DEF Tes!Init
<1>2. TesTyped
  <2>1. owner \in [SlotIds -> Clients \cup {Nobody}] /\ st \in [Clients -> Tes!States]
    BY DEF Tes!Init, Tes!States
  <2>2. script \in 9 .. 18 /\ refusals \in Nat
    <3>1. script = 9 /\ refusals = 0
      BY DEF Tes!Init
    <3> QED BY <3>1
  <2>4. loaded \in BOOLEAN /\ error_no \in BOOLEAN
    BY DEF Tes!Init
  <2>3. fd \subseteq Clients /\ stuck \in Clients \cup {Nobody}
    BY DEF Tes!Init
  <2> QED BY <2>1, <2>2, <2>3, <2>4 DEF TesTyped
<1>3. Owners
  BY <1>1 DEF Tes!Init, Owners, Holds
<1>4. Tes!Lost = {} /\ Stopped = {}
  BY <1>1 DEF Tes!Init, Tes!Lost, Stopped
<1>5. Paid /\ refusals <= Cardinality(Stopped)
  BY <1>4, FS_EmptySet DEF Tes!Init, Paid
<1> QED BY <1>2, <1>3, <1>5 DEF TesInv

(* Steps that change neither slots, descriptors nor counts, and let no process  *)
(* that holds a slot go, or go back.                                          *)
LEMMA Onward ==
    ASSUME Tes!TestAssumption, TesInv, TesTyped',
           owner' = owner, fd' = fd, error_no' = error_no, stuck' = stuck, refusals' = refusals,
           \A p \in Clients : \/ st'[p] = st[p]
                              \/ st[p] \in Early /\ st'[p] \in Early \cup {"gone"}
                              \/ st'[p] = "exit" /\ st[p] # "gone"
    PROVE  TesInv'
<1>1. \A p \in Clients : Holds(p)' <=> Holds(p)
  BY DEF Holds
<1>2. \A p \in Clients : Holds(p) => (st'[p] = "gone" <=> st[p] = "gone")
  BY DEF TesInv, Owners, Early
<1>3. Owners'
  <2>1. \A s, t \in SlotIds : owner'[s] = owner'[t] /\ owner'[s] # Nobody => s = t
    BY DEF TesInv, Owners
  <2>2. \A p \in Clients : Holds(p) => p \in fd' \/ st'[p] = "gone"
    BY <1>2 DEF TesInv, Owners
  <2>3. \A p \in Clients : Holds(p) /\ st'[p] = "open" => stuck' = p
    BY DEF TesInv, Owners, Early
  <2>4. \A p \in fd' : st'[p] \notin Early \cup {"gone"}
    BY DEF TesInv, TesTyped, Owners, Early
  <2>5. \A p \in Clients : st'[p] \in {"open", "use", "asleep"} => p \in fd'
    BY DEF TesInv, Owners, Early
  <2> QED BY <1>1, <2>1, <2>2, <2>3, <2>4, <2>5 DEF Owners
<1>4. Tes!Lost' = Tes!Lost
  BY <1>2 DEF Tes!Lost, Holds, TesInv, TesTyped
<1>5. Paid'
  BY <1>4 DEF TesInv, Paid
<1>6. Stopped \subseteq Stopped'
  BY DEF Stopped, Early
<1>7. Cardinality(Stopped) <= Cardinality(Stopped')
  <2>1. Stopped' \subseteq Clients
    BY DEF Stopped
  <2> QED BY <1>6, <2>1, TesFinite, FS_Subset
<1>8. refusals' <= Cardinality(Stopped)'
  <2>1. Cardinality(Stopped) \in Nat /\ Cardinality(Stopped') \in Nat
    BY TesSets, TesFinite, FS_Subset, FS_CardinalityType DEF TesInv, Stopped
  <2> QED BY <1>7, <2>1 DEF TesInv, TesTyped
<1> QED BY <1>3, <1>5, <1>8 DEF TesInv


LEMMA OpenInv ==
    ASSUME Tes!TestAssumption, TesInv, NEW p \in Clients, Tes!Open(p)
    PROVE  TesInv'
<1>1. /\ st[p] = "start" /\ fd' = fd \cup {p}
      /\ \E to \in {"use", "open"} : st' = [st EXCEPT ![p] = to]
      /\ UNCHANGED <<owner, script, loaded, error_no, stuck, refusals>>
  BY DEF Tes!Open, Tes!To
<1>2. p \notin fd /\ ~Holds(p)
  BY <1>1 DEF TesInv, Owners, Early
<1>3. TesTyped /\ TesTyped'
  BY <1>1 DEF TesInv, TesTyped, Tes!States
<1>4. /\ st'[p] \in {"use", "open"}
      /\ \A q \in Clients \ {p} : st'[q] = st[q]
  BY <1>1, <1>3 DEF TesTyped
<1>5. \A q \in Clients : Holds(q)' <=> Holds(q)
  BY <1>1 DEF Holds
<1>6. Owners'
  <2>1. \A s, t \in SlotIds : owner'[s] = owner'[t] /\ owner'[s] # Nobody => s = t
    BY <1>1 DEF TesInv, Owners
  <2>2. \A q \in Clients : Holds(q) => q \in fd' \/ st'[q] = "gone"
    BY <1>1, <1>2, <1>4 DEF TesInv, Owners
  <2>3. \A q \in Clients : Holds(q) /\ st'[q] = "open" => stuck' = q
    BY <1>1, <1>2, <1>4 DEF TesInv, Owners
  <2>4. \A q \in fd' : st'[q] \notin Early \cup {"gone"}
    BY <1>1, <1>3, <1>4 DEF TesInv, TesTyped, Owners, Early
  <2>5. \A q \in Clients : st'[q] \in {"open", "use", "asleep"} => q \in fd'
    BY <1>1, <1>4 DEF TesInv, Owners
  <2> QED BY <1>5, <2>1, <2>2, <2>3, <2>4, <2>5 DEF Owners
<1>7. Tes!Lost' = Tes!Lost
  BY <1>1, <1>2, <1>3, <1>4 DEF Tes!Lost, Holds, TesTyped
<1>8. Stopped' = Stopped
  BY <1>1, <1>4 DEF Stopped
<1> QED BY <1>1, <1>3, <1>6, <1>7, <1>8 DEF TesInv, Paid

LEMMA CreateInv ==
    ASSUME Tes!TestAssumption, TesInv, NEW p \in Clients, Tes!Create(p)
    PROVE  TesInv'
<1>1. /\ st[p] = "open" /\ stuck = Nobody /\ p # Nobody
      /\ script' = script /\ loaded' = loaded /\ fd' = fd
  BY TesNames DEF Tes!Create
<1>2. ~Holds(p) /\ p \in fd
  BY <1>1 DEF TesInv, Owners
<1>3. TesTyped /\ Owners
  BY DEF TesInv
<1>4. CASE Tes!Free # {} /\ error_no' = error_no /\ refusals' = refusals
           /\ (\E s \in Tes!Free : owner' = [owner EXCEPT ![s] = p])
           /\ \/ stuck' = stuck /\ \E to \in {"asleep", "use"} : st' = [st EXCEPT ![p] = to]
              \/ stuck' = p /\ st' = st
  <2>1. PICK s \in Tes!Free : owner' = [owner EXCEPT ![s] = p]
    BY <1>4
  <2>2. s \in SlotIds /\ owner[s] = Nobody
    BY <2>1 DEF Tes!Free
  <2>3. /\ owner'[s] = p /\ \A t \in SlotIds \ {s} : owner'[t] = owner[t]
        /\ owner' \in [SlotIds -> Clients \cup {Nobody}]
    BY <1>3, <2>1, <2>2 DEF TesTyped
  <2>4. /\ st'[p] \in {"asleep", "use"} \/ (stuck' = p /\ st'[p] = "open")
        /\ \A q \in Clients \ {p} : st'[q] = st[q]
        /\ st' \in [Clients -> Tes!States] /\ stuck' \in Clients \cup {Nobody}
    BY <1>1, <1>3, <1>4 DEF TesTyped, Tes!States
  <2>5. TesTyped'
    BY <1>1, <1>3, <1>4, <2>3, <2>4 DEF TesTyped
  <2>6. \A q \in Clients \ {p} : Holds(q)' <=> Holds(q)
    BY <1>1, <2>2, <2>3, TesNames DEF Holds
  <2>7. Owners'
    <3>1. \A t, u \in SlotIds : owner'[t] = owner'[u] /\ owner'[t] # Nobody => t = u
      BY <1>2, <1>3, <2>3 DEF Owners, Holds
    <3>2. \A q \in Clients : Holds(q)' => q \in fd' \/ st'[q] = "gone"
      BY <1>1, <1>2, <1>3, <2>4, <2>6 DEF Owners
    <3>3. \A q \in Clients : Holds(q)' /\ st'[q] = "open" => stuck' = q
      BY <1>1, <1>3, <2>4, <2>6, TesNames DEF Owners
    <3>4. \A q \in fd' : st'[q] \notin Early \cup {"gone"}
      BY <1>1, <1>3, <2>4 DEF Owners, TesTyped, Early
    <3>5. \A q \in Clients : st'[q] \in {"open", "use", "asleep"} => q \in fd'
      BY <1>1, <1>2, <1>3, <2>4 DEF Owners
    <3> QED BY <3>1, <3>2, <3>3, <3>4, <3>5 DEF Owners
  <2>8. Tes!Lost' = Tes!Lost
    <3>1. st[p] # "gone" /\ st'[p] # "gone"
      BY <1>1, <2>4
    <3> QED BY <1>3, <2>2, <2>3, <2>4, <3>1 DEF Tes!Lost, TesTyped
  <2>9. Stopped' = Stopped
    BY <1>1, <2>4 DEF Stopped
  <2> QED BY <1>4, <2>5, <2>7, <2>8, <2>9 DEF TesInv, Paid
<1>5. CASE /\ error_no' = TRUE /\ st' = [st EXCEPT ![p] = "exit"] /\ refusals' = refusals + 1
           /\ owner' = owner /\ stuck' = stuck
  <2>1. st'[p] = "exit" /\ \A q \in Clients \ {p} : st'[q] = st[q]
    BY <1>3, <1>5 DEF TesTyped
  <2>2. TesTyped'
    BY <1>1, <1>3, <1>5 DEF TesTyped, Tes!States
  <2>3. Owners'
    <3>1. \A q \in Clients : Holds(q)' <=> Holds(q)
      BY <1>5 DEF Holds
    <3>2. \A t, u \in SlotIds : owner'[t] = owner'[u] /\ owner'[t] # Nobody => t = u
      BY <1>3, <1>5 DEF Owners
    <3>3. \A q \in Clients : /\ Holds(q) => q \in fd' \/ st'[q] = "gone"
                             /\ Holds(q) /\ st'[q] = "open" => stuck' = q
      BY <1>1, <1>3, <1>5, <2>1 DEF Owners
    <3>4. \A q \in fd' : st'[q] \notin Early \cup {"gone"}
      BY <1>1, <1>3, <2>1 DEF Owners, TesTyped, Early
    <3>5. \A q \in Clients : st'[q] \in {"open", "use", "asleep"} => q \in fd'
      BY <1>1, <1>3, <2>1 DEF Owners
    <3> QED BY <3>1, <3>2, <3>3, <3>4, <3>5 DEF Owners
  <2>4. Tes!Lost' = Tes!Lost
    BY <1>1, <1>2, <1>3, <1>5, <2>1 DEF Tes!Lost, Holds, TesTyped
  <2>5. Cardinality(Stopped') = Cardinality(Stopped) + 1
    <3>1. Stopped' = Stopped \cup {p} /\ p \notin Stopped
      BY <1>1, <2>1 DEF Stopped
    <3> QED BY <1>3, <3>1, TesSets, FS_AddElement
  <2>6. Cardinality(Tes!Lost) \in Nat /\ Cardinality(Stopped) \in Nat /\ refusals \in Nat
    BY <1>3, TesSets DEF TesTyped
  <2>7. Cardinality(Tes!Lost') + (IF error_no' THEN 1 ELSE 0) <= refusals'
    <3>1. Cardinality(Tes!Lost) <= refusals
      BY <2>6 DEF TesInv, Paid
    <3> QED BY <1>5, <2>4, <2>6, <3>1
  <2>8. refusals' <= Cardinality(Stopped')
    BY <1>5, <2>5, <2>6 DEF TesInv
  <2> QED BY <2>2, <2>3, <2>7, <2>8 DEF TesInv, Paid
<1>6. Tes!Kept(p) \in {"asleep", "use"}
  BY DEF Tes!Kept
<1>7. Tes!Free # {} => (CHOOSE s \in Tes!Free : \A t \in Tes!Free : s <= t) \in Tes!Free
  <2>1. Tes!Free \in SUBSET Nat
    BY DEF Tes!Free, Tes!TestAssumption
  <2> HIDE DEF Tes!Free
  <2> QED BY <2>1, SmallestNumber
<1> QED BY <1>4, <1>5, <1>6, <1>7 DEF Tes!Create, Tes!To, Tes!Lend

LEMMA StoppedSame ==
    ASSUME NEW p \in Clients, st[p] = "exit", st'[p] = "gone",
           \A q \in Clients \ {p} : st'[q] = st[q]
    PROVE  Stopped' = Stopped
BY DEF Stopped

(* A release gives the slot back, or skips del_user and clears error_no; then   *)
(* the slot is lost, and the create that had set error_no pays for it.          *)
LEMMA ExitInv ==
    ASSUME Tes!TestAssumption, TesInv, NEW p \in Clients, Tes!Exit(p)
    PROVE  TesInv'
<1>1. /\ st[p] = "exit" /\ st' = [st EXCEPT ![p] = "gone"] /\ fd' = fd \ {p}
      /\ script' = script /\ loaded' = loaded /\ stuck' = stuck /\ refusals' = refusals
  BY DEF Tes!Exit, Tes!To
<1>2. TesTyped /\ Owners /\ p # Nobody
  BY TesNames DEF TesInv
<1>3. st'[p] = "gone" /\ \A q \in Clients \ {p} : st'[q] = st[q]
  BY <1>1, <1>2 DEF TesTyped
<1>4. st' \in [Clients -> Tes!States] /\ fd' \subseteq Clients
  BY <1>1, <1>2 DEF TesTyped, Tes!States
<1>5. CASE owner' = owner
  <2>1. \/ error_no' = error_no /\ ~Holds(p)
        \/ error_no = TRUE /\ error_no' = FALSE
    <3>1. p \notin fd => ~Holds(p)
      BY <1>1, <1>2 DEF Owners
    <3>2. CASE p \notin fd
      BY <3>1, <3>2 DEF Tes!Exit
    <3>3. CASE p \in fd /\ error_no
      BY <1>2, <3>3 DEF Tes!Exit, TesTyped
    <3>4. CASE p \in fd /\ ~error_no
      <4>1. error_no' = error_no /\ Tes!Release(p)
        BY <3>4 DEF Tes!Exit
      <4>2. ~Holds(p)
        <5> SUFFICES ASSUME Holds(p) PROVE FALSE
          OBVIOUS
        <5>1. PICK s \in SlotIds : owner[s] = p
          BY DEF Holds
        <5>2. Tes!Slot(p) # {} /\ \A t \in Tes!Slot(p) : t = s
          BY <1>2, <5>1 DEF Tes!Slot, Owners
        <5>3. owner' = [owner EXCEPT ![s] = Nobody]
          BY <4>1, <5>2 DEF Tes!Release, Tes!GiveBack
        <5> QED BY <1>2, <1>5, <5>1, <5>3 DEF TesTyped
      <4> QED BY <4>1, <4>2
    <3> QED BY <3>2, <3>3, <3>4
  <2>2. TesTyped'
    BY <1>1, <1>2, <1>4, <1>5, <2>1 DEF TesTyped
  <2>3. Owners'
    <3>1. \A q \in Clients : Holds(q)' <=> Holds(q)
      BY <1>5 DEF Holds
    <3>2. \A t, u \in SlotIds : owner'[t] = owner'[u] /\ owner'[t] # Nobody => t = u
      BY <1>2, <1>5 DEF Owners
    <3>3. \A q \in Clients : Holds(q) => q \in fd' \/ st'[q] = "gone"
      BY <1>1, <1>2, <1>3 DEF Owners
    <3>4. \A q \in Clients : Holds(q) /\ st'[q] = "open" => stuck' = q
      BY <1>1, <1>2, <1>3 DEF Owners
    <3>5. \A q \in fd' : st'[q] \notin Early \cup {"gone"}
      BY <1>1, <1>2, <1>3 DEF Owners, TesTyped
    <3>6. \A q \in Clients : st'[q] \in {"open", "use", "asleep"} => q \in fd'
      BY <1>1, <1>2, <1>3 DEF Owners
    <3> QED BY <3>1, <3>2, <3>3, <3>4, <3>5, <3>6 DEF Owners
  <2>4. /\ Cardinality(Tes!Lost) \in Nat /\ refusals \in Nat
        /\ Cardinality(Tes!Lost) + (IF error_no THEN 1 ELSE 0) <= refusals
    BY <1>2, TesSets DEF TesInv, Paid, TesTyped
  <2>5. CASE ~Holds(p)
    <3>1. Tes!Lost' = Tes!Lost
      BY <1>2, <1>3, <1>5, <2>5 DEF Tes!Lost, Holds, TesTyped
    <3>2. (IF error_no' THEN 1 ELSE 0) <= (IF error_no THEN 1 ELSE 0)
      BY <2>1
    <3>3. Cardinality(Tes!Lost') + (IF error_no' THEN 1 ELSE 0) <= refusals'
      BY <1>1, <2>4, <3>1, <3>2
    <3> QED BY <1>1, <2>2, <2>3, <3>3, <1>3, StoppedSame DEF TesInv, Paid
  <2>6. CASE Holds(p)
    <3>1. PICK s \in SlotIds : owner[s] = p
      BY <2>6 DEF Holds
    <3>2. Tes!Lost' = Tes!Lost \cup {s} /\ s \notin Tes!Lost
      BY <1>1, <1>2, <1>3, <1>5, <3>1 DEF Tes!Lost, Owners, TesTyped
    <3>3. Cardinality(Tes!Lost') = Cardinality(Tes!Lost) + 1
      BY <1>2, <3>2, TesSets, FS_AddElement
    <3>4. error_no = TRUE /\ error_no' = FALSE
      BY <2>1, <2>6
    <3>5. Cardinality(Tes!Lost') + (IF error_no' THEN 1 ELSE 0) <= refusals'
      BY <1>1, <2>4, <3>3, <3>4
    <3> QED BY <1>1, <2>2, <2>3, <3>5, <1>3, StoppedSame DEF TesInv, Paid
  <2> QED BY <2>5, <2>6
<1>6. CASE owner' # owner
  <2>1. /\ error_no' = error_no /\ Tes!Slot(p) # {}
        /\ Tes!GiveBack(CHOOSE s \in Tes!Slot(p) : TRUE)
    BY <1>6 DEF Tes!Exit, Tes!Release
  <2>2. PICK s \in Tes!Slot(p) : owner' = [owner EXCEPT ![s] = Nobody]
    BY <2>1 DEF Tes!GiveBack
  <2>3. /\ s \in SlotIds /\ owner[s] = p /\ owner'[s] = Nobody
        /\ \A t \in SlotIds \ {s} : owner'[t] = owner[t] /\ owner[t] # p
        /\ owner' \in [SlotIds -> Clients \cup {Nobody}]
    BY <1>2, <2>2 DEF Tes!Slot, TesTyped, Owners
  <2>4. TesTyped'
    BY <1>1, <1>2, <1>4, <2>1, <2>3 DEF TesTyped
  <2>5. \A q \in Clients \ {p} : Holds(q)' <=> Holds(q)
    BY <2>3, TesNames DEF Holds
  <2>6. Owners'
    <3>1. \A t, u \in SlotIds : owner'[t] = owner'[u] /\ owner'[t] # Nobody => t = u
      BY <1>2, <2>3 DEF Owners
    <3>2. \A q \in Clients : Holds(q)' => q \in fd' \/ st'[q] = "gone"
      BY <1>1, <1>2, <1>3, <2>5 DEF Owners
    <3>3. \A q \in Clients : Holds(q)' /\ st'[q] = "open" => stuck' = q
      BY <1>1, <1>2, <1>3, <2>5 DEF Owners
    <3>4. \A q \in fd' : st'[q] \notin Early \cup {"gone"}
      BY <1>1, <1>2, <1>3 DEF Owners, TesTyped
    <3>5. \A q \in Clients : st'[q] \in {"open", "use", "asleep"} => q \in fd'
      BY <1>1, <1>2, <1>3 DEF Owners
    <3> QED BY <3>1, <3>2, <3>3, <3>4, <3>5 DEF Owners
  <2>7. Tes!Lost' = Tes!Lost
    BY <1>1, <1>2, <1>3, <2>3 DEF Tes!Lost, TesTyped
  <2> QED BY <1>1, <2>1, <2>4, <2>6, <2>7, <1>3, StoppedSame DEF TesInv, Paid
<1> QED BY <1>5, <1>6

(* run.sh, the forks and the kills.                                           *)
LEMMA ScriptInv ==
    ASSUME Tes!TestAssumption, TesInv,
           \/ Tes!Insmod \/ Tes!StartCase \/ Tes!NextCase \/ Tes!Rmmod \/ Tes!Fork \/ Tes!Kill
           \/ \E p \in Clients : Tes!Use(p)
    PROVE  TesInv'
<1>1. /\ owner' = owner /\ fd' = fd /\ error_no' = error_no /\ stuck' = stuck
      /\ refusals' = refusals
  BY DEF Tes!Insmod, Tes!StartCase, Tes!NextCase, Tes!Rmmod, Tes!Fork, Tes!Kill, Tes!Use
<1>2. TesTyped
  BY DEF TesInv
<1>3. script' \in 9 .. 18 /\ loaded' \in BOOLEAN
  <2>1. script \in 9 .. 18 /\ loaded \in BOOLEAN
    BY <1>2 DEF TesTyped
  <2>2. \/ script' = script
        \/ script = 9 /\ script' = 10
        \/ script = 17 /\ script' = 18
        \/ script \in 10 .. 16 /\ script' = script + 1
    BY DEF Tes!Insmod, Tes!StartCase, Tes!NextCase, Tes!Rmmod, Tes!Fork, Tes!Kill, Tes!Use
  <2>3. loaded' = loaded \/ loaded' \in BOOLEAN
    BY DEF Tes!Insmod, Tes!StartCase, Tes!NextCase, Tes!Rmmod, Tes!Fork, Tes!Kill, Tes!Use
  <2>4. script' \in 9 .. 18
    BY <2>1, <2>2
  <2> QED BY <2>1, <2>3, <2>4
<1>4. /\ st' \in [Clients -> Tes!States]
      /\ \A p \in Clients : \/ st'[p] = st[p]
                            \/ st[p] \in Early /\ st'[p] \in Early \cup {"gone"}
                            \/ st'[p] = "exit" /\ st[p] # "gone"
  <2>1. st \in [Clients -> Tes!States]
    BY <1>2 DEF TesTyped
  <2>2. CASE st' = st
    BY <2>1, <2>2
  <2>3. CASE Tes!StartCase
    <3>1. script \in Clients /\ st[script] = "no"
      BY <2>3, TesNames DEF Tes!StartCase
    <3>2. \E to \in {"gone", "main", "start"} : st' = [st EXCEPT ![script] = to]
      BY <2>3 DEF Tes!StartCase, Tes!To
    <3> QED BY <2>1, <3>1, <3>2 DEF Early, Tes!States
  <2>4. CASE Tes!Fork
    <3> DEFINE Unborn == {c \in Children : st[c] = "no"}
               c == CHOOSE c \in Children : st[c] = "no" /\ \A b \in Children : st[b] = "no" => c <= b
    <3>1. Unborn # {} /\ Unborn \in SUBSET Nat
      BY <2>4 DEF Tes!Fork, Tes!TestAssumption
    <3>2. \E k \in Unborn : \A b \in Unborn : k <= b
      <4> HIDE DEF Unborn
      <4> QED BY <3>1, SmallestNumber
    <3>3. \E k \in Children : st[k] = "no" /\ \A b \in Children : st[b] = "no" => k <= b
      BY <3>2
    <3>4. c \in Children /\ st[c] = "no"
      BY <3>3
    <3>5. st' = [st EXCEPT ![c] = "start"]
      BY <2>4 DEF Tes!Fork, Tes!To
    <3> HIDE DEF c
    <3> QED BY <2>1, <3>4, <3>5, TesNames DEF Early, Tes!States
  <2>5. CASE Tes!Kill
    <3>1. PICK waits : st[Tes!Main(4)] = "main"
          /\ st' = [p \in Clients |-> IF p = Tes!Main(4) THEN "gone"
                       ELSE IF p \in Tes!Killed \ waits /\ st[p] # "gone" THEN "exit" ELSE st[p]]
      BY <2>5 DEF Tes!Kill
    <3> QED BY <2>1, <3>1 DEF Early, Tes!States
  <2>6. CASE \E p \in Clients : Tes!Use(p)
    BY <2>1, <2>6 DEF Tes!Use, Tes!To, Tes!States
  <2>7. CASE Tes!Insmod \/ Tes!NextCase \/ Tes!Rmmod
    BY <2>2, <2>7 DEF Tes!Insmod, Tes!NextCase, Tes!Rmmod
  <2> QED BY <2>3, <2>4, <2>5, <2>6, <2>7
<1>5. TesTyped'
  BY <1>1, <1>2, <1>3, <1>4 DEF TesTyped
<1> QED BY <1>1, <1>4, <1>5, Onward

LEMMA TesStepInv ==
    ASSUME Tes!TestAssumption, TesInv, [Tes!Next]_(Tes!vars)
    PROVE  TesInv'
<1>1. CASE Tes!Next
  BY <1>1, OpenInv, CreateInv, ExitInv, ScriptInv DEF Tes!Next
<1>2. CASE UNCHANGED Tes!vars
  <2>1. UNCHANGED <<owner, script, loaded, st, fd, error_no, stuck, refusals>>
    BY <1>2 DEF Tes!vars
  <2>2. TesTyped'
    BY <2>1 DEF TesInv, TesTyped
  <2> QED BY <2>1, <2>2, Onward
<1> QED BY <1>1, <1>2

THEOREM TestInvariant ==
    ASSUME Tes!TestAssumption PROVE Tes!Spec => []TesInv
<1>1. Tes!Init => TesInv
  BY TesInit
<1>2. TesInv /\ [Tes!Next]_(Tes!vars) => TesInv'
  BY TesStepInv
<1> QED BY <1>1, <1>2, PTL DEF Tes!Spec

(* A slot is only lost to a process that is gone when a create was refused: the   *)
(* release that skips del_user is the one after the refusal, whoever's it is, and  *)
(* the next release works again.                                               *)
THEOREM LossesArePaid ==
    ASSUME Tes!TestAssumption PROVE Tes!Spec => []LostByRefusal
<1>1. TesInv => LostByRefusal
  BY TesFinite, Zenon DEF TesInv, Paid, LostByRefusal, Tes!LostByRefusal
<1> QED BY <1>1, TestInvariant, PTL

(* The test run's types; no more creates are refused than there are clients.     *)
THEOREM TestTypes ==
    ASSUME Tes!TestAssumption PROVE Tes!Spec => []Tes!TypeOK
<1>1. TesInv => Tes!TypeOK
  <2> SUFFICES ASSUME TesInv PROVE Tes!TypeOK
    OBVIOUS
  <2>1. refusals \in 0 .. Cardinality(Clients)
    BY TesSets DEF TesInv, TesTyped
  <2>2. Tes!Cardinality(Clients) = Cardinality(Clients)
    BY TesFinite
  <2> QED BY <2>1, <2>2 DEF TesInv, TesTyped, Tes!TypeOK
<1> QED BY <1>1, TestInvariant, PTL
-----------------------------------------------------------------------------
(* Labs: a behaviour of it is one of each component, since a step is a step of  *)
(* one of them and leaves the others as they are.                             *)

LEMMA SideBySide ==
    LabsSpec => /\ Spec /\ Log!Spec /\ Lau!Spec
                /\ Drv!Spec /\ Dra!Spec /\ Tes!Spec
<1>1. LabsInit => /\ Init /\ Log!Init /\ Lau!Init
                  /\ Drv!Init /\ Dra!Init /\ Tes!Init
  BY DEF LabsInit
<1>2. [LabsNext]_labs => [Next]_vars
  BY DEF LabsNext, labs, GenStep, LogStep, LauStep, DrvStep, DraStep, TesStep
<1>3. [LabsNext]_labs => [Log!Next]_(Log!vars)
  BY DEF LabsNext, labs, GenStep, LogStep, LauStep, DrvStep, DraStep, TesStep, logVars, Log!vars
<1>4. [LabsNext]_labs => [Lau!Next]_(Lau!vars)
  BY DEF LabsNext, labs, GenStep, LogStep, LauStep, DrvStep, DraStep, TesStep, lauVars, Lau!vars
<1>5. [LabsNext]_labs => [Drv!Next]_(Drv!vars)
  BY DEF LabsNext, labs, GenStep, LogStep, LauStep, DrvStep, DraStep, TesStep, drvVars, Drv!vars
<1>6. [LabsNext]_labs => [Dra!Next]_(Dra!vars)
  BY DEF LabsNext, labs, GenStep, LogStep, LauStep, DrvStep, DraStep, TesStep, draVars, Dra!vars
<1>7. [LabsNext]_labs => [Tes!Next]_(Tes!vars)
  BY DEF LabsNext, labs, GenStep, LogStep, LauStep, DrvStep, DraStep, TesStep, tesVars, Tes!vars
<1> QED BY <1>1, <1>2, <1>3, <1>4, <1>5, <1>6, <1>7, PTL
        DEF LabsSpec, Spec, Log!Spec, Lau!Spec, Drv!Spec, Dra!Spec, Tes!Spec

(* The types of all of them together.                                          *)
THEOREM LabsTypes == LabsSpec => []TypesOK
<1>1. LabsSpec => []TypeOK /\ []Log!TypeOK /\ []Lau!TypeOK /\ []Drv!TypeOK
                  /\ []Dra!TypeOK /\ []Tes!TypeOK
  BY LabsAssumption, SideBySide, GenTypes, LoggerTypes, LauncherTypes, LoadingTypes,
     DraftTypes, TestTypes, PTL
<1>2. TypeOK /\ Log!TypeOK /\ Lau!TypeOK /\ Drv!TypeOK /\ Dra!TypeOK /\ Tes!TypeOK => TypesOK
  BY DEF TypesOK
<1> QED BY <1>1, <1>2, PTL

(* What the small components promise holds wherever they run side by side.       *)
THEOREM LabsSafe ==
    LabsSpec => /\ []NeverMissed /\ []LogsFaithful /\ []KeepsCommand
                /\ []NothingDangles /\ []DraftServes /\ []LostByRefusal
BY LabsAssumption, SideBySide, NothingBlockedPasses, LogsAreFaithful, LauncherKeepsCommand,
   LoadingIsClean, DraftKeepsServing, LossesArePaid, PTL

(* A refused read that got what it asked for leaves the stream where it was:     *)
(* the fseek of the preloaded fread goes back exactly as far as the read went.    *)
THEOREM ReadKeepsPlace == LabsSpec => RefusedReadKeepsPlace
<1>1. Log!LoggerAssumption
  BY LabsAssumption
<1>2. LogInv /\ [LabsNext]_labs => [turn = "log" => Log!KeepsPlace]_labs
  <2> SUFFICES ASSUME LogInv, LabsNext, turn = "log" PROVE Log!KeepsPlace
    OBVIOUS
  <2>1. Log!Next
    BY DEF LabsNext, GenStep, LogStep, LauStep, DrvStep, DraStep, TesStep
  <2> QED BY <1>1, <2>1, LogStep1
<1>3. LabsSpec => []LogInv
  BY <1>1, SideBySide, LoggerInvariant, PTL
<1> QED BY <1>2, <1>3, PTL DEF LabsSpec, RefusedReadKeepsPlace
=============================================================================
