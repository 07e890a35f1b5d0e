-------------------------- MODULE MazeDeviceProofs --------------------------
(* Proofs about MazeDevice that hold for every set of processes, any number  *)
(* of slots and any layouts.                                                *)
EXTENDS MazeDevice, FiniteSetTheorems, WellFoundedInduction, TLAPS

(* A nonempty set of slots has a least element, so get_user_index and        *)
(* get_empty_index return a slot of the set they scan for, or -1.           *)
LEMMA LeastSlot ==
    ASSUME NEW S \in SUBSET Nat, S # {}
    PROVE  /\ Min(S) \in S
           /\ \A j \in S : Min(S) <= j
<1>. DEFINE Segments == {0 .. i : i \in S}
            Shorter == StrictSubsetOrdering(Nat)
<1>1. Segments \subseteq FiniteSubsetsOf(Nat) /\ Segments # {}
  <2>1. ASSUME NEW i \in S PROVE 0 .. i \in FiniteSubsetsOf(Nat)
    <3>1. IsFiniteSet(0 .. i)
      BY FS_Interval
    <3>. QED BY <3>1 DEF FiniteSubsetsOf
  <2>. QED BY <2>1
<1>2. IsWellFoundedOn(Shorter, FiniteSubsetsOf(Nat))
  BY FS_StrictSubsetOrderingWellFounded
<1>3. PICK s \in Segments : \A t \in Segments : ~(<<t, s>> \in Shorter)
  <2>. HIDE DEF Segments, Shorter
  <2>. QED BY <1>1, <1>2, WFMin
<1>4. PICK x \in S : s = 0 .. x
  OBVIOUS
<1>5. ASSUME NEW y \in S PROVE x <= y
  <2>1. ~(<<0 .. y, 0 .. x>> \in Shorter)
    BY <1>3, <1>4
  <2>2. CASE y < x
    <3>1. 0 .. y \subseteq 0 .. x /\ x \in 0 .. x /\ x \notin 0 .. y
      BY <2>2
    <3>2. 0 .. y \in SUBSET Nat /\ 0 .. x \in SUBSET Nat /\ 0 .. y # 0 .. x
      BY <3>1
    <3>. QED BY <2>1, <3>1, <3>2 DEF StrictSubsetOrdering
  <2>. QED BY <2>2
<1>. QED BY <1>5 DEF Min

LEMMA FirstIndexType ==
    ASSUME NEW S \in SUBSET Slots
    PROVE  /\ FirstIndex(S) \in Slots \cup {-1}
           /\ FirstIndex(S) # -1 => FirstIndex(S) \in S
           /\ FirstIndex(S) = -1 <=> S = {}
<1>1. S \in SUBSET Nat
  BY SlotAssumption DEF Slots
<1>2. CASE S = {}
  BY <1>2 DEF FirstIndex
<1>3. CASE S # {}
  <2>1. Min(S) \in S
    BY <1>1, <1>3, LeastSlot
  <2>2. FirstIndex(S) = Min(S) /\ Min(S) \in Nat
    BY <1>1, <1>3, <2>1 DEF FirstIndex
  <2>. HIDE DEF Min
  <2>. QED BY <1>3, <2>1, <2>2
<1>. QED BY <1>2, <1>3

(* What the two look-ups return. *)
LEMMA LookupType ==
    ASSUME NEW p \in Procs
    PROVE  /\ UserIndex(p) \in Slots \cup {-1}
           /\ UserIndex(p) # -1 => pids[UserIndex(p)] = p
           /\ EmptyIndex \in Slots \cup {-1}
           /\ EmptyIndex # -1 => pids[EmptyIndex] = NoPid
  BY FirstIndexType DEF UserIndex, EmptyIndex
-----------------------------------------------------------------------------
(* Type correctness, for every set of commands: the steps of the kernel and  *)
(* of the callers keep every variable in its type.                          *)
LEMMA IdleType == Idle \in Locals /\ NoResult \in Results
  BY DEF Idle, Locals, NoResult, Results, Errors, Coord, Pointer

LEMMA TypeInit == Init => TypeOK
<1>. SUFFICES ASSUME Init PROVE TypeOK
  OBVIOUS
<1>1. 0 \in Slots
  BY SlotAssumption DEF Slots
<1>2. "user" \in Labels /\ <<0, 0>> \in Coord
  BY DEF Labels, Coord
<1>. QED BY <1>1, <1>2, IdleType DEF Init, TypeOK, Pointer,
       GlobalTypes, StaticTypes, ProcessTypes, HistoryTypes

(* The control steps the handlers share. *)
LEMMA GotoType ==
    ASSUME TypeOK, NEW p \in Procs, NEW l \in Labels
    PROVE  /\ Goto(p, l) => pc' \in [Procs -> Labels]
           /\ Enter(p, l) => /\ pc' \in [Procs -> Labels]
                             /\ ret' \in [Procs -> Results]
  BY IdleType DEF TypeOK, ProcessTypes, Goto, Enter

LEMMA ReturnType ==
    ASSUME TypeOK, NEW p \in Procs, NEW op \in AllCommands \cup {"none"},
           NEW err \in Errors
    PROVE  /\ Done(p, op, err) => /\ pc' \in [Procs -> Labels]
                                  /\ loc' \in [Procs -> Locals]
                                  /\ ret' \in [Procs -> Results]
           /\ \A val \in Coord :
                Return(p, op, err, val) => /\ pc' \in [Procs -> Labels]
                                           /\ loc' \in [Procs -> Locals]
                                           /\ ret' \in [Procs -> Results]
<1>1. "user" \in Labels /\ <<0, 0>> \in Coord
  BY DEF Labels, Coord
<1>2. ASSUME NEW val \in Coord, Return(p, op, err, val)
      PROVE  /\ pc' \in [Procs -> Labels]
             /\ loc' \in [Procs -> Locals]
             /\ ret' \in [Procs -> Results]
  <2>1. [op |-> op, err |-> err, val |-> val] \in Results
    BY DEF Results
  <2>. QED BY <1>1, <1>2, <2>1, IdleType DEF TypeOK, ProcessTypes, Return, Goto
<1>. QED BY <1>1, <1>2 DEF Done

(* The registers a step may set. *)
LEMMA LocType ==
    ASSUME TypeOK, NEW p \in Procs
    PROVE  /\ \A i \in Slots \cup {-1} :
                [loc EXCEPT ![p].idx = i] \in [Procs -> Locals]
           /\ \A b \in Pointer : [loc EXCEPT ![p].blk = b] \in [Procs -> Locals]
           /\ \A c \in AllCommands :
                [loc EXCEPT ![p].cmd = c] \in [Procs -> Locals]
           /\ \A s \in Coord : [loc EXCEPT ![p].size = s] \in [Procs -> Locals]
           /\ \A s \in Seq(Delta) :
                [loc EXCEPT ![p].moves = s] \in [Procs -> Locals]
           /\ \A c \in AllCommands, s \in Coord :
                [loc EXCEPT ![p].cmd = c, ![p].size = s] \in [Procs -> Locals]
           /\ \A c \in AllCommands, b \in Pointer, t \in Coord :
                [loc EXCEPT ![p].cmd = c, ![p].blk = b, ![p].tgt = t]
                    \in [Procs -> Locals]
           /\ \A t \in Coord : [loc EXCEPT ![p].tgt = t] \in [Procs -> Locals]
           /\ \A s \in Seq(Delta), t \in Coord :
                LET rest == [loc[p] EXCEPT !.moves = s] IN
                /\ [loc EXCEPT ![p] = rest] \in [Procs -> Locals]
                /\ [loc EXCEPT ![p] = [rest EXCEPT !.tgt = t]] \in [Procs -> Locals]
<1>. USE DEF TypeOK, ProcessTypes, Locals
<1>1. \A i \in Slots \cup {-1} : [loc EXCEPT ![p].idx = i] \in [Procs -> Locals]
  OBVIOUS
<1>2. \A b \in Pointer : [loc EXCEPT ![p].blk = b] \in [Procs -> Locals]
  OBVIOUS
<1>3. \A c \in AllCommands : [loc EXCEPT ![p].cmd = c] \in [Procs -> Locals]
  OBVIOUS
<1>4. \A s \in Coord : [loc EXCEPT ![p].size = s] \in [Procs -> Locals]
  OBVIOUS
<1>5. \A s \in Seq(Delta) : [loc EXCEPT ![p].moves = s] \in [Procs -> Locals]
  OBVIOUS
<1>6. \A c \in AllCommands, s \in Coord :
         [loc EXCEPT ![p].cmd = c, ![p].size = s] \in [Procs -> Locals]
  OBVIOUS
<1>7. ASSUME NEW c \in AllCommands, NEW b \in Pointer, NEW t \in Coord
      PROVE  [loc EXCEPT ![p].cmd = c, ![p].blk = b, ![p].tgt = t]
                 \in [Procs -> Locals]
  <2>1. [loc[p] EXCEPT !.cmd = c, !.blk = b, !.tgt = t] \in Locals
    OBVIOUS
  <2>2. [loc EXCEPT ![p].cmd = c, ![p].blk = b, ![p].tgt = t]
          = [loc EXCEPT ![p] = [loc[p] EXCEPT !.cmd = c, !.blk = b, !.tgt = t]]
    OBVIOUS
  <2>3. loc \in [Procs -> Locals]
    OBVIOUS
  <2>. HIDE DEF Locals
  <2>. QED BY <2>1, <2>2, <2>3
<1>8. \A t \in Coord : [loc EXCEPT ![p].tgt = t] \in [Procs -> Locals]
  OBVIOUS
<1>9. ASSUME NEW s \in Seq(Delta), NEW t \in Coord
      PROVE  LET rest == [loc[p] EXCEPT !.moves = s] IN
             /\ [loc EXCEPT ![p] = rest] \in [Procs -> Locals]
             /\ [loc EXCEPT ![p] = [rest EXCEPT !.tgt = t]] \in [Procs -> Locals]
  <2> DEFINE rest == [loc[p] EXCEPT !.moves = s]
  <2>1. rest \in Locals /\ [rest EXCEPT !.tgt = t] \in Locals
    OBVIOUS
  <2>2. loc \in [Procs -> Locals]
    OBVIOUS
  <2>. HIDE DEF Locals, rest
  <2>3. QED BY <2>1, <2>2 DEF rest
<1>. HIDE DEF TypeOK, ProcessTypes, Locals
<1>. QED BY <1>1, <1>2, <1>3, <1>4, <1>5, <1>6, <1>7, <1>8, <1>9

(* The data the steps move: moved positions and maze contents stay mazes. *)
LEMMA LayoutType ==
    ASSUME NEW l \in Layouts
    PROVE  /\ l.size \in Coord /\ l.start \in Coord /\ l.end \in Coord
           /\ [lay |-> l, pos |-> l.start] \in MazeInfo
  BY LayoutAssumption DEF Layout, MazeInfo

LEMMA MoveType ==
    ASSUME NEW c \in Coord, NEW d \in Coord PROVE Plus(c, d) \in Coord
<1>1. \A n \in Int : Wrap(n) \in Int
  BY WidthAssumption DEF Wrap
<1> QED BY <1>1 DEF Plus, Coord

LEMMA DeltaType ==
    /\ Delta \subseteq Coord /\ Deltas \subseteq Delta
    /\ <<0, 0>> \in Coord /\ Lost \in Coord
<1>1. Ints \subseteq Int
  BY WidthAssumption DEF Ints
<1>2. Delta \subseteq Coord
  BY <1>1 DEF Coord, Delta
<1>3. <<0, 0>> \in Coord /\ Lost \in Coord
  BY DEF Coord, Lost
<1> QED BY <1>2, <1>3, DeltaAssumption

LEMMA MazeType ==
    ASSUME NEW m \in MazeInfo
    PROVE  /\ m.lay \in Layouts /\ m.pos \in Coord
           /\ m.pos[1] \in Int /\ m.pos[2] \in Int
           /\ \A c \in Coord : [m EXCEPT !.pos = c] \in MazeInfo
           /\ \A n \in Int : /\ [m EXCEPT !.pos[1] = n] \in MazeInfo
                             /\ [m EXCEPT !.pos[2] = n] \in MazeInfo
           /\ \A d \in Delta : Walk(m, d) \in MazeInfo
<1>1. \A c \in Coord : [m EXCEPT !.pos = c] \in MazeInfo
  BY DEF MazeInfo
<1>2. m.lay \in Layouts /\ m.pos \in Coord
  BY DEF MazeInfo
<1>3. ASSUME NEW n \in Int
      PROVE  /\ [m EXCEPT !.pos[1] = n] \in MazeInfo
             /\ [m EXCEPT !.pos[2] = n] \in MazeInfo
  <2>1. [m.pos EXCEPT ![1] = n] \in Coord /\ [m.pos EXCEPT ![2] = n] \in Coord
    BY <1>2 DEF Coord
  <2>. QED BY <2>1, <1>1
<1>4. ASSUME NEW d \in Delta PROVE Walk(m, d) \in MazeInfo
  BY <1>1, <1>2, MoveType, DeltaType DEF Walk
<1>. QED BY <1>1, <1>2, <1>3, <1>4 DEF Coord

LEMMA KindType ==
    ASSUME NEW p \in Procs
    PROVE  Kind(p) \in {"none", "null", "uaf", "oob", "uninit"}
  BY DEF Kind

(* A step that finds its memory sound works on a block that holds a maze. *)
LEMMA SoundTarget ==
    ASSUME TypeOK, NEW p \in Procs, pc[p] # "DESTROY", Kind(p) = "none"
    PROVE  /\ Target(p) \in Blocks
           /\ heap[Target(p)] \in MazeInfo
<1>1. Target(p) \in Pointer
  <2>1. loc[p].blk \in Pointer
    BY DEF TypeOK, ProcessTypes, Locals
  <2>2. UseIndex(p) \in Slots => info[UseIndex(p)] \in Pointer
    BY DEF TypeOK, GlobalTypes
  <2>. QED BY <2>1, <2>2 DEF Target, Kind
<1>2. Target(p) # NULL /\ heap[Target(p)] # Freed /\ heap[Target(p)] # Raw
  BY DEF Kind
<1>. QED BY <1>1, <1>2 DEF Pointer, TypeOK, GlobalTypes

(* What TypeOK needs to be inductive: create_maze stores a maze only after   *)
(* generate_maze has built one in its static.                               *)
MazeBuilt == \A p \in Procs : pc[p] = "store_maze" => gmaze # NULL

LEMMA TypeStep == TypeOK /\ MazeBuilt /\ [Next]_vars => TypeOK'
<1>. SUFFICES ASSUME TypeOK, MazeBuilt, [Next]_vars PROVE TypeOK'
  OBVIOUS
<1>. USE DEF TypeOK, globals, statics, self, history, table, flags,
             fileStatics, ioctlStatics, Request, Lock, Uses
<1>Open. ASSUME NEW p \in Procs, Open(p) PROVE TypeOK'
  <2>1. UNCHANGED <<globals, statics, history>>
    BY <1>Open DEF Open
  <2>2. ProcessTypes'
    BY <1>Open, GotoType, ReturnType, IdleType
       DEF Open, ProcessTypes, Labels, AllCommands, Errors
  <2>. QED BY <2>1, <2>2 DEF GlobalTypes, StaticTypes, HistoryTypes
<1>Close. ASSUME NEW p \in Procs, Close(p) PROVE TypeOK'
  <2>1. UNCHANGED <<statics>>
    BY <1>Close DEF Close
  <2>2. GlobalTypes'
    BY <1>Close DEF Close, GlobalTypes
  <2>3. ProcessTypes'
    <3>1. fd' \in [Procs -> BOOLEAN] /\ ret' \in [Procs -> Results]
      BY <1>Close, IdleType DEF Close, ProcessTypes
    <3>2. pc' \in [Procs -> Labels]
      BY <1>Close, GotoType DEF Close, Labels
    <3>3. loc' \in [Procs -> Locals]
      <4>1. UNCHANGED loc \/ loc' = [loc EXCEPT ![p].idx = UserIndex(p)]
        BY <1>Close DEF Close
      <4>2. [loc EXCEPT ![p].idx = UserIndex(p)] \in [Procs -> Locals]
        BY LookupType, LocType
      <4>. QED BY <4>1, <4>2 DEF ProcessTypes
    <3>. QED BY <3>1, <3>2, <3>3 DEF ProcessTypes
  <2>4. HistoryTypes'
    BY <1>Close DEF Close, HistoryTypes
  <2>. QED BY <2>1, <2>2, <2>3, <2>4 DEF StaticTypes
<1>DelLock. ASSUME NEW p \in Procs, DelLock(p) PROVE TypeOK'
  <2>1. UNCHANGED <<statics, history>>
    BY <1>DelLock DEF DelLock
  <2>2. GlobalTypes'
    BY <1>DelLock DEF DelLock, GlobalTypes
  <2>3. ProcessTypes'
    BY <1>DelLock, GotoType, ReturnType, IdleType
       DEF DelLock, ProcessTypes, Labels, AllCommands, Errors
  <2>. QED BY <2>1, <2>2, <2>3 DEF StaticTypes, HistoryTypes
<1>DelFree. ASSUME NEW p \in Procs, DelFree(p) PROVE TypeOK'
  <2>1. UNCHANGED <<statics>>
    BY <1>DelFree DEF DelFree
  <2>2. GlobalTypes'
    BY <1>DelFree DEF DelFree, GlobalTypes
  <2>3. ProcessTypes'
    BY <1>DelFree, GotoType, ReturnType, IdleType
       DEF DelFree, ProcessTypes, Labels, AllCommands, Errors
  <2>4. HistoryTypes'
    BY <1>DelFree DEF DelFree, HistoryTypes
  <2>. QED BY <2>1, <2>2, <2>3, <2>4 DEF StaticTypes
<1>DelClear. ASSUME NEW p \in Procs, DelClear(p) PROVE TypeOK'
  <2>1. UNCHANGED <<statics, history>>
    BY <1>DelClear DEF DelClear
  <2>2. GlobalTypes'
    BY <1>DelClear DEF DelClear, GlobalTypes, Pointer
  <2>3. ProcessTypes'
    BY <1>DelClear, GotoType, ReturnType, IdleType
       DEF DelClear, ProcessTypes, Labels, AllCommands, Errors
  <2>. QED BY <2>1, <2>2, <2>3 DEF StaticTypes, HistoryTypes
<1>Create. ASSUME NEW p \in Procs, Create(p) PROVE TypeOK'
  <2>1. UNCHANGED <<globals, statics, history>>
    BY <1>Create DEF Create
  <2>2. ProcessTypes'
    <3>1. \A c \in Sizes : c \in Coord
      BY SizeAssumption
    <3>2. UNCHANGED fd
      BY <1>Create DEF Create
    <3>3. CASE Done(p, "CREATE", "EBUSY") \/ Done(p, "CREATE", "EINVAL")
      BY <3>2, <3>3, ReturnType DEF ProcessTypes, AllCommands, Errors
    <3>4. ASSUME NEW c \in Sizes, Enter(p, "create_lock"),
                 loc' = [loc EXCEPT ![p].cmd = "CREATE", ![p].size = c]
          PROVE  ProcessTypes'
      <4>1. loc' \in [Procs -> Locals]
        BY <3>1, <3>4, LocType DEF AllCommands
      <4>2. "create_lock" \in Labels
        BY DEF Labels
      <4>. QED BY <3>2, <3>4, <4>1, <4>2, GotoType DEF ProcessTypes
    <3>. QED BY <1>Create, <3>3, <3>4 DEF Create
  <2>. QED BY <2>1, <2>2 DEF GlobalTypes, StaticTypes, HistoryTypes
<1>CreateLock. ASSUME NEW p \in Procs, CreateLock(p) PROVE TypeOK'
  <2>1. UNCHANGED <<statics, history>>
    BY <1>CreateLock DEF CreateLock
  <2>2. GlobalTypes'
    BY <1>CreateLock DEF CreateLock, GlobalTypes
  <2>3. ProcessTypes'
    BY <1>CreateLock, GotoType, ReturnType, IdleType
       DEF CreateLock, ProcessTypes, Labels, AllCommands, Errors
  <2>. QED BY <2>1, <2>2, <2>3 DEF StaticTypes, HistoryTypes
<1>CreateCheck. ASSUME NEW p \in Procs, CreateCheck(p) PROVE TypeOK'
  <2>1. UNCHANGED <<history>>
    BY <1>CreateCheck DEF CreateCheck
  <2>2. GlobalTypes'
    BY <1>CreateCheck DEF CreateCheck, GlobalTypes
  <2>3. StaticTypes'
    BY <1>CreateCheck, LookupType DEF CreateCheck, StaticTypes
  <2>4. ProcessTypes'
    BY <1>CreateCheck, GotoType, ReturnType, IdleType
       DEF CreateCheck, ProcessTypes, Labels, AllCommands, Errors
  <2>. QED BY <2>1, <2>2, <2>3, <2>4 DEF HistoryTypes
<1>Q3. ASSUME NEW p \in Procs, Q3(p) PROVE TypeOK'
  <2>1. UNCHANGED <<statics, history>>
    BY <1>Q3 DEF Q3
  <2>2. GlobalTypes'
    BY <1>Q3 DEF Q3, GlobalTypes
  <2>3. ProcessTypes'
    <3>1. \A c \in Sizes : c \in Coord
      BY SizeAssumption
    <3>2. UNCHANGED fd
      BY <1>Q3 DEF Q3
    <3>3. CASE Done(p, "Q3", "EBUSY") \/ Done(p, "Q3", "EINVAL")
      BY <3>2, <3>3, ReturnType DEF ProcessTypes, AllCommands, Errors
    <3>4. ASSUME NEW c \in Sizes, Enter(p, "find_slot"),
                 loc' = [loc EXCEPT ![p].cmd = "Q3", ![p].size = c]
          PROVE  ProcessTypes'
      <4>1. loc' \in [Procs -> Locals]
        BY <3>1, <3>4, LocType DEF AllCommands
      <4>2. "find_slot" \in Labels
        BY DEF Labels
      <4>. QED BY <3>2, <3>4, <4>1, <4>2, GotoType DEF ProcessTypes
    <3>. QED BY <1>Q3, <3>3, <3>4 DEF Q3
  <2>. QED BY <2>1, <2>2, <2>3 DEF StaticTypes, HistoryTypes
<1>FindSlot. ASSUME NEW p \in Procs, FindSlot(p) PROVE TypeOK'
  <2>1. UNCHANGED <<statics, history>>
    BY <1>FindSlot DEF FindSlot
  <2>2. GlobalTypes'
    BY <1>FindSlot DEF FindSlot, GlobalTypes, Unlock
  <2>3. ProcessTypes'
    <3>1. loc[p].cmd \in AllCommands \cup {"none"}
      BY DEF ProcessTypes, Locals
    <3>2. UNCHANGED fd
      BY <1>FindSlot DEF FindSlot
    <3>3. CASE Done(p, loc[p].cmd, "OK")
      BY <3>1, <3>2, <3>3, ReturnType DEF ProcessTypes, Errors
    <3>4. CASE /\ Goto(p, "claim_slot") /\ UNCHANGED ret
               /\ loc' = [loc EXCEPT ![p].idx = EmptyIndex]
      <4>1. loc' \in [Procs -> Locals]
        BY <3>4, LookupType, LocType
      <4>2. "claim_slot" \in Labels
        BY DEF Labels
      <4>. QED BY <3>2, <3>4, <4>1, <4>2, GotoType DEF ProcessTypes
    <3>. QED BY <1>FindSlot, <3>3, <3>4 DEF FindSlot
  <2>. QED BY <2>1, <2>2, <2>3 DEF StaticTypes, HistoryTypes
<1>ClaimSlot. ASSUME NEW p \in Procs, ClaimSlot(p) PROVE TypeOK'
  <2>1. UNCHANGED <<statics, history>>
    BY <1>ClaimSlot DEF ClaimSlot
  <2>2. GlobalTypes'
    BY <1>ClaimSlot DEF ClaimSlot, GlobalTypes
  <2>3. ProcessTypes'
    BY <1>ClaimSlot, GotoType, ReturnType, IdleType
       DEF ClaimSlot, ProcessTypes, Labels, AllCommands, Errors
  <2>. QED BY <2>1, <2>2, <2>3 DEF StaticTypes, HistoryTypes
<1>Alloc. ASSUME NEW p \in Procs, Alloc(p) PROVE TypeOK'
  <2>1. UNCHANGED <<statics>>
    BY <1>Alloc DEF Alloc
  <2>2. GlobalTypes'
    BY <1>Alloc DEF Alloc, GlobalTypes, Pointer
  <2>3. ProcessTypes'
    <3>1. UNCHANGED <<fd, ret>> /\ pc' \in [Procs -> Labels]
      BY <1>Alloc, GotoType DEF Alloc, Labels
    <3>2. loc' \in [Procs -> Locals]
      <4>1. (\E b \in Blocks : loc' = [loc EXCEPT ![p].blk = b])
              \/ loc' = [loc EXCEPT ![p] = Idle] \/ UNCHANGED loc
        BY <1>Alloc DEF Alloc, Done, Return
      <4>2. \A b \in Blocks : [loc EXCEPT ![p].blk = b] \in [Procs -> Locals]
        BY LocType DEF Pointer
      <4>3. [loc EXCEPT ![p] = Idle] \in [Procs -> Locals]
        BY IdleType DEF ProcessTypes
      <4>. QED BY <4>1, <4>2, <4>3 DEF ProcessTypes
    <3>. QED BY <3>1, <3>2 DEF ProcessTypes
  <2>4. HistoryTypes'
    BY <1>Alloc DEF Alloc, HistoryTypes
  <2>. QED BY <2>1, <2>2, <2>3, <2>4 DEF StaticTypes
<1>Generate. ASSUME NEW p \in Procs, Generate(p) PROVE TypeOK'
  <2>1. UNCHANGED <<globals, history>>
    BY <1>Generate DEF Generate
  <2>2. StaticTypes'
    BY <1>Generate, LookupType DEF Generate, StaticTypes
  <2>3. ProcessTypes'
    BY <1>Generate, GotoType, ReturnType, IdleType
       DEF Generate, ProcessTypes, Labels, AllCommands, Errors
  <2>. QED BY <2>1, <2>2, <2>3 DEF GlobalTypes, HistoryTypes
<1>StoreMaze. ASSUME NEW p \in Procs, StoreMaze(p) PROVE TypeOK'
  <2>1. UNCHANGED <<statics>>
    BY <1>StoreMaze DEF StoreMaze
  <2>m. [lay |-> gmaze, pos |-> gmaze.start] \in MazeInfo
    BY <1>StoreMaze, LayoutType DEF StoreMaze, MazeBuilt, StaticTypes
  <2>2. GlobalTypes'
    BY <1>StoreMaze, <2>m DEF StoreMaze, GlobalTypes, Unlock
  <2>3. ProcessTypes'
    <3>1. loc[p].cmd \in AllCommands \cup {"none"}
      BY DEF ProcessTypes, Locals
    <3>. QED BY <1>StoreMaze, <3>1, GotoType, ReturnType, LocType
         DEF StoreMaze, ProcessTypes, Errors
  <2>4. HistoryTypes'
    BY <1>StoreMaze, <2>m DEF StoreMaze, HistoryTypes
  <2>. QED BY <2>1, <2>2, <2>3, <2>4 DEF StaticTypes
<1>Reset. ASSUME NEW p \in Procs, Reset(p) PROVE TypeOK'
  <2>1. GlobalTypes'
    <3>1. heap[Target(p)] \in MazeInfo /\ Target(p) \in Blocks
      BY <1>Reset, SoundTarget DEF Reset
    <3>2. [heap[Target(p)] EXCEPT !.pos = heap[Target(p)].lay.start] \in MazeInfo
      BY <3>1, MazeType, LayoutType
    <3>. QED BY <1>Reset, <3>2 DEF Reset, GlobalTypes
  <2>2. StaticTypes'
    BY <1>Reset, LookupType DEF Reset, StaticTypes
  <2>3. ProcessTypes'
    BY <1>Reset, GotoType, ReturnType, IdleType
       DEF Reset, ProcessTypes, Labels, AllCommands, Errors
  <2>4. HistoryTypes'
    <3>1. view[p] # NULL =>
             [view[p] EXCEPT !.pos = view[p].lay.start] \in MazeInfo
      BY MazeType, LayoutType DEF HistoryTypes
    <3>. QED BY <1>Reset, <3>1 DEF Reset, HistoryTypes
  <2>. QED BY <2>1, <2>2, <2>3, <2>4
<1>Destroy. ASSUME NEW p \in Procs, Destroy(p) PROVE TypeOK'
  <2>1. UNCHANGED <<history>>
    BY <1>Destroy DEF Destroy
  <2>2. GlobalTypes'
    BY <1>Destroy DEF Destroy, GlobalTypes
  <2>3. StaticTypes'
    BY <1>Destroy, LookupType DEF Destroy, StaticTypes
  <2>4. ProcessTypes'
    BY <1>Destroy, GotoType, ReturnType, IdleType
       DEF Destroy, ProcessTypes, Labels, AllCommands, Errors
  <2>. QED BY <2>1, <2>2, <2>3, <2>4 DEF HistoryTypes
<1>DestroyNull. ASSUME NEW p \in Procs, DestroyNull(p) PROVE TypeOK'
  <2>1. UNCHANGED <<statics>>
    BY <1>DestroyNull DEF DestroyNull
  <2>2. GlobalTypes'
    BY <1>DestroyNull DEF DestroyNull, GlobalTypes, Pointer
  <2>3. ProcessTypes'
    BY <1>DestroyNull, GotoType, ReturnType, IdleType
       DEF DestroyNull, ProcessTypes, Labels, AllCommands, Errors
  <2>4. HistoryTypes'
    BY <1>DestroyNull DEF DestroyNull, HistoryTypes
  <2>. QED BY <2>1, <2>2, <2>3, <2>4 DEF StaticTypes
<1>GetCopy. ASSUME NEW p \in Procs, GetCopy(p) PROVE TypeOK'
  <2>1. UNCHANGED <<globals, statics, history>>
    BY <1>GetCopy DEF GetCopy
  <2>2. ProcessTypes'
    <3>1. loc[p].cmd \in AllCommands \cup {"none"}
      BY DEF ProcessTypes, Locals
    <3>2. tmp \in Coord
      BY DEF StaticTypes
    <3>. QED BY <1>GetCopy, <3>1, <3>2, GotoType, ReturnType, LocType
         DEF GetCopy, ProcessTypes, Errors
  <2>. QED BY <2>1, <2>2 DEF GlobalTypes, StaticTypes, HistoryTypes
<1>MoveCopy. ASSUME NEW p \in Procs, MoveCopy(p) PROVE TypeOK'
  <2>1. UNCHANGED <<globals>>
    BY <1>MoveCopy DEF MoveCopy
  <2>2. StaticTypes'
    BY <1>MoveCopy, DeltaType DEF MoveCopy, StaticTypes
  <2>3. ProcessTypes'
    BY <1>MoveCopy, GotoType, ReturnType, IdleType
       DEF MoveCopy, ProcessTypes, Labels, AllCommands, Errors
  <2>4. HistoryTypes'
    <3>1. ASSUME NEW d \in Delta, Expect(p, d)
          PROVE  view' \in [Procs -> MazeInfo \cup {NULL}]
      BY <3>1, MazeType DEF Expect, HistoryTypes
    <3>. QED BY <1>MoveCopy, <3>1, DeltaType DEF MoveCopy, HistoryTypes
  <2>. QED BY <2>1, <2>2, <2>3, <2>4 DEF GlobalTypes
<1>MoveUse. ASSUME NEW p \in Procs, MoveUse(p) PROVE TypeOK'
  <2>1. UNCHANGED <<globals, history>>
    BY <1>MoveUse DEF MoveUse
  <2>2. StaticTypes'
    BY <1>MoveUse, LookupType DEF MoveUse, StaticTypes
  <2>3. ProcessTypes'
    <3>1. Target(p) \in Pointer
      BY <1>MoveUse, SoundTarget DEF MoveUse, Pointer
    <3>2. <<0, coord_move[2]>> \in Coord /\ "MOVE" \in AllCommands
      BY DEF StaticTypes, Coord, AllCommands
    <3>3. UNCHANGED <<fd, ret>> /\ pc' \in [Procs -> Labels]
      BY <1>MoveUse, GotoType DEF MoveUse, Labels
    <3>4. loc' = [loc EXCEPT ![p].cmd = "MOVE", ![p].blk = Target(p),
                             ![p].tgt = <<0, coord_move[2]>>]
      BY <1>MoveUse DEF MoveUse
    <3>. HIDE DEF TypeOK
    <3>5. loc' \in [Procs -> Locals]
      BY <3>1, <3>2, <3>4, LocType
    <3>. QED BY <3>3, <3>5 DEF ProcessTypes, TypeOK
  <2>. QED BY <2>1, <2>2, <2>3 DEF GlobalTypes, HistoryTypes
<1>MoveTest. ASSUME NEW p \in Procs, MoveTest(p) PROVE TypeOK'
  <2>1. UNCHANGED <<globals, statics>>
    BY <1>MoveTest DEF MoveTest
  <2>2. ProcessTypes'
    <3> DEFINE c == Plus(heap[loc[p].blk].pos, <<coord_move[1], loc[p].tgt[2]>>)
    <3>1. c \in Coord
      <4>1. heap[loc[p].blk] \in MazeInfo
        BY <1>MoveTest, SoundTarget DEF MoveTest, Target, HeldInRegister
      <4>2. <<coord_move[1], loc[p].tgt[2]>> \in Coord
        BY DEF StaticTypes, ProcessTypes, Locals, Coord
      <4>. QED BY <4>1, <4>2, MazeType, MoveType
    <3>. HIDE DEF c
    <3>2. UNCHANGED fd
      BY <1>MoveTest DEF MoveTest
    <3>3. CASE Done(p, "MOVE", "OK")
      BY <3>2, <3>3, ReturnType DEF ProcessTypes, AllCommands, Errors
    <3>4. CASE Goto(p, "store_x") /\ loc' = [loc EXCEPT ![p].tgt = c] /\ UNCHANGED ret
      BY <3>1, <3>2, <3>4, GotoType, LocType DEF ProcessTypes, Labels
    <3>5. CASE Goto(p, "oops") /\ loc' = [loc EXCEPT ![p] = Idle] /\ UNCHANGED ret
      BY <3>2, <3>5, GotoType, IdleType DEF ProcessTypes, Labels
    <3>. QED BY <1>MoveTest, <3>3, <3>4, <3>5 DEF MoveTest, c
  <2>3. HistoryTypes'
    BY <1>MoveTest DEF MoveTest, HistoryTypes, Strays
  <2>. QED BY <2>1, <2>2, <2>3 DEF GlobalTypes, StaticTypes
<1>StoreX. ASSUME NEW p \in Procs, StoreX(p) PROVE TypeOK'
  <2>1. UNCHANGED <<statics, history>>
    BY <1>StoreX DEF StoreX
  <2>2. GlobalTypes'
    <3>1. heap[loc[p].blk] \in MazeInfo
      BY <1>StoreX, SoundTarget DEF StoreX, Target, HeldInRegister
    <3>2. loc[p].tgt[1] \in Int
      BY DEF ProcessTypes, Locals, Coord
    <3>3. [heap[loc[p].blk] EXCEPT !.pos[1] = loc[p].tgt[1]] \in MazeInfo
      BY <3>1, <3>2, MazeType
    <3>. QED BY <1>StoreX, <3>3 DEF StoreX, GlobalTypes
  <2>3. ProcessTypes'
    BY <1>StoreX, GotoType, ReturnType, IdleType
       DEF StoreX, ProcessTypes, Labels, AllCommands, Errors
  <2>. QED BY <2>1, <2>2, <2>3 DEF StaticTypes, HistoryTypes
<1>StoreY. ASSUME NEW p \in Procs, StoreY(p) PROVE TypeOK'
  <2>1. UNCHANGED <<statics, history>>
    BY <1>StoreY DEF StoreY
  <2>2. GlobalTypes'
    <3>1. heap[loc[p].blk] \in MazeInfo
      BY <1>StoreY, SoundTarget DEF StoreY, Target, HeldInRegister
    <3>2. loc[p].tgt[2] \in Int
      BY DEF ProcessTypes, Locals, Coord
    <3>3. [heap[loc[p].blk] EXCEPT !.pos[2] = loc[p].tgt[2]] \in MazeInfo
      BY <3>1, <3>2, MazeType
    <3>. QED BY <1>StoreY, <3>3 DEF StoreY, GlobalTypes
  <2>3. ProcessTypes'
    BY <1>StoreY, GotoType, ReturnType, IdleType
       DEF StoreY, ProcessTypes, Labels, AllCommands, Errors
  <2>. QED BY <2>1, <2>2, <2>3 DEF StaticTypes, HistoryTypes
<1>Read. ASSUME NEW p \in Procs, Read(p) PROVE TypeOK'
  <2>1. UNCHANGED <<globals>>
    BY <1>Read DEF Read
  <2>2. StaticTypes'
    BY <1>Read, LookupType DEF Read, StaticTypes
  <2>3. ProcessTypes'
    <3>1. HaveMaze(p) /\ heap[info[UserIndex(p)]] \notin {Freed, Raw} =>
             heap[info[UserIndex(p)]].lay.size \in Coord
      BY LookupType, MazeType, LayoutType DEF HaveMaze, GlobalTypes, Pointer
    <3>2. UNCHANGED fd
      BY <1>Read DEF Read
    <3>3. CASE Done(p, "READ", "EBADFD")
      BY <3>2, <3>3, ReturnType DEF ProcessTypes, AllCommands, Errors
    <3>4. CASE /\ HaveMaze(p) /\ Enter(p, "read_fill")
               /\ \/ /\ heap[info[UserIndex(p)]] \notin {Freed, Raw}
                     /\ loc' = [loc EXCEPT ![p].size =
                                   heap[info[UserIndex(p)]].lay.size]
                  \/ UNCHANGED loc
      <4>1. loc' \in [Procs -> Locals]
        <5>1. heap[info[UserIndex(p)]] \notin {Freed, Raw} =>
                 [loc EXCEPT ![p].size = heap[info[UserIndex(p)]].lay.size]
                     \in [Procs -> Locals]
          BY <3>1, <3>4, LocType
        <5>. QED BY <3>4, <5>1 DEF ProcessTypes
      <4>2. "read_fill" \in Labels
        BY DEF Labels
      <4>. QED BY <3>2, <3>4, <4>1, <4>2, GotoType DEF ProcessTypes
    <3>. QED BY <1>Read, <3>3, <3>4 DEF Read, NoMazeError
  <2>4. HistoryTypes'
    BY <1>Read DEF Read, NoMazeError, HistoryTypes
  <2>. QED BY <2>1, <2>2, <2>3, <2>4 DEF GlobalTypes
<1>ReadFill. ASSUME NEW p \in Procs, ReadFill(p) PROVE TypeOK'
  <2>1. UNCHANGED <<globals, statics>>
    BY <1>ReadFill DEF ReadFill
  <2>2. ProcessTypes'
    BY <1>ReadFill, GotoType, ReturnType, IdleType
       DEF ReadFill, ProcessTypes, Labels, AllCommands, Errors
  <2>3. HistoryTypes'
    BY <1>ReadFill DEF ReadFill, HistoryTypes
  <2>. QED BY <2>1, <2>2, <2>3 DEF GlobalTypes, StaticTypes
<1>ReadRet. ASSUME NEW p \in Procs, ReadRet(p) PROVE TypeOK'
  <2>1. UNCHANGED <<globals, statics, history>>
    BY <1>ReadRet DEF ReadRet
  <2>2. ProcessTypes'
    <3>1. heap[Target(p)].lay.size \in Coord
      BY <1>ReadRet, SoundTarget, MazeType, LayoutType DEF ReadRet
    <3>. QED BY <1>ReadRet, <3>1, GotoType, ReturnType, LocType
         DEF ReadRet, ProcessTypes, AllCommands, Errors
  <2>. QED BY <2>1, <2>2 DEF GlobalTypes, StaticTypes, HistoryTypes
<1>Write. ASSUME NEW p \in Procs, Write(p) PROVE TypeOK'
  <2>1. UNCHANGED <<globals>>
    BY <1>Write DEF Write
  <2>2. StaticTypes'
    BY <1>Write, LookupType DEF Write, StaticTypes
  <2>3. ProcessTypes'
    BY <1>Write, GotoType, ReturnType, LocType
    DEF Write, NoMazeError, ProcessTypes, Labels, AllCommands, Errors
  <2>4. HistoryTypes'
    BY <1>Write DEF Write, NoMazeError, HistoryTypes
  <2>. QED BY <2>1, <2>2, <2>3, <2>4 DEF GlobalTypes
<1>WriteCopy. ASSUME NEW p \in Procs, WriteCopy(p) PROVE TypeOK'
  <2>1. UNCHANGED <<globals, statics, history>>
    BY <1>WriteCopy DEF WriteCopy
  <2>2. ProcessTypes'
    <3>1. \A s \in Batches : s \in Seq(Delta)
      BY DeltaAssumption
    <3>2. UNCHANGED fd
      BY <1>WriteCopy DEF WriteCopy
    <3>3. CASE \E err \in {"EBUSY", "EINVAL", "OK"} : Done(p, "WRITE", err)
      BY <3>2, <3>3, ReturnType DEF ProcessTypes, AllCommands, Errors
    <3>4. ASSUME NEW s \in Batches, Goto(p, "write_load"), UNCHANGED ret,
                 loc' = [loc EXCEPT ![p].moves = s]
          PROVE  ProcessTypes'
      <4>1. loc' \in [Procs -> Locals]
        BY <3>1, <3>4, LocType
      <4>2. "write_load" \in Labels
        BY DEF Labels
      <4>. QED BY <3>2, <3>4, <4>1, <4>2, GotoType DEF ProcessTypes
    <3>. QED BY <1>WriteCopy, <3>3, <3>4 DEF WriteCopy
  <2>. QED BY <2>1, <2>2 DEF GlobalTypes, StaticTypes, HistoryTypes
<1>WriteLoad. ASSUME NEW p \in Procs, WriteLoad(p) PROVE TypeOK'
  <2>1. UNCHANGED <<globals, statics, history>>
    BY <1>WriteLoad DEF WriteLoad
  <2>2. ProcessTypes'
    <3>1. Target(p) \in Pointer
      BY <1>WriteLoad, SoundTarget DEF WriteLoad, Pointer
    <3>. QED BY <1>WriteLoad, <3>1, GotoType, ReturnType, LocType
         DEF WriteLoad, ProcessTypes, Labels
  <2>. QED BY <2>1, <2>2 DEF GlobalTypes, StaticTypes, HistoryTypes
<1>WriteStep. ASSUME NEW p \in Procs, WriteStep(p) PROVE TypeOK'
  <2>1. UNCHANGED <<globals, statics>>
    BY <1>WriteStep DEF WriteStep
  <2>2. ProcessTypes'
    <3>1. loc[p].moves \in Seq(Delta)
      BY DEF ProcessTypes, Locals
    <3>2. CASE loc[p].moves = <<>>
      BY <1>WriteStep, <3>2, GotoType, ReturnType, LocType DEF WriteStep, ProcessTypes, AllCommands, Errors
    <3>3. CASE loc[p].moves # <<>>
      <4>1. Head(loc[p].moves) \in Delta /\ Tail(loc[p].moves) \in Seq(Delta)
        BY <3>1, <3>3
      <4>2. heap[loc[p].blk] \in MazeInfo
        BY <1>WriteStep, SoundTarget DEF WriteStep, Target, HeldInRegister
      <4>3. Plus(heap[loc[p].blk].pos, Head(loc[p].moves)) \in Coord
        BY <4>1, <4>2, MazeType, MoveType, DeltaType
      <4> DEFINE rest == [loc[p] EXCEPT !.moves = Tail(loc[p].moves)]
                 c == Plus(heap[loc[p].blk].pos, Head(loc[p].moves))
      <4>4. /\ [loc EXCEPT ![p] = rest] \in [Procs -> Locals]
            /\ [loc EXCEPT ![p] = [rest EXCEPT !.tgt = c]] \in [Procs -> Locals]
            /\ [loc EXCEPT ![p] = Idle] \in [Procs -> Locals]
        BY <4>1, <4>3, LocType, IdleType DEF ProcessTypes
      <4>5. \/ loc' = [loc EXCEPT ![p] = rest]
            \/ loc' = [loc EXCEPT ![p] = [rest EXCEPT !.tgt = c]]
            \/ loc' = [loc EXCEPT ![p] = Idle]
        BY <1>WriteStep, <3>3 DEF WriteStep
      <4>6. UNCHANGED <<fd, ret>> /\ pc' \in [Procs -> Labels]
        BY <1>WriteStep, <3>3, GotoType DEF WriteStep, Labels, ProcessTypes
      <4>. HIDE DEF rest, c
      <4>. QED BY <4>4, <4>5, <4>6 DEF ProcessTypes
    <3>. QED BY <3>2, <3>3
  <2>3. HistoryTypes'
    <3>1. ASSUME NEW d \in Delta, Expect(p, d)
          PROVE  view' \in [Procs -> MazeInfo \cup {NULL}]
      BY <3>1, MazeType DEF Expect, HistoryTypes
    <3>2. loc[p].moves # <<>> => Head(loc[p].moves) \in Delta
      BY DEF ProcessTypes, Locals
    <3>. QED BY <1>WriteStep, <3>1, <3>2 DEF WriteStep, HistoryTypes, Strays
  <2>. QED BY <2>1, <2>2, <2>3 DEF GlobalTypes, StaticTypes
<1>ProcRead. ASSUME NEW p \in Procs, ProcRead(p) PROVE TypeOK'
  <2>1. UNCHANGED <<globals, history>>
    BY <1>ProcRead DEF ProcRead
  <2>2. StaticTypes'
    BY <1>ProcRead, LookupType DEF ProcRead, StaticTypes
  <2>3. ProcessTypes'
    BY <1>ProcRead, GotoType, ReturnType, IdleType
       DEF ProcRead, ProcessTypes, Labels, AllCommands, Errors
  <2>. QED BY <2>1, <2>2, <2>3 DEF GlobalTypes, HistoryTypes
<1>ProcQ3. ASSUME NEW p \in Procs, ProcQ3(p) PROVE TypeOK'
  <2>1. UNCHANGED <<statics, history>>
    BY <1>ProcQ3 DEF ProcQ3
  <2>2. GlobalTypes'
    BY <1>ProcQ3 DEF ProcQ3, GlobalTypes
  <2>3. ProcessTypes'
    BY <1>ProcQ3, GotoType, ReturnType, IdleType
       DEF ProcQ3, ProcessTypes, Labels, AllCommands, Errors
  <2>. QED BY <2>1, <2>2, <2>3 DEF StaticTypes, HistoryTypes
<1>ProcLoop. ASSUME NEW p \in Procs, ProcLoop(p) PROVE TypeOK'
  <2>1. UNCHANGED <<globals, history>>
    BY <1>ProcLoop DEF ProcLoop
  <2>2. StaticTypes'
    BY <1>ProcLoop, LookupType DEF ProcLoop, StaticTypes
  <2>3. ProcessTypes'
    BY <1>ProcLoop, GotoType, ReturnType, IdleType
       DEF ProcLoop, ProcessTypes, Labels, AllCommands, Errors
  <2>. QED BY <2>1, <2>2, <2>3 DEF GlobalTypes, HistoryTypes
<1>ProcShow. ASSUME NEW p \in Procs, ProcShow(p) PROVE TypeOK'
  <2>1. UNCHANGED <<globals, history>>
    BY <1>ProcShow DEF ProcShow
  <2>2. StaticTypes'
    BY <1>ProcShow, LookupType DEF ProcShow, StaticTypes
  <2>3. ProcessTypes'
    BY <1>ProcShow, GotoType, ReturnType, IdleType
       DEF ProcShow, ProcessTypes, Labels, AllCommands, Errors
  <2>. QED BY <2>1, <2>2, <2>3 DEF GlobalTypes, HistoryTypes
<1>Oops. ASSUME NEW p \in Procs, Oops(p) PROVE TypeOK'
  <2>1. UNCHANGED <<globals>>
    BY <1>Oops DEF Oops
  <2>2. StaticTypes'
    BY <1>Oops, LookupType DEF Oops, StaticTypes
  <2>3. ProcessTypes'
    BY <1>Oops, GotoType, ReturnType, IdleType
       DEF Oops, ProcessTypes, Labels, AllCommands, Errors
  <2>4. HistoryTypes'
    BY <1>Oops, KindType DEF Oops, HistoryTypes
  <2>. QED BY <2>1, <2>2, <2>3, <2>4 DEF GlobalTypes
<1>MazeRequest. ASSUME NEW p \in Procs, NEW c \in MazeRequests, MazeRequest(p, c)
      PROVE  TypeOK'
  <2>1. UNCHANGED <<globals, statics, history>>
    BY <1>MazeRequest DEF MazeRequest
  <2>2. ProcessTypes'
    BY <1>MazeRequest, GotoType, ReturnType, IdleType
       DEF MazeRequest, ProcessTypes, Labels, AllCommands, Errors, MazeRequests
  <2>. QED BY <2>1, <2>2 DEF GlobalTypes, StaticTypes, HistoryTypes
<1>Get. ASSUME NEW p \in Procs, NEW c \in GetRequests, Get(p, c)
      PROVE  TypeOK'
  <2>1. UNCHANGED <<globals, history>>
    BY <1>Get DEF Get
  <2>2. StaticTypes'
    <3>1. Field(heap[Target(p)], c) \in Coord
      BY <1>Get, SoundTarget, MazeType, LayoutType DEF Get, GetRequests, Field
    <3>. QED BY <1>Get, <3>1, LookupType DEF Get, StaticTypes
  <2>3. ProcessTypes'
    BY <1>Get, GotoType, ReturnType, LocType
    DEF Get, GetRequests, ProcessTypes, Labels, AllCommands
  <2>. QED BY <2>1, <2>2, <2>3 DEF GlobalTypes, HistoryTypes
<1>stutter. CASE UNCHANGED vars
  BY <1>stutter DEF vars, GlobalTypes, StaticTypes, ProcessTypes, HistoryTypes
<1>. QED
  BY <1>stutter,
     <1>Open, <1>Close, <1>DelLock, <1>DelFree, <1>DelClear, <1>Create,
     <1>CreateLock, <1>CreateCheck, <1>Q3, <1>FindSlot, <1>ClaimSlot,
     <1>Alloc, <1>Generate, <1>StoreMaze, <1>Reset, <1>Destroy,
     <1>DestroyNull, <1>GetCopy, <1>MoveCopy, <1>MoveUse, <1>MoveTest, <1>StoreX,
     <1>StoreY, <1>Read, <1>ReadFill, <1>ReadRet, <1>Write, <1>WriteCopy,
     <1>WriteLoad, <1>WriteStep, <1>ProcRead, <1>ProcQ3, <1>ProcLoop,
     <1>ProcShow, <1>Oops, <1>MazeRequest, <1>Get
  DEF Next, Call, Handler

(* The store_maze label is entered by generate_maze alone. *)
Elsewhere(p) == /\ gmaze' = gmaze
                /\ \A q \in Procs \ {p} : pc'[q] = pc[q]
                /\ pc'[p] # "store_maze"

LEMMA BuiltFrame ==
    ASSUME MazeBuilt, NEW p \in Procs, Elsewhere(p) PROVE MazeBuilt'
  BY DEF MazeBuilt, Elsewhere

LEMMA BuiltStep == TypeOK /\ MazeBuilt /\ [Next]_vars => MazeBuilt'
<1>. SUFFICES ASSUME TypeOK, MazeBuilt, [Next]_vars PROVE MazeBuilt'
  OBVIOUS
<1>. USE DEF statics, self, fileStatics, ioctlStatics, Lock, Goto, Enter,
             Done, Return, Elsewhere
<1>pc. pc \in [Procs -> Labels]
  BY DEF TypeOK, ProcessTypes
<1>Open. ASSUME NEW p \in Procs, Open(p) PROVE MazeBuilt'
  <2>1. Elsewhere(p)
    BY <1>Open, <1>pc DEF Open
  <2>. QED BY <2>1, BuiltFrame
<1>Close. ASSUME NEW p \in Procs, Close(p) PROVE MazeBuilt'
  <2>1. Elsewhere(p)
    BY <1>Close, <1>pc DEF Close
  <2>. QED BY <2>1, BuiltFrame
<1>DelLock. ASSUME NEW p \in Procs, DelLock(p) PROVE MazeBuilt'
  <2>1. Elsewhere(p)
    BY <1>DelLock, <1>pc DEF DelLock
  <2>. QED BY <2>1, BuiltFrame
<1>DelFree. ASSUME NEW p \in Procs, DelFree(p) PROVE MazeBuilt'
  <2>1. Elsewhere(p)
    BY <1>DelFree, <1>pc DEF DelFree
  <2>. QED BY <2>1, BuiltFrame
<1>DelClear. ASSUME NEW p \in Procs, DelClear(p) PROVE MazeBuilt'
  <2>1. Elsewhere(p)
    BY <1>DelClear, <1>pc DEF DelClear
  <2>. QED BY <2>1, BuiltFrame
<1>Create. ASSUME NEW p \in Procs, Create(p) PROVE MazeBuilt'
  <2>1. Elsewhere(p)
    BY <1>Create, <1>pc DEF Create
  <2>. QED BY <2>1, BuiltFrame
<1>CreateLock. ASSUME NEW p \in Procs, CreateLock(p) PROVE MazeBuilt'
  <2>1. Elsewhere(p)
    BY <1>CreateLock, <1>pc DEF CreateLock
  <2>. QED BY <2>1, BuiltFrame
<1>CreateCheck. ASSUME NEW p \in Procs, CreateCheck(p) PROVE MazeBuilt'
  <2>1. Elsewhere(p)
    BY <1>CreateCheck, <1>pc DEF CreateCheck
  <2>. QED BY <2>1, BuiltFrame
<1>Q3. ASSUME NEW p \in Procs, Q3(p) PROVE MazeBuilt'
  <2>1. Elsewhere(p)
    BY <1>Q3, <1>pc DEF Q3
  <2>. QED BY <2>1, BuiltFrame
<1>FindSlot. ASSUME NEW p \in Procs, FindSlot(p) PROVE MazeBuilt'
  <2>1. Elsewhere(p)
    BY <1>FindSlot, <1>pc DEF FindSlot
  <2>. QED BY <2>1, BuiltFrame
<1>ClaimSlot. ASSUME NEW p \in Procs, ClaimSlot(p) PROVE MazeBuilt'
  <2>1. Elsewhere(p)
    BY <1>ClaimSlot, <1>pc DEF ClaimSlot
  <2>. QED BY <2>1, BuiltFrame
<1>Alloc. ASSUME NEW p \in Procs, Alloc(p) PROVE MazeBuilt'
  <2>1. Elsewhere(p)
    BY <1>Alloc, <1>pc DEF Alloc
  <2>. QED BY <2>1, BuiltFrame
<1>StoreMaze. ASSUME NEW p \in Procs, StoreMaze(p) PROVE MazeBuilt'
  <2>1. Elsewhere(p)
    BY <1>StoreMaze, <1>pc DEF StoreMaze
  <2>. QED BY <2>1, BuiltFrame
<1>Reset. ASSUME NEW p \in Procs, Reset(p) PROVE MazeBuilt'
  <2>1. Elsewhere(p)
    BY <1>Reset, <1>pc DEF Reset
  <2>. QED BY <2>1, BuiltFrame
<1>Destroy. ASSUME NEW p \in Procs, Destroy(p) PROVE MazeBuilt'
  <2>1. Elsewhere(p)
    BY <1>Destroy, <1>pc DEF Destroy
  <2>. QED BY <2>1, BuiltFrame
<1>DestroyNull. ASSUME NEW p \in Procs, DestroyNull(p) PROVE MazeBuilt'
  <2>1. Elsewhere(p)
    BY <1>DestroyNull, <1>pc DEF DestroyNull
  <2>. QED BY <2>1, BuiltFrame
<1>GetCopy. ASSUME NEW p \in Procs, GetCopy(p) PROVE MazeBuilt'
  <2>1. Elsewhere(p)
    BY <1>GetCopy, <1>pc DEF GetCopy
  <2>. QED BY <2>1, BuiltFrame
<1>MoveCopy. ASSUME NEW p \in Procs, MoveCopy(p) PROVE MazeBuilt'
  <2>1. Elsewhere(p)
    BY <1>MoveCopy, <1>pc DEF MoveCopy
  <2>. QED BY <2>1, BuiltFrame
<1>MoveUse. ASSUME NEW p \in Procs, MoveUse(p) PROVE MazeBuilt'
  <2>1. Elsewhere(p)
    BY <1>MoveUse, <1>pc DEF MoveUse
  <2>. QED BY <2>1, BuiltFrame
<1>MoveTest. ASSUME NEW p \in Procs, MoveTest(p) PROVE MazeBuilt'
  <2>1. Elsewhere(p)
    BY <1>MoveTest, <1>pc DEF MoveTest
  <2>. QED BY <2>1, BuiltFrame
<1>StoreX. ASSUME NEW p \in Procs, StoreX(p) PROVE MazeBuilt'
  <2>1. Elsewhere(p)
    BY <1>StoreX, <1>pc DEF StoreX
  <2>. QED BY <2>1, BuiltFrame
<1>StoreY. ASSUME NEW p \in Procs, StoreY(p) PROVE MazeBuilt'
  <2>1. Elsewhere(p)
    BY <1>StoreY, <1>pc DEF StoreY
  <2>. QED BY <2>1, BuiltFrame
<1>Read. ASSUME NEW p \in Procs, Read(p) PROVE MazeBuilt'
  <2>1. Elsewhere(p)
    BY <1>Read, <1>pc DEF Read, NoMazeError
  <2>. QED BY <2>1, BuiltFrame
<1>ReadFill. ASSUME NEW p \in Procs, ReadFill(p) PROVE MazeBuilt'
  <2>1. Elsewhere(p)
    BY <1>ReadFill, <1>pc DEF ReadFill
  <2>. QED BY <2>1, BuiltFrame
<1>ReadRet. ASSUME NEW p \in Procs, ReadRet(p) PROVE MazeBuilt'
  <2>1. Elsewhere(p)
    BY <1>ReadRet, <1>pc DEF ReadRet
  <2>. QED BY <2>1, BuiltFrame
<1>Write. ASSUME NEW p \in Procs, Write(p) PROVE MazeBuilt'
  <2>1. Elsewhere(p)
    BY <1>Write, <1>pc DEF Write, NoMazeError
  <2>. QED BY <2>1, BuiltFrame
<1>WriteCopy. ASSUME NEW p \in Procs, WriteCopy(p) PROVE MazeBuilt'
  <2>1. Elsewhere(p)
    BY <1>WriteCopy, <1>pc DEF WriteCopy
  <2>. QED BY <2>1, BuiltFrame
<1>WriteLoad. ASSUME NEW p \in Procs, WriteLoad(p) PROVE MazeBuilt'
  <2>1. Elsewhere(p)
    BY <1>WriteLoad, <1>pc DEF WriteLoad
  <2>. QED BY <2>1, BuiltFrame
<1>WriteStep. ASSUME NEW p \in Procs, WriteStep(p) PROVE MazeBuilt'
  <2>1. Elsewhere(p)
    BY <1>WriteStep, <1>pc DEF WriteStep, Uses
  <2>. QED BY <2>1, BuiltFrame
<1>ProcRead. ASSUME NEW p \in Procs, ProcRead(p) PROVE MazeBuilt'
  <2>1. Elsewhere(p)
    BY <1>ProcRead, <1>pc DEF ProcRead
  <2>. QED BY <2>1, BuiltFrame
<1>ProcQ3. ASSUME NEW p \in Procs, ProcQ3(p) PROVE MazeBuilt'
  <2>1. Elsewhere(p)
    BY <1>ProcQ3, <1>pc DEF ProcQ3
  <2>. QED BY <2>1, BuiltFrame
<1>ProcLoop. ASSUME NEW p \in Procs, ProcLoop(p) PROVE MazeBuilt'
  <2>1. Elsewhere(p)
    BY <1>ProcLoop, <1>pc DEF ProcLoop
  <2>. QED BY <2>1, BuiltFrame
<1>ProcShow. ASSUME NEW p \in Procs, ProcShow(p) PROVE MazeBuilt'
  <2>1. Elsewhere(p)
    BY <1>ProcShow, <1>pc DEF ProcShow
  <2>. QED BY <2>1, BuiltFrame
<1>Oops. ASSUME NEW p \in Procs, Oops(p) PROVE MazeBuilt'
  <2>1. Elsewhere(p)
    BY <1>Oops, <1>pc DEF Oops
  <2>. QED BY <2>1, BuiltFrame
<1>Generate. ASSUME NEW p \in Procs, Generate(p) PROVE MazeBuilt'
  <2>1. gmaze' \in Layouts
    BY <1>Generate DEF Generate
  <2>2. NULL \notin Layouts
    BY NullAssumption
  <2>. QED BY <2>1, <2>2 DEF MazeBuilt
<1>MazeRequest. ASSUME NEW p \in Procs, NEW c \in MazeRequests, MazeRequest(p, c)
      PROVE  MazeBuilt'
  <2>1. Elsewhere(p)
    BY <1>MazeRequest, <1>pc DEF MazeRequest, MazeRequests
  <2>. QED BY <2>1, BuiltFrame
<1>Get. ASSUME NEW p \in Procs, NEW c \in GetRequests, Get(p, c)
      PROVE  MazeBuilt'
  <2>1. Elsewhere(p)
    BY <1>Get, <1>pc DEF Get
  <2>. QED BY <2>1, BuiltFrame
<1>stutter. CASE UNCHANGED vars
  BY <1>stutter DEF vars, MazeBuilt
<1>. QED
  BY <1>stutter, <1>Open, <1>Close, <1>DelLock, <1>DelFree, <1>DelClear,
     <1>Create, <1>CreateLock, <1>CreateCheck, <1>Q3, <1>FindSlot,
     <1>ClaimSlot, <1>Alloc, <1>StoreMaze, <1>Reset, <1>Destroy,
     <1>DestroyNull, <1>GetCopy, <1>MoveCopy, <1>MoveUse, <1>MoveTest, <1>StoreX,
     <1>StoreY, <1>Read, <1>ReadFill, <1>ReadRet, <1>Write, <1>WriteCopy,
     <1>WriteLoad, <1>WriteStep, <1>ProcRead, <1>ProcQ3, <1>ProcLoop,
     <1>ProcShow, <1>Oops, <1>Generate, <1>MazeRequest, <1>Get
  DEF Next, Call, Handler

(* Every variable keeps its type, whatever the processes request.           *)
THEOREM TypeCorrect == Spec => []TypeOK
<1>1. Init => TypeOK /\ MazeBuilt
  BY TypeInit DEF Init, MazeBuilt
<1>2. TypeOK /\ MazeBuilt /\ [Next]_vars => (TypeOK /\ MazeBuilt)'
  BY TypeStep, BuiltStep
<1>. QED BY <1>1, <1>2, PTL DEF Spec
-----------------------------------------------------------------------------
(* Ownership of the slots, when nobody uses ONLY_FOR_Q3, which creates its   *)
(* maze outside the mutex.                                                  *)
InCreate  == {"create_check", "find_slot", "claim_slot", "alloc", "generate",
              "store_maze"}
InDelUser == {"del_free", "del_clear"}

(* maze_mutex is held by the process that stands inside create_maze or      *)
(* del_user; a slot about to be claimed is empty; a slot about to be        *)
(* cleared is the process's own, already before the mutex is taken.         *)
LockDiscipline ==
    /\ \A p \in Procs : pc[p] \in InCreate \cup InDelUser => mutex = p
    /\ \A p \in Procs :
         pc[p] \in InCreate \cup {"create_lock"} => loc[p].cmd = "CREATE"
    /\ \A p \in Procs : pc[p] = "claim_slot" =>
         loc[p].idx \in Slots /\ pids[loc[p].idx] = NoPid
    /\ \A p \in Procs : pc[p] \in InDelUser \cup {"del_lock"} =>
         loc[p].idx \in Slots /\ pids[loc[p].idx] = p

(* A step of p that leaves the mutex and the table alone and ends outside    *)
(* the labels the discipline speaks of.                                     *)
Aside(p) == /\ UNCHANGED <<pids, mutex>>
            /\ \A q \in Procs \ {p} : pc'[q] = pc[q] /\ loc'[q] = loc[q]
            /\ pc'[p] \notin InCreate \cup InDelUser
                               \cup {"create_lock", "del_lock"}

LEMMA LockFrame ==
    ASSUME LockDiscipline, NEW p \in Procs, Aside(p) PROVE LockDiscipline'
  BY DEF LockDiscipline, Aside, InCreate, InDelUser

LEMMA LockInit == Init => LockDiscipline
  BY DEF Init, LockDiscipline, InCreate, InDelUser

LEMMA LockStep ==
    ASSUME "Q3" \notin Commands, TypeOK, LockDiscipline, [Next]_vars
    PROVE  LockDiscipline'
<1>. USE DEF globals, statics, self, table, Lock, Goto, Enter, Done, Return,
             InCreate, InDelUser
<1>pc. pc \in [Procs -> Labels] /\ loc \in [Procs -> Locals]
  BY DEF TypeOK, ProcessTypes
<1>pids. pids \in [Slots -> Procs \cup {NoPid}]
  BY DEF TypeOK, GlobalTypes
<1>Open. ASSUME NEW p \in Procs, Open(p) PROVE LockDiscipline'
  <2>1. Aside(p)
    BY <1>Open, <1>pc DEF Open, Aside
  <2>. QED BY <2>1, LockFrame
<1>Close. ASSUME NEW p \in Procs, Close(p) PROVE LockDiscipline'
  <2>1. CASE Goto(p, "user")
    <3>1. Aside(p)
      BY <1>Close, <2>1, <1>pc DEF Close, Aside
    <3>. QED BY <3>1, LockFrame
  <2>2. CASE /\ UserIndex(p) # -1 /\ Goto(p, "del_lock")
             /\ loc' = [loc EXCEPT ![p].idx = UserIndex(p)]
    <3>1. UserIndex(p) \in Slots /\ pids[UserIndex(p)] = p
      BY <2>2, LookupType
    <3>2. /\ loc'[p].idx = UserIndex(p) /\ pc'[p] = "del_lock"
          /\ \A q \in Procs \ {p} : loc'[q] = loc[q] /\ pc'[q] = pc[q]
      BY <2>2, <1>pc DEF Locals
    <3>3. UNCHANGED <<pids, mutex>>
      BY <1>Close DEF Close
    <3>. QED BY <3>1, <3>2, <3>3 DEF LockDiscipline
  <2>. QED BY <1>Close, <2>1, <2>2 DEF Close
<1>DelLock. ASSUME NEW p \in Procs, DelLock(p) PROVE LockDiscipline'
  BY <1>DelLock, <1>pc, <1>pids, PidAssumption DEF DelLock, LockDiscipline
<1>DelFree. ASSUME NEW p \in Procs, DelFree(p) PROVE LockDiscipline'
  BY <1>DelFree, <1>pc, <1>pids DEF DelFree, LockDiscipline
<1>DelClear. ASSUME NEW p \in Procs, DelClear(p) PROVE LockDiscipline'
  BY <1>DelClear, <1>pc, <1>pids, PidAssumption DEF DelClear, LockDiscipline
<1>Create. ASSUME NEW p \in Procs, Create(p) PROVE LockDiscipline'
  <2>1. UNCHANGED <<pids, mutex>>
    BY <1>Create DEF Create
  <2>2. CASE Done(p, "CREATE", "EBUSY") \/ Done(p, "CREATE", "EINVAL")
    <3>1. Aside(p)
      BY <2>1, <2>2, <1>pc DEF Aside
    <3>. QED BY <3>1, LockFrame
  <2>3. ASSUME NEW c \in Sizes, Enter(p, "create_lock"),
               loc' = [loc EXCEPT ![p].cmd = "CREATE", ![p].size = c]
        PROVE  LockDiscipline'
    <3>1. /\ loc'[p].cmd = "CREATE" /\ pc'[p] = "create_lock"
          /\ \A q \in Procs \ {p} : loc'[q] = loc[q] /\ pc'[q] = pc[q]
      BY <2>3, <1>pc DEF Locals
    <3>. QED BY <2>1, <3>1 DEF LockDiscipline
  <2>. QED BY <1>Create, <2>2, <2>3 DEF Create
<1>CreateLock. ASSUME NEW p \in Procs, CreateLock(p) PROVE LockDiscipline'
  BY <1>CreateLock, <1>pc, <1>pids, PidAssumption DEF CreateLock, LockDiscipline
<1>CreateCheck. ASSUME NEW p \in Procs, CreateCheck(p) PROVE LockDiscipline'
  BY <1>CreateCheck, <1>pc, <1>pids, LookupType, PidAssumption DEF CreateCheck, LockDiscipline
<1>Q3. ASSUME NEW p \in Procs, Q3(p) PROVE LockDiscipline'
  BY <1>Q3 DEF Q3, Request
<1>FindSlot. ASSUME NEW p \in Procs, FindSlot(p) PROVE LockDiscipline'
  <2>0. mutex = p /\ loc[p].cmd = "CREATE" /\ UNCHANGED pids
    BY <1>FindSlot DEF FindSlot, LockDiscipline
  <2>1. CASE Unlock(p) /\ Done(p, loc[p].cmd, "OK")
    BY <2>0, <2>1, <1>pc, PidAssumption DEF LockDiscipline, Unlock
  <2>2. CASE /\ EmptyIndex # -1 /\ Goto(p, "claim_slot")
             /\ loc' = [loc EXCEPT ![p].idx = EmptyIndex]
             /\ UNCHANGED mutex
    <3>1. EmptyIndex \in Slots /\ pids[EmptyIndex] = NoPid
      BY <2>2, LookupType
    <3>2. /\ loc'[p].idx = EmptyIndex /\ loc'[p].cmd = loc[p].cmd
          /\ pc'[p] = "claim_slot"
          /\ \A q \in Procs \ {p} : loc'[q] = loc[q] /\ pc'[q] = pc[q]
      BY <2>2, <1>pc DEF Locals
    <3>. QED BY <2>0, <2>2, <3>1, <3>2 DEF LockDiscipline
  <2>. QED BY <1>FindSlot, <2>1, <2>2 DEF FindSlot
<1>ClaimSlot. ASSUME NEW p \in Procs, ClaimSlot(p) PROVE LockDiscipline'
  BY <1>ClaimSlot, <1>pc, <1>pids, PidAssumption DEF ClaimSlot, LockDiscipline
<1>Alloc. ASSUME NEW p \in Procs, Alloc(p) PROVE LockDiscipline'
  <2>1. UNCHANGED <<pids, mutex>>
    BY <1>Alloc DEF Alloc
  <2>2. ASSUME NEW b \in Blocks, Goto(p, "generate"),
               loc' = [loc EXCEPT ![p].blk = b]
        PROVE  LockDiscipline'
    <3>1. /\ loc'[p].cmd = loc[p].cmd /\ pc'[p] = "generate"
          /\ \A q \in Procs \ {p} : loc'[q] = loc[q] /\ pc'[q] = pc[q]
      BY <2>2, <1>pc DEF Locals
    <3>. QED BY <1>Alloc, <2>1, <3>1 DEF Alloc, LockDiscipline
  <2>3. CASE Goto(p, "oops") /\ UNCHANGED loc
    <3>1. Aside(p)
      BY <2>1, <2>3, <1>pc DEF Aside
    <3>. QED BY <3>1, LockFrame
  <2>. QED BY <1>Alloc, <2>2, <2>3 DEF Alloc
<1>StoreMaze. ASSUME NEW p \in Procs, StoreMaze(p) PROVE LockDiscipline'
  BY <1>StoreMaze, <1>pc, <1>pids, PidAssumption DEF StoreMaze, Unlock, LockDiscipline
<1>Reset. ASSUME NEW p \in Procs, Reset(p) PROVE LockDiscipline'
  <2>1. Aside(p)
    BY <1>Reset, <1>pc DEF Reset, Aside
  <2>. QED BY <2>1, LockFrame
<1>Destroy. ASSUME NEW p \in Procs, Destroy(p) PROVE LockDiscipline'
  <2>1. Aside(p)
    BY <1>Destroy, <1>pc DEF Destroy, Aside
  <2>. QED BY <2>1, LockFrame
<1>DestroyNull. ASSUME NEW p \in Procs, DestroyNull(p) PROVE LockDiscipline'
  <2>1. Aside(p)
    BY <1>DestroyNull, <1>pc DEF DestroyNull, Aside
  <2>. QED BY <2>1, LockFrame
<1>GetCopy. ASSUME NEW p \in Procs, GetCopy(p) PROVE LockDiscipline'
  <2>1. Aside(p)
    BY <1>GetCopy, <1>pc DEF GetCopy, Aside
  <2>. QED BY <2>1, LockFrame
<1>MoveCopy. ASSUME NEW p \in Procs, MoveCopy(p) PROVE LockDiscipline'
  <2>1. Aside(p)
    BY <1>MoveCopy, <1>pc DEF MoveCopy, Aside
  <2>. QED BY <2>1, LockFrame
<1>MoveUse. ASSUME NEW p \in Procs, MoveUse(p) PROVE LockDiscipline'
  <2>1. Aside(p)
    BY <1>MoveUse, <1>pc DEF MoveUse, Aside
  <2>. QED BY <2>1, LockFrame
<1>MoveTest. ASSUME NEW p \in Procs, MoveTest(p) PROVE LockDiscipline'
  <2>1. Aside(p)
    BY <1>MoveTest, <1>pc DEF MoveTest, Aside
  <2>. QED BY <2>1, LockFrame
<1>StoreX. ASSUME NEW p \in Procs, StoreX(p) PROVE LockDiscipline'
  <2>1. Aside(p)
    BY <1>StoreX, <1>pc DEF StoreX, Aside
  <2>. QED BY <2>1, LockFrame
<1>StoreY. ASSUME NEW p \in Procs, StoreY(p) PROVE LockDiscipline'
  <2>1. Aside(p)
    BY <1>StoreY, <1>pc DEF StoreY, Aside
  <2>. QED BY <2>1, LockFrame
<1>Read. ASSUME NEW p \in Procs, Read(p) PROVE LockDiscipline'
  <2>1. Aside(p)
    BY <1>Read, <1>pc DEF Read, Aside, NoMazeError
  <2>. QED BY <2>1, LockFrame
<1>ReadFill. ASSUME NEW p \in Procs, ReadFill(p) PROVE LockDiscipline'
  <2>1. Aside(p)
    BY <1>ReadFill, <1>pc DEF ReadFill, Aside
  <2>. QED BY <2>1, LockFrame
<1>ReadRet. ASSUME NEW p \in Procs, ReadRet(p) PROVE LockDiscipline'
  <2>1. Aside(p)
    BY <1>ReadRet, <1>pc DEF ReadRet, Aside
  <2>. QED BY <2>1, LockFrame
<1>Write. ASSUME NEW p \in Procs, Write(p) PROVE LockDiscipline'
  <2>1. Aside(p)
    BY <1>Write, <1>pc DEF Write, Aside, NoMazeError
  <2>. QED BY <2>1, LockFrame
<1>WriteCopy. ASSUME NEW p \in Procs, WriteCopy(p) PROVE LockDiscipline'
  <2>1. Aside(p)
    BY <1>WriteCopy, <1>pc DEF WriteCopy, Aside
  <2>. QED BY <2>1, LockFrame
<1>WriteLoad. ASSUME NEW p \in Procs, WriteLoad(p) PROVE LockDiscipline'
  <2>1. Aside(p)
    BY <1>WriteLoad, <1>pc DEF WriteLoad, Aside
  <2>. QED BY <2>1, LockFrame
<1>WriteStep. ASSUME NEW p \in Procs, WriteStep(p) PROVE LockDiscipline'
  <2>1. Aside(p)
    BY <1>WriteStep, <1>pc DEF WriteStep, Uses, Aside
  <2>. QED BY <2>1, LockFrame
<1>ProcRead. ASSUME NEW p \in Procs, ProcRead(p) PROVE LockDiscipline'
  <2>1. Aside(p)
    BY <1>ProcRead, <1>pc DEF ProcRead, Aside
  <2>. QED BY <2>1, LockFrame
<1>ProcQ3. ASSUME NEW p \in Procs, ProcQ3(p) PROVE LockDiscipline'
  <2>1. Aside(p)
    BY <1>ProcQ3, <1>pc DEF ProcQ3, Aside
  <2>. QED BY <2>1, LockFrame
<1>ProcLoop. ASSUME NEW p \in Procs, ProcLoop(p) PROVE LockDiscipline'
  <2>1. Aside(p)
    BY <1>ProcLoop, <1>pc DEF ProcLoop, Aside
  <2>. QED BY <2>1, LockFrame
<1>ProcShow. ASSUME NEW p \in Procs, ProcShow(p) PROVE LockDiscipline'
  <2>1. Aside(p)
    BY <1>ProcShow, <1>pc DEF ProcShow, Aside
  <2>. QED BY <2>1, LockFrame
<1>Oops. ASSUME NEW p \in Procs, Oops(p) PROVE LockDiscipline'
  <2>1. Aside(p)
    BY <1>Oops, <1>pc DEF Oops, Aside
  <2>. QED BY <2>1, LockFrame
<1>Generate. ASSUME NEW p \in Procs, Generate(p) PROVE LockDiscipline'
  BY <1>Generate, <1>pc DEF Generate, LockDiscipline
<1>MazeRequest. ASSUME NEW p \in Procs, NEW c \in MazeRequests, MazeRequest(p, c)
      PROVE  LockDiscipline'
  <2>1. Aside(p)
    BY <1>MazeRequest, <1>pc DEF MazeRequest, MazeRequests, Aside
  <2>. QED BY <2>1, LockFrame
<1>Get. ASSUME NEW p \in Procs, NEW c \in GetRequests, Get(p, c)
      PROVE  LockDiscipline'
  <2>1. Aside(p)
    BY <1>Get, <1>pc DEF Get, Aside
  <2>. QED BY <2>1, LockFrame
<1>stutter. CASE UNCHANGED vars
  BY <1>stutter DEF vars, LockDiscipline
<1>. QED
  BY <1>stutter, <1>Open, <1>Close, <1>DelLock, <1>DelFree, <1>DelClear,
     <1>Create, <1>CreateLock, <1>CreateCheck, <1>Q3, <1>FindSlot,
     <1>ClaimSlot, <1>Alloc, <1>StoreMaze, <1>Reset, <1>Destroy,
     <1>DestroyNull, <1>GetCopy, <1>MoveCopy, <1>MoveUse, <1>MoveTest, <1>StoreX,
     <1>StoreY, <1>Read, <1>ReadFill, <1>ReadRet, <1>Write, <1>WriteCopy,
     <1>WriteLoad, <1>WriteStep, <1>ProcRead, <1>ProcQ3, <1>ProcLoop,
     <1>ProcShow, <1>Oops, <1>Generate, <1>MazeRequest, <1>Get
  DEF Next, Call, Handler

(* Only these two steps change the owner of a slot. *)
LEMMA TableStep ==
    ASSUME [Next]_vars
    PROVE  pids' # pids => \E p \in Procs : ClaimSlot(p) \/ DelClear(p)
<1>. USE DEF globals, table, Lock
<1>1. ASSUME UNCHANGED vars PROVE UNCHANGED pids
  BY <1>1 DEF vars
<1>Open. ASSUME NEW p \in Procs, Open(p) PROVE UNCHANGED pids
  BY <1>Open DEF Open
<1>Close. ASSUME NEW p \in Procs, Close(p) PROVE UNCHANGED pids
  BY <1>Close DEF Close
<1>DelLock. ASSUME NEW p \in Procs, DelLock(p) PROVE UNCHANGED pids
  BY <1>DelLock DEF DelLock
<1>DelFree. ASSUME NEW p \in Procs, DelFree(p) PROVE UNCHANGED pids
  BY <1>DelFree DEF DelFree
<1>Create. ASSUME NEW p \in Procs, Create(p) PROVE UNCHANGED pids
  BY <1>Create DEF Create
<1>CreateLock. ASSUME NEW p \in Procs, CreateLock(p) PROVE UNCHANGED pids
  BY <1>CreateLock DEF CreateLock
<1>CreateCheck. ASSUME NEW p \in Procs, CreateCheck(p) PROVE UNCHANGED pids
  BY <1>CreateCheck DEF CreateCheck
<1>Q3. ASSUME NEW p \in Procs, Q3(p) PROVE UNCHANGED pids
  BY <1>Q3 DEF Q3
<1>FindSlot. ASSUME NEW p \in Procs, FindSlot(p) PROVE UNCHANGED pids
  BY <1>FindSlot DEF FindSlot
<1>Alloc. ASSUME NEW p \in Procs, Alloc(p) PROVE UNCHANGED pids
  BY <1>Alloc DEF Alloc
<1>StoreMaze. ASSUME NEW p \in Procs, StoreMaze(p) PROVE UNCHANGED pids
  BY <1>StoreMaze DEF StoreMaze
<1>Reset. ASSUME NEW p \in Procs, Reset(p) PROVE UNCHANGED pids
  BY <1>Reset DEF Reset
<1>Destroy. ASSUME NEW p \in Procs, Destroy(p) PROVE UNCHANGED pids
  BY <1>Destroy DEF Destroy
<1>DestroyNull. ASSUME NEW p \in Procs, DestroyNull(p) PROVE UNCHANGED pids
  BY <1>DestroyNull DEF DestroyNull
<1>GetCopy. ASSUME NEW p \in Procs, GetCopy(p) PROVE UNCHANGED pids
  BY <1>GetCopy DEF GetCopy
<1>MoveCopy. ASSUME NEW p \in Procs, MoveCopy(p) PROVE UNCHANGED pids
  BY <1>MoveCopy DEF MoveCopy
<1>MoveUse. ASSUME NEW p \in Procs, MoveUse(p) PROVE UNCHANGED pids
  BY <1>MoveUse DEF MoveUse
<1>MoveTest. ASSUME NEW p \in Procs, MoveTest(p) PROVE UNCHANGED pids
  BY <1>MoveTest DEF MoveTest
<1>StoreX. ASSUME NEW p \in Procs, StoreX(p) PROVE UNCHANGED pids
  BY <1>StoreX DEF StoreX
<1>StoreY. ASSUME NEW p \in Procs, StoreY(p) PROVE UNCHANGED pids
  BY <1>StoreY DEF StoreY
<1>Read. ASSUME NEW p \in Procs, Read(p) PROVE UNCHANGED pids
  BY <1>Read DEF Read
<1>ReadFill. ASSUME NEW p \in Procs, ReadFill(p) PROVE UNCHANGED pids
  BY <1>ReadFill DEF ReadFill
<1>ReadRet. ASSUME NEW p \in Procs, ReadRet(p) PROVE UNCHANGED pids
  BY <1>ReadRet DEF ReadRet
<1>Write. ASSUME NEW p \in Procs, Write(p) PROVE UNCHANGED pids
  BY <1>Write DEF Write
<1>WriteCopy. ASSUME NEW p \in Procs, WriteCopy(p) PROVE UNCHANGED pids
  BY <1>WriteCopy DEF WriteCopy
<1>WriteLoad. ASSUME NEW p \in Procs, WriteLoad(p) PROVE UNCHANGED pids
  BY <1>WriteLoad DEF WriteLoad
<1>WriteStep. ASSUME NEW p \in Procs, WriteStep(p) PROVE UNCHANGED pids
  BY <1>WriteStep DEF WriteStep
<1>ProcRead. ASSUME NEW p \in Procs, ProcRead(p) PROVE UNCHANGED pids
  BY <1>ProcRead DEF ProcRead
<1>ProcQ3. ASSUME NEW p \in Procs, ProcQ3(p) PROVE UNCHANGED pids
  BY <1>ProcQ3 DEF ProcQ3
<1>ProcLoop. ASSUME NEW p \in Procs, ProcLoop(p) PROVE UNCHANGED pids
  BY <1>ProcLoop DEF ProcLoop
<1>ProcShow. ASSUME NEW p \in Procs, ProcShow(p) PROVE UNCHANGED pids
  BY <1>ProcShow DEF ProcShow
<1>Oops. ASSUME NEW p \in Procs, Oops(p) PROVE UNCHANGED pids
  BY <1>Oops DEF Oops
<1>Generate. ASSUME NEW p \in Procs, Generate(p) PROVE UNCHANGED pids
  BY <1>Generate DEF Generate
<1>MazeRequest. ASSUME NEW p \in Procs, NEW c \in MazeRequests,
                    MazeRequest(p, c)
             PROVE  UNCHANGED pids
  BY <1>MazeRequest DEF MazeRequest
<1>Get. ASSUME NEW p \in Procs, NEW c \in GetRequests, Get(p, c)
     PROVE  UNCHANGED pids
  BY <1>Get DEF Get
<1>. QED
  BY <1>1, <1>Open, <1>Close, <1>DelLock, <1>DelFree, <1>Create,
     <1>CreateLock, <1>CreateCheck, <1>Q3, <1>FindSlot, <1>Alloc,
     <1>StoreMaze, <1>Reset, <1>Destroy, <1>DestroyNull, <1>GetCopy,
     <1>MoveCopy, <1>MoveUse, <1>MoveTest, <1>StoreX, <1>StoreY, <1>Read, <1>ReadFill,
     <1>ReadRet, <1>Write, <1>WriteCopy, <1>WriteLoad, <1>WriteStep,
     <1>ProcRead, <1>ProcQ3, <1>ProcLoop, <1>ProcShow, <1>Oops, <1>Generate,
     <1>MazeRequest, <1>Get
  DEF Next, Call, Handler

LEMMA OwnerStep ==
    ASSUME TypeOK, LockDiscipline, [Next]_vars, NEW i \in Slots,
           pids[i] # NoPid, pids'[i] # pids[i]
    PROVE  pids'[i] = NoPid /\ pc[pids[i]] = "del_clear" /\ mutex = pids[i]
<1>. USE DEF globals, table, Lock
<1>pids. pids \in [Slots -> Procs \cup {NoPid}]
  BY DEF TypeOK, GlobalTypes
<1>1. ASSUME NEW p \in Procs, ClaimSlot(p) PROVE FALSE
  BY <1>1, <1>pids DEF ClaimSlot, LockDiscipline
<1>2. ASSUME NEW p \in Procs, DelClear(p)
      PROVE  pids'[i] = NoPid /\ pc[pids[i]] = "del_clear" /\ mutex = pids[i]
  BY <1>2, <1>pids DEF DelClear, LockDiscipline, InDelUser
<1>3. pids' # pids => \E p \in Procs : ClaimSlot(p) \/ DelClear(p)
  BY TableStep
<1>. QED BY <1>1, <1>2, <1>3

(* Slots change hands only through their owner's del_user, inside the mutex, *)
(* for every number of processes and slots, as long as no process uses the   *)
(* unlocked ONLY_FOR_Q3.                                                     *)
THEOREM OwnersRelease ==
    ASSUME "Q3" \notin Commands
    PROVE  Spec => OwnerOnlyRelease
<1>1. Init => TypeOK /\ MazeBuilt /\ LockDiscipline
  BY TypeInit, LockInit DEF Init, MazeBuilt
<1>2. TypeOK /\ MazeBuilt /\ LockDiscipline /\ [Next]_vars
        => (TypeOK /\ MazeBuilt /\ LockDiscipline)'
  BY TypeStep, BuiltStep, LockStep
<1>3. TypeOK /\ LockDiscipline /\ [Next]_vars
        => [\A i \in Slots : pids[i] # NoPid /\ pids'[i] # pids[i] =>
              /\ pids'[i] = NoPid
              /\ pc[pids[i]] = "del_clear" /\ mutex = pids[i]]_vars
  BY OwnerStep
<1>. QED BY <1>1, <1>2, <1>3, PTL DEF Spec, OwnerOnlyRelease

-----------------------------------------------------------------------------
(* maze_mutex is given back. *)

(* Whoever holds maze_mutex is between its lock and its unlock: in del_user,  *)
(* or in a create_maze that MAZE_CREATE called.  A create_maze that writes    *)
(* through the null pointer of a failed kmalloc dies with the mutex, and      *)
(* leaves "null" among the faults.                                           *)
GivesBack(p) == \/ pc[p] \in InDelUser
                \/ pc[p] \in InCreate /\ loc[p].cmd = "CREATE"
MutexReturned ==
    "null" \notin fault => \A p \in Procs : mutex = p => GivesBack(p)

Creating == \A p \in Procs : pc[p] = "create_lock" => loc[p].cmd = "CREATE"
Returned == MutexReturned /\ Creating

(* A step of p outside the locked stretches that leaves the mutex alone.      *)
Unlocked(p) == /\ mutex' = mutex /\ fault \subseteq fault'
               /\ \A q \in Procs \ {p} : pc'[q] = pc[q] /\ loc'[q] = loc[q]
               /\ pc[p] \notin InCreate \cup InDelUser
               /\ pc'[p] = "create_lock" => loc'[p].cmd = "CREATE"

LEMMA UnlockedFrame ==
    ASSUME Returned, NEW p \in Procs, Unlocked(p) PROVE Returned'
BY DEF Returned, MutexReturned, GivesBack, Creating, Unlocked

(* A step of p inside one: it keeps the mutex and stays, or unlocks.          *)
Locked(p) == /\ fault \subseteq fault'
             /\ \A q \in Procs \ {p} : pc'[q] = pc[q] /\ loc'[q] = loc[q]
             /\ pc'[p] # "create_lock"
             /\ \/ mutex' = mutex /\ (GivesBack(p) => GivesBack(p)')
                \/ mutex' = NoPid
                \/ mutex' = p /\ GivesBack(p)'
                \/ "null" \in fault'

LEMMA LockedFrame ==
    ASSUME Returned, NEW p \in Procs, Locked(p) PROVE Returned'
BY PidAssumption DEF Returned, MutexReturned, GivesBack, Creating, Locked

LEMMA ReturnedStep ==
    ASSUME TypeOK, Returned, NEW p \in Procs, Call(p) \/ Handler(p)
    PROVE  Returned'
<1>. USE DEF globals, statics, self, table, flags, history, Lock, Goto, Enter, Done, Return,
             InCreate, InDelUser
<1>a. pc \in [Procs -> Labels] /\ loc \in [Procs -> Locals]
  BY DEF TypeOK, ProcessTypes
<1>b. Unlocked(p) => Returned'
  BY UnlockedFrame
<1>c. Locked(p) => Returned'
  BY LockedFrame
<1>1. CASE DelLock(p) \/ CreateLock(p)
  <2>1. CASE DelLock(p)
    BY <2>1, <1>a, <1>c DEF DelLock, Locked, GivesBack
  <2>2. CASE CreateLock(p)
    <3>1. loc[p].cmd = "CREATE"
      BY <2>2 DEF CreateLock, Returned, Creating
    <3> QED BY <3>1, <2>2, <1>a, <1>c DEF CreateLock, Locked, GivesBack
  <2> QED BY <1>1, <2>1, <2>2
<1>2. CASE DelFree(p)
  BY <1>2, <1>a, <1>c DEF DelFree, Locked, GivesBack
<1>3. CASE DelClear(p)
  BY <1>3, <1>a, <1>c DEF DelClear, Locked
<1>4. CASE CreateCheck(p)
  BY <1>4, <1>a, <1>c DEF CreateCheck, Locked, GivesBack
<1>5. CASE FindSlot(p)
  <2>1. CASE EmptyIndex = -1 /\ Unlock(p) /\ Done(p, loc[p].cmd, "OK")
    <3>1. mutex' = NoPid \/ (loc[p].cmd # "CREATE" /\ mutex' = mutex)
      <4>1. CASE loc[p].cmd = "CREATE"
        BY <2>1, <4>1 DEF Unlock
      <4>2. CASE loc[p].cmd # "CREATE"
        BY <2>1, <4>2 DEF Unlock
      <4> QED BY <4>1, <4>2
    <3> QED BY <3>1, <2>1, <1>5, <1>a, <1>c DEF FindSlot, Locked, GivesBack
  <2>2. CASE Goto(p, "claim_slot") /\ loc' = [loc EXCEPT ![p].idx = EmptyIndex]
             /\ UNCHANGED mutex
    <3>1. loc'[p].cmd = loc[p].cmd
      BY <2>2, <1>a DEF Locals
    <3> QED BY <3>1, <2>2, <1>5, <1>a, <1>c DEF FindSlot, Locked, GivesBack
  <2> QED BY <1>5, <2>1, <2>2 DEF FindSlot
<1>6. CASE ClaimSlot(p)
  BY <1>6, <1>a, <1>c DEF ClaimSlot, Locked, GivesBack
<1>7. CASE Alloc(p)
  <2>1. ASSUME NEW b \in Blocks, loc' = [loc EXCEPT ![p].blk = b], Goto(p, "generate"),
               UNCHANGED fault
        PROVE  Returned'
    <3>1. loc'[p].cmd = loc[p].cmd
      BY <2>1, <1>a DEF Locals
    <3> QED BY <3>1, <2>1, <1>7, <1>a, <1>c DEF Alloc, Locked, GivesBack
  <2>2. CASE fault' = fault \cup {"null"} /\ Goto(p, "oops") /\ UNCHANGED loc
    BY <2>2, <1>a, <1>c DEF Locked
  <2> QED BY <1>7, <2>1, <2>2 DEF Alloc
<1>8. CASE Generate(p)
  BY <1>8, <1>a, <1>c DEF Generate, Locked, GivesBack
<1>9. CASE StoreMaze(p)
  <2>1. mutex' = NoPid \/ (loc[p].cmd # "CREATE" /\ mutex' = mutex)
    <3>1. Unlock(p)
      BY <1>9 DEF StoreMaze
    <3>2. CASE loc[p].cmd = "CREATE"
      BY <3>1, <3>2 DEF Unlock
    <3>3. CASE loc[p].cmd # "CREATE"
      BY <3>1, <3>3 DEF Unlock
    <3> QED BY <3>2, <3>3
  <2>2. pc[p] = "store_maze" /\ pc'[p] = "user" /\ fault \subseteq fault'
        /\ \A q \in Procs \ {p} : pc'[q] = pc[q] /\ loc'[q] = loc[q]
    BY <1>9, <1>a DEF StoreMaze
  <2> QED BY <2>1, <2>2, <1>c DEF Locked, GivesBack
<1>10. CASE Open(p) \/ Close(p)
  BY <1>10, <1>a, <1>b DEF Open, Close, Unlocked
<1>11. CASE Create(p)
  <2>1. ASSUME NEW c \in Sizes, Enter(p, "create_lock"),
               loc' = [loc EXCEPT ![p].cmd = "CREATE", ![p].size = c]
        PROVE  loc'[p].cmd = "CREATE"
    BY <2>1, <1>a DEF Locals
  <2> QED BY <2>1, <1>11, <1>a, <1>b DEF Create, Request, Unlocked
<1>12. CASE Q3(p)
  BY <1>12, <1>a, <1>b DEF Q3, Request, Unlocked
<1>13. ASSUME NEW c \in MazeRequests, MazeRequest(p, c) PROVE Returned'
  BY <1>13, <1>a, <1>b DEF MazeRequest, MazeRequests, Request, Unlocked
<1>14. CASE Reset(p) \/ Destroy(p)
  BY <1>14, <1>a, <1>b DEF Reset, Destroy, Uses, Unlocked
<1>15. CASE DestroyNull(p)
  BY <1>15, <1>a, <1>b DEF DestroyNull, Unlocked
<1>16. ASSUME NEW c \in GetRequests, Get(p, c) PROVE Returned'
  BY <1>16, <1>a, <1>b DEF Get, GetRequests, Uses, Unlocked
<1>17. CASE GetCopy(p) \/ MoveCopy(p)
  BY <1>17, <1>a, <1>b DEF GetCopy, MoveCopy, Unlocked
<1>18. CASE MoveUse(p) \/ MoveTest(p)
  BY <1>18, <1>a, <1>b DEF MoveUse, MoveTest, Uses, Unlocked
<1>19. CASE StoreX(p) \/ StoreY(p)
  BY <1>19, <1>a, <1>b DEF StoreX, StoreY, Uses, Unlocked
<1>20. CASE Read(p)
  BY <1>20, <1>a, <1>b DEF Read, NoMazeError, Request, Unlocked
<1>21. CASE ReadFill(p) \/ ReadRet(p)
  BY <1>21, <1>a, <1>b DEF ReadFill, ReadRet, Uses, Unlocked
<1>22. CASE Write(p)
  BY <1>22, <1>a, <1>b DEF Write, NoMazeError, Request, Unlocked
<1>23. CASE WriteCopy(p) \/ WriteLoad(p)
  BY <1>23, <1>a, <1>b DEF WriteCopy, WriteLoad, Uses, Unlocked
<1>24. CASE WriteStep(p)
  BY <1>24, <1>a, <1>b DEF WriteStep, Uses, Unlocked
<1>25. CASE ProcRead(p) \/ ProcQ3(p)
  BY <1>25, <1>a, <1>b DEF ProcRead, ProcQ3, Request, Uses, Unlocked
<1>26. CASE ProcLoop(p) \/ ProcShow(p)
  BY <1>26, <1>a, <1>b DEF ProcLoop, ProcShow, Uses, Unlocked
<1>27. CASE Oops(p)
  BY <1>27, <1>a, <1>b DEF Oops, UseLabels, IoctlUse, HeldInRegister, Unlocked
<1> QED BY <1>1, <1>2, <1>3, <1>4, <1>5, <1>6, <1>7, <1>8, <1>9, <1>10, <1>11, <1>12, <1>13,
           <1>14, <1>15, <1>16, <1>17, <1>18, <1>19, <1>20, <1>21, <1>22, <1>23, <1>24,
           <1>25, <1>26, <1>27 DEF Call, Handler

(* Every way out of create_maze and del_user unlocks maze_mutex, whoever uses *)
(* whatever requests: the mutex is never found locked by a process that has   *)
(* left them, unless a kmalloc failed.                                        *)
THEOREM DeviceUnlocks == Spec => []MutexReturned
<1>1. Init => Returned
  BY PidAssumption DEF Init, Returned, MutexReturned, Creating
<1>2. TypeOK /\ Returned /\ [Next]_vars => Returned'
  <2>1. CASE UNCHANGED vars
    BY <2>1 DEF vars, globals, statics, self, history, Returned, MutexReturned, Creating,
                GivesBack
  <2> QED BY <2>1, ReturnedStep DEF Next
<1>3. Returned => MutexReturned
  BY DEF Returned
<1> QED BY <1>1, <1>2, <1>3, TypeCorrect, PTL DEF Spec

=============================================================================
