----------------------------- MODULE SolverProofs -----------------------------
(***************************************************************************)
(* Proofs about Solver, for every maze, every number of moves and every    *)
(* linking that meets the assumptions of that module: the search finds a   *)
(* path exactly when there is one, leaves no marks, only runs past the end *)
(* of move_directions in a maze of more cells, and its replay reaches the  *)
(* end, in finitely many steps.                                            *)
(***************************************************************************)
EXTENDS Solver, TLAPS, FiniteSetTheorems

Early == {"init", "load"}
Late == {"check", "moves", "Bingo", "No no no"}

(* The path of the active calls: over roads, from the start, by the           *)
(* directions in move_directions.                                             *)
Path ==
    /\ stage \in Early => frames = <<>>
    /\ stage = "search" => frames # <<>>
    /\ Len(frames) <= NMoves + 1
    /\ frames # <<>> => frames[1].at = mz.start
    /\ \A k \in 1 .. Len(frames) : frames[k].at \in Roads(mz)
    /\ \A k \in 1 .. Len(frames) - 1 :
         /\ dirs[k - 1] \in Dirs
         /\ frames[k + 1].at = At(frames[k].at, dirs[k - 1])

(* blk: walls stay, and outside the search nothing is marked.                 *)
Marks ==
    /\ \A c \in Cells(mz) : blk[c] = 1 <=> c \in mz.walls
    /\ stage \notin {"search", "fault"} => \A c \in Cells(mz) : blk[c] # 2

(* During the search the cells of the path are marked, all but the end, and   *)
(* so they differ.                                                            *)
Visited ==
    stage = "search" =>
        /\ blk[mz.end] # 2
        /\ \A k \in 1 .. Len(frames) : frames[k].at # mz.end => blk[frames[k].at] = 2
        /\ \A k \in 1 .. Len(frames) - 1 : frames[k].at # mz.end
        /\ \A j, k \in 1 .. Len(frames) : j # k => frames[j].at # frames[k].at

(* Every road next to a cell that dfs has left, or in a direction it has      *)
(* tried, is marked.                                                          *)
Seen(c, d) == At(c, d) \in Roads(mz) => blk[At(c, d)] = 2
Explored ==
    (stage = "search" /\ Top.at # mz.end) =>
        /\ \A k \in 1 .. Len(frames) : \A d \in Dirs :
              d < frames[k].from => Seen(frames[k].at, d)
        /\ \A c \in Cells(mz) : blk[c] = 2 =>
              \/ \E k \in 1 .. Len(frames) : frames[k].at = c
              \/ \A d \in Dirs : Seen(c, d)

(* Wherever the search stands can be reached.                                 *)
Closed(S) == /\ S \in SUBSET Roads(mz) /\ mz.start \in S
             /\ \A c \in S : \A d \in Dirs : At(c, d) \in Roads(mz) => At(c, d) \in S
Reached == stage = "search" =>
               \A S \in SUBSET Roads(mz) : Closed(S) => \A k \in 1 .. Len(frames) : frames[k].at \in S

(* max_depth and the path that was found.                                     *)
Depth ==
    /\ stage \in Early \cup {"search"} => depth = 0
    /\ (stage \in Late /\ depth > 0) =>
          /\ Len(frames) = depth + 1
          /\ frames[depth + 1].at = mz.end

(* got_entries_to_move_n points at the entries, and the first max_depth of    *)
(* them are overwritten.                                                      *)
Entries ==
    /\ \A n \in 1 .. NMoves : gotAt[n] # NoEntry => link[gotAt[n]] = n
    /\ stage \in Early \cup {"search", "check"} => got = link
    /\ stage = "moves" =>
          \A n \in 1 .. depth : \A s \in DOMAIN link :
              link[s] = n => got[s] = StepFn(dirs[n - 1])

(* The program follows the path, and has not yet arrived.                     *)
Replay ==
    /\ cur \in Roads(mz)
    /\ stage \in Early \cup {"search", "check"} => call = 0 /\ cur = mz.start
    /\ (stage = "moves" /\ depth > 0) => call < depth
    /\ (stage \in {"moves", "Bingo"} /\ depth > 0) =>
          call <= depth /\ cur = frames[call + 1].at
    /\ stage = "No no no" => depth = 0

IInv == /\ TypeOK /\ Path /\ Marks /\ Visited /\ Explored /\ Reached /\ Depth
        /\ SearchComplete /\ Entries /\ Replay /\ OverflowNeedsCells
-----------------------------------------------------------------------------
(* Facts of the data.                                                         *)
LEMMA MaxOfOne == ASSUME NEW x \in Int PROVE Max({x}) = x
  BY DEF Max

LEMMA MinOfDirs ==
  ASSUME NEW S \in SUBSET Dirs, S # {}
  PROVE  Min(S) \in S /\ \A y \in S : Min(S) <= y
<1>1. \E x \in S : \A y \in S : x <= y
  <2>1. CASE 0 \in S
    BY <2>1 DEF Dirs
  <2>2. CASE 0 \notin S /\ 1 \in S
    BY <2>2 DEF Dirs
  <2>3. CASE 0 \notin S /\ 1 \notin S /\ 2 \in S
    BY <2>3 DEF Dirs
  <2>4. CASE 0 \notin S /\ 1 \notin S /\ 2 \notin S
    <3>1. S = {3}
      <4>1. \A x \in S : x = 3
        BY <2>4 DEF Dirs
      <4> QED BY <4>1
    <3> QED BY <3>1
  <2> QED BY <2>1, <2>2, <2>3, <2>4
<1> QED BY <1>1 DEF Min

(* The border is wall: next to a road there are only cells.                   *)
LEMMA NextToRoad ==
  ASSUME NEW m \in Mazes, NEW c \in Roads(m), NEW d \in Dirs
  PROVE  /\ At(c, d) \in Cells(m) /\ At(c, d) # c
         /\ c \in Cells(m) /\ c \notin m.walls
<1>1. c \in Cells(m) /\ c \notin m.walls /\ c \notin Border(m) /\ m.w \in Nat /\ m.h \in Nat
  BY SolverMazes DEF Roads
<1>2. /\ c = <<c[1], c[2]>> /\ c[1] \in 1 .. m.w - 2 /\ c[2] \in 1 .. m.h - 2
  BY <1>1 DEF Cells, Border
<1>3. DirVec[d + 1] \in {<<0, -1>>, <<0, 1>>, <<-1, 0>>, <<1, 0>>}
  BY DEF DirVec, Dirs
<1>4. /\ At(c, d)[1] \in 0 .. m.w - 1 /\ At(c, d)[2] \in 0 .. m.h - 1
      /\ At(c, d) = <<At(c, d)[1], At(c, d)[2]>>
      /\ At(c, d)[1] # c[1] \/ At(c, d)[2] # c[2]
  BY <1>1, <1>2, <1>3 DEF At
<1> QED BY <1>1, <1>4 DEF Cells

LEMMA RoadsInside ==
  ASSUME NEW m \in Mazes, NEW c \in Roads(m)
  PROVE  c[1] > 0 /\ c[1] < m.w /\ c[2] > 0 /\ c[2] < m.h
<1>1. c \in Cells(m) /\ c \notin Border(m) /\ m.w \in Nat /\ m.h \in Nat
  BY SolverMazes DEF Roads
<1> QED BY <1>1 DEF Cells, Border

(* What dfs may enter are the roads not marked.                               *)
LEMMA ValidIsRoad ==
  ASSUME TypeOK, Marks, NEW c \in Roads(mz), NEW d \in Dirs
  PROVE  IsValid(At(c, d)) <=> At(c, d) \in Roads(mz) /\ blk[At(c, d)] # 2
<1>1. At(c, d) \in Cells(mz) /\ mz \in Mazes
  BY NextToRoad DEF TypeOK
<1>2. blk[At(c, d)] \in {0, 1, 2} /\ (blk[At(c, d)] = 1 <=> At(c, d) \in mz.walls)
  BY <1>1 DEF TypeOK, Marks
<1>3. At(c, d) \in Roads(mz) <=> At(c, d) \notin mz.walls
  BY <1>1 DEF Roads
<1> QED BY <1>1, <1>2, <1>3, RoadsInside DEF IsValid

(* Each move_n has one entry.                                                 *)
LEMMA OneEntry ==
  ASSUME NEW l \in Links, NEW n \in 1 .. NMoves
  PROVE  \E s \in DOMAIN l : l[s] = n /\ {t \in DOMAIN l : l[t] = n} = {s}
  BY SolverLinks

LEMMA LinkTypes ==
  ASSUME NEW l \in Links
  PROVE  /\ l \in Seq(Fns) /\ DOMAIN l = 1 .. Len(l) /\ Len(l) \in Nat
         /\ \A s \in DOMAIN l : l[s] \in 0 .. NMoves
<1>1. l \in Seq(0 .. NMoves)
  BY SolverLinks
<1> QED BY <1>1, SolverMoves DEF Fns
-----------------------------------------------------------------------------
(* The path grows by a call of dfs and shrinks by its return.                 *)
LEMMA NonEmpty ==
  ASSUME NEW F, NEW fs \in Seq(F), fs # <<>>
  PROVE  /\ Len(fs) \in Nat \ {0} /\ DOMAIN fs = 1 .. Len(fs)
         /\ \A k \in 1 .. Len(fs) : fs[k] \in F
  OBVIOUS

LEMMA PathGrows ==
  ASSUME frames \in Seq([at : Cells(mz), from : 0 .. 4]), frames # <<>>,
         NEW c \in Cells(mz), NEW d \in Dirs,
         frames' = Append([frames EXCEPT ![Len(frames)].from = d + 1], [at |-> c, from |-> 0])
  PROVE  /\ frames' \in Seq([at : Cells(mz), from : 0 .. 4])
         /\ Len(frames') = Len(frames) + 1
         /\ frames'[Len(frames) + 1] = [at |-> c, from |-> 0]
         /\ \A k \in 1 .. Len(frames) :
               /\ frames'[k].at = frames[k].at
               /\ frames'[k].from = IF k = Len(frames) THEN d + 1 ELSE frames[k].from
<1> DEFINE F == [at : Cells(mz), from : 0 .. 4]
           up == [frames EXCEPT ![Len(frames)].from = d + 1]
           last == [at |-> c, from |-> 0]
<1>1. /\ Len(frames) \in Nat \ {0} /\ DOMAIN frames = 1 .. Len(frames)
      /\ \A k \in 1 .. Len(frames) : frames[k] \in F
  <2>1. frames \in Seq(F)
    OBVIOUS
  <2> HIDE DEF F
  <2> QED BY <2>1, NonEmpty
<1>2. \A k \in 1 .. Len(frames) :
        up[k] = IF k = Len(frames) THEN [frames[k] EXCEPT !.from = d + 1] ELSE frames[k]
  BY <1>1
<1>3. \A k \in 1 .. Len(frames) :
        /\ up[k] \in F /\ up[k].at = frames[k].at
        /\ up[k].from = IF k = Len(frames) THEN d + 1 ELSE frames[k].from
  BY <1>1, <1>2 DEF Dirs
<1>4. up \in Seq(F) /\ Len(up) = Len(frames)
  <2>1. up = [k \in 1 .. Len(frames) |-> up[k]] /\ DOMAIN up = 1 .. Len(frames)
    BY <1>1
  <2> HIDE DEF up, F
  <2>2. up \in [1 .. Len(frames) -> F]
    BY <1>3, <2>1
  <2>3. up \in Seq(F)
    BY <1>1, <2>2
  <2> QED BY <1>1, <2>1, <2>3
<1>5. last \in F
  OBVIOUS
<1>6. frames' = Append(up, last)
  OBVIOUS
<1> HIDE DEF F, up, last
<1>7. /\ frames' \in Seq(F) /\ Len(frames') = Len(frames) + 1
      /\ frames'[Len(frames) + 1] = last
      /\ \A k \in 1 .. Len(frames) : frames'[k] = up[k]
  <2>1. /\ Append(up, last) \in Seq(F) /\ Len(Append(up, last)) = Len(up) + 1
        /\ Append(up, last)[Len(up) + 1] = last
        /\ \A k \in 1 .. Len(up) : Append(up, last)[k] = up[k]
    BY <1>4, <1>5
  <2> QED BY <1>4, <1>6, <2>1
<1> QED BY <1>1, <1>3, <1>7 DEF F, last

LEMMA PathShrinks ==
  ASSUME NEW F, NEW fs \in Seq(F), fs # <<>>
  PROVE  LET new == SubSeq(fs, 1, Len(fs) - 1)
         IN  /\ new \in Seq(F) /\ Len(new) = Len(fs) - 1 /\ Len(fs) \in Nat \ {0}
             /\ \A k \in 1 .. Len(fs) - 1 : new[k] = fs[k]
<1>1. /\ Len(fs) \in Nat \ {0} /\ DOMAIN fs = 1 .. Len(fs)
      /\ \A k \in 1 .. Len(fs) : fs[k] \in F
  BY NonEmpty
<1>2. SubSeq(fs, 1, Len(fs) - 1) = [k \in 1 .. Len(fs) - 1 |-> fs[k]]
  BY <1>1
<1> DEFINE new == [k \in 1 .. Len(fs) - 1 |-> fs[k]]
<1>3. new \in Seq(F) /\ Len(new) = Len(fs) - 1
  BY <1>1
<1> QED BY <1>1, <1>2, <1>3
-----------------------------------------------------------------------------
(* Steps that leave the search alone keep what is said of it.                 *)
LEMMA SearchFrame ==
  ASSUME IInv, UNCHANGED <<mz, blk, frames, dirs>>,
         stage' = "search" <=> stage = "search", stage' \in Early => stage \in Early,
         stage \in {"search", "fault"} <=> stage' \in {"search", "fault"}
  PROVE  Path' /\ Marks' /\ Visited' /\ Explored' /\ Reached'
<1>1. Path'
  BY DEF IInv, Path
<1>2. Marks'
  BY DEF IInv, Marks
<1>3. Visited'
  BY DEF IInv, Visited
<1>4. Explored'
  BY DEF IInv, Explored, Seen, Top
<1>5. Reached'
  BY DEF IInv, Reached, Closed
<1> QED BY <1>1, <1>2, <1>3, <1>4, <1>5

(* ... and what is said of its outcome holds on while the run goes on.        *)
LEMMA OutcomeFrame ==
  ASSUME IInv, UNCHANGED <<mz, frames, dirs, depth>>,
         stage' \in Early \cup {"search"} => stage \in Early \cup {"search"},
         stage' \in Late => stage \in Late, stage' # "fault"
  PROVE  Depth' /\ SearchComplete' /\ OverflowNeedsCells'
<1>1. Depth'
  BY DEF IInv, Depth
<1>2. SearchComplete'
  BY DEF IInv, SearchComplete, Reachable, Late
<1>3. OverflowNeedsCells'
  BY DEF OverflowNeedsCells
<1> QED BY <1>1, <1>2, <1>3

LEMMA Initially == Init => IInv
<1> SUFFICES ASSUME Init PROVE IInv
  OBVIOUS
<1>1. /\ mz \in Mazes /\ link \in Links /\ got = link /\ frames = <<>> /\ stage = "init"
      /\ depth = 0 /\ call = 0 /\ cur = mz.start /\ gotAt = [n \in 1 .. NMoves |-> NoEntry]
      /\ dirs = [k \in 0 .. NMoves - 1 |-> None]
      /\ blk = [c \in Cells(mz) |-> IF c \in mz.walls THEN 1 ELSE 0]
  BY DEF Init
<1>2. mz.start \in Roads(mz) /\ mz.start \in Cells(mz)
  BY <1>1, SolverMazes DEF Roads
<1>3. TypeOK
  <2>1. /\ got \in Seq(Fns) /\ DOMAIN got = DOMAIN link
        /\ gotAt \in [1 .. NMoves -> DOMAIN got \cup {NoEntry}]
    BY <1>1, LinkTypes
  <2>2. frames \in Seq([at : Cells(mz), from : 0 .. 4])
    BY <1>1
  <2>3. blk \in [Cells(mz) -> {0, 1, 2}] /\ dirs \in [0 .. NMoves - 1 -> Dirs \cup {None}]
    BY <1>1
  <2> QED BY <1>1, <1>2, <2>1, <2>2, <2>3, SolverMoves DEF TypeOK
<1>4. Path
  BY <1>1, SolverMoves DEF Path
<1>5. Marks
  BY <1>1 DEF Marks
<1>6. Visited /\ Explored /\ Reached /\ Depth /\ SearchComplete /\ OverflowNeedsCells
  BY <1>1 DEF Visited, Explored, Reached, Depth, SearchComplete, OverflowNeedsCells, Late
<1>7. Entries
  BY <1>1 DEF Entries
<1>8. Replay
  BY <1>1, <1>2 DEF Replay
<1> QED BY <1>3, <1>4, <1>5, <1>6, <1>7, <1>8 DEF IInv

LEMMA FailKeeps == IInv /\ Fail /\ stage \in Early => IInv'
<1> SUFFICES ASSUME IInv, Fail, stage \in Early PROVE IInv'
  OBVIOUS
<1>1. /\ stage' = "failed"
      /\ UNCHANGED <<mz, blk, cur, link, got, gotAt, frames, dirs, depth, call>>
  BY DEF Fail
<1>2. TypeOK'
  BY <1>1 DEF IInv, TypeOK, Ended
<1>3. Path' /\ Marks' /\ Visited' /\ Explored' /\ Reached'
  BY <1>1, SearchFrame DEF Early
<1>4. Depth' /\ SearchComplete' /\ OverflowNeedsCells'
  BY <1>1, OutcomeFrame DEF Early, Late
<1>5. Entries' /\ Replay'
  BY <1>1 DEF IInv, Entries, Replay, Early
<1> QED BY <1>2, <1>3, <1>4, <1>5 DEF IInv

LEMMA ReadElfKeeps == IInv /\ ReadElf => IInv'
<1> SUFFICES ASSUME IInv, ReadElf PROVE IInv'
  OBVIOUS
<1>1. /\ stage = "init" /\ stage' = "load"
      /\ UNCHANGED <<mz, blk, cur, link, got, frames, dirs, depth, call>>
  BY DEF ReadElf
<1>2. \A n \in 1 .. NMoves : EntryOf(n) \in DOMAIN link /\ link[EntryOf(n)] = n
  <2> TAKE n \in 1 .. NMoves
  <2>1. got = link /\ link \in Links
    BY <1>1 DEF IInv, Entries, TypeOK, Early
  <2>2. PICK s \in DOMAIN link : link[s] = n /\ {t \in DOMAIN link : link[t] = n} = {s}
    BY <2>1, OneEntry
  <2>3. s \in Int
    BY <2>1, <2>2, LinkTypes
  <2>4. EntryOf(n) = s
    BY <2>1, <2>2, <2>3, MaxOfOne DEF EntryOf
  <2> QED BY <2>2, <2>4
<1>3. /\ gotAt' \in [1 .. NMoves -> DOMAIN link \cup {NoEntry}]
      /\ \A n \in 1 .. NMoves : gotAt'[n] # NoEntry => link[gotAt'[n]] = n
  <2>1. CASE gotAt' = gotAt
    BY <2>1 DEF IInv, TypeOK, Entries
  <2>2. CASE gotAt' = [n \in 1 .. NMoves |-> EntryOf(n)]
    BY <1>2, <2>2
  <2> QED BY <2>1, <2>2 DEF ReadElf
<1>4. TypeOK'
  BY <1>1, <1>3 DEF IInv, TypeOK
<1>5. Path' /\ Marks' /\ Visited' /\ Explored' /\ Reached'
  BY <1>1, SearchFrame DEF Early
<1>6. Depth' /\ SearchComplete' /\ OverflowNeedsCells'
  BY <1>1, OutcomeFrame DEF Early, Late
<1>7. Entries'
  BY <1>1, <1>3 DEF IInv, Entries, Early
<1>8. Replay'
  BY <1>1 DEF IInv, Replay, Early
<1> QED BY <1>4, <1>5, <1>6, <1>7, <1>8 DEF IInv
(* Marking a road.                                                            *)
LEMMA MarkIs ==
  ASSUME TypeOK, Marks, NEW c \in Roads(mz), blk' = Mark(c)
  PROVE  /\ blk' \in [Cells(mz) -> {0, 1, 2}]
         /\ \A x \in Cells(mz) : blk'[x] = IF x = c /\ c # mz.end THEN 2 ELSE blk[x]
         /\ \A x \in Cells(mz) : blk'[x] = 1 <=> x \in mz.walls
<1>1. c \in Cells(mz) /\ c \notin mz.walls
  BY DEF Roads
<1>2. blk \in [Cells(mz) -> {0, 1, 2}]
  BY DEF TypeOK
<1>3. \A x \in Cells(mz) : blk'[x] = IF x = c /\ c # mz.end THEN 2 ELSE blk[x]
  BY <1>1, <1>2 DEF Mark
<1>4. blk' \in [Cells(mz) -> {0, 1, 2}]
  BY <1>1, <1>2 DEF Mark
<1> QED BY <1>1, <1>3, <1>4 DEF Marks

LEMMA LoadKeeps == IInv /\ Load => IInv'
<1> SUFFICES ASSUME IInv, Load PROVE IInv'
  OBVIOUS
<1>1. /\ stage = "load" /\ stage' = "search" /\ blk' = Mark(mz.start)
      /\ frames' = <<[at |-> mz.start, from |-> 0]>>
      /\ UNCHANGED <<mz, cur, link, got, gotAt, dirs, depth, call>>
  BY DEF Load
<1>2. mz \in Mazes /\ mz.start \in Roads(mz) /\ mz.start \in Cells(mz)
  BY SolverMazes DEF IInv, TypeOK, Roads
<1>3. /\ Len(frames') = 1 /\ frames' # <<>> /\ frames'[1] = [at |-> mz.start, from |-> 0]
      /\ frames' \in Seq([at : Cells(mz), from : 0 .. 4])
  BY <1>1, <1>2
<1>4. /\ blk' \in [Cells(mz) -> {0, 1, 2}]
      /\ \A x \in Cells(mz) :
            blk'[x] = IF x = mz.start /\ mz.start # mz.end THEN 2 ELSE blk[x]
      /\ \A x \in Cells(mz) : blk'[x] = 1 <=> x \in mz.walls
  BY <1>1, <1>2, MarkIs DEF IInv
<1>5. \A x \in Cells(mz) : blk[x] # 2
  BY <1>1 DEF IInv, Marks
<1>6. TypeOK'
  BY <1>1, <1>3, <1>4 DEF IInv, TypeOK
<1>7. Path'
  BY <1>1, <1>2, <1>3, SolverMoves DEF Path, Early
<1>8. Marks'
  BY <1>1, <1>4 DEF Marks
<1>9. Visited'
  BY <1>1, <1>2, <1>3, <1>4, <1>5, SolverMazes DEF Visited
<1>10. Explored'
  <2> SUFFICES ASSUME Top'.at # mz.end PROVE Explored'
    BY <1>1 DEF Explored
  <2>1. \A k \in 1 .. Len(frames') : \A d \in Dirs : ~ (d < frames'[k].from)
    BY <1>3 DEF Dirs
  <2>2. \A x \in Cells(mz) : blk'[x] = 2 => frames'[1].at = x
    BY <1>3, <1>4, <1>5
  <2> QED BY <1>1, <1>3, <2>1, <2>2 DEF Explored
<1>11. Reached'
  BY <1>1, <1>3 DEF Reached, Closed
<1>12. Depth' /\ SearchComplete' /\ OverflowNeedsCells'
  BY <1>1 DEF IInv, Depth, SearchComplete, OverflowNeedsCells, Early, Late
<1>13. Entries' /\ Replay'
  BY <1>1 DEF IInv, Entries, Replay, Early
<1> QED BY <1>6, <1>7, <1>8, <1>9, <1>10, <1>11, <1>12, <1>13 DEF IInv

(* The step of dfs into the first direction left.                             *)
LEMMA TopFacts ==
  ASSUME IInv, stage = "search"
  PROVE  /\ mz \in Mazes /\ Len(frames) \in Nat \ {0} /\ Len(frames) <= NMoves + 1
         /\ frames \in Seq([at : Cells(mz), from : 0 .. 4]) /\ frames # <<>>
         /\ Top \in [at : Cells(mz), from : 0 .. 4]
         /\ Top.at \in Roads(mz) /\ Top = frames[Len(frames)]
<1>1. mz \in Mazes /\ frames \in Seq([at : Cells(mz), from : 0 .. 4]) /\ frames # <<>>
  BY DEF IInv, TypeOK, Path
<1> DEFINE F == [at : Cells(mz), from : 0 .. 4]
<1>2. Len(frames) \in Nat \ {0} /\ frames[Len(frames)] \in F
  <2>1. frames \in Seq(F) /\ frames # <<>>
    BY <1>1
  <2> HIDE DEF F
  <2> QED BY <2>1, NonEmpty
<1> QED BY <1>1, <1>2 DEF IInv, Path, Top

LEMMA TryTakes ==
  ASSUME IInv, Try, stage' # "fault"
  PROVE  \E d \in Dirs : \E c \in Roads(mz) :
           /\ stage = "search" /\ stage' = "search" /\ Len(frames) <= NMoves /\ Top.at # mz.end
           /\ c = At(Top.at, d) /\ blk[c] # 2 /\ Top.from <= d
           /\ \A e \in Dirs : e < d => Seen(Top.at, e)
           /\ dirs' = [dirs EXCEPT ![Len(frames) - 1] = d]
           /\ frames' = Append([frames EXCEPT ![Len(frames)].from = d + 1], [at |-> c, from |-> 0])
           /\ blk' = Mark(c)
           /\ UNCHANGED <<mz, cur, link, got, gotAt, depth, call>>
<1> DEFINE d == Min(Left)
           c == At(Top.at, d)
<1>1. stage = "search" /\ Top.at # mz.end /\ Left # {}
  BY DEF Try, Searching
<1>2. Top \in [at : Cells(mz), from : 0 .. 4] /\ Top.at \in Roads(mz) /\ Len(frames) \in Nat
  BY <1>1, TopFacts
<1>3. Left \in SUBSET Dirs
  BY <1>2 DEF Left, Dirs
<1>4. d \in Left /\ \A e \in Left : d <= e
  BY <1>1, <1>3, MinOfDirs
<1>5. /\ d \in Dirs /\ Top.from <= d /\ IsValid(c)
      /\ \A e \in Dirs : Top.from <= e /\ e < d => ~ IsValid(At(Top.at, e))
  BY <1>2, <1>3, <1>4 DEF Left, Dirs
<1>6. c \in Roads(mz) /\ blk[c] # 2
  BY <1>2, <1>5, ValidIsRoad DEF IInv
<1>7. \A e \in Dirs : e < d => Seen(Top.at, e)
  <2> TAKE e \in Dirs
  <2> HAVE e < d
  <2>1. CASE e < Top.from
    BY <1>1, <1>2, <2>1, TopFacts DEF IInv, Explored
  <2>2. CASE ~ (e < Top.from)
    BY <1>2, <1>5, <2>2, ValidIsRoad DEF IInv, Seen, Dirs
  <2> QED BY <2>1, <2>2
<1> HIDE DEF d
<1>8. /\ ~ (Len(frames) > NMoves) /\ stage' = stage /\ blk' = Mark(c) /\ PushDir(d)
      /\ frames' = Append([frames EXCEPT ![Len(frames)].from = d + 1], [at |-> c, from |-> 0])
      /\ UNCHANGED <<mz, cur, link, got, gotAt, depth, call>>
  BY DEF Try, d
<1>9. dirs' = [dirs EXCEPT ![Len(frames) - 1] = d] /\ Len(frames) <= NMoves /\ stage' = "search"
  BY <1>1, <1>2, <1>8, SolverMoves DEF PushDir
<1>10. d \in Dirs /\ c \in Roads(mz) /\ c = At(Top.at, d)
  BY <1>5, <1>6
<1> HIDE DEF c
<1> QED BY <1>1, <1>5, <1>6, <1>7, <1>8, <1>9, <1>10

LEMMA TryKeeps == IInv /\ Try /\ stage' # "fault" => IInv'
<1> SUFFICES ASSUME IInv, Try, stage' # "fault" PROVE IInv'
  OBVIOUS
<1> PICK d \in Dirs, c \in Roads(mz) :
           /\ stage = "search" /\ stage' = "search" /\ Len(frames) <= NMoves /\ Top.at # mz.end
           /\ c = At(Top.at, d) /\ blk[c] # 2 /\ Top.from <= d
           /\ \A e \in Dirs : e < d => Seen(Top.at, e)
           /\ dirs' = [dirs EXCEPT ![Len(frames) - 1] = d]
           /\ frames' = Append([frames EXCEPT ![Len(frames)].from = d + 1], [at |-> c, from |-> 0])
           /\ blk' = Mark(c)
           /\ UNCHANGED <<mz, cur, link, got, gotAt, depth, call>>
  BY TryTakes
<1> DEFINE n == Len(frames)
<1>1. /\ mz \in Mazes /\ n \in Nat \ {0} /\ n <= NMoves /\ Top = frames[n] /\ frames # <<>>
      /\ frames \in Seq([at : Cells(mz), from : 0 .. 4])
  BY TopFacts
<1>2. c \in Cells(mz) /\ c \notin mz.walls
  BY DEF Roads
<1>3. /\ frames' \in Seq([at : Cells(mz), from : 0 .. 4])
      /\ Len(frames') = n + 1 /\ frames'[n + 1] = [at |-> c, from |-> 0]
      /\ \A k \in 1 .. n :
            /\ frames'[k].at = frames[k].at
            /\ frames'[k].from = IF k = n THEN d + 1 ELSE frames[k].from
  BY <1>1, <1>2, PathGrows DEF n
<1>4. /\ blk' \in [Cells(mz) -> {0, 1, 2}]
      /\ \A x \in Cells(mz) : blk'[x] = IF x = c /\ c # mz.end THEN 2 ELSE blk[x]
      /\ \A x \in Cells(mz) : blk'[x] = 1 <=> x \in mz.walls
  BY MarkIs DEF IInv
<1>5. /\ dirs' \in [0 .. NMoves - 1 -> Dirs \cup {None}] /\ dirs'[n - 1] = d
      /\ \A k \in 1 .. n - 1 : dirs'[k - 1] = dirs[k - 1]
  BY <1>1, SolverMoves DEF IInv, TypeOK
<1>6. /\ \A k \in 1 .. n : frames[k].at \in Roads(mz) /\ frames[k].at \in Cells(mz)
      /\ \A k \in 1 .. n : frames[k].at # mz.end /\ blk[frames[k].at] = 2 /\ frames[k].at # c
  BY <1>1 DEF IInv, Path, Visited, Roads
<1> HIDE DEF n
<1>7. TypeOK'
  BY <1>3, <1>4, <1>5 DEF IInv, TypeOK
<1>8. Path'
  <2>1. Len(frames') <= NMoves + 1 /\ frames' # <<>> /\ frames'[1].at = mz.start
    <3>1. frames' # <<>>
      BY <1>1, <1>3
    <3>2. frames[1].at = mz.start
      BY <1>1 DEF IInv, Path
    <3> QED BY <1>1, <1>3, <3>1, <3>2, SolverMoves
  <2>2. \A k \in 1 .. Len(frames') : frames'[k].at \in Roads(mz)
    BY <1>1, <1>3, <1>6
  <2>3. ASSUME NEW k \in 1 .. Len(frames') - 1
        PROVE  dirs'[k - 1] \in Dirs /\ frames'[k + 1].at = At(frames'[k].at, dirs'[k - 1])
    <3>1. CASE k = n
      BY <1>1, <1>3, <1>5, <3>1
    <3>2. CASE k \in 1 .. n - 1
      <4>1. /\ dirs[k - 1] \in Dirs /\ frames[k + 1].at = At(frames[k].at, dirs[k - 1])
        BY <3>2 DEF IInv, Path, n
      <4> QED BY <1>1, <1>3, <1>5, <3>2, <4>1
    <3> QED BY <1>1, <1>3, <3>1, <3>2
  <2> QED BY <2>1, <2>2, <2>3 DEF Path, Early
<1>9. Marks'
  BY <1>4 DEF Marks
<1>10. Visited'
  <2>1. blk'[mz.end] # 2
    BY <1>1, <1>4, SolverMazes DEF IInv, Visited
  <2>2. \A k \in 1 .. n : blk'[frames'[k].at] = 2 /\ frames'[k].at # mz.end
    <3> TAKE k \in 1 .. n
    <3>1. frames[k].at \in Cells(mz) /\ blk[frames[k].at] = 2 /\ frames[k].at # mz.end
      BY <1>6 DEF n
    <3>2. blk'[frames[k].at] = 2
      BY <1>4, <3>1
    <3> QED BY <1>3, <3>1, <3>2
  <2>3. frames'[n + 1].at # mz.end => blk'[frames'[n + 1].at] = 2
    BY <1>2, <1>3, <1>4
  <2>4. \A j, k \in 1 .. n + 1 : j # k => frames'[j].at # frames'[k].at
    <3>1. \A j, k \in 1 .. n : j # k => frames[j].at # frames[k].at
      BY DEF IInv, Visited, n
    <3> QED BY <1>1, <1>3, <1>6, <3>1
  <2> QED BY <1>1, <1>3, <2>1, <2>2, <2>3, <2>4 DEF Visited
<1>11. Explored'
  <2> SUFFICES ASSUME Top'.at # mz.end PROVE Explored'
    BY DEF Explored
  <2>1. c # mz.end
    BY <1>1, <1>3 DEF Top
  <2>2. \A x \in Cells(mz) : blk[x] = 2 => blk'[x] = 2
    BY <1>4
  <2> DEFINE Next2(x, e) == At(x, e) \in Roads(mz) => blk'[At(x, e)] = 2
  <2>3. \A x, e : Seen(x, e) => Next2(x, e)
    <3> TAKE x, e
    <3> HAVE Seen(x, e)
    <3>1. At(x, e) \in Roads(mz) => At(x, e) \in Cells(mz) /\ blk[At(x, e)] = 2
      BY DEF Seen, Roads
    <3> QED BY <2>2, <3>1
  <2>4. Next2(frames[n].at, d)
    BY <1>1, <1>2, <1>4, <2>1
  <2>5. \A e \in Dirs : e < d => Seen(frames[n].at, e)
    BY <1>1
  <2>6. \A k \in 1 .. n, e \in Dirs : e < frames[k].from => Seen(frames[k].at, e)
    BY DEF IInv, Explored, n
  <2>7. \A x \in Cells(mz) : blk[x] = 2 =>
              \/ \E k \in 1 .. n : frames[k].at = x
              \/ \A e \in Dirs : Seen(x, e)
    BY DEF IInv, Explored, n
  <2> HIDE DEF Next2
  <2>8. ASSUME NEW k \in 1 .. n + 1, NEW e \in Dirs, e < frames'[k].from
        PROVE  Next2(frames'[k].at, e)
    <3>1. CASE k = n + 1
      BY <1>3, <2>8, <3>1 DEF Dirs
    <3>2. CASE k = n
      <4>1. frames'[k].at = frames[n].at /\ (e < d \/ e = d)
        BY <1>1, <1>3, <2>8, <3>2 DEF Dirs
      <4> QED BY <2>3, <2>4, <2>5, <4>1
    <3>3. CASE k \in 1 .. n - 1
      <4>1. frames'[k].at = frames[k].at /\ e < frames[k].from /\ k \in 1 .. n
        BY <1>1, <1>3, <2>8, <3>3
      <4> QED BY <2>3, <2>6, <4>1
    <3>4. k = n + 1 \/ k = n \/ k \in 1 .. n - 1
      BY <1>1
    <3> QED BY <3>1, <3>2, <3>3, <3>4
  <2>9. ASSUME NEW x \in Cells(mz), blk'[x] = 2
        PROVE  \/ \E k \in 1 .. n + 1 : frames'[k].at = x
               \/ \A e \in Dirs : Next2(x, e)
    <3>1. CASE x = c
      BY <1>1, <1>3, <3>1
    <3>2. CASE x # c
      <4>1. blk[x] = 2
        BY <1>4, <2>9, <3>2
      <4>2. CASE \E k \in 1 .. n : frames[k].at = x
        BY <1>1, <1>3, <4>2
      <4>3. CASE \A e \in Dirs : Seen(x, e)
        BY <2>3, <4>3
      <4> QED BY <2>7, <4>1, <4>2, <4>3
    <3> QED BY <3>1, <3>2
  <2> QED BY <1>3, <2>8, <2>9 DEF Explored, Seen, Next2
<1>12. Reached'
  <2> SUFFICES ASSUME NEW S \in SUBSET Roads(mz), Closed(S)
               PROVE  \A k \in 1 .. Len(frames') : frames'[k].at \in S
    BY DEF Reached, Closed
  <2>1. \A k \in 1 .. n : frames[k].at \in S
    BY DEF IInv, Reached, n
  <2>2. c \in S
    BY <1>1, <2>1 DEF Closed
  <2> QED BY <1>1, <1>3, <2>1, <2>2
<1>13. Depth' /\ SearchComplete' /\ OverflowNeedsCells'
  BY DEF IInv, Depth, SearchComplete, OverflowNeedsCells, Early, Late
<1>14. Entries' /\ Replay'
  BY DEF IInv, Entries, Replay, Early
<1> QED BY <1>7, <1>8, <1>9, <1>10, <1>11, <1>12, <1>13, <1>14 DEF IInv

(* A branch too long for move_directions: its cells are roads that differ.    *)
LEMMA FiniteRoads == ASSUME NEW m \in Mazes
                     PROVE  IsFiniteSet(Roads(m)) /\ Cardinality(Roads(m)) \in Nat
<1>1. m.w - 1 \in Int /\ m.h - 1 \in Int
  <2>1. m.w \in Nat /\ m.h \in Nat
    BY SolverMazes
  <2> QED BY <2>1
<1>2. IsFiniteSet(0 .. m.w - 1) /\ IsFiniteSet(0 .. m.h - 1)
  BY <1>1, FS_Interval
<1>3. IsFiniteSet(Cells(m))
  BY <1>2, FS_Product DEF Cells
<1>4. Roads(m) \in SUBSET Cells(m)
  BY DEF Roads
<1> QED BY <1>3, <1>4, FS_Subset, FS_CardinalityType

LEMMA LongBranch ==
  ASSUME IInv, stage = "search", Top.at # mz.end, NEW c \in Roads(mz), blk[c] # 2
  PROVE  Cardinality(Roads(mz)) >= Len(frames) + 1
<1> DEFINE n == Len(frames)
           f == [k \in 1 .. n + 1 |-> IF k = n + 1 THEN c ELSE frames[k].at]
<1>1. mz \in Mazes /\ n \in Nat \ {0} /\ Top = frames[n]
  BY TopFacts
<1>2. /\ \A k \in 1 .. n : frames[k].at \in Roads(mz) /\ frames[k].at # c
      /\ \A j, k \in 1 .. n : j # k => frames[j].at # frames[k].at
  BY <1>1 DEF IInv, Path, Visited
<1>3. IsFiniteSet(1 .. n + 1) /\ Cardinality(1 .. n + 1) = n + 1
  BY <1>1, FS_Interval
<1>4. IsFiniteSet(Roads(mz)) /\ Cardinality(Roads(mz)) \in Nat
  BY <1>1, FiniteRoads
<1> SUFFICES ASSUME Cardinality(Roads(mz)) < n + 1 PROVE FALSE
  BY <1>1, <1>4
<1>5. f \in [1 .. n + 1 -> Roads(mz)] /\ \A j, k \in 1 .. n + 1 : j # k => f[j] # f[k]
  BY <1>1, <1>2
<1> HIDE DEF f
<1>6. \E j, k \in 1 .. n + 1 : j # k /\ f[j] = f[k]
  BY <1>3, <1>4, <1>5, FS_PigeonHole
<1> QED BY <1>5, <1>6

LEMMA TryFaults == IInv /\ Try /\ stage' = "fault" => IInv'
<1> SUFFICES ASSUME IInv, Try, stage' = "fault" PROVE IInv'
  OBVIOUS
<1> DEFINE d == Min(Left)
           c == At(Top.at, d)
<1>1. /\ stage = "search" /\ Top.at # mz.end /\ Left # {} /\ Len(frames) > NMoves
      /\ UNCHANGED <<mz, blk, cur, link, got, gotAt, frames, dirs, depth, call>>
  BY DEF Try, Searching
<1>2. Top \in [at : Cells(mz), from : 0 .. 4] /\ Top.at \in Roads(mz) /\ Len(frames) \in Nat
      /\ mz \in Mazes
  BY <1>1, TopFacts
<1>3. Left \in SUBSET Dirs
  BY <1>2 DEF Left, Dirs
<1>4. d \in Dirs /\ IsValid(c)
  BY <1>1, <1>3, MinOfDirs DEF Left
<1>5. c \in Roads(mz) /\ blk[c] # 2
  BY <1>2, <1>4, ValidIsRoad DEF IInv
<1> HIDE DEF c, d
<1>6. Cardinality(Roads(mz)) \in Nat /\ Cardinality(Roads(mz)) >= Len(frames) + 1
  BY <1>1, <1>2, <1>5, FiniteRoads, LongBranch
<1>7. Cardinality(Roads(mz)) > NMoves + 1
  BY <1>1, <1>2, <1>6, SolverMoves
<1>8. OverflowNeedsCells'
  BY <1>1, <1>7 DEF OverflowNeedsCells
<1>9. TypeOK'
  BY <1>1 DEF IInv, TypeOK, Ended
<1>10. Path' /\ Marks'
  BY <1>1 DEF IInv, Path, Marks, Early
<1>11. /\ Visited' /\ Explored' /\ Reached' /\ Depth' /\ SearchComplete' /\ Replay'
  BY <1>1 DEF IInv, Visited, Explored, Reached, Depth, SearchComplete, Replay, Early, Late
<1>12. Entries'
  BY <1>1 DEF IInv, Entries, Early
<1> QED BY <1>8, <1>9, <1>10, <1>11, <1>12 DEF IInv

(* The marks are taken back.                                                  *)
LEMMA UnmarkIs ==
  ASSUME TypeOK, Marks, blk' = Unmark
  PROVE  /\ blk' \in [Cells(mz) -> {0, 1, 2}]
         /\ \A c \in Cells(mz) : /\ blk'[c] = 1 <=> c \in mz.walls
                                 /\ blk'[c] # 2
<1>1. blk \in [Cells(mz) -> {0, 1, 2}]
  BY DEF TypeOK
<1>2. blk' = [c \in Cells(mz) |-> IF blk[c] = 2 THEN 0 ELSE blk[c]]
  BY <1>1 DEF Unmark
<1> QED BY <1>1, <1>2 DEF Marks

(* dfs gives up only when all it can reach is marked, and the end is not.     *)
LEMMA AllSeen ==
  ASSUME IInv, Searching, Left = {}
  PROVE  \A d \in Dirs : Seen(Top.at, d)
<1> TAKE d \in Dirs
<1>1. stage = "search" /\ Top.at # mz.end
  BY DEF Searching
<1>2. Top \in [at : Cells(mz), from : 0 .. 4] /\ Top.at \in Roads(mz) /\ Len(frames) \in Nat \ {0}
      /\ Top = frames[Len(frames)]
  BY <1>1, TopFacts
<1>3. CASE d < Top.from
  BY <1>1, <1>2, <1>3 DEF IInv, Explored
<1>4. CASE ~ (d < Top.from)
  <2>1. d \in Top.from .. 3
    BY <1>2, <1>4 DEF Dirs
  <2>2. ~ IsValid(At(Top.at, d))
    BY <2>1 DEF Left
  <2> QED BY <1>2, <2>2, ValidIsRoad DEF IInv, Seen
<1> QED BY <1>3, <1>4

LEMMA NoWay ==
  ASSUME IInv, Searching, Left = {}, Len(frames) = 1
  PROVE  ~ Reachable /\ mz.start # mz.end
<1> DEFINE S == {c \in Cells(mz) : blk[c] = 2}
<1>1. stage = "search" /\ Top.at # mz.end /\ Top = frames[1] /\ frames[1].at = mz.start
  BY TopFacts DEF Searching, IInv, Path, Top
<1>2. mz.start \in Cells(mz) /\ mz.end \in Cells(mz) /\ mz \in Mazes
  BY SolverMazes DEF IInv, TypeOK, Roads
<1>3. blk[mz.start] = 2 /\ blk[mz.end] # 2
  BY <1>1 DEF IInv, Visited
<1>4. S \in SUBSET Roads(mz)
  BY DEF IInv, Marks, Roads
<1>5. \A c \in S : \A d \in Dirs : Seen(c, d)
  <2> TAKE c \in S
  <2>1. CASE \E k \in 1 .. Len(frames) : frames[k].at = c
    BY <1>1, <2>1, AllSeen
  <2>2. CASE \A d \in Dirs : Seen(c, d)
    BY <2>2
  <2> QED BY <1>1, <2>1, <2>2 DEF IInv, Explored
<1>6. \A c \in S : \A d \in Dirs : At(c, d) \in Roads(mz) => At(c, d) \in S
  BY <1>5 DEF Seen, Roads
<1>7. mz.start \in S /\ mz.end \notin S
  BY <1>2, <1>3
<1> HIDE DEF S
<1> QED BY <1>1, <1>4, <1>6, <1>7 DEF Reachable

LEMMA GiveUpKeeps == IInv /\ GiveUp => IInv'
<1> SUFFICES ASSUME IInv, GiveUp PROVE IInv'
  OBVIOUS
<1> DEFINE n == Len(frames)
<1>1. /\ Searching /\ Left = {} /\ frames' = SubSeq(frames, 1, n - 1)
      /\ UNCHANGED <<mz, cur, link, got, gotAt, dirs, depth, call>>
      /\ stage = "search" /\ Top.at # mz.end
  BY DEF GiveUp, Searching
<1>2. /\ mz \in Mazes /\ n \in Nat \ {0} /\ n <= NMoves + 1 /\ Top = frames[n]
      /\ frames \in Seq([at : Cells(mz), from : 0 .. 4]) /\ frames # <<>>
  BY <1>1, TopFacts
<1>3. /\ frames' \in Seq([at : Cells(mz), from : 0 .. 4]) /\ Len(frames') = n - 1
      /\ \A k \in 1 .. n - 1 : frames'[k] = frames[k]
  <2> DEFINE F == [at : Cells(mz), from : 0 .. 4]
  <2>1. frames \in Seq(F) /\ frames # <<>>
    BY <1>2
  <2> HIDE DEF F
  <2>2. /\ SubSeq(frames, 1, n - 1) \in Seq(F) /\ Len(SubSeq(frames, 1, n - 1)) = n - 1
        /\ \A k \in 1 .. n - 1 : SubSeq(frames, 1, n - 1)[k] = frames[k]
    BY <2>1, PathShrinks
  <2>3. frames' \in Seq(F) /\ Len(frames') = n - 1
    BY <1>1, <2>2
  <2>4. \A k \in 1 .. n - 1 : frames'[k] = frames[k]
    BY <1>1, <2>2
  <2> QED BY <2>3, <2>4 DEF F
<1>4. depth = 0
  BY <1>1 DEF IInv, Depth
<1> HIDE DEF n
<1>5. CASE n > 1
  <2>1. blk' = blk /\ stage' = "search"
    BY <1>1, <1>5 DEF GiveUp, n
  <2>2. TypeOK'
    BY <1>1, <1>3, <2>1 DEF IInv, TypeOK
  <2>3. Path'
    <3>1. Len(frames') <= NMoves + 1 /\ frames' # <<>> /\ frames'[1].at = mz.start
      <4>1. frames[1].at = mz.start
        BY <1>2 DEF IInv, Path
      <4> QED BY <1>2, <1>3, <1>5, <4>1, SolverMoves
    <3>2. \A k \in 1 .. n - 1 : frames'[k].at \in Roads(mz)
      BY <1>2, <1>3 DEF IInv, Path, n
    <3>3. \A k \in 1 .. n - 2 : dirs[k - 1] \in Dirs /\ frames'[k + 1].at = At(frames'[k].at, dirs[k - 1])
      <4> TAKE k \in 1 .. n - 2
      <4>1. k \in 1 .. n - 1 /\ k + 1 \in 1 .. n - 1
        BY <1>2
      <4>2. dirs[k - 1] \in Dirs /\ frames[k + 1].at = At(frames[k].at, dirs[k - 1])
        BY <4>1 DEF IInv, Path, n
      <4> QED BY <1>3, <4>1, <4>2
    <3>4. (n - 1) - 1 = n - 2
      BY <1>2
    <3> QED BY <1>1, <1>3, <2>1, <3>1, <3>2, <3>3, <3>4 DEF Path, Early
  <2>4. Marks'
    BY <1>1, <2>1 DEF IInv, Marks
  <2>5. Visited'
    <3>1. /\ blk[mz.end] # 2
          /\ \A k \in 1 .. n - 1 : frames[k].at # mz.end /\ blk[frames[k].at] = 2
          /\ \A j, k \in 1 .. n - 1 : j # k => frames[j].at # frames[k].at
      BY <1>1, <1>2 DEF IInv, Visited, n
    <3>2. \A k \in 1 .. n - 2 : k \in 1 .. n - 1
      BY <1>2
    <3>3. (n - 1) - 1 = n - 2
      BY <1>2
    <3> QED BY <1>1, <1>3, <2>1, <3>1, <3>2, <3>3 DEF Visited
  <2>6. Explored'
    <3>1. \A d \in Dirs : Seen(frames[n].at, d)
      BY <1>1, <1>2, AllSeen
    <3>2. /\ \A k \in 1 .. n, d \in Dirs : d < frames[k].from => Seen(frames[k].at, d)
          /\ \A c \in Cells(mz) : blk[c] = 2 =>
                \/ \E k \in 1 .. n : frames[k].at = c
                \/ \A d \in Dirs : Seen(c, d)
      BY <1>1 DEF IInv, Explored, n
    <3>3. \A k \in 1 .. n : k \in 1 .. n - 1 \/ k = n
      BY <1>2
    <3>4. \A k \in 1 .. n - 1 : k \in 1 .. n
      BY <1>2
    <3>5. \A c \in Cells(mz) : blk[c] = 2 =>
              \/ \E k \in 1 .. n - 1 : frames'[k].at = c
              \/ \A d \in Dirs : Seen(c, d)
      BY <1>3, <3>1, <3>2, <3>3
    <3>6. \A k \in 1 .. n - 1, d \in Dirs : d < frames'[k].from => Seen(frames'[k].at, d)
      BY <1>3, <3>2, <3>4
    <3> QED BY <1>1, <1>3, <2>1, <3>5, <3>6 DEF Explored, Seen
  <2>7. Reached'
    <3> SUFFICES ASSUME NEW S \in SUBSET Roads(mz), Closed(S)
                 PROVE  \A k \in 1 .. n - 1 : frames'[k].at \in S
      BY <1>1, <1>3 DEF Reached, Closed
    <3>1. \A k \in 1 .. n : frames[k].at \in S
      BY <1>1 DEF IInv, Reached, n
    <3> QED BY <1>2, <1>3, <3>1
  <2>8. Depth' /\ SearchComplete' /\ OverflowNeedsCells'
    BY <1>1, <1>4, <2>1 DEF Depth, SearchComplete, OverflowNeedsCells, Early, Late
  <2>9. Entries' /\ Replay'
    BY <1>1, <2>1 DEF IInv, Entries, Replay, Early
  <2> QED BY <2>2, <2>3, <2>4, <2>5, <2>6, <2>7, <2>8, <2>9 DEF IInv
<1>6. CASE ~ (n > 1)
  <2>1. n = 1 /\ blk' = Unmark /\ stage' = "check" /\ Len(frames') = 0 /\ frames' = <<>>
    BY <1>1, <1>2, <1>3, <1>6 DEF GiveUp, n
  <2>2. /\ blk' \in [Cells(mz) -> {0, 1, 2}]
        /\ \A c \in Cells(mz) : (blk'[c] = 1 <=> c \in mz.walls) /\ blk'[c] # 2
    BY <2>1, UnmarkIs DEF IInv
  <2>3. TypeOK'
    BY <1>1, <1>3, <2>1, <2>2 DEF IInv, TypeOK
  <2>4. Path'
    BY <1>1, <2>1, SolverMoves DEF Path, Early
  <2>5. Marks'
    BY <1>1, <2>1, <2>2 DEF Marks
  <2>6. ~ Reachable
    BY <1>1, <2>1, NoWay DEF n
  <2>7. SearchComplete'
    <3>1. ~ Reachable'
      BY <1>1, <2>6 DEF Reachable
    <3>2. ~ (depth' > 0)
      BY <1>1, <1>4
    <3> QED BY <3>1, <3>2, Zenon DEF SearchComplete
  <2>8. Visited' /\ Explored' /\ Reached' /\ Depth' /\ OverflowNeedsCells'
    BY <1>1, <1>4, <2>1 DEF Visited, Explored, Reached, Depth, OverflowNeedsCells, Early, Late
  <2>9. Entries' /\ Replay'
    BY <1>1, <2>1 DEF IInv, Entries, Replay, Early
  <2> QED BY <2>3, <2>4, <2>5, <2>7, <2>8, <2>9 DEF IInv
<1> QED BY <1>5, <1>6

(* dfs arrives.                                                               *)
LEMMA SolveKeeps == IInv /\ Solve => IInv'
<1> SUFFICES ASSUME IInv, Solve PROVE IInv'
  OBVIOUS
<1> DEFINE n == Len(frames)
<1>1. /\ stage = "search" /\ Top.at = mz.end /\ depth' = n - 1 /\ blk' = Unmark /\ stage' = "check"
      /\ UNCHANGED <<mz, cur, link, got, gotAt, frames, dirs, call>>
  BY DEF Solve
<1>2. /\ mz \in Mazes /\ n \in Nat \ {0} /\ n <= NMoves + 1 /\ Top = frames[n]
      /\ Top.at \in Roads(mz)
  BY <1>1, TopFacts
<1>3. /\ blk' \in [Cells(mz) -> {0, 1, 2}]
      /\ \A c \in Cells(mz) : (blk'[c] = 1 <=> c \in mz.walls) /\ blk'[c] # 2
  BY <1>1, UnmarkIs DEF IInv
<1>4. frames[1].at = mz.start /\ \A k \in 1 .. n - 1 : frames[k].at # mz.end
  BY <1>1, <1>2 DEF IInv, Path, Visited
<1>5. Reachable
  BY <1>1, <1>2 DEF IInv, Reached, Closed, Reachable
<1> HIDE DEF n
<1>6. TypeOK'
  BY <1>1, <1>2, <1>3, SolverMoves DEF IInv, TypeOK
<1>7. Path'
  BY <1>1 DEF IInv, Path, Early
<1>8. Marks'
  BY <1>1, <1>3 DEF Marks
<1>9. SearchComplete'
  <2>1. Reachable'
    BY <1>1, <1>5 DEF Reachable
  <2>2. mz.end \in Roads(mz)
    BY <1>1, <1>2
  <2>3. CASE n = 1
    <3>1. mz.start = mz.end /\ depth' = 0
      BY <1>1, <1>2, <1>4, <2>3
    <3> QED BY <1>1, <3>1 DEF SearchComplete
  <2>4. CASE n > 1
    <3>1. mz.start # mz.end /\ depth' > 0
      BY <1>1, <1>2, <1>4, <2>4
    <3> QED BY <1>1, <2>1, <2>2, <3>1 DEF SearchComplete
  <2> QED BY <1>2, <2>3, <2>4
<1>10. Depth'
  <2>1. n = depth' + 1 /\ frames'[depth' + 1].at = mz.end /\ Len(frames') = n
    BY <1>1, <1>2 DEF n
  <2> QED BY <1>1, <2>1 DEF Depth, Early
<1>11. Visited' /\ Explored' /\ Reached' /\ OverflowNeedsCells'
  BY <1>1 DEF Visited, Explored, Reached, OverflowNeedsCells
<1>12. Entries' /\ Replay'
  BY <1>1 DEF IInv, Entries, Replay, Early
<1> QED BY <1>6, <1>7, <1>8, <1>9, <1>10, <1>11, <1>12 DEF IInv

(* The move of depth k goes into the entry of move_(k + 1), and no other.     *)
LEMMA PatchedIs ==
  ASSUME IInv, stage = "check", NEW s \in DOMAIN link,
         \A k \in 0 .. PatchCount - 1 : gotAt[k + 1] # NoEntry
  PROVE  \A n \in 1 .. depth : link[s] = n => Patched(s) = {n - 1}
<1> TAKE n \in 1 .. depth
<1> HAVE link[s] = n
<1>1. depth \in 0 .. NMoves /\ link \in Links
  BY DEF IInv, TypeOK
<1>2. n \in 1 .. NMoves
  BY <1>1, SolverMoves
<1>3. \A k \in 0 .. depth - 1 : k + 1 \in 1 .. NMoves /\ gotAt[k + 1] \in DOMAIN link
                                /\ link[gotAt[k + 1]] = k + 1
  <2> TAKE k \in 0 .. depth - 1
  <2>1. k + 1 \in 1 .. NMoves
    BY <1>1, SolverMoves
  <2>2. gotAt[k + 1] # NoEntry
    BY DEF PatchCount
  <2> QED BY <2>1, <2>2 DEF IInv, TypeOK, Entries
<1>4. gotAt[n] = s
  <2>1. n - 1 \in 0 .. depth - 1 /\ (n - 1) + 1 = n
    BY <1>1, SolverMoves
  <2>2. gotAt[n] \in DOMAIN link /\ link[gotAt[n]] = n
    BY <1>3, <2>1
  <2>3. PICK t \in DOMAIN link : {u \in DOMAIN link : link[u] = n} = {t}
    BY <1>1, <1>2, OneEntry
  <2> QED BY <2>2, <2>3
<1>5. \A k \in 0 .. depth - 1 : gotAt[k + 1] = s <=> k = n - 1
  <2> TAKE k \in 0 .. depth - 1
  <2>1. CASE gotAt[k + 1] = s
    <3>1. k + 1 = n
      BY <1>3, <2>1
    <3> QED BY <1>1, <2>1, <3>1
  <2>2. CASE k = n - 1
    <3>1. k + 1 = n
      BY <1>2, <2>2
    <3> QED BY <1>4, <2>2, <3>1
  <2> QED BY <2>1, <2>2
<1>6. n - 1 \in 0 .. depth - 1
  BY <1>1
<1> QED BY <1>5, <1>6 DEF Patched, PatchCount

LEMMA PatchedOne ==
  ASSUME IInv, stage = "check", NEW s \in DOMAIN link,
         \A k \in 0 .. PatchCount - 1 : gotAt[k + 1] # NoEntry
  PROVE  Patched(s) # {} => \E n \in 1 .. depth : link[s] = n
<1> HAVE Patched(s) # {}
<1>1. depth \in 0 .. NMoves
  BY DEF IInv, TypeOK
<1>2. PICK k \in 0 .. depth - 1 : gotAt[k + 1] = s
  BY DEF Patched, PatchCount
<1>3. k + 1 \in 1 .. NMoves /\ k + 1 \in 1 .. depth
  BY <1>1, SolverMoves
<1>4. gotAt[k + 1] # NoEntry
  BY DEF PatchCount
<1>5. link[gotAt[k + 1]] = k + 1
  BY <1>3, <1>4 DEF IInv, Entries
<1> QED BY <1>2, <1>3, <1>5

LEMMA CheckPathKeeps == IInv /\ CheckPath => IInv'
<1> SUFFICES ASSUME IInv, CheckPath PROVE IInv'
  OBVIOUS
<1>1. /\ stage = "check" /\ stage' \in {"moves", "failed"}
      /\ UNCHANGED <<mz, blk, cur, link, gotAt, frames, dirs, depth, call>>
  BY DEF CheckPath
<1>2. /\ link \in Links /\ got = link /\ DOMAIN got = 1 .. Len(link) /\ Len(link) \in Nat
      /\ got \in Seq(Fns) /\ depth \in 0 .. NMoves
  BY <1>1, LinkTypes DEF IInv, TypeOK, Entries, Early
<1>3. \A k \in 0 .. depth - 1 : dirs[k] \in Dirs /\ StepFn(dirs[k]) \in Fns
  <2> TAKE k \in 0 .. depth - 1
  <2>1. depth > 0 /\ Len(frames) = depth + 1
    BY <1>1, <1>2, SolverMoves DEF IInv, Depth, Late
  <2>2. k + 1 \in 1 .. Len(frames) - 1 /\ (k + 1) - 1 = k
    BY <1>2, <2>1, SolverMoves
  <2>3. dirs[k] \in Dirs
    BY <2>2 DEF IInv, Path
  <2> QED BY <2>3, SolverMoves DEF StepFn, Fns, Dirs
<1>4. CASE stage' = "moves"
  <2>1. /\ \A k \in 0 .. PatchCount - 1 : gotAt[k + 1] # NoEntry
        /\ got' = [s \in DOMAIN got |-> IF Patched(s) = {} THEN got[s]
                                       ELSE StepFn(dirs[Max(Patched(s))])]
    BY <1>4 DEF CheckPath
  <2>2. \A n \in 1 .. depth : \A s \in DOMAIN link : link[s] = n => got'[s] = StepFn(dirs[n - 1])
    <3> TAKE n \in 1 .. depth
    <3> TAKE s \in DOMAIN link
    <3> HAVE link[s] = n
    <3>1. Patched(s) = {n - 1}
      BY <1>1, <2>1, PatchedIs
    <3>2. n - 1 \in Int
      OBVIOUS
    <3>3. Max(Patched(s)) = n - 1 /\ Patched(s) # {}
      BY <3>1, <3>2, MaxOfOne
    <3>4. s \in DOMAIN got
      BY <1>2
    <3> QED BY <2>1, <3>3, <3>4
  <2>3. \A s \in DOMAIN got : got'[s] \in Fns
    <3> TAKE s \in DOMAIN got
    <3>1. CASE Patched(s) = {}
      BY <1>2, <2>1, <3>1
    <3>2. CASE Patched(s) # {}
      <4>1. PICK n \in 1 .. depth : link[s] = n
        BY <1>1, <1>2, <2>1, <3>2, PatchedOne
      <4>2. n - 1 \in 0 .. depth - 1 /\ got'[s] = StepFn(dirs[n - 1])
        BY <1>2, <2>2, <4>1, SolverMoves
      <4> QED BY <1>3, <4>2
    <3> QED BY <3>1, <3>2
  <2>4. got' \in Seq(Fns) /\ DOMAIN got' = DOMAIN link
    <3>1. got' = [s \in 1 .. Len(link) |-> got'[s]]
      BY <1>2, <2>1
    <3>2. \A s \in 1 .. Len(link) : got'[s] \in Fns
      BY <1>2, <2>3
    <3> QED BY <1>2, <3>1, <3>2
  <2>5. TypeOK'
    BY <1>1, <1>2, <1>4, <2>4 DEF IInv, TypeOK
  <2>6. Path' /\ Marks' /\ Visited' /\ Explored' /\ Reached'
    BY <1>1, <1>4, SearchFrame DEF Early
  <2>7. Depth' /\ SearchComplete' /\ OverflowNeedsCells'
    BY <1>1, <1>4, OutcomeFrame DEF Early, Late
  <2>8. Entries'
    BY <1>1, <1>4, <2>2 DEF IInv, Entries, Early
  <2>9. Replay'
    <3>1. call = 0 /\ cur = mz.start /\ cur \in Roads(mz)
      BY <1>1 DEF IInv, Replay
    <3>2. depth > 0 => frames[1].at = mz.start
      <4> HAVE depth > 0
      <4>1. Len(frames) = depth + 1
        BY <1>1 DEF IInv, Depth, Late
      <4>2. frames # <<>>
        BY <1>2, <4>1, SolverMoves
      <4> QED BY <4>2 DEF IInv, Path
    <3> QED BY <1>1, <1>2, <1>4, <3>1, <3>2, SolverMoves DEF Replay, Early
  <2> QED BY <2>5, <2>6, <2>7, <2>8, <2>9 DEF IInv
<1>5. CASE stage' = "failed"
  <2>1. got' = got
    BY <1>5 DEF CheckPath
  <2>2. TypeOK'
    BY <1>1, <1>5, <2>1 DEF IInv, TypeOK, Ended
  <2>3. Path' /\ Marks' /\ Visited' /\ Explored' /\ Reached'
    BY <1>1, <1>5, SearchFrame DEF Early
  <2>4. Depth' /\ SearchComplete' /\ OverflowNeedsCells'
    BY <1>1, <1>5, OutcomeFrame DEF Early, Late
  <2>5. Entries' /\ Replay'
    BY <1>1, <1>5, <2>1 DEF IInv, Entries, Replay, Early
  <2> QED BY <2>2, <2>3, <2>4, <2>5 DEF IInv
<1> QED BY <1>1, <1>4, <1>5

(* The call after the n-th takes the step of depth n, while there is one.     *)
LEMMA MoveFollows ==
  ASSUME IInv, Move, depth > 0
  PROVE  /\ call < depth /\ call + 2 \in 1 .. Len(frames)
         /\ cur' = frames[call + 2].at /\ cur' # cur
<1>1. /\ stage = "moves" /\ mz \in Mazes /\ call \in 0 .. NMoves /\ depth \in 0 .. NMoves
      /\ link \in Links
  BY DEF Move, IInv, TypeOK
<1>2. call < depth /\ cur = frames[call + 1].at /\ cur \in Roads(mz)
  BY <1>1 DEF IInv, Replay
<1>3. Len(frames) = depth + 1
  BY <1>1 DEF IInv, Depth, Late
<1>4. /\ call + 1 \in 1 .. Len(frames) - 1 /\ (call + 1) - 1 = call /\ (call + 1) + 1 = call + 2
      /\ call + 2 \in 1 .. Len(frames) /\ call + 1 \in 1 .. depth /\ call + 1 \in 1 .. NMoves
  BY <1>1, <1>2, <1>3, SolverMoves
<1>5. dirs[call] \in Dirs /\ frames[call + 2].at = At(cur, dirs[call])
  BY <1>2, <1>4 DEF IInv, Path
<1>6. Called(call + 1) = StepFn(dirs[call])
  <2>1. \E s \in DOMAIN link : link[s] = call + 1
    BY <1>1, <1>4, OneEntry
  <2> DEFINE s == CHOOSE t \in DOMAIN link : link[t] = call + 1
  <2>2. s \in DOMAIN link /\ link[s] = call + 1
    BY <2>1
  <2> HIDE DEF s
  <2>3. got[s] = StepFn(dirs[call])
    BY <1>1, <1>4, <2>2 DEF IInv, Entries
  <2> QED BY <2>3 DEF Called, s
<1>7. PICK d \in Dirs : /\ Called(call + 1) < 0 => Called(call + 1) = StepFn(d)
                        /\ cur' = MoveDir(d)
  BY DEF Move
<1>8. d = dirs[call]
  BY <1>5, <1>6, <1>7 DEF StepFn, Dirs
<1>9. frames[call + 2].at \in Roads(mz)
  BY <1>4 DEF IInv, Path
<1>10. blk[frames[call + 2].at] = 0
  <2>1. frames[call + 2].at \in Cells(mz) /\ frames[call + 2].at \notin mz.walls
    BY <1>9 DEF Roads
  <2> QED BY <1>1, <2>1 DEF IInv, TypeOK, Marks
<1>11. cur' = frames[call + 2].at
  BY <1>5, <1>7, <1>8, <1>10 DEF MoveDir
<1>12. At(cur, dirs[call]) # cur
  BY <1>1, <1>2, <1>5, NextToRoad
<1> QED BY <1>2, <1>4, <1>5, <1>11, <1>12

LEMMA MoveKeeps == IInv /\ Move => IInv'
<1> SUFFICES ASSUME IInv, Move PROVE IInv'
  OBVIOUS
<1>1. /\ stage = "moves" /\ call < NMoves /\ call' = call + 1
      /\ stage' = (IF cur' # cur /\ cur' = mz.end THEN "Bingo" ELSE stage)
      /\ UNCHANGED <<mz, blk, link, got, gotAt, frames, dirs, depth>>
  BY DEF Move, NextCall
<1>2. mz \in Mazes /\ cur \in Roads(mz) /\ call \in 0 .. NMoves /\ depth \in 0 .. NMoves
  BY DEF IInv, TypeOK, Replay
<1>3. cur' \in Roads(mz) /\ cur' \in Cells(mz)
  <2>1. PICK d \in Dirs : cur' = MoveDir(d)
    BY DEF Move
  <2>2. CASE blk[At(cur, d)] # 0
    BY <1>2, <2>1, <2>2 DEF MoveDir, Roads
  <2>3. CASE blk[At(cur, d)] = 0
    <3>1. At(cur, d) \in Cells(mz)
      BY <1>2, NextToRoad
    <3>2. At(cur, d) \notin mz.walls
      BY <2>3, <3>1 DEF IInv, Marks
    <3> QED BY <2>1, <2>3, <3>1, <3>2 DEF MoveDir, Roads
  <2> QED BY <2>2, <2>3
<1>4. call' \in 0 .. NMoves
  BY <1>1, <1>2, SolverMoves
<1>5. TypeOK'
  BY <1>1, <1>3, <1>4 DEF IInv, TypeOK, Ended
<1>6. Path' /\ Marks' /\ Visited' /\ Explored' /\ Reached'
  BY <1>1, SearchFrame DEF Early
<1>7. Depth' /\ SearchComplete' /\ OverflowNeedsCells'
  BY <1>1, OutcomeFrame DEF Early, Late
<1>8. Entries'
  BY <1>1 DEF IInv, Entries, Early
<1>9. Replay'
  <2>1. CASE depth > 0
    <3>1. call < depth /\ cur' = frames[call + 2].at /\ cur' # cur
      BY <2>1, MoveFollows
    <3>2. call' <= depth /\ cur' = frames[call' + 1].at
      <4>1. call' + 1 = call + 2 /\ call' <= depth
        BY <1>1, <1>2, <3>1, SolverMoves
      <4> QED BY <3>1, <4>1
    <3>3. stage' = "moves" => call' < depth
      <4> SUFFICES ASSUME call' = depth PROVE stage' = "Bingo"
        BY <1>1, <1>2, <3>2, SolverMoves
      <4>1. frames[depth + 1].at = mz.end
        BY <1>1, <2>1 DEF IInv, Depth, Late
      <4> QED BY <1>1, <3>1, <3>2, <4>1
    <3> QED BY <1>1, <1>3, <3>2, <3>3 DEF Replay, Early
  <2>2. CASE ~ (depth > 0)
    BY <1>1, <1>3, <2>2 DEF Replay, Early
  <2> QED BY <2>1, <2>2
<1> QED BY <1>5, <1>6, <1>7, <1>8, <1>9 DEF IInv

LEMMA NoNoNoKeeps == IInv /\ NoNoNo => IInv'
<1> SUFFICES ASSUME IInv, NoNoNo PROVE IInv'
  OBVIOUS
<1>1. /\ stage = "moves" /\ call = NMoves /\ stage' = "No no no"
      /\ UNCHANGED <<mz, blk, cur, link, got, gotAt, frames, dirs, depth, call>>
  BY DEF NoNoNo
<1>2. TypeOK'
  BY <1>1 DEF IInv, TypeOK, Ended
<1>3. Path' /\ Marks' /\ Visited' /\ Explored' /\ Reached'
  BY <1>1, SearchFrame DEF Early
<1>4. Depth' /\ SearchComplete' /\ OverflowNeedsCells'
  BY <1>1, OutcomeFrame DEF Early, Late
<1>5. Entries'
  BY <1>1 DEF IInv, Entries, Early
<1>6. depth = 0
  <2>1. depth \in 0 .. NMoves
    BY DEF IInv, TypeOK
  <2>2. depth > 0 => call < depth
    BY <1>1 DEF IInv, Replay
  <2>3. NMoves \in Nat /\ ~ (NMoves < depth)
    BY <2>1, SolverMoves
  <2>4. call = NMoves
    BY <1>1
  <2>5. ~ (depth > 0)
    BY <2>2, <2>3, <2>4
  <2> QED BY <2>1, <2>5
<1>7. Replay'
  BY <1>1, <1>6 DEF IInv, Replay, Early
<1> QED BY <1>2, <1>3, <1>4, <1>5, <1>7 DEF IInv

(* The invariant.                                                             *)
LEMMA Kept == IInv /\ [Next]_vars => IInv'
<1> SUFFICES ASSUME IInv, [Next]_vars PROVE IInv'
  OBVIOUS
<1>1. CASE InitFails
  BY <1>1, FailKeeps DEF InitFails, Early
<1>2. CASE LoadFails
  BY <1>2, FailKeeps DEF LoadFails, Early
<1>3. CASE ReadElf
  BY <1>3, ReadElfKeeps
<1>4. CASE Load
  BY <1>4, LoadKeeps
<1>5. CASE Try
  BY <1>5, TryKeeps, TryFaults
<1>6. CASE GiveUp
  BY <1>6, GiveUpKeeps
<1>7. CASE Solve
  BY <1>7, SolveKeeps
<1>8. CASE CheckPath
  BY <1>8, CheckPathKeeps
<1>9. CASE Move
  BY <1>9, MoveKeeps
<1>10. CASE NoNoNo
  BY <1>10, NoNoNoKeeps
<1>11. CASE UNCHANGED vars
  <2>1. UNCHANGED <<mz, blk, cur, link, got, gotAt, frames, dirs, depth, call, stage>>
    BY <1>11 DEF vars
  <2>2. TypeOK'
    BY <2>1 DEF IInv, TypeOK
  <2>3. Path' /\ Marks' /\ Visited' /\ Explored' /\ Reached'
    BY <2>1, SearchFrame
  <2>4. Depth' /\ SearchComplete'
    BY <2>1 DEF IInv, Depth, SearchComplete, Reachable
  <2>5. OverflowNeedsCells' /\ Entries' /\ Replay'
    BY <2>1 DEF IInv, OverflowNeedsCells, Entries, Replay
  <2> QED BY <2>2, <2>3, <2>4, <2>5 DEF IInv
<1> QED BY <1>1, <1>2, <1>3, <1>4, <1>5, <1>6, <1>7, <1>8, <1>9, <1>10, <1>11 DEF Next

LEMMA Invariant == Spec => []IInv
  BY Initially, Kept, PTL DEF Spec
-----------------------------------------------------------------------------
(* The variables of the solver and of the program keep their types: blk stays *)
(* a map of the cells, every index into move_directions that is used is in    *)
(* it, and the GOT keeps its entries.                                         *)
THEOREM SolverTypes == Spec => []TypeOK
<1>1. IInv => TypeOK
  BY DEF IInv
<1> QED BY <1>1, Invariant, PTL

(* Entries of move_directions left over from branches given up never show:    *)
(* up to the depth of the running call they lead from the start to its cell.  *)
THEOREM DirsLead == Spec => []DirsFollowFrames
<1>1. IInv => DirsFollowFrames
  <2> SUFFICES ASSUME IInv, frames # <<>>, NEW k \in 1 .. Len(frames) - 1
               PROVE  /\ frames[k + 1].at = At(frames[k].at, dirs[k - 1])
                      /\ frames[k + 1].at \in Roads(mz)
    BY DEF DirsFollowFrames, IInv, Path
  <2>1. Len(frames) \in Nat
    BY DEF IInv, TypeOK
  <2>2. k + 1 \in 1 .. Len(frames)
    BY <2>1
  <2> QED BY <2>2 DEF IInv, Path
<1> QED BY <1>1, Invariant, PTL

(* dfs and maze_load: max_depth is positive exactly when the end is another   *)
(* road that the start is connected with, in every maze walled in.            *)
THEOREM SearchFindsAll == Spec => []SearchComplete
<1>1. IInv => SearchComplete
  BY DEF IInv
<1> QED BY <1>1, Invariant, PTL

(* The loop after dfs in maze_load takes back every mark: what move_dir later *)
(* tests is the maze of the file.                                             *)
THEOREM MarksGone == Spec => []MazeRestored
<1>1. IInv => MazeRestored
  <2> SUFFICES ASSUME IInv, stage \in Late PROVE \A c \in Cells(mz) : blk[c] = IF c \in mz.walls THEN 1 ELSE 0
    BY DEF MazeRestored, Late
  <2> TAKE c \in Cells(mz)
  <2>1. blk[c] \in {0, 1, 2} /\ blk[c] # 2 /\ (blk[c] = 1 <=> c \in mz.walls)
    BY DEF IInv, TypeOK, Marks, Late
  <2> QED BY <2>1
<1> QED BY <1>1, Invariant, PTL

(* check_path and move_1 .. move_1200: the patched calls walk the path that   *)
(* dfs found, step by step to the end, wherever the linker put the entries.   *)
THEOREM ReplayFollowsPath == Spec => []ReplayFollows
<1>1. IInv => ReplayFollows
  BY DEF IInv, Replay, ReplayFollows
<1> QED BY <1>1, Invariant, PTL

(* move_directions (1200 entries, index not tested) is only left by a branch  *)
(* in a maze with more roads than that and one.                               *)
THEOREM OverflowIsRare == Spec => []OverflowNeedsCells
<1>1. IInv => OverflowNeedsCells
  BY DEF IInv
<1> QED BY <1>1, Invariant, PTL

-----------------------------------------------------------------------------
(* Every step brings the end nearer.                                          *)
Phase == CASE stage = "init" -> 5 [] stage = "load" -> 4 [] stage = "search" -> 3
           [] stage = "check" -> 2 [] stage = "moves" -> 1 [] OTHER -> 0

(* What is left to do within the phase: the roads dfs may still enter, each    *)
(* to be entered and left, and the calls to be left; the calls of move_n.     *)
Blank == {c \in Cells(mz) : blk[c] = 0}
Work == IF stage = "moves" THEN NMoves - call
        ELSE IF stage = "search" /\ Top.at # mz.end
             THEN 2 * Cardinality(Blank) + Len(frames)
             ELSE 0
CountsDown == Phase' < Phase \/ (Phase' = Phase /\ Work' < Work)

LEMMA Phases ==
    /\ stage = "init" => Phase = 5
    /\ stage = "load" => Phase = 4
    /\ stage = "search" => Phase = 3
    /\ stage = "check" => Phase = 2
    /\ stage = "moves" => Phase = 1
    /\ stage = "failed" => Phase = 0
    /\ stage = "fault" => Phase = 0
    /\ stage = "Bingo" => Phase = 0
    /\ stage' = "init" => Phase' = 5
    /\ stage' = "load" => Phase' = 4
    /\ stage' = "search" => Phase' = 3
    /\ stage' = "check" => Phase' = 2
    /\ stage' = "moves" => Phase' = 1
    /\ stage' = "failed" => Phase' = 0
    /\ stage' = "fault" => Phase' = 0
    /\ stage' = "Bingo" => Phase' = 0
BY DEF Phase

LEMMA LastPhase == NoNoNo => Phase = 1 /\ Phase' = 0
BY DEF NoNoNo, Phase

LEMMA BlankFinite ==
    ASSUME IInv PROVE IsFiniteSet(Blank) /\ Cardinality(Blank) \in Nat
<1>1. mz \in Mazes /\ blk \in [Cells(mz) -> {0, 1, 2}]
  BY DEF IInv, TypeOK
<1>2. Blank \in SUBSET Roads(mz)
  BY <1>1 DEF IInv, Marks, Blank, Roads
<1> QED BY <1>1, <1>2, FiniteRoads, FS_Subset, FS_CardinalityType

LEMMA TryCounts == IInv /\ Try => CountsDown
<1> SUFFICES ASSUME IInv, Try PROVE CountsDown
  OBVIOUS
<1>1. stage = "search" /\ Top.at # mz.end
  BY DEF Try, Searching
<1>2. CASE stage' = "fault"
  BY <1>1, <1>2, Phases DEF CountsDown
<1>3. CASE stage' # "fault"
  <2>1. PICK d \in Dirs, c \in Roads(mz) :
           /\ stage' = "search" /\ blk[c] # 2 /\ blk' = Mark(c) /\ mz' = mz
           /\ frames' = Append([frames EXCEPT ![Len(frames)].from = d + 1], [at |-> c, from |-> 0])
    BY <1>3, TryTakes
  <2>2. /\ mz \in Mazes /\ Len(frames) \in Nat \ {0}
        /\ frames \in Seq([at : Cells(mz), from : 0 .. 4])
        /\ blk \in [Cells(mz) -> {0, 1, 2}] /\ c \in Cells(mz) /\ blk[c] = 0
    BY <1>1, <2>1, TopFacts DEF IInv, TypeOK, Marks, Roads
  <2>3. Len(frames') = Len(frames) + 1 /\ Top'.at = c
    <3>1. frames # <<>>
      BY <1>1, TopFacts
    <3>2. Len(frames') = Len(frames) + 1 /\ frames'[Len(frames) + 1] = [at |-> c, from |-> 0]
      BY <2>1, <2>2, <3>1, PathGrows
    <3> QED BY <3>2 DEF Top
  <2>4. CASE c = mz.end
    <3>1. Work' = 0
      BY <2>1, <2>3, <2>4 DEF Work
    <3>2. Work > 0
      BY <1>1, <2>2, BlankFinite DEF Work
    <3> QED BY <1>1, <2>1, <3>1, <3>2, Phases DEF CountsDown
  <2>5. CASE c # mz.end
    <3>1. blk' = [blk EXCEPT ![c] = 2]
      BY <2>1, <2>5 DEF Mark
    <3>2. c \in Blank /\ Blank' = Blank \ {c}
      BY <2>1, <2>2, <3>1 DEF Blank
    <3>3. Cardinality(Blank') = Cardinality(Blank) - 1
      BY <3>2, BlankFinite, FS_RemoveElement
    <3>4. Work = 2 * Cardinality(Blank) + Len(frames)
      BY <1>1 DEF Work
    <3>5. Work' = 2 * Cardinality(Blank') + Len(frames')
      BY <2>1, <2>3, <2>5 DEF Work
    <3>6. Work' < Work
      BY <3>3, <3>4, <3>5, <2>2, <2>3, BlankFinite
    <3> QED BY <1>1, <2>1, <3>6, Phases DEF CountsDown
  <2> QED BY <2>4, <2>5
<1> QED BY <1>2, <1>3

LEMMA GiveUpCounts == IInv /\ GiveUp => CountsDown
<1> SUFFICES ASSUME IInv, GiveUp PROVE CountsDown
  OBVIOUS
<1> DEFINE n == Len(frames)
<1>1. stage = "search" /\ Top.at # mz.end /\ mz' = mz /\ frames' = SubSeq(frames, 1, n - 1)
  BY DEF GiveUp, Searching
<1>2. mz \in Mazes /\ n \in Nat \ {0} /\ frames \in Seq([at : Cells(mz), from : 0 .. 4])
      /\ frames # <<>>
  BY <1>1, TopFacts
<1>3. CASE n > 1
  <2>1. blk' = blk /\ stage' = stage
    BY <1>2, <1>3 DEF GiveUp
  <2>2. Len(frames') = n - 1 /\ frames'[n - 1] = frames[n - 1]
    <3> DEFINE F == [at : Cells(mz), from : 0 .. 4]
    <3>1. frames \in Seq(F) /\ frames # <<>>
      BY <1>2
    <3> HIDE DEF F
    <3>2. Len(SubSeq(frames, 1, n - 1)) = n - 1
          /\ \A k \in 1 .. n - 1 : SubSeq(frames, 1, n - 1)[k] = frames[k]
      BY <3>1, PathShrinks
    <3>3. n - 1 \in 1 .. n - 1
      BY <1>2, <1>3
    <3> QED BY <1>1, <3>2, <3>3
  <2>3. frames[n - 1].at # mz.end
    BY <1>1, <1>2, <1>3 DEF IInv, Visited
  <2>4. Top'.at # mz'.end
    BY <1>1, <2>2, <2>3 DEF Top
  <2>5. Blank' = Blank
    BY <1>1, <2>1 DEF Blank
  <2>6. Work = 2 * Cardinality(Blank) + n
    BY <1>1 DEF Work
  <2>7. Work' = 2 * Cardinality(Blank) + (n - 1)
    BY <1>1, <2>1, <2>2, <2>4, <2>5 DEF Work
  <2>8. Work' < Work
    BY <2>6, <2>7, <1>2, BlankFinite
  <2> QED BY <2>1, <2>8, <1>1, Phases DEF CountsDown
<1>4. CASE n = 1
  <2>1. stage' = "check"
    BY <1>2, <1>4 DEF GiveUp
  <2> QED BY <1>1, <2>1, Phases DEF CountsDown
<1>5. n = 1 \/ n > 1
  <2>1. n \in Nat \ {0}
    BY <1>2
  <2> HIDE DEF n
  <2> QED BY <2>1
<1> QED BY <1>3, <1>4, <1>5

LEMMA StepCounts == IInv /\ Next => CountsDown
<1> SUFFICES ASSUME IInv, Next PROVE CountsDown
  OBVIOUS
<1>1. CASE InitFails \/ LoadFails \/ ReadElf \/ Load
  BY <1>1, Phases DEF InitFails, LoadFails, Fail, ReadElf, Load, CountsDown
<1>2. CASE Solve
  BY <1>2, Phases DEF Solve, CountsDown
<1>4. CASE CheckPath
  <2>1. stage = "check" /\ stage' \in {"moves", "failed"}
    BY <1>4 DEF CheckPath
  <2> QED BY <2>1, Phases DEF CountsDown
<1>5. CASE NoNoNo
  <2>1. Phase = 1 /\ Phase' = 0
    BY <1>5, LastPhase
  <2> QED BY <2>1 DEF CountsDown
<1>3. CASE Move
  <2>1. stage = "moves" /\ call < NMoves /\ call' = call + 1 /\ stage' \in {"moves", "Bingo"}
        /\ call \in Nat
    BY <1>3, SolverMoves DEF Move, NextCall, IInv, TypeOK
  <2>2. CASE stage' = "Bingo"
    BY <2>1, <2>2, Phases DEF CountsDown
  <2>3. CASE stage' = "moves"
    <3>1. Work = NMoves - call /\ Work' = NMoves - (call + 1)
      BY <2>1, <2>3 DEF Work
    <3> QED BY <2>1, <2>3, <3>1, SolverMoves, Phases DEF CountsDown
  <2> QED BY <2>1, <2>2, <2>3
<1> QED BY <1>1, <1>2, <1>3, <1>4, <1>5, TryCounts, GiveUpCounts DEF Next

LEMMA WorkIsLeft == IInv => Work \in Nat
<1> SUFFICES ASSUME IInv PROVE Work \in Nat
  OBVIOUS
<1>1. CASE stage = "moves"
  BY <1>1, SolverMoves DEF Work, IInv, TypeOK
<1>2. CASE stage = "search"
  BY <1>2, TopFacts, BlankFinite DEF Work
<1> QED BY <1>1, <1>2 DEF Work

(* Whatever the maze and the linking, each step of init, search and replay    *)
(* lowers a pair of natural numbers: dfs enters no road twice, and main calls *)
(* no move_n twice, so the program takes finitely many steps (what Ends needs *)
(* besides that a next step is taken).                                        *)
THEOREM NothingRepeats == Spec => [](Work \in Nat) /\ [][CountsDown]_vars
<1>1. IInv /\ [Next]_vars => [CountsDown]_vars
  BY StepCounts
<1>2. IInv => Work \in Nat
  BY WorkIsLeft
<1> QED BY <1>1, <1>2, Invariant, PTL DEF Spec

=============================================================================
