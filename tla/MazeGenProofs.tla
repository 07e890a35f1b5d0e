---------------------------- MODULE MazeGenProofs ----------------------------
(***************************************************************************)
(* Proofs about MazeGen, for every size: the border stays wall, what is    *)
(* carved hangs together, and the driver's dfs carves a spanning tree of   *)
(* the cells with odd coordinates, in finitely many steps.                 *)
(***************************************************************************)
EXTENDS MazeGen, TLAPS, FiniteSetTheorems, WellFoundedInduction

Marks == {"#", ".", "*", "E"}
OpenIn(b) == {c \in Grid : b[c] # "#"}

(* From the start every open cell is reached over open neighbours.            *)
Connected(o) == \A S \in SUBSET o :
                    (start \in S /\ \A c \in S : Near(c) \cap o \subseteq S) => S = o

Typed ==
    /\ version \in Versions /\ size \in Sizes /\ size \in Nat \X Nat
    /\ blk \in [Grid -> Marks]
    /\ trail \in Seq(Inside)
    /\ stage \in {"pick", "dfs", "walls", "done", "fault"}
    /\ stage # "dfs" => trail = <<>>
    /\ stage = "walls" => version = "draft"

(* Only cells off the border are open, start and end are such cells, and dfs   *)
(* stands on open ones, in the driver on odd ones.                            *)
Rooted ==
    /\ Open \subseteq Inside
    /\ stage \in {"pick", "fault"} => start = NoCell /\ end = NoCell /\ Open = {}
    /\ stage \in {"dfs", "walls", "done"} =>
          /\ start \in Open /\ end \in Inside
          /\ version = "hand_in" => start # end /\ {start, end} \subseteq OddCells
    /\ \A k \in 1 .. Len(trail) :
          trail[k] \in Open /\ (version = "hand_in" => trail[k] \in OddCells)

Hangs ==
    (stage \in {"dfs", "walls"} \/ (stage = "done" /\ version # "prototype"))
        => Connected(Open)

(* The driver: a passage between two odd cells is only open when they are, dfs *)
(* has left no odd cell with a wall two steps on, and with each odd cell but   *)
(* the first it has opened one passage.                                       *)
OnTrail(c) == \E k \in 1 .. Len(trail) : trail[k] = c
Driver == version = "hand_in" /\ stage \in {"dfs", "done"}
Between == Driver =>
    \A c \in OddCells, d \in Dirs : At(c, d, 1) \in Open => c \in Open
Left(c) == \A d \in Dirs : At(c, d, 2) \in Inside => At(c, d, 2) \in Open
Explored == Driver => \A c \in OddCells \cap Open : OnTrail(c) \/ Left(c)
Counted == Driver => Cardinality(Open) = 2 * Cardinality(OddCells \cap Open) - 1
Covered == (version = "hand_in" /\ stage = "done") => OddCells \subseteq Open

IInv == Typed /\ Rooted /\ Hangs /\ Between /\ Explored /\ Counted /\ Covered
-----------------------------------------------------------------------------
(* Grid arithmetic. *)

LEMMA OddInside == OddCells \subseteq Inside
BY DEF OddCells, Inside

LEMMA InsideGrid == ASSUME size \in Nat \X Nat PROVE Inside \subseteq Grid
BY DEF Inside, Grid

LEMMA InsideInt == ASSUME size \in Nat \X Nat PROVE Inside \subseteq Int \X Int
BY DEF Inside

(* The cell between two cells off the border is off the border.               *)
LEMMA Middle ==
    ASSUME size \in Nat \X Nat, NEW c \in Inside, NEW d \in Dirs, At(c, d, 2) \in Inside
    PROVE  At(c, d, 1) \in Inside
BY DEF Inside, Dirs, At

LEMMA OddNumbers ==
    \A n \in Int : n % 2 = 1 => /\ (n + 2) % 2 = 1 /\ (n - 2) % 2 = 1
                              /\ (n + 1) % 2 = 0 /\ (n - 1) % 2 = 0
OBVIOUS

LEMMA StepCases ==
    ASSUME NEW c \in Int \X Int, NEW d \in Dirs, NEW k \in {1, 2}
    PROVE  At(c, d, k) \in {<<c[1] - k, c[2]>>, <<c[1] + k, c[2]>>,
                           <<c[1], c[2] - k>>, <<c[1], c[2] + k>>}
BY DEF Dirs, At

(* Two steps on from an odd cell is an odd cell, one step on is not.          *)
LEMMA Parity ==
    ASSUME size \in Nat \X Nat, NEW c \in OddCells, NEW d \in Dirs
    PROVE  /\ At(c, d, 2) \in Inside => At(c, d, 2) \in OddCells
           /\ At(c, d, 1) \notin OddCells
<1>1. c[1] \in Int /\ c[2] \in Int /\ c[1] % 2 = 1 /\ c[2] % 2 = 1 /\ c \in Int \X Int
  BY DEF OddCells
<1>2. At(c, d, 2) \in Inside => At(c, d, 2) \in OddCells
  BY <1>1, StepCases, OddNumbers DEF OddCells, Inside
<1>3. At(c, d, 1) \notin OddCells
  BY <1>1, StepCases, OddNumbers DEF OddCells
<1> QED BY <1>2, <1>3

(* Passages have two sides.                                                   *)
LEMMA Sides ==
    ASSUME size \in Nat \X Nat, NEW c \in OddCells, NEW d \in Dirs,
           NEW b \in OddCells, NEW e \in Dirs, At(b, e, 1) = At(c, d, 1)
    PROVE  b = c \/ b = At(c, d, 2)
<1>1. /\ c[1] \in Int /\ c[2] \in Int /\ c[1] % 2 = 1 /\ c[2] % 2 = 1 /\ c = <<c[1], c[2]>>
      /\ b[1] \in Int /\ b[2] \in Int /\ b[1] % 2 = 1 /\ b[2] % 2 = 1 /\ b = <<b[1], b[2]>>
  BY DEF OddCells
<1>2. /\ (c[1] + 1) % 2 = 0 /\ (c[1] - 1) % 2 = 0 /\ (c[2] + 1) % 2 = 0 /\ (c[2] - 1) % 2 = 0
      /\ (b[1] + 1) % 2 = 0 /\ (b[1] - 1) % 2 = 0 /\ (b[2] + 1) % 2 = 0 /\ (b[2] - 1) % 2 = 0
  BY <1>1, OddNumbers
<1>3. CASE d[2] = 0 /\ e[2] = 0
  <2>1. b[2] = c[2] /\ b[1] + e[1] = c[1] + d[1]
    BY <1>1, <1>3 DEF Dirs, At
  <2>2. d[1] \in {-1, 1} /\ e[1] \in {-1, 1}
    BY <1>3 DEF Dirs
  <2>3. At(c, d, 2) = <<c[1] + 2 * d[1], c[2]>>
    BY <1>1, <1>3 DEF At
  <2> QED BY <1>1, <2>1, <2>2, <2>3
<1>4. CASE d[1] = 0 /\ e[1] = 0
  <2>1. b[1] = c[1] /\ b[2] + e[2] = c[2] + d[2]
    BY <1>1, <1>4 DEF Dirs, At
  <2>2. d[2] \in {-1, 1} /\ e[2] \in {-1, 1}
    BY <1>4 DEF Dirs
  <2>3. At(c, d, 2) = <<c[1], c[2] + 2 * d[2]>>
    BY <1>1, <1>4 DEF At
  <2> QED BY <1>1, <2>1, <2>2, <2>3
<1>5. CASE d[2] = 0 /\ e[1] = 0
  <2>1. b[1] = c[1] + d[1] /\ d[1] \in {-1, 1}
    BY <1>1, <1>5 DEF Dirs, At
  <2> QED BY <1>1, <1>2, <2>1
<1>6. CASE d[1] = 0 /\ e[2] = 0
  <2>1. b[2] = c[2] + d[2] /\ d[2] \in {-1, 1}
    BY <1>1, <1>6 DEF Dirs, At
  <2> QED BY <1>1, <1>2, <2>1
<1>7. (d[1] = 0 \/ d[2] = 0) /\ (e[1] = 0 \/ e[2] = 0)
  BY DEF Dirs
<1> QED BY <1>3, <1>4, <1>5, <1>6, <1>7

LEMMA FarSide ==
    ASSUME NEW c \in Int \X Int, NEW d \in Dirs
    PROVE  \E e \in Dirs : At(At(c, d, 2), e, 1) = At(c, d, 1)
<1> DEFINE e == <<-d[1], -d[2]>>
<1>1. e \in Dirs
  BY DEF Dirs
<1>2. At(At(c, d, 2), e, 1) = At(c, d, 1)
  BY DEF Dirs, At
<1> QED BY <1>1, <1>2

LEMMA NearSymmetric ==
    ASSUME NEW a \in Int \X Int, NEW c \in Near(a)
    PROVE  a \in Near(c)
<1>1. PICK d \in Dirs : c = At(a, d, 1)
  BY DEF Near
<1> DEFINE e == <<-d[1], -d[2]>>
<1>2. e \in Dirs
  BY DEF Dirs
<1>3. a = At(c, e, 1)
  BY <1>1 DEF Dirs, At
<1> QED BY <1>2, <1>3 DEF Near

(* A connected set grows by cells that have a neighbour in it.                *)
LEMMA Grow ==
    ASSUME NEW o, Connected(o), start \in o, o \subseteq Int \X Int,
           NEW n, \A x \in n : Near(x) \cap o # {}, n \subseteq Int \X Int
    PROVE  Connected(o \cup n)
<1> SUFFICES ASSUME NEW S \in SUBSET (o \cup n), start \in S,
                    \A c \in S : Near(c) \cap (o \cup n) \subseteq S
             PROVE  o \cup n \subseteq S
  BY DEF Connected
<1>1. S \cap o = o
  <2>1. \A c \in S \cap o : Near(c) \cap o \subseteq S \cap o
    OBVIOUS
  <2> QED BY <2>1 DEF Connected
<1>2. ASSUME NEW x \in n PROVE x \in S
  <2>1. PICK y \in o : y \in Near(x)
    OBVIOUS
  <2>2. x \in Near(y)
    BY <2>1, NearSymmetric
  <2> QED BY <2>2, <1>1
<1> QED BY <1>1, <1>2

(* A set of odd cells that holds with each of its cells those two steps on is   *)
(* all of them or none: the closest pair of a cell in it and one outside would  *)
(* leave room for a closer pair.                                              *)
Apart(m, n) == IF m < n THEN n - m ELSE m - n
LEMMA OddCellsLinked ==
    ASSUME size \in Nat \X Nat, NEW S \in SUBSET OddCells, S # {},
           \A c \in S, d \in Dirs : At(c, d, 2) \in Inside => At(c, d, 2) \in S
    PROVE  S = OddCells
<1> DEFINE Gaps == {n \in Nat : \E s \in S, t \in OddCells \ S :
                                 n = Apart(s[1], t[1]) + Apart(s[2], t[2])}
           Less == OpToRel(<, Nat)
<1> SUFFICES ASSUME NEW t0 \in OddCells \ S PROVE FALSE
  OBVIOUS
<1>1. Gaps # {}
  <2>1. PICK s0 \in S : TRUE
    OBVIOUS
  <2>2. Apart(s0[1], t0[1]) + Apart(s0[2], t0[2]) \in Nat
    BY DEF OddCells, Apart
  <2> QED BY <2>1, <2>2
<1>2. PICK n \in Gaps : \A m \in Gaps : ~(<<m, n>> \in Less)
  <2>1. IsWellFoundedOn(Less, Nat)
    BY NatLessThanWellFounded
  <2>2. Gaps \subseteq Nat
    OBVIOUS
  <2> HIDE DEF Gaps, Less
  <2> QED BY <1>1, <2>1, <2>2, WFMin
<1>3. PICK s \in S, t \in OddCells \ S : n = Apart(s[1], t[1]) + Apart(s[2], t[2])
  OBVIOUS
<1>4. ASSUME NEW d \in Dirs, At(s, d, 2) \in Inside PROVE
        Apart(s[1] + 2 * d[1], t[1]) + Apart(s[2] + 2 * d[2], t[2]) >= n
  <2> DEFINE r == At(s, d, 2)
             m == Apart(r[1], t[1]) + Apart(r[2], t[2])
  <2>1. r \in S /\ r[1] = s[1] + 2 * d[1] /\ r[2] = s[2] + 2 * d[2]
    BY <1>4 DEF At
  <2>2. r[1] \in Nat /\ r[2] \in Nat /\ t[1] \in Nat /\ t[2] \in Nat
    BY <2>1 DEF OddCells
  <2>3. m \in Nat
    BY <2>2 DEF Apart
  <2>4. m \in Gaps
    BY <2>1, <2>3
  <2>5. ~(m < n)
    BY <2>4, <1>2 DEF OpToRel
  <2> QED BY <2>1, <2>3, <2>5
<1>5. /\ s[1] \in 1 .. size[1] - 2 /\ s[2] \in 1 .. size[2] - 2 /\ s[1] % 2 = 1 /\ s[2] % 2 = 1
      /\ t[1] \in 1 .. size[1] - 2 /\ t[2] \in 1 .. size[2] - 2 /\ t[1] % 2 = 1 /\ t[2] % 2 = 1
      /\ s = <<s[1], s[2]>> /\ t = <<t[1], t[2]>> /\ size[1] \in Nat /\ size[2] \in Nat
  BY DEF OddCells
<1>6. /\ s[1] + 1 # t[1] /\ t[1] + 1 # s[1] /\ s[2] + 1 # t[2] /\ t[2] + 1 # s[2]
  BY <1>5, OddNumbers
<1>7. CASE s[1] < t[1]
  <2>1. At(s, <<1, 0>>, 2) = <<s[1] + 2, s[2]>>
    BY <1>5 DEF At
  <2>2. At(s, <<1, 0>>, 2) \in Inside
    BY <2>1, <1>5, <1>6, <1>7 DEF Inside
  <2>3. Apart(s[1] + 2 * 1, t[1]) + Apart(s[2] + 2 * 0, t[2]) >= n
    BY <1>4, <2>2 DEF Dirs
  <2> QED BY <2>3, <1>3, <1>5, <1>6, <1>7 DEF Apart
<1>8. CASE t[1] < s[1]
  <2>1. At(s, <<-1, 0>>, 2) = <<s[1] - 2, s[2]>>
    BY <1>5 DEF At
  <2>2. At(s, <<-1, 0>>, 2) \in Inside
    BY <2>1, <1>5, <1>6, <1>8 DEF Inside
  <2>3. Apart(s[1] + 2 * (-1), t[1]) + Apart(s[2] + 2 * 0, t[2]) >= n
    BY <1>4, <2>2 DEF Dirs
  <2> QED BY <2>3, <1>3, <1>5, <1>6, <1>8 DEF Apart
<1>9. CASE s[2] < t[2]
  <2>1. At(s, <<0, 1>>, 2) = <<s[1], s[2] + 2>>
    BY <1>5 DEF At
  <2>2. At(s, <<0, 1>>, 2) \in Inside
    BY <2>1, <1>5, <1>6, <1>9 DEF Inside
  <2>3. Apart(s[1] + 2 * 0, t[1]) + Apart(s[2] + 2 * 1, t[2]) >= n
    BY <1>4, <2>2 DEF Dirs
  <2> QED BY <2>3, <1>3, <1>5, <1>6, <1>9 DEF Apart
<1>10. CASE t[2] < s[2]
  <2>1. At(s, <<0, -1>>, 2) = <<s[1], s[2] - 2>>
    BY <1>5 DEF At
  <2>2. At(s, <<0, -1>>, 2) \in Inside
    BY <2>1, <1>5, <1>6, <1>10 DEF Inside
  <2>3. Apart(s[1] + 2 * 0, t[1]) + Apart(s[2] + 2 * (-1), t[2]) >= n
    BY <1>4, <2>2 DEF Dirs
  <2> QED BY <2>3, <1>3, <1>5, <1>6, <1>10 DEF Apart
<1>11. s # t
  OBVIOUS
<1> QED BY <1>5, <1>7, <1>8, <1>9, <1>10, <1>11

LEMMA GridFinite ==
    ASSUME size \in Nat \X Nat
    PROVE  IsFiniteSet(Open) /\ IsFiniteSet(OddCells \cap Open)
<1>1. IsFiniteSet(0 .. size[1] - 1) /\ IsFiniteSet(0 .. size[2] - 1)
  <2>1. size[1] - 1 \in Int /\ size[2] - 1 \in Int /\ 0 \in Int
    OBVIOUS
  <2> QED BY <2>1, FS_Interval
<1>2. IsFiniteSet(Grid)
  BY <1>1, FS_Product DEF Grid
<1>3. Open \in SUBSET Grid /\ (OddCells \cap Open) \in SUBSET Grid
  BY DEF Open
<1> QED BY <1>2, <1>3, FS_Subset
-----------------------------------------------------------------------------
LEMMA InitInv == ASSUME Init PROVE IInv
<1>1. Open = {}
  BY DEF Init, Open
<1>2. Typed /\ trail = <<>> /\ stage = "pick"
  BY GenSizes DEF Init, Typed, Marks
<1> QED BY <1>1, <1>2 DEF Init, IInv, Rooted, Hangs, Between, Explored, Counted, Covered, Driver

(* Start and end are drawn.                                                   *)
LEMMA PickInv == ASSUME IInv, Pick PROVE IInv'
<1>0. Typed /\ Rooted /\ stage = "pick" /\ Grid' = Grid /\ Inside' = Inside /\ OddCells' = OddCells
      /\ size' = size /\ version' = version /\ stage' = "dfs"
  BY DEF IInv, Pick, Grid, Inside, OddCells
<1>1. PICK p \in IF version = "hand_in" THEN OddPairs ELSE Inside \X Inside :
         /\ start' = p[1] /\ end' = p[2]
         /\ blk' = [blk EXCEPT ![p[1]] = "*"]
         /\ trail' = <<p[1]>>
  BY DEF Pick
<1>2. p[1] \in Inside /\ p[2] \in Inside /\ p[1] \in Grid
      /\ (version = "hand_in" => p[1] # p[2] /\ {p[1], p[2]} \subseteq OddCells)
  BY <1>0, OddInside, InsideGrid DEF OddPairs, Typed
<1>3. Open' = {p[1]}
  <2>1. Open = {}
    BY <1>0 DEF Rooted
  <2> QED BY <1>0, <1>1, <1>2, <2>1 DEF Open, Typed
<1>4. Typed'
  BY <1>0, <1>1, <1>2 DEF Typed, Marks
<1>5. Rooted'
  BY <1>0, <1>1, <1>2, <1>3 DEF Rooted
<1>6. Hangs'
  BY <1>0, <1>1, <1>3 DEF Hangs, Connected
<1>7. Between' /\ Explored' /\ Counted' /\ Covered'
  <2> SUFFICES ASSUME version = "hand_in" PROVE Between' /\ Explored' /\ Counted'
    BY <1>0 DEF Between, Explored, Counted, Covered, Driver
  <2>1. Between'
    BY <1>0, <1>2, <1>3, Parity DEF Between, Typed
  <2>2. Explored'
    BY <1>1, <1>3 DEF Explored, OnTrail
  <2>3. Counted'
    <3>1. OddCells' \cap Open' = {p[1]}
      BY <1>0, <1>2, <1>3
    <3>2. Cardinality({p[1]}) = 1
      BY FS_Singleton
    <3> QED BY <1>3, <3>1, <3>2 DEF Counted
  <2> QED BY <2>1, <2>2, <2>3
<1> QED BY <1>4, <1>5, <1>6, <1>7 DEF IInv

(* dfs carves two cells and goes on from the second.                          *)
LEMMA DeeperInv == ASSUME IInv, Deeper PROVE IInv'
<1>0. Typed /\ Rooted /\ Hangs /\ Between /\ Explored /\ Counted
      /\ stage = "dfs" /\ Grid' = Grid /\ Inside' = Inside /\ OddCells' = OddCells
      /\ size' = size /\ version' = version /\ stage' = "dfs" /\ start' = start /\ end' = end
  BY DEF IInv, Deeper, Grid, Inside, OddCells
<1> DEFINE c == trail[Len(trail)]
<1>1. PICK d \in Dirs : Fresh(d) /\ blk' = Carve(d) /\ trail' = Append(trail, At(c, d, 2))
  BY DEF Deeper
<1> DEFINE mid == At(c, d, 1)
           far == At(c, d, 2)
<1>2. /\ trail \in Seq(Inside) /\ trail # <<>> /\ Len(trail) \in 1 .. Len(trail)
      /\ c \in Inside /\ c \in Open /\ (version = "hand_in" => c \in OddCells)
      /\ size \in Nat \X Nat
  BY <1>0 DEF Deeper, Typed, Rooted
<1>3. far \in Inside /\ far \notin Open /\ mid \in Inside /\ far \in Grid /\ mid \in Grid
  <2>1. far \in Inside /\ blk[far] = "#"
    BY <1>1 DEF Fresh
  <2>2. mid \in Inside
    BY <1>2, <2>1, Middle
  <2> QED BY <1>2, <2>1, <2>2, InsideGrid DEF Open
<1> HIDE DEF c, mid, far
<1>4. blk' = [blk EXCEPT ![far] = ".", ![mid] = "."]
  BY <1>1 DEF Carve, c, mid, far
<1>5. Open' = (Open \cup {mid}) \cup {far}
  BY <1>0, <1>3, <1>4 DEF Open, Typed
<1>6. trail' = Append(trail, far)
  BY <1>1 DEF c, far
<1>7. Typed'
  BY <1>0, <1>2, <1>3, <1>4, <1>6 DEF Typed, Marks
<1>8. version = "hand_in" => far \in OddCells /\ mid \notin OddCells
  BY <1>2, <1>3, Parity DEF mid, far
<1>9. Rooted'
  BY <1>0, <1>2, <1>3, <1>5, <1>6, <1>8 DEF Rooted
<1>10. Hangs'
  <2>0. Inside \subseteq Int \X Int
    BY <1>2, InsideInt
  <2>1. c \in Near(mid)
    <3>1. mid \in Near(c)
      BY DEF mid, Near
    <3> QED BY <1>2, <2>0, <3>1, NearSymmetric
  <2>2. mid \in Near(far)
    <3>1. PICK e \in Dirs : At(far, e, 1) = mid
      BY <1>2, <2>0, FarSide DEF far, mid
    <3> QED BY <3>1 DEF Near
  <2>3. Connected(Open \cup {mid})
    BY <1>0, <1>2, <1>3, <2>0, <2>1, Grow DEF Hangs, Rooted
  <2>4. Connected((Open \cup {mid}) \cup {far})
    BY <1>0, <1>3, <2>0, <2>2, <2>3, Grow DEF Rooted
  <2> QED BY <1>0, <1>5, <2>4 DEF Hangs, Connected
<1>11. ASSUME version = "hand_in" PROVE Between' /\ Explored' /\ Counted'
  <2>1. Driver /\ far \in OddCells /\ mid \notin OddCells /\ c \in OddCells
    BY <1>0, <1>2, <1>8, <1>11 DEF Driver
  <2>2. mid \notin Open
    <3>1. PICK e \in Dirs : At(far, e, 1) = mid
      BY <1>2, InsideInt, FarSide DEF far, mid
    <3> QED BY <1>0, <1>3, <2>1, <3>1 DEF Between
  <2>3. Between'
    <3> SUFFICES ASSUME NEW b \in OddCells, NEW e \in Dirs, At(b, e, 1) \in Open'
                 PROVE  b \in Open'
      BY <1>0 DEF Between
    <3>1. CASE At(b, e, 1) \in Open
      BY <1>0, <1>5, <2>1, <3>1 DEF Between
    <3>2. CASE At(b, e, 1) = mid
      BY <1>2, <1>5, <2>1, <3>2, Sides DEF mid, far
    <3>3. CASE At(b, e, 1) = far
      BY <1>2, <2>1, <3>3, Parity
    <3> QED BY <1>5, <3>1, <3>2, <3>3
  <2>4. Explored'
    <3> SUFFICES ASSUME NEW b \in OddCells \cap Open' PROVE OnTrail(b)' \/ Left(b)'
      BY <1>0 DEF Explored
    <3>1. CASE b = far
      BY <1>2, <1>6, <3>1 DEF OnTrail
    <3>2. CASE b \in Open
      <4>1. OnTrail(b) => OnTrail(b)'
        BY <1>2, <1>6 DEF OnTrail
      <4>2. Left(b) => Left(b)'
        BY <1>0, <1>5 DEF Left
      <4> QED BY <1>0, <2>1, <3>2, <4>1, <4>2 DEF Explored
    <3> QED BY <1>5, <2>1, <3>1, <3>2
  <2>5. Counted'
    <3>1. IsFiniteSet(Open) /\ IsFiniteSet(OddCells \cap Open)
      BY <1>2, GridFinite
    <3>2. IsFiniteSet(Open \cup {mid}) /\ Cardinality(Open \cup {mid}) = Cardinality(Open) + 1
      BY <2>2, <3>1, FS_AddElement
    <3>3. Cardinality(Open') = Cardinality(Open) + 1 + 1
      <4>1. far \notin Open \cup {mid}
        BY <1>3, <2>1
      <4> QED BY <1>5, <3>2, <4>1, FS_AddElement
    <3>4. OddCells' \cap Open' = (OddCells \cap Open) \cup {far}
      BY <1>0, <1>5, <2>1
    <3>5. Cardinality(OddCells' \cap Open') = Cardinality(OddCells \cap Open) + 1
      BY <1>3, <3>1, <3>4, FS_AddElement
    <3>6. Cardinality(OddCells \cap Open) \in Nat /\ Cardinality(Open) \in Nat
      BY <3>1, FS_CardinalityType
    <3>7. Cardinality(Open) = 2 * Cardinality(OddCells \cap Open) - 1
      BY <1>0, <2>1 DEF Counted
    <3> QED BY <3>3, <3>5, <3>6, <3>7 DEF Counted
  <2> QED BY <2>3, <2>4, <2>5
<1>12. Between' /\ Explored' /\ Counted' /\ Covered'
  BY <1>0, <1>11 DEF Between, Explored, Counted, Covered, Driver
<1> QED BY <1>7, <1>9, <1>10, <1>12 DEF IInv

(* A call of dfs returns when no direction leads to a wall: it has left no      *)
(* wall two steps on.                                                         *)
LEMMA BackInv == ASSUME IInv, Back PROVE IInv'
<1>0. Typed /\ Rooted /\ Hangs /\ Between /\ Explored /\ Counted
      /\ stage = "dfs" /\ Grid' = Grid /\ Inside' = Inside /\ OddCells' = OddCells
      /\ size' = size /\ version' = version /\ stage' = "dfs" /\ start' = start /\ end' = end
      /\ blk' = blk /\ Open' = Open
  BY DEF IInv, Back, Grid, Inside, OddCells, Open
<1>1. trail \in Seq(Inside) /\ trail # <<>> /\ Len(trail) \in 1 .. Len(trail)
      /\ trail' = SubSeq(trail, 1, Len(trail) - 1) /\ size \in Nat \X Nat
  BY <1>0 DEF Back, Return, Typed
<1>2. trail' \in Seq(Inside) /\ Len(trail') = Len(trail) - 1
      /\ \A k \in 1 .. Len(trail) - 1 : trail'[k] = trail[k]
  <2>1. Len(trail) \in Nat \ {0} /\ \A k \in 1 .. Len(trail) : trail[k] \in Inside
    BY <1>1
  <2>2. trail' = [k \in 1 .. Len(trail) - 1 |-> trail[k]]
    BY <1>1
  <2> QED BY <2>1, <2>2
<1>3. Typed' /\ Rooted' /\ Hangs'
  BY <1>0, <1>1, <1>2 DEF Typed, Rooted, Hangs, Connected
<1>4. Left(trail[Len(trail)])
  <2> SUFFICES ASSUME NEW d \in Dirs, At(trail[Len(trail)], d, 2) \in Inside
               PROVE  At(trail[Len(trail)], d, 2) \in Open
    BY DEF Left
  <2>1. ~Fresh(d)
    BY DEF Back
  <2> QED BY <1>1, <2>1, InsideGrid DEF Fresh, Open
<1>5. Explored'
  <2> SUFFICES ASSUME Driver, NEW c \in OddCells \cap Open PROVE OnTrail(c)' \/ Left(c)'
    BY <1>0 DEF Explored, Driver
  <2>1. Left(c) => Left(c)'
    BY <1>0 DEF Left
  <2>2. CASE OnTrail(c)
    <3>1. PICK k \in 1 .. Len(trail) : trail[k] = c
      BY <2>2 DEF OnTrail
    <3>2. CASE k = Len(trail)
      BY <1>4, <2>1, <3>1, <3>2
    <3>3. CASE k # Len(trail)
      BY <1>1, <1>2, <3>1, <3>3 DEF OnTrail
    <3> QED BY <3>2, <3>3
  <2> QED BY <1>0, <2>1, <2>2 DEF Explored
<1>6. Between' /\ Counted' /\ Covered'
  BY <1>0 DEF Between, Counted, Covered, Driver
<1> QED BY <1>3, <1>5, <1>6 DEF IInv

(* The end is marked: in the driver an open cell, in the draft one next to an   *)
(* open cell.                                                                 *)
LEMMA PlaceEndInv == ASSUME IInv, PlaceEnd PROVE IInv'
<1>0. Typed /\ Rooted /\ Hangs /\ Between /\ Explored /\ Counted
      /\ stage = "dfs" /\ Grid' = Grid /\ Inside' = Inside /\ OddCells' = OddCells
      /\ size' = size /\ version' = version /\ start' = start /\ trail' = trail /\ trail = <<>>
      /\ stage' = IF version = "draft" THEN "walls" ELSE "done"
  BY DEF IInv, PlaceEnd, Grid, Inside, OddCells
<1>1. PICK e \in IF version # "draft" \/ Joins(end) THEN {end} ELSE {c \in Inside : Joins(c)} :
         end' = e /\ blk' = [blk EXCEPT ![e] = "E"]
  BY DEF PlaceEnd
<1>2. e \in Inside /\ e \in Grid /\ (version = "draft" => Joins(e)) /\ size \in Nat \X Nat
      /\ (version # "draft" => e = end)
  <2>1. e \in Inside /\ (version = "draft" => Joins(e)) /\ size \in Nat \X Nat
    BY <1>0 DEF Rooted, Typed
  <2> QED BY <2>1, InsideGrid
<1>3. Open' = Open \cup {e}
  BY <1>0, <1>1, <1>2 DEF Open, Typed
<1>4. version = "hand_in" => OddCells \subseteq Open
  <2> SUFFICES ASSUME version = "hand_in" PROVE OddCells \subseteq Open
    OBVIOUS
  <2>1. Driver /\ start \in OddCells \cap Open
    BY <1>0 DEF Driver, Rooted
  <2>2. \A c \in OddCells \cap Open : Left(c)
    BY <1>0, <2>1 DEF Explored, OnTrail
  <2>3. \A c \in OddCells \cap Open, d \in Dirs :
           At(c, d, 2) \in Inside => At(c, d, 2) \in OddCells \cap Open
    BY <1>2, <2>2, Parity DEF Left
  <2>4. OddCells \cap Open = OddCells
    BY <1>2, <2>1, <2>3, OddCellsLinked
  <2> QED BY <2>4
<1>5. version = "hand_in" => Open' = Open
  BY <1>0, <1>2, <1>3, <1>4 DEF Rooted
<1>6. Typed'
  BY <1>0, <1>1, <1>2 DEF Typed, Marks
<1>7. Rooted'
  BY <1>0, <1>1, <1>2, <1>3 DEF Rooted
<1>8. Hangs'
  <2> SUFFICES ASSUME version # "prototype" PROVE Connected(Open)'
    BY <1>0 DEF Hangs
  <2>1. Connected(Open)
    BY <1>0 DEF Hangs
  <2>2. CASE version = "hand_in"
    BY <1>0, <1>5, <2>1, <2>2 DEF Connected
  <2>3. CASE version = "draft"
    <3>1. Near(e) \cap Open # {} /\ Open \subseteq Int \X Int /\ e \in Int \X Int /\ start \in Open
      BY <1>0, <1>2, <2>3, InsideInt DEF Joins, Rooted
    <3>2. Connected(Open \cup {e})
      BY <2>1, <3>1, Grow
    <3> QED BY <1>0, <1>3, <3>2 DEF Connected
  <2> QED BY <1>0, <2>2, <2>3, GenVersions DEF Typed
<1>9. Between' /\ Explored' /\ Counted' /\ Covered'
  <2> SUFFICES ASSUME version = "hand_in"
               PROVE  Between' /\ Explored' /\ Counted' /\ Covered'
    BY <1>0 DEF Between, Explored, Counted, Covered, Driver
  <2>1. Driver /\ Open' = Open
    BY <1>0, <1>5 DEF Driver
  <2>2. (\A c \in OddCells : OnTrail(c)' <=> OnTrail(c)) /\ (\A c \in OddCells : Left(c)' <=> Left(c))
    BY <1>0, <2>1 DEF OnTrail, Left
  <2> QED BY <1>0, <1>4, <2>1, <2>2 DEF Between, Explored, Counted, Covered
<1> QED BY <1>6, <1>7, <1>8, <1>9 DEF IInv
-----------------------------------------------------------------------------
(* The draft's walls. *)

Sound(b) == /\ b \in [Grid -> Marks] /\ OpenIn(b) \subseteq Inside
            /\ start \in OpenIn(b) /\ Connected(OpenIn(b))

(* check_wall opens cells of a line off the border that face a passage.        *)
LEMMA CheckWallSound ==
    ASSUME size \in Nat \X Nat, NEW b, Sound(b), NEW line, line \subseteq Inside, NEW last,
           NEW inward \in Dirs, \A c \in line : At(c, inward, 1) \in Grid
    PROVE  Sound(CheckWall(b, line, last, inward))
<1> DEFINE n == CheckWall(b, line, last, inward)
           new == {c \in line \ {last} : b[At(c, inward, 1)] = "."}
<1>0. CASE \E c \in line : b[c] # "#"
  BY <1>0 DEF CheckWall
<1>1. CASE ~\E c \in line : b[c] # "#"
  <2>1. n = [c \in Grid |-> IF c \in line \ {last} /\ b[At(c, inward, 1)] = "." THEN "." ELSE b[c]]
    BY <1>1 DEF CheckWall
  <2>2. line \subseteq Grid /\ Inside \subseteq Int \X Int
    BY InsideGrid, InsideInt
  <2>3. n \in [Grid -> Marks]
    BY <2>1 DEF Sound, Marks
  <2>4. OpenIn(n) = OpenIn(b) \cup new
    BY <2>1, <2>2 DEF OpenIn
  <2>5. \A c \in new : Near(c) \cap OpenIn(b) # {}
    BY DEF Near, OpenIn
  <2> HIDE DEF n, new
  <2>6. new \subseteq Inside
    BY DEF new
  <2>7. Connected(OpenIn(b) \cup new)
    BY <2>2, <2>5, <2>6, Grow DEF Sound
  <2>8. Sound(n)
    BY <2>3, <2>4, <2>6, <2>7 DEF Sound
  <2> QED BY <2>8 DEF n
<1> QED BY <1>0, <1>1

LEMMA RowSound ==
    ASSUME size \in Nat \X Nat, size[1] > 5, NEW b, Sound(b),
           NEW r, NEW inward, (r = 1 /\ inward = 1) \/ (r = size[1] - 2 /\ inward = -1)
    PROVE  Sound(Row(b, r, inward))
<1> DEFINE line == {r} \X (1 .. size[2] - 2)
<1>1. line \subseteq Inside /\ <<inward, 0>> \in Dirs
  BY DEF Inside, Dirs
<1>2. \A c \in line : At(c, <<inward, 0>>, 1) \in Grid
  BY DEF At, Grid
<1> HIDE DEF line
<1>3. Sound(CheckWall(b, line, <<r, size[2] - 2>>, <<inward, 0>>))
  BY <1>1, <1>2, CheckWallSound
<1> QED BY <1>3 DEF Row, line

LEMMA ColumnSound ==
    ASSUME size \in Nat \X Nat, size[2] > 5, NEW b, Sound(b),
           NEW k, NEW inward, (k = 1 /\ inward = 1) \/ (k = size[2] - 2 /\ inward = -1)
    PROVE  Sound(Column(b, k, inward))
<1> DEFINE line == (1 .. size[1] - 2) \X {k}
<1>1. line \subseteq Inside /\ <<0, inward>> \in Dirs
  BY DEF Inside, Dirs
<1>2. \A c \in line : At(c, <<0, inward>>, 1) \in Grid
  BY DEF At, Grid
<1> HIDE DEF line
<1>3. Sound(CheckWall(b, line, <<size[1] - 2, k>>, <<0, inward>>))
  BY <1>1, <1>2, CheckWallSound
<1> QED BY <1>3 DEF Column, line

LEMMA WallsInv == ASSUME IInv, Walls PROVE IInv'
<1>0. Typed /\ Rooted /\ Hangs
      /\ stage = "walls" /\ version = "draft" /\ Grid' = Grid /\ Inside' = Inside
      /\ size' = size /\ version' = version /\ start' = start /\ end' = end /\ trail' = trail
      /\ stage' = "done" /\ size \in Nat \X Nat
  BY DEF IInv, Walls, Grid, Inside, Typed
<1>1. Sound(blk)
  <2>1. OpenIn(blk) = Open
    BY DEF OpenIn, Open
  <2> QED BY <1>0, <2>1 DEF Sound, Typed, Rooted, Hangs
<1> DEFINE rows == IF size[1] > 5 THEN Row(Row(blk, 1, 1), size[1] - 2, -1) ELSE blk
<1>2. Sound(rows)
  <2>1. CASE size[1] > 5
    <3>1. Sound(Row(blk, 1, 1))
      BY <1>0, <1>1, <2>1, RowSound
    <3>2. Sound(Row(Row(blk, 1, 1), size[1] - 2, -1))
      BY <1>0, <2>1, <3>1, RowSound
    <3> QED BY <2>1, <3>2
  <2> QED BY <1>1, <2>1
<1>3. blk' = IF size[2] > 5 THEN Column(Column(rows, 1, 1), size[2] - 2, -1) ELSE rows
  BY DEF Walls
<1> HIDE DEF rows
<1>4. Sound(blk')
  <2>1. CASE size[2] > 5
    <3>1. Sound(Column(rows, 1, 1))
      BY <1>0, <1>2, <2>1, ColumnSound
    <3>2. Sound(Column(Column(rows, 1, 1), size[2] - 2, -1))
      BY <1>0, <2>1, <3>1, ColumnSound
    <3> QED BY <1>3, <2>1, <3>2
  <2> QED BY <1>2, <1>3, <2>1
<1>5. Open' = OpenIn(blk')
  BY <1>0 DEF Open, OpenIn
<1>6. Typed'
  BY <1>0, <1>4 DEF Typed, Sound
<1>7. Rooted'
  BY <1>0, <1>4, <1>5 DEF Rooted, Sound, Typed
<1>8. Hangs'
  BY <1>0, <1>4, <1>5 DEF Hangs, Sound, Connected
<1>9. Between' /\ Explored' /\ Counted' /\ Covered'
  BY <1>0 DEF Between, Explored, Counted, Covered, Driver
<1> QED BY <1>6, <1>7, <1>8, <1>9 DEF IInv

LEMMA StepInv == ASSUME IInv, [Next]_vars PROVE IInv'
<1>1. CASE BadSize
  <2>1. Grid' = Grid /\ Inside' = Inside /\ Open' = Open
    BY <1>1 DEF BadSize, Grid, Inside, Open
  <2> QED BY <1>1, <2>1 DEF BadSize, IInv, Typed, Rooted, Hangs, Between, Explored, Counted,
              Covered, Driver
<1>2. CASE UNCHANGED vars
  <2>1. Grid' = Grid /\ Inside' = Inside /\ Open' = Open /\ OddCells' = OddCells
    BY <1>2 DEF vars, Grid, Inside, Open, OddCells
  <2>2. (\A c : OnTrail(c)' <=> OnTrail(c)) /\ (\A c : Left(c)' <=> Left(c))
    BY <1>2, <2>1 DEF vars, OnTrail, Left
  <2> QED BY <1>2, <2>1, <2>2 DEF vars, IInv, Typed, Rooted, Hangs, Connected, Between, Explored,
              Counted, Covered, Driver
<1> QED BY <1>1, <1>2, PickInv, DeeperInv, BackInv, PlaceEndInv, WallsInv DEF Next

LEMMA Inductive == Spec => []IInv
<1>1. Init => IInv
  BY InitInv
<1>2. IInv /\ [Next]_vars => IInv'
  BY StepInv
<1> QED BY <1>1, <1>2, PTL DEF Spec
-----------------------------------------------------------------------------
(* The generator keeps its types, for any sizes, also ones it cannot build.    *)
THEOREM GenTypes == Spec => []TypeOK
<1>1. IInv => TypeOK
  BY InsideInt DEF IInv, Typed, Rooted, TypeOK, Marks, NoCell, Inside, Open, Grid
<1> QED BY <1>1, Inductive, PTL

(* In all three versions, and at every moment of the construction, the border   *)
(* of the grid is wall: the moves, which look one cell ahead, stay inside.     *)
THEOREM WallsClose == Spec => []BorderClosed
<1>1. IInv => BorderClosed
  BY DEF IInv, Typed, Rooted, BorderClosed, Border, Open, Inside, Grid
<1> QED BY <1>1, Inductive, PTL

(* Whatever is drawn, dfs and what the driver and the draft do after it leave   *)
(* no open cell, and not the end, cut off from the start.                      *)
THEOREM NothingCutOff == Spec => []Joined
<1>1. IInv => Joined
  BY DEF IInv, Hangs, Connected, Joined
<1> QED BY <1>1, Inductive, PTL

(* The driver's mazes are spanning trees of the cells with odd coordinates, of  *)
(* any size: no odd cell is left out, no passage makes a loop, and start and    *)
(* end are two of them.                                                        *)
THEOREM MazesSpan == Spec => []SpanningMaze
<1>1. IInv => SpanningMaze
  <2> SUFFICES ASSUME IInv, stage = "done", version = "hand_in"
               PROVE  /\ start # end /\ {start, end} \subseteq OddCells
                      /\ OddCells \subseteq Open /\ Open \subseteq Inside
                      /\ Cardinality(Open) = 2 * Cardinality(OddCells) - 1
    BY DEF SpanningMaze
  <2>1. OddCells \cap Open = OddCells
    BY DEF IInv, Covered
  <2> QED BY <2>1 DEF IInv, Rooted, Counted, Driver
<1> QED BY <1>1, Inductive, PTL

-----------------------------------------------------------------------------
(* Every step brings the end nearer.                                          *)
Phase == CASE stage = "pick" -> 3 [] stage = "dfs" -> 2 [] stage = "walls" -> 1 [] OTHER -> 0

(* What dfs has left to do: the walls off the border, each to be opened and    *)
(* left at most once, and the calls to be left.                               *)
Solid == {c \in Inside : blk[c] = "#"}
Work == IF stage = "dfs" THEN 2 * Cardinality(Solid) + Len(trail) ELSE 0
CountsDown == Phase' < Phase \/ (Phase' = Phase /\ Work' < Work)

(* The draws that are repeated until they are good: the ends, and the draft's  *)
(* second end.                                                                *)
GoodDraws ==
    Room =>
        /\ stage = "pick" => IF version = "hand_in" THEN OddPairs # {} ELSE Inside # {}
        /\ stage = "dfs" => \E c \in Inside : Joins(c)

LEMMA SolidFinite ==
    ASSUME IInv PROVE IsFiniteSet(Solid) /\ Cardinality(Solid) \in Nat
<1>1. size[1] - 2 \in Int /\ size[2] - 2 \in Int
  BY DEF IInv, Typed
<1>2. IsFiniteSet(1 .. size[1] - 2) /\ IsFiniteSet(1 .. size[2] - 2)
  BY <1>1, FS_Interval
<1>3. IsFiniteSet(Inside)
  BY <1>2, FS_Product DEF Inside
<1> QED BY <1>3, FS_Subset, FS_CardinalityType DEF Solid

LEMMA DeeperCounts == IInv /\ Deeper => CountsDown
<1> SUFFICES ASSUME IInv, Deeper PROVE CountsDown
  OBVIOUS
<1> DEFINE c == trail[Len(trail)]
<1>1. PICK d \in Dirs : Fresh(d) /\ blk' = Carve(d) /\ trail' = Append(trail, At(c, d, 2))
  BY DEF Deeper
<1> DEFINE far == At(c, d, 2)
<1>2. /\ far \in Inside /\ blk[far] = "#" /\ stage = "dfs" /\ stage' = "dfs" /\ Inside' = Inside
      /\ trail \in Seq(Inside) /\ blk \in [Grid -> Marks] /\ far \in Grid
  BY <1>1, InsideGrid DEF Fresh, Deeper, Inside, IInv, Typed
<1>3. blk'[far] # "#" /\ \A x \in Inside : blk[x] # "#" => blk'[x] # "#"
  <2>1. Inside \subseteq Grid
    BY InsideGrid DEF IInv, Typed
  <2> QED BY <1>1, <1>2, <2>1 DEF Carve
<1>4. Solid' \subseteq Solid \ {far} /\ far \in Solid
  BY <1>2, <1>3 DEF Solid
<1>5. IsFiniteSet(Solid \ {far}) /\ Cardinality(Solid \ {far}) = Cardinality(Solid) - 1
  BY <1>4, SolidFinite, FS_RemoveElement
<1>6. Cardinality(Solid') \in Nat /\ Cardinality(Solid') <= Cardinality(Solid) - 1
  BY <1>4, <1>5, FS_Subset, FS_CardinalityType
<1>7. Len(trail') = Len(trail) + 1 /\ Len(trail) \in Nat
  BY <1>1, <1>2
<1>8. Work = 2 * Cardinality(Solid) + Len(trail) /\ Work' = 2 * Cardinality(Solid') + Len(trail')
  BY <1>2 DEF Work
<1>9. Work' < Work
  BY <1>6, <1>7, <1>8, SolidFinite
<1> QED BY <1>2, <1>9 DEF CountsDown, Phase

LEMMA BackCounts == IInv /\ Back => CountsDown
<1> SUFFICES ASSUME IInv, Back PROVE CountsDown
  OBVIOUS
<1>1. stage = "dfs" /\ stage' = "dfs" /\ trail # <<>> /\ trail \in Seq(Inside)
      /\ trail' = SubSeq(trail, 1, Len(trail) - 1) /\ Solid' = Solid
  BY DEF Back, Return, Solid, Inside, IInv, Typed
<1>2. Len(trail) \in Nat /\ Len(trail') = Len(trail) - 1
  <2>1. Len(trail) \in Nat \ {0} /\ \A k \in 1 .. Len(trail) : trail[k] \in Inside
    BY <1>1
  <2>2. trail' = [k \in 1 .. Len(trail) - 1 |-> trail[k]]
    BY <1>1
  <2> QED BY <2>1, <2>2
<1>3. Work = 2 * Cardinality(Solid) + Len(trail) /\ Work' = 2 * Cardinality(Solid) + Len(trail')
  BY <1>1 DEF Work
<1>4. Work' < Work
  BY <1>2, <1>3, SolidFinite
<1> QED BY <1>1, <1>4 DEF CountsDown, Phase

LEMMA StepCounts == IInv /\ Next => CountsDown
<1> SUFFICES ASSUME IInv, Next PROVE CountsDown
  OBVIOUS
<1>1. CASE BadSize \/ Pick
  <2>1. stage = "pick" /\ stage' \in {"fault", "dfs"}
    BY <1>1 DEF BadSize, Pick
  <2> QED BY <2>1 DEF CountsDown, Phase
<1>2. CASE PlaceEnd
  <2>1. stage = "dfs" /\ stage' \in {"walls", "done"}
    BY <1>2 DEF PlaceEnd
  <2> QED BY <2>1 DEF CountsDown, Phase
<1>3. CASE Walls
  <2>1. stage = "walls" /\ stage' = "done"
    BY <1>3 DEF Walls
  <2> QED BY <2>1 DEF CountsDown, Phase
<1> QED BY <1>1, <1>2, <1>3, DeeperCounts, BackCounts DEF Next

LEMMA WorkIsLeft == IInv => Work \in Nat
<1> SUFFICES ASSUME IInv PROVE Work \in Nat
  OBVIOUS
<1>1. Len(trail) \in Nat
  BY DEF IInv, Typed
<1> QED BY <1>1, SolidFinite DEF Work

(* A set of more than one element has two.                                    *)
LEMMA TwoMembers ==
    ASSUME NEW S, Cardinality(S) > 1, IsFiniteSet(S)
    PROVE  \E x, y \in S : x # y
<1> SUFFICES ASSUME \A x, y \in S : x = y PROVE FALSE
  OBVIOUS
<1>1. CASE S = {}
  BY <1>1, FS_EmptySet
<1>2. CASE S # {}
  <2>1. PICK x \in S : S = {x}
    BY <1>2
  <2> QED BY <2>1, FS_Singleton
<1> QED BY <1>1, <1>2

LEMMA DrawsExist == IInv => GoodDraws
<1> SUFFICES ASSUME IInv, Room PROVE GoodDraws
  BY DEF GoodDraws
<1> DEFINE Ends == IF version = "hand_in" THEN OddCells ELSE Inside
<1>1. IsFiniteSet(Inside)
  <2>1. size[1] - 2 \in Int /\ size[2] - 2 \in Int
    BY DEF IInv, Typed
  <2>2. IsFiniteSet(1 .. size[1] - 2) /\ IsFiniteSet(1 .. size[2] - 2)
    BY <2>1, FS_Interval
  <2> QED BY <2>2, FS_Product DEF Inside
<1>2. Ends \subseteq Inside /\ IsFiniteSet(Ends)
  BY <1>1, OddInside, FS_Subset
<1>3. \E x, y \in Ends : x # y
  BY <1>2, TwoMembers DEF Room
<1>4. IF version = "hand_in" THEN OddPairs # {} ELSE Inside # {}
  <2>1. CASE version = "hand_in"
    <3>1. PICK x, y \in OddCells : x # y
      BY <1>3, <2>1
    <3>2. <<x, y>> \in OddPairs
      BY <3>1 DEF OddPairs
    <3> QED BY <2>1, <3>2
  <2>2. CASE version # "hand_in"
    BY <1>3, <2>2
  <2> QED BY <2>1, <2>2
<1>5. ASSUME stage = "dfs" PROVE \E c \in Inside : Joins(c)
  <2>1. start \in Open /\ start \in Inside /\ size \in Nat \X Nat
    BY <1>5 DEF IInv, Rooted, Typed
  <2>2. PICK x, y \in Inside : x # y
    BY <1>2, <1>3
  <2>3. start = <<start[1], start[2]>> /\ x = <<x[1], x[2]>> /\ y = <<y[1], y[2]>>
        /\ {start[1], x[1], y[1]} \subseteq 1 .. size[1] - 2
        /\ {start[2], x[2], y[2]} \subseteq 1 .. size[2] - 2
    BY <2>1, <2>2 DEF Inside
  <2>4. size[1] - 2 >= 2 \/ size[2] - 2 >= 2
    BY <2>1, <2>2, <2>3
  <2>5. \E d \in Dirs : At(start, d, 1) \in Inside
    BY <2>1, <2>3, <2>4 DEF Dirs, At, Inside
  <2>6. PICK d \in Dirs : At(start, d, 1) \in Inside
    BY <2>5
  <2>7. start \in Near(At(start, d, 1))
    BY <2>3, <2>1, NearSymmetric DEF Near
  <2> QED BY <2>1, <2>6, <2>7 DEF Joins
<1> QED BY <1>4, <1>5 DEF GoodDraws

(* Each step of generate_maze lowers a pair of natural numbers: dfs opens a    *)
(* wall once, however the directions are drawn (what Builds needs besides that *)
(* the next step is taken).                                                   *)
THEOREM GeneratorStops == Spec => [](Work \in Nat) /\ [][CountsDown]_vars
<1>1. IInv /\ [Next]_vars => [CountsDown]_vars
  BY StepCounts
<1>2. IInv => Work \in Nat
  BY WorkIsLeft
<1> QED BY <1>1, <1>2, Inductive, PTL DEF Spec

(* With room for two ends, the loops that draw until a condition holds have a  *)
(* draw that ends them: two odd cells for the driver, for the draft an end     *)
(* beside an open cell.                                                       *)
THEOREM DrawsSucceed == Spec => []GoodDraws
BY DrawsExist, Inductive, PTL

=============================================================================
