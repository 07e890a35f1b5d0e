------------------------------- MODULE MCLabs -------------------------------
(* Labs on small values.                                                     *)
EXTENDS Labs, TLC

(* Sides of 1 and 2, a grid with one odd cell, and grids with two to six.    *)
MCSizes == {<<1, 5>>, <<5, 2>>, <<3, 3>>, <<3, 4>>, <<3, 5>>, <<5, 5>>, <<6, 5>>, <<5, 7>>}

(* Logger: a long and a short name, one in a directory that is blocked, a    *)
(* link to it, and a blocked link to the short name; patterns with and       *)
(* without a "*", one of them relative, in the root directory.  Memory ends   *)
(* behind what was read, or holds a blocked word there, near or farther.      *)
AB == <<"a", "b", ".", "t">>
A == <<"a", ".", "t">>
DC == <<"d", "/", "c">>
DL == <<"d", "/", "l">>
L == <<"l">>
MCNames == {AB, A, DC, DL, L}
MCLinkTo == [n \in MCNames |-> IF n = L THEN DC ELSE IF n = DL THEN A ELSE n]
MCLists == [open |-> {<<"d", "/", "*">>}, write |-> {<<"a", "b", "*">>, A},
            net |-> {<<"h">>}, read |-> {"key"}]
MCRoot == <<"/">>
MCBehind == {<<"nul">>, <<"key">>, <<"w", "key">>}
MCHosts == {<<"h">>}

(* Launcher: up to three words of every kind, alone or after the usual       *)
(* beginnings.                                                               *)
W(k) == [kind |-> k, name |-> k]
Words3 == {"./", "config.txt", "-o", "-p", "-", "plain"}
Heads == {<<>>, <<W("config.txt")>>, <<W("config.txt"), W("./")>>,
          <<W("config.txt"), W("-o"), W("plain"), W("./")>>,
          <<W("config.txt"), W("-p"), W("plain"), W("./")>>}
Tails == {<<>>} \cup {<<W(a)>> : a \in Words3} \cup {<<W(a), W(b)>> : a, b \in Words3}
         \cup {<<W(a), W(b), W(c)>> : a, b, c \in Words3}
MCArgvs == {h \o t : h \in Heads, t \in Tails}

(* DraftDevice: two mazes; moves of one cell, one that leads off the grid but  *)
(* not out of blk, one that leads out of it; a batch that runs into the wall,  *)
(* one that turns, and one that leaves the grid.                               *)
Maze(x, y, s, e, o) == [x |-> x, y |-> y, start |-> s, end |-> e, open |-> o]
MCLayouts ==
    {Maze(5, 4, <<1, 1>>, <<2, 1>>, {<<1, 1>>, <<2, 1>>}),
     Maze(5, 5, <<3, 3>>, <<3, 2>>, {<<3, 3>>, <<3, 2>>, <<3, 1>>})}
MCBadSizes == {<<0, 5>>, <<102, 5>>}
MCDeltas == {<<1, 0>>, <<0, -1>>, <<7, 0>>, <<0, -9>>}
MCBatches == {[k \in 1 .. 8 |-> <<1, 0>>],
              [k \in 1 .. 8 |-> IF k % 2 = 1 THEN <<-1, 0>> ELSE <<0, 1>>],
              [k \in 1 .. 8 |-> IF k = 8 THEN <<0, 9>> ELSE <<0, -1>>]}

(* MazeTest: four children and the mains of the seven cases.                 *)
MCChildren == 1 .. 4
MCClients == 1 .. 4 \cup 10 .. 16
=============================================================================
