------------------------------ MODULE MCSolver ------------------------------
(* Constants for model checking Solver: every maze on a 4 x 5 grid with two  *)
(* starts and two ends, the ends walled in or not, and 4 functions where the *)
(* longest branch has 6 cells, so that move_directions can overflow.         *)
EXTENDS Solver

Inside == (1 .. 2) \X (1 .. 3)
Grid == (0 .. 3) \X (0 .. 4)
MCMazes ==
    {[w |-> 4, h |-> 5, start |-> s, end |-> e, walls |-> Grid \ roads] :
        s \in {<<1, 1>>, <<2, 2>>}, e \in {<<1, 1>>, <<2, 3>>}, roads \in SUBSET Inside}
MCStartable == {m \in MCMazes : m.start \notin m.walls}

(* The entries in the order of the calls, and in another among strangers.    *)
MCLinks == {<<1, 2, 3, 4>>, <<0, 3, 1, 2, 4>>}
=============================================================================
