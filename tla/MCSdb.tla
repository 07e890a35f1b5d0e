------------------------------- MODULE MCSdb -------------------------------
(* Programs to debug. *)
EXTENDS Sdb, TLC

Insn(len, kind, next, nr) == [len |-> len, kind |-> kind, next |-> next, nr |-> nr]

(* A loop of a one-byte and a two-byte instruction around a system call,    *)
(* then the exit.                                                           *)
Loop == 2 :> Insn(1, "op", {3}, 0)
     @@ 3 :> Insn(2, "op", {5, 7}, 0)
     @@ 5 :> Insn(2, "syscall", {2, 7}, 1)
     @@ 7 :> Insn(2, "exit", {}, 60)
LoopBreaks == {2, 3, 5, 7}

(* The same, straight: two equal system calls and the exit.                 *)
Straight == 2 :> Insn(1, "op", {3}, 0)
         @@ 3 :> Insn(2, "syscall", {5}, 1)
         @@ 5 :> Insn(2, "syscall", {7}, 1)
         @@ 7 :> Insn(2, "exit", {}, 60)

StepCommands == {"si", "cont", "break", "delete"}
AllCommands  == {"si", "cont", "syscall", "break", "delete", "patch"}
NoPatches == {}
StraightBreaks == {2, 3, 5}
OnePatch == {<<2, 2>>}
=============================================================================
