------------------------------- MODULE Program -------------------------------
(***************************************************************************)
(* The debugged program as the CPU sees it: the instructions at their      *)
(* addresses, without its data.  External: sdb only ever reads and writes  *)
(* its text and its registers through ptrace.                              *)
(***************************************************************************)
EXTENDS Integers

CONSTANTS
    Code,     \* instruction start -> [len, kind, next, nr]
    Entry     \* the address the loader stops at

Starts == DOMAIN Code
Kinds == {"op", "syscall", "exit"}

(* len bytes; next is where control can go; nr numbers a system call.       *)
ASSUME ProgramAssumption ==
    /\ Starts \subseteq Nat /\ Entry \in Starts
    /\ \A a \in Starts : /\ Code[a].len \in Nat \ {0}
                         /\ Code[a].kind \in Kinds
                         /\ Code[a].next \subseteq Starts
                         /\ Code[a].nr \in Nat
=============================================================================
