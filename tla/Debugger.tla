------------------------------ MODULE Debugger ------------------------------
(***************************************************************************)
(* What sdb promises its user (src/hw03/hand_in_version/sdb.c): a program  *)
(* that runs exactly as it would without a debugger, stopped before the    *)
(* instructions that carry a breakpoint.  No memory, no INT3: breakpoints  *)
(* are a set of addresses.                                                 *)
(***************************************************************************)
EXTENDS Program

VARIABLES
    at,      \* the next instruction of the program
    breaks,  \* the breakpoints `info break' lists
    doing,   \* "prompt", the running command, or "exited"
    moved,   \* the running command has executed an instruction
    told     \* what the command before this prompt reported

vars == <<at, breaks, doing, moved, told>>

Init == /\ at = Entry /\ breaks = {} /\ doing = "prompt"
        /\ moved = FALSE /\ told = "none"

Break == /\ doing = "prompt"
         /\ \E a \in Starts : breaks' = breaks \cup {a}
         /\ UNCHANGED <<at, doing, moved, told>>

Delete == /\ doing = "prompt"
          /\ \E a \in breaks : breaks' = breaks \ {a}
          /\ UNCHANGED <<at, doing, moved, told>>

Resume == /\ doing = "prompt"
          /\ doing' \in {"si", "cont"}
          /\ moved' = FALSE /\ told' = "none"
          /\ UNCHANGED <<at, breaks>>

(* si runs one instruction; cont runs on, but never over a breakpoint       *)
(* other than the one it starts from.                                      *)
Execute == /\ doing = "si" => ~moved
           /\ doing = "cont" => ~moved \/ at \notin breaks
           /\ doing \in {"si", "cont"}
           /\ \/ Code[at].kind = "exit" /\ doing' = "exited" /\ UNCHANGED at
              \/ Code[at].kind # "exit" /\ at' \in Code[at].next
                 /\ UNCHANGED doing
           /\ moved' = TRUE
           /\ UNCHANGED <<breaks, told>>

(* Back at the prompt, before an instruction that has not been executed.    *)
Stop == /\ moved
        /\ doing = "si" \/ (doing = "cont" /\ at \in breaks)
        /\ doing' = "prompt"
        /\ told' = IF at \in breaks THEN "hit" ELSE "none"
        /\ UNCHANGED <<at, breaks, moved>>

Next == Break \/ Delete \/ Resume \/ Execute \/ Stop

Spec == Init /\ [][Next]_vars
=============================================================================
