------------------------------- MODULE MazeTest -------------------------------
(***************************************************************************)
(* The test run of lab02: run.sh loads the driver, runs mazetest with case *)
(* 0 to 6, and unloads it; case 4 forks four children that each want one   *)
(* of the three slots.  Of the device there is what a client can feel: the *)
(* slots, the error_no and the maze_mutex of maze.c.                       *)
(***************************************************************************)
EXTENDS Naturals, FiniteSets

CONSTANTS
    Children,       \* in the order they are forked; four in the code
    Clients,        \* and the mains of the seven cases
    SlotIds, Nobody
TestAssumption ==
    /\ Children = 1 .. 4
    /\ Clients = Children \cup {10 + k : k \in 0 .. 6} /\ Nobody \notin Clients
    /\ SlotIds \subseteq Nat /\ IsFiniteSet(SlotIds)

VARIABLES
    owner,       \* whose each slot is
    script,      \* what run.sh runs: 9 insmod, 10 + k case k, 17 rmmod, 18 nothing more
    loaded,      \* whether the driver is
    st,          \* st[p], see States
    fd,          \* processes with the device open
    error_no,    \* whether it is 12
    stuck,       \* who loops in the kernel for ever, holding maze_mutex
    refusals     \* history: creates refused for want of a slot
vars == <<owner, script, loaded, st, fd, error_no, stuck, refusals>>

(* "no": not started; "main": case 4 past its forks; "exit": to be closed.   *)
States == {"no", "start", "open", "use", "asleep", "main", "exit", "gone"}
Main(k) == 10 + k
Case == script - 10                    \* where script is a number
Last == 4
Free == {s \in SlotIds : owner[s] = Nobody}
Slot(p) == {s \in SlotIds : owner[s] = p}

Init ==
    /\ owner = [s \in SlotIds |-> Nobody]
    /\ script = 9 /\ loaded = FALSE
    /\ st = [p \in Clients |-> "no"]
    /\ fd = {} /\ error_no = FALSE
    /\ stuck = Nobody /\ refusals = 0

To(p, s) == st' = [st EXCEPT ![p] = s]

(* run.sh: one command after another. *)
Insmod ==
    /\ script = 9
    /\ loaded' = TRUE /\ script' = 10
    /\ UNCHANGED <<owner, st, fd, error_no, stuck, refusals>>
StartCase ==
    /\ script \in 10 .. 16 /\ st[script] = "no"
    /\ To(script, IF Case = 0 THEN "gone" ELSE IF Case = 4 THEN "main" ELSE "start")
    /\ UNCHANGED <<owner, script, loaded, fd, error_no, stuck, refusals>>
NextCase ==
    /\ script \in 10 .. 16 /\ st[script] = "gone"
    /\ script' = script + 1
    /\ UNCHANGED <<owner, loaded, st, fd, error_no, stuck, refusals>>
(* rmmod, refused while the device is open anywhere. *)
Rmmod ==
    /\ script = 17
    /\ script' = 18 /\ loaded' = (fd # {})
    /\ UNCHANGED <<owner, st, fd, error_no, stuck, refusals>>

(* case_multiuser.  The four forks; then the loop that waits until           *)
(* `grep vaccancy' finds nothing: /proc/maze says "vacancy", so at once.      *)
Fork ==
    /\ st[Main(4)] = "main" /\ \E c \in Children : st[c] = "no"
    /\ LET c == CHOOSE c \in Children : st[c] = "no" /\ \A b \in Children : st[b] = "no" => c <= b
       IN  To(c, "start")
    /\ UNCHANGED <<owner, script, loaded, fd, error_no, stuck, refusals>>

KilledTwo == {1, 2}                                \* seeded fault: i < 2
Killed == {1, 2, 3}
(* Not a child in mutex_lock, behind one that will never unlock: it waits on. *)
CanWait == {c \in Killed : st[c] = "open" /\ stuck # Nobody}
Kill ==
    /\ st[Main(4)] = "main" /\ \A c \in Children : st[c] # "no"
    /\ \E waits \in SUBSET CanWait :
         st' = [p \in Clients |->
                  IF p = Main(4) THEN "gone"
                  ELSE IF p \in Killed \ waits /\ st[p] # "gone" THEN "exit" ELSE st[p]]
    /\ UNCHANGED <<owner, script, loaded, fd, error_no, stuck, refusals>>

(* A case's main, or a child.  Case 1 creates with a bad size and goes on.   *)
Open(p) ==
    /\ st[p] = "start"
    /\ fd' = fd \cup {p} /\ To(p, IF p = Main(1) THEN "use" ELSE "open")
    /\ UNCHANGED <<owner, script, loaded, error_no, stuck, refusals>>

(* _case_create1: odd sizes from 3 x 3 on; generate_maze does not end for     *)
(* 3 x 3.  A create that is refused sets error_no.                            *)
Lend(p, s) == owner' = [owner EXCEPT ![s] = p]
Kept(p) == IF p \in Children THEN "asleep" ELSE "use"
Create(p) ==
    /\ st[p] = "open" /\ stuck = Nobody
    /\ \/ /\ Free # {}
          /\ Lend(p, CHOOSE s \in Free : \A t \in Free : s <= t)
          /\ \/ To(p, Kept(p)) /\ UNCHANGED stuck
             \/ stuck' = p /\ UNCHANGED st
          /\ UNCHANGED <<error_no, refusals>>
       \/ /\ Free = {}
          /\ error_no' = TRUE /\ To(p, "exit") /\ refusals' = refusals + 1
          /\ UNCHANGED <<owner, stuck>>
    /\ UNCHANGED <<script, loaded, fd>>

(* The rest of the case: requests that leave the slots as they are.          *)
Use(p) ==
    /\ st[p] = "use"
    /\ To(p, "exit")
    /\ UNCHANGED <<owner, script, loaded, fd, error_no, stuck, refusals>>

(* close, or the exit that closes: mazemod_dev_close.                        *)
ReleaseNever(p) == UNCHANGED owner                 \* seeded fault: del_user left out
GiveBack(s) == owner' = [owner EXCEPT ![s] = Nobody]
Release(p) == IF Slot(p) = {} THEN UNCHANGED owner ELSE GiveBack(CHOOSE s \in Slot(p) : TRUE)
Exit(p) ==
    /\ st[p] = "exit" /\ stuck # p
    /\ IF p \notin fd THEN UNCHANGED <<owner, error_no>>
       ELSE IF error_no THEN error_no' = FALSE /\ UNCHANGED owner
       ELSE /\ Slot(p) # {} => stuck = Nobody
            /\ Release(p) /\ UNCHANGED error_no
    /\ fd' = fd \ {p} /\ To(p, "gone")
    /\ UNCHANGED <<script, loaded, stuck, refusals>>

Next ==
    \/ Insmod \/ StartCase \/ NextCase \/ Rmmod \/ Fork \/ Kill
    \/ \E p \in Clients : Open(p) \/ Create(p) \/ Use(p) \/ Exit(p)
Spec == Init /\ [][Next]_vars
(* The scheduler runs every process that can run. *)
FairSpec == Spec /\ WF_vars(Next)
-----------------------------------------------------------------------------
TypeOK ==
    /\ owner \in [SlotIds -> Clients \cup {Nobody}] /\ script \in 9 .. 18
    /\ loaded \in BOOLEAN /\ st \in [Clients -> States] /\ fd \subseteq Clients
    /\ error_no \in BOOLEAN /\ stuck \in Clients \cup {Nobody} /\ refusals \in 0 .. Cardinality(Clients)

(* What case 4 leaves behind: the test kills three of its four children, so    *)
(* the only process that may keep the device open, and rmmod from unloading    *)
(* the driver, is the last one - or a 3 x 3 maze was drawn, and whoever wants    *)
(* maze_mutex waits.                                                            *)
Settled == stuck # Nobody \/ (script = 18 /\ fd \subseteq {Last})
OnlyLastStays == <>[]Settled

(* A slot whose owner is gone is lost.  Each refused create loses one at most:  *)
(* its error_no makes one release skip del_user.                               *)
Lost == {s \in SlotIds : owner[s] # Nobody /\ st[owner[s]] = "gone"}
LostByRefusal == Cardinality(Lost) + (IF error_no THEN 1 ELSE 0) <= refusals
==============================================================================
