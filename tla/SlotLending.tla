---------------------------- MODULE SlotLending ----------------------------
(***************************************************************************)
(* What the maze device promises its clients about the slots, whatever     *)
(* goes on inside (src/lab02/hand_in_version/maze.c, pids): a client that  *)
(* asks is lent one free slot or sent away, has never two, and keeps the   *)
(* slot until it leaves itself.                                            *)
(***************************************************************************)
EXTENDS Naturals

CONSTANTS Clients, SlotIds, Nobody

VARIABLES owner,              \* whose each slot is
          asking, leaving     \* the clients that wait for a slot, that go

lending == <<owner, asking, leaving>>

Free == {s \in SlotIds : owner[s] = Nobody}
Holds(p, s) == owner[s] = p

Ask(p) ==
    /\ p \notin asking \cup leaving
    /\ asking' = asking \cup {p}
    /\ UNCHANGED <<owner, leaving>>

SendAway(p) ==
    /\ p \in asking
    /\ asking' = asking \ {p}
    /\ UNCHANGED <<owner, leaving>>

Lend(p, s) ==
    /\ p \in asking /\ s \in Free
    /\ \A t \in SlotIds : ~Holds(p, t)
    /\ owner' = [owner EXCEPT ![s] = p]
    /\ asking' = asking \ {p}
    /\ UNCHANGED leaving

Leave(p) ==
    /\ p \notin asking \cup leaving
    /\ \E s \in SlotIds : Holds(p, s)
    /\ leaving' = leaving \cup {p}
    /\ UNCHANGED <<owner, asking>>

GiveBack(p, s) ==
    /\ p \in leaving /\ Holds(p, s)
    /\ owner' = [owner EXCEPT ![s] = Nobody]
    /\ leaving' = leaving \ {p}
    /\ UNCHANGED asking

LendInit == owner = [s \in SlotIds |-> Nobody] /\ asking = {} /\ leaving = {}
LendNext == \E p \in Clients :
                \/ Ask(p) \/ SendAway(p) \/ Leave(p)
                \/ \E s \in SlotIds : Lend(p, s) \/ GiveBack(p, s)
LendSpec == LendInit /\ [][LendNext]_lending
=============================================================================
