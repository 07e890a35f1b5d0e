----------------------------- MODULE DriverModule -----------------------------
(***************************************************************************)
(* Loading and unloading the kernel modules of lab02: maze.c and its       *)
(* ancestor hellomod.c have the same init and exit functions, up to the    *)
(* names of the device and the /proc file, and both name their class       *)
(* "upclass".                                                              *)
(*                                                                         *)
(* The kernel's part is external: class_create, device_create and cdev_add *)
(* report failure by an error number (ERR_PTR, or negative and not -1),    *)
(* which the tests for NULL and -1 take for success; the labels that would *)
(* undo the steps before them are never reached.                           *)
(***************************************************************************)
EXTENDS Naturals, FiniteSets

CONSTANTS Modules,   \* "maze", "hellomod"
          MaxOpen    \* descriptors on one device (bound)

DriverAssumption == MaxOpen \in Nat

VARIABLES at,      \* at[m]: "out", the next step of init or exit, "in", "oops"
          held,    \* held[m]: what m has registered with the kernel
          fds,     \* fds[m]: open descriptors, each of which pins m
          readers  \* readers[m]: calls inside m's /proc functions
vars == <<at, held, fds, readers>>

Init ==
    /\ at = [m \in Modules |-> "out"] /\ held = [m \in Modules |-> {}]
    /\ fds = [m \in Modules |-> 0] /\ readers = [m \in Modules |-> 0]

Goto(m, step) == at' = [at EXCEPT ![m] = step]
Register(m, what) == held' = [held EXCEPT ![m] = @ \cup {what}]
Unregister(m, what) == held' = [held EXCEPT ![m] = @ \ {what}]

(* init: alloc_chrdev_region; when that fails, insmod does.                  *)
Insmod(m) ==
    /\ at[m] = "out"
    /\ Register(m, "region") /\ Goto(m, "class")
    /\ UNCHANGED <<fds, readers>>

(* class_create fails when the name is taken, or for want of memory; the     *)
(* error pointer passes for a class, and storing its devnode oopses.         *)
ClassTaken == \E n \in Modules : "class" \in held[n]
ClassCreate(m) ==
    /\ at[m] = "class"
    /\ \/ ~ClassTaken /\ Register(m, "class") /\ Goto(m, "device")
       \/ Goto(m, "oops") /\ UNCHANGED held
    /\ UNCHANGED <<fds, readers>>

DeviceCreate(m) ==
    /\ at[m] = "device"
    /\ Register(m, "device") \/ UNCHANGED held
    /\ Goto(m, "cdev")
    /\ UNCHANGED <<fds, readers>>

CdevAdd(m) ==
    /\ at[m] = "cdev"
    /\ Register(m, "cdev") \/ UNCHANGED held
    /\ Goto(m, "proc")
    /\ UNCHANGED <<fds, readers>>

ProcCreate(m) ==
    /\ at[m] = "proc"
    /\ Register(m, "proc") \/ UNCHANGED held
    /\ Goto(m, "in")
    /\ UNCHANGED <<fds, readers>>

(* rmmod: the kernel refuses while a descriptor pins the module (.owner).    *)
Unpinned(m) == fds[m] = 0
Rmmod(m) ==
    /\ at[m] = "in" /\ Unpinned(m)
    /\ Goto(m, "remove_proc")
    /\ UNCHANGED <<held, fds, readers>>

(* exit, in the reverse order.  remove_proc_entry waits for the calls inside. *)
UndoNext == [remove_proc |-> "cdev_del", cdev_del |-> "device_destroy",
             device_destroy |-> "class_destroy", class_destroy |-> "unregister",
             unregister |-> "out"]
UndoForgetsClass ==                                \* seeded fault: no class_destroy
    [remove_proc |-> "proc", cdev_del |-> "cdev", device_destroy |-> "device",
     class_destroy |-> "device", unregister |-> "region"]
Undo == [remove_proc |-> "proc", cdev_del |-> "cdev", device_destroy |-> "device",
         class_destroy |-> "class", unregister |-> "region"]
Exit(m) ==
    /\ at[m] \in DOMAIN Undo
    /\ at[m] = "remove_proc" => readers[m] = 0
    /\ Unregister(m, Undo[at[m]]) /\ Goto(m, UndoNext[at[m]])
    /\ UNCHANGED <<fds, readers>>

(* Users.  The device answers as soon as cdev_add is done, before init is;   *)
(* open takes a reference, which fails once the exit has begun.              *)
Open(m) ==
    /\ at[m] \in {"proc", "in"} /\ {"device", "cdev"} \subseteq held[m]
    /\ fds[m] < MaxOpen
    /\ fds' = [fds EXCEPT ![m] = @ + 1]
    /\ UNCHANGED <<at, held, readers>>
Close(m) ==
    /\ fds[m] > 0
    /\ fds' = [fds EXCEPT ![m] = @ - 1]
    /\ UNCHANGED <<at, held, readers>>
ReadProc(m) ==
    /\ "proc" \in held[m] /\ readers[m] = 0
    /\ readers' = [readers EXCEPT ![m] = 1]
    /\ UNCHANGED <<at, held, fds>>
ReadDone(m) ==
    /\ readers[m] = 1
    /\ readers' = [readers EXCEPT ![m] = 0]
    /\ UNCHANGED <<at, held, fds>>

Next == \E m \in Modules :
    \/ Insmod(m) \/ ClassCreate(m) \/ DeviceCreate(m) \/ CdevAdd(m) \/ ProcCreate(m)
    \/ Rmmod(m) \/ Exit(m) \/ Open(m) \/ Close(m) \/ ReadProc(m) \/ ReadDone(m)
Spec == Init /\ [][Next]_vars
-----------------------------------------------------------------------------
Things == {"region", "class", "device", "cdev", "proc"}
Steps == {"out", "class", "device", "cdev", "proc", "in", "oops"} \cup DOMAIN Undo
TypeOK ==
    /\ at \in [Modules -> Steps] /\ held \in [Modules -> SUBSET Things]
    /\ fds \in [Modules -> 0 .. MaxOpen] /\ readers \in [Modules -> 0 .. 1]

(* Whatever failed while it was loaded, a module that is out has left nothing *)
(* behind, and between the steps nothing outlives what it rests on: a device   *)
(* its class, a cdev its number.                                              *)
NothingLeft ==
    \A m \in Modules :
        /\ at[m] = "out" => held[m] = {}
        /\ "device" \in held[m] => "class" \in held[m]
        /\ held[m] # {} => "region" \in held[m]

(* An open descriptor keeps the functions it calls in memory: its module is    *)
(* loaded, or finishing init, and its cdev registered.                         *)
PinnedByOpen ==
    \A m \in Modules : fds[m] > 0 => at[m] \in {"proc", "in"} /\ "cdev" \in held[m]

(* The two modules share the class name, and the later insmod oopses: they     *)
(* are never loaded together, and a module that got past its class excludes     *)
(* the other until its own class is destroyed.                                  *)
NeverBoth == \A m, n \in Modules : m # n => ~(at[m] = "in" /\ at[n] = "in")

(* The three together: insmod and rmmod in any order, with failures of every  *)
(* call and users in between, leave nothing dangling.                         *)
NothingDangles == NothingLeft /\ PinnedByOpen /\ NeverBoth
=============================================================================
