-------------------------------- MODULE Labs --------------------------------
(* The small components beside the driver and the debugger: MazeGen, and     *)
(* instances of Logger, Launcher, DriverModule, DraftDevice and MazeTest.    *)
(* They share no state, so one specification runs them side by side: `turn'  *)
(* is the one that runs, the others rest in an initial state.                *)
EXTENDS MazeGen

CONSTANTS
    Chars, Names, Root, LinkTo, Words, Behind, Hosts, Lists,
    MaxWords, MaxLogged,                                             \* Logger
    Argvs,                                                           \* Launcher
    Modules, MaxOpen,                                                \* DriverModule
    Procs, Slots, Destroyers, Layouts, BadSizes, Deltas, Batches,     \* DraftDevice
    Children, Clients, SlotIds, Nobody                               \* MazeTest

VARIABLES turn,
    disk, pos, only_filename, logs, config, alive, last,             \* Logger
    argv, cnt, find_command, command, config_file, output_file,
    so_path, arg_check, parsing,                                     \* Launcher
    at, held, fds, readers,                                          \* DriverModule
    maze_user_info, num_users, coord, maze, only_for_q3, open,
    reply, fault,                                                    \* DraftDevice
    owner, script, loaded, st, fd, error_no, stuck, refusals         \* MazeTest
logVars == <<disk, pos, only_filename, logs, config, alive, last>>
lauVars == <<argv, cnt, find_command, command, config_file, output_file, so_path,
             arg_check, parsing>>
drvVars == <<at, held, fds, readers>>
draVars == <<maze_user_info, num_users, coord, maze, only_for_q3, open, reply, fault>>
tesVars == <<owner, script, loaded, st, fd, error_no, stuck, refusals>>
-----------------------------------------------------------------------------
Log == INSTANCE Logger
Lau == INSTANCE Launcher WITH stage <- parsing
Drv == INSTANCE DriverModule
Dra == INSTANCE DraftDevice
Tes == INSTANCE MazeTest

ASSUME LabsAssumption ==
    /\ Log!LoggerAssumption /\ Lau!LauncherAssumption /\ Drv!DriverAssumption
    /\ Dra!DraftAssumption /\ Tes!TestAssumption
-----------------------------------------------------------------------------
(* MazeGen and Launcher have several initial states; at rest they are in one. *)
restVersion == CHOOSE v \in Versions : TRUE
restSize == CHOOSE s \in Sizes : TRUE
restArgv == CHOOSE a \in Argvs : TRUE
genRests == version = restVersion /\ size = restSize
lauRests == argv = restArgv
LabsInit ==
    /\ turn \in {"gen", "log", "lau", "drv", "dra", "tes"}
    /\ Init /\ (turn # "gen" => genRests)
    /\ Lau!Init /\ (turn # "lau" => lauRests)
    /\ Log!Init /\ Drv!Init /\ Dra!Init /\ Tes!Init

GenStep == /\ turn = "gen" /\ Next
           /\ UNCHANGED <<turn, logVars, lauVars, drvVars, draVars, tesVars>>
LogStep == /\ turn = "log" /\ Log!Next
           /\ UNCHANGED <<turn, vars, lauVars, drvVars, draVars, tesVars>>
LauStep == /\ turn = "lau" /\ Lau!Next
           /\ UNCHANGED <<turn, vars, logVars, drvVars, draVars, tesVars>>
DrvStep == /\ turn = "drv" /\ Drv!Next
           /\ UNCHANGED <<turn, vars, logVars, lauVars, draVars, tesVars>>
DraStep == /\ turn = "dra" /\ Dra!Next
           /\ UNCHANGED <<turn, vars, logVars, lauVars, drvVars, tesVars>>
TesStep == /\ turn = "tes" /\ Tes!Next
           /\ UNCHANGED <<turn, vars, logVars, lauVars, drvVars, draVars>>

labs == <<turn, vars, logVars, lauVars, drvVars, draVars, tesVars>>
LabsNext == GenStep \/ LogStep \/ LauStep \/ DrvStep \/ DraStep \/ TesStep
(* The fairness of MazeGen and MazeTest; the others have no liveness.         *)
LabsSpec == LabsInit /\ [][LabsNext]_labs /\ WF_labs(GenStep) /\ WF_labs(TesStep)
-----------------------------------------------------------------------------
(* The properties are those of the modules, where they are explained.         *)
TypesOK == TypeOK /\ Log!TypeOK /\ Lau!TypeOK /\ Drv!TypeOK /\ Dra!TypeOK /\ Tes!TypeOK

(* hw01: the preloaded logger, and its launcher. *)
NeverMissed == Log!NeverMissed
LogsFaithful == Log!LogsFaithful
RefusedReadKeepsPlace == [][turn = "log" => Log!KeepsPlace]_labs
KeepsCommand == Lau!KeepsCommand

(* lab02: loading the modules, the driver's draft, and the test run. *)
NothingDangles == Drv!NothingDangles
DraftServes == Dra!DraftServes
LostByRefusal == Tes!LostByRefusal
OnlyLastStays == <>[](turn = "tes" => Tes!Settled)
=============================================================================
