------------------------------- MODULE Launcher -------------------------------
(***************************************************************************)
(* The launcher of hw01 (src/hw01/hw1_hiddencase/logger.c):                *)
(*   logger config.txt [-o file] [-p sopath] command [arg1 arg2 ...]       *)
(* parse_args walks over argv with one branch per kind of word; main sets  *)
(* two environment variables and hands a command line to system().         *)
(*                                                                         *)
(* A word is a record of what the branches tell apart and a name; words    *)
(* joined by a blank are words of the command line.  An option does not    *)
(* contain "config.txt".                                                   *)
(***************************************************************************)
EXTENDS Naturals, Sequences, SequencesExt

CONSTANTS Argvs     \* the argument vectors, without argv[0]

(* "./": begins with it; "config.txt": contains it; "-o", "-p": begins so;   *)
(* "-": any other word that begins with a dash.                             *)
Kinds == {"./", "config.txt", "-o", "-p", "-", "plain"}
LauncherAssumption ==
    \A a \in Argvs : /\ a \in Seq([kind : Kinds, name : STRING])

VARIABLES argv, cnt, find_command,
          command, config_file, output_file, so_path,   \* words, or Default
          arg_check,                                     \* words kept
          stage                            \* "parse", "run", "done", "fault"
vars == <<argv, cnt, find_command, command, config_file, output_file, so_path,
          arg_check, stage>>

Default == [kind |-> "none", name |-> "default"]   \* NULL, "config.txt", "./logger.so"
Dash(w) == w.kind \in {"-", "-o", "-p"}
More(k) == cnt + k <= Len(argv)
Word == argv[cnt]
After == IF More(1) THEN argv[cnt + 1] ELSE Default       \* argv[argc] is NULL
Skip(k) == cnt' = cnt + k

Init ==
    /\ argv \in Argvs /\ cnt = 1 /\ find_command = FALSE
    /\ command = Default /\ config_file = Default
    /\ output_file = Default /\ so_path = Default
    /\ arg_check = <<>> /\ stage = "parse"

Parsing == stage = "parse" /\ More(0)

Command ==
    /\ Parsing /\ Word.kind = "./"
    /\ command' = Word /\ find_command' = TRUE /\ Skip(1)
    /\ UNCHANGED <<argv, config_file, output_file, so_path, arg_check, stage>>

(* The first word after the command that is no option is an argument,        *)
(* whatever it is called.                                                    *)
KeepFirst(ws) == arg_check' = Append(arg_check, ws[1])    \* seeded fault: the pair's second is lost
Keep(ws) == arg_check' = arg_check \o ws
FirstArg == Word.kind # "./" /\ ~Dash(Word) /\ find_command
AfterCommand ==
    /\ Parsing /\ FirstArg
    /\ Keep(<<Word>>) /\ find_command' = FALSE /\ Skip(1)
    /\ UNCHANGED <<argv, command, config_file, output_file, so_path, stage>>

Config ==
    /\ Parsing /\ ~FirstArg /\ Word.kind = "config.txt"
    /\ config_file' = IF config_file = Default THEN Word ELSE config_file
    /\ Skip(1)
    /\ UNCHANGED <<argv, find_command, command, output_file, so_path, arg_check, stage>>

Output ==
    /\ Parsing /\ Word.kind = "-o"
    /\ output_file' = After /\ Skip(2)
    /\ UNCHANGED <<argv, find_command, command, config_file, so_path, arg_check, stage>>

SoPath ==
    /\ Parsing /\ Word.kind = "-p"
    /\ so_path' = After /\ Skip(2)
    /\ UNCHANGED <<argv, find_command, command, config_file, output_file, arg_check, stage>>

(* Options and arguments: an option takes the next word along when that is   *)
(* none.                                                                     *)
Takes == Word.kind = "-" /\ More(1) /\ ~Dash(After)
Argument ==
    /\ Parsing /\ ~FirstArg /\ Word.kind \in {"-", "plain"}
    /\ IF Takes THEN Keep(<<Word, After>>) /\ Skip(2) ELSE Keep(<<Word>>) /\ Skip(1)
    /\ UNCHANGED <<argv, find_command, command, config_file, output_file, so_path, stage>>

Parsed ==
    /\ stage = "parse" /\ ~More(0)
    /\ stage' = "run"
    /\ UNCHANGED <<argv, cnt, find_command, command, config_file, output_file, so_path, arg_check>>

(* main.  Without a command a null pointer is appended to the command line;  *)
(* a null so_path is refused by setenv, which is not looked at.              *)
Redirect(f) == IF f = Default THEN <<>> ELSE <<"2>", f.name>>
NamesOf(ws) == [k \in DOMAIN ws |-> ws[k].name]
CommandLine == <<command.name>> \o Redirect(output_file) \o NamesOf(arg_check)
Run ==
    /\ stage = "run"
    /\ stage' = IF command = Default THEN "fault" ELSE "done"
    /\ UNCHANGED <<argv, cnt, find_command, command, config_file, output_file, so_path, arg_check>>

Next == Command \/ AfterCommand \/ Config \/ Output \/ SoPath \/ Argument \/ Parsed \/ Run
Spec == Init /\ [][Next]_vars
-----------------------------------------------------------------------------
TypeOK ==
    /\ argv \in Argvs /\ cnt \in 1 .. Len(argv) + 2 /\ find_command \in BOOLEAN
    /\ {command, config_file, output_file, so_path} \subseteq ToSet(argv) \cup {Default}
    /\ arg_check \in Seq(ToSet(argv)) /\ stage \in {"parse", "run", "done", "fault"}

(* The usage line, for the words parse_args can tell apart: the options come  *)
(* before the command, the command begins with "./", no argument does, and    *)
(* none is "-o" or "-p" or names the configuration, unless it is the first.   *)
Commands == {k \in DOMAIN argv : argv[k].kind = "./"}
IsFlag(k) == k \in DOMAIN argv /\ argv[k].kind \in {"-o", "-p"}
AsUsage(c) ==
    /\ argv[1].kind = "config.txt" /\ Commands = {c}
    /\ \A k \in 2 .. c - 1 : IsFlag(k) # IsFlag(k - 1)
    /\ ~IsFlag(c - 1)
    /\ \A k \in c + 1 .. Len(argv) : argv[k].kind \in {"-", "plain"}
Value(flag, c) ==             \* the last one given, else the default
    LET at == {k \in 2 .. c - 1 : argv[k].kind = flag}
    IN  IF at = {} THEN Default
        ELSE argv[1 + CHOOSE k \in at : \A j \in at : j <= k]
(* An argument vector that follows the usage gives a command line of the      *)
(* command, the redirection and all arguments in their order, although         *)
(* parse_args pairs words up as it goes.                                       *)
KeepsCommand ==
    (stage \in {"run", "done", "fault"} /\ argv # <<>> /\ Commands # {}) =>
        \A c \in Commands : AsUsage(c) =>
            /\ config_file = argv[1] /\ stage # "fault"
            /\ CommandLine = <<argv[c].name>> \o Redirect(Value("-o", c))
                             \o NamesOf(SubSeq(argv, c + 1, Len(argv)))
=============================================================================
