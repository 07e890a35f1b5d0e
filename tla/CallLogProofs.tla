---------------------------- MODULE CallLogProofs ----------------------------
(***************************************************************************)
(* Proofs about hw01, for any names, blacklists and argument vectors: the  *)
(* preloaded logger (Log) lets no blocked call pass and mixes up no log,   *)
(* and its launcher (Lau) loses no word of the command line.               *)
(***************************************************************************)
EXTENDS Labs, TLAPS, SequenceTheorems, WellFoundedInduction

-----------------------------------------------------------------------------
(* The launcher.                                                             *)

Argv == [kind : Lau!Kinds, name : STRING]

LEMMA ArgvWords ==
    ASSUME Lau!LauncherAssumption, argv \in Argvs
    PROVE  /\ argv \in Seq(Argv) /\ Len(argv) \in Nat /\ DOMAIN argv = 1 .. Len(argv)
           /\ \A k \in 1 .. Len(argv) : argv[k] \in Argv /\ argv[k] # Lau!Default
                                        /\ argv[k] \in Lau!ToSet(argv)
           /\ argv \in Seq(Lau!ToSet(argv))
<1>1. argv \in Seq(Argv)
  BY DEF Lau!LauncherAssumption, Argv
<1>2. Len(argv) \in Nat /\ DOMAIN argv = 1 .. Len(argv)
  BY <1>1, LenProperties
<1>3. \A k \in 1 .. Len(argv) : argv[k] \in Argv
  BY <1>1, ElementOfSeq
<1>4. \A w \in Argv : w # Lau!Default
  BY DEF Argv, Lau!Kinds, Lau!Default
<1>5. \A k \in 1 .. Len(argv) : argv[k] \in Lau!ToSet(argv)
  BY <1>2 DEF Lau!ToSet
<1>6. argv \in Seq(Lau!ToSet(argv))
  BY <1>1, <1>2, <1>5
<1> QED BY <1>1, <1>2, <1>3, <1>4, <1>5, <1>6

LEMMA LauInit ==
    ASSUME Lau!LauncherAssumption, Lau!Init
    PROVE  Lau!TypeOK
<1>1. Len(argv) \in Nat
  BY ArgvWords DEF Lau!Init
<1>2. <<>> \in Seq(Lau!ToSet(argv))
  OBVIOUS
<1>3. argv \in Argvs
  BY DEF Lau!Init
<1>4. cnt \in 1 .. Len(argv) + 2
  BY <1>1 DEF Lau!Init
<1>5. find_command \in BOOLEAN /\ parsing \in {"parse", "run", "done", "fault"}
  BY DEF Lau!Init
<1>6. arg_check \in Seq(Lau!ToSet(argv))
  BY <1>2 DEF Lau!Init
<1>7. {command, config_file, output_file, so_path} \subseteq Lau!ToSet(argv) \cup {Lau!Default}
  BY DEF Lau!Init
<1> QED BY <1>3, <1>4, <1>5, <1>6, <1>7 DEF Lau!TypeOK

(* A step keeps at most two words, which are words of argv.                   *)
LEMMA KeepTyped ==
    ASSUME Lau!LauncherAssumption, Lau!TypeOK, Lau!Parsing,
           \/ Lau!Keep(<<Lau!Word>>)
           \/ Lau!Takes /\ Lau!Keep(<<Lau!Word, Lau!After>>)
    PROVE  arg_check' \in Seq(Lau!ToSet(argv))
<1>1. Len(argv) \in Nat /\ cnt \in 1 .. Len(argv)
  BY ArgvWords DEF Lau!TypeOK, Lau!Parsing, Lau!More
<1>2. Lau!Word \in Lau!ToSet(argv)
  BY <1>1, ArgvWords DEF Lau!TypeOK, Lau!Word
<1>3. Lau!Takes => Lau!After \in Lau!ToSet(argv)
  BY <1>1, ArgvWords DEF Lau!TypeOK, Lau!After, Lau!Takes, Lau!More
<1>4. arg_check \in Seq(Lau!ToSet(argv))
  BY DEF Lau!TypeOK
<1>5. CASE Lau!Keep(<<Lau!Word>>)
  <2>1. <<Lau!Word>> \in Seq(Lau!ToSet(argv))
    BY <1>2
  <2> QED BY <1>4, <1>5, <2>1, ConcatProperties DEF Lau!Keep
<1>6. CASE Lau!Takes /\ Lau!Keep(<<Lau!Word, Lau!After>>)
  <2>1. <<Lau!Word, Lau!After>> \in Seq(Lau!ToSet(argv))
    BY <1>2, <1>3, <1>6
  <2> QED BY <1>4, <1>6, <2>1, ConcatProperties DEF Lau!Keep
<1> QED BY <1>5, <1>6

LEMMA LauTyped ==
    ASSUME Lau!LauncherAssumption, Lau!TypeOK, Lau!Next
    PROVE  Lau!TypeOK'
<1> DEFINE Value(w) == w \in Lau!ToSet(argv) \cup {Lau!Default}
<1>1. /\ argv \in Argvs /\ cnt \in Nat /\ 1 <= cnt /\ cnt <= Len(argv) + 2
      /\ find_command \in BOOLEAN /\ parsing \in {"parse", "run", "done", "fault"}
      /\ Value(command) /\ Value(config_file) /\ Value(output_file) /\ Value(so_path)
      /\ arg_check \in Seq(Lau!ToSet(argv))
  BY ArgvWords DEF Lau!TypeOK
<1>2. Len(argv) \in Nat
  BY <1>1, ArgvWords
<1>3. Lau!Parsing => cnt <= Len(argv) /\ Value(Lau!Word) /\ Value(Lau!After)
  <2> SUFFICES ASSUME Lau!Parsing PROVE cnt <= Len(argv) /\ Value(Lau!Word) /\ Value(Lau!After)
    OBVIOUS
  <2>1. cnt \in 1 .. Len(argv)
    BY <1>1, <1>2 DEF Lau!Parsing, Lau!More
  <2>2. Lau!More(1) => cnt + 1 \in 1 .. Len(argv)
    BY <2>1, <1>2 DEF Lau!More
  <2>3. Value(Lau!After)
    BY <1>1, <2>2, ArgvWords DEF Lau!After
  <2> QED BY <1>1, <2>1, <2>3, ArgvWords DEF Lau!Word
<1> HIDE DEF Value
<1>4. ASSUME argv' = argv, cnt' \in 1 .. Len(argv) + 2, find_command' \in BOOLEAN,
             parsing' \in {"parse", "run", "done", "fault"},
             Value(command'), Value(config_file'), Value(output_file'), Value(so_path'),
             arg_check' \in Seq(Lau!ToSet(argv))
      PROVE  Lau!TypeOK'
  BY <1>1, <1>4 DEF Lau!TypeOK, Value
<1>5. CASE Lau!Command
  BY <1>1, <1>2, <1>3, <1>4, <1>5 DEF Lau!Command, Lau!Skip
<1>6. CASE Lau!AfterCommand
  <2>1. arg_check' \in Seq(Lau!ToSet(argv))
    BY <1>6, KeepTyped DEF Lau!AfterCommand
  <2>2. cnt' \in 1 .. Len(argv) + 2 /\ find_command' = FALSE
    BY <1>1, <1>2, <1>3, <1>6 DEF Lau!AfterCommand, Lau!Skip
  <2> QED BY <1>1, <1>4, <1>6, <2>1, <2>2 DEF Lau!AfterCommand
<1>7. CASE Lau!Config
  BY <1>1, <1>2, <1>3, <1>4, <1>7 DEF Lau!Config, Lau!Skip
<1>8. CASE Lau!Output
  BY <1>1, <1>2, <1>3, <1>4, <1>8 DEF Lau!Output, Lau!Skip
<1>9. CASE Lau!SoPath
  BY <1>1, <1>2, <1>3, <1>4, <1>9 DEF Lau!SoPath, Lau!Skip
<1>10. CASE Lau!Argument
  <2>1. arg_check' \in Seq(Lau!ToSet(argv))
    BY <1>10, KeepTyped DEF Lau!Argument
  <2>2. cnt' \in 1 .. Len(argv) + 2
    BY <1>1, <1>2, <1>3, <1>10 DEF Lau!Argument, Lau!Skip
  <2> QED BY <1>1, <1>4, <1>10, <2>1, <2>2 DEF Lau!Argument
<1>11. CASE Lau!Parsed
  BY <1>1, <1>2, <1>4, <1>11 DEF Lau!Parsed
<1>12. CASE Lau!Run
  BY <1>1, <1>2, <1>4, <1>12 DEF Lau!Run
<1> QED BY <1>5, <1>6, <1>7, <1>8, <1>9, <1>10, <1>11, <1>12 DEF Lau!Next

(* The launcher keeps its types for any argument vectors.                     *)
THEOREM LauncherTypes == ASSUME Lau!LauncherAssumption PROVE Lau!Spec => []Lau!TypeOK
<1>1. Lau!Init => Lau!TypeOK
  BY LauInit
<1>2. Lau!TypeOK /\ [Lau!Next]_(Lau!vars) => Lau!TypeOK'
  <2>1. Lau!TypeOK /\ UNCHANGED Lau!vars => Lau!TypeOK'
    BY DEF Lau!TypeOK, Lau!vars
  <2> QED BY <2>1, LauTyped
<1> QED BY <1>1, <1>2, PTL DEF Lau!Spec
-----------------------------------------------------------------------------
(* The loop over a vector that follows the usage, with the command at c.       *)
(* Before the command it stands on the configuration, on a flag or on the      *)
(* command itself, and has kept nothing; after it, it has kept all words.      *)
IsValue(v, flag, n) ==
    \/ v = Lau!Default /\ \A k \in 2 .. n - 1 : argv[k].kind # flag
    \/ \E k \in 2 .. n - 1 : /\ argv[k].kind = flag /\ v = argv[k + 1]
                             /\ \A j \in k + 1 .. n - 1 : argv[j].kind # flag
ToCommand(c) ==
    /\ cnt <= c /\ (cnt = 1 \/ cnt = c \/ Lau!IsFlag(cnt))
    /\ find_command = FALSE /\ arg_check = <<>>
    /\ config_file = IF cnt = 1 THEN Lau!Default ELSE argv[1]
    /\ IsValue(output_file, "-o", cnt)
PastCommand(c) ==
    /\ c < cnt /\ cnt <= Len(argv) + 1
    /\ command = argv[c] /\ config_file = argv[1] /\ IsValue(output_file, "-o", c)
    /\ arg_check = SubSeq(argv, c + 1, cnt - 1)
ParseInv(c) ==
    /\ parsing = "parse" => ToCommand(c) \/ PastCommand(c)
    /\ parsing # "parse" => PastCommand(c) /\ cnt = Len(argv) + 1 /\ parsing # "fault"
Follows(c) == c \in Lau!Commands /\ Lau!AsUsage(c)
LauInv == Lau!TypeOK /\ \A c \in Nat : Follows(c) => ParseInv(c)

(* What such a vector looks like.                                             *)
LEMMA Usage ==
    ASSUME Lau!LauncherAssumption, argv \in Argvs, NEW c \in Nat, Follows(c)
    PROVE  /\ Len(argv) \in Nat /\ 1 < c /\ c <= Len(argv)
           /\ argv[1].kind = "config.txt" /\ argv[c].kind = "./" /\ argv[c] # Lau!Default
           /\ ~Lau!IsFlag(1) /\ ~Lau!IsFlag(c - 1)
           /\ \A k \in 2 .. c - 1 : Lau!IsFlag(k) <=> ~Lau!IsFlag(k - 1)
           /\ \A k \in c + 1 .. Len(argv) : argv[k].kind \in {"-", "plain"}
           /\ \A k \in 1 .. Len(argv) : Lau!IsFlag(k) <=> argv[k].kind \in {"-o", "-p"}
<1>1. /\ argv[1].kind = "config.txt" /\ ~Lau!IsFlag(c - 1)
      /\ \A k \in c + 1 .. Len(argv) : argv[k].kind \in {"-", "plain"}
  BY DEF Follows, Lau!AsUsage
<1>2. Len(argv) \in Nat /\ DOMAIN argv = 1 .. Len(argv) /\ argv[c] # Lau!Default
  BY ArgvWords DEF Follows, Lau!Commands
<1>3. c \in DOMAIN argv /\ argv[c].kind = "./"
  BY DEF Follows, Lau!Commands
<1>4. c # 1
  BY <1>1, <1>3
<1>5. \A k \in 1 .. Len(argv) : Lau!IsFlag(k) <=> argv[k].kind \in {"-o", "-p"}
  BY <1>2 DEF Lau!IsFlag
<1>6. ~Lau!IsFlag(1)
  BY <1>1 DEF Lau!IsFlag
<1>7. ASSUME NEW k \in 2 .. c - 1 PROVE Lau!IsFlag(k) <=> ~Lau!IsFlag(k - 1)
  <2>1. Lau!IsFlag(k) # Lau!IsFlag(k - 1)
    BY DEF Follows, Lau!AsUsage
  <2>2. Lau!IsFlag(k) \in BOOLEAN /\ Lau!IsFlag(k - 1) \in BOOLEAN
    BY DEF Lau!IsFlag
  <2> QED BY <2>1, <2>2
<1> QED BY <1>1, <1>2, <1>3, <1>4, <1>5, <1>6, <1>7

(* The value so far is the one the usage means.                               *)
LEMMA ValueMeant ==
    ASSUME NEW flag, NEW n \in Nat, NEW v, IsValue(v, flag, n)
    PROVE  v = Lau!Value(flag, n)
<1> DEFINE S == {j \in 2 .. n - 1 : argv[j].kind = flag}
           greatest == CHOOSE i \in S : \A j \in S : j <= i
<1>1. Lau!Value(flag, n) = IF S = {} THEN Lau!Default ELSE argv[1 + greatest]
  BY DEF Lau!Value
<1>2. CASE \A k \in 2 .. n - 1 : argv[k].kind # flag
  BY <1>1, <1>2 DEF IsValue
<1>3. ASSUME NEW k \in 2 .. n - 1, argv[k].kind = flag, v = argv[k + 1],
             \A j \in k + 1 .. n - 1 : argv[j].kind # flag
      PROVE  v = Lau!Value(flag, n)
  <2>1. k \in S /\ \A j \in S : j <= k
    BY <1>3
  <2>2. greatest \in S /\ \A j \in S : j <= greatest
    BY <2>1
  <2>3. greatest = k
    BY <2>1, <2>2
  <2> QED BY <1>1, <1>3, <2>1, <2>3
<1> QED BY <1>2, <1>3 DEF IsValue

(* A flag is followed by its value, and that by a flag or the command.         *)
LEMMA FlagStep ==
    ASSUME Lau!LauncherAssumption, argv \in Argvs, NEW c \in Nat, Follows(c),
           cnt \in Nat \ {0}, ToCommand(c), cnt # c, cnt # 1
    PROVE  /\ argv[cnt].kind \in {"-o", "-p"} /\ ~Lau!IsFlag(cnt + 1)
           /\ cnt + 2 <= c /\ (cnt + 2 = c \/ Lau!IsFlag(cnt + 2))
           /\ Lau!After = argv[cnt + 1]
<1>1. cnt \in 2 .. c - 1 /\ Lau!IsFlag(cnt) /\ c \in 1 .. Len(argv) /\ Len(argv) \in Nat
  BY Usage DEF ToCommand
<1>2. cnt # c - 1
  BY <1>1, Usage
<1>3. cnt + 1 \in 2 .. c - 1 /\ cnt + 1 - 1 = cnt
  BY <1>1, <1>2
<1>4. ~Lau!IsFlag(cnt + 1)
  BY <1>1, <1>3, Usage
<1>5. cnt + 2 # c => cnt + 2 \in 2 .. c - 1 /\ cnt + 2 - 1 = cnt + 1
  BY <1>3
<1>6. cnt + 2 # c => Lau!IsFlag(cnt + 2)
  BY <1>4, <1>5, Usage
<1>7. Lau!After = argv[cnt + 1]
  BY <1>1 DEF Lau!After, Lau!More
<1>8. argv[cnt].kind \in {"-o", "-p"}
  BY <1>1, Usage
<1> QED BY <1>3, <1>4, <1>6, <1>7, <1>8

(* Up to the command: the configuration, then flags with their values.         *)
LEMMA BeforeStep ==
    ASSUME Lau!LauncherAssumption, Lau!TypeOK, NEW c \in Nat, Follows(c), ToCommand(c),
           parsing = "parse", Lau!Next
    PROVE  argv' = argv /\ parsing' = "parse" /\ (ToCommand(c)' \/ PastCommand(c)')
<1>1. argv \in Argvs /\ cnt \in Nat \ {0} /\ Len(argv) \in Nat
  BY ArgvWords DEF Lau!TypeOK
<1>2. /\ 1 < c /\ c <= Len(argv) /\ cnt <= c
      /\ argv[1].kind = "config.txt" /\ argv[c].kind = "./"
  BY <1>1, Usage DEF ToCommand
<1>3. find_command = FALSE /\ ~Lau!FirstArg
  BY DEF ToCommand, Lau!FirstArg
<1>4. ~Lau!Parsed /\ ~Lau!AfterCommand /\ ~Lau!Run
  BY <1>1, <1>2, <1>3 DEF Lau!Parsed, Lau!More, Lau!AfterCommand, Lau!Run
<1>5. CASE cnt = 1
  <2>1. Lau!Config
    BY <1>2, <1>4, <1>5 DEF Lau!Next, Lau!Command, Lau!Output, Lau!SoPath, Lau!Argument, Lau!Word
  <2>2. /\ argv' = argv /\ parsing' = "parse" /\ cnt' = 2 /\ config_file' = argv[1]
        /\ find_command' = FALSE /\ arg_check' = <<>> /\ output_file' = output_file
    BY <1>3, <1>5, <2>1 DEF Lau!Config, Lau!Skip, Lau!Word, ToCommand
  <2>3. output_file = Lau!Default
    BY <1>5 DEF ToCommand, IsValue
  <2>4. IsValue(output_file, "-o", cnt)'
    BY <2>2, <2>3 DEF IsValue
  <2>5. 2 # c => Lau!IsFlag(2)
    <3>1. 2 # c => 2 \in 2 .. c - 1 /\ 2 - 1 = 1
      BY <1>2
    <3> QED BY <1>1, <3>1, Usage
  <2>6. 2 # c => Lau!IsFlag(cnt)'
    BY <2>2, <2>5 DEF Lau!IsFlag
  <2> QED BY <1>2, <2>2, <2>4, <2>6 DEF ToCommand
<1>6. CASE cnt # 1 /\ cnt # c
  <2>1. /\ argv[cnt].kind \in {"-o", "-p"} /\ ~Lau!IsFlag(cnt + 1)
        /\ cnt + 2 <= c /\ (cnt + 2 = c \/ Lau!IsFlag(cnt + 2))
        /\ Lau!After = argv[cnt + 1]
    BY <1>1, <1>6, FlagStep
  <2>2. argv[cnt + 1].kind \notin {"-o", "-p"}
    <3>1. cnt + 1 \in 1 .. Len(argv)
      BY <1>1, <1>2, <2>1
    <3> QED BY <1>1, <2>1, <3>1, Usage
  <2>3. Lau!Output \/ Lau!SoPath
    BY <1>4, <2>1 DEF Lau!Next, Lau!Command, Lau!Config, Lau!Argument, Lau!Word
  <2>4. /\ argv' = argv /\ parsing' = "parse" /\ cnt' = cnt + 2 /\ config_file' = config_file
        /\ find_command' = FALSE /\ arg_check' = <<>>
        /\ argv[cnt].kind = "-o" => output_file' = argv[cnt + 1]
        /\ argv[cnt].kind = "-p" => output_file' = output_file
    BY <1>3, <2>1, <2>3 DEF Lau!Output, Lau!SoPath, Lau!Skip, Lau!Word, ToCommand
  <2>5. IsValue(output_file, "-o", cnt)'
    <3>1. IsValue(output_file, "-o", cnt)
      BY DEF ToCommand
    <3>2. CASE argv[cnt].kind = "-o"
      <4>1. cnt \in 2 .. (cnt + 2) - 1 /\ \A j \in cnt + 1 .. (cnt + 2) - 1 : j = cnt + 1
        BY <1>1, <1>6
      <4> QED BY <2>2, <2>4, <3>2, <4>1 DEF IsValue
    <3>3. CASE argv[cnt].kind = "-p"
      <4>1. \A k \in 2 .. (cnt + 2) - 1 : k \in 2 .. cnt - 1 \/ k = cnt \/ k = cnt + 1
        BY <1>1
      <4>2. \A k \in 2 .. cnt - 1 : k \in 2 .. (cnt + 2) - 1
        BY <1>1
      <4>3. ASSUME NEW k \in 2 .. cnt - 1
            PROVE  \A j \in k + 1 .. (cnt + 2) - 1 : j \in k + 1 .. cnt - 1 \/ j = cnt \/ j = cnt + 1
        BY <1>1
      <4> QED BY <2>2, <2>4, <3>1, <3>3, <4>1, <4>2, <4>3 DEF IsValue
    <3> QED BY <2>1, <3>2, <3>3
  <2>6. cnt + 2 = c \/ Lau!IsFlag(cnt)'
    BY <2>1, <2>4 DEF Lau!IsFlag
  <2>7. config_file' = argv[1] /\ cnt' # 1
    BY <1>1, <1>6, <2>4 DEF ToCommand
  <2> QED BY <2>1, <2>4, <2>5, <2>6, <2>7 DEF ToCommand
<1>7. CASE cnt = c
  <2>1. Lau!Command
    BY <1>2, <1>4, <1>7 DEF Lau!Next, Lau!Config, Lau!Output, Lau!SoPath, Lau!Argument, Lau!Word
  <2>2. /\ argv' = argv /\ parsing' = "parse" /\ cnt' = c + 1 /\ command' = argv[c]
        /\ config_file' = config_file /\ arg_check' = <<>> /\ output_file' = output_file
    BY <1>7, <2>1 DEF Lau!Command, Lau!Skip, Lau!Word, ToCommand
  <2>3. config_file = argv[1] /\ IsValue(output_file, "-o", c)
    BY <1>2, <1>7 DEF ToCommand
  <2>4. IsValue(output_file, "-o", c)'
    BY <2>2, <2>3 DEF IsValue
  <2>5. SubSeq(argv, c + 1, (c + 1) - 1) = <<>>
    BY SubSeqEmpty
  <2> QED BY <1>1, <1>2, <2>2, <2>3, <2>4, <2>5 DEF PastCommand
<1> QED BY <1>5, <1>6, <1>7

LEMMA OneElement ==
    ASSUME NEW S, NEW t \in Seq(S), Len(t) = 1
    PROVE  t = <<t[1]>>
<1>1. t[1] \in S /\ \A i \in 1 .. 1 : i = 1
  BY ElementOfSeq
<1>2. <<t[1]>> \in Seq(S) /\ Len(<<t[1]>>) = 1 /\ <<t[1]>>[1] = t[1]
  BY <1>1
<1>3. \A i \in 1 .. Len(t) : t[i] = <<t[1]>>[i]
  BY <1>1, <1>2
<1> QED BY <1>2, <1>3, SeqEqual

LEMMA TwoElements ==
    ASSUME NEW S, NEW a \in S, NEW b \in S
    PROVE  <<a>> \o <<b>> = <<a, b>>
<1>1. /\ <<a>> \in Seq(S) /\ Len(<<a>>) = 1 /\ <<a>>[1] = a
      /\ <<b>> \in Seq(S) /\ Len(<<b>>) = 1 /\ <<b>>[1] = b
      /\ <<a, b>> \in Seq(S) /\ Len(<<a, b>>) = 2 /\ <<a, b>>[1] = a /\ <<a, b>>[2] = b
  OBVIOUS
<1> DEFINE u == <<a>>
           v == <<b>>
           w == <<a, b>>
<1> HIDE DEF u, v, w
<1>2. /\ u \o v \in Seq(S) /\ Len(u \o v) = Len(u) + Len(v)
      /\ \A i \in 1 .. Len(u) + Len(v) : (u \o v)[i] = IF i <= Len(u) THEN u[i] ELSE v[i - Len(u)]
  BY <1>1, ConcatProperties DEF u, v
<1>3. Len(u) = 1 /\ Len(v) = 1 /\ u[1] = a /\ v[1] = b /\ Len(w) = 2 /\ w[1] = a /\ w[2] = b
  BY <1>1 DEF u, v, w
<1>4. \A i \in 1 .. Len(u \o v) : (u \o v)[i] = w[i]
  <2>1. (u \o v)[1] = a /\ (u \o v)[2] = b /\ Len(u \o v) = 2
    BY <1>2, <1>3
  <2> QED BY <1>3, <2>1
<1>5. u \o v = w
  <2>1. w \in Seq(S)
    BY <1>1 DEF w
  <2>2. Len(u \o v) = Len(w)
    BY <1>2, <1>3
  <2> QED BY <1>2, <1>4, <2>1, <2>2, SeqEqual
<1> QED BY <1>5 DEF u, v, w

LEMMA ShortSubSeq ==
    ASSUME NEW S, NEW s \in Seq(S), NEW i \in 1 .. Len(s)
    PROVE  /\ SubSeq(s, i, i) = <<s[i]>>
           /\ i + 1 <= Len(s) => SubSeq(s, i, i + 1) = <<s[i], s[i + 1]>>
<1>1. i \in Int /\ Len(s) \in Nat /\ \A j \in 1 .. Len(s) : s[j] \in S
  BY LenProperties, ElementOfSeq
<1>2. SubSeq(s, i, i) = <<s[i]>>
  <2>1. SubSeq(s, i, i) \in Seq(S) /\ Len(SubSeq(s, i, i)) = 1 /\ SubSeq(s, i, i)[1] = s[i]
    <3>1. \A j \in i .. i : s[j] \in S
      BY <1>1
    <3>2. /\ SubSeq(s, i, i) \in Seq(S)
          /\ Len(SubSeq(s, i, i)) = IF i <= i THEN i - i + 1 ELSE 0
          /\ \A j \in 1 .. i - i + 1 : SubSeq(s, i, i)[j] = s[i + j - 1]
      BY <1>1, <3>1, SubSeqProperties
    <3>3. SubSeq(s, i, i)[1] = s[i + 1 - 1]
      BY <1>1, <3>2
    <3> QED BY <1>1, <3>2, <3>3
  <2> QED BY <2>1, OneElement
<1>3. ASSUME i + 1 <= Len(s) PROVE SubSeq(s, i, i + 1) = <<s[i], s[i + 1]>>
  <2>1. SubSeq(s, i, i) \o SubSeq(s, i + 1, i + 1) = SubSeq(s, i, i + 1)
    <3>1. i \in 1 .. Len(s) + 1 /\ i \in i - 1 .. Len(s) /\ i + 1 \in i .. Len(s)
      BY <1>1, <1>3
    <3> QED BY <3>1, ConcatAdjacentSubSeq
  <2>2. SubSeq(s, i + 1, i + 1) = <<s[i + 1]>>
    <3>1. \A j \in i + 1 .. i + 1 : s[j] \in S
      BY <1>1, <1>3
    <3>2. /\ SubSeq(s, i + 1, i + 1) \in Seq(S)
          /\ Len(SubSeq(s, i + 1, i + 1)) = IF i + 1 <= i + 1 THEN (i + 1) - (i + 1) + 1 ELSE 0
          /\ \A j \in 1 .. (i + 1) - (i + 1) + 1 : SubSeq(s, i + 1, i + 1)[j] = s[(i + 1) + j - 1]
      BY <1>1, <3>1, SubSeqProperties
    <3>3. SubSeq(s, i + 1, i + 1)[1] = s[(i + 1) + 1 - 1]
      BY <1>1, <3>2
    <3>4. Len(SubSeq(s, i + 1, i + 1)) = 1 /\ (i + 1) + 1 - 1 = i + 1
      BY <1>1, <3>2
    <3> QED BY <3>2, <3>3, <3>4, OneElement
  <2>3. <<s[i]>> \o <<s[i + 1]>> = <<s[i], s[i + 1]>>
    <3>1. i + 1 \in 1 .. Len(s)
      BY <1>1, <1>3
    <3> QED BY <1>1, <3>1, TwoElements
  <2> QED BY <1>2, <2>1, <2>2, <2>3
<1> QED BY <1>2, <1>3

(* Past the command: every word is kept, in its place.                         *)
LEMMA PastStep ==
    ASSUME Lau!LauncherAssumption, Lau!TypeOK, NEW c \in Nat, Follows(c), PastCommand(c),
           parsing = "parse", Lau!Next
    PROVE  /\ argv' = argv /\ PastCommand(c)'
           /\ parsing' = "parse" \/ (parsing' = "run" /\ cnt' = Len(argv) + 1)
<1>1. argv \in Argvs /\ cnt \in Nat /\ Len(argv) \in Nat /\ argv \in Seq(Argv)
      /\ 1 < c /\ c <= Len(argv) /\ c < cnt /\ cnt <= Len(argv) + 1
  BY ArgvWords, Usage DEF Lau!TypeOK, PastCommand
<1>2. ASSUME argv' = argv, command' = command, config_file' = config_file,
             output_file' = output_file, c < cnt', cnt' <= Len(argv) + 1,
             arg_check' = SubSeq(argv, c + 1, cnt' - 1)
      PROVE  PastCommand(c)'
  <2>1. IsValue(output_file, "-o", c)'
    BY <1>2 DEF PastCommand, IsValue
  <2> QED BY <1>2, <2>1 DEF PastCommand
<1>3. CASE Lau!Parsed
  <2>1. ~(cnt <= Len(argv)) /\ cnt' = cnt /\ parsing' = "run"
    BY <1>1, <1>3 DEF Lau!Parsed, Lau!More
  <2>2. cnt' = Len(argv) + 1
    BY <1>1, <2>1
  <2> QED BY <1>1, <1>2, <1>3, <2>1, <2>2 DEF Lau!Parsed, PastCommand
<1>4. CASE ~Lau!Parsed
  <2>1. Lau!Parsing
    BY <1>4 DEF Lau!Next, Lau!Command, Lau!AfterCommand, Lau!Config, Lau!Output, Lau!SoPath,
           Lau!Argument, Lau!Run
  <2>2. cnt \in c + 1 .. Len(argv)
    BY <1>1, <2>1 DEF Lau!Parsing, Lau!More
  <2>3. argv[cnt].kind \in {"-", "plain"}
    BY <1>1, <2>2, Usage
  <2>4. Lau!AfterCommand \/ Lau!Argument
    BY <1>4, <2>1, <2>3 DEF Lau!Next, Lau!Command, Lau!Config, Lau!Output, Lau!SoPath, Lau!Run, Lau!Word
  <2>5. /\ argv' = argv /\ parsing' = "parse" /\ command' = command
        /\ config_file' = config_file /\ output_file' = output_file
    BY <2>1, <2>4 DEF Lau!AfterCommand, Lau!Argument, Lau!Parsing
  <2>6. \/ Lau!Keep(<<Lau!Word>>) /\ cnt' = cnt + 1
        \/ Lau!Takes /\ Lau!Keep(<<Lau!Word, Lau!After>>) /\ cnt' = cnt + 2
    BY <2>4 DEF Lau!AfterCommand, Lau!Argument, Lau!Skip
  <2>7. /\ cnt - 1 \in (c + 1) - 1 .. Len(argv) /\ c + 1 \in 1 .. Len(argv) + 1
        /\ (cnt - 1) + 1 = cnt /\ cnt \in 1 .. Len(argv)
    BY <1>1, <2>2
  <2>8. CASE Lau!Keep(<<Lau!Word>>) /\ cnt' = cnt + 1
    <3>1. arg_check' = SubSeq(argv, c + 1, cnt - 1) \o SubSeq(argv, (cnt - 1) + 1, cnt)
      <4>1. SubSeq(argv, cnt, cnt) = <<argv[cnt]>>
        BY <1>1, <2>7, ShortSubSeq
      <4>2. arg_check' = SubSeq(argv, c + 1, cnt - 1) \o <<argv[cnt]>>
        BY <2>8 DEF Lau!Keep, Lau!Word, PastCommand
      <4> QED BY <2>7, <4>1, <4>2
    <3>2. arg_check' = SubSeq(argv, c + 1, cnt)
      BY <1>1, <2>2, <2>7, <3>1, ConcatAdjacentSubSeq
    <3> QED BY <1>1, <1>2, <2>2, <2>5, <2>8, <3>2
  <2>9. CASE Lau!Takes /\ Lau!Keep(<<Lau!Word, Lau!After>>) /\ cnt' = cnt + 2
    <3>1. cnt + 1 <= Len(argv) /\ Lau!After = argv[cnt + 1]
      BY <2>9 DEF Lau!Takes, Lau!More, Lau!After
    <3>2. SubSeq(argv, cnt, cnt + 1) = <<argv[cnt], argv[cnt + 1]>>
      BY <1>1, <2>7, <3>1, ShortSubSeq
    <3>3. arg_check' = SubSeq(argv, c + 1, cnt - 1) \o SubSeq(argv, (cnt - 1) + 1, cnt + 1)
      <4>1. arg_check' = SubSeq(argv, c + 1, cnt - 1) \o <<argv[cnt], argv[cnt + 1]>>
        BY <2>9, <3>1 DEF Lau!Keep, Lau!Word, PastCommand
      <4> QED BY <2>7, <3>2, <4>1
    <3>4. arg_check' = SubSeq(argv, c + 1, cnt + 1)
      BY <1>1, <2>2, <2>7, <3>1, <3>3, ConcatAdjacentSubSeq
    <3> QED BY <1>1, <1>2, <2>2, <2>5, <2>9, <3>1, <3>4
  <2> QED BY <2>5, <2>6, <2>8, <2>9
<1> QED BY <1>3, <1>4

LEMMA RunStep ==
    ASSUME Lau!LauncherAssumption, Lau!TypeOK, NEW c \in Nat, Follows(c), PastCommand(c),
           cnt = Len(argv) + 1, parsing \notin {"parse", "fault"}, Lau!Next
    PROVE  argv' = argv /\ ParseInv(c)'
<1>1. Lau!Run
  BY DEF Lau!Next, Lau!Command, Lau!AfterCommand, Lau!Config, Lau!Output, Lau!SoPath,
         Lau!Argument, Lau!Parsed, Lau!Parsing
<1>2. command # Lau!Default
  BY Usage DEF PastCommand, Lau!TypeOK
<1>3. /\ parsing' = "done" /\ argv' = argv /\ cnt' = cnt /\ command' = command
      /\ config_file' = config_file /\ output_file' = output_file /\ arg_check' = arg_check
  BY <1>1, <1>2 DEF Lau!Run
<1>4. PastCommand(c)'
  BY <1>3 DEF PastCommand, IsValue
<1> QED BY <1>3, <1>4 DEF ParseInv

LEMMA LauStep1 ==
    ASSUME Lau!LauncherAssumption, LauInv, Lau!Next
    PROVE  LauInv'
<1>1. Lau!TypeOK'
  BY LauTyped DEF LauInv
<1>2. argv' = argv
  BY DEF Lau!Next, Lau!Command, Lau!AfterCommand, Lau!Config, Lau!Output, Lau!SoPath,
         Lau!Argument, Lau!Parsed, Lau!Run
<1>3. ASSUME NEW c \in Nat, Follows(c)' PROVE ParseInv(c)'
  <2>1. Follows(c)
    BY <1>2, <1>3 DEF Follows, Lau!Commands, Lau!AsUsage, Lau!IsFlag
  <2>2. ParseInv(c)
    BY <2>1 DEF LauInv
  <2>3. CASE parsing = "parse" /\ ToCommand(c)
    BY <2>1, <2>3, BeforeStep DEF LauInv, ParseInv
  <2>4. CASE parsing = "parse" /\ PastCommand(c)
    BY <1>2, <2>1, <2>4, PastStep DEF LauInv, ParseInv
  <2>5. CASE parsing # "parse"
    BY <2>1, <2>2, <2>5, RunStep DEF LauInv, ParseInv
  <2> QED BY <2>2, <2>3, <2>4, <2>5 DEF ParseInv
<1> QED BY <1>1, <1>3 DEF LauInv

(* Whatever the usage allows, with values and options of any kind and number:   *)
(* the command line is the command, its redirection and all arguments in order, *)
(* although the loop pairs words up as it goes.                                *)
THEOREM LauncherKeepsCommand ==
    ASSUME Lau!LauncherAssumption PROVE Lau!Spec => []KeepsCommand
<1>1. Lau!Init => LauInv
  <2> SUFFICES ASSUME Lau!Init, NEW c \in Nat, Follows(c) PROVE ParseInv(c)
    BY LauInit DEF LauInv
  <2>1. 1 < c
    BY Usage DEF Lau!Init
  <2>2. IsValue(output_file, "-o", cnt)
    BY DEF Lau!Init, IsValue
  <2> QED BY <2>1, <2>2 DEF Lau!Init, ParseInv, ToCommand
<1>2. LauInv /\ [Lau!Next]_(Lau!vars) => LauInv'
  <2>1. ASSUME LauInv, UNCHANGED Lau!vars PROVE LauInv'
    <3>1. UNCHANGED <<argv, cnt, find_command, command, config_file, output_file, arg_check, parsing>>
      BY <2>1 DEF Lau!vars
    <3>2. Lau!TypeOK'
      BY <2>1 DEF LauInv, Lau!TypeOK, Lau!vars
    <3>3. ASSUME NEW c \in Nat, Follows(c)' PROVE ParseInv(c)'
      <4>1. Follows(c)
        BY <3>1, <3>3 DEF Follows, Lau!Commands, Lau!AsUsage, Lau!IsFlag
      <4>2. ParseInv(c)
        BY <2>1, <4>1 DEF LauInv
      <4> QED BY <3>1, <4>2 DEF ParseInv, ToCommand, PastCommand, IsValue, Lau!IsFlag
    <3> QED BY <3>2, <3>3 DEF LauInv
  <2> QED BY <2>1, LauStep1
<1>3. LauInv => KeepsCommand
  <2> SUFFICES ASSUME LauInv, parsing \in {"run", "done", "fault"},
                      NEW c \in Lau!Commands, Lau!AsUsage(c)
               PROVE  /\ config_file = argv[1] /\ parsing # "fault"
                      /\ Lau!CommandLine = <<argv[c].name>> \o Lau!Redirect(Lau!Value("-o", c))
                                           \o Lau!NamesOf(SubSeq(argv, c + 1, Len(argv)))
    BY DEF KeepsCommand, Lau!KeepsCommand
  <2>1. c \in Nat /\ Follows(c) /\ Len(argv) \in Nat
    BY ArgvWords DEF LauInv, Lau!TypeOK, Lau!Commands, Follows
  <2>2. PastCommand(c) /\ cnt = Len(argv) + 1 /\ parsing # "fault"
    BY <2>1 DEF LauInv, ParseInv
  <2>3. /\ command = argv[c] /\ config_file = argv[1]
        /\ arg_check = SubSeq(argv, c + 1, Len(argv))
    BY <2>1, <2>2 DEF PastCommand
  <2>4. output_file = Lau!Value("-o", c)
    BY <2>1, <2>2, ValueMeant DEF PastCommand
  <2> QED BY <2>2, <2>3, <2>4 DEF Lau!CommandLine
<1> QED BY <1>1, <1>2, <1>3, PTL DEF Lau!Spec
-----------------------------------------------------------------------------
(* Least and greatest numbers, for the logger's loops over strings.           *)

LEMMA SmallestNumber ==
    ASSUME NEW S \in SUBSET Nat, S # {}
    PROVE  \E n \in S : \A m \in S : n <= m
<1> DEFINE Less == OpToRel(<, Nat)
<1>1. PICK n \in S : \A m \in S : ~(<<m, n>> \in Less)
  <2>1. IsWellFoundedOn(Less, Nat)
    BY NatLessThanWellFounded
  <2> HIDE DEF Less
  <2> QED BY <2>1, WFMin
<1>2. \A m \in S : ~(m < n)
  BY <1>1 DEF OpToRel
<1> QED BY <1>2

LEMMA MinIn ==
    ASSUME NEW S \in SUBSET Nat, S # {}
    PROVE  Log!Min(S) \in S /\ \A m \in S : Log!Min(S) <= m
<1>1. \E n \in S : \A m \in S : n <= m
  BY SmallestNumber
<1> QED BY <1>1 DEF Log!Min

LEMMA MaxIn ==
    ASSUME NEW n \in Nat, NEW S \in SUBSET (0 .. n), S # {}
    PROVE  Log!Max(S) \in S /\ \A m \in S : m <= Log!Max(S)
<1> DEFINE T == {t \in 0 .. n : n - t \in S}
<1>1. \A k \in S : k \in 0 .. n /\ n - k \in 0 .. n /\ n - (n - k) = k
  OBVIOUS
<1>2. \A k \in S : n - k \in T
  BY <1>1
<1>3. PICK t \in T : \A u \in T : t <= u
  <2>1. T \in SUBSET Nat /\ T # {}
    <3>1. PICK k \in S : TRUE
      OBVIOUS
    <3>2. n - k \in T
      BY <1>2
    <3>3. T \in SUBSET Nat
      OBVIOUS
    <3> QED BY <3>2, <3>3
  <2> HIDE DEF T
  <2> QED BY <2>1, SmallestNumber
<1>4. n - t \in S /\ t \in 0 .. n
  BY <1>3
<1>5. \A k \in S : k <= n - t
  <2> SUFFICES ASSUME NEW k \in S PROVE k <= n - t
    OBVIOUS
  <2>1. t <= n - k
    BY <1>2, <1>3
  <2> QED BY <1>1, <1>4, <2>1
<1>6. \E g \in S : \A k \in S : g >= k
  BY <1>1, <1>4, <1>5
<1>7. Log!Max(S) \in S /\ \A k \in S : Log!Max(S) >= k
  BY <1>6 DEF Log!Max
<1> QED BY <1>1, <1>7

LEMMA MinTwo ==
    ASSUME NEW a \in Nat, NEW b \in Nat
    PROVE  Log!Min({a, b}) = IF a <= b THEN a ELSE b
<1>1. Log!Min({a, b}) \in {a, b} /\ \A m \in {a, b} : Log!Min({a, b}) <= m
  BY MinIn
<1> QED BY <1>1

LEMMA MaxTwo ==
    ASSUME NEW a \in Nat, NEW b \in Nat
    PROVE  Log!Max({a, b}) = IF a >= b THEN a ELSE b
<1>1. {a, b} \in SUBSET (0 .. a + b)
  OBVIOUS
<1>2. Log!Max({a, b}) \in {a, b} /\ \A m \in {a, b} : m <= Log!Max({a, b})
  BY <1>1, MaxIn
<1> QED BY <1>2
-----------------------------------------------------------------------------
(* compare_blacklist finds every name a pattern stands for: as far as name and *)
(* pattern agree without a star, the pattern reaches exactly as far into the   *)
(* name, so the loop can only stop at a star or at the end.                    *)
LEMMA GlobStops ==
    ASSUME NEW name \in Seq(Chars), NEW path \in Seq(Chars), Log!Glob(name, path)
    PROVE  Log!Stops(name, path, Log!Agree(name, path))
<1> DEFINE n == Len(name)
           p == Len(path)
           Same(k) == \A j \in 1 .. k : name[j] = path[j] /\ path[j] # "*"
           S == {0} \cup {k \in 1 .. Log!Min({n, p}) : Same(k)}
           a == Log!Agree(name, path)
<1>1. n \in Nat /\ p \in Nat
  BY LenProperties
<1>2. Log!Min({n, p}) = IF n <= p THEN n ELSE p
  BY <1>1, MinTwo
<1>3. a = Log!Max(S)
  BY DEF Log!Agree
<1>4. S \in SUBSET (0 .. n) /\ S # {}
  BY <1>1, <1>2
<1>5. a \in S /\ \A k \in S : k <= a
  BY <1>1, <1>3, <1>4, MaxIn
<1>6. a \in Nat /\ a <= n /\ a <= p /\ Same(a)
  BY <1>1, <1>2, <1>5
<1>7. PICK f \in [0 .. Len(path) -> 0 .. Len(name)] :
        /\ f[0] = 0 /\ f[Len(path)] = Len(name)
        /\ \A j \in 1 .. Len(path) :
             \/ path[j] = "*" /\ f[j - 1] <= f[j]
             \/ f[j] = f[j - 1] + 1 /\ name[f[j]] = path[j]
  BY Zenon DEF Log!Glob
<1> HIDE DEF a, S
<1>8. \A k \in 0 .. a : f[k] = k
  <2> DEFINE Off == {k \in 0 .. a : f[k] # k}
  <2> SUFFICES ASSUME Off # {} PROVE FALSE
    OBVIOUS
  <2>1. PICK k \in Off : \A m \in Off : k <= m
    <3>1. Off \in SUBSET Nat
      BY <1>6
    <3> QED BY <3>1, SmallestNumber
  <2>2. k \in 1 .. a /\ k - 1 \in 0 .. a /\ k - 1 \notin Off
    BY <1>6, <1>7, <2>1
  <2>3. f[k - 1] = k - 1
    BY <2>2
  <2>4. f[k] = f[k - 1] + 1
    BY <1>1, <1>6, <1>7, <2>2
  <2> QED BY <2>1, <2>2, <2>3, <2>4
<1>9. f[a] = a
  BY <1>6, <1>8
<1>10. CASE a = n
  BY <1>10 DEF Log!Stops
<1>11. CASE a < n
  <2>1. a < p /\ a + 1 \in 1 .. p /\ (a + 1) - 1 = a
    BY <1>1, <1>6, <1>7, <1>9, <1>11
  <2>2. CASE path[a + 1] = "*"
    BY <2>1, <2>2 DEF Log!Stops
  <2>3. CASE path[a + 1] # "*"
    <3>1. f[a + 1] = a + 1 /\ name[a + 1] = path[a + 1]
      BY <1>7, <1>9, <2>1, <2>3
    <3>2. Same(a + 1)
      BY <1>6, <2>3, <3>1
    <3>3. a + 1 \in S
      BY <1>1, <1>2, <1>6, <1>11, <2>1, <3>2 DEF S
    <3> QED BY <1>5, <1>6, <3>3
  <2> QED BY <2>2, <2>3
<1> QED BY <1>1, <1>6, <1>10, <1>11
-----------------------------------------------------------------------------
(* Strings and buffers.                                                       *)

(* A buffer taken as a string: the characters before the first terminator.    *)
LEMMA CStringIs ==
    ASSUME NEW S, NEW s \in Seq(S)
    PROVE  /\ Log!CString(s) \in Seq(S \ {Log!NUL}) /\ Len(Log!CString(s)) \in 0 .. Len(s)
           /\ \A i \in 1 .. Len(Log!CString(s)) : Log!CString(s)[i] = s[i]
           /\ \A n \in 0 .. Len(s) :
                 (\A i \in 1 .. n : s[i] # Log!NUL) => n <= Len(Log!CString(s))
<1> DEFINE E == {k \in 1 .. Len(s) + 1 : k > Len(s) \/ s[k] = Log!NUL}
           m == Log!Min(E)
<1>1. Len(s) \in Nat /\ \A i \in 1 .. Len(s) : s[i] \in S
  BY LenProperties, ElementOfSeq
<1>2. m \in E /\ \A k \in E : m <= k
  <2>1. E \in SUBSET Nat /\ Len(s) + 1 \in E
    BY <1>1
  <2> HIDE DEF E
  <2> QED BY <2>1, MinIn
<1>3. Log!CString(s) = SubSeq(s, 1, m - 1)
  BY DEF Log!CString
<1>4. m \in 1 .. Len(s) + 1
  BY <1>2
<1>5. \A i \in 1 .. m - 1 : s[i] \in S \ {Log!NUL}
  <2> SUFFICES ASSUME NEW i \in 1 .. m - 1 PROVE s[i] \in S /\ s[i] # Log!NUL
    OBVIOUS
  <2>1. i \in 1 .. Len(s) /\ ~(m <= i)
    BY <1>1, <1>4
  <2>2. i \notin E
    BY <1>2, <2>1
  <2> QED BY <1>1, <2>1, <2>2
<1> HIDE DEF E, m
<1>6. /\ SubSeq(s, 1, m - 1) \in Seq(S \ {Log!NUL})
      /\ Len(SubSeq(s, 1, m - 1)) = IF 1 <= m - 1 THEN (m - 1) - 1 + 1 ELSE 0
      /\ \A i \in 1 .. (m - 1) - 1 + 1 : SubSeq(s, 1, m - 1)[i] = s[1 + i - 1]
  BY <1>1, <1>4, <1>5, SubSeqProperties
<1>7. Len(SubSeq(s, 1, m - 1)) = m - 1
  BY <1>1, <1>4, <1>6
<1>8. \A i \in 1 .. m - 1 : SubSeq(s, 1, m - 1)[i] = s[i]
  BY <1>1, <1>4, <1>6
<1>9. ASSUME NEW n \in 0 .. Len(s), \A i \in 1 .. n : s[i] # Log!NUL PROVE n <= m - 1
  BY <1>1, <1>2, <1>4, <1>9 DEF E
<1> QED BY <1>1, <1>3, <1>4, <1>6, <1>7, <1>8, <1>9

(* handle_filename: the stem is part of the name.                              *)
LEMMA StemIs ==
    ASSUME Log!NUL \notin Chars, NEW name \in Seq(Chars)
    PROVE  Log!Stem(name) \in Seq(Chars) /\ Len(Log!Stem(name)) \in 0 .. Len(name)
<1>1. ASSUME NEW s \in Seq(Chars), NEW i \in Nat, NEW j \in 0 .. Len(s), i >= 1
      PROVE  SubSeq(s, i, j) \in Seq(Chars) /\ Len(SubSeq(s, i, j)) \in 0 .. Len(s)
  <2>1. Len(s) \in Nat /\ \A k \in i .. j : s[k] \in Chars
    BY <1>1, LenProperties, ElementOfSeq
  <2>2. /\ SubSeq(s, i, j) \in Seq(Chars)
        /\ Len(SubSeq(s, i, j)) = IF i <= j THEN j - i + 1 ELSE 0
    BY <1>1, <2>1, SubSeqProperties
  <2> QED BY <1>1, <2>1, <2>2
<1> DEFINE l == Log!LastPart(name)
<1>2. l \in Seq(Chars) /\ Len(l) \in 0 .. Len(name)
  <2> DEFINE slashes == {k \in 1 .. Len(name) : name[k] = "/"}
  <2>1. Len(name) \in Nat
    BY LenProperties
  <2>2. {0} \cup slashes \in SUBSET (0 .. Len(name)) /\ {0} \cup slashes # {}
    BY <2>1
  <2> HIDE DEF slashes
  <2>3. Log!Max({0} \cup slashes) \in 0 .. Len(name)
    BY <2>1, <2>2, MaxIn
  <2>4. l = SubSeq(name, Log!Max({0} \cup slashes) + 1, Len(name))
    BY DEF Log!LastPart, slashes
  <2>5. name \in Seq(Chars) /\ Log!Max({0} \cup slashes) + 1 \in Nat
        /\ Log!Max({0} \cup slashes) + 1 >= 1 /\ Len(name) \in 0 .. Len(name)
    BY <2>1, <2>3
  <2> HIDE DEF l
  <2> QED BY <1>1, <2>4, <2>5
<1> HIDE DEF l
<1> DEFINE dots == {k \in 1 .. Len(l) : l[k] = "."}
<1>3. Len(name) \in Nat /\ Len(l) \in Nat
  BY <1>2, LenProperties
<1>4. Log!Stem(name) = IF dots = {} THEN l ELSE SubSeq(l, 1, Log!Max(dots) - 1)
  BY DEF Log!Stem, l
<1>5. CASE dots = {}
  BY <1>2, <1>4, <1>5
<1>6. CASE dots # {}
  <2>1. dots \in SUBSET (0 .. Len(l)) /\ \A k \in dots : k >= 1
    BY <1>3
  <2> HIDE DEF dots
  <2>2. Log!Max(dots) - 1 \in 0 .. Len(l)
    <3>1. Log!Max(dots) \in dots
      BY <1>3, <1>6, <2>1, MaxIn
    <3>2. Log!Max(dots) \in 0 .. Len(l) /\ Log!Max(dots) >= 1
      BY <2>1, <3>1
    <3> HIDE DEF dots
    <3> QED BY <1>3, <3>2
  <2>3. SubSeq(l, 1, Log!Max(dots) - 1) \in Seq(Chars) /\ Len(SubSeq(l, 1, Log!Max(dots) - 1)) \in 0 .. Len(l)
    BY <1>1, <1>2, <2>2
  <2> QED BY <1>2, <1>3, <1>4, <1>6, <2>3
<1> QED BY <1>5, <1>6

LEMMA PathIs ==
    ASSUME Log!LoggerAssumption, NEW f \in Names
    PROVE  Log!Path(f) \in Seq(Chars)
<1>1. Root \in Seq(Chars) /\ f \in Seq(Chars)
  BY DEF Log!LoggerAssumption
<1> QED BY <1>1, ConcatProperties DEF Log!Path

(* The static buffer, read as a string, begins with the stem of the path.      *)
LEMMA BufferIs ==
    ASSUME Log!LoggerAssumption, NEW f \in Names,
           only_filename \in [1 .. Log!BufLen -> Chars \cup {Log!NUL}]
    PROVE  /\ Log!HandleFilename(Log!Path(f)) \in [1 .. Log!BufLen -> Chars \cup {Log!NUL}]
           /\ Log!IsPrefix(Log!Stem(Log!Path(f)), Log!CString(Log!HandleFilename(Log!Path(f))))
<1> DEFINE t == Log!Stem(Log!Path(f))
           s == IF t = Log!LastPart(Log!Path(f)) THEN Append(t, Log!NUL) ELSE t
           b == Log!HandleFilename(Log!Path(f))
           Byte == Chars \cup {Log!NUL}
<1>1. t \in Seq(Chars) /\ Len(t) \in Nat /\ Len(t) < 8 /\ Len(t) \in 0 .. 8
  <2>1. /\ Log!NUL \notin Chars /\ Log!Path(f) \in Seq(Chars)
        /\ Len(Log!Path(f)) \in Nat /\ Len(Log!Path(f)) < 8
    BY PathIs, LenProperties DEF Log!LoggerAssumption, Log!BufLen
  <2>2. t \in Seq(Chars) /\ Len(t) \in 0 .. Len(Log!Path(f))
    BY <2>1, StemIs
  <2>3. \A m \in Nat : \A k \in 0 .. m : m < 8 => k \in Nat /\ k < 8 /\ k \in 0 .. 8
    OBVIOUS
  <2> HIDE DEF t
  <2> QED BY <2>1, <2>2, <2>3
<1>2. Log!BufLen = 8 /\ Log!NUL \notin Chars
  BY DEF Log!BufLen, Log!LoggerAssumption
<1>3. b = Log!Overlay(only_filename, s)
  BY DEF Log!HandleFilename
<1> HIDE DEF t, b
<1>4. t \in Seq(Byte) /\ \A k \in 1 .. Len(t) : t[k] \in Byte /\ t[k] # Log!NUL
  <2>1. \A k \in 1 .. Len(t) : t[k] \in Chars
    BY <1>1, ElementOfSeq
  <2> QED BY <1>1, <1>2, <2>1, SeqMonotonic
<1>5. /\ s \in Seq(Byte) /\ Len(s) \in Nat /\ Len(t) <= Len(s)
      /\ \A k \in 1 .. Len(t) : s[k] = t[k]
  <2>1. CASE s = t
    BY <1>1, <1>4, <2>1
  <2>2. CASE s = Append(t, Log!NUL)
    <3>1. /\ Append(t, Log!NUL) \in Seq(Byte) /\ Len(Append(t, Log!NUL)) = Len(t) + 1
          /\ \A k \in 1 .. Len(t) : Append(t, Log!NUL)[k] = t[k]
      BY <1>4, AppendProperties
    <3> QED BY <1>1, <2>2, <3>1
  <2> QED BY <2>1, <2>2
<1> HIDE DEF s
<1>6. \A k \in 1 .. Len(s) : s[k] \in Byte
  BY <1>5, ElementOfSeq
<1>7. b = [k \in 1 .. 8 |-> IF k <= Len(s) THEN s[k] ELSE only_filename[k]]
  BY <1>2, <1>3 DEF Log!Overlay
<1>8. b \in [1 .. 8 -> Byte] /\ \A k \in 1 .. Len(t) : b[k] = t[k]
  BY <1>1, <1>2, <1>5, <1>6, <1>7
<1>9. b \in Seq(Byte) /\ Len(b) = 8
  BY <1>2, <1>5, <1>6, <1>7
<1> DEFINE c == Log!CString(b)
<1>10. /\ c \in Seq(Byte \ {Log!NUL}) /\ Len(c) \in Nat /\ Len(t) <= Len(c)
       /\ \A i \in 1 .. Len(c) : c[i] = b[i]
  <2>1. Len(t) \in 0 .. Len(b)
    BY <1>1, <1>9
  <2>3. \A i \in 1 .. Len(t) : b[i] # Log!NUL
    BY <1>4, <1>8
  <2>2. /\ c \in Seq(Byte \ {Log!NUL}) /\ Len(c) \in 0 .. Len(b)
        /\ \A i \in 1 .. Len(c) : c[i] = b[i]
        /\ \A n \in 0 .. Len(b) : (\A i \in 1 .. n : b[i] # Log!NUL) => n <= Len(c)
    BY <1>9, CStringIs
  <2>4. Len(t) <= Len(c)
    BY <2>1, <2>2, <2>3
  <2> QED BY <1>9, <2>2, <2>4
<1> HIDE DEF c
<1>11. SubSeq(t, 1, Len(t)) = SubSeq(c, 1, Len(t))
  <2>1. \A i \in 1 .. Len(t) : t[i] = c[i] /\ c[i] \in Byte
    BY <1>1, <1>4, <1>8, <1>10
  <2>2. /\ SubSeq(c, 1, Len(t)) \in Seq(Byte)
        /\ Len(SubSeq(c, 1, Len(t))) = IF 1 <= Len(t) THEN Len(t) - 1 + 1 ELSE 0
        /\ \A i \in 1 .. Len(t) - 1 + 1 : SubSeq(c, 1, Len(t))[i] = c[1 + i - 1]
    BY <1>1, <2>1, SubSeqProperties
  <2>3. Len(SubSeq(c, 1, Len(t))) = Len(t)
    BY <1>1, <2>2
  <2>4. \A i \in 1 .. Len(t) : SubSeq(c, 1, Len(t))[i] = t[i]
    BY <1>1, <2>1, <2>2
  <2>5. SubSeq(c, 1, Len(t)) = t
    BY <1>4, <2>2, <2>3, <2>4, SeqEqual
  <2> QED BY <1>4, <2>5, SubSeqFull
<1>12. Log!IsPrefix(t, c)
  BY <1>10, <1>11 DEF Log!IsPrefix
<1> QED BY <1>2, <1>8, <1>12 DEF b, c, t
-----------------------------------------------------------------------------
(* The state of the logger.                                                   *)

Content == Words \cup {Log!NUL}
LogTyped ==
    /\ disk \in [Names -> Seq(Content)] /\ \A f \in Names : Len(disk[f]) <= MaxWords
    /\ pos \in [Names -> -1 .. MaxWords]
    /\ only_filename \in [1 .. Log!BufLen -> Chars \cup {Log!NUL}]
    /\ config \in BOOLEAN /\ alive \in BOOLEAN

(* The words of a log, each with the file of the call that appended it.       *)
Entry == [file : Names, word : Words, behind : BOOLEAN]
Faithful(x, e) == /\ Log!IsPrefix(Log!Stem(Log!Path(e.file)), x.name)
                  /\ x.kind = "read" /\ e.word \in Lists["read"] => e.behind
Entries == \A x \in DOMAIN logs :
              logs[x] \in Seq(Entry) /\ \A k \in 1 .. Len(logs[x]) : Faithful(x, logs[x][k])
LogInv == LogTyped /\ Entries /\ NeverMissed

LEMMA EntriesMean ==
    ASSUME Entries
    PROVE  LogsFaithful /\ \A x \in DOMAIN logs : Log!ToSet(Log!Has(logs[x])) \subseteq Words
<1> SUFFICES ASSUME NEW x \in DOMAIN logs
             PROVE  /\ \A k \in DOMAIN logs[x] : Faithful(x, logs[x][k])
                    /\ Log!ToSet(Log!Has(logs[x])) \subseteq Words
  BY DEF LogsFaithful, Log!LogsFaithful, Faithful
<1> DEFINE s == logs[x]
<1>1. s \in Seq(Entry) /\ \A k \in 1 .. Len(s) : Faithful(x, s[k])
  BY DEF Entries
<1>2. DOMAIN s = 1 .. Len(s) /\ \A k \in 1 .. Len(s) : s[k] \in Entry
  BY <1>1, LenProperties, ElementOfSeq
<1> HIDE DEF s
<1>3. Log!ToSet(Log!Has(s)) = {s[k].word : k \in 1 .. Len(s)}
  BY <1>2 DEF Log!ToSet, Log!Has
<1>4. \A w \in Log!ToSet(Log!Has(s)) : w \in Words
  BY <1>2, <1>3 DEF Entry
<1> QED BY <1>1, <1>2, <1>4 DEF s

(* What is appended belongs to the log it is appended to.                     *)
LEMMA WriteLogOk ==
    ASSUME Entries, NEW kind, NEW b, NEW f \in Names, NEW words \in Seq(Words), NEW n \in Nat,
           Log!IsPrefix(Log!Stem(Log!Path(f)), Log!CString(b)),
           kind = "read" =>
               \A i \in 1 .. Len(words) : words[i] \in Lists["read"] => i > n,
           Log!WriteLog(kind, b, f, words, n)
    PROVE  Entries'
<1> DEFINE key == Log!LogKey(kind, b)
           new == [i \in DOMAIN words |-> [file |-> f, word |-> words[i], behind |-> i > n]]
           old == Log!Logged(key)
<1>1. logs' = [x \in DOMAIN logs \cup {key} |-> IF x = key THEN old \o new ELSE logs[x]]
  BY DEF Log!WriteLog
<1>2. key.kind = kind /\ key.name = Log!CString(b)
  BY DEF Log!LogKey
<1>3. /\ DOMAIN words = 1 .. Len(words) /\ Len(words) \in Nat
      /\ \A i \in 1 .. Len(words) : words[i] \in Words
  BY LenProperties, ElementOfSeq
<1>4. new \in Seq(Entry) /\ Len(new) = Len(words) /\ \A i \in 1 .. Len(new) : Faithful(key, new[i])
  <2>1. \A i \in 1 .. Len(words) : /\ new[i] \in Entry /\ new[i].file = f
                                   /\ new[i].word = words[i] /\ new[i].behind = (i > n)
    BY <1>3 DEF Entry
  <2>2. new \in Seq(Entry) /\ Len(new) = Len(words)
    <3>1. new = [i \in 1 .. Len(words) |-> [file |-> f, word |-> words[i], behind |-> i > n]]
      BY <1>3
    <3> HIDE DEF new
    <3> QED BY <1>3, <2>1, <3>1
  <2> HIDE DEF new, key
  <2> QED BY <1>2, <2>1, <2>2 DEF Faithful
<1>5. old \in Seq(Entry) /\ Len(old) \in Nat /\ \A i \in 1 .. Len(old) : Faithful(key, old[i])
  <2>1. CASE key \in DOMAIN logs
    BY <2>1, LenProperties DEF Log!Logged, Entries
  <2>2. CASE key \notin DOMAIN logs
    BY <2>2 DEF Log!Logged
  <2> QED BY <2>1, <2>2
<1> HIDE DEF old, new, key
<1>6. /\ old \o new \in Seq(Entry) /\ Len(old \o new) = Len(old) + Len(new)
      /\ \A i \in 1 .. Len(old) + Len(new) :
            (old \o new)[i] = IF i <= Len(old) THEN old[i] ELSE new[i - Len(old)]
  BY <1>4, <1>5, ConcatProperties
<1>7. \A i \in 1 .. Len(old \o new) : Faithful(key, (old \o new)[i])
  <2> SUFFICES ASSUME NEW i \in 1 .. Len(old \o new) PROVE Faithful(key, (old \o new)[i])
    OBVIOUS
  <2>1. Len(new) \in Nat /\ i \in 1 .. Len(old) + Len(new)
    BY <1>3, <1>4, <1>6
  <2>2. CASE i <= Len(old)
    BY <1>5, <1>6, <2>1, <2>2
  <2>3. CASE ~(i <= Len(old))
    <3>1. i - Len(old) \in 1 .. Len(new)
      BY <1>5, <2>1, <2>3
    <3>2. (old \o new)[i] = new[i - Len(old)]
      BY <1>6, <2>1, <2>3
    <3> QED BY <1>4, <3>1, <3>2
  <2> QED BY <2>2, <2>3
<1>8. ASSUME NEW x \in DOMAIN logs'
      PROVE  logs'[x] \in Seq(Entry) /\ \A k \in 1 .. Len(logs'[x]) : Faithful(x, logs'[x][k])
  <2>1. CASE x = key
    <3>1. logs'[x] = old \o new
      BY <1>1, <2>1
    <3> QED BY <1>6, <1>7, <2>1, <3>1
  <2>2. CASE x # key
    <3>1. logs'[x] = logs[x] /\ x \in DOMAIN logs
      BY <1>1, <2>2
    <3> QED BY <3>1 DEF Entries
  <2> QED BY <2>1, <2>2
<1> QED BY <1>8 DEF Entries, Faithful
-----------------------------------------------------------------------------
(* The calls.                                                                 *)

LEMMA GlobBlacklists ==
    ASSUME Log!LoggerAssumption, config, NEW kind \in {"open", "write"}, NEW name \in Seq(Chars),
           NEW path \in Lists[kind], Log!Glob(name, path)
    PROVE  Log!Blacklisted(kind, name)
<1>1. name \in Seq(Chars) /\ path \in Seq(Chars)
  BY DEF Log!LoggerAssumption
<1>2. Log!Hits(name, path)
  BY <1>1, GlobStops DEF Log!Hits
<1> QED BY <1>2 DEF Log!Blacklisted, Log!Section

(* A read gets what is left of the file, at most, from where the stream is.   *)
LEMMA GotIs ==
    ASSUME Log!LoggerAssumption, LogTyped, NEW f \in Names, NEW n \in 1 .. 2, pos[f] >= 0
    PROVE  /\ Log!Got(f, n) \in Seq(Content) /\ Len(Log!Got(f, n)) \in 0 .. n
           /\ pos[f] \in 0 .. MaxWords /\ pos[f] + Len(Log!Got(f, n)) \in 0 .. MaxWords
<1> DEFINE s == disk[f]
           p == pos[f]
           m == Log!Min({p + n, Len(s)})
<1>1. MaxWords \in Nat /\ s \in Seq(Content) /\ Len(s) \in Nat /\ Len(s) <= MaxWords
      /\ p \in 0 .. MaxWords
  BY LenProperties DEF Log!LoggerAssumption, LogTyped
<1>2. Log!Got(f, n) = SubSeq(s, p + 1, m)
  BY DEF Log!Got
<1> HIDE DEF s, p
<1>3. m = IF p + n <= Len(s) THEN p + n ELSE Len(s)
  BY <1>1, MinTwo
<1> HIDE DEF m
<1>4. m \in 0 .. Len(s) /\ m <= p + n
  BY <1>1, <1>3
<1>5. \A k \in p + 1 .. m : s[k] \in Content
  BY <1>1, <1>4, ElementOfSeq
<1>6. /\ SubSeq(s, p + 1, m) \in Seq(Content)
      /\ Len(SubSeq(s, p + 1, m)) = IF p + 1 <= m THEN m - (p + 1) + 1 ELSE 0
  BY <1>1, <1>4, <1>5, SubSeqProperties
<1>7. /\ Len(SubSeq(s, p + 1, m)) \in 0 .. n
      /\ p + Len(SubSeq(s, p + 1, m)) \in 0 .. MaxWords
  BY <1>1, <1>4, <1>6
<1> QED BY <1>1, <1>2, <1>6, <1>7 DEF p

LEMMA SameLogs ==
    ASSUME Entries, logs' = logs PROVE Entries'
BY DEF Entries, Faithful

LEMMA FopenStep ==
    ASSUME Log!LoggerAssumption, LogInv, NEW name \in Names, NEW mode, Log!Fopen(name, mode)
    PROVE  LogInv'
<1>1. LinkTo[name] \in Names /\ MaxWords \in Nat
  BY DEF Log!LoggerAssumption
<1>2. LogTyped'
  <2>1. /\ disk' \in [Names -> Seq(Content)] /\ \A f \in Names : Len(disk'[f]) <= MaxWords
    <3>1. disk \in [Names -> Seq(Content)] /\ \A f \in Names : Len(disk[f]) <= MaxWords
      BY DEF LogInv, LogTyped
    <3>2. disk' = disk \/ disk' = [disk EXCEPT ![LinkTo[name]] = <<>>]
      BY DEF Log!Fopen
    <3>3. <<>> \in Seq(Content) /\ Len(<<>>) <= MaxWords
      BY <1>1
    <3>4. \A e \in Seq(Content) : Len(e) <= MaxWords =>
            /\ [disk EXCEPT ![LinkTo[name]] = e] \in [Names -> Seq(Content)]
            /\ \A f \in Names : Len([disk EXCEPT ![LinkTo[name]] = e][f]) <= MaxWords
      BY <1>1, <3>1
    <3> QED BY <3>1, <3>2, <3>3, <3>4
  <2>2. pos' \in [Names -> -1 .. MaxWords]
    <3>1. pos \in [Names -> -1 .. MaxWords]
      BY DEF LogInv, LogTyped
    <3>2. pos' = pos \/ pos' = [pos EXCEPT ![LinkTo[name]] = 0]
      BY DEF Log!Fopen
    <3> QED BY <1>1, <3>1, <3>2
  <2>3. UNCHANGED <<only_filename, config, alive>>
    BY DEF Log!Fopen
  <2> QED BY <2>1, <2>2, <2>3 DEF LogInv, LogTyped
<1>3. Entries'
  BY SameLogs DEF LogInv, Log!Fopen
<1>4. NeverMissed'
  <2>1. /\ last'.op = "fopen" /\ last'.arg = name
        /\ last'.refused = Log!FopenRefused(name) /\ config' = config
    BY Zenon DEF Log!Fopen, Log!Call
  <2> SUFFICES ASSUME config, ~Log!FopenRefused(name), NEW path \in Lists["open"]
               PROVE  ~Log!Glob(name, path) /\ ~Log!Glob(LinkTo[name], path)
    BY <2>1, Zenon DEF NeverMissed, Log!NeverMissed
  <2>2. ~Log!Blacklisted("open", name) /\ ~Log!Blacklisted("open", LinkTo[name])
    BY DEF Log!FopenRefused, Log!HandleSymbolicLink
  <2>3. name \in Seq(Chars) /\ LinkTo[name] \in Seq(Chars)
    BY <1>1 DEF Log!LoggerAssumption
  <2> QED BY <2>2, <2>3, GlobBlacklists
<1> QED BY <1>2, <1>3, <1>4 DEF LogInv

LEMMA BackIs ==
    ASSUME NEW p \in Nat, NEW k \in Nat, NEW n \in Nat, k <= n
    PROVE  /\ Log!Back(p + k, n) \in Nat /\ Log!Back(p + k, n) <= p + k
           /\ k = n => Log!Back(p + k, n) = p
BY DEF Log!Back

(* Of the string that is logged, the part asked for has been looked at.        *)
LEMMA CheckedAre ==
    ASSUME NEW S, NEW s \in Seq(S), NEW n \in 1 .. 2
    PROVE  n \in Nat /\ \A i \in 1 .. Len(Log!CString(s)) :
                           i <= n => Log!CString(s)[i] \in Log!ToSet(Log!CheckedWords(s, n))
<1> DEFINE c == Log!CString(s)
           m == Log!Min({n, Len(s)})
           t == SubSeq(s, 1, m)
           d == Log!CString(t)
<1>1. Len(s) \in Nat /\ n \in Nat /\ \A i \in 1 .. Len(s) : s[i] \in S
  BY LenProperties, ElementOfSeq
<1>2. m = IF n <= Len(s) THEN n ELSE Len(s)
  BY <1>1, MinTwo
<1> HIDE DEF m
<1>3. m \in 0 .. Len(s)
  BY <1>1, <1>2
<1>4. t \in Seq(S) /\ Len(t) = m /\ \A i \in 1 .. m : t[i] = s[i]
  <2>1. \A k \in 1 .. m : s[k] \in S
    BY <1>1, <1>3
  <2>2. /\ t \in Seq(S) /\ Len(t) = IF 1 <= m THEN m - 1 + 1 ELSE 0
        /\ \A i \in 1 .. m - 1 + 1 : t[i] = s[1 + i - 1]
    BY <1>3, <2>1, SubSeqProperties
  <2> HIDE DEF t
  <2>3. Len(t) = m
    BY <1>1, <1>3, <2>2
  <2>4. ASSUME NEW i \in 1 .. m PROVE t[i] = s[i]
    <3>1. m - 1 + 1 = m /\ 1 + i - 1 = i
      BY <1>1, <1>3
    <3> QED BY <2>2, <3>1
  <2> QED BY <2>2, <2>3, <2>4
<1>5. /\ c \in Seq(S \ {Log!NUL}) /\ Len(c) \in 0 .. Len(s)
      /\ \A i \in 1 .. Len(c) : c[i] = s[i]
  BY CStringIs
<1>6. \A i \in 1 .. Len(c) : c[i] # Log!NUL
  BY <1>5, ElementOfSeq
<1> HIDE DEF c, t
<1>7. /\ d \in Seq(S \ {Log!NUL}) /\ Len(d) \in 0 .. Len(t)
      /\ \A i \in 1 .. Len(d) : d[i] = t[i]
      /\ \A k \in 0 .. Len(t) : (\A i \in 1 .. k : t[i] # Log!NUL) => k <= Len(d)
  BY <1>4, CStringIs
<1>8. DOMAIN d = 1 .. Len(d) /\ d = Log!CheckedWords(s, n)
  BY <1>7, LenProperties DEF Log!CheckedWords, m, t
<1> HIDE DEF d
<1>9. ASSUME NEW i \in 1 .. Len(c), i <= n
      PROVE  c[i] \in Log!ToSet(Log!CheckedWords(s, n))
  <2>1. i \in 1 .. m
    BY <1>1, <1>2, <1>5, <1>9
  <2>2. \A k \in 1 .. i : t[k] # Log!NUL
    <3> SUFFICES ASSUME NEW k \in 1 .. i PROVE t[k] # Log!NUL
      OBVIOUS
    <3>1. k \in 1 .. m /\ k \in 1 .. Len(c)
      BY <1>3, <1>5, <2>1
    <3> QED BY <1>4, <1>5, <1>6, <3>1
  <2>3. i \in 1 .. Len(d)
    BY <1>3, <1>4, <1>7, <2>1, <2>2
  <2>4. d[i] = c[i]
    BY <1>4, <1>5, <1>7, <1>9, <2>1, <2>3
  <2> QED BY <1>8, <2>3, <2>4 DEF Log!ToSet
<1> QED BY <1>1, <1>9 DEF c

LEMMA FreadStep ==
    ASSUME Log!LoggerAssumption, LogInv, NEW f \in Names, NEW n \in 1 .. 2,
           NEW behind \in Behind, Log!Fread(f, n, behind)
    PROVE  LogInv' /\ Log!KeepsPlace
<1> DEFINE got == Log!Got(f, n)
           memory == got \o behind
           words == Log!CString(memory)
           refused == Log!ToSet(Log!CheckedWords(memory, n)) \cap Log!Section("read") # {}
           p == pos[f] + Len(got)
<1>1. /\ pos[f] >= 0 /\ config
      /\ only_filename' = Log!HandleFilename(Log!Path(f))
      /\ pos' = [pos EXCEPT ![f] = IF refused THEN Log!Back(p, n) ELSE p]
      /\ IF refused THEN logs' = logs ELSE Log!WriteLog("read", only_filename', f, words, n)
      /\ last' = Log!Call("fread", <<f, Len(got), n>>, refused, TRUE)
      /\ UNCHANGED <<disk, config, alive>>
  BY DEF Log!Fread
<1>2. /\ got \in Seq(Content) /\ Len(got) \in 0 .. n
      /\ pos[f] \in 0 .. MaxWords /\ p \in 0 .. MaxWords
  BY <1>1, GotIs DEF LogInv
<1>3. MaxWords \in Nat /\ Log!NUL \notin Words
  BY DEF Log!LoggerAssumption
<1>4. /\ only_filename' \in [1 .. Log!BufLen -> Chars \cup {Log!NUL}]
      /\ Log!IsPrefix(Log!Stem(Log!Path(f)), Log!CString(only_filename'))
  BY <1>1, BufferIs DEF LogInv, LogTyped
<1>13. memory \in Seq(Content)
  <2>1. behind \in Seq(Content)
    BY DEF Log!LoggerAssumption, Content
  <2> QED BY <1>2, <2>1, ConcatProperties
<1> HIDE DEF memory
<1>5. words \in Seq(Words)
  <2>1. words \in Seq(Content \ {Log!NUL})
    BY <1>13, CStringIs
  <2>2. Content \ {Log!NUL} = Words
    BY <1>3 DEF Content
  <2> QED BY <2>1, <2>2
<1>6. /\ Log!Back(p, n) \in 0 .. MaxWords
      /\ Len(got) = n => Log!Back(p, n) = pos[f]
  <2>1. pos[f] \in Nat /\ Len(got) \in Nat /\ n \in Nat /\ Len(got) <= n
    BY <1>2
  <2>2. Log!Back(p, n) \in Nat /\ Log!Back(p, n) <= p /\ (Len(got) = n => Log!Back(p, n) = pos[f])
    BY <2>1, BackIs
  <2> QED BY <1>2, <1>3, <2>2
<1>7. ASSUME ~refused PROVE Entries'
  <2>1. Log!Section("read") = Lists["read"]
    BY <1>1 DEF Log!Section
  <2>2. n \in Nat /\ \A i \in 1 .. Len(words) :
                       i <= n => words[i] \in Log!ToSet(Log!CheckedWords(memory, n))
    BY <1>13, CheckedAre
  <2>3. \A i \in 1 .. Len(words) : words[i] \in Lists["read"] => i > n
    <3>1. \A i \in 1 .. Len(words) : i <= n => words[i] \notin Lists["read"]
      BY <1>7, <2>1, <2>2
    <3>2. \A i \in 1 .. Len(words) : i <= n \/ i > n
      BY <1>5, <2>2, LenProperties
    <3> QED BY <3>1, <3>2
  <2>4. Log!WriteLog("read", only_filename', f, words, n)
    BY <1>1, <1>7
  <2> HIDE DEF words
  <2> QED BY <1>4, <1>5, <2>2, <2>3, <2>4, WriteLogOk DEF LogInv
<1>8. Entries'
  <2>1. CASE refused
    BY <1>1, <2>1, SameLogs DEF LogInv
  <2> QED BY <1>7, <2>1
<1> HIDE DEF got, words
<1>9. LogTyped'
  <2>1. pos \in [Names -> -1 .. MaxWords]
    BY DEF LogInv, LogTyped
  <2>2. pos' = [pos EXCEPT ![f] = Log!Back(p, n)] \/ pos' = [pos EXCEPT ![f] = p]
    BY <1>1
  <2>3. Log!Back(p, n) \in -1 .. MaxWords /\ p \in -1 .. MaxWords
    BY <1>2, <1>3, <1>6
  <2> HIDE DEF p
  <2>4. pos' \in [Names -> -1 .. MaxWords]
    BY <2>1, <2>2, <2>3
  <2> QED BY <1>1, <1>4, <2>4 DEF LogInv, LogTyped
<1> HIDE DEF refused
<1>10. last'.op = "fread" /\ last'.arg = <<f, Len(got), n>> /\ last'.refused = refused
  BY <1>1, Zenon DEF Log!Call
<1>11. NeverMissed'
  <2>1. last'.op # "fopen" /\ last'.op # "fwrite"
    BY <1>10
  <2> QED BY <2>1, Zenon DEF NeverMissed, Log!NeverMissed
<1>12. Log!KeepsPlace
  <2> SUFFICES ASSUME refused, Len(got) = n PROVE pos' = pos
    <3>1. last'.arg[2] = Len(got) /\ last'.arg[3] = n
      BY <1>10
    <3> QED BY <1>10, <3>1, Zenon DEF Log!KeepsPlace
  <2>1. pos' = [pos EXCEPT ![f] = pos[f]]
    BY <1>1, <1>6
  <2> QED BY <2>1 DEF LogInv, LogTyped
<1> QED BY <1>8, <1>9, <1>11, <1>12 DEF LogInv

(* A write leaves words before it, a hole where there were none.              *)
LEMMA PutIs ==
    ASSUME NEW s \in Seq(Content), NEW p \in 0 .. MaxWords - 1, NEW w \in Words,
           MaxWords \in Nat, Len(s) <= MaxWords
    PROVE  Log!Put(s, p, w) \in Seq(Content) /\ Len(Log!Put(s, p, w)) <= MaxWords
<1> DEFINE m == Log!Max({Len(s), p + 1})
           e(k) == IF k = p + 1 THEN w ELSE IF k <= Len(s) THEN s[k] ELSE Log!NUL
<1>1. Len(s) \in Nat /\ \A k \in 1 .. Len(s) : s[k] \in Content
  BY LenProperties, ElementOfSeq
<1>2. m = IF Len(s) >= p + 1 THEN Len(s) ELSE p + 1
  BY <1>1, MaxTwo
<1> HIDE DEF m
<1>3. m \in Nat /\ m <= MaxWords
  BY <1>1, <1>2
<1>4. \A k \in 1 .. m : e(k) \in Content
  BY <1>1, <1>3 DEF Content
<1>5. Log!Put(s, p, w) = [k \in 1 .. m |-> e(k)]
  BY DEF Log!Put, m
<1> HIDE DEF e
<1> QED BY <1>3, <1>4, <1>5

LEMMA FwriteStep ==
    ASSUME Log!LoggerAssumption, LogInv, NEW f \in Names, NEW w \in Words, Log!Fwrite(f, w)
    PROVE  LogInv'
<1>1. /\ pos[f] >= 0 /\ pos[f] < MaxWords
      /\ only_filename' = Log!HandleFilename(Log!Path(f))
      /\ disk' = [disk EXCEPT ![f] = Log!Put(@, pos[f], w)]
      /\ pos' = [pos EXCEPT ![f] = @ + 1]
      /\ IF Log!RefusedWrite(f) THEN logs' = logs
                                ELSE Log!WriteLog("write", only_filename', f, <<w>>, 1)
      /\ last' = Log!Call("fwrite", f, Log!RefusedWrite(f), TRUE)
      /\ UNCHANGED <<config, alive>>
  BY DEF Log!Fwrite
<1>2. MaxWords \in Nat
  BY DEF Log!LoggerAssumption
<1>3. /\ disk \in [Names -> Seq(Content)] /\ pos \in [Names -> -1 .. MaxWords]
      /\ \A g \in Names : Len(disk[g]) <= MaxWords
  BY DEF LogInv, LogTyped
<1>4. /\ only_filename' \in [1 .. Log!BufLen -> Chars \cup {Log!NUL}]
      /\ Log!IsPrefix(Log!Stem(Log!Path(f)), Log!CString(only_filename'))
  BY <1>1, BufferIs DEF LogInv, LogTyped
<1>5. LogTyped'
  <2>1. pos[f] \in 0 .. MaxWords - 1 /\ pos[f] + 1 \in -1 .. MaxWords
    BY <1>1, <1>2, <1>3
  <2>2. pos' \in [Names -> -1 .. MaxWords]
    BY <1>1, <1>3, <2>1
  <2>3. /\ Log!Put(disk[f], pos[f], w) \in Seq(Content)
        /\ Len(Log!Put(disk[f], pos[f], w)) <= MaxWords
    BY <1>2, <1>3, <2>1, PutIs
  <2>4. disk' \in [Names -> Seq(Content)] /\ \A g \in Names : Len(disk'[g]) <= MaxWords
    BY <1>1, <1>3, <2>3
  <2> QED BY <1>1, <1>4, <2>2, <2>4 DEF LogInv, LogTyped
<1>6. Entries'
  <2>1. CASE Log!RefusedWrite(f)
    BY <1>1, <2>1, SameLogs DEF LogInv
  <2>2. CASE ~Log!RefusedWrite(f)
    <3>1. <<w>> \in Seq(Words)
      OBVIOUS
    <3>2. Log!WriteLog("write", only_filename', f, <<w>>, 1)
      BY <1>1, <2>2
    <3> QED BY <1>4, <3>1, <3>2, WriteLogOk DEF LogInv
  <2> QED BY <2>1, <2>2
<1>7. NeverMissed'
  <2>1. /\ last'.op = "fwrite" /\ last'.arg = f
        /\ last'.refused = Log!RefusedWrite(f) /\ config' = config
    BY <1>1, Zenon DEF Log!Call
  <2>2. last'.op # "fopen"
    BY <2>1
  <2> SUFFICES ASSUME config, ~Log!RefusedWrite(f), NEW path \in Lists["write"]
               PROVE  ~Log!Glob(Log!Path(f), path)
    BY <2>1, <2>2, Zenon DEF NeverMissed, Log!NeverMissed
  <2>3. ~Log!Blacklisted("write", Log!Path(f))
    BY DEF Log!RefusedWrite
  <2> QED BY <2>3, PathIs, GlobBlacklists
<1> QED BY <1>5, <1>6, <1>7 DEF LogInv

(* Calls that touch neither the files nor the logs.                           *)
LEMMA OtherStep ==
    ASSUME Log!LoggerAssumption, LogInv,
           \/ \E h \in Hosts : Log!Connect(h)
           \/ Log!System \/ Log!NullList \/ Log!Chdir
           \/ \E f \in Names : Log!Rewind(f)
    PROVE  LogInv' /\ last'.op \notin {"fopen", "fread", "fwrite"}
<1>1. /\ disk' = disk /\ only_filename' = only_filename /\ logs' = logs
      /\ config' \in BOOLEAN /\ alive' \in BOOLEAN
  BY DEF LogInv, LogTyped, Log!Connect, Log!System, Log!NullList, Log!Crash, Log!Chdir, Log!Rewind
<1>2. pos' \in [Names -> -1 .. MaxWords]
  <2>1. pos \in [Names -> -1 .. MaxWords] /\ MaxWords \in Nat
    BY DEF LogInv, LogTyped, Log!LoggerAssumption
  <2>2. pos' = pos \/ \E f \in Names : pos' = [pos EXCEPT ![f] = 0]
    BY DEF Log!Connect, Log!System, Log!NullList, Log!Crash, Log!Chdir, Log!Rewind
  <2> QED BY <2>1, <2>2
<1>3. last'.op \in {"connect", "system", "none"}
  <2>1. CASE \E h \in Hosts : Log!Connect(h)
    <3>1. PICK h \in Hosts : Log!Connect(h)
      BY <2>1
    <3>2. last'.op = "connect"
      BY <3>1, Zenon DEF Log!Connect, Log!Call
    <3> QED BY <3>2
  <2>2. CASE Log!System
    BY <2>2 DEF Log!System, Log!Call
  <2>3. CASE Log!NullList \/ Log!Chdir \/ \E f \in Names : Log!Rewind(f)
    <3>1. last' = Log!NoCall
      BY <2>3 DEF Log!NullList, Log!Crash, Log!Chdir, Log!Rewind
    <3> QED BY <3>1 DEF Log!NoCall
  <2> QED BY <2>1, <2>2, <2>3
<1>4. LogTyped'
  BY <1>1, <1>2 DEF LogInv, LogTyped
<1>5. Entries'
  BY <1>1, SameLogs DEF LogInv
<1>6. last'.op \notin {"fopen", "fread", "fwrite"}
  BY <1>3
<1>7. NeverMissed'
  <2>1. last'.op # "fopen" /\ last'.op # "fwrite"
    BY <1>6
  <2> QED BY <2>1, Zenon DEF NeverMissed, Log!NeverMissed
<1> QED BY <1>4, <1>5, <1>6, <1>7 DEF LogInv

LEMMA LogStep1 ==
    ASSUME Log!LoggerAssumption, LogInv, Log!Next
    PROVE  LogInv' /\ Log!KeepsPlace
<1>1. CASE \E n \in Names, m \in {"r", "w"} : Log!Fopen(n, m)
  <2> SUFFICES ASSUME NEW n \in Names, NEW m \in {"r", "w"}, Log!Fopen(n, m)
               PROVE  LogInv' /\ Log!KeepsPlace
    BY <1>1
  <2>1. LogInv' /\ last'.op = "fopen"
    BY FopenStep, Zenon DEF Log!Fopen, Log!Call
  <2>2. last'.op # "fread"
    BY <2>1
  <2> QED BY <2>1, <2>2, Zenon DEF Log!KeepsPlace
<1>2. CASE \E f \in Names, n \in 1 .. 2, behind \in Behind : Log!Fread(f, n, behind)
  BY <1>2, FreadStep
<1>3. CASE \E f \in Names, w \in Words : Log!Fwrite(f, w)
  <2> SUFFICES ASSUME NEW f \in Names, NEW w \in Words, Log!Fwrite(f, w)
               PROVE  LogInv' /\ Log!KeepsPlace
    BY <1>3
  <2>1. LogInv' /\ last'.op = "fwrite"
    BY FwriteStep, Zenon DEF Log!Fwrite, Log!Call
  <2>2. last'.op # "fread"
    BY <2>1
  <2> QED BY <2>1, <2>2, Zenon DEF Log!KeepsPlace
<1>4. CASE \/ \E h \in Hosts : Log!Connect(h)
           \/ Log!System \/ Log!NullList \/ Log!Chdir
           \/ \E f \in Names : Log!Rewind(f)
  <2>1. LogInv' /\ last'.op # "fread"
    BY <1>4, OtherStep
  <2> QED BY <2>1, Zenon DEF Log!KeepsPlace
<1> QED BY <1>1, <1>2, <1>3, <1>4 DEF Log!Next

LEMMA LogInit ==
    ASSUME Log!LoggerAssumption, Log!Init PROVE LogInv
<1>1. MaxWords \in Nat
  BY DEF Log!LoggerAssumption
<1>2. <<>> \in Seq(Content) /\ Len(<<>>) = 0 /\ DOMAIN <<>> = {}
  OBVIOUS
<1>3. LogTyped
  BY <1>1, <1>2 DEF Log!Init, LogTyped
<1>4. Entries
  BY DEF Log!Init, Entries
<1>5. last.op = "none"
  BY DEF Log!Init, Log!NoCall
<1>6. NeverMissed
  <2>1. last.op # "fopen" /\ last.op # "fwrite"
    BY <1>5
  <2> QED BY <2>1, Zenon DEF NeverMissed, Log!NeverMissed
<1> QED BY <1>3, <1>4, <1>6 DEF LogInv

LEMMA LogStutter ==
    ASSUME LogInv, UNCHANGED Log!vars PROVE LogInv'
<1>1. UNCHANGED <<disk, pos, only_filename, logs, config, alive, last>>
  BY DEF Log!vars
<1>2. LogTyped' /\ Entries'
  BY <1>1, SameLogs DEF LogInv, LogTyped
<1>3. NeverMissed'
  BY <1>1, Zenon DEF LogInv, NeverMissed, Log!NeverMissed
<1> QED BY <1>2, <1>3 DEF LogInv

THEOREM LoggerInvariant ==
    ASSUME Log!LoggerAssumption PROVE Log!Spec => []LogInv
<1>1. Log!Init => LogInv
  BY LogInit
<1>2. LogInv /\ [Log!Next]_(Log!vars) => LogInv'
  BY LogStep1, LogStutter
<1> QED BY <1>1, <1>2, PTL DEF Log!Spec

(* The logger's types.                                                         *)
THEOREM LoggerTypes ==
    ASSUME Log!LoggerAssumption PROVE Log!Spec => []Log!TypeOK
<1>1. LogInv => Log!TypeOK
  BY EntriesMean DEF LogInv, LogTyped, Content, Log!TypeOK
<1> QED BY <1>1, LoggerInvariant, PTL

(* compare_blacklist's loop and its two special cases let no fopen pass whose    *)
(* name, or whose link's, a pattern with any number of "*" stands for, and no     *)
(* fwrite whose absolute path, the name /proc/self/fd/N gives, one stands for.   *)
THEOREM NothingBlockedPasses ==
    ASSUME Log!LoggerAssumption PROVE Log!Spec => []NeverMissed
<1>1. LogInv => NeverMissed
  BY DEF LogInv
<1> QED BY <1>1, LoggerInvariant, PTL

(* The static buffer of handle_filename, which keeps the tail of the name       *)
(* before, still sends every entry to a log that starts with the stem of its     *)
(* file's name; and a blocked word gets into a log of what was read only from     *)
(* the memory behind the words asked for, whatever the buffer held.              *)
THEOREM LogsAreFaithful ==
    ASSUME Log!LoggerAssumption PROVE Log!Spec => []LogsFaithful
<1>1. LogInv => LogsFaithful
  BY EntriesMean DEF LogInv
<1> QED BY <1>1, LoggerInvariant, PTL

(* fseek(-n) after a refused read that got all it asked for goes back exactly    *)
(* to where the read began.                                                      *)
THEOREM LoggerKeepsPlace ==
    ASSUME Log!LoggerAssumption PROVE Log!Spec => Log!RefusedReadKeepsPlace
<1>1. LogInv /\ [Log!Next]_(Log!vars) => [Log!KeepsPlace]_(Log!vars)
  BY LogStep1
<1> QED BY <1>1, LoggerInvariant, PTL DEF Log!Spec, Log!RefusedReadKeepsPlace
=============================================================================
