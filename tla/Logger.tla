------------------------------- MODULE Logger -------------------------------
(***************************************************************************)
(* logger.so of hw01 (src/hw01/hw1_hiddencase/logger_solver.c), preloaded  *)
(* into a program with one thread: fopen, fread, fwrite, connect,          *)
(* getaddrinfo and system look the call up in the configuration's          *)
(* blacklists, make the original call, and only then refuse or log it.     *)
(*                                                                         *)
(* Names are sequences of characters, because what the library does to     *)
(* them is a question; contents are sequences of words, none of which has  *)
(* a newline (written out as \n, it makes fwrite's log lose its tail).     *)
(***************************************************************************)
EXTENDS Integers, Sequences, SequencesExt, FiniteSetsExt

CONSTANTS
    Chars,      \* the characters of names and patterns
    Names,      \* file names the program uses
    Root,       \* the directory it runs in, with the last "/"
    LinkTo,     \* where a name that is a symbolic link points, else itself
    Words,      \* contents
    Behind,     \* what memory may hold after what a read got (bound)
    Hosts,      \* what connect and getaddrinfo are called with
    Lists,      \* the blacklists: for "open", "write", "net" sets of patterns
                \* (no line of a section is empty), for "read" a set of words
    MaxWords,   \* words a file may hold (bound)
    MaxLogged   \* nothing is logged once the logs hold so many words (bound)

NUL == "nul"        \* ends a string; fills a file between its end and a write
BufLen == 8                                   \* 100 in the code
(* What handle_symbolic_link says of /proc/self/fd/N, for a stream on n: the  *)
(* whole path, as long as it fits the 64 bytes that lstat gives for its size. *)
Path(n) == Root \o n
LoggerAssumption ==
    /\ Root \in Seq(Chars)
    /\ \A n \in Names : n \in Seq(Chars) /\ n # <<>> /\ Len(Path(n)) < BufLen
    /\ Behind \subseteq Seq(Words \cup {NUL})
    /\ LinkTo \in [Names -> Names]
    /\ \A n \in Names : LinkTo[LinkTo[n]] = LinkTo[n]     \* a link to a file
    /\ NUL \notin Chars \cup Words
    /\ \A kind \in {"open", "write", "net"} : Lists[kind] \subseteq Seq(Chars) \ {<<>>}
    /\ MaxWords \in Nat /\ MaxLogged \in Nat

VARIABLES
    disk,           \* contents of the files
    pos,            \* position of the stream on a file, or -1 (closed)
    only_filename,  \* static buffer of handle_filename
    logs,           \* the log files: contents by kind and name, each word
                    \* with the file of the call and whether it lies behind
                    \* what the call asked for
    config,         \* whether ./$SOLVER_CONFIG can be opened
    alive,          \* FALSE after a null pointer was used
    last            \* the last call: what it did, for the properties
vars == <<disk, pos, only_filename, logs, config, alive, last>>

NoCall == [op |-> "none", arg |-> <<>>, refused |-> FALSE, done |-> FALSE]
Call(op, arg, refused, done) ==
    [op |-> op, arg |-> arg, refused |-> refused, done |-> done]

Init ==
    /\ disk = [n \in Names |-> <<>>] /\ pos = [n \in Names |-> -1]
    /\ only_filename = [k \in 1 .. BufLen |-> NUL]
    /\ logs = <<>> /\ config = TRUE /\ alive = TRUE /\ last = NoCall
-----------------------------------------------------------------------------
(* check_blacklist: the section of one function.  A missing file gives the   *)
(* null pointer; so does an empty section, after writing through it.         *)
Section(kind) == IF config THEN Lists[kind] ELSE {}
Crashes(kind) == config /\ Lists[kind] = {}

(* compare_blacklist for one pattern: characters are compared up to a "*" of *)
(* the pattern or the end of the name.                                       *)
Agree(name, path) ==
    Max({0} \cup {k \in 1 .. Min({Len(name), Len(path)}) :
            \A j \in 1 .. k : name[j] = path[j] /\ path[j] # "*"})
(* handle_filename(name, 1): what follows the last "/". *)
LastPart(name) ==
    LET slashes == {k \in 1 .. Len(name) : name[k] = "/"}
    IN  SubSeq(name, Max({0} \cup slashes) + 1, Len(name))
Stops(name, path, k) == \/ k < Len(path) /\ path[k + 1] = "*"
                        \/ k = Len(name)
Hits(name, path) ==
    \/ Stops(name, path, Agree(name, path))
    \/ path[Len(path)] = "*" /\ ReplaceFirstSubSeq(<<>>, Front(path), name) # name
    \/ IsPrefix(<<".", "/">>, path) /\ LastPart(name) = SubSeq(path, 3, Len(path))
Blacklisted(kind, name) == \E path \in Section(kind) : Hits(name, path)
-----------------------------------------------------------------------------
(* handle_filename(name, 0): the last part without its extension, in a       *)
(* static buffer.  strcpy writes a terminator, strncpy here does not.        *)
Stem(name) ==
    LET dots == {k \in 1 .. Len(LastPart(name)) : LastPart(name)[k] = "."}
    IN  IF dots = {} THEN LastPart(name) ELSE SubSeq(LastPart(name), 1, Max(dots) - 1)
Overlay(b, s) == [k \in 1 .. BufLen |-> IF k <= Len(s) THEN s[k] ELSE b[k]]
HandleFilename(name) ==
    Overlay(only_filename,
            IF Stem(name) = LastPart(name) THEN Append(Stem(name), NUL) ELSE Stem(name))
CString(b) == SubSeq(b, 1, Min({k \in 1 .. Len(b) + 1 : k > Len(b) \/ b[k] = NUL}) - 1)

LogKey(kind, b) == [kind |-> kind, name |-> CString(b)]
Logged(key) == IF key \in DOMAIN logs THEN logs[key] ELSE <<>>
Has(s) == [k \in DOMAIN s |-> s[k].word]
(* write_log_file: appended to the log of this name, created when new; the    *)
(* call was for n words.                                                      *)
WriteLog(kind, b, file, words, n) ==
    LET key == LogKey(kind, b)
        new == [i \in DOMAIN words |-> [file |-> file, word |-> words[i], behind |-> i > n]]
    IN  /\ MapThenSumSet(LAMBDA x : Len(logs[x]), DOMAIN logs) < MaxLogged
        /\ logs' = [x \in DOMAIN logs \cup {key} |->
                        IF x = key THEN Logged(key) \o new ELSE logs[x]]
-----------------------------------------------------------------------------
Crash == alive' = FALSE /\ last' = NoCall /\ UNCHANGED <<disk, pos, only_filename, logs, config>>

(* handle_symbolic_link: what readlink says, once, or the name itself.        *)
HandleSymbolicLink(name) == LinkTo[name]

(* fopen: refused by its own name or by the one its link names, but opened   *)
(* (and truncated, for "w") all the same; a refused stream is lost.          *)
FopenRefusedName(name) == Blacklisted("open", name)      \* seeded fault: links not followed
FopenRefused(name) == Blacklisted("open", name) \/ Blacklisted("open", HandleSymbolicLink(name))
Fopen(name, mode) ==
    /\ ~Crashes("open")
    /\ disk' = IF mode = "w" THEN [disk EXCEPT ![LinkTo[name]] = <<>>] ELSE disk
    /\ pos' = IF FopenRefused(name) THEN pos ELSE [pos EXCEPT ![LinkTo[name]] = 0]
    /\ last' = Call("fopen", name, FopenRefused(name), TRUE)
    /\ UNCHANGED <<only_filename, logs, config, alive>>

(* fread of n words, into memory that holds `behind' after what is got.  The   *)
(* list is looked for in the n words asked for, taken as a string: after a     *)
(* short read, in what was there before, too.  A refused read is taken back by *)
(* fseek(-n): by what was asked, not by what was got, and not at all when that *)
(* is before the start.  The log gets the string that starts at ptr: it ends   *)
(* at a hole or anywhere behind the n words, which nobody looked at.           *)
Got(f, n) == SubSeq(disk[f], pos[f] + 1, Min({pos[f] + n, Len(disk[f])}))
BackNone(p, n) == p                                      \* seeded fault: no fseek
Back(p, n) == IF p - n < 0 THEN p ELSE p - n
CheckedGot(memory, n) ==                       \* seeded fault: the last word is not looked at
    CString(SubSeq(memory, 1, Min({n, Len(memory)}) - 1))
CheckedWords(memory, n) == CString(SubSeq(memory, 1, Min({n, Len(memory)})))
Fread(f, n, behind) ==
    LET got == Got(f, n)
        memory == got \o behind
        refused == ToSet(CheckedWords(memory, n)) \cap Section("read") # {}
        p == pos[f] + Len(got)
    IN  /\ pos[f] >= 0 /\ config /\ ~Crashes("read")
        /\ only_filename' = HandleFilename(Path(f))
        /\ pos' = [pos EXCEPT ![f] = IF refused THEN Back(p, n) ELSE p]
        /\ IF refused THEN UNCHANGED logs
                      ELSE WriteLog("read", only_filename', f, CString(memory), n)
        /\ last' = Call("fread", <<f, Len(got), n>>, refused, TRUE)
        /\ UNCHANGED <<disk, config, alive>>

(* fwrite: the original writes whatever the list says.  The list is asked     *)
(* about the absolute path, so that only a pattern that is absolute or ends    *)
(* in "*" can refuse it.  A refused fopen may have truncated the file under    *)
(* the stream: then a hole is left before the word.                            *)
Put(s, p, w) == [k \in 1 .. Max({Len(s), p + 1}) |->
                    IF k = p + 1 THEN w ELSE IF k <= Len(s) THEN s[k] ELSE NUL]
RefusedWrite(f) == Blacklisted("write", Path(f))
Fwrite(f, w) ==
    /\ pos[f] >= 0 /\ ~Crashes("write") /\ pos[f] < MaxWords
    /\ only_filename' = HandleFilename(Path(f))
    /\ disk' = [disk EXCEPT ![f] = Put(@, pos[f], w)]
    /\ pos' = [pos EXCEPT ![f] = @ + 1]
    /\ IF RefusedWrite(f) THEN UNCHANGED logs ELSE WriteLog("write", only_filename', f, <<w>>, 1)
    /\ last' = Call("fwrite", f, RefusedWrite(f), TRUE)
    /\ UNCHANGED <<config, alive>>

(* connect, getaddrinfo, system: made first, then reported refused.          *)
Connect(h) ==
    /\ ~Crashes("net")
    /\ last' = Call("connect", h, Blacklisted("net", h), TRUE)
    /\ UNCHANGED <<disk, pos, only_filename, logs, config, alive>>
System ==
    /\ last' = Call("system", <<>>, FALSE, TRUE)
    /\ UNCHANGED <<disk, pos, only_filename, logs, config, alive>>

(* The null list: compare_read has no test for it, compare_blacklist has;    *)
(* an empty section ends the program in check_blacklist.                     *)
NullList ==
    /\ \/ \E f \in Names : pos[f] >= 0 /\ (~config \/ Crashes("read"))
       \/ Crashes("open") \/ Crashes("net")
       \/ Crashes("write") /\ \E f \in Names : pos[f] >= 0
    /\ Crash

(* The program changes its directory: "./" in front of the configuration's   *)
(* name now leads elsewhere.                                                 *)
Chdir == /\ config' = FALSE /\ last' = NoCall
         /\ UNCHANGED <<disk, pos, only_filename, logs, alive>>

Rewind(f) == /\ pos[f] > 0 /\ pos' = [pos EXCEPT ![f] = 0] /\ last' = NoCall
             /\ UNCHANGED <<disk, only_filename, logs, config, alive>>

Next ==
    /\ alive
    /\ \/ \E n \in Names, m \in {"r", "w"} : Fopen(n, m)
       \/ \E f \in Names, n \in 1 .. 2, behind \in Behind : Fread(f, n, behind)
       \/ \E f \in Names, w \in Words : Fwrite(f, w)
       \/ \E h \in Hosts : Connect(h)
       \/ System \/ NullList \/ Chdir
       \/ \E f \in Names : Rewind(f)
Spec == Init /\ [][Next]_vars
-----------------------------------------------------------------------------
TypeOK ==
    /\ disk \in [Names -> Seq(Words \cup {NUL})] /\ pos \in [Names -> -1 .. MaxWords]
    /\ only_filename \in [1 .. BufLen -> Chars \cup {NUL}]
    /\ config \in BOOLEAN /\ alive \in BOOLEAN
    /\ \A x \in DOMAIN logs : ToSet(Has(logs[x])) \subseteq Words

(* A reference for the patterns of the configuration ("* might appear in     *)
(* paths"): some string stands for each "*".  f says how far into the name    *)
(* the first j characters of the pattern reach.                               *)
Glob(name, path) ==
    \E f \in [0 .. Len(path) -> 0 .. Len(name)] :
        /\ f[0] = 0 /\ f[Len(path)] = Len(name)
        /\ \A j \in 1 .. Len(path) :
             \/ path[j] = "*" /\ f[j - 1] <= f[j]
             \/ f[j] = f[j - 1] + 1 /\ name[f[j]] = path[j]

(* Nothing the configuration blocks is reported as done, as long as the       *)
(* configuration is found: a name that one of its patterns stands for is not    *)
(* opened, by itself or through a link, and nothing is written to a file whose   *)
(* absolute path one of its patterns stands for (a pattern for a relative name   *)
(* stands for no absolute path).                                                 *)
NeverMissed ==
    (config /\ ~last.refused) =>
        /\ last.op = "fopen" =>
             \A path \in Lists["open"] : ~Glob(last.arg, path) /\ ~Glob(LinkTo[last.arg], path)
        /\ last.op = "fwrite" => \A path \in Lists["write"] : ~Glob(Path(last.arg), path)

(* What a call appends goes to a log whose name begins with the name of its     *)
(* file (it may go on with the tail of a longer name used before, which strncpy  *)
(* leaves in the buffer); and a word of the read blacklist gets into a log of     *)
(* what was read only from the memory behind what the call asked for, which the   *)
(* blacklist is not compared with.                                                *)
LogsFaithful ==
    \A x \in DOMAIN logs : \A k \in DOMAIN logs[x] :
        /\ IsPrefix(Stem(Path(logs[x][k].file)), x.name)
        /\ x.kind = "read" /\ logs[x][k].word \in Lists["read"] => logs[x][k].behind

(* A refused read that was not cut short leaves the stream where it was, so    *)
(* that the program can read the same place again.                             *)
KeepsPlace ==
    (last'.op = "fread" /\ last'.refused /\ last'.arg[2] = last'.arg[3]) => pos' = pos
RefusedReadKeepsPlace == [][KeepsPlace]_vars
=============================================================================
