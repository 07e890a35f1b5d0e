-------------------------------- MODULE Sdb --------------------------------
(***************************************************************************)
(* The debugger of hw03 (src/hw03/hand_in_version/sdb.c) and the process   *)
(* it traces.  The debugger acts at the prompt and after each waitpid(),   *)
(* where it peeks and pokes the text and the registers of the stopped      *)
(* tracee; between PTRACE_SINGLESTEP, PTRACE_CONT or PTRACE_SYSCALL and    *)
(* the waitpid the tracee runs, one instruction at a time.                 *)
(*                                                                         *)
(* Memory is bytes, because ptrace pokes words: a byte is the program's    *)
(* own ("text"), one the user patched ("patch") or an INT3.  Registers are *)
(* rip and orig_rax; of a breakpoint's int3_code only the low byte is ever *)
(* used, and it is always INT3.                                            *)
(***************************************************************************)
EXTENDS Program, Sequences, SequencesExt, FiniteSetsExt

CONSTANTS
    Word,          \* bytes in a ptrace word (8)
    BreakAddrs,    \* the addresses the user sets breakpoints at
    Patches,       \* the user's patches, <<address, length>>
    MaxBreaks,     \* bound: breakpoints set in a session (<= MAX_BREAKPOINTS)
    Commands       \* the commands the user types

ASSUME SdbAssumption ==
    /\ Word \in Nat \ {0} /\ MaxBreaks \in Nat
    /\ BreakAddrs \subseteq Starts
    /\ Patches \subseteq Nat \X (Nat \ {0})
    /\ Commands \subseteq {"si", "cont", "syscall", "break", "delete", "patch"}

LastByte == Max({a + Code[a].len : a \in Starts} \cup {p[1] + p[2] : p \in Patches})
Addrs == 0 .. LastByte + Word
Bytes == {"text", "patch", "INT3"}

VARIABLES
    (* sdb's globals *)
    breakpoints, bp_again, which_bp, enter, pre_orig_rax,
    (* where sdb is: at its prompt, in which waitpid, or gone *)
    pc, command, hb_i,
    (* the tracee: registers, text, how it was resumed, why it stopped *)
    rip, orig_rax, mem, mode, status, in_syscall,
    (* history: what the last command reported, whether it ran an instruction *)
    said, moved

debugger == <<breakpoints, bp_again, which_bp, enter, pre_orig_rax>>
control  == <<pc, command, hb_i>>
regs     == <<rip, orig_rax>>
tracee   == <<regs, mem, mode, status, in_syscall>>
history  == <<said, moved>>
vars == <<debugger, control, tracee, history>>

Waits == {"si_w1", "si_w2", "si_w", "cont_w1", "cont_w2", "cont_w",
          "syscall_w1", "syscall_w2", "syscall_w",
          "hb_si", "hb_cont", "hb_syscall"}
Indices == 1 .. Len(breakpoints)

Init ==             \* load_program: stopped at the entry point
    /\ breakpoints = <<>> /\ bp_again = FALSE /\ which_bp = 0
    /\ enter = TRUE /\ pre_orig_rax = 0
    /\ pc = "prompt" /\ command = "none" /\ hb_i = 0
    /\ rip = Entry /\ orig_rax = 0
    /\ mem = [a \in Addrs |-> "text"]
    /\ mode = "stopped" /\ status = "step" /\ in_syscall = FALSE
    /\ said = "none" /\ moved = FALSE

-----------------------------------------------------------------------------
(* The tracee.  External: x86 and the kernel's ptrace.                     *)

(* Its bytes still decode as the instruction the program has at a: no INT3  *)
(* behind the first byte.                                                  *)
Intact(a) == /\ a \in Starts
             /\ \A k \in 1 .. Code[a].len - 1 : mem[a + k] # "INT3"

Halt(why) == mode' = "stopped" /\ status' = why

(* An instruction is done; a single step ends here.                         *)
Retired == /\ moved' = TRUE
           /\ IF mode = "step" THEN Halt("step") ELSE UNCHANGED <<mode, status>>

TraceeTrap ==       \* INT3: SIGTRAP with si_code 128, rip behind it
    /\ mode # "stopped" /\ ~in_syscall /\ mem[rip] = "INT3"
    /\ rip' = rip + 1 /\ Halt("int3")
    /\ UNCHANGED <<debugger, control, orig_rax, mem, in_syscall, history>>

TraceeOp ==
    /\ mode # "stopped" /\ ~in_syscall /\ mem[rip] # "INT3" /\ Intact(rip)
    /\ Code[rip].kind = "op" /\ rip' \in Code[rip].next
    /\ Retired
    /\ UNCHANGED <<debugger, control, orig_rax, mem, in_syscall, said>>

(* A system call, rip behind it; PTRACE_SYSCALL stops at its entry, inside.  *)
TraceeSyscall ==
    /\ mode # "stopped" /\ ~in_syscall /\ mem[rip] # "INT3" /\ Intact(rip)
    /\ Code[rip].kind \in {"syscall", "exit"}
    /\ orig_rax' = Code[rip].nr
    /\ \/ /\ mode = "syscall" /\ Halt("syscall") /\ in_syscall' = TRUE
          /\ rip' = rip + Code[rip].len /\ UNCHANGED moved
       \/ /\ mode # "syscall" /\ Code[rip].kind = "syscall"
          /\ rip' \in Code[rip].next /\ Retired /\ UNCHANGED in_syscall
       \/ /\ mode # "syscall" /\ Code[rip].kind = "exit"
          /\ Halt("exited") /\ moved' = TRUE /\ UNCHANGED <<rip, in_syscall>>
    /\ UNCHANGED <<debugger, control, mem, said>>

Exits == {Code[a].nr : a \in {b \in Starts : Code[b].kind = "exit"}}

(* Resumed from the entry of a system call.                                 *)
TraceeLeave ==
    /\ mode # "stopped" /\ in_syscall
    /\ in_syscall' = FALSE
    /\ \/ orig_rax \in Exits /\ Halt("exited") /\ moved' = TRUE
       \/ /\ orig_rax \notin Exits /\ mode = "syscall"
          /\ Halt("syscall") /\ moved' = TRUE
       \/ orig_rax \notin Exits /\ mode # "syscall" /\ Retired
    /\ UNCHANGED <<debugger, control, regs, mem, said>>

(* Execution in the middle of an instruction, or of a garbled one; what the  *)
(* program does then is not modelled further.                              *)
TraceeLost ==
    /\ mode # "stopped" /\ ~in_syscall /\ mem[rip] # "INT3" /\ ~Intact(rip)
    /\ Halt("lost")
    /\ UNCHANGED <<debugger, control, regs, mem, in_syscall, history>>

Tracee == TraceeTrap \/ TraceeOp \/ TraceeSyscall \/ TraceeLeave \/ TraceeLost

-----------------------------------------------------------------------------
(* Pieces of the debugger. *)

Request(c) == pc = "prompt" /\ status \notin {"exited", "lost"} /\ c \in Commands
Resume(how, label) == mode' = how /\ pc' = label
Stopped(label) == pc = label /\ mode = "stopped" /\ status \notin {"exited", "lost"}
Prompt == pc' = "prompt" /\ UNCHANGED <<mode, hb_i>>

WordAtLong(m, a) == [k \in 0 .. Word |-> m[a + k]]   \* seeded fault: one byte more
WordAt(m, a) == [k \in 0 .. Word - 1 |-> m[a + k]]
PokeWord(m, a, w) == [b \in Addrs |-> IF b - a \in DOMAIN w THEN w[b - a] ELSE m[b]]
RearmedLost == mem                             \* seeded fault: not set again
Rearmed == [mem EXCEPT ![breakpoints[which_bp].addr] = "INT3"]

Matches(a) == {i \in Indices : breakpoints[i].active /\ breakpoints[i].addr = a}
BreakSet(a) == \E i \in Indices : breakpoints[i].addr = a    \* active or not

(* handle_breakpoints, called with rip one past a: rip goes back to a; the  *)
(* first active breakpoint at a is hit, unless it was set where rip already *)
(* was: then it is lifted and the command is carried on from there.  m is   *)
(* the text so far, again and which the re-arm request if nothing is hit.   *)
Lift(i, m) == [m EXCEPT ![breakpoints[i].addr] = breakpoints[i].original_code[0]]
Skip(i) ==          \* the breakpoint was set where rip was
    /\ breakpoints[i].ignore_rip_equal_break
    /\ breakpoints' = [breakpoints EXCEPT ![i].ignore_rip_equal_break = FALSE]
    /\ hb_i' = i
    /\ \/ command = "si" /\ Resume("step", "hb_si")
       \/ command = "cont" /\ Resume("cont", "hb_cont")
       \/ command = "syscall" /\ Resume("syscall", "hb_syscall")
    /\ UNCHANGED said
Hit(i) ==
    /\ ~breakpoints[i].ignore_rip_equal_break
    /\ said' = "hit" /\ bp_again' = TRUE /\ which_bp' = i
    /\ Prompt /\ UNCHANGED breakpoints

HandleBreakpoints(a, m, again, which) ==
    /\ rip' = a
    /\ \/ /\ Matches(a) = {} /\ mem' = m
          /\ bp_again' = again /\ which_bp' = which
          /\ Prompt /\ UNCHANGED <<breakpoints, said>>
       \/ /\ Matches(a) # {} /\ mem' = Lift(Min(Matches(a)), m)
          /\ \/ Skip(Min(Matches(a))) /\ bp_again' = again /\ which_bp' = which
             \/ Hit(Min(Matches(a)))
    /\ UNCHANGED <<enter, pre_orig_rax, command, orig_rax, status, in_syscall,
                   moved>>

(* The end of the ignored case: only the breakpoint after hb_i in the table  *)
(* is looked at.                                                            *)
NextInTable(a) == /\ hb_i + 1 \in Indices
                  /\ breakpoints[hb_i + 1].active
                  /\ breakpoints[hb_i + 1].addr = a
AfterIgnored(a, m, again, which) ==
    \/ NextInTable(a) /\ HandleBreakpoints(a, m, again, which)
    \/ /\ ~NextInTable(a)
       /\ rip' = a /\ mem' = m /\ bp_again' = again /\ which_bp' = which
       /\ Prompt
       /\ UNCHANGED <<breakpoints, enter, pre_orig_rax, command, orig_rax,
                      status, in_syscall, history>>

HbSi ==             \* step over, set the breakpoint again
    /\ Stopped("hb_si")
    /\ AfterIgnored(rip, [mem EXCEPT ![breakpoints[hb_i].addr] = "INT3"],
                    bp_again, which_bp)

HbCont ==           \* one byte back, whatever stopped it
    /\ Stopped("hb_cont")
    /\ AfterIgnored(rip - 1, mem, TRUE, hb_i)

HbSyscall ==        \* back onto the INT3, or onto the system call
    /\ Stopped("hb_syscall")
    /\ AfterIgnored(IF status = "int3" THEN rip - 1 ELSE rip - 2,
                    mem, TRUE, hb_i)

(* A command that runs the tracee begins: a lifted breakpoint first.        *)
Begin(c, how, lifted, plain) ==
    /\ Request(c)
    /\ command' = c /\ said' = "none" /\ moved' = FALSE
    /\ Resume(how, IF bp_again THEN lifted ELSE plain)
    /\ UNCHANGED <<debugger, hb_i, regs, mem, status, in_syscall>>
-----------------------------------------------------------------------------
(* si *)
Si == Begin("si", "step", "si_w1", "si_w")

(* After the step: a breakpoint, active or not, at the new rip counts as    *)
(* reached although its INT3 has not been executed.                         *)
SiCheck(m) ==
    \/ /\ status # "int3" /\ ~BreakSet(rip)
       /\ mem' = m /\ bp_again' = FALSE
       /\ Prompt
       /\ UNCHANGED <<breakpoints, which_bp, enter, pre_orig_rax, command, regs,
                      status, in_syscall, history>>
    \/ /\ status = "int3" \/ BreakSet(rip)
       /\ HandleBreakpoints(IF BreakSet(rip) THEN rip ELSE rip - 1, m, FALSE,
                            which_bp)

(* The step from a lifted breakpoint sets it again; when it led back to the  *)
(* same address, there is a second one.                                     *)
SiRearm ==
    /\ Stopped("si_w1")
    /\ \/ rip # breakpoints[which_bp].addr /\ SiCheck(Rearmed)
       \/ /\ rip = breakpoints[which_bp].addr
          /\ mem' = Rearmed /\ Resume("step", "si_w2")
          /\ UNCHANGED <<debugger, command, hb_i, regs, status, in_syscall,
                         history>>

SiDone == (Stopped("si_w") \/ Stopped("si_w2")) /\ SiCheck(mem)

(* cont *)
Cont == Begin("cont", IF bp_again THEN "step" ELSE "cont", "cont_w1", "cont_w")

ContRearm ==
    /\ Stopped("cont_w1")
    /\ mem' = Rearmed
    /\ \/ /\ rip # breakpoints[which_bp].addr
          /\ bp_again' = FALSE /\ Resume("cont", "cont_w")
       \/ /\ rip = breakpoints[which_bp].addr
          /\ UNCHANGED bp_again /\ Resume("step", "cont_w2")
    /\ UNCHANGED <<breakpoints, which_bp, enter, pre_orig_rax, command, hb_i,
                   regs, status, in_syscall, history>>

ContAgain ==
    /\ Stopped("cont_w2")
    /\ bp_again' = FALSE /\ Resume("cont", "cont_w")
    /\ UNCHANGED <<breakpoints, which_bp, enter, pre_orig_rax, command, hb_i,
                   regs, mem, status, in_syscall, history>>

ContDoneAhead == \* seeded fault: rip is left behind the INT3
    Stopped("cont_w") /\ HandleBreakpoints(rip, mem, bp_again, which_bp)
ContDone == Stopped("cont_w") /\ HandleBreakpoints(rip - 1, mem, bp_again, which_bp)

(* syscall: a lifted breakpoint is not stepped over but run from. *)
Syscall == Begin("syscall", "syscall", "syscall_w1", "syscall_w")

SyscallReport(m) ==     \* SIGTRAP | 0x80: the entry or the exit
    /\ status = "syscall"
    /\ LET entering == enter \/ pre_orig_rax # orig_rax IN
       /\ said' = IF entering THEN "enter" ELSE "leave"
       /\ enter' = ~entering
    /\ pre_orig_rax' = orig_rax
    /\ mem' = m /\ bp_again' = FALSE
    /\ Prompt
    /\ UNCHANGED <<breakpoints, which_bp, command, regs, status, in_syscall, moved>>

SyscallCheck(m) ==
    \/ SyscallReport(m)
    \/ status # "syscall" /\ HandleBreakpoints(rip - 1, m, FALSE, which_bp)

SyscallRearm ==
    /\ Stopped("syscall_w1")
    /\ \/ rip # breakpoints[which_bp].addr /\ SyscallCheck(Rearmed)
       \/ /\ rip = breakpoints[which_bp].addr
          /\ mem' = Rearmed /\ Resume("syscall", "syscall_w2")
          /\ UNCHANGED <<debugger, command, hb_i, regs, status, in_syscall,
                         history>>

SyscallDone == /\ Stopped("syscall_w") \/ Stopped("syscall_w2")
               /\ SyscallCheck(mem)

ExitedUnnoticed ==  \* seeded fault: the other waits ignore the error
    /\ pc \in {"si_w", "cont_w", "syscall_w"}
    /\ mode = "stopped" /\ status = "exited"
    /\ pc' = "done"
    /\ UNCHANGED <<debugger, command, hb_i, tracee, history>>

(* The tracee is gone.  The waits that end a command notice it; the others   *)
(* go on to PTRACE_GETREGS or PTRACE_POKETEXT, and errquit().               *)
Exited ==
    /\ pc \in Waits /\ mode = "stopped" /\ status = "exited"
    /\ pc' = IF pc \in {"si_w", "cont_w", "syscall_w"} THEN "done" ELSE "errquit"
    /\ UNCHANGED <<debugger, command, hb_i, tracee, history>>
-----------------------------------------------------------------------------
(* break, delete, patch *)

SetBreakpoints(a) ==
    /\ Request("break")
    /\ command' = "none"
    /\ \/ Matches(a) # {} /\ UNCHANGED <<breakpoints, mem>>
       \/ /\ Matches(a) = {} /\ Len(breakpoints) < MaxBreaks
          /\ breakpoints' = Append(breakpoints,
                [addr |-> a, original_code |-> WordAt(mem, a), active |-> TRUE,
                 ignore_rip_equal_break |-> rip = a])
          /\ mem' = [mem EXCEPT ![a] = "INT3"]
    /\ UNCHANGED <<bp_again, which_bp, enter, pre_orig_rax, pc, hb_i, regs, mode,
                   status, in_syscall, history>>

(* The whole saved word is written back, before active is looked at.        *)
DeleteKeepsCode(i) ==               \* seeded fault: the INT3 stays
    /\ Request("delete") /\ i \in Indices
    /\ command' = "none"
    /\ breakpoints' = [breakpoints EXCEPT ![i].active = FALSE]
    /\ UNCHANGED <<bp_again, which_bp, enter, pre_orig_rax, pc, hb_i, tracee,
                   history>>

DeleteBreakpoint(i) ==
    /\ Request("delete") /\ i \in Indices
    /\ command' = "none"
    /\ mem' = PokeWord(mem, breakpoints[i].addr, breakpoints[i].original_code)
    /\ breakpoints' = [breakpoints EXCEPT ![i].active = FALSE]
    /\ UNCHANGED <<bp_again, which_bp, enter, pre_orig_rax, pc, hb_i, regs, mode,
                   status, in_syscall, history>>

(* The text when patch_memory has written the bytes of p up to address a: a  *)
(* byte with an active breakpoint has got its INT3 again.                   *)
Patched(p, a) == [b \in Addrs |-> IF b \notin p[1] .. a THEN mem[b]
                                  ELSE IF Matches(b) = {} THEN "patch" ELSE "INT3"]

(* Byte by byte; the first active breakpoint at a byte takes the word that    *)
(* is there before its INT3 comes back as its original code.                *)
PatchMemory(p) ==
    /\ Request("patch")
    /\ command' = "none"
    /\ LET last == p[1] + p[2] - 1
           Reached(i) == \E a \in p[1] .. last : Matches(a) # {} /\ i = Min(Matches(a))
           word(a) == WordAt([Patched(p, a) EXCEPT ![a] = "patch"], a)
       IN /\ mem' = Patched(p, last)
          /\ breakpoints' = [i \in Indices |->
                IF Reached(i)
                THEN [breakpoints[i] EXCEPT !.original_code = word(breakpoints[i].addr)]
                ELSE breakpoints[i]]
    /\ UNCHANGED <<bp_again, which_bp, enter, pre_orig_rax, pc, hb_i, regs, mode,
                   status, in_syscall, history>>

-----------------------------------------------------------------------------
(* disassemble, called at rip when si or cont is done: at most five            *)
(* instructions, none behind end_address, from two words of text, each taken  *)
(* from the table where a breakpoint is set at its first byte.  Both the       *)
(* length and the bytes printed come from what is read so.                     *)
end_address == Max({a + Code[a].len : a \in Starts}) - 2
PeekedRaw(a) == WordAt(mem, a)           \* seeded fault: breakpoints show
Peeked(a) == IF Matches(a) = {} THEN WordAt(mem, a)
             ELSE breakpoints[Min(Matches(a))].original_code
Decoded(a) ==
    LET code(k) == IF k < Word THEN Peeked(a)[k] ELSE Peeked(a + Word)[k - Word]
        len == IF code(0) = "INT3" THEN 1 ELSE Code[a].len
    IN  [addr |-> a, bytes |-> [k \in 0 .. len - 1 |-> code(k)]]
NextLine(done) ==
    LET a == IF done = <<>> THEN rip
             ELSE Last(done).addr + Cardinality(DOMAIN Last(done).bytes)
    IN  IF a > end_address \/ a \notin Starts THEN done ELSE Append(done, Decoded(a))
Disassemble ==
    LET Lines[n \in 0 .. 5] == IF n = 0 THEN <<>> ELSE NextLine(Lines[n - 1])
    IN  Lines[5]

(* info break *)
PrintBreakpoints == {i \in Indices : breakpoints[i].active}

-----------------------------------------------------------------------------
Running == Si \/ Cont \/ Syscall
Handling == \/ HbSi \/ HbCont \/ HbSyscall
            \/ SiRearm \/ SiDone \/ ContRearm \/ ContAgain \/ ContDone
            \/ SyscallRearm \/ SyscallDone \/ Exited
Editing == \/ \E a \in BreakAddrs : SetBreakpoints(a)
           \/ \E i \in 1 .. MaxBreaks : DeleteBreakpoint(i)
           \/ \E p \in Patches : PatchMemory(p)

Next == Tracee \/ Running \/ Handling \/ Editing

Spec == Init /\ [][Next]_vars

(* sdb and the tracee keep running; the user may stop typing.               *)
FairSpec == Spec /\ WF_vars(Tracee) /\ WF_vars(Handling)

(* A user who keeps to what the table can handle: no breakpoint where the    *)
(* program stands, and no delete of the breakpoint just hit, of one deleted  *)
(* before or of one whose saved word reaches over another.                   *)
Overlaps(i) == \E j \in Indices : breakpoints[j].addr - breakpoints[i].addr
                                    \in 1 .. Word - 1
CarefulEditing ==
    \/ \E a \in BreakAddrs \ {rip} : SetBreakpoints(a)
    \/ \E i \in Indices : /\ breakpoints[i].active
                          /\ ~(bp_again /\ which_bp = i) /\ ~Overlaps(i)
                          /\ DeleteBreakpoint(i)
CarefulNext == Tracee \/ Running \/ Handling \/ CarefulEditing

CarefulSpec == Init /\ [][CarefulNext]_vars

-----------------------------------------------------------------------------
(* Properties. *)

BreakpointTypes ==
    /\ Len(breakpoints) <= MaxBreaks
    /\ \A i \in Indices :
          breakpoints[i] \in [addr : BreakAddrs,
                             original_code : [0 .. Word - 1 -> Bytes],
                             active : BOOLEAN, ignore_rip_equal_break : BOOLEAN]

(* Every variable keeps its type: in particular the breakpoint to set again  *)
(* and the one handle_breakpoints waits for are entries of the table.       *)
TypeOK ==
    /\ BreakpointTypes
    /\ bp_again \in BOOLEAN /\ enter \in BOOLEAN /\ pre_orig_rax \in Nat
    /\ which_bp \in Indices \cup {0} /\ (bp_again => which_bp # 0)
    /\ pc \in Waits \cup {"prompt", "done", "errquit"}
    /\ command \in {"none", "si", "cont", "syscall"}
    /\ hb_i \in Indices \cup {0}
    /\ (pc \in {"hb_si", "hb_cont", "hb_syscall"} => hb_i # 0)
    /\ rip \in Addrs /\ orig_rax \in Nat
    /\ mem \in [Addrs -> Bytes]
    /\ mode \in {"stopped", "step", "cont", "syscall"}
    /\ status \in {"step", "int3", "syscall", "exited", "lost"}
    /\ in_syscall \in BOOLEAN
    /\ said \in {"none", "hit", "enter", "leave"} /\ moved \in BOOLEAN

(* At the prompt the INT3s in the text are those of the active breakpoints,  *)
(* but for the one just hit: delete, hits and re-arming in any order leave   *)
(* no INT3 behind and take none away.                                       *)
Lifted(i) == bp_again /\ which_bp = i
Armed == pc = "prompt" =>
    \A a \in Addrs :
        mem[a] = "INT3" <=> \E i \in Matches(a) : ~Lifted(i)

(* What sdb lists at the prompt are the next five instructions of the program  *)
(* itself, with its own bytes: no INT3, set, lifted, deleted or saved in        *)
(* another breakpoint's word, shows through.  The loop over end_address - 2     *)
(* leaves out a last instruction of one byte.                                   *)
ListingTrue ==
    (pc = "prompt" /\ rip \in Starts) =>
        LET own == {a \in Starts : a >= rip /\ a <= end_address} IN
        /\ {Disassemble[k].addr : k \in DOMAIN Disassemble} \subseteq own
        /\ Len(Disassemble) = Min({5, Cardinality(own)})
        /\ \A k \in DOMAIN Disassemble :
              LET line == Disassemble[k]
              IN  line.bytes = [j \in 0 .. Code[line.addr].len - 1 |-> "text"]

(* The program never runs into the middle of an instruction.                *)
NeverLost == status # "lost"

(* What the user sees of the program's course: sdb's steps and continues,    *)
(* with its single steps, INT3s and moved-back rip, are those of a debugger  *)
(* that needs none of them.                                                 *)
Seen == INSTANCE Debugger WITH
    at <- IF pc \in Waits /\ mode = "stopped" /\ status = "int3"
          THEN rip - 1 ELSE rip,
    breaks <- {breakpoints[i].addr : i \in PrintBreakpoints},
    doing <- IF status = "exited" THEN "exited"
             ELSE IF pc = "prompt" THEN "prompt" ELSE command,
    told <- said
RunsLikeDebugger == Seen!Spec

(* Whatever the user does, every command comes back to the prompt or ends    *)
(* the session, given a program that ends.                                  *)
CommandsReturn == pc \in Waits ~> (pc \notin Waits \/ status = "lost")

(* A step or continue that ends on a breakpoint says so (sdb.c:200 and 251,  *)
(* `need to check if the next rip is equal to the breakpoint address').     *)
HitsReported == pc = "prompt" /\ command \in {"si", "cont"} /\ Matches(rip) # {}
                   => said = "hit"

(* `enter' is printed at the entry of a system call and `leave' at its exit  *)
(* (sdb.c:777).                                                             *)
EnterLeave == pc = "prompt" => /\ (said = "enter" => in_syscall)
                               /\ (said = "leave" => ~in_syscall)
=============================================================================
