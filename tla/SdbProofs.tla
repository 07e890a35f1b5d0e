------------------------------ MODULE SdbProofs ------------------------------
(***************************************************************************)
(* Proofs about Sdb for every program text, every width of a ptrace word   *)
(* and any number of breakpoints: for a user who keeps to what the table   *)
(* can handle (CarefulSpec), and the types for one who does everything.    *)
(***************************************************************************)
EXTENDS Sdb, TLAPS, FiniteSetTheorems, WellFoundedInduction

(* The program is finite, and nothing is patched.                             *)
FiniteText == IsFiniteSet(Starts) /\ Patches = {}

(* Instructions do not overlap, none follows itself, and the user does not     *)
(* type `syscall'.  After an instruction that jumps to itself ContAgain would   *)
(* run on from behind the INT3 that SiRearm's likes have set again; a stop at   *)
(* a system call may leave rip on a breakpoint that is set.                    *)
PlainText ==
    /\ \A a, b \in Starts : b \notin a + 1 .. a + Code[a].len - 1
    /\ \A a \in Starts : a \notin Code[a].next
    /\ "syscall" \notin Commands

AtBreak == {"prompt", "si_w1", "cont_w1", "syscall_w1"}
Again   == {"si_w1", "cont_w1", "syscall_w1", "si_w2", "cont_w2", "syscall_w2"}
Plain   == {"si_w", "cont_w", "syscall_w"}
Gone    == {"done", "errquit"}

(* The text m has its INT3s where the table says, but for the entries in L.    *)
TextOf(m, L) ==
    /\ m \in [Addrs -> Bytes]
    /\ \A a \in Addrs : m[a] = "INT3" <=> \E i \in Matches(a) : i \notin L

Entries == [addr : BreakAddrs, original_code : [0 .. Word - 1 -> Bytes],
            active : BOOLEAN, ignore_rip_equal_break : BOOLEAN]

(* The table: no entry waits to be skipped, one active entry per address, and  *)
(* an INT3 in a saved word belongs to another breakpoint, behind this one.     *)
Table ==
    /\ breakpoints \in Seq(Entries)
    /\ \A i \in Indices : ~breakpoints[i].ignore_rip_equal_break
    /\ \A i, j \in Indices :
          (breakpoints[i].active /\ breakpoints[j].active
              /\ breakpoints[i].addr = breakpoints[j].addr) => i = j
    /\ \A i \in Indices : breakpoints[i].original_code[0] # "INT3"
    /\ \A i \in Indices, k \in 1 .. Word - 1 :
          breakpoints[i].original_code[k] = "INT3" =>
              \E j \in Indices : breakpoints[j].addr = breakpoints[i].addr + k

(* What is lifted: the breakpoint just hit, until the step that sets it again. *)
Text ==
    /\ pc \in AtBreak \cup Again \cup Plain \cup Gone
    /\ bp_again \in BOOLEAN
    /\ bp_again => which_bp \in Indices /\ breakpoints[which_bp].active
    /\ pc \in Again => bp_again
    /\ pc \in Plain => ~bp_again
    /\ pc \in AtBreak => TextOf(mem, IF bp_again THEN {which_bp} ELSE {})
    /\ pc \in (Again \cup Plain) \ AtBreak => TextOf(mem, {})

IInv == Table /\ Text

(* How far the program is, at each place of the debugger: at the prompt it     *)
(* stands on no breakpoint but the one just hit, and a command has moved it     *)
(* when it stops.                                                             *)
From == breakpoints[which_bp].addr
Course ==
    /\ ~in_syscall /\ mode \in {"stopped", "step", "cont"} /\ moved \in BOOLEAN
    /\ status \in {"step", "int3", "exited"} /\ (status = "exited" => mode = "stopped")
    /\ pc \in {"prompt", "si_w1", "si_w", "cont_w1", "cont_w"} \cup Gone
    /\ pc = "prompt" =>
          /\ mode = "stopped" /\ status \in {"step", "int3"} /\ rip \in Starts
          /\ bp_again => rip = From
          /\ \A i \in Matches(rip) : Lifted(i)
    /\ pc \in Waits => said = "none"
    /\ pc \in {"si_w1", "si_w"} => command = "si"
    /\ pc \in {"cont_w1", "cont_w"} => command = "cont"
    /\ pc \in {"si_w1", "cont_w1"} =>
          \/ mode = "step" /\ rip \in Starts /\ rip = From /\ ~moved
          \/ mode = "stopped" /\ status = "exited"
          \/ mode = "stopped" /\ status = "step" /\ moved /\ rip \in Code[From].next
    /\ pc = "si_w" =>
          \/ mode = "step" /\ rip \in Starts /\ Matches(rip) = {} /\ ~moved
          \/ mode = "stopped" /\ status = "exited"
          \/ mode = "stopped" /\ status = "step" /\ moved /\ rip \in Starts
    /\ pc = "cont_w" =>
          \/ mode = "cont" /\ rip \in Starts /\ (~moved => Matches(rip) = {})
          \/ mode = "stopped" /\ status = "exited"
          \/ mode = "stopped" /\ status = "int3" /\ moved /\ rip - 1 \in Starts
                /\ Matches(rip - 1) # {}
    /\ pc \in Gone => mode = "stopped" /\ status = "exited"
-----------------------------------------------------------------------------
(* Addresses and indices. *)

(* A finite set of numbers that is not empty has a largest and a smallest.     *)
LEMMA Largest ==
    ASSUME NEW S \in SUBSET Nat, S # {}, IsFiniteSet(S)
    PROVE  Max(S) \in S /\ \A j \in S : Max(S) >= j
<1>. DEFINE Above == {{j \in S : j >= i} : i \in S}
            Smaller == StrictSubsetOrdering(S)
<1>1. Above \subseteq FiniteSubsetsOf(S) /\ Above # {}
  <2>1. ASSUME NEW i \in S PROVE {j \in S : j >= i} \in FiniteSubsetsOf(S)
    <3>1. {j \in S : j >= i} \in SUBSET S
      OBVIOUS
    <3>2. IsFiniteSet({j \in S : j >= i})
      BY <3>1, FS_Subset
    <3>. QED BY <3>1, <3>2 DEF FiniteSubsetsOf
  <2>. QED BY <2>1
<1>2. IsWellFoundedOn(Smaller, FiniteSubsetsOf(S))
  BY FS_StrictSubsetOrderingWellFounded
<1>3. PICK s \in Above : \A t \in Above : ~(<<t, s>> \in Smaller)
  <2>. HIDE DEF Above, Smaller
  <2>. QED BY <1>1, <1>2, WFMin
<1>4. PICK x \in S : s = {j \in S : j >= x}
  OBVIOUS
<1>5. ASSUME NEW y \in S PROVE x >= y
  <2>. DEFINE T == {j \in S : j >= y}
  <2>1. ~(<<T, s>> \in Smaller)
    BY <1>3
  <2>2. CASE y > x
    <3>1. x \in Nat /\ y \in Nat /\ \A j \in S : j \in Nat
      OBVIOUS
    <3>2. T \subseteq S /\ s \subseteq S
      BY <1>4
    <3>3. x \in s /\ x \notin T
      BY <1>4, <2>2, <3>1
    <3>4. ASSUME NEW j \in T PROVE j \in s
      BY <1>4, <2>2, <3>1, <3>4
    <3>5. T # s /\ T \subseteq s
      BY <3>3, <3>4
    <3>. QED BY <2>1, <3>2, <3>5 DEF StrictSubsetOrdering
  <2>. QED BY <2>2
<1>. QED BY <1>5 DEF Max

LEMMA Smallest ==
    ASSUME NEW S \in SUBSET Nat, S # {}
    PROVE  Min(S) \in S
<1>. DEFINE Less == OpToRel(<, Nat)
<1>1. PICK x \in S : \A y \in S : ~(<<y, x>> \in Less)
  <2>1. IsWellFoundedOn(Less, Nat)
    BY NatLessThanWellFounded
  <2>. HIDE DEF Less
  <2>. QED BY <2>1, WFMin
<1>2. ASSUME NEW y \in S PROVE x <= y
  <2>1. x \in Nat /\ y \in Nat /\ ~(<<y, x>> \in Less)
    BY <1>1
  <2>. QED BY <2>1 DEF OpToRel
<1>. QED BY <1>2 DEF Min

(* The modelled addresses hold every instruction and a word from each start.   *)
LEMMA TextFits ==
    ASSUME FiniteText
    PROVE  /\ Addrs \subseteq Nat /\ Starts \subseteq Addrs
           /\ \A a \in Starts : \A k \in 0 .. Word + Code[a].len : a + k \in Addrs
<1>. DEFINE Ends == {a + Code[a].len : a \in Starts}
            f == [a \in Starts |-> a + Code[a].len]
<1>1. Ends \in SUBSET Nat /\ Ends # {}
  BY ProgramAssumption
<1>2. IsFiniteSet(Ends)
  <2>1. f \in Surjection(Starts, Ends)
    BY DEF Surjection
  <2>. HIDE DEF f, Ends
  <2>. QED BY <2>1, FS_Surjection DEF FiniteText
<1>3. LastByte = Max(Ends)
  <2>1. {p[1] + p[2] : p \in Patches} = {}
    BY DEF FiniteText
  <2>2. Ends \cup {p[1] + p[2] : p \in Patches} = Ends
    BY <2>1
  <2>. QED BY <2>2 DEF LastByte
<1>4. LastByte \in Nat /\ \A a \in Starts : LastByte >= a + Code[a].len
  <2>1. Max(Ends) \in Ends /\ \A j \in Ends : Max(Ends) >= j
    <3>. HIDE DEF Ends
    <3>. QED BY <1>1, <1>2, Largest
  <2>. QED BY <1>1, <1>3, <2>1
<1>5. Word \in Nat \ {0}
  BY SdbAssumption
<1>6. Addrs \subseteq Nat
  BY <1>4, <1>5 DEF Addrs
<1>7. \A a \in Starts : \A k \in 0 .. Word + Code[a].len : a + k \in Addrs
  BY <1>4, <1>5, ProgramAssumption DEF Addrs
<1>8. Starts \subseteq Addrs
  BY <1>4, <1>5, ProgramAssumption DEF Addrs
<1>. QED BY <1>6, <1>7, <1>8

LEMMA Breaks == BreakAddrs \subseteq Starts /\ Starts \subseteq Nat /\ Word \in Nat \ {0}
BY SdbAssumption, ProgramAssumption

LEMMA MatchFacts ==
    ASSUME breakpoints \in Seq(Entries), NEW a, Matches(a) # {}
    PROVE  Min(Matches(a)) \in Matches(a) /\ Min(Matches(a)) \in Indices
<1>1. Matches(a) \in SUBSET Nat
  BY DEF Matches, Indices
<1>. QED BY <1>1, Smallest DEF Matches

LEMMA EntryTyped ==
    ASSUME FiniteText, breakpoints \in Seq(Entries), NEW i \in Indices
    PROVE  /\ breakpoints[i] \in Entries
           /\ breakpoints[i].addr \in BreakAddrs /\ breakpoints[i].addr \in Addrs
           /\ breakpoints[i].original_code[0] \in Bytes
<1>1. breakpoints[i] \in Entries
  BY DEF Indices
<1>2. breakpoints[i].addr \in BreakAddrs /\ breakpoints[i].original_code[0] \in Bytes
  BY <1>1, Breaks DEF Entries
<1>. QED BY <1>1, <1>2, Breaks, TextFits

(* The word at a start.                                                       *)
LEMMA WordTyped ==
    ASSUME FiniteText, mem \in [Addrs -> Bytes], NEW a \in BreakAddrs
    PROVE  /\ WordAt(mem, a) \in [0 .. Word - 1 -> Bytes]
           /\ \A k \in 0 .. Word - 1 : a + k \in Addrs /\ WordAt(mem, a)[k] = mem[a + k]
<1>1. \A k \in 0 .. Word - 1 : a + k \in Addrs
  <2>1. a \in Starts /\ Word \in Nat /\ Code[a].len \in Nat
    BY Breaks, ProgramAssumption
  <2>2. \A k \in 0 .. Word - 1 : k \in 0 .. Word + Code[a].len
    BY <2>1
  <2>. QED BY <2>1, <2>2, TextFits
<1>. QED BY <1>1 DEF WordAt
-----------------------------------------------------------------------------
(* Setting an INT3 again, lifting one, and handle_breakpoints. *)

LEMMA RearmText ==
    ASSUME FiniteText, Table, which_bp \in Indices, breakpoints[which_bp].active,
           TextOf(mem, {which_bp})
    PROVE  TextOf(Rearmed, {})
<1>. DEFINE w == breakpoints[which_bp].addr
<1>1. w \in BreakAddrs /\ w \in Addrs
  BY EntryTyped DEF Table
<1>2. Rearmed = [mem EXCEPT ![w] = "INT3"] /\ which_bp \in Matches(w)
  BY DEF Rearmed, Matches
<1>3. Rearmed \in [Addrs -> Bytes]
  BY <1>2 DEF TextOf, Bytes
<1>4. ASSUME NEW a \in Addrs PROVE Rearmed[a] = "INT3" <=> \E i \in Matches(a) : i \notin {}
  <2>1. CASE a = w
    BY <1>1, <1>2, <2>1 DEF TextOf
  <2>2. CASE a # w
    <3>1. Rearmed[a] = mem[a] /\ which_bp \notin Matches(a)
      BY <1>2, <1>4, <2>2 DEF TextOf, Matches
    <3>. QED BY <1>4, <3>1 DEF TextOf
  <2>. QED BY <2>1, <2>2
<1>. QED BY <1>3, <1>4 DEF TextOf

LEMMA LiftText ==
    ASSUME FiniteText, Table, NEW m, TextOf(m, {}), NEW i \in Indices, breakpoints[i].active
    PROVE  TextOf(Lift(i, m), {i})
<1>. DEFINE w == breakpoints[i].addr
            o == breakpoints[i].original_code[0]
<1>1. w \in Addrs /\ o \in Bytes /\ o # "INT3"
  BY EntryTyped DEF Table
<1>2. Lift(i, m) = [m EXCEPT ![w] = o] /\ i \in Matches(w)
  BY DEF Lift, Matches
<1>3. Lift(i, m) \in [Addrs -> Bytes]
  BY <1>1, <1>2 DEF TextOf
<1>4. ASSUME NEW a \in Addrs PROVE Lift(i, m)[a] = "INT3" <=> \E j \in Matches(a) : j \notin {i}
  <2>1. CASE a = w
    <3>1. Lift(i, m)[a] # "INT3"
      BY <1>1, <1>2, <2>1 DEF TextOf
    <3>2. \A j \in Matches(a) : j = i
      BY <1>2, <2>1 DEF Matches, Table
    <3>. QED BY <3>1, <3>2
  <2>2. CASE a # w
    <3>1. Lift(i, m)[a] = m[a] /\ i \notin Matches(a)
      BY <1>2, <1>4, <2>2 DEF TextOf, Matches
    <3>. QED BY <1>4, <3>1 DEF TextOf
  <2>. QED BY <2>1, <2>2
<1>. QED BY <1>3, <1>4 DEF TextOf

(* handle_breakpoints, called on a text with all its INT3s: it comes back to   *)
(* the prompt, with the breakpoint at a, if there is one, reported and lifted.  *)
LEMMA HandleFacts ==
    ASSUME FiniteText, Table, NEW m, TextOf(m, {}), NEW a, NEW which,
           HandleBreakpoints(a, m, FALSE, which)
    PROVE  /\ breakpoints' = breakpoints /\ pc' = "prompt"
           /\ rip' = a /\ mode' = mode /\ status' = status /\ moved' = moved
           /\ command' = command /\ in_syscall' = in_syscall
           /\ \/ Matches(a) = {} /\ bp_again' = FALSE /\ mem' = m /\ said' = said
              \/ /\ Matches(a) # {} /\ bp_again' = TRUE /\ which_bp' \in Matches(a)
                 /\ mem' = Lift(which_bp', m) /\ said' = "hit"
<1>1. rip' = a /\ status' = status /\ moved' = moved /\ command' = command /\ in_syscall' = in_syscall
  BY DEF HandleBreakpoints
<1>2. CASE Matches(a) = {}
  BY <1>1, <1>2 DEF HandleBreakpoints, Prompt
<1>3. CASE Matches(a) # {}
  <2>1. Min(Matches(a)) \in Matches(a) /\ Min(Matches(a)) \in Indices
    BY <1>3, MatchFacts DEF Table
  <2>2. ~Skip(Min(Matches(a)))
    BY <2>1 DEF Skip, Table
  <2>3. Hit(Min(Matches(a))) /\ mem' = Lift(Min(Matches(a)), m)
    BY <1>3, <2>2 DEF HandleBreakpoints
  <2>. QED BY <1>1, <1>3, <2>1, <2>3 DEF Hit, Prompt
<1>. QED BY <1>2, <1>3

LEMMA HandleInv ==
    ASSUME FiniteText, Table, NEW m, TextOf(m, {}), NEW a, NEW which,
           HandleBreakpoints(a, m, FALSE, which)
    PROVE  IInv'
<1>1. /\ breakpoints' = breakpoints /\ pc' = "prompt"
      /\ \/ bp_again' = FALSE /\ mem' = m
         \/ bp_again' = TRUE /\ which_bp' \in Matches(a) /\ mem' = Lift(which_bp', m)
  BY HandleFacts
<1>2. Table'
  BY <1>1 DEF Table, Indices
<1>3. (\A b : Matches(b)' = Matches(b)) /\ Indices' = Indices
  BY <1>1 DEF Matches, Indices
<1>4. bp_again' => which_bp' \in Indices /\ breakpoints[which_bp'].active
  BY <1>1 DEF Matches
<1>5. TextOf(mem', IF bp_again' THEN {which_bp'} ELSE {})
  <2>1. CASE bp_again'
    <3>1. mem' = Lift(which_bp', m)
      BY <1>1, <2>1
    <3>. QED BY <1>4, <2>1, <3>1, LiftText
  <2>2. CASE ~bp_again'
    BY <1>1, <2>2
  <2>. QED BY <2>1, <2>2
<1>6. TextOf(mem, IF bp_again THEN {which_bp} ELSE {})'
  BY <1>3, <1>5 DEF TextOf
<1>. QED BY <1>1, <1>2, <1>3, <1>4, <1>6 DEF IInv, Text, AtBreak, Again, Plain
-----------------------------------------------------------------------------
(* The table and the text: one lemma per group of actions. *)

LEMMA InitInv == ASSUME FiniteText, Init PROVE IInv
<1>1. breakpoints = <<>> /\ Indices = {}
  BY DEF Init, Indices
<1>2. Table
  BY <1>1 DEF Table
<1>3. TextOf(mem, {})
  BY <1>1 DEF Init, TextOf, Matches, Bytes
<1>. QED BY <1>1, <1>2, <1>3 DEF Init, IInv, Text, AtBreak, Again, Plain

(* Nothing that the invariant speaks of changes but the place, and at it the    *)
(* text is the same.                                                          *)
LEMMA FrameInv ==
    ASSUME IInv, breakpoints' = breakpoints, mem' = mem, bp_again' = bp_again,
           which_bp' = which_bp,
           \/ pc' = pc
           \/ pc = "prompt" /\ bp_again /\ pc' \in AtBreak
           \/ pc = "prompt" /\ ~bp_again /\ pc' \in Plain
           \/ pc' \in Gone
    PROVE  IInv'
<1>1. Table'
  BY DEF IInv, Table, Indices
<1>2. (\A b : Matches(b)' = Matches(b)) /\ Indices' = Indices
  BY DEF Matches, Indices
<1>4. TextOf(mem, IF bp_again THEN {which_bp} ELSE {})' <=> TextOf(mem, IF bp_again THEN {which_bp} ELSE {})
  BY <1>2 DEF TextOf
<1>5. TextOf(mem, {})' <=> TextOf(mem, {})
  BY <1>2 DEF TextOf
<1>. QED BY <1>1, <1>2, <1>4, <1>5 DEF IInv, Text, AtBreak, Again, Plain, Gone

LEMMA TraceeInv == ASSUME IInv, Tracee PROVE IInv'
BY FrameInv DEF Tracee, TraceeTrap, TraceeOp, TraceeSyscall, TraceeLeave, TraceeLost, debugger,
   control

LEMMA RunningInv == ASSUME IInv, Running PROVE IInv'
<1>1. /\ breakpoints' = breakpoints /\ mem' = mem /\ bp_again' = bp_again /\ which_bp' = which_bp
      /\ pc = "prompt"
      /\ \/ bp_again /\ pc' \in AtBreak
         \/ ~bp_again /\ pc' \in Plain
  BY DEF IInv, Text, Running, Si, Cont, Syscall, Begin, Request, Resume, debugger, AtBreak, Plain
<1>. QED BY <1>1, FrameInv

(* The places before the first stop, with a breakpoint lifted; its INT3 is set  *)
(* again there.                                                               *)
LEMMA Relift ==
    ASSUME FiniteText, IInv, pc \in {"si_w1", "cont_w1", "syscall_w1"}
    PROVE  /\ TextOf(Rearmed, {}) /\ bp_again
           /\ which_bp \in Indices /\ breakpoints[which_bp].active
<1>1. /\ bp_again /\ which_bp \in Indices /\ breakpoints[which_bp].active
      /\ TextOf(mem, {which_bp})
  BY DEF IInv, Text, AtBreak, Again
<1>. QED BY <1>1, RearmText DEF IInv

LEMMA Full ==
    ASSUME IInv, pc \in {"si_w", "si_w2", "cont_w", "cont_w2", "syscall_w", "syscall_w2"}
    PROVE  TextOf(mem, {}) /\ (pc \in Plain => bp_again = FALSE)
BY DEF IInv, Text, AtBreak, Again, Plain

(* A step that leaves the table alone, from a place with the text m full.       *)
LEMMA FullInv ==
    ASSUME IInv, breakpoints' = breakpoints, TextOf(mem', {}), bp_again' \in BOOLEAN,
           \/ ~bp_again' /\ pc' \in Plain \cup {"prompt"}
           \/ /\ bp_again' /\ pc' \in Again \ AtBreak
              /\ which_bp' \in Indices /\ breakpoints[which_bp'].active
    PROVE  IInv'
<1>1. Table'
  BY DEF IInv, Table, Indices
<1>2. (\A b : Matches(b)' = Matches(b)) /\ Indices' = Indices
  BY DEF Matches, Indices
<1>3. TextOf(mem, {})'
  BY <1>2 DEF TextOf
<1>. QED BY <1>1, <1>2, <1>3 DEF IInv, Text, AtBreak, Again, Plain

(* si *)
LEMMA SiCheckInv ==
    ASSUME FiniteText, IInv, NEW m, TextOf(m, {}), SiCheck(m)
    PROVE  IInv'
<1>1. CASE HandleBreakpoints(IF BreakSet(rip) THEN rip ELSE rip - 1, m, FALSE, which_bp)
  BY <1>1, HandleInv DEF IInv
<1>2. CASE ~HandleBreakpoints(IF BreakSet(rip) THEN rip ELSE rip - 1, m, FALSE, which_bp)
  <2>1. breakpoints' = breakpoints /\ mem' = m /\ bp_again' = FALSE /\ pc' = "prompt"
    BY <1>2 DEF SiCheck, Prompt
  <2>. QED BY <2>1, FullInv
<1>. QED BY <1>1, <1>2

LEMMA SiInv == ASSUME FiniteText, IInv, SiRearm \/ SiDone PROVE IInv'
<1>1. CASE SiRearm
  <2>1. TextOf(Rearmed, {}) /\ bp_again /\ which_bp \in Indices /\ breakpoints[which_bp].active
    BY <1>1, Relift DEF SiRearm, Stopped
  <2>2. CASE SiCheck(Rearmed)
    BY <2>1, <2>2, SiCheckInv
  <2>3. CASE ~SiCheck(Rearmed)
    <3>1. /\ breakpoints' = breakpoints /\ mem' = Rearmed /\ bp_again' = bp_again
          /\ which_bp' = which_bp /\ pc' = "si_w2"
      BY <1>1, <2>3 DEF SiRearm, Resume, debugger
    <3>. QED BY <2>1, <3>1, FullInv DEF Again, AtBreak, IInv, Text
  <2>. QED BY <2>2, <2>3
<1>2. CASE SiDone
  BY <1>2, Full, SiCheckInv DEF SiDone, Stopped
<1>. QED BY <1>1, <1>2

(* cont *)
LEMMA ContInv == ASSUME FiniteText, IInv, ContRearm \/ ContAgain \/ ContDone PROVE IInv'
<1>1. CASE ContRearm
  <2>1. TextOf(Rearmed, {}) /\ bp_again /\ which_bp \in Indices /\ breakpoints[which_bp].active
    BY <1>1, Relift DEF ContRearm, Stopped
  <2>2. /\ breakpoints' = breakpoints /\ mem' = Rearmed /\ which_bp' = which_bp
        /\ \/ bp_again' = FALSE /\ pc' = "cont_w"
           \/ bp_again' = bp_again /\ pc' = "cont_w2"
    BY <1>1 DEF ContRearm, Resume
  <2>. QED BY <2>1, <2>2, FullInv DEF Again, AtBreak, Plain, IInv, Text
<1>2. CASE ContAgain
  <2>1. TextOf(mem, {})
    BY <1>2, Full DEF ContAgain, Stopped
  <2>2. breakpoints' = breakpoints /\ mem' = mem /\ bp_again' = FALSE /\ pc' = "cont_w"
    BY <1>2 DEF ContAgain, Resume
  <2>. QED BY <2>1, <2>2, FullInv DEF Plain
<1>3. CASE ContDone
  <2>1. TextOf(mem, {}) /\ bp_again = FALSE
    BY <1>3, Full DEF ContDone, Stopped, Plain
  <2>2. HandleBreakpoints(rip - 1, mem, FALSE, which_bp)
    BY <1>3, <2>1 DEF ContDone
  <2>. QED BY <2>1, <2>2, HandleInv DEF IInv
<1>. QED BY <1>1, <1>2, <1>3

(* syscall *)
LEMMA SyscallCheckInv ==
    ASSUME FiniteText, IInv, NEW m, TextOf(m, {}), SyscallCheck(m)
    PROVE  IInv'
<1>1. CASE SyscallReport(m)
  <2>1. breakpoints' = breakpoints /\ mem' = m /\ bp_again' = FALSE /\ pc' = "prompt"
    BY <1>1 DEF SyscallReport, Prompt
  <2>. QED BY <2>1, FullInv
<1>2. CASE HandleBreakpoints(rip - 1, m, FALSE, which_bp)
  BY <1>2, HandleInv DEF IInv
<1>. QED BY <1>1, <1>2 DEF SyscallCheck

LEMMA SyscallInv == ASSUME FiniteText, IInv, SyscallRearm \/ SyscallDone PROVE IInv'
<1>1. CASE SyscallRearm
  <2>1. TextOf(Rearmed, {}) /\ bp_again /\ which_bp \in Indices /\ breakpoints[which_bp].active
    BY <1>1, Relift DEF SyscallRearm, Stopped
  <2>2. CASE SyscallCheck(Rearmed)
    BY <2>1, <2>2, SyscallCheckInv
  <2>3. CASE ~SyscallCheck(Rearmed)
    <3>1. /\ breakpoints' = breakpoints /\ mem' = Rearmed /\ bp_again' = bp_again
          /\ which_bp' = which_bp /\ pc' = "syscall_w2"
      BY <1>1, <2>3 DEF SyscallRearm, Resume, debugger
    <3>. QED BY <2>1, <3>1, FullInv DEF Again, AtBreak, IInv, Text
  <2>. QED BY <2>2, <2>3
<1>2. CASE SyscallDone
  BY <1>2, Full, SyscallCheckInv DEF SyscallDone, Stopped
<1>. QED BY <1>1, <1>2

(* The tracee is gone; and the places of a skipped breakpoint, which nobody     *)
(* reaches.                                                                   *)
LEMMA HandlingInv == ASSUME FiniteText, IInv, Handling PROVE IInv'
<1>1. CASE Exited
  <2>1. /\ breakpoints' = breakpoints /\ mem' = mem /\ bp_again' = bp_again /\ which_bp' = which_bp
        /\ pc' \in Gone
    BY <1>1 DEF Exited, debugger, tracee, Gone
  <2>. QED BY <2>1, FrameInv
<1>2. ~HbSi /\ ~HbCont /\ ~HbSyscall
  BY DEF IInv, Text, AtBreak, Again, Plain, Gone, HbSi, HbCont, HbSyscall, Stopped
<1>. QED BY <1>1, <1>2, SiInv, ContInv, SyscallInv DEF Handling

(* break: the saved word has an INT3 only where another breakpoint is.         *)
LEMMA BreakInv ==
    ASSUME FiniteText, IInv, NEW a \in BreakAddrs \ {rip}, SetBreakpoints(a)
    PROVE  IInv'
<1>. DEFINE e == [addr |-> a, original_code |-> WordAt(mem, a), active |-> TRUE,
                  ignore_rip_equal_break |-> rip = a]
            n == Len(breakpoints) + 1
            L == IF bp_again THEN {which_bp} ELSE {}
<1>1. pc = "prompt" /\ pc' = pc /\ bp_again' = bp_again /\ which_bp' = which_bp
  BY DEF SetBreakpoints, Request
<1>2. CASE Matches(a) # {}
  BY <1>1, <1>2, FrameInv DEF SetBreakpoints
<1>3. CASE Matches(a) = {}
  <2>1. breakpoints' = Append(breakpoints, e) /\ mem' = [mem EXCEPT ![a] = "INT3"]
    BY <1>3 DEF SetBreakpoints
  <2>2. breakpoints \in Seq(Entries) /\ TextOf(mem, L) /\ mem \in [Addrs -> Bytes] /\ a \in BreakAddrs
    BY <1>1 DEF IInv, Table, Text, AtBreak, TextOf
  <2>3. /\ WordAt(mem, a) \in [0 .. Word - 1 -> Bytes]
        /\ \A k \in 0 .. Word - 1 : a + k \in Addrs /\ WordAt(mem, a)[k] = mem[a + k]
    BY <2>2, WordTyped
  <2>4. e \in Entries /\ e.ignore_rip_equal_break = FALSE /\ e.active = TRUE /\ e.addr = a
        /\ e.original_code = WordAt(mem, a)
    BY <2>2, <2>3 DEF Entries
  <2>. HIDE DEF e, n
  <2>5. /\ breakpoints' \in Seq(Entries) /\ n \in Indices' /\ n \notin Indices
        /\ Indices' = Indices \cup {n} /\ breakpoints'[n] = e
        /\ \A i \in Indices : breakpoints'[i] = breakpoints[i]
    BY <2>1, <2>2, <2>4 DEF Indices, n
  <2>6. \A i \in Indices : ~(breakpoints[i].active /\ breakpoints[i].addr = a)
    BY <1>3 DEF Matches
  <2>7. a \in Addrs /\ a \in Nat /\ 0 \in 0 .. Word - 1
    BY <2>2, Breaks, TextFits
  <2>8. e.original_code[0] # "INT3"
    <3>1. e.original_code[0] = mem[a]
      BY <2>3, <2>4, <2>7
    <3>2. mem[a] # "INT3"
      BY <1>3, <2>2, <2>7 DEF TextOf
    <3>. QED BY <3>1, <3>2
  <2>9. ASSUME NEW k \in 1 .. Word - 1, e.original_code[k] = "INT3"
        PROVE  \E j \in Indices : breakpoints[j].addr = a + k
    <3>1. k \in 0 .. Word - 1 /\ a + k \in Addrs /\ mem[a + k] = "INT3"
      BY <2>3, <2>4, <2>9, Breaks
    <3>2. PICK j \in Matches(a + k) : j \notin L
      BY <2>2, <3>1 DEF TextOf
    <3>. QED BY <3>2 DEF Matches
  <2>10. Table'
    <3>1. \A i \in Indices' : ~breakpoints'[i].ignore_rip_equal_break
      BY <2>4, <2>5 DEF IInv, Table
    <3>2. \A i, j \in Indices' :
             (breakpoints'[i].active /\ breakpoints'[j].active
                 /\ breakpoints'[i].addr = breakpoints'[j].addr) => i = j
      BY <2>4, <2>5, <2>6 DEF IInv, Table
    <3>3. \A i \in Indices' : breakpoints'[i].original_code[0] # "INT3"
      BY <2>5, <2>8 DEF IInv, Table
    <3>4. \A i \in Indices', k \in 1 .. Word - 1 :
             breakpoints'[i].original_code[k] = "INT3" =>
                 \E j \in Indices' : breakpoints'[j].addr = breakpoints'[i].addr + k
      BY <2>4, <2>5, <2>9 DEF IInv, Table
    <3>. QED BY <2>5, <3>1, <3>2, <3>3, <3>4 DEF Table
  <2>11. bp_again => which_bp \in Indices /\ breakpoints[which_bp].active
    BY DEF IInv, Text
  <2>12. TextOf(mem, L)'
    <3>1. mem' \in [Addrs -> Bytes]
      BY <2>1, <2>2 DEF Bytes
    <3>2. ASSUME NEW b \in Addrs PROVE mem'[b] = "INT3" <=> \E i \in Matches(b)' : i \notin L
      <4>1. CASE b = a
        <5>1. n \in Matches(a)'
          BY <2>4, <2>5 DEF Matches
        <5>2. n \notin L
          BY <2>5, <2>11
        <5>. QED BY <2>1, <2>2, <2>7, <4>1, <5>1, <5>2
      <4>2. CASE b # a
        <5>1. Matches(b)' = Matches(b)
          BY <2>4, <2>5, <4>2 DEF Matches
        <5>2. mem'[b] = mem[b]
          BY <2>1, <2>2, <4>2
        <5>. QED BY <2>2, <5>1, <5>2 DEF TextOf
      <4>. QED BY <4>1, <4>2
    <3>. QED BY <1>1, <3>1, <3>2 DEF TextOf
  <2>. QED BY <1>1, <2>5, <2>10, <2>11, <2>12 DEF IInv, Text, AtBreak, Again, Plain
<1>. QED BY <1>2, <1>3

(* delete: its saved word reaches over no other breakpoint, so writing it back  *)
(* takes this INT3 away and touches no other.                                 *)
LEMMA DeleteInv ==
    ASSUME FiniteText, IInv, NEW i \in Indices, breakpoints[i].active,
           ~(bp_again /\ which_bp = i), ~Overlaps(i), DeleteBreakpoint(i)
    PROVE  IInv'
<1>. DEFINE w == breakpoints[i].addr
            o == breakpoints[i].original_code
            L == IF bp_again THEN {which_bp} ELSE {}
<1>1. /\ pc = "prompt" /\ pc' = pc /\ bp_again' = bp_again /\ which_bp' = which_bp
      /\ mem' = PokeWord(mem, w, o)
      /\ breakpoints' = [breakpoints EXCEPT ![i].active = FALSE]
  BY DEF DeleteBreakpoint, Request
<1>2. /\ breakpoints \in Seq(Entries) /\ TextOf(mem, L) /\ mem \in [Addrs -> Bytes]
      /\ w \in BreakAddrs /\ w \in Nat /\ w \in Addrs /\ o \in [0 .. Word - 1 -> Bytes]
      /\ o[0] # "INT3" /\ Word \in Nat \ {0}
  <2>1. breakpoints \in Seq(Entries) /\ TextOf(mem, L) /\ mem \in [Addrs -> Bytes]
        /\ o[0] # "INT3"
    BY <1>1 DEF IInv, Table, Text, AtBreak, TextOf
  <2>2. breakpoints[i] \in Entries /\ w \in BreakAddrs /\ w \in Addrs
    BY <2>1, EntryTyped
  <2>. QED BY <2>1, <2>2, Breaks DEF Entries
<1>3. /\ breakpoints' \in Seq(Entries) /\ Indices' = Indices
      /\ \A j \in Indices : /\ breakpoints'[j].addr = breakpoints[j].addr
                            /\ breakpoints'[j].original_code = breakpoints[j].original_code
                            /\ breakpoints'[j].ignore_rip_equal_break = breakpoints[j].ignore_rip_equal_break
                            /\ breakpoints'[j].active = IF j = i THEN FALSE ELSE breakpoints[j].active
  <2>1. \A j \in Indices : breakpoints[j] \in Entries
    BY <1>2, EntryTyped
  <2>2. breakpoints' = [breakpoints EXCEPT ![i] = [breakpoints[i] EXCEPT !.active = FALSE]]
    BY <1>1, <1>2 DEF Indices
  <2>3. [breakpoints[i] EXCEPT !.active = FALSE] \in Entries
    BY <2>1 DEF Entries
  <2>4. breakpoints' \in Seq(Entries) /\ Len(breakpoints') = Len(breakpoints)
        /\ \A j \in Indices : breakpoints'[j] =
               IF j = i THEN [breakpoints[i] EXCEPT !.active = FALSE] ELSE breakpoints[j]
    BY <1>2, <2>2, <2>3 DEF Indices
  <2>5. Indices' = Indices
    BY <2>4 DEF Indices
  <2>6. ASSUME NEW j \in Indices
        PROVE  /\ breakpoints'[j].addr = breakpoints[j].addr
               /\ breakpoints'[j].original_code = breakpoints[j].original_code
               /\ breakpoints'[j].ignore_rip_equal_break = breakpoints[j].ignore_rip_equal_break
               /\ breakpoints'[j].active = IF j = i THEN FALSE ELSE breakpoints[j].active
    <3>1. CASE j = i
      <4>1. breakpoints'[j] = [breakpoints[i] EXCEPT !.active = FALSE] /\ breakpoints[i] \in Entries
        BY <2>1, <2>4, <3>1
      <4>. QED BY <3>1, <4>1 DEF Entries
    <3>2. CASE j # i
      BY <2>4, <3>2
    <3>. QED BY <3>1, <3>2
  <2>. QED BY <2>4, <2>5, <2>6
<1>4. \A k \in 1 .. Word - 1 : ~\E j \in Indices : breakpoints[j].addr = w + k
  <2>. SUFFICES ASSUME NEW k \in 1 .. Word - 1, NEW j \in Indices, breakpoints[j].addr = w + k
                PROVE  FALSE
    OBVIOUS
  <2>1. breakpoints[j].addr - w = k
    BY <1>2
  <2>. QED BY <2>1 DEF Overlaps
<1>5. \A k \in 1 .. Word - 1 : o[k] # "INT3"
  BY <1>4 DEF IInv, Table
<1>6. Table'
  <2>1. \A j \in Indices : ~breakpoints'[j].ignore_rip_equal_break
        /\ breakpoints'[j].original_code[0] # "INT3"
    BY <1>3 DEF IInv, Table
  <2>2. \A j, k \in Indices :
           (breakpoints'[j].active /\ breakpoints'[k].active
               /\ breakpoints'[j].addr = breakpoints'[k].addr) => j = k
    BY <1>3 DEF IInv, Table
  <2>3. ASSUME NEW j \in Indices, NEW k \in 1 .. Word - 1,
               breakpoints'[j].original_code[k] = "INT3"
        PROVE  \E l \in Indices : breakpoints'[l].addr = breakpoints'[j].addr + k
    <3>1. breakpoints[j].original_code[k] = "INT3"
      BY <1>3, <2>3
    <3>2. PICK l \in Indices : breakpoints[l].addr = breakpoints[j].addr + k
      BY <3>1 DEF IInv, Table
    <3>. QED BY <1>3, <3>2
  <2>. QED BY <1>3, <2>1, <2>2, <2>3 DEF Table
<1>7. \A b : Matches(b)' = Matches(b) \ {i}
  BY <1>3 DEF Matches
<1>8. TextOf(mem, L)'
  <2>1. mem' = [b \in Addrs |-> IF b - w \in 0 .. Word - 1 THEN o[b - w] ELSE mem[b]]
    BY <1>1, <1>2 DEF PokeWord
  <2>2. mem' \in [Addrs -> Bytes]
    BY <1>2, <2>1
  <2>3. ASSUME NEW b \in Addrs PROVE mem'[b] = "INT3" <=> \E j \in Matches(b)' : j \notin L
    <3>0. b \in Nat /\ b = w + (b - w)
      BY <1>2, TextFits
    <3>1. CASE b = w
      <4>0. b - w = 0 /\ 0 \in 0 .. Word - 1
        BY <1>2, <3>0, <3>1
      <4>1. mem'[b] = o[0]
        BY <2>1, <4>0
      <4>2. Matches(b)' = {}
        BY <1>7, <3>1 DEF IInv, Table, Matches
      <4>. QED BY <1>2, <4>1, <4>2
    <3>2. CASE b # w /\ b - w \in 0 .. Word - 1
      <4>1. b - w \in 1 .. Word - 1
        BY <1>2, <3>0, <3>2
      <4>2. mem'[b] # "INT3"
        BY <1>5, <2>1, <3>2, <4>1
      <4>3. Matches(b)' = {}
        BY <1>4, <1>7, <3>0, <4>1 DEF Matches
      <4>. QED BY <4>2, <4>3
    <3>3. CASE b # w /\ b - w \notin 0 .. Word - 1
      <4>1. mem'[b] = mem[b]
        BY <2>1, <3>3
      <4>2. Matches(b)' = Matches(b)
        BY <1>7, <3>3 DEF Matches
      <4>. QED BY <1>2, <4>1, <4>2 DEF TextOf
    <3>. QED BY <3>1, <3>2, <3>3
  <2>. QED BY <1>1, <2>2, <2>3 DEF TextOf
<1>9. bp_again' => which_bp' \in Indices' /\ breakpoints'[which_bp'].active
  BY <1>1, <1>3 DEF IInv, Text
<1>. QED BY <1>1, <1>6, <1>8, <1>9 DEF IInv, Text, AtBreak, Again, Plain

LEMMA StepInv == ASSUME FiniteText, IInv, [CarefulNext]_vars PROVE IInv'
<1>1. CASE CarefulEditing
  BY <1>1, BreakInv, DeleteInv DEF CarefulEditing
<1>2. CASE UNCHANGED vars
  BY <1>2, FrameInv DEF vars, debugger, control, tracee
<1>. QED BY <1>1, <1>2, TraceeInv, RunningInv, HandlingInv DEF CarefulNext

(* At the prompt the INT3s in the text are those of the active breakpoints but   *)
(* for the one just hit, for every program, word width, number of breakpoints    *)
(* and order of breaks, deletes, steps, continues and system calls of a careful  *)
(* user: none is left behind, and no delete takes another one's away.            *)
THEOREM BreakpointsArmed == ASSUME FiniteText PROVE CarefulSpec => []Armed
<1>1. Init => IInv
  BY InitInv
<1>2. IInv /\ [CarefulNext]_vars => IInv'
  BY StepInv
<1>3. IInv => Armed
  <2>. SUFFICES ASSUME IInv, pc = "prompt", NEW a \in Addrs
                PROVE  mem[a] = "INT3" <=> \E i \in Matches(a) : ~Lifted(i)
    BY DEF Armed
  <2>1. TextOf(mem, IF bp_again THEN {which_bp} ELSE {})
    BY DEF IInv, Text, AtBreak
  <2>2. bp_again \in BOOLEAN
    BY DEF IInv, Text
  <2>. QED BY <2>1, <2>2 DEF TextOf, Lifted
<1>. QED BY <1>1, <1>2, <1>3, PTL DEF CarefulSpec
-----------------------------------------------------------------------------
(* The course of the program. *)

LEMMA FromFacts ==
    ASSUME FiniteText, IInv, bp_again
    PROVE  /\ From \in Starts /\ which_bp \in Matches(From)
           /\ \A i \in Matches(From) : i = which_bp
<1>1. which_bp \in Indices /\ breakpoints[which_bp].active /\ breakpoints \in Seq(Entries)
  BY DEF IInv, Text, Table
<1>2. From \in BreakAddrs
  BY <1>1, EntryTyped DEF From
<1>. QED BY <1>1, <1>2, Breaks DEF From, Matches, IInv, Table

(* Where the program stands when it runs.                                     *)
Running1 == pc \in {"si_w1", "cont_w1"} /\ mode = "step" /\ rip = From /\ ~moved
Running2 == pc = "si_w" /\ mode = "step" /\ Matches(rip) = {} /\ ~moved
Running3 == pc = "cont_w" /\ mode = "cont" /\ (~moved => Matches(rip) = {})

(* A running program is at an instruction whose bytes are its own, but for an   *)
(* INT3 at the first, which it only meets in cont, and after it has moved.      *)
LEMMA Runs ==
    ASSUME FiniteText, PlainText, IInv, Course, mode # "stopped"
    PROVE  /\ Running1 \/ Running2 \/ Running3
           /\ rip \in Starts /\ Intact(rip)
           /\ mem[rip] = "INT3" => Running3 /\ moved /\ Matches(rip) # {}
           /\ mem[rip] # "INT3" => ~Running3 \/ Matches(rip) = {}
<1>1. rip \in Starts /\ (Running1 \/ Running2 \/ Running3)
  BY DEF Course, Running1, Running2, Running3, Gone
<1>2. PICK L : TextOf(mem, L) /\ (Running2 \/ Running3 => L = {}) /\ (Running1 => bp_again /\ L = {which_bp})
  <2>1. CASE Running1
    BY <2>1 DEF IInv, Text, AtBreak, Again, Plain, Running1, Running2, Running3
  <2>2. CASE Running2 \/ Running3
    BY <2>2 DEF IInv, Text, AtBreak, Again, Plain, Running1, Running2, Running3
  <2>. QED BY <1>1, <2>1, <2>2
<1>3. rip \in Addrs /\ \A k \in 1 .. Code[rip].len - 1 : rip + k \in Addrs /\ rip + k \notin Starts
  <2>1. Code[rip].len \in Nat \ {0} /\ rip \in Nat /\ Word \in Nat
    BY <1>1, ProgramAssumption, Breaks
  <2>2. \A k \in 1 .. Code[rip].len - 1 :
           k \in 0 .. Word + Code[rip].len /\ rip + k \in rip + 1 .. rip + Code[rip].len - 1
    BY <2>1
  <2>. QED BY <1>1, <2>2, TextFits DEF PlainText
<1>4. ASSUME NEW a \in Addrs, a \notin Starts PROVE mem[a] # "INT3"
  <2>1. Matches(a) = {}
    BY <1>4, EntryTyped, Breaks DEF Matches, IInv, Table
  <2>. QED BY <1>2, <1>4, <2>1 DEF TextOf
<1>5. Intact(rip)
  BY <1>1, <1>3, <1>4 DEF Intact
<1>6. Running1 => mem[rip] # "INT3"
  <2>1. SUFFICES ASSUME Running1 PROVE mem[rip] # "INT3"
    OBVIOUS
  <2>2. \A i \in Matches(rip) : i = which_bp
    BY <1>2, <2>1, FromFacts DEF Running1
  <2>. QED BY <1>2, <1>3, <2>1, <2>2 DEF TextOf
<1>7. Running2 \/ Running3 => (mem[rip] = "INT3" <=> Matches(rip) # {})
  BY <1>2, <1>3 DEF TextOf
<1>8. moved \in BOOLEAN
  BY DEF Course
<1>9. Running1 => ~Running2 /\ ~Running3
  BY DEF Running1, Running2, Running3
<1>. QED BY <1>1, <1>5, <1>6, <1>7, <1>8, <1>9 DEF Running2, Running3

(* What the actions of the tracee then are: an INT3 that stops it, and one       *)
(* instruction, which ends a single step, or the program.                       *)
Trapped ==
    /\ mem[rip] = "INT3" /\ rip' = rip + 1 /\ mode' = "stopped" /\ status' = "int3"
    /\ moved' = moved
Executed ==
    /\ mem[rip] # "INT3" /\ moved' = TRUE
    /\ \/ /\ Code[rip].kind # "exit" /\ rip' \in Code[rip].next
          /\ \/ mode = "step" /\ mode' = "stopped" /\ status' = "step"
             \/ mode # "step" /\ mode' = mode /\ status' = status
       \/ Code[rip].kind = "exit" /\ rip' = rip /\ mode' = "stopped" /\ status' = "exited"

LEMMA TraceeActs ==
    ASSUME FiniteText, PlainText, IInv, Course, Tracee
    PROVE  /\ mode # "stopped" /\ (Trapped \/ Executed)
           /\ breakpoints' = breakpoints /\ bp_again' = bp_again /\ which_bp' = which_bp
           /\ pc' = pc /\ command' = command /\ in_syscall' = in_syscall /\ said' = said
           /\ mem' = mem
<1>1. mode # "stopped" /\ ~in_syscall /\ mode # "syscall"
  BY DEF Course, Tracee, TraceeTrap, TraceeOp, TraceeSyscall, TraceeLeave, TraceeLost
<1>2. rip \in Starts /\ Intact(rip)
  BY <1>1, Runs
<1>3. ~TraceeLost /\ ~TraceeLeave
  BY <1>1, <1>2 DEF TraceeLost, TraceeLeave
<1>4. CASE TraceeTrap
  BY <1>1, <1>4 DEF TraceeTrap, Trapped, Halt, debugger, control, history
<1>5. CASE TraceeOp
  BY <1>1, <1>5 DEF TraceeOp, Executed, Retired, Halt, debugger, control
<1>6. CASE TraceeSyscall
  BY <1>1, <1>6 DEF TraceeSyscall, Executed, Retired, Halt, debugger, control
<1>. QED BY <1>3, <1>4, <1>5, <1>6 DEF Tracee

LEMMA TraceeCourse ==
    ASSUME FiniteText, PlainText, IInv, Course, Tracee
    PROVE  Course'
<1>1. /\ mode # "stopped" /\ (Trapped \/ Executed)
      /\ breakpoints' = breakpoints /\ bp_again' = bp_again /\ which_bp' = which_bp
      /\ pc' = pc /\ command' = command /\ in_syscall' = in_syscall /\ said' = said
  BY TraceeActs
<1>2. /\ Running1 \/ Running2 \/ Running3
      /\ rip \in Starts
      /\ mem[rip] = "INT3" => Running3 /\ moved /\ Matches(rip) # {}
  BY <1>1, Runs
<1>3. From' = From /\ \A a : Matches(a)' = Matches(a)
  BY <1>1 DEF From, Matches, Indices
<1>4. CASE Trapped
  <2>1. Running3 /\ moved /\ Matches(rip) # {}
    BY <1>2, <1>4 DEF Trapped
  <2>2. rip' - 1 = rip
    BY <1>2, <1>4, Breaks DEF Trapped
  <2>3. /\ pc = "cont_w" /\ moved' = TRUE /\ mode' = "stopped" /\ status' = "int3"
        /\ rip' - 1 \in Starts /\ (Matches(rip - 1) # {})'
    BY <1>2, <1>3, <1>4, <2>1, <2>2 DEF Trapped, Running3, Course
  <2>. QED BY <1>1, <2>3 DEF Course, Gone, Waits
<1>5. CASE Executed
  <2>1. Code[rip].kind # "exit" => rip' \in Starts
    BY <1>2, <1>5, ProgramAssumption DEF Executed
  <2>2. CASE Running1
    BY <1>1, <1>2, <1>3, <1>5, <2>1, <2>2 DEF Course, Running1, Executed, Gone, Waits
  <2>3. CASE Running2
    BY <1>1, <1>2, <1>3, <1>5, <2>1, <2>3 DEF Course, Running2, Executed, Gone, Waits
  <2>4. CASE Running3
    BY <1>1, <1>2, <1>3, <1>5, <2>1, <2>4 DEF Course, Running3, Executed, Gone, Waits
  <2>. QED BY <1>2, <2>2, <2>3, <2>4
<1>. QED BY <1>1, <1>4, <1>5

(* A command begins.                                                          *)
LEMMA RunningCourse ==
    ASSUME FiniteText, PlainText, IInv, Course, Running
    PROVE  /\ Course' /\ pc = "prompt" /\ rip' = rip /\ moved' = FALSE /\ said' = "none"
           /\ breakpoints' = breakpoints /\ status' = status /\ mode' # "stopped"
           /\ pc' \in Waits /\ command' \in {"si", "cont"}
<1>1. CASE Si
  <2>1. /\ pc = "prompt" /\ command' = "si" /\ said' = "none" /\ moved' = FALSE
        /\ breakpoints' = breakpoints /\ bp_again' = bp_again /\ which_bp' = which_bp
        /\ rip' = rip /\ status' = status /\ in_syscall' = in_syscall /\ mode' = "step"
        /\ pc' = IF bp_again THEN "si_w1" ELSE "si_w"
    BY <1>1 DEF Si, Begin, Request, Resume, debugger, regs
  <2>2. From' = From /\ \A a : Matches(a)' = Matches(a)
    BY <2>1 DEF From, Matches, Indices
  <2>3. ~bp_again => Matches(rip) = {}
    BY <2>1 DEF Course, Lifted
  <2>. QED BY <2>1, <2>2, <2>3 DEF Course, Gone, Waits
<1>2. CASE Cont
  <2>1. /\ pc = "prompt" /\ command' = "cont" /\ said' = "none" /\ moved' = FALSE
        /\ breakpoints' = breakpoints /\ bp_again' = bp_again /\ which_bp' = which_bp
        /\ rip' = rip /\ status' = status /\ in_syscall' = in_syscall
        /\ mode' = IF bp_again THEN "step" ELSE "cont"
        /\ pc' = IF bp_again THEN "cont_w1" ELSE "cont_w"
    BY <1>2 DEF Cont, Begin, Request, Resume, debugger, regs
  <2>2. From' = From /\ \A a : Matches(a)' = Matches(a)
    BY <2>1 DEF From, Matches, Indices
  <2>3. ~bp_again => Matches(rip) = {}
    BY <2>1 DEF Course, Lifted
  <2>. QED BY <2>1, <2>2, <2>3 DEF Course, Gone, Waits
<1>3. CASE Syscall
  BY <1>3 DEF Syscall, Begin, Request, PlainText
<1>. QED BY <1>1, <1>2, <1>3 DEF Running

(* A command ends at a: with the breakpoint there lifted and reported, if        *)
(* there is one.                                                               *)
Ended(a) ==
    /\ breakpoints' = breakpoints /\ pc' = "prompt" /\ rip' = a
    /\ mode' = mode /\ status' = status /\ moved' = moved /\ in_syscall' = in_syscall
    /\ \/ Matches(a) = {} /\ bp_again' = FALSE /\ said' = said
       \/ /\ Matches(a) # {} /\ bp_again' = TRUE /\ which_bp' \in Matches(a)
          /\ said' = "hit"

LEMMA HandleEnds ==
    ASSUME FiniteText, Table, NEW m, TextOf(m, {}), NEW a, NEW which,
           HandleBreakpoints(a, m, FALSE, which)
    PROVE  Ended(a)
<1>1. /\ breakpoints' = breakpoints /\ pc' = "prompt"
      /\ rip' = a /\ mode' = mode /\ status' = status /\ moved' = moved
      /\ command' = command /\ in_syscall' = in_syscall
      /\ \/ Matches(a) = {} /\ bp_again' = FALSE /\ mem' = m /\ said' = said
         \/ /\ Matches(a) # {} /\ bp_again' = TRUE /\ which_bp' \in Matches(a)
            /\ mem' = Lift(which_bp', m) /\ said' = "hit"
  BY HandleFacts
<1>. QED BY <1>1 DEF Ended

LEMMA EndedCourse ==
    ASSUME FiniteText, IInv, Course, NEW a \in Starts, Ended(a), mode = "stopped",
           status \in {"step", "int3"}
    PROVE  Course'
<1>1. \A b : Matches(b)' = Matches(b)
  BY DEF Ended, Matches, Indices
<1>2. bp_again' => From' = a /\ \A i \in Matches(a) : i = which_bp'
  BY DEF Ended, From, Matches, IInv, Table
<1>3. \A i \in Matches(a) : bp_again' /\ which_bp' = i
  BY <1>2 DEF Ended
<1>4. \A i \in Matches(rip)' : Lifted(i)'
  BY <1>1, <1>3 DEF Ended, Lifted
<1>. QED BY <1>2, <1>4 DEF Ended, Course, Gone, Waits

(* si ends where the single step has led.                                     *)
LEMMA SiEnds ==
    ASSUME FiniteText, PlainText, IInv, Course, SiRearm \/ SiDone
    PROVE  /\ Ended(rip) /\ rip \in Starts /\ moved /\ status = "step" /\ mode = "stopped"
           /\ pc \in {"si_w1", "si_w"} /\ said = "none" /\ command = "si"
<1>1. PICK m : TextOf(m, {}) /\ SiCheck(m) /\ rip \in Starts /\ moved /\ status = "step"
               /\ pc \in {"si_w1", "si_w"} /\ mode = "stopped"
  <2>1. CASE SiRearm
    <3>1. /\ pc = "si_w1" /\ mode = "stopped" /\ status = "step" /\ moved
          /\ rip \in Code[From].next /\ bp_again
      BY <2>1 DEF SiRearm, Stopped, Course, IInv, Text, Again
    <3>2. rip \in Starts /\ rip # From
      BY <3>1, FromFacts, ProgramAssumption DEF PlainText
    <3>3. SiCheck(Rearmed)
      BY <2>1, <3>2 DEF SiRearm, From
    <3>4. TextOf(Rearmed, {})
      BY <3>1, Relift
    <3>. QED BY <3>1, <3>2, <3>3, <3>4
  <2>2. CASE SiDone
    <3>1. /\ pc = "si_w" /\ mode = "stopped" /\ status = "step" /\ moved /\ rip \in Starts
      BY <2>2 DEF SiDone, Stopped, Course, Gone
    <3>2. TextOf(mem, {}) /\ SiCheck(mem)
      BY <2>2, <3>1, Full DEF SiDone
    <3>. QED BY <3>1, <3>2
  <2>. QED BY <2>1, <2>2
<1>2. Ended(rip)
  <2>1. CASE BreakSet(rip)
    <3>1. HandleBreakpoints(rip, m, FALSE, which_bp)
      BY <1>1, <2>1 DEF SiCheck
    <3>2. Table /\ TextOf(m, {})
      BY <1>1 DEF IInv
    <3>. QED BY <3>1, <3>2, HandleEnds
  <2>2. CASE ~BreakSet(rip)
    <3>1. Matches(rip) = {}
      BY <2>2 DEF BreakSet, Matches
    <3>2. /\ breakpoints' = breakpoints /\ bp_again' = FALSE /\ pc' = "prompt" /\ mode' = mode
          /\ rip' = rip /\ status' = status /\ in_syscall' = in_syscall /\ said' = said
          /\ moved' = moved
      BY <1>1, <2>2 DEF SiCheck, Prompt, regs, history
    <3>. QED BY <3>1, <3>2 DEF Ended
  <2>. QED BY <2>1, <2>2
<1>. QED BY <1>1, <1>2 DEF Course, Waits

(* cont ends at an INT3, with rip moved back.                                  *)
LEMMA ContEnds ==
    ASSUME FiniteText, PlainText, IInv, Course, ContDone
    PROVE  /\ Ended(rip - 1) /\ rip - 1 \in Starts /\ Matches(rip - 1) # {} /\ moved
           /\ status = "int3" /\ mode = "stopped" /\ pc = "cont_w"
           /\ said = "none" /\ command = "cont"
<1>1. /\ pc = "cont_w" /\ mode = "stopped" /\ status = "int3" /\ moved
      /\ rip - 1 \in Starts /\ Matches(rip - 1) # {} /\ said = "none" /\ command = "cont"
  BY DEF ContDone, Stopped, Course, Gone, Waits
<1>2. TextOf(mem, {}) /\ bp_again = FALSE
  BY <1>1, Full DEF Plain
<1>3. HandleBreakpoints(rip - 1, mem, FALSE, which_bp)
  BY <1>2 DEF ContDone
<1>4. Ended(rip - 1)
  BY <1>2, <1>3, HandleEnds DEF IInv
<1>. QED BY <1>1, <1>4

(* cont goes on from the step over a lifted breakpoint.                        *)
LEMMA ContGoes ==
    ASSUME FiniteText, PlainText, IInv, Course, ContRearm
    PROVE  /\ pc = "cont_w1" /\ pc' = "cont_w" /\ mode = "stopped" /\ mode' = "cont"
           /\ status = "step" /\ status' = status /\ moved /\ moved' = moved
           /\ rip \in Starts /\ rip' = rip
           /\ breakpoints' = breakpoints /\ command' = command /\ said' = said
           /\ in_syscall' = in_syscall
<1>1. /\ pc = "cont_w1" /\ mode = "stopped" /\ status = "step" /\ moved
      /\ rip \in Code[From].next /\ bp_again
  BY DEF ContRearm, Stopped, Course, IInv, Text, Again
<1>2. rip \in Starts /\ rip # From
  BY <1>1, FromFacts, ProgramAssumption DEF PlainText
<1>. QED BY <1>1, <1>2 DEF ContRearm, Resume, From, regs, history

LEMMA HandlingCourse ==
    ASSUME FiniteText, PlainText, IInv, Course, Handling
    PROVE  /\ Course'
           /\ \/ SiRearm \/ SiDone \/ ContRearm \/ ContDone \/ Exited
<1>1. SiRearm \/ SiDone \/ ContRearm \/ ContDone \/ Exited
  BY DEF Handling, Course, Gone, HbSi, HbCont, HbSyscall, ContAgain, SyscallRearm, SyscallDone,
         Stopped
<1>2. CASE SiRearm \/ SiDone
  BY <1>2, SiEnds, EndedCourse
<1>3. CASE ContDone
  BY <1>3, ContEnds, EndedCourse
<1>4. CASE ContRearm
  <2>1. /\ pc' = "cont_w" /\ mode' = "cont" /\ rip' \in Starts
        /\ status = "step" /\ status' = status /\ pc = "cont_w1" /\ command' = command /\ said' = said
        /\ in_syscall' = in_syscall /\ moved /\ moved' = moved
    BY <1>4, ContGoes
  <2>2. moved' \in BOOLEAN /\ ~in_syscall' /\ command' = "cont" /\ said' = "none"
    BY <2>1 DEF Course, Waits
  <2>3. moved'
    BY <2>1
  <2>. QED BY <1>4, <2>1, <2>2, <2>3 DEF Course, Gone, Waits
<1>5. CASE Exited
  <2>1. /\ pc' \in Gone /\ mode = "stopped" /\ status = "exited" /\ mode' = mode
        /\ status' = status /\ moved' = moved /\ in_syscall' = in_syscall
    BY <1>5 DEF Exited, tracee, history, Gone
  <2>2. moved' \in BOOLEAN /\ ~in_syscall'
    BY <2>1 DEF Course
  <2>. QED BY <1>5, <2>1, <2>2 DEF Course, Gone, Waits
<1>. QED BY <1>1, <1>2, <1>3, <1>4, <1>5

(* What an edit does to the breakpoints listed: one more, one less, or none.    *)
Listed == {breakpoints[i].addr : i \in PrintBreakpoints}

LEMMA ListedMatches == \A a : a \in Listed <=> Matches(a) # {}
BY DEF Listed, PrintBreakpoints, Matches

LEMMA EditFacts ==
    ASSUME FiniteText, IInv, CarefulEditing
    PROVE  /\ pc = "prompt" /\ pc' = pc /\ bp_again' = bp_again /\ which_bp' = which_bp
           /\ rip' = rip /\ mode' = mode /\ status' = status /\ in_syscall' = in_syscall
           /\ said' = said /\ moved' = moved /\ status # "exited"
           /\ \A i \in Indices : i \in Indices' /\ breakpoints'[i].addr = breakpoints[i].addr
           /\ Matches(rip)' \subseteq Matches(rip)
           /\ \/ Listed' = Listed
              \/ \E a \in Starts : Listed' = Listed \cup {a}
              \/ \E a \in Listed : Listed' = Listed \ {a}
<1>1. CASE \E a \in BreakAddrs \ {rip} : SetBreakpoints(a)
  <2>1. PICK a \in BreakAddrs \ {rip} : SetBreakpoints(a)
    BY <1>1
  <2>2. /\ pc = "prompt" /\ pc' = pc /\ bp_again' = bp_again /\ which_bp' = which_bp
        /\ rip' = rip /\ mode' = mode /\ status' = status /\ in_syscall' = in_syscall
        /\ said' = said /\ moved' = moved /\ status # "exited"
    BY <2>1 DEF SetBreakpoints, Request, regs, history
  <2>3. CASE breakpoints' = breakpoints
    BY <2>2, <2>3 DEF Indices, Matches, Listed, PrintBreakpoints
  <2>4. CASE breakpoints' # breakpoints
    <3>. DEFINE e == [addr |-> a, original_code |-> WordAt(mem, a), active |-> TRUE,
                      ignore_rip_equal_break |-> rip = a]
                n == Len(breakpoints) + 1
    <3>1. breakpoints' = Append(breakpoints, e) /\ e.addr = a /\ e.active
      BY <2>1, <2>4 DEF SetBreakpoints
    <3>2. breakpoints \in Seq(Entries)
      BY DEF IInv, Table
    <3>. HIDE DEF e
    <3>3. /\ Indices' = Indices \cup {n} /\ breakpoints'[n] = e
          /\ \A i \in Indices : breakpoints'[i] = breakpoints[i]
      BY <3>1, <3>2 DEF Indices
    <3>. HIDE DEF n
    <3>4. Listed' = Listed \cup {a}
      <4>1. PrintBreakpoints' = PrintBreakpoints \cup {n}
        BY <3>1, <3>3 DEF PrintBreakpoints
      <4>2. \A i \in PrintBreakpoints : breakpoints'[i] = breakpoints[i]
        BY <3>3 DEF PrintBreakpoints
      <4>3. Listed' = {breakpoints'[i].addr : i \in PrintBreakpoints \cup {n}}
        BY <4>1 DEF Listed
      <4>4. Listed' = {breakpoints'[i].addr : i \in PrintBreakpoints} \cup {a}
        BY <3>1, <3>3, <4>3
      <4>5. {breakpoints'[i].addr : i \in PrintBreakpoints} = Listed
        BY <4>2 DEF Listed
      <4>. QED BY <4>4, <4>5
    <3>5. a \in Starts
      BY Breaks
    <3>6. Matches(rip)' \subseteq Matches(rip)
      BY <2>2, <3>1, <3>3 DEF Matches
    <3>. QED BY <2>2, <3>3, <3>4, <3>5, <3>6
  <2>. QED BY <2>3, <2>4
<1>2. CASE \E i \in Indices : breakpoints[i].active /\ DeleteBreakpoint(i)
  <2>1. PICK i \in Indices : breakpoints[i].active /\ DeleteBreakpoint(i)
    BY <1>2
  <2>2. /\ pc = "prompt" /\ pc' = pc /\ bp_again' = bp_again /\ which_bp' = which_bp
        /\ rip' = rip /\ mode' = mode /\ status' = status /\ in_syscall' = in_syscall
        /\ said' = said /\ moved' = moved /\ status # "exited"
    BY <2>1 DEF DeleteBreakpoint, Request, regs, history
  <2>3. /\ Indices' = Indices
        /\ \A j \in Indices : /\ breakpoints'[j].addr = breakpoints[j].addr
                              /\ breakpoints'[j].active = IF j = i THEN FALSE ELSE breakpoints[j].active
    <3>1. breakpoints' = [breakpoints EXCEPT ![i] = [breakpoints[i] EXCEPT !.active = FALSE]]
          /\ breakpoints \in Seq(Entries) /\ breakpoints[i] \in Entries
      BY <2>1 DEF DeleteBreakpoint, IInv, Table, Indices
    <3>2. [breakpoints[i] EXCEPT !.active = FALSE].addr = breakpoints[i].addr
          /\ [breakpoints[i] EXCEPT !.active = FALSE].active = FALSE
      BY <3>1 DEF Entries
    <3>3. \A j \in Indices : breakpoints'[j] =
             IF j = i THEN [breakpoints[i] EXCEPT !.active = FALSE] ELSE breakpoints[j]
      BY <3>1 DEF Indices
    <3>4. Indices' = Indices
      BY <3>1 DEF Indices
    <3>. QED BY <3>2, <3>3, <3>4
  <2>4. breakpoints[i].addr \in Listed
    BY <2>1 DEF Listed, PrintBreakpoints
  <2>5. Listed' = Listed \ {breakpoints[i].addr}
    <3>1. \A j \in Indices : breakpoints[j].active /\ breakpoints[j].addr = breakpoints[i].addr => j = i
      BY <2>1 DEF IInv, Table
    <3>2. PrintBreakpoints' = PrintBreakpoints \ {i}
      BY <2>3 DEF PrintBreakpoints
    <3>3. \A j \in PrintBreakpoints : j \in Indices /\ breakpoints[j].active
      BY DEF PrintBreakpoints
    <3>4. Listed' = {breakpoints[j].addr : j \in PrintBreakpoints \ {i}}
      <4>1. Listed' = {breakpoints'[j].addr : j \in PrintBreakpoints \ {i}}
        BY <3>2 DEF Listed
      <4>2. \A j \in PrintBreakpoints \ {i} : breakpoints'[j].addr = breakpoints[j].addr
        BY <2>3, <3>3
      <4>. QED BY <4>1, <4>2
    <3>. QED BY <3>1, <3>3, <3>4 DEF Listed
  <2>6. Matches(rip)' \subseteq Matches(rip)
    BY <2>2, <2>3 DEF Matches
  <2>. QED BY <2>2, <2>3, <2>4, <2>5, <2>6
<1>. QED BY <1>1, <1>2 DEF CarefulEditing

LEMMA EditCourse ==
    ASSUME FiniteText, IInv, Course, CarefulEditing
    PROVE  Course'
<1>1. /\ pc = "prompt" /\ pc' = pc /\ bp_again' = bp_again /\ which_bp' = which_bp
      /\ rip' = rip /\ mode' = mode /\ status' = status /\ in_syscall' = in_syscall
      /\ said' = said /\ moved' = moved
      /\ \A i \in Indices : i \in Indices' /\ breakpoints'[i].addr = breakpoints[i].addr
      /\ Matches(rip)' \subseteq Matches(rip)
  BY EditFacts
<1>2. bp_again => From' = From
  BY <1>1 DEF IInv, Text, From
<1>. QED BY <1>1, <1>2 DEF Course, Lifted, Gone, Waits

LEMMA InitCourse == ASSUME Init PROVE Course
<1>1. rip \in Starts
  BY ProgramAssumption DEF Init
<1>2. Matches(rip) = {}
  BY DEF Init, Matches, Indices
<1>. QED BY <1>1, <1>2 DEF Init, Course, Gone, Waits

LEMMA StepCourse ==
    ASSUME FiniteText, PlainText, IInv, Course, [CarefulNext]_vars
    PROVE  Course'
<1>1. CASE UNCHANGED vars
  BY <1>1 DEF vars, debugger, control, tracee, regs, history, Course, From, Matches, Indices,
              Lifted, Gone, Waits
<1>. QED BY <1>1, TraceeCourse, RunningCourse, HandlingCourse, EditCourse DEF CarefulNext
-----------------------------------------------------------------------------
(* The refinement. *)

AtOf == IF pc \in Waits /\ mode = "stopped" /\ status = "int3" THEN rip - 1 ELSE rip
DoingOf == IF status = "exited" THEN "exited" ELSE IF pc = "prompt" THEN "prompt" ELSE command

LEMMA SeenInit == ASSUME Init PROVE Seen!Init
BY DEF Init, Seen!Init, PrintBreakpoints, Indices, Waits

(* The program's own steps: an INT3 is none of them, everything else is the      *)
(* next instruction, and no breakpoint is run over.                            *)
LEMMA TraceeSeen ==
    ASSUME FiniteText, PlainText, IInv, Course, Tracee
    PROVE  [Seen!Next]_(Seen!vars)
<1>1. /\ mode # "stopped" /\ (Trapped \/ Executed)
      /\ breakpoints' = breakpoints /\ pc' = pc /\ command' = command /\ said' = said
  BY TraceeActs
<1>2. /\ Running1 \/ Running2 \/ Running3
      /\ rip \in Starts
      /\ mem[rip] = "INT3" => Running3 /\ moved /\ Matches(rip) # {}
      /\ mem[rip] # "INT3" => ~Running3 \/ Matches(rip) = {}
  BY <1>1, Runs
<1>3. /\ AtOf = rip /\ Listed' = Listed /\ pc \in Waits /\ DoingOf = command
      /\ (Running2 => command = "si") /\ (Running3 => command = "cont")
      /\ (Running1 => command \in {"si", "cont"}) /\ moved \in BOOLEAN
  BY <1>1, <1>2 DEF AtOf, Listed, PrintBreakpoints, Indices, DoingOf, Course, Running1, Running2,
                    Running3, Waits
<1>4. CASE Trapped
  <2>1. AtOf' = rip /\ DoingOf' = command /\ moved' = moved
    <3>1. /\ rip' = rip + 1 /\ mode' = "stopped" /\ status' = "int3" /\ moved' = moved
          /\ pc' \in Waits /\ pc' # "prompt"
      BY <1>1, <1>3, <1>4 DEF Trapped, Waits
    <3>2. AtOf' = rip
      <4>1. AtOf' = rip' - 1
        BY <3>1 DEF AtOf, Waits
      <4>2. rip' - 1 = rip
        BY <1>2, <1>4, Breaks DEF Trapped
      <4>. QED BY <4>1, <4>2
    <3>3. DoingOf' = command
      BY <1>1, <3>1 DEF DoingOf
    <3>. QED BY <1>3, <3>1, <3>2, <3>3
  <2>. QED BY <1>1, <1>3, <2>1 DEF Seen!vars, AtOf, Listed, DoingOf
<1>5. CASE Executed
  <2>1. /\ DoingOf \in {"si", "cont"}
        /\ DoingOf = "si" => ~moved
        /\ DoingOf = "cont" => ~moved \/ AtOf \notin Listed
    BY <1>2, <1>3, <1>5, ListedMatches DEF Executed, Running1, Running2, Running3
  <2>2. \/ Code[AtOf].kind = "exit" /\ DoingOf' = "exited" /\ AtOf' = AtOf
        \/ Code[AtOf].kind # "exit" /\ AtOf' \in Code[AtOf].next /\ DoingOf' = DoingOf
    BY <1>1, <1>2, <1>3, <1>5 DEF Executed, AtOf, DoingOf, Waits, Running1, Running2, Running3, Course
  <2>3. moved' = TRUE /\ Listed' = Listed /\ said' = said
    BY <1>1, <1>3, <1>5 DEF Executed
  <2>4. Seen!Execute
    BY <2>1, <2>2, <2>3 DEF Seen!Execute, AtOf, Listed, DoingOf
  <2>. QED BY <2>4 DEF Seen!Next
<1>. QED BY <1>1, <1>4, <1>5

LEMMA RunningSeen ==
    ASSUME FiniteText, PlainText, IInv, Course, Running
    PROVE  [Seen!Next]_(Seen!vars)
<1>1. /\ pc = "prompt" /\ rip' = rip /\ moved' = FALSE /\ said' = "none"
      /\ breakpoints' = breakpoints /\ status' = status /\ mode' # "stopped"
      /\ pc' \in Waits /\ command' \in {"si", "cont"}
  BY RunningCourse
<1>2. DoingOf = "prompt" /\ DoingOf' \in {"si", "cont"} /\ AtOf' = AtOf /\ Listed' = Listed
  BY <1>1 DEF DoingOf, AtOf, Listed, PrintBreakpoints, Indices, Course, Waits
<1>3. Seen!Resume
  BY <1>1, <1>2 DEF Seen!Resume, AtOf, Listed, DoingOf
<1>. QED BY <1>3 DEF Seen!Next

LEMMA EndedSeen ==
    ASSUME Course, Ended(AtOf), pc \in Waits, said = "none", moved, mode = "stopped",
           status \in {"step", "int3"}, command = "si" \/ (command = "cont" /\ Matches(AtOf) # {})
    PROVE  Seen!Stop
<1>1. DoingOf = command /\ DoingOf' = "prompt" /\ AtOf' = AtOf
  BY DEF Ended, DoingOf, AtOf, Waits
<1>2. Listed' = Listed /\ moved' = moved
  BY DEF Ended, Listed, PrintBreakpoints, Indices
<1>3. said' = IF AtOf \in Listed THEN "hit" ELSE "none"
  BY ListedMatches DEF Ended
<1>4. command = "si" \/ (command = "cont" /\ AtOf \in Listed)
  BY ListedMatches
<1>. QED BY <1>1, <1>2, <1>3, <1>4 DEF Seen!Stop, AtOf, Listed, DoingOf

LEMMA HandlingSeen ==
    ASSUME FiniteText, PlainText, IInv, Course, Handling
    PROVE  [Seen!Next]_(Seen!vars)
<1>1. SiRearm \/ SiDone \/ ContRearm \/ ContDone \/ Exited
  BY HandlingCourse
<1>2. CASE SiRearm \/ SiDone
  <2>1. /\ Ended(rip) /\ moved /\ status = "step" /\ mode = "stopped"
        /\ pc \in {"si_w1", "si_w"} /\ said = "none" /\ command = "si"
    BY <1>2, SiEnds
  <2>2. AtOf = rip /\ pc \in Waits
    BY <2>1 DEF AtOf, Waits
  <2>. QED BY <2>1, <2>2, EndedSeen DEF Seen!Next
<1>3. CASE ContDone
  <2>1. /\ Ended(rip - 1) /\ Matches(rip - 1) # {} /\ moved
        /\ status = "int3" /\ mode = "stopped" /\ pc = "cont_w"
        /\ said = "none" /\ command = "cont"
    BY <1>3, ContEnds
  <2>2. AtOf = rip - 1 /\ pc \in Waits
    BY <2>1 DEF AtOf, Waits
  <2>. QED BY <2>1, <2>2, EndedSeen DEF Seen!Next
<1>4. CASE ContRearm
  <2>1. /\ pc = "cont_w1" /\ pc' = "cont_w" /\ mode' = "cont" /\ status = "step"
        /\ status' = status /\ moved' = moved /\ rip' = rip
        /\ breakpoints' = breakpoints /\ command' = command /\ said' = said
    BY <1>4, ContGoes
  <2>2. AtOf' = AtOf /\ DoingOf' = DoingOf /\ Listed' = Listed
    BY <2>1 DEF AtOf, DoingOf, Listed, PrintBreakpoints, Indices
  <2>. QED BY <2>1, <2>2 DEF Seen!vars, AtOf, DoingOf, Listed
<1>5. CASE Exited
  <2>1. /\ status = "exited" /\ status' = status /\ moved' = moved /\ rip' = rip
        /\ breakpoints' = breakpoints /\ said' = said
    BY <1>5 DEF Exited, tracee, regs, history, debugger
  <2>2. AtOf' = AtOf /\ DoingOf' = DoingOf /\ Listed' = Listed
    BY <2>1 DEF AtOf, DoingOf, Listed, PrintBreakpoints, Indices
  <2>. QED BY <2>1, <2>2 DEF Seen!vars, AtOf, DoingOf, Listed
<1>. QED BY <1>1, <1>2, <1>3, <1>4, <1>5

LEMMA EditSeen ==
    ASSUME FiniteText, IInv, Course, CarefulEditing
    PROVE  [Seen!Next]_(Seen!vars)
<1>1. /\ pc = "prompt" /\ pc' = pc /\ rip' = rip /\ mode' = mode /\ status' = status
      /\ said' = said /\ moved' = moved /\ status # "exited"
      /\ \/ Listed' = Listed
         \/ \E a \in Starts : Listed' = Listed \cup {a}
         \/ \E a \in Listed : Listed' = Listed \ {a}
  BY EditFacts
<1>2. AtOf' = AtOf /\ DoingOf = "prompt" /\ DoingOf' = "prompt"
  BY <1>1 DEF AtOf, DoingOf
<1>3. CASE Listed' = Listed
  BY <1>1, <1>2, <1>3 DEF Seen!vars, AtOf, DoingOf, Listed
<1>4. CASE \E a \in Starts : Listed' = Listed \cup {a}
  <2>1. Seen!Break
    BY <1>1, <1>2, <1>4 DEF Seen!Break, Seen!Starts, Starts, AtOf, DoingOf, Listed
  <2>. QED BY <2>1 DEF Seen!Next
<1>5. CASE \E a \in Listed : Listed' = Listed \ {a}
  <2>1. Seen!Delete
    BY <1>1, <1>2, <1>5 DEF Seen!Delete, AtOf, DoingOf, Listed
  <2>. QED BY <2>1 DEF Seen!Next
<1>. QED BY <1>1, <1>3, <1>4, <1>5

LEMMA StepSeen ==
    ASSUME FiniteText, PlainText, IInv, Course, [CarefulNext]_vars
    PROVE  [Seen!Next]_(Seen!vars)
<1>1. CASE UNCHANGED vars
  <2>1. AtOf' = AtOf /\ DoingOf' = DoingOf /\ Listed' = Listed /\ moved' = moved /\ said' = said
    BY <1>1 DEF vars, debugger, control, tracee, regs, history, AtOf, DoingOf, Listed,
                PrintBreakpoints, Indices
  <2>. QED BY <2>1 DEF Seen!vars, AtOf, DoingOf, Listed
<1>. QED BY <1>1, TraceeSeen, RunningSeen, HandlingSeen, EditSeen DEF CarefulNext

(* sdb's steps and continues are those of a debugger without INT3s, for every     *)
(* program of instructions that do not overlap and do not jump to themselves,    *)
(* every word width and any number of breakpoints: one instruction per si, no    *)
(* breakpoint run over by cont, and every stop on one reported.                  *)
THEOREM StepsLikeDebugger ==
    ASSUME FiniteText, PlainText PROVE CarefulSpec => RunsLikeDebugger
<1>1. Init => IInv /\ Course /\ Seen!Init
  BY InitInv, InitCourse, SeenInit
<1>2. (IInv /\ Course) /\ [CarefulNext]_vars => (IInv /\ Course)'
  BY StepInv, StepCourse
<1>3. (IInv /\ Course) /\ [CarefulNext]_vars => [Seen!Next]_(Seen!vars)
  BY StepSeen
<1>. QED BY <1>1, <1>2, <1>3, PTL DEF CarefulSpec, RunsLikeDebugger, Seen!Spec

(* Under the same conditions the program never runs into the middle of an         *)
(* instruction or past an INT3 of the debugger's.                               *)
THEOREM ProgramNeverDerails ==
    ASSUME FiniteText, PlainText PROVE CarefulSpec => []NeverLost
<1>1. Init => IInv /\ Course
  BY InitInv, InitCourse
<1>2. (IInv /\ Course) /\ [CarefulNext]_vars => (IInv /\ Course)'
  BY StepInv, StepCourse
<1>3. Course => NeverLost
  BY DEF Course, NeverLost
<1>. QED BY <1>1, <1>2, <1>3, PTL DEF CarefulSpec
-----------------------------------------------------------------------------
(* A user who does everything that sdb takes. *)

(* Program and patches are finite, and no instruction lies at the very first    *)
(* addresses (an ELF file's text is mapped far above them): handling a skipped   *)
(* breakpoint takes 2 from rip.                                               *)
FiniteProgram ==
    /\ IsFiniteSet(Starts) /\ IsFiniteSet(Patches)
    /\ \A a \in Starts : a >= 2

Handled == {"hb_si", "hb_cont", "hb_syscall"}

(* An INT3 in the text, or in a saved word, is at an address the user set a    *)
(* breakpoint at: nothing writes one elsewhere.                               *)
AnyTable ==
    /\ breakpoints \in Seq(Entries) /\ Len(breakpoints) <= MaxBreaks
    /\ \A i \in Indices : \A k \in 0 .. Word - 1 :
          breakpoints[i].original_code[k] = "INT3" => breakpoints[i].addr + k \in BreakAddrs
AnyText(m) ==
    /\ m \in [Addrs -> Bytes]
    /\ \A a \in Addrs : m[a] = "INT3" => a \in BreakAddrs

(* The breakpoints that are to be set again or waited for are in the table.     *)
AnyLift(again, which) ==
    again \in BOOLEAN /\ which \in Indices \cup {0} /\ (again => which # 0)
AnyPlace ==
    /\ AnyLift(bp_again, which_bp)
    /\ pc \in Waits \cup {"prompt", "done", "errquit"}
    /\ hb_i \in Indices \cup {0} /\ (pc \in Handled => hb_i # 0)
    /\ pc \in Again => bp_again

Flags ==
    /\ enter \in BOOLEAN /\ pre_orig_rax \in Nat /\ orig_rax \in Nat
    /\ command \in {"none", "si", "cont", "syscall"}
    /\ in_syscall \in BOOLEAN
    /\ said \in {"none", "hit", "enter", "leave"} /\ moved \in BOOLEAN

(* What stops the tracee in the waits whose handling moves rip back: an INT3,   *)
(* behind which it stands then, or a system call.                             *)
Stops ==
    /\ mode \in {"stopped", "step", "cont", "syscall"}
    /\ status \in {"step", "int3", "syscall", "exited", "lost"}
    /\ rip \in Addrs
    /\ pc \in {"cont_w", "hb_cont"} =>
          /\ mode \in {"stopped", "cont"}
          /\ mode = "stopped" => status \in {"int3", "exited", "lost"}
    /\ pc \in {"syscall_w1", "syscall_w2", "syscall_w", "hb_syscall"} =>
          /\ mode \in {"stopped", "syscall"}
          /\ mode = "stopped" => status \in {"int3", "syscall", "exited", "lost"}
    /\ (pc \in Waits /\ mode = "stopped" /\ status = "int3") => rip - 1 \in BreakAddrs
    /\ pc = "hb_syscall" => rip >= 2

AnyInv == AnyTable /\ AnyText(mem) /\ AnyPlace /\ Flags /\ Stops

LEMMA AnyTypes == ASSUME AnyInv PROVE TypeOK
<1>1. BreakpointTypes
  <2>1. \A i \in Indices : breakpoints[i] \in Entries
    BY DEF AnyInv, AnyTable, Indices
  <2>. QED BY <2>1 DEF BreakpointTypes, Entries, AnyInv, AnyTable
<1>. QED BY <1>1 DEF AnyInv, AnyText, AnyPlace, AnyLift, Flags, Stops, TypeOK, Handled

LEMMA AnyAddrs ==
    ASSUME FiniteProgram
    PROVE  /\ Addrs \subseteq Nat /\ BreakAddrs \subseteq Starts /\ Starts \subseteq Addrs
           /\ Word \in Nat \ {0} /\ \A a \in Starts : a >= 2
           /\ \A a \in Starts : \A k \in 0 .. Word + Code[a].len : a + k \in Addrs
           /\ \A b \in Addrs : b >= 2 => b - 2 \in Addrs
<1>. DEFINE Ends == {a + Code[a].len : a \in Starts}
            Tails == {p[1] + p[2] : p \in Patches}
            f == [a \in Starts |-> a + Code[a].len]
            g == [p \in Patches |-> p[1] + p[2]]
<1>1. Ends \in SUBSET Nat /\ Ends # {} /\ Tails \in SUBSET Nat
  <2>1. \A p \in Patches : p[1] \in Nat /\ p[2] \in Nat
    BY SdbAssumption
  <2>. QED BY <2>1, ProgramAssumption
<1>2. IsFiniteSet(Ends \cup Tails)
  <2>1. f \in Surjection(Starts, Ends) /\ g \in Surjection(Patches, Tails)
    BY DEF Surjection
  <2>2. IsFiniteSet(Ends) /\ IsFiniteSet(Tails)
    <3>. HIDE DEF f, g, Ends, Tails
    <3>. QED BY <2>1, FS_Surjection DEF FiniteProgram
  <2>. QED
    <3>. HIDE DEF Ends, Tails
    <3>. QED BY <2>2, FS_Union
<1>3. LastByte = Max(Ends \cup Tails)
  BY DEF LastByte
<1>4. LastByte \in Nat /\ \A e \in Ends : LastByte >= e
  <2>. HIDE DEF Ends, Tails
  <2>1. Ends \cup Tails \in SUBSET Nat /\ Ends \cup Tails # {}
    BY <1>1
  <2>2. Max(Ends \cup Tails) \in Ends \cup Tails /\ \A j \in Ends \cup Tails : Max(Ends \cup Tails) >= j
    BY <1>2, <2>1, Largest
  <2>. QED BY <1>3, <2>1, <2>2
<1>5. \A a \in Starts : LastByte >= a + Code[a].len
  BY <1>4
<1>6. \A a \in Starts : \A k \in 0 .. Word + Code[a].len : a + k \in Addrs
  BY <1>4, <1>5, Breaks, ProgramAssumption DEF Addrs
<1>7. Starts \subseteq Addrs /\ Addrs \subseteq Nat
  BY <1>4, <1>5, Breaks, ProgramAssumption DEF Addrs
<1>8. \A b \in Addrs : b >= 2 => b - 2 \in Addrs
  BY <1>4, Breaks DEF Addrs
<1>. QED BY <1>6, <1>7, <1>8, Breaks DEF FiniteProgram

LEMMA AnyEntry ==
    ASSUME FiniteProgram, breakpoints \in Seq(Entries), NEW i \in Indices
    PROVE  /\ breakpoints[i] \in Entries
           /\ breakpoints[i].addr \in BreakAddrs /\ breakpoints[i].addr \in Addrs
           /\ breakpoints[i].original_code \in [0 .. Word - 1 -> Bytes]
           /\ breakpoints[i].original_code[0] \in Bytes
<1>1. breakpoints[i] \in Entries
  BY DEF Indices
<1>2. breakpoints[i].addr \in BreakAddrs /\ breakpoints[i].original_code \in [0 .. Word - 1 -> Bytes]
  BY <1>1 DEF Entries
<1>3. 0 \in 0 .. Word - 1
  BY AnyAddrs
<1>. QED BY <1>1, <1>2, <1>3, AnyAddrs

(* A word taken at a breakpoint's address only holds INT3s the text holds.      *)
LEMMA AnyWord ==
    ASSUME FiniteProgram, NEW m, AnyText(m), NEW a \in BreakAddrs
    PROVE  /\ WordAt(m, a) \in [0 .. Word - 1 -> Bytes]
           /\ \A k \in 0 .. Word - 1 : WordAt(m, a)[k] = "INT3" => a + k \in BreakAddrs
<1>1. \A k \in 0 .. Word - 1 : a + k \in Addrs
  <2>1. a \in Starts /\ Word \in Nat /\ Code[a].len \in Nat
    BY AnyAddrs, ProgramAssumption
  <2>2. \A k \in 0 .. Word - 1 : k \in 0 .. Word + Code[a].len
    BY <2>1
  <2>. QED BY <2>1, <2>2, AnyAddrs
<1>. QED BY <1>1 DEF WordAt, AnyText

LEMMA AnySet ==
    ASSUME FiniteProgram, NEW m, AnyText(m), NEW a \in BreakAddrs
    PROVE  AnyText([m EXCEPT ![a] = "INT3"])
BY AnyAddrs DEF AnyText, Bytes

LEMMA AnyMatch ==
    ASSUME FiniteProgram, AnyTable, NEW a, Matches(a) # {}
    PROVE  Min(Matches(a)) \in Indices /\ a \in BreakAddrs /\ breakpoints[Min(Matches(a))].addr = a
<1>1. Min(Matches(a)) \in Matches(a) /\ Min(Matches(a)) \in Indices
  BY MatchFacts DEF AnyTable
<1>. QED BY <1>1, AnyEntry DEF Matches, AnyTable

LEMMA AnyLifted ==
    ASSUME FiniteProgram, AnyTable, NEW m, AnyText(m), NEW i \in Indices
    PROVE  AnyText(Lift(i, m))
<1>1. /\ breakpoints[i].addr \in BreakAddrs /\ breakpoints[i].addr \in Addrs
      /\ breakpoints[i].original_code[0] \in Bytes
  BY AnyEntry DEF AnyTable
<1>2. Lift(i, m) \in [Addrs -> Bytes]
  BY <1>1 DEF Lift, AnyText
<1>3. ASSUME NEW a \in Addrs, Lift(i, m)[a] = "INT3" PROVE a \in BreakAddrs
  BY <1>1, <1>3 DEF Lift, AnyText
<1>. QED BY <1>2, <1>3 DEF AnyText
-----------------------------------------------------------------------------
(* handle_breakpoints, called with whatever is to be set again. *)

(* The table, also when a breakpoint is no longer active or need not be skipped. *)
LEMMA AnyTableKept ==
    ASSUME AnyTable, breakpoints' = breakpoints
    PROVE  AnyTable' /\ Indices' = Indices
BY DEF AnyTable, Indices

LEMMA AnyChanged ==
    ASSUME AnyTable, NEW i \in Indices, NEW e \in Entries,
           e.addr = breakpoints[i].addr, e.original_code = breakpoints[i].original_code,
           breakpoints' = [breakpoints EXCEPT ![i] = e]
    PROVE  AnyTable' /\ Indices' = Indices
<1>1. breakpoints \in Seq(Entries)
  BY DEF AnyTable
<1>2. breakpoints' \in Seq(Entries) /\ Len(breakpoints') = Len(breakpoints)
      /\ \A j \in Indices : breakpoints'[j] = IF j = i THEN e ELSE breakpoints[j]
  BY <1>1 DEF Indices
<1>3. Indices' = Indices
  BY <1>2 DEF Indices
<1>. QED BY <1>2, <1>3 DEF AnyTable

LEMMA AnySkipped ==
    ASSUME AnyTable, NEW i \in Indices,
           \/ breakpoints' = [breakpoints EXCEPT ![i].ignore_rip_equal_break = FALSE]
           \/ breakpoints' = [breakpoints EXCEPT ![i].active = FALSE]
    PROVE  AnyTable' /\ Indices' = Indices
<1>1. breakpoints[i] \in Entries
  BY DEF AnyTable, Indices
<1>2. CASE breakpoints' = [breakpoints EXCEPT ![i].ignore_rip_equal_break = FALSE]
  <2>. DEFINE e == [breakpoints[i] EXCEPT !.ignore_rip_equal_break = FALSE]
  <2>1. e \in Entries /\ e.addr = breakpoints[i].addr
        /\ e.original_code = breakpoints[i].original_code
    BY <1>1 DEF Entries
  <2>2. breakpoints' = [breakpoints EXCEPT ![i] = e]
    BY <1>2 DEF AnyTable, Indices
  <2>. HIDE DEF e
  <2>. QED BY <2>1, <2>2, AnyChanged
<1>3. CASE breakpoints' = [breakpoints EXCEPT ![i].active = FALSE]
  <2>. DEFINE e == [breakpoints[i] EXCEPT !.active = FALSE]
  <2>1. e \in Entries /\ e.addr = breakpoints[i].addr
        /\ e.original_code = breakpoints[i].original_code
    BY <1>1 DEF Entries
  <2>2. breakpoints' = [breakpoints EXCEPT ![i] = e]
    BY <1>3 DEF AnyTable, Indices
  <2>. HIDE DEF e
  <2>. QED BY <2>1, <2>2, AnyChanged
<1>. QED BY <1>2, <1>3

LEMMA AnyHandled ==
    ASSUME FiniteProgram, AnyInv, mode = "stopped",
           NEW m, AnyText(m), NEW a \in Addrs, NEW again, NEW which, AnyLift(again, which),
           HandleBreakpoints(a, m, again, which)
    PROVE  AnyInv'
<1>1. /\ rip' = a /\ enter' = enter /\ pre_orig_rax' = pre_orig_rax /\ command' = command
      /\ orig_rax' = orig_rax /\ status' = status /\ in_syscall' = in_syscall /\ moved' = moved
  BY DEF HandleBreakpoints
<1>2. CASE Matches(a) = {}
  <2>1. /\ mem' = m /\ bp_again' = again /\ which_bp' = which /\ pc' = "prompt"
        /\ mode' = mode /\ hb_i' = hb_i /\ breakpoints' = breakpoints /\ said' = said
    BY <1>2 DEF HandleBreakpoints, Prompt
  <2>2. AnyTable' /\ Indices' = Indices
    BY <2>1, AnyTableKept DEF AnyInv
  <2>3. AnyPlace'
    BY <2>1, <2>2 DEF AnyInv, AnyPlace, AnyLift, Again, Handled
  <2>4. Flags'
    BY <1>1, <2>1 DEF AnyInv, Flags
  <2>5. Stops'
    BY <1>1, <2>1 DEF AnyInv, Stops, Waits
  <2>6. AnyText(mem)'
    BY <2>1 DEF AnyText
  <2>. QED BY <2>2, <2>3, <2>4, <2>5, <2>6 DEF AnyInv
<1>3. CASE Matches(a) # {}
  <2>. DEFINE i == Min(Matches(a))
  <2>1. i \in Indices /\ a \in BreakAddrs
    BY <1>3, AnyMatch DEF AnyInv
  <2>2. i \in Nat /\ i # 0
    BY <2>1 DEF Indices
  <2>3. /\ mem' = Lift(i, m)
        /\ \/ Skip(i) /\ bp_again' = again /\ which_bp' = which
           \/ Hit(i)
    BY <1>3 DEF HandleBreakpoints
  <2>4. AnyText(mem)'
    <3>1. AnyText(Lift(i, m))
      BY <2>1, AnyLifted DEF AnyInv
    <3>. QED BY <2>3, <3>1 DEF AnyText
  <2>. HIDE DEF i
  <2>5. CASE Skip(i) /\ bp_again' = again /\ which_bp' = which
    <3>1. AnyTable' /\ Indices' = Indices
      BY <2>1, <2>5, AnySkipped DEF Skip, AnyInv
    <3>2. /\ hb_i' = i /\ said' = said
          /\ \/ mode' = "step" /\ pc' = "hb_si"
             \/ mode' = "cont" /\ pc' = "hb_cont"
             \/ mode' = "syscall" /\ pc' = "hb_syscall"
      BY <2>5 DEF Skip, Resume
    <3>3. AnyPlace'
      BY <2>1, <2>2, <2>5, <3>1, <3>2 DEF AnyPlace, AnyLift, Again, Handled, Waits
    <3>4. Flags'
      BY <1>1, <3>2 DEF AnyInv, Flags
    <3>5. a >= 2
      BY <2>1, AnyAddrs
    <3>6. Stops'
      BY <1>1, <3>2, <3>5 DEF AnyInv, Stops, Waits
    <3>. QED BY <2>4, <3>1, <3>3, <3>4, <3>6 DEF AnyInv
  <2>6. CASE Hit(i)
    <3>1. /\ said' = "hit" /\ bp_again' = TRUE /\ which_bp' = i /\ pc' = "prompt"
          /\ mode' = mode /\ hb_i' = hb_i /\ breakpoints' = breakpoints
      BY <2>6 DEF Hit, Prompt
    <3>2. AnyTable' /\ Indices' = Indices
      BY <3>1, AnyTableKept DEF AnyInv
    <3>3. AnyPlace'
      BY <2>1, <2>2, <3>1, <3>2 DEF AnyInv, AnyPlace, AnyLift, Again, Handled
    <3>4. Flags'
      BY <1>1, <3>1 DEF AnyInv, Flags
    <3>5. Stops'
      BY <1>1, <3>1 DEF AnyInv, Stops, Waits
    <3>. QED BY <2>4, <3>2, <3>3, <3>4, <3>5 DEF AnyInv
  <2>. QED BY <2>3, <2>5, <2>6
<1>. QED BY <1>2, <1>3

(* A step back to the prompt that leaves the table alone.                       *)
LEMMA AnyPrompt ==
    ASSUME AnyInv, AnyText(mem'), AnyLift(bp_again', which_bp'), rip' \in Addrs,
           breakpoints' = breakpoints, pc' = "prompt", mode' = mode, hb_i' = hb_i,
           status' = status, Flags'
    PROVE  AnyInv'
<1>1. AnyTable' /\ Indices' = Indices
  BY AnyTableKept DEF AnyInv
<1>2. AnyPlace'
  BY <1>1 DEF AnyInv, AnyPlace, AnyLift, Again, Handled
<1>3. Stops'
  BY DEF AnyInv, Stops, Waits
<1>4. AnyText(mem)'
  BY DEF AnyText
<1>. QED BY <1>1, <1>2, <1>3, <1>4 DEF AnyInv

LEMMA AnyAfter ==
    ASSUME FiniteProgram, AnyInv, mode = "stopped",
           NEW m, AnyText(m), NEW a \in Addrs, NEW again, NEW which, AnyLift(again, which),
           AfterIgnored(a, m, again, which)
    PROVE  AnyInv'
<1>1. CASE HandleBreakpoints(a, m, again, which)
  BY <1>1, AnyHandled
<1>2. CASE ~HandleBreakpoints(a, m, again, which)
  <2>1. /\ rip' = a /\ mem' = m /\ bp_again' = again /\ which_bp' = which
        /\ pc' = "prompt" /\ mode' = mode /\ hb_i' = hb_i /\ breakpoints' = breakpoints
        /\ enter' = enter /\ pre_orig_rax' = pre_orig_rax /\ command' = command
        /\ orig_rax' = orig_rax /\ status' = status /\ in_syscall' = in_syscall
        /\ said' = said /\ moved' = moved
    BY <1>2 DEF AfterIgnored, Prompt, history
  <2>2. Flags'
    BY <2>1 DEF AnyInv, Flags
  <2>. QED BY <2>1, <2>2, AnyPrompt
<1>. QED BY <1>1, <1>2
-----------------------------------------------------------------------------
(* One lemma per group of actions. *)

LEMMA AnyInit == ASSUME FiniteProgram, Init PROVE AnyInv
<1>1. breakpoints = <<>> /\ Indices = {}
  BY DEF Init, Indices
<1>2. AnyTable
  BY <1>1, SdbAssumption DEF AnyTable
<1>3. AnyText(mem)
  BY DEF Init, AnyText, Bytes
<1>4. AnyPlace /\ Flags
  BY DEF Init, AnyPlace, AnyLift, Flags, Handled, Again
<1>5. Stops
  BY AnyAddrs, ProgramAssumption DEF Init, Stops, Waits
<1>. QED BY <1>2, <1>3, <1>4, <1>5 DEF AnyInv

(* Where the tracee can be when it has run one instruction.                    *)
LEMMA AnyCode ==
    ASSUME FiniteProgram, AnyInv
    PROVE  /\ \A a \in Starts : /\ Code[a].next \subseteq Addrs
                                /\ a + Code[a].len \in Addrs /\ a + Code[a].len >= 2
                                /\ \A b \in Code[a].next : b >= 2
                                /\ Code[a].nr \in Nat
           /\ mem[rip] = "INT3" => rip \in BreakAddrs /\ rip + 1 \in Addrs /\ rip + 1 >= 2
<1>1. \A a \in Starts : /\ Code[a].next \subseteq Starts /\ Code[a].nr \in Nat
                        /\ Code[a].len \in Nat \ {0}
  BY ProgramAssumption
<1>2. ASSUME NEW a \in Starts
      PROVE  a + Code[a].len \in Addrs /\ a + Code[a].len >= 2 /\ a + 1 \in Addrs /\ a + 1 >= 2
  <2>1. Code[a].len \in 0 .. Word + Code[a].len /\ 1 \in 0 .. Word + Code[a].len /\ a \in Nat /\ a >= 2
    BY <1>1, AnyAddrs
  <2>. QED BY <2>1, AnyAddrs
<1>3. \A a \in Starts : Code[a].next \subseteq Addrs /\ \A b \in Code[a].next : b >= 2
  BY <1>1, AnyAddrs
<1>4. mem[rip] = "INT3" => rip \in BreakAddrs
  BY DEF AnyInv, AnyText, Stops
<1>. QED BY <1>1, <1>2, <1>3, <1>4, AnyAddrs

LEMMA AnyTracee == ASSUME FiniteProgram, AnyInv, Tracee PROVE AnyInv'
<1>1. /\ breakpoints' = breakpoints /\ bp_again' = bp_again /\ which_bp' = which_bp
      /\ enter' = enter /\ pre_orig_rax' = pre_orig_rax
      /\ pc' = pc /\ command' = command /\ hb_i' = hb_i /\ mem' = mem /\ said' = said
      /\ mode # "stopped"
  BY DEF Tracee, TraceeTrap, TraceeOp, TraceeSyscall, TraceeLeave, TraceeLost, debugger, control,
         history
<1>2. AnyTable' /\ Indices' = Indices
  BY <1>1, AnyTableKept DEF AnyInv
<1>3. AnyText(mem)' /\ AnyPlace'
  BY <1>1, <1>2 DEF AnyInv, AnyText, AnyPlace, AnyLift
<1>4. Flags' /\ Stops'
  <2>1. /\ mode \in {"step", "cont", "syscall"}
        /\ status \in {"step", "int3", "syscall", "exited", "lost"}
        /\ pc \in {"cont_w", "hb_cont"} => mode = "cont"
        /\ pc \in {"syscall_w1", "syscall_w2", "syscall_w", "hb_syscall"} => mode = "syscall"
        /\ rip \in Addrs /\ rip \in Nat /\ (pc = "hb_syscall" => rip >= 2)
    BY <1>1, AnyAddrs DEF AnyInv, Stops
  <2>2. CASE TraceeTrap
    <3>1. /\ rip' = rip + 1 /\ mode' = "stopped" /\ status' = "int3" /\ mem[rip] = "INT3"
          /\ orig_rax' = orig_rax /\ in_syscall' = in_syscall /\ moved' = moved
      BY <2>2 DEF TraceeTrap, Halt, history
    <3>2. rip \in BreakAddrs /\ rip + 1 \in Addrs /\ rip + 1 >= 2 /\ rip' - 1 = rip
      BY <2>1, <3>1, AnyCode
    <3>. QED BY <1>1, <2>1, <3>1, <3>2 DEF AnyInv, Flags, Stops
  <2>3. CASE TraceeOp
    <3>1. /\ rip \in Starts /\ rip' \in Code[rip].next /\ orig_rax' = orig_rax
          /\ in_syscall' = in_syscall /\ moved' = TRUE
          /\ IF mode = "step" THEN mode' = "stopped" /\ status' = "step"
             ELSE mode' = mode /\ status' = status
      BY <2>3 DEF TraceeOp, Retired, Halt, Intact
    <3>2. rip' \in Addrs /\ rip' >= 2
      BY <3>1, AnyCode
    <3>. QED BY <1>1, <2>1, <3>1, <3>2 DEF AnyInv, Flags, Stops
  <2>4. CASE TraceeSyscall
    <3>1. rip \in Starts /\ orig_rax' = Code[rip].nr
      BY <2>4 DEF TraceeSyscall, Intact
    <3>2. CASE mode = "syscall"
      <4>1. /\ mode' = "stopped" /\ status' = "syscall" /\ in_syscall' = TRUE
            /\ rip' = rip + Code[rip].len /\ moved' = moved
        BY <2>4, <3>2 DEF TraceeSyscall, Halt
      <4>2. rip' \in Addrs /\ rip' >= 2 /\ orig_rax' \in Nat
        BY <3>1, <4>1, AnyCode
      <4>. QED BY <1>1, <2>1, <3>2, <4>1, <4>2 DEF AnyInv, Flags, Stops
    <3>3. CASE mode # "syscall" /\ Code[rip].kind = "syscall"
      <4>1. /\ rip' \in Code[rip].next /\ moved' = TRUE /\ in_syscall' = in_syscall
            /\ IF mode = "step" THEN mode' = "stopped" /\ status' = "step"
               ELSE mode' = mode /\ status' = status
        BY <2>4, <3>3 DEF TraceeSyscall, Retired, Halt
      <4>2. rip' \in Addrs /\ rip' >= 2 /\ orig_rax' \in Nat
        BY <3>1, <4>1, AnyCode
      <4>. QED BY <1>1, <2>1, <3>3, <4>1, <4>2 DEF AnyInv, Flags, Stops
    <3>4. CASE mode # "syscall" /\ Code[rip].kind = "exit"
      <4>1. /\ mode' = "stopped" /\ status' = "exited" /\ moved' = TRUE /\ rip' = rip
            /\ in_syscall' = in_syscall
        BY <2>4, <3>4 DEF TraceeSyscall, Halt
      <4>2. orig_rax' \in Nat
        BY <3>1, AnyCode
      <4>. QED BY <1>1, <2>1, <3>4, <4>1, <4>2 DEF AnyInv, Flags, Stops
    <3>. QED BY <2>4, <3>2, <3>3, <3>4 DEF TraceeSyscall
  <2>5. CASE TraceeLeave
    <3>1. /\ rip' = rip /\ orig_rax' = orig_rax /\ in_syscall' = FALSE
          /\ moved' = TRUE
          /\ \/ mode' = "stopped" /\ status' = "exited"
             \/ mode = "syscall" /\ mode' = "stopped" /\ status' = "syscall"
             \/ mode = "step" /\ mode' = "stopped" /\ status' = "step"
             \/ mode # "syscall" /\ mode' = mode /\ status' = status
      BY <2>5 DEF TraceeLeave, Retired, Halt, regs
    <3>. QED BY <1>1, <2>1, <3>1 DEF AnyInv, Flags, Stops
  <2>6. CASE TraceeLost
    <3>1. /\ rip' = rip /\ orig_rax' = orig_rax /\ in_syscall' = in_syscall /\ moved' = moved
          /\ mode' = "stopped" /\ status' = "lost"
      BY <2>6 DEF TraceeLost, Halt, regs, history
    <3>. QED BY <1>1, <2>1, <3>1 DEF AnyInv, Flags, Stops
  <2>. QED BY <2>2, <2>3, <2>4, <2>5, <2>6 DEF Tracee
<1>. QED BY <1>2, <1>3, <1>4 DEF AnyInv

(* A command begins, or its next step, from a stop: the tracee is resumed.       *)
LEMMA AnyResumed ==
    ASSUME AnyInv, AnyText(mem'), breakpoints' = breakpoints, which_bp' = which_bp,
           bp_again' \in BOOLEAN, hb_i' = hb_i, rip' = rip, status' = status, Flags',
           bp_again' => bp_again, pc' \in Again => bp_again',
           \/ mode' = "step" /\ pc' \in {"si_w1", "si_w2", "si_w", "cont_w1", "cont_w2"}
           \/ mode' = "cont" /\ pc' = "cont_w"
           \/ mode' = "syscall" /\ pc' \in {"syscall_w1", "syscall_w2", "syscall_w"}
    PROVE  AnyInv'
<1>1. AnyTable' /\ Indices' = Indices
  BY AnyTableKept DEF AnyInv
<1>2. AnyPlace'
  BY <1>1 DEF AnyInv, AnyPlace, AnyLift, Handled, Waits
<1>3. Stops'
  BY DEF AnyInv, Stops, Waits
<1>4. AnyText(mem)'
  BY DEF AnyText
<1>. QED BY <1>1, <1>2, <1>3, <1>4 DEF AnyInv

LEMMA AnyRunning == ASSUME AnyInv, Running PROVE AnyInv'
<1>1. /\ breakpoints' = breakpoints /\ bp_again' = bp_again /\ which_bp' = which_bp
      /\ enter' = enter /\ pre_orig_rax' = pre_orig_rax /\ hb_i' = hb_i /\ rip' = rip
      /\ orig_rax' = orig_rax /\ mem' = mem /\ status' = status /\ in_syscall' = in_syscall
      /\ said' = "none" /\ moved' = FALSE
      /\ \/ command' = "si" /\ mode' = "step" /\ pc' = IF bp_again THEN "si_w1" ELSE "si_w"
         \/ command' = "cont" /\ bp_again /\ mode' = "step" /\ pc' = "cont_w1"
         \/ command' = "cont" /\ ~bp_again /\ mode' = "cont" /\ pc' = "cont_w"
         \/ /\ command' = "syscall" /\ mode' = "syscall"
            /\ pc' = IF bp_again THEN "syscall_w1" ELSE "syscall_w"
  BY DEF Running, Si, Cont, Syscall, Begin, Resume, debugger, regs
<1>2. Flags'
  BY <1>1 DEF AnyInv, Flags
<1>3. AnyText(mem') /\ bp_again' \in BOOLEAN
  BY <1>1 DEF AnyInv, AnyPlace, AnyLift
<1>4. pc' \in Again => bp_again'
  BY <1>1 DEF Again
<1>. QED BY <1>1, <1>2, <1>3, <1>4, AnyResumed
(* The breakpoint to be set again is in the table.                             *)
LEMMA AnyRearmed ==
    ASSUME FiniteProgram, AnyInv, pc \in Again
    PROVE  bp_again /\ which_bp \in Indices /\ AnyText(Rearmed)
<1>1. bp_again /\ which_bp \in Indices
  BY DEF AnyInv, AnyPlace, AnyLift
<1>2. breakpoints[which_bp].addr \in BreakAddrs
  BY <1>1, AnyEntry DEF AnyInv, AnyTable
<1>. QED BY <1>1, <1>2, AnySet DEF AnyInv, Rearmed

(* Where rip is moved back to: behind an INT3, its address.                    *)
LEMMA AnyBack ==
    ASSUME FiniteProgram, AnyInv, pc \in Waits, mode = "stopped", status = "int3"
    PROVE  rip - 1 \in Addrs
BY AnyAddrs DEF AnyInv, Stops

LEMMA AnySiCheck ==
    ASSUME FiniteProgram, AnyInv, pc \in Waits, mode = "stopped",
           NEW m, AnyText(m), SiCheck(m)
    PROVE  AnyInv'
<1>. DEFINE a == IF BreakSet(rip) THEN rip ELSE rip - 1
<1>0. AnyLift(FALSE, which_bp)
  BY DEF AnyInv, AnyPlace, AnyLift
<1>1. CASE status # "int3" /\ ~BreakSet(rip)
  <2>1. /\ mem' = m /\ bp_again' = FALSE /\ pc' = "prompt" /\ mode' = mode /\ hb_i' = hb_i
        /\ breakpoints' = breakpoints /\ which_bp' = which_bp /\ enter' = enter
        /\ pre_orig_rax' = pre_orig_rax /\ command' = command /\ rip' = rip
        /\ orig_rax' = orig_rax /\ status' = status /\ in_syscall' = in_syscall
        /\ said' = said /\ moved' = moved
    BY <1>1 DEF SiCheck, Prompt, regs, history
  <2>2. Flags' /\ rip' \in Addrs
    BY <2>1 DEF AnyInv, Flags, Stops
  <2>. QED BY <1>0, <2>1, <2>2, AnyPrompt
<1>2. CASE status = "int3" \/ BreakSet(rip)
  <2>1. HandleBreakpoints(a, m, FALSE, which_bp)
    BY <1>2 DEF SiCheck
  <2>2. a \in Addrs
    BY <1>2, AnyBack DEF AnyInv, Stops
  <2>. HIDE DEF a
  <2>. QED BY <1>0, <2>1, <2>2, AnyHandled
<1>. QED BY <1>1, <1>2

LEMMA AnySi == ASSUME FiniteProgram, AnyInv, SiRearm \/ SiDone PROVE AnyInv'
<1>1. AnyText(mem) /\ mode = "stopped" /\ pc \in Waits
  BY DEF AnyInv, SiRearm, SiDone, Stopped, Waits
<1>2. CASE SiRearm
  <2>1. bp_again /\ AnyText(Rearmed)
    BY <1>2, AnyRearmed DEF SiRearm, Stopped, Again
  <2>2. CASE SiCheck(Rearmed)
    BY <1>1, <2>1, <2>2, AnySiCheck
  <2>3. CASE ~SiCheck(Rearmed)
    <3>1. /\ mem' = Rearmed /\ mode' = "step" /\ pc' = "si_w2"
          /\ breakpoints' = breakpoints /\ bp_again' = bp_again /\ which_bp' = which_bp
          /\ enter' = enter /\ pre_orig_rax' = pre_orig_rax /\ command' = command
          /\ hb_i' = hb_i /\ rip' = rip /\ orig_rax' = orig_rax /\ status' = status
          /\ in_syscall' = in_syscall /\ said' = said /\ moved' = moved
      BY <1>2, <2>3 DEF SiRearm, Resume, debugger, regs, history
    <3>2. Flags' /\ bp_again' \in BOOLEAN
      BY <3>1 DEF AnyInv, Flags, AnyPlace, AnyLift
    <3>. QED BY <2>1, <3>1, <3>2, AnyResumed
  <2>. QED BY <2>2, <2>3
<1>3. CASE SiDone
  BY <1>1, <1>3, AnySiCheck DEF SiDone
<1>. QED BY <1>2, <1>3

LEMMA AnyCont == ASSUME FiniteProgram, AnyInv, ContRearm \/ ContAgain \/ ContDone PROVE AnyInv'
<1>1. CASE ContRearm
  <2>1. bp_again /\ AnyText(Rearmed)
    BY <1>1, AnyRearmed DEF ContRearm, Stopped, Again
  <2>2. /\ mem' = Rearmed /\ breakpoints' = breakpoints /\ which_bp' = which_bp
        /\ enter' = enter /\ pre_orig_rax' = pre_orig_rax /\ command' = command
        /\ hb_i' = hb_i /\ rip' = rip /\ orig_rax' = orig_rax /\ status' = status
        /\ in_syscall' = in_syscall /\ said' = said /\ moved' = moved
        /\ \/ bp_again' = FALSE /\ mode' = "cont" /\ pc' = "cont_w"
           \/ bp_again' = bp_again /\ mode' = "step" /\ pc' = "cont_w2"
    BY <1>1 DEF ContRearm, Resume, regs, history
  <2>3. Flags' /\ bp_again' \in BOOLEAN
    BY <2>2 DEF AnyInv, Flags, AnyPlace, AnyLift
  <2>. QED BY <2>1, <2>2, <2>3, AnyResumed DEF Again
<1>2. CASE ContAgain
  <2>1. /\ mem' = mem /\ breakpoints' = breakpoints /\ which_bp' = which_bp
        /\ enter' = enter /\ pre_orig_rax' = pre_orig_rax /\ command' = command
        /\ hb_i' = hb_i /\ rip' = rip /\ orig_rax' = orig_rax /\ status' = status
        /\ in_syscall' = in_syscall /\ said' = said /\ moved' = moved
        /\ bp_again' = FALSE /\ mode' = "cont" /\ pc' = "cont_w"
    BY <1>2 DEF ContAgain, Resume, regs, history
  <2>2. Flags' /\ AnyText(mem')
    BY <2>1 DEF AnyInv, Flags
  <2>. QED BY <2>1, <2>2, AnyResumed DEF Again
<1>3. CASE ContDone
  <2>1. /\ mode = "stopped" /\ pc = "cont_w" /\ status \notin {"exited", "lost"}
        /\ HandleBreakpoints(rip - 1, mem, bp_again, which_bp)
    BY <1>3 DEF ContDone, Stopped
  <2>2. status = "int3" /\ AnyText(mem) /\ AnyLift(bp_again, which_bp)
    BY <2>1 DEF AnyInv, Stops, AnyPlace
  <2>3. rip - 1 \in Addrs
    BY <2>1, <2>2, AnyBack DEF Waits
  <2>. QED BY <2>1, <2>2, <2>3, AnyHandled
<1>. QED BY <1>1, <1>2, <1>3

LEMMA AnySyscallCheck ==
    ASSUME FiniteProgram, AnyInv, pc \in {"syscall_w1", "syscall_w2", "syscall_w"},
           mode = "stopped", status \notin {"exited", "lost"},
           NEW m, AnyText(m), SyscallCheck(m)
    PROVE  AnyInv'
<1>0. AnyLift(FALSE, which_bp)
  BY DEF AnyInv, AnyPlace, AnyLift
<1>1. CASE SyscallReport(m)
  <2>1. /\ mem' = m /\ bp_again' = FALSE /\ pc' = "prompt" /\ mode' = mode /\ hb_i' = hb_i
        /\ breakpoints' = breakpoints /\ which_bp' = which_bp /\ enter' \in BOOLEAN
        /\ pre_orig_rax' = orig_rax /\ command' = command /\ rip' = rip
        /\ orig_rax' = orig_rax /\ status' = status /\ in_syscall' = in_syscall
        /\ said' \in {"enter", "leave"} /\ moved' = moved
    BY <1>1 DEF SyscallReport, Prompt, regs, AnyInv, Flags
  <2>2. Flags' /\ rip' \in Addrs
    BY <2>1 DEF AnyInv, Flags, Stops
  <2>. QED BY <1>0, <2>1, <2>2, AnyPrompt
<1>2. CASE status # "syscall" /\ HandleBreakpoints(rip - 1, m, FALSE, which_bp)
  <2>1. status = "int3"
    BY <1>2 DEF AnyInv, Stops
  <2>2. rip - 1 \in Addrs
    BY <2>1, AnyBack DEF Waits
  <2>. QED BY <1>0, <1>2, <2>2, AnyHandled
<1>. QED BY <1>1, <1>2 DEF SyscallCheck

LEMMA AnySyscall == ASSUME FiniteProgram, AnyInv, SyscallRearm \/ SyscallDone PROVE AnyInv'
<1>1. AnyText(mem) /\ mode = "stopped" /\ status \notin {"exited", "lost"}
      /\ pc \in {"syscall_w1", "syscall_w2", "syscall_w"}
  BY DEF AnyInv, SyscallRearm, SyscallDone, Stopped
<1>2. CASE SyscallRearm
  <2>1. bp_again /\ AnyText(Rearmed)
    BY <1>2, AnyRearmed DEF SyscallRearm, Stopped, Again
  <2>2. CASE SyscallCheck(Rearmed)
    BY <1>1, <2>1, <2>2, AnySyscallCheck
  <2>3. CASE ~SyscallCheck(Rearmed)
    <3>1. /\ mem' = Rearmed /\ mode' = "syscall" /\ pc' = "syscall_w2"
          /\ breakpoints' = breakpoints /\ bp_again' = bp_again /\ which_bp' = which_bp
          /\ enter' = enter /\ pre_orig_rax' = pre_orig_rax /\ command' = command
          /\ hb_i' = hb_i /\ rip' = rip /\ orig_rax' = orig_rax /\ status' = status
          /\ in_syscall' = in_syscall /\ said' = said /\ moved' = moved
      BY <1>2, <2>3 DEF SyscallRearm, Resume, debugger, regs, history
    <3>2. Flags' /\ bp_again' \in BOOLEAN
      BY <3>1 DEF AnyInv, Flags, AnyPlace, AnyLift
    <3>. QED BY <2>1, <3>1, <3>2, AnyResumed
  <2>. QED BY <2>2, <2>3
<1>3. CASE SyscallDone
  BY <1>1, <1>3, AnySyscallCheck DEF SyscallDone
<1>. QED BY <1>2, <1>3

(* The end of a skipped breakpoint; it becomes the one to be set again.         *)
LEMMA AnyHb == ASSUME FiniteProgram, AnyInv, HbSi \/ HbCont \/ HbSyscall PROVE AnyInv'
<1>1. /\ pc \in Handled /\ mode = "stopped" /\ status \notin {"exited", "lost"}
  BY DEF HbSi, HbCont, HbSyscall, Stopped, Handled
<1>2. hb_i \in Indices /\ AnyText(mem) /\ AnyLift(bp_again, which_bp) /\ AnyLift(TRUE, hb_i)
  BY <1>1 DEF AnyInv, AnyPlace, AnyLift
<1>3. CASE HbSi
  <2>. DEFINE m == [mem EXCEPT ![breakpoints[hb_i].addr] = "INT3"]
  <2>1. breakpoints[hb_i].addr \in BreakAddrs
    BY <1>2, AnyEntry DEF AnyInv, AnyTable
  <2>2. AnyText(m)
    BY <1>2, <2>1, AnySet
  <2>3. rip \in Addrs /\ AfterIgnored(rip, m, bp_again, which_bp)
    BY <1>3 DEF HbSi, AnyInv, Stops
  <2>. HIDE DEF m
  <2>. QED BY <1>1, <1>2, <2>2, <2>3, AnyAfter
<1>4. CASE HbCont
  <2>1. pc = "hb_cont" /\ AfterIgnored(rip - 1, mem, TRUE, hb_i)
    BY <1>4 DEF HbCont, Stopped
  <2>2. status = "int3"
    BY <1>1, <2>1 DEF AnyInv, Stops
  <2>3. rip - 1 \in Addrs
    BY <1>1, <2>1, <2>2, AnyBack DEF Waits
  <2>. QED BY <1>1, <1>2, <2>1, <2>3, AnyAfter
<1>5. CASE HbSyscall
  <2>. DEFINE a == IF status = "int3" THEN rip - 1 ELSE rip - 2
  <2>1. pc = "hb_syscall" /\ AfterIgnored(a, mem, TRUE, hb_i)
    BY <1>5 DEF HbSyscall, Stopped
  <2>2. a \in Addrs
    <3>1. CASE status = "int3"
      BY <1>1, <2>1, <3>1, AnyBack DEF Waits
    <3>2. CASE status # "int3"
      <4>1. rip \in Addrs /\ rip >= 2
        BY <2>1 DEF AnyInv, Stops
      <4>. QED BY <3>2, <4>1, AnyAddrs
    <3>. QED BY <3>1, <3>2
  <2>. HIDE DEF a
  <2>. QED BY <1>1, <1>2, <2>1, <2>2, AnyAfter
<1>. QED BY <1>3, <1>4, <1>5

LEMMA AnyExited == ASSUME AnyInv, Exited PROVE AnyInv'
<1>1. /\ breakpoints' = breakpoints /\ bp_again' = bp_again /\ which_bp' = which_bp
      /\ enter' = enter /\ pre_orig_rax' = pre_orig_rax /\ command' = command
      /\ hb_i' = hb_i /\ rip' = rip /\ orig_rax' = orig_rax /\ mem' = mem /\ mode' = mode
      /\ status' = status /\ in_syscall' = in_syscall /\ said' = said /\ moved' = moved
      /\ pc' \in {"done", "errquit"}
  BY DEF Exited, debugger, tracee, regs, history
<1>2. AnyTable' /\ Indices' = Indices
  BY <1>1, AnyTableKept DEF AnyInv
<1>3. AnyPlace' /\ AnyText(mem)'
  BY <1>1, <1>2 DEF AnyInv, AnyPlace, AnyLift, AnyText, Handled, Again
<1>4. Flags' /\ Stops'
  BY <1>1 DEF AnyInv, Flags, Stops, Waits
<1>. QED BY <1>2, <1>3, <1>4 DEF AnyInv
-----------------------------------------------------------------------------
(* break, delete, patch. *)

LEMMA AnyPoked ==
    ASSUME FiniteProgram, AnyTable, NEW m, AnyText(m), NEW i \in Indices
    PROVE  AnyText(PokeWord(m, breakpoints[i].addr, breakpoints[i].original_code))
<1>. DEFINE w == breakpoints[i].addr
            o == breakpoints[i].original_code
<1>1. w \in Nat /\ o \in [0 .. Word - 1 -> Bytes]
  BY AnyEntry, AnyAddrs DEF AnyTable
<1>2. \A k \in 0 .. Word - 1 : o[k] = "INT3" => w + k \in BreakAddrs
  BY DEF AnyTable
<1>3. ASSUME NEW b \in Addrs
      PROVE  /\ (IF b - w \in DOMAIN o THEN o[b - w] ELSE m[b]) \in Bytes
             /\ (IF b - w \in DOMAIN o THEN o[b - w] ELSE m[b]) = "INT3" => b \in BreakAddrs
  <2>1. CASE b - w \in DOMAIN o
    <3>1. b - w \in 0 .. Word - 1 /\ w + (b - w) = b
      BY <1>1, <2>1, AnyAddrs
    <3>2. o[b - w] = "INT3" => b \in BreakAddrs
      BY <1>2, <3>1
    <3>. QED BY <1>1, <2>1, <3>1, <3>2
  <2>2. CASE b - w \notin DOMAIN o
    BY <2>2 DEF AnyText
  <2>. QED BY <2>1, <2>2
<1>. QED BY <1>3 DEF PokeWord, AnyText

(* The place and what surrounds it stay; the table may grow.                    *)
LEMMA AnyEdited ==
    ASSUME AnyInv, AnyTable', AnyText(mem)', Indices \subseteq Indices', pc = "prompt",
           bp_again' = bp_again, which_bp' = which_bp, enter' = enter,
           pre_orig_rax' = pre_orig_rax, pc' = pc, hb_i' = hb_i, rip' = rip,
           orig_rax' = orig_rax, mode' = mode, status' = status, in_syscall' = in_syscall,
           said' = said, moved' = moved, command' = "none"
    PROVE  AnyInv'
<1>1. AnyPlace'
  BY DEF AnyInv, AnyPlace, AnyLift, Handled, Again
<1>2. Flags' /\ Stops'
  BY DEF AnyInv, Flags, Stops, Waits
<1>. QED BY <1>1, <1>2 DEF AnyInv

LEMMA AnyDelete ==
    ASSUME FiniteProgram, AnyInv, NEW i \in Indices, DeleteBreakpoint(i)
    PROVE  AnyInv'
<1>1. /\ pc = "prompt" /\ command' = "none"
      /\ mem' = PokeWord(mem, breakpoints[i].addr, breakpoints[i].original_code)
      /\ breakpoints' = [breakpoints EXCEPT ![i].active = FALSE]
      /\ bp_again' = bp_again /\ which_bp' = which_bp /\ enter' = enter
      /\ pre_orig_rax' = pre_orig_rax /\ pc' = pc /\ hb_i' = hb_i /\ rip' = rip
      /\ orig_rax' = orig_rax /\ mode' = mode /\ status' = status
      /\ in_syscall' = in_syscall /\ said' = said /\ moved' = moved
  BY DEF DeleteBreakpoint, Request, regs, history
<1>2. AnyTable' /\ Indices' = Indices
  BY <1>1, AnySkipped DEF AnyInv
<1>3. AnyText(mem)'
  BY <1>1, AnyPoked DEF AnyInv, AnyText
<1>. QED BY <1>1, <1>2, <1>3, AnyEdited

LEMMA AnyBreak ==
    ASSUME FiniteProgram, AnyInv, NEW a \in BreakAddrs, SetBreakpoints(a)
    PROVE  AnyInv'
<1>1. /\ pc = "prompt" /\ command' = "none"
      /\ bp_again' = bp_again /\ which_bp' = which_bp /\ enter' = enter
      /\ pre_orig_rax' = pre_orig_rax /\ pc' = pc /\ hb_i' = hb_i /\ rip' = rip
      /\ orig_rax' = orig_rax /\ mode' = mode /\ status' = status
      /\ in_syscall' = in_syscall /\ said' = said /\ moved' = moved
  BY DEF SetBreakpoints, Request, regs, history
<1>2. CASE breakpoints' = breakpoints /\ mem' = mem
  <2>1. AnyTable' /\ Indices' = Indices
    BY <1>2, AnyTableKept DEF AnyInv
  <2>. QED BY <1>1, <1>2, <2>1, AnyEdited DEF AnyInv, AnyText
<1>3. CASE ~(breakpoints' = breakpoints /\ mem' = mem)
  <2>. DEFINE e == [addr |-> a, original_code |-> WordAt(mem, a), active |-> TRUE,
                    ignore_rip_equal_break |-> rip = a]
              n == Len(breakpoints) + 1
  <2>1. /\ breakpoints' = Append(breakpoints, e) /\ mem' = [mem EXCEPT ![a] = "INT3"]
        /\ Len(breakpoints) < MaxBreaks
    BY <1>3 DEF SetBreakpoints
  <2>2. /\ WordAt(mem, a) \in [0 .. Word - 1 -> Bytes]
        /\ \A k \in 0 .. Word - 1 : WordAt(mem, a)[k] = "INT3" => a + k \in BreakAddrs
    BY AnyWord DEF AnyInv
  <2>3. e \in Entries
    BY <2>2 DEF Entries
  <2>4. e.addr = a /\ e.original_code = WordAt(mem, a)
    OBVIOUS
  <2>5. breakpoints \in Seq(Entries)
    BY DEF AnyInv, AnyTable
  <2>. HIDE DEF e
  <2>6. /\ breakpoints' \in Seq(Entries) /\ Len(breakpoints') = n
        /\ n \in Nat /\ MaxBreaks \in Nat
        /\ breakpoints'[n] = e /\ \A i \in 1 .. Len(breakpoints) : breakpoints'[i] = breakpoints[i]
    BY <2>1, <2>3, <2>5, SdbAssumption
  <2>7. Indices' = 1 .. n /\ Indices = 1 .. Len(breakpoints) /\ Len(breakpoints) \in Nat
    BY <2>5, <2>6 DEF Indices
  <2>8. ASSUME NEW i \in Indices', NEW k \in 0 .. Word - 1, breakpoints'[i].original_code[k] = "INT3"
        PROVE  breakpoints'[i].addr + k \in BreakAddrs
    <3>1. CASE i = n
      BY <2>2, <2>4, <2>6, <2>8, <3>1
    <3>2. CASE i # n
      <4>1. i \in Indices /\ breakpoints'[i] = breakpoints[i]
        BY <2>6, <2>7, <3>2
      <4>. QED BY <2>8, <4>1 DEF AnyInv, AnyTable
    <3>. QED BY <3>1, <3>2
  <2>9. Len(breakpoints') <= MaxBreaks
    BY <2>1, <2>5, <2>6
  <2>10. AnyTable'
    BY <2>6, <2>8, <2>9 DEF AnyTable
  <2>11. AnyText(mem)'
    <3>1. AnyText([mem EXCEPT ![a] = "INT3"])
      BY AnySet DEF AnyInv
    <3>. QED BY <2>1, <3>1 DEF AnyText
  <2>12. Indices \subseteq Indices'
    BY <2>7
  <2>. QED BY <1>1, <2>10, <2>11, <2>12, AnyEdited
<1>. QED BY <1>2, <1>3

(* A patch: where a byte of it has a breakpoint, its INT3 is set again.          *)
LEMMA AnyPatched ==
    ASSUME FiniteProgram, AnyInv, NEW p, NEW a
    PROVE  AnyText(Patched(p, a))
<1>1. ASSUME NEW b \in Addrs
      PROVE  /\ Patched(p, a)[b] \in Bytes
             /\ Patched(p, a)[b] = "INT3" => b \in BreakAddrs
  <2>1. mem[b] \in Bytes /\ (mem[b] = "INT3" => b \in BreakAddrs)
    BY DEF AnyInv, AnyText
  <2>2. Matches(b) # {} => b \in BreakAddrs
    BY AnyMatch DEF AnyInv
  <2>3. Patched(p, a)[b] = IF b \notin p[1] .. a THEN mem[b]
                           ELSE IF Matches(b) = {} THEN "patch" ELSE "INT3"
    BY DEF Patched
  <2>. QED BY <2>1, <2>2, <2>3 DEF Bytes
<1>2. Patched(p, a) \in [Addrs -> Bytes]
  <2>1. Patched(p, a) = [b \in Addrs |-> Patched(p, a)[b]]
    BY DEF Patched
  <2>. QED BY <1>1, <2>1
<1>. QED BY <1>1, <1>2 DEF AnyText

LEMMA AnyPatch ==
    ASSUME FiniteProgram, AnyInv, NEW p \in Patches, PatchMemory(p)
    PROVE  AnyInv'
<1>. DEFINE last == p[1] + p[2] - 1
            Reached(i) == \E a \in p[1] .. last : Matches(a) # {} /\ i = Min(Matches(a))
            word(a) == WordAt([Patched(p, a) EXCEPT ![a] = "patch"], a)
            new(i) == IF Reached(i)
                      THEN [breakpoints[i] EXCEPT !.original_code = word(breakpoints[i].addr)]
                      ELSE breakpoints[i]
<1>1. /\ pc = "prompt" /\ command' = "none"
      /\ bp_again' = bp_again /\ which_bp' = which_bp /\ enter' = enter
      /\ pre_orig_rax' = pre_orig_rax /\ pc' = pc /\ hb_i' = hb_i /\ rip' = rip
      /\ orig_rax' = orig_rax /\ mode' = mode /\ status' = status
      /\ in_syscall' = in_syscall /\ said' = said /\ moved' = moved
      /\ mem' = Patched(p, last) /\ breakpoints' = [i \in Indices |-> new(i)]
  BY DEF PatchMemory, Request, regs, history
<1>2. ASSUME NEW a \in BreakAddrs
      PROVE  /\ word(a) \in [0 .. Word - 1 -> Bytes]
             /\ \A k \in 0 .. Word - 1 : word(a)[k] = "INT3" => a + k \in BreakAddrs
  <2>1. AnyText(Patched(p, a))
    BY AnyPatched
  <2>2. AnyText([Patched(p, a) EXCEPT ![a] = "patch"])
    BY <2>1 DEF AnyText, Bytes
  <2>. QED BY <2>2, AnyWord
<1>3. ASSUME NEW i \in Indices
      PROVE  /\ new(i) \in Entries /\ new(i).addr = breakpoints[i].addr
             /\ \A k \in 0 .. Word - 1 :
                   new(i).original_code[k] = "INT3" => new(i).addr + k \in BreakAddrs
  <2>. DEFINE w == word(breakpoints[i].addr)
  <2>1. breakpoints[i] \in Entries /\ breakpoints[i].addr \in BreakAddrs
    BY AnyEntry DEF AnyInv, AnyTable
  <2>2. /\ w \in [0 .. Word - 1 -> Bytes]
        /\ \A k \in 0 .. Word - 1 : w[k] = "INT3" => breakpoints[i].addr + k \in BreakAddrs
    BY <1>2, <2>1
  <2>3. new(i) = IF Reached(i) THEN [breakpoints[i] EXCEPT !.original_code = w] ELSE breakpoints[i]
    OBVIOUS
  <2>. HIDE DEF w, Reached, new
  <2>4. CASE Reached(i)
    BY <2>1, <2>2, <2>3, <2>4 DEF Entries
  <2>5. CASE ~Reached(i)
    BY <2>1, <2>3, <2>5 DEF AnyInv, AnyTable
  <2>. QED BY <2>4, <2>5
<1>. HIDE DEF new
<1>4. /\ breakpoints' \in Seq(Entries) /\ Len(breakpoints') = Len(breakpoints)
      /\ \A i \in Indices : breakpoints'[i] = new(i)
  <2>1. breakpoints \in Seq(Entries) /\ Len(breakpoints) \in Nat
    BY DEF AnyInv, AnyTable
  <2>2. breakpoints' \in [1 .. Len(breakpoints) -> Entries]
    BY <1>1, <1>3 DEF Indices
  <2>3. breakpoints' \in Seq(Entries) /\ Len(breakpoints') = Len(breakpoints)
    BY <2>1, <2>2
  <2>. QED BY <1>1, <2>3
<1>5. Indices' = Indices
  BY <1>4 DEF Indices
<1>6. AnyTable'
  <2>1. Len(breakpoints') <= MaxBreaks
    BY <1>4 DEF AnyInv, AnyTable
  <2>. QED BY <1>3, <1>4, <1>5, <2>1 DEF AnyTable
<1>7. AnyText(mem)'
  <2>1. AnyText(mem')
    BY <1>1, AnyPatched
  <2>. QED BY <2>1 DEF AnyText
<1>. QED BY <1>1, <1>5, <1>6, <1>7, AnyEdited

LEMMA AnyEditing == ASSUME FiniteProgram, AnyInv, Editing PROVE AnyInv'
<1>1. ASSUME NEW i \in 1 .. MaxBreaks, DeleteBreakpoint(i) PROVE AnyInv'
  <2>1. i \in Indices
    BY <1>1 DEF DeleteBreakpoint
  <2>. QED BY <1>1, <2>1, AnyDelete
<1>. QED BY <1>1, AnyBreak, AnyPatch DEF Editing

LEMMA AnyStep == ASSUME FiniteProgram, AnyInv, [Next]_vars PROVE AnyInv'
<1>1. CASE UNCHANGED vars
  <2>1. AnyTable' /\ Indices' = Indices
    BY <1>1, AnyTableKept DEF AnyInv, vars, debugger
  <2>. QED BY <1>1, <2>1 DEF AnyInv, AnyText, AnyPlace, AnyLift, Flags, Stops, vars, debugger,
               control, tracee, regs, history
<1>2. CASE Handling
  BY <1>2, AnyHb, AnySi, AnyCont, AnySyscall, AnyExited DEF Handling
<1>. QED BY <1>1, <1>2, AnyTracee, AnyRunning, AnyEditing DEF Next

(* Every variable keeps its type, whatever commands and edits the user gives, in    *)
(* any program: rip, moved back by one or by two, stays in the text, and the        *)
(* breakpoint that is set again or skipped is an entry of the table.               *)
THEOREM SdbTypes == ASSUME FiniteProgram PROVE Spec => []TypeOK
<1>1. Init => AnyInv
  BY AnyInit
<1>2. AnyInv /\ [Next]_vars => AnyInv'
  BY AnyStep
<1>3. AnyInv => TypeOK
  BY AnyTypes
<1>. QED BY <1>1, <1>2, <1>3, PTL DEF Spec
-----------------------------------------------------------------------------
(* What disassemble lists. *)

(* Every byte of the text belongs to one instruction, and none is longer than    *)
(* the two words disassemble reads of it (16 bytes; x86 allows 15).              *)
SolidText ==
    /\ \A a, b \in Starts : b \notin a + 1 .. a + Code[a].len - 1
    /\ \A a \in Starts : \/ a + Code[a].len \in Starts
                         \/ \A b \in Starts : b < a + Code[a].len
    /\ \A a \in Starts : Code[a].len <= 2 * Word

(* Nothing is patched: bytes, saved ones included, are the program's or INT3s.   *)
Unpatched ==
    /\ \A a \in Addrs : mem[a] # "patch"
    /\ \A i \in Indices : \A k \in 0 .. Word - 1 : breakpoints[i].original_code[k] # "patch"

LEMMA UnpatchedInit == ASSUME Init PROVE Unpatched
BY DEF Init, Unpatched, Indices

(* A text without patches.                                                     *)
Clean(m) == m \in [Addrs -> Bytes] /\ \A a \in Addrs : m[a] # "patch"

LEMMA CleanLift ==
    ASSUME FiniteText, Table, Unpatched, NEW m, Clean(m), NEW i \in Indices
    PROVE  Clean(Lift(i, m))
<1>1. /\ breakpoints[i].addr \in Addrs /\ breakpoints[i].original_code[0] \in Bytes
      /\ breakpoints[i].original_code[0] # "patch"
  BY EntryTyped, Breaks DEF Table, Unpatched
<1>. QED BY <1>1 DEF Lift, Clean

LEMMA CleanRearmed ==
    ASSUME Clean(mem), NEW a PROVE Clean([mem EXCEPT ![a] = "INT3"])
BY DEF Clean, Bytes

(* handle_breakpoints and what leads to it keep the text free of patches.        *)
LEMMA UnpatchedHandled ==
    ASSUME FiniteText, IInv, Unpatched, NEW m, TextOf(m, {}), Clean(m), NEW a, NEW which,
           HandleBreakpoints(a, m, FALSE, which)
    PROVE  Unpatched'
<1>1. /\ breakpoints' = breakpoints
      /\ \/ mem' = m
         \/ which_bp' \in Matches(a) /\ mem' = Lift(which_bp', m)
  BY HandleFacts DEF IInv
<1>2. Indices' = Indices
  BY <1>1 DEF Indices
<1>3. Clean(mem')
  <2>1. CASE mem' = m
    BY <2>1
  <2>2. CASE which_bp' \in Matches(a) /\ mem' = Lift(which_bp', m)
    <3>1. which_bp' \in Indices
      BY <2>2 DEF Matches
    <3>2. Clean(Lift(which_bp', m))
      BY <3>1, CleanLift DEF IInv
    <3>. QED BY <2>2, <3>2
  <2>. QED BY <1>1, <2>1, <2>2
<1>. QED BY <1>1, <1>2, <1>3 DEF Unpatched, Clean

LEMMA UnpatchedFrame ==
    ASSUME Unpatched, breakpoints' = breakpoints, Clean(mem') \/ mem' = mem
    PROVE  Unpatched'
BY DEF Unpatched, Clean, Indices

(* The text is typed everywhere.                                               *)
LEMMA TextTyped == ASSUME IInv, Unpatched, pc \notin Gone PROVE Clean(mem)
BY DEF IInv, Text, TextOf, Unpatched, Clean, AtBreak, Again, Plain

LEMMA UnpatchedHandling ==
    ASSUME FiniteText, IInv, Unpatched, Handling
    PROVE  Unpatched'
<1>1. CASE SiRearm \/ SiDone
  <2>1. PICK l \in {Rearmed, mem} : /\ TextOf(l, {}) /\ Clean(l)
                                    /\ SiCheck(l) \/ (breakpoints' = breakpoints /\ mem' = l)
    <3>1. Clean(mem)
      BY <1>1, TextTyped DEF SiRearm, SiDone, Stopped, Gone
    <3>2. CASE SiRearm
      <4>1. TextOf(Rearmed, {})
        BY <3>2, Relift DEF SiRearm, Stopped
      <4>2. Clean(Rearmed)
        BY <3>1, CleanRearmed DEF Rearmed
      <4>3. SiCheck(Rearmed) \/ (breakpoints' = breakpoints /\ mem' = Rearmed)
        BY <3>2 DEF SiRearm, debugger
      <4>. QED BY <4>1, <4>2, <4>3
    <3>3. CASE SiDone
      BY <3>1, <3>3, Full DEF SiDone, Stopped
    <3>. QED BY <1>1, <3>2, <3>3
  <2>2. CASE HandleBreakpoints(IF BreakSet(rip) THEN rip ELSE rip - 1, l, FALSE, which_bp)
    BY <2>1, <2>2, UnpatchedHandled
  <2>3. CASE ~HandleBreakpoints(IF BreakSet(rip) THEN rip ELSE rip - 1, l, FALSE, which_bp)
    <3>1. breakpoints' = breakpoints /\ mem' = l
      BY <2>1, <2>3 DEF SiCheck
    <3>. QED BY <2>1, <3>1, UnpatchedFrame
  <2>. QED BY <2>2, <2>3
<1>2. CASE ContRearm
  <2>1. Clean(mem)
    BY <1>2, TextTyped DEF ContRearm, Stopped, Gone
  <2>2. Clean(Rearmed)
    BY <2>1, CleanRearmed DEF Rearmed
  <2>. QED BY <1>2, <2>2, UnpatchedFrame DEF ContRearm
<1>3. CASE ContAgain \/ Exited
  BY <1>3, UnpatchedFrame DEF ContAgain, Exited, debugger, tracee
<1>4. CASE ContDone
  <2>1. TextOf(mem, {}) /\ bp_again = FALSE
    BY <1>4, Full DEF ContDone, Stopped, Plain
  <2>2. Clean(mem)
    BY <1>4, TextTyped DEF ContDone, Stopped, Gone
  <2>3. HandleBreakpoints(rip - 1, mem, FALSE, which_bp)
    BY <1>4, <2>1 DEF ContDone
  <2>. QED BY <2>1, <2>2, <2>3, UnpatchedHandled
<1>5. CASE SyscallRearm \/ SyscallDone
  <2>1. PICK l \in {Rearmed, mem} : /\ TextOf(l, {}) /\ Clean(l)
                                    /\ SyscallCheck(l) \/ (breakpoints' = breakpoints /\ mem' = l)
    <3>1. Clean(mem)
      BY <1>5, TextTyped DEF SyscallRearm, SyscallDone, Stopped, Gone
    <3>2. CASE SyscallRearm
      <4>1. TextOf(Rearmed, {})
        BY <3>2, Relift DEF SyscallRearm, Stopped
      <4>2. Clean(Rearmed)
        BY <3>1, CleanRearmed DEF Rearmed
      <4>3. SyscallCheck(Rearmed) \/ (breakpoints' = breakpoints /\ mem' = Rearmed)
        BY <3>2 DEF SyscallRearm, debugger
      <4>. QED BY <4>1, <4>2, <4>3
    <3>3. CASE SyscallDone
      BY <3>1, <3>3, Full DEF SyscallDone, Stopped
    <3>. QED BY <1>5, <3>2, <3>3
  <2>2. CASE HandleBreakpoints(rip - 1, l, FALSE, which_bp)
    BY <2>1, <2>2, UnpatchedHandled
  <2>3. CASE ~HandleBreakpoints(rip - 1, l, FALSE, which_bp)
    <3>1. breakpoints' = breakpoints /\ mem' = l
      BY <2>1, <2>3 DEF SyscallCheck, SyscallReport
    <3>. QED BY <2>1, <3>1, UnpatchedFrame
  <2>. QED BY <2>2, <2>3
<1>6. ~(HbSi \/ HbCont \/ HbSyscall)
  BY DEF HbSi, HbCont, HbSyscall, Stopped, IInv, Text, AtBreak, Again, Plain, Gone
<1>. QED BY <1>1, <1>2, <1>3, <1>4, <1>5, <1>6 DEF Handling

LEMMA UnpatchedEditing ==
    ASSUME FiniteText, IInv, Unpatched, CarefulEditing
    PROVE  Unpatched'
<1>1. ASSUME NEW a \in BreakAddrs, SetBreakpoints(a) PROVE Unpatched'
  <2>. DEFINE e == [addr |-> a, original_code |-> WordAt(mem, a), active |-> TRUE,
                    ignore_rip_equal_break |-> rip = a]
  <2>1. Clean(mem)
    BY <1>1, TextTyped DEF SetBreakpoints, Request, Gone
  <2>2. CASE breakpoints' = breakpoints /\ mem' = mem
    BY <2>2, UnpatchedFrame
  <2>3. CASE ~(breakpoints' = breakpoints /\ mem' = mem)
    <3>1. breakpoints' = Append(breakpoints, e) /\ mem' = [mem EXCEPT ![a] = "INT3"]
      BY <1>1, <2>3 DEF SetBreakpoints
    <3>2. breakpoints \in Seq(Entries)
      BY DEF IInv, Table
    <3>3. \A k \in 0 .. Word - 1 : e.original_code[k] # "patch"
      <4>1. \A k \in 0 .. Word - 1 : a + k \in Addrs /\ WordAt(mem, a)[k] = mem[a + k]
        BY <2>1, WordTyped DEF Clean
      <4>. QED BY <2>1, <4>1 DEF Clean
    <3>. HIDE DEF e
    <3>4. /\ Len(breakpoints') = Len(breakpoints) + 1 /\ breakpoints'[Len(breakpoints) + 1] = e
          /\ \A i \in 1 .. Len(breakpoints) : breakpoints'[i] = breakpoints[i]
      BY <3>1, <3>2
    <3>5. \A i \in Indices' : i \in Indices \/ i = Len(breakpoints) + 1
      BY <3>2, <3>4 DEF Indices
    <3>6. \A i \in Indices : breakpoints'[i] = breakpoints[i]
      BY <3>4 DEF Indices
    <3>7. Clean(mem')
      BY <2>1, <3>1, CleanRearmed
    <3>. QED BY <3>3, <3>4, <3>5, <3>6, <3>7 DEF Unpatched, Clean
  <2>. QED BY <2>2, <2>3
<1>2. ASSUME NEW i \in Indices, DeleteBreakpoint(i) PROVE Unpatched'
  <2>. DEFINE w == breakpoints[i].addr
              o == breakpoints[i].original_code
  <2>1. Clean(mem)
    BY <1>2, TextTyped DEF DeleteBreakpoint, Request, Gone
  <2>2. /\ mem' = PokeWord(mem, w, o)
        /\ breakpoints' = [breakpoints EXCEPT ![i].active = FALSE]
    BY <1>2 DEF DeleteBreakpoint
  <2>3. /\ breakpoints \in Seq(Entries) /\ breakpoints[i] \in Entries
        /\ DOMAIN o = 0 .. Word - 1
    <3>1. breakpoints \in Seq(Entries)
      BY DEF IInv, Table
    <3>2. breakpoints[i] \in Entries
      BY <3>1, EntryTyped
    <3>. QED BY <3>1, <3>2 DEF Entries
  <2>4. \A k \in DOMAIN o : o[k] # "patch"
    BY <2>3 DEF Unpatched
  <2>5. \A a \in Addrs : mem'[a] # "patch"
    BY <2>1, <2>2, <2>4 DEF PokeWord, Clean
  <2>6. /\ Indices' = Indices
        /\ \A j \in Indices : breakpoints'[j].original_code = breakpoints[j].original_code
    <3>. DEFINE e == [breakpoints[i] EXCEPT !.active = FALSE]
    <3>1. e.original_code = o
      BY <2>3 DEF Entries
    <3>2. breakpoints' = [breakpoints EXCEPT ![i] = e]
      BY <2>2, <2>3 DEF Indices
    <3>. HIDE DEF e
    <3>3. /\ Len(breakpoints') = Len(breakpoints)
          /\ \A j \in Indices : breakpoints'[j] = IF j = i THEN e ELSE breakpoints[j]
      BY <2>3, <3>2 DEF Indices
    <3>. QED BY <3>1, <3>3 DEF Indices
  <2>. QED BY <2>5, <2>6 DEF Unpatched
<1>. QED BY <1>1, <1>2 DEF CarefulEditing

LEMMA UnpatchedStep ==
    ASSUME FiniteText, IInv, Unpatched, [CarefulNext]_vars
    PROVE  Unpatched'
<1>1. CASE Tracee
  BY <1>1, UnpatchedFrame DEF Tracee, TraceeTrap, TraceeOp, TraceeSyscall, TraceeLeave, TraceeLost,
     debugger
<1>2. CASE Running
  BY <1>2, UnpatchedFrame DEF Running, Si, Cont, Syscall, Begin, debugger
<1>3. CASE UNCHANGED vars
  BY <1>3, UnpatchedFrame DEF vars, debugger, tracee
<1>. QED BY <1>1, <1>2, <1>3, UnpatchedHandling, UnpatchedEditing DEF CarefulNext
-----------------------------------------------------------------------------
(* One line of the listing: the instruction's own bytes. *)

Own(a) == [addr |-> a, bytes |-> [k \in 0 .. Code[a].len - 1 |-> "text"]]

LEMMA SolidFacts ==
    ASSUME SolidText, NEW a \in Starts
    PROVE  /\ a \in Nat /\ Word \in Nat \ {0} /\ Code[a].len \in Nat \ {0}
           /\ Code[a].len <= 2 * Word
           /\ \A k \in 1 .. Code[a].len - 1 : a + k \notin Starts
<1>1. a \in Nat /\ Word \in Nat \ {0} /\ Code[a].len \in Nat \ {0}
  BY ProgramAssumption, SdbAssumption
<1>2. ASSUME NEW k \in 1 .. Code[a].len - 1 PROVE a + k \notin Starts
  <2>1. a + k \in a + 1 .. a + Code[a].len - 1
    BY <1>1
  <2>. QED BY <2>1 DEF SolidText
<1>. QED BY <1>1, <1>2 DEF SolidText

(* A byte of an instruction behind its first, in the text and in a saved word.   *)
LEMMA OwnByte ==
    ASSUME FiniteText, SolidText, IInv, Unpatched, pc = "prompt", NEW a \in Starts,
           NEW k \in 0 .. Code[a].len - 1
    PROVE  /\ a + k \in Addrs
           /\ (k # 0 \/ Matches(a) = {}) => mem[a + k] = "text"
           /\ (k # 0 => Matches(a + k) = {})
<1>1. a + k \in Addrs
  <2>1. k \in 0 .. Word + Code[a].len
    BY SolidFacts
  <2>. QED BY <2>1, TextFits
<1>2. k # 0 => Matches(a + k) = {}
  <2>1. ASSUME k # 0 PROVE a + k \notin Starts
    BY <2>1, SolidFacts
  <2>2. \A i \in Matches(a + k) : a + k \in Starts
    BY EntryTyped, Breaks DEF Matches, IInv, Table
  <2>. QED BY <2>1, <2>2
<1>3. a + 0 = a
  BY SolidFacts
<1>4. (k # 0 \/ Matches(a) = {}) => Matches(a + k) = {}
  BY <1>2, <1>3
<1>5. Matches(a + k) = {} => mem[a + k] # "INT3"
  <2>1. PICK L : TextOf(mem, L)
    BY DEF IInv, Text, AtBreak
  <2>. QED BY <1>1, <2>1 DEF TextOf
<1>6. mem[a + k] \in Bytes /\ mem[a + k] # "patch"
  BY <1>1, TextTyped DEF Clean, Gone
<1>. QED BY <1>1, <1>2, <1>4, <1>5, <1>6 DEF Bytes

LEMMA OwnSaved ==
    ASSUME FiniteText, SolidText, IInv, Unpatched, NEW a \in Starts,
           NEW i \in Matches(a), NEW k \in 0 .. Code[a].len - 1, k \in 0 .. Word - 1
    PROVE  breakpoints[i].original_code[k] = "text"
<1>1. i \in Indices /\ breakpoints[i].addr = a /\ breakpoints \in Seq(Entries)
  BY DEF Matches, IInv, Table
<1>2. breakpoints[i].original_code \in [0 .. Word - 1 -> Bytes]
  BY <1>1, EntryTyped DEF Entries
<1>3. breakpoints[i].original_code[k] # "INT3"
  <2>1. CASE k = 0
    BY <1>1, <2>1 DEF IInv, Table
  <2>2. CASE k # 0
    <3>1. k \in 1 .. Word - 1 /\ k \in 1 .. Code[a].len - 1
      BY <2>2, SolidFacts
    <3>2. a + k \notin Starts
      BY <3>1, SolidFacts
    <3>3. \A j \in Indices : breakpoints[j].addr \in Starts
      BY <1>1, EntryTyped, Breaks
    <3>. QED BY <1>1, <3>1, <3>2, <3>3 DEF IInv, Table
  <2>. QED BY <2>1, <2>2
<1>4. breakpoints[i].original_code[k] # "patch"
  BY <1>1 DEF Unpatched
<1>. QED BY <1>2, <1>3, <1>4 DEF Bytes

LEMMA OwnLine ==
    ASSUME FiniteText, SolidText, IInv, Unpatched, pc = "prompt", NEW a \in Starts
    PROVE  Decoded(a) = Own(a)
<1>. DEFINE code(k) == IF k < Word THEN Peeked(a)[k] ELSE Peeked(a + Word)[k - Word]
            len == IF code(0) = "INT3" THEN 1 ELSE Code[a].len
<1>1. ASSUME NEW k \in 0 .. Code[a].len - 1 PROVE code(k) = "text"
  <2>1. CASE k < Word /\ Matches(a) = {}
    <3>1. k \in 0 .. Word - 1
      BY <2>1, SolidFacts
    <3>2. Peeked(a)[k] = mem[a + k]
      BY <2>1, <3>1 DEF Peeked, WordAt
    <3>. QED BY <2>1, <3>2, OwnByte
  <2>2. CASE k < Word /\ Matches(a) # {}
    <3>1. k \in 0 .. Word - 1
      BY <2>2, SolidFacts
    <3>2. Min(Matches(a)) \in Matches(a)
      BY <2>2, MatchFacts DEF IInv, Table
    <3>3. Peeked(a) = breakpoints[Min(Matches(a))].original_code
      BY <2>2 DEF Peeked
    <3>. QED BY <2>2, <3>1, <3>2, <3>3, OwnSaved
  <2>3. CASE ~(k < Word)
    <3>1. Word \in 1 .. Code[a].len - 1 /\ Word \in 0 .. Code[a].len - 1 /\ Word # 0 /\ k # 0
      BY <2>3, SolidFacts
    <3>2. Matches(a + Word) = {}
      BY <3>1, OwnByte
    <3>3. k - Word \in 0 .. Word - 1 /\ (a + Word) + (k - Word) = a + k
      BY <2>3, SolidFacts
    <3>4. Peeked(a + Word)[k - Word] = mem[a + k]
      BY <3>2, <3>3 DEF Peeked, WordAt
    <3>. QED BY <2>3, <3>1, <3>4, OwnByte
  <2>. QED BY <2>1, <2>2, <2>3
<1>2. code(0) = "text"
  <2>1. 0 \in 0 .. Code[a].len - 1
    BY SolidFacts
  <2>. QED BY <1>1, <2>1
<1>3. len = Code[a].len
  BY <1>2
<1>4. Decoded(a) = [addr |-> a, bytes |-> [k \in 0 .. len - 1 |-> code(k)]]
  BY DEF Decoded
<1>. HIDE DEF code, len
<1>5. [k \in 0 .. len - 1 |-> code(k)] = [k \in 0 .. Code[a].len - 1 |-> "text"]
  BY <1>1, <1>3
<1>. QED BY <1>4, <1>5 DEF Own
-----------------------------------------------------------------------------
(* The listing: the lines so far, and what lies ahead of them. *)

Ahead(a) == {b \in Starts : b >= a /\ b <= end_address}

(* Where the next line begins.                                                *)
NextAddr(l) == IF l = <<>> THEN rip ELSE Last(l).addr + Cardinality(DOMAIN Last(l).bytes)

(* After n rounds of the loop: true lines, one for each instruction passed, and  *)
(* as many as rounds unless the end of the text was met.                        *)
Lines(l, n) ==
    /\ l \in Seq({Own(a) : a \in Ahead(rip)})
    /\ NextAddr(l) \in Nat /\ NextAddr(l) >= rip
    /\ NextAddr(l) \in Starts \/ Ahead(NextAddr(l)) = {}
    /\ Len(l) + Cardinality(Ahead(NextAddr(l))) = Cardinality(Ahead(rip))
    /\ Len(l) = n \/ (Len(l) < n /\ Ahead(NextAddr(l)) = {})

LEMMA EndAddress ==
    ASSUME FiniteText
    PROVE  end_address \in Int
<1>. DEFINE Ends == {a + Code[a].len : a \in Starts}
            f == [a \in Starts |-> a + Code[a].len]
<1>1. Ends \in SUBSET Nat /\ Ends # {}
  BY ProgramAssumption
<1>2. IsFiniteSet(Ends)
  <2>1. f \in Surjection(Starts, Ends)
    BY DEF Surjection
  <2>. HIDE DEF f, Ends
  <2>. QED BY <2>1, FS_Surjection DEF FiniteText
<1>3. Max(Ends) \in Nat
  <2>. HIDE DEF Ends
  <2>. QED BY <1>1, <1>2, Largest
<1>4. end_address = Max(Ends) - 2
  BY DEF end_address
<1>. HIDE DEF Ends
<1>. QED BY <1>3, <1>4

LEMMA AheadFinite ==
    ASSUME FiniteText, NEW a
    PROVE  IsFiniteSet(Ahead(a)) /\ Cardinality(Ahead(a)) \in Nat
<1>1. Ahead(a) \in SUBSET Starts
  BY DEF Ahead
<1>2. IsFiniteSet(Ahead(a))
  BY <1>1, FS_Subset DEF FiniteText
<1>. QED BY <1>2, FS_CardinalityType

(* One instruction less lies ahead of the next one.                             *)
LEMMA AheadStep ==
    ASSUME FiniteText, SolidText, NEW a \in Starts, a <= end_address
    PROVE  /\ Cardinality(Ahead(a)) = 1 + Cardinality(Ahead(a + Code[a].len))
           /\ a + Code[a].len \in Starts \/ Ahead(a + Code[a].len) = {}
<1>. DEFINE z == a + Code[a].len
<1>1. /\ a \in Nat /\ z \in Nat /\ z > a /\ end_address \in Int
      /\ \A b \in Starts : b \in Nat
  BY SolidFacts, EndAddress, ProgramAssumption
<1>2. ASSUME NEW b \in Starts, b > a PROVE b >= z
  <2>1. b \in Nat
    BY <1>1
  <2>2. b \notin a + 1 .. a + Code[a].len - 1
    BY DEF SolidText
  <2>3. b \notin a + 1 .. z - 1
    <3>1. a + Code[a].len - 1 = z - 1
      BY SolidFacts
    <3>. QED BY <2>2, <3>1
  <2>. HIDE DEF z
  <2>. QED BY <1>1, <1>2, <2>1, <2>3
<1>3. z \in Starts \/ \A b \in Starts : b < z
  BY DEF SolidText
<1>. HIDE DEF z
<1>4. ASSUME NEW b \in Starts PROVE b >= z <=> (b >= a /\ b # a)
  BY <1>1, <1>2
<1>5. Ahead(z) = Ahead(a) \ {a}
  <2>1. ASSUME NEW b PROVE b \in Ahead(z) <=> b \in Ahead(a) \ {a}
    BY <1>4 DEF Ahead
  <2>. QED BY <2>1
<1>6. a \in Ahead(a)
  BY <1>1 DEF Ahead
<1>7. /\ Cardinality(Ahead(z)) = Cardinality(Ahead(a)) - 1
      /\ Cardinality(Ahead(z)) \in Nat /\ Cardinality(Ahead(a)) \in Nat
  <2>1. Cardinality(Ahead(a) \ {a}) = Cardinality(Ahead(a)) - 1
    BY <1>6, AheadFinite, FS_RemoveElement
  <2>. QED BY <1>5, <2>1, AheadFinite
<1>8. Cardinality(Ahead(a)) = 1 + Cardinality(Ahead(z))
  <2>. DEFINE c == Cardinality(Ahead(a))
              d == Cardinality(Ahead(z))
  <2>1. d = c - 1 /\ c \in Nat /\ d \in Nat
    BY <1>7
  <2>. HIDE DEF c, d
  <2>2. c = 1 + d
    BY <2>1
  <2>. QED BY <2>2 DEF c, d
<1>9. z \in Starts \/ Ahead(z) = {}
  <2>1. ASSUME \A b \in Starts : b < z, NEW b \in Ahead(z) PROVE FALSE
    <3>1. b \in Nat /\ b < z /\ b >= z
      BY <1>1, <2>1 DEF Ahead
    <3>. QED BY <1>1, <3>1
  <2>. QED BY <1>3, <2>1
<1>. QED BY <1>8, <1>9 DEF z

LEMMA NoLines ==
    ASSUME FiniteText, rip \in Starts
    PROVE  Lines(<<>>, 0)
<1>1. rip \in Nat
  BY ProgramAssumption
<1>2. NextAddr(<<>>) = rip
  BY DEF NextAddr
<1>. QED BY <1>1, <1>2, AheadFinite DEF Lines

LEMMA OneLine ==
    ASSUME FiniteText, SolidText, IInv, Unpatched, pc = "prompt", rip \in Starts,
           NEW n \in Nat, NEW l, Lines(l, n)
    PROVE  Lines(NextLine(l), n + 1)
<1>. DEFINE a == NextAddr(l)
<1>1. NextLine(l) = IF a > end_address \/ a \notin Starts THEN l ELSE Append(l, Decoded(a))
  BY DEF NextLine, NextAddr
<1>2. /\ l \in Seq({Own(b) : b \in Ahead(rip)}) /\ a \in Nat /\ a >= rip
      /\ a \in Starts \/ Ahead(a) = {}
      /\ Len(l) + Cardinality(Ahead(a)) = Cardinality(Ahead(rip))
      /\ Len(l) = n \/ (Len(l) < n /\ Ahead(a) = {})
  BY DEF Lines
<1>3. rip \in Nat /\ end_address \in Int /\ \A b \in Starts : b \in Nat
  BY ProgramAssumption, EndAddress
<1>4. Len(l) \in Nat
  BY <1>2
<1>. HIDE DEF a
<1>5. CASE a > end_address \/ a \notin Starts
  <2>1. Ahead(a) = {}
    <3>1. ASSUME a > end_address, NEW b \in Ahead(a) PROVE FALSE
      <4>1. b \in Nat /\ b >= a /\ b <= end_address
        BY <1>3 DEF Ahead
      <4>. QED BY <1>2, <1>3, <3>1, <4>1
    <3>. QED BY <1>2, <1>5, <3>1
  <2>2. NextLine(l) = l
    BY <1>1, <1>5
  <2>3. Len(l) < n + 1
    BY <1>2, <1>4
  <2>4. NextAddr(NextLine(l)) = a
    BY <2>2 DEF a
  <2>. QED BY <1>2, <2>1, <2>2, <2>3, <2>4 DEF Lines
<1>6. CASE a \in Starts /\ a <= end_address
  <2>. DEFINE k == Append(l, Own(a))
              z == a + Code[a].len
  <2>1. NextLine(l) = k
    <3>1. ~(a > end_address \/ a \notin Starts)
      BY <1>2, <1>3, <1>6
    <3>2. Decoded(a) = Own(a)
      BY <1>6, OwnLine
    <3>. QED BY <1>1, <3>1, <3>2
  <2>2. a \in Ahead(rip)
    BY <1>2, <1>6 DEF Ahead
  <2>3. k \in Seq({Own(b) : b \in Ahead(rip)}) /\ Len(k) = Len(l) + 1 /\ k[Len(l) + 1] = Own(a)
    BY <1>2, <2>2
  <2>4. Last(k) = Own(a) /\ k # <<>>
    BY <1>4, <2>3 DEF Last
  <2>5. Code[a].len \in Nat \ {0}
    BY <1>6, SolidFacts
  <2>. HIDE DEF k
  <2>6. NextAddr(k) = z
    <3>1. Last(k).addr = a /\ DOMAIN Last(k).bytes = 0 .. Code[a].len - 1
      BY <2>4 DEF Own
    <3>2. Cardinality(0 .. Code[a].len - 1) = Code[a].len
      <4>. DEFINE c == Code[a].len
      <4>1. c \in Nat \ {0}
        BY <2>5
      <4>. HIDE DEF c
      <4>2. Cardinality(0 .. c - 1) = c
        <5>1. 0 \in Int /\ c - 1 \in Int /\ ~(0 > c - 1) /\ (c - 1) - 0 + 1 = c
          BY <4>1
        <5>. QED BY <5>1, FS_Interval
      <4>. QED BY <4>2 DEF c
    <3>. QED BY <2>4, <3>1, <3>2 DEF NextAddr
  <2>7. /\ Cardinality(Ahead(a)) = 1 + Cardinality(Ahead(z))
        /\ z \in Starts \/ Ahead(z) = {}
    BY <1>6, AheadStep
  <2>8. Cardinality(Ahead(z)) \in Nat /\ Cardinality(Ahead(rip)) \in Nat
    BY AheadFinite
  <2>9. z \in Nat /\ z >= rip
    BY <1>2, <1>3, <2>5
  <2>10. Len(l) = n
    <3>1. a \in Ahead(a)
      BY <1>2, <1>6 DEF Ahead
    <3>. QED BY <1>2, <3>1
  <2>. HIDE DEF z
  <2>11. Len(k) + Cardinality(Ahead(z)) = Cardinality(Ahead(rip)) /\ Len(k) = n + 1
    BY <1>2, <1>4, <2>3, <2>7, <2>8, <2>10
  <2>. QED BY <2>1, <2>3, <2>6, <2>7, <2>9, <2>11 DEF Lines
<1>. QED BY <1>2, <1>3, <1>5, <1>6

(* Five rounds: the recursive function has the value the rounds have.            *)
LEMMA FiveLines ==
    ASSUME FiniteText, SolidText, IInv, Unpatched, pc = "prompt", rip \in Starts
    PROVE  Lines(Disassemble, 5)
<1>. DEFINE l1 == NextLine(<<>>)
            l2 == NextLine(l1)
            l3 == NextLine(l2)
            l4 == NextLine(l3)
            l5 == NextLine(l4)
            f == [n \in 0 .. 5 |-> IF n = 0 THEN <<>> ELSE IF n = 1 THEN l1 ELSE IF n = 2 THEN l2
                                   ELSE IF n = 3 THEN l3 ELSE IF n = 4 THEN l4 ELSE l5]
            Is(g) == g = [n \in 0 .. 5 |-> IF n = 0 THEN <<>> ELSE NextLine(g[n - 1])]
            F == CHOOSE g : Is(g)
<1>1. Disassemble = F[5]
  BY DEF Disassemble
<1>2. Is(f)
  <2>. HIDE DEF l1, l2, l3, l4, l5
  <2>1. /\ f[0] = <<>> /\ f[1] = l1 /\ f[2] = l2 /\ f[3] = l3 /\ f[4] = l4 /\ f[5] = l5
    OBVIOUS
  <2>2. ASSUME NEW n \in 0 .. 5 PROVE f[n] = IF n = 0 THEN <<>> ELSE NextLine(f[n - 1])
    <3>. HIDE DEF f
    <3>1. n = 0 \/ n = 1 \/ n = 2 \/ n = 3 \/ n = 4 \/ n = 5
      OBVIOUS
    <3>2. CASE n = 0
      BY <2>1, <3>2
    <3>3. CASE n = 1
      BY <2>1, <3>3 DEF l1
    <3>4. CASE n = 2
      BY <2>1, <3>4 DEF l2
    <3>5. CASE n = 3
      BY <2>1, <3>5 DEF l3
    <3>6. CASE n = 4
      BY <2>1, <3>6 DEF l4
    <3>7. CASE n = 5
      BY <2>1, <3>7 DEF l5
    <3>. QED BY <3>1, <3>2, <3>3, <3>4, <3>5, <3>6, <3>7
  <2>3. f = [n \in 0 .. 5 |-> f[n]]
    OBVIOUS
  <2>. HIDE DEF f
  <2>. QED BY <2>2, <2>3
<1>3. Is(F)
  <2>. HIDE DEF Is, f
  <2>. QED BY <1>2
<1>. HIDE DEF f, F, l1, l2, l3, l4, l5
<1>4. /\ F[0] = <<>> /\ F[1] = NextLine(F[0]) /\ F[2] = NextLine(F[1])
      /\ F[3] = NextLine(F[2]) /\ F[4] = NextLine(F[3]) /\ F[5] = NextLine(F[4])
  <2>1. \A n \in 0 .. 5 : F[n] = IF n = 0 THEN <<>> ELSE NextLine(F[n - 1])
    BY <1>3
  <2>2. F[0] = <<>>
    BY <2>1
  <2>3. \A n \in 1 .. 5 : F[n] = NextLine(F[n - 1])
    BY <2>1
  <2>. QED BY <2>2, <2>3
<1>5. Lines(F[0], 0)
  BY <1>4, NoLines
<1>6. Lines(F[1], 1)
  BY <1>4, <1>5, OneLine
<1>7. Lines(F[2], 2)
  BY <1>4, <1>6, OneLine
<1>8. Lines(F[3], 3)
  BY <1>4, <1>7, OneLine
<1>9. Lines(F[4], 4)
  BY <1>4, <1>8, OneLine
<1>10. Lines(F[5], 5)
  BY <1>4, <1>9, OneLine
<1>. QED BY <1>1, <1>10

LEMMA ListingHolds ==
    ASSUME FiniteText, SolidText, IInv, Unpatched
    PROVE  ListingTrue
<1>. DEFINE D == Disassemble
<1>. SUFFICES ASSUME pc = "prompt", rip \in Starts
              PROVE  /\ {D[k].addr : k \in DOMAIN D} \subseteq Ahead(rip)
                     /\ Len(D) = Min({5, Cardinality(Ahead(rip))})
                     /\ \A k \in DOMAIN D :
                           D[k].bytes = [j \in 0 .. Code[D[k].addr].len - 1 |-> "text"]
  BY DEF ListingTrue, Ahead
<1>1. Lines(D, 5)
  BY FiveLines
<1>. HIDE DEF D
<1>2. ASSUME NEW k \in DOMAIN D PROVE \E a \in Ahead(rip) : D[k] = Own(a)
  BY <1>1 DEF Lines
<1>3. ASSUME NEW k \in DOMAIN D
      PROVE  /\ D[k].addr \in Ahead(rip)
             /\ D[k].bytes = [j \in 0 .. Code[D[k].addr].len - 1 |-> "text"]
  <2>1. PICK a \in Ahead(rip) : D[k] = Own(a)
    BY <1>2
  <2>2. D[k].addr = a /\ D[k].bytes = [j \in 0 .. Code[a].len - 1 |-> "text"]
    BY <2>1 DEF Own
  <2>. QED BY <2>2
<1>4. Len(D) = Min({5, Cardinality(Ahead(rip))})
  <2>. DEFINE c == Cardinality(Ahead(rip))
              d == Len(D)
              r == Cardinality(Ahead(NextAddr(D)))
  <2>1. c \in Nat /\ r \in Nat /\ d \in Nat /\ d + r = c
    BY <1>1, AheadFinite DEF Lines
  <2>2. d = 5 \/ (d < 5 /\ r = 0)
    BY <1>1, FS_EmptySet DEF Lines
  <2>. HIDE DEF c, r, d
  <2>3. Min({5, c}) = IF c < 5 THEN c ELSE 5
    BY <2>1 DEF Min
  <2>4. d = Min({5, c})
    BY <2>1, <2>2, <2>3
  <2>. QED BY <2>4 DEF c, d
<1>. QED BY <1>3, <1>4

(* What sdb lists at the prompt is the program: the next five instructions with    *)
(* their own bytes, whatever breakpoints are set, lifted or deleted among them,     *)
(* for every program text without gaps, word width and number of breakpoints.      *)
THEOREM ListingIsTrue ==
    ASSUME FiniteText, SolidText PROVE CarefulSpec => []ListingTrue
<1>1. Init => IInv /\ Unpatched
  BY InitInv, UnpatchedInit
<1>2. (IInv /\ Unpatched) /\ [CarefulNext]_vars => (IInv /\ Unpatched)'
  BY StepInv, UnpatchedStep
<1>3. IInv /\ Unpatched => ListingTrue
  BY ListingHolds
<1>. QED BY <1>1, <1>2, <1>3, PTL DEF CarefulSpec
=============================================================================
