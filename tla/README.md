# Formal models of nycu_112_up

TLA+ specifications, TLC runs and TLAPS proofs for the programs of this
repository that keep state and meet concurrency, faults or tricky orders: the
maze character device of lab02 with its generator, draft, loading and test
script, the maze solver of lab03, the debugger `sdb` of hw03, the call logger of
hw01 and the GetFlag job service of lab04.  Paths are relative to the repository.

## 1. Inventory

| component | source | state | hard behaviour | modules |
|---|---|---|---|---|
| maze device driver | `lab02/hand_in_version/maze.c`, `maze.h` | slot table (`pids`, `maze_user_info`), heap blocks, `maze_mutex`, `error_no`, `only_for_q3`, function-local `static` variables shared by all processes; what init has registered | handlers of several processes interleave; the mutex covers `MAZE_CREATE` and `del_user` only; full table; failing `kmalloc`, user copies and registrations; a random construction that may not end | `MazeDevice`, `SlotLending`, `MCMazeDevice`, `MazeDeviceProofs`, `MazeIsolationProofs`; `MazeGen`, `MazeGenProofs`; `DriverModule` |
| device clients | `lab02/mazemod/mazetest.c`, `lab02/hand_in_version/maze_q3.c`, `lab02/dist/rootfs/run.sh` | a local simulation of the random walk; child processes | expectations about a shared device; children that outlive the test | in `MazeDevice` (`Expect`, `RandomWalkCheck`); `MazeTest` |
| driver draft, prototype | `lab02/mazemod/mazemod_backup.c`, `lab02/m_test.py` | slots that carry their pid, `num_users` beside them, bare slots after `MAZE_DESTROY` | second slots, counting apart from the table | `DraftDevice`, `MazeGen` |
| hello module | `lab02/hellomod` | what init has registered | a class name shared with the driver | `DriverModule` |
| sdb debugger | `hw03/hand_in_version/sdb.c` | breakpoint table, `bp_again`/`which_bp`, `enter`/`pre_orig_rax`; text and registers of the tracee | order of lifting and re-setting INT3s, rip corrections, word-wide pokes, tracee exit in any wait, what listings show | `Sdb`, `Debugger`, `Program`, `MCSdb`, `SdbProofs` |
| GetFlag job service | `lab04/backups/challenge#2.c` | job list, two status lines, mutex, condition variable, sockets | menu thread and two workers; signal after unlock; spurious wakeups; retries and descriptor use | `JobService`, `MCJobService`, `JobServiceProofs` |
| maze solver library | `lab03/hand_in_version/libsolver.c`, `libmaze_dummy.c`, `maze.c`, `moves.c` | visited marks in the grid, moves by depth, the program's GOT | bounds of the move array, stale entries of branches given up, replay through patched entries | `Solver`, `MCSolver`, `SolverProofs` |
| library call logger | `hw01/hw1_hiddencase/logger_solver.c`, `logger.c` | blacklists, streams, a static name buffer, log files; the words of a command line | the original call comes before the refusal; patterns, links, short reads; words paired while parsing | `Logger`, `Launcher`, `CallLogProofs` |
| fortune service | `lab04/backups/challenge#1.c` | one global file name read by a thread per request | the name changes under a running thread | not modelled |
| lab01/hw02/lab04 scripts and snippets, lab05 shellcode | `lab01`, `hw02`, `lab05` | none of their own | - | not modelled |

`Labs` runs `MazeGen`, `Logger`, `Launcher`, `DriverModule`, `DraftDevice` and
`MazeTest` side by side, `MCLabs` gives it small values, `LabsProofs` proves what it
promises.

`lab02/dist` is the vendored kernel build and root file system, the `backup(s)`
directories hold earlier copies of the same programs (the job service exists
only there), `hw01/*.html` and `lab03/*.html` are the course's task texts.

How the parts interact: clients reach the driver by system calls and see its
state only through `GETPOS`, `GETSIZE`, `read` and `/proc/maze`; what they may rely on about slots is
`SlotLending`, which `MazeDevice` implements, and what the
device relies on about mazes (`LayoutAssumption`) is what `MazeGen` checks; `sdb` and its
tracee share memory and registers through `ptrace` and alternate at `waitpid`;
the job service's threads share the queue and the status lines under one mutex.

## 2. Modules

### MazeDevice

One action per stretch of a handler between two points where another process
can run: `mutex_lock`, `kmalloc`, `copy_from_user`, `copy_to_user`, `kfree`,
`seq_printf`, and each re-read of a shared word.  `pc[p]` is the place of process
`p` in its handler, `loc[p]` its registers.  Which static variables a handler
re-reads and which it holds in a register was taken from the build kept at
`lab02/dist/rootfs/verify/maze.o`, because the C text leaves it to the compiler:
`ioctl` re-reads `index` only after the `kfree` of `MAZE_DESTROY`; `read` and
`write` re-read theirs after `kmalloc` and the user copies.

* `pids`, `info` (maze_user_info), `error_no`, `only_for_q3`, `mutex`: the globals.
  `heap` maps a block to `Freed`, `Raw` (allocated, not yet written) or a maze.
* `index`, `tmp`, `coord_move` (ioctl), `read_index`, `write_index`, `proc_i`,
  `gmaze` (the static maze of generate_maze): the statics.
* `Open`, `Close`, `DelLock`, `DelFree`, `DelClear`: open, release and `del_user`.
* `Create`, `CreateLock`, `CreateCheck`, `FindSlot`, `ClaimSlot`, `Alloc`, `Generate`,
  `StoreMaze`: `MAZE_CREATE` and `create_maze`; `Q3` enters the same path unlocked.
* `MazeRequest` is the `have_maze` test of the other requests, which then act in
  `Reset`, `Destroy`/`DestroyNull`, `Get`/`GetCopy`, `MoveCopy`/`MoveUse`/`MoveTest`/`StoreX`/`StoreY`.
* `Read`…`ReadRet`, `Write`…`WriteStep`, `ProcRead`…`ProcShow`: the file operations.
* A move is any `coord_t`, a pair of ints that wrap at `HALF`, as the driver tests
  nothing of it but the byte it leads to.  `Offset` is the distance of that byte from the
  start of `blk`: a column left of the grid is a byte of the row before.  `ReadsOpen` and
  `ReadsWall` say what is known of it.  Where it lies beside the grid, in what older
  mazes left of `generate_maze`'s static, or outside `blk`, in other memory, the move may
  be taken or not; outside `blk` it is recorded as `stray`, and the process may die of it.
* `Oops`: a step that would use a null, freed or unwritten block or a slot outside
  the table.  The kind is recorded in `fault`, the process leaves its handler; what
  stale memory would have supplied is not followed further.
* `view` is history: the maze the last successful create gave the process, with the
  moves its client sent applied by the client's own rule (mazetest.c 215-221).  A move off
  the grid, which that client stays away from and never draws, makes the position `Lost`
  until the next reset or create.

A maze is a size, a start, an end and its open cells.  `LayoutAssumption` states
what `generate_maze` guarantees (start and end open and different, border walls);
its random depth-first construction is one nondeterministic step.

### Sdb, Debugger, Program

`Program` is the debugged program as instructions at addresses.  `Sdb` models the
debugger's commands and the tracee: `Si`, `Cont`, `Syscall` begin a command, the
`Tracee…` actions run one instruction each until the stop that `ptrace` reports,
and `SiRearm`, `SiDone`, `ContRearm`, `ContAgain`, `ContDone`, `SyscallRearm`,
`SyscallDone`, `HbSi`, `HbCont`, `HbSyscall` are what sdb does after each `waitpid`.
`HandleBreakpoints` is the function of that name
(with its two ways on, `Skip` and `Hit`), `Disassemble` what sdb lists at a stop, a
`NextLine` at a time, and `PrintBreakpoints` is `info break`.  Memory is bytes and a
saved `original_code` is a word of them, because deleting a breakpoint writes the
whole word back.  `SetBreakpoints`, `DeleteBreakpoint`, `PatchMemory` are the edits; what
a patch leaves in a byte of the text is `Patched`.
The tracee's actions are external: x86 and the kernel's ptrace, as sdb uses them.

`Debugger` is the abstract promise: a set of breakpoints, a program counter, and
commands that run exactly one instruction or up to a breakpoint.  `Seen` in `Sdb`
maps one to the other: while an INT3 stop waits to be handled `at` is rip - 1,
`breaks` are the addresses of active entries, lifting and re-setting an INT3 and
moving rip back are stutters.

`CarefulSpec` restricts what the user types, not what sdb does: no breakpoint at
the current rip, no delete of the breakpoint just hit, of a deleted entry, or of
one whose saved word reaches over another breakpoint.  Outside this discipline the
code departs from its promise: deleting a lifted breakpoint lets the next
command set its INT3 again, an overlapping delete wipes a neighbour's INT3, and
the skipped breakpoint at rip loses hits (run `sdb_hits`).  `sdb_all` has no such
restriction, and no refinement claim either.

### JobService

`AddJob`, `Push`, `Signal`, `Show`, `Quit` are the menu thread; `WorkerLock`,
`GetJob`, `PopJob`, `Spurious` are `threadproc` with `pthread_cond_wait` as a wait
set and a set of woken threads; `Check`, `Socket`, `Io`, `Retry` and the status
updates `UpdateLock`, `Update` are `do_job`.  A worker's two rounds are counted in
`i`, and the place to return to after a status update is `next`.  A job's text is its
number; what the network answers is nondeterministic, and `Io` may never return.

### MazeGen, SlotLending, DriverModule, MazeTest, DraftDevice

`MazeGen` is `generate_maze` in the driver's, the draft's and the prototype's version
(`version`): `Pick` draws the ends, `Deeper` and `Back` are `dfs` with its recursion as
the sequence `trail`, `PlaceEnd` and `Walls` what follows.  A loop that draws until a
condition holds is one step, enabled only where a good value exists.

`SlotLending` is the abstract slot table.  A client asks, and is lent one free slot or
sent away; it leaves, and the slot it holds is free again.  Who asks and who leaves is
part of its state, so that a slot changes hands only for the client that has begun the
call, and one asking is worth one slot.  `MazeDevice` refines it (`LendsSlots`) by reading
`pids` as `owner`, the processes before the claim of a create as `asking`, those in
`del_user` as `leaving`.

`DriverModule` is insmod and rmmod of `maze.c` and `hellomod.c`, one step per call of
the kernel, with each call failing as the kernel reports failure (an error pointer,
which the code's tests for NULL let pass).  `Open`, `Close`, `ReadProc`, `ReadDone` are
the users who pin a module or sit in its /proc functions.

`MazeTest` is `run.sh` with mazetest's cases on a slot table taken a request at a time: `Fork`
and `Kill` of case 4 (a killed child dies at once, or not at all if it waits for a
`maze_mutex` that nobody will unlock, `CanWait`), `Create` with the full table and the 3 x 3 maze that never ends,
`Exit` with the `error_no` that makes a release skip `del_user`.

`DraftDevice` is the draft driver, a request at a time.  `Bare` is the struct that
`MAZE_DESTROY` leaves; what `kmalloc` left in it decides, nondeterministically, whether
an index computed from it is wild.  Its moves are any pairs of integers, too; it keeps no
row of a far position apart from another: off the grid a position is `Outside`, from where
a move leads anywhere but onto a wall.

### Solver

`ReadElf`, `Load`, `Try`, `GiveUp`, `Solve`, `CheckPath` are the preloaded `maze_init` and
`maze_load`: `frames` are the active calls of `dfs`, `dirs` is `move_directions`, `gotAt`
is `got_entries_to_move_n` and `got` the program's table.  `Move` is one `move_n` call of
`main`, through the entry; an entry not patched draws a random direction.

### Logger, Launcher

`Logger` has one action per wrapped function.  Names are sequences of characters because
`compare_blacklist` and `handle_filename` work on them; `only_filename` is the static
buffer with what earlier names left in it.  `Fopen` and `Fwrite` act before they refuse, as
the wrappers do.  `Path` is the absolute path that `/proc/self/fd/N` gives for an open
stream: the blacklist of `fwrite` and the names of logs go by it, those of `fopen` by the
name the program used.  `Fread` has the memory at `ptr` as a sequence of words: what was
got, and `behind` it what lay there before.  The list is looked for in the words asked for
(`CheckedWords`), the log gets the string that starts at `ptr`.  `Launcher` takes `parse_args` one branch per action.

### Labs

`Labs` extends `MazeGen` and holds an instance of each of the other small components.
`turn` says whose step it is; a step is a step of that component's `Next` and leaves
the others as they are, so that what is proved of a component holds in `Labs`.

## 3. Runs

| run | specification and instance | shows |
|---|---|---|
| `maze_ioctl` | 2 processes, 2 slots, create/reset/move/getsize, far moves, 2 layouts | types, no bad memory use, positions on no wall, slots and heap agree, a maze stays its creator's, slots change hands only by their owner; refinement of `SlotLending` |
| `maze_slots` | 3 processes, 1 slot, create and close, fair | every handler returns, also when the table is full |
| `maze_sequential` | 1 process, 3 slots, 2 blocks, all requests, moves out of `blk` | only null pointers and bytes of far moves go wrong; mazetest's walk ends where expected |
| `maze_walk_race` | 2 processes, write and getpos | violated: mazetest's own check fails with a second client |
| `maze_leak` | 2 processes, 1 slot | violated: a slot outlives its owner after a refused create |
| `sdb_steps` | loop of 4 instructions, word of 2, 3 breakpoints, careful user | INT3s match the table, none is listed, no derailment, refinement of `Debugger` |
| `sdb_all` | straight program with two equal system calls, 2 breakpoints, a patch, all commands, fair | types; every command comes back, ends the session or has derailed the program |
| `sdb_hits` | loop, any order of break | violated: a stop on a breakpoint not reported |
| `sdb_syscalls` | straight program | violated: an entry reported as leave |
| `job_queue` | 2 workers, 3 jobs, 2 descriptors, fair | FIFO, one worker per job, sockets accounted, no lost wakeup, jobs taken |
| `solver` | every set of roads in a 4 x 5 grid with 2 starts and 2 ends, 4 functions, 2 linkings, fair | a path is found iff there is one; marks are gone; the replay follows it; overflow only with more cells than entries; the program ends |
| `labs` | see below | generator, draft, loading, test script, logger and launcher |

Why the bounds are enough to meet the cases: two processes are the least that
race, three on one slot make the table full and two wait for the mutex at once;
the 3 x 5 maze has the two odd cells `generate_maze` needs, so both
assignments of start and end occur, and a wall beside every cell.  Ints of -5 .. 4
(`HALF`) hold the 5 x 5 of `blk` and wrap: `maze_ioctl` moves along the corridor and by
<<-5, 0>>, which leaves the grid through the bytes of the row before and, wrapping, comes
back; `maze_sequential` by <<0, -5>>, out of `blk` and back.  `WriteUnit` 2
for the 8 of the code keeps a refused, an empty and a full batch.  A ptrace word of
2 bytes already covers a neighbouring breakpoint (8 would cover more of them); the
programs have one- and two-byte instructions, a self-contained loop, adjacent
breakpoints and a breakpoint on a system call.  Three breakpoint entries allow a
deleted, a lifted and an armed one at once, or a skipped one between two others.
Two descriptors are used up by two answers, and a third job then meets a failing
`socket()`.  `maze_ioctl`, `maze_sequential`, `maze_walk_race` and `maze_leak` use a
VIEW that forgets a static variable nobody is about to read; each is written
before it is read again, so states that agree in the view behave alike.  No
SYMMETRY is used where a liveness property is checked.  `CHECK_DEADLOCK FALSE`
stands where the system ends: the tracee exits, or the user quits the service.

In `solver` the longest branch has six cells and `move_directions` four entries, so
that it can overflow; the two linkings have the entries in order and permuted among
others.  `labs` (`MCLabs`, constants for `Labs`) interleaves nothing: its components
share no state, one of them runs (`turn`), the others rest.  Its sizes include sides of 1
and 2, the 3 x 3 that never ends, an even side, and up to six odd cells.  The logger has a long and a short
name, one in a directory and a link to it, patterns with and without `*`, and a buffer of
8 characters for the 100 of the code; its `write` list has a relative name without a star,
which no write matches, beside one that does; the memory behind a read holds a word of the
list or nothing (`Behind`).  Nothing is logged once the logs hold a word (`MaxLogged` = 1),
which is enough because a word carries the file it came from and whether it was asked for;
a single read may still log several.  The launcher gets up to three words
of every kind, alone and after the usual beginnings.  The draft has two processes, of which one uses
`MAZE_DESTROY`, on two slots, and moves of one cell, along the grid, and far off it.  The test script is run with its own numbers: four
children, three slots, seven cases.

Fairness.  Kernel handlers run on (WF of `Handler(p)`), and a kernel mutex queues
its waiters, so the two lock steps are strongly fair; no process has to make a call.
sdb and the tracee run on, the user may stop typing.  Service threads run on and
a mutex does not starve a thread that keeps trying; nothing is assumed of the network,
of spurious wakeups or of the user.  `Solver`, `MazeGen` and `MazeTest` are weakly fair in
their next step: one thread that never waits, and a script that starts the next command;
a random draw that is repeated until it is good succeeds with probability one.

Seeded faults.  A definition commented `seeded fault` is what a plausible slip would
make of the definition after it (a lock that does not wait, a missing unlock, an
INT3 not set again).  No specification uses one; put in the place of the real
definition, each makes TLC refute the property that PROJECT.json pairs it with.

## 4. Findings

1. `maze_walk_race`: `write` keeps its slot index in a static variable
   (maze.c:130), re-read after `copy_from_user`; the check mazetest.c makes at
   line 228 fails when another client writes meanwhile.
2. `maze_leak`: `error_no` is global; the close of any process consumes it
   (maze.c:92) and skips `del_user`, whose comment (line 60) promises to release all
   resources of a process.
3. `sdb_hits`: after skipping the breakpoint at rip only entry `i+1` of the table
   is compared (sdb.c:255), though the comment at 251 asks for any breakpoint.
4. `sdb_syscalls`: the toggle is corrected only when the system call's number
   differs (sdb.c:862), though line 777 ticks the general case as done.

## 5. Proofs

Every theorem holds for all values of the constants that meet the ASSUMEs of its
module; what it assumes beyond them stands in its own ASSUME.  Every invariant and
every action property of the passing runs, and both refinements, are stated by one.

`MazeDeviceProofs` (any processes, slots, blocks, sizes and layouts):

* `TypeCorrect`: `Spec => []TypeOK`.  Inductive with `MazeBuilt` (whoever is about to
  store a maze finds one in the static `gmaze`), since `gmaze` starts empty.
* `OwnersRelease`: if `ONLY_FOR_Q3` is not used, a slot in use is only ever released,
  by its owner, in `del_clear`, holding the mutex.  The assumption is needed:
  that request claims slots without the lock.  The inductive invariant adds
  `LockDiscipline`: who is in a locked stretch holds the mutex, and the slot
  it is about to claim is still empty, or the one it is about to clear is its own.
* `DeviceUnlocks`: for any requests, whoever holds `maze_mutex` is between its lock and its
  unlock, as long as no `kmalloc` has failed: a process that dies on that null pointer does
  take the mutex with it.  This is the safety part of `HandlersReturn`.

`MazeIsolationProofs` has two parts.  The first is about any number of processes that use
the ioctl requests, on a machine with memory for every slot: `SlotsStayConsistent`,
`NothingFaults`, `PositionsOpen`, `MazesStay`, `DeviceLends`.  `ioctl` shares `index`, `tmp` and
`coord_move` among all processes and takes no lock outside `MAZE_CREATE`; that each
process still finds its own maze is what has to be shown.  Moves are any pairs of ints:
`NothingFaults` is about null, freed and unwritten blocks and slots outside the table, and
leaves the byte of a far move; `PositionsOpen` says that a position is on no wall, which
for one on the grid is an open cell, although the move tested and the one overwritten in
`coord_move` may be different callers'.  A footprint lemma per action
says that a process changes only its own slots and blocks and empty ones; the invariant is
`Isolated == Shared /\ \A p : Mine(p)`, where `Mine(p)` says what `p` may rely on at its
place in a handler.  The step lemmas show `Mine(p)` for the process that moves, the
footprint carries it over for the others, and a pigeonhole argument finds a free block
for `Alloc`.  The conditions are needed: `MAZE_DESTROY` re-reads the static `index` after
`kfree`, read and write re-read theirs after a copy, `ONLY_FOR_Q3` claims unlocked, and
a failed `kmalloc` leaves a slot with a null pointer.  In `DeviceLends` the first step of
`MAZE_CREATE` is `Ask`, `ClaimSlot` is `Lend`, its refusals are `SendAway`, the first of
`del_user` is `Leave` and `DelClear` is `GiveBack`; every other step stutters.  That a
process is never lent a second slot is what takes the whole of `Isolated`, and why
`MAZE_DESTROY` is out: a create after it does take a second one.

The second part is about one process alone, with all requests and file operations and any
`kmalloc` failing: `AloneOnlyNull` and `AloneWalks`.  Its invariant `Alone` has `Table`
(an empty slot has no block, a block hangs in one slot, and is freed or unwritten only
while the handler is about to clear or fill it), `Using` and `Changing` (what a handler
has read and holds is still so), `First` (a process that expects a maze has slot 0, the one
that `get_user_index` finds first, whatever slots later creates add) and `Account` (the
maze behind slot 0 is the one the client computes for itself, as long as no move has led it
off the grid, but between the read of a
move and its second store, where it is one step behind).

`MazeGenProofs` (any sides, all versions): `GenTypes`, `WallsClose`, `NothingCutOff`,
`MazesSpan`, `GeneratorStops`, `DrawsSucceed`.  `Hangs` keeps the open cells connected as
`dfs` opens two at a time.  `Explored` says of every open odd cell that it is on the trail
or has no unopened odd neighbour, so that when the trail is empty the open odd cells are
closed under steps of two; `OddCellsLinked`, by well-founded induction on the distance of
two odd cells, makes them all.  `Counted` pairs each opened odd cell with the one wall
opened to reach it.  In the driver's version `WallsClose` and `MazesSpan` are what
`LayoutAssumption` of the device takes for granted.  `GeneratorStops` gives a measure, the
walls left and the length of the trail, that every step lowers, and `DrawsSucceed` a good
value wherever a loop draws until it has one: together the safety part of `Builds`.

`SolverProofs` (any walled maze, number of moves and linking): `SolverTypes`,
`SearchFindsAll`, `MarksGone`, `ReplayFollowsPath`, `OverflowIsRare`, `DirsLead`,
`NothingRepeats`.  One inductive invariant: `Path` and `Visited` (the active calls are a
path without repetition, and marked), `Explored` (what `dfs` has left or tried is marked
around, so a failed search has marked everything reachable), `Reached` (it only marks what
can be reached), `Depth`, `Entries` and `Replay` (the entries patched are those the program
calls, in order).  `OverflowIsRare` is the pigeonhole principle on `Visited`; that no
neighbour lies outside the grid follows from the wall around it.  `NothingRepeats` is the
safety part of `Ends`: each step lowers the pair of `Phase` and `Work`, the unmarked cells
and active calls of the search or the calls left in the replay.

`SdbProofs` (any program text, any width of a ptrace word, any number of breakpoints):

* `SdbTypes`: `[]TypeOK` for a user who gives any command, delete and patch in any order;
  the program and the patches are finite and nothing lies at the addresses 0 and 1
  (`FiniteProgram`), which rip -= 2 needs.  The invariant `AnyInv` follows rip: wherever sdb
  will take 1 from it, the byte before is an INT3 in the text, and INT3s are only where a
  breakpoint may be set (`AnyText`, `AnyTable`, `Stops`); `AnyPlace` keeps `which_bp` and the
  index of the breakpoint being handled inside the table.

The others are about the user of `CarefulSpec`, without patches (`FiniteText`):

* `BreakpointsArmed`: `[]Armed`.  The inductive invariant is `Table` (one active entry an
  address, an INT3 inside a saved word belongs to another entry) and `Text` (at each place
  of the debugger, which entries have their INT3 in the text: all, or all but the lifted).
* `ListingIsTrue`: `[]ListingTrue`, for a text whose bytes each belong to one instruction
  of at most two words (`SolidText`).  `Table` says which bytes of the text are INT3s and
  what lies under them, so `NextLine` decodes each line from the program's own bytes; the
  five lines are five uses of that step.
* `StepsLikeDebugger`: sdb refines `Debugger`, and `ProgramNeverDerails`: `[]NeverLost`,
  for programs as in `PlainText` and without the command `syscall`.  `Course` follows rip,
  `mode` and `moved` through the waits.  An INT3 hit, the re-arming step's bookkeeping and
  the setting back of rip are stutters; a command is `Resume`, an instruction `Execute`,
  the return to the prompt `Stop`.  The conditions are needed: after an
  instruction that jumps to itself the second step of `cont` (sdb.c 721) meets the INT3 set
  again, and `ContAgain` runs on from behind it, into the instruction; and a system call
  stop may leave rip on a breakpoint that is set, which run `sdb_all` covers without
  the refinement.

`JobServiceProofs` (any workers, jobs and descriptors): `JobTypes`,
`QueueIsFifo`, `JobHasOneWorker` and `SocketsAreAccounted` follow from one inductive
invariant `IInv`.  Its parts: `Critical` (who is between lock and unlock holds
the mutex), `Numbered` (jobs are pushed in the order of their numbers, so
the front is number `Len(taken) + 1`), `InHand` (a worker holds a job already taken,
or the front between `front()` and `pop_front()`), `Answers` (an answered
job is in hand only for its last status line, so no job is answered twice), and
`SocketsAccounted`, which also gives the lower bound on `fds` that the type
invariant needs at `close()`.  Two more theorems are the safety parts of `NoLostWakeup` and
`JobsTaken`.  `WakeupsSuffice`: while a worker sleeps, there are at least as many workers on
their way to the queue, with the signal still owed, as there are jobs in it; `Asleep` (the
waiters and the woken are those at `wait`, none is both) makes it inductive.
`MutexGivenBack` is `Critical` and its converse.

`CallLogProofs` (any names, links, words, blacklists and command lines):

* `NothingBlockedPasses`, `LogsAreFaithful`, `LoggerTypes`.  `GlobStops` shows that
  `compare_blacklist`'s loop stops at a star or the end of every name a pattern stands for,
  with any number of stars; the invariant `Entries` says of every word of a log that the
  log's name begins with the stem of its file, for which `BufferIs` follows what the static
  buffer keeps of earlier names, and of a word of the list in a read log that it lay behind
  the words asked for.
* `LauncherKeepsCommand`, `LauncherTypes`, for argument vectors of any length.
  The invariant has two parts: up to the command (`ToCommand`) nothing is kept and each
  flag has met its value; past it (`PastCommand`) the words kept are those between the
  command and `cnt`, in order.

`LabsProofs` (any values of the constants of each component):

* `LoadingIsClean`, `LoadingTypes`: `HeldAt` says what is registered at each place of init
  and exit, `OneClass` that the class name has one holder.
* `DraftKeepsServing`, `DraftTypes`: `SlotsOk` joins the count of the slots in use with what
  a client's slot holds, a position on no wall among it; each request leaves the slots alone (`Quiet`), rewrites a slot of
  its caller (`Rewrite`), takes one or frees one.  `WalkStays` follows a batch of any length.
* `LossesArePaid`, `TestTypes`: `Owners` says who can have a slot and who the device open,
  `Paid` that each lost slot and a pending `error_no` are matched by a refused create.
* `LabsTypes`, `LabsSafe`, `ReadKeepsPlace`: `SideBySide` shows that `Labs` implements the
  specification of each component, so all the above hold in it.

Only model-checked are the liveness properties (`HandlersReturn`, `CommandsReturn`,
`NoLostWakeup`, `JobsTaken`, `Ends`, `Builds`, `OnlyLastStays`): the prover has neither
ENABLED nor fairness.  Where such a property rests on a safety argument, a measure that
falls, a mutex that is given back, a wakeup that is on its way, that argument is proved.
`CommandsReturn` and `OnlyLastStays` have no such part beyond the invariants above.

## 6. Not modelled

* The fortune service: an exam program whose race is its exercise; its only shared
  state is a file name.
* The clients' drawing of mazes; a descriptor shared by `fork`; the buffers of `read` and
  `write` other than their sizes (`write` never frees its own, `read` not when its copy fails).
* What lies beside the grid and outside `blk`: a move there is taken or not, and what an
  access does there besides killing its process is not followed.  After a move off the
  grid nothing is said of where the client thinks it is.
* Two readers of the shared statics at once (no run states anything of them), and
  `MAZE_DESTROY` with several processes (its re-read of `index` does go wrong there).
* Stale contents after a fault; a tracee's course after it derails.
* `info reg`, `help` and `q` of sdb; errors of ptrace on a live tracee; signals other than
  SIGTRAP; a table of more than ten entries.  A patch that reaches behind the first byte
  of an instruction with a breakpoint is kept in memory but neither in the listing
  nor after a delete; `ListingTrue` is checked and proved without patches.
* Parsing and resolving of a job's address, and the static result of
  `gethostbyname2` the two workers share.
* A libmaze.so without `move_up` and its like: the solver goes on (libsolver.c 69) and would
  patch null addresses.
* Of the logger, words are whole: a word cut by the end of the bytes asked for, or a path
  cut by the 64 bytes for `/proc/self/fd/N`, is not in the model.  The content logged of a
  short read is not promised to be the file's, nor free of the list's words: the code looks
  only at what was asked for.
* Threads in the logged program; lists longer than the arrays of the logger; the
  null bytes that `handle_symbolic_link` writes one past its buffers.  A name shorter than
  the one before leaves that one's tail in the static buffer when it has an extension:
  `LogsFaithful` therefore asks only that a log's name begin with its file's.
* Further copies of the same programs (`backup`, `backups`, `hw1_hiddencase_original`,
  `hw3_testncase`).

## 7. Plan

Done: the device with its isolation, its generator, its loading and its test script; the
draft; the solver; the debugger with its listing; the logger and its launcher; the job
service.  Left, in this order:

1. `Sdb` for a user who does set breakpoints at rip, delete lifted ones or use `syscall`:
   which part of `RunsLikeDebugger` survives, and an abstract debugger with system call stops.
2. `MazeDevice` with several readers and writers at once: what the shared statics of
   `read` and `write` still guarantee.
3. Threads in the logged program; the request threads of the fortune service.
