----------------------------- MODULE JobService -----------------------------
(***************************************************************************)
(* The GetFlag service of lab04 (src/lab04/backups/challenge#2.c): a menu  *)
(* thread that queues jobs, and worker threads that take them and fetch    *)
(* from the server a job names.  One mutex guards the queue and the status *)
(* lines; one condition variable tells the workers of a new job.           *)
(*                                                                         *)
(* A job stands for the string the user typed, "a/p", and is numbered in    *)
(* the order of typing; what the network answers is a nondeterministic     *)
(* outcome of each call.  The threads interleave at every acquisition of   *)
(* the mutex and at every system call.                                     *)
(***************************************************************************)
EXTENDS Integers, Sequences, SequencesExt, FiniteSetsExt

CONSTANTS
    Workers,     \* the thread ids (0 and 1)
    Main,        \* the menu thread
    Free,        \* the holder of an unlocked mutex; "no job", the code's ""
    MaxJobs,     \* bound: how many jobs the user queues
    MaxFds       \* sockets the process can have open

Jobs == 1 .. MaxJobs

ASSUME ThreadAssumption ==
    /\ Main \notin Workers /\ Free \notin Workers \cup {Main} /\ Free \notin Jobs
    /\ IsFiniteSet(Workers) /\ MaxJobs \in Nat /\ MaxFds \in Nat

VARIABLES
    mutex, jobs, status,     \* the globals
    waiting, signalled,      \* threads in pthread_cond_wait, and those woken
    main_pc, main_s,         \* the menu thread: where it is, add_job's argument
    pc, s, i, next,          \* per worker: where, its job, do_job's loop, where
                             \* update_status returns to
    fds,                     \* sockets open in the process
    added, taken, fetched    \* history: jobs in order of push_back and of
                             \* pop_front; jobs an answer was read for

menu    == <<main_pc, main_s>>
worker  == <<pc, s, i, next>>
history == <<added, taken, fetched>>
vars == <<mutex, jobs, status, waiting, signalled, menu, worker, fds, history>>

Init ==
    /\ mutex = Free /\ jobs = <<>>
    /\ status = [w \in Workers |-> Free]
    /\ waiting = {} /\ signalled = {}
    /\ main_pc = "menu" /\ main_s = Free
    /\ pc = [w \in Workers |-> "lock"]
    /\ s = [w \in Workers |-> Free] /\ i = [w \in Workers |-> 0]
    /\ next = [w \in Workers |-> "lock"]
    /\ fds = 0
    /\ added = <<>> /\ taken = <<>> /\ fetched = {}

Running == main_pc # "exited"
At(w, l) == Running /\ pc[w] = l
Goto(w, l) == pc' = [pc EXCEPT ![w] = l]

LockNoWait(t) == mutex' = t                    \* seeded fault: not waited for
Lock(t) == mutex = Free /\ mutex' = t
Unlock == mutex' = Free

-----------------------------------------------------------------------------
(* The menu thread. *)

AddJob(j) ==        \* [g], add_job up to the lock
    /\ main_pc = "menu" /\ j = Len(added) + 1
    /\ Lock(Main) /\ main_pc' = "push" /\ main_s' = j
    /\ UNCHANGED <<jobs, status, waiting, signalled, worker, fds, history>>

PushFront == jobs' = <<main_s>> \o jobs        \* seeded fault
PushBack  == jobs' = Append(jobs, main_s)
Push ==
    /\ main_pc = "push" /\ PushBack
    /\ added' = Append(added, main_s)
    /\ Unlock /\ main_pc' = "signal"
    /\ UNCHANGED <<status, waiting, signalled, main_s, worker, fds, taken,
                   fetched>>

SignalNobody == UNCHANGED <<waiting, signalled>>   \* seeded fault
SignalOne ==
    \/ waiting = {} /\ UNCHANGED <<waiting, signalled>>
    \/ \E w \in waiting : /\ waiting' = waiting \ {w}
                          /\ signalled' = signalled \cup {w}
Signal ==           \* after the unlock
    /\ main_pc = "signal" /\ SignalOne
    /\ main_pc' = "menu" /\ main_s' = Free
    /\ UNCHANGED <<mutex, jobs, status, worker, fds, history>>

Show ==             \* [c] and [v]: check_job, view_job
    \/ /\ main_pc = "menu" /\ Lock(Main) /\ main_pc' = "show"
       /\ UNCHANGED <<jobs, status, waiting, signalled, main_s, worker, fds,
                      history>>
    \/ /\ main_pc = "show" /\ Unlock /\ main_pc' = "menu"
       /\ UNCHANGED <<jobs, status, waiting, signalled, main_s, worker, fds,
                      history>>

Quit ==             \* [q]: main returns, the workers with it
    /\ main_pc = "menu" /\ main_pc' = "exited"
    /\ UNCHANGED <<mutex, jobs, status, waiting, signalled, main_s, worker, fds,
                   history>>
-----------------------------------------------------------------------------
(* threadproc *)

WorkerLock(w) ==    \* the lock, also the one inside pthread_cond_wait
    /\ At(w, "lock") \/ (At(w, "wait") /\ w \in signalled)
    /\ Lock(w) /\ Goto(w, "get_job")
    /\ signalled' = signalled \ {w}
    /\ UNCHANGED <<jobs, status, waiting, menu, s, i, next, fds, history>>

Spurious(w) ==      \* pthread_cond_wait may return on its own
    /\ At(w, "wait") /\ w \in waiting
    /\ waiting' = waiting \ {w} /\ signalled' = signalled \cup {w}
    /\ UNCHANGED <<mutex, jobs, status, menu, worker, fds, history>>

GetJob(w) ==        \* jobs.front(), or the wait
    /\ At(w, "get_job")
    /\ \/ /\ jobs # <<>>
          /\ s' = [s EXCEPT ![w] = Head(jobs)] /\ Goto(w, "pop")
          /\ UNCHANGED <<mutex, waiting>>
       \/ /\ jobs = <<>>
          /\ waiting' = waiting \cup {w} /\ Unlock
          /\ Goto(w, "wait") /\ UNCHANGED s
    /\ UNCHANGED <<jobs, status, signalled, menu, i, next, fds, history>>

PopJob(w) ==        \* jobs.pop_front(), the unlock
    /\ At(w, "pop")
    /\ jobs' = IF jobs = <<>> THEN jobs ELSE Tail(jobs)
    /\ taken' = Append(taken, s[w])
    /\ Unlock /\ Goto(w, "do_job")
    /\ UNCHANGED <<status, waiting, signalled, menu, s, i, next, fds, added,
                   fetched>>

-----------------------------------------------------------------------------
(* do_job *)

(* update_status(id, s, message), to go on at l; a status line is kept as    *)
(* the job it speaks of.                                                    *)
Report(w, l) == /\ next' = [next EXCEPT ![w] = l]
                /\ Goto(w, "update_lock")

UpdateLock(w) ==
    /\ At(w, "update_lock") /\ Lock(w) /\ Goto(w, "update")
    /\ UNCHANGED <<jobs, status, waiting, signalled, menu, s, i, next, fds,
                   history>>

Update(w) ==
    /\ At(w, "update") /\ Unlock
    /\ status' = [status EXCEPT ![w] = s[w]]
    /\ Goto(w, next[w])
    /\ s' = IF next[w] = "lock" THEN [s EXCEPT ![w] = Free] ELSE s
    /\ UNCHANGED <<jobs, waiting, signalled, menu, i, next, fds, history>>

Check(w) ==         \* addr/port, gethostbyname2, the two refused addresses
    /\ At(w, "do_job")
    /\ \/ Report(w, "lock") /\ UNCHANGED i
       \/ i' = [i EXCEPT ![w] = 1] /\ Report(w, "socket")
    /\ UNCHANGED <<mutex, jobs, status, waiting, signalled, menu, s, fds, history>>

Socket(w) ==        \* socket() fails only without a free descriptor here
    /\ At(w, "socket")
    /\ \/ fds < MaxFds /\ fds' = fds + 1 /\ Goto(w, "io") /\ UNCHANGED next
       \/ fds = MaxFds /\ Report(w, "retry") /\ UNCHANGED fds
    /\ UNCHANGED <<mutex, jobs, status, waiting, signalled, menu, s, i, history>>

(* connect, write, read: an answer, or an error of any of them; each may     *)
(* block for as long as the server likes.  An answer leaves the socket open. *)
Io(w) ==
    /\ At(w, "io")
    /\ \/ Report(w, "lock") /\ fetched' = fetched \cup {s[w]}
       \/ Report(w, "close") /\ UNCHANGED fetched
    /\ UNCHANGED <<mutex, jobs, status, waiting, signalled, menu, s, i, fds, added,
                   taken>>

AgainThrice(w) ==   \* seeded fault: one round too many
    \/ /\ i[w] < 3 /\ i' = [i EXCEPT ![w] = i[w] + 1]
       /\ Report(w, "socket") /\ UNCHANGED s
    \/ /\ i[w] = 3 /\ Goto(w, "lock") /\ s' = [s EXCEPT ![w] = Free]
       /\ UNCHANGED <<i, next>>
Again(w) ==
    \/ /\ i[w] < 2 /\ i' = [i EXCEPT ![w] = i[w] + 1]
       /\ Report(w, "socket") /\ UNCHANGED s
    \/ /\ i[w] = 2 /\ Goto(w, "lock") /\ s' = [s EXCEPT ![w] = Free]
       /\ UNCHANGED <<i, next>>

CloseForgotten(w) == UNCHANGED fds             \* seeded fault
CloseSocket(w) == fds' = IF pc[w] = "close" THEN fds - 1 ELSE fds
Retry(w) ==         \* close(s) when there is one, the next of two rounds
    /\ At(w, "close") \/ At(w, "retry")
    /\ CloseSocket(w) /\ Again(w)
    /\ UNCHANGED <<mutex, jobs, status, waiting, signalled, menu, history>>

-----------------------------------------------------------------------------
Menu == (\E j \in Jobs : AddJob(j)) \/ Push \/ Signal \/ Show \/ Quit
Queue(w) == WorkerLock(w) \/ GetJob(w) \/ PopJob(w)
Job(w) == UpdateLock(w) \/ Update(w) \/ Check(w) \/ Socket(w) \/ Retry(w)

Next == Menu \/ \E w \in Workers : Queue(w) \/ Job(w) \/ Io(w) \/ Spurious(w)

Spec == Init /\ [][Next]_vars

(* Threads run on; the mutex does not starve a thread that keeps trying.     *)
(* Nothing is assumed of the network (Io), of spurious wakeups or of the     *)
(* user, except that a critical section of the menu thread ends.            *)
FairSpec == /\ Spec
            /\ WF_vars(Push) /\ WF_vars(Signal)
            /\ WF_vars(main_pc = "show" /\ Show)
            /\ \A w \in Workers : /\ SF_vars(WorkerLock(w)) /\ SF_vars(UpdateLock(w))
                                  /\ WF_vars(Queue(w)) /\ WF_vars(Job(w))
-----------------------------------------------------------------------------
(* Properties. *)

TypeOK ==
    /\ mutex \in Workers \cup {Main, Free}
    /\ jobs \in Seq(Jobs) /\ added \in Seq(Jobs) /\ taken \in Seq(Jobs)
    /\ status \in [Workers -> Jobs \cup {Free}]
    /\ waiting \subseteq Workers /\ signalled \subseteq Workers
    /\ main_pc \in {"menu", "push", "signal", "show", "exited"}
    /\ main_s \in Jobs \cup {Free}
    /\ s \in [Workers -> Jobs \cup {Free}] /\ i \in [Workers -> 0 .. 2]
    /\ fds \in 0 .. MaxFds /\ fetched \subseteq Jobs

(* Every job the user queued is taken by exactly one worker, in the order    *)
(* they were queued, and none is lost between front() and pop_front().      *)
QueueFifo == added = taken \o jobs

(* A job in a worker's hands, from front() to the end of do_job, is in       *)
(* nobody else's.                                                           *)
OneWorkerPerJob ==
    \A v, w \in Workers : v # w /\ s[v] # Free => s[v] # s[w]

(* The sockets open are those of the workers that are talking to a server    *)
(* and of the answers read: no failed round leaves its socket behind.       *)
Talking(w) == \/ pc[w] \in {"io", "close"}
              \/ pc[w] \in {"update_lock", "update"} /\ next[w] = "close"
SocketsAccounted ==
    fds = Cardinality(fetched) + Cardinality({w \in Workers : Talking(w)})

(* No wakeup is lost: jobs never wait while a worker sleeps, although the    *)
(* signal is sent after the unlock and may find the waiters gone.           *)
NoLostWakeup ==
    []<>(jobs = <<>> \/ waiting = {} \/ ~Running)

(* Unless the user quits or every worker is held up by the network, a queued *)
(* job is taken.                                                            *)
JobsTaken ==
    \A j \in Jobs :
        j \in ToSet(jobs) ~> \/ j \notin ToSet(jobs) \/ ~Running
                             \/ \A w \in Workers : pc[w] = "io"
=============================================================================
