-------------------------- MODULE JobServiceProofs --------------------------
(***************************************************************************)
(* Theorems about JobService, for any number of workers, jobs and sockets: *)
(* its type invariant, and that the queue hands out the jobs in order.     *)
(***************************************************************************)
EXTENDS JobService, FiniteSetTheorems, TLAPS

-----------------------------------------------------------------------------
(* Sequences. *)

LEMMA ShiftHead ==
    ASSUME NEW X, NEW t \in Seq(X), NEW q \in Seq(X), q # <<>>
    PROVE  t \o q = Append(t, Head(q)) \o Tail(q)
<1> DEFINE u == Append(t, Head(q)) \o Tail(q)
<1>1. Len(q) \in Nat /\ Len(q) # 0 /\ Head(q) = q[1] /\ Head(q) \in X /\ Tail(q) \in Seq(X)
  OBVIOUS
<1>2. Len(Tail(q)) = Len(q) - 1 /\ \A k \in 1 .. Len(q) - 1 : Tail(q)[k] = q[k + 1]
  BY <1>1
<1>3. /\ Append(t, Head(q)) \in Seq(X) /\ Len(Append(t, Head(q))) = Len(t) + 1
      /\ \A k \in 1 .. Len(t) : Append(t, Head(q))[k] = t[k]
      /\ Append(t, Head(q))[Len(t) + 1] = Head(q)
  BY <1>1
<1>4. t \o q \in Seq(X) /\ u \in Seq(X) /\ Len(t \o q) = Len(t) + Len(q) /\ Len(u) = Len(t) + Len(q)
  BY <1>1, <1>2, <1>3
<1>5. ASSUME NEW k \in 1 .. Len(t) + Len(q)
      PROVE  (t \o q)[k] = u[k]
  <2>1. CASE k <= Len(t)
    BY <2>1, <1>1, <1>2, <1>3
  <2>2. CASE k = Len(t) + 1
    BY <2>2, <1>1, <1>2, <1>3
  <2>3. CASE k > Len(t) + 1
    BY <2>3, <1>1, <1>2, <1>3
  <2> QED BY <2>1, <2>2, <2>3
<1> QED BY <1>4, <1>5

-----------------------------------------------------------------------------
(* The inductive invariant. *)

Places  == {"lock", "wait", "get_job", "pop", "do_job", "update_lock",
            "update", "socket", "io", "close", "retry"}
Returns == {"lock", "socket", "close", "retry"}

Types == /\ TypeOK
         /\ pc \in [Workers -> Places] /\ next \in [Workers -> Returns]

(* Whoever is inside a critical section holds the mutex.                    *)
Critical ==
    /\ \A w \in Workers : pc[w] \in {"get_job", "pop", "update"} => mutex = w
    /\ main_pc \in {"push", "show"} => mutex = Main

(* Jobs are queued in the order of their numbers, and taken in that order.  *)
Numbered ==
    /\ QueueFifo
    /\ \A k \in 1 .. Len(added) : added[k] = k
    /\ main_pc = "push" => main_s \in Jobs /\ main_s = Len(added) + 1

(* A worker's job is one that was taken, or the front between front() and   *)
(* pop_front().                                                            *)
HoldsJob(w) ==
    /\ pc[w] \notin {"lock", "wait", "get_job"} => s[w] \in Jobs
    /\ pc[w] = "pop" => jobs # <<>> /\ s[w] = Len(taken) + 1
    /\ s[w] # Free => s[w] <= Len(taken) \/ pc[w] = "pop"
InHand == \A w \in Workers : HoldsJob(w)

(* A job that was answered is only held for the last status line.           *)
Answers ==
    /\ \A j \in fetched : j <= Len(taken)
    /\ \A w \in Workers : s[w] \in fetched =>
          pc[w] \in {"update_lock", "update"} /\ next[w] = "lock"

Talkers == {w \in Workers : Talking(w)}

IInv == /\ Types /\ Critical /\ Numbered /\ InHand /\ OneWorkerPerJob
        /\ Answers /\ SocketsAccounted

LEMMA InitIInv == Init => IInv
<1> SUFFICES ASSUME Init PROVE IInv
  OBVIOUS
<1> USE ThreadAssumption DEF Init
<1>1. Types
  BY DEF Types, TypeOK, Places, Returns
<1>2. Critical /\ Answers /\ OneWorkerPerJob /\ InHand
  BY DEF Critical, Answers, OneWorkerPerJob, InHand, HoldsJob
<1>3. Numbered
  BY DEF Numbered, QueueFifo
<1>4. SocketsAccounted
  <2>1. {w \in Workers : Talking(w)} = {}
    BY DEF Talking
  <2>2. Cardinality({w \in Workers : Talking(w)}) = 0 /\ Cardinality(fetched) = 0
    BY <2>1, FS_EmptySet
  <2> QED BY <2>2 DEF SocketsAccounted
<1> QED BY <1>1, <1>2, <1>3, <1>4 DEF IInv

(* A worker that has a socket to close accounts for one.                    *)
LEMMA SomeTalker ==
    ASSUME SocketsAccounted, fds \in 0 .. MaxFds, fetched \subseteq Jobs,
           NEW w \in Workers, pc[w] = "close"
    PROVE  fds - 1 \in 0 .. MaxFds
<1>1. IsFiniteSet(Talkers) /\ w \in Talkers
  BY ThreadAssumption, FS_Subset DEF Talkers, Talking
<1>2. Cardinality(Talkers) \in Nat /\ Cardinality(Talkers) # 0
  BY <1>1, FS_CardinalityType, FS_EmptySet
<1>3. IsFiniteSet(Jobs) /\ IsFiniteSet(fetched) /\ Cardinality(fetched) \in Nat
  <2>1. IsFiniteSet(1 .. MaxJobs)
    BY ThreadAssumption, FS_Interval
  <2> QED BY <2>1, FS_Subset, FS_CardinalityType DEF Jobs
<1>4. fds = Cardinality(fetched) + Cardinality(Talkers)
  BY DEF SocketsAccounted, Talkers
<1> QED BY <1>2, <1>3, <1>4, ThreadAssumption

(* Moves of one worker keep the types of pc and next.                       *)
LEMMA GotoTypes ==
    ASSUME Types, NEW w \in Workers, NEW l \in Places, Goto(w, l)
    PROVE  pc' \in [Workers -> Places]
BY DEF Types, Goto

LEMMA ReportTypes ==
    ASSUME Types, NEW w \in Workers, NEW l \in Returns, Report(w, l)
    PROVE  pc' \in [Workers -> Places] /\ next' \in [Workers -> Returns]
BY GotoTypes DEF Types, Report, Places

LEMMA TypesStep == IInv /\ [Next]_vars => Types'
<1> SUFFICES ASSUME IInv, [Next]_vars PROVE Types'
  OBVIOUS
<1> DEFINE Control == pc \in [Workers -> Places] /\ next \in [Workers -> Returns]
<1> USE ThreadAssumption DEF IInv, Lock, Unlock, menu, worker, history
<1>a. TypeOK /\ Control /\ Types
  BY DEF Types
<1>b. ASSUME TypeOK', Control' PROVE Types'
  BY <1>b DEF Types
<1>c. {"lock", "wait", "get_job", "pop", "do_job", "update_lock", "update", "socket",
       "io", "close", "retry"} = Places /\ Returns \subseteq Places
      /\ {"lock", "socket", "close", "retry"} = Returns
  BY DEF Places, Returns
<1>1. ASSUME NEW j \in Jobs, AddJob(j) PROVE Types'
  BY <1>1, <1>a, <1>b DEF AddJob, TypeOK
<1>2. CASE Push
  <2>1. main_s \in Jobs
    BY <1>2 DEF Push, Numbered
  <2> QED BY <1>2, <1>a, <1>b, <2>1 DEF Push, PushBack, TypeOK
<1>3. CASE Signal
  BY <1>3, <1>a, <1>b DEF Signal, SignalOne, TypeOK
<1>4. CASE Show \/ Quit
  BY <1>4, <1>a, <1>b DEF Show, Quit, TypeOK
<1>5. ASSUME NEW w \in Workers, WorkerLock(w) \/ Spurious(w) PROVE Types'
  <2>1. Control'
    BY <1>5, <1>a, <1>c, GotoTypes DEF WorkerLock, Spurious
  <2> QED BY <1>5, <1>a, <1>b, <2>1 DEF WorkerLock, Spurious, TypeOK
<1>6. ASSUME NEW w \in Workers, GetJob(w) PROVE Types'
  <2>1. Control'
    BY <1>6, <1>a, <1>c, GotoTypes DEF GetJob
  <2>2. jobs # <<>> => Head(jobs) \in Jobs
    BY <1>a DEF TypeOK
  <2>3. s' \in [Workers -> Jobs \cup {Free}] /\ waiting' \subseteq Workers
        /\ mutex' \in Workers \cup {Main, Free}
    BY <1>6, <1>a, <2>2 DEF GetJob, TypeOK
  <2> QED BY <1>6, <1>a, <1>b, <2>1, <2>3 DEF GetJob, TypeOK
<1>7. ASSUME NEW w \in Workers, PopJob(w) PROVE Types'
  <2>1. s[w] \in Jobs
    BY <1>7 DEF PopJob, At, InHand, HoldsJob
  <2>2. Control'
    BY <1>7, <1>a, <1>c, GotoTypes DEF PopJob
  <2> QED BY <1>7, <1>a, <1>b, <2>1, <2>2 DEF PopJob, TypeOK
<1>8. ASSUME NEW w \in Workers, UpdateLock(w) \/ Update(w) PROVE Types'
  <2>1. next[w] \in Places
    BY <1>a, <1>c
  <2>2. Control'
    BY <1>8, <1>a, <1>c, <2>1, GotoTypes DEF UpdateLock, Update
  <2>3. s' \in [Workers -> Jobs \cup {Free}] /\ status' \in [Workers -> Jobs \cup {Free}]
    BY <1>8, <1>a DEF UpdateLock, Update, TypeOK
  <2> QED BY <1>8, <1>a, <1>b, <2>2, <2>3 DEF UpdateLock, Update, TypeOK
<1>9. ASSUME NEW w \in Workers, Check(w) PROVE Types'
  <2>1. Control'
    BY <1>9, <1>a, <1>c, ReportTypes DEF Check
  <2> QED BY <1>9, <1>a, <1>b, <2>1 DEF Check, TypeOK
<1>10. ASSUME NEW w \in Workers, Socket(w) PROVE Types'
  <2>1. Control'
    BY <1>10, <1>a, <1>c, GotoTypes, ReportTypes DEF Socket
  <2> QED BY <1>10, <1>a, <1>b, <2>1 DEF Socket, TypeOK
<1>11. ASSUME NEW w \in Workers, Io(w) PROVE Types'
  <2>1. s[w] \in Jobs
    BY <1>11 DEF Io, At, InHand, HoldsJob
  <2>2. Control'
    BY <1>11, <1>a, <1>c, ReportTypes DEF Io
  <2> QED BY <1>11, <1>a, <1>b, <2>1, <2>2 DEF Io, TypeOK
<1>12. ASSUME NEW w \in Workers, Retry(w) PROVE Types'
  <2>1. fds' \in 0 .. MaxFds
    BY <1>12, <1>a, SomeTalker DEF Retry, CloseSocket, TypeOK
  <2>2. Control'
    BY <1>12, <1>a, <1>c, GotoTypes, ReportTypes DEF Retry, Again
  <2>3. i' \in [Workers -> 0 .. 2] /\ s' \in [Workers -> Jobs \cup {Free}]
    <3>1. CASE i[w] < 2
      BY <1>12, <1>a, <3>1 DEF Retry, Again, TypeOK
    <3>2. CASE i[w] = 2
      BY <1>12, <1>a, <3>2 DEF Retry, Again, TypeOK
    <3> QED BY <1>12, <3>1, <3>2 DEF Retry, Again
  <2> QED BY <1>12, <1>a, <1>b, <2>1, <2>2, <2>3 DEF Retry, TypeOK
<1>13. CASE UNCHANGED vars
  BY <1>13, <1>a, <1>b DEF vars, TypeOK
<1> QED BY <1>1, <1>2, <1>3, <1>4, <1>5, <1>6, <1>7, <1>8, <1>9, <1>10, <1>11,
           <1>12, <1>13 DEF Next, Menu, Queue, Job

(* Only the worker that moves changes its place, its job and its return.    *)
WorkerStep(w) == \/ WorkerLock(w) \/ Spurious(w) \/ GetJob(w) \/ PopJob(w)
                 \/ UpdateLock(w) \/ Update(w) \/ Check(w) \/ Socket(w)
                 \/ Io(w) \/ Retry(w)
MenuStep == (\E j \in Jobs : AddJob(j)) \/ Push \/ Signal \/ Show \/ Quit

LEMMA Steps ==
    [Next]_vars => MenuStep \/ (\E w \in Workers : WorkerStep(w)) \/ UNCHANGED vars
BY DEF Next, Menu, Queue, Job, MenuStep, WorkerStep

LEMMA Others ==
    ASSUME Types, NEW w \in Workers, WorkerStep(w)
    PROVE  /\ \A v \in Workers \ {w} : pc'[v] = pc[v] /\ s'[v] = s[v] /\ next'[v] = next[v]
           /\ UNCHANGED <<main_pc, main_s, added>>
<1> USE DEF Types, TypeOK, Goto, Report, menu, worker, history
<1>1. CASE WorkerLock(w) \/ Spurious(w)
  BY <1>1 DEF WorkerLock, Spurious
<1>2. CASE GetJob(w)
  BY <1>2 DEF GetJob
<1>3. CASE PopJob(w)
  BY <1>3 DEF PopJob
<1>4. CASE UpdateLock(w) \/ Update(w)
  BY <1>4 DEF UpdateLock, Update
<1>5. CASE Check(w)
  BY <1>5 DEF Check
<1>6. CASE Socket(w)
  BY <1>6 DEF Socket
<1>7. CASE Io(w)
  BY <1>7 DEF Io
<1>8. CASE Retry(w)
  BY <1>8 DEF Retry, Again
<1> QED BY <1>1, <1>2, <1>3, <1>4, <1>5, <1>6, <1>7, <1>8 DEF WorkerStep

LEMMA MenuFrame == MenuStep => UNCHANGED <<pc, s, next, i, fds, taken, fetched>>
BY DEF MenuStep, AddJob, Push, Signal, Show, Quit, worker, history

(* Where the step of a worker leads, and what it does to the mutex.          *)
LEMMA Landing ==
    ASSUME Types, NEW w \in Workers, WorkerStep(w)
    PROVE  \/ mutex = Free /\ mutex' = w
           \/ pc[w] \in {"get_job", "pop", "update"} /\ mutex' = Free
              /\ pc'[w] \notin {"get_job", "pop", "update"}
           \/ pc[w] = "get_job" /\ pc'[w] = "pop" /\ UNCHANGED mutex
           \/ pc'[w] \notin {"get_job", "pop", "update"} /\ UNCHANGED mutex
<1> USE DEF Types, TypeOK, Goto, Report, Lock, Unlock, Returns
<1>1. CASE WorkerLock(w) \/ Spurious(w)
  BY <1>1 DEF WorkerLock, Spurious, worker, At
<1>2. CASE GetJob(w)
  BY <1>2 DEF GetJob, At
<1>3. CASE PopJob(w)
  BY <1>3 DEF PopJob, At
<1>4. CASE UpdateLock(w)
  BY <1>4 DEF UpdateLock
<1>5. CASE Update(w)
  BY <1>5 DEF Update, At
<1>6. CASE Check(w) \/ Socket(w)
  BY <1>6 DEF Check, Socket
<1>7. CASE Io(w) \/ Retry(w)
  BY <1>7 DEF Io, Retry, Again
<1> QED BY <1>1, <1>2, <1>3, <1>4, <1>5, <1>6, <1>7 DEF WorkerStep

LEMMA CriticalStep == IInv /\ [Next]_vars => Critical'
<1> SUFFICES ASSUME IInv, [Next]_vars PROVE Critical'
  OBVIOUS
<1>a. Types /\ Critical
  BY DEF IInv
<1>1. CASE MenuStep
  <2>1. UNCHANGED pc
    BY <1>1, MenuFrame
  <2>2. \/ mutex = Free /\ mutex' = Main
        \/ main_pc \in {"push", "show"} /\ mutex' = Free /\ main_pc' \notin {"push", "show"}
        \/ UNCHANGED mutex /\ main_pc' \notin {"push", "show"}
    BY <1>1 DEF MenuStep, AddJob, Push, Signal, Show, Quit, Lock, Unlock
  <2> QED BY <1>a, <2>1, <2>2, ThreadAssumption DEF Critical
<1>2. ASSUME NEW w \in Workers, WorkerStep(w) PROVE Critical'
  BY <1>2, <1>a, Others, Landing, ThreadAssumption DEF Critical
<1>3. CASE UNCHANGED vars
  BY <1>3, <1>a DEF Critical, vars, menu, worker
<1> QED BY <1>1, <1>2, <1>3, Steps

-----------------------------------------------------------------------------
(* The queue. *)

LEMMA Lengths ==
    Types => Len(jobs) \in Nat /\ Len(taken) \in Nat /\ Len(added) \in Nat
BY DEF Types, TypeOK

LEMMA FrontNumber ==
    ASSUME Types, Numbered, jobs # <<>>
    PROVE  Head(jobs) = Len(taken) + 1 /\ Head(jobs) \in Jobs
<1>1. Len(jobs) \in Nat \ {0} /\ Len(taken) \in Nat /\ Head(jobs) = jobs[1] /\ Head(jobs) \in Jobs
  BY DEF Types, TypeOK
<1>2. Len(added) = Len(taken) + Len(jobs) /\ added[Len(taken) + 1] = jobs[1]
  BY <1>1 DEF Types, TypeOK, Numbered, QueueFifo
<1>3. added[Len(taken) + 1] = Len(taken) + 1
  BY <1>1, <1>2 DEF Numbered
<1> QED BY <1>1, <1>2, <1>3

(* Which worker steps touch the queue. *)
LEMMA QueueFrame ==
    ASSUME NEW w \in Workers, WorkerStep(w)
    PROVE  PopJob(w) \/ UNCHANGED <<jobs, taken, added>>
BY DEF WorkerStep, WorkerLock, Spurious, GetJob, UpdateLock, Update, Check, Socket, Io,
       Retry, worker, history

LEMMA NumberedStep == IInv /\ [Next]_vars => Numbered'
<1> SUFFICES ASSUME IInv, [Next]_vars PROVE Numbered'
  OBVIOUS
<1>a. Types /\ Numbered /\ InHand
  BY DEF IInv
<1>1. CASE Push
  <2>1. main_s \in Jobs /\ main_s = Len(added) + 1
    BY <1>1, <1>a DEF Push, Numbered
  <2>2. added' = Append(added, main_s) /\ jobs' = Append(jobs, main_s) /\ taken' = taken
        /\ main_pc' # "push"
    BY <1>1 DEF Push, PushBack
  <2>3. QueueFifo'
    <3>1. taken \in Seq(Jobs) /\ jobs \in Seq(Jobs) /\ added = taken \o jobs
      BY <1>a DEF Types, TypeOK, Numbered, QueueFifo
    <3>2. main_s \in Jobs
      BY <2>1
    <3>3. Append(taken \o jobs, main_s) = taken \o Append(jobs, main_s)
      <4>1. ASSUME NEW t \in Seq(Jobs), NEW q \in Seq(Jobs), NEW x \in Jobs
            PROVE  Append(t \o q, x) = t \o Append(q, x)
        OBVIOUS
      <4> QED BY <3>1, <3>2, <4>1, Zenon
    <3> QED BY <2>2, <3>1, <3>3 DEF QueueFifo
  <2>4. \A k \in 1 .. Len(added') : added'[k] = k
    BY <2>1, <2>2, <1>a DEF Types, TypeOK, Numbered
  <2> QED BY <2>2, <2>3, <2>4 DEF Numbered
<1>2. CASE MenuStep /\ ~Push
  BY <1>2, <1>a DEF MenuStep, AddJob, Signal, Show, Quit, Numbered, QueueFifo, history
<1>3. ASSUME NEW w \in Workers, WorkerStep(w), ~PopJob(w) PROVE Numbered'
  BY <1>3, <1>a, QueueFrame, Others DEF Numbered, QueueFifo
<1>4. ASSUME NEW w \in Workers, PopJob(w) PROVE Numbered'
  <2>1. jobs # <<>> /\ s[w] = Head(jobs)
    BY <1>4, <1>a, FrontNumber DEF PopJob, At, InHand, HoldsJob
  <2>2. taken' = Append(taken, Head(jobs)) /\ jobs' = Tail(jobs)
        /\ UNCHANGED <<added, main_pc, main_s>>
    BY <1>4, <2>1 DEF PopJob, menu
  <2>3. QueueFifo'
    BY <2>1, <2>2, <1>a, ShiftHead DEF Types, TypeOK, Numbered, QueueFifo
  <2> QED BY <2>2, <2>3, <1>a DEF Numbered
<1>5. CASE UNCHANGED vars
  BY <1>5, <1>a DEF Numbered, QueueFifo, vars, menu, history
<1> QED BY <1>1, <1>2, <1>3, <1>4, <1>5, Steps

(* The sequence of jobs taken only grows.                                   *)
LEMMA TakenGrows ==
    ASSUME IInv, [Next]_vars
    PROVE  Len(taken') \in Nat /\ Len(taken) <= Len(taken')
<1>a. Types /\ InHand /\ Len(taken) \in Nat
  BY Lengths DEF IInv
<1>1. CASE MenuStep \/ UNCHANGED vars
  BY <1>1, <1>a, MenuFrame DEF vars, history
<1>2. ASSUME NEW w \in Workers, PopJob(w)
      PROVE  Len(taken') \in Nat /\ Len(taken) <= Len(taken')
  <2>1. s[w] \in Jobs /\ taken' = Append(taken, s[w])
    BY <1>2, <1>a DEF PopJob, At, InHand, HoldsJob
  <2>2. Len(taken') = Len(taken) + 1
    BY <2>1, <1>a DEF Types, TypeOK
  <2> QED BY <2>2, <1>a
<1>3. ASSUME NEW w \in Workers, WorkerStep(w), ~PopJob(w)
      PROVE  Len(taken') \in Nat /\ Len(taken) <= Len(taken')
  BY <1>3, <1>a, QueueFrame
<1> QED BY <1>1, <1>2, <1>3, Steps

LEMMA InHandStep == IInv /\ [Next]_vars => InHand'
<1> SUFFICES ASSUME IInv, [Next]_vars PROVE InHand'
  OBVIOUS
<1>a. Types /\ Critical /\ Numbered /\ InHand /\ Len(taken) \in Nat
  BY Lengths DEF IInv
<1>b. Len(taken') \in Nat /\ Len(taken) <= Len(taken')
  BY TakenGrows
<1>1. CASE MenuStep
  <2>1. jobs # <<>> => jobs' # <<>>
    <3>1. CASE Push
      <4>1. jobs \in Seq(Jobs) /\ main_s \in Jobs /\ jobs' = Append(jobs, main_s)
        BY <3>1, <1>a DEF Push, PushBack, Types, TypeOK, Numbered
      <4> QED BY <4>1
    <3> QED BY <1>1, <3>1 DEF MenuStep, AddJob, Signal, Show, Quit
  <2> QED BY <1>1, <1>a, <2>1, MenuFrame DEF InHand, HoldsJob
<1>2. ASSUME NEW w \in Workers, WorkerStep(w), NEW v \in Workers \ {w}
      PROVE  HoldsJob(v)'
  <2>1. pc'[v] = pc[v] /\ s'[v] = s[v]
    BY <1>2, <1>a, Others
  <2>2. CASE PopJob(w)
    <3>1. pc[v] # "pop"
      BY <2>2, <1>a DEF PopJob, At, Critical
    <3>2. s[v] # Free => s[v] \in Nat
      BY <1>a DEF Types, TypeOK, Jobs
    <3> QED BY <1>2, <2>1, <3>1, <3>2, <1>a, <1>b DEF InHand, HoldsJob
  <2>3. CASE ~PopJob(w)
    BY <1>2, <2>1, <2>3, <1>a, QueueFrame DEF InHand, HoldsJob
  <2> QED BY <2>2, <2>3
<1>3. ASSUME NEW w \in Workers, WorkerStep(w)
      PROVE  HoldsJob(w)'
  <2> USE DEF Types, TypeOK, Goto, Report, history
  <2>1. CASE GetJob(w)
    <3>1. UNCHANGED <<jobs, taken>>
      BY <2>1 DEF GetJob
    <3>2. CASE jobs # <<>>
      <4>1. s'[w] = Head(jobs) /\ pc'[w] = "pop"
        BY <2>1, <3>2, <1>a DEF GetJob
      <4> QED BY <4>1, <3>1, <3>2, <1>a, FrontNumber DEF HoldsJob
    <3>3. CASE jobs = <<>>
      <4>1. s'[w] = s[w] /\ pc'[w] = "wait" /\ pc[w] = "get_job"
        BY <2>1, <3>3, <1>a DEF GetJob, At
      <4> QED BY <4>1, <3>1, <1>a, <1>3 DEF InHand, HoldsJob
    <3> QED BY <3>2, <3>3
  <2>2. CASE PopJob(w)
    <3>1. s[w] \in Jobs /\ s[w] = Len(taken) + 1 /\ taken' = Append(taken, s[w])
      BY <2>2, <1>a DEF PopJob, At, InHand, HoldsJob
    <3>2. Len(taken') = Len(taken) + 1
      BY <3>1, <1>a
    <3>3. s'[w] = s[w] /\ pc'[w] = "do_job"
      BY <2>2, <1>a DEF PopJob
    <3> QED BY <3>1, <3>2, <3>3, <1>a DEF HoldsJob
  <2>3. CASE Update(w)
    <3>1. UNCHANGED taken /\ pc[w] = "update" /\ pc'[w] = next[w] /\ next[w] \in Returns
          /\ s'[w] = IF next[w] = "lock" THEN Free ELSE s[w]
      BY <2>3, <1>a DEF Update, At
    <3> QED BY <3>1, <1>a, <1>3 DEF InHand, HoldsJob, Returns
  <2>4. CASE Retry(w)
    <3>1. UNCHANGED taken /\ pc[w] \in {"close", "retry"}
          /\ \/ s'[w] = s[w] /\ pc'[w] = "update_lock"
             \/ s'[w] = Free /\ pc'[w] = "lock"
      BY <2>4, <1>a DEF Retry, Again, At
    <3> QED BY <3>1, <1>a, <1>3 DEF InHand, HoldsJob
  <2>5. CASE ~GetJob(w) /\ ~PopJob(w) /\ ~Update(w) /\ ~Retry(w)
    <3>1. UNCHANGED <<s, taken>> /\ pc'[w] # "pop" /\ pc[w] # "pop"
          /\ (pc'[w] \notin {"lock", "wait", "get_job"} =>
                pc[w] \notin {"lock", "wait", "get_job"})
      <4>1. CASE WorkerLock(w) \/ Spurious(w)
        BY <4>1, <1>a DEF WorkerLock, Spurious, At, worker
      <4>2. CASE UpdateLock(w) \/ Check(w)
        BY <4>2, <1>a DEF UpdateLock, Check, At
      <4>3. CASE Socket(w) \/ Io(w)
        BY <4>3, <1>a DEF Socket, Io, At
      <4> QED BY <1>3, <2>5, <4>1, <4>2, <4>3 DEF WorkerStep
    <3> QED BY <3>1, <1>a, <1>3 DEF InHand, HoldsJob
  <2> QED BY <2>1, <2>2, <2>3, <2>4, <2>5
<1>4. ASSUME NEW w \in Workers, WorkerStep(w) PROVE InHand'
  BY <1>4, <1>2, <1>3 DEF InHand
<1>5. CASE UNCHANGED vars
  BY <1>5, <1>a DEF InHand, HoldsJob, vars, worker, history
<1> QED BY <1>1, <1>4, <1>5, Steps

LEMMA OneWorkerStep == IInv /\ [Next]_vars => OneWorkerPerJob'
<1> SUFFICES ASSUME IInv, [Next]_vars PROVE OneWorkerPerJob'
  OBVIOUS
<1>a. Types /\ Critical /\ Numbered /\ InHand /\ OneWorkerPerJob /\ Len(taken) \in Nat
  BY Lengths DEF IInv
<1>1. CASE MenuStep \/ UNCHANGED vars
  BY <1>1, <1>a, MenuFrame DEF OneWorkerPerJob, vars, worker
<1>2. ASSUME NEW w \in Workers, GetJob(w), jobs # <<>> PROVE OneWorkerPerJob'
  <2>1. s'[w] = Len(taken) + 1
    BY <1>2, <1>a, FrontNumber DEF GetJob, Types, TypeOK
  <2>2. ASSUME NEW v \in Workers \ {w}
        PROVE  s'[v] = s[v] /\ s'[v] # s'[w]
    <3>1. s'[v] = s[v]
      BY <1>2, <1>a, <2>2, Others DEF WorkerStep
    <3>2. pc[v] # "pop"
      BY <1>2, <1>a DEF GetJob, At, Critical
    <3>3. CASE s[v] = Free
      <4>1. Head(jobs) \in Jobs /\ Head(jobs) = Len(taken) + 1
        BY <1>2, <1>a, FrontNumber
      <4> QED BY <3>1, <3>3, <2>1, <4>1, ThreadAssumption
    <3>4. CASE s[v] # Free
      <4>1. s[v] \in Nat /\ s[v] <= Len(taken)
        BY <3>2, <3>4, <1>a DEF InHand, HoldsJob, Types, TypeOK, Jobs
      <4> QED BY <3>1, <4>1, <2>1, <1>a
    <3> QED BY <3>1, <3>3, <3>4
  <2> QED BY <2>2, <1>a DEF OneWorkerPerJob
<1>3. ASSUME NEW w \in Workers, WorkerStep(w), ~(GetJob(w) /\ jobs # <<>>)
      PROVE  OneWorkerPerJob'
  <2>1. s'[w] \in {s[w], Free}
    BY <1>3, <1>a DEF WorkerStep, WorkerLock, Spurious, GetJob, PopJob, UpdateLock, Update,
       Check, Socket, Io, Retry, Again, worker, Types, TypeOK
  <2> QED BY <1>3, <1>a, <2>1, Others DEF OneWorkerPerJob
<1> QED BY <1>1, <1>2, <1>3, Steps DEF WorkerStep

LEMMA AnswersStep == IInv /\ [Next]_vars => Answers'
<1> SUFFICES ASSUME IInv, [Next]_vars PROVE Answers'
  OBVIOUS
<1>a. /\ Types /\ Numbered /\ InHand /\ OneWorkerPerJob /\ Answers
      /\ Len(taken) \in Nat /\ Free \notin fetched /\ fetched \subseteq Nat
  <2>1. fetched \subseteq Jobs /\ Jobs \subseteq Nat
    BY DEF IInv, Types, TypeOK, Jobs
  <2> QED BY <2>1, Lengths, ThreadAssumption DEF IInv
<1>b. Len(taken') \in Nat /\ Len(taken) <= Len(taken')
  BY TakenGrows
<1>1. CASE MenuStep \/ UNCHANGED vars
  BY <1>1, <1>a, MenuFrame DEF Answers, vars, worker, history
<1>2. ASSUME NEW w \in Workers, WorkerStep(w), ~Io(w), UNCHANGED fetched
      PROVE  Answers'
  <2>1. \/ s'[w] = Len(taken) + 1
        \/ s'[w] = Free
        \/ s'[w] = s[w] /\ ~Update(w) /\ ~UpdateLock(w)
           /\ pc[w] \notin {"update_lock", "update"}
        \/ s'[w] = s[w] /\ UpdateLock(w)
        \/ s'[w] = s[w] /\ Update(w) /\ next[w] # "lock"
    <3>1. CASE GetJob(w)
      <4>1. CASE jobs # <<>>
        BY <3>1, <4>1, <1>a, FrontNumber DEF GetJob, Types, TypeOK
      <4>2. CASE jobs = <<>>
        BY <3>1, <4>2, <1>a DEF GetJob, At, Update, UpdateLock
      <4> QED BY <4>1, <4>2
    <3>2. CASE Update(w)
      BY <3>2, <1>a DEF Update, Types, TypeOK
    <3>3. CASE ~GetJob(w) /\ ~Update(w)
      BY <3>3, <1>2, <1>a DEF WorkerStep, WorkerLock, Spurious, PopJob, UpdateLock,
         Check, Socket, Retry, Again, worker, At, Types, TypeOK
    <3> QED BY <3>1, <3>2, <3>3
  <2>2. UpdateLock(w) => pc'[w] = "update" /\ next' = next
    BY <1>a DEF UpdateLock, Goto, Types, TypeOK
  <2>3. s'[w] \in fetched => pc'[w] \in {"update_lock", "update"} /\ next'[w] = "lock"
    BY <2>1, <2>2, <1>a DEF Answers
  <2>4. \A v \in Workers : s'[v] \in fetched =>
           pc'[v] \in {"update_lock", "update"} /\ next'[v] = "lock"
    BY <2>3, <1>2, <1>a, Others DEF Answers
  <2>5. ASSUME NEW j \in fetched PROVE j <= Len(taken')
    <3>1. j \in Nat /\ j <= Len(taken)
      BY <2>5, <1>a DEF Answers
    <3> QED BY <3>1, <1>a, <1>b
  <2> QED BY <2>4, <2>5, <1>2 DEF Answers
<1>3. ASSUME NEW w \in Workers, Io(w) PROVE Answers'
  <2>1. s[w] \in Jobs /\ s[w] \in Nat /\ s[w] # Free /\ s[w] <= Len(taken)
        /\ s[w] \notin fetched /\ pc'[w] = "update_lock" /\ s' = s /\ taken' = taken
    <3>1. pc[w] = "io" /\ pc'[w] = "update_lock" /\ s' = s /\ taken' = taken
      BY <1>3, <1>a DEF Io, At, Report, Goto, Types, TypeOK
    <3>2. s[w] \in Jobs /\ s[w] # Free
      BY <3>1, <1>a, ThreadAssumption DEF InHand, HoldsJob
    <3> QED BY <3>1, <3>2, <1>a DEF InHand, HoldsJob, Answers, Jobs
  <2>2. \/ fetched' = fetched \cup {s[w]} /\ next'[w] = "lock"
        \/ fetched' = fetched
    BY <1>3, <1>a DEF Io, Report, Types, TypeOK
  <2>3. \A v \in Workers \ {w} : s[v] # s[w] /\ pc'[v] = pc[v] /\ next'[v] = next[v]
    BY <1>3, <1>a, <2>1, Others DEF OneWorkerPerJob, WorkerStep
  <2> QED BY <2>1, <2>2, <2>3, <1>a DEF Answers
<1>4. ASSUME NEW w \in Workers, WorkerStep(w) PROVE Io(w) \/ UNCHANGED fetched
  BY <1>4 DEF WorkerStep, WorkerLock, Spurious, GetJob, PopJob, UpdateLock, Update, Check,
     Socket, Retry, history
<1> QED BY <1>1, <1>2, <1>3, <1>4, Steps

-----------------------------------------------------------------------------
(* The sockets. *)

LEMMA Finite ==
    ASSUME Types
    PROVE  /\ IsFiniteSet(Talkers) /\ Cardinality(Talkers) \in Nat
           /\ IsFiniteSet(fetched) /\ Cardinality(fetched) \in Nat
<1>1. IsFiniteSet(Talkers)
  BY ThreadAssumption, FS_Subset DEF Talkers
<1>2. IsFiniteSet(1 .. MaxJobs)
  BY ThreadAssumption, FS_Interval
<1>3. IsFiniteSet(fetched)
  BY <1>2, FS_Subset DEF Types, TypeOK, Jobs
<1> QED BY <1>1, <1>3, FS_CardinalityType

(* The other workers go on talking as they did.                             *)
LEMMA OthersTalk ==
    ASSUME Types, NEW w \in Workers, WorkerStep(w)
    PROVE  Talkers' \ {w} = Talkers \ {w}
BY Others DEF Talkers, Talking

LEMMA SocketsStep == IInv /\ [Next]_vars => SocketsAccounted'
<1> SUFFICES ASSUME IInv, [Next]_vars PROVE SocketsAccounted'
  OBVIOUS
<1>a. /\ Types /\ InHand /\ Answers /\ fds \in Nat
      /\ fds = Cardinality(fetched) + Cardinality(Talkers)
      /\ IsFiniteSet(Talkers) /\ Cardinality(Talkers) \in Nat
      /\ IsFiniteSet(fetched) /\ Cardinality(fetched) \in Nat
  BY Finite DEF IInv, SocketsAccounted, Talkers, Types, TypeOK
<1>b. ASSUME fds' = Cardinality(fetched') + Cardinality(Talkers')
      PROVE  SocketsAccounted'
  BY <1>b DEF SocketsAccounted, Talkers
<1>1. CASE MenuStep \/ UNCHANGED vars
  <2>1. UNCHANGED <<pc, next, fds, fetched>>
    BY <1>1, MenuFrame DEF vars, worker, history
  <2>2. Talkers' = Talkers
    BY <2>1 DEF Talkers, Talking
  <2> QED BY <1>a, <1>b, <2>1, <2>2
<1>2. ASSUME NEW w \in Workers, Socket(w), fds < MaxFds PROVE SocketsAccounted'
  <2>1. pc[w] = "socket" /\ pc'[w] = "io" /\ fds' = fds + 1 /\ fetched' = fetched
    BY <1>2, <1>a DEF Socket, At, Goto, Types, TypeOK, history
  <2>2. w \notin Talkers /\ Talkers' = Talkers \cup {w}
    BY <2>1, <1>2, <1>a, OthersTalk DEF Talkers, Talking, WorkerStep
  <2>3. Cardinality(Talkers') = Cardinality(Talkers) + 1
    BY <2>2, <1>a, FS_AddElement
  <2> QED BY <2>1, <2>3, <1>a, <1>b
<1>3. ASSUME NEW w \in Workers, Io(w), fetched' = fetched \cup {s[w]},
             pc' = [pc EXCEPT ![w] = "update_lock"], next' = [next EXCEPT ![w] = "lock"]
      PROVE  SocketsAccounted'
  <2>1. pc[w] = "io" /\ pc'[w] = "update_lock" /\ next'[w] = "lock" /\ fds' = fds
    BY <1>3, <1>a DEF Io, At, Types
  <2>2. s[w] \notin fetched
    BY <2>1, <1>a DEF Answers
  <2>3. w \in Talkers /\ Talkers' = Talkers \ {w}
    BY <2>1, <1>3, <1>a, OthersTalk DEF Talkers, Talking, WorkerStep
  <2>4. Cardinality(Talkers') = Cardinality(Talkers) - 1
    BY <2>3, <1>a, FS_RemoveElement
  <2>5. Cardinality(fetched') = Cardinality(fetched) + 1
    BY <2>2, <1>3, <1>a, FS_AddElement
  <2> QED BY <2>1, <2>4, <2>5, <1>a, <1>b
<1>4. ASSUME NEW w \in Workers, Retry(w), pc[w] = "close" PROVE SocketsAccounted'
  <2>1. fds' = fds - 1 /\ fetched' = fetched
        /\ \/ pc'[w] = "update_lock" /\ next'[w] = "socket"
           \/ pc'[w] = "lock"
    BY <1>4, <1>a DEF Retry, CloseSocket, Again, Report, Goto, Types, history
  <2>2. w \in Talkers /\ Talkers' = Talkers \ {w}
    BY <2>1, <1>4, <1>a, OthersTalk DEF Talkers, Talking, WorkerStep
  <2>3. Cardinality(Talkers') = Cardinality(Talkers) - 1
    BY <2>2, <1>a, FS_RemoveElement
  <2> QED BY <2>1, <2>3, <1>a, <1>b
<1>5. ASSUME NEW w \in Workers, WorkerStep(w), UNCHANGED <<fds, fetched>>,
             Talking(w)' <=> Talking(w)
      PROVE  SocketsAccounted'
  <2>1. Talkers' = Talkers
    BY <1>5, <1>a, OthersTalk DEF Talkers
  <2> QED BY <2>1, <1>5, <1>a, <1>b
<1>6. ASSUME NEW w \in Workers, WorkerStep(w) PROVE SocketsAccounted'
  <2> DEFINE Same == UNCHANGED <<fds, fetched>> /\ (Talking(w)' <=> Talking(w))
  <2> USE DEF Types, TypeOK, Goto, At, history
  <2>1. CASE WorkerLock(w) \/ Spurious(w)
    <3>1. Same
      BY <2>1, <1>a DEF WorkerLock, Spurious, Talking, worker
    <3> QED BY <3>1, <1>5, <1>6
  <2>2. CASE GetJob(w) \/ PopJob(w)
    <3>1. Same
      BY <2>2, <1>a DEF GetJob, PopJob, Talking
    <3> QED BY <3>1, <1>5, <1>6
  <2>3. CASE UpdateLock(w)
    <3>1. Same
      BY <2>3, <1>a DEF UpdateLock, Talking
    <3> QED BY <3>1, <1>5, <1>6
  <2>4. CASE Update(w)
    <3>1. UNCHANGED <<fds, fetched>> /\ pc[w] = "update" /\ pc'[w] = next[w]
          /\ next[w] \in Returns
      BY <2>4, <1>a DEF Update
    <3>2. Same
      BY <3>1 DEF Talking, Returns
    <3> QED BY <3>2, <1>5, <1>6
  <2>5. CASE Check(w)
    <3>1. Same
      BY <2>5, <1>a DEF Check, Report, Talking
    <3> QED BY <3>1, <1>5, <1>6
  <2>6. CASE Socket(w)
    <3>1. CASE fds < MaxFds
      BY <2>6, <3>1, <1>2
    <3>2. CASE fds = MaxFds
      <4>2. ~(fds < MaxFds)
        BY <3>2, <1>a
      <4>1. Same
        BY <2>6, <4>2, <1>a DEF Socket, Report, Talking
      <4> QED BY <4>1, <1>5, <1>6
    <3> QED BY <2>6, <3>1, <3>2 DEF Socket
  <2>7. CASE Io(w)
    <3>1. CASE Report(w, "lock") /\ fetched' = fetched \cup {s[w]}
      BY <2>7, <3>1, <1>3 DEF Report
    <3>2. CASE Report(w, "close") /\ UNCHANGED fetched
      <4>1. Same
        BY <2>7, <3>2, <1>a DEF Io, Report, Talking
      <4> QED BY <4>1, <1>5, <1>6
    <3> QED BY <2>7, <3>1, <3>2 DEF Io
  <2>8. CASE Retry(w)
    <3>1. CASE pc[w] = "close"
      BY <2>8, <3>1, <1>4
    <3>2. CASE pc[w] = "retry"
      <4>1. Same
        BY <2>8, <3>2, <1>a DEF Retry, CloseSocket, Again, Report, Talking
      <4> QED BY <4>1, <1>5, <1>6
    <3> QED BY <2>8, <3>1, <3>2 DEF Retry
  <2> QED BY <1>6, <2>1, <2>2, <2>3, <2>4, <2>5, <2>6, <2>7, <2>8 DEF WorkerStep
<1> QED BY <1>1, <1>6, Steps

-----------------------------------------------------------------------------
(* The theorems. *)

LEMMA IInvHolds == Spec => []IInv
<1>1. IInv /\ [Next]_vars => IInv'
  BY TypesStep, CriticalStep, NumberedStep, InHandStep, OneWorkerStep, AnswersStep,
     SocketsStep DEF IInv
<1> QED BY <1>1, InitIInv, PTL DEF Spec

(* Every variable of the service keeps its type; no descriptor is counted    *)
(* that is not open (update_status, do_job, threadproc).                    *)
THEOREM JobTypes == Spec => []TypeOK
<1>1. IInv => TypeOK
  BY DEF IInv, Types
<1> QED BY <1>1, IInvHolds, PTL

(* The jobs threadproc has popped, followed by the queue, are the jobs       *)
(* add_job pushed, in their order: none is lost, doubled or overtaken.      *)
THEOREM QueueIsFifo == Spec => []QueueFifo
<1>1. IInv => QueueFifo
  BY DEF IInv, Numbered
<1> QED BY <1>1, IInvHolds, PTL

(* Between front() and the end of do_job a job is one worker's only.         *)
THEOREM JobHasOneWorker == Spec => []OneWorkerPerJob
<1>1. IInv => OneWorkerPerJob
  BY DEF IInv
<1> QED BY <1>1, IInvHolds, PTL

(* Every open socket belongs to a worker in the rounds of do_job or to an    *)
(* answer that was read: no failed round leaves one behind.                  *)
THEOREM SocketsAreAccounted == Spec => []SocketsAccounted
<1>1. IInv => SocketsAccounted
  BY DEF IInv
<1> QED BY <1>1, IInvHolds, PTL

-----------------------------------------------------------------------------
(* Wakeups, and the mutex that is always given back. *)

(* A worker is in pthread_cond_wait when it sleeps or was woken.             *)
Asleep ==
    /\ waiting \cap signalled = {}
    /\ \A w \in Workers : pc[w] = "wait" <=> w \in waiting \cup signalled

(* Whoever holds the mutex is inside a critical section that ends with its   *)
(* unlock.                                                                  *)
MutexInUse ==
    /\ \A w \in Workers : mutex = w => pc[w] \in {"get_job", "pop", "update"}
    /\ mutex = Main => main_pc \in {"push", "show"}

(* The workers that will look at the queue next, and the signal that        *)
(* add_job still owes.                                                      *)
Coming == {w \in Workers : \/ pc[w] \in {"lock", "get_job", "pop"}
                           \/ pc[w] = "wait" /\ w \in signalled}
Owed == IF main_pc = "signal" THEN 1 ELSE 0

(* While a worker sleeps, each queued job has a worker coming for it, or the *)
(* signal for it has yet to be sent.                                        *)
EachJobAwaited == waiting # {} => Len(jobs) <= Cardinality(Coming) + Owed

LEMMA AsleepStep == IInv /\ Asleep /\ [Next]_vars => Asleep'
<1> SUFFICES ASSUME IInv, Asleep, [Next]_vars PROVE Asleep'
  OBVIOUS
<1>a. Types
  BY DEF IInv
<1> USE DEF Asleep
<1>1. CASE UNCHANGED vars
  BY <1>1 DEF vars, worker
<1>2. CASE MenuStep
  <2>1. CASE Signal
    BY <2>1, <1>a DEF Signal, SignalOne, worker, Types, TypeOK
  <2>2. ASSUME NEW j \in Jobs, AddJob(j) PROVE Asleep'
    BY <2>2 DEF AddJob, worker
  <2>3. CASE Push \/ Show \/ Quit
    BY <2>3 DEF Push, Show, Quit, worker
  <2> QED BY <1>2, <2>1, <2>2, <2>3 DEF MenuStep
<1>3. ASSUME NEW w \in Workers, WorkerStep(w) PROVE Asleep'
  <2>a. \A v \in Workers \ {w} : pc'[v] = pc[v]
    BY <1>3, <1>a, Others
  <2>b. ASSUME pc[w] # "wait", pc'[w] # "wait", UNCHANGED <<waiting, signalled>>
        PROVE  Asleep'
    BY <2>a, <2>b
  <2> USE <1>a DEF Types, TypeOK, Goto, At, Report
  <2>1. CASE WorkerLock(w)
    <3>1. pc'[w] = "get_job" /\ signalled' = signalled \ {w} /\ waiting' = waiting
          /\ w \notin waiting
      BY <2>1 DEF WorkerLock
    <3> QED BY <3>1, <2>a
  <2>2. CASE Spurious(w)
    BY <2>2 DEF Spurious, worker
  <2>3. CASE GetJob(w)
    <3>1. CASE pc'[w] = "pop" /\ UNCHANGED waiting
      BY <2>3, <3>1, <2>b DEF GetJob
    <3>2. CASE pc'[w] = "wait" /\ waiting' = waiting \cup {w}
      BY <2>3, <3>2, <2>a DEF GetJob
    <3> QED BY <2>3, <3>1, <3>2 DEF GetJob
  <2>4. CASE PopJob(w)
    BY <2>4, <2>b DEF PopJob
  <2>5. CASE UpdateLock(w)
    BY <2>5, <2>b DEF UpdateLock
  <2>6. CASE Update(w)
    BY <2>6, <2>b DEF Update, Returns
  <2>7. CASE Check(w)
    BY <2>7, <2>b DEF Check
  <2>8. CASE Socket(w)
    BY <2>8, <2>b DEF Socket
  <2>9. CASE Io(w)
    BY <2>9, <2>b DEF Io
  <2>10. CASE Retry(w)
    BY <2>10, <2>b DEF Retry, Again
  <2> QED BY <1>3, <2>1, <2>2, <2>3, <2>4, <2>5, <2>6, <2>7, <2>8, <2>9, <2>10 DEF WorkerStep
<1> QED BY <1>1, <1>2, <1>3, Steps

LEMMA InUseStep == IInv /\ MutexInUse /\ [Next]_vars => MutexInUse'
<1> SUFFICES ASSUME IInv, MutexInUse, [Next]_vars PROVE MutexInUse'
  OBVIOUS
<1>a. Types
  BY DEF IInv
<1> USE ThreadAssumption DEF MutexInUse, Lock, Unlock
<1>1. CASE UNCHANGED vars
  BY <1>1 DEF vars, worker, menu
<1>2. CASE MenuStep
  <2>1. pc' = pc
    BY <1>2, MenuFrame
  <2>2. ASSUME NEW j \in Jobs, AddJob(j) PROVE MutexInUse'
    BY <2>1, <2>2 DEF AddJob
  <2>3. CASE Push \/ Signal \/ Show \/ Quit
    BY <2>1, <2>3 DEF Push, Signal, Show, Quit
  <2> QED BY <1>2, <2>2, <2>3 DEF MenuStep
<1>3. ASSUME NEW w \in Workers, WorkerStep(w) PROVE MutexInUse'
  <2>a. (\A v \in Workers \ {w} : pc'[v] = pc[v]) /\ main_pc' = main_pc
    BY <1>3, <1>a, Others
  <2>b. ASSUME mutex' = Free PROVE MutexInUse'
    BY <2>b
  <2>c. ASSUME mutex' = mutex,
               pc'[w] = pc[w] \/ pc[w] \notin {"get_job", "pop", "update"} \/ pc'[w] = "pop"
        PROVE  MutexInUse'
    BY <2>a, <2>c
  <2>d. ASSUME mutex' = w, pc'[w] \in {"get_job", "update"} PROVE MutexInUse'
    BY <2>a, <2>d
  <2> USE <1>a DEF Types, TypeOK, Goto, At, Report
  <2>1. CASE WorkerLock(w) \/ UpdateLock(w)
    BY <2>1, <2>d DEF WorkerLock, UpdateLock
  <2>2. CASE Spurious(w)
    BY <2>2, <2>c DEF Spurious, worker
  <2>3. CASE GetJob(w)
    <3>1. CASE pc'[w] = "pop" /\ UNCHANGED mutex
      BY <3>1, <2>c
    <3>2. CASE mutex' = Free
      BY <3>2, <2>b
    <3> QED BY <2>3, <3>1, <3>2 DEF GetJob
  <2>4. CASE PopJob(w) \/ Update(w)
    BY <2>4, <2>b DEF PopJob, Update
  <2>5. CASE Check(w)
    BY <2>5, <2>c DEF Check
  <2>6. CASE Socket(w)
    BY <2>6, <2>c DEF Socket
  <2>7. CASE Io(w)
    BY <2>7, <2>c DEF Io
  <2>8. CASE Retry(w)
    BY <2>8, <2>c DEF Retry, Again
  <2> QED BY <1>3, <2>1, <2>2, <2>3, <2>4, <2>5, <2>6, <2>7, <2>8 DEF WorkerStep
<1> QED BY <1>1, <1>2, <1>3, Steps

LEMMA ComingFinite == IsFiniteSet(Coming) /\ Cardinality(Coming) \in Nat
BY ThreadAssumption, FS_Subset, FS_CardinalityType DEF Coming

(* A step that takes no job, puts nobody to sleep and makes nobody turn away *)
(* leaves each job awaited.                                                 *)
LEMMA StillAwaited ==
    ASSUME Types, EachJobAwaited, UNCHANGED <<jobs, main_pc>>,
           waiting' \subseteq waiting, Coming \subseteq Coming'
    PROVE  EachJobAwaited'
<1>1. IsFiniteSet(Coming') /\ Coming' \subseteq Workers
  BY ThreadAssumption, FS_Subset DEF Coming
<1>2. Cardinality(Coming) <= Cardinality(Coming') /\ Cardinality(Coming') \in Nat
  BY <1>1, FS_Subset, FS_CardinalityType
<1>3. Owed \in Nat /\ Owed' = Owed /\ Len(jobs) \in Nat
  BY DEF Owed, Types, TypeOK
<1> QED BY <1>2, <1>3, ComingFinite DEF EachJobAwaited

LEMMA AwaitedStep == IInv /\ Asleep /\ EachJobAwaited /\ [Next]_vars => EachJobAwaited'
<1> SUFFICES ASSUME IInv, Asleep, EachJobAwaited, [Next]_vars PROVE EachJobAwaited'
  OBVIOUS
<1>a. Types /\ InHand /\ Numbered /\ Len(jobs) \in Nat
  BY DEF IInv, Types, TypeOK
<1>1. CASE UNCHANGED vars
  <2>1. Coming' = Coming /\ UNCHANGED <<jobs, main_pc, waiting>>
    BY <1>1 DEF vars, worker, menu, Coming
  <2> QED BY <2>1, <1>a, StillAwaited
<1>2. CASE MenuStep
  <2>1. pc' = pc
    BY <1>2, MenuFrame
  <2>2. ASSUME NEW j \in Jobs, AddJob(j) PROVE EachJobAwaited'
    <3>1. Coming' = Coming /\ Owed' = Owed /\ UNCHANGED <<jobs, waiting>>
      BY <2>1, <2>2 DEF AddJob, Coming, Owed
    <3> QED BY <3>1 DEF EachJobAwaited
  <2>3. CASE Push
    <3>1. Coming' = Coming /\ Owed = 0 /\ Owed' = 1 /\ waiting' = waiting
      BY <2>1, <2>3 DEF Push, Coming, Owed
    <3>2. main_s \in Jobs /\ jobs' = Append(jobs, main_s)
      BY <2>3, <1>a DEF Push, PushBack, Numbered
    <3>3. Len(jobs') = Len(jobs) + 1
      BY <3>2, <1>a DEF Types, TypeOK
    <3> QED BY <3>1, <3>3, <1>a, ComingFinite DEF EachJobAwaited
  <2>4. CASE Signal
    <3>1. jobs' = jobs /\ Owed = 1 /\ Owed' = 0
      BY <2>4 DEF Signal, Owed
    <3>2. ASSUME NEW w \in waiting, waiting' = waiting \ {w}, signalled' = signalled \cup {w}
          PROVE  EachJobAwaited'
      <4>1. w \in Workers /\ w \notin signalled /\ pc[w] = "wait"
        BY <3>2, <1>a DEF Types, TypeOK, Asleep
      <4>2. w \notin Coming /\ Coming' = Coming \cup {w}
        BY <4>1, <3>2, <2>1 DEF Coming
      <4>3. Cardinality(Coming') = Cardinality(Coming) + 1
        BY <4>2, ComingFinite, FS_AddElement
      <4> QED BY <4>3, <3>1, <3>2, <1>a, ComingFinite DEF EachJobAwaited
    <3>3. CASE waiting = {} /\ waiting' = {}
      BY <3>3 DEF EachJobAwaited
    <3> QED BY <2>4, <3>2, <3>3 DEF Signal, SignalOne
  <2>5. CASE Show \/ Quit
    <3>1. Coming' = Coming /\ Owed' = Owed /\ UNCHANGED <<jobs, waiting>>
      BY <2>1, <2>5 DEF Show, Quit, Coming, Owed
    <3> QED BY <3>1 DEF EachJobAwaited
  <2> QED BY <1>2, <2>2, <2>3, <2>4, <2>5 DEF MenuStep
<1>3. ASSUME NEW w \in Workers, WorkerStep(w) PROVE EachJobAwaited'
  <2>a. (\A v \in Workers \ {w} : pc'[v] = pc[v]) /\ main_pc' = main_pc
    BY <1>3, <1>a, Others
  <2>b. ASSUME w \in Coming => w \in Coming', UNCHANGED jobs, waiting' \subseteq waiting,
               signalled \ {w} \subseteq signalled'
        PROVE  EachJobAwaited'
    <3>1. Coming \subseteq Coming'
      BY <2>a, <2>b DEF Coming
    <3> QED BY <3>1, <2>a, <2>b, <1>a, StillAwaited
  <2> USE <1>a DEF Types, TypeOK, Goto, At, Report
  <2>1. CASE WorkerLock(w)
    <3>1. pc'[w] = "get_job" /\ signalled' = signalled \ {w} /\ UNCHANGED <<jobs, waiting>>
      BY <2>1 DEF WorkerLock
    <3> QED BY <3>1, <2>b DEF Coming
  <2>2. CASE Spurious(w)
    <3>1. pc'[w] = "wait" /\ w \in signalled' /\ signalled \subseteq signalled'
          /\ waiting' \subseteq waiting /\ UNCHANGED jobs
      BY <2>2 DEF Spurious, worker
    <3> QED BY <3>1, <2>b DEF Coming
  <2>3. CASE GetJob(w)
    <3>1. CASE pc'[w] = "pop" /\ UNCHANGED waiting
      BY <2>3, <3>1, <2>b DEF GetJob, Coming
    <3>2. CASE jobs = <<>>
      <4>1. Len(jobs') = 0
        BY <2>3, <3>2 DEF GetJob
      <4>2. IsFiniteSet(Coming') /\ Owed' \in Nat
        BY ThreadAssumption, FS_Subset DEF Coming, Owed
      <4>3. Cardinality(Coming') \in Nat
        BY <4>2, FS_CardinalityType
      <4> QED BY <4>1, <4>2, <4>3 DEF EachJobAwaited
    <3> QED BY <2>3, <3>1, <3>2 DEF GetJob
  <2>4. CASE PopJob(w)
    <3>1. pc[w] = "pop" /\ pc'[w] = "do_job" /\ UNCHANGED <<waiting, signalled>>
          /\ jobs # <<>> /\ jobs' = Tail(jobs)
      BY <2>4 DEF PopJob, InHand, HoldsJob
    <3>2. Len(jobs') = Len(jobs) - 1
      BY <3>1
    <3>3. w \in Coming /\ Coming' = Coming \ {w}
      BY <3>1, <2>a DEF Coming
    <3>4. Cardinality(Coming') = Cardinality(Coming) - 1
      BY <3>3, ComingFinite, FS_RemoveElement
    <3>5. Owed' = Owed /\ Owed \in Nat
      BY <2>a DEF Owed
    <3> QED BY <3>1, <3>2, <3>4, <3>5, ComingFinite DEF EachJobAwaited
  <2>5. ASSUME pc[w] \in {"do_job", "update_lock", "update", "socket", "io", "close", "retry"},
               UNCHANGED <<jobs, waiting, signalled>>
        PROVE  EachJobAwaited'
    BY <2>5, <2>b DEF Coming
  <2>6. CASE UpdateLock(w) \/ Update(w) \/ Check(w)
    BY <2>6, <2>5 DEF UpdateLock, Update, Check
  <2>7. CASE Socket(w) \/ Io(w) \/ Retry(w)
    BY <2>7, <2>5 DEF Socket, Io, Retry
  <2> QED BY <1>3, <2>1, <2>2, <2>3, <2>4, <2>6, <2>7 DEF WorkerStep
<1> QED BY <1>1, <1>2, <1>3, Steps

LEMMA WakeupsHold == Spec => [](Asleep /\ MutexInUse /\ EachJobAwaited)
<1>1. Init => Asleep /\ MutexInUse /\ EachJobAwaited
  BY ThreadAssumption DEF Init, Asleep, MutexInUse, EachJobAwaited
<1> DEFINE W == Asleep /\ MutexInUse /\ EachJobAwaited
<1>2. IInv /\ W /\ [Next]_vars => W'
  BY AsleepStep, InUseStep, AwaitedStep
<1> QED BY <1>1, <1>2, IInvHolds, PTL DEF Spec

(* add_job signals after its unlock, and pthread_cond_wait may return on its *)
(* own; still, while a worker sleeps, there is for each queued job another   *)
(* that is about to look at the queue, or a signal yet to be sent.           *)
THEOREM WakeupsSuffice == Spec => []EachJobAwaited
BY WakeupsHold, PTL

(* The mutex is held only from a lock to the unlock that ends the section,   *)
(* by the thread that is in it: no round of do_job, no status update and no  *)
(* wait leaves it locked.                                                   *)
THEOREM MutexGivenBack == Spec => [](MutexInUse /\ Critical)
<1>1. IInv => Critical
  BY DEF IInv
<1> QED BY <1>1, IInvHolds, WakeupsHold, PTL

=============================================================================
