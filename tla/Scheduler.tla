------------------------------ MODULE Scheduler ------------------------------
(***************************************************************************)
(* Threads, their two lists and the operations that move them:             *)
(* process/scheduler.c, the semaphores of spin.c, and the parts of         *)
(* process/process.c that create a process, end one and wait for one.  A   *)
(* process has one thread (create_thread has one caller).  There is one    *)
(* CPU.  Kernel code runs with interrupts enabled, so that the timer can   *)
(* switch threads between any two steps below; do_quit_thread alone        *)
(* disables them.  A list operation, schedule() and create_process are one *)
(* step each, although the code does not protect them.                     *)
(***************************************************************************)
EXTENDS Integers, Sequences, FiniteSets, Functions, ListOps

CONSTANTS
    Threads,   \* thread descriptors
    InitT,     \* the thread of init_main, which never sleeps nor ends
    NULL,      \* no thread: the value of current while none is loaded
    MaxPid,    \* pids are 0 .. MaxPid, 32766 in the code
    Sems,      \* addresses of semaphores
    SemInit,   \* their initial value
    MaxSem     \* bound on the value of a semaphore

Pids == 0 .. MaxPid
NoValue == -1       \* the pid of no process, the argument of no call

ASSUME SchedulerAssumption ==
    /\ IsFiniteSet(Threads) /\ InitT \in Threads /\ NULL \notin Threads
    /\ MaxPid \in Nat /\ SemInit \in Nat /\ MaxSem \in Nat
    /\ Cardinality(Threads) <= MaxPid + 1
    /\ Sems \cap (Pids \cup {NoValue}) = {}    \* an address is not a pid

VARIABLES
    running,    \* running_threads
    blocked,    \* blocked_threads
    current,    \* thiscpu_var(current)
    pc,         \* where each thread is in the kernel
    arg,        \* the semaphore or pid a thread in the kernel works on
    waitValue,  \* ThreadDescriptor.waitValue
    pid,        \* the pid of each thread's process
    bitmap,     \* pid_bitmap: the pids in use
    sem,        \* the value of each semaphore
    balance     \* for each semaphore the P that have returned minus the V

vars == <<running, blocked, current, pc, arg, waitValue, pid, bitmap, sem, balance>>

(* Control points of a thread:                                             *)
(*   none     no such thread                                               *)
(*   user     outside the operations below                                 *)
(*   p_wait   in do_passeren, has found no permit, before thread_wait      *)
(*   limbo    in thread_wait, off running_threads and on no list yet       *)
(*   listed   in thread_wait, on blocked_threads, before schedule          *)
(*   asleep   switched away in the schedule() of thread_wait               *)
(*   v_wake   in do_verhoog, has seen a negative value, before thread_resume *)
Points == {"none", "user", "p_wait", "limbo", "listed", "asleep", "v_wake"}

Del(list, t) == Those(list, Threads \ {t})     \* list_remove

TypeOK ==
    /\ running \in Seq(Threads) /\ blocked \in Seq(Threads)
    /\ current \in Threads \cup {NULL}
    /\ pc \in [Threads -> Points]
    /\ arg \in [Threads -> Sems \cup Pids \cup {NoValue}]
    /\ waitValue \in [Threads -> Sems \cup Pids]
    /\ pid \in [Threads -> Pids \cup {NoValue}]
    /\ bitmap \subseteq Pids
    /\ sem \in [Sems -> Int]
    /\ balance \in [Sems -> Int]

\* init_main runs and has enabled interrupts.
Init ==
    /\ running = <<InitT>> /\ blocked = <<>>
    /\ current = InitT
    /\ pc = [t \in Threads |-> IF t = InitT THEN "user" ELSE "none"]
    /\ arg = [t \in Threads |-> NoValue]
    /\ waitValue = [t \in Threads |-> 0]
    /\ pid = [t \in Threads |-> IF t = InitT THEN 0 ELSE NoValue]
    /\ bitmap = {0}
    /\ sem = [s \in Sems |-> SemInit]
    /\ balance = [s \in Sems |-> 0]

-----------------------------------------------------------------------------
\* add_thread_to_running puts a thread at the head of the list.
add_thread_to_running(list, t) == <<t>> \o list

remove_thread_from_runningLate(list, t) == list
remove_thread_from_running(list, t) == Del(list, t)

\* What returns when thread t is switched to: a sleeper leaves thread_wait, and
\* do_passeren with it.
Return(t) ==
    /\ pc' = [pc EXCEPT ![t] = IF @ = "asleep" THEN "user" ELSE @]
    /\ balance' = IF pc[t] = "asleep" /\ arg[t] \in Sems
                    THEN [balance EXCEPT ![arg[t]] = @ + 1] ELSE balance

SwitchKeepsHead(r) ==
    /\ r # <<>>
    /\ running' = r
    /\ current' = Head(r)
\* schedule() on list r: the head goes to the tail and runs.  InitT is always
\* on the list, so that it is never empty.
Switch(r) ==
    /\ r # <<>>
    /\ running' = Append(Tail(r), Head(r))
    /\ current' = Head(r)

\* The timer interrupt, sched_yield, and the yield at the end of do_quit_thread.
schedule ==
    /\ Switch(running)
    /\ Return(Head(running))
    /\ UNCHANGED <<blocked, arg, waitValue, pid, bitmap, sem>>

\* thread_wait in three steps: off the run queue, onto the blocked list (at its
\* head), and away.
WaitOn(t, value) ==
    /\ waitValue' = [waitValue EXCEPT ![t] = value]
    /\ arg' = [arg EXCEPT ![t] = value]
    /\ running' = remove_thread_from_running(running, t)
    /\ pc' = [pc EXCEPT ![t] = "limbo"]
    /\ UNCHANGED <<blocked, current, pid, bitmap, sem, balance>>

thread_wait_list(t) ==
    /\ current = t /\ pc[t] = "limbo"
    /\ blocked' = <<t>> \o blocked
    /\ pc' = [pc EXCEPT ![t] = "listed"]
    /\ UNCHANGED <<running, current, arg, waitValue, pid, bitmap, sem, balance>>

thread_wait_switch(t) ==
    /\ current = t /\ pc[t] = "listed"
    /\ Switch(running)
    /\ LET n == Head(running)
           gone == [pc EXCEPT ![t] = "asleep"]
       IN  /\ pc' = [gone EXCEPT ![n] = IF @ = "asleep" THEN "user" ELSE @]
           /\ balance' = IF gone[n] = "asleep" /\ arg[n] \in Sems
                           THEN [balance EXCEPT ![arg[n]] = @ + 1] ELSE balance
    /\ UNCHANGED <<blocked, arg, waitValue, pid, bitmap, sem>>

-----------------------------------------------------------------------------
(* Semaphores.                                                             *)

do_passerenOffByOne(t, s) ==
    /\ current = t /\ pc[t] = "user" /\ t # InitT
    /\ sem[s] > -Cardinality(Threads)
    /\ sem' = [sem EXCEPT ![s] = @ - 1]
    /\ IF sem[s] >= 0
         THEN balance' = [balance EXCEPT ![s] = @ + 1] /\ UNCHANGED <<pc, arg>>
         ELSE /\ pc' = [pc EXCEPT ![t] = "p_wait"]
              /\ arg' = [arg EXCEPT ![t] = s]
              /\ UNCHANGED balance
    /\ UNCHANGED <<running, blocked, current, waitValue, pid, bitmap>>
\* The decrement; with a permit do_passeren returns.
do_passeren(t, s) ==
    /\ current = t /\ pc[t] = "user" /\ t # InitT
    /\ sem[s] > -Cardinality(Threads)
    /\ sem' = [sem EXCEPT ![s] = @ - 1]
    /\ IF sem[s] > 0
         THEN balance' = [balance EXCEPT ![s] = @ + 1] /\ UNCHANGED <<pc, arg>>
         ELSE /\ pc' = [pc EXCEPT ![t] = "p_wait"]
              /\ arg' = [arg EXCEPT ![t] = s]
              /\ UNCHANGED balance
    /\ UNCHANGED <<running, blocked, current, waitValue, pid, bitmap>>

\* The call of thread_wait that follows when there was none.
passeren_wait(t) ==
    /\ current = t /\ pc[t] = "p_wait"
    /\ WaitOn(t, arg[t])

\* The increment; from a negative value thread_resume follows.
do_verhoog(t, s) ==
    /\ current = t /\ pc[t] = "user"
    /\ sem[s] < MaxSem
    /\ sem' = [sem EXCEPT ![s] = @ + 1]
    /\ balance' = [balance EXCEPT ![s] = @ - 1]
    /\ IF sem[s] < 0
         THEN /\ pc' = [pc EXCEPT ![t] = "v_wake"]
              /\ arg' = [arg EXCEPT ![t] = s]
         ELSE UNCHANGED <<pc, arg>>
    /\ UNCHANGED <<running, blocked, current, waitValue, pid, bitmap>>

WaitingFor(value) == {t \in Threads : waitValue[t] = value}

\* thread_resume(ThreadWaitMutex, s): the first thread of blocked_threads that
\* waits for s, if there is one, goes to the head of running_threads.
FirstWaiter(s) ==
    LET w == Those(blocked, WaitingFor(s))
    IN  IF w = <<>> THEN {} ELSE {Head(w)}

verhoog_resumeAll(t) ==
    /\ current = t /\ pc[t] = "v_wake"
    /\ pc' = [pc EXCEPT ![t] = "user"]
    /\ blocked' = Those(blocked, Threads \ WaitingFor(arg[t]))
    /\ running' = Those(blocked, WaitingFor(arg[t])) \o running
    /\ UNCHANGED <<current, arg, waitValue, pid, bitmap, sem, balance>>
verhoog_resume(t) ==
    /\ current = t /\ pc[t] = "v_wake"
    /\ pc' = [pc EXCEPT ![t] = "user"]
    /\ \/ /\ FirstWaiter(arg[t]) = {}
          /\ UNCHANGED <<blocked, running>>
       \/ \E w \in FirstWaiter(arg[t]) :
            /\ blocked' = Del(blocked, w)
            /\ running' = add_thread_to_running(running, w)
    /\ UNCHANGED <<current, arg, waitValue, pid, bitmap, sem, balance>>

-----------------------------------------------------------------------------
(* Processes.                                                              *)

Lowest(S) == {p \in S : \A q \in S : p <= q}
find_usable_pidCount == {Cardinality(bitmap)}
find_usable_pidNext == {p + 1 : p \in {q \in bitmap : \A r \in bitmap : r <= q}}
\* The lowest pid whose bit is clear; none is left when they are all in use.
find_usable_pid == Lowest(Pids \ bitmap)

\* create_process: a free pid, and a thread at the head of the queue.
create_process(t, n) ==
    /\ current = t /\ pc[t] = "user"
    /\ pc[n] = "none"
    /\ \E p \in find_usable_pid :
        /\ pid' = [pid EXCEPT ![n] = p]
        /\ bitmap' = bitmap \cup {p}
    /\ pc' = [pc EXCEPT ![n] = "user"]
    /\ waitValue' = [waitValue EXCEPT ![n] = 0]
    /\ arg' = [arg EXCEPT ![n] = NoValue]
    /\ running' = add_thread_to_running(running, n)
    /\ UNCHANGED <<blocked, current, sem, balance>>

do_waitpid(t, p) ==
    /\ current = t /\ pc[t] = "user" /\ t # InitT
    /\ WaitOn(t, p)

\* c->next: the thread behind t on its list, NULL for the head of the list.
NextOn(list, t) ==
    LET i == CHOOSE i \in 1 .. Len(list) : list[i] = t
    IN  IF i = Len(list) THEN NULL ELSE list[i + 1]
First(list) == IF list = <<>> THEN NULL ELSE Head(list)

VisitLate(w, p) ==
    LET on  == IF w.c \in Range(w.stay) THEN w.stay ELSE w.run
        run == add_thread_to_running(w.run, w.c)
    IN  IF waitValue[w.c] # p THEN [w EXCEPT !.c = NextOn(on, w.c)]
        ELSE [c |-> NextOn(run, w.c), stay |-> Del(w.stay, w.c), run |-> run]
\* One turn of the loop of thread_resume(ThreadWaitPid, p), at thread w.c of
\* blocked_threads: a thread that waits for p is resumed, once its next is read.
Visit(w, p) ==
    IF waitValue[w.c] # p THEN [w EXCEPT !.c = NextOn(w.stay, w.c)]
    ELSE [c    |-> NextOn(w.stay, w.c),
          stay |-> Del(w.stay, w.c),
          run  |-> add_thread_to_running(w.run, w.c)]

\* The loop, from the head of blocked_threads until it is back there: the threads
\* that stay, and running_threads (r before it) with those that were resumed.
resume_pid(p, r) ==
    LET walk[i \in 0 .. Len(blocked)] ==
          IF i = 0 THEN [c |-> First(blocked), stay |-> blocked, run |-> r]
          ELSE IF walk[i - 1].c = NULL THEN walk[i - 1]
          ELSE Visit(walk[i - 1], p)
    IN  walk[Len(blocked)]

\* do_quit_thread with interrupts disabled: destroy_thread and destroy_process,
\* then current = NULL.  The schedule() that follows is the action schedule.
do_quit_thread(t) ==
    /\ current = t /\ pc[t] = "user" /\ t # InitT
    /\ LET w == resume_pid(pid[t], remove_thread_from_running(running, t))
       IN  blocked' = w.stay /\ running' = w.run
    /\ bitmap' = bitmap \ {pid[t]}
    /\ pid' = [pid EXCEPT ![t] = NoValue]
    /\ pc' = [pc EXCEPT ![t] = "none"]
    /\ current' = NULL
    /\ UNCHANGED <<arg, waitValue, sem, balance>>

Next ==
    \/ schedule
    \/ \E t \in Threads : \/ thread_wait_list(t) \/ thread_wait_switch(t)
                          \/ passeren_wait(t) \/ verhoog_resume(t)
                          \/ do_quit_thread(t)
    \/ \E t \in Threads, s \in Sems : do_passeren(t, s) \/ do_verhoog(t, s)
    \/ \E t, n \in Threads : create_process(t, n)
    \/ \E t \in Threads, p \in Pids : do_waitpid(t, p)

\* The timer never stops.
Spec == Init /\ [][Next]_vars
FairSpec == Spec /\ WF_vars(schedule)

-----------------------------------------------------------------------------
\* A thread is on one list at most, and once.  A thread that is on neither has
\* been caught in thread_wait between its two list operations; a thread on the
\* blocked list is in thread_wait, with what it waits for written down.
OnOneList ==
    /\ NoRepeat(running) /\ NoRepeat(blocked)
    /\ Range(running) \cap Range(blocked) = {}
    /\ \A t \in Threads :
        /\ pc[t] = "none" => t \notin Range(running) \cup Range(blocked)
        /\ pc[t] \notin {"none", "limbo"} => t \in Range(running) \cup Range(blocked)
        /\ t \in Range(blocked) => /\ pc[t] \in {"listed", "asleep"}
                                   /\ waitValue[t] = arg[t]
    /\ InitT \in Range(running)

\* The pids in use are those of the processes that exist, and they differ.
PidsSound ==
    /\ bitmap = {pid[t] : t \in {u \in Threads : pc[u] # "none"}}
    /\ \A t, u \in Threads : pid[t] = pid[u] /\ pid[t] # NoValue => t = u

\* The threads that wait for semaphore s or are on their way to, and the V that
\* are on their way to wake one.
Waiters(s) == {t \in Threads :
                 \/ pc[t] \in {"p_wait", "limbo"} /\ arg[t] = s
                 \/ t \in Range(blocked) /\ waitValue[t] = s}
Wakers(s)  == {t \in Threads : pc[t] = "v_wake" /\ arg[t] = s}

\* The value of a semaphore never promises a waiter that is not there: when it
\* is negative, there are threads enough waiting or about to wait.
SemAccounting ==
    \A s \in Sems :
        Cardinality(Waiters(s)) - Cardinality(Wakers(s)) >= (IF sem[s] < 0 THEN -sem[s] ELSE 0)

\* do_passeren never returns more often than permits were there: the P that
\* returned are at most the initial permits and the V.
SemaphoreSafe == \A s \in Sems : balance[s] <= SemInit

\* When a process ends, the walk of thread_resume over blocked_threads misses no
\* thread that waits for its pid, wherever it stands on the list, and puts it on
\* the run queue; the others stay asleep.
ExitWakesAll ==
    [][\A t \in Threads : pc[t] # "none" /\ pc'[t] = "none" =>
          \A u \in Range(blocked) :
             IF waitValue[u] = pid[t] THEN u \in Range(running') \ Range(blocked')
             ELSE u \in Range(blocked')]_vars

\* Every thread on the run queue gets the CPU, unless processes are created or
\* threads resumed again and again: those are put in front of the others.
Inserts == Cardinality(Range(running')) > Cardinality(Range(running))
RunnableRuns ==
    \/ []<><<Inserts>>_vars
    \/ \A t \in Threads : t \in Range(running) ~> current = t

\* spin.c, do_verhoog: a negative value means that a thread is suspended, and
\* thread_resume wakes it.
VerhoogFindsWaiter ==
    \A t \in Threads : pc[t] = "v_wake" => FirstWaiter(arg[t]) # {}
=============================================================================
