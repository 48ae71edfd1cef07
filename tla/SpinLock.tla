------------------------------ MODULE SpinLock ------------------------------
(***************************************************************************)
(* The ticket spin lock of kernel/spin.c on the one CPU the kernel starts. *)
(* Threads take raw locks (pipe.cpp, ipc.c) with interrupts enabled and    *)
(* can be preempted anywhere, inside the critical section too.  The lock   *)
(* of the watchdog queue (misc/tick.c) is taken with irq_spin_take, by     *)
(* threads and by the timer interrupt, which ends in schedule().           *)
(***************************************************************************)
EXTENDS Integers, FiniteSets

CONSTANTS
    Threads,      \* threads of the kernel
    Isr,          \* the timer interrupt handler, as a context of its own
    RawLocks,     \* locks used with raw_spin_take and raw_spin_give
    TickLock,     \* tick_q.spin, used with irq_spin_take and irq_spin_give
    TicketMod     \* number of values of a ticket counter, 2^32 in the code

Contexts == Threads \cup {Isr}
Locks    == RawLocks \cup {TickLock}
Tickets  == 0 .. TicketMod - 1

ASSUME ThreadsAssumption  == IsFiniteSet(Threads) /\ Isr \notin Threads
ASSUME LocksAssumption    == TickLock \notin RawLocks
\* An i32 counts more tickets than there can be threads (pids stop at 32766).
ASSUME TicketModAssumption ==
          TicketMod \in Nat /\ Cardinality(Contexts) < TicketMod

VARIABLES
    tkt,    \* Spin.tkt of each lock: the next ticket to hand out
    svc,    \* Spin.svc of each lock: the ticket being served
    pc,     \* where each context is in spin.c
    lock,   \* the lock a context is taking or holding
    my,     \* the local variable tkt of raw_spin_take and irq_spin_take
    key,    \* the interrupt flag saved by int_lock
    IF_,    \* the interrupt flag of the CPU
    cur     \* the context that runs on the CPU

vars == <<tkt, svc, pc, lock, my, key, IF_, cur>>

TypeOK ==
    /\ tkt \in [Locks -> Tickets]
    /\ svc \in [Locks -> Tickets]
    /\ pc \in [Contexts -> {"idle", "tick", "spin", "cs"}]
    /\ lock \in [Contexts -> Locks]
    /\ my \in [Contexts -> Tickets]
    /\ key \in [Contexts -> BOOLEAN]
    /\ IF_ \in BOOLEAN
    /\ cur \in Contexts

Init ==
    /\ tkt = [l \in Locks |-> 0]             \* SPIN_INIT
    /\ svc = [l \in Locks |-> 0]
    /\ pc = [c \in Contexts |-> "idle"]
    /\ lock = [c \in Contexts |-> TickLock]
    /\ my = [c \in Contexts |-> 0]
    /\ key = [c \in Contexts |-> FALSE]
    /\ IF_ = TRUE
    /\ cur \in Threads

-----------------------------------------------------------------------------
IncNoWrap(n) == n + 1
\* atomic32_inc: lock xadd on a counter that wraps around.
Inc(n) == IF n = TicketMod - 1 THEN 0 ELSE n + 1

\* The fetch-and-increment of the ticket counter: the old value is the ticket.
DrawTicket(c, l) ==
    /\ my'   = [my   EXCEPT ![c] = tkt[l]]
    /\ tkt'  = [tkt  EXCEPT ![l] = Inc(tkt[l])]
    /\ lock' = [lock EXCEPT ![c] = l]
    /\ pc'   = [pc   EXCEPT ![c] = "spin"]

\* A give returns: its context forgets the locals of the take, and goes on at p.
Leave(c, p) ==
    /\ svc'  = [svc  EXCEPT ![lock[c]] = Inc(svc[lock[c]])]
    /\ pc'   = [pc   EXCEPT ![c] = p]
    /\ my'   = [my   EXCEPT ![c] = 0]
    /\ key'  = [key  EXCEPT ![c] = FALSE]
    /\ lock' = [lock EXCEPT ![c] = TickLock]
    /\ UNCHANGED <<tkt, cur>>

raw_spin_take(t, l) ==
    /\ cur = t /\ pc[t] = "idle"
    /\ DrawTicket(t, l)
    /\ UNCHANGED <<svc, key, IF_, cur>>

raw_spin_pollSigned(t) ==
    /\ cur = t /\ pc[t] = "spin" /\ lock[t] \in RawLocks
    /\ svc[lock[t]] >= my[t]
    /\ pc' = [pc EXCEPT ![t] = "cs"]
    /\ UNCHANGED <<tkt, svc, lock, my, key, IF_, cur>>
raw_spin_pollNoOrder(t) ==
    /\ cur = t /\ pc[t] = "spin" /\ lock[t] \in RawLocks
    /\ \A c \in Contexts : ~(pc[c] = "cs" /\ lock[c] = lock[t])
    /\ pc' = [pc EXCEPT ![t] = "cs"]
    /\ UNCHANGED <<tkt, svc, lock, my, key, IF_, cur>>
\* The poll of raw_spin_take that ends its loop.  A poll that fails changes
\* nothing, so it is a stuttering step.
raw_spin_poll(t) ==
    /\ cur = t /\ pc[t] = "spin" /\ lock[t] \in RawLocks
    /\ svc[lock[t]] = my[t]
    /\ pc' = [pc EXCEPT ![t] = "cs"]
    /\ UNCHANGED <<tkt, svc, lock, my, key, IF_, cur>>

raw_spin_give(t) ==
    /\ cur = t /\ pc[t] = "cs" /\ lock[t] \in RawLocks
    /\ Leave(t, "idle")
    /\ UNCHANGED IF_

irq_spin_takeNoLock(c) ==
    /\ cur = c /\ pc[c] = (IF c = Isr THEN "tick" ELSE "idle")
    /\ key' = [key EXCEPT ![c] = IF_]
    /\ DrawTicket(c, TickLock)
    /\ UNCHANGED <<svc, IF_, cur>>
\* int_lock, then the ticket.  A thread comes from its own code, the interrupt
\* handler from tick_proc.
irq_spin_take(c) ==
    /\ cur = c /\ pc[c] = (IF c = Isr THEN "tick" ELSE "idle")
    /\ key' = [key EXCEPT ![c] = IF_]
    /\ IF_' = FALSE
    /\ DrawTicket(c, TickLock)
    /\ UNCHANGED <<svc, cur>>

\* One poll of irq_spin_take.  A failed one restores the interrupt flag for the
\* relax() and disables interrupts again at the next poll.
irq_spin_poll(c) ==
    /\ cur = c /\ pc[c] = "spin" /\ lock[c] = TickLock
    /\ IF svc[TickLock] = my[c]
         THEN pc' = [pc EXCEPT ![c] = "cs"] /\ IF_' = FALSE
         ELSE IF_' = key[c] /\ UNCHANGED pc
    /\ UNCHANGED <<tkt, svc, lock, my, key, cur>>

irq_spin_giveNoRestore(c) ==
    /\ cur = c /\ pc[c] = "cs" /\ lock[c] = TickLock
    /\ \E p \in {"idle"} \cup (IF c = Isr THEN {"tick"} ELSE {}) : Leave(c, p)
    /\ UNCHANGED IF_
\* The interrupt handler is done (idle) or has another expired watchdog, for
\* which tick_proc takes the lock again after calling it.
irq_spin_give(c) ==
    /\ cur = c /\ pc[c] = "cs" /\ lock[c] = TickLock
    /\ IF_' = (IF_ \/ key[c])
    /\ \E p \in {"idle"} \cup (IF c = Isr THEN {"tick"} ELSE {}) : Leave(c, p)

\* The timer fires in a thread: loapic_timer_proc starts with tick_proc.
TimerInterrupt ==
    /\ IF_ /\ cur \in Threads
    /\ cur' = Isr
    /\ IF_' = FALSE
    /\ pc' = [pc EXCEPT ![Isr] = "tick"]
    /\ UNCHANGED <<tkt, svc, lock, my, key>>

\* The schedule() that ends loapic_timer_proc, and the iretq into thread t.
\* Which thread is next is the scheduler's business (module Scheduler).
schedule(t) ==
    /\ cur = Isr /\ pc[Isr] = "idle"
    /\ cur' = t
    /\ IF_' = TRUE
    /\ UNCHANGED <<tkt, svc, pc, lock, my, key>>

-----------------------------------------------------------------------------
\* What a context does once it has asked for a lock.
Progress(c) ==
    raw_spin_poll(c) \/ raw_spin_give(c) \/ irq_spin_poll(c) \/ irq_spin_give(c)

Next ==
    \/ \E t \in Threads, l \in RawLocks : raw_spin_take(t, l)
    \/ \E t \in Threads : raw_spin_poll(t) \/ raw_spin_give(t)
    \/ \E c \in Contexts : irq_spin_take(c) \/ irq_spin_poll(c) \/ irq_spin_give(c)
    \/ TimerInterrupt
    \/ \E t \in Threads : schedule(t)

Spec == Init /\ [][Next]_vars

\* Threads run in turn (the run queue is a round robin, SF of schedule), the
\* timer fires again and again (an interrupt that comes while they are disabled
\* stays pending in the local APIC, hence SF), its period is long enough for a thread to poll
\* or to leave a critical section (SF of Progress), and the interrupt handler
\* runs to its end.
Fairness ==
    /\ SF_vars(TimerInterrupt)
    /\ WF_vars(irq_spin_take(Isr))
    /\ SF_vars(irq_spin_give(Isr) /\ pc'[Isr] = "idle")
    /\ \A t \in Threads : SF_vars(schedule(t))
    /\ \A c \in Contexts : SF_vars(Progress(c))

FairSpec == Spec /\ Fairness

-----------------------------------------------------------------------------
Waiting(c, l) == pc[c] = "spin" /\ lock[c] = l
Holding(c, l) == pc[c] = "cs" /\ lock[c] = l
Asking(c, l)  == Waiting(c, l) \/ Holding(c, l)

\* Two contexts are never between take and give of the same lock, although
\* every thread can be preempted there and ticket counters wrap around.
MutualExclusion ==
    \A l \in Locks : \A c, d \in Contexts :
        Holding(c, l) /\ Holding(d, l) => c = d

\* The timer interrupt never waits: whoever it interrupts neither holds nor
\* waits for the watchdog lock, or the handler would spin for ever with
\* interrupts disabled.  irq_spin_take's int_lock is what this needs.
InterruptNeverSpins ==
    Waiting(Isr, TickLock) =>
        /\ svc[TickLock] = my[Isr]
        /\ \A t \in Threads : ~Asking(t, TickLock)

\* How many tickets are served between ticket s and ticket n.
Gap(n, s) == IF n >= s THEN n - s ELSE n - s + TicketMod

\* The contexts asking for lock l, in the order in which they are served.
LineSet(l) == {c \in Contexts : Asking(c, l)}
Line(l) == [i \in 1 .. Cardinality(LineSet(l)) |->
              CHOOSE c \in LineSet(l) : Gap(my[c], svc[l]) = i - 1]

\* The ticket lock is a first-come-first-served lock: it implements FifoLock,
\* whose state is the line in front of each lock and who has been let in.
Fifo == INSTANCE FifoLock WITH
            Customers <- Contexts,
            Lines <- Locks,
            line <- [l \in Locks |-> Line(l)],
            inside <- {c \in Contexts : pc[c] = "cs"}

FifoLockSpec == Fifo!Spec

\* Whoever draws a ticket is served, however often the others come back.
NoStarvation ==
    \A t \in Threads : \A l \in Locks : Waiting(t, l) ~> Holding(t, l)
=============================================================================
