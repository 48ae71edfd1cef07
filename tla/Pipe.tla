-------------------------------- MODULE Pipe --------------------------------
(***************************************************************************)
(* PIPE_File of fs/pipe/pipe.cpp: a ring buffer that several threads read  *)
(* and write.  empty() and full() are looked at without the lock; one      *)
(* chunk is then copied under it, and read and write call themselves with  *)
(* what is left.  Threads can be preempted between any two steps.  When a  *)
(* thread is switched to, the signal handler of its process runs above it  *)
(* with interrupts disabled, and may write the pipe as well: the shell's   *)
(* on_signal does.                                                         *)
(***************************************************************************)
EXTENDS Integers, Sequences, FiniteSets

CONSTANTS
    Threads,     \* threads that have the pipe open, and handlers above them
    Bytes,       \* values of a byte
    PipeSize,    \* pipe_size, 4096 in the code
    MaxLen,      \* bound on the length of a call
    TicketMod    \* number of values of a ticket counter, 2^32 in the code

Positions == 0 .. PipeSize - 1
Tickets   == 0 .. TicketMod - 1

ASSUME PipeAssumption ==
    /\ PipeSize \in Nat /\ PipeSize > 0 /\ MaxLen \in Nat
    /\ IsFiniteSet(Threads)
    /\ TicketMod \in Nat /\ Cardinality(Threads) < TicketMod

VARIABLES
    pipe,       \* the buffer
    rpos,       \* where the next byte is read
    wpos,       \* where the next byte is written
    tkt, svc,   \* the counters of the lock
    op,         \* what each thread does: "none", "read" or "write"
    pc,         \* where it is in read or write
    data,       \* write: the bytes not yet written
    len,        \* read: how many bytes are still asked for
    buf,        \* read: the bytes copied to the caller's buffer
    n,          \* read_size or write_size
    my,         \* the ticket drawn in raw_spin_take
    stopped     \* a handler spins with interrupts disabled, and nothing else runs

lockvars == <<tkt, svc, my>>
pipevars == <<pipe, rpos, wpos, tkt, svc, op, pc, data, len, buf, n, my>>
vars == <<pipevars, stopped>>

Strings == UNION {[1 .. k -> Bytes] : k \in 0 .. MaxLen}

TypeOK ==
    /\ pipe \in [Positions -> Bytes]
    /\ rpos \in Positions /\ wpos \in Positions
    /\ tkt \in Tickets /\ svc \in Tickets
    /\ op \in [Threads -> {"none", "read", "write"}]
    /\ pc \in [Threads -> {"idle", "check", "take", "spin", "copy", "move", "give"}]
    /\ data \in [Threads -> Strings]
    /\ len \in [Threads -> 0 .. MaxLen]
    /\ buf \in [Threads -> Strings]
    /\ n \in [Threads -> 0 .. MaxLen]
    /\ my \in [Threads -> Tickets]
    /\ stopped \in BOOLEAN

\* The constructor sets the positions.  It leaves the lock and the bytes of the
\* buffer as they were in the memory kmalloc returned.  Of the counters only the
\* difference matters: the lock works if it is 0, and serves nobody if it is more
\* than the threads there are.  (In between it would serve nobody at first, and
\* a thread twice once the counters have wrapped around: not modelled.)
PIPE_File ==
    /\ rpos = 0 /\ wpos = 0
    /\ tkt = 0 /\ svc \in {0} \cup {k \in Tickets : k > Cardinality(Threads)}
    /\ \E b \in Bytes : pipe = [i \in Positions |-> b]

Init ==
    /\ PIPE_File
    /\ op   = [t \in Threads |-> "none"]
    /\ pc   = [t \in Threads |-> "idle"]
    /\ data = [t \in Threads |-> <<>>]
    /\ len  = [t \in Threads |-> 0]
    /\ buf  = [t \in Threads |-> <<>>]
    /\ n    = [t \in Threads |-> 0]
    /\ my   = [t \in Threads |-> 0]
    /\ stopped = FALSE

-----------------------------------------------------------------------------
round(a) == (a + PipeSize) % PipeSize
empty    == rpos = wpos
full     == round(wpos + 1) = rpos
cal_size == round(wpos - rpos)

Least(S) == CHOOSE x \in S : \A y \in S : x <= y

\* Thread t takes a step, as long as threads run at all.
Goto(t, from, to) ==
    /\ ~stopped /\ UNCHANGED stopped
    /\ pc[t] = from /\ pc' = [pc EXCEPT ![t] = to]

\* A call ends; what it leaves in its locals means nothing any more.
Return(t) ==
    /\ op'   = [op   EXCEPT ![t] = "none"]
    /\ data' = [data EXCEPT ![t] = <<>>]
    /\ len'  = [len  EXCEPT ![t] = 0]
    /\ buf'  = [buf  EXCEPT ![t] = <<>>]
    /\ n'    = [n    EXCEPT ![t] = 0]

read_call(t, k) ==
    /\ op[t] = "none"
    /\ op' = [op EXCEPT ![t] = "read"]
    /\ len' = [len EXCEPT ![t] = k]
    /\ Goto(t, "idle", "check")
    /\ UNCHANGED <<pipe, rpos, wpos, data, buf, n, lockvars>>

write_call(t, s) ==
    /\ op[t] = "none"
    /\ op' = [op EXCEPT ![t] = "write"]
    /\ data' = [data EXCEPT ![t] = s]
    /\ Goto(t, "idle", "check")
    /\ UNCHANGED <<pipe, rpos, wpos, len, buf, n, lockvars>>

\* The first lines of read and write, without the lock.
Nothing(t) ==
    \/ op[t] = "read"  /\ (empty \/ len[t] = 0)
    \/ op[t] = "write" /\ (full \/ data[t] = <<>>)
check(t) ==
    /\ IF Nothing(t)
         THEN Goto(t, "check", "idle") /\ Return(t)
         ELSE Goto(t, "check", "take") /\ UNCHANGED <<op, data, len, buf, n>>
    /\ UNCHANGED <<pipe, rpos, wpos, lockvars>>

raw_spin_takeNoWait(t) ==
    /\ Goto(t, "take", "spin")
    /\ my' = [my EXCEPT ![t] = svc]
    /\ tkt' = (tkt + 1) % TicketMod
    /\ UNCHANGED <<pipe, rpos, wpos, svc, op, data, len, buf, n>>
raw_spin_take(t) ==
    /\ Goto(t, "take", "spin")
    /\ my' = [my EXCEPT ![t] = tkt]
    /\ tkt' = (tkt + 1) % TicketMod
    /\ UNCHANGED <<pipe, rpos, wpos, svc, op, data, len, buf, n>>

ChunkNoWrap(t) ==
    IF op[t] = "read" THEN Least({len[t], cal_size})
    ELSE Least({Len(data[t]), PipeSize - cal_size - 1})
\* How much is copied at once: up to the end of the buffer, no more than is
\* there (read) or than leaves one byte free (write).
Chunk(t) ==
    IF op[t] = "read" THEN Least({len[t], PipeSize - rpos, cal_size})
    ELSE Least({Len(data[t]), PipeSize - wpos, PipeSize - cal_size - 1})

\* The lock is ours: the size of the chunk is fixed.
raw_spin_poll(t) ==
    /\ svc = my[t]
    /\ Goto(t, "spin", "copy")
    /\ n' = [n EXCEPT ![t] = Chunk(t)]
    /\ UNCHANGED <<pipe, rpos, wpos, op, data, len, buf, lockvars>>

\* memcpy between the buffer and the caller's memory.
copy(t) ==
    /\ Goto(t, "copy", "move")
    /\ IF op[t] = "read"
         THEN /\ buf' = [buf EXCEPT ![t] = @ \o [i \in 1 .. n[t] |-> pipe[rpos + i - 1]]]
              /\ UNCHANGED pipe
         ELSE /\ pipe' = [i \in Positions |-> IF i \in wpos .. wpos + n[t] - 1
                                                THEN data[t][i - wpos + 1] ELSE pipe[i]]
              /\ UNCHANGED buf
    /\ UNCHANGED <<rpos, wpos, op, data, len, n, lockvars>>

moveNoRound(t) ==
    /\ Goto(t, "move", "give")
    /\ IF op[t] = "read"
         THEN /\ rpos' = rpos + n[t]
              /\ len' = [len EXCEPT ![t] = @ - n[t]]
              /\ UNCHANGED <<wpos, data>>
         ELSE /\ wpos' = wpos + n[t]
              /\ data' = [data EXCEPT ![t] = SubSeq(@, n[t] + 1, Len(@))]
              /\ UNCHANGED <<rpos, len>>
    /\ UNCHANGED <<pipe, op, buf, n, lockvars>>
\* The position advances past the chunk; len and data are those of the call that
\* read or write makes for the rest.
move(t) ==
    /\ Goto(t, "move", "give")
    /\ IF op[t] = "read"
         THEN /\ rpos' = round(rpos + n[t])
              /\ len' = [len EXCEPT ![t] = @ - n[t]]
              /\ UNCHANGED <<wpos, data>>
         ELSE /\ wpos' = round(wpos + n[t])
              /\ data' = [data EXCEPT ![t] = SubSeq(@, n[t] + 1, Len(@))]
              /\ UNCHANGED <<rpos, len>>
    /\ UNCHANGED <<pipe, op, buf, n, lockvars>>

raw_spin_giveOnce(t) ==
    /\ Goto(t, "give", "check")
    /\ svc' = IF n[t] = 0 THEN svc ELSE (svc + 1) % TicketMod
    /\ n' = [n EXCEPT ![t] = 0]
    /\ my' = [my EXCEPT ![t] = 0]
    /\ UNCHANGED <<pipe, rpos, wpos, tkt, op, data, len, buf>>
\* The lock is given back, and read or write starts again with the rest.
raw_spin_give(t) ==
    /\ Goto(t, "give", "check")
    /\ svc' = (svc + 1) % TicketMod
    /\ n' = [n EXCEPT ![t] = 0]
    /\ my' = [my EXCEPT ![t] = 0]
    /\ UNCHANGED <<pipe, rpos, wpos, tkt, op, data, len, buf>>

\* signalCheck, when a thread is switched to, calls a handler that writes the pipe
\* with interrupts disabled.  If nobody is in line for the lock, that is a write
\* that no other call comes in between of, one of those above.  If somebody is,
\* the thread below or one that was preempted, the handler's raw_spin_take waits
\* for a thread that cannot run.
signalCheck ==
    /\ ~stopped
    /\ ~full /\ tkt # svc
    /\ stopped' = TRUE
    /\ UNCHANGED pipevars

Step(t) == \/ check(t) \/ raw_spin_take(t) \/ raw_spin_poll(t)
           \/ copy(t) \/ move(t) \/ raw_spin_give(t)

Next ==
    \/ \E t \in Threads, k \in 0 .. MaxLen : read_call(t, k)
    \/ \E t \in Threads, s \in Strings : write_call(t, s)
    \/ \E t \in Threads : Step(t)
    \/ signalCheck

Spec == Init /\ [][Next]_vars

\* A thread in read or write never sleeps and stays on the run queue; the timer
\* switches to it as long as the machine is not stopped.
FairSpec == Spec /\ \A t \in Threads : WF_vars(Step(t))

-----------------------------------------------------------------------------
Locked(t) == pc[t] \in {"copy", "move", "give"}

\* What memcpy touches: a reader's chunk is unread bytes, a writer's chunk is free
\* space and leaves one byte free, neither runs over the end of the buffer, and
\* this still holds when the chunk is copied, whoever ran since it was measured.
ChunkInBounds ==
    \A t \in Threads : pc[t] \in {"copy", "move"} =>
        IF op[t] = "read"
          THEN rpos + n[t] <= PipeSize /\ n[t] <= cal_size
          ELSE wpos + n[t] <= PipeSize /\ cal_size + n[t] < PipeSize

\* The pipe is a bounded queue of bytes: its contents are the bytes between rpos
\* and wpos, and what a reader has received is what it copied before rpos moved.
Contents == [i \in 1 .. cal_size |-> pipe[round(rpos + i - 1)]]
Received(t) == IF op[t] = "read" /\ pc[t] = "move"
                 THEN SubSeq(buf[t], 1, Len(buf[t]) - n[t]) ELSE buf[t]
Queue == INSTANCE BoundedPipe WITH
            Callers <- Threads,
            Capacity <- PipeSize - 1,
            queue <- Contents,
            call <- op,
            todo <- data,
            want <- len,
            got <- [t \in Threads |-> Received(t)]

\* read and write implement that queue: no byte is lost, doubled, made up or
\* reordered by two readers or two writers that both found something to do.
PipeIsQueue == Queue!Spec

\* If the lock started with equal counters and from some time on no call is
\* made, every call returns, unless a signal handler has written the pipe while
\* a call was in line for its lock.
NewCall == \E t \in Threads : pc[t] = "idle" /\ pc'[t] = "check"
CallsReturn ==
    tkt = svc => (<>[][~NewCall]_vars => []<>(stopped \/ \A t \in Threads : pc[t] = "idle"))
=============================================================================
