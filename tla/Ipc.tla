-------------------------------- MODULE Ipc --------------------------------
(***************************************************************************)
(* The mailbox of a process, process/ipc.c: one message in the low part of *)
(* the kernel stack page, guarded by two ticket locks used as semaphores.  *)
(* Senders take the write lock, which the reader gives back; the reader    *)
(* takes the read lock, created taken, which senders give.                 *)
(***************************************************************************)
EXTENDS Integers, FiniteSets

CONSTANTS
    Senders,     \* threads that send to the process
    Reader,      \* the thread of the process
    Sizes,       \* sizes of messages, 0 among them
    TicketMod    \* number of values of a ticket counter, 2^32 in the code

\* What the code relies on: fewer threads than tickets, and one reader.
IpcAssumption ==
    /\ IsFiniteSet(Senders) /\ Reader \notin Senders /\ Sizes \subseteq Nat
    /\ TicketMod \in Nat /\ TicketMod > 2 /\ Cardinality(Senders) + 1 < TicketMod

VARIABLE ipc
    \* mem    shared_mem is set            from, size   what it holds
    \* wr, rd the two locks                pc, my       place and ticket of a thread
    \* len    the size argument            got          what the reader has copied
    \* unread the message was not read     hollow       an empty message was read

Threads == Senders \cup {Reader}
NoOne   == "nobody"
Free    == [tkt |-> 0, svc |-> 0]
Taken   == [tkt |-> 1, svc |-> 0]

Init ==
    ipc = [mem |-> FALSE, from |-> NoOne, size |-> 0, wr |-> Free, rd |-> Taken,
           pc |-> [t \in Threads |-> "idle"], my |-> [t \in Threads |-> 0],
           len |-> [s \in Senders |-> 0], got |-> NoOne,
           unread |-> FALSE, hollow |-> FALSE]

Inc(n) == (n + 1) % TicketMod
At(t, where) == ipc.pc[t] = where

\* create_thread sets shared_mem; until then senders are turned away.
create_thread ==
    /\ ~ipc.mem
    /\ ipc' = [ipc EXCEPT !.mem = TRUE]

\* do_send_message: the ticket, the wait, the bytes, the size, and the read lock.
do_send_message(s, n) ==
    /\ At(s, "idle")
    /\ ipc.mem
    /\ ipc' = [ipc EXCEPT !.pc[s] = "spin", !.len[s] = n,
                          !.my[s] = ipc.wr.tkt, !.wr.tkt = Inc(@)]
send_polled(s) ==
    /\ At(s, "spin") /\ ipc.wr.svc = ipc.my[s]
    /\ ipc' = [ipc EXCEPT !.pc[s] = "copy"]
send_bytes(s) ==
    /\ At(s, "copy")
    /\ ipc' = [ipc EXCEPT !.pc[s] = "size", !.from = s]
send_size(s) ==
    /\ At(s, "size")
    /\ ipc' = [ipc EXCEPT !.pc[s] = "give", !.size = ipc.len[s], !.unread = TRUE]
send_give(s) ==
    /\ At(s, "give")
    /\ ipc' = [ipc EXCEPT !.pc[s] = "idle", !.rd.svc = Inc(@)]

\* do_read_message: an empty message gives both locks, any other is copied and
\* gives the write lock.  The size is read once more for the result.
do_read_message ==
    /\ At(Reader, "idle") /\ ipc.mem
    /\ ipc' = [ipc EXCEPT !.pc[Reader] = "spin", !.got = NoOne,
                          !.my[Reader] = ipc.rd.tkt, !.rd.tkt = Inc(@)]
read_polledGivesEarly ==
    /\ At(Reader, "spin") /\ ipc.rd.svc = ipc.my[Reader]
    /\ ipc' = [ipc EXCEPT !.pc[Reader] = IF ipc.size = 0 THEN "empty" ELSE "copy",
                          !.wr.svc = Inc(@)]
read_polled ==
    /\ At(Reader, "spin") /\ ipc.rd.svc = ipc.my[Reader]
    /\ ipc' = [ipc EXCEPT !.pc[Reader] = IF ipc.size = 0 THEN "empty" ELSE "copy"]
read_empty ==
    /\ At(Reader, "empty")
    /\ ipc' = [ipc EXCEPT !.pc[Reader] = "gave", !.rd.svc = Inc(@),
                          !.unread = FALSE, !.hollow = TRUE]
read_bytes ==
    /\ At(Reader, "copy")
    /\ ipc' = [ipc EXCEPT !.pc[Reader] = "gave", !.got = ipc.from, !.unread = FALSE]
read_give ==
    /\ At(Reader, "gave")
    /\ ipc' = [ipc EXCEPT !.pc[Reader] = "result", !.wr.svc = Inc(@)]
read_result ==
    /\ At(Reader, "result")
    /\ ipc' = [ipc EXCEPT !.pc[Reader] = "idle"]

\* Nothing is claimed of what follows an empty message.
Next ==
    /\ ~ipc.hollow
    /\ \/ create_thread
       \/ \E s \in Senders :
            \/ \E n \in Sizes : do_send_message(s, n)
            \/ send_polled(s) \/ send_bytes(s) \/ send_size(s) \/ send_give(s)
       \/ do_read_message \/ read_polled \/ read_empty \/ read_bytes
       \/ read_give \/ read_result

Spec == Init /\ [][Next]_ipc

-----------------------------------------------------------------------------
Inside  == {s \in Senders : ipc.pc[s] \in {"copy", "size", "give"}}
Waiting == {s \in Senders : At(s, "spin")}
Reading == ipc.pc[Reader] \in {"copy", "empty", "gave"}

\* As long as no empty message was read, a message is never overwritten before it
\* was read and never read twice or half written, and nobody waits for nothing:
\* with the mailbox empty one of the waiting senders is being served, with a
\* message in it the reader is (the two locks of do_send_message and
\* do_read_message).  An empty message breaks both locks.
MailboxSound ==
    ~ipc.hollow =>
      /\ Cardinality(Inside) <= 1
      /\ Inside # {} => ~Reading
      /\ ipc.unread => \A s \in Inside : At(s, "give")
      /\ ipc.pc[Reader] \in {"copy", "empty"} => ipc.unread /\ Inside = {}
      /\ (Waiting # {} /\ Inside = {} /\ ~ipc.unread /\ ~Reading)
           => \E s \in Waiting : ipc.my[s] = ipc.wr.svc
      /\ (At(Reader, "spin") /\ ipc.unread /\ Inside = {})
           => ipc.my[Reader] = ipc.rd.svc
=============================================================================
