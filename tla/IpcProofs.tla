----------------------------- MODULE IpcProofs ------------------------------
(***************************************************************************)
(* Proofs about Ipc, for any number of senders: the two locks, each taken  *)
(* by one side and given by the other, hand the mailbox back and forth.    *)
(***************************************************************************)
EXTENDS Ipc, Lemmas

SenderPlaces == {"idle", "spin", "copy", "size", "give"}
ReaderPlaces == {"idle", "spin", "copy", "empty", "gave", "result"}

TypeOK ==
    /\ ipc \in [mem : BOOLEAN, from : Senders \cup {NoOne}, size : Nat,
                wr : [tkt : 0 .. TicketMod - 1, svc : 0 .. TicketMod - 1],
                rd : [tkt : 0 .. TicketMod - 1, svc : 0 .. TicketMod - 1],
                pc : [Threads -> SenderPlaces \cup ReaderPlaces],
                my : [Threads -> 0 .. TicketMod - 1],
                len : [Senders -> Nat], got : Senders \cup {NoOne},
                unread : BOOLEAN, hollow : BOOLEAN]
    /\ \A s \in Senders : ipc.pc[s] \in SenderPlaces
    /\ ipc.pc[Reader] \in ReaderPlaces

\* A message was sent and the reader has not seen it yet.
Sent == ipc.unread /\ Inside = {} /\ ~Reading

\* Who owns the mailbox: one sender, the message, the reader, or nobody.
PhaseInv ==
    /\ \A s, u \in Inside : s = u
    /\ Inside # {} => ~Reading
    /\ \A s \in Inside : ipc.unread <=> At(s, "give")
    /\ ipc.pc[Reader] \in {"copy", "empty"} => ipc.unread
    /\ At(Reader, "gave") => ~ipc.unread

\* The open tickets of the write lock.  From send_give to read_give the one that
\* is served belongs to no sender any more: the reader stands for it.
Holders == Waiting \cup Inside \cup (IF Sent \/ Reading THEN {Reader} ELSE {})
Ticket  == [t \in Threads |-> IF t = Reader THEN ipc.wr.svc ELSE ipc.my[t]]
WriteLockInv ==
    /\ InOrder(TicketMod, Holders, Ticket, ipc.wr.tkt, ipc.wr.svc)
    /\ \A s \in Inside : ipc.my[s] = ipc.wr.svc

\* The read lock is taken but for the time in which a message waits: a reader
\* that spins has the last ticket, and a message in the mailbox serves it.
ReadLockInv ==
    /\ Ahead(TicketMod, ipc.rd.tkt, ipc.rd.svc) =
          (IF At(Reader, "spin") THEN 2 ELSE 1) - (IF Sent THEN 1 ELSE 0)
    /\ At(Reader, "spin") => Inc(ipc.my[Reader]) = ipc.rd.tkt

IInv == TypeOK /\ (~ipc.hollow => PhaseInv /\ WriteLockInv /\ ReadLockInv)

-----------------------------------------------------------------------------
\* Everybody who can be in line is one of finitely many threads.
LEMMA HoldersFinite ==
    ASSUME IpcAssumption
    PROVE  /\ IsFiniteSet(Holders) /\ Cardinality(Holders) \in Nat
           /\ \A s \in Senders \ Holders : Cardinality(Holders) <= Cardinality(Senders)
<1>1. IsFiniteSet(Threads) /\ Cardinality(Threads) = Cardinality(Senders) + 1
      /\ Cardinality(Senders) \in Nat
  BY FS_AddElement, FS_CardinalityType DEF IpcAssumption, Threads
<1>2. Holders \in SUBSET Threads
  BY DEF Holders, Waiting, Inside, Threads
<1>3. IsFiniteSet(Holders) /\ Cardinality(Holders) \in Nat
  BY <1>1, <1>2, FS_Subset, FS_CardinalityType
<1>4. ASSUME NEW s \in Senders \ Holders
      PROVE  Cardinality(Holders) <= Cardinality(Senders)
  <2>1. Holders \in SUBSET (Threads \ {s}) /\ s \in Threads
    BY <1>2, <1>4 DEF Threads
  <2>2. IsFiniteSet(Threads \ {s}) /\ Cardinality(Threads \ {s}) = Cardinality(Senders)
    <3>1. IsFiniteSet(Threads \ {s}) /\ Cardinality(Threads \ {s}) = Cardinality(Threads) - 1
      BY <1>1, <2>1, FS_RemoveElement
    <3> QED  BY <1>1, <3>1
  <2> QED  BY <2>1, <2>2, FS_Subset
<1> QED  BY <1>3, <1>4

\* Counters stay in their range.
LEMMA IncFacts ==
    ASSUME IpcAssumption, NEW k \in 0 .. TicketMod - 1
    PROVE  /\ Inc(k) \in 0 .. TicketMod - 1
           /\ Inc(k) = IF k + 1 = TicketMod THEN 0 ELSE k + 1
<1>1. TicketMod \in Nat /\ TicketMod > 2
  BY DEF IpcAssumption
<1>2. k + 1 \in 0 .. 3 * TicketMod - 1
  BY <1>1
<1> QED  BY <1>1, <1>2, ModCases DEF Inc

\* The initial state: the mailbox is empty, the read lock taken.
LEMMA InitInv == ASSUME IpcAssumption PROVE Init => IInv
<1> SUFFICES ASSUME Init PROVE IInv
  OBVIOUS
<1>0. TicketMod \in Nat /\ TicketMod > 2 /\ Reader \notin Senders
  BY DEF IpcAssumption
<1>1. TypeOK
  BY <1>0 DEF Init, TypeOK, Free, Taken, SenderPlaces, ReaderPlaces, Threads
<1>2. /\ Inside = {} /\ Waiting = {} /\ ~Reading /\ ~Sent /\ At(Reader, "idle")
      /\ ~ipc.unread /\ ipc.wr.tkt = 0 /\ ipc.wr.svc = 0
      /\ ipc.rd.tkt = 1 /\ ipc.rd.svc = 0
  BY DEF Init, Inside, Waiting, Reading, Sent, At, Threads, Free, Taken
<1>3. Holders = {} /\ Cardinality({}) = 0
  BY <1>2, FS_EmptySet DEF Holders
<1>4. PhaseInv
  BY <1>2 DEF PhaseInv, At
<1>5. WriteLockInv
  BY <1>0, <1>2, <1>3 DEF WriteLockInv, InOrder, Ahead
<1>6. ReadLockInv
  BY <1>0, <1>2 DEF ReadLockInv, Ahead, At
<1> QED  BY <1>1, <1>4, <1>5, <1>6 DEF IInv

\* Every step keeps the types.
LEMMA TypeStep == ASSUME IpcAssumption PROVE TypeOK /\ [Next]_ipc => TypeOK'
<1> SUFFICES ASSUME TypeOK, [Next]_ipc PROVE TypeOK'
  OBVIOUS
<1>0. Reader \notin Senders /\ Sizes \subseteq Nat
  BY DEF IpcAssumption
<1>01. /\ Inc(ipc.wr.tkt) \in 0 .. TicketMod - 1 /\ Inc(ipc.wr.svc) \in 0 .. TicketMod - 1
       /\ Inc(ipc.rd.tkt) \in 0 .. TicketMod - 1 /\ Inc(ipc.rd.svc) \in 0 .. TicketMod - 1
  BY IncFacts DEF TypeOK
<1> USE <1>0 DEF TypeOK, Threads, SenderPlaces, ReaderPlaces
<1>1. CASE create_thread
  BY <1>1 DEF create_thread
<1>2. ASSUME NEW s \in Senders, NEW n \in Sizes, do_send_message(s, n) PROVE TypeOK'
  BY <1>01, <1>2 DEF do_send_message
<1>3. ASSUME NEW s \in Senders, send_polled(s) PROVE TypeOK'
  BY <1>3 DEF send_polled
<1>4. ASSUME NEW s \in Senders, send_bytes(s) PROVE TypeOK'
  BY <1>4 DEF send_bytes
<1>5. ASSUME NEW s \in Senders, send_size(s) PROVE TypeOK'
  BY <1>5 DEF send_size
<1>6. ASSUME NEW s \in Senders, send_give(s) PROVE TypeOK'
  BY <1>01, <1>6 DEF send_give
<1>7. CASE do_read_message
  BY <1>01, <1>7 DEF do_read_message
<1>8. CASE read_polled
  BY <1>8 DEF read_polled
<1>9. CASE read_empty
  BY <1>01, <1>9 DEF read_empty
<1>10. CASE read_bytes
  BY <1>10 DEF read_bytes
<1>11. CASE read_give
  BY <1>01, <1>11 DEF read_give
<1>12. CASE read_result
  BY <1>12 DEF read_result
<1>13. CASE UNCHANGED ipc
  BY <1>13
<1> QED  BY <1>1, <1>2, <1>3, <1>4, <1>5, <1>6, <1>7, <1>8, <1>9, <1>10, <1>11,
            <1>12, <1>13 DEF Next

\* The locks and the phases, apart from the types.
LockPart == PhaseInv /\ WriteLockInv /\ ReadLockInv

\* A step that moves nobody in or out of the line of the write lock.
LEMMA WriteLockKept ==
    ASSUME IpcAssumption, WriteLockInv, Holders' = Holders, ipc'.wr = ipc.wr,
           \A s \in Senders : ipc'.my[s] = ipc.my[s],
           \A s \in Inside' : ipc.my[s] = ipc.wr.svc
    PROVE  WriteLockInv'
<1>1. \A c \in Holders : Ticket'[c] = Ticket[c] /\ c \in Threads
  BY DEF Ticket, Threads, Holders, Waiting, Inside
<1>2. InOrder(TicketMod, Holders, Ticket', ipc.wr.tkt, ipc.wr.svc)
  BY <1>1, SameInOrder DEF WriteLockInv
<1>3. \A s \in Inside' : s \in Senders
  BY DEF Inside
<1> QED  BY <1>2, <1>3 DEF WriteLockInv

\* The steps of a sender.
LEMMA SenderStep ==
    ASSUME IpcAssumption, TypeOK, TypeOK', LockPart, NEW s \in Senders,
           \/ \E n \in Sizes : do_send_message(s, n)
           \/ send_polled(s) \/ send_bytes(s) \/ send_size(s) \/ send_give(s)
    PROVE  LockPart'
<1>0. Reader \notin Senders /\ Reader # s /\ s \in Threads /\ Reader \in Threads
      /\ TicketMod \in Nat /\ TicketMod > 2
  BY DEF IpcAssumption, Threads
<1>01. PhaseInv /\ WriteLockInv /\ ReadLockInv
  BY DEF LockPart
<1>02. \A c \in Threads : Ticket[c] = IF c = Reader THEN ipc.wr.svc ELSE ipc.my[c]
  BY DEF Ticket
<1>1. ASSUME NEW n \in Sizes, do_send_message(s, n) PROVE LockPart'
  <2>1. /\ At(s, "idle") /\ ipc'.pc = [ipc.pc EXCEPT ![s] = "spin"]
        /\ ipc'.my = [ipc.my EXCEPT ![s] = ipc.wr.tkt]
        /\ ipc'.wr.tkt = Inc(ipc.wr.tkt) /\ ipc'.wr.svc = ipc.wr.svc
        /\ ipc'.rd = ipc.rd /\ ipc'.unread = ipc.unread
    BY <1>1 DEF do_send_message, TypeOK
  <2>2. /\ ipc'.pc[s] = "spin" /\ ipc'.my[s] = ipc.wr.tkt /\ ipc.pc[s] = "idle"
        /\ \A t \in Threads : t # s => ipc'.pc[t] = ipc.pc[t] /\ ipc'.my[t] = ipc.my[t]
    BY <1>0, <2>1 DEF TypeOK, At
  <2>3. /\ Inside' = Inside /\ Waiting' = Waiting \cup {s} /\ Reading' = Reading
        /\ Sent' = Sent
    BY <1>0, <2>1, <2>2 DEF Inside, Waiting, Reading, Sent, At, Threads
  <2>4. Holders' = Holders \cup {s} /\ s \notin Holders
    BY <1>0, <2>2, <2>3 DEF Holders, Waiting, Inside, At
  <2>5. PhaseInv'
    BY <1>0, <1>01, <2>1, <2>2, <2>3 DEF PhaseInv, At, Inside, Threads
  <2>6. ReadLockInv'
    BY <1>0, <1>01, <2>1, <2>2, <2>3 DEF ReadLockInv, At
  <2>7. Ticket'[s] = ipc.wr.tkt /\ \A c \in Holders : Ticket'[c] = Ticket[c]
    <3>1. Holders \subseteq Threads
      BY DEF Holders, Waiting, Inside, Threads
    <3> QED  BY <1>0, <2>1, <2>2, <2>4, <3>1 DEF Ticket
  <2>8. Cardinality(Holders) + 1 < TicketMod
    BY <2>4, HoldersFinite, FS_CardinalityType DEF IpcAssumption
  <2>9. InOrder(TicketMod, Holders \cup {s}, Ticket', (ipc.wr.tkt + 1) % TicketMod, ipc.wr.svc)
    BY <1>0, <1>01, <2>4, <2>7, <2>8, HoldersFinite, DrawInOrder DEF WriteLockInv
  <2>10. WriteLockInv'
    BY <1>0, <1>01, <2>1, <2>2, <2>3, <2>4, <2>9 DEF WriteLockInv, Inc, Inside, Threads, At
  <2> QED  BY <2>5, <2>6, <2>10 DEF LockPart
<1>2. ASSUME send_polled(s) PROVE LockPart'
  <2>1. /\ ipc.pc[s] = "spin" /\ ipc.my[s] = ipc.wr.svc
        /\ ipc' = [ipc EXCEPT !.pc[s] = "copy"]
    BY <1>2 DEF send_polled, At
  <2>2. /\ ipc'.wr = ipc.wr /\ ipc'.rd = ipc.rd /\ ipc'.unread = ipc.unread
        /\ ipc'.my = ipc.my /\ ipc'.pc[s] = "copy"
        /\ \A t \in Threads : t # s => ipc'.pc[t] = ipc.pc[t]
    BY <1>0, <2>1 DEF TypeOK
  <2>3. s \in Holders /\ Ticket[s] = ipc.wr.svc
    BY <1>0, <1>02, <2>1 DEF Holders, Waiting, At
  <2>4. \A c \in Holders : Ticket[c] = ipc.wr.svc => c = s
    BY <1>01, <2>3, ServedAlone DEF WriteLockInv
  <2>5. Inside = {}
    <3>1. \A u \in Inside : u \in Senders /\ u \in Holders /\ u \in Threads /\ ipc.my[u] = ipc.wr.svc
      BY <1>01 DEF Inside, Holders, WriteLockInv, Threads
    <3>2. \A u \in Inside : u = s
      BY <1>0, <1>02, <2>4, <3>1
    <3> QED  BY <2>1, <3>2 DEF Inside
  <2>6. ~Sent /\ ~Reading
    <3>1. Reader \notin Holders
      BY <1>0, <1>02, <2>4
    <3> QED  BY <3>1 DEF Holders
  <2>7. ~ipc.unread
    BY <2>5, <2>6 DEF Sent
  <2>8. Inside' = {s} /\ Waiting' = Waiting \ {s} /\ ~Reading' /\ ~Sent'
    BY <1>0, <2>1, <2>2, <2>5, <2>6 DEF Inside, Waiting, Reading, Sent, At, Threads
  <2>9. Holders' = Holders
    BY <2>1, <2>5, <2>6, <2>8 DEF Holders, Waiting, At
  <2>10. PhaseInv'
    BY <1>0, <1>01, <2>2, <2>7, <2>8 DEF PhaseInv, At, Reading
  <2>11. ReadLockInv'
    BY <1>0, <1>01, <2>2, <2>6, <2>8 DEF ReadLockInv, At
  <2>12. WriteLockInv'
    BY <1>01, <2>1, <2>2, <2>8, <2>9, WriteLockKept
  <2> QED  BY <2>10, <2>11, <2>12 DEF LockPart
<1>3. ASSUME send_bytes(s) PROVE LockPart'
  <2>1. /\ ipc.pc[s] = "copy" /\ ipc'.wr = ipc.wr /\ ipc'.rd = ipc.rd
        /\ ipc'.unread = ipc.unread /\ ipc'.my = ipc.my /\ ipc'.pc[s] = "size"
        /\ \A t \in Threads : t # s => ipc'.pc[t] = ipc.pc[t]
    BY <1>0, <1>3 DEF send_bytes, At, TypeOK
  <2>2. Inside' = Inside /\ Waiting' = Waiting /\ Reading' = Reading /\ Sent' = Sent
    BY <1>0, <2>1 DEF Inside, Waiting, Reading, Sent, At, Threads
  <2>3. Holders' = Holders
    BY <2>2 DEF Holders
  <2>4. PhaseInv'
    BY <1>0, <1>01, <2>1, <2>2 DEF PhaseInv, At, Inside, Threads
  <2>5. ReadLockInv'
    BY <1>0, <1>01, <2>1, <2>2 DEF ReadLockInv, At
  <2>6. WriteLockInv'
    BY <1>01, <2>1, <2>2, <2>3, WriteLockKept DEF WriteLockInv
  <2> QED  BY <2>4, <2>5, <2>6 DEF LockPart
<1>4. ASSUME send_size(s) PROVE LockPart'
  <2>1. /\ ipc.pc[s] = "size" /\ ipc'.wr = ipc.wr /\ ipc'.rd = ipc.rd
        /\ ipc'.unread = TRUE /\ ipc'.my = ipc.my /\ ipc'.pc[s] = "give"
        /\ \A t \in Threads : t # s => ipc'.pc[t] = ipc.pc[t]
    BY <1>0, <1>4 DEF send_size, At, TypeOK
  <2>2. s \in Inside
    BY <2>1 DEF Inside
  <2>3. Inside = {s} /\ ~Reading /\ ~Sent
    BY <1>01, <2>2 DEF PhaseInv, Sent
  <2>4. Inside' = Inside /\ Waiting' = Waiting /\ ~Reading' /\ ~Sent'
    BY <1>0, <2>1, <2>2, <2>3 DEF Inside, Waiting, Reading, Sent, At, Threads
  <2>5. Holders' = Holders
    BY <2>3, <2>4 DEF Holders
  <2>6. PhaseInv'
    BY <1>0, <2>1, <2>3, <2>4 DEF PhaseInv, At, Reading
  <2>7. ReadLockInv'
    BY <1>0, <1>01, <2>1, <2>3, <2>4 DEF ReadLockInv, At
  <2>8. WriteLockInv'
    BY <1>01, <2>1, <2>4, <2>5, WriteLockKept DEF WriteLockInv
  <2> QED  BY <2>6, <2>7, <2>8 DEF LockPart
<1>5. ASSUME send_give(s) PROVE LockPart'
  <2>1. /\ ipc.pc[s] = "give" /\ ipc'.wr = ipc.wr /\ ipc'.rd.tkt = ipc.rd.tkt
        /\ ipc'.rd.svc = Inc(ipc.rd.svc)
        /\ ipc'.unread = ipc.unread /\ ipc'.my = ipc.my /\ ipc'.pc[s] = "idle"
        /\ \A t \in Threads : t # s => ipc'.pc[t] = ipc.pc[t]
    BY <1>0, <1>5 DEF send_give, At, TypeOK
  <2>2. s \in Inside
    BY <2>1 DEF Inside
  <2>3. Inside = {s} /\ ~Reading /\ ~Sent /\ ipc.unread /\ ipc.my[s] = ipc.wr.svc
    BY <1>01, <2>1, <2>2 DEF PhaseInv, WriteLockInv, Sent, At
  <2>4. Inside' = {} /\ Waiting' = Waiting /\ ~Reading' /\ Sent'
    BY <1>0, <2>1, <2>2, <2>3 DEF Inside, Waiting, Reading, Sent, At, Threads
  <2>5. /\ Holders = Waiting \cup {s} /\ Holders' = (Holders \ {s}) \cup {Reader}
        /\ s \in Holders /\ Reader \notin Holders
    BY <1>0, <2>1, <2>3, <2>4 DEF Holders, Waiting, At
  <2>6. PhaseInv'
    BY <1>0, <2>1, <2>3, <2>4 DEF PhaseInv, At, Reading
  <2>7. ReadLockInv'
    <3>1. ipc.rd.tkt \in 0 .. TicketMod - 1 /\ ipc.rd.svc \in 0 .. TicketMod - 1
      BY DEF TypeOK
    <3>2. ipc'.rd.svc = IF ipc.rd.svc + 1 = TicketMod THEN 0 ELSE ipc.rd.svc + 1
      BY <2>1, <3>1, IncFacts
    <3>3. Ahead(TicketMod, ipc.rd.tkt, ipc.rd.svc) = IF At(Reader, "spin") THEN 2 ELSE 1
      BY <1>01, <2>3 DEF ReadLockInv
    <3>4. Ahead(TicketMod, ipc'.rd.tkt, ipc'.rd.svc) = IF At(Reader, "spin") THEN 1 ELSE 0
      BY <1>0, <2>1, <3>1, <3>2, <3>3 DEF Ahead
    <3>5. At(Reader, "spin")' <=> At(Reader, "spin")
      BY <1>0, <2>1 DEF At
    <3> QED  BY <1>01, <2>1, <2>4, <3>4, <3>5 DEF ReadLockInv
  <2>8. WriteLockInv'
    <3>1. Ticket[s] = ipc.wr.svc /\ Ticket'[Reader] = ipc.wr.svc
      BY <1>0, <2>1, <2>3 DEF Ticket
    <3>2. \A e \in Holders \ {s} : Ticket'[e] = Ticket[e]
      BY <1>0, <2>1, <2>5 DEF Ticket, Waiting, Threads
    <3>3. InOrder(TicketMod, (Holders \ {s}) \cup {Reader}, Ticket', ipc.wr.tkt, ipc.wr.svc)
      BY <1>0, <1>01, <2>5, <3>1, <3>2, HoldersFinite, SwapInOrder DEF WriteLockInv
    <3> QED  BY <2>1, <2>4, <2>5, <3>3 DEF WriteLockInv
  <2> QED  BY <2>6, <2>7, <2>8 DEF LockPart
<1> QED  BY <1>1, <1>2, <1>3, <1>4, <1>5

\* The steps of the reader.
LEMMA ReaderStep ==
    ASSUME IpcAssumption, TypeOK, TypeOK', LockPart, ~ipc'.hollow,
           \/ do_read_message \/ read_polled \/ read_empty \/ read_bytes
           \/ read_give \/ read_result
    PROVE  LockPart'
<1>0. Reader \notin Senders /\ Reader \in Threads /\ TicketMod \in Nat /\ TicketMod > 2
  BY DEF IpcAssumption, Threads
<1>01. PhaseInv /\ WriteLockInv /\ ReadLockInv
  BY DEF LockPart
<1>02. \A s \in Senders : s \in Threads /\ s # Reader
  BY <1>0 DEF Threads
<1>03. ipc.rd.tkt \in 0 .. TicketMod - 1 /\ ipc.rd.svc \in 0 .. TicketMod - 1
       /\ ipc.my[Reader] \in 0 .. TicketMod - 1
  BY <1>0 DEF TypeOK
<1>1. CASE do_read_message
  <2>1. /\ ipc.pc[Reader] = "idle" /\ ipc'.wr = ipc.wr /\ ipc'.rd.svc = ipc.rd.svc
        /\ ipc'.rd.tkt = Inc(ipc.rd.tkt) /\ ipc'.unread = ipc.unread
        /\ ipc'.my[Reader] = ipc.rd.tkt /\ ipc'.pc[Reader] = "spin"
        /\ \A s \in Senders : ipc'.pc[s] = ipc.pc[s] /\ ipc'.my[s] = ipc.my[s]
    BY <1>0, <1>02, <1>1 DEF do_read_message, At, TypeOK
  <2>2. Inside' = Inside /\ Waiting' = Waiting /\ ~Reading /\ ~Reading' /\ Sent' = Sent
    BY <2>1 DEF Inside, Waiting, Reading, Sent, At
  <2>3. Holders' = Holders
    BY <2>2 DEF Holders
  <2>4. PhaseInv'
    BY <1>01, <2>1, <2>2 DEF PhaseInv, At, Inside
  <2>5. WriteLockInv'
    BY <1>01, <2>1, <2>2, <2>3, WriteLockKept DEF WriteLockInv
  <2>6. ReadLockInv'
    <3>1. ipc'.rd.tkt = IF ipc.rd.tkt + 1 = TicketMod THEN 0 ELSE ipc.rd.tkt + 1
      BY <1>03, <2>1, IncFacts
    <3>2. Ahead(TicketMod, ipc.rd.tkt, ipc.rd.svc) = IF Sent THEN 0 ELSE 1
      BY <1>01, <2>1 DEF ReadLockInv, At
    <3>3. Ahead(TicketMod, ipc'.rd.tkt, ipc'.rd.svc) = IF Sent THEN 1 ELSE 2
      BY <1>0, <1>03, <2>1, <3>1, <3>2 DEF Ahead
    <3>4. At(Reader, "spin")'
      BY <2>1 DEF At
    <3> QED  BY <2>1, <2>2, <3>3, <3>4 DEF ReadLockInv
  <2> QED  BY <2>4, <2>5, <2>6 DEF LockPart
<1>2. CASE read_polled
  <2>1. /\ ipc.pc[Reader] = "spin" /\ ipc.rd.svc = ipc.my[Reader]
        /\ ipc'.wr = ipc.wr /\ ipc'.rd = ipc.rd /\ ipc'.unread = ipc.unread
        /\ ipc'.my = ipc.my /\ ipc'.pc[Reader] \in {"empty", "copy"}
        /\ \A s \in Senders : ipc'.pc[s] = ipc.pc[s]
    BY <1>0, <1>02, <1>2 DEF read_polled, At, TypeOK
  <2>2. Sent
    <3>1. ipc.rd.tkt = IF ipc.rd.svc + 1 = TicketMod THEN 0 ELSE ipc.rd.svc + 1
      BY <1>01, <1>03, <2>1, IncFacts DEF ReadLockInv, At
    <3>2. Ahead(TicketMod, ipc.rd.tkt, ipc.rd.svc) = 1
      BY <1>0, <1>03, <3>1 DEF Ahead
    <3>3. Ahead(TicketMod, ipc.rd.tkt, ipc.rd.svc) = 2 - (IF Sent THEN 1 ELSE 0)
      BY <1>01, <2>1 DEF ReadLockInv, At
    <3> QED  BY <3>2, <3>3
  <2>3. /\ Inside = {} /\ Inside' = {} /\ Waiting' = Waiting /\ Reading' /\ ~Sent'
        /\ ipc.unread
    BY <2>1, <2>2 DEF Inside, Waiting, Reading, Sent, At
  <2>4. Holders' = Holders
    BY <2>2, <2>3 DEF Holders
  <2>5. PhaseInv'
    BY <2>1, <2>3 DEF PhaseInv, At
  <2>6. WriteLockInv'
    BY <1>01, <2>1, <2>3, <2>4, WriteLockKept
  <2>7. ReadLockInv'
    <3>1. Ahead(TicketMod, ipc.rd.tkt, ipc.rd.svc) = 1
      BY <1>01, <2>1, <2>2 DEF ReadLockInv, At
    <3> QED  BY <2>1, <2>3, <3>1 DEF ReadLockInv, At
  <2> QED  BY <2>5, <2>6, <2>7 DEF LockPart
<1>3. CASE read_empty
  BY <1>3 DEF read_empty, TypeOK
<1>4. CASE read_bytes
  <2>1. /\ ipc.pc[Reader] = "copy" /\ ipc'.wr = ipc.wr /\ ipc'.rd = ipc.rd
        /\ ipc'.unread = FALSE /\ ipc'.my = ipc.my /\ ipc'.pc[Reader] = "gave"
        /\ \A s \in Senders : ipc'.pc[s] = ipc.pc[s]
    BY <1>0, <1>02, <1>4 DEF read_bytes, At, TypeOK
  <2>2. Reading /\ Reading' /\ ~Sent /\ ~Sent'
    BY <2>1 DEF Reading, Sent
  <2>3. Inside = {} /\ Inside' = {} /\ Waiting' = Waiting
    <3>1. Inside = {}
      BY <1>01, <2>2 DEF PhaseInv
    <3> QED  BY <2>1, <3>1 DEF Inside, Waiting, At
  <2>4. Holders' = Holders
    BY <2>2, <2>3 DEF Holders
  <2>5. PhaseInv'
    BY <2>1, <2>3 DEF PhaseInv, At
  <2>6. WriteLockInv'
    BY <1>01, <2>1, <2>3, <2>4, WriteLockKept
  <2>7. ReadLockInv'
    BY <1>01, <2>1, <2>2 DEF ReadLockInv, At
  <2> QED  BY <2>5, <2>6, <2>7 DEF LockPart
<1>5. CASE read_give
  <2>1. /\ ipc.pc[Reader] = "gave" /\ ipc'.wr.tkt = ipc.wr.tkt
        /\ ipc'.wr.svc = Inc(ipc.wr.svc) /\ ipc'.rd = ipc.rd
        /\ ipc'.unread = ipc.unread /\ ipc'.my = ipc.my /\ ipc'.pc[Reader] = "result"
        /\ \A s \in Senders : ipc'.pc[s] = ipc.pc[s]
    BY <1>0, <1>02, <1>5 DEF read_give, At, TypeOK
  <2>2. Reading /\ ~ipc.unread /\ ~Reading' /\ ~Sent /\ ~Sent'
    BY <1>01, <2>1 DEF Reading, Sent, PhaseInv, At
  <2>3. Inside = {} /\ Inside' = {} /\ Waiting' = Waiting
    <3>1. Inside = {}
      BY <1>01, <2>2 DEF PhaseInv
    <3> QED  BY <2>1, <3>1 DEF Inside, Waiting, At
  <2>4. Holders' = Holders \ {Reader} /\ Reader \in Holders
    BY <1>0, <2>2, <2>3 DEF Holders, Waiting
  <2>5. PhaseInv'
    BY <2>1, <2>3 DEF PhaseInv, At
  <2>6. ReadLockInv'
    BY <1>01, <2>1, <2>2 DEF ReadLockInv, At
  <2>7. WriteLockInv'
    <3>1. Ticket[Reader] = ipc.wr.svc
      BY <1>0 DEF Ticket
    <3>2. \A c \in Holders \ {Reader} : Ticket'[c] = Ticket[c]
      BY <1>02, <2>1, <2>3 DEF Ticket, Holders, Waiting
    <3>3. InOrder(TicketMod, Holders \ {Reader}, Ticket', ipc.wr.tkt, (ipc.wr.svc + 1) % TicketMod)
      BY <1>0, <1>01, <2>4, <3>1, <3>2, HoldersFinite, ServeInOrder DEF WriteLockInv
    <3> QED  BY <2>1, <2>3, <2>4, <3>3 DEF WriteLockInv, Inc
  <2> QED  BY <2>5, <2>6, <2>7 DEF LockPart
<1>6. CASE read_result
  <2>1. /\ ipc.pc[Reader] = "result" /\ ipc'.wr = ipc.wr /\ ipc'.rd = ipc.rd
        /\ ipc'.unread = ipc.unread /\ ipc'.my = ipc.my /\ ipc'.pc[Reader] = "idle"
        /\ \A s \in Senders : ipc'.pc[s] = ipc.pc[s]
    BY <1>0, <1>02, <1>6 DEF read_result, At, TypeOK
  <2>2. Inside' = Inside /\ Waiting' = Waiting /\ ~Reading /\ ~Reading' /\ Sent' = Sent
    BY <2>1 DEF Inside, Waiting, Reading, Sent, At
  <2>3. Holders' = Holders
    BY <2>2 DEF Holders
  <2>4. PhaseInv'
    BY <1>01, <2>1, <2>2 DEF PhaseInv, At, Inside
  <2>5. WriteLockInv'
    BY <1>01, <2>1, <2>2, <2>3, WriteLockKept DEF WriteLockInv
  <2>6. ReadLockInv'
    BY <1>01, <2>1, <2>2 DEF ReadLockInv, At
  <2> QED  BY <2>4, <2>5, <2>6 DEF LockPart
<1> QED  BY <1>1, <1>2, <1>3, <1>4, <1>5, <1>6

\* IInv is inductive.
LEMMA InvStep == ASSUME IpcAssumption PROVE IInv /\ [Next]_ipc => IInv'
<1> SUFFICES ASSUME IInv, [Next]_ipc PROVE IInv'
  OBVIOUS
<1>1. TypeOK /\ TypeOK'
  BY TypeStep DEF IInv
<1>2. ASSUME ~ipc'.hollow PROVE LockPart'
  <2>1. ASSUME UNCHANGED ipc PROVE LockPart'
    BY <1>2, <2>1 DEF IInv, LockPart, PhaseInv, WriteLockInv, ReadLockInv, Inside, Reading,
         Holders, Waiting, Sent, Ticket, At
  <2>2. ASSUME ~ipc.hollow, LockPart, create_thread PROVE LockPart'
    <3>1. /\ ipc'.wr = ipc.wr /\ ipc'.rd = ipc.rd /\ ipc'.unread = ipc.unread
          /\ ipc'.my = ipc.my /\ ipc'.pc = ipc.pc
      BY <1>1, <2>2 DEF create_thread, TypeOK
    <3> QED  BY <2>2, <3>1 DEF LockPart, PhaseInv, WriteLockInv, ReadLockInv, Inside,
                  Reading, Holders, Waiting, Sent, Ticket, At
  <2>3. CASE Next
    <3>1. ~ipc.hollow /\ LockPart
      BY <2>3 DEF Next, IInv, LockPart
    <3> QED  BY <1>1, <1>2, <2>2, <2>3, <3>1, SenderStep, ReaderStep DEF Next
  <2> QED  BY <2>1, <2>3
<1> QED  BY <1>1, <1>2 DEF IInv, LockPart

\* The invariant says what the mailbox promises.
LEMMA InvSound == ASSUME IpcAssumption PROVE IInv => MailboxSound
<1> SUFFICES ASSUME IInv, ~ipc.hollow PROVE MailboxSound
  BY DEF MailboxSound
<1>0. TypeOK /\ PhaseInv /\ WriteLockInv /\ ReadLockInv
  BY DEF IInv
<1>01. Reader \notin Senders /\ TicketMod \in Nat /\ TicketMod > 2
  BY DEF IpcAssumption
<1>1. Cardinality(Inside) <= 1
  <2>1. CASE Inside = {}
    BY <2>1, FS_EmptySet
  <2>2. CASE Inside # {}
    <3>1. PICK s : s \in Inside
      BY <2>2
    <3>2. Inside = {s}
      BY <1>0, <3>1 DEF PhaseInv
    <3> QED  BY <3>2, FS_Singleton
  <2> QED  BY <2>1, <2>2
<1>2. Inside # {} => ~Reading
  BY <1>0 DEF PhaseInv
<1>3. ipc.unread => \A s \in Inside : At(s, "give")
  BY <1>0 DEF PhaseInv
<1>4. ipc.pc[Reader] \in {"copy", "empty"} => ipc.unread /\ Inside = {}
  BY <1>0 DEF PhaseInv, Reading
<1>5. ASSUME Waiting # {}, Inside = {}, ~ipc.unread, ~Reading
      PROVE  \E s \in Waiting : ipc.my[s] = ipc.wr.svc
  <2>1. Holders = Waiting
    BY <1>5 DEF Holders, Sent
  <2>2. \E c \in Waiting : Ticket[c] = ipc.wr.svc
    BY <1>0, <1>01, <1>5, <2>1, HoldersFinite, SomebodyServed DEF WriteLockInv
  <2> QED  BY <1>01, <2>2 DEF Ticket, Waiting, Threads
<1>6. ASSUME At(Reader, "spin"), ipc.unread, Inside = {}
      PROVE  ipc.my[Reader] = ipc.rd.svc
  <2>1. Sent
    BY <1>6 DEF Sent, Reading, At
  <2>2. Ahead(TicketMod, ipc.rd.tkt, ipc.rd.svc) = 1 /\ Inc(ipc.my[Reader]) = ipc.rd.tkt
    BY <1>0, <1>6, <2>1 DEF ReadLockInv
  <2>3. ipc.rd.tkt \in 0 .. TicketMod - 1 /\ ipc.rd.svc \in 0 .. TicketMod - 1
        /\ ipc.my[Reader] \in 0 .. TicketMod - 1
    BY <1>0 DEF TypeOK, Threads
  <2>4. ipc.rd.tkt = IF ipc.my[Reader] + 1 = TicketMod THEN 0 ELSE ipc.my[Reader] + 1
    BY <2>2, <2>3, IncFacts
  <2> QED  BY <1>01, <2>2, <2>3, <2>4 DEF Ahead
<1> QED  BY <1>1, <1>2, <1>3, <1>4, <1>5, <1>6 DEF MailboxSound

\* With fewer senders than tickets a message is never overwritten, read twice or
\* read half written, and whoever waits for the mailbox waits for something: the
\* locks of do_send_message and do_read_message, until an empty message is read.
THEOREM MailboxSoundHolds ==
    ASSUME IpcAssumption
    PROVE  Spec => []MailboxSound
<1>1. Init => IInv
  BY InitInv
<1>2. IInv /\ [Next]_ipc => IInv'
  BY InvStep
<1>3. IInv => MailboxSound
  BY InvSound
<1> QED  BY <1>1, <1>2, <1>3, PTL DEF Spec
=============================================================================
