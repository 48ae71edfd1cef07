--------------------------- MODULE SpinLockProofs ---------------------------
(***************************************************************************)
(* Proofs about SpinLock, for every set of threads and locks and every     *)
(* width of the ticket counters that exceeds the number of contexts.       *)
(***************************************************************************)
EXTENDS SpinLock, FiniteSetTheorems, FunctionTheorems, SequenceTheorems, TLAPS

\* A lock's open tickets are exactly those from svc up to tkt: each belongs to
\* one context, and only the context that is served is inside.
TicketInv ==
    \A l \in Locks :
        /\ \A c \in LineSet(l) : Gap(my[c], svc[l]) < Gap(tkt[l], svc[l])
        /\ \A c, d \in LineSet(l) : my[c] = my[d] => c = d
        /\ \A i \in Tickets : i < Gap(tkt[l], svc[l]) =>
              \E c \in LineSet(l) : Gap(my[c], svc[l]) = i
        /\ \A c \in Contexts : Holding(c, l) => my[c] = svc[l]

\* Whoever asks for the watchdog lock runs with interrupts disabled, so it is
\* alone with it; any other thread that runs has interrupts enabled.
IrqInv ==
    /\ \A t \in Threads : pc[t] # "tick"
    /\ pc[Isr] # "idle" => cur = Isr
    /\ pc[Isr] \in {"spin", "cs"} => lock[Isr] = TickLock
    /\ \A c \in Contexts : Asking(c, TickLock) =>
          cur = c /\ IF_ = FALSE /\ my[c] = svc[TickLock] /\ key[c] = (c # Isr)
    /\ cur = Isr => IF_ = FALSE
    /\ cur # Isr /\ ~Asking(cur, TickLock) => IF_ = TRUE

IInv == TypeOK /\ TicketInv /\ IrqInv

-----------------------------------------------------------------------------
(* Arithmetic of wrapping counters.                                        *)

\* A counter keeps its range when atomic32_inc wraps it around.
LEMMA IncType == \A n \in Tickets : Inc(n) \in Tickets
BY TicketModAssumption DEF Inc, Tickets

\* The gap is a ticket count, zero only between equal tickets.
LEMMA GapType ==
    \A n, s \in Tickets : Gap(n, s) \in Tickets /\ (Gap(n, s) = 0 <=> n = s)
BY TicketModAssumption DEF Gap, Tickets

\* Different tickets are at different distances from the one being served.
LEMMA GapInjective ==
    \A n, m, s \in Tickets : Gap(n, s) = Gap(m, s) => n = m
BY TicketModAssumption DEF Gap, Tickets

\* Serving the next ticket brings every other one closer by one.
LEMMA GapServe ==
    \A n, s \in Tickets : n # s => Gap(n, Inc(s)) = Gap(n, s) - 1
BY TicketModAssumption DEF Gap, Inc, Tickets

\* Drawing a ticket lengthens the line by one while the counters do not meet.
LEMMA GapDraw ==
    \A n, s \in Tickets :
        Gap(n, s) + 1 < TicketMod => Gap(Inc(n), s) = Gap(n, s) + 1
BY TicketModAssumption DEF Gap, Inc, Tickets

-----------------------------------------------------------------------------
\* A context that asks for no lock leaves room for one more ticket: every open
\* ticket belongs to a context, so the counters of a lock never meet.
LEMMA RoomForOneMore ==
    ASSUME TypeOK, TicketInv, NEW c \in Contexts, NEW l \in Locks, ~Asking(c, l)
    PROVE  Gap(tkt[l], svc[l]) + 1 < TicketMod
<1> DEFINE g == Gap(tkt[l], svc[l])
           owner == [i \in 1 .. g |->
                        CHOOSE d \in LineSet(l) : Gap(my[d], svc[l]) = i - 1]
<1>1. g \in Nat /\ g < TicketMod
  BY GapType, TicketModAssumption DEF TypeOK, Tickets
<1>2. \A i \in 1 .. g : owner[i] \in LineSet(l) /\ Gap(my[owner[i]], svc[l]) = i - 1
  <2> SUFFICES ASSUME NEW i \in 1 .. g
               PROVE  \E d \in LineSet(l) : Gap(my[d], svc[l]) = i - 1
    OBVIOUS
  <2>1. i - 1 \in Tickets /\ i - 1 < g
    BY <1>1, TicketModAssumption DEF Tickets
  <2> QED  BY <2>1 DEF TicketInv
<1>3. owner \in [1 .. g -> LineSet(l)]
  BY <1>2
<1>4. \A i, j \in 1 .. g : owner[i] = owner[j] => i = j
  <2> SUFFICES ASSUME NEW i \in 1 .. g, NEW j \in 1 .. g, owner[i] = owner[j]
               PROVE  i = j
    OBVIOUS
  <2>1. i - 1 = j - 1
    BY <1>2
  <2> HIDE DEF owner
  <2> QED  BY <2>1, <1>1
<1>5. IsFiniteSet(Contexts) /\ Cardinality(Contexts) \in Nat
  BY ThreadsAssumption, FS_AddElement, FS_CardinalityType DEF Contexts
<1>6. LineSet(l) \subseteq Contexts \ {c}
  BY DEF LineSet
<1>7. IsFiniteSet(Contexts \ {c})
      /\ Cardinality(Contexts \ {c}) = Cardinality(Contexts) - 1
  BY <1>5, FS_RemoveElement
<1>8. IsFiniteSet(LineSet(l)) /\ Cardinality(LineSet(l)) <= Cardinality(Contexts) - 1
  BY <1>6, <1>7, FS_Subset
<1>9. Cardinality(1 .. g) <= Cardinality(LineSet(l))
  <2>1. owner \in Injection(1 .. g, LineSet(l))
    BY <1>3, <1>4 DEF Injection, IsInjective
  <2> HIDE DEF owner, g
  <2> QED  BY <2>1, <1>8, FS_Injection DEF ExistsInjection
<1>10. Cardinality(1 .. g) = g
  BY <1>1, FS_Interval
<1> HIDE DEF g
<1>11. Cardinality(LineSet(l)) \in Nat
  BY <1>8, FS_CardinalityType
<1>12. g + 1 < TicketMod
  BY <1>1, <1>5, <1>8, <1>9, <1>10, <1>11, TicketModAssumption
<1> QED  BY <1>12 DEF g

\* Drawing a ticket keeps the open tickets and their owners in order.
LEMMA DrawKeepsTickets ==
    ASSUME TypeOK, TicketInv, NEW c \in Contexts, NEW l \in Locks,
           pc[c] \notin {"spin", "cs"}, DrawTicket(c, l), UNCHANGED svc
    PROVE  TicketInv'
<1> SUFFICES ASSUME NEW m \in Locks
             PROVE  /\ \A d \in LineSet(m)' : Gap(my'[d], svc[m]) < Gap(tkt'[m], svc[m])
                    /\ \A d, e \in LineSet(m)' : my'[d] = my'[e] => d = e
                    /\ \A i \in Tickets : i < Gap(tkt'[m], svc[m]) =>
                          \E d \in LineSet(m)' : Gap(my'[d], svc[m]) = i
                    /\ \A d \in Contexts : Holding(d, m)' => my'[d] = svc[m]
  BY DEF TicketInv, Gap
<1>1. /\ \A d \in LineSet(m) : Gap(my[d], svc[m]) < Gap(tkt[m], svc[m])
      /\ \A d, e \in LineSet(m) : my[d] = my[e] => d = e
      /\ \A i \in Tickets : i < Gap(tkt[m], svc[m]) =>
            \E d \in LineSet(m) : Gap(my[d], svc[m]) = i
      /\ \A d \in Contexts : Holding(d, m) => my[d] = svc[m]
  BY DEF TicketInv
<1>2. \A d \in Contexts : d # c =>
         pc'[d] = pc[d] /\ lock'[d] = lock[d] /\ my'[d] = my[d]
  BY DEF DrawTicket, TypeOK
<1>3. pc'[c] = "spin" /\ lock'[c] = l /\ my'[c] = tkt[l]
  BY DEF DrawTicket, TypeOK
<1>4. c \notin LineSet(m)
  BY DEF LineSet, Asking, Waiting, Holding
<1>5. \A d \in Contexts : d # c => (d \in LineSet(m)' <=> d \in LineSet(m))
                                /\ (Holding(d, m)' <=> Holding(d, m))
  BY <1>2 DEF LineSet, Asking, Waiting, Holding
<1>6. ~Holding(c, m)'
  BY <1>3 DEF Holding
<1>7. LineSet(m) \subseteq Contexts /\ LineSet(m)' \subseteq Contexts
  BY DEF LineSet
<1>8. \A d \in Contexts : my[d] \in Tickets
  BY DEF TypeOK
<1>9. tkt[m] \in Tickets /\ svc[m] \in Tickets
  BY DEF TypeOK
<1>10. CASE m = l
  <2>1. c \in LineSet(m)'
    BY <1>3, <1>10 DEF LineSet, Asking, Waiting
  <2>2. Gap(tkt[m], svc[m]) + 1 < TicketMod
    BY RoomForOneMore DEF Asking, Waiting, Holding
  <2>3. tkt'[m] = Inc(tkt[m])
    BY <1>10 DEF DrawTicket, TypeOK
  <2>4. Gap(tkt'[m], svc[m]) = Gap(tkt[m], svc[m]) + 1
    BY <2>2, <2>3, <1>9, GapDraw
  <2>5. \A d \in Contexts : Gap(my[d], svc[m]) \in Int
    <3>1. \A d \in Contexts : Gap(my[d], svc[m]) \in Tickets
      BY <1>8, <1>9, GapType
    <3> QED  BY <3>1, TicketModAssumption DEF Tickets
  <2>6. Gap(tkt[m], svc[m]) \in Int
    BY <1>9, GapType, TicketModAssumption DEF Tickets
  <2>7. \A d \in LineSet(m)' : Gap(my'[d], svc[m]) < Gap(tkt'[m], svc[m])
    BY <1>1, <1>2, <1>3, <1>5, <1>7, <1>10, <2>4, <2>5, <2>6
  <2>8. \A d \in LineSet(m) : my[d] # tkt[m]
    BY <1>1, <2>6
  <2>9. \A d, e \in LineSet(m)' : my'[d] = my'[e] => d = e
    BY <1>1, <1>2, <1>3, <1>5, <1>7, <1>10, <2>8
  <2>10. ASSUME NEW i \in Tickets, i < Gap(tkt'[m], svc[m])
         PROVE  \E d \in LineSet(m)' : Gap(my'[d], svc[m]) = i
    <3>1. CASE i = Gap(tkt[m], svc[m])
      BY <3>1, <2>1, <1>3, <1>10
    <3>2. CASE i # Gap(tkt[m], svc[m])
      <4>1. i < Gap(tkt[m], svc[m])
        BY <3>2, <2>4, <2>6, <2>10, TicketModAssumption DEF Tickets
      <4> QED  BY <4>1, <1>1, <1>2, <1>4, <1>5, <1>7
    <3> QED  BY <3>1, <3>2
  <2> QED  BY <2>7, <2>9, <2>10, <1>1, <1>2, <1>5, <1>6
<1>11. CASE m # l
  <2>1. tkt'[m] = tkt[m]
    BY <1>11 DEF DrawTicket, TypeOK
  <2>2. c \notin LineSet(m)'
    BY <1>3, <1>11 DEF LineSet, Asking, Waiting, Holding
  <2> QED  BY <1>1, <1>2, <1>4, <1>5, <1>6, <1>7, <2>1, <2>2
<1> QED  BY <1>10, <1>11

\* The context that finds its ticket served may enter.
LEMMA EnterKeepsTickets ==
    ASSUME TypeOK, TicketInv, NEW c \in Contexts,
           pc[c] = "spin", svc[lock[c]] = my[c],
           pc' = [pc EXCEPT ![c] = "cs"], UNCHANGED <<tkt, svc, lock, my>>
    PROVE  TicketInv'
<1>1. \A l \in Locks : LineSet(l)' = LineSet(l)
  BY DEF LineSet, Asking, Waiting, Holding, TypeOK
<1>2. \A l \in Locks : \A d \in Contexts : Holding(d, l)' => Holding(d, l) \/ d = c
  BY DEF Holding, TypeOK
<1>3. \A l \in Locks : Holding(c, l)' => my[c] = svc[l]
  BY DEF Holding
<1> QED  BY <1>1, <1>2, <1>3 DEF TicketInv, Gap

\* Giving the lock back serves the next ticket.
LEMMA LeaveKeepsTickets ==
    ASSUME TypeOK, TicketInv, NEW c \in Contexts, NEW p \in {"idle", "tick"},
           pc[c] = "cs", Leave(c, p)
    PROVE  TicketInv'
<1> DEFINE l == lock[c]
<1> SUFFICES ASSUME NEW m \in Locks
             PROVE  /\ \A d \in LineSet(m)' : Gap(my'[d], svc'[m]) < Gap(tkt[m], svc'[m])
                    /\ \A d, e \in LineSet(m)' : my'[d] = my'[e] => d = e
                    /\ \A i \in Tickets : i < Gap(tkt[m], svc'[m]) =>
                          \E d \in LineSet(m)' : Gap(my'[d], svc'[m]) = i
                    /\ \A d \in Contexts : Holding(d, m)' => my'[d] = svc'[m]
  BY DEF TicketInv, Gap, Leave
<1>1. /\ \A d \in LineSet(m) : Gap(my[d], svc[m]) < Gap(tkt[m], svc[m])
      /\ \A d, e \in LineSet(m) : my[d] = my[e] => d = e
      /\ \A i \in Tickets : i < Gap(tkt[m], svc[m]) =>
            \E d \in LineSet(m) : Gap(my[d], svc[m]) = i
      /\ \A d \in Contexts : Holding(d, m) => my[d] = svc[m]
  BY DEF TicketInv
<1>2. \A d \in Contexts : d # c =>
         pc'[d] = pc[d] /\ lock'[d] = lock[d] /\ my'[d] = my[d]
  BY DEF Leave, TypeOK
<1>3. pc'[c] \in {"idle", "tick"}
  BY DEF Leave, TypeOK
<1>4. c \notin LineSet(m)' /\ ~Holding(c, m)'
  BY <1>3 DEF LineSet, Asking, Waiting, Holding
<1>5. \A d \in Contexts : d # c => (d \in LineSet(m)' <=> d \in LineSet(m))
                                /\ (Holding(d, m)' <=> Holding(d, m))
  BY <1>2 DEF LineSet, Asking, Waiting, Holding
<1>6. LineSet(m) \subseteq Contexts /\ LineSet(m)' \subseteq Contexts
  BY DEF LineSet
<1>7. l \in Locks /\ tkt[m] \in Tickets /\ svc[m] \in Tickets
      /\ \A d \in Contexts : my[d] \in Tickets
  BY DEF TypeOK
<1>8. CASE m = l
  <2>1. c \in LineSet(m) /\ Holding(c, m) /\ my[c] = svc[m]
    BY <1>1, <1>8 DEF LineSet, Asking, Holding
  <2>2. svc'[m] = Inc(svc[m])
    BY <1>7, <1>8 DEF Leave, TypeOK
  <2>3. \A d \in LineSet(m)' : my'[d] = my[d] /\ my[d] # svc[m] /\ d \in LineSet(m)
    BY <1>1, <1>2, <1>4, <1>5, <1>6, <2>1
  <2>4. \A d \in LineSet(m)' : Gap(my'[d], svc'[m]) = Gap(my[d], svc[m]) - 1
    BY <1>6, <1>7, <2>2, <2>3, GapServe
  <2>5. tkt[m] # svc[m]
    BY <1>1, <1>7, <2>1, GapType, TicketModAssumption DEF Tickets
  <2>6. Gap(tkt[m], svc'[m]) = Gap(tkt[m], svc[m]) - 1
    BY <1>7, <2>2, <2>5, GapServe
  <2>7. Gap(tkt[m], svc[m]) \in Tickets
        /\ \A d \in Contexts : Gap(my[d], svc[m]) \in Tickets
    BY <1>7, GapType
  <2>8. \A d \in LineSet(m)' : Gap(my'[d], svc'[m]) < Gap(tkt[m], svc'[m])
    BY <1>1, <1>6, <2>3, <2>4, <2>6, <2>7, TicketModAssumption DEF Tickets
  <2>9. \A d, e \in LineSet(m)' : my'[d] = my'[e] => d = e
    BY <1>1, <2>3
  <2>10. ASSUME NEW i \in Tickets, i < Gap(tkt[m], svc'[m])
         PROVE  \E d \in LineSet(m)' : Gap(my'[d], svc'[m]) = i
    <3>1. i + 1 \in Tickets /\ i + 1 < Gap(tkt[m], svc[m])
      BY <2>6, <2>7, <2>10, TicketModAssumption DEF Tickets
    <3>2. PICK d \in LineSet(m) : Gap(my[d], svc[m]) = i + 1
      BY <3>1, <1>1
    <3>3. d # c
      <4>1. Gap(my[c], svc[m]) = 0
        BY <2>1, <1>7, GapType
      <4> QED  BY <4>1, <3>2, TicketModAssumption DEF Tickets
    <3>4. d \in LineSet(m)'
      BY <3>3, <1>5, <1>6
    <3>5. Gap(my'[d], svc'[m]) = i
      BY <3>2, <3>4, <2>4, TicketModAssumption DEF Tickets
    <3> QED  BY <3>4, <3>5
  <2>11. \A d \in Contexts : ~Holding(d, m)'
    BY <1>1, <1>4, <1>5, <2>1 DEF LineSet, Asking
  <2> QED  BY <2>8, <2>9, <2>10, <2>11
<1>9. CASE m # l
  <2>1. svc'[m] = svc[m]
    BY <1>7, <1>9 DEF Leave, TypeOK
  <2>2. c \notin LineSet(m)
    BY <1>9 DEF LineSet, Asking, Waiting, Holding
  <2> QED  BY <1>1, <1>2, <1>4, <1>5, <1>6, <2>1, <2>2
<1> QED  BY <1>8, <1>9

-----------------------------------------------------------------------------
\* The initial state satisfies the invariant: no ticket has been drawn.
LEMMA InitInv == Init => IInv
<1> SUFFICES ASSUME Init PROVE IInv
  OBVIOUS
<1>1. 0 \in Tickets
  BY TicketModAssumption, ThreadsAssumption, FS_AddElement, FS_CardinalityType
     DEF Tickets, Contexts
<1>2. TypeOK
  BY <1>1 DEF Init, TypeOK, Contexts, Locks
<1>3. \A l \in Locks : LineSet(l) = {} /\ tkt[l] = 0 /\ svc[l] = 0
  BY DEF Init, LineSet, Asking, Waiting, Holding
<1>4. Gap(0, 0) = 0
  BY <1>1, GapType
<1>5. TicketInv
  BY <1>3, <1>4, <1>1, TicketModAssumption
     DEF TicketInv, LineSet, Asking, Tickets
<1>6. IrqInv
  BY ThreadsAssumption
     DEF Init, IrqInv, Asking, Waiting, Holding, Contexts
<1> QED  BY <1>2, <1>5, <1>6 DEF IInv

\* Every operation of spin.c, the timer and the scheduler keep the types.
LEMMA TypeStep == TypeOK /\ [Next]_vars => TypeOK'
<1> SUFFICES ASSUME TypeOK, [Next]_vars PROVE TypeOK'
  OBVIOUS
<1> USE DEF TypeOK
<1>0. 0 \in Tickets /\ TickLock \in Locks /\ Isr \in Contexts
  BY TicketModAssumption, ThreadsAssumption, FS_AddElement, FS_CardinalityType
     DEF Tickets, Contexts, Locks
<1>1. ASSUME NEW t \in Threads, NEW l \in RawLocks, raw_spin_take(t, l) PROVE TypeOK'
  BY <1>1, IncType DEF raw_spin_take, DrawTicket, Locks, Contexts
<1>2. ASSUME NEW t \in Threads, raw_spin_poll(t) PROVE TypeOK'
  BY <1>2 DEF raw_spin_poll, Contexts
<1>3. ASSUME NEW t \in Threads, raw_spin_give(t) PROVE TypeOK'
  BY <1>0, <1>3, IncType DEF raw_spin_give, Leave, Contexts
<1>4. ASSUME NEW c \in Contexts, irq_spin_take(c) PROVE TypeOK'
  BY <1>0, <1>4, IncType DEF irq_spin_take, DrawTicket
<1>5. ASSUME NEW c \in Contexts, irq_spin_poll(c) PROVE TypeOK'
  <2>1. CASE svc[TickLock] = my[c]
    BY <1>5, <2>1 DEF irq_spin_poll
  <2>2. CASE svc[TickLock] # my[c]
    BY <1>5, <2>2 DEF irq_spin_poll
  <2> QED  BY <2>1, <2>2
<1>6. ASSUME NEW c \in Contexts, irq_spin_give(c) PROVE TypeOK'
  <2>1. PICK p \in {"idle", "tick"} : Leave(c, p)
    BY <1>6 DEF irq_spin_give
  <2>2. IF_' \in BOOLEAN
    BY <1>6 DEF irq_spin_give
  <2> QED  BY <1>0, <2>1, <2>2, IncType DEF Leave
<1>7. CASE TimerInterrupt
  BY <1>0, <1>7 DEF TimerInterrupt
<1>8. ASSUME NEW t \in Threads, schedule(t) PROVE TypeOK'
  BY <1>8 DEF schedule, Contexts
<1>9. CASE UNCHANGED vars
  BY <1>9 DEF vars
<1> QED  BY <1>1, <1>2, <1>3, <1>4, <1>5, <1>6, <1>7, <1>8, <1>9 DEF Next

\* Type correctness of the spin lock: ticket counters stay within their width.
THEOREM TypeCorrect == Spec => []TypeOK
<1>1. Init => TypeOK
  BY InitInv DEF IInv
<1> QED  BY <1>1, TypeStep, PTL DEF Spec

\* The tickets stay in order whatever step is taken.
LEMMA TicketStep == IInv /\ [Next]_vars => TicketInv'
<1> SUFFICES ASSUME IInv, [Next]_vars PROVE TicketInv'
  OBVIOUS
<1>0. TypeOK /\ TicketInv
  BY DEF IInv
<1>1. ASSUME NEW t \in Threads, NEW l \in RawLocks, raw_spin_take(t, l) PROVE TicketInv'
  BY <1>0, <1>1, DrawKeepsTickets DEF raw_spin_take, Contexts, Locks
<1>2. ASSUME NEW t \in Threads, raw_spin_poll(t) PROVE TicketInv'
  BY <1>0, <1>2, EnterKeepsTickets DEF raw_spin_poll, Contexts
<1>3. ASSUME NEW t \in Threads, raw_spin_give(t) PROVE TicketInv'
  BY <1>0, <1>3, LeaveKeepsTickets DEF raw_spin_give, Contexts
<1>4. ASSUME NEW c \in Contexts, irq_spin_take(c) PROVE TicketInv'
  BY <1>0, <1>4, DrawKeepsTickets DEF irq_spin_take, Locks
<1>5. ASSUME NEW c \in Contexts, irq_spin_poll(c) PROVE TicketInv'
  <2>1. CASE svc[TickLock] = my[c]
    BY <1>0, <1>5, <2>1, EnterKeepsTickets DEF irq_spin_poll
  <2>2. CASE svc[TickLock] # my[c]
    <3>1. UNCHANGED <<tkt, svc, lock, my, pc>>
      BY <1>5, <2>2 DEF irq_spin_poll
    <3> QED  BY <3>1, <1>0 DEF TicketInv, LineSet, Asking, Waiting, Holding
  <2> QED  BY <2>1, <2>2
<1>6. ASSUME NEW c \in Contexts, irq_spin_give(c) PROVE TicketInv'
  <2>1. PICK p \in {"idle", "tick"} : Leave(c, p)
    BY <1>6 DEF irq_spin_give
  <2>2. pc[c] = "cs"
    BY <1>6 DEF irq_spin_give
  <2> QED  BY <1>0, <2>1, <2>2, LeaveKeepsTickets
<1>7. CASE TimerInterrupt
  <2>1. \A d \in Contexts : d # Isr => pc'[d] = pc[d]
    BY <1>0, <1>7 DEF TimerInterrupt, TypeOK
  <2>2. pc[Isr] \notin {"spin", "cs"} /\ pc'[Isr] \notin {"spin", "cs"}
    BY <1>0, <1>7, ThreadsAssumption DEF TimerInterrupt, TypeOK, IInv, IrqInv, Contexts
  <2>3. \A l \in Locks : LineSet(l)' = LineSet(l)
        /\ \A c \in Contexts : Holding(c, l)' <=> Holding(c, l)
    BY <1>7, <2>1, <2>2 DEF TimerInterrupt, LineSet, Asking, Waiting, Holding
  <2>4. UNCHANGED <<tkt, svc, my>>
    BY <1>7 DEF TimerInterrupt
  <2> QED  BY <1>0, <2>3, <2>4 DEF TicketInv, Gap
<1>8. ASSUME NEW t \in Threads, schedule(t) PROVE TicketInv'
  BY <1>0, <1>8 DEF schedule, TicketInv, LineSet, Asking, Waiting, Holding
<1>9. CASE UNCHANGED vars
  BY <1>0, <1>9 DEF vars, TicketInv, LineSet, Asking, Waiting, Holding
<1> QED  BY <1>1, <1>2, <1>3, <1>4, <1>5, <1>6, <1>7, <1>8, <1>9 DEF Next

\* Nobody asks for the watchdog lock when a context comes to it: its counters
\* are equal, so the ticket drawn is the one being served.
LEMMA NobodyInLine ==
    ASSUME TypeOK, TicketInv, NEW l \in Locks, \A c \in Contexts : ~Asking(c, l)
    PROVE  tkt[l] = svc[l]
<1>1. LineSet(l) = {}
  BY DEF LineSet
<1>2. tkt[l] \in Tickets /\ svc[l] \in Tickets
  BY DEF TypeOK
<1>3. 0 \in Tickets /\ Gap(tkt[l], svc[l]) \in Tickets
  <2>1. 0 \in Tickets
    BY <1>2, TicketModAssumption DEF Tickets
  <2> QED  BY <1>2, <2>1, GapType
<1>4. ~(0 < Gap(tkt[l], svc[l]))
  BY <1>1, <1>3 DEF TicketInv
<1>5. Gap(tkt[l], svc[l]) = 0
  BY <1>3, <1>4, TicketModAssumption DEF Tickets
<1> QED  BY <1>2, <1>5, GapType

\* Interrupts stay disabled from irq_spin_take to irq_spin_give, and only there
\* and in the interrupt handler.
LEMMA IrqStep == IInv /\ [Next]_vars => IrqInv'
<1> SUFFICES ASSUME IInv, [Next]_vars PROVE IrqInv'
  OBVIOUS
<1> USE ThreadsAssumption, LocksAssumption DEF Contexts
<1>0. TypeOK /\ TicketInv /\ IrqInv /\ TickLock \in Locks
  BY DEF IInv, Locks
<1>1. ASSUME NEW t \in Threads, NEW l \in RawLocks, raw_spin_take(t, l) PROVE IrqInv'
  BY <1>0, <1>1
     DEF raw_spin_take, DrawTicket, IrqInv, TypeOK, Asking, Waiting, Holding
<1>2. ASSUME NEW t \in Threads, raw_spin_poll(t) PROVE IrqInv'
  BY <1>0, <1>2 DEF raw_spin_poll, IrqInv, TypeOK, Asking, Waiting, Holding
<1>3. ASSUME NEW t \in Threads, raw_spin_give(t) PROVE IrqInv'
  BY <1>0, <1>3 DEF raw_spin_give, Leave, IrqInv, TypeOK, Asking, Waiting, Holding
<1>4. ASSUME NEW c \in Contexts, irq_spin_take(c) PROVE IrqInv'
  <2>1. \A d \in Contexts : ~Asking(d, TickLock)
    BY <1>0, <1>4 DEF irq_spin_take, IrqInv, Asking, Waiting, Holding
  <2>2. tkt[TickLock] = svc[TickLock]
    BY <1>0, <2>1, NobodyInLine
  <2>3. \A d \in Contexts : d # c =>
          pc'[d] = pc[d] /\ lock'[d] = lock[d] /\ my'[d] = my[d]
    BY <1>0, <1>4 DEF irq_spin_take, DrawTicket, TypeOK
  <2>4. /\ pc'[c] = "spin" /\ lock'[c] = TickLock /\ my'[c] = svc'[TickLock]
        /\ cur' = c /\ IF_' = FALSE /\ cur = c /\ key'[c] = IF_
    BY <1>0, <1>4, <2>2 DEF irq_spin_take, DrawTicket, TypeOK
  <2>7. IF_ = (c # Isr)
    BY <1>0, <2>1, <2>4 DEF IrqInv, TypeOK
  <2>5. \A d \in Contexts : Asking(d, TickLock)' => d = c
    BY <2>1, <2>3 DEF Asking, Waiting, Holding
  <2>6. Asking(cur, TickLock)'
    BY <2>4 DEF Asking, Waiting
  <2> QED  BY <1>0, <2>3, <2>4, <2>5, <2>6, <2>7 DEF IrqInv, TypeOK
<1>5. ASSUME NEW c \in Contexts, irq_spin_poll(c) PROVE IrqInv'
  <2>1. svc[TickLock] = my[c]
    BY <1>0, <1>5 DEF irq_spin_poll, IrqInv, Asking, Waiting
  <2> QED
    BY <1>0, <1>5, <2>1 DEF irq_spin_poll, IrqInv, TypeOK, Asking, Waiting, Holding
<1>6. ASSUME NEW c \in Contexts, irq_spin_give(c) PROVE IrqInv'
  <2>1. PICK p \in {"idle"} \cup (IF c = Isr THEN {"tick"} ELSE {}) : Leave(c, p)
    BY <1>6 DEF irq_spin_give
  <2>2. cur = c /\ cur' = c /\ Asking(c, TickLock)
    BY <1>6, <2>1 DEF irq_spin_give, Leave, Asking, Holding
  <2>3. IF_' = (c # Isr)
    BY <1>0, <1>6, <2>2 DEF irq_spin_give, IrqInv
  <2>4. pc'[c] = p /\ \A d \in Contexts : d # c =>
          pc'[d] = pc[d] /\ lock'[d] = lock[d]
    BY <1>0, <2>1 DEF Leave, TypeOK
  <2>5. \A d \in Contexts : ~Asking(d, TickLock)'
    BY <1>0, <2>2, <2>4 DEF IrqInv, Asking, Waiting, Holding
  <2> QED  BY <1>0, <2>2, <2>3, <2>4, <2>5 DEF IrqInv
<1>7. CASE TimerInterrupt
  BY <1>0, <1>7 DEF TimerInterrupt, IrqInv, TypeOK, Asking, Waiting, Holding
<1>8. ASSUME NEW t \in Threads, schedule(t) PROVE IrqInv'
  BY <1>0, <1>8 DEF schedule, IrqInv, TypeOK, Asking, Waiting, Holding
<1>9. CASE UNCHANGED vars
  BY <1>0, <1>9 DEF vars, IrqInv, Asking, Waiting, Holding
<1> QED  BY <1>1, <1>2, <1>3, <1>4, <1>5, <1>6, <1>7, <1>8, <1>9 DEF Next

-----------------------------------------------------------------------------
\* The strengthened invariant of the spin lock.
THEOREM Invariance == Spec => []IInv
<1>1. IInv /\ [Next]_vars => IInv'
  BY TypeStep, TicketStep, IrqStep DEF IInv
<1> QED  BY <1>1, InitInv, PTL DEF Spec

\* raw_spin_take and irq_spin_take give a lock to one context at a time, for
\* any number of threads and locks, with preemption anywhere.
THEOREM MutualExclusionHolds == Spec => []MutualExclusion
<1>1. IInv => MutualExclusion
  BY DEF IInv, TicketInv, MutualExclusion, LineSet, Asking
<1> QED  BY <1>1, Invariance, PTL

\* tick_proc, running in the timer interrupt, always finds the watchdog lock
\* free.
THEOREM InterruptNeverSpinsHolds == Spec => []InterruptNeverSpins
<1>1. IInv => InterruptNeverSpins
  BY ThreadsAssumption
     DEF IInv, IrqInv, InterruptNeverSpins, Asking, Contexts
<1> QED  BY <1>1, Invariance, PTL

-----------------------------------------------------------------------------
(* The refinement of FifoLock.                                             *)

\* What Line(l) is: the contexts asking for l, each at the place that the
\* distance of its ticket from the one being served gives it.
LineShape ==
    \A l \in Locks :
        /\ Cardinality(LineSet(l)) = Gap(tkt[l], svc[l])
        /\ Line(l) \in Seq(Contexts)
        /\ Len(Line(l)) = Gap(tkt[l], svc[l])
        /\ \A i \in 1 .. Len(Line(l)) :
              Line(l)[i] \in LineSet(l) /\ Gap(my[Line(l)[i]], svc[l]) = i - 1
        /\ \A c \in LineSet(l) :
              /\ Gap(my[c], svc[l]) + 1 \in 1 .. Len(Line(l))
              /\ Line(l)[Gap(my[c], svc[l]) + 1] = c
        /\ \A s \in Seq(Contexts) :
              /\ Len(s) = Gap(tkt[l], svc[l])
              /\ \A i \in 1 .. Len(s) :
                    s[i] \in LineSet(l) /\ Gap(my[s[i]], svc[l]) = i - 1
              => s = Line(l)

\* A function on 1 .. k is a sequence of length k.
LEMMA FunctionIsSeq ==
    ASSUME NEW S, NEW k \in Nat, NEW f \in [1 .. k -> S]
    PROVE  f \in Seq(S) /\ Len(f) = k
OBVIOUS

\* Tickets are distinct and without holes, so the line has one context for each
\* ticket from svc to tkt.
LEMMA LineShaped == TypeOK /\ TicketInv => LineShape
<1> SUFFICES ASSUME TypeOK, TicketInv, NEW l \in Locks
             PROVE  /\ Cardinality(LineSet(l)) = Gap(tkt[l], svc[l])
                    /\ Line(l) \in Seq(Contexts)
                    /\ Len(Line(l)) = Gap(tkt[l], svc[l])
                    /\ \A i \in 1 .. Len(Line(l)) :
                          Line(l)[i] \in LineSet(l) /\ Gap(my[Line(l)[i]], svc[l]) = i - 1
                    /\ \A c \in LineSet(l) :
                          /\ Gap(my[c], svc[l]) + 1 \in 1 .. Len(Line(l))
                          /\ Line(l)[Gap(my[c], svc[l]) + 1] = c
                    /\ \A s \in Seq(Contexts) :
                          /\ Len(s) = Gap(tkt[l], svc[l])
                          /\ \A i \in 1 .. Len(s) :
                                s[i] \in LineSet(l) /\ Gap(my[s[i]], svc[l]) = i - 1
                          => s = Line(l)
  BY DEF LineShape
<1> DEFINE g == Gap(tkt[l], svc[l])
           owner == [i \in 1 .. g |->
                        CHOOSE d \in LineSet(l) : Gap(my[d], svc[l]) = i - 1]
<1>1. g \in Nat /\ g < TicketMod
  BY GapType, TicketModAssumption DEF TypeOK, Tickets
<1>2. \A i \in 1 .. g : owner[i] \in LineSet(l) /\ Gap(my[owner[i]], svc[l]) = i - 1
  <2> SUFFICES ASSUME NEW i \in 1 .. g
               PROVE  \E d \in LineSet(l) : Gap(my[d], svc[l]) = i - 1
    OBVIOUS
  <2>1. i - 1 \in Tickets /\ i - 1 < g
    BY <1>1, TicketModAssumption DEF Tickets
  <2> QED  BY <2>1 DEF TicketInv
<1>3. \A c \in LineSet(l) : /\ my[c] \in Tickets /\ svc[l] \in Tickets
                            /\ Gap(my[c], svc[l]) \in Nat /\ Gap(my[c], svc[l]) < g
  BY GapType, TicketModAssumption DEF TicketInv, TypeOK, LineSet, Tickets
<1>4. ASSUME NEW c \in LineSet(l)
      PROVE  Gap(my[c], svc[l]) + 1 \in 1 .. g /\ owner[Gap(my[c], svc[l]) + 1] = c
  <2> DEFINE i == Gap(my[c], svc[l]) + 1
  <2>1. i \in 1 .. g /\ i - 1 = Gap(my[c], svc[l])
    BY <1>1, <1>3
  <2>2. owner[i] \in LineSet(l) /\ Gap(my[owner[i]], svc[l]) = Gap(my[c], svc[l])
    BY <1>2, <2>1
  <2>3. my[owner[i]] = my[c]
    BY <2>2, <1>3, GapInjective
  <2> HIDE DEF owner
  <2> QED  BY <2>1, <2>2, <2>3 DEF TicketInv
<1>5. owner \in Bijection(1 .. g, LineSet(l))
  <2>1. owner \in [1 .. g -> LineSet(l)]
    BY <1>2
  <2>2. \A i, j \in 1 .. g : owner[i] = owner[j] => i = j
    <3> SUFFICES ASSUME NEW i \in 1 .. g, NEW j \in 1 .. g, owner[i] = owner[j]
                 PROVE  i = j
      OBVIOUS
    <3>1. i - 1 = j - 1
      BY <1>2
    <3> HIDE DEF owner
    <3> QED  BY <3>1, <1>1
  <2> HIDE DEF owner
  <2> QED  BY <2>1, <2>2, <1>4, Fun_IsBij
<1>6. Cardinality(LineSet(l)) = g
  <2>1. IsFiniteSet(1 .. g) /\ Cardinality(1 .. g) = g
    BY <1>1, FS_Interval
  <2>2. ExistsBijection(1 .. g, LineSet(l))
    BY <1>5 DEF ExistsBijection
  <2> QED  BY <2>1, <2>2, FS_Bijection
<1>7. Line(l) = owner
  BY <1>6 DEF Line
<1>8. LineSet(l) \subseteq Contexts
  BY DEF LineSet
<1>9. owner \in Seq(Contexts) /\ Len(owner) = g
  <2>1. owner \in [1 .. g -> Contexts]
    BY <1>2, <1>8
  <2> HIDE DEF owner, g
  <2> QED  BY <2>1, <1>1, FunctionIsSeq
<1>10. ASSUME NEW s \in Seq(Contexts), Len(s) = g,
              \A i \in 1 .. g : s[i] \in LineSet(l) /\ Gap(my[s[i]], svc[l]) = i - 1
       PROVE  s = owner
  <2>1. \A i \in 1 .. g : s[i] = owner[i]
    <3> SUFFICES ASSUME NEW i \in 1 .. g PROVE s[i] = owner[i]
      OBVIOUS
    <3>1. owner[(i - 1) + 1] = s[i]
      BY <1>4, <1>10
    <3> HIDE DEF owner
    <3> QED  BY <3>1, <1>1
  <2> HIDE DEF owner, g
  <2> QED  BY <2>1, <1>9, <1>10, SeqEqual
<1> HIDE DEF owner
<1> QED  BY <1>2, <1>4, <1>6, <1>7, <1>9, <1>10


\* Line as the state function that the refinement mapping substitutes.
LineMap == [l \in Locks |-> Line(l)]
Inside  == {c \in Contexts : pc[c] = "cs"}

\* A line changes only where the tickets or the counters of its lock do.
LEMMA LineKept ==
    ASSUME LineShape, LineShape', NEW l \in Locks,
           LineSet(l)' = LineSet(l), tkt'[l] = tkt[l], svc'[l] = svc[l],
           \A c \in LineSet(l) : my'[c] = my[c]
    PROVE  Line(l)' = Line(l)
<1>1. /\ Line(l) \in Seq(Contexts) /\ Len(Line(l)) = Gap(tkt[l], svc[l])
      /\ \A i \in 1 .. Len(Line(l)) :
            Line(l)[i] \in LineSet(l) /\ Gap(my[Line(l)[i]], svc[l]) = i - 1
  BY DEF LineShape
<1>2. \A s \in Seq(Contexts) :
         /\ Len(s) = Gap(tkt'[l], svc'[l])
         /\ \A i \in 1 .. Len(s) :
               s[i] \in LineSet(l)' /\ Gap(my'[s[i]], svc'[l]) = i - 1
         => s = Line(l)'
  BY DEF LineShape, Gap
<1> QED  BY <1>1, <1>2

\* Drawing a ticket is joining the end of the line.
LEMMA DrawIsAsk ==
    ASSUME TypeOK, TicketInv, LineShape, LineShape',
           NEW c \in Contexts, NEW l \in Locks,
           pc[c] \in {"idle", "tick"}, DrawTicket(c, l), UNCHANGED svc
    PROVE  Fifo!Ask(c, l)
<1>1. c \notin LineSet(l) /\ ~Asking(c, l) /\ \A m \in Locks : c \notin LineSet(m)
  BY DEF LineSet, Asking, Waiting, Holding
<1>2. pc'[c] = "spin" /\ lock'[c] = l /\ my'[c] = tkt[l] /\ tkt'[l] = Inc(tkt[l])
  BY DEF DrawTicket, TypeOK
<1>3. \A d \in Contexts : d # c =>
         pc'[d] = pc[d] /\ lock'[d] = lock[d] /\ my'[d] = my[d]
  BY DEF DrawTicket, TypeOK
<1>4. LineSet(l)' = LineSet(l) \cup {c}
  BY <1>2, <1>3 DEF LineSet, Asking, Waiting, Holding
<1>5. \A m \in Locks : m # l => LineSet(m)' = LineSet(m) /\ tkt'[m] = tkt[m]
  BY <1>1, <1>2, <1>3 DEF LineSet, Asking, Waiting, Holding, DrawTicket, TypeOK
<1>6. \A m \in Locks : m # l => Line(m)' = Line(m)
  <2> SUFFICES ASSUME NEW m \in Locks, m # l PROVE Line(m)' = Line(m)
    OBVIOUS
  <2>1. \A d \in LineSet(m) : my'[d] = my[d]
    BY <1>1, <1>3 DEF LineSet
  <2>2. svc'[m] = svc[m]
    OBVIOUS
  <2> QED  BY <1>5, <2>1, <2>2, LineKept
<1>7. Line(l)' = Append(Line(l), c)
  <2> DEFINE s == Append(Line(l), c)
  <2>1. /\ Line(l) \in Seq(Contexts) /\ Len(Line(l)) = Gap(tkt[l], svc[l])
        /\ \A i \in 1 .. Len(Line(l)) :
              Line(l)[i] \in LineSet(l) /\ Gap(my[Line(l)[i]], svc[l]) = i - 1
    BY DEF LineShape
  <2>2. \A r \in Seq(Contexts) :
           /\ Len(r) = Gap(tkt'[l], svc[l])
           /\ \A i \in 1 .. Len(r) :
                 r[i] \in LineSet(l)' /\ Gap(my'[r[i]], svc[l]) = i - 1
           => r = Line(l)'
    BY DEF LineShape, Gap
  <2>3. tkt[l] \in Tickets /\ svc[l] \in Tickets
    BY DEF TypeOK
  <2>4. Gap(tkt'[l], svc[l]) = Gap(tkt[l], svc[l]) + 1
    BY <1>1, <1>2, <2>3, RoomForOneMore, GapDraw
  <2>5. /\ s \in Seq(Contexts) /\ Len(s) = Len(Line(l)) + 1
        /\ s[Len(Line(l)) + 1] = c
        /\ \A i \in 1 .. Len(Line(l)) : s[i] = Line(l)[i]
    BY <2>1
  <2>6. Len(Line(l)) \in Nat
    BY <2>1
  <2>7. ASSUME NEW i \in 1 .. Len(s)
        PROVE  s[i] \in LineSet(l)' /\ Gap(my'[s[i]], svc[l]) = i - 1
    <3>1. CASE i = Len(Line(l)) + 1
      <4>1. s[i] = c /\ Gap(my'[c], svc[l]) = Len(Line(l))
        BY <3>1, <2>1, <2>5, <1>2
      <4> QED  BY <3>1, <4>1, <1>4, <2>6
    <3>2. CASE i \in 1 .. Len(Line(l))
      <4>1. s[i] = Line(l)[i] /\ Line(l)[i] \in LineSet(l)
        BY <3>2, <2>1, <2>5
      <4>2. my'[s[i]] = my[s[i]]
        BY <4>1, <1>1, <1>3 DEF LineSet
      <4> QED  BY <3>2, <4>1, <4>2, <2>1, <1>4
    <3> QED  BY <3>1, <3>2, <2>5, <2>6
  <2> HIDE DEF s
  <2>8. s = Line(l)'
    BY <2>1, <2>2, <2>4, <2>5, <2>7
  <2> QED  BY <2>8 DEF s
<1>8. LineMap' = [LineMap EXCEPT ![l] = Append(@, c)]
  BY <1>6, <1>7 DEF LineMap
<1>9. Inside' = Inside
  BY <1>2, <1>3 DEF Inside
<1>10. \A m \in Locks : \A i \in 1 .. Len(LineMap[m]) : LineMap[m][i] # c
  BY <1>1 DEF LineShape, LineMap
<1>11. ~Fifo!InLine(c)
  BY <1>10 DEF Fifo!InLine, LineMap
<1> QED  BY <1>8, <1>9, <1>11 DEF Fifo!Ask, LineMap, Inside

\* The ticket being served belongs to the head of the line.
LEMMA ServedIsHead ==
    ASSUME TypeOK, LineShape, NEW c \in Contexts,
           pc[c] \in {"spin", "cs"}, my[c] = svc[lock[c]]
    PROVE  LineMap[lock[c]] # <<>> /\ Head(LineMap[lock[c]]) = c
<1> DEFINE l == lock[c]
<1>1. l \in Locks /\ c \in LineSet(l) /\ my[c] \in Tickets
  BY DEF TypeOK, LineSet, Asking, Waiting, Holding
<1>2. Gap(my[c], svc[l]) = 0
  BY <1>1, GapType
<1>3. Line(l) \in Seq(Contexts) /\ 0 + 1 \in 1 .. Len(Line(l)) /\ Line(l)[0 + 1] = c
  BY <1>1, <1>2 DEF LineShape
<1>4. LineMap[l] = Line(l)
  BY <1>1 DEF LineMap
<1> QED  BY <1>3, <1>4

\* The poll that finds the ticket served lets in the head of the line.
LEMMA PollIsEnter ==
    ASSUME TypeOK, LineShape, LineShape', NEW c \in Contexts, NEW l \in Locks,
           Waiting(c, l), svc[l] = my[c],
           pc' = [pc EXCEPT ![c] = "cs"], UNCHANGED <<tkt, svc, lock, my>>
    PROVE  Fifo!Enter(l)
<1>1. \A m \in Locks : LineSet(m)' = LineSet(m)
  BY DEF LineSet, Asking, Waiting, Holding, TypeOK
<1>2. \A m \in Locks : Line(m)' = Line(m)
  BY <1>1, LineKept
<1>3. LineMap' = LineMap
  BY <1>2 DEF LineMap
<1>4. Inside' = Inside \cup {c} /\ c \notin Inside
  BY DEF Inside, TypeOK, Waiting
<1>5. LineMap[l] # <<>> /\ Head(LineMap[l]) = c
  BY ServedIsHead DEF Waiting
<1> QED  BY <1>3, <1>4, <1>5 DEF Fifo!Enter, LineMap, Inside

\* Giving the lock back is leaving the head of the line.
LEMMA GiveIsLeave ==
    ASSUME TypeOK, TicketInv, LineShape, LineShape',
           NEW c \in Contexts, NEW l \in Locks, NEW p \in {"idle", "tick"},
           Holding(c, l), Leave(c, p)
    PROVE  Fifo!Leave(l)
<1>0. pc[c] = "cs" /\ lock[c] = l /\ c \in LineSet(l) /\ my[c] = svc[l]
      /\ tkt[l] \in Tickets /\ svc[l] \in Tickets
  BY DEF TypeOK, TicketInv, Holding, LineSet, Asking
<1>1. LineMap[l] # <<>> /\ Head(LineMap[l]) = c
  BY <1>0, ServedIsHead
<1>2. pc'[c] \in {"idle", "tick"} /\ svc'[l] = Inc(svc[l]) /\ tkt' = tkt
  BY <1>0 DEF Leave, TypeOK
<1>3. \A d \in Contexts : d # c =>
         pc'[d] = pc[d] /\ lock'[d] = lock[d] /\ my'[d] = my[d]
  BY DEF Leave, TypeOK
<1>4. LineSet(l)' = LineSet(l) \ {c}
  BY <1>2, <1>3 DEF LineSet, Asking, Waiting, Holding
<1>5. \A m \in Locks : m # l =>
         LineSet(m)' = LineSet(m) /\ svc'[m] = svc[m] /\ c \notin LineSet(m)
  BY <1>0, <1>2, <1>3 DEF LineSet, Asking, Waiting, Holding, Leave, TypeOK
<1>6. \A m \in Locks : m # l => Line(m)' = Line(m)
  <2> SUFFICES ASSUME NEW m \in Locks, m # l PROVE Line(m)' = Line(m)
    OBVIOUS
  <2>1. \A d \in LineSet(m) : my'[d] = my[d]
    BY <1>3, <1>5 DEF LineSet
  <2>2. tkt'[m] = tkt[m]
    BY <1>2
  <2> QED  BY <1>5, <2>1, <2>2, LineKept
<1>7. Line(l)' = Tail(Line(l))
  <2> DEFINE s == Tail(Line(l))
  <2>1. /\ Line(l) \in Seq(Contexts) /\ Len(Line(l)) = Gap(tkt[l], svc[l])
        /\ \A i \in 1 .. Len(Line(l)) :
              Line(l)[i] \in LineSet(l) /\ Gap(my[Line(l)[i]], svc[l]) = i - 1
    BY <1>0 DEF LineShape
  <2>2. \A r \in Seq(Contexts) :
           /\ Len(r) = Gap(tkt[l], svc'[l])
           /\ \A i \in 1 .. Len(r) :
                 r[i] \in LineSet(l)' /\ Gap(my'[r[i]], svc'[l]) = i - 1
           => r = Line(l)'
    BY <1>0, <1>2 DEF LineShape, Gap
  <2>3. Line(l) # <<>> /\ LineMap[l] = Line(l)
    BY <1>0, <1>1 DEF LineMap
  <2>4. /\ s \in Seq(Contexts) /\ Len(s) = Len(Line(l)) - 1
        /\ \A i \in 1 .. Len(s) : s[i] = Line(l)[i + 1]
    BY <2>1, <2>3, HeadTailProperties
  <2>5. Len(Line(l)) \in Nat /\ Len(Line(l)) > 0
    BY <2>1, <2>3
  <2>6. tkt[l] # svc[l]
    BY <1>0, <2>1, <2>5, GapType
  <2>7. Gap(tkt[l], svc'[l]) = Gap(tkt[l], svc[l]) - 1
    BY <1>0, <1>2, <2>6, GapServe
  <2>8. ASSUME NEW i \in 1 .. Len(s)
        PROVE  s[i] \in LineSet(l)' /\ Gap(my'[s[i]], svc'[l]) = i - 1
    <3>1. i + 1 \in 1 .. Len(Line(l)) /\ s[i] = Line(l)[i + 1]
      BY <2>4, <2>5
    <3>2. s[i] \in LineSet(l) /\ Gap(my[s[i]], svc[l]) = i
      BY <2>1, <3>1
    <3>3. s[i] \in Contexts /\ my[s[i]] \in Tickets
      BY <3>2 DEF LineSet, TypeOK
    <3>4. my[s[i]] # svc[l]
      BY <3>2, <3>3, <1>0, GapType, <2>4
    <3>5. s[i] # c
      BY <3>4, <1>0
    <3>6. Gap(my[s[i]], svc'[l]) = i - 1
      BY <3>2, <3>3, <3>4, <1>0, <1>2, GapServe
    <3> QED  BY <3>2, <3>3, <3>5, <3>6, <1>3, <1>4
  <2> HIDE DEF s
  <2>9. s = Line(l)'
    BY <2>1, <2>2, <2>4, <2>7, <2>8
  <2> QED  BY <2>9 DEF s
<1>8. LineMap' = [LineMap EXCEPT ![l] = Tail(@)]
  BY <1>0, <1>6, <1>7 DEF LineMap
<1>9. Inside' = Inside \ {c} /\ c \in Inside
  BY <1>0, <1>2, <1>3 DEF Inside
<1> QED  BY <1>1, <1>8, <1>9 DEF Fifo!Leave, LineMap, Inside

\* A step that leaves the tickets and the counters alone leaves the lines alone.
LEMMA LinesKept ==
    ASSUME TypeOK, LineShape, LineShape', UNCHANGED <<tkt, svc, lock, my>>,
           \A c \in Contexts : pc'[c] = pc[c]
                 \/ (pc[c] \in {"idle", "tick"} /\ pc'[c] \in {"idle", "tick"})
    PROVE  LineMap' = LineMap /\ Inside' = Inside
<1>1. \A m \in Locks : LineSet(m)' = LineSet(m)
  BY DEF LineSet, Asking, Waiting, Holding
<1>2. \A m \in Locks : Line(m)' = Line(m)
  BY <1>1, LineKept
<1> QED  BY <1>2 DEF LineMap, Inside

\* Every step of the ticket lock is a step of the first-come-first-served lock,
\* or none.
LEMMA FifoStep ==
    IInv /\ LineShape /\ LineShape' /\ [Next]_vars
        => [Fifo!Next]_<<LineMap, Inside>>
<1> SUFFICES ASSUME IInv, LineShape, LineShape', [Next]_vars
             PROVE  Fifo!Next \/ (LineMap' = LineMap /\ Inside' = Inside)
  OBVIOUS
<1>0. TypeOK /\ TicketInv /\ IrqInv
  BY DEF IInv
<1>1. ASSUME NEW t \in Threads, NEW l \in RawLocks, raw_spin_take(t, l) PROVE Fifo!Next
  <2>1. t \in Contexts /\ l \in Locks
    BY DEF Contexts, Locks
  <2>2. Fifo!Ask(t, l)
    BY <1>0, <1>1, <2>1, DrawIsAsk DEF raw_spin_take
  <2> QED  BY <2>1, <2>2 DEF Fifo!Next
<1>2. ASSUME NEW c \in Contexts, raw_spin_poll(c) PROVE Fifo!Next
  <2>1. \E l \in Locks : Fifo!Enter(l)
    BY <1>0, <1>2, PollIsEnter DEF raw_spin_poll, TypeOK, Waiting
  <2> QED  BY <2>1 DEF Fifo!Next
<1>3. ASSUME NEW c \in Contexts, raw_spin_give(c) PROVE Fifo!Next
  <2>1. \E l \in Locks : Fifo!Leave(l)
    BY <1>0, <1>3, GiveIsLeave DEF raw_spin_give, TypeOK, Holding
  <2> QED  BY <2>1 DEF Fifo!Next
<1>4. ASSUME NEW c \in Contexts, irq_spin_take(c) PROVE Fifo!Next
  <2>1. TickLock \in Locks
    BY DEF Locks
  <2>2. Fifo!Ask(c, TickLock)
    BY <1>0, <1>4, <2>1, DrawIsAsk DEF irq_spin_take
  <2> QED  BY <2>1, <2>2 DEF Fifo!Next
<1>5. ASSUME NEW c \in Contexts, irq_spin_poll(c)
      PROVE  Fifo!Next \/ (LineMap' = LineMap /\ Inside' = Inside)
  <2>1. CASE svc[TickLock] = my[c]
    <3>1. \E l \in Locks : Fifo!Enter(l)
      BY <1>0, <1>5, <2>1, PollIsEnter DEF irq_spin_poll, Locks, Waiting
    <3> QED  BY <3>1 DEF Fifo!Next
  <2>2. CASE svc[TickLock] # my[c]
    BY <1>0, <1>5, <2>2, LinesKept DEF irq_spin_poll
  <2> QED  BY <2>1, <2>2
<1>6. ASSUME NEW c \in Contexts, irq_spin_give(c) PROVE Fifo!Next
  <2>1. PICK p \in {"idle", "tick"} : Leave(c, p)
    BY <1>6 DEF irq_spin_give
  <2>2. Holding(c, TickLock) /\ TickLock \in Locks
    BY <1>6 DEF irq_spin_give, Holding, Locks
  <2>3. Fifo!Leave(TickLock)
    BY <1>0, <2>1, <2>2, GiveIsLeave
  <2> QED  BY <2>2, <2>3 DEF Fifo!Next
<1>7. CASE TimerInterrupt
  <2>1. pc[Isr] = "idle" /\ Isr \in Contexts
    BY <1>0, <1>7, ThreadsAssumption DEF TimerInterrupt, IrqInv, Contexts
  <2>2. \A c \in Contexts : pc'[c] = pc[c]
           \/ (pc[c] \in {"idle", "tick"} /\ pc'[c] \in {"idle", "tick"})
    BY <1>0, <1>7, <2>1 DEF TimerInterrupt, TypeOK
  <2> QED  BY <1>0, <1>7, <2>2, LinesKept DEF TimerInterrupt
<1>8. ASSUME NEW t \in Threads, schedule(t) PROVE LineMap' = LineMap /\ Inside' = Inside
  BY <1>0, <1>8, LinesKept DEF schedule
<1>9. CASE UNCHANGED vars
  BY <1>0, <1>9, LinesKept DEF vars
<1> QED
  BY <1>1, <1>2, <1>3, <1>4, <1>5, <1>6, <1>7, <1>8, <1>9 DEF Next, Contexts

\* The ticket lock implements the first-come-first-served lock: contexts are let
\* in one at a time in the order in which they drew their tickets, also when the
\* counters wrap around.
THEOREM FifoRefinement == Spec => FifoLockSpec
<1>1. Init => Fifo!Init
  <2> SUFFICES ASSUME Init PROVE Fifo!Init
    OBVIOUS
  <2>1. IInv
    BY InitInv
  <2>2. LineShape
    BY <2>1, LineShaped DEF IInv
  <2>3. \A l \in Locks : Len(Line(l)) = 0 /\ Line(l) \in Seq(Contexts)
    <3>1. \A l \in Locks : tkt[l] = svc[l] /\ tkt[l] \in Tickets
      BY <2>1 DEF Init, IInv, TypeOK
    <3> QED  BY <3>1, <2>2, GapType DEF LineShape
  <2>4. LineMap = [l \in Locks |-> <<>>]
    BY <2>3 DEF LineMap
  <2>5. Inside = {}
    BY DEF Init, Inside
  <2> QED  BY <2>4, <2>5 DEF Fifo!Init, LineMap, Inside
<1>2. IInv /\ LineShape /\ LineShape' /\ [Next]_vars
         => [Fifo!Next]_<<[l \in Locks |-> Line(l)], {c \in Contexts : pc[c] = "cs"}>>
  BY FifoStep DEF LineMap, Inside
<1>3. IInv => LineShape
  BY LineShaped DEF IInv
<1> QED  BY <1>1, <1>2, <1>3, Invariance, PTL DEF Spec, FifoLockSpec, Fifo!Spec
=============================================================================
