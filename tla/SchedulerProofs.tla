-------------------------- MODULE SchedulerProofs ---------------------------
(***************************************************************************)
(* Proofs about Scheduler, for any number of threads, pids and semaphores. *)
(***************************************************************************)
EXTENDS Scheduler, Lemmas

\* What OnOneList leaves open: a thread in thread_wait between its two list operations
\* is on no list, a thread in thread_wait has written down what it waits for, the
\* argument of a P or V on its way is a semaphore, and init never waits.
PlaceInv ==
    /\ pc[InitT] \in {"user", "v_wake"}
    /\ \A t \in Threads :
        /\ pc[t] = "limbo" => t \notin Range(running) \cup Range(blocked)
        /\ pc[t] \in {"limbo", "listed", "asleep"} => waitValue[t] = arg[t]
        /\ pc[t] \in {"p_wait", "v_wake"} => arg[t] \in Sems

\* A thread that exists has a pid, and no other.
PidInv == \A t \in Threads : pc[t] = "none" <=> pid[t] = NoValue

\* The threads inside a P of semaphore s that has found no permit; they account for
\* what the value of the semaphore and the balance do not.
InP(s) == {t \in Threads : pc[t] \in {"p_wait", "limbo", "listed", "asleep"} /\ arg[t] = s}
SemValue == \A s \in Sems : sem[s] = SemInit - balance[s] - Cardinality(InP(s))

ListInv == OnOneList /\ PlaceInv
IInv == TypeOK /\ ListInv /\ PidsSound /\ PidInv /\ SemAccounting /\ SemValue

-----------------------------------------------------------------------------
\* schedule() changes the order of the list and takes its head.
LEMMA SwitchLists ==
    ASSUME TypeOK, OnOneList, Switch(running)
    PROVE  /\ running' \in Seq(Threads) /\ Range(running') = Range(running)
           /\ NoRepeat(running') /\ current' = Head(running)
           /\ Head(running) \in Range(running) /\ Head(running) \in Threads
<1>1. running \in Seq(Threads) /\ NoRepeat(running) /\ running # <<>>
      /\ running' = Append(Tail(running), Head(running)) /\ current' = Head(running)
  BY DEF TypeOK, OnOneList, Switch
<1> QED  BY <1>1, RotateIs

\* thread_wait takes the thread from the list.
LEMMA WaitLists ==
    ASSUME TypeOK, OnOneList, NEW t \in Threads, NEW v, WaitOn(t, v)
    PROVE  /\ running' \in Seq(Threads) /\ Range(running') = Range(running) \ {t}
           /\ NoRepeat(running') /\ Range(running) \subseteq Threads
<1>1. running \in Seq(Threads) /\ NoRepeat(running)
      /\ running' = Those(running, Threads \ {t})
  BY DEF TypeOK, OnOneList, WaitOn, remove_thread_from_running, Del
<1>2. /\ running' \in Seq(Threads) /\ Range(running') = Range(running) \cap (Threads \ {t})
      /\ NoRepeat(running')
  BY <1>1, ThoseIs
<1>3. Range(running) \subseteq Threads
  BY <1>1, RangeIs
<1> QED  BY <1>2, <1>3

\* The types and the lists in a switch of threads.
LEMMA ScheduleList ==
    ASSUME TypeOK, ListInv, schedule
    PROVE  TypeOK' /\ ListInv'
<1>1. OnOneList /\ PlaceInv
  BY DEF ListInv
<1>2. /\ running' \in Seq(Threads) /\ Range(running') = Range(running)
      /\ NoRepeat(running') /\ current' = Head(running)
      /\ Head(running) \in Range(running) /\ Head(running) \in Threads
  BY <1>1, SwitchLists DEF schedule
<1>3. PICK h \in Threads : h = Head(running) /\ h \in Range(running)
  BY <1>2
<1>4. /\ pc' = [pc EXCEPT ![h] = IF @ = "asleep" THEN "user" ELSE @]
      /\ balance' = IF pc[h] = "asleep" /\ arg[h] \in Sems
                      THEN [balance EXCEPT ![arg[h]] = @ + 1] ELSE balance
      /\ UNCHANGED <<blocked, arg, waitValue, pid, bitmap, sem>>
  BY <1>3 DEF schedule, Return
<1>5. TypeOK'
  BY <1>2, <1>3, <1>4 DEF TypeOK, Points
<1>6. OnOneList'
  BY <1>1, <1>2, <1>3, <1>4 DEF TypeOK, OnOneList
<1>7. PlaceInv'
  BY <1>1, <1>2, <1>3, <1>4, SchedulerAssumption DEF TypeOK, OnOneList, PlaceInv
<1> QED  BY <1>5, <1>6, <1>7 DEF ListInv

\* In the three steps of thread_wait.
LEMMA WaitOnList ==
    ASSUME TypeOK, ListInv, NEW t \in Threads, pc[t] \in {"user", "p_wait"}, t # InitT,
           NEW v \in Sems \cup Pids, WaitOn(t, v)
    PROVE  TypeOK' /\ ListInv'
<1>1. OnOneList /\ PlaceInv
  BY DEF ListInv
<1>2. /\ running' \in Seq(Threads) /\ Range(running') = Range(running) \ {t}
      /\ NoRepeat(running')
  BY <1>1, WaitLists
<1>3. /\ waitValue' = [waitValue EXCEPT ![t] = v] /\ arg' = [arg EXCEPT ![t] = v]
      /\ pc' = [pc EXCEPT ![t] = "limbo"]
      /\ UNCHANGED <<blocked, current, pid, bitmap, sem, balance>>
  BY DEF WaitOn
<1>4. t \notin Range(blocked)
  BY <1>1 DEF OnOneList
<1>5. TypeOK'
  BY <1>2, <1>3 DEF TypeOK, Points
<1>6. OnOneList'
  BY <1>1, <1>2, <1>3, <1>4 DEF TypeOK, OnOneList
<1>7. PlaceInv'
  BY <1>1, <1>2, <1>3, <1>4, SchedulerAssumption DEF TypeOK, PlaceInv
<1> QED  BY <1>5, <1>6, <1>7 DEF ListInv

\* The second list operation of thread_wait: the caller, on no list, joins the blocked list.
LEMMA WaitListList ==
    ASSUME TypeOK, ListInv, NEW t \in Threads, thread_wait_list(t)
    PROVE  TypeOK' /\ ListInv'
<1>1. OnOneList /\ PlaceInv
  BY DEF ListInv
<1>2. /\ pc[t] = "limbo" /\ pc' = [pc EXCEPT ![t] = "listed"] /\ blocked' = <<t>> \o blocked
      /\ UNCHANGED <<running, current, arg, waitValue, pid, bitmap, sem, balance>>
  BY DEF thread_wait_list
<1>3. t \notin Range(running) /\ t \notin Range(blocked) /\ waitValue[t] = arg[t] /\ t # InitT
  BY <1>1, <1>2 DEF PlaceInv
<1>4. /\ blocked' \in Seq(Threads) /\ Range(blocked') = {t} \cup Range(blocked)
      /\ NoRepeat(blocked')
  <2>1. blocked \in Seq(Threads) /\ NoRepeat(blocked)
    BY <1>1 DEF TypeOK, OnOneList
  <2> QED  BY <1>2, <1>3, <2>1, PushIs
<1>5. TypeOK'
  BY <1>2, <1>4 DEF TypeOK, Points
<1>6. OnOneList'
  BY <1>1, <1>2, <1>3, <1>4 DEF TypeOK, OnOneList
<1>7. PlaceInv'
  BY <1>1, <1>2, <1>3, <1>4, SchedulerAssumption DEF TypeOK, PlaceInv
<1> QED  BY <1>5, <1>6, <1>7 DEF ListInv

\* The switch at the end of thread_wait keeps every thread on one list.
LEMMA WaitSwitchList ==
    ASSUME TypeOK, ListInv, NEW t \in Threads, thread_wait_switch(t)
    PROVE  TypeOK' /\ ListInv'
<1>1. OnOneList /\ PlaceInv
  BY DEF ListInv
<1>2. /\ running' \in Seq(Threads) /\ Range(running') = Range(running)
      /\ NoRepeat(running') /\ current' = Head(running)
      /\ Head(running) \in Range(running) /\ Head(running) \in Threads
  BY <1>1, SwitchLists DEF thread_wait_switch
<1>3. PICK h \in Threads : h = Head(running) /\ h \in Range(running)
  BY <1>2
<1>4. PICK gone : gone = [pc EXCEPT ![t] = "asleep"]
  OBVIOUS
<1>5. /\ pc[t] = "listed"
      /\ pc' = [gone EXCEPT ![h] = IF @ = "asleep" THEN "user" ELSE @]
      /\ balance' = IF gone[h] = "asleep" /\ arg[h] \in Sems
                      THEN [balance EXCEPT ![arg[h]] = @ + 1] ELSE balance
      /\ UNCHANGED <<blocked, arg, waitValue, pid, bitmap, sem>>
  BY <1>3, <1>4 DEF thread_wait_switch
<1>6. gone \in [Threads -> Points] /\ t # InitT
  BY <1>1, <1>4, <1>5 DEF TypeOK, Points, PlaceInv
<1>7. TypeOK'
  BY <1>2, <1>3, <1>5, <1>6 DEF TypeOK, Points
<1>8. OnOneList'
  BY <1>1, <1>2, <1>3, <1>4, <1>5, <1>6 DEF TypeOK, OnOneList
<1>9. PlaceInv'
  BY <1>1, <1>2, <1>3, <1>4, <1>5, <1>6, SchedulerAssumption DEF TypeOK, OnOneList, PlaceInv
<1> QED  BY <1>7, <1>8, <1>9 DEF ListInv

\* In the steps of P and V that change no list.
LEMMA PVList ==
    ASSUME TypeOK, ListInv, NEW t \in Threads, NEW s \in Sems,
           do_passeren(t, s) \/ do_verhoog(t, s)
    PROVE  TypeOK' /\ ListInv'
<1>1. OnOneList /\ PlaceInv
  BY DEF ListInv
<1>2. PICK x \in {"user", "p_wait", "v_wake"}, a \in {s, arg[t]} :
        /\ pc[t] = "user" /\ pc' = [pc EXCEPT ![t] = x] /\ arg' = [arg EXCEPT ![t] = a]
        /\ x # "user" => a = s
        /\ x = "p_wait" => t # InitT
        /\ UNCHANGED <<running, blocked, current, waitValue, pid, bitmap>>
        /\ sem' \in [Sems -> Int] /\ balance' \in [Sems -> Int]
  BY DEF do_passeren, do_verhoog, TypeOK
<1>3. TypeOK'
  BY <1>2 DEF TypeOK, Points
<1>4. OnOneList'
  BY <1>1, <1>2 DEF TypeOK, OnOneList
<1>5. PlaceInv'
  BY <1>1, <1>2, SchedulerAssumption DEF TypeOK, PlaceInv
<1> QED  BY <1>3, <1>4, <1>5 DEF ListInv

\* The thread that thread_resume finds is one that sleeps and waits for s.
LEMMA FirstWaiterIs ==
    ASSUME TypeOK, NEW s, NEW w \in FirstWaiter(s)
    PROVE  w \in Range(blocked) /\ w \in Threads /\ waitValue[w] = s
<1>1. PICK q : q = Those(blocked, WaitingFor(s))
  OBVIOUS
<1>2. q \in Seq(Threads) /\ Range(q) = Range(blocked) \cap WaitingFor(s)
  BY <1>1, ThoseIs DEF TypeOK
<1>3. q # <<>> /\ w = Head(q)
  BY <1>1 DEF FirstWaiter
<1>4. w \in Range(q)
  BY <1>2, <1>3 DEF Range
<1> QED  BY <1>2, <1>4 DEF WaitingFor

\* In the wake-up of V.
LEMMA ResumeList ==
    ASSUME TypeOK, ListInv, NEW t \in Threads, verhoog_resume(t)
    PROVE  TypeOK' /\ ListInv'
<1>1. OnOneList /\ PlaceInv
  BY DEF ListInv
<1>2. /\ pc[t] = "v_wake" /\ pc' = [pc EXCEPT ![t] = "user"]
      /\ UNCHANGED <<current, arg, waitValue, pid, bitmap, sem, balance>>
  BY DEF verhoog_resume
<1>3. PICK W \in SUBSET Threads :
        /\ W \subseteq Range(blocked)
        /\ running' \in Seq(Threads) /\ NoRepeat(running') /\ Range(running') = Range(running) \cup W
        /\ blocked' \in Seq(Threads) /\ NoRepeat(blocked') /\ Range(blocked') = Range(blocked) \ W
  <2>1. CASE UNCHANGED <<blocked, running>>
    <3>1. /\ running' \in Seq(Threads) /\ NoRepeat(running')
          /\ Range(running') = Range(running) \cup {}
          /\ blocked' \in Seq(Threads) /\ NoRepeat(blocked')
          /\ Range(blocked') = Range(blocked) \ {}
      BY <1>1, <2>1 DEF TypeOK, OnOneList
    <3> QED  BY <3>1
  <2>2. ASSUME NEW w \in FirstWaiter(arg[t]), blocked' = Del(blocked, w),
               running' = add_thread_to_running(running, w)
        PROVE  \E W \in SUBSET Threads :
                 /\ W \subseteq Range(blocked)
                 /\ running' \in Seq(Threads) /\ NoRepeat(running')
                 /\ Range(running') = Range(running) \cup W
                 /\ blocked' \in Seq(Threads) /\ NoRepeat(blocked')
                 /\ Range(blocked') = Range(blocked) \ W
    <3>1. w \in Range(blocked) /\ w \in Threads
      BY <2>2, FirstWaiterIs
    <3>2. /\ running \in Seq(Threads) /\ blocked \in Seq(Threads) /\ NoRepeat(running)
          /\ NoRepeat(blocked) /\ w \notin Range(running)
      BY <1>1, <3>1 DEF TypeOK, OnOneList
    <3>3. running' \in Seq(Threads) /\ NoRepeat(running') /\ Range(running') = {w} \cup Range(running)
      BY <2>2, <3>1, <3>2, PushIs DEF add_thread_to_running
    <3>4. /\ blocked' \in Seq(Threads) /\ NoRepeat(blocked')
          /\ Range(blocked') = Range(blocked) \cap (Threads \ {w})
      BY <2>2, <3>2, ThoseIs DEF Del
    <3>5. Range(blocked) \subseteq Threads
      BY <3>2, RangeIs
    <3>6. Range(running') = Range(running) \cup {w} /\ Range(blocked') = Range(blocked) \ {w}
      BY <3>3, <3>4, <3>5
    <3>7. {w} \in SUBSET Threads /\ {w} \subseteq Range(blocked)
      BY <3>1
    <3> QED  BY <3>3, <3>4, <3>6, <3>7
  <2> QED  BY <2>1, <2>2 DEF verhoog_resume
<1>4. TypeOK'
  BY <1>2, <1>3 DEF TypeOK, Points
<1>5. OnOneList'
  BY <1>1, <1>2, <1>3 DEF TypeOK, OnOneList
<1>6. PlaceInv'
  BY <1>1, <1>2, <1>3, SchedulerAssumption DEF TypeOK, PlaceInv
<1> QED  BY <1>4, <1>5, <1>6 DEF ListInv

\* When a process is created.
LEMMA CreateList ==
    ASSUME TypeOK, ListInv, NEW t \in Threads, NEW n \in Threads, create_process(t, n)
    PROVE  TypeOK' /\ ListInv'
<1>1. OnOneList /\ PlaceInv
  BY DEF ListInv
<1>2. PICK p \in Pids \ bitmap : pid' = [pid EXCEPT ![n] = p] /\ bitmap' = bitmap \cup {p}
  BY DEF create_process, find_usable_pid, Lowest
<1>3. /\ pc[n] = "none" /\ pc' = [pc EXCEPT ![n] = "user"]
      /\ waitValue' = [waitValue EXCEPT ![n] = 0] /\ arg' = [arg EXCEPT ![n] = NoValue]
      /\ running' = <<n>> \o running /\ UNCHANGED <<blocked, current, sem, balance>>
  BY DEF create_process, add_thread_to_running
<1>4. n \notin Range(running) /\ n \notin Range(blocked) /\ n # InitT
  BY <1>1, <1>3 DEF OnOneList, PlaceInv
<1>5. /\ running' \in Seq(Threads) /\ NoRepeat(running')
      /\ Range(running') = {n} \cup Range(running)
  BY <1>1, <1>3, <1>4, PushIs DEF TypeOK, OnOneList
<1>6. TypeOK'
  BY <1>2, <1>3, <1>5, SchedulerAssumption DEF TypeOK, Points, Pids
<1>7. OnOneList'
  BY <1>1, <1>3, <1>4, <1>5 DEF TypeOK, OnOneList
<1>8. PlaceInv'
  BY <1>1, <1>3, <1>4, <1>5, SchedulerAssumption DEF TypeOK, PlaceInv
<1> QED  BY <1>6, <1>7, <1>8 DEF ListInv

\* list_remove leaves the others where they are, in their order.
LEMMA DelIs ==
    ASSUME NEW s \in Seq(Threads), NoRepeat(s), NEW k \in 1 .. Len(s)
    PROVE  /\ Del(s, s[k]) \in Seq(Threads) /\ Len(Del(s, s[k])) = Len(s) - 1
           /\ \A i \in 1 .. Len(s) - 1 : Del(s, s[k])[i] = IF i < k THEN s[i] ELSE s[i + 1]
<1> DEFINE S == Threads \ {s[k]}
           f == CHOOSE f : f = Walk(f, s, S, Len(s))
<1>1. PICK n \in Nat : n = Len(s)
  OBVIOUS
<1>2. f = Walk(f, s, S, Len(s))
  BY WalkExists
<1>3. Del(s, s[k]) = f[Len(s)]
  BY Zenon DEF Del, Those, Walk
<1>4. /\ f[0] = <<>>
      /\ \A i \in 1 .. n : f[i] = IF i # k THEN Append(f[i - 1], s[i]) ELSE f[i - 1]
  <2> HIDE DEF f, S
  <2>1. PICK g : g = f
    OBVIOUS
  <2>2. \A i \in 0 .. n : g[i] = IF i = 0 THEN <<>>
                      ELSE IF s[i] \in S THEN Append(g[i - 1], s[i]) ELSE g[i - 1]
    BY <1>1, <1>2, <2>1 DEF Walk
  <2>3. \A i \in 1 .. n : s[i] \in S <=> i # k
    BY <1>1 DEF S, NoRepeat
  <2> QED  BY <2>1, <2>2, <2>3
<1> HIDE DEF f, S
<1> DEFINE Good(j) == /\ f[j] \in Seq(Threads) /\ Len(f[j]) = IF j < k THEN j ELSE j - 1
                      /\ \A i \in 1 .. Len(f[j]) : f[j][i] = IF i < k THEN s[i] ELSE s[i + 1]
           A == {j \in Nat : j <= n => Good(j)}
<1>5. 0 \in A
  <2>1. PICK g : g = <<>> /\ g = f[0]
    BY <1>4
  <2>2. g \in Seq(Threads) /\ Len(g) = 0 /\ 0 < k
    BY <2>1
  <2>3. Good(0)
    <3>1. f[0] \in Seq(Threads) /\ Len(f[0]) = 0
      BY <2>1, <2>2
    <3> QED  BY <2>2, <3>1
  <2> QED  BY <2>3
<1>6. ASSUME NEW j \in Nat, j \in A PROVE j + 1 \in A
  <2> SUFFICES ASSUME j + 1 <= n PROVE Good(j + 1)
    OBVIOUS
  <2>1. Good(j)
    BY <1>6
  <2>2. f[j + 1] = IF j + 1 # k THEN Append(f[j], s[j + 1]) ELSE f[j]
    BY <1>4
  <2>3. PICK g, h, x : g = f[j] /\ h = f[j + 1] /\ x = s[j + 1] /\ x \in Threads
    BY <1>1
  <2>4. g \in Seq(Threads) /\ Len(g) = IF j < k THEN j ELSE j - 1
    BY <2>1, <2>3
  <2>5. CASE j + 1 = k
    BY <2>1, <2>2, <2>5
  <2>6. CASE j + 1 # k
    <3>1. h = Append(g, x)
      BY <2>2, <2>3, <2>6
    <3>2. /\ h \in Seq(Threads) /\ Len(h) = Len(g) + 1 /\ h[Len(g) + 1] = x
          /\ \A i \in 1 .. Len(g) : h[i] = g[i]
      BY <2>3, <2>4, <3>1
    <3>3. \A i \in 1 .. Len(h) : i = Len(g) + 1 \/ i \in 1 .. Len(g)
      BY <2>4, <3>2
    <3>4. x = IF Len(g) + 1 < k THEN s[Len(g) + 1] ELSE s[Len(g) + 2]
      BY <2>3, <2>4, <2>6
    <3>5. \A i \in 1 .. Len(g) : g[i] = IF i < k THEN s[i] ELSE s[i + 1]
      BY <2>1, <2>3
    <3>6. ASSUME NEW i \in 1 .. Len(h) PROVE h[i] = IF i < k THEN s[i] ELSE s[i + 1]
      <4>1. CASE i \in 1 .. Len(g)
        BY <3>2, <3>5, <4>1
      <4>2. CASE i = Len(g) + 1
        <5>1. PICK l \in Nat : l = Len(g)
          BY <2>4
        <5>2. i = l + 1 /\ i + 1 = l + 2
          BY <4>2, <5>1
        <5> QED  BY <3>2, <3>4, <5>1, <5>2
      <4> QED  BY <3>3, <4>1, <4>2
    <3> QED  BY <2>3, <2>4, <2>6, <3>2, <3>6
  <2> QED  BY <2>5, <2>6
<1>7. n \in A
  <2> HIDE DEF A
  <2> QED  BY <1>5, <1>6, Induction
<1>8. Good(n)
  BY <1>7
<1>9. PICK g : g = Del(s, s[k])
  OBVIOUS
<1>10. g = f[n]
  BY <1>1, <1>3, <1>9
<1>11. /\ g \in Seq(Threads) /\ Len(g) = IF n < k THEN n ELSE n - 1
       /\ \A i \in 1 .. Len(g) : g[i] = IF i < k THEN s[i] ELSE s[i + 1]
  BY Zenon, <1>8, <1>10
<1>12. ~(n < k) /\ Len(g) = Len(s) - 1
  BY <1>1, <1>11
<1> QED  BY <1>9, <1>11, <1>12

\* The next of the thread at place k is the one at the next place.
LEMMA NextOnIs ==
    ASSUME NEW s \in Seq(Threads), NoRepeat(s), NEW k \in 1 .. Len(s)
    PROVE  NextOn(s, s[k]) = IF k = Len(s) THEN NULL ELSE s[k + 1]
<1>1. PICK j : j = CHOOSE i \in 1 .. Len(s) : s[i] = s[k]
  OBVIOUS
<1>2. j \in 1 .. Len(s) /\ s[j] = s[k]
  BY <1>1
<1>3. j = k
  BY <1>2 DEF NoRepeat
<1> QED  BY <1>1, <1>3 DEF NextOn

\* The equation of the walk of thread_resume over n threads.
PidWalk(f, p, r, n) ==
    [i \in 0 .. n |-> IF i = 0 THEN [c |-> First(blocked), stay |-> blocked, run |-> r]
                      ELSE IF f[i - 1].c = NULL THEN f[i - 1]
                      ELSE Visit(f[i - 1], p)]

\* It has a solution.
LEMMA PidWalkExists == ASSUME NEW p, NEW r PROVE \A n \in Nat : \E f : f = PidWalk(f, p, r, n)
<1> DEFINE A == {n \in Nat : \E f : f = PidWalk(f, p, r, n)}
           Step(h, i) == IF i = 0 THEN [c |-> First(blocked), stay |-> blocked, run |-> r]
                         ELSE IF h[i - 1].c = NULL THEN h[i - 1] ELSE Visit(h[i - 1], p)
<1>1. 0 \in A
  <2> DEFINE g == [i \in 0 .. 0 |-> [c |-> First(blocked), stay |-> blocked, run |-> r]]
  <2>1. g = PidWalk(g, p, r, 0)
    BY DEF PidWalk
  <2> HIDE DEF g
  <2> QED  BY <2>1
<1>2. ASSUME NEW n \in Nat, n \in A PROVE n + 1 \in A
  <2>1. PICK f : f = PidWalk(f, p, r, n)
    BY <1>2
  <2> DEFINE g == [i \in 0 .. n + 1 |-> IF i <= n THEN f[i] ELSE Step(f, i)]
  <2>2. \A i \in 0 .. n : f[i] = Step(f, i)
    BY <2>1 DEF PidWalk
  <2>3. ASSUME NEW i \in 0 .. n + 1 PROVE g[i] = Step(g, i)
    <3>1. i # 0 => g[i - 1] = f[i - 1]
      OBVIOUS
    <3> QED  BY <2>2, <3>1
  <2>4. g = PidWalk(g, p, r, n + 1)
    BY <2>3 DEF PidWalk
  <2> HIDE DEF g
  <2> QED  BY <2>4
<1>3. \A n \in Nat : n \in A
  <2> HIDE DEF A
  <2> QED  BY <1>1, <1>2, Induction
<1> QED  BY <1>3

\* Where the walk stands after i of the n threads of list b: it has c in front of it,
\* has visited the first i, and the rest of the list is as it was.
AtTurn(p, r, b, n, i, c, stay, run) ==
    /\ stay \in Seq(Threads) /\ NoRepeat(stay) /\ Len(stay) >= n - i
    /\ \A k \in i + 1 .. n : stay[Len(stay) - n + k] = b[k]
    /\ \A x : x \in Range(stay) <=> \E j \in 1 .. n : b[j] = x /\ (j > i \/ waitValue[x] # p)
    /\ run \in Seq(Threads) /\ NoRepeat(run)
    /\ \A x : x \in Range(run) <=>
              x \in Range(r) \/ \E j \in 1 .. i : b[j] = x /\ waitValue[x] = p
    /\ c = IF i < n THEN b[i + 1] ELSE NULL

\* One turn of the loop brings it to the next thread.
LEMMA TurnIs ==
    ASSUME NEW p, NEW r \in Seq(Threads), NEW b \in Seq(Threads), NoRepeat(b),
           NEW n, n = Len(b), Range(r) \cap Range(b) = {}, NEW i \in 0 .. n - 1,
           NEW c, NEW stay, NEW run, AtTurn(p, r, b, n, i, c, stay, run),
           NEW c1, c1 = NextOn(stay, c), NEW stay1, NEW run1,
           IF waitValue[c] # p THEN stay1 = stay /\ run1 = run
           ELSE stay1 = Del(stay, c) /\ run1 = add_thread_to_running(run, c)
    PROVE  c \in Threads /\ AtTurn(p, r, b, n, i + 1, c1, stay1, run1)
<1>1. n \in Nat /\ \A j \in 1 .. n : b[j] \in Threads
  OBVIOUS
<1>2. c = b[i + 1] /\ c \in Threads
  BY <1>1 DEF AtTurn
<1>3. PICK m \in Nat : m = Len(stay)
  BY DEF AtTurn
<1>4. m >= n - i /\ \A k \in i + 1 .. n : stay[m - n + k] = b[k]
  BY <1>3 DEF AtTurn
<1>5. PICK q \in 1 .. m : q = m - n + i + 1
  BY <1>1, <1>3, <1>4
<1>6. stay[q] = c
  BY <1>1, <1>2, <1>4, <1>5
<1>7. c1 = IF i + 1 < n THEN b[i + 2] ELSE NULL
  <2>1. c1 = IF q = m THEN NULL ELSE stay[q + 1]
    <3>1. stay \in Seq(Threads) /\ NoRepeat(stay) /\ q \in 1 .. Len(stay)
      BY <1>3, <1>5 DEF AtTurn
    <3>2. NextOn(stay, stay[q]) = IF q = Len(stay) THEN NULL ELSE stay[q + 1]
      BY <3>1, NextOnIs
    <3> QED  BY <1>3, <1>6, <3>2
  <2>2. i + 1 < n => stay[q + 1] = b[i + 2]
    <3> SUFFICES ASSUME i + 1 < n PROVE stay[q + 1] = b[i + 2]
      OBVIOUS
    <3>1. i + 2 \in i + 1 .. n /\ m - n + (i + 2) = q + 1
      BY <1>1, <1>5
    <3> QED  BY <1>4, <3>1
  <2> QED  BY <1>1, <1>5, <2>1, <2>2
<1>8. \A j \in 1 .. n : b[j] = c => j = i + 1
  BY <1>1, <1>2 DEF NoRepeat
<1>9. \A j : j \in 1 .. i + 1 <=> j \in 1 .. i \/ j = i + 1
  BY <1>1
<1>10. c1 = IF i + 1 < n THEN b[(i + 1) + 1] ELSE NULL
  BY <1>7
<1>11. CASE waitValue[c] # p
  <2>1. stay1 = stay /\ run1 = run
    BY <1>11
  <2>2. \A x : (\E j \in 1 .. n : b[j] = x /\ (j > i \/ waitValue[x] # p))
              <=> \E j \in 1 .. n : b[j] = x /\ (j > i + 1 \/ waitValue[x] # p)
    BY <1>1, <1>2, <1>11
  <2>3. \A x : (\E j \in 1 .. i : b[j] = x /\ waitValue[x] = p)
              <=> \E j \in 1 .. i + 1 : b[j] = x /\ waitValue[x] = p
    BY <1>2, <1>9, <1>11
  <2>4. Len(stay) >= n - (i + 1) /\ \A k \in (i + 1) + 1 .. n : stay[Len(stay) - n + k] = b[k]
    BY <1>1, <1>3, <1>4
  <2> QED  BY <1>2, <1>10, <2>1, <2>2, <2>3, <2>4 DEF AtTurn
<1>12. CASE waitValue[c] = p
  <2>1. stay1 = Del(stay, c) /\ run1 = <<c>> \o run
    BY <1>12 DEF add_thread_to_running
  <2>2. /\ stay \in Seq(Threads) /\ NoRepeat(stay) /\ run \in Seq(Threads) /\ NoRepeat(run)
        /\ \A x : x \in Range(stay) <=> \E j \in 1 .. n : b[j] = x /\ (j > i \/ waitValue[x] # p)
        /\ \A x : x \in Range(run) <=>
                 x \in Range(r) \/ \E j \in 1 .. i : b[j] = x /\ waitValue[x] = p
    BY DEF AtTurn
  <2>3. /\ stay1 \in Seq(Threads) /\ Len(stay1) = m - 1
        /\ \A k \in 1 .. m - 1 : stay1[k] = IF k < q THEN stay[k] ELSE stay[k + 1]
    <3>1. stay \in Seq(Threads) /\ NoRepeat(stay) /\ q \in 1 .. Len(stay)
      BY <1>3, <1>5, <2>2
    <3>2. /\ Del(stay, stay[q]) \in Seq(Threads) /\ Len(Del(stay, stay[q])) = Len(stay) - 1
          /\ \A k \in 1 .. Len(stay) - 1 :
                Del(stay, stay[q])[k] = IF k < q THEN stay[k] ELSE stay[k + 1]
      BY <3>1, DelIs
    <3> QED  BY <1>3, <1>6, <2>1, <3>2
  <2>4. NoRepeat(stay1) /\ Range(stay1) = Range(stay) \cap (Threads \ {c})
    BY <2>1, <2>2, ThoseIs DEF Del
  <2>5. c \notin Range(run)
    <3>1. c \in Range(b)
      BY <1>1, <1>2 DEF Range
    <3>2. c \notin Range(r)
      BY <3>1
    <3>3. \A j \in 1 .. i : b[j] # c
      BY <1>1, <1>8
    <3> QED  BY <2>2, <3>2, <3>3
  <2>6. run1 \in Seq(Threads) /\ NoRepeat(run1) /\ Range(run1) = {c} \cup Range(run)
    BY <1>2, <2>1, <2>2, <2>5, PushIs
  <2>7. Len(stay1) >= n - (i + 1) /\ \A k \in (i + 1) + 1 .. n : stay1[Len(stay1) - n + k] = b[k]
    <3>1. ASSUME NEW k \in (i + 1) + 1 .. n PROVE stay1[Len(stay1) - n + k] = b[k]
      <4>1. PICK l \in 1 .. m - 1 : l = m - 1 - n + k
        BY <1>1, <1>3, <1>4
      <4>2. ~(l < q) /\ l + 1 = m - n + k /\ k \in i + 1 .. n
        BY <1>1, <1>5, <4>1
      <4>3. stay1[l] = stay[l + 1]
        BY <2>3, <4>1, <4>2
      <4> QED  BY <1>4, <2>3, <4>1, <4>2, <4>3
    <3> QED  BY <1>1, <1>3, <1>4, <2>3, <3>1
  <2>8. ASSUME NEW x
        PROVE  x \in Range(stay1) <=> \E j \in 1 .. n : b[j] = x /\ (j > i + 1 \/ waitValue[x] # p)
    <3>1. Range(stay) \subseteq Threads
      BY <2>2, RangeIs
    <3>2. x \in Range(stay1) <=> x # c /\ x \in Range(stay)
      BY <2>4, <3>1
    <3>3. \A j \in 1 .. n : b[j] # c => (j > i <=> j > i + 1)
      BY <1>1, <1>2
    <3>4. \A j \in 1 .. n : b[j] = c => ~(j > i + 1) /\ waitValue[b[j]] = p
      BY <1>1, <1>8, <1>12
    <3> QED  BY <2>2, <3>2, <3>3, <3>4
  <2>9. ASSUME NEW x
        PROVE  x \in Range(run1) <=>
                 x \in Range(r) \/ \E j \in 1 .. i + 1 : b[j] = x /\ waitValue[x] = p
    BY <1>2, <1>9, <1>12, <2>2, <2>6
  <2> QED  BY <1>2, <1>10, <2>3, <2>4, <2>6, <2>7, <2>8, <2>9 DEF AtTurn
<1> QED  BY <1>11, <1>12

\* The whole walk: the threads that waited for p have gone from the blocked list to the
\* run queue, and no other.
LEMMA ResumePidIs ==
    ASSUME TypeOK, NEW p, NEW r \in Seq(Threads), NoRepeat(r), NoRepeat(blocked),
           Range(r) \cap Range(blocked) = {}
    PROVE  LET w == resume_pid(p, r) IN
           /\ w.stay \in Seq(Threads) /\ NoRepeat(w.stay)
           /\ Range(w.stay) = Range(blocked) \ WaitingFor(p)
           /\ w.run \in Seq(Threads) /\ NoRepeat(w.run)
           /\ Range(w.run) = Range(r) \cup (Range(blocked) \cap WaitingFor(p))
<1>1. PICK b : b = blocked
  OBVIOUS
<1>2. b \in Seq(Threads) /\ NoRepeat(b) /\ Range(r) \cap Range(b) = {}
  BY <1>1 DEF TypeOK
<1>3. PICK n \in Nat : n = Len(b)
  BY <1>2
<1> DEFINE f == CHOOSE f : f = PidWalk(f, p, r, Len(blocked))
<1>4. f = PidWalk(f, p, r, Len(blocked))
  BY <1>1, <1>3, PidWalkExists
<1>5. resume_pid(p, r) = f[Len(blocked)]
  BY Zenon DEF resume_pid, PidWalk
<1>6. /\ f[0] = [c |-> First(b), stay |-> b, run |-> r]
      /\ \A i \in 1 .. n : f[i] = IF f[i - 1].c = NULL THEN f[i - 1] ELSE Visit(f[i - 1], p)
  <2> HIDE DEF f
  <2>1. PICK g : g = f
    OBVIOUS
  <2>2. g = PidWalk(g, p, r, n)
    BY <1>1, <1>3, <1>4, <2>1
  <2>3. \A i \in 0 .. n : g[i] = IF i = 0 THEN [c |-> First(b), stay |-> b, run |-> r]
                      ELSE IF g[i - 1].c = NULL THEN g[i - 1] ELSE Visit(g[i - 1], p)
    BY <1>1, <2>2 DEF PidWalk
  <2> QED  BY <2>1, <2>3
<1> HIDE DEF f
<1> DEFINE Good(i) == AtTurn(p, r, b, n, i, f[i].c, f[i].stay, f[i].run)
           A == {i \in Nat : i <= n => Good(i)}
<1>7. 0 \in A
  <2>1. f[0].c = First(b) /\ f[0].stay = b /\ f[0].run = r
    BY <1>6
  <2>2. First(b) = IF 0 < n THEN b[0 + 1] ELSE NULL
    BY <1>2, <1>3 DEF First
  <2>3. \A x : x \in Range(b) <=> \E j \in 1 .. n : b[j] = x
    BY <1>2, <1>3, RangeIs
  <2>4. AtTurn(p, r, b, n, 0, First(b), b, r)
    BY <1>2, <1>3, <2>2, <2>3 DEF AtTurn
  <2> QED  BY <2>1, <2>4
<1>8. ASSUME NEW i \in Nat, i \in A PROVE i + 1 \in A
  <2> SUFFICES ASSUME i + 1 <= n PROVE Good(i + 1)
    OBVIOUS
  <2>1. Good(i) /\ i \in 0 .. n - 1
    BY <1>3, <1>8
  <2>2. PICK c, stay, run : c = f[i].c /\ stay = f[i].stay /\ run = f[i].run
    OBVIOUS
  <2>3. AtTurn(p, r, b, n, i, c, stay, run)
    BY <2>1, <2>2
  <2>4. c \in Threads
    BY <1>2, <1>3, <2>1, <2>3 DEF AtTurn
  <2>5. c # NULL
    BY <2>4, SchedulerAssumption
  <2>6. f[i + 1] = Visit(f[i], p)
    BY <1>6, <2>1, <2>2, <2>5
  <2>7. PICK c1, stay1, run1 : c1 = f[i + 1].c /\ stay1 = f[i + 1].stay /\ run1 = f[i + 1].run
    OBVIOUS
  <2>8. /\ c1 = NextOn(stay, c)
        /\ IF waitValue[c] # p THEN stay1 = stay /\ run1 = run
           ELSE stay1 = Del(stay, c) /\ run1 = add_thread_to_running(run, c)
    BY <2>2, <2>6, <2>7 DEF Visit
  <2>9. AtTurn(p, r, b, n, i + 1, c1, stay1, run1)
    BY <1>2, <1>3, <2>1, <2>3, <2>8, TurnIs
  <2> QED  BY <2>7, <2>9
<1>9. Good(n)
  <2>1. \A i \in Nat : i \in A
    <3> HIDE DEF A
    <3> QED  BY <1>7, <1>8, Induction
  <2> QED  BY <2>1
<1>10. PICK w : w = resume_pid(p, r)
  OBVIOUS
<1>11. AtTurn(p, r, b, n, n, w.c, w.stay, w.run)
  BY <1>1, <1>3, <1>5, <1>9, <1>10
<1>12. \A x : x \in Range(b) <=> \E j \in 1 .. n : b[j] = x
  BY <1>2, <1>3, RangeIs
<1>13. Range(b) \subseteq Threads
  BY <1>2, RangeIs
<1>14. \A x : x \in Range(w.stay) <=> x \in Range(b) /\ waitValue[x] # p
  BY <1>3, <1>11, <1>12 DEF AtTurn
<1>15. \A x : x \in Range(w.run) <=> x \in Range(r) \/ (x \in Range(b) /\ waitValue[x] = p)
  BY <1>3, <1>11, <1>12 DEF AtTurn
<1>16. Range(w.stay) = Range(b) \ WaitingFor(p)
       /\ Range(w.run) = Range(r) \cup (Range(b) \cap WaitingFor(p))
  BY <1>13, <1>14, <1>15 DEF WaitingFor
<1>17. w.stay \in Seq(Threads) /\ NoRepeat(w.stay) /\ w.run \in Seq(Threads) /\ NoRepeat(w.run)
  BY <1>11 DEF AtTurn
<1> QED  BY <1>1, <1>10, <1>16, <1>17

\* When one ends: every thread that waits for its pid is resumed.
LEMMA QuitLists ==
    ASSUME TypeOK, ListInv, NEW t \in Threads, do_quit_thread(t)
    PROVE  /\ running' \in Seq(Threads) /\ NoRepeat(running')
           /\ blocked' \in Seq(Threads) /\ NoRepeat(blocked')
           /\ Range(running') = (Range(running) \ {t}) \cup (Range(blocked) \cap WaitingFor(pid[t]))
           /\ Range(blocked') = Range(blocked) \ WaitingFor(pid[t])
<1>1. PICK rest : rest = Those(running, Threads \ {t})
  OBVIOUS
<1>2. /\ running \in Seq(Threads) /\ NoRepeat(running)
      /\ NoRepeat(blocked) /\ Range(running) \cap Range(blocked) = {}
  BY DEF TypeOK, ListInv, OnOneList
<1>3. Range(running) \subseteq Threads
  BY <1>2, RangeIs
<1>4. rest \in Seq(Threads) /\ NoRepeat(rest) /\ Range(rest) = Range(running) \cap (Threads \ {t})
  BY <1>1, <1>2, ThoseIs
<1>5. PICK w : w = resume_pid(pid[t], rest)
  OBVIOUS
<1>6. blocked' = w.stay /\ running' = w.run
  BY <1>1, <1>5 DEF do_quit_thread, remove_thread_from_running, Del
<1>7. Range(rest) \cap Range(blocked) = {} /\ Range(rest) = Range(running) \ {t}
  BY <1>2, <1>3, <1>4
<1>8. /\ w.stay \in Seq(Threads) /\ NoRepeat(w.stay)
      /\ Range(w.stay) = Range(blocked) \ WaitingFor(pid[t])
      /\ w.run \in Seq(Threads) /\ NoRepeat(w.run)
      /\ Range(w.run) = Range(rest) \cup (Range(blocked) \cap WaitingFor(pid[t]))
  BY <1>2, <1>4, <1>5, <1>7, ResumePidIs
<1> QED  BY <1>6, <1>7, <1>8

\* do_quit_thread keeps every thread on one list: the one that ends is on none, the ones
\* that waited for its pid are on the run queue.
LEMMA QuitList ==
    ASSUME TypeOK, ListInv, NEW t \in Threads, do_quit_thread(t)
    PROVE  TypeOK' /\ ListInv'
<1>1. OnOneList /\ PlaceInv
  BY DEF ListInv
<1>2. PICK W : W = WaitingFor(pid[t])
  OBVIOUS
<1>3. /\ running' \in Seq(Threads) /\ NoRepeat(running')
      /\ blocked' \in Seq(Threads) /\ NoRepeat(blocked')
      /\ Range(running') = (Range(running) \ {t}) \cup (Range(blocked) \cap W)
      /\ Range(blocked') = Range(blocked) \ W
  BY <1>2, QuitLists
<1>4. /\ pc[t] = "user" /\ t # InitT /\ pc' = [pc EXCEPT ![t] = "none"] /\ current' = NULL
      /\ bitmap' = bitmap \ {pid[t]} /\ pid' = [pid EXCEPT ![t] = NoValue]
      /\ UNCHANGED <<arg, waitValue, sem, balance>>
  BY DEF do_quit_thread
<1>5. t \notin Range(blocked)
  BY <1>1, <1>4 DEF OnOneList
<1>6. TypeOK'
  BY <1>3, <1>4 DEF TypeOK, Points
<1>7. OnOneList'
  BY <1>1, <1>3, <1>4, <1>5 DEF TypeOK, OnOneList
<1>8. PlaceInv'
  BY <1>1, <1>3, <1>4, <1>5, SchedulerAssumption DEF TypeOK, PlaceInv
<1> QED  BY <1>6, <1>7, <1>8 DEF ListInv

\* In every step.
LEMMA ListStep ==
    ASSUME TypeOK, ListInv, [Next]_vars
    PROVE  TypeOK' /\ ListInv'
<1>1. CASE schedule
  BY <1>1, ScheduleList
<1>2. ASSUME NEW t \in Threads, thread_wait_list(t) PROVE TypeOK' /\ ListInv'
  BY <1>2, WaitListList
<1>3. ASSUME NEW t \in Threads, thread_wait_switch(t) PROVE TypeOK' /\ ListInv'
  BY <1>3, WaitSwitchList
<1>4. ASSUME NEW t \in Threads, passeren_wait(t) PROVE TypeOK' /\ ListInv'
  <2>1. PICK v : v = arg[t]
    OBVIOUS
  <2>2. WaitOn(t, v) /\ pc[t] = "p_wait" /\ v \in Sems /\ t # InitT
    BY <1>4, <2>1 DEF passeren_wait, ListInv, PlaceInv
  <2> QED  BY <2>2, WaitOnList
<1>5. ASSUME NEW t \in Threads, verhoog_resume(t) PROVE TypeOK' /\ ListInv'
  BY <1>5, ResumeList
<1>6. ASSUME NEW t \in Threads, do_quit_thread(t) PROVE TypeOK' /\ ListInv'
  BY <1>6, QuitList
<1>7. ASSUME NEW t \in Threads, NEW s \in Sems, do_passeren(t, s) \/ do_verhoog(t, s)
      PROVE  TypeOK' /\ ListInv'
  BY <1>7, PVList
<1>8. ASSUME NEW t \in Threads, NEW n \in Threads, create_process(t, n)
      PROVE  TypeOK' /\ ListInv'
  BY <1>8, CreateList
<1>9. ASSUME NEW t \in Threads, NEW p \in Pids, do_waitpid(t, p) PROVE TypeOK' /\ ListInv'
  BY <1>9, WaitOnList DEF do_waitpid
<1>10. CASE UNCHANGED vars
  BY <1>10 DEF vars, TypeOK, ListInv, OnOneList, PlaceInv
<1> QED  BY <1>1, <1>2, <1>3, <1>4, <1>5, <1>6, <1>7, <1>8, <1>9, <1>10 DEF Next

-----------------------------------------------------------------------------
\* A step that creates and ends no process.
PidsKept ==
    /\ UNCHANGED <<pid, bitmap>>
    /\ \A t \in Threads : pc'[t] = "none" <=> pc[t] = "none"

\* What a step that leaves the pid bitmap and the processes alone keeps of them.
LEMMA PidsKeptIs ==
    ASSUME TypeOK, TypeOK', ListInv, [Next]_vars,
           ~ \E t, n \in Threads : create_process(t, n),
           ~ \E t \in Threads : do_quit_thread(t)
    PROVE  PidsKept
<1> USE DEF PidsKept, TypeOK, Points
<1>1. CASE schedule
  <2>1. PICK h \in Threads : h = Head(running)
    BY <1>1, SwitchLists DEF schedule, ListInv
  <2> QED  BY <1>1, <2>1 DEF schedule, Return
<1>2. ASSUME NEW t \in Threads, thread_wait_list(t) PROVE PidsKept
  BY <1>2 DEF thread_wait_list
<1>3. ASSUME NEW t \in Threads, thread_wait_switch(t) PROVE PidsKept
  <2>1. PICK h \in Threads : h = Head(running)
    BY <1>3, SwitchLists DEF thread_wait_switch, ListInv
  <2>2. PICK gone \in [Threads -> Points] : gone = [pc EXCEPT ![t] = "asleep"]
    OBVIOUS
  <2>3. pc' = [gone EXCEPT ![h] = IF @ = "asleep" THEN "user" ELSE @] /\ pc[t] = "listed"
        /\ UNCHANGED <<pid, bitmap>>
    BY <1>3, <2>1, <2>2 DEF thread_wait_switch
  <2> QED  BY <2>1, <2>2, <2>3
<1>4. ASSUME NEW t \in Threads, passeren_wait(t) PROVE PidsKept
  BY <1>4 DEF passeren_wait, WaitOn
<1>5. ASSUME NEW t \in Threads, verhoog_resume(t) PROVE PidsKept
  BY <1>5 DEF verhoog_resume
<1>6. ASSUME NEW t \in Threads, NEW s \in Sems, do_passeren(t, s) \/ do_verhoog(t, s)
      PROVE  PidsKept
  BY <1>6 DEF do_passeren, do_verhoog
<1>7. ASSUME NEW t \in Threads, NEW p \in Pids, do_waitpid(t, p) PROVE PidsKept
  BY <1>7 DEF do_waitpid, WaitOn
<1>8. CASE UNCHANGED vars
  BY <1>8 DEF vars
<1> QED  BY <1>1, <1>2, <1>3, <1>4, <1>5, <1>6, <1>7, <1>8 DEF Next

\* Pids stay unique, and the bitmap knows them.
LEMMA PidStep ==
    ASSUME TypeOK, TypeOK', ListInv, PidsSound, PidInv, [Next]_vars
    PROVE  PidsSound' /\ PidInv'
<1>1. ASSUME NEW t \in Threads, NEW n \in Threads, create_process(t, n)
      PROVE  PidsSound' /\ PidInv'
  <2>1. PICK p \in Pids \ bitmap : pid' = [pid EXCEPT ![n] = p] /\ bitmap' = bitmap \cup {p}
    BY <1>1 DEF create_process, find_usable_pid, Lowest
  <2>2. pc[n] = "none" /\ pc' = [pc EXCEPT ![n] = "user"] /\ p # NoValue
    BY <1>1, SchedulerAssumption DEF create_process, Pids, NoValue
  <2>3. \A u \in Threads : pc[u] # "none" => pid[u] \in bitmap
    BY DEF PidsSound
  <2>4. \A u \in Threads : u # n => pc'[u] = pc[u] /\ pid'[u] = pid[u]
    BY <2>1, <2>2 DEF TypeOK
  <2>5. pc'[n] = "user" /\ pid'[n] = p
    BY <2>1, <2>2 DEF TypeOK
  <2>6. PidInv'
    BY <2>2, <2>4, <2>5 DEF PidInv
  <2>7. bitmap' = {pid'[u] : u \in {v \in Threads : pc'[v] # "none"}}
    <3>1. \A q \in bitmap : \E u \in Threads : pc[u] # "none" /\ pid[u] = q
      BY DEF PidsSound
    <3>2. \A q \in bitmap' : \E u \in Threads : pc'[u] # "none" /\ pid'[u] = q
      BY <2>1, <2>2, <2>4, <2>5, <3>1
    <3>3. \A u \in Threads : pc'[u] # "none" => pid'[u] \in bitmap'
      BY <2>1, <2>3, <2>4, <2>5
    <3> QED  BY <3>2, <3>3
  <2>8. ASSUME NEW u \in Threads, NEW v \in Threads, pid'[u] = pid'[v], pid'[u] # NoValue
        PROVE  u = v
    BY <2>1, <2>3, <2>4, <2>5, <2>8 DEF PidsSound, PidInv
  <2> QED  BY <2>6, <2>7, <2>8 DEF PidsSound
<1>2. ASSUME NEW t \in Threads, do_quit_thread(t) PROVE PidsSound' /\ PidInv'
  <2>1. /\ pc[t] = "user" /\ pc' = [pc EXCEPT ![t] = "none"]
        /\ bitmap' = bitmap \ {pid[t]} /\ pid' = [pid EXCEPT ![t] = NoValue]
    BY <1>2 DEF do_quit_thread
  <2>2. /\ pc'[t] = "none" /\ pid'[t] = NoValue
        /\ \A u \in Threads : u # t => pc'[u] = pc[u] /\ pid'[u] = pid[u]
    BY <2>1 DEF TypeOK
  <2>3. PidInv'
    BY <2>2 DEF PidInv
  <2>4. \A u \in Threads : u # t /\ pc[u] # "none" => pid[u] # pid[t]
    BY DEF PidsSound, PidInv
  <2>5. bitmap' = {pid'[u] : u \in {v \in Threads : pc'[v] # "none"}}
    <3>1. /\ \A q \in bitmap : \E u \in Threads : pc[u] # "none" /\ pid[u] = q
          /\ \A u \in Threads : pc[u] # "none" => pid[u] \in bitmap
      BY DEF PidsSound
    <3>2. \A q \in bitmap' : \E u \in Threads : pc'[u] # "none" /\ pid'[u] = q
      BY <2>1, <2>2, <3>1
    <3>3. \A u \in Threads : pc'[u] # "none" => pid'[u] \in bitmap'
      BY <2>1, <2>2, <2>4, <3>1
    <3> QED  BY <3>2, <3>3
  <2>6. ASSUME NEW u \in Threads, NEW v \in Threads, pid'[u] = pid'[v], pid'[u] # NoValue
        PROVE  u = v
    BY <2>2, <2>6 DEF PidsSound
  <2> QED  BY <2>3, <2>5, <2>6 DEF PidsSound
<1>3. ASSUME PidsKept PROVE PidsSound' /\ PidInv'
  BY <1>3 DEF PidsKept, PidsSound, PidInv
<1> QED  BY <1>1, <1>2, <1>3, PidsKeptIs

-----------------------------------------------------------------------------
\* Sets of threads are finite, and grow and shrink by one.
LEMMA Count ==
    ASSUME NEW S, S \subseteq Threads
    PROVE  /\ IsFiniteSet(S) /\ Cardinality(S) \in Nat
           /\ \A t \in Threads \ S : Cardinality(S \cup {t}) = Cardinality(S) + 1
           /\ \A t \in S : Cardinality(S \ {t}) = Cardinality(S) - 1
<1>1. IsFiniteSet(S) /\ Cardinality(S) \in Nat
  BY SchedulerAssumption, FS_Subset, FS_CardinalityType
<1>2. \A t \in Threads \ S : Cardinality(S \cup {t}) = Cardinality(S) + 1
  BY <1>1, FS_AddElement
<1>3. \A t \in S : Cardinality(S \ {t}) = Cardinality(S) - 1
  BY <1>1, FS_RemoveElement
<1> QED  BY <1>1, <1>2, <1>3

\* What the invariants say of one semaphore.
SemOK(s) ==
    /\ Cardinality(Waiters(s)) - Cardinality(Wakers(s)) >= (IF sem[s] < 0 THEN -sem[s] ELSE 0)
    /\ sem[s] = SemInit - balance[s] - Cardinality(InP(s))

\* A step that leaves the counters and the sets of a semaphore alone.
LEMMA SemKept ==
    ASSUME NEW s, SemOK(s), Waiters(s)' = Waiters(s), Wakers(s)' = Wakers(s),
           InP(s)' = InP(s), sem'[s] = sem[s], balance'[s] = balance[s]
    PROVE  SemOK(s)'
BY DEF SemOK

\* A sleeper that is switched to returns from its P.
LEMMA SemReturned ==
    ASSUME TypeOK, TypeOK', NEW s \in Sems, SemOK(s), Waiters(s)' = Waiters(s),
           Wakers(s)' = Wakers(s), sem'[s] = sem[s],
           NEW h \in Threads,
           \/ InP(s)' = InP(s) /\ balance'[s] = balance[s]
           \/ h \in InP(s) /\ InP(s)' = InP(s) \ {h} /\ balance'[s] = balance[s] + 1
    PROVE  SemOK(s)'
<1>1. InP(s) \subseteq Threads
  BY DEF InP
<1>2. h \in InP(s) => Cardinality(InP(s) \ {h}) = Cardinality(InP(s)) - 1
  BY <1>1, Count
<1>3. Cardinality(InP(s)) \in Nat /\ sem[s] \in Int /\ balance[s] \in Int /\ SemInit \in Nat
  BY <1>1, Count, SchedulerAssumption DEF TypeOK
<1>4. /\ Cardinality(Waiters(s)') = Cardinality(Waiters(s))
      /\ Cardinality(Wakers(s)') = Cardinality(Wakers(s))
  OBVIOUS
<1>5. CASE InP(s)' = InP(s) /\ balance'[s] = balance[s]
  BY <1>5, SemKept
<1>6. CASE h \in InP(s) /\ InP(s)' = InP(s) \ {h} /\ balance'[s] = balance[s] + 1
  <2>1. Cardinality(InP(s)') = Cardinality(InP(s)) - 1
    BY <1>2, <1>6
  <2> QED  BY <1>3, <1>4, <1>6, <2>1 DEF SemOK
<1> QED  BY <1>5, <1>6

\* schedule() leaves the accounting of a semaphore as it was.
LEMMA SemSchedule ==
    ASSUME TypeOK, TypeOK', ListInv, NEW s \in Sems, SemOK(s), schedule
    PROVE  SemOK(s)'
<1>1. OnOneList
  BY DEF ListInv
<1>2. PICK h \in Threads : h = Head(running) /\ h \in Range(running)
  BY <1>1, SwitchLists DEF schedule
<1>3. /\ pc' = [pc EXCEPT ![h] = IF @ = "asleep" THEN "user" ELSE @]
      /\ balance' = IF pc[h] = "asleep" /\ arg[h] \in Sems
                      THEN [balance EXCEPT ![arg[h]] = @ + 1] ELSE balance
      /\ UNCHANGED <<blocked, arg, waitValue, pid, bitmap, sem>>
  BY <1>2 DEF schedule, Return
<1>4. Waiters(s)' = Waiters(s) /\ Wakers(s)' = Wakers(s)
  BY <1>3 DEF Waiters, Wakers, TypeOK
<1>5. \/ InP(s)' = InP(s) /\ balance'[s] = balance[s]
      \/ h \in InP(s) /\ InP(s)' = InP(s) \ {h} /\ balance'[s] = balance[s] + 1
  <2>1. CASE pc[h] = "asleep" /\ arg[h] = s
    BY <1>3, <2>1 DEF InP, TypeOK
  <2>2. CASE ~(pc[h] = "asleep" /\ arg[h] = s)
    BY <1>3, <2>2 DEF InP, TypeOK
  <2> QED  BY <2>1, <2>2
<1> QED  BY <1>3, <1>4, <1>5, SemReturned

\* Waiting on a semaphore and switching keeps its accounting.
LEMMA SemWaitSwitch ==
    ASSUME TypeOK, TypeOK', ListInv, NEW s \in Sems, SemOK(s),
           NEW t \in Threads, thread_wait_switch(t)
    PROVE  SemOK(s)'
<1>1. OnOneList
  BY DEF ListInv
<1>2. PICK h \in Threads : h = Head(running) /\ h \in Range(running)
  BY <1>1, SwitchLists DEF thread_wait_switch
<1>3. PICK gone \in [Threads -> Points] : gone = [pc EXCEPT ![t] = "asleep"]
  BY DEF TypeOK, Points
<1>4. /\ pc[t] = "listed"
      /\ pc' = [gone EXCEPT ![h] = IF @ = "asleep" THEN "user" ELSE @]
      /\ balance' = IF gone[h] = "asleep" /\ arg[h] \in Sems
                      THEN [balance EXCEPT ![arg[h]] = @ + 1] ELSE balance
      /\ UNCHANGED <<blocked, arg, waitValue, pid, bitmap, sem>>
  BY <1>2, <1>3 DEF thread_wait_switch
<1>5. Waiters(s)' = Waiters(s) /\ Wakers(s)' = Wakers(s)
  BY <1>3, <1>4 DEF Waiters, Wakers, TypeOK
<1>6. \/ InP(s)' = InP(s) /\ balance'[s] = balance[s]
      \/ h \in InP(s) /\ InP(s)' = InP(s) \ {h} /\ balance'[s] = balance[s] + 1
  <2>1. CASE gone[h] = "asleep" /\ arg[h] = s
    BY <1>3, <1>4, <2>1 DEF InP, TypeOK
  <2>2. CASE ~(gone[h] = "asleep" /\ arg[h] = s)
    BY <1>3, <1>4, <2>2 DEF InP, TypeOK
  <2> QED  BY <2>1, <2>2
<1> QED  BY <1>4, <1>5, <1>6, SemReturned

\* P counts the thread before it waits, V the wake-up before it is given.
LEMMA SemPV ==
    ASSUME TypeOK, TypeOK', ListInv, NEW s \in Sems, SemOK(s),
           NEW t \in Threads, NEW r \in Sems, do_passeren(t, r) \/ do_verhoog(t, r)
    PROVE  SemOK(s)'
<1>1. pc[t] = "user" /\ t \notin Range(blocked)
      /\ UNCHANGED <<running, blocked, current, waitValue, pid, bitmap>>
  BY DEF do_passeren, do_verhoog, ListInv, OnOneList
<1>2. t \notin Waiters(s) /\ t \notin Wakers(s) /\ t \notin InP(s)
  BY <1>1 DEF Waiters, Wakers, InP
<1>3. /\ Waiters(s) \subseteq Threads /\ Wakers(s) \subseteq Threads /\ InP(s) \subseteq Threads
  BY DEF Waiters, Wakers, InP
<1>4. /\ Cardinality(Waiters(s) \cup {t}) = Cardinality(Waiters(s)) + 1
      /\ Cardinality(Wakers(s) \cup {t}) = Cardinality(Wakers(s)) + 1
      /\ Cardinality(InP(s) \cup {t}) = Cardinality(InP(s)) + 1
      /\ Cardinality(Waiters(s)) \in Nat /\ Cardinality(Wakers(s)) \in Nat
      /\ Cardinality(InP(s)) \in Nat
  BY <1>2, <1>3, Count
<1>5. sem[s] \in Int /\ balance[s] \in Int /\ SemInit \in Nat
  BY SchedulerAssumption DEF TypeOK
<1>6. CASE UNCHANGED <<pc, arg>>
  <2>1. Waiters(s)' = Waiters(s) /\ Wakers(s)' = Wakers(s) /\ InP(s)' = InP(s)
    BY <1>1, <1>6 DEF Waiters, Wakers, InP
  <2>2. \/ sem'[s] = sem[s] /\ balance'[s] = balance[s]
        \/ sem[s] > 0 /\ sem'[s] = sem[s] - 1 /\ balance'[s] = balance[s] + 1
        \/ sem[s] >= 0 /\ sem'[s] = sem[s] + 1 /\ balance'[s] = balance[s] - 1
    BY SMTT(30), <1>1, <1>6 DEF do_passeren, do_verhoog, TypeOK
  <2> QED  BY <1>4, <1>5, <2>1, <2>2 DEF SemOK
<1>7. CASE pc' = [pc EXCEPT ![t] = "p_wait"]
  <2>1. /\ arg' = [arg EXCEPT ![t] = r] /\ ~(sem[r] > 0) /\ sem' = [sem EXCEPT ![r] = @ - 1]
        /\ balance' = balance
    BY <1>1, <1>7 DEF do_passeren, do_verhoog, TypeOK
  <2>2. CASE r = s
    <3>1. Waiters(s)' = Waiters(s) \cup {t} /\ Wakers(s)' = Wakers(s) /\ InP(s)' = InP(s) \cup {t}
      BY <1>1, <1>7, <2>1, <2>2 DEF Waiters, Wakers, InP, TypeOK
    <3>2. sem[s] <= 0 /\ sem'[s] = sem[s] - 1 /\ balance'[s] = balance[s]
      BY <1>5, <2>1, <2>2 DEF TypeOK
    <3> QED  BY <1>4, <1>5, <3>1, <3>2 DEF SemOK
  <2>3. CASE r # s
    <3>1. Waiters(s)' = Waiters(s) /\ Wakers(s)' = Wakers(s) /\ InP(s)' = InP(s)
      BY <1>1, <1>7, <2>1, <2>3 DEF Waiters, Wakers, InP, TypeOK
    <3> QED  BY <2>1, <2>3, <3>1, SemKept DEF TypeOK
  <2> QED  BY <2>2, <2>3
<1>8. CASE pc' = [pc EXCEPT ![t] = "v_wake"]
  <2>1. /\ arg' = [arg EXCEPT ![t] = r] /\ sem[r] < 0 /\ sem' = [sem EXCEPT ![r] = @ + 1]
        /\ balance' = [balance EXCEPT ![r] = @ - 1]
    BY <1>1, <1>8 DEF do_passeren, do_verhoog, TypeOK
  <2>2. CASE r = s
    <3>1. Waiters(s)' = Waiters(s) /\ Wakers(s)' = Wakers(s) \cup {t} /\ InP(s)' = InP(s)
      BY <1>1, <1>8, <2>1, <2>2 DEF Waiters, Wakers, InP, TypeOK
    <3>2. sem[s] < 0 /\ sem'[s] = sem[s] + 1 /\ balance'[s] = balance[s] - 1
      BY <2>1, <2>2 DEF TypeOK
    <3> QED  BY <1>4, <1>5, <3>1, <3>2 DEF SemOK
  <2>3. CASE r # s
    <3>1. Waiters(s)' = Waiters(s) /\ Wakers(s)' = Wakers(s) /\ InP(s)' = InP(s)
      BY <1>1, <1>8, <2>1, <2>3 DEF Waiters, Wakers, InP, TypeOK
    <3> QED  BY <2>1, <2>3, <3>1, SemKept DEF TypeOK
  <2> QED  BY <2>2, <2>3
<1> QED  BY <1>6, <1>7, <1>8 DEF do_passeren, do_verhoog

\* The wake-up takes one waiter and one waker, or there was no waiter to take.
LEMMA SemResume ==
    ASSUME TypeOK, TypeOK', ListInv, NEW s \in Sems, SemOK(s),
           NEW t \in Threads, verhoog_resume(t)
    PROVE  SemOK(s)'
<1>1. /\ pc[t] = "v_wake" /\ pc' = [pc EXCEPT ![t] = "user"]
      /\ UNCHANGED <<current, arg, waitValue, pid, bitmap, sem, balance>>
  BY DEF verhoog_resume
<1>2. InP(s)' = InP(s) /\ Wakers(s)' = Wakers(s) \ {t}
      /\ (t \in Wakers(s) <=> arg[t] = s) /\ t \notin Range(blocked)
  BY <1>1 DEF InP, Wakers, TypeOK, ListInv, OnOneList
<1>3. Waiters(s) \subseteq Threads /\ Wakers(s) \subseteq Threads
  BY DEF Waiters, Wakers
<1>4. /\ Cardinality(Waiters(s)) \in Nat /\ Cardinality(Wakers(s)) \in Nat
      /\ t \in Wakers(s) => Cardinality(Wakers(s) \ {t}) = Cardinality(Wakers(s)) - 1
      /\ \A w \in Waiters(s) : Cardinality(Waiters(s) \ {w}) = Cardinality(Waiters(s)) - 1
  BY <1>3, Count
<1>5. sem[s] \in Int /\ (t \notin Wakers(s) => Wakers(s) \ {t} = Wakers(s))
  BY DEF TypeOK
<1>6. CASE UNCHANGED <<blocked, running>>
  <2>1. Waiters(s)' = Waiters(s)
    BY <1>1, <1>6 DEF Waiters, TypeOK
  <2>2. Cardinality(Wakers(s)') \in Nat /\ Cardinality(Wakers(s)') <= Cardinality(Wakers(s))
    <3>1. Wakers(s)' \in SUBSET Wakers(s) /\ IsFiniteSet(Wakers(s))
      BY <1>2, <1>3, Count
    <3>2. IsFiniteSet(Wakers(s)') /\ Cardinality(Wakers(s)') <= Cardinality(Wakers(s))
      BY <3>1, FS_Subset
    <3> QED  BY <3>2, FS_CardinalityType
  <2>3. Cardinality(Waiters(s)') = Cardinality(Waiters(s)) /\ Cardinality(InP(s)') = Cardinality(InP(s))
    BY <1>2, <2>1
  <2> QED  BY <1>1, <1>4, <1>5, <2>2, <2>3 DEF SemOK
<1>7. ASSUME NEW w \in FirstWaiter(arg[t]), blocked' = Del(blocked, w) PROVE SemOK(s)'
  <2>1. w \in Range(blocked) /\ w \in Threads /\ waitValue[w] = arg[t]
    BY <1>7, FirstWaiterIs
  <2>2. pc[w] \in {"listed", "asleep"} /\ w # t
    BY <1>1, <2>1 DEF ListInv, OnOneList
  <2>3. Range(blocked') = Range(blocked) \ {w}
    <3>1. Range(blocked') = Range(blocked) \cap (Threads \ {w})
      BY <1>7, ThoseIs DEF Del, TypeOK
    <3>2. Range(blocked) \subseteq Threads
      BY RangeIs DEF TypeOK
    <3> QED  BY <3>1, <3>2
  <2>4. CASE arg[t] = s
    <3>1. w \in Waiters(s) /\ Waiters(s)' = Waiters(s) \ {w}
      BY <1>1, <2>1, <2>2, <2>3, <2>4 DEF Waiters, TypeOK
    <3> QED  BY <1>1, <1>2, <1>4, <1>5, <2>4, <3>1 DEF SemOK
  <2>5. CASE arg[t] # s
    <3>1. Waiters(s)' = Waiters(s)
      BY <1>1, <2>1, <2>2, <2>3, <2>5 DEF Waiters, TypeOK
    <3> QED  BY <1>1, <1>2, <1>5, <2>5, <3>1 DEF SemOK
  <2> QED  BY <2>4, <2>5
<1> QED  BY <1>6, <1>7 DEF verhoog_resume

\* The other steps: a waiter stays one from its P to the list, and who waits for a
\* pid waits for no semaphore.
LEMMA SemOther ==
    ASSUME TypeOK, TypeOK', ListInv, NEW s \in Sems, SemOK(s),
           \/ UNCHANGED vars
           \/ \E t \in Threads : \/ thread_wait_list(t) \/ passeren_wait(t) \/ do_quit_thread(t)
                                 \/ \E n \in Threads : create_process(t, n)
                                 \/ \E p \in Pids : do_waitpid(t, p)
    PROVE  SemOK(s)'
<1>1. s \notin Pids /\ s # NoValue
  BY SchedulerAssumption
<1>2. CASE UNCHANGED vars
  BY <1>2, SemKept DEF vars, Waiters, Wakers, InP
<1>3. ASSUME NEW t \in Threads, thread_wait_list(t) PROVE SemOK(s)'
  <2>1. /\ pc[t] = "limbo" /\ pc' = [pc EXCEPT ![t] = "listed"] /\ blocked' = <<t>> \o blocked
        /\ UNCHANGED <<running, current, arg, waitValue, pid, bitmap, sem, balance>>
    BY <1>3 DEF thread_wait_list
  <2>2. Range(blocked') = {t} \cup Range(blocked) /\ waitValue[t] = arg[t]
    BY <2>1, PushIs DEF TypeOK, ListInv, PlaceInv
  <2>3. Waiters(s)' = Waiters(s) /\ Wakers(s)' = Wakers(s) /\ InP(s)' = InP(s)
    BY <2>1, <2>2 DEF Waiters, Wakers, InP, TypeOK
  <2> QED  BY <2>1, <2>3, SemKept
<1>4. ASSUME NEW t \in Threads, NEW v, WaitOn(t, v),
             \/ pc[t] = "p_wait" /\ v = arg[t]
             \/ pc[t] = "user" /\ v \in Pids
      PROVE  SemOK(s)'
  <2>1. /\ waitValue' = [waitValue EXCEPT ![t] = v] /\ arg' = [arg EXCEPT ![t] = v]
        /\ pc' = [pc EXCEPT ![t] = "limbo"]
        /\ UNCHANGED <<blocked, current, pid, bitmap, sem, balance>>
    BY <1>4 DEF WaitOn
  <2>2. t \notin Range(blocked)
    BY <1>4 DEF ListInv, OnOneList
  <2>3. Waiters(s)' = Waiters(s) /\ Wakers(s)' = Wakers(s) /\ InP(s)' = InP(s)
    BY <1>1, <1>4, <2>1, <2>2 DEF Waiters, Wakers, InP, TypeOK
  <2> QED  BY <2>1, <2>3, SemKept
<1>5. ASSUME NEW t \in Threads, do_quit_thread(t) PROVE SemOK(s)'
  <2>1. /\ pc[t] = "user" /\ pc' = [pc EXCEPT ![t] = "none"]
        /\ UNCHANGED <<arg, waitValue, sem, balance>>
    BY <1>5 DEF do_quit_thread
  <2>2. Range(blocked') = Range(blocked) \ WaitingFor(pid[t]) /\ t \notin Range(blocked)
    BY <1>5, <2>1, QuitLists DEF ListInv, OnOneList
  <2>3. \A u \in WaitingFor(pid[t]) : waitValue[u] # s
    BY <1>1 DEF WaitingFor, TypeOK
  <2>4. Waiters(s)' = Waiters(s) /\ Wakers(s)' = Wakers(s) /\ InP(s)' = InP(s)
    BY <2>1, <2>2, <2>3 DEF Waiters, Wakers, InP, TypeOK
  <2> QED  BY <2>1, <2>4, SemKept
<1>6. ASSUME NEW t \in Threads, NEW n \in Threads, create_process(t, n) PROVE SemOK(s)'
  <2>1. /\ pc[n] = "none" /\ pc' = [pc EXCEPT ![n] = "user"]
        /\ waitValue' = [waitValue EXCEPT ![n] = 0] /\ arg' = [arg EXCEPT ![n] = NoValue]
        /\ UNCHANGED <<blocked, current, sem, balance>>
    BY <1>6 DEF create_process
  <2>2. n \notin Range(blocked)
    BY <2>1 DEF ListInv, OnOneList
  <2>3. Waiters(s)' = Waiters(s) /\ Wakers(s)' = Wakers(s) /\ InP(s)' = InP(s)
    BY <2>1, <2>2 DEF Waiters, Wakers, InP, TypeOK
  <2> QED  BY <2>1, <2>3, SemKept
<1>7. ASSUME NEW t \in Threads, passeren_wait(t) PROVE SemOK(s)'
  <2>1. PICK v : v = arg[t]
    OBVIOUS
  <2>2. WaitOn(t, v) /\ pc[t] = "p_wait"
    BY <1>7, <2>1 DEF passeren_wait
  <2> QED  BY <1>4, <2>1, <2>2
<1>8. ASSUME NEW t \in Threads, NEW p \in Pids, do_waitpid(t, p) PROVE SemOK(s)'
  BY <1>4, <1>8 DEF do_waitpid
<1> QED  BY <1>2, <1>3, <1>5, <1>6, <1>7, <1>8

\* Every step keeps the account of every semaphore.
LEMMA SemStep ==
    ASSUME TypeOK, TypeOK', ListInv, SemAccounting, SemValue, [Next]_vars
    PROVE  SemAccounting' /\ SemValue'
<1>1. ASSUME NEW s \in Sems PROVE SemOK(s)'
  <2>1. SemOK(s)
    BY DEF SemOK, SemAccounting, SemValue
  <2>2. CASE schedule
    BY <2>1, <2>2, SemSchedule
  <2>3. ASSUME NEW t \in Threads, thread_wait_switch(t) PROVE SemOK(s)'
    BY <2>1, <2>3, SemWaitSwitch
  <2>4. ASSUME NEW t \in Threads, NEW r \in Sems, do_passeren(t, r) \/ do_verhoog(t, r)
        PROVE  SemOK(s)'
    BY <2>1, <2>4, SemPV
  <2>5. ASSUME NEW t \in Threads, verhoog_resume(t) PROVE SemOK(s)'
    BY <2>1, <2>5, SemResume
  <2> QED  BY <2>1, <2>2, <2>3, <2>4, <2>5, SemOther DEF Next
<1> QED  BY <1>1 DEF SemOK, SemAccounting, SemValue

-----------------------------------------------------------------------------
\* The initial state: init alone runs.
LEMMA InitInv == Init => IInv
<1> SUFFICES ASSUME Init PROVE IInv
  OBVIOUS
<1>1. Range(running) = {InitT} /\ Range(blocked) = {} /\ NoRepeat(running) /\ NoRepeat(blocked)
  BY DEF Init, Range, NoRepeat
<1>2. TypeOK
  BY SchedulerAssumption DEF Init, TypeOK, Points, Pids, NoValue
<1>3. ListInv
  BY <1>1, SchedulerAssumption DEF Init, ListInv, OnOneList, PlaceInv
<1>4. PidsSound /\ PidInv
  BY SchedulerAssumption DEF Init, PidsSound, PidInv, NoValue
<1>5. ASSUME NEW s \in Sems
      PROVE  Cardinality(Waiters(s)) = 0 /\ Cardinality(Wakers(s)) = 0 /\ Cardinality(InP(s)) = 0
  <2>1. Waiters(s) = {} /\ Wakers(s) = {} /\ InP(s) = {}
    BY <1>1 DEF Init, Waiters, Wakers, InP
  <2> QED  BY <2>1, FS_EmptySet
<1>6. SemAccounting
  BY <1>5, SchedulerAssumption DEF Init, SemAccounting
<1>7. SemValue
  BY <1>5, SchedulerAssumption DEF Init, SemValue
<1> QED  BY <1>2, <1>3, <1>4, <1>6, <1>7 DEF IInv

\* Every step of the scheduler keeps the inductive invariant.
LEMMA InvStep == IInv /\ [Next]_vars => IInv'
BY ListStep, PidStep, SemStep DEF IInv

\* Who waits for a semaphore is inside a P of it.
LEMMA InvSafe == IInv => SemaphoreSafe
<1> SUFFICES ASSUME IInv, NEW s \in Sems PROVE balance[s] <= SemInit
  BY DEF SemaphoreSafe
<1>1. Waiters(s) \subseteq InP(s) /\ InP(s) \subseteq Threads /\ Wakers(s) \subseteq Threads
  BY DEF IInv, ListInv, OnOneList, Waiters, Wakers, InP
<1>2. /\ Cardinality(Waiters(s)) <= Cardinality(InP(s)) /\ Cardinality(InP(s)) \in Nat
      /\ Cardinality(Wakers(s)) \in Nat /\ Cardinality(Waiters(s)) \in Nat
  BY <1>1, Count, FS_Subset
<1>3. sem[s] \in Int /\ balance[s] \in Int /\ SemInit \in Nat
  BY SchedulerAssumption DEF IInv, TypeOK
<1>4. /\ Cardinality(Waiters(s)) - Cardinality(Wakers(s)) >= (IF sem[s] < 0 THEN -sem[s] ELSE 0)
      /\ sem[s] = SemInit - balance[s] - Cardinality(InP(s))
  BY DEF IInv, SemAccounting, SemValue
<1> QED  BY <1>2, <1>3, <1>4

\* IInv holds in every reachable state.
THEOREM Invariance == Spec => []IInv
<1>1. IInv /\ [Next]_vars => IInv'
  BY InvStep
<1> QED  BY InitInv, <1>1, PTL DEF Spec

\* The state of the scheduler keeps its types, for any number of threads.
THEOREM TypeCorrect == Spec => []TypeOK
<1>1. IInv => TypeOK
  BY DEF IInv
<1> QED  BY Invariance, <1>1, PTL

\* Whatever threads wait, wake each other, are created and end, a thread is on one
\* list at most, and on one unless it is between the list operations of thread_wait.
THEOREM OnOneListHolds == Spec => []OnOneList
<1>1. IInv => OnOneList
  BY DEF IInv, ListInv
<1> QED  BY Invariance, <1>1, PTL

\* find_usable_pid, create_process and do_quit_thread keep the bitmap and the pids of
\* the processes that exist the same, and no two processes share one.
THEOREM PidsSoundHolds == Spec => []PidsSound
<1>1. IInv => PidsSound
  BY DEF IInv
<1> QED  BY Invariance, <1>1, PTL

\* A negative semaphore always has as many threads waiting or about to wait as it says,
\* the wake-ups on their way counted.
THEOREM SemAccountingHolds == Spec => []SemAccounting
<1>1. IInv => SemAccounting
  BY DEF IInv
<1> QED  BY Invariance, <1>1, PTL

\* do_passeren never returns more often than there were permits.
THEOREM SemaphoreSafeHolds == Spec => []SemaphoreSafe
BY Invariance, InvSafe, PTL

\* When a process ends the walk of thread_resume in do_quit_thread moves exactly the
\* threads that wait for its pid to the run queue, however many there are and wherever
\* they stand on the list of blocked threads.
THEOREM ExitWakesAllHolds == Spec => ExitWakesAll
<1> DEFINE Wakes == \A t \in Threads : pc[t] # "none" /\ pc'[t] = "none" =>
                      \A u \in Range(blocked) :
                         IF waitValue[u] = pid[t] THEN u \in Range(running') \ Range(blocked')
                         ELSE u \in Range(blocked')
<1>1. ASSUME IInv, IInv', [Next]_vars
      PROVE  [Wakes]_vars
  <2>1. TypeOK /\ TypeOK' /\ ListInv
    BY <1>1 DEF IInv
  <2> SUFFICES ASSUME NEW t \in Threads, pc[t] # "none", pc'[t] = "none",
                      NEW u \in Range(blocked)
               PROVE  IF waitValue[u] = pid[t] THEN u \in Range(running') \ Range(blocked')
                      ELSE u \in Range(blocked')
    OBVIOUS
  <2>2. CASE \E q \in Threads : do_quit_thread(q)
    <3>1. PICK q \in Threads : do_quit_thread(q)
      BY <2>2
    <3>2. q = t
      BY <2>1, <3>1 DEF do_quit_thread, TypeOK
    <3>3. /\ Range(blocked') = Range(blocked) \ WaitingFor(pid[t])
          /\ Range(running') = (Range(running) \ {t}) \cup (Range(blocked) \cap WaitingFor(pid[t]))
      BY <2>1, <3>1, <3>2, QuitLists
    <3>4. Range(blocked) \subseteq Threads
      BY <2>1, RangeIs DEF TypeOK
    <3> QED  BY <3>3, <3>4 DEF WaitingFor
  <2>3. CASE \E q, n \in Threads : create_process(q, n)
    BY <2>1, <2>3 DEF create_process, TypeOK
  <2>4. CASE PidsKept
    BY <2>4 DEF PidsKept
  <2> QED  BY <1>1, <2>1, <2>2, <2>3, <2>4, PidsKeptIs
<1>2. IInv /\ IInv' /\ [Next]_vars => [Wakes]_vars
  BY <1>1
<1> QED  BY Invariance, <1>2, PTL DEF Spec, ExitWakesAll
=============================================================================
