----------------------------- MODULE PipeProofs -----------------------------
(***************************************************************************)
(* Proofs about Pipe, for every buffer size, length of a call and number   *)
(* of threads: what memcpy touches is in bounds, and the ring buffer is a  *)
(* bounded queue of bytes.                                                 *)
(***************************************************************************)
EXTENDS Pipe, Lemmas

\* The threads that have drawn a ticket and not yet given the lock back.
InLine == {t \in Threads : pc[t] \in {"spin", "copy", "move", "give"}}

\* A lock that started with equal counters: open tickets are distinct, and
\* whoever is past raw_spin_take has the one that is served.
Works ==
    /\ InOrder(TicketMod, InLine, my, tkt, svc)
    /\ \A t \in Threads : Locked(t) => my[t] = svc

\* A lock that started with svc out of the threads' reach: everybody in line
\* spins, and no thread is left to draw the ticket that is served.
Stuck ==
    /\ tkt = Cardinality(InLine) /\ svc > Cardinality(Threads)
    /\ \A t \in InLine : pc[t] = "spin" /\ my[t] < tkt

LockInv == Works \/ Stuck

\* What the locals of a call say of each other.
CallInv ==
    \A t \in Threads :
        /\ op[t] = "none" <=> pc[t] = "idle"
        /\ op[t] # "read" => buf[t] = <<>>
        /\ op[t] = "read" => Len(Received(t)) + len[t] <= MaxLen

\* The chunk that was measured under the lock stays good until it is given back:
\* no longer than the call asks for, in bounds, and after memcpy the same bytes
\* are in the buffer and in the caller's memory.
ChunkInv ==
    \A t \in Threads :
        /\ pc[t] \in {"copy", "move"} =>
              n[t] <= (IF op[t] = "read" THEN len[t] ELSE Len(data[t]))
        /\ pc[t] = "move" /\ op[t] = "read" =>
              /\ n[t] <= Len(buf[t])
              /\ \A i \in 1 .. n[t] : buf[t][Len(buf[t]) - n[t] + i] = pipe[rpos + i - 1]
        /\ pc[t] = "move" /\ op[t] = "write" =>
              \A i \in 1 .. n[t] : pipe[wpos + i - 1] = data[t][i]

IInv == TypeOK /\ LockInv /\ CallInv /\ ChunkInBounds /\ ChunkInv

\* A handler that stops the machine, or no step at all, leaves the pipe and the calls.
LEMMA StopKeeps == signalCheck \/ UNCHANGED vars => UNCHANGED pipevars
BY DEF signalCheck, vars

-----------------------------------------------------------------------------
(* The operators of the ring buffer.                                       *)

\* round is the remainder, also of a difference of two positions.
LEMMA RoundCases ==
    ASSUME NEW a \in (-PipeSize) .. 2 * PipeSize - 1
    PROVE  round(a) = IF a < 0 THEN a + PipeSize
                      ELSE IF a < PipeSize THEN a ELSE a - PipeSize
<1>1. a + PipeSize \in 0 .. 3 * PipeSize - 1
  BY PipeAssumption
<1> QED  BY <1>1, PipeAssumption, ModCases DEF round

\* A position advanced by no more than the size of the buffer is a position.
LEMMA RoundSum ==
    ASSUME NEW p \in Positions, NEW k \in 0 .. PipeSize
    PROVE  /\ round(p + k) = IF p + k < PipeSize THEN p + k ELSE p + k - PipeSize
           /\ round(p + k) \in Positions
<1>1. PICK a \in 0 .. 2 * PipeSize - 1 : a = p + k
  BY PipeAssumption DEF Positions
<1>2. a \in (-PipeSize) .. 2 * PipeSize - 1
  BY PipeAssumption
<1>3. round(a) = IF a < 0 THEN a + PipeSize ELSE IF a < PipeSize THEN a ELSE a - PipeSize
  BY <1>2, RoundCases
<1> QED  BY <1>1, <1>3, PipeAssumption DEF Positions

\* From position r up to position w around the ring.
LEMMA RoundDifference ==
    ASSUME NEW r \in Positions, NEW w \in Positions
    PROVE  /\ round(w - r) = IF w >= r THEN w - r ELSE w - r + PipeSize
           /\ round(w - r) \in 0 .. PipeSize - 1 /\ round(w - r) \in Nat
<1>1. PICK a \in (-PipeSize) .. 2 * PipeSize - 1 : a = w - r
  BY PipeAssumption DEF Positions
<1>2. round(a) = IF a < 0 THEN a + PipeSize ELSE IF a < PipeSize THEN a ELSE a - PipeSize
  BY RoundCases
<1> QED  BY <1>1, <1>2, PipeAssumption DEF Positions

\* cal_size counts the positions from rpos up to wpos around the ring.
LEMMA CalSize ==
    ASSUME rpos \in Positions, wpos \in Positions
    PROVE  /\ cal_size = IF wpos >= rpos THEN wpos - rpos ELSE wpos - rpos + PipeSize
           /\ cal_size \in 0 .. PipeSize - 1 /\ cal_size \in Nat
BY RoundDifference DEF cal_size

\* The smallest of three numbers.
LEMMA LeastOfThree ==
    ASSUME NEW a \in Int, NEW b \in Int, NEW c \in Int
    PROVE  /\ Least({a, b, c}) \in {a, b, c}
           /\ Least({a, b, c}) <= a /\ Least({a, b, c}) <= b /\ Least({a, b, c}) <= c
<1>1. \E m \in {a, b, c} : \A y \in {a, b, c} : m <= y
  OBVIOUS
<1>2. /\ Least({a, b, c}) \in {a, b, c}
      /\ \A y \in {a, b, c} : Least({a, b, c}) <= y
  BY <1>1 DEF Least
<1> QED  BY <1>2

\* The byte strings of a call are the sequences of at most MaxLen bytes.
LEMMA StringsAreSeqs ==
    \A s : s \in Strings <=> s \in Seq(Bytes) /\ Len(s) <= MaxLen
<1>1. ASSUME NEW s \in Strings PROVE s \in Seq(Bytes) /\ Len(s) <= MaxLen
  BY <1>1, PipeAssumption DEF Strings
<1>2. ASSUME NEW s \in Seq(Bytes), Len(s) <= MaxLen PROVE s \in Strings
  <2>1. s \in [1 .. Len(s) -> Bytes] /\ Len(s) \in 0 .. MaxLen
    BY <1>2, PipeAssumption
  <2> QED  BY <2>1 DEF Strings
<1> QED  BY <1>1, <1>2

\* The chunk fits everything it was measured against.
LEMMA ChunkFits ==
    ASSUME TypeOK, NEW t \in Threads, op[t] \in {"read", "write"}
    PROVE  /\ Chunk(t) \in 0 .. MaxLen
           /\ op[t] = "read" => /\ Chunk(t) <= len[t]
                                /\ rpos + Chunk(t) <= PipeSize
                                /\ Chunk(t) <= cal_size
           /\ op[t] = "write" => /\ Chunk(t) <= Len(data[t])
                                 /\ wpos + Chunk(t) <= PipeSize
                                 /\ cal_size + Chunk(t) < PipeSize
<1>1. cal_size \in 0 .. PipeSize - 1 /\ rpos \in Positions /\ wpos \in Positions
  BY CalSize DEF TypeOK
<1>2. CASE op[t] = "read"
  <2>1. len[t] \in 0 .. MaxLen
    BY DEF TypeOK
  <2>2. Chunk(t) = Least({len[t], PipeSize - rpos, cal_size})
    BY <1>2 DEF Chunk
  <2>3. len[t] \in Int /\ PipeSize - rpos \in Int /\ cal_size \in Int
    BY <1>1, <2>1, PipeAssumption DEF Positions
  <2>4. PICK a \in Int, b \in Int, c \in Int : a = len[t] /\ b = PipeSize - rpos /\ c = cal_size
    BY <2>3
  <2>5. Chunk(t) = Least({a, b, c})
    BY <2>2, <2>4
  <2>6. Chunk(t) \in {a, b, c} /\ Chunk(t) <= a /\ Chunk(t) <= b /\ Chunk(t) <= c
    <3>1. Least({a, b, c}) \in {a, b, c} /\ Least({a, b, c}) <= a
          /\ Least({a, b, c}) <= b /\ Least({a, b, c}) <= c
      BY LeastOfThree, Zenon
    <3> QED  BY <3>1, <2>5, Zenon
  <2> QED  BY <1>1, <1>2, <2>1, <2>4, <2>6, PipeAssumption DEF Positions
<1>3. CASE op[t] = "write"
  <2>1. Len(data[t]) \in 0 .. MaxLen
    BY StringsAreSeqs, PipeAssumption DEF TypeOK
  <2>2. Chunk(t) = Least({Len(data[t]), PipeSize - wpos, PipeSize - cal_size - 1})
    BY <1>3 DEF Chunk
  <2>3. Len(data[t]) \in Int /\ PipeSize - wpos \in Int /\ PipeSize - cal_size - 1 \in Int
    BY <1>1, <2>1, PipeAssumption DEF Positions
  <2>4. PICK a \in Int, b \in Int, c \in Int : a = Len(data[t]) /\ b = PipeSize - wpos /\ c = PipeSize - cal_size - 1
    BY <2>3
  <2>5. Chunk(t) = Least({a, b, c})
    BY <2>2, <2>4
  <2>6. Chunk(t) \in {a, b, c} /\ Chunk(t) <= a /\ Chunk(t) <= b /\ Chunk(t) <= c
    <3>1. Least({a, b, c}) \in {a, b, c} /\ Least({a, b, c}) <= a
          /\ Least({a, b, c}) <= b /\ Least({a, b, c}) <= c
      BY LeastOfThree, Zenon
    <3> QED  BY <3>1, <2>5, Zenon
  <2> QED  BY <1>1, <1>3, <2>1, <2>4, <2>6, PipeAssumption DEF Positions
<1> QED  BY <1>2, <1>3

-----------------------------------------------------------------------------
(* The lock of the pipe.                                                   *)

\* The line is a finite set of threads.
LEMMA LineFinite ==
    /\ IsFiniteSet(InLine) /\ Cardinality(InLine) \in Nat
    /\ Cardinality(Threads) \in Nat /\ Cardinality(InLine) <= Cardinality(Threads)
<1>1. InLine \in SUBSET Threads
  BY DEF InLine
<1> QED  BY <1>1, PipeAssumption, FS_Subset, FS_CardinalityType

\* Two threads are never past raw_spin_take together.
LEMMA LockedAlone ==
    ASSUME LockInv, NEW t \in Threads, NEW u \in Threads, Locked(t), Locked(u)
    PROVE  t = u
<1>1. t \in InLine /\ u \in InLine /\ pc[t] # "spin"
  BY DEF Locked, InLine
<1>2. Works
  BY <1>1 DEF LockInv, Stuck
<1> QED  BY <1>1, <1>2, ServedAlone DEF Works

\* A step outside the lock's own code leaves the lock alone.
LEMMA LockKept ==
    ASSUME TypeOK, LockInv, UNCHANGED lockvars,
           \A t \in Threads : (Locked(t)' <=> Locked(t)) /\ (pc'[t] = "spin" <=> pc[t] = "spin")
    PROVE  LockInv'
<1>1. InLine' = InLine
  BY DEF InLine, Locked
<1>2. my' = my /\ tkt' = tkt /\ svc' = svc
  BY DEF lockvars
<1>3. CASE Works
  BY <1>1, <1>2, <1>3 DEF LockInv, Works
<1>4. CASE Stuck
  BY <1>1, <1>2, <1>4 DEF LockInv, Stuck, InLine
<1> QED  BY <1>3, <1>4 DEF LockInv

\* The three steps of the lock keep its tickets in order.
LEMMA LockStep == TypeOK /\ LockInv /\ [Next]_vars => LockInv'
<1> SUFFICES ASSUME TypeOK, LockInv, [Next]_vars PROVE LockInv'
  OBVIOUS
<1>0. LockInv /\ pc \in [Threads -> {"idle", "check", "take", "spin", "copy", "move", "give"}]
      /\ my \in [Threads -> Tickets]
  BY DEF TypeOK
<1>1. ASSUME NEW t \in Threads, NEW k \in 0 .. MaxLen, read_call(t, k) PROVE LockInv'
  BY <1>0, <1>1, LockKept DEF read_call, Goto, Locked
<1>2. ASSUME NEW t \in Threads, NEW s \in Strings, write_call(t, s) PROVE LockInv'
  BY <1>0, <1>2, LockKept DEF write_call, Goto, Locked
<1>3. ASSUME NEW t \in Threads, check(t) PROVE LockInv'
  <2>1. UNCHANGED lockvars /\ pc[t] = "check"
        /\ \E p \in {"idle", "take"} : pc' = [pc EXCEPT ![t] = p]
    BY <1>3 DEF check, Goto
  <2> QED  BY <1>0, <2>1, LockKept DEF Locked
<1>4. ASSUME NEW t \in Threads, raw_spin_take(t) PROVE LockInv'
  <2>1. /\ t \notin InLine /\ InLine' = InLine \cup {t} /\ tkt' = (tkt + 1) % TicketMod
        /\ svc' = svc /\ my'[t] = tkt /\ \A u \in Threads : u # t => my'[u] = my[u]
        /\ pc'[t] = "spin" /\ \A u \in Threads : u # t => pc'[u] = pc[u]
    BY <1>0, <1>4 DEF raw_spin_take, Goto, InLine
  <2>2. \A u \in InLine : my'[u] = my[u] /\ u \in Threads
    BY <2>1 DEF InLine
  <2>3. Cardinality(InLine \cup {t}) = Cardinality(InLine) + 1
        /\ Cardinality(InLine) + 1 <= Cardinality(Threads)
    <3>1. InLine \cup {t} \in SUBSET Threads
      BY DEF InLine
    <3> QED  BY SMTT(30), <2>1, <3>1, LineFinite, FS_AddElement, FS_Subset, PipeAssumption
  <2>4. Cardinality(InLine) + 1 < TicketMod
    BY <2>3, LineFinite, PipeAssumption
  <2>5. CASE Works
    <3>1. InOrder(TicketMod, InLine \cup {t}, my', (tkt + 1) % TicketMod, svc)
      BY <2>1, <2>2, <2>4, <2>5, LineFinite, DrawInOrder, PipeAssumption DEF Works
    <3>2. \A u \in Threads : Locked(u)' => my'[u] = svc'
      BY <2>1, <2>5 DEF Works, Locked
    <3> QED  BY <2>1, <3>1, <3>2 DEF LockInv, Works
  <2>6. CASE Stuck
    <3>1. tkt' = tkt + 1
      <4>1. tkt = Cardinality(InLine)
        BY <2>6 DEF Stuck
      <4>2. tkt + 1 \in 0 .. 3 * TicketMod - 1 /\ tkt + 1 < TicketMod
        BY <4>1, <2>4, LineFinite, PipeAssumption
      <4> QED  BY <2>1, <4>2, ModCases, PipeAssumption
    <3>2. \A u \in InLine' : pc'[u] = "spin" /\ my'[u] < tkt'
      <4>1. tkt \in Nat
        BY PipeAssumption DEF TypeOK, Tickets
      <4>2. \A u \in InLine : my[u] \in Nat /\ my[u] < tkt /\ pc[u] = "spin"
        BY <1>0, <2>6, PipeAssumption DEF Stuck, InLine, Tickets
      <4>3. my'[t] < tkt'
        BY <4>1, <2>1, <3>1
      <4> QED  BY <4>1, <4>2, <4>3, <2>1, <2>2, <3>1
    <3> QED  BY <2>1, <2>3, <2>6, <3>1, <3>2 DEF LockInv, Stuck
  <2> QED  BY <2>5, <2>6 DEF LockInv
<1>5. ASSUME NEW t \in Threads, raw_spin_poll(t) PROVE LockInv'
  <2>1. /\ t \in InLine /\ InLine' = InLine /\ UNCHANGED lockvars /\ svc = my[t]
        /\ pc'[t] = "copy" /\ \A u \in Threads : u # t => pc'[u] = pc[u]
    BY <1>0, <1>5 DEF raw_spin_poll, Goto, InLine
  <2>2. ~Stuck
    <3> SUFFICES ASSUME Stuck PROVE FALSE
      OBVIOUS
    <3>1. svc < tkt /\ tkt = Cardinality(InLine) /\ svc > Cardinality(Threads)
      BY <2>1 DEF Stuck
    <3>2. svc \in Nat
      BY PipeAssumption DEF TypeOK, Tickets
    <3> QED  BY <3>1, <3>2, LineFinite
  <2>3. Works
    BY <2>2 DEF LockInv
  <2> QED  BY <2>1, <2>3 DEF LockInv, Works, Locked, lockvars
<1>6. ASSUME NEW t \in Threads, copy(t) PROVE LockInv'
  BY <1>0, <1>6, LockKept DEF copy, Goto, Locked
<1>7. ASSUME NEW t \in Threads, move(t) PROVE LockInv'
  BY <1>0, <1>7, LockKept DEF move, Goto, Locked
<1>8. ASSUME NEW t \in Threads, raw_spin_give(t) PROVE LockInv'
  <2>1. /\ t \in InLine /\ Locked(t) /\ InLine' = InLine \ {t} /\ ~Locked(t)'
        /\ tkt' = tkt /\ svc' = (svc + 1) % TicketMod
        /\ \A u \in Threads : u # t => pc'[u] = pc[u] /\ my'[u] = my[u]
    BY <1>0, <1>8 DEF raw_spin_give, Goto, InLine, Locked
  <2>2. Works
    BY <2>1 DEF LockInv, Stuck, Locked
  <2>3. my[t] = svc
    BY <2>1, <2>2 DEF Works
  <2>4. \A u \in InLine \ {t} : my'[u] = my[u]
    BY <2>1 DEF InLine
  <2>5. InOrder(TicketMod, InLine \ {t}, my', tkt, (svc + 1) % TicketMod)
    BY <2>1, <2>2, <2>3, <2>4, LineFinite, ServeInOrder, PipeAssumption DEF Works
  <2>6. \A u \in Threads : u # t => ~Locked(u)
    BY <1>0, <2>1, LockedAlone
  <2>7. \A u \in Threads : ~Locked(u)'
    BY <2>1, <2>6 DEF Locked
  <2> QED  BY <2>1, <2>5, <2>7 DEF LockInv, Works
<1>9. CASE UNCHANGED pipevars
  BY <1>9, LockKept DEF pipevars, lockvars, Locked
<1> QED
  BY <1>1, <1>2, <1>3, <1>4, <1>5, <1>6, <1>7, <1>8, <1>9, StopKeeps DEF Next, Step

-----------------------------------------------------------------------------
(* Types, calls and chunks.                                                *)

\* The state of the other threads, which a step of t leaves alone.
Others(t) == \A u \in Threads : u # t =>
    /\ op'[u] = op[u] /\ pc'[u] = pc[u] /\ data'[u] = data[u]
    /\ len'[u] = len[u] /\ buf'[u] = buf[u] /\ n'[u] = n[u]

\* A writer's memcpy puts its chunk behind wpos and keeps every other byte.
LEMMA CopyWrite ==
    ASSUME IInv, NEW t \in Threads, copy(t), op[t] = "write"
    PROVE  /\ pipe' \in [Positions -> Bytes]
           /\ \A i \in 1 .. n[t] : pipe'[wpos + i - 1] = data[t][i]
           /\ \A i \in Positions : i \notin wpos .. wpos + n[t] - 1 => pipe'[i] = pipe[i]
<1>1. /\ data[t] \in Seq(Bytes) /\ n[t] \in Nat /\ n[t] <= Len(data[t])
      /\ wpos + n[t] <= PipeSize /\ wpos \in Positions /\ pipe \in [Positions -> Bytes]
  BY StringsAreSeqs, PipeAssumption
     DEF IInv, TypeOK, ChunkInv, ChunkInBounds, copy, Goto
<1>2. pipe' = [i \in Positions |-> IF i \in wpos .. wpos + n[t] - 1
                                     THEN data[t][i - wpos + 1] ELSE pipe[i]]
  BY DEF copy
<1>3. \A i \in Positions : i \in wpos .. wpos + n[t] - 1 => data[t][i - wpos + 1] \in Bytes
  BY <1>1, PipeAssumption DEF Positions
<1>4. pipe' \in [Positions -> Bytes]
  BY <1>1, <1>2, <1>3
<1>5. \A i \in 1 .. n[t] : wpos + i - 1 \in Positions
                           /\ wpos + i - 1 \in wpos .. wpos + n[t] - 1
                           /\ (wpos + i - 1) - wpos + 1 = i
  BY <1>1, PipeAssumption DEF Positions
<1> QED  BY <1>2, <1>4, <1>5

\* A reader's memcpy appends its chunk to what it has read so far.
LEMMA CopyRead ==
    ASSUME IInv, NEW t \in Threads, copy(t), op[t] = "read"
    PROVE  /\ buf'[t] \in Seq(Bytes) /\ Len(buf'[t]) = Len(buf[t]) + n[t]
           /\ \A i \in 1 .. Len(buf[t]) : buf'[t][i] = buf[t][i]
           /\ \A i \in 1 .. n[t] : buf'[t][Len(buf[t]) + i] = pipe[rpos + i - 1]
<1> DEFINE chunk == [i \in 1 .. n[t] |-> pipe[rpos + i - 1]]
<1>1. /\ buf[t] \in Seq(Bytes) /\ n[t] \in Nat /\ rpos + n[t] <= PipeSize
      /\ rpos \in Positions /\ pipe \in [Positions -> Bytes]
  BY StringsAreSeqs, PipeAssumption
     DEF IInv, TypeOK, ChunkInv, ChunkInBounds, copy, Goto
<1>2. buf'[t] = buf[t] \o chunk
  BY DEF copy, IInv, TypeOK
<1>3. \A i \in 1 .. n[t] : rpos + i - 1 \in Positions
  BY <1>1, PipeAssumption DEF Positions
<1>4. chunk \in Seq(Bytes) /\ Len(chunk) = n[t] /\ \A i \in 1 .. n[t] : chunk[i] = pipe[rpos + i - 1]
  BY SMTT(30), <1>1, <1>3
<1> HIDE DEF chunk
<1>5. /\ buf[t] \o chunk \in Seq(Bytes)
      /\ Len(buf[t] \o chunk) = Len(buf[t]) + Len(chunk)
      /\ \A i \in 1 .. Len(buf[t]) : (buf[t] \o chunk)[i] = buf[t][i]
      /\ \A i \in 1 .. Len(chunk) : (buf[t] \o chunk)[Len(buf[t]) + i] = chunk[i]
  <2>1. PICK a, b : a = buf[t] /\ b = chunk
    OBVIOUS
  <2>2. a \in Seq(Bytes) /\ b \in Seq(Bytes)
    BY <1>1, <1>4, <2>1
  <2>3. /\ a \o b \in Seq(Bytes) /\ Len(a \o b) = Len(a) + Len(b)
        /\ \A i \in 1 .. Len(a) : (a \o b)[i] = a[i]
        /\ \A i \in 1 .. Len(b) : (a \o b)[Len(a) + i] = b[i]
    BY <2>2
  <2> QED  BY <2>1, <2>3, Zenon
<1> QED  BY <1>2, <1>4, <1>5

\* Every step keeps the types; the caller's buffer has room for the chunk.
LEMMA TypeStep == IInv /\ [Next]_vars => TypeOK'
<1> SUFFICES ASSUME IInv, [Next]_vars PROVE TypeOK'
  OBVIOUS
<1>0. TypeOK
  BY DEF IInv
<1>01. 0 \in 0 .. MaxLen /\ 0 \in Tickets /\ <<>> \in Strings
  <2>1. <<>> \in Strings
    <3>1. <<>> \in Seq(Bytes) /\ Len(<<>>) <= MaxLen
      BY PipeAssumption
    <3> QED  BY <3>1, StringsAreSeqs, Zenon
  <2>2. Cardinality(Threads) \in Nat
    BY PipeAssumption, FS_CardinalityType
  <2> QED  BY <2>1, <2>2, PipeAssumption DEF Tickets
<1>02. \A k \in Tickets : (k + 1) % TicketMod \in Tickets
  BY ModType, PipeAssumption DEF Tickets
<1> USE DEF TypeOK
<1>1. ASSUME NEW t \in Threads, NEW k \in 0 .. MaxLen, read_call(t, k) PROVE TypeOK'
  BY <1>0, <1>1 DEF read_call, Goto, lockvars
<1>2. ASSUME NEW t \in Threads, NEW s \in Strings, write_call(t, s) PROVE TypeOK'
  BY <1>0, <1>2 DEF write_call, Goto, lockvars
<1>3. ASSUME NEW t \in Threads, check(t) PROVE TypeOK'
  <2>1. CASE Nothing(t)
    <3>1. Goto(t, "check", "idle") /\ Return(t) /\ UNCHANGED <<pipe, rpos, wpos, lockvars>>
      BY <1>3, <2>1 DEF check
    <3> QED  BY <1>0, <1>01, <3>1 DEF Goto, Return, lockvars
  <2>2. CASE ~Nothing(t)
    BY <1>0, <1>3, <2>2 DEF check, Goto, lockvars
  <2> QED  BY <2>1, <2>2
<1>4. ASSUME NEW t \in Threads, raw_spin_take(t) PROVE TypeOK'
  BY <1>0, <1>02, <1>4 DEF raw_spin_take, Goto
<1>5. ASSUME NEW t \in Threads, raw_spin_poll(t) PROVE TypeOK'
  <2>1. op[t] \in {"read", "write"}
    BY <1>5 DEF raw_spin_poll, Goto, IInv, CallInv
  <2>2. Chunk(t) \in 0 .. MaxLen
    BY <1>0, <2>1, ChunkFits
  <2> QED  BY <1>0, <1>5, <2>2 DEF raw_spin_poll, Goto, lockvars
<1>6. ASSUME NEW t \in Threads, copy(t) PROVE TypeOK'
  <2>0. /\ pc' \in [Threads -> {"idle", "check", "take", "spin", "copy", "move", "give"}]
        /\ UNCHANGED <<rpos, wpos, op, data, len, n, tkt, svc, my, stopped>>
    BY <1>0, <1>6 DEF copy, Goto, lockvars
  <2>1. CASE op[t] = "read"
    <3>1. buf'[t] \in Seq(Bytes) /\ Len(buf'[t]) = Len(buf[t]) + n[t]
      BY <1>6, <2>1, CopyRead
    <3>2. Len(buf[t]) + len[t] <= MaxLen /\ n[t] <= len[t]
      BY <1>6, <2>1 DEF copy, Goto, IInv, CallInv, ChunkInv, Received
    <3>3. buf[t] \in Seq(Bytes)
      BY <1>0, StringsAreSeqs
    <3>4. buf'[t] \in Strings
      <4>1. Len(buf[t]) \in Nat /\ n[t] \in Nat /\ len[t] \in Nat
        BY <1>0, <3>3, PipeAssumption
      <4>2. Len(buf'[t]) <= MaxLen
        BY <3>1, <3>2, <4>1, PipeAssumption
      <4> QED  BY <3>1, <4>2, StringsAreSeqs
    <3>5. \E s \in Strings : buf' = [buf EXCEPT ![t] = s] /\ pipe' = pipe
      <4>1. PICK s : buf' = [buf EXCEPT ![t] = s] /\ pipe' = pipe
        BY <1>6, <2>1 DEF copy
      <4> QED  BY <1>0, <3>4, <4>1
    <3> QED  BY <1>0, <2>0, <3>5
  <2>2. CASE op[t] # "read"
    <3>1. op[t] = "write" /\ buf' = buf
      BY <1>0, <1>6, <2>2 DEF copy, Goto, IInv, CallInv
    <3>2. pipe' \in [Positions -> Bytes]
      BY <1>6, <3>1, CopyWrite
    <3> QED  BY <1>0, <2>0, <3>1, <3>2
  <2> QED  BY <2>1, <2>2
<1>7. ASSUME NEW t \in Threads, move(t) PROVE TypeOK'
  <2>0. /\ pc' \in [Threads -> {"idle", "check", "take", "spin", "copy", "move", "give"}]
        /\ UNCHANGED <<pipe, op, buf, n, tkt, svc, my, stopped>>
    BY <1>0, <1>7 DEF move, Goto, lockvars
  <2>1. \A p \in Positions : \A k \in Nat : p + k <= PipeSize => round(p + k) \in Positions
    <3> SUFFICES ASSUME NEW p \in Positions, NEW k \in Nat, p + k <= PipeSize
                 PROVE  round(p + k) \in Positions
      OBVIOUS
    <3>1. p + k \in (-PipeSize) .. 2 * PipeSize - 1
      BY PipeAssumption DEF Positions
    <3> QED  BY <3>1, RoundCases, PipeAssumption DEF Positions
  <2>2. n[t] \in Nat
    BY <1>0, PipeAssumption
  <2>3. CASE op[t] = "read"
    <3>1. rpos + n[t] <= PipeSize /\ n[t] <= len[t]
      BY <1>7, <2>3 DEF move, Goto, IInv, ChunkInBounds, ChunkInv
    <3>2. rpos' \in Positions /\ len[t] - n[t] \in 0 .. MaxLen
      BY <1>0, <1>7, <2>1, <2>2, <2>3, <3>1, PipeAssumption DEF move
    <3> QED  BY <1>0, <1>7, <2>0, <2>3, <3>2 DEF move
  <2>4. CASE op[t] # "read"
    <3>1. wpos + n[t] <= PipeSize /\ n[t] <= Len(data[t])
      BY <1>7, <2>4 DEF move, Goto, IInv, ChunkInBounds, ChunkInv
    <3>2. wpos' \in Positions
      BY <1>0, <1>7, <2>1, <2>2, <2>4, <3>1 DEF move
    <3>3. PICK d, k : d = data[t] /\ k = n[t]
      OBVIOUS
    <3>4. d \in Seq(Bytes) /\ Len(d) <= MaxLen /\ k \in 0 .. Len(d)
      BY <1>0, <2>2, <3>1, <3>3, StringsAreSeqs
    <3>5. SubSeq(d, k + 1, Len(d)) \in Seq(Bytes) /\ Len(SubSeq(d, k + 1, Len(d))) = Len(d) - k
      BY <3>4, DropIs
    <3>6. SubSeq(d, k + 1, Len(d)) \in Strings
      <4>1. Len(SubSeq(d, k + 1, Len(d))) <= MaxLen
        BY <3>4, <3>5, PipeAssumption
      <4> QED  BY <3>5, <4>1, StringsAreSeqs, Zenon
    <3>7. data' = [data EXCEPT ![t] = SubSeq(d, k + 1, Len(d))] /\ len' = len /\ rpos' = rpos
      BY <1>7, <2>4, <3>3 DEF move
    <3> QED  BY <1>0, <2>0, <3>2, <3>6, <3>7
  <2> QED  BY <2>3, <2>4
<1>8. ASSUME NEW t \in Threads, raw_spin_give(t) PROVE TypeOK'
  BY <1>0, <1>01, <1>02, <1>8 DEF raw_spin_give, Goto
<1>9. CASE signalCheck \/ UNCHANGED vars
  BY <1>0, <1>9 DEF signalCheck, pipevars, vars
<1> QED
  BY <1>1, <1>2, <1>3, <1>4, <1>5, <1>6, <1>7, <1>8, <1>9 DEF Next, Step

\* A step of one thread is a step of its own locals only.
LEMMA StepIsLocal ==
    ASSUME TypeOK, NEW t \in Threads,
           \/ \E k \in 0 .. MaxLen : read_call(t, k)
           \/ \E s \in Strings : write_call(t, s)
           \/ Step(t)
    PROVE  Others(t)
<1> USE DEF TypeOK, Others, Goto
<1>1. ASSUME NEW k \in 0 .. MaxLen, read_call(t, k) PROVE Others(t)
  BY <1>1 DEF read_call
<1>2. ASSUME NEW s \in Strings, write_call(t, s) PROVE Others(t)
  BY <1>2 DEF write_call
<1>3. ASSUME check(t) PROVE Others(t)
  <2>1. CASE Nothing(t)
    BY <1>3, <2>1 DEF check, Return
  <2>2. CASE ~Nothing(t)
    BY <1>3, <2>2 DEF check
  <2> QED  BY <2>1, <2>2
<1>4. ASSUME raw_spin_take(t) PROVE Others(t)
  BY <1>4 DEF raw_spin_take
<1>5. ASSUME raw_spin_poll(t) PROVE Others(t)
  BY <1>5 DEF raw_spin_poll
<1>6. ASSUME copy(t) PROVE Others(t)
  <2>1. CASE op[t] = "read"
    BY <1>6, <2>1 DEF copy
  <2>2. CASE op[t] # "read"
    BY <1>6, <2>2 DEF copy
  <2> QED  BY <2>1, <2>2
<1>7. ASSUME move(t) PROVE Others(t)
  <2>1. CASE op[t] = "read"
    BY <1>7, <2>1 DEF move
  <2>2. CASE op[t] # "read"
    BY <1>7, <2>2 DEF move
  <2> QED  BY <2>1, <2>2
<1>8. ASSUME raw_spin_give(t) PROVE Others(t)
  BY <1>8 DEF raw_spin_give
<1> QED  BY <1>1, <1>2, <1>3, <1>4, <1>5, <1>6, <1>7, <1>8 DEF Step

\* CallInv, ChunkInBounds and ChunkInv of one thread.
CallOf(t) ==
    /\ op[t] = "none" <=> pc[t] = "idle"
    /\ op[t] # "read" => buf[t] = <<>>
    /\ op[t] = "read" => Len(Received(t)) + len[t] <= MaxLen
BoundsOf(t) ==
    pc[t] \in {"copy", "move"} =>
        IF op[t] = "read"
          THEN rpos + n[t] <= PipeSize /\ n[t] <= cal_size
          ELSE wpos + n[t] <= PipeSize /\ cal_size + n[t] < PipeSize
ChunkOf(t) ==
    /\ pc[t] \in {"copy", "move"} =>
          n[t] <= (IF op[t] = "read" THEN len[t] ELSE Len(data[t]))
    /\ pc[t] = "move" /\ op[t] = "read" =>
          /\ n[t] <= Len(buf[t])
          /\ \A i \in 1 .. n[t] : buf[t][Len(buf[t]) - n[t] + i] = pipe[rpos + i - 1]
    /\ pc[t] = "move" /\ op[t] = "write" =>
          \A i \in 1 .. n[t] : pipe[wpos + i - 1] = data[t][i]

\* A step keeps what holds of its own thread.
LEMMA OwnStep ==
    ASSUME IInv, NEW t \in Threads,
           \/ \E k \in 0 .. MaxLen : read_call(t, k)
           \/ \E s \in Strings : write_call(t, s)
           \/ Step(t)
    PROVE  CallOf(t)' /\ BoundsOf(t)' /\ ChunkOf(t)'
<1>0. TypeOK /\ CallOf(t) /\ BoundsOf(t) /\ ChunkOf(t)
  BY DEF IInv, CallInv, ChunkInBounds, ChunkInv, CallOf, BoundsOf, ChunkOf
<1>01. /\ op \in [Threads -> {"none", "read", "write"}]
       /\ pc \in [Threads -> {"idle", "check", "take", "spin", "copy", "move", "give"}]
       /\ data \in [Threads -> Strings] /\ buf \in [Threads -> Strings]
       /\ len \in [Threads -> 0 .. MaxLen] /\ n \in [Threads -> 0 .. MaxLen]
  BY <1>0 DEF TypeOK
<1>1. ASSUME NEW k \in 0 .. MaxLen, read_call(t, k)
      PROVE  CallOf(t)' /\ BoundsOf(t)' /\ ChunkOf(t)'
  <2>1. pc'[t] = "check" /\ op'[t] = "read" /\ len'[t] = k /\ buf'[t] = <<>> /\ Len(<<>>) = 0
    BY <1>0, <1>01, <1>1 DEF read_call, Goto, CallOf
  <2> QED  BY <2>1 DEF CallOf, BoundsOf, ChunkOf, Received
<1>2. ASSUME NEW s \in Strings, write_call(t, s)
      PROVE  CallOf(t)' /\ BoundsOf(t)' /\ ChunkOf(t)'
  <2>1. pc'[t] = "check" /\ op'[t] = "write" /\ buf'[t] = <<>>
    BY <1>0, <1>01, <1>2 DEF write_call, Goto, CallOf
  <2> QED  BY <2>1 DEF CallOf, BoundsOf, ChunkOf
<1>3. ASSUME check(t) PROVE CallOf(t)' /\ BoundsOf(t)' /\ ChunkOf(t)'
  <2>1. CASE Nothing(t)
    <3>1. pc'[t] = "idle" /\ op'[t] = "none" /\ buf'[t] = <<>>
      BY <1>01, <1>3, <2>1 DEF check, Goto, Return
    <3> QED  BY <3>1 DEF CallOf, BoundsOf, ChunkOf
  <2>2. CASE ~Nothing(t)
    <3>1. /\ pc[t] = "check" /\ pc'[t] = "take" /\ op'[t] = op[t]
          /\ buf'[t] = buf[t] /\ len'[t] = len[t]
      BY <1>01, <1>3, <2>2 DEF check, Goto
    <3> QED  BY <1>0, <3>1 DEF CallOf, BoundsOf, ChunkOf, Received
  <2> QED  BY <2>1, <2>2
<1>4. ASSUME raw_spin_take(t) PROVE CallOf(t)' /\ BoundsOf(t)' /\ ChunkOf(t)'
  <2>1. /\ pc[t] = "take" /\ pc'[t] = "spin" /\ op'[t] = op[t]
        /\ buf'[t] = buf[t] /\ len'[t] = len[t]
    BY <1>01, <1>4 DEF raw_spin_take, Goto
  <2> QED  BY <1>0, <2>1 DEF CallOf, BoundsOf, ChunkOf, Received
<1>5. ASSUME raw_spin_poll(t) PROVE CallOf(t)' /\ BoundsOf(t)' /\ ChunkOf(t)'
  <2>1. /\ pc[t] = "spin" /\ pc'[t] = "copy" /\ op'[t] = op[t] /\ n'[t] = Chunk(t)
        /\ UNCHANGED <<rpos, wpos, buf, len, data>>
    BY <1>01, <1>5 DEF raw_spin_poll, Goto
  <2>2. cal_size' = cal_size
    BY <2>1 DEF cal_size
  <2>3. op[t] \in {"read", "write"}
    BY <1>0, <1>01, <2>1 DEF CallOf
  <2>4. CallOf(t)'
    BY <1>0, <2>1 DEF CallOf, Received
  <2>5. BoundsOf(t)'
    BY <1>0, <2>1, <2>2, <2>3, ChunkFits DEF BoundsOf
  <2>6. ChunkOf(t)'
    BY <1>0, <2>1, <2>3, ChunkFits DEF ChunkOf
  <2> QED  BY <2>4, <2>5, <2>6
<1>6. ASSUME copy(t) PROVE CallOf(t)' /\ BoundsOf(t)' /\ ChunkOf(t)'
  <2>1. /\ pc[t] = "copy" /\ pc'[t] = "move" /\ op'[t] = op[t] /\ n'[t] = n[t]
        /\ UNCHANGED <<rpos, wpos, len, data>>
    BY <1>01, <1>6 DEF copy, Goto
  <2>2. cal_size' = cal_size
    BY <2>1 DEF cal_size
  <2>3. BoundsOf(t)'
    BY <1>0, <2>1, <2>2 DEF BoundsOf
  <2>4. CASE op[t] = "read"
    <3>1. /\ buf'[t] \in Seq(Bytes) /\ Len(buf'[t]) = Len(buf[t]) + n[t]
          /\ \A i \in 1 .. n[t] : buf'[t][Len(buf[t]) + i] = pipe[rpos + i - 1]
          /\ pipe' = pipe
      BY <1>6, <2>4, CopyRead DEF copy
    <3>2. Len(buf[t]) \in Nat /\ n[t] \in Nat
      BY <1>01, StringsAreSeqs, PipeAssumption
    <3>3. Len(buf'[t]) - n[t] = Len(buf[t]) /\ Len(buf'[t]) - n[t] \in 0 .. Len(buf'[t])
      BY <3>1, <3>2
    <3>4. ChunkOf(t)'
      <4>1. n[t] <= len[t] /\ n[t] <= Len(buf'[t])
        BY <1>0, <2>1, <2>4, <3>1, <3>2 DEF ChunkOf
      <4>2. \A i \in 1 .. n[t] : buf'[t][Len(buf'[t]) - n[t] + i] = pipe'[rpos + i - 1]
        BY <3>1, <3>3
      <4> QED  BY <2>1, <2>4, <4>1, <4>2 DEF ChunkOf
    <3>5. Len(Received(t)') = Len(buf[t])
      <4>1. Received(t)' = SubSeq(buf'[t], 1, Len(buf'[t]) - n[t])
        BY <2>1, <2>4 DEF Received
      <4>2. PICK b, k : b = buf'[t] /\ k = Len(buf'[t]) - n[t]
        OBVIOUS
      <4>3. Len(SubSeq(b, 1, k)) = k
        BY <4>2, <3>1, <3>3, TakeIs
      <4> QED  BY <4>1, <4>2, <4>3, <3>3
    <3>6. CallOf(t)'
      BY <1>0, <2>1, <2>4, <3>5 DEF CallOf, Received
    <3> QED  BY <2>3, <3>4, <3>6
  <2>5. CASE op[t] = "write"
    <3>1. \A i \in 1 .. n[t] : pipe'[wpos + i - 1] = data[t][i]
      BY <1>6, <2>5, CopyWrite
    <3>2. buf' = buf
      BY <1>6, <2>5 DEF copy
    <3>3. ChunkOf(t)'
      BY <1>0, <2>1, <2>5, <3>1 DEF ChunkOf
    <3>4. CallOf(t)'
      BY <1>0, <2>1, <2>5, <3>2 DEF CallOf
    <3> QED  BY <2>3, <3>3, <3>4
  <2> QED  BY <1>0, <1>01, <2>1, <2>4, <2>5 DEF CallOf
<1>7. ASSUME move(t) PROVE CallOf(t)' /\ BoundsOf(t)' /\ ChunkOf(t)'
  <2>1. /\ pc[t] = "move" /\ pc'[t] = "give" /\ op'[t] = op[t] /\ buf'[t] = buf[t]
    BY <1>01, <1>7 DEF move, Goto
  <2>2. CASE op[t] = "read"
    <3>1. len'[t] = len[t] - n[t] /\ Received(t)' = buf[t]
      BY <1>01, <1>7, <2>1, <2>2 DEF move, Received
    <3>2. Len(Received(t)) = Len(buf[t]) - n[t]
      <4>1. PICK b, k : b = buf[t] /\ k = Len(buf[t]) - n[t]
        OBVIOUS
      <4>2. b \in Seq(Bytes) /\ k \in 0 .. Len(b)
        <5>1. b \in Seq(Bytes)
          BY <1>01, <4>1, StringsAreSeqs
        <5>2. Len(b) \in Nat /\ n[t] \in Nat /\ n[t] <= Len(b)
          BY <1>0, <1>01, <2>1, <2>2, <4>1, <5>1, PipeAssumption DEF ChunkOf
        <5> QED  BY <4>1, <5>1, <5>2
      <4>3. Len(SubSeq(b, 1, k)) = k
        BY <4>2, TakeIs
      <4> QED  BY <2>1, <2>2, <4>1, <4>3 DEF Received
    <3>3. Len(buf[t]) \in Nat /\ n[t] \in Nat /\ len[t] \in Nat
      BY <1>01, StringsAreSeqs, PipeAssumption
    <3>4. CallOf(t)'
      BY <1>0, <2>1, <2>2, <3>1, <3>2, <3>3, PipeAssumption DEF CallOf
    <3> QED  BY <2>1, <3>4 DEF BoundsOf, ChunkOf
  <2>3. CASE op[t] # "read"
    BY <1>0, <2>1, <2>3 DEF CallOf, BoundsOf, ChunkOf
  <2> QED  BY <2>2, <2>3
<1>8. ASSUME raw_spin_give(t) PROVE CallOf(t)' /\ BoundsOf(t)' /\ ChunkOf(t)'
  <2>1. /\ pc[t] = "give" /\ pc'[t] = "check" /\ op'[t] = op[t]
        /\ buf'[t] = buf[t] /\ len'[t] = len[t]
    BY <1>01, <1>8 DEF raw_spin_give, Goto
  <2> QED  BY <1>0, <2>1 DEF CallOf, BoundsOf, ChunkOf, Received
<1> QED  BY <1>1, <1>2, <1>3, <1>4, <1>5, <1>6, <1>7, <1>8 DEF Step

\* Without the lock nobody touches the buffer or the positions.
LEMMA QuietUnlessLocked ==
    ASSUME NEW t \in Threads, ~Locked(t),
           \/ \E k \in 0 .. MaxLen : read_call(t, k)
           \/ \E s \in Strings : write_call(t, s)
           \/ Step(t)
    PROVE  UNCHANGED <<pipe, rpos, wpos>>
BY DEF Step, Locked, Goto, read_call, write_call, check, raw_spin_take,
       raw_spin_poll, copy, move, raw_spin_give

\* A step keeps what holds of every other thread: one that is between
\* raw_spin_take and raw_spin_give is alone there.
LEMMA OtherStep ==
    ASSUME IInv, NEW t \in Threads, NEW u \in Threads, u # t,
           \/ \E k \in 0 .. MaxLen : read_call(t, k)
           \/ \E s \in Strings : write_call(t, s)
           \/ Step(t)
    PROVE  CallOf(u)' /\ BoundsOf(u)' /\ ChunkOf(u)'
<1>0. TypeOK /\ LockInv /\ CallOf(u) /\ BoundsOf(u) /\ ChunkOf(u)
  BY DEF IInv, CallInv, ChunkInBounds, ChunkInv, CallOf, BoundsOf, ChunkOf
<1>1. /\ op'[u] = op[u] /\ pc'[u] = pc[u] /\ data'[u] = data[u]
      /\ len'[u] = len[u] /\ buf'[u] = buf[u] /\ n'[u] = n[u]
  BY <1>0, StepIsLocal DEF Others
<1>2. CallOf(u)'
  BY <1>0, <1>1 DEF CallOf, Received
<1>3. CASE pc[u] \in {"copy", "move"}
  <2>1. ~Locked(t)
    BY <1>0, <1>3, LockedAlone DEF Locked
  <2>2. UNCHANGED <<pipe, rpos, wpos>>
    BY <2>1, QuietUnlessLocked
  <2>3. cal_size' = cal_size
    BY <2>2 DEF cal_size
  <2> QED  BY <1>0, <1>1, <1>2, <2>2, <2>3 DEF BoundsOf, ChunkOf
<1>4. CASE pc[u] \notin {"copy", "move"}
  BY <1>1, <1>2, <1>4 DEF BoundsOf, ChunkOf
<1> QED  BY <1>3, <1>4

\* The invariant holds when the file is constructed, whatever the lock's memory
\* held.
LEMMA InitInv == Init => IInv
<1> SUFFICES ASSUME Init PROVE IInv
  OBVIOUS
<1>1. Cardinality(Threads) \in Nat
  BY PipeAssumption, FS_CardinalityType
<1>2. InLine = {} /\ Cardinality({}) = 0
  BY FS_EmptySet DEF InLine, Init
<1>3. TypeOK
  <2>1. <<>> \in Strings
    <3>1. <<>> \in Seq(Bytes) /\ Len(<<>>) <= MaxLen
      BY PipeAssumption
    <3> QED  BY <3>1, StringsAreSeqs, Zenon
  <2>2. 0 \in Positions /\ 0 \in Tickets /\ 0 \in 0 .. MaxLen
    BY <1>1, PipeAssumption DEF Positions, Tickets
  <2> QED  BY <2>1, <2>2 DEF Init, PIPE_File, TypeOK
<1>4. LockInv
  <2>1. CASE svc = 0
    <3>1. Works
      BY <1>1, <1>2, <2>1, PipeAssumption
         DEF Works, InOrder, Ahead, Init, PIPE_File, Locked
    <3> QED  BY <3>1 DEF LockInv
  <2>2. CASE svc > Cardinality(Threads)
    BY <1>2, <2>2 DEF LockInv, Stuck, Init, PIPE_File
  <2> QED  BY <2>1, <2>2 DEF Init, PIPE_File
<1>5. CallInv /\ ChunkInBounds /\ ChunkInv
  BY DEF Init, CallInv, ChunkInBounds, ChunkInv
<1> QED  BY <1>3, <1>4, <1>5 DEF IInv

\* Every step keeps the invariant.
LEMMA InvStep == IInv /\ [Next]_vars => IInv'
<1> SUFFICES ASSUME IInv, [Next]_vars PROVE IInv'
  OBVIOUS
<1>1. TypeOK' /\ LockInv'
  BY TypeStep, LockStep DEF IInv
<1>2. CASE UNCHANGED pipevars
  BY <1>1, <1>2
     DEF pipevars, IInv, CallInv, ChunkInBounds, ChunkInv, cal_size, Received
<1>3. ASSUME NEW t \in Threads,
             \/ \E k \in 0 .. MaxLen : read_call(t, k)
             \/ \E s \in Strings : write_call(t, s)
             \/ Step(t)
      PROVE  IInv'
  <2>1. \A u \in Threads : CallOf(u)' /\ BoundsOf(u)' /\ ChunkOf(u)'
    BY <1>3, OwnStep, OtherStep
  <2>2. CallInv' /\ ChunkInBounds' /\ ChunkInv'
    BY <2>1 DEF CallInv, ChunkInBounds, ChunkInv, CallOf, BoundsOf, ChunkOf
  <2> QED  BY <1>1, <2>2 DEF IInv
<1> QED  BY <1>2, <1>3, StopKeeps DEF Next

-----------------------------------------------------------------------------
\* The inductive invariant of the pipe.
THEOREM Invariance == Spec => []IInv
BY InitInv, InvStep, PTL DEF Spec

\* Type correctness: positions stay in the buffer, and no call is left with
\* more bytes than it asked for.
THEOREM TypeCorrect == Spec => []TypeOK
<1>1. IInv => TypeOK
  BY DEF IInv
<1> QED  BY <1>1, Invariance, PTL

\* memcpy of read and write stays within the unread bytes and within the free
\* space, for any number of readers and writers.
THEOREM ChunkInBoundsHolds == Spec => []ChunkInBounds
<1>1. IInv => ChunkInBounds
  BY DEF IInv
<1> QED  BY <1>1, Invariance, PTL

-----------------------------------------------------------------------------
(* The refinement of BoundedPipe.                                          *)

\* What Contents is, byte by byte.
ContentsShape ==
    /\ Contents \in Seq(Bytes) /\ Len(Contents) = cal_size
    /\ \A i \in 1 .. cal_size :
          Contents[i] = pipe[IF rpos + i - 1 < PipeSize THEN rpos + i - 1
                             ELSE rpos + i - 1 - PipeSize]
    /\ \A s \in Seq(Bytes) :
          Len(s) = cal_size /\ (\A i \in 1 .. cal_size : s[i] = Contents[i]) => s = Contents

\* The contents are a sequence of cal_size bytes, read around the ring.
LEMMA ContentsShaped == TypeOK => ContentsShape
<1> SUFFICES ASSUME TypeOK PROVE ContentsShape
  OBVIOUS
<1>1. /\ rpos \in Positions /\ wpos \in Positions /\ pipe \in [Positions -> Bytes]
      /\ cal_size \in 0 .. PipeSize - 1 /\ cal_size \in Nat
  BY CalSize, PipeAssumption DEF TypeOK
<1>2. ASSUME NEW i \in 1 .. cal_size
      PROVE  /\ round(rpos + i - 1) \in Positions
             /\ round(rpos + i - 1) = IF rpos + i - 1 < PipeSize THEN rpos + i - 1
                                      ELSE rpos + i - 1 - PipeSize
  <2>1. PICK k \in 0 .. PipeSize : k = i - 1 /\ rpos + i - 1 = rpos + k
    BY <1>1, PipeAssumption DEF Positions
  <2>2. /\ round(rpos + k) = IF rpos + k < PipeSize THEN rpos + k ELSE rpos + k - PipeSize
        /\ round(rpos + k) \in Positions
    BY <1>1, RoundSum
  <2> QED  BY <2>1, <2>2
<1>3. PICK c : c = cal_size
  OBVIOUS
<1>4. Contents = [i \in 1 .. c |-> pipe[round(rpos + i - 1)]]
  BY <1>3 DEF Contents
<1>5. Contents \in [1 .. c -> Bytes] /\ c \in Nat
  BY <1>1, <1>2, <1>3, <1>4
<1>6. Contents \in Seq(Bytes) /\ Len(Contents) = c
  BY <1>5
<1>7. \A i \in 1 .. c : Contents[i] = pipe[round(rpos + i - 1)]
  BY <1>4
<1>8. ASSUME NEW s \in Seq(Bytes), Len(s) = c, \A i \in 1 .. c : s[i] = Contents[i]
      PROVE  s = Contents
  BY <1>6, <1>8, SeqEqual
<1> QED  BY <1>2, <1>3, <1>6, <1>7, <1>8 DEF ContentsShape

\* A writer's memcpy touches none of the bytes that are in the pipe.
LEMMA CopyKeepsContents ==
    ASSUME IInv, ContentsShape, ContentsShape', NEW t \in Threads, copy(t)
    PROVE  Contents' = Contents
<1>1. UNCHANGED <<rpos, wpos>>
  BY DEF copy
<1>2. cal_size' = cal_size
  BY <1>1 DEF cal_size
<1>3. CASE op[t] = "read"
  BY <1>1, <1>2, <1>3 DEF copy, Contents
<1>4. CASE op[t] = "write"
  <2>1. /\ rpos \in Positions /\ wpos \in Positions /\ cal_size \in Nat
        /\ cal_size = IF wpos >= rpos THEN wpos - rpos ELSE wpos - rpos + PipeSize
    BY CalSize, PipeAssumption DEF IInv, TypeOK
  <2>2. n[t] \in Nat /\ wpos + n[t] <= PipeSize /\ cal_size + n[t] < PipeSize
    BY <1>4, PipeAssumption DEF IInv, TypeOK, ChunkInBounds, copy, Goto
  <2>3. \A i \in Positions : i \notin wpos .. wpos + n[t] - 1 => pipe'[i] = pipe[i]
    BY <1>4, CopyWrite
  <2>4. ASSUME NEW i \in 1 .. cal_size PROVE Contents'[i] = Contents[i]
    <3>1. PICK j : j = IF rpos + i - 1 < PipeSize THEN rpos + i - 1
                       ELSE rpos + i - 1 - PipeSize
      OBVIOUS
    <3>2. j \in Positions /\ j \notin wpos .. wpos + n[t] - 1
      BY <2>1, <2>2, <3>1, PipeAssumption DEF Positions
    <3> QED  BY <1>1, <1>2, <2>3, <3>1, <3>2 DEF ContentsShape
  <2> QED  BY <1>2, <2>4 DEF ContentsShape
<1> QED  BY <1>3, <1>4 DEF IInv, TypeOK, CallInv, copy, Goto

\* A writer that moves wpos has put its chunk at the end of the queue.
LEMMA MoveIsPut ==
    ASSUME IInv, ContentsShape, ContentsShape', NEW t \in Threads, move(t), op[t] = "write"
    PROVE  /\ n[t] \in 0 .. Len(data[t]) /\ Len(Contents) + n[t] <= PipeSize - 1
           /\ Contents' = Contents \o SubSeq(data[t], 1, n[t])
<1>1. /\ rpos \in Positions /\ wpos \in Positions /\ cal_size \in Nat
      /\ cal_size = IF wpos >= rpos THEN wpos - rpos ELSE wpos - rpos + PipeSize
  BY CalSize, PipeAssumption DEF IInv, TypeOK
<1>2. PICK d, k : d = data[t] /\ k = n[t]
  OBVIOUS
<1>3. /\ d \in Seq(Bytes) /\ k \in 0 .. Len(d)
      /\ wpos + k <= PipeSize /\ cal_size + k < PipeSize
      /\ \A i \in 1 .. k : pipe[wpos + i - 1] = d[i]
  BY <1>2, StringsAreSeqs, PipeAssumption
     DEF IInv, TypeOK, ChunkInBounds, ChunkInv, move, Goto
<1>4. UNCHANGED <<pipe, rpos>> /\ wpos' = round(wpos + k)
  BY <1>2 DEF move
<1>5. wpos' = IF wpos + k < PipeSize THEN wpos + k ELSE wpos + k - PipeSize
  <2>1. k \in 0 .. PipeSize
    BY <1>1, <1>3, PipeAssumption DEF Positions
  <2> QED  BY <1>1, <1>4, <2>1, RoundSum
<1>6. wpos' \in Positions /\ rpos' \in Positions
  BY <1>1, <1>3, <1>4, <1>5, PipeAssumption DEF Positions
<1>7. cal_size' = IF wpos' >= rpos' THEN wpos' - rpos' ELSE wpos' - rpos' + PipeSize
  BY <1>6, RoundDifference DEF cal_size
<1>8. cal_size' = cal_size + k
  <2>1. PICK w, r, w2, c, c2, N : /\ w = wpos /\ r = rpos /\ w2 = wpos' /\ c = cal_size
                                  /\ c2 = cal_size' /\ N = PipeSize
    OBVIOUS
  <2>2. /\ w \in 0 .. N - 1 /\ r \in 0 .. N - 1 /\ N \in Nat /\ k \in Nat
        /\ c = (IF w >= r THEN w - r ELSE w - r + N)
        /\ w2 = (IF w + k < N THEN w + k ELSE w + k - N) /\ w + k <= N /\ c + k < N
        /\ c2 = IF w2 >= r THEN w2 - r ELSE w2 - r + N
    BY <1>1, <1>3, <1>4, <1>5, <1>7, <2>1, PipeAssumption DEF Positions
  <2>3. c2 = c + k
    BY <2>2
  <2> QED  BY <2>1, <2>3
<1>9. PICK a, b : a = Contents /\ b = SubSeq(d, 1, k)
  OBVIOUS
<1>10. /\ a \in Seq(Bytes) /\ Len(a) = cal_size
       /\ b \in Seq(Bytes) /\ Len(b) = k /\ \A i \in 1 .. k : b[i] = d[i]
  BY <1>3, <1>9, TakeIs DEF ContentsShape
<1>11. /\ a \o b \in Seq(Bytes) /\ Len(a \o b) = cal_size + k
       /\ \A i \in 1 .. cal_size : (a \o b)[i] = a[i]
       /\ \A i \in 1 .. k : (a \o b)[cal_size + i] = b[i]
  <2>1. /\ a \o b \in Seq(Bytes) /\ Len(a \o b) = Len(a) + Len(b)
        /\ \A i \in 1 .. Len(a) : (a \o b)[i] = a[i]
        /\ \A i \in 1 .. Len(b) : (a \o b)[Len(a) + i] = b[i]
    BY <1>10
  <2> QED  BY <1>10, <2>1
<1>12. ASSUME NEW i \in 1 .. cal_size' PROVE (a \o b)[i] = Contents'[i]
  <2>1. Contents'[i] = pipe[IF rpos + i - 1 < PipeSize THEN rpos + i - 1
                            ELSE rpos + i - 1 - PipeSize]
    BY <1>4 DEF ContentsShape
  <2>2. CASE i \in 1 .. cal_size
    BY <1>9, <1>11, <2>1, <2>2 DEF ContentsShape
  <2>3. CASE i \notin 1 .. cal_size
    <3>1. PICK j \in 1 .. k : i = cal_size + j
      <4>1. i - cal_size \in 1 .. k /\ i = cal_size + (i - cal_size)
        BY <1>1, <1>3, <1>8, <2>3
      <4> QED  BY <4>1
    <3>2. (IF rpos + i - 1 < PipeSize THEN rpos + i - 1 ELSE rpos + i - 1 - PipeSize)
             = wpos + j - 1
      <4>1. PICK w, r, c, N : w = wpos /\ r = rpos /\ c = cal_size /\ N = PipeSize
        OBVIOUS
      <4>2. /\ w \in 0 .. N - 1 /\ r \in 0 .. N - 1 /\ N \in Nat /\ k \in Nat
            /\ c = (IF w >= r THEN w - r ELSE w - r + N) /\ w + k <= N /\ c + k < N
        BY <1>1, <1>3, <4>1, PipeAssumption DEF Positions
      <4>3. (IF r + i - 1 < N THEN r + i - 1 ELSE r + i - 1 - N) = w + j - 1
        BY <3>1, <4>1, <4>2
      <4> QED  BY <4>1, <4>3
    <3>3. Contents'[i] = d[j]
      BY <1>3, <2>1, <3>2
    <3>4. (a \o b)[i] = d[j]
      BY <1>10, <1>11, <3>1
    <3> QED  BY <3>3, <3>4
  <2> QED  BY <2>2, <2>3
<1>13. a \o b = Contents'
  BY <1>8, <1>11, <1>12 DEF ContentsShape
<1>14. Len(Contents) + k <= PipeSize - 1
  BY <1>1, <1>3, <1>9, <1>10, PipeAssumption
<1> QED  BY <1>2, <1>3, <1>9, <1>13, <1>14

\* A reader that moves rpos has taken its chunk from the front of the queue.
LEMMA MoveIsGet ==
    ASSUME IInv, ContentsShape, ContentsShape', NEW t \in Threads, move(t), op[t] = "read"
    PROVE  /\ n[t] \in 0 .. len[t] /\ n[t] <= Len(Contents)
           /\ Contents' = SubSeq(Contents, n[t] + 1, Len(Contents))
           /\ Received(t)' = Received(t) \o SubSeq(Contents, 1, n[t])
<1>1. /\ rpos \in Positions /\ wpos \in Positions /\ cal_size \in Nat
      /\ cal_size = IF wpos >= rpos THEN wpos - rpos ELSE wpos - rpos + PipeSize
  BY CalSize, PipeAssumption DEF IInv, TypeOK
<1>2. PICK q, b, k : q = Contents /\ b = buf[t] /\ k = n[t]
  OBVIOUS
<1>3. /\ b \in Seq(Bytes) /\ k \in 0 .. Len(b) /\ k \in 0 .. len[t]
      /\ rpos + k <= PipeSize /\ k <= cal_size
      /\ \A i \in 1 .. k : b[Len(b) - k + i] = pipe[rpos + i - 1]
  BY <1>2, StringsAreSeqs, PipeAssumption
     DEF IInv, TypeOK, ChunkInBounds, ChunkInv, move, Goto
<1>4. UNCHANGED <<pipe, wpos>> /\ rpos' = round(rpos + k)
  BY <1>2 DEF move
<1>5. rpos' = (IF rpos + k < PipeSize THEN rpos + k ELSE rpos + k - PipeSize)
      /\ rpos' \in Positions
  <2>1. k \in 0 .. PipeSize
    BY <1>1, <1>3, PipeAssumption DEF Positions
  <2> QED  BY <1>1, <1>4, <2>1, RoundSum
<1>6. cal_size' = IF wpos >= rpos' THEN wpos - rpos' ELSE wpos - rpos' + PipeSize
  BY <1>1, <1>4, <1>5, RoundDifference DEF cal_size
<1>7. cal_size' = cal_size - k
  BY <1>1, <1>3, <1>5, <1>6, PipeAssumption DEF Positions
<1>8. /\ q \in Seq(Bytes) /\ Len(q) = cal_size /\ k \in 0 .. Len(q)
      /\ \A i \in 1 .. cal_size : q[i] = pipe[IF rpos + i - 1 < PipeSize
                                                THEN rpos + i - 1 ELSE rpos + i - 1 - PipeSize]
  BY <1>1, <1>2, <1>3 DEF ContentsShape
<1>9. PICK d : d = SubSeq(q, k + 1, Len(q))
  OBVIOUS
<1>10. /\ d \in Seq(Bytes) /\ Len(d) = cal_size'
       /\ \A i \in 1 .. cal_size' : d[i] = q[k + i]
  BY <1>7, <1>8, <1>9, DropIs
<1>11. ASSUME NEW i \in 1 .. cal_size' PROVE d[i] = Contents'[i]
  <2>1. Contents'[i] = pipe[IF rpos' + i - 1 < PipeSize THEN rpos' + i - 1
                            ELSE rpos' + i - 1 - PipeSize]
    BY <1>4 DEF ContentsShape
  <2>2. i \in Nat /\ i >= 1 /\ k \in Nat /\ k + i \in 1 .. cal_size
    BY <1>1, <1>3, <1>7
  <2>3. d[i] = pipe[IF rpos + (k + i) - 1 < PipeSize THEN rpos + (k + i) - 1
                    ELSE rpos + (k + i) - 1 - PipeSize]
    BY <1>8, <1>10, <2>2
  <2>4. (IF rpos' + i - 1 < PipeSize THEN rpos' + i - 1 ELSE rpos' + i - 1 - PipeSize)
           = (IF rpos + (k + i) - 1 < PipeSize THEN rpos + (k + i) - 1
              ELSE rpos + (k + i) - 1 - PipeSize)
    <3>1. cal_size < PipeSize
      BY <1>1, PipeAssumption DEF Positions
    <3>2. PICK r, r2, N : r = rpos /\ r2 = rpos' /\ N = PipeSize
      OBVIOUS
    <3>3. /\ r \in 0 .. N - 1 /\ N \in Nat /\ k + i < N
          /\ r2 = IF r + k < N THEN r + k ELSE r + k - N
      BY <1>1, <1>3, <1>5, <2>2, <3>1, <3>2, PipeAssumption DEF Positions
    <3>4. (IF r2 + i - 1 < N THEN r2 + i - 1 ELSE r2 + i - 1 - N)
            = (IF r + (k + i) - 1 < N THEN r + (k + i) - 1 ELSE r + (k + i) - 1 - N)
      BY <2>2, <3>3
    <3> QED  BY <3>2, <3>4
  <2> QED  BY <2>1, <2>3, <2>4
<1>12. d = Contents'
  BY <1>10, <1>11 DEF ContentsShape
<1>13. Received(t) = SubSeq(b, 1, Len(b) - k) /\ Received(t)' = b
  BY <1>2 DEF Received, move, Goto, IInv, TypeOK
<1>14. PICK r, c : r = SubSeq(b, 1, Len(b) - k) /\ c = SubSeq(q, 1, k)
  OBVIOUS
<1>15. /\ r \in Seq(Bytes) /\ Len(r) = Len(b) - k /\ \A i \in 1 .. Len(b) - k : r[i] = b[i]
       /\ c \in Seq(Bytes) /\ Len(c) = k /\ \A i \in 1 .. k : c[i] = q[i]
  <2>1. Len(b) - k \in 0 .. Len(b)
    BY <1>3
  <2> QED  BY <1>3, <1>8, <1>14, <2>1, TakeIs
<1>16. /\ r \o c \in Seq(Bytes) /\ Len(r \o c) = Len(r) + Len(c)
       /\ \A i \in 1 .. Len(r) : (r \o c)[i] = r[i]
       /\ \A i \in 1 .. Len(c) : (r \o c)[Len(r) + i] = c[i]
  <2>1. r \in Seq(Bytes) /\ c \in Seq(Bytes)
    BY <1>15
  <2> QED  BY <2>1
<1>17. r \o c = b
  <2>1. Len(r \o c) = Len(b)
    BY <1>3, <1>15, <1>16
  <2>2. ASSUME NEW i \in 1 .. Len(b) PROVE (r \o c)[i] = b[i]
    <3>1. CASE i \in 1 .. Len(b) - k
      BY <1>15, <1>16, <3>1
    <3>2. CASE i \notin 1 .. Len(b) - k
      <4>1. PICK j \in 1 .. k : i = Len(b) - k + j
        <5>1. i - (Len(b) - k) \in 1 .. k /\ i = Len(b) - k + (i - (Len(b) - k))
          BY <1>3, <3>2
        <5> QED  BY <5>1
      <4>2. (r \o c)[i] = q[j]
        BY <1>15, <1>16, <4>1
      <4>3. rpos + j - 1 < PipeSize /\ j \in 1 .. cal_size
        BY <1>1, <1>3, PipeAssumption DEF Positions
      <4>4. q[j] = pipe[rpos + j - 1]
        BY <1>8, <4>3
      <4> QED  BY <1>3, <4>1, <4>2, <4>4
    <3> QED  BY <3>1, <3>2
  <2> QED  BY <1>3, <1>16, <2>1, <2>2, SeqEqual
<1>18. k <= Len(Contents)
  BY <1>2, <1>3, <1>8
<1> QED  BY <1>2, <1>3, <1>9, <1>12, <1>13, <1>14, <1>17, <1>18

\* What the readers have received, as the refinement mapping has it.
Got == [t \in Threads |-> Received(t)]
Same == UNCHANGED <<Contents, op, data, len, Got>>

\* A step that leaves the buffer and the positions alone leaves the contents.
LEMMA ContentsKept ==
    ASSUME UNCHANGED <<pipe, rpos, wpos>> PROVE Contents' = Contents
BY DEF Contents, cal_size

\* Full and empty as the abstract pipe sees them.
LEMMA FullEmpty ==
    ASSUME TypeOK, ContentsShape
    PROVE  (full => Len(Contents) = PipeSize - 1) /\ (empty => Contents = <<>>)
<1>1. /\ rpos \in Positions /\ wpos \in Positions /\ cal_size \in Nat
      /\ cal_size = IF wpos >= rpos THEN wpos - rpos ELSE wpos - rpos + PipeSize
  BY CalSize, PipeAssumption DEF TypeOK
<1>2. Contents \in Seq(Bytes) /\ Len(Contents) = cal_size
  BY DEF ContentsShape
<1>3. ASSUME full PROVE Len(Contents) = PipeSize - 1
  <2>1. 1 \in 0 .. PipeSize
    BY PipeAssumption
  <2>2. round(wpos + 1) = IF wpos + 1 < PipeSize THEN wpos + 1 ELSE wpos + 1 - PipeSize
    BY <1>1, <2>1, RoundSum
  <2> QED  BY <1>1, <1>2, <1>3, <2>2, PipeAssumption DEF full, Positions
<1>4. ASSUME empty PROVE Contents = <<>>
  <2>1. cal_size = 0
    BY <1>1, <1>4, PipeAssumption DEF empty, Positions
  <2> QED  BY <1>2, <2>1
<1> QED  BY <1>3, <1>4

\* Every step of read and write is a step of the bounded queue, or none.
LEMMA QueueStep ==
    IInv /\ ContentsShape /\ ContentsShape' /\ [Next]_vars
        => [Queue!Next]_<<Contents, op, data, len, Got>>
<1> SUFFICES ASSUME IInv, ContentsShape, ContentsShape', [Next]_vars
             PROVE  Queue!Next \/ Same
  BY DEF Same
<1>0. TypeOK
  BY DEF IInv
<1>01. /\ op \in [Threads -> {"none", "read", "write"}]
       /\ pc \in [Threads -> {"idle", "check", "take", "spin", "copy", "move", "give"}]
       /\ data \in [Threads -> Strings] /\ buf \in [Threads -> Strings]
       /\ len \in [Threads -> 0 .. MaxLen] /\ n \in [Threads -> 0 .. MaxLen]
  BY <1>0 DEF TypeOK
<1>02. ASSUME NEW t \in Threads, Others(t)
       PROVE  \A u \in Threads : u # t => Received(u)' = Received(u)
  BY <1>02 DEF Others, Received
<1>1. ASSUME NEW t \in Threads, NEW k \in 0 .. MaxLen, read_call(t, k) PROVE Queue!Next
  <2>1. Others(t)
    BY <1>0, <1>1, StepIsLocal
  <2>2. /\ op[t] = "none" /\ op' = [op EXCEPT ![t] = "read"]
        /\ len' = [len EXCEPT ![t] = k] /\ len'[t] = k /\ k \in Nat
        /\ UNCHANGED data
    BY <1>01, <1>1, PipeAssumption DEF read_call
  <2>3. Received(t)' = Received(t)
    BY <1>01, <1>1 DEF read_call, Goto, Received
  <2>4. Got' = Got
    BY <1>02, <2>1, <2>3 DEF Got
  <2>5. Contents' = Contents
    BY <1>1, ContentsKept DEF read_call
  <2>6. Queue!StartRead(t)
    BY <2>2, <2>4, <2>5 DEF Queue!StartRead, Got
  <2> QED  BY <2>6 DEF Queue!Next
<1>2. ASSUME NEW t \in Threads, NEW s \in Strings, write_call(t, s) PROVE Queue!Next
  <2>1. Others(t)
    BY <1>0, <1>2, StepIsLocal
  <2>2. /\ op[t] = "none" /\ op' = [op EXCEPT ![t] = "write"]
        /\ data' = [data EXCEPT ![t] = s] /\ data'[t] = s /\ UNCHANGED len
    BY <1>01, <1>2 DEF write_call
  <2>3. s \in Seq(Bytes)
    BY StringsAreSeqs
  <2>4. Received(t)' = Received(t)
    BY <1>01, <1>2 DEF write_call, Goto, Received
  <2>5. Got' = Got
    BY <1>02, <2>1, <2>4 DEF Got
  <2>6. Contents' = Contents
    BY <1>2, ContentsKept DEF write_call
  <2>7. Queue!StartWrite(t)
    BY <2>2, <2>3, <2>5, <2>6 DEF Queue!StartWrite, Got
  <2> QED  BY <2>7 DEF Queue!Next
<1>3. ASSUME NEW t \in Threads, check(t) PROVE Queue!Next \/ Same
  <2>1. Others(t)
    BY <1>0, <1>3, StepIsLocal DEF Step
  <2>2. Contents' = Contents
    BY <1>3, ContentsKept DEF check
  <2>3. CASE Nothing(t)
    <3>1. Return(t) /\ pc'[t] = "idle"
      BY <1>01, <1>3, <2>3 DEF check, Goto
    <3>2. \/ op[t] = "write" /\ (data[t] = <<>> \/ Len(Contents) = PipeSize - 1)
          \/ op[t] = "read" /\ (len[t] = 0 \/ Contents = <<>>)
      BY <1>0, <2>3, FullEmpty DEF Nothing
    <3>3. Received(t)' = <<>>
      BY <1>01, <3>1 DEF Return, Received
    <3>4. Got' = [Got EXCEPT ![t] = <<>>]
      BY <1>02, <2>1, <3>3 DEF Got
    <3>5. Queue!Return(t)
      BY <2>2, <3>1, <3>2, <3>4 DEF Queue!Return, Return, Got
    <3> QED  BY <3>5 DEF Queue!Next
  <2>4. CASE ~Nothing(t)
    <3>1. pc[t] = "check" /\ pc'[t] = "take" /\ UNCHANGED <<op, data, len, buf, n>>
      BY <1>01, <1>3, <2>4 DEF check, Goto
    <3>2. Received(t)' = Received(t)
      BY <3>1 DEF Received
    <3> QED  BY <1>02, <2>1, <2>2, <3>1, <3>2 DEF Same, Got
  <2> QED  BY <2>3, <2>4
<1>4. ASSUME NEW t \in Threads, raw_spin_take(t) PROVE Same
  <2>1. Others(t)
    BY <1>0, <1>4, StepIsLocal DEF Step
  <2>2. Received(t)' = Received(t)
    BY <1>01, <1>4 DEF raw_spin_take, Goto, Received
  <2> QED  BY <1>02, <1>4, <2>1, <2>2, ContentsKept DEF raw_spin_take, Same, Got
<1>5. ASSUME NEW t \in Threads, raw_spin_poll(t) PROVE Same
  <2>1. Others(t)
    BY <1>0, <1>5, StepIsLocal DEF Step
  <2>2. Received(t)' = Received(t)
    BY <1>01, <1>5 DEF raw_spin_poll, Goto, Received
  <2> QED  BY <1>02, <1>5, <2>1, <2>2, ContentsKept DEF raw_spin_poll, Same, Got
<1>6. ASSUME NEW t \in Threads, copy(t) PROVE Same
  <2>1. Others(t)
    BY <1>0, <1>6, StepIsLocal DEF Step
  <2>2. Contents' = Contents
    BY <1>6, CopyKeepsContents
  <2>3. pc[t] = "copy" /\ pc'[t] = "move" /\ UNCHANGED <<op, data, len, n>>
    BY <1>01, <1>6 DEF copy, Goto
  <2>4. Received(t)' = Received(t)
    <3>1. CASE op[t] = "read"
      <4>1. PICK b, c : b = buf[t] /\ c = buf'[t]
        OBVIOUS
      <4>2. /\ b \in Seq(Bytes) /\ c \in Seq(Bytes) /\ n[t] \in Nat
            /\ Len(c) = Len(b) + n[t] /\ \A i \in 1 .. Len(b) : c[i] = b[i]
        BY <1>01, <1>6, <3>1, <4>1, CopyRead, StringsAreSeqs, PipeAssumption
      <4>3. Len(c) - n[t] = Len(b) /\ Len(b) \in 0 .. Len(c)
        BY <4>2
      <4>4. SubSeq(c, 1, Len(b)) \in Seq(Bytes) /\ Len(SubSeq(c, 1, Len(b))) = Len(b)
            /\ \A i \in 1 .. Len(b) : SubSeq(c, 1, Len(b))[i] = c[i]
        BY <4>2, <4>3, TakeIs
      <4>5. PICK r : r = SubSeq(c, 1, Len(b))
        OBVIOUS
      <4>6. r = b
        BY <4>2, <4>4, <4>5, SeqEqual
      <4> QED  BY <2>3, <3>1, <4>1, <4>3, <4>5, <4>6 DEF Received
    <3>2. CASE op[t] # "read"
      BY <1>6, <2>3, <3>2 DEF copy, Received
    <3> QED  BY <3>1, <3>2
  <2> QED  BY <1>02, <2>1, <2>2, <2>3, <2>4 DEF Same, Got
<1>7. ASSUME NEW t \in Threads, move(t) PROVE Queue!Next \/ Same
  <2>1. Others(t)
    BY <1>0, <1>7, StepIsLocal DEF Step
  <2>2. pc[t] = "move" /\ pc'[t] = "give" /\ UNCHANGED <<op, buf, n, pipe>> /\ n[t] \in Nat
    BY <1>01, <1>7, PipeAssumption DEF move, Goto
  <2>3. CASE op[t] = "read"
    <3>1. /\ n[t] \in 0 .. len[t] /\ n[t] <= Len(Contents)
          /\ Contents' = SubSeq(Contents, n[t] + 1, Len(Contents))
          /\ Received(t)' = Received(t) \o SubSeq(Contents, 1, n[t])
      BY <1>7, <2>3, MoveIsGet
    <3>2. len' = [len EXCEPT ![t] = @ - n[t]] /\ data' = data
      BY <1>7, <2>3 DEF move
    <3>3. Got' = [Got EXCEPT ![t] = @ \o SubSeq(Contents, 1, n[t])]
      BY <1>02, <2>1, <3>1 DEF Got
    <3>4. CASE n[t] > 0
      <4>1. n[t] \in 1 .. len[t]
        BY <1>01, <2>2, <3>1, <3>4, PipeAssumption
      <4>2. Queue!Get(t)
        BY <2>2, <2>3, <3>1, <3>2, <3>3, <4>1 DEF Queue!Get, Got
      <4> QED  BY <4>2 DEF Queue!Next
    <3>5. CASE n[t] = 0
      <4>1. PICK q : q = Contents
        OBVIOUS
      <4>2. q \in Seq(Bytes)
        BY <4>1 DEF ContentsShape
      <4>3. SubSeq(q, 0 + 1, Len(q)) = q
        BY <4>2
      <4>4. Contents' = Contents
        BY <3>1, <3>5, <4>1, <4>3
      <4>5. len' = len
        BY <1>01, <3>2, <3>5, PipeAssumption
      <4>6. Received(t)' = Received(t)
        <5>1. PICK b : b = buf[t]
          OBVIOUS
        <5>2. b \in Seq(Bytes)
          BY <1>01, <5>1, StringsAreSeqs
        <5>3. SubSeq(b, 1, Len(b) - 0) = b
          BY <5>2
        <5> QED  BY <2>2, <2>3, <3>5, <5>1, <5>3 DEF Received
      <4> QED  BY <1>02, <2>1, <2>2, <3>2, <4>4, <4>5, <4>6 DEF Same, Got
    <3> QED  BY <2>2, <3>4, <3>5
  <2>4. CASE op[t] = "write"
    <3>1. /\ n[t] \in 0 .. Len(data[t]) /\ Len(Contents) + n[t] <= PipeSize - 1
          /\ Contents' = Contents \o SubSeq(data[t], 1, n[t])
      BY <1>7, <2>4, MoveIsPut
    <3>2. data' = [data EXCEPT ![t] = SubSeq(@, n[t] + 1, Len(@))] /\ len' = len
      BY <1>7, <2>4 DEF move
    <3>3. Received(t)' = Received(t)
      BY <2>2, <2>4 DEF Received
    <3>4. Got' = Got
      BY <1>02, <2>1, <3>3 DEF Got
    <3>5. CASE n[t] > 0
      <4>1. n[t] \in 1 .. Len(data[t])
        BY <2>2, <3>1, <3>5
      <4>2. Queue!Put(t)
        BY <2>2, <2>4, <3>1, <3>2, <3>4, <4>1 DEF Queue!Put, Got
      <4> QED  BY <4>2 DEF Queue!Next
    <3>6. CASE n[t] = 0
      <4>1. PICK d, q : d = data[t] /\ q = Contents
        OBVIOUS
      <4>2. d \in Seq(Bytes) /\ q \in Seq(Bytes)
        BY <1>01, <4>1, StringsAreSeqs DEF ContentsShape
      <4>3. SubSeq(d, 0 + 1, Len(d)) = d /\ SubSeq(d, 1, 0) = <<>> /\ q \o <<>> = q
        BY <4>2
      <4>4. data' = data
        BY <1>01, <3>2, <3>6, <4>1, <4>3
      <4>5. Contents' = Contents
        BY <3>1, <3>6, <4>1, <4>3
      <4> QED  BY <2>2, <3>2, <3>4, <4>4, <4>5 DEF Same
    <3> QED  BY <2>2, <3>5, <3>6
  <2> QED  BY <1>01, <2>2, <2>3, <2>4 DEF IInv, CallInv
<1>8. ASSUME NEW t \in Threads, raw_spin_give(t) PROVE Same
  <2>1. Others(t)
    BY <1>0, <1>8, StepIsLocal DEF Step
  <2>2. Received(t)' = Received(t)
    BY <1>01, <1>8 DEF raw_spin_give, Goto, Received
  <2> QED  BY <1>02, <1>8, <2>1, <2>2, ContentsKept DEF raw_spin_give, Same, Got
<1>9. CASE UNCHANGED pipevars
  BY <1>9, ContentsKept DEF pipevars, Same, Got, Received
<1> QED
  BY <1>1, <1>2, <1>3, <1>4, <1>5, <1>6, <1>7, <1>8, <1>9, StopKeeps DEF Next, Step

\* PIPE_File implements the bounded queue of bytes: reads and writes that run
\* into each other lose, double, make up and reorder nothing, for any number of
\* callers and any size of the buffer.
THEOREM QueueRefinement == Spec => PipeIsQueue
<1>1. Init => Queue!Init
  <2> SUFFICES ASSUME Init PROVE Queue!Init
    OBVIOUS
  <2>1. TypeOK /\ ContentsShape /\ empty
    BY InitInv, ContentsShaped DEF IInv, Init, PIPE_File, empty
  <2>2. Contents = <<>>
    BY <2>1, FullEmpty
  <2>3. Got = [t \in Threads |-> <<>>]
    BY DEF Init, Got, Received
  <2> QED  BY <2>2, <2>3 DEF Init, Queue!Init, Got
<1>2. IInv /\ ContentsShape /\ ContentsShape' /\ [Next]_vars
         => [Queue!Next]_<<Contents, op, data, len, [t \in Threads |-> Received(t)]>>
  BY QueueStep DEF Got
<1>3. IInv => ContentsShape
  BY ContentsShaped DEF IInv
<1> QED
  BY <1>1, <1>2, <1>3, Invariance, PTL DEF Spec, PipeIsQueue, Queue!Spec, Queue!vars
=============================================================================
