------------------------ MODULE FrameAllocatorProofs ------------------------
(***************************************************************************)
(* The frame allocator keeps its three lists, its counters and the hands   *)
(* that hold a frame apart, for any memory.  The lemmas are about memories *)
(* mm, not about the variable m, so that one action can apply several      *)
(* operations.                                                             *)
(***************************************************************************)
EXTENDS FrameAllocator, Lemmas

\* The list, if any, on which frame f belongs when its state is s; the frames of
\* out, the boot page tables that were given up, belong on none while available.
Home(f, s, out) ==
    IF s \in {"KERNEL", "NORMAL"} THEN {"occupied"}
    ELSE IF s = "AVAILABLE" /\ f \in KernelMem \ out THEN {"free"}
    ELSE IF s = "AVAILABLE" /\ f \in MapMem THEN {"map"} ELSE {}

Where(st, out) == [l \in Lists |-> {f \in Frames : l \in Home(f, st[f], out)}]

\* A frame is in use for what its place in memory allows.
StatesSound(st) ==
    \A f \in Frames : /\ st[f] \in {"KERNEL", "POOL"} => f \in KernelMem
                      /\ st[f] = "NORMAL" => f \in MapMem
                      /\ st[f] = "AVAILABLE" => f \in KernelMem \cup MapMem

Counted(mm, B) ==
    /\ mm.occupied_cnt = Cardinality(B["occupied"])
    /\ mm.free_cnt >= Cardinality(B["free"]) + Cardinality(B["map"])

\* The invariant of the memory.
MemInv(mm, out) ==
    /\ mm \in Memory
    /\ ListsAre(Frames, Lists, mm, Where(mm.state, out)) /\ EndsClean(mm, "occupied")
    /\ StatesSound(mm.state)
    /\ Counted(mm, Where(mm.state, out))

-----------------------------------------------------------------------------
\* The memory is one of the lemmas about page lists.
LEMMA MemoryType == Memory = MemType(Frames, Lists, States)
BY DEF Memory, MemType, Pointers

\* What the fields of a memory are.
LEMMA MemoryIs ==
    ASSUME NEW mm \in Memory
    PROVE  /\ mm.state \in [Frames -> States] /\ mm.free_cnt \in Int /\ mm.occupied_cnt \in Int
           /\ mm.next \in Pointers(Frames) /\ mm.prev \in Pointers(Frames)
           /\ mm.head \in [Lists -> Frames \cup {NOPAGE}]
           /\ mm.tail \in [Lists -> Frames \cup {NOPAGE}]
BY DEF Memory, Pointers

\* There are finitely many frames, so the lists can be counted.
LEMMA FramesFinite == IsFiniteSet(Frames) /\ Cardinality(Frames) = NumFrames
<1>1. 0 \in Int /\ NumFrames - 1 \in Int
  BY FramesAssumption
<1>2. IsFiniteSet(0 .. NumFrames - 1)
      /\ Cardinality(0 .. NumFrames - 1) = IF 0 > NumFrames - 1 THEN 0 ELSE (NumFrames - 1) - 0 + 1
  BY <1>1, FS_Interval
<1> QED  BY <1>2, FramesAssumption DEF Frames

\* NoPage, the null pointer of the lists, is not a frame.
LEMMA NoPageNoFrame == NOPAGE \notin Frames
BY FramesAssumption DEF NOPAGE, Frames

\* pglist_push_head on a memory: list l gets a frame that was on no list.
LEMMA PushMem ==
    ASSUME NEW mm \in Memory, NEW B, ListsAre(Frames, Lists, mm, B), NEW l \in Lists, NEW f \in Frames,
           \A k \in Lists : f \notin B[k], NEW mm2, mm2 = pglist_push_head(mm, l, f)
    PROVE  /\ mm2 \in Memory /\ mm2.state = mm.state
           /\ mm2.free_cnt = mm.free_cnt /\ mm2.occupied_cnt = mm.occupied_cnt
           /\ ListBecomes(Frames, Lists, mm, mm2, B, l, B[l] \cup {f})
           /\ EndsClean(mm, l) => EndsClean(mm2, l)
<1>1. HeadPushed(Frames, Lists, States, mm, mm2, B, l, f)
  BY MemoryType, NoPageNoFrame, PushLists DEF OffLists
<1> QED  BY <1>1, MemoryType DEF HeadPushed

\* pglist_pop_tail on a memory: list l loses its last frame.
LEMMA PopMem ==
    ASSUME NEW mm \in Memory, NEW B, ListsAre(Frames, Lists, mm, B),
           NEW l \in Lists, mm.tail[l] # NOPAGE,
           NEW f, f = mm.tail[l], NEW mm2, mm2 = pglist_pop_tail(mm, l)
    PROVE  /\ mm2 \in Memory /\ mm2.state = mm.state
           /\ mm2.free_cnt = mm.free_cnt /\ mm2.occupied_cnt = mm.occupied_cnt
           /\ f \in Frames /\ f \in B[l]
           /\ ListBecomes(Frames, Lists, mm, mm2, B, l, B[l] \ {f})
<1>1. TailPopped(Frames, Lists, States, mm, mm2, B, l, f)
  BY MemoryType, NoPageNoFrame, PopLists
<1> QED  BY <1>1, MemoryType DEF TailPopped

\* pglist_remove on a memory: a list whose end is clean loses any of its frames.
LEMMA RemoveMem ==
    ASSUME NEW mm \in Memory, NEW B, ListsAre(Frames, Lists, mm, B), NEW l \in Lists, EndsClean(mm, l),
           NEW f \in B[l], NEW mm2, mm2 = pglist_remove(mm, l, f)
    PROVE  /\ mm2 \in Memory /\ mm2.state = mm.state
           /\ mm2.free_cnt = mm.free_cnt /\ mm2.occupied_cnt = mm.occupied_cnt
           /\ ListBecomes(Frames, Lists, mm, mm2, B, l, B[l] \ {f})
           /\ EndsClean(mm, l) => EndsClean(mm2, l)
<1>1. PageRemoved(Frames, Lists, States, mm, mm2, B, l, f)
  BY MemoryType, NoPageNoFrame, RemoveLists
<1> QED  BY <1>1, MemoryType DEF PageRemoved
-----------------------------------------------------------------------------
\* One frame more or less.
LEMMA CountOne ==
    ASSUME NEW S, S \subseteq Frames, NEW f \in Frames
    PROVE  /\ Cardinality(S) \in Nat
           /\ f \notin S => Cardinality(S \cup {f}) = Cardinality(S) + 1
           /\ f \in S => Cardinality(S \ {f}) = Cardinality(S) - 1
<1>1. IsFiniteSet(S)
  BY FramesFinite, FS_Subset
<1> QED  BY <1>1, FS_CardinalityType, FS_AddElement, FS_RemoveElement

\* The lists B1 are the lists B without frame f, which was on the lists of from.
Without(B, B1, f, from) ==
    \A l \in Lists : /\ f \notin B1[l] /\ B1[l] = B[l] \ {f} /\ B[l] \subseteq Frames
                     /\ f \in B[l] <=> l \in from
                     /\ l \notin from => B1[l] = B[l]
                     /\ Cardinality(B[l]) \in Nat /\ Cardinality(B1[l]) \in Nat
                     /\ l \in from => Cardinality(B1[l]) = Cardinality(B[l]) - 1

\* The lists B2 are the lists B1 with frame f on the lists of to.
With(B1, B2, f, to) ==
    \A l \in Lists : /\ l \in to => /\ B2[l] = B1[l] \cup {f}
                                    /\ Cardinality(B2[l]) = Cardinality(B1[l]) + 1
                     /\ l \notin to => B2[l] = B1[l]

\* Frame f is taken away: only the list it belonged on loses a frame.
LEMMA Leaves ==
    ASSUME NEW st, NEW out, NEW B, B = Where(st, out), NEW f \in Frames,
           NEW B1, B1 = [l \in Lists |-> B[l] \ {f}], NEW from, from = Home(f, st[f], out)
    PROVE  Without(B, B1, f, from)
<1> SUFFICES ASSUME NEW l \in Lists
             PROVE  /\ f \notin B1[l] /\ B1[l] = B[l] \ {f} /\ B[l] \subseteq Frames
                    /\ f \in B[l] <=> l \in from
                    /\ l \notin from => B1[l] = B[l]
                    /\ Cardinality(B[l]) \in Nat /\ Cardinality(B1[l]) \in Nat
                    /\ l \in from => Cardinality(B1[l]) = Cardinality(B[l]) - 1
  BY DEF Without
<1>1. /\ f \notin B1[l] /\ B1[l] = B[l] \ {f} /\ B[l] \subseteq Frames
      /\ f \in B[l] <=> l \in from
  BY DEF Where
<1>2. PICK S, S1 : S = B[l] /\ S1 = B1[l]
  OBVIOUS
<1>3. S \subseteq Frames /\ S1 \subseteq Frames /\ S1 = S \ {f}
  BY <1>1, <1>2
<1>4. Cardinality(S) \in Nat /\ Cardinality(S1) \in Nat
  BY <1>3, CountOne
<1>5. f \in S => Cardinality(S1) = Cardinality(S) - 1
  BY <1>3, CountOne
<1> QED  BY <1>1, <1>2, <1>3, <1>4, <1>5

\* The state of frame f becomes s: only the list it belongs on then gets a frame.
LEMMA Enters ==
    ASSUME NEW st \in [Frames -> States], NEW out, NEW B, B = Where(st, out), NEW f \in Frames,
           NEW B1, B1 = [l \in Lists |-> B[l] \ {f}], NEW s \in States,
           NEW st2, st2 = Store(st, f, s), NEW B2, B2 = Where(st2, out),
           NEW to, to = Home(f, s, out)
    PROVE  With(B1, B2, f, to)
<1> SUFFICES ASSUME NEW l \in Lists
             PROVE  /\ l \in to => /\ B2[l] = B1[l] \cup {f}
                                   /\ Cardinality(B2[l]) = Cardinality(B1[l]) + 1
                    /\ l \notin to => B2[l] = B1[l]
  BY DEF With
<1>1. st2[f] = s /\ \A x \in Frames \ {f} : st2[x] = st[x]
  BY DEF Store
<1>2. /\ B[l] \subseteq Frames /\ B2[l] \subseteq Frames /\ B1[l] = B[l] \ {f}
      /\ \A x \in Frames : /\ x \in B[l] <=> l \in Home(x, st[x], out)
                           /\ x \in B2[l] <=> l \in Home(x, st2[x], out)
  BY DEF Where
<1>3. PICK S1, S2 : S1 = B1[l] /\ S2 = B2[l]
  OBVIOUS
<1>4. \A x \in Frames \ {f} : x \in S2 <=> x \in S1
  BY <1>1, <1>2, <1>3
<1>5. S1 \subseteq Frames /\ S2 \subseteq Frames /\ f \notin S1
  BY <1>2, <1>3
<1>6. f \in S2 <=> l \in to
  BY <1>1, <1>2, <1>3
<1>7. f \in S2 => S2 = S1 \cup {f}
  BY <1>4, <1>5
<1>8. f \notin S2 => S2 = S1
  BY <1>4, <1>5
<1>9. f \in S2 => Cardinality(S2) = Cardinality(S1) + 1
  BY <1>5, <1>7, CountOne
<1> QED  BY <1>3, <1>6, <1>7, <1>8, <1>9

\* The states after one store.
LEMMA StatesStore ==
    ASSUME NEW st \in [Frames -> States], NEW f \in Frames, NEW s \in States
    PROVE  /\ Store(st, f, s) \in [Frames -> States] /\ Store(st, f, s)[f] = s
           /\ \A x \in Frames \ {f} : Store(st, f, s)[x] = st[x]
BY DEF Store

\* SetState changes the states, and nothing else.
LEMMA SetStateIs ==
    ASSUME NEW mm \in Memory, NEW f \in Frames, NEW s \in States,
           NEW mm2, mm2 = SetState(mm, f, s)
    PROVE  /\ mm2 \in Memory /\ mm2.next = mm.next /\ mm2.prev = mm.prev
           /\ mm2.head = mm.head /\ mm2.tail = mm.tail /\ mm2.state = Store(mm.state, f, s)
           /\ mm2.free_cnt = mm.free_cnt /\ mm2.occupied_cnt = mm.occupied_cnt
<1>1. PICK st : st = Store(mm.state, f, s)
  OBVIOUS
<1>2. st \in [Frames -> States]
  BY <1>1, MemoryIs, StatesStore
<1> QED  BY <1>1, <1>2 DEF SetState, Memory

\* What frame_alloc hands out: nothing, and the memory is as it was, or a frame that
\* was available and now has state s.
Handed(mm, a, s, out) ==
    \/ a.mem = mm /\ a.frame \in {0, NOPAGE}
    \/ /\ a.frame \in Frames \ {0} /\ mm.state[a.frame] = "AVAILABLE"
       /\ a.frame \notin out
       /\ a.mem.state[a.frame] = s
       /\ \A x \in Frames \ {a.frame} : a.mem.state[x] = mm.state[x]

\* frame_alloc: it fails and changes nothing, or hands out a frame that was free.
LEMMA AllocMem ==
    ASSUME NEW mm, NEW out, out \subseteq EarlyTables, MemInv(mm, out),
           NEW s \in {"KERNEL", "POOL", "NORMAL"},
           NEW a, a = frame_alloc(mm, s)
    PROVE  /\ MemInv(a.mem, out)
           /\ Handed(mm, a, s, out)
<1>1. PICK L, f : L = ListFor(s) /\ f = mm.tail[L]
  OBVIOUS
<1>2. CASE mm.free_cnt = 0 \/ f = NOPAGE \/ mm.state[f] # "AVAILABLE"
  <2>1. a.mem = mm /\ a.frame \in {0, NOPAGE}
    BY <1>1, <1>2 DEF frame_alloc
  <2> QED  BY <2>1 DEF Handed
<1>3. CASE ~(mm.free_cnt = 0 \/ f = NOPAGE \/ mm.state[f] # "AVAILABLE")
  <2>1. PICK B, st : st = mm.state /\ B = Where(st, out)
    OBVIOUS
  <2>2. /\ mm \in Memory /\ ListsAre(Frames, Lists, mm, B) /\ EndsClean(mm, "occupied")
        /\ StatesSound(st)
        /\ Counted(mm, B) /\ st \in [Frames -> States]
    BY <2>1, MemoryIs DEF MemInv
  <2>3. L \in {"free", "map"} /\ L \in Lists /\ "occupied" \in Lists /\ L # "occupied" /\ s \in States
        /\ (L = "map" <=> s = "NORMAL")
    BY <1>1 DEF ListFor, Lists, States
  <2>4. PICK p : p = pglist_pop_tail(mm, L)
    OBVIOUS
  <2>5. /\ p \in Memory /\ p.state = mm.state
        /\ p.free_cnt = mm.free_cnt /\ p.occupied_cnt = mm.occupied_cnt
        /\ f \in Frames /\ f \in B[L] /\ ListBecomes(Frames, Lists, mm, p, B, L, B[L] \ {f})
    BY <1>1, <1>3, <2>2, <2>3, <2>4, PopMem
  <2>6. PICK B1 : B1 = [l \in Lists |-> B[l] \ {f}]
    OBVIOUS
  <2>7. PICK from, to : from = Home(f, st[f], out) /\ to = Home(f, s, out)
    OBVIOUS
  <2>8. Without(B, B1, f, from)
    BY <2>1, <2>5, <2>6, <2>7, Leaves
  <2>9. PICK st2, B2 : st2 = Store(st, f, s) /\ B2 = Where(st2, out)
    OBVIOUS
  <2>10. With(B1, B2, f, to)
    BY <2>1, <2>2, <2>3, <2>5, <2>6, <2>7, <2>9, Enters
  <2>11. st2 \in [Frames -> States] /\ st2[f] = s /\ \A x \in Frames \ {f} : st2[x] = st[x]
    BY <2>2, <2>3, <2>5, <2>9, StatesStore
  <2>12. from = {L} /\ f \in KernelMem \cup MapMem /\ f # 0 /\ f \notin out
         /\ (f \in KernelMem => L = "free") /\ (f \in MapMem => L = "map")
    <3>1. L \in from /\ st[f] = "AVAILABLE"
      BY <1>3, <2>1, <2>3, <2>5, <2>8 DEF Without
    <3>2. L = "free" => f \in KernelMem \ out
      BY <2>3, <2>7, <3>1 DEF Home
    <3>3. L = "map" => f \in MapMem
      BY <2>3, <2>7, <3>1 DEF Home
    <3>4. from = {L}
      BY <2>3, <2>7, <3>1 DEF Home
    <3> QED  BY <2>3, <3>2, <3>3, <3>4, FramesAssumption
  <2>13. ListsAre(Frames, Lists, p, B1) /\ EndsClean(p, "occupied")
    <3>1. B1[L] = B[L] \ {f} /\ \A k \in Lists \ {L} : B1[k] = B[k]
      BY <2>3, <2>8, <2>12 DEF Without
    <3> QED  BY <2>2, <2>3, <2>5, <3>1 DEF ListBecomes
  <2>14. PICK m2 : m2 = [SetState(p, f, s) EXCEPT !.free_cnt = @ - 1]
    OBVIOUS
  <2>15. /\ m2 \in Memory /\ m2.next = p.next /\ m2.prev = p.prev /\ m2.head = p.head
         /\ m2.tail = p.tail /\ m2.state = st2 /\ m2.free_cnt = mm.free_cnt - 1
         /\ m2.occupied_cnt = mm.occupied_cnt
    <3>1. PICK m1 : m1 = SetState(p, f, s)
      OBVIOUS
    <3>2. /\ m1 \in Memory /\ m1.next = p.next /\ m1.prev = p.prev /\ m1.head = p.head
          /\ m1.tail = p.tail /\ m1.state = st2 /\ m1.free_cnt = mm.free_cnt
          /\ m1.occupied_cnt = mm.occupied_cnt
      BY <2>1, <2>5, <2>9, <2>11, <3>1, SetStateIs
    <3> QED  BY <2>14, <3>1, <3>2 DEF Memory
  <2>16. ListsAre(Frames, Lists, m2, B1) /\ EndsClean(m2, "occupied")
    BY <2>3, <2>13, <2>15, KeepLists
  <2>17. StatesSound(st2)
    BY <2>2, <2>3, <2>11, <2>12 DEF StatesSound
  <2>18. /\ Cardinality(B1["occupied"]) = mm.occupied_cnt
         /\ mm.free_cnt - 1 >= Cardinality(B1["free"]) + Cardinality(B1["map"])
    <3>1. Cardinality(B1["occupied"]) = Cardinality(B["occupied"])
      BY <2>3, <2>8, <2>12 DEF Without
    <3>2. Cardinality(B1["free"]) + Cardinality(B1["map"])
            = Cardinality(B["free"]) + Cardinality(B["map"]) - 1
      <4>1. CASE L = "free"
        <5>1. Cardinality(B1["free"]) = Cardinality(B["free"]) - 1 /\ B1["map"] = B["map"]
          BY <2>8, <2>12, <4>1 DEF Lists, Without
        <5> QED  BY <2>8, <5>1 DEF Lists, Without
      <4>2. CASE L = "map"
        <5>1. Cardinality(B1["map"]) = Cardinality(B["map"]) - 1 /\ B1["free"] = B["free"]
          BY <2>8, <2>12, <4>2 DEF Lists, Without
        <5> QED  BY <2>8, <5>1 DEF Lists, Without
      <4> QED  BY <2>3, <4>1, <4>2
    <3>3. "free" \in Lists /\ "map" \in Lists /\ mm.free_cnt \in Int
      BY <2>2, MemoryIs DEF Lists
    <3> QED  BY <2>2, <2>8, <3>1, <3>2, <3>3 DEF Counted, Without
  <2>19. CASE s = "POOL"
    <3>1. a.mem = m2 /\ a.frame = f
      BY <1>1, <1>3, <2>4, <2>14, <2>19 DEF frame_alloc
    <3>2. \A l \in Lists : B2[l] = B1[l]
      BY <2>7, <2>10, <2>19 DEF Home, With
    <3>3. ListsAre(Frames, Lists, m2, B2)
      BY <2>16, <3>2 DEF ListsAre
    <3>4. Counted(m2, B2)
      BY <2>15, <2>18, <3>2 DEF Counted, Lists
    <3>5. MemInv(m2, out)
      BY <2>9, <2>15, <2>16, <2>17, <3>3, <3>4 DEF MemInv
    <3> QED  BY <1>3, <2>1, <2>5, <2>11, <2>12, <2>15, <3>1, <3>5 DEF Handed
  <2>20. CASE s # "POOL"
    <3>1. PICK m3, m4 : /\ m3 = [m2 EXCEPT !.occupied_cnt = @ + 1]
                        /\ m4 = pglist_push_head(m3, "occupied", f)
      OBVIOUS
    <3>2. a.mem = m4 /\ a.frame = f
      BY <1>1, <1>3, <2>4, <2>14, <2>20, <3>1 DEF frame_alloc
    <3>3. /\ m3 \in Memory /\ m3.next = m2.next /\ m3.prev = m2.prev /\ m3.head = m2.head
          /\ m3.tail = m2.tail /\ m3.state = st2 /\ m3.free_cnt = mm.free_cnt - 1
          /\ m3.occupied_cnt = mm.occupied_cnt + 1
      BY <2>15, <3>1 DEF Memory
    <3>4. ListsAre(Frames, Lists, m3, B1) /\ EndsClean(m3, "occupied")
      BY <2>3, <2>16, <3>3, KeepLists
    <3>5. PICK k : k = "occupied" /\ k \in Lists
      BY <2>3
    <3>6. /\ m4 \in Memory /\ m4.state = m3.state
          /\ m4.free_cnt = m3.free_cnt /\ m4.occupied_cnt = m3.occupied_cnt
          /\ ListBecomes(Frames, Lists, m3, m4, B1, k, B1[k] \cup {f})
          /\ (EndsClean(m3, k) => EndsClean(m4, k))
      <4>1. \A l \in Lists : f \notin B1[l]
        BY <2>8 DEF Without
      <4>2. m4 = pglist_push_head(m3, k, f)
        BY <3>1, <3>5
      <4> QED  BY <2>5, <3>3, <3>4, <3>5, <4>1, <4>2, PushMem, SMTT(30)
    <3>7. to = {k}
      BY <2>7, <2>20, <3>5 DEF Home
    <3>8. /\ B2[k] = B1[k] \cup {f} /\ Cardinality(B2[k]) = Cardinality(B1[k]) + 1
          /\ \A l \in Lists \ {k} : B2[l] = B1[l]
      BY <2>10, <3>5, <3>7 DEF With
    <3>9. ListsAre(Frames, Lists, m4, B2)
      BY <3>6, <3>8 DEF ListBecomes
    <3>10. Counted(m4, B2)
      BY <2>18, <3>3, <3>5, <3>6, <3>8 DEF Counted, Lists
    <3>11. MemInv(m4, out)
      BY <2>9, <2>17, <3>3, <3>4, <3>5, <3>6, <3>9, <3>10 DEF MemInv
    <3> QED  BY <1>3, <2>1, <2>5, <2>11, <2>12, <3>2, <3>3, <3>6, <3>11 DEF Handed
  <2> QED  BY <2>19, <2>20
<1> QED  BY <1>2, <1>3

InUse == {"KERNEL", "NORMAL", "POOL"}

\* frame_release: the frame goes back to its list, or the counter just runs ahead.
LEMMA ReleaseMem ==
    ASSUME NEW mm, NEW out, out \subseteq EarlyTables, MemInv(mm, out), NEW f \in Frames,
           mm.state[f] \in InUse => f \notin out, NEW mm2, mm2 = frame_release(mm, f)
    PROVE  /\ MemInv(mm2, out)
           /\ mm2.state = IF mm.state[f] \in InUse THEN Store(mm.state, f, "AVAILABLE")
                          ELSE mm.state
<1>1. PICK B, st, s : st = mm.state /\ B = Where(st, out) /\ s = st[f]
  OBVIOUS
<1>2. /\ mm \in Memory /\ ListsAre(Frames, Lists, mm, B) /\ EndsClean(mm, "occupied") /\ StatesSound(st)
      /\ Counted(mm, B) /\ st \in [Frames -> States] /\ mm.free_cnt \in Int /\ mm.occupied_cnt \in Int
  BY <1>1, MemoryIs DEF MemInv
<1>3. CASE s \notin InUse
  <2>1. mm2 = [mm EXCEPT !.free_cnt = @ + 1]
    BY <1>1, <1>3 DEF frame_release, InUse
  <2>2. /\ mm2 \in Memory /\ mm2.next = mm.next /\ mm2.prev = mm.prev /\ mm2.head = mm.head
        /\ mm2.tail = mm.tail /\ mm2.state = mm.state /\ mm2.free_cnt = mm.free_cnt + 1
        /\ mm2.occupied_cnt = mm.occupied_cnt
    BY <1>2, <2>1 DEF Memory
  <2>3. ListsAre(Frames, Lists, mm2, B) /\ EndsClean(mm2, "occupied")
    BY <1>2, <2>2, KeepLists DEF Lists
  <2>4. Counted(mm2, B)
    <3>1. Cardinality(B["free"]) \in Nat /\ Cardinality(B["map"]) \in Nat
      <4>1. PICK B1, from : B1 = [l \in Lists |-> B[l] \ {f}] /\ from = Home(f, st[f], out)
        OBVIOUS
      <4>2. Without(B, B1, f, from)
        BY <1>1, <4>1, Leaves
      <4> QED  BY <4>2 DEF Without, Lists
    <3> QED  BY <1>2, <2>2, <3>1 DEF Counted
  <2> QED  BY <1>1, <1>2, <1>3, <2>2, <2>3, <2>4 DEF MemInv
<1>4. CASE s \in InUse
  <2>1. PICK L : L = ListFor(s)
    OBVIOUS
  <2>2. L \in {"free", "map"} /\ L \in Lists /\ "occupied" \in Lists /\ "AVAILABLE" \in States
    BY <2>1 DEF ListFor, Lists, States
  <2>3. PICK B1, from, to : /\ B1 = [l \in Lists |-> B[l] \ {f}] /\ from = Home(f, st[f], out)
                            /\ to = Home(f, "AVAILABLE", out)
    OBVIOUS
  <2>4. Without(B, B1, f, from)
    BY <1>1, <2>3, Leaves
  <2>5. PICK st2, B2 : st2 = Store(st, f, "AVAILABLE") /\ B2 = Where(st2, out)
    OBVIOUS
  <2>6. With(B1, B2, f, to)
    BY <1>1, <1>2, <2>2, <2>3, <2>5, Enters
  <2>7. /\ st2 \in [Frames -> States] /\ st2[f] = "AVAILABLE"
        /\ \A x \in Frames \ {f} : st2[x] = st[x]
    BY <1>2, <2>2, <2>5, StatesStore
  <2>8. f \in KernelMem \cup MapMem /\ to = {L}
    <3>1. CASE s = "NORMAL"
      <4>1. f \in MapMem /\ f \notin KernelMem /\ L = "map"
        BY <1>1, <1>2, <2>1, <3>1, FramesAssumption DEF StatesSound, ListFor
      <4> QED  BY <2>3, <4>1 DEF Home
    <3>2. CASE s # "NORMAL"
      <4>1. f \in KernelMem /\ f \notin out /\ L = "free"
        BY <1>1, <1>2, <1>4, <2>1, <3>2 DEF StatesSound, ListFor, InUse
      <4> QED  BY <2>3, <4>1 DEF Home
    <3> QED  BY <3>1, <3>2
  <2>9. StatesSound(st2)
    BY <1>2, <2>7, <2>8 DEF StatesSound
  <2>10. PICK m1 : m1 = IF s \in {"KERNEL", "NORMAL"}
                        THEN [pglist_remove(mm, "occupied", f) EXCEPT !.occupied_cnt = @ - 1]
                        ELSE mm
    OBVIOUS
  <2>11. /\ m1 \in Memory /\ m1.state = st /\ m1.free_cnt = mm.free_cnt
         /\ m1.occupied_cnt = Cardinality(B1["occupied"])
         /\ B1["free"] = B["free"] /\ B1["map"] = B["map"]
         /\ ListsAre(Frames, Lists, m1, B1) /\ EndsClean(m1, "occupied")
    <3>1. CASE s = "POOL"
      <4>1. m1 = mm
        BY <2>10, <3>1
      <4>2. from = {}
        BY <1>1, <2>3, <3>1 DEF Home
      <4>3. \A l \in Lists : B1[l] = B[l]
        BY <2>4, <4>2 DEF Without
      <4>4. ListsAre(Frames, Lists, mm, B1)
        BY <1>2, <4>3 DEF ListsAre
      <4> QED  BY <1>1, <1>2, <4>1, <4>3, <4>4 DEF Counted, Lists
    <3>2. CASE s # "POOL"
      <4>1. s \in {"KERNEL", "NORMAL"}
        BY <1>4, <3>2 DEF InUse
      <4>2. PICK k, p : k = "occupied" /\ k \in Lists /\ p = pglist_remove(mm, k, f)
        BY <2>2
      <4>3. m1 = [p EXCEPT !.occupied_cnt = @ - 1]
        BY <2>10, <4>1, <4>2
      <4>4. from = {k}
        BY <1>1, <2>3, <4>1, <4>2 DEF Home
      <4>5. f \in B[k] /\ B1[k] = B[k] \ {f} /\ Cardinality(B1[k]) = Cardinality(B[k]) - 1
            /\ \A l \in Lists \ {k} : B1[l] = B[l]
        BY <2>4, <4>2, <4>4 DEF Without
      <4>6. /\ p \in Memory /\ p.state = mm.state
            /\ p.free_cnt = mm.free_cnt /\ p.occupied_cnt = mm.occupied_cnt
            /\ ListBecomes(Frames, Lists, mm, p, B, k, B[k] \ {f})
            /\ (EndsClean(mm, k) => EndsClean(p, k))
        <5>1. EndsClean(mm, k)
          BY <1>2, <4>2
        <5>2. /\ mm \in Memory /\ ListsAre(Frames, Lists, mm, B) /\ k \in Lists /\ f \in B[k]
              /\ p = pglist_remove(mm, k, f)
          BY <1>2, <4>2, <4>5
        <5> QED  BY <5>1, <5>2, RemoveMem
      <4>7. ListsAre(Frames, Lists, p, B1) /\ EndsClean(p, "occupied")
        BY <1>2, <4>2, <4>5, <4>6 DEF ListBecomes
      <4>8. /\ m1 \in Memory /\ m1.next = p.next /\ m1.prev = p.prev /\ m1.head = p.head
            /\ m1.tail = p.tail /\ m1.state = st /\ m1.free_cnt = mm.free_cnt
            /\ m1.occupied_cnt = mm.occupied_cnt - 1
        BY <1>1, <4>3, <4>6 DEF Memory
      <4>9. ListsAre(Frames, Lists, m1, B1) /\ EndsClean(m1, "occupied")
        BY <2>2, <4>7, <4>8, KeepLists
      <4> QED  BY <1>2, <4>2, <4>5, <4>8, <4>9 DEF Counted, Lists
    <3> QED  BY <3>1, <3>2
  <2>12. PICK m2 : m2 = SetState(m1, f, "AVAILABLE")
    OBVIOUS
  <2>13. /\ m2 \in Memory /\ m2.next = m1.next /\ m2.prev = m1.prev /\ m2.head = m1.head
         /\ m2.tail = m1.tail /\ m2.state = st2 /\ m2.free_cnt = mm.free_cnt
         /\ m2.occupied_cnt = m1.occupied_cnt
    BY <2>2, <2>5, <2>11, <2>12, SetStateIs
  <2>14. ListsAre(Frames, Lists, m2, B1) /\ EndsClean(m2, "occupied")
    BY <2>2, <2>11, <2>13, KeepLists
  <2>15. PICK m3 : m3 = pglist_push_head(m2, L, f)
    OBVIOUS
  <2>16. /\ m3 \in Memory /\ m3.state = m2.state
         /\ m3.free_cnt = m2.free_cnt /\ m3.occupied_cnt = m2.occupied_cnt
         /\ ListBecomes(Frames, Lists, m2, m3, B1, L, B1[L] \cup {f})
         /\ (EndsClean(m2, L) => EndsClean(m3, L))
    <3>1. \A l \in Lists : f \notin B1[l]
      BY <2>4 DEF Without
    <3> QED  BY <2>2, <2>13, <2>14, <2>15, <3>1, PushMem
  <2>17. /\ B2[L] = B1[L] \cup {f} /\ Cardinality(B2[L]) = Cardinality(B1[L]) + 1
         /\ \A l \in Lists \ {L} : B2[l] = B1[l]
    BY <2>2, <2>6, <2>8 DEF With
  <2>18. ListsAre(Frames, Lists, m3, B2) /\ EndsClean(m3, "occupied")
    BY <2>2, <2>14, <2>16, <2>17 DEF ListBecomes
  <2>19. mm2 = [m3 EXCEPT !.free_cnt = @ + 1]
    BY <1>1, <1>4, <2>1, <2>10, <2>12, <2>15 DEF frame_release, InUse
  <2>20. /\ mm2 \in Memory /\ mm2.next = m3.next /\ mm2.prev = m3.prev /\ mm2.head = m3.head
         /\ mm2.tail = m3.tail /\ mm2.state = st2 /\ mm2.free_cnt = mm.free_cnt + 1
         /\ mm2.occupied_cnt = m1.occupied_cnt
    BY <2>13, <2>16, <2>19 DEF Memory
  <2>21. ListsAre(Frames, Lists, mm2, B2) /\ EndsClean(mm2, "occupied")
    BY <2>2, <2>18, <2>20, KeepLists
  <2>22. Counted(mm2, B2)
    <3>1. /\ Cardinality(B["free"]) \in Nat /\ Cardinality(B["map"]) \in Nat
          /\ "free" \in Lists /\ "map" \in Lists
      BY <2>4 DEF Without, Lists
    <3>2. Cardinality(B2["occupied"]) = Cardinality(B1["occupied"])
      BY <2>2, <2>17
    <3>3. Cardinality(B2["free"]) + Cardinality(B2["map"])
            = Cardinality(B["free"]) + Cardinality(B["map"]) + 1
      <4>1. CASE L = "free"
        <5>1. B2["map"] = B["map"] /\ Cardinality(B2["free"]) = Cardinality(B["free"]) + 1
          BY <2>11, <2>17, <3>1, <4>1
        <5> QED  BY <3>1, <5>1
      <4>2. CASE L = "map"
        <5>1. B2["free"] = B["free"] /\ Cardinality(B2["map"]) = Cardinality(B["map"]) + 1
          BY <2>11, <2>17, <3>1, <4>2
        <5> QED  BY <3>1, <5>1
      <4> QED  BY <2>2, <4>1, <4>2
    <3> QED  BY <1>2, <2>11, <2>20, <3>1, <3>2, <3>3 DEF Counted
  <2> QED  BY <1>1, <1>4, <2>5, <2>9, <2>20, <2>21, <2>22 DEF MemInv
<1> QED  BY <1>3, <1>4

\* page_init, for frame f: it gets its first state and, when available, a list.
LEMMA ScanMem ==
    ASSUME NEW mm, MemInv(mm, {}), EndsClean(mm, "free"), NEW f \in Frames, mm.state[f] = "unset",
           NEW s, s = (IF f \in Reserved THEN "RESERVE"
                       ELSE IF f \in KernelMem \cup MapMem THEN "AVAILABLE" ELSE "DMA"),
           NEW L, L = (IF f \in KernelMem THEN "free" ELSE "map"),
           NEW m1, m1 = SetState(mm, f, s),
           NEW mm2, mm2 = IF s # "AVAILABLE" THEN m1
                          ELSE pglist_push_head([m1 EXCEPT !.free_cnt = @ + 1], L, f)
    PROVE  MemInv(mm2, {}) /\ EndsClean(mm2, "free") /\ mm2.state = Store(mm.state, f, s)
<1>1. PICK B, st : st = mm.state /\ B = Where(st, {})
  OBVIOUS
<1>2. /\ mm \in Memory /\ ListsAre(Frames, Lists, mm, B) /\ EndsClean(mm, "occupied") /\ StatesSound(st)
      /\ Counted(mm, B) /\ st \in [Frames -> States] /\ mm.free_cnt \in Int /\ mm.occupied_cnt \in Int
  BY <1>1, MemoryIs DEF MemInv
<1>3. s \in States /\ L \in Lists /\ "free" \in Lists /\ "map" \in Lists /\ "occupied" \in Lists
  BY DEF States, Lists
<1>4. PICK B1, from, to : /\ B1 = [l \in Lists |-> B[l] \ {f}] /\ from = Home(f, st[f], {})
                          /\ to = Home(f, s, {})
  OBVIOUS
<1>5. Without(B, B1, f, from)
  BY <1>1, <1>4, Leaves
<1>6. PICK st2, B2 : st2 = Store(st, f, s) /\ B2 = Where(st2, {})
  OBVIOUS
<1>7. With(B1, B2, f, to)
  BY <1>1, <1>2, <1>3, <1>4, <1>6, Enters
<1>8. st2 \in [Frames -> States] /\ st2[f] = s /\ \A x \in Frames \ {f} : st2[x] = st[x]
  BY <1>2, <1>3, <1>6, StatesStore
<1>9. StatesSound(st2)
  BY <1>2, <1>8 DEF StatesSound
<1>10. /\ \A l \in Lists : B1[l] = B[l] /\ f \notin B[l]
       /\ Cardinality(B["free"]) \in Nat /\ Cardinality(B["map"]) \in Nat
  <2>1. from = {}
    BY <1>1, <1>4 DEF Home
  <2> QED  BY <1>3, <1>5, <2>1 DEF Without
<1>11. /\ m1 \in Memory /\ m1.next = mm.next /\ m1.prev = mm.prev /\ m1.head = mm.head
       /\ m1.tail = mm.tail /\ m1.state = st2 /\ m1.free_cnt = mm.free_cnt
       /\ m1.occupied_cnt = mm.occupied_cnt
  BY <1>1, <1>2, <1>3, <1>6, SetStateIs
<1>12. CASE s # "AVAILABLE"
  <2>1. \A l \in Lists : B2[l] = B[l]
    <3>1. to = {}
      BY <1>4, <1>12 DEF Home
    <3> QED  BY <1>7, <1>10, <3>1 DEF With
  <2>2. ListsAre(Frames, Lists, m1, B) /\ EndsClean(m1, "occupied") /\ EndsClean(m1, "free")
    BY <1>2, <1>3, <1>11, KeepLists
  <2>3. ListsAre(Frames, Lists, m1, B2)
    BY <2>1, <2>2 DEF ListsAre
  <2>4. Counted(m1, B2)
    BY <1>2, <1>3, <1>11, <2>1 DEF Counted
  <2> QED  BY <1>1, <1>6, <1>9, <1>11, <1>12, <2>2, <2>3, <2>4 DEF MemInv
<1>13. CASE s = "AVAILABLE"
  <2>1. PICK m2 : m2 = [m1 EXCEPT !.free_cnt = @ + 1]
    OBVIOUS
  <2>2. /\ m2 \in Memory /\ m2.next = mm.next /\ m2.prev = mm.prev /\ m2.head = mm.head
        /\ m2.tail = mm.tail /\ m2.state = st2 /\ m2.free_cnt = mm.free_cnt + 1
        /\ m2.occupied_cnt = mm.occupied_cnt
    BY <1>2, <1>11, <2>1 DEF Memory
  <2>3. ListsAre(Frames, Lists, m2, B) /\ EndsClean(m2, "occupied") /\ EndsClean(m2, "free")
    BY <1>2, <1>3, <2>2, KeepLists
  <2>4. /\ mm2 \in Memory /\ mm2.state = m2.state
        /\ mm2.free_cnt = m2.free_cnt /\ mm2.occupied_cnt = m2.occupied_cnt
        /\ ListBecomes(Frames, Lists, m2, mm2, B, L, B[L] \cup {f})
        /\ (EndsClean(m2, L) => EndsClean(mm2, L))
    <3>1. mm2 = pglist_push_head(m2, L, f)
      BY <1>13, <2>1
    <3>2. \A l \in Lists : f \notin B[l]
      BY <1>10
    <3> QED  BY <1>3, <2>2, <2>3, <3>1, <3>2, PushMem, SMTT(30)
  <2>5. to = {L}
    BY <1>4, <1>13, FramesAssumption DEF Home
  <2>6. /\ B2[L] = B[L] \cup {f} /\ Cardinality(B2[L]) = Cardinality(B[L]) + 1
        /\ \A l \in Lists \ {L} : B2[l] = B[l]
    BY <1>3, <1>7, <1>10, <2>5 DEF With
  <2>7. ListsAre(Frames, Lists, mm2, B2) /\ EndsClean(mm2, "occupied") /\ EndsClean(mm2, "free")
    BY <1>3, <2>3, <2>4, <2>6 DEF ListBecomes
  <2>8. Counted(mm2, B2)
    <3>1. L = "free" \/ L = "map"
      OBVIOUS
    <3>2. L # "occupied" /\ Cardinality(B2["occupied"]) = Cardinality(B["occupied"])
      BY <1>3, <2>6, <3>1
    <3>3. CASE L = "free"
      <4>1. B2["map"] = B["map"] /\ Cardinality(B2["free"]) = Cardinality(B["free"]) + 1
        BY <1>3, <2>6, <3>3
      <4>2. mm2.free_cnt = mm.free_cnt + 1 /\ mm2.occupied_cnt = mm.occupied_cnt
        BY <2>2, <2>4
      <4> QED  BY <1>2, <1>10, <3>2, <4>1, <4>2 DEF Counted
    <3>4. CASE L = "map"
      <4>1. B2["free"] = B["free"] /\ Cardinality(B2["map"]) = Cardinality(B["map"]) + 1
        BY <1>3, <2>6, <3>4
      <4>2. mm2.free_cnt = mm.free_cnt + 1 /\ mm2.occupied_cnt = mm.occupied_cnt
        BY <2>2, <2>4
      <4> QED  BY <1>2, <1>10, <3>2, <4>1, <4>2 DEF Counted
    <3> QED  BY <3>1, <3>3, <3>4
  <2> QED  BY <1>1, <1>6, <1>9, <2>2, <2>4, <2>7, <2>8 DEF MemInv
<1> QED  BY <1>12, <1>13

\* rebuild_kernel_page, for frame f of the image: it becomes occupied.
LEMMA ImageMem ==
    ASSUME NEW mm, MemInv(mm, {}), EndsClean(mm, "free"), NEW f \in KernelMem,
           mm.state[f] = "AVAILABLE",
           NEW mm2, mm2 = [pglist_push_head(
                               pglist_remove(SetState(mm, f, "KERNEL"), "free", f), "occupied", f)
                           EXCEPT !.free_cnt = @ - 1, !.occupied_cnt = @ + 1]
    PROVE  MemInv(mm2, {}) /\ EndsClean(mm2, "free") /\ mm2.state = Store(mm.state, f, "KERNEL")
<1>1. PICK B, st, fr, oc : /\ st = mm.state /\ B = Where(st, {})
                           /\ fr = "free" /\ oc = "occupied"
  OBVIOUS
<1>2. /\ mm \in Memory /\ ListsAre(Frames, Lists, mm, B) /\ EndsClean(mm, oc) /\ EndsClean(mm, fr)
      /\ StatesSound(st)
      /\ Counted(mm, B) /\ st \in [Frames -> States] /\ mm.free_cnt \in Int /\ mm.occupied_cnt \in Int
  BY <1>1, MemoryIs DEF MemInv
<1>3. /\ f \in Frames /\ "KERNEL" \in States /\ fr \in Lists /\ oc \in Lists /\ fr # oc
      /\ "map" \in Lists /\ f \notin MapMem
  BY <1>1, FramesAssumption DEF States, Lists
<1>4. PICK B1, from, to : /\ B1 = [l \in Lists |-> B[l] \ {f}] /\ from = Home(f, st[f], {})
                          /\ to = Home(f, "KERNEL", {})
  OBVIOUS
<1>5. Without(B, B1, f, from)
  BY <1>1, <1>3, <1>4, Leaves
<1>6. PICK st2, B2 : st2 = Store(st, f, "KERNEL") /\ B2 = Where(st2, {})
  OBVIOUS
<1>7. With(B1, B2, f, to)
  BY <1>1, <1>2, <1>3, <1>4, <1>6, Enters
<1>8. st2 \in [Frames -> States] /\ st2[f] = "KERNEL" /\ \A x \in Frames \ {f} : st2[x] = st[x]
  BY <1>2, <1>3, <1>6, StatesStore
<1>9. StatesSound(st2)
  BY <1>2, <1>8 DEF StatesSound
<1>10. from = {fr} /\ to = {oc}
  BY <1>1, <1>4 DEF Home
<1>11. PICK m1, m2, m3 : /\ m1 = SetState(mm, f, "KERNEL") /\ m2 = pglist_remove(m1, fr, f)
                         /\ m3 = pglist_push_head(m2, oc, f)
  OBVIOUS
<1>12. /\ m1 \in Memory /\ m1.next = mm.next /\ m1.prev = mm.prev /\ m1.head = mm.head
       /\ m1.tail = mm.tail /\ m1.state = st2 /\ m1.free_cnt = mm.free_cnt
       /\ m1.occupied_cnt = mm.occupied_cnt
  BY <1>1, <1>2, <1>3, <1>6, <1>11, SetStateIs
<1>13. ListsAre(Frames, Lists, m1, B) /\ EndsClean(m1, oc) /\ EndsClean(m1, fr)
  BY <1>2, <1>3, <1>12, KeepLists
<1>14. /\ f \in B[fr] /\ B1[fr] = B[fr] \ {f} /\ Cardinality(B1[fr]) = Cardinality(B[fr]) - 1
       /\ \A l \in Lists \ {fr} : B1[l] = B[l]
       /\ \A l \in Lists : f \notin B1[l] /\ Cardinality(B[l]) \in Nat
  BY <1>3, <1>5, <1>10 DEF Without
<1>15. /\ m2 \in Memory /\ m2.state = m1.state
       /\ m2.free_cnt = m1.free_cnt /\ m2.occupied_cnt = m1.occupied_cnt
       /\ ListBecomes(Frames, Lists, m1, m2, B, fr, B[fr] \ {f})
       /\ (EndsClean(m1, fr) => EndsClean(m2, fr))
  BY <1>3, <1>11, <1>12, <1>13, <1>14, RemoveMem
<1>16. ListsAre(Frames, Lists, m2, B1) /\ EndsClean(m2, oc) /\ EndsClean(m2, fr)
  BY <1>3, <1>13, <1>14, <1>15 DEF ListBecomes
<1>17. /\ m3 \in Memory /\ m3.state = m2.state
       /\ m3.free_cnt = m2.free_cnt /\ m3.occupied_cnt = m2.occupied_cnt
       /\ ListBecomes(Frames, Lists, m2, m3, B1, oc, B1[oc] \cup {f})
       /\ (EndsClean(m2, oc) => EndsClean(m3, oc))
  <2>1. \A l \in Lists : f \notin B1[l]
    BY <1>14
  <2> QED  BY <1>3, <1>11, <1>15, <1>16, <2>1, PushMem, SMTT(30)
<1>18. /\ B2[oc] = B1[oc] \cup {f} /\ Cardinality(B2[oc]) = Cardinality(B1[oc]) + 1
       /\ \A l \in Lists \ {oc} : B2[l] = B1[l]
  BY <1>3, <1>7, <1>10 DEF With
<1>19. ListsAre(Frames, Lists, m3, B2) /\ EndsClean(m3, oc) /\ EndsClean(m3, fr)
  BY <1>3, <1>16, <1>17, <1>18 DEF ListBecomes
<1>20. mm2 = [m3 EXCEPT !.free_cnt = @ - 1, !.occupied_cnt = @ + 1]
  BY <1>1, <1>11
<1>21. /\ mm2 \in Memory /\ mm2.next = m3.next /\ mm2.prev = m3.prev /\ mm2.head = m3.head
       /\ mm2.tail = m3.tail /\ mm2.state = st2 /\ mm2.free_cnt = mm.free_cnt - 1
       /\ mm2.occupied_cnt = mm.occupied_cnt + 1
  <2>1. PICK c, d : c = m3.free_cnt - 1 /\ d = m3.occupied_cnt + 1
    OBVIOUS
  <2>2. /\ m3 \in Memory /\ m3.state = st2 /\ c = mm.free_cnt - 1 /\ d = mm.occupied_cnt + 1
        /\ c \in Int /\ d \in Int
    BY <1>2, <1>12, <1>15, <1>17, <2>1
  <2>3. mm2 = [m3 EXCEPT !.free_cnt = c, !.occupied_cnt = d]
    BY <1>20, <2>1
  <2> QED  BY <2>2, <2>3 DEF Memory
<1>22. ListsAre(Frames, Lists, mm2, B2) /\ EndsClean(mm2, oc) /\ EndsClean(mm2, fr)
  <2>1. /\ mm2.next = m3.next /\ mm2.prev = m3.prev
        /\ mm2.head = m3.head /\ mm2.tail = m3.tail
    BY <1>21
  <2>2. /\ \A BB : ListsAre(Frames, Lists, m3, BB) => ListsAre(Frames, Lists, mm2, BB)
        /\ \A l \in Lists : EndsClean(m3, l) => EndsClean(mm2, l)
    BY <2>1 DEF ListsAre, ListIs, EndsClean
  <2> QED  BY <1>3, <1>19, <2>2
<1>23. Counted(mm2, B2)
  <2>1. Cardinality(B2[oc]) = Cardinality(B[oc]) + 1
    BY <1>3, <1>14, <1>18
  <2>2. Cardinality(B2[fr]) = Cardinality(B[fr]) - 1 /\ B2["map"] = B["map"]
    BY <1>1, <1>3, <1>14, <1>18
  <2>3. Cardinality(B[fr]) \in Nat /\ Cardinality(B["map"]) \in Nat
    BY <1>3, <1>14
  <2> QED  BY <1>1, <1>2, <1>21, <2>1, <2>2, <2>3 DEF Counted
<1> QED  BY <1>1, <1>6, <1>9, <1>21, <1>22, <1>23 DEF MemInv

\* The end of rebuild_kernel_page, for frame f of the boot page tables: it leaves the
\* list of occupied frames and belongs on no list from then on.
LEMMA EarlyMem ==
    ASSUME NEW mm, MemInv(mm, EarlyTables), NEW f \in EarlyTables, mm.state[f] = "KERNEL",
           NEW mm2, mm2 = [SetState(pglist_remove(mm, "occupied", f), f, "AVAILABLE")
                           EXCEPT !.occupied_cnt = @ - 1]
    PROVE  MemInv(mm2, EarlyTables) /\ mm2.state = Store(mm.state, f, "AVAILABLE")
<1>1. PICK B, st, oc : st = mm.state /\ B = Where(st, EarlyTables) /\ oc = "occupied"
  OBVIOUS
<1>2. /\ mm \in Memory /\ ListsAre(Frames, Lists, mm, B) /\ EndsClean(mm, oc) /\ StatesSound(st)
      /\ Counted(mm, B) /\ st \in [Frames -> States] /\ mm.free_cnt \in Int /\ mm.occupied_cnt \in Int
  BY <1>1, MemoryIs DEF MemInv
<1>3. /\ f \in Frames /\ "AVAILABLE" \in States /\ oc \in Lists /\ oc # "free" /\ oc # "map"
      /\ "map" \in Lists /\ "free" \in Lists /\ f \notin MapMem /\ f \in KernelMem
  BY <1>1, FramesAssumption DEF States, Lists
<1>4. PICK B1, from, to : /\ B1 = [l \in Lists |-> B[l] \ {f}]
                          /\ from = Home(f, st[f], EarlyTables)
                          /\ to = Home(f, "AVAILABLE", EarlyTables)
  OBVIOUS
<1>5. Without(B, B1, f, from)
  BY <1>1, <1>3, <1>4, Leaves
<1>6. PICK st2, B2 : st2 = Store(st, f, "AVAILABLE") /\ B2 = Where(st2, EarlyTables)
  OBVIOUS
<1>7. With(B1, B2, f, to)
  BY <1>1, <1>2, <1>3, <1>4, <1>6, Enters
<1>8. st2 \in [Frames -> States] /\ st2[f] = "AVAILABLE" /\ \A x \in Frames \ {f} : st2[x] = st[x]
  BY <1>2, <1>3, <1>6, StatesStore
<1>9. StatesSound(st2)
  BY <1>2, <1>3, <1>8 DEF StatesSound
<1>10. from = {oc} /\ to = {}
  BY <1>1, <1>3, <1>4 DEF Home
<1>11. PICK m1, m2 : m1 = pglist_remove(mm, oc, f) /\ m2 = SetState(m1, f, "AVAILABLE")
  OBVIOUS
<1>12. /\ f \in B[oc] /\ B1[oc] = B[oc] \ {f} /\ Cardinality(B1[oc]) = Cardinality(B[oc]) - 1
       /\ \A l \in Lists \ {oc} : B1[l] = B[l]
  BY <1>3, <1>5, <1>10 DEF Without
<1>13. /\ m1 \in Memory /\ m1.state = mm.state
       /\ m1.free_cnt = mm.free_cnt /\ m1.occupied_cnt = mm.occupied_cnt
       /\ ListBecomes(Frames, Lists, mm, m1, B, oc, B[oc] \ {f})
       /\ (EndsClean(mm, oc) => EndsClean(m1, oc))
  BY <1>2, <1>3, <1>11, <1>12, RemoveMem
<1>14. \A l \in Lists : B2[l] = B1[l]
  BY <1>7, <1>10 DEF With
<1>15. ListsAre(Frames, Lists, m1, B2) /\ EndsClean(m1, oc)
  BY <1>2, <1>3, <1>12, <1>13, <1>14 DEF ListBecomes
<1>16. /\ m2 \in Memory /\ m2.next = m1.next /\ m2.prev = m1.prev /\ m2.head = m1.head
       /\ m2.tail = m1.tail /\ m2.state = st2 /\ m2.free_cnt = mm.free_cnt
       /\ m2.occupied_cnt = mm.occupied_cnt
  BY <1>1, <1>3, <1>6, <1>11, <1>13, SetStateIs
<1>17. mm2 = [m2 EXCEPT !.occupied_cnt = @ - 1]
  BY <1>1, <1>11
<1>18. /\ mm2 \in Memory /\ mm2.next = m1.next /\ mm2.prev = m1.prev /\ mm2.head = m1.head
       /\ mm2.tail = m1.tail /\ mm2.state = st2 /\ mm2.free_cnt = mm.free_cnt
       /\ mm2.occupied_cnt = mm.occupied_cnt - 1
  BY <1>2, <1>16, <1>17 DEF Memory
<1>19. ListsAre(Frames, Lists, mm2, B2) /\ EndsClean(mm2, oc)
  <2>1. /\ mm2.next = m1.next /\ mm2.prev = m1.prev
        /\ mm2.head = m1.head /\ mm2.tail = m1.tail
    BY <1>18
  <2>2. /\ \A BB : ListsAre(Frames, Lists, m1, BB) => ListsAre(Frames, Lists, mm2, BB)
        /\ \A l \in Lists : EndsClean(m1, l) => EndsClean(mm2, l)
    BY <2>1 DEF ListsAre, ListIs, EndsClean
  <2> QED  BY <1>3, <1>15, <2>2
<1>20. Counted(mm2, B2)
  <2>1. Cardinality(B2[oc]) = Cardinality(B[oc]) - 1
    BY <1>3, <1>12, <1>14
  <2>2. B2["free"] = B["free"] /\ B2["map"] = B["map"]
    BY <1>3, <1>12, <1>14
  <2> QED  BY <1>1, <1>2, <1>18, <2>1, <2>2 DEF Counted
<1> QED  BY <1>1, <1>6, <1>9, <1>18, <1>19, <1>20 DEF MemInv

-----------------------------------------------------------------------------
\* The boot page tables, once they are being given up.
Out == IF Released THEN EarlyTables ELSE {}

\* How far each phase of the boot has come.
ScanInv == boot.phase = "scan" =>
    \A f \in Frames : /\ f >= boot.at => m.state[f] = "unset"
                      /\ f < boot.at /\ f \in KernelMem \cup MapMem => m.state[f] = "AVAILABLE"
ImageInv == boot.phase = "image" =>
    \A f \in Image : /\ f >= boot.at => m.state[f] = "AVAILABLE"
                     /\ f < boot.at => m.state[f] = "KERNEL"
TablesInv == boot.phase = "tables" => \A f \in Image : m.state[f] = "KERNEL"
EarlyInv == boot.phase = "early" =>
    \A f \in EarlyTables : /\ f >= boot.at => m.state[f] = "KERNEL"
                           /\ f < boot.at => m.state[f] = "AVAILABLE"
DoneInv == boot.phase = "done" => \A f \in EarlyTables : m.state[f] = "AVAILABLE"

\* Nobody holds a frame before the end of the boot, and the first page tables are
\* not where the kernel image is.
BootHands ==
    /\ boot.phase # "done" => tables \cap Image = {} /\ \A f \in Frames : held[f] = 0
    /\ boot.phase \in {"scan", "image"} => tables = {} /\ EndsClean(m, "free")

BootInv == ScanInv /\ ImageInv /\ TablesInv /\ EarlyInv /\ DoneInv /\ BootHands

IInv == TypeOK /\ MemInv(m, Out) /\ BootInv /\ NoDoubleUse

-----------------------------------------------------------------------------
\* The frames of the image and of the boot page tables are kernel frames, and frame
\* numbers are natural numbers below mem_frame_cnt.
LEMMA ImageFrames ==
    /\ Image \subseteq Frames \ {0} /\ EarlyTables \subseteq Image
    /\ EarlyTables \subseteq KernelMem /\ Image \subseteq KernelMem
    /\ \A f \in Frames : f \in Nat /\ f < NumFrames
    /\ NumFrames \in Nat
BY FramesAssumption DEF Frames

\* When the loop over S finds no next frame it has visited all of them.
LEMMA NextInEmpty ==
    ASSUME NEW S, S \subseteq Frames, NextIn(S) = {}, boot.at \in Nat
    PROVE  \A x \in S : x < boot.at
<1> SUFFICES ASSUME NEW x \in S, ~(x < boot.at) PROVE FALSE
  OBVIOUS
<1> DEFINE D == {y \in S : y >= boot.at}
<1>1. D \subseteq Nat /\ x \in D
  BY ImageFrames
<1>2. PICK d \in D : \A e \in D : d <= e
  <2>1. D # {}
    BY <1>1
  <2> HIDE DEF D
  <2> QED  BY <1>1, <2>1, LeastNat
<1>3. d \in NextIn(S)
  BY <1>2 DEF NextIn
<1> QED  BY <1>3

\* The state before page_init runs satisfies the inductive invariant.
LEMMA InitInv == Init => IInv
<1> SUFFICES ASSUME Init PROVE IInv
  OBVIOUS
<1>1. /\ m.state = [f \in Frames |-> "unset"] /\ m.next = [f \in Frames |-> NOPAGE]
      /\ m.prev = [f \in Frames |-> NOPAGE] /\ m.head = [l \in Lists |-> NOPAGE]
      /\ m.tail = [l \in Lists |-> NOPAGE] /\ m.free_cnt = 0 /\ m.occupied_cnt = 0
      /\ m \in Memory
  BY DEF Init, Memory, States
<1>2. TypeOK
  <2>1. /\ boot \in [phase : {"scan", "image", "tables", "early", "done"}, at : Nat]
        /\ boot.phase = "scan" /\ boot.at = 0 /\ 0 <= NumFrames
    BY FramesAssumption DEF Init
  <2>2. held \in [Frames -> Nat] /\ tables \subseteq Frames /\ halted \in BOOLEAN
    BY DEF Init
  <2> QED  BY <1>1, <2>1, <2>2 DEF TypeOK
<1>3. PICK B : B = Where(m.state, {})
  OBVIOUS
<1>4. \A l \in Lists : B[l] = {}
  <2>1. \A f \in Frames : Home(f, m.state[f], {}) = {}
    BY <1>1 DEF Home
  <2> QED  BY <1>3, <2>1 DEF Where
<1>5. ListsAre(Frames, Lists, m, B)
  <2>1. ASSUME NEW l \in Lists PROVE ListIs(Frames, m, l, B[l])
    <3>1. /\ <<>> \in Seq(Frames) /\ NoRepeat(<<>>) /\ Len(<<>>) = 0 /\ Range(<<>>) = {}
      BY DEF NoRepeat, Range
    <3>2. Chain(Frames, m.next, m.prev, m.head[l], m.tail[l], <<>>)
      BY <1>1, <3>1 DEF Chain
    <3> QED  BY <1>4, <3>1, <3>2 DEF ListIs
  <2> QED  BY <1>4, <2>1 DEF ListsAre
<1>6. \A l \in Lists : EndsClean(m, l)
  BY <1>1 DEF EndsClean, CleanEnd
<1>7. Counted(m, B)
  BY <1>1, <1>4, FS_EmptySet DEF Counted, Lists
<1>8. Out = {} /\ boot.phase = "scan"
  BY DEF Init, Out, Released
<1>9. MemInv(m, Out)
  BY <1>1, <1>3, <1>5, <1>6, <1>7, <1>8 DEF MemInv, StatesSound, Lists
<1>10. BootInv
  BY <1>1, <1>6, <1>8, ImageFrames
     DEF Init, BootInv, ScanInv, ImageInv, TablesInv, EarlyInv, DoneInv, BootHands, Lists
<1>11. NoDoubleUse
  BY <1>1 DEF Init, NoDoubleUse
<1> QED  BY <1>2, <1>9, <1>10, <1>11 DEF IInv

\* page_init's scan of the memory map keeps the invariant: each frame goes to one list.
LEMMA ScanStep == ASSUME IInv, page_init PROVE IInv'
<1>1. /\ boot.phase = "scan" /\ boot.at < NumFrames /\ boot.at \in Nat
      /\ UNCHANGED <<held, tables, halted>>
  BY DEF page_init, Scanning, IInv, TypeOK
<1>2. boot'.phase = "scan" /\ boot'.at = boot.at + 1 /\ boot' \in [phase : {"scan"}, at : Nat]
  BY <1>1 DEF page_init, IInv, TypeOK
<1>3. Out = {} /\ Out' = {}
  BY <1>1, <1>2 DEF Out, Released
<1>4. PICK f \in Frames : f = boot.at
  BY <1>1, ImageFrames DEF Frames
<1>5. PICK s, L : /\ s = (IF f \in Reserved THEN "RESERVE"
                       ELSE IF f \in KernelMem \cup MapMem THEN "AVAILABLE" ELSE "DMA")
                  /\ L = (IF f \in KernelMem THEN "free" ELSE "map")
  OBVIOUS
<1>6. PICK m1, mm, mm2 : /\ mm = m /\ mm2 = m' /\ m1 = SetState(mm, f, s)
  OBVIOUS
<1>7. mm2 = IF s # "AVAILABLE" THEN m1
            ELSE pglist_push_head([m1 EXCEPT !.free_cnt = @ + 1], L, f)
  BY <1>4, <1>5, <1>6 DEF page_init
<1>8. MemInv(mm, {}) /\ EndsClean(mm, "free") /\ mm.state[f] = "unset"
  BY <1>1, <1>3, <1>4, <1>6 DEF IInv, BootInv, BootHands, ScanInv
<1>9. MemInv(mm2, {}) /\ EndsClean(mm2, "free") /\ mm2.state = Store(mm.state, f, s)
  BY <1>5, <1>6, <1>7, <1>8, ScanMem
<1>10. s \in States /\ mm.state \in [Frames -> States] /\ mm2 \in Memory
  BY <1>5, <1>8, <1>9, MemoryIs DEF MemInv, States
<1>11. mm2.state[f] = s /\ \A x \in Frames \ {f} : mm2.state[x] = mm.state[x]
  BY <1>9, <1>10, StatesStore
<1>12. TypeOK'
  <2>1. /\ boot' \in [phase : {"scan", "image", "tables", "early", "done"}, at : Nat]
        /\ boot'.at <= NumFrames
    BY <1>1, <1>2, ImageFrames
  <2> QED  BY <1>1, <1>2, <1>6, <1>10, <2>1 DEF IInv, TypeOK
<1>13. ScanInv'
  <2>1. ASSUME NEW x \in Frames, x >= boot.at + 1 PROVE mm2.state[x] = "unset"
    BY <1>1, <1>4, <1>6, <1>11, <2>1, ImageFrames DEF IInv, BootInv, ScanInv
  <2>2. ASSUME NEW x \in Frames, x < boot.at + 1, x \in KernelMem \cup MapMem
        PROVE  mm2.state[x] = "AVAILABLE"
    <3>1. CASE x = f
      BY <1>5, <1>11, <2>2, <3>1, FramesAssumption
    <3>2. CASE x # f
      BY <1>1, <1>4, <1>6, <1>11, <2>2, <3>2, ImageFrames DEF IInv, BootInv, ScanInv
    <3> QED  BY <3>1, <3>2
  <2> QED  BY <1>2, <1>6, <2>1, <2>2 DEF ScanInv
<1>14. BootHands'
  BY <1>1, <1>2, <1>6, <1>9 DEF IInv, BootInv, BootHands
<1>15. BootInv'
  BY <1>2, <1>13, <1>14 DEF BootInv, ImageInv, TablesInv, EarlyInv, DoneInv
<1>16. NoDoubleUse'
  BY <1>1, <1>2, <1>14 DEF BootHands, NoDoubleUse
<1>17. MemInv(m, Out)'
  BY <1>3, <1>6, <1>9
<1> QED  BY <1>12, <1>15, <1>16, <1>17 DEF IInv

\* The types of everything, from their parts.
LEMMA TypeStep ==
    ASSUME TypeOK, m' \in Memory, UNCHANGED <<held, tables>>, halted' \in BOOLEAN,
           boot'.phase \in {"scan", "image", "tables", "early", "done"}, boot'.at \in Nat,
           boot' = [phase |-> boot'.phase, at |-> boot'.at],
           boot'.phase = "tables" => boot'.at <= BootTables,
           boot'.phase # "tables" => boot'.at <= NumFrames
    PROVE  TypeOK'
<1>1. boot' \in [phase : {"scan", "image", "tables", "early", "done"}, at : Nat]
  <2>1. PICK b, p, a : b = boot' /\ p = boot'.phase /\ a = boot'.at
    OBVIOUS
  <2>2. b = [phase |-> p, at |-> a]
        /\ p \in {"scan", "image", "tables", "early", "done"} /\ a \in Nat
    BY <2>1
  <2>3. b \in [phase : {"scan", "image", "tables", "early", "done"}, at : Nat]
    BY <2>2
  <2> QED  BY <2>1, <2>3
<1> QED  BY <1>1 DEF TypeOK

\* From one phase to the next.
LEMMA PhaseStep ==
    ASSUME IInv, NEW from, NEW to, NextPhase(from, to, 0),
           \/ from = "scan" /\ to = "image" /\ boot.at = NumFrames
           \/ from = "image" /\ to = "tables" /\ NextIn(Image) = {}
           \/ from = "tables" /\ to = "early"
           \/ from = "early" /\ to = "done" /\ NextIn(EarlyTables) = {}
    PROVE  IInv'
<1>1. boot.phase = from /\ boot' = [phase |-> to, at |-> 0] /\ UNCHANGED <<m, held, tables, halted>>
  BY DEF NextPhase, Scanning
<1>2. boot'.phase = to /\ boot'.at = 0
  BY <1>1
<1>3. boot.at \in Nat /\ m \in Memory /\ TypeOK /\ halted \in BOOLEAN /\ NumFrames \in Nat
      /\ BootTables \in Nat
  BY FramesAssumption DEF IInv, TypeOK
<1>4. TypeOK'
  BY <1>1, <1>2, <1>3, TypeStep
<1>5. NoDoubleUse'
  BY <1>1 DEF IInv, NoDoubleUse
<1>6. BootHands'
  BY <1>1, <1>2 DEF IInv, BootInv, BootHands, EndsClean
<1>7. ScanInv'
  BY <1>2 DEF ScanInv
<1>8. ImageInv'
  <2> SUFFICES ASSUME to = "image"
               PROVE  \A f \in Image : /\ f >= 0 => m.state[f] = "AVAILABLE"
                                       /\ f < 0 => m.state[f] = "KERNEL"
    BY <1>1, <1>2 DEF ImageInv
  <2>1. boot.phase = "scan" /\ boot.at = NumFrames
    BY <1>1
  <2>2. \A f \in Image : m.state[f] = "AVAILABLE" /\ ~(f < 0)
    BY <2>1, ImageFrames DEF IInv, BootInv, ScanInv
  <2> QED  BY <2>2
<1>9. TablesInv'
  <2> SUFFICES ASSUME to = "tables" PROVE \A f \in Image : m.state[f] = "KERNEL"
    BY <1>1, <1>2 DEF TablesInv
  <2>1. boot.phase = "image" /\ NextIn(Image) = {}
    BY <1>1
  <2>2. \A f \in Image : f < boot.at
    BY <1>3, <2>1, ImageFrames, NextInEmpty
  <2> QED  BY <2>1, <2>2 DEF IInv, BootInv, ImageInv
<1>10. EarlyInv'
  <2> SUFFICES ASSUME to = "early"
               PROVE  \A f \in EarlyTables : /\ f >= 0 => m.state[f] = "KERNEL"
                                             /\ f < 0 => m.state[f] = "AVAILABLE"
    BY <1>1, <1>2 DEF EarlyInv
  <2>1. boot.phase = "tables"
    BY <1>1
  <2> QED  BY <2>1, ImageFrames DEF IInv, BootInv, TablesInv
<1>11. DoneInv'
  <2> SUFFICES ASSUME to = "done" PROVE \A f \in EarlyTables : m.state[f] = "AVAILABLE"
    BY <1>1, <1>2 DEF DoneInv
  <2>1. boot.phase = "early" /\ NextIn(EarlyTables) = {}
    BY <1>1
  <2>2. \A f \in EarlyTables : f < boot.at
    BY <1>3, <2>1, ImageFrames, NextInEmpty
  <2> QED  BY <2>1, <2>2 DEF IInv, BootInv, EarlyInv
<1>12. MemInv(m, Out)'
  <2>1. CASE to = "early"
    <3>1. boot.phase = "tables" /\ Out = {} /\ Out' = EarlyTables
      BY <1>1, <1>2, <2>1 DEF Out, Released
    <3>2. \A f \in EarlyTables : m.state[f] = "KERNEL"
      BY <3>1, ImageFrames DEF IInv, BootInv, TablesInv
    <3>3. \A f \in Frames : Home(f, m.state[f], {}) = Home(f, m.state[f], EarlyTables)
      BY <3>2 DEF Home
    <3>4. Where(m.state, {}) = Where(m.state, EarlyTables)
      BY <3>3 DEF Where
    <3>5. MemInv(m, {})
      BY <3>1 DEF IInv
    <3>6. MemInv(m, EarlyTables)
      BY <3>4, <3>5 DEF MemInv
    <3> QED  BY <1>1, <3>1, <3>6
  <2>2. CASE to # "early"
    <3>1. Out' = Out
      BY <1>1, <1>2, <2>2 DEF Out, Released
    <3> QED  BY <1>1, <3>1 DEF IInv
  <2> QED  BY <2>1, <2>2
<1> QED  BY <1>4, <1>5, <1>6, <1>7, <1>8, <1>9, <1>10, <1>11, <1>12 DEF IInv, BootInv

\* rebuild_kernel_page keeps the invariant while it moves the frames of the kernel image
\* from the free to the occupied list.
LEMMA ImageStep == ASSUME IInv, reserve_image PROVE IInv'
<1>1. CASE boot.at = NumFrames /\ NextPhase("scan", "image", 0)
  BY <1>1, PhaseStep
<1>2. CASE ~(boot.at = NumFrames /\ NextPhase("scan", "image", 0))
  <2>1. PICK f \in NextIn(Image) :
          /\ boot.phase = "image" /\ boot' = [boot EXCEPT !.at = f + 1]
          /\ UNCHANGED <<held, tables, halted>>
          /\ m' = [pglist_push_head(pglist_remove(SetState(m, f, "KERNEL"), "free", f), "occupied", f)
                   EXCEPT !.free_cnt = @ - 1, !.occupied_cnt = @ + 1]
    BY <1>2 DEF reserve_image, Scanning
  <2>2. /\ boot.at \in Nat /\ TypeOK /\ halted \in BOOLEAN
        /\ f \in Image /\ f \in Frames /\ f \in KernelMem /\ f \in Nat /\ f < NumFrames
        /\ f >= boot.at /\ \A g \in Image : g >= boot.at => f <= g
    BY <2>1, ImageFrames DEF IInv, TypeOK, NextIn
  <2>3. boot'.phase = "image" /\ boot'.at = f + 1 /\ boot' = [phase |-> boot'.phase, at |-> boot'.at]
    BY <2>1, <2>2 DEF TypeOK
  <2>4. PICK mm, mm2 : mm = m /\ mm2 = m'
    OBVIOUS
  <2>5. Out = {} /\ Out' = {}
    BY <2>1, <2>3 DEF Out, Released
  <2>6. MemInv(mm, {}) /\ EndsClean(mm, "free") /\ mm.state[f] = "AVAILABLE"
    BY <2>1, <2>2, <2>4, <2>5 DEF IInv, BootInv, BootHands, ImageInv
  <2>7. MemInv(mm2, {}) /\ EndsClean(mm2, "free") /\ mm2.state = Store(mm.state, f, "KERNEL")
    BY <2>1, <2>2, <2>4, <2>6, ImageMem
  <2>8. mm.state \in [Frames -> States] /\ "KERNEL" \in States /\ mm2 \in Memory
    BY <2>6, <2>7, MemoryIs DEF MemInv, States
  <2>9. mm2.state[f] = "KERNEL" /\ \A x \in Frames \ {f} : mm2.state[x] = mm.state[x]
    BY <2>2, <2>7, <2>8, StatesStore
  <2>10. TypeOK'
    <3>1. f + 1 \in Nat /\ f + 1 <= NumFrames
      BY <2>2, ImageFrames
    <3> QED  BY <2>1, <2>2, <2>3, <2>4, <2>8, <3>1, TypeStep
  <2>11. ImageInv'
    <3>1. ASSUME NEW x \in Image
          PROVE  /\ x >= f + 1 => mm2.state[x] = "AVAILABLE"
                 /\ x < f + 1 => mm2.state[x] = "KERNEL"
      <4>1. CASE x = f
        BY <2>2, <2>9, <4>1
      <4>2. CASE x # f
        <5>1. x \in Frames /\ x \in Nat /\ mm2.state[x] = mm.state[x]
          BY <2>9, <4>2, ImageFrames
        <5>2. /\ x >= boot.at => mm.state[x] = "AVAILABLE"
              /\ x < boot.at => mm.state[x] = "KERNEL"
          BY <2>1, <2>4 DEF IInv, BootInv, ImageInv
        <5>3. x >= boot.at => f <= x
          BY <2>2
        <5> QED  BY <2>2, <4>2, <5>1, <5>2, <5>3
      <4> QED  BY <4>1, <4>2
    <3> QED  BY <2>3, <2>4, <3>1 DEF ImageInv
  <2>12. BootHands'
    BY <2>1, <2>3, <2>4, <2>7 DEF IInv, BootInv, BootHands
  <2>13. BootInv'
    BY <2>3, <2>11, <2>12 DEF BootInv, ScanInv, TablesInv, EarlyInv, DoneInv
  <2>14. NoDoubleUse'
    BY <2>3, <2>12 DEF BootHands, NoDoubleUse
  <2>15. MemInv(m, Out)'
    BY <2>4, <2>5, <2>7
  <2> QED  BY <2>10, <2>13, <2>14, <2>15 DEF IInv
<1> QED  BY <1>1, <1>2

\* write_new_kernel_page_table keeps the invariant: the frames it takes for the kernel's
\* page table are in nobody else's hands.
LEMMA TablesStep == ASSUME IInv, write_new_kernel_page_table PROVE IInv'
<1>1. CASE NextIn(Image) = {} /\ NextPhase("image", "tables", 0)
  BY <1>1, PhaseStep
<1>2. CASE ~(NextIn(Image) = {} /\ NextPhase("image", "tables", 0))
  <2>1. PICK a : a = frame_alloc(m, "KERNEL")
    OBVIOUS
  <2>2. /\ boot.phase = "tables" /\ boot.at < BootTables /\ boot' = [boot EXCEPT !.at = @ + 1]
        /\ m' = a.mem /\ halted' = (a.frame = NOPAGE) /\ held' = held
        /\ tables' = tables \cup ({a.frame} \ {NOPAGE})
    BY <1>2, <2>1 DEF write_new_kernel_page_table, Scanning
  <2>3. boot.at \in Nat /\ TypeOK /\ BootTables \in Nat
    BY FramesAssumption DEF IInv, TypeOK
  <2>4. boot'.phase = "tables" /\ boot'.at = boot.at + 1
        /\ boot' \in [phase : {"scan", "image", "tables", "early", "done"}, at : Nat]
    BY <2>2, <2>3 DEF TypeOK
  <2>5. Out = {} /\ Out' = {}
    BY <2>2, <2>4 DEF Out, Released
  <2>6. PICK mm : mm = m /\ MemInv(mm, {})
    BY <2>5 DEF IInv
  <2>7. PICK s : s = "KERNEL"
    OBVIOUS
  <2>8. MemInv(a.mem, {}) /\ Handed(mm, a, s, {})
    <3>1. {} \subseteq EarlyTables /\ s \in {"KERNEL", "POOL", "NORMAL"} /\ a = frame_alloc(mm, s)
      BY <2>1, <2>6, <2>7
    <3>2. PICK out : out = {}
      OBVIOUS
    <3>3. MemInv(mm, out) /\ out \subseteq EarlyTables
      BY <2>6, <3>1, <3>2
    <3> QED  BY <3>1, <3>2, <3>3, AllocMem
  <2>9. PICK g, mm2 : g = a.frame /\ mm2 = a.mem
    OBVIOUS
  <2>10. \A x \in Image : mm.state[x] = "KERNEL"
    BY <2>2, <2>6 DEF IInv, BootInv, TablesInv
  <2>11. g \notin Image /\ (g # NOPAGE => g \in Frames)
         /\ \A x \in Image : mm2.state[x] = "KERNEL"
    BY <2>7, <2>8, <2>9, <2>10, ImageFrames, FramesAssumption DEF Frames, NOPAGE, Handed
  <2>12. m' \in Memory
    BY <2>2, <2>8 DEF MemInv
  <2>13. TypeOK'
    <3>1. tables' \subseteq Frames /\ held' \in [Frames -> Nat] /\ halted' \in BOOLEAN
      BY <2>2, <2>3, <2>9, <2>11 DEF TypeOK
    <3>2. boot'.at <= BootTables
      BY <2>2, <2>3, <2>4
    <3> QED  BY <2>4, <2>12, <3>1, <3>2 DEF TypeOK
  <2>14. TablesInv'
    BY <2>2, <2>9, <2>11 DEF TablesInv
  <2>15. BootHands'
    BY <2>2, <2>4, <2>9, <2>11 DEF IInv, BootInv, BootHands
  <2>16. BootInv'
    BY <2>4, <2>14, <2>15 DEF BootInv, ScanInv, ImageInv, EarlyInv, DoneInv
  <2>17. NoDoubleUse'
    <3>1. \A x \in Frames : held'[x] = 0
      BY <2>4, <2>15 DEF BootHands
    <3>2. ASSUME NEW x \in Frames \ {0}, mm2.state[x] = "AVAILABLE" PROVE x \notin tables'
      <4>1. x # g /\ mm.state[x] = "AVAILABLE"
        BY <2>7, <2>8, <2>9, <3>2, NoPageNoFrame DEF Handed
      <4>2. x \notin tables
        BY <2>6, <4>1 DEF IInv, NoDoubleUse
      <4> QED  BY <2>2, <2>9, <4>1, <4>2
    <3> QED  BY <2>2, <2>9, <3>1, <3>2 DEF NoDoubleUse
  <2>18. MemInv(m, Out)'
    BY <2>2, <2>5, <2>8
  <2> QED  BY <2>13, <2>16, <2>17, <2>18 DEF IInv
<1> QED  BY <1>1, <1>2

\* The end of rebuild_kernel_page keeps the invariant: the frames of the boot page tables
\* leave the occupied list and are from then on outside every list.
LEMMA EarlyStep == ASSUME IInv, release_early_tables PROVE IInv'
<1>1. CASE boot.at = BootTables /\ NextPhase("tables", "early", 0)
  BY <1>1, PhaseStep
<1>2. CASE NextIn(EarlyTables) = {} /\ NextPhase("early", "done", 0)
  BY <1>2, PhaseStep
<1>3. CASE /\ ~(boot.at = BootTables /\ NextPhase("tables", "early", 0))
           /\ ~(NextIn(EarlyTables) = {} /\ NextPhase("early", "done", 0))
  <2>1. PICK f \in NextIn(EarlyTables) :
          /\ boot.phase = "early" /\ boot' = [boot EXCEPT !.at = f + 1]
          /\ UNCHANGED <<held, tables, halted>>
          /\ m' = [SetState(pglist_remove(m, "occupied", f), f, "AVAILABLE")
                   EXCEPT !.occupied_cnt = @ - 1]
    BY <1>3 DEF release_early_tables, Scanning
  <2>2. /\ boot.at \in Nat /\ TypeOK /\ halted \in BOOLEAN
        /\ f \in EarlyTables /\ f \in Image /\ f \in Frames /\ f \in Nat /\ f < NumFrames
        /\ f >= boot.at /\ \A g \in EarlyTables : g >= boot.at => f <= g
    BY <2>1, ImageFrames DEF IInv, TypeOK, NextIn
  <2>3. boot'.phase = "early" /\ boot'.at = f + 1 /\ boot' = [phase |-> boot'.phase, at |-> boot'.at]
    BY <2>1, <2>2 DEF TypeOK
  <2>4. PICK mm, mm2 : mm = m /\ mm2 = m'
    OBVIOUS
  <2>5. Out = EarlyTables /\ Out' = EarlyTables
    BY <2>1, <2>3 DEF Out, Released
  <2>6. MemInv(mm, EarlyTables) /\ mm.state[f] = "KERNEL"
    BY <2>1, <2>2, <2>4, <2>5 DEF IInv, BootInv, EarlyInv
  <2>7. MemInv(mm2, EarlyTables) /\ mm2.state = Store(mm.state, f, "AVAILABLE")
    BY <2>1, <2>2, <2>4, <2>6, EarlyMem
  <2>8. mm.state \in [Frames -> States] /\ "AVAILABLE" \in States /\ mm2 \in Memory
    BY <2>6, <2>7, MemoryIs DEF MemInv, States
  <2>9. mm2.state[f] = "AVAILABLE" /\ \A x \in Frames \ {f} : mm2.state[x] = mm.state[x]
    BY <2>2, <2>7, <2>8, StatesStore
  <2>10. TypeOK'
    <3>1. f + 1 \in Nat /\ f + 1 <= NumFrames
      BY <2>2, ImageFrames
    <3> QED  BY <2>1, <2>2, <2>3, <2>4, <2>8, <3>1, TypeStep
  <2>11. EarlyInv'
    <3>1. ASSUME NEW x \in EarlyTables
          PROVE  /\ x >= f + 1 => mm2.state[x] = "KERNEL"
                 /\ x < f + 1 => mm2.state[x] = "AVAILABLE"
      <4>1. CASE x = f
        BY <2>2, <2>9, <4>1
      <4>2. CASE x # f
        <5>1. x \in Frames /\ x \in Nat /\ mm2.state[x] = mm.state[x]
          BY <2>9, <4>2, ImageFrames
        <5>2. /\ x >= boot.at => mm.state[x] = "KERNEL"
              /\ x < boot.at => mm.state[x] = "AVAILABLE"
          BY <2>1, <2>4 DEF IInv, BootInv, EarlyInv
        <5>3. x >= boot.at => f <= x
          BY <2>2
        <5> QED  BY <2>2, <4>2, <5>1, <5>2, <5>3
      <4> QED  BY <4>1, <4>2
    <3> QED  BY <2>3, <2>4, <3>1 DEF EarlyInv
  <2>12. BootHands'
    BY <2>1, <2>3 DEF IInv, BootInv, BootHands
  <2>13. BootInv'
    BY <2>3, <2>11, <2>12 DEF BootInv, ScanInv, ImageInv, TablesInv, DoneInv
  <2>14. NoDoubleUse'
    <3>1. f \notin tables' /\ \A x \in Frames : held'[x] = 0
      BY <2>2, <2>3, <2>12 DEF BootHands
    <3>2. ASSUME NEW x \in Frames \ {0}, mm2.state[x] = "AVAILABLE" PROVE x \notin tables'
      <4>1. x # f => x \notin tables
        BY <2>4, <2>9, <3>2 DEF IInv, NoDoubleUse
      <4> QED  BY <2>1, <3>1, <4>1
    <3> QED  BY <2>4, <3>1, <3>2 DEF NoDoubleUse
  <2>15. MemInv(m, Out)'
    BY <2>4, <2>5, <2>7
  <2> QED  BY <2>10, <2>13, <2>14, <2>15 DEF IInv
<1> QED  BY <1>1, <1>2, <1>3

\* An allocation after boot keeps the invariant, whether or not a frame is found.
LEMMA AllocStep ==
    ASSUME IInv, NEW s \in {"KERNEL", "POOL", "NORMAL"}, NEW k \in 0 .. 1, AllocPage(s, k)
    PROVE  IInv'
<1>1. PICK a, b : /\ a = frame_alloc(m, s)
                  /\ b = IF k = 0 \/ a.frame = NOPAGE THEN a ELSE frame_alloc(a.mem, "KERNEL")
  OBVIOUS
<1>2. /\ boot.phase = "done" /\ m' = b.mem /\ halted' = (b.frame = NOPAGE)
      /\ held' = IF a.frame = NOPAGE THEN held ELSE [held EXCEPT ![a.frame] = @ + 1]
      /\ tables' = IF k = 0 THEN tables ELSE tables \cup ({b.frame} \ {NOPAGE})
      /\ boot' = boot
  BY <1>1 DEF AllocPage, Running
<1>3. Out = EarlyTables /\ Out' = EarlyTables
  BY <1>2 DEF Out, Released
<1>4. PICK mm, ma, g, h, e : /\ mm = m /\ ma = a.mem /\ g = a.frame /\ h = b.frame
                             /\ e = EarlyTables
  OBVIOUS
<1>5. MemInv(mm, e) /\ e \subseteq EarlyTables /\ a = frame_alloc(mm, s)
  BY <1>1, <1>3, <1>4 DEF IInv
<1>6. MemInv(ma, e) /\ Handed(mm, a, s, e)
  <2>1. MemInv(a.mem, e) /\ Handed(mm, a, s, e)
    BY <1>5, AllocMem
  <2> QED  BY <1>4, <2>1
<1>7. /\ MemInv(b.mem, e)
      /\ (b = a /\ (k = 0 \/ g = NOPAGE)) \/ (k # 0 /\ Handed(ma, b, "KERNEL", e))
  <2>1. CASE k = 0 \/ a.frame = NOPAGE
    BY <1>1, <1>4, <1>6, <2>1
  <2>2. CASE ~(k = 0 \/ a.frame = NOPAGE)
    <3>1. PICK t : t = "KERNEL"
      OBVIOUS
    <3>2. b = frame_alloc(ma, t) /\ t \in {"KERNEL", "POOL", "NORMAL"}
      BY <1>1, <1>4, <2>2, <3>1
    <3>3. MemInv(b.mem, e) /\ Handed(ma, b, t, e)
      BY <1>5, <1>6, <3>2, AllocMem
    <3> QED  BY <2>2, <3>1, <3>3
  <2> QED  BY <2>1, <2>2
<1>8. 0 \in Frames /\ NOPAGE \notin Frames
  BY NoPageNoFrame, FramesAssumption DEF Frames
<1>9. (g # NOPAGE => g \in Frames) /\ (h # NOPAGE => h \in Frames)
  BY <1>4, <1>6, <1>7, <1>8 DEF Handed
<1>10. PICK mb : mb = b.mem
  OBVIOUS
<1>11. ASSUME NEW x \in Frames \ {0}, x # g PROVE ma.state[x] = mm.state[x]
  BY <1>4, <1>6, <1>11 DEF Handed
<1>12. ASSUME NEW x \in Frames \ {0}, x = g PROVE mm.state[x] = "AVAILABLE" /\ ma.state[x] = s
  BY <1>4, <1>6, <1>8, <1>12 DEF Handed
<1>13. ASSUME NEW x \in Frames \ {0}, b # a, x # h PROVE mb.state[x] = ma.state[x]
  BY <1>4, <1>7, <1>10, <1>13 DEF Handed
<1>14. ASSUME NEW x \in Frames \ {0}, b # a, x = h
       PROVE  ma.state[x] = "AVAILABLE" /\ mb.state[x] = "KERNEL"
  BY <1>4, <1>7, <1>8, <1>10, <1>14 DEF Handed
<1>15. /\ b = a => mb = ma /\ h = g
       /\ tables' = IF k = 0 THEN tables ELSE tables \cup ({h} \ {NOPAGE})
       /\ held' = IF g = NOPAGE THEN held ELSE [held EXCEPT ![g] = @ + 1]
  BY <1>2, <1>4, <1>10
<1>16. held \in [Frames -> Nat] /\ tables \subseteq Frames
  BY DEF IInv, TypeOK
<1>17. TypeOK'
  <2>1. held' \in [Frames -> Nat] /\ tables' \subseteq Frames /\ halted' \in BOOLEAN
    <3>1. held' \in [Frames -> Nat]
      BY <1>9, <1>15, <1>16
    <3>2. tables' \subseteq Frames
      BY <1>9, <1>15, <1>16
    <3>3. halted' \in BOOLEAN
      BY <1>2
    <3> QED  BY <3>1, <3>2, <3>3
  <2>2. m' \in Memory
    BY <1>2, <1>7 DEF MemInv
  <2> QED  BY <1>2, <2>1, <2>2 DEF IInv, TypeOK
<1>18. BootInv'
  <2>1. ASSUME NEW x \in EarlyTables PROVE mb.state[x] = "AVAILABLE"
    <3>1. x \in Frames \ {0} /\ mm.state[x] = "AVAILABLE"
      BY <1>2, <1>4, ImageFrames DEF IInv, BootInv, DoneInv
    <3>2. x # g
      BY <1>4, <1>6, <1>8, <3>1 DEF Handed
    <3>3. b # a => x # h
      BY <1>4, <1>7, <1>8, <3>1 DEF Handed
    <3> QED  BY <1>11, <1>13, <1>15, <3>1, <3>2, <3>3
  <2> QED  BY <1>2, <1>10, <2>1
           DEF BootInv, ScanInv, ImageInv, TablesInv, EarlyInv, DoneInv, BootHands
<1>19. NoDoubleUse'
  <2>1. ASSUME NEW x \in Frames \ {0}
        PROVE  /\ held'[x] <= 1 /\ (x \in tables' => held'[x] = 0)
               /\ mb.state[x] = "AVAILABLE" => held'[x] = 0 /\ x \notin tables'
    <3>1. /\ held[x] <= 1 /\ (x \in tables => held[x] = 0) /\ held[x] \in Nat
          /\ mm.state[x] = "AVAILABLE" => held[x] = 0 /\ x \notin tables
      BY <1>4, <1>16 DEF IInv, NoDoubleUse
    <3>2. held'[x] = IF x = g THEN held[x] + 1 ELSE held[x]
      BY <1>8, <1>9, <1>15, <1>16
    <3>3. CASE x = g
      <4>1. mm.state[x] = "AVAILABLE" /\ ma.state[x] = s
        BY <1>12, <3>3
      <4>2. held'[x] = 1 /\ x \notin tables
        BY <3>1, <3>2, <3>3, <4>1
      <4>3. CASE b = a
        <5>1. k = 0
          BY <1>4, <1>7, <1>8, <3>3, <4>1, <4>3 DEF Handed
        <5> QED  BY <1>15, <4>1, <4>2, <4>3, <5>1
      <4>4. CASE b # a
        <5>1. x # h
          BY <1>14, <4>1, <4>4
        <5>2. mb.state[x] = s /\ x \notin tables'
          BY <1>13, <1>15, <4>1, <4>2, <4>4, <5>1
        <5> QED  BY <4>2, <5>2
      <4> QED  BY <4>3, <4>4
    <3>4. CASE x # g
      <4>1. ma.state[x] = mm.state[x] /\ held'[x] = held[x]
        BY <1>11, <3>2, <3>4
      <4>2. CASE b = a
        BY <1>15, <3>1, <3>4, <4>1, <4>2
      <4>3. CASE b # a /\ x = h
        BY <1>14, <1>15, <3>1, <4>1, <4>3
      <4>4. CASE b # a /\ x # h
        BY <1>13, <1>15, <3>1, <4>1, <4>4
      <4> QED  BY <4>2, <4>3, <4>4
    <3> QED  BY <3>3, <3>4
  <2> QED  BY <1>2, <1>10, <2>1 DEF NoDoubleUse
<1>20. MemInv(m, Out)'
  BY <1>2, <1>3, <1>4, <1>7
<1> QED  BY <1>17, <1>18, <1>19, <1>20 DEF IInv

\* A caller that releases a page it holds keeps the invariant, if the lists are sound
\* after frame_release.
LEMMA ReleaseStep ==
    ASSUME IInv, NEW f \in Frames, NEW mm, ReleasePage(f, mm), MemInv(mm, EarlyTables),
           mm.state = IF m.state[f] \in InUse THEN Store(m.state, f, "AVAILABLE") ELSE m.state
    PROVE  IInv'
<1>1. /\ boot.phase = "done" /\ m' = mm /\ held' = [held EXCEPT ![f] = @ - 1] /\ held[f] > 0
      /\ UNCHANGED <<boot, tables, halted>>
  BY DEF ReleasePage, Running
<1>2. Out' = EarlyTables
  BY <1>1 DEF Out, Released
<1>3. PICK st : st = m.state
  OBVIOUS
<1>4. st \in [Frames -> States] /\ "AVAILABLE" \in States /\ held \in [Frames -> Nat]
  <2>1. m \in Memory /\ held \in [Frames -> Nat]
    BY DEF IInv, TypeOK
  <2> QED  BY <1>3, <2>1 DEF States, Memory
<1>5. \A x \in Frames \ {f} : mm.state[x] = st[x]
  BY <1>3, <1>4, StatesStore
<1>6. st[f] = "AVAILABLE" => mm.state[f] = "AVAILABLE"
  BY <1>3, <1>4, StatesStore
<1>7. /\ held' \in [Frames -> Nat] /\ held'[f] = held[f] - 1 /\ held[f] \in Nat
      /\ \A x \in Frames \ {f} : held'[x] = held[x]
  BY <1>1, <1>4
<1>8. TypeOK'
  BY <1>1, <1>7 DEF IInv, TypeOK, MemInv
<1>9. BootInv'
  <2>1. ASSUME NEW x \in EarlyTables PROVE mm.state[x] = "AVAILABLE"
    <3>1. x \in Frames /\ st[x] = "AVAILABLE"
      BY <1>1, <1>3, ImageFrames DEF IInv, BootInv, DoneInv
    <3> QED  BY <1>5, <1>6, <3>1
  <2> QED  BY <1>1, <2>1 DEF BootInv, ScanInv, ImageInv, TablesInv, EarlyInv, DoneInv, BootHands
<1>10. NoDoubleUse'
  <2>1. ASSUME NEW x \in Frames \ {0}
        PROVE  /\ held'[x] <= 1 /\ (x \in tables => held'[x] = 0)
               /\ mm.state[x] = "AVAILABLE" => held'[x] = 0 /\ x \notin tables
    <3>1. /\ held[x] <= 1 /\ (x \in tables => held[x] = 0)
          /\ st[x] = "AVAILABLE" => held[x] = 0 /\ x \notin tables
      BY <1>3 DEF IInv, NoDoubleUse
    <3>2. CASE x = f
      BY <1>1, <1>7, <3>1, <3>2
    <3>3. CASE x # f
      BY <1>5, <1>7, <3>1, <3>3
    <3> QED  BY <3>2, <3>3
  <2> QED  BY <1>1, <2>1 DEF NoDoubleUse
<1>11. MemInv(m, Out)'
  BY <1>1, <1>2
<1> QED  BY <1>8, <1>9, <1>10, <1>11 DEF IInv

\* What frame_release does to the memory of the running kernel.
LEMMA RunningRelease ==
    ASSUME IInv, boot.phase = "done", NEW f \in Frames, NEW mm, mm = frame_release(m, f)
    PROVE  /\ MemInv(mm, EarlyTables)
           /\ mm.state = IF m.state[f] \in InUse THEN Store(m.state, f, "AVAILABLE") ELSE m.state
<1>1. PICK m0, e : m0 = m /\ e = EarlyTables
  OBVIOUS
<1>2. MemInv(m0, e) /\ e \subseteq EarlyTables
  BY <1>1 DEF IInv, Out, Released
<1>3. m0.state[f] \in InUse => f \notin e
  BY <1>1 DEF IInv, BootInv, DoneInv, InUse
<1>4. mm = frame_release(m0, f)
  BY <1>1
<1>5. /\ MemInv(mm, e)
      /\ mm.state = IF m0.state[f] \in InUse THEN Store(m0.state, f, "AVAILABLE") ELSE m0.state
  BY <1>2, <1>3, <1>4, ReleaseMem
<1> QED  BY <1>1, <1>5

\* The loop of destroy_process keeps the invariant, although it releases a low frame along
\* with every page table: that frame is on no list, so frame_release only counts it.
LEMMA MemListStep ==
    ASSUME IInv, NEW f \in KernelMem, NEW low \in Frames \ (KernelMem \cup MapMem),
           release_mem_list(f, low)
    PROVE  IInv'
<1>1. PICK m1, m2, e : /\ m1 = frame_release(m, f) /\ m2 = frame_release(m1, low)
                       /\ e = EarlyTables
  OBVIOUS
<1>2. boot.phase = "done" /\ f \in Frames /\ ReleasePage(f, m2)
  BY <1>1, FramesAssumption DEF release_mem_list, ReleasePage, Running
<1>3. /\ MemInv(m1, e)
      /\ m1.state = IF m.state[f] \in InUse THEN Store(m.state, f, "AVAILABLE") ELSE m.state
  BY <1>1, <1>2, RunningRelease
<1>4. m1.state[low] \notin InUse
  <2>1. StatesSound(m1.state) /\ low \in Frames /\ low \notin KernelMem /\ low \notin MapMem
    BY <1>3 DEF MemInv
  <2> QED  BY <2>1 DEF StatesSound, InUse
<1>5. MemInv(m2, e) /\ m2.state = m1.state
  <2>1. e \subseteq EarlyTables /\ low \in Frames
    BY <1>1
  <2>2. /\ MemInv(m2, e)
        /\ m2.state = IF m1.state[low] \in InUse THEN Store(m1.state, low, "AVAILABLE") ELSE m1.state
    BY <1>1, <1>3, <1>4, <2>1, ReleaseMem
  <2> QED  BY <1>4, <2>2
<1> QED  BY <1>1, <1>2, <1>3, <1>5, ReleaseStep

\* Every step of the allocator keeps the inductive invariant.
LEMMA NextInv == ASSUME IInv, [Next]_vars PROVE IInv'
<1>1. CASE page_init
  BY <1>1, ScanStep
<1>2. CASE reserve_image
  BY <1>2, ImageStep
<1>3. CASE write_new_kernel_page_table
  BY <1>3, TablesStep
<1>4. CASE release_early_tables
  BY <1>4, EarlyStep
<1>5. CASE \E s \in {"KERNEL", "POOL"}, k \in 0 .. 1 : kernel_page_alloc(s, k)
  BY <1>5, AllocStep DEF kernel_page_alloc
<1>6. CASE \E k \in 0 .. 1 : normal_page_alloc(k)
  BY <1>6, AllocStep DEF normal_page_alloc
<1>7. CASE \E f \in Frames : kernel_page_release(f) \/ normal_page_release(f)
  <2>1. PICK f \in Frames : ReleasePage(f, frame_release(m, f))
    BY <1>7 DEF kernel_page_release, normal_page_release
  <2>2. PICK mm : mm = frame_release(m, f)
    OBVIOUS
  <2>3. boot.phase = "done" /\ ReleasePage(f, mm)
    BY <2>1, <2>2 DEF ReleasePage, Running
  <2>4. /\ MemInv(mm, EarlyTables)
        /\ mm.state = IF m.state[f] \in InUse THEN Store(m.state, f, "AVAILABLE") ELSE m.state
    BY <2>2, <2>3, RunningRelease
  <2> QED  BY <2>3, <2>4, ReleaseStep
<1>8. CASE \E f \in KernelMem, low \in Frames \ (KernelMem \cup MapMem) : release_mem_list(f, low)
  BY <1>8, MemListStep
<1>9. CASE UNCHANGED vars
  BY <1>9 DEF vars, IInv, TypeOK, Out, Released, BootInv, ScanInv, ImageInv, TablesInv, EarlyInv,
              DoneInv, BootHands, NoDoubleUse
<1> QED  BY <1>1, <1>2, <1>3, <1>4, <1>5, <1>6, <1>7, <1>8, <1>9 DEF Next

-----------------------------------------------------------------------------
\* The inductive invariant holds in every state page_init, frame_alloc, frame_release and
\* their callers reach, for any memory map.
THEOREM Invariance == Spec => []IInv
<1>1. Init => IInv
  BY InitInv
<1>2. IInv /\ [Next]_vars => IInv'
  BY NextInv
<1> QED  BY <1>1, <1>2, PTL DEF Spec

\* The links and heads of page_arr name frames or are null, and the loops of page_init and
\* rebuild_kernel_page stay within their bounds.
THEOREM TypeCorrect == Spec => []TypeOK
<1>1. IInv => TypeOK
  BY DEF IInv
<1> QED  BY <1>1, Invariance, PTL

\* What belongs on a list by the states is what Where says.
LEMMA BelongsIs == ASSUME NEW l \in Lists PROVE Belongs(l) = Where(m.state, Out)[l]
<1>1. ASSUME NEW f \in Frames PROVE f \in Belongs(l) <=> l \in Home(f, m.state[f], Out)
  <2>1. CASE l = "free"
    BY <2>1 DEF Belongs, Leaked, Home, Out
  <2>2. CASE l = "map"
    BY <2>2, FramesAssumption DEF Belongs, Home
  <2>3. CASE l = "occupied"
    BY <2>3 DEF Belongs, Home
  <2> QED  BY <2>1, <2>2, <2>3 DEF Lists
<1>2. Belongs(l) \subseteq Frames
  BY DEF Belongs
<1>3. \A f : f \in Belongs(l) <=> f \in Where(m.state, Out)[l]
  BY <1>1, <1>2 DEF Where
<1> QED  BY <1>3

\* The three lists of page.c, which share their links, can be taken apart from the tail
\* and hold exactly the frames whose state says so, whatever frame_alloc and frame_release
\* have done and although pglist_pop_tail leaves a stale next.
THEOREM ListsSoundHolds == Spec => []ListsSound
<1>1. ASSUME IInv PROVE ListsSound
  <2>1. MemInv(m, Out)
    BY <1>1 DEF IInv
  <2>2. ASSUME NEW l \in Lists
        PROVE  WellLinked(m, l, NumFrames) /\ PagesOf(m, l, NumFrames) = Belongs(l)
    <3>1. PICK q : /\ Chain(Frames, m.next, m.prev, m.head[l], m.tail[l], q)
                   /\ Range(q) = Where(m.state, Out)[l]
      BY <2>1 DEF MemInv, ListsAre, ListIs
    <3>2. Len(q) <= NumFrames /\ NumFrames \in Nat
      <4>1. q \in Seq(Frames) /\ NoRepeat(q)
        BY <3>1 DEF Chain
      <4> QED  BY <4>1, FramesFinite, NoRepeatLen, FramesAssumption
    <3>3. PICK mm, n, P : mm = m /\ n = NumFrames /\ P = Frames
      OBVIOUS
    <3>4. /\ Chain(P, mm.next, mm.prev, mm.head[l], mm.tail[l], q)
          /\ NOPAGE \notin P /\ n \in Nat /\ Len(q) <= n
      BY <3>1, <3>2, <3>3, NoPageNoFrame
    <3>5. WellLinked(mm, l, n) /\ PagesOf(mm, l, n) = Range(q)
      BY <3>4, WalkIs
    <3> QED  BY <3>1, <3>3, <3>5, BelongsIs
  <2>3. m.tail["occupied"] # NOPAGE => m.next[m.tail["occupied"]] = NOPAGE
    BY <2>1 DEF MemInv, EndsClean, CleanEnd
  <2> QED  BY <2>2, <2>3 DEF ListsSound
<1> QED  BY <1>1, Invariance, PTL

\* mem_occupied_cnt is exact and mem_free_cnt never counts too few, so frame_alloc does not
\* refuse while a list has a frame.
THEOREM CountsSoundHolds == Spec => []CountsSound
<1>1. ASSUME IInv PROVE CountsSound
  <2>1. Counted(m, Where(m.state, Out))
    BY <1>1 DEF IInv, MemInv
  <2>2. /\ Belongs("occupied") = Where(m.state, Out)["occupied"]
        /\ Belongs("free") = Where(m.state, Out)["free"]
        /\ Belongs("map") = Where(m.state, Out)["map"]
    BY BelongsIs DEF Lists
  <2> QED  BY <2>1, <2>2 DEF Counted, CountsSound
<1> QED  BY <1>1, Invariance, PTL

\* No frame but the failure value is in two hands: frame_alloc never hands out a frame that
\* a caller holds, that is a page table or that is on a free list.
THEOREM NoDoubleUseHolds == Spec => []NoDoubleUse
<1>1. IInv => NoDoubleUse
  BY DEF IInv
<1> QED  BY <1>1, Invariance, PTL
=============================================================================
