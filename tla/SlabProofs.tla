------------------------------ MODULE SlabProofs ------------------------------
(***************************************************************************)
(* The object caches hand out every object once and lose none, for any     *)
(* number of frames, any size classes and any order of kmalloc, kfree and  *)
(* krealloc.  The invariant follows two ghosts: the class that owns each   *)
(* slab, and the frames of each page list.                                 *)
(***************************************************************************)
EXTENDS Slab, Lemmas

\* The objects of list q, from the first one h, are chained through lk.
ObjChain(lk, h, q) ==
    /\ q \in Seq(Offsets) /\ NoRepeat(q)
    /\ Len(q) = 0 => h = NOOBJ
    /\ Len(q) > 0 => h = q[1] /\ lk[q[Len(q)]] = NOOBJ
    /\ \A i \in 1 .. Len(q) - 1 : lk[q[i]] = q[i + 1]

\* The chain through lk that starts at h holds the objects S, each once.
FreeIs(lk, h, S) == \E q : ObjChain(lk, h, q) /\ Range(q) = S

NextObjs == [Offsets -> Offsets \cup {NOOBJ}]

\* NOOBJ, the null link of the objects, is not an object.
LEMMA NoObjNoOffset == NOOBJ \notin Offsets
BY SlabAssumption DEF NOOBJ, Offsets

\* A slab has at least one object, and they fit.
LEMMA ObjCntIs == ASSUME NEW c \in Classes PROVE ObjCnt(c) \in 1 .. PageSize
<1>1. PICK a \in Nat, b \in Nat : a = PageSize /\ b = ClassSize[c] /\ 1 <= b /\ b <= a
  BY SlabAssumption
<1>2. a \div b \in 1 .. a
  BY <1>1
<1> QED  BY <1>1, <1>2 DEF ObjCnt

\* Every size a caller asks for has a class.
LEMMA CacheIs == ASSUME NEW size \in Sizes PROVE get_kmalloc_cache(size) \in Classes
<1> DEFINE Fit == {c \in Classes : size <= ClassSize[c]}
           D == {ClassSize[c] : c \in Fit}
<1>1. D \subseteq Nat /\ D # {}
  BY SlabAssumption
<1> HIDE DEF D
<1>2. PICK d \in D : \A e \in D : d <= e
  BY <1>1, LeastNat
<1> USE DEF D
<1>3. PICK c \in Classes : size <= ClassSize[c] /\ d = ClassSize[c]
  OBVIOUS
<1>4. \A e \in Classes : size <= ClassSize[e] => ClassSize[c] <= ClassSize[e]
  BY <1>2, <1>3
<1> QED  BY <1>3, <1>4, Zenon DEF get_kmalloc_cache

\* What the chain says of its first object.
LEMMA FreeHead ==
    ASSUME NEW lk, NEW h, NEW S, FreeIs(lk, h, S)
    PROVE  /\ S \subseteq Offsets
           /\ h = NOOBJ <=> S = {}
           /\ h # NOOBJ => h \in S
<1>1. PICK q : ObjChain(lk, h, q) /\ Range(q) = S
  BY DEF FreeIs
<1>2. PICK n \in Nat : n = Len(q)
  BY <1>1 DEF ObjChain
<1>3. /\ S \subseteq Offsets /\ \A i \in 1 .. n : q[i] \in S
      /\ \A x \in S : \E i \in 1 .. n : x = q[i]
  BY <1>1, <1>2, RangeIs DEF ObjChain
<1>4. (n = 0 => h = NOOBJ) /\ (n > 0 => h = q[1])
  BY <1>1, <1>2 DEF ObjChain
<1>5. CASE n = 0
  BY <1>3, <1>4, <1>5
<1>6. CASE n # 0
  <2>1. 1 \in 1 .. n /\ n > 0
    BY <1>6
  <2> QED  BY <1>3, <1>4, <2>1, NoObjNoOffset
<1> QED  BY <1>5, <1>6

\* The objects of a fresh slab, chained in ascending order.
LEMMA FreshIs ==
    ASSUME NEW n \in 1 .. PageSize, NEW lk,
           \A o \in 0 .. n - 2 : lk[o] = o + 1, lk[n - 1] = NOOBJ
    PROVE  FreeIs(lk, 0, 0 .. n - 1)
<1>1. PICK q : q = [i \in 1 .. n |-> i - 1]
  OBVIOUS
<1>2. q \in Seq(Offsets) /\ Len(q) = n /\ \A i \in 1 .. n : q[i] = i - 1
  BY <1>1, SlabAssumption DEF Offsets
<1>3. NoRepeat(q)
  BY <1>2 DEF NoRepeat
<1>4. Range(q) = 0 .. n - 1
  <2>1. ASSUME NEW x \in 0 .. n - 1 PROVE \E i \in 1 .. n : x = q[i]
    <3>1. x + 1 \in 1 .. n /\ q[x + 1] = x
      BY <1>2
    <3> QED  BY <3>1
  <2>2. \A i \in 1 .. n : q[i] \in 0 .. n - 1
    BY <1>2
  <2>3. /\ \A i \in 1 .. n : q[i] \in Range(q)
        /\ \A x \in Range(q) : \E i \in 1 .. n : x = q[i]
    <3>1. q \in Seq(Offsets) /\ n = Len(q)
      BY <1>2
    <3> QED  BY <3>1, RangeIs
  <2>4. \A x : x \in Range(q) <=> x \in 0 .. n - 1
    BY <2>1, <2>2, <2>3
  <2> QED  BY <2>4
<1>5. ObjChain(lk, 0, q)
  <2>1. \A i \in 1 .. n - 1 : lk[q[i]] = q[i + 1]
    BY <1>2
  <2>2. q[1] = 0 /\ q[n] = n - 1 /\ n > 0
    BY <1>2
  <2> QED  BY <1>2, <1>3, <2>1, <2>2 DEF ObjChain
<1> QED  BY <1>4, <1>5 DEF FreeIs

\* cache_obj_alloc takes the first object off the chain.
LEMMA FreePop ==
    ASSUME NEW lk, NEW h, NEW S, FreeIs(lk, h, S), h # NOOBJ, NEW g, g = lk[h]
    PROVE  FreeIs(lk, g, S \ {h}) /\ g \in Offsets \cup {NOOBJ}
<1>1. PICK q : ObjChain(lk, h, q) /\ Range(q) = S
  BY DEF FreeIs
<1>2. PICK n \in Nat : n = Len(q) /\ n > 0
  BY <1>1 DEF ObjChain
<1>3. /\ \A i \in 1 .. n : q[i] \in S /\ q[i] \in Offsets
      /\ \A x \in S : \E i \in 1 .. n : x = q[i]
  BY <1>1, <1>2, RangeIs DEF ObjChain
<1>4. /\ h = q[1] /\ lk[q[n]] = NOOBJ
      /\ \A i \in 1 .. n - 1 : lk[q[i]] = q[i + 1]
      /\ \A i, j \in 1 .. n : q[i] = q[j] => i = j
  BY <1>1, <1>2 DEF ObjChain, NoRepeat
<1>5. PICK k \in Nat : k = n - 1
  BY <1>2
<1>6. PICK r : r = SubSeq(q, 2, n)
  OBVIOUS
<1>7. r \in Seq(Offsets) /\ Len(r) = k /\ \A i \in 1 .. k : r[i] = q[i + 1] /\ i + 1 \in 1 .. n
  BY <1>1, <1>2, <1>5, <1>6 DEF ObjChain
<1>8. NoRepeat(r)
  BY <1>4, <1>7 DEF NoRepeat
<1>9. Range(r) = S \ {h}
  <2>1. /\ \A i \in 1 .. k : r[i] \in Range(r)
        /\ \A x \in Range(r) : \E i \in 1 .. k : x = r[i]
    <3>1. r \in Seq(Offsets) /\ k = Len(r)
      BY <1>7
    <3> QED  BY <3>1, RangeIs
  <2>2. ASSUME NEW i \in 1 .. n PROVE i = 1 \/ \E j \in 1 .. k : i = j + 1
    <3>1. CASE i # 1
      <4>1. i - 1 \in 1 .. k /\ i = (i - 1) + 1
        BY <1>5, <3>1
      <4> QED  BY <4>1
    <3> QED  BY <3>1
  <2>3. 1 \in 1 .. n /\ \A i \in 1 .. k : i + 1 # 1
    BY <1>2
  <2>4. ASSUME NEW x \in Range(r) PROVE x \in S /\ x # h
    <3>1. PICK i \in 1 .. k : x = r[i]
      BY <2>1
    <3>2. x = q[i + 1] /\ i + 1 \in 1 .. n /\ i + 1 # 1
      BY <1>7, <2>3, <3>1
    <3> QED  BY <1>3, <1>4, <2>3, <3>2
  <2>5. ASSUME NEW x \in S, x # h PROVE x \in Range(r)
    <3>1. PICK i \in 1 .. n : x = q[i]
      BY <1>3
    <3>2. PICK j \in 1 .. k : i = j + 1
      BY <1>4, <2>2, <2>5, <3>1
    <3> QED  BY <1>7, <2>1, <3>1, <3>2
  <2>6. \A x : x \in Range(r) <=> x \in S \ {h}
    BY <2>4, <2>5
  <2> QED  BY <2>6
<1>10. CASE k = 0
  <2>1. g = NOOBJ
    <3>1. n = 1
      BY <1>5, <1>10
    <3> QED  BY <1>4, <3>1
  <2>2. ObjChain(lk, g, r)
    BY <1>7, <1>8, <1>10, <2>1 DEF ObjChain
  <2> QED  BY <1>9, <2>1, <2>2 DEF FreeIs
<1>11. CASE k # 0
  <2>1. 1 \in 1 .. n - 1 /\ 1 \in 1 .. k /\ k \in 1 .. k /\ 2 \in 1 .. n /\ k + 1 = n /\ k > 0
    BY <1>5, <1>11
  <2>2. g = r[1] /\ lk[r[k]] = NOOBJ /\ g \in Offsets
    <3>1. lk[q[1]] = q[2] /\ r[1] = q[2] /\ r[k] = q[n] /\ q[2] \in Offsets
      BY <1>3, <1>4, <1>7, <2>1
    <3> QED  BY <1>4, <3>1
  <2>3. ASSUME NEW i \in 1 .. k - 1 PROVE lk[r[i]] = r[i + 1]
    <3>1. i \in 1 .. k /\ i + 1 \in 1 .. k /\ i + 1 \in 1 .. n - 1
      BY <1>5
    <3> QED  BY <1>4, <1>7, <3>1
  <2>4. ObjChain(lk, g, r)
    BY <1>7, <1>8, <2>1, <2>2, <2>3 DEF ObjChain
  <2> QED  BY <1>9, <2>2, <2>4 DEF FreeIs
<1> QED  BY <1>10, <1>11

\* cache_obj_release puts an object in front of the chain.
LEMMA FreePush ==
    ASSUME NEW lk \in NextObjs, NEW h, NEW S, FreeIs(lk, h, S),
           NEW o \in Offsets, o \notin S, NEW lk2, lk2 = Store(lk, o, h)
    PROVE  FreeIs(lk2, o, S \cup {o}) /\ lk2 \in NextObjs
<1>1. PICK q : ObjChain(lk, h, q) /\ Range(q) = S
  BY DEF FreeIs
<1>2. PICK n \in Nat : n = Len(q)
  BY <1>1 DEF ObjChain
<1>3. \A i \in 1 .. n : q[i] \in S /\ q[i] \in Offsets /\ q[i] # o
  BY <1>1, <1>2, RangeIs DEF ObjChain
<1>4. /\ n = 0 => h = NOOBJ
      /\ n > 0 => h = q[1] /\ lk[q[n]] = NOOBJ
      /\ \A i \in 1 .. n - 1 : lk[q[i]] = q[i + 1]
  BY <1>1, <1>2 DEF ObjChain
<1>5. h \in Offsets \cup {NOOBJ}
  BY FreeHead
<1>6. /\ lk2 \in NextObjs /\ lk2[o] = h
      /\ \A x \in Offsets \ {o} : lk2[x] = lk[x]
  BY <1>5 DEF Store, NextObjs
<1>7. PICK r : r = <<o>> \o q
  OBVIOUS
<1>8. /\ r \in Seq(Offsets) /\ Range(r) = {o} \cup S /\ NoRepeat(r)
  BY <1>1, <1>7, PushIs DEF ObjChain
<1>9. Len(r) = n + 1 /\ r[1] = o /\ \A i \in 1 .. n : r[i + 1] = q[i]
  BY <1>1, <1>2, <1>7 DEF ObjChain
<1>10. ASSUME NEW i \in 1 .. n PROVE lk2[r[i]] = r[i + 1]
  <2>1. CASE i = 1
    BY <1>4, <1>6, <1>9, <2>1
  <2>2. CASE i # 1
    <3>1. PICK j \in 1 .. n - 1 : i = j + 1
      <4>1. PICK j : j = i - 1
        OBVIOUS
      <4>2. j \in 1 .. n - 1 /\ i = j + 1
        BY <2>2, <4>1
      <4> QED  BY <4>2
    <3>2. lk[q[j]] = q[j + 1] /\ j \in 1 .. n /\ j + 1 \in 1 .. n
      BY <1>4, <3>1
    <3>3. r[i] = q[j] /\ r[i + 1] = q[j + 1]
      BY <1>9, <3>1, <3>2
    <3> QED  BY <1>3, <1>6, <3>2, <3>3
  <2> QED  BY <2>1, <2>2
<1>11. lk2[r[n + 1]] = NOOBJ
  <2>1. CASE n = 0
    BY <1>4, <1>6, <1>9, <2>1
  <2>2. CASE n # 0
    <3>1. n \in 1 .. n /\ n > 0
      BY <2>2
    <3> QED  BY <1>3, <1>4, <1>6, <1>9, <3>1
  <2> QED  BY <2>1, <2>2
<1>12. ObjChain(lk2, o, r)
  BY <1>8, <1>9, <1>10, <1>11 DEF ObjChain
<1>13. Range(r) = S \cup {o}
  BY <1>8
<1> QED  BY <1>6, <1>12, <1>13 DEF FreeIs

\* The equation of the walk in FreeChain.
ObjWalk(f, lk, h) ==
    [n \in 0 .. PageSize |-> IF n = 0 THEN h
                             ELSE IF f[n - 1] = NOOBJ THEN NOOBJ ELSE lk[f[n - 1]]]

\* The walk from the first free object meets the objects of the chain, and ends.
LEMMA FreeWalk ==
    ASSUME NEW f, NEW S, FreeIs(link[f], obj[f], S), NEW cnt \in 1 .. PageSize, S \subseteq 0 .. cnt - 1
    PROVE  /\ FreeChain(f)[cnt] = NOOBJ
           /\ {FreeChain(f)[n] : n \in 0 .. PageSize} \ {NOOBJ} = S
<1>1. PICK lk, h : lk = link[f] /\ h = obj[f]
  OBVIOUS
<1>2. PICK q : ObjChain(lk, h, q) /\ Range(q) = S
  BY <1>1 DEF FreeIs
<1>3. PICK k \in Nat : k = Len(q)
  BY <1>2 DEF ObjChain
<1>4. /\ \A i \in 1 .. k : q[i] \in S /\ q[i] \in Offsets /\ q[i] # NOOBJ
      /\ \A x \in S : \E i \in 1 .. k : x = q[i]
  BY <1>2, <1>3, RangeIs, NoObjNoOffset DEF ObjChain
<1>5. /\ k = 0 => h = NOOBJ
      /\ k > 0 => h = q[1] /\ lk[q[k]] = NOOBJ
      /\ \A i \in 1 .. k - 1 : lk[q[i]] = q[i + 1]
  BY <1>2, <1>3 DEF ObjChain
<1>6. k <= cnt
  <2>1. PICK P : P = 0 .. cnt - 1
    OBVIOUS
  <2>2. IsFiniteSet(P) /\ Cardinality(P) = cnt
    <3>1. 0 \in Int /\ cnt - 1 \in Int /\ cnt > 0
      BY SlabAssumption
    <3>2. IsFiniteSet(0 .. cnt - 1)
          /\ Cardinality(0 .. cnt - 1) = IF 0 > cnt - 1 THEN 0 ELSE (cnt - 1) - 0 + 1
      BY <3>1, FS_Interval
    <3> QED  BY <2>1, <3>1, <3>2
  <2>3. q \in Seq(P) /\ NoRepeat(q)
    <3>1. q \in Seq(Offsets) /\ NoRepeat(q)
      BY <1>2 DEF ObjChain
    <3>2. \A i \in 1 .. Len(q) : q[i] \in P
      BY <1>3, <1>4, <2>1
    <3> QED  BY <3>1, <3>2
  <2>4. Len(q) <= Cardinality(P)
    BY <2>2, <2>3, NoRepeatLen
  <2> QED  BY <1>3, <2>2, <2>4
<1> DEFINE At(n) == IF n < k THEN q[n + 1] ELSE NOOBJ
<1>7. ASSUME NEW n \in Nat
      PROVE  At(n + 1) = IF At(n) = NOOBJ THEN NOOBJ ELSE lk[At(n)]
  <2>1. CASE n >= k
    BY <2>1
  <2>2. CASE n < k
    <3>1. n + 1 \in 1 .. k /\ At(n) = q[n + 1] /\ At(n) # NOOBJ
      BY <1>4, <2>2
    <3>2. CASE n + 1 = k
      BY <1>5, <3>1, <3>2
    <3>3. CASE n + 1 # k
      <4>1. PICK i \in 1 .. k - 1 : i = n + 1 /\ i < k
        BY <2>2, <3>3
      <4>2. At(n + 1) = q[i + 1]
        BY <4>1
      <4> QED  BY <1>5, <3>1, <4>1, <4>2
    <3> QED  BY <3>2, <3>3
  <2> QED  BY <2>1, <2>2
<1>8. At(0) = h
  BY <1>5
<1> DEFINE g == [n \in 0 .. PageSize |-> At(n)]
<1>9. g = ObjWalk(g, lk, h)
  <2>1. ASSUME NEW n \in 0 .. PageSize
        PROVE  g[n] = IF n = 0 THEN h ELSE IF g[n - 1] = NOOBJ THEN NOOBJ ELSE lk[g[n - 1]]
    <3> HIDE DEF At
    <3>1. CASE n = 0
      BY <1>8, <3>1
    <3>2. CASE n # 0
      <4>1. PICK i \in 0 .. PageSize : i = n - 1 /\ i \in Nat /\ i + 1 = n
        BY <3>2, SlabAssumption
      <4>2. g[i] = At(i) /\ g[n] = At(i + 1)
        BY <4>1
      <4> QED  BY <1>7, <3>2, <4>1, <4>2
    <3> QED  BY <3>1, <3>2
  <2>2. PICK G : G = g
    OBVIOUS
  <2>3. \A n \in 0 .. PageSize : G[n] = IF n = 0 THEN h
                      ELSE IF G[n - 1] = NOOBJ THEN NOOBJ ELSE lk[G[n - 1]]
    BY <2>1, <2>2
  <2>4. G = [n \in 0 .. PageSize |-> G[n]]
    BY <2>2
  <2>5. G = ObjWalk(G, lk, h)
    <3> HIDE DEF g, At
    <3> QED  BY <2>3, <2>4 DEF ObjWalk
  <2> QED  BY <2>2, <2>5
<1> HIDE DEF g
<1> DEFINE w == CHOOSE v : v = ObjWalk(v, lk, h)
<1>10. w = ObjWalk(w, lk, h)
  BY <1>9
<1>11. FreeChain(f) = w
  BY <1>1, Zenon DEF FreeChain, ObjWalk
<1> HIDE DEF w
<1>12. PICK v : v = w
  OBVIOUS
<1>13. \A n \in 0 .. PageSize : v[n] = IF n = 0 THEN h
                      ELSE IF v[n - 1] = NOOBJ THEN NOOBJ ELSE lk[v[n - 1]]
  <2>1. v = ObjWalk(v, lk, h)
    BY <1>10, <1>12
  <2> HIDE DEF At
  <2> QED  BY <2>1 DEF ObjWalk
<1>14. \A n \in Nat : n \in {i \in Nat : i <= PageSize => v[i] = At(i)}
  <2> HIDE DEF At
  <2> DEFINE A == {i \in Nat : i <= PageSize => v[i] = At(i)}
  <2>1. 0 \in A
    BY <1>8, <1>13, SlabAssumption
  <2>2. ASSUME NEW n \in Nat, n \in A PROVE n + 1 \in A
    <3> SUFFICES ASSUME n + 1 <= PageSize PROVE v[n + 1] = At(n + 1)
      OBVIOUS
    <3>1. v[n] = At(n)
      BY <2>2, SlabAssumption
    <3>2. n + 1 \in 0 .. PageSize /\ n + 1 # 0 /\ (n + 1) - 1 = n
      BY SlabAssumption
    <3>3. v[n + 1] = IF v[n] = NOOBJ THEN NOOBJ ELSE lk[v[n]]
      BY <1>13, <3>2
    <3> QED  BY <1>7, <3>1, <3>3
  <2> HIDE DEF A
  <2>3. \A n \in Nat : n \in A
    BY <2>1, <2>2, Induction
  <2> QED  BY <2>3 DEF A
<1>15. \A n \in 0 .. PageSize : v[n] = At(n)
  BY <1>14, SlabAssumption
<1>16. \A n \in 0 .. PageSize : v[n] = IF n < k THEN q[n + 1] ELSE NOOBJ
  BY <1>15
<1> HIDE DEF At
<1>17. v[cnt] = NOOBJ
  BY <1>6, <1>16, SlabAssumption
<1>18. {v[n] : n \in 0 .. PageSize} \ {NOOBJ} = S
  <2>1. ASSUME NEW n \in 0 .. PageSize, v[n] # NOOBJ PROVE v[n] \in S
    <3>1. n + 1 \in 1 .. k /\ v[n] = q[n + 1]
      BY <1>16, <2>1
    <3> QED  BY <1>4, <3>1
  <2>2. ASSUME NEW x \in S PROVE x # NOOBJ /\ \E n \in 0 .. PageSize : v[n] = x
    <3>1. PICK i \in 1 .. k : x = q[i]
      BY <1>4
    <3>2. PICK n \in 0 .. PageSize : n = i - 1 /\ n < k /\ n + 1 = i
      BY <1>6, SlabAssumption
    <3> QED  BY <1>4, <1>16, <3>1, <3>2
  <2>3. \A x : x \in {v[n] : n \in 0 .. PageSize} \ {NOOBJ} <=> x \in S
    BY <2>1, <2>2
  <2> QED  BY <2>3
<1> QED  BY <1>11, <1>12, <1>17, <1>18, Zenon

-----------------------------------------------------------------------------
Mem == MemType(Frames, Lists, States)

\* B says which frames each list holds; frame f is on a partial list.
IsMap(B) == B \in [Lists -> SUBSET Frames]
Listed(B, f) == \E c \in Classes : f \in B[c]

\* What the states and the counters say of the lists; a slab on no list has no links.
StatesAre(st, B) ==
    /\ st[0] = "DMA"
    /\ \A f \in Frames : (f \in B["free"] <=> st[f] = "AVAILABLE")
                         /\ (f \in B["occupied"] <=> st[f] = "KERNEL")
                         /\ (Listed(B, f) => st[f] = "POOL")
Counted(mm, B) ==
    /\ mm.free_cnt = Cardinality(B["free"])
    /\ mm.occupied_cnt = Cardinality(B["occupied"])
FloatingUnlinked(mm, B) ==
    \A f \in Frames : mm.state[f] = "POOL" /\ ~Listed(B, f) => Unlinked(mm, f)

\* The invariant of the memory, whose lists hold the frames B says.
MemInv(mm, B) ==
    /\ mm \in Mem /\ IsMap(B)
    /\ ListsAre(Frames, Lists, mm, B)
    /\ \A l \in Lists \ {"free"} : EndsClean(mm, l)
    /\ StatesAre(mm.state, B) /\ Counted(mm, B) /\ FloatingUnlinked(mm, B)

\* NOPAGE, the null link of the lists, is not a frame; frame 0 is one.
LEMMA NoPageNoFrame == NOPAGE \notin Frames /\ 0 \in Frames
BY SlabAssumption DEF NOPAGE, Frames

\* There are finitely many frames, so the lists can be counted; frame 0 is on none.
LEMMA FramesFinite ==
    /\ IsFiniteSet(Frames) /\ IsFiniteSet(Frames \ {0})
    /\ Cardinality(Frames \ {0}) = NumFrames
<1>1. 0 \in Int /\ NumFrames \in Nat /\ NumFrames >= 0
  BY SlabAssumption
<1>2. IsFiniteSet(0 .. NumFrames)
      /\ Cardinality(0 .. NumFrames) = IF 0 > NumFrames THEN 0 ELSE NumFrames - 0 + 1
  BY <1>1, FS_Interval
<1>3. IsFiniteSet(Frames) /\ Cardinality(Frames) = NumFrames + 1
  BY <1>1, <1>2 DEF Frames
<1>4. IsFiniteSet(Frames \ {0}) /\ Cardinality(Frames \ {0}) = Cardinality(Frames) - 1
  BY <1>3, FS_RemoveElement, NoPageNoFrame
<1> QED  BY <1>1, <1>3, <1>4

\* The lists of the memory: their names, and that they differ.
LEMMA ListNames ==
    /\ "free" \in Lists /\ "occupied" \in Lists /\ Classes \subseteq Lists
    /\ \A c \in Classes : c # "free" /\ c # "occupied"
BY SlabAssumption DEF Lists

\* List l comes to hold the frames S.
Put(B, l, S) == [B EXCEPT ![l] = S]

\* The others stay.
LEMMA PutIs ==
    ASSUME NEW B, IsMap(B), NEW l \in Lists, NEW S, S \subseteq Frames, NEW B2, B2 = Put(B, l, S)
    PROVE  IsMap(B2) /\ B2[l] = S /\ \A k \in Lists \ {l} : B2[k] = B[k]
BY DEF Put, IsMap

\* Lists hold frames.
LEMMA MapIn == ASSUME NEW B, IsMap(B), NEW l \in Lists PROVE B[l] \subseteq Frames
BY DEF IsMap

\* The counts of a set of frames with one more and with one fewer.
LEMMA CountOne ==
    ASSUME NEW S, S \subseteq Frames, NEW f \in Frames
    PROVE  /\ Cardinality(S) \in Nat /\ IsFiniteSet(S)
           /\ f \notin S => Cardinality(S \cup {f}) = Cardinality(S) + 1
           /\ f \in S => Cardinality(S \ {f}) = Cardinality(S) - 1 /\ Cardinality(S) >= 1
<1>1. IsFiniteSet(S)
  BY FramesFinite, FS_Subset
<1>2. Cardinality(S) \in Nat
  BY <1>1, FS_CardinalityType
<1>3. f \notin S => Cardinality(S \cup {f}) = Cardinality(S) + 1
  BY <1>1, FS_AddElement
<1>4. ASSUME f \in S PROVE Cardinality(S \ {f}) = Cardinality(S) - 1 /\ Cardinality(S) >= 1
  <2>1. IsFiniteSet(S \ {f}) /\ Cardinality(S \ {f}) = Cardinality(S) - 1
    BY <1>1, <1>4, FS_RemoveElement
  <2>2. Cardinality(S \ {f}) \in Nat
    BY <2>1, FS_CardinalityType
  <2> QED  BY <1>2, <2>1, <2>2
<1> QED  BY <1>1, <1>2, <1>3, <1>4

\* New states and counters.
Touched(mm, st, fc, oc) == [mm EXCEPT !.state = st, !.free_cnt = fc, !.occupied_cnt = oc]

\* They make a memory of a memory, and leave the links.
LEMMA MemTouch ==
    ASSUME NEW mm \in Mem, NEW st \in [Frames -> States], NEW fc \in Int, NEW oc \in Int,
           NEW mm2, mm2 = Touched(mm, st, fc, oc)
    PROVE  /\ mm2 \in Mem /\ mm2.state = st /\ mm2.free_cnt = fc /\ mm2.occupied_cnt = oc
           /\ mm2.next = mm.next /\ mm2.prev = mm.prev
           /\ mm2.head = mm.head /\ mm2.tail = mm.tail
BY DEF Mem, MemType, Touched

\* The state of one frame changes.
LEMMA StateStore ==
    ASSUME NEW st \in [Frames -> States], NEW f \in Frames, NEW x \in States
    PROVE  /\ Store(st, f, x) \in [Frames -> States] /\ Store(st, f, x)[f] = x
           /\ \A g \in Frames \ {f} : Store(st, f, x)[g] = st[g]
BY DEF Store

\* frame_alloc(POOL): the last free frame becomes a slab on no list.
LEMMA AllocPool ==
    ASSUME NEW mm, NEW B, MemInv(mm, B), NEW a, a = frame_alloc(mm, "POOL"),
           NEW f, f = a.frame, f \notin {0, NOPAGE}, NEW m2, m2 = a.mem
    PROVE  /\ f \in Frames /\ f \in B["free"] /\ m2.state = Store(mm.state, f, "POOL")
           /\ MemInv(m2, Put(B, "free", B["free"] \ {f}))
<1>0. PICK B2 : B2 = Put(B, "free", B["free"] \ {f})
  OBVIOUS
<1>1. PICK m1 : m1 = pglist_pop_tail(mm, "free")
  OBVIOUS
<1>2. mm \in Mem /\ ListsAre(Frames, Lists, mm, B) /\ IsMap(B)
  BY DEF MemInv
<1>3. /\ mm.free_cnt # 0 /\ f # NOPAGE /\ f = mm.tail["free"] /\ mm.state[f] = "AVAILABLE"
      /\ m2 = [SetState(m1, f, "POOL") EXCEPT !.free_cnt = @ - 1]
  BY <1>1 DEF frame_alloc, ListFor
<1>4. /\ m1 \in Mem /\ m1.state = mm.state
      /\ m1.free_cnt = mm.free_cnt /\ m1.occupied_cnt = mm.occupied_cnt
      /\ f \in Frames /\ f \in B["free"]
      /\ ListBecomes(Frames, Lists, mm, m1, B, "free", B["free"] \ {f})
      /\ LinksKept(mm, m1, Frames \ {f}) /\ Unlinked(m1, f)
  <2>1. mm \in MemType(Frames, Lists, States) /\ ListsAre(Frames, Lists, mm, B)
        /\ NOPAGE \notin Frames /\ "free" \in Lists
    BY <1>2, NoPageNoFrame, ListNames DEF Mem
  <2>2. mm.tail["free"] # NOPAGE /\ f = mm.tail["free"] /\ m1 = pglist_pop_tail(mm, "free")
    BY <1>1, <1>3
  <2>3. TailPopped(Frames, Lists, States, mm, m1, B, "free", f)
    BY <2>1, <2>2, PopLists
  <2> QED  BY <2>3 DEF TailPopped, Mem
<1>5. PICK st : st = Store(mm.state, f, "POOL")
  OBVIOUS
<1>6. mm.state \in [Frames -> States] /\ mm.free_cnt \in Int /\ mm.occupied_cnt \in Int
  BY <1>2, MemTypeIs DEF Mem
<1>7. /\ st \in [Frames -> States] /\ st[f] = "POOL"
      /\ \A g \in Frames \ {f} : st[g] = mm.state[g]
  <2>1. "POOL" \in States
    BY DEF States
  <2> QED  BY <1>4, <1>5, <1>6, <2>1, StateStore
<1>8. /\ m2 \in Mem /\ m2.state = st /\ m2.free_cnt = mm.free_cnt - 1
      /\ m2.occupied_cnt = mm.occupied_cnt
      /\ m2.next = m1.next /\ m2.prev = m1.prev
      /\ m2.head = m1.head /\ m2.tail = m1.tail
  <2>2. PICK fc, oc : fc = mm.free_cnt - 1 /\ oc = mm.occupied_cnt
    OBVIOUS
  <2>3. m2 = Touched(m1, st, fc, oc)
    BY <1>3, <1>4, <1>5, <2>2 DEF SetState, Mem, MemType, Touched
  <2>4. fc \in Int /\ oc \in Int
    BY <1>6, <2>2
  <2>5. m1 \in Mem /\ st \in [Frames -> States]
    BY <1>4, <1>7
  <2>6. /\ m2 \in Mem /\ m2.state = st /\ m2.free_cnt = fc /\ m2.occupied_cnt = oc
        /\ m2.next = m1.next /\ m2.prev = m1.prev
        /\ m2.head = m1.head /\ m2.tail = m1.tail
    BY <2>3, <2>4, <2>5, MemTouch
  <2> QED  BY <2>2, <2>6
<1>10. /\ IsMap(B2) /\ B2["free"] = B["free"] \ {f}
       /\ \A k \in Lists \ {"free"} : B2[k] = B[k]
  BY <1>0, <1>2, ListNames DEF Put, IsMap
<1>11. ListsAre(Frames, Lists, m1, B2)
  BY <1>4, <1>10 DEF ListBecomes
<1>12. \A l \in Lists \ {"free"} : EndsClean(m1, l)
  BY <1>4 DEF ListBecomes, MemInv
<1>13. ListsAre(Frames, Lists, m2, B2) /\ \A l \in Lists \ {"free"} : EndsClean(m2, l)
  BY <1>8, <1>11, <1>12, KeepLists
<1>14. \A g : Listed(B2, g) <=> Listed(B, g)
  BY <1>10, ListNames DEF Listed
<1>15. StatesAre(st, B2)
  <2>1. StatesAre(mm.state, B)
    BY DEF MemInv
  <2>2. "occupied" \in Lists \ {"free"}
    BY ListNames
  <2>3. st[0] = "DMA"
    BY <1>3, <1>7, <2>1, NoPageNoFrame DEF StatesAre
  <2>4. ASSUME NEW g \in Frames
        PROVE  (g \in B2["free"] <=> st[g] = "AVAILABLE")
               /\ (g \in B2["occupied"] <=> st[g] = "KERNEL") /\ (Listed(B2, g) => st[g] = "POOL")
    <3>1. /\ g \in B["free"] <=> mm.state[g] = "AVAILABLE"
          /\ g \in B["occupied"] <=> mm.state[g] = "KERNEL"
          /\ Listed(B, g) => mm.state[g] = "POOL"
      BY <2>1 DEF StatesAre
    <3> QED  BY <1>3, <1>7, <1>10, <1>14, <2>2, <3>1
  <2> QED  BY <2>3, <2>4 DEF StatesAre
<1>16. Counted(m2, B2)
  <2>1. Counted(mm, B) /\ B["free"] \subseteq Frames
    BY <1>2, ListNames, MapIn DEF MemInv
  <2>2. Cardinality(B["free"] \ {f}) = Cardinality(B["free"]) - 1
    BY <1>4, <2>1, CountOne
  <2>3. "occupied" \in Lists \ {"free"}
    BY ListNames
  <2> QED  BY <1>8, <1>10, <2>1, <2>2, <2>3 DEF Counted
<1>17. FloatingUnlinked(m2, B2)
  <2> SUFFICES ASSUME NEW g \in Frames, st[g] = "POOL", ~Listed(B2, g) PROVE Unlinked(m2, g)
    BY <1>8 DEF FloatingUnlinked
  <2>1. CASE g = f
    BY <1>4, <1>8, <2>1 DEF Unlinked
  <2>2. CASE g # f
    <3>1. Unlinked(mm, g)
      BY <1>7, <1>14, <2>2 DEF MemInv, FloatingUnlinked
    <3> QED  BY <1>4, <1>8, <2>2, <3>1 DEF Unlinked, LinksKept
  <2> QED  BY <2>1, <2>2
<1>18. MemInv(m2, B2)
  BY <1>8, <1>10, <1>13, <1>15, <1>16, <1>17 DEF MemInv
<1> QED  BY <1>0, <1>4, <1>5, <1>8, <1>18

\* Frame f is on the list that state x tells; the other frames are where they were.
PlaceIs(B, f, x) ==
    /\ f \in B["free"] <=> x = "AVAILABLE"
    /\ f \in B["occupied"] <=> x = "KERNEL"
    /\ Listed(B, f) => x = "POOL"
OthersStay(B, B2, f) ==
    \A g \in Frames \ {f} : /\ g \in B2["free"] <=> g \in B["free"]
                            /\ g \in B2["occupied"] <=> g \in B["occupied"]
                            /\ Listed(B2, g) => Listed(B, g)

\* The state of frame f changes, and with it the list it is on.
LEMMA StatesMove ==
    ASSUME NEW st \in [Frames -> States], NEW B, StatesAre(st, B), NEW f \in Frames, f # 0,
           NEW x \in States, NEW st2, st2 = Store(st, f, x), NEW B2,
           OthersStay(B, B2, f), PlaceIs(B2, f, x)
    PROVE  StatesAre(st2, B2)
<1>1. st2[f] = x /\ \A g \in Frames \ {f} : st2[g] = st[g]
  BY StateStore
<1>2. st2[0] = "DMA"
  BY <1>1, NoPageNoFrame DEF StatesAre
<1>3. ASSUME NEW g \in Frames
      PROVE  (g \in B2["free"] <=> st2[g] = "AVAILABLE")
             /\ (g \in B2["occupied"] <=> st2[g] = "KERNEL") /\ (Listed(B2, g) => st2[g] = "POOL")
  <2>1. CASE g = f
    BY <1>1, <2>1 DEF PlaceIs
  <2>2. CASE g # f
    BY <1>1, <2>2 DEF StatesAre, OthersStay
  <2> QED  BY <2>1, <2>2
<1> QED  BY <1>2, <1>3 DEF StatesAre

\* frame_alloc(KERNEL): the last free frame goes to the list of occupied frames.
LEMMA AllocKernel ==
    ASSUME NEW mm, NEW B, MemInv(mm, B), NEW a, a = frame_alloc(mm, "KERNEL"),
           NEW f, f = a.frame, f \notin {0, NOPAGE}, NEW m3, m3 = a.mem
    PROVE  /\ f \in Frames /\ f \in B["free"] /\ m3.state = Store(mm.state, f, "KERNEL")
           /\ MemInv(m3, Put(Put(B, "free", B["free"] \ {f}), "occupied", B["occupied"] \cup {f}))
<1>0. PICK B2 : B2 = Put(Put(B, "free", B["free"] \ {f}), "occupied", B["occupied"] \cup {f})
  OBVIOUS
<1>1. PICK m1, m2 : /\ m1 = pglist_pop_tail(mm, "free")
                    /\ m2 = [[SetState(m1, f, "KERNEL") EXCEPT !.free_cnt = @ - 1]
                               EXCEPT !.occupied_cnt = @ + 1]
  OBVIOUS
<1>2. mm \in Mem /\ ListsAre(Frames, Lists, mm, B) /\ IsMap(B)
  BY DEF MemInv
<1>3. /\ mm.free_cnt # 0 /\ f # NOPAGE /\ f = mm.tail["free"] /\ mm.state[f] = "AVAILABLE"
      /\ m3 = pglist_push_head(m2, "occupied", f)
  BY <1>1 DEF frame_alloc, ListFor
<1>4. /\ m1 \in Mem /\ m1.state = mm.state
      /\ m1.free_cnt = mm.free_cnt /\ m1.occupied_cnt = mm.occupied_cnt
      /\ f \in Frames /\ f \in B["free"]
      /\ ListBecomes(Frames, Lists, mm, m1, B, "free", B["free"] \ {f})
      /\ LinksKept(mm, m1, Frames \ {f})
  <2>1. mm \in MemType(Frames, Lists, States) /\ ListsAre(Frames, Lists, mm, B)
        /\ NOPAGE \notin Frames /\ "free" \in Lists
    BY <1>2, NoPageNoFrame, ListNames DEF Mem
  <2>2. mm.tail["free"] # NOPAGE /\ f = mm.tail["free"] /\ m1 = pglist_pop_tail(mm, "free")
    BY <1>1, <1>3
  <2>3. TailPopped(Frames, Lists, States, mm, m1, B, "free", f)
    BY <2>1, <2>2, PopLists
  <2> QED  BY <2>3 DEF TailPopped, Mem
<1>5. PICK st : st = Store(mm.state, f, "KERNEL")
  OBVIOUS
<1>6. mm.state \in [Frames -> States] /\ mm.free_cnt \in Int /\ mm.occupied_cnt \in Int
  BY <1>2, MemTypeIs DEF Mem
<1>7. /\ st \in [Frames -> States] /\ st[f] = "KERNEL" /\ "KERNEL" \in States
      /\ \A g \in Frames \ {f} : st[g] = mm.state[g]
  <2>1. "KERNEL" \in States
    BY DEF States
  <2> QED  BY <1>4, <1>5, <1>6, <2>1, StateStore
<1>8. /\ m2 \in Mem /\ m2.state = st /\ m2.free_cnt = mm.free_cnt - 1
      /\ m2.occupied_cnt = mm.occupied_cnt + 1
      /\ m2.next = m1.next /\ m2.prev = m1.prev
      /\ m2.head = m1.head /\ m2.tail = m1.tail
  <2>2. PICK fc, oc : fc = mm.free_cnt - 1 /\ oc = mm.occupied_cnt + 1
    OBVIOUS
  <2>3. m2 = Touched(m1, st, fc, oc)
    BY <1>1, <1>4, <1>5, <2>2 DEF SetState, Mem, MemType, Touched
  <2>4. fc \in Int /\ oc \in Int
    BY <1>6, <2>2
  <2>5. m1 \in Mem /\ st \in [Frames -> States]
    BY <1>4, <1>7
  <2>6. /\ m2 \in Mem /\ m2.state = st /\ m2.free_cnt = fc /\ m2.occupied_cnt = oc
        /\ m2.next = m1.next /\ m2.prev = m1.prev
        /\ m2.head = m1.head /\ m2.tail = m1.tail
    BY <2>3, <2>4, <2>5, MemTouch
  <2> QED  BY <2>2, <2>6
<1>9. PICK B1 : B1 = Put(B, "free", B["free"] \ {f})
  OBVIOUS
<1>10. /\ B1["free"] = B["free"] \ {f}
       /\ \A k \in Lists \ {"free"} : B1[k] = B[k]
  BY <1>2, <1>9, ListNames DEF Put, IsMap
<1>11. ListsAre(Frames, Lists, m1, B1)
  BY <1>4, <1>10 DEF ListBecomes
<1>12. \A l \in Lists \ {"free"} : EndsClean(m1, l)
  BY <1>4 DEF ListBecomes, MemInv
<1>13. ListsAre(Frames, Lists, m2, B1) /\ \A l \in Lists \ {"free"} : EndsClean(m2, l)
  BY <1>8, <1>11, <1>12, KeepLists
<1>14. OffLists(Lists, B1, f)
  BY <1>2, <1>4, <1>10, ListsIn, ListNames DEF OffLists
<1>15. /\ m3 \in Mem /\ m3.state = m2.state
       /\ m3.free_cnt = m2.free_cnt /\ m3.occupied_cnt = m2.occupied_cnt
       /\ ListBecomes(Frames, Lists, m2, m3, B1, "occupied", B1["occupied"] \cup {f})
       /\ EndsClean(m2, "occupied") => EndsClean(m3, "occupied")
       /\ LinksKept(m2, m3, Frames \ (B1["occupied"] \cup {f}))
  <2>1. m2 \in MemType(Frames, Lists, States) /\ ListsAre(Frames, Lists, m2, B1)
        /\ NOPAGE \notin Frames /\ "occupied" \in Lists /\ f \in Frames
    BY <1>4, <1>8, <1>13, NoPageNoFrame, ListNames DEF Mem
  <2>2. HeadPushed(Frames, Lists, States, m2, m3, B1, "occupied", f)
    BY <1>3, <1>14, <2>1, PushLists
  <2> QED  BY <2>2 DEF HeadPushed, Mem
<1>16. /\ IsMap(B2)
       /\ B2["free"] = B["free"] \ {f} /\ B2["occupied"] = B["occupied"] \cup {f}
       /\ \A k \in Lists \ {"free", "occupied"} : B2[k] = B[k]
  BY <1>0, <1>2, <1>4, ListNames DEF Put, IsMap
<1>17. ListsAre(Frames, Lists, m3, B2)
  <2>1. B2["occupied"] = B1["occupied"] \cup {f}
    BY <1>10, <1>16, ListNames
  <2>2. \A k \in Lists \ {"occupied"} : B2[k] = B1[k]
    BY <1>10, <1>16
  <2> QED  BY <1>15, <2>1, <2>2 DEF ListBecomes
<1>18. \A l \in Lists \ {"free"} : EndsClean(m3, l)
  BY <1>13, <1>15, ListNames DEF ListBecomes
<1>19. \A g : Listed(B2, g) <=> Listed(B, g)
  BY <1>16, ListNames DEF Listed
<1>20. StatesAre(st, B2)
  <2>1. StatesAre(mm.state, B)
    BY DEF MemInv
  <2>2. f # 0 /\ ~Listed(B, f)
    BY <1>3, <1>4, <2>1 DEF StatesAre
  <2>3. OthersStay(B, B2, f)
    BY <1>16, <1>19 DEF OthersStay
  <2>4. PlaceIs(B2, f, "KERNEL")
    BY <1>16, <1>19, <2>2 DEF PlaceIs
  <2> QED  BY <1>4, <1>5, <1>6, <1>7, <2>1, <2>2, <2>3, <2>4, StatesMove
<1>21. Counted(m3, B2)
  <2>1. Counted(mm, B) /\ B["free"] \subseteq Frames /\ B["occupied"] \subseteq Frames
        /\ f \notin B["occupied"]
    BY <1>2, <1>4, ListNames, ListsIn DEF MemInv
  <2>2. /\ Cardinality(B["free"] \ {f}) = Cardinality(B["free"]) - 1
        /\ Cardinality(B["occupied"] \cup {f}) = Cardinality(B["occupied"]) + 1
    BY <1>4, <2>1, CountOne
  <2> QED  BY <1>8, <1>15, <1>16, <2>1, <2>2 DEF Counted
<1>22. FloatingUnlinked(m3, B2)
  <2> SUFFICES ASSUME NEW g \in Frames, st[g] = "POOL", ~Listed(B2, g) PROVE Unlinked(m3, g)
    BY <1>8, <1>15 DEF FloatingUnlinked
  <2>1. g # f /\ mm.state[g] = "POOL"
    BY <1>7
  <2>2. Unlinked(mm, g)
    BY <1>19, <2>1 DEF MemInv, FloatingUnlinked
  <2>3. g \notin B1["occupied"]
    <3>1. g \notin B["occupied"]
      BY <2>1 DEF MemInv, StatesAre
    <3> QED  BY <1>10, <3>1, ListNames
  <2> QED  BY <1>4, <1>8, <1>15, <2>1, <2>2, <2>3 DEF Unlinked, LinksKept
<1>23. MemInv(m3, B2)
  BY <1>8, <1>15, <1>16, <1>17, <1>18, <1>20, <1>21, <1>22 DEF MemInv
<1> QED  BY <1>0, <1>4, <1>5, <1>8, <1>15, <1>23

\* What frame_release does last: a frame on no list goes to the free list.
GivenFree(mm, f) ==
    [pglist_push_head(SetState(mm, f, "AVAILABLE"), "free", f) EXCEPT !.free_cnt = @ + 1]

GivenBack(mm, m2, B, f) ==
    /\ m2 \in Mem /\ m2.state = Store(mm.state, f, "AVAILABLE")
    /\ m2.free_cnt = mm.free_cnt + 1 /\ m2.occupied_cnt = mm.occupied_cnt
    /\ ListsAre(Frames, Lists, m2, Put(B, "free", B["free"] \cup {f}))
    /\ \A l \in Lists \ {"free"} : EndsClean(mm, l) => EndsClean(m2, l)
    /\ LinksKept(mm, m2, Frames \ (B["free"] \cup {f}))

\* It makes a memory whose free list has the frame.
LEMMA GiveFree ==
    ASSUME NEW mm \in Mem, NEW B, IsMap(B), ListsAre(Frames, Lists, mm, B),
           NEW f \in Frames, OffLists(Lists, B, f),
           NEW m2, m2 = GivenFree(mm, f)
    PROVE  GivenBack(mm, m2, B, f)
<1>0. PICK B2 : B2 = Put(B, "free", B["free"] \cup {f})
  OBVIOUS
<1>1. PICK st, m0, m1 : /\ st = Store(mm.state, f, "AVAILABLE")
                        /\ m0 = SetState(mm, f, "AVAILABLE")
                        /\ m1 = pglist_push_head(m0, "free", f)
  OBVIOUS
<1>2. mm.state \in [Frames -> States] /\ mm.free_cnt \in Int /\ mm.occupied_cnt \in Int
  BY MemTypeIs DEF Mem
<1>3. st \in [Frames -> States]
  <2>1. "AVAILABLE" \in States
    BY DEF States
  <2> QED  BY <1>1, <1>2, <2>1, StateStore
<1>4. /\ m0 \in Mem /\ m0.state = st
      /\ m0.free_cnt = mm.free_cnt /\ m0.occupied_cnt = mm.occupied_cnt
      /\ m0.next = mm.next /\ m0.prev = mm.prev
      /\ m0.head = mm.head /\ m0.tail = mm.tail
  <2>1. PICK fc, oc : fc = mm.free_cnt /\ oc = mm.occupied_cnt
    OBVIOUS
  <2>2. m0 = Touched(mm, st, fc, oc)
    BY <1>1, <2>1 DEF SetState, Mem, MemType, Touched
  <2> QED  BY <1>2, <1>3, <2>1, <2>2, MemTouch
<1>5. ListsAre(Frames, Lists, m0, B)
      /\ \A l \in Lists : EndsClean(mm, l) => EndsClean(m0, l)
  BY <1>4, KeepLists
<1>6. /\ m1 \in Mem /\ m1.state = m0.state
      /\ m1.free_cnt = m0.free_cnt /\ m1.occupied_cnt = m0.occupied_cnt
      /\ ListBecomes(Frames, Lists, m0, m1, B, "free", B["free"] \cup {f})
      /\ LinksKept(m0, m1, Frames \ (B["free"] \cup {f}))
  <2>1. m0 \in MemType(Frames, Lists, States) /\ NOPAGE \notin Frames /\ "free" \in Lists
    BY <1>4, NoPageNoFrame, ListNames DEF Mem
  <2>3. m1 = pglist_push_head(m0, "free", f) /\ ListsAre(Frames, Lists, m0, B)
    BY <1>1, <1>5
  <2>4. HeadPushed(Frames, Lists, States, m0, m1, B, "free", f)
    BY <2>1, <2>3, PushLists
  <2> QED  BY <2>4 DEF HeadPushed, Mem
<1>8. B2["free"] = B["free"] \cup {f} /\ \A k \in Lists \ {"free"} : B2[k] = B[k]
  BY <1>0, ListNames DEF Put, IsMap
<1>9. /\ ListsAre(Frames, Lists, m1, B2)
      /\ \A l \in Lists \ {"free"} : EndsClean(m0, l) => EndsClean(m1, l)
  BY <1>6, <1>8 DEF ListBecomes
<1>10. /\ m2 \in Mem /\ m2.state = st
       /\ m2.free_cnt = mm.free_cnt + 1 /\ m2.occupied_cnt = mm.occupied_cnt
       /\ m2.next = m1.next /\ m2.prev = m1.prev
       /\ m2.head = m1.head /\ m2.tail = m1.tail
  <2>1. PICK fc, oc : fc = mm.free_cnt + 1 /\ oc = mm.occupied_cnt
    OBVIOUS
  <2>2. m2 = Touched(m1, st, fc, oc)
    BY <1>1, <1>4, <1>6, <2>1 DEF GivenFree, Mem, MemType, Touched
  <2>3. fc \in Int /\ oc \in Int /\ m1 \in Mem
    BY <1>2, <1>6, <2>1
  <2>4. /\ m2 \in Mem /\ m2.state = st /\ m2.free_cnt = fc /\ m2.occupied_cnt = oc
        /\ m2.next = m1.next /\ m2.prev = m1.prev
        /\ m2.head = m1.head /\ m2.tail = m1.tail
    BY <1>3, <2>2, <2>3, MemTouch
  <2> QED  BY <2>1, <2>4
<1>11. /\ ListsAre(Frames, Lists, m2, B2)
       /\ \A l \in Lists : EndsClean(m1, l) => EndsClean(m2, l)
  BY <1>9, <1>10, KeepLists
<1>12. LinksKept(mm, m2, Frames \ (B["free"] \cup {f}))
  BY <1>4, <1>6, <1>10 DEF LinksKept
<1>13. \A l \in Lists \ {"free"} : EndsClean(mm, l) => EndsClean(m2, l)
  BY <1>5, <1>9, <1>11
<1> QED  BY <1>0, <1>1, <1>10, <1>11, <1>12, <1>13 DEF GivenBack

\* A frame that is neither free nor occupied nor listed is on no list.
LEMMA OffIs ==
    ASSUME NEW B, NEW f, f \notin B["free"], f \notin B["occupied"], ~Listed(B, f)
    PROVE  OffLists(Lists, B, f)
BY DEF OffLists, Listed, Lists

\* frame_release of a slab that is on no list.
LEMMA ReleasePool ==
    ASSUME NEW mm, NEW B, MemInv(mm, B), NEW f \in Frames, mm.state[f] = "POOL", ~Listed(B, f),
           NEW m2, m2 = frame_release(mm, f)
    PROVE  m2.state = Store(mm.state, f, "AVAILABLE") /\ MemInv(m2, Put(B, "free", B["free"] \cup {f}))
<1>0. PICK B2 : B2 = Put(B, "free", B["free"] \cup {f})
  OBVIOUS
<1>1. mm \in Mem /\ ListsAre(Frames, Lists, mm, B) /\ IsMap(B)
      /\ StatesAre(mm.state, B) /\ Counted(mm, B)
  BY DEF MemInv
<1>2. m2 = GivenFree(mm, f)
  BY DEF frame_release, ListFor, GivenFree
<1>3. f \notin B["free"] /\ f \notin B["occupied"] /\ f # 0
  BY <1>1 DEF StatesAre
<1>4. OffLists(Lists, B, f)
  BY <1>3, OffIs
<1>5. /\ m2 \in Mem /\ m2.state = Store(mm.state, f, "AVAILABLE")
      /\ m2.free_cnt = mm.free_cnt + 1 /\ m2.occupied_cnt = mm.occupied_cnt
      /\ ListsAre(Frames, Lists, m2, B2)
      /\ \A l \in Lists \ {"free"} : EndsClean(mm, l) => EndsClean(m2, l)
      /\ LinksKept(mm, m2, Frames \ (B["free"] \cup {f}))
  <2>1. GivenBack(mm, m2, B, f)
    BY <1>1, <1>2, <1>4, GiveFree
  <2> QED  BY <1>0, <2>1 DEF GivenBack
<1>6. /\ IsMap(B2) /\ B2["free"] = B["free"] \cup {f}
      /\ \A k \in Lists \ {"free"} : B2[k] = B[k]
  BY <1>0, <1>1, ListNames DEF Put, IsMap
<1>7. B2["occupied"] = B["occupied"] /\ \A g : Listed(B2, g) <=> Listed(B, g)
  BY <1>6, ListNames DEF Listed
<1>8. \A l \in Lists \ {"free"} : EndsClean(m2, l)
  BY <1>5 DEF MemInv
<1>9. mm.state \in [Frames -> States] /\ "AVAILABLE" \in States
  BY <1>1, MemTypeIs DEF Mem, States
<1>10. StatesAre(m2.state, B2)
  <2>1. OthersStay(B, B2, f)
    BY <1>6, <1>7 DEF OthersStay
  <2>2. PlaceIs(B2, f, "AVAILABLE")
    BY <1>3, <1>6, <1>7 DEF PlaceIs
  <2> QED  BY <1>1, <1>3, <1>5, <1>9, <2>1, <2>2, StatesMove
<1>11. Counted(m2, B2)
  <2>1. B["free"] \subseteq Frames
    BY <1>1, ListNames, MapIn
  <2>2. Cardinality(B["free"] \cup {f}) = Cardinality(B["free"]) + 1
    BY <1>3, <2>1, CountOne
  <2> QED  BY <1>1, <1>5, <1>6, <1>7, <2>2 DEF Counted
<1>12. FloatingUnlinked(m2, B2)
  <2> SUFFICES ASSUME NEW g \in Frames, m2.state[g] = "POOL", ~Listed(B2, g) PROVE Unlinked(m2, g)
    BY DEF FloatingUnlinked
  <2>1. g # f /\ mm.state[g] = "POOL"
    BY <1>5, <1>9, StateStore
  <2>2. Unlinked(mm, g)
    BY <1>7, <2>1 DEF MemInv, FloatingUnlinked
  <2>3. g \notin B["free"]
    BY <1>1, <2>1 DEF StatesAre
  <2> QED  BY <1>5, <2>1, <2>2, <2>3 DEF Unlinked, LinksKept
<1> QED  BY <1>0, <1>5, <1>6, <1>8, <1>10, <1>11, <1>12 DEF MemInv

\* frame_release of a frame of another part of the kernel.
LEMMA ReleaseKernel ==
    ASSUME NEW mm, NEW B, MemInv(mm, B), NEW f \in Frames, mm.state[f] = "KERNEL",
           NEW m2, m2 = frame_release(mm, f)
    PROVE  /\ m2.state = Store(mm.state, f, "AVAILABLE")
           /\ MemInv(m2, Put(Put(B, "occupied", B["occupied"] \ {f}), "free", B["free"] \cup {f}))
<1>0. PICK B2 : B2 = Put(Put(B, "occupied", B["occupied"] \ {f}), "free", B["free"] \cup {f})
  OBVIOUS
<1>1. mm \in Mem /\ ListsAre(Frames, Lists, mm, B) /\ IsMap(B)
      /\ StatesAre(mm.state, B) /\ Counted(mm, B) /\ EndsClean(mm, "occupied")
  BY ListNames DEF MemInv
<1>2. PICK m0, m1 : /\ m0 = pglist_remove(mm, "occupied", f)
                    /\ m1 = [m0 EXCEPT !.occupied_cnt = @ - 1]
  OBVIOUS
<1>3. f \notin B["free"] /\ f \in B["occupied"] /\ f # 0 /\ ~Listed(B, f)
  BY <1>1 DEF StatesAre
<1>4. /\ m0 \in Mem /\ m0.state = mm.state
      /\ m0.free_cnt = mm.free_cnt /\ m0.occupied_cnt = mm.occupied_cnt
      /\ ListBecomes(Frames, Lists, mm, m0, B, "occupied", B["occupied"] \ {f})
      /\ EndsClean(m0, "occupied")
      /\ LinksKept(mm, m0, Frames \ B["occupied"])
  <2>1. mm \in MemType(Frames, Lists, States) /\ NOPAGE \notin Frames /\ "occupied" \in Lists
    BY <1>1, NoPageNoFrame, ListNames DEF Mem
  <2>2. m0 = pglist_remove(mm, "occupied", f) /\ ListsAre(Frames, Lists, mm, B)
        /\ EndsClean(mm, "occupied") /\ f \in B["occupied"]
    BY <1>1, <1>2, <1>3
  <2>3. PageRemoved(Frames, Lists, States, mm, m0, B, "occupied", f)
    BY <2>1, <2>2, RemoveLists
  <2> QED  BY <2>3 DEF PageRemoved, Mem
<1>5. mm.state \in [Frames -> States] /\ "AVAILABLE" \in States
      /\ mm.free_cnt \in Int /\ mm.occupied_cnt \in Int
  BY <1>1, MemTypeIs DEF Mem, States
<1>6. /\ m1 \in Mem /\ m1.state = mm.state /\ m1.free_cnt = mm.free_cnt
      /\ m1.occupied_cnt = mm.occupied_cnt - 1
      /\ m1.next = m0.next /\ m1.prev = m0.prev
      /\ m1.head = m0.head /\ m1.tail = m0.tail
  <2>1. PICK st, fc, oc : st = mm.state /\ fc = mm.free_cnt /\ oc = mm.occupied_cnt - 1
    OBVIOUS
  <2>2. m1 = Touched(m0, st, fc, oc)
    BY <1>2, <1>4, <2>1 DEF Mem, MemType, Touched
  <2>3. st \in [Frames -> States] /\ fc \in Int /\ oc \in Int /\ m0 \in Mem
    BY <1>4, <1>5, <2>1
  <2>4. /\ m1 \in Mem /\ m1.state = st /\ m1.free_cnt = fc /\ m1.occupied_cnt = oc
        /\ m1.next = m0.next /\ m1.prev = m0.prev
        /\ m1.head = m0.head /\ m1.tail = m0.tail
    BY <2>2, <2>3, MemTouch
  <2> QED  BY <2>1, <2>4
<1>7. PICK B1 : B1 = Put(B, "occupied", B["occupied"] \ {f})
  OBVIOUS
<1>8. /\ IsMap(B1) /\ B1["occupied"] = B["occupied"] \ {f}
      /\ \A k \in Lists \ {"occupied"} : B1[k] = B[k]
  BY <1>1, <1>7, ListNames DEF Put, IsMap
<1>9. ListsAre(Frames, Lists, m0, B1)
  BY <1>4, <1>8 DEF ListBecomes
<1>10. \A l \in Lists \ {"free"} : EndsClean(m0, l)
  BY <1>4 DEF ListBecomes, MemInv
<1>11. ListsAre(Frames, Lists, m1, B1) /\ \A l \in Lists \ {"free"} : EndsClean(m1, l)
  BY <1>6, <1>9, <1>10, KeepLists
<1>12. B1["free"] = B["free"] /\ \A g : Listed(B1, g) <=> Listed(B, g)
  BY <1>8, ListNames DEF Listed
<1>13. OffLists(Lists, B1, f)
  BY <1>3, <1>8, <1>12, OffIs
<1>14. m2 = GivenFree(m1, f)
  BY <1>2 DEF frame_release, ListFor, GivenFree
<1>15. B2 = Put(B1, "free", B1["free"] \cup {f})
  BY <1>0, <1>7, <1>12
<1>16. /\ m2 \in Mem /\ m2.state = Store(m1.state, f, "AVAILABLE")
       /\ m2.free_cnt = m1.free_cnt + 1 /\ m2.occupied_cnt = m1.occupied_cnt
       /\ ListsAre(Frames, Lists, m2, B2)
       /\ \A l \in Lists \ {"free"} : EndsClean(m1, l) => EndsClean(m2, l)
       /\ LinksKept(m1, m2, Frames \ (B1["free"] \cup {f}))
  <2>1. m1 \in Mem /\ IsMap(B1) /\ ListsAre(Frames, Lists, m1, B1)
    BY <1>6, <1>8, <1>11
  <2>2. GivenBack(m1, m2, B1, f)
    BY <1>13, <1>14, <2>1, GiveFree
  <2> QED  BY <1>15, <2>2 DEF GivenBack
<1>17. /\ IsMap(B2)
       /\ B2["free"] = B["free"] \cup {f} /\ B2["occupied"] = B["occupied"] \ {f}
       /\ \A k \in Lists \ {"free", "occupied"} : B2[k] = B[k]
  BY <1>0, <1>1, ListNames DEF Put, IsMap
<1>18. \A g : Listed(B2, g) <=> Listed(B, g)
  BY <1>17, ListNames DEF Listed
<1>19. \A l \in Lists \ {"free"} : EndsClean(m2, l)
  BY <1>11, <1>16
<1>20. StatesAre(m2.state, B2)
  <2>1. OthersStay(B, B2, f)
    BY <1>17, <1>18 DEF OthersStay
  <2>2. PlaceIs(B2, f, "AVAILABLE")
    BY <1>3, <1>17, <1>18 DEF PlaceIs
  <2>3. m2.state = Store(mm.state, f, "AVAILABLE")
    BY <1>6, <1>16
  <2> QED  BY <1>1, <1>3, <1>5, <2>1, <2>2, <2>3, StatesMove
<1>21. Counted(m2, B2)
  <2>1. B["free"] \subseteq Frames /\ B["occupied"] \subseteq Frames
    BY <1>1, ListNames, MapIn
  <2>2. /\ Cardinality(B["free"] \cup {f}) = Cardinality(B["free"]) + 1
        /\ Cardinality(B["occupied"] \ {f}) = Cardinality(B["occupied"]) - 1
    BY <1>3, <2>1, CountOne
  <2> QED  BY <1>1, <1>6, <1>16, <1>17, <2>2 DEF Counted
<1>22. FloatingUnlinked(m2, B2)
  <2> SUFFICES ASSUME NEW g \in Frames, m2.state[g] = "POOL", ~Listed(B2, g) PROVE Unlinked(m2, g)
    BY DEF FloatingUnlinked
  <2>1. g # f /\ mm.state[g] = "POOL"
    BY <1>5, <1>6, <1>16, StateStore
  <2>2. Unlinked(mm, g)
    BY <1>18, <2>1 DEF MemInv, FloatingUnlinked
  <2>3. g \notin B["free"] /\ g \notin B["occupied"]
    BY <1>1, <2>1 DEF StatesAre
  <2> QED  BY <1>4, <1>6, <1>12, <1>16, <2>1, <2>2, <2>3 DEF Unlinked, LinksKept
<1> QED  BY <1>0, <1>6, <1>16, <1>17, <1>19, <1>20, <1>21, <1>22 DEF MemInv

\* pglist_push_tail of a slab that is on no list.
LEMMA ListSlab ==
    ASSUME NEW mm, NEW B, MemInv(mm, B), NEW f \in Frames, mm.state[f] = "POOL", ~Listed(B, f),
           NEW c \in Classes, NEW m2, m2 = pglist_push_tail(mm, c, f)
    PROVE  m2.state = mm.state /\ MemInv(m2, Put(B, c, B[c] \cup {f}))
<1>0. PICK B2 : B2 = Put(B, c, B[c] \cup {f})
  OBVIOUS
<1>1. mm \in Mem /\ ListsAre(Frames, Lists, mm, B) /\ IsMap(B)
      /\ StatesAre(mm.state, B) /\ Counted(mm, B) /\ c \in Lists /\ c # "free" /\ c # "occupied"
  BY ListNames DEF MemInv
<1>2. f \notin B["free"] /\ f \notin B["occupied"] /\ f # 0
  BY <1>1 DEF StatesAre
<1>3. OffLists(Lists, B, f)
  BY <1>2, OffIs
<1>4. /\ m2 \in Mem /\ m2.state = mm.state
      /\ m2.free_cnt = mm.free_cnt /\ m2.occupied_cnt = mm.occupied_cnt
      /\ ListBecomes(Frames, Lists, mm, m2, B, c, B[c] \cup {f})
      /\ EndsClean(m2, c)
      /\ LinksKept(mm, m2, Frames \ (B[c] \cup {f}))
  <2>1. mm \in MemType(Frames, Lists, States) /\ NOPAGE \notin Frames /\ c \in Lists
        /\ ListsAre(Frames, Lists, mm, B)
    BY <1>1, NoPageNoFrame DEF Mem
  <2>2. TailPushed(Frames, Lists, States, mm, m2, B, c, f)
    BY <1>3, <2>1, PushTailLists
  <2> QED  BY <2>2 DEF TailPushed, Mem
<1>5. /\ IsMap(B2) /\ B2[c] = B[c] \cup {f}
      /\ \A k \in Lists \ {c} : B2[k] = B[k]
  BY <1>0, <1>1 DEF Put, IsMap
<1>6. B2["free"] = B["free"] /\ B2["occupied"] = B["occupied"]
      /\ \A g : Listed(B2, g) <=> (g = f \/ Listed(B, g))
  BY <1>1, <1>5, ListNames DEF Listed
<1>7. ListsAre(Frames, Lists, m2, B2) /\ \A l \in Lists \ {"free"} : EndsClean(m2, l)
  BY <1>4, <1>5 DEF ListBecomes, MemInv
<1>8. StatesAre(m2.state, B2)
  BY <1>1, <1>4, <1>6 DEF StatesAre
<1>9. Counted(m2, B2)
  BY <1>1, <1>4, <1>6 DEF Counted
<1>10. FloatingUnlinked(m2, B2)
  <2> SUFFICES ASSUME NEW g \in Frames, mm.state[g] = "POOL", ~Listed(B2, g) PROVE Unlinked(m2, g)
    BY <1>4 DEF FloatingUnlinked
  <2>1. Unlinked(mm, g) /\ g # f /\ g \notin B[c]
    BY <1>6 DEF MemInv, FloatingUnlinked, Listed
  <2> QED  BY <1>4, <2>1 DEF Unlinked, LinksKept
<1> QED  BY <1>0, <1>4, <1>5, <1>7, <1>8, <1>9, <1>10 DEF MemInv

\* pglist_remove of a slab from its partial list.
LEMMA UnlistSlab ==
    ASSUME NEW mm, NEW B, MemInv(mm, B), NEW c \in Classes, NEW f \in B[c],
           NEW m2, m2 = pglist_remove(mm, c, f)
    PROVE  m2.state = mm.state /\ MemInv(m2, Put(B, c, B[c] \ {f})) /\ ~Listed(Put(B, c, B[c] \ {f}), f)
<1>0. PICK B2 : B2 = Put(B, c, B[c] \ {f})
  OBVIOUS
<1>1. mm \in Mem /\ ListsAre(Frames, Lists, mm, B) /\ IsMap(B)
      /\ StatesAre(mm.state, B) /\ Counted(mm, B) /\ c \in Lists /\ c # "free" /\ c # "occupied"
      /\ EndsClean(mm, c)
  BY ListNames DEF MemInv
<1>2. /\ m2 \in Mem /\ m2.state = mm.state
      /\ m2.free_cnt = mm.free_cnt /\ m2.occupied_cnt = mm.occupied_cnt
      /\ ListBecomes(Frames, Lists, mm, m2, B, c, B[c] \ {f})
      /\ EndsClean(m2, c)
      /\ LinksKept(mm, m2, Frames \ B[c]) /\ Unlinked(m2, f)
  <2>1. mm \in MemType(Frames, Lists, States) /\ NOPAGE \notin Frames /\ c \in Lists
        /\ ListsAre(Frames, Lists, mm, B) /\ EndsClean(mm, c)
    BY <1>1, NoPageNoFrame DEF Mem
  <2>2. PageRemoved(Frames, Lists, States, mm, m2, B, c, f)
    BY <2>1, RemoveLists
  <2> QED  BY <2>2 DEF PageRemoved, Mem
<1>3. /\ IsMap(B2) /\ B2[c] = B[c] \ {f}
      /\ \A k \in Lists \ {c} : B2[k] = B[k]
  BY <1>0, <1>1 DEF Put, IsMap
<1>4. \A k \in Lists \ {c} : f \notin B[k]
  BY <1>1, ListsIn
<1>5. B2["free"] = B["free"] /\ B2["occupied"] = B["occupied"]
      /\ \A g : Listed(B2, g) <=> (g # f /\ Listed(B, g))
  BY <1>1, <1>3, <1>4, ListNames DEF Listed
<1>6. ListsAre(Frames, Lists, m2, B2) /\ \A l \in Lists \ {"free"} : EndsClean(m2, l)
  BY <1>2, <1>3 DEF ListBecomes, MemInv
<1>7. StatesAre(m2.state, B2)
  BY <1>1, <1>2, <1>5 DEF StatesAre
<1>8. Counted(m2, B2)
  BY <1>1, <1>2, <1>5 DEF Counted
<1>9. FloatingUnlinked(m2, B2)
  <2> SUFFICES ASSUME NEW g \in Frames, mm.state[g] = "POOL", ~Listed(B2, g) PROVE Unlinked(m2, g)
    BY <1>2 DEF FloatingUnlinked
  <2>1. CASE g = f
    BY <1>2, <2>1
  <2>2. CASE g # f
    <3>1. Unlinked(mm, g) /\ g \notin B[c]
      BY <1>5, <2>2 DEF MemInv, FloatingUnlinked, Listed
    <3> QED  BY <1>2, <3>1 DEF Unlinked, LinksKept
  <2> QED  BY <2>1, <2>2
<1> QED  BY <1>0, <1>2, <1>3, <1>5, <1>6, <1>7, <1>8, <1>9 DEF MemInv

-----------------------------------------------------------------------------
\* The addresses in slab f that are in use, and the objects that are not.
Uses(L, f) == {a \in DOMAIN L : a[1] = f}
FreeObjs(L, f, n) == {o \in 0 .. n - 1 : <<f, o>> \notin DOMAIN L}

\* A slab of class c: its chain, from h, holds the objects nobody uses; n are used.
SlabOk(lk, h, n, L, c, f) ==
    /\ c \in Classes
    /\ FreeIs(lk, h, FreeObjs(L, f, ObjCnt(c)))
    /\ n = Cardinality(Uses(L, f))

\* The uses of a slab can be counted, and are no more than fit in.
LEMMA UsesFinite ==
    ASSUME NEW L, DOMAIN L \subseteq Frames \X Offsets, NEW f
    PROVE  IsFiniteSet(Uses(L, f)) /\ Cardinality(Uses(L, f)) \in 0 .. PageSize
<1>1. IsFiniteSet(Offsets) /\ Cardinality(Offsets) = PageSize
  <2>1. 0 \in Int /\ PageSize - 1 \in Int /\ PageSize \in Nat
    BY SlabAssumption
  <2>2. IsFiniteSet(0 .. PageSize - 1)
        /\ Cardinality(0 .. PageSize - 1) = IF 0 > PageSize - 1 THEN 0 ELSE (PageSize - 1) - 0 + 1
    BY <2>1, FS_Interval
  <2> QED  BY <2>2, SlabAssumption DEF Offsets
<1> DEFINE g == [a \in Uses(L, f) |-> a[2]]
<1>2. g \in Injection(Uses(L, f), Offsets)
  <2>1. \A a \in Uses(L, f) : a \in Frames \X Offsets /\ a[1] = f
    BY DEF Uses
  <2>2. \A a \in Uses(L, f) : a[2] \in Offsets /\ a = <<f, a[2]>>
    BY <2>1
  <2> QED  BY <2>2 DEF Injection, IsInjective
<1> HIDE DEF g
<1>3. IsFiniteSet(Uses(L, f)) /\ Cardinality(Uses(L, f)) <= Cardinality(Offsets)
  BY <1>1, <1>2, FS_Injection
<1>4. Cardinality(Uses(L, f)) \in Nat
  BY <1>3, FS_CardinalityType
<1> QED  BY <1>1, <1>3, <1>4, SlabAssumption

\* What happens in other slabs does not matter.
LEMMA OtherSlab ==
    ASSUME NEW lk, NEW h, NEW n, NEW L, NEW c, NEW g, SlabOk(lk, h, n, L, c, g),
           NEW L2, \A a : a[1] = g => (a \in DOMAIN L2 <=> a \in DOMAIN L)
    PROVE  SlabOk(lk, h, n, L2, c, g)
<1>1. Uses(L2, g) = Uses(L, g)
  BY DEF Uses
<1>2. FreeObjs(L2, g, ObjCnt(c)) = FreeObjs(L, g, ObjCnt(c))
  BY DEF FreeObjs
<1> QED  BY <1>1, <1>2 DEF SlabOk

\* cache_obj_alloc takes an object nobody uses.
LEMMA TakeObj ==
    ASSUME NEW lk, NEW h, NEW n, NEW L, NEW c, NEW f \in Frames, SlabOk(lk, h, n, L, c, f),
           DOMAIN L \subseteq Frames \X Offsets, h # NOOBJ,
           NEW g, g = lk[h], NEW L2, DOMAIN L2 = DOMAIN L \cup {<<f, h>>}
    PROVE  /\ h \in Offsets /\ h < ObjCnt(c) /\ <<f, h>> \notin DOMAIN L
           /\ g \in Offsets \cup {NOOBJ}
           /\ SlabOk(lk, g, n + 1, L2, c, f) /\ n + 1 \in 0 .. PageSize
<1>1. PICK N \in 1 .. PageSize : N = ObjCnt(c)
  BY ObjCntIs DEF SlabOk
<1>2. PICK S : S = FreeObjs(L, f, N)
  OBVIOUS
<1>3. FreeIs(lk, h, S) /\ n = Cardinality(Uses(L, f)) /\ c \in Classes
  BY <1>1, <1>2 DEF SlabOk
<1>4. h \in S /\ h \in Offsets
  BY <1>3, FreeHead
<1>5. h \in 0 .. N - 1 /\ <<f, h>> \notin DOMAIN L
  BY <1>2, <1>4 DEF FreeObjs
<1>6. FreeIs(lk, g, S \ {h}) /\ g \in Offsets \cup {NOOBJ}
  BY <1>3, FreePop
<1>7. FreeObjs(L2, f, N) = S \ {h}
  BY <1>2 DEF FreeObjs
<1>8. Uses(L2, f) = Uses(L, f) \cup {<<f, h>>} /\ <<f, h>> \notin Uses(L, f)
  BY <1>5 DEF Uses
<1>9. IsFiniteSet(Uses(L, f)) /\ Cardinality(Uses(L, f)) \in 0 .. PageSize
  BY UsesFinite
<1>10. Cardinality(Uses(L2, f)) = n + 1
  BY <1>3, <1>8, <1>9, FS_AddElement
<1>11. n + 1 \in 0 .. PageSize
  <2>1. DOMAIN L2 \subseteq Frames \X Offsets
    BY <1>4
  <2> QED  BY <1>10, <2>1, UsesFinite
<1>12. h < N
  BY <1>5
<1> QED  BY <1>1, <1>3, <1>4, <1>5, <1>6, <1>7, <1>10, <1>11, <1>12 DEF SlabOk

\* cache_obj_release puts an object back that somebody used.
LEMMA PutObj ==
    ASSUME NEW lk \in NextObjs, NEW h, NEW n, NEW L, NEW c, NEW f, SlabOk(lk, h, n, L, c, f),
           DOMAIN L \subseteq Frames \X Offsets, NEW o \in 0 .. ObjCnt(c) - 1,
           <<f, o>> \in DOMAIN L, NEW L2, DOMAIN L2 = DOMAIN L \ {<<f, o>>}
    PROVE  /\ SlabOk(Store(lk, o, h), o, n - 1, L2, c, f) /\ Store(lk, o, h) \in NextObjs
           /\ n - 1 \in 0 .. PageSize /\ (n = 1 => Uses(L2, f) = {})
<1>1. PICK N \in 1 .. PageSize : N = ObjCnt(c)
  BY ObjCntIs DEF SlabOk
<1>2. PICK S : S = FreeObjs(L, f, N)
  OBVIOUS
<1>3. FreeIs(lk, h, S) /\ n = Cardinality(Uses(L, f)) /\ c \in Classes
  BY <1>1, <1>2 DEF SlabOk
<1>4. o \in Offsets /\ o \notin S /\ o \in 0 .. N - 1
  BY <1>1, <1>2, SlabAssumption DEF FreeObjs, Offsets
<1>5. FreeIs(Store(lk, o, h), o, S \cup {o}) /\ Store(lk, o, h) \in NextObjs
  BY <1>3, <1>4, FreePush
<1>6. FreeObjs(L2, f, N) = S \cup {o}
  BY <1>2, <1>4 DEF FreeObjs
<1>7. Uses(L2, f) = Uses(L, f) \ {<<f, o>>} /\ <<f, o>> \in Uses(L, f)
  BY DEF Uses
<1>8. IsFiniteSet(Uses(L, f)) /\ Cardinality(Uses(L, f)) \in 0 .. PageSize
  BY UsesFinite
<1>9. IsFiniteSet(Uses(L2, f)) /\ Cardinality(Uses(L2, f)) = n - 1
  BY <1>3, <1>7, <1>8, FS_RemoveElement
<1>10. n - 1 \in 0 .. PageSize
  <2>1. DOMAIN L2 \subseteq Frames \X Offsets
    OBVIOUS
  <2> QED  BY <1>9, <2>1, UsesFinite
<1>11. n = 1 => Uses(L2, f) = {}
  BY <1>9, FS_EmptySet
<1> QED  BY <1>1, <1>3, <1>5, <1>6, <1>9, <1>10, <1>11 DEF SlabOk

\* A fresh slab: nobody uses its objects.
LEMMA FreshOk ==
    ASSUME NEW lk, NEW c \in Classes, NEW L, NEW f, Uses(L, f) = {},
           \A o \in 0 .. ObjCnt(c) - 2 : lk[o] = o + 1, lk[ObjCnt(c) - 1] = NOOBJ
    PROVE  SlabOk(lk, 0, 0, L, c, f)
<1>1. PICK N \in 1 .. PageSize : N = ObjCnt(c)
  BY ObjCntIs
<1>2. FreeIs(lk, 0, 0 .. N - 1)
  BY <1>1, FreshIs
<1>3. FreeObjs(L, f, N) = 0 .. N - 1
  BY DEF FreeObjs, Uses
<1>4. Cardinality(Uses(L, f)) = 0
  BY FS_EmptySet
<1> QED  BY <1>1, <1>2, <1>3, <1>4 DEF SlabOk

-----------------------------------------------------------------------------
SlabState ==
    [m : Mem, obj : [Frames -> Offsets \cup {NOOBJ}], inuse : [Frames -> 0 .. PageSize],
     link : [Frames -> NextObjs], cnt : [Classes -> Nat]]

\* An address in use lies in a slab of the class its size has.
LiveOk(L, st, own, a) ==
    /\ a \in Frames \X Offsets /\ L[a] \in Sizes
    /\ st[a[1]] = "POOL" /\ a[2] < ObjCnt(own[a[1]])
    /\ get_kmalloc_cache(L[a]) = own[a[1]]

\* Every slab is sound, for the class own says it has, and every address in use is.
ObjInv(s, L, own) ==
    /\ \A f \in Frames : s.m.state[f] = "POOL" =>
          SlabOk(s.link[f], s.obj[f], s.inuse[f], L, own[f], f)
    /\ \A a \in DOMAIN L : LiveOk(L, s.m.state, own, a)

\* A partial list holds the slabs of its class that have a free object, and
\* partial_cnt is not less than their number.
PartialIs(s, own, B) ==
    \A c \in Classes : \A f \in Frames :
        f \in B[c] <=> s.m.state[f] = "POOL" /\ own[f] = c /\ s.obj[f] # NOOBJ
CntCovers(s, B) == \A c \in Classes : s.cnt[c] >= Cardinality(B[c])
ListInv(s, own, B) == MemInv(s.m, B) /\ PartialIs(s, own, B) /\ CntCovers(s, B)

Sound(s, L, own, B) == s \in SlabState /\ ObjInv(s, L, own) /\ ListInv(s, own, B)

\* The state s is sound, and other parts of the kernel hold the frames occ.
SoundFor(s, L, occ) == \E own, B : Sound(s, L, own, B) /\ B["occupied"] = occ

\* What the fields of a state are.
LEMMA SlabStateIs ==
    ASSUME NEW s \in SlabState
    PROVE  /\ s.m \in Mem /\ s.obj \in [Frames -> Offsets \cup {NOOBJ}]
           /\ s.inuse \in [Frames -> 0 .. PageSize] /\ s.link \in [Frames -> NextObjs]
           /\ s.cnt \in [Classes -> Nat] /\ s.m.state \in [Frames -> States]
<1>1. /\ s.m \in Mem /\ s.obj \in [Frames -> Offsets \cup {NOOBJ}]
      /\ s.inuse \in [Frames -> 0 .. PageSize] /\ s.link \in [Frames -> NextObjs]
      /\ s.cnt \in [Classes -> Nat]
  BY DEF SlabState
<1>2. s.m.state \in [Frames -> States]
  BY <1>1, MemTypeIs DEF Mem
<1> QED  BY <1>1, <1>2

\* Addresses in use are addresses.
LEMMA LiveIn2 ==
    ASSUME NEW s, NEW L, NEW own, ObjInv(s, L, own)
    PROVE  DOMAIN L \subseteq Frames \X Offsets
BY DEF ObjInv, LiveOk

\* Only slab f changes, and the addresses in it.
OnlySlab(s, s2, L, L2, own, own2, f) ==
    /\ \A g \in Frames \ {f} :
          /\ s2.m.state[g] = s.m.state[g] /\ own2[g] = own[g] /\ s2.obj[g] = s.obj[g]
          /\ s2.inuse[g] = s.inuse[g] /\ s2.link[g] = s.link[g]
    /\ \A a : a[1] # f => (a \in DOMAIN L2 <=> a \in DOMAIN L)
    /\ \A a \in DOMAIN L : a[1] # f => L2[a] = L[a]

\* Then it is enough to look at slab f.
LEMMA ObjStep ==
    ASSUME NEW s, NEW L, NEW own, ObjInv(s, L, own), NEW f \in Frames, NEW s2, NEW L2, NEW own2,
           OnlySlab(s, s2, L, L2, own, own2, f),
           s2.m.state[f] = "POOL" => SlabOk(s2.link[f], s2.obj[f], s2.inuse[f], L2, own2[f], f),
           \A a \in DOMAIN L2 : a[1] = f => LiveOk(L2, s2.m.state, own2, a)
    PROVE  ObjInv(s2, L2, own2)
<1>1. ASSUME NEW g \in Frames, s2.m.state[g] = "POOL"
      PROVE  SlabOk(s2.link[g], s2.obj[g], s2.inuse[g], L2, own2[g], g)
  <2>1. CASE g = f
    BY <1>1, <2>1
  <2>2. CASE g # f
    <3>1. PICK lk, h, n, c : lk = s.link[g] /\ h = s.obj[g] /\ n = s.inuse[g] /\ c = own[g]
      OBVIOUS
    <3>2. s2.link[g] = lk /\ s2.obj[g] = h /\ s2.inuse[g] = n /\ own2[g] = c
          /\ s.m.state[g] = "POOL"
      BY <1>1, <2>2, <3>1 DEF OnlySlab
    <3>3. SlabOk(lk, h, n, L, c, g)
      BY <3>1, <3>2 DEF ObjInv
    <3>4. \A a : a[1] = g => (a \in DOMAIN L2 <=> a \in DOMAIN L)
      BY <2>2 DEF OnlySlab
    <3>5. SlabOk(lk, h, n, L2, c, g)
      BY <3>3, <3>4, OtherSlab
    <3> QED  BY <3>2, <3>5
  <2> QED  BY <2>1, <2>2
<1>2. ASSUME NEW a \in DOMAIN L2 PROVE LiveOk(L2, s2.m.state, own2, a)
  <2>1. CASE a[1] = f
    BY <2>1
  <2>2. CASE a[1] # f
    <3>1. a \in DOMAIN L /\ L2[a] = L[a]
      BY <2>2 DEF OnlySlab
    <3>2. LiveOk(L, s.m.state, own, a)
      BY <3>1 DEF ObjInv
    <3>3. PICK g \in Frames : g = a[1] /\ g # f
      BY <2>2, <3>2 DEF LiveOk
    <3>4. s2.m.state[g] = s.m.state[g] /\ own2[g] = own[g]
      BY <3>3 DEF OnlySlab
    <3> QED  BY <3>1, <3>2, <3>3, <3>4 DEF LiveOk
  <2> QED  BY <2>1, <2>2
<1> QED  BY <1>1, <1>2 DEF ObjInv

\* A frame that is not a slab has no object in use.
LEMMA NoUses ==
    ASSUME NEW s, NEW L, NEW own, ObjInv(s, L, own), NEW f, s.m.state[f] # "POOL"
    PROVE  Uses(L, f) = {}
BY DEF ObjInv, LiveOk, Uses

\* A state put together from its parts.
Parts(mm, ob, iu, lk, cn) == [m |-> mm, obj |-> ob, inuse |-> iu, link |-> lk, cnt |-> cn]

\* They are its fields.
LEMMA PartsIs ==
    ASSUME NEW mm \in Mem, NEW ob \in [Frames -> Offsets \cup {NOOBJ}],
           NEW iu \in [Frames -> 0 .. PageSize], NEW lk \in [Frames -> NextObjs],
           NEW cn \in [Classes -> Nat], NEW s, s = Parts(mm, ob, iu, lk, cn)
    PROVE  s \in SlabState /\ s.m = mm /\ s.obj = ob /\ s.inuse = iu /\ s.link = lk /\ s.cnt = cn
BY DEF SlabState, Parts

\* cache_add_slab: a cache without a partial slab gets a fresh one.
LEMMA AddSlab ==
    ASSUME NEW s, NEW L, NEW own, NEW B, Sound(s, L, own, B), NEW c \in Classes,
           NEW a, a = frame_alloc(s.m, "POOL"), NEW f, f = a.frame, f \notin {0, NOPAGE},
           NEW s2, s2 = cache_add_slab(s, c, f, a.mem)
    PROVE  \E own2, B2 : Sound(s2, L, own2, B2) /\ B2["occupied"] = B["occupied"] /\ B2[c] # {}
<1>1. /\ s \in SlabState /\ ObjInv(s, L, own) /\ MemInv(s.m, B) /\ PartialIs(s, own, B)
      /\ CntCovers(s, B)
  BY DEF Sound, ListInv
<1>2. PICK mm, m1, m2 : mm = s.m /\ m1 = a.mem /\ m2 = pglist_push_tail(m1, c, f)
  OBVIOUS
<1>3. PICK B1, B2 : B1 = Put(B, "free", B["free"] \ {f}) /\ B2 = Put(B1, c, B1[c] \cup {f})
  OBVIOUS
<1>4. f \in Frames /\ f \in B["free"] /\ m1.state = Store(mm.state, f, "POOL") /\ MemInv(m1, B1)
  BY <1>1, <1>2, <1>3, AllocPool
<1>5. mm.state \in [Frames -> States] /\ "POOL" \in States
  BY <1>1, <1>2, SlabStateIs DEF States
<1>6. m1.state[f] = "POOL" /\ \A g \in Frames \ {f} : m1.state[g] = mm.state[g]
  BY <1>4, <1>5, StateStore
<1>7. IsMap(B) /\ IsMap(B1) /\ ListsAre(Frames, Lists, mm, B) /\ mm.state[f] = "AVAILABLE"
  BY <1>1, <1>2, <1>4 DEF MemInv, StatesAre
<1>8. /\ B1["free"] = B["free"] \ {f} /\ \A k \in Lists \ {"free"} : B1[k] = B[k]
  <2>1. B["free"] \ {f} \subseteq Frames /\ "free" \in Lists
    BY <1>7, MapIn, ListNames
  <2> QED  BY <1>3, <1>7, <2>1, PutIs
<1>9. /\ B2[c] = B1[c] \cup {f} /\ \A k \in Lists \ {c} : B2[k] = B1[k]
  <2>1. PICK S : S = B1[c] \cup {f}
    OBVIOUS
  <2>2. S \subseteq Frames /\ c \in Lists /\ IsMap(B1) /\ B2 = Put(B1, c, S)
    BY <1>3, <1>4, <1>7, <2>1, MapIn, ListNames
  <2>3. B2[c] = S /\ \A k \in Lists \ {c} : B2[k] = B1[k]
    BY <2>2, PutIs
  <2> QED  BY <2>1, <2>3
<1>10. \A d \in Classes : B2[d] = IF d = c THEN B[d] \cup {f} ELSE B[d]
  BY <1>8, <1>9, ListNames
<1>11. B2["occupied"] = B["occupied"]
  BY <1>8, <1>9, ListNames
<1>12. \A d \in Classes : f \notin B[d] /\ B[d] \subseteq Frames
  BY <1>4, <1>7, ListsIn, ListNames, MapIn
<1>13. ~Listed(B1, f)
  BY <1>8, <1>12, ListNames DEF Listed
<1>14. m2.state = m1.state /\ MemInv(m2, B2)
  <2>1. /\ MemInv(m1, B1) /\ f \in Frames /\ m1.state[f] = "POOL" /\ ~Listed(B1, f)
        /\ m2 = pglist_push_tail(m1, c, f)
    BY <1>2, <1>4, <1>6, <1>13
  <2>2. m2.state = m1.state /\ MemInv(m2, Put(B1, c, B1[c] \cup {f}))
    BY <2>1, ListSlab
  <2> QED  BY <1>3, <2>2
<1>15. PICK ob, iu, lk, cn :
         /\ ob = Store(s.obj, f, 0) /\ iu = Store(s.inuse, f, 0)
         /\ lk = Store(s.link, f, [o \in Offsets |-> IF o < ObjCnt(c) - 1 THEN o + 1
                                                     ELSE IF o = ObjCnt(c) - 1 THEN NOOBJ
                                                     ELSE s.link[f][o]])
         /\ cn = Store(s.cnt, c, s.cnt[c] + 1)
  OBVIOUS
<1>16. s2 = Parts(m2, ob, iu, lk, cn)
  BY <1>2, <1>15 DEF cache_add_slab, Parts
<1>17. /\ ob \in [Frames -> Offsets \cup {NOOBJ}] /\ ob[f] = 0
       /\ \A g \in Frames \ {f} : ob[g] = s.obj[g]
  <2>1. s.obj \in [Frames -> Offsets \cup {NOOBJ}] /\ 0 \in Offsets
    BY <1>1, SlabStateIs, SlabAssumption DEF Offsets
  <2> QED  BY <1>4, <1>15, <2>1 DEF Store
<1>18. /\ iu \in [Frames -> 0 .. PageSize] /\ iu[f] = 0
       /\ \A g \in Frames \ {f} : iu[g] = s.inuse[g]
  <2>1. s.inuse \in [Frames -> 0 .. PageSize] /\ 0 \in 0 .. PageSize
    BY <1>1, SlabStateIs, SlabAssumption
  <2> QED  BY <1>4, <1>15, <2>1 DEF Store
<1>19. /\ lk \in [Frames -> NextObjs] /\ \A g \in Frames \ {f} : lk[g] = s.link[g]
       /\ \A o \in 0 .. ObjCnt(c) - 2 : lk[f][o] = o + 1
       /\ lk[f][ObjCnt(c) - 1] = NOOBJ
  <2>0. PICK old : old = s.link[f]
    OBVIOUS
  <2>1. PICK N \in 1 .. PageSize : N = ObjCnt(c)
    BY ObjCntIs
  <2>2. PICK new : new = [o \in Offsets |-> IF o < N - 1 THEN o + 1
                                            ELSE IF o = N - 1 THEN NOOBJ ELSE old[o]]
    OBVIOUS
  <2>3. old \in NextObjs /\ s.link \in [Frames -> NextObjs]
    BY <1>1, <1>4, <2>0, SlabStateIs
  <2>4. new \in NextObjs /\ (\A o \in 0 .. N - 2 : new[o] = o + 1) /\ new[N - 1] = NOOBJ
    BY <2>2, <2>3, SlabAssumption DEF NextObjs, Offsets
  <2>5. lk = Store(s.link, f, new)
    BY <1>15, <2>0, <2>1, <2>2
  <2>6. /\ lk \in [Frames -> NextObjs] /\ \A g \in Frames \ {f} : lk[g] = s.link[g]
        /\ lk[f] = new
    <3> HIDE DEF NextObjs
    <3> QED  BY <1>4, <2>3, <2>4, <2>5 DEF Store
  <2> QED  BY <2>1, <2>4, <2>6
<1>20. /\ cn \in [Classes -> Nat] /\ cn[c] = s.cnt[c] + 1 /\ s.cnt[c] \in Nat
       /\ \A d \in Classes \ {c} : cn[d] = s.cnt[d]
  <2>1. s.cnt \in [Classes -> Nat]
    BY <1>1, SlabStateIs
  <2> QED  BY <1>15, <2>1 DEF Store
<1>21. s2 \in SlabState /\ s2.m = m2 /\ s2.obj = ob /\ s2.inuse = iu /\ s2.link = lk /\ s2.cnt = cn
  <2>1. m2 \in Mem
    BY <1>14 DEF MemInv
  <2> QED  BY <1>16, <1>17, <1>18, <1>19, <1>20, <2>1, PartsIs
<1>22. PICK own2 : own2 = [g \in Frames |-> IF g = f THEN c ELSE own[g]]
  OBVIOUS
<1>23. own2[f] = c /\ \A g \in Frames \ {f} : own2[g] = own[g]
  BY <1>4, <1>22
<1>24. ObjInv(s2, L, own2)
  <2>1. Uses(L, f) = {}
    <3>1. s.m.state[f] # "POOL"
      BY <1>2, <1>7
    <3> QED  BY <1>1, <3>1, NoUses
  <2>2. OnlySlab(s, s2, L, L, own, own2, f)
    BY <1>2, <1>6, <1>14, <1>17, <1>18, <1>19, <1>21, <1>23 DEF OnlySlab
  <2>3. PICK k : k = lk[f]
    OBVIOUS
  <2>4. SlabOk(k, 0, 0, L, c, f)
    BY <1>19, <2>1, <2>3, FreshOk
  <2>5. SlabOk(s2.link[f], s2.obj[f], s2.inuse[f], L, own2[f], f)
    BY <1>17, <1>18, <1>21, <1>23, <2>3, <2>4
  <2>6. \A x \in DOMAIN L : x[1] # f
    BY <2>1 DEF Uses
  <2> QED  BY <1>1, <1>4, <2>2, <2>5, <2>6, ObjStep
<1>25. PartialIs(s2, own2, B2)
  <2> SUFFICES ASSUME NEW d \in Classes, NEW g \in Frames
               PROVE  g \in B2[d] <=> s2.m.state[g] = "POOL" /\ own2[g] = d /\ s2.obj[g] # NOOBJ
    BY DEF PartialIs
  <2>1. CASE g = f
    <3>1. g \in B2[d] <=> d = c
      BY <1>10, <1>12, <2>1
    <3>2. s2.m.state[g] = "POOL" /\ own2[g] = c /\ s2.obj[g] = 0 /\ 0 # NOOBJ
      BY <1>6, <1>14, <1>17, <1>21, <1>23, <2>1 DEF NOOBJ
    <3> QED  BY <3>1, <3>2
  <2>2. CASE g # f
    <3>1. g \in B2[d] <=> g \in B[d]
      BY <1>10, <2>2
    <3>2. s2.m.state[g] = s.m.state[g] /\ own2[g] = own[g] /\ s2.obj[g] = s.obj[g]
      BY <1>2, <1>6, <1>14, <1>17, <1>21, <1>23, <2>2
    <3> QED  BY <1>1, <3>1, <3>2 DEF PartialIs
  <2> QED  BY <2>1, <2>2
<1>26. CntCovers(s2, B2)
  <2> SUFFICES ASSUME NEW d \in Classes PROVE cn[d] >= Cardinality(B2[d])
    BY <1>21 DEF CntCovers
  <2>1. s.cnt[d] >= Cardinality(B[d])
    BY <1>1 DEF CntCovers
  <2>2. CASE d # c
    BY <1>10, <1>20, <2>1, <2>2
  <2>3. CASE d = c
    <3>1. PICK n \in Nat, k \in Nat : n = Cardinality(B[d]) /\ k = s.cnt[c]
      BY <1>4, <1>12, <1>20, CountOne
    <3>2. Cardinality(B2[d]) = n + 1
      <4>1. B2[d] = B[d] \cup {f} /\ f \notin B[d] /\ B[d] \subseteq Frames
        BY <1>10, <1>12, <2>3
      <4> QED  BY <1>4, <3>1, <4>1, CountOne
    <3> QED  BY <1>20, <2>1, <2>3, <3>1, <3>2
  <2> QED  BY <2>2, <2>3
<1>27. Sound(s2, L, own2, B2)
  BY <1>14, <1>21, <1>24, <1>25, <1>26 DEF Sound, ListInv
<1>28. B2[c] # {}
  BY <1>9
<1> QED  BY <1>11, <1>27, <1>28

\* The other frames are on the partial lists they were on.
OthersListed(B, B2, f) ==
    \A d \in Classes : \A g \in Frames : g # f => (g \in B2[d] <=> g \in B[d])

\* When only slab f changes it is enough to look at the lists it is on.
LEMMA PartialStep ==
    ASSUME NEW s, NEW own, NEW B, PartialIs(s, own, B), NEW f \in Frames, NEW s2, NEW L, NEW L2,
           NEW own2, OnlySlab(s, s2, L, L2, own, own2, f), NEW B2, OthersListed(B, B2, f),
           \A d \in Classes :
               f \in B2[d] <=> s2.m.state[f] = "POOL" /\ own2[f] = d /\ s2.obj[f] # NOOBJ
    PROVE  PartialIs(s2, own2, B2)
<1> SUFFICES ASSUME NEW d \in Classes, NEW g \in Frames
             PROVE  g \in B2[d] <=> s2.m.state[g] = "POOL" /\ own2[g] = d /\ s2.obj[g] # NOOBJ
  BY DEF PartialIs
<1>1. CASE g = f
  BY <1>1
<1>2. CASE g # f
  <2>1. g \in B2[d] <=> g \in B[d]
    BY <1>2 DEF OthersListed
  <2>2. s2.m.state[g] = s.m.state[g] /\ own2[g] = own[g] /\ s2.obj[g] = s.obj[g]
    BY <1>2 DEF OnlySlab
  <2> QED  BY <2>1, <2>2 DEF PartialIs
<1> QED  BY <1>1, <1>2

\* A store to one field of the descriptor of slab f.
LEMMA StoreIs ==
    ASSUME NEW D, NEW R, NEW fun \in [D -> R], NEW f \in D, NEW v \in R
    PROVE  /\ Store(fun, f, v) \in [D -> R] /\ Store(fun, f, v)[f] = v
           /\ \A g \in D \ {f} : Store(fun, f, v)[g] = fun[g]
BY DEF Store

\* cache_obj_alloc: the object handed out was not in use.
LEMMA ObjAlloc ==
    ASSUME NEW s, NEW L, NEW own, NEW B, Sound(s, L, own, B), NEW size \in Sizes,
           NEW c \in Classes, c = get_kmalloc_cache(size), B[c] # {},
           NEW slab, slab = s.m.head[c], NEW o, o = s.obj[slab],
           NEW s2, s2 = cache_obj_alloc(s, c), NEW L2, L2 = With(L, <<slab, o>>, size)
    PROVE  /\ slab \in Frames /\ o \in Offsets /\ <<slab, o>> \notin DOMAIN L
           /\ \E B2 : Sound(s2, L2, own, B2) /\ B2["occupied"] = B["occupied"]
<1>1. /\ s \in SlabState /\ ObjInv(s, L, own) /\ MemInv(s.m, B) /\ PartialIs(s, own, B)
      /\ CntCovers(s, B)
  BY DEF Sound, ListInv
<1>2. PICK mm : mm = s.m
  OBVIOUS
<1>3. MemInv(mm, B) /\ IsMap(B) /\ ListIs(Frames, mm, c, B[c])
  BY <1>1, <1>2, ListNames DEF MemInv, ListsAre
<1>4. slab \in B[c] /\ slab \in Frames
  <2>1. slab \in B[c]
    BY <1>2, <1>3, NoPageNoFrame, HeadOn
  <2> QED  BY <1>3, <2>1, MapIn, ListNames
<1>5. mm.state[slab] = "POOL" /\ own[slab] = c /\ o # NOOBJ
  BY <1>1, <1>2, <1>4 DEF PartialIs
<1>6. PICK lk, n, rest : lk = s.link[slab] /\ n = s.inuse[slab] /\ rest = lk[o]
  OBVIOUS
<1>7. SlabOk(lk, o, n, L, c, slab)
  BY <1>1, <1>2, <1>4, <1>5, <1>6 DEF ObjInv
<1>8. DOMAIN L \subseteq Frames \X Offsets
  BY <1>1, LiveIn2
<1>9. /\ DOMAIN L2 = DOMAIN L \cup {<<slab, o>>} /\ L2[<<slab, o>>] = size
      /\ \A y \in DOMAIN L : y # <<slab, o>> => L2[y] = L[y]
  <2>1. PICK x : x = <<slab, o>>
    OBVIOUS
  <2>2. DOMAIN L2 = DOMAIN L \cup {x} /\ L2[x] = size /\ \A y \in DOMAIN L : y # x => L2[y] = L[y]
    BY <2>1 DEF With
  <2> QED  BY <2>1, <2>2
<1>10. /\ o \in Offsets /\ o < ObjCnt(c) /\ <<slab, o>> \notin DOMAIN L
       /\ rest \in Offsets \cup {NOOBJ}
       /\ SlabOk(lk, rest, n + 1, L2, c, slab) /\ n + 1 \in 0 .. PageSize
  <2>1. /\ slab \in Frames /\ SlabOk(lk, o, n, L, c, slab) /\ DOMAIN L \subseteq Frames \X Offsets
        /\ o # NOOBJ /\ rest = lk[o] /\ DOMAIN L2 = DOMAIN L \cup {<<slab, o>>}
    BY <1>4, <1>5, <1>6, <1>7, <1>8, <1>9
  <2> QED  BY SMTT(30), <2>1, TakeObj
<1>11. PICK m2, cn, B2 :
         /\ m2 = IF rest # NOOBJ THEN mm ELSE pglist_remove(mm, c, slab)
         /\ cn = IF rest # NOOBJ THEN s.cnt ELSE Store(s.cnt, c, s.cnt[c] - 1)
         /\ B2 = IF rest # NOOBJ THEN B ELSE Put(B, c, B[c] \ {slab})
  OBVIOUS
<1>12. PICK ob, iu : ob = Store(s.obj, slab, rest) /\ iu = Store(s.inuse, slab, n + 1)
  OBVIOUS
<1>13. s2 = Parts(m2, ob, iu, s.link, cn)
  <2>1. CASE rest # NOOBJ
    <3>1. m2 = s.m /\ cn = s.cnt
      BY <1>2, <1>11, <2>1
    <3> QED  BY <1>1, <1>6, <1>12, <2>1, <3>1 DEF cache_obj_alloc, Parts, SlabState
  <2>2. CASE rest = NOOBJ
    <3>1. m2 = pglist_remove(s.m, c, slab) /\ cn = Store(s.cnt, c, s.cnt[c] - 1)
      BY <1>2, <1>11, <2>2
    <3> QED  BY <1>1, <1>6, <1>12, <2>2, <3>1 DEF cache_obj_alloc, Parts, SlabState
  <2> QED  BY <2>1, <2>2
<1>14. /\ ob \in [Frames -> Offsets \cup {NOOBJ}] /\ ob[slab] = rest
       /\ \A g \in Frames \ {slab} : ob[g] = s.obj[g]
  <2>1. s.obj \in [Frames -> Offsets \cup {NOOBJ}]
    BY <1>1, SlabStateIs
  <2> QED  BY <1>4, <1>10, <1>12, <2>1 DEF Store
<1>15. /\ iu \in [Frames -> 0 .. PageSize] /\ iu[slab] = n + 1
       /\ \A g \in Frames \ {slab} : iu[g] = s.inuse[g]
  <2>1. s.inuse \in [Frames -> 0 .. PageSize]
    BY <1>1, SlabStateIs
  <2> QED  BY <1>4, <1>10, <1>12, <2>1 DEF Store
<1>16. /\ m2.state = mm.state /\ MemInv(m2, B2) /\ B2["occupied"] = B["occupied"]
       /\ OthersListed(B, B2, slab)
       /\ \A d \in Classes : slab \in B2[d] <=> d = c /\ rest # NOOBJ
       /\ cn \in [Classes -> Nat] /\ \A d \in Classes : cn[d] >= Cardinality(B2[d])
  <2>1. \A d \in Classes : slab \in B[d] <=> d = c
    <3>1. \A d \in Classes : slab \in B[d] => own[slab] = d
      BY <1>1, <1>4 DEF PartialIs
    <3> QED  BY <1>4, <1>5, <3>1
  <2>2. s.cnt \in [Classes -> Nat] /\ \A d \in Classes : s.cnt[d] >= Cardinality(B[d])
    BY <1>1, SlabStateIs DEF CntCovers
  <2>3. CASE rest # NOOBJ
    <3>1. m2 = mm /\ cn = s.cnt /\ B2 = B
      BY <1>11, <2>3
    <3>2. OthersListed(B, B2, slab)
      BY <3>1 DEF OthersListed
    <3> QED  BY <1>3, <2>1, <2>2, <2>3, <3>1, <3>2
  <2>4. CASE rest = NOOBJ
    <3>1. PICK k, S : k = s.cnt /\ S = B[c] \ {slab}
      OBVIOUS
    <3>2. m2 = pglist_remove(mm, c, slab) /\ cn = Store(k, c, k[c] - 1) /\ B2 = Put(B, c, S)
      BY <1>11, <2>4, <3>1
    <3>3. m2.state = mm.state /\ MemInv(m2, Put(B, c, B[c] \ {slab}))
      BY SMTT(30), <1>3, <1>4, <3>2, UnlistSlab
    <3>4. B2[c] = S /\ \A d \in Lists \ {c} : B2[d] = B[d]
      <4>1. S \subseteq Frames /\ c \in Lists
        BY <1>3, <3>1, MapIn, ListNames
      <4> QED  BY <1>3, <3>2, <4>1, PutIs
    <3>5. \A d \in Classes \ {c} : B2[d] = B[d]
      BY <3>4, ListNames
    <3>6. B2["occupied"] = B["occupied"]
      BY <3>4, ListNames
    <3>7. OthersListed(B, B2, slab)
      BY <3>1, <3>4, <3>5 DEF OthersListed
    <3>8. \A d \in Classes : slab \notin B2[d]
      BY <2>1, <3>1, <3>4, <3>5
    <3>9. PICK b \in Nat : b = Cardinality(B[c]) /\ Cardinality(S) = b - 1 /\ b >= 1
      <4>1. B[c] \subseteq Frames
        BY <1>3, MapIn, ListNames
      <4> QED  BY <1>4, <3>1, <4>1, CountOne
    <3>10. k \in [Classes -> Nat] /\ k[c] >= b /\ k[c] - 1 \in Nat
      BY <2>2, <3>1, <3>9
    <3>11. cn \in [Classes -> Nat] /\ cn[c] = k[c] - 1 /\ \A d \in Classes \ {c} : cn[d] = k[d]
      BY <3>2, <3>10, StoreIs
    <3>12. ASSUME NEW d \in Classes PROVE cn[d] >= Cardinality(B2[d])
      <4>1. CASE d = c
        BY <3>4, <3>9, <3>10, <3>11, <4>1
      <4>2. CASE d # c
        BY <2>2, <3>1, <3>5, <3>11, <4>2
      <4> QED  BY <4>1, <4>2
    <3> QED  BY <2>4, <3>1, <3>2, <3>3, <3>6, <3>7, <3>8, <3>11, <3>12
  <2> QED  BY <2>3, <2>4
<1>17. s2 \in SlabState /\ s2.m = m2 /\ s2.obj = ob /\ s2.inuse = iu /\ s2.link = s.link /\ s2.cnt = cn
  <2>1. m2 \in Mem
    BY <1>16 DEF MemInv
  <2>2. s.link \in [Frames -> NextObjs]
    BY <1>1, SlabStateIs
  <2> QED  BY <1>13, <1>14, <1>15, <1>16, <2>1, <2>2, PartsIs
<1>18. OnlySlab(s, s2, L, L2, own, own, slab)
  <2>1. \A a : a[1] # slab => a # <<slab, o>>
    OBVIOUS
  <2>2. /\ \A a : a[1] # slab => (a \in DOMAIN L2 <=> a \in DOMAIN L)
        /\ \A a \in DOMAIN L : a[1] # slab => L2[a] = L[a]
    BY <1>9, <2>1
  <2> QED  BY <1>2, <1>14, <1>15, <1>16, <1>17, <2>2 DEF OnlySlab
<1>19. ObjInv(s2, L2, own)
  <2>1. SlabOk(s2.link[slab], s2.obj[slab], s2.inuse[slab], L2, own[slab], slab)
    BY <1>5, <1>6, <1>10, <1>14, <1>15, <1>17
  <2>2. ASSUME NEW a \in DOMAIN L2, a[1] = slab PROVE LiveOk(L2, s2.m.state, own, a)
    <3>1. CASE a = <<slab, o>>
      <4>1. a[1] = slab /\ a[2] = o /\ a \in Frames \X Offsets
        BY <1>4, <1>10, <3>1
      <4>2. L2[a] = size
        BY <1>9, <3>1
      <4> QED  BY <1>2, <1>5, <1>10, <1>16, <1>17, <4>1, <4>2 DEF LiveOk
    <3>2. CASE a # <<slab, o>>
      <4>1. a \in DOMAIN L /\ L2[a] = L[a]
        BY <1>9, <3>2
      <4>2. LiveOk(L, s.m.state, own, a)
        BY <1>1, <4>1 DEF ObjInv
      <4> QED  BY <1>2, <1>16, <1>17, <4>1, <4>2 DEF LiveOk
    <3> QED  BY <3>1, <3>2
  <2> QED  BY SMTT(30), <1>1, <1>4, <1>18, <2>1, <2>2, ObjStep
<1>20. PartialIs(s2, own, B2)
  <2>1. ASSUME NEW d \in Classes
        PROVE  slab \in B2[d] <=> s2.m.state[slab] = "POOL" /\ own[slab] = d /\ s2.obj[slab] # NOOBJ
    BY <1>5, <1>14, <1>16, <1>17
  <2> QED  BY SMTT(30), <1>1, <1>4, <1>16, <1>18, <2>1, PartialStep
<1>21. CntCovers(s2, B2)
  BY <1>16, <1>17 DEF CntCovers
<1>22. Sound(s2, L2, own, B2)
  BY <1>16, <1>17, <1>19, <1>20, <1>21 DEF Sound, ListInv
<1> QED  BY <1>4, <1>10, <1>16, <1>22

\* What kmalloc_s makes of a sound state: a failed assert, or a new address.
Fails(s, r) == r.addr[1] = NOPAGE /\ r.state = s
Hands(L, r, size, occ) ==
    /\ r.addr \in Frames \X Offsets /\ r.addr \notin DOMAIN L /\ r.addr[1] # NOPAGE
    /\ SoundFor(r.state, With(L, r.addr, size), occ)

\* cache_obj_alloc from a cache that has a partial slab.
LEMMA Handed ==
    ASSUME NEW s, NEW L, NEW own, NEW B, Sound(s, L, own, B), NEW size \in Sizes,
           NEW c, c = get_kmalloc_cache(size), B[c] # {}, NEW slab, slab = s.m.head[c],
           NEW o, o = s.obj[slab],
           NEW r, r = [addr |-> <<slab, o>>, state |-> cache_obj_alloc(s, c)]
    PROVE  Hands(L, r, size, B["occupied"])
<1>1. PICK s2, L2 : s2 = cache_obj_alloc(s, c) /\ L2 = With(L, <<slab, o>>, size)
  OBVIOUS
<1>2. c \in Classes
  BY CacheIs
<1>3. /\ slab \in Frames /\ o \in Offsets /\ <<slab, o>> \notin DOMAIN L
      /\ \E B2 : Sound(s2, L2, own, B2) /\ B2["occupied"] = B["occupied"]
  BY <1>1, <1>2, ObjAlloc
<1>4. SoundFor(s2, L2, B["occupied"])
  BY <1>3 DEF SoundFor
<1>5. r.addr = <<slab, o>> /\ r.state = s2 /\ r.addr[1] = slab
  BY <1>1
<1>6. slab # NOPAGE
  BY <1>3, NoPageNoFrame
<1> QED  BY <1>1, <1>3, <1>4, <1>5, <1>6 DEF Hands

\* kmalloc_s.
LEMMA MallocIs ==
    ASSUME NEW s, NEW L, NEW occ, SoundFor(s, L, occ), NEW size \in Sizes,
           NEW r, r = Malloc(s, size)
    PROVE  Fails(s, r) \/ Hands(L, r, size, occ)
<1>1. PICK own, B : Sound(s, L, own, B) /\ B["occupied"] = occ
  BY DEF SoundFor
<1>2. PICK c \in Classes : c = get_kmalloc_cache(size)
  BY CacheIs
<1>3. pglist_is_empty(s.m, c) <=> B[c] = {}
  <2>1. PICK mm, C : mm = s.m /\ C = B[c]
    OBVIOUS
  <2>2. ListIs(Frames, mm, c, C)
    BY <1>1, <2>1, ListNames DEF Sound, ListInv, MemInv, ListsAre
  <2>3. IF C = {} THEN mm.head[c] = NOPAGE /\ mm.tail[c] = NOPAGE
        ELSE mm.head[c] \in C /\ mm.tail[c] \in C /\ mm.head[c] # NOPAGE /\ mm.tail[c] # NOPAGE
    BY <2>2, NoPageNoFrame, HeadOn
  <2> QED  BY <2>1, <2>3 DEF pglist_is_empty
<1>4. CASE B[c] # {}
  <2>1. PICK slab, o : slab = s.m.head[c] /\ o = s.obj[slab]
    OBVIOUS
  <2>2. r = [addr |-> <<slab, o>>, state |-> cache_obj_alloc(s, c)]
    <3>1. ~pglist_is_empty(s.m, c)
      BY <1>3, <1>4
    <3> QED  BY <1>2, <2>1, <3>1 DEF Malloc
  <2> QED  BY <1>1, <1>2, <1>4, <2>1, <2>2, Handed
<1>5. CASE B[c] = {}
  <2>0. pglist_is_empty(s.m, c)
    BY <1>3, <1>5
  <2>1. PICK a, f : a = frame_alloc(s.m, "POOL") /\ f = a.frame
    OBVIOUS
  <2>2. CASE f \in {0, NOPAGE}
    <3>1. r = [addr |-> <<NOPAGE, 0>>, state |-> s]
      BY <1>2, <2>0, <2>1, <2>2 DEF Malloc
    <3> QED  BY <3>1 DEF Fails
  <2>3. CASE f \notin {0, NOPAGE}
    <3>1. PICK s1 : s1 = cache_add_slab(s, c, f, a.mem)
      OBVIOUS
    <3>2. PICK slab, o : slab = s1.m.head[c] /\ o = s1.obj[slab]
      OBVIOUS
    <3>3. r = [addr |-> <<slab, o>>, state |-> cache_obj_alloc(s1, c)]
      BY <1>2, <2>0, <2>1, <2>3, <3>1, <3>2 DEF Malloc
    <3>4. PICK own2, B2 : Sound(s1, L, own2, B2) /\ B2["occupied"] = B["occupied"] /\ B2[c] # {}
      BY <1>1, <2>1, <2>3, <3>1, AddSlab
    <3>5. Hands(L, r, size, B2["occupied"])
      BY <1>2, <3>2, <3>3, <3>4, Handed
    <3> QED  BY <1>1, <3>4, <3>5
  <2> QED  BY <2>2, <2>3
<1> QED  BY <1>4, <1>5

\* An address in use, as kfree_s finds it: its object is one of its slab's.
LEMMA LiveIs ==
    ASSUME NEW s, NEW L, NEW own, ObjInv(s, L, own), NEW f, NEW o, <<f, o>> \in DOMAIN L
    PROVE  /\ f \in Frames /\ o \in 0 .. ObjCnt(own[f]) - 1 /\ s.m.state[f] = "POOL"
           /\ L[<<f, o>>] \in Sizes /\ get_kmalloc_cache(L[<<f, o>>]) = own[f]
           /\ own[f] \in Classes /\ SlabOk(s.link[f], s.obj[f], s.inuse[f], L, own[f], f)
<1>1. PICK a : a = <<f, o>> /\ a \in DOMAIN L
  OBVIOUS
<1>2. LiveOk(L, s.m.state, own, a)
  BY <1>1 DEF ObjInv
<1>3. a[1] = f /\ a[2] = o
  BY <1>1
<1>4. /\ f \in Frames /\ o \in Offsets /\ s.m.state[f] = "POOL" /\ o < ObjCnt(own[f])
      /\ L[a] \in Sizes /\ get_kmalloc_cache(L[a]) = own[f]
  BY <1>1, <1>2, <1>3 DEF LiveOk
<1>5. SlabOk(s.link[f], s.obj[f], s.inuse[f], L, own[f], f)
  BY <1>4 DEF ObjInv
<1>6. PICK c \in Classes : c = own[f]
  BY <1>5 DEF SlabOk
<1>7. o \in 0 .. ObjCnt(c) - 1
  <2>1. PICK N \in 1 .. PageSize : N = ObjCnt(c)
    BY ObjCntIs
  <2> QED  BY <1>4, <1>6, <2>1, SlabAssumption DEF Offsets
<1> QED  BY <1>1, <1>4, <1>5, <1>6, <1>7

\* Without takes one address away.
Dropped(L, x, L2) ==
    DOMAIN L2 = DOMAIN L \ {x} /\ \A y \in DOMAIN L2 : L2[y] = L[y]

\* It does.
LEMMA WithoutIs == ASSUME NEW L, NEW x, NEW L2, L2 = Without(L, x) PROVE Dropped(L, x, L2)
BY DEF Without, Dropped

\* A slab is on the partial list of its own class, if on any.
LEMMA ListedIs ==
    ASSUME NEW s, NEW own, NEW B, PartialIs(s, own, B), NEW f \in Frames, s.m.state[f] = "POOL"
    PROVE  /\ Listed(B, f) <=> own[f] \in Classes /\ s.obj[f] # NOOBJ
           /\ \A d \in Classes : f \in B[d] <=> d = own[f] /\ s.obj[f] # NOOBJ
BY DEF PartialIs, Listed

\* What is left when an object of slab f comes back: only f changes.
LEMMA OnlyDropped ==
    ASSUME NEW s, NEW L, NEW own, NEW f, NEW o, NEW L2, Dropped(L, <<f, o>>, L2), NEW s2,
           \A g \in Frames \ {f} :
              /\ s2.m.state[g] = s.m.state[g] /\ s2.obj[g] = s.obj[g]
              /\ s2.inuse[g] = s.inuse[g] /\ s2.link[g] = s.link[g]
    PROVE  OnlySlab(s, s2, L, L2, own, own, f)
<1>1. \A a : a[1] # f => a # <<f, o>>
  OBVIOUS
<1>2. /\ \A a : a[1] # f => (a \in DOMAIN L2 <=> a \in DOMAIN L)
      /\ \A a \in DOMAIN L : a[1] # f => L2[a] = L[a]
  BY <1>1 DEF Dropped
<1> QED  BY <1>2 DEF OnlySlab

\* cache_obj_release that keeps the slab.
LEMMA FreeKeeps ==
    ASSUME NEW s, NEW L, NEW own, NEW B, Sound(s, L, own, B), NEW f, NEW o, <<f, o>> \in DOMAIN L,
           NEW c, c = own[f], ~GivesBack(s, c, f), NEW s2, s2 = cache_obj_release(s, c, f, o),
           NEW L2, Dropped(L, <<f, o>>, L2)
    PROVE  \E B2 : Sound(s2, L2, own, B2) /\ B2["occupied"] = B["occupied"]
<1>1. /\ s \in SlabState /\ ObjInv(s, L, own) /\ MemInv(s.m, B) /\ PartialIs(s, own, B)
      /\ CntCovers(s, B)
  BY DEF Sound, ListInv
<1>2. PICK mm, k, h, n : mm = s.m /\ k = s.link[f] /\ h = s.obj[f] /\ n = s.inuse[f]
  OBVIOUS
<1>3. /\ f \in Frames /\ o \in 0 .. ObjCnt(c) - 1 /\ mm.state[f] = "POOL" /\ c \in Classes
      /\ SlabOk(k, h, n, L, c, f)
  <2>1. /\ f \in Frames /\ o \in 0 .. ObjCnt(own[f]) - 1 /\ s.m.state[f] = "POOL"
        /\ own[f] \in Classes /\ SlabOk(s.link[f], s.obj[f], s.inuse[f], L, own[f], f)
    BY <1>1, LiveIs
  <2> QED  BY <1>2, <2>1
<1>4. s.link \in [Frames -> NextObjs] /\ s.obj \in [Frames -> Offsets \cup {NOOBJ}]
      /\ s.inuse \in [Frames -> 0 .. PageSize] /\ s.cnt \in [Classes -> Nat]
  BY <1>1, SlabStateIs
<1>5. k \in NextObjs
  BY <1>2, <1>3, <1>4
<1>6. DOMAIN L \subseteq Frames \X Offsets /\ DOMAIN L2 = DOMAIN L \ {<<f, o>>}
  BY <1>1, LiveIn2 DEF Dropped
<1>7. PICK k2 : k2 = Store(k, o, h)
  OBVIOUS
<1>8. SlabOk(k2, o, n - 1, L2, c, f) /\ k2 \in NextObjs /\ n - 1 \in 0 .. PageSize
  <2>1. /\ SlabOk(Store(k, o, h), o, n - 1, L2, c, f) /\ Store(k, o, h) \in NextObjs
        /\ n - 1 \in 0 .. PageSize
    BY <1>3, <1>5, <1>6, PutObj
  <2> QED  BY <1>7, <2>1
<1>9. o \in Offsets /\ o # NOOBJ
  <2>1. PICK N \in 1 .. PageSize : N = ObjCnt(c)
    BY <1>3, ObjCntIs
  <2> QED  BY <1>3, <2>1, SlabAssumption DEF Offsets, NOOBJ
<1>10. PICK m2, cn, B2 :
         /\ m2 = IF h = NOOBJ THEN pglist_push_tail(mm, c, f) ELSE mm
         /\ cn = IF h = NOOBJ THEN Store(s.cnt, c, s.cnt[c] + 1) ELSE s.cnt
         /\ B2 = IF h = NOOBJ THEN Put(B, c, B[c] \cup {f}) ELSE B
  OBVIOUS
<1>11. PICK ob, iu, lk : /\ ob = Store(s.obj, f, o) /\ iu = Store(s.inuse, f, n - 1)
                         /\ lk = Store(s.link, f, k2)
  OBVIOUS
<1>12. s2 = Parts(m2, ob, iu, lk, cn)
  <2>1. CASE h = NOOBJ
    <3>1. m2 = pglist_push_tail(s.m, c, f) /\ cn = Store(s.cnt, c, s.cnt[c] + 1)
      BY <1>2, <1>10, <2>1
    <3> QED  BY <1>1, <1>2, <1>7, <1>11, <2>1, <3>1 DEF cache_obj_release, Parts, SlabState
  <2>2. CASE h # NOOBJ
    <3>1. m2 = s.m /\ cn = s.cnt
      BY <1>2, <1>10, <2>2
    <3> QED  BY <1>1, <1>2, <1>7, <1>11, <2>2, <3>1 DEF cache_obj_release, Parts, SlabState
  <2> QED  BY <2>1, <2>2
<1>13. /\ ob \in [Frames -> Offsets \cup {NOOBJ}] /\ ob[f] = o
       /\ \A g \in Frames \ {f} : ob[g] = s.obj[g]
  BY <1>3, <1>4, <1>9, <1>11 DEF Store
<1>14. /\ iu \in [Frames -> 0 .. PageSize] /\ iu[f] = n - 1
       /\ \A g \in Frames \ {f} : iu[g] = s.inuse[g]
  BY <1>3, <1>4, <1>8, <1>11 DEF Store
<1>15. /\ lk \in [Frames -> NextObjs] /\ lk[f] = k2
       /\ \A g \in Frames \ {f} : lk[g] = s.link[g]
  BY <1>3, <1>4, <1>8, <1>11 DEF Store
<1>16. /\ m2.state = mm.state /\ MemInv(m2, B2) /\ B2["occupied"] = B["occupied"]
       /\ OthersListed(B, B2, f)
       /\ \A d \in Classes : f \in B2[d] <=> d = c
       /\ cn \in [Classes -> Nat] /\ \A d \in Classes : cn[d] >= Cardinality(B2[d])
  <2>0. MemInv(mm, B) /\ IsMap(B)
    BY <1>1, <1>2 DEF MemInv
  <2>1. /\ Listed(B, f) <=> h # NOOBJ
        /\ \A d \in Classes : f \in B[d] <=> d = c /\ h # NOOBJ
    BY <1>1, <1>2, <1>3, ListedIs
  <2>2. \A d \in Classes : s.cnt[d] >= Cardinality(B[d])
    BY <1>1 DEF CntCovers
  <2>3. CASE h # NOOBJ
    <3>1. m2 = mm /\ cn = s.cnt /\ B2 = B
      BY <1>10, <2>3
    <3>2. OthersListed(B, B2, f)
      BY <3>1 DEF OthersListed
    <3> QED  BY <1>4, <2>0, <2>1, <2>2, <2>3, <3>1, <3>2
  <2>4. CASE h = NOOBJ
    <3>1. PICK r, S : r = s.cnt /\ S = B[c] \cup {f}
      OBVIOUS
    <3>2. m2 = pglist_push_tail(mm, c, f) /\ cn = Store(r, c, r[c] + 1) /\ B2 = Put(B, c, S)
      BY <1>10, <2>4, <3>1
    <3>3. m2.state = mm.state /\ MemInv(m2, Put(B, c, B[c] \cup {f}))
      <4>1. ~Listed(B, f)
        BY <2>1, <2>4
      <4>2. /\ MemInv(mm, B) /\ f \in Frames /\ mm.state[f] = "POOL" /\ c \in Classes
            /\ m2 = pglist_push_tail(mm, c, f)
        BY <1>3, <2>0, <3>2
      <4> QED  BY <4>1, <4>2, ListSlab
    <3>4. B2[c] = S /\ \A d \in Lists \ {c} : B2[d] = B[d]
      <4>1. S \subseteq Frames /\ c \in Lists
        BY <1>3, <2>0, <3>1, MapIn, ListNames
      <4>2. B2 = Put(B, c, S) /\ IsMap(B)
        BY <2>0, <3>2
      <4> QED  BY <4>1, <4>2, PutIs
    <3>5. \A d \in Classes \ {c} : B2[d] = B[d]
      BY <3>4, ListNames
    <3>6. B2["occupied"] = B["occupied"]
      BY <1>3, <3>4, ListNames
    <3>7. OthersListed(B, B2, f)
      BY <3>1, <3>4, <3>5 DEF OthersListed
    <3>8. \A d \in Classes : f \in B2[d] <=> d = c
      BY <2>1, <2>4, <3>1, <3>4, <3>5
    <3>9. PICK b \in Nat : b = Cardinality(B[c]) /\ Cardinality(S) = b + 1
      <4>1. B[c] \subseteq Frames /\ f \notin B[c]
        BY <1>3, <2>0, <2>1, <2>4, MapIn, ListNames
      <4> QED  BY <1>3, <3>1, <4>1, CountOne
    <3>10. r \in [Classes -> Nat] /\ r[c] >= b /\ r[c] + 1 \in Nat
      BY <1>3, <1>4, <2>2, <3>1, <3>9
    <3>11. cn \in [Classes -> Nat] /\ cn[c] = r[c] + 1 /\ \A d \in Classes \ {c} : cn[d] = r[d]
      BY <1>3, <3>2, <3>10 DEF Store
    <3>12. ASSUME NEW d \in Classes PROVE cn[d] >= Cardinality(B2[d])
      <4>1. CASE d = c
        BY <3>4, <3>9, <3>10, <3>11, <4>1
      <4>2. CASE d # c
        BY <2>2, <3>1, <3>5, <3>11, <4>2
      <4> QED  BY <4>1, <4>2
    <3> QED  BY <3>1, <3>2, <3>3, <3>6, <3>7, <3>8, <3>11, <3>12
  <2> QED  BY <2>3, <2>4
<1>17. s2 \in SlabState /\ s2.m = m2 /\ s2.obj = ob /\ s2.inuse = iu /\ s2.link = lk /\ s2.cnt = cn
  <2>1. m2 \in Mem
    BY <1>16 DEF MemInv
  <2> QED  BY <1>12, <1>13, <1>14, <1>15, <1>16, <2>1, PartsIs
<1>18. OnlySlab(s, s2, L, L2, own, own, f)
  <2>1. \A g \in Frames \ {f} :
          /\ s2.m.state[g] = s.m.state[g] /\ s2.obj[g] = s.obj[g]
          /\ s2.inuse[g] = s.inuse[g] /\ s2.link[g] = s.link[g]
    BY <1>2, <1>13, <1>14, <1>15, <1>16, <1>17
  <2> QED  BY <2>1, OnlyDropped
<1>19. ObjInv(s2, L2, own)
  <2>1. SlabOk(s2.link[f], s2.obj[f], s2.inuse[f], L2, own[f], f)
    BY <1>8, <1>13, <1>14, <1>15, <1>17
  <2>2. ASSUME NEW a \in DOMAIN L2, a[1] = f PROVE LiveOk(L2, s2.m.state, own, a)
    <3>1. a \in DOMAIN L /\ L2[a] = L[a]
      BY DEF Dropped
    <3>2. LiveOk(L, s.m.state, own, a)
      BY <1>1, <3>1 DEF ObjInv
    <3> QED  BY <1>2, <1>16, <1>17, <3>1, <3>2 DEF LiveOk
  <2> QED  BY <1>1, <1>3, <1>18, <2>1, <2>2, ObjStep
<1>20. PartialIs(s2, own, B2)
  <2>1. ASSUME NEW d \in Classes
        PROVE  f \in B2[d] <=> s2.m.state[f] = "POOL" /\ own[f] = d /\ s2.obj[f] # NOOBJ
    BY <1>3, <1>9, <1>13, <1>16, <1>17
  <2> QED  BY <1>1, <1>3, <1>16, <1>18, <2>1, PartialStep
<1>21. CntCovers(s2, B2)
  BY <1>16, <1>17 DEF CntCovers
<1>22. Sound(s2, L2, own, B2)
  BY <1>16, <1>17, <1>19, <1>20, <1>21 DEF Sound, ListInv
<1> QED  BY <1>16, <1>22

\* The last object of slab f comes back: nobody uses an object of it.
LEMMA LastObj ==
    ASSUME NEW s, NEW L, NEW own, ObjInv(s, L, own), s \in SlabState,
           NEW f, NEW o, <<f, o>> \in DOMAIN L, s.inuse[f] = 1, NEW L2, Dropped(L, <<f, o>>, L2)
    PROVE  \A a \in DOMAIN L2 : a[1] # f
<1>1. PICK k, h, n, c : k = s.link[f] /\ h = s.obj[f] /\ n = s.inuse[f] /\ c = own[f]
  OBVIOUS
<1>2. f \in Frames /\ o \in 0 .. ObjCnt(c) - 1 /\ SlabOk(k, h, n, L, c, f)
  <2>1. /\ f \in Frames /\ o \in 0 .. ObjCnt(own[f]) - 1
        /\ SlabOk(s.link[f], s.obj[f], s.inuse[f], L, own[f], f)
    BY LiveIs
  <2> QED  BY <1>1, <2>1
<1>3. k \in NextObjs
  <2>1. s.link \in [Frames -> NextObjs]
    BY SlabStateIs
  <2> QED  BY <1>1, <1>2, <2>1
<1>4. DOMAIN L \subseteq Frames \X Offsets /\ DOMAIN L2 = DOMAIN L \ {<<f, o>>}
  BY LiveIn2 DEF Dropped
<1>5. n = 1 => Uses(L2, f) = {}
  BY <1>2, <1>3, <1>4, PutObj
<1> QED  BY <1>1, <1>5 DEF Uses

\* cache_obj_release that gives the slab back, when it is on no list or has neighbours.
LEMMA FreeGivesBack ==
    ASSUME NEW s, NEW L, NEW own, NEW B, Sound(s, L, own, B), NEW f, NEW o, <<f, o>> \in DOMAIN L,
           NEW c, c = own[f], GivesBack(s, c, f), ~(Floating(s, f) /\ s.m.head[c] = f),
           NEW s2, s2 = cache_obj_release(s, c, f, o), NEW L2, Dropped(L, <<f, o>>, L2)
    PROVE  \E B2 : Sound(s2, L2, own, B2) /\ B2["occupied"] = B["occupied"]
<1>1. /\ s \in SlabState /\ ObjInv(s, L, own) /\ MemInv(s.m, B) /\ PartialIs(s, own, B)
      /\ CntCovers(s, B)
  BY DEF Sound, ListInv
<1>2. PICK mm : mm = s.m
  OBVIOUS
<1>3. f \in Frames /\ mm.state[f] = "POOL" /\ c \in Classes
  <2>1. f \in Frames /\ s.m.state[f] = "POOL" /\ own[f] \in Classes
    BY <1>1, LiveIs
  <2> QED  BY <1>2, <2>1
<1>4. \A a \in DOMAIN L2 : a[1] # f
  <2>1. s.inuse[f] = 1
    BY DEF GivesBack
  <2> QED  BY <1>1, <2>1, LastObj
<1>5. MemInv(mm, B) /\ IsMap(B)
  BY <1>1, <1>2 DEF MemInv
<1>6. Floating(s, f) <=> Unlinked(mm, f)
  BY <1>2 DEF Floating, Unlinked
<1>7. PICK m1 : m1 = IF Floating(s, f) THEN mm ELSE pglist_remove(mm, c, f)
  OBVIOUS
<1>8. PICK m2 : m2 = frame_release(m1, f)
  OBVIOUS
<1>9. s2 = Parts(m2, s.obj, s.inuse, s.link, s.cnt)
  <2>1. s2 = [s EXCEPT !.m = m2]
    BY <1>2, <1>7, <1>8 DEF cache_obj_release
  <2> QED  BY <1>1, <2>1 DEF Parts, SlabState
<1>10. PICK B1 : /\ m1.state = mm.state /\ MemInv(m1, B1) /\ ~Listed(B1, f)
                 /\ B1["occupied"] = B["occupied"]
                 /\ \A d \in Classes : B1[d] = B[d] \ {f}
  <2>1. CASE Listed(B, f)
    <3>1. f \in B[c] /\ \A d \in Classes : f \in B[d] <=> d = c
      <4>1. /\ Listed(B, f) <=> own[f] \in Classes /\ s.obj[f] # NOOBJ
            /\ \A d \in Classes : f \in B[d] <=> d = own[f] /\ s.obj[f] # NOOBJ
        BY <1>1, <1>2, <1>3, ListedIs
      <4> QED  BY <1>3, <2>1, <4>1
    <3>2. ~Floating(s, f)
      <4> SUFFICES ASSUME Unlinked(mm, f) PROVE FALSE
        BY <1>6
      <4>1. PICK C : C = B[c]
        OBVIOUS
      <4>2. ListIs(Frames, mm, c, C) /\ f \in C /\ NOPAGE \notin Frames
        BY <1>3, <1>5, <3>1, <4>1, ListNames, NoPageNoFrame DEF MemInv, ListsAre
      <4>3. mm.head[c] = f
        BY <4>2, AloneIs
      <4> QED  BY <1>2, <1>6, <4>3
    <3>3. PICK S, B1 : S = B[c] \ {f} /\ B1 = Put(B, c, S)
      OBVIOUS
    <3>4. m1 = pglist_remove(mm, c, f)
      BY <1>7, <3>2
    <3>5. /\ m1.state = mm.state /\ MemInv(m1, Put(B, c, B[c] \ {f}))
          /\ ~Listed(Put(B, c, B[c] \ {f}), f)
      BY SMTT(30), <1>3, <1>5, <3>1, <3>4, UnlistSlab
    <3>6. B1[c] = S /\ \A d \in Lists \ {c} : B1[d] = B[d]
      <4>1. S \subseteq Frames /\ c \in Lists /\ IsMap(B) /\ B1 = Put(B, c, S)
        BY <1>3, <1>5, <3>3, MapIn, ListNames
      <4> QED  BY <4>1, PutIs
    <3>7. B1["occupied"] = B["occupied"]
      BY <1>3, <3>6, ListNames
    <3>8. \A d \in Classes : B1[d] = B[d] \ {f}
      <4>1. ASSUME NEW d \in Classes, d # c PROVE B1[d] = B[d] /\ f \notin B[d]
        BY <3>1, <3>6, <4>1, ListNames
      <4> QED  BY <3>3, <3>6, <4>1
    <3> QED  BY <3>3, <3>5, <3>7, <3>8
  <2>2. CASE ~Listed(B, f)
    <3>1. Floating(s, f)
      BY <1>3, <1>5, <1>6, <2>2 DEF MemInv, FloatingUnlinked
    <3>2. m1 = mm
      BY <1>7, <3>1
    <3>3. \A d \in Classes : B[d] = B[d] \ {f}
      BY <2>2 DEF Listed
    <3> QED  BY <1>5, <2>2, <3>2, <3>3
  <2> QED  BY <2>1, <2>2
<1>11. PICK S, B2 : S = B1["free"] \cup {f} /\ B2 = Put(B1, "free", S)
  OBVIOUS
<1>12. m2.state = Store(mm.state, f, "AVAILABLE") /\ MemInv(m2, B2)
  <2>1. m2.state = Store(m1.state, f, "AVAILABLE") /\ MemInv(m2, Put(B1, "free", B1["free"] \cup {f}))
    <3>1. MemInv(m1, B1) /\ m1.state[f] = "POOL" /\ ~Listed(B1, f) /\ m2 = frame_release(m1, f)
      BY <1>3, <1>8, <1>10
    <3> QED  BY <1>3, <3>1, ReleasePool
  <2> QED  BY <1>10, <1>11, <2>1
<1>13. \A d \in Lists \ {"free"} : B2[d] = B1[d]
  <2>1. S \subseteq Frames /\ "free" \in Lists /\ IsMap(B1) /\ B2 = Put(B1, "free", S)
    <3>1. IsMap(B1)
      BY <1>10 DEF MemInv
    <3> QED  BY <1>3, <1>11, <3>1, MapIn, ListNames
  <2> QED  BY <2>1, PutIs
<1>14. B2["occupied"] = B["occupied"] /\ \A d \in Classes : B2[d] = B[d] \ {f}
  BY <1>10, <1>13, ListNames
<1>15. m2.state[f] # "POOL" /\ \A g \in Frames \ {f} : m2.state[g] = mm.state[g]
  <2>1. mm.state \in [Frames -> States] /\ "AVAILABLE" \in States
    BY <1>1, <1>2, SlabStateIs DEF States
  <2> QED  BY <1>3, <1>12, <2>1, StateStore
<1>16. /\ s2 \in SlabState /\ s2.m = m2 /\ s2.obj = s.obj /\ s2.inuse = s.inuse
       /\ s2.link = s.link /\ s2.cnt = s.cnt
  <2>1. m2 \in Mem
    BY <1>12 DEF MemInv
  <2>2. /\ s.link \in [Frames -> NextObjs] /\ s.obj \in [Frames -> Offsets \cup {NOOBJ}]
        /\ s.inuse \in [Frames -> 0 .. PageSize] /\ s.cnt \in [Classes -> Nat]
    BY <1>1, SlabStateIs
  <2> QED  BY <1>9, <2>1, <2>2, PartsIs
<1>17. OnlySlab(s, s2, L, L2, own, own, f)
  <2>1. \A g \in Frames \ {f} :
          /\ s2.m.state[g] = s.m.state[g] /\ s2.obj[g] = s.obj[g]
          /\ s2.inuse[g] = s.inuse[g] /\ s2.link[g] = s.link[g]
    BY <1>2, <1>15, <1>16
  <2> QED  BY <2>1, OnlyDropped
<1>18. ObjInv(s2, L2, own)
  <2>1. s2.m.state[f] # "POOL"
    BY <1>15, <1>16
  <2> QED  BY <1>1, <1>3, <1>4, <1>17, <2>1, ObjStep
<1>19. PartialIs(s2, own, B2)
  <2>1. ASSUME NEW d \in Classes
        PROVE  f \in B2[d] <=> s2.m.state[f] = "POOL" /\ own[f] = d /\ s2.obj[f] # NOOBJ
    BY <1>14, <1>15, <1>16
  <2>2. OthersListed(B, B2, f)
    BY <1>14 DEF OthersListed
  <2> QED  BY <1>1, <1>3, <1>17, <2>1, <2>2, PartialStep
<1>20. CntCovers(s2, B2)
  <2> SUFFICES ASSUME NEW d \in Classes PROVE s2.cnt[d] >= Cardinality(B2[d])
    BY DEF CntCovers
  <2>1. B[d] \subseteq Frames /\ B2[d] = B[d] \ {f}
    BY <1>5, <1>14, MapIn, ListNames
  <2>2. PICK b \in Nat : b = Cardinality(B[d])
    BY <1>3, <2>1, CountOne
  <2>3. Cardinality(B2[d]) \in Nat /\ Cardinality(B2[d]) <= b
    <3>1. CASE f \in B[d]
      BY <1>3, <2>1, <2>2, <3>1, CountOne
    <3>2. CASE f \notin B[d]
      <4>1. B2[d] = B[d]
        BY <2>1, <3>2
      <4> QED  BY <2>2, <4>1
    <3> QED  BY <3>1, <3>2
  <2>4. s.cnt[d] \in Nat /\ s.cnt[d] >= b /\ s2.cnt = s.cnt
    BY <1>1, <1>16, <2>2, SlabStateIs DEF CntCovers
  <2> QED  BY <2>3, <2>4
<1>21. Sound(s2, L2, own, B2)
  BY <1>12, <1>16, <1>18, <1>19, <1>20 DEF Sound, ListInv
<1> QED  BY <1>14, <1>21

-----------------------------------------------------------------------------
\* What is left of Sound when a slab has been given back while on its partial list.
Weak(s, L, own, B) ==
    /\ s \in SlabState /\ s.m.free_cnt \in Nat /\ s.m.occupied_cnt \in Nat
    /\ ObjInv(s, L, own)
    /\ \A d \in Classes : /\ ListIs(Frames, s.m, d, B[d]) /\ 0 \notin B[d]
                          /\ \A f \in B[d] : s.m.state[f] = "POOL" => own[f] = d
WeakFor(s, L) == \E own, B : Weak(s, L, own, B)

\* Frame 0 is on no partial list.
LEMMA ZeroOff == ASSUME NEW mm, NEW B, MemInv(mm, B), NEW d \in Classes PROVE 0 \notin B[d]
<1>1. mm.state[0] = "DMA" /\ (Listed(B, 0) => mm.state[0] = "POOL")
  BY NoPageNoFrame DEF MemInv, StatesAre
<1> QED  BY <1>1 DEF Listed

\* A sound state has that much.
LEMMA SoundIsWeak ==
    ASSUME NEW s, NEW L, NEW own, NEW B, Sound(s, L, own, B)
    PROVE  Weak(s, L, own, B)
<1>1. /\ s \in SlabState /\ ObjInv(s, L, own) /\ MemInv(s.m, B) /\ PartialIs(s, own, B)
  BY DEF Sound, ListInv
<1>2. PICK mm : mm = s.m /\ MemInv(mm, B)
  BY <1>1
<1>3. /\ mm.free_cnt = Cardinality(B["free"]) /\ mm.occupied_cnt = Cardinality(B["occupied"])
      /\ B["free"] \subseteq Frames /\ B["occupied"] \subseteq Frames
  BY <1>2, ListNames, MapIn DEF MemInv, Counted
<1>4. Cardinality(B["free"]) \in Nat /\ Cardinality(B["occupied"]) \in Nat
  BY <1>3, CountOne, NoPageNoFrame
<1>5. ASSUME NEW d \in Classes
      PROVE  /\ ListIs(Frames, mm, d, B[d]) /\ 0 \notin B[d] /\ B[d] \subseteq Frames
  <2>1. ListIs(Frames, mm, d, B[d])
    BY <1>2, ListNames DEF MemInv, ListsAre
  <2>2. IsMap(B)
    BY <1>2 DEF MemInv
  <2> QED  BY <1>2, <2>1, <2>2, MapIn, ListNames, ZeroOff
<1>6. \A d \in Classes : \A f \in B[d] : own[f] = d
  BY <1>1, <1>5 DEF PartialIs
<1> QED  BY <1>1, <1>2, <1>3, <1>4, <1>5, <1>6 DEF Weak

\* frame_release of a slab that is alone on a partial list: the list still holds it.
LEMMA ReleaseStray ==
    ASSUME NEW mm, NEW B, MemInv(mm, B), NEW f \in Frames, mm.state[f] = "POOL",
           NEW c \in Classes, B[c] = {f}, NEW m2, m2 = frame_release(mm, f)
    PROVE  /\ m2 \in Mem /\ m2.state = Store(mm.state, f, "AVAILABLE")
           /\ m2.free_cnt \in Nat /\ m2.occupied_cnt \in Nat
           /\ \A d \in Classes : ListIs(Frames, m2, d, B[d])
<1>1. PICK st, m0, m1 : /\ st = Store(mm.state, f, "AVAILABLE")
                        /\ m0 = SetState(mm, f, "AVAILABLE")
                        /\ m1 = pglist_push_head(m0, "free", f)
  OBVIOUS
<1>2. mm \in Mem /\ mm.state \in [Frames -> States] /\ ListsAre(Frames, Lists, mm, B)
  BY MemTypeIs DEF MemInv, Mem
<1>3. st \in [Frames -> States]
  <2>1. "AVAILABLE" \in States
    BY DEF States
  <2> QED  BY <1>1, <1>2, <2>1, StateStore
<1>4. PICK fc \in Nat, oc \in Nat : fc = mm.free_cnt /\ oc = mm.occupied_cnt
  <2>1. /\ mm.free_cnt = Cardinality(B["free"]) /\ mm.occupied_cnt = Cardinality(B["occupied"])
        /\ B["free"] \subseteq Frames /\ B["occupied"] \subseteq Frames
    BY ListNames, MapIn DEF MemInv, Counted
  <2> QED  BY <2>1, CountOne
<1>5. /\ m0 \in Mem /\ m0.state = st /\ m0.free_cnt = fc /\ m0.occupied_cnt = oc
      /\ m0.next = mm.next /\ m0.prev = mm.prev
      /\ m0.head = mm.head /\ m0.tail = mm.tail
  <2>1. m0 = Touched(mm, st, fc, oc)
    BY <1>1, <1>2, <1>4 DEF SetState, Mem, MemType, Touched
  <2>2. fc \in Int /\ oc \in Int
    OBVIOUS
  <2> QED  BY <1>2, <1>3, <2>1, <2>2, MemTouch
<1>6. ListsAre(Frames, Lists, m0, B)
  BY <1>2, <1>5, KeepLists
<1>7. /\ m1 \in Mem /\ m1.state = st /\ m1.free_cnt = fc /\ m1.occupied_cnt = oc
      /\ \A k \in Lists \ {"free"} : ListIs(Frames, m1, k, B[k])
  <2>1. m0 \in MemType(Frames, Lists, States) /\ NOPAGE \notin Frames /\ "free" \in Lists
        /\ c \in Lists \ {"free"}
    BY <1>5, NoPageNoFrame, ListNames DEF Mem
  <2>2. /\ m1 \in MemType(Frames, Lists, States) /\ m1.state = m0.state
        /\ m1.free_cnt = m0.free_cnt /\ m1.occupied_cnt = m0.occupied_cnt
        /\ \A k \in Lists \ {"free"} : ListIs(Frames, m1, k, B[k])
    BY <1>1, <1>6, <2>1, PushStray
  <2> QED  BY <1>5, <2>2 DEF Mem
<1>8. /\ m2 \in Mem /\ m2.state = st /\ m2.free_cnt = fc + 1 /\ m2.occupied_cnt = oc
      /\ m2.next = m1.next /\ m2.prev = m1.prev
      /\ m2.head = m1.head /\ m2.tail = m1.tail
  <2>1. m2 = [m1 EXCEPT !.free_cnt = @ + 1]
    BY <1>1 DEF frame_release, ListFor
  <2>2. PICK gc : gc = fc + 1 /\ gc \in Int /\ oc \in Int
    OBVIOUS
  <2>3. m2 = Touched(m1, st, gc, oc)
    BY <1>7, <2>1, <2>2 DEF Mem, MemType, Touched
  <2>4. /\ m2 \in Mem /\ m2.state = st /\ m2.free_cnt = gc /\ m2.occupied_cnt = oc
        /\ m2.next = m1.next /\ m2.prev = m1.prev
        /\ m2.head = m1.head /\ m2.tail = m1.tail
    BY <1>3, <1>7, <2>2, <2>3, MemTouch
  <2> QED  BY <2>2, <2>4
<1>9. \A d \in Classes : ListIs(Frames, m1, d, B[d])
  BY <1>7, ListNames
<1>10. \A d \in Classes : ListIs(Frames, m2, d, B[d])
  BY <1>8, <1>9 DEF ListIs
<1> QED  BY <1>1, <1>8, <1>10

\* cache_obj_release that gives back a slab that is alone on the partial list: the slab
\* is not removed from it, and the objects are sound all the same.
LEMMA FreeStrays ==
    ASSUME NEW s, NEW L, NEW own, NEW B, Sound(s, L, own, B), NEW f, NEW o, <<f, o>> \in DOMAIN L,
           NEW c, c = own[f], GivesBack(s, c, f), Floating(s, f), s.m.head[c] = f,
           NEW s2, s2 = cache_obj_release(s, c, f, o), NEW L2, Dropped(L, <<f, o>>, L2)
    PROVE  Weak(s2, L2, own, B)
<1>1. /\ s \in SlabState /\ ObjInv(s, L, own) /\ MemInv(s.m, B) /\ PartialIs(s, own, B)
  BY DEF Sound, ListInv
<1>2. PICK mm : mm = s.m
  OBVIOUS
<1>3. f \in Frames /\ mm.state[f] = "POOL" /\ c \in Classes
  <2>1. f \in Frames /\ s.m.state[f] = "POOL" /\ own[f] \in Classes
    BY <1>1, LiveIs
  <2> QED  BY <1>2, <2>1
<1>4. \A a \in DOMAIN L2 : a[1] # f
  <2>1. s.inuse[f] = 1
    BY DEF GivesBack
  <2> QED  BY <1>1, <2>1, LastObj
<1>5. MemInv(mm, B)
  BY <1>1, <1>2
<1>6. B[c] = {f}
  <2>1. PICK C : C = B[c]
    OBVIOUS
  <2>2. ListIs(Frames, mm, c, C) /\ NOPAGE \notin Frames
    BY <1>3, <1>5, <2>1, ListNames, NoPageNoFrame DEF MemInv, ListsAre
  <2>3. IF C = {} THEN mm.head[c] = NOPAGE /\ mm.tail[c] = NOPAGE
        ELSE mm.head[c] \in C /\ mm.tail[c] \in C /\ mm.head[c] # NOPAGE /\ mm.tail[c] # NOPAGE
    BY <2>2, HeadOn
  <2>4. f \in C
    BY <1>2, <1>3, <2>2, <2>3
  <2>5. Unlinked(mm, f)
    BY <1>2 DEF Floating, Unlinked
  <2>6. C = {f}
    BY <2>2, <2>4, <2>5, AloneIs
  <2> QED  BY <2>1, <2>6
<1>7. PICK m2 : m2 = frame_release(mm, f)
  OBVIOUS
<1>8. s2 = Parts(m2, s.obj, s.inuse, s.link, s.cnt)
  <2>1. s2 = [s EXCEPT !.m = m2]
    BY <1>2, <1>7 DEF cache_obj_release
  <2> QED  BY <1>1, <2>1 DEF Parts, SlabState
<1>9. /\ m2 \in Mem /\ m2.state = Store(mm.state, f, "AVAILABLE")
      /\ m2.free_cnt \in Nat /\ m2.occupied_cnt \in Nat
      /\ \A d \in Classes : ListIs(Frames, m2, d, B[d])
  BY <1>3, <1>5, <1>6, <1>7, ReleaseStray
<1>10. m2.state[f] # "POOL" /\ \A g \in Frames \ {f} : m2.state[g] = mm.state[g]
  <2>1. mm.state \in [Frames -> States] /\ "AVAILABLE" \in States
    BY <1>1, <1>2, SlabStateIs DEF States
  <2> QED  BY <1>3, <1>9, <2>1, StateStore
<1>11. /\ s2 \in SlabState /\ s2.m = m2 /\ s2.obj = s.obj /\ s2.inuse = s.inuse
       /\ s2.link = s.link /\ s2.cnt = s.cnt
  <2>2. /\ s.link \in [Frames -> NextObjs] /\ s.obj \in [Frames -> Offsets \cup {NOOBJ}]
        /\ s.inuse \in [Frames -> 0 .. PageSize] /\ s.cnt \in [Classes -> Nat]
    BY <1>1, SlabStateIs
  <2> QED  BY <1>8, <1>9, <2>2, PartsIs
<1>12. OnlySlab(s, s2, L, L2, own, own, f)
  <2>1. \A g \in Frames \ {f} :
          /\ s2.m.state[g] = s.m.state[g] /\ s2.obj[g] = s.obj[g]
          /\ s2.inuse[g] = s.inuse[g] /\ s2.link[g] = s.link[g]
    BY <1>2, <1>10, <1>11
  <2> QED  BY <2>1, OnlyDropped
<1>13. ObjInv(s2, L2, own)
  <2>1. s2.m.state[f] # "POOL"
    BY <1>10, <1>11
  <2> QED  BY <1>1, <1>3, <1>4, <1>12, <2>1, ObjStep
<1>14. ASSUME NEW d \in Classes
       PROVE  0 \notin B[d] /\ \A g \in B[d] : own[g] = d
  <2>1. 0 \notin B[d]
    BY <1>5, ZeroOff
  <2>2. B[d] \subseteq Frames
    BY <1>5, MapIn, ListNames DEF MemInv
  <2> QED  BY <1>1, <2>1, <2>2 DEF PartialIs
<1> QED  BY <1>9, <1>11, <1>13, <1>14 DEF Weak

\* What kfree_s makes of a sound state, x being the slabs it leaves astray.
Freed(s2, L2, occ, x) ==
    x \subseteq Frames /\ WeakFor(s2, L2) /\ (x = {} => SoundFor(s2, L2, occ))

\* kfree_s.
LEMMA FreeIsSound ==
    ASSUME NEW s, NEW L, NEW occ, SoundFor(s, L, occ), NEW a \in DOMAIN L,
           NEW s2, s2 = Free(s, L[a], a), NEW x, x = StrayFree(s, L[a], a),
           NEW L2, L2 = Without(L, a)
    PROVE  Freed(s2, L2, occ, x)
<1>1. PICK own, B : Sound(s, L, own, B) /\ B["occupied"] = occ
  BY DEF SoundFor
<1>2. ObjInv(s, L, own)
  BY <1>1 DEF Sound
<1>3. PICK f, o : f = a[1] /\ o = a[2] /\ a = <<f, o>>
  <2>1. a \in Frames \X Offsets
    BY <1>2, LiveIn2
  <2> QED  BY <2>1
<1>4. <<f, o>> \in DOMAIN L /\ Dropped(L, <<f, o>>, L2)
  BY <1>3, WithoutIs
<1>5. PICK c : c = own[f]
  OBVIOUS
<1>6. f \in Frames /\ get_kmalloc_cache(L[a]) = c
  BY <1>2, <1>3, <1>4, <1>5, LiveIs
<1>7. s2 = cache_obj_release(s, c, f, o)
  BY <1>3, <1>6 DEF Free
<1>8. x = IF GivesBack(s, c, f) /\ Floating(s, f) /\ s.m.head[c] = f THEN {f} ELSE {}
  BY <1>3, <1>6 DEF StrayFree
<1>9. CASE GivesBack(s, c, f) /\ Floating(s, f) /\ s.m.head[c] = f
  <2>1. Weak(s2, L2, own, B)
    BY <1>1, <1>4, <1>5, <1>7, <1>9, FreeStrays
  <2>2. x # {} /\ x \subseteq Frames
    BY <1>6, <1>8, <1>9
  <2> QED  BY <2>1, <2>2 DEF Freed, WeakFor
<1>10. CASE ~(GivesBack(s, c, f) /\ Floating(s, f) /\ s.m.head[c] = f)
  <2>1. PICK B2 : Sound(s2, L2, own, B2) /\ B2["occupied"] = B["occupied"]
    <3>1. CASE GivesBack(s, c, f)
      BY <1>1, <1>4, <1>5, <1>7, <1>10, <3>1, FreeGivesBack
    <3>2. CASE ~GivesBack(s, c, f)
      BY <1>1, <1>4, <1>5, <1>7, <3>2, FreeKeeps
    <3> QED  BY <3>1, <3>2
  <2>2. Weak(s2, L2, own, B2)
    BY <2>1, SoundIsWeak
  <2>3. x = {}
    BY <1>8, <1>10
  <2> QED  BY <1>1, <2>1, <2>2, <2>3 DEF Freed, WeakFor, SoundFor
<1> QED  BY <1>9, <1>10

\* krealloc to another class: kmalloc_s, then kfree_s of the old address.
LEMMA ReallocMoves ==
    ASSUME NEW s, NEW L, NEW occ, NEW a \in DOMAIN L, NEW size, NEW r, Hands(L, r, size, occ),
           NEW s2, s2 = Free(r.state, L[a], a), NEW x, x = StrayFree(r.state, L[a], a),
           NEW L2, L2 = With(Without(L, a), r.addr, size)
    PROVE  Freed(s2, L2, occ, x)
<1>1. PICK s1, n, L1 : s1 = r.state /\ n = r.addr /\ L1 = With(L, n, size)
  OBVIOUS
<1>2. SoundFor(s1, L1, occ) /\ n \notin DOMAIN L /\ n # a
  BY <1>1 DEF Hands
<1>3. /\ DOMAIN L1 = DOMAIN L \cup {n} /\ L1[n] = size /\ L1[a] = L[a]
      /\ \A y \in DOMAIN L : L1[y] = L[y]
  BY <1>1, <1>2 DEF With
<1>4. L2 = Without(L1, a)
  <2>1. PICK D : D = (DOMAIN L \ {a}) \cup {n}
    OBVIOUS
  <2>2. L2 = [y \in D |-> IF y = n THEN size ELSE L[y]]
    <3>1. PICK W : W = Without(L, a)
      OBVIOUS
    <3>2. DOMAIN W = DOMAIN L \ {a} /\ \A y \in DOMAIN L \ {a} : W[y] = L[y]
      BY <3>1 DEF Without
    <3>3. L2 = [y \in D |-> IF y = n THEN size ELSE W[y]]
      BY <1>1, <2>1, <3>1, <3>2 DEF With
    <3> QED  BY <2>1, <3>2, <3>3
  <2>3. Without(L1, a) = [y \in D |-> L1[y]]
    <3>1. DOMAIN L1 \ {a} = D
      BY <1>2, <1>3, <2>1
    <3> QED  BY <3>1 DEF Without
  <2>4. \A y \in D : L1[y] = IF y = n THEN size ELSE L[y]
    BY <1>2, <1>3, <2>1
  <2> QED  BY <2>2, <2>3, <2>4
<1>5. a \in DOMAIN L1 /\ s2 = Free(s1, L1[a], a) /\ x = StrayFree(s1, L1[a], a)
  BY <1>1, <1>3
<1> QED  BY <1>2, <1>4, <1>5, FreeIsSound

\* krealloc within a class: the size of the address changes.
LEMMA ReallocStays ==
    ASSUME NEW s, NEW L, NEW occ, SoundFor(s, L, occ), NEW a \in DOMAIN L, NEW size \in Sizes,
           get_kmalloc_cache(L[a]) = get_kmalloc_cache(size), NEW L2, L2 = With(L, a, size)
    PROVE  SoundFor(s, L2, occ)
<1>1. PICK own, B : Sound(s, L, own, B) /\ B["occupied"] = occ
  BY DEF SoundFor
<1>2. DOMAIN L2 = DOMAIN L /\ L2[a] = size /\ \A y \in DOMAIN L : y # a => L2[y] = L[y]
  BY DEF With
<1>3. ObjInv(s, L, own)
  BY <1>1 DEF Sound
<1>4. ASSUME NEW f \in Frames, s.m.state[f] = "POOL"
      PROVE  SlabOk(s.link[f], s.obj[f], s.inuse[f], L2, own[f], f)
  <2>1. PICK k, h, n, c : k = s.link[f] /\ h = s.obj[f] /\ n = s.inuse[f] /\ c = own[f]
    OBVIOUS
  <2>2. SlabOk(k, h, n, L, c, f)
    BY <1>3, <1>4, <2>1 DEF ObjInv
  <2>3. SlabOk(k, h, n, L2, c, f)
    BY <1>2, <2>2, OtherSlab
  <2> QED  BY <2>1, <2>3
<1>5. ASSUME NEW y \in DOMAIN L2 PROVE LiveOk(L2, s.m.state, own, y)
  <2>1. LiveOk(L, s.m.state, own, y)
    BY <1>2, <1>3 DEF ObjInv
  <2>2. CASE y = a
    BY <1>2, <2>1, <2>2 DEF LiveOk
  <2>3. CASE y # a
    BY <1>2, <2>1, <2>3 DEF LiveOk
  <2> QED  BY <2>2, <2>3
<1>6. ObjInv(s, L2, own)
  BY <1>4, <1>5 DEF ObjInv
<1>7. Sound(s, L2, own, B)
  BY <1>1, <1>6 DEF Sound
<1> QED  BY <1>1, <1>7 DEF SoundFor

\* The rest of the kernel takes or gives back a frame that is no slab.
LEMMA PageStep ==
    ASSUME NEW s, NEW L, NEW own, NEW B, Sound(s, L, own, B), NEW f \in Frames,
           s.m.state[f] # "POOL", NEW x \in States, x # "POOL",
           NEW m2, m2.state = Store(s.m.state, f, x), NEW B2, MemInv(m2, B2),
           \A d \in Classes : B2[d] = B[d],
           NEW s2, s2 = Parts(m2, s.obj, s.inuse, s.link, s.cnt)
    PROVE  Sound(s2, L, own, B2)
<1>1. /\ s \in SlabState /\ ObjInv(s, L, own) /\ MemInv(s.m, B) /\ PartialIs(s, own, B)
      /\ CntCovers(s, B)
  BY DEF Sound, ListInv
<1>2. m2.state[f] # "POOL" /\ \A g \in Frames \ {f} : m2.state[g] = s.m.state[g]
  <2>1. PICK st : st = s.m.state
    OBVIOUS
  <2>2. st \in [Frames -> States]
    BY <1>1, <2>1, SlabStateIs
  <2>3. m2.state = Store(st, f, x)
    BY <2>1
  <2>4. Store(st, f, x)[f] = x /\ \A g \in Frames \ {f} : Store(st, f, x)[g] = st[g]
    BY <2>2, StateStore
  <2> QED  BY <2>1, <2>3, <2>4
<1>3. /\ s2 \in SlabState /\ s2.m = m2 /\ s2.obj = s.obj /\ s2.inuse = s.inuse
      /\ s2.link = s.link /\ s2.cnt = s.cnt
  <2>1. m2 \in Mem
    BY DEF MemInv
  <2>2. /\ s.link \in [Frames -> NextObjs] /\ s.obj \in [Frames -> Offsets \cup {NOOBJ}]
        /\ s.inuse \in [Frames -> 0 .. PageSize] /\ s.cnt \in [Classes -> Nat]
    BY <1>1, SlabStateIs
  <2> QED  BY <2>1, <2>2, PartsIs
<1>4. OnlySlab(s, s2, L, L, own, own, f)
  BY <1>2, <1>3 DEF OnlySlab
<1>5. ObjInv(s2, L, own)
  <2>1. \A a \in DOMAIN L : a[1] # f
    <3>1. Uses(L, f) = {}
      BY <1>1, NoUses
    <3> QED  BY <3>1 DEF Uses
  <2>2. s2.m.state[f] # "POOL"
    BY <1>2, <1>3
  <2> QED  BY <1>1, <1>4, <2>1, <2>2, ObjStep
<1>6. PartialIs(s2, own, B2)
  <2>1. ASSUME NEW d \in Classes
        PROVE  f \in B2[d] <=> s2.m.state[f] = "POOL" /\ own[f] = d /\ s2.obj[f] # NOOBJ
    BY <1>1, <1>2, <1>3 DEF PartialIs
  <2>2. OthersListed(B, B2, f)
    BY DEF OthersListed
  <2> QED  BY <1>1, <1>4, <2>1, <2>2, PartialStep
<1>7. CntCovers(s2, B2)
  BY <1>1, <1>3 DEF CntCovers
<1> QED  BY <1>3, <1>5, <1>6, <1>7 DEF Sound, ListInv

\* kernel_page_alloc.
LEMMA PageTaken ==
    ASSUME NEW s, NEW L, NEW occ, SoundFor(s, L, occ), NEW a, a = frame_alloc(s.m, "KERNEL"),
           NEW f, f = a.frame, f \notin {0, NOPAGE},
           NEW s2, s2 = Parts(a.mem, s.obj, s.inuse, s.link, s.cnt)
    PROVE  f \in Frames /\ SoundFor(s2, L, occ \cup {f})
<1>1. PICK own, B : Sound(s, L, own, B) /\ B["occupied"] = occ
  BY DEF SoundFor
<1>2. PICK mm, m2 : mm = s.m /\ m2 = a.mem
  OBVIOUS
<1>3. PICK S, T, B1, B2 : /\ S = B["free"] \ {f} /\ B1 = Put(B, "free", S)
                          /\ T = B["occupied"] \cup {f} /\ B2 = Put(B1, "occupied", T)
  OBVIOUS
<1>4. MemInv(mm, B) /\ IsMap(B)
  BY <1>1, <1>2 DEF Sound, ListInv, MemInv
<1>5. /\ f \in Frames /\ f \in B["free"] /\ m2.state = Store(mm.state, f, "KERNEL")
      /\ MemInv(m2, B2)
  <2>1. a = frame_alloc(mm, "KERNEL")
    BY <1>2
  <2>2. /\ f \in Frames /\ f \in B["free"] /\ m2.state = Store(mm.state, f, "KERNEL")
        /\ MemInv(m2, Put(Put(B, "free", B["free"] \ {f}), "occupied", B["occupied"] \cup {f}))
    BY <1>2, <1>4, <2>1, AllocKernel
  <2> QED  BY <1>3, <2>2
<1>6. IsMap(B1) /\ \A k \in Lists \ {"free"} : B1[k] = B[k]
  <2>1. S \subseteq Frames /\ "free" \in Lists /\ B1 = Put(B, "free", S)
    BY <1>3, <1>4, MapIn, ListNames
  <2> QED  BY <1>4, <2>1, PutIs
<1>7. B2["occupied"] = T /\ \A k \in Lists \ {"occupied"} : B2[k] = B1[k]
  <2>1. T \subseteq Frames /\ "occupied" \in Lists /\ B2 = Put(B1, "occupied", T)
    BY <1>3, <1>4, <1>5, MapIn, ListNames
  <2> QED  BY <1>6, <2>1, PutIs
<1>8. \A d \in Classes : B2[d] = B[d]
  BY <1>6, <1>7, ListNames
<1>9. mm.state[f] = "AVAILABLE"
  BY <1>4, <1>5 DEF MemInv, StatesAre
<1>10. Sound(s2, L, own, B2)
  <2>1. /\ s.m.state[f] # "POOL" /\ "KERNEL" \in States /\ m2.state = Store(s.m.state, f, "KERNEL")
        /\ s2 = Parts(m2, s.obj, s.inuse, s.link, s.cnt)
    BY <1>2, <1>5, <1>9 DEF States
  <2> QED  BY <1>1, <1>5, <1>8, <2>1, PageStep
<1> QED  BY <1>1, <1>3, <1>5, <1>7, <1>10 DEF SoundFor

\* kernel_page_release.
LEMMA PageGiven ==
    ASSUME NEW s, NEW L, NEW occ, SoundFor(s, L, occ), NEW f \in occ,
           NEW m2, m2 = frame_release(s.m, f),
           NEW s2, s2 = Parts(m2, s.obj, s.inuse, s.link, s.cnt)
    PROVE  SoundFor(s2, L, occ \ {f})
<1>1. PICK own, B : Sound(s, L, own, B) /\ B["occupied"] = occ
  BY DEF SoundFor
<1>2. PICK mm : mm = s.m
  OBVIOUS
<1>3. PICK S, T, B1, B2 : /\ S = B["occupied"] \ {f} /\ B1 = Put(B, "occupied", S)
                          /\ T = B["free"] \cup {f} /\ B2 = Put(B1, "free", T)
  OBVIOUS
<1>4. MemInv(mm, B) /\ IsMap(B)
  BY <1>1, <1>2 DEF Sound, ListInv, MemInv
<1>5. f \in Frames /\ mm.state[f] = "KERNEL"
  <2>1. f \in Frames
    BY <1>1, <1>4, MapIn, ListNames
  <2> QED  BY <1>1, <1>4, <2>1 DEF MemInv, StatesAre
<1>6. m2.state = Store(mm.state, f, "AVAILABLE") /\ MemInv(m2, B2)
  <2>1. m2 = frame_release(mm, f)
    BY <1>2
  <2>2. /\ m2.state = Store(mm.state, f, "AVAILABLE")
        /\ MemInv(m2, Put(Put(B, "occupied", B["occupied"] \ {f}), "free", B["free"] \cup {f}))
    BY <1>4, <1>5, <2>1, ReleaseKernel
  <2> QED  BY <1>3, <2>2
<1>7. IsMap(B1) /\ B1["occupied"] = S /\ \A k \in Lists \ {"occupied"} : B1[k] = B[k]
  <2>1. S \subseteq Frames /\ "occupied" \in Lists /\ B1 = Put(B, "occupied", S)
    BY <1>3, <1>4, MapIn, ListNames
  <2> QED  BY <1>4, <2>1, PutIs
<1>8. \A k \in Lists \ {"free"} : B2[k] = B1[k]
  <2>1. T \subseteq Frames /\ "free" \in Lists /\ B2 = Put(B1, "free", T)
    BY <1>3, <1>4, <1>5, MapIn, ListNames
  <2> QED  BY <1>7, <2>1, PutIs
<1>9. B2["occupied"] = S /\ \A d \in Classes : B2[d] = B[d]
  BY <1>7, <1>8, ListNames
<1>10. Sound(s2, L, own, B2)
  <2>1. /\ s.m.state[f] # "POOL" /\ "AVAILABLE" \in States
        /\ m2.state = Store(s.m.state, f, "AVAILABLE")
    BY <1>2, <1>5, <1>6 DEF States
  <2> QED  BY <1>1, <1>5, <1>6, <1>9, <2>1, PageStep
<1> QED  BY <1>1, <1>3, <1>9, <1>10 DEF SoundFor

-----------------------------------------------------------------------------
\* The inductive invariant: the objects are sound, and until a slab is given back while
\* listed the lists are, and users are the frames of the list of occupied frames.
IInv ==
    /\ WeakFor(State, live) /\ users \subseteq Frames /\ stray \subseteq Frames
    /\ halted \in BOOLEAN
    /\ stray = {} => SoundFor(State, live, users)

\* The variables become the fields of a state.
LEMMA StateIs ==
    ASSUME NEW s \in SlabState, m' = s.m, obj' = s.obj, inuse' = s.inuse, link' = s.link,
           partial_cnt' = s.cnt
    PROVE  State' = s
BY DEF State, SlabState

\* A state that is sound is a state; so is one that is weakly so.
LEMMA SoundState ==
    ASSUME NEW s, NEW L
    PROVE  /\ WeakFor(s, L) => s \in SlabState
           /\ \A occ : SoundFor(s, L, occ) => s \in SlabState /\ WeakFor(s, L)
<1>1. ASSUME NEW occ, SoundFor(s, L, occ) PROVE s \in SlabState /\ WeakFor(s, L)
  <2>1. PICK own, B : Sound(s, L, own, B)
    BY <1>1 DEF SoundFor
  <2>2. Weak(s, L, own, B)
    BY <2>1, SoundIsWeak
  <2> QED  BY <2>1, <2>2 DEF Sound, WeakFor
<1>2. WeakFor(s, L) => s \in SlabState
  BY DEF WeakFor, Weak
<1> QED  BY <1>1, <1>2

\* page_init: the free list holds the frames 1 .. NumFrames, the last one first.
LEMMA InitList ==
    ASSUME NEW mm, NEW N \in Nat \ {0}, N = NumFrames,
           \A f \in Frames : mm.next[f] = IF f <= 1 THEN NOPAGE ELSE f - 1,
           \A f \in Frames : mm.prev[f] = IF f \in {0, N} THEN NOPAGE ELSE f + 1,
           mm.head["free"] = N, mm.tail["free"] = 1
    PROVE  ListIs(Frames, mm, "free", 1 .. N)
<1>1. PICK q : q = [i \in 1 .. N |-> N + 1 - i]
  OBVIOUS
<1>2. /\ q \in Seq(Frames) /\ Len(q) = N
      /\ \A i \in 1 .. N : q[i] = N + 1 - i /\ q[i] \in Frames
  BY <1>1 DEF Frames
<1>3. NoRepeat(q)
  BY <1>2 DEF NoRepeat
<1>4. Range(q) = 1 .. N
  <2>1. ASSUME NEW x \in 1 .. N PROVE \E i \in 1 .. N : x = q[i]
    <3>1. N + 1 - x \in 1 .. N /\ q[N + 1 - x] = x
      BY <1>2
    <3> QED  BY <3>1
  <2>2. \A i \in 1 .. N : q[i] \in 1 .. N
    BY <1>2
  <2>3. /\ \A i \in 1 .. N : q[i] \in Range(q)
        /\ \A x \in Range(q) : \E i \in 1 .. N : x = q[i]
    <3>1. q \in Seq(Frames) /\ N = Len(q)
      BY <1>2
    <3> QED  BY <3>1, RangeIs
  <2>4. \A x : x \in Range(q) <=> x \in 1 .. N
    BY <2>1, <2>2, <2>3
  <2> QED  BY <2>4
<1>5. PICK nx, pv, h, t : nx = mm.next /\ pv = mm.prev /\ h = mm.head["free"] /\ t = mm.tail["free"]
  OBVIOUS
<1>6. ASSUME NEW i \in 1 .. N - 1 PROVE pv[q[i + 1]] = q[i] /\ nx[q[i]] = q[i + 1]
  <2>1. PICK a \in Frames, b \in Frames : /\ a = q[i] /\ b = q[i + 1] /\ a = b + 1 /\ b # N
                                          /\ b > 0 /\ a > 1
    BY <1>2
  <2>2. pv[b] = b + 1 /\ nx[a] = a - 1
    <3>1. b \notin {0, N} /\ ~(a <= 1)
      BY <2>1 DEF Frames
    <3> QED  BY <1>5, <2>1, <3>1
  <2> QED  BY <2>1, <2>2 DEF Frames
<1>7. h = q[1] /\ t = q[N] /\ pv[q[1]] = NOPAGE
  <2>1. q[1] = N /\ q[N] = 1 /\ N \in Frames
    BY <1>2 DEF Frames
  <2> QED  BY <1>5, <2>1
<1>8. Chain(Frames, nx, pv, h, t, q)
  BY <1>2, <1>3, <1>6, <1>7 DEF Chain
<1> QED  BY <1>4, <1>5, <1>8 DEF ListIs

\* An empty list.
LEMMA EmptyList ==
    ASSUME NEW mm, NEW l, mm.head[l] = NOPAGE, mm.tail[l] = NOPAGE
    PROVE  ListIs(Frames, mm, l, {}) /\ EndsClean(mm, l)
<1>1. PICK q : q = << >>
  OBVIOUS
<1>2. q \in Seq(Frames) /\ Len(q) = 0 /\ NoRepeat(q) /\ Range(q) = {}
  BY <1>1 DEF NoRepeat, Range
<1>3. Chain(Frames, mm.next, mm.prev, mm.head[l], mm.tail[l], q)
  BY <1>2 DEF Chain
<1> QED  BY <1>2, <1>3 DEF ListIs, EndsClean, CleanEnd

\* The memory that page_init leaves.
LEMMA InitMem ==
    ASSUME Init
    PROVE  MemInv(m, [l \in Lists |-> IF l = "free" THEN 1 .. NumFrames ELSE {}])
<1>0. PICK B : B = [l \in Lists |-> IF l = "free" THEN 1 .. NumFrames ELSE {}]
  OBVIOUS
<1>1. PICK N \in Nat \ {0} : N = NumFrames
  BY SlabAssumption
<1>2. /\ m.state = [f \in Frames |-> IF f = 0 THEN "DMA" ELSE "AVAILABLE"]
      /\ m.next = [f \in Frames |-> IF f <= 1 THEN NOPAGE ELSE f - 1]
      /\ m.prev = [f \in Frames |-> IF f \in {0, N} THEN NOPAGE ELSE f + 1]
      /\ m.head = [l \in Lists |-> IF l = "free" THEN N ELSE NOPAGE]
      /\ m.tail = [l \in Lists |-> IF l = "free" THEN 1 ELSE NOPAGE]
      /\ m.free_cnt = N /\ m.occupied_cnt = 0
  BY <1>1 DEF Init
<1>3. m \in Mem
  <2>1. /\ m.state \in [Frames -> States] /\ m.free_cnt \in Int /\ m.occupied_cnt \in Int
    BY <1>2 DEF States
  <2>2. m.next \in Pointers(Frames) /\ m.prev \in Pointers(Frames)
    BY <1>1, <1>2 DEF Pointers, Frames
  <2>3. m.head \in [Lists -> Frames \cup {NOPAGE}] /\ m.tail \in [Lists -> Frames \cup {NOPAGE}]
    BY <1>1, <1>2 DEF Frames
  <2>4. m = [state |-> m.state, next |-> m.next, prev |-> m.prev, head |-> m.head,
             tail |-> m.tail, free_cnt |-> m.free_cnt, occupied_cnt |-> m.occupied_cnt]
    BY DEF Init
  <2> QED  BY <2>1, <2>2, <2>3, <2>4 DEF Mem, MemType
<1>4. B["free"] = 1 .. N /\ \A l \in Lists \ {"free"} : B[l] = {}
  BY <1>0, <1>1, ListNames
<1>5. IsMap(B)
  BY <1>0, <1>1 DEF IsMap, Frames
<1>6. ListIs(Frames, m, "free", 1 .. N)
  <2>1. m.head["free"] = N /\ m.tail["free"] = 1
    BY <1>2, ListNames
  <2>2. /\ \A f \in Frames : m.next[f] = IF f <= 1 THEN NOPAGE ELSE f - 1
        /\ \A f \in Frames : m.prev[f] = IF f \in {0, N} THEN NOPAGE ELSE f + 1
    BY <1>2
  <2> QED  BY <1>1, <2>1, <2>2, InitList
<1>7. \A l \in Lists \ {"free"} : ListIs(Frames, m, l, {}) /\ EndsClean(m, l)
  <2>1. \A l \in Lists \ {"free"} : m.head[l] = NOPAGE /\ m.tail[l] = NOPAGE
    BY <1>2
  <2> QED  BY <2>1, EmptyList
<1>8. ListsAre(Frames, Lists, m, B)
  <2>1. ASSUME NEW l \in Lists PROVE ListIs(Frames, m, l, B[l])
    <3>1. CASE l = "free"
      BY <1>4, <1>6, <3>1
    <3>2. CASE l # "free"
      BY <1>4, <1>7, <3>2
    <3> QED  BY <3>1, <3>2
  <2>2. \A k, l \in Lists : k # l => B[k] \cap B[l] = {}
    BY <1>4
  <2> QED  BY <2>1, <2>2 DEF ListsAre
<1>9. \A f : ~Listed(B, f)
  BY <1>4, ListNames DEF Listed
<1>10. B["occupied"] = {}
  BY <1>4, ListNames
<1>11. StatesAre(m.state, B)
  <2>1. m.state[0] = "DMA" /\ \A f \in Frames : f # 0 => m.state[f] = "AVAILABLE"
    BY <1>2, NoPageNoFrame
  <2>2. \A f \in Frames : f \in 1 .. N <=> f # 0
    BY <1>1 DEF Frames
  <2> QED  BY <1>4, <1>9, <1>10, <2>1, <2>2 DEF StatesAre
<1>12. Counted(m, B)
  <2>1. Cardinality(1 .. N) = N
    BY FS_Interval
  <2>2. Cardinality(B["occupied"]) = 0
    BY <1>10, FS_EmptySet
  <2> QED  BY <1>2, <1>4, <2>1, <2>2 DEF Counted
<1>13. FloatingUnlinked(m, B)
  BY <1>2 DEF FloatingUnlinked
<1>14. MemInv(m, B)
  BY <1>3, <1>5, <1>7, <1>8, <1>11, <1>12, <1>13 DEF MemInv
<1> QED  BY <1>0, <1>14

\* The invariant holds at the start.
LEMMA InitIInv == Init => IInv
<1> SUFFICES ASSUME Init PROVE IInv
  OBVIOUS
<1>1. PICK B, own : /\ B = [l \in Lists |-> IF l = "free" THEN 1 .. NumFrames ELSE {}]
                    /\ own = [f \in Frames |-> f]
  OBVIOUS
<1>2. MemInv(m, B)
  BY <1>1, InitMem
<1>3. B["occupied"] = {} /\ \A c \in Classes : B[c] = {}
  BY <1>1, ListNames
<1>4. PICK s : s = State
  OBVIOUS
<1>5. s.m = m /\ s.obj = obj /\ s.inuse = inuse /\ s.link = link /\ s.cnt = partial_cnt
  BY <1>4 DEF State
<1>6. s \in SlabState
  <2>1. m \in Mem
    BY <1>2 DEF MemInv
  <2>2. 0 \in Offsets /\ 0 \in 0 .. PageSize
    BY SlabAssumption DEF Offsets
  <2>3. /\ obj \in [Frames -> Offsets \cup {NOOBJ}] /\ inuse \in [Frames -> 0 .. PageSize]
        /\ partial_cnt \in [Classes -> Nat]
    BY <2>2 DEF Init
  <2>4. link \in [Frames -> NextObjs]
    BY <2>2 DEF Init, NextObjs
  <2> QED  BY <1>4, <2>1, <2>3, <2>4 DEF State, SlabState
<1>7. DOMAIN live = {}
  BY DEF Init
<1>8. \A f \in Frames : m.state[f] # "POOL"
  BY DEF Init
<1>9. ObjInv(s, live, own)
  BY <1>5, <1>7, <1>8 DEF ObjInv
<1>10. PartialIs(s, own, B)
  BY <1>3, <1>5, <1>8 DEF PartialIs
<1>11. CntCovers(s, B)
  <2>1. Cardinality({}) = 0
    BY FS_EmptySet
  <2>2. \A c \in Classes : partial_cnt[c] = 0
    BY DEF Init
  <2> QED  BY <1>3, <1>5, <2>1, <2>2 DEF CntCovers
<1>12. Sound(s, live, own, B)
  BY <1>2, <1>5, <1>6, <1>9, <1>10, <1>11 DEF Sound, ListInv
<1>13. users = {} /\ stray = {} /\ halted = FALSE
  BY DEF Init
<1>14. SoundFor(State, live, users)
  BY <1>3, <1>4, <1>12, <1>13 DEF SoundFor
<1> QED  BY <1>13, <1>14, SoundState DEF IInv

\* What a step has to leave for the invariant to hold after it.
LEMMA StepTo ==
    ASSUME NEW s, NEW L, NEW occ, NEW x, Freed(s, L, occ, x), occ \subseteq Frames,
           m' = s.m, obj' = s.obj, inuse' = s.inuse, link' = s.link, partial_cnt' = s.cnt,
           live' = L, users' = occ, stray' = x, halted' \in BOOLEAN
    PROVE  IInv'
<1>1. WeakFor(s, L) /\ x \subseteq Frames /\ (x = {} => SoundFor(s, L, occ))
  BY DEF Freed
<1>2. State' = s
  <2>1. s \in SlabState
    BY <1>1, SoundState
  <2> QED  BY <2>1, StateIs
<1> QED  BY <1>1, <1>2 DEF IInv

\* A sound state with no slab astray will do.
LEMMA NoneAstray == ASSUME NEW s, NEW L, NEW occ, SoundFor(s, L, occ) PROVE Freed(s, L, occ, {})
BY SoundState DEF Freed

\* kmalloc_s keeps the invariant.
LEMMA MallocStep == ASSUME IInv, NEW size \in Sizes, kmalloc_s(size) PROVE IInv'
<1>1. stray = {} /\ SoundFor(State, live, users) /\ users \subseteq Frames
  BY DEF IInv, kmalloc_s, Running
<1>2. PICK s, r, L, occ : s = State /\ r = Malloc(State, size) /\ L = live /\ occ = users
  OBVIOUS
<1>3. /\ Becomes(r.state) /\ halted' = (r.addr[1] = NOPAGE)
      /\ live' = IF halted' THEN live ELSE With(live, r.addr, size)
      /\ users' = users /\ stray' = stray
  BY <1>2 DEF kmalloc_s
<1>4. PICK s2 : s2 = r.state
  OBVIOUS
<1>5. m' = s2.m /\ obj' = s2.obj /\ inuse' = s2.inuse /\ link' = s2.link /\ partial_cnt' = s2.cnt
  BY <1>3, <1>4 DEF Becomes
<1>6. Fails(s, r) \/ Hands(L, r, size, occ)
  BY <1>1, <1>2, MallocIs
<1>7. CASE Fails(s, r)
  <2>1. s2 = s /\ halted' = TRUE /\ live' = L
    BY <1>2, <1>3, <1>4, <1>7 DEF Fails
  <2>2. Freed(s2, L, occ, {})
    BY <1>1, <1>2, <2>1, NoneAstray
  <2> QED  BY <1>1, <1>2, <1>3, <1>5, <2>1, <2>2, StepTo
<1>8. CASE Hands(L, r, size, occ)
  <2>1. PICK L2 : L2 = With(L, r.addr, size)
    OBVIOUS
  <2>2. SoundFor(s2, L2, occ) /\ halted' = FALSE /\ live' = L2
    BY <1>2, <1>3, <1>4, <1>8, <2>1 DEF Hands
  <2>3. Freed(s2, L2, occ, {})
    BY <2>2, NoneAstray
  <2> QED  BY <1>1, <1>2, <1>3, <1>5, <2>2, <2>3, StepTo
<1> QED  BY <1>6, <1>7, <1>8

\* kfree_s keeps the invariant.
LEMMA FreeStep == ASSUME IInv, NEW addr \in DOMAIN live, kfree_s(addr) PROVE IInv'
<1>1. stray = {} /\ SoundFor(State, live, users) /\ users \subseteq Frames /\ halted \in BOOLEAN
  BY DEF IInv, kfree_s, Running
<1>2. PICK s, L, occ : s = State /\ L = live /\ occ = users
  OBVIOUS
<1>3. PICK s2, x, L2 : /\ s2 = Free(s, L[addr], addr) /\ x = StrayFree(s, L[addr], addr)
                       /\ L2 = Without(L, addr)
  OBVIOUS
<1>4. /\ Becomes(s2) /\ live' = L2 /\ stray' = x /\ users' = users /\ halted' = halted
  BY <1>2, <1>3 DEF kfree_s
<1>5. m' = s2.m /\ obj' = s2.obj /\ inuse' = s2.inuse /\ link' = s2.link /\ partial_cnt' = s2.cnt
  BY <1>4 DEF Becomes
<1>6. Freed(s2, L2, occ, x)
  <2>1. SoundFor(s, L, occ) /\ addr \in DOMAIN L
    BY <1>1, <1>2
  <2> QED  BY <1>3, <2>1, FreeIsSound
<1>7. occ \subseteq Frames /\ users' = occ /\ halted' \in BOOLEAN
  BY <1>1, <1>2, <1>4
<1> QED  BY <1>4, <1>5, <1>6, <1>7, StepTo

\* krealloc keeps the invariant.
LEMMA ReallocStep ==
    ASSUME IInv, NEW addr \in DOMAIN live, NEW size \in Sizes, krealloc(addr, size) PROVE IInv'
<1>1. stray = {} /\ SoundFor(State, live, users) /\ users \subseteq Frames
  BY DEF IInv, krealloc, Running
<1>2. PICK s, r, L, occ : s = State /\ r = Malloc(State, size) /\ L = live /\ occ = users
  OBVIOUS
<1>3. PICK moves, fails : /\ moves = (get_kmalloc_cache(L[addr]) # get_kmalloc_cache(size))
                          /\ fails = (moves /\ r.addr[1] = NOPAGE)
  OBVIOUS
<1>4. PICK s2, x, L2 :
        /\ s2 = IF moves /\ ~fails THEN Free(r.state, L[addr], addr) ELSE s
        /\ x = IF moves /\ ~fails THEN StrayFree(r.state, L[addr], addr) ELSE {}
        /\ L2 = IF fails THEN L
                ELSE IF moves THEN With(Without(L, addr), r.addr, size) ELSE With(L, addr, size)
  OBVIOUS
<1>5. Becomes(s2) /\ halted' = fails /\ live' = L2 /\ stray' = x /\ users' = users
  BY <1>2, <1>3, <1>4 DEF krealloc
<1>6. m' = s2.m /\ obj' = s2.obj /\ inuse' = s2.inuse /\ link' = s2.link /\ partial_cnt' = s2.cnt
  BY <1>5 DEF Becomes
<1>7. SoundFor(s, L, occ) /\ addr \in DOMAIN L
  BY <1>1, <1>2
<1>8. Freed(s2, L2, occ, x)
  <2>1. CASE ~moves
    <3>1. s2 = s /\ x = {} /\ L2 = With(L, addr, size)
      BY <1>3, <1>4, <2>1
    <3>2. get_kmalloc_cache(L[addr]) = get_kmalloc_cache(size)
      BY <1>3, <2>1
    <3>3. SoundFor(s, L2, occ)
      BY <1>7, <3>1, <3>2, ReallocStays
    <3> QED  BY <3>1, <3>3, NoneAstray
  <2>2. CASE moves /\ fails
    <3>1. s2 = s /\ x = {} /\ L2 = L
      BY <1>4, <2>2
    <3> QED  BY <1>7, <3>1, NoneAstray
  <2>3. CASE moves /\ ~fails
    <3>1. /\ s2 = Free(r.state, L[addr], addr) /\ x = StrayFree(r.state, L[addr], addr)
          /\ L2 = With(Without(L, addr), r.addr, size)
      BY <1>4, <2>3
    <3>2. r.addr[1] # NOPAGE
      BY <1>3, <2>3
    <3>3. Hands(L, r, size, occ)
      <4>1. Fails(s, r) \/ Hands(L, r, size, occ)
        BY <1>2, <1>7, MallocIs
      <4> QED  BY <3>2, <4>1 DEF Fails
    <3> QED  BY <1>7, <3>1, <3>3, ReallocMoves
  <2> QED  BY <2>1, <2>2, <2>3
<1>9. occ \subseteq Frames /\ users' = occ /\ halted' \in BOOLEAN
  BY <1>1, <1>2, <1>3, <1>5
<1> QED  BY <1>5, <1>6, <1>8, <1>9, StepTo

\* So do the steps of the rest of the kernel.
LEMMA PageAllocStep == ASSUME IInv, kernel_page_alloc PROVE IInv'
<1>1. /\ stray = {} /\ SoundFor(State, live, users) /\ users \subseteq Frames /\ halted \in BOOLEAN
  BY DEF IInv, kernel_page_alloc, Running
<1>2. PICK s, a, f, L, occ : /\ s = State /\ a = frame_alloc(m, "KERNEL") /\ f = a.frame
                             /\ L = live /\ occ = users
  OBVIOUS
<1>3. s.m = m /\ s.obj = obj /\ s.inuse = inuse /\ s.link = link /\ s.cnt = partial_cnt
  BY <1>2 DEF State
<1>4. /\ f \notin {0, NOPAGE} /\ m' = a.mem /\ users' = occ \cup {f}
      /\ obj' = s.obj /\ inuse' = s.inuse /\ link' = s.link /\ partial_cnt' = s.cnt
      /\ live' = L /\ stray' = {} /\ halted' \in BOOLEAN
  BY <1>1, <1>2, <1>3 DEF kernel_page_alloc
<1>5. PICK s2 : s2 = Parts(a.mem, s.obj, s.inuse, s.link, s.cnt)
  OBVIOUS
<1>6. s2.m = a.mem /\ s2.obj = s.obj /\ s2.inuse = s.inuse /\ s2.link = s.link /\ s2.cnt = s.cnt
  BY <1>5 DEF Parts
<1>7. f \in Frames /\ SoundFor(s2, L, occ \cup {f})
  <2>1. SoundFor(s, L, occ) /\ a = frame_alloc(s.m, "KERNEL")
    BY <1>1, <1>2, <1>3
  <2> QED  BY <1>2, <1>4, <1>5, <2>1, PageTaken
<1>8. Freed(s2, L, occ \cup {f}, {})
  BY <1>7, NoneAstray
<1>9. occ \cup {f} \subseteq Frames
  BY <1>1, <1>2, <1>7
<1>10. m' = s2.m /\ obj' = s2.obj /\ inuse' = s2.inuse /\ link' = s2.link /\ partial_cnt' = s2.cnt
  BY <1>4, <1>6
<1> QED  BY <1>4, <1>8, <1>9, <1>10, StepTo

\* A page is given back.
LEMMA PageReleaseStep == ASSUME IInv, NEW f \in users, kernel_page_release(f) PROVE IInv'
<1>1. /\ stray = {} /\ SoundFor(State, live, users) /\ users \subseteq Frames /\ halted \in BOOLEAN
  BY DEF IInv, kernel_page_release, Running
<1>2. PICK s, m2, L, occ : s = State /\ m2 = frame_release(m, f) /\ L = live /\ occ = users
  OBVIOUS
<1>3. s.m = m /\ s.obj = obj /\ s.inuse = inuse /\ s.link = link /\ s.cnt = partial_cnt
  BY <1>2 DEF State
<1>4. /\ m' = m2 /\ users' = occ \ {f}
      /\ obj' = s.obj /\ inuse' = s.inuse /\ link' = s.link /\ partial_cnt' = s.cnt
      /\ live' = L /\ stray' = {} /\ halted' \in BOOLEAN
  BY <1>1, <1>2, <1>3 DEF kernel_page_release
<1>5. PICK s2 : s2 = Parts(m2, s.obj, s.inuse, s.link, s.cnt)
  OBVIOUS
<1>6. s2.m = m2 /\ s2.obj = s.obj /\ s2.inuse = s.inuse /\ s2.link = s.link /\ s2.cnt = s.cnt
  BY <1>5 DEF Parts
<1>7. SoundFor(s2, L, occ \ {f})
  <2>1. SoundFor(s, L, occ) /\ m2 = frame_release(s.m, f) /\ f \in occ
    BY <1>1, <1>2, <1>3
  <2> QED  BY <1>5, <2>1, PageGiven
<1>8. Freed(s2, L, occ \ {f}, {})
  BY <1>7, NoneAstray
<1>9. occ \ {f} \subseteq Frames
  BY <1>1, <1>2
<1>10. m' = s2.m /\ obj' = s2.obj /\ inuse' = s2.inuse /\ link' = s2.link /\ partial_cnt' = s2.cnt
  BY <1>4, <1>6
<1> QED  BY <1>4, <1>8, <1>9, <1>10, StepTo

\* Every step of the allocator keeps the invariant: kmalloc_s, kfree_s, krealloc, and the
\* pages the rest of the kernel takes and gives back.
THEOREM Invariance == Spec => []IInv
<1>1. IInv /\ [Next]_vars => IInv'
  <2> SUFFICES ASSUME IInv, [Next]_vars PROVE IInv'
    OBVIOUS
  <2>1. CASE UNCHANGED vars
    <3>1. State' = State /\ live' = live /\ users' = users /\ stray' = stray /\ halted' = halted
      BY <2>1 DEF vars, State
    <3> QED  BY <3>1 DEF IInv
  <2>2. CASE Next
    BY <2>2, MallocStep, FreeStep, ReallocStep, PageAllocStep, PageReleaseStep DEF Next
  <2> QED  BY <2>1, <2>2
<1> QED  BY <1>1, InitIInv, PTL DEF Spec

\* Page descriptors, page lists, object chains and addresses in use stay what their types
\* say: every index the slab code follows is a frame, an object or the null link.
THEOREM TypeCorrect == Spec => []TypeOK
<1>1. IInv => TypeOK
  <2> SUFFICES ASSUME IInv PROVE TypeOK
    OBVIOUS
  <2>1. PICK own, B : Weak(State, live, own, B)
    BY DEF IInv, WeakFor
  <2>2. PICK s : s = State
    OBVIOUS
  <2>3. s.m = m /\ s.obj = obj /\ s.inuse = inuse /\ s.link = link /\ s.cnt = partial_cnt
    BY <2>2 DEF State
  <2>4. s \in SlabState /\ ObjInv(s, live, own) /\ m.free_cnt \in Nat /\ m.occupied_cnt \in Nat
    BY <2>1, <2>2, <2>3 DEF Weak
  <2>5. /\ m \in Mem /\ obj \in [Frames -> Offsets \cup {NOOBJ}]
        /\ inuse \in [Frames -> 0 .. PageSize] /\ link \in [Frames -> NextObjs]
        /\ partial_cnt \in [Classes -> Nat]
    BY <2>3, <2>4, SlabStateIs
  <2>6. m \in Memory
    BY <2>4, <2>5 DEF Mem, MemType, Memory, Pointers
  <2>7. DOMAIN live \subseteq Frames \X Offsets /\ \A a \in DOMAIN live : live[a] \in Sizes
    BY <2>4 DEF ObjInv, LiveOk
  <2> QED  BY <2>5, <2>6, <2>7 DEF TypeOK, IInv, NextObjs
<1> QED  BY <1>1, Invariance, PTL

\* The walk over a partial list meets the frames the list holds.
LEMMA PartialPages ==
    ASSUME NEW c, NEW C, ListIs(Frames, m, c, C), 0 \notin C
    PROVE  WellLinked(m, c, NumFrames) /\ Partial(c) = C
<1>1. PICK q : Chain(Frames, m.next, m.prev, m.head[c], m.tail[c], q) /\ Range(q) = C
  BY DEF ListIs
<1>2. Len(q) <= NumFrames
  <2>1. PICK P : P = Frames \ {0}
    OBVIOUS
  <2>2. q \in Seq(Frames) /\ NoRepeat(q)
    BY <1>1 DEF Chain
  <2>3. q \in Seq(P)
    <3>1. \A i \in 1 .. Len(q) : q[i] \in C /\ q[i] \in Frames
      BY <1>1, <2>2, RangeIs
    <3>2. \A i \in 1 .. Len(q) : q[i] \in P
      BY <2>1, <3>1
    <3> QED  BY <2>2, <3>2
  <2>4. IsFiniteSet(P) /\ Cardinality(P) = NumFrames
    BY <2>1, FramesFinite
  <2>5. Len(q) <= Cardinality(P)
    BY <2>2, <2>3, <2>4, NoRepeatLen
  <2> QED  BY <2>4, <2>5
<1>3. WellLinked(m, c, NumFrames) /\ PagesOf(m, c, NumFrames) = Range(q)
  BY <1>1, <1>2, NoPageNoFrame, SlabAssumption, WalkIs
<1> QED  BY <1>1, <1>3 DEF Partial

\* What the invariant says of the slabs of class c.
LEMMA SlabClass ==
    ASSUME NEW own, NEW B, Weak(State, live, own, B), NEW c \in Classes, NEW f \in SlabOf(c)
    PROVE  f \in Frames /\ m.state[f] = "POOL" /\ own[f] = c
<1>1. f \in Frames /\ m.state[f] = "POOL"
  BY DEF SlabOf, Slabs
<1>2. State.m = m
  BY DEF State
<1>3. CASE f \in Partial(c)
  <2>1. ListIs(Frames, m, c, B[c]) /\ 0 \notin B[c] /\ \A g \in B[c] : m.state[g] = "POOL" => own[g] = c
    BY <1>2 DEF Weak
  <2>2. Partial(c) = B[c]
    BY <2>1, PartialPages
  <2> QED  BY <1>1, <1>3, <2>1, <2>2
<1>4. CASE f \notin Partial(c)
  <2>1. PICK a \in DOMAIN live : a[1] = f /\ get_kmalloc_cache(live[a]) = c
    BY <1>4 DEF SlabOf, LiveIn
  <2>2. LiveOk(live, State.m.state, own, a)
    BY <2>1 DEF Weak, ObjInv
  <2> QED  BY <1>1, <2>1, <2>2 DEF LiveOk
<1> QED  BY <1>3, <1>4

\* cache_obj_alloc and cache_obj_release keep the chain of free objects of every slab
\* exact, also after a slab was given back while listed: kmalloc never hands out an
\* object twice and loses none, and inuse is right, so a slab in use is never given back.
THEOREM ObjectsSoundHolds == Spec => []ObjectsSound
<1>1. IInv => ObjectsSound
  <2> SUFFICES ASSUME IInv, NEW c \in Classes, NEW f \in SlabOf(c)
               PROVE  LET walk  == FreeChain(f)
                          chain == {walk[n] : n \in 0 .. PageSize} \ {NOOBJ} IN
                      /\ walk[ObjCnt(c)] = NOOBJ
                      /\ chain = {o \in 0 .. ObjCnt(c) - 1 : <<f, o>> \notin DOMAIN live}
                      /\ inuse[f] = Cardinality(LiveIn(f))
    BY DEF ObjectsSound
  <2>1. PICK own, B : Weak(State, live, own, B)
    BY DEF IInv, WeakFor
  <2>2. f \in Frames /\ m.state[f] = "POOL" /\ own[f] = c
    BY <2>1, SlabClass
  <2>3. SlabOk(link[f], obj[f], inuse[f], live, c, f)
    BY <2>1, <2>2 DEF Weak, ObjInv, State
  <2>4. PICK N \in 1 .. PageSize : N = ObjCnt(c)
    BY ObjCntIs
  <2>5. PICK S : S = FreeObjs(live, f, N)
    OBVIOUS
  <2>6. FreeIs(link[f], obj[f], S) /\ inuse[f] = Cardinality(Uses(live, f))
    BY <2>3, <2>4, <2>5 DEF SlabOk
  <2>7. S \subseteq 0 .. N - 1
    BY <2>5 DEF FreeObjs
  <2>8. /\ FreeChain(f)[N] = NOOBJ
        /\ {FreeChain(f)[n] : n \in 0 .. PageSize} \ {NOOBJ} = S
    BY <2>6, <2>7, FreeWalk
  <2>9. LiveIn(f) = Uses(live, f)
    BY DEF LiveIn, Uses
  <2>10. S = {o \in 0 .. ObjCnt(c) - 1 : <<f, o>> \notin DOMAIN live}
    BY <2>4, <2>5 DEF FreeObjs
  <2>11. FreeChain(f)[ObjCnt(c)] = NOOBJ
    BY <2>4, <2>8
  <2>12. inuse[f] = Cardinality(LiveIn(f))
    BY <2>6, <2>9
  <2> QED  BY <2>8, <2>10, <2>11, <2>12, Zenon
<1> QED  BY <1>1, Invariance, PTL

\* Until a slab is given back while listed, each cache's partial list is well linked and
\* holds exactly the slabs of its class that have a free object, no slab serves two
\* classes, every object in use lies in a slab, and no other user of pages has that frame.
THEOREM SlabsSoundHolds == Spec => []SlabsSound
<1>1. IInv => SlabsSound
  <2> SUFFICES ASSUME IInv, stray = {}
               PROVE  /\ \A c \in Classes :
                            /\ WellLinked(m, c, NumFrames)
                            /\ Partial(c) = {f \in SlabOf(c) : obj[f] # NOOBJ}
                            /\ \A d \in Classes \ {c} : SlabOf(c) \cap SlabOf(d) = {}
                      /\ \A a \in DOMAIN live : a[1] \in Slabs
                      /\ users \cap Slabs = {}
    BY DEF SlabsSound
  <2>1. PICK own, B : Sound(State, live, own, B) /\ B["occupied"] = users
    BY DEF IInv, SoundFor
  <2>2. Weak(State, live, own, B)
    BY <2>1, SoundIsWeak
  <2>3. State.m = m /\ State.obj = obj
    BY DEF State
  <2>4. MemInv(m, B) /\ ObjInv(State, live, own)
    BY <2>1, <2>3 DEF Sound, ListInv
  <2>5. \A c \in Classes : \A f \in Frames :
           f \in B[c] <=> m.state[f] = "POOL" /\ own[f] = c /\ obj[f] # NOOBJ
    BY <2>1, <2>3 DEF Sound, ListInv, PartialIs
  <2>6. ASSUME NEW c \in Classes
        PROVE  /\ WellLinked(m, c, NumFrames)
               /\ Partial(c) = {f \in SlabOf(c) : obj[f] # NOOBJ}
               /\ \A d \in Classes \ {c} : SlabOf(c) \cap SlabOf(d) = {}
    <3>1. ListIs(Frames, m, c, B[c]) /\ 0 \notin B[c]
      BY <2>2, <2>3 DEF Weak
    <3>2. WellLinked(m, c, NumFrames) /\ Partial(c) = B[c]
      BY <3>1, PartialPages
    <3>3. B[c] \subseteq Frames
      BY <2>4, MapIn, ListNames DEF MemInv
    <3>4. ASSUME NEW d \in Classes, NEW f \in SlabOf(d)
          PROVE  f \in Frames /\ m.state[f] = "POOL" /\ own[f] = d
      BY <2>2, SlabClass
    <3>5. ASSUME NEW f \in B[c] PROVE f \in SlabOf(c) /\ obj[f] # NOOBJ
      <4>1. f \in Frames /\ m.state[f] = "POOL" /\ obj[f] # NOOBJ
        BY <2>5, <3>3
      <4> QED  BY <3>2, <4>1 DEF SlabOf, Slabs
    <3>6. ASSUME NEW f \in SlabOf(c), obj[f] # NOOBJ PROVE f \in B[c]
      BY <2>5, <3>4, <3>6
    <3>7. \A f : f \in B[c] <=> f \in SlabOf(c) /\ obj[f] # NOOBJ
      BY <3>5, <3>6
    <3>8. \A d \in Classes \ {c} : SlabOf(c) \cap SlabOf(d) = {}
      BY <3>4
    <3> QED  BY <3>2, <3>7, <3>8
  <2>7. ASSUME NEW a \in DOMAIN live PROVE a[1] \in Slabs
    <3>1. LiveOk(live, m.state, own, a)
      BY <2>3, <2>4 DEF ObjInv
    <3> QED  BY <3>1 DEF LiveOk, Slabs
  <2>8. users \cap Slabs = {}
    <3>1. \A f \in Frames : f \in users => m.state[f] = "KERNEL"
      BY <2>1, <2>4 DEF MemInv, StatesAre
    <3> QED  BY <3>1 DEF Slabs
  <2> QED  BY <2>6, <2>7, <2>8
<1> QED  BY <1>1, Invariance, PTL

\* partial_cnt, by which cache_obj_release decides, is never less than the length of the
\* partial list: a cache gives a slab back too early, never too late.
THEOREM PartialCntCoversHolds == Spec => []PartialCntCovers
<1>1. IInv => PartialCntCovers
  <2> SUFFICES ASSUME IInv, stray = {}, NEW c \in Classes
               PROVE  partial_cnt[c] >= Cardinality(Partial(c))
    BY DEF PartialCntCovers
  <2>1. PICK own, B : Sound(State, live, own, B)
    BY DEF IInv, SoundFor
  <2>2. State.m = m /\ State.cnt = partial_cnt
    BY DEF State
  <2>3. ListIs(Frames, m, c, B[c]) /\ 0 \notin B[c]
    BY <2>1, <2>2, SoundIsWeak DEF Weak
  <2>4. Partial(c) = B[c]
    BY <2>3, PartialPages
  <2>5. partial_cnt[c] >= Cardinality(B[c])
    BY <2>1, <2>2 DEF Sound, ListInv, CntCovers
  <2> QED  BY <2>4, <2>5
<1> QED  BY <1>1, Invariance, PTL
=============================================================================
