------------------------------- MODULE Lemmas -------------------------------
(***************************************************************************)
(* Facts that the proofs of several components cite: induction, remainders *)
(* and counters that wrap around, the line in front of a ticket lock,      *)
(* lists, and the page lists that share their links, one at a time and as  *)
(* the several lists of one memory.                                        *)
(***************************************************************************)
EXTENDS Integers, Sequences, FiniteSets, ListOps, PageList, FiniteSetTheorems,
        SequenceTheorems, WellFoundedInduction, TLAPS

\* A remainder by M is a number below M.
LEMMA ModType ==
    ASSUME NEW M \in Nat, M > 0, NEW a \in Nat
    PROVE  a % M \in 0 .. M - 1
OBVIOUS

\* The remainder of a number below three times M, the range of the sums that the
\* ring buffer and the ticket counters compute.
LEMMA ModCases ==
    ASSUME NEW M \in Nat, M > 0, NEW a \in 0 .. 3 * M - 1
    PROVE  a % M = IF a < M THEN a ELSE IF a < 2 * M THEN a - M ELSE a - 2 * M
OBVIOUS

\* A set of numbers that is not empty has a least one.
LEMMA LeastNat ==
    ASSUME NEW D, D \subseteq Nat, D # {}
    PROVE  \E d \in D : \A e \in D : d <= e
<1> DEFINE R == OpToRel(<, Nat)
<1>1. IsWellFoundedOn(R, Nat)
  BY NatLessThanWellFounded, Zenon
<1>2. \A x, y \in Nat : x < y => <<x, y>> \in R
  BY DEF OpToRel
<1> HIDE DEF R
<1>3. PICK d \in D : \A e \in D : ~(<<e, d>> \in R)
  BY <1>1, WFMin, Zenon
<1>4. ASSUME NEW e \in D PROVE d <= e
  <2>1. ~(e < d)
    BY <1>2, <1>3, Zenon
  <2> QED  BY <2>1
<1> QED  BY <1>4

\* Induction, stated for the set of the numbers that have the property.
LEMMA Induction ==
    ASSUME NEW A, 0 \in A, \A n \in Nat : n \in A => n + 1 \in A
    PROVE  \A n \in Nat : n \in A
<1> SUFFICES ASSUME NEW n \in Nat, n \notin A PROVE FALSE
  OBVIOUS
<1> DEFINE D == {k \in Nat : k \notin A}
<1>1. PICK d \in D : \A e \in D : d <= e
  <2>1. D \subseteq Nat /\ D # {}
    OBVIOUS
  <2> HIDE DEF D
  <2> QED  BY <2>1, LeastNat
<1>2. d \in Nat /\ d # 0 /\ d \notin A
  OBVIOUS
<1>3. d - 1 \in Nat /\ d - 1 \in A
  BY <1>1, <1>2
<1>4. (d - 1) + 1 = d
  BY <1>2
<1> QED  BY <1>2, <1>3, <1>4

-----------------------------------------------------------------------------
\* How many tickets are served between ticket s and ticket k when M counts wrap.
Ahead(M, k, s) == IF k >= s THEN k - s ELSE k - s + M

\* The customers S of a ticket lock whose counters are t (next) and s (served):
\* there are as many as open tickets, and each has a ticket of its own.
InOrder(M, S, my, t, s) ==
    /\ t \in 0 .. M - 1 /\ s \in 0 .. M - 1
    /\ Cardinality(S) = Ahead(M, t, s)
    /\ \A c \in S : my[c] \in 0 .. M - 1 /\ Ahead(M, my[c], s) < Ahead(M, t, s)
    /\ \A c, d \in S : my[c] = my[d] => c = d

\* raw_spin_take hands out a ticket nobody in line has, as long as there are more
\* tickets than customers.
LEMMA DrawInOrder ==
    ASSUME NEW M \in Nat, NEW S, IsFiniteSet(S), NEW my, NEW t, NEW s,
           InOrder(M, S, my, t, s), NEW c, c \notin S, Cardinality(S) + 1 < M,
           NEW new, new[c] = t, \A d \in S : new[d] = my[d]
    PROVE  InOrder(M, S \cup {c}, new, (t + 1) % M, s)
<1> DEFINE u == (t + 1) % M
<1>1. t \in 0 .. M - 1 /\ s \in 0 .. M - 1 /\ Cardinality(S) = Ahead(M, t, s)
  BY DEF InOrder
<1>2. u = IF t + 1 = M THEN 0 ELSE t + 1
  <2>1. t + 1 \in 0 .. 3 * M - 1 /\ M > 0
    BY <1>1
  <2> QED  BY <1>1, <2>1, ModCases
<1>3. u \in 0 .. M - 1 /\ Ahead(M, u, s) = Ahead(M, t, s) + 1
  BY <1>1, <1>2 DEF Ahead
<1>4. Cardinality(S \cup {c}) = Ahead(M, u, s)
  BY <1>1, <1>3, FS_AddElement
<1>5. \A d \in S : new[d] \in 0 .. M - 1 /\ Ahead(M, new[d], s) < Ahead(M, u, s)
  <2> SUFFICES ASSUME NEW d \in S
               PROVE  new[d] \in 0 .. M - 1 /\ Ahead(M, new[d], s) < Ahead(M, u, s)
    OBVIOUS
  <2>1. new[d] \in 0 .. M - 1 /\ Ahead(M, new[d], s) < Ahead(M, t, s)
    BY DEF InOrder
  <2> QED  BY <1>1, <1>3, <2>1 DEF Ahead
<1>6. Ahead(M, new[c], s) < Ahead(M, u, s)
  BY <1>1, <1>3 DEF Ahead
<1>7. \A d \in S : new[d] # new[c]
  BY DEF InOrder, Ahead
<1> HIDE DEF u
<1> QED  BY <1>1, <1>3, <1>4, <1>5, <1>6, <1>7 DEF InOrder, u

\* raw_spin_give serves the ticket after the one that leaves.
LEMMA ServeInOrder ==
    ASSUME NEW M \in Nat, NEW S, IsFiniteSet(S), NEW my, NEW t, NEW s,
           InOrder(M, S, my, t, s), NEW c \in S, my[c] = s,
           NEW new, \A d \in S \ {c} : new[d] = my[d]
    PROVE  InOrder(M, S \ {c}, new, t, (s + 1) % M)
<1> DEFINE u == (s + 1) % M
<1>1. t \in 0 .. M - 1 /\ s \in 0 .. M - 1 /\ Cardinality(S) = Ahead(M, t, s)
  BY DEF InOrder
<1>2. u = IF s + 1 = M THEN 0 ELSE s + 1
  <2>1. s + 1 \in 0 .. 3 * M - 1 /\ M > 0
    BY <1>1
  <2> QED  BY <1>1, <2>1, ModCases
<1>3. t # s
  BY <1>1 DEF InOrder, Ahead
<1>4. u \in 0 .. M - 1 /\ Ahead(M, t, u) = Ahead(M, t, s) - 1
  BY <1>1, <1>2, <1>3 DEF Ahead
<1>5. Cardinality(S \ {c}) = Ahead(M, t, u)
  BY <1>1, <1>4, FS_RemoveElement
<1>6. ASSUME NEW d \in S \ {c}
      PROVE  new[d] \in 0 .. M - 1 /\ Ahead(M, new[d], u) < Ahead(M, t, u)
  <2>1. /\ my[d] \in 0 .. M - 1 /\ my[d] # s
        /\ Ahead(M, my[d], s) < Ahead(M, t, s)
    BY DEF InOrder
  <2>2. Ahead(M, my[d], u) = Ahead(M, my[d], s) - 1
    BY <1>1, <1>2, <2>1 DEF Ahead
  <2>3. Ahead(M, my[d], s) \in Nat /\ Ahead(M, t, s) \in Nat
    BY <1>1, <2>1 DEF Ahead
  <2> QED  BY <1>4, <2>1, <2>2, <2>3
<1>7. \A d, e \in S \ {c} : new[d] = new[e] => d = e
  BY DEF InOrder
<1> HIDE DEF u
<1> QED  BY <1>1, <1>4, <1>5, <1>6, <1>7 DEF InOrder, u

\* Only one customer has the ticket that is served.
LEMMA ServedAlone ==
    ASSUME NEW M, NEW S, NEW my, NEW t, NEW s, InOrder(M, S, my, t, s),
           NEW c \in S, NEW d \in S, my[c] = s, my[d] = s
    PROVE  c = d
BY DEF InOrder

\* Only the tickets of those in line matter.
LEMMA SameInOrder ==
    ASSUME NEW M, NEW S, NEW my, NEW t, NEW s, InOrder(M, S, my, t, s),
           NEW new, \A c \in S : new[c] = my[c]
    PROVE  InOrder(M, S, new, t, s)
BY DEF InOrder

\* The customer that is served can leave its ticket to another.
LEMMA SwapInOrder ==
    ASSUME NEW M \in Nat, NEW S, IsFiniteSet(S), NEW my, NEW t, NEW s,
           InOrder(M, S, my, t, s), NEW c \in S, my[c] = s, NEW d, d \notin S,
           NEW new, new[d] = s, \A e \in S \ {c} : new[e] = my[e]
    PROVE  InOrder(M, (S \ {c}) \cup {d}, new, t, s)
<1>1. Cardinality((S \ {c}) \cup {d}) = Cardinality(S)
  <2>1. IsFiniteSet(S \ {c}) /\ Cardinality(S \ {c}) = Cardinality(S) - 1
    BY FS_RemoveElement
  <2>2. Cardinality((S \ {c}) \cup {d}) = Cardinality(S \ {c}) + 1
    BY <2>1, FS_AddElement
  <2> QED  BY <2>1, <2>2, FS_CardinalityType
<1>2. t \in 0 .. M - 1 /\ s \in 0 .. M - 1 /\ Cardinality(S) = Ahead(M, t, s)
  BY DEF InOrder
<1>3. \A e \in S \ {c} : new[e] = my[e] /\ new[e] # s
                         /\ new[e] \in 0 .. M - 1 /\ Ahead(M, new[e], s) < Ahead(M, t, s)
  BY DEF InOrder
<1>4. new[d] \in 0 .. M - 1 /\ Ahead(M, new[d], s) < Ahead(M, t, s)
  BY <1>2 DEF InOrder
<1>5. \A e, f \in (S \ {c}) \cup {d} : new[e] = new[f] => e = f
  BY <1>3 DEF InOrder
<1> QED  BY <1>1, <1>2, <1>3, <1>4, <1>5 DEF InOrder

\* When somebody is in line, somebody is served: there are no holes.
LEMMA SomebodyServed ==
    ASSUME NEW M \in Nat, NEW S, IsFiniteSet(S), S # {}, NEW my, NEW t, NEW s,
           InOrder(M, S, my, t, s)
    PROVE  \E c \in S : my[c] = s
<1> SUFFICES ASSUME \A c \in S : my[c] # s PROVE FALSE
  OBVIOUS
<1> DEFINE place == [c \in S |-> Ahead(M, my[c], s)]
<1>1. t \in 0 .. M - 1 /\ s \in 0 .. M - 1 /\ Cardinality(S) = Ahead(M, t, s)
      /\ Cardinality(S) \in Nat
  BY FS_CardinalityType DEF InOrder
<1>2. PICK k : k = Cardinality(S) - 1
  OBVIOUS
<1>3. ASSUME NEW c \in S PROVE Ahead(M, my[c], s) \in 1 .. k
  <2>1. my[c] \in 0 .. M - 1 /\ Ahead(M, my[c], s) < Ahead(M, t, s) /\ my[c] # s
    BY DEF InOrder
  <2> QED  BY <1>1, <1>2, <2>1 DEF Ahead
<1>4. place \in [S -> 1 .. k]
  BY <1>3
<1>5. k \in Nat /\ IsFiniteSet(1 .. k) /\ Cardinality(1 .. k) = k
  <2>1. Cardinality(S) # 0
    BY FS_EmptySet
  <2>2. k \in Nat
    BY <1>1, <1>2, <2>1
  <2> QED  BY <2>2, FS_Interval
<1>6. PICK c \in S, d \in S : c # d /\ place[c] = place[d]
  <2> HIDE DEF place
  <2>1. Cardinality(1 .. k) < Cardinality(S)
    BY <1>1, <1>2, <1>5
  <2> QED  BY <1>4, <1>5, <2>1, FS_PigeonHole
<1>7. my[c] = my[d]
  <2>1. my[c] \in 0 .. M - 1 /\ my[d] \in 0 .. M - 1
    BY DEF InOrder
  <2> QED  BY <1>1, <1>6, <2>1 DEF Ahead
<1> QED  BY <1>6, <1>7 DEF InOrder

-----------------------------------------------------------------------------
\* The elements of a concatenation.
LEMMA ConcatIs ==
    ASSUME NEW S, NEW a \in Seq(S), NEW b \in Seq(S)
    PROVE  /\ a \o b \in Seq(S) /\ Len(a \o b) = Len(a) + Len(b)
           /\ \A i \in 1 .. Len(a) : (a \o b)[i] = a[i]
           /\ \A i \in 1 .. Len(b) : (a \o b)[Len(a) + i] = b[i]
OBVIOUS

\* The elements of what is left when the first k are taken off.
LEMMA DropIs ==
    ASSUME NEW S, NEW s \in Seq(S), NEW k \in 0 .. Len(s)
    PROVE  /\ SubSeq(s, k + 1, Len(s)) \in Seq(S)
           /\ Len(SubSeq(s, k + 1, Len(s))) = Len(s) - k
           /\ \A i \in 1 .. Len(s) - k : SubSeq(s, k + 1, Len(s))[i] = s[k + i]
OBVIOUS

\* The elements of the first k.
LEMMA TakeIs ==
    ASSUME NEW S, NEW s \in Seq(S), NEW k \in 0 .. Len(s)
    PROVE  /\ SubSeq(s, 1, k) \in Seq(S) /\ Len(SubSeq(s, 1, k)) = k
           /\ \A i \in 1 .. k : SubSeq(s, 1, k)[i] = s[i]
OBVIOUS

-----------------------------------------------------------------------------
\* The members of a list are the elements at its places.
LEMMA RangeIs ==
    ASSUME NEW X, NEW s \in Seq(X), NEW n, n = Len(s)
    PROVE  /\ n \in Nat /\ Range(s) \subseteq X
           /\ \A i \in 1 .. n : s[i] \in Range(s)
           /\ \A x \in Range(s) : \E i \in 1 .. n : x = s[i]
BY DEF Range

\* An element put in front of a list it is not on.
LEMMA PushIs ==
    ASSUME NEW X, NEW s \in Seq(X), NEW x \in X
    PROVE  /\ <<x>> \o s \in Seq(X) /\ Range(<<x>> \o s) = {x} \cup Range(s)
           /\ NoRepeat(s) /\ x \notin Range(s) => NoRepeat(<<x>> \o s)
<1> DEFINE p == <<x>> \o s
<1>1. /\ p \in Seq(X) /\ Len(p) = Len(s) + 1 /\ p[1] = x
      /\ \A i \in 1 .. Len(s) : p[i + 1] = s[i]
  OBVIOUS
<1>2. \A i \in 2 .. Len(s) + 1 : p[i] = s[i - 1] /\ i - 1 \in 1 .. Len(s)
  OBVIOUS
<1> HIDE DEF p
<1>3. Range(p) = {x} \cup Range(s)
  <2>1. ASSUME NEW i \in 1 .. Len(s) + 1 PROVE p[i] \in {x} \cup Range(s)
    <3>1. i = 1 \/ i \in 2 .. Len(s) + 1
      OBVIOUS
    <3> QED  BY <1>1, <1>2, <3>1 DEF Range
  <2>2. ASSUME NEW i \in 1 .. Len(s) PROVE s[i] \in Range(p)
    BY <1>1 DEF Range
  <2>3. x \in Range(p)
    BY <1>1 DEF Range
  <2> QED  BY <1>1, <2>1, <2>2, <2>3, SMTT(30) DEF Range
<1>4. ASSUME NoRepeat(s), x \notin Range(s) PROVE NoRepeat(p)
  <2>1. \A i \in 1 .. Len(s) : s[i] # x
    BY <1>4 DEF Range
  <2>2. ASSUME NEW i \in 1 .. Len(p), NEW j \in 1 .. Len(p), p[i] = p[j] PROVE i = j
    <3>1. (i = 1 \/ i \in 2 .. Len(s) + 1) /\ (j = 1 \/ j \in 2 .. Len(s) + 1)
      BY <1>1
    <3>2. CASE i \in 2 .. Len(s) + 1 /\ j \in 2 .. Len(s) + 1
      <4>1. PICK a, b \in 1 .. Len(s) : a = i - 1 /\ b = j - 1
        BY <1>2, <3>2
      <4>2. s[a] = s[b]
        BY <1>2, <2>2, <3>2, <4>1
      <4>3. a = b
        BY <1>4, <4>2 DEF NoRepeat
      <4> QED  BY <4>1, <4>3
    <3> QED  BY <1>1, <1>2, <2>1, <2>2, <3>1, <3>2
  <2> QED  BY <2>2 DEF NoRepeat
<1> QED  BY <1>1, <1>3, <1>4 DEF p

\* An element put at the end of a list it is not on.
LEMMA AppendIs ==
    ASSUME NEW X, NEW s \in Seq(X), NEW x \in X
    PROVE  /\ Append(s, x) \in Seq(X) /\ Range(Append(s, x)) = Range(s) \cup {x}
           /\ NoRepeat(s) /\ x \notin Range(s) => NoRepeat(Append(s, x))
<1> DEFINE p == Append(s, x)
<1>1. PICK n \in Nat : n = Len(s)
  OBVIOUS
<1>2. /\ p \in Seq(X) /\ Len(p) = n + 1 /\ p[n + 1] = x
      /\ \A i \in 1 .. n : p[i] = s[i]
  BY <1>1
<1> HIDE DEF p
<1>3. /\ \A i \in 1 .. n : s[i] \in Range(s)
      /\ \A i \in 1 .. n + 1 : p[i] \in Range(p)
      /\ \A y \in Range(s) : \E i \in 1 .. n : y = s[i]
      /\ \A y \in Range(p) : \E i \in 1 .. n + 1 : y = p[i]
  BY <1>1, <1>2, RangeIs
<1>4. \A i \in 1 .. n + 1 : i = n + 1 \/ i \in 1 .. n
  OBVIOUS
<1>5. \A i \in 1 .. n : i \in 1 .. n + 1 /\ n + 1 \in 1 .. n + 1
  OBVIOUS
<1>6. n + 1 \in 1 .. n + 1
  OBVIOUS
<1>7. Range(p) = Range(s) \cup {x}
  BY <1>2, <1>3, <1>4, <1>5, <1>6
<1>8. NoRepeat(s) /\ x \notin Range(s) => NoRepeat(p)
  BY <1>1, <1>2, <1>3, <1>4 DEF NoRepeat
<1> QED  BY <1>2, <1>7, <1>8 DEF p

\* The head of a list goes to its tail.
LEMMA RotateIs ==
    ASSUME NEW X, NEW s \in Seq(X), s # <<>>
    PROVE  /\ Append(Tail(s), Head(s)) \in Seq(X) /\ Head(s) \in Range(s) /\ Head(s) \in X
           /\ Range(Append(Tail(s), Head(s))) = Range(s)
           /\ NoRepeat(s) => NoRepeat(Append(Tail(s), Head(s)))
<1> DEFINE p == Append(Tail(s), Head(s))
<1>1. /\ p \in Seq(X) /\ Len(p) = Len(s) /\ p[Len(s)] = s[1] /\ Len(s) \in Nat \ {0}
      /\ Head(s) = s[1] /\ s[1] \in X
      /\ \A i \in 1 .. Len(s) - 1 : p[i] = s[i + 1]
  OBVIOUS
<1>2. PICK n \in Nat : n = Len(s)
  OBVIOUS
<1> HIDE DEF p
<1>3. /\ \A i \in 1 .. n : s[i] \in Range(s) /\ p[i] \in Range(p)
      /\ \A x \in Range(s) : \E i \in 1 .. n : x = s[i]
      /\ \A x \in Range(p) : \E i \in 1 .. n : x = p[i]
  BY <1>1, <1>2, RangeIs
<1>4. ASSUME NEW i \in 1 .. n PROVE p[i] \in Range(s)
  <2>1. CASE i = n
    BY <1>1, <1>2, <1>3, <2>1
  <2>2. CASE i # n
    <3>1. i \in 1 .. Len(s) - 1 /\ i + 1 \in 1 .. n
      BY <1>2, <2>2
    <3>2. p[i] = s[i + 1]
      BY <1>1, <3>1
    <3> QED  BY <1>3, <3>1, <3>2
  <2> QED  BY <2>1, <2>2
<1>5. ASSUME NEW i \in 1 .. n PROVE s[i] \in Range(p)
  <2>1. CASE i = 1
    BY <1>1, <1>2, <1>3, <2>1
  <2>2. CASE i # 1
    <3>1. PICK j : j = i - 1
      OBVIOUS
    <3>2. j \in 1 .. n - 1 /\ i = j + 1 /\ j \in 1 .. n
      BY <1>2, <2>2, <3>1
    <3> QED  BY <1>1, <1>2, <1>3, <3>2
  <2> QED  BY <2>1, <2>2
<1>6. ASSUME NoRepeat(s), NEW i \in 1 .. n, NEW j \in 1 .. n, p[i] = p[j] PROVE i = j
  <2>1. PICK a \in 1 .. n : (IF i = n THEN a = 1 ELSE a = i + 1) /\ p[i] = s[a]
    BY <1>1, <1>2
  <2>2. PICK b \in 1 .. n : (IF j = n THEN b = 1 ELSE b = j + 1) /\ p[j] = s[b]
    BY <1>1, <1>2
  <2>3. a = b
    BY <1>2, <1>6, <2>1, <2>2 DEF NoRepeat
  <2> QED  BY <1>2, <2>1, <2>2, <2>3
<1>7. Range(p) = Range(s) /\ Head(s) \in Range(s)
  <2>1. \A x : x \in Range(p) <=> x \in Range(s)
    BY <1>3, <1>4, <1>5
  <2>2. 1 \in 1 .. n
    BY <1>1, <1>2
  <2>3. Range(p) = Range(s)
    BY <2>1
  <2> QED  BY <1>1, <1>3, <2>2, <2>3
<1>8. NoRepeat(s) => NoRepeat(p)
  BY <1>1, <1>2, <1>6 DEF NoRepeat
<1> QED  BY <1>1, <1>7, <1>8 DEF p

-----------------------------------------------------------------------------
\* The equation of the walk in Those, for a list of any length n.
Walk(f, s, S, n) ==
    [i \in 0 .. n |-> IF i = 0 THEN <<>>
                      ELSE IF s[i] \in S THEN Append(f[i - 1], s[i]) ELSE f[i - 1]]

\* It has a solution.
LEMMA WalkExists == ASSUME NEW s, NEW S PROVE \A n \in Nat : \E f : f = Walk(f, s, S, n)
<1> DEFINE A == {n \in Nat : \E f : f = Walk(f, s, S, n)}
<1>1. 0 \in A
  <2>1. [i \in 0 .. 0 |-> <<>>] = Walk([i \in 0 .. 0 |-> <<>>], s, S, 0)
    BY DEF Walk
  <2> QED  BY <2>1
<1>2. ASSUME NEW n \in Nat, n \in A PROVE n + 1 \in A
  <2>1. PICK f : f = Walk(f, s, S, n)
    BY <1>2
  <2> DEFINE Step(h, i) == IF i = 0 THEN <<>>
                           ELSE IF s[i] \in S THEN Append(h[i - 1], s[i]) ELSE h[i - 1]
             g == [i \in 0 .. n + 1 |-> IF i <= n THEN f[i] ELSE Step(f, i)]
  <2>2. \A i \in 0 .. n : f[i] = Step(f, i)
    BY <2>1 DEF Walk
  <2>3. ASSUME NEW i \in 0 .. n + 1 PROVE g[i] = Step(g, i)
    <3>1. i # 0 => g[i - 1] = f[i - 1]
      OBVIOUS
    <3> QED  BY <2>2, <3>1
  <2>4. g = Walk(g, s, S, n + 1)
    BY <2>3 DEF Walk
  <2> HIDE DEF g
  <2> QED  BY <2>4
<1>3. \A n \in Nat : n \in A
  <2> HIDE DEF A
  <2> QED  BY <1>1, <1>2, Induction
<1> QED  BY <1>3

\* The walk keeps the elements that are in S, each as often as it was there.
LEMMA ThoseIs ==
    ASSUME NEW X, NEW s \in Seq(X), NEW S
    PROVE  /\ Those(s, S) \in Seq(X) /\ Range(Those(s, S)) = Range(s) \cap S
           /\ NoRepeat(s) => NoRepeat(Those(s, S))
<1> DEFINE f == CHOOSE f : f = Walk(f, s, S, Len(s))
<1>1. f = Walk(f, s, S, Len(s))
  BY WalkExists
<1>2. Those(s, S) = f[Len(s)]
  BY Zenon DEF Those, Walk
<1> HIDE DEF f
<1>3. f[0] = <<>>
      /\ \A i \in 1 .. Len(s) : f[i] = IF s[i] \in S THEN Append(f[i - 1], s[i]) ELSE f[i - 1]
  <2>1. PICK n \in Nat : n = Len(s)
    OBVIOUS
  <2>2. PICK g : g = f
    OBVIOUS
  <2>3. g = Walk(g, s, S, n)
    BY <1>1, <2>1, <2>2
  <2>4. \A i \in 0 .. n : g[i] = IF i = 0 THEN <<>>
                      ELSE IF s[i] \in S THEN Append(g[i - 1], s[i]) ELSE g[i - 1]
    BY <2>3 DEF Walk
  <2> QED  BY <2>1, <2>2, <2>4
<1> DEFINE Good(n) ==
             /\ f[n] \in Seq(X)
             /\ \A x : x \in Range(f[n]) <=> x \in S /\ \E i \in 1 .. n : s[i] = x
             /\ NoRepeat(s) => NoRepeat(f[n])
           A == {n \in Nat : n <= Len(s) => Good(n)}
<1>4. 0 \in A
  <2>1. <<>> \in Seq(X) /\ Range(<<>>) = {} /\ NoRepeat(<<>>)
    BY DEF Range, NoRepeat
  <2>2. Good(0)
    BY <1>3, <2>1
  <2> QED  BY <2>2
<1>5. ASSUME NEW n \in Nat, n \in A PROVE n + 1 \in A
  <2> SUFFICES ASSUME n + 1 <= Len(s) PROVE Good(n + 1)
    OBVIOUS
  <2>1. Good(n)
    BY <1>5
  <2>2. PICK x \in X : x = s[n + 1]
    OBVIOUS
  <2>3. f[n + 1] = IF x \in S THEN Append(f[n], x) ELSE f[n]
    BY <1>3, <2>2
  <2>4. \A i \in 1 .. n + 1 : i = n + 1 \/ i \in 1 .. n
    OBVIOUS
  <2>5. CASE x \notin S
    BY <2>1, <2>2, <2>3, <2>4, <2>5
  <2>6. CASE x \in S
    <3>1. f[n + 1] = Append(f[n], x)
      BY <2>3, <2>6
    <3>2. f[n + 1] \in Seq(X) /\ Range(f[n + 1]) = Range(f[n]) \cup {x}
          /\ (NoRepeat(f[n]) /\ x \notin Range(f[n]) => NoRepeat(f[n + 1]))
      BY <2>1, <3>1, AppendIs
    <3>3. \A y : y \in Range(f[n + 1]) <=> y \in S /\ \E i \in 1 .. n + 1 : s[i] = y
      BY <2>1, <2>2, <2>4, <2>6, <3>2
    <3>4. ASSUME NoRepeat(s) PROVE x \notin Range(f[n])
      BY <2>1, <2>2, <3>4 DEF NoRepeat
    <3> QED  BY <2>1, <3>2, <3>3, <3>4
  <2> QED  BY <2>5, <2>6
<1>6. Len(s) \in A
  <2>1. \A n \in Nat : n \in A
    <3> HIDE DEF A
    <3> QED  BY <1>4, <1>5, Induction
  <2> QED  BY <2>1
<1>7. Good(Len(s))
  BY <1>6
<1> QED  BY <1>2, <1>7 DEF Range
-----------------------------------------------------------------------------
\* The pages of list q, from head h to tail t, are linked through nx and pv; the
\* last one may have a stale nx.
Chain(P, nx, pv, h, t, q) ==
    /\ q \in Seq(P) /\ NoRepeat(q)
    /\ Len(q) = 0 => h = NOPAGE /\ t = NOPAGE
    /\ Len(q) > 0 => h = q[1] /\ t = q[Len(q)] /\ pv[q[1]] = NOPAGE
    /\ \A i \in 1 .. Len(q) - 1 : pv[q[i + 1]] = q[i] /\ nx[q[i]] = q[i + 1]

\* The last page of a list has no next one.
CleanEnd(nx, t) == t # NOPAGE => nx[t] = NOPAGE

Pointers(P) == [P -> P \cup {NOPAGE}]

\* A list is not touched by stores to other pages.
LEMMA ChainKept ==
    ASSUME NEW P, NEW nx, NEW pv, NEW h, NEW t, NEW q, Chain(P, nx, pv, h, t, q),
           NEW nx2, NEW pv2, \A x \in Range(q) : nx2[x] = nx[x] /\ pv2[x] = pv[x]
    PROVE  Chain(P, nx2, pv2, h, t, q)
<1>1. PICK n \in Nat : n = Len(q)
  BY DEF Chain
<1>2. \A i \in 1 .. n : q[i] \in Range(q)
  BY <1>1, RangeIs DEF Chain
<1>3. \A i \in 1 .. n : nx2[q[i]] = nx[q[i]] /\ pv2[q[i]] = pv[q[i]]
  BY <1>2
<1> QED  BY <1>1, <1>3 DEF Chain

\* The last page is on the list.
LEMMA TailOn ==
    ASSUME NEW P, NEW nx, NEW pv, NEW h, NEW t, NEW q, Chain(P, nx, pv, h, t, q), t # NOPAGE
    PROVE  t \in Range(q)
<1>1. PICK n \in Nat : n = Len(q)
  BY DEF Chain
<1>2. n > 0 /\ t = q[n]
  BY <1>1 DEF Chain
<1> QED  BY <1>1, <1>2, RangeIs DEF Chain

\* pglist_push_head.
LEMMA PushChain ==
    ASSUME NEW P, NOPAGE \notin P, NEW nx \in Pointers(P), NEW pv \in Pointers(P), NEW h, NEW t,
           NEW q, Chain(P, nx, pv, h, t, q), NEW p \in P, p \notin Range(q),
           NEW nx2, nx2 = Store(nx, p, h),
           NEW pv2, pv2 = Store(Store(pv, p, NOPAGE), h, p),
           NEW t2, t2 = IF t = NOPAGE THEN p ELSE t
    PROVE  /\ \E r : Chain(P, nx2, pv2, p, t2, r) /\ Range(r) = Range(q) \cup {p}
           /\ nx2 \in Pointers(P) /\ pv2 \in Pointers(P) /\ t2 \in P
           /\ CleanEnd(nx, t) => CleanEnd(nx2, t2)
           /\ \A x \in P \ {p} : nx2[x] = nx[x] /\ (x \notin Range(q) => pv2[x] = pv[x])
<1>1. PICK n \in Nat : n = Len(q)
  BY DEF Chain
<1>2. \A i \in 1 .. n : q[i] \in Range(q) /\ q[i] \in P /\ q[i] # p
  BY <1>1, RangeIs DEF Chain
<1>3. (n = 0 => h = NOPAGE /\ t = NOPAGE) /\ (n > 0 => h = q[1] /\ t = q[n])
  BY <1>1 DEF Chain
<1>4. h \in P \cup {NOPAGE} /\ t \in P \cup {NOPAGE} /\ h # p /\ t # p
  BY <1>1, <1>2, <1>3
<1>5. /\ nx2 \in Pointers(P) /\ nx2[p] = h
      /\ \A x \in P \ {p} : nx2[x] = nx[x]
  BY <1>4 DEF Store, Pointers
<1>6. /\ pv2 \in Pointers(P) /\ pv2[p] = NOPAGE /\ (h # NOPAGE => pv2[h] = p)
      /\ \A x \in P \ {p, h} : pv2[x] = pv[x]
  BY <1>4 DEF Store, Pointers
<1>7. PICK r : r = <<p>> \o q
  OBVIOUS
<1>8. /\ r \in Seq(P) /\ Range(r) = {p} \cup Range(q) /\ NoRepeat(r)
  BY <1>7, PushIs DEF Chain
<1>9. Len(r) = n + 1 /\ r[1] = p /\ \A i \in 1 .. n : r[i + 1] = q[i]
  BY <1>1, <1>7 DEF Chain
<1>10. t2 = r[n + 1] /\ t2 \in P
  BY <1>2, <1>3, <1>4, <1>9
<1>11. ASSUME NEW i \in 1 .. n PROVE pv2[r[i + 1]] = r[i] /\ nx2[r[i]] = r[i + 1]
  <2>1. CASE i = 1
    BY <1>2, <1>3, <1>4, <1>5, <1>6, <1>9, <2>1
  <2>2. CASE i # 1
    <3>1. PICK j \in 1 .. n - 1 : i = j + 1
      <4>1. PICK j : j = i - 1
        OBVIOUS
      <4>2. j \in 1 .. n - 1 /\ i = j + 1
        BY <2>2, <4>1
      <4> QED  BY <4>2
    <3>2. pv[q[j + 1]] = q[j] /\ nx[q[j]] = q[j + 1] /\ j \in 1 .. n /\ j + 1 \in 1 .. n
      BY <1>1, <3>1 DEF Chain
    <3>3. r[i] = q[j] /\ r[i + 1] = q[j + 1]
      BY <1>9, <3>1, <3>2
    <3>4. q[j + 1] # h
      <4>1. 1 \in 1 .. n /\ j + 1 # 1 /\ h = q[1]
        BY <1>3, <3>2
      <4> QED  BY <1>1, <3>2, <4>1 DEF Chain, NoRepeat
    <3> QED  BY <1>2, <1>5, <1>6, <3>2, <3>3, <3>4
  <2> QED  BY <2>1, <2>2
<1>12. Chain(P, nx2, pv2, p, t2, r)
  BY <1>6, <1>8, <1>9, <1>10, <1>11 DEF Chain
<1>13. CleanEnd(nx, t) => CleanEnd(nx2, t2)
  <2>1. CASE t = NOPAGE
    <3>1. n = 0
      BY <1>2, <1>3, <2>1
    <3> QED  BY <1>3, <1>5, <2>1, <3>1 DEF CleanEnd
  <2>2. CASE t # NOPAGE
    BY <1>4, <1>5, <2>2 DEF CleanEnd
  <2> QED  BY <2>1, <2>2
<1>14. \A x \in P \ {p} : x \notin Range(q) => pv2[x] = pv[x]
  <2>1. h # NOPAGE => h \in Range(q)
    BY <1>2, <1>3
  <2> QED  BY <1>6, <2>1
<1> QED  BY <1>5, <1>6, <1>8, <1>10, <1>12, <1>13, <1>14

\* pglist_pop_tail: the page before the last one becomes the last one, stale nx or not.
LEMMA PopChain ==
    ASSUME NEW P, NOPAGE \notin P, NEW nx \in Pointers(P), NEW pv \in Pointers(P), NEW h, NEW t,
           NEW q, Chain(P, nx, pv, h, t, q), t # NOPAGE,
           NEW nx2, nx2 = Store(nx, t, NOPAGE), NEW pv2, pv2 = Store(pv, t, NOPAGE),
           NEW h2, h2 = IF pv[t] = NOPAGE THEN NOPAGE ELSE h
    PROVE  /\ \E r : Chain(P, nx2, pv2, h2, pv[t], r) /\ Range(r) = Range(q) \ {t}
           /\ nx2 \in Pointers(P) /\ pv2 \in Pointers(P) /\ t \in P /\ t \in Range(q)
           /\ h2 \in P \cup {NOPAGE} /\ pv[t] \in P \cup {NOPAGE}
           /\ \A x \in P \ {t} : nx2[x] = nx[x] /\ pv2[x] = pv[x]
<1>1. PICK n \in Nat : n = Len(q)
  BY DEF Chain
<1>2. \A i \in 1 .. n : q[i] \in Range(q) /\ q[i] \in P
  BY <1>1, RangeIs DEF Chain
<1>3. n > 0 /\ h = q[1] /\ t = q[n] /\ pv[q[1]] = NOPAGE
  BY <1>1 DEF Chain
<1>4. /\ \A i \in 1 .. n - 1 : pv[q[i + 1]] = q[i] /\ nx[q[i]] = q[i + 1]
      /\ \A i, j \in 1 .. n : q[i] = q[j] => i = j
  BY <1>1 DEF Chain, NoRepeat
<1>5. t \in P /\ t \in Range(q) /\ h \in P
  BY <1>2, <1>3
<1>6. /\ nx2 \in Pointers(P) /\ pv2 \in Pointers(P) /\ pv[t] \in P \cup {NOPAGE}
      /\ \A x \in P \ {t} : nx2[x] = nx[x] /\ pv2[x] = pv[x]
  BY <1>5 DEF Store, Pointers
<1>7. PICK r : r = [i \in 1 .. n - 1 |-> q[i]]
  OBVIOUS
<1>8. r \in Seq(P) /\ Len(r) = n - 1 /\ \A i \in 1 .. n - 1 : r[i] = q[i] /\ r[i] \in P
  BY <1>2, <1>3, <1>7
<1>9. NoRepeat(r)
  BY <1>4, <1>8 DEF NoRepeat
<1>10. \A i \in 1 .. n - 1 : q[i] # t /\ nx2[q[i]] = nx[q[i]] /\ pv2[q[i]] = pv[q[i]]
  BY <1>2, <1>3, <1>4, <1>6
<1>11. Range(r) = Range(q) \ {t}
  <2>1. PICK k \in Nat : k = n - 1
    BY <1>3
  <2>2. /\ \A i \in 1 .. k : r[i] \in Range(r)
        /\ \A x \in Range(r) : \E i \in 1 .. k : x = r[i]
    BY <1>8, <2>1, RangeIs
  <2>3. \A x \in Range(q) : \E i \in 1 .. n : x = q[i]
    BY <1>1, RangeIs DEF Chain
  <2>4. \A i \in 1 .. n : i = n \/ i \in 1 .. k
    BY <2>1
  <2>5. \A x : x \in Range(r) <=> x \in Range(q) \ {t}
    BY <1>2, <1>3, <1>8, <1>10, <2>1, <2>2, <2>3, <2>4
  <2> QED  BY <2>5
<1>12. CASE n = 1
  <2>1. pv[t] = NOPAGE /\ h2 = NOPAGE
    BY <1>3, <1>12
  <2>2. Chain(P, nx2, pv2, h2, pv[t], r)
    BY <1>8, <1>9, <1>12, <2>1 DEF Chain
  <2> QED  BY <1>5, <1>6, <1>11, <2>1, <2>2
<1>13. CASE n # 1
  <2>1. n - 1 \in 1 .. n - 1 /\ 1 \in 1 .. n - 1 /\ (n - 1) + 1 = n
    BY <1>3, <1>13
  <2>2. pv[t] = q[n - 1] /\ q[n - 1] \in P /\ h2 = h
    BY <1>2, <1>3, <1>4, <2>1
  <2>3. h2 = r[1] /\ pv[t] = r[n - 1] /\ pv2[r[1]] = NOPAGE
    BY <1>3, <1>8, <1>10, <2>1, <2>2
  <2>4. ASSUME NEW i \in 1 .. (n - 1) - 1 PROVE pv2[r[i + 1]] = r[i] /\ nx2[r[i]] = r[i + 1]
    <3>1. i \in 1 .. n - 1 /\ i + 1 \in 1 .. n - 1
      BY <1>3
    <3>2. pv[q[i + 1]] = q[i] /\ nx[q[i]] = q[i + 1]
      BY <1>4, <3>1
    <3>3. r[i + 1] = q[i + 1] /\ r[i] = q[i]
      BY <1>8, <3>1
    <3>4. nx2[q[i]] = nx[q[i]] /\ pv2[q[i + 1]] = pv[q[i + 1]]
      BY <1>10, <3>1
    <3> QED  BY <3>2, <3>3, <3>4
  <2>5. Chain(P, nx2, pv2, h2, pv[t], r)
    BY <1>8, <1>9, <2>1, <2>3, <2>4 DEF Chain
  <2> QED  BY <1>5, <1>6, <1>11, <2>2, <2>5
<1> QED  BY <1>12, <1>13

\* pglist_remove, of any page on a list whose last page has no next one.
LEMMA RemoveChain ==
    ASSUME NEW P, NOPAGE \notin P, NEW nx \in Pointers(P), NEW pv \in Pointers(P), NEW h, NEW t,
           NEW q, Chain(P, nx, pv, h, t, q), CleanEnd(nx, t), NEW p \in Range(q),
           NEW a, a = nx[p], NEW b, b = pv[p],
           NEW nx2, nx2 = Store(Store(nx, b, a), p, NOPAGE),
           NEW pv2, pv2 = Store(Store(pv, a, b), p, NOPAGE),
           NEW h2, h2 = IF b = NOPAGE THEN a ELSE h,
           NEW t2, t2 = IF a = NOPAGE THEN b ELSE t
    PROVE  /\ \E r : Chain(P, nx2, pv2, h2, t2, r) /\ Range(r) = Range(q) \ {p}
           /\ nx2 \in Pointers(P) /\ pv2 \in Pointers(P)
           /\ h2 \in P \cup {NOPAGE} /\ t2 \in P \cup {NOPAGE} /\ CleanEnd(nx2, t2)
           /\ \A x \in P \ Range(q) : nx2[x] = nx[x] /\ pv2[x] = pv[x]
<1>1. PICK n \in Nat : n = Len(q)
  BY DEF Chain
<1>2. /\ \A i \in 1 .. n : q[i] \in Range(q) /\ q[i] \in P
      /\ \A x \in Range(q) : \E i \in 1 .. n : x = q[i]
  BY <1>1, RangeIs DEF Chain
<1>3. PICK k \in 1 .. n : p = q[k]
  BY <1>2
<1>4. n > 0 /\ h = q[1] /\ t = q[n] /\ pv[q[1]] = NOPAGE /\ nx[q[n]] = NOPAGE
  <2>1. n > 0 /\ h = q[1] /\ t = q[n] /\ pv[q[1]] = NOPAGE
    BY <1>1, <1>3 DEF Chain
  <2>2. t # NOPAGE
    BY <1>2, <2>1
  <2> QED  BY <2>1, <2>2 DEF CleanEnd
<1>5. /\ \A i \in 1 .. n - 1 : pv[q[i + 1]] = q[i] /\ nx[q[i]] = q[i + 1]
      /\ \A i, j \in 1 .. n : q[i] = q[j] => i = j
  BY <1>1 DEF Chain, NoRepeat
<1>6. p \in P /\ a \in P \cup {NOPAGE} /\ b \in P \cup {NOPAGE} /\ h \in P /\ t \in P
  BY <1>2, <1>3, <1>4 DEF Pointers
<1>7. /\ nx2 \in Pointers(P) /\ pv2 \in Pointers(P)
      /\ \A x \in P : /\ nx2[x] = IF x = p THEN NOPAGE ELSE IF x = b THEN a ELSE nx[x]
                      /\ pv2[x] = IF x = p THEN NOPAGE ELSE IF x = a THEN b ELSE pv[x]
  BY <1>6 DEF Store, Pointers
<1>8. IF k = 1 THEN b = NOPAGE ELSE k - 1 \in 1 .. n /\ b = q[k - 1]
  <2>1. CASE k = 1
    BY <1>3, <1>4, <2>1
  <2>2. CASE k # 1
    <3>1. k - 1 \in 1 .. n - 1 /\ (k - 1) + 1 = k /\ k - 1 \in 1 .. n
      BY <2>2
    <3> QED  BY <1>3, <1>5, <2>2, <3>1
  <2> QED  BY <2>1, <2>2
<1>9. IF k = n THEN a = NOPAGE ELSE k + 1 \in 1 .. n /\ a = q[k + 1]
  BY <1>3, <1>4, <1>5
<1>10. a # p /\ b # p /\ (a # NOPAGE => a \in Range(q)) /\ (b # NOPAGE => b \in Range(q))
  BY <1>2, <1>3, <1>5, <1>6, <1>8, <1>9
<1>11. \A i \in 1 .. n : (q[i] = b <=> i = k - 1) /\ (q[i] = a <=> i = k + 1) /\ (q[i] = p <=> i = k)
  <2>1. \A i \in 1 .. n : q[i] = p <=> i = k
    BY <1>3, <1>5
  <2>2. \A i \in 1 .. n : q[i] = b <=> i = k - 1
    BY <1>2, <1>5, <1>8
  <2>3. \A i \in 1 .. n : q[i] = a <=> i = k + 1
    BY <1>2, <1>5, <1>9
  <2> QED  BY <2>1, <2>2, <2>3
<1>12. PICK N \in Nat : N = n - 1
  BY <1>4
<1>13. PICK at : at = [i \in 1 .. N |-> IF i < k THEN i ELSE i + 1]
  OBVIOUS
<1>14. /\ \A i \in 1 .. N : at[i] = (IF i < k THEN i ELSE i + 1) /\ at[i] \in 1 .. n
       /\ \A i, j \in 1 .. N : at[i] = at[j] => i = j
  BY <1>12, <1>13
<1>15. PICK r : r = [i \in 1 .. N |-> q[at[i]]]
  OBVIOUS
<1>16. r \in Seq(P) /\ Len(r) = N /\ \A i \in 1 .. N : r[i] = q[at[i]]
  BY <1>2, <1>14, <1>15
<1>17. NoRepeat(r)
  <2>1. ASSUME NEW i \in 1 .. N, NEW j \in 1 .. N, r[i] = r[j] PROVE i = j
    <3>1. at[i] \in 1 .. n /\ at[j] \in 1 .. n /\ q[at[i]] = q[at[j]]
      BY <1>14, <1>16, <2>1
    <3>2. at[i] = at[j]
      BY <1>5, <3>1
    <3> QED  BY <1>14, <3>2
  <2> QED  BY <1>16, <2>1 DEF NoRepeat
<1>18. Range(r) = Range(q) \ {p}
  <2>1. /\ \A i \in 1 .. N : r[i] \in Range(r)
        /\ \A x \in Range(r) : \E i \in 1 .. N : x = r[i]
    BY <1>16, RangeIs
  <2>2. \A i \in 1 .. N : at[i] # k
    BY <1>14
  <2>3. ASSUME NEW i \in 1 .. n, i # k PROVE \E j \in 1 .. N : at[j] = i
    <3>1. CASE i < k
      <4>1. i \in 1 .. N
        BY <1>12, <3>1
      <4> QED  BY <1>14, <3>1, <4>1
    <3>2. CASE i > k
      <4>1. PICK j : j = i - 1
        OBVIOUS
      <4>2. j \in 1 .. N /\ ~(j < k) /\ j + 1 = i
        BY <1>12, <3>2, <4>1
      <4> QED  BY <1>14, <4>2
    <3> QED  BY <2>3, <3>1, <3>2
  <2>4. ASSUME NEW x \in Range(r) PROVE x \in Range(q) /\ x # p
    BY <1>2, <1>11, <1>14, <1>16, <2>1, <2>2
  <2>5. ASSUME NEW x \in Range(q), x # p PROVE x \in Range(r)
    <3>1. PICK i \in 1 .. n : x = q[i] /\ i # k
      BY <1>2, <1>3, <2>5
    <3>2. PICK j \in 1 .. N : at[j] = i
      BY <2>3, <3>1
    <3> QED  BY <1>16, <2>1, <3>1, <3>2
  <2>6. \A x : x \in Range(r) <=> x \in Range(q) \ {p}
    BY <2>4, <2>5
  <2> QED  BY <2>6
<1>19. ASSUME NEW i \in 1 .. N - 1 PROVE pv2[r[i + 1]] = r[i] /\ nx2[r[i]] = r[i + 1]
  <2>1. PICK c, d \in 1 .. n : c = at[i] /\ d = at[i + 1]
    BY <1>12, <1>14
  <2>2. /\ c = (IF i < k THEN i ELSE i + 1) /\ d = (IF i + 1 < k THEN i + 1 ELSE i + 2)
        /\ r[i] = q[c] /\ r[i + 1] = q[d] /\ q[c] \in P /\ q[d] \in P
    BY <1>2, <1>12, <1>14, <1>16, <2>1
  <2>3. CASE i + 1 = k
    <3>1. c = k - 1 /\ d = k + 1
      BY <2>2, <2>3
    <3>2. q[c] = b /\ q[d] = a /\ q[c] # p /\ q[d] # p
      BY <1>10, <1>11, <3>1
    <3> QED  BY <1>7, <2>2, <3>2
  <2>4. CASE i + 1 # k
    <3>1. d = c + 1 /\ c # k - 1 /\ c # k /\ d # k /\ d # k + 1 /\ c \in 1 .. n - 1
      BY <2>2, <2>4
    <3>2. pv[q[d]] = q[c] /\ nx[q[c]] = q[d]
      BY <1>5, <3>1
    <3>3. q[c] # p /\ q[c] # b /\ q[d] # p /\ q[d] # a
      BY <1>11, <3>1
    <3> QED  BY <1>7, <2>2, <3>2, <3>3
  <2> QED  BY <2>3, <2>4
<1>20. N = 0 => h2 = NOPAGE /\ t2 = NOPAGE
  BY <1>8, <1>9, <1>12
<1>21. ASSUME N > 0 PROVE h2 = r[1] /\ t2 = r[N] /\ pv2[r[1]] = NOPAGE /\ nx2[r[N]] = NOPAGE
  <2>1. 1 \in 1 .. N /\ N \in 1 .. N
    BY <1>21
  <2>2. PICK c, d \in 1 .. n : c = at[1] /\ d = at[N]
    BY <1>14, <2>1
  <2>3. /\ c = (IF k = 1 THEN 2 ELSE 1) /\ d = (IF k = n THEN n - 1 ELSE n)
        /\ r[1] = q[c] /\ r[N] = q[d] /\ q[c] \in P /\ q[d] \in P
    BY <1>2, <1>12, <1>14, <1>16, <2>1, <2>2
  <2>4. h2 = q[c] /\ pv2[q[c]] = NOPAGE
    <3>1. CASE k = 1
      <4>1. q[c] = a /\ q[c] # p /\ b = NOPAGE
        BY <1>8, <1>10, <1>11, <2>3, <3>1
      <4> QED  BY <1>7, <2>3, <4>1
    <3>2. CASE k # 1
      <4>1. q[c] # a /\ q[c] # p /\ pv[q[c]] = NOPAGE /\ b # NOPAGE /\ h = q[c]
        BY <1>2, <1>4, <1>8, <1>11, <2>3, <3>2
      <4> QED  BY <1>7, <2>3, <4>1
    <3> QED  BY <3>1, <3>2
  <2>5. t2 = q[d] /\ nx2[q[d]] = NOPAGE
    <3>1. CASE k = n
      <4>1. q[d] = b /\ q[d] # p /\ a = NOPAGE
        BY <1>9, <1>10, <1>11, <2>3, <3>1
      <4> QED  BY <1>7, <2>3, <4>1
    <3>2. CASE k # n
      <4>1. q[d] # b /\ q[d] # p /\ nx[q[d]] = NOPAGE /\ a # NOPAGE /\ t = q[d]
        BY <1>2, <1>4, <1>9, <1>11, <2>3, <3>2
      <4> QED  BY <1>7, <2>3, <4>1
    <3> QED  BY <3>1, <3>2
  <2> QED  BY <2>3, <2>4, <2>5
<1>22. Chain(P, nx2, pv2, h2, t2, r)
  BY <1>16, <1>17, <1>19, <1>20, <1>21 DEF Chain
<1>23. CleanEnd(nx2, t2)
  BY <1>20, <1>21 DEF CleanEnd
<1>24. \A x \in P \ Range(q) : nx2[x] = nx[x] /\ pv2[x] = pv[x]
  BY <1>6, <1>7, <1>10
<1> QED  BY <1>6, <1>7, <1>18, <1>22, <1>23, <1>24

\* A list without repetitions is not longer than there are elements.
LEMMA NoRepeatLen ==
    ASSUME NEW P, IsFiniteSet(P), NEW q \in Seq(P), NoRepeat(q)
    PROVE  Len(q) <= Cardinality(P)
<1>1. PICK n \in Nat : n = Len(q)
  OBVIOUS
<1>2. q \in [1 .. n -> P] /\ \A i, j \in 1 .. n : q[i] = q[j] => i = j
  BY <1>1 DEF NoRepeat
<1>3. IsFiniteSet(1 .. n) /\ Cardinality(1 .. n) = n
  BY FS_Interval
<1>4. Cardinality(P) \in Nat
  BY FS_CardinalityType
<1>5. ~(Cardinality(P) < n)
  <2> SUFFICES ASSUME Cardinality(P) < Cardinality(1 .. n) PROVE FALSE
    BY <1>3
  <2>1. PICK S : S = 1 .. n
    OBVIOUS
  <2>2. \E x, y \in S : x # y /\ q[x] = q[y]
    BY <1>2, <1>3, <2>1, FS_PigeonHole
  <2> QED  BY <1>2, <2>1, <2>2
<1> QED  BY <1>1, <1>4, <1>5

\* The equation of the walk in FromTail.
BackWalk(f, m, l, bound) ==
    [n \in 0 .. bound |-> IF n = 0 THEN m.tail[l]
                          ELSE IF f[n - 1] = NOPAGE THEN NOPAGE ELSE m.prev[f[n - 1]]]

\* The walk from the tail meets the pages of the list, last one first, and ends.
LEMMA WalkIs ==
    ASSUME NEW P, NOPAGE \notin P, NEW m, NEW l, NEW q,
           Chain(P, m.next, m.prev, m.head[l], m.tail[l], q),
           NEW bound \in Nat, Len(q) <= bound
    PROVE  WellLinked(m, l, bound) /\ PagesOf(m, l, bound) = Range(q)
<1>1. PICK k \in Nat : k = Len(q) /\ k <= bound
  BY DEF Chain
<1>2. /\ \A i \in 1 .. k : q[i] \in Range(q) /\ q[i] \in P
      /\ \A x \in Range(q) : \E i \in 1 .. k : x = q[i]
  BY <1>1, RangeIs DEF Chain
<1>3. /\ k = 0 => m.head[l] = NOPAGE /\ m.tail[l] = NOPAGE
      /\ k > 0 => m.head[l] = q[1] /\ m.tail[l] = q[k] /\ m.prev[q[1]] = NOPAGE
      /\ \A i \in 1 .. k - 1 : m.prev[q[i + 1]] = q[i] /\ m.next[q[i]] = q[i + 1]
  BY <1>1 DEF Chain
<1> DEFINE At(n) == IF n < k THEN q[k - n] ELSE NOPAGE
<1>4. ASSUME NEW n \in Nat
      PROVE  At(n + 1) = IF At(n) = NOPAGE THEN NOPAGE ELSE m.prev[At(n)]
  <2>1. CASE n >= k
    BY <2>1
  <2>2. CASE n < k
    <3>1. k - n \in 1 .. k /\ At(n) = q[k - n] /\ At(n) # NOPAGE
      BY <1>2, <2>2
    <3>2. CASE n + 1 = k
      <4>1. k - n = 1 /\ k > 0
        BY <3>2
      <4> QED  BY <1>3, <3>1, <3>2, <4>1
    <3>3. CASE n + 1 # k
      <4>1. PICK i \in 1 .. k - 1 : i = k - (n + 1) /\ i + 1 = k - n
        BY <2>2, <3>3
      <4>2. At(n + 1) = q[i]
        BY <2>2, <3>3, <4>1
      <4> QED  BY <1>3, <3>1, <4>1, <4>2
    <3> QED  BY <3>2, <3>3
  <2> QED  BY <2>1, <2>2
<1>5. At(0) = m.tail[l]
  BY <1>3
<1> DEFINE g == [n \in 0 .. bound |-> At(n)]
<1>6. g = BackWalk(g, m, l, bound)
  <2>1. ASSUME NEW n \in 0 .. bound
        PROVE  g[n] = IF n = 0 THEN m.tail[l]
                      ELSE IF g[n - 1] = NOPAGE THEN NOPAGE ELSE m.prev[g[n - 1]]
    <3> HIDE DEF At
    <3>1. CASE n = 0
      BY <1>5, <3>1
    <3>2. CASE n # 0
      <4>1. PICK i \in 0 .. bound : i = n - 1 /\ i \in Nat /\ i + 1 = n
        BY <3>2
      <4>2. g[i] = At(i) /\ g[n] = At(i + 1)
        BY <4>1
      <4> QED  BY <1>4, <3>2, <4>1, <4>2
    <3> QED  BY <3>1, <3>2
  <2>2. PICK G : G = g
    OBVIOUS
  <2>3. \A n \in 0 .. bound : G[n] = IF n = 0 THEN m.tail[l]
                      ELSE IF G[n - 1] = NOPAGE THEN NOPAGE ELSE m.prev[G[n - 1]]
    BY <2>1, <2>2
  <2>4. G = [n \in 0 .. bound |-> G[n]]
    BY <2>2
  <2>5. G = BackWalk(G, m, l, bound)
    <3> HIDE DEF g, At
    <3> QED  BY <2>3, <2>4 DEF BackWalk
  <2> QED  BY <2>2, <2>5
<1> HIDE DEF g
<1> DEFINE w == CHOOSE f : f = BackWalk(f, m, l, bound)
<1>7. w = BackWalk(w, m, l, bound)
  BY <1>6
<1>8. FromTail(m, l, bound) = w
  BY Zenon DEF FromTail, BackWalk
<1> HIDE DEF w
<1>9. PICK v : v = w
  OBVIOUS
<1>10. \A n \in 0 .. bound : v[n] = IF n = 0 THEN m.tail[l]
                      ELSE IF v[n - 1] = NOPAGE THEN NOPAGE ELSE m.prev[v[n - 1]]
  <2>1. v = BackWalk(v, m, l, bound)
    BY <1>7, <1>9
  <2> HIDE DEF At
  <2> QED  BY <2>1 DEF BackWalk
<1>11. \A n \in Nat : n \in {i \in Nat : i <= bound => v[i] = At(i)}
  <2> HIDE DEF At
  <2> DEFINE A == {i \in Nat : i <= bound => v[i] = At(i)}
  <2>1. 0 \in A
    BY <1>5, <1>10
  <2>2. ASSUME NEW n \in Nat, n \in A PROVE n + 1 \in A
    <3> SUFFICES ASSUME n + 1 <= bound PROVE v[n + 1] = At(n + 1)
      OBVIOUS
    <3>1. v[n] = At(n)
      BY <2>2
    <3>2. n + 1 \in 0 .. bound /\ n + 1 # 0 /\ (n + 1) - 1 = n
      OBVIOUS
    <3>3. v[n + 1] = IF v[n] = NOPAGE THEN NOPAGE ELSE m.prev[v[n]]
      BY <1>10, <3>2
    <3> QED  BY <1>4, <3>1, <3>3
  <2> HIDE DEF A
  <2>3. \A n \in Nat : n \in A
    BY <2>1, <2>2, Induction
  <2> QED  BY <2>3 DEF A
<1>12. \A n \in 0 .. bound : v[n] = At(n)
  BY <1>11
<1>13. \A n \in 0 .. bound : v[n] = IF n < k THEN q[k - n] ELSE NOPAGE
  BY <1>12
<1> HIDE DEF At
<1>14. WellLinked(m, l, bound)
  <2>1. v[bound] = NOPAGE
    BY <1>1, <1>13
  <2>2. m.head[l] = NOPAGE <=> m.tail[l] = NOPAGE
    BY <1>2, <1>3
  <2>3. ASSUME NEW n \in 1 .. bound, v[n - 1] # NOPAGE
        PROVE  IF v[n] = NOPAGE THEN m.head[l] = v[n - 1] ELSE m.next[v[n]] = v[n - 1]
    <3>1. n - 1 \in 0 .. bound /\ n \in 0 .. bound
      OBVIOUS
    <3>2. n - 1 < k /\ v[n - 1] = q[k - (n - 1)]
      BY <1>13, <2>3, <3>1
    <3>3. CASE n = k
      <4>1. k - (n - 1) = 1 /\ k > 0 /\ v[n] = NOPAGE
        BY <1>13, <3>1, <3>3
      <4> QED  BY <1>3, <3>2, <4>1
    <3>4. CASE n # k
      <4>1. PICK i \in 1 .. k - 1 : i = k - n /\ i + 1 = k - (n - 1) /\ i \in 1 .. k
        BY <3>2, <3>4
      <4>2. v[n] = q[i] /\ v[n] # NOPAGE /\ v[n - 1] = q[i + 1]
        BY <1>2, <1>13, <3>1, <3>2, <3>4, <4>1
      <4> QED  BY <1>3, <4>1, <4>2
    <3> QED  BY <3>3, <3>4
  <2> QED  BY <1>8, <1>9, <2>1, <2>2, <2>3, Zenon DEF WellLinked
<1>15. PagesOf(m, l, bound) = Range(q)
  <2>1. PagesOf(m, l, bound) = {v[n] : n \in 0 .. bound} \ {NOPAGE}
    BY <1>8, <1>9, Zenon DEF PagesOf
  <2>2. ASSUME NEW n \in 0 .. bound, v[n] # NOPAGE PROVE v[n] \in Range(q)
    <3>1. k - n \in 1 .. k /\ v[n] = q[k - n]
      BY <1>13, <2>2
    <3> QED  BY <1>2, <3>1
  <2>3. ASSUME NEW x \in Range(q) PROVE x # NOPAGE /\ \E n \in 0 .. bound : v[n] = x
    <3>1. PICK i \in 1 .. k : x = q[i]
      BY <1>2
    <3>2. PICK n \in 0 .. bound : n = k - i /\ n < k /\ k - n = i
      BY <1>1
    <3> QED  BY <1>2, <1>13, <3>1, <3>2
  <2>4. \A x : x \in {v[n] : n \in 0 .. bound} \ {NOPAGE} <=> x \in Range(q)
    BY <2>2, <2>3
  <2>5. {v[n] : n \in 0 .. bound} \ {NOPAGE} = Range(q)
    BY <2>4
  <2> QED  BY <2>1, <2>5
<1> QED  BY <1>14, <1>15
-----------------------------------------------------------------------------
\* A memory with several page lists: P its pages, LS its lists, ST the states of a page.

MemType(P, LS, ST) ==
    [state : [P -> ST], next : Pointers(P), prev : Pointers(P),
     head : [LS -> P \cup {NOPAGE}], tail : [LS -> P \cup {NOPAGE}],
     free_cnt : Int, occupied_cnt : Int]

\* The links of mm make a list l of the pages C; they make disjoint lists, which
\* hold the pages B says.
ListIs(P, mm, l, C) ==
    \E q : Chain(P, mm.next, mm.prev, mm.head[l], mm.tail[l], q) /\ Range(q) = C

ListsAre(P, LS, mm, B) ==
    /\ \A l \in LS : ListIs(P, mm, l, B[l])
    /\ \A k, l \in LS : k # l => B[k] \cap B[l] = {}

EndsClean(mm, l) == CleanEnd(mm.next, mm.tail[l])

\* Nothing changes from mm to mm2 on the lists other than l; the pages of S keep their
\* links; page p has none.
OthersSame(LS, mm, mm2, B, l) ==
    \A k \in LS \ {l} :
        /\ mm2.head[k] = mm.head[k] /\ mm2.tail[k] = mm.tail[k]
        /\ \A x \in B[k] : mm2.next[x] = mm.next[x] /\ mm2.prev[x] = mm.prev[x]

LinksKept(mm, mm2, S) == \A x \in S : mm2.next[x] = mm.next[x] /\ mm2.prev[x] = mm.prev[x]
OffLists(LS, B, p) == \A k \in LS : p \notin B[k]
Unlinked(mm, p) == mm.next[p] = NOPAGE /\ mm.prev[p] = NOPAGE

\* From mm to mm2 list l came to hold the pages C, and the others stay.
ListBecomes(P, LS, mm, mm2, B, l, C) ==
    /\ \A B2 : B2[l] = C /\ (\A k \in LS \ {l} : B2[k] = B[k]) => ListsAre(P, LS, mm2, B2)
    /\ \A k \in LS \ {l} : EndsClean(mm, k) => EndsClean(mm2, k)

\* What an operation on list l and page f makes of the memory mm: pglist_push_head,
\* pglist_push_tail, pglist_pop_tail, pglist_remove.
HeadPushed(P, LS, ST, mm, mm2, B, l, f) ==
    /\ mm2 \in MemType(P, LS, ST) /\ mm2.state = mm.state
    /\ mm2.free_cnt = mm.free_cnt /\ mm2.occupied_cnt = mm.occupied_cnt
    /\ ListBecomes(P, LS, mm, mm2, B, l, B[l] \cup {f})
    /\ EndsClean(mm, l) => EndsClean(mm2, l)
    /\ LinksKept(mm, mm2, P \ (B[l] \cup {f}))
TailPushed(P, LS, ST, mm, mm2, B, l, f) ==
    /\ mm2 \in MemType(P, LS, ST) /\ mm2.state = mm.state
    /\ mm2.free_cnt = mm.free_cnt /\ mm2.occupied_cnt = mm.occupied_cnt
    /\ ListBecomes(P, LS, mm, mm2, B, l, B[l] \cup {f})
    /\ EndsClean(mm2, l)
    /\ LinksKept(mm, mm2, P \ (B[l] \cup {f}))
TailPopped(P, LS, ST, mm, mm2, B, l, f) ==
    /\ mm2 \in MemType(P, LS, ST) /\ mm2.state = mm.state
    /\ mm2.free_cnt = mm.free_cnt /\ mm2.occupied_cnt = mm.occupied_cnt
    /\ f \in P /\ f \in B[l]
    /\ ListBecomes(P, LS, mm, mm2, B, l, B[l] \ {f})
    /\ LinksKept(mm, mm2, P \ {f}) /\ Unlinked(mm2, f)
PageRemoved(P, LS, ST, mm, mm2, B, l, f) ==
    /\ mm2 \in MemType(P, LS, ST) /\ mm2.state = mm.state
    /\ mm2.free_cnt = mm.free_cnt /\ mm2.occupied_cnt = mm.occupied_cnt
    /\ ListBecomes(P, LS, mm, mm2, B, l, B[l] \ {f})
    /\ EndsClean(mm2, l)
    /\ LinksKept(mm, mm2, P \ B[l]) /\ Unlinked(mm2, f)

\* What the fields of a memory are.
LEMMA MemTypeIs ==
    ASSUME NEW P, NEW LS, NEW ST, NEW mm \in MemType(P, LS, ST)
    PROVE  /\ mm.state \in [P -> ST] /\ mm.free_cnt \in Int /\ mm.occupied_cnt \in Int
           /\ mm.next \in Pointers(P) /\ mm.prev \in Pointers(P)
           /\ mm.head \in [LS -> P \cup {NOPAGE}] /\ mm.tail \in [LS -> P \cup {NOPAGE}]
BY DEF MemType

\* New links make a memory of a memory.
LEMMA MemStore ==
    ASSUME NEW P, NEW LS, NEW ST, NEW mm \in MemType(P, LS, ST),
           NEW nx \in Pointers(P), NEW pv \in Pointers(P),
           NEW hd \in [LS -> P \cup {NOPAGE}], NEW tl \in [LS -> P \cup {NOPAGE}]
    PROVE  Links(mm, nx, pv, hd, tl) \in MemType(P, LS, ST)
BY DEF MemType, Links

\* The pages of a list are pages, and on no other list.
LEMMA ListsIn ==
    ASSUME NEW P, NEW LS, NEW mm, NEW B, ListsAre(P, LS, mm, B), NEW k \in LS
    PROVE  B[k] \subseteq P /\ \A l \in LS \ {k} : B[k] \cap B[l] = {}
<1>1. PICK q : Chain(P, mm.next, mm.prev, mm.head[k], mm.tail[k], q) /\ Range(q) = B[k]
  BY DEF ListsAre, ListIs
<1>2. \A l \in LS \ {k} : B[k] \cap B[l] = {}
  BY DEF ListsAre
<1> QED  BY <1>1, <1>2, RangeIs DEF Chain

\* A store that changes only list l, and leaves it a list of the frames C.
LEMMA Relink ==
    ASSUME NEW P, NEW LS, NEW mm, NEW B, ListsAre(P, LS, mm, B), NEW l \in LS, NEW mm2,
           OthersSame(LS, mm, mm2, B, l),
           NEW C, \A k \in LS \ {l} : C \cap B[k] = {}, ListIs(P, mm2, l, C)
    PROVE  ListBecomes(P, LS, mm, mm2, B, l, C)
<1>1. PICK nx, pv, nx2, pv2 : nx = mm.next /\ pv = mm.prev /\ nx2 = mm2.next /\ pv2 = mm2.prev
  OBVIOUS
<1>2. ASSUME NEW k \in LS \ {l}
      PROVE  ListIs(P, mm2, k, B[k]) /\ (EndsClean(mm, k) => EndsClean(mm2, k))
  <2>1. PICK h, t : h = mm.head[k] /\ t = mm.tail[k]
    OBVIOUS
  <2>2. PICK r : Chain(P, nx, pv, h, t, r) /\ Range(r) = B[k]
    BY <1>1, <2>1 DEF ListsAre, ListIs
  <2>3. \A x \in Range(r) : nx2[x] = nx[x] /\ pv2[x] = pv[x]
    BY <1>1, <2>2 DEF OthersSame
  <2>4. Chain(P, nx2, pv2, h, t, r)
    BY <2>2, <2>3, ChainKept
  <2>5. CleanEnd(nx, t) => CleanEnd(nx2, t)
    <3>1. t # NOPAGE => t \in Range(r)
      BY <2>2, TailOn
    <3> QED  BY <2>3, <3>1 DEF CleanEnd
  <2>6. mm2.head[k] = h /\ mm2.tail[k] = t
    BY <2>1 DEF OthersSame
  <2> QED  BY <1>1, <2>1, <2>2, <2>4, <2>5, <2>6 DEF EndsClean, ListIs
<1>3. ASSUME NEW B2, B2[l] = C, \A k \in LS \ {l} : B2[k] = B[k]
      PROVE  ListsAre(P, LS, mm2, B2)
  <2>1. \A k \in LS : ListIs(P, mm2, k, B2[k])
    BY <1>2, <1>3
  <2>2. \A k, j \in LS : k # j => B2[k] \cap B2[j] = {}
    BY <1>3 DEF ListsAre
  <2> QED  BY <2>1, <2>2 DEF ListsAre
<1> QED  BY <1>2, <1>3 DEF ListBecomes

\* pglist_push_head on a memory: list l, of the pages C, gets a page; so far nothing is
\* said of the list that page was on.
HeadStored(P, LS, ST, mm, mm2, C, l, f) ==
    /\ mm2 \in MemType(P, LS, ST) /\ mm2.state = mm.state
    /\ mm2.free_cnt = mm.free_cnt /\ mm2.occupied_cnt = mm.occupied_cnt
    /\ \A k \in LS \ {l} : mm2.head[k] = mm.head[k] /\ mm2.tail[k] = mm.tail[k]
    /\ ListIs(P, mm2, l, C \cup {f})
    /\ EndsClean(mm, l) => EndsClean(mm2, l)
    /\ mm2.prev[f] = NOPAGE
    /\ \A x \in P \ {f} : mm2.next[x] = mm.next[x] /\ (x \notin C => mm2.prev[x] = mm.prev[x])

\* The stores of pglist_push_head.
LEMMA PushStores ==
    ASSUME NEW P, NOPAGE \notin P, NEW LS, NEW ST, NEW mm \in MemType(P, LS, ST),
           NEW l \in LS, NEW C, ListIs(P, mm, l, C), NEW f \in P, f \notin C,
           NEW mm2, mm2 = pglist_push_head(mm, l, f)
    PROVE  HeadStored(P, LS, ST, mm, mm2, C, l, f)
<1>1. PICK nx, pv, h, t : nx = mm.next /\ pv = mm.prev /\ h = mm.head[l] /\ t = mm.tail[l]
  OBVIOUS
<1>2. PICK q : Chain(P, nx, pv, h, t, q) /\ Range(q) = C
  BY <1>1 DEF ListIs
<1>3. nx \in Pointers(P) /\ pv \in Pointers(P)
  BY <1>1, MemTypeIs
<1>4. PICK nx2, pv2, t2 : /\ nx2 = Store(nx, f, h) /\ pv2 = Store(Store(pv, f, NOPAGE), h, f)
                          /\ t2 = IF t = NOPAGE THEN f ELSE t
  OBVIOUS
<1>5. /\ \E r : Chain(P, nx2, pv2, f, t2, r) /\ Range(r) = Range(q) \cup {f}
      /\ nx2 \in Pointers(P) /\ pv2 \in Pointers(P) /\ t2 \in P
      /\ CleanEnd(nx, t) => CleanEnd(nx2, t2)
      /\ \A x \in P \ {f} : nx2[x] = nx[x] /\ (x \notin Range(q) => pv2[x] = pv[x])
  BY <1>2, <1>3, <1>4, PushChain
<1>6. /\ mm2.next = nx2 /\ mm2.prev = pv2 /\ mm2.state = mm.state
      /\ mm2.free_cnt = mm.free_cnt /\ mm2.occupied_cnt = mm.occupied_cnt
      /\ mm2.head = Store(mm.head, l, f)
      /\ mm2.tail = IF t = NOPAGE THEN Store(mm.tail, l, f) ELSE mm.tail
  BY <1>1, <1>4 DEF pglist_push_head, Links, MemType
<1>7. /\ mm2.head[l] = f /\ mm2.tail[l] = t2
      /\ \A k \in LS \ {l} : mm2.head[k] = mm.head[k] /\ mm2.tail[k] = mm.tail[k]
      /\ mm2.head \in [LS -> P \cup {NOPAGE}]
      /\ mm2.tail \in [LS -> P \cup {NOPAGE}]
  <2>1. PICK hd, tl : hd = mm.head /\ tl = mm.tail
    OBVIOUS
  <2>2. hd \in [LS -> P \cup {NOPAGE}] /\ tl \in [LS -> P \cup {NOPAGE}]
    BY <2>1, MemTypeIs
  <2>3. PICK hd2, tl2 : /\ hd2 = Store(hd, l, f)
                        /\ tl2 = IF t = NOPAGE THEN Store(tl, l, f) ELSE tl
    OBVIOUS
  <2>4. /\ hd2 \in [LS -> P \cup {NOPAGE}] /\ hd2[l] = f
        /\ \A k \in LS \ {l} : hd2[k] = hd[k]
    BY <2>2, <2>3 DEF Store
  <2>5. /\ tl2 \in [LS -> P \cup {NOPAGE}] /\ tl2[l] = t2
        /\ \A k \in LS \ {l} : tl2[k] = tl[k]
    BY <1>1, <1>4, <2>1, <2>2, <2>3 DEF Store
  <2> QED  BY <1>6, <2>1, <2>3, <2>4, <2>5
<1>8. mm2 \in MemType(P, LS, ST)
  <2>1. PICK hd, tl : hd = mm2.head /\ tl = mm2.tail
    OBVIOUS
  <2>2. mm2 = Links(mm, nx2, pv2, hd, tl)
    BY <1>1, <1>4, <1>5, <1>6, <2>1 DEF pglist_push_head, Links, MemType
  <2> QED  BY <1>5, <1>7, <2>1, <2>2, MemStore
<1>9. ListIs(P, mm2, l, C \cup {f})
  BY <1>2, <1>5, <1>6, <1>7 DEF ListIs
<1>10. EndsClean(mm, l) => EndsClean(mm2, l)
  BY <1>1, <1>5, <1>6, <1>7 DEF EndsClean
<1>11. pv2[f] = NOPAGE
  <2>1. PICK r : Chain(P, nx2, pv2, f, t2, r)
    BY <1>5
  <2>2. PICK n \in Nat : n = Len(r)
    BY <2>1 DEF Chain
  <2>3. n = 0 => f = NOPAGE
    BY <2>1, <2>2 DEF Chain
  <2>4. n > 0 => f = r[1] /\ pv2[r[1]] = NOPAGE
    BY <2>1, <2>2 DEF Chain
  <2> QED  BY <2>3, <2>4
<1>12. \A x \in P \ {f} : mm2.next[x] = mm.next[x] /\ (x \notin C => mm2.prev[x] = mm.prev[x])
  BY <1>1, <1>2, <1>5, <1>6
<1> QED  BY <1>6, <1>7, <1>8, <1>9, <1>10, <1>11, <1>12 DEF HeadStored

\* pglist_push_head of a page that was on no list.
LEMMA PushLists ==
    ASSUME NEW P, NOPAGE \notin P, NEW LS, NEW ST, NEW mm \in MemType(P, LS, ST),
           NEW B, ListsAre(P, LS, mm, B), NEW l \in LS, NEW f \in P,
           OffLists(LS, B, f), NEW mm2, mm2 = pglist_push_head(mm, l, f)
    PROVE  HeadPushed(P, LS, ST, mm, mm2, B, l, f)
<1>1. PICK C, D : C = B[l] /\ D = C \cup {f}
  OBVIOUS
<1>2. HeadStored(P, LS, ST, mm, mm2, C, l, f)
  <2>1. ListIs(P, mm, l, C) /\ f \notin C
    BY <1>1 DEF ListsAre, OffLists
  <2> QED  BY <2>1, PushStores
<1>3. \A x \in P \ {f} : mm2.next[x] = mm.next[x] /\ (x \notin C => mm2.prev[x] = mm.prev[x])
  BY <1>2 DEF HeadStored
<1>4. \A k \in LS \ {l} : B[k] \subseteq P /\ B[k] \cap C = {} /\ f \notin B[k]
  BY <1>1, ListsIn DEF OffLists
<1>5. ListBecomes(P, LS, mm, mm2, B, l, D)
  <2>1. OthersSame(LS, mm, mm2, B, l)
    BY <1>2, <1>3, <1>4 DEF OthersSame, HeadStored
  <2>2. ListIs(P, mm2, l, D)
    BY <1>1, <1>2 DEF HeadStored
  <2>3. \A k \in LS \ {l} : D \cap B[k] = {}
    BY <1>1, <1>4
  <2> QED  BY <2>1, <2>2, <2>3, Relink, Zenon
<1>6. LinksKept(mm, mm2, P \ (B[l] \cup {f}))
  BY <1>1, <1>3 DEF LinksKept
<1> QED  BY <1>1, <1>2, <1>5, <1>6 DEF HeadPushed, HeadStored

\* pglist_push_head of a page that is, alone, on another list: it stays there too.
LEMMA PushStray ==
    ASSUME NEW P, NOPAGE \notin P, NEW LS, NEW ST, NEW mm \in MemType(P, LS, ST),
           NEW B, ListsAre(P, LS, mm, B), NEW l \in LS, NEW c \in LS \ {l}, NEW f \in P,
           B[c] = {f}, NEW mm2, mm2 = pglist_push_head(mm, l, f)
    PROVE  /\ mm2 \in MemType(P, LS, ST) /\ mm2.state = mm.state
           /\ mm2.free_cnt = mm.free_cnt /\ mm2.occupied_cnt = mm.occupied_cnt
           /\ \A k \in LS \ {l} : ListIs(P, mm2, k, B[k])
<1>1. PICK C : C = B[l]
  OBVIOUS
<1>2. HeadStored(P, LS, ST, mm, mm2, C, l, f)
  <2>1. ListIs(P, mm, l, C) /\ f \notin C
    BY <1>1 DEF ListsAre
  <2> QED  BY <2>1, PushStores
<1>3. PICK nx, pv, nx2, pv2 : nx = mm.next /\ pv = mm.prev /\ nx2 = mm2.next /\ pv2 = mm2.prev
  OBVIOUS
<1>4. pv2[f] = NOPAGE /\ \A x \in P \ {f} : nx2[x] = nx[x] /\ (x \notin C => pv2[x] = pv[x])
  BY <1>2, <1>3 DEF HeadStored
<1>5. ASSUME NEW k \in LS \ {l} PROVE ListIs(P, mm2, k, B[k])
  <2>1. PICK h, t : h = mm.head[k] /\ t = mm.tail[k]
    OBVIOUS
  <2>2. PICK q : Chain(P, nx, pv, h, t, q) /\ Range(q) = B[k]
    BY <1>3, <2>1 DEF ListsAre, ListIs
  <2>3. mm2.head[k] = h /\ mm2.tail[k] = t
    BY <1>2, <2>1 DEF HeadStored
  <2>4. Chain(P, nx2, pv2, h, t, q)
    <3>1. CASE k = c
      <4>1. PICK n \in Nat : n = Len(q)
        BY <2>2 DEF Chain
      <4>2. /\ \A i \in 1 .. n : q[i] = f
            /\ \A i, j \in 1 .. n : q[i] = q[j] => i = j
        BY <2>2, <3>1, <4>1, RangeIs DEF Chain, NoRepeat
      <4>3. n <= 1
        <5> SUFFICES ASSUME n > 1 PROVE FALSE
          OBVIOUS
        <5>1. 1 \in 1 .. n /\ 2 \in 1 .. n
          OBVIOUS
        <5> QED  BY <4>2, <5>1
      <4>4. n > 0 => q[1] = f
        BY <4>2
      <4> QED  BY <1>4, <2>2, <4>1, <4>3, <4>4 DEF Chain
    <3>2. CASE k # c
      <4>1. B[k] \subseteq P /\ f \notin B[k] /\ B[k] \cap C = {}
        <5>1. B[k] \subseteq P /\ \A j \in LS \ {k} : B[k] \cap B[j] = {}
          BY ListsIn
        <5> QED  BY <1>1, <3>2, <5>1
      <4>2. \A x \in Range(q) : nx2[x] = nx[x] /\ pv2[x] = pv[x]
        BY <1>4, <2>2, <4>1
      <4> QED  BY <2>2, <4>2, ChainKept
    <3> QED  BY <3>1, <3>2
  <2> QED  BY <1>3, <2>2, <2>3, <2>4 DEF ListIs
<1> QED  BY <1>2, <1>5 DEF HeadStored

\* pglist_pop_tail on a memory: list l loses its last frame.
LEMMA PopLists ==
    ASSUME NEW P, NOPAGE \notin P, NEW LS, NEW ST, NEW mm \in MemType(P, LS, ST),
           NEW B, ListsAre(P, LS, mm, B), NEW l \in LS, mm.tail[l] # NOPAGE,
           NEW f, f = mm.tail[l], NEW mm2, mm2 = pglist_pop_tail(mm, l)
    PROVE  TailPopped(P, LS, ST, mm, mm2, B, l, f)
<1>1. PICK nx, pv, h : nx = mm.next /\ pv = mm.prev /\ h = mm.head[l]
  OBVIOUS
<1>2. PICK q : Chain(P, nx, pv, h, f, q) /\ Range(q) = B[l]
  BY <1>1 DEF ListsAre, ListIs
<1>3. nx \in Pointers(P) /\ pv \in Pointers(P)
  BY <1>1, MemTypeIs
<1>4. PICK nx2, pv2, h2 : /\ nx2 = Store(nx, f, NOPAGE) /\ pv2 = Store(pv, f, NOPAGE)
                          /\ h2 = IF pv[f] = NOPAGE THEN NOPAGE ELSE h
  OBVIOUS
<1>5. /\ \E r : Chain(P, nx2, pv2, h2, pv[f], r) /\ Range(r) = Range(q) \ {f}
      /\ nx2 \in Pointers(P) /\ pv2 \in Pointers(P) /\ f \in P /\ f \in Range(q)
      /\ h2 \in P \cup {NOPAGE} /\ pv[f] \in P \cup {NOPAGE}
      /\ \A x \in P \ {f} : nx2[x] = nx[x] /\ pv2[x] = pv[x]
  BY <1>2, <1>3, <1>4, PopChain
<1>6. /\ mm2.next = nx2 /\ mm2.prev = pv2 /\ mm2.state = mm.state
      /\ mm2.free_cnt = mm.free_cnt /\ mm2.occupied_cnt = mm.occupied_cnt
      /\ mm2.head = IF pv[f] = NOPAGE THEN Store(mm.head, l, NOPAGE) ELSE mm.head
      /\ mm2.tail = Store(mm.tail, l, pv[f])
  BY <1>1, <1>4 DEF pglist_pop_tail, Links, MemType
<1>7. /\ mm2.head[l] = h2 /\ mm2.tail[l] = pv[f]
      /\ \A k \in LS \ {l} : mm2.head[k] = mm.head[k] /\ mm2.tail[k] = mm.tail[k]
      /\ mm2.head \in [LS -> P \cup {NOPAGE}]
      /\ mm2.tail \in [LS -> P \cup {NOPAGE}]
  <2>1. PICK hd, tl, b : hd = mm.head /\ tl = mm.tail /\ b = pv[f]
    OBVIOUS
  <2>2. /\ hd \in [LS -> P \cup {NOPAGE}] /\ tl \in [LS -> P \cup {NOPAGE}]
        /\ b \in P \cup {NOPAGE}
    BY <1>5, <2>1, MemTypeIs
  <2>3. PICK hd2, tl2 : /\ hd2 = IF b = NOPAGE THEN Store(hd, l, NOPAGE) ELSE hd
                        /\ tl2 = Store(tl, l, b)
    OBVIOUS
  <2>4. /\ hd2 \in [LS -> P \cup {NOPAGE}] /\ hd2[l] = h2
        /\ \A k \in LS \ {l} : hd2[k] = hd[k]
    BY <1>1, <1>4, <2>1, <2>2, <2>3 DEF Store
  <2>5. /\ tl2 \in [LS -> P \cup {NOPAGE}] /\ tl2[l] = b
        /\ \A k \in LS \ {l} : tl2[k] = tl[k]
    BY <2>2, <2>3 DEF Store
  <2> QED  BY <1>6, <2>1, <2>3, <2>4, <2>5
<1>8. mm2 \in MemType(P, LS, ST)
  <2>1. PICK hd, tl : hd = mm2.head /\ tl = mm2.tail
    OBVIOUS
  <2>2. mm2 = Links(mm, nx2, pv2, hd, tl)
    BY <1>1, <1>4, <1>5, <1>6, <2>1 DEF pglist_pop_tail, Links, MemType
  <2> QED  BY <1>5, <1>7, <2>1, <2>2, MemStore
<1>9. \A k \in LS \ {l} : \A x \in B[k] : nx2[x] = nx[x] /\ pv2[x] = pv[x]
  BY <1>2, <1>5, ListsIn
<1>10. PICK C : C = B[l] \ {f}
  OBVIOUS
<1>11. \A k \in LS \ {l} : C \cap B[k] = {}
  BY <1>10 DEF ListsAre
<1>12. ListIs(P, mm2, l, C)
  BY <1>2, <1>5, <1>6, <1>7, <1>10 DEF ListIs
<1>13. ListBecomes(P, LS, mm, mm2, B, l, C)
  <2>1. OthersSame(LS, mm, mm2, B, l)
    BY <1>1, <1>6, <1>7, <1>9 DEF OthersSame
  <2> QED  BY <1>11, <1>12, <2>1, Relink, Zenon
<1>14. LinksKept(mm, mm2, P \ {f})
  BY <1>1, <1>5, <1>6 DEF LinksKept
<1>15. Unlinked(mm2, f)
  BY <1>3, <1>4, <1>5, <1>6 DEF Unlinked, Store, Pointers
<1> QED  BY <1>2, <1>5, <1>6, <1>8, <1>10, <1>13, <1>14, <1>15 DEF TailPopped

\* pglist_remove on a memory: a list whose end is clean loses any of its frames.
LEMMA RemoveLists ==
    ASSUME NEW P, NOPAGE \notin P, NEW LS, NEW ST, NEW mm \in MemType(P, LS, ST),
           NEW B, ListsAre(P, LS, mm, B), NEW l \in LS, EndsClean(mm, l),
           NEW f \in B[l], NEW mm2, mm2 = pglist_remove(mm, l, f)
    PROVE  PageRemoved(P, LS, ST, mm, mm2, B, l, f)
<1>1. PICK nx, pv, h, t : nx = mm.next /\ pv = mm.prev /\ h = mm.head[l] /\ t = mm.tail[l]
  OBVIOUS
<1>2. PICK q : Chain(P, nx, pv, h, t, q) /\ Range(q) = B[l]
  BY <1>1 DEF ListsAre, ListIs
<1>3. nx \in Pointers(P) /\ pv \in Pointers(P) /\ CleanEnd(nx, t)
  BY <1>1, MemTypeIs DEF EndsClean
<1>4. PICK a, b : a = nx[f] /\ b = pv[f]
  OBVIOUS
<1>5. PICK nx2, pv2, h2, t2 : /\ nx2 = Store(Store(nx, b, a), f, NOPAGE)
                              /\ pv2 = Store(Store(pv, a, b), f, NOPAGE)
                              /\ h2 = IF b = NOPAGE THEN a ELSE h
                              /\ t2 = IF a = NOPAGE THEN b ELSE t
  OBVIOUS
<1>6. /\ \E r : Chain(P, nx2, pv2, h2, t2, r) /\ Range(r) = Range(q) \ {f}
      /\ nx2 \in Pointers(P) /\ pv2 \in Pointers(P)
      /\ h2 \in P \cup {NOPAGE} /\ t2 \in P \cup {NOPAGE} /\ CleanEnd(nx2, t2)
      /\ \A x \in P \ Range(q) : nx2[x] = nx[x] /\ pv2[x] = pv[x]
  BY <1>2, <1>3, <1>4, <1>5, RemoveChain
<1>7. /\ mm2.next = nx2 /\ mm2.prev = pv2 /\ mm2.state = mm.state
      /\ mm2.free_cnt = mm.free_cnt /\ mm2.occupied_cnt = mm.occupied_cnt
      /\ mm2.head = IF b = NOPAGE THEN Store(mm.head, l, a) ELSE mm.head
      /\ mm2.tail = IF a = NOPAGE THEN Store(mm.tail, l, b) ELSE mm.tail
  BY <1>1, <1>4, <1>5 DEF pglist_remove, Links, MemType
<1>8. /\ mm2.head[l] = h2 /\ mm2.tail[l] = t2
      /\ \A k \in LS \ {l} : mm2.head[k] = mm.head[k] /\ mm2.tail[k] = mm.tail[k]
      /\ mm2.head \in [LS -> P \cup {NOPAGE}]
      /\ mm2.tail \in [LS -> P \cup {NOPAGE}]
  <2>1. PICK hd, tl : hd = mm.head /\ tl = mm.tail
    OBVIOUS
  <2>2. /\ hd \in [LS -> P \cup {NOPAGE}] /\ tl \in [LS -> P \cup {NOPAGE}]
        /\ a \in P \cup {NOPAGE} /\ b \in P \cup {NOPAGE}
    <3>1. f \in P
      BY ListsIn
    <3> QED  BY <1>3, <1>4, <2>1, <3>1, MemTypeIs DEF Pointers
  <2>3. PICK hd2, tl2 : /\ hd2 = IF b = NOPAGE THEN Store(hd, l, a) ELSE hd
                        /\ tl2 = IF a = NOPAGE THEN Store(tl, l, b) ELSE tl
    OBVIOUS
  <2>4. /\ hd2 \in [LS -> P \cup {NOPAGE}] /\ hd2[l] = h2
        /\ \A k \in LS \ {l} : hd2[k] = hd[k]
    BY <1>1, <1>5, <2>1, <2>2, <2>3 DEF Store
  <2>5. /\ tl2 \in [LS -> P \cup {NOPAGE}] /\ tl2[l] = t2
        /\ \A k \in LS \ {l} : tl2[k] = tl[k]
    BY <1>1, <1>5, <2>1, <2>2, <2>3 DEF Store
  <2> QED  BY <1>7, <2>1, <2>3, <2>4, <2>5
<1>9. mm2 \in MemType(P, LS, ST)
  <2>1. PICK hd, tl : hd = mm2.head /\ tl = mm2.tail
    OBVIOUS
  <2>2. mm2 = Links(mm, nx2, pv2, hd, tl)
    BY <1>1, <1>4, <1>5, <1>6, <1>7, <2>1 DEF pglist_remove, Links, MemType
  <2> QED  BY <1>6, <1>8, <2>1, <2>2, MemStore
<1>10. \A k \in LS \ {l} : \A x \in B[k] : nx2[x] = nx[x] /\ pv2[x] = pv[x]
  BY <1>2, <1>6, ListsIn
<1>11. PICK C : C = B[l] \ {f}
  OBVIOUS
<1>12. \A k \in LS \ {l} : C \cap B[k] = {}
  BY <1>11 DEF ListsAre
<1>13. ListIs(P, mm2, l, C)
  BY <1>2, <1>6, <1>7, <1>8, <1>11 DEF ListIs
<1>14. ListBecomes(P, LS, mm, mm2, B, l, C)
  <2>1. OthersSame(LS, mm, mm2, B, l)
    BY <1>1, <1>7, <1>8, <1>10 DEF OthersSame
  <2> QED  BY <1>12, <1>13, <2>1, Relink, Zenon
<1>15. EndsClean(mm2, l)
  BY <1>6, <1>7, <1>8 DEF EndsClean
<1>16. LinksKept(mm, mm2, P \ B[l])
  BY <1>1, <1>2, <1>6, <1>7 DEF LinksKept
<1>17. Unlinked(mm2, f)
  <2>1. f \in P
    BY ListsIn
  <2> QED  BY <1>3, <1>5, <1>7, <2>1 DEF Unlinked, Store, Pointers
<1> QED  BY <1>7, <1>9, <1>11, <1>14, <1>15, <1>16, <1>17 DEF PageRemoved

\* pglist_push_tail.
LEMMA PushTailChain ==
    ASSUME NEW P, NOPAGE \notin P, NEW nx \in Pointers(P), NEW pv \in Pointers(P), NEW h, NEW t,
           NEW q, Chain(P, nx, pv, h, t, q), NEW p \in P, p \notin Range(q),
           NEW nx2, nx2 = Store(Store(nx, p, NOPAGE), t, p),
           NEW pv2, pv2 = Store(pv, p, t),
           NEW h2, h2 = IF h = NOPAGE THEN p ELSE h
    PROVE  /\ \E r : Chain(P, nx2, pv2, h2, p, r) /\ Range(r) = Range(q) \cup {p}
           /\ nx2 \in Pointers(P) /\ pv2 \in Pointers(P) /\ h2 \in P
           /\ CleanEnd(nx2, p)
           /\ \A x \in P \ {p} : pv2[x] = pv[x] /\ (x \notin Range(q) => nx2[x] = nx[x])
<1>1. PICK n \in Nat : n = Len(q)
  BY DEF Chain
<1>2. \A i \in 1 .. n : q[i] \in Range(q) /\ q[i] \in P /\ q[i] # p
  BY <1>1, RangeIs DEF Chain
<1>3. /\ n = 0 => h = NOPAGE /\ t = NOPAGE
      /\ n > 0 => h = q[1] /\ t = q[n] /\ pv[q[1]] = NOPAGE
      /\ \A i \in 1 .. n - 1 : pv[q[i + 1]] = q[i] /\ nx[q[i]] = q[i + 1]
      /\ \A i, j \in 1 .. n : q[i] = q[j] => i = j
  BY <1>1 DEF Chain, NoRepeat
<1>4. h \in P \cup {NOPAGE} /\ t \in P \cup {NOPAGE} /\ h # p /\ t # p
      /\ (t # NOPAGE => t \in Range(q))
  BY <1>1, <1>2, <1>3
<1>5. /\ pv2 \in Pointers(P) /\ pv2[p] = t
      /\ \A x \in P \ {p} : pv2[x] = pv[x]
  BY <1>4 DEF Store, Pointers
<1>6. /\ nx2 \in Pointers(P) /\ nx2[p] = NOPAGE /\ (t # NOPAGE => nx2[t] = p)
      /\ \A x \in P \ {p, t} : nx2[x] = nx[x]
  BY <1>4 DEF Store, Pointers
<1>7. PICK r : r = Append(q, p)
  OBVIOUS
<1>8. /\ r \in Seq(P) /\ Range(r) = Range(q) \cup {p} /\ NoRepeat(r)
  BY <1>7, AppendIs DEF Chain
<1>9. Len(r) = n + 1 /\ r[n + 1] = p /\ \A i \in 1 .. n : r[i] = q[i]
  BY <1>1, <1>7 DEF Chain
<1>10. h2 = r[1] /\ h2 \in P /\ pv2[r[1]] = NOPAGE
  <2>1. CASE n = 0
    BY <1>3, <1>5, <1>9, <2>1
  <2>2. CASE n # 0
    <3>1. 1 \in 1 .. n /\ n > 0
      BY <2>2
    <3> QED  BY <1>2, <1>3, <1>5, <1>9, <3>1
  <2> QED  BY <2>1, <2>2
<1>11. ASSUME NEW i \in 1 .. n PROVE pv2[r[i + 1]] = r[i] /\ nx2[r[i]] = r[i + 1]
  <2>1. CASE i = n
    <3>1. r[i] = t /\ r[i + 1] = p /\ t # NOPAGE
      BY <1>2, <1>3, <1>9, <2>1
    <3> QED  BY <1>5, <1>6, <3>1
  <2>2. CASE i # n
    <3>1. i \in 1 .. n - 1 /\ i + 1 \in 1 .. n /\ n \in 1 .. n /\ n > 0
      BY <2>2
    <3>2. q[i] # t
      BY <1>3, <2>2, <3>1
    <3>3. r[i] = q[i] /\ r[i + 1] = q[i + 1] /\ pv[q[i + 1]] = q[i] /\ nx[q[i]] = q[i + 1]
      BY <1>3, <1>9, <3>1
    <3> QED  BY <1>2, <1>5, <1>6, <3>1, <3>2, <3>3
  <2> QED  BY <2>1, <2>2
<1>12. Chain(P, nx2, pv2, h2, p, r)
  BY <1>8, <1>9, <1>10, <1>11 DEF Chain
<1>13. \A x \in P \ {p} : x \notin Range(q) => nx2[x] = nx[x]
  BY <1>4, <1>6
<1> QED  BY <1>5, <1>6, <1>8, <1>10, <1>12, <1>13 DEF CleanEnd

\* pglist_push_tail on a memory: list l gets a page that was on no list, as its last.
LEMMA PushTailLists ==
    ASSUME NEW P, NOPAGE \notin P, NEW LS, NEW ST, NEW mm \in MemType(P, LS, ST),
           NEW B, ListsAre(P, LS, mm, B), NEW l \in LS, NEW f \in P,
           OffLists(LS, B, f), NEW mm2, mm2 = pglist_push_tail(mm, l, f)
    PROVE  TailPushed(P, LS, ST, mm, mm2, B, l, f)
<1>1. PICK nx, pv, h, t : nx = mm.next /\ pv = mm.prev /\ h = mm.head[l] /\ t = mm.tail[l]
  OBVIOUS
<1>2. PICK q : Chain(P, nx, pv, h, t, q) /\ Range(q) = B[l]
  BY <1>1 DEF ListsAre, ListIs
<1>3. nx \in Pointers(P) /\ pv \in Pointers(P)
  BY <1>1, MemTypeIs
<1>4. PICK nx2, pv2, h2 : /\ nx2 = Store(Store(nx, f, NOPAGE), t, f) /\ pv2 = Store(pv, f, t)
                          /\ h2 = IF h = NOPAGE THEN f ELSE h
  OBVIOUS
<1>5. /\ \E r : Chain(P, nx2, pv2, h2, f, r) /\ Range(r) = Range(q) \cup {f}
      /\ nx2 \in Pointers(P) /\ pv2 \in Pointers(P) /\ h2 \in P
      /\ CleanEnd(nx2, f)
      /\ \A x \in P \ {f} : pv2[x] = pv[x] /\ (x \notin Range(q) => nx2[x] = nx[x])
  BY <1>2, <1>3, <1>4, PushTailChain DEF OffLists
<1>6. /\ mm2.next = nx2 /\ mm2.prev = pv2 /\ mm2.state = mm.state
      /\ mm2.free_cnt = mm.free_cnt /\ mm2.occupied_cnt = mm.occupied_cnt
      /\ mm2.head = IF h = NOPAGE THEN Store(mm.head, l, f) ELSE mm.head
      /\ mm2.tail = Store(mm.tail, l, f)
  BY <1>1, <1>4 DEF pglist_push_tail, Links, MemType
<1>7. /\ mm2.head[l] = h2 /\ mm2.tail[l] = f
      /\ \A k \in LS \ {l} : mm2.head[k] = mm.head[k] /\ mm2.tail[k] = mm.tail[k]
      /\ mm2.head \in [LS -> P \cup {NOPAGE}]
      /\ mm2.tail \in [LS -> P \cup {NOPAGE}]
  <2>1. PICK hd, tl : hd = mm.head /\ tl = mm.tail
    OBVIOUS
  <2>2. hd \in [LS -> P \cup {NOPAGE}] /\ tl \in [LS -> P \cup {NOPAGE}]
    BY <2>1, MemTypeIs
  <2>3. PICK hd2, tl2 : /\ hd2 = IF h = NOPAGE THEN Store(hd, l, f) ELSE hd
                        /\ tl2 = Store(tl, l, f)
    OBVIOUS
  <2>4. /\ hd2 \in [LS -> P \cup {NOPAGE}] /\ hd2[l] = h2
        /\ \A k \in LS \ {l} : hd2[k] = hd[k]
    BY <1>1, <1>4, <2>1, <2>2, <2>3 DEF Store
  <2>5. /\ tl2 \in [LS -> P \cup {NOPAGE}] /\ tl2[l] = f
        /\ \A k \in LS \ {l} : tl2[k] = tl[k]
    BY <2>2, <2>3 DEF Store
  <2> QED  BY <1>6, <2>1, <2>3, <2>4, <2>5
<1>8. mm2 \in MemType(P, LS, ST)
  <2>1. PICK hd, tl : hd = mm2.head /\ tl = mm2.tail
    OBVIOUS
  <2>2. mm2 = Links(mm, nx2, pv2, hd, tl)
    BY <1>1, <1>4, <1>5, <1>6, <2>1 DEF pglist_push_tail, Links, MemType
  <2> QED  BY <1>5, <1>7, <2>1, <2>2, MemStore
<1>9. \A k \in LS \ {l} : \A x \in B[k] : nx2[x] = nx[x] /\ pv2[x] = pv[x]
  BY <1>2, <1>5, ListsIn DEF OffLists
<1>10. PICK C : C = B[l] \cup {f}
  OBVIOUS
<1>11. \A k \in LS \ {l} : C \cap B[k] = {}
  BY <1>10 DEF ListsAre, OffLists
<1>12. ListIs(P, mm2, l, C)
  BY <1>2, <1>5, <1>6, <1>7, <1>10 DEF ListIs
<1>13. ListBecomes(P, LS, mm, mm2, B, l, C)
  <2>1. OthersSame(LS, mm, mm2, B, l)
    BY <1>1, <1>6, <1>7, <1>9 DEF OthersSame
  <2> QED  BY <1>11, <1>12, <2>1, Relink, Zenon
<1>14. EndsClean(mm2, l)
  BY <1>5, <1>6, <1>7 DEF EndsClean
<1>15. LinksKept(mm, mm2, P \ (B[l] \cup {f}))
  BY <1>1, <1>2, <1>5, <1>6 DEF LinksKept
<1> QED  BY <1>6, <1>8, <1>10, <1>13, <1>14, <1>15 DEF TailPushed

\* A page of a list that has no neighbours is alone on it.
LEMMA AloneIs ==
    ASSUME NEW P, NOPAGE \notin P, NEW mm, NEW l, NEW C, ListIs(P, mm, l, C),
           NEW p \in C, Unlinked(mm, p)
    PROVE  C = {p} /\ mm.head[l] = p /\ mm.tail[l] = p
<1>1. PICK nx, pv, h, t : nx = mm.next /\ pv = mm.prev /\ h = mm.head[l] /\ t = mm.tail[l]
  OBVIOUS
<1>2. PICK q : Chain(P, nx, pv, h, t, q) /\ Range(q) = C
  BY <1>1 DEF ListIs
<1>3. PICK n \in Nat : n = Len(q)
  BY <1>2 DEF Chain
<1>4. /\ \A i \in 1 .. n : q[i] \in C /\ q[i] \in P
      /\ \A x \in C : \E i \in 1 .. n : x = q[i]
  BY <1>2, <1>3, RangeIs DEF Chain
<1>5. /\ n > 0 => h = q[1] /\ t = q[n]
      /\ \A i \in 1 .. n - 1 : pv[q[i + 1]] = q[i] /\ nx[q[i]] = q[i + 1]
  BY <1>2, <1>3 DEF Chain
<1>6. PICK k \in 1 .. n : p = q[k]
  BY <1>4
<1>7. nx[p] = NOPAGE /\ pv[p] = NOPAGE
  BY <1>1 DEF Unlinked
<1>8. k = n
  <2> SUFFICES ASSUME k # n PROVE FALSE
    OBVIOUS
  <2>1. k \in 1 .. n - 1 /\ k + 1 \in 1 .. n
    OBVIOUS
  <2> QED  BY <1>4, <1>5, <1>6, <1>7, <2>1
<1>9. k = 1
  <2> SUFFICES ASSUME k # 1 PROVE FALSE
    OBVIOUS
  <2>1. PICK j \in 1 .. n - 1 : j + 1 = k /\ j \in 1 .. n
    <3>1. PICK j : j = k - 1
      OBVIOUS
    <3> QED  BY <3>1
  <2> QED  BY <1>4, <1>5, <1>6, <1>7, <2>1
<1>10. n = 1 /\ h = p /\ t = p
  BY <1>5, <1>6, <1>8, <1>9
<1>11. \A x : x \in C <=> x = p
  <2>1. \A i \in 1 .. n : i = k
    BY <1>9, <1>10
  <2> QED  BY <1>4, <1>6, <2>1
<1> QED  BY <1>1, <1>10, <1>11

\* The first page of a list is on it; only an empty list has none.
LEMMA HeadOn ==
    ASSUME NEW P, NOPAGE \notin P, NEW mm, NEW l, NEW C, ListIs(P, mm, l, C)
    PROVE  IF C = {} THEN mm.head[l] = NOPAGE /\ mm.tail[l] = NOPAGE
           ELSE mm.head[l] \in C /\ mm.tail[l] \in C /\ mm.head[l] # NOPAGE /\ mm.tail[l] # NOPAGE
<1>1. PICK nx, pv, h, t : nx = mm.next /\ pv = mm.prev /\ h = mm.head[l] /\ t = mm.tail[l]
  OBVIOUS
<1>2. PICK q : Chain(P, nx, pv, h, t, q) /\ Range(q) = C
  BY <1>1 DEF ListIs
<1>3. PICK n \in Nat : n = Len(q)
  BY <1>2 DEF Chain
<1>4. /\ \A i \in 1 .. n : q[i] \in C /\ q[i] \in P
      /\ \A x \in C : \E i \in 1 .. n : x = q[i]
  BY <1>2, <1>3, RangeIs DEF Chain
<1>5. /\ n = 0 => h = NOPAGE /\ t = NOPAGE
      /\ n > 0 => h = q[1] /\ t = q[n]
  BY <1>2, <1>3 DEF Chain
<1>6. CASE n = 0
  BY <1>1, <1>4, <1>5, <1>6
<1>7. CASE n # 0
  <2>1. 1 \in 1 .. n /\ n \in 1 .. n
    BY <1>7
  <2> QED  BY <1>1, <1>4, <1>5, <1>7, <2>1
<1> QED  BY <1>6, <1>7

\* Stores to the other fields do not touch the lists.
LEMMA KeepLists ==
    ASSUME NEW P, NEW LS, NEW mm, NEW mm2, mm2.next = mm.next, mm2.prev = mm.prev,
           mm2.head = mm.head, mm2.tail = mm.tail
    PROVE  /\ \A B : ListsAre(P, LS, mm, B) => ListsAre(P, LS, mm2, B)
           /\ \A l \in LS : EndsClean(mm, l) => EndsClean(mm2, l)
BY DEF ListsAre, ListIs, EndsClean
=============================================================================
