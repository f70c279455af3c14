-------------------------- MODULE TimeRangesProofs --------------------------
(***************************************************************************)
(* What the range arithmetic of TimeRanges yields, for any largest slot:   *)
(* the lemmas that the proofs about a meeting's availability, about the    *)
(* page's estimate of it and about a request share.                        *)
(***************************************************************************)
EXTENDS TimeRanges, FiniteSetTheorems, SequenceTheorems, WellFoundedInduction, TLAPS

Event == [kind : {"Start", "End"}, at : Slot]
-----------------------------------------------------------------------------
(* Numbers, one after the other. *)

Below == {pair \in Nat \X Nat : pair[1] < pair[2]}

\* Some number is the least of those that there are.
LEMMA LeastOfNat ==
    ASSUME NEW T, T \subseteq Nat, T # {}
    PROVE  \E x \in T : \A y \in T : x <= y
  <1>1. IsWellFoundedOn(Below, Nat)
    BY NatLessThanWellFounded DEF OpToRel, Below
  <1>2. PICK x \in T : \A y \in T : ~ (<<y, x>> \in Below)
    BY <1>1, WFMin
  <1>3. ASSUME NEW y \in T PROVE x <= y
    <2>1. <<y, x>> \in Nat \X Nat /\ <<y, x>>[1] = y /\ <<y, x>>[2] = x
      OBVIOUS
    <2>2. ~(y < x)
      BY <1>2, <2>1 DEF Below
    <2> QED
      BY <2>1, <2>2
  <1> QED
    BY <1>3

\* What holds of the first number, and of each after one it holds of, holds of all.
LEMMA UpToN ==
    ASSUME NEW n \in Nat, NEW T, 0 \in T, \A k \in 0 .. n - 1 : k \in T => k + 1 \in T
    PROVE  0 .. n \subseteq T
  <1> DEFINE rest == (0 .. n) \ T
  <1> SUFFICES ASSUME rest # {}
               PROVE  FALSE
    OBVIOUS
  <1>0. rest \subseteq Nat
    OBVIOUS
  <1>1. PICK k \in rest : \A j \in rest : k <= j
    <2> HIDE DEF rest
    <2> QED
      BY <1>0, LeastOfNat
  <1>2. k # 0 /\ k - 1 \in 0 .. n - 1
    BY <1>1
  <1>3. k - 1 \in T
    BY <1>1, <1>2
  <1> QED
    BY <1>1, <1>2, <1>3
-----------------------------------------------------------------------------
(* The events that an iterator consumes, and where each of them comes from. *)

\* Any two events are in order, one way only.
LEMMA EventOrder ==
    ASSUME NEW a \in Event, NEW b \in Event, NEW c \in Event
    PROVE  /\ ~EventLess(a, a)
           /\ EventLess(a, b) => ~EventLess(b, a)
           /\ a = b \/ EventLess(a, b) \/ EventLess(b, a)
           /\ EventLess(a, b) /\ EventLess(b, c) => EventLess(a, c)
  BY MaxAssumption DEF Event, EventLess, Slot

InOrder(all) == \A p, q \in DOMAIN all : p < q => ~EventLess(all[q], all[p])

LEMMA InOrderMeans ==
    ASSUME NEW all \in Seq(Event), InOrder(all), NEW p \in DOMAIN all, NEW q \in DOMAIN all
    PROVE  /\ EventLess(all[p], all[q]) => p < q
           /\ p <= q => all[p].at <= all[q].at
           /\ p < q /\ all[p].kind = "End" /\ all[q].kind = "Start" => all[p].at < all[q].at
  <1>1. all[p] \in Event /\ all[q] \in Event /\ p \in Nat /\ q \in Nat
    OBVIOUS
  <1>2. ~EventLess(all[p], all[p])
    BY <1>1, EventOrder
  <1>3. all[p].at \in Int /\ all[q].at \in Int
    BY <1>1, MaxAssumption DEF Event, Slot
  <1> QED
    BY <1>1, <1>2, <1>3 DEF InOrder, EventLess

\* Sorting moves every event to a place of its own.
Rearranged(n, events, all, place) ==
    /\ place \in [1 .. n -> 1 .. n]
    /\ \A i, j \in 1 .. n : place[i] = place[j] => i = j
    /\ \A k \in 1 .. n : \E j \in 1 .. n : place[j] = k
    /\ \A j \in 1 .. n : all[place[j]] = events[j]

\* sorted_unstable puts its elements in order.
LEMMA SortedIsOrder ==
    ASSUME NEW events \in Seq(Event)
    PROVE  /\ Sorted(events) \in Seq(Event) /\ Len(Sorted(events)) = Len(events)
           /\ InOrder(Sorted(events))
           /\ \E place : Rearranged(Len(events), events, Sorted(events), place)
  <1> DEFINE D == 1 .. Len(events)
             Before(j) == {i \in D : GoesBefore(events, i, j)}
             place == [j \in D |-> Rank(events, j)]
  <1>1. DOMAIN events = D /\ Len(events) \in Nat /\ \A i \in D : events[i] \in Event
    OBVIOUS
  <1>2. IsFiniteSet(D) /\ Cardinality(D) = Len(events)
    <2>1. IsFiniteSet(1 .. Len(events))
          /\ Cardinality(1 .. Len(events)) = IF 1 > Len(events) THEN 0 ELSE Len(events) - 1 + 1
      BY <1>1, FS_Interval
    <2> QED
      BY <1>1, <2>1
  <1>3. ASSUME NEW i \in D, NEW j \in D, i # j
        PROVE  (GoesBefore(events, i, j) /\ ~GoesBefore(events, j, i))
               \/ (GoesBefore(events, j, i) /\ ~GoesBefore(events, i, j))
    <2>1. events[i] \in Event /\ events[j] \in Event
      BY <1>1
    <2>2. /\ ~EventLess(events[i], events[i])
          /\ EventLess(events[i], events[j]) => ~EventLess(events[j], events[i])
          /\ \/ events[i] = events[j] \/ EventLess(events[i], events[j])
             \/ EventLess(events[j], events[i])
      BY <2>1, EventOrder
    <2> QED
      BY <1>3, <2>2 DEF GoesBefore
  <1>4. ASSUME NEW h \in D, NEW i \in D, NEW j \in D, GoesBefore(events, h, i), GoesBefore(events, i, j)
        PROVE  GoesBefore(events, h, j)
    <2>1. events[h] \in Event /\ events[i] \in Event /\ events[j] \in Event
      BY <1>1
    <2>2. EventLess(events[h], events[i]) /\ EventLess(events[i], events[j])
             => EventLess(events[h], events[j])
      BY <2>1, EventOrder
    <2> QED
      BY <1>4, <2>2 DEF GoesBefore
  <1>5. ASSUME NEW j \in D
        PROVE  /\ IsFiniteSet(Before(j)) /\ Rank(events, j) = Cardinality(Before(j))
               /\ j \in Before(j) /\ Rank(events, j) \in D
    <2>1. Before(j) \in SUBSET D /\ j \in Before(j)
      BY <1>1 DEF GoesBefore
    <2>2. IsFiniteSet(Before(j)) /\ Cardinality(Before(j)) <= Len(events)
      BY <1>2, <2>1, FS_Subset
    <2>3. Cardinality(Before(j)) \in Nat /\ Cardinality(Before(j)) # 0
      BY <2>1, <2>2, FS_CardinalityType, FS_EmptySet
    <2>4. Rank(events, j) = Cardinality(Before(j))
      BY <1>1 DEF Rank
    <2> QED
      BY <1>1, <2>1, <2>2, <2>3, <2>4
  <1>6. ASSUME NEW i \in D, NEW j \in D, i # j, GoesBefore(events, i, j)
        PROVE  Rank(events, i) < Rank(events, j)
    <2>1. ~GoesBefore(events, j, i)
      BY <1>3, <1>6
    <2>2. Before(i) \subseteq Before(j) /\ j \notin Before(i)
      BY <1>4, <1>6, <2>1
    <2>3. Before(i) \in SUBSET Before(j) /\ Before(i) # Before(j)
      BY <1>5, <2>2
    <2>4. Cardinality(Before(i)) <= Cardinality(Before(j)) /\ Cardinality(Before(i)) # Cardinality(Before(j))
      BY <1>5, <2>3, FS_Subset
    <2> HIDE DEF Before
    <2>5. Rank(events, i) \in D /\ Rank(events, j) \in D
      BY <1>5
    <2>6. Rank(events, i) = Cardinality(Before(i)) /\ Rank(events, j) = Cardinality(Before(j))
      BY <1>5
    <2> QED
      BY <2>4, <2>5, <2>6
  <1>7. place \in [D -> D] /\ \A i, j \in D : place[i] = place[j] => i = j
    <2>1. place \in [D -> D]
      BY <1>5
    <2>2. ASSUME NEW i \in D, NEW j \in D, i # j PROVE place[i] # place[j]
      <3>1. Rank(events, i) < Rank(events, j) \/ Rank(events, j) < Rank(events, i)
        BY <1>3, <1>6, <2>2
      <3>2. Rank(events, i) \in D /\ Rank(events, j) \in D
        BY <1>5
      <3> QED
        BY <3>1, <3>2
    <2> QED
      BY <2>1, <2>2
  <1>8. \A k \in D : \E j \in D : place[j] = k
    <2>1. place \in Injection(D, D)
      BY <1>7 DEF Injection, IsInjective
    <2>2. place \in Surjection(D, D)
      BY <1>2, <2>1, FS_Injection
    <2> QED
      BY <2>2 DEF Surjection
  <1>9. ASSUME NEW j \in D PROVE Sorted(events)[place[j]] = events[j]
    <2>1. place[j] \in D /\ place[j] = Rank(events, j)
      BY <1>7
    <2>2. \A i \in D : Rank(events, i) = place[j] => i = j
      BY <1>7, <2>1
    <2>3. (CHOOSE i \in DOMAIN events : Rank(events, i) = place[j]) = j
      BY <1>1, <2>1, <2>2
    <2> QED
      BY <1>1, <2>1, <2>3 DEF Sorted
  <1>10. Sorted(events) \in Seq(Event) /\ Len(Sorted(events)) = Len(events) /\ DOMAIN Sorted(events) = D
    <2>1. DOMAIN Sorted(events) = D /\ Sorted(events) = [k \in D |-> Sorted(events)[k]]
      BY <1>1 DEF Sorted
    <2>2. \A k \in D : Sorted(events)[k] \in Event
      BY <1>1, <1>8, <1>9
    <2> HIDE DEF place
    <2> QED
      BY <1>1, <2>1, <2>2
  <1>11. InOrder(Sorted(events))
    <2> SUFFICES ASSUME NEW p \in D, NEW q \in D, p < q,
                        EventLess(Sorted(events)[q], Sorted(events)[p])
                 PROVE  FALSE
      BY <1>10 DEF InOrder
    <2>1. PICK i \in D, j \in D : place[i] = p /\ place[j] = q
      BY <1>8
    <2>2. EventLess(events[j], events[i])
      BY <1>9, <2>1
    <2>3. GoesBefore(events, j, i) /\ i # j
      BY <2>1, <2>2 DEF GoesBefore
    <2>4. place[j] < place[i]
      BY <1>6, <2>3
    <2> QED
      BY <1>1, <2>1, <2>4
  <1> HIDE DEF place
  <1>12. Rearranged(Len(events), events, Sorted(events), place)
    BY <1>1, <1>7, <1>8, <1>9 DEF Rearranged
  <1> QED
    BY <1>10, <1>11, <1>12

\* A run over sequences, each appended to those before it.
LEMMA AppendRun ==
    ASSUME NEW n \in Nat, NEW ss
    PROVE  \E flat : flat = [i \in 1 .. n |-> IF i = 1 THEN ss[i] ELSE flat[i - 1] \o ss[i]]
  <1> DEFINE Runs(f, k) == f = [i \in 1 .. k |-> IF i = 1 THEN ss[i] ELSE f[i - 1] \o ss[i]]
             T == {k \in 0 .. n : \E f : Runs(f, k)}
  <1>2. 0 \in T
    <2>1. PICK f : f = [i \in 1 .. 0 |-> <<>>]
      OBVIOUS
    <2>2. Runs(f, 0) /\ 0 \in 0 .. n
      BY <2>1
    <2> QED
      BY <2>2
  <1>3. ASSUME NEW k \in 0 .. n - 1, k \in T PROVE k + 1 \in T
    <2>1. PICK f : Runs(f, k)
      BY <1>3
    <2> DEFINE next == IF k = 0 THEN ss[1] ELSE f[k] \o ss[k + 1]
               g == [i \in 1 .. k + 1 |-> IF i = k + 1 THEN next ELSE f[i]]
    <2>4. ASSUME NEW i \in 1 .. k + 1 PROVE g[i] = IF i = 1 THEN ss[i] ELSE g[i - 1] \o ss[i]
      <3>1. CASE i = k + 1
        <4>1. g[i] = next /\ (i # 1 => g[i - 1] = f[k])
          BY <3>1
        <4> QED
          BY <3>1, <4>1 DEF next
      <3>2. CASE i # k + 1
        <4>1. i \in 1 .. k /\ g[i] = f[i] /\ (i # 1 => g[i - 1] = f[i - 1])
          BY <3>2
        <4>2. f[i] = IF i = 1 THEN ss[i] ELSE f[i - 1] \o ss[i]
          BY <2>1, <4>1
        <4> QED
          BY <4>1, <4>2
      <3> QED
        BY <3>1, <3>2
    <2>5. g = [i \in 1 .. k + 1 |-> g[i]]
      OBVIOUS
    <2> HIDE DEF g
    <2>6. [i \in 1 .. k + 1 |-> g[i]] =
             [i \in 1 .. k + 1 |-> IF i = 1 THEN ss[i] ELSE g[i - 1] \o ss[i]]
      BY <2>4, Zenon
    <2>7. Runs(g, k + 1)
      BY <2>5, <2>6, Zenon
    <2>8. k + 1 \in 0 .. n
      OBVIOUS
    <2> QED
      BY <2>7, <2>8
  <1>4. n \in T
    <2> HIDE DEF T
    <2>1. 0 .. n \subseteq T
      BY <1>2, <1>3, UpToN
    <2> QED
      BY <2>1
  <1> QED
    BY <1>4

\* Sequences are put together one after the other.
LEMMA FlattenRun ==
    ASSUME NEW E, NEW n \in Nat, NEW ss \in [1 .. n -> Seq(E)]
    PROVE  \E upTo \in [0 .. n -> Seq(E)] :
              /\ upTo[0] = <<>>
              /\ \A k \in 0 .. n - 1 : upTo[k + 1] = upTo[k] \o ss[k + 1]
              /\ FlattenSeq(ss) = upTo[n]
  <1>1. Len(ss) = n /\ ss \in Seq(Seq(E))
    OBVIOUS
  <1>2. CASE n = 0
    <2>1. ss = <<>>
      BY <1>1, <1>2
    <2>2. FlattenSeq(ss) = <<>>
      BY <1>1, <1>2, <2>1 DEF FlattenSeq
    <2>3. PICK upTo : upTo = [k \in 0 .. n |-> <<>>]
      OBVIOUS
    <2>4. upTo \in [0 .. n -> Seq(E)] /\ upTo[0] = <<>> /\ upTo[n] = <<>>
      BY <1>2, <2>3
    <2>5. 0 .. n - 1 = {}
      BY <1>2
    <2> QED
      BY <2>2, <2>4, <2>5
  <1>3. CASE n # 0
    <2> DEFINE Means(h) == h = [i \in 1 .. Len(ss) |-> IF i = 1 THEN ss[i] ELSE h[i - 1] \o ss[i]]
               flat == CHOOSE h : Means(h)
    <2>0. PICK f :
             f = [i \in 1 .. n |-> IF i = 1 THEN ss[i] ELSE f[i - 1] \o ss[i]]
      BY AppendRun
    <2>00. Means(f)
      BY <1>1, <2>0
    <2>1. Means(flat)
      BY <2>00
    <2>2. FlattenSeq(ss) = flat[n]
      BY <1>1, <1>3 DEF FlattenSeq
    <2>3. \A i \in 1 .. n : flat[i] = IF i = 1 THEN ss[i] ELSE flat[i - 1] \o ss[i]
      BY <1>1, <2>1
    <2> HIDE DEF flat
    <2> DEFINE upTo == [k \in 0 .. n |-> IF k = 0 THEN <<>> ELSE flat[k]]
               U == {k \in 0 .. n : upTo[k] \in Seq(E)}
    <2>4. upTo[0] = <<>> /\ upTo[n] = flat[n] /\ DOMAIN upTo = 0 .. n
      BY <1>3
    <2>5. 0 \in U
      BY <2>4
    <2>6. ASSUME NEW k \in 0 .. n - 1, upTo[k] \in Seq(E)
          PROVE  upTo[k + 1] \in Seq(E) /\ upTo[k + 1] = upTo[k] \o ss[k + 1]
      <3>1. k + 1 \in 1 .. n /\ ss[k + 1] \in Seq(E)
        OBVIOUS
      <3>2. upTo[k + 1] = flat[k + 1]
        BY <3>1
      <3>3. k = 0 => upTo[k] = <<>> /\ flat[k + 1] = ss[k + 1]
        BY <2>3, <3>1
      <3>4. ASSUME k # 0 PROVE upTo[k] = flat[k] /\ flat[k + 1] = flat[k] \o ss[k + 1]
        <4>1. k + 1 # 1 /\ k + 1 - 1 = k
          BY <3>4
        <4>2. flat[k + 1] = IF k + 1 = 1 THEN ss[k + 1] ELSE flat[k + 1 - 1] \o ss[k + 1]
          BY <2>3, <3>1
        <4>3. upTo[k] = flat[k]
          BY <3>4
        <4>4. flat[k + 1] = flat[k] \o ss[k + 1]
          BY <4>1, <4>2
        <4> QED
          BY <4>3, <4>4
      <3> HIDE DEF upTo
      <3>5. upTo[k + 1] = upTo[k] \o ss[k + 1]
        BY <3>1, <3>2, <3>3, <3>4, ConcatEmptySeq
      <3> QED
        BY <2>6, <3>1, <3>5, ConcatProperties
    <2> HIDE DEF upTo
    <2>7. ASSUME NEW k \in 0 .. n - 1, k \in U PROVE k + 1 \in U
      <3>1. upTo[k] \in Seq(E) /\ k + 1 \in 0 .. n
        BY <2>7
      <3> QED
        BY <2>6, <3>1
    <2>8. 0 .. n \subseteq U
      <3> HIDE DEF U
      <3> QED
        BY <2>5, <2>7, UpToN
    <2>9. \A k \in 0 .. n : upTo[k] \in Seq(E)
      BY <2>8
    <2>10. upTo \in [0 .. n -> Seq(E)]
      BY <2>4, <2>9 DEF upTo
    <2>11. \A k \in 0 .. n - 1 : upTo[k + 1] = upTo[k] \o ss[k + 1]
      <3> SUFFICES ASSUME NEW k \in 0 .. n - 1 PROVE upTo[k + 1] = upTo[k] \o ss[k + 1]
        OBVIOUS
      <3>1. k \in 0 .. n
        OBVIOUS
      <3> QED
        BY <2>6, <2>9, <3>1
    <2> QED
      BY <2>2, <2>4, <2>10, <2>11
  <1> QED
    BY <1>2, <1>3

\* Where the parts of something begin that is put together from n parts.
Together(n, upTo, ss, offset) ==
    /\ \A k \in 0 .. n : Len(upTo[k]) \in Nat
    /\ \A i \in 1 .. n : Len(ss[i]) \in Nat
    /\ offset \in [1 .. n -> Nat]
    /\ Len(upTo[0]) = 0
    /\ \A k \in 0 .. n - 1 :
          /\ offset[k + 1] = Len(upTo[k])
          /\ Len(upTo[k + 1]) = Len(upTo[k]) + Len(ss[k + 1])
          /\ \A p \in 1 .. Len(upTo[k]) : upTo[k + 1][p] = upTo[k][p]
          /\ \A j \in 1 .. Len(ss[k + 1]) : upTo[k + 1][Len(upTo[k]) + j] = ss[k + 1][j]

\* Each element of each part has a place in all, which it shares with no other.
Placed(n, ss, all, offset) ==
    /\ \A i \in 1 .. n : \A j \in 1 .. Len(ss[i]) :
          offset[i] + j \in 1 .. Len(all) /\ all[offset[i] + j] = ss[i][j]
    /\ \A p \in 1 .. Len(all) : \E i \in 1 .. n : \E j \in 1 .. Len(ss[i]) : p = offset[i] + j
    /\ \A i, h \in 1 .. n : \A j \in 1 .. Len(ss[i]), l \in 1 .. Len(ss[h]) :
          offset[i] + j = offset[h] + l => i = h /\ j = l

LEMMA Offsets ==
    ASSUME NEW n \in Nat, NEW upTo, NEW ss, NEW offset, Together(n, upTo, ss, offset)
    PROVE  Placed(n, ss, upTo[n], offset)
  <1> DEFINE L == [k \in 0 .. n |-> Len(upTo[k])]
             M == [i \in 1 .. n |-> Len(ss[i])]
  <1>0. L \in [0 .. n -> Nat] /\ M \in [1 .. n -> Nat] /\ offset \in [1 .. n -> Nat]
    BY DEF Together
  <1>4. \A k \in 0 .. n : L[k] = Len(upTo[k])
    OBVIOUS
  <1>5. \A i \in 1 .. n : M[i] = Len(ss[i])
    OBVIOUS
  <1> HIDE DEF L, M
  <1>6. \A k \in 0 .. n - 1 :
           L[k] = Len(upTo[k]) /\ L[k + 1] = Len(upTo[k + 1]) /\ M[k + 1] = Len(ss[k + 1])
    <2> SUFFICES ASSUME NEW k \in 0 .. n - 1
                 PROVE  /\ L[k] = Len(upTo[k]) /\ L[k + 1] = Len(upTo[k + 1])
                        /\ M[k + 1] = Len(ss[k + 1])
      OBVIOUS
    <2>1. k \in 0 .. n /\ k + 1 \in 0 .. n /\ k + 1 \in 1 .. n
      OBVIOUS
    <2> QED
      BY <1>4, <1>5, <2>1
  <1>7. L[0] = 0
    BY <1>4 DEF Together
  <1>1. L[0] = 0 /\ \A k \in 0 .. n - 1 : offset[k + 1] = L[k] /\ L[k + 1] = L[k] + M[k + 1]
    BY <1>6, <1>7 DEF Together
  <1>2. \A k \in 0 .. n - 1 : \A p \in 1 .. L[k] : upTo[k + 1][p] = upTo[k][p]
    BY <1>6 DEF Together
  <1>3. \A k \in 0 .. n - 1 : \A j \in 1 .. M[k + 1] : upTo[k + 1][L[k] + j] = ss[k + 1][j]
    <2> SUFFICES ASSUME NEW k \in 0 .. n - 1, NEW j \in 1 .. M[k + 1]
                 PROVE  upTo[k + 1][L[k] + j] = ss[k + 1][j]
      OBVIOUS
    <2>1. j \in 1 .. Len(ss[k + 1]) /\ L[k] = Len(upTo[k])
      BY <1>6
    <2>2. upTo[k + 1][Len(upTo[k]) + j] = ss[k + 1][j]
      BY <2>1 DEF Together
    <2> QED
      BY <2>1, <2>2
  <1> DEFINE There(k) ==
                \A i \in 1 .. k : \A j \in 1 .. M[i] :
                      offset[i] + j <= L[k] /\ upTo[k][offset[i] + j] = ss[i][j]
             Every(k) ==
                \A p \in 1 .. L[k] : \E i \in 1 .. k : \E j \in 1 .. M[i] : p = offset[i] + j
             Single(k) ==
                \A i, h \in 1 .. k : \A j \in 1 .. M[i], l \in 1 .. M[h] :
                      offset[i] + j = offset[h] + l => i = h /\ j = l
             T == {k \in 0 .. n : There(k) /\ Every(k) /\ Single(k)}
  <1>8. 0 \in T
    BY <1>1
  <1>9. ASSUME NEW k \in 0 .. n - 1, k \in T PROVE k + 1 \in T
    <2>1. There(k) /\ Every(k) /\ Single(k)
      BY <1>9
    <2>10. k + 1 \in 1 .. n /\ k + 1 \in 0 .. n /\ k \in 0 .. n /\ k \in Nat
      OBVIOUS
    <2>11. offset[k + 1] = L[k] /\ L[k] \in Nat /\ M[k + 1] \in Nat
      BY <1>0, <1>1, <2>10
    <2>12. L[k + 1] = L[k] + M[k + 1]
      BY <1>1
    <2>3. \A i \in 1 .. k + 1 : offset[i] \in Nat /\ M[i] \in Nat /\ (i = k + 1 \/ i \in 1 .. k)
      BY <1>0
    <2>4. There(k + 1)
      <3> SUFFICES ASSUME NEW i \in 1 .. k + 1, NEW j \in 1 .. M[i]
                   PROVE  offset[i] + j <= L[k + 1] /\ upTo[k + 1][offset[i] + j] = ss[i][j]
        OBVIOUS
      <3>1. CASE i = k + 1
        <4>1. upTo[k + 1][L[k] + j] = ss[k + 1][j]
          BY <1>3, <3>1
        <4> QED
          BY <2>11, <2>12, <3>1, <4>1
      <3>2. CASE i \in 1 .. k
        <4>1. offset[i] + j <= L[k] /\ upTo[k][offset[i] + j] = ss[i][j]
          BY <2>1, <3>2
        <4>2. offset[i] + j \in 1 .. L[k]
          <5>1. PICK o \in Nat, m \in Nat, l \in Nat : o = offset[i] /\ m = M[i] /\ l = L[k]
            BY <2>11, <2>3
          <5>2. j \in 1 .. m /\ o + j <= l
            BY <4>1, <5>1
          <5>3. o + j \in 1 .. l
            BY <5>2
          <5> QED
            BY <5>1, <5>3
        <4>3. upTo[k + 1][offset[i] + j] = upTo[k][offset[i] + j]
          BY <1>2, <4>2
        <4> QED
          BY <2>11, <2>12, <2>3, <4>1, <4>3
      <3> QED
        BY <2>3, <3>1, <3>2
    <2>5. Every(k + 1)
      <3> SUFFICES ASSUME NEW p \in 1 .. L[k + 1]
                   PROVE  \E i \in 1 .. k + 1 : \E j \in 1 .. M[i] : p = offset[i] + j
        OBVIOUS
      <3>1. CASE p <= L[k]
        <4>1. PICK i \in 1 .. k : \E j \in 1 .. M[i] : p = offset[i] + j
          BY <2>1, <2>11, <3>1
        <4>2. i \in 1 .. k + 1
          OBVIOUS
        <4> QED
          BY <4>1, <4>2
      <3>2. CASE p > L[k]
        <4>1. p - L[k] \in 1 .. M[k + 1] /\ p = offset[k + 1] + (p - L[k])
          BY <2>11, <2>12, <3>2
        <4>2. k + 1 \in 1 .. k + 1
          OBVIOUS
        <4> QED
          BY <4>1, <4>2
      <3> QED
        BY <2>11, <2>12, <3>1, <3>2
    <2>6. Single(k + 1)
      <3> SUFFICES ASSUME NEW i \in 1 .. k + 1, NEW h \in 1 .. k + 1,
                          NEW j \in 1 .. M[i], NEW l \in 1 .. M[h],
                          offset[i] + j = offset[h] + l
                   PROVE  i = h /\ j = l
        OBVIOUS
      <3>1. i \in 1 .. k => offset[i] + j <= L[k]
        BY <2>1
      <3>2. h \in 1 .. k => offset[h] + l <= L[k]
        BY <2>1
      <3>3. /\ offset[i] \in Nat /\ offset[h] \in Nat
            /\ j \in Nat /\ j >= 1 /\ l \in Nat /\ l >= 1
        BY <2>3
      <3>8. PICK o \in Nat, b \in Nat, a \in Nat : o = offset[i] /\ b = offset[h] /\ a = L[k]
        BY <2>11, <3>3
      <3>9. o + j = b + l /\ j \in Nat /\ l \in Nat /\ j >= 1 /\ l >= 1
        BY <3>3, <3>8
      <3>4. CASE i = k + 1 /\ h = k + 1
        <4>1. o = b
          BY <3>4, <3>8
        <4> QED
          BY <3>4, <3>9, <4>1
      <3>5. CASE i \in 1 .. k /\ h \in 1 .. k
        <4>1. Single(k)
          BY <2>1
        <4> QED
          BY <3>5, <4>1
      <3>6. CASE i = k + 1 /\ h \in 1 .. k
        <4>1. o = a /\ b + l <= a
          BY <2>11, <3>2, <3>6, <3>8
        <4> QED
          BY <3>9, <4>1
      <3>7. CASE i \in 1 .. k /\ h = k + 1
        <4>1. b = a /\ o + j <= a
          BY <2>11, <3>1, <3>7, <3>8
        <4> QED
          BY <3>9, <4>1
      <3> QED
        BY <2>3, <3>4, <3>5, <3>6, <3>7
    <2> QED
      BY <2>10, <2>4, <2>5, <2>6
  <1>10. There(n) /\ Every(n) /\ Single(n)
    <2> HIDE DEF There, Every, Single
    <2>1. 0 .. n \subseteq T
      <3> HIDE DEF T
      <3> QED
        BY <1>8, <1>9, UpToN
    <2> QED
      BY <2>1
  <1>11. ASSUME NEW i \in 1 .. n, NEW j \in 1 .. M[i]
         PROVE  offset[i] + j \in 1 .. L[n]
    <2>1. offset[i] + j <= L[n] /\ n \in 0 .. n
      BY <1>10
    <2>2. PICK o \in Nat, m \in Nat, l \in Nat : o = offset[i] /\ m = M[i] /\ l = L[n]
      BY <1>0, <2>1
    <2>3. j \in 1 .. m /\ o + j <= l
      BY <2>1, <2>2
    <2>4. o + j \in 1 .. l
      BY <2>3
    <2> QED
      BY <2>2, <2>4
  <1>12. n \in 0 .. n /\ Every(n) /\ Single(n)
    BY <1>10
  <1>13. \A i \in 1 .. n : \A j \in 1 .. M[i] : upTo[n][offset[i] + j] = ss[i][j]
    BY <1>10
  <1>14. L[n] = Len(upTo[n])
    BY <1>4, <1>12
  <1> HIDE DEF There
  <1> QED
    <2>1. \A i \in 1 .. n : \A j \in 1 .. Len(ss[i]) :
             offset[i] + j \in 1 .. Len(upTo[n]) /\ upTo[n][offset[i] + j] = ss[i][j]
      BY <1>5, <1>11, <1>13, <1>14
    <2>2. \A p \in 1 .. Len(upTo[n]) : \E i \in 1 .. n : \E j \in 1 .. Len(ss[i]) : p = offset[i] + j
      <3> SUFFICES ASSUME NEW p \in 1 .. Len(upTo[n])
                   PROVE  \E i \in 1 .. n : \E j \in 1 .. Len(ss[i]) : p = offset[i] + j
        OBVIOUS
      <3>1. PICK i \in 1 .. n : \E j \in 1 .. M[i] : p = offset[i] + j
        BY <1>12, <1>14
      <3> QED
        BY <1>5, <3>1
    <2>3. \A i, h \in 1 .. n : \A j \in 1 .. Len(ss[i]), l \in 1 .. Len(ss[h]) :
             offset[i] + j = offset[h] + l => i = h /\ j = l
      BY <1>5, <1>12
    <2> QED
      BY <2>1, <2>2, <2>3 DEF Placed

\* Every element of a sequence has a place among all of them, after its offset.
LEMMA FlattenPlaces ==
    ASSUME NEW E, NEW n \in Nat, NEW ss \in [1 .. n -> Seq(E)]
    PROVE  /\ FlattenSeq(ss) \in Seq(E)
           /\ \E offset \in [1 .. n -> Nat] : Placed(n, ss, FlattenSeq(ss), offset)
  <1>1. PICK upTo \in [0 .. n -> Seq(E)] :
           /\ upTo[0] = <<>>
           /\ \A k \in 0 .. n - 1 : upTo[k + 1] = upTo[k] \o ss[k + 1]
           /\ FlattenSeq(ss) = upTo[n]
    BY FlattenRun
  <1> DEFINE offset == [i \in 1 .. n |-> Len(upTo[i - 1])]
  <1>2. \A k \in 0 .. n : Len(upTo[k]) \in Nat
    OBVIOUS
  <1>3. \A i \in 1 .. n : Len(ss[i]) \in Nat
    OBVIOUS
  <1>4. offset \in [1 .. n -> Nat]
    BY <1>2
  <1>5. \A k \in 0 .. n - 1 : k + 1 \in 1 .. n /\ offset[k + 1] = Len(upTo[k])
    OBVIOUS
  <1>6. ASSUME NEW k \in 0 .. n - 1
        PROVE  /\ Len(upTo[k + 1]) = Len(upTo[k]) + Len(ss[k + 1])
               /\ \A p \in 1 .. Len(upTo[k]) : upTo[k + 1][p] = upTo[k][p]
               /\ \A j \in 1 .. Len(ss[k + 1]) : upTo[k + 1][Len(upTo[k]) + j] = ss[k + 1][j]
    <2>1. k \in 0 .. n /\ k + 1 \in 0 .. n /\ k + 1 \in 1 .. n
      OBVIOUS
    <2>2. PICK a \in Seq(E), b \in Seq(E) : a = upTo[k] /\ b = ss[k + 1]
      BY <2>1
    <2>3. upTo[k + 1] = a \o b
      BY <1>1, <2>2
    <2>5. Len(a) \in Nat /\ Len(b) \in Nat
      OBVIOUS
    <2>6. /\ Len(a \o b) = Len(a) + Len(b)
          /\ \A i \in 1 .. Len(a) + Len(b) : (a \o b)[i] = IF i <= Len(a) THEN a[i] ELSE b[i - Len(a)]
      BY ConcatProperties
    <2>7. \A j \in 1 .. Len(b) : (a \o b)[Len(a) + j] = b[j]
      <3> SUFFICES ASSUME NEW j \in 1 .. Len(b) PROVE (a \o b)[Len(a) + j] = b[j]
        OBVIOUS
      <3>1. Len(a) + j \in 1 .. Len(a) + Len(b) /\ ~(Len(a) + j <= Len(a)) /\ Len(a) + j - Len(a) = j
        BY <2>5
      <3> QED
        BY <2>6, <3>1
    <2>8. \A i \in 1 .. Len(a) : (a \o b)[i] = a[i]
      BY <2>5, <2>6
    <2> QED
      BY <2>2, <2>3, <2>6, <2>7, <2>8
  <1> HIDE DEF offset
  <1>7. Together(n, upTo, ss, offset)
    <2>1. Len(upTo[0]) = 0
      BY <1>1
    <2> QED
      BY <1>2, <1>3, <1>4, <1>5, <1>6, <2>1 DEF Together
  <1>8. Placed(n, ss, upTo[n], offset)
    BY <1>7, Offsets
  <1>9. upTo[n] \in Seq(E)
    OBVIOUS
  <1> QED
    BY <1>1, <1>4, <1>8, <1>9

\* What is left of it when the whole is sorted: at says where each element is.
Arranged(n, ss, all, at) ==
    /\ all \in Seq(Event) /\ InOrder(all)
    /\ \A i \in 1 .. n : \A j \in 1 .. Len(ss[i]) :
          at[i][j] \in 1 .. Len(all) /\ all[at[i][j]] = ss[i][j]
    /\ \A p \in 1 .. Len(all) : \E i \in 1 .. n : \E j \in 1 .. Len(ss[i]) : p = at[i][j]
    /\ \A i, h \in 1 .. n : \A j \in 1 .. Len(ss[i]), l \in 1 .. Len(ss[h]) :
          at[i][j] = at[h][l] => i = h /\ j = l

\* Sorting puts every element somewhere, and nothing else anywhere.
LEMMA SortedIsArranged ==
    ASSUME NEW n \in Nat, NEW ss \in [1 .. n -> Seq(Event)]
    PROVE  \E at : Arranged(n, ss, Sorted(FlattenSeq(ss)), at)
  <1>1. PICK flat \in Seq(Event) : flat = FlattenSeq(ss)
    BY FlattenPlaces
  <1>2. PICK offset \in [1 .. n -> Nat] : Placed(n, ss, flat, offset)
    BY <1>1, FlattenPlaces
  <1>3. PICK all : all = Sorted(flat)
    OBVIOUS
  <1>5. all \in Seq(Event) /\ Len(all) = Len(flat) /\ InOrder(all)
    BY <1>3, SortedIsOrder
  <1>11. PICK place : Rearranged(Len(flat), flat, all, place)
    BY <1>3, SortedIsOrder
  <1>4. /\ place \in [1 .. Len(flat) -> 1 .. Len(flat)]
        /\ \A i, j \in 1 .. Len(flat) : place[i] = place[j] => i = j
        /\ \A k \in 1 .. Len(flat) : \E j \in 1 .. Len(flat) : place[j] = k
        /\ \A j \in 1 .. Len(flat) : all[place[j]] = flat[j]
    BY <1>11 DEF Rearranged
  <1> DEFINE at == [i \in 1 .. n |-> [j \in 1 .. Len(ss[i]) |-> place[offset[i] + j]]]
  <1>6. \A i \in 1 .. n : \A j \in 1 .. Len(ss[i]) : at[i][j] = place[offset[i] + j]
    OBVIOUS
  <1> HIDE DEF at
  <1>7. \A i \in 1 .. n : \A j \in 1 .. Len(ss[i]) :
           at[i][j] \in 1 .. Len(all) /\ all[at[i][j]] = ss[i][j]
    <2> SUFFICES ASSUME NEW i \in 1 .. n, NEW j \in 1 .. Len(ss[i])
                 PROVE  at[i][j] \in 1 .. Len(all) /\ all[at[i][j]] = ss[i][j]
      OBVIOUS
    <2>1. PICK p \in 1 .. Len(flat) : p = offset[i] + j /\ flat[p] = ss[i][j]
      BY <1>2 DEF Placed
    <2>2. place[p] \in 1 .. Len(flat) /\ all[place[p]] = flat[p]
      BY <1>4
    <2>3. at[i][j] = place[p]
      BY <1>6, <2>1
    <2> QED
      BY <1>5, <2>1, <2>2, <2>3
  <1>8. \A p \in 1 .. Len(all) : \E i \in 1 .. n : \E j \in 1 .. Len(ss[i]) : p = at[i][j]
    <2> SUFFICES ASSUME NEW p \in 1 .. Len(all)
                 PROVE  \E i \in 1 .. n : \E j \in 1 .. Len(ss[i]) : p = at[i][j]
      OBVIOUS
    <2>1. PICK q \in 1 .. Len(flat) : place[q] = p
      BY <1>4, <1>5
    <2>2. PICK i \in 1 .. n : \E j \in 1 .. Len(ss[i]) : q = offset[i] + j
      BY <1>2 DEF Placed
    <2> QED
      BY <1>6, <2>1, <2>2
  <1>9. \A i, h \in 1 .. n : \A j \in 1 .. Len(ss[i]), l \in 1 .. Len(ss[h]) :
           at[i][j] = at[h][l] => i = h /\ j = l
    <2> SUFFICES ASSUME NEW i \in 1 .. n, NEW h \in 1 .. n,
                        NEW j \in 1 .. Len(ss[i]), NEW l \in 1 .. Len(ss[h]), at[i][j] = at[h][l]
                 PROVE  i = h /\ j = l
      OBVIOUS
    <2>1. PICK p \in 1 .. Len(flat), q \in 1 .. Len(flat) : p = offset[i] + j /\ q = offset[h] + l
      BY <1>2 DEF Placed
    <2>3. at[i][j] = place[p] /\ at[h][l] = place[q]
      BY <1>6, <2>1
    <2>2. offset[i] + j = offset[h] + l
      BY <1>4, <2>1, <2>3
    <2> QED
      <3>1. \A o \in 1 .. n : \A y \in 1 .. Len(ss[i]), z \in 1 .. Len(ss[o]) :
               offset[i] + y = offset[o] + z => i = o /\ y = z
        BY <1>2 DEF Placed
      <3>2. \A y \in 1 .. Len(ss[i]), z \in 1 .. Len(ss[h]) :
               offset[i] + y = offset[h] + z => i = h /\ y = z
        BY <3>1
      <3> QED
        BY <2>2, <3>2
  <1>10. Arranged(n, ss, all, at)
    BY <1>5, <1>7, <1>8, <1>9 DEF Arranged
  <1> QED
    BY <1>1, <1>3, <1>10
-----------------------------------------------------------------------------
(* Ranges in a row. *)

\* The bounds of a range.
LEMMA RangeMeans ==
    ASSUME NEW r \in SlotRange
    PROVE  /\ r.start \in Nat /\ r.end \in Nat /\ r.start <= r.end /\ r.end <= MAX
           /\ r = [start |-> r.start, end |-> r.end]
  BY MaxAssumption DEF SlotRange, Slot

\* A slot of some ranges lies in one of them.
LEMMA SlotsMeans ==
    ASSUME NEW rs \in Seq(SlotRange), NEW x
    PROVE  x \in SlotsOf(rs) <=> x \in Nat /\ \E i \in 1 .. Len(rs) : rs[i].start <= x /\ x <= rs[i].end
  <1>1. \A i \in 1 .. Len(rs) : rs[i].start \in Nat /\ rs[i].end \in Nat
    BY RangeMeans
  <1>2. \A i \in 1 .. Len(rs) : x \in rs[i].start .. rs[i].end <=>
           x \in Nat /\ rs[i].start <= x /\ x <= rs[i].end
    BY <1>1
  <1>3. x \in SlotsOf(rs) <=> \E i \in 1 .. Len(rs) : x \in rs[i].start .. rs[i].end
    BY DEF SlotsOf, ToSet
  <1> QED
    BY <1>2, <1>3

\* The last of some ranges, and those before it.
LEMMA LastMeans ==
    ASSUME NEW rs \in Seq(SlotRange), rs # <<>>
    PROVE  /\ Len(rs) \in Nat /\ Len(rs) >= 1 /\ Last(rs) = rs[Len(rs)] /\ Last(rs) \in SlotRange
           /\ Front(rs) \in Seq(SlotRange) /\ Len(Front(rs)) = Len(rs) - 1
           /\ \A i \in 1 .. Len(rs) - 1 : Front(rs)[i] = rs[i]
  <1>1. Len(rs) \in Nat /\ Len(rs) >= 1
    BY EmptySeq
  <1>2. Last(rs) = rs[Len(rs)] /\ Front(rs) = SubSeq(rs, 1, Len(rs) - 1)
    BY DEF Last, Front
  <1>3. PICK n \in Nat : n = Len(rs) - 1
    BY <1>1
  <1>4. \A i \in 1 .. n : rs[i] \in SlotRange
    BY <1>1, <1>3
  <1>5. /\ SubSeq(rs, 1, n) \in Seq(SlotRange)
        /\ Len(SubSeq(rs, 1, n)) = IF 1 <= n THEN n - 1 + 1 ELSE 0
        /\ \A i \in 1 .. n - 1 + 1 : SubSeq(rs, 1, n)[i] = rs[1 + i - 1]
    BY <1>4, SubSeqProperties
  <1>6. /\ SubSeq(rs, 1, n) \in Seq(SlotRange) /\ Len(SubSeq(rs, 1, n)) = n
        /\ \A i \in 1 .. n : SubSeq(rs, 1, n)[i] = rs[i]
    BY <1>5
  <1> QED
    BY <1>1, <1>2, <1>3, <1>6

\* A range is appended to the others.
LEMMA AppendedRange ==
    ASSUME NEW rs \in Seq(SlotRange), NEW r \in SlotRange
    PROVE  /\ Append(rs, r) \in Seq(SlotRange) /\ Append(rs, r) # <<>> /\ Last(Append(rs, r)) = r
           /\ SlotsOf(Append(rs, r)) = SlotsOf(rs) \cup (r.start .. r.end)
           /\ Separated(rs) /\ (rs # <<>> => Last(rs).end + 1 < r.start) => Separated(Append(rs, r))
  <1>1. PICK n \in Nat : n = Len(rs)
    OBVIOUS
  <1>2. PICK added : added = Append(rs, r)
    OBVIOUS
  <1>7. added \in Seq(SlotRange)
    BY <1>2
  <1>3. /\ Len(added) = n + 1 /\ added[n + 1] = r
        /\ \A i \in 1 .. n : added[i] = rs[i]
    BY <1>1, <1>2
  <1>4. added # <<>> /\ Last(added) = r
    BY <1>3, EmptySeq DEF Last
  <1>5. ASSUME NEW x PROVE x \in SlotsOf(added) <=> x \in SlotsOf(rs) \cup (r.start .. r.end)
    <2>1. x \in r.start .. r.end <=> x \in Nat /\ r.start <= x /\ x <= r.end
      BY RangeMeans
    <2>2. \A i \in 1 .. n + 1 : i \in 1 .. n \/ i = n + 1
      OBVIOUS
    <2>3. (\E i \in 1 .. n + 1 : added[i].start <= x /\ x <= added[i].end)
             <=> \/ \E i \in 1 .. n : rs[i].start <= x /\ x <= rs[i].end
                 \/ r.start <= x /\ x <= r.end
      BY <1>3, <2>2
    <2> QED
      BY <1>1, <1>3, <1>7, <2>1, <2>3, SlotsMeans
  <1>6. ASSUME Separated(rs), rs # <<>> => Last(rs).end + 1 < r.start
        PROVE  Separated(added)
    <2> SUFFICES ASSUME NEW i \in 1 .. n + 1 - 1 PROVE added[i].end + 1 < added[i + 1].start
      BY <1>3 DEF Separated
    <2>3. i \in 1 .. n
      OBVIOUS
    <2>1. CASE i = n
      <3>1. rs # <<>> /\ Last(rs) = rs[n]
        BY <1>1, <2>1, LastMeans, EmptySeq
      <3> QED
        BY <1>3, <1>6, <2>1, <3>1
    <2>2. CASE i # n
      <3>1. i \in 1 .. n - 1 /\ i \in 1 .. n /\ i + 1 \in 1 .. n
        BY <2>2
      <3> QED
        BY <1>1, <1>3, <1>6, <3>1 DEF Separated
    <2> QED
      BY <2>1, <2>2
  <1> QED
    BY <1>2, <1>4, <1>5, <1>6, <1>7

\* The last range gets longer.
LEMMA ExtendedRange ==
    ASSUME NEW rs \in Seq(SlotRange), rs # <<>>, NEW r \in SlotRange,
           r.start = Last(rs).start, Last(rs).end <= r.end
    PROVE  /\ Append(Front(rs), r) \in Seq(SlotRange) /\ Append(Front(rs), r) # <<>>
           /\ Last(Append(Front(rs), r)) = r
           /\ SlotsOf(Append(Front(rs), r)) = SlotsOf(rs) \cup (r.start .. r.end)
           /\ Separated(rs) => Separated(Append(Front(rs), r))
  <1>1. PICK n \in Nat : n = Len(rs) /\ n >= 1
    BY LastMeans
  <1>2. PICK front \in Seq(SlotRange) : front = Front(rs)
    BY LastMeans
  <1>3. Len(front) = n - 1 /\ \A i \in 1 .. n - 1 : front[i] = rs[i]
    BY <1>1, <1>2, LastMeans
  <1>4. Last(rs) = rs[n] /\ Last(rs) \in SlotRange
    BY <1>1, LastMeans
  <1>5. ASSUME Separated(rs) PROVE Separated(front) /\ (front # <<>> => Last(front).end + 1 < r.start)
    <2>1. Separated(front)
      <3> SUFFICES ASSUME NEW i \in 1 .. n - 1 - 1 PROVE front[i].end + 1 < front[i + 1].start
        BY <1>3 DEF Separated
      <3>1. i \in 1 .. n - 1 /\ i + 1 \in 1 .. n - 1
        OBVIOUS
      <3> QED
        BY <1>1, <1>3, <1>5, <3>1 DEF Separated
    <2>2. ASSUME front # <<>> PROVE Last(front).end + 1 < r.start
      <3>1. n - 1 >= 1 /\ Last(front) = front[n - 1]
        BY <1>3, <2>2, LastMeans
      <3>2. n - 1 \in 1 .. n - 1 /\ n - 1 + 1 = n
        BY <3>1
      <3>3. rs[n - 1].end + 1 < rs[n - 1 + 1].start
        BY <1>1, <1>5, <3>2 DEF Separated
      <3> QED
        BY <1>3, <1>4, <3>1, <3>2, <3>3
    <2> QED
      BY <2>1, <2>2
  <1>6. ASSUME NEW x PROVE x \in SlotsOf(front) \cup (r.start .. r.end) <=>
                           x \in SlotsOf(rs) \cup (r.start .. r.end)
    <2>1. x \in r.start .. r.end <=> x \in Nat /\ r.start <= x /\ x <= r.end
      BY RangeMeans
    <2>2. \A i \in 1 .. n : i \in 1 .. n - 1 \/ i = n
      OBVIOUS
    <2>3. rs[n].start <= x /\ x <= rs[n].end /\ x \in Nat => r.start <= x /\ x <= r.end
      BY <1>4, RangeMeans
    <2>4. (\E i \in 1 .. n : rs[i].start <= x /\ x <= rs[i].end)
             <=> \/ \E i \in 1 .. n - 1 : front[i].start <= x /\ x <= front[i].end
                 \/ rs[n].start <= x /\ x <= rs[n].end
      BY <1>1, <1>3, <2>2
    <2> QED
      BY <1>1, <1>3, <2>1, <2>3, <2>4, SlotsMeans
  <1>7. SlotsOf(front) \cup (r.start .. r.end) = SlotsOf(rs) \cup (r.start .. r.end)
    BY <1>6
  <1> QED
    BY <1>2, <1>5, <1>7, AppendedRange
-----------------------------------------------------------------------------
(* TimeMerge: the ranges it makes are apart and hold the same slots. *)

\* Where the start and the end of each range are among the events.
BoundsAt(rs, all, s, e) ==
    /\ all \in Seq(Event) /\ InOrder(all)
    /\ s \in [1 .. Len(rs) -> 1 .. Len(all)] /\ e \in [1 .. Len(rs) -> 1 .. Len(all)]
    /\ \A i \in 1 .. Len(rs) : all[s[i]] = Start(rs[i].start) /\ all[e[i]] = End(rs[i].end)
    /\ \A p \in 1 .. Len(all) : \E i \in 1 .. Len(rs) : p = s[i] \/ p = e[i]
    /\ \A i, h \in 1 .. Len(rs) : s[i] = s[h] => i = h
    /\ \A i, h \in 1 .. Len(rs) : e[i] = e[h] => i = h

LEMMA BoundsOfType ==
    ASSUME NEW rs \in Seq(SlotRange)
    PROVE  /\ BoundsOf(rs) \in [1 .. Len(rs) -> Seq(Event)]
           /\ \A i \in 1 .. Len(rs) : /\ Len(BoundsOf(rs)[i]) = 2
                                      /\ BoundsOf(rs)[i][1] = Start(rs[i].start)
                                      /\ BoundsOf(rs)[i][2] = End(rs[i].end)
  <1>1. DOMAIN rs = 1 .. Len(rs)
    OBVIOUS
  <1>2. \A i \in 1 .. Len(rs) : BoundsOf(rs)[i] = <<Start(rs[i].start), End(rs[i].end)>>
    BY <1>1 DEF BoundsOf
  <1>3. \A i \in 1 .. Len(rs) : Start(rs[i].start) \in Event /\ End(rs[i].end) \in Event
    BY DEF SlotRange, Start, End, Event
  <1>4. \A i \in 1 .. Len(rs) : BoundsOf(rs)[i] \in Seq(Event)
    <2> SUFFICES ASSUME NEW i \in 1 .. Len(rs) PROVE BoundsOf(rs)[i] \in Seq(Event)
      OBVIOUS
    <2>1. PICK a \in Event, b \in Event : BoundsOf(rs)[i] = <<a, b>>
      BY <1>2, <1>3
    <2>2. <<a, b>> \in Seq(Event)
      OBVIOUS
    <2> QED
      BY <2>1, <2>2
  <1> QED
    BY <1>1, <1>2, <1>4 DEF BoundsOf

LEMMA MergeEventsAre ==
    ASSUME NEW rs \in Seq(SlotRange)
    PROVE  \E s, e : BoundsAt(rs, MergeEvents(rs), s, e)
  <1>0. PICK n \in Nat : n = Len(rs)
    OBVIOUS
  <1>1. PICK ss \in [1 .. n -> Seq(Event)] : n = Len(rs) /\ ss = BoundsOf(rs)
    BY <1>0, BoundsOfType
  <1>2. \A i \in 1 .. n : /\ Len(ss[i]) = 2 /\ ss[i][1] = Start(rs[i].start)
                          /\ ss[i][2] = End(rs[i].end)
    BY <1>1, BoundsOfType
  <1>3. PICK all : all = MergeEvents(rs)
    OBVIOUS
  <1>4. PICK at : Arranged(n, ss, all, at)
    BY <1>1, <1>3, SortedIsArranged DEF MergeEvents
  <1> DEFINE s == [i \in 1 .. n |-> at[i][1]]
             e == [i \in 1 .. n |-> at[i][2]]
  <1>5. all \in Seq(Event) /\ InOrder(all)
    BY <1>4 DEF Arranged
  <1>6. ASSUME NEW i \in 1 .. n, NEW j \in {1, 2}
        PROVE  at[i][j] \in 1 .. Len(all) /\ all[at[i][j]] = ss[i][j]
    <2>1. j \in 1 .. Len(ss[i])
      BY <1>2
    <2> QED
      BY <1>4, <2>1 DEF Arranged
  <1>7. \A i \in 1 .. n : s[i] = at[i][1] /\ e[i] = at[i][2]
    OBVIOUS
  <1>8. /\ s \in [1 .. n -> 1 .. Len(all)] /\ e \in [1 .. n -> 1 .. Len(all)]
        /\ \A i \in 1 .. n : all[s[i]] = Start(rs[i].start) /\ all[e[i]] = End(rs[i].end)
    BY <1>2, <1>6
  <1> HIDE DEF s, e
  <1>9. ASSUME NEW p \in 1 .. Len(all) PROVE \E i \in 1 .. n : p = s[i] \/ p = e[i]
    <2>1. PICK i \in 1 .. n : \E j \in 1 .. Len(ss[i]) : p = at[i][j]
      BY <1>4 DEF Arranged
    <2>2. PICK j \in 1 .. 2 : p = at[i][j]
      BY <1>2, <2>1
    <2>3. j = 1 \/ j = 2
      OBVIOUS
    <2> QED
      BY <1>7, <2>2, <2>3
  <1>10. ASSUME NEW i \in 1 .. n, NEW h \in 1 .. n, NEW j \in {1, 2}, at[i][j] = at[h][j]
         PROVE  i = h
    <2>1. j \in 1 .. Len(ss[i]) /\ j \in 1 .. Len(ss[h])
      BY <1>2
    <2> QED
      BY <1>4, <1>10, <2>1 DEF Arranged
  <1>11. \A i, h \in 1 .. n : s[i] = s[h] => i = h
    BY <1>7, <1>10
  <1>12. \A i, h \in 1 .. n : e[i] = e[h] => i = h
    BY <1>7, <1>10
  <1>13. BoundsAt(rs, all, s, e)
    BY <1>1, <1>5, <1>8, <1>9, <1>11, <1>12 DEF BoundsAt
  <1> QED
    BY <1>3, <1>13

\* The events of one range, and of two.
LEMMA BoundsMean ==
    ASSUME NEW rs \in Seq(SlotRange), NEW all, NEW s, NEW e, BoundsAt(rs, all, s, e),
           NEW i \in 1 .. Len(rs)
    PROVE  /\ s[i] \in 1 .. Len(all) /\ e[i] \in 1 .. Len(all) /\ s[i] < e[i]
           /\ all[s[i]].kind = "Start" /\ all[s[i]].at = rs[i].start
           /\ all[e[i]].kind = "End" /\ all[e[i]].at = rs[i].end
  <1>1. s[i] \in 1 .. Len(all) /\ e[i] \in 1 .. Len(all)
    BY DEF BoundsAt
  <1>5. all[s[i]] = Start(rs[i].start) /\ all[e[i]] = End(rs[i].end)
    BY DEF BoundsAt
  <1>2. /\ all[s[i]].kind = "Start" /\ all[s[i]].at = rs[i].start
        /\ all[e[i]].kind = "End" /\ all[e[i]].at = rs[i].end
    BY <1>5 DEF Start, End
  <1>3. EventLess(all[s[i]], all[e[i]])
    BY <1>2, RangeMeans DEF EventLess
  <1>4. all \in Seq(Event) /\ InOrder(all) /\ DOMAIN all = 1 .. Len(all)
    BY DEF BoundsAt
  <1> QED
    BY <1>1, <1>2, <1>3, <1>4, InOrderMeans

\* TimeMerge consumes one event after the other.
LEMMA MergeRunSteps ==
    ASSUME NEW events, Len(events) \in Nat
    PROVE  /\ MergeRun(events)[0] = [open |-> 0, out |-> <<>>]
           /\ \A k \in 0 .. Len(events) - 1 :
                 MergeRun(events)[k + 1] = MergeStep(MergeRun(events)[k], events[k + 1])
  <1>0. PICK n \in Nat : n = Len(events)
    OBVIOUS
  <1>1. PICK first : n = Len(events) /\ first = [open |-> 0, out |-> <<>>]
    BY <1>0
  <1> DEFINE Runs(f, k) == f = [i \in 0 .. k |-> IF i = 0 THEN first ELSE MergeStep(f[i - 1], events[i])]
             T == {k \in 0 .. n : \E f : Runs(f, k)}
  <1>2. 0 \in T
    <2>1. PICK f : f = [i \in 0 .. 0 |-> first]
      OBVIOUS
    <2>2. \A i \in 0 .. 0 : i = 0
      OBVIOUS
    <2>3. Runs(f, 0)
      BY <2>1, <2>2
    <2>4. 0 \in 0 .. n
      OBVIOUS
    <2> QED
      BY <2>3, <2>4
  <1>3. ASSUME NEW k \in 0 .. n - 1, k \in T PROVE k + 1 \in T
    <2>1. PICK f : Runs(f, k)
      BY <1>3
    <2> DEFINE g == [i \in 0 .. k + 1 |-> IF i = k + 1 THEN MergeStep(f[k], events[k + 1]) ELSE f[i]]
    <2>4. ASSUME NEW i \in 0 .. k + 1
          PROVE  g[i] = IF i = 0 THEN first ELSE MergeStep(g[i - 1], events[i])
      <3>1. CASE i = k + 1
        <4>1. g[i] = MergeStep(f[k], events[k + 1]) /\ i # 0 /\ g[i - 1] = f[k]
          BY <3>1
        <4> QED
          BY <3>1, <4>1
      <3>2. CASE i # k + 1
        <4>1. i \in 0 .. k /\ g[i] = f[i] /\ (i # 0 => g[i - 1] = f[i - 1])
          BY <3>2
        <4>2. f[i] = IF i = 0 THEN first ELSE MergeStep(f[i - 1], events[i])
          BY <2>1, <4>1
        <4> QED
          BY <4>1, <4>2
      <3> QED
        BY <3>1, <3>2
    <2>5. g = [i \in 0 .. k + 1 |-> g[i]]
      OBVIOUS
    <2> HIDE DEF g
    <2>6. [i \in 0 .. k + 1 |-> g[i]] =
             [i \in 0 .. k + 1 |-> IF i = 0 THEN first ELSE MergeStep(g[i - 1], events[i])]
      BY <2>4, Zenon
    <2>7. Runs(g, k + 1)
      BY <2>5, <2>6, Zenon
    <2>8. k + 1 \in 0 .. n
      OBVIOUS
    <2> QED
      BY <2>7, <2>8
  <1>4. n \in T
    <2> HIDE DEF T
    <2>1. 0 .. n \subseteq T
      BY <1>2, <1>3, UpToN
    <2> QED
      BY <2>1
  <1> DEFINE Means(h) ==
                h = [i \in 0 .. Len(events) |-> IF i = 0 THEN [open |-> 0, out |-> <<>>]
                                                ELSE MergeStep(h[i - 1], events[i])]
             run == CHOOSE h : Means(h)
  <1>5. PICK f : Means(f)
    BY <1>1, <1>4
  <1>6. Means(run)
    BY <1>5
  <1>7. MergeRun(events) = run
    BY DEF MergeRun
  <1> HIDE DEF run
  <1>8. 0 \in 0 .. n /\ run[0] = first
    BY <1>1, <1>6
  <1>9. ASSUME NEW k \in 0 .. n - 1 PROVE run[k + 1] = MergeStep(run[k], events[k + 1])
    <2>1. k + 1 \in 0 .. n /\ k + 1 # 0 /\ k + 1 - 1 = k
      OBVIOUS
    <2>2. run[k + 1] = IF k + 1 = 0 THEN [open |-> 0, out |-> <<>>]
                       ELSE MergeStep(run[k + 1 - 1], events[k + 1])
      BY <1>1, <1>6, <2>1
    <2> QED
      BY <2>1, <2>2
  <1> QED
    BY <1>1, <1>7, <1>8, <1>9

\* The ranges that have begun and not ended after k events.
OpenAt(rs, s, e, k) == {i \in 1 .. Len(rs) : s[i] <= k /\ k < e[i]}

LEMMA EventMeans ==
    ASSUME NEW all \in Seq(Event), NEW p \in 1 .. Len(all)
    PROVE  all[p].at \in Nat /\ all[p].at <= MAX /\ all[p].kind \in {"Start", "End"}
  <1>1. all[p] \in Event
    OBVIOUS
  <1> QED
    BY <1>1, MaxAssumption DEF Event, Slot

LEMMA BoundsNumbers ==
    ASSUME NEW rs \in Seq(SlotRange), NEW all, NEW s, NEW e, BoundsAt(rs, all, s, e)
    PROVE  /\ Len(all) \in Nat
           /\ \A h \in 1 .. Len(rs) : s[h] \in Nat /\ e[h] \in Nat /\ s[h] < e[h] /\ e[h] <= Len(all)
  <1>1. PICK n \in Nat : n = Len(all)
    BY DEF BoundsAt
  <1> SUFFICES ASSUME NEW h \in 1 .. Len(rs)
               PROVE  s[h] \in Nat /\ e[h] \in Nat /\ s[h] < e[h] /\ e[h] <= n
    BY <1>1
  <1>2. s[h] \in 1 .. n /\ e[h] \in 1 .. n /\ s[h] < e[h]
    BY <1>1, BoundsMean
  <1> QED
    BY <1>2

\* A start leaves one more range open.
LEMMA StartOpens ==
    ASSUME NEW rs \in Seq(SlotRange), NEW all, NEW s, NEW e, BoundsAt(rs, all, s, e),
           NEW k \in Nat, NEW i \in 1 .. Len(rs), s[i] = k + 1
    PROVE  /\ i \notin OpenAt(rs, s, e, k)
           /\ OpenAt(rs, s, e, k + 1) = OpenAt(rs, s, e, k) \cup {i}
  <1>1. \A h \in 1 .. Len(rs) : s[h] \in Nat /\ e[h] \in Nat /\ s[h] < e[h]
    BY BoundsNumbers
  <1>2. ASSUME NEW h \in 1 .. Len(rs), h # i PROVE s[h] # k + 1 /\ e[h] # k + 1
    <2>1. all[s[i]].kind = "Start" /\ all[e[h]].kind = "End"
      BY BoundsMean
    <2>2. s[h] # s[i]
      BY <1>2 DEF BoundsAt
    <2> QED
      BY <2>1, <2>2
  <1>3. i \notin OpenAt(rs, s, e, k)
    BY <1>1 DEF OpenAt
  <1>4. ASSUME NEW h \in 1 .. Len(rs)
        PROVE  h \in OpenAt(rs, s, e, k + 1) <=> h \in OpenAt(rs, s, e, k) \cup {i}
    <2>1. CASE h = i
      <3>1. s[i] <= k + 1 /\ k + 1 < e[i]
        BY <1>1
      <3> QED
        BY <2>1, <3>1 DEF OpenAt
    <2>2. CASE h # i
      <3>1. s[h] \in Nat /\ e[h] \in Nat /\ s[h] # k + 1 /\ e[h] # k + 1
        BY <1>1, <1>2, <2>2
      <3>2. (s[h] <= k + 1 <=> s[h] <= k) /\ (k + 1 < e[h] <=> k < e[h])
        BY <3>1
      <3> QED
        BY <2>2, <3>2 DEF OpenAt
    <2> QED
      BY <2>1, <2>2
  <1> QED
    BY <1>3, <1>4 DEF OpenAt

\* An end leaves one less open.
LEMMA EndCloses ==
    ASSUME NEW rs \in Seq(SlotRange), NEW all, NEW s, NEW e, BoundsAt(rs, all, s, e),
           NEW k \in Nat, NEW i \in 1 .. Len(rs), e[i] = k + 1
    PROVE  /\ i \in OpenAt(rs, s, e, k)
           /\ OpenAt(rs, s, e, k + 1) = OpenAt(rs, s, e, k) \ {i}
  <1>1. \A h \in 1 .. Len(rs) : s[h] \in Nat /\ e[h] \in Nat /\ s[h] < e[h]
    BY BoundsNumbers
  <1>2. ASSUME NEW h \in 1 .. Len(rs), h # i PROVE s[h] # k + 1 /\ e[h] # k + 1
    <2>1. all[e[i]].kind = "End" /\ all[s[h]].kind = "Start"
      BY BoundsMean
    <2>2. e[h] # e[i]
      BY <1>2 DEF BoundsAt
    <2> QED
      BY <2>1, <2>2
  <1>3. i \in OpenAt(rs, s, e, k)
    <2>1. s[i] <= k /\ k < e[i]
      BY <1>1
    <2> QED
      BY <2>1 DEF OpenAt
  <1>4. ASSUME NEW h \in 1 .. Len(rs)
        PROVE  h \in OpenAt(rs, s, e, k + 1) <=> h \in OpenAt(rs, s, e, k) \ {i}
    <2>1. CASE h = i
      BY <2>1 DEF OpenAt
    <2>2. CASE h # i
      <3>1. s[h] \in Nat /\ e[h] \in Nat /\ s[h] # k + 1 /\ e[h] # k + 1
        BY <1>1, <1>2, <2>2
      <3>2. (s[h] <= k + 1 <=> s[h] <= k) /\ (k + 1 < e[h] <=> k < e[h])
        BY <3>1
      <3> QED
        BY <2>2, <3>2 DEF OpenAt
    <2> QED
      BY <2>1, <2>2
  <1> QED
    BY <1>3, <1>4 DEF OpenAt

\* An open range holds what is between the last event and the next.
LEMMA OpenHolds ==
    ASSUME NEW rs \in Seq(SlotRange), NEW all, NEW s, NEW e, BoundsAt(rs, all, s, e),
           NEW k \in 0 .. Len(all) - 1, NEW i \in OpenAt(rs, s, e, k)
    PROVE  /\ i \in 1 .. Len(rs) /\ k \in 1 .. Len(all)
           /\ rs[i].start <= all[k].at /\ all[k + 1].at <= rs[i].end
  <1>1. i \in 1 .. Len(rs) /\ s[i] <= k /\ k < e[i]
    BY DEF OpenAt
  <1>2. /\ s[i] \in 1 .. Len(all) /\ e[i] \in 1 .. Len(all)
        /\ all[s[i]].at = rs[i].start /\ all[e[i]].at = rs[i].end
    BY <1>1, BoundsMean
  <1>3. all \in Seq(Event) /\ InOrder(all) /\ DOMAIN all = 1 .. Len(all)
    BY DEF BoundsAt
  <1>4. k \in 1 .. Len(all) /\ k + 1 \in 1 .. Len(all) /\ k + 1 <= e[i]
    BY <1>1, <1>2
  <1>5. all[s[i]].at <= all[k].at
    BY <1>1, <1>2, <1>3, <1>4, InOrderMeans
  <1>6. all[k + 1].at <= all[e[i]].at
    BY <1>2, <1>3, <1>4, InOrderMeans
  <1> QED
    BY <1>1, <1>2, <1>4, <1>5, <1>6

\* What TimeMerge has after k events: the ranges that have ended are in it, no
\* slot is that is not asked for, and the last range is the one being made.
MergedUpTo(rs, all, s, e, k, acc) ==
    LET opened == OpenAt(rs, s, e, k)
        last == Last(acc.out)
    IN  /\ IsFiniteSet(opened) /\ acc.open = Cardinality(opened)
        /\ acc.out \in Seq(SlotRange)
        /\ Separated(acc.out)
        /\ \A i \in 1 .. Len(rs) : e[i] <= k => rs[i].start .. rs[i].end \subseteq SlotsOf(acc.out)
        /\ SlotsOf(acc.out) \subseteq SlotsOf(rs)
        /\ opened # {} => /\ acc.out # <<>>
                          /\ last.start .. all[k].at \subseteq SlotsOf(rs)
                          /\ \A i \in opened : last.start <= rs[i].start
        /\ acc.out # <<>> => k \in 1 .. Len(all) /\ last.end <= all[k].at
        /\ acc.out # <<>> /\ opened = {} => last.end = all[k].at /\ all[k].kind = "End"

\* The slots of the last range are in.
LEMMA LastSlots ==
    ASSUME NEW rs \in Seq(SlotRange), rs # <<>>
    PROVE  Last(rs).start .. Last(rs).end \subseteq SlotsOf(rs)
  <1>1. Len(rs) \in 1 .. Len(rs) /\ Last(rs) = rs[Len(rs)] /\ Last(rs) \in SlotRange
    BY LastMeans
  <1>2. \A x \in Last(rs).start .. Last(rs).end : x \in Nat
    BY <1>1, RangeMeans
  <1> QED
    BY <1>1, <1>2, SlotsMeans

\* A start leaves what has been merged as it is, or begins a range.
LEMMA StartMerges ==
    ASSUME NEW rs \in Seq(SlotRange), NEW all, NEW s, NEW e, BoundsAt(rs, all, s, e),
           NEW k \in 0 .. Len(all) - 1, NEW acc, MergedUpTo(rs, all, s, e, k, acc),
           NEW i \in 1 .. Len(rs), s[i] = k + 1
    PROVE  MergedUpTo(rs, all, s, e, k + 1, MergeStep(acc, all[k + 1]))
  <1> DEFINE opened == OpenAt(rs, s, e, k)
             v == rs[i].start
             after == MergeStep(acc, all[k + 1])
  <1>1. k \in Nat /\ k + 1 \in 1 .. Len(all) /\ Len(all) \in Nat
    BY BoundsNumbers
  <1>2. i \notin opened /\ OpenAt(rs, s, e, k + 1) = opened \cup {i}
    BY <1>1, StartOpens
  <1>3. all[k + 1].kind = "Start" /\ all[k + 1].at = v /\ v \in Nat /\ v <= rs[i].end /\ v <= MAX
    <2>1. all[s[i]].kind = "Start" /\ all[s[i]].at = rs[i].start
      BY BoundsMean
    <2>2. rs[i] \in SlotRange
      OBVIOUS
    <2>3. v \in Nat /\ rs[i].end \in Nat /\ v <= rs[i].end /\ rs[i].end <= MAX
      BY <2>2, RangeMeans
    <2> QED
      BY <2>1, <2>3, MaxAssumption
  <1>4. IsFiniteSet(opened) /\ acc.open = Cardinality(opened) /\ acc.open \in Nat
    BY FS_CardinalityType DEF MergedUpTo
  <1>5. /\ IsFiniteSet(OpenAt(rs, s, e, k + 1))
        /\ Cardinality(OpenAt(rs, s, e, k + 1)) = acc.open + 1
    BY <1>2, <1>4, FS_AddElement
  <1>6. after.open = acc.open + 1
    BY <1>3 DEF MergeStep
  <1>7. acc.open > 0 <=> opened # {}
    BY <1>4, FS_EmptySet
  <1>8. acc.out \in Seq(SlotRange) /\ Separated(acc.out) /\ SlotsOf(acc.out) \subseteq SlotsOf(rs)
    BY DEF MergedUpTo
  <1>9. \A h \in 1 .. Len(rs) : e[h] <= k + 1 => e[h] <= k
    <2> SUFFICES ASSUME NEW h \in 1 .. Len(rs), e[h] = k + 1 PROVE FALSE
      BY <1>1, BoundsNumbers
    <2>1. all[e[h]].kind = "End"
      BY BoundsMean
    <2> QED
      BY <1>3, <2>1
  <1>10. v \in SlotsOf(rs)
    BY <1>3, SlotsMeans
  <1>11. ASSUME acc.out # <<>>
         PROVE  /\ Last(acc.out) \in SlotRange /\ k \in 1 .. Len(all)
                /\ Last(acc.out).end <= v /\ all[k].at <= v
                /\ opened = {} => Last(acc.out).end < v
    <2>1. Last(acc.out) \in SlotRange /\ Last(acc.out).end \in Nat
      BY <1>8, <1>11, LastMeans, RangeMeans
    <2>2. k \in 1 .. Len(all) /\ Last(acc.out).end <= all[k].at
      BY <1>11 DEF MergedUpTo
    <2>3. opened = {} => Last(acc.out).end = all[k].at /\ all[k].kind = "End"
      BY <1>11 DEF MergedUpTo
    <2>4. all \in Seq(Event) /\ InOrder(all) /\ DOMAIN all = 1 .. Len(all) /\ k <= k + 1 /\ k < k + 1
      BY <1>1 DEF BoundsAt
    <2>5. all[k].at <= v /\ (all[k].kind = "End" => all[k].at < v)
      BY <1>1, <1>3, <2>2, <2>4, InOrderMeans
    <2>6. all[k].at \in Nat
      BY <2>2, <2>4, EventMeans
    <2> QED
      BY <1>3, <2>1, <2>2, <2>3, <2>5, <2>6
  <1>12. CASE opened # {}
    <2>1. after.out = acc.out
      BY <1>3, <1>7, <1>12 DEF MergeStep
    <2>2. PICK h \in opened : TRUE
      BY <1>12
    <2>3. h \in 1 .. Len(rs) /\ rs[h].start <= all[k].at /\ v <= rs[h].end
      BY <1>3, <2>2, OpenHolds
    <2>4. acc.out # <<>> /\ Last(acc.out).start .. all[k].at \subseteq SlotsOf(rs)
          /\ \A j \in opened : Last(acc.out).start <= rs[j].start
      BY <1>12 DEF MergedUpTo
    <2>5. Last(acc.out).start \in Nat /\ Last(acc.out).start <= Last(acc.out).end
          /\ Last(acc.out).end \in Nat
      BY <1>11, <2>4, RangeMeans
    <2>6. k \in 1 .. Len(all) /\ all \in Seq(Event)
      BY <1>11, <2>4 DEF BoundsAt
    <2>7. all[k].at \in Nat
      BY <2>6, EventMeans
    <2>8. rs[h].start \in Nat /\ rs[h].end \in Nat
      BY <2>3, RangeMeans
    <2>9. Last(acc.out).start .. v \subseteq SlotsOf(rs)
      <3> SUFFICES ASSUME NEW x \in Last(acc.out).start .. v PROVE x \in SlotsOf(rs)
        OBVIOUS
      <3>1. x \in Nat /\ x <= v /\ Last(acc.out).start <= x
        BY <1>3, <2>5
      <3>2. CASE x <= all[k].at
        BY <2>4, <2>5, <2>7, <3>1, <3>2
      <3>3. CASE all[k].at <= x
        <4>1. rs[h].start <= x /\ x <= rs[h].end
          <5>1. PICK a \in Nat, b \in Nat, t \in Nat : a = rs[h].start /\ b = rs[h].end /\ t = all[k].at
            BY <2>7, <2>8
          <5>2. PICK c \in Nat : c = v
            BY <1>3
          <5>3. a <= t /\ c <= b
            BY <2>3, <5>1, <5>2
          <5>4. t <= x /\ x <= c /\ x \in Nat
            BY <3>1, <3>3, <5>1, <5>2
          <5>5. a <= x /\ x <= b
            BY <5>3, <5>4
          <5> QED
            BY <5>1, <5>5
        <4> QED
          BY <2>3, <3>1, <4>1, SlotsMeans
      <3> QED
        BY <2>7, <3>1, <3>2, <3>3
    <2>10. Last(acc.out).start <= rs[i].start
      BY <1>3, <1>11, <2>4, <2>5
    <2>11. \A j \in opened \cup {i} : Last(acc.out).start <= rs[j].start
      BY <2>4, <2>10
    <2>12. \A j \in 1 .. Len(rs) : e[j] <= k + 1 => rs[j].start .. rs[j].end \subseteq SlotsOf(acc.out)
      BY <1>9 DEF MergedUpTo
    <2>13. Last(after.out).start .. all[k + 1].at \subseteq SlotsOf(rs)
      BY <1>3, <2>1, <2>9
    <2>14. OpenAt(rs, s, e, k + 1) # {}
      BY <1>2
    <2>15. \A j \in OpenAt(rs, s, e, k + 1) : Last(after.out).start <= rs[j].start
      BY <1>2, <2>1, <2>11
    <2>16. k + 1 \in 1 .. Len(all) /\ Last(after.out).end <= all[k + 1].at
      BY <1>1, <1>3, <1>11, <2>1, <2>4
    <2> HIDE DEF opened, v, after
    <2>17. MergedUpTo(rs, all, s, e, k + 1, after)
      BY <1>5, <1>6, <1>8, <2>1, <2>4, <2>12, <2>13, <2>14, <2>15, <2>16 DEF MergedUpTo
    <2> QED
      BY <2>17 DEF after
  <1>13. CASE opened = {} /\ Joins(acc.out, v)
    <2>1. after.out = acc.out
      BY <1>3, <1>13 DEF MergeStep
    <2>2. acc.out # <<>> /\ v <= Last(acc.out).end + 1
      BY <1>13 DEF Joins
    <2>3. /\ Last(acc.out).start \in Nat /\ Last(acc.out).end \in Nat
          /\ Last(acc.out).start <= Last(acc.out).end /\ Last(acc.out).end < v
      BY <1>11, <1>13, <2>2, RangeMeans
    <2>4. Last(acc.out).start .. Last(acc.out).end \subseteq SlotsOf(acc.out)
      BY <1>8, <2>2, LastSlots
    <2>5. Last(acc.out).start .. v \subseteq SlotsOf(rs)
      <3> SUFFICES ASSUME NEW x \in Last(acc.out).start .. v PROVE x \in SlotsOf(rs)
        OBVIOUS
      <3>1. x = v \/ x \in Last(acc.out).start .. Last(acc.out).end
        BY <1>3, <2>2, <2>3
      <3> QED
        BY <1>8, <1>10, <2>4, <3>1
    <2>6. \A j \in opened \cup {i} : Last(acc.out).start <= rs[j].start
      BY <1>3, <1>13, <2>3
    <2>7. \A j \in 1 .. Len(rs) : e[j] <= k + 1 => rs[j].start .. rs[j].end \subseteq SlotsOf(acc.out)
      BY <1>9 DEF MergedUpTo
    <2>8. Last(after.out).start .. all[k + 1].at \subseteq SlotsOf(rs)
      BY <1>3, <2>1, <2>5
    <2>9. OpenAt(rs, s, e, k + 1) # {}
      BY <1>2
    <2>10. \A j \in OpenAt(rs, s, e, k + 1) : Last(after.out).start <= rs[j].start
      BY <1>2, <2>1, <2>6
    <2>11. k + 1 \in 1 .. Len(all) /\ Last(after.out).end <= all[k + 1].at
      BY <1>1, <1>3, <1>11, <2>1, <2>2
    <2> HIDE DEF opened, v, after
    <2>12. MergedUpTo(rs, all, s, e, k + 1, after)
      BY <1>5, <1>6, <1>8, <2>1, <2>2, <2>7, <2>8, <2>9, <2>10, <2>11 DEF MergedUpTo
    <2> QED
      BY <2>12 DEF after
  <1>14. CASE opened = {} /\ ~Joins(acc.out, v)
    <2>1. PICK r : r = [start |-> v, end |-> v]
      OBVIOUS
    <2>2. after.out = Append(acc.out, r) /\ r.start = v /\ r.end = v /\ r \in SlotRange
      <3>1. after.out = Append(acc.out, r)
        BY <1>3, <1>7, <1>14, <2>1 DEF MergeStep
      <3>2. v \in Slot
        BY <1>3, MaxAssumption DEF Slot
      <3>3. r.start = v /\ r.end = v /\ r.start <= r.end
        BY <1>3, <2>1
      <3> QED
        BY <2>1, <3>1, <3>2, <3>3 DEF SlotRange
    <2>3. acc.out # <<>> => Last(acc.out).end + 1 < v
      <3> SUFFICES ASSUME acc.out # <<>> PROVE Last(acc.out).end + 1 < v
        OBVIOUS
      <3>1. Last(acc.out).end \in Nat /\ Last(acc.out).end < v
        BY <1>11, <1>14, RangeMeans
      <3>2. Last(acc.out).end < MAX
        BY <1>3, <3>1, MaxAssumption
      <3>3. ~(v <= Last(acc.out).end + 1)
        BY <1>14, <3>2 DEF Joins
      <3> QED
        BY <1>3, <3>1, <3>3
    <2>4. /\ after.out \in Seq(SlotRange) /\ after.out # <<>> /\ Last(after.out) = r
          /\ SlotsOf(after.out) = SlotsOf(acc.out) \cup (r.start .. r.end)
          /\ Separated(after.out)
      BY <1>8, <2>2, <2>3, AppendedRange
    <2>5. \A x \in v .. v : x = v
      BY <1>3
    <2>6. SlotsOf(after.out) \subseteq SlotsOf(rs) /\ v .. v \subseteq SlotsOf(rs)
      BY <1>8, <1>10, <2>2, <2>4, <2>5
    <2>7. \A j \in opened \cup {i} : v <= rs[j].start
      BY <1>3, <1>14
    <2>8. \A j \in 1 .. Len(rs) : e[j] <= k + 1 => rs[j].start .. rs[j].end \subseteq SlotsOf(after.out)
      BY <1>9, <2>4 DEF MergedUpTo
    <2>9. /\ Last(after.out).start = v
          /\ Last(after.out).start .. all[k + 1].at \subseteq SlotsOf(rs)
      BY <1>3, <2>2, <2>4, <2>6
    <2>10. OpenAt(rs, s, e, k + 1) # {}
      BY <1>2
    <2>11. \A j \in OpenAt(rs, s, e, k + 1) : Last(after.out).start <= rs[j].start
      BY <1>2, <2>7, <2>9
    <2>12. k + 1 \in 1 .. Len(all) /\ Last(after.out).end <= all[k + 1].at
      BY <1>1, <1>3, <2>2, <2>4
    <2> HIDE DEF opened, v, after
    <2>13. MergedUpTo(rs, all, s, e, k + 1, after)
      BY <1>5, <1>6, <2>4, <2>6, <2>8, <2>9, <2>10, <2>11, <2>12 DEF MergedUpTo
    <2> QED
      BY <2>13 DEF after
  <1> QED
    BY <1>12, <1>13, <1>14

\* An end makes the last range longer.
LEMMA EndMerges ==
    ASSUME NEW rs \in Seq(SlotRange), NEW all, NEW s, NEW e, BoundsAt(rs, all, s, e),
           NEW k \in 0 .. Len(all) - 1, NEW acc, MergedUpTo(rs, all, s, e, k, acc),
           NEW i \in 1 .. Len(rs), e[i] = k + 1
    PROVE  MergedUpTo(rs, all, s, e, k + 1, MergeStep(acc, all[k + 1]))
  <1> DEFINE opened == OpenAt(rs, s, e, k)
             v == rs[i].end
             after == MergeStep(acc, all[k + 1])
             last == Last(acc.out)
  <1>1. k \in Nat /\ k + 1 \in 1 .. Len(all) /\ Len(all) \in Nat
    BY BoundsNumbers
  <1>2. i \in opened /\ OpenAt(rs, s, e, k + 1) = opened \ {i}
    BY <1>1, EndCloses
  <1>3. all[k + 1].kind = "End" /\ all[k + 1].at = v /\ v \in Nat /\ rs[i].start <= v /\ v <= MAX
        /\ rs[i].start \in Nat
    <2>1. all[e[i]].kind = "End" /\ all[e[i]].at = rs[i].end
      BY BoundsMean
    <2>2. rs[i] \in SlotRange
      OBVIOUS
    <2> QED
      BY <2>1, <2>2, RangeMeans
  <1>4. IsFiniteSet(opened) /\ acc.open = Cardinality(opened) /\ acc.open \in Nat
    BY FS_CardinalityType DEF MergedUpTo
  <1>5. /\ IsFiniteSet(OpenAt(rs, s, e, k + 1))
        /\ Cardinality(OpenAt(rs, s, e, k + 1)) = acc.open - 1
    BY <1>2, <1>4, FS_RemoveElement
  <1>6. after.open = acc.open - 1
    BY <1>3 DEF MergeStep
  <1>7. acc.out \in Seq(SlotRange) /\ Separated(acc.out) /\ SlotsOf(acc.out) \subseteq SlotsOf(rs)
    BY DEF MergedUpTo
  <1>8. acc.out # <<>> /\ last.start .. all[k].at \subseteq SlotsOf(rs)
        /\ \A j \in opened : last.start <= rs[j].start
    BY <1>2 DEF MergedUpTo
  <1>9. k \in 1 .. Len(all) /\ last.end <= all[k].at
    BY <1>8 DEF MergedUpTo
  <1>10. /\ last \in SlotRange /\ last = [start |-> last.start, end |-> last.end]
         /\ last.start \in Nat /\ last.end \in Nat
    BY <1>7, <1>8, LastMeans, RangeMeans
  <1>11. rs[i].start <= all[k].at
    BY <1>2, OpenHolds
  <1>12. all \in Seq(Event) /\ InOrder(all) /\ DOMAIN all = 1 .. Len(all) /\ k <= k + 1
    BY <1>1 DEF BoundsAt
  <1>13. all[k].at \in Nat /\ all[k].at <= v
    <2>1. all[k].at \in Nat
      BY <1>9, <1>12, EventMeans
    <2>2. all[k].at <= all[k + 1].at
      BY <1>1, <1>9, <1>12, InOrderMeans
    <2> QED
      BY <1>3, <2>1, <2>2
  <1>14. PICK r : r = [last EXCEPT !.end = v]
    OBVIOUS
  <1>15. after.out = Append(Front(acc.out), r)
    BY <1>3, <1>14 DEF MergeStep
  <1>16. r.start = last.start /\ r.end = v /\ last.end <= r.end /\ last.start <= v
    <2>1. r.start = last.start /\ r.end = v
      BY <1>10, <1>14
    <2>2. PICK a \in Nat, b \in Nat : a = last.end /\ b = all[k].at
      BY <1>10, <1>13
    <2>3. a <= b /\ b <= v
      BY <1>9, <1>13, <2>2
    <2>4. last.start <= rs[i].start
      BY <1>2, <1>8
    <2> QED
      BY <1>3, <1>10, <2>1, <2>2, <2>3, <2>4
  <1>17. r \in SlotRange
    <2>1. r = [start |-> last.start, end |-> v]
      BY <1>10, <1>14
    <2>2. last.start \in Slot /\ v \in Slot
      BY <1>3, <1>10, <1>16, MaxAssumption DEF Slot
    <2> QED
      BY <1>16, <2>1, <2>2 DEF SlotRange
  <1>18. /\ after.out \in Seq(SlotRange) /\ after.out # <<>> /\ Last(after.out) = r
         /\ SlotsOf(after.out) = SlotsOf(acc.out) \cup (r.start .. r.end)
         /\ Separated(after.out)
    BY <1>7, <1>8, <1>15, <1>16, <1>17, ExtendedRange
  <1>19. last.start .. v \subseteq SlotsOf(rs)
    <2> SUFFICES ASSUME NEW x \in last.start .. v PROVE x \in SlotsOf(rs)
      OBVIOUS
    <2>1. x \in Nat /\ x <= v /\ last.start <= x
      BY <1>3, <1>10
    <2>2. CASE x <= all[k].at
      BY <1>8, <1>10, <1>13, <2>1, <2>2
    <2>3. CASE all[k].at <= x
      <3>1. rs[i].start <= x /\ x <= rs[i].end
        BY <1>3, <1>11, <1>13, <2>1, <2>3
      <3> QED
        BY <2>1, <3>1, SlotsMeans
    <2> QED
      BY <1>13, <2>1, <2>2, <2>3
  <1>20. \A j \in 1 .. Len(rs) : e[j] <= k + 1 => rs[j].start .. rs[j].end \subseteq SlotsOf(after.out)
    <2> SUFFICES ASSUME NEW j \in 1 .. Len(rs), e[j] <= k + 1
                 PROVE  rs[j].start .. rs[j].end \subseteq SlotsOf(after.out)
      OBVIOUS
    <2>1. e[j] <= k \/ e[j] = k + 1
      BY <1>1, BoundsNumbers
    <2>2. CASE e[j] <= k
      BY <1>18, <2>2 DEF MergedUpTo
    <2>3. CASE e[j] = k + 1
      <3>1. j = i
        BY <2>3 DEF BoundsAt
      <3>2. last.start <= rs[i].start
        BY <1>2, <1>8
      <3>3. rs[i].start .. v \subseteq last.start .. v
        BY <1>3, <1>10, <3>2
      <3> QED
        BY <1>16, <1>18, <3>1, <3>3
    <2> QED
      BY <2>1, <2>2, <2>3
  <1>21. SlotsOf(after.out) \subseteq SlotsOf(rs)
    BY <1>7, <1>16, <1>18, <1>19
  <1>22. \A j \in opened \ {i} : last.start <= rs[j].start
    BY <1>8
  <1> HIDE DEF opened, v, after, last
  <1>24. \A j \in OpenAt(rs, s, e, k + 1) : Last(after.out).start <= rs[j].start
    BY <1>2, <1>16, <1>18, <1>22
  <1>25. Last(after.out).end = all[k + 1].at /\ all[k + 1].kind = "End" /\ all[k + 1].at <= all[k + 1].at
    BY <1>3, <1>16, <1>18
  <1>26. Last(after.out).start .. all[k + 1].at \subseteq SlotsOf(rs)
    BY <1>3, <1>16, <1>18, <1>19
  <1>27. Last(after.out).end <= all[k + 1].at
    BY <1>25
  <1>23. MergedUpTo(rs, all, s, e, k + 1, after)
    BY <1>1, <1>5, <1>6, <1>18, <1>20, <1>21, <1>24, <1>25, <1>26, <1>27 DEF MergedUpTo
  <1> QED
    BY <1>23 DEF after

\* TimeMerge leaves ranges that are apart, of exactly the slots it was given.
LEMMA MergeMeans ==
    ASSUME NEW rs \in Seq(SlotRange)
    PROVE  /\ TimeMerge(rs) \in Seq(SlotRange)
           /\ Separated(TimeMerge(rs))
           /\ SlotsOf(TimeMerge(rs)) = SlotsOf(rs)
  <1>1. PICK all, s, e : all = MergeEvents(rs) /\ BoundsAt(rs, all, s, e)
    BY MergeEventsAre
  <1>2. PICK n \in Nat : n = Len(all)
    BY <1>1, BoundsNumbers
  <1>3. PICK run : run = MergeRun(all)
    OBVIOUS
  <1>4. run[0] = [open |-> 0, out |-> <<>>]
        /\ \A k \in 0 .. n - 1 : run[k + 1] = MergeStep(run[k], all[k + 1])
    BY <1>2, <1>3, MergeRunSteps
  <1>5. TimeMerge(rs) = run[n].out
    BY <1>1, <1>2, <1>3 DEF TimeMerge
  <1> DEFINE T == {k \in 0 .. n : MergedUpTo(rs, all, s, e, k, run[k])}
  <1>6. \A i \in 1 .. Len(rs) : s[i] \in 1 .. n /\ e[i] \in 1 .. n
    BY <1>1, <1>2, BoundsMean
  <1>7. 0 \in T
    <2>1. OpenAt(rs, s, e, 0) = {}
      BY <1>6 DEF OpenAt
    <2>2. \A i \in 1 .. Len(rs) : ~(e[i] <= 0)
      BY <1>6
    <2>3. run[0].open = 0 /\ run[0].out = <<>>
      BY <1>4
    <2>4. <<>> \in Seq(SlotRange) /\ Separated(<<>>) /\ SlotsOf(<<>>) = {}
      BY DEF Separated, SlotsOf, ToSet
    <2>5. MergedUpTo(rs, all, s, e, 0, run[0])
      BY <2>1, <2>2, <2>3, <2>4, FS_EmptySet DEF MergedUpTo
    <2> QED
      BY <2>5
  <1>8. ASSUME NEW k \in 0 .. n - 1, k \in T PROVE k + 1 \in T
    <2>1. MergedUpTo(rs, all, s, e, k, run[k]) /\ k + 1 \in 0 .. n /\ k + 1 \in 1 .. n
      BY <1>8
    <2>2. PICK i \in 1 .. Len(rs) : k + 1 = s[i] \/ k + 1 = e[i]
      BY <1>1, <1>2, <2>1 DEF BoundsAt
    <2>3. MergedUpTo(rs, all, s, e, k + 1, MergeStep(run[k], all[k + 1]))
      BY <1>1, <1>2, <2>1, <2>2, StartMerges, EndMerges
    <2> QED
      BY <1>4, <2>1, <2>3
  <1>9. MergedUpTo(rs, all, s, e, n, run[n])
    <2> HIDE DEF T
    <2>1. 0 .. n \subseteq T
      BY <1>7, <1>8, UpToN
    <2>2. n \in T
      BY <2>1
    <2> QED
      BY <2>2 DEF T
  <1>10. SlotsOf(rs) \subseteq SlotsOf(run[n].out)
    <2> SUFFICES ASSUME NEW x \in SlotsOf(rs) PROVE x \in SlotsOf(run[n].out)
      OBVIOUS
    <2>1. PICK i \in 1 .. Len(rs) : x \in Nat /\ rs[i].start <= x /\ x <= rs[i].end
      BY SlotsMeans
    <2>2. e[i] <= n /\ x \in rs[i].start .. rs[i].end
      BY <1>6, <2>1, RangeMeans
    <2> QED
      BY <1>9, <2>2 DEF MergedUpTo
  <1> QED
    BY <1>5, <1>9, <1>10 DEF MergedUpTo
-----------------------------------------------------------------------------
(* Blocks: where the events come from. *)

LEMMA BlockEventsOfMeans ==
    ASSUME NEW r \in SlotRange
    PROVE  /\ BlockEventsOf(r) \in Seq(Event)
           /\ r.start > 0 => /\ 1 \in 1 .. Len(BlockEventsOf(r))
                             /\ BlockEventsOf(r)[1] = End(r.start - 1)
           /\ r.end < MAX => LET l == IF r.start > 0 THEN 2 ELSE 1
                             IN  /\ l \in 1 .. Len(BlockEventsOf(r))
                                 /\ BlockEventsOf(r)[l] = Start(r.end + 1)
           /\ \A l \in 1 .. Len(BlockEventsOf(r)) :
                 \/ r.start > 0 /\ l = 1
                 \/ r.end < MAX /\ l = IF r.start > 0 THEN 2 ELSE 1
  <1>1. /\ r.start \in Nat /\ r.end \in Nat /\ r.start <= r.end /\ r.end <= MAX
        /\ MAX \in Nat
    BY RangeMeans, MaxAssumption
  <1>2. PICK a, b : a = End(r.start - 1) /\ b = Start(r.end + 1)
    OBVIOUS
  <1>3. r.start > 0 => a \in Event
    BY <1>1, <1>2 DEF Event, End, Slot
  <1>4. r.end < MAX => b \in Event
    BY <1>1, <1>2 DEF Event, Start, Slot
  <1>5. BlockEventsOf(r) = (IF r.start > 0 THEN <<a>> ELSE <<>>) \o (IF r.end < MAX THEN <<b>> ELSE <<>>)
    BY <1>2 DEF BlockEventsOf
  <1>6. CASE r.start > 0 /\ r.end < MAX
    <2>1. BlockEventsOf(r) = <<a>> \o <<b>> /\ a \in Event /\ b \in Event
      BY <1>3, <1>4, <1>5, <1>6
    <2>2. <<a>> \in Seq(Event) /\ <<b>> \in Seq(Event) /\ Len(<<a>>) = 1 /\ Len(<<b>>) = 1
          /\ <<a>>[1] = a /\ <<b>>[1] = b
      BY <2>1
    <2>3. PICK f \in Seq(Event), g \in Seq(Event) : f = <<a>> /\ g = <<b>>
      BY <2>2
    <2>4. /\ f \o g \in Seq(Event) /\ Len(f \o g) = 2
          /\ \A i \in 1 .. 2 : (f \o g)[i] = IF i <= 1 THEN f[i] ELSE g[i - 1]
      BY <2>2, <2>3, ConcatProperties
    <2>5. (f \o g)[1] = a /\ (f \o g)[2] = b
      BY <2>2, <2>3, <2>4
    <2> QED
      BY <1>2, <1>6, <2>1, <2>3, <2>4, <2>5
  <1>7. CASE r.start > 0 /\ ~(r.end < MAX)
    <2>1. BlockEventsOf(r) = <<a>> \o <<>> /\ a \in Event
      BY <1>3, <1>5, <1>7
    <2>2. BlockEventsOf(r) = <<a>>
      BY <2>1
    <2> QED
      BY <1>2, <1>7, <2>1, <2>2
  <1>8. CASE ~(r.start > 0) /\ r.end < MAX
    <2>1. BlockEventsOf(r) = <<>> \o <<b>> /\ b \in Event
      BY <1>4, <1>5, <1>8
    <2>2. BlockEventsOf(r) = <<b>>
      BY <2>1
    <2> QED
      BY <1>2, <1>8, <2>1, <2>2
  <1>9. CASE ~(r.start > 0) /\ ~(r.end < MAX)
    <2>1. BlockEventsOf(r) = <<>> \o <<>>
      BY <1>5, <1>9
    <2>2. BlockEventsOf(r) = <<>>
      BY <2>1
    <2> QED
      BY <1>9, <2>2
  <1> QED
    BY <1>1, <1>6, <1>7, <1>8, <1>9

\* Where the events of the available ranges A and the blocked ranges B are: x
\* is 0 and y is one past the end where an event does not exist.
BlocksAt(A, B, all, s, e, x, y) ==
    /\ all \in Seq(Event) /\ InOrder(all)
    /\ \A i \in 1 .. Len(A) : /\ s[i] \in 1 .. Len(all) /\ all[s[i]] = Start(A[i].start)
                              /\ e[i] \in 1 .. Len(all) /\ all[e[i]] = End(A[i].end)
    /\ \A j \in 1 .. Len(B) : IF B[j].start > 0
                              THEN x[j] \in 1 .. Len(all) /\ all[x[j]] = End(B[j].start - 1)
                              ELSE x[j] = 0
    /\ \A j \in 1 .. Len(B) : IF B[j].end < MAX
                              THEN y[j] \in 1 .. Len(all) /\ all[y[j]] = Start(B[j].end + 1)
                              ELSE y[j] = Len(all) + 1
    /\ \A p \in 1 .. Len(all) : \/ \E i \in 1 .. Len(A) : p = s[i] \/ p = e[i]
                                \/ \E j \in 1 .. Len(B) : p = x[j] \/ p = y[j]
    /\ \A i \in 1 .. Len(A), j \in 1 .. Len(B) : s[i] # y[j] /\ e[i] # x[j]

LEMMA BlockEventsAre ==
    ASSUME NEW A \in Seq(SlotRange), NEW B \in Seq(SlotRange), NEW all,
           all = Sorted(FlattenSeq(BoundsOf(A) \o [j \in DOMAIN B |-> BlockEventsOf(B[j])]))
    PROVE  \E s, e, x, y : BlocksAt(A, B, all, s, e, x, y)
  <1>1. PICK m \in Nat, n \in Nat : m = Len(A) /\ n = Len(B)
    OBVIOUS
  <1>2. PICK front :
           /\ front = BoundsOf(A) /\ front \in Seq(Seq(Event)) /\ Len(front) = m
           /\ \A i \in 1 .. m : /\ Len(front[i]) = 2 /\ front[i][1] = Start(A[i].start)
                                /\ front[i][2] = End(A[i].end)
    BY <1>1, BoundsOfType
  <1>3. PICK back :
           /\ back = [j \in DOMAIN B |-> BlockEventsOf(B[j])]
           /\ back \in Seq(Seq(Event)) /\ Len(back) = n
           /\ \A j \in 1 .. n : back[j] = BlockEventsOf(B[j])
    <2>1. \A j \in 1 .. n : BlockEventsOf(B[j]) \in Seq(Event)
      BY <1>1, BlockEventsOfMeans
    <2>2. DOMAIN B = 1 .. n
      BY <1>1
    <2>3. PICK back : back = [j \in DOMAIN B |-> BlockEventsOf(B[j])]
      OBVIOUS
    <2>4. \A j \in 1 .. n : back[j] = BlockEventsOf(B[j])
      BY <2>2, <2>3
    <2>5. back \in [1 .. n -> Seq(Event)]
      BY <2>1, <2>2, <2>3
    <2>6. back \in Seq(Seq(Event)) /\ Len(back) = n
      BY <2>5
    <2> QED
      BY <2>3, <2>4, <2>6
  <1>4. PICK ss : ss = front \o back
    OBVIOUS
  <1>19. ss \in [1 .. m + n -> Seq(Event)]
    <2>1. ss \in Seq(Seq(Event)) /\ Len(ss) = m + n
      BY <1>2, <1>3, <1>4, ConcatProperties
    <2> QED
      BY <2>1
  <1>5. /\ \A i \in 1 .. m : ss[i] = front[i]
        /\ \A j \in 1 .. n : ss[m + j] = back[j]
    <2>1. /\ \A i \in 1 .. m + n : ss[i] = IF i <= m THEN front[i] ELSE back[i - m]
      BY <1>2, <1>3, <1>4, ConcatProperties
    <2>2. \A i \in 1 .. m : ss[i] = front[i]
      BY <2>1
    <2>3. \A j \in 1 .. n : ss[m + j] = back[j]
      <3> SUFFICES ASSUME NEW j \in 1 .. n PROVE ss[m + j] = back[j]
        OBVIOUS
      <3>1. m + j \in 1 .. m + n /\ ~(m + j <= m) /\ m + j - m = j
        OBVIOUS
      <3> QED
        BY <2>1, <3>1
    <2> QED
      BY <2>1, <2>2, <2>3
  <1>6. PICK at : Arranged(m + n, ss, all, at)
    <2>1. all = Sorted(FlattenSeq(ss))
      BY <1>2, <1>3, <1>4
    <2>2. m + n \in Nat
      OBVIOUS
    <2> QED
      BY <1>19, <2>1, <2>2, SortedIsArranged
  <1>7. all \in Seq(Event) /\ InOrder(all)
    BY <1>6 DEF Arranged
  <1>8. ASSUME NEW h \in 1 .. m + n, NEW l \in 1 .. Len(ss[h])
        PROVE  at[h][l] \in 1 .. Len(all) /\ all[at[h][l]] = ss[h][l]
    <2>1. \A j \in 1 .. Len(ss[h]) : at[h][j] \in 1 .. Len(all) /\ all[at[h][j]] = ss[h][j]
      BY <1>6 DEF Arranged
    <2> QED
      BY <2>1
  <1>9. ASSUME NEW h \in 1 .. m + n, NEW g \in 1 .. m + n,
               NEW l \in 1 .. Len(ss[h]), NEW f \in 1 .. Len(ss[g]), at[h][l] = at[g][f]
        PROVE  h = g
    BY <1>6, <1>9 DEF Arranged
  <1> DEFINE second(j) == IF B[j].start > 0 THEN 2 ELSE 1
             s == [i \in 1 .. m |-> at[i][1]]
             e == [i \in 1 .. m |-> at[i][2]]
             x == [j \in 1 .. n |-> IF B[j].start > 0 THEN at[m + j][1] ELSE 0]
             y == [j \in 1 .. n |-> IF B[j].end < MAX THEN at[m + j][second(j)] ELSE Len(all) + 1]
  <1>10. ASSUME NEW i \in 1 .. m
         PROVE  /\ i \in 1 .. m + n /\ 1 \in 1 .. Len(ss[i]) /\ 2 \in 1 .. Len(ss[i])
                /\ s[i] = at[i][1] /\ e[i] = at[i][2]
                /\ ss[i][1] = Start(A[i].start) /\ ss[i][2] = End(A[i].end)
    BY <1>2, <1>5
  <1>11. ASSUME NEW j \in 1 .. n
         PROVE  /\ m + j \in 1 .. m + n /\ ss[m + j] = BlockEventsOf(B[j])
                /\ x[j] = (IF B[j].start > 0 THEN at[m + j][1] ELSE 0)
                /\ y[j] = (IF B[j].end < MAX THEN at[m + j][second(j)] ELSE Len(all) + 1)
                /\ B[j].start > 0 => 1 \in 1 .. Len(ss[m + j]) /\ ss[m + j][1] = End(B[j].start - 1)
                /\ B[j].end < MAX => /\ second(j) \in 1 .. Len(ss[m + j])
                                     /\ ss[m + j][second(j)] = Start(B[j].end + 1)
                /\ \A l \in 1 .. Len(ss[m + j]) : \/ B[j].start > 0 /\ l = 1
                                                  \/ B[j].end < MAX /\ l = second(j)
    <2>2. B[j] \in SlotRange
      BY <1>1
    <2>3. m + j \in 1 .. m + n
      OBVIOUS
    <2>1. ss[m + j] = BlockEventsOf(B[j])
      BY <1>3, <1>5
    <2> QED
      BY <2>1, <2>2, <2>3, BlockEventsOfMeans
  <1>12. Len(all) \in Nat
    BY <1>7
  <1> HIDE DEF s, e, x, y, second
  <1>13. \A i \in 1 .. m : /\ s[i] \in 1 .. Len(all) /\ all[s[i]] = Start(A[i].start)
                           /\ e[i] \in 1 .. Len(all) /\ all[e[i]] = End(A[i].end)
    <2> SUFFICES ASSUME NEW i \in 1 .. m
                 PROVE  /\ s[i] \in 1 .. Len(all) /\ all[s[i]] = Start(A[i].start)
                        /\ e[i] \in 1 .. Len(all) /\ all[e[i]] = End(A[i].end)
      OBVIOUS
    <2>1. /\ i \in 1 .. m + n /\ 1 \in 1 .. Len(ss[i]) /\ 2 \in 1 .. Len(ss[i])
          /\ s[i] = at[i][1] /\ e[i] = at[i][2]
          /\ ss[i][1] = Start(A[i].start) /\ ss[i][2] = End(A[i].end)
      BY <1>10
    <2>2. at[i][1] \in 1 .. Len(all) /\ all[at[i][1]] = ss[i][1]
      BY <1>8, <2>1
    <2>3. at[i][2] \in 1 .. Len(all) /\ all[at[i][2]] = ss[i][2]
      BY <1>8, <2>1
    <2> QED
      BY <2>1, <2>2, <2>3
  <1>14. \A j \in 1 .. n : IF B[j].start > 0
                           THEN x[j] \in 1 .. Len(all) /\ all[x[j]] = End(B[j].start - 1)
                           ELSE x[j] = 0
    <2> SUFFICES ASSUME NEW j \in 1 .. n
                 PROVE  /\ B[j].start > 0 => x[j] \in 1 .. Len(all) /\ all[x[j]] = End(B[j].start - 1)
                        /\ ~(B[j].start > 0) => x[j] = 0
      OBVIOUS
    <2>1. x[j] = (IF B[j].start > 0 THEN at[m + j][1] ELSE 0)
      BY <1>11
    <2>2. ASSUME B[j].start > 0 PROVE x[j] \in 1 .. Len(all) /\ all[x[j]] = End(B[j].start - 1)
      <3>1. m + j \in 1 .. m + n /\ 1 \in 1 .. Len(ss[m + j]) /\ ss[m + j][1] = End(B[j].start - 1)
        BY <1>11, <2>2
      <3>2. at[m + j][1] \in 1 .. Len(all) /\ all[at[m + j][1]] = ss[m + j][1]
        BY <1>8, <3>1
      <3> QED
        BY <2>1, <2>2, <3>1, <3>2
    <2> QED
      BY <2>1, <2>2
  <1>15. \A j \in 1 .. n : IF B[j].end < MAX
                           THEN y[j] \in 1 .. Len(all) /\ all[y[j]] = Start(B[j].end + 1)
                           ELSE y[j] = Len(all) + 1
    <2> SUFFICES ASSUME NEW j \in 1 .. n
                 PROVE  /\ B[j].end < MAX => y[j] \in 1 .. Len(all) /\ all[y[j]] = Start(B[j].end + 1)
                        /\ ~(B[j].end < MAX) => y[j] = Len(all) + 1
      OBVIOUS
    <2>1. y[j] = (IF B[j].end < MAX THEN at[m + j][second(j)] ELSE Len(all) + 1)
      BY <1>11
    <2>2. ASSUME B[j].end < MAX PROVE y[j] \in 1 .. Len(all) /\ all[y[j]] = Start(B[j].end + 1)
      <3>1. m + j \in 1 .. m + n /\ second(j) \in 1 .. Len(ss[m + j])
            /\ ss[m + j][second(j)] = Start(B[j].end + 1)
        BY <1>11, <2>2
      <3>2. at[m + j][second(j)] \in 1 .. Len(all) /\ all[at[m + j][second(j)]] = ss[m + j][second(j)]
        BY <1>8, <3>1
      <3> QED
        BY <2>1, <2>2, <3>1, <3>2
    <2> QED
      BY <2>1, <2>2
  <1>16. ASSUME NEW p \in 1 .. Len(all)
         PROVE  \/ \E i \in 1 .. m : p = s[i] \/ p = e[i]
                \/ \E j \in 1 .. n : p = x[j] \/ p = y[j]
    <2>1. PICK h \in 1 .. m + n : \E l \in 1 .. Len(ss[h]) : p = at[h][l]
      BY <1>6 DEF Arranged
    <2>2. PICK l \in 1 .. Len(ss[h]) : p = at[h][l]
      BY <2>1
    <2>3. CASE h \in 1 .. m
      <3>1. Len(ss[h]) = 2
        BY <1>2, <1>5, <2>3
      <3>2. l = 1 \/ l = 2
        BY <3>1
      <3> QED
        BY <1>10, <2>2, <2>3, <3>2
    <2>4. CASE ~(h \in 1 .. m)
      <3>1. PICK j \in 1 .. n : h = m + j
        <4>1. h - m \in 1 .. n /\ h = m + (h - m)
          BY <2>4
        <4> QED
          BY <4>1
      <3>2. l \in 1 .. Len(ss[m + j])
        BY <3>1
      <3>3. \/ B[j].start > 0 /\ l = 1
            \/ B[j].end < MAX /\ l = second(j)
        BY <1>11, <3>2
      <3> QED
        BY <1>11, <2>2, <3>1, <3>3
    <2> QED
      BY <2>3, <2>4
  <1>17. ASSUME NEW i \in 1 .. m, NEW j \in 1 .. n PROVE s[i] # y[j] /\ e[i] # x[j]
    <2>1. i # m + j
      OBVIOUS
    <2>2. s[i] # y[j]
      <3>1. CASE B[j].end < MAX
        <4>1. y[j] = at[m + j][second(j)] /\ second(j) \in 1 .. Len(ss[m + j]) /\ m + j \in 1 .. m + n
          BY <1>11, <3>1
        <4>2. s[i] = at[i][1] /\ 1 \in 1 .. Len(ss[i]) /\ i \in 1 .. m + n
          BY <1>10
        <4>3. at[i][1] # at[m + j][second(j)]
          BY <1>9, <2>1, <4>1, <4>2
        <4> QED
          BY <4>1, <4>2, <4>3
      <3>2. CASE ~(B[j].end < MAX)
        <4>1. y[j] = Len(all) + 1 /\ s[i] \in 1 .. Len(all)
          BY <1>13, <1>15, <3>2
        <4> QED
          BY <1>12, <4>1
      <3> QED
        BY <3>1, <3>2
    <2>3. e[i] # x[j]
      <3>1. CASE B[j].start > 0
        <4>1. x[j] = at[m + j][1] /\ 1 \in 1 .. Len(ss[m + j]) /\ m + j \in 1 .. m + n
          BY <1>11, <3>1
        <4> QED
          BY <1>9, <1>10, <2>1, <4>1
      <3>2. CASE ~(B[j].start > 0)
        <4>1. x[j] = 0 /\ e[i] \in 1 .. Len(all)
          BY <1>13, <1>14, <3>2
        <4> QED
          BY <1>12, <4>1
      <3> QED
        BY <3>1, <3>2
    <2> QED
      BY <2>2, <2>3
  <1>18. BlocksAt(A, B, all, s, e, x, y)
    BY <1>1, <1>7, <1>13, <1>14, <1>15, <1>16, <1>17 DEF BlocksAt
  <1> QED
    BY <1>18

LEMMA ApartMeans ==
    ASSUME NEW rs \in Seq(SlotRange), Separated(rs), NEW i \in 1 .. Len(rs), NEW h \in 1 .. Len(rs), i < h
    PROVE  rs[i].end + 1 < rs[h].start
  <1>1. PICK n \in Nat : n = Len(rs)
    OBVIOUS
  <1> DEFINE T == {k \in 0 .. n : i < k => rs[i].end + 1 < rs[k].start}
  <1>2. 0 \in T
    BY <1>1
  <1>3. ASSUME NEW k \in 0 .. n - 1, k \in T PROVE k + 1 \in T
    <2> SUFFICES ASSUME i < k + 1 PROVE rs[i].end + 1 < rs[k + 1].start
      OBVIOUS
    <2>1. k \in 1 .. n - 1 /\ k \in 1 .. n /\ k + 1 \in 1 .. n /\ i \in 1 .. n
      BY <1>1
    <2>2. rs[k].end + 1 < rs[k + 1].start
      BY <1>1, <2>1 DEF Separated
    <2>3. i = k \/ (i < k /\ rs[i].end + 1 < rs[k].start)
      <3>1. i = k \/ i < k
        BY <2>1
      <3> QED
        BY <1>3, <3>1
    <2>4. /\ rs[i].end \in Nat /\ rs[k].start \in Nat /\ rs[k].end \in Nat /\ rs[k + 1].start \in Nat
          /\ rs[k].start <= rs[k].end
      BY <1>1, <2>1, RangeMeans
    <2>5. PICK a \in Nat, b \in Nat, c \in Nat, d \in Nat :
             a = rs[i].end /\ b = rs[k].start /\ c = rs[k].end /\ d = rs[k + 1].start
      BY <2>4
    <2>6. b <= c /\ c + 1 < d /\ (a = c \/ a + 1 < b)
      BY <2>2, <2>3, <2>4, <2>5
    <2>7. a + 1 < d
      BY <2>6
    <2> QED
      BY <2>5, <2>7
  <1>4. h \in T
    <2> HIDE DEF T
    <2>1. 0 .. n \subseteq T
      BY <1>2, <1>3, UpToN
    <2> QED
      BY <1>1, <2>1
  <1> QED
    BY <1>4

\* Begin and end take turns.
Alternate(n, s, e) ==
    /\ \A i \in 1 .. n : s[i] \in Nat /\ e[i] \in Nat /\ s[i] < e[i]
    /\ \A i, h \in 1 .. n : i < h => e[i] < s[h]

LEMMA LessMeans ==
    ASSUME NEW v \in Int, NEW w \in Int
    PROVE  /\ EventLess(End(v), Start(w)) <=> v < w
           /\ EventLess(Start(v), End(w)) <=> v <= w
  BY DEF EventLess, Start, End

\* Starts and ends alternate, those of the available ranges and those of the blocked ones.
LEMMA BlocksAlternate ==
    ASSUME NEW A \in Seq(SlotRange), NEW B \in Seq(SlotRange), Separated(A), Separated(B),
           NEW all, NEW s, NEW e, NEW x, NEW y, BlocksAt(A, B, all, s, e, x, y)
    PROVE  Alternate(Len(A), s, e) /\ Alternate(Len(B), x, y)
  <1>1. all \in Seq(Event) /\ InOrder(all) /\ DOMAIN all = 1 .. Len(all) /\ Len(all) \in Nat
    BY DEF BlocksAt
  <1>2. ASSUME NEW p \in 1 .. Len(all), NEW q \in 1 .. Len(all), EventLess(all[p], all[q])
        PROVE  p < q
    BY <1>1, <1>2, InOrderMeans
  <1>3. ASSUME NEW i \in 1 .. Len(A)
        PROVE  /\ s[i] \in 1 .. Len(all) /\ all[s[i]] = Start(A[i].start)
               /\ e[i] \in 1 .. Len(all) /\ all[e[i]] = End(A[i].end)
    BY DEF BlocksAt
  <1>4. ASSUME NEW i \in 1 .. Len(A) PROVE s[i] < e[i]
    <2>1. EventLess(all[s[i]], all[e[i]])
      <3>1. A[i].start \in Nat /\ A[i].end \in Nat /\ A[i].start <= A[i].end
        BY RangeMeans
      <3>2. EventLess(Start(A[i].start), End(A[i].end))
        BY <3>1, LessMeans
      <3> QED
        BY <1>3, <3>2
    <2> QED
      BY <1>2, <1>3, <2>1
  <1>5. ASSUME NEW i \in 1 .. Len(A), NEW h \in 1 .. Len(A), i < h PROVE e[i] < s[h]
    <2>1. A[i].end + 1 < A[h].start
      BY <1>5, ApartMeans
    <2>2. A[i].end \in Nat /\ A[h].start \in Nat
      BY RangeMeans
    <2>3. EventLess(all[e[i]], all[s[h]])
      <3>1. EventLess(End(A[i].end), Start(A[h].start))
        <4>1. A[i].end < A[h].start
          BY <2>1, <2>2
        <4> QED
          BY <2>2, <4>1, LessMeans
      <3> QED
        BY <1>3, <3>1
    <2> QED
      BY <1>2, <1>3, <2>3
  <1>6. Alternate(Len(A), s, e)
    BY <1>1, <1>3, <1>4, <1>5 DEF Alternate
  <1>7. ASSUME NEW j \in 1 .. Len(B)
        PROVE  /\ B[j].start > 0 => x[j] \in 1 .. Len(all) /\ all[x[j]] = End(B[j].start - 1)
               /\ ~(B[j].start > 0) => x[j] = 0
    BY DEF BlocksAt
  <1>8. ASSUME NEW j \in 1 .. Len(B)
        PROVE  /\ B[j].end < MAX => y[j] \in 1 .. Len(all) /\ all[y[j]] = Start(B[j].end + 1)
               /\ ~(B[j].end < MAX) => y[j] = Len(all) + 1
    BY DEF BlocksAt
  <1>9. ASSUME NEW j \in 1 .. Len(B) PROVE x[j] < y[j]
    <2>1. B[j].start \in Nat /\ B[j].end \in Nat /\ B[j].start <= B[j].end
      BY RangeMeans
    <2>2. CASE B[j].start > 0 /\ B[j].end < MAX
      <3>1. EventLess(all[x[j]], all[y[j]])
        <4>1. PICK v \in Int, w \in Int : v = B[j].start - 1 /\ w = B[j].end + 1 /\ v < w
          <5>1. PICK a \in Nat, b \in Nat : a = B[j].start /\ b = B[j].end /\ a <= b
            BY <2>1
          <5>2. a - 1 \in Int /\ b + 1 \in Int /\ a - 1 < b + 1
            BY <5>1
          <5> QED
            BY <5>1, <5>2
        <4>2. EventLess(End(v), Start(w))
          BY <4>1, LessMeans
        <4> QED
          BY <1>7, <1>8, <2>2, <4>1, <4>2
      <3> QED
        BY <1>2, <1>7, <1>8, <2>2, <3>1
    <2>3. CASE ~(B[j].start > 0)
      BY <1>1, <1>7, <1>8, <2>3
    <2>4. CASE ~(B[j].end < MAX)
      BY <1>1, <1>7, <1>8, <2>4
    <2> QED
      BY <2>2, <2>3, <2>4
  <1>10. ASSUME NEW j \in 1 .. Len(B), NEW h \in 1 .. Len(B), j < h PROVE y[j] < x[h]
    <2>1. B[j].end + 1 < B[h].start
      BY <1>10, ApartMeans
    <2>2. B[j].end \in Nat /\ B[h].start \in Nat /\ B[h].start <= MAX /\ MAX \in Nat
      <3>1. B[h].start \in Nat /\ B[h].end \in Nat /\ B[h].start <= B[h].end /\ B[h].end <= MAX
        BY RangeMeans
      <3>2. B[j].end \in Nat
        BY RangeMeans
      <3> QED
        BY <3>1, <3>2, MaxAssumption
    <2>3. B[h].start > 0 /\ B[j].end < MAX
      BY <2>1, <2>2
    <2>4. EventLess(all[y[j]], all[x[h]])
      <3>1. PICK v \in Int, w \in Int : v = B[j].end + 1 /\ w = B[h].start - 1 /\ v <= w
        BY <2>1, <2>2
      <3>2. EventLess(Start(v), End(w))
        BY <3>1, LessMeans
      <3> QED
        BY <1>7, <1>8, <2>3, <3>1, <3>2
    <2> QED
      BY <1>2, <1>7, <1>8, <2>3, <2>4
  <1>11. \A j \in 1 .. Len(B) : x[j] \in Nat /\ y[j] \in Nat
    BY <1>1, <1>7, <1>8
  <1>12. Alternate(Len(B), x, y)
    BY <1>9, <1>10, <1>11 DEF Alternate
  <1> QED
    BY <1>6, <1>12

\* Of what takes turns, at most one is going on.
Inside(n, s, e, k) == {i \in 1 .. n : s[i] <= k /\ k < e[i]}

LEMMA OneInside ==
    ASSUME NEW n \in Nat, NEW s, NEW e, Alternate(n, s, e), NEW k \in Nat,
           NEW i \in Inside(n, s, e, k), NEW h \in Inside(n, s, e, k)
    PROVE  i = h
  <1>1. /\ i \in 1 .. n /\ s[i] <= k /\ k < e[i]
        /\ h \in 1 .. n /\ s[h] <= k /\ k < e[h]
    BY DEF Inside
  <1>2. s[i] \in Nat /\ e[i] \in Nat /\ s[h] \in Nat /\ e[h] \in Nat
    BY <1>1 DEF Alternate
  <1>3. (i < h => e[i] < s[h]) /\ (h < i => e[h] < s[i])
    BY <1>1 DEF Alternate
  <1> QED
    BY <1>1, <1>2, <1>3

LEMMA GoesInside ==
    ASSUME NEW n \in Nat, NEW s, NEW e, Alternate(n, s, e), NEW k \in Nat, NEW next, next = k + 1,
           NEW i \in 1 .. n, s[i] = next
    PROVE  Inside(n, s, e, k) = {} /\ i \in Inside(n, s, e, next)
  <1>1. i \in Inside(n, s, e, next)
    <2>1. s[i] <= next /\ next < e[i]
      BY DEF Alternate
    <2> QED
      BY <2>1 DEF Inside
  <1>3. ASSUME NEW h \in Inside(n, s, e, k) PROVE FALSE
    <2>1. h \in 1 .. n /\ s[h] <= k /\ k < e[h]
      BY DEF Inside
    <2>2. s[i] \in Nat /\ e[i] \in Nat /\ s[h] \in Nat /\ e[h] \in Nat /\ s[i] < e[i]
      BY <2>1 DEF Alternate
    <2>3. (i < h => e[i] < s[h]) /\ (h < i => e[h] < s[i])
      BY <2>1 DEF Alternate
    <2> QED
      BY <2>1, <2>2, <2>3
  <1> QED
    BY <1>1, <1>3

LEMMA GoesOutside ==
    ASSUME NEW n \in Nat, NEW s, NEW e, Alternate(n, s, e), NEW k \in Nat,
           NEW i \in 1 .. n, e[i] = k + 1
    PROVE  Inside(n, s, e, k) = {i} /\ Inside(n, s, e, k + 1) = {}
  <1>1. i \in Inside(n, s, e, k)
    <2>1. s[i] \in Nat /\ e[i] \in Nat /\ s[i] < e[i]
      BY DEF Alternate
    <2>2. s[i] <= k /\ k < e[i]
      BY <2>1
    <2> QED
      BY <2>2 DEF Inside
  <1>2. \A h \in Inside(n, s, e, k) : h = i
    BY <1>1, OneInside
  <1>3. ASSUME NEW h \in Inside(n, s, e, k + 1) PROVE FALSE
    <2>1. h \in 1 .. n /\ s[h] <= k + 1 /\ k + 1 < e[h]
      BY DEF Inside
    <2>2. s[i] \in Nat /\ e[i] \in Nat /\ s[h] \in Nat /\ e[h] \in Nat /\ s[i] < e[i]
      BY <2>1 DEF Alternate
    <2>3. (i < h => e[i] < s[h]) /\ (h < i => e[h] < s[i])
      BY <2>1 DEF Alternate
    <2> QED
      BY <2>1, <2>2, <2>3
  <1> QED
    BY <1>1, <1>2, <1>3

LEMMA StaysInside ==
    ASSUME NEW n \in Nat, NEW s, NEW e, Alternate(n, s, e), NEW k \in Nat,
           \A i \in 1 .. n : s[i] # k + 1 /\ e[i] # k + 1
    PROVE  Inside(n, s, e, k + 1) = Inside(n, s, e, k)
  <1>1. ASSUME NEW i \in 1 .. n PROVE (s[i] <= k + 1 <=> s[i] <= k) /\ (k + 1 < e[i] <=> k < e[i])
    <2>1. s[i] \in Nat /\ e[i] \in Nat /\ s[i] # k + 1 /\ e[i] # k + 1
      BY DEF Alternate
    <2> QED
      BY <2>1
  <1> QED
    BY <1>1 DEF Inside
-----------------------------------------------------------------------------
(* Blocks: what the Blocker yields. *)

Unblocked(A, B) == SlotsOf(A) \ SlotsOf(B)

LEMMA FreeMeans ==
    ASSUME NEW A \in Seq(SlotRange), NEW B \in Seq(SlotRange), NEW z
    PROVE  z \in Unblocked(A, B) <=>
              /\ z \in Nat
              /\ \E i \in 1 .. Len(A) : A[i].start <= z /\ z <= A[i].end
              /\ \A j \in 1 .. Len(B) : ~(B[j].start <= z /\ z <= B[j].end)
  BY SlotsMeans DEF Unblocked

LEMMA AvailableEvents ==
    ASSUME NEW A, NEW B, NEW all, NEW s, NEW e, NEW x, NEW y, BlocksAt(A, B, all, s, e, x, y),
           NEW i \in 1 .. Len(A)
    PROVE  /\ s[i] \in 1 .. Len(all) /\ all[s[i]].kind = "Start" /\ all[s[i]].at = A[i].start
           /\ e[i] \in 1 .. Len(all) /\ all[e[i]].kind = "End" /\ all[e[i]].at = A[i].end
  <1>1. /\ s[i] \in 1 .. Len(all) /\ all[s[i]] = Start(A[i].start)
        /\ e[i] \in 1 .. Len(all) /\ all[e[i]] = End(A[i].end)
    BY DEF BlocksAt
  <1> QED
    BY <1>1 DEF Start, End

LEMMA BlockedEvents ==
    ASSUME NEW A, NEW B, NEW all, NEW s, NEW e, NEW x, NEW y, BlocksAt(A, B, all, s, e, x, y),
           NEW j \in 1 .. Len(B)
    PROVE  /\ B[j].start > 0 => /\ x[j] \in 1 .. Len(all) /\ all[x[j]].kind = "End"
                                /\ all[x[j]].at = B[j].start - 1
           /\ ~(B[j].start > 0) => x[j] = 0
           /\ B[j].end < MAX => /\ y[j] \in 1 .. Len(all) /\ all[y[j]].kind = "Start"
                                /\ all[y[j]].at = B[j].end + 1
           /\ ~(B[j].end < MAX) => y[j] = Len(all) + 1
  <1>1. B[j].start > 0 => x[j] \in 1 .. Len(all) /\ all[x[j]] = End(B[j].start - 1)
    BY DEF BlocksAt
  <1>2. B[j].end < MAX => y[j] \in 1 .. Len(all) /\ all[y[j]] = Start(B[j].end + 1)
    BY DEF BlocksAt
  <1>3. ~(B[j].start > 0) => x[j] = 0
    BY DEF BlocksAt
  <1>4. ~(B[j].end < MAX) => y[j] = Len(all) + 1
    BY DEF BlocksAt
  <1> QED
    BY <1>1, <1>2, <1>3, <1>4 DEF Start, End

\* The ranges, and where their events are, that the lemmas below speak of.
Blocking(A, B, all, s, e, x, y) ==
    /\ A \in Seq(SlotRange) /\ Separated(A)
    /\ B \in Seq(SlotRange) /\ Separated(B)
    /\ BlocksAt(A, B, all, s, e, x, y)

\* The event that closes the way to a blocked range, unless the range starts the horizon.
LEMMA BlockedBefore ==
    ASSUME NEW A, NEW B, NEW all, NEW s, NEW e, NEW x, NEW y, BlocksAt(A, B, all, s, e, x, y),
           NEW j \in 1 .. Len(B), x[j] # 0
    PROVE  /\ x[j] \in 1 .. Len(all) /\ all[x[j]].kind = "End" /\ all[x[j]].at = B[j].start - 1
  BY BlockedEvents

\* The event that opens the way again, unless the range ends the horizon.
LEMMA BlockedAfter ==
    ASSUME NEW A, NEW B, NEW all, NEW s, NEW e, NEW x, NEW y, BlocksAt(A, B, all, s, e, x, y),
           NEW j \in 1 .. Len(B), y[j] # Len(all) + 1
    PROVE  /\ y[j] \in 1 .. Len(all) /\ all[y[j]].kind = "Start" /\ all[y[j]].at = B[j].end + 1
  BY BlockedEvents

\* Every event begins or ends an available range, or begins or ends a blocked one.
LEMMA EventTurns ==
    ASSUME NEW A, NEW B, NEW all, NEW s, NEW e, NEW x, NEW y, Blocking(A, B, all, s, e, x, y),
           NEW k \in Nat, k + 1 \in 1 .. Len(all)
    PROVE  \/ /\ all[k + 1].kind = "Start"
              /\ Inside(Len(A), s, e, k) = {} /\ Inside(Len(A), s, e, k + 1) # {}
              /\ Inside(Len(B), x, y, k + 1) = Inside(Len(B), x, y, k)
           \/ /\ all[k + 1].kind = "End"
              /\ Inside(Len(A), s, e, k) # {} /\ Inside(Len(A), s, e, k + 1) = {}
              /\ Inside(Len(B), x, y, k + 1) = Inside(Len(B), x, y, k)
           \/ /\ all[k + 1].kind = "End"
              /\ Inside(Len(B), x, y, k) = {} /\ Inside(Len(B), x, y, k + 1) # {}
              /\ Inside(Len(A), s, e, k + 1) = Inside(Len(A), s, e, k)
           \/ /\ all[k + 1].kind = "Start"
              /\ Inside(Len(B), x, y, k) # {} /\ Inside(Len(B), x, y, k + 1) = {}
              /\ Inside(Len(A), s, e, k + 1) = Inside(Len(A), s, e, k)
  <1>1. Alternate(Len(A), s, e) /\ Alternate(Len(B), x, y)
    BY BlocksAlternate DEF Blocking
  <1>2. Len(A) \in Nat /\ Len(B) \in Nat /\ BlocksAt(A, B, all, s, e, x, y)
    BY DEF Blocking
  <1>3. ASSUME NEW i \in 1 .. Len(A), NEW j \in 1 .. Len(B) PROVE s[i] # y[j] /\ e[i] # x[j]
    BY <1>2 DEF BlocksAt
  <1>4. ASSUME NEW i \in 1 .. Len(A)
        PROVE  all[s[i]].kind = "Start" /\ all[e[i]].kind = "End"
    BY <1>2, AvailableEvents
  <1>5. ASSUME NEW j \in 1 .. Len(B)
        PROVE  /\ x[j] = k + 1 => all[k + 1].kind = "End"
               /\ y[j] = k + 1 => all[k + 1].kind = "Start"
    <2>1. Len(all) \in Nat
      BY <1>2 DEF BlocksAt
    <2>2. k + 1 # 0 /\ k + 1 # Len(all) + 1
      BY <2>1
    <2>3. x[j] = k + 1 => all[k + 1].kind = "End"
      <3> SUFFICES ASSUME x[j] = k + 1 PROVE all[k + 1].kind = "End"
        OBVIOUS
      <3> QED
        BY <1>2, <2>2, BlockedBefore
    <2>4. y[j] = k + 1 => all[k + 1].kind = "Start"
      <3> SUFFICES ASSUME y[j] = k + 1 PROVE all[k + 1].kind = "Start"
        OBVIOUS
      <3> QED
        BY <1>2, <2>2, BlockedAfter
    <2> QED
      BY <2>3, <2>4
  <1>6. ASSUME NEW i \in 1 .. Len(A), s[i] = k + 1
        PROVE  /\ all[k + 1].kind = "Start"
               /\ Inside(Len(A), s, e, k) = {} /\ Inside(Len(A), s, e, k + 1) # {}
               /\ Inside(Len(B), x, y, k + 1) = Inside(Len(B), x, y, k)
    <2>1. all[k + 1].kind = "Start"
      BY <1>4, <1>6
    <2>2. \A j \in 1 .. Len(B) : x[j] # k + 1 /\ y[j] # k + 1
      BY <1>3, <1>5, <1>6, <2>1
    <2>0. PICK n \in Nat : n = Len(A)
      BY <1>2
    <2>5. PICK next : n = Len(A) /\ next = k + 1
      BY <2>0
    <2>7. Alternate(n, s, e) /\ i \in 1 .. n /\ s[i] = next
      BY <1>1, <1>6, <2>5
    <2>8. Inside(n, s, e, k) = {}
      BY <2>5, <2>7, GoesInside
    <2>9. i \in Inside(n, s, e, next)
      BY <2>5, <2>7, GoesInside
    <2>3. Inside(Len(A), s, e, k) = {} /\ Inside(Len(A), s, e, k + 1) # {}
      BY <2>5, <2>8, <2>9
    <2>4. Inside(Len(B), x, y, k + 1) = Inside(Len(B), x, y, k)
      BY <1>1, <1>2, <2>2, StaysInside
    <2> QED
      BY <2>1, <2>3, <2>4
  <1>7. ASSUME NEW i \in 1 .. Len(A), e[i] = k + 1
        PROVE  /\ all[k + 1].kind = "End"
               /\ Inside(Len(A), s, e, k) # {} /\ Inside(Len(A), s, e, k + 1) = {}
               /\ Inside(Len(B), x, y, k + 1) = Inside(Len(B), x, y, k)
    <2>1. all[k + 1].kind = "End"
      BY <1>4, <1>7
    <2>2. \A j \in 1 .. Len(B) : x[j] # k + 1 /\ y[j] # k + 1
      BY <1>3, <1>5, <1>7, <2>1
    <2>3. Inside(Len(A), s, e, k) = {i} /\ Inside(Len(A), s, e, k + 1) = {}
      BY <1>1, <1>2, <1>7, GoesOutside
    <2>4. Inside(Len(B), x, y, k + 1) = Inside(Len(B), x, y, k)
      BY <1>1, <1>2, <2>2, StaysInside
    <2> QED
      BY <2>1, <2>3, <2>4
  <1>8. ASSUME NEW j \in 1 .. Len(B), x[j] = k + 1
        PROVE  /\ all[k + 1].kind = "End"
               /\ Inside(Len(B), x, y, k) = {} /\ Inside(Len(B), x, y, k + 1) # {}
               /\ Inside(Len(A), s, e, k + 1) = Inside(Len(A), s, e, k)
    <2>1. all[k + 1].kind = "End"
      BY <1>5, <1>8
    <2>2. \A i \in 1 .. Len(A) : s[i] # k + 1 /\ e[i] # k + 1
      BY <1>3, <1>4, <1>8, <2>1
    <2>0. PICK n \in Nat : n = Len(B)
      BY <1>2
    <2>5. PICK next : n = Len(B) /\ next = k + 1
      BY <2>0
    <2>7. Alternate(n, x, y) /\ j \in 1 .. n /\ x[j] = next
      BY <1>1, <1>8, <2>5
    <2>8. Inside(n, x, y, k) = {}
      BY <2>5, <2>7, GoesInside
    <2>9. j \in Inside(n, x, y, next)
      BY <2>5, <2>7, GoesInside
    <2>3. Inside(Len(B), x, y, k) = {} /\ Inside(Len(B), x, y, k + 1) # {}
      BY <2>5, <2>8, <2>9
    <2>4. Inside(Len(A), s, e, k + 1) = Inside(Len(A), s, e, k)
      BY <1>1, <1>2, <2>2, StaysInside
    <2> QED
      BY <2>1, <2>3, <2>4
  <1>9. ASSUME NEW j \in 1 .. Len(B), y[j] = k + 1
        PROVE  /\ all[k + 1].kind = "Start"
               /\ Inside(Len(B), x, y, k) # {} /\ Inside(Len(B), x, y, k + 1) = {}
               /\ Inside(Len(A), s, e, k + 1) = Inside(Len(A), s, e, k)
    <2>1. all[k + 1].kind = "Start"
      BY <1>5, <1>9
    <2>2. \A i \in 1 .. Len(A) : s[i] # k + 1 /\ e[i] # k + 1
      BY <1>3, <1>4, <1>9, <2>1
    <2>3. Inside(Len(B), x, y, k) = {j} /\ Inside(Len(B), x, y, k + 1) = {}
      BY <1>1, <1>2, <1>9, GoesOutside
    <2>4. Inside(Len(A), s, e, k + 1) = Inside(Len(A), s, e, k)
      BY <1>1, <1>2, <2>2, StaysInside
    <2> QED
      BY <2>1, <2>3, <2>4
  <1>10. \/ \E i \in 1 .. Len(A) : k + 1 = s[i] \/ k + 1 = e[i]
         \/ \E j \in 1 .. Len(B) : k + 1 = x[j] \/ k + 1 = y[j]
    BY <1>2 DEF BlocksAt
  <1> QED
    BY <1>6, <1>7, <1>8, <1>9, <1>10

\* Where the Blocker stands after k events: it waits for the end of a range
\* just when an available one is open and no blocked one is.
Stands(A, B, all, s, e, x, y, k, b) ==
    LET open == Inside(Len(A), s, e, k) # {}
        shut == Inside(Len(B), x, y, k) # {}
    IN  /\ b = [count |-> b.count, pending |-> b.pending, out |-> b.out, panicked |-> FALSE]
        /\ open /\ ~shut => /\ b.count = 0 /\ b.pending = <<all[k].at>>
                            /\ k \in 1 .. Len(all) /\ all[k].kind = "Start"
        /\ ~(open /\ ~shut) => b.pending = <<>> /\ b.count = IF shut /\ ~open THEN -1 ELSE 0

LEMMA StepYields ==
    ASSUME NEW b, NEW ev, b.count \in Int, b.count < 1, b.panicked = FALSE,
           b = [count |-> b.count, pending |-> b.pending, out |-> b.out, panicked |-> b.panicked],
           b.pending # <<>>, ev.kind = "End"
    PROVE  BlockStep(b, ev) = [count |-> b.count, pending |-> <<>>, panicked |-> FALSE,
                              out |-> Append(b.out, Ranged(b.pending[1], ev.at))]
  <1>1. ~(b.panicked \/ b.count >= 1)
    OBVIOUS
  <1>2. BlockStep(b, ev) = [b EXCEPT !.pending = <<>>, !.out = Append(@, Ranged(b.pending[1], ev.at))]
    BY <1>1 DEF BlockStep
  <1> QED
    BY <1>2

LEMMA StepWaits ==
    ASSUME NEW b, NEW ev, b.count \in Int, b.count < 1, b.panicked = FALSE,
           b = [count |-> b.count, pending |-> b.pending, out |-> b.out, panicked |-> b.panicked],
           b.pending = <<>>, ev.kind = "Start", b.count = 0
    PROVE  BlockStep(b, ev) = [count |-> b.count, pending |-> <<ev.at>>, out |-> b.out, panicked |-> FALSE]
  <1>1. ~(b.panicked \/ b.count >= 1)
    OBVIOUS
  <1>2. BlockStep(b, ev) = [b EXCEPT !.pending = <<ev.at>>]
    BY <1>1 DEF BlockStep
  <1> QED
    BY <1>2

LEMMA StepUp ==
    ASSUME NEW b, NEW ev, b.count \in Int, b.count < 1, b.panicked = FALSE,
           b = [count |-> b.count, pending |-> b.pending, out |-> b.out, panicked |-> b.panicked],
           b.pending = <<>>, ev.kind = "Start", b.count < 0
    PROVE  BlockStep(b, ev) = [count |-> b.count + 1, pending |-> <<>>, out |-> b.out, panicked |-> FALSE]
  <1>1. ~(b.panicked \/ b.count >= 1)
    OBVIOUS
  <1>2. BlockStep(b, ev) = [b EXCEPT !.count = @ + 1]
    BY <1>1 DEF BlockStep
  <1> QED
    BY <1>2

LEMMA StepDown ==
    ASSUME NEW b, NEW ev, b.count \in Int, b.count < 1, b.panicked = FALSE,
           b = [count |-> b.count, pending |-> b.pending, out |-> b.out, panicked |-> b.panicked],
           b.pending = <<>>, ev.kind = "End"
    PROVE  BlockStep(b, ev) = [count |-> b.count - 1, pending |-> <<>>, out |-> b.out, panicked |-> FALSE]
  <1>1. ~(b.panicked \/ b.count >= 1)
    OBVIOUS
  <1>2. BlockStep(b, ev) = [b EXCEPT !.count = @ - 1]
    BY <1>1 DEF BlockStep
  <1> QED
    BY <1>2

\* Each event leads from one of the four standings to another.
LEMMA StandsStep ==
    ASSUME NEW A, NEW B, NEW all, NEW s, NEW e, NEW x, NEW y, Blocking(A, B, all, s, e, x, y),
           NEW k \in Nat, k + 1 \in 1 .. Len(all), NEW b, Stands(A, B, all, s, e, x, y, k, b)
    PROVE  /\ Stands(A, B, all, s, e, x, y, k + 1, BlockStep(b, all[k + 1]))
           /\ Inside(Len(A), s, e, k) # {} /\ Inside(Len(B), x, y, k) = {} =>
                 /\ all[k].kind = "Start" /\ all[k + 1].kind = "End" /\ k \in 1 .. Len(all)
                 /\ BlockStep(b, all[k + 1]).out = Append(b.out, Ranged(all[k].at, all[k + 1].at))
           /\ ~(Inside(Len(A), s, e, k) # {} /\ Inside(Len(B), x, y, k) = {}) =>
                 BlockStep(b, all[k + 1]).out = b.out
  <1>1. PICK ev, after : ev = all[k + 1] /\ after = BlockStep(b, ev)
    OBVIOUS
  <1>2. PICK count, pending, out : count = b.count /\ pending = b.pending /\ out = b.out
    OBVIOUS
  <1>3. /\ b = [count |-> b.count, pending |-> b.pending, out |-> b.out, panicked |-> b.panicked]
        /\ b.panicked = FALSE
    BY DEF Stands
  <1>4. PICK was, then, had, has :
           /\ was = Inside(Len(A), s, e, k) /\ then = Inside(Len(A), s, e, k + 1)
           /\ had = Inside(Len(B), x, y, k) /\ has = Inside(Len(B), x, y, k + 1)
    OBVIOUS
  <1>5. \/ ev.kind = "Start" /\ was = {} /\ then # {} /\ has = had
        \/ ev.kind = "End" /\ was # {} /\ then = {} /\ has = had
        \/ ev.kind = "End" /\ had = {} /\ has # {} /\ then = was
        \/ ev.kind = "Start" /\ had # {} /\ has = {} /\ then = was
    <2>1. \/ /\ all[k + 1].kind = "Start"
             /\ Inside(Len(A), s, e, k) = {} /\ Inside(Len(A), s, e, k + 1) # {}
             /\ Inside(Len(B), x, y, k + 1) = Inside(Len(B), x, y, k)
          \/ /\ all[k + 1].kind = "End"
             /\ Inside(Len(A), s, e, k) # {} /\ Inside(Len(A), s, e, k + 1) = {}
             /\ Inside(Len(B), x, y, k + 1) = Inside(Len(B), x, y, k)
          \/ /\ all[k + 1].kind = "End"
             /\ Inside(Len(B), x, y, k) = {} /\ Inside(Len(B), x, y, k + 1) # {}
             /\ Inside(Len(A), s, e, k + 1) = Inside(Len(A), s, e, k)
          \/ /\ all[k + 1].kind = "Start"
             /\ Inside(Len(B), x, y, k) # {} /\ Inside(Len(B), x, y, k + 1) = {}
             /\ Inside(Len(A), s, e, k + 1) = Inside(Len(A), s, e, k)
      BY EventTurns
    <2> QED
      BY <1>1, <1>4, <2>1
  <1>6. /\ was # {} /\ had = {} => /\ count = 0 /\ pending = <<all[k].at>>
                                   /\ k \in 1 .. Len(all) /\ all[k].kind = "Start"
        /\ ~(was # {} /\ had = {}) =>
              pending = <<>> /\ count = IF had # {} /\ was = {} THEN -1 ELSE 0
    BY <1>2, <1>4 DEF Stands
  <1> DEFINE Good(c, p, o) == /\ after = [count |-> c, pending |-> p, out |-> o, panicked |-> FALSE]
                              /\ then # {} /\ has = {} => c = 0 /\ p = <<ev.at>> /\ ev.kind = "Start"
                              /\ ~(then # {} /\ has = {}) =>
                                    p = <<>> /\ c = IF has # {} /\ then = {} THEN -1 ELSE 0
  <1>7. ASSUME NEW c, NEW p, NEW o, Good(c, p, o)
        PROVE  Stands(A, B, all, s, e, x, y, k + 1, after) /\ after.out = o
    <2>1. /\ after.count = c /\ after.pending = p /\ after.out = o
          /\ after = [count |-> c, pending |-> p, out |-> o, panicked |-> FALSE]
      BY <1>7
    <2>2. /\ then # {} /\ has = {} => c = 0 /\ p = <<ev.at>> /\ ev.kind = "Start"
          /\ ~(then # {} /\ has = {}) => p = <<>> /\ c = IF has # {} /\ then = {} THEN -1 ELSE 0
      BY <1>7
    <2> HIDE DEF Good
    <2> QED
      BY <1>1, <1>4, <2>1, <2>2 DEF Stands
  <1> USE DEF Good
  <1>8. CASE was # {} /\ had = {}
    <2>1. /\ count = 0 /\ pending = <<all[k].at>> /\ pending # <<>> /\ pending[1] = all[k].at
          /\ k \in 1 .. Len(all) /\ all[k].kind = "Start"
      <3>1. count = 0 /\ pending = <<all[k].at>> /\ k \in 1 .. Len(all) /\ all[k].kind = "Start"
        BY <1>6, <1>8
      <3>2. PICK v : v = all[k].at
        OBVIOUS
      <3>3. <<v>> # <<>> /\ <<v>>[1] = v
        OBVIOUS
      <3> QED
        BY <3>1, <3>2, <3>3
    <2>2. ev.kind = "End" /\ ~(then # {} /\ has = {}) /\ (has # {} /\ then = {} => FALSE)
      BY <1>5, <1>8
    <2>3. count \in Int /\ count < 1
      BY <2>1
    <2>4. after = [count |-> count, pending |-> <<>>, panicked |-> FALSE,
                   out |-> Append(out, Ranged(pending[1], ev.at))]
      BY <1>1, <1>2, <1>3, <2>1, <2>2, <2>3, StepYields
    <2>5. Good(0, <<>>, Append(out, Ranged(all[k].at, ev.at)))
      BY <2>1, <2>2, <2>4
    <2>6. Stands(A, B, all, s, e, x, y, k + 1, after)
          /\ after.out = Append(out, Ranged(all[k].at, ev.at))
      BY <1>7, <2>5
    <2> QED
      BY <1>1, <1>2, <1>4, <1>8, <2>1, <2>2, <2>6
  <1>9. CASE ~(was # {} /\ had = {})
    <2>1. pending = <<>> /\ count = IF had # {} /\ was = {} THEN -1 ELSE 0
      BY <1>6, <1>9
    <2>2. count \in Int /\ count < 1
      BY <2>1
    <2>3. \E c, p : Good(c, p, out)
      <3>1. CASE ev.kind = "End"
        <4>1. after = [count |-> count - 1, pending |-> <<>>, out |-> out, panicked |-> FALSE]
          BY <1>1, <1>2, <1>3, <2>1, <2>2, <3>1, StepDown
        <4>2. count = 0 /\ then = {} /\ has # {}
          BY <1>5, <1>9, <2>1, <3>1
        <4>3. Good(-1, <<>>, out)
          BY <4>1, <4>2
        <4> QED
          BY <4>3
      <3>2. CASE ev.kind = "Start" /\ count = 0
        <4>1. after = [count |-> count, pending |-> <<ev.at>>, out |-> out, panicked |-> FALSE]
          BY <1>1, <1>2, <1>3, <2>1, <2>2, <3>2, StepWaits
        <4>2. then # {} /\ has = {}
          BY <1>5, <1>9, <2>1, <3>2
        <4>3. Good(0, <<ev.at>>, out)
          BY <3>2, <4>1, <4>2
        <4> QED
          BY <4>3
      <3>3. CASE ev.kind = "Start" /\ count # 0
        <4>1. count = -1 /\ had # {} /\ was = {}
          BY <2>1, <3>3
        <4>5. count < 0
          BY <4>1
        <4>2. after = [count |-> count + 1, pending |-> <<>>, out |-> out, panicked |-> FALSE]
          BY <1>1, <1>2, <1>3, <2>1, <2>2, <3>3, <4>5, StepUp
        <4>3. (then # {} /\ has # {}) \/ (then = {} /\ has = {})
          BY <1>5, <3>3, <4>1
        <4>4. Good(0, <<>>, out)
          BY <4>1, <4>2, <4>3
        <4> QED
          BY <4>4
      <3> QED
        BY <1>5, <3>1, <3>2, <3>3
    <2>4. Stands(A, B, all, s, e, x, y, k + 1, after) /\ after.out = out
      BY <1>7, <2>3
    <2> QED
      BY <1>1, <1>2, <1>4, <1>9, <2>4
  <1> QED
    BY <1>8, <1>9

\* Between the start it has read and the next end, everything is free.
LEMMA FreeBetween ==
    ASSUME NEW A, NEW B, NEW all, NEW s, NEW e, NEW x, NEW y, Blocking(A, B, all, s, e, x, y),
           NEW k \in Nat, k \in 1 .. Len(all), k + 1 \in 1 .. Len(all),
           Inside(Len(A), s, e, k) # {}, Inside(Len(B), x, y, k) = {}
    PROVE  /\ all[k].at \in Nat /\ all[k + 1].at \in Nat /\ all[k].at <= all[k + 1].at
           /\ all[k + 1].at <= MAX
           /\ \A z \in Nat : all[k].at <= z /\ z <= all[k + 1].at => z \in Unblocked(A, B)
  <1>1. BlocksAt(A, B, all, s, e, x, y) /\ A \in Seq(SlotRange) /\ B \in Seq(SlotRange)
    BY DEF Blocking
  <1>2. all \in Seq(Event) /\ InOrder(all) /\ DOMAIN all = 1 .. Len(all) /\ Len(all) \in Nat
    BY <1>1 DEF BlocksAt
  <1>3. PICK v \in Nat, w \in Nat : v = all[k].at /\ w = all[k + 1].at /\ w <= MAX
    BY <1>2, EventMeans
  <1>4. k <= k + 1
    OBVIOUS
  <1>5. v <= w
    BY <1>2, <1>3, <1>4, InOrderMeans
  <1>6. ASSUME NEW z \in Nat, v <= z, z <= w PROVE z \in Unblocked(A, B)
    <2>1. PICK i \in 1 .. Len(A) : s[i] <= k /\ k < e[i]
      BY DEF Inside
    <2>2. /\ s[i] \in 1 .. Len(all) /\ all[s[i]].at = A[i].start
          /\ e[i] \in 1 .. Len(all) /\ all[e[i]].at = A[i].end
      BY <1>1, AvailableEvents
    <2>3. k + 1 <= e[i]
      BY <1>2, <2>1, <2>2
    <2>4. all[s[i]].at <= all[k].at /\ all[k + 1].at <= all[e[i]].at
      <3>1. all[s[i]].at <= all[k].at
        BY <1>2, <2>1, <2>2, InOrderMeans
      <3>2. all[k + 1].at <= all[e[i]].at
        BY <1>2, <2>2, <2>3, InOrderMeans
      <3> QED
        BY <3>1, <3>2
    <2>5. A[i].start \in Nat /\ A[i].end \in Nat
      BY <1>1, RangeMeans
    <2>6. A[i].start <= z /\ z <= A[i].end
      <3>1. PICK a \in Nat, b \in Nat : a = A[i].start /\ b = A[i].end
        BY <2>5
      <3>2. a <= all[k].at /\ all[k + 1].at <= b
        BY <2>2, <2>4, <3>1
      <3>3. a <= z /\ z <= b
        BY <1>3, <1>6, <3>2
      <3> QED
        BY <3>1, <3>3
    <2>7. ASSUME NEW j \in 1 .. Len(B) PROVE ~(B[j].start <= z /\ z <= B[j].end)
      <3>1. B[j].start \in Nat /\ B[j].end \in Nat
        BY <1>1, RangeMeans
      <3>2. ~(x[j] <= k) \/ ~(k < y[j])
        BY DEF Inside
      <3>3. CASE ~(x[j] <= k)
        <4>1. x[j] # 0
          BY <3>3
        <4>2. x[j] \in 1 .. Len(all) /\ all[x[j]].at = B[j].start - 1
          BY <1>1, <4>1, BlockedEvents
        <4>3. k + 1 <= x[j]
          BY <1>2, <3>3, <4>2
        <4>4. all[k + 1].at <= all[x[j]].at
          BY <1>2, <4>2, <4>3, InOrderMeans
        <4>5. PICK a \in Nat : a = B[j].start
          BY <3>1
        <4>6. w <= a - 1
          BY <1>3, <4>2, <4>4, <4>5
        <4>7. ~(a <= z)
          BY <1>6, <4>6
        <4> QED
          BY <4>5, <4>7
      <3>4. CASE ~(k < y[j])
        <4>1. y[j] # Len(all) + 1
          BY <1>2, <3>4
        <4>2. y[j] \in 1 .. Len(all) /\ all[y[j]].at = B[j].end + 1
          BY <1>1, <4>1, BlockedEvents
        <4>3. y[j] <= k
          BY <1>2, <3>4, <4>2
        <4>4. all[y[j]].at <= all[k].at
          BY <1>2, <4>2, <4>3, InOrderMeans
        <4>5. PICK a \in Nat : a = B[j].end
          BY <3>1
        <4>6. a + 1 <= v
          BY <1>3, <4>2, <4>4, <4>5
        <4>7. ~(z <= a)
          BY <1>6, <4>6
        <4> QED
          BY <4>5, <4>7
      <3> QED
        BY <3>2, <3>3, <3>4
    <2> QED
      BY <1>1, <2>6, <2>7, FreeMeans
  <1> QED
    BY <1>3, <1>5, <1>6

\* What has been yielded after k events is what is free up to there.
Yields(A, B, all, k, out) ==
    /\ out \in Seq(SlotRange) /\ Separated(out)
    /\ SlotsOf(out) \subseteq Unblocked(A, B)
    /\ \A z \in Unblocked(A, B), p \in 1 .. k :
          all[p].kind = "End" /\ z <= all[p].at => z \in SlotsOf(out)
    /\ out # <<>> => /\ \E p \in 1 .. k : all[p].kind = "End" /\ Last(out).end = all[p].at
                     /\ \A z \in SlotsOf(out) : z <= Last(out).end

\* A free slot that an end passes for the first time is in the range that it ends.
LEMMA PassedSlot ==
    ASSUME NEW A, NEW B, NEW all, NEW s, NEW e, NEW x, NEW y, Blocking(A, B, all, s, e, x, y),
           NEW k \in Nat, k + 1 \in 1 .. Len(all), all[k + 1].kind = "End",
           NEW out, Yields(A, B, all, k, out),
           NEW z \in Unblocked(A, B), z <= all[k + 1].at, z \notin SlotsOf(out)
    PROVE  /\ Inside(Len(A), s, e, k) # {} /\ Inside(Len(B), x, y, k) = {}
           /\ k \in 1 .. Len(all) /\ all[k].kind = "Start" => all[k].at <= z
  <1>1. BlocksAt(A, B, all, s, e, x, y) /\ A \in Seq(SlotRange) /\ B \in Seq(SlotRange)
    BY DEF Blocking
  <1>2. all \in Seq(Event) /\ InOrder(all) /\ DOMAIN all = 1 .. Len(all) /\ Len(all) \in Nat
    BY <1>1 DEF BlocksAt
  <1>3. PICK w \in Nat : w = all[k + 1].at
    BY <1>2, EventMeans
  <1>4. z \in Nat /\ z <= w
    BY <1>1, <1>3, FreeMeans
  <1>5. PICK i \in 1 .. Len(A) : A[i].start <= z /\ z <= A[i].end
    BY <1>1, FreeMeans
  <1>6. ASSUME NEW j \in 1 .. Len(B) PROVE z < B[j].start \/ B[j].end < z
    <2>1. ~(B[j].start <= z /\ z <= B[j].end)
      BY <1>1, FreeMeans
    <2>2. B[j].start \in Nat /\ B[j].end \in Nat
      BY <1>1, RangeMeans
    <2> QED
      BY <1>4, <2>1, <2>2
  <1>7. ASSUME NEW p \in 1 .. Len(all), all[p].kind = "End", z <= all[p].at PROVE k + 1 <= p
    <2> SUFFICES ASSUME p <= k PROVE FALSE
      BY <1>2
    <2>1. p \in 1 .. k
      BY <1>2
    <2> QED
      BY <1>7, <2>1 DEF Yields
  <1>8. Alternate(Len(A), s, e) /\ Alternate(Len(B), x, y)
    BY BlocksAlternate DEF Blocking
  <1>9. i \in Inside(Len(A), s, e, k)
    <2>1. /\ s[i] \in 1 .. Len(all) /\ all[s[i]].kind = "Start" /\ all[s[i]].at = A[i].start
          /\ e[i] \in 1 .. Len(all) /\ all[e[i]].kind = "End" /\ all[e[i]].at = A[i].end
      BY <1>1, AvailableEvents
    <2>2. k + 1 <= e[i]
      BY <1>5, <1>7, <2>1
    <2>3. A[i].start \in Nat
      BY <1>1, RangeMeans
    <2>4. EventLess(all[s[i]], all[k + 1])
      BY <1>3, <1>4, <1>5, <2>1, <2>3 DEF EventLess
    <2>5. s[i] < k + 1
      BY <1>2, <2>1, <2>4, InOrderMeans
    <2>6. s[i] <= k /\ k < e[i]
      BY <1>2, <2>1, <2>2, <2>5
    <2> QED
      BY <2>6 DEF Inside
  <1>10. ASSUME NEW j \in Inside(Len(B), x, y, k) PROVE FALSE
    <2>1. j \in 1 .. Len(B) /\ x[j] <= k /\ k < y[j]
      BY DEF Inside
    <2>2. B[j].start \in Nat /\ B[j].end \in Nat /\ MAX \in Nat /\ z <= MAX
      <3>1. A[i].end \in Nat /\ A[i].end <= MAX
        BY <1>1, RangeMeans
      <3>2. B[j].start \in Nat /\ B[j].end \in Nat
        BY <1>1, <2>1, RangeMeans
      <3> QED
        BY <1>4, <1>5, <3>1, <3>2, MaxAssumption
    <2>3. CASE z < B[j].start
      <3>1. B[j].start > 0
        BY <1>4, <2>2, <2>3
      <3>2. x[j] \in 1 .. Len(all) /\ all[x[j]].kind = "End" /\ all[x[j]].at = B[j].start - 1
        BY <1>1, <2>1, <3>1, BlockedEvents
      <3>3. z <= B[j].start - 1
        BY <1>4, <2>2, <2>3
      <3>4. k + 1 <= x[j]
        BY <1>7, <3>2, <3>3
      <3> QED
        BY <1>2, <2>1, <3>2, <3>4
    <2>4. CASE B[j].end < z
      <3>0. PICK a \in Nat, b \in Nat : a = B[j].end /\ b = z
        BY <1>4, <2>2
      <3>1. B[j].end < MAX /\ B[j].end + 1 <= w
        <4>1. a < b /\ b <= w /\ b <= MAX
          BY <1>4, <2>2, <2>4, <3>0
        <4>2. PICK c \in Nat : c = w
          BY <1>4
        <4>3. a < MAX /\ a + 1 <= c
          BY <4>1, <4>2, MaxAssumption
        <4> QED
          BY <3>0, <4>2, <4>3
      <3>2. y[j] \in 1 .. Len(all) /\ all[y[j]].kind = "Start" /\ all[y[j]].at = B[j].end + 1
        BY <1>1, <2>1, <3>1, BlockedEvents
      <3>5. PICK u \in Nat : u = B[j].end + 1
        BY <2>2
      <3>3. EventLess(all[y[j]], all[k + 1])
        BY <1>3, <3>1, <3>2, <3>5 DEF EventLess
      <3>4. y[j] < k + 1
        BY <1>2, <3>2, <3>3, InOrderMeans
      <3> QED
        BY <1>2, <2>1, <3>2, <3>4
    <2> QED
      BY <1>6, <2>1, <2>3, <2>4
  <1>11. ASSUME k \in 1 .. Len(all), all[k].kind = "Start" PROVE all[k].at <= z
    <2>1. \/ \E h \in 1 .. Len(A) : k = s[h] \/ k = e[h]
          \/ \E j \in 1 .. Len(B) : k = x[j] \/ k = y[j]
      BY <1>1, <1>11 DEF BlocksAt
    <2>2. ASSUME NEW h \in 1 .. Len(A), k = s[h] \/ k = e[h] PROVE all[k].at <= z
      <3>1. k = s[h]
        BY <1>1, <1>11, <2>2, AvailableEvents
      <3>2. h \in Inside(Len(A), s, e, k)
        <4>1. s[h] <= k /\ k < e[h]
          BY <1>8, <3>1 DEF Alternate
        <4> QED
          BY <4>1 DEF Inside
      <3>3. h = i
        <4>1. PICK n \in Nat : n = Len(A)
          BY <1>1
        <4> QED
          BY <1>8, <1>9, <3>2, <4>1, OneInside
      <3>4. all[s[h]].at = A[h].start
        BY <1>1, AvailableEvents
      <3> QED
        BY <1>5, <3>1, <3>3, <3>4
    <2>3. ASSUME NEW j \in 1 .. Len(B), k = x[j] \/ k = y[j] PROVE all[k].at <= z
      <3>1. B[j].start \in Nat /\ B[j].end \in Nat
        BY <1>1, RangeMeans
      <3>2. k # 0 /\ k # Len(all) + 1
        BY <1>2, <1>11
      <3>3. k = x[j] => all[k].kind = "End"
        <4> SUFFICES ASSUME k = x[j] PROVE all[k].kind = "End"
          OBVIOUS
        <4> QED
          BY <1>1, <3>2, BlockedBefore
      <3>4. k = y[j]
        BY <1>11, <2>3, <3>3
      <3>5. all[k].at = B[j].end + 1
        BY <1>1, <3>2, <3>4, BlockedEvents
      <3>6. CASE B[j].end < z
        BY <1>4, <3>1, <3>5, <3>6
      <3>7. CASE z < B[j].start
        <4>1. B[j].start > 0 /\ z <= B[j].start - 1
          BY <1>4, <3>1, <3>7
        <4>2. x[j] \in 1 .. Len(all) /\ all[x[j]].kind = "End" /\ all[x[j]].at = B[j].start - 1
          BY <1>1, <4>1, BlockedEvents
        <4>3. k + 1 <= x[j]
          BY <1>7, <4>1, <4>2
        <4>4. x[j] < y[j]
          BY <1>8 DEF Alternate
        <4> QED
          BY <1>2, <3>4, <4>2, <4>3, <4>4
      <3> QED
        BY <1>6, <3>6, <3>7
    <2> QED
      BY <2>1, <2>2, <2>3
  <1> QED
    BY <1>9, <1>10, <1>11

\* The next range to be yielded does not touch the last one.
LEMMA Gap ==
    ASSUME NEW A, NEW B, NEW all, NEW s, NEW e, NEW x, NEW y, Blocking(A, B, all, s, e, x, y),
           NEW k \in Nat, k \in 1 .. Len(all), all[k].kind = "Start", all[k].at \in Unblocked(A, B),
           NEW out, Yields(A, B, all, k, out), out # <<>>
    PROVE  Last(out).end + 1 < all[k].at
  <1>1. BlocksAt(A, B, all, s, e, x, y) /\ A \in Seq(SlotRange) /\ B \in Seq(SlotRange)
        /\ Separated(A)
    BY DEF Blocking
  <1>2. all \in Seq(Event) /\ InOrder(all) /\ DOMAIN all = 1 .. Len(all) /\ Len(all) \in Nat
    BY <1>1 DEF BlocksAt
  <1>3. PICK p \in 1 .. k : all[p].kind = "End" /\ Last(out).end = all[p].at
    BY DEF Yields
  <1>4. p \in 1 .. Len(all) /\ p < k
    BY <1>2, <1>3
  <1>5. PICK u \in Nat, v \in Nat : u = all[p].at /\ v = all[k].at
    BY <1>2, <1>4, EventMeans
  <1>6. u < v
    BY <1>2, <1>3, <1>4, <1>5, InOrderMeans
  <1>7. u \in Unblocked(A, B)
    <2>1. out \in Seq(SlotRange) /\ SlotsOf(out) \subseteq Unblocked(A, B)
      BY DEF Yields
    <2>2. Last(out).start .. Last(out).end \subseteq SlotsOf(out) /\ Last(out) \in SlotRange
      BY <2>1, LastSlots, LastMeans
    <2>3. Last(out).start \in Nat /\ Last(out).end \in Nat /\ Last(out).start <= Last(out).end
      BY <2>2, RangeMeans
    <2> QED
      BY <1>3, <1>5, <2>1, <2>2, <2>3
  <1> SUFFICES ASSUME u + 1 = v
               PROVE  FALSE
    BY <1>3, <1>5, <1>6
  <1>8. ASSUME NEW j \in 1 .. Len(B)
        PROVE  /\ B[j].start \in Nat /\ B[j].end \in Nat /\ B[j].start # v /\ B[j].end # u
    <2>1. B[j].start \in Nat /\ B[j].end \in Nat /\ B[j].start <= B[j].end
      BY <1>1, RangeMeans
    <2>2. ~(B[j].start <= u /\ u <= B[j].end) /\ ~(B[j].start <= v /\ v <= B[j].end)
      <3>1. u \in Unblocked(A, B) /\ v \in Unblocked(A, B)
        BY <1>5, <1>7
      <3>2. ~(B[j].start <= u /\ u <= B[j].end)
        BY <1>1, <3>1, FreeMeans
      <3>3. ~(B[j].start <= v /\ v <= B[j].end)
        BY <1>1, <3>1, FreeMeans
      <3> QED
        BY <3>2, <3>3
    <2> QED
      BY <2>1, <2>2
  <1>9. PICK i \in 1 .. Len(A) : A[i].start = v
    <2>1. \/ \E i \in 1 .. Len(A) : k = s[i] \/ k = e[i]
          \/ \E j \in 1 .. Len(B) : k = x[j] \/ k = y[j]
      BY <1>1 DEF BlocksAt
    <2>2. ASSUME NEW j \in 1 .. Len(B), k = x[j] \/ k = y[j] PROVE FALSE
      <3>1. k # 0 /\ k # Len(all) + 1
        BY <1>2
      <3>2. k = x[j] => all[k].kind = "End"
        <4> SUFFICES ASSUME k = x[j] PROVE all[k].kind = "End"
          OBVIOUS
        <4> QED
          BY <1>1, <3>1, BlockedBefore
      <3>3. all[k].at = B[j].end + 1
        BY <1>1, <2>2, <3>1, <3>2, BlockedEvents
      <3>4. PICK a \in Nat : a = B[j].end
        BY <1>8
      <3>5. a = u
        <4>1. v = a + 1
          BY <1>5, <3>3, <3>4
        <4> QED
          BY <1>5, <3>4, <4>1
      <3> QED
        BY <1>8, <3>4, <3>5
    <2>3. PICK i \in 1 .. Len(A) : k = s[i] \/ k = e[i]
      BY <2>1, <2>2
    <2>4. k = e[i] => all[k].kind = "End"
      BY <1>1, AvailableEvents
    <2>5. k = s[i] => all[k].at = A[i].start
      BY <1>1, AvailableEvents
    <2> QED
      BY <1>5, <2>3, <2>4, <2>5
  <1>10. PICK h \in 1 .. Len(A) : A[h].end = u
    <2>1. \/ \E i_1 \in 1 .. Len(A) : p = s[i_1] \/ p = e[i_1]
          \/ \E j \in 1 .. Len(B) : p = x[j] \/ p = y[j]
      BY <1>1, <1>4 DEF BlocksAt
    <2>2. ASSUME NEW j \in 1 .. Len(B), p = x[j] \/ p = y[j] PROVE FALSE
      <3>1. p # 0 /\ p # Len(all) + 1
        BY <1>2, <1>4
      <3>2. p = y[j] => all[p].kind = "Start"
        BY <1>1, <3>1, BlockedEvents
      <3>3. all[p].at = B[j].start - 1
        BY <1>1, <1>3, <2>2, <3>1, <3>2, BlockedEvents
      <3>4. PICK a \in Nat : a = B[j].start
        BY <1>8
      <3>5. a = v
        BY <1>5, <3>3, <3>4
      <3> QED
        BY <1>8, <3>4, <3>5
    <2>3. PICK h \in 1 .. Len(A) : p = s[h] \/ p = e[h]
      BY <2>1, <2>2
    <2>4. p = s[h] => all[p].kind = "Start"
      BY <1>1, AvailableEvents
    <2>5. p = e[h] => all[p].at = A[h].end
      BY <1>1, AvailableEvents
    <2> QED
      BY <1>3, <1>5, <2>3, <2>4, <2>5
  <1>11. PICK a \in Nat, b \in Nat : a = A[i].end /\ b = A[h].start /\ v <= a /\ b <= u
    <2>1. A[i].end \in Nat /\ A[i].start <= A[i].end
      BY <1>1, RangeMeans
    <2>2. A[h].start \in Nat /\ A[h].start <= A[h].end
      BY <1>1, RangeMeans
    <2> QED
      BY <1>9, <1>10, <2>1, <2>2
  <1>12. i # h
    BY <1>10, <1>11
  <1>13. h < i => A[h].end + 1 < A[i].start
    BY <1>1, ApartMeans
  <1>14. i < h => A[i].end + 1 < A[h].start
    BY <1>1, ApartMeans
  <1> QED
    BY <1>9, <1>10, <1>11, <1>12, <1>13, <1>14

\* An end that is not waited for adds nothing, one that is adds a range.
LEMMA YieldsStep ==
    ASSUME NEW A, NEW B, NEW all, NEW s, NEW e, NEW x, NEW y, Blocking(A, B, all, s, e, x, y),
           NEW k \in Nat, k + 1 \in 1 .. Len(all), NEW b, Stands(A, B, all, s, e, x, y, k, b),
           Yields(A, B, all, k, b.out)
    PROVE  Yields(A, B, all, k + 1, BlockStep(b, all[k + 1]).out)
  <1>1. PICK out, after : out = b.out /\ after = BlockStep(b, all[k + 1]).out
    OBVIOUS
  <1>2. /\ Yields(A, B, all, k, out) /\ out \in Seq(SlotRange) /\ Separated(out)
        /\ SlotsOf(out) \subseteq Unblocked(A, B)
    BY <1>1 DEF Yields
  <1>3. ASSUME NEW z \in Unblocked(A, B), NEW p \in 1 .. k, all[p].kind = "End", z <= all[p].at
        PROVE  z \in SlotsOf(out)
    BY <1>2, <1>3 DEF Yields
  <1>4. CASE Inside(Len(A), s, e, k) # {} /\ Inside(Len(B), x, y, k) = {}
    <2>1. /\ all[k].kind = "Start" /\ all[k + 1].kind = "End" /\ k \in 1 .. Len(all)
          /\ after = Append(out, Ranged(all[k].at, all[k + 1].at))
      BY <1>1, <1>4, StandsStep
    <2>2. PICK v \in Nat, w \in Nat : v = all[k].at /\ w = all[k + 1].at /\ v <= w /\ w <= MAX
      BY <1>4, <2>1, FreeBetween
    <2>3. \A z \in Nat : v <= z /\ z <= w => z \in Unblocked(A, B)
      BY <1>4, <2>1, <2>2, FreeBetween
    <2>4. PICK r : r = [start |-> v, end |-> w]
      OBVIOUS
    <2>5. Ranged(v, w) = r /\ r \in SlotRange /\ r.start = v /\ r.end = w
      BY <2>2, <2>4, MaxAssumption DEF Ranged, SlotRange, Slot
    <2>6. out # <<>> => Last(out).end + 1 < v
      <3>1. all[k].at \in Unblocked(A, B)
        BY <2>2, <2>3
      <3> QED
        BY <1>2, <2>1, <2>2, <3>1, Gap
    <2>7. /\ after \in Seq(SlotRange) /\ after # <<>> /\ Last(after) = r
          /\ SlotsOf(after) = SlotsOf(out) \cup (v .. w)
          /\ Separated(after)
      BY <1>2, <2>1, <2>2, <2>5, <2>6, AppendedRange
    <2>8. SlotsOf(after) \subseteq Unblocked(A, B)
      BY <1>2, <2>2, <2>3, <2>7
    <2>9. ASSUME NEW z \in Unblocked(A, B), NEW p \in 1 .. k + 1, all[p].kind = "End", z <= all[p].at
          PROVE  z \in SlotsOf(after)
      <3>1. CASE p \in 1 .. k
        BY <1>3, <2>7, <2>9, <3>1
      <3>2. CASE ~(p \in 1 .. k)
        <4>1. p = k + 1
          BY <3>2
        <4>2. z \in Nat /\ z <= w
          BY <2>2, <2>9, <4>1, FreeMeans DEF Blocking
        <4>3. z \notin SlotsOf(out) => v <= z
          BY <1>2, <2>1, <2>2, <2>9, <4>1, PassedSlot
        <4>4. z \in v .. w => z \in SlotsOf(after)
          BY <2>7
        <4> QED
          BY <2>2, <2>7, <4>2, <4>3, <4>4
      <3> QED
        BY <3>1, <3>2
    <2>10. k + 1 \in 1 .. k + 1 /\ all[k + 1].kind = "End" /\ Last(after).end = all[k + 1].at
      BY <2>1, <2>2, <2>5, <2>7
    <2>11. ASSUME NEW z \in SlotsOf(after) PROVE z <= Last(after).end
      <3>1. CASE z \in SlotsOf(out)
        <4>1. z \in Nat /\ out # <<>>
          BY <1>2, <3>1, SlotsMeans, EmptySeq
        <4>2. z <= Last(out).end /\ Last(out).end \in Nat
          <5>1. z <= Last(out).end
            BY <1>2, <3>1, <4>1 DEF Yields
          <5>2. Last(out) \in SlotRange
            BY <1>2, <4>1, LastMeans
          <5> QED
            BY <5>1, <5>2, RangeMeans
        <4> QED
          <5>1. PICK a \in Nat, f \in Nat, c \in Nat : a = Last(out).end /\ f = w /\ c = v
            BY <2>2, <4>2
          <5>4. a + 1 < c /\ c <= f
            BY <2>2, <2>6, <4>1, <5>1
          <5>2. a <= f /\ f = Last(after).end
            BY <2>5, <2>7, <5>1, <5>4
          <5>3. z <= a
            BY <4>2, <5>1
          <5> QED
            BY <4>1, <5>1, <5>2, <5>3
      <3>2. CASE z \in v .. w
        BY <2>2, <2>5, <2>7, <3>2
      <3> QED
        BY <2>7, <3>1, <3>2
    <2>12. Yields(A, B, all, k + 1, after)
      BY <2>7, <2>8, <2>9, <2>10, <2>11 DEF Yields
    <2> QED
      BY <1>1, <2>12
  <1>5. CASE ~(Inside(Len(A), s, e, k) # {} /\ Inside(Len(B), x, y, k) = {})
    <2>1. after = out
      BY <1>1, <1>5, StandsStep
    <2>2. ASSUME NEW z \in Unblocked(A, B), NEW p \in 1 .. k + 1, all[p].kind = "End", z <= all[p].at
          PROVE  z \in SlotsOf(out)
      <3>1. CASE p \in 1 .. k
        BY <1>3, <2>2, <3>1
      <3>2. CASE ~(p \in 1 .. k)
        <4>1. p = k + 1
          BY <3>2
        <4> QED
          BY <1>2, <1>5, <2>2, <4>1, PassedSlot
      <3> QED
        BY <3>1, <3>2
    <2>3. \A p \in 1 .. k : p \in 1 .. k + 1
      OBVIOUS
    <2>4. out # <<>> => /\ \E p \in 1 .. k + 1 : all[p].kind = "End" /\ Last(out).end = all[p].at
                        /\ \A z \in SlotsOf(out) : z <= Last(out).end
      BY <1>2, <2>3 DEF Yields
    <2>5. Yields(A, B, all, k + 1, out)
      BY <1>2, <2>2, <2>4 DEF Yields
    <2> QED
      BY <1>1, <2>1, <2>5
  <1> QED
    BY <1>4, <1>5

\* Before the first event: the first blocked range is open if it begins with slot 0.
LEMMA BlockerBegins ==
    ASSUME NEW A, NEW blocking \in Seq(SlotRange), NEW all, NEW s, NEW e, NEW x, NEW y,
           Blocking(A, TimeMerge(blocking), all, s, e, x, y)
    PROVE  /\ Stands(A, TimeMerge(blocking), all, s, e, x, y, 0, Blocker(blocking))
           /\ Yields(A, TimeMerge(blocking), all, 0, Blocker(blocking).out)
  <1>1. PICK B : B = TimeMerge(blocking)
    OBVIOUS
  <1>2. /\ A \in Seq(SlotRange) /\ B \in Seq(SlotRange) /\ BlocksAt(A, B, all, s, e, x, y)
        /\ Alternate(Len(B), x, y)
    BY <1>1, BlocksAlternate DEF Blocking
  <1>3. Inside(Len(A), s, e, 0) = {}
    <2>1. \A i \in 1 .. Len(A) : ~(s[i] <= 0)
      <3> SUFFICES ASSUME NEW i \in 1 .. Len(A) PROVE ~(s[i] <= 0)
        OBVIOUS
      <3>1. s[i] \in 1 .. Len(all)
        BY <1>2, AvailableEvents
      <3>2. Len(all) \in Nat
        BY <1>2 DEF BlocksAt
      <3> QED
        BY <3>1, <3>2
    <2> QED
      BY <2>1 DEF Inside
  <1>4. Inside(Len(B), x, y, 0) # {} <=> \E j \in 1 .. Len(B) : B[j].start = 0
    <2>1. ASSUME NEW j \in 1 .. Len(B) PROVE j \in Inside(Len(B), x, y, 0) <=> B[j].start = 0
      <3>1. x[j] \in Nat /\ y[j] \in Nat /\ x[j] < y[j]
        BY <1>2 DEF Alternate
      <3>2. B[j].start \in Nat
        BY <1>2, RangeMeans
      <3>3. Len(all) \in Nat
        BY <1>2 DEF BlocksAt
      <3>4. x[j] = 0 <=> B[j].start = 0
        BY <1>2, <3>2, <3>3, BlockedEvents
      <3> QED
        BY <3>1, <3>4 DEF Inside
    <2>2. \A j \in Inside(Len(B), x, y, 0) : j \in 1 .. Len(B)
      BY DEF Inside
    <2> QED
      BY <2>1, <2>2
  <1>5. (\E r \in ToSet(B) : r.start = 0) <=> \E j \in 1 .. Len(B) : B[j].start = 0
    BY <1>2 DEF ToSet
  <1>6. PICK b : b = Blocker(blocking)
    OBVIOUS
  <1>7. b = [count |-> IF Inside(Len(B), x, y, 0) # {} THEN -1 ELSE 0,
             pending |-> <<>>, out |-> <<>>, panicked |-> FALSE]
    BY <1>1, <1>4, <1>5, <1>6 DEF Blocker
  <1>8. /\ b.count = (IF Inside(Len(B), x, y, 0) # {} THEN -1 ELSE 0)
        /\ b.pending = <<>> /\ b.out = <<>> /\ b.panicked = FALSE
        /\ b = [count |-> b.count, pending |-> b.pending, out |-> b.out, panicked |-> FALSE]
    BY <1>7
  <1>9. Stands(A, B, all, s, e, x, y, 0, b)
    BY <1>3, <1>8 DEF Stands
  <1>10. Yields(A, B, all, 0, <<>>)
    <2>1. <<>> \in Seq(SlotRange) /\ Separated(<<>>) /\ SlotsOf(<<>>) = {}
      BY DEF Separated, SlotsOf, ToSet
    <2> QED
      BY <2>1 DEF Yields
  <1> QED
    BY <1>1, <1>6, <1>8, <1>9, <1>10

\* After the last event it waits for nothing and has yielded all that is free.
LEMMA BlockerEnds ==
    ASSUME NEW A, NEW B, NEW all, NEW s, NEW e, NEW x, NEW y, Blocking(A, B, all, s, e, x, y),
           NEW k, k = Len(all), NEW b, Stands(A, B, all, s, e, x, y, k, b),
           Yields(A, B, all, k, b.out)
    PROVE  b.pending = <<>> /\ SlotsOf(b.out) = Unblocked(A, B)
  <1>1. BlocksAt(A, B, all, s, e, x, y) /\ A \in Seq(SlotRange) /\ B \in Seq(SlotRange)
    BY DEF Blocking
  <1>2. Len(all) \in Nat
    BY <1>1 DEF BlocksAt
  <1>3. Inside(Len(A), s, e, k) = {}
    <2> SUFFICES ASSUME NEW i \in 1 .. Len(A) PROVE ~(k < e[i])
      BY DEF Inside
    <2>1. e[i] \in 1 .. Len(all)
      BY <1>1, AvailableEvents
    <2> QED
      BY <1>2, <2>1
  <1>4. ASSUME NEW z \in Unblocked(A, B) PROVE z \in SlotsOf(b.out)
    <2>1. PICK i \in 1 .. Len(A) : A[i].start <= z /\ z <= A[i].end
      BY <1>1, FreeMeans
    <2>2. e[i] \in 1 .. Len(all) /\ all[e[i]].kind = "End" /\ all[e[i]].at = A[i].end
      BY <1>1, AvailableEvents
    <2>3. e[i] \in 1 .. k /\ z <= all[e[i]].at
      BY <2>1, <2>2
    <2> QED
      BY <2>2, <2>3 DEF Yields
  <1>5. b.pending = <<>>
    BY <1>3 DEF Stands
  <1> QED
    BY <1>4, <1>5 DEF Yields

\* Up to its largest end, which is one that it has consumed, it misses nothing.
LEMMA YieldsUpToLast ==
    ASSUME NEW A, NEW B, NEW all, NEW k, NEW out, Yields(A, B, all, k, out), out # <<>>
    PROVE  SlotsOf(out) = {z \in Unblocked(A, B) : z <= Last(out).end}
  <1>1. PICK p \in 1 .. k : all[p].kind = "End" /\ Last(out).end = all[p].at
    BY DEF Yields
  <1>2. ASSUME NEW z \in Unblocked(A, B), z <= Last(out).end PROVE z \in SlotsOf(out)
    BY <1>1, <1>2 DEF Yields
  <1>3. ASSUME NEW z \in SlotsOf(out) PROVE z \in Unblocked(A, B) /\ z <= Last(out).end
    BY DEF Yields
  <1> QED
    BY <1>2, <1>3

\* The ranges that the iterators merge, and where their events are.
LEMMA BlockEventsMean ==
    ASSUME NEW available \in Seq(SlotRange), NEW blocking \in Seq(SlotRange)
    PROVE  /\ \E s, e, x, y : Blocking(TimeMerge(available), TimeMerge(blocking),
                                       BlockEvents(available, blocking), s, e, x, y)
           /\ Unblocked(TimeMerge(available), TimeMerge(blocking)) = SlotsOf(available) \ SlotsOf(blocking)
  <1>1. PICK A, B, all : /\ A = TimeMerge(available) /\ B = TimeMerge(blocking)
                         /\ all = BlockEvents(available, blocking)
    OBVIOUS
  <1>2. A \in Seq(SlotRange) /\ Separated(A) /\ SlotsOf(A) = SlotsOf(available)
    BY <1>1, MergeMeans
  <1>3. B \in Seq(SlotRange) /\ Separated(B) /\ SlotsOf(B) = SlotsOf(blocking)
    BY <1>1, MergeMeans
  <1>4. all = Sorted(FlattenSeq(BoundsOf(A) \o [j \in DOMAIN B |-> BlockEventsOf(B[j])]))
    BY <1>1 DEF BlockEvents
  <1>5. PICK s, e, x, y : BlocksAt(A, B, all, s, e, x, y)
    BY <1>2, <1>3, <1>4, BlockEventsAre
  <1>6. Blocking(A, B, all, s, e, x, y)
    BY <1>2, <1>3, <1>5 DEF Blocking
  <1> QED
    BY <1>1, <1>2, <1>3, <1>6 DEF Unblocked

\* The Blocker consumes one event after the other.
LEMMA BlockRunSteps ==
    ASSUME NEW first, NEW events, Len(events) \in Nat
    PROVE  /\ BlockRun(first, events)[0] = first
           /\ \A k \in 0 .. Len(events) - 1 :
                 BlockRun(first, events)[k + 1] = BlockStep(BlockRun(first, events)[k], events[k + 1])
  <1>1. PICK n \in Nat : n = Len(events)
    OBVIOUS
  <1> DEFINE Runs(f, k) == f = [i \in 0 .. k |-> IF i = 0 THEN first ELSE BlockStep(f[i - 1], events[i])]
             T == {k \in 0 .. n : \E f : Runs(f, k)}
  <1>2. 0 \in T
    <2>1. PICK f : f = [i \in 0 .. 0 |-> first]
      OBVIOUS
    <2>2. \A i \in 0 .. 0 : i = 0
      OBVIOUS
    <2>3. Runs(f, 0)
      BY <2>1, <2>2
    <2>4. 0 \in 0 .. n
      OBVIOUS
    <2> QED
      BY <2>3, <2>4
  <1>3. ASSUME NEW k \in 0 .. n - 1, k \in T PROVE k + 1 \in T
    <2>1. PICK f : Runs(f, k)
      BY <1>3
    <2> DEFINE g == [i \in 0 .. k + 1 |-> IF i = k + 1 THEN BlockStep(f[k], events[k + 1]) ELSE f[i]]
    <2>4. ASSUME NEW i \in 0 .. k + 1
          PROVE  g[i] = IF i = 0 THEN first ELSE BlockStep(g[i - 1], events[i])
      <3>1. CASE i = k + 1
        <4>1. g[i] = BlockStep(f[k], events[k + 1]) /\ i # 0 /\ g[i - 1] = f[k]
          BY <3>1
        <4> QED
          BY <3>1, <4>1
      <3>2. CASE i # k + 1
        <4>1. i \in 0 .. k /\ g[i] = f[i] /\ (i # 0 => g[i - 1] = f[i - 1])
          BY <3>2
        <4>2. f[i] = IF i = 0 THEN first ELSE BlockStep(f[i - 1], events[i])
          BY <2>1, <4>1
        <4> QED
          BY <4>1, <4>2
      <3> QED
        BY <3>1, <3>2
    <2>5. g = [i \in 0 .. k + 1 |-> g[i]]
      OBVIOUS
    <2> HIDE DEF g
    <2>6. [i \in 0 .. k + 1 |-> g[i]] =
             [i \in 0 .. k + 1 |-> IF i = 0 THEN first ELSE BlockStep(g[i - 1], events[i])]
      BY <2>4, Zenon
    <2>7. Runs(g, k + 1)
      BY <2>5, <2>6, Zenon
    <2>8. k + 1 \in 0 .. n
      OBVIOUS
    <2> QED
      BY <2>7, <2>8
  <1>4. n \in T
    <2> HIDE DEF T
    <2>1. 0 .. n \subseteq T
      BY <1>2, <1>3, UpToN
    <2> QED
      BY <2>1
  <1> DEFINE Means(h) ==
                h = [i \in 0 .. Len(events) |-> IF i = 0 THEN first ELSE BlockStep(h[i - 1], events[i])]
             run == CHOOSE h : Means(h)
  <1>5. PICK f : Means(f)
    BY <1>1, <1>4
  <1>6. Means(run)
    BY <1>5
  <1>7. BlockRun(first, events) = run
    BY DEF BlockRun
  <1> HIDE DEF run
  <1>8. 0 \in 0 .. n /\ run[0] = first
    BY <1>1, <1>6
  <1>9. ASSUME NEW k \in 0 .. n - 1 PROVE run[k + 1] = BlockStep(run[k], events[k + 1])
    <2>1. k + 1 \in 0 .. n /\ k + 1 # 0 /\ k + 1 - 1 = k
      OBVIOUS
    <2>2. run[k + 1] = IF k + 1 = 0 THEN first ELSE BlockStep(run[k + 1 - 1], events[k + 1])
      BY <1>1, <1>6, <2>1
    <2> QED
      BY <2>1, <2>2
  <1> QED
    BY <1>1, <1>7, <1>8, <1>9

\* What Blocks leaves is what is available and not blocked.
LEMMA BlocksMean ==
    ASSUME NEW available \in Seq(SlotRange), NEW blocking \in Seq(SlotRange)
    PROVE  /\ BlocksRun(available, blocking).out \in Seq(SlotRange)
           /\ Separated(BlocksRun(available, blocking).out)
           /\ SlotsOf(BlocksRun(available, blocking).out) = SlotsOf(available) \ SlotsOf(blocking)
  <1>1. PICK A, B, all : /\ A = TimeMerge(available) /\ B = TimeMerge(blocking)
                         /\ all = BlockEvents(available, blocking)
    OBVIOUS
  <1>2. PICK s, e, x, y : Blocking(A, B, all, s, e, x, y)
    BY <1>1, BlockEventsMean
  <1>3. PICK n \in Nat : n = Len(all)
    <2>1. BlocksAt(A, B, all, s, e, x, y)
      BY <1>2 DEF Blocking
    <2>2. Len(all) \in Nat
      BY <2>1 DEF BlocksAt
    <2> QED
      BY <2>2
  <1>4. PICK run : run = BlockRun(Blocker(blocking), all)
    OBVIOUS
  <1>5. run[0] = Blocker(blocking) /\ \A k \in 0 .. n - 1 : run[k + 1] = BlockStep(run[k], all[k + 1])
    BY <1>3, <1>4, BlockRunSteps
  <1> DEFINE T == {k \in 0 .. n : /\ Stands(A, B, all, s, e, x, y, k, run[k])
                                  /\ Yields(A, B, all, k, run[k].out)}
  <1>6. 0 \in T
    BY <1>1, <1>2, <1>5, BlockerBegins
  <1>7. ASSUME NEW k \in 0 .. n - 1, k \in T PROVE k + 1 \in T
    <2>1. Stands(A, B, all, s, e, x, y, k, run[k]) /\ Yields(A, B, all, k, run[k].out)
      BY <1>7
    <2>2. k \in Nat /\ k + 1 \in 1 .. Len(all) /\ k + 1 \in 0 .. n
      BY <1>3
    <2>3. Stands(A, B, all, s, e, x, y, k + 1, BlockStep(run[k], all[k + 1]))
      BY <1>2, <2>1, <2>2, StandsStep
    <2>4. Yields(A, B, all, k + 1, BlockStep(run[k], all[k + 1]).out)
      BY <1>2, <2>1, <2>2, YieldsStep
    <2> QED
      BY <1>5, <2>2, <2>3, <2>4
  <1>8. n \in T
    <2> HIDE DEF T
    <2>1. 0 .. n \subseteq T
      BY <1>6, <1>7, UpToN
    <2> QED
      BY <2>1
  <1>9. SlotsOf(run[n].out) = Unblocked(A, B)
    BY <1>2, <1>3, <1>8, BlockerEnds
  <1>10. BlocksRun(available, blocking) = run[n]
    BY <1>1, <1>3, <1>4 DEF BlocksRun
  <1>11. run[n].out \in Seq(SlotRange) /\ Separated(run[n].out)
    BY <1>8 DEF Yields
  <1> QED
    BY <1>1, <1>9, <1>10, <1>11, BlockEventsMean
-----------------------------------------------------------------------------
(* The ranges that hold a meeting, and the windows in them. *)

\* Those of the first n ranges that are long enough are kept.
Held(rs, duration, n, kept) ==
    /\ kept \in Seq(SlotRange) /\ Separated(kept)
    /\ \A h \in 1 .. Len(kept) : \E i \in 1 .. n : kept[h] = rs[i] /\ LongEnough(rs[i], duration)
    /\ \A i \in 1 .. n : LongEnough(rs[i], duration) => \E h \in 1 .. Len(kept) : kept[h] = rs[i]
    /\ kept # <<>> => n \in 1 .. Len(rs) /\ Last(kept).end <= rs[n].end

\* Looking at one more range keeps what is said of those before it.
LEMMA HeldStep ==
    ASSUME NEW rs \in Seq(SlotRange), Separated(rs), NEW duration, NEW n \in Nat, n + 1 \in 1 .. Len(rs),
           NEW kept, Held(rs, duration, n, kept)
    PROVE  Held(rs, duration, n + 1, KeepLong(kept, rs[n + 1], duration))
  <1>1. PICK r : r = rs[n + 1]
    OBVIOUS
  <1>2. r \in SlotRange
    BY <1>1
  <1>3. kept \in Seq(SlotRange) /\ Separated(kept)
    BY DEF Held
  <1>4. kept # <<>> => Last(kept).end + 1 < r.start
    <2> SUFFICES ASSUME kept # <<>> PROVE Last(kept).end + 1 < r.start
      OBVIOUS
    <2>1. n \in 1 .. Len(rs) /\ Last(kept).end <= rs[n].end
      BY DEF Held
    <2>2. n \in 1 .. Len(rs) - 1
      BY <2>1
    <2>3. rs[n].end + 1 < r.start
      BY <1>1, <2>2 DEF Separated
    <2>4. PICK a \in Nat, b \in Nat : a = Last(kept).end /\ b = rs[n].end
      <3>1. Last(kept) \in SlotRange
        BY <1>3, LastMeans
      <3>2. Last(kept).end \in Nat
        BY <3>1, RangeMeans
      <3>3. rs[n].end \in Nat
        BY <2>1, RangeMeans
      <3> QED
        BY <3>2, <3>3
    <2>5. PICK c \in Nat : c = r.start
      BY <1>2, RangeMeans
    <2>6. a <= b /\ b + 1 < c
      BY <2>1, <2>3, <2>4, <2>5
    <2>7. a + 1 < c
      BY <2>6
    <2> QED
      BY <2>4, <2>5, <2>7
  <1>5. \A i \in 1 .. n + 1 : i \in 1 .. n \/ i = n + 1
    OBVIOUS
  <1>6. \A i \in 1 .. n : i \in 1 .. n + 1
    OBVIOUS
  <1>7. n + 1 \in 1 .. n + 1
    OBVIOUS
  <1>8. CASE LongEnough(r, duration)
    <2>1. PICK next : next = Append(kept, r)
      OBVIOUS
    <2>2. next \in Seq(SlotRange) /\ next # <<>> /\ Last(next) = r /\ Separated(next)
      BY <1>2, <1>3, <1>4, <2>1, AppendedRange
    <2>3. PICK m \in Nat : m = Len(kept)
      BY <1>3
    <2>4. Len(next) = m + 1 /\ next[m + 1] = r /\ \A h \in 1 .. m : next[h] = kept[h]
      BY <1>2, <1>3, <2>1, <2>3
    <2>5. \A h \in 1 .. m + 1 : h \in 1 .. m \/ h = m + 1
      OBVIOUS
    <2>6. \A h \in 1 .. m : h \in 1 .. m + 1
      OBVIOUS
    <2>7. m + 1 \in 1 .. m + 1
      OBVIOUS
    <2>8. ASSUME NEW h \in 1 .. m + 1
          PROVE  \E i \in 1 .. n + 1 : next[h] = rs[i] /\ LongEnough(rs[i], duration)
      <3>1. CASE h = m + 1
        BY <1>1, <1>7, <1>8, <2>4, <3>1
      <3>2. CASE h \in 1 .. m
        <4>1. PICK i \in 1 .. n : kept[h] = rs[i] /\ LongEnough(rs[i], duration)
          BY <2>3, <3>2 DEF Held
        <4> QED
          BY <1>6, <2>4, <3>2, <4>1
      <3> QED
        BY <2>5, <3>1, <3>2
    <2>9. ASSUME NEW i \in 1 .. n + 1, LongEnough(rs[i], duration)
          PROVE  \E h \in 1 .. m + 1 : next[h] = rs[i]
      <3>1. CASE i = n + 1
        BY <1>1, <2>4, <2>7, <3>1
      <3>2. CASE i \in 1 .. n
        <4>1. PICK h \in 1 .. m : kept[h] = rs[i]
          BY <2>3, <2>9, <3>2 DEF Held
        <4> QED
          BY <2>4, <2>6, <4>1
      <3> QED
        BY <1>5, <3>1, <3>2
    <2>10. r.end <= rs[n + 1].end
      BY <1>1, <1>2, RangeMeans
    <2>11. Held(rs, duration, n + 1, next)
      BY <2>2, <2>4, <2>8, <2>9, <2>10 DEF Held
    <2> QED
      BY <1>1, <1>8, <2>1, <2>11 DEF KeepLong
  <1>9. CASE ~LongEnough(r, duration)
    <2>1. \A h \in 1 .. Len(kept) :
             \E i \in 1 .. n + 1 : kept[h] = rs[i] /\ LongEnough(rs[i], duration)
      BY <1>6 DEF Held
    <2>2. \A i \in 1 .. n + 1 : LongEnough(rs[i], duration) => \E h \in 1 .. Len(kept) : kept[h] = rs[i]
      BY <1>1, <1>5, <1>9 DEF Held
    <2>3. kept # <<>> => Last(kept).end <= r.end
      <3> SUFFICES ASSUME kept # <<>> PROVE Last(kept).end <= r.end
        OBVIOUS
      <3>1. Last(kept) \in SlotRange
        BY <1>3, LastMeans
      <3>2. Last(kept).end \in Nat
        BY <3>1, RangeMeans
      <3>3. r.start \in Nat /\ r.end \in Nat /\ r.start <= r.end
        BY <1>2, RangeMeans
      <3> QED
        BY <1>4, <3>2, <3>3
    <2>4. Held(rs, duration, n + 1, kept)
      BY <1>1, <1>3, <2>1, <2>2, <2>3 DEF Held
    <2> QED
      BY <1>1, <1>9, <2>4 DEF KeepLong
  <1> QED
    BY <1>8, <1>9

\* get_availability keeps the ranges that are long enough, and no other.
LEMMA HoldingMeans ==
    ASSUME NEW rs \in Seq(SlotRange), Separated(rs), NEW duration
    PROVE  Held(rs, duration, Len(rs), Holding(rs, duration))
  <1>1. PICK n \in Nat : n = Len(rs)
    OBVIOUS
  <1> DEFINE Runs(f, k) == f = [i \in 0 .. k |-> IF i = 0 THEN <<>> ELSE KeepLong(f[i - 1], rs[i], duration)]
             T == {k \in 0 .. n : \E f : Runs(f, k)}
  <1>2. 0 \in T
    <2>1. PICK f : f = [i \in 0 .. 0 |-> <<>>]
      OBVIOUS
    <2>2. \A i \in 0 .. 0 : i = 0
      OBVIOUS
    <2>3. Runs(f, 0)
      BY <2>1, <2>2
    <2>4. 0 \in 0 .. n
      OBVIOUS
    <2> QED
      BY <2>3, <2>4
  <1>3. ASSUME NEW k \in 0 .. n - 1, k \in T PROVE k + 1 \in T
    <2>1. PICK f : Runs(f, k)
      BY <1>3
    <2> DEFINE g == [i \in 0 .. k + 1 |-> IF i = k + 1 THEN KeepLong(f[k], rs[k + 1], duration) ELSE f[i]]
    <2>4. ASSUME NEW i \in 0 .. k + 1
          PROVE  g[i] = IF i = 0 THEN <<>> ELSE KeepLong(g[i - 1], rs[i], duration)
      <3>1. CASE i = k + 1
        <4>1. g[i] = KeepLong(f[k], rs[k + 1], duration) /\ i # 0 /\ g[i - 1] = f[k]
          BY <3>1
        <4> QED
          BY <3>1, <4>1
      <3>2. CASE i # k + 1
        <4>1. i \in 0 .. k /\ g[i] = f[i] /\ (i # 0 => g[i - 1] = f[i - 1])
          BY <3>2
        <4>2. f[i] = IF i = 0 THEN <<>> ELSE KeepLong(f[i - 1], rs[i], duration)
          BY <2>1, <4>1
        <4> QED
          BY <4>1, <4>2
      <3> QED
        BY <3>1, <3>2
    <2>5. g = [i \in 0 .. k + 1 |-> g[i]]
      OBVIOUS
    <2> HIDE DEF g
    <2>6. [i \in 0 .. k + 1 |-> g[i]] =
             [i \in 0 .. k + 1 |-> IF i = 0 THEN <<>> ELSE KeepLong(g[i - 1], rs[i], duration)]
      BY <2>4, Zenon
    <2>7. Runs(g, k + 1)
      BY <2>5, <2>6, Zenon
    <2>8. k + 1 \in 0 .. n
      OBVIOUS
    <2> QED
      BY <2>7, <2>8
  <1>4. n \in T
    <2> HIDE DEF T
    <2>1. 0 .. n \subseteq T
      BY <1>2, <1>3, UpToN
    <2> QED
      BY <2>1
  <1> DEFINE Means(h) ==
                h = [i \in 0 .. Len(rs) |-> IF i = 0 THEN <<>> ELSE KeepLong(h[i - 1], rs[i], duration)]
             held == CHOOSE h : Means(h)
  <1>5. PICK f : Means(f)
    BY <1>1, <1>4
  <1>6. Means(held)
    BY <1>5
  <1>7. Holding(rs, duration) = held[n]
    BY <1>1 DEF Holding
  <1> HIDE DEF held
  <1>8. 0 \in 0 .. n /\ held[0] = <<>>
    BY <1>1, <1>6
  <1>9. ASSUME NEW k \in 0 .. n - 1 PROVE held[k + 1] = KeepLong(held[k], rs[k + 1], duration)
    <2>1. k + 1 \in 0 .. n /\ k + 1 # 0 /\ k + 1 - 1 = k
      OBVIOUS
    <2>2. held[k + 1] = IF k + 1 = 0 THEN <<>> ELSE KeepLong(held[k + 1 - 1], rs[k + 1], duration)
      BY <1>1, <1>6, <2>1
    <2> QED
      BY <2>1, <2>2
  <1> HIDE DEF Means
  <1> DEFINE U == {k \in 0 .. n : Held(rs, duration, k, held[k])}
  <1>10. 0 \in U
    <2>1. <<>> \in Seq(SlotRange) /\ Separated(<<>>)
      BY DEF Separated
    <2>2. \A h \in 1 .. Len(<<>>) : FALSE
      OBVIOUS
    <2>3. \A i \in 1 .. 0 : FALSE
      OBVIOUS
    <2>4. Held(rs, duration, 0, <<>>)
      BY <2>1, <2>2, <2>3 DEF Held
    <2> QED
      BY <1>8, <2>4
  <1>11. ASSUME NEW k \in 0 .. n - 1, k \in U PROVE k + 1 \in U
    <2>1. k + 1 \in 0 .. n /\ k \in Nat /\ k + 1 \in 1 .. n
      OBVIOUS
    <2>2. PICK before, after : before = held[k] /\ after = held[k + 1]
      OBVIOUS
    <2>3. after = KeepLong(before, rs[k + 1], duration)
      BY <1>9, <2>2
    <2>4. Held(rs, duration, k, before)
      BY <1>11, <2>2
    <2>5. Held(rs, duration, k + 1, after)
      BY <1>1, <2>1, <2>3, <2>4, HeldStep
    <2> QED
      BY <2>1, <2>2, <2>5
  <1>12. n \in U
    <2> HIDE DEF U
    <2>1. 0 .. n \subseteq U
      BY <1>10, <1>11, UpToN
    <2> QED
      BY <2>1
  <1> QED
    BY <1>1, <1>7, <1>12

\* A slot that is in none of the ranges next to it is where a range ends.
LEMMA UnbrokenRange ==
    ASSUME NEW rs \in Seq(SlotRange), Separated(rs), NEW a \in Nat, NEW b \in Nat, a <= b,
           a .. b \subseteq SlotsOf(rs)
    PROVE  \E j \in 1 .. Len(rs) : rs[j].start <= a /\ b <= rs[j].end
  <1>1. ASSUME NEW z \in Nat, a <= z, z <= b
        PROVE  \E i \in 1 .. Len(rs) : rs[i].start <= z /\ z <= rs[i].end
    <2>1. z \in a .. b
      BY <1>1
    <2>2. z \in SlotsOf(rs)
      BY <2>1
    <2> QED
      BY <2>2, SlotsMeans
  <1>2. PICK j \in 1 .. Len(rs) : rs[j].start <= a /\ a <= rs[j].end
    BY <1>1
  <1>3. PICK p \in Nat, q \in Nat : p = rs[j].start /\ q = rs[j].end
    BY <1>2, RangeMeans
  <1>4. PICK n \in Nat : n = b - a
    OBVIOUS
  <1> DEFINE T == {k \in 0 .. n : a + k <= q}
  <1>5. 0 \in T
    BY <1>2, <1>3
  <1>6. ASSUME NEW k \in 0 .. n - 1, k \in T PROVE k + 1 \in T
    <2> SUFFICES ASSUME a + k = q PROVE FALSE
      BY <1>3, <1>6
    <2>1. PICK z \in Nat : z = q + 1 /\ a <= z /\ z <= b
      BY <1>3, <1>4
    <2>2. PICK i \in 1 .. Len(rs) : rs[i].start <= z /\ z <= rs[i].end
      BY <1>1, <2>1
    <2>3. PICK v \in Nat, w \in Nat : v = rs[i].start /\ w = rs[i].end
      <3>1. rs[i] \in SlotRange
        BY <2>2
      <3>2. rs[i].start \in Nat /\ rs[i].end \in Nat
        BY <3>1, RangeMeans
      <3> QED
        BY <3>2
    <2>4. CASE i < j
      <3>0. rs[i].end + 1 < rs[j].start
        BY <1>2, <2>2, <2>4, ApartMeans
      <3>1. w + 1 < p
        BY <1>3, <2>3, <3>0
      <3>2. z <= w /\ p <= a /\ a <= z
        BY <1>2, <1>3, <2>1, <2>2, <2>3
      <3> QED
        BY <3>1, <3>2
    <2>5. CASE j < i
      <3>0. rs[j].end + 1 < rs[i].start
        BY <1>2, <2>2, <2>5, ApartMeans
      <3>1. q + 1 < v
        BY <1>3, <2>3, <3>0
      <3> QED
        BY <2>1, <2>2, <2>3, <3>1
    <2>6. CASE i = j
      <3>1. w = q
        BY <1>3, <2>3, <2>6
      <3> QED
        BY <1>3, <2>1, <2>2, <2>3, <3>1
    <2>7. i < j \/ j < i \/ i = j
      BY <1>2, <2>2
    <2> QED
      BY <2>4, <2>5, <2>6, <2>7
  <1>7. n \in T
    <2> HIDE DEF T
    <2>1. 0 .. n \subseteq T
      BY <1>5, <1>6, UpToN
    <2> QED
      BY <2>1
  <1>8. b <= q
    BY <1>4, <1>7
  <1> QED
    BY <1>2, <1>3, <1>8
-----------------------------------------------------------------------------
(* The TimeWindow. *)

\* A window of a duration in a range; not the one the iteration cannot reach.
Within(r, d, w) == /\ w.end = w.start + (d - 1) /\ r.start <= w.start /\ w.end <= r.end
                   /\ w.start # MAX

\* What has been yielded of the first k ranges.
Walked(kept, d, k, acc) ==
    /\ acc = [out |-> acc.out, stopped |-> acc.stopped] /\ acc.stopped \in BOOLEAN
    /\ acc.out \in Seq(SlotRange)
    /\ \A i \in 1 .. Len(acc.out) - 1 : acc.out[i].start < acc.out[i + 1].start
    /\ \A i \in 1 .. Len(acc.out) : \E h \in 1 .. k : Within(kept[h], d, acc.out[i])
    /\ \A w \in SlotRange, h \in 1 .. k :
          Within(kept[h], d, w) => \E i \in 1 .. Len(acc.out) : acc.out[i] = w
    /\ acc.stopped => k \in 1 .. Len(kept) /\ kept[k].end = MAX

\* The windows that one range adds.
NewWindows(r, d, old, next, new) ==
    /\ new \in Seq(SlotRange)
    /\ next = [out |-> old \o new, stopped |-> next.stopped]
    /\ next.stopped \in BOOLEAN
    /\ next.stopped => r.end = MAX
    /\ \A i \in 1 .. Len(new) : new[i].start = r.start + i - 1 /\ Within(r, d, new[i])
    /\ \A w \in SlotRange : Within(r, d, w) => \E i \in 1 .. Len(new) : new[i] = w

\* The windows of one range.
LEMMA RangeWindows ==
    ASSUME NEW d \in Nat, d >= 1, d <= MAX, NEW r \in SlotRange, LongEnough(r, d), NEW acc,
           acc.stopped = FALSE
    PROVE  \E new : NewWindows(r, d, acc.out, WindowStep(acc, r, d), new)
  <1>1. PICK a, b : a = r.start /\ b = r.end
    OBVIOUS
  <1>2. a \in Nat /\ b \in Nat /\ a <= b /\ b <= MAX
    BY <1>1, RangeMeans
  <1>3. b - a + 1 > MAX \/ b - a + 1 >= d
    BY <1>1 DEF LongEnough
  <1>4. b - a + 1 >= d
    BY <1>2, <1>3, MaxAssumption
  <1>5. PICK last : last = IF b = MAX /\ d = 1 THEN MAX - 1 ELSE b - (d - 1)
    OBVIOUS
  <1>6. last \in Int /\ last - a + 1 >= 0 /\ last + (d - 1) <= b
        /\ (d = 1 => last < MAX)
    BY <1>2, <1>4, <1>5, MaxAssumption
  <1>7. PICK m \in Nat : m = last - a + 1
    BY <1>2, <1>6
  <1>8. PICK new : new = [i \in 1 .. m |-> [start |-> a + i - 1, end |-> a + i - 1 + (d - 1)]]
    OBVIOUS
  <1>9. ASSUME NEW i \in 1 .. m
        PROVE  /\ Ranged(a + i - 1, a + i - 1 + (d - 1)) = new[i]
               /\ new[i].start = a + i - 1 /\ new[i].end = a + i - 1 + (d - 1)
               /\ new[i] \in SlotRange
               /\ Within(r, d, new[i])
    <2>1. PICK v \in Nat, w \in Nat : v = a + i - 1 /\ w = a + i - 1 + (d - 1)
      BY <1>2
    <2>2. v <= w /\ w = v + (d - 1) /\ a <= v /\ v <= last
      BY <1>2, <1>6, <1>7, <2>1
    <2>3. w <= b /\ v # MAX
      <3>1. w <= b
        BY <1>2, <1>6, <2>2
      <3>2. CASE d = 1
        BY <1>6, <2>2, <3>1, <3>2, MaxAssumption
      <3>3. CASE d # 1
        BY <1>2, <2>2, <3>1, <3>3, MaxAssumption
      <3> QED
        BY <3>1, <3>2, <3>3
    <2>4. new[i] = [start |-> v, end |-> w]
      BY <1>8, <2>1
    <2>5. Ranged(v, w) = new[i]
      BY <2>2, <2>4 DEF Ranged
    <2>6. new[i].start = v /\ new[i].end = w
      BY <2>4
    <2>7. new[i] \in SlotRange
      BY <1>2, <2>2, <2>3, <2>4, MaxAssumption DEF SlotRange, Slot
    <2>8. Within(r, d, new[i])
      BY <1>1, <2>2, <2>3, <2>6 DEF Within
    <2> QED
      BY <2>1, <2>5, <2>6, <2>7, <2>8
  <1>10. new \in Seq(SlotRange) /\ Len(new) = m
    BY <1>8, <1>9
  <1>11. [i \in 1 .. last - a + 1 |-> Ranged(a + i - 1, a + i - 1 + (d - 1))] = new
    <2>1. \A i \in 1 .. m : Ranged(a + i - 1, a + i - 1 + (d - 1)) =
                               [start |-> a + i - 1, end |-> a + i - 1 + (d - 1)]
      BY <1>8, <1>9
    <2>2. [i \in 1 .. m |-> Ranged(a + i - 1, a + i - 1 + (d - 1))] = new
      BY <1>8, <2>1, Zenon
    <2> QED
      BY <1>7, <2>2
  <1>12. PICK stopped : stopped = (r.end = MAX \/ r.start + (d - 1) > MAX)
    OBVIOUS
  <1>13. WindowStep(acc, r, d) = [out |-> acc.out \o new, stopped |-> stopped]
    BY <1>1, <1>5, <1>11, <1>12 DEF WindowStep
  <1>14. stopped \in BOOLEAN /\ (stopped => r.end = MAX)
    <2>1. ~(a + (d - 1) > MAX)
      BY <1>2, <1>4, MaxAssumption
    <2> QED
      BY <1>1, <1>12, <2>1
  <1>15. ASSUME NEW w \in SlotRange, Within(r, d, w) PROVE \E i \in 1 .. m : new[i] = w
    <2>1. PICK v \in Nat, z \in Nat : v = w.start /\ z = w.end /\ v <= z /\ z <= MAX
                                      /\ w = [start |-> v, end |-> z]
      BY RangeMeans
    <2>2. z = v + (d - 1) /\ a <= v /\ z <= b /\ v # MAX
      BY <1>1, <1>15, <2>1 DEF Within
    <2>3. v <= last
      BY <1>2, <1>5, <2>1, <2>2, MaxAssumption
    <2>4. PICK i : i = v - a + 1
      OBVIOUS
    <2>5. i \in 1 .. m /\ a + i - 1 = v
      BY <1>2, <1>6, <1>7, <2>1, <2>2, <2>3, <2>4
    <2>6. new[i] = [start |-> v, end |-> z]
      BY <1>8, <2>2, <2>5
    <2> QED
      BY <2>1, <2>5, <2>6
  <1>16. PICK next : next = WindowStep(acc, r, d)
    OBVIOUS
  <1>17. next.stopped = stopped /\ next = [out |-> acc.out \o new, stopped |-> next.stopped]
    BY <1>13, <1>16
  <1>18. \A i \in 1 .. m : new[i].start = r.start + i - 1 /\ Within(r, d, new[i])
    BY <1>1, <1>9
  <1>19. NewWindows(r, d, acc.out, next, new)
    BY <1>10, <1>14, <1>15, <1>17, <1>18 DEF NewWindows
  <1> QED
    BY <1>16, <1>19

\* One more range: its windows come after all those before.
LEMMA WalkedStep ==
    ASSUME NEW d \in Nat, d >= 1, d <= MAX, NEW kept \in Seq(SlotRange), Separated(kept),
           NEW k \in Nat, k + 1 \in 1 .. Len(kept), LongEnough(kept[k + 1], d),
           NEW acc, Walked(kept, d, k, acc)
    PROVE  Walked(kept, d, k + 1, WindowStep(acc, kept[k + 1], d))
  <1>1. PICK r \in SlotRange : r = kept[k + 1]
    OBVIOUS
  <1>2. PICK out : out = acc.out
    OBVIOUS
  <1>3. /\ out \in Seq(SlotRange)
        /\ \A i \in 1 .. Len(out) - 1 : out[i].start < out[i + 1].start
        /\ \A i \in 1 .. Len(out) : \E h \in 1 .. k : Within(kept[h], d, out[i])
        /\ \A w \in SlotRange, h \in 1 .. k :
              Within(kept[h], d, w) => \E i \in 1 .. Len(out) : out[i] = w
    BY <1>2 DEF Walked
  <1>4. \A h \in 1 .. k : kept[h].end + 1 < r.start /\ kept[h] \in SlotRange
    <2> SUFFICES ASSUME NEW h \in 1 .. k PROVE kept[h].end + 1 < r.start /\ kept[h] \in SlotRange
      OBVIOUS
    <2>1. h \in 1 .. Len(kept) /\ h < k + 1
      OBVIOUS
    <2> QED
      BY <1>1, <2>1, ApartMeans
  <1>5. acc.stopped = FALSE
    <2> SUFFICES ASSUME acc.stopped # FALSE PROVE FALSE
      OBVIOUS
    <2>0. acc.stopped
      <3>1. acc.stopped \in BOOLEAN
        BY DEF Walked
      <3> QED
        BY <3>1
    <2>1. k \in 1 .. k /\ kept[k].end = MAX
      <3>1. k \in 1 .. Len(kept) /\ kept[k].end = MAX
        BY <2>0 DEF Walked
      <3> QED
        BY <3>1
    <2>2. MAX + 1 < r.start
      BY <1>4, <2>1
    <2>3. r.start \in Nat /\ r.end \in Nat /\ r.start <= r.end /\ r.end <= MAX
      BY <1>1, RangeMeans
    <2> QED
      BY <2>2, <2>3, MaxAssumption
  <1>6. PICK next : next = WindowStep(acc, r, d)
    OBVIOUS
  <1>7. PICK new : NewWindows(r, d, out, next, new)
    BY <1>1, <1>2, <1>5, <1>6, RangeWindows
  <1>8. new \in Seq(SlotRange)
    BY <1>7 DEF NewWindows
  <1>9. next = [out |-> out \o new, stopped |-> next.stopped]
    BY <1>7 DEF NewWindows
  <1>10. next.stopped \in BOOLEAN /\ (next.stopped => r.end = MAX)
    BY <1>7 DEF NewWindows
  <1>11. out \in Seq(SlotRange)
    BY <1>3
  <1>12. PICK m \in Nat : m = Len(new)
    BY <1>8
  <1>13. /\ \A i \in 1 .. m : new[i].start = r.start + i - 1 /\ Within(r, d, new[i])
         /\ \A w \in SlotRange : Within(r, d, w) => \E i \in 1 .. m : new[i] = w
    BY <1>7, <1>12 DEF NewWindows
  <1>14. PICK l \in Nat : l = Len(out)
    BY <1>3
  <1>15. PICK all : all = out \o new
    OBVIOUS
  <1>16. /\ all \in Seq(SlotRange) /\ Len(all) = l + m
         /\ \A i \in 1 .. l + m : all[i] = IF i <= l THEN out[i] ELSE new[i - l]
    <2>1. /\ Len(all) = Len(out) + Len(new)
          /\ \A i \in 1 .. Len(out) + Len(new) : all[i] = IF i <= Len(out) THEN out[i] ELSE new[i - Len(out)]
      BY <1>8, <1>15, <1>11, ConcatProperties
    <2>2. all \in Seq(SlotRange)
      BY <1>8, <1>15, <1>11
    <2> QED
      BY <1>12, <1>14, <2>1, <2>2
  <1>17. \A i \in 1 .. l : i \in 1 .. l + m /\ all[i] = out[i]
    BY <1>16
  <1>18. \A i \in 1 .. m : l + i \in 1 .. l + m /\ all[l + i] = new[i]
    <2> SUFFICES ASSUME NEW i \in 1 .. m PROVE l + i \in 1 .. l + m /\ all[l + i] = new[i]
      OBVIOUS
    <2>1. l + i \in 1 .. l + m /\ ~(l + i <= l) /\ l + i - l = i
      OBVIOUS
    <2> QED
      BY <1>16, <2>1
  <1>19. \A i \in 1 .. l + m : i \in 1 .. l \/ \E j \in 1 .. m : i = l + j
    <2> SUFFICES ASSUME NEW i \in 1 .. l + m, ~(i \in 1 .. l) PROVE \E j \in 1 .. m : i = l + j
      OBVIOUS
    <2>1. i - l \in 1 .. m /\ i = l + (i - l)
      OBVIOUS
    <2> QED
      BY <2>1
  <1>20. ASSUME NEW i \in 1 .. l PROVE out[i].start < r.start
    <2>1. PICK h \in 1 .. k : Within(kept[h], d, out[i])
      BY <1>3, <1>14
    <2>2. out[i] \in SlotRange
      BY <1>3, <1>14
    <2>3. PICK v \in Nat, z \in Nat, c \in Nat, f \in Nat :
             v = out[i].start /\ z = out[i].end /\ c = kept[h].end /\ f = r.start
      <3>1. out[i].start \in Nat /\ out[i].end \in Nat
        BY <2>2, RangeMeans
      <3>2. kept[h].end \in Nat
        BY <1>4, RangeMeans
      <3>3. r.start \in Nat
        BY <1>1, RangeMeans
      <3> QED
        BY <3>1, <3>2, <3>3
    <2>4. v <= z /\ z <= c
      <3>1. v <= z
        BY <2>2, <2>3, RangeMeans
      <3> QED
        BY <2>1, <2>3, <3>1 DEF Within
    <2>5. c + 1 < f
      BY <1>4, <2>3
    <2>6. v < f
      BY <2>4, <2>5
    <2> QED
      BY <2>3, <2>6
  <1>21. ASSUME NEW i \in 1 .. l + m - 1 PROVE all[i].start < all[i + 1].start
    <2>1. CASE i \in 1 .. l - 1
      <3>1. i \in 1 .. l /\ i + 1 \in 1 .. l
        BY <2>1
      <3> QED
        BY <1>3, <1>14, <1>17, <2>1, <3>1
    <2>2. CASE i = l
      <3>1. i \in 1 .. l /\ 1 \in 1 .. m /\ i + 1 = l + 1
        BY <2>2
      <3>2. all[i + 1] = new[1] /\ all[i] = out[i]
        BY <1>17, <1>18, <3>1
      <3>3. new[1].start = r.start
        <4>1. r.start \in Nat
          BY <1>1, RangeMeans
        <4>2. new[1].start = r.start + 1 - 1
          BY <1>13, <3>1
        <4> QED
          BY <4>1, <4>2
      <3> QED
        BY <1>20, <3>1, <3>2, <3>3
    <2>3. CASE i \in l + 1 .. l + m - 1
      <3>1. PICK j : j = i - l
        OBVIOUS
      <3>2. j \in 1 .. m /\ j + 1 \in 1 .. m /\ i = l + j /\ i + 1 = l + (j + 1)
        BY <2>3, <3>1
      <3>3. all[i] = new[j] /\ all[i + 1] = new[j + 1]
        BY <1>18, <3>2
      <3>4. new[j].start = r.start + j - 1 /\ new[j + 1].start = r.start + (j + 1) - 1
        BY <1>13, <3>2
      <3>5. r.start \in Nat
        BY <1>1, RangeMeans
      <3> QED
        BY <3>2, <3>3, <3>4, <3>5
    <2>4. i \in 1 .. l - 1 \/ i = l \/ i \in l + 1 .. l + m - 1
      OBVIOUS
    <2> QED
      BY <2>1, <2>2, <2>3, <2>4
  <1>22. ASSUME NEW i \in 1 .. l + m PROVE \E h \in 1 .. k + 1 : Within(kept[h], d, all[i])
    <2>1. CASE i \in 1 .. l
      <3>1. PICK h \in 1 .. k : Within(kept[h], d, out[i])
        BY <1>3, <1>14, <2>1
      <3>2. h \in 1 .. k + 1
        OBVIOUS
      <3> QED
        BY <1>17, <2>1, <3>1, <3>2
    <2>2. CASE \E j \in 1 .. m : i = l + j
      <3>1. PICK j \in 1 .. m : i = l + j
        BY <2>2
      <3>2. Within(r, d, all[i])
        BY <1>18, <1>13, <3>1
      <3>3. k + 1 \in 1 .. k + 1
        OBVIOUS
      <3> QED
        BY <1>1, <3>2, <3>3
    <2> QED
      BY <1>19, <2>1, <2>2
  <1>23. ASSUME NEW w \in SlotRange, NEW h \in 1 .. k + 1, Within(kept[h], d, w)
         PROVE  \E i \in 1 .. l + m : all[i] = w
    <2>1. CASE h \in 1 .. k
      <3>1. PICK i \in 1 .. l : out[i] = w
        BY <1>3, <1>14, <1>23, <2>1
      <3> QED
        BY <1>17, <3>1
    <2>2. CASE h = k + 1
      <3>1. PICK i \in 1 .. m : new[i] = w
        BY <1>1, <1>23, <1>13, <2>2
      <3> QED
        BY <1>18, <3>1
    <2>3. h \in 1 .. k \/ h = k + 1
      OBVIOUS
    <2> QED
      BY <2>1, <2>2, <2>3
  <1>24. next.out = all /\ next = [out |-> next.out, stopped |-> next.stopped]
    BY <1>15, <1>9
  <1>25. next.stopped => k + 1 \in 1 .. Len(kept) /\ kept[k + 1].end = MAX
    BY <1>1, <1>10
  <1>26. PICK n \in Nat : n = l + m /\ n = Len(next.out)
    BY <1>16, <1>24
  <1>27. \A i \in 1 .. n - 1 : next.out[i].start < next.out[i + 1].start
    <2> SUFFICES ASSUME NEW i \in 1 .. n - 1 PROVE next.out[i].start < next.out[i + 1].start
      OBVIOUS
    <2>1. i \in 1 .. l + m - 1
      BY <1>26
    <2>2. all[i].start < all[i + 1].start
      BY <1>21, <2>1
    <2> QED
      BY <1>24, <2>2
  <1>28. \A i \in 1 .. n : \E h \in 1 .. k + 1 : Within(kept[h], d, next.out[i])
    BY <1>22, <1>24, <1>26
  <1>29. \A w \in SlotRange, h \in 1 .. k + 1 :
            Within(kept[h], d, w) => \E i \in 1 .. n : next.out[i] = w
    BY <1>23, <1>24, <1>26
  <1>30. Walked(kept, d, k + 1, next)
    <2>1. next.out \in Seq(SlotRange) /\ Len(next.out) = n
      BY <1>16, <1>24, <1>26
    <2>2. next = [out |-> next.out, stopped |-> next.stopped] /\ next.stopped \in BOOLEAN
      BY <1>24, <1>10
    <2> QED
      BY <1>25, <1>27, <1>28, <1>29, <2>1, <2>2 DEF Walked
  <1> QED
    BY <1>1, <1>6, <1>30
-----------------------------------------------------------------------------
(* The sort key. *)

Distance(r, d) == r.end - r.start - (d - 1)

\* Each number is added to the sum of those before it.
LEMMA SumSteps ==
    ASSUME NEW numbers, Len(numbers) \in Nat
    PROVE  /\ SumOf(numbers)[0] = 0
           /\ \A k \in 0 .. Len(numbers) - 1 : SumOf(numbers)[k + 1] = SumOf(numbers)[k] + numbers[k + 1]
  <1>0. PICK n \in Nat : n = Len(numbers)
    OBVIOUS
  <1>1. PICK first : n = Len(numbers) /\ first = 0
    BY <1>0
  <1> DEFINE Runs(f, k) == f = [i \in 0 .. k |-> IF i = 0 THEN first ELSE f[i - 1] + numbers[i]]
             T == {k \in 0 .. n : \E f : Runs(f, k)}
  <1>2. 0 \in T
    <2>1. PICK f : f = [i \in 0 .. 0 |-> first]
      OBVIOUS
    <2>2. \A i \in 0 .. 0 : i = 0
      OBVIOUS
    <2>3. Runs(f, 0)
      BY <2>1, <2>2
    <2>4. 0 \in 0 .. n
      OBVIOUS
    <2> QED
      BY <2>3, <2>4
  <1>3. ASSUME NEW k \in 0 .. n - 1, k \in T PROVE k + 1 \in T
    <2>1. PICK f : Runs(f, k)
      BY <1>3
    <2> DEFINE g == [i \in 0 .. k + 1 |-> IF i = k + 1 THEN f[k] + numbers[k + 1] ELSE f[i]]
    <2>4. ASSUME NEW i \in 0 .. k + 1
          PROVE  g[i] = IF i = 0 THEN first ELSE g[i - 1] + numbers[i]
      <3>1. CASE i = k + 1
        <4>1. g[i] = f[k] + numbers[k + 1] /\ i # 0 /\ g[i - 1] = f[k]
          BY <3>1
        <4> QED
          BY <3>1, <4>1
      <3>2. CASE i # k + 1
        <4>1. i \in 0 .. k /\ g[i] = f[i] /\ (i # 0 => g[i - 1] = f[i - 1])
          BY <3>2
        <4>2. f[i] = IF i = 0 THEN first ELSE f[i - 1] + numbers[i]
          BY <2>1, <4>1
        <4> QED
          BY <4>1, <4>2
      <3> QED
        BY <3>1, <3>2
    <2>5. g = [i \in 0 .. k + 1 |-> g[i]]
      OBVIOUS
    <2> HIDE DEF g
    <2>6. [i \in 0 .. k + 1 |-> g[i]] =
             [i \in 0 .. k + 1 |-> IF i = 0 THEN first ELSE g[i - 1] + numbers[i]]
      BY <2>4, Zenon
    <2>7. Runs(g, k + 1)
      BY <2>5, <2>6, Zenon
    <2>8. k + 1 \in 0 .. n
      OBVIOUS
    <2> QED
      BY <2>7, <2>8
  <1>4. n \in T
    <2> HIDE DEF T
    <2>1. 0 .. n \subseteq T
      BY <1>2, <1>3, UpToN
    <2> QED
      BY <2>1
  <1> DEFINE Means(h) ==
                h = [i \in 0 .. Len(numbers) |-> IF i = 0 THEN 0 ELSE h[i - 1] + numbers[i]]
             run == CHOOSE h : Means(h)
  <1>5. PICK f : Means(f)
    BY <1>1, <1>4
  <1>6. Means(run)
    BY <1>5
  <1>7. SumOf(numbers) = run
    BY DEF SumOf
  <1> HIDE DEF run
  <1>8. 0 \in 0 .. n /\ run[0] = first
    BY <1>1, <1>6
  <1>9. ASSUME NEW k \in 0 .. n - 1 PROVE run[k + 1] = run[k] + numbers[k + 1]
    <2>1. k + 1 \in 0 .. n /\ k + 1 # 0 /\ k + 1 - 1 = k
      OBVIOUS
    <2>2. \A i \in 0 .. n : run[i] = IF i = 0 THEN 0 ELSE run[i - 1] + numbers[i]
      BY <1>1, <1>6
    <2>3. run[k + 1] = IF k + 1 = 0 THEN 0 ELSE run[k + 1 - 1] + numbers[k + 1]
      BY <2>1, <2>2
    <2> QED
      BY <2>1, <2>3
  <1> HIDE DEF Means
  <1> QED
    BY <1>1, <1>7, <1>8, <1>9

\* The slack adds up range by range.
LEMMA SlackSteps ==
    ASSUME NEW rs, NEW d, Len(rs) \in Nat, DOMAIN rs = 1 .. Len(rs)
    PROVE  \E upTo : /\ Slack(rs, d) = upTo[Len(rs)] /\ upTo[0] = 0
                     /\ \A k \in 0 .. Len(rs) - 1 : upTo[k + 1] = upTo[k] + Distance(rs[k + 1], d)
  <1>1. PICK n \in Nat : n = Len(rs) /\ DOMAIN rs = 1 .. n
    OBVIOUS
  <1>2. PICK ds : ds = [i \in DOMAIN rs |-> rs[i].end - rs[i].start - (d - 1)]
    OBVIOUS
  <1>3. Len(ds) = n /\ \A i \in 1 .. n : ds[i] = Distance(rs[i], d)
    BY <1>1, <1>2 DEF Distance
  <1>4. Slack(rs, d) = SumOf(ds)[n]
    BY <1>1, <1>2 DEF Slack
  <1>5. /\ SumOf(ds)[0] = 0
        /\ \A k \in 0 .. n - 1 : SumOf(ds)[k + 1] = SumOf(ds)[k] + ds[k + 1]
    BY <1>3, SumSteps
  <1>6. \A k \in 0 .. n - 1 : ds[k + 1] = Distance(rs[k + 1], d)
    <2>1. \A k \in 0 .. n - 1 : k + 1 \in 1 .. n
      OBVIOUS
    <2> QED
      BY <1>3, <2>1
  <1> QED
    BY <1>1, <1>4, <1>5, <1>6

Fits(r, d, w) == w.end = w.start + (d - 1) /\ r.start <= w.start /\ w.end <= r.end

\* A range has one position more than its distance.
LEMMA FitsCount ==
    ASSUME NEW d \in Nat, d >= 1, d <= MAX, NEW r \in SlotRange, LongEnough(r, d),
           NEW S, S = {w \in SlotRange : Fits(r, d, w)}
    PROVE  IsFiniteSet(S) /\ Cardinality(S) = Distance(r, d) + 1 /\ Distance(r, d) \in Int
  <1>1. PICK a \in Nat, b \in Nat : a = r.start /\ b = r.end /\ a <= b /\ b <= MAX
    BY RangeMeans
  <1>2. b - a + 1 >= d
    <2>1. b - a + 1 > MAX \/ b - a + 1 >= d
      BY <1>1 DEF LongEnough
    <2> QED
      BY <1>1, <2>1, MaxAssumption
  <1>3. PICK last \in Nat : last = b - (d - 1)
    BY <1>1, <1>2
  <1>4. PICK f : f = [v \in a .. last |-> [start |-> v, end |-> v + (d - 1)]]
    OBVIOUS
  <1>5. ASSUME NEW v \in a .. last PROVE f[v] \in S /\ f[v].start = v
    <2>1. PICK z \in Nat : z = v + (d - 1)
      BY <1>1
    <2>2. f[v] = [start |-> v, end |-> z]
      BY <1>4, <2>1
    <2>3. v \in Nat /\ a <= v /\ v <= z /\ z <= b
      BY <1>1, <1>3, <2>1
    <2>4. f[v] \in SlotRange
      BY <1>1, <2>2, <2>3, MaxAssumption DEF SlotRange, Slot
    <2>5. f[v].start = v /\ f[v].end = z
      BY <2>2
    <2>6. Fits(r, d, f[v])
      BY <1>1, <2>1, <2>3, <2>5 DEF Fits
    <2> QED
      BY <2>4, <2>5, <2>6
  <1>6. ASSUME NEW w \in S PROVE w.start \in a .. last /\ f[w.start] = w
    <2>1. w \in SlotRange /\ Fits(r, d, w)
      OBVIOUS
    <2>2. PICK v \in Nat, z \in Nat : v = w.start /\ z = w.end /\ w = [start |-> v, end |-> z]
      BY <2>1, RangeMeans
    <2>3. z = v + (d - 1) /\ a <= v /\ z <= b
      BY <1>1, <2>1, <2>2 DEF Fits
    <2>4. v \in a .. last
      BY <1>1, <1>3, <2>3
    <2>5. f[v] = [start |-> v, end |-> v + (d - 1)]
      BY <1>4, <2>4
    <2> QED
      BY <2>2, <2>3, <2>4, <2>5
  <1>7. f \in Bijection(a .. last, S)
    <2>1. f \in [a .. last -> S]
      <3>1. f = [v \in a .. last |-> f[v]]
        BY <1>4
      <3> QED
        BY <1>5, <3>1
    <2>2. f \in Injection(a .. last, S)
      <3>1. \A v, z \in a .. last : f[v] = f[z] => v = z
        BY <1>5
      <3> QED
        BY <2>1, <3>1 DEF Injection, IsInjective
    <2>3. f \in Surjection(a .. last, S)
      BY <1>6, <2>1 DEF Surjection
    <2> QED
      BY <2>2, <2>3 DEF Bijection
  <1>8. IsFiniteSet(a .. last) /\ Cardinality(a .. last) = last - a + 1
    <2>1. ~(a > last)
      BY <1>1, <1>2, <1>3
    <2> QED
      BY <2>1, FS_Interval
  <1>9. IsFiniteSet(S) /\ Cardinality(S) = Cardinality(a .. last)
    <2>1. ExistsBijection(a .. last, S)
      BY <1>7 DEF ExistsBijection
    <2> QED
      BY <1>8, <2>1, FS_Bijection
  <1>10. Distance(r, d) = last - a /\ last - a \in Int
    BY <1>1, <1>3 DEF Distance
  <1> QED
    BY <1>8, <1>9, <1>10

\* Ranges that are apart share no position, so their numbers of positions add up.
LEMMA SlackCounts ==
    ASSUME NEW d \in Nat, d >= 1, d <= MAX, NEW kept \in Seq(SlotRange), Separated(kept),
           \A h \in 1 .. Len(kept) : LongEnough(kept[h], d),
           NEW S, S = {w \in SlotRange : \E h \in 1 .. Len(kept) : Fits(kept[h], d, w)}
    PROVE  Cardinality(S) = Slack(kept, d) + Len(kept)
  <1>1. PICK n \in Nat : n = Len(kept)
    OBVIOUS
  <1>2. PICK upTo : /\ Slack(kept, d) = upTo[n] /\ upTo[0] = 0
                    /\ \A k \in 0 .. n - 1 : upTo[k + 1] = upTo[k] + Distance(kept[k + 1], d)
    BY <1>1, SlackSteps
  <1> DEFINE P(k) == {w \in SlotRange : \E h \in 1 .. k : Fits(kept[h], d, w)}
             T == {k \in 0 .. n : /\ upTo[k] \in Int /\ IsFiniteSet(P(k))
                                  /\ Cardinality(P(k)) = upTo[k] + k}
  <1>3. 0 \in T
    <2>1. P(0) = {}
      OBVIOUS
    <2>2. IsFiniteSet({}) /\ Cardinality({}) = 0
      BY FS_EmptySet
    <2>3. 0 \in 0 .. n /\ 0 \in Int
      OBVIOUS
    <2>4. upTo[0] = 0
      BY <1>2
    <2>5. PICK none : none = P(0)
      OBVIOUS
    <2>6. none = {}
      BY <2>1, <2>5
    <2>7. IsFiniteSet(none) /\ Cardinality(none) = 0
      BY <2>2, <2>6
    <2>8. upTo[0] \in Int /\ Cardinality(none) = upTo[0] + 0
      BY <2>4, <2>7
    <2> HIDE DEF P
    <2> QED
      BY <2>3, <2>5, <2>7, <2>8
  <1>4. ASSUME NEW k \in 0 .. n - 1, k \in T PROVE k + 1 \in T
    <2>1. k \in Nat /\ k + 1 \in 1 .. n /\ k + 1 \in 0 .. n
      OBVIOUS
    <2>2. PICK r \in SlotRange : r = kept[k + 1]
      BY <1>1, <2>1
    <2>3. PICK Q : Q = {w \in SlotRange : Fits(r, d, w)}
      OBVIOUS
    <2>4. LongEnough(r, d)
      BY <1>1, <2>1, <2>2
    <2>5. IsFiniteSet(Q) /\ Cardinality(Q) = Distance(r, d) + 1 /\ Distance(r, d) \in Int
      BY <2>2, <2>3, <2>4, FitsCount
    <2>6. P(k + 1) = P(k) \cup Q
      <3>1. \A h \in 1 .. k + 1 : h \in 1 .. k \/ h = k + 1
        OBVIOUS
      <3>2. (\A h \in 1 .. k : h \in 1 .. k + 1) /\ k + 1 \in 1 .. k + 1
        OBVIOUS
      <3>3. ASSUME NEW w \in SlotRange
            PROVE  (\E h \in 1 .. k + 1 : Fits(kept[h], d, w))
                      <=> (\E h \in 1 .. k : Fits(kept[h], d, w)) \/ Fits(r, d, w)
        BY <2>2, <3>1, <3>2
      <3> QED
        BY <2>3, <3>3
    <2>7. P(k) \cap Q = {}
      <3> SUFFICES ASSUME NEW w \in SlotRange, NEW h \in 1 .. k, Fits(kept[h], d, w), Fits(r, d, w)
                   PROVE  FALSE
        BY <2>3
      <3>1. h \in 1 .. n /\ h < k + 1
        BY <2>1
      <3>2. kept[h].end + 1 < r.start
        BY <1>1, <2>1, <2>2, <3>1, ApartMeans
      <3>3. PICK v \in Nat, z \in Nat : v = w.start /\ z = w.end /\ v <= z
        BY RangeMeans
      <3>4. PICK c \in Nat : c = kept[h].end
        <4>1. kept[h] \in SlotRange
          BY <1>1, <3>1
        <4> QED
          BY <4>1, RangeMeans
      <3>5. PICK s \in Nat : s = r.start
        BY <2>2, RangeMeans
      <3>6. z <= c /\ s <= v
        BY <3>3, <3>4, <3>5 DEF Fits
      <3>7. c + 1 < s
        BY <3>2, <3>4, <3>5
      <3> QED
        BY <3>3, <3>6, <3>7
    <2>8. PICK A, B : A = P(k) /\ B = P(k + 1)
      OBVIOUS
    <2>9. upTo[k] \in Int /\ IsFiniteSet(A) /\ Cardinality(A) = upTo[k] + k
      BY <1>4, <2>8
    <2>10. B = A \cup Q /\ A \cap Q = {}
      BY <2>6, <2>7, <2>8
    <2>11. /\ IsFiniteSet(A \cup Q)
           /\ Cardinality(A \cup Q) = Cardinality(A) + Cardinality(Q) - Cardinality(A \cap Q)
      BY <2>5, <2>9, FS_Union
    <2>12. Cardinality({}) = 0
      BY FS_EmptySet
    <2>13. IsFiniteSet(B) /\ Cardinality(B) = Cardinality(A) + Cardinality(Q) - 0
      BY <2>10, <2>11, <2>12
    <2>14. upTo[k + 1] = upTo[k] + Distance(r, d)
      BY <1>2, <2>2
    <2>15. upTo[k + 1] \in Int /\ Cardinality(B) = upTo[k + 1] + (k + 1)
      <3>1. PICK u \in Int, x \in Int : u = upTo[k] /\ x = Distance(r, d)
        BY <2>5, <2>9
      <3>2. Cardinality(A) = u + k /\ Cardinality(Q) = x + 1 /\ upTo[k + 1] = u + x
        BY <2>5, <2>9, <2>14, <3>1
      <3>3. Cardinality(B) = u + k + (x + 1) - 0
        BY <2>13, <3>2
      <3>4. u + k + (x + 1) - 0 = u + x + (k + 1)
        OBVIOUS
      <3> QED
        BY <3>1, <3>2, <3>3, <3>4
    <2> HIDE DEF P
    <2> QED
      BY <2>1, <2>8, <2>13, <2>15
  <1>5. n \in T
    <2> HIDE DEF T
    <2>1. 0 .. n \subseteq T
      BY <1>3, <1>4, UpToN
    <2> QED
      BY <2>1
  <1>6. S = P(n)
    BY <1>1
  <1> QED
    BY <1>1, <1>2, <1>5, <1>6
-----------------------------------------------------------------------------
(* What a caller gets: the ranges of a meeting, its windows, their slots.   *)

\* The TimeWindow consumes one range after the other.
LEMMA WindowRunSteps ==
    ASSUME NEW rs, NEW d, Len(rs) \in Nat
    PROVE  /\ WindowRun(rs, d)[0] = [out |-> <<>>, stopped |-> FALSE]
           /\ \A k \in 0 .. Len(rs) - 1 : WindowRun(rs, d)[k + 1] = WindowStep(WindowRun(rs, d)[k], rs[k + 1], d)
  <1>0. PICK n \in Nat : n = Len(rs)
    OBVIOUS
  <1>1. PICK first : n = Len(rs) /\ first = [out |-> <<>>, stopped |-> FALSE]
    BY <1>0
  <1> DEFINE Runs(f, k) == f = [i \in 0 .. k |-> IF i = 0 THEN first ELSE WindowStep(f[i - 1], rs[i], d)]
             T == {k \in 0 .. n : \E f : Runs(f, k)}
  <1>2. 0 \in T
    <2>1. PICK f : f = [i \in 0 .. 0 |-> first]
      OBVIOUS
    <2>2. \A i \in 0 .. 0 : i = 0
      OBVIOUS
    <2>3. Runs(f, 0)
      BY <2>1, <2>2
    <2>4. 0 \in 0 .. n
      OBVIOUS
    <2> QED
      BY <2>3, <2>4
  <1>3. ASSUME NEW k \in 0 .. n - 1, k \in T PROVE k + 1 \in T
    <2>1. PICK f : Runs(f, k)
      BY <1>3
    <2> DEFINE g == [i \in 0 .. k + 1 |-> IF i = k + 1 THEN WindowStep(f[k], rs[k + 1], d) ELSE f[i]]
    <2>4. ASSUME NEW i \in 0 .. k + 1
          PROVE  g[i] = IF i = 0 THEN first ELSE WindowStep(g[i - 1], rs[i], d)
      <3>1. CASE i = k + 1
        <4>1. g[i] = WindowStep(f[k], rs[k + 1], d) /\ i # 0 /\ g[i - 1] = f[k]
          BY <3>1
        <4> QED
          BY <3>1, <4>1
      <3>2. CASE i # k + 1
        <4>1. i \in 0 .. k /\ g[i] = f[i] /\ (i # 0 => g[i - 1] = f[i - 1])
          BY <3>2
        <4>2. f[i] = IF i = 0 THEN first ELSE WindowStep(f[i - 1], rs[i], d)
          BY <2>1, <4>1
        <4> QED
          BY <4>1, <4>2
      <3> QED
        BY <3>1, <3>2
    <2>5. g = [i \in 0 .. k + 1 |-> g[i]]
      OBVIOUS
    <2> HIDE DEF g
    <2>6. [i \in 0 .. k + 1 |-> g[i]] =
             [i \in 0 .. k + 1 |-> IF i = 0 THEN first ELSE WindowStep(g[i - 1], rs[i], d)]
      BY <2>4, Zenon
    <2>7. Runs(g, k + 1)
      BY <2>5, <2>6, Zenon
    <2>8. k + 1 \in 0 .. n
      OBVIOUS
    <2> QED
      BY <2>7, <2>8
  <1>4. n \in T
    <2> HIDE DEF T
    <2>1. 0 .. n \subseteq T
      BY <1>2, <1>3, UpToN
    <2> QED
      BY <2>1
  <1> DEFINE Means(h) ==
                h = [i \in 0 .. Len(rs) |-> IF i = 0 THEN [out |-> <<>>, stopped |-> FALSE] ELSE WindowStep(h[i - 1], rs[i], d)]
             run == CHOOSE h : Means(h)
  <1>5. PICK f : Means(f)
    BY <1>1, <1>4
  <1>6. Means(run)
    BY <1>5
  <1>7. WindowRun(rs, d) = run
    BY DEF WindowRun
  <1> HIDE DEF run
  <1>8. 0 \in 0 .. n /\ run[0] = first
    BY <1>1, <1>6
  <1>9. ASSUME NEW k \in 0 .. n - 1 PROVE run[k + 1] = WindowStep(run[k], rs[k + 1], d)
    <2>1. k + 1 \in 0 .. n /\ k + 1 # 0 /\ k + 1 - 1 = k
      OBVIOUS
    <2>2. \A i \in 0 .. n : run[i] = IF i = 0 THEN [out |-> <<>>, stopped |-> FALSE] ELSE WindowStep(run[i - 1], rs[i], d)
      BY <1>1, <1>6
    <2>3. run[k + 1] = IF k + 1 = 0 THEN [out |-> <<>>, stopped |-> FALSE] ELSE WindowStep(run[k + 1 - 1], rs[k + 1], d)
      BY <2>1, <2>2
    <2> QED
      BY <2>1, <2>3
  <1> HIDE DEF Means
  <1> QED
    BY <1>1, <1>7, <1>8, <1>9

\* windowed yields the windows in the ranges, but for the one that it cannot reach.
LEMMA WindowedMeans ==
    ASSUME NEW d \in Nat, d >= 1, d <= MAX, NEW kept \in Seq(SlotRange), Separated(kept),
           \A h \in 1 .. Len(kept) : LongEnough(kept[h], d)
    PROVE  /\ Windowed(kept, d) \in Seq(SlotRange)
           /\ \A w \in SlotRange :
                 (\E i \in 1 .. Len(Windowed(kept, d)) : Windowed(kept, d)[i] = w)
                    <=> \E h \in 1 .. Len(kept) : Within(kept[h], d, w)
  <1>0. PICK n \in Nat : n = Len(kept)
    OBVIOUS
  <1>1. PICK run : n = Len(kept) /\ run = WindowRun(kept, d)
    BY <1>0
  <1>2. /\ run[0] = [out |-> <<>>, stopped |-> FALSE]
        /\ \A k \in 0 .. n - 1 : run[k + 1] = WindowStep(run[k], kept[k + 1], d)
    BY <1>1, WindowRunSteps
  <1> DEFINE T == {k \in 0 .. n : Walked(kept, d, k, run[k])}
  <1>3. 0 \in T
    <2>1. PICK acc : acc = run[0]
      OBVIOUS
    <2>2. /\ acc = [out |-> acc.out, stopped |-> acc.stopped] /\ acc.stopped = FALSE /\ acc.out = <<>>
          /\ acc.out \in Seq(SlotRange)
      BY <1>2, <2>1
    <2>3. Len(acc.out) = 0 /\ \A i \in 1 .. 0 : FALSE
      BY <2>2
    <2>4. \A i \in 1 .. 0 - 1 : FALSE
      OBVIOUS
    <2>5. Walked(kept, d, 0, acc)
      BY <2>2, <2>3, <2>4 DEF Walked
    <2>6. 0 \in 0 .. n
      OBVIOUS
    <2> QED
      BY <2>1, <2>5, <2>6
  <1>4. ASSUME NEW k \in 0 .. n - 1, k \in T PROVE k + 1 \in T
    <2>1. k \in Nat /\ k + 1 \in 1 .. Len(kept) /\ k + 1 \in 0 .. n
      BY <1>1
    <2>2. LongEnough(kept[k + 1], d)
      BY <2>1
    <2>3. Walked(kept, d, k, run[k])
      BY <1>4
    <2>4. Walked(kept, d, k + 1, WindowStep(run[k], kept[k + 1], d))
      BY <2>1, <2>2, <2>3, WalkedStep
    <2> QED
      BY <1>2, <2>1, <2>4
  <1>5. Walked(kept, d, n, run[n])
    <2> HIDE DEF T
    <2>1. 0 .. n \subseteq T
      BY <1>3, <1>4, UpToN
    <2> QED
      BY <2>1 DEF T
  <1>6. PICK out : out = Windowed(kept, d) /\ out = run[n].out
    BY <1>1 DEF Windowed
  <1>7. out \in Seq(SlotRange)
    BY <1>5, <1>6 DEF Walked
  <1>8. ASSUME NEW i \in 1 .. Len(out) PROVE \E h \in 1 .. n : Within(kept[h], d, out[i])
    BY <1>5, <1>6 DEF Walked
  <1>9. ASSUME NEW w \in SlotRange, NEW h \in 1 .. n, Within(kept[h], d, w)
        PROVE  \E i \in 1 .. Len(out) : out[i] = w
    BY <1>5, <1>6, <1>9 DEF Walked
  <1> HIDE DEF T
  <1> QED
    BY <1>1, <1>6, <1>7, <1>8, <1>9

\* The ranges of a meeting are apart and long enough, and its positions in them
\* are those whose slots are available and not blocked.
LEMMA AvailabilityMeans ==
    ASSUME NEW available \in Seq(SlotRange), NEW blocked \in Seq(SlotRange),
           NEW d \in Nat, d >= 1, d <= MAX,
           NEW kept, kept = MeetingAvailability(available, blocked, d)
    PROVE  /\ kept \in Seq(SlotRange) /\ Separated(kept)
           /\ \A h \in 1 .. Len(kept) : LongEnough(kept[h], d)
           /\ \A w \in SlotRange :
                 (\E h \in 1 .. Len(kept) : Fits(kept[h], d, w))
                    <=> /\ w.end - w.start + 1 = d
                        /\ w.start .. w.end \subseteq Unblocked(available, blocked)
  <1>1. PICK rs : rs = IF available = <<>> THEN <<>> ELSE BlocksRun(available, blocked).out
    OBVIOUS
  <1>2. rs \in Seq(SlotRange) /\ Separated(rs) /\ SlotsOf(rs) = Unblocked(available, blocked)
    <2>1. CASE available = <<>>
      <3>1. rs = <<>> /\ rs \in Seq(SlotRange) /\ Separated(rs)
        BY <1>1, <2>1 DEF Separated
      <3>2. ASSUME NEW x PROVE x \notin SlotsOf(rs) /\ x \notin SlotsOf(available)
        <4>1. rs = available /\ Len(rs) = 0 /\ \A i \in 1 .. 0 : FALSE
          BY <2>1, <3>1
        <4>2. x \notin SlotsOf(rs)
          BY <3>1, <4>1, SlotsMeans
        <4> QED
          BY <4>1, <4>2
      <3>3. SlotsOf(rs) = {} /\ SlotsOf(available) = {}
        BY <3>2
      <3> QED
        BY <3>1, <3>3 DEF Unblocked
    <2>2. CASE available # <<>>
      BY <1>1, <2>2, BlocksMean DEF Unblocked
    <2> QED
      BY <2>1, <2>2
  <1>3. Held(rs, d, Len(rs), Holding(rs, d))
    BY <1>2, HoldingMeans
  <1>4. kept = Holding(rs, d)
    <2>1. CASE available # <<>>
      BY <1>1, <2>1 DEF MeetingAvailability
    <2>2. CASE available = <<>>
      <3>1. kept = <<>> /\ rs = <<>>
        BY <1>1, <2>2 DEF MeetingAvailability
      <3>2. PICK none : none = Holding(rs, d)
        OBVIOUS
      <3>3. none \in Seq(SlotRange) /\ \A h \in 1 .. Len(none) : \E i \in 1 .. Len(rs) : none[h] = rs[i]
        BY <1>3, <3>2 DEF Held
      <3>4. none = <<>>
        <4> SUFFICES ASSUME none # <<>> PROVE FALSE
          OBVIOUS
        <4>1. 1 \in 1 .. Len(none)
          BY <3>3, LastMeans
        <4>2. PICK i \in 1 .. Len(rs) : none[1] = rs[i]
          BY <3>3, <4>1
        <4> QED
          BY <3>1, <4>2
      <3> QED
        BY <3>1, <3>2, <3>4
    <2> QED
      BY <2>1, <2>2
  <1>5. kept \in Seq(SlotRange) /\ Separated(kept)
    BY <1>3, <1>4 DEF Held
  <1>6. \A h \in 1 .. Len(kept) : LongEnough(kept[h], d) /\ \E j \in 1 .. Len(rs) : kept[h] = rs[j]
    BY <1>3, <1>4 DEF Held
  <1>7. \A j \in 1 .. Len(rs) : LongEnough(rs[j], d) => \E h \in 1 .. Len(kept) : kept[h] = rs[j]
    BY <1>3, <1>4 DEF Held
  <1>8. ASSUME NEW w \in SlotRange
        PROVE  (\E h \in 1 .. Len(kept) : Fits(kept[h], d, w))
                    <=> /\ w.end - w.start + 1 = d
                        /\ w.start .. w.end \subseteq SlotsOf(rs)
    <2>1. PICK a \in Nat, b \in Nat : a = w.start /\ b = w.end /\ a <= b
      BY RangeMeans
    <2>3. ASSUME b - a + 1 = d, a .. b \subseteq SlotsOf(rs)
          PROVE  \E h \in 1 .. Len(kept) : Fits(kept[h], d, w)
      <4>1. PICK j \in 1 .. Len(rs) : rs[j].start <= a /\ b <= rs[j].end
        BY <1>2, <2>1, <2>3, UnbrokenRange
      <4>2. PICK p \in Nat, q \in Nat : p = rs[j].start /\ q = rs[j].end
        BY <1>2, <4>1, RangeMeans
      <4>3. q - p + 1 >= d /\ b = a + (d - 1)
        <5>1. p <= a /\ b <= q
          BY <4>1, <4>2
        <5>2. b = a + (d - 1)
          BY <2>3
        <5> QED
          BY <2>3, <5>1, <5>2
      <4>4. LongEnough(rs[j], d)
        BY <4>2, <4>3 DEF LongEnough
      <4>5. PICK h \in 1 .. Len(kept) : kept[h] = rs[j]
        BY <1>7, <4>1, <4>4
      <4>6. Fits(kept[h], d, w)
        BY <2>1, <4>1, <4>3, <4>5 DEF Fits
      <4> QED
        BY <4>6
    <2>4. ASSUME NEW h \in 1 .. Len(kept), Fits(kept[h], d, w)
          PROVE  b - a + 1 = d /\ a .. b \subseteq SlotsOf(rs)
      <4>1. PICK j \in 1 .. Len(rs) : kept[h] = rs[j]
        BY <1>6
      <4>2. b = a + (d - 1) /\ rs[j].start <= a /\ b <= rs[j].end
        BY <2>1, <2>4, <4>1 DEF Fits
      <4>3. PICK p \in Nat, q \in Nat : p = rs[j].start /\ q = rs[j].end
        BY <1>2, <4>1, RangeMeans
      <4>4. ASSUME NEW z \in a .. b PROVE z \in SlotsOf(rs)
        <5>1. z \in Nat /\ p <= z /\ z <= q
          BY <4>2, <4>3
        <5> QED
          BY <1>2, <4>1, <4>3, <5>1, SlotsMeans
      <4>5. b - a + 1 = d
        BY <4>2
      <4> QED
        BY <4>4, <4>5
    <2> QED
      BY <2>1, <2>3, <2>4
  <1> QED
    BY <1>2, <1>5, <1>6, <1>8

\* The slots of ranges that are put together.
LEMMA FlatSlots ==
    ASSUME NEW n \in Nat, NEW ss \in [1 .. n -> Seq(SlotRange)]
    PROVE  /\ FlattenSeq(ss) \in Seq(SlotRange)
           /\ SlotsOf(FlattenSeq(ss)) = UNION {SlotsOf(ss[p]) : p \in 1 .. n}
  <1>3. PICK flat : flat = FlattenSeq(ss)
    OBVIOUS
  <1>4. flat \in Seq(SlotRange) /\ \E offset \in [1 .. n -> Nat] : Placed(n, ss, flat, offset)
    BY <1>3, FlattenPlaces
  <1>5. PICK offset : Placed(n, ss, flat, offset)
    BY <1>4
  <1>6. ASSUME NEW x, x \in SlotsOf(flat) PROVE \E p \in 1 .. n : x \in SlotsOf(ss[p])
    <2>1. PICK q \in 1 .. Len(flat) : flat[q].start <= x /\ x <= flat[q].end /\ x \in Nat
      BY <1>4, <1>6, SlotsMeans
    <2>2. PICK p \in 1 .. n : \E j \in 1 .. Len(ss[p]) : q = offset[p] + j
      BY <1>5, <2>1 DEF Placed
    <2>3. PICK j \in 1 .. Len(ss[p]) : q = offset[p] + j
      BY <2>2
    <2>4. flat[offset[p] + j] = ss[p][j]
      BY <1>5, <2>2, <2>3 DEF Placed
    <2>5. ss[p] \in Seq(SlotRange)
      OBVIOUS
    <2>6. ss[p][j].start <= x /\ x <= ss[p][j].end
      BY <2>1, <2>3, <2>4
    <2> QED
      BY <2>1, <2>3, <2>5, <2>6, SlotsMeans
  <1>7. ASSUME NEW x, NEW p \in 1 .. n, x \in SlotsOf(ss[p]) PROVE x \in SlotsOf(flat)
    <2>1. ss[p] \in Seq(SlotRange)
      OBVIOUS
    <2>2. PICK j \in 1 .. Len(ss[p]) : ss[p][j].start <= x /\ x <= ss[p][j].end /\ x \in Nat
      BY <1>7, <2>1, SlotsMeans
    <2>3. offset[p] + j \in 1 .. Len(flat) /\ flat[offset[p] + j] = ss[p][j]
      BY <1>5, <2>2 DEF Placed
    <2> QED
      BY <1>4, <2>2, <2>3, SlotsMeans
  <1>8. SlotsOf(flat) = UNION {SlotsOf(ss[p]) : p \in 1 .. n}
    BY <1>6, <1>7
  <1> QED
    BY <1>3, <1>4, <1>8

\* A range has as many slots as it is long.
LEMMA RangeCount ==
    ASSUME NEW r \in SlotRange
    PROVE  /\ IsFiniteSet(r.start .. r.end) /\ Cardinality(r.start .. r.end) = r.end - r.start + 1
           /\ r.end - r.start + 1 \in Nat /\ r.end - r.start + 1 >= 1
  <1>1. PICK a \in Nat, b \in Nat : a = r.start /\ b = r.end /\ a <= b
    BY RangeMeans
  <1>2. ~(a > b)
    BY <1>1
  <1>3. IsFiniteSet(a .. b) /\ Cardinality(a .. b) = b - a + 1
    BY <1>2, FS_Interval
  <1>4. b - a + 1 \in Nat /\ b - a + 1 >= 1
    BY <1>1
  <1> QED
    BY <1>1, <1>3, <1>4

\* Ranges that are apart share no slot, so their lengths add up.
LEMMA LengthsCount ==
    ASSUME NEW rs \in Seq(SlotRange), Separated(rs), NEW lengths,
           lengths = [i \in DOMAIN rs |-> rs[i].end - rs[i].start + 1]
    PROVE  IsFiniteSet(SlotsOf(rs)) /\ Cardinality(SlotsOf(rs)) = SumOf(lengths)[Len(rs)]
  <1>1. PICK n \in Nat : n = Len(rs) /\ DOMAIN rs = 1 .. n
    OBVIOUS
  <1>2. Len(lengths) = n /\ \A i \in 1 .. n : lengths[i] = rs[i].end - rs[i].start + 1
    BY <1>1
  <1>3. PICK sum : sum = SumOf(lengths)
    OBVIOUS
  <1>4. sum[0] = 0 /\ \A k \in 0 .. n - 1 : sum[k + 1] = sum[k] + lengths[k + 1]
    BY <1>2, <1>3, SumSteps
  <1> DEFINE P(k) == {x \in Nat : \E i \in 1 .. k : rs[i].start <= x /\ x <= rs[i].end}
             T == {k \in 0 .. n : IsFiniteSet(P(k)) /\ Cardinality(P(k)) = sum[k] /\ sum[k] \in Int}
  <1>5. 0 \in T
    <2>1. PICK none : none = P(0)
      OBVIOUS
    <2>2. none = {}
      BY <2>1
    <2>3. IsFiniteSet(none) /\ Cardinality(none) = 0
      BY <2>2, FS_EmptySet
    <2>4. 0 \in 0 .. n /\ sum[0] \in Int /\ sum[0] = 0
      BY <1>4
    <2> HIDE DEF P
    <2> QED
      BY <2>1, <2>3, <2>4
  <1>6. ASSUME NEW k \in 0 .. n - 1, k \in T PROVE k + 1 \in T
    <2>1. k \in Nat /\ k + 1 \in 1 .. n /\ k + 1 \in 0 .. n
      OBVIOUS
    <2>2. PICK r \in SlotRange : r = rs[k + 1]
      BY <1>1, <2>1
    <2>3. PICK Q, old, new : Q = r.start .. r.end /\ old = P(k) /\ new = P(k + 1)
      OBVIOUS
    <2>4. /\ IsFiniteSet(Q) /\ Cardinality(Q) = r.end - r.start + 1
          /\ r.end - r.start + 1 \in Nat
      BY <2>3, RangeCount
    <2>5. new = old \cup Q
      <3>1. PICK a \in Nat, b \in Nat : a = r.start /\ b = r.end
        BY RangeMeans
      <3>2. \A x : x \in Q <=> x \in Nat /\ a <= x /\ x <= b
        BY <2>3, <3>1
      <3>3. \A i : i \in 1 .. k + 1 <=> i \in 1 .. k \/ i = k + 1
        BY <2>1
      <3> QED
        BY <2>2, <2>3, <3>1, <3>2, <3>3
    <2>6. old \cap Q = {}
      <3> SUFFICES ASSUME NEW x \in old, x \in Q PROVE FALSE
        OBVIOUS
      <3>1. PICK i \in 1 .. k : rs[i].start <= x /\ x <= rs[i].end
        BY <2>3
      <3>2. i \in 1 .. n /\ i < k + 1
        BY <2>1
      <3>3. rs[i].end + 1 < rs[k + 1].start
        BY <1>1, <2>1, <3>2, ApartMeans
      <3>4. rs[i] \in SlotRange
        BY <1>1, <3>2
      <3>5. PICK a \in Nat, b \in Nat : a = r.start /\ b = rs[i].end
        BY <3>4, RangeMeans
      <3>6. x \in Nat /\ a <= x /\ x <= b
        BY <2>3, <3>1, <3>5
      <3> QED
        BY <2>2, <3>3, <3>5, <3>6
    <2>7. IsFiniteSet(old) /\ Cardinality(old) = sum[k] /\ sum[k] \in Int
      BY <1>6, <2>3
    <2>8. /\ IsFiniteSet(old \cup Q)
          /\ Cardinality(old \cup Q) = Cardinality(old) + Cardinality(Q) - Cardinality(old \cap Q)
      BY <2>4, <2>7, FS_Union
    <2>9. Cardinality(old \cap Q) = 0
      BY <2>6, FS_EmptySet
    <2>10. lengths[k + 1] = Cardinality(Q) /\ sum[k + 1] = sum[k] + lengths[k + 1]
      BY <1>2, <1>4, <2>1, <2>2, <2>4
    <2>11. IsFiniteSet(new) /\ Cardinality(new) = sum[k + 1] /\ sum[k + 1] \in Int
      BY <2>4, <2>5, <2>7, <2>8, <2>9, <2>10
    <2> HIDE DEF P
    <2> QED
      BY <2>1, <2>3, <2>11
  <1>7. n \in T
    <2> HIDE DEF T
    <2>1. 0 .. n \subseteq T
      BY <1>5, <1>6, UpToN
    <2> QED
      BY <2>1
  <1>8. SlotsOf(rs) = P(n)
    <2>1. \A x : x \in SlotsOf(rs) <=> x \in Nat /\ \E i \in 1 .. n : rs[i].start <= x /\ x <= rs[i].end
      BY <1>1, SlotsMeans
    <2> QED
      BY <2>1
  <1> QED
    BY <1>1, <1>3, <1>7, <1>8
=============================================================================
