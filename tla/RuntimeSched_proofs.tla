------------------------- MODULE RuntimeSched_proofs -------------------------
(***************************************************************************)
(* The scheduler of libruntime loses no thread and runs none twice, and    *)
(* its timers count every tick, for any set of threads, any goals and      *)
(* every width of the tick counter.                                        *)
(***************************************************************************)
EXTENDS RuntimeSched, FiniteSetTheorems, WellFoundedInduction, TLAPS

-----------------------------------------------------------------------------
(* How often a thread is in a queue after each operation on lists.         *)

LEMMA CopiesType ==
  ASSUME NEW T, NEW q \in Seq(T), NEW t
  PROVE  /\ IsFiniteSet({i \in DOMAIN q : q[i] = t})
         /\ Copies(q, t) \in Nat
<1>1. DOMAIN q = 1 .. Len(q) /\ Len(q) \in Nat
  OBVIOUS
<1>2. IsFiniteSet(DOMAIN q)
  BY <1>1, FS_Interval
<1>3. {i \in DOMAIN q : q[i] = t} \in SUBSET DOMAIN q
  OBVIOUS
<1>4. IsFiniteSet({i \in DOMAIN q : q[i] = t})
  BY <1>2, <1>3, FS_Subset
<1> QED BY <1>4, FS_CardinalityType DEF Copies

(* A thread is in a queue if and only if it has a position there.          *)
LEMMA CopiesContains ==
  ASSUME NEW T, NEW q \in Seq(T), NEW t
  PROVE  /\ Contains(q, t) <=> Copies(q, t) > 0
         /\ \A i \in DOMAIN q : Copies(q, q[i]) > 0
<1> DEFINE P(u) == {i \in DOMAIN q : q[i] = u}
<1>1. ASSUME NEW u PROVE (P(u) # {}) <=> Copies(q, u) > 0
  <2>1. IsFiniteSet(P(u)) /\ Copies(q, u) \in Nat /\ Copies(q, u) = Cardinality(P(u))
    BY CopiesType DEF Copies
  <2>2. Cardinality(P(u)) = 0 <=> P(u) = {}
    BY <2>1, FS_EmptySet
  <2> QED BY <2>1, <2>2
<1>2. Contains(q, t) <=> P(t) # {}
  BY DEF Contains
<1>3. \A i \in DOMAIN q : i \in P(q[i])
  OBVIOUS
<1> HIDE DEF P
<1> QED BY <1>1, <1>2, <1>3

LEMMA CopiesSingle ==
  ASSUME NEW a, NEW t
  PROVE  Copies(<<a>>, t) = IF a = t THEN 1 ELSE 0
<1>1. CASE a = t
  <2>1. {i \in DOMAIN <<a>> : <<a>>[i] = t} = {1}
    BY <1>1
  <2> QED BY <1>1, <2>1, FS_Singleton DEF Copies
<1>2. CASE a # t
  <2>1. {i \in DOMAIN <<a>> : <<a>>[i] = t} = {}
    BY <1>2
  <2> QED BY <1>2, <2>1, FS_EmptySet DEF Copies
<1> QED BY <1>1, <1>2

LEMMA CopiesConcat ==
  ASSUME NEW T, NEW q \in Seq(T), NEW r \in Seq(T), NEW t
  PROVE  Copies(q \o r, t) = Copies(q, t) + Copies(r, t)
<1> DEFINE A == {i \in DOMAIN q : q[i] = t}
           B == {i \in DOMAIN r : r[i] = t}
           C == {i \in Len(q) + 1 .. Len(q) + Len(r) : r[i - Len(q)] = t}
           f == [i \in B |-> i + Len(q)]
<1>1. {i \in DOMAIN (q \o r) : (q \o r)[i] = t} = A \cup C
  OBVIOUS
<1>2. A \cap C = {}
  OBVIOUS
<1>3. f \in Bijection(B, C)
  <2>1. f \in [B -> C]
    OBVIOUS
  <2>2. \A i, j \in B : f[i] = f[j] => i = j
    OBVIOUS
  <2>3. \A k \in C : k - Len(q) \in B /\ f[k - Len(q)] = k
    OBVIOUS
  <2> HIDE DEF f, B, C
  <2>4. \A k \in C : \E i \in B : f[i] = k
    BY <2>3
  <2> QED BY <2>1, <2>2, <2>4, Zenon DEF Bijection, Injection, Surjection, IsInjective
<1>4. IsFiniteSet(A) /\ IsFiniteSet(B) /\ Cardinality(A) \in Nat /\ Cardinality(B) \in Nat
  BY CopiesType DEF Copies
<1>5. IsFiniteSet(C) /\ Cardinality(C) = Cardinality(B)
  <2>1. ExistsBijection(B, C)
    BY <1>3 DEF ExistsBijection
  <2> QED BY <1>4, <2>1, FS_Bijection
<1> HIDE DEF A, B, C
<1>6. Cardinality(A \cup C) = Cardinality(A) + Cardinality(B)
  <2>1. Cardinality(A \cup C) = Cardinality(A) + Cardinality(C) - Cardinality({})
    BY <1>2, <1>4, <1>5, FS_Union
  <2>2. Cardinality({}) = 0
    BY FS_EmptySet
  <2> QED BY <1>4, <1>5, <2>1, <2>2
<1> QED BY <1>1, <1>6 DEF Copies, A, B

LEMMA CopiesAppend ==
  ASSUME NEW T, NEW q \in Seq(T), NEW a \in T, NEW t
  PROVE  Copies(Append(q, a), t) = Copies(q, t) + (IF a = t THEN 1 ELSE 0)
<1>1. Append(q, a) = q \o <<a>> /\ <<a>> \in Seq(T)
  OBVIOUS
<1>2. Copies(q \o <<a>>, t) = Copies(q, t) + Copies(<<a>>, t)
  BY <1>1, CopiesConcat
<1> QED BY <1>1, <1>2, CopiesSingle

LEMMA CopiesTail ==
  ASSUME NEW T, NEW q \in Seq(T), q # <<>>, NEW t
  PROVE  Copies(q, t) = Copies(Tail(q), t) + (IF Head(q) = t THEN 1 ELSE 0)
<1>1. PICK h, s : h = <<Head(q)>> /\ s = Tail(q)
  OBVIOUS
<1>2. q = h \o s /\ h \in Seq(T) /\ s \in Seq(T)
  BY <1>1
<1>3. Copies(q, t) = Copies(h, t) + Copies(s, t)
  BY <1>2, CopiesConcat
<1>4. Copies(s, t) \in Nat /\ Copies(h, t) = (IF Head(q) = t THEN 1 ELSE 0)
  BY <1>1, <1>2, CopiesType, CopiesSingle
<1> QED BY <1>1, <1>3, <1>4

(* RemoveFirst takes out one entry, if there is one.                       *)
LEMMA CopiesRemoveFirst ==
  ASSUME NEW T, NEW q \in Seq(T), NEW e
  PROVE  /\ RemoveFirst(q, e) \in Seq(T)
         /\ ~Contains(q, e) => RemoveFirst(q, e) = q
         /\ Contains(q, e) =>
              \A t : Copies(q, t) = Copies(RemoveFirst(q, e), t) + (IF t = e THEN 1 ELSE 0)
<1> DEFINE I == {i \in 1 .. Len(q) : q[i] = e}
           k == Min(I)
           q1 == SubSeq(q, 1, k - 1)
           q2 == SubSeq(q, k + 1, Len(q))
<1>1. CASE ~Contains(q, e)
  BY <1>1 DEF Contains, RemoveFirst
<1>2. CASE Contains(q, e)
  <2>1. RemoveFirst(q, e) = RemoveAt(q, k)
    BY <1>2 DEF RemoveFirst, Contains, SelectInSeq
  <2>2. k \in I
    <3>1. I \subseteq Nat /\ I # {}
      BY <1>2 DEF Contains
    <3>2. PICK x \in I : \A y \in I : ~(<<y, x>> \in OpToRel(<, Nat))
      BY <3>1, NatLessThanWellFounded, WFMin
    <3>3. ASSUME NEW y \in I PROVE x <= y
      <4>1. x \in Nat /\ y \in Nat
        BY <3>1
      <4>2. ~(y < x)
        BY <3>2, <4>1 DEF OpToRel
      <4> QED BY <4>1, <4>2
    <3> HIDE DEF I
    <3> QED BY <3>3 DEF Min
  <2> HIDE DEF k
  <2>3. /\ q1 \in Seq(T) /\ q2 \in Seq(T) /\ <<e>> \in Seq(T)
        /\ q = (q1 \o <<e>>) \o q2 /\ q1 \o <<e>> \in Seq(T)
    <3>1. k \in 1 .. Len(q) /\ q[k] = e /\ e \in T
      BY <2>2
    <3>2. q1 \in Seq(T) /\ q2 \in Seq(T) /\ <<e>> \in Seq(T) /\ q1 \o <<e>> \in Seq(T)
      BY <3>1
    <3>3. /\ Len(q1) = k - 1 /\ \A i \in 1 .. k - 1 : q1[i] = q[i]
          /\ Len(q2) = Len(q) - k /\ \A i \in 1 .. Len(q) - k : q2[i] = q[k + i]
      BY <3>1
    <3> DEFINE r == (q1 \o <<e>>) \o q2
    <3>4. r \in Seq(T) /\ Len(r) = Len(q)
      <4> HIDE DEF q1, q2
      <4>1. Len(q1 \o <<e>>) = k
        BY <3>1, <3>2, <3>3
      <4>2. r \in Seq(T) /\ Len(r) = Len(q1 \o <<e>>) + Len(q2)
        BY <3>2
      <4>3. k + (Len(q) - k) = Len(q)
        BY <3>1
      <4> HIDE DEF r
      <4> QED BY <3>3, <4>1, <4>2, <4>3
    <3>5. ASSUME NEW i \in 1 .. Len(q) PROVE r[i] = q[i]
      <4> HIDE DEF q1, q2
      <4>1. CASE i < k
        BY <3>1, <3>2, <3>3, <4>1
      <4>2. CASE i = k
        BY <3>1, <3>2, <3>3, <4>2
      <4>3. CASE i > k
        <5>1. r[i] = q2[i - k]
          BY <3>1, <3>2, <3>3, <4>3
        <5>2. i - k \in 1 .. Len(q) - k /\ k + (i - k) = i
          BY <3>1, <4>3
        <5> QED BY <3>3, <5>1, <5>2
      <4>4. i < k \/ i = k \/ i > k
        BY <3>1
      <4> QED BY <4>1, <4>2, <4>3, <4>4
    <3>6. r = q
      <4> HIDE DEF r
      <4> QED BY <3>4, <3>5
    <3> QED BY <3>2, <3>6
  <2>4. RemoveFirst(q, e) = q1 \o q2 /\ q1 \o q2 \in Seq(T)
    BY <2>1, <2>3 DEF RemoveAt
  <2>5. ASSUME NEW t
        PROVE  Copies(q, t) = Copies(RemoveFirst(q, e), t) + (IF t = e THEN 1 ELSE 0)
    <3> HIDE DEF q1, q2
    <3>1. Copies(q, t) = Copies(q1 \o <<e>>, t) + Copies(q2, t)
      BY <2>3, CopiesConcat
    <3>2. Copies(q1 \o <<e>>, t) = Copies(q1, t) + Copies(<<e>>, t)
      BY <2>3, CopiesConcat
    <3>3. Copies(q1 \o q2, t) = Copies(q1, t) + Copies(q2, t)
      BY <2>3, CopiesConcat
    <3>4. Copies(q1, t) \in Nat /\ Copies(q2, t) \in Nat
      BY <2>3, CopiesType
    <3> QED BY <2>4, <3>1, <3>2, <3>3, <3>4, CopiesSingle
  <2> QED BY <1>2, <2>4, <2>5
<1> QED BY <1>1, <1>2

(* Kept has an entry for each of the positions that are kept.              *)
LEMMA KeptPositions ==
  ASSUME NEW T, NEW q \in Seq(T), NEW I \in SUBSET DOMAIN q
  PROVE  /\ Kept(q, I) \in Seq(T)
         /\ \E g \in Bijection(DOMAIN Kept(q, I), I) :
              \A k \in DOMAIN Kept(q, I) : Kept(q, I)[k] = q[g[k]]
<1> DEFINE n == Cardinality(I)
           Upto(i) == {j \in I : j <= i}
           rank == [i \in I |-> Cardinality(Upto(i))]
           g == [k \in 1 .. n |-> CHOOSE i \in I : Cardinality(Upto(i)) = k]
<1>1. /\ IsFiniteSet(I) /\ n \in Nat /\ I \subseteq Nat
      /\ IsFiniteSet(1 .. n) /\ Cardinality(1 .. n) = n
  <2>1. DOMAIN q = 1 .. Len(q) /\ Len(q) \in Nat
    OBVIOUS
  <2>2. IsFiniteSet(I)
    <3>1. IsFiniteSet(DOMAIN q)
      BY <2>1, FS_Interval
    <3> QED BY <3>1, FS_Subset
  <2>3. n \in Nat
    BY <2>2, FS_CardinalityType
  <2> HIDE DEF n
  <2>4. IsFiniteSet(1 .. n) /\ Cardinality(1 .. n) = n
    <3>1. Cardinality(1 .. n) = IF 1 > n THEN 0 ELSE n - 1 + 1
      BY <2>3, FS_Interval
    <3> QED BY <2>3, <3>1, FS_Interval
  <2> QED BY <2>1, <2>2, <2>3, <2>4
<1> HIDE DEF n
<1>2. ASSUME NEW i \in I
      PROVE  /\ IsFiniteSet(Upto(i)) /\ Cardinality(Upto(i)) \in 1 .. n
  <2>1. Upto(i) \in SUBSET I /\ i \in Upto(i)
    BY <1>1
  <2>2. IsFiniteSet(Upto(i)) /\ Cardinality(Upto(i)) <= n
    BY <1>1, <2>1, FS_Subset DEF n
  <2>3. Cardinality(Upto(i)) \in Nat /\ Cardinality(Upto(i)) # 0
    BY <2>1, <2>2, FS_CardinalityType, FS_EmptySet
  <2> HIDE DEF Upto
  <2> QED BY <1>1, <2>2, <2>3
<1>3. ASSUME NEW i \in I, NEW j \in I, Cardinality(Upto(i)) = Cardinality(Upto(j))
      PROVE  i = j
  <2>1. i \in Nat /\ j \in Nat
    BY <1>1
  <2>2. Upto(i) \in SUBSET Upto(j) \/ Upto(j) \in SUBSET Upto(i)
    <3>1. CASE i <= j
      <4>1. ASSUME NEW h \in Upto(i) PROVE h \in Upto(j)
        BY <1>1, <2>1, <3>1
      <4> QED BY <4>1
    <3>2. CASE j <= i
      <4>1. ASSUME NEW h \in Upto(j) PROVE h \in Upto(i)
        BY <1>1, <2>1, <3>2
      <4> QED BY <4>1
    <3> QED BY <2>1, <3>1, <3>2
  <2>3. i \in Upto(i) /\ j \in Upto(j)
    BY <2>1
  <2>4. Upto(i) = Upto(j)
    <3> HIDE DEF Upto
    <3> QED BY <1>2, <1>3, <2>2, FS_Subset
  <2>5. i <= j /\ j <= i
    BY <2>3, <2>4
  <2> QED BY <2>1, <2>5
<1>4. ASSUME NEW k \in 1 .. n PROVE \E i \in I : Cardinality(Upto(i)) = k
  <2>1. rank \in [I -> 1 .. n]
    <3> HIDE DEF Upto
    <3> QED BY <1>2
  <2>2. \A i, j \in I : rank[i] = rank[j] => i = j
    <3> HIDE DEF Upto
    <3> QED BY <1>3
  <2>3. rank \in Injection(I, 1 .. n)
    <3> HIDE DEF rank
    <3> QED BY <2>1, <2>2, Zenon DEF Injection, IsInjective
  <2>4. rank \in Surjection(I, 1 .. n)
    <3> HIDE DEF rank
    <3> QED BY <1>1, <2>3, FS_Injection DEF n
  <2>5. PICK i \in I : rank[i] = k
    <3> HIDE DEF rank
    <3> QED BY <2>4 DEF Surjection
  <2> HIDE DEF Upto
  <2> QED BY <2>5
<1>5. ASSUME NEW k \in 1 .. n PROVE g[k] \in I /\ Cardinality(Upto(g[k])) = k
  <2> HIDE DEF Upto
  <2> QED BY <1>4
<1>6. g \in Bijection(1 .. n, I)
  <2>1. g \in [1 .. n -> I]
    <3> HIDE DEF Upto
    <3>1. ASSUME NEW k \in 1 .. n PROVE (CHOOSE i \in I : Cardinality(Upto(i)) = k) \in I
      BY <1>4
    <3> QED BY <3>1
  <2> HIDE DEF g, Upto
  <2>2. \A k, l \in 1 .. n : g[k] = g[l] => k = l
    BY <1>5
  <2>3. ASSUME NEW i \in I PROVE \E k \in 1 .. n : g[k] = i
    <3>1. Cardinality(Upto(i)) \in 1 .. n
      BY <1>2
    <3>2. g[Cardinality(Upto(i))] = i
      BY <1>3, <1>5, <3>1
    <3> QED BY <3>1, <3>2
  <2> QED BY <2>1, <2>2, <2>3, Zenon DEF Bijection, Injection, Surjection, IsInjective
<1>7. Kept(q, I) = [k \in 1 .. n |-> q[g[k]]]
  <2> HIDE DEF Upto
  <2>1. Kept(q, I) = [k \in 1 .. n |-> q[CHOOSE i \in I : Cardinality(Upto(i)) = k]]
    BY DEF Kept, n, Upto
  <2> QED BY <2>1
<1> HIDE DEF g
<1>8. Kept(q, I) \in Seq(T) /\ DOMAIN Kept(q, I) = 1 .. n
  <2>1. ASSUME NEW k \in 1 .. n PROVE q[g[k]] \in T
    <3>1. g[k] \in DOMAIN q
      BY <1>5
    <3> QED BY <3>1
  <2> QED BY <1>1, <1>7, <2>1
<1> QED BY <1>6, <1>7, <1>8

(* ... and as many entries for t as positions of t are kept.               *)
LEMMA CopiesKept ==
  ASSUME NEW T, NEW q \in Seq(T), NEW I \in SUBSET DOMAIN q, NEW t
  PROVE  Copies(Kept(q, I), t) = Cardinality({i \in I : q[i] = t})
<1> DEFINE r == Kept(q, I)
           A == {k \in DOMAIN r : r[k] = t}
           B == {i \in I : q[i] = t}
<1>1. PICK g \in Bijection(DOMAIN r, I) : \A k \in DOMAIN r : r[k] = q[g[k]]
  BY KeptPositions
<1> DEFINE f == [k \in A |-> g[k]]
<1>2. r \in Seq(T)
  BY KeptPositions
<1> HIDE DEF r
<1>3. /\ g \in [DOMAIN r -> I]
      /\ \A k, l \in DOMAIN r : g[k] = g[l] => k = l
      /\ \A i \in I : \E k \in DOMAIN r : g[k] = i
  BY <1>1, Zenon DEF Bijection, Injection, Surjection, IsInjective
<1>4. f \in Bijection(A, B)
  <2>1. f \in [A -> B]
    BY <1>1, <1>3
  <2>2. \A k, l \in A : f[k] = f[l] => k = l
    BY <1>3
  <2>3. \A i \in B : \E k \in A : f[k] = i
    BY <1>1, <1>3
  <2> HIDE DEF f, A, B
  <2> QED BY <2>1, <2>2, <2>3, Zenon DEF Bijection, Injection, Surjection, IsInjective
<1>5. IsFiniteSet(A)
  BY <1>2, CopiesType
<1>6. Cardinality(B) = Cardinality(A)
  BY <1>4, <1>5, FS_Bijection DEF ExistsBijection
<1> QED BY <1>6 DEF Copies, r

-----------------------------------------------------------------------------
(* The inductive invariant.                                                *)

Timer == [thread : Threads, ticks : 0 .. TICKS - 1, goal : Goals, start : 0 .. TICKS - 1]

TypeOK ==
  /\ active \in Threads \cup {Idle}
  /\ ready_q \in Seq(Threads)
  /\ wait_q \in Seq(Threads)
  /\ all_threads \in SUBSET Threads
  /\ state \in [Threads -> {"runnable", "suspended"}]
  /\ pc \in [Threads -> {"run", "yield", "exit"}]
  /\ timers \in Seq(Timer)
  /\ clock \in 0 .. TICKS - 1
  /\ status \in {"up", "assert", "freed"}

(* Only kernel threads call thread_yield.                                  *)
KernelYields == \A t \in Threads : pc[t] = "yield" => t \in Kernel

(* A thread that waits for a timer is in the wait queue, outside of        *)
(* thread_yield, and has one timer only.                                   *)
TimersWait ==
  status = "up" =>
    /\ \A i \in DOMAIN timers : Copies(wait_q, timers[i].thread) = 1 /\ pc[timers[i].thread] = "run"
    /\ \A i, j \in DOMAIN timers : timers[i].thread = timers[j].thread => i = j

Inv == TypeOK /\ KernelYields /\ TimersWait /\ OnePlaceEach /\ TimersInStep

(* Counting ticks modulo TICKS.                                            *)
LEMMA TicksModulo ==
  ASSUME NEW a \in 0 .. TICKS - 1, NEW b \in 0 .. TICKS - 1
  PROVE  /\ (a + 1) % TICKS \in 0 .. TICKS - 1
         /\ (a - a) % TICKS = 0
         /\ (((a - b) % TICKS) + 1) % TICKS = (((a + 1) % TICKS) - b) % TICKS
<1> USE SchedAssumption
<1>1. TICKS \in Nat /\ TICKS > 0 /\ a \in Int /\ b \in Int
  OBVIOUS
<1>2. ASSUME NEW c \in 0 .. TICKS - 1 PROVE c % TICKS = c
  BY <1>1
<1>3. TICKS % TICKS = 0
  BY <1>1
<1>4. ASSUME NEW c \in 1 .. TICKS PROVE (c - TICKS) % TICKS = c % TICKS
  <2>1. CASE c = TICKS
    <3>1. 0 % TICKS = 0
      BY <1>1, <1>2
    <3> QED BY <1>1, <1>3, <2>1, <3>1
  <2>2. CASE c # TICKS
    <3>1. c % TICKS = c
      BY <1>1, <1>2, <2>2
    <3>2. (c - TICKS) % TICKS = c
      BY <1>1, <2>2
    <3> QED BY <3>1, <3>2
  <2> QED BY <2>1, <2>2
<1>5. (a - b) % TICKS = IF b <= a THEN a - b ELSE a - b + TICKS
  <2>1. CASE b <= a
    BY <1>1, <1>2, <2>1
  <2>2. CASE a < b
    <3>1. a - b + TICKS \in 1 .. TICKS - 1 /\ (a - b + TICKS) - TICKS = a - b
      BY <1>1, <2>2
    <3>2. (a - b) % TICKS = (a - b + TICKS) % TICKS
      BY <1>1, <1>4, <3>1
    <3> QED BY <1>1, <1>2, <2>2, <3>1, <3>2
  <2> QED BY <1>1, <2>1, <2>2
<1>6. (a + 1) % TICKS = IF a + 1 = TICKS THEN 0 ELSE a + 1
  <2>1. CASE a + 1 = TICKS
    BY <1>3, <2>1
  <2>2. CASE a + 1 # TICKS
    BY <1>1, <1>2, <2>2
  <2> QED BY <2>1, <2>2
<1>7. (((a + 1) % TICKS) - b) % TICKS = (((a - b) % TICKS) + 1) % TICKS
  <2>1. CASE a + 1 = TICKS
    <3>1. (a - b) % TICKS = a - b /\ (a - b) + 1 = TICKS - b /\ TICKS - b \in 1 .. TICKS
      BY <1>1, <1>5, <2>1
    <3>2. (TICKS - b) - TICKS = 0 - b
      BY <1>1
    <3>3. (0 - b) % TICKS = (TICKS - b) % TICKS
      BY <1>4, <3>1, <3>2
    <3> QED BY <1>6, <2>1, <3>1, <3>3
  <2>2. CASE a + 1 # TICKS
    <3>1. ((a + 1) % TICKS) - b = a - b + 1
      BY <1>1, <1>6, <2>2
    <3>2. CASE b <= a
      BY <1>1, <1>5, <3>1, <3>2
    <3>3. CASE a < b
      <4>1. a - b + TICKS + 1 \in 1 .. TICKS /\ (a - b + TICKS + 1) - TICKS = a - b + 1
        BY <1>1, <3>3
      <4>2. ((a - b) % TICKS) + 1 = a - b + TICKS + 1
        BY <1>1, <1>5, <3>3
      <4> QED BY <1>4, <3>1, <4>1, <4>2
    <3> QED BY <1>1, <3>2, <3>3
  <2> QED BY <2>1, <2>2
<1>8. a - a = 0 /\ 0 % TICKS = 0
  BY <1>1, <1>2
<1>9. (a + 1) % TICKS \in 0 .. TICKS - 1
  BY <1>1, <1>6
<1> QED BY <1>7, <1>8, <1>9

(* _optimsoc_schedule moves the head of the queue to the processor.        *)
LEMMA ScheduleMoves ==
  ASSUME NEW r \in Seq(Threads), NEW ts, schedule(r, ts)
  PROVE  /\ active' \in Threads \cup {Idle}
         /\ ready_q' \in Seq(Threads)
         /\ status' \in {"up", "freed"}
         /\ \A t \in Threads : /\ Copies(ready_q', t) \in Nat /\ Copies(<<active'>>, t) \in Nat
                               /\ Copies(ready_q', t) + Copies(<<active'>>, t) = Copies(r, t)
<1>1. CASE r = <<>>
  <2>1. active' = Idle /\ ready_q' = r /\ status' \in {"up", "freed"}
    BY <1>1 DEF schedule
  <2>2. ASSUME NEW t \in Threads
        PROVE  /\ Copies(r, t) \in Nat /\ Copies(<<Idle>>, t) \in Nat
               /\ Copies(r, t) + Copies(<<Idle>>, t) = Copies(r, t)
    <3>1. Idle # t
      BY SchedAssumption
    <3>2. Copies(<<Idle>>, t) = 0
      BY <3>1, CopiesSingle
    <3>3. Copies(r, t) \in Nat
      BY CopiesType
    <3> QED BY <3>2, <3>3
  <2> QED BY <2>1, <2>2
<1>2. CASE r # <<>>
  <2>1. active' = Head(r) /\ ready_q' = Tail(r) /\ status' \in {"up", "freed"}
    BY <1>2 DEF schedule
  <2>2. Head(r) \in Threads /\ Tail(r) \in Seq(Threads)
    BY <1>2
  <2>3. ASSUME NEW t \in Threads
        PROVE  /\ Copies(Tail(r), t) \in Nat /\ Copies(<<Head(r)>>, t) \in Nat
               /\ Copies(Tail(r), t) + Copies(<<Head(r)>>, t) = Copies(r, t)
    <3>1. Copies(Tail(r), t) \in Nat
      BY <2>2, CopiesType
    <3>2. Copies(r, t) = Copies(Tail(r), t) + (IF Head(r) = t THEN 1 ELSE 0)
      BY <1>2, CopiesTail
    <3>3. Copies(<<Head(r)>>, t) = IF Head(r) = t THEN 1 ELSE 0
      BY CopiesSingle
    <3> QED BY <3>1, <3>2, <3>3
  <2> QED BY <2>1, <2>2, <2>3
<1> QED BY <1>1, <1>2

(* The running thread is in no queue and has no timer.                     *)
LEMMA ActiveElsewhere ==
  ASSUME Inv, status = "up", active \in Threads, pc[active] = "run"
  PROVE  /\ active \in all_threads
         /\ Copies(ready_q, active) = 0 /\ Copies(wait_q, active) = 0
         /\ \A i \in DOMAIN timers : timers[i].thread # active
<1>1. Copies(ready_q, active) \in Nat /\ Copies(wait_q, active) \in Nat
  BY CopiesType DEF Inv, TypeOK
<1>2. Copies(<<active>>, active) = 1
  BY CopiesSingle
<1>3. Copies(ready_q, active) + Copies(wait_q, active) + 1 =
        IF active \notin all_threads THEN 0 ELSE 1
  BY <1>2 DEF Inv, OnePlaceEach
<1>4. active \in all_threads /\ Copies(ready_q, active) = 0 /\ Copies(wait_q, active) = 0
  BY <1>1, <1>3
<1> QED BY <1>4 DEF Inv, TimersWait

(* A thread with a timer is neither active nor ready.                      *)
LEMMA TimedElsewhere ==
  ASSUME Inv, status = "up", NEW i \in DOMAIN timers
  PROVE  /\ timers[i].thread \in Threads /\ timers[i].thread # active
         /\ Copies(ready_q, timers[i].thread) = 0
<1> DEFINE t == timers[i].thread
<1>1. t \in Threads
  <2>1. timers[i] \in Timer
    BY DEF Inv, TypeOK
  <2> QED BY <2>1 DEF Timer
<1>2. Copies(wait_q, t) = 1 /\ pc[t] = "run"
  BY DEF Inv, TimersWait
<1> HIDE DEF t
<1>3. Copies(ready_q, t) \in Nat
  BY CopiesType DEF Inv, TypeOK
<1>4. Copies(ready_q, t) + 1 + Copies(<<active>>, t) = IF t \notin all_threads THEN 0 ELSE 1
  BY <1>1, <1>2 DEF Inv, OnePlaceEach
<1>5. Copies(<<active>>, t) = IF active = t THEN 1 ELSE 0
  BY CopiesSingle
<1>6. t # active /\ Copies(ready_q, t) = 0
  BY <1>3, <1>4, <1>5
<1> QED BY <1>1, <1>6 DEF t

(* The places of a thread: active, ready and waiting.                      *)
LEMMA PlacesType ==
  ASSUME Inv, NEW t
  PROVE  /\ Copies(ready_q, t) \in Nat /\ Copies(wait_q, t) \in Nat
         /\ Copies(<<active>>, t) = IF active = t THEN 1 ELSE 0
BY CopiesType, CopiesSingle DEF Inv, TypeOK

(* What an operation that leaves the timers alone has to preserve.         *)
LEMMA TimersUntouched ==
  ASSUME Inv, status = "up", TypeOK', KernelYields',
         timers' = timers, clock' = clock,
         ASSUME status' = "up"
         PROVE  \A i \in DOMAIN timers :
                  /\ Copies(wait_q', timers[i].thread) = Copies(wait_q, timers[i].thread)
                  /\ pc'[timers[i].thread] = pc[timers[i].thread],
         ASSUME status' = "up" PROVE OnePlaceEach'
  PROVE  Inv'
<1>1. TimersWait'
  BY DEF Inv, TimersWait
<1>2. TimersInStep'
  BY DEF Inv, TimersInStep
<1>3. OnePlaceEach'
  BY DEF OnePlaceEach
<1> QED BY <1>1, <1>2, <1>3 DEF Inv

LEMMA CreateInv ==
  ASSUME Inv, NEW t \in Threads, NEW suspended \in BOOLEAN, Create(t, suspended)
  PROVE  Inv'
<1> USE DEF Create
<1>1. status = "up"
  BY DEF Running
<1>2. TypeOK'
  BY DEF Inv, TypeOK
<1>3. KernelYields'
  BY DEF Inv, KernelYields
<1>4. ASSUME NEW u \in Threads
      PROVE  /\ Copies(wait_q', u) = Copies(wait_q, u) + (IF suspended /\ t = u THEN 1 ELSE 0)
             /\ Copies(ready_q', u) = Copies(ready_q, u) + (IF ~suspended /\ t = u THEN 1 ELSE 0)
  <2>1. ready_q \in Seq(Threads) /\ wait_q \in Seq(Threads)
    BY DEF Inv, TypeOK
  <2>2. Copies(ready_q, u) \in Nat /\ Copies(wait_q, u) \in Nat
    BY PlacesType
  <2>3. CASE suspended
    BY <2>1, <2>2, <2>3, CopiesAppend
  <2>4. CASE ~suspended
    BY <2>1, <2>2, <2>4, CopiesAppend
  <2> QED BY <2>3, <2>4
<1>5. Copies(ready_q, t) = 0 /\ Copies(wait_q, t) = 0 /\ active # t
  BY <1>1, PlacesType DEF Inv, OnePlaceEach
<1>6. ASSUME NEW i \in DOMAIN timers
      PROVE  Copies(wait_q', timers[i].thread) = Copies(wait_q, timers[i].thread)
  <2>1. timers[i].thread \in Threads /\ Copies(wait_q, timers[i].thread) = 1
    BY <1>1, TimedElsewhere DEF Inv, TimersWait
  <2> QED BY <1>4, <1>5, <2>1
<1>7. OnePlaceEach'
  <2> SUFFICES ASSUME NEW u \in Threads
      PROVE  Copies(ready_q', u) + Copies(wait_q', u) + Copies(<<active>>, u) =
               IF u \notin all_threads' THEN 0 ELSE IF pc[u] = "yield" THEN 2 ELSE 1
    BY DEF OnePlaceEach
  <2>1. Copies(ready_q, u) + Copies(wait_q, u) + Copies(<<active>>, u) =
          IF u \notin all_threads THEN 0 ELSE IF pc[u] = "yield" THEN 2 ELSE 1
    BY <1>1 DEF Inv, OnePlaceEach
  <2>2. CASE u = t
    BY <1>4, <1>5, <2>2, PlacesType
  <2>3. CASE u # t
    BY <1>4, <2>1, <2>3, PlacesType
  <2> QED BY <2>2, <2>3
<1> QED BY <1>1, <1>2, <1>3, <1>6, <1>7, TimersUntouched

LEMMA ThreadAddInv ==
  ASSUME Inv, NEW t \in Threads, ThreadAdd(t)
  PROVE  Inv'
<1> USE DEF ThreadAdd
<1>1. status = "up"
  BY DEF Running
<1>2. TypeOK'
  BY DEF Inv, TypeOK
<1>3. KernelYields'
  BY DEF Inv, KernelYields
<1>4. OnePlaceEach'
  <2> SUFFICES ASSUME NEW u \in Threads
      PROVE  Copies(ready_q', u) + Copies(wait_q, u) + Copies(<<active>>, u) =
               IF u \notin all_threads' THEN 0 ELSE IF pc[u] = "yield" THEN 2 ELSE 1
    BY DEF OnePlaceEach
  <2>1. Copies(ready_q, u) + Copies(wait_q, u) + Copies(<<active>>, u) =
          IF u \notin all_threads THEN 0 ELSE IF pc[u] = "yield" THEN 2 ELSE 1
    BY <1>1 DEF Inv, OnePlaceEach
  <2>2. Copies(ready_q', u) = Copies(ready_q, u) + (IF t = u THEN 1 ELSE 0)
    BY CopiesAppend DEF Inv, TypeOK
  <2>3. CASE u = t
    BY <2>1, <2>2, <2>3, PlacesType
  <2>4. CASE u # t
    BY <2>1, <2>2, <2>4, PlacesType
  <2> QED BY <2>3, <2>4
<1> QED BY <1>1, <1>2, <1>3, <1>4, TimersUntouched

LEMMA YieldInv ==
  ASSUME Inv, Yield
  PROVE  Inv'
<1>1. /\ status = "up" /\ active \in Threads /\ active \in Kernel /\ pc[active] = "run"
      /\ pc' = [pc EXCEPT ![active] = "yield"]
      /\ UNCHANGED <<active, wait_q, all_threads, state, timers, clock>>
  BY SchedAssumption DEF Yield, Running
<1>2. ~Contains(ready_q, active)
  BY <1>1, ActiveElsewhere, CopiesContains DEF Inv, TypeOK
<1>3. /\ ready_q' = Append(ready_q, active) /\ status' = "up"
  BY <1>1, <1>2, CopiesRemoveFirst DEF Yield, Inv, TypeOK
<1>4. TypeOK'
  BY <1>1, <1>3 DEF Inv, TypeOK
<1>5. KernelYields'
  BY <1>1 DEF Inv, TypeOK, KernelYields
<1>6. ASSUME NEW i \in DOMAIN timers
      PROVE  pc'[timers[i].thread] = pc[timers[i].thread]
  BY <1>1, TimedElsewhere DEF Inv, TypeOK
<1>7. OnePlaceEach'
  <2> SUFFICES ASSUME NEW u \in Threads
      PROVE  Copies(ready_q', u) + Copies(wait_q, u) + Copies(<<active>>, u) =
               IF u \notin all_threads THEN 0 ELSE IF pc'[u] = "yield" THEN 2 ELSE 1
    BY <1>1 DEF OnePlaceEach
  <2>1. Copies(ready_q, u) + Copies(wait_q, u) + Copies(<<active>>, u) =
          IF u \notin all_threads THEN 0 ELSE IF pc[u] = "yield" THEN 2 ELSE 1
    BY <1>1 DEF Inv, OnePlaceEach
  <2>2. Copies(ready_q', u) = Copies(ready_q, u) + (IF active = u THEN 1 ELSE 0)
    BY <1>1, <1>3, CopiesAppend DEF Inv, TypeOK
  <2>3. pc'[u] = IF u = active THEN "yield" ELSE pc[u]
    BY <1>1 DEF Inv, TypeOK
  <2>4. active \in all_threads
    BY <1>1, ActiveElsewhere
  <2>5. CASE u = active
    BY <1>1, <2>1, <2>2, <2>3, <2>4, <2>5, PlacesType
  <2>6. CASE u # active
    BY <2>1, <2>2, <2>3, <2>6, PlacesType
  <2> QED BY <2>5, <2>6
<1> QED BY <1>1, <1>4, <1>5, <1>6, <1>7, TimersUntouched

LEMMA YieldSwitchInv ==
  ASSUME Inv, YieldSwitch
  PROVE  Inv'
<1>1. /\ status = "up" /\ active \in Threads /\ pc[active] = "yield"
      /\ pc' = [pc EXCEPT ![active] = "run"]
      /\ schedule(ready_q, timers)
      /\ UNCHANGED <<wait_q, all_threads, state, timers, clock>>
  BY DEF YieldSwitch, Inv, TypeOK
<1>2. /\ active' \in Threads \cup {Idle} /\ ready_q' \in Seq(Threads) /\ status' \in {"up", "freed"}
      /\ \A u \in Threads : /\ Copies(ready_q', u) \in Nat /\ Copies(<<active'>>, u) \in Nat
                            /\ Copies(ready_q', u) + Copies(<<active'>>, u) = Copies(ready_q, u)
  BY <1>1, ScheduleMoves DEF Inv, TypeOK
<1>3. TypeOK'
  BY <1>1, <1>2 DEF Inv, TypeOK
<1>4. KernelYields'
  BY <1>1 DEF Inv, TypeOK, KernelYields
<1>5. ASSUME NEW i \in DOMAIN timers
      PROVE  pc'[timers[i].thread] = pc[timers[i].thread]
  BY <1>1, TimedElsewhere DEF Inv, TypeOK
<1>6. OnePlaceEach'
  <2> SUFFICES ASSUME NEW u \in Threads
      PROVE  Copies(ready_q', u) + Copies(wait_q, u) + Copies(<<active'>>, u) =
               IF u \notin all_threads THEN 0 ELSE IF pc'[u] = "yield" THEN 2 ELSE 1
    BY <1>1 DEF OnePlaceEach
  <2>1. Copies(ready_q, u) + Copies(wait_q, u) + Copies(<<active>>, u) =
          IF u \notin all_threads THEN 0 ELSE IF pc[u] = "yield" THEN 2 ELSE 1
    BY <1>1 DEF Inv, OnePlaceEach
  <2>2. pc'[u] = IF u = active THEN "run" ELSE pc[u]
    BY <1>1 DEF Inv, TypeOK
  <2>3. /\ Copies(ready_q', u) \in Nat /\ Copies(<<active'>>, u) \in Nat
        /\ Copies(ready_q', u) + Copies(<<active'>>, u) = Copies(ready_q, u)
    BY <1>2
  <2>4. CASE u = active
    BY <1>1, <2>1, <2>2, <2>3, <2>4, PlacesType
  <2>5. CASE u # active
    BY <2>1, <2>2, <2>3, <2>5, PlacesType
  <2> QED BY <2>4, <2>5
<1> QED BY <1>1, <1>3, <1>4, <1>5, <1>6, TimersUntouched

(* The active thread goes to the wait queue and another one is scheduled.  *)
LEMMA SuspendMoves ==
  ASSUME Inv, NEW ts, status = "up", active \in Threads, pc[active] = "run",
         wait_q' = Append(wait_q, active),
         state' = [state EXCEPT ![active] = "suspended"],
         schedule(ready_q, ts),
         UNCHANGED <<all_threads, pc, clock>>
  PROVE  /\ active' \in Threads \cup {Idle} /\ ready_q' \in Seq(Threads)
         /\ wait_q' \in Seq(Threads) /\ status' \in {"up", "freed"}
         /\ state' \in [Threads -> {"runnable", "suspended"}]
         /\ \A u \in Threads :
              Copies(wait_q', u) = Copies(wait_q, u) + (IF active = u THEN 1 ELSE 0)
         /\ OnePlaceEach'
<1>1. /\ active' \in Threads \cup {Idle} /\ ready_q' \in Seq(Threads) /\ status' \in {"up", "freed"}
      /\ \A u \in Threads : /\ Copies(ready_q', u) \in Nat /\ Copies(<<active'>>, u) \in Nat
                            /\ Copies(ready_q', u) + Copies(<<active'>>, u) = Copies(ready_q, u)
  BY ScheduleMoves DEF Inv, TypeOK
<1>2. wait_q' \in Seq(Threads) /\ state' \in [Threads -> {"runnable", "suspended"}]
  BY DEF Inv, TypeOK
<1>3. ASSUME NEW u \in Threads
      PROVE  Copies(wait_q', u) = Copies(wait_q, u) + (IF active = u THEN 1 ELSE 0)
  BY CopiesAppend DEF Inv, TypeOK
<1>4. OnePlaceEach'
  <2> SUFFICES ASSUME NEW u \in Threads
      PROVE  Copies(ready_q', u) + Copies(wait_q', u) + Copies(<<active'>>, u) =
               IF u \notin all_threads THEN 0 ELSE IF pc[u] = "yield" THEN 2 ELSE 1
    BY DEF OnePlaceEach
  <2>1. Copies(ready_q, u) + Copies(wait_q, u) + Copies(<<active>>, u) =
          IF u \notin all_threads THEN 0 ELSE IF pc[u] = "yield" THEN 2 ELSE 1
    BY DEF Inv, OnePlaceEach
  <2>2. /\ Copies(ready_q', u) \in Nat /\ Copies(<<active'>>, u) \in Nat
        /\ Copies(ready_q', u) + Copies(<<active'>>, u) = Copies(ready_q, u)
    BY <1>1
  <2>3. Copies(wait_q', u) = Copies(wait_q, u) + Copies(<<active>>, u)
    BY <1>3, PlacesType
  <2>4. Copies(wait_q, u) \in Nat /\ Copies(<<active>>, u) \in Nat
    BY PlacesType
  <2> QED BY <2>1, <2>2, <2>3, <2>4
<1> QED BY <1>1, <1>2, <1>3, <1>4

LEMMA SuspendSelfInv ==
  ASSUME Inv, SuspendSelf
  PROVE  Inv'
<1>1. /\ status = "up" /\ active \in Threads /\ pc[active] = "run"
      /\ UNCHANGED <<all_threads, pc, timers, clock>>
  BY SchedAssumption DEF SuspendSelf, Running
<1>2. KernelYields'
  BY <1>1 DEF Inv, KernelYields
<1>3. CASE state[active] = "runnable"
  <2>1. /\ wait_q' = Append(wait_q, active)
        /\ state' = [state EXCEPT ![active] = "suspended"]
        /\ schedule(ready_q, timers)
    BY <1>3 DEF SuspendSelf
  <2>2. /\ active' \in Threads \cup {Idle} /\ ready_q' \in Seq(Threads)
        /\ wait_q' \in Seq(Threads) /\ status' \in {"up", "freed"}
        /\ state' \in [Threads -> {"runnable", "suspended"}]
        /\ \A u \in Threads :
             Copies(wait_q', u) = Copies(wait_q, u) + (IF active = u THEN 1 ELSE 0)
        /\ OnePlaceEach'
    BY <1>1, <2>1, SuspendMoves
  <2>3. TypeOK'
    BY <1>1, <2>2 DEF Inv, TypeOK
  <2>4. ASSUME NEW i \in DOMAIN timers
        PROVE  Copies(wait_q', timers[i].thread) = Copies(wait_q, timers[i].thread)
    BY <1>1, <2>2, TimedElsewhere, PlacesType
  <2> QED BY <1>1, <1>2, <2>2, <2>3, <2>4, TimersUntouched
<1>4. CASE state[active] # "runnable"
  <2>1. status' = "assert" /\ UNCHANGED <<wait_q, state, active, ready_q>>
    BY <1>4 DEF SuspendSelf
  <2>2. TypeOK'
    BY <1>1, <2>1 DEF Inv, TypeOK
  <2> QED BY <1>1, <1>2, <2>1, <2>2, TimersUntouched
<1> QED BY <1>3, <1>4

LEMMA SuspendOtherInv ==
  ASSUME Inv, NEW t \in Threads, SuspendOther(t)
  PROVE  Inv'
<1>1. /\ status = "up" /\ t # active
      /\ UNCHANGED <<active, all_threads, pc, timers, clock>>
  BY DEF SuspendOther, Running
<1>2. KernelYields'
  BY <1>1 DEF Inv, KernelYields
<1>3. CASE state[t] = "runnable" /\ Contains(ready_q, t)
  <2>1. /\ ready_remove(t)
        /\ wait_q' = Append(wait_q, t)
        /\ state' = [state EXCEPT ![t] = "suspended"]
    BY <1>3 DEF SuspendOther
  <2>2. /\ ready_q' \in Seq(Threads) /\ status' \in {"up", "freed"}
        /\ status' = "up" => ready_q' = RemoveFirst(ready_q, t)
    BY <1>1, <2>1, CopiesRemoveFirst DEF ready_remove, Inv, TypeOK
  <2>3. TypeOK'
    BY <1>1, <2>1, <2>2 DEF Inv, TypeOK
  <2>4. ASSUME NEW u \in Threads
        PROVE  Copies(wait_q', u) = Copies(wait_q, u) + (IF t = u THEN 1 ELSE 0)
    BY <2>1, CopiesAppend DEF Inv, TypeOK
  <2>5. Copies(ready_q, t) > 0
    BY <1>3, CopiesContains DEF Inv, TypeOK
  <2>6. ASSUME NEW i \in DOMAIN timers
        PROVE  Copies(wait_q', timers[i].thread) = Copies(wait_q, timers[i].thread)
    <3>1. timers[i].thread \in Threads /\ Copies(ready_q, timers[i].thread) = 0
      BY <1>1, TimedElsewhere
    <3>2. timers[i].thread # t
      BY <2>5, <3>1
    <3> QED BY <2>4, <3>1, <3>2, PlacesType
  <2>7. ASSUME status' = "up" PROVE OnePlaceEach'
    <3> SUFFICES ASSUME NEW u \in Threads
        PROVE  Copies(ready_q', u) + Copies(wait_q', u) + Copies(<<active>>, u) =
                 IF u \notin all_threads THEN 0 ELSE IF pc[u] = "yield" THEN 2 ELSE 1
      BY <1>1 DEF OnePlaceEach
    <3>1. Copies(ready_q, u) + Copies(wait_q, u) + Copies(<<active>>, u) =
            IF u \notin all_threads THEN 0 ELSE IF pc[u] = "yield" THEN 2 ELSE 1
      BY <1>1 DEF Inv, OnePlaceEach
    <3>2. Copies(ready_q, u) = Copies(ready_q', u) + (IF u = t THEN 1 ELSE 0)
      BY <1>3, <2>2, <2>7, CopiesRemoveFirst DEF Inv, TypeOK
    <3>3. Copies(ready_q', u) \in Nat
      BY <2>2, CopiesType
    <3> QED BY <2>4, <3>1, <3>2, <3>3, PlacesType
  <2> QED BY <1>1, <1>2, <2>3, <2>6, <2>7, TimersUntouched
<1>4. CASE ~(state[t] = "runnable" /\ Contains(ready_q, t))
  <2>1. status' = "assert" /\ UNCHANGED <<wait_q, state, ready_q>>
    BY <1>4 DEF SuspendOther
  <2>2. TypeOK'
    BY <1>1, <2>1 DEF Inv, TypeOK
  <2> QED BY <1>1, <1>2, <2>1, <2>2, TimersUntouched
<1> QED BY <1>3, <1>4

LEMMA ResumeInv ==
  ASSUME Inv, NEW t \in Threads, Resume(t)
  PROVE  Inv'
<1>1. /\ status = "up" /\ Contains(wait_q, t) /\ t \notin Timed(timers)
      /\ UNCHANGED <<active, all_threads, pc, timers, clock>>
  BY DEF Resume, Running
<1>2. KernelYields'
  BY <1>1 DEF Inv, KernelYields
<1>3. CASE state[t] = "suspended"
  <2>1. /\ wait_q' = RemoveFirst(wait_q, t)
        /\ ready_q' = Append(ready_q, t)
        /\ state' = [state EXCEPT ![t] = "runnable"]
        /\ status' = "up"
    BY <1>1, <1>3 DEF Resume
  <2>2. wait_q' \in Seq(Threads)
    BY <2>1, CopiesRemoveFirst DEF Inv, TypeOK
  <2>3. TypeOK'
    BY <1>1, <2>1, <2>2 DEF Inv, TypeOK
  <2>4. ASSUME NEW u \in Threads
        PROVE  /\ Copies(wait_q', u) \in Nat
               /\ Copies(wait_q, u) = Copies(wait_q', u) + (IF u = t THEN 1 ELSE 0)
    <3>1. Copies(wait_q', u) \in Nat
      BY <2>2, CopiesType
    <3>2. Copies(wait_q, u) = Copies(wait_q', u) + (IF u = t THEN 1 ELSE 0)
      BY <1>1, <2>1, CopiesRemoveFirst DEF Inv, TypeOK
    <3> QED BY <3>1, <3>2
  <2>5. ASSUME NEW i \in DOMAIN timers
        PROVE  Copies(wait_q', timers[i].thread) = Copies(wait_q, timers[i].thread)
    <3>1. timers[i].thread \in Threads /\ timers[i].thread # t
      BY <1>1, TimedElsewhere DEF Timed
    <3> QED BY <2>4, <3>1
  <2>6. OnePlaceEach'
    <3> SUFFICES ASSUME NEW u \in Threads
        PROVE  Copies(ready_q', u) + Copies(wait_q', u) + Copies(<<active>>, u) =
                 IF u \notin all_threads THEN 0 ELSE IF pc[u] = "yield" THEN 2 ELSE 1
      BY <1>1 DEF OnePlaceEach
    <3>1. Copies(ready_q, u) + Copies(wait_q, u) + Copies(<<active>>, u) =
            IF u \notin all_threads THEN 0 ELSE IF pc[u] = "yield" THEN 2 ELSE 1
      BY <1>1 DEF Inv, OnePlaceEach
    <3>2. Copies(ready_q', u) = Copies(ready_q, u) + (IF t = u THEN 1 ELSE 0)
      BY <2>1, CopiesAppend DEF Inv, TypeOK
    <3> QED BY <2>4, <3>1, <3>2, PlacesType
  <2> QED BY <1>1, <1>2, <2>3, <2>5, <2>6, TimersUntouched
<1>4. CASE state[t] # "suspended"
  <2>1. status' = "assert" /\ UNCHANGED <<wait_q, state, ready_q>>
    BY <1>4 DEF Resume
  <2>2. TypeOK'
    BY <1>1, <2>1 DEF Inv, TypeOK
  <2> QED BY <1>1, <1>2, <2>1, <2>2, TimersUntouched
<1> QED BY <1>3, <1>4

LEMMA ExitInv ==
  ASSUME Inv, Exit
  PROVE  Inv'
<1>1. /\ status = "up" /\ active \in Threads /\ pc[active] = "run"
      /\ all_threads' = all_threads \ {active}
      /\ pc' = [pc EXCEPT ![active] = "exit"]
      /\ schedule(ready_q, timers)
      /\ UNCHANGED <<wait_q, state, timers, clock>>
  BY DEF Exit, Inv, TypeOK
<1>2. /\ active' \in Threads \cup {Idle} /\ ready_q' \in Seq(Threads) /\ status' \in {"up", "freed"}
      /\ \A u \in Threads : /\ Copies(ready_q', u) \in Nat /\ Copies(<<active'>>, u) \in Nat
                            /\ Copies(ready_q', u) + Copies(<<active'>>, u) = Copies(ready_q, u)
  BY <1>1, ScheduleMoves DEF Inv, TypeOK
<1>3. TypeOK'
  BY <1>1, <1>2 DEF Inv, TypeOK
<1>4. KernelYields'
  BY <1>1 DEF Inv, TypeOK, KernelYields
<1>5. ASSUME NEW i \in DOMAIN timers
      PROVE  pc'[timers[i].thread] = pc[timers[i].thread]
  BY <1>1, TimedElsewhere DEF Inv, TypeOK
<1>6. OnePlaceEach'
  <2> SUFFICES ASSUME NEW u \in Threads
      PROVE  Copies(ready_q', u) + Copies(wait_q, u) + Copies(<<active'>>, u) =
               IF u \notin all_threads' THEN 0 ELSE IF pc'[u] = "yield" THEN 2 ELSE 1
    BY <1>1 DEF OnePlaceEach
  <2>1. Copies(ready_q, u) + Copies(wait_q, u) + Copies(<<active>>, u) =
          IF u \notin all_threads THEN 0 ELSE IF pc[u] = "yield" THEN 2 ELSE 1
    BY <1>1 DEF Inv, OnePlaceEach
  <2>2. pc'[u] = IF u = active THEN "exit" ELSE pc[u]
    BY <1>1 DEF Inv, TypeOK
  <2>3. /\ Copies(ready_q', u) \in Nat /\ Copies(<<active'>>, u) \in Nat
        /\ Copies(ready_q', u) + Copies(<<active'>>, u) = Copies(ready_q, u)
    BY <1>2
  <2>4. CASE u = active
    <3>1. Copies(ready_q, u) = 0 /\ Copies(wait_q, u) = 0
      BY <1>1, <2>4, ActiveElsewhere
    <3>2. u \notin all_threads'
      BY <1>1, <2>4
    <3> QED BY <2>3, <3>1, <3>2
  <2>5. CASE u # active
    <3>1. Copies(<<active>>, u) = 0 /\ Copies(wait_q, u) \in Nat
      BY <2>5, PlacesType
    <3>2. u \in all_threads' <=> u \in all_threads
      BY <1>1, <2>5
    <3> QED BY <2>1, <2>2, <2>3, <2>5, <3>1, <3>2
  <2> QED BY <2>4, <2>5
<1> QED BY <1>1, <1>3, <1>4, <1>5, <1>6, TimersUntouched

LEMMA ThreadRemoveInv ==
  ASSUME Inv, NEW t \in Threads, ThreadRemove(t)
  PROVE  Inv'
<1>1. /\ status = "up" /\ t \in all_threads \ Kernel
      /\ UNCHANGED <<active, wait_q, state, pc, timers, clock>>
  BY DEF ThreadRemove, Running
<1>2. KernelYields'
  BY <1>1 DEF Inv, KernelYields
<1>3. CASE Contains(ready_q, t)
  <2>1. ready_remove(t) /\ all_threads' = all_threads \ {t}
    BY <1>3 DEF ThreadRemove
  <2>2. /\ ready_q' \in Seq(Threads) /\ status' \in {"up", "freed"}
        /\ status' = "up" => ready_q' = RemoveFirst(ready_q, t)
    BY <1>1, <2>1, CopiesRemoveFirst DEF ready_remove, Inv, TypeOK
  <2>3. TypeOK'
    BY <1>1, <2>1, <2>2 DEF Inv, TypeOK
  <2>4. ASSUME status' = "up" PROVE OnePlaceEach'
    <3> SUFFICES ASSUME NEW u \in Threads
        PROVE  Copies(ready_q', u) + Copies(wait_q, u) + Copies(<<active>>, u) =
                 IF u \notin all_threads' THEN 0 ELSE IF pc[u] = "yield" THEN 2 ELSE 1
      BY <1>1 DEF OnePlaceEach
    <3>1. Copies(ready_q, u) + Copies(wait_q, u) + Copies(<<active>>, u) =
            IF u \notin all_threads THEN 0 ELSE IF pc[u] = "yield" THEN 2 ELSE 1
      BY <1>1 DEF Inv, OnePlaceEach
    <3>2. Copies(ready_q, u) = Copies(ready_q', u) + (IF u = t THEN 1 ELSE 0)
      BY <1>3, <2>2, <2>4, CopiesRemoveFirst DEF Inv, TypeOK
    <3>3. Copies(ready_q', u) \in Nat
      BY <2>2, CopiesType
    <3>4. u = t => u \in all_threads /\ pc[u] # "yield"
      BY <1>1 DEF Inv, KernelYields
    <3>5. u \in all_threads' <=> u \in all_threads /\ u # t
      BY <2>1
    <3> QED BY <3>1, <3>2, <3>3, <3>4, <3>5, PlacesType
  <2> QED BY <1>1, <1>2, <2>3, <2>4, TimersUntouched
<1>4. CASE ~Contains(ready_q, t)
  <2>1. status' = "assert" /\ UNCHANGED <<ready_q, all_threads>>
    BY <1>4 DEF ThreadRemove
  <2>2. TypeOK'
    BY <1>1, <2>1 DEF Inv, TypeOK
  <2> QED BY <1>1, <1>2, <2>1, <2>2, TimersUntouched
<1> QED BY <1>3, <1>4

LEMMA WaitTicksInv ==
  ASSUME Inv, NEW n \in Goals, WaitTicks(n)
  PROVE  Inv'
<1> DEFINE tm == [thread |-> active, ticks |-> 0, goal |-> n, start |-> clock]
<1>1. /\ status = "up" /\ active \in Threads /\ pc[active] = "run"
      /\ UNCHANGED <<all_threads, pc, clock>>
  BY SchedAssumption DEF WaitTicks, Running
<1>2. KernelYields'
  BY <1>1 DEF Inv, KernelYields
<1>3. CASE state[active] = "runnable"
  <2>1. /\ timers' = Append(timers, tm)
        /\ wait_q' = Append(wait_q, active)
        /\ state' = [state EXCEPT ![active] = "suspended"]
        /\ schedule(ready_q, timers')
    BY <1>3 DEF WaitTicks
  <2>2. /\ active' \in Threads \cup {Idle} /\ ready_q' \in Seq(Threads)
        /\ wait_q' \in Seq(Threads) /\ status' \in {"up", "freed"}
        /\ state' \in [Threads -> {"runnable", "suspended"}]
        /\ \A u \in Threads :
             Copies(wait_q', u) = Copies(wait_q, u) + (IF active = u THEN 1 ELSE 0)
        /\ OnePlaceEach'
    BY <1>1, <2>1, SuspendMoves
  <2>3. tm \in Timer /\ timers \in Seq(Timer) /\ clock \in 0 .. TICKS - 1
    BY <1>1, SchedAssumption DEF Inv, TypeOK, Timer
  <2>4. TypeOK'
    BY <1>1, <2>1, <2>2, <2>3 DEF Inv, TypeOK
  <2>5. /\ DOMAIN timers' = 1 .. Len(timers) + 1 /\ DOMAIN timers = 1 .. Len(timers)
        /\ timers'[Len(timers) + 1] = tm
        /\ \A i \in DOMAIN timers : timers'[i] = timers[i]
    BY <2>1, <2>3
  <2>6. ASSUME NEW i \in DOMAIN timers'
        PROVE  i \in DOMAIN timers \/ i = Len(timers) + 1
    BY <2>3, <2>5
  <2>7. Copies(wait_q, active) = 0 /\ \A i \in DOMAIN timers : timers[i].thread # active
    BY <1>1, ActiveElsewhere
  <2>8. TimersWait'
    <3>1. ASSUME NEW i \in DOMAIN timers'
          PROVE  Copies(wait_q', timers'[i].thread) = 1 /\ pc'[timers'[i].thread] = "run"
      <4>1. CASE i \in DOMAIN timers
        <5>1. /\ timers[i].thread \in Threads /\ timers[i].thread # active
              /\ Copies(wait_q, timers[i].thread) = 1 /\ pc[timers[i].thread] = "run"
          BY <1>1, <4>1, TimedElsewhere DEF Inv, TimersWait
        <5> QED BY <1>1, <2>2, <2>5, <4>1, <5>1
      <4>2. CASE i = Len(timers) + 1
        BY <1>1, <2>2, <2>5, <2>7, <4>2
      <4> QED BY <2>6, <4>1, <4>2
    <3>2. ASSUME NEW i \in DOMAIN timers', NEW j \in DOMAIN timers',
                 timers'[i].thread = timers'[j].thread
          PROVE  i = j
      <4>1. \A k, l \in DOMAIN timers : timers[k].thread = timers[l].thread => k = l
        BY <1>1 DEF Inv, TimersWait
      <4> QED BY <2>5, <2>6, <2>7, <3>2, <4>1
    <3> QED BY <3>1, <3>2 DEF TimersWait
  <2>9. TimersInStep'
    <3> SUFFICES ASSUME NEW i \in DOMAIN timers'
        PROVE  /\ timers'[i].ticks = (clock - timers'[i].start) % TICKS
               /\ timers'[i].ticks = timers'[i].goal => timers'[i].goal = 0
      BY <1>1 DEF TimersInStep
    <3>1. CASE i \in DOMAIN timers
      BY <1>1, <2>5, <3>1 DEF Inv, TimersInStep
    <3>2. CASE i = Len(timers) + 1
      <4>1. (clock - clock) % TICKS = 0
        BY <2>3, TicksModulo
      <4> QED BY <2>5, <3>2, <4>1
    <3> QED BY <2>6, <3>1, <3>2
  <2> QED BY <1>2, <2>2, <2>4, <2>8, <2>9 DEF Inv
<1>4. CASE state[active] # "runnable"
  <2>1. status' = "assert" /\ UNCHANGED <<timers, wait_q, state, active, ready_q>>
    BY <1>4 DEF WaitTicks
  <2>2. TypeOK'
    BY <1>1, <2>1 DEF Inv, TypeOK
  <2> QED BY <1>1, <1>2, <2>1, <2>2, TimersUntouched
<1> QED BY <1>3, <1>4

(* A tick leaves the timers in step that it does not take out.             *)
LEMMA AdvancedTimers ==
  ASSUME Inv
  PROVE  /\ advanced \in Seq(Timer) /\ DOMAIN advanced = DOMAIN timers
         /\ \A i \in DOMAIN timers :
              /\ advanced[i].thread = timers[i].thread /\ advanced[i].thread \in Threads
              /\ advanced[i].start = timers[i].start
              /\ advanced[i].goal = timers[i].goal
              /\ advanced[i].ticks = (timers[i].ticks + 1) % TICKS
<1>1. timers \in Seq(Timer) /\ DOMAIN timers = 1 .. Len(timers)
  BY DEF Inv, TypeOK
<1>2. ASSUME NEW i \in DOMAIN timers
      PROVE  /\ advanced[i] \in Timer
             /\ advanced[i].thread = timers[i].thread /\ advanced[i].thread \in Threads
             /\ advanced[i].start = timers[i].start
             /\ advanced[i].goal = timers[i].goal
             /\ advanced[i].ticks = (timers[i].ticks + 1) % TICKS
  <2>1. timers[i] \in Timer
    BY <1>1
  <2>2. advanced[i] = [timers[i] EXCEPT !.ticks = (@ + 1) % TICKS]
    BY DEF advanced
  <2>3. timers[i].ticks \in 0 .. TICKS - 1
    BY <2>1 DEF Timer
  <2>4. (timers[i].ticks + 1) % TICKS \in 0 .. TICKS - 1
    BY <2>3, TicksModulo
  <2> QED BY <2>1, <2>2, <2>4 DEF Timer
<1>3. advanced = [i \in 1 .. Len(timers) |-> advanced[i]] /\ Len(timers) \in Nat
  BY <1>1 DEF advanced
<1> QED BY <1>1, <1>2, <1>3

(* The threads of the timers that expire are resumed once each.            *)
LEMMA ResumedOnce ==
  ASSUME Inv, status = "up"
  PROVE  /\ expired \in Seq(Timer) /\ resumed \in Seq(Threads)
         /\ Timed(expired) =
              {timers[i].thread : i \in {j \in DOMAIN timers : advanced[j].ticks = advanced[j].goal}}
         /\ \A u \in Threads : Copies(resumed, u) = IF u \in Timed(expired) THEN 1 ELSE 0
<1> DEFINE E == {i \in DOMAIN timers : advanced[i].ticks = advanced[i].goal}
<1>1. /\ advanced \in Seq(Timer) /\ E \in SUBSET DOMAIN advanced
      /\ \A i \in DOMAIN timers :
           advanced[i].thread = timers[i].thread /\ advanced[i].thread \in Threads
  BY AdvancedTimers
<1>2. \A i, j \in DOMAIN timers : timers[i].thread = timers[j].thread => i = j
  BY DEF Inv, TimersWait
<1> HIDE DEF E
<1>3. expired = Kept(advanced, E)
  BY DEF expired, E
<1>4. expired \in Seq(Timer)
  BY <1>1, <1>3, KeptPositions
<1>5. PICK g \in Bijection(DOMAIN expired, E) :
        \A k \in DOMAIN expired : expired[k] = advanced[g[k]]
  BY <1>1, <1>3, KeptPositions
<1>6. /\ g \in [DOMAIN expired -> E]
      /\ \A k, l \in DOMAIN expired : g[k] = g[l] => k = l
      /\ \A i \in E : \E k \in DOMAIN expired : g[k] = i
  BY <1>5, Zenon DEF Bijection, Injection, Surjection, IsInjective
<1>7. E \subseteq DOMAIN timers
  BY DEF E
<1>8. ASSUME NEW k \in DOMAIN expired
      PROVE  /\ g[k] \in E /\ g[k] \in DOMAIN timers
             /\ expired[k].thread = timers[g[k]].thread /\ expired[k].thread \in Threads
  BY <1>1, <1>5, <1>6, <1>7
<1>9. Timed(expired) = {timers[i].thread : i \in E}
  <2>1. ASSUME NEW i \in E PROVE \E k \in DOMAIN expired : expired[k].thread = timers[i].thread
    <3>1. PICK k \in DOMAIN expired : g[k] = i
      BY <1>6
    <3> QED BY <1>8, <3>1
  <2> QED BY <1>8, <2>1 DEF Timed
<1>10. /\ resumed \in Seq(Threads) /\ DOMAIN resumed = DOMAIN expired
       /\ \A k \in DOMAIN expired : resumed[k] = expired[k].thread
  <2>1. DOMAIN expired = 1 .. Len(expired) /\ Len(expired) \in Nat
    BY <1>4
  <2>2. resumed = [k \in 1 .. Len(expired) |-> expired[k].thread]
    BY <2>1 DEF resumed
  <2> QED BY <1>8, <2>1, <2>2
<1>11. ASSUME NEW u \in Threads PROVE Copies(resumed, u) = IF u \in Timed(expired) THEN 1 ELSE 0
  <2> DEFINE K == {k \in DOMAIN resumed : resumed[k] = u}
  <2>1. CASE u \in Timed(expired)
    <3>1. PICK k \in DOMAIN expired : expired[k].thread = u
      BY <2>1 DEF Timed
    <3>2. K = {k}
      <4>1. k \in K
        BY <1>10, <3>1
      <4>2. ASSUME NEW l \in K PROVE l = k
        <5>1. l \in DOMAIN expired /\ expired[l].thread = u
          BY <1>10
        <5>2. g[l] = g[k]
          BY <1>2, <1>8, <3>1, <5>1
        <5> QED BY <1>6, <3>1, <5>1, <5>2
      <4> QED BY <4>1, <4>2
    <3> QED BY <2>1, <3>2, FS_Singleton DEF Copies
  <2>2. CASE u \notin Timed(expired)
    <3>1. K = {}
      BY <1>10, <2>2 DEF Timed
    <3> QED BY <2>2, <3>1, FS_EmptySet DEF Copies
  <2> QED BY <2>1, <2>2
<1> QED BY <1>4, <1>9, <1>10, <1>11 DEF E

LEMMA TickInv ==
  ASSUME Inv, Tick
  PROVE  Inv'
<1> DEFINE P == {i \in DOMAIN timers : advanced[i].ticks # advanced[i].goal}
           W == {i \in DOMAIN wait_q : wait_q[i] \notin Timed(expired)}
           cur == IF active = Idle THEN <<>> ELSE <<active>>
           r == ready_q \o resumed \o cur
<1>1. /\ status = "up" /\ clock' = (clock + 1) % TICKS /\ timers' = pending
      /\ UNCHANGED <<all_threads, pc>>
  BY DEF Tick
<1>2. /\ advanced \in Seq(Timer) /\ DOMAIN advanced = DOMAIN timers
      /\ \A i \in DOMAIN timers :
           /\ advanced[i].thread = timers[i].thread /\ advanced[i].thread \in Threads
           /\ advanced[i].start = timers[i].start
           /\ advanced[i].goal = timers[i].goal
           /\ advanced[i].ticks = (timers[i].ticks + 1) % TICKS
  BY AdvancedTimers
<1>3. /\ resumed \in Seq(Threads)
      /\ Timed(expired) =
           {timers[i].thread : i \in {j \in DOMAIN timers : advanced[j].ticks = advanced[j].goal}}
      /\ \A u \in Threads : Copies(resumed, u) = IF u \in Timed(expired) THEN 1 ELSE 0
  BY <1>1, ResumedOnce
<1>4. P \in SUBSET DOMAIN advanced
  BY <1>2
<1>5. /\ timers' \in Seq(Timer)
      /\ \E g \in Bijection(DOMAIN timers', P) : \A k \in DOMAIN timers' : timers'[k] = advanced[g[k]]
  <2> HIDE DEF P
  <2>1. timers' = Kept(advanced, P)
    BY <1>1 DEF pending, P
  <2> QED BY <1>2, <1>4, <2>1, KeptPositions
<1>6. PICK g \in Bijection(DOMAIN timers', P) : \A k \in DOMAIN timers' : timers'[k] = advanced[g[k]]
  BY <1>5
<1>7. /\ g \in [DOMAIN timers' -> P]
      /\ \A k, l \in DOMAIN timers' : g[k] = g[l] => k = l
  BY <1>6, Zenon DEF Bijection, Injection, IsInjective
<1>8. clock \in 0 .. TICKS - 1 /\ clock' \in 0 .. TICKS - 1
  BY <1>1, TicksModulo DEF Inv, TypeOK
<1>9. KernelYields'
  BY <1>1 DEF Inv, KernelYields
<1>10. TimersInStep'
  <2> SUFFICES ASSUME NEW k \in DOMAIN timers'
      PROVE  /\ timers'[k].ticks = (clock' - timers'[k].start) % TICKS
             /\ timers'[k].ticks = timers'[k].goal => timers'[k].goal = 0
    BY DEF TimersInStep
  <2> DEFINE i == g[k]
  <2>1. i \in P /\ timers'[k] = advanced[i]
    BY <1>6, <1>7
  <2> HIDE DEF i
  <2>2. i \in DOMAIN timers /\ advanced[i].ticks # advanced[i].goal
    BY <2>1
  <2>3. timers[i].ticks = (clock - timers[i].start) % TICKS
    BY <1>1, <2>2 DEF Inv, TimersInStep
  <2>4. timers[i].start \in 0 .. TICKS - 1
    <3>1. timers[i] \in Timer
      BY <2>2 DEF Inv, TypeOK
    <3> QED BY <3>1 DEF Timer
  <2>5. (((clock - timers[i].start) % TICKS) + 1) % TICKS = (((clock + 1) % TICKS) - timers[i].start) % TICKS
    BY <1>8, <2>4, TicksModulo
  <2> QED BY <1>1, <1>2, <2>1, <2>2, <2>3, <2>5
<1>11. CASE \E t \in Timed(expired) : state[t] # "suspended"
  <2>1. status' = "assert" /\ UNCHANGED <<active, ready_q, wait_q, state>>
    BY <1>11 DEF Tick
  <2>2. TypeOK'
    BY <1>1, <1>5, <1>8, <2>1 DEF Inv, TypeOK
  <2>3. OnePlaceEach' /\ TimersWait'
    BY <2>1 DEF OnePlaceEach, TimersWait
  <2> QED BY <1>9, <1>10, <2>2, <2>3 DEF Inv
<1>12. CASE ~\E t \in Timed(expired) : state[t] # "suspended"
  <2>1. /\ wait_q' = Kept(wait_q, W)
        /\ state' = [t \in Threads |->
                       IF t \in Timed(expired) \cup {active} THEN "runnable" ELSE state[t]]
        /\ schedule(r, pending)
    BY <1>12 DEF Tick
  <2>2. r \in Seq(Threads) /\ cur \in Seq(Threads) /\ ready_q \o resumed \in Seq(Threads)
    BY <1>3 DEF Inv, TypeOK
  <2>3. /\ active' \in Threads \cup {Idle} /\ ready_q' \in Seq(Threads) /\ status' \in {"up", "freed"}
        /\ \A u \in Threads : /\ Copies(ready_q', u) \in Nat /\ Copies(<<active'>>, u) \in Nat
                              /\ Copies(ready_q', u) + Copies(<<active'>>, u) = Copies(r, u)
    <3> HIDE DEF r
    <3> QED BY <2>1, <2>2, ScheduleMoves
  <2>4. wait_q' \in Seq(Threads)
    <3>1. W \in SUBSET DOMAIN wait_q
      OBVIOUS
    <3> QED BY <2>1, <3>1, KeptPositions DEF Inv, TypeOK
  <2>5. TypeOK'
    <3>1. state' \in [Threads -> {"runnable", "suspended"}]
      BY <2>1 DEF Inv, TypeOK
    <3> QED BY <1>1, <1>5, <1>8, <2>3, <2>4, <3>1 DEF Inv, TypeOK
  <2>6. ASSUME NEW u \in Threads
        PROVE  Copies(wait_q', u) = IF u \in Timed(expired) THEN 0 ELSE Copies(wait_q, u)
    <3>1. W \in SUBSET DOMAIN wait_q
      OBVIOUS
    <3>2. Copies(wait_q', u) = Cardinality({i \in W : wait_q[i] = u})
      BY <2>1, <3>1, CopiesKept DEF Inv, TypeOK
    <3>3. CASE u \in Timed(expired)
      <4>1. {i \in W : wait_q[i] = u} = {}
        BY <3>3
      <4> QED BY <3>2, <3>3, <4>1, FS_EmptySet
    <3>4. CASE u \notin Timed(expired)
      <4>1. {i \in W : wait_q[i] = u} = {i \in DOMAIN wait_q : wait_q[i] = u}
        BY <3>4
      <4> QED BY <3>2, <3>4, <4>1 DEF Copies
    <3> QED BY <3>3, <3>4
  <2>7. ASSUME NEW u \in Timed(expired) PROVE Copies(wait_q, u) = 1
    <3>1. PICK i \in DOMAIN timers : u = timers[i].thread
      BY <1>3
    <3> QED BY <1>1, <3>1 DEF Inv, TimersWait
  <2>8. OnePlaceEach'
    <3> SUFFICES ASSUME NEW u \in Threads
        PROVE  Copies(ready_q', u) + Copies(wait_q', u) + Copies(<<active'>>, u) =
                 IF u \notin all_threads THEN 0 ELSE IF pc[u] = "yield" THEN 2 ELSE 1
      BY <1>1 DEF OnePlaceEach
    <3>1. Copies(ready_q, u) + Copies(wait_q, u) + Copies(<<active>>, u) =
            IF u \notin all_threads THEN 0 ELSE IF pc[u] = "yield" THEN 2 ELSE 1
      BY <1>1 DEF Inv, OnePlaceEach
    <3>2. Copies(cur, u) = Copies(<<active>>, u)
      <4>1. CASE active = Idle
        <5>1. Idle # u
          BY SchedAssumption
        <5>2. Copies(<<>>, u) = 0
          <6>1. {i \in DOMAIN <<>> : <<>>[i] = u} = {}
            OBVIOUS
          <6> QED BY <6>1, FS_EmptySet DEF Copies
        <5> QED BY <4>1, <5>1, <5>2, CopiesSingle
      <4>2. CASE active # Idle
        BY <4>2
      <4> QED BY <4>1, <4>2
    <3>3. Copies(r, u) = Copies(ready_q, u) + Copies(resumed, u) + Copies(<<active>>, u)
      <4>1. Copies(r, u) = Copies(ready_q \o resumed, u) + Copies(cur, u)
        <5> HIDE DEF cur
        <5> QED BY <2>2, CopiesConcat
      <4>2. Copies(ready_q \o resumed, u) = Copies(ready_q, u) + Copies(resumed, u)
        BY <1>3, CopiesConcat DEF Inv, TypeOK
      <4> HIDE DEF r, cur
      <4> QED BY <3>2, <4>1, <4>2
    <3>4. Copies(wait_q', u) + Copies(resumed, u) = Copies(wait_q, u)
      <4>1. CASE u \in Timed(expired)
        BY <1>3, <2>6, <2>7, <4>1
      <4>2. CASE u \notin Timed(expired)
        BY <1>3, <2>6, <4>2, PlacesType
      <4> QED BY <4>1, <4>2
    <3>5. /\ Copies(ready_q, u) \in Nat /\ Copies(wait_q, u) \in Nat /\ Copies(<<active>>, u) \in Nat
          /\ Copies(wait_q', u) \in Nat /\ Copies(resumed, u) \in Nat
      <4>1. Copies(ready_q, u) \in Nat /\ Copies(wait_q, u) \in Nat /\ Copies(<<active>>, u) \in Nat
        BY PlacesType
      <4>2. Copies(wait_q', u) \in Nat
        BY <2>4, CopiesType
      <4>3. Copies(resumed, u) \in Nat
        BY <1>3, CopiesType
      <4> QED BY <4>1, <4>2, <4>3
    <3>6. /\ Copies(ready_q', u) \in Nat /\ Copies(<<active'>>, u) \in Nat
          /\ Copies(ready_q', u) + Copies(<<active'>>, u) = Copies(r, u)
      BY <2>3
    <3> HIDE DEF r, cur, W
    <3> QED BY <3>1, <3>3, <3>4, <3>5, <3>6
  <2>9. TimersWait'
    <3>1. ASSUME NEW k \in DOMAIN timers'
          PROVE  /\ g[k] \in DOMAIN timers
                 /\ timers'[k].thread = timers[g[k]].thread /\ timers'[k].thread \in Threads
                 /\ timers'[k].thread \notin Timed(expired)
      <4>1. g[k] \in P
        BY <1>7
      <4>2. timers'[k].thread = timers[g[k]].thread /\ timers'[k].thread \in Threads
        BY <1>2, <1>6, <4>1
      <4>3. \A j \in DOMAIN timers : timers[j].thread = timers[g[k]].thread => j = g[k]
        BY <1>1, <4>1 DEF Inv, TimersWait
      <4>4. timers[g[k]].thread \notin Timed(expired)
        BY <1>3, <4>1, <4>3
      <4> QED BY <4>1, <4>2, <4>4
    <3>2. ASSUME NEW k \in DOMAIN timers'
          PROVE  Copies(wait_q', timers'[k].thread) = 1 /\ pc'[timers'[k].thread] = "run"
      <4>1. Copies(wait_q, timers[g[k]].thread) = 1 /\ pc[timers[g[k]].thread] = "run"
        BY <1>1, <3>1 DEF Inv, TimersWait
      <4> QED BY <1>1, <2>6, <3>1, <4>1
    <3>3. ASSUME NEW k \in DOMAIN timers', NEW l \in DOMAIN timers',
                 timers'[k].thread = timers'[l].thread
          PROVE  k = l
      <4>1. g[k] = g[l]
        BY <1>1, <3>1, <3>3 DEF Inv, TimersWait
      <4> QED BY <1>7, <4>1
    <3> QED BY <3>2, <3>3 DEF TimersWait
  <2> QED BY <1>9, <1>10, <2>5, <2>8, <2>9 DEF Inv
<1> QED BY <1>11, <1>12

(* The invariant holds in every state, for every value of the constants.   *)
LEMMA SchedInvariance == Spec => []Inv
<1>1. Init => Inv
  <2> SUFFICES ASSUME Init PROVE Inv
    OBVIOUS
  <2> USE DEF Init
  <2>1. TypeOK
    BY SchedAssumption DEF TypeOK
  <2>2. KernelYields
    BY DEF KernelYields
  <2>3. timers = <<>> /\ DOMAIN timers = {}
    OBVIOUS
  <2>4. TimersWait /\ TimersInStep
    BY <2>3 DEF TimersWait, TimersInStep
  <2>5. ASSUME NEW t PROVE Copies(<<>>, t) = 0
    <3>1. {i \in DOMAIN <<>> : <<>>[i] = t} = {}
      OBVIOUS
    <3> QED BY <3>1, FS_EmptySet DEF Copies
  <2>6. OnePlaceEach
    <3> SUFFICES ASSUME NEW t \in Threads
        PROVE  Copies(ready_q, t) + Copies(wait_q, t) + Copies(<<active>>, t) =
                 IF t \notin all_threads THEN 0 ELSE IF pc[t] = "yield" THEN 2 ELSE 1
      BY DEF OnePlaceEach
    <3>1. Copies(<<active>>, t) = IF InitThread = t THEN 1 ELSE 0
      BY CopiesSingle
    <3> QED BY <2>5, <3>1
  <2> QED BY <2>1, <2>2, <2>4, <2>6 DEF Inv
<1>2. Inv /\ [Next]_vars => Inv'
  <2> SUFFICES ASSUME Inv, [Next]_vars PROVE Inv'
    OBVIOUS
  <2>1. CASE UNCHANGED vars
    BY <2>1 DEF vars, Inv, TypeOK, KernelYields, TimersWait, OnePlaceEach, TimersInStep
  <2>2. CASE Next
    BY <2>2, CreateInv, ThreadAddInv, YieldInv, YieldSwitchInv, SuspendSelfInv, SuspendOtherInv,
       ResumeInv, ExitInv, ThreadRemoveInv, WaitTicksInv, TickInv DEF Next, Operation
  <2> QED BY <2>1, <2>2
<1> QED BY <1>1, <1>2, PTL DEF Spec

(* No thread of libruntime is lost or run twice: whenever the timer        *)
(* interrupt strikes, also inside thread_yield, each thread is active,     *)
(* ready or waiting exactly once, and once more inside thread_yield.       *)
THEOREM ThreadsNeverLost == Spec => []OnePlaceEach
BY SchedInvariance, PTL DEF Inv

(* A timer of libruntime counts every tick since it was started, modulo    *)
(* the width of the counter, whichever timers expire around it.            *)
THEOREM TimersCountEveryTick == Spec => []TimersInStep
BY SchedInvariance, PTL DEF Inv

=============================================================================
