----------------------------- MODULE PartsProofs -----------------------------
(***************************************************************************)
(* Why each of the parts keeps what it promises, for every value of its    *)
(* constants: first the facts about the operators of a part and how its    *)
(* steps keep its inductive invariant, then the theorems about the         *)
(* specification of all parts.                                             *)
(***************************************************************************)
EXTENDS Parts, TLAPS, SequenceTheorems, FiniteSetTheorems, WellFoundedInduction

(* Induction over numbers, for a set instead of a predicate.               *)

Below == {p \in Nat \X Nat : p[1] < p[2]}

LEMMA BelowWF == IsWellFoundedOn(Below, Nat)
  <1>1. Below = OpToRel(<, Nat)
    BY DEF Below, OpToRel
  <1> QED
    BY <1>1, NatLessThanWellFounded

LEMMA LeastNumber ==
    ASSUME NEW S \in SUBSET Nat, S # {}
    PROVE  \E n \in S : \A m \in S : n <= m
  <1>1. PICK n \in S : \A m \in S : ~(<<m, n>> \in Below)
    BY BelowWF, WFMin
  <1>2. ASSUME NEW m \in S PROVE n <= m
    <2>1. m \in Nat /\ n \in Nat
      OBVIOUS
    <2>2. <<m, n>> \in Nat \X Nat /\ <<m, n>>[1] = m /\ <<m, n>>[2] = n
      BY <2>1
    <2>3. m < n => <<m, n>> \in Below
      BY ONLY <2>1, <2>2 DEF Below
    <2> QED
      BY <2>1, <2>3, <1>1
  <1> QED
    BY <1>2

LEMMA Climb ==
    ASSUME NEW n \in Nat, NEW S \in SUBSET (0..n), 0 \in S,
           \A k \in 0..n : k < n /\ k \in S => k + 1 \in S
    PROVE  \A k \in 0..n : k \in S
  <1> SUFFICES ASSUME (0..n) \ S # {} PROVE FALSE
    OBVIOUS
  <1>1. (0..n) \ S \in SUBSET Nat
    OBVIOUS
  <1>2. PICK k \in (0..n) \ S : \A m \in (0..n) \ S : k <= m
    BY <1>1, LeastNumber
  <1>3. k \in Nat /\ k # 0 /\ k - 1 \in 0..n /\ k - 1 < n /\ (k - 1) + 1 = k /\ ~(k <= k - 1)
    BY <1>2
  <1>4. k - 1 \in S
    BY ONLY <1>2, <1>3
  <1> QED
    BY <1>2, <1>3, <1>4

-----------------------------------------------------------------------------
(* Sequences of a few elements.                                             *)

\* A sequence behind another, when it has one element.
LEMMA AppendOne ==
    ASSUME NEW S, NEW s \in Seq(S), NEW t \in Seq(S), Len(t) = 1
    PROVE  /\ s \o t \in Seq(S) /\ Len(s \o t) = Len(s) + 1
           /\ (s \o t)[Len(s) + 1] = t[1]
           /\ \A k \in 1..Len(s) : (s \o t)[k] = s[k]
  <1>1. Len(s) \in Nat
    BY LenProperties
  <1>2. /\ s \o t \in Seq(S)
        /\ Len(s \o t) = Len(s) + Len(t)
        /\ \A i \in 1..Len(s) + Len(t) :
               (s \o t)[i] = IF i <= Len(s) THEN s[i] ELSE t[i - Len(s)]
    BY ConcatProperties
  <1>3. (s \o t)[Len(s) + 1] = t[1]
    <2>1. Len(s) + 1 \in 1..Len(s) + Len(t) /\ ~(Len(s) + 1 <= Len(s)) /\ Len(s) + 1 - Len(s) = 1
      BY <1>1
    <2> QED
      BY <2>1, <1>1, <1>2
  <1>4. ASSUME NEW k \in 1..Len(s) PROVE (s \o t)[k] = s[k]
    <2>1. k \in 1..Len(s) + Len(t) /\ k <= Len(s)
      BY <1>1
    <2> QED
      BY <2>1, <1>2
  <1> QED
    BY <1>1, <1>2, <1>3, <1>4

LEMMA PairIsConcat ==
    ASSUME NEW S, NEW a \in S, NEW b \in S
    PROVE  <<a>> \o <<b>> = <<a, b>>
  <1> DEFINE s == <<a>>
             t == <<b>>
             u == s \o t
             v == <<a, b>>
  <1>1. s \in Seq(S) /\ Len(s) = 1 /\ s[1] = a
    OBVIOUS
  <1>2. v \in Seq(S) /\ Len(v) = 2 /\ v[1] = a /\ v[2] = b
    OBVIOUS
  <1>3. t \in Seq(S) /\ Len(t) = 1 /\ t[1] = b
    OBVIOUS
  <1> HIDE DEF s, t, v
  <1>4. /\ u \in Seq(S) /\ Len(u) = Len(s) + 1 /\ u[Len(s) + 1] = t[1]
        /\ \A k \in 1..Len(s) : u[k] = s[k]
    <2>1. s \in Seq(S) /\ t \in Seq(S) /\ Len(t) = 1
      BY <1>1, <1>3
    <2> QED
      BY ONLY <2>1, AppendOne
  <1> HIDE DEF u
  <1>5. Len(u) = 2 /\ u[1] = a /\ u[2] = b
    BY <1>1, <1>3, <1>4
  <1>6. \A i \in 1..Len(u) : u[i] = v[i]
    BY <1>2, <1>5
  <1>7. u = v
    BY <1>2, <1>4, <1>5, <1>6, SeqEqual
  <1> QED
    BY <1>7 DEF s, t, u, v

LEMMA TripleIsConcat ==
    ASSUME NEW S, NEW a \in S, NEW b \in S, NEW c \in S
    PROVE  <<a, b>> \o <<c>> = <<a, b, c>>
  <1> DEFINE s == <<a, b>>
             t == <<c>>
             u == s \o t
             v == <<a, b, c>>
  <1>1. s \in Seq(S) /\ Len(s) = 2 /\ s[1] = a /\ s[2] = b
    OBVIOUS
  <1>2. v \in Seq(S) /\ Len(v) = 3 /\ v[1] = a /\ v[2] = b /\ v[3] = c
    OBVIOUS
  <1>3. t \in Seq(S) /\ Len(t) = 1 /\ t[1] = c
    OBVIOUS
  <1> HIDE DEF s, t, v
  <1>4. /\ u \in Seq(S) /\ Len(u) = Len(s) + 1 /\ u[Len(s) + 1] = t[1]
        /\ \A k \in 1..Len(s) : u[k] = s[k]
    <2>1. s \in Seq(S) /\ t \in Seq(S) /\ Len(t) = 1
      BY <1>1, <1>3
    <2> QED
      BY ONLY <2>1, AppendOne
  <1> HIDE DEF u
  <1>5. Len(u) = 3 /\ u[1] = a /\ u[2] = b /\ u[3] = c
    BY <1>1, <1>3, <1>4
  <1>6. \A i \in 1..Len(u) : u[i] = v[i]
    BY <1>2, <1>5
  <1>7. u = v
    BY <1>2, <1>4, <1>5, <1>6, SeqEqual
  <1> QED
    BY <1>7 DEF s, t, u, v

\* What a list is once the chunks from i to j have given way to the others.
Spliced(S, list, others, i, j) ==
    LET new == Splice(list, i, j, others)
    IN  /\ new \in Seq(S)
        /\ Len(new) = Len(list) - (j - i + 1) + Len(others)
        /\ \A k \in 1..(i - 1) : new[k] = list[k]
        /\ \A k \in i..(i - 1 + Len(others)) : new[k] = others[k - i + 1]
        /\ \A k \in (i + Len(others))..Len(new) :
               new[k] = list[k + (j - i + 1) - Len(others)]

LEMMA SpliceProperties ==
    ASSUME NEW S, NEW list \in Seq(S), NEW others \in Seq(S),
           NEW i \in 1..Len(list), NEW j \in i..Len(list)
    PROVE  Spliced(S, list, others, i, j)
  <1> DEFINE front == SubSeq(list, 1, i - 1)
             back  == SubSeq(list, j + 1, Len(list))
             n == Len(list)
             m == Len(others)
  <1>0. n \in Nat /\ i \in Int /\ j \in Int /\ 1 <= i /\ i <= j /\ j <= n /\ m \in Nat
    OBVIOUS
  <1>1. \A k \in 1..n : list[k] \in S
    BY ElementOfSeq
  <1>2. /\ front \in Seq(S) /\ Len(front) = i - 1
        /\ \A k \in 1..(i - 1) : front[k] = list[k]
    <2>1. \A k \in 1..(i - 1) : list[k] \in S
      BY <1>0, <1>1
    <2> QED
      BY <2>1, <1>0, SubSeqProperties
  <1>3. /\ back \in Seq(S) /\ Len(back) = n - j
        /\ \A k \in 1..(n - j) : back[k] = list[j + k]
    <2>1. \A k \in (j + 1)..n : list[k] \in S
      BY <1>0, <1>1
    <2>2. /\ back \in Seq(S)
          /\ Len(back) = IF j + 1 <= n THEN n - (j + 1) + 1 ELSE 0
          /\ \A k \in 1..(n - (j + 1) + 1) : back[k] = list[j + 1 + k - 1]
      BY <2>1, <1>0, SubSeqProperties
    <2>3. Len(back) = n - j
      BY <2>2, <1>0
    <2>4. ASSUME NEW k \in 1..(n - j) PROVE back[k] = list[j + k]
      <3>1. k \in 1..(n - (j + 1) + 1) /\ j + 1 + k - 1 = j + k
        BY <1>0
      <3> QED
        BY <3>1, <2>2
    <2> QED
      BY <2>2, <2>3, <2>4
  <1> HIDE DEF front, back, n, m
  <1>4. /\ front \o others \in Seq(S) /\ Len(front \o others) = i - 1 + m
        /\ \A k \in 1..(i - 1 + m) : (front \o others)[k] = IF k <= i - 1 THEN front[k] ELSE others[k - (i - 1)]
    <2>1. /\ front \o others \in Seq(S) /\ Len(front \o others) = Len(front) + Len(others)
          /\ \A k \in 1..Len(front) + Len(others) :
                 (front \o others)[k] = IF k <= Len(front) THEN front[k] ELSE others[k - Len(front)]
      BY <1>2, ConcatProperties
    <2>2. Len(front) = i - 1 /\ Len(others) = m
      BY <1>2 DEF m
    <2> QED
      BY ONLY <2>1, <2>2
  <1> DEFINE new == (front \o others) \o back
  <1>5. /\ new \in Seq(S) /\ Len(new) = i - 1 + m + (n - j)
        /\ \A k \in 1..(i - 1 + m + (n - j)) :
               new[k] = IF k <= i - 1 + m THEN (front \o others)[k] ELSE back[k - (i - 1 + m)]
    <2>1. /\ new \in Seq(S) /\ Len(new) = Len(front \o others) + Len(back)
          /\ \A k \in 1..Len(front \o others) + Len(back) :
                 new[k] = IF k <= Len(front \o others) THEN (front \o others)[k]
                          ELSE back[k - Len(front \o others)]
      <3>1. front \o others \in Seq(S) /\ back \in Seq(S)
        BY <1>3, <1>4
      <3> QED
        BY ONLY <3>1, ConcatProperties
    <2> HIDE DEF new
    <2> QED
      BY ONLY <2>1, <1>3, <1>4
  <1> HIDE DEF new
  <1>6. ASSUME NEW k \in 1..(i - 1) PROVE new[k] = list[k]
    <2>1. k \in 1..(i - 1 + m + (n - j)) /\ k \in 1..(i - 1 + m) /\ k <= i - 1 /\ k <= i - 1 + m
      BY <1>0
    <2> QED
      BY <2>1, <1>2, <1>4, <1>5
  <1>7. ASSUME NEW k \in i..(i - 1 + m) PROVE new[k] = others[k - i + 1]
    <2>1. k \in 1..(i - 1 + m + (n - j)) /\ k \in 1..(i - 1 + m) /\ ~(k <= i - 1) /\ k <= i - 1 + m
          /\ k - (i - 1) = k - i + 1
      BY <1>0
    <2> QED
      BY <2>1, <1>4, <1>5
  <1>8. ASSUME NEW k \in (i + m)..(i - 1 + m + (n - j)) PROVE new[k] = list[k + (j - i + 1) - m]
    <2>1. /\ k \in 1..(i - 1 + m + (n - j)) /\ ~(k <= i - 1 + m)
          /\ k - (i - 1 + m) \in 1..(n - j)
          /\ j + (k - (i - 1 + m)) = k + (j - i + 1) - m
      BY <1>0
    <2> QED
      BY <2>1, <1>3, <1>5
  <1>9. Splice(list, i, j, others) = new
    BY DEF Splice, new, front, back, n
  <1>10. i - 1 + m + (n - j) = n - (j - i + 1) + m
    BY <1>0
  <1> QED
    BY <1>5, <1>6, <1>7, <1>8, <1>9, <1>10 DEF n, m, Spliced

End(chunk) == chunk.start + chunk.size

Tiling(list, from, to) ==
    /\ list \in Seq(Chunks) /\ list # <<>>
    /\ list[1].start = from /\ End(list[Len(list)]) = to
    /\ \A k \in 1..(Len(list) - 1) : list[k + 1].start = End(list[k])
    /\ \A k, l \in 1..Len(list) : k < l => End(list[k]) <= list[l].start
    /\ \A k \in 1..Len(list) : from <= list[k].start /\ End(list[k]) <= to

Sparse(list) == \A k \in 1..(Len(list) - 1) : ~(list[k].free /\ list[k + 1].free)

LEMMA ChunkTypes ==
    ASSUME NEW c \in Chunks
    PROVE  c.start \in Nat /\ c.size \in Nat /\ c.size > 0 /\ c.free \in BOOLEAN /\ End(c) \in Nat
  BY DEF Chunks, End

(* Where the elements of the new list come from: those before the part that *)
(* was replaced, the new ones, and those behind it.                         *)

\* The same by the place in the new list: before, inside and behind the others.
Zones(S, list, others, i, j) ==
    LET n == Len(list)
        m == Len(others)
        d == (j - i + 1) - m
        new == Splice(list, i, j, others)
        p == Len(new)
    IN  /\ n \in Nat /\ i \in Nat /\ j \in Nat /\ m \in Nat /\ d \in Int /\ p \in Nat
        /\ 1 <= i /\ i <= j /\ j <= n /\ 1 <= m /\ p = n - d /\ new \in Seq(S)
        /\ \A k \in 1..p : k < i => k \in 1..n /\ new[k] = list[k]
        /\ \A k \in 1..p : i <= k /\ k < i + m => k - i + 1 \in 1..m /\ new[k] = others[k - i + 1]
        /\ \A k \in 1..p : i + m <= k => k + d \in (j + 1)..n /\ k + d \in 1..n /\ new[k] = list[k + d]

LEMMA SpliceZones ==
    ASSUME NEW S, NEW list \in Seq(S), NEW others \in Seq(S), others # <<>>,
           NEW i \in 1..Len(list), NEW j \in i..Len(list)
    PROVE  Zones(S, list, others, i, j)
  <1> DEFINE n == Len(list)
             m == Len(others)
             d == (j - i + 1) - m
             new == Splice(list, i, j, others)
             p == Len(new)
  <1>1. m \in Nat /\ m >= 1
    BY EmptySeq
  <1>2. /\ new \in Seq(S)
        /\ p = n - (j - i + 1) + m
        /\ \A k \in 1..(i - 1) : new[k] = list[k]
        /\ \A k \in i..(i - 1 + m) : new[k] = others[k - i + 1]
        /\ \A k \in (i + m)..p : new[k] = list[k + (j - i + 1) - m]
    <2>1. Spliced(S, list, others, i, j)
      BY SpliceProperties
    <2> QED
      BY ONLY <2>1 DEF Spliced
  <1>3. p \in Nat /\ n \in Nat
    BY <1>2, LenProperties
  <1>4. /\ n \in Nat /\ i \in Nat /\ j \in Nat /\ m \in Nat /\ d \in Int /\ p \in Nat
        /\ 1 <= i /\ i <= j /\ j <= n /\ 1 <= m
        /\ d = (j - i + 1) - m /\ p = n - d
    BY <1>1, <1>2, <1>3
  <1> HIDE DEF n, m, d, new, p
  <1>5. ASSUME NEW k \in 1..p, k < i
        PROVE  k \in 1..n /\ new[k] = list[k]
    <2>1. k \in 1..(i - 1) /\ k \in 1..n
      BY ONLY <1>4, <1>5
    <2> QED
      BY ONLY <2>1, <1>2
  <1>6. ASSUME NEW k \in 1..p, i <= k, k < i + m
        PROVE  k - i + 1 \in 1..m /\ new[k] = others[k - i + 1]
    <2>1. k \in i..(i - 1 + m) /\ k - i + 1 \in 1..m
      BY ONLY <1>4, <1>6
    <2> QED
      BY ONLY <2>1, <1>2
  <1>7. ASSUME NEW k \in 1..p, i + m <= k
        PROVE  k + d \in (j + 1)..n /\ k + d \in 1..n /\ new[k] = list[k + d]
    <2>1. k \in (i + m)..p /\ k + d \in (j + 1)..n /\ k + d \in 1..n /\ k + (j - i + 1) - m = k + d
      BY ONLY <1>4, <1>7
    <2> QED
      BY ONLY <2>1, <1>2
  <1> QED
    BY ONLY <1>2, <1>4, <1>5, <1>6, <1>7 DEF Zones, n, m, d, new, p

\* Neighbours in the new list were neighbours, or are at one of its two seams.
Neighbours(list, others, i, j, a, b) ==
    \/ \E l \in 1..(Len(list) - 1) : a = list[l] /\ b = list[l + 1]
    \/ \E l \in 1..(Len(others) - 1) : a = others[l] /\ b = others[l + 1]
    \/ i - 1 \in 1..(Len(list) - 1) /\ a = list[i - 1] /\ b = others[1]
    \/ j \in 1..(Len(list) - 1) /\ a = others[Len(others)] /\ b = list[j + 1]

LEMMA SpliceNeighbours ==
    ASSUME NEW S, NEW list \in Seq(S), NEW others \in Seq(S), others # <<>>,
           NEW i \in 1..Len(list), NEW j \in i..Len(list)
    PROVE  \A k \in 1..(Len(Splice(list, i, j, others)) - 1) :
               Neighbours(list, others, i, j,
                          Splice(list, i, j, others)[k], Splice(list, i, j, others)[k + 1])
  <1> DEFINE n == Len(list)
             m == Len(others)
             d == (j - i + 1) - m
             new == Splice(list, i, j, others)
             p == Len(new)
  <1>a. m \in Nat /\ m >= 1 /\ n \in Nat
    BY EmptySeq
  <1>b. new \in Seq(S) /\ p = n - (j - i + 1) + m
    <2>1. Spliced(S, list, others, i, j)
      BY SpliceProperties
    <2> QED
      BY ONLY <2>1 DEF Spliced
  <1>c. p \in Nat
    BY <1>b, LenProperties
  <1>1. /\ n \in Nat /\ i \in Nat /\ j \in Nat /\ m \in Nat /\ d \in Int /\ p \in Nat
        /\ 1 <= i /\ i <= j /\ j <= n /\ 1 <= m /\ p = n - d
    BY <1>a, <1>b, <1>c
  <1>0. /\ \A q \in 1..p : q < i => q \in 1..n /\ new[q] = list[q]
        /\ \A q \in 1..p : i <= q /\ q < i + m => q - i + 1 \in 1..m /\ new[q] = others[q - i + 1]
        /\ \A q \in 1..p : i + m <= q => q + d \in (j + 1)..n /\ q + d \in 1..n /\ new[q] = list[q + d]
    <2>1. Zones(S, list, others, i, j)
      BY SpliceZones
    <2> QED
      BY ONLY <2>1 DEF Zones
  <1> SUFFICES ASSUME NEW k \in 1..(p - 1)
               PROVE  Neighbours(list, others, i, j, new[k], new[k + 1])
    OBVIOUS
  <1>2. d = (j - i + 1) - m /\ k \in 1..(p - 1)
    OBVIOUS
  <1> USE DEF Neighbours
  <1> HIDE DEF n, m, d, new, p
  <1>3. k \in 1..p /\ k + 1 \in 1..p /\ k \in Nat
    BY ONLY <1>1, <1>2
  <1>4. CASE k + 1 < i
    <2>1. k \in 1..(n - 1) /\ k < i
      BY ONLY <1>1, <1>3, <1>4
    <2>2. new[k] = list[k] /\ new[k + 1] = list[k + 1]
      BY ONLY <2>1, <1>0, <1>3, <1>4
    <2> QED
      BY ONLY <2>1, <2>2 DEF n, m, d, new, p
  <1>5. CASE k + 1 = i
    <2>1. k \in 1..(n - 1) /\ k = i - 1 /\ k < i /\ i <= k + 1 /\ k + 1 < i + m /\ k + 1 - i + 1 = 1
      BY ONLY <1>1, <1>3, <1>5
    <2>2. new[k] = list[i - 1] /\ new[k + 1] = others[1]
      BY ONLY <2>1, <1>0, <1>3
    <2> QED
      BY ONLY <2>1, <2>2 DEF n, m, d, new, p
  <1>6. CASE i <= k /\ k + 1 < i + m
    <2>1. k - i + 1 \in 1..(m - 1) /\ k < i + m /\ i <= k + 1 /\ k + 1 - i + 1 = (k - i + 1) + 1
      BY ONLY <1>1, <1>3, <1>6
    <2>2. new[k] = others[k - i + 1] /\ new[k + 1] = others[(k - i + 1) + 1]
      BY ONLY <2>1, <1>0, <1>3, <1>6
    <2> QED
      BY ONLY <2>1, <2>2 DEF n, m, d, new, p
  <1>7. CASE k + 1 = i + m
    <2>1. k - i + 1 = m /\ k + 1 + d = j + 1 /\ i <= k /\ k < i + m
      BY ONLY <1>1, <1>2, <1>3, <1>7
    <2>2. new[k] = others[m] /\ new[k + 1] = list[j + 1] /\ j + 1 \in (j + 1)..n
      BY ONLY <2>1, <1>0, <1>3, <1>7
    <2>3. j \in 1..(n - 1)
      BY ONLY <2>2, <1>1
    <2> QED
      BY ONLY <2>2, <2>3 DEF n, m, d, new, p
  <1>8. CASE i + m <= k
    <2>1. i + m <= k + 1 /\ k + 1 + d = (k + d) + 1
      BY ONLY <1>1, <1>3, <1>8
    <2>2. k + d \in 1..n /\ (k + d) + 1 \in 1..n /\ new[k] = list[k + d] /\ new[k + 1] = list[(k + d) + 1]
      BY ONLY <2>1, <1>0, <1>3, <1>8
    <2>3. k + d \in 1..(n - 1)
      BY ONLY <2>2, <1>1
    <2> QED
      BY ONLY <2>2, <2>3 DEF n, m, d, new, p
  <1> QED
    BY ONLY <1>1, <1>3, <1>4, <1>5, <1>6, <1>7, <1>8

LEMMA SpliceTiling ==
    ASSUME NEW list, NEW others, NEW from \in Nat, NEW to \in Nat,
           Tiling(list, from, to),
           NEW i \in 1..Len(list), NEW j \in i..Len(list),
           Tiling(others, list[i].start, End(list[j]))
    PROVE  Tiling(Splice(list, i, j, others), from, to)
  <1> DEFINE n == Len(list)
             m == Len(others)
             new == Splice(list, i, j, others)
             d == (j - i + 1) - m
  <1>1. /\ list \in Seq(Chunks) /\ others \in Seq(Chunks)
        /\ n \in Nat /\ i \in Int /\ j \in Int /\ 1 <= i /\ i <= j /\ j <= n
        /\ m \in Nat /\ m >= 1
    BY EmptySeq, LenProperties DEF Tiling
  <1>2. new \in Seq(Chunks) /\ \A k \in 1..n : list[k] \in Chunks /\ \A q \in 1..m : others[q] \in Chunks
    <2>1. Spliced(Chunks, list, others, i, j)
      BY <1>1, SpliceProperties
    <2>2. new \in Seq(Chunks)
      BY ONLY <2>1 DEF Spliced
    <2> QED
      BY <1>1, <2>2, ElementOfSeq
  <1> DEFINE p == Len(new)
  <1>3. /\ \A k \in 1..n : list[k] \in Chunks
        /\ \A k \in 1..m : others[k] \in Chunks
    BY <1>1, ElementOfSeq
  <1>4. others # <<>>
    BY DEF Tiling
  <1>5. /\ n \in Nat /\ i \in Nat /\ j \in Nat /\ m \in Nat /\ d \in Int /\ p \in Nat
        /\ 1 <= i /\ i <= j /\ j <= n /\ 1 <= m /\ p = n - d
    <2>1. Zones(Chunks, list, others, i, j)
      BY <1>1, <1>4, SpliceZones
    <2> QED
      BY ONLY <2>1 DEF Zones
  <1>0. /\ \A k \in 1..p : k < i => k \in 1..n /\ new[k] = list[k]
        /\ \A k \in 1..p : i <= k /\ k < i + m => k - i + 1 \in 1..m /\ new[k] = others[k - i + 1]
        /\ \A k \in 1..p : i + m <= k => k + d \in (j + 1)..n /\ k + d \in 1..n /\ new[k] = list[k + d]
    <2>1. Zones(Chunks, list, others, i, j)
      BY <1>1, <1>4, SpliceZones
    <2> QED
      BY ONLY <2>1 DEF Zones
  <1>6. d = (j - i + 1) - m
    OBVIOUS
  <1>7. \A k \in 1..(p - 1) :
            \/ \E l \in 1..(n - 1) : new[k] = list[l] /\ new[k + 1] = list[l + 1]
            \/ \E l \in 1..(m - 1) : new[k] = others[l] /\ new[k + 1] = others[l + 1]
            \/ i - 1 \in 1..(n - 1) /\ new[k] = list[i - 1] /\ new[k + 1] = others[1]
            \/ j \in 1..(n - 1) /\ new[k] = others[m] /\ new[k + 1] = list[j + 1]
    <2>1. \A k \in 1..(Len(Splice(list, i, j, others)) - 1) :
              Neighbours(list, others, i, j,
                         Splice(list, i, j, others)[k], Splice(list, i, j, others)[k + 1])
      <3>1. list \in Seq(Chunks) /\ others \in Seq(Chunks) /\ others # <<>>
            /\ i \in 1..Len(list) /\ j \in i..Len(list)
        BY <1>1, <1>4
      <3> QED
        BY ONLY <3>1, SpliceNeighbours
    <2> QED
      BY <2>1 DEF Neighbours
  <1> HIDE DEF n, m, new, d, p
  <1>8. /\ \A k, l \in 1..n : k < l => End(list[k]) <= list[l].start
        /\ \A k \in 1..n : from <= list[k].start /\ End(list[k]) <= to
        /\ \A k \in 1..(n - 1) : list[k + 1].start = End(list[k])
        /\ list[1].start = from /\ End(list[n]) = to
    BY DEF Tiling, n
  <1>9. /\ \A k, l \in 1..m : k < l => End(others[k]) <= others[l].start
        /\ \A k \in 1..m : list[i].start <= others[k].start /\ End(others[k]) <= End(list[j])
        /\ \A k \in 1..(m - 1) : others[k + 1].start = End(others[k])
        /\ others[1].start = list[i].start /\ End(others[m]) = End(list[j])
    BY DEF Tiling, m
  <1>10. \A k \in 1..p : new[k].start \in Nat /\ End(new[k]) \in Nat /\ new[k].start < End(new[k])
    BY <1>2, ElementOfSeq, ChunkTypes DEF End, p
  <1>11. /\ \A k \in 1..n : list[k].start \in Nat /\ End(list[k]) \in Nat /\ list[k].start < End(list[k])
         /\ \A k \in 1..m : others[k].start \in Nat /\ End(others[k]) \in Nat /\ others[k].start < End(others[k])
    BY <1>3, ChunkTypes, SMTT(40) DEF End
  <1>12. /\ i \in 1..n /\ j \in 1..n /\ 1 \in 1..m /\ m \in 1..m /\ 1 \in 1..n /\ n \in 1..n
         /\ list[i].start \in Nat /\ End(list[j]) \in Nat /\ list[i].start < End(list[j])
    <2>1. i \in 1..n /\ j \in 1..n /\ 1 \in 1..m /\ m \in 1..m /\ 1 \in 1..n /\ n \in 1..n
      BY ONLY <1>5
    <2> QED
      BY ONLY <2>1, <1>9, <1>11
  \* The three zones of the new list, and where their chunks lie.
  <1>13. ASSUME NEW k \in 1..p, k < i PROVE End(new[k]) <= list[i].start
    BY ONLY <1>0, <1>13, <1>8, <1>12
  <1>14. ASSUME NEW k \in 1..p, i <= k, k < i + m
         PROVE  list[i].start <= new[k].start /\ End(new[k]) <= End(list[j])
    BY ONLY <1>0, <1>14, <1>9
  <1>15. ASSUME NEW k \in 1..p, i + m <= k PROVE End(list[j]) <= new[k].start
    <2>1. k + d \in (j + 1)..n /\ k + d \in 1..n /\ new[k] = list[k + d]
      BY ONLY <1>0, <1>15
    <2>2. j < k + d
      BY ONLY <2>1, <1>5
    <2> QED
      BY ONLY <2>1, <2>2, <1>8, <1>12
  <1>16. ASSUME NEW k \in 1..p, NEW l \in 1..p, k < l
         PROVE  End(new[k]) <= new[l].start
    <2>0. /\ k \in Nat /\ l \in Nat /\ End(new[k]) \in Nat /\ new[l].start \in Nat
      BY ONLY <1>10, <1>16, <1>5 
    <2>1. CASE l < i
      <3>1. k < i
        BY ONLY <2>1, <2>0, <1>5, <1>16
      <3> QED
        BY ONLY <3>1, <2>1, <1>0, <1>8, <1>16
    <2>2. CASE k < i /\ i <= l /\ l < i + m
      BY ONLY <2>2, <2>0, <1>13, <1>14, <1>12
    <2>3. CASE k < i /\ i + m <= l
      BY ONLY <2>3, <2>0, <1>13, <1>15, <1>12, SMTT(40)
    <2>4. CASE i <= k /\ k < i + m /\ i <= l /\ l < i + m
      <3>0. k \in Nat /\ l \in Nat /\ i \in Nat /\ m \in Nat /\ k < l
        BY ONLY <2>0, <1>5, <1>16
      <3>1. k - i + 1 \in 1..m /\ l - i + 1 \in 1..m /\ k - i + 1 < l - i + 1
        BY ONLY <2>4, <3>0
      <3>2. new[k] = others[k - i + 1] /\ new[l] = others[l - i + 1]
        BY ONLY <2>4, <1>0, <1>16
      <3> QED
        BY ONLY <3>1, <3>2, <1>9
    <2>5. CASE i <= k /\ k < i + m /\ i + m <= l
      BY ONLY <2>5, <2>0, <1>14, <1>15, <1>12, <1>10
    <2>6. CASE i + m <= k /\ i + m <= l
      <3>1. k + d < l + d
        BY ONLY <2>0, <1>5, <1>16
      <3>2. k + d \in 1..n /\ l + d \in 1..n /\ new[k] = list[k + d] /\ new[l] = list[l + d]
        BY ONLY <2>6, <1>0, <1>16
      <3> QED
        BY ONLY <3>1, <3>2, <1>8
    <2> QED
      BY ONLY <2>0, <2>1, <2>2, <2>3, <2>4, <2>5, <2>6, <1>5, <1>16
  <1>17. ASSUME NEW k \in 1..(p - 1) PROVE new[k + 1].start = End(new[k])
    <2>1. i - 1 \in 1..(n - 1) => list[i - 1 + 1] = list[i]
      BY ONLY <1>5
    <2> QED
      BY ONLY <2>1, <1>7, <1>8, <1>9, <1>17
  <1>18. 1 \in 1..p /\ p \in 1..p /\ p \in Nat
    <2>1. p = n - (j - i + 1) + m /\ p \in Nat
      BY ONLY <1>5, <1>6
    <2>2. p >= 1
      BY ONLY <2>1, <1>5
    <2> QED
      BY ONLY <2>1, <2>2
  <1>19. new[1].start = from
    <2>1. CASE 1 < i
      BY ONLY <2>1, <1>18, <1>0, <1>8
    <2>2. CASE i = 1
      <3>0. i <= 1 /\ 1 < i + m /\ 1 - i + 1 = 1
        BY ONLY <2>2, <1>5
      <3>1. new[1] = others[1]
        BY ONLY <3>0, <1>18, <1>0
      <3> QED
        BY ONLY <3>1, <2>2, <1>8, <1>9
    <2> QED
      BY ONLY <2>1, <2>2, <1>5
  <1>20. End(new[p]) = to
    <2>1. CASE j < n
      <3>1. i + m <= p /\ p + d = n
        BY ONLY <2>1, <1>5, <1>6
      <3> QED
        BY ONLY <3>1, <1>18, <1>0, <1>8
    <2>2. CASE j = n
      <3>1. p - i + 1 = m /\ i <= p /\ p < i + m
        BY ONLY <2>2, <1>5, <1>6
      <3>2. new[p] = others[m]
        BY ONLY <3>1, <1>18, <1>0
      <3> QED
        BY ONLY <3>2, <2>2, <1>8, <1>9
    <2> QED
      BY ONLY <2>1, <2>2, <1>5
  <1>21. ASSUME NEW k \in 1..p PROVE from <= new[k].start /\ End(new[k]) <= to
    <2>1. from <= new[1].start /\ End(new[p]) <= to /\ from \in Nat /\ to \in Nat
      BY <1>19, <1>20
    <2>2. k = 1 \/ End(new[1]) <= new[k].start
      BY ONLY <1>16, <1>18, <1>21
    <2>3. k = p \/ End(new[k]) <= new[p].start
      BY ONLY <1>16, <1>18, <1>21
    <2>4. /\ new[1].start \in Nat /\ End(new[1]) \in Nat /\ new[1].start < End(new[1])
          /\ new[p].start \in Nat /\ End(new[p]) \in Nat /\ new[p].start < End(new[p])
          /\ new[k].start \in Nat /\ End(new[k]) \in Nat
      BY ONLY <1>10, <1>18, <1>21
    <2>5. from <= new[k].start
      BY ONLY <2>1, <2>2, <2>4, SMTT(40)
    <2>6. End(new[k]) <= to
      BY ONLY <2>1, <2>3, <2>4
    <2> QED
      BY <2>5, <2>6
  <1>22. new # <<>>
    BY ONLY <1>18, EmptySeq DEF p
  <1> QED
    BY ONLY <1>2, <1>16, <1>17, <1>19, <1>20, <1>21, <1>22 DEF Tiling, p, new

LEMMA SpliceSparse ==
    ASSUME NEW list \in Seq(Chunks), NEW others \in Seq(Chunks), others # <<>>,
           NEW i \in 1..Len(list), NEW j \in i..Len(list),
           Sparse(list), Sparse(others),
           i > 1 => ~(list[i - 1].free /\ others[1].free),
           j < Len(list) => ~(others[Len(others)].free /\ list[j + 1].free)
    PROVE  Sparse(Splice(list, i, j, others))
  <1> DEFINE n == Len(list)
             m == Len(others)
             new == Splice(list, i, j, others)
             p == Len(new)
  <1>1. n \in Nat /\ i \in Nat /\ j \in Nat
    BY LenProperties
  <1> SUFFICES ASSUME NEW k \in 1..(p - 1)
               PROVE  ~(new[k].free /\ new[k + 1].free)
    BY DEF Sparse
  <1>2. \/ \E l \in 1..(n - 1) : new[k] = list[l] /\ new[k + 1] = list[l + 1]
        \/ \E l \in 1..(m - 1) : new[k] = others[l] /\ new[k + 1] = others[l + 1]
        \/ i - 1 \in 1..(n - 1) /\ new[k] = list[i - 1] /\ new[k + 1] = others[1]
        \/ j \in 1..(n - 1) /\ new[k] = others[m] /\ new[k + 1] = list[j + 1]
    <2>1. \A q \in 1..(Len(Splice(list, i, j, others)) - 1) :
              Neighbours(list, others, i, j,
                         Splice(list, i, j, others)[q], Splice(list, i, j, others)[q + 1])
      BY SpliceNeighbours
    <2> QED
      BY <2>1 DEF Neighbours
  <1>3. /\ \A l \in 1..(n - 1) : ~(list[l].free /\ list[l + 1].free)
        /\ \A l \in 1..(m - 1) : ~(others[l].free /\ others[l + 1].free)
        /\ i > 1 => ~(list[i - 1].free /\ others[1].free)
        /\ j < n => ~(others[m].free /\ list[j + 1].free)
    BY DEF Sparse
  <1> HIDE DEF n, m, new, p
  <1>4. (i - 1 \in 1..(n - 1) => i > 1) /\ (j \in 1..(n - 1) => j < n)
    BY ONLY <1>1
  <1> QED
    BY ONLY <1>2, <1>3, <1>4

\* A tiling by one, two or three chunks.
LEMMA Tiling1 ==
    ASSUME NEW a \in Chunks
    PROVE  Tiling(<<a>>, a.start, End(a)) /\ Sparse(<<a>>)
  <1>1. a.start \in Nat /\ End(a) \in Nat /\ a.start < End(a)
    BY ChunkTypes DEF End
  <1> QED
    BY <1>1 DEF Tiling, Sparse

LEMMA Tiling2 ==
    ASSUME NEW a \in Chunks, NEW b \in Chunks,
           b.start = End(a), ~(a.free /\ b.free)
    PROVE  Tiling(<<a, b>>, a.start, End(b)) /\ Sparse(<<a, b>>)
  <1> DEFINE two == <<a, b>>
  <1>1. /\ a.start \in Nat /\ End(a) \in Nat /\ a.start < End(a)
        /\ b.start \in Nat /\ End(b) \in Nat /\ b.start < End(b)
    BY ChunkTypes DEF End
  <1>2. two \in Seq(Chunks) /\ Len(two) = 2 /\ two[1] = a /\ two[2] = b
    OBVIOUS
  <1> HIDE DEF two
  <1>3. 1..2 = {1, 2} /\ 1..(2 - 1) = {1} /\ two # <<>>
    <2>1. <<a, b>> # <<>>
      OBVIOUS
    <2> QED
      BY <2>1 DEF two
  <1> QED
    BY <1>1, <1>2, <1>3 DEF Tiling, Sparse, two

LEMMA Tiling3 ==
    ASSUME NEW a \in Chunks, NEW b \in Chunks, NEW c \in Chunks,
           b.start = End(a), c.start = End(b), ~b.free
    PROVE  Tiling(<<a, b, c>>, a.start, End(c)) /\ Sparse(<<a, b, c>>)
  <1> DEFINE three == <<a, b, c>>
  <1>1. /\ a.start \in Nat /\ End(a) \in Nat /\ a.start < End(a)
        /\ b.start \in Nat /\ End(b) \in Nat /\ b.start < End(b)
        /\ c.start \in Nat /\ End(c) \in Nat /\ c.start < End(c)
    BY ChunkTypes DEF End
  <1>2. three \in Seq(Chunks) /\ Len(three) = 3 /\ three[1] = a /\ three[2] = b /\ three[3] = c
    OBVIOUS
  <1> HIDE DEF three
  <1>3. 1..3 = {1, 2, 3} /\ 1..(3 - 1) = {1, 2} /\ three # <<>>
    <2>1. <<a, b, c>> # <<>>
      OBVIOUS
    <2> QED
      BY <2>1 DEF three
  <1> QED
    BY <1>1, <1>2, <1>3 DEF Tiling, Sparse, three

\* What Carve yields: the block, with a free chunk before it or behind it or both.
LEMMA CarveForms ==
    ASSUME NEW c, NEW size
    PROVE  LET extra == Extra(c)
               tail == c.size - (size + extra)
               front == Chunk(c.start, extra, TRUE)
               block == Chunk(c.start + extra, size, FALSE)
               back == Chunk(c.start + extra + size, tail, TRUE)
           IN  /\ extra > 0 /\ tail > 0 => Carve(c, size) = <<front, block, back>>
               /\ extra > 0 /\ ~(tail > 0) => Carve(c, size) = <<front, block>>
               /\ ~(extra > 0) /\ tail > 0 => Carve(c, size) = <<block, back>>
               /\ ~(extra > 0) /\ ~(tail > 0) => Carve(c, size) = <<block>>
  <1> DEFINE extra == Extra(c)
             tail == c.size - (size + extra)
             front == Chunk(c.start, extra, TRUE)
             block == Chunk(c.start + extra, size, FALSE)
             back == Chunk(c.start + extra + size, tail, TRUE)
  <1>1. Carve(c, size) = (IF extra > 0 THEN <<front>> ELSE <<>>) \o <<block>>
                         \o (IF tail > 0 THEN <<back>> ELSE <<>>)
    BY DEF Carve
  <1> DEFINE S == {front, block, back}
  <1>2. front \in S /\ block \in S /\ back \in S
    OBVIOUS
  <1> HIDE DEF S, extra, tail, front, block, back
  <1>3. /\ <<front>> \o <<block>> = <<front, block>>
        /\ <<block>> \o <<back>> = <<block, back>>
        /\ <<front, block>> \o <<back>> = <<front, block, back>>
    <2>1. <<front>> \o <<block>> = <<front, block>>
      BY ONLY <1>2, PairIsConcat, Zenon
    <2>2. <<block>> \o <<back>> = <<block, back>>
      BY ONLY <1>2, PairIsConcat, Zenon
    <2>3. <<front, block>> \o <<back>> = <<front, block, back>>
      BY ONLY <1>2, TripleIsConcat, Zenon
    <2> QED
      BY ONLY <2>1, <2>2, <2>3
  <1>4. <<block>> \in Seq(S) /\ <<front, block>> \in Seq(S)
    BY ONLY <1>2
  <1>5. <<>> \o <<block>> = <<block>>
    BY <1>4, ConcatEmptySeq, Zenon
  <1>6. <<block>> \o <<>> = <<block>> /\ <<front, block>> \o <<>> = <<front, block>>
    BY <1>4, ConcatEmptySeq, Zenon
  <1> QED
    BY <1>1, <1>3, <1>5, <1>6, Zenon DEF extra, tail, front, block, back

LEMMA CarveTiles ==
    ASSUME SizeAssumption, NEW c \in Chunks, NEW size \in Sizes, Fits(c, size)
    PROVE  /\ Tiling(Carve(c, size), c.start, End(c)) /\ Sparse(Carve(c, size))
           /\ Extra(c) \in Nat
  <1> DEFINE extra == Extra(c)
             tail == c.size - (size + extra)
             front == Chunk(c.start, extra, TRUE)
             block == Chunk(c.start + extra, size, FALSE)
             back == Chunk(c.start + extra + size, tail, TRUE)
  <1>1. /\ c.start \in Nat /\ c.size \in Nat /\ size \in Nat /\ size > 0 /\ PageSize \in Nat /\ PageSize > 0
        /\ extra = (-c.start) % PageSize
    BY ChunkTypes DEF SizeAssumption, Extra
  <1>2. extra \in Nat
    <2> HIDE DEF extra
    <2> QED
      BY ONLY <1>1
  <1>3. c.size >= size + extra /\ End(c) = c.start + c.size
    BY DEF Fits, End
  <1>4. tail \in Nat
    BY ONLY <1>1, <1>2, <1>3
  <1>5. /\ extra > 0 => front \in Chunks
        /\ block \in Chunks
        /\ tail > 0 => back \in Chunks
    BY <1>1, <1>2, <1>4 DEF Chunks, Chunk
  <1>6. /\ End(front) = block.start /\ End(block) = back.start /\ End(back) = End(c)
        /\ front.start = c.start /\ ~block.free
        /\ extra = 0 => block.start = c.start
        /\ tail = 0 => End(block) = End(c)
    BY <1>1, <1>2, <1>3, <1>4 DEF Chunk, End
  <1>7. /\ extra > 0 /\ tail > 0 => Carve(c, size) = <<front, block, back>>
        /\ extra > 0 /\ ~(tail > 0) => Carve(c, size) = <<front, block>>
        /\ ~(extra > 0) /\ tail > 0 => Carve(c, size) = <<block, back>>
        /\ ~(extra > 0) /\ ~(tail > 0) => Carve(c, size) = <<block>>
    BY CarveForms
  <1> HIDE DEF extra, tail, front, block, back
  <1>8. CASE extra > 0 /\ tail > 0
    <2>1. Carve(c, size) = <<front, block, back>>
      BY <1>7, <1>8
    <2> QED
      BY <2>1, <1>2, <1>5, <1>6, <1>8, Tiling3 DEF extra
  <1>9. CASE extra > 0 /\ ~(tail > 0)
    <2>1. Carve(c, size) = <<front, block>>
      BY <1>7, <1>9
    <2>2. tail = 0
      BY ONLY <1>4, <1>9
    <2> QED
      BY <2>1, <2>2, <1>2, <1>5, <1>6, <1>9, Tiling2 DEF extra
  <1>10. CASE ~(extra > 0) /\ tail > 0
    <2>1. Carve(c, size) = <<block, back>>
      BY <1>7, <1>10
    <2>2. extra = 0
      BY ONLY <1>2, <1>10
    <2> QED
      BY <2>1, <2>2, <1>2, <1>5, <1>6, <1>10, Tiling2 DEF extra
  <1>11. CASE ~(extra > 0) /\ ~(tail > 0)
    <2>1. Carve(c, size) = <<block>>
      BY <1>7, <1>11
    <2>2. extra = 0 /\ tail = 0
      BY ONLY <1>2, <1>4, <1>11
    <2> QED
      BY <2>1, <2>2, <1>2, <1>5, <1>6, Tiling1 DEF extra
  <1> QED
    BY <1>8, <1>9, <1>10, <1>11

\* The list of a ready heap is a tiling of it.
LEMMA IInvIsTiling ==
    ASSUME SizeAssumption, IInv, mHeapSize # 0
    PROVE  Tiling(mList, 0, HeapSize) /\ Sparse(mList) /\ mHeapSize = HeapSize /\ HeapSize \in Nat
  <1>1. mList \in Seq(Chunks) /\ mHeapSize = HeapSize /\ HeapSize \in Nat
    BY DEF IInv, TypeOK, SizeAssumption
  <1>2. \A k \in 1..Len(mList) : 0 <= mList[k].start
    BY <1>1, ElementOfSeq, ChunkTypes
  <1> QED
    BY <1>1, <1>2 DEF IInv, Tiled, Coalesced, Ordered, Tiling, Sparse, End

LEMMA TilingIsIInv ==
    ASSUME SizeAssumption, NEW list, Tiling(list, 0, HeapSize), Sparse(list),
           mList' = list, mHeapSize' = HeapSize, mHeapSize' # 0,
           result' \in [err : {"ok", "none", "EINVAL", "ENOMEM", "ENOENT"}, at : 0..HeapSize]
    PROVE  IInv'
  BY DEF IInv, TypeOK, Tiled, Coalesced, Ordered, Tiling, Sparse, End

\* The free chunks around a block in use: at most one before it, one behind it.
LEMMA NeighboursOfBlock ==
    ASSUME mList \in Seq(Chunks), Sparse(mList),
           NEW i \in 1..Len(mList), ~mList[i].free
    PROVE  /\ First(i) \in 1..i /\ Last(i) \in i..Len(mList)
           /\ \A k \in First(i)..Last(i) : k = i \/ mList[k].free
           /\ First(i) > 1 => ~mList[First(i) - 1].free
           /\ Last(i) < Len(mList) => ~mList[Last(i) + 1].free
  <1> DEFINE n == Len(mList)
             Ends(j) == /\ \A k \in (i + 1)..j : mList[k].free
                        /\ j < n => ~mList[j + 1].free
             f == First(i)
             l == Last(i)
  <1>1. n \in Nat /\ i \in Nat /\ 1 <= i /\ i <= n
    BY LenProperties
  <1>2. \A k \in 1..(n - 1) : ~(mList[k].free /\ mList[k + 1].free)
    BY DEF Sparse
  <1>3. \E j \in i..n : Ends(j)
    <2> HIDE DEF n
    <2>1. CASE i < n /\ mList[i + 1].free
      <3>1. i + 1 \in i..n /\ (i + 1)..(i + 1) = {i + 1} /\ (i + 1 < n => i + 1 \in 1..(n - 1))
        BY ONLY <1>1, <2>1
      <3> QED
        BY ONLY <2>1, <3>1, <1>2
    <2>2. CASE ~(i < n /\ mList[i + 1].free)
      <3>1. i \in i..n /\ (i + 1)..i = {}
        BY ONLY <1>1
      <3> QED
        BY ONLY <2>2, <3>1
    <2> QED
      BY <2>1, <2>2
  <1>4. l = CHOOSE j \in i..n : Ends(j)
    BY DEF Last
  <1>5. l \in i..n /\ Ends(l)
    <2> HIDE DEF Ends, l
    <2> QED
      BY ONLY <1>3, <1>4
  <1>6. f = IF i > 1 /\ mList[i - 1].free THEN i - 1 ELSE i
    BY DEF First
  <1> HIDE DEF n, f, l
  <1>7. f \in 1..i /\ (f = i \/ (f = i - 1 /\ mList[f].free))
    BY ONLY <1>1, <1>6
  <1>8. f > 1 => ~mList[f - 1].free
    <2>1. CASE i > 1 /\ mList[i - 1].free
      <3>1. f = i - 1 /\ (f > 1 => f - 1 \in 1..(n - 1) /\ (f - 1) + 1 = i - 1)
        BY ONLY <1>1, <1>6, <2>1
      <3> QED
        BY ONLY <3>1, <2>1, <1>2
    <2>2. CASE ~(i > 1 /\ mList[i - 1].free)
      BY ONLY <2>2, <1>6
    <2> QED
      BY <2>1, <2>2
  <1>9. ASSUME NEW k \in f..l PROVE k = i \/ mList[k].free
    <2>1. k = i \/ (k = f /\ f = i - 1) \/ k \in (i + 1)..l
      BY ONLY <1>1, <1>5, <1>7, <1>9
    <2> QED
      BY ONLY <2>1, <1>5, <1>7, <1>1
  <1> QED
    BY ONLY <1>5, <1>7, <1>8, <1>9 DEF n, f, l

LEMMA MergedTiles ==
    ASSUME NEW from, NEW to, Tiling(mList, from, to),
           NEW i \in 1..Len(mList), NEW j \in i..Len(mList)
    PROVE  /\ Tiling(<<Merged(i, j)>>, mList[i].start, End(mList[j]))
           /\ Sparse(<<Merged(i, j)>>)
           /\ End(Merged(i, j)) = End(mList[j])
  <1>1. mList[i] \in Chunks /\ mList[j] \in Chunks
    BY ElementOfSeq DEF Tiling
  <1>2. i = j \/ End(mList[i]) <= mList[j].start
    BY DEF Tiling
  <1>3. /\ mList[i].start \in Nat /\ mList[i].size \in Nat /\ mList[i].size > 0
        /\ mList[j].start \in Nat /\ mList[j].size \in Nat /\ mList[j].size > 0
        /\ End(mList[i]) = mList[i].start + mList[i].size
        /\ End(mList[j]) = mList[j].start + mList[j].size
    BY <1>1, ChunkTypes DEF End
  <1>4. /\ End(mList[j]) - mList[i].start \in Nat \ {0}
        /\ mList[i].start + (End(mList[j]) - mList[i].start) = End(mList[j])
    <2>1. mList[i].start < End(mList[j])
      BY <1>2, <1>3, SMTT(40)
    <2>2. mList[i].start \in Nat /\ End(mList[j]) \in Nat
      BY <1>3
    <2> QED
      BY ONLY <2>1, <2>2
  <1>5. Merged(i, j) = [start |-> mList[i].start, size |-> End(mList[j]) - mList[i].start, free |-> TRUE]
    <2>1. mList[j].start + mList[j].size - mList[i].start = End(mList[j]) - mList[i].start
      BY <1>3
    <2> QED
      BY ONLY <2>1 DEF Merged, Chunk
  <1>6. Merged(i, j) \in Chunks /\ Merged(i, j).start = mList[i].start /\ End(Merged(i, j)) = End(mList[j])
    BY <1>3, <1>4, <1>5 DEF Chunks, End
  <1> QED
    BY <1>6, Tiling1

LEMMA SetSizeStep == ASSUME SizeAssumption, IInv, SetSize PROVE IInv'
  <1>1. Chunk(0, HeapSize, TRUE) \in Chunks /\ Chunk(0, HeapSize, TRUE).start = 0
        /\ End(Chunk(0, HeapSize, TRUE)) = HeapSize
    BY DEF SizeAssumption, Chunk, Chunks, End
  <1>2. Tiling(<<Chunk(0, HeapSize, TRUE)>>, 0, HeapSize) /\ Sparse(<<Chunk(0, HeapSize, TRUE)>>)
    BY <1>1, Tiling1
  <1>3. HeapSize \in Nat \ {0}
    BY DEF SizeAssumption
  <1>4. Err("none") \in [err : {"ok", "none", "EINVAL", "ENOMEM", "ENOENT"}, at : 0..HeapSize]
        /\ Err("EINVAL") \in [err : {"ok", "none", "EINVAL", "ENOMEM", "ENOENT"}, at : 0..HeapSize]
    BY <1>3 DEF Err
  <1>5. CASE mHeapSize # 0
    BY <1>4, <1>5 DEF SetSize, IInv, TypeOK, Tiled, Coalesced, Ordered
  <1>6. CASE mHeapSize = 0
    BY <1>2, <1>3, <1>4, <1>6, TilingIsIInv DEF SetSize
  <1> QED
    BY <1>5, <1>6

LEMMA AllocateStep ==
    ASSUME SizeAssumption, IInv, NEW size \in Sizes, Allocate(size) PROVE IInv'
  <1> DEFINE Answers == [err : {"ok", "none", "EINVAL", "ENOMEM", "ENOENT"}, at : 0..HeapSize]
  <1>0. HeapSize \in Nat \ {0}
    BY DEF SizeAssumption
  <1>1. Err("ENOMEM") \in Answers /\ Err("EINVAL") \in Answers
    BY <1>0 DEF Err
  <1>2. CASE UNCHANGED <<mHeapSize, mList>> /\ result' \in Answers
    BY <1>2 DEF IInv, TypeOK, Tiled, Coalesced, Ordered
  <1>3. CASE /\ mHeapSize # 0
             /\ \E i \in Best(size) :
                    /\ mList' = Splice(mList, i, i, Carve(mList[i], size))
                    /\ result' = Ok(mList[i].start + Extra(mList[i]))
             /\ UNCHANGED mHeapSize
    <2>1. PICK i \in Best(size) :
              /\ mList' = Splice(mList, i, i, Carve(mList[i], size))
              /\ result' = Ok(mList[i].start + Extra(mList[i]))
      BY <1>3
    <2>2. i \in 1..Len(mList) /\ Fits(mList[i], size)
      BY <2>1 DEF Best, Fitting
    <2>3. Tiling(mList, 0, HeapSize) /\ Sparse(mList) /\ mHeapSize = HeapSize
      BY <1>3, IInvIsTiling
    <2>4. mList \in Seq(Chunks) /\ mList[i] \in Chunks /\ i \in i..Len(mList)
      BY <2>2, <2>3, ElementOfSeq DEF Tiling
    <2> DEFINE others == Carve(mList[i], size)
    <2>5. Tiling(others, mList[i].start, End(mList[i])) /\ Sparse(others) /\ Extra(mList[i]) \in Nat
      BY <2>2, <2>4, CarveTiles
    <2>6. Tiling(mList', 0, HeapSize)
      <3> HIDE DEF others
      <3>1. Tiling(Splice(mList, i, i, others), 0, HeapSize)
        BY <1>0, <2>2, <2>3, <2>4, <2>5, SpliceTiling
      <3> QED
        BY <3>1, <2>1 DEF others
    <2>7. Sparse(mList')
      <3>1. others \in Seq(Chunks) /\ others # <<>>
        BY <2>5 DEF Tiling
      <3>2. mList[i].free
        BY <2>2 DEF Fits
      <3>3. (i > 1 => ~mList[i - 1].free) /\ (i < Len(mList) => ~mList[i + 1].free)
        BY <2>2, <2>3, <2>4, <3>2 DEF Sparse
      <3> HIDE DEF others
      <3>4. Sparse(Splice(mList, i, i, others))
        BY <2>2, <2>3, <2>4, <2>5, <3>1, <3>3, SpliceSparse
      <3> QED
        BY <3>4, <2>1 DEF others
    <2>8. result' \in Answers
      <3>1. End(mList[i]) <= HeapSize /\ End(mList[i]) = mList[i].start + mList[i].size
        BY <2>2, <2>3 DEF Tiling, End
      <3>2. mList[i].start \in Nat /\ mList[i].size \in Nat /\ size \in Nat
            /\ mList[i].size >= size + Extra(mList[i])
        BY <2>2, <2>4, ChunkTypes DEF Fits, SizeAssumption
      <3>3. mList[i].start + Extra(mList[i]) \in 0..HeapSize
        BY ONLY <3>1, <3>2, <2>5, <1>0
      <3> QED
        BY <3>3, <2>1 DEF Ok
    <2>9. mHeapSize' = HeapSize /\ mHeapSize' # 0
      BY <1>3, <2>3
    <2> QED
      BY <2>6, <2>7, <2>8, <2>9, TilingIsIInv
  <1> QED
    BY <1>1, <1>2, <1>3 DEF Allocate

LEMMA DeallocateStep ==
    ASSUME SizeAssumption, IInv, NEW at, Deallocate(at) PROVE IInv'
  <1> DEFINE Answers == [err : {"ok", "none", "EINVAL", "ENOMEM", "ENOENT"}, at : 0..HeapSize]
  <1>0. HeapSize \in Nat \ {0}
    BY DEF SizeAssumption
  <1>1. Err("ENOENT") \in Answers /\ Err("EINVAL") \in Answers /\ Ok(0) \in Answers
    BY <1>0 DEF Err, Ok
  <1>2. CASE UNCHANGED <<mHeapSize, mList>> /\ result' \in Answers
    BY <1>2 DEF IInv, TypeOK, Tiled, Coalesced, Ordered
  <1>3. CASE /\ mHeapSize # 0
             /\ \E i \in 1..Len(mList) :
                  /\ mList[i].start = at
                  /\ ~mList[i].free
                  /\ mList' = Splice(mList, First(i), Last(i), <<Merged(First(i), Last(i))>>)
             /\ result' = Ok(0)
             /\ UNCHANGED mHeapSize
    <2>1. PICK i \in 1..Len(mList) :
              /\ ~mList[i].free
              /\ mList' = Splice(mList, First(i), Last(i), <<Merged(First(i), Last(i))>>)
      BY <1>3
    <2>2. Tiling(mList, 0, HeapSize) /\ Sparse(mList) /\ mHeapSize = HeapSize
      BY <1>3, IInvIsTiling
    <2>3. mList \in Seq(Chunks)
      BY <2>2 DEF Tiling
    <2> DEFINE f == First(i)
               l == Last(i)
               others == <<Merged(f, l)>>
    <2>4. /\ f \in 1..i /\ l \in i..Len(mList)
          /\ f > 1 => ~mList[f - 1].free
          /\ l < Len(mList) => ~mList[l + 1].free
      BY <2>1, <2>2, <2>3, NeighboursOfBlock
    <2> HIDE DEF f, l
    <2>5. f \in 1..Len(mList) /\ l \in f..Len(mList)
      BY <2>3, <2>4, LenProperties
    <2>6. Tiling(others, mList[f].start, End(mList[l])) /\ Sparse(others)
      BY <2>2, <2>5, MergedTiles
    <2>7. others \in Seq(Chunks) /\ others # <<>>
      BY <2>6 DEF Tiling
    <2>8. mList' = Splice(mList, f, l, others)
      BY <2>1 DEF f, l
    <2> HIDE DEF others
    <2>9. Tiling(mList', 0, HeapSize)
      BY <1>0, <2>2, <2>5, <2>6, <2>8, SpliceTiling
    <2>10. Sparse(mList')
      BY <2>2, <2>3, <2>4, <2>5, <2>6, <2>7, <2>8, SpliceSparse
    <2> QED
      BY <2>2, <2>9, <2>10, <1>1, <1>3, TilingIsIInv
  <1> QED
    BY <1>1, <1>2, <1>3 DEF Deallocate

LEMMA ListStart == ASSUME SizeAssumption, Init PROVE IInv
  BY DEF SizeAssumption, Init, IInv, TypeOK, Tiled, Coalesced, Ordered, Err

LEMMA ListStep == ASSUME SizeAssumption, IInv, [Next]_vars PROVE IInv'
  <1>1. CASE UNCHANGED vars
    BY <1>1 DEF vars, IInv, TypeOK, Tiled, Coalesced, Ordered
  <1> QED
    BY <1>1, SetSizeStep, AllocateStep, DeallocateStep DEF Next

(* The loop of alloc.                                                      *)

Finds == [best : 0..Len(mList), more : BOOLEAN]

Rounds(size, f, n) ==
    /\ f \in [0..n -> Finds]
    /\ f[0] = [best |-> 0, more |-> TRUE]
    /\ \A i \in 1..n : f[i] = Look(mList[i], i, size, f[i - 1])

LEMMA LookFinds ==
    ASSUME NEW chunk, NEW i \in 1..Len(mList), NEW size, NEW found \in Finds
    PROVE  Look(chunk, i, size, found) \in Finds
  <1>1. i \in 0..Len(mList)
    OBVIOUS
  <1> QED
    BY <1>1 DEF Look, Finds

LEMMA RoundsExist ==
    ASSUME Len(mList) \in Nat, NEW size
    PROVE  \E f : Rounds(size, f, Len(mList))
  <1> DEFINE n == Len(mList)
             S == {k \in 0..n : \E f : Rounds(size, f, k)}
  <1>0. n \in Nat /\ S \in SUBSET (0..n)
    OBVIOUS
  <1>1. 0 \in S
    <2> DEFINE f == [k \in 0..0 |-> [best |-> 0, more |-> TRUE]]
    <2>1. [best |-> 0, more |-> TRUE] \in Finds
      BY DEF Finds
    <2>2. f \in [0..0 -> Finds] /\ f[0] = [best |-> 0, more |-> TRUE]
      BY <2>1
    <2>3. Rounds(size, f, 0)
      BY <2>2 DEF Rounds
    <2> QED
      BY <2>3, <1>0
  <1>2. ASSUME NEW k \in 0..n, k < n, k \in S PROVE k + 1 \in S
    <2>1. PICK f : Rounds(size, f, k)
      BY <1>2
    <2> DEFINE next == Look(mList[k + 1], k + 1, size, f[k])
               g == [i \in 0..(k + 1) |-> IF i = k + 1 THEN next ELSE f[i]]
    <2>2. f \in [0..k -> Finds] /\ f[0] = [best |-> 0, more |-> TRUE]
          /\ \A i \in 1..k : f[i] = Look(mList[i], i, size, f[i - 1])
      BY <2>1 DEF Rounds
    <2>3. k + 1 \in 1..n /\ k \in 0..k /\ k + 1 \in 0..n
      BY <1>0, <1>2
    <2>4. next \in Finds
      <3>1. f[k] \in Finds
        BY <2>2, <2>3
      <3> QED
        BY <2>3, <3>1, LookFinds
    <2> HIDE DEF next
    <2>5. g \in [0..(k + 1) -> Finds]
      <3>1. ASSUME NEW i \in 0..(k + 1), i # k + 1 PROVE f[i] \in Finds
        <4>1. i \in 0..k
          BY <1>2, <3>1
        <4> QED
          BY <4>1, <2>2
      <3> QED
        BY <2>4, <3>1
    <2>6. g[0] = [best |-> 0, more |-> TRUE]
      <3>1. 0 \in 0..(k + 1) /\ 0 # k + 1
        BY <1>2
      <3> QED
        BY <3>1, <2>2
    <2>7. ASSUME NEW i \in 1..(k + 1) PROVE g[i] = Look(mList[i], i, size, g[i - 1])
      <3>1. i \in 0..(k + 1) /\ i - 1 \in 0..(k + 1) /\ i - 1 # k + 1
        BY <1>2
      <3>2. g[i - 1] = f[i - 1] /\ g[i] = IF i = k + 1 THEN next ELSE f[i]
        BY <3>1
      <3>3. CASE i = k + 1
        <4>1. i - 1 = k
          BY <1>2, <3>3
        <4> QED
          BY <3>2, <3>3, <4>1 DEF next
      <3>4. CASE i # k + 1
        <4>1. i \in 1..k
          BY <1>2, <3>4
        <4> QED
          BY <3>2, <3>4, <4>1, <2>2
      <3> QED
        BY <3>3, <3>4
    <2>8. Rounds(size, g, k + 1)
      <3> HIDE DEF g
      <3> QED
        BY <2>5, <2>6, <2>7 DEF Rounds
    <2> QED
      BY <2>3, <2>8
  <1> HIDE DEF S, n
  <1>3. \A k \in 0..n : k \in S
    BY <1>0, <1>1, <1>2, Climb
  <1>4. n \in 0..n
    BY <1>0
  <1> QED
    BY <1>3, <1>4 DEF S, n

LEMMA SearchRounds ==
    ASSUME Len(mList) \in Nat, NEW size
    PROVE  \E f : Rounds(size, f, Len(mList)) /\ Search(size) = f[Len(mList)].best
  <1> DEFINE n == Len(mList)
             Body(f) == [i \in 0..n |->
                IF i = 0 THEN [best |-> 0, more |-> TRUE]
                ELSE Look(mList[i], i, size, f[i - 1])]
             found == CHOOSE f : f = Body(f)
  <1>0. n \in Nat
    OBVIOUS
  <1>1. PICK f : Rounds(size, f, n)
    BY RoundsExist
  <1>2. f = Body(f)
    <2>1. f \in [0..n -> Finds]
      BY <1>1 DEF Rounds
    <2>2. ASSUME NEW i \in 0..n PROVE f[i] = Body(f)[i]
      <3>1. i = 0 \/ i \in 1..n
        BY <1>0
      <3> QED
        BY <3>1, <1>1 DEF Rounds
    <2> QED
      BY <2>1, <2>2
  <1>3. found = Body(found)
    BY <1>2
  <1>4. Search(size) = found[n].best
    BY DEF Search
  <1> HIDE DEF found, Body
  <1>5. \A k \in 0..n : found[k] = IF k = 0 THEN [best |-> 0, more |-> TRUE]
                                   ELSE Look(mList[k], k, size, found[k - 1])
    BY <1>3 DEF Body
  <1>6. found = f
    <2> DEFINE S == {k \in 0..n : found[k] = f[k]}
    <2>1. S \in SUBSET (0..n) /\ 0 \in S
      <3>1. 0 \in 0..n
        BY <1>0
      <3>2. found[0] = [best |-> 0, more |-> TRUE]
        BY <3>1, <1>5
      <3>3. f[0] = [best |-> 0, more |-> TRUE]
        BY <1>1 DEF Rounds
      <3> QED
        BY <3>1, <3>2, <3>3
    <2>2. ASSUME NEW k \in 0..n, k < n, k \in S PROVE k + 1 \in S
      <3>1. k + 1 \in 1..n /\ k + 1 \in 0..n /\ k + 1 # 0 /\ (k + 1) - 1 = k
        BY <1>0, <2>2
      <3>2. found[k + 1] = Look(mList[k + 1], k + 1, size, found[k])
        BY <3>1, <1>5
      <3>3. f[k + 1] = Look(mList[k + 1], k + 1, size, f[k])
        BY <3>1, <1>1 DEF Rounds
      <3> QED
        BY <3>1, <3>2, <3>3, <2>2
    <2> HIDE DEF S
    <2>3. \A k \in 0..n : k \in S
      BY <1>0, <2>1, <2>2, Climb
    <2>4. \A k \in 0..n : found[k] = f[k]
      BY <2>3 DEF S
    <2>5. f = [k \in 0..n |-> f[k]]
      BY <1>1 DEF Rounds
    <2>6. found = [k \in 0..n |-> found[k]]
      BY <1>3 DEF Body
    <2> QED
      BY <2>4, <2>5, <2>6
  <1> QED
    BY <1>1, <1>4, <1>6

Ahead(i, j) == mList[i].size < mList[j].size \/ (mList[i].size = mList[j].size /\ i <= j)

\* What a round of the loop knows of the chunks it has seen.
Knows(size, found, k) ==
    /\ found.best = 0 => found.more /\ \A j \in 1..k : ~Fits(mList[j], size)
    /\ found.best # 0 => /\ found.best \in 1..k /\ Fits(mList[found.best], size)
                         /\ \A j \in 1..k : Fits(mList[j], size) => Ahead(found.best, j)
                         /\ ~found.more => mList[found.best].size = size

LEMMA FitsBound ==
    ASSUME SizeAssumption, NEW c \in Chunks, NEW size \in Sizes, Fits(c, size)
    PROVE  size \in Nat /\ c.size \in Nat /\ size <= c.size
  <1>1. Extra(c) \in Nat
    BY CarveTiles
  <1>2. size \in Nat /\ c.size \in Nat /\ c.size >= size + Extra(c)
    BY ChunkTypes DEF Fits, SizeAssumption
  <1> QED
    BY ONLY <1>1, <1>2

LEMMA LookKnows ==
    ASSUME SizeAssumption, mList \in Seq(Chunks), NEW size \in Sizes,
           NEW k \in 1..Len(mList), NEW found \in Finds, Knows(size, found, k - 1)
    PROVE  Knows(size, Look(mList[k], k, size, found), k)
  <1> DEFINE new == Look(mList[k], k, size, found)
             b == found.best
  <1>1. \A j \in 1..Len(mList) : mList[j] \in Chunks
    BY ElementOfSeq
  <1>2. \A j \in 1..Len(mList) :
            mList[j].size \in Nat /\ (Fits(mList[j], size) => size \in Nat /\ size <= mList[j].size)
    BY <1>1, FitsBound, ChunkTypes
  <1>3. k \in Nat /\ Len(mList) \in Nat /\ k <= Len(mList) /\ 1 <= k
    BY LenProperties
  <1>4. \A j \in 1..k : j = k \/ j \in 1..(k - 1)
    BY ONLY <1>3
  <1>5. b \in Nat /\ (b # 0 => b \in 1..(k - 1) /\ b \in 1..k /\ b \in 1..Len(mList))
    <2>1. b # 0 => b \in 1..(k - 1)
      BY DEF Knows
    <2>2. b \in 0..Len(mList)
      BY DEF Finds
    <2> HIDE DEF b
    <2> QED
      BY ONLY <2>1, <2>2, <1>3
  <1>6. ASSUME NEW j \in 1..k, Fits(mList[j], size), b # 0, j # k
        PROVE  Ahead(b, j)
    BY <1>4, <1>6 DEF Knows
  <1>7. CASE ~Fits(mList[k], size)
    <2>1. new = found
      BY <1>7 DEF Look
    <2> QED
      BY <2>1, <1>4, <1>5, <1>6, <1>7 DEF Knows
  <1>8. CASE Fits(mList[k], size) /\ ~found.more
    <2>1. new = found
      BY <1>8 DEF Look
    <2>2. b # 0 /\ mList[b].size = size /\ Fits(mList[b], size)
      BY <1>8 DEF Knows
    <2>3. Ahead(b, k)
      <3>1. size <= mList[k].size /\ mList[k].size \in Nat /\ size \in Nat /\ b <= k
        BY <2>2, <1>2, <1>3, <1>5, <1>8
      <3> QED
        BY <3>1, <2>2 DEF Ahead
    <2> QED
      BY <2>1, <2>2, <2>3, <1>5, <1>6 DEF Knows
  <1>9. CASE Fits(mList[k], size) /\ found.more /\ (b = 0 \/ mList[k].size < mList[b].size)
    <2>1. new.best = k /\ new.more = (mList[k].size # size)
      BY <1>9 DEF Look
    <2>2. ASSUME NEW j \in 1..k, Fits(mList[j], size) PROVE Ahead(k, j)
      <3>1. CASE j = k
        BY <3>1, <1>3 DEF Ahead
      <3>2. CASE j # k
        <4>1. j \in 1..(k - 1) /\ j \in 1..Len(mList)
          BY ONLY <1>3, <1>4, <3>2
        <4>2. b # 0
          BY <4>1, <2>2 DEF Knows
        <4>3. Ahead(b, j)
          BY <4>2, <3>2, <2>2, <1>6
        <4>4. mList[k].size < mList[b].size /\ mList[b].size <= mList[j].size
          BY <4>1, <4>2, <4>3, <1>2, <1>5, <1>9 DEF Ahead
        <4>5. mList[k].size \in Nat /\ mList[b].size \in Nat /\ mList[j].size \in Nat
          BY <4>1, <4>2, <1>2, <1>3, <1>5
        <4> QED
          BY <4>4, <4>5 DEF Ahead
      <3> QED
        BY <3>1, <3>2
    <2> HIDE DEF new
    <2>3. new.best # 0 /\ new.best \in 1..k
      BY <2>1, <1>3
    <2> QED
      BY <2>1, <2>2, <2>3, <1>9 DEF Knows, new
  <1>10. CASE Fits(mList[k], size) /\ found.more /\ ~(b = 0 \/ mList[k].size < mList[b].size)
    <2>1. new.best = b /\ new.more = (mList[k].size # size)
      BY <1>10 DEF Look
    <2>2. b # 0 /\ Fits(mList[b], size)
      BY <1>10 DEF Knows
    <2>3. mList[b].size <= mList[k].size /\ b <= k
          /\ mList[b].size \in Nat /\ mList[k].size \in Nat
          /\ size \in Nat /\ size <= mList[b].size
      BY <2>2, <1>2, <1>3, <1>5, <1>10
    <2>4. Ahead(b, k)
      BY <2>3 DEF Ahead
    <2>5. mList[k].size = size => mList[b].size = size
      BY ONLY <2>3
    <2> HIDE DEF new
    <2> QED
      BY <2>1, <2>2, <2>4, <2>5, <1>5, <1>6 DEF Knows, new
  <1> QED
    BY <1>7, <1>8, <1>9, <1>10

LEMMA SearchIsBest == ASSUME SizeAssumption, mList \in Seq(Chunks) PROVE BestFit
  <1> SUFFICES ASSUME NEW size \in Sizes
               PROVE  Best(size) = IF Search(size) = 0 THEN {} ELSE {Search(size)}
    BY DEF BestFit
  <1> DEFINE n == Len(mList)
  <1>0. n \in Nat
    BY LenProperties
  <1>1. PICK f : Rounds(size, f, n) /\ Search(size) = f[n].best
    BY <1>0, SearchRounds
  <1> DEFINE S == {k \in 0..n : Knows(size, f[k], k)}
  <1>2. S \in SUBSET (0..n)
    OBVIOUS
  <1>3. 0 \in S
    <2>1. f[0] = [best |-> 0, more |-> TRUE] /\ 0 \in 0..n
      BY <1>0, <1>1 DEF Rounds
    <2> QED
      BY <2>1 DEF Knows
  <1>4. ASSUME NEW k \in 0..n, k < n, k \in S PROVE k + 1 \in S
    <2>1. k + 1 \in 1..n /\ k + 1 \in 0..n /\ (k + 1) - 1 = k
      BY <1>0, <1>4
    <2>2. f[k + 1] = Look(mList[k + 1], k + 1, size, f[k]) /\ f[k] \in Finds
      BY <2>1, <1>1 DEF Rounds
    <2>3. Knows(size, f[k], (k + 1) - 1)
      BY <2>1, <1>4
    <2>4. Knows(size, f[k + 1], k + 1)
      BY <2>1, <2>2, <2>3, LookKnows
    <2> QED
      BY <2>1, <2>4
  <1>5. Knows(size, f[n], n)
    <2> HIDE DEF S
    <2>1. \A k \in 0..n : k \in S
      BY <1>0, <1>2, <1>3, <1>4, Climb
    <2>2. n \in 0..n
      BY <1>0
    <2> QED
      BY <2>1, <2>2 DEF S
  <1> DEFINE b == Search(size)
  <1>6. /\ b = 0 => \A j \in 1..n : ~Fits(mList[j], size)
        /\ b # 0 => /\ b \in 1..n /\ Fits(mList[b], size)
                    /\ \A j \in 1..n : Fits(mList[j], size) => Ahead(b, j)
    BY <1>1, <1>5 DEF Knows
  <1>7. \A j \in 1..n : mList[j].size \in Nat
    BY ElementOfSeq, ChunkTypes
  <1>8. Best(size) = {i \in 1..n : Fits(mList[i], size)
                        /\ \A j \in 1..n : Fits(mList[j], size) => Ahead(i, j)}
    BY DEF Best, Fitting, Ahead
  <1> HIDE DEF b, n
  <1>9. CASE b = 0
    BY <1>6, <1>8, <1>9 DEF b
  <1>10. CASE b # 0
    <2>1. ASSUME NEW i \in 1..n, Fits(mList[i], size), \A j \in 1..n : Fits(mList[j], size) => Ahead(i, j)
          PROVE  i = b
      <3>1. Ahead(i, b) /\ Ahead(b, i) /\ b \in 1..n
        BY <2>1, <1>6, <1>10
      <3>2. mList[i].size \in Nat /\ mList[b].size \in Nat
        BY <3>1, <1>7
      <3> QED
        BY <3>1, <3>2 DEF Ahead
    <2> QED
      BY <2>1, <1>6, <1>8, <1>10 DEF b
  <1> QED
    BY <1>9, <1>10

\* The least step from s up to a multiple of p.
LEMMA NextMultiple ==
    ASSUME NEW p \in Nat \ {0}, NEW s \in Nat
    PROVE  /\ (s + ((-s) % p)) % p = 0
           /\ \A a \in Nat : a >= s /\ a % p = 0 => (-s) % p <= a - s
  <1> DEFINE e == (-s) % p
             q == (-s) \div p
  <1>1. e \in Int /\ q \in Int /\ 0 <= e /\ e < p /\ -s = p * q + e
    OBVIOUS
  <1> HIDE DEF e, q
  <1>2. (s + e) % p = 0
    <2>1. s + e = p * (-q) /\ -q \in Int
      BY ONLY <1>1
    <2>2. \A r \in Int : (p * r) % p = 0
      OBVIOUS
    <2> QED
      BY ONLY <2>1, <2>2
  <1>3. ASSUME NEW a \in Nat, a >= s, a % p = 0 PROVE e <= a - s
    <2> DEFINE r == a \div p
    <2>1. r \in Int /\ a = p * r
      BY <1>3
    <2> HIDE DEF r
    <2>2. a - s = p * (r + q) + e
      BY ONLY <2>1, <1>1
    <2>3. CASE r + q >= 0
      <3>1. p * (r + q) >= 0 /\ p * (r + q) \in Int
        BY ONLY <2>1, <2>3, <1>1
      <3> QED
        BY ONLY <3>1, <2>2, <1>1
    <2>4. CASE r + q <= -1
      <3>1. p * (r + q) <= -p /\ p * (r + q) \in Int
        BY ONLY <2>1, <2>4, <1>1
      <3> QED
        BY ONLY <3>1, <2>2, <1>1, <1>3
    <2> QED
      BY ONLY <2>1, <2>3, <2>4, <1>1
  <1> QED
    BY <1>2, <1>3 DEF e

Block(chunk) == [start |-> chunk.start, size |-> chunk.size]

BlocksOf(list) == {Block(list[k]) : k \in {l \in 1..Len(list) : ~list[l].free}}

LEMMA SpliceBlocks ==
    ASSUME NEW list \in Seq(Chunks), NEW others \in Seq(Chunks), others # <<>>,
           NEW i \in 1..Len(list), NEW j \in i..Len(list)
    PROVE  BlocksOf(Splice(list, i, j, others))
           = {Block(list[k]) : k \in {l \in 1..Len(list) : ~list[l].free /\ l \notin i..j}}
             \cup BlocksOf(others)
  <1> DEFINE n == Len(list)
             m == Len(others)
             d == (j - i + 1) - m
             new == Splice(list, i, j, others)
             p == Len(new)
             Kept == {l \in 1..n : ~list[l].free /\ l \notin i..j}
  <1>a. m \in Nat /\ m >= 1 /\ n \in Nat
    BY EmptySeq
  <1>b. /\ new \in Seq(Chunks) /\ p = n - (j - i + 1) + m
        /\ \A k \in 1..(i - 1) : new[k] = list[k]
        /\ \A k \in i..(i - 1 + m) : new[k] = others[k - i + 1]
        /\ \A k \in (i + m)..p : new[k] = list[k + (j - i + 1) - m]
    <2>1. Spliced(Chunks, list, others, i, j)
      BY SpliceProperties
    <2> QED
      BY ONLY <2>1 DEF Spliced
  <1>c. p \in Nat
    BY <1>b, LenProperties
  <1>1. /\ n \in Nat /\ i \in Nat /\ j \in Nat /\ m \in Nat /\ d \in Int /\ p \in Nat
        /\ 1 <= i /\ i <= j /\ j <= n /\ 1 <= m /\ p = n - d /\ d = (j - i + 1) - m
    <2>1. d = (j - i + 1) - m
      OBVIOUS
    <2> HIDE DEF n, m, d, p
    <2>2. /\ n \in Nat /\ i \in Nat /\ j \in Nat /\ m \in Nat /\ 1 <= i /\ i <= j /\ j <= n /\ 1 <= m
      BY <1>a DEF n
    <2>3. p \in Nat /\ p = n - (j - i + 1) + m
      BY <1>b, <1>c
    <2> QED
      BY ONLY <2>1, <2>2, <2>3
  <1>2. /\ \A q \in 1..p : q < i => q \in 1..n /\ new[q] = list[q]
        /\ \A q \in 1..p : i <= q /\ q < i + m => q - i + 1 \in 1..m /\ new[q] = others[q - i + 1]
        /\ \A q \in 1..p : i + m <= q => q + d \in (j + 1)..n /\ q + d \in 1..n /\ new[q] = list[q + d]
    <2>1. Zones(Chunks, list, others, i, j)
      BY SpliceZones
    <2> QED
      BY ONLY <2>1 DEF Zones
  <1> HIDE DEF n, m, d, new, p
  \* Every new chunk is a kept one or one of the others.
  <1>3. ASSUME NEW q \in 1..p
        PROVE  \/ \E k \in 1..n : k \notin i..j /\ new[q] = list[k]
               \/ \E k \in 1..m : new[q] = others[k]
    <2>1. CASE q < i
      <3>1. q \notin i..j
        BY ONLY <2>1, <1>1
      <3> QED
        BY ONLY <3>1, <2>1, <1>2, <1>3
    <2>2. CASE i <= q /\ q < i + m
      BY ONLY <2>2, <1>2, <1>3
    <2>3. CASE i + m <= q
      <3>1. q + d \in 1..n /\ q + d \in (j + 1)..n /\ new[q] = list[q + d]
        BY ONLY <2>3, <1>2, <1>3
      <3>2. q + d \notin i..j
        BY ONLY <3>1, <1>1
      <3> QED
        BY ONLY <3>1, <3>2
    <2> QED
      BY ONLY <2>1, <2>2, <2>3, <1>1, <1>3, SMTT(40)
  \* A kept chunk and each of the others is in the new list.
  <1>4. ASSUME NEW k \in 1..n, k \notin i..j
        PROVE  \E q \in 1..p : new[q] = list[k]
    <2>1. CASE k < i
      <3>1. k \in 1..(i - 1) /\ k \in 1..p
        BY ONLY <2>1, <1>1, <1>4
      <3> QED
        BY ONLY <3>1, <1>b
    <2>2. CASE j < k
      <3>1. k - d \in (i + m)..p /\ k - d \in 1..p /\ (k - d) + (j - i + 1) - m = k
        BY ONLY <2>2, <1>1, <1>4
      <3> QED
        BY ONLY <3>1, <1>b
    <2> QED
      BY ONLY <2>1, <2>2, <1>1, <1>4
  <1>5. ASSUME NEW k \in 1..m
        PROVE  \E q \in 1..p : new[q] = others[k]
    <2>1. i - 1 + k \in i..(i - 1 + m) /\ i - 1 + k \in 1..p /\ (i - 1 + k) - i + 1 = k
      BY ONLY <1>1, <1>5
    <2> QED
      BY ONLY <2>1, <1>b
  <1>6. BlocksOf(new) = {Block(new[k]) : k \in {l \in 1..p : ~new[l].free}}
        /\ BlocksOf(others) = {Block(others[k]) : k \in {l \in 1..m : ~others[l].free}}
    BY DEF BlocksOf, p, m
  <1>7. BlocksOf(new) \subseteq {Block(list[k]) : k \in Kept} \cup BlocksOf(others)
    BY ONLY <1>3, <1>6
  <1>8. {Block(list[k]) : k \in Kept} \cup BlocksOf(others) \subseteq BlocksOf(new)
    BY ONLY <1>4, <1>5, <1>6
  <1> QED
    BY <1>7, <1>8 DEF new, n

LEMMA CarveBlocks ==
    ASSUME NEW c, NEW size
    PROVE  BlocksOf(Carve(c, size)) = {[start |-> c.start + Extra(c), size |-> size]}
  <1> DEFINE extra == Extra(c)
             tail == c.size - (size + extra)
             front == Chunk(c.start, extra, TRUE)
             block == Chunk(c.start + extra, size, FALSE)
             back == Chunk(c.start + extra + size, tail, TRUE)
  <1>1. /\ extra > 0 /\ tail > 0 => Carve(c, size) = <<front, block, back>>
        /\ extra > 0 /\ ~(tail > 0) => Carve(c, size) = <<front, block>>
        /\ ~(extra > 0) /\ tail > 0 => Carve(c, size) = <<block, back>>
        /\ ~(extra > 0) /\ ~(tail > 0) => Carve(c, size) = <<block>>
    BY CarveForms
  <1>2. front.free /\ ~block.free /\ back.free /\ Block(block) = [start |-> c.start + extra, size |-> size]
    BY DEF Chunk, Block
  <1> HIDE DEF extra, tail, front, block, back
  <1>3. Carve(c, size) \in {<<front, block, back>>, <<front, block>>, <<block, back>>, <<block>>}
    BY <1>1
  <1>4. BlocksOf(<<front, block, back>>) = {Block(block)}
    BY <1>2 DEF BlocksOf
  <1>5. BlocksOf(<<front, block>>) = {Block(block)}
    BY <1>2 DEF BlocksOf
  <1>6. BlocksOf(<<block, back>>) = {Block(block)}
    BY <1>2 DEF BlocksOf
  <1>7. BlocksOf(<<block>>) = {Block(block)}
    BY <1>2 DEF BlocksOf
  <1> QED
    BY <1>2, <1>3, <1>4, <1>5, <1>6, <1>7 DEF extra

LEMMA UsedIsBlocks == usedBlocks = BlocksOf(mList)
  BY DEF usedBlocks, BlocksOf, Block

LEMMA UsedIsBlocksNext == usedBlocks' = BlocksOf(mList')
  BY DEF usedBlocks, BlocksOf, Block

\* Two blocks in use at one address are one chunk.
LEMMA StartsDiffer ==
    ASSUME NEW from, NEW to, Tiling(mList, from, to),
           NEW i \in 1..Len(mList), NEW k \in 1..Len(mList), i # k
    PROVE  mList[i].start # mList[k].start
  <1>1. \A j \in 1..Len(mList) :
            mList[j].start \in Nat /\ End(mList[j]) \in Nat /\ mList[j].start < End(mList[j])
    <2>1. \A j \in 1..Len(mList) : mList[j] \in Chunks
      BY ElementOfSeq DEF Tiling
    <2> QED
      BY <2>1, ChunkTypes DEF End
  <1>2. i < k \/ k < i
    BY LenProperties DEF Tiling
  <1>3. End(mList[i]) <= mList[k].start \/ End(mList[k]) <= mList[i].start
    BY <1>2 DEF Tiling
  <1> QED
    BY <1>1, <1>3

LEMMA TakeStep ==
    ASSUME SizeAssumption, IInv, NEW size \in Sizes, mHeapSize # 0,
           NEW i \in Best(size),
           mList' = Splice(mList, i, i, Carve(mList[i], size)),
           result' = Ok(mList[i].start + Extra(mList[i])),
           mHeapSize' = mHeapSize
    PROVE  H!Take(size)
  <1> DEFINE c == mList[i]
             at == c.start + Extra(c)
  <1>1. Tiling(mList, 0, HeapSize) /\ Sparse(mList)
    BY IInvIsTiling
  <1>2. i \in 1..Len(mList) /\ Fits(c, size)
    BY DEF Best, Fitting
  <1>3. mList \in Seq(Chunks) /\ c \in Chunks /\ i \in i..Len(mList) /\ i..i = {i}
    BY <1>1, <1>2, ElementOfSeq DEF Tiling
  <1>4. c.free /\ c.size >= size + Extra(c) /\ size \in Nat /\ c.start \in Nat /\ c.size \in Nat
    BY <1>2, <1>3, ChunkTypes DEF Fits, SizeAssumption
  <1>5. Extra(c) \in Nat /\ Carve(c, size) \in Seq(Chunks) /\ Carve(c, size) # <<>>
    BY <1>2, <1>3, CarveTiles DEF Tiling
  <1>6. HeapSize \in Nat /\ PageSize \in Nat \ {0}
    BY DEF SizeAssumption
  <1>7. at % PageSize = 0
    <2>1. (c.start + ((-c.start) % PageSize)) % PageSize = 0
      BY <1>4, <1>6, NextMultiple
    <2>2. at = c.start + ((-c.start) % PageSize)
      BY DEF Extra
    <2> HIDE DEF at
    <2> QED
      BY ONLY <2>1, <2>2
  <1>8. c.start + c.size <= HeapSize
    BY <1>1, <1>2 DEF Tiling, End
  <1> HIDE DEF c
  <1>9. at \in 0..HeapSize /\ at + size <= HeapSize /\ c.start <= at /\ at + size <= c.start + c.size
    BY ONLY <1>4, <1>5, <1>6, <1>8 
  <1>10. ASSUME NEW block \in usedBlocks PROVE H!Disjoint(at, size, block)
    <2>1. PICK k \in 1..Len(mList) :
              ~mList[k].free /\ block = [start |-> mList[k].start, size |-> mList[k].size]
      BY <1>10 DEF usedBlocks
    <2>2. k # i
      BY <2>1, <1>4 DEF c
    <2>3. k < i \/ i < k
      BY <2>2, <1>2, <1>3, LenProperties
    <2>4. mList[k].start + mList[k].size <= c.start \/ c.start + c.size <= mList[k].start
      BY <2>3, <1>1, <1>2 DEF Tiling, End, c
    <2>5. mList[k].start \in Nat /\ mList[k].size \in Nat
      BY <1>3, ElementOfSeq, ChunkTypes
    <2>6. at \in Nat
      BY <1>9
    <2> HIDE DEF at
    <2>7. at + size <= mList[k].start \/ mList[k].start + mList[k].size <= at
      BY ONLY <2>4, <2>5, <2>6, <1>4, <1>9
    <2> QED
      BY <2>1, <2>7 DEF H!Disjoint
  <1>11. at \in H!Places(size)
    <2> HIDE DEF at
    <2> QED
      BY <1>7, <1>9, <1>10 DEF H!Places, H!Room
  <1>12. usedBlocks' = usedBlocks \cup {[start |-> at, size |-> size]}
    <2>1. BlocksOf(mList') = {Block(mList[k]) : k \in {l \in 1..Len(mList) : ~mList[l].free /\ l \notin i..i}}
                             \cup BlocksOf(Carve(c, size))
      BY <1>2, <1>3, <1>5, SpliceBlocks, SMTT(40) DEF c
    <2>2. {l \in 1..Len(mList) : ~mList[l].free /\ l \notin i..i} = {l \in 1..Len(mList) : ~mList[l].free}
      BY <1>3, <1>4 DEF c
    <2>3. BlocksOf(Carve(c, size)) = {[start |-> at, size |-> size]}
      BY CarveBlocks
    <2> QED
      BY <2>1, <2>2, <2>3, UsedIsBlocks, UsedIsBlocksNext DEF BlocksOf
  <1>13. returned' = H!Granted(at)
    BY DEF returned, H!Granted, Ok, c
  <1>14. isReady /\ isReady' = isReady
    BY DEF isReady
  <1> HIDE DEF at
  <1> QED
    BY <1>11, <1>12, <1>13, <1>14 DEF H!Take

LEMMA RefuseStep ==
    ASSUME SizeAssumption, IInv, NEW size \in Sizes, mHeapSize # 0,
           Fitting(size) = {},
           result' = Err("ENOMEM"),
           UNCHANGED <<mHeapSize, mList>>
    PROVE  H!Refuse(size)
  <1> DEFINE n == Len(mList)
  <1>1. Tiling(mList, 0, HeapSize) /\ Sparse(mList)
    BY IInvIsTiling
  <1>2. n \in Nat /\ n >= 1
    BY <1>1, EmptySeq, LenProperties DEF Tiling
  <1>3. HeapSize \in Nat /\ PageSize \in Nat \ {0} /\ size \in Nat /\ size > 0
    BY DEF SizeAssumption
  <1>4. \A k \in 1..n : /\ mList[k].start \in Nat /\ mList[k].size \in Nat /\ mList[k].size > 0
                        /\ End(mList[k]) = mList[k].start + mList[k].size
                        /\ End(mList[k]) \in Nat
    BY <1>1, ElementOfSeq, ChunkTypes DEF Tiling, End
  <1>5. /\ mList[1].start = 0 /\ End(mList[n]) = HeapSize
        /\ \A k \in 1..(n - 1) : mList[k + 1].start = End(mList[k])
    BY <1>1 DEF Tiling
  <1>6. \A k \in 1..(n - 1) : ~(mList[k].free /\ mList[k + 1].free)
    BY <1>1 DEF Sparse
  <1>7. ASSUME NEW at \in 0..HeapSize, H!Room(at, size) PROVE FALSE
    <2>1. at % PageSize = 0 /\ at + size <= HeapSize
      BY <1>7 DEF H!Room
    <2>2. ASSUME NEW k \in 1..n, ~mList[k].free
          PROVE  at + size <= mList[k].start \/ End(mList[k]) <= at
      <3>1. [start |-> mList[k].start, size |-> mList[k].size] \in usedBlocks
        BY <2>2 DEF usedBlocks
      <3>2. H!Disjoint(at, size, [start |-> mList[k].start, size |-> mList[k].size])
        BY <3>1, <1>7 DEF H!Room
      <3> QED
        BY <3>2 DEF H!Disjoint, End
    \* The chunk that holds at.
    <2> DEFINE S == {k \in 1..n : at < End(mList[k])}
    <2> HIDE DEF n
    <2>3. at \in Nat /\ at < HeapSize
      BY ONLY <2>1, <1>3, <1>7
    <2>4. S \in SUBSET Nat /\ n \in S
      BY <2>3, <1>2, <1>5
    <2>5. PICK i \in S : \A k \in S : i <= k
      BY <2>4, LeastNumber
    <2>6. i \in 1..n /\ at < End(mList[i])
      BY <2>5
    <2>7. mList[i].start <= at
      <3>1. CASE i = 1
        BY <3>1, <2>3, <1>5
      <3>2. CASE i # 1
        <4>1. i - 1 \in 1..(n - 1) /\ i - 1 \in 1..n /\ (i - 1) + 1 = i /\ ~(i <= i - 1)
          BY ONLY <3>2, <2>6, <1>2
        <4>2. i - 1 \notin S
          BY ONLY <4>1, <2>5
        <4>3. ~(at < End(mList[i - 1]))
          BY <4>1, <4>2
        <4>4. mList[i].start = End(mList[i - 1])
          BY ONLY <4>1, <1>5
        <4> QED
          BY ONLY <4>1, <4>3, <4>4, <1>4, <2>3
      <3> QED
        BY <3>1, <3>2
    <2> HIDE DEF S
    <2>8. mList[i].free
      <3>1. SUFFICES ASSUME ~mList[i].free PROVE FALSE
        OBVIOUS
      <3>2. at + size <= mList[i].start \/ End(mList[i]) <= at
        BY ONLY <3>1, <2>2, <2>6
      <3> QED
        BY ONLY <3>2, <2>3, <2>6, <2>7, <1>3, <1>4
    <2>9. at + size <= End(mList[i])
      <3>1. CASE i = n
        BY ONLY <3>1, <2>1, <1>5
      <3>2. CASE i # n
        <4>1. i \in 1..(n - 1) /\ i + 1 \in 1..n
          BY ONLY <3>2, <2>6, <1>2
        <4>2. ~mList[i + 1].free /\ mList[i + 1].start = End(mList[i])
          BY ONLY <4>1, <2>8, <1>5, <1>6
        <4>3. at + size <= mList[i + 1].start \/ End(mList[i + 1]) <= at
          BY ONLY <4>1, <4>2, <2>2
        <4> QED
          BY ONLY <4>1, <4>2, <4>3, <1>4, <2>3, <2>6
      <3> QED
        BY <3>1, <3>2
    <2>10. Extra(mList[i]) <= at - mList[i].start /\ Extra(mList[i]) \in Int
      <3> DEFINE s == mList[i].start
      <3>1. s \in Nat /\ s <= at
        BY <2>6, <2>7, <1>4
      <3> HIDE DEF s
      <3>2. (-s) % PageSize <= at - s
        <4>1. \A a \in Nat : a >= s /\ a % PageSize = 0 => (-s) % PageSize <= a - s
          BY ONLY <3>1, <1>3, NextMultiple
        <4> QED
          BY <4>1, <3>1, <2>1, <2>3
      <3>3. (-s) % PageSize \in Int
        BY ONLY <3>1, <1>3
      <3> QED
        BY <3>2, <3>3 DEF Extra, s
    <2>11. mList[i].size >= size + Extra(mList[i])
      BY ONLY <2>3, <2>6, <2>9, <2>10, <1>3, <1>4
    <2>12. i \in Fitting(size)
      BY <2>6, <2>8, <2>11 DEF Fitting, Fits, n
    <2> QED
      BY <2>12
  <1>8. H!Places(size) = {}
    BY <1>7 DEF H!Places
  <1>9. returned' = H!Refused("ENOMEM")
    BY DEF returned, Err, H!Refused
  <1>10. isReady /\ isReady' = isReady /\ usedBlocks' = usedBlocks
    BY UsedIsBlocks, UsedIsBlocksNext DEF isReady
  <1> QED
    BY <1>8, <1>9, <1>10 DEF H!Refuse

LEMMA ReturnStep ==
    ASSUME SizeAssumption, IInv, mHeapSize # 0,
           NEW i \in 1..Len(mList), ~mList[i].free,
           mList' = Splice(mList, First(i), Last(i), <<Merged(First(i), Last(i))>>),
           result' = Ok(0), mHeapSize' = mHeapSize
    PROVE  \E block \in usedBlocks : H!Return(block)
  <1> DEFINE f == First(i)
             l == Last(i)
             others == <<Merged(f, l)>>
             block == Block(mList[i])
  <1>1. Tiling(mList, 0, HeapSize) /\ Sparse(mList)
    BY IInvIsTiling
  <1>2. mList \in Seq(Chunks)
    BY <1>1 DEF Tiling
  <1>3. f \in 1..i /\ l \in i..Len(mList) /\ \A k \in f..l : k = i \/ mList[k].free
    BY <1>1, <1>2, NeighboursOfBlock
  <1> HIDE DEF f, l
  <1>4. f \in 1..Len(mList) /\ l \in f..Len(mList) /\ i \in f..l
    BY <1>2, <1>3, LenProperties
  <1>5. others \in Seq(Chunks) /\ others # <<>>
    BY <1>1, <1>4, MergedTiles DEF Tiling
  <1>6. BlocksOf(others) = {}
    BY DEF BlocksOf, Merged, Chunk
  <1>7. mList' = Splice(mList, f, l, others)
    BY DEF f, l
  <1> HIDE DEF others
  <1>8. BlocksOf(mList') =
            {Block(mList[k]) : k \in {q \in 1..Len(mList) : ~mList[q].free /\ q \notin f..l}}
    BY <1>2, <1>4, <1>5, <1>6, <1>7, SpliceBlocks
  <1>9. \A k \in 1..Len(mList) : k # i => Block(mList[k]) # block
    BY <1>1, StartsDiffer DEF Block
  <1> HIDE DEF block
  <1>10. \A q \in 1..Len(mList) : ~mList[q].free => (q \notin f..l <=> q # i)
    BY <1>3, <1>4
  <1>11. BlocksOf(mList') = BlocksOf(mList) \ {block}
    <2>1. BlocksOf(mList') =
            {Block(mList[k]) : k \in {q \in 1..Len(mList) : ~mList[q].free /\ q # i}}
      BY <1>8, <1>10
    <2>2. block = Block(mList[i])
      BY DEF block
    <2> QED
      BY <2>1, <2>2, <1>9 DEF BlocksOf
  <1>12. block \in BlocksOf(mList)
    BY DEF BlocksOf, block
  <1>13. returned' = H!Granted(0)
    BY DEF returned, Ok, H!Granted
  <1>14. isReady /\ isReady' = isReady
    BY DEF isReady
  <1> QED
    BY <1>11, <1>12, <1>13, <1>14, UsedIsBlocks, UsedIsBlocksNext DEF H!Return

LEMMA HeapStart == ASSUME Init PROVE H!Init
  BY DEF Init, H!Init, isReady, usedBlocks, returned, Err, H!Refused

LEMMA HeapStep ==
    ASSUME SizeAssumption, IInv, [Next]_vars
    PROVE  [H!Next]_(H!vars)
  <1>1. ASSUME UNCHANGED <<mHeapSize, mList>>
        PROVE  isReady' = isReady /\ usedBlocks' = usedBlocks
    BY <1>1, UsedIsBlocks, UsedIsBlocksNext DEF isReady
  <1>2. CASE UNCHANGED vars
    BY <1>1, <1>2 DEF vars, H!vars, returned
  <1>3. ASSUME UNCHANGED <<mHeapSize, mList>>, result' = Err("EINVAL") \/ result' = Err("ENOENT")
        PROVE  H!Reject
    BY <1>1, <1>3 DEF H!Reject, returned, Err, H!Refused
  <1>4. CASE SetSize
    <2>1. CASE mHeapSize # 0
      BY <2>1, <1>3, <1>4 DEF SetSize, H!Next
    <2>2. CASE mHeapSize = 0
      <3>1. mList = <<>>
        BY <2>2 DEF IInv
      <3>2. mHeapSize' # 0 /\ mList' = <<Chunk(0, HeapSize, TRUE)>> /\ result' = Err("none")
        BY <2>2, <1>4 DEF SetSize, SizeAssumption
      <3>3. BlocksOf(mList) = {} /\ BlocksOf(mList') = {}
        BY <3>1, <3>2 DEF BlocksOf, Chunk
      <3>4. ~isReady /\ isReady' = TRUE /\ returned' = H!Refused("none")
        BY <2>2, <3>2 DEF isReady, returned, Err, H!Refused
      <3>5. H!Prepare
        BY <3>3, <3>4, UsedIsBlocks, UsedIsBlocksNext DEF H!Prepare
      <3> QED
        BY <3>5 DEF H!Next
    <2> QED
      BY <2>1, <2>2
  <1>5. ASSUME NEW size \in Sizes, Allocate(size) PROVE H!Next
    BY <1>3, <1>5, TakeStep, RefuseStep DEF Allocate, H!Next
  <1>6. ASSUME NEW at, Deallocate(at) PROVE H!Next
    BY <1>3, <1>6, ReturnStep DEF Deallocate, H!Next
  <1> QED
    BY <1>2, <1>4, <1>5, <1>6 DEF Next

\* What open_l and openPcmOut_l pack, pcm_open takes apart.
LEMMA Unpacked ==
    ASSUME Transfer!OpensAssumption, NEW o \in Opens
    PROVE  /\ Transfer!period_sz(Transfer!Packed(o)) = 128 * o.mult
           /\ Transfer!period_cnt(Transfer!Packed(o)) = o.cnt
           /\ o.mult \in Nat /\ o.cnt \in Nat
  <1>1. o \in [in : BOOLEAN, mono : BOOLEAN, mult : 1..16, cnt : 2..17]
    BY DEF Transfer!OpensAssumption
  <1>2. o.mult \in 1..16 /\ o.cnt \in 2..17
    BY ONLY <1>1
  <1>3. (o.mult - 1) % 16 = o.mult - 1 /\ (o.cnt - 2) % 16 = o.cnt - 2
    BY ONLY <1>2
  <1> QED
    BY ONLY <1>2, <1>3 DEF Transfer!period_sz, Transfer!period_cnt, Transfer!Packed,
       Transfer!PCM_PERIOD_SZ_MIN, Transfer!PCM_PERIOD_CNT_MIN

LEMMA TransferStart == ASSUME Transfer!Init PROVE Transfer!IInv
  <1>1. Transfer!Types
    BY Zenon DEF Transfer!Init, Transfer!Types, Transfer!NoFd
  <1> QED
    BY <1>1 DEF Transfer!Init, Transfer!IInv, Transfer!UnderWay, Transfer!PreparedWhenUsed,
         Transfer!MovedOnce, Transfer!GeometryKept, Transfer!NoFd

LEMMA TransferStep ==
    ASSUME Transfer!OpensAssumption, Transfer!IInv, [Transfer!Next]_(Transfer!vars)
    PROVE  Transfer!IInv'
  <1> USE DEF Transfer!IInv, Transfer!Types, Transfer!UnderWay, Transfer!PreparedWhenUsed,
              Transfer!MovedOnce, Transfer!GeometryKept, Transfer!NoFd, Transfer!pcmVars, Transfer!Return
  <1>1. CASE Transfer!OpenSucceeds
    <2>1. s10'.period_min = 128 * s1.mult /\ s10'.periods = s1.cnt
      BY <1>1, Unpacked DEF Transfer!OpenSucceeds, Transfer!HwParams
    <2>2. s6' = s10'.period_min * s10'.periods
      <3>1. s6' = s1.cnt * (128 * s1.mult) /\ s1.cnt \in Nat /\ s1.mult \in Nat
        BY <1>1, Unpacked DEF Transfer!OpenSucceeds
      <3> QED
        BY <3>1, <2>1
    <2> QED
      BY <1>1, <2>1, <2>2 DEF Transfer!OpenSucceeds, Transfer!PCM_PERIOD_SZ_MIN
  <1>2. CASE Transfer!OpenFails
    BY <1>2 DEF Transfer!OpenFails
  <1>3. CASE Transfer!PcmClose
    BY <1>3 DEF Transfer!PcmClose
  <1>4. CASE Transfer!Transfer
    BY <1>4 DEF Transfer!Transfer
  <1>5. CASE Transfer!Prepare
    BY <1>5 DEF Transfer!Prepare
  <1>6. CASE Transfer!FirstWrite
    <2> USE <1>6 DEF Transfer!FirstWrite, Transfer!Taken
    <2>1. s11' \in Nat /\ (s7' = "none" => s11' = IF s8' = "ok" THEN 1 ELSE 0)
      OBVIOUS
    <2>2. s4' \in BOOLEAN /\ (s4' => s9' \in {"prepared", "running", "xrun"})
      OBVIOUS
    <2>3. s7' = "none" /\ s8' \in {"ok", "error"} /\ s9' \in {"closed", "setup", "prepared", "running", "xrun"} /\ (s9' = "closed" <=> s9 = "closed")
      OBVIOUS
    <2> QED
      BY <2>1, <2>2, <2>3
  <1>7. CASE Transfer!Start
    BY <1>7 DEF Transfer!Start
  <1>8. CASE Transfer!Move
    <2> USE <1>8 DEF Transfer!Move, Transfer!Taken
    <2>1. s11' \in Nat /\ (s7' = "none" => s11' = IF s8' = "ok" THEN 1 ELSE 0)
      OBVIOUS
    <2>2. s4' \in BOOLEAN /\ (s4' => s9' \in {"prepared", "running", "xrun"})
      OBVIOUS
    <2>3. s8' \in {"none", "ok", "error"} /\ s9' \in {"closed", "setup", "prepared", "running", "xrun"} /\ (s9' = "closed" <=> s9 = "closed")
      OBVIOUS
    <2>4. s7' \in {"none", "prepare"} /\ (s7' # "none" => s8' = "none" /\ s11' = 0)
      OBVIOUS
    <2> QED
      BY <2>1, <2>2, <2>3, <2>4
  <1>9. CASE Transfer!Underrun
    BY <1>9 DEF Transfer!Underrun
  <1>10. CASE UNCHANGED Transfer!vars
    BY <1>10 DEF Transfer!vars
  <1> QED
    BY <1>1, <1>2, <1>3, <1>4, <1>5, <1>6, <1>7, <1>8, <1>9, <1>10 DEF Transfer!Next

-----------------------------------------------------------------------------
(* The capture path (DownSampler): counts of samples.                        *)

\* What a filter keeps of m samples, some of which it kept from before, is what it
\* would keep of all of them; it needs two samples for one.
HalvesOn(n, k, m) ==
    /\ Capture!Halved(n) \in Nat /\ 2 * Capture!Halved(n) <= n /\ m \in Nat
    /\ Capture!resample_2_1(m).left = n + k - 2 * Capture!Halved(n + k)
    /\ Capture!resample_2_1(m).left \in 0..19
    /\ Capture!resample_2_1(m).made \in Nat
    /\ Capture!Halved(n + k) = Capture!Halved(n) + Capture!resample_2_1(m).made
    /\ Capture!resample_2_1(m).made = 0 \/ 2 * Capture!resample_2_1(m).made + 18 <= m

LEMMA HalvedStep ==
    ASSUME NEW n \in Nat, NEW k \in Nat, NEW m, m = n - 2 * Capture!Halved(n) + k
    PROVE  HalvesOn(n, k, m)
  <1> DEFINE h == Capture!Halved(n)
             g == Capture!Halved(n + k)
             l == Capture!resample_2_1(m).left
             d == Capture!resample_2_1(m).made
  <1>1. h = IF n < 20 THEN 0 ELSE (n - 18) \div 2
    BY DEF Capture!Halved, Capture!NUM_COEFF_22KHZ, Capture!OVERLAP_22KHZ
  <1>2. g = IF n + k < 20 THEN 0 ELSE (n + k - 18) \div 2
    BY DEF Capture!Halved, Capture!NUM_COEFF_22KHZ, Capture!OVERLAP_22KHZ
  <1>3. /\ l = (IF m < 20 THEN m ELSE 18 + (m % 2))
        /\ d = (IF m < 20 THEN 0 ELSE (m - (m % 2) - 18) \div 2)
    BY DEF Capture!resample_2_1, Capture!NUM_COEFF_22KHZ, Capture!OVERLAP_22KHZ
  <1> HIDE DEF h, g, l, d
  <1>4. m = n - 2 * h + k
    BY DEF h
  <1>5. h \in Nat /\ 2 * h <= n /\ m \in Nat /\ (n >= 18 => n - 2 * h \in {18, 19}) /\ (n < 18 => h = 0)
    BY <1>1, <1>4
  <1>6. g \in Nat /\ (n + k >= 18 => n + k - 2 * g \in {18, 19}) /\ (n + k < 18 => g = 0)
    BY <1>2
  <1>7. /\ l \in 0..19 /\ d \in Nat /\ l + 2 * d = m /\ (m >= 18 => l \in {18, 19})
        /\ (m < 18 => d = 0) /\ (d = 0 \/ 2 * d + 18 <= m)
    BY <1>3, <1>5
  <1>8. g = h + d
    BY <1>4, <1>5, <1>6, <1>7
  <1>9. l = n + k - 2 * g
    BY ONLY <1>4, <1>5, <1>7, <1>8, n \in Nat, k \in Nat
  <1> QED
    BY <1>5, <1>7, <1>8, <1>9 DEF h, g, l, d, HalvesOn

BlocksOn(n, k, m, s) ==
    /\ m \in Nat /\ m <= k + 463
    /\ Capture!resample_441_320(m).left = s - 441 * Capture!Blocks(s)
    /\ Capture!resample_441_320(m).left \in Nat
    /\ Capture!resample_441_320(m).made \in Nat
    /\ Capture!resample_441_320(m).made <= m
    /\ Capture!To320(s) = Capture!To320(n) + Capture!resample_441_320(m).made

\* What remains of a number after whole blocks beyond the overlap.
LEMMA WholeBlocks ==
    ASSUME NEW m \in Nat, m >= 23, NEW e, e = (m - 23) \div 441
    PROVE  e \in Nat /\ m - 441 * e \in 23..463
  <1> DEFINE p == m - 23
             r == p % 441
  <1>1. p \in Nat
    OBVIOUS
  <1>2. r \in 0..440 /\ p = 441 * (p \div 441) + r /\ p \div 441 \in Int
    BY <1>1
  <1> HIDE DEF r
  <1>3. e \in Int /\ p = 441 * e + r
    BY <1>2
  <1>4. e \in Nat
    BY ONLY <1>1, <1>2, <1>3
  <1>5. m - 441 * e \in 23..463
    BY ONLY <1>2, <1>3, m \in Nat DEF p
  <1> QED
    BY <1>4, <1>5

LEMMA BlocksStep ==
    ASSUME NEW n \in Nat, NEW k \in Nat, NEW s, s = n + k, s >= 23, NEW m, m = n - 441 * Capture!Blocks(n) + k
    PROVE  BlocksOn(n, k, m, s)
  <1> DEFINE b == Capture!Blocks(n)
             c == Capture!Blocks(s)
             e == (m - 23) \div 441
             l == Capture!resample_441_320(m).left
             d == Capture!resample_441_320(m).made
  <1>1. b = IF n < 23 THEN 0 ELSE (n - 23) \div 441
    BY DEF Capture!Blocks, Capture!OVERLAP_16KHZ
  <1>2. c = (s - 23) \div 441
    BY DEF Capture!Blocks, Capture!OVERLAP_16KHZ
  <1>0. s \in Nat
    OBVIOUS
  <1> HIDE DEF b, c, l, d
  <1>4. m = n - 441 * b + k
    BY DEF b
  <1>5. b \in Nat /\ 441 * b <= n /\ m \in Nat /\ m >= 23 /\ (n >= 23 => n - 441 * b \in 23..463)
        /\ (n < 23 => b = 0)
    BY <1>1, <1>4
  <1>6. c \in Nat /\ s - 441 * c \in 23..463
    BY ONLY <1>2, <1>0, s >= 23, WholeBlocks
  <1>7. e \in Nat /\ m - 441 * e \in 23..463
    <2>1. m \in Nat /\ m >= 23
      BY <1>5
    <2>2. e = (m - 23) \div 441
      OBVIOUS
    <2> HIDE DEF e
    <2> QED
      BY ONLY <2>1, <2>2, WholeBlocks
  <1>3. l = m - 441 * e /\ d = 320 * e
    BY <1>5 DEF Capture!resample_441_320, Capture!OVERLAP_16KHZ, l, d
  <1> HIDE DEF e
  <1>8. c = b + e
    BY <1>4, <1>5, <1>6, <1>7
  <1>9. l = s - 441 * c /\ l \in Nat /\ d \in Nat /\ d <= m /\ m <= k + 463
    BY <1>3, <1>4, <1>5, <1>6, <1>7, <1>8, SMTT(40)
  <1>10. Capture!To320(s) = 320 * c /\ Capture!To320(n) = 320 * b
    BY DEF Capture!To320, b, c
  <1>11. 320 * c = 320 * b + d
    BY <1>3, <1>5, <1>7, <1>8
  <1> QED
    BY <1>5, <1>9, <1>10, <1>11 DEF b, c, l, d, BlocksOn

\* getInputSampleRate ends at the rate that is nearest.
LEMMA RateIsNearest ==
    ASSUME NEW want \in Nat
    PROVE  /\ Capture!InputSampleRate(want) \in Capture!inputSamplingRates
           /\ \A q \in Capture!inputSamplingRates :
                  Capture!Gap(want, Capture!InputSampleRate(want)) <= Capture!Gap(want, q)
  <1> DEFINE G(q) == Capture!Gap(want, q)
             S == Capture!inputSamplingRates
             N == Capture!NextRate
             Ends(r) == /\ \A q \in S : q < r => G(N[q]) <= G(q)
                        /\ r = 44100 \/ G(N[r]) > G(r)
  <1>1. S = {8000, 11025, 16000, 22050, 44100}
    BY DEF Capture!inputSamplingRates
  <1>2. N[8000] = 11025 /\ N[11025] = 16000 /\ N[16000] = 22050 /\ N[22050] = 44100
    BY <1>1 DEF Capture!NextRate
  <1>3. \A q \in Nat : G(q) = IF want < q THEN q - want ELSE want - q
    BY DEF Capture!Gap
  <1>4. Capture!InputSampleRate(want) = CHOOSE r \in S : Ends(r)
    BY DEF Capture!InputSampleRate
  <1> HIDE DEF G, S, N
  <1>5. /\ Ends(8000) <=> G(11025) > G(8000)
        /\ Ends(11025) <=> G(11025) <= G(8000) /\ G(16000) > G(11025)
        /\ Ends(16000) <=> G(11025) <= G(8000) /\ G(16000) <= G(11025) /\ G(22050) > G(16000)
        /\ Ends(22050) <=> G(11025) <= G(8000) /\ G(16000) <= G(11025) /\ G(22050) <= G(16000)
                           /\ G(44100) > G(22050)
        /\ Ends(44100) <=> G(11025) <= G(8000) /\ G(16000) <= G(11025) /\ G(22050) <= G(16000)
                           /\ G(44100) <= G(22050)
    <2>1. Ends(8000) <=> G(11025) > G(8000)
      BY <1>1, <1>2
    <2>2. Ends(11025) <=> G(11025) <= G(8000) /\ G(16000) > G(11025)
      BY <1>1, <1>2
    <2>3. Ends(16000) <=> G(11025) <= G(8000) /\ G(16000) <= G(11025) /\ G(22050) > G(16000)
      BY <1>1, <1>2
    <2>4. Ends(22050) <=> G(11025) <= G(8000) /\ G(16000) <= G(11025) /\ G(22050) <= G(16000)
                           /\ G(44100) > G(22050)
      BY <1>1, <1>2
    <2>5. Ends(44100) <=> G(11025) <= G(8000) /\ G(16000) <= G(11025) /\ G(22050) <= G(16000)
                           /\ G(44100) <= G(22050)
      BY <1>1, <1>2
    <2> QED
      BY <2>1, <2>2, <2>3, <2>4, <2>5
  <1>6. /\ G(8000) = IF want < 8000 THEN 8000 - want ELSE want - 8000
        /\ G(11025) = IF want < 11025 THEN 11025 - want ELSE want - 11025
        /\ G(16000) = IF want < 16000 THEN 16000 - want ELSE want - 16000
        /\ G(22050) = IF want < 22050 THEN 22050 - want ELSE want - 22050
        /\ G(44100) = IF want < 44100 THEN 44100 - want ELSE want - 44100
    BY <1>3
  <1> HIDE DEF Ends
  <1>7. Ends(8000) \/ Ends(11025) \/ Ends(16000) \/ Ends(22050) \/ Ends(44100)
    BY ONLY <1>5, <1>6, want \in Nat
  <1>8. PICK r \in S : r = Capture!InputSampleRate(want) /\ Ends(r)
    <2>1. \E r \in S : Ends(r)
      BY <1>1, <1>7
    <2> QED
      BY <1>4, <2>1
  <1>9. G(r) <= G(8000) /\ G(r) <= G(11025) /\ G(r) <= G(16000) /\ G(r) <= G(22050) /\ G(r) <= G(44100)
    <2>1. CASE r = 8000
      BY ONLY <1>5, <1>6, <1>8, <2>1, want \in Nat
    <2>2. CASE r = 11025
      BY ONLY <1>5, <1>6, <1>8, <2>2, want \in Nat
    <2>3. CASE r = 16000
      BY ONLY <1>5, <1>6, <1>8, <2>3, want \in Nat
    <2>4. CASE r = 22050
      BY ONLY <1>5, <1>6, <1>8, <2>4, want \in Nat
    <2>5. CASE r = 44100
      BY ONLY <1>5, <1>6, <1>8, <2>5, want \in Nat
    <2> QED
      BY <1>1, <1>8, <2>1, <2>2, <2>3, <2>4, <2>5
  <1>10. \A q \in S : G(r) <= G(q)
    BY <1>1, <1>9
  <1> QED
    BY <1>8, <1>10 DEF G, S

LEMMA RoundFields ==
    ASSUME NEW l \in Nat, NEW t \in Nat, NEW t2 \in Nat, NEW x1 \in Nat, NEW x2 \in Nat,
           NEW x \in Nat, NEW m
    PROVE  LET r == [in |-> [in |-> l, tmp |-> t, tmp2 |-> t2],
                     extent |-> [tmp |-> x1, tmp2 |-> x2, out |-> x], made |-> m]
           IN  /\ r.in \in [in : Nat, tmp : Nat, tmp2 : Nat]
               /\ r.extent \in [tmp : Nat, tmp2 : Nat, out : Nat]
               /\ r.in.in = l /\ r.in.tmp = t /\ r.in.tmp2 = t2
               /\ r.extent.tmp = x1 /\ r.extent.tmp2 = x2 /\ r.extent.out = x /\ r.made = m
  OBVIOUS

LEMMA HalvedKeeps == \A n \in Nat : n - 2 * Capture!Halved(n) \in 0..19
  BY DEF Capture!Halved, Capture!NUM_COEFF_22KHZ, Capture!OVERLAP_22KHZ

\* One round of the filters, of samples that fit into the first buffer.
LEMMA FilterRound ==
    ASSUME Capture!PeriodAssumption, s1 \in {8000, 11025, 16000, 22050}, s11 \in Nat,
           s5 \in [in : Nat, tmp : Nat, tmp2 : Nat], Capture!Kept,
           NEW k \in Nat, s5.in + k <= Period, s11 + k >= Period
    PROVE  LET r   == Capture!Round(s5.in + k)
               one == Capture!Halved(s11 + k)
               two == Capture!Halved(one)
           IN  /\ r.in \in [in : Nat, tmp : Nat, tmp2 : Nat]
               /\ r.extent \in [tmp : Nat, tmp2 : Nat, out : Nat]
               /\ r.made \in Nat
               /\ r.extent.tmp <= Period /\ r.extent.tmp2 <= Period /\ r.extent.out <= Period
               /\ r.in.in < Period
               /\ r.in.in = s11 + k - 2 * one
               /\ s1 \in {11025, 8000} => r.in.tmp = one - 2 * two
               /\ s1 = 16000 => r.in.tmp = one - 441 * Capture!Blocks(one)
               /\ s1 = 8000 => r.in.tmp2 = two - 441 * Capture!Blocks(two)
               /\ s1 = 22050 => r.in.tmp = 0
               /\ s1 = 11025 => r.in.tmp2 = 0
               /\ Capture!Ideal(s11 + k) = Capture!Ideal(s11) + r.made
  <1> DEFINE n == s5.in + k
             r == Capture!Round(n)
             h1 == Capture!Halved(s11)
             h2 == Capture!Halved(h1)
             g1 == Capture!Halved(s11 + k)
             g2 == Capture!Halved(g1)
             one == Capture!resample_2_1(n)
             l1 == one.left
             d1 == one.made
             tmp == s5.tmp + d1
             two == Capture!resample_2_1(tmp)
             l2 == two.left
             d2 == two.made
             tmp2 == s5.tmp2 + d2
             at16 == Capture!resample_441_320(tmp)
             at8 == Capture!resample_441_320(tmp2)
  <1>1. /\ s5.in = s11 - 2 * h1
        /\ s1 \in {11025, 8000} => s5.tmp = h1 - 2 * h2
        /\ s1 = 16000 => s5.tmp = h1 - 441 * Capture!Blocks(h1)
        /\ s1 = 8000 => s5.tmp2 = h2 - 441 * Capture!Blocks(h2)
        /\ s1 = 22050 => s5.tmp = 0
        /\ s1 = 11025 => s5.tmp2 = 0
    BY DEF Capture!Kept
  <1>2. s5.in \in Nat /\ s5.tmp \in Nat /\ s5.tmp2 \in Nat /\ Period \in Nat /\ Period > 906
    BY DEF Capture!PeriodAssumption
  <1>3. n = s11 - 2 * h1 + k
    BY <1>1
  <1>4. /\ h1 \in Nat /\ n \in Nat /\ l1 = s11 + k - 2 * g1 /\ l1 \in 0..19 /\ d1 \in Nat
        /\ g1 = h1 + d1 /\ (d1 = 0 \/ 2 * d1 + 18 <= n)
    <2>1. HalvesOn(s11, k, n)
      BY ONLY <1>3, s11 \in Nat, k \in Nat, HalvedStep
    <2> QED
      BY <2>1 DEF HalvesOn
  <1>5. g1 >= 444 /\ g1 \in Nat
    BY <1>2, <1>4
  <1>6. d1 <= Period /\ 2 * d1 + 18 <= Period
    BY <1>2, <1>4
  <1>7. ASSUME s1 \in {11025, 8000}
        PROVE  /\ tmp = h1 - 2 * h2 + d1 /\ h2 \in Nat /\ tmp \in Nat /\ l2 = g1 - 2 * g2 /\ l2 \in 0..19
               /\ d2 \in Nat /\ g2 = h2 + d2
               /\ tmp <= Period /\ 2 * d2 + 18 <= Period /\ g2 >= 212 /\ g2 \in Nat
    <2>1. tmp = h1 - 2 * h2 + d1
      BY <1>1, <1>7
    <2>2. HalvesOn(h1, d1, tmp)
      BY <1>4, <2>1, HalvedStep
    <2>3. /\ l2 = g1 - 2 * g2 /\ g2 = h2 + d2 /\ h2 \in Nat /\ tmp \in Nat /\ l2 \in 0..19
          /\ d2 \in Nat /\ (d2 = 0 \/ 2 * d2 + 18 <= tmp)
      BY <1>4, <2>2 DEF HalvesOn
    <2>4. s5.tmp \in 0..19
      BY <1>1, <1>4, <1>7, HalvedKeeps
    <2>5. tmp <= Period /\ 2 * d2 + 18 <= Period
      <3>1. tmp <= 19 + d1
        BY <1>4, <2>4
      <3> HIDE DEF tmp, d2
      <3> QED
        BY ONLY <1>2, <1>4, <1>6, <2>3, <3>1
    <2>6. g2 >= 212 /\ g2 \in Nat
      BY <1>5, <2>3
    <2> QED
      BY <1>2, <1>4, <1>6, <2>1, <2>3, <2>5, <2>6
  <1> HIDE DEF n, h1, h2, g1, g2, l1, d1, tmp, l2, d2
  <1>8. l1 < Period /\ 0 <= Period
    BY <1>2, <1>4
  <1>9. CASE s1 = 22050
    <2> DEFINE q == [in |-> [in |-> l1, tmp |-> 0, tmp2 |-> s5.tmp2],
                     extent |-> [tmp |-> tmp, tmp2 |-> 0, out |-> 0], made |-> d1]
    <2>1. r = q
      BY <1>9 DEF Capture!Round, n, l1, d1, tmp
    <2>2. Capture!Ideal(s11 + k) = g1 /\ Capture!Ideal(s11) = h1
      BY <1>9 DEF Capture!Ideal, g1, h1
    <2>3. /\ q.in \in [in : Nat, tmp : Nat, tmp2 : Nat]
          /\ q.extent \in [tmp : Nat, tmp2 : Nat, out : Nat]
          /\ q.in.in = l1 /\ q.in.tmp = 0 /\ q.in.tmp2 = s5.tmp2
          /\ q.extent.tmp = tmp /\ q.extent.tmp2 = 0 /\ q.extent.out = 0 /\ q.made = d1
      BY <1>1, <1>2, <1>4, <1>9, RoundFields DEF tmp
    <2> HIDE DEF r, q
    <2>4. tmp <= Period
      BY <1>1, <1>4, <1>6, <1>9 DEF tmp
    <2>5. /\ r.in \in [in : Nat, tmp : Nat, tmp2 : Nat]
          /\ r.extent \in [tmp : Nat, tmp2 : Nat, out : Nat] /\ r.made \in Nat
      BY <1>4, <2>1, <2>3
    <2>6. /\ r.extent.tmp <= Period /\ r.extent.tmp2 <= Period /\ r.extent.out <= Period
          /\ r.in.in < Period /\ r.in.in = s11 + k - 2 * g1 /\ r.in.tmp = 0
      BY <1>4, <1>8, <2>1, <2>3, <2>4
    <2>7. Capture!Ideal(s11 + k) = Capture!Ideal(s11) + r.made
      BY <1>4, <2>1, <2>2, <2>3
    <2> QED
      BY <1>9, <2>5, <2>6, <2>7 DEF r, g1, n
  <1>10. CASE s1 = 11025
    <2> DEFINE q == [in |-> [in |-> l1, tmp |-> l2, tmp2 |-> 0],
                     extent |-> [tmp |-> tmp, tmp2 |-> tmp2, out |-> 0], made |-> d2]
    <2>1. r = q
      BY <1>10 DEF Capture!Round, n, l1, d1, tmp, l2, d2
    <2>2. Capture!Ideal(s11 + k) = g2 /\ Capture!Ideal(s11) = h2
      BY <1>10 DEF Capture!Ideal, g1, h1, g2, h2
    <2>7. /\ h2 \in Nat /\ tmp \in Nat /\ l2 = g1 - 2 * g2 /\ l2 \in 0..19 /\ d2 \in Nat
          /\ g2 = h2 + d2 /\ tmp <= Period /\ 2 * d2 + 18 <= Period /\ g2 >= 212 /\ g2 \in Nat
      BY <1>7, <1>10
    <2>5. tmp2 = d2 /\ d2 <= Period
      BY <1>1, <1>2, <2>7, <1>10
    <2> HIDE DEF tmp2
    <2>3. /\ q.in \in [in : Nat, tmp : Nat, tmp2 : Nat]
          /\ q.extent \in [tmp : Nat, tmp2 : Nat, out : Nat]
          /\ q.in.in = l1 /\ q.in.tmp = l2 /\ q.in.tmp2 = 0
          /\ q.extent.tmp = tmp /\ q.extent.tmp2 = tmp2 /\ q.extent.out = 0 /\ q.made = d2
      <3>1. l1 \in Nat /\ l2 \in Nat /\ 0 \in Nat /\ tmp \in Nat /\ tmp2 \in Nat
        BY <1>4, <2>5, <2>7
      <3> QED
        BY ONLY <3>1, RoundFields
    <2> HIDE DEF r, q
    <2> QED
      BY <1>4, <1>7, <1>8, <1>10, <2>1, <2>2, <2>3, <2>5 DEF r, g1, g2, n
  <1>11. CASE s1 = 8000
    <2> DEFINE x == at8.made
               t2 == at8.left
    <2> DEFINE q == [in |-> [in |-> l1, tmp |-> l2, tmp2 |-> t2],
                     extent |-> [tmp |-> tmp, tmp2 |-> tmp2, out |-> x], made |-> x]
    <2>1. r = q
      BY <1>11 DEF Capture!Round, n, l1, d1, tmp, l2, d2
    <2>2. Capture!Ideal(s11 + k) = Capture!To320(g2) /\ Capture!Ideal(s11) = Capture!To320(h2)
      BY <1>11 DEF Capture!Ideal, g1, h1, g2, h2
    <2>7. /\ h2 \in Nat /\ tmp \in Nat /\ l2 = g1 - 2 * g2 /\ l2 \in 0..19 /\ d2 \in Nat
          /\ g2 = h2 + d2 /\ tmp <= Period /\ 2 * d2 + 18 <= Period /\ g2 >= 212 /\ g2 \in Nat
      BY <1>7, <1>11
    <2>4. BlocksOn(h2, d2, tmp2, g2)
      <3>1. h2 \in Nat /\ d2 \in Nat /\ g2 = h2 + d2 /\ g2 >= 23 /\ tmp2 = h2 - 441 * Capture!Blocks(h2) + d2
        BY <1>1, <1>11, <2>7
      <3> HIDE DEF tmp2
      <3> QED
        BY ONLY <3>1, BlocksStep
    <2> HIDE DEF tmp2
    <2>5. /\ t2 = g2 - 441 * Capture!Blocks(g2) /\ t2 \in Nat /\ x \in Nat /\ x <= tmp2
          /\ tmp2 \in Nat /\ tmp2 <= d2 + 463 /\ Capture!To320(g2) = Capture!To320(h2) + x
      BY ONLY <2>4, <2>7 DEF BlocksOn
    <2> HIDE DEF x, t2
    <2>6. tmp2 <= Period /\ x <= Period
      BY ONLY <1>2, <2>5, <2>7
    <2>3. /\ q.in \in [in : Nat, tmp : Nat, tmp2 : Nat]
          /\ q.extent \in [tmp : Nat, tmp2 : Nat, out : Nat]
          /\ q.in.in = l1 /\ q.in.tmp = l2 /\ q.in.tmp2 = t2
          /\ q.extent.tmp = tmp /\ q.extent.tmp2 = tmp2 /\ q.extent.out = x /\ q.made = x
      <3>1. l1 \in Nat /\ l2 \in Nat /\ t2 \in Nat /\ tmp \in Nat /\ tmp2 \in Nat /\ x \in Nat
        BY <1>4, <2>5, <2>7
      <3> QED
        BY ONLY <3>1, RoundFields
    <2> HIDE DEF r, q
    <2> QED
      BY <1>4, <1>7, <1>8, <1>11, <2>1, <2>2, <2>3, <2>5, <2>6 DEF r, g1, g2, n
  <1>12. CASE s1 = 16000
    <2> DEFINE x == at16.made
               t == at16.left
    <2> DEFINE q == [in |-> [in |-> l1, tmp |-> t, tmp2 |-> s5.tmp2],
                     extent |-> [tmp |-> tmp, tmp2 |-> x, out |-> 0], made |-> x]
    <2>1. r = q
      BY <1>12 DEF Capture!Round, n, l1, d1, tmp
    <2>2. Capture!Ideal(s11 + k) = Capture!To320(g1) /\ Capture!Ideal(s11) = Capture!To320(h1)
      BY <1>12 DEF Capture!Ideal, g1, h1
    <2>4. BlocksOn(h1, d1, tmp, g1)
      <3>1. h1 \in Nat /\ d1 \in Nat /\ g1 = h1 + d1 /\ g1 >= 23 /\ tmp = h1 - 441 * Capture!Blocks(h1) + d1
        BY <1>1, <1>4, <1>5, <1>12 DEF tmp
      <3> QED
        BY ONLY <3>1, BlocksStep
    <2>5. /\ t = g1 - 441 * Capture!Blocks(g1) /\ t \in Nat /\ x \in Nat /\ x <= tmp
          /\ tmp \in Nat /\ tmp <= d1 + 463 /\ Capture!To320(g1) = Capture!To320(h1) + x
      BY ONLY <1>4, <1>5, <2>4 DEF BlocksOn
    <2> HIDE DEF x, t
    <2>6. tmp <= Period /\ x <= Period
      BY ONLY <1>2, <1>4, <1>6, <2>5
    <2>3. /\ q.in \in [in : Nat, tmp : Nat, tmp2 : Nat]
          /\ q.extent \in [tmp : Nat, tmp2 : Nat, out : Nat]
          /\ q.in.in = l1 /\ q.in.tmp = t /\ q.in.tmp2 = s5.tmp2
          /\ q.extent.tmp = tmp /\ q.extent.tmp2 = x /\ q.extent.out = 0 /\ q.made = x
      BY <1>2, <1>4, <2>5, RoundFields
    <2> HIDE DEF r, q
    <2> QED
      BY <1>4, <1>8, <1>12, <2>1, <2>2, <2>3, <2>5, <2>6 DEF r, g1, n
  <1> QED
    BY <1>9, <1>10, <1>11, <1>12

LEMMA CaptureStart == ASSUME Capture!PeriodAssumption, Capture!RatesAssumption, Capture!Init PROVE Capture!IInv
  <1>1. PICK want \in Rates : s1 = Capture!InputSampleRate(want)
    BY DEF Capture!Init
  <1>2. s1 \in Capture!inputSamplingRates
    BY <1>1, RateIsNearest DEF Capture!RatesAssumption
  <1>3. Capture!Typed
    BY <1>2 DEF Capture!Init, Capture!Typed, Capture!Nothing, Capture!HasDownSampler
  <1>4. Capture!BuffersHold
    BY DEF Capture!Init, Capture!BuffersHold, Capture!Nothing, Capture!PeriodAssumption
  <1> QED
    BY <1>3, <1>4 DEF Capture!Init, Capture!IInv

LEMMA RatesNearest == ASSUME Capture!RatesAssumption PROVE Capture!NearestRate
  BY RateIsNearest DEF Capture!NearestRate, Capture!RatesAssumption

LEMMA ResampleStep ==
    ASSUME Capture!PeriodAssumption, Capture!IInv, Capture!Resample PROVE Capture!IInv'
  <1> DEFINE p == IF s4 = 0 THEN Period ELSE s4
             k == Capture!Available(Period - s5.in)
             r == Capture!Round(s5.in + k)
             given == Capture!Least(s8, r.made)
             one == Capture!Halved(s11 + k)
             two == Capture!Halved(one)
  <1>1. /\ s3 = "pull" /\ s1 # 44100 /\ UNCHANGED <<s1, s2>>
        /\ s10' = IF s4 = 0 THEN s10 + Period ELSE s10
        /\ s4' = p - k /\ s11' = s11 + k
        /\ s5' = r.in /\ s9' = r.extent
        /\ s13' = s13 + s6 + s7 /\ s6' = given /\ s7' = r.made - given
        /\ s12' = s12 + given /\ s8' = s8 - given
        /\ s3' = IF s8 = given THEN "idle" ELSE "pull"
    BY DEF Capture!Resample, Capture!Take, Capture!HasDownSampler, Capture!clientVars
  <1>2. /\ Capture!Typed /\ Capture!Kept /\ (s11 >= Period \/ (s11 = 0 /\ s4 = 0)) /\ s7 = 0
        /\ s10 = s11 + s4 /\ s12 + s7 = Capture!Ideal(s11) /\ s12 = s13 + s6
    BY <1>1 DEF Capture!IInv, Capture!Recording, Capture!HasDownSampler, Capture!CaptureIsContinuous
  <1>3. /\ s1 \in Capture!inputSamplingRates /\ s2 \in {1, 2} /\ s5 \in [in : Nat, tmp : Nat, tmp2 : Nat]
        /\ s4 \in Nat /\ s6 \in Nat /\ s7 \in Nat /\ s8 \in Nat /\ s10 \in Nat /\ s11 \in Nat
        /\ s12 \in Nat /\ s13 \in Nat /\ Period \in Nat /\ Period > 906
    BY <1>2 DEF Capture!Typed, Capture!PeriodAssumption
  <1>4. s1 \in {8000, 11025, 16000, 22050}
    BY <1>1, <1>3 DEF Capture!inputSamplingRates
  <1>5. s5.in \in Nat /\ s5.in = s11 - 2 * Capture!Halved(s11) /\ s5.in \in 0..19
    BY <1>2, <1>3, HalvedKeeps DEF Capture!Kept
  <1>6. k \in Nat /\ s5.in + k <= Period /\ k <= p /\ p \in Nat /\ (k = p \/ s5.in + k = Period)
    BY <1>3, <1>5 DEF Capture!Available, Capture!Least
  <1>7. s11 + k >= Period
    <2>1. CASE s11 >= Period
      BY <1>3, <1>6, <2>1
    <2>2. CASE s11 = 0 /\ s4 = 0
      <3>1. s5.in = 0
        BY <1>5, <2>2 DEF Capture!Halved, Capture!NUM_COEFF_22KHZ
      <3> QED
        BY <1>3, <1>6, <2>2, <3>1
    <2> QED
      BY <1>2, <2>1, <2>2
  <1> HIDE DEF k
  <1>8. /\ r.in \in [in : Nat, tmp : Nat, tmp2 : Nat] /\ r.extent \in [tmp : Nat, tmp2 : Nat, out : Nat]
        /\ r.made \in Nat
        /\ r.extent.tmp <= Period /\ r.extent.tmp2 <= Period /\ r.extent.out <= Period
        /\ r.in.in < Period
        /\ r.in.in = s11 + k - 2 * one
        /\ s1 \in {11025, 8000} => r.in.tmp = one - 2 * two
        /\ s1 = 16000 => r.in.tmp = one - 441 * Capture!Blocks(one)
        /\ s1 = 8000 => r.in.tmp2 = two - 441 * Capture!Blocks(two)
        /\ s1 = 22050 => r.in.tmp = 0
        /\ s1 = 11025 => r.in.tmp2 = 0
        /\ Capture!Ideal(s11 + k) = Capture!Ideal(s11) + r.made
    BY <1>2, <1>3, <1>4, <1>6, <1>7, FilterRound
  <1> HIDE DEF r
  <1>9. given \in Nat /\ given <= s8 /\ given <= r.made /\ (given = s8 \/ given = r.made)
    BY <1>3, <1>8 DEF Capture!Least
  <1> HIDE DEF given, p
  <1>10. Capture!Typed'
    <2>1. /\ s4' \in Nat /\ s7' \in Nat /\ s8' \in Nat /\ s10' \in Nat /\ s11' \in Nat /\ s12' \in Nat
          /\ s13' \in Nat /\ s6' \in Nat
      BY ONLY <1>1, <1>3, <1>6, <1>8, <1>9
    <2> QED
      BY <1>1, <1>3, <1>8, <2>1 DEF Capture!Typed, Capture!HasDownSampler
  <1>11. Capture!BuffersHold'
    BY <1>1, <1>8 DEF Capture!BuffersHold
  <1>12. Capture!Kept'
    <2>1. Capture!Halved(s11') = one /\ Capture!Halved(Capture!Halved(s11')) = two
      BY <1>1
    <2>7. one \in Nat
      BY <1>3, <1>6, <1>7 DEF Capture!Halved, Capture!NUM_COEFF_22KHZ, Capture!OVERLAP_22KHZ
    <2> HIDE DEF one, two
    <2>2. s5'.in = s11' - 2 * one
      <3>1. s5' = r.in /\ s11' = s11 + k
        BY <1>1
      <3>2. s5'.in = s11 + k - 2 * one
        BY ONLY <1>8, <3>1
      <3> QED
        BY ONLY <1>3, <1>6, <2>7, <3>1, <3>2
    <2>3. s1' \in {11025, 8000} => s5'.tmp = one - 2 * two
      BY <1>1, <1>8
    <2>4. s1' = 16000 => s5'.tmp = one - 441 * Capture!Blocks(one)
      BY <1>1, <1>8
    <2>5. s1' = 8000 => s5'.tmp2 = two - 441 * Capture!Blocks(two)
      BY <1>1, <1>8
    <2>6. (s1' = 22050 => s5'.tmp = 0) /\ (s1' = 11025 => s5'.tmp2 = 0)
      BY <1>1, <1>8
    <2> QED
      BY <2>1, <2>2, <2>3, <2>4, <2>5, <2>6 DEF Capture!Kept
  <1>13. Capture!CaptureIsContinuous'
    <2>1. s10' = s11' + s4'
      BY ONLY <1>1, <1>2, <1>3, <1>6 DEF p
    <2>2. s12' + s7' = Capture!Ideal(s11)'
      <3>1. Capture!Ideal(s11)' = Capture!Ideal(s11 + k)
        BY <1>1 DEF Capture!Ideal
      <3> QED
        BY <1>1, <1>2, <1>3, <1>8, <1>9, <3>1
    <2>3. s12' = s13' + s6'
      BY ONLY <1>1, <1>2, <1>3, <1>9
    <2> QED
      BY <2>1, <2>2, <2>3 DEF Capture!CaptureIsContinuous
  <1>14. (s11' >= Period) /\ (s3' = "pull" => s7' = 0)
    BY <1>1, <1>3, <1>7, <1>8, <1>9
  <1> QED
    BY <1>1, <1>10, <1>11, <1>12, <1>13, <1>14 DEF Capture!IInv, Capture!Recording, Capture!HasDownSampler

LEMMA CaptureStep ==
    ASSUME Capture!PeriodAssumption, Capture!IInv, [Capture!Next]_(Capture!vars) PROVE Capture!IInv'
  <1> USE DEF Capture!clientVars, Capture!filterVars, Capture!HasDownSampler
  <1>1. /\ Capture!Typed /\ Capture!BuffersHold /\ Period \in Nat /\ Period > 906
        /\ s3 # "standby" => Capture!Recording
    BY DEF Capture!IInv, Capture!PeriodAssumption
  <1>2. /\ s1 \in Capture!inputSamplingRates /\ s2 \in {1, 2} /\ s3 \in {"standby", "idle", "pull"}
        /\ s5 \in [in : Nat, tmp : Nat, tmp2 : Nat] /\ s9 \in [tmp : Nat, tmp2 : Nat, out : Nat]
        /\ s4 \in Nat /\ s6 \in Nat /\ s7 \in Nat /\ s8 \in Nat /\ s10 \in Nat /\ s11 \in Nat
        /\ s12 \in Nat /\ s13 \in Nat /\ (s1 = 44100 => s4 = 0 /\ s7 = 0)
    BY <1>1 DEF Capture!Typed
  <1>3. CASE Capture!OpenIn
    <2>1. /\ s3 = "standby" /\ s3' = "idle" /\ s10' = 0 /\ s11' = 0 /\ s12' = 0 /\ s13' = 0
          /\ UNCHANGED <<s1, s2, s8, s9>>
          /\ s1 # 44100 => s4' = 0 /\ s5' = Capture!Nothing /\ s6' = 0 /\ s7' = 0
          /\ s1 = 44100 => UNCHANGED <<s4, s5, s6, s7>>
      BY <1>3 DEF Capture!OpenIn, Capture!Reset
    <2>2. Capture!Halved(0) = 0 /\ Capture!Blocks(0) = 0 /\ Capture!To320(0) = 0
      BY DEF Capture!Halved, Capture!NUM_COEFF_22KHZ, Capture!Blocks, Capture!OVERLAP_16KHZ, Capture!To320
    <2>3. Capture!Typed' /\ Capture!BuffersHold'
      BY <1>1, <1>2, <2>1 DEF Capture!Typed, Capture!BuffersHold, Capture!Nothing
    <2>4. s1 # 44100 => Capture!Kept'
      BY <2>1, <2>2 DEF Capture!Kept, Capture!Nothing
    <2>5. Capture!CaptureIsContinuous'
      BY <1>2, <2>1, <2>2 DEF Capture!CaptureIsContinuous, Capture!Ideal, Capture!inputSamplingRates
    <2> QED
      BY <1>2, <2>1, <2>3, <2>4, <2>5 DEF Capture!IInv, Capture!Recording
  <1>4. CASE Capture!Standby \/ Capture!ReadFails
    <2>1. s3' = "standby" /\ s8' \in Nat /\ UNCHANGED <<s1, s2, s4, s5, s6, s7, s9, s10, s11, s12, s13>>
      BY <1>2, <1>4 DEF Capture!Standby, Capture!ReadFails
    <2> QED
      BY <1>1, <1>2, <2>1 DEF Capture!IInv, Capture!Typed, Capture!BuffersHold
  <1>5. CASE Capture!StartRead
    <2> DEFINE frames == Capture!BufferFrames(s1)
               old == IF s1 # 44100 THEN Capture!Least(frames, s7) ELSE 0
    <2>1. /\ s3 = "idle" /\ s7' = s7 - old /\ s6' = s6 + old /\ s12' = s12 + old /\ s8' = frames - old
          /\ s3' = (IF frames = old THEN "idle" ELSE "pull")
          /\ UNCHANGED <<s1, s2, s4, s5, s9, s13, s10, s11>>
      BY <1>5 DEF Capture!StartRead
    <2>2. frames \in Nat /\ (s1 = 44100 => frames = Period)
      BY <1>1, <1>2 DEF Capture!BufferFrames, Capture!inputSamplingRates
    <2>3. old \in Nat /\ old <= s7 /\ old <= frames /\ (s1 = 44100 => old = 0)
          /\ (old # frames => old = s7)
      BY <1>2, <2>2 DEF Capture!Least
    <2> HIDE DEF frames, old
    <2>4. /\ s7' \in Nat /\ s6' \in Nat /\ s12' \in Nat /\ s8' \in Nat /\ s12' + s7' = s12 + s7
          /\ s12' = s12 + (s6' - s6) /\ s3' \in {"idle", "pull"}
      BY <1>2, <2>1, <2>2, <2>3
    <2>5. Capture!Recording
      BY <1>1, <2>1
    <2>6. Capture!Typed' /\ Capture!BuffersHold'
      BY <1>1, <1>2, <2>1, <2>3, <2>4 DEF Capture!Typed, Capture!BuffersHold
    <2>7. s1 # 44100 => Capture!Kept'
      BY <2>1, <2>5 DEF Capture!Recording, Capture!Kept
    <2>8. Capture!CaptureIsContinuous'
      <3>1. Capture!CaptureIsContinuous
        BY <2>5 DEF Capture!Recording
      <3>2. Capture!Ideal(s11)' = Capture!Ideal(s11)
        BY <2>1 DEF Capture!Ideal
      <3> QED
        BY <1>2, <2>1, <2>4, <3>1, <3>2 DEF Capture!CaptureIsContinuous
    <2>9. s3' = "pull" => s7' = 0 /\ (s1 = 44100 => s8' = Period)
      BY <1>1, <1>2, <2>1, <2>2, <2>3
    <2> QED
      BY <1>2, <2>1, <2>3, <2>5, <2>6, <2>7, <2>8, <2>9 DEF Capture!IInv, Capture!Recording
  <1>6. CASE Capture!Resample
    BY <1>6, ResampleStep
  <1>7. CASE Capture!Mix
    <2>1. s3 = "pull" /\ s1 = 44100 /\ Capture!Recording
      BY <1>1, <1>7 DEF Capture!Mix
    <2>2. s4 = 0 /\ s7 = 0 /\ s8 = Period
      BY <2>1 DEF Capture!Recording
    <2>3. Capture!Available(s8) = Period
      BY <1>1, <2>2 DEF Capture!Available, Capture!Least
    <2>4. /\ s12' = s12 + Period /\ s8' = s8 - Period /\ s3' = "idle" /\ s11' = s11 + Period
          /\ s10' = s10 + Period /\ s4' = 0
          /\ UNCHANGED <<s1, s2, s5, s6, s7, s9, s13>>
      BY <1>1, <1>7, <2>2, <2>3 DEF Capture!Mix, Capture!Take
    <2>5. Capture!Typed' /\ Capture!BuffersHold'
      BY <1>1, <1>2, <2>1, <2>2, <2>4 DEF Capture!Typed, Capture!BuffersHold
    <2>6. Capture!CaptureIsContinuous'
      BY <1>1, <1>2, <2>1, <2>2, <2>4 DEF Capture!CaptureIsContinuous, Capture!Recording, Capture!Ideal
    <2> QED
      BY <2>1, <2>2, <2>4, <2>5, <2>6 DEF Capture!IInv, Capture!Recording
  <1>8. CASE UNCHANGED Capture!vars
    <2>1. UNCHANGED <<s1, s2, s3, s4, s5, s6, s7, s8, s9, s10, s11, s12, s13>>
      BY <1>8 DEF Capture!vars
    <2> QED
      BY <1>1, <2>1 DEF Capture!IInv, Capture!Typed, Capture!BuffersHold, Capture!Recording, Capture!Kept,
         Capture!CaptureIsContinuous, Capture!Ideal
  <1> QED
    BY <1>3, <1>4, <1>5, <1>6, <1>7, <1>8 DEF Capture!Next
-----------------------------------------------------------------------------
(* Sensors: what a queue tells.                                             *)

\* SetToSeq lists the axes that changed, and nothing else.
LEMMA AxesListed ==
    ASSUME Accelerometer!AxisAssumption, NEW S \in SUBSET Axes
    PROVE  LET c == Accelerometer!SetToSeq(S)
           IN  /\ c \in Seq(S)
               /\ \A a \in S : \E i \in 1..Len(c) : c[i] = a
  <1> DEFINE n == Cardinality(S)
             c == Accelerometer!SetToSeq(S)
  <1>1. IsFiniteSet(S)
    <2>1. IsFiniteSet({"ABS_X"} \cup {"ABS_Y"} \cup {"ABS_Z"})
      BY FS_Singleton, FS_Union
    <2>2. S \subseteq {"ABS_X"} \cup {"ABS_Y"} \cup {"ABS_Z"}
      BY DEF Accelerometer!AxisAssumption
    <2> QED
      BY <2>1, <2>2, FS_Subset
  <1>2. n \in Nat /\ ExistsBijection(1..n, S)
    BY <1>1, FS_CardinalityType
  <1>3. PICK f \in Bijection(1..n, S) : TRUE
    BY <1>2 DEF ExistsBijection
  <1>4. f \in [1..n -> S] /\ IsInjective(f)
    BY <1>3 DEF Bijection, Injection
  <1>50. Accelerometer!Cardinality(S) = Cardinality(S)
    BY Zenon DEF Accelerometer!Cardinality, Cardinality, Accelerometer!IsFiniteSet, IsFiniteSet
  <1>51. \E g \in [1..n -> S] : Accelerometer!IsInjective(g)
    BY <1>4 DEF Accelerometer!IsInjective, IsInjective
  <1>52. c \in [1..n -> S] /\ Accelerometer!IsInjective(c)
    BY <1>50, <1>51 DEF Accelerometer!SetToSeq
  <1>5. c \in [1..n -> S] /\ IsInjective(c)
    BY <1>52 DEF Accelerometer!IsInjective, IsInjective
  <1> HIDE DEF c
  <1>6. c \in Injection(1..n, S)
    BY <1>5 DEF Injection
  <1>7. IsFiniteSet(1..n) /\ Cardinality(1..n) = n
    BY <1>2, FS_Interval
  <1>8. c \in Surjection(1..n, S)
    BY <1>1, <1>6, <1>7, FS_Injection
  <1>9. Len(c) = n /\ c \in Seq(S)
    BY <1>2, <1>5
  <1>10. \A a \in S : \E i \in 1..n : c[i] = a
    BY <1>8 DEF Surjection
  <1> QED
    BY <1>9, <1>10 DEF c

LEMMA ToldEmpty == ASSUME NEW o, NEW p PROVE Accelerometer!Told(<<>>, {}, o, p)
  BY DEF Accelerometer!Told

\* Reading an event: what is left tells the same.
LEMMA Shifted ==
    ASSUME NEW E, NEW q \in Seq(E), q # <<>>, NEW p, NEW a, NEW i \in 1..Len(Tail(q)) + 1
    PROVE  /\ i + 1 \in 1..Len(q) + 1
           /\ Accelerometer!Ends(Tail(q), i) <=> Accelerometer!Ends(q, i + 1)
           /\ Accelerometer!At(Tail(q), i, p, a) = Accelerometer!At(q, i + 1, p, a)
           /\ \A j \in 1..i - 1 : /\ j + 1 \in 1..(i + 1) - 1 /\ Tail(q)[j] = q[j + 1]
                                  /\ Accelerometer!NotAfter(Tail(q), j, i, a) => Accelerometer!NotAfter(q, j + 1, i + 1, a)
           /\ Accelerometer!NotAfter(Tail(q), 0, i, a) => Accelerometer!NotAfter(q, 1, i + 1, a)
  <1> DEFINE r == Tail(q)
             n == Len(q)
  <1>1. n \in Nat \ {0} /\ Len(r) = n - 1 /\ \A j \in 1..n - 1 : r[j] = q[j + 1]
    BY HeadTailProperties
  <1> HIDE DEF r
  <1>2. i \in 1..n /\ i \in Int /\ n \in Int
    BY <1>1 DEF r
  <1> HIDE DEF n
  <1>3. i <= n - 1 => r[i] = q[i + 1]
    BY <1>1, <1>2
  <1>4. i > n - 1 <=> i + 1 > n
    BY <1>2
  <1>5. Accelerometer!Ends(r, i) <=> Accelerometer!Ends(q, i + 1)
    BY <1>1, <1>2, <1>3, <1>4 DEF Accelerometer!Ends, n
  <1>6. Accelerometer!At(r, i, p, a) = Accelerometer!At(q, i + 1, p, a)
    BY <1>1, <1>2, <1>3, <1>4 DEF Accelerometer!At, n
  <1>7. ASSUME NEW j \in 0..i - 1, Accelerometer!NotAfter(r, j, i, a)
        PROVE  Accelerometer!NotAfter(q, j + 1, i + 1, a)
    <2> SUFFICES ASSUME NEW k \in (j + 1) + 1..(i + 1) - 1 PROVE q[k].code # a
      BY DEF Accelerometer!NotAfter
    <2>1. k - 1 \in j + 1..i - 1 /\ k - 1 \in 1..n - 1 /\ (k - 1) + 1 = k
      BY <1>2
    <2>2. r[k - 1] = q[k]
      BY <1>1, <2>1
    <2> QED
      BY <1>7, <2>1, <2>2 DEF Accelerometer!NotAfter
  <1>8. \A j \in 1..i - 1 : j + 1 \in 1..(i + 1) - 1 /\ j \in 1..n - 1 /\ j \in 0..i - 1
    BY <1>2
  <1>9. 0 \in 0..i - 1 /\ 0 + 1 = 1
    BY <1>2
  <1>10. Accelerometer!NotAfter(r, 0, i, a) => Accelerometer!NotAfter(q, 1, i + 1, a)
    BY <1>7, <1>9
  <1>11. \A j \in 1..i - 1 : /\ j + 1 \in 1..(i + 1) - 1 /\ r[j] = q[j + 1]
                             /\ Accelerometer!NotAfter(r, j, i, a) => Accelerometer!NotAfter(q, j + 1, i + 1, a)
    BY <1>1, <1>7, <1>8
  <1>12. i + 1 \in 1..Len(q) + 1
    BY <1>2 DEF n
  <1> QED
    BY <1>5, <1>6, <1>10, <1>11, <1>12 DEF r

\* The end of a frame is read.
LEMMA ToldAfterSyn ==
    ASSUME NEW E, NEW q \in Seq(E), q # <<>>, NEW seen, NEW o, NEW p, q[1].code \notin Axes,
           Accelerometer!Told(q, seen, o, p)
    PROVE  Accelerometer!Told(Tail(q), seen, o, p)
  <1> DEFINE r == Tail(q)
  <1> SUFFICES ASSUME NEW i \in 1..Len(r) + 1, NEW a \in Axes, Accelerometer!Ends(r, i)
               PROVE  /\ \A j \in 1..i - 1 : r[j].code = a /\ Accelerometer!NotAfter(r, j, i, a) =>
                             r[j].value = Accelerometer!At(r, i, p, a)
                      /\ a \in seen /\ Accelerometer!NotAfter(r, 0, i, a) =>
                             Accelerometer!Value(o, a) = Accelerometer!At(r, i, p, a)
    BY DEF Accelerometer!Told
  <1>1. /\ i + 1 \in 1..Len(q) + 1 /\ Accelerometer!Ends(q, i + 1) /\ Accelerometer!At(r, i, p, a) = Accelerometer!At(q, i + 1, p, a)
        /\ \A j \in 1..i - 1 : /\ j + 1 \in 1..(i + 1) - 1 /\ r[j] = q[j + 1]
                               /\ Accelerometer!NotAfter(r, j, i, a) => Accelerometer!NotAfter(q, j + 1, i + 1, a)
        /\ Accelerometer!NotAfter(r, 0, i, a) => Accelerometer!NotAfter(q, 1, i + 1, a)
    BY Shifted, ZenonT(60)
  <1> HIDE DEF r
  <1>2. /\ \A j \in 1..(i + 1) - 1 : q[j].code = a /\ Accelerometer!NotAfter(q, j, i + 1, a) =>
               q[j].value = Accelerometer!At(q, i + 1, p, a)
        /\ a \in seen /\ Accelerometer!NotAfter(q, 0, i + 1, a) =>
               Accelerometer!Value(o, a) = Accelerometer!At(q, i + 1, p, a)
    BY <1>1 DEF Accelerometer!Told
  <1>3. Accelerometer!NotAfter(q, 1, i + 1, a) => Accelerometer!NotAfter(q, 0, i + 1, a)
    <2>1. \A k \in 0 + 1..(i + 1) - 1 : k = 1 \/ k \in 1 + 1..(i + 1) - 1
      OBVIOUS
    <2> QED
      BY <2>1 DEF Accelerometer!NotAfter
  <1> QED
    BY <1>1, <1>2, <1>3

\* An axis is read, and known from then on.
LEMMA ToldAfterAbs ==
    ASSUME NEW E, NEW q \in Seq(E), q # <<>>, NEW seen, NEW o, NEW p, q[1].code \in Axes,
           Accelerometer!Told(q, seen, o, p), NEW o2,
           Accelerometer!Value(o2, q[1].code) = q[1].value,
           \A a \in Axes \ {q[1].code} : Accelerometer!Value(o2, a) = Accelerometer!Value(o, a)
    PROVE  Accelerometer!Told(Tail(q), seen \cup {q[1].code}, o2, p)
  <1> DEFINE r == Tail(q)
             b == q[1].code
  <1> SUFFICES ASSUME NEW i \in 1..Len(r) + 1, NEW a \in Axes, Accelerometer!Ends(r, i)
               PROVE  /\ \A j \in 1..i - 1 : r[j].code = a /\ Accelerometer!NotAfter(r, j, i, a) =>
                             r[j].value = Accelerometer!At(r, i, p, a)
                      /\ a \in seen \cup {b} /\ Accelerometer!NotAfter(r, 0, i, a) =>
                             Accelerometer!Value(o2, a) = Accelerometer!At(r, i, p, a)
    BY DEF Accelerometer!Told
  <1>1. /\ i + 1 \in 1..Len(q) + 1 /\ Accelerometer!Ends(q, i + 1) /\ Accelerometer!At(r, i, p, a) = Accelerometer!At(q, i + 1, p, a)
        /\ \A j \in 1..i - 1 : /\ j + 1 \in 1..(i + 1) - 1 /\ r[j] = q[j + 1]
                               /\ Accelerometer!NotAfter(r, j, i, a) => Accelerometer!NotAfter(q, j + 1, i + 1, a)
        /\ Accelerometer!NotAfter(r, 0, i, a) => Accelerometer!NotAfter(q, 1, i + 1, a)
    BY Shifted
  <1> HIDE DEF r
  <1>2. /\ \A j \in 1..(i + 1) - 1 : q[j].code = a /\ Accelerometer!NotAfter(q, j, i + 1, a) =>
               q[j].value = Accelerometer!At(q, i + 1, p, a)
        /\ a \in seen /\ Accelerometer!NotAfter(q, 0, i + 1, a) =>
               Accelerometer!Value(o, a) = Accelerometer!At(q, i + 1, p, a)
    BY <1>1 DEF Accelerometer!Told
  <1>3. 1 \in 1..(i + 1) - 1
    OBVIOUS
  <1>4. a # b => (Accelerometer!NotAfter(q, 1, i + 1, a) => Accelerometer!NotAfter(q, 0, i + 1, a))
    <2>1. \A k \in 0 + 1..(i + 1) - 1 : k = 1 \/ k \in 1 + 1..(i + 1) - 1
      OBVIOUS
    <2> QED
      BY <2>1 DEF Accelerometer!NotAfter
  <1>5. a = b /\ Accelerometer!NotAfter(q, 1, i + 1, a) => Accelerometer!Value(o2, a) = Accelerometer!At(q, i + 1, p, a)
    BY <1>2, <1>3
  <1>6. a # b => Accelerometer!Value(o2, a) = Accelerometer!Value(o, a)
    OBVIOUS
  <1> HIDE DEF b
  <1> QED
    BY <1>1, <1>2, <1>4, <1>5, <1>6

\* What the driver tells of a move.
IsFrame(F, p, p2) ==
    /\ F # <<>> /\ F[Len(F)].code = "EV_SYN" /\ F[Len(F)].at = p2
    /\ \A i \in 1..Len(F) - 1 : /\ F[i].code \in Axes /\ p[F[i].code] # p2[F[i].code]
                                /\ F[i].value = p2[F[i].code]
    /\ \A a \in Axes : p[a] # p2[a] => \E i \in 1..Len(F) - 1 : F[i].code = a

LEMMA FrameTells ==
    ASSUME Accelerometer!AxisAssumption,
           NEW p \in Accelerometer!Position, NEW p2 \in Accelerometer!Position
    PROVE  /\ Accelerometer!Frame(p, p2) \in Seq(Accelerometer!Event)
           /\ IsFrame(Accelerometer!Frame(p, p2), p, p2)
  <1> DEFINE S == {a \in Axes : p[a] # p2[a]}
             c == Accelerometer!SetToSeq(S)
             A == [i \in DOMAIN c |-> Accelerometer!ABS(c[i], p2)]
             e == Accelerometer!SYN(p2)
             F == A \o <<e>>
  <1>1. c \in Seq(S) /\ \A a \in S : \E i \in 1..Len(c) : c[i] = a
    BY AxesListed
  <1> HIDE DEF c
  <1>2. Len(c) \in Nat /\ DOMAIN c = 1..Len(c) /\ \A i \in 1..Len(c) : c[i] \in S
    BY <1>1
  <1>3. \A a \in S : /\ Accelerometer!ABS(a, p2) \in Accelerometer!Event
                     /\ Accelerometer!ABS(a, p2).code = a
                     /\ Accelerometer!ABS(a, p2).value = p2[a]
    BY DEF Accelerometer!ABS, Accelerometer!Event, Accelerometer!Position
  <1>4. A \in Seq(Accelerometer!Event) /\ Len(A) = Len(c)
    BY <1>2, <1>3
  <1>5. e \in Accelerometer!Event /\ e.code = "EV_SYN" /\ e.at = p2
    BY DEF Accelerometer!SYN, Accelerometer!Event
  <1>6. \A i \in 1..Len(c) : A[i].code = c[i] /\ A[i].value = p2[c[i]]
    BY <1>2, <1>3
  <1> HIDE DEF A, e
  <1>7. /\ F \in Seq(Accelerometer!Event) /\ Len(F) = Len(c) + 1
        /\ \A i \in 1..Len(c) : F[i] = A[i]
        /\ F[Len(c) + 1] = e
    BY <1>2, <1>4, <1>5
  <1>8. Accelerometer!Frame(p, p2) = F
    BY DEF Accelerometer!Frame, A, c, e
  <1> HIDE DEF F
  <1>9. F # <<>> /\ Len(F) - 1 = Len(c)
    BY <1>2, <1>7
  <1>10. \A i \in 1..Len(c) : /\ F[i].code \in Axes /\ p[F[i].code] # p2[F[i].code]
                              /\ F[i].value = p2[F[i].code]
    BY <1>2, <1>6, <1>7
  <1>11. \A a \in Axes : p[a] # p2[a] => \E i \in 1..Len(c) : F[i].code = a
    BY <1>1, <1>6, <1>7
  <1> QED
    BY <1>5, <1>7, <1>8, <1>9, <1>10, <1>11 DEF IsFrame

LEMMA ToldAfterFrame ==
    ASSUME Accelerometer!AxisAssumption, NEW E, NEW q \in Seq(E), NEW F \in Seq(E),
           NEW p, NEW p2, NEW seen, NEW o, IsFrame(F, p, p2),
           Accelerometer!Told(q, seen, o, p)
    PROVE  Accelerometer!Told(q \o F, seen, o, p2)
  <1> DEFINE r == q \o F
             n == Len(q)
             m == Len(F)
  <1>1. /\ n \in Nat /\ m \in Nat /\ Len(r) = n + m
        /\ \A k \in 1..n : r[k] = q[k]
        /\ \A k \in n + 1..n + m : r[k] = F[k - n]
    BY ConcatProperties
  <1>2. m > 0
    BY DEF IsFrame
  <1>3. "EV_SYN" \notin Axes
    BY DEF Accelerometer!AxisAssumption
  <1>4. /\ r[n + m].code = "EV_SYN" /\ r[n + m].at = p2
        /\ \A k \in n + 1..n + m - 1 : /\ r[k].code \in Axes /\ p[r[k].code] # p2[r[k].code]
                                       /\ r[k].value = p2[r[k].code]
    <2>1. n + m \in n + 1..n + m /\ (n + m) - n = m
      BY <1>1, <1>2
    <2>2. r[n + m] = F[m]
      BY <1>1, <2>1
    <2>3. \A k \in n + 1..n + m - 1 : k - n \in 1..m - 1 /\ k \in n + 1..n + m
      BY <1>1
    <2>4. \A k \in n + 1..n + m - 1 : r[k] = F[k - n]
      BY <1>1, <2>3
    <2>5. F[m].code = "EV_SYN" /\ F[m].at = p2
      BY DEF IsFrame
    <2>6. \A l \in 1..m - 1 : /\ F[l].code \in Axes /\ p[F[l].code] # p2[F[l].code]
                              /\ F[l].value = p2[F[l].code]
      BY DEF IsFrame
    <2> HIDE DEF r, n, m
    <2> QED
      BY ONLY <2>2, <2>3, <2>4, <2>5, <2>6
  <1>5. \A a \in Axes : p[a] # p2[a] => \E l \in n + 1..n + m - 1 : r[l].code = a
    <2> SUFFICES ASSUME NEW a \in Axes, p[a] # p2[a] PROVE \E l \in n + 1..n + m - 1 : r[l].code = a
      OBVIOUS
    <2>1. PICK l \in 1..m - 1 : F[l].code = a
      BY DEF IsFrame
    <2>2. n + l \in n + 1..n + m - 1 /\ n + l \in n + 1..n + m /\ (n + l) - n = l
      BY <1>1
    <2> HIDE DEF r, n
    <2> QED
      BY <1>1, <2>1, <2>2
  <1> HIDE DEF r, n, m
  <1> SUFFICES ASSUME NEW i \in 1..(n + m) + 1, NEW a \in Axes, Accelerometer!Ends(r, i)
               PROVE  /\ \A j \in 1..i - 1 : r[j].code = a /\ Accelerometer!NotAfter(r, j, i, a) =>
                             r[j].value = Accelerometer!At(r, i, p2, a)
                      /\ a \in seen /\ Accelerometer!NotAfter(r, 0, i, a) =>
                             Accelerometer!Value(o, a) = Accelerometer!At(r, i, p2, a)
    BY <1>1 DEF Accelerometer!Told, r
  <1>6. i \in Int /\ n \in Int /\ m \in Int /\ 1 <= i /\ i <= n + m + 1
    BY <1>1
  <1>7. CASE i <= n
    <2>1. i \in 1..Len(q) + 1 /\ Accelerometer!Ends(q, i)
          /\ Accelerometer!At(r, i, p2, a) = Accelerometer!At(q, i, p, a)
      <3>1. i \in 1..n /\ ~(i > n + m) /\ ~(i > n) /\ i \in 1..n + 1
        BY <1>1, <1>6, <1>7
      <3> QED
        BY <1>1, <3>1 DEF Accelerometer!Ends, Accelerometer!At, n
    <2>2. \A j \in 0..i - 1 : Accelerometer!NotAfter(r, j, i, a) => Accelerometer!NotAfter(q, j, i, a)
      <3>1. \A j \in 0..i - 1 : \A k \in j + 1..i - 1 : k \in 1..n
        BY <1>6, <1>7
      <3> QED
        BY <1>1, <3>1 DEF Accelerometer!NotAfter
    <2>3. \A j \in 1..i - 1 : j \in 1..n /\ j \in 0..i - 1
      BY <1>6, <1>7
    <2>4. 0 \in 0..i - 1
      BY <1>6
    <2>5. /\ \A j \in 1..i - 1 : q[j].code = a /\ Accelerometer!NotAfter(q, j, i, a) =>
                 q[j].value = Accelerometer!At(q, i, p, a)
          /\ a \in seen /\ Accelerometer!NotAfter(q, 0, i, a) =>
                 Accelerometer!Value(o, a) = Accelerometer!At(q, i, p, a)
      BY <2>1 DEF Accelerometer!Told
    <2> QED
      BY <1>1, <2>1, <2>2, <2>3, <2>4, <2>5
  <1>8. CASE i > n
    <2>1. i = n + m \/ i = n + m + 1
      <3>1. CASE i \in n + 1..n + m - 1
        <4>1. r[i].code \in Axes /\ ~(i > n + m)
          BY <1>4, <1>6, <3>1
        <4> QED
          BY <4>1, <1>1, <1>3 DEF Accelerometer!Ends
      <3> QED
        BY <1>6, <1>8, <3>1
    <2>2. Accelerometer!At(r, i, p2, a) = p2[a]
      <3>1. i = n + m => ~(i > n + m)
        BY <1>6
      <3>2. i = n + m + 1 => i > n + m
        BY <1>6
      <3> QED
        BY <1>1, <1>4, <2>1, <3>1, <3>2 DEF Accelerometer!At
    <2>3. \A j \in 1..i - 1 : r[j].code = a /\ j > n =>
              /\ j \in n + 1..n + m - 1
              /\ p[a] # p2[a] /\ r[j].value = p2[a]
      <3> SUFFICES ASSUME NEW j \in 1..i - 1, r[j].code = a, j > n
                   PROVE  /\ j \in n + 1..n + m - 1
                          /\ p[a] # p2[a] /\ r[j].value = p2[a]
        OBVIOUS
      <3>1. j # n + m
        BY <1>3, <1>4
      <3>2. j \in n + 1..n + m - 1
        BY <1>6, <2>1, <3>1
      <3> QED
        BY <1>4, <3>2
    <2>4. CASE p[a] # p2[a]
      <3>1. PICK l \in n + 1..n + m - 1 : r[l].code = a
        BY <1>5, <2>4
      <3>2. \A j \in 0..n : l \in j + 1..i - 1
        BY <1>1, <1>6, <2>1
      <3>3. \A j \in 0..n : ~Accelerometer!NotAfter(r, j, i, a)
        BY <3>1, <3>2 DEF Accelerometer!NotAfter
      <3>4. \A j \in 1..i - 1 : j \in 0..n \/ j > n
        BY <1>1, <1>6
      <3>5. 0 \in 0..n
        BY <1>1
      <3> QED
        BY <2>2, <2>3, <3>3, <3>4, <3>5
    <2>5. CASE p[a] = p2[a]
      <3>1. n + 1 \in 1..Len(q) + 1 /\ n + 1 > Len(q)
        BY <1>1 DEF n
      <3>2. Accelerometer!Ends(q, n + 1) /\ Accelerometer!At(q, n + 1, p, a) = p2[a]
        BY <2>5, <3>1 DEF Accelerometer!Ends, Accelerometer!At
      <3>3. /\ \A j \in 1..(n + 1) - 1 : q[j].code = a /\ Accelerometer!NotAfter(q, j, n + 1, a) =>
                   q[j].value = p2[a]
            /\ a \in seen /\ Accelerometer!NotAfter(q, 0, n + 1, a) =>
                   Accelerometer!Value(o, a) = p2[a]
        BY <3>1, <3>2 DEF Accelerometer!Told
      <3>4. \A j \in 0..n : Accelerometer!NotAfter(r, j, i, a) => Accelerometer!NotAfter(q, j, n + 1, a)
        <4>1. \A j \in 0..n : \A k \in j + 1..(n + 1) - 1 : k \in 1..n /\ k \in j + 1..i - 1
          BY <1>1, <1>6, <1>8
        <4> QED
          BY <1>1, <4>1 DEF Accelerometer!NotAfter
      <3>5. \A j \in 1..i - 1 : j > n \/ (j \in 1..n /\ j \in 1..(n + 1) - 1 /\ j \in 0..n)
        BY <1>1, <1>6
      <3>6. 0 \in 0..n
        BY <1>1
      <3> QED
        BY <1>1, <2>2, <2>3, <2>5, <3>3, <3>4, <3>5, <3>6
    <2> QED
      BY <2>4, <2>5
  <1> QED
    BY <1>6, <1>7, <1>8

-----------------------------------------------------------------------------
(* Sensors: the steps.                                                      *)

LEMMA AccelStart ==
    ASSUME Accelerometer!ReadingAssumption, Accelerometer!Init
    PROVE  Accelerometer!IInv
  <1> USE DEF Accelerometer!Init
  <1>1. Accelerometer!Types
    BY DEF Accelerometer!Types, Accelerometer!Zero, Accelerometer!Still, Accelerometer!Position,
           Accelerometer!Closed, Accelerometer!Event, Accelerometer!Labels, Accelerometer!Thread,
           Accelerometer!ReadingAssumption
  <1>2. Accelerometer!Descriptors /\ Accelerometer!PollState /\ Accelerometer!SampleIsTrue
    BY DEF Accelerometer!Descriptors, Accelerometer!PollState, Accelerometer!SampleIsTrue,
           Accelerometer!Closed, Accelerometer!PollLabels, Accelerometer!Thread
  <1>3. Accelerometer!QueuesTrue
    BY DEF Accelerometer!QueuesTrue, Accelerometer!Closed
  <1> QED
    BY <1>1, <1>2, <1>3 DEF Accelerometer!IInv

\* A step that leaves the queues, the readings and the position alone, and lets
\* nobody know of another descriptor, leaves them true.
LEMMA QueuesStay ==
    ASSUME Accelerometer!QueuesTrue, UNCHANGED <<s2, s8, s9>>,
           Accelerometer!Known' \cap Fd \subseteq Accelerometer!Known
    PROVE  Accelerometer!QueuesTrue'
  BY DEF Accelerometer!QueuesTrue, Accelerometer!Told, Accelerometer!Ends, Accelerometer!At,
         Accelerometer!NotAfter

\* What a poll returned stays as it is while nobody polls.
LEMMA SampleStays ==
    ASSUME Accelerometer!SampleIsTrue, UNCHANGED <<s4, s11>>, s10' = s10 \/ s10' # "acceleration"
    PROVE  Accelerometer!SampleIsTrue'
  BY DEF Accelerometer!SampleIsTrue, Accelerometer!Shows

LEMMA OpenStep ==
    ASSUME Accelerometer!FdAssumption, Accelerometer!IInv,
           NEW t \in Accelerometer!Thread, Accelerometer!open_input(t)
    PROVE  Accelerometer!IInv'
  <1> USE DEF Accelerometer!held, Accelerometer!history, Accelerometer!Goto, Accelerometer!Thread
  <1>1. /\ UNCHANGED <<s1, s2, s3, s4, s5, s8, s10, s11>>
        /\ s6[t] \in {"open", "reopen"}
        /\ s6' = [s6 EXCEPT ![t] = IF s6[t] = "open" THEN "keep" ELSE "rekeep"]
    BY DEF Accelerometer!open_input
  <1>2. /\ Accelerometer!Types /\ Accelerometer!Descriptors /\ Accelerometer!PollState
        /\ Accelerometer!QueuesTrue /\ Accelerometer!SampleIsTrue
    BY DEF Accelerometer!IInv
  <1>3. Accelerometer!SampleIsTrue'
    BY <1>1, <1>2, SampleStays
  <1>4. Accelerometer!PollState'
    BY <1>1, <1>2 DEF Accelerometer!PollState, Accelerometer!Types, Accelerometer!Labels,
           Accelerometer!PollLabels, Accelerometer!Acceleration
  <1>5. s7[t] = None
    BY <1>1, <1>2 DEF Accelerometer!Descriptors
  <1>6. CASE s7' = [s7 EXCEPT ![t] = None] /\ UNCHANGED s9
    <2>1. s7' = s7
      BY <1>2, <1>5, <1>6 DEF Accelerometer!Types
    <2>2. Accelerometer!Types'
      BY <1>1, <1>2, <1>6, <2>1 DEF Accelerometer!Types, Accelerometer!Labels, Accelerometer!PollLabels
    <2>3. Accelerometer!Descriptors'
      BY <1>1, <1>2, <1>6, <2>1, <1>5 DEF Accelerometer!Types, Accelerometer!Descriptors, Accelerometer!Forgetting,
             Accelerometer!Labels, Accelerometer!PollLabels
    <2>4. Accelerometer!QueuesTrue'
      BY <1>1, <1>2, <1>6, <2>1, QueuesStay DEF Accelerometer!Known
    <2> QED
      BY <1>3, <1>4, <2>2, <2>3, <2>4 DEF Accelerometer!IInv
  <1>7. ASSUME NEW f \in Fd, ~s9[f].open, s7' = [s7 EXCEPT ![t] = f],
               s9' = [s9 EXCEPT ![f] = Accelerometer!Opened]
        PROVE  Accelerometer!IInv'
    <2> DEFINE o == [open |-> TRUE, queue |-> <<>>, seen |-> {}]
    <2>1. Accelerometer!Opened = o
      BY DEF Accelerometer!Opened
    <2>2. o.open = TRUE /\ o.queue = <<>> /\ o.seen = {} /\ o.queue \in Seq(Accelerometer!Event)
          /\ o \in [open : BOOLEAN, queue : Seq(Accelerometer!Event), seen : SUBSET Axes]
      OBVIOUS
    <2> HIDE DEF o
    <2>3. s9' = [s9 EXCEPT ![f] = o]
      BY <1>7, <2>1
    <2>4. Accelerometer!Types'
      BY <1>1, <1>2, <1>7, <2>2, <2>3 DEF Accelerometer!Types, Accelerometer!Labels, Accelerometer!PollLabels
    <2>5. Accelerometer!Descriptors'
      BY <1>1, <1>2, <1>5, <1>7, <2>2, <2>3, SMTT(40)
         DEF Accelerometer!Types, Accelerometer!Descriptors, Accelerometer!Forgetting, Accelerometer!FdAssumption
    <2>6. Accelerometer!QueuesTrue'
      <3> SUFFICES ASSUME NEW g \in Fd \cap Accelerometer!Known', s9'[g].open
                   PROVE  Accelerometer!Told(s9'[g].queue, s9'[g].seen, s2', s8')
        BY DEF Accelerometer!QueuesTrue, Accelerometer!Told, Accelerometer!Ends, Accelerometer!At,
               Accelerometer!NotAfter
      <3>1. CASE g = f
        <4>1. s9'[g].queue = <<>> /\ s9'[g].seen = {}
          BY <1>2, <2>2, <2>3, <3>1 DEF Accelerometer!Types
        <4>2. Accelerometer!Told(<<>>, {}, s2', s8')
          BY ToldEmpty
        <4> QED
          BY <4>1, <4>2
      <3>2. CASE g # f
        <4>1. g \in Accelerometer!Known /\ s9'[g] = s9[g]
          BY <1>1, <1>2, <1>7, <2>3, <3>2 DEF Accelerometer!Known, Accelerometer!Types
        <4> QED
          BY <1>1, <1>2, <4>1 DEF Accelerometer!QueuesTrue
      <3> QED
        BY <3>1, <3>2
    <2> QED
      BY <1>3, <1>4, <2>4, <2>5, <2>6 DEF Accelerometer!IInv
  <1> QED
    BY <1>6, <1>7 DEF Accelerometer!open_input

LEMMA KeepStep ==
    ASSUME Accelerometer!FdAssumption, Accelerometer!IInv, NEW t \in Accelerometer!Thread,
           Accelerometer!evdev_open_keep(t) \/ (t = "data" /\ Accelerometer!data_poll_reopened)
    PROVE  Accelerometer!IInv'
  <1> USE DEF Accelerometer!held, Accelerometer!history, Accelerometer!Goto, Accelerometer!Thread
  <1>1. /\ UNCHANGED <<s2, s3, s4, s8, s9, s10, s11>>
        /\ s1' = s7[t] /\ s7' = [s7 EXCEPT ![t] = None]
        /\ \/ s6[t] = "keep" /\ s6' = [s6 EXCEPT ![t] = "idle"]
           \/ t = "data" /\ s6[t] = "rekeep" /\ s6' = [s6 EXCEPT ![t] = "fill"]
    BY DEF Accelerometer!evdev_open_keep, Accelerometer!data_poll_reopened
  <1>2. /\ Accelerometer!Types /\ Accelerometer!Descriptors /\ Accelerometer!PollState
        /\ Accelerometer!QueuesTrue /\ Accelerometer!SampleIsTrue
    BY DEF Accelerometer!IInv
  <1>3. Accelerometer!SampleIsTrue'
    BY <1>1, <1>2, SampleStays
  <1>4. Accelerometer!PollState'
    BY <1>1, <1>2 DEF Accelerometer!PollState, Accelerometer!Types, Accelerometer!Labels,
           Accelerometer!PollLabels, Accelerometer!Acceleration
  <1>5. Accelerometer!Types'
    BY <1>1, <1>2 DEF Accelerometer!Types, Accelerometer!Labels, Accelerometer!PollLabels
  <1>6. Accelerometer!Descriptors'
    BY <1>1, <1>2 DEF Accelerometer!Types, Accelerometer!Descriptors, Accelerometer!Forgetting,
           Accelerometer!FdAssumption
  <1>7. Accelerometer!Known' \cap Fd \subseteq Accelerometer!Known
    BY <1>1, <1>2 DEF Accelerometer!Known, Accelerometer!Types, Accelerometer!FdAssumption
  <1> QED
    BY <1>1, <1>2, <1>3, <1>4, <1>5, <1>6, <1>7, QueuesStay DEF Accelerometer!IInv

LEMMA CloseStep ==
    ASSUME Accelerometer!FdAssumption, Accelerometer!IInv, NEW t \in Accelerometer!Thread,
           Accelerometer!CloseIt(t)
    PROVE  Accelerometer!IInv'
  <1> USE DEF Accelerometer!held, Accelerometer!history, Accelerometer!Goto, Accelerometer!Thread
  <1>1. /\ UNCHANGED <<s1, s2, s3, s4, s5, s7, s8, s10, s11>>
        /\ s9' = IF s1 = None THEN s9 ELSE [s9 EXCEPT ![s1] = Accelerometer!Closed]
        /\ \/ s6[t] = "close" /\ s6' = [s6 EXCEPT ![t] = "forget"]
           \/ s6[t] = "fail" /\ s6' = [s6 EXCEPT ![t] = "refail"]
    BY DEF Accelerometer!CloseIt
  <1>2. /\ Accelerometer!Types /\ Accelerometer!Descriptors /\ Accelerometer!PollState
        /\ Accelerometer!QueuesTrue /\ Accelerometer!SampleIsTrue
    BY DEF Accelerometer!IInv
  <1>3. Accelerometer!SampleIsTrue'
    BY <1>1, <1>2, SampleStays
  <1>4. Accelerometer!PollState'
    BY <1>1, <1>2 DEF Accelerometer!PollState, Accelerometer!Types, Accelerometer!Labels,
           Accelerometer!PollLabels, Accelerometer!Acceleration
  <1> DEFINE o == [open |-> FALSE, queue |-> <<>>, seen |-> {}]
  <1>5. Accelerometer!Closed = o
    BY DEF Accelerometer!Closed
  <1>6. /\ o.open = FALSE /\ o.queue = <<>> /\ o.seen = {}
        /\ o \in [open : BOOLEAN, queue : Seq(Accelerometer!Event), seen : SUBSET Axes]
    OBVIOUS
  <1> HIDE DEF o
  <1>7. s9' = IF s1 = None THEN s9 ELSE [s9 EXCEPT ![s1] = o]
    BY <1>1, <1>5
  <1>8. Accelerometer!Types'
    BY <1>1, <1>2, <1>6, <1>7 DEF Accelerometer!Types, Accelerometer!Labels, Accelerometer!PollLabels
  <1>9. s6[t] \notin {"keep", "rekeep", "forget", "refail"}
    BY <1>1
  <1>10. \A u \in Accelerometer!Thread : s7[u] # None => s7[u] # s1
    BY <1>2, <1>9 DEF Accelerometer!Descriptors, Accelerometer!Forgetting
  <1>11. \A g \in Fd : g # s1 => s9'[g] = s9[g]
    BY <1>2, <1>7 DEF Accelerometer!Types
  <1>12. s1 # None => s9'[s1] = o
    BY <1>2, <1>7 DEF Accelerometer!Types
  <1>13. Accelerometer!Forgetting(t)' /\ \A u \in Accelerometer!Thread \ {t} : s6'[u] = s6[u]
    BY <1>1, <1>2 DEF Accelerometer!Types, Accelerometer!Forgetting
  <1>14. Accelerometer!Descriptors'
    <2>1. \A f \in Fd : ~s9'[f].open => s9'[f] = Accelerometer!Closed
      BY <1>2, <1>5, <1>11, <1>12 DEF Accelerometer!Descriptors, Accelerometer!Types, Accelerometer!FdAssumption
    <2>2. \A u \in Accelerometer!Thread : s7[u] # None => s7[u] \in Fd /\ s9'[s7[u]] = s9[s7[u]] /\ u # t
      BY <1>2, <1>9, <1>10, <1>11 DEF Accelerometer!Types, Accelerometer!Descriptors
    <2>3. \A u \in Accelerometer!Thread : s7[u] # None =>
              /\ s6'[u] \in {"keep", "rekeep"}
              /\ s9'[s7[u]].open /\ s9'[s7[u]].seen = {}
              /\ \A w \in Accelerometer!Thread \ {u} : s7[w] # s7[u] /\ s7[u] # s1
      BY <1>2, <1>10, <1>13, <2>2 DEF Accelerometer!Descriptors
    <2> QED
      BY <1>1, <1>13, <2>1, <2>3 DEF Accelerometer!Descriptors, Accelerometer!Closed
  <1>15. Accelerometer!QueuesTrue'
    <2> SUFFICES ASSUME NEW g \in Fd \cap Accelerometer!Known', s9'[g].open
                 PROVE  Accelerometer!Told(s9'[g].queue, s9'[g].seen, s2', s8')
      BY DEF Accelerometer!QueuesTrue, Accelerometer!Told, Accelerometer!Ends, Accelerometer!At,
             Accelerometer!NotAfter
    <2>1. g # s1
      BY <1>6, <1>12 DEF Accelerometer!FdAssumption
    <2>2. g \in Accelerometer!Known /\ s9'[g] = s9[g]
      BY <1>1, <1>11, <2>1 DEF Accelerometer!Known
    <2> QED
      BY <1>1, <1>2, <2>2 DEF Accelerometer!QueuesTrue
  <1> QED
    BY <1>3, <1>4, <1>8, <1>14, <1>15 DEF Accelerometer!IInv

LEMMA ForgetStep ==
    ASSUME Accelerometer!FdAssumption, Accelerometer!IInv, NEW t \in Accelerometer!Thread,
           Accelerometer!Forget(t)
    PROVE  Accelerometer!IInv'
  <1> USE DEF Accelerometer!held, Accelerometer!history, Accelerometer!Goto, Accelerometer!Thread
  <1>1. /\ UNCHANGED <<s2, s3, s4, s7, s8, s9, s11>>
        /\ s6[t] \in {"forget", "refail"}
        /\ s1' = None /\ s6' = [s6 EXCEPT ![t] = "idle"]
        /\ s10' = IF s6[t] = "refail" THEN "nothing" ELSE s10
    BY DEF Accelerometer!Forget
  <1>2. /\ Accelerometer!Types /\ Accelerometer!Descriptors /\ Accelerometer!PollState
        /\ Accelerometer!QueuesTrue /\ Accelerometer!SampleIsTrue
    BY DEF Accelerometer!IInv
  <1>3. Accelerometer!SampleIsTrue'
    BY <1>1, <1>2, SampleStays
  <1>4. s6[t] = "refail" => t = "data"
    BY <1>2 DEF Accelerometer!Types, Accelerometer!Labels
  <1>5. Accelerometer!PollState'
    BY <1>1, <1>2, <1>4 DEF Accelerometer!PollState, Accelerometer!Types, Accelerometer!Labels,
           Accelerometer!PollLabels, Accelerometer!Acceleration
  <1>6. Accelerometer!Types'
    BY <1>1, <1>2 DEF Accelerometer!Types, Accelerometer!Labels, Accelerometer!PollLabels
  <1>7. Accelerometer!Descriptors'
    BY <1>1, <1>2 DEF Accelerometer!Types, Accelerometer!Descriptors, Accelerometer!FdAssumption
  <1>8. Accelerometer!Known' \cap Fd \subseteq Accelerometer!Known
    BY <1>1 DEF Accelerometer!Known, Accelerometer!FdAssumption
  <1> QED
    BY <1>1, <1>2, <1>3, <1>5, <1>6, <1>7, <1>8, QueuesStay DEF Accelerometer!IInv

\* The steps that touch no descriptor: those of open and close that only decide, and
\* those of data_poll up to the first read.
LEMMA IdleStep ==
    ASSUME Accelerometer!FdAssumption, Accelerometer!IInv,
           \/ \E t \in Accelerometer!Thread : Accelerometer!evdev_open(t) \/ Accelerometer!evdev_close(t)
           \/ Accelerometer!data_poll_orientation \/ Accelerometer!data_poll_start
           \/ Accelerometer!data_poll_fill \/ Accelerometer!data_poll_fail
    PROVE  Accelerometer!IInv'
  <1> USE DEF Accelerometer!held, Accelerometer!history, Accelerometer!Goto, Accelerometer!Thread
  <1>1. /\ Accelerometer!Types /\ Accelerometer!Descriptors /\ Accelerometer!PollState
        /\ Accelerometer!QueuesTrue /\ Accelerometer!SampleIsTrue
    BY DEF Accelerometer!IInv
  <1>2. UNCHANGED <<s1, s2, s7, s8, s9>>
    BY DEF Accelerometer!evdev_open, Accelerometer!evdev_close, Accelerometer!data_poll_orientation,
           Accelerometer!data_poll_start, Accelerometer!data_poll_fill, Accelerometer!data_poll_fail
  <1>3. Accelerometer!QueuesTrue'
    BY <1>1, <1>2, QueuesStay DEF Accelerometer!Known
  <1>4. Accelerometer!Types'
    BY <1>1, <1>2 DEF Accelerometer!Types, Accelerometer!Labels, Accelerometer!PollLabels,
           Accelerometer!evdev_open, Accelerometer!evdev_close, Accelerometer!data_poll_orientation,
           Accelerometer!data_poll_start, Accelerometer!data_poll_fill, Accelerometer!data_poll_fail
  <1>5. \A t \in Accelerometer!Thread :
            (s6[t] \in {"keep", "rekeep"} \/ Accelerometer!Forgetting(t)) => s6'[t] = s6[t]
    <2>1. \E u \in Accelerometer!Thread :
              /\ s6[u] \in {"idle", "fill", "read"}
              /\ s6' = s6 \/ \E l : s6' = [s6 EXCEPT ![u] = l]
      BY DEF Accelerometer!Polling,
             Accelerometer!evdev_open, Accelerometer!evdev_close, Accelerometer!data_poll_orientation,
             Accelerometer!data_poll_start, Accelerometer!data_poll_fill, Accelerometer!data_poll_fail
    <2> QED
      BY <1>1, <2>1 DEF Accelerometer!Types, Accelerometer!Forgetting
  <1>6. Accelerometer!Descriptors'
    BY <1>1, <1>2, <1>5 DEF Accelerometer!Descriptors, Accelerometer!Forgetting, Accelerometer!Closed
  <1>7. Accelerometer!PollState' /\ Accelerometer!SampleIsTrue'
    <2>1. CASE \E t \in Accelerometer!Thread : Accelerometer!evdev_open(t) \/ Accelerometer!evdev_close(t)
      <3>1. UNCHANGED <<s3, s4, s10, s11>>
        BY <2>1 DEF Accelerometer!evdev_open, Accelerometer!evdev_close
      <3>2. s6'["data"] \in Accelerometer!PollLabels => s6'["data"] = s6["data"]
        BY <1>1, <2>1 DEF Accelerometer!evdev_open, Accelerometer!evdev_close, Accelerometer!PollLabels,
               Accelerometer!Types
      <3> QED
        BY <1>1, <1>2, <3>1, <3>2, SampleStays DEF Accelerometer!PollState, Accelerometer!Acceleration,
               Accelerometer!PollLabels
    <2>2. CASE Accelerometer!data_poll_orientation
      BY <1>1, <2>2 DEF Accelerometer!data_poll_orientation, Accelerometer!PollState, Accelerometer!Polling,
             Accelerometer!SampleIsTrue, Accelerometer!PollLabels, Accelerometer!Types
    <2>3. CASE Accelerometer!data_poll_start
      BY <1>1, <2>3 DEF Accelerometer!data_poll_start, Accelerometer!PollState, Accelerometer!Polling,
             Accelerometer!SampleIsTrue, Accelerometer!Types
    <2>4. CASE Accelerometer!data_poll_fill
      BY <1>1, <2>4 DEF Accelerometer!data_poll_fill, Accelerometer!PollState, Accelerometer!Acceleration,
             Accelerometer!SampleIsTrue, Accelerometer!Types, Accelerometer!PollLabels
    <2>5. CASE Accelerometer!data_poll_fail
      BY <1>1, <2>5 DEF Accelerometer!data_poll_fail, Accelerometer!PollState,
             Accelerometer!SampleIsTrue, Accelerometer!Types, Accelerometer!PollLabels
    <2> QED
      BY <2>1, <2>2, <2>3, <2>4, <2>5
  <1> QED
    BY <1>1, <1>3, <1>4, <1>6, <1>7 DEF Accelerometer!IInv

\* An axis is stored where the client looks for it, in the readings and the sample.
LEMMA StoreIs ==
    ASSUME Accelerometer!AxisAssumption, Accelerometer!ReadingAssumption,
           NEW e \in [code : Axes, value : AxisReading],
           NEW o \in [x : AxisReading, y : AxisReading, z : AxisReading]
    PROVE  LET o2 == Accelerometer!Store(o, e)
           IN  /\ o2 \in [x : AxisReading, y : AxisReading, z : AxisReading]
               /\ Accelerometer!Value(o2, e.code) = e.value
               /\ \A a \in Axes \ {e.code} : Accelerometer!Value(o2, a) = Accelerometer!Value(o, a)
               /\ Accelerometer!StoreSample(Accelerometer!Acceleration(o), e)
                    = Accelerometer!Acceleration(o2)
  <1>1. \A a \in Axes : a \in {"ABS_X", "ABS_Y", "ABS_Z"}
    BY DEF Accelerometer!AxisAssumption
  <1>2. e.value \in Int /\ e.value \in AxisReading /\ o.x \in Int /\ o.y \in Int /\ o.z \in Int
    BY DEF Accelerometer!ReadingAssumption
  <1>3. CASE e.code = "ABS_X"
    <2>1. Accelerometer!Store(o, e) = [o EXCEPT !.y = e.value]
      BY <1>3 DEF Accelerometer!Store
    <2> QED
      BY <1>1, <1>2, <1>3, <2>1
         DEF Accelerometer!Value, Accelerometer!StoreSample, Accelerometer!Acceleration
  <1>4. CASE e.code = "ABS_Y"
    <2>1. \A d : Accelerometer!Store(d, e) = [d EXCEPT !.x = e.value]
      BY <1>4 DEF Accelerometer!Store
    <2> QED
      BY <1>1, <1>2, <1>4, <2>1
         DEF Accelerometer!Value, Accelerometer!StoreSample, Accelerometer!Acceleration
  <1>5. CASE e.code = "ABS_Z"
    <2>1. \A d : Accelerometer!Store(d, e) = [d EXCEPT !.z = e.value]
      BY <1>5 DEF Accelerometer!Store
    <2> QED
      BY <1>1, <1>2, <1>5, <2>1
         DEF Accelerometer!Value, Accelerometer!StoreSample, Accelerometer!Acceleration
  <1> QED
    BY <1>1, <1>3, <1>4, <1>5

\* A sample as told shows the axes it was told of.
LEMMA ValueShows ==
    ASSUME Accelerometer!AxisAssumption, NEW o, NEW p, NEW a \in Axes,
           Accelerometer!Value(o, a) = p[a]
    PROVE  Accelerometer!Shows(Accelerometer!Acceleration(o), p, a)
  <1>1. a \in {"ABS_X", "ABS_Y", "ABS_Z"}
    BY DEF Accelerometer!AxisAssumption
  <1> QED
    BY <1>1 DEF Accelerometer!Shows, Accelerometer!Acceleration, Accelerometer!Value

LEMMA ReadStep ==
    ASSUME Accelerometer!FdAssumption, Accelerometer!AxisAssumption, Accelerometer!ReadingAssumption,
           Accelerometer!IInv, Accelerometer!data_poll_read
    PROVE  Accelerometer!IInv'
  <1> USE DEF Accelerometer!held, Accelerometer!history, Accelerometer!Goto
  <1> DEFINE q == s9[s1].queue
             e == Head(q)
             was == s9[s1].seen
  <1>1. /\ Accelerometer!Types /\ Accelerometer!Descriptors /\ Accelerometer!PollState
        /\ Accelerometer!QueuesTrue /\ Accelerometer!SampleIsTrue
    BY DEF Accelerometer!IInv
  <1>2. /\ s6["data"] = "read" /\ s1 # None /\ q # <<>>
        /\ Accelerometer!data_poll_event(e)
        /\ s3' = IF e.code = "EV_SYN" THEN 1 ELSE s3
        /\ UNCHANGED <<s1, s5, s7, s8>>
    BY DEF Accelerometer!data_poll_read
  <1>3. /\ s1 \in Fd /\ s9[s1].open
        /\ s9 \in [Fd -> [open : BOOLEAN, queue : Seq(Accelerometer!Event), seen : SUBSET Axes]]
        /\ q \in Seq(Accelerometer!Event) /\ was \in SUBSET Axes
    BY <1>1, <1>2 DEF Accelerometer!Types, Accelerometer!Descriptors, Accelerometer!Closed
  <1>4. s4 = Accelerometer!Acceleration(s2) /\ s3 = 0 /\ s10 = "none"
    BY <1>1, <1>2 DEF Accelerometer!PollState, Accelerometer!PollLabels
  <1>5. Accelerometer!Told(q, was, s2, s8)
    BY <1>1, <1>3 DEF Accelerometer!QueuesTrue, Accelerometer!Known
  <1>6. e \in Accelerometer!Event /\ e = q[1] /\ Tail(q) \in Seq(Accelerometer!Event)
    BY <1>2, <1>3, HeadTailProperties
  <1>7. "EV_SYN" \notin Axes
    BY DEF Accelerometer!AxisAssumption
  \* Nobody else is about to keep this descriptor.
  <1>8. \A t \in Accelerometer!Thread : s7[t] # None => s7[t] # s1 /\ s7[t] \in Fd
    BY <1>1, <1>2 DEF Accelerometer!Descriptors, Accelerometer!Thread, Accelerometer!Forgetting,
           Accelerometer!Types
  <1> HIDE DEF q, e, was
  <1>9. ASSUME NEW seen2 \in SUBSET Axes,
               \A g \in Fd : g # s1 => s9'[g] = s9[g],
               s9' \in [Fd -> [open : BOOLEAN, queue : Seq(Accelerometer!Event), seen : SUBSET Axes]],
               s9'[s1].open, s9'[s1].queue = Tail(q), s9'[s1].seen = seen2,
               s6' = s6 \/ s6' = [s6 EXCEPT !["data"] = "idle"],
               s2' \in [x : AxisReading, y : AxisReading, z : AxisReading],
               Accelerometer!Told(Tail(q), seen2, s2', s8),
               Accelerometer!PollState', Accelerometer!SampleIsTrue'
        PROVE  Accelerometer!IInv'
    <2>1. Accelerometer!Types'
      BY <1>1, <1>2, <1>9 DEF Accelerometer!Types, Accelerometer!Thread, Accelerometer!Labels,
             Accelerometer!PollLabels
    <2>2. Accelerometer!Descriptors'
      <3>1. \A f \in Fd : ~s9'[f].open => s9'[f] = Accelerometer!Closed
        BY <1>1, <1>9 DEF Accelerometer!Descriptors
      <3>2. \A t \in Accelerometer!Thread : s7[t] # None => s9'[s7[t]] = s9[s7[t]] /\ s6'[t] = s6[t]
        BY <1>1, <1>2, <1>8, <1>9 DEF Accelerometer!Types, Accelerometer!Descriptors, Accelerometer!Thread
      <3> QED
        BY <1>1, <1>2, <1>8, <1>9, <3>1, <3>2, ZenonT(60) DEF Accelerometer!Descriptors, Accelerometer!Closed
    <2>3. Accelerometer!QueuesTrue'
      <3> SUFFICES ASSUME NEW g \in Fd \cap Accelerometer!Known', s9'[g].open
                   PROVE  Accelerometer!Told(s9'[g].queue, s9'[g].seen, s2', s8')
        BY DEF Accelerometer!QueuesTrue, Accelerometer!Told, Accelerometer!Ends, Accelerometer!At,
               Accelerometer!NotAfter
      <3>1. CASE g = s1
        BY <1>2, <1>9, <3>1
      <3>2. CASE g # s1
        <4>1. PICK t \in Accelerometer!Thread : g = s7[t]
          BY <1>2, <3>2 DEF Accelerometer!Known
        <4>2. g \in Accelerometer!Known /\ s9'[g] = s9[g] /\ s9[g].seen = {}
          BY <1>1, <1>2, <1>9, <3>2, <4>1 DEF Accelerometer!Known, Accelerometer!Descriptors,
                 Accelerometer!FdAssumption
        <4>3. Accelerometer!Told(s9[g].queue, {}, s2, s8)
          BY <1>1, <4>2 DEF Accelerometer!QueuesTrue
        <4>4. Accelerometer!Told(s9[g].queue, {}, s2', s8)
          BY <4>3 DEF Accelerometer!Told
        <4> QED
          BY <1>2, <4>2, <4>4
      <3> QED
        BY <3>1, <3>2
    <2> QED
      BY <1>9, <2>1, <2>2, <2>3 DEF Accelerometer!IInv
  <1>10. CASE e.code = "EV_SYN"
    <2>1. /\ s9' = [s9 EXCEPT ![s1].queue = Tail(@)]
          /\ s10' = "acceleration" /\ s11' = [at |-> e.at, seen |-> was]
          /\ s6' = [s6 EXCEPT !["data"] = "idle"]
          /\ UNCHANGED <<s2, s4>> /\ s3' = 1
      BY <1>2, <1>10 DEF Accelerometer!data_poll_event, was
    <2>2. /\ \A g \in Fd : g # s1 => s9'[g] = s9[g]
          /\ s9' \in [Fd -> [open : BOOLEAN, queue : Seq(Accelerometer!Event), seen : SUBSET Axes]]
          /\ s9'[s1].open /\ s9'[s1].queue = Tail(q) /\ s9'[s1].seen = was
      BY <1>3, <1>6, <2>1 DEF q, was
    <2>3. Accelerometer!Told(Tail(q), was, s2, s8)
      BY <1>2, <1>3, <1>5, <1>6, <1>7, <1>10, ToldAfterSyn
    <2>4. Accelerometer!PollState'
      BY <1>1, <1>4, <2>1 DEF Accelerometer!PollState, Accelerometer!Types, Accelerometer!Thread,
             Accelerometer!PollLabels, Accelerometer!Acceleration
    <2>5. Accelerometer!SampleIsTrue'
      <3>1. \A a \in was : Accelerometer!Value(s2, a) = e.at[a]
        <4> SUFFICES ASSUME NEW a \in was PROVE Accelerometer!Value(s2, a) = e.at[a]
          OBVIOUS
        <4>1. Len(q) \in Nat /\ Len(q) > 0
          BY <1>2, <1>3
        <4>2. 1 \in 1..Len(q) + 1 /\ ~(1 > Len(q)) /\ a \in Axes
          BY <1>3, <4>1
        <4>3. Accelerometer!Ends(q, 1) /\ Accelerometer!NotAfter(q, 0, 1, a)
          BY <1>6, <1>10 DEF Accelerometer!Ends, Accelerometer!NotAfter
        <4>4. Accelerometer!At(q, 1, s8, a) = e.at[a]
          BY <1>6, <4>2 DEF Accelerometer!At
        <4> QED
          BY <1>5, <4>2, <4>3, <4>4 DEF Accelerometer!Told
      <3>2. \A a \in was : Accelerometer!Shows(s4, e.at, a)
        BY <1>3, <1>4, <3>1, ValueShows
      <3> QED
        BY <2>1, <3>2 DEF Accelerometer!SampleIsTrue, Accelerometer!Shows
    <2> QED
      BY <1>1, <1>3, <1>9, <2>1, <2>2, <2>3, <2>4, <2>5 DEF Accelerometer!Types
  <1>11. CASE e.code # "EV_SYN"
    <2>1. /\ s9' = [s9 EXCEPT ![s1].queue = Tail(@), ![s1].seen = @ \cup {e.code}]
          /\ s2' = Accelerometer!Store(s2, e) /\ s4' = Accelerometer!StoreSample(s4, e)
          /\ UNCHANGED <<s6, s10, s11, s3>>
      BY <1>2, <1>11 DEF Accelerometer!data_poll_event
    <2>2. e \in [code : Axes, value : AxisReading] /\ e.code \in Axes
      BY <1>6, <1>11 DEF Accelerometer!Event
    <2>3. was \cup {e.code} \in SUBSET Axes
      BY <1>3, <2>2
    <2>4. /\ \A g \in Fd : g # s1 => s9'[g] = s9[g]
          /\ s9' \in [Fd -> [open : BOOLEAN, queue : Seq(Accelerometer!Event), seen : SUBSET Axes]]
          /\ s9'[s1].open /\ s9'[s1].queue = Tail(q) /\ s9'[s1].seen = was \cup {e.code}
      BY <1>3, <1>6, <2>1, <2>3 DEF q, was
    <2>5. /\ s2' \in [x : AxisReading, y : AxisReading, z : AxisReading]
          /\ Accelerometer!Value(s2', e.code) = e.value
          /\ \A a \in Axes \ {e.code} : Accelerometer!Value(s2', a) = Accelerometer!Value(s2, a)
          /\ s4' = Accelerometer!Acceleration(s2')
      BY <1>1, <1>4, <2>1, <2>2, StoreIs DEF Accelerometer!Types
    <2>6. Accelerometer!Told(Tail(q), was \cup {e.code}, s2', s8)
      BY <1>2, <1>3, <1>5, <1>6, <2>2, <2>5, ToldAfterAbs
    <2>7. Accelerometer!PollState'
      BY <1>1, <1>2, <1>4, <2>1, <2>5 DEF Accelerometer!PollState, Accelerometer!PollLabels,
             Accelerometer!Acceleration
    <2>8. Accelerometer!SampleIsTrue'
      BY <1>4, <2>1 DEF Accelerometer!SampleIsTrue
    <2> QED
      BY <1>9, <2>1, <2>3, <2>4, <2>5, <2>6, <2>7, <2>8
  <1> QED
    BY <1>10, <1>11

LEMMA MoveStep ==
    ASSUME Accelerometer!FdAssumption, Accelerometer!AxisAssumption,
           Accelerometer!IInv, Accelerometer!Move
    PROVE  Accelerometer!IInv'
  <1> USE DEF Accelerometer!held, Accelerometer!history
  <1> DEFINE Pushed(s, p2) == [s EXCEPT !.queue = @ \o Accelerometer!Frame(s8, p2)]
             Entry == [open : BOOLEAN, queue : Seq(Accelerometer!Event), seen : SUBSET Axes]
  <1>1. /\ Accelerometer!Types /\ Accelerometer!Descriptors /\ Accelerometer!PollState
        /\ Accelerometer!QueuesTrue /\ Accelerometer!SampleIsTrue
    BY DEF Accelerometer!IInv
  <1>2. PICK p2 \in Accelerometer!Position :
            /\ s8' = p2
            /\ s9' = [f \in Fd |-> IF f \in Accelerometer!Known /\ s9[f].open
                                   THEN Pushed(s9[f], p2) ELSE s9[f]]
            /\ UNCHANGED <<s1, s2, s3, s4, s5, s6, s7, s10, s11>>
    BY DEF Accelerometer!Move
  <1> DEFINE F == Accelerometer!Frame(s8, p2)
  <1>3. F \in Seq(Accelerometer!Event) /\ IsFrame(F, s8, p2)
    BY <1>1, FrameTells DEF Accelerometer!Types
  <1> HIDE DEF F
  <1>4. \A f \in Fd : s9[f] \in Entry
    BY <1>1 DEF Accelerometer!Types
  <1>5. \A s \in Entry : LET u == [s EXCEPT !.queue = @ \o F]
                         IN  u \in Entry /\ u.open = s.open /\ u.seen = s.seen /\ u.queue = s.queue \o F
    <2> SUFFICES ASSUME NEW s \in Entry
                 PROVE  LET u == [s EXCEPT !.queue = @ \o F]
                        IN  u \in Entry /\ u.open = s.open /\ u.seen = s.seen /\ u.queue = s.queue \o F
      OBVIOUS
    <2>1. s.queue \o F \in Seq(Accelerometer!Event)
      BY <1>3
    <2> DEFINE w == s.queue \o F
    <2>2. w \in Seq(Accelerometer!Event)
      BY <2>1
    <2> HIDE DEF w
    <2>3. LET u == [s EXCEPT !.queue = w]
          IN  u \in Entry /\ u.open = s.open /\ u.seen = s.seen /\ u.queue = w
      BY <2>2
    <2> QED
      BY <2>3 DEF w
  <1>6. \A f \in Fd : /\ s9'[f] = s9[f] \/ s9'[f] = [s9[f] EXCEPT !.queue = @ \o F]
                      /\ ~s9[f].open => s9'[f] = s9[f]
                      /\ f \in Accelerometer!Known /\ s9[f].open => s9'[f] = [s9[f] EXCEPT !.queue = @ \o F]
    BY <1>2 DEF F
  <1>7. \A f \in Fd : s9'[f] \in Entry /\ s9'[f].open = s9[f].open /\ s9'[f].seen = s9[f].seen
    <2> SUFFICES ASSUME NEW f \in Fd
                 PROVE  s9'[f] \in Entry /\ s9'[f].open = s9[f].open /\ s9'[f].seen = s9[f].seen
      OBVIOUS
    <2> DEFINE u == [s9[f] EXCEPT !.queue = @ \o F]
    <2>1. s9[f] \in Entry
      BY <1>4
    <2>2. u \in Entry /\ u.open = s9[f].open /\ u.seen = s9[f].seen
      BY <1>5, <2>1
    <2>3. s9'[f] = s9[f] \/ s9'[f] = u
      BY <1>6
    <2> HIDE DEF u, Entry
    <2> QED
      BY <2>1, <2>2, <2>3
  <1>8. DOMAIN s9' = Fd /\ s9' = [f \in Fd |-> s9'[f]]
    BY <1>2
  <1> HIDE DEF Entry
  <1>9. s9' \in [Fd -> Entry]
    BY <1>7, <1>8
  <1>10. Accelerometer!Types'
    BY <1>1, <1>2, <1>9 DEF Accelerometer!Types, Entry
  <1>11. Accelerometer!Descriptors'
    <2>1. \A f \in Fd : ~s9'[f].open => s9'[f] = Accelerometer!Closed
      BY <1>1, <1>6, <1>7 DEF Accelerometer!Descriptors
    <2>2. \A t \in Accelerometer!Thread : s7[t] # None => s7[t] \in Fd
      BY <1>1 DEF Accelerometer!Types
    <2>3. s1 # None => s1 \in Fd
      BY <1>1 DEF Accelerometer!Types
    <2> QED
      BY <1>1, <1>2, <1>7, <2>1, <2>2, <2>3 DEF Accelerometer!Descriptors, Accelerometer!Forgetting,
             Accelerometer!Closed
  <1>12. Accelerometer!PollState'
    BY <1>1, <1>2 DEF Accelerometer!PollState, Accelerometer!Acceleration
  <1>13. Accelerometer!SampleIsTrue'
    BY <1>1, <1>2, SampleStays
  <1>14. Accelerometer!QueuesTrue'
    <2> SUFFICES ASSUME NEW g \in Fd \cap Accelerometer!Known', s9'[g].open
                 PROVE  Accelerometer!Told(s9'[g].queue, s9'[g].seen, s2', s8')
      BY DEF Accelerometer!QueuesTrue, Accelerometer!Told, Accelerometer!Ends, Accelerometer!At,
             Accelerometer!NotAfter
    <2>1. g \in Accelerometer!Known /\ s9[g].open
      BY <1>2, <1>7 DEF Accelerometer!Known
    <2>2. Accelerometer!Told(s9[g].queue, s9[g].seen, s2, s8)
      BY <1>1, <2>1 DEF Accelerometer!QueuesTrue
    <2>3. s9[g].queue \in Seq(Accelerometer!Event)
      BY <1>4 DEF Entry
    <2>4. Accelerometer!Told(s9[g].queue \o F, s9[g].seen, s2, p2)
      BY <1>3, <2>2, <2>3, ToldAfterFrame
    <2>5. s9'[g].queue = s9[g].queue \o F /\ s9'[g].seen = s9[g].seen
      BY <1>4, <1>5, <1>6, <2>1
    <2> QED
      BY <1>2, <2>4, <2>5
  <1> QED
    BY <1>10, <1>11, <1>12, <1>13, <1>14 DEF Accelerometer!IInv

LEMMA AccelStep ==
    ASSUME Accelerometer!FdAssumption, Accelerometer!AxisAssumption, Accelerometer!ReadingAssumption,
           Accelerometer!IInv, [Accelerometer!Next]_(Accelerometer!sensorsVars)
    PROVE  Accelerometer!IInv'
  <1>1. CASE UNCHANGED Accelerometer!sensorsVars
    <2>1. UNCHANGED <<s1, s2, s3, s4, s5, s6, s7, s8, s9, s10, s11>>
      BY <1>1 DEF Accelerometer!sensorsVars, Accelerometer!held, Accelerometer!history
    <2>2. Accelerometer!SampleIsTrue'
      BY <2>1, SampleStays DEF Accelerometer!IInv
    <2>3. Accelerometer!QueuesTrue'
      BY <2>1, QueuesStay DEF Accelerometer!IInv, Accelerometer!Known
    <2>4. Accelerometer!Types' /\ Accelerometer!Descriptors' /\ Accelerometer!PollState'
      BY <2>1 DEF Accelerometer!IInv, Accelerometer!Types, Accelerometer!Descriptors, Accelerometer!PollState,
             Accelerometer!Forgetting, Accelerometer!Closed, Accelerometer!Acceleration
    <2> QED
      BY <2>2, <2>3, <2>4 DEF Accelerometer!IInv
  <1> QED
    BY <1>1, OpenStep, KeepStep, CloseStep, ForgetStep, IdleStep, ReadStep, MoveStep
       DEF Accelerometer!Next, Accelerometer!Thread

\* A sample is followed by its orientation.
LEMMA OrientationStep ==
    ASSUME Accelerometer!ReadingAssumption, Accelerometer!IInv,
           [Accelerometer!Next]_(Accelerometer!sensorsVars)
    PROVE  Accelerometer!OrientationFollows
  <1> USE DEF Accelerometer!history, Accelerometer!held
  <1>1. /\ Accelerometer!Types /\ Accelerometer!PollState
    BY DEF Accelerometer!IInv
  <1>2. CASE Accelerometer!data_poll_orientation
    <2>1. s10 = "acceleration" /\ s4 = Accelerometer!Acceleration(s2)
          /\ s10' = "orientation" /\ s4' = Accelerometer!Orientation(s2)
      BY <1>1, <1>2 DEF Accelerometer!data_poll_orientation, Accelerometer!PollState
    <2>2. s2.x \in Int /\ s2.y \in Int /\ s2.z \in Int
      BY <1>1 DEF Accelerometer!Types, Accelerometer!ReadingAssumption
    <2>3. [s4 EXCEPT !.y = -@] = [x |-> s2.x, y |-> -(-s2.y), z |-> s2.z]
      BY <2>1 DEF Accelerometer!Acceleration
    <2>4. -(-s2.y) = s2.y
      BY <2>2
    <2>5. s2 = [x |-> s2.x, y |-> s2.y, z |-> s2.z]
      BY <1>1 DEF Accelerometer!Types
    <2>6. [s4 EXCEPT !.y = -@] = s2
      BY <2>3, <2>4, <2>5
    <2> QED
      BY <2>1, <2>6 DEF Accelerometer!OrientationFollows
  <1>3. CASE Accelerometer!data_poll_start
    BY <1>1, <1>3 DEF Accelerometer!data_poll_start, Accelerometer!PollState, Accelerometer!OrientationFollows
  <1>4. CASE Accelerometer!data_poll_read
    <2>1. s10 = "none" /\ (s10' = s10 \/ s10' = "acceleration")
      BY <1>1, <1>4 DEF Accelerometer!data_poll_read, Accelerometer!data_poll_event,
             Accelerometer!PollState, Accelerometer!PollLabels
    <2> QED
      BY <2>1 DEF Accelerometer!OrientationFollows
  <1>5. ASSUME NEW t \in Accelerometer!Thread, Accelerometer!Forget(t)
        PROVE  Accelerometer!OrientationFollows
    <2>1. s10' = s10 \/ (s10' = "nothing" /\ s10 = "none")
      BY <1>1, <1>5 DEF Accelerometer!Forget, Accelerometer!PollState, Accelerometer!PollLabels,
             Accelerometer!Types, Accelerometer!Labels, Accelerometer!Thread
    <2> QED
      BY <2>1 DEF Accelerometer!OrientationFollows
  <1>6. CASE s10' = s10
    BY <1>6 DEF Accelerometer!OrientationFollows
  <1>7. \/ s10' = s10 \/ Accelerometer!data_poll_orientation \/ Accelerometer!data_poll_start
        \/ Accelerometer!data_poll_read \/ \E t \in Accelerometer!Thread : Accelerometer!Forget(t)
    BY DEF Accelerometer!Next, Accelerometer!open_input, Accelerometer!evdev_open,
           Accelerometer!evdev_open_keep, Accelerometer!evdev_close, Accelerometer!CloseIt,
           Accelerometer!data_poll_reopened, Accelerometer!data_poll_fill,
           Accelerometer!data_poll_fail, Accelerometer!Move, Accelerometer!sensorsVars
  <1> QED
    BY <1>2, <1>3, <1>4, <1>5, <1>6, <1>7
LEMMA SwitchesStart == Switches!Init => Switches!IInv
  BY DEF Switches!Init, Switches!IInv, Switches!ActiveIsOn

\* What either chip says is on is on.
LEMMA AkmOn ==
    ASSUME NEW opens, NEW sensors \in SUBSET Switches!AKM_GROUP, NEW mask,
           s3 \subseteq Switches!AKM_GROUP
    PROVE  LET akm == Switches!Akm(opens, sensors, mask)
           IN  akm.now \subseteq akm.flags /\ akm.flags \subseteq Switches!AKM_GROUP
  BY DEF Switches!Akm

LEMMA Kxsd9On ==
    ASSUME NEW sensors \in SUBSET Switches!KXSD9_GROUP, NEW mask
    PROVE  LET kxsd9 == Switches!Kxsd9(sensors, mask)
           IN  kxsd9.now \subseteq Switches!KXSD9_GROUP /\ (kxsd9.now # {} => kxsd9.power)
  BY DEF Switches!Kxsd9

LEMMA SwitchesStep ==
    ASSUME Switches!IInv, [Switches!Next]_(Switches!controlVars)
    PROVE  Switches!IInv'
  <1> USE DEF Switches!IInv, Switches!ActiveIsOn
  <1>1. CASE Switches!activate
    <2>1. CASE UNCHANGED <<s1, s2, s3, s4>>
      BY <2>1 DEF Switches!AKM_GROUP
    <2>3. PICK h \in Switches!SUPPORTED_SENSORS, enabled \in BOOLEAN, found \in BOOLEAN,
               taken \in SUBSET Switches!AKM_GROUP :
               LET new == IF enabled THEN s2 \cup {h} ELSE s2 \ {h}
                   differ == (s2 \ new) \cup (new \ s2)
                   changed == IF s2 = {} /\ new # {} THEN Switches!SUPPORTED_SENSORS ELSE differ
                   akm == Switches!Akm(s1 \/ found, new \cap Switches!AKM_GROUP, changed \cap taken)
                   kxsd9 == Switches!Kxsd9(new \cap Switches!KXSD9_GROUP, changed \cap Switches!KXSD9_GROUP)
               IN  /\ IF differ = {} THEN UNCHANGED <<s1, s2, s3, s4>>
                      ELSE /\ s1' = akm.fd /\ s3' = akm.flags
                           /\ s4' = kxsd9.power
                           /\ s2' = akm.now \cup kxsd9.now
                   /\ UNCHANGED s5
      BY <1>1, Zenon DEF Switches!activate
    <2> DEFINE new == IF enabled THEN s2 \cup {h} ELSE s2 \ {h}
               differ == (s2 \ new) \cup (new \ s2)
               changed == IF s2 = {} /\ new # {} THEN Switches!SUPPORTED_SENSORS ELSE differ
               akm == Switches!Akm(s1 \/ found, new \cap Switches!AKM_GROUP, changed \cap taken)
               kxsd9 == Switches!Kxsd9(new \cap Switches!KXSD9_GROUP, changed \cap Switches!KXSD9_GROUP)
    <2>4. differ = {} => UNCHANGED <<s1, s2, s3, s4>>
      BY <2>3
    <2>5. differ # {} => s3' = akm.flags /\ s4' = kxsd9.power /\ s2' = akm.now \cup kxsd9.now
      BY <2>3
    <2>6. new \cap Switches!AKM_GROUP \in SUBSET Switches!AKM_GROUP
          /\ new \cap Switches!KXSD9_GROUP \in SUBSET Switches!KXSD9_GROUP
      OBVIOUS
    <2>7. akm.now \subseteq akm.flags /\ akm.flags \subseteq Switches!AKM_GROUP
      <3>1. s3 \subseteq Switches!AKM_GROUP
        OBVIOUS
      <3> HIDE DEF new, changed
      <3> QED
        BY ONLY <2>6, <3>1, AkmOn
    <2>8. kxsd9.now \subseteq Switches!KXSD9_GROUP /\ (kxsd9.now # {} => kxsd9.power)
      BY <2>6, Kxsd9On
    <2> HIDE DEF akm, kxsd9, differ
    <2>9. CASE differ # {}
      BY <2>9, <2>5, <2>7, <2>8 DEF Switches!AKM_GROUP, Switches!KXSD9_GROUP
    <2> QED
      BY <2>1, <2>4, <2>9
  <1>2. CASE Switches!wake
    BY <1>2 DEF Switches!wake, Switches!AKM_GROUP
  <1>3. CASE Switches!close
    BY <1>3 DEF Switches!close, Switches!AKM_GROUP
  <1>4. CASE UNCHANGED Switches!controlVars
    BY <1>4 DEF Switches!controlVars, Switches!AKM_GROUP
  <1> QED
    BY <1>1, <1>2, <1>3, <1>4 DEF Switches!Next
-----------------------------------------------------------------------------
(* SensorsData: what holds of a turn of the loop after each event.          *)

Turn == [A : Samples!Sample, O : Samples!Sample, old : Samples!Sample,
         new : SUBSET Samples!Sensor, pending : SUBSET Samples!Sensor,
         due : [A : Samples!Sample, O : Samples!Sample], seen : SUBSET Samples!Axis,
         got_syn : BOOLEAN, exit : BOOLEAN]

Together(t) ==
    /\ "A" \in t.new <=> "O" \in t.new
    /\ \A a \in t.seen : t.A[a] = t.old[a]
    /\ t.seen # {} => t.O = t.old

Held(t) ==
    /\ "A" \in t.pending => t.A = t.due.A /\ "O" \in t.pending
    /\ "O" \in t.pending => t.O = t.due.O
    /\ t.pending # {} => t.got_syn

Sound(t) == t \in Turn /\ Together(t) /\ Held(t)

\* EV_SYN ends a frame: what is new becomes pending as it is.
LEMMA SynSound ==
    ASSUME NEW t \in Turn, Together(t), t.got_syn,
           "A" \in t.pending => (t.A = t.due.A \/ "A" \in t.new) /\ "O" \in t.pending,
           "O" \in t.pending => t.O = t.due.O \/ "O" \in t.new
    PROVE  Sound(Samples!process_syn(t)) /\ Samples!process_syn(t).got_syn
  <1> DEFINE u == Samples!process_syn(t)
  <1>1. /\ t.A \in Samples!Sample /\ t.O \in Samples!Sample /\ t.old \in Samples!Sample
        /\ t.new \in SUBSET Samples!Sensor /\ t.pending \in SUBSET Samples!Sensor
        /\ t.due \in [A : Samples!Sample, O : Samples!Sample]
        /\ t.seen \in SUBSET Samples!Axis /\ t.got_syn \in BOOLEAN /\ t.exit \in BOOLEAN
    BY DEF Turn
  <1>2. /\ t.due.A \in Samples!Sample /\ t.due.O \in Samples!Sample
    BY <1>1
  <1> DEFINE d == [A |-> IF "A" \in t.new THEN t.A ELSE t.due.A,
                   O |-> IF "O" \in t.new THEN t.O ELSE t.due.O]
             p == t.pending \cup t.new
             u1 == [t EXCEPT !.pending = p]
             u2 == [u1 EXCEPT !.new = {}]
             u3 == [u2 EXCEPT !.due = d]
  <1>3. d \in [A : Samples!Sample, O : Samples!Sample] /\ p \in SUBSET Samples!Sensor
    BY <1>1, <1>2
  <1>4. d.A = (IF "A" \in t.new THEN t.A ELSE t.due.A) /\ d.O = (IF "O" \in t.new THEN t.O ELSE t.due.O)
    OBVIOUS
  <1>5. u = u3
    BY DEF Samples!process_syn
  <1> HIDE DEF d, p, u
  <1>6. /\ u1 \in Turn /\ u1.pending = p /\ u1.A = t.A /\ u1.O = t.O /\ u1.old = t.old
        /\ u1.seen = t.seen /\ u1.got_syn = t.got_syn
    BY <1>3 DEF Turn
  <1> HIDE DEF u1
  <1>7. /\ u2 \in Turn /\ u2.pending = p /\ u2.A = t.A /\ u2.O = t.O /\ u2.old = t.old
        /\ u2.seen = t.seen /\ u2.got_syn = t.got_syn /\ u2.new = {}
    BY <1>6 DEF Turn
  <1> HIDE DEF u2
  <1>8. /\ u3 \in Turn /\ u3.pending = p /\ u3.A = t.A /\ u3.O = t.O /\ u3.old = t.old
        /\ u3.seen = t.seen /\ u3.got_syn = t.got_syn /\ u3.new = {} /\ u3.due = d
    BY <1>3, <1>7 DEF Turn
  <1> HIDE DEF u3
  <1>9. Together(u)
    BY <1>5, <1>8 DEF Together
  <1>10. Held(u)
    BY <1>4, <1>5, <1>8 DEF Together, Held, p
  <1> QED
    BY <1>5, <1>8, <1>9, <1>10 DEF Sound, u

LEMMA AkmSound ==
    ASSUME NEW t, Sound(t), ~t.got_syn, NEW e \in Samples!AkmEvents
    PROVE  Sound(Samples!akm(t, e))
  <1>1. /\ t \in Turn /\ Together(t) /\ Held(t)
        /\ t.new \in SUBSET Samples!Sensor
    BY DEF Sound, Turn
  <1>2. CASE e \in {"none", "short"}
    BY <1>2 DEF Samples!akm
  <1>3. CASE e = "MAGV"
    <2> DEFINE u == [t EXCEPT !.new = @ \cup {"M"}]
    <2>1. Samples!akm(t, e) = u
      BY <1>3 DEF Samples!akm
    <2>2. u \in Turn
      BY <1>1 DEF Turn, Samples!Sensor
    <2>3. Together(u) /\ Held(u)
      BY <1>1 DEF Turn, Together, Held
    <2> QED
      BY <2>1, <2>2, <2>3 DEF Sound
  <1>4. CASE e = "TEMPERATURE"
    <2> DEFINE u == [t EXCEPT !.new = @ \cup {"T"}]
    <2>1. Samples!akm(t, e) = u
      BY <1>4 DEF Samples!akm
    <2>2. u \in Turn
      BY <1>1 DEF Turn, Samples!Sensor
    <2>3. Together(u) /\ Held(u)
      BY <1>1 DEF Turn, Together, Held
    <2> QED
      BY <2>1, <2>2, <2>3 DEF Sound
  <1>5. CASE e = "EV_SYN"
    <2> DEFINE u == [t EXCEPT !.got_syn = TRUE]
    <2>1. Samples!akm(t, e) = Samples!process_syn(u)
      BY <1>5 DEF Samples!akm
    <2>2. u \in Turn /\ u.got_syn
      BY <1>1 DEF Turn
    <2>3. Together(u) /\ Held(u)
      BY <1>1 DEF Turn, Together, Held
    <2> HIDE DEF u
    <2> QED
      BY <2>1, <2>2, <2>3, SynSound DEF Held
  <1>6. CASE e = "SYN_CONFIG"
    <2> DEFINE u == [t EXCEPT !.got_syn = TRUE, !.exit = TRUE]
    <2>1. Samples!akm(t, e) = Samples!process_syn(u)
      BY <1>6 DEF Samples!akm
    <2>2. u \in Turn /\ u.got_syn
      BY <1>1 DEF Turn
    <2>3. Together(u) /\ Held(u)
      BY <1>1 DEF Turn, Together, Held
    <2> HIDE DEF u
    <2> QED
      BY <2>1, <2>2, <2>3, SynSound DEF Held
  <1> QED
    BY <1>2, <1>3, <1>4, <1>5, <1>6 DEF Samples!AkmEvents

LEMMA Kxsd9Sound ==
    ASSUME NEW t, Sound(t), NEW e \in Samples!KxEvents
    PROVE  Sound(Samples!kxsd9(t, e))
  <1>1. t \in Turn /\ Together(t) /\ Held(t)
    BY DEF Sound
  <1>2. CASE e.code \in {"none", "short"}
    <2>1. e.code # "EV_SYN" /\ e.code \notin Samples!Axis
      BY <1>2 DEF Samples!Axis
    <2>2. Samples!kxsd9(t, e) = t
      BY <1>2, <2>1 DEF Samples!kxsd9
    <2> QED
      BY <2>2
  <1>3. CASE e.code = "EV_SYN"
    <2> DEFINE u == [t EXCEPT !.got_syn = TRUE]
    <2>1. Samples!kxsd9(t, e) = Samples!process_syn(u)
      <3>1. e.code \notin {"none", "short"} /\ e.code \notin Samples!Axis
        BY <1>3 DEF Samples!Axis
      <3> QED
        BY <1>3, <3>1 DEF Samples!kxsd9
    <2>2. u \in Turn /\ u.got_syn
      BY <1>1 DEF Turn
    <2>3. Together(u) /\ Held(u)
      BY <1>1 DEF Turn, Together, Held
    <2> HIDE DEF u
    <2> QED
      BY <2>1, <2>2, <2>3, SynSound DEF Held
  <1>4. CASE e.code \in Samples!Axis
    <2> DEFINE a == e.code
               v == e.value
               u == [Samples!abs(t, a, v) EXCEPT !.exit = @ \/ (t.got_syn /\ a = "ABS_Y")]
    <2>1. a \in Samples!Axis /\ v \in SampleReading
      BY <1>4 DEF Samples!KxEvents, Samples!Axis
    <2>2. Samples!kxsd9(t, e) = IF t.got_syn THEN Samples!process_syn(u) ELSE u
      BY <1>4 DEF Samples!kxsd9, Samples!Axis
    <2> HIDE DEF a, v
    <2>3. /\ t.A \in Samples!Sample /\ t.O \in Samples!Sample /\ t.old \in Samples!Sample
          /\ t.new \in SUBSET Samples!Sensor /\ t.pending \in SUBSET Samples!Sensor
          /\ t.due \in [A : Samples!Sample, O : Samples!Sample]
          /\ t.seen \in SUBSET Samples!Axis /\ t.got_syn \in BOOLEAN /\ t.exit \in BOOLEAN
      BY <1>1 DEF Turn
    <2>4. [t.A EXCEPT ![a] = v] \in Samples!Sample /\ [t.old EXCEPT ![a] = v] \in Samples!Sample
      BY <2>1, <2>3 DEF Samples!Sample
    <2>5. (t.exit \/ (t.got_syn /\ a = "ABS_Y")) \in BOOLEAN
      OBVIOUS
    <2> DEFINE A == [t.A EXCEPT ![a] = v]
               o == [t.old EXCEPT ![a] = v]
               t1 == [t EXCEPT !.A[a] = v]
               t2 == [t1 EXCEPT !.old[a] = v]
               t3 == [t2 EXCEPT !.O = o]
               t4 == [t3 EXCEPT !.new = @ \cup {"A", "O"}]
               t5 == [t4 EXCEPT !.seen = @ \cup {a}]
               t6 == [t5 EXCEPT !.exit = @ \/ (t.got_syn /\ a = "ABS_Y")]
    <2>15. A \in Samples!Sample /\ o \in Samples!Sample
      BY <2>4
    <2>16. u = t6
      BY DEF Samples!abs, u
    <2>17. t1 = [t EXCEPT !.A = A] /\ t1.old = t.old
      BY <1>1 DEF Turn
    <2>18. \A b \in t.seen \cup {a} : A[b] = o[b]
      BY <1>1, <2>1, <2>3 DEF Together, Samples!Sample
    <2> HIDE DEF A, u
    <2>20. t1 \in Turn /\ t1.A = A /\ t1.old = t.old /\ t1.new = t.new /\ t1.pending = t.pending
           /\ t1.due = t.due /\ t1.seen = t.seen /\ t1.got_syn = t.got_syn
      BY <1>1, <2>15, <2>17 DEF Turn
    <2> HIDE DEF t1
    <2>21. t2 = [t1 EXCEPT !.old = o]
      BY <2>20 DEF Turn
    <2> HIDE DEF o
    <2>22. t2 \in Turn /\ t2.A = A /\ t2.old = o /\ t2.new = t.new /\ t2.pending = t.pending
           /\ t2.due = t.due /\ t2.seen = t.seen /\ t2.got_syn = t.got_syn
      BY <2>15, <2>20, <2>21 DEF Turn
    <2> HIDE DEF t2
    <2>23. t3 \in Turn /\ t3.A = A /\ t3.old = o /\ t3.O = o /\ t3.new = t.new /\ t3.pending = t.pending
           /\ t3.due = t.due /\ t3.seen = t.seen /\ t3.got_syn = t.got_syn
      BY <2>15, <2>22 DEF Turn
    <2> HIDE DEF t3
    <2>24. t4 \in Turn /\ t4.A = A /\ t4.old = o /\ t4.O = o /\ t4.new = t.new \cup {"A", "O"}
           /\ t4.pending = t.pending /\ t4.due = t.due /\ t4.seen = t.seen /\ t4.got_syn = t.got_syn
      BY <2>23 DEF Turn, Samples!Sensor
    <2> HIDE DEF t4
    <2>25. t5 \in Turn /\ t5.A = A /\ t5.old = o /\ t5.O = o /\ t5.new = t.new \cup {"A", "O"}
           /\ t5.pending = t.pending /\ t5.due = t.due /\ t5.seen = t.seen \cup {a}
           /\ t5.got_syn = t.got_syn
      BY <2>1, <2>24 DEF Turn
    <2> HIDE DEF t5
    <2>26. t6 \in Turn /\ t6.A = A /\ t6.old = o /\ t6.O = o /\ t6.new = t.new \cup {"A", "O"}
           /\ t6.pending = t.pending /\ t6.due = t.due /\ t6.seen = t.seen \cup {a}
           /\ t6.got_syn = t.got_syn
      BY <2>25 DEF Turn
    <2> HIDE DEF t6
    <2>6. u \in Turn
      BY <2>16, <2>26
    <2>7. Together(u)
      BY <2>16, <2>18, <2>26 DEF Together
    <2>8. CASE t.got_syn
      <3>1. "A" \in t.pending => "O" \in t.pending
        BY <1>1 DEF Held
      <3>2. u.got_syn /\ u.pending = t.pending /\ "A" \in u.new /\ "O" \in u.new
        BY <2>16, <2>26, <2>8
      <3>3. Sound(Samples!process_syn(u))
        BY <2>6, <2>7, <3>1, <3>2, SynSound
      <3> QED
        BY <2>2, <2>8, <3>3
    <2>9. CASE ~t.got_syn
      <3>1. u.pending = {}
        BY <1>1, <2>16, <2>26, <2>9 DEF Held
      <3> QED
        BY <2>2, <2>6, <2>7, <2>9, <3>1 DEF Sound, Held
    <2> QED
      BY <2>8, <2>9
  <1> QED
    BY <1>2, <1>3, <1>4 DEF Samples!KxEvents

\* pick_sensor: the orientation goes before its acceleration.
LEMMA PickedFirst ==
    ASSUME NEW P \in SUBSET Samples!Sensor, P # {}
    PROVE  Samples!Picked(P) \in P /\ (Samples!Picked(P) = "A" => "O" \notin P)
  <1>1. /\ Samples!Rank("A") = 1 /\ Samples!Rank("M") = 2
        /\ Samples!Rank("O") = 3 /\ Samples!Rank("T") = 4
    BY DEF Samples!Rank, Samples!IDs
  <1>2. \A s \in P : s \in {"A", "M", "O", "T"}
    BY DEF Samples!Sensor
  <1>3. \E s \in P : \A r \in P : Samples!Rank(r) <= Samples!Rank(s)
    <2>1. CASE "T" \in P
      BY <2>1, <1>1, <1>2
    <2>2. CASE "T" \notin P /\ "O" \in P
      BY <2>2, <1>1, <1>2
    <2>3. CASE "T" \notin P /\ "O" \notin P /\ "M" \in P
      BY <2>3, <1>1, <1>2
    <2>4. CASE "T" \notin P /\ "O" \notin P /\ "M" \notin P
      BY <2>4, <1>1, <1>2
    <2> QED
      BY <2>1, <2>2, <2>3, <2>4
  <1> DEFINE s == Samples!Picked(P)
  <1>4. s \in P /\ \A r \in P : Samples!Rank(r) <= Samples!Rank(s)
    BY <1>3 DEF Samples!Picked
  <1>5. s = "A" => "O" \notin P
    <2> HIDE DEF s
    <2> QED
      BY <1>1, <1>4
  <1> QED
    BY <1>4, <1>5

LEMMA SamplesStart == ASSUME Samples!ReadingAssumption, Samples!Init PROVE Samples!IInv
  <1>1. Samples!Rest \in Samples!Sample
    BY DEF Samples!Rest, Samples!Sample, Samples!ReadingAssumption
  <1>2. Samples!Types
    BY <1>1 DEF Samples!Init, Samples!Types, Samples!NoDue
  <1> QED
    BY <1>2 DEF Samples!Init, Samples!IInv, Samples!InStep, Samples!OrientationFirst,
           Samples!PendingIsKept, Samples!PairMatches

LEMMA TurnStep == ASSUME Samples!IInv, Samples!turn PROVE Samples!IInv'
  <1>1. PICK e \in Samples!AkmEvents, k \in Samples!KxEvents :
           LET t == Samples!kxsd9(Samples!akm(Samples!Now, e), k)
           IN  /\ s3' = t.A /\ s4' = t.O /\ s5' = t.old
               /\ s7' = t.new /\ s10' = t.due /\ s9' = t.seen
               /\ IF t.exit
                  THEN /\ s1' = FALSE /\ s11' = "exit"
                       /\ s6' = t.pending
                       /\ UNCHANGED s12
                  ELSE IF t.got_syn /\ t.pending # {}
                  THEN Samples!Return(Samples!Picked(t.pending), t.pending, t)
                  ELSE /\ s6' = t.pending
                       /\ UNCHANGED <<s1, s11, s12>>
    BY DEF Samples!turn
  <1> DEFINE now == Samples!Now
             t == Samples!kxsd9(Samples!akm(now, e), k)
  <1>2. s1 = TRUE /\ s6 = {} /\ s11 = "none"
    BY DEF Samples!turn, Samples!IInv, Samples!Types, Samples!OrientationFirst
  <1>3. Sound(now) /\ ~now.got_syn
    BY <1>2 DEF Samples!Now, Samples!IInv, Samples!Types, Samples!InStep, Sound, Turn, Together, Held
  <1> HIDE DEF now
  <1>4. Sound(t)
    BY <1>3, AkmSound, Kxsd9Sound
  <1>5. /\ s3' = t.A /\ s4' = t.O /\ s5' = t.old
        /\ s7' = t.new /\ s10' = t.due /\ s9' = t.seen
        /\ IF t.exit
           THEN /\ s1' = FALSE /\ s11' = "exit"
                /\ s6' = t.pending
                /\ UNCHANGED s12
           ELSE IF t.got_syn /\ t.pending # {}
           THEN Samples!Return(Samples!Picked(t.pending), t.pending, t)
           ELSE /\ s6' = t.pending
                /\ UNCHANGED <<s1, s11, s12>>
    BY <1>1 DEF now
  <1> HIDE DEF t
  <1>6. /\ t.A \in Samples!Sample /\ t.O \in Samples!Sample /\ t.old \in Samples!Sample
        /\ t.new \in SUBSET Samples!Sensor /\ t.pending \in SUBSET Samples!Sensor
        /\ t.due \in [A : Samples!Sample, O : Samples!Sample] /\ t.seen \in SUBSET Samples!Axis
        /\ Together(t) /\ Held(t)
    BY <1>4 DEF Sound, Turn
  <1>7. Samples!InStep'
    BY <1>5, <1>6 DEF Samples!InStep, Together
  <1>8. CASE t.exit
    <2>1. Samples!Types'
      BY <1>5, <1>6, <1>8 DEF Samples!Types
    <2>2. Samples!OrientationFirst' /\ Samples!PendingIsKept' /\ Samples!PairMatches'
      BY <1>5, <1>6, <1>8 DEF Samples!OrientationFirst, Samples!PendingIsKept, Samples!PairMatches, Held
    <2> QED
      BY <2>1, <2>2, <1>7 DEF Samples!IInv
  <1>9. CASE ~t.exit /\ t.got_syn /\ t.pending # {}
    <2> DEFINE s == Samples!Picked(t.pending)
    <2>1. s \in t.pending /\ (s = "A" => "O" \notin t.pending)
      BY <1>6, <1>9, PickedFirst
    <2>2. s1' = FALSE /\ s11' = s /\ s6' = t.pending \ {s} /\ s12' = IF s = "O" THEN t.A ELSE s12
      BY <1>5, <1>9 DEF Samples!Return
    <2> HIDE DEF s
    <2>3. s # "A"
      BY <2>1, <1>6 DEF Held
    <2>4. Samples!Types'
      BY <1>5, <1>6, <2>2 DEF Samples!Types
    <2>5. Samples!OrientationFirst' /\ Samples!PendingIsKept' /\ Samples!PairMatches'
      BY <1>5, <1>6, <2>2, <2>3
         DEF Samples!OrientationFirst, Samples!PendingIsKept, Samples!PairMatches, Held
    <2> QED
      BY <2>4, <2>5, <1>7 DEF Samples!IInv
  <1>10. CASE ~t.exit /\ ~(t.got_syn /\ t.pending # {})
    <2>1. s6' = {} /\ s1' = s1 /\ s11' = s11 /\ s12' = s12
      BY <1>5, <1>6, <1>10 DEF Held
    <2>2. Samples!Types'
      BY <1>2, <1>5, <1>6, <2>1 DEF Samples!Types
    <2>3. Samples!OrientationFirst' /\ Samples!PendingIsKept' /\ Samples!PairMatches'
      BY <1>2, <2>1 DEF Samples!OrientationFirst, Samples!PendingIsKept, Samples!PairMatches
    <2> QED
      BY <2>2, <2>3, <1>7 DEF Samples!IInv
  <1> QED
    BY <1>8, <1>9, <1>10

LEMMA SamplesStep ==
    ASSUME Samples!ReadingAssumption, Samples!IInv, [Samples!Next]_(Samples!dataVars)
    PROVE  Samples!IInv'
  <1> USE DEF Samples!IInv, Samples!Types, Samples!InStep, Samples!OrientationFirst,
              Samples!PendingIsKept, Samples!PairMatches, Samples!sampleVars
  <1>1. CASE Samples!data_open
    <2>1. Samples!Rest \in Samples!Sample
      BY DEF Samples!Rest, Samples!Sample, Samples!ReadingAssumption
    <2> QED
      BY <1>1, <2>1 DEF Samples!data_open, Samples!NoDue
  <1>2. CASE Samples!data_close
    BY <1>2 DEF Samples!data_close
  <1>3. CASE Samples!wake
    BY <1>3 DEF Samples!wake
  <1>4. CASE Samples!poll
    <2>1. CASE s6 # {}
      <3> DEFINE s == Samples!Picked(s6)
      <3>1. s \in s6 /\ (s = "A" => "O" \notin s6)
        BY <2>1, PickedFirst
      <3>2. /\ s1' = FALSE /\ s11' = s /\ s6' = s6 \ {s} /\ s12' = (IF s = "O" THEN s3 ELSE s12)
            /\ UNCHANGED <<s2, s3, s4, s5, s7, s8, s9, s10>>
        BY <1>4, <2>1 DEF Samples!poll, Samples!Return
      <3> HIDE DEF s
      <3>3. Samples!Types' /\ Samples!InStep' /\ Samples!PendingIsKept'
        BY <3>2
      <3>4. Samples!OrientationFirst'
        BY <3>1, <3>2
      <3>5. Samples!PairMatches'
        <4>1. s = "A" => s12 = s3
          BY <3>1
        <4>2. \A a \in s9 : s3[a] = s5[a] /\ s4[a] = s5[a]
          OBVIOUS
        <4> QED
          BY <3>2, <4>1, <4>2
      <3> QED
        BY <3>3, <3>4, <3>5
    <2>2. CASE s6 = {}
      BY <1>4, <2>2 DEF Samples!poll
    <2> QED
      BY <2>1, <2>2
  <1>5. CASE Samples!turn
    BY <1>5, TurnStep
  <1>6. CASE Samples!turn_fails
    BY <1>6 DEF Samples!turn_fails
  <1>7. CASE UNCHANGED Samples!dataVars
    BY <1>7 DEF Samples!dataVars
  <1> QED
    BY <1>1, <1>2, <1>3, <1>4, <1>5, <1>6, <1>7 DEF Samples!Next
-----------------------------------------------------------------------------
(* FbPost is proved about in a module of its own.                          *)

ScreenP == INSTANCE FbPostProofs WITH
    Faults <- ScreenFaults, framebuffer <- s1, fbFormat <- s2, opened <- s3, currentBuffer <- s4,
    lockState <- s5, drawn <- s6, pc <- s7, buffer <- s8, locked <- s9,
    panned <- s10, screen <- s11, held <- s12, copied <- s13

LEMMA ScreenBuffers == Screen!BufferAssumption => ScreenP!BufferAssumption
  BY DEF Screen!BufferAssumption, ScreenP!BufferAssumption, Screen!Buffer, ScreenP!Buffer,
         Screen!Whole, ScreenP!Whole

LEMMA SameScreenInit == Screen!Init => ScreenP!Init
  BY DEF Screen!Init, ScreenP!Init, Screen!Buffer, ScreenP!Buffer, Screen!Whole, ScreenP!Whole

LEMMA SameScreenNext == [Screen!Next]_(Screen!fbVars) => [ScreenP!Next]_(ScreenP!fbVars)
  BY Zenon DEF
     Screen!Next, Screen!fb_device_open, Screen!fb_close, Screen!PostStart, Screen!Draw,
     Screen!Drawn, Screen!PostLock, Screen!PostPan, Screen!PostVsync, Screen!CopyLock,
     Screen!Copy, Screen!Vblank, Screen!Format, Screen!Lockable, Screen!Locked,
     Screen!Unlocked, Screen!s3c_g2d_copy_buffer, Screen!Buffer, Screen!Whole,
     Screen!moduleVars, Screen!postVars, Screen!driverVars, Screen!fbVars,
     ScreenP!Next, ScreenP!fb_device_open, ScreenP!fb_close, ScreenP!PostStart, ScreenP!Draw,
     ScreenP!Drawn, ScreenP!PostLock, ScreenP!PostPan, ScreenP!PostVsync, ScreenP!CopyLock,
     ScreenP!Copy, ScreenP!Vblank, ScreenP!Format, ScreenP!Lockable, ScreenP!Locked,
     ScreenP!Unlocked, ScreenP!s3c_g2d_copy_buffer, ScreenP!Buffer, ScreenP!Whole,
     ScreenP!moduleVars, ScreenP!postVars, ScreenP!driverVars, ScreenP!fbVars

LEMMA SameScreenSafe ==
    ScreenP!LocksAccounted /\ ScreenP!ShownIsStill => Screen!LocksAccounted /\ Screen!ShownIsStill
  BY Zenon DEF Screen!LocksAccounted, ScreenP!LocksAccounted, Screen!ShownIsStill,
     ScreenP!ShownIsStill, Screen!If, ScreenP!If, Screen!Buffer, ScreenP!Buffer


LEMMA BacklightStart == Light!Init => Light!IInv
  <1> SUFFICES ASSUME Light!Init PROVE Light!IInv
    OBVIOUS
  <1>1. [pc |-> "idle", level |-> 0] \in [pc : {"idle", "lock", "write", "written", "failed"}, level : Level \cup {0}]
    OBVIOUS
  <1>2. Light!Types
    BY <1>1 DEF Light!Init, Light!Types, Light!Idle
  <1> QED
    BY <1>2 DEF Light!Init, Light!IInv, Light!Locked, Light!Written, Light!LevelIsLast, Light!Idle

\* The weights add up to 256.
LEMMA Grey == ASSUME NEW l \in 0..255 PROVE Light!rgb_to_brightness(l, l, l) = l
  BY DEF Light!rgb_to_brightness

LEMMA BacklightStep ==
    ASSUME Light!ThreadAssumption, Light!LevelAssumption, Light!IInv, [Light!Next]_(Light!lightVars)
    PROVE  Light!IInv'
  <1> USE DEF Light!ThreadAssumption, Light!LevelAssumption, Light!IInv, Light!Types, Light!Locked,
              Light!Written, Light!LevelIsLast, Light!Idle
  <1>1. CASE Light!open_lights
    BY <1>1 DEF Light!open_lights
  <1>2. CASE Light!open_other
    BY <1>2 DEF Light!open_other, Light!lightVars
  <1>3. ASSUME NEW t \in LightThread, NEW level \in Level, Light!Call(t, level) PROVE Light!IInv'
    BY <1>3 DEF Light!Call
  <1>4. ASSUME NEW t \in LightThread, Light!set_light_backlight(t) PROVE Light!IInv'
    BY <1>4 DEF Light!set_light_backlight
  <1>5. ASSUME NEW t \in LightThread, Light!write_int(t) PROVE Light!IInv'
    <2>0. s3[t] \in [pc : {"idle", "lock", "write", "written", "failed"}, level : Level \cup {0}]
      OBVIOUS
    <2>1. s3[t].level \in Level \cup {0}
      BY ONLY <2>0
    <2>3. s3[t].level \in 0..255
      <3>1. Level \cup {0} \subseteq 0..255
        BY DEF Light!LevelAssumption
      <3> QED
        BY ONLY <2>1, <3>1
    <2>2. Light!rgb_to_brightness(s3[t].level, s3[t].level, s3[t].level) = s3[t].level
      BY <2>3, Grey
    <2> QED
      BY <1>5, <2>2 DEF Light!write_int
  <1>6. ASSUME NEW t \in LightThread, Light!Unlock(t) PROVE Light!IInv'
    BY <1>6 DEF Light!Unlock
  <1>7. CASE UNCHANGED Light!lightVars
    BY <1>7 DEF Light!lightVars
  <1> QED
    BY <1>1, <1>2, <1>3, <1>4, <1>5, <1>6, <1>7 DEF Light!Next

LEMMA GuardStart == Guard!Init => Guard!IInv
  BY DEF Guard!Init, Guard!IInv, Guard!Types, Guard!FileOfRun, Guard!FileOfLast, Guard!GuardTells, Guard!Alive

LEMMA GuardStep == ASSUME Guard!IInv, [Guard!Next]_(Guard!guardVars) PROVE Guard!IInv'
  <1> USE DEF Guard!IInv, Guard!Types, Guard!FileOfRun, Guard!FileOfLast, Guard!GuardTells, Guard!Alive
  <1>1. CASE Guard!Boot
    BY <1>1 DEF Guard!Boot
  <1>2. CASE Guard!Open
    BY <1>2 DEF Guard!Open
  <1>3. CASE Guard!dump_ram_console
    BY <1>3 DEF Guard!dump_ram_console
  <1>4. CASE Guard!Install
    BY <1>4 DEF Guard!Install, Guard!Signal
  <1>5. CASE Guard!Return
    BY <1>5 DEF Guard!Return
  <1>6. CASE Guard!Stop
    BY <1>6 DEF Guard!Stop, Guard!Ended
  <1>7. ASSUME NEW s \in Guard!Signal, Guard!signal_handler(s) PROVE Guard!IInv'
    BY <1>7 DEF Guard!signal_handler
  <1>8. ASSUME NEW s \in Guard!Signal \cup {"SIGKILL"}, Guard!Killed(s) PROVE Guard!IInv'
    BY <1>8 DEF Guard!Killed, Guard!Ended
  <1>9. CASE UNCHANGED Guard!guardVars
    BY <1>9 DEF Guard!guardVars
  <1> QED
    BY <1>1, <1>2, <1>3, <1>4, <1>5, <1>6, <1>7, <1>8, <1>9 DEF Guard!Next

-----------------------------------------------------------------------------
(* Copybit: a clip's part of the source.                                   *)

LEMMA DivUnique ==
    ASSUME NEW n \in Int, NEW t \in Nat, t > 0, NEW q \in Int, t * q <= n, n < t * q + t
    PROVE  n \div t = q
  <1>1. n \div t \in Int /\ t * (n \div t) <= n /\ n < t * (n \div t) + t
    OBVIOUS
  <1> DEFINE r == n \div t
  <1>2. r \in Int /\ t * r <= n /\ n < t * r + t
    BY <1>1
  <1> HIDE DEF r
  <1>3. CASE r > q
    <2>1. t * r >= t * q + t
      BY <1>2, <1>3
    <2> QED
      BY <1>2, <2>1
  <1>4. CASE r < q
    <2>1. t * q >= t * r + t
      BY <1>2, <1>4
    <2> QED
      BY <1>2, <2>1
  <1>5. r = q
    BY <1>2, <1>3, <1>4
  <1> QED
    BY <1>5 DEF r

LEMMA DivExact ==
    ASSUME NEW n \in Int, NEW t \in Nat, t > 0, n % t = 0
    PROVE  n \div t \in Int /\ n = t * (n \div t)
  OBVIOUS
LEMMA Cancel ==
    ASSUME NEW a \in Int, NEW b \in Int, NEW c \in Nat, c > 0
    PROVE  (c * a <= c * b => a <= b) /\ (c * a < c * b => a < b)
  <1>1. ASSUME a > b PROVE c * a > c * b
    BY <1>1
  <1>2. ASSUME a >= b PROVE c * a >= c * b
    BY <1>2
  <1> QED
    BY <1>1, <1>2

LEMMA ScaledPixel ==
    ASSUME NEW L \in Int, NEW w \in Int, NEW q \in Int,
           NEW off \in Int, NEW a \in Int, NEW S \in Int,
           NEW T \in Nat, NEW C \in Nat, T > 0, C > 0,
           S * off = T * L, S * C = T * w, C * q <= a * w, a * w < C * q + C
    PROVE  ((off + a) * S) \div T = L + q
  <1>1. /\ a * S \in Int /\ T * q \in Int /\ a * w \in Int /\ C * q \in Int /\ T * q + T \in Int
        /\ C * q + C \in Int
    OBVIOUS
  <1>2. C * (a * S) = T * (a * w)
    <2>1. C * (a * S) = a * (S * C)
      OBVIOUS
    <2>2. a * (T * w) = T * (a * w)
      OBVIOUS
    <2> QED
      BY <2>1, <2>2
  <1>3. C * (T * q) = T * (C * q) /\ C * (T * q + T) = T * (C * q + C)
    OBVIOUS
  <1>4. T * (C * q) <= T * (a * w)
    <2> DEFINE x == C * q
               y == a * w
    <2>1. x \in Int /\ y \in Int /\ x <= y
      BY <1>1
    <2> HIDE DEF x, y
    <2>2. T * x <= T * y
      BY <2>1
    <2> QED
      BY <2>2 DEF x, y
  <1>5. T * (a * w) < T * (C * q + C)
    <2> DEFINE x == a * w
               y == C * q + C
    <2>1. x \in Int /\ y \in Int /\ x < y
      BY <1>1
    <2> HIDE DEF x, y
    <2>2. T * x < T * y
      BY <2>1
    <2> QED
      BY <2>2 DEF x, y
  <1>6. T * q <= a * S
    <2>1. C * (T * q) <= C * (a * S)
      BY <1>2, <1>3, <1>4
    <2> QED
      BY <1>1, <2>1, Cancel
  <1>7. a * S < T * q + T
    <2>1. C * (a * S) < C * (T * q + T)
      BY <1>2, <1>3, <1>5
    <2> QED
      BY <1>1, <2>1, Cancel
  <1>8. (off + a) * S = T * L + a * S /\ T * (L + q) = T * L + T * q
    OBVIOUS
  <1>9. T * (L + q) <= (off + a) * S /\ (off + a) * S < T * (L + q) + T
    <2> DEFINE x == (off + a) * S
               y == T * (L + q)
               z == T * L
               u == T * q
               v == a * S
    <2>1. /\ x \in Int /\ y \in Int /\ z \in Int /\ u \in Int /\ v \in Int
          /\ x = z + v /\ y = z + u /\ u <= v /\ v < u + T
      BY <1>1, <1>6, <1>7, <1>8
    <2> HIDE DEF x, y, z, u, v
    <2>2. y <= x /\ x < y + T
      BY <2>1
    <2> QED
      BY <2>2 DEF x, y
  <1>10. (off + a) * S \in Int /\ L + q \in Int
    OBVIOUS
  <1> QED
    BY <1>9, <1>10, DivUnique

\* One direction of the engine: pixel a of a clip of C pixels that lies off pixels
\* behind the edge.
Along(l, a, w, C) == l + (a * w) \div C

LEMMA AxisScaled ==
    ASSUME NEW off \in Int, NEW a \in Int, NEW S \in Int, NEW T \in Nat, NEW C \in Nat,
           T > 0, C > 0, (off * S) % T = 0, (C * S) % T = 0
    PROVE  Along(Engine!MULDIV(off + 0, S, T), a, Engine!MULDIV(C, S, T), C) = Along(0, off + a, S, T)
  <1>1. CASE S = T
    <2>1. (a * C) \div C = a /\ ((off + a) * T) \div T = off + a
      <3>1. ASSUME NEW x \in Int, NEW y \in Nat, y > 0 PROVE (x * y) \div y = x
        <4>1. x * y \in Int /\ y * x <= x * y /\ x * y < y * x + y
          BY <3>1
        <4> QED
          BY <3>1, <4>1, DivUnique
      <3> QED
        BY <3>1
    <2> QED
      BY <1>1, <2>1 DEF Along, Engine!MULDIV
  <1>2. CASE S # T
    <2> DEFINE L == (S * off) \div T
               w == (S * C) \div T
               q == (a * w) \div C
    <2>1. off * S = S * off /\ C * S = S * C /\ S * off \in Int /\ S * C \in Int
      OBVIOUS
    <2>2. L \in Int /\ S * off = T * L
      BY <2>1, DivExact
    <2>3. w \in Int /\ S * C = T * w
      BY <2>1, DivExact
    <2> HIDE DEF L, w
    <2>4. a * w \in Int
      BY <2>3
    <2>5. q \in Int /\ C * q <= a * w /\ a * w < C * q + C
      BY <2>4
    <2> HIDE DEF q
    <2>6. ((off + a) * S) \div T = L + q
      BY <2>2, <2>3, <2>5, ScaledPixel
    <2>7. Engine!MULDIV(off + 0, S, T) = L /\ Engine!MULDIV(C, S, T) = w
      BY <1>2 DEF Engine!MULDIV, L, w
    <2>8. Along(L, a, w, C) = L + q
      BY DEF Along, q
    <2> QED
      BY <2>2, <2>5, <2>6, <2>7, <2>8 DEF Along
  <1> QED
    BY <1>1, <1>2

LEMMA AxisPlain ==
    ASSUME NEW off \in Int, NEW a \in Int, NEW o \in Int, NEW T \in Nat, NEW C \in Nat, T > 0, C > 0
    PROVE  Along(off + o, a, C, C) = Along(o, off + a, T, T)
  <1>1. ASSUME NEW x \in Int, NEW y \in Nat, y > 0 PROVE (x * y) \div y = x
    <2>1. x * y \in Int /\ y * x <= x * y /\ x * y < y * x + y
      BY <1>1
    <2> QED
      BY <1>1, <2>1, DivUnique
  <1>2. (a * C) \div C = a /\ ((off + a) * T) \div T = off + a
    BY <1>1
  <1> QED
    BY <1>2 DEF Along

\* What a clip of C of T pixels, off pixels behind the edge, takes of S pixels of
\* the source that begin at o.
Part(a, S, T, scaled) == IF scaled THEN Engine!MULDIV(a, S, T) ELSE a
Even(off, o, S, T, C, scaled) ==
    S = T \/ (scaled = TRUE /\ o = 0 /\ (off * S) % T = 0 /\ (C * S) % T = 0)

\* Pixel a of the clip is the pixel off + a of the whole.
AxisKept(off, a, o, S, T, C, scaled) ==
    Along(Part(off + o, S, T, scaled), a, Part(C, S, T, scaled), C) = Along(o, off + a, S, T)

LEMMA AxisFits ==
    ASSUME NEW off \in Int, NEW a \in Int, NEW o \in Int, NEW S \in Int, NEW T \in Nat,
           NEW C \in Nat, T > 0, C > 0, NEW scaled \in BOOLEAN, Even(off, o, S, T, C, scaled)
    PROVE  AxisKept(off, a, o, S, T, C, scaled)
  <1>1. CASE S = T
    <2>1. Part(off + o, S, T, scaled) = off + o /\ Part(C, S, T, scaled) = C
      BY <1>1 DEF Part, Engine!MULDIV
    <2> QED
      BY <1>1, <2>1, AxisPlain DEF AxisKept
  <1>2. CASE scaled = TRUE /\ o = 0 /\ (off * S) % T = 0 /\ (C * S) % T = 0
    BY <1>2, AxisScaled DEF Part, AxisKept
  <1> QED
    BY <1>1, <1>2 DEF Even

LEMMA PartIsInt ==
    ASSUME NEW a \in Int, NEW S \in Int, NEW T \in Nat, T > 0, NEW scaled \in BOOLEAN
    PROVE  Part(a, S, T, scaled) \in Int
  <1>1. S * a \in Int
    OBVIOUS
  <1>2. (S * a) \div T \in Int
    BY <1>1
  <1> QED
    BY <1>2 DEF Part, Engine!MULDIV

\* The pixel of a turned rectangle, from its edges, and the turned rectangle's sides.
Place(rot, d, p) ==
    LET x == p[1] - d.l
        y == p[2] - d.t
        X == (d.r - d.l) - 1 - x
        Y == (d.b - d.t) - 1 - y
    IN  CASE rot = "90" -> <<y, X>>
          [] rot = "180" -> <<X, Y>>
          [] rot = "270" -> <<Y, x>>
          [] rot = "FLIP_H" -> <<X, y>>
          [] rot = "FLIP_V" -> <<x, Y>>
          [] OTHER -> <<x, y>>

Sides(rot, d) ==
    IF rot \in {"90", "270"} THEN <<d.b - d.t, d.r - d.l>> ELSE <<d.r - d.l, d.b - d.t>>

SampleIs(rot, d, s, p) ==
    Engine!Sample(rot, d, s, p) =
        <<Along(s.l, Place(rot, d, p)[1], s.r - s.l, Sides(rot, d)[1]),
          Along(s.t, Place(rot, d, p)[2], s.b - s.t, Sides(rot, d)[2])>>

LEMMA SampleByPlace ==
    ASSUME NEW rot \in Engine!Transform, NEW d, NEW s, NEW p
    PROVE  SampleIs(rot, d, s, p)
  <1> USE DEF SampleIs, Engine!Sample, Place, Sides, Along, Engine!Width, Engine!Height
  <1>1. CASE rot = "0"
    BY <1>1
  <1>2. CASE rot = "90"
    BY <1>2
  <1>3. CASE rot = "180"
    BY <1>3
  <1>4. CASE rot = "270"
    BY <1>4
  <1>5. CASE rot = "FLIP_H"
    BY <1>5
  <1>6. CASE rot = "FLIP_V"
    BY <1>6
  <1> QED
    BY <1>1, <1>2, <1>3, <1>4, <1>5, <1>6 DEF Engine!Transform, Engine!Rotation

\* Where a pixel is in the clip and where the clip is in the whole.
Clip(c, d, p) ==
    /\ c.l \in Int /\ c.t \in Int /\ c.r \in Int /\ c.b \in Int
    /\ d.l \in Int /\ d.t \in Int /\ d.r \in Int /\ d.b \in Int
    /\ p[1] \in Int /\ p[2] \in Int
    /\ d.l <= c.l /\ d.t <= c.t /\ c.r <= d.r /\ c.b <= d.b
    /\ c.l <= p[1] /\ p[1] < c.r /\ c.t <= p[2] /\ p[2] < c.b

LEMMA PixelOfClip ==
    ASSUME NEW e \in Engine!Rects, NEW d \in Engine!Rects,
           NEW p \in Engine!Pixels(Engine!intersect(e, d))
    PROVE  Clip(Engine!intersect(e, d), d, p)
  <1>1. /\ e.l \in Int /\ e.t \in Int /\ e.r \in Int /\ e.b \in Int
        /\ d.l \in Int /\ d.t \in Int /\ d.r \in Int /\ d.b \in Int
    BY DEF Engine!Rects
  <1> DEFINE c == Engine!intersect(e, d)
  <1>2. /\ c.l = Engine!Max(e.l, d.l) /\ c.t = Engine!Max(e.t, d.t)
        /\ c.r = Engine!Min(e.r, d.r) /\ c.b = Engine!Min(e.b, d.b)
    BY DEF Engine!intersect, Engine!Rect
  <1>3. /\ c.l \in Int /\ c.t \in Int /\ c.r \in Int /\ c.b \in Int
        /\ d.l <= c.l /\ d.t <= c.t /\ c.r <= d.r /\ c.b <= d.b
    BY <1>1, <1>2 DEF Engine!Min, Engine!Max
  <1>4. p \in (c.l .. c.r - 1) \X (c.t .. c.b - 1)
    BY DEF Engine!Pixels
  <1>5. p[1] \in c.l .. c.r - 1 /\ p[2] \in c.t .. c.b - 1
    BY <1>4
  <1>6. /\ p[1] \in Int /\ p[2] \in Int
        /\ c.l <= p[1] /\ p[1] < c.r /\ c.t <= p[2] /\ p[2] < c.b
    BY <1>3, <1>5
  <1> QED
    BY <1>1, <1>3, <1>6 DEF Clip

LEMMA PlaceInClip ==
    ASSUME NEW c, NEW d, NEW p, Clip(c, d, p), s2 \in Engine!Transform,
           s2 \in {"FLIP_H", "FLIP_V"} => c.l = d.l /\ c.t = d.t /\ c.r = d.r /\ c.b = d.b
    PROVE  /\ Engine!Offset(d, c)[1] \in Int /\ Engine!Offset(d, c)[2] \in Int
           /\ Place(s2, c, p)[1] \in Int /\ Place(s2, c, p)[2] \in Int
           /\ Place(s2, d, p)[1] = Engine!Offset(d, c)[1] + Place(s2, c, p)[1]
           /\ Place(s2, d, p)[2] = Engine!Offset(d, c)[2] + Place(s2, c, p)[2]
  <1> USE DEF Clip, Place, Engine!Offset
  <1>1. CASE s2 = "0"
    BY <1>1
  <1>2. CASE s2 = "90"
    BY <1>2
  <1>3. CASE s2 = "180"
    BY <1>3
  <1>4. CASE s2 = "270"
    BY <1>4
  <1>5. CASE s2 = "FLIP_H"
    BY <1>5
  <1>6. CASE s2 = "FLIP_V"
    BY <1>6
  <1> QED
    BY <1>1, <1>2, <1>3, <1>4, <1>5, <1>6 DEF Engine!Transform, Engine!Rotation

LEMMA SourceIs ==
    ASSUME NEW d, NEW s, NEW c, NEW scaled \in BOOLEAN,
           s2 \in {"90", "270"} => s.l = 0 /\ s.t = 0,
           NEW w \in Int, NEW h \in Int,
           w = Part(Sides(s2, c)[1], s.r - s.l, Sides(s2, d)[1], scaled),
           h = Part(Sides(s2, c)[2], s.b - s.t, Sides(s2, d)[2], scaled),
           Part(Engine!Offset(d, c)[1] + s.l, s.r - s.l, Sides(s2, d)[1], scaled) \in Int,
           Part(Engine!Offset(d, c)[2] + s.t, s.b - s.t, Sides(s2, d)[2], scaled) \in Int
    PROVE  LET k == Engine!SourceOf(d, s, c, scaled)
           IN  /\ k.l = Part(Engine!Offset(d, c)[1] + s.l, s.r - s.l, Sides(s2, d)[1], scaled)
               /\ k.t = Part(Engine!Offset(d, c)[2] + s.t, s.b - s.t, Sides(s2, d)[2], scaled)
               /\ k.r - k.l = w /\ k.b - k.t = h
  <1> DEFINE k == Engine!SourceOf(d, s, c, scaled)
             l == Part(Engine!Offset(d, c)[1] + s.l, s.r - s.l, Sides(s2, d)[1], scaled)
             t == Part(Engine!Offset(d, c)[2] + s.t, s.b - s.t, Sides(s2, d)[2], scaled)
  <1>1. Engine!Origin(s)[1] = s.l /\ Engine!Origin(s)[2] = s.t
    BY DEF Engine!Origin
  <1>2. /\ Engine!Turned(c) = Sides(s2, c) /\ Engine!Turned(d) = Sides(s2, d)
        /\ Engine!Width(s) = s.r - s.l /\ Engine!Height(s) = s.b - s.t
    BY DEF Engine!Turned, Sides, Engine!Width, Engine!Height
  <1>3. k = Engine!Rect(l, t, l + w, t + h)
    BY <1>1, <1>2 DEF Engine!SourceOf, Part
  <1>4. k.l = l /\ k.t = t /\ k.r = l + w /\ k.b = t + h
    BY <1>3 DEF Engine!Rect
  <1>5. l \in Int /\ t \in Int
    OBVIOUS
  <1> HIDE DEF k, l, t
  <1>6. k.r - k.l = w /\ k.b - k.t = h
    BY <1>4, <1>5
  <1> QED
    BY <1>4, <1>6 DEF k, l, t

LEMMA SampleFits ==
    ASSUME NEW c, NEW d, NEW s, NEW p, Clip(c, d, p),
           s.l \in Int /\ s.t \in Int /\ s.r \in Int /\ s.b \in Int,
           s2 \in Engine!Transform, NEW scaled \in BOOLEAN,
           s2 \in {"FLIP_H", "FLIP_V"} => c.l = d.l /\ c.t = d.t /\ c.r = d.r /\ c.b = d.b,
           s2 \in {"90", "270"} => s.l = 0 /\ s.t = 0,
           Even(Engine!Offset(d, c)[1], s.l, s.r - s.l, Sides(s2, d)[1], Sides(s2, c)[1], scaled),
           Even(Engine!Offset(d, c)[2], s.t, s.b - s.t, Sides(s2, d)[2], Sides(s2, c)[2], scaled)
    PROVE  Engine!Sample(s2, c, Engine!SourceOf(d, s, c, scaled), p) = Engine!Sample(s2, d, s, p)
  <1> DEFINE off(i) == Engine!Offset(d, c)[i]
             a(i) == Place(s2, c, p)[i]
             T(i) == Sides(s2, d)[i]
             C(i) == Sides(s2, c)[i]
             S == s.r - s.l
             R == s.b - s.t
             k == Engine!SourceOf(d, s, c, scaled)
             w == Part(C(1), S, T(1), scaled)
             h == Part(C(2), R, T(2), scaled)
  <1>1. /\ off(1) \in Int /\ off(2) \in Int /\ a(1) \in Int /\ a(2) \in Int
        /\ Place(s2, d, p)[1] = off(1) + a(1) /\ Place(s2, d, p)[2] = off(2) + a(2)
    BY PlaceInClip
  <1>2. /\ T(1) \in Nat /\ T(2) \in Nat /\ C(1) \in Nat /\ C(2) \in Nat
        /\ T(1) > 0 /\ T(2) > 0 /\ C(1) > 0 /\ C(2) > 0
    BY DEF Clip, Sides
  <1>3. S \in Int /\ R \in Int
    OBVIOUS
  <1>4. /\ Along(Part(off(1) + s.l, S, T(1), scaled), a(1), w, C(1)) = Along(s.l, off(1) + a(1), S, T(1))
        /\ Along(Part(off(2) + s.t, R, T(2), scaled), a(2), h, C(2)) = Along(s.t, off(2) + a(2), R, T(2))
    <2>1. Even(off(1), s.l, S, T(1), C(1), scaled) /\ Even(off(2), s.t, R, T(2), C(2), scaled)
      OBVIOUS
    <2>2. /\ off(1) \in Int /\ a(1) \in Int /\ s.l \in Int /\ S \in Int /\ T(1) \in Nat
          /\ C(1) \in Nat /\ T(1) > 0 /\ C(1) > 0 /\ scaled \in BOOLEAN
      BY <1>1, <1>2, <1>3
    <2>3. /\ off(2) \in Int /\ a(2) \in Int /\ s.t \in Int /\ R \in Int /\ T(2) \in Nat
          /\ C(2) \in Nat /\ T(2) > 0 /\ C(2) > 0 /\ scaled \in BOOLEAN
      BY <1>1, <1>2, <1>3
    <2> HIDE DEF off, a, T, C, S, R
    <2>4. AxisKept(off(1), a(1), s.l, S, T(1), C(1), scaled)
      BY ONLY <2>1, <2>2, AxisFits, ZenonT(60)
    <2>5. AxisKept(off(2), a(2), s.t, R, T(2), C(2), scaled)
      BY ONLY <2>1, <2>3, AxisFits, ZenonT(60)
    <2> QED
      BY <2>4, <2>5 DEF AxisKept
  <1>5. /\ w \in Int /\ h \in Int
        /\ Part(off(1) + s.l, S, T(1), scaled) \in Int
        /\ Part(off(2) + s.t, R, T(2), scaled) \in Int
    <2>1. off(1) + s.l \in Int /\ off(2) + s.t \in Int
      BY <1>1
    <2>2. scaled \in BOOLEAN /\ C(1) \in Int /\ C(2) \in Int
      BY <1>2
    <2> HIDE DEF off, a, T, C, S, R
    <2>3. w \in Int /\ h \in Int
      BY ONLY <1>2, <1>3, <2>2, PartIsInt
    <2>4. /\ Part(off(1) + s.l, S, T(1), scaled) \in Int
          /\ Part(off(2) + s.t, R, T(2), scaled) \in Int
      BY ONLY <2>1, <1>2, <1>3, <2>2, PartIsInt
    <2> QED
      BY <2>3, <2>4
  <1>6. /\ k.l = Part(off(1) + s.l, S, T(1), scaled) /\ k.t = Part(off(2) + s.t, R, T(2), scaled)
        /\ k.r - k.l = w /\ k.b - k.t = h
    BY <1>5, SourceIs
  <1>7. SampleIs(s2, c, k, p) /\ SampleIs(s2, d, s, p)
    BY SampleByPlace
  <1>8. Engine!Sample(s2, c, k, p) = <<Along(k.l, a(1), w, C(1)), Along(k.t, a(2), h, C(2))>>
    BY <1>6, <1>7 DEF SampleIs
  <1>9. Engine!Sample(s2, d, s, p)
            = <<Along(s.l, off(1) + a(1), S, T(1)), Along(s.t, off(2) + a(2), R, T(2))>>
    BY <1>1, <1>7 DEF SampleIs
  <1> HIDE DEF off, a, T, C, S, R, k, w, h
  <1>10. Engine!Sample(s2, c, k, p) = Engine!Sample(s2, d, s, p)
    BY <1>4, <1>6, <1>8, <1>9
  <1> QED
    BY <1>10 DEF k

\* A clip that the arithmetic is right for takes the pixels it should.
LEMMA ExactFits ==
    ASSUME s5.op \in {"stretch", "blit"}, s5.dst_rect \in Engine!Rects, s5.src_rect \in Engine!Rects,
           s4 \in Engine!Transform, s2 = s4, NEW e \in Engine!Rects, Engine!Exact(e),
           NEW p \in Engine!Pixels(Engine!intersect(e, s5.dst_rect))
    PROVE  LET c == Engine!intersect(e, s5.dst_rect)
           IN  Engine!Sample(s4, c,
                   Engine!SourceOf(s5.dst_rect, s5.src_rect, c, s5.op = "stretch"), p)
                   = Engine!Sample(s4, s5.dst_rect, s5.src_rect, p)
  <1> DEFINE d == s5.dst_rect
             s == s5.src_rect
             c == Engine!intersect(e, d)
             scaled == s5.op = "stretch"
  <1>1. Clip(c, d, p)
    BY PixelOfClip
  <1>2. scaled \in BOOLEAN /\ (s5.op # "blit" => scaled = TRUE)
    OBVIOUS
  <1>3. s.l \in Int /\ s.t \in Int /\ s.r \in Int /\ s.b \in Int
    BY DEF Engine!Rects
  <1>4. /\ (s.l = 0 /\ s.t = 0) \/ (Engine!Unscaled(d, s) /\ s2 \notin {"90", "270"})
        /\ s2 \in Engine!Rotation \/ c = d
        /\ IF s5.op = "blit" THEN Engine!Unscaled(d, s) ELSE Engine!Aligned(d, s, c)
    BY DEF Engine!Exact
  <1> HIDE DEF d, s, c, scaled
  <1>5. /\ Engine!Turned(c) = Sides(s2, c) /\ Engine!Turned(d) = Sides(s2, d)
        /\ Engine!Width(s) = s.r - s.l /\ Engine!Height(s) = s.b - s.t
    BY DEF Engine!Turned, Sides, Engine!Width, Engine!Height
  <1>6. Engine!Unscaled(d, s) => s.r - s.l = Sides(s2, d)[1] /\ s.b - s.t = Sides(s2, d)[2]
    BY <1>5 DEF Engine!Unscaled
  <1>7. Engine!Aligned(d, s, c) =>
            /\ (Engine!Offset(d, c)[1] * (s.r - s.l)) % Sides(s2, d)[1] = 0
            /\ (Sides(s2, c)[1] * (s.r - s.l)) % Sides(s2, d)[1] = 0
            /\ (Engine!Offset(d, c)[2] * (s.b - s.t)) % Sides(s2, d)[2] = 0
            /\ (Sides(s2, c)[2] * (s.b - s.t)) % Sides(s2, d)[2] = 0
    <2> SUFFICES ASSUME Engine!Aligned(d, s, c)
                 PROVE  /\ (Engine!Offset(d, c)[1] * (s.r - s.l)) % Sides(s2, d)[1] = 0
                        /\ (Sides(s2, c)[1] * (s.r - s.l)) % Sides(s2, d)[1] = 0
                        /\ (Engine!Offset(d, c)[2] * (s.b - s.t)) % Sides(s2, d)[2] = 0
                        /\ (Sides(s2, c)[2] * (s.b - s.t)) % Sides(s2, d)[2] = 0
      OBVIOUS
    <2>1. \A i \in 1..2 : \A edge \in {Engine!Offset(d, c)[i], Sides(s2, c)[i]} :
              (edge * <<s.r - s.l, s.b - s.t>>[i]) % Sides(s2, d)[i] = 0
      BY <1>5 DEF Engine!Aligned
    <2>2. <<s.r - s.l, s.b - s.t>>[1] = s.r - s.l /\ <<s.r - s.l, s.b - s.t>>[2] = s.b - s.t
      OBVIOUS
    <2>3. 1 \in 1..2 /\ 2 \in 1..2
      OBVIOUS
    <2> QED
      BY ONLY <2>1, <2>2, <2>3
  <1>8. /\ Even(Engine!Offset(d, c)[1], s.l, s.r - s.l, Sides(s2, d)[1], Sides(s2, c)[1], scaled)
        /\ Even(Engine!Offset(d, c)[2], s.t, s.b - s.t, Sides(s2, d)[2], Sides(s2, c)[2], scaled)
    <2>1. CASE Engine!Unscaled(d, s)
      BY <2>1, <1>6 DEF Even
    <2>2. CASE ~Engine!Unscaled(d, s)
      <3>1. s.l = 0 /\ s.t = 0 /\ scaled = TRUE /\ Engine!Aligned(d, s, c)
        BY <2>2, <1>2, <1>4
      <3> QED
        BY ONLY <3>1, <1>7 DEF Even
    <2> QED
      BY <2>1, <2>2
  <1>9. s2 \in {"FLIP_H", "FLIP_V"} => c = d
    BY <1>4 DEF Engine!Rotation
  <1>10. s2 \in {"90", "270"} => s.l = 0 /\ s.t = 0
    BY <1>4
  <1>11. Engine!Sample(s2, c, Engine!SourceOf(d, s, c, scaled), p) = Engine!Sample(s2, d, s, p)
    BY <1>1, <1>2, <1>3, <1>8, <1>9, <1>10, SampleFits
  <1> QED
    BY <1>11 DEF d, s, c, scaled


-----------------------------------------------------------------------------
(* Copybit: clip by clip.                                                  *)

LEMMA EngineStart == Engine!Init => Engine!IInv
  BY DEF Engine!Init, Engine!IInv, Engine!Agreed, Engine!Drawing, Engine!Transform,
         Engine!Rotation, Engine!NoCall

LEMMA ExactSame ==
    ASSUME UNCHANGED <<s2, s4, s5>>, NEW e
    PROVE  Engine!Exact(e)' <=> Engine!Exact(e)
  BY DEF Engine!Exact, Engine!Unscaled, Engine!Aligned, Engine!Turned, Engine!Offset

ClipsOf(n) == UNION {Engine!Pixels(Engine!intersect(s7[i], s5.dst_rect)) : i \in 1..n}

LEMMA ClipsGrow ==
    ASSUME NEW n \in Nat
    PROVE  ClipsOf(n + 1) =
               ClipsOf(n) \cup Engine!Pixels(Engine!intersect(s7[n + 1], s5.dst_rect))
  <1>1. 1..n + 1 = (1..n) \cup {n + 1}
    OBVIOUS
  <1> QED
    BY <1>1, Zenon DEF ClipsOf

Antecedent == s1 = TRUE /\ s5.op # "none" /\ \A i \in DOMAIN s7 : Engine!Exact(s7[i])

LEMMA AgreedStep ==
    ASSUME Engine!Agreed, Engine!CallsAssumption, Engine!RegionsAssumption, Engine!Next
    PROVE  Engine!Agreed'
  <1> USE DEF Engine!Agreed
  <1>1. CASE Engine!open_copybit
    BY <1>1 DEF Engine!open_copybit, Engine!NoCall, Engine!Transform, Engine!Rotation, Engine!Idle
  <1>2. CASE Engine!close_copybit
    BY <1>2 DEF Engine!close_copybit, Engine!Idle
  <1>3. CASE Engine!set_parameter_copybit
    <2>1. PICK value \in Engine!Transform \cup {"invalid"} :
              value \in Engine!Transform /\ s2' = value /\ s3' = value /\ s4' = value
      BY <1>3 DEF Engine!set_parameter_copybit, Engine!Taken, Engine!Transform
    <2> QED
      BY <1>3, <2>1 DEF Engine!set_parameter_copybit, Engine!NoCall, Engine!Idle
  <1>4. CASE Engine!Start
    <2>1. PICK c \in Calls, some \in Regions :
              /\ s5' = c
              /\ IF Engine!Valid(c) THEN s9' = "busy" /\ s6' = some /\ s7' = some
                 ELSE s9' = "error" /\ s6' = <<>> /\ s7' = <<>>
      BY <1>4 DEF Engine!Start
    <2>2. c.op # "none" /\ some \in Seq(Engine!Rects) /\ <<>> \in Seq(Engine!Rects)
      BY DEF Engine!CallsAssumption, Engine!RegionsAssumption
    <2>3. s1 /\ UNCHANGED <<s1, s2, s3, s4>>
      BY <1>4 DEF Engine!Start
    <2>4. CASE Engine!Valid(c)
      BY <2>1, <2>2, <2>3, <2>4
    <2>5. CASE ~Engine!Valid(c)
      BY <2>1, <2>2, <2>3, <2>5
    <2> QED
      BY <2>4, <2>5
  <1>5. CASE Engine!Bitblt
    <2>1. s6 \in Seq(Engine!Rects) /\ s6 # <<>> /\ s6' = Tail(s6)
      BY <1>5 DEF Engine!Bitblt
    <2>2. s6' \in Seq(Engine!Rects)
      BY ONLY <2>1
    <2> QED
      BY <1>5, <2>2 DEF Engine!Bitblt
  <1>6. CASE Engine!BitbltFails
    BY <1>6 DEF Engine!BitbltFails
  <1>7. CASE Engine!Done
    BY <1>7 DEF Engine!Done
  <1> QED
    BY <1>1, <1>2, <1>3, <1>4, <1>5, <1>6, <1>7 DEF Engine!Next

LEMMA BitbltDraws ==
    ASSUME Engine!Agreed, Engine!CallsAssumption, Engine!Bitblt, Antecedent,
           NEW n \in 0..Len(s7), Engine!DrawnAfter(n)
    PROVE  n + 1 \in 0..Len(s7) /\ Engine!DrawnAfter(n + 1)'
  <1> DEFINE d == s5.dst_rect
             s == s5.src_rect
             c == Engine!intersect(Head(s6), d)
  <1>1. /\ s9 = "busy" /\ s6 # <<>> /\ s6' = Tail(s6) /\ UNCHANGED <<s1, s2, s3, s4, s5, s7, s9>>
        /\ s8' = [p \in Engine!Pixels(c) \cup DOMAIN s8 |->
                     IF p \in Engine!Pixels(c)
                     THEN Engine!Sample(s3, c, Engine!SourceOf(d, s, c, s5.op = "stretch"), p)
                     ELSE s8[p]]
    BY DEF Engine!Bitblt
  <1>2. /\ s5 \in Calls /\ s7 \in Seq(Engine!Rects) /\ s6 \in Seq(Engine!Rects)
        /\ s4 \in Engine!Transform /\ s2 = s4 /\ s3 = s4
    BY <1>1 DEF Engine!Agreed, Antecedent
  <1>3. s5.op \in {"stretch", "blit"} /\ d \in Engine!Rects /\ s \in Engine!Rects
    BY <1>2 DEF Engine!CallsAssumption
  <1>4. /\ n + Len(s6) = Len(s7) /\ \A i \in 1..Len(s6) : s6[i] = s7[n + i]
        /\ DOMAIN s8 = ClipsOf(n)
        /\ \A p \in DOMAIN s8 : s8[p] = Engine!Sample(s4, d, s, p)
    BY <1>1 DEF Engine!DrawnAfter, ClipsOf
  <1>5. /\ Len(s6) \in Nat /\ Len(s6) >= 1 /\ Len(s7) \in Nat /\ Head(s6) = s6[1]
        /\ Len(Tail(s6)) = Len(s6) - 1 /\ \A i \in 1..Len(s6) - 1 : Tail(s6)[i] = s6[i + 1]
    BY <1>1, <1>2
  <1>6. n + 1 \in 1..Len(s7) /\ n \in Nat
    BY <1>4, <1>5
  <1>7. Head(s6) = s7[n + 1]
    BY <1>4, <1>5
  <1>8. Head(s6) \in Engine!Rects /\ Engine!Exact(Head(s6))
    <2>1. n + 1 \in DOMAIN s7
      BY <1>2, <1>6
    <2> QED
      BY <2>1, <1>2, <1>7 DEF Antecedent
  <1>9. ASSUME NEW p \in Engine!Pixels(c)
        PROVE  Engine!Sample(s3, c, Engine!SourceOf(d, s, c, s5.op = "stretch"), p)
                   = Engine!Sample(s4, d, s, p)
    BY <1>2, <1>3, <1>8, ExactFits
  <1>10. DOMAIN s8' = ClipsOf(n + 1)
    <2>1. DOMAIN s8' = Engine!Pixels(c) \cup ClipsOf(n)
      BY <1>1, <1>4
    <2> QED
      BY <2>1, <1>6, <1>7, ClipsGrow
  <1>11. \A p \in DOMAIN s8' : s8'[p] = Engine!Sample(s4, d, s, p)
    BY <1>1, <1>4, <1>9
  <1>12. n + 1 + Len(s6') = Len(s7) /\ \A i \in 1..Len(s6') : s6'[i] = s7[n + 1 + i]
    <2>1. n + 1 + Len(s6') = Len(s7) /\ Len(s6') = Len(s6) - 1
      BY <1>1, <1>4, <1>5
    <2>2. ASSUME NEW i \in 1..Len(s6') PROVE s6'[i] = s7[n + 1 + i]
      <3>1. i \in 1..Len(s6) - 1 /\ i + 1 \in 1..Len(s6) /\ n + (i + 1) = n + 1 + i
        BY <2>1, <1>5
      <3>2. s6'[i] = s6[i + 1]
        BY ONLY <3>1, <1>1, <1>5
      <3>3. s6[i + 1] = s7[n + (i + 1)]
        BY ONLY <3>1, <1>4
      <3> QED
        BY <3>1, <3>2, <3>3
    <2> QED
      BY <2>1, <2>2
  <1>13. Engine!DrawnAfter(n + 1)'
    <2>1. (UNION {Engine!Pixels(Engine!intersect(s7[i], s5.dst_rect)) : i \in 1..n + 1})'
              = ClipsOf(n + 1)
      BY <1>1 DEF ClipsOf
    <2>2. s9' # "ok"
      BY <1>1
    <2> QED
      BY <1>1, <1>10, <1>11, <1>12, <2>1, <2>2 DEF Engine!DrawnAfter
  <1> QED
    BY <1>6, <1>13

LEMMA AntecedentSame ==
    ASSUME UNCHANGED <<s1, s2, s4, s5, s7>>
    PROVE  Antecedent' => Antecedent
  <1>1. \A i \in DOMAIN s7 : Engine!Exact(s7[i])' <=> Engine!Exact(s7[i])
    <2> SUFFICES ASSUME NEW i \in DOMAIN s7
                 PROVE Engine!Exact(s7[i])' <=> Engine!Exact(s7[i])
      OBVIOUS
    <2> QED
      BY DEF Engine!Exact, Engine!Unscaled, Engine!Aligned, Engine!Turned, Engine!Offset
  <1>2. ASSUME Antecedent' PROVE Antecedent
    <2>1. s1' = TRUE /\ s5'.op # "none" /\ \A i \in DOMAIN s7 : Engine!Exact(s7[i])'
      BY <1>2 DEF Antecedent
    <2> QED
      BY <2>1, <1>1 DEF Antecedent
  <1> QED
    BY <1>2

LEMMA DrawingStep ==
    ASSUME Engine!Agreed, Engine!CallsAssumption, Engine!RegionsAssumption, Engine!Next,
           Antecedent => \E n \in 0..Len(s7) : Engine!DrawnAfter(n)
    PROVE  Antecedent' => \E n \in 0..Len(s7') : Engine!DrawnAfter(n)'
  <1>1. CASE Engine!open_copybit \/ Engine!close_copybit \/ Engine!set_parameter_copybit
    <2>1. CASE Engine!open_copybit \/ Engine!set_parameter_copybit
      <3>1. s5' = [op |-> "none"]
        BY <2>1 DEF Engine!open_copybit, Engine!set_parameter_copybit, Engine!NoCall
      <3>2. s5'.op = "none"
        BY <3>1
      <3> QED
        BY <3>2 DEF Antecedent
    <2>2. CASE Engine!close_copybit
      BY <2>2 DEF Engine!close_copybit, Antecedent
    <2> QED
      BY <1>1, <2>1, <2>2
  <1>2. CASE Engine!Start
    <2>1. PICK c \in Calls, some \in Regions :
              /\ s5' = c
              /\ IF Engine!Valid(c) THEN s9' = "busy" /\ s6' = some /\ s7' = some
                 ELSE s9' = "error" /\ s6' = <<>> /\ s7' = <<>>
      BY <1>2 DEF Engine!Start
    <2>2. s6' = s7' /\ s7' \in Seq(Engine!Rects) /\ s9' # "ok"
      <3>1. CASE Engine!Valid(c)
        BY <2>1, <3>1 DEF Engine!RegionsAssumption
      <3>2. CASE ~Engine!Valid(c)
        <4>1. s6' = <<>> /\ s7' = <<>> /\ s9' = "error"
          BY <2>1, <3>2
        <4>2. <<>> \in Seq(Engine!Rects)
          OBVIOUS
        <4> QED
          BY <4>1, <4>2
      <3> QED
        BY <3>1, <3>2
    <2>3. Len(s7') \in Nat /\ 0 \in 0..Len(s7')
      BY <2>2
    <2>4. s8' = <<>> /\ DOMAIN s8' = {}
      BY <1>2 DEF Engine!Start
    <2>5. 1..0 = {}
      OBVIOUS
    <2>6. (UNION {Engine!Pixels(Engine!intersect(s7[i], s5.dst_rect)) : i \in 1..0})' = {}
      BY <2>5
    <2>7. \A i \in 1..Len(s6') : s6'[i] = s7'[0 + i]
      BY <2>2
    <2>8. Engine!DrawnAfter(0)'
      BY <2>2, <2>3, <2>4, <2>6, <2>7 DEF Engine!DrawnAfter
    <2> QED
      BY <2>3, <2>8
  <1>3. CASE Engine!Bitblt
    <2> SUFFICES ASSUME Antecedent' PROVE \E n \in 0..Len(s7') : Engine!DrawnAfter(n)'
      OBVIOUS
    <2>1. UNCHANGED <<s1, s2, s4, s5, s7>>
      BY <1>3 DEF Engine!Bitblt
    <2>2. Antecedent
      BY <2>1, AntecedentSame
    <2>3. PICK n \in 0..Len(s7) : Engine!DrawnAfter(n)
      BY <2>2
    <2>4. n + 1 \in 0..Len(s7) /\ Engine!DrawnAfter(n + 1)'
      BY <1>3, <2>2, <2>3, BitbltDraws
    <2> QED
      BY <2>1, <2>4
  <1>4. CASE Engine!BitbltFails \/ Engine!Done
    <2> SUFFICES ASSUME Antecedent' PROVE \E n \in 0..Len(s7') : Engine!DrawnAfter(n)'
      OBVIOUS
    <2>1. UNCHANGED <<s1, s2, s4, s5, s7, s8>>
      BY <1>4 DEF Engine!BitbltFails, Engine!Done
    <2>2. Antecedent
      BY <2>1, AntecedentSame
    <2>3. PICK n \in 0..Len(s7) : Engine!DrawnAfter(n)
      BY <2>2
    <2>4. s9' = "ok" => n = Len(s7)
      <3>1. CASE Engine!BitbltFails
        BY <3>1 DEF Engine!BitbltFails
      <3>2. CASE Engine!Done
        <4>1. s9 = "busy" /\ s6 = <<>> /\ s7 \in Seq(Engine!Rects)
          BY <3>2, <2>2 DEF Engine!Done, Engine!Agreed, Antecedent
        <4>2. n + Len(s6) = Len(s7) /\ Len(s6) = 0
          BY <4>1, <2>3 DEF Engine!DrawnAfter
        <4> QED
          BY <4>2
      <3> QED
        BY <1>4, <3>1, <3>2
    <2>5. s9' # "busy"
      BY <1>4 DEF Engine!BitbltFails, Engine!Done
    <2>6. Engine!DrawnAfter(n)'
      BY <2>1, <2>3, <2>4, <2>5 DEF Engine!DrawnAfter
    <2> QED
      BY <2>1, <2>6
  <1> QED
    BY <1>1, <1>2, <1>3, <1>4 DEF Engine!Next

LEMMA EngineStep ==
    ASSUME Engine!IInv, Engine!CallsAssumption, Engine!RegionsAssumption,
           [Engine!Next]_(Engine!bitVars)
    PROVE  Engine!IInv'
  <1>1. Engine!Drawing <=> (Antecedent => \E n \in 0..Len(s7) : Engine!DrawnAfter(n))
    BY DEF Engine!Drawing, Antecedent
  <1>2. Engine!Drawing' <=> (Antecedent' => \E n \in 0..Len(s7') : Engine!DrawnAfter(n)')
    BY DEF Engine!Drawing, Antecedent
  <1>3. CASE Engine!Next
    BY <1>1, <1>2, <1>3, AgreedStep, DrawingStep DEF Engine!IInv
  <1>4. CASE UNCHANGED Engine!bitVars
    <2>1. UNCHANGED <<s1, s2, s3, s4, s5, s6, s7, s8, s9>>
      BY <1>4 DEF Engine!bitVars
    <2>2. Engine!Agreed'
      BY <2>1 DEF Engine!IInv, Engine!Agreed
    <2>3. ASSUME Antecedent' PROVE \E n \in 0..Len(s7') : Engine!DrawnAfter(n)'
      <3>1. PICK n \in 0..Len(s7) : Engine!DrawnAfter(n)
        BY <1>1, <2>1, <2>3, AntecedentSame DEF Engine!IInv
      <3>2. Engine!DrawnAfter(n)'
        BY <2>1, <3>1 DEF Engine!DrawnAfter
      <3> QED
        BY <2>1, <3>2
    <2> QED
      BY <1>2, <2>2, <2>3 DEF Engine!IInv
  <1> QED
    BY <1>3, <1>4

LEMMA EngineRight ==
    ASSUME Engine!IInv
    PROVE  Engine!ClipsFit
  <1> SUFFICES ASSUME s1, s5.op # "none", \A i \in DOMAIN s7 : Engine!Exact(s7[i])
               PROVE  LET Clipped == UNION {Engine!Pixels(Engine!intersect(s7[i], s5.dst_rect)) :
                                                i \in DOMAIN s7}
                      IN  /\ DOMAIN s8 \subseteq Clipped
                          /\ \A p \in DOMAIN s8 :
                                 s8[p] = Engine!Sample(s4, s5.dst_rect, s5.src_rect, p)
                          /\ s9 = "ok" => DOMAIN s8 = Clipped
    BY DEF Engine!ClipsFit
  <1>1. PICK n \in 0..Len(s7) : Engine!DrawnAfter(n)
    BY DEF Engine!IInv, Engine!Drawing
  <1>2. DOMAIN s7 = 1..Len(s7) /\ Len(s7) \in Nat
    BY DEF Engine!IInv, Engine!Agreed
  <1>3. 1..n \subseteq DOMAIN s7 /\ (n = Len(s7) => 1..n = DOMAIN s7)
    <2>1. n \in Nat /\ n <= Len(s7)
      BY <1>2
    <2>2. 1..n \subseteq 1..Len(s7)
      <3> SUFFICES ASSUME NEW i \in 1..n PROVE i \in 1..Len(s7)
        OBVIOUS
      <3> QED
        BY <1>2, <2>1
    <2> QED
      BY ONLY <1>2, <2>2
  <1>4. DOMAIN s8 = ClipsOf(n) /\ (s9 = "ok" => n = Len(s7))
        /\ \A p \in DOMAIN s8 : s8[p] = Engine!Sample(s4, s5.dst_rect, s5.src_rect, p)
    BY <1>1 DEF Engine!DrawnAfter, ClipsOf
  <1> QED
    BY <1>3, <1>4, Zenon DEF ClipsOf
-----------------------------------------------------------------------------
(* The parts.  A behaviour is of one part: its invariant holds at the start *)
(* and every step is a step of the part or leaves its variables alone.      *)

\* The allocator's list is the heap, cut into chunks without gap or overlap, no
\* two neighbours are free, and what alloc settles on is a best fit.
THEOREM ListIsKept == PartsSpec => []ListKept
  <1>1. PartsInit => IInv
    BY ListStart, SizeAssumption DEF PartsInit
  <1>2. IInv /\ [PartsNext /\ part' = part]_partsVars => IInv'
    BY ListStep, SizeAssumption DEF PartsNext, partsVars
  <1>3. IInv => ListKept
    BY SearchIsBest, SizeAssumption DEF IInv, TypeOK, ListKept
  <1> QED
    BY <1>1, <1>2, <1>3, PTL DEF PartsSpec

\* The allocator is a heap: the blocks it grants start on pages and never overlap,
\* and it refuses only when no free range could hold the block.
THEOREM AllocatorIsHeap == PartsSpec => ImplementsHeap
  <1>1. PartsInit => IInv /\ H!Init
    BY ListStart, HeapStart, SizeAssumption DEF PartsInit
  <1>2. IInv /\ [PartsNext /\ part' = part]_partsVars => IInv'
    BY ListStep, SizeAssumption DEF PartsNext, partsVars
  <1>3. IInv /\ [PartsNext /\ part' = part]_partsVars => [H!Next]_(H!vars)
    BY HeapStep, SizeAssumption DEF PartsNext, partsVars
  <1> QED
    BY <1>1, <1>2, <1>3, PTL DEF PartsSpec, ImplementsHeap, H!Spec

\* A transfer moves its frames once or not at all, on a PCM that is prepared and
\* has the periods its caller wanted, whatever underruns come.
THEOREM TransfersAreRight == PartsSpec => []TransfersRight
  <1> DEFINE Inv == part = "Pcm" => Transfer!IInv
  <1>1. PartsInit => Inv
    BY TransferStart, PartsAssumption DEF PartsInit
  <1>2. Inv /\ [PartsNext /\ part' = part]_partsVars => Inv'
    <2> SUFFICES ASSUME Inv, [PartsNext /\ part' = part]_partsVars, part = "Pcm"
                 PROVE  Transfer!IInv'
      BY DEF partsVars
    <2>1. [Transfer!Next]_(Transfer!vars)
      BY DEF PartsNext, Others, partsVars, state, Transfer!vars, Transfer!pcmVars
    <2> QED
      BY <2>1, TransferStep, PartsAssumption DEF PartsAssumption
  <1>3. Inv => TransfersRight
    BY DEF Transfer!IInv, TransfersRight
  <1> QED
    BY <1>1, <1>2, <1>3, PTL DEF PartsSpec

\* However a recording is cut into periods, rounds of the filters and reads of the
\* client, the client gets what one run of the filters over all of it would make; no
\* round leaves a buffer; and the rate is one of the nearest.
THEOREM RecordingIsWhole == PartsSpec => []CaptureKept
  <1> DEFINE Inv == part = "DownSampler" => Capture!IInv
  <1>1. PartsInit => Inv
    BY CaptureStart, PartsAssumption DEF PartsInit, PartsAssumption
  <1>2. Inv /\ [PartsNext /\ part' = part]_partsVars => Inv'
    <2> SUFFICES ASSUME Inv, [PartsNext /\ part' = part]_partsVars, part = "DownSampler"
                 PROVE  Capture!IInv'
      BY DEF partsVars
    <2>1. [Capture!Next]_(Capture!vars)
      BY DEF PartsNext, Others, partsVars, state, Capture!vars, Capture!clientVars, Capture!filterVars
    <2> QED
      BY <2>1, CaptureStep, PartsAssumption DEF PartsAssumption
  <1>3. Inv => CaptureKept
    <2>1. ASSUME Capture!IInv PROVE Capture!CaptureIsContinuous
      <3>1. CASE s3 = "standby"
        BY <3>1 DEF Capture!CaptureIsContinuous
      <3>2. CASE s3 # "standby"
        BY <2>1, <3>2 DEF Capture!IInv, Capture!Recording
      <3> QED
        BY <3>1, <3>2
    <2>2. Capture!IInv => Capture!BuffersHold
      BY DEF Capture!IInv
    <2>3. Capture!NearestRate
      BY RatesNearest, PartsAssumption DEF PartsAssumption
    <2> QED
      BY <2>1, <2>2, <2>3 DEF CaptureKept
  <1> QED
    BY <1>1, <1>2, <1>3, PTL DEF PartsSpec

\* A dump is made exactly after a run that was cut off.
THEOREM GuardIsTrue == PartsSpec => []GuardTells
  <1> DEFINE Inv == part = "CrashGuard" => Guard!IInv
  <1>1. PartsInit => Inv
    BY GuardStart DEF PartsInit
  <1>2. Inv /\ [PartsNext /\ part' = part]_partsVars => Inv'
    <2> SUFFICES ASSUME Inv, [PartsNext /\ part' = part]_partsVars, part = "CrashGuard"
                 PROVE  Guard!IInv'
      BY DEF partsVars
    <2>1. [Guard!Next]_(Guard!guardVars)
      BY DEF PartsNext, Others, partsVars, state, Guard!guardVars
    <2> QED
      BY <2>1, GuardStep
  <1>3. Inv => GuardTells
    BY DEF Guard!IInv, Guard!FileOfLast, GuardTells
  <1> QED
    BY <1>1, <1>2, <1>3, PTL DEF PartsSpec

\* The backlight has the level that was set last, by whichever thread.
THEOREM BacklightIsSet == PartsSpec => []LevelIsLast
  <1> DEFINE Inv == part = "Lights" => Light!IInv
  <1>1. PartsInit => Inv
    BY BacklightStart DEF PartsInit
  <1>2. Inv /\ [PartsNext /\ part' = part]_partsVars => Inv'
    <2> SUFFICES ASSUME Inv, [PartsNext /\ part' = part]_partsVars, part = "Lights"
                 PROVE  Light!IInv'
      BY DEF partsVars
    <2>1. [Light!Next]_(Light!lightVars)
      BY DEF PartsNext, Others, partsVars, state, Light!lightVars
    <2> QED
      BY <2>1, BacklightStep, PartsAssumption DEF PartsAssumption
  <1>3. Inv => LevelIsLast
    BY DEF Light!IInv, Light!Written, LevelIsLast
  <1> QED
    BY <1>1, <1>2, <1>3, PTL DEF PartsSpec

\* The posts drop no lock of a drawer and leave none behind, and what is on screen
\* stays as it is until the next post.
THEOREM ScreenIsStill == PartsSpec => []ScreenKept
  <1> DEFINE Inv == part = "FbPost" => ScreenP!IInv
  <1>1. PartsInit => Inv
    BY ScreenBuffers, SameScreenInit, ScreenP!Start, PartsAssumption DEF PartsInit, PartsAssumption
  <1>2. Inv /\ [PartsNext /\ part' = part]_partsVars => Inv'
    <2> SUFFICES ASSUME Inv, [PartsNext /\ part' = part]_partsVars, part = "FbPost"
                 PROVE  ScreenP!IInv'
      BY DEF partsVars
    <2>1. [Screen!Next]_(Screen!fbVars)
      BY DEF PartsNext, Others, partsVars, state, Screen!fbVars, Screen!moduleVars,
         Screen!postVars, Screen!driverVars
    <2> QED
      BY <2>1, ScreenBuffers, SameScreenNext, ScreenP!Step, PartsAssumption DEF PartsAssumption
  <1>3. Inv => ScreenKept
    BY ScreenP!Safe, SameScreenSafe DEF ScreenKept
  <1> QED
    BY <1>1, <1>2, <1>3, PTL DEF PartsSpec

\* A sample of the accelerometer is what it measured when its frame ended, whichever
\* thread opens and closes the descriptor meanwhile; the mask of the active sensors
\* promises nothing that cannot come; and a sample that is pending is not read into.
THEOREM SamplesAreRight == PartsSpec => []SamplesRight
  <1> DEFINE Inv == /\ part = "Sensors" => Accelerometer!IInv
                    /\ part = "SensorsControl" => Switches!IInv
                    /\ part = "SensorsData" => Samples!IInv
  <1>1. PartsInit => Inv
    BY AccelStart, SwitchesStart, SamplesStart, PartsAssumption DEF PartsInit, PartsAssumption
  <1>2. Inv /\ [PartsNext /\ part' = part]_partsVars => Inv'
    <2> SUFFICES ASSUME Inv, [PartsNext /\ part' = part]_partsVars
                 PROVE  Inv'
      OBVIOUS
    <2>1. part' = part
      BY DEF partsVars
    <2>2. ASSUME part = "Sensors" PROVE Accelerometer!IInv'
      <3>1. [Accelerometer!Next]_(Accelerometer!sensorsVars)
        BY <2>2 DEF PartsNext, Others, partsVars, state, Accelerometer!sensorsVars,
           Accelerometer!held, Accelerometer!history
      <3> QED
        BY <2>2, <3>1, AccelStep, PartsAssumption DEF PartsAssumption
    <2>3. ASSUME part = "SensorsControl" PROVE Switches!IInv'
      <3>1. [Switches!Next]_(Switches!controlVars)
        BY <2>3 DEF PartsNext, Others, partsVars, state, Switches!controlVars
      <3> QED
        BY <2>3, <3>1, SwitchesStep, PartsAssumption DEF PartsAssumption
    <2>4. ASSUME part = "SensorsData" PROVE Samples!IInv'
      <3>1. [Samples!Next]_(Samples!dataVars)
        BY <2>4 DEF PartsNext, Others, partsVars, state, Samples!dataVars, Samples!sampleVars
      <3> QED
        BY <2>4, <3>1, SamplesStep, PartsAssumption DEF PartsAssumption
    <2> QED
      BY <2>1, <2>2, <2>3, <2>4
  <1>3. Inv => SamplesRight
    BY DEF Accelerometer!IInv, Switches!IInv, Samples!IInv, SamplesRight
  <1> QED
    BY <1>1, <1>2, <1>3, PTL DEF PartsSpec

\* Every sample is followed by the orientation computed from it, and an orientation
\* only ever follows its own sample.
THEOREM OrientationIsOfSample == PartsSpec => OrientationOfSample
  <1> DEFINE Inv == part = "Sensors" => Accelerometer!IInv
             Follows == part = "Sensors" => Accelerometer!OrientationFollows
  <1>1. PartsInit => Inv
    BY AccelStart, PartsAssumption DEF PartsInit, PartsAssumption
  <1>2. Inv /\ [PartsNext /\ part' = part]_partsVars => Inv' /\ [Follows]_partsVars
    <2> SUFFICES ASSUME Inv, [PartsNext /\ part' = part]_partsVars, part = "Sensors"
                 PROVE  Accelerometer!IInv' /\ Accelerometer!OrientationFollows
      BY DEF partsVars
    <2>1. [Accelerometer!Next]_(Accelerometer!sensorsVars)
      BY DEF PartsNext, Others, partsVars, state, Accelerometer!sensorsVars,
         Accelerometer!held, Accelerometer!history
    <2> QED
      BY <2>1, AccelStep, OrientationStep, PartsAssumption DEF PartsAssumption
  <1> QED
    BY <1>1, <1>2, PTL DEF PartsSpec, OrientationOfSample

\* Whatever is clipped and in whatever transform, a call draws the pixels it would
\* draw if the destination were drawn as a whole: each clip takes from the source
\* the rectangle that belongs to it.
THEOREM ClipsAreRight == PartsSpec => []ClipsFit
  <1> DEFINE Inv == part = "Copybit" => Engine!IInv
  <1>1. PartsInit => Inv
    BY EngineStart DEF PartsInit
  <1>2. Inv /\ [PartsNext /\ part' = part]_partsVars => Inv'
    <2> SUFFICES ASSUME Inv, [PartsNext /\ part' = part]_partsVars, part = "Copybit"
                 PROVE  Engine!IInv'
      BY DEF partsVars
    <2>1. [Engine!Next]_(Engine!bitVars)
      BY DEF PartsNext, Others, partsVars, state, Engine!bitVars
    <2> QED
      BY <2>1, EngineStep, PartsAssumption DEF PartsAssumption
  <1>3. Inv => ClipsFit
    BY EngineRight DEF ClipsFit
  <1> QED
    BY <1>1, <1>2, <1>3, PTL DEF PartsSpec
=============================================================================
