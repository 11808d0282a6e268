----------------------------- MODULE ListProofs -----------------------------
(***************************************************************************)
(* Proofs that the pointers of List implement sequences, that they agree   *)
(* in both directions, and that what is on no list leads into none; and    *)
(* that the pointers of SinglyList implement sequences: for any number of  *)
(* heads and entries.                                                      *)
(***************************************************************************)
EXTENDS MCLists, TLAPS, SequenceTheorems, FiniteSetTheorems, WellFoundedInduction

-----------------------------------------------------------------------------
(* Sequences: one put into another, one element taken out                  *)

Into(t, i, s) == SubSeq(t, 1, i) \o s \o SubSeq(t, i + 1, Len(t))
OutOf(t, i) == SubSeq(t, 1, i - 1) \o SubSeq(t, i + 1, Len(t))

LEMMA PartIs ==
  ASSUME NEW T, NEW t \in Seq(T), NEW i \in 1 .. Len(t) + 1, NEW j \in 0 .. Len(t), i <= j + 1
  PROVE  /\ SubSeq(t, i, j) \in Seq(T)
         /\ Len(SubSeq(t, i, j)) = j + 1 - i
         /\ \A k \in 1 .. j + 1 - i : SubSeq(t, i, j)[k] = t[i + k - 1]
<1>1. PICK m \in Nat : m = Len(t)
  BY LenProperties
<1>2. \A k \in i .. j : t[k] \in T
  BY <1>1, ElementOfSeq
<1>3. i \in Int /\ j \in Int
  BY <1>1
<1>4. CASE i <= j
  BY <1>2, <1>3, <1>4, SubSeqProperties
<1>5. CASE i = j + 1
  BY <1>2, <1>3, <1>5, SubSeqProperties
<1> QED
  BY <1>1, <1>3, <1>4, <1>5

LEMMA IntoIs ==
  ASSUME NEW T, NEW t \in Seq(T), NEW s \in Seq(T), NEW i \in 0 .. Len(t)
  PROVE  /\ Into(t, i, s) \in Seq(T)
         /\ Len(Into(t, i, s)) = Len(t) + Len(s)
         /\ \A k \in 1 .. Len(t) + Len(s) : Into(t, i, s)[k] =
              IF k <= i THEN t[k]
              ELSE IF k <= i + Len(s) THEN s[k - i] ELSE t[k - Len(s)]
<1> DEFINE a == SubSeq(t, 1, i)  c == SubSeq(t, i + 1, Len(t))  b == a \o s  e == b \o c
<1>0. PICK m \in Nat, n \in Nat : m = Len(t) /\ n = Len(s)
  BY LenProperties
<1>1. a \in Seq(T) /\ Len(a) = i /\ \A k \in 1 .. i : a[k] = t[k]
  <2>1. 1 \in 1 .. Len(t) + 1 /\ 1 <= i + 1 /\ i + 1 - 1 = i /\ \A k \in 1 .. i : 1 + k - 1 = k
    BY <1>0
  <2> QED
    BY <2>1, PartIs
<1>2. c \in Seq(T) /\ Len(c) = m - i /\ \A k \in 1 .. m - i : c[k] = t[i + k]
  <2>1. i + 1 \in 1 .. Len(t) + 1 /\ Len(t) \in 0 .. Len(t) /\ i + 1 <= Len(t) + 1
        /\ Len(t) + 1 - (i + 1) = m - i /\ \A k \in 1 .. m - i : (i + 1) + k - 1 = i + k
    BY <1>0
  <2> QED
    BY <2>1, PartIs
<1> HIDE DEF a, c
<1>3. b \in Seq(T) /\ Len(b) = i + n
      /\ \A k \in 1 .. i + n : b[k] = IF k <= i THEN a[k] ELSE s[k - i]
  BY <1>0, <1>1, ConcatProperties
<1> HIDE DEF b
<1>4. e \in Seq(T) /\ Len(e) = m + n
      /\ \A k \in 1 .. m + n : e[k] = IF k <= i + n THEN b[k] ELSE c[k - (i + n)]
  <2>1. /\ e \in Seq(T) /\ Len(e) = Len(b) + Len(c)
        /\ \A k \in 1 .. Len(b) + Len(c) : e[k] = IF k <= Len(b) THEN b[k] ELSE c[k - Len(b)]
    BY <1>2, <1>3, ConcatProperties
  <2>2. Len(b) + Len(c) = m + n
    BY <1>0, <1>2, <1>3
  <2> QED
    BY <2>1, <2>2, <1>3
<1> HIDE DEF e
<1>5. ASSUME NEW k \in 1 .. m + n
      PROVE  e[k] = IF k <= i THEN t[k] ELSE IF k <= i + n THEN s[k - i] ELSE t[k - n]
  <2>1. CASE k <= i
    BY <2>1, <1>0, <1>1, <1>3, <1>4
  <2>2. CASE i < k /\ k <= i + n
    BY <2>2, <1>0, <1>3, <1>4
  <2>3. CASE k > i + n
    <3> DEFINE j == k - (i + n)
    <3>1. j \in 1 .. m - i /\ ~(k <= i + n) /\ i + j = k - n
      BY <2>3, <1>0
    <3> HIDE DEF j
    <3>2. e[k] = c[j] /\ c[j] = t[i + j]
      BY <3>1, <1>2, <1>4 DEF j
    <3> QED
      BY <2>3, <3>1, <3>2, <1>0
  <2> QED
    BY <2>1, <2>2, <2>3, <1>0
<1>6. Into(t, i, s) = e
  BY DEF Into, a, b, c, e
<1> QED
  BY <1>0, <1>4, <1>5, <1>6

LEMMA OutOfIs ==
  ASSUME NEW T, NEW t \in Seq(T), NEW i \in 1 .. Len(t)
  PROVE  /\ OutOf(t, i) \in Seq(T)
         /\ Len(OutOf(t, i)) = Len(t) - 1
         /\ \A k \in 1 .. Len(t) - 1 : OutOf(t, i)[k] = IF k < i THEN t[k] ELSE t[k + 1]
<1> DEFINE a == SubSeq(t, 1, i - 1)  c == SubSeq(t, i + 1, Len(t))  e == a \o c
<1>0. PICK m \in Nat : m = Len(t)
  BY LenProperties
<1>1. a \in Seq(T) /\ Len(a) = i - 1 /\ \A k \in 1 .. i - 1 : a[k] = t[k]
  <2>1. /\ 1 \in 1 .. Len(t) + 1 /\ i - 1 \in 0 .. Len(t) /\ 1 <= (i - 1) + 1
        /\ (i - 1) + 1 - 1 = i - 1 /\ \A k \in 1 .. i - 1 : 1 + k - 1 = k
    BY <1>0
  <2> QED
    BY <2>1, PartIs
<1>2. c \in Seq(T) /\ Len(c) = m - i /\ \A k \in 1 .. m - i : c[k] = t[i + k]
  <2>1. i + 1 \in 1 .. Len(t) + 1 /\ Len(t) \in 0 .. Len(t) /\ i + 1 <= Len(t) + 1
        /\ Len(t) + 1 - (i + 1) = m - i /\ \A k \in 1 .. m - i : (i + 1) + k - 1 = i + k
    BY <1>0
  <2> QED
    BY <2>1, PartIs
<1> HIDE DEF a, c
<1>3. e \in Seq(T) /\ Len(e) = m - 1
      /\ \A k \in 1 .. m - 1 : e[k] = IF k <= i - 1 THEN a[k] ELSE c[k - (i - 1)]
  <2>1. /\ e \in Seq(T) /\ Len(e) = Len(a) + Len(c)
        /\ \A k \in 1 .. Len(a) + Len(c) : e[k] = IF k <= Len(a) THEN a[k] ELSE c[k - Len(a)]
    BY <1>1, <1>2, ConcatProperties
  <2>2. Len(a) + Len(c) = m - 1
    BY <1>0, <1>1, <1>2
  <2> QED
    BY <2>1, <2>2, <1>1
<1> HIDE DEF e
<1>4. ASSUME NEW k \in 1 .. m - 1 PROVE e[k] = IF k < i THEN t[k] ELSE t[k + 1]
  <2>1. CASE k < i
    BY <2>1, <1>0, <1>1, <1>3
  <2>2. CASE k >= i
    <3>1. PICK j \in 1 .. m - i : j = k - (i - 1)
      BY <2>2, <1>0
    <3>2. e[k] = c[j] /\ c[j] = t[i + j] /\ i + j = k + 1
      BY <2>2, <3>1, <1>0, <1>2, <1>3
    <3> QED
      BY <2>2, <3>2, <1>0
  <2> QED
    BY <2>1, <2>2, <1>0
<1>5. OutOf(t, i) = e
  BY DEF OutOf, a, c, e
<1> QED
  BY <1>0, <1>3, <1>4, <1>5

-----------------------------------------------------------------------------
(* Rings                                                                   *)

(* Position 0 of a ring is its head, and so is the one behind the last.    *)
At(h, s, i) == IF i \in 1 .. Len(s) THEN s[i] ELSE h

(* A field leads along the ring, or back along it.                         *)
Along(f, h, s) == \A i \in 0 .. Len(s) : f[At(h, s, i)] = At(h, s, i + 1)
Back(f, h, s) == \A i \in 0 .. Len(s) : f[At(h, s, i + 1)] = At(h, s, i)

Ring(m, h, s) == Along(m.next, h, s) /\ Back(m.prev, h, s)

(* A chain of entries s replaces the link from position i of a ring.       *)
LEMMA RingInto ==
  ASSUME NEW m, NEW n, NEW h, NEW T, NEW t \in Seq(T), NEW s \in Seq(T), s # <<>>,
         NEW i \in 0 .. Len(t), Ring(m, h, t),
         \A k \in 1 .. Len(s) - 1 : n.next[s[k]] = s[k + 1] /\ n.prev[s[k + 1]] = s[k],
         n.next[At(h, t, i)] = s[1], n.prev[s[1]] = At(h, t, i),
         n.next[s[Len(s)]] = At(h, t, i + 1), n.prev[At(h, t, i + 1)] = s[Len(s)],
         \A k \in 0 .. Len(t) : k # i =>
           /\ n.next[At(h, t, k)] = m.next[At(h, t, k)]
           /\ n.prev[At(h, t, k + 1)] = m.prev[At(h, t, k + 1)]
  PROVE  Ring(n, h, Into(t, i, s))
<1> DEFINE u == Into(t, i, s)
<1>0. PICK L \in Nat, K \in Nat : L = Len(t) /\ K = Len(s) /\ K # 0
  BY LenProperties, EmptySeq
<1>1. /\ u \in Seq(T) /\ Len(u) = L + K
      /\ \A k \in 1 .. L + K : u[k] = IF k <= i THEN t[k]
                                      ELSE IF k <= i + K THEN s[k - i] ELSE t[k - K]
  <2>1. /\ u \in Seq(T) /\ Len(u) = Len(t) + Len(s)
        /\ \A k \in 1 .. Len(t) + Len(s) :
             u[k] = IF k <= i THEN t[k]
                    ELSE IF k <= i + Len(s) THEN s[k - i] ELSE t[k - Len(s)]
    BY IntoIs
  <2> QED
    BY <2>1, <1>0
<1>a. i \in Int /\ 0 <= i /\ i <= L
  BY <1>0
<1> HIDE DEF u
<1>2. ASSUME NEW k \in 0 .. i PROVE At(h, u, k) = At(h, t, k)
  BY <1>0, <1>1 DEF At
<1>3. ASSUME NEW k \in 1 .. K PROVE At(h, u, i + k) = s[k]
  <2>1. i + k \in 1 .. L + K /\ ~(i + k <= i) /\ i + k <= i + K /\ (i + k) - i = k
    BY <1>0
  <2> QED
    BY <2>1, <1>1 DEF At
<1>4. ASSUME NEW k \in i + 1 .. L + 1 PROVE At(h, u, k + K) = At(h, t, k)
  <2>1. CASE k = L + 1
    <3>1. k + K \notin 1 .. Len(u) /\ k \notin 1 .. Len(t)
      BY <2>1, <1>0, <1>1
    <3> QED
      BY <3>1 DEF At
  <2>2. CASE k <= L
    <3>1. k + K \in 1 .. L + K /\ ~(k + K <= i + K) /\ ~(k + K <= i) /\ (k + K) - K = k /\ k \in 1 .. L
      BY <2>2, <1>0
    <3> QED
      BY <3>1, <1>0, <1>1 DEF At
  <2> QED
    BY <2>1, <2>2, <1>a
<1>5. ASSUME NEW k \in 0 .. L + K
      PROVE  n.next[At(h, u, k)] = At(h, u, k + 1) /\ n.prev[At(h, u, k + 1)] = At(h, u, k)
  <2>1. CASE k < i
    <3>1. k \in 0 .. i /\ k + 1 \in 0 .. i /\ k \in 0 .. Len(t) /\ k # i
      BY <2>1, <1>0
    <3>2. /\ n.next[At(h, t, k)] = m.next[At(h, t, k)]
          /\ n.prev[At(h, t, k + 1)] = m.prev[At(h, t, k + 1)]
      BY <3>1
    <3>3. /\ m.next[At(h, t, k)] = At(h, t, k + 1)
          /\ m.prev[At(h, t, k + 1)] = At(h, t, k)
      BY <3>1 DEF Ring, Along, Back
    <3>4. At(h, u, k) = At(h, t, k) /\ At(h, u, k + 1) = At(h, t, k + 1)
      BY <3>1, <1>2
    <3> QED
      BY <3>2, <3>3, <3>4
  <2>2. CASE k = i
    <3>1. i \in 0 .. i /\ 1 \in 1 .. K
      BY <1>0
    <3>2. At(h, u, k) = At(h, t, i) /\ At(h, u, k + 1) = s[1]
      BY <3>1, <2>2, <1>2, <1>3
    <3> QED
      BY <3>2
  <2>3. CASE i < k /\ k < i + K
    <3>1. PICK j \in 1 .. K - 1 : k = i + j
      <4>1. k - i \in 1 .. K - 1 /\ k = i + (k - i)
        BY <2>3, <1>0
      <4> QED
        BY <4>1
    <3>2. j \in 1 .. K /\ j + 1 \in 1 .. K /\ k + 1 = i + (j + 1)
      BY <3>1, <1>0
    <3>3. At(h, u, k) = s[j] /\ At(h, u, k + 1) = s[j + 1]
      BY <3>1, <3>2, <1>3
    <3> QED
      BY <3>1, <3>3, <1>0
  <2>4. CASE k = i + K
    <3>1. K \in 1 .. K /\ i + 1 \in i + 1 .. L + 1 /\ k + 1 = (i + 1) + K
      BY <2>4, <1>0
    <3>2. At(h, u, k) = s[K] /\ At(h, u, k + 1) = At(h, t, i + 1)
      BY <3>1, <2>4, <1>3, <1>4
    <3> QED
      BY <3>2, <1>0
  <2>5. CASE k > i + K
    <3>1. PICK j \in i + 1 .. L : k = j + K
      <4>1. k - K \in i + 1 .. L /\ k = (k - K) + K
        BY <2>5, <1>0
      <4> QED
        BY <4>1
    <3>2. /\ j \in i + 1 .. L + 1 /\ j + 1 \in i + 1 .. L + 1 /\ k + 1 = (j + 1) + K
          /\ j \in 0 .. Len(t) /\ j # i
      BY <3>1, <1>0
    <3>3. At(h, u, k) = At(h, t, j) /\ At(h, u, k + 1) = At(h, t, j + 1)
      BY <3>1, <3>2, <1>4
    <3> QED
      BY <3>2, <3>3 DEF Ring, Along, Back
  <2>6. k < i \/ k = i \/ (i < k /\ k < i + K) \/ k = i + K \/ k > i + K
    BY <1>a
  <2> QED
    BY <2>1, <2>2, <2>3, <2>4, <2>5, <2>6
<1> QED
  BY <1>1, <1>5 DEF Ring, Along, Back, u

(* Position i of a ring is bridged.                                        *)
LEMMA RingOutOf ==
  ASSUME NEW m, NEW n, NEW h, NEW T, NEW t \in Seq(T), NEW i \in 1 .. Len(t), Ring(m, h, t),
         n.next[At(h, t, i - 1)] = At(h, t, i + 1), n.prev[At(h, t, i + 1)] = At(h, t, i - 1),
         \A k \in 0 .. Len(t) : k \notin {i - 1, i} =>
           /\ n.next[At(h, t, k)] = m.next[At(h, t, k)]
           /\ n.prev[At(h, t, k + 1)] = m.prev[At(h, t, k + 1)]
  PROVE  Ring(n, h, OutOf(t, i))
<1> DEFINE u == OutOf(t, i)
<1>0. PICK L \in Nat : L = Len(t)
  BY LenProperties
<1>1. /\ u \in Seq(T) /\ Len(u) = L - 1
      /\ \A k \in 1 .. L - 1 : u[k] = IF k < i THEN t[k] ELSE t[k + 1]
  BY <1>0, OutOfIs
<1> HIDE DEF u
<1>2. ASSUME NEW k \in 0 .. i - 1 PROVE At(h, u, k) = At(h, t, k)
  BY <1>0, <1>1 DEF At
<1>3. ASSUME NEW k \in i .. L PROVE At(h, u, k) = At(h, t, k + 1)
  <2>1. CASE k = L
    BY <2>1, <1>0, <1>1 DEF At
  <2>2. CASE k < L
    <3>1. k \in 1 .. L - 1 /\ ~(k < i) /\ k + 1 \in 1 .. L
      BY <2>2, <1>0
    <3> QED
      BY <3>1, <1>0, <1>1 DEF At
  <2> QED
    BY <2>1, <2>2, <1>0
<1>5. ASSUME NEW k \in 0 .. L - 1
      PROVE  n.next[At(h, u, k)] = At(h, u, k + 1) /\ n.prev[At(h, u, k + 1)] = At(h, u, k)
  <2>1. CASE k < i - 1
    <3>1. k \in 0 .. i - 1 /\ k + 1 \in 0 .. i - 1 /\ k \in 0 .. Len(t) /\ k \notin {i - 1, i}
      BY <2>1, <1>0
    <3> QED
      BY <3>1, <1>2 DEF Ring, Along, Back
  <2>2. CASE k = i - 1
    <3>1. i - 1 \in 0 .. i - 1 /\ i \in i .. L /\ k + 1 = i
      BY <2>2, <1>0
    <3>2. At(h, u, k) = At(h, t, i - 1) /\ At(h, u, k + 1) = At(h, t, i + 1)
      BY <3>1, <2>2, <1>2, <1>3
    <3> QED
      BY <3>2
  <2>3. CASE k >= i
    <3>1. k \in i .. L /\ k + 1 \in i .. L /\ k + 1 \in 0 .. Len(t) /\ k + 1 \notin {i - 1, i}
      BY <2>3, <1>0
    <3>2. At(h, u, k) = At(h, t, k + 1) /\ At(h, u, k + 1) = At(h, t, (k + 1) + 1)
      BY <3>1, <1>3
    <3> QED
      BY <3>1, <3>2 DEF Ring, Along, Back
  <2> QED
    BY <2>1, <2>2, <2>3, <1>0
<1> QED
  BY <1>1, <1>5 DEF Ring, Along, Back, u

-----------------------------------------------------------------------------
(* The memory                                                              *)

Field == [Place -> Place \cup {NULL}]
Memory == [next : Field, prev : Field]

LEMMA BetweenIs ==
  ASSUME NEW m \in Memory, NEW x \in Place, NEW p \in Place, NEW q \in Place, x # p, x # q
  PROVE  LET n == Between(m, x, p, q)
         IN  /\ n \in Memory
             /\ \A y \in Place : n.next[y] = IF y = p THEN x ELSE IF y = x THEN q ELSE m.next[y]
             /\ \A y \in Place : n.prev[y] = IF y = q THEN x ELSE IF y = x THEN p ELSE m.prev[y]
<1> DEFINE n == Between(m, x, p, q)
<1>1. m.next \in Field /\ m.prev \in Field
  BY DEF Memory
<1>2. /\ n.next = [m.next EXCEPT ![x] = q, ![p] = x]
      /\ n.prev = [m.prev EXCEPT ![q] = x, ![x] = p]
      /\ n \in Memory
  BY <1>1 DEF Memory, Field, Between
<1> HIDE DEF n
<1> QED
  BY <1>1, <1>2 DEF Field, n

LEMMA WithoutIs ==
  ASSUME NEW m \in Memory, NEW x \in Place, NEW p \in Place, NEW q \in Place,
         m.prev[x] = p, m.next[x] = q
  PROVE  LET n == Without(m, x)
         IN  /\ n \in Memory
             /\ \A y \in Place : n.next[y] = IF y = p THEN q ELSE m.next[y]
             /\ \A y \in Place : n.prev[y] = IF y = q THEN p ELSE m.prev[y]
<1> DEFINE n == Without(m, x)
<1>1. m.next \in Field /\ m.prev \in Field
  BY DEF Memory
<1>2. n.next = [m.next EXCEPT ![p] = q] /\ n.prev = [m.prev EXCEPT ![q] = p] /\ n \in Memory
  BY <1>1 DEF Memory, Field, Without
<1> HIDE DEF n
<1> QED
  BY <1>1, <1>2 DEF Field, n

LEMMA AloneIs ==
  ASSUME NEW m \in Memory, NEW x \in Place
  PROVE  LET n == Alone(m, x)
         IN  /\ n \in Memory
             /\ n.next[x] = x /\ n.prev[x] = x
             /\ \A y \in Place \ {x} : n.next[y] = m.next[y] /\ n.prev[y] = m.prev[y]
<1> DEFINE n == Alone(m, x)
<1>1. m.next \in Field /\ m.prev \in Field
  BY DEF Memory
<1>2. n.next = [m.next EXCEPT ![x] = x] /\ n.prev = [m.prev EXCEPT ![x] = x] /\ n \in Memory
  BY <1>1 DEF Memory, Field, Alone
<1> HIDE DEF n
<1> QED
  BY <1>1, <1>2 DEF Field, n

(* Del ends with NULL in both fields.                                      *)
LEMMA PoisonedIs ==
  ASSUME NEW m \in Memory, NEW x \in Place
  PROVE  LET n == [m EXCEPT !.next[x] = NULL, !.prev[x] = NULL]
         IN  /\ n \in Memory
             /\ n.next[x] = NULL /\ n.prev[x] = NULL
             /\ \A y \in Place \ {x} : n.next[y] = m.next[y] /\ n.prev[y] = m.prev[y]
<1> DEFINE n == [m EXCEPT !.next[x] = NULL, !.prev[x] = NULL]
<1>1. m.next \in Field /\ m.prev \in Field
  BY DEF Memory
<1>2. n.next = [m.next EXCEPT ![x] = NULL] /\ n.prev = [m.prev EXCEPT ![x] = NULL] /\ n \in Memory
  BY <1>1 DEF Memory, Field
<1> HIDE DEF n
<1> QED
  BY <1>1, <1>2 DEF Field, n

LEMMA SplicedIs ==
  ASSUME NEW list \in Place, NEW p \in Place,
         NEW first \in Place, NEW last \in Place, NEW at \in Place,
         mem \in Memory, mem.next[list] = first, mem.prev[list] = last, mem.next[p] = at,
         p # last, first # at
  PROVE  LET n == Spliced(list, p)
         IN  /\ n \in Memory
             /\ \A y \in Place : n.next[y] = IF y = p THEN first ELSE IF y = last THEN at ELSE mem.next[y]
             /\ \A y \in Place : n.prev[y] = IF y = first THEN p ELSE IF y = at THEN last ELSE mem.prev[y]
<1> DEFINE n == Spliced(list, p)
<1>1. mem.next \in Field /\ mem.prev \in Field
  BY DEF Memory
<1>2. /\ n.next = [mem.next EXCEPT ![p] = first, ![last] = at]
      /\ n.prev = [mem.prev EXCEPT ![first] = p, ![at] = last]
      /\ n \in Memory
  BY <1>1 DEF Memory, Field, Spliced
<1> HIDE DEF n
<1> QED
  BY <1>1, <1>2 DEF Field, n

-----------------------------------------------------------------------------
(* Several lists                                                           *)

(* f[h] are the entries on the list of h.                                  *)
Contents == [ListHead -> Seq(Entry)]
On(f, x) == \E h \in ListHead : \E i \in 1 .. Len(f[h]) : f[h][i] = x
Apart(f) ==
  \A h, g \in ListHead : \A i \in 1 .. Len(f[h]), j \in 1 .. Len(f[g]) :
    f[h][i] = f[g][j] => h = g /\ i = j

(* A place is at one position of one list.                                 *)
LEMMA PlacesApart ==
  ASSUME NEW f \in Contents, Apart(f), NEW h \in ListHead, NEW g \in ListHead
  PROVE  /\ f[h] \in Seq(Entry) /\ Len(f[h]) \in Nat
         /\ \A i \in Int : At(h, f[h], i) \in Place
         /\ \A i \in 1 .. Len(f[h]) : At(h, f[h], i) = f[h][i] /\ f[h][i] \in Entry
         /\ \A i \in 0 .. Len(f[h]), j \in 0 .. Len(f[g]) :
              At(h, f[h], i) = At(g, f[g], j) => h = g /\ i = j
         /\ \A i \in 1 .. Len(f[h]) + 1, j \in 1 .. Len(f[g]) + 1 :
              At(h, f[h], i) = At(g, f[g], j) => h = g /\ i = j
<1>1. f[h] \in Seq(Entry) /\ f[g] \in Seq(Entry)
  BY DEF Contents
<1>2. PICK m \in Nat, n \in Nat : m = Len(f[h]) /\ n = Len(f[g])
  BY <1>1, LenProperties
<1>3. (\A i \in 1 .. m : f[h][i] \in Entry) /\ (\A j \in 1 .. n : f[g][j] \in Entry)
  BY <1>1, <1>2, ElementOfSeq
<1>4. \A i \in 1 .. m, j \in 1 .. n : f[h][i] = f[g][j] => h = g /\ i = j
  BY <1>2 DEF Apart
<1>5. ListHead \cap Entry = {}
  BY ListAssumption
<1>6. \A i \in 0 .. m, j \in 0 .. n : At(h, f[h], i) = At(g, f[g], j) => h = g /\ i = j
  <2> SUFFICES ASSUME NEW i \in 0 .. m, NEW j \in 0 .. n, At(h, f[h], i) = At(g, f[g], j)
               PROVE  h = g /\ i = j
    OBVIOUS
  <2>1. CASE i = 0 /\ j = 0
    BY <2>1, <1>2 DEF At
  <2>2. CASE i = 0 /\ j # 0
    BY <2>2, <1>2, <1>3, <1>5 DEF At
  <2>3. CASE i # 0 /\ j = 0
    BY <2>3, <1>2, <1>3, <1>5 DEF At
  <2>4. CASE i # 0 /\ j # 0
    BY <2>4, <1>2, <1>4 DEF At
  <2> QED
    BY <2>1, <2>2, <2>3, <2>4
<1>7. \A i \in 1 .. m + 1, j \in 1 .. n + 1 : At(h, f[h], i) = At(g, f[g], j) => h = g /\ i = j
  <2> SUFFICES ASSUME NEW i \in 1 .. m + 1, NEW j \in 1 .. n + 1, At(h, f[h], i) = At(g, f[g], j)
               PROVE  h = g /\ i = j
    OBVIOUS
  <2>1. CASE i = m + 1 /\ j = n + 1
    BY <2>1, <1>2 DEF At
  <2>2. CASE i = m + 1 /\ j # n + 1
    BY <2>2, <1>2, <1>3, <1>5 DEF At
  <2>3. CASE i # m + 1 /\ j = n + 1
    BY <2>3, <1>2, <1>3, <1>5 DEF At
  <2>4. CASE i # m + 1 /\ j # n + 1
    BY <2>4, <1>2, <1>4 DEF At
  <2> QED
    BY <2>1, <2>2, <2>3, <2>4
<1>8. \A i \in Int : At(h, f[h], i) \in Place
  BY <1>2, <1>3 DEF At, Place
<1> QED
  BY <1>1, <1>2, <1>3, <1>6, <1>7, <1>8 DEF At

Members(s) == {s[k] : k \in 1 .. Len(s)}

(* A sequence of entries that are on no list, each once.                   *)
Fresh(f, s) ==
  /\ s \in Seq(Entry) /\ s # <<>>
  /\ \A k, l \in 1 .. Len(s) : s[k] = s[l] => k = l
  /\ \A k \in 1 .. Len(s) : ~On(f, s[k])

(* What is on no list is put into one.                                     *)
LEMMA ApartInto ==
  ASSUME NEW f \in Contents, Apart(f), NEW g \in ListHead, NEW i \in 0 .. Len(f[g]),
         NEW s, Fresh(f, s)
  PROVE  LET f2 == [f EXCEPT ![g] = Into(f[g], i, s)]
         IN  /\ f2 \in Contents /\ Apart(f2)
             /\ \A x : On(f2, x) <=> On(f, x) \/ x \in Members(s)
<1> DEFINE t == f[g]
           u == Into(t, i, s)
           f2 == [f EXCEPT ![g] = Into(f[g], i, s)]
<1>1. t \in Seq(Entry) /\ s \in Seq(Entry) /\ i \in 0 .. Len(t)
  BY DEF Contents, Fresh
<1> HIDE DEF t
<1>2. PICK L \in Nat, K \in Nat : L = Len(t) /\ K = Len(s)
  BY <1>1, LenProperties
<1>3. /\ u \in Seq(Entry) /\ Len(u) = Len(t) + Len(s)
      /\ \A k \in 1 .. Len(t) + Len(s) :
           u[k] = IF k <= i THEN t[k]
                  ELSE IF k <= i + Len(s) THEN s[k - i] ELSE t[k - Len(s)]
  BY <1>1, IntoIs
<1>a. i \in Int /\ 0 <= i /\ i <= L
  BY <1>1, <1>2
<1>4. f2 \in Contents /\ f2[g] = u /\ \A h \in ListHead \ {g} : f2[h] = f[h]
  BY <1>3 DEF Contents, t
<1> HIDE DEF u, f2
<1>5. Len(u) = L + K
  BY <1>2, <1>3
(* A position of u is one of s or one of t.                                *)
<1>6. ASSUME NEW k \in 1 .. L + K
      PROVE  \/ i < k /\ k <= i + K /\ k - i \in 1 .. K /\ u[k] = s[k - i]
             \/ k <= i /\ k \in 1 .. L /\ u[k] = t[k]
             \/ k > i + K /\ k - K \in 1 .. L /\ u[k] = t[k - K]
  <2>1. u[k] = IF k <= i THEN t[k] ELSE IF k <= i + K THEN s[k - i] ELSE t[k - K]
    BY <1>2, <1>3
  <2>2. CASE k <= i
    BY <2>1, <2>2, <1>a
  <2>3. CASE i < k /\ k <= i + K
    BY <2>1, <2>3, <1>a
  <2>4. CASE k > i + K
    BY <2>1, <2>4, <1>a
  <2>5. k <= i \/ (i < k /\ k <= i + K) \/ k > i + K
    BY <1>a
  <2> QED
    BY <2>2, <2>3, <2>4, <2>5
<1>7. \A h \in ListHead : \A k \in 1 .. Len(f[h]) : On(f, f[h][k])
  BY DEF On
<1>8. \A k \in 1 .. L : On(f, t[k])
  BY <1>2, <1>7 DEF t
<1>9. \A k \in 1 .. K : ~On(f, s[k])
  BY <1>2 DEF Fresh
<1>10. ASSUME NEW k \in 1 .. L + K, NEW l \in 1 .. L + K, u[k] = u[l] PROVE k = l
  <2>1. \A a, b \in 1 .. L : t[a] = t[b] => a = b
    BY <1>2 DEF Apart, t
  <2>2. \A a, b \in 1 .. K : s[a] = s[b] => a = b
    BY <1>2 DEF Fresh
  <2> DEFINE InS(a) == i < a /\ a <= i + K /\ a - i \in 1 .. K /\ u[a] = s[a - i]
             InT(a) == \/ a <= i /\ a \in 1 .. L /\ u[a] = t[a]
                       \/ a > i + K /\ a - K \in 1 .. L /\ u[a] = t[a - K]
  <2>3. (InS(k) \/ InT(k)) /\ (InS(l) \/ InT(l))
    BY <1>6
  <2>4. CASE InS(k) /\ InS(l)
    <3>1. k - i = l - i
      BY <2>2, <2>4, <1>10
    <3> QED
      BY <3>1, <1>a
  <2>5. CASE InS(k) /\ InT(l)
    BY <2>5, <1>8, <1>9, <1>10
  <2>6. CASE InT(k) /\ InS(l)
    BY <2>6, <1>8, <1>9, <1>10
  <2>7. CASE InT(k) /\ InT(l)
    BY <2>1, <2>7, <1>10, <1>a
  <2> HIDE DEF InS, InT
  <2> QED
    BY <2>3, <2>4, <2>5, <2>6, <2>7
<1>11. ASSUME NEW k \in 1 .. L + K, NEW h \in ListHead \ {g}, NEW j \in 1 .. Len(f[h])
       PROVE  u[k] # f[h][j]
  <2>1. On(f, f[h][j])
    BY <1>7
  <2>2. \A a \in 1 .. L : t[a] # f[h][j]
    BY <1>2 DEF Apart, t
  <2> QED
    BY <2>1, <2>2, <1>6, <1>9
<1>12. Apart(f2)
  <2> SUFFICES ASSUME NEW a \in ListHead, NEW b \in ListHead,
                      NEW k \in 1 .. Len(f2[a]), NEW l \in 1 .. Len(f2[b]), f2[a][k] = f2[b][l]
               PROVE  a = b /\ k = l
    BY DEF Apart
  <2>1. CASE a = g /\ b = g
    BY <2>1, <1>4, <1>5, <1>10
  <2>2. CASE a = g /\ b # g
    BY <2>2, <1>4, <1>5, <1>11
  <2>3. CASE a # g /\ b = g
    BY <2>3, <1>4, <1>5, <1>11
  <2>4. CASE a # g /\ b # g
    BY <2>4, <1>4 DEF Apart
  <2> QED
    BY <2>1, <2>2, <2>3, <2>4
<1>13. ASSUME NEW x, On(f2, x) PROVE On(f, x) \/ \E k \in 1 .. K : s[k] = x
  <2>a. PICK h \in ListHead : \E k \in 1 .. Len(f2[h]) : f2[h][k] = x
    BY <1>13 DEF On
  <2>1. PICK k \in 1 .. Len(f2[h]) : f2[h][k] = x
    BY <2>a
  <2>2. CASE h = g
    BY <2>1, <2>2, <1>4, <1>5, <1>6, <1>8
  <2>3. CASE h # g
    BY <2>1, <2>3, <1>4, <1>7
  <2> QED
    BY <2>2, <2>3
<1>14. ASSUME NEW h \in ListHead, NEW k \in 1 .. Len(f[h]) PROVE On(f2, f[h][k])
  <2>1. CASE h = g
    <3>1. k \in 1 .. L /\ f[h][k] = t[k]
      BY <2>1, <1>2 DEF t
    <3>2. \E j \in 1 .. L + K : u[j] = t[k]
      <4>1. CASE k <= i
        <5>1. k \in 1 .. L + K /\ u[k] = t[k]
          BY <4>1, <3>1, <1>2, <1>3
        <5> QED
          BY <5>1
      <4>2. CASE k > i
        <5>1. k + K \in 1 .. L + K /\ ~(k + K <= i) /\ ~(k + K <= i + K) /\ (k + K) - K = k
          BY <4>2, <3>1, <1>a
        <5>2. u[k + K] = t[k]
          BY <5>1, <1>2, <1>3
        <5> QED
          BY <5>1, <5>2
      <4> QED
        BY <4>1, <4>2, <3>1, <1>a
    <3> QED
      BY <3>1, <3>2, <1>4, <1>5 DEF On
  <2>2. CASE h # g
    BY <2>2, <1>4 DEF On
  <2> QED
    BY <2>1, <2>2
<1>15. ASSUME NEW k \in 1 .. K PROVE On(f2, s[k])
  <2>1. i + k \in 1 .. L + K /\ ~(i + k <= i) /\ i + k <= i + K /\ (i + k) - i = k
    BY <1>a
  <2>2. u[i + k] = s[k]
    BY <2>1, <1>2, <1>3
  <2> QED
    BY <2>1, <2>2, <1>4, <1>5 DEF On
<1>16. ASSUME NEW x PROVE On(f2, x) <=> On(f, x) \/ \E k \in 1 .. K : s[k] = x
  <2>1. On(f, x) => On(f2, x)
    BY <1>14 DEF On
  <2> QED
    BY <2>1, <1>13, <1>15
<1> QED
  BY <1>2, <1>4, <1>12, <1>16 DEF f2, Members

(* One entry is taken out.                                                 *)
LEMMA ApartOutOf ==
  ASSUME NEW f \in Contents, Apart(f), NEW g \in ListHead, NEW i \in 1 .. Len(f[g])
  PROVE  LET f2 == [f EXCEPT ![g] = OutOf(f[g], i)]
         IN  /\ f2 \in Contents /\ Apart(f2)
             /\ \A x : On(f2, x) <=> On(f, x) /\ x # f[g][i]
<1> DEFINE t == f[g]
           u == OutOf(t, i)
           f2 == [f EXCEPT ![g] = OutOf(f[g], i)]
<1>1. t \in Seq(Entry)
  BY DEF Contents
<1>2. PICK L \in Nat : L = Len(t)
  BY <1>1, LenProperties
<1>3. /\ u \in Seq(Entry) /\ Len(u) = L - 1
      /\ \A k \in 1 .. L - 1 : u[k] = IF k < i THEN t[k] ELSE t[k + 1]
  BY <1>1, <1>2, OutOfIs
<1>a. i \in 1 .. L
  BY <1>2
<1> HIDE DEF t
<1>4. f2 \in Contents /\ f2[g] = u /\ \A h \in ListHead \ {g} : f2[h] = f[h]
  BY <1>3 DEF Contents, t
<1> HIDE DEF u, f2
<1>5. \A k \in 1 .. L - 1 : \/ k < i /\ k \in 1 .. L /\ u[k] = t[k]
                            \/ k >= i /\ k + 1 \in 1 .. L /\ u[k] = t[k + 1]
  BY <1>3, <1>a
<1>6. \A a, b \in 1 .. L : t[a] = t[b] => a = b
  BY <1>2 DEF Apart, t
<1>7. Apart(f2)
  <2> SUFFICES ASSUME NEW a \in ListHead, NEW b \in ListHead,
                      NEW k \in 1 .. Len(f2[a]), NEW l \in 1 .. Len(f2[b]), f2[a][k] = f2[b][l]
               PROVE  a = b /\ k = l
    BY DEF Apart
  <2>1. CASE a = g /\ b = g
    BY <2>1, <1>3, <1>4, <1>5, <1>6, <1>a
  <2>2. CASE a = g /\ b # g
    <3>1. \A j \in 1 .. L : t[j] # f[b][l]
      BY <2>2, <1>2, <1>4 DEF Apart, t
    <3> QED
      BY <3>1, <2>2, <1>3, <1>4, <1>5
  <2>3. CASE a # g /\ b = g
    <3>1. \A j \in 1 .. L : t[j] # f[a][k]
      BY <2>3, <1>2, <1>4 DEF Apart, t
    <3> QED
      BY <3>1, <2>3, <1>3, <1>4, <1>5
  <2>4. CASE a # g /\ b # g
    BY <2>4, <1>4 DEF Apart
  <2> QED
    BY <2>1, <2>2, <2>3, <2>4
<1>8. ASSUME NEW x, On(f2, x) PROVE On(f, x) /\ x # t[i]
  <2>a. PICK h \in ListHead : \E k \in 1 .. Len(f2[h]) : f2[h][k] = x
    BY <1>8 DEF On
  <2>1. PICK k \in 1 .. Len(f2[h]) : f2[h][k] = x
    BY <2>a
  <2>2. CASE h = g
    <3>1. PICK j \in 1 .. L : j # i /\ x = t[j]
      BY <2>1, <2>2, <1>3, <1>4, <1>5, <1>a
    <3> QED
      BY <3>1, <1>2, <1>6, <1>a DEF On, t
  <2>3. CASE h # g
    <3>1. k \in 1 .. Len(f[h]) /\ x = f[h][k]
      BY <2>1, <2>3, <1>4
    <3>2. x # t[i]
      BY <3>1, <2>3, <1>2, <1>a DEF Apart, t
    <3> QED
      BY <3>1, <3>2 DEF On
  <2> QED
    BY <2>2, <2>3
<1>9. ASSUME NEW x, On(f, x), x # t[i] PROVE On(f2, x)
  <2>a. PICK h \in ListHead : \E k \in 1 .. Len(f[h]) : f[h][k] = x
    BY <1>9 DEF On
  <2>1. PICK k \in 1 .. Len(f[h]) : f[h][k] = x
    BY <2>a
  <2>2. CASE h = g
    <3>1. k \in 1 .. L /\ x = t[k] /\ k # i
      BY <2>1, <2>2, <1>2, <1>9 DEF t
    <3>2. CASE k < i
      <4>1. k \in 1 .. L - 1 /\ u[k] = t[k]
        BY <3>1, <3>2, <1>3, <1>a
      <4> QED
        BY <4>1, <3>1, <1>3, <1>4 DEF On
    <3>3. CASE k > i
      <4>1. k - 1 \in 1 .. L - 1 /\ ~(k - 1 < i) /\ (k - 1) + 1 = k
        BY <3>1, <3>3, <1>a
      <4>2. u[k - 1] = t[k]
        BY <4>1, <1>3
      <4> QED
        BY <4>1, <4>2, <3>1, <1>3, <1>4 DEF On
    <3> QED
      BY <3>1, <3>2, <3>3, <1>a
  <2>3. CASE h # g
    BY <2>1, <2>3, <1>4 DEF On
  <2> QED
    BY <2>2, <2>3
<1> QED
  BY <1>4, <1>7, <1>8, <1>9 DEF f2, t

(* An entry that is on no list is at no position.                          *)
LEMMA OffIsNowhere ==
  ASSUME NEW f \in Contents, NEW x \in Entry, ~On(f, x), NEW h \in ListHead, NEW i
  PROVE  At(h, f[h], i) # x
  BY ListAssumption DEF On, At

Off(m, x) == {m.next[x], m.prev[x]} \in {{NULL}, {x}}

(* Every list is a ring, and what is on none, X apart, leads into none.    *)
Shape(m, st, f, X) ==
  /\ m \in Memory /\ st \subseteq ListHead
  /\ f \in Contents /\ Apart(f)
  /\ \A h \in ListHead \ st : Ring(m, h, f[h])
  /\ \A h \in st : f[h] = <<>>
  /\ \A x \in Entry \ X : ~On(f, x) => Off(m, x)

LEMMA RingSame ==
  ASSUME NEW m, NEW n, NEW f \in Contents, NEW h \in ListHead, Ring(m, h, f[h]),
         \A i \in 0 .. Len(f[h]) : /\ n.next[At(h, f[h], i)] = m.next[At(h, f[h], i)]
                                   /\ n.prev[At(h, f[h], i + 1)] = m.prev[At(h, f[h], i + 1)]
  PROVE  Ring(n, h, f[h])
  BY DEF Ring, Along, Back

(* From m to n, the chain s is linked in between the places p and q.       *)
LinkedIn(m, n, p, s, q) ==
  /\ \A k \in 1 .. Len(s) - 1 : n.next[s[k]] = s[k + 1] /\ n.prev[s[k + 1]] = s[k]
  /\ n.next[p] = s[1] /\ n.prev[s[1]] = p
  /\ n.next[s[Len(s)]] = q /\ n.prev[q] = s[Len(s)]
  /\ \A y \in Place \ Members(s) :
       /\ y # p => n.next[y] = m.next[y]
       /\ y # q => n.prev[y] = m.prev[y]

(* A chain of entries is linked in at position i of the list of g.         *)
LEMMA ShapeInto ==
  ASSUME NEW m, NEW st, NEW f, NEW X, Shape(m, st, f, X), NEW n \in Memory,
         NEW g \in ListHead \ st, NEW i \in 0 .. Len(f[g]),
         NEW s, Fresh(f, s), LinkedIn(m, n, At(g, f[g], i), s, At(g, f[g], i + 1))
  PROVE  Shape(n, st, [f EXCEPT ![g] = Into(f[g], i, s)], X \ Members(s))
<1> DEFINE f2 == [f EXCEPT ![g] = Into(f[g], i, s)]
           Free(y) == y \notin Members(s)
<1>1. f \in Contents /\ Apart(f) /\ st \subseteq ListHead
  BY DEF Shape
<1>2. PICK L \in Nat : L = Len(f[g])
  BY <1>1, PlacesApart
<1>3. f2 \in Contents /\ Apart(f2) /\ \A x : On(f2, x) <=> On(f, x) \/ ~Free(x)
  BY <1>1, ApartInto
<1>4. f2[g] = Into(f[g], i, s) /\ \A h \in ListHead \ {g} : f2[h] = f[h]
  BY <1>1 DEF Contents
<1> HIDE DEF f2
<1>5. s \in Seq(Entry) /\ \A k \in 1 .. Len(s) : s[k] \in Entry /\ ~On(f, s[k])
  BY ElementOfSeq DEF Fresh
<1>6. \A h \in ListHead, j \in Int : At(h, f[h], j) \in Place /\ Free(At(h, f[h], j))
  <2> SUFFICES ASSUME NEW h \in ListHead, NEW j \in Int
               PROVE  At(h, f[h], j) \in Place /\ Free(At(h, f[h], j))
    OBVIOUS
  <2>1. \A k \in 1 .. Len(s) : At(h, f[h], j) # s[k]
    <3> SUFFICES ASSUME NEW k \in 1 .. Len(s) PROVE At(h, f[h], j) # s[k]
      OBVIOUS
    <3>1. s[k] \in Entry /\ ~On(f, s[k])
      BY <1>5
    <3> QED
      BY <3>1, <1>1, OffIsNowhere
  <2>2. At(h, f[h], j) \in Place
    BY <1>1, PlacesApart
  <2> QED
    BY <2>1, <2>2 DEF Members
<1>7. \A y \in Place : Free(y) =>
        /\ y # At(g, f[g], i) => n.next[y] = m.next[y]
        /\ y # At(g, f[g], i + 1) => n.prev[y] = m.prev[y]
  BY DEF LinkedIn
<1> HIDE DEF Free
<1>8. ASSUME NEW h \in ListHead \ st PROVE Ring(n, h, f2[h])
  <2>1. Ring(m, h, f[h])
    BY DEF Shape
  <2>2. CASE h = g
    <3>1. f[g] \in Seq(Entry)
      BY <1>1 DEF Contents
    <3>2. \A k \in 0 .. Len(f[g]) : k # i =>
            /\ n.next[At(g, f[g], k)] = m.next[At(g, f[g], k)]
            /\ n.prev[At(g, f[g], k + 1)] = m.prev[At(g, f[g], k + 1)]
      <4> SUFFICES ASSUME NEW k \in 0 .. L, k # i
                   PROVE  /\ n.next[At(g, f[g], k)] = m.next[At(g, f[g], k)]
                          /\ n.prev[At(g, f[g], k + 1)] = m.prev[At(g, f[g], k + 1)]
        BY <1>2
      <4>1. At(g, f[g], k) # At(g, f[g], i)
        BY <1>1, <1>2, PlacesApart
      <4>2. k + 1 \in 1 .. L + 1 /\ i + 1 \in 1 .. L + 1 /\ k + 1 # i + 1
        BY <1>2
      <4>3. At(g, f[g], k + 1) # At(g, f[g], i + 1)
        BY <4>2, <1>1, <1>2, PlacesApart
      <4> QED
        BY <4>1, <4>2, <4>3, <1>6, <1>7
    <3>3. Ring(n, g, Into(f[g], i, s))
      BY <2>1, <2>2, <3>1, <3>2, <1>5, RingInto DEF LinkedIn, Fresh
    <3> QED
      BY <2>2, <3>3, <1>4
  <2>3. CASE h # g
    <3>1. ASSUME NEW k \in 0 .. Len(f[h])
          PROVE  /\ n.next[At(h, f[h], k)] = m.next[At(h, f[h], k)]
                 /\ n.prev[At(h, f[h], k + 1)] = m.prev[At(h, f[h], k + 1)]
      <4>1. Len(f[h]) \in Nat
        BY <1>1, PlacesApart
      <4>2. k \in Int /\ k + 1 \in 1 .. Len(f[h]) + 1 /\ i + 1 \in 1 .. Len(f[g]) + 1
        BY <4>1, <1>2
      <4>3. At(h, f[h], k) # At(g, f[g], i) /\ At(h, f[h], k + 1) # At(g, f[g], i + 1)
        BY <2>3, <4>2, <1>1, PlacesApart
      <4> QED
        BY <4>2, <4>3, <1>6, <1>7
    <3>2. Ring(n, h, f[h])
      BY <2>1, <3>1, <1>1, RingSame
    <3> QED
      BY <2>3, <3>2, <1>4
  <2> QED
    BY <2>2, <2>3
<1>9. ASSUME NEW x \in Entry \ (X \ Members(s)), ~On(f2, x) PROVE Off(n, x)
  <2>1. ~On(f, x) /\ Free(x)
    BY <1>3, <1>9
  <2>2. x \notin X
    BY <2>1 DEF Free
  <2>3. x \in Place /\ x # At(g, f[g], i) /\ x # At(g, f[g], i + 1)
    <3>1. x \in Entry /\ g \in ListHead /\ ~On(f, x)
      BY <2>1
    <3>2. \A j : At(g, f[g], j) # x
      BY <3>1, <1>1, OffIsNowhere
    <3> QED
      BY <3>1, <3>2 DEF Place
  <2>4. Off(m, x)
    BY <2>1, <2>2 DEF Shape
  <2> QED
    BY <2>1, <2>3, <2>4, <1>7 DEF Off
<1>10. \A h \in st : f2[h] = <<>>
  BY <1>1, <1>4 DEF Shape
<1> QED
  BY <1>1, <1>3, <1>8, <1>9, <1>10 DEF Shape, f2

(* The entry at position i of the list of g is unlinked.                   *)
LEMMA ShapeOutOf ==
  ASSUME NEW m, NEW st, NEW f, NEW X, Shape(m, st, f, X), NEW n \in Memory,
         NEW g \in ListHead \ st, NEW i \in 1 .. Len(f[g]),
         n.next[At(g, f[g], i - 1)] = At(g, f[g], i + 1),
         n.prev[At(g, f[g], i + 1)] = At(g, f[g], i - 1),
         \A y \in Place : /\ y # At(g, f[g], i - 1) => n.next[y] = m.next[y]
                          /\ y # At(g, f[g], i + 1) => n.prev[y] = m.prev[y]
  PROVE  Shape(n, st, [f EXCEPT ![g] = OutOf(f[g], i)], X \cup {f[g][i]})
<1> DEFINE f2 == [f EXCEPT ![g] = OutOf(f[g], i)]
<1>1. f \in Contents /\ Apart(f) /\ st \subseteq ListHead
  BY DEF Shape
<1>2. PICK L \in Nat : L = Len(f[g])
  BY <1>1, PlacesApart
<1>3. f2 \in Contents /\ Apart(f2) /\ \A x : On(f2, x) <=> On(f, x) /\ x # f[g][i]
  BY <1>1, ApartOutOf
<1>4. f2[g] = OutOf(f[g], i) /\ \A h \in ListHead \ {g} : f2[h] = f[h]
  BY <1>1 DEF Contents
<1> HIDE DEF f2
<1>6. \A h \in ListHead, j \in Int : At(h, f[h], j) \in Place
  BY <1>1, PlacesApart
<1>8. ASSUME NEW h \in ListHead \ st PROVE Ring(n, h, f2[h])
  <2>1. Ring(m, h, f[h])
    BY DEF Shape
  <2>2. CASE h = g
    <3>1. f[g] \in Seq(Entry)
      BY <1>1 DEF Contents
    <3>2. \A k \in 0 .. Len(f[g]) : k \notin {i - 1, i} =>
            /\ n.next[At(g, f[g], k)] = m.next[At(g, f[g], k)]
            /\ n.prev[At(g, f[g], k + 1)] = m.prev[At(g, f[g], k + 1)]
      <4> SUFFICES ASSUME NEW k \in 0 .. L, k # i - 1, k # i
                   PROVE  /\ n.next[At(g, f[g], k)] = m.next[At(g, f[g], k)]
                          /\ n.prev[At(g, f[g], k + 1)] = m.prev[At(g, f[g], k + 1)]
        BY <1>2
      <4>1. i - 1 \in 0 .. L
        BY <1>2
      <4>2. At(g, f[g], k) # At(g, f[g], i - 1)
        BY <4>1, <1>1, <1>2, PlacesApart
      <4>3. k + 1 \in 1 .. L + 1 /\ i + 1 \in 1 .. L + 1 /\ k + 1 # i + 1
        BY <1>2
      <4>4. At(g, f[g], k + 1) # At(g, f[g], i + 1)
        BY <4>3, <1>1, <1>2, PlacesApart
      <4> QED
        BY <4>2, <4>3, <4>4, <1>6
    <3>3. Ring(n, g, OutOf(f[g], i))
      BY <2>1, <2>2, <3>1, <3>2, RingOutOf
    <3> QED
      BY <2>2, <3>3, <1>4
  <2>3. CASE h # g
    <3>1. ASSUME NEW k \in 0 .. Len(f[h])
          PROVE  /\ n.next[At(h, f[h], k)] = m.next[At(h, f[h], k)]
                 /\ n.prev[At(h, f[h], k + 1)] = m.prev[At(h, f[h], k + 1)]
      <4>1. Len(f[h]) \in Nat
        BY <1>1, PlacesApart
      <4>2. /\ k \in Int /\ k + 1 \in 1 .. Len(f[h]) + 1
            /\ i - 1 \in 0 .. Len(f[g]) /\ i + 1 \in 1 .. Len(f[g]) + 1
        BY <4>1, <1>2
      <4>3. At(h, f[h], k) # At(g, f[g], i - 1) /\ At(h, f[h], k + 1) # At(g, f[g], i + 1)
        BY <2>3, <4>2, <1>1, PlacesApart
      <4> QED
        BY <4>2, <4>3, <1>6
    <3>2. Ring(n, h, f[h])
      BY <2>1, <3>1, <1>1, RingSame
    <3> QED
      BY <2>3, <3>2, <1>4
  <2> QED
    BY <2>2, <2>3
<1>9. ASSUME NEW x \in Entry \ (X \cup {f[g][i]}), ~On(f2, x) PROVE Off(n, x)
  <2>1. ~On(f, x)
    BY <1>3, <1>9
  <2>2. x \in Place /\ x # At(g, f[g], i - 1) /\ x # At(g, f[g], i + 1)
    BY <2>1, <1>1, OffIsNowhere DEF Place
  <2>3. Off(m, x)
    BY <2>1 DEF Shape
  <2> QED
    BY <2>2, <2>3 DEF Off
<1>10. \A h \in st : f2[h] = <<>>
  BY <1>1, <1>4 DEF Shape
<1> QED
  BY <1>1, <1>3, <1>8, <1>9, <1>10 DEF Shape, f2

(* Only the fields of an entry that is on no list change.                  *)
LEMMA ShapeOff ==
  ASSUME NEW m, NEW st, NEW f, NEW x \in Entry, Shape(m, st, f, {x}), ~On(f, x),
         NEW n \in Memory, Off(n, x),
         \A y \in Place \ {x} : n.next[y] = m.next[y] /\ n.prev[y] = m.prev[y]
  PROVE  Shape(n, st, f, {})
<1>1. f \in Contents /\ Apart(f) /\ st \subseteq ListHead
  BY DEF Shape
<1>2. ASSUME NEW h \in ListHead \ st PROVE Ring(n, h, f[h])
  <2>1. \A i \in Int : At(h, f[h], i) \in Place \ {x}
    BY <1>1, PlacesApart, OffIsNowhere
  <2>2. \A i \in 0 .. Len(f[h]) : i \in Int /\ i + 1 \in Int
    OBVIOUS
  <2>3. Ring(m, h, f[h])
    BY DEF Shape
  <2> QED
    BY <2>1, <2>2, <2>3, <1>1, RingSame
<1>3. \A z \in Entry \ {x} : ~On(f, z) => Off(n, z)
  BY DEF Shape, Off, Place
<1> QED
  BY <1>1, <1>2, <1>3 DEF Shape

(* A head that leads to nothing is initialised.                            *)
LEMMA ShapeHead ==
  ASSUME NEW m, NEW st, NEW f, Shape(m, st, f, {}), NEW h \in ListHead, f[h] = <<>>,
         NEW n \in Memory, n.next[h] = h, n.prev[h] = h,
         \A y \in Place \ {h} : n.next[y] = m.next[y] /\ n.prev[y] = m.prev[y]
  PROVE  Shape(n, st \ {h}, f, {})
<1>1. f \in Contents /\ Apart(f) /\ st \subseteq ListHead
  BY DEF Shape
<1>2. ASSUME NEW g \in ListHead \ (st \ {h}) PROVE Ring(n, g, f[g])
  <2>1. CASE g = h
    BY <2>1, EmptySeq DEF Ring, Along, Back, At
  <2>2. CASE g # h
    <3>1. 0 \in 0 .. Len(f[h]) /\ Len(f[h]) = 0 /\ At(h, f[h], 0) = h /\ At(h, f[h], 1) = h
      BY EmptySeq DEF At
    <3>2. ASSUME NEW i \in 0 .. Len(f[g])
          PROVE  At(g, f[g], i) \in Place \ {h} /\ At(g, f[g], i + 1) \in Place \ {h}
      <4>1. i \in Int /\ i + 1 \in 1 .. Len(f[g]) + 1 /\ 1 \in 1 .. Len(f[h]) + 1
        BY <1>1, <3>1, PlacesApart
      <4> QED
        BY <2>2, <3>1, <4>1, <1>1, PlacesApart
    <3>3. Ring(m, g, f[g])
      BY <2>2 DEF Shape
    <3>4. \A i \in 0 .. Len(f[g]) : /\ n.next[At(g, f[g], i)] = m.next[At(g, f[g], i)]
                                    /\ n.prev[At(g, f[g], i + 1)] = m.prev[At(g, f[g], i + 1)]
      BY <3>2
    <3> QED
      BY <3>3, <3>4, <1>1, RingSame
  <2> QED
    BY <2>1, <2>2
<1>3. \A x \in Entry : ~On(f, x) => Off(n, x)
  BY ListAssumption DEF Shape, Off, Place
<1> QED
  BY <1>1, <1>2, <1>3 DEF Shape

-----------------------------------------------------------------------------
(* The walk                                                                *)

(* A list is no longer than there are places, or only entries.             *)
LEMMA OnceIsShort ==
  ASSUME NEW q \in Seq(Entry), \A i, j \in 1 .. Len(q) : q[i] = q[j] => i = j,
         NEW P \in {Place, Entry}
  PROVE  Len(q) <= Cardinality(P) /\ Cardinality(P) \in Nat
<1>1. Len(q) \in Nat /\ DOMAIN q = 1 .. Len(q) /\ q \in [1 .. Len(q) -> Entry]
  BY LenProperties
<1>2. q \in Injection(1 .. Len(q), P)
  BY <1>1 DEF Injection, IsInjective, Place
<1>3. IsFiniteSet(P)
  <2>1. IsFiniteSet(Place)
    BY ListAssumption DEF Place
  <2>2. Entry \in SUBSET Place
    BY DEF Place
  <2> QED
    BY <2>1, <2>2, FS_Subset
<1>4. Cardinality(1 .. Len(q)) <= Cardinality(P)
  BY <1>2, <1>3, FS_Injection
<1>5. Cardinality(1 .. Len(q)) = Len(q)
  BY <1>1, FS_Interval
<1>6. Cardinality(P) \in Nat
  BY <1>3, FS_CardinalityType
<1> QED
  BY <1>4, <1>5, <1>6

(***************************************************************************)
(* Walk is a recursive function: the prefixes of q satisfy its equation,   *)
(* and whatever satisfies it agrees with them (where it did not for the    *)
(* first time the step before would be wrong).                             *)
(***************************************************************************)
LEMMA WalkIs ==
  ASSUME NEW f, NEW h \in ListHead, NEW q \in Seq(Entry),
         \A i, j \in 1 .. Len(q) : q[i] = q[j] => i = j, Along(f, h, q)
  PROVE  Walk(f, h) = q
<1> DEFINE C == Cardinality(Place)
           Step(s) == LET x == f[IF s = <<>> THEN h ELSE Last(s)]
                      IN  IF x \in {h, NULL} THEN s ELSE Append(s, x)
           Body(v) == [k \in Nat |-> IF k = 0 THEN <<>> ELSE Step(v[k - 1])]
           First(k) == SubSeq(q, 1, IF k <= Len(q) THEN k ELSE Len(q))
           w == [k \in Nat |-> First(k)]
           V == CHOOSE v : v = Body(v)
<1>1. C \in Nat /\ Len(q) \in Nat /\ Len(q) <= C
  BY OnceIsShort, LenProperties DEF C
<1> HIDE DEF C
<1>2. First(0) = <<>>
  BY <1>1, SubSeqEmpty
<1>3. ASSUME NEW k \in Nat \ {0} PROVE First(k) = Step(First(k - 1))
  <2>1. CASE k <= Len(q)
    <3> DEFINE s == SubSeq(q, 1, k - 1)
    <3>1. First(k - 1) = s /\ First(k) = SubSeq(q, 1, k)
      BY <2>1, <1>1
    <3>2. s \in Seq(Entry) /\ Len(s) = k - 1 /\ \A i \in 1 .. k - 1 : s[i] = q[i]
      <4>1. \A i \in 1 .. k - 1 : q[i] \in Entry
        BY <2>1, <1>1, ElementOfSeq
      <4> QED
        BY <4>1, SubSeqProperties
    <3>3. q[k] \in Entry /\ SubSeq(q, 1, k) = s \o <<q[k]>>
      BY <2>1, <1>1, SubSeqRecursiveSecond, ElementOfSeq
    <3> HIDE DEF s
    <3>4. f[IF s = <<>> THEN h ELSE Last(s)] = q[k]
      <4>0. k - 1 \in 0 .. Len(q) /\ f[At(h, q, k - 1)] = At(h, q, (k - 1) + 1)
        BY <2>1, <1>1 DEF Along
      <4>1. At(h, q, (k - 1) + 1) = q[k]
        BY <2>1, <1>1 DEF At
      <4>2. (IF s = <<>> THEN h ELSE Last(s)) = At(h, q, k - 1)
        <5>1. CASE k = 1
          BY <5>1, <3>2, EmptySeq DEF At
        <5>2. CASE k # 1
          <6>1. s # <<>> /\ k - 1 \in 1 .. Len(q) /\ Len(s) \in 1 .. k - 1
            BY <5>2, <2>1, <1>1, <3>2, EmptySeq
          <6> QED
            BY <6>1, <3>2 DEF At, Last
        <5> QED
          BY <5>1, <5>2
      <4> QED
        BY <4>0, <4>1, <4>2
    <3>5. q[k] \notin {h, NULL}
      BY <3>3, ListAssumption
    <3>6. Step(s) = Append(s, q[k])
      BY <3>4, <3>5
    <3>7. Append(s, q[k]) = s \o <<q[k]>>
      BY <3>2, <3>3, AppendIsConcat
    <3> QED
      BY <3>1, <3>3, <3>6, <3>7
  <2>2. CASE k > Len(q)
    <3>1. First(k - 1) = q /\ First(k) = q
      <4>1. SubSeq(q, 1, Len(q)) = q
        BY SubSeqFull
      <4>2. \A j \in {k - 1, k} : (IF j <= Len(q) THEN j ELSE Len(q)) = Len(q)
        BY <2>2, <1>1
      <4>3. First(k - 1) = SubSeq(q, 1, Len(q)) /\ First(k) = SubSeq(q, 1, Len(q))
        BY <4>2
      <4> QED
        BY <4>1, <4>3
    <3>2. f[IF q = <<>> THEN h ELSE Last(q)] = h
      <4>1. Len(q) \in 0 .. Len(q) /\ At(h, q, Len(q) + 1) = h
        BY <1>1 DEF At
      <4>2. (IF q = <<>> THEN h ELSE Last(q)) = At(h, q, Len(q))
        BY <1>1, EmptySeq DEF At, Last
      <4> QED
        BY <4>1, <4>2 DEF Along
    <3>3. Step(q) = q
      BY <3>2
    <3> HIDE DEF First, Step
    <3> QED
      BY <3>1, <3>3
  <2> QED
    BY <2>1, <2>2, <1>1
<1> HIDE DEF First, Step
<1>4. w = Body(w)
  <2>1. \A k \in Nat \ {0} : k - 1 \in Nat
    OBVIOUS
  <2>2. \A k \in Nat \ {0} : w[k] = Step(w[k - 1])
    BY <2>1, <1>3
  <2>3. \A k \in Nat : w[k] = IF k = 0 THEN <<>> ELSE Step(w[k - 1])
    BY <2>2, <1>2
  <2> QED
    BY <2>3
<1>5. V = Body(V)
  <2> HIDE DEF Body, w
  <2> QED
    BY <1>4
<1>6. Walk(f, h) = V[C]
  BY DEF Walk, C, Step
<1> HIDE DEF V
<1>7. V[0] = <<>> /\ \A k \in Nat \ {0} : V[k] = Step(V[k - 1])
  <2>1. \A k \in Nat : V[k] = IF k = 0 THEN <<>> ELSE Step(V[k - 1])
    BY <1>5
  <2> QED
    BY <2>1
<1>8. V[C] = First(C)
  <2> DEFINE wrong == {k \in Nat : V[k] # First(k)}
             before == OpToRel(<, Nat)
  <2>1. SUFFICES ASSUME wrong # {} PROVE FALSE
    BY <1>1
  <2>2. wrong \subseteq Nat
    OBVIOUS
  <2>3. before = {pair \in Nat \X Nat : pair[1] < pair[2]}
    BY DEF OpToRel
  <2>4. IsWellFoundedOn(before, Nat)
    BY NatLessThanWellFounded
  <2> HIDE DEF before
  <2>5. PICK m \in wrong : \A j \in wrong : ~(<<j, m>> \in before)
    <3> HIDE DEF wrong
    <3> QED
      BY <2>1, <2>2, <2>4, WFMin
  <2>6. \A j \in wrong : ~(j < m)
    BY <2>2, <2>3, <2>5
  <2>7. m \in Nat \ {0}
    BY <1>2, <1>7
  <2>8. m - 1 \in Nat /\ m - 1 < m
    BY <2>7
  <2>9. V[m - 1] = First(m - 1)
    BY <2>6, <2>8
  <2>10. V[m] = First(m)
    BY <2>7, <2>9, <1>3, <1>7
  <2> QED
    BY <2>5, <2>10
<1>9. First(C) = q
  <2>1. SubSeq(q, 1, Len(q)) = q
    BY SubSeqFull
  <2>2. (IF C <= Len(q) THEN C ELSE Len(q)) = Len(q)
    BY <1>1
  <2>3. First(C) = SubSeq(q, 1, Len(q))
    BY <2>2 DEF First
  <2> QED
    BY <2>1, <2>3
<1> QED
  BY <1>6, <1>8, <1>9

(* The prev fields are walked in reverse.                                  *)
LEMMA BackWalkIs ==
  ASSUME NEW f, NEW h \in ListHead, NEW q \in Seq(Entry),
         \A i, j \in 1 .. Len(q) : q[i] = q[j] => i = j, Back(f, h, q)
  PROVE  Walk(f, h) = Reverse(q)
<1> DEFINE r == Reverse(q)
<1>1. PICK n \in Nat : n = Len(q)
  BY LenProperties
<1>2. \A i \in 1 .. n : q[i] \in Entry
  BY <1>1, ElementOfSeq
<1>3. r = [i \in 1 .. n |-> q[(n - i) + 1]]
  BY <1>1 DEF Reverse
<1>4. \A i \in 1 .. n : (n - i) + 1 \in 1 .. n
  OBVIOUS
<1>5. r \in Seq(Entry) /\ Len(r) = n /\ \A i \in 1 .. n : r[i] = q[(n - i) + 1]
  <2>1. r \in [1 .. n -> Entry]
    BY <1>2, <1>3, <1>4
  <2>2. r \in Seq(Entry)
    BY <2>1
  <2> QED
    BY <1>3, <2>1, <2>2
<1> HIDE DEF r
<1>6. \A i, j \in 1 .. Len(r) : r[i] = r[j] => i = j
  <2> SUFFICES ASSUME NEW i \in 1 .. n, NEW j \in 1 .. n, r[i] = r[j] PROVE i = j
    BY <1>5
  <2>1. (n - i) + 1 \in 1 .. n /\ (n - j) + 1 \in 1 .. n
    BY <1>4
  <2>2. (n - i) + 1 = (n - j) + 1
    BY <2>1, <1>1, <1>5
  <2> QED
    BY <2>2
<1>7. \A i \in 0 .. n + 1 : At(h, r, i) = At(h, q, (n - i) + 1)
  <2> SUFFICES ASSUME NEW i \in 0 .. n + 1 PROVE At(h, r, i) = At(h, q, (n - i) + 1)
    OBVIOUS
  <2>1. i \in 1 .. n <=> (n - i) + 1 \in 1 .. n
    OBVIOUS
  <2> QED
    BY <2>1, <1>1, <1>5 DEF At
<1>8. Along(f, h, r)
  <2> SUFFICES ASSUME NEW i \in 0 .. n PROVE f[At(h, r, i)] = At(h, r, i + 1)
    BY <1>5 DEF Along
  <2>1. n - i \in 0 .. n /\ i \in 0 .. n + 1 /\ i + 1 \in 0 .. n + 1 /\ (n - (i + 1)) + 1 = n - i
    OBVIOUS
  <2>2. f[At(h, q, (n - i) + 1)] = At(h, q, n - i)
    BY <2>1, <1>1 DEF Back
  <2>3. At(h, r, i) = At(h, q, (n - i) + 1) /\ At(h, r, i + 1) = At(h, q, n - i)
    BY <2>1, <1>7
  <2> QED
    BY <2>2, <2>3
<1> QED
  BY <1>5, <1>6, <1>8, WalkIs DEF r

(* There are no other lists in the memory than those of its shape.         *)
ItemsOf(m, st) == [h \in ListHead |-> IF h \in st THEN <<>> ELSE Walk(m.next, h)]

LEMMA ItemsAre ==
  ASSUME NEW m, NEW st, NEW f, NEW X, Shape(m, st, f, X)
  PROVE  ItemsOf(m, st) = f
<1>1. ASSUME NEW h \in ListHead \ st PROVE Walk(m.next, h) = f[h]
  <2>1. f[h] \in Seq(Entry) /\ Along(m.next, h, f[h])
    BY DEF Shape, Contents, Ring
  <2>2. \A i, j \in 1 .. Len(f[h]) : f[h][i] = f[h][j] => i = j
    BY DEF Shape, Apart
  <2> QED
    BY <2>1, <2>2, WalkIs
<1>2. f = [h \in ListHead |-> f[h]]
  BY DEF Shape, Contents
<1> QED
  BY <1>1, <1>2 DEF ItemsOf, Shape

-----------------------------------------------------------------------------
(* The operations on a shape                                               *)

(* What a client may name as a place.                                      *)
Nameable(st, f, p) == p \in ListHead \ st \/ On(f, p)

(* A place that a client may name lies in front of a link and behind one.  *)
LEMMA LinksAt ==
  ASSUME NEW m, NEW st, NEW f, NEW X, Shape(m, st, f, X), NEW p, Nameable(st, f, p)
  PROVE  /\ \E h \in ListHead \ st : \E i \in 0 .. Len(f[h]) :
              p = At(h, f[h], i) /\ m.next[p] = At(h, f[h], i + 1)
         /\ \E h \in ListHead \ st : \E i \in 0 .. Len(f[h]) :
              p = At(h, f[h], i + 1) /\ m.prev[p] = At(h, f[h], i)
<1>1. PICK h \in ListHead \ st : p = h \/ \E i \in 1 .. Len(f[h]) : f[h][i] = p
  <2>1. CASE p \in ListHead \ st
    BY <2>1
  <2>2. CASE On(f, p)
    <3>1. PICK h \in ListHead : \E i \in 1 .. Len(f[h]) : f[h][i] = p
      BY <2>2 DEF On
    <3>2. h \notin st
      <4>1. ASSUME h \in st PROVE FALSE
        <5>1. f[h] = <<>> /\ Len(f[h]) = 0
          BY <4>1, EmptySeq DEF Shape
        <5> QED
          BY <5>1, <3>1
      <4> QED
        BY <4>1
    <3> QED
      BY <3>1, <3>2
  <2> QED
    BY <2>1, <2>2 DEF Nameable
<1>2. PICK L \in Nat : L = Len(f[h])
  BY LenProperties DEF Shape, Contents
<1>3. Along(m.next, h, f[h]) /\ Back(m.prev, h, f[h])
  BY DEF Shape, Ring
<1>4. PICK i \in 0 .. L : p = At(h, f[h], i)
  <2>1. CASE p = h
    BY <2>1, <1>2 DEF At
  <2>2. CASE \E i \in 1 .. L : f[h][i] = p
    BY <2>2, <1>2 DEF At
  <2> QED
    BY <2>1, <2>2, <1>1, <1>2
<1>5. m.next[p] = At(h, f[h], i + 1)
  BY <1>2, <1>3, <1>4 DEF Along
<1>6. PICK j \in 0 .. L : p = At(h, f[h], j + 1)
  <2>1. CASE i = 0
    <3>1. p = At(h, f[h], L + 1)
      BY <2>1, <1>2, <1>4 DEF At
    <3> QED
      BY <3>1
  <2>2. CASE i # 0
    <3>1. i - 1 \in 0 .. L /\ (i - 1) + 1 = i
      BY <2>2
    <3> QED
      BY <3>1, <1>4
  <2> QED
    BY <2>1, <2>2
<1>7. m.prev[p] = At(h, f[h], j)
  BY <1>2, <1>3, <1>6 DEF Back
<1> QED
  BY <1>2, <1>4, <1>5, <1>6, <1>7

(* __list_add links in a chain of one.                                     *)
LEMMA ShapeBetween ==
  ASSUME NEW m, NEW st, NEW f, NEW x \in Entry, Shape(m, st, f, {x}), ~On(f, x),
         NEW h \in ListHead \ st, NEW i \in 0 .. Len(f[h])
  PROVE  Shape(Between(m, x, At(h, f[h], i), At(h, f[h], i + 1)), st,
               [f EXCEPT ![h] = Into(f[h], i, <<x>>)], {})
<1> DEFINE p == At(h, f[h], i)
           q == At(h, f[h], i + 1)
           n == Between(m, x, p, q)
           s == <<x>>
<1>1. f \in Contents /\ Apart(f) /\ m \in Memory
  BY DEF Shape
<1>2. p \in Place /\ q \in Place /\ x # p /\ x # q /\ x \in Place
  <2>1. i \in Int /\ i + 1 \in Int /\ h \in ListHead
    OBVIOUS
  <2>2. p \in Place /\ q \in Place
    BY <2>1, <1>1, PlacesApart
  <2>3. p # x /\ q # x
    BY <2>1, <1>1, OffIsNowhere
  <2> QED
    BY <2>2, <2>3 DEF Place
<1> HIDE DEF p, q
<1>3. /\ n \in Memory
      /\ \A y \in Place : n.next[y] = IF y = p THEN x ELSE IF y = x THEN q ELSE m.next[y]
      /\ \A y \in Place : n.prev[y] = IF y = q THEN x ELSE IF y = x THEN p ELSE m.prev[y]
  BY <1>1, <1>2, BetweenIs
<1> HIDE DEF n
<1>4. s \in Seq(Entry) /\ s # <<>> /\ Len(s) = 1 /\ s[1] = x
  OBVIOUS
<1> HIDE DEF s
<1>5. Members(s) = {x}
  BY <1>4 DEF Members
<1>6. Fresh(f, s)
  BY <1>4 DEF Fresh
<1>7. LinkedIn(m, n, p, s, q)
  <2>1. \A k \in 1 .. Len(s) - 1 : FALSE
    BY <1>4
  <2>2. /\ n.next[p] = s[1] /\ n.prev[s[1]] = p
        /\ n.next[s[Len(s)]] = q /\ n.prev[q] = s[Len(s)]
    BY <1>2, <1>3, <1>4
  <2>3. \A y \in Place \ Members(s) : /\ y # p => n.next[y] = m.next[y]
                                      /\ y # q => n.prev[y] = m.prev[y]
    BY <1>3, <1>5
  <2> QED
    BY <2>1, <2>2, <2>3 DEF LinkedIn
<1>8. Shape(n, st, [f EXCEPT ![h] = Into(f[h], i, s)], {x} \ Members(s))
  <2>1. LinkedIn(m, n, At(h, f[h], i), s, At(h, f[h], i + 1))
    BY <1>7 DEF p, q
  <2>2. n \in Memory
    BY <1>3
  <2> QED
    BY <2>1, <2>2, <1>6, ShapeInto
<1>9. {x} \ Members(s) = {}
  BY <1>5
<1> QED
  BY <1>8, <1>9 DEF n, p, q, s

(* list_add and list_add_tail, at any place.                               *)
ShapeWith(n, st, f, x) ==
  \E h \in ListHead : \E i \in 0 .. Len(f[h]) :
    Shape(n, st, [f EXCEPT ![h] = Into(f[h], i, <<x>>)], {})

LEMMA ShapeAdd ==
  ASSUME NEW m, NEW st, NEW f, NEW x \in Entry, Shape(m, st, f, {x}), ~On(f, x),
         NEW p, Nameable(st, f, p), NEW n \in {After(m, x, p), Before(m, x, p)}
  PROVE  ShapeWith(n, st, f, x)
<1>1. CASE n = After(m, x, p)
  <2>1. PICK h \in ListHead \ st : \E i \in 0 .. Len(f[h]) :
          p = At(h, f[h], i) /\ m.next[p] = At(h, f[h], i + 1)
    BY LinksAt
  <2>2. PICK i \in 0 .. Len(f[h]) : p = At(h, f[h], i) /\ m.next[p] = At(h, f[h], i + 1)
    BY <2>1
  <2>3. n = Between(m, x, At(h, f[h], i), At(h, f[h], i + 1))
    BY <1>1, <2>2 DEF After
  <2> QED
    BY <2>3, ShapeBetween DEF ShapeWith
<1>2. CASE n = Before(m, x, p)
  <2>1. PICK h \in ListHead \ st : \E i \in 0 .. Len(f[h]) :
          p = At(h, f[h], i + 1) /\ m.prev[p] = At(h, f[h], i)
    BY LinksAt
  <2>2. PICK i \in 0 .. Len(f[h]) : p = At(h, f[h], i + 1) /\ m.prev[p] = At(h, f[h], i)
    BY <2>1
  <2>3. n = Between(m, x, At(h, f[h], i), At(h, f[h], i + 1))
    BY <1>2, <2>2 DEF Before
  <2> QED
    BY <2>3, ShapeBetween DEF ShapeWith
<1> QED
  BY <1>1, <1>2

(* __list_del, of an entry that is on a list or leads to itself.           *)
Dropped(f, x, f1) ==
  \/ ~On(f, x) /\ f1 = f
  \/ \E h \in ListHead : \E i \in 1 .. Len(f[h]) :
       f[h][i] = x /\ f1 = [f EXCEPT ![h] = OutOf(f[h], i)]

LEMMA ShapeWithout ==
  ASSUME NEW m, NEW st, NEW f, Shape(m, st, f, {}), NEW x \in Entry, On(f, x) \/ m.next[x] = x
  PROVE  \E f1 : /\ Shape(Without(m, x), st, f1, {x})
                 /\ \A y : On(f1, y) <=> On(f, y) /\ y # x
                 /\ Dropped(f, x, f1)
<1>1. f \in Contents /\ Apart(f) /\ m \in Memory
  BY DEF Shape
<1>2. CASE On(f, x)
  <2>1. PICK h \in ListHead : \E i \in 1 .. Len(f[h]) : f[h][i] = x
    BY <1>2 DEF On
  <2>2. PICK i \in 1 .. Len(f[h]) : f[h][i] = x
    BY <2>1
  <2>3. h \in ListHead \ st
    <3>1. ASSUME h \in st PROVE FALSE
      <4>1. f[h] = <<>> /\ Len(f[h]) = 0
        BY <3>1, EmptySeq DEF Shape
      <4> QED
        BY <4>1, <2>2
    <3> QED
      BY <3>1
  <2>4. PICK L \in Nat : L = Len(f[h])
    BY <1>1, PlacesApart
  <2> DEFINE p == At(h, f[h], i - 1)
             q == At(h, f[h], i + 1)
             n == Without(m, x)
             f1 == [f EXCEPT ![h] = OutOf(f[h], i)]
  <2>5. x = At(h, f[h], i)
    BY <2>2 DEF At
  <2>6. m.next[x] = q /\ m.prev[x] = p
    <3>1. Along(m.next, h, f[h]) /\ Back(m.prev, h, f[h])
      BY <2>3 DEF Shape, Ring
    <3>2. i \in 0 .. Len(f[h]) /\ i - 1 \in 0 .. Len(f[h]) /\ (i - 1) + 1 = i
      BY <2>4
    <3>3. m.next[At(h, f[h], i)] = At(h, f[h], i + 1)
      BY <3>1, <3>2 DEF Along
    <3>4. m.prev[At(h, f[h], (i - 1) + 1)] = At(h, f[h], i - 1)
      BY <3>1, <3>2 DEF Back
    <3> QED
      BY <3>2, <3>3, <3>4, <2>5
  <2>7. p \in Place /\ q \in Place /\ x \in Place
    <3>1. i - 1 \in Int /\ i + 1 \in Int
      OBVIOUS
    <3> QED
      BY <3>1, <1>1, PlacesApart DEF Place
  <2> HIDE DEF p, q
  <2>8. /\ n \in Memory
        /\ \A y \in Place : n.next[y] = IF y = p THEN q ELSE m.next[y]
        /\ \A y \in Place : n.prev[y] = IF y = q THEN p ELSE m.prev[y]
    BY <2>6, <2>7, <1>1, WithoutIs
  <2> HIDE DEF n
  <2>9. n.next[p] = q /\ n.prev[q] = p
        /\ \A y \in Place : (y # p => n.next[y] = m.next[y]) /\ (y # q => n.prev[y] = m.prev[y])
    BY <2>7, <2>8
  <2>10. Shape(n, st, f1, {} \cup {f[h][i]})
    BY <2>3, <2>8, <2>9, ShapeOutOf DEF p, q
  <2>11. {} \cup {f[h][i]} = {x}
    BY <2>2
  <2>12. \A y : On(f1, y) <=> On(f, y) /\ y # x
    BY <1>1, <2>2, ApartOutOf
  <2>13. Dropped(f, x, f1)
    BY <2>2 DEF Dropped
  <2> HIDE DEF f1
  <2> QED
    BY <2>10, <2>11, <2>12, <2>13 DEF n
<1>3. CASE ~On(f, x)
  <2> DEFINE n == Without(m, x)
  <2>1. m.next[x] = x /\ m.prev[x] = x
    <3>1. Off(m, x) /\ m.next[x] = x /\ x # NULL
      BY <1>3, ListAssumption DEF Shape
    <3> QED
      BY <3>1 DEF Off
  <2>2. x \in Place
    BY DEF Place
  <2>3. /\ n \in Memory
        /\ \A y \in Place : n.next[y] = IF y = x THEN x ELSE m.next[y]
        /\ \A y \in Place : n.prev[y] = IF y = x THEN x ELSE m.prev[y]
    BY <2>1, <2>2, <1>1, WithoutIs
  <2> HIDE DEF n
  <2>4. Shape(m, st, f, {x})
    BY DEF Shape
  <2>5. Off(n, x)
    BY <2>2, <2>3 DEF Off
  <2>6. Shape(n, st, f, {})
    BY <2>3, <2>4, <2>5, <1>3, ShapeOff
  <2>7. Shape(n, st, f, {x})
    BY <2>6 DEF Shape
  <2> QED
    BY <2>7, <1>3 DEF n, Dropped
<1> QED
  BY <1>2, <1>3

(* A list loses its entries; they are on no list then, each once.          *)
LEMMA ApartLoses ==
  ASSUME NEW f \in Contents, Apart(f), NEW h \in ListHead, f[h] # <<>>
  PROVE  LET f1 == [f EXCEPT ![h] = <<>>]
         IN  /\ f1 \in Contents /\ Apart(f1)
             /\ f1[h] = <<>> /\ \A g \in ListHead \ {h} : f1[g] = f[g]
             /\ \A x : On(f1, x) <=> On(f, x) /\ x \notin Members(f[h])
             /\ Fresh(f1, f[h])
<1> DEFINE f1 == [f EXCEPT ![h] = <<>>]
<1>1. f1 \in Contents /\ f1[h] = <<>> /\ \A g \in ListHead \ {h} : f1[g] = f[g]
  BY EmptySeq DEF Contents
<1> HIDE DEF f1
<1>2. Len(f1[h]) = 0
  BY <1>1, EmptySeq
<1>3. Apart(f1)
  <2> SUFFICES ASSUME NEW a \in ListHead, NEW b \in ListHead,
                      NEW k \in 1 .. Len(f1[a]), NEW l \in 1 .. Len(f1[b]), f1[a][k] = f1[b][l]
               PROVE  a = b /\ k = l
    BY DEF Apart
  <2>1. a # h /\ b # h
    BY <1>2
  <2> QED
    BY <2>1, <1>1 DEF Apart
<1>4. \A x : On(f1, x) => On(f, x) /\ x \notin Members(f[h])
  <2> SUFFICES ASSUME NEW x, On(f1, x) PROVE On(f, x) /\ x \notin Members(f[h])
    OBVIOUS
  <2>1. PICK g \in ListHead : \E k \in 1 .. Len(f1[g]) : f1[g][k] = x
    BY DEF On
  <2>2. g # h
    BY <2>1, <1>2
  <2>3. PICK k \in 1 .. Len(f[g]) : f[g][k] = x
    BY <2>1, <2>2, <1>1
  <2> QED
    BY <2>2, <2>3 DEF On, Apart, Members
<1>5. \A x : On(f, x) => On(f1, x) \/ x \in Members(f[h])
  <2> SUFFICES ASSUME NEW x, On(f, x), x \notin Members(f[h]) PROVE On(f1, x)
    OBVIOUS
  <2>1. PICK g \in ListHead : \E k \in 1 .. Len(f[g]) : f[g][k] = x
    BY DEF On
  <2>2. g # h
    BY <2>1 DEF Members
  <2> QED
    BY <2>1, <2>2, <1>1 DEF On
<1>6. Fresh(f1, f[h])
  <2>1. f[h] \in Seq(Entry)
    BY DEF Contents
  <2>2. \A k, l \in 1 .. Len(f[h]) : f[h][k] = f[h][l] => k = l
    BY DEF Apart
  <2>3. \A k \in 1 .. Len(f[h]) : ~On(f1, f[h][k])
    BY <1>4 DEF Members
  <2> QED
    BY <2>1, <2>2, <2>3 DEF Fresh
<1> QED
  BY <1>1, <1>3, <1>4, <1>5, <1>6 DEF f1

(* A head loses its entries; they are a chain that is on no list.          *)
LEMMA ShapeLoses ==
  ASSUME NEW m, NEW st, NEW f, Shape(m, st, f, {}), NEW h \in ListHead \ st, f[h] # <<>>
  PROVE  LET f1 == [f EXCEPT ![h] = <<>>]
         IN  /\ Shape(m, st \cup {h}, f1, Members(f[h]))
             /\ Fresh(f1, f[h])
<1> DEFINE f1 == [f EXCEPT ![h] = <<>>]
<1>1. f \in Contents /\ Apart(f) /\ m \in Memory /\ st \subseteq ListHead
  BY DEF Shape
<1>2. /\ f1 \in Contents /\ Apart(f1)
      /\ f1[h] = <<>> /\ \A g \in ListHead \ {h} : f1[g] = f[g]
      /\ \A x : On(f1, x) <=> On(f, x) /\ x \notin Members(f[h])
      /\ Fresh(f1, f[h])
  BY <1>1, ApartLoses
<1> HIDE DEF f1
<1>3. \A g \in ListHead \ (st \cup {h}) : Ring(m, g, f1[g])
  BY <1>2 DEF Shape
<1>4. \A g \in st \cup {h} : f1[g] = <<>>
  BY <1>1, <1>2 DEF Shape
<1>5. \A x \in Entry \ Members(f[h]) : ~On(f1, x) => Off(m, x)
  BY <1>2 DEF Shape
<1> QED
  BY <1>1, <1>2, <1>3, <1>4, <1>5 DEF Shape, f1

(* __list_splice: the chain of one list is linked into another.            *)
LEMMA ShapeSplice ==
  ASSUME NEW f, Shape(mem, stale, f, {}), NEW list \in ListHead \ stale, f[list] # <<>>,
         NEW p, Nameable(stale, f, p), p # list, p \notin Members(f[list])
  PROVE  \E g \in ListHead : \E i \in 0 .. Len(f[g]) :
           /\ g # list
           /\ Shape(Spliced(list, p), stale \cup {list},
                    [[f EXCEPT ![g] = Into(f[g], i, f[list])] EXCEPT ![list] = <<>>], {})
<1> DEFINE s == f[list]
           f1 == [f EXCEPT ![list] = <<>>]
           n == Spliced(list, p)
<1>1. f \in Contents /\ Apart(f) /\ mem \in Memory /\ stale \subseteq ListHead
  BY DEF Shape
<1>2. PICK g \in ListHead \ stale : \E i \in 0 .. Len(f[g]) :
        p = At(g, f[g], i) /\ mem.next[p] = At(g, f[g], i + 1)
  BY LinksAt
<1>3. PICK i \in 0 .. Len(f[g]) : p = At(g, f[g], i) /\ mem.next[p] = At(g, f[g], i + 1)
  BY <1>2
<1>4. g # list
  <2>1. ASSUME g = list PROVE FALSE
    <3>1. p # list
      OBVIOUS
    <3>2. i \in 1 .. Len(f[list]) /\ p = f[list][i]
      BY <2>1, <3>1, <1>3 DEF At
    <3>3. p \in Members(f[list])
      BY <3>2 DEF Members
    <3> QED
      BY <3>3
  <2> QED
    BY <2>1
<1>5. PICK K \in Nat : K = Len(s) /\ K # 0 /\ s \in Seq(Entry)
  <2>1. s \in Seq(Entry) /\ s # <<>>
    BY <1>1 DEF Contents
  <2> HIDE DEF s
  <2> QED
    BY <2>1, LenProperties, EmptySeq
<1>6. Shape(mem, stale \cup {list}, f1, Members(s)) /\ Fresh(f1, s)
  BY ShapeLoses
<1> DEFINE at == At(g, f[g], i + 1)
<1>7. f1[g] = f[g] /\ g \in ListHead \ (stale \cup {list})
  BY <1>1, <1>4 DEF Contents
<1>8. /\ \A k \in 1 .. K : s[k] = At(list, f[list], k) /\ s[k] \in Place
      /\ At(list, f[list], 0) = list /\ At(list, f[list], K + 1) = list
  <2>1. \A k \in 1 .. K : s[k] = At(list, f[list], k) /\ s[k] \in Entry
    BY <1>1, <1>5, PlacesApart
  <2> QED
    BY <2>1, <1>5 DEF At, Place
<1>9. /\ mem.next[list] = s[1] /\ mem.prev[list] = s[K]
      /\ \A k \in 1 .. K - 1 : mem.next[s[k]] = s[k + 1] /\ mem.prev[s[k + 1]] = s[k]
  <2>1. \A k \in 0 .. K : /\ mem.next[At(list, f[list], k)] = At(list, f[list], k + 1)
                          /\ mem.prev[At(list, f[list], k + 1)] = At(list, f[list], k)
    BY <1>5 DEF Shape, Ring, Along, Back
  <2>2. 0 \in 0 .. K /\ K \in 0 .. K /\ 1 \in 1 .. K /\ K \in 1 .. K /\ 0 + 1 = 1
    BY <1>5
  <2>3. mem.next[list] = s[1] /\ mem.prev[list] = s[K]
    BY <2>1, <2>2, <1>8
  <2>4. \A k \in 1 .. K - 1 : k \in 0 .. K /\ k \in 1 .. K /\ k + 1 \in 1 .. K
    BY <1>5
  <2> QED
    BY <2>1, <2>3, <2>4, <1>8
<1>10. p \in Place /\ at \in Place /\ list \in Place
  <2>1. i \in Int /\ i + 1 \in Int
    OBVIOUS
  <2> QED
    BY <2>1, <1>1, <1>3, PlacesApart DEF Place
<1>11. \A k \in 1 .. K : p # s[k] /\ at # s[k]
  <2>1. \A k \in 1 .. K : s[k] \in Entry /\ ~On(f1, s[k])
    BY <1>5, <1>6, ElementOfSeq DEF Fresh
  <2>2. \A k \in 1 .. K : \A j : At(g, f1[g], j) # s[k]
    <3> SUFFICES ASSUME NEW k \in 1 .. K PROVE \A j : At(g, f1[g], j) # s[k]
      OBVIOUS
    <3>1. f1 \in Contents /\ s[k] \in Entry /\ ~On(f1, s[k])
      BY <2>1, <1>6 DEF Shape
    <3> HIDE DEF f1, s
    <3> QED
      BY <3>1, OffIsNowhere
  <2> QED
    BY <2>2, <1>3, <1>7
<1>12. 1 \in 1 .. K /\ K \in 1 .. K
  BY <1>5
<1> HIDE DEF at, s
<1>13. /\ n \in Memory
       /\ \A y \in Place : n.next[y] = IF y = p THEN s[1] ELSE IF y = s[K] THEN at ELSE mem.next[y]
       /\ \A y \in Place : n.prev[y] = IF y = s[1] THEN p ELSE IF y = at THEN s[K] ELSE mem.prev[y]
  <2>1. mem.next[p] = at
    BY <1>3 DEF at
  <2>2. s[1] \in Place /\ s[K] \in Place /\ p # s[K] /\ s[1] # at
    BY <1>8, <1>11, <1>12
  <2> QED
    BY <2>1, <2>2, <1>1, <1>9, <1>10, SplicedIs
<1> HIDE DEF n
<1>14. \A k, l \in 1 .. K : s[k] = s[l] => k = l
  BY <1>5, <1>6 DEF Fresh
<1>15. LinkedIn(mem, n, p, s, at)
  <2>1. ASSUME NEW k \in 1 .. K - 1 PROVE n.next[s[k]] = s[k + 1] /\ n.prev[s[k + 1]] = s[k]
    <3>1. k \in 1 .. K /\ k + 1 \in 1 .. K /\ k # K /\ k + 1 # 1
      BY <1>5
    <3>2. s[k] # p /\ s[k] # s[K] /\ s[k + 1] # s[1] /\ s[k + 1] # at
      BY <3>1, <1>11, <1>12, <1>14
    <3> QED
      BY <3>1, <3>2, <1>8, <1>9, <1>13
  <2>2. n.next[p] = s[1] /\ n.prev[s[1]] = p /\ n.next[s[K]] = at /\ n.prev[at] = s[K]
    BY <1>8, <1>10, <1>11, <1>12, <1>13
  <2>3. s[1] \in Members(s) /\ s[K] \in Members(s)
    BY <1>5, <1>12 DEF Members
  <2>4. \A y \in Place \ Members(s) : /\ y # p => n.next[y] = mem.next[y]
                                      /\ y # at => n.prev[y] = mem.prev[y]
    BY <2>3, <1>13
  <2> QED
    BY <2>1, <2>2, <2>4, <1>5 DEF LinkedIn
<1> DEFINE f2 == [f1 EXCEPT ![g] = Into(f1[g], i, s)]
<1>16. Shape(n, stale \cup {list}, f2, Members(s) \ Members(s))
  <2>1. LinkedIn(mem, n, At(g, f1[g], i), s, At(g, f1[g], i + 1)) /\ i \in 0 .. Len(f1[g])
    BY <1>3, <1>7, <1>15 DEF at
  <2> HIDE DEF f1
  <2> QED
    BY <2>1, <1>6, <1>7, <1>13, ShapeInto
<1>17. f2 = [[f EXCEPT ![g] = Into(f[g], i, f[list])] EXCEPT ![list] = <<>>]
  BY <1>1, <1>4, <1>7 DEF s, Contents
<1>18. Members(s) \ Members(s) = {}
  OBVIOUS
<1> HIDE DEF f2
<1> QED
  BY <1>4, <1>16, <1>17, <1>18 DEF n

-----------------------------------------------------------------------------
(* The steps                                                               *)

IInv == Shape(mem, stale, ItemsOf(mem, stale), {})

(* What an operation does to the sequences.                                *)
Inserted(f, f2, x) ==
  /\ ~On(f, x)
  /\ \E h \in ListHead : \E i \in 0 .. Len(f[h]) : f2 = [f EXCEPT ![h] = Into(f[h], i, <<x>>)]
MovedTo(f, f2, x) ==
  \E f1 : Dropped(f, x, f1) /\ Inserted(f1, f2, x)
SplicedTo(f, f2) ==
  \E h, g \in ListHead : \E i \in 0 .. Len(f[g]) :
    h # g /\ f2 = [[f EXCEPT ![g] = Into(f[g], i, f[h])] EXCEPT ![h] = <<>>]

Done(f, f2) ==
  \/ f2 = f
  \/ \E x \in Entry : Inserted(f, f2, x) \/ Dropped(f, x, f2) \/ MovedTo(f, f2, x)
  \/ SplicedTo(f, f2)

(* The linked entries are those of the lists.                              *)
LEMMA LinkedAre ==
  ASSUME NEW f, Shape(mem, stale, f, {})
  PROVE  /\ \A x : x \in Linked <=> On(f, x)
         /\ \A h \in ListHead \ stale : Range(Walk(mem.next, h)) = Members(f[h])
         /\ \A h \in ListHead \ stale : Empty(h) <=> f[h] = <<>>
<1>1. ItemsOf(mem, stale) = f /\ f \in Contents
  BY ItemsAre DEF Shape
<1>2. \A h \in ListHead \ stale : Walk(mem.next, h) = f[h]
  BY <1>1 DEF ItemsOf
<1>3. \A h \in ListHead : DOMAIN f[h] = 1 .. Len(f[h])
  BY <1>1, LenProperties DEF Contents
<1>4. \A h \in ListHead \ stale : Range(Walk(mem.next, h)) = Members(f[h])
  BY <1>2, <1>3 DEF Range, Members
<1>5. \A h \in stale : f[h] = <<>> /\ Len(f[h]) = 0
  BY EmptySeq DEF Shape
<1>6. \A x : x \in Linked <=> \E h \in ListHead \ stale : x \in Members(f[h])
  BY <1>4 DEF Linked, Live
<1>7. \A x : On(f, x) <=> \E h \in ListHead \ stale : x \in Members(f[h])
  BY <1>5 DEF On, Members
<1>8. ASSUME NEW h \in ListHead \ stale PROVE Empty(h) <=> f[h] = <<>>
  <2>1. f[h] \in Seq(Entry) /\ Len(f[h]) \in Nat
    BY <1>1, LenProperties DEF Contents
  <2>2. mem.next[h] = At(h, f[h], 1)
    <3>1. 0 \in 0 .. Len(f[h]) /\ At(h, f[h], 0) = h /\ 0 + 1 = 1
      BY <2>1 DEF At
    <3> QED
      BY <3>1 DEF Shape, Ring, Along
  <2>3. f[h] # <<>> => 1 \in 1 .. Len(f[h]) /\ f[h][1] \in Entry
    BY <2>1, EmptySeq, ElementOfSeq
  <2>4. f[h] = <<>> => Len(f[h]) = 0
    BY EmptySeq
  <2> QED
    BY <2>2, <2>3, <2>4, ListAssumption DEF Empty, At
<1> QED
  BY <1>4, <1>6, <1>7, <1>8

LEMMA AddStep ==
  ASSUME NEW f, Shape(mem, stale, f, {}), NEW x \in Entry, NEW p \in Places, Add(x, p)
  PROVE  \E f2 : Shape(mem', stale', f2, {}) /\ Done(f, f2)
<1>1. ~On(f, x) /\ Nameable(stale, f, p)
  BY LinkedAre DEF Add, Places, Live, Nameable
<1>2. mem' \in {After(mem, x, p), Before(mem, x, p)} /\ stale' = stale
  BY DEF Add
<1>3. Shape(mem, stale, f, {x})
  BY DEF Shape
<1>a. ShapeWith(mem', stale, f, x)
  BY <1>1, <1>2, <1>3, ShapeAdd
<1>4. PICK h \in ListHead : \E i \in 0 .. Len(f[h]) :
        Shape(mem', stale, [f EXCEPT ![h] = Into(f[h], i, <<x>>)], {})
  BY <1>a DEF ShapeWith
<1>5. PICK i \in 0 .. Len(f[h]) : Shape(mem', stale, [f EXCEPT ![h] = Into(f[h], i, <<x>>)], {})
  BY <1>4
<1> DEFINE f2 == [f EXCEPT ![h] = Into(f[h], i, <<x>>)]
<1>6. Inserted(f, f2, x)
  BY <1>1 DEF Inserted
<1>7. Done(f, f2)
  BY <1>6 DEF Done
<1> QED
  BY <1>2, <1>5, <1>7

(* list_del and list_del_init.                                             *)
LEMMA DelStep ==
  ASSUME NEW f, Shape(mem, stale, f, {}), NEW x \in Linked \cup Loose, Del(x) \/ DelInit(x)
  PROVE  \E f2 : Shape(mem', stale', f2, {}) /\ Done(f, f2)
<1>1. x \in Entry /\ (On(f, x) \/ mem.next[x] = x)
  <2>1. On(f, x) => x \in Entry
    BY ElementOfSeq DEF Shape, Contents, On
  <2> QED
    BY <2>1, LinkedAre DEF Loose
<1>2. PICK f1 : /\ Shape(Without(mem, x), stale, f1, {x})
                /\ \A y : On(f1, y) <=> On(f, y) /\ y # x
                /\ Dropped(f, x, f1)
  BY <1>1, ShapeWithout
<1> DEFINE m == Without(mem, x)
<1>3. m \in Memory /\ x \in Place
  BY <1>1, <1>2 DEF Shape, Place
<1>4. CASE Del(x)
  <2>1. mem' = [m EXCEPT !.next[x] = NULL, !.prev[x] = NULL] /\ stale' = stale
    BY <1>4 DEF Del
  <2> HIDE DEF m
  <2>2. /\ mem' \in Memory /\ mem'.next[x] = NULL /\ mem'.prev[x] = NULL
        /\ \A y \in Place \ {x} : mem'.next[y] = m.next[y] /\ mem'.prev[y] = m.prev[y]
    BY <2>1, <1>3, PoisonedIs
  <2>3. Off(mem', x)
    BY <2>2 DEF Off
  <2>4. Shape(mem', stale, f1, {})
    BY <2>2, <2>3, <1>1, <1>2, ShapeOff DEF m
  <2> QED
    BY <2>1, <2>4, <1>1, <1>2 DEF Done
<1>5. CASE DelInit(x)
  <2>1. mem' = Alone(m, x) /\ stale' = stale
    BY <1>5 DEF DelInit
  <2> HIDE DEF m
  <2>2. /\ mem' \in Memory /\ mem'.next[x] = x /\ mem'.prev[x] = x
        /\ \A y \in Place \ {x} : mem'.next[y] = m.next[y] /\ mem'.prev[y] = m.prev[y]
    BY <2>1, <1>3, AloneIs
  <2>3. Off(mem', x)
    BY <2>2 DEF Off
  <2>4. Shape(mem', stale, f1, {})
    BY <2>2, <2>3, <1>1, <1>2, ShapeOff DEF m
  <2> QED
    BY <2>1, <2>4, <1>1, <1>2 DEF Done
<1> QED
  BY <1>4, <1>5

LEMMA MoveStep ==
  ASSUME NEW f, Shape(mem, stale, f, {}), NEW x \in Linked \cup Loose, NEW p \in Places, Move(x, p)
  PROVE  \E f2 : Shape(mem', stale', f2, {}) /\ Done(f, f2)
<1>1. x \in Entry /\ (On(f, x) \/ mem.next[x] = x)
  <2>1. On(f, x) => x \in Entry
    BY ElementOfSeq DEF Shape, Contents, On
  <2> QED
    BY <2>1, LinkedAre DEF Loose
<1>2. PICK f1 : /\ Shape(Without(mem, x), stale, f1, {x})
                /\ \A y : On(f1, y) <=> On(f, y) /\ y # x
                /\ Dropped(f, x, f1)
  BY <1>1, ShapeWithout
<1> DEFINE m == Without(mem, x)
<1>3. ~On(f1, x) /\ Nameable(stale, f1, p)
  BY <1>2, LinkedAre DEF Move, Places, Live, Nameable
<1>4. mem' \in {After(m, x, p), Before(m, x, p)} /\ stale' = stale
  BY DEF Move
<1>5. Shape(m, stale, f1, {x})
  BY <1>2
<1> HIDE DEF m
<1>a. ShapeWith(mem', stale, f1, x)
  BY <1>1, <1>3, <1>4, <1>5, ShapeAdd
<1>6. PICK h \in ListHead : \E i \in 0 .. Len(f1[h]) :
        Shape(mem', stale, [f1 EXCEPT ![h] = Into(f1[h], i, <<x>>)], {})
  BY <1>a DEF ShapeWith
<1>7. PICK i \in 0 .. Len(f1[h]) :
        Shape(mem', stale, [f1 EXCEPT ![h] = Into(f1[h], i, <<x>>)], {})
  BY <1>6
<1> DEFINE f2 == [f1 EXCEPT ![h] = Into(f1[h], i, <<x>>)]
<1>8. Inserted(f1, f2, x)
  BY <1>3 DEF Inserted
<1>9. Done(f, f2)
  BY <1>1, <1>2, <1>8 DEF Done, MovedTo
<1> QED
  BY <1>4, <1>7, <1>9

(* list_splice and list_splice_init.                                       *)
LEMMA SpliceStep ==
  ASSUME NEW f, Shape(mem, stale, f, {}), NEW list \in Live, NEW p \in Places,
         Splice(list, p) \/ SpliceInit(list, p)
  PROVE  \E f2 : Shape(mem', stale', f2, {}) /\ Done(f, f2)
<1>1. ~Empty(list) /\ p # list /\ p \notin Range(Walk(mem.next, list))
  BY DEF Splice, SpliceInit
<1>2. /\ list \in ListHead \ stale /\ f[list] # <<>> /\ p \notin Members(f[list])
      /\ Nameable(stale, f, p)
  BY <1>1, LinkedAre DEF Places, Live, Nameable
<1>3. PICK g \in ListHead : \E i \in 0 .. Len(f[g]) :
        /\ g # list
        /\ Shape(Spliced(list, p), stale \cup {list},
                 [[f EXCEPT ![g] = Into(f[g], i, f[list])] EXCEPT ![list] = <<>>], {})
  BY <1>1, <1>2, ShapeSplice
<1>4. PICK i \in 0 .. Len(f[g]) :
        /\ g # list
        /\ Shape(Spliced(list, p), stale \cup {list},
                 [[f EXCEPT ![g] = Into(f[g], i, f[list])] EXCEPT ![list] = <<>>], {})
  BY <1>3
<1> DEFINE f2 == [[f EXCEPT ![g] = Into(f[g], i, f[list])] EXCEPT ![list] = <<>>]
           m == Spliced(list, p)
<1>5. Done(f, f2)
  BY <1>2, <1>4 DEF Done, SplicedTo
<1>6. CASE Splice(list, p)
  <2>1. mem' = m /\ stale' = stale \cup {list}
    BY <1>6 DEF Splice
  <2> QED
    BY <2>1, <1>4, <1>5
<1>7. CASE SpliceInit(list, p)
  <2>1. mem' = Alone(m, list) /\ stale' = stale
    BY <1>7 DEF SpliceInit
  <2>2. PICK st : st = stale \cup {list}
    OBVIOUS
  <2>3. Shape(m, st, f2, {}) /\ st \ {list} = stale
    BY <1>2, <1>4, <2>2
  <2> HIDE DEF m, f2
  <2>4. list \in Place /\ list \in ListHead /\ m \in Memory /\ f2[list] = <<>>
    BY <2>3, <1>2, <1>4 DEF Shape, Place, f2
  <2>5. /\ mem' \in Memory /\ mem'.next[list] = list /\ mem'.prev[list] = list
        /\ \A y \in Place \ {list} : mem'.next[y] = m.next[y] /\ mem'.prev[y] = m.prev[y]
    BY <2>1, <2>4, AloneIs
  <2>6. PICK n \in Memory : n = mem'
    BY <2>5
  <2>7. Shape(n, st \ {list}, f2, {})
    BY <2>3, <2>4, <2>5, <2>6, ShapeHead
  <2> QED
    BY <2>1, <2>3, <2>6, <2>7, <1>5
<1> QED
  BY <1>6, <1>7

LEMMA ReinitStep ==
  ASSUME NEW f, Shape(mem, stale, f, {}), NEW h \in ListHead, Reinit(h)
  PROVE  \E f2 : Shape(mem', stale', f2, {}) /\ Done(f, f2)
<1>1. h \in stale /\ mem' = Alone(mem, h) /\ stale' = stale \ {h}
  BY DEF Reinit
<1>2. h \in Place /\ mem \in Memory /\ f[h] = <<>>
  BY <1>1 DEF Shape, Place
<1>3. /\ mem' \in Memory /\ mem'.next[h] = h /\ mem'.prev[h] = h
      /\ \A y \in Place \ {h} : mem'.next[y] = mem.next[y] /\ mem'.prev[y] = mem.prev[y]
  BY <1>1, <1>2, AloneIs
<1>4. Shape(mem', stale \ {h}, f, {})
  BY <1>2, <1>3, ShapeHead
<1> QED
  BY <1>1, <1>4 DEF Done

-----------------------------------------------------------------------------
(* The refinement                                                          *)

Items == ItemsOf(mem, stale)

LEMMA PutIs ==
  ASSUME NEW f \in Contents, NEW h \in ListHead, NEW i, NEW s
  PROVE  Lists!Put(f, h, i, s) = [f EXCEPT ![h] = Into(f[h], i, s)]
  BY DEF Lists!Put, Into, Contents

LEMMA TakeIs ==
  ASSUME NEW f \in Contents, NEW h \in ListHead, NEW i
  PROVE  Lists!Take(f, h, i) = [f EXCEPT ![h] = OutOf(f[h], i)]
  BY DEF Lists!Take, OutOf, Contents

LEMMA ListsOnIs ==
  ASSUME Items \in Contents, NEW x
  PROVE  Lists!On(x) <=> On(Items, x)
<1>1. \A h \in ListHead : DOMAIN Items[h] = 1 .. Len(Items[h])
  BY LenProperties DEF Contents
<1>2. Lists!On(x) <=> \E h \in ListHead : \E i \in DOMAIN Items[h] : Items[h][i] = x
  BY DEF Lists!On, Items, ItemsOf
<1> QED
  BY <1>1, <1>2 DEF On

LEMMA InsertStep ==
  ASSUME Items \in Contents, NEW x \in Entry, Inserted(Items, Items', x)
  PROVE  Lists!Next
<1>1. ~On(Items, x)
  BY DEF Inserted
<1>2. PICK h \in ListHead : \E i \in 0 .. Len(Items[h]) :
        Items' = [Items EXCEPT ![h] = Into(Items[h], i, <<x>>)]
  BY DEF Inserted
<1>3. PICK i \in 0 .. Len(Items[h]) : Items' = [Items EXCEPT ![h] = Into(Items[h], i, <<x>>)]
  BY <1>2
<1>4. Items' = Lists!Put(Items, h, i, <<x>>) /\ ~Lists!On(x)
  <2>1. Lists!Put(Items, h, i, <<x>>) = [Items EXCEPT ![h] = Into(Items[h], i, <<x>>)]
    BY PutIs
  <2>2. ~Lists!On(x)
    BY <1>1, ListsOnIs
  <2> QED
    BY <2>1, <2>2, <1>3
<1>5. Lists!Insert(h, i, x)
  BY <1>4 DEF Lists!Insert, Items, ItemsOf
<1>6. \E j \in 0 .. Len(Items[h]), y \in Entry : Lists!Insert(h, j, y)
  BY <1>5
<1> QED
  BY <1>6 DEF Lists!Next, Items, ItemsOf

LEMMA DeleteStep ==
  ASSUME Items \in Contents, NEW x \in Entry, Dropped(Items, x, Items')
  PROVE  Lists!Next \/ UNCHANGED Items
<1>1. CASE Items' = Items
  BY <1>1
<1>2. CASE Items' # Items
  <2>1. PICK h \in ListHead : \E i \in 1 .. Len(Items[h]) :
          Items' = [Items EXCEPT ![h] = OutOf(Items[h], i)]
    BY <1>2 DEF Dropped
  <2>2. PICK i \in 1 .. Len(Items[h]) : Items' = [Items EXCEPT ![h] = OutOf(Items[h], i)]
    BY <2>1
  <2>3. i \in DOMAIN Items[h]
    BY LenProperties DEF Contents
  <2>4. Items' = Lists!Take(Items, h, i)
    BY <2>2, TakeIs
  <2>5. Lists!Delete(h, i)
    BY <2>4 DEF Lists!Delete, Items, ItemsOf
  <2>6. \E j \in DOMAIN Items[h] : Lists!Delete(h, j)
    BY <2>3, <2>5
  <2> QED
    BY <2>6 DEF Lists!Next, Items, ItemsOf
<1> QED
  BY <1>1, <1>2

LEMMA MovedStep ==
  ASSUME Items \in Contents, Apart(Items), NEW x \in Entry, MovedTo(Items, Items', x)
  PROVE  Lists!Next
<1>1. PICK f1 : Dropped(Items, x, f1) /\ Inserted(f1, Items', x)
  BY DEF MovedTo
<1>2. CASE f1 = Items
  BY <1>1, <1>2, InsertStep
<1>3. CASE f1 # Items
  <2>1. PICK h \in ListHead : \E i \in 1 .. Len(Items[h]) :
          Items[h][i] = x /\ f1 = [Items EXCEPT ![h] = OutOf(Items[h], i)]
    BY <1>1, <1>3 DEF Dropped
  <2>2. PICK i \in 1 .. Len(Items[h]) :
          Items[h][i] = x /\ f1 = [Items EXCEPT ![h] = OutOf(Items[h], i)]
    BY <2>1
  <2>3. i \in DOMAIN Items[h]
    BY LenProperties DEF Contents
  <2>4. f1 = Lists!Take(Items, h, i)
    BY <2>2, TakeIs
  <2>5. f1 \in Contents
    BY <2>2, ApartOutOf
  <2>6. PICK g \in ListHead : \E j \in 0 .. Len(f1[g]) :
          Items' = [f1 EXCEPT ![g] = Into(f1[g], j, <<x>>)]
    BY <1>1 DEF Inserted
  <2>7. PICK j \in 0 .. Len(f1[g]) : Items' = [f1 EXCEPT ![g] = Into(f1[g], j, <<x>>)]
    BY <2>6
  <2>8. Items' = Lists!Put(Lists!Take(Items, h, i), g, j, <<Items[h][i]>>)
    <3>1. Lists!Put(f1, g, j, <<x>>) = [f1 EXCEPT ![g] = Into(f1[g], j, <<x>>)]
      BY <2>5, PutIs
    <3>2. Items[h][i] = x
      BY <2>2
    <3> QED
      BY <3>1, <3>2, <2>4, <2>7
  <2>9. Lists!Move(h, i, g, j)
    BY <2>8 DEF Lists!Move, Items, ItemsOf
  <2>10. \E a \in DOMAIN Items[h] : \E b \in ListHead :
           \E c \in 0 .. Len(Lists!Take(Items, h, a)[b]) : Lists!Move(h, a, b, c)
    BY <2>3, <2>4, <2>7, <2>9
  <2> QED
    BY <2>10 DEF Lists!Next, Items, ItemsOf
<1> QED
  BY <1>2, <1>3

LEMMA SplicedStep ==
  ASSUME Items \in Contents, SplicedTo(Items, Items')
  PROVE  Lists!Next
<1>1. PICK h \in ListHead, g \in ListHead : \E i \in 0 .. Len(Items[g]) :
        h # g /\ Items' = [[Items EXCEPT ![g] = Into(Items[g], i, Items[h])] EXCEPT ![h] = <<>>]
  BY DEF SplicedTo
<1>2. PICK i \in 0 .. Len(Items[g]) :
        h # g /\ Items' = [[Items EXCEPT ![g] = Into(Items[g], i, Items[h])] EXCEPT ![h] = <<>>]
  BY <1>1
<1>3. Items' = [Lists!Put(Items, g, i, Items[h]) EXCEPT ![h] = <<>>]
  <2>1. Lists!Put(Items, g, i, Items[h]) = [Items EXCEPT ![g] = Into(Items[g], i, Items[h])]
    BY PutIs
  <2> QED
    BY <2>1, <1>2
<1>4. Lists!Splice(h, g, i)
  BY <1>2, <1>3 DEF Lists!Splice, Items, ItemsOf
<1>5. \E b \in ListHead : \E c \in 0 .. Len(Items[b]) : Lists!Splice(h, b, c)
  BY <1>4
<1> QED
  BY <1>5 DEF Lists!Next, Items, ItemsOf

(* Each operation keeps the shape and does to the sequences what it says.  *)
LEMMA NextDeques ==
  ASSUME IInv, Next
  PROVE  IInv' /\ (Lists!Next \/ UNCHANGED Items)
<1>1. Shape(mem, stale, Items, {})
  BY DEF IInv, Items
<1>2. \E f2 : Shape(mem', stale', f2, {}) /\ Done(Items, f2)
  <2>1. ASSUME NEW x \in Entry, NEW p \in Places, Add(x, p)
        PROVE  \E f2 : Shape(mem', stale', f2, {}) /\ Done(Items, f2)
    BY <1>1, <2>1, AddStep
  <2>2. ASSUME NEW x \in Linked \cup Loose, Del(x) \/ DelInit(x)
        PROVE  \E f2 : Shape(mem', stale', f2, {}) /\ Done(Items, f2)
    BY <1>1, <2>2, DelStep
  <2>3. ASSUME NEW x \in Linked \cup Loose, NEW p \in Places, Move(x, p)
        PROVE  \E f2 : Shape(mem', stale', f2, {}) /\ Done(Items, f2)
    BY <1>1, <2>3, MoveStep
  <2>4. ASSUME NEW list \in Live, NEW p \in Places, Splice(list, p) \/ SpliceInit(list, p)
        PROVE  \E f2 : Shape(mem', stale', f2, {}) /\ Done(Items, f2)
    BY <1>1, <2>4, SpliceStep
  <2>5. ASSUME NEW h \in ListHead, Reinit(h)
        PROVE  \E f2 : Shape(mem', stale', f2, {}) /\ Done(Items, f2)
    BY <1>1, <2>5, ReinitStep
  <2> QED
    BY <2>1, <2>2, <2>3, <2>4, <2>5 DEF Next
<1>3. PICK f2 : Shape(mem', stale', f2, {}) /\ Done(Items, f2)
  BY <1>2
<1>4. ItemsOf(mem', stale') = f2
  BY <1>3, ItemsAre
<1>5. IInv'
  BY <1>3, <1>4 DEF IInv
<1>6. Items' = f2 /\ Items \in Contents /\ Apart(Items)
  BY <1>1, <1>4 DEF Items, Shape
<1>7. Done(Items, Items')
  BY <1>3, <1>6
<1>8. Lists!Next \/ UNCHANGED Items
  <2>1. CASE Items' = Items
    BY <2>1
  <2>2. ASSUME NEW x \in Entry, Inserted(Items, Items', x) PROVE Lists!Next
    BY <2>2, <1>6, InsertStep
  <2>3. ASSUME NEW x \in Entry, Dropped(Items, x, Items') PROVE Lists!Next \/ UNCHANGED Items
    BY <2>3, <1>6, DeleteStep
  <2>4. ASSUME NEW x \in Entry, MovedTo(Items, Items', x) PROVE Lists!Next
    BY <2>4, <1>6, MovedStep
  <2>5. CASE SplicedTo(Items, Items')
    BY <2>5, <1>6, SplicedStep
  <2> QED
    BY <2>1, <2>2, <2>3, <2>4, <2>5, <1>7 DEF Done
<1> QED
  BY <1>5, <1>8

(* At the start every list is empty and every entry NULL.                  *)
LEMMA InitShape ==
  ASSUME Init
  PROVE  IInv /\ Items = [h \in ListHead |-> <<>>]
<1> DEFINE none == [h \in ListHead |-> <<>>]
           field == [x \in Place |-> IF x \in ListHead THEN x ELSE NULL]
<1>1. mem = [next |-> field, prev |-> field] /\ stale = {}
  BY DEF Init
<1>2. field \in Field
  BY DEF Field, Place
<1>3. mem \in Memory /\ mem.next = field /\ mem.prev = field
  BY <1>1, <1>2 DEF Memory
<1>4. none \in Contents /\ \A h \in ListHead : none[h] = <<>> /\ Len(none[h]) = 0
  BY DEF Contents
<1> HIDE DEF none
<1>5. Apart(none)
  BY <1>4 DEF Apart
<1>6. \A h \in ListHead : Ring(mem, h, none[h])
  BY <1>3, <1>4 DEF Ring, Along, Back, At, Place
<1>7. \A x \in Entry : Off(mem, x)
  BY <1>3, ListAssumption DEF Off, Place
<1>8. Shape(mem, stale, none, {})
  BY <1>1, <1>3, <1>4, <1>5, <1>6, <1>7 DEF Shape
<1>9. ItemsOf(mem, stale) = none
  BY <1>8, ItemsAre
<1> QED
  BY <1>8, <1>9 DEF IInv, Items, none

LEMMA StutterDeques ==
  ASSUME IInv, UNCHANGED vars
  PROVE  IInv' /\ UNCHANGED Items
  BY DEF IInv, Items, vars

(* The memory always holds rings, one for each live head.                  *)
THEOREM ShapeInvariance == Spec => []IInv
<1>1. Init => IInv
  BY InitShape
<1>2. IInv /\ [Next]_vars => IInv'
  BY NextDeques, StutterDeques
<1> QED
  BY <1>1, <1>2, PTL DEF Spec

(***************************************************************************)
(* list_for_each_prev meets what list_for_each meets, in reverse, after    *)
(* any operations on any number of lists.                                  *)
(***************************************************************************)
THEOREM FieldsAgree == Spec => []BothWays
<1>1. ASSUME IInv PROVE BothWays
  <2>1. Shape(mem, stale, Items, {})
    BY <1>1 DEF IInv, Items
  <2>2. ASSUME NEW h \in Live PROVE Walk(mem.prev, h) = Reverse(Walk(mem.next, h))
    <3>1. /\ h \in ListHead \ stale /\ Items[h] \in Seq(Entry)
          /\ Along(mem.next, h, Items[h]) /\ Back(mem.prev, h, Items[h])
      BY <2>1, <2>2 DEF Live, Shape, Contents, Ring
    <3>2. \A i, j \in 1 .. Len(Items[h]) : Items[h][i] = Items[h][j] => i = j
      BY <2>1, <3>1 DEF Shape, Apart
    <3>3. Walk(mem.next, h) = Items[h]
      BY <3>1, <3>2, WalkIs
    <3>4. Walk(mem.prev, h) = Reverse(Items[h])
      BY <3>1, <3>2, BackWalkIs
    <3> QED
      BY <3>3, <3>4
  <2> QED
    BY <2>2 DEF BothWays
<1> QED
  BY <1>1, ShapeInvariance, PTL

(***************************************************************************)
(* An entry that list_del or list_del_init has taken off, or that never    *)
(* was put in, does not lead back into a list, whatever was done since.    *)
(***************************************************************************)
THEOREM TakenOffApart == Spec => []OffApart
<1>1. ASSUME IInv PROVE OffApart
  <2>1. Shape(mem, stale, Items, {})
    BY <1>1 DEF IInv, Items
  <2>2. \A x : x \in Linked <=> On(Items, x)
    BY <2>1, LinkedAre
  <2> QED
    BY <2>1, <2>2 DEF OffApart, Shape, Off
<1> QED
  BY <1>1, ShapeInvariance, PTL

(***************************************************************************)
(* add, delete, move and splice do to the sequences what they say,         *)
(* whatever nodes alias each other.                                        *)
(***************************************************************************)
THEOREM PointersImplementDeques == Spec => ImplementsDeques
<1>1. Init => IInv /\ Lists!Init
  BY InitShape DEF Lists!Init, Items, ItemsOf
<1>2. IInv /\ [Next]_vars => [Lists!Next]_Items
  BY NextDeques, StutterDeques
<1> QED
  BY <1>1, <1>2, ShapeInvariance, PTL DEF Spec, ImplementsDeques, Lists!Spec, Items, ItemsOf

-----------------------------------------------------------------------------
(* Singly linked lists: cells that lead along a sequence to NULL           *)

Leads(c, h, q) ==
  \A j \in 0 .. Len(q) : c[At(h, q, j)] = IF j = Len(q) THEN NULL ELSE q[j + 1]

(* What S!Walk finds in the cells c.                                       *)
CellWalk(c, h) ==
  LET path[k \in Nat] ==
        IF k = 0 THEN <<>>
        ELSE LET s == path[k - 1]
                 x == c[IF s = <<>> THEN h ELSE Last(s)]
             IN  IF x = NULL THEN s ELSE Append(s, x)
  IN  path[Cardinality(Entry) + 1]

LEMMA CellWalks ==
  ASSUME NEW h
  PROVE  S!Walk(h) = CellWalk(cell, h) /\ S!Walk(h)' = CellWalk(cell', h)
  BY DEF S!Walk, CellWalk, S!Last, Last, S!Cardinality, Cardinality

(* The cells of a sequence without repetitions lead S!Walk along it.       *)
LEMMA CellWalkIs ==
  ASSUME NEW f, NEW h \in ListHead, NEW q \in Seq(Entry),
         \A i, j \in 1 .. Len(q) : q[i] = q[j] => i = j, Leads(f, h, q)
  PROVE  CellWalk(f, h) = q
<1> DEFINE C == Cardinality(Entry) + 1
           Step(s) == LET x == f[IF s = <<>> THEN h ELSE Last(s)]
                      IN  IF x = NULL THEN s ELSE Append(s, x)
           Body(v) == [k \in Nat |-> IF k = 0 THEN <<>> ELSE Step(v[k - 1])]
           First(k) == SubSeq(q, 1, IF k <= Len(q) THEN k ELSE Len(q))
           w == [k \in Nat |-> First(k)]
           V == CHOOSE v : v = Body(v)
<1>1. C \in Nat /\ Len(q) \in Nat /\ Len(q) <= C
  <2>1. Len(q) <= Cardinality(Entry) /\ Cardinality(Entry) \in Nat
    BY OnceIsShort
  <2>2. Len(q) \in Nat
    BY LenProperties
  <2> QED
    BY <2>1, <2>2
<1> HIDE DEF C
<1>2. First(0) = <<>>
  BY <1>1, SubSeqEmpty
<1>3. ASSUME NEW k \in Nat \ {0} PROVE First(k) = Step(First(k - 1))
  <2>1. CASE k <= Len(q)
    <3> DEFINE s == SubSeq(q, 1, k - 1)
    <3>1. First(k - 1) = s /\ First(k) = SubSeq(q, 1, k)
      BY <2>1, <1>1
    <3>2. s \in Seq(Entry) /\ Len(s) = k - 1 /\ \A i \in 1 .. k - 1 : s[i] = q[i]
      <4>1. \A i \in 1 .. k - 1 : q[i] \in Entry
        BY <2>1, <1>1, ElementOfSeq
      <4> QED
        BY <4>1, SubSeqProperties
    <3>3. q[k] \in Entry /\ SubSeq(q, 1, k) = s \o <<q[k]>>
      BY <2>1, <1>1, SubSeqRecursiveSecond, ElementOfSeq
    <3> HIDE DEF s
    <3>4. f[IF s = <<>> THEN h ELSE Last(s)] = q[k]
      <4>1. k - 1 \in 0 .. Len(q) /\ k - 1 # Len(q) /\ (k - 1) + 1 = k
        BY <2>1, <1>1
      <4>2. f[At(h, q, k - 1)] = q[k]
        BY <4>1 DEF Leads
      <4>3. (IF s = <<>> THEN h ELSE Last(s)) = At(h, q, k - 1)
        <5>1. CASE k = 1
          BY <5>1, <3>2, EmptySeq DEF At
        <5>2. CASE k # 1
          <6>1. s # <<>> /\ k - 1 \in 1 .. Len(q) /\ Len(s) \in 1 .. k - 1
            BY <5>2, <2>1, <1>1, <3>2, EmptySeq
          <6> QED
            BY <6>1, <3>2 DEF At, Last
        <5> QED
          BY <5>1, <5>2
      <4> QED
        BY <4>2, <4>3
    <3>5. q[k] # NULL
      BY <3>3, ListAssumption
    <3>6. Step(s) = Append(s, q[k])
      BY <3>4, <3>5
    <3>7. Append(s, q[k]) = s \o <<q[k]>>
      BY <3>2, <3>3, AppendIsConcat
    <3> QED
      BY <3>1, <3>3, <3>6, <3>7
  <2>2. CASE k > Len(q)
    <3>1. First(k - 1) = q /\ First(k) = q
      <4>1. SubSeq(q, 1, Len(q)) = q
        BY SubSeqFull
      <4>2. \A j \in {k - 1, k} : (IF j <= Len(q) THEN j ELSE Len(q)) = Len(q)
        BY <2>2, <1>1
      <4>3. First(k - 1) = SubSeq(q, 1, Len(q)) /\ First(k) = SubSeq(q, 1, Len(q))
        BY <4>2
      <4> QED
        BY <4>1, <4>3
    <3>2. f[IF q = <<>> THEN h ELSE Last(q)] = NULL
      <4>1. Len(q) \in 0 .. Len(q)
        BY <1>1
      <4>2. f[At(h, q, Len(q))] = NULL
        BY <4>1 DEF Leads
      <4>3. (IF q = <<>> THEN h ELSE Last(q)) = At(h, q, Len(q))
        BY <1>1, EmptySeq DEF At, Last
      <4> QED
        BY <4>2, <4>3
    <3>3. Step(q) = q
      BY <3>2
    <3> HIDE DEF First, Step
    <3> QED
      BY <3>1, <3>3
  <2>3. k <= Len(q) \/ k > Len(q)
    BY <1>1
  <2> QED
    BY <2>1, <2>2, <2>3
<1> HIDE DEF First, Step
<1>4. w = Body(w)
  <2>1. \A k \in Nat \ {0} : k - 1 \in Nat
    OBVIOUS
  <2>2. \A k \in Nat \ {0} : w[k] = Step(w[k - 1])
    BY <2>1, <1>3
  <2>3. \A k \in Nat : w[k] = IF k = 0 THEN <<>> ELSE Step(w[k - 1])
    BY <2>2, <1>2
  <2> QED
    BY <2>3
<1>5. V = Body(V)
  <2> HIDE DEF Body, w
  <2> QED
    BY <1>4
<1>6. CellWalk(f, h) = V[C]
  BY DEF CellWalk, C, Step
<1> HIDE DEF V
<1>7. V[0] = <<>> /\ \A k \in Nat \ {0} : V[k] = Step(V[k - 1])
  <2>1. \A k \in Nat : V[k] = IF k = 0 THEN <<>> ELSE Step(V[k - 1])
    BY <1>5
  <2> QED
    BY <2>1
<1>8. V[C] = First(C)
  <2> DEFINE wrong == {k \in Nat : V[k] # First(k)}
             before == OpToRel(<, Nat)
  <2>1. SUFFICES ASSUME wrong # {} PROVE FALSE
    BY <1>1
  <2>2. wrong \subseteq Nat
    OBVIOUS
  <2>3. before = {pair \in Nat \X Nat : pair[1] < pair[2]}
    BY DEF OpToRel
  <2>4. IsWellFoundedOn(before, Nat)
    BY NatLessThanWellFounded
  <2> HIDE DEF before
  <2>5. PICK m \in wrong : \A j \in wrong : ~(<<j, m>> \in before)
    <3> HIDE DEF wrong
    <3> QED
      BY <2>1, <2>2, <2>4, WFMin
  <2>6. \A j \in wrong : ~(j < m)
    BY <2>2, <2>3, <2>5
  <2>7. m \in Nat \ {0}
    BY <1>2, <1>7
  <2>8. m - 1 \in Nat /\ m - 1 < m
    BY <2>7
  <2>9. V[m - 1] = First(m - 1)
    BY <2>6, <2>8
  <2>10. V[m] = First(m)
    BY <2>7, <2>9, <1>3, <1>7
  <2> QED
    BY <2>5, <2>10
<1>9. First(C) = q
  <2>1. SubSeq(q, 1, Len(q)) = q
    BY SubSeqFull
  <2>2. (IF C <= Len(q) THEN C ELSE Len(q)) = Len(q)
    BY <1>1
  <2>3. First(C) = SubSeq(q, 1, Len(q))
    BY <2>2 DEF First
  <2> QED
    BY <2>1, <2>3
<1> QED
  BY <1>6, <1>8, <1>9

(* In d position i leads along the chain s, and that to what comes next.   *)
ChainedIn(d, h, t, i, s) ==
  /\ d[At(h, t, i)] = s[1]
  /\ \A k \in 1 .. Len(s) - 1 : d[s[k]] = s[k + 1]
  /\ d[s[Len(s)]] = IF i = Len(t) THEN NULL ELSE t[i + 1]

SameBut(c, d, h, t, i) ==
  \A k \in 0 .. Len(t) : k # i => d[At(h, t, k)] = c[At(h, t, k)]

LEMMA LeadsInto ==
  ASSUME NEW c, NEW d, NEW h, NEW T, NEW t \in Seq(T), NEW s \in Seq(T), s # <<>>,
         NEW i \in 0 .. Len(t), Leads(c, h, t),
         ChainedIn(d, h, t, i, s), SameBut(c, d, h, t, i)
  PROVE  Leads(d, h, Into(t, i, s))
<1> DEFINE u == Into(t, i, s)
<1>1. PICK L \in Nat, K \in Nat : L = Len(t) /\ K = Len(s) /\ K # 0
  BY LenProperties, EmptySeq
<1>2. /\ u \in Seq(T) /\ Len(u) = L + K
      /\ \A k \in 1 .. L + K : u[k] = IF k <= i THEN t[k]
                                      ELSE IF k <= i + K THEN s[k - i] ELSE t[k - K]
  <2>1. /\ u \in Seq(T) /\ Len(u) = Len(t) + Len(s)
        /\ \A k \in 1 .. Len(t) + Len(s) : u[k] =
             IF k <= i THEN t[k]
             ELSE IF k <= i + Len(s) THEN s[k - i] ELSE t[k - Len(s)]
    BY IntoIs
  <2> HIDE DEF u
  <2> QED
    BY <2>1, <1>1
<1>a. i \in Nat /\ i <= L
  BY <1>1
<1>b. /\ d[At(h, t, i)] = s[1]
      /\ \A k \in 1 .. K - 1 : d[s[k]] = s[k + 1]
      /\ d[s[K]] = IF i = L THEN NULL ELSE t[i + 1]
      /\ \A k \in 0 .. L : k # i => d[At(h, t, k)] = c[At(h, t, k)]
  BY <1>1 DEF ChainedIn, SameBut
<1> HIDE DEF u
<1>3. \A k \in 0 .. L : At(h, t, k) = IF k = 0 THEN h ELSE t[k]
  BY <1>1 DEF At
<1>4. \A k \in 0 .. L + K : At(h, u, k) = IF k = 0 THEN h ELSE u[k]
  BY <1>1, <1>2 DEF At
<1>5. \A k \in 0 .. L : c[At(h, t, k)] = IF k = L THEN NULL ELSE t[k + 1]
  BY <1>1 DEF Leads
<1>6. ASSUME NEW j \in 0 .. L + K
      PROVE  d[At(h, u, j)] = IF j = L + K THEN NULL ELSE u[j + 1]
  <2>1. CASE j < i
    <3>1. j \in 0 .. L /\ j # L /\ j # i /\ j + 1 \in 1 .. L + K /\ j + 1 <= i
      BY <2>1, <1>1
    <3>2. At(h, u, j) = At(h, t, j)
      BY <2>1, <3>1, <1>2, <1>3, <1>4
    <3>3. d[At(h, t, j)] = t[j + 1]
      BY <3>1, <1>5, <1>b
    <3>4. u[j + 1] = t[j + 1] /\ j # L + K
      BY <3>1, <1>1, <1>2
    <3> QED
      BY <3>2, <3>3, <3>4
  <2>2. CASE j = i
    <3>1. j \in 0 .. L /\ j + 1 \in 1 .. L + K /\ ~(j + 1 <= i) /\ j + 1 <= i + K /\ (j + 1) - i = 1
      BY <2>2, <1>1
    <3>2. At(h, u, j) = At(h, t, j)
      BY <2>2, <3>1, <1>2, <1>3, <1>4
    <3>3. u[j + 1] = s[1]
      BY <3>1, <1>2
    <3>4. j # L + K
      BY <2>2, <1>1, <1>a
    <3>5. d[At(h, t, j)] = s[1]
      BY <2>2, <1>b
    <3> QED
      BY <3>2, <3>3, <3>4, <3>5
  <2>3. CASE j > i /\ j < i + K
    <3>1. PICK k \in 1 .. K - 1 : k = j - i
      BY <2>3, <1>1
    <3>2. /\ j \in 1 .. L + K /\ j # 0 /\ ~(j <= i) /\ j <= i + K
          /\ j + 1 \in 1 .. L + K /\ ~(j + 1 <= i) /\ j + 1 <= i + K /\ (j + 1) - i = k + 1
          /\ j # L + K
      BY <2>3, <3>1, <1>1
    <3>3. At(h, u, j) = s[k] /\ u[j + 1] = s[k + 1]
      BY <3>1, <3>2, <1>2, <1>4
    <3>4. d[s[k]] = s[k + 1]
      BY <3>1, <1>b
    <3> QED
      BY <3>2, <3>3, <3>4
  <2>4. CASE j = i + K
    <3>1. j \in 1 .. L + K /\ j # 0 /\ ~(j <= i) /\ j <= i + K /\ j - i = K
      BY <2>4, <1>1
    <3>2. At(h, u, j) = s[K]
      BY <3>1, <1>2, <1>4
    <3>3. CASE i = L
      BY <2>4, <3>2, <3>3, <1>b
    <3>4. CASE i # L
      <4>1. i < L
        BY <3>4, <1>a, <1>1
      <4>2. j < L + K
        BY <4>1, <2>4, <1>a, <1>1
      <4>3. /\ j # L + K /\ j + 1 \in 1 .. L + K /\ ~(j + 1 <= i) /\ ~(j + 1 <= i + K)
            /\ (j + 1) - K = i + 1
        BY <4>2, <2>4, <1>a, <1>1
      <4>4. u[j + 1] = t[i + 1]
        <5>1. PICK k \in 1 .. L + K : k = j + 1
          BY <4>3
        <5>2. u[k] = t[k - K]
          BY <5>1, <4>3, <1>2
        <5> QED
          BY <5>1, <5>2, <4>3
      <4>5. d[s[K]] = t[i + 1]
        BY <3>4, <1>1, <1>b
      <4> QED
        BY <3>2, <4>3, <4>4, <4>5
    <3> QED
      BY <3>3, <3>4
  <2>5. CASE j > i + K
    <3>1. PICK k \in 1 .. L : k = j - K
      <4>1. j - K \in 1 .. L
        BY <2>5, <1>1, <1>a
      <4> QED
        BY <4>1
    <3>2. /\ j \in 1 .. L + K /\ j # 0 /\ ~(j <= i) /\ ~(j <= i + K)
          /\ k \in 0 .. L /\ k # 0 /\ k # i
      BY <2>5, <3>1, <1>1
    <3>3. At(h, u, j) = At(h, t, k)
      BY <3>1, <3>2, <1>2, <1>3, <1>4
    <3>4. d[At(h, t, k)] = IF k = L THEN NULL ELSE t[k + 1]
      BY <3>2, <1>5, <1>b
    <3>5. j = L + K <=> k = L
      BY <3>1, <1>1
    <3>6. CASE k # L
      <4>1. j + 1 \in 1 .. L + K /\ ~(j + 1 <= i) /\ ~(j + 1 <= i + K) /\ (j + 1) - K = k + 1
        <5>1. j \in Nat /\ j < L + K
          <6>1. j # L + K
            BY <3>5, <3>6
          <6>2. PICK M \in Nat : M = L + K
            BY <1>1
          <6>3. j \in 0 .. M /\ j # M
            BY <6>1, <6>2
          <6> QED
            BY <6>2, <6>3
        <5>2. j = k + K /\ j > i + K /\ i \in Nat /\ K \in Nat /\ k \in Nat
          BY <2>5, <3>1, <1>1, <1>a
        <5>3. ~(j + 1 <= i) /\ ~(j + 1 <= i + K) /\ (j + 1) - K = k + 1
          BY <5>2
        <5>4. j + 1 \in 1 .. L + K
          BY <5>1, <1>1
        <5> QED
          BY <5>3, <5>4
      <4>2. u[j + 1] = t[k + 1]
        BY <4>1, <1>2
      <4> QED
        BY <3>3, <3>4, <3>5, <3>6, <4>2
    <3> QED
      BY <3>3, <3>4, <3>5, <3>6
  <2>6. (j < i \/ j = i \/ (j > i /\ j < i + K) \/ j = i + K \/ j > i + K)
    <3>1. j \in Int /\ i \in Int /\ i + K \in Int
      BY <1>1, <1>a
    <3> QED
      BY <3>1
  <2> QED
    BY <2>1, <2>2, <2>3, <2>4, <2>5, <2>6
<1> QED
  BY <1>1, <1>2, <1>6 DEF Leads, u

(* The first element is taken off: the head leads to the second.           *)
LEMMA LeadsOutOf ==
  ASSUME NEW c, NEW d, NEW h, NEW T, NEW t \in Seq(T), t # <<>>, Leads(c, h, t),
         d[h] = c[t[1]], \A k \in 1 .. Len(t) : d[t[k]] = c[t[k]]
  PROVE  Leads(d, h, OutOf(t, 1))
<1> DEFINE u == OutOf(t, 1)
<1>1. PICK L \in Nat : L = Len(t) /\ L # 0
  BY LenProperties, EmptySeq
<1>2. u \in Seq(T) /\ Len(u) = L - 1 /\ \A k \in 1 .. L - 1 : u[k] = t[k + 1]
  <2>1. 1 \in 1 .. Len(t) /\ \A k \in 1 .. L - 1 : ~(k < 1)
    BY <1>1
  <2>2. /\ u \in Seq(T) /\ Len(u) = Len(t) - 1
        /\ \A k \in 1 .. Len(t) - 1 : u[k] = IF k < 1 THEN t[k] ELSE t[k + 1]
    BY <2>1, OutOfIs
  <2> HIDE DEF u
  <2> QED
    BY <2>1, <2>2, <1>1
<1> HIDE DEF u
<1>3. \A k \in 1 .. L : At(h, t, k) = t[k]
  BY <1>1 DEF At
<1>4. \A k \in 1 .. L : c[t[k]] = IF k = L THEN NULL ELSE t[k + 1]
  <2> SUFFICES ASSUME NEW k \in 1 .. L PROVE c[t[k]] = IF k = L THEN NULL ELSE t[k + 1]
    OBVIOUS
  <2>1. k \in 0 .. Len(t)
    BY <1>1
  <2> QED
    BY <2>1, <1>1, <1>3 DEF Leads
<1>5. ASSUME NEW j \in 0 .. L - 1
      PROVE  d[At(h, u, j)] = IF j = L - 1 THEN NULL ELSE u[j + 1]
  <2>1. j + 1 \in 1 .. L /\ (j + 1 = L <=> j = L - 1) /\ (j # L - 1 => j + 1 \in 1 .. L - 1)
    BY <1>1
  <2>2. d[At(h, u, j)] = c[t[j + 1]]
    <3>1. CASE j = 0
      BY <3>1, <1>1, <1>2 DEF At
    <3>2. CASE j # 0
      <4>1. j \in 1 .. L - 1
        BY <3>2, <1>1
      <4> QED
        BY <4>1, <2>1, <1>1, <1>2 DEF At
    <3> QED
      BY <3>1, <3>2
  <2>3. c[t[j + 1]] = IF j + 1 = L THEN NULL ELSE t[(j + 1) + 1]
    BY <2>1, <1>4
  <2>4. CASE j = L - 1
    BY <2>1, <2>2, <2>3, <2>4
  <2>5. CASE j # L - 1
    <3>1. u[j + 1] = t[(j + 1) + 1]
      BY <2>1, <2>5, <1>2
    <3> QED
      BY <2>1, <2>2, <2>3, <2>5, <3>1
  <2> QED
    BY <2>4, <2>5
<1> QED
  BY <1>1, <1>2, <1>5 DEF Leads, u

(* Nothing that leads along q has changed.                                 *)
LEMMA LeadsSame ==
  ASSUME NEW c, NEW d, NEW h, NEW q, Leads(c, h, q),
         \A j \in 0 .. Len(q) : d[At(h, q, j)] = c[At(h, q, j)]
  PROVE  Leads(d, h, q)
  BY DEF Leads

Cells == [Place -> Entry \cup {NULL}]

(* Every head not in st leads along its entries.                           *)
Chains(c, st, f) ==
  /\ c \in Cells /\ st \subseteq ListHead
  /\ f \in Contents /\ Apart(f)
  /\ \A h \in ListHead \ st : Leads(c, h, f[h])
  /\ \A h \in st : f[h] = <<>>

(* From c to d, only the cell p and those of s change.                     *)
OnlyAt(c, d, p, s) == \A y \in Place \ Members(s) : y # p => d[y] = c[y]

(* What is on no list is put into one, as a chain.                         *)
LEMMA ChainsInto ==
  ASSUME NEW c, NEW st, NEW f, Chains(c, st, f), NEW d \in Cells,
         NEW g \in ListHead \ st, NEW i \in 0 .. Len(f[g]), NEW s, Fresh(f, s),
         ChainedIn(d, g, f[g], i, s),
         OnlyAt(c, d, At(g, f[g], i), s)
  PROVE  Chains(d, st, [f EXCEPT ![g] = Into(f[g], i, s)])
<1> DEFINE f2 == [f EXCEPT ![g] = Into(f[g], i, s)]
           Free(y) == y \notin Members(s)
<1>1. f \in Contents /\ Apart(f) /\ st \subseteq ListHead
  BY DEF Chains
<1>2. f2 \in Contents /\ Apart(f2)
  BY <1>1, ApartInto
<1>3. f2[g] = Into(f[g], i, s) /\ \A h \in ListHead \ {g} : f2[h] = f[h]
  BY <1>1 DEF Contents
<1> HIDE DEF f2
<1>4. \A k \in 1 .. Len(s) : s[k] \in Entry /\ ~On(f, s[k])
  BY ElementOfSeq DEF Fresh
<1>5. \A h \in ListHead, j \in Int : At(h, f[h], j) \in Place /\ Free(At(h, f[h], j))
  <2>1. \A h \in ListHead, j \in Int : At(h, f[h], j) \in Place
    BY <1>1, PlacesApart
  <2>2. \A h \in ListHead, j \in Int : \A k \in 1 .. Len(s) : At(h, f[h], j) # s[k]
    <3> SUFFICES ASSUME NEW h \in ListHead, NEW j \in Int, NEW k \in 1 .. Len(s)
                 PROVE  At(h, f[h], j) # s[k]
      OBVIOUS
    <3>1. s[k] \in Entry /\ ~On(f, s[k])
      BY <1>4
    <3> QED
      BY <3>1, <1>1, OffIsNowhere
  <2> QED
    BY <2>1, <2>2 DEF Members
<1> HIDE DEF Free
<1>6. ASSUME NEW h \in ListHead \ st PROVE Leads(d, h, f2[h])
  <2>1. Leads(c, h, f[h])
    BY DEF Chains
  <2>2. ASSUME NEW k \in 0 .. Len(f[h]), h # g \/ k # i
        PROVE  d[At(h, f[h], k)] = c[At(h, f[h], k)]
    <3>1. At(h, f[h], k) # At(g, f[g], i)
      BY <2>2, <1>1, PlacesApart
    <3>2. k \in Int
      OBVIOUS
    <3> QED
      BY <3>1, <3>2, <1>5 DEF Free, OnlyAt
  <2>3. CASE h = g
    <3>1. f[g] \in Seq(Entry) /\ s \in Seq(Entry) /\ s # <<>>
      BY <1>1 DEF Contents, Fresh
    <3>2. SameBut(c, d, g, f[g], i)
      BY <2>2, <2>3 DEF SameBut
    <3>3. Leads(d, g, Into(f[g], i, s))
      BY <2>1, <2>3, <3>1, <3>2, LeadsInto
    <3> QED
      BY <2>3, <3>3, <1>3
  <2>4. CASE h # g
    <3>1. Leads(d, h, f[h])
      BY <2>1, <2>2, <2>4, LeadsSame
    <3> QED
      BY <2>4, <3>1, <1>3
  <2> QED
    BY <2>3, <2>4
<1>7. \A h \in st : f2[h] = <<>>
  BY <1>1, <1>3 DEF Chains
<1> QED
  BY <1>1, <1>2, <1>6, <1>7 DEF Chains, f2

(* The first entry of a list is taken off.                                 *)
LEMMA ChainsOutOf ==
  ASSUME NEW c, NEW st, NEW f, Chains(c, st, f),
         NEW g \in ListHead \ st, f[g] # <<>>
  PROVE  Chains([c EXCEPT ![g] = c[c[g]]], st, [f EXCEPT ![g] = OutOf(f[g], 1)])
<1> DEFINE f2 == [f EXCEPT ![g] = OutOf(f[g], 1)]
           d == [c EXCEPT ![g] = c[c[g]]]
<1>1. f \in Contents /\ Apart(f) /\ st \subseteq ListHead /\ c \in Cells
  BY DEF Chains
<1>2. f[g] \in Seq(Entry) /\ Leads(c, g, f[g])
  BY <1>1 DEF Chains, Contents
<1>3. PICK L \in Nat : L = Len(f[g]) /\ L # 0
  BY <1>2, LenProperties, EmptySeq
<1>4. 1 \in 1 .. Len(f[g]) /\ 0 \in 0 .. Len(f[g]) /\ 0 # Len(f[g]) /\ 0 + 1 = 1
  BY <1>3
<1>5. c[g] = f[g][1] /\ f[g][1] \in Entry
  <2>1. At(g, f[g], 0) = g
    BY <1>3 DEF At
  <2> QED
    BY <2>1, <1>2, <1>4, ElementOfSeq DEF Leads
<1>6. f2 \in Contents /\ Apart(f2)
  BY <1>1, <1>4, ApartOutOf
<1>7. f2[g] = OutOf(f[g], 1) /\ \A h \in ListHead \ {g} : f2[h] = f[h]
  BY <1>1 DEF Contents
<1>8. d \in Cells /\ d[g] = c[f[g][1]] /\ \A y \in Place \ {g} : d[y] = c[y]
  BY <1>1, <1>5 DEF Cells, Place
<1> HIDE DEF f2, d
<1>9. ASSUME NEW h \in ListHead \ st PROVE Leads(d, h, f2[h])
  <2>1. Leads(c, h, f[h])
    BY DEF Chains
  <2>2. CASE h = g
    <3>1. \A k \in 1 .. Len(f[g]) : f[g][k] \in Place \ {g}
      BY <1>2, ElementOfSeq, ListAssumption DEF Place
    <3>2. \A k \in 1 .. Len(f[g]) : d[f[g][k]] = c[f[g][k]]
      BY <3>1, <1>8
    <3>3. Leads(d, g, OutOf(f[g], 1))
      BY <3>2, <1>2, <1>8, LeadsOutOf
    <3> QED
      BY <2>2, <3>3, <1>7
  <2>3. CASE h # g
    <3>1. ASSUME NEW k \in 0 .. Len(f[h]) PROVE d[At(h, f[h], k)] = c[At(h, f[h], k)]
      <4>1. At(h, f[h], k) # At(g, f[g], 0) /\ At(g, f[g], 0) = g /\ k \in Int
        BY <2>3, <1>1, <1>3, <1>4, PlacesApart DEF At
      <4> QED
        BY <4>1, <1>1, <1>8, PlacesApart
    <3>2. Leads(d, h, f[h])
      BY <2>1, <3>1, LeadsSame
    <3> QED
      BY <2>3, <3>2, <1>7
  <2> QED
    BY <2>2, <2>3
<1>10. \A h \in st : f2[h] = <<>>
  BY <1>1, <1>7 DEF Chains
<1> QED
  BY <1>1, <1>6, <1>8, <1>9, <1>10 DEF Chains, f2, d

(* A head that leads to nothing is initialised.                            *)
LEMMA ChainsHead ==
  ASSUME NEW c, NEW st, NEW f, Chains(c, st, f), NEW g \in ListHead, f[g] = <<>>
  PROVE  Chains([c EXCEPT ![g] = NULL], st \ {g}, f)
<1> DEFINE d == [c EXCEPT ![g] = NULL]
<1>1. f \in Contents /\ Apart(f) /\ st \subseteq ListHead /\ c \in Cells
  BY DEF Chains
<1>2. d \in Cells /\ d[g] = NULL /\ \A y \in Place \ {g} : d[y] = c[y]
  BY <1>1 DEF Cells, Place
<1> HIDE DEF d
<1>3. Len(f[g]) = 0 /\ At(g, f[g], 0) = g
  BY EmptySeq DEF At
<1>4. ASSUME NEW h \in ListHead \ (st \ {g}) PROVE Leads(d, h, f[h])
  <2>1. CASE h = g
    BY <2>1, <1>2, <1>3 DEF Leads
  <2>2. CASE h # g
    <3>1. ASSUME NEW k \in 0 .. Len(f[h]) PROVE d[At(h, f[h], k)] = c[At(h, f[h], k)]
      <4>1. 0 \in 0 .. Len(f[g]) /\ k \in Int
        BY <1>3
      <4>2. At(h, f[h], k) # g
        BY <2>2, <4>1, <1>1, <1>3, PlacesApart
      <4> QED
        BY <4>1, <4>2, <1>1, <1>2, PlacesApart
    <3>2. Leads(c, h, f[h])
      BY <2>2 DEF Chains
    <3> QED
      BY <3>1, <3>2, LeadsSame
  <2> QED
    BY <2>1, <2>2
<1>5. \A h \in st \ {g} : f[h] = <<>>
  BY DEF Chains
<1> QED
  BY <1>1, <1>2, <1>4, <1>5 DEF Chains, d

(* A head whose end may be relied on has it at its last cell.              *)
Sound(c, e, v, st, f) ==
  /\ Chains(c, st, f)
  /\ e \in [ListHead -> Place] /\ v \subseteq ListHead
  /\ \A h \in v \ st : e[h] = At(h, f[h], Len(f[h]))

(* There are no other lists in the cells than those of their chains.       *)
CellItems(c, st) == [h \in ListHead |-> IF h \in st THEN <<>> ELSE CellWalk(c, h)]

LEMMA CellItemsAre ==
  ASSUME NEW c, NEW st, NEW f, Chains(c, st, f)
  PROVE  CellItems(c, st) = f
<1>1. ASSUME NEW h \in ListHead \ st PROVE CellWalk(c, h) = f[h]
  <2>1. f[h] \in Seq(Entry) /\ Leads(c, h, f[h])
    BY DEF Chains, Contents
  <2>2. \A i, j \in 1 .. Len(f[h]) : f[h][i] = f[h][j] => i = j
    BY DEF Chains, Apart
  <2> QED
    BY <2>1, <2>2, CellWalkIs
<1>2. \A h \in ListHead : CellItems(c, st)[h] = f[h]
  BY <1>1 DEF CellItems, Chains
<1>3. f = [h \in ListHead |-> f[h]]
  BY DEF Chains, Contents
<1> QED
  BY <1>2, <1>3 DEF CellItems

SinglyItems == [h \in ListHead |-> IF h \in left THEN <<>> ELSE S!Walk(h)]
SinglyInv == Sound(cell, end, valid, left, SinglyItems)

LEMMA SinglyItemsAre ==
  SinglyItems = CellItems(cell, left) /\ SinglyItems' = CellItems(cell', left')
  BY CellWalks DEF SinglyItems, CellItems

(* What is not linked is on no list.                                       *)
LEMMA UnlinkedOff ==
  ASSUME NEW f, Chains(cell, left, f), NEW x, x \notin S!Linked
  PROVE  ~On(f, x)
<1> SUFFICES ASSUME NEW h \in ListHead, NEW i \in 1 .. Len(f[h]), f[h][i] = x
             PROVE  FALSE
  BY DEF On
<1>1. h \in ListHead \ left
  BY EmptySeq DEF Chains
<1>2. S!Walk(h) = f[h]
  <2>1. CellItems(cell, left)[h] = f[h]
    BY CellItemsAre
  <2> QED
    BY <2>1, <1>1, CellWalks DEF CellItems
<1>3. f[h] \in Seq(Entry)
  BY DEF Chains, Contents
<1>4. x \in S!Range(f[h])
  BY <1>3, LenProperties DEF S!Range
<1>5. h \in S!Live
  BY <1>1 DEF S!Live
<1> QED
  BY <1>2, <1>4, <1>5 DEF S!Linked

(* The cells at the ends of a list.                                        *)
LEMMA CellsOf ==
  ASSUME NEW c, NEW st, NEW f, Chains(c, st, f), NEW h \in ListHead \ st
  PROVE  /\ f[h] \in Seq(Entry) /\ Len(f[h]) \in Nat
         /\ c[h] = IF f[h] = <<>> THEN NULL ELSE f[h][1]
         /\ c[h] = NULL <=> f[h] = <<>>
         /\ c[At(h, f[h], Len(f[h]))] = NULL
<1>1. f[h] \in Seq(Entry) /\ Leads(c, h, f[h])
  BY DEF Chains, Contents
<1>2. PICK L \in Nat : L = Len(f[h]) /\ (L = 0 <=> f[h] = <<>>)
  BY <1>1, LenProperties, EmptySeq
<1>3. At(h, f[h], 0) = h /\ 0 \in 0 .. L /\ L \in 0 .. L
  BY <1>2 DEF At
<1>4. c[h] = IF f[h] = <<>> THEN NULL ELSE f[h][1]
  BY <1>1, <1>2, <1>3 DEF Leads
<1>5. c[At(h, f[h], Len(f[h]))] = NULL
  BY <1>1, <1>2, <1>3 DEF Leads
<1>6. f[h] # <<>> => f[h][1] # NULL
  <2>1. \A i \in 1 .. L : f[h][i] \in Entry
    BY <1>1, <1>2, ElementOfSeq
  <2> QED
    BY <2>1, <1>2, ListAssumption
<1> QED
  BY <1>1, <1>2, <1>4, <1>5, <1>6

(* A single entry that is on no list.                                      *)
LEMMA FreshOne ==
  ASSUME NEW f, NEW x \in Entry, ~On(f, x)
  PROVE  /\ Fresh(f, <<x>>) /\ Members(<<x>>) = {x}
         /\ Len(<<x>>) = 1 /\ <<x>>[1] = x
<1>1. <<x>> \in Seq(Entry) /\ Len(<<x>>) = 1 /\ <<x>>[1] = x /\ <<x>> # <<>>
  OBVIOUS
<1> QED
  BY <1>1 DEF Fresh, Members

(* The last place after s was put behind position i.                       *)
LEMMA LastInto ==
  ASSUME NEW f \in Contents, NEW g \in ListHead, NEW s \in Seq(Entry), s # <<>>,
         NEW i \in 0 .. Len(f[g])
  PROVE  LET u == Into(f[g], i, s)
         IN  At(g, u, Len(u)) = IF i = Len(f[g]) THEN s[Len(s)] ELSE At(g, f[g], Len(f[g]))
<1> DEFINE t == f[g]  u == Into(f[g], i, s)
<1>1. t \in Seq(Entry)
  BY DEF Contents
<1>2. PICK L \in Nat, K \in Nat : L = Len(t) /\ K = Len(s) /\ K # 0
  BY <1>1, LenProperties, EmptySeq
<1>3. /\ Len(u) = L + K
      /\ \A k \in 1 .. L + K : u[k] = IF k <= i THEN t[k]
                                      ELSE IF k <= i + K THEN s[k - i] ELSE t[k - K]
  <2>1. /\ u \in Seq(Entry) /\ Len(u) = Len(t) + Len(s)
        /\ \A k \in 1 .. Len(t) + Len(s) : u[k] =
             IF k <= i THEN t[k]
             ELSE IF k <= i + Len(s) THEN s[k - i] ELSE t[k - Len(s)]
    BY <1>1, IntoIs
  <2> HIDE DEF t, u
  <2> QED
    BY <2>1, <1>2
<1>4. i \in 0 .. L
  BY <1>2
<1> HIDE DEF t, u
<1>5. PICK M \in Nat : M = L + K /\ M # 0 /\ ~(M <= i) /\ (M <= i + K <=> i = L) /\ M - K = L
  <2>1. /\ L + K \in Nat /\ L + K # 0 /\ ~(L + K <= i) /\ (L + K <= i + K <=> i = L)
        /\ (L + K) - K = L
    BY <1>2, <1>4
  <2> QED
    BY <2>1
<1>6. At(g, u, Len(u)) = u[M] /\ u[M] = IF i = L THEN s[M - i] ELSE t[L]
  BY <1>3, <1>5 DEF At
<1>7. CASE i = L
  <2>1. M - i = K
    BY <1>5, <1>7
  <2> QED
    BY <2>1, <1>2, <1>6, <1>7 DEF t, u
<1>8. CASE i # L
  <2>1. At(g, t, L) = t[L]
    BY <1>2, <1>4, <1>8 DEF At
  <2> QED
    BY <2>1, <1>2, <1>6, <1>8 DEF t, u
<1> QED
  BY <1>7, <1>8

-----------------------------------------------------------------------------
(* The steps of the singly linked lists                                    *)

(* What an operation does to the sequences.                                *)
SinglyDone(f, f2) ==
  \/ f2 = f
  \/ \E x \in Entry : Inserted(f, f2, x)
  \/ \E h \in ListHead : f[h] # <<>> /\ f2 = [f EXCEPT ![h] = OutOf(f[h], 1)]
  \/ SplicedTo(f, f2)

SinglyStep(f) ==
  \E f2 : Sound(cell', end', valid', left', f2) /\ SinglyDone(f, f2)

(* singly_list_push: the entry comes behind the last cell.                 *)
LEMMA PushStep ==
  ASSUME NEW f, Sound(cell, end, valid, left, f),
         NEW x \in Entry, NEW h \in ListHead, S!Push(x, h)
  PROVE  SinglyStep(f)
<1> DEFINE L == Len(f[h])  f2 == [f EXCEPT ![h] = Into(f[h], L, <<x>>)]
<1>1. /\ h \in valid \ left /\ x \notin S!Linked
      /\ cell' = [cell EXCEPT ![end[h]] = x, ![x] = NULL]
      /\ end' = [end EXCEPT ![h] = x]
      /\ valid' = valid /\ left' = left
  BY DEF S!Push, S!MayAppend
<1>2. /\ Chains(cell, left, f) /\ f \in Contents /\ Apart(f) /\ cell \in Cells
      /\ end \in [ListHead -> Place] /\ valid \subseteq ListHead
      /\ \A g \in valid \ left : end[g] = At(g, f[g], Len(f[g]))
  BY DEF Sound, Chains
<1>3. ~On(f, x)
  BY <1>1, <1>2, UnlinkedOff
<1>4. Fresh(f, <<x>>) /\ Members(<<x>>) = {x} /\ Len(<<x>>) = 1 /\ <<x>>[1] = x
  BY <1>3, FreshOne
<1>5. h \in ListHead \ left /\ L \in Nat /\ L \in 0 .. L
  BY <1>1, <1>2, CellsOf
<1>6. end[h] = At(h, f[h], L) /\ end[h] \in Place /\ end[h] # x /\ x \in Place
  BY <1>1, <1>2, <1>3, OffIsNowhere DEF Place
<1>7. /\ cell' \in Cells /\ cell'[end[h]] = x /\ cell'[x] = NULL
      /\ \A y \in Place \ {x} : y # end[h] => cell'[y] = cell[y]
  BY <1>1, <1>2, <1>6 DEF Cells
<1>8. Chains(cell', left, f2)
  <2>1. ChainedIn(cell', h, f[h], L, <<x>>)
    BY <1>4, <1>6, <1>7 DEF ChainedIn
  <2>2. OnlyAt(cell, cell', At(h, f[h], L), <<x>>)
    BY <1>4, <1>6, <1>7 DEF OnlyAt
  <2> HIDE DEF L
  <2> QED
    BY <2>1, <2>2, <1>2, <1>4, <1>5, <1>7, ChainsInto DEF L
<1>9. f2[h] = Into(f[h], L, <<x>>) /\ \A g \in ListHead \ {h} : f2[g] = f[g]
  BY <1>2 DEF Contents
<1>10. At(h, f2[h], Len(f2[h])) = x
  <2> DEFINE u == Into(f[h], L, <<x>>)
  <2>1. <<x>> \in Seq(Entry) /\ <<x>> # <<>>
    OBVIOUS
  <2>2. At(h, u, Len(u)) = <<x>>[Len(<<x>>)]
    BY <2>1, <1>2, <1>5, LastInto
  <2> HIDE DEF u
  <2>3. f2[h] = u
    BY <1>9 DEF u
  <2> HIDE DEF f2
  <2> QED
    BY <2>2, <2>3, <1>4
<1> HIDE DEF f2
<1>11. \A g \in valid \ left : end'[g] = At(g, f2[g], Len(f2[g]))
  BY <1>1, <1>2, <1>9, <1>10
<1>12. end' \in [ListHead -> Place]
  BY <1>1, <1>2, <1>6
<1>13. Sound(cell', end', valid', left', f2)
  BY <1>1, <1>2, <1>8, <1>11, <1>12 DEF Sound
<1>14. Inserted(f, f2, x)
  BY <1>3, <1>5 DEF Inserted, f2
<1> QED
  BY <1>13, <1>14 DEF SinglyStep, SinglyDone

(* singly_list_unshift: behind the head; only an empty list moves its end. *)
LEMMA UnshiftStep ==
  ASSUME NEW f, Sound(cell, end, valid, left, f),
         NEW x \in Entry, NEW h \in ListHead, S!Unshift(x, h)
  PROVE  SinglyStep(f)
<1> DEFINE L == Len(f[h])  f2 == [f EXCEPT ![h] = Into(f[h], 0, <<x>>)]
<1>1. /\ h \in ListHead \ left /\ x \notin S!Linked
      /\ cell' = [cell EXCEPT ![x] = cell[h], ![h] = x]
      /\ end' = IF cell[h] = NULL THEN [end EXCEPT ![h] = x] ELSE end
      /\ valid' = IF cell[h] = NULL THEN valid \cup {h} ELSE valid
      /\ left' = left
  BY DEF S!Unshift, S!Live
<1>2. /\ Chains(cell, left, f) /\ f \in Contents /\ Apart(f) /\ cell \in Cells
      /\ end \in [ListHead -> Place] /\ valid \subseteq ListHead
      /\ \A g \in valid \ left : end[g] = At(g, f[g], Len(f[g]))
  BY DEF Sound, Chains
<1>3. ~On(f, x)
  BY <1>1, <1>2, UnlinkedOff
<1>4. Fresh(f, <<x>>) /\ Members(<<x>>) = {x} /\ Len(<<x>>) = 1 /\ <<x>>[1] = x
  BY <1>3, FreshOne
<1>5. /\ f[h] \in Seq(Entry) /\ L \in Nat /\ 0 \in 0 .. L
      /\ cell[h] = IF f[h] = <<>> THEN NULL ELSE f[h][1]
      /\ cell[h] = NULL <=> f[h] = <<>>
  BY <1>1, <1>2, CellsOf
<1>6. (f[h] = <<>> <=> 0 = L) /\ (L # 0 => At(h, f[h], L) = f[h][L])
  <2>1. f[h] = <<>> <=> 0 = L
    BY <1>5, EmptySeq
  <2>2. L # 0 => L \in 1 .. L
    BY <1>5
  <2> QED
    BY <2>1, <2>2 DEF At
<1>7. At(h, f[h], 0) = h /\ h \in Place /\ x \in Place /\ x # h
  BY ListAssumption DEF At, Place
<1>8. /\ cell' \in Cells /\ cell'[h] = x /\ cell'[x] = cell[h]
      /\ \A y \in Place \ {x} : y # h => cell'[y] = cell[y]
  BY <1>1, <1>2, <1>7 DEF Cells
<1>9. cell'[x] = IF 0 = L THEN NULL ELSE f[h][0 + 1]
  BY <1>5, <1>6, <1>8
<1>10. Chains(cell', left, f2)
  <2> DEFINE s == <<x>>
  <2>1. PICK i \in 0 .. Len(f[h]) : i = 0
    BY <1>5
  <2>2. ChainedIn(cell', h, f[h], i, s)
    BY <2>1, <1>4, <1>7, <1>8, <1>9 DEF ChainedIn
  <2>3. OnlyAt(cell, cell', At(h, f[h], i), s)
    BY <2>1, <1>4, <1>7, <1>8 DEF OnlyAt
  <2>4. Fresh(f, s) /\ h \in ListHead \ left /\ Chains(cell, left, f) /\ cell' \in Cells
    BY <1>1, <1>2, <1>4, <1>8
  <2> HIDE DEF s
  <2>5. Chains(cell', left, [f EXCEPT ![h] = Into(f[h], i, s)])
    BY <2>2, <2>3, <2>4, ChainsInto
  <2> QED
    BY <2>1, <2>5 DEF s
<1>11. f2[h] = Into(f[h], 0, <<x>>) /\ \A g \in ListHead \ {h} : f2[g] = f[g]
  BY <1>2 DEF Contents
<1>12. At(h, f2[h], Len(f2[h])) = IF 0 = L THEN x ELSE At(h, f[h], L)
  <2> DEFINE u == Into(f[h], 0, <<x>>)
  <2>1. <<x>> \in Seq(Entry) /\ <<x>> # <<>>
    OBVIOUS
  <2>2. At(h, u, Len(u)) = IF 0 = L THEN <<x>>[Len(<<x>>)] ELSE At(h, f[h], L)
    BY <2>1, <1>2, <1>5, LastInto
  <2> HIDE DEF u
  <2>3. f2[h] = u
    BY <1>11 DEF u
  <2> HIDE DEF f2
  <2> QED
    BY <2>2, <2>3, <1>4
<1> HIDE DEF f2, L
<1>13. \A g \in valid' \ left : end'[g] = At(g, f2[g], Len(f2[g]))
  <2>1. CASE cell[h] = NULL
    <3>1. 0 = L /\ valid' = valid \cup {h} /\ end' = [end EXCEPT ![h] = x]
      BY <2>1, <1>1, <1>5, <1>6
    <3> QED
      BY <3>1, <1>2, <1>11, <1>12
  <2>2. CASE cell[h] # NULL
    <3>1. 0 # L /\ valid' = valid /\ end' = end
      BY <2>2, <1>1, <1>5, <1>6
    <3> QED
      BY <3>1, <1>2, <1>11, <1>12 DEF L
  <2> QED
    BY <2>1, <2>2
<1>14. end' \in [ListHead -> Place] /\ valid' \subseteq ListHead
  BY <1>1, <1>2, <1>7
<1>15. Sound(cell', end', valid', left', f2)
  BY <1>1, <1>10, <1>13, <1>14 DEF Sound
<1>16. Inserted(f, f2, x)
  BY <1>3, <1>5 DEF Inserted, f2, L
<1> QED
  BY <1>15, <1>16 DEF SinglyStep, SinglyDone

(* singly_list_shift: the first entry goes, and the end is not to be used. *)
LEMMA ShiftStep ==
  ASSUME NEW f, Sound(cell, end, valid, left, f), NEW h \in ListHead, S!Shift(h)
  PROVE  SinglyStep(f)
<1> DEFINE f2 == [f EXCEPT ![h] = OutOf(f[h], 1)]
<1>1. /\ h \in ListHead \ left /\ cell[h] # NULL
      /\ cell' = [cell EXCEPT ![h] = cell[cell[h]]]
      /\ end' = (IF cell'[h] # NULL THEN [end EXCEPT ![h] = h] ELSE end)
      /\ valid' = valid \ {h} /\ left' = left
  BY DEF S!Shift, S!Live
<1>2. /\ Chains(cell, left, f) /\ f \in Contents
      /\ end \in [ListHead -> Place] /\ valid \subseteq ListHead
      /\ \A g \in valid \ left : end[g] = At(g, f[g], Len(f[g]))
  BY DEF Sound, Chains
<1>3. f[h] # <<>>
  BY <1>1, <1>2, CellsOf
<1>4. Chains(cell', left, f2)
  BY <1>1, <1>2, <1>3, ChainsOutOf
<1>5. \A g \in ListHead \ {h} : f2[g] = f[g]
  BY <1>2 DEF Contents
<1> HIDE DEF f2
<1>6. end' \in [ListHead -> Place] /\ \A g \in ListHead \ {h} : end'[g] = end[g]
  BY <1>1, <1>2 DEF Place
<1>7. \A g \in valid' \ left : end'[g] = At(g, f2[g], Len(f2[g]))
  BY <1>1, <1>2, <1>5, <1>6
<1>8. Sound(cell', end', valid', left', f2)
  BY <1>1, <1>2, <1>4, <1>6, <1>7 DEF Sound
<1> QED
  BY <1>3, <1>8 DEF SinglyStep, SinglyDone, f2

JoinedItems(f, list, h) ==
  [[f EXCEPT ![h] = Into(f[h], Len(f[h]), f[list])] EXCEPT ![list] = <<>>]

(* singly__list_splice: the last cell of h leads to the entries of list.   *)
LEMMA ChainsSplice ==
  ASSUME NEW f, Sound(cell, end, valid, left, f), NEW list \in ListHead \ left,
         NEW h \in valid \ left, list # h, cell[list] # NULL
  PROVE  LET f2 == JoinedItems(f, list, h)
         IN  /\ Chains(S!Spliced(list, h), left \cup {list}, f2)
             /\ SplicedTo(f, f2)
             /\ f2[list] = <<>> /\ \A g \in ListHead \ {list, h} : f2[g] = f[g]
<1> DEFINE s == f[list]
           L == Len(f[h])
           d == S!Spliced(list, h)
           f1 == [f EXCEPT ![list] = <<>>]
           f2 == [f1 EXCEPT ![h] = Into(f1[h], L, s)]
<1>1. /\ Chains(cell, left, f) /\ f \in Contents /\ Apart(f) /\ cell \in Cells
      /\ left \subseteq ListHead /\ valid \subseteq ListHead
      /\ end[h] = At(h, f[h], L)
  BY DEF Sound, Chains
<1>2. h \in ListHead /\ s # <<>> /\ cell[list] = s[1] /\ s \in Seq(Entry)
  BY <1>1, CellsOf
<1>3. Leads(cell, list, s)
  BY <1>1 DEF Chains
<1> HIDE DEF s
<1>4. PICK K \in Nat : K = Len(s) /\ K # 0
  BY <1>2, LenProperties, EmptySeq
<1>5. /\ \A k \in 1 .. K : cell[s[k]] = (IF k = K THEN NULL ELSE s[k + 1]) /\ s[k] \in Entry
      /\ 1 \in 1 .. K /\ K \in 1 .. K
  <2>1. \A k \in 1 .. K : k \in 0 .. Len(s) /\ At(list, s, k) = s[k] /\ s[k] \in Entry
    BY <1>2, <1>4, ElementOfSeq DEF At
  <2>2. \A k \in 1 .. K : cell[s[k]] = IF k = K THEN NULL ELSE s[k + 1]
    BY <2>1, <1>3, <1>4 DEF Leads
  <2> QED
    BY <2>1, <2>2, <1>4
<1>6. /\ f1 \in Contents /\ Apart(f1)
      /\ f1[list] = <<>> /\ \A g \in ListHead \ {list} : f1[g] = f[g]
      /\ Fresh(f1, s)
  BY <1>1, <1>2, ApartLoses DEF s
<1> HIDE DEF f1
<1>7. Chains(cell, left \cup {list}, f1)
  <2>1. \A g \in ListHead \ (left \cup {list}) : Leads(cell, g, f1[g])
    BY <1>1, <1>6 DEF Chains
  <2>2. \A g \in left \cup {list} : f1[g] = <<>>
    BY <1>1, <1>6 DEF Chains
  <2> QED
    BY <2>1, <2>2, <1>1, <1>6 DEF Chains
<1>8. f1[h] = f[h] /\ h \in ListHead \ (left \cup {list}) /\ L \in Nat /\ L \in 0 .. L
  BY <1>1, <1>2, <1>6, CellsOf
<1>9. end[h] \in Place /\ \A k \in 1 .. K : s[k] # end[h] /\ s[k] \in Place
  <2>1. \A k \in 1 .. K : s[k] \in Entry /\ ~On(f1, s[k])
    BY <1>4, <1>5, <1>6 DEF Fresh
  <2>2. \A k \in 1 .. K : At(h, f1[h], L) # s[k]
    <3> SUFFICES ASSUME NEW k \in 1 .. K PROVE At(h, f1[h], L) # s[k]
      OBVIOUS
    <3>1. s[k] \in Entry /\ ~On(f1, s[k])
      BY <2>1
    <3>2. f1 \in Contents /\ h \in ListHead
      BY <1>2, <1>6
    <3> HIDE DEF L
    <3> QED
      BY <3>1, <3>2, OffIsNowhere
  <2>3. \A k \in 1 .. K : s[k] # end[h]
    BY <2>2, <1>1, <1>8
  <2>4. end[h] \in Place
    BY DEF Sound
  <2>5. \A k \in 1 .. K : s[k] \in Place
    BY <2>1 DEF Place
  <2> QED
    BY <2>3, <2>4, <2>5
<1>10. /\ d \in Cells /\ d[end[h]] = s[1]
       /\ \A y \in Place : y # end[h] => d[y] = cell[y]
  <2>1. d = [cell EXCEPT ![end[h]] = s[1]]
    BY <1>2 DEF S!Spliced
  <2> QED
    BY <2>1, <1>1, <1>5, <1>9 DEF Cells
<1> HIDE DEF d
<1>11. \A k \in 1 .. K : d[s[k]] = IF k = K THEN NULL ELSE s[k + 1]
  BY <1>5, <1>9, <1>10
<1>12. \A k \in 1 .. Len(s) - 1 : d[s[k]] = s[k + 1]
  <2>1. \A k \in 1 .. Len(s) - 1 : k \in 1 .. K /\ k # K
    BY <1>4
  <2> QED
    BY <2>1, <1>11
<1>13. d[s[Len(s)]] = NULL
  BY <1>4, <1>5, <1>11
<1>14. Chains(d, left \cup {list}, f2)
  <2>1. L = Len(f1[h])
    BY <1>8
  <2>2. ChainedIn(d, h, f1[h], L, s)
    BY <2>1, <1>1, <1>8, <1>10, <1>12, <1>13 DEF ChainedIn
  <2>3. OnlyAt(cell, d, At(h, f1[h], L), s)
    BY <1>1, <1>8, <1>10 DEF OnlyAt
  <2>4. h \in ListHead \ (left \cup {list}) /\ L \in 0 .. Len(f1[h])
    BY <2>1, <1>8
  <2> HIDE DEF L
  <2> QED
    BY <2>2, <2>3, <2>4, <1>6, <1>7, <1>10, ChainsInto
<1>15. f2 = JoinedItems(f, list, h)
  BY <1>1, <1>2, <1>8 DEF f1, s, Contents, JoinedItems
<1>16. f2[list] = <<>> /\ \A g \in ListHead \ {list, h} : f2[g] = f[g]
  BY <1>6, <1>8 DEF Contents
<1> HIDE DEF f2
<1>17. SplicedTo(f, f2)
  BY <1>2, <1>8, <1>15 DEF SplicedTo, JoinedItems, L
<1> QED
  BY <1>14, <1>15, <1>16, <1>17 DEF d

(* singly_list_splice leaves the nodes to both heads, splice_init to one.  *)
LEMMA SinglySpliceStep ==
  ASSUME NEW f, Sound(cell, end, valid, left, f), NEW list \in ListHead, NEW h \in ListHead,
         S!Splice(list, h) \/ S!SpliceInit(list, h)
  PROVE  SinglyStep(f)
<1> DEFINE f2 == JoinedItems(f, list, h)
<1>1. list # h /\ list \in ListHead \ left /\ cell[list] # NULL /\ h \in valid \ left
  BY DEF S!Splice, S!SpliceInit, S!Live, S!MayAppend
<1>2. /\ Chains(S!Spliced(list, h), left \cup {list}, f2) /\ SplicedTo(f, f2)
      /\ f2[list] = <<>> /\ \A g \in ListHead \ {list, h} : f2[g] = f[g]
  BY <1>1, ChainsSplice
<1>3. /\ end \in [ListHead -> Place] /\ valid \subseteq ListHead /\ left \subseteq ListHead
      /\ \A g \in valid \ left : end[g] = At(g, f[g], Len(f[g]))
  BY DEF Sound, Chains
<1> HIDE DEF f2
<1>4. CASE S!Splice(list, h)
  <2>1. /\ cell' = S!Spliced(list, h) /\ valid' = valid \ {h}
        /\ left' = left \cup {list} /\ end' = end
    BY <1>4 DEF S!Splice
  <2>2. \A g \in valid' \ left' : end'[g] = At(g, f2[g], Len(f2[g]))
    BY <2>1, <1>2, <1>3
  <2>3. Sound(cell', end', valid', left', f2)
    BY <2>1, <2>2, <1>2, <1>3 DEF Sound
  <2> QED
    BY <2>3, <1>2 DEF SinglyStep, SinglyDone
<1>5. CASE S!SpliceInit(list, h)
  <2>1. /\ cell' = [S!Spliced(list, h) EXCEPT ![list] = NULL]
        /\ end' = [end EXCEPT ![list] = list]
        /\ valid' = (valid \ {h}) \cup {list} /\ left' = left
    BY <1>5 DEF S!SpliceInit
  <2>2. (left \cup {list}) \ {list} = left
    BY <1>1
  <2>3. Chains([S!Spliced(list, h) EXCEPT ![list] = NULL], (left \cup {list}) \ {list}, f2)
    BY <1>2, ChainsHead
  <2>4. Chains(cell', left', f2)
    BY <2>1, <2>2, <2>3
  <2>5. At(list, f2[list], Len(f2[list])) = list
    BY <1>2, EmptySeq DEF At
  <2>6. \A g \in valid' \ left' : end'[g] = At(g, f2[g], Len(f2[g]))
    BY <2>1, <2>5, <1>2, <1>3
  <2>7. end' \in [ListHead -> Place] /\ valid' \subseteq ListHead
    BY <2>1, <1>3 DEF Place
  <2>8. Sound(cell', end', valid', left', f2)
    BY <2>4, <2>6, <2>7 DEF Sound
  <2> QED
    BY <2>8, <1>2 DEF SinglyStep, SinglyDone
<1> QED
  BY <1>4, <1>5

(* INIT_SINGLY_LIST_HEAD on a head without entries of its own.             *)
LEMMA SinglyReinitStep ==
  ASSUME NEW f, Sound(cell, end, valid, left, f), NEW h \in ListHead, S!Reinit(h)
  PROVE  SinglyStep(f)
<1>1. /\ cell[h] = NULL \/ h \in left
      /\ cell' = [cell EXCEPT ![h] = NULL]
      /\ end' = [end EXCEPT ![h] = h]
      /\ valid' = valid \cup {h} /\ left' = left \ {h}
  BY DEF S!Reinit
<1>2. /\ Chains(cell, left, f)
      /\ end \in [ListHead -> Place] /\ valid \subseteq ListHead
      /\ \A g \in valid \ left : end[g] = At(g, f[g], Len(f[g]))
  BY DEF Sound
<1>3. f[h] = <<>>
  <2>1. CASE h \in left
    BY <2>1, <1>2 DEF Chains
  <2>2. CASE h \notin left
    BY <2>2, <1>1, <1>2, CellsOf
  <2> QED
    BY <2>1, <2>2
<1>4. Chains(cell', left', f)
  BY <1>1, <1>2, <1>3, ChainsHead
<1>5. At(h, f[h], Len(f[h])) = h
  BY <1>3, EmptySeq DEF At
<1>6. \A g \in valid' \ left' : end'[g] = At(g, f[g], Len(f[g]))
  BY <1>1, <1>2, <1>5
<1>7. end' \in [ListHead -> Place] /\ valid' \subseteq ListHead
  BY <1>1, <1>2 DEF Place
<1>8. Sound(cell', end', valid', left', f)
  BY <1>4, <1>6, <1>7 DEF Sound
<1> QED
  BY <1>8 DEF SinglyStep, SinglyDone

(* What is done to the sequences is a step of Deques.                      *)
LEMMA SinglyDeques ==
  ASSUME SinglyItems \in Contents, SinglyDone(SinglyItems, SinglyItems')
  PROVE  S!Lists!Next \/ UNCHANGED SinglyItems
<1>1. \A h \in ListHead : DOMAIN SinglyItems[h] = 1 .. Len(SinglyItems[h])
  BY LenProperties DEF Contents
<1>2. ASSUME NEW x \in Entry, Inserted(SinglyItems, SinglyItems', x) PROVE S!Lists!Next
  <2>1. ~On(SinglyItems, x)
    BY <1>2 DEF Inserted
  <2>2. PICK h \in ListHead : \E i \in 0 .. Len(SinglyItems[h]) :
          SinglyItems' = [SinglyItems EXCEPT ![h] = Into(SinglyItems[h], i, <<x>>)]
    BY <1>2 DEF Inserted
  <2>3. PICK i \in 0 .. Len(SinglyItems[h]) :
          SinglyItems' = [SinglyItems EXCEPT ![h] = Into(SinglyItems[h], i, <<x>>)]
    BY <2>2
  <2>4. SinglyItems' = S!Lists!Put(SinglyItems, h, i, <<x>>)
    BY <2>3 DEF S!Lists!Put, Into, Contents
  <2>5. S!Lists!On(x) <=> \E g \in ListHead : \E j \in DOMAIN SinglyItems[g] : SinglyItems[g][j] = x
    BY DEF S!Lists!On, SinglyItems
  <2>6. ~S!Lists!On(x)
    BY <2>1, <2>5, <1>1 DEF On
  <2>7. S!Lists!Insert(h, i, x)
    BY <2>4, <2>6 DEF S!Lists!Insert, SinglyItems
  <2>8. \E j \in 0 .. Len(SinglyItems[h]), y \in Entry : S!Lists!Insert(h, j, y)
    BY <2>7
  <2> QED
    BY <2>8 DEF S!Lists!Next, SinglyItems
<1>3. ASSUME NEW h \in ListHead, SinglyItems[h] # <<>>,
             SinglyItems' = [SinglyItems EXCEPT ![h] = OutOf(SinglyItems[h], 1)]
      PROVE  S!Lists!Next
  <2>1. SinglyItems' = S!Lists!Take(SinglyItems, h, 1)
    BY <1>3 DEF S!Lists!Take, OutOf, Contents
  <2>2. 1 \in DOMAIN SinglyItems[h]
    <3>1. SinglyItems[h] \in Seq(Entry)
      BY DEF Contents
    <3>2. Len(SinglyItems[h]) \in Nat \ {0}
      BY <3>1, <1>3, LenProperties, EmptySeq
    <3> QED
      BY <3>2, <1>1
  <2>3. S!Lists!Delete(h, 1)
    BY <2>1 DEF S!Lists!Delete, SinglyItems
  <2>4. \E j \in DOMAIN SinglyItems[h] : S!Lists!Delete(h, j)
    BY <2>2, <2>3
  <2> QED
    BY <2>4 DEF S!Lists!Next, SinglyItems
<1>4. CASE SplicedTo(SinglyItems, SinglyItems')
  <2>1. PICK h \in ListHead, g \in ListHead : \E i \in 0 .. Len(SinglyItems[g]) :
          h # g /\ SinglyItems' = [[SinglyItems EXCEPT
            ![g] = Into(SinglyItems[g], i, SinglyItems[h])] EXCEPT ![h] = <<>>]
    BY <1>4 DEF SplicedTo
  <2>2. PICK i \in 0 .. Len(SinglyItems[g]) :
          h # g /\ SinglyItems' = [[SinglyItems EXCEPT
            ![g] = Into(SinglyItems[g], i, SinglyItems[h])] EXCEPT ![h] = <<>>]
    BY <2>1
  <2>3. S!Lists!Put(SinglyItems, g, i, SinglyItems[h])
          = [SinglyItems EXCEPT ![g] = Into(SinglyItems[g], i, SinglyItems[h])]
    BY DEF S!Lists!Put, Into, Contents
  <2>4. S!Lists!Splice(h, g, i)
    BY <2>2, <2>3 DEF S!Lists!Splice, SinglyItems
  <2>5. \E b \in ListHead : \E c \in 0 .. Len(SinglyItems[b]) : S!Lists!Splice(h, b, c)
    BY <2>4
  <2> QED
    BY <2>5 DEF S!Lists!Next, SinglyItems
<1> QED
  BY <1>2, <1>3, <1>4 DEF SinglyDone

LEMMA SinglyNext ==
  ASSUME SinglyInv, S!Next
  PROVE  SinglyInv' /\ (S!Lists!Next \/ UNCHANGED SinglyItems)
<1>1. Sound(cell, end, valid, left, SinglyItems)
  BY DEF SinglyInv
<1>2. SinglyStep(SinglyItems)
  <2>1. ASSUME NEW x \in Entry, NEW h \in ListHead, S!Push(x, h) \/ S!Unshift(x, h)
        PROVE  SinglyStep(SinglyItems)
    BY <1>1, <2>1, PushStep, UnshiftStep
  <2>2. ASSUME NEW h \in ListHead, S!Shift(h) \/ S!Reinit(h)
        PROVE  SinglyStep(SinglyItems)
    BY <1>1, <2>2, ShiftStep, SinglyReinitStep
  <2>3. ASSUME NEW list \in ListHead, NEW h \in ListHead, S!Splice(list, h) \/ S!SpliceInit(list, h)
        PROVE  SinglyStep(SinglyItems)
    BY <1>1, <2>3, SinglySpliceStep
  <2> QED
    BY <2>1, <2>2, <2>3 DEF S!Next
<1>3. PICK f2 : Sound(cell', end', valid', left', f2) /\ SinglyDone(SinglyItems, f2)
  BY <1>2 DEF SinglyStep
<1>4. SinglyItems' = f2
  BY <1>3, CellItemsAre, SinglyItemsAre DEF Sound
<1>5. SinglyInv'
  BY <1>3, <1>4 DEF SinglyInv
<1>6. SinglyItems \in Contents
  BY <1>1 DEF Sound, Chains
<1> QED
  BY <1>3, <1>4, <1>5, <1>6, SinglyDeques

LEMMA SinglyInit ==
  ASSUME S!Init
  PROVE  SinglyInv /\ SinglyItems = [h \in ListHead |-> <<>>]
<1> DEFINE none == [h \in ListHead |-> <<>>]
<1>1. /\ cell = [x \in Place |-> NULL] /\ end = [h \in ListHead |-> h]
      /\ valid = ListHead /\ left = {}
  BY DEF S!Init, Place
<1>2. none \in Contents /\ \A h \in ListHead : none[h] = <<>> /\ Len(none[h]) = 0
  BY DEF Contents
<1> HIDE DEF none
<1>3. Apart(none)
  BY <1>2 DEF Apart
<1>4. \A h \in ListHead : At(h, none[h], 0) = h
  BY <1>2 DEF At
<1>5. \A h \in ListHead : Leads(cell, h, none[h])
  BY <1>1, <1>2, <1>4 DEF Leads, Place
<1>6. Chains(cell, left, none)
  BY <1>1, <1>2, <1>3, <1>5 DEF Chains, Cells
<1>7. Sound(cell, end, valid, left, none)
  BY <1>1, <1>2, <1>4, <1>6 DEF Sound, Place
<1>8. SinglyItems = none
  BY <1>6, CellItemsAre, SinglyItemsAre
<1> QED
  BY <1>7, <1>8 DEF SinglyInv, none

LEMMA SinglyStutter ==
  ASSUME SinglyInv, UNCHANGED S!vars
  PROVE  SinglyInv' /\ UNCHANGED SinglyItems
<1>1. cell' = cell /\ end' = end /\ valid' = valid /\ left' = left
  BY DEF S!vars
<1>2. SinglyItems' = SinglyItems
  BY <1>1, SinglyItemsAre
<1> QED
  BY <1>1, <1>2 DEF SinglyInv

(***************************************************************************)
(* The lists are chains of entries, none on two of them, and the end of a  *)
(* head that may be appended to is its last cell.                          *)
(***************************************************************************)
THEOREM SinglyInvariance == S!Spec => []SinglyInv
<1>1. S!Init => SinglyInv
  BY SinglyInit
<1>2. SinglyInv /\ [S!Next]_S!vars => SinglyInv'
  BY SinglyNext, SinglyStutter
<1> QED
  BY <1>1, <1>2, PTL DEF S!Spec

(***************************************************************************)
(* push, unshift, shift and the splices of singly_list.h do to the         *)
(* sequences what they say, if nothing is appended to a head whose end     *)
(* they have left behind.                                                  *)
(***************************************************************************)
THEOREM SinglyPointersImplementDeques == S!Spec => SinglyListIsDeques
<1>1. S!Init => SinglyInv /\ S!Lists!Init
  BY SinglyInit DEF S!Lists!Init, SinglyItems
<1>2. SinglyInv /\ [S!Next]_S!vars => [S!Lists!Next]_SinglyItems
  BY SinglyNext, SinglyStutter
<1> QED
  BY <1>1, <1>2, SinglyInvariance, PTL
     DEF S!Spec, SinglyListIsDeques, S!ImplementsDeques, S!Lists!Spec, SinglyItems
=============================================================================
