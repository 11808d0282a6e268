---------------------------- MODULE TimerProofs ----------------------------
(***************************************************************************)
(* Proofs about Timer, for any number of timers, any clock and any width   *)
(* of the scores: what is on the list and in a walk is allocated, in order *)
(* and there once.                                                         *)
(***************************************************************************)
EXTENDS Timer, SequenceTheorems, WellFoundedInduction, TLAPS

-----------------------------------------------------------------------------
(* What a sequence holds.                                                  *)
Elements(s) == {s[i] : i \in DOMAIN s}

(* Where the elements are after an insertion at position n.                *)
LEMMA InsertAtIs ==
  ASSUME NEW T, NEW q \in Seq(T), NEW n \in 1 .. Len(q) + 1, NEW x \in T
  PROVE  /\ SL!InsertAt(q, n, x) \in Seq(T)
         /\ Len(SL!InsertAt(q, n, x)) = Len(q) + 1
         /\ \A i \in 1 .. n - 1 : SL!InsertAt(q, n, x)[i] = q[i]
         /\ SL!InsertAt(q, n, x)[n] = x
         /\ \A i \in n + 1 .. Len(q) + 1 : SL!InsertAt(q, n, x)[i] = q[i - 1]
<1> DEFINE a == SubSeq(q, 1, n - 1)  b == <<x>>  c == SubSeq(q, n, Len(q))
<1>1. /\ a \in Seq(T) /\ Len(a) = n - 1
      /\ \A i \in 1 .. n - 1 : a[i] = q[i]
  <2>1. \A i \in 1 .. n - 1 : q[i] \in T
    BY ElementOfSeq
  <2> QED
    BY <2>1, SubSeqProperties
<1>2. b \in Seq(T) /\ Len(b) = 1 /\ b[1] = x
  OBVIOUS
<1>3. /\ c \in Seq(T) /\ Len(c) = Len(q) - n + 1
      /\ \A i \in 1 .. Len(q) - n + 1 : c[i] = q[n + i - 1]
  <2>1. \A i \in n .. Len(q) : q[i] \in T
    BY ElementOfSeq
  <2> QED
    BY <2>1, SubSeqProperties
<1> DEFINE d == a \o b  e == d \o c
<1> HIDE DEF a, b, c
<1>4. /\ d \in Seq(T) /\ Len(d) = Len(a) + Len(b)
      /\ \A i \in 1 .. Len(a) + Len(b) : d[i] = IF i <= Len(a) THEN a[i] ELSE b[i - Len(a)]
  <2>1. a \in Seq(T) /\ b \in Seq(T)
    BY <1>1, <1>2
  <2> QED
    BY <2>1, ConcatProperties
<1> HIDE DEF d
<1>5. /\ e \in Seq(T) /\ Len(e) = Len(d) + Len(c)
      /\ \A i \in 1 .. Len(d) + Len(c) : e[i] = IF i <= Len(d) THEN d[i] ELSE c[i - Len(d)]
  <2>1. d \in Seq(T) /\ c \in Seq(T)
    BY <1>3, <1>4
  <2> QED
    BY <2>1, ConcatProperties
<1>6. SL!InsertAt(q, n, x) = e
  BY DEF SL!InsertAt, a, b, c, d, e
<1> HIDE DEF e
<1>7. Len(q) \in Nat /\ Len(a) = n - 1 /\ Len(b) = 1 /\ Len(d) = n /\ Len(c) = Len(q) - n + 1
  BY <1>1, <1>2, <1>3, <1>4, LenProperties
<1>8. ASSUME NEW i \in 1 .. Len(q) + 1
      PROVE  e[i] = IF i < n THEN q[i] ELSE IF i = n THEN x ELSE q[i - 1]
  <2>0. e[i] = IF i <= n THEN d[i] ELSE c[i - n]
    BY <1>5, <1>7
  <2>1. CASE i < n
    <3>1. d[i] = a[i]
      BY <2>1, <1>4, <1>7
    <3> QED
      BY <2>0, <2>1, <3>1, <1>1
  <2>2. CASE i = n
    <3>1. d[i] = b[1]
      BY <2>2, <1>4, <1>7
    <3> QED
      BY <2>0, <2>2, <3>1, <1>2
  <2>3. CASE i > n
    <3> DEFINE j == i - n
    <3>1. j \in 1 .. Len(q) - n + 1 /\ n + j - 1 = i - 1
      BY <2>3, <1>7
    <3>2. e[i] = c[j]
      BY <2>0, <2>3
    <3> HIDE DEF j
    <3>3. c[j] = q[n + j - 1]
      BY <3>1, <1>3
    <3> QED
      BY <2>3, <3>1, <3>2, <3>3
  <2> QED
    BY <2>1, <2>2, <2>3
<1> QED
  BY <1>5, <1>6, <1>7, <1>8

(* Where the elements are after the removal of position p.                 *)
LEMMA RemoveAtIs ==
  ASSUME NEW T, NEW q \in Seq(T), NEW p \in 1 .. Len(q)
  PROVE  /\ SL!RemoveAt(q, p) \in Seq(T)
         /\ Len(SL!RemoveAt(q, p)) = Len(q) - 1
         /\ \A i \in 1 .. Len(q) - 1 : SL!RemoveAt(q, p)[i] =
              IF i < p THEN q[i] ELSE q[i + 1]
<1> DEFINE a == SubSeq(q, 1, p - 1)  c == SubSeq(q, p + 1, Len(q))
<1>1. /\ a \in Seq(T) /\ Len(a) = p - 1
      /\ \A i \in 1 .. p - 1 : a[i] = q[i]
  <2>1. \A i \in 1 .. p - 1 : q[i] \in T
    BY ElementOfSeq
  <2> QED
    BY <2>1, SubSeqProperties
<1>3. /\ c \in Seq(T) /\ Len(c) = Len(q) - p
      /\ \A i \in 1 .. Len(q) - p : c[i] = q[p + i]
  <2>1. \A i \in p + 1 .. Len(q) : q[i] \in T
    BY ElementOfSeq
  <2> QED
    BY <2>1, SubSeqProperties
<1> DEFINE e == a \o c
<1> HIDE DEF a, c
<1>5. /\ e \in Seq(T) /\ Len(e) = Len(a) + Len(c)
      /\ \A i \in 1 .. Len(a) + Len(c) : e[i] = IF i <= Len(a) THEN a[i] ELSE c[i - Len(a)]
  BY <1>1, <1>3, ConcatProperties
<1>6. SL!RemoveAt(q, p) = e
  BY DEF SL!RemoveAt, a, c, e
<1> HIDE DEF e
<1>7. Len(a) = p - 1 /\ Len(c) = Len(q) - p /\ Len(e) = Len(q) - 1
  BY <1>1, <1>3, <1>5
<1>8. ASSUME NEW i \in 1 .. Len(q) - 1
      PROVE  e[i] = IF i < p THEN q[i] ELSE q[i + 1]
  <2>0. e[i] = IF i <= p - 1 THEN a[i] ELSE c[i - (p - 1)]
    BY <1>5, <1>7
  <2>1. CASE i < p
    BY <2>0, <2>1, <1>1
  <2>2. CASE i >= p
    <3> DEFINE j == i - (p - 1)
    <3>1. j \in 1 .. Len(q) - p /\ p + j = i + 1
      BY <2>2
    <3>2. e[i] = c[j]
      BY <2>0, <2>2
    <3> HIDE DEF j
    <3>3. c[j] = q[p + j]
      BY <3>1, <1>3
    <3> QED
      BY <2>2, <3>1, <3>2, <3>3
  <2> QED
    BY <2>1, <2>2
<1> QED
  BY <1>5, <1>6, <1>7, <1>8

(***************************************************************************)
(* Upto is defined with CHOOSE: the first score above k has a position     *)
(* (the least of a set of numbers), so there is something to choose.       *)
(***************************************************************************)
LEMMA UptoIs ==
  ASSUME sl \in Seq(Timer), score \in [Timer -> Nat], NEW k \in Nat
  PROVE  /\ SL!Upto(k) \in 0 .. Len(sl)
         /\ \A i \in 1 .. SL!Upto(k) : score[sl[i]] <= k
         /\ SL!Upto(k) < Len(sl) => score[sl[SL!Upto(k) + 1]] > k
<1> DEFINE Fits(p) == /\ \A i \in 1 .. p : score[sl[i]] <= k
                      /\ p < Len(sl) => score[sl[p + 1]] > k
           later == {i \in 1 .. Len(sl) : score[sl[i]] > k}
<1>1. \E p \in 0 .. Len(sl) : Fits(p)
  <2>1. CASE later = {}
    <3>1. \A i \in 1 .. Len(sl) : score[sl[i]] <= k
      BY <2>1, ElementOfSeq
    <3> QED
      BY <3>1
  <2>2. CASE later # {}
    <3> DEFINE before == OpToRel(<, Nat)
    <3>a. before = {pair \in Nat \X Nat : pair[1] < pair[2]}
      BY DEF OpToRel
    <3>b. IsWellFoundedOn(before, Nat)
      BY NatLessThanWellFounded
    <3>c. later \subseteq Nat
      OBVIOUS
    <3> HIDE DEF before
    <3>1. PICK m \in later : \A j \in later : ~(<<j, m>> \in before)
      <4> HIDE DEF later
      <4> QED
        BY <2>2, <3>b, <3>c, WFMin
    <3>2. \A j \in later : ~(j < m)
      BY <3>1, <3>a, <3>c
    <3>3. m \in 1 .. Len(sl) /\ score[sl[m]] > k
      OBVIOUS
    <3>4. \A i \in 1 .. m - 1 : score[sl[i]] <= k
      BY <3>2, <3>3, ElementOfSeq
    <3>5. m - 1 \in 0 .. Len(sl) /\ Fits(m - 1)
      BY <3>3, <3>4
    <3> QED
      BY <3>5
  <2> QED
    BY <2>1, <2>2
<1>2. SL!Upto(k) = CHOOSE p \in 0 .. Len(sl) : Fits(p)
  BY DEF SL!Upto
<1> HIDE DEF Fits
<1>3. SL!Upto(k) \in 0 .. Len(sl) /\ Fits(SL!Upto(k))
  BY <1>1, <1>2
<1> QED
  BY <1>3 DEF Fits

-----------------------------------------------------------------------------
(* InOrder, of any scores.                                                 *)
Rising(f, q) == \A i, j \in DOMAIN q : i < j => f[q[i]] <= f[q[j]]

(***************************************************************************)
(* An insertion behind the scores up to k keeps a list in order and free   *)
(* of repetitions, though the new element has had another score before.    *)
(***************************************************************************)
LEMMA InsertedIs ==
  ASSUME NEW T, NEW q \in Seq(T), NEW n \in 1 .. Len(q) + 1, NEW x \in T,
         NEW f \in [T -> Nat], NEW k \in Nat,
         Rising(f, q), Once(q), x \notin Elements(q),
         \A i \in 1 .. n - 1 : f[q[i]] <= k,
         n <= Len(q) => f[q[n]] > k
  PROVE  /\ SL!InsertAt(q, n, x) \in Seq(T)
         /\ Rising([f EXCEPT ![x] = k], SL!InsertAt(q, n, x))
         /\ Once(SL!InsertAt(q, n, x))
         /\ \A y : y \in Elements(SL!InsertAt(q, n, x)) <=> y \in Elements(q) \cup {x}
<1> DEFINE r == SL!InsertAt(q, n, x)
<1>1. /\ r \in Seq(T) /\ Len(r) = Len(q) + 1
      /\ \A i \in 1 .. n - 1 : r[i] = q[i]
      /\ r[n] = x
      /\ \A i \in n + 1 .. Len(q) + 1 : r[i] = q[i - 1]
  <2>1. r \in Seq(T) /\ Len(r) = Len(q) + 1
    BY InsertAtIs
  <2>2. \A i \in 1 .. n - 1 : r[i] = q[i]
    BY InsertAtIs
  <2>3. r[n] = x
    BY InsertAtIs
  <2>4. \A i \in n + 1 .. Len(q) + 1 : r[i] = q[i - 1]
    BY InsertAtIs
  <2> QED
    BY <2>1, <2>2, <2>3, <2>4
<1> HIDE DEF r
<1> DEFINE g == [f EXCEPT ![x] = k]
<1>2. /\ Len(q) \in Nat /\ DOMAIN q = 1 .. Len(q) /\ DOMAIN r = 1 .. Len(q) + 1
      /\ \A i \in 1 .. Len(q) : q[i] \in T /\ q[i] # x
  BY <1>1, LenProperties, ElementOfSeq DEF Elements
<1>3. /\ g[x] = k
      /\ \A i \in DOMAIN q : g[q[i]] = f[q[i]] /\ f[q[i]] \in Nat
  BY <1>2
<1> HIDE DEF g
<1>4. ASSUME NEW i \in n .. Len(q)
      PROVE  f[q[i]] > k
  <2>1. n \in DOMAIN q /\ i \in DOMAIN q
    BY <1>2
  <2>2. f[q[n]] > k /\ f[q[n]] \in Nat /\ f[q[i]] \in Nat
    BY <2>1, <1>2, <1>3
  <2>3. CASE i = n
    BY <2>2, <2>3
  <2>4. CASE i # n
    <3>1. n < i
      BY <2>4
    <3>2. f[q[n]] <= f[q[i]]
      BY <2>1, <3>1, Zenon DEF Rising
    <3> QED
      BY <2>2, <3>2
  <2> QED
    BY <2>3, <2>4
(* What each position of the longer sequence holds.                        *)
<1> DEFINE Front(i) == i \in Nat /\ i < n /\ i \in DOMAIN q /\ r[i] = q[i]
           There(i) == i = n /\ r[i] = x
           Back(i) == i \in Nat /\ i > n /\ i - 1 \in DOMAIN q /\ r[i] = q[i - 1]
<1>5. ASSUME NEW i \in DOMAIN r
      PROVE  Front(i) \/ There(i) \/ Back(i)
  <2>1. i \in 1 .. Len(q) + 1
    BY <1>2
  <2>2. CASE i < n
    <3>1. i \in Nat /\ i \in 1 .. n - 1 /\ i \in 1 .. Len(q)
      BY <2>1, <2>2
    <3>2. r[i] = q[i]
      BY <1>1, <3>1, Zenon
    <3> QED
      BY <1>2, <2>2, <3>1, <3>2
  <2>3. CASE i = n
    BY <1>1, <2>3
  <2>4. CASE i > n
    <3>1. i \in Nat /\ i \in n + 1 .. Len(q) + 1 /\ i - 1 \in 1 .. Len(q)
      BY <2>1, <2>4, LenProperties
    <3>2. r[i] = q[i - 1]
      BY <1>1, <3>1, Zenon
    <3> QED
      BY <1>2, <2>4, <3>1, <3>2
  <2> QED
    BY <2>1, <2>2, <2>3, <2>4
<1>6. ASSUME NEW i \in DOMAIN r, NEW j \in DOMAIN r, i < j
      PROVE  g[r[i]] <= g[r[j]]
  <2>1. CASE Front(i) /\ Front(j)
    <3>1. f[q[i]] <= f[q[j]]
      BY <2>1, <1>6 DEF Rising
    <3> QED
      BY <2>1, <3>1, <1>3
  <2>2. CASE Front(i) /\ There(j)
    <3>1. i \in 1 .. n - 1
      BY <2>2, <1>2
    <3>2. f[q[i]] <= k
      BY <3>1
    <3> QED
      BY <2>2, <3>2, <1>3
  <2>3. CASE Front(i) /\ Back(j)
    <3>1. i < j - 1
      BY <2>3
    <3>2. f[q[i]] <= f[q[j - 1]]
      BY <2>3, <3>1 DEF Rising
    <3> QED
      BY <2>3, <3>2, <1>3
  <2>4. CASE There(i) /\ Back(j)
    <3>1. j - 1 \in n .. Len(q)
      BY <2>4, <1>2
    <3>2. f[q[j - 1]] > k
      BY <3>1, <1>4
    <3> QED
      BY <2>4, <3>2, <1>3
  <2>5. CASE Back(i) /\ Back(j)
    <3>1. i - 1 < j - 1
      BY <2>5, <1>6
    <3>2. f[q[i - 1]] <= f[q[j - 1]]
      BY <2>5, <3>1 DEF Rising
    <3> QED
      BY <2>5, <3>2, <1>3
  <2>6. ~(There(i) /\ There(j)) /\ ~(There(i) /\ Front(j))
    BY <1>6
  <2>7. ~(Back(i) /\ (Front(j) \/ There(j)))
    BY <1>6
  <2> QED
    BY <1>5, <2>1, <2>2, <2>3, <2>4, <2>5, <2>6, <2>7
<1>7. Rising(g, r)
  BY <1>6 DEF Rising
<1>8. ASSUME NEW i \in DOMAIN r, NEW j \in DOMAIN r, r[i] = r[j]
      PROVE  i = j
  <2>1. \A l, m \in DOMAIN q : q[l] = q[m] => l = m
    BY DEF Once
  <2>2. CASE There(i) \/ There(j)
    BY <2>2, <1>2, <1>5, <1>8
  <2>3. CASE Front(i) /\ Front(j)
    BY <2>1, <2>3, <1>8
  <2>4. CASE Back(i) /\ Back(j)
    <3>1. i - 1 = j - 1
      BY <2>1, <2>4, <1>8
    <3> QED
      BY <2>4, <3>1
  <2>5. CASE Front(i) /\ Back(j)
    <3>1. i = j - 1
      BY <2>1, <2>5, <1>8
    <3> QED
      BY <2>5, <3>1
  <2>6. CASE Back(i) /\ Front(j)
    <3>1. i - 1 = j
      BY <2>1, <2>6, <1>8
    <3> QED
      BY <2>6, <3>1
  <2> QED
    BY <1>5, <2>2, <2>3, <2>4, <2>5, <2>6
<1>9. Once(r)
  BY <1>8 DEF Once
<1>10. Elements(r) = Elements(q) \cup {x}
  <2>1. \A y \in Elements(r) : y \in Elements(q) \cup {x}
    BY <1>5 DEF Elements
  <2>2. x \in Elements(r)
    <3>1. n \in DOMAIN r /\ r[n] = x
      BY <1>1, <1>2
    <3> QED
      BY <3>1 DEF Elements
  <2>3. ASSUME NEW i \in DOMAIN q
        PROVE  q[i] \in Elements(r)
    <3>1. CASE i < n
      <4>1. i \in DOMAIN r /\ r[i] = q[i]
        BY <1>1, <1>2, <3>1
      <4> QED
        BY <4>1 DEF Elements
    <3>2. CASE i >= n
      <4> DEFINE j == i + 1
      <4>1. j \in 1 .. Len(q) + 1 /\ j > n /\ j - 1 = i
        BY <1>2, <3>2
      <4> HIDE DEF j
      <4>2. j \in DOMAIN r /\ r[j] = q[i]
        BY <1>1, <1>2, <4>1
      <4> QED
        BY <4>2 DEF Elements
    <3> QED
      BY <1>2, <3>1, <3>2
  <2> QED
    BY <2>1, <2>2, <2>3 DEF Elements
<1> QED
  BY <1>1, <1>7, <1>9, <1>10 DEF r, g

(* A removal keeps the order, and no second copy stays behind.             *)
LEMMA RemovedIs ==
  ASSUME NEW T, NEW q \in Seq(T), NEW p \in 1 .. Len(q),
         NEW f \in [T -> Nat], Rising(f, q), Once(q)
  PROVE  /\ SL!RemoveAt(q, p) \in Seq(T)
         /\ Rising(f, SL!RemoveAt(q, p))
         /\ Once(SL!RemoveAt(q, p))
         /\ Elements(SL!RemoveAt(q, p)) = Elements(q) \ {q[p]}
<1> DEFINE r == SL!RemoveAt(q, p)
<1>1. /\ r \in Seq(T) /\ Len(r) = Len(q) - 1
      /\ \A i \in 1 .. Len(q) - 1 : r[i] = IF i < p THEN q[i] ELSE q[i + 1]
  BY RemoveAtIs
<1> HIDE DEF r
<1>2. Len(q) \in Nat /\ DOMAIN q = 1 .. Len(q) /\ DOMAIN r = 1 .. Len(q) - 1
  BY <1>1, LenProperties
<1> DEFINE from(i) == IF i < p THEN i ELSE i + 1
<1>3. ASSUME NEW i \in DOMAIN r
      PROVE  from(i) \in DOMAIN q /\ from(i) # p /\ r[i] = q[from(i)]
  <2>1. i \in 1 .. Len(q) - 1
    BY <1>2
  <2>2. from(i) \in DOMAIN q /\ from(i) # p
    BY <1>2, <2>1
  <2>3. r[i] = IF i < p THEN q[i] ELSE q[i + 1]
    BY <1>1, <2>1, Zenon
  <2> QED
    BY <2>2, <2>3
<1>4. \A i, j \in DOMAIN r : i < j => from(i) < from(j)
  BY <1>2
<1>5. \A i, j \in DOMAIN r : from(i) = from(j) => i = j
  BY <1>2
<1>6. \A j \in DOMAIN q \ {p} : \E i \in DOMAIN r : from(i) = j
  <2> SUFFICES ASSUME NEW j \in DOMAIN q \ {p}
               PROVE  \E i \in DOMAIN r : from(i) = j
    OBVIOUS
  <2>1. CASE j < p
    BY <1>2, <2>1
  <2>2. CASE j > p
    <3>1. j - 1 \in DOMAIN r /\ from(j - 1) = j
      BY <1>2, <2>2
    <3> QED
      BY <3>1
  <2> QED
    BY <1>2, <2>1, <2>2
<1> HIDE DEF from
<1>7. Rising(f, r)
  BY <1>3, <1>4 DEF Rising
<1>8. Once(r)
  BY <1>3, <1>5 DEF Once
<1>9. Elements(r) = Elements(q) \ {q[p]}
  <2>1. p \in DOMAIN q
    BY <1>2
  <2>2. ASSUME NEW i \in DOMAIN r
        PROVE  r[i] \in Elements(q) \ {q[p]}
    BY <1>3, <2>1 DEF Once, Elements
  <2>3. ASSUME NEW j \in DOMAIN q, q[j] # q[p]
        PROVE  q[j] \in Elements(r)
    BY <1>3, <1>6, <2>3 DEF Elements
  <2> QED
    BY <2>2, <2>3 DEF Elements
<1> QED
  BY <1>1, <1>7, <1>8, <1>9 DEF r

(* The piece of a list from m to n, position by position, ...              *)
LEMMA PieceIs ==
  ASSUME NEW T, NEW q \in Seq(T), NEW m \in 1 .. Len(q) + 1, NEW n \in 0 .. Len(q)
  PROVE  /\ SubSeq(q, m, n) \in Seq(T)
         /\ \A i \in DOMAIN SubSeq(q, m, n) :
              i \in Int /\ m + i - 1 \in DOMAIN q /\ SubSeq(q, m, n)[i] = q[m + i - 1]
         /\ \A y : y \in Elements(SubSeq(q, m, n)) <=> \E i \in m .. n : y = q[i]
<1> DEFINE r == SubSeq(q, m, n)
<1>0. \A i \in m .. n : q[i] \in T
  BY ElementOfSeq
<1>1. /\ r \in Seq(T) /\ Len(r) = IF m <= n THEN n - m + 1 ELSE 0
      /\ \A i \in 1 .. n - m + 1 : r[i] = q[m + i - 1]
  BY <1>0, SubSeqProperties
<1> HIDE DEF r
<1>2. Len(q) \in Nat /\ DOMAIN q = 1 .. Len(q) /\ DOMAIN r = 1 .. n - m + 1
  BY <1>1, LenProperties
<1> DEFINE from(i) == m + i - 1
<1>3. ASSUME NEW i \in DOMAIN r
      PROVE  i \in Int /\ from(i) \in m .. n /\ from(i) \in DOMAIN q /\ r[i] = q[from(i)]
  <2>1. i \in 1 .. n - m + 1
    BY <1>2
  <2>2. i \in Int /\ from(i) \in m .. n /\ from(i) \in DOMAIN q
    BY <2>1, <1>2
  <2>3. r[i] = q[m + i - 1]
    BY <2>1, <1>1
  <2> QED
    BY <2>2, <2>3
<1>4. \A j \in m .. n : j - m + 1 \in DOMAIN r /\ from(j - m + 1) = j
  BY <1>2
<1> HIDE DEF from
<1>5. \A y : y \in Elements(r) <=> \E i \in m .. n : y = q[i]
  BY <1>3, <1>4 DEF Elements
<1>6. \A i \in DOMAIN r : i \in Int /\ m + i - 1 \in DOMAIN q /\ r[i] = q[m + i - 1]
  BY <1>3 DEF from
<1> QED
  BY <1>1, <1>5, <1>6 DEF r

(* ... keeps the order.                                                    *)
LEMMA SubSeqIs ==
  ASSUME NEW T, NEW q \in Seq(T), NEW m \in 1 .. Len(q) + 1, NEW n \in 0 .. Len(q),
         NEW f \in [T -> Nat], Rising(f, q), Once(q)
  PROVE  /\ SubSeq(q, m, n) \in Seq(T)
         /\ Rising(f, SubSeq(q, m, n))
         /\ Once(SubSeq(q, m, n))
<1> DEFINE r == SubSeq(q, m, n)
           from(i) == m + i - 1
<1>1. r \in Seq(T)
  BY PieceIs
<1>2. ASSUME NEW i \in DOMAIN r
      PROVE  i \in Int /\ from(i) \in DOMAIN q /\ r[i] = q[from(i)]
  BY PieceIs
<1> HIDE DEF r
<1>3. \A i, j \in DOMAIN r : i < j => from(i) < from(j)
  BY <1>2
<1>4. \A i, j \in DOMAIN r : from(i) = from(j) => i = j
  BY <1>2
<1> HIDE DEF from
<1>5. Rising(f, r)
  BY <1>2, <1>3 DEF Rising
<1>6. Once(r)
  BY <1>2, <1>4 DEF Once
<1> QED
  BY <1>1, <1>5, <1>6 DEF r

(* In front of a list in order: a score no greater than all of its scores. *)
LEMMA RisingBehind ==
  ASSUME NEW T, NEW f \in [T -> Nat], NEW x \in T, NEW q \in Seq(T)
  PROVE  Rising(f, <<x>> \o q) <=> Rising(f, q) /\ \A i \in DOMAIN q : f[x] <= f[q[i]]
<1> DEFINE r == <<x>> \o q
<1>1. /\ Len(q) \in Nat /\ DOMAIN q = 1 .. Len(q) /\ DOMAIN r = 1 .. Len(q) + 1
      /\ r[1] = x
  BY ConcatProperties, LenProperties
<1>2. ASSUME NEW i \in DOMAIN q
      PROVE  i + 1 \in DOMAIN r /\ r[i + 1] = q[i] /\ f[q[i]] \in Nat
  BY <1>1, ElementOfSeq
<1>3. ASSUME NEW i \in DOMAIN r, i # 1
      PROVE  i - 1 \in DOMAIN q /\ r[i] = q[i - 1]
  BY <1>1, <1>3
<1> HIDE DEF r
<1>4. ASSUME Rising(f, r)
      PROVE  Rising(f, q) /\ \A i \in DOMAIN q : f[x] <= f[q[i]]
  <2>1. ASSUME NEW i \in DOMAIN q, NEW j \in DOMAIN q, i < j
        PROVE  f[q[i]] <= f[q[j]]
    <3>1. i + 1 < j + 1
      BY <1>1, <2>1
    <3> QED
      BY <1>2, <1>4, <3>1 DEF Rising
  <2>2. ASSUME NEW i \in DOMAIN q
        PROVE  f[x] <= f[q[i]]
    <3>1. 1 \in DOMAIN r /\ 1 < i + 1
      BY <1>1
    <3> QED
      BY <1>1, <1>2, <1>4, <3>1 DEF Rising
  <2> QED
    BY <2>1, <2>2 DEF Rising
<1>5. ASSUME Rising(f, q), \A i \in DOMAIN q : f[x] <= f[q[i]],
             NEW i \in DOMAIN r, NEW j \in DOMAIN r, i < j
      PROVE  f[r[i]] <= f[r[j]]
  <2>1. j # 1 /\ j - 1 \in DOMAIN q /\ r[j] = q[j - 1]
    BY <1>1, <1>3, <1>5
  <2>2. CASE i = 1
    BY <1>1, <1>5, <2>1, <2>2
  <2>3. CASE i # 1
    <3>1. i - 1 \in DOMAIN q /\ r[i] = q[i - 1] /\ i - 1 < j - 1
      BY <1>1, <1>3, <1>5, <2>3
    <3> QED
      BY <1>5, <2>1, <3>1 DEF Rising
  <2> QED
    BY <2>2, <2>3
<1> QED
  BY <1>4, <1>5 DEF Rising, r

-----------------------------------------------------------------------------
(* Where the walk is: it has left nothing behind when it is over, and      *)
(* behind a callback the timer it was at is no more among those to come.   *)
WalkPlaced ==
  /\ pc = "idle" => cur = NULL /\ rest = <<>>
  /\ pc # "idle" => cur \in Timer
  /\ pc = "next" => cur \notin SL!Extracted

(***************************************************************************)
(* The inductive invariant: a walk takes the next timer from rest, so      *)
(* Sorted and BatchAlive say nothing of it unless rest ends with the walk. *)
(***************************************************************************)
IInv == TypeOK /\ Sorted /\ BatchAlive /\ WalkPlaced

(* The invariant in the terms of the lemmas.                                *)
LEMMA Facts ==
  ASSUME IInv
  PROVE  /\ score \in [Timer -> Nat]
         /\ Listed = Elements(sl) /\ SL!Extracted = Elements(rest)
         /\ Listed \subseteq Timer /\ SL!Extracted \subseteq Timer
         /\ sl \in Seq(Timer) /\ rest \in Seq(Timer)
         /\ Rising(score, sl) /\ Rising(score, rest) /\ Once(sl) /\ Once(rest)
         /\ pc = "call" => \A i \in DOMAIN rest : score[cur] <= score[rest[i]]
<1>1. score \in [Timer -> Nat]
  BY TimerAssumption DEF IInv, TypeOK
<1>2. sl \in Seq(Timer) /\ rest \in Seq(Timer)
  BY DEF IInv, TypeOK
<1>3. Listed = Elements(sl) /\ SL!Extracted = Elements(rest)
  BY DEF Listed, SL!Listed, SL!Extracted, Elements
<1>4. Elements(sl) \subseteq Timer /\ Elements(rest) \subseteq Timer
  BY <1>2, LenProperties, ElementOfSeq DEF Elements
<1>5. Rising(score, sl) /\ Rising(score, rest)
  BY DEF IInv, Sorted, InOrder, Rising
<1>6. Once(sl) /\ Once(rest)
  BY DEF IInv, BatchAlive
<1>7. pc = "call" => \A i \in DOMAIN rest : score[cur] <= score[rest[i]]
  <2>1. pc = "call" => cur \in Timer /\ InOrder(<<cur>> \o rest)
    BY DEF IInv, WalkPlaced, Sorted
  <2>2. pc = "call" => Rising(score, <<cur>> \o rest)
    BY <2>1 DEF InOrder, Rising
  <2> QED
    BY <1>1, <1>2, <2>1, <2>2, RisingBehind
<1> QED
  BY <1>1, <1>2, <1>3, <1>4, <1>5, <1>6, <1>7

(* What an insertion does to the list, and what it leaves alone.           *)
LEMMA InsertFacts ==
  ASSUME IInv, NEW x \in Timer, NEW k \in 0 .. U64 - 1, SL!Insert(x, k)
  PROVE  /\ x \notin Listed /\ x \notin SL!Extracted
         /\ score' = [score EXCEPT ![x] = k]
         /\ sl' \in Seq(Timer) /\ Rising(score', sl') /\ Once(sl')
         /\ Elements(sl') = Listed \cup {x}
         /\ rest' = rest /\ cur' = cur
<1>1. k \in Nat
  OBVIOUS
<1> DEFINE p == SL!Upto(k)  n == p + 1
<1>2. /\ p \in 0 .. Len(sl)
      /\ \A i \in 1 .. p : score[sl[i]] <= k
      /\ p < Len(sl) => score[sl[p + 1]] > k
  BY <1>1, Facts, UptoIs
<1>3. /\ x \notin Listed /\ x \notin SL!Extracted
      /\ score' = [score EXCEPT ![x] = k]
      /\ sl' = SL!InsertAt(sl, n, x) /\ rest' = rest /\ cur' = cur
  BY DEF SL!Insert, Listed
<1> HIDE DEF p
<1>4. /\ n \in 1 .. Len(sl) + 1
      /\ \A i \in 1 .. n - 1 : score[sl[i]] <= k
      /\ n <= Len(sl) => score[sl[n]] > k
  <2>1. n - 1 = p /\ Len(sl) \in Nat
    BY <1>2, Facts, LenProperties
  <2> QED
    BY <1>2, <2>1
<1> HIDE DEF n
<1>5. x \notin Elements(sl)
  BY <1>3, Facts
<1>6. /\ SL!InsertAt(sl, n, x) \in Seq(Timer)
      /\ Rising([score EXCEPT ![x] = k], SL!InsertAt(sl, n, x))
      /\ Once(SL!InsertAt(sl, n, x))
      /\ Elements(SL!InsertAt(sl, n, x)) = Elements(sl) \cup {x}
  <2> DEFINE r == SL!InsertAt(sl, n, x)
  <2>1. /\ sl \in Seq(Timer) /\ score \in [Timer -> Nat]
        /\ Rising(score, sl) /\ Once(sl)
    BY Facts
  <2>2. r \in Seq(Timer) /\ Once(r)
    BY <1>1, <1>4, <1>5, <2>1, InsertedIs
  <2>3. Rising([score EXCEPT ![x] = k], r)
    BY <1>1, <1>4, <1>5, <2>1, InsertedIs
  <2>4. \A y : y \in Elements(r) <=> y \in Elements(sl) \cup {x}
    BY <1>1, <1>4, <1>5, <2>1, InsertedIs
  <2> QED
    BY <2>2, <2>3, <2>4
<1> QED
  BY <1>3, <1>6, Facts

(* What a deletion does to the list, and what it leaves alone.             *)
LEMMA DeleteFacts ==
  ASSUME IInv, NEW x \in Timer, SL!Delete(x)
  PROVE  /\ sl' \in Seq(Timer) /\ Rising(score, sl') /\ Once(sl')
         /\ Elements(sl') = Listed \ {x}
         /\ score' = score /\ rest' = rest /\ cur' = cur
<1> DEFINE p == CHOOSE i \in DOMAIN sl : sl[i] = x
<1>1. p \in DOMAIN sl /\ sl[p] = x
  <2>1. \E i \in DOMAIN sl : sl[i] = x
    BY DEF SL!Delete, SL!Listed
  <2> QED
    BY <2>1
<1>2. p \in 1 .. Len(sl)
  BY <1>1, Facts, LenProperties
<1>3. sl' = SL!RemoveAt(sl, p) /\ score' = score /\ rest' = rest /\ cur' = cur
  BY DEF SL!Delete
<1> HIDE DEF p
<1>4. /\ SL!RemoveAt(sl, p) \in Seq(Timer) /\ Rising(score, SL!RemoveAt(sl, p))
      /\ Once(SL!RemoveAt(sl, p)) /\ Elements(SL!RemoveAt(sl, p)) = Elements(sl) \ {sl[p]}
  BY <1>2, Facts, RemovedIs
<1> QED
  BY <1>1, <1>3, <1>4, Facts

(***************************************************************************)
(* What ExtractLte cuts off, and what it leaves: the two pieces have no    *)
(* timer in common, and each is still in order.                            *)
(***************************************************************************)
LEMMA ExtractFacts ==
  ASSUME IInv, NEW k \in Nat, SL!ExtractLte(k)
  PROVE  /\ sl' \in Seq(Timer) /\ Rising(score, sl') /\ Once(sl')
         /\ rest' \in Seq(Timer) /\ Rising(score, rest') /\ Once(rest')
         /\ Elements(sl') \subseteq Listed /\ Elements(rest') \subseteq Listed
         /\ Elements(sl') \cap Elements(rest') = {}
         /\ cur' \in Timer \cup {NULL}
         /\ cur' = NULL => rest' = <<>>
         /\ cur' # NULL => /\ cur' \in Listed \ (Elements(sl') \cup Elements(rest'))
                           /\ \A i \in DOMAIN rest' : score[cur'] <= score[rest'[i]]
         /\ score' = score
         /\ Listed = Elements(sl') \cup Elements(rest') \cup ({cur'} \ {NULL})
         /\ \A x \in Elements(sl') : score[x] > k
         /\ \A x \in Elements(rest') \cup ({cur'} \ {NULL}) : score[x] <= k
<1> DEFINE p == SL!Upto(k)
<1>1. /\ p \in 0 .. Len(sl)
      /\ \A i \in 1 .. p : score[sl[i]] <= k
      /\ p < Len(sl) => score[sl[p + 1]] > k
  BY Facts, UptoIs
<1>2. /\ sl' = SubSeq(sl, p + 1, Len(sl)) /\ rest' = SubSeq(sl, 2, p)
      /\ cur' = IF p = 0 THEN NULL ELSE sl[1]
      /\ score' = score
  BY DEF SL!ExtractLte
<1> HIDE DEF p
<1>3. /\ sl \in Seq(Timer) /\ Len(sl) \in Nat /\ DOMAIN sl = 1 .. Len(sl)
      /\ Rising(score, sl) /\ Once(sl) /\ Listed = Elements(sl) /\ score \in [Timer -> Nat]
  BY Facts, LenProperties
<1>4. /\ sl' \in Seq(Timer) /\ Rising(score, sl') /\ Once(sl')
      /\ Elements(sl') = {sl[i] : i \in p + 1 .. Len(sl)}
  <2> DEFINE m == p + 1  n == Len(sl)  part == SubSeq(sl, m, n)
  <2>1. m \in 1 .. Len(sl) + 1 /\ n \in 0 .. Len(sl)
    BY <1>1, <1>3
  <2> HIDE DEF m, n
  <2>2. part \in Seq(Timer) /\ Rising(score, part) /\ Once(part)
    BY <1>3, <2>1, SubSeqIs, Zenon
  <2>3. \A y : y \in Elements(part) <=> \E i \in m .. n : y = sl[i]
    BY <1>3, <2>1, PieceIs
  <2> HIDE DEF part
  <2>4. sl' = part
    BY <1>2 DEF part, m, n
  <2> QED
    BY <2>2, <2>3, <2>4 DEF m, n
<1>5. ASSUME NEW i \in p + 1 .. Len(sl)
      PROVE  score[sl[i]] > k
  <2>1. /\ p + 1 \in DOMAIN sl /\ i \in DOMAIN sl /\ (i = p + 1 \/ p + 1 < i)
        /\ p < Len(sl)
    BY <1>1, <1>3
  <2>2. score[sl[p + 1]] \in Nat /\ score[sl[i]] \in Nat /\ score[sl[p + 1]] > k
    BY <1>1, <1>3, <2>1, ElementOfSeq
  <2>3. i = p + 1 \/ score[sl[p + 1]] <= score[sl[i]]
    BY <1>3, <2>1 DEF Rising
  <2> QED
    BY <2>2, <2>3
<1>6. \A x \in Elements(sl') : score[x] > k
  BY <1>4, <1>5
<1>7. CASE p = 0
  <2>1. rest' = <<>> /\ cur' = NULL
    BY <1>2, <1>7, SubSeqEmpty
  <2>2. <<>> \in Seq(Timer) /\ DOMAIN <<>> = {}
    OBVIOUS
  <2>3. Elements(rest') = {} /\ Rising(score, rest') /\ Once(rest')
    BY <2>1, <2>2 DEF Elements, Rising, Once
  <2>4. Elements(sl') \subseteq Listed
    <3>1. \A i \in p + 1 .. Len(sl) : i \in DOMAIN sl
      BY <1>3, <1>7
    <3>2. \A i \in DOMAIN sl : sl[i] \in Listed
      BY <1>3 DEF Elements
    <3> QED
      BY <1>4, <3>1, <3>2
  <2>5. ASSUME NEW x \in Listed
        PROVE  x \in Elements(sl')
    <3>1. PICK i \in DOMAIN sl : x = sl[i]
      BY <1>3 DEF Elements
    <3>2. i \in p + 1 .. Len(sl)
      BY <1>3, <1>7
    <3> QED
      BY <1>4, <3>1, <3>2
  <2> QED
    BY <1>2, <1>4, <1>6, <2>1, <2>2, <2>3, <2>4, <2>5
<1>8. CASE p # 0
  <2>1. /\ rest' \in Seq(Timer) /\ Rising(score, rest') /\ Once(rest')
        /\ Elements(rest') = {sl[i] : i \in 2 .. p}
    <3> DEFINE m == 2  part == SubSeq(sl, m, p)
    <3>1. m \in 1 .. Len(sl) + 1 /\ p \in 0 .. Len(sl)
      BY <1>1, <1>3, <1>8
    <3> HIDE DEF m
    <3>2. part \in Seq(Timer) /\ Rising(score, part) /\ Once(part)
      BY <1>3, <3>1, SubSeqIs, Zenon
    <3>3. \A y : y \in Elements(part) <=> \E i \in m .. p : y = sl[i]
      BY <1>3, <3>1, PieceIs
    <3> HIDE DEF part
    <3>4. rest' = part
      BY <1>2 DEF part, m
    <3> QED
      BY <3>2, <3>3, <3>4 DEF m
  <2>2. 1 \in DOMAIN sl /\ cur' = sl[1] /\ sl[1] \in Timer /\ cur' # NULL
    BY <1>1, <1>2, <1>3, <1>8, ElementOfSeq, TimerAssumption
  <2>3. \A i \in p + 1 .. Len(sl) : i \in DOMAIN sl /\ i # 1
    BY <1>1, <1>3, <1>8
  <2>4. \A i \in 2 .. p : i \in DOMAIN sl /\ i # 1
    BY <1>1, <1>3, <1>8
  <2>5. Elements(sl') \subseteq Listed /\ Elements(rest') \subseteq Listed /\ cur' \in Listed
    BY <1>3, <1>4, <2>1, <2>2, <2>3, <2>4 DEF Elements
  <2>6. cur' \notin Elements(sl') /\ cur' \notin Elements(rest')
    BY <1>3, <1>4, <2>1, <2>2, <2>3, <2>4 DEF Once
  <2>7. Elements(sl') \cap Elements(rest') = {}
    <3>1. \A i \in p + 1 .. Len(sl), j \in 2 .. p : i # j
      BY <1>1
    <3>2. \A i \in p + 1 .. Len(sl), j \in 2 .. p : sl[i] # sl[j]
      BY <1>3, <2>3, <2>4, <3>1 DEF Once
    <3> QED
      BY <1>4, <2>1, <3>2
  <2>8. ASSUME NEW i \in DOMAIN rest'
        PROVE  score[cur'] <= score[rest'[i]]
    <3>1. rest'[i] \in Elements(rest')
      BY DEF Elements
    <3>2. PICK j \in 2 .. p : rest'[i] = sl[j]
      BY <2>1, <3>1
    <3>3. 1 < j /\ j \in DOMAIN sl
      BY <2>4
    <3> QED
      BY <1>3, <2>2, <3>2, <3>3 DEF Rising
  <2>9. ASSUME NEW x \in Listed
        PROVE  x \in Elements(sl') \cup Elements(rest') \cup {cur'}
    <3>1. PICK i \in DOMAIN sl : x = sl[i]
      BY <1>3 DEF Elements
    <3>2. i = 1 \/ i \in 2 .. p \/ i \in p + 1 .. Len(sl)
      BY <1>1, <1>3
    <3> QED
      BY <1>4, <2>1, <2>2, <3>1, <3>2
  <2>10. Listed = Elements(sl') \cup Elements(rest') \cup ({cur'} \ {NULL})
    BY <2>2, <2>5, <2>9
  <2>11. \A x \in Elements(rest') \cup {cur'} : score[x] <= k
    <3>1. \A i \in 2 .. p : i \in 1 .. p
      OBVIOUS
    <3>2. 1 \in 1 .. p
      BY <1>1, <1>8
    <3> QED
      BY <1>1, <2>1, <2>2, <3>1, <3>2
  <2> QED
    BY <1>2, <1>4, <1>6, <2>1, <2>2, <2>5, <2>6, <2>7, <2>8, <2>10, <2>11
<1> QED
  BY <1>7, <1>8

(* The timer a walk goes on to is due no later than those behind it.       *)
LEMMA HeadFacts ==
  ASSUME IInv, rest # <<>>
  PROVE  /\ Head(rest) \in SL!Extracted
         /\ Tail(rest) \in Seq(Timer) /\ Rising(score, Tail(rest)) /\ Once(Tail(rest))
         /\ Elements(Tail(rest)) = SL!Extracted \ {Head(rest)}
         /\ \A i \in DOMAIN Tail(rest) : score[Head(rest)] <= score[Tail(rest)[i]]
<1> DEFINE t == Tail(rest)
<1>1. /\ rest \in Seq(Timer) /\ Len(rest) \in Nat \ {0} /\ DOMAIN rest = 1 .. Len(rest)
      /\ Rising(score, rest) /\ Once(rest) /\ SL!Extracted = Elements(rest)
      /\ score \in [Timer -> Nat]
  BY Facts, LenProperties, EmptySeq
<1>2. t = SubSeq(rest, 2, Len(rest)) /\ Head(rest) = rest[1] /\ 1 \in DOMAIN rest
  BY <1>1, TailIsSubSeq
<1> HIDE DEF t
<1>3. /\ t \in Seq(Timer) /\ Rising(score, t) /\ Once(t)
      /\ Elements(t) = {rest[i] : i \in 2 .. Len(rest)}
  <2> DEFINE n == Len(rest)  part == SubSeq(rest, 2, n)
  <2>1. 2 \in 1 .. Len(rest) + 1 /\ n \in 0 .. Len(rest)
    BY <1>1
  <2> HIDE DEF n
  <2>2. part \in Seq(Timer) /\ Rising(score, part) /\ Once(part)
    BY <1>1, <2>1, SubSeqIs, Zenon
  <2>3. \A y : y \in Elements(part) <=> \E i \in 2 .. n : y = rest[i]
    BY <1>1, <2>1, PieceIs
  <2> HIDE DEF part
  <2>4. t = part
    BY <1>2 DEF part, n
  <2> QED
    BY <2>2, <2>3, <2>4 DEF n
<1>4. \A i \in 2 .. Len(rest) : i \in DOMAIN rest /\ i # 1 /\ 1 < i
  BY <1>1
<1>5. \A i \in DOMAIN rest : i = 1 \/ i \in 2 .. Len(rest)
  BY <1>1
<1>6. Elements(t) = Elements(rest) \ {rest[1]} /\ rest[1] \in Elements(rest)
  <2>1. \A i \in 2 .. Len(rest) : rest[i] # rest[1]
    BY <1>1, <1>2, <1>4 DEF Once
  <2>2. \A i \in 2 .. Len(rest) : rest[i] \in Elements(rest)
    BY <1>4 DEF Elements
  <2>3. rest[1] \in Elements(rest)
    BY <1>2 DEF Elements
  <2>4. ASSUME NEW y \in Elements(rest), y # rest[1]
        PROVE  y \in Elements(t)
    <3>1. PICK i \in DOMAIN rest : y = rest[i]
      BY DEF Elements
    <3>2. i \in 2 .. Len(rest)
      BY <1>5, <2>4, <3>1
    <3> QED
      BY <1>3, <3>1, <3>2
  <2> QED
    BY <1>3, <2>1, <2>2, <2>3, <2>4
<1>7. ASSUME NEW i \in DOMAIN t
      PROVE  score[rest[1]] <= score[t[i]]
  <2>1. PICK j \in 2 .. Len(rest) : t[i] = rest[j]
    BY <1>3 DEF Elements
  <2> QED
    BY <1>1, <1>2, <1>4, <2>1 DEF Rising
<1> QED
  BY <1>1, <1>2, <1>3, <1>6, <1>7 DEF t

-----------------------------------------------------------------------------
(* The sums and the times are in range.                                    *)
LEMMA SumInRange ==
  ASSUME NEW a \in Nat, NEW b \in Nat
  PROVE  Add(a, b) \in 0 .. U64 - 1
BY TimerAssumption DEF Add

(* A step that leaves list and walk alone keeps what is said of them.      *)
LEMMA SameOrder ==
  ASSUME IInv, UNCHANGED <<sl, score, rest, cur>>, pc' # "call" \/ pc' = pc
  PROVE  Sorted'
BY DEF IInv, Sorted, InOrder

(* Sorted' from the terms of the lemmas.                                   *)
LEMMA OrderFrom ==
  ASSUME score' \in [Timer -> Nat], rest' \in Seq(Timer),
         Rising(score', sl'), Rising(score', rest'),
         pc' = "call" => /\ cur' \in Timer
                         /\ \A i \in DOMAIN rest' : score'[cur'] <= score'[rest'[i]]
  PROVE  Sorted'
<1>1. InOrder(sl)' /\ InOrder(rest)'
  BY DEF Rising, InOrder
<1>2. ASSUME pc' = "call"
      PROVE  InOrder(<<cur>> \o rest)'
  <2>1. Rising(score', <<cur'>> \o rest')
    BY <1>2, RisingBehind
  <2> QED
    BY <2>1 DEF Rising, InOrder
<1> QED
  BY <1>1, <1>2 DEF Sorted

(* BatchAlive' from the terms of the lemmas.                               *)
LEMMA AliveFrom ==
  ASSUME Elements(sl') \cup Elements(rest') \subseteq alloc',
         pc' = "call" => cur' \in alloc' \ (Elements(sl') \cup Elements(rest')),
         Elements(sl') \cap Elements(rest') = {},
         Once(sl'), Once(rest')
  PROVE  BatchAlive'
BY DEF BatchAlive, Listed, SL!Listed, SL!Extracted, Elements, Once

(* What BatchAlive says, in the terms of the lemmas.                       *)
LEMMA AliveFacts ==
  ASSUME IInv
  PROVE  /\ Elements(sl) \subseteq alloc /\ Elements(rest) \subseteq alloc
         /\ pc = "call" => cur \in alloc /\ cur \notin Elements(sl) /\ cur \notin Elements(rest)
         /\ Elements(sl) \cap Elements(rest) = {}
         /\ Once(sl) /\ Once(rest)
BY Facts DEF IInv, BatchAlive

-----------------------------------------------------------------------------
(* One lemma per action follows: what it does, and that it keeps IInv.     *)
LEMMA InitIInv == Init => IInv
<1> SUFFICES ASSUME Init PROVE IInv
  OBVIOUS
<1>1. /\ sl = <<>> /\ rest = <<>> /\ cur = NULL /\ pc = "idle" /\ left = 0
      /\ score = [x \in Timer |-> 0] /\ alloc = {} /\ now \in Clock
      /\ ms = [t \in Timer |-> 0]
  BY DEF Init, SL!Init
<1>2. <<>> \in Seq(Timer) /\ DOMAIN <<>> = {}
  OBVIOUS
<1>3. TypeOK
  BY <1>1, <1>2, TimerAssumption DEF TypeOK
<1>4. Sorted
  BY <1>1, <1>2 DEF Sorted, InOrder
<1>5. BatchAlive
  BY <1>1, <1>2 DEF BatchAlive, Listed, SL!Listed, SL!Extracted, Once
<1>6. WalkPlaced
  BY <1>1 DEF WalkPlaced
<1> QED
  BY <1>3, <1>4, <1>5, <1>6 DEF IInv

(* ep_timer_updatetime changes nothing but the time.                       *)
LEMMA StutterIInv ==
  ASSUME IInv, UNCHANGED <<sl, score, cur, rest, walk, alloc, ms>>, now' \in Clock
  PROVE  IInv'
<1>1. TypeOK'
  BY DEF IInv, TypeOK, walk
<1>2. Sorted'
  BY SameOrder DEF walk
<1>3. BatchAlive' /\ WalkPlaced'
  BY DEF IInv, BatchAlive, WalkPlaced, Listed, SL!Listed, SL!Extracted, walk, Once
<1> QED
  BY <1>1, <1>2, <1>3 DEF IInv

(* run_after, run_every and their callers, for the time c they go from.    *)
LEMMA CreateFacts ==
  ASSUME IInv, NEW t \in Timer, NEW d \in Delay, NEW p, NEW c \in Clock, Create(t, d, p, c)
  PROVE  /\ t \notin alloc /\ alloc' = alloc \cup {t} /\ ms' = [ms EXCEPT ![t] = p]
         /\ pc \in {"idle", "call"} /\ pc' = pc /\ left' = left
         /\ Add(c, d) \in 0 .. U64 - 1 /\ score' = [score EXCEPT ![t] = Add(c, d)]
         /\ sl' \in Seq(Timer) /\ Rising(score', sl') /\ Once(sl')
         /\ Elements(sl') = Elements(sl) \cup {t}
         /\ rest' = rest /\ cur' = cur
<1> DEFINE k == Add(c, d)
<1>1. k \in 0 .. U64 - 1
  BY SumInRange, TimerAssumption
<1> HIDE DEF k
<1>2. /\ t \notin alloc /\ alloc' = alloc \cup {t} /\ ms' = [ms EXCEPT ![t] = p]
      /\ pc \in {"idle", "call"} /\ pc' = pc /\ left' = left /\ SL!Insert(t, k)
  BY DEF Create, ClientRuns, walk, k
<1>3. /\ score' = [score EXCEPT ![t] = k]
      /\ sl' \in Seq(Timer) /\ Rising(score', sl') /\ Once(sl')
      /\ Elements(sl') = Elements(sl) \cup {t}
      /\ rest' = rest /\ cur' = cur
  BY <1>1, <1>2, InsertFacts, Facts
<1> QED
  BY <1>1, <1>2, <1>3 DEF k

(* A timer just allocated is on neither the list nor the walk.             *)
LEMMA CreateIInv ==
  ASSUME IInv, NEW t \in Timer, NEW d \in Delay, NEW p \in Delay \cup {0}, NEW c \in Clock,
         Create(t, d, p, c), now' \in Clock
  PROVE  IInv'
<1> DEFINE k == Add(c, d)
<1> HIDE DEF k
<1>1. k \in 0 .. U64 - 1
  BY CreateFacts DEF k
<1>2. /\ t \notin alloc /\ alloc' = alloc \cup {t} /\ ms' = [ms EXCEPT ![t] = p]
      /\ pc \in {"idle", "call"} /\ pc' = pc /\ left' = left
  BY CreateFacts
<1>3. /\ score' = [score EXCEPT ![t] = k]
      /\ sl' \in Seq(Timer) /\ Rising(score', sl') /\ Once(sl')
      /\ Elements(sl') = Elements(sl) \cup {t}
      /\ rest' = rest /\ cur' = cur
  BY CreateFacts DEF k
<1>4. TypeOK'
  BY <1>1, <1>2, <1>3 DEF IInv, TypeOK
<1>5. \A i \in DOMAIN rest : rest[i] \in Timer /\ rest[i] # t
  BY <1>2, AliveFacts, Facts DEF Elements
<1>6. Sorted'
  <2>1. score' \in [Timer -> Nat] /\ rest' \in Seq(Timer) /\ Rising(score', sl')
    BY <1>3, <1>4, Facts, TimerAssumption DEF TypeOK
  <2>2. Rising(score', rest')
    BY <1>3, <1>5, Facts DEF Rising
  <2>3. pc' = "call" => /\ cur' \in Timer
                        /\ \A i \in DOMAIN rest' : score'[cur'] <= score'[rest'[i]]
    <3>1. pc = "call" => cur \in Timer /\ cur # t
      BY <1>2, AliveFacts DEF IInv, TypeOK
    <3> QED
      BY <1>2, <1>3, <1>5, <3>1, Facts
  <2> QED
    BY <2>1, <2>2, <2>3, OrderFrom
<1>7. BatchAlive'
  <2>1. t \notin Elements(rest)
    BY <1>5 DEF Elements
  <2>2. /\ Elements(sl') \cup Elements(rest') \subseteq alloc'
        /\ Elements(sl') \cap Elements(rest') = {}
    BY <1>2, <1>3, <2>1, AliveFacts
  <2>3. pc' = "call" => cur' \in alloc' \ (Elements(sl') \cup Elements(rest'))
    BY <1>2, <1>3, AliveFacts
  <2> QED
    BY <1>3, <2>2, <2>3, AliveFacts, AliveFrom
<1>8. WalkPlaced'
  BY <1>2, <1>3 DEF IInv, WalkPlaced
<1> QED
  BY <1>4, <1>6, <1>7, <1>8 DEF IInv

(* ep_timer_clear, of a timer the walk does not lead to.                   *)
LEMMA ClearFacts ==
  ASSUME IInv, NEW t \in Timer, Clear(t)
  PROVE  /\ alloc' = alloc \ {t} /\ pc' = pc /\ pc \in {"idle", "call"}
         /\ left' = left /\ ms' = ms /\ now' = now
         /\ sl' \in Seq(Timer) /\ Rising(score, sl') /\ Once(sl')
         /\ Elements(sl') = Elements(sl) \ {t}
         /\ score' = score /\ rest' = rest /\ cur' = cur
         /\ t \notin Elements(rest) /\ (pc = "call" => t # cur)
<1>1. /\ t \notin InWalk /\ alloc' = alloc \ {t} /\ pc' = pc /\ pc \in {"idle", "call"}
      /\ left' = left /\ ms' = ms /\ now' = now
  BY DEF Clear, MayClear, ClientRuns, walk
<1>2. /\ sl' \in Seq(Timer) /\ Rising(score, sl') /\ Once(sl')
      /\ Elements(sl') = Elements(sl) \ {t}
      /\ score' = score /\ rest' = rest /\ cur' = cur
  <2>1. CASE t \in Listed
    BY <2>1, DeleteFacts, Facts DEF Clear
  <2>2. CASE t \notin Listed
    BY <2>2, Facts DEF Clear, lst
  <2> QED
    BY <2>1, <2>2
<1>3. t \notin Elements(rest) /\ (pc = "call" => t # cur)
  BY <1>1, Facts, TimerAssumption DEF InWalk, IInv, WalkPlaced
<1> QED
  BY <1>1, <1>2, <1>3

(* What has been cleared is on neither the list nor the walk.              *)
LEMMA ClearIInv ==
  ASSUME IInv, NEW t \in Timer, Clear(t)
  PROVE  IInv'
<1>1. /\ alloc' = alloc \ {t} /\ pc' = pc /\ pc \in {"idle", "call"}
      /\ left' = left /\ ms' = ms /\ now' = now
  BY ClearFacts
<1>2. /\ sl' \in Seq(Timer) /\ Rising(score, sl') /\ Once(sl')
      /\ Elements(sl') = Elements(sl) \ {t}
      /\ score' = score /\ rest' = rest /\ cur' = cur
  BY ClearFacts
<1>3. TypeOK'
  BY <1>1, <1>2 DEF IInv, TypeOK
<1>4. t \notin Elements(rest) /\ (pc = "call" => t # cur)
  BY ClearFacts
<1>5. Sorted'
  <2>1. pc' = "call" => /\ cur' \in Timer
                        /\ \A i \in DOMAIN rest' : score'[cur'] <= score'[rest'[i]]
    BY <1>1, <1>2, Facts DEF IInv, WalkPlaced
  <2> QED
    BY <1>2, <2>1, Facts, OrderFrom
<1>6. BatchAlive'
  <2>1. /\ Elements(sl') \cup Elements(rest') \subseteq alloc'
        /\ Elements(sl') \cap Elements(rest') = {}
        /\ pc' = "call" => cur' \in alloc' \ (Elements(sl') \cup Elements(rest'))
    BY <1>1, <1>2, <1>4, AliveFacts
  <2> QED
    BY <1>2, <2>1, AliveFacts, AliveFrom
<1>7. WalkPlaced'
  BY <1>1, <1>2 DEF IInv, WalkPlaced
<1> QED
  BY <1>3, <1>5, <1>6, <1>7 DEF IInv

(* ep_timer_execute up to the first callback.                              *)
LEMMA ExecuteIInv ==
  ASSUME IInv, NEW k \in Nat, NEW max \in MaxTimes, Execute(k, max), now' \in Clock
  PROVE  IInv'
<1>1. /\ pc' = IF cur' = NULL THEN "idle" ELSE "call"
      /\ left' \in {left, max} /\ alloc' = alloc /\ ms' = ms /\ SL!ExtractLte(k)
  BY DEF Execute
<1>2. /\ sl' \in Seq(Timer) /\ Rising(score, sl') /\ Once(sl')
      /\ rest' \in Seq(Timer) /\ Rising(score, rest') /\ Once(rest')
      /\ Elements(sl') \subseteq Elements(sl) /\ Elements(rest') \subseteq Elements(sl)
      /\ Elements(sl') \cap Elements(rest') = {}
      /\ cur' \in Timer \cup {NULL}
      /\ cur' = NULL => rest' = <<>>
      /\ cur' # NULL => /\ cur' \in Elements(sl) \ (Elements(sl') \cup Elements(rest'))
                        /\ \A i \in DOMAIN rest' : score[cur'] <= score[rest'[i]]
      /\ score' = score
  BY <1>1, ExtractFacts, Facts
<1>3. TypeOK'
  BY <1>1, <1>2, TimerAssumption DEF IInv, TypeOK
<1>4. Sorted'
  <2>1. pc' = "call" => /\ cur' \in Timer
                        /\ \A i \in DOMAIN rest' : score'[cur'] <= score'[rest'[i]]
    BY <1>1, <1>2
  <2> QED
    BY <1>2, <2>1, Facts, OrderFrom
<1>5. BatchAlive'
  <2>1. /\ Elements(sl') \cup Elements(rest') \subseteq alloc'
        /\ pc' = "call" => cur' \in alloc' \ (Elements(sl') \cup Elements(rest'))
    BY <1>1, <1>2, AliveFacts
  <2> QED
    BY <1>2, <2>1, AliveFrom
<1>6. WalkPlaced'
  BY <1>1, <1>2 DEF WalkPlaced
<1> QED
  BY <1>3, <1>4, <1>5, <1>6 DEF IInv

(***************************************************************************)
(* An interval goes back on the list with a new score; the timers left in  *)
(* the walk keep theirs.                                                   *)
(***************************************************************************)
LEMMA ReinsertFacts ==
  ASSUME IInv, Return, ms[cur] > 0
  PROVE  /\ score[cur] \in Nat /\ ms[cur] \in Nat
         /\ Add(score[cur], ms[cur]) \in 0 .. U64 - 1 /\ alloc' = alloc
         /\ score' = [score EXCEPT ![cur] = Add(score[cur], ms[cur])]
         /\ sl' \in Seq(Timer) /\ Rising(score', sl') /\ Once(sl')
         /\ Elements(sl') = Elements(sl) \cup {cur}
         /\ rest' = rest /\ cur' = cur
<1> DEFINE k == Add(score[cur], ms[cur])
<1>1. cur \in Timer
  BY DEF Return, IInv, WalkPlaced
<1>2. score[cur] \in Nat /\ ms[cur] \in Nat
  <2>1. score[cur] \in Nat
    BY <1>1, Facts
  <2>2. ms[cur] \in Delay \cup {0}
    BY <1>1 DEF IInv, TypeOK
  <2>3. \A d \in Delay \cup {0} : d \in Nat
    BY TimerAssumption
  <2> QED
    BY <2>1, <2>2, <2>3
<1>3. k \in 0 .. U64 - 1
  BY <1>2, SumInRange
<1> HIDE DEF k
<1>4. SL!Insert(cur, k) /\ alloc' = alloc
  BY DEF Return, Reinsert, k
<1>5. /\ score' = [score EXCEPT ![cur] = k]
      /\ sl' \in Seq(Timer) /\ Rising(score', sl') /\ Once(sl')
      /\ Elements(sl') = Elements(sl) \cup {cur}
      /\ rest' = rest /\ cur' = cur
  BY <1>1, <1>3, <1>4, InsertFacts, Facts
<1> QED
  BY <1>2, <1>3, <1>4, <1>5 DEF k

(* Behind a callback: reinserted or freed, the timer is not in rest.       *)
LEMMA ReturnIInv ==
  ASSUME IInv, Return
  PROVE  IInv'
<1>1. /\ pc = "call" /\ pc' = "next" /\ left' = left /\ ms' = ms /\ now' = now
      /\ cur \in Timer
  BY DEF Return, IInv, WalkPlaced
<1>2. CASE ms[cur] > 0
  <2> DEFINE k == Add(score[cur], ms[cur])
  <2> HIDE DEF k
  <2>1. k \in 0 .. U64 - 1
    BY <1>2, ReinsertFacts DEF k
  <2>2. alloc' = alloc
    BY <1>2, ReinsertFacts
  <2>3. /\ score' = [score EXCEPT ![cur] = k]
        /\ sl' \in Seq(Timer) /\ Rising(score', sl') /\ Once(sl')
        /\ Elements(sl') = Elements(sl) \cup {cur}
        /\ rest' = rest /\ cur' = cur
    BY <1>2, ReinsertFacts DEF k
  <2>4. TypeOK'
    BY <1>1, <2>1, <2>2, <2>3 DEF IInv, TypeOK
  <2>5. \A i \in DOMAIN rest : rest[i] \in Timer /\ rest[i] # cur
    BY <1>1, AliveFacts, Facts DEF Elements
  <2>6. Sorted'
    <3>1. score' \in [Timer -> Nat]
      BY <2>4, TimerAssumption DEF TypeOK
    <3>2. Rising(score', rest')
      BY <2>3, <2>5, Facts DEF Rising
    <3> QED
      BY <1>1, <2>3, <3>1, <3>2, Facts, OrderFrom
  <2>7. BatchAlive'
    <3>1. /\ Elements(sl') \cup Elements(rest') \subseteq alloc'
          /\ Elements(sl') \cap Elements(rest') = {}
      BY <1>1, <2>2, <2>3, AliveFacts
    <3> QED
      BY <1>1, <2>3, <3>1, AliveFacts, AliveFrom
  <2>8. WalkPlaced'
    BY <1>1, <2>3, AliveFacts DEF WalkPlaced, SL!Extracted, Elements
  <2> QED
    BY <2>4, <2>6, <2>7, <2>8 DEF IInv
<1>3. CASE ~(ms[cur] > 0)
  <2>1. UNCHANGED <<sl, score, cur, rest>> /\ alloc' = alloc \ {cur}
    BY <1>3 DEF Return, Destroy, lst
  <2>2. TypeOK'
    BY <1>1, <2>1 DEF IInv, TypeOK
  <2>3. Sorted'
    BY <1>1, <2>1, SameOrder
  <2>4. BatchAlive'
    <3>1. /\ Elements(sl') \cup Elements(rest') \subseteq alloc'
          /\ Elements(sl') \cap Elements(rest') = {}
      BY <1>1, <2>1, AliveFacts
    <3> QED
      BY <1>1, <2>1, <3>1, AliveFacts, AliveFrom
  <2>5. WalkPlaced'
    BY <1>1, <2>1, AliveFacts DEF WalkPlaced, SL!Extracted, Elements
  <2> QED
    BY <2>2, <2>3, <2>4, <2>5 DEF IInv
<1> QED
  BY <1>2, <1>3

(* The walk goes on to the next timer, breaks off or ends.                 *)
LEMMA AdvanceIInv ==
  ASSUME IInv, Advance
  PROVE  IInv'
<1>1. /\ pc = "next" /\ ms' = ms /\ now' = now /\ alloc' = alloc /\ cur \in Timer /\ cur # NULL
      /\ pc' = IF cur' = NULL THEN "idle" ELSE "call"
      /\ left' \in Int
  BY TimerAssumption DEF Advance, IInv, TypeOK, WalkPlaced
<1>2. CASE cur' = NULL /\ rest' = <<>> /\ UNCHANGED <<sl, score>>
  <2>1. <<>> \in Seq(Timer) /\ DOMAIN <<>> = {}
    OBVIOUS
  <2>2. Elements(rest') = {} /\ Rising(score', rest') /\ Once(rest')
    BY <1>2, <2>1 DEF Elements, Rising, Once
  <2>3. TypeOK'
    BY <1>1, <1>2, <2>1 DEF IInv, TypeOK
  <2>4. Sorted'
    BY <1>1, <1>2, <2>1, <2>2, Facts, OrderFrom
  <2>5. BatchAlive'
    BY <1>1, <1>2, <2>2, AliveFacts, AliveFrom
  <2>6. WalkPlaced'
    BY <1>1, <1>2 DEF WalkPlaced
  <2> QED
    BY <2>3, <2>4, <2>5, <2>6 DEF IInv
<1>3. CASE rest # <<>> /\ cur' = Head(rest) /\ rest' = Tail(rest) /\ UNCHANGED <<sl, score>>
  <2>1. /\ cur' \in Elements(rest) /\ cur' \in Timer /\ cur' # NULL
        /\ rest' \in Seq(Timer) /\ Rising(score, rest') /\ Once(rest')
        /\ Elements(rest') = Elements(rest) \ {cur'}
        /\ \A i \in DOMAIN rest' : score[cur'] <= score[rest'[i]]
    BY <1>3, HeadFacts, Facts, TimerAssumption
  <2>2. TypeOK'
    BY <1>1, <1>3, <2>1 DEF IInv, TypeOK
  <2>3. Sorted'
    BY <1>3, <2>1, Facts, OrderFrom
  <2>4. BatchAlive'
    <3>1. /\ Elements(sl') \cup Elements(rest') \subseteq alloc'
          /\ Elements(sl') \cap Elements(rest') = {}
          /\ cur' \in alloc' \ (Elements(sl') \cup Elements(rest'))
      BY <1>1, <1>3, <2>1, AliveFacts
    <3> QED
      BY <1>3, <2>1, <3>1, AliveFacts, AliveFrom
  <2>5. WalkPlaced'
    BY <1>1, <2>1 DEF WalkPlaced
  <2> QED
    BY <2>2, <2>3, <2>4, <2>5 DEF IInv
<1> QED
  BY <1>1, <1>2, <1>3 DEF Advance, SL!Abandon, SL!NextExtracted

(* ep_timer_fini frees exactly what it takes off the list.                 *)
LEMMA FiniIInv ==
  ASSUME IInv, Fini
  PROVE  IInv'
<1>1. /\ pc = "idle" /\ pc' = pc /\ left' = left /\ ms' = ms /\ now' = now
      /\ sl' = <<>> /\ UNCHANGED <<score, cur, rest>> /\ alloc' = alloc \ Listed
  BY DEF Fini, SL!Clear, walk
<1>2. <<>> \in Seq(Timer) /\ DOMAIN <<>> = {}
  OBVIOUS
<1>3. Elements(sl') = {} /\ Rising(score', sl') /\ Once(sl')
  BY <1>1, <1>2 DEF Elements, Rising, Once
<1>4. TypeOK'
  BY <1>1, <1>2 DEF IInv, TypeOK
<1>5. Sorted'
  BY <1>1, <1>2, <1>3, Facts, OrderFrom
<1>6. BatchAlive'
  BY <1>1, <1>3, Facts, AliveFacts, AliveFrom
<1>7. WalkPlaced'
  BY <1>1 DEF IInv, WalkPlaced
<1> QED
  BY <1>4, <1>5, <1>6, <1>7 DEF IInv

(* Every step keeps the invariant.                                         *)
LEMMA NextIInv == IInv /\ [Next]_vars => IInv'
<1> SUFFICES ASSUME IInv, [Next]_vars PROVE IInv'
  OBVIOUS
<1>0. now \in Clock
  BY DEF IInv, TypeOK
<1>1. ASSUME NEW c \in Clock, UpdateTime(c) PROVE IInv'
  BY <1>1, StutterIInv DEF UpdateTime
<1>2. ASSUME NEW t \in Timer, NEW d \in Delay, RunAfter(t, d) \/ RunEvery(t, d) PROVE IInv'
  <2>1. now' \in Clock
    BY <1>0, <1>2 DEF RunAfter, RunEvery
  <2> QED
    BY <1>0, <1>2, <2>1, CreateIInv DEF RunAfter, RunEvery
<1>3. ASSUME NEW t \in Timer, NEW d \in Delay, NEW c \in Clock,
             SetTimeout(t, d, c) \/ SetInterval(t, d, c)
      PROVE  IInv'
  <2>1. now' \in Clock
    BY <1>3 DEF SetTimeout, SetInterval
  <2> QED
    BY <1>3, <2>1, CreateIInv DEF SetTimeout, SetInterval
<1>4. ASSUME NEW t \in Timer, Clear(t) PROVE IInv'
  BY <1>4, ClearIInv
<1>5. ASSUME NEW d \in Delay, NEW max \in MaxTimes, ExecuteAt(Add(now, d), max) PROVE IInv'
  <2>1. Add(now, d) \in Nat
    BY <1>0, SumInRange, TimerAssumption
  <2> QED
    BY <1>0, <1>5, <2>1, ExecuteIInv DEF ExecuteAt
<1>6. ASSUME NEW c \in Clock, NEW max \in MaxTimes, ExecuteNow(c, max) PROVE IInv'
  <2>1. c \in Nat
    BY TimerAssumption
  <2> QED
    BY <1>6, <2>1, ExecuteIInv DEF ExecuteNow
<1>7. ASSUME Fini PROVE IInv'
  BY <1>7, FiniIInv
<1>8. ASSUME Loop PROVE IInv'
  BY <1>8, ReturnIInv, AdvanceIInv DEF Loop
<1>9. ASSUME UNCHANGED vars PROVE IInv'
  BY <1>0, <1>9, StutterIInv DEF vars, walk
<1> QED
  BY <1>1, <1>2, <1>3, <1>4, <1>5, <1>6, <1>7, <1>8, <1>9 DEF Next

(* In every reachable state of ep_timer.h the inductive invariant holds.   *)
THEOREM TimerInvariance == Spec => []IInv
<1> QED
  BY InitIInv, NextIInv, PTL DEF Spec

(***************************************************************************)
(* Scores stay in a uint64_t and everything on the list or in a walk is a  *)
(* timer.                                                                  *)
(***************************************************************************)
THEOREM TimerTypeCorrect == Spec => []TypeOK
<1>1. IInv => TypeOK
  BY DEF IInv
<1> QED
  BY <1>1, TimerInvariance, PTL

(***************************************************************************)
(* The list of timers and the rest of a walk of ep_timer_execute are in    *)
(* the order in which they are due, whatever the callbacks set, clear or   *)
(* reinsert.                                                               *)
(***************************************************************************)
THEOREM TimersSorted == Spec => []Sorted
<1>1. IInv => Sorted
  BY DEF IInv
<1> QED
  BY <1>1, TimerInvariance, PTL

(***************************************************************************)
(* What the list and the walk of ep_timer_execute lead to is allocated and *)
(* there once, so the walk never reads a freed timer and frees none twice. *)
(***************************************************************************)
THEOREM BatchStaysAlive == Spec => []BatchAlive
<1>1. IInv => BatchAlive
  BY DEF IInv
<1> QED
  BY <1>1, TimerInvariance, PTL
=============================================================================
