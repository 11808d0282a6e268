--------------------------- MODULE SkipListProofs ---------------------------
(***************************************************************************)
(* Proofs that the levels of SkipList are shortcuts through one list, and  *)
(* that this list is OrderedList, for any number of nodes and levels and   *)
(* any heights.                                                            *)
(***************************************************************************)
EXTENDS SkipList, SequenceTheorems, FiniteSetTheorems, WellFoundedInduction, TLAPS

-----------------------------------------------------------------------------
(* Sequences                                                               *)

Once(q) == \A j, k \in 1 .. Len(q) : q[j] = q[k] => j = k

(* What comes behind position j.                                           *)
After(q, j) == SubSeq(q, j + 1, Len(q))

LEMMA PartIs ==
  ASSUME NEW T, NEW t \in Seq(T), NEW i \in 1 .. Len(t) + 1, NEW j \in 0 .. Len(t), i <= j + 1
  PROVE  /\ SubSeq(t, i, j) \in Seq(T)
         /\ Len(SubSeq(t, i, j)) = j + 1 - i
         /\ \A k \in 1 .. j + 1 - i : SubSeq(t, i, j)[k] = t[i + k - 1]
<1>1. PICK m \in Nat : m = Len(t)
  BY LenProperties
<1>2. \A k \in i .. j : t[k] \in T
  BY <1>1, ElementOfSeq
<1>3. i \in Int /\ j \in Int
  BY <1>1
<1>4. CASE i <= j
  BY <1>2, <1>3, <1>4, SubSeqProperties
<1>5. CASE i = j + 1
  BY <1>2, <1>3, <1>5, SubSeqProperties
<1> QED
  BY <1>1, <1>3, <1>4, <1>5

(* Where the elements are after an insertion at position l.                *)
LEMMA InsertAtIs ==
  ASSUME NEW T, NEW q \in Seq(T), NEW l \in 1 .. Len(q) + 1, NEW x \in T
  PROVE  /\ InsertAt(q, l, x) \in Seq(T)
         /\ Len(InsertAt(q, l, x)) = Len(q) + 1
         /\ \A i \in 1 .. l - 1 : InsertAt(q, l, x)[i] = q[i]
         /\ InsertAt(q, l, x)[l] = x
         /\ \A i \in l + 1 .. Len(q) + 1 : InsertAt(q, l, x)[i] = q[i - 1]
<1> DEFINE a == SubSeq(q, 1, l - 1)  b == <<x>>  c == SubSeq(q, l, Len(q))
<1>1. /\ a \in Seq(T) /\ Len(a) = l - 1
      /\ \A i \in 1 .. l - 1 : a[i] = q[i]
  <2>1. \A i \in 1 .. l - 1 : q[i] \in T
    BY ElementOfSeq
  <2> QED
    BY <2>1, SubSeqProperties
<1>2. b \in Seq(T) /\ Len(b) = 1 /\ b[1] = x
  OBVIOUS
<1>3. /\ c \in Seq(T) /\ Len(c) = Len(q) - l + 1
      /\ \A i \in 1 .. Len(q) - l + 1 : c[i] = q[l + i - 1]
  <2>1. \A i \in l .. Len(q) : q[i] \in T
    BY ElementOfSeq
  <2> QED
    BY <2>1, SubSeqProperties
<1> DEFINE d == a \o b  e == d \o c
<1> HIDE DEF a, b, c
<1>4. /\ d \in Seq(T) /\ Len(d) = Len(a) + Len(b)
      /\ \A i \in 1 .. Len(a) + Len(b) : d[i] = IF i <= Len(a) THEN a[i] ELSE b[i - Len(a)]
  <2>1. a \in Seq(T) /\ b \in Seq(T)
    BY <1>1, <1>2
  <2> QED
    BY <2>1, ConcatProperties
<1> HIDE DEF d
<1>5. /\ e \in Seq(T) /\ Len(e) = Len(d) + Len(c)
      /\ \A i \in 1 .. Len(d) + Len(c) : e[i] = IF i <= Len(d) THEN d[i] ELSE c[i - Len(d)]
  <2>1. d \in Seq(T) /\ c \in Seq(T)
    BY <1>3, <1>4
  <2> QED
    BY <2>1, ConcatProperties
<1>6. InsertAt(q, l, x) = e
  BY DEF InsertAt, a, b, c, d, e
<1> HIDE DEF e
<1>7. Len(q) \in Nat /\ Len(a) = l - 1 /\ Len(b) = 1 /\ Len(d) = l /\ Len(c) = Len(q) - l + 1
  BY <1>1, <1>2, <1>3, <1>4, LenProperties
<1>8. ASSUME NEW i \in 1 .. Len(q) + 1
      PROVE  e[i] = IF i < l THEN q[i] ELSE IF i = l THEN x ELSE q[i - 1]
  <2>0. e[i] = IF i <= l THEN d[i] ELSE c[i - l]
    BY <1>5, <1>7
  <2>1. CASE i < l
    <3>1. d[i] = a[i]
      BY <2>1, <1>4, <1>7
    <3> QED
      BY <2>0, <2>1, <3>1, <1>1
  <2>2. CASE i = l
    <3>1. d[i] = b[1]
      BY <2>2, <1>4, <1>7
    <3> QED
      BY <2>0, <2>2, <3>1, <1>2
  <2>3. CASE i > l
    <3> DEFINE j == i - l
    <3>1. j \in 1 .. Len(q) - l + 1 /\ l + j - 1 = i - 1
      BY <2>3, <1>7
    <3>2. e[i] = c[j]
      BY <2>0, <2>3
    <3> HIDE DEF j
    <3>3. c[j] = q[l + j - 1]
      BY <3>1, <1>3
    <3> QED
      BY <2>3, <3>1, <3>2, <3>3
  <2> QED
    BY <2>1, <2>2, <2>3
<1> QED
  BY <1>5, <1>6, <1>7, <1>8

(* Where the elements are after the removal of position p.                 *)
LEMMA RemoveAtIs ==
  ASSUME NEW T, NEW q \in Seq(T), NEW p \in 1 .. Len(q)
  PROVE  /\ RemoveAt(q, p) \in Seq(T)
         /\ Len(RemoveAt(q, p)) = Len(q) - 1
         /\ \A i \in 1 .. Len(q) - 1 : RemoveAt(q, p)[i] =
              IF i < p THEN q[i] ELSE q[i + 1]
<1> DEFINE a == SubSeq(q, 1, p - 1)  c == SubSeq(q, p + 1, Len(q))
<1>1. /\ a \in Seq(T) /\ Len(a) = p - 1
      /\ \A i \in 1 .. p - 1 : a[i] = q[i]
  <2>1. \A i \in 1 .. p - 1 : q[i] \in T
    BY ElementOfSeq
  <2> QED
    BY <2>1, SubSeqProperties
<1>2. /\ c \in Seq(T) /\ Len(c) = Len(q) - p
      /\ \A i \in 1 .. Len(q) - p : c[i] = q[p + i]
  <2>1. \A i \in p + 1 .. Len(q) : q[i] \in T
    BY ElementOfSeq
  <2> QED
    BY <2>1, SubSeqProperties
<1> DEFINE e == a \o c
<1> HIDE DEF a, c
<1>3. /\ e \in Seq(T) /\ Len(e) = Len(a) + Len(c)
      /\ \A i \in 1 .. Len(a) + Len(c) : e[i] = IF i <= Len(a) THEN a[i] ELSE c[i - Len(a)]
  BY <1>1, <1>2, ConcatProperties
<1>4. RemoveAt(q, p) = e
  BY DEF RemoveAt, a, c, e
<1> HIDE DEF e
<1>5. Len(a) = p - 1 /\ Len(c) = Len(q) - p /\ Len(e) = Len(q) - 1
  BY <1>1, <1>2, <1>3
<1>6. ASSUME NEW i \in 1 .. Len(q) - 1
      PROVE  e[i] = IF i < p THEN q[i] ELSE q[i + 1]
  <2>0. e[i] = IF i <= p - 1 THEN a[i] ELSE c[i - (p - 1)]
    BY <1>3, <1>5
  <2>1. CASE i < p
    BY <2>0, <2>1, <1>1
  <2>2. CASE i >= p
    <3> DEFINE j == i - (p - 1)
    <3>1. j \in 1 .. Len(q) - p /\ p + j = i + 1
      BY <2>2
    <3>2. e[i] = c[j]
      BY <2>0, <2>2
    <3> HIDE DEF j
    <3>3. c[j] = q[p + j]
      BY <3>1, <1>2
    <3> QED
      BY <2>2, <3>1, <3>2, <3>3
  <2> QED
    BY <2>1, <2>2
<1> QED
  BY <1>3, <1>4, <1>5, <1>6

LEMMA AfterIs ==
  ASSUME NEW T, NEW q \in Seq(T), NEW j \in 0 .. Len(q)
  PROVE  /\ After(q, j) \in Seq(T)
         /\ Len(After(q, j)) = Len(q) - j
         /\ \A k \in 1 .. Len(q) - j : After(q, j)[k] = q[j + k]
<1>1. PICK m \in Nat : m = Len(q)
  BY LenProperties
<1>2. /\ j + 1 \in 1 .. Len(q) + 1 /\ Len(q) \in 0 .. Len(q) /\ j + 1 <= Len(q) + 1
      /\ Len(q) + 1 - (j + 1) = Len(q) - j /\ \A k \in 1 .. Len(q) - j : (j + 1) + k - 1 = j + k
  BY <1>1
<1> QED
  BY <1>2, PartIs DEF After

LEMMA NodesOf ==
  ASSUME NEW q \in Seq(Node)
  PROVE  /\ Len(q) \in Nat /\ DOMAIN q = 1 .. Len(q)
         /\ \A j \in 1 .. Len(q) : q[j] \in Node /\ q[j] \in Nodes(q)
         /\ \A y \in Nodes(q) : y \in Node /\ \E j \in 1 .. Len(q) : q[j] = y
  BY LenProperties, ElementOfSeq DEF Nodes

-----------------------------------------------------------------------------
(* Paths                                                                   *)

(* Position 0 of a path is where it starts; behind the last there is none. *)
At(x, q, j) == IF j = 0 THEN x ELSE IF j \in 1 .. Len(q) THEN q[j] ELSE NULL

(* The pointers F lead on level i from x along q, and no further.          *)
Leads(F, i, x, q) ==
  /\ q \in Seq(Node) /\ Once(q) /\ x \notin Nodes(q)
  /\ \A j \in 0 .. Len(q) : F[At(x, q, j)][i] = At(x, q, j + 1)

LEMMA AtIs ==
  ASSUME NEW x, NEW q \in Seq(Node)
  PROVE  /\ At(x, q, 0) = x
         /\ \A j \in 1 .. Len(q) : At(x, q, j) = q[j] /\ q[j] \in Node
         /\ At(x, q, Len(q) + 1) = NULL
         /\ \A j \in 0 .. Len(q) : At(x, q, j) \in {x} \cup Nodes(q)
  BY NodesOf DEF At

(* The positions of a path are apart.                                      *)
LEMMA AtOnce ==
  ASSUME NEW F, NEW i, NEW x, NEW q, Leads(F, i, x, q),
         NEW j \in 0 .. Len(q), NEW k \in 0 .. Len(q), At(x, q, j) = At(x, q, k)
  PROVE  j = k
<1>1. q \in Seq(Node) /\ Once(q) /\ x \notin Nodes(q)
  BY DEF Leads
<1>2. PICK m \in Nat : m = Len(q)
  BY <1>1, NodesOf
<1>3. ASSUME NEW l \in 1 .. m PROVE At(x, q, l) = q[l] /\ q[l] # x
  <2>1. l \in 1 .. Len(q) /\ l # 0
    BY <1>2
  <2>2. q[l] \in Nodes(q)
    BY <2>1, <1>1, NodesOf
  <2> QED
    BY <2>1, <2>2, <1>1 DEF At
<1>4. At(x, q, 0) = x
  BY <1>1, AtIs
<1>5. CASE j = 0 \/ k = 0
  <2>1. j \in 1 .. m \/ j = 0
    BY <1>2
  <2>2. k \in 1 .. m \/ k = 0
    BY <1>2
  <2> QED
    BY <1>3, <1>4, <1>5, <2>1, <2>2
<1>6. CASE j # 0 /\ k # 0
  <2>1. j \in 1 .. Len(q) /\ k \in 1 .. Len(q)
    BY <1>2, <1>6
  <2> QED
    BY <2>1, <1>1, <1>2, <1>3 DEF Once
<1> QED
  BY <1>5, <1>6

LEMMA OnceIsShort ==
  ASSUME NEW q \in Seq(Node), Once(q)
  PROVE  Len(q) <= Cardinality(Node) /\ Cardinality(Node) \in Nat
<1>1. Len(q) \in Nat /\ DOMAIN q = 1 .. Len(q) /\ q \in [1 .. Len(q) -> Node]
  BY LenProperties
<1>2. q \in Injection(1 .. Len(q), Node)
  BY <1>1 DEF Injection, IsInjective, Once
<1>3. IsFiniteSet(Node)
  BY SkipListAssumption
<1>4. Cardinality(1 .. Len(q)) <= Cardinality(Node)
  BY <1>2, <1>3, FS_Injection
<1>5. Cardinality(1 .. Len(q)) = Len(q)
  BY <1>1, FS_Interval
<1>6. Cardinality(Node) \in Nat
  BY <1>3, FS_CardinalityType
<1> QED
  BY <1>4, <1>5, <1>6

(***************************************************************************)
(* Along is a recursive function: the prefixes of q satisfy its equation,  *)
(* and whatever satisfies it agrees with them (where it did not for the    *)
(* first time the step before would be wrong).                             *)
(***************************************************************************)
LEMMA AlongIs ==
  ASSUME NEW F, NEW i, NEW x, NEW q, Leads(F, i, x, q)
  PROVE  Along(F, x, i) = q
<1>0. q \in Seq(Node) /\ Once(q) /\ \A j \in 0 .. Len(q) : F[At(x, q, j)][i] = At(x, q, j + 1)
  BY DEF Leads
<1> DEFINE C == Cardinality(Node)
           Step(s) == LET y == F[IF s = <<>> THEN x ELSE Last(s)][i]
                      IN  IF y = NULL THEN s ELSE Append(s, y)
           Body(v) == [k \in Nat |-> IF k = 0 THEN <<>> ELSE Step(v[k - 1])]
           First(k) == SubSeq(q, 1, IF k <= Len(q) THEN k ELSE Len(q))
           w == [k \in Nat |-> First(k)]
           V == CHOOSE v : v = Body(v)
<1>1. C \in Nat /\ Len(q) \in Nat /\ Len(q) <= C
  BY <1>0, OnceIsShort, LenProperties
<1> HIDE DEF C
<1>2. First(0) = <<>>
  BY <1>0, <1>1, SubSeqEmpty
<1>3. ASSUME NEW k \in Nat \ {0} PROVE First(k) = Step(First(k - 1))
  <2>1. CASE k <= Len(q)
    <3> DEFINE s == SubSeq(q, 1, k - 1)
    <3>1. First(k - 1) = s /\ First(k) = SubSeq(q, 1, k)
      BY <2>1, <1>1
    <3>2. s \in Seq(Node) /\ Len(s) = k - 1 /\ \A j \in 1 .. k - 1 : s[j] = q[j]
      <4>1. \A j \in 1 .. k - 1 : q[j] \in Node
        BY <2>1, <1>1, <1>0, ElementOfSeq
      <4> QED
        BY <4>1, SubSeqProperties
    <3>3. q[k] \in Node /\ SubSeq(q, 1, k) = s \o <<q[k]>>
      BY <2>1, <1>1, SubSeqRecursiveSecond, <1>0, ElementOfSeq
    <3> HIDE DEF s
    <3>4. F[IF s = <<>> THEN x ELSE Last(s)][i] = q[k]
      <4>0. k - 1 \in 0 .. Len(q) /\ F[At(x, q, k - 1)][i] = At(x, q, (k - 1) + 1)
        BY <2>1, <1>0, <1>1
      <4>1. At(x, q, (k - 1) + 1) = q[k]
        BY <2>1, <1>0, <1>1 DEF At
      <4>2. (IF s = <<>> THEN x ELSE Last(s)) = At(x, q, k - 1)
        <5>1. CASE k = 1
          BY <5>1, <3>2, EmptySeq DEF At
        <5>2. CASE k # 1
          <6>1. s # <<>> /\ k - 1 \in 1 .. Len(q) /\ Len(s) \in 1 .. k - 1
            BY <5>2, <2>1, <1>1, <3>2, EmptySeq
          <6> QED
            BY <6>1, <3>2 DEF At, Last
        <5> QED
          BY <5>1, <5>2
      <4> QED
        BY <4>0, <4>1, <4>2
    <3>5. q[k] # NULL
      BY <3>3, SkipListAssumption
    <3>6. Step(s) = Append(s, q[k])
      BY <3>4, <3>5
    <3>7. Append(s, q[k]) = s \o <<q[k]>>
      BY <3>2, <3>3, AppendIsConcat
    <3> QED
      BY <3>1, <3>3, <3>6, <3>7
  <2>2. CASE k > Len(q)
    <3>1. First(k - 1) = q /\ First(k) = q
      <4>1. SubSeq(q, 1, Len(q)) = q
        BY <1>0, SubSeqFull
      <4>2. \A j \in {k - 1, k} : (IF j <= Len(q) THEN j ELSE Len(q)) = Len(q)
        BY <2>2, <1>1
      <4>3. First(k - 1) = SubSeq(q, 1, Len(q)) /\ First(k) = SubSeq(q, 1, Len(q))
        BY <4>2
      <4> QED
        BY <4>1, <4>3
    <3>2. F[IF q = <<>> THEN x ELSE Last(q)][i] = NULL
      <4>1. Len(q) \in 0 .. Len(q) /\ At(x, q, Len(q) + 1) = NULL
        BY <1>0, <1>1 DEF At
      <4>2. (IF q = <<>> THEN x ELSE Last(q)) = At(x, q, Len(q))
        BY <1>0, <1>1, EmptySeq DEF At, Last
      <4> QED
        BY <4>1, <4>2, <1>0
    <3>3. Step(q) = q
      BY <3>2
    <3> HIDE DEF First, Step
    <3> QED
      BY <3>1, <3>3
  <2> QED
    BY <2>1, <2>2, <1>1
<1> HIDE DEF First, Step
<1>4. w = Body(w)
  <2>1. \A k \in Nat \ {0} : k - 1 \in Nat
    OBVIOUS
  <2>2. \A k \in Nat \ {0} : w[k] = Step(w[k - 1])
    BY <2>1, <1>3
  <2>3. \A k \in Nat : w[k] = IF k = 0 THEN <<>> ELSE Step(w[k - 1])
    BY <2>2, <1>2
  <2> QED
    BY <2>3
<1>5. V = Body(V)
  <2> HIDE DEF Body, w
  <2> QED
    BY <1>4
<1>6. Along(F, x, i) = V[C]
  BY DEF Along, C, Step
<1> HIDE DEF V
<1>7. V[0] = <<>> /\ \A k \in Nat \ {0} : V[k] = Step(V[k - 1])
  <2>1. \A k \in Nat : V[k] = IF k = 0 THEN <<>> ELSE Step(V[k - 1])
    BY <1>5
  <2> QED
    BY <2>1
<1>8. V[C] = First(C)
  <2> DEFINE wrong == {k \in Nat : V[k] # First(k)}
             before == OpToRel(<, Nat)
  <2>1. SUFFICES ASSUME wrong # {} PROVE FALSE
    BY <1>1
  <2>2. wrong \subseteq Nat
    OBVIOUS
  <2>3. before = {pair \in Nat \X Nat : pair[1] < pair[2]}
    BY DEF OpToRel
  <2>4. IsWellFoundedOn(before, Nat)
    BY NatLessThanWellFounded
  <2> HIDE DEF before
  <2>5. PICK m \in wrong : \A j \in wrong : ~(<<j, m>> \in before)
    <3> HIDE DEF wrong
    <3> QED
      BY <2>1, <2>2, <2>4, WFMin
  <2>6. \A j \in wrong : ~(j < m)
    BY <2>2, <2>3, <2>5
  <2>7. m \in Nat \ {0}
    BY <1>2, <1>7
  <2>8. m - 1 \in Nat /\ m - 1 < m
    BY <2>7
  <2>9. V[m - 1] = First(m - 1)
    BY <2>6, <2>8
  <2>10. V[m] = First(m)
    BY <2>7, <2>9, <1>3, <1>7
  <2> QED
    BY <2>5, <2>10
<1>9. First(C) = q
  <2>1. SubSeq(q, 1, Len(q)) = q
    BY <1>0, SubSeqFull
  <2>2. (IF C <= Len(q) THEN C ELSE Len(q)) = Len(q)
    BY <1>1
  <2>3. First(C) = SubSeq(q, 1, Len(q))
    BY <2>2 DEF First
  <2> QED
    BY <2>1, <2>3
<1> QED
  BY <1>6, <1>8, <1>9

(* A path is also one from any of its nodes.                               *)
LEMMA LeadsFrom ==
  ASSUME NEW F, NEW i, NEW x, NEW q, Leads(F, i, x, q), NEW j \in 0 .. Len(q)
  PROVE  Leads(F, i, At(x, q, j), After(q, j))
<1> DEFINE r == After(q, j)  y == At(x, q, j)
<1>1. q \in Seq(Node) /\ Once(q) /\ x \notin Nodes(q)
      /\ \A k \in 0 .. Len(q) : F[At(x, q, k)][i] = At(x, q, k + 1)
  BY DEF Leads
<1>2. PICK m \in Nat : m = Len(q)
  BY <1>1, NodesOf
<1>3. r \in Seq(Node) /\ Len(r) = m - j /\ \A k \in 1 .. m - j : r[k] = q[j + k]
  BY <1>1, <1>2, AfterIs
<1> HIDE DEF r
<1>4. ASSUME NEW k \in 1 .. m - j PROVE j + k \in 1 .. Len(q) /\ r[k] = q[j + k]
  BY <1>2, <1>3
<1>5. ASSUME NEW k \in 1 .. Len(r), NEW l \in 1 .. Len(r), r[k] = r[l] PROVE k = l
  <2>1. k \in 1 .. m - j /\ l \in 1 .. m - j
    BY <1>3
  <2>2. j + k = j + l
    BY <2>1, <1>1, <1>4, <1>5 DEF Once
  <2> QED
    BY <2>1, <2>2
<1>6. ASSUME NEW k \in 1 .. Len(r) PROVE r[k] # y
  <2>1. j + k \in 0 .. Len(q) /\ j + k # j /\ j + k \in 1 .. Len(q) /\ r[k] = q[j + k]
    BY <1>2, <1>3, <1>4
  <2>2. r[k] = At(x, q, j + k)
    BY <2>1 DEF At
  <2> QED
    BY <2>1, <2>2, AtOnce
<1>7. ASSUME NEW k \in 0 .. Len(r) + 1 PROVE At(y, r, k) = At(x, q, j + k)
  <2>1. CASE k = 0
    BY <2>1, <1>2 DEF At
  <2>2. CASE k \in 1 .. Len(r)
    <3>1. j + k \in 1 .. Len(q) /\ r[k] = q[j + k] /\ k # 0 /\ j + k # 0
      BY <2>2, <1>2, <1>3, <1>4
    <3> QED
      BY <2>2, <3>1 DEF At
  <2>3. CASE k = Len(r) + 1
    <3>1. j + k = Len(q) + 1 /\ k \notin 1 .. Len(r) /\ k # 0 /\ j + k \notin 1 .. Len(q) /\ j + k # 0
      BY <2>3, <1>2, <1>3
    <3> QED
      BY <3>1 DEF At
  <2>4. k = 0 \/ k \in 1 .. Len(r) \/ k = Len(r) + 1
    BY <1>2, <1>3
  <2> QED
    BY <2>1, <2>2, <2>3, <2>4
<1> HIDE DEF y
<1>8. ASSUME NEW k \in 0 .. Len(r) PROVE F[At(y, r, k)][i] = At(y, r, k + 1)
  <2>1. k \in 0 .. Len(r) + 1 /\ k + 1 \in 0 .. Len(r) + 1 /\ j + k \in 0 .. Len(q)
        /\ (j + k) + 1 = j + (k + 1)
    BY <1>2, <1>3
  <2> QED
    BY <2>1, <1>1, <1>7
<1>9. y \notin Nodes(r)
  BY <1>3, <1>6, NodesOf
<1> QED
  BY <1>3, <1>5, <1>8, <1>9 DEF Leads, Once, r, y

(* A path depends on the pointers of its own nodes only.                   *)
LEMMA LeadsSame ==
  ASSUME NEW F, NEW G, NEW i, NEW x, NEW y, NEW q, Leads(F, i, x, q), y \notin Nodes(q),
         G[y][i] = F[x][i], \A z \in Nodes(q) : G[z][i] = F[z][i]
  PROVE  Leads(G, i, y, q)
<1>1. q \in Seq(Node) /\ Once(q)
      /\ \A k \in 0 .. Len(q) : F[At(x, q, k)][i] = At(x, q, k + 1)
  BY DEF Leads
<1>2. ASSUME NEW k \in 0 .. Len(q) PROVE G[At(y, q, k)][i] = At(y, q, k + 1)
  <2>1. At(y, q, k + 1) = At(x, q, k + 1)
    BY <1>1, NodesOf DEF At
  <2>2. CASE k = 0
    BY <1>1, <2>1, <2>2, AtIs
  <2>3. CASE k # 0
    <3>1. k \in 1 .. Len(q)
      BY <1>1, <2>3, NodesOf
    <3>2. At(y, q, k) = q[k] /\ At(x, q, k) = q[k]
      BY <2>3, <3>1 DEF At
    <3>3. q[k] \in Nodes(q)
      BY <1>1, <3>1, NodesOf
    <3> QED
      BY <1>1, <2>1, <3>2, <3>3
  <2> QED
    BY <2>2, <2>3
<1> QED
  BY <1>1, <1>2 DEF Leads

(* A node is linked in behind position j.                                  *)
LEMMA LeadsInto ==
  ASSUME NEW F, NEW G, NEW i, NEW x, NEW q, Leads(F, i, x, q), NEW j \in 0 .. Len(q),
         NEW z \in Node, z # x, z \notin Nodes(q),
         G[At(x, q, j)][i] = z, G[z][i] = F[At(x, q, j)][i],
         \A y \in {x} \cup Nodes(q) : y # At(x, q, j) => G[y][i] = F[y][i]
  PROVE  /\ Leads(G, i, x, InsertAt(q, j + 1, z))
         /\ Nodes(InsertAt(q, j + 1, z)) = Nodes(q) \cup {z}
<1> DEFINE r == InsertAt(q, j + 1, z)
<1>1. q \in Seq(Node) /\ Once(q) /\ x \notin Nodes(q)
      /\ \A k \in 0 .. Len(q) : F[At(x, q, k)][i] = At(x, q, k + 1)
  BY DEF Leads
<1>2. PICK m \in Nat : m = Len(q)
  BY <1>1, NodesOf
<1>3. /\ r \in Seq(Node) /\ Len(r) = m + 1
      /\ \A k \in 1 .. j : r[k] = q[k]
      /\ r[j + 1] = z
      /\ \A k \in j + 2 .. m + 1 : r[k] = q[k - 1]
  <2>1. PICK p \in 1 .. Len(q) + 1 : p = j + 1
    BY <1>2
  <2>2. /\ InsertAt(q, p, z) \in Seq(Node)
        /\ Len(InsertAt(q, p, z)) = Len(q) + 1
        /\ \A k \in 1 .. p - 1 : InsertAt(q, p, z)[k] = q[k]
        /\ InsertAt(q, p, z)[p] = z
        /\ \A k \in p + 1 .. Len(q) + 1 : InsertAt(q, p, z)[k] = q[k - 1]
    BY <1>1, InsertAtIs
  <2>3. r = InsertAt(q, p, z) /\ p - 1 = j /\ p + 1 = j + 2
    BY <2>1
  <2> HIDE DEF r
  <2> QED
    BY <2>1, <2>2, <2>3, <1>2
<1> HIDE DEF r
<1>4. ASSUME NEW k \in 0 .. j PROVE At(x, r, k) = At(x, q, k)
  BY <1>2, <1>3 DEF At
<1>5. At(x, r, j + 1) = z
  BY <1>2, <1>3 DEF At
<1>6. ASSUME NEW k \in j + 1 .. m + 1 PROVE At(x, r, k + 1) = At(x, q, k)
  <2>1. CASE k = m + 1
    BY <2>1, <1>2, <1>3 DEF At
  <2>2. CASE k # m + 1
    <3>1. k \in 1 .. m /\ k + 1 \in j + 2 .. m + 1 /\ (k + 1) - 1 = k /\ k + 1 # 0 /\ k # 0
          /\ k + 1 \in 1 .. m + 1
      BY <2>2, <1>2
    <3> QED
      BY <3>1, <1>2, <1>3 DEF At
  <2> QED
    BY <2>1, <2>2
<1>7. ASSUME NEW k \in 0 .. m + 1 PROVE G[At(x, r, k)][i] = At(x, r, k + 1)
  <2>1. CASE k < j
    <3>1. k \in 0 .. j /\ k + 1 \in 0 .. j /\ k \in 0 .. Len(q) /\ k # j
      BY <2>1, <1>2
    <3>2. At(x, q, k) # At(x, q, j)
      BY <3>1, AtOnce
    <3>3. At(x, q, k) \in {x} \cup Nodes(q)
      BY <3>1, <1>1, AtIs
    <3> QED
      BY <3>1, <3>2, <3>3, <1>1, <1>4
  <2>2. CASE k = j
    BY <2>2, <1>2, <1>4, <1>5
  <2>3. CASE k = j + 1
    <3>1. j + 1 \in j + 1 .. m + 1 /\ j \in 0 .. Len(q)
      BY <1>2
    <3> QED
      BY <2>3, <3>1, <1>1, <1>5, <1>6
  <2>4. CASE k > j + 1
    <3>1. PICK l \in j + 1 .. m : k = l + 1
      <4>1. k - 1 \in j + 1 .. m /\ k = (k - 1) + 1
        BY <2>4, <1>2
      <4> QED
        BY <4>1
    <3>2. l \in j + 1 .. m + 1 /\ l + 1 \in j + 1 .. m + 1 /\ l \in 0 .. Len(q) /\ l # j
      BY <3>1, <1>2
    <3>3. At(x, q, l) # At(x, q, j)
      BY <3>2, AtOnce
    <3>4. At(x, q, l) \in {x} \cup Nodes(q)
      BY <3>2, <1>1, AtIs
    <3> QED
      BY <3>1, <3>2, <3>3, <3>4, <1>1, <1>6
  <2> QED
    BY <2>1, <2>2, <2>3, <2>4, <1>2
<1>8. ASSUME NEW k \in 1 .. m + 1, k # j + 1
      PROVE  \E l \in 1 .. m : r[k] = q[l] /\ l = IF k <= j THEN k ELSE k - 1
  <2>1. CASE k <= j
    BY <2>1, <1>2, <1>3
  <2>2. CASE k > j
    <3>1. k \in j + 2 .. m + 1 /\ k - 1 \in 1 .. m /\ ~(k <= j)
      BY <2>2, <1>8, <1>2
    <3> QED
      BY <3>1, <1>3
  <2> QED
    BY <2>1, <2>2, <1>2
<1>9. \A l \in 1 .. m : q[l] # z /\ q[l] # x
  BY <1>1, <1>2, NodesOf
<1>10. ASSUME NEW k \in 1 .. m + 1, NEW l \in 1 .. m + 1, r[k] = r[l] PROVE k = l
  <2>1. CASE k = j + 1 \/ l = j + 1
    BY <2>1, <1>3, <1>8, <1>9, <1>10
  <2>2. CASE k # j + 1 /\ l # j + 1
    <3>1. PICK a \in 1 .. m : r[k] = q[a] /\ a = IF k <= j THEN k ELSE k - 1
      BY <2>2, <1>8
    <3>2. PICK b \in 1 .. m : r[l] = q[b] /\ b = IF l <= j THEN l ELSE l - 1
      BY <2>2, <1>8
    <3>3. a = b
      BY <3>1, <3>2, <1>1, <1>2, <1>10 DEF Once
    <3> QED
      BY <2>2, <3>1, <3>2, <3>3, <1>2
  <2> QED
    BY <2>1, <2>2
<1>11. Nodes(r) = Nodes(q) \cup {z}
  <2>1. DOMAIN r = 1 .. m + 1 /\ DOMAIN q = 1 .. m
    BY <1>1, <1>2, <1>3, NodesOf
  <2>2. ASSUME NEW k \in 1 .. m + 1 PROVE r[k] \in Nodes(q) \cup {z}
    BY <2>1, <1>3, <1>8 DEF Nodes
  <2>3. z \in Nodes(r)
    <3>1. j + 1 \in 1 .. m + 1
      BY <1>2
    <3> QED
      BY <3>1, <2>1, <1>3 DEF Nodes
  <2>4. ASSUME NEW k \in 1 .. m PROVE q[k] \in Nodes(r)
    <3>1. CASE k <= j
      BY <3>1, <2>1, <1>2, <1>3 DEF Nodes
    <3>2. CASE k > j
      <4>1. PICK l \in 1 .. m + 1 : l = k + 1
        BY <1>2
      <4>2. l \in j + 2 .. m + 1 /\ l - 1 = k
        BY <4>1, <3>2, <1>2
      <4>3. r[l] = q[k]
        BY <4>2, <1>3
      <4>4. r[l] \in Nodes(r)
        BY <2>1, <1>3 DEF Nodes
      <4> QED
        BY <4>3, <4>4
    <3> QED
      BY <3>1, <3>2, <1>2
  <2> QED
    BY <2>1, <2>2, <2>3, <2>4 DEF Nodes
<1>12. Leads(G, i, x, r)
  <2>1. Len(r) = m + 1 /\ x \notin Nodes(r)
    BY <1>1, <1>3, <1>11
  <2> QED
    BY <2>1, <1>3, <1>7, <1>10 DEF Leads, Once
<1> QED
  BY <1>11, <1>12 DEF r

(* The node z at position j is taken out.                                  *)
LEMMA LeadsOutOf ==
  ASSUME NEW F, NEW G, NEW i, NEW x, NEW q, Leads(F, i, x, q), NEW j \in 1 .. Len(q), NEW z, z = q[j],
         \A y \in {x} \cup (Nodes(q) \ {z}) :
           G[y][i] = IF F[y][i] = z THEN F[z][i] ELSE F[y][i]
  PROVE  /\ Leads(G, i, x, RemoveAt(q, j))
         /\ Nodes(RemoveAt(q, j)) = Nodes(q) \ {z}
<1> DEFINE r == RemoveAt(q, j)
<1>1. q \in Seq(Node) /\ Once(q) /\ x \notin Nodes(q)
      /\ \A k \in 0 .. Len(q) : F[At(x, q, k)][i] = At(x, q, k + 1)
  BY DEF Leads
<1>2. PICK m \in Nat : m = Len(q)
  BY <1>1, NodesOf
<1>3. /\ r \in Seq(Node) /\ Len(r) = m - 1
      /\ \A k \in 1 .. m - 1 : r[k] = IF k < j THEN q[k] ELSE q[k + 1]
  BY <1>1, <1>2, RemoveAtIs
<1> HIDE DEF r
<1>4. z = At(x, q, j) /\ j \in 0 .. Len(q) /\ z \in Nodes(q) /\ z # x
  BY <1>1, <1>2, NodesOf DEF At
<1>5. ASSUME NEW k \in 0 .. j - 1 PROVE At(x, r, k) = At(x, q, k)
  BY <1>2, <1>3 DEF At
<1>6. ASSUME NEW k \in j .. m PROVE At(x, r, k) = At(x, q, k + 1)
  <2>1. CASE k = m
    BY <2>1, <1>2, <1>3 DEF At
  <2>2. CASE k # m
    <3>1. k \in 1 .. m - 1 /\ ~(k < j) /\ k + 1 \in 1 .. m /\ k # 0 /\ k + 1 # 0
      BY <2>2, <1>2
    <3> QED
      BY <3>1, <1>2, <1>3 DEF At
  <2> QED
    BY <2>1, <2>2
<1>7. ASSUME NEW k \in 0 .. Len(q), k # j
      PROVE  /\ At(x, q, k) \in {x} \cup (Nodes(q) \ {z})
             /\ G[At(x, q, k)][i] = IF k + 1 = j THEN At(x, q, j + 1) ELSE At(x, q, k + 1)
  <2>1. At(x, q, k) # z
    BY <1>4, <1>7, AtOnce
  <2>2. At(x, q, k) \in {x} \cup Nodes(q)
    BY <1>1, AtIs
  <2>3. G[At(x, q, k)][i] = IF At(x, q, k + 1) = z THEN At(x, q, j + 1) ELSE At(x, q, k + 1)
    BY <2>1, <2>2, <1>1, <1>4
  <2>4. At(x, q, k + 1) = z => k + 1 = j
    <3>1. CASE k = Len(q)
      <4>1. At(x, q, k + 1) = NULL
        BY <3>1, <1>1, AtIs
      <4>2. z # NULL
        BY <1>1, <1>4, NodesOf, SkipListAssumption
      <4> QED
        BY <4>1, <4>2
    <3>2. CASE k # Len(q)
      <4>1. k + 1 \in 0 .. Len(q)
        BY <3>2, <1>2
      <4> QED
        BY <4>1, <1>4, AtOnce
    <3> QED
      BY <3>1, <3>2
  <2> QED
    BY <2>1, <2>2, <2>3, <2>4, <1>4
<1>8. ASSUME NEW k \in 0 .. m - 1 PROVE G[At(x, r, k)][i] = At(x, r, k + 1)
  <2>1. CASE k < j - 1
    <3>1. k \in 0 .. j - 1 /\ k + 1 \in 0 .. j - 1 /\ k \in 0 .. Len(q) /\ k # j /\ k + 1 # j
      BY <2>1, <1>2
    <3> QED
      BY <3>1, <1>5, <1>7
  <2>2. CASE k = j - 1
    <3>1. k \in 0 .. j - 1 /\ k + 1 = j /\ k \in 0 .. Len(q) /\ k # j /\ j \in j .. m
      BY <2>2, <1>2
    <3> QED
      BY <3>1, <1>5, <1>6, <1>7
  <2>3. CASE k > j - 1
    <3>1. PICK l \in j + 1 .. m : l = k + 1
      BY <2>3, <1>2
    <3>2. l \in 0 .. Len(q) /\ l # j /\ l + 1 # j /\ k \in j .. m /\ l \in j .. m
      BY <2>3, <3>1, <1>2
    <3>3. At(x, r, k) = At(x, q, l) /\ At(x, r, k + 1) = At(x, q, l + 1)
      BY <3>1, <3>2, <1>6
    <3> QED
      BY <3>2, <3>3, <1>7
  <2> QED
    BY <2>1, <2>2, <2>3, <1>2
<1>9. ASSUME NEW k \in 1 .. m - 1
      PROVE  \E l \in 1 .. m : r[k] = q[l] /\ l # j /\ l = IF k < j THEN k ELSE k + 1
  BY <1>2, <1>3
<1>10. ASSUME NEW k \in 1 .. m - 1, NEW l \in 1 .. m - 1, r[k] = r[l] PROVE k = l
  <2>1. PICK a \in 1 .. m : r[k] = q[a] /\ a = IF k < j THEN k ELSE k + 1
    BY <1>9
  <2>2. PICK b \in 1 .. m : r[l] = q[b] /\ b = IF l < j THEN l ELSE l + 1
    BY <1>9
  <2>3. a = b
    BY <2>1, <2>2, <1>1, <1>2, <1>10 DEF Once
  <2> QED
    BY <2>1, <2>2, <2>3, <1>2
<1>11. Nodes(r) = Nodes(q) \ {z}
  <2>1. DOMAIN r = 1 .. m - 1 /\ DOMAIN q = 1 .. m
    BY <1>1, <1>2, <1>3, NodesOf
  <2>2. ASSUME NEW k \in 1 .. m - 1 PROVE r[k] \in Nodes(q) \ {z}
    <3>1. PICK l \in 1 .. m : r[k] = q[l] /\ l # j
      BY <1>9
    <3>2. q[l] # q[j]
      BY <3>1, <1>1, <1>2 DEF Once
    <3> QED
      BY <2>1, <3>1, <3>2 DEF Nodes
  <2>3. ASSUME NEW k \in 1 .. m, q[k] # z PROVE q[k] \in Nodes(r)
    <3>1. CASE k < j
      <4>1. k \in 1 .. m - 1
        BY <3>1, <1>2
      <4> QED
        BY <3>1, <4>1, <2>1, <1>3 DEF Nodes
    <3>2. CASE k > j
      <4>1. PICK l \in 1 .. m - 1 : l + 1 = k
        <5>1. k - 1 \in 1 .. m - 1 /\ (k - 1) + 1 = k
          BY <3>2, <1>2
        <5> QED
          BY <5>1
      <4>2. ~(l < j)
        BY <3>2, <4>1, <1>2
      <4> QED
        BY <4>1, <4>2, <2>1, <1>3 DEF Nodes
    <3> QED
      BY <3>1, <3>2, <2>3, <1>2
  <2> QED
    BY <2>1, <2>2, <2>3 DEF Nodes
<1>12. Leads(G, i, x, r)
  <2>1. Len(r) = m - 1 /\ x \notin Nodes(r)
    BY <1>1, <1>3, <1>11
  <2> QED
    BY <2>1, <1>3, <1>8, <1>10 DEF Leads, Once
<1> QED
  BY <1>11, <1>12 DEF r

(* The path of the nodes from the first to position j, where it is cut.    *)
LEMMA LeadsCut ==
  ASSUME NEW F, NEW G, NEW i, NEW x, NEW q, Leads(F, i, x, q), NEW j \in 1 .. Len(q),
         G[q[j]][i] = NULL, \A y \in Nodes(q) : y # q[j] => G[y][i] = F[y][i]
  PROVE  Leads(G, i, q[1], SubSeq(q, 2, j))
<1> DEFINE r == SubSeq(q, 2, j)
<1>1. q \in Seq(Node) /\ Once(q) /\ x \notin Nodes(q)
      /\ \A k \in 0 .. Len(q) : F[At(x, q, k)][i] = At(x, q, k + 1)
  BY DEF Leads
<1>2. PICK m \in Nat : m = Len(q)
  BY <1>1, NodesOf
<1>3. r \in Seq(Node) /\ Len(r) = j - 1 /\ \A k \in 1 .. j - 1 : r[k] = q[k + 1]
  <2>1. 2 \in 1 .. Len(q) + 1 /\ j \in 0 .. Len(q) /\ 2 <= j + 1 /\ j + 1 - 2 = j - 1
        /\ \A k \in 1 .. j - 1 : 2 + k - 1 = k + 1
    BY <1>2
  <2> QED
    BY <1>1, <2>1, PartIs
<1> HIDE DEF r
<1>4. ASSUME NEW k \in 0 .. j - 1 PROVE At(q[1], r, k) = q[k + 1]
  BY <1>2, <1>3 DEF At
<1>5. ASSUME NEW k \in 0 .. j - 1 PROVE G[At(q[1], r, k)][i] = At(q[1], r, k + 1)
  <2>1. CASE k = j - 1
    <3>1. k + 1 = j /\ j \notin 1 .. Len(r) /\ j # 0
      BY <2>1, <1>2, <1>3
    <3> QED
      BY <3>1, <1>4 DEF At
  <2>2. CASE k # j - 1
    <3>1. PICK l \in 1 .. j - 1 : l = k + 1
      BY <2>2, <1>2
    <3>2. l \in 0 .. Len(q) /\ l \in 1 .. Len(q) /\ l + 1 \in 1 .. Len(q) /\ l # j /\ l \in 0 .. j - 1
      BY <3>1, <1>2
    <3>3. q[l] # q[j] /\ q[l] \in Nodes(q)
      BY <3>2, <1>1, NodesOf DEF Once
    <3>4. F[q[l]][i] = q[l + 1]
      <4>1. l # 0 /\ l + 1 # 0
        BY <3>2, <1>2
      <4>2. At(x, q, l) = q[l] /\ At(x, q, l + 1) = q[l + 1]
        BY <4>1, <3>2 DEF At
      <4>3. F[At(x, q, l)][i] = At(x, q, l + 1)
        BY <3>2, <1>1
      <4> QED
        BY <4>2, <4>3
    <3> QED
      BY <3>1, <3>2, <3>3, <3>4, <1>4
  <2> QED
    BY <2>1, <2>2
<1>6. ASSUME NEW k \in 1 .. j - 1 PROVE k + 1 \in 1 .. Len(q) /\ r[k] = q[k + 1]
  BY <1>2, <1>3
<1>7. ASSUME NEW k \in 1 .. j - 1, NEW l \in 1 .. j - 1, r[k] = r[l] PROVE k = l
  <2>1. k + 1 = l + 1
    BY <1>1, <1>6, <1>7 DEF Once
  <2> QED
    BY <2>1
<1>8. ASSUME NEW k \in 1 .. j - 1 PROVE r[k] # q[1]
  <2>1. k + 1 # 1 /\ 1 \in 1 .. Len(q)
    BY <1>2
  <2> QED
    BY <2>1, <1>1, <1>6 DEF Once
<1>9. q[1] \notin Nodes(r)
  BY <1>3, <1>8, NodesOf
<1> QED
  BY <1>3, <1>5, <1>7, <1>9 DEF Leads, Once, r

-----------------------------------------------------------------------------
(* Walks                                                                   *)

(* The positions of q up to j are in S, and not the next one.              *)
Stops(q, S, j) == (\A k \in 1 .. j : q[k] \in S) /\ (j < Len(q) => q[j + 1] \notin S)

(* There is one, by the least position that is not in S, and only one.     *)
LEMMA StopIs ==
  ASSUME NEW T, NEW q \in Seq(T), NEW S
  PROVE  \E j \in 0 .. Len(q) : Stops(q, S, j)
<1>0. PICK l \in Nat : l = Len(q)
  BY LenProperties
<1> DEFINE out == {j \in 1 .. Len(q) : q[j] \notin S}
<1>1. CASE out = {}
  <2>1. l \in 0 .. Len(q) /\ Stops(q, S, l)
    BY <1>0, <1>1 DEF Stops
  <2> QED
    BY <2>1
<1>2. CASE out # {}
  <2> DEFINE before == OpToRel(<, Nat)
  <2>1. before = {pair \in Nat \X Nat : pair[1] < pair[2]}
    BY DEF OpToRel
  <2>2. IsWellFoundedOn(before, Nat)
    BY NatLessThanWellFounded
  <2>3. out \subseteq Nat
    BY <1>0
  <2> HIDE DEF before
  <2>4. PICK m \in out : \A j \in out : ~(<<j, m>> \in before)
    <3> HIDE DEF out
    <3> QED
      BY <1>2, <2>2, <2>3, WFMin
  <2>5. \A j \in out : ~(j < m)
    BY <2>1, <2>3, <2>4
  <2>6. PICK p \in 0 .. Len(q) : p + 1 = m
    <3>1. m - 1 \in 0 .. Len(q) /\ (m - 1) + 1 = m
      BY <1>0
    <3> QED
      BY <3>1
  <2>7. \A j \in 1 .. p : q[j] \in S
    BY <2>5, <2>6, <1>0
  <2> QED
    BY <2>4, <2>6, <2>7 DEF Stops
<1> QED
  BY <1>1, <1>2

LEMMA StopOnce ==
  ASSUME NEW q, NEW S, Len(q) \in Nat, NEW j \in 0 .. Len(q), NEW k \in 0 .. Len(q),
         Stops(q, S, j), Stops(q, S, k)
  PROVE  j = k
<1>1. CASE j < k
  <2>1. j + 1 \in 1 .. k /\ j < Len(q)
    BY <1>1
  <2> QED
    BY <2>1 DEF Stops
<1>2. CASE k < j
  <2>1. k + 1 \in 1 .. j /\ k < Len(q)
    BY <1>2
  <2> QED
    BY <2>1 DEF Stops
<1> QED
  BY <1>1, <1>2

(* A walk along a path stops there.                                        *)
LEMMA WalkIs ==
  ASSUME NEW i, NEW x, NEW q, Leads(forward, i, x, q), NEW S,
         NEW j \in 0 .. Len(q), Stops(q, S, j)
  PROVE  Walk(x, i, S) = At(x, q, j)
<1> DEFINE s == <<x>> \o q
           Ends(p) == (\A k \in 2 .. p : s[k] \in S) /\ (p < Len(s) => s[p + 1] \notin S)
<1>1. q \in Seq(Node) /\ Path(x, i) = q
  BY AlongIs DEF Leads, Path
<1>2. PICK l \in Nat : l = Len(q)
  BY <1>1, NodesOf
<1>3. Len(s) = l + 1 /\ DOMAIN s = 1 .. l + 1 /\ s[1] = x /\ \A k \in 1 .. l : s[k + 1] = q[k]
  <2>1. <<x>> \in Seq({x} \cup Node) /\ q \in Seq({x} \cup Node) /\ Len(<<x>>) = 1 /\ <<x>>[1] = x
    BY <1>1, SeqMonotonic
  <2>2. /\ Len(s) = Len(<<x>>) + Len(q) /\ s \in Seq({x} \cup Node)
        /\ \A k \in 1 .. Len(<<x>>) + Len(q) :
             s[k] = IF k <= Len(<<x>>) THEN <<x>>[k] ELSE q[k - Len(<<x>>)]
    BY <2>1, ConcatProperties
  <2> HIDE DEF s
  <2>3. Len(s) = l + 1 /\ \A k \in 1 .. l + 1 : s[k] = IF k <= 1 THEN <<x>>[k] ELSE q[k - 1]
    BY <2>1, <2>2, <1>2
  <2>4. ASSUME NEW k \in 1 .. l PROVE s[k + 1] = q[k]
    <3>1. k + 1 \in 1 .. l + 1 /\ ~(k + 1 <= 1) /\ (k + 1) - 1 = k
      OBVIOUS
    <3> QED
      BY <3>1, <2>3
  <2> QED
    BY <2>1, <2>2, <2>3, <2>4, LenProperties
<1> HIDE DEF s
<1>4. ASSUME NEW p \in 0 .. l PROVE Ends(p + 1) <=> Stops(q, S, p)
  <2>1. (\A k \in 2 .. p + 1 : s[k] \in S) <=> (\A k \in 1 .. p : q[k] \in S)
    <3>1. ASSUME NEW k \in 2 .. p + 1, \A c \in 1 .. p : q[c] \in S PROVE s[k] \in S
      <4>1. PICK o \in 1 .. p : o + 1 = k
        <5>1. k - 1 \in 1 .. p /\ (k - 1) + 1 = k
          OBVIOUS
        <5> QED
          BY <5>1
      <4>2. o \in 1 .. l /\ q[o] \in S
        BY <3>1, <4>1
      <4> QED
        BY <4>1, <4>2, <1>3
    <3>2. ASSUME NEW k \in 1 .. p, \A c \in 2 .. p + 1 : s[c] \in S PROVE q[k] \in S
      <4>1. k + 1 \in 2 .. p + 1 /\ k \in 1 .. l
        OBVIOUS
      <4> QED
        BY <3>2, <4>1, <1>3
    <3> QED
      BY <3>1, <3>2
  <2>2. p + 1 < Len(s) <=> p < Len(q)
    BY <1>2, <1>3
  <2>3. p < Len(q) => s[(p + 1) + 1] = q[p + 1]
    BY <1>2, <1>3
  <2> QED
    BY <2>1, <2>2, <2>3 DEF Stops
<1> HIDE DEF Ends
<1>5. j + 1 \in DOMAIN s /\ Ends(j + 1)
  BY <1>2, <1>3, <1>4
<1>6. ASSUME NEW p \in DOMAIN s, Ends(p) PROVE p = j + 1
  <2>1. PICK o \in 0 .. l : o + 1 = p
    <3>1. p - 1 \in 0 .. l /\ (p - 1) + 1 = p
      BY <1>3
    <3> QED
      BY <3>1
  <2>2. o \in 0 .. Len(q) /\ Len(q) \in Nat /\ Stops(q, S, o)
    BY <2>1, <1>2, <1>4, <1>6
  <2>3. o = j
    BY <2>2, StopOnce
  <2> QED
    BY <2>1, <2>3
<1>7. (CHOOSE p \in DOMAIN s : Ends(p)) = j + 1
  BY <1>5, <1>6
<1>8. Walk(x, i, S) = s[CHOOSE p \in DOMAIN s : Ends(p)]
  BY <1>1 DEF Walk, s, Ends
<1>9. s[j + 1] = At(x, q, j)
  BY <1>2, <1>3 DEF At
<1> QED
  BY <1>7, <1>8, <1>9

(* The same, from somewhere on the path.                                   *)
LEMMA WalkOn ==
  ASSUME NEW i, NEW x, NEW q, Leads(forward, i, x, q), NEW S,
         NEW a \in 0 .. Len(q), NEW j \in a .. Len(q),
         \A k \in a + 1 .. j : q[k] \in S, j < Len(q) => q[j + 1] \notin S
  PROVE  Walk(At(x, q, a), i, S) = At(x, q, j)
<1> DEFINE r == After(q, a)  y == At(x, q, a)
<1>1. q \in Seq(Node)
  BY DEF Leads
<1>2. PICK l \in Nat : l = Len(q)
  BY <1>1, NodesOf
<1>3. r \in Seq(Node) /\ Len(r) = l - a /\ \A k \in 1 .. l - a : r[k] = q[a + k]
  <2>1. /\ After(q, a) \in Seq(Node)
        /\ Len(After(q, a)) = Len(q) - a
        /\ \A k \in 1 .. Len(q) - a : After(q, a)[k] = q[a + k]
    BY <1>1, AfterIs
  <2> QED
    BY <2>1, <1>2
<1>4. Leads(forward, i, y, r)
  BY LeadsFrom
<1> HIDE DEF r
<1>5. PICK p \in 0 .. Len(r) : a + p = j
  <2>1. j - a \in 0 .. Len(r) /\ a + (j - a) = j
    BY <1>2, <1>3
  <2> QED
    BY <2>1
<1>6. Stops(r, S, p)
  <2>1. ASSUME NEW k \in 1 .. p PROVE r[k] \in S
    <3>1. k \in 1 .. l - a /\ a + k \in a + 1 .. j
      BY <1>2, <1>3, <1>5
    <3> QED
      BY <3>1, <1>3
  <2>2. ASSUME p < Len(r) PROVE r[p + 1] \notin S
    <3>1. p + 1 \in 1 .. l - a /\ a + (p + 1) = j + 1 /\ j < Len(q)
      BY <2>2, <1>2, <1>3, <1>5
    <3> QED
      BY <3>1, <1>3
  <2> QED
    BY <2>1, <2>2 DEF Stops
<1>7. Walk(y, i, S) = At(y, r, p)
  <2> HIDE DEF y
  <2> QED
    BY <1>4, <1>6, WalkIs
<1>8. At(y, r, p) = At(x, q, j)
  <2>1. CASE p = 0
    BY <2>1, <1>2, <1>5 DEF At
  <2>2. CASE p # 0
    <3>1. p \in 1 .. l - a /\ a + p \in 1 .. Len(q) /\ a + p # 0
      BY <2>2, <1>2, <1>3, <1>5
    <3> QED
      BY <3>1, <2>2, <1>3, <1>5 DEF At
  <2> QED
    BY <2>1, <2>2
<1> QED
  BY <1>7, <1>8 DEF y

-----------------------------------------------------------------------------
(* The levels                                                              *)

On(F) == {Header} \cup Nodes(Along(F, Header, 0))

Rising(sc, q) == \A j, k \in 1 .. Len(q) : j < k => sc[q[j]] <= sc[q[k]]

(* Each level leads from t along nodes that the levels below lead along.   *)
Ways(F, t) ==
  \A i \in Levels :
    /\ Leads(F, i, t, Along(F, t, i))
    /\ Nodes(Along(F, t, i)) \subseteq Nodes(Along(F, t, 0))
    /\ i # 0 => Nodes(Along(F, t, i)) \subseteq Nodes(Along(F, t, i - 1))

Pointers == [Place -> [Levels -> Node \cup {NULL}]]

(***************************************************************************)
(* The levels of what is on the list.  They lead on from every node, not   *)
(* only from the header: a list that is being shifted has nodes that the   *)
(* upper levels of the header do not reach, and gives it theirs later.     *)
(***************************************************************************)
Tower(F, sc) ==
  /\ F \in Pointers /\ sc \in [Node -> Nat]
  /\ \A t \in On(F) : Ways(F, t)
  /\ Rising(sc, Along(F, Header, 0))

LEMMA LevelsAre ==
  0 \in Levels /\ \A i \in Levels : i \in Nat /\ (i # 0 => i - 1 \in Levels)
  BY SkipListAssumption DEF Levels

LEMMA AfterNodes ==
  ASSUME NEW q \in Seq(Node), NEW j \in 0 .. Len(q)
  PROVE  Nodes(After(q, j)) = {q[k] : k \in j + 1 .. Len(q)}
<1>1. PICK l \in Nat : l = Len(q)
  BY NodesOf
<1>2. /\ DOMAIN After(q, j) = 1 .. l - j
      /\ \A k \in 1 .. l - j : After(q, j)[k] = q[j + k]
  BY <1>1, AfterIs, LenProperties
<1>3. \A k \in 1 .. l - j : j + k \in j + 1 .. Len(q)
  BY <1>1
<1>4. ASSUME NEW k \in j + 1 .. Len(q) PROVE \E o \in 1 .. l - j : j + o = k
  <2>1. k - j \in 1 .. l - j /\ j + (k - j) = k
    BY <1>1
  <2> QED
    BY <2>1
<1>5. Nodes(After(q, j)) = {q[j + k] : k \in 1 .. l - j}
  BY <1>2 DEF Nodes
<1> QED
  BY <1>3, <1>4, <1>5

(* What is known of a path at once.                                        *)
LEMMA PathIs ==
  ASSUME NEW F, NEW sc, Tower(F, sc), NEW t \in On(F), NEW i \in Levels
  PROVE  /\ Leads(F, i, t, Along(F, t, i))
         /\ Along(F, t, i) \in Seq(Node) /\ Len(Along(F, t, i)) \in Nat
         /\ Nodes(Along(F, t, i)) \subseteq Nodes(Along(F, t, 0))
         /\ Nodes(Along(F, t, i)) \subseteq Node /\ t \notin Nodes(Along(F, t, i))
<1>1. Leads(F, i, t, Along(F, t, i)) /\ Nodes(Along(F, t, i)) \subseteq Nodes(Along(F, t, 0))
  BY DEF Tower, Ways
<1>2. Along(F, t, i) \in Seq(Node) /\ t \notin Nodes(Along(F, t, i))
  BY <1>1 DEF Leads
<1> QED
  BY <1>1, <1>2, NodesOf

LEMMA HeaderOn ==
  ASSUME NEW F
  PROVE  Header \in On(F) /\ Nodes(Along(F, Header, 0)) \subseteq On(F)
  BY DEF On

(* The path from a node of a path is the rest of that.                     *)
LEMMA PathFrom ==
  ASSUME NEW F, NEW sc, Tower(F, sc), NEW t \in On(F), NEW i \in Levels,
         NEW j \in 0 .. Len(Along(F, t, i))
  PROVE  /\ Along(F, At(t, Along(F, t, i), j), i) = After(Along(F, t, i), j)
         /\ At(t, Along(F, t, i), j) \in On(F)
<1>0. ASSUME NEW u \in On(F), NEW e \in Levels, NEW o \in 0 .. Len(Along(F, u, e))
      PROVE  Along(F, At(u, Along(F, u, e), o), e) = After(Along(F, u, e), o)
  <2>1. Leads(F, e, u, Along(F, u, e))
    BY PathIs
  <2>2. Leads(F, e, At(u, Along(F, u, e), o), After(Along(F, u, e), o))
    BY <2>1, LeadsFrom
  <2> QED
    BY <2>2, AlongIs
<1>1. ASSUME NEW u \in On(F) PROVE Nodes(Along(F, u, 0)) \subseteq On(F)
  <2> DEFINE q == Along(F, Header, 0)
  <2>1. q \in Seq(Node) /\ Header \in On(F) /\ 0 \in Levels
    BY LevelsAre, PathIs, HeaderOn
  <2>2. CASE u = Header
    BY <2>2, HeaderOn
  <2>3. CASE u # Header
    <3>1. u \in Nodes(q)
      BY <2>3 DEF On
    <3>2. PICK o \in 1 .. Len(q) : q[o] = u
      BY <2>1, <3>1, NodesOf
    <3>3. o \in 0 .. Len(q) /\ At(Header, q, o) = u
      <4> HIDE DEF q
      <4>1. o # 0 /\ o \in 0 .. Len(q)
        BY <2>1, NodesOf
      <4> QED
        BY <3>2, <4>1 DEF At
    <3>4. Along(F, u, 0) = After(q, o)
      BY <2>1, <3>3, <1>0
    <3>5. Nodes(After(q, o)) \subseteq Nodes(q)
      <4> HIDE DEF q
      <4>1. \A k \in o + 1 .. Len(q) : k \in 1 .. Len(q)
        BY <2>1, NodesOf
      <4> QED
        BY <4>1, <2>1, <3>3, AfterNodes, NodesOf
    <3> QED
      BY <3>4, <3>5, HeaderOn
  <2> QED
    BY <2>2, <2>3
<1>2. At(t, Along(F, t, i), j) \in {t} \cup Nodes(Along(F, t, i))
  BY PathIs, AtIs
<1>3. Nodes(Along(F, t, i)) \subseteq On(F)
  BY <1>1, PathIs
<1> QED
  BY <1>0, <1>2, <1>3

(* A node of a path and what is behind it there.                           *)
LEMMA PathOf ==
  ASSUME NEW F, NEW sc, Tower(F, sc), NEW t \in On(F), NEW i \in Levels,
         NEW y \in Nodes(Along(F, t, i))
  PROVE  /\ y \in On(F) /\ y \in Node
         /\ \E j \in 1 .. Len(Along(F, t, i)) :
              /\ y = Along(F, t, i)[j]
              /\ Along(F, y, i) = After(Along(F, t, i), j)
              /\ Nodes(Along(F, y, i)) = {Along(F, t, i)[k] : k \in j + 1 .. Len(Along(F, t, i))}
<1> DEFINE q == Along(F, t, i)
<1>1. q \in Seq(Node) /\ Len(q) \in Nat
  BY PathIs
<1>2. PICK j \in 1 .. Len(q) : y = q[j]
  BY <1>1, NodesOf
<1>3. j \in 0 .. Len(q) /\ At(t, q, j) = y
  <2> HIDE DEF q
  <2>1. j # 0 /\ j \in 0 .. Len(q)
    BY <1>1
  <2> QED
    BY <1>2, <2>1 DEF At
<1>4. Along(F, y, i) = After(q, j) /\ y \in On(F)
  BY <1>3, PathFrom
<1>5. Nodes(After(q, j)) = {q[k] : k \in j + 1 .. Len(q)}
  BY <1>1, <1>3, AfterNodes
<1>6. y \in Node
  BY <1>1, NodesOf
<1> QED
  BY <1>2, <1>4, <1>5, <1>6

(* All of it is on the list.                                               *)
LEMMA PathOn ==
  ASSUME NEW F, NEW sc, Tower(F, sc), NEW t \in On(F), NEW i \in Levels
  PROVE  Nodes(Along(F, t, i)) \subseteq On(F) \ {Header}
<1>1. \A y \in Nodes(Along(F, t, i)) : y \in On(F) /\ y \in Node
  BY PathOf
<1> QED
  BY <1>1, SkipListAssumption

(* The nodes of every level come in the order of the lowest.               *)
LEMMA Rises ==
  ASSUME NEW F, NEW sc, Tower(F, sc), NEW i \in Levels
  PROVE  Rising(sc, Along(F, Header, i))
<1> DEFINE q == Along(F, Header, i)  all == Along(F, Header, 0)
<1>1. /\ q \in Seq(Node) /\ Header \in On(F) /\ all \in Seq(Node) /\ 0 \in Levels
      /\ Len(q) \in Nat /\ Len(all) \in Nat
  BY HeaderOn, LevelsAre, PathIs
<1>2. ASSUME NEW j \in 1 .. Len(q), NEW k \in 1 .. Len(q), j < k
      PROVE  sc[q[j]] <= sc[q[k]]
  <2>1. PICK u : u = q[j]
    OBVIOUS
  <2>2. j \in 0 .. Len(q) /\ At(Header, q, j) = u
    <3> HIDE DEF q
    <3>1. j # 0 /\ j \in 0 .. Len(q)
      BY <1>1
    <3> QED
      BY <2>1, <3>1 DEF At
  <2>3. u \in On(F) /\ Along(F, u, i) = After(q, j)
    BY <1>1, <2>2, PathFrom
  <2>4. q[k] \in Nodes(Along(F, u, i))
    <3>1. k \in j + 1 .. Len(q)
      BY <1>1, <1>2
    <3> QED
      BY <3>1, <1>1, <2>2, <2>3, AfterNodes
  <2>5. q[k] \in Nodes(Along(F, u, 0))
    BY <2>3, <2>4, PathIs
  <2>6. u \in Nodes(all)
    BY <2>1, <1>1, NodesOf, PathIs
  <2>7. PICK a \in 1 .. Len(all) : /\ u = all[a]
                                   /\ Nodes(Along(F, u, 0)) = {all[b] : b \in a + 1 .. Len(all)}
    BY <1>1, <2>6, PathOf
  <2>8. PICK b \in a + 1 .. Len(all) : q[k] = all[b]
    BY <2>5, <2>7
  <2>9. b \in 1 .. Len(all) /\ a < b
    BY <1>1
  <2>10. Rising(sc, all)
    BY DEF Tower
  <2> QED
    BY <2>1, <2>7, <2>8, <2>9, <2>10 DEF Rising
<1> QED
  BY <1>2 DEF Rising

(* What a walk past the low scores leaves behind are the others.           *)
LEMMA StopAbove ==
  ASSUME NEW F, NEW sc, Tower(F, sc), NEW i \in Levels, NEW S,
         \A y, z \in Node : y \in S /\ sc[z] <= sc[y] => z \in S,
         NEW j \in 0 .. Len(Along(F, Header, i)), Stops(Along(F, Header, i), S, j)
  PROVE  /\ \A k \in 1 .. Len(Along(F, Header, i)) : Along(F, Header, i)[k] \in S <=> k <= j
         /\ Nodes(After(Along(F, Header, i), j)) = Nodes(Along(F, Header, i)) \ S
<1> DEFINE q == Along(F, Header, i)
<1>1. q \in Seq(Node) /\ Header \in On(F) /\ Len(q) \in Nat
  BY HeaderOn, PathIs
<1>2. Rising(sc, q)
  BY Rises
<1> HIDE DEF q
<1>3. ASSUME NEW k \in 1 .. Len(q) PROVE q[k] \in S <=> k <= j
  <2>1. CASE k <= j
    BY <2>1 DEF Stops, q
  <2>2. CASE k > j
    <3>1. j + 1 \in 1 .. Len(q) /\ j < Len(q) /\ q[j + 1] \in Node /\ q[k] \in Node
      BY <2>2, <1>1, NodesOf
    <3>2. q[j + 1] \notin S
      BY <3>1 DEF Stops, q
    <3>3. CASE k = j + 1
      BY <2>2, <3>2, <3>3
    <3>4. CASE k # j + 1
      <4>1. j + 1 < k
        BY <2>2, <3>4
      <4>2. sc[q[j + 1]] <= sc[q[k]]
        BY <4>1, <3>1, <1>2 DEF Rising
      <4> QED
        BY <2>2, <3>1, <3>2, <4>2
    <3> QED
      BY <3>3, <3>4
  <2> QED
    BY <2>1, <2>2
<1>4. Nodes(After(q, j)) = Nodes(q) \ S
  <2>1. Nodes(After(q, j)) = {q[k] : k \in j + 1 .. Len(q)}
    BY <1>1, AfterNodes DEF q
  <2>2. \A k \in j + 1 .. Len(q) : k \in 1 .. Len(q) /\ ~(k <= j)
    BY <1>1
  <2>3. \A k \in 1 .. Len(q) : ~(k <= j) => k \in j + 1 .. Len(q)
    BY <1>1
  <2>4. Nodes(q) = {q[k] : k \in 1 .. Len(q)}
    BY <1>1, NodesOf DEF Nodes
  <2> QED
    BY <2>1, <2>2, <2>3, <2>4, <1>3
<1> QED
  BY <1>3, <1>4 DEF q

-----------------------------------------------------------------------------
(* The descents                                                            *)

(* From the top down, in place of an induction: the highest level on which *)
(* the two differ would not.                                               *)
LEMMA Downward ==
  ASSUME NEW V, NEW W, V[Level] = W[Level],
         \A i \in Levels : V[i + 1] = W[i + 1] => V[i] = W[i]
  PROVE  \A i \in Levels : V[i] = W[i]
<1> DEFINE wrong == {d \in 0 .. Level : V[Level - d] # W[Level - d]}
           before == OpToRel(<, Nat)
<1>0. Level \in Nat \ {0}
  BY SkipListAssumption
<1>1. SUFFICES ASSUME wrong # {} PROVE FALSE
  <2>1. ASSUME NEW i \in Levels, wrong = {} PROVE V[i] = W[i]
    <3>1. Level - i \in 0 .. Level /\ Level - (Level - i) = i
      BY <1>0 DEF Levels
    <3> QED
      BY <2>1, <3>1
  <2> QED
    BY <2>1
<1>2. wrong \subseteq Nat
  BY <1>0
<1>3. before = {pair \in Nat \X Nat : pair[1] < pair[2]}
  BY DEF OpToRel
<1>4. IsWellFoundedOn(before, Nat)
  BY NatLessThanWellFounded
<1> HIDE DEF before
<1>5. PICK m \in wrong : \A j \in wrong : ~(<<j, m>> \in before)
  <2> HIDE DEF wrong
  <2> QED
    BY <1>1, <1>2, <1>4, WFMin
<1>6. \A j \in wrong : ~(j < m)
  BY <1>2, <1>3, <1>5
<1>7. m # 0
  BY <1>0
<1>8. m - 1 \in 0 .. Level /\ m - 1 < m /\ Level - m \in Levels /\ (Level - m) + 1 = Level - (m - 1)
  BY <1>0, <1>7 DEF Levels
<1>9. V[Level - (m - 1)] = W[Level - (m - 1)]
  BY <1>6, <1>8
<1>10. V[Level - m] = W[Level - m]
  BY <1>8, <1>9
<1> QED
  BY <1>5, <1>10

(* A descent past the low scores goes on where the level above stopped.    *)
LEMMA DescendIs ==
  ASSUME Tower(forward, score), NEW i \in Levels, NEW S,
         \A y, z \in Node : y \in S /\ score[z] <= score[y] => z \in S,
         NEW j \in 0 .. Len(Path(Header, i)), Stops(Path(Header, i), S, j),
         NEW y \in {Header} \cup (Nodes(Path(Header, i)) \cap S)
  PROVE  Walk(y, i, S) = At(Header, Path(Header, i), j)
<1> DEFINE q == Path(Header, i)
<1>0. q = Along(forward, Header, i)
  BY DEF Path
<1>1. q \in Seq(Node) /\ Len(q) \in Nat /\ Leads(forward, i, Header, q)
  BY <1>0, HeaderOn, PathIs
<1>2. \A k \in 1 .. Len(q) : q[k] \in S <=> k <= j
  BY <1>0, StopAbove
<1>3. j < Len(q) => q[j + 1] \notin S
  BY DEF Stops
<1> HIDE DEF q
<1>4. PICK a \in 0 .. j : At(Header, q, a) = y
  <2>1. CASE y = Header
    <3>1. 0 \in 0 .. j /\ At(Header, q, 0) = y
      BY <2>1 DEF At
    <3> QED
      BY <3>1
  <2>2. CASE y # Header
    <3>1. PICK a \in 1 .. Len(q) : q[a] = y
      BY <2>2, <1>1, NodesOf DEF q
    <3>2. a \in 0 .. j /\ a # 0
      BY <2>2, <3>1, <1>1, <1>2
    <3> QED
      BY <3>1, <3>2 DEF At
  <2> QED
    BY <2>1, <2>2
<1>5. a \in 0 .. Len(q) /\ j \in a .. Len(q) /\ \A k \in a + 1 .. j : q[k] \in S
  <2>1. a \in 0 .. Len(q) /\ j \in 0 .. Len(q) /\ j \in a .. Len(q)
    BY <1>1 DEF q
  <2>2. \A k \in a + 1 .. j : k \in 1 .. Len(q) /\ k <= j
    BY <1>1, <2>1
  <2> QED
    BY <2>1, <2>2, <1>2
<1>6. Walk(At(Header, q, a), i, S) = At(Header, q, j)
  BY <1>1, <1>3, <1>5, WalkOn
<1> QED
  BY <1>4, <1>6 DEF q

LEMMA LowScores ==
  ASSUME score \in [Node -> Nat], NEW k \in Nat
  PROVE  /\ \A y, z \in Node : y \in Lower(k) /\ score[z] <= score[y] => z \in Lower(k)
         /\ \A y, z \in Node : y \in Lower(k) \cup Equal(k) /\ score[z] <= score[y]
                                 => z \in Lower(k) \cup Equal(k)
         /\ Lower(k) \cup Equal(k) = {y \in Node : score[y] <= k}
  BY DEF Lower, Equal

(* On each level the descent comes to where the scores up to k end.        *)
LEMMA LastLteIs ==
  ASSUME Tower(forward, score), NEW k \in Nat
  PROVE  \A i \in Levels : \E j \in 0 .. Len(Path(Header, i)) :
           /\ Stops(Path(Header, i), Lower(k) \cup Equal(k), j)
           /\ LastLte(k)[i] = At(Header, Path(Header, i), j)
<1> DEFINE S == Lower(k) \cup Equal(k)
           Q(i) == Path(Header, i)
           M(i) == CHOOSE j \in 0 .. Len(Q(i)) : Stops(Q(i), S, j)
           End(i) == At(Header, Q(i), M(i))
           w == [i \in 0 .. Level |-> IF i = Level THEN Header ELSE End(i)]
           Body(v) == [i \in 0 .. Level |-> IF i = Level THEN Header ELSE Walk(v[i + 1], i, S)]
           V == CHOOSE v : v = Body(v)
<1>0. Level \in Nat \ {0} /\ 0 .. Level = Levels \cup {Level} /\ Level \notin Levels
  BY SkipListAssumption DEF Levels
<1>1. \A y, z \in Node : y \in S /\ score[z] <= score[y] => z \in S
  BY LowScores DEF Tower
<1> HIDE DEF S
<1>2. ASSUME NEW i \in Levels
      PROVE  /\ Q(i) = Along(forward, Header, i) /\ Q(i) \in Seq(Node) /\ Len(Q(i)) \in Nat
             /\ M(i) \in 0 .. Len(Q(i)) /\ Stops(Q(i), S, M(i))
             /\ End(i) \in {Header} \cup (Nodes(Q(i)) \cap S)
  <2>1. Q(i) = Along(forward, Header, i)
    BY DEF Path
  <2>2. Q(i) \in Seq(Node) /\ Len(Q(i)) \in Nat
    BY <2>1, HeaderOn, PathIs
  <2> HIDE DEF Q
  <2>3. M(i) \in 0 .. Len(Q(i)) /\ Stops(Q(i), S, M(i))
    BY <2>2, StopIs
  <2>4. End(i) \in {Header} \cup (Nodes(Q(i)) \cap S)
    <3> HIDE DEF M
    <3>1. CASE M(i) = 0
      BY <3>1 DEF At
    <3>2. CASE M(i) # 0
      <4>1. M(i) \in 1 .. Len(Q(i)) /\ M(i) \in 1 .. M(i)
        BY <3>2, <2>2, <2>3
      <4>2. End(i) = Q(i)[M(i)]
        BY <4>1, <3>2 DEF At
      <4> QED
        BY <4>1, <4>2, <2>2, <2>3, NodesOf DEF Stops
    <3> QED
      BY <3>1, <3>2
  <2> QED
    BY <2>1, <2>2, <2>3, <2>4
<1>3. ASSUME NEW i \in Levels PROVE w[i] = Walk(w[i + 1], i, S)
  <2>1. w[i] = End(i) /\ i + 1 \in 0 .. Level
    BY <1>0 DEF Levels
  <2>2. w[i + 1] \in {Header} \cup (Nodes(Q(i)) \cap S)
    <3>1. CASE i + 1 = Level
      BY <2>1, <3>1
    <3>2. CASE i + 1 # Level
      <4>1. i + 1 \in Levels /\ i + 1 # 0 /\ (i + 1) - 1 = i
        BY <1>0, <2>1, <3>2 DEF Levels
      <4>2. w[i + 1] = End(i + 1)
        BY <2>1, <3>2
      <4> HIDE DEF w, End, M
      <4>3. End(i + 1) \in {Header} \cup (Nodes(Q(i + 1)) \cap S)
        BY <4>1, <1>2
      <4>4. Ways(forward, Header)
        BY HeaderOn DEF Tower
      <4>5. Nodes(Along(forward, Header, i + 1)) \subseteq Nodes(Along(forward, Header, i))
        BY <4>1, <4>4 DEF Ways
      <4>6. Nodes(Q(i + 1)) \subseteq Nodes(Q(i))
        BY <4>1, <4>5, <1>2
      <4> QED
        BY <4>2, <4>3, <4>6
    <3> QED
      BY <3>1, <3>2
  <2> HIDE DEF w, M
  <2>3. Walk(w[i + 1], i, S) = End(i)
    BY <2>2, <1>1, <1>2, DescendIs
  <2> QED
    BY <2>1, <2>3
<1>4. w = Body(w)
  BY <1>0, <1>3
<1>5. V = Body(V)
  <2> HIDE DEF Body, w
  <2> QED
    BY <1>4
<1>6. LastLte(k) = V
  BY DEF LastLte, S
<1> HIDE DEF V
<1>7. V[Level] = w[Level] /\ \A i \in Levels : V[i + 1] = w[i + 1] => V[i] = w[i]
  <2>1. V[Level] = Header /\ \A i \in Levels : V[i] = Walk(V[i + 1], i, S)
    BY <1>0, <1>5
  <2>2. w[Level] = Header
    BY <1>0
  <2> HIDE DEF w
  <2> QED
    BY <2>1, <2>2, <1>3
<1>8. \A i \in Levels : V[i] = w[i]
  <2> HIDE DEF w
  <2> QED
    BY <1>7, Downward
<1>9. ASSUME NEW i \in Levels PROVE w[i] = End(i)
  BY <1>0
<1> HIDE DEF w, M
<1> QED
  BY <1>2, <1>6, <1>8, <1>9 DEF S

(* Where delete can be on a level before it looks for x there.             *)
Fits(x, w, i) ==
  \E c \in 0 .. Len(Path(Header, i)) :
    /\ w = At(Header, Path(Header, i), c)
    /\ IF x \in Nodes(Path(Header, i))
       THEN \E b \in c + 1 .. Len(Path(Header, i)) : Path(Header, i)[b] = x
       ELSE \A k \in 1 .. c : Path(Header, i)[k] \in Lower(score[x])

(* If x is on the level, delete comes to the node in front of it, and goes *)
(* on there; if not, to where the lower scores end.                        *)
LEMMA FoundIs ==
  ASSUME Tower(forward, score), NEW x \in Node, NEW i \in Levels, NEW w, Fits(x, w, i),
         NEW b \in 1 .. Len(Path(Header, i)), Path(Header, i)[b] = x
  PROVE  Walk(Walk(w, i, Lower(score[x])), i, Equal(score[x]) \ {x})
           = At(Header, Path(Header, i), b - 1)
<1> DEFINE q == Path(Header, i)  S == Lower(score[x])  E == Equal(score[x]) \ {x}
<1>0. q = Along(forward, Header, i)
  BY DEF Path
<1>1. q \in Seq(Node) /\ Len(q) \in Nat /\ Leads(forward, i, Header, q)
  BY <1>0, HeaderOn, PathIs
<1>2. Once(q)
  BY <1>1 DEF Leads
<1>3. score \in [Node -> Nat] /\ Rising(score, q)
  BY <1>0, Rises DEF Tower
<1>4. PICK j \in 0 .. Len(q) : Stops(q, S, j)
  BY <1>1, StopIs
<1>5. \A k \in 1 .. Len(q) : q[k] \in S <=> k <= j
  <2>1. \A y, z \in Node : y \in S /\ score[z] <= score[y] => z \in S
    BY <1>3, LowScores
  <2> HIDE DEF S
  <2> QED
    BY <1>0, <1>4, <2>1, StopAbove
<1>6. PICK c \in 0 .. Len(q) : w = At(Header, q, c) /\ \E o \in c + 1 .. Len(q) : q[o] = x
  <2>1. x \in Nodes(q)
    BY <1>1, NodesOf
  <2> QED
    BY <2>1 DEF Fits
<1> HIDE DEF q
<1>7. c <= b - 1 /\ j <= b - 1
  <2>1. PICK o \in c + 1 .. Len(q) : q[o] = x
    BY <1>6
  <2>2. o \in 1 .. Len(q) /\ b \in 1 .. Len(q) /\ q[b] = x
    BY <1>1 DEF q
  <2>3. o = b
    BY <2>1, <2>2, <1>2 DEF Once
  <2>4. x \notin S
    BY <1>3 DEF Lower
  <2>5. ~(b <= j)
    BY <2>2, <2>4, <1>5
  <2> QED
    BY <2>2, <2>3, <2>5, <1>1
<1>8. PICK d \in 0 .. Len(q) : d = (IF c <= j THEN j ELSE c)
  BY <1>6, <1>4
<1>9. c <= d /\ j <= d /\ d <= b - 1 /\ b - 1 \in d .. Len(q)
  <2>1. b - 1 \in 0 .. Len(q)
    BY <1>1 DEF q
  <2> QED
    BY <2>1, <1>7, <1>8
<1>10. Walk(w, i, S) = At(Header, q, d)
  <2>1. \A k \in c + 1 .. d : q[k] \in S
    <3>1. \A k \in c + 1 .. d : k \in 1 .. Len(q) /\ k <= j
      BY <1>1, <1>8
    <3> QED
      BY <3>1, <1>5
  <2>2. d < Len(q) => q[d + 1] \notin S
    <3>1. d < Len(q) => d + 1 \in 1 .. Len(q) /\ ~(d + 1 <= j)
      BY <1>1, <1>9
    <3> QED
      BY <3>1, <1>5
  <2>3. d \in c .. Len(q)
    BY <1>8, <1>9
  <2> HIDE DEF S
  <2>4. Walk(At(Header, q, c), i, S) = At(Header, q, d)
    BY <2>1, <2>2, <2>3, <1>1, <1>6, WalkOn
  <2> QED
    BY <2>4, <1>6
<1>11. Walk(At(Header, q, d), i, E) = At(Header, q, b - 1)
  <2>1. ASSUME NEW k \in d + 1 .. b - 1 PROVE q[k] \in E
    <3>1. k \in 1 .. Len(q) /\ b \in 1 .. Len(q) /\ k < b /\ ~(k <= j) /\ q[b] = x
      BY <1>1, <1>9 DEF q
    <3>2. q[k] \in Node /\ q[k] \notin S
      BY <3>1, <1>1, <1>5, NodesOf
    <3>3. score[q[k]] <= score[x]
      BY <3>1, <1>3 DEF Rising
    <3>4. q[k] # x
      BY <3>1, <1>2 DEF Once
    <3>5. score[q[k]] = score[x]
      BY <3>2, <3>3, <1>3 DEF Lower
    <3> QED
      BY <3>2, <3>4, <3>5 DEF Equal
  <2>2. b - 1 < Len(q) => q[(b - 1) + 1] \notin E
    <3>1. (b - 1) + 1 = b /\ q[b] = x
      BY <1>1 DEF q
    <3> QED
      BY <3>1
  <2> HIDE DEF E
  <2> QED
    BY <2>1, <2>2, <1>1, <1>8, <1>9, WalkOn
<1> QED
  BY <1>10, <1>11 DEF q

LEMMA MissedIs ==
  ASSUME Tower(forward, score), NEW x \in Node, NEW i \in Levels, NEW w, Fits(x, w, i),
         x \notin Nodes(Path(Header, i)),
         NEW j \in 0 .. Len(Path(Header, i)), Stops(Path(Header, i), Lower(score[x]), j)
  PROVE  /\ Walk(w, i, Lower(score[x])) = At(Header, Path(Header, i), j)
         /\ Walk(At(Header, Path(Header, i), j), i, Equal(score[x]) \ {x})
              \in {Header} \cup Nodes(Path(Header, i))
<1> DEFINE q == Path(Header, i)  S == Lower(score[x])  E == Equal(score[x]) \ {x}
<1>0. q = Along(forward, Header, i)
  BY DEF Path
<1>1. q \in Seq(Node) /\ Len(q) \in Nat /\ Leads(forward, i, Header, q)
  BY <1>0, HeaderOn, PathIs
<1>2. PICK c \in 0 .. Len(q) : w = At(Header, q, c) /\ \A k \in 1 .. c : q[k] \in S
  BY DEF Fits
<1>3. \A y, z \in Node : y \in S /\ score[z] <= score[y] => z \in S
  BY LowScores DEF Tower
<1> HIDE DEF S, E
<1>4. Walk(w, i, S) = At(Header, q, j)
  <2>1. w \in {Header} \cup (Nodes(q) \cap S)
    <3> HIDE DEF q
    <3>1. CASE c = 0
      BY <3>1, <1>2 DEF At
    <3>2. CASE c # 0
      <4>1. c \in 1 .. Len(q) /\ c \in 1 .. c
        BY <3>2, <1>1
      <4>2. w = q[c]
        BY <4>1, <3>2, <1>2 DEF At
      <4>3. q[c] \in Nodes(q)
        BY <4>1, <1>1, NodesOf
      <4>4. q[c] \in S
        BY <4>1, <1>2
      <4> QED
        BY <4>2, <4>3, <4>4
    <3> QED
      BY <3>1, <3>2
  <2> QED
    BY <2>1, <1>3, DescendIs DEF S
<1>5. PICK p \in 0 .. Len(After(q, j)) : Stops(After(q, j), E, p)
  <2>1. After(q, j) \in Seq(Node)
    BY <1>1, AfterIs
  <2> QED
    BY <2>1, StopIs
<1>6. Leads(forward, i, At(Header, q, j), After(q, j))
  BY <1>1, LeadsFrom
<1>7. Walk(At(Header, q, j), i, E) = At(At(Header, q, j), After(q, j), p)
  <2> DEFINE y == At(Header, q, j)  r == After(q, j)
  <2>1. Leads(forward, i, y, r) /\ p \in 0 .. Len(r) /\ Stops(r, E, p)
    BY <1>5, <1>6
  <2> HIDE DEF y, r
  <2>2. Walk(y, i, E) = At(y, r, p)
    BY <2>1, WalkIs
  <2> QED
    BY <2>2 DEF y, r
<1>8. At(At(Header, q, j), After(q, j), p) \in {At(Header, q, j)} \cup Nodes(After(q, j))
  BY <1>5, <1>6, AtIs DEF Leads
<1>9. At(Header, q, j) \in {Header} \cup Nodes(q)
  BY <1>1, AtIs
<1>10. Nodes(After(q, j)) \subseteq Nodes(q)
  <2>1. \A k \in j + 1 .. Len(q) : k \in 1 .. Len(q)
    BY <1>1
  <2> QED
    BY <2>1, <1>1, AfterNodes, NodesOf
<1> QED
  BY <1>4, <1>7, <1>8, <1>9, <1>10 DEF S, E

LEMMA BeforeIs ==
  ASSUME Tower(forward, score), NEW x \in Node
  PROVE  \A i \in Levels :
           /\ Before(x)[i].at \in {Header} \cup Nodes(Path(Header, i))
           /\ x \in Nodes(Path(Header, i)) => forward[Before(x)[i].at][i] = x
<1> DEFINE S == Lower(score[x])
           E == Equal(score[x]) \ {x}
           Q(i) == Path(Header, i)
           M(i) == CHOOSE j \in 0 .. Len(Q(i)) : Stops(Q(i), S, j)
           B(i) == CHOOSE b \in 1 .. Len(Q(i)) : Q(i)[b] = x
           From(i) == At(Header, Q(i), IF x \in Nodes(Q(i)) THEN B(i) - 1 ELSE M(i))
           To(i) == IF x \in Nodes(Q(i)) THEN From(i) ELSE Walk(From(i), i, E)
           Step(w, i) == LET lower == Walk(w, i, S)
                             y == Walk(lower, i, E)
                         IN  [from |-> IF forward[y][i] = x THEN y ELSE lower, at |-> y]
           w == [i \in 0 .. Level |-> IF i = Level THEN [from |-> Header, at |-> Header]
                                      ELSE [from |-> From(i), at |-> To(i)]]
           Body(v) == [i \in 0 .. Level |-> IF i = Level THEN [from |-> Header, at |-> Header]
                                            ELSE Step(v[i + 1].from, i)]
           V == CHOOSE v : v = Body(v)
<1>0. Level \in Nat \ {0} /\ 0 .. Level = Levels \cup {Level} /\ Level \notin Levels
  BY SkipListAssumption DEF Levels
<1>a. V = Before(x)
  BY DEF Before, Step, S, E
<1> HIDE DEF S, E
<1>1. ASSUME NEW i \in Levels
      PROVE  /\ Q(i) = Along(forward, Header, i) /\ Q(i) \in Seq(Node) /\ Len(Q(i)) \in Nat
             /\ Leads(forward, i, Header, Q(i))
             /\ M(i) \in 0 .. Len(Q(i)) /\ Stops(Q(i), S, M(i))
             /\ x \in Nodes(Q(i)) => B(i) \in 1 .. Len(Q(i)) /\ Q(i)[B(i)] = x
  <2>1. Q(i) = Along(forward, Header, i)
    BY DEF Path
  <2>2. Q(i) \in Seq(Node) /\ Len(Q(i)) \in Nat /\ Leads(forward, i, Header, Q(i))
    BY <2>1, HeaderOn, PathIs
  <2> HIDE DEF Q
  <2>3. M(i) \in 0 .. Len(Q(i)) /\ Stops(Q(i), S, M(i))
    BY <2>2, StopIs
  <2>4. x \in Nodes(Q(i)) => B(i) \in 1 .. Len(Q(i)) /\ Q(i)[B(i)] = x
    BY <2>2, NodesOf
  <2> QED
    BY <2>1, <2>2, <2>3, <2>4
<1> HIDE DEF M, B
<1>2. ASSUME NEW i \in Levels
      PROVE  /\ To(i) \in {Header} \cup Nodes(Q(i))
             /\ x \in Nodes(Q(i)) => forward[To(i)][i] = x
             /\ \A u : Fits(x, u, i) => Step(u, i) = [from |-> From(i), at |-> To(i)]
  <2>1. CASE x \in Nodes(Q(i))
    <3>1. PICK b \in 1 .. Len(Q(i)) : b = B(i) /\ Q(i)[b] = x
      BY <2>1, <1>1
    <3>2. From(i) = At(Header, Q(i), b - 1) /\ To(i) = From(i)
      BY <2>1, <3>1
    <3>3. b - 1 \in 0 .. Len(Q(i)) /\ (b - 1) + 1 = b /\ b # 0
      BY <1>1
    <3> HIDE DEF From, To, Q
    <3>4. From(i) \in {Header} \cup Nodes(Q(i))
      <4>1. PICK a \in 0 .. Len(Q(i)) : a = b - 1
        BY <3>3
      <4>2. At(Header, Q(i), a) \in {Header} \cup Nodes(Q(i))
        BY <1>1, AtIs
      <4> QED
        BY <4>1, <4>2, <3>2
    <3>5. forward[From(i)][i] = x
      <4>1. PICK a \in 0 .. Len(Q(i)) : a = b - 1
        BY <3>3
      <4>2. a + 1 = b /\ b # 0
        BY <3>3, <4>1
      <4>3. forward[At(Header, Q(i), a)][i] = At(Header, Q(i), a + 1)
        <5>1. Leads(forward, i, Header, Q(i))
          BY <1>1
        <5> QED
          BY <5>1 DEF Leads
      <4>4. At(Header, Q(i), b) = x
        BY <4>2, <3>1 DEF At
      <4>5. From(i) = At(Header, Q(i), a)
        BY <4>1, <3>2
      <4> QED
        BY <4>2, <4>3, <4>4, <4>5
    <3>6. ASSUME NEW u, Fits(x, u, i) PROVE Step(u, i) = [from |-> From(i), at |-> To(i)]
      <4>1. Walk(Walk(u, i, S), i, E) = From(i)
        <5>1. b \in 1 .. Len(Path(Header, i)) /\ Path(Header, i)[b] = x
          BY <3>1 DEF Q
        <5>2. Walk(Walk(u, i, Lower(score[x])), i, Equal(score[x]) \ {x})
                = At(Header, Path(Header, i), b - 1)
          BY <5>1, <3>6, FoundIs
        <5> QED
          BY <5>2, <3>2 DEF S, E, Q
      <4> QED
        BY <4>1, <3>2, <3>5
    <3> QED
      BY <3>2, <3>4, <3>5, <3>6
  <2>2. CASE x \notin Nodes(Q(i))
    <3>1. From(i) = At(Header, Q(i), M(i)) /\ To(i) = Walk(From(i), i, E)
      BY <2>2
    <3>2. ASSUME NEW u, Fits(x, u, i)
          PROVE  Walk(u, i, S) = From(i) /\ To(i) \in {Header} \cup Nodes(Q(i))
      <4> HIDE DEF From, To
      <4>1. M(i) \in 0 .. Len(Path(Header, i)) /\ Stops(Path(Header, i), Lower(score[x]), M(i))
        BY <1>1 DEF S
      <4>2. /\ Walk(u, i, Lower(score[x])) = At(Header, Path(Header, i), M(i))
            /\ Walk(At(Header, Path(Header, i), M(i)), i, Equal(score[x]) \ {x})
                 \in {Header} \cup Nodes(Path(Header, i))
        BY <2>2, <3>2, <4>1, MissedIs
      <4> QED
        BY <4>2, <3>1 DEF S, E
    <3>3. Fits(x, Header, i)
      <4> HIDE DEF From, To
      <4>1. 0 \in 0 .. Len(Path(Header, i)) /\ Header = At(Header, Path(Header, i), 0)
        BY <1>1 DEF At
      <4> QED
        BY <2>2, <4>1 DEF Fits
    <3> HIDE DEF From, To
    <3>4. To(i) \in {Header} \cup Nodes(Q(i))
      BY <3>2, <3>3
    <3>5. forward[To(i)][i] # x
      <4> HIDE DEF Q
      <4>1. PICK a \in 0 .. Len(Q(i)) : To(i) = At(Header, Q(i), a)
        <5>1. CASE To(i) = Header
          <6>1. 0 \in 0 .. Len(Q(i)) /\ To(i) = At(Header, Q(i), 0)
            BY <5>1, <1>1 DEF At
          <6> QED
            BY <6>1
        <5>2. CASE To(i) # Header
          <6>1. PICK a \in 1 .. Len(Q(i)) : Q(i)[a] = To(i)
            BY <3>4, <5>2, <1>1, NodesOf
          <6>2. a \in 0 .. Len(Q(i)) /\ a # 0
            BY <1>1
          <6> QED
            BY <6>1, <6>2 DEF At
        <5> QED
          BY <5>1, <5>2
      <4>2. forward[To(i)][i] = At(Header, Q(i), a + 1)
        BY <4>1, <1>1 DEF Leads
      <4>3. At(Header, Q(i), a + 1) \in Nodes(Q(i)) \cup {NULL}
        <5>1. a + 1 # 0
          BY <4>1
        <5> QED
          BY <5>1, <1>1, NodesOf DEF At
      <4> QED
        BY <2>2, <4>2, <4>3, SkipListAssumption
    <3> QED
      BY <2>2, <3>1, <3>2, <3>4, <3>5
  <2> QED
    BY <2>1, <2>2
<1> HIDE DEF To, Step
<1>3. ASSUME NEW i \in Levels PROVE w[i] = Step(w[i + 1].from, i)
  <2>1. w[i] = [from |-> From(i), at |-> To(i)] /\ i + 1 \in 0 .. Level
    BY <1>0 DEF Levels
  <2>2. Fits(x, w[i + 1].from, i)
    <3>1. CASE i + 1 = Level
      <4>1. w[i + 1].from = Header
        BY <2>1, <3>1
      <4>2. 0 \in 0 .. Len(Q(i)) /\ At(Header, Q(i), 0) = Header
        BY <1>1 DEF At
      <4>3. x \in Nodes(Q(i)) => \E b \in 0 + 1 .. Len(Q(i)) : Q(i)[b] = x
        BY <1>1
      <4> HIDE DEF w
      <4> QED
        BY <4>1, <4>2, <4>3 DEF Fits
    <3>2. CASE i + 1 # Level
      <4>1. i + 1 \in Levels /\ i + 1 # 0 /\ (i + 1) - 1 = i
        BY <1>0, <2>1, <3>2 DEF Levels
      <4>2. w[i + 1].from = From(i + 1)
        BY <2>1, <3>2
      <4> HIDE DEF w
      <4>3. PICK e \in Levels : e = i + 1
        BY <4>1
      <4>4. Nodes(Q(e)) \subseteq Nodes(Q(i))
        <5>1. Ways(forward, Header)
          BY HeaderOn DEF Tower
        <5>2. Nodes(Along(forward, Header, e)) \subseteq Nodes(Along(forward, Header, i))
          BY <4>1, <4>3, <5>1 DEF Ways
        <5> QED
          BY <5>2, <1>1
      <4>5. CASE x \in Nodes(Q(e))
        <5>1. PICK b \in 1 .. Len(Q(e)) : b = B(e) /\ Q(e)[b] = x
          BY <4>5, <1>1
        <5>2. PICK a \in 0 .. Len(Q(e)) : a + 1 = b
          <6>1. b - 1 \in 0 .. Len(Q(e)) /\ (b - 1) + 1 = b
            BY <1>1
          <6> QED
            BY <6>1
        <5>3. PICK u : u = At(Header, Q(e), a)
          OBVIOUS
        <5>4. w[i + 1].from = u
          <6>1. B(e) - 1 = a
            BY <5>1, <5>2, <1>1
          <6> QED
            BY <4>2, <4>3, <4>5, <5>3, <6>1
        <5>5. u \in On(forward) /\ Along(forward, u, e) = After(Q(e), a)
          BY <5>3, <1>1, HeaderOn, PathFrom
        <5>6. x \in Nodes(Along(forward, u, e))
          <6>1. Nodes(After(Q(e), a)) = {Q(e)[k] : k \in a + 1 .. Len(Q(e))}
            BY <1>1, AfterNodes
          <6>2. b \in a + 1 .. Len(Q(e))
            BY <5>2, <1>1
          <6> QED
            BY <5>1, <5>5, <6>1, <6>2
        <5>7. x \in Nodes(Along(forward, u, i))
          <6>1. Ways(forward, u)
            BY <5>5 DEF Tower
          <6> QED
            BY <5>6, <6>1, <4>1, <4>3 DEF Ways
        <5>8. u = Header \/ u \in Nodes(Q(i))
          <6>1. u \in {Header} \cup Nodes(Q(e))
            BY <5>3, <1>1, AtIs
          <6> QED
            BY <6>1, <4>4
        <5>9. PICK c \in 0 .. Len(Q(i)) : u = At(Header, Q(i), c) /\ Along(forward, u, i) = After(Q(i), c)
          <6>1. CASE u = Header
            <7>1. 0 \in 0 .. Len(Q(i)) /\ u = At(Header, Q(i), 0)
              BY <6>1, <1>1 DEF At
            <7>2. Along(forward, u, i) = After(Q(i), 0)
              BY <7>1, <1>1, HeaderOn, PathFrom
            <7> QED
              BY <7>1, <7>2
          <6>2. CASE u # Header
            <7> HIDE DEF Q
            <7>1. PICK c \in 1 .. Len(Q(i)) : Q(i)[c] = u
              BY <5>8, <6>2, <1>1, NodesOf
            <7>2. c # 0 /\ c \in 0 .. Len(Q(i))
              BY <1>1
            <7>3. u = At(Header, Q(i), c)
              BY <7>1, <7>2 DEF At
            <7>4. Along(forward, u, i) = After(Q(i), c)
              BY <7>2, <7>3, <1>1, HeaderOn, PathFrom
            <7> QED
              BY <7>2, <7>3, <7>4
          <6> QED
            BY <6>1, <6>2
        <5>10. \E o \in c + 1 .. Len(Q(i)) : Q(i)[o] = x
          <6>1. Nodes(After(Q(i), c)) = {Q(i)[k] : k \in c + 1 .. Len(Q(i))}
            BY <1>1, AfterNodes
          <6> QED
            BY <5>7, <5>9, <6>1
        <5>11. x \in Nodes(Q(i))
          BY <4>4, <4>5
        <5> QED
          BY <5>4, <5>9, <5>10, <5>11 DEF Fits
      <4>6. CASE x \notin Nodes(Q(e))
        <5>1. PICK j \in 0 .. Len(Q(e)) : j = M(e) /\ Stops(Q(e), S, j)
          BY <1>1
        <5>2. PICK u : u = At(Header, Q(e), j)
          OBVIOUS
        <5>3. w[i + 1].from = u
          BY <4>2, <4>3, <4>6, <5>1, <5>2
        <5>4. u = Header \/ (u \in Nodes(Q(i)) /\ u \in S)
          <6>1. CASE j = 0
            BY <5>2, <6>1 DEF At
          <6>2. CASE j # 0
            <7> HIDE DEF Q
            <7>1. j \in 1 .. Len(Q(e)) /\ j \in 1 .. j
              BY <6>2, <1>1
            <7>2. u = Q(e)[j]
              BY <5>2, <6>2, <7>1 DEF At
            <7>3. u \in Nodes(Q(e)) /\ u \in S
              BY <7>1, <7>2, <5>1, <1>1, NodesOf DEF Stops
            <7> QED
              BY <7>3, <4>4
          <6> QED
            BY <6>1, <6>2
        <5>5. \A y, z \in Node : y \in S /\ score[z] <= score[y] => z \in S
          BY LowScores DEF S, Tower
        <5>6. \A k \in 1 .. Len(Q(i)) : Q(i)[k] \in S <=> k <= M(i)
          BY <5>5, <1>1, StopAbove
        <5>7. PICK c \in 0 .. M(i) : u = At(Header, Q(i), c)
          <6>1. CASE u = Header
            <7>1. 0 \in 0 .. M(i) /\ u = At(Header, Q(i), 0)
              BY <6>1, <1>1 DEF At
            <7> QED
              BY <7>1
          <6>2. CASE u # Header
            <7> HIDE DEF Q
            <7>1. PICK c \in 1 .. Len(Q(i)) : Q(i)[c] = u
              BY <5>4, <6>2, <1>1, NodesOf
            <7>2. c # 0 /\ c \in 0 .. M(i)
              BY <7>1, <5>4, <5>6, <6>2, <1>1
            <7> QED
              BY <7>1, <7>2 DEF At
          <6> QED
            BY <6>1, <6>2
        <5>8. c \in 0 .. Len(Q(i)) /\ \A k \in 1 .. c : Q(i)[k] \in S
          <6>1. c \in 0 .. Len(Q(i)) /\ \A k \in 1 .. c : k \in 1 .. Len(Q(i)) /\ k <= M(i)
            BY <1>1
          <6> QED
            BY <6>1, <5>6
        <5>9. x \in Nodes(Q(i)) => \E o \in c + 1 .. Len(Q(i)) : Q(i)[o] = x
          <6>1. x \notin S
            BY DEF S, Lower, Tower
          <6>2. x \in Nodes(Q(i)) => B(i) \in 1 .. Len(Q(i)) /\ Q(i)[B(i)] = x /\ ~(B(i) <= M(i))
            BY <6>1, <1>1, <5>6
          <6> QED
            BY <6>2, <1>1
        <5> QED
          BY <5>3, <5>7, <5>8, <5>9 DEF Fits, S
      <4> QED
        BY <4>5, <4>6
    <3> QED
      BY <3>1, <3>2
  <2> HIDE DEF w, From
  <2> QED
    BY <2>1, <2>2, <1>2
<1>4. w = Body(w)
  <2> HIDE DEF From
  <2> QED
    BY <1>0, <1>3
<1>5. V = Body(V)
  <2> HIDE DEF Body, w
  <2> QED
    BY <1>4
<1> HIDE DEF V
<1>6. V[Level] = w[Level] /\ \A i \in Levels : V[i + 1] = w[i + 1] => V[i] = w[i]
  <2>1. V[Level] = [from |-> Header, at |-> Header] /\ \A i \in Levels : V[i] = Step(V[i + 1].from, i)
    BY <1>0, <1>5
  <2>2. w[Level] = [from |-> Header, at |-> Header]
    BY <1>0
  <2> HIDE DEF w
  <2> QED
    BY <2>1, <2>2, <1>3
<1>7. \A i \in Levels : V[i] = w[i]
  <2> HIDE DEF w
  <2> QED
    BY <1>6, Downward
<1>8. ASSUME NEW i \in Levels PROVE w[i].at = To(i)
  BY <1>0
<1> HIDE DEF w, From
<1> QED
  BY <1>a, <1>2, <1>7, <1>8

-----------------------------------------------------------------------------
(* Insertion                                                               *)

LEMMA PutIs ==
  ASSUME NEW q \in Seq(Node), NEW x \in Node, NEW j \in 0 .. Len(q)
  PROVE  /\ Len(InsertAt(q, j + 1, x)) = Len(q) + 1
         /\ \A a \in 1 .. j : InsertAt(q, j + 1, x)[a] = q[a]
         /\ InsertAt(q, j + 1, x)[j + 1] = x
         /\ \A a \in j + 2 .. Len(q) + 1 : InsertAt(q, j + 1, x)[a] = q[a - 1]
<1>1. PICK m \in Nat : m = Len(q)
  BY NodesOf
<1>2. PICK p \in 1 .. Len(q) + 1 : p = j + 1
  BY <1>1
<1>3. /\ InsertAt(q, p, x) \in Seq(Node)
      /\ Len(InsertAt(q, p, x)) = Len(q) + 1
      /\ \A a \in 1 .. p - 1 : InsertAt(q, p, x)[a] = q[a]
      /\ InsertAt(q, p, x)[p] = x
      /\ \A a \in p + 1 .. Len(q) + 1 : InsertAt(q, p, x)[a] = q[a - 1]
  BY InsertAtIs
<1>4. p - 1 = j /\ p + 1 = j + 2
  BY <1>1, <1>2
<1> QED
  BY <1>2, <1>3, <1>4

(* The order of the lowest level, with x behind the scores up to k.        *)
LEMMA RisingInto ==
  ASSUME NEW q \in Seq(Node), NEW sc \in [Node -> Nat], Rising(sc, q), NEW x \in Node, x \notin Nodes(q),
         NEW k \in Nat, NEW j \in 0 .. Len(q),
         \A a \in 1 .. Len(q) : sc[q[a]] <= k <=> a <= j
  PROVE  Rising([sc EXCEPT ![x] = k], InsertAt(q, j + 1, x))
<1> DEFINE r == InsertAt(q, j + 1, x)  f == [sc EXCEPT ![x] = k]
<1>1. PICK m \in Nat : m = Len(q)
  BY NodesOf
<1>2. /\ Len(r) = m + 1
      /\ \A a \in 1 .. j : r[a] = q[a]
      /\ r[j + 1] = x
      /\ \A a \in j + 2 .. m + 1 : r[a] = q[a - 1]
  BY <1>1, PutIs
<1> HIDE DEF r
<1>3. f[x] = k /\ \A a \in 1 .. m : q[a] \in Node /\ f[q[a]] = sc[q[a]] /\ sc[q[a]] \in Nat
  BY <1>1, NodesOf
<1> HIDE DEF f
<1>4. ASSUME NEW a \in 1 .. m + 1
      PROVE  \/ a <= j /\ r[a] = q[a] /\ a \in 1 .. m
             \/ a = j + 1 /\ r[a] = x
             \/ a > j + 1 /\ r[a] = q[a - 1] /\ a - 1 \in 1 .. m
  BY <1>1, <1>2
<1>5. ASSUME NEW a \in 1 .. m + 1, NEW b \in 1 .. m + 1, a < b PROVE f[r[a]] <= f[r[b]]
  <2>1. CASE b <= j
    <3>1. r[a] = q[a] /\ r[b] = q[b] /\ a \in 1 .. m /\ b \in 1 .. m
      BY <2>1, <1>1, <1>4, <1>5
    <3> QED
      BY <3>1, <1>1, <1>3, <1>5 DEF Rising
  <2>2. CASE a <= j /\ b = j + 1
    <3>1. r[a] = q[a] /\ r[b] = x /\ a \in 1 .. m
      BY <2>2, <1>1, <1>4
    <3> QED
      BY <2>2, <3>1, <1>1, <1>3
  <2>3. CASE a <= j /\ b > j + 1
    <3>1. r[a] = q[a] /\ r[b] = q[b - 1] /\ a \in 1 .. m /\ b - 1 \in 1 .. m /\ a < b - 1
      BY <2>3, <1>1, <1>4
    <3> QED
      BY <3>1, <1>1, <1>3 DEF Rising
  <2>4. CASE a = j + 1
    <3>1. r[a] = x /\ r[b] = q[b - 1] /\ b - 1 \in 1 .. m /\ ~(b - 1 <= j)
      BY <2>4, <1>1, <1>4, <1>5
    <3>2. sc[q[b - 1]] > k
      BY <3>1, <1>1, <1>3
    <3> QED
      BY <3>1, <3>2, <1>3
  <2>5. CASE a > j + 1
    <3>1. r[a] = q[a - 1] /\ r[b] = q[b - 1] /\ a - 1 \in 1 .. m /\ b - 1 \in 1 .. m /\ a - 1 < b - 1
      BY <2>5, <1>1, <1>4, <1>5
    <3> QED
      BY <3>1, <1>1, <1>3 DEF Rising
  <2> QED
    BY <2>1, <2>2, <2>3, <2>4, <2>5, <1>5
<1> QED
  BY <1>2, <1>5 DEF Rising, r, f

(***************************************************************************)
(* x linked in behind p[i] on each level i below l, in pointers G.  p[i]   *)
(* is position e[i] of the level, where the scores in S end.               *)
(***************************************************************************)
Linked(F, G, x, l, p) ==
  \A i \in Levels :
    /\ G[x][i] = IF i < l THEN F[p[i]][i] ELSE NULL
    /\ \A y \in Place \ {x} : G[y][i] = IF i < l /\ y = p[i] THEN x ELSE F[y][i]

Ends(F, S, p, e) ==
  \A i \in Levels : /\ e[i] \in 0 .. Len(Along(F, Header, i))
                    /\ Stops(Along(F, Header, i), S, e[i])
                    /\ p[i] = At(Header, Along(F, Header, i), e[i])

Downset(sc, S) == \A y, z \in Node : y \in S /\ sc[z] <= sc[y] => z \in S

(* Where the scores end on one level is not behind where they do below.    *)
LEMMA EndsBelow ==
  ASSUME NEW F, NEW sc, Tower(F, sc), NEW S, Downset(sc, S), NEW p, NEW e, Ends(F, S, p, e),
         NEW i \in Levels, NEW d \in Levels,
         Nodes(Along(F, Header, i)) \subseteq Nodes(Along(F, Header, d))
  PROVE  p[i] \in On(F) /\ p[d] \in {p[i]} \cup Nodes(Along(F, p[i], d))
<1> DEFINE q == Along(F, Header, d)  h == Along(F, Header, i)
<1>1. q \in Seq(Node) /\ h \in Seq(Node) /\ Header \in On(F) /\ Len(q) \in Nat /\ Len(h) \in Nat
  BY HeaderOn, PathIs
<1>2. e[i] \in 0 .. Len(h) /\ Stops(h, S, e[i]) /\ p[i] = At(Header, h, e[i])
  BY DEF Ends
<1>3. e[d] \in 0 .. Len(q) /\ Stops(q, S, e[d]) /\ p[d] = At(Header, q, e[d])
  BY DEF Ends
<1>4. \A k \in 1 .. Len(q) : q[k] \in S <=> k <= e[d]
  BY <1>3, StopAbove DEF Downset
<1>5. p[i] \in On(F)
  BY <1>1, <1>2, PathFrom
<1>h. Nodes(h) \subseteq Nodes(q)
  OBVIOUS
<1>p. \A a \in 0 .. Len(q) : Along(F, At(Header, q, a), d) = After(q, a)
  BY <1>1, PathFrom
<1> HIDE DEF q, h
<1>6. PICK a \in 0 .. e[d] : p[i] = At(Header, q, a)
  <2>1. CASE e[i] = 0
    <3>1. 0 \in 0 .. e[d] /\ p[i] = At(Header, q, 0)
      BY <2>1, <1>2, <1>3 DEF At
    <3> QED
      BY <3>1
  <2>2. CASE e[i] # 0
    <3>1. e[i] \in 1 .. Len(h) /\ e[i] \in 1 .. e[i]
      BY <2>2, <1>1, <1>2
    <3>2. p[i] = h[e[i]] /\ p[i] \in S /\ p[i] \in Nodes(h)
      BY <2>2, <3>1, <1>1, <1>2, NodesOf DEF At, Stops
    <3>3. PICK a \in 1 .. Len(q) : q[a] = p[i]
      BY <3>2, <1>1, <1>h, NodesOf
    <3>4. a \in 0 .. e[d] /\ a # 0
      BY <3>2, <3>3, <1>1, <1>3, <1>4
    <3> QED
      BY <3>3, <3>4 DEF At
  <2> QED
    BY <2>1, <2>2
<1>7. a \in 0 .. Len(q)
  BY <1>1, <1>3
<1>8. Along(F, p[i], d) = After(q, a)
  BY <1>6, <1>7, <1>p
<1>9. CASE a = e[d]
  BY <1>3, <1>5, <1>6, <1>9
<1>10. CASE a # e[d]
  <2>1. e[d] \in a + 1 .. Len(q) /\ e[d] \in 1 .. Len(q) /\ e[d] # 0
    BY <1>1, <1>3, <1>10
  <2>2. p[d] = q[e[d]]
    BY <2>1, <1>3 DEF At
  <2>3. q[e[d]] \in Nodes(After(q, a))
    BY <2>1, <1>1, <1>7, AfterNodes
  <2> QED
    BY <2>2, <2>3, <1>5, <1>8
<1> QED
  BY <1>9, <1>10

(* The path q from t on level i, with x behind position a.                 *)
PathInto(G, i, t, q, a, x) ==
  /\ Leads(G, i, t, InsertAt(q, a + 1, x))
  /\ Nodes(InsertAt(q, a + 1, x)) = Nodes(q) \cup {x}
  /\ Along(G, t, i) = InsertAt(q, a + 1, x)

(* The paths that lead to p[i] lead to x behind it.                        *)
LEMMA LinkedAt ==
  ASSUME NEW F, NEW sc, Tower(F, sc), NEW G, NEW x \in Node, x \notin On(F), NEW l \in Nat,
         NEW p, Linked(F, G, x, l, p), NEW t \in On(F), NEW i \in Levels,
         NEW q, q = Along(F, t, i), NEW a \in 0 .. Len(q), i < l, p[i] = At(t, q, a)
  PROVE  PathInto(G, i, t, q, a, x)
<1>1. Leads(F, i, t, q) /\ q \in Seq(Node) /\ Nodes(q) \subseteq On(F) \ {Header} /\ Len(q) \in Nat
  BY PathIs, PathOn
<1>2. On(F) \subseteq Place \ {x} /\ t # x /\ x \notin Nodes(q)
  <2>1. Header \in On(F) /\ Along(F, Header, 0) \in Seq(Node)
    BY HeaderOn, LevelsAre, PathIs
  <2>2. On(F) \subseteq Place
    BY <2>1, NodesOf DEF On, Place
  <2> QED
    BY <2>2, <1>1
<1>3. G[x][i] = (IF i < l THEN F[p[i]][i] ELSE NULL)
      /\ \A y \in {t} \cup Nodes(q) : G[y][i] = IF i < l /\ y = p[i] THEN x ELSE F[y][i]
  BY <1>1, <1>2 DEF Linked
<1>4. p[i] \in {t} \cup Nodes(q)
  <2>1. At(t, q, a) \in {t} \cup Nodes(q)
    BY <1>1, AtIs
  <2> QED
    BY <2>1
<1>5. G[At(t, q, a)][i] = x /\ G[x][i] = F[At(t, q, a)][i]
      /\ \A y \in {t} \cup Nodes(q) : y # At(t, q, a) => G[y][i] = F[y][i]
  BY <1>4, <1>3
<1>6. Leads(G, i, t, InsertAt(q, a + 1, x)) /\ Nodes(InsertAt(q, a + 1, x)) = Nodes(q) \cup {x}
  BY <1>4, <1>5, <1>1, <1>2, LeadsInto
<1>7. Along(G, t, i) = InsertAt(q, a + 1, x)
  BY <1>6, AlongIs
<1> QED
  BY <1>6, <1>7 DEF PathInto

(* What the paths are afterwards.                                          *)
LEMMA LinkedPath ==
  ASSUME NEW F, NEW sc, Tower(F, sc), NEW G, NEW x \in Node, x \notin On(F), NEW l \in Nat,
         NEW p, Linked(F, G, x, l, p), NEW t \in On(F), NEW i \in Levels
  PROVE  /\ Leads(G, i, t, Along(G, t, i))
         /\ Nodes(Along(G, t, i)) =
              Nodes(Along(F, t, i)) \cup
              (IF i < l /\ p[i] \in {t} \cup Nodes(Along(F, t, i)) THEN {x} ELSE {})
<1> DEFINE q == Along(F, t, i)
<1>1. Leads(F, i, t, q) /\ q \in Seq(Node) /\ Nodes(q) \subseteq On(F) \ {Header} /\ Len(q) \in Nat
  BY PathIs, PathOn
<1>2. On(F) \subseteq Place \ {x} /\ t # x /\ x \notin Nodes(q)
  <2>1. Header \in On(F) /\ Along(F, Header, 0) \in Seq(Node)
    BY HeaderOn, LevelsAre, PathIs
  <2>2. On(F) \subseteq Place
    BY <2>1, NodesOf DEF On, Place
  <2> QED
    BY <2>2, <1>1
<1>3. G[x][i] = (IF i < l THEN F[p[i]][i] ELSE NULL)
      /\ \A y \in {t} \cup Nodes(q) : G[y][i] = IF i < l /\ y = p[i] THEN x ELSE F[y][i]
  BY <1>1, <1>2 DEF Linked
<1>4. q = Along(F, t, i)
  OBVIOUS
<1> HIDE DEF q
<1>5. ASSUME NEW a \in 0 .. Len(q), i < l, p[i] = At(t, q, a)
      PROVE  PathInto(G, i, t, q, a, x)
  BY <1>5, <1>4, LinkedAt
<1>6. CASE i < l /\ p[i] \in {t} \cup Nodes(q)
  <2>1. PICK a \in 0 .. Len(q) : p[i] = At(t, q, a)
    <3>1. CASE p[i] = t
      <4>1. 0 \in 0 .. Len(q) /\ p[i] = At(t, q, 0)
        BY <3>1, <1>1 DEF At
      <4> QED
        BY <4>1
    <3>2. CASE p[i] # t
      <4>1. PICK a \in 1 .. Len(q) : q[a] = p[i]
        BY <3>2, <1>1, <1>6, NodesOf
      <4>2. a \in 0 .. Len(q) /\ a # 0
        BY <1>1
      <4> QED
        BY <4>1, <4>2 DEF At
    <3> QED
      BY <3>1, <3>2
  <2>2. Leads(G, i, t, InsertAt(q, a + 1, x)) /\ Nodes(InsertAt(q, a + 1, x)) = Nodes(q) \cup {x}
        /\ Along(G, t, i) = InsertAt(q, a + 1, x)
    BY <2>1, <1>5, <1>6 DEF PathInto
  <2> QED
    BY <2>2, <1>6 DEF q
<1>7. CASE ~(i < l /\ p[i] \in {t} \cup Nodes(q))
  <2>1. Leads(G, i, t, q)
    <3>1. t \notin Nodes(q) /\ G[t][i] = F[t][i] /\ \A z \in Nodes(q) : G[z][i] = F[z][i]
      BY <1>1, <1>3, <1>7 DEF Leads
    <3> QED
      BY <3>1, <1>1, LeadsSame
  <2>2. Along(G, t, i) = q
    BY <2>1, AlongIs
  <2> QED
    BY <2>1, <2>2, <1>7 DEF q
<1> QED
  BY <1>6, <1>7

(* And that of x itself.                                                   *)
LEMMA LinkedNew ==
  ASSUME NEW F, NEW sc, Tower(F, sc), NEW S, Downset(sc, S), NEW p, NEW e, Ends(F, S, p, e),
         NEW G, NEW x \in Node, x \notin On(F), NEW l \in Nat, Linked(F, G, x, l, p), NEW i \in Levels
  PROVE  /\ Leads(G, i, x, Along(G, x, i))
         /\ Nodes(Along(G, x, i)) = IF i < l THEN Nodes(Along(F, Header, i)) \ S ELSE {}
<1> DEFINE q == Along(F, Header, i)  r == After(q, e[i])
<1>1. Leads(F, i, Header, q) /\ q \in Seq(Node) /\ Nodes(q) \subseteq On(F) \ {Header}
  BY HeaderOn, PathIs, PathOn
<1>2. e[i] \in 0 .. Len(q) /\ Stops(q, S, e[i]) /\ p[i] = At(Header, q, e[i])
  BY DEF Ends
<1>3. Leads(F, i, p[i], r) /\ Nodes(r) = Nodes(q) \ S
  <2>1. Leads(F, i, At(Header, q, e[i]), r)
    <3> HIDE DEF q
    <3> QED
      BY <1>1, <1>2, LeadsFrom
  <2>2. Nodes(r) = Nodes(q) \ S
    <3>1. ASSUME NEW j \in 0 .. Len(q), Stops(q, S, j)
          PROVE  Nodes(After(q, j)) = Nodes(q) \ S
      <4>1. \A y, z \in Node : y \in S /\ sc[z] <= sc[y] => z \in S
        BY DEF Downset
      <4>2. /\ \A k \in 1 .. Len(Along(F, Header, i)) : Along(F, Header, i)[k] \in S <=> k <= j
            /\ Nodes(After(Along(F, Header, i), j)) = Nodes(Along(F, Header, i)) \ S
        BY <4>1, <3>1, StopAbove
      <4> QED
        BY <4>2
    <3> HIDE DEF q
    <3> QED
      BY <3>1, <1>2
  <2> QED
    BY <2>1, <2>2, <1>2
<1>4. CASE i < l
  <2>1. x \notin Nodes(r) /\ p[i] \notin Nodes(r) /\ Nodes(r) \subseteq Node
    BY <1>1, <1>3, NodesOf DEF Leads
  <2>2. G[x][i] = F[p[i]][i] /\ \A z \in Nodes(r) : G[z][i] = F[z][i]
    BY <2>1, <1>4 DEF Linked, Place
  <2>3. Leads(G, i, x, r)
    <3> HIDE DEF r
    <3> QED
      BY <2>1, <2>2, <1>3, LeadsSame
  <2>4. Along(G, x, i) = r
    BY <2>3, AlongIs
  <2> QED
    BY <2>3, <2>4, <1>3, <1>4
<1>5. CASE ~(i < l)
  <2>1. <<>> \in Seq(Node) /\ Len(<<>>) = 0 /\ Nodes(<<>>) = {}
    BY EmptySeq DEF Nodes
  <2>2. G[x][i] = NULL
    BY <1>5 DEF Linked
  <2>3. Leads(G, i, x, <<>>)
    BY <2>1, <2>2 DEF Leads, Once, At
  <2>4. Along(G, x, i) = <<>>
    BY <2>3, AlongIs
  <2> QED
    BY <2>1, <2>3, <2>4, <1>5
<1> QED
  BY <1>4, <1>5


(* One level stays a shortcut through another.                             *)
LEMMA LinkedBelow ==
  ASSUME NEW F, NEW sc, Tower(F, sc), NEW S, Downset(sc, S), NEW p, NEW e, Ends(F, S, p, e),
         NEW G, NEW x \in Node, x \notin On(F), NEW l \in Nat, Linked(F, G, x, l, p),
         NEW i \in Levels, NEW d \in Levels, d <= i,
         \A t \in On(F) : Nodes(Along(F, t, i)) \subseteq Nodes(Along(F, t, d))
  PROVE  \A t \in On(F) \cup {x} : Nodes(Along(G, t, i)) \subseteq Nodes(Along(G, t, d))
<1>0. Header \in On(F) /\ i \in Nat /\ d \in Nat
  BY HeaderOn, LevelsAre
<1>1. ASSUME NEW t \in On(F)
      PROVE  Nodes(Along(G, t, i)) \subseteq Nodes(Along(G, t, d))
  <2>1. ASSUME NEW h \in Levels
        PROVE  Nodes(Along(G, t, h)) =
                 Nodes(Along(F, t, h)) \cup
                 (IF h < l /\ p[h] \in {t} \cup Nodes(Along(F, t, h)) THEN {x} ELSE {})
    BY <1>1, LinkedPath
  <2>2. Nodes(Along(F, t, i)) \subseteq Nodes(Along(F, t, d))
    OBVIOUS
  <2>3. ASSUME i < l, p[i] \in {t} \cup Nodes(Along(F, t, i))
        PROVE  d < l /\ p[d] \in {t} \cup Nodes(Along(F, t, d))
    <3>1. d < l
      BY <2>3, <1>0
    <3>2. p[d] \in {p[i]} \cup Nodes(Along(F, p[i], d))
      BY <1>0, EndsBelow
    <3>3. p[i] \in {t} \cup Nodes(Along(F, t, d))
      BY <2>2, <2>3
    <3>4. CASE p[i] = t
      BY <3>1, <3>2, <3>4
    <3>5. CASE p[i] \in Nodes(Along(F, t, d))
      <4>1. PICK j \in 1 .. Len(Along(F, t, d)) :
              Nodes(Along(F, p[i], d)) = {Along(F, t, d)[k] : k \in j + 1 .. Len(Along(F, t, d))}
        BY <3>5, PathOf
      <4>2. Along(F, t, d) \in Seq(Node) /\ Len(Along(F, t, d)) \in Nat
        BY PathIs
      <4>3. Nodes(Along(F, p[i], d)) \subseteq Nodes(Along(F, t, d))
        <5> HIDE DEF Along
        <5>1. \A k \in j + 1 .. Len(Along(F, t, d)) : k \in 1 .. Len(Along(F, t, d))
          BY <4>2
        <5> QED
          BY <5>1, <4>1, <4>2, NodesOf
      <4> QED
        BY <3>1, <3>2, <3>5, <4>3
    <3> QED
      BY <3>3, <3>4, <3>5
  <2> QED
    BY <2>1, <2>2, <2>3
<1>2. Nodes(Along(G, x, i)) \subseteq Nodes(Along(G, x, d))
  <2>1. ASSUME NEW h \in Levels
        PROVE  Nodes(Along(G, x, h)) = IF h < l THEN Nodes(Along(F, Header, h)) \ S ELSE {}
    BY LinkedNew
  <2>2. Nodes(Along(F, Header, i)) \subseteq Nodes(Along(F, Header, d))
    BY <1>0
  <2>3. i < l => d < l
    BY <1>0
  <2> QED
    BY <2>1, <2>2, <2>3
<1> QED
  BY <1>1, <1>2

(* A list that was not shifted: what a level of the header does not reach  *)
(* has no pointer on that level.                                           *)
Whole(F) ==
  \A t \in On(F) \ {Header}, i \in Levels :
    t \notin Nodes(Along(F, Header, i)) => F[t][i] = NULL

HeaderLinked(F, G, S, p, e, x, l, i) ==
  /\ e[i] \in 0 .. Len(Along(F, Header, i))
  /\ p[i] \in {Header} \cup Nodes(Along(F, Header, i))
  /\ \A a \in 1 .. Len(Along(F, Header, i)) : Along(F, Header, i)[a] \in S <=> a <= e[i]
  /\ Nodes(Along(G, Header, i)) = Nodes(Along(F, Header, i)) \cup (IF i < l THEN {x} ELSE {})
  /\ i < l => Along(G, Header, i) = InsertAt(Along(F, Header, i), e[i] + 1, x)

(* The levels of the header.                                               *)
LEMMA LinkedHeader ==
  ASSUME NEW F, NEW sc, Tower(F, sc), NEW S, Downset(sc, S), NEW p, NEW e, Ends(F, S, p, e),
         NEW G, NEW x \in Node, x \notin On(F), NEW l \in Nat, Linked(F, G, x, l, p), NEW i \in Levels
  PROVE  HeaderLinked(F, G, S, p, e, x, l, i)
<1>1. Header \in On(F)
  BY HeaderOn
<1>2. /\ e[i] \in 0 .. Len(Along(F, Header, i))
      /\ Stops(Along(F, Header, i), S, e[i])
      /\ p[i] = At(Header, Along(F, Header, i), e[i])
  BY DEF Ends
<1>3. p[i] \in {Header} \cup Nodes(Along(F, Header, i))
  <2>1. Along(F, Header, i) \in Seq(Node)
    BY <1>1, PathIs
  <2>2. At(Header, Along(F, Header, i), e[i]) \in {Header} \cup Nodes(Along(F, Header, i))
    BY <2>1, <1>2, AtIs
  <2> QED
    BY <2>2, <1>2
<1>4. Nodes(Along(G, Header, i)) = Nodes(Along(F, Header, i)) \cup (IF i < l THEN {x} ELSE {})
  <2>1. ASSUME NEW t \in On(F)
        PROVE  Nodes(Along(G, t, i)) =
                 Nodes(Along(F, t, i)) \cup
                 (IF i < l /\ p[i] \in {t} \cup Nodes(Along(F, t, i)) THEN {x} ELSE {})
    BY <2>1, LinkedPath
  <2> QED
    BY <1>1, <1>3, <2>1
<1>5. ASSUME i < l
      PROVE  Along(G, Header, i) = InsertAt(Along(F, Header, i), e[i] + 1, x)
  <2>1. ASSUME NEW t \in On(F), NEW q, q = Along(F, t, i), NEW a \in 0 .. Len(q), p[i] = At(t, q, a)
        PROVE  Along(G, t, i) = InsertAt(q, a + 1, x)
    <3>1. PathInto(G, i, t, q, a, x)
      BY <2>1, <1>5, LinkedAt
    <3> QED
      BY <3>1 DEF PathInto
  <2> QED
    BY <1>1, <1>2, <2>1
<1>6. \A a \in 1 .. Len(Along(F, Header, i)) : Along(F, Header, i)[a] \in S <=> a <= e[i]
  <2>1. \A y, z \in Node : y \in S /\ sc[z] <= sc[y] => z \in S
    BY DEF Downset
  <2>2. ASSUME NEW j \in 0 .. Len(Along(F, Header, i)), Stops(Along(F, Header, i), S, j)
        PROVE  /\ \A a \in 1 .. Len(Along(F, Header, i)) : Along(F, Header, i)[a] \in S <=> a <= j
               /\ Nodes(After(Along(F, Header, i), j)) = Nodes(Along(F, Header, i)) \ S
    BY <2>1, <2>2, StopAbove
  <2> QED
    BY <1>2, <2>2
<1> QED
  BY <1>2, <1>3, <1>4, <1>5, <1>6 DEF HeaderLinked

UpTo(sc, k, S) == \A y \in Node : y \in S <=> sc[y] <= k

LEMMA LinkedTower ==
  ASSUME NEW F, NEW sc, Tower(F, sc), NEW k \in Nat, NEW S, UpTo(sc, k, S),
         NEW p, NEW e, Ends(F, S, p, e),
         NEW G \in Pointers,
         NEW x \in Node, x \notin On(F), NEW l \in Nat, l > 0, Linked(F, G, x, l, p)
  PROVE  /\ Along(G, Header, 0) = InsertAt(Along(F, Header, 0), e[0] + 1, x)
         /\ On(G) = On(F) \cup {x}
         /\ Tower(G, [sc EXCEPT ![x] = k])
         /\ Whole(F) => Whole(G)
<1> DEFINE q == Along(F, Header, 0)  g == [sc EXCEPT ![x] = k]
<1>0. sc \in [Node -> Nat] /\ Downset(sc, S) /\ Rising(sc, q)
  BY DEF Tower, Downset, UpTo
<1>1. Header \in On(F) /\ 0 \in Levels /\ 0 < l /\ l \in Nat
  BY HeaderOn, LevelsAre
<1>2. q \in Seq(Node) /\ Len(q) \in Nat /\ On(F) = {Header} \cup Nodes(q) /\ x \notin Nodes(q)
  BY <1>1, PathIs DEF On
<1>3. ASSUME NEW i \in Levels
      PROVE  /\ e[i] \in 0 .. Len(Along(F, Header, i))
             /\ p[i] \in {Header} \cup Nodes(Along(F, Header, i))
             /\ \A a \in 1 .. Len(Along(F, Header, i)) : Along(F, Header, i)[a] \in S <=> a <= e[i]
             /\ Nodes(Along(G, Header, i)) = Nodes(Along(F, Header, i)) \cup (IF i < l THEN {x} ELSE {})
             /\ i < l => Along(G, Header, i) = InsertAt(Along(F, Header, i), e[i] + 1, x)
  <2>1. HeaderLinked(F, G, S, p, e, x, l, i)
    BY <1>0, LinkedHeader
  <2> QED
    BY <2>1 DEF HeaderLinked
<1>4. Along(G, Header, 0) = InsertAt(q, e[0] + 1, x) /\ Nodes(Along(G, Header, 0)) = Nodes(q) \cup {x}
  BY <1>1, <1>3
<1>5. On(G) = On(F) \cup {x}
  BY <1>2, <1>4 DEF On
<1>6. Rising(g, Along(G, Header, 0))
  <2>1. \A a \in 1 .. Len(q) : q[a] \in S <=> a <= e[0]
    BY <1>1, <1>3
  <2>2. \A a \in 1 .. Len(q) : q[a] \in Node
    BY <1>2, NodesOf
  <2>3. e[0] \in 0 .. Len(q) /\ \A a \in 1 .. Len(q) : sc[q[a]] <= k <=> a <= e[0]
    BY <1>1, <1>3, <2>1, <2>2 DEF UpTo
  <2> HIDE DEF q
  <2>4. Rising(g, InsertAt(q, e[0] + 1, x))
    BY <2>3, <1>0, <1>2, RisingInto
  <2> QED
    BY <2>4, <1>4
<1>7. ASSUME NEW t \in On(F) \cup {x}, NEW i \in Levels
      PROVE  /\ Leads(G, i, t, Along(G, t, i))
             /\ Nodes(Along(G, t, i)) \subseteq Nodes(Along(G, t, 0))
             /\ i # 0 => Nodes(Along(G, t, i)) \subseteq Nodes(Along(G, t, i - 1))
  <2>3. Leads(G, i, t, Along(G, t, i))
    <3>1. CASE t \in On(F)
      BY <3>1, LinkedPath
    <3>2. CASE t = x
      BY <1>0, <3>2, LinkedNew
    <3> QED
      BY <1>7, <3>1, <3>2
  <2>4. \A h \in Levels : h = 0 \/ (i # 0 /\ h = i - 1) =>
          \A u \in On(F) : Nodes(Along(F, u, i)) \subseteq Nodes(Along(F, u, h))
    BY DEF Tower, Ways
  <2>5. ASSUME NEW h \in Levels, h = 0 \/ (i # 0 /\ h = i - 1)
        PROVE  Nodes(Along(G, t, i)) \subseteq Nodes(Along(G, t, h))
    <3>1. h <= i
      BY <2>5, LevelsAre
    <3>2. \A u \in On(F) : Nodes(Along(F, u, i)) \subseteq Nodes(Along(F, u, h))
      BY <2>4, <2>5
    <3>3. \A u \in On(F) \cup {x} : Nodes(Along(G, u, i)) \subseteq Nodes(Along(G, u, h))
      BY <3>1, <3>2, <1>0, LinkedBelow
    <3> QED
      BY <3>3, <1>7
  <2> QED
    BY <2>3, <2>5, LevelsAre
<1>8. Tower(G, g)
  <2>1. g \in [Node -> Nat]
    BY <1>0
  <2> QED
    BY <2>1, <1>5, <1>6, <1>7 DEF Tower, Ways
<1>9. ASSUME Whole(F) PROVE Whole(G)
  <2> SUFFICES ASSUME NEW t \in On(G) \ {Header}, NEW i \in Levels,
                      t \notin Nodes(Along(G, Header, i))
               PROVE  G[t][i] = NULL
    BY DEF Whole
  <2>1. Nodes(Along(G, Header, i)) = Nodes(Along(F, Header, i)) \cup (IF i < l THEN {x} ELSE {})
    BY <1>3
  <2>2. CASE t = x
    BY <2>1, <2>2 DEF Linked
  <2>3. CASE t # x
    <3>1. t \in On(F) \ {Header} /\ t \notin Nodes(Along(F, Header, i)) /\ t # p[i]
      BY <2>1, <2>3, <1>3, <1>5
    <3>2. t \in Place \ {x}
      BY <3>1, <2>3, <1>2, NodesOf DEF Place
    <3>3. G[t][i] = F[t][i]
      BY <3>1, <3>2 DEF Linked
    <3> QED
      BY <3>1, <3>3, <1>9 DEF Whole
  <2> QED
    BY <2>2, <2>3
<1> QED
  BY <1>4, <1>5, <1>8, <1>9

-----------------------------------------------------------------------------
(* Removal                                                                 *)

(* A node of a path leads to another of its nodes, or nowhere.             *)
LEMMA LeadsAhead ==
  ASSUME NEW F, NEW i, NEW x, NEW q, Leads(F, i, x, q), NEW y \in {x} \cup Nodes(q)
  PROVE  /\ F[y][i] \in Nodes(q) \cup {NULL}
         /\ \E j \in 0 .. Len(q) : y = At(x, q, j) /\ F[y][i] = At(x, q, j + 1)
<1>1. q \in Seq(Node) /\ \A j \in 0 .. Len(q) : F[At(x, q, j)][i] = At(x, q, j + 1)
  BY DEF Leads
<1>2. PICK m \in Nat : m = Len(q)
  BY <1>1, NodesOf
<1>3. PICK j \in 0 .. m : y = At(x, q, j)
  <2>1. CASE y = x
    <3>1. 0 \in 0 .. m /\ y = At(x, q, 0)
      BY <2>1, <1>2 DEF At
    <3> QED
      BY <3>1
  <2>2. CASE y # x
    <3>1. PICK j \in 1 .. m : q[j] = y
      BY <2>2, <1>1, <1>2, NodesOf
    <3>2. j \in 0 .. m /\ j # 0 /\ j \in 1 .. Len(q)
      BY <1>2
    <3> QED
      BY <3>1, <3>2 DEF At
  <2> QED
    BY <2>1, <2>2
<1>4. F[y][i] = At(x, q, j + 1)
  BY <1>1, <1>2, <1>3
<1>5. At(x, q, j + 1) \in Nodes(q) \cup {NULL}
  <2>1. CASE j = m
    BY <2>1, <1>1, <1>2, AtIs
  <2>2. CASE j # m
    <3>1. j + 1 \in 1 .. Len(q) /\ j + 1 # 0
      BY <2>2, <1>2
    <3> QED
      BY <3>1, <1>1, NodesOf DEF At
  <2> QED
    BY <2>1, <2>2
<1> QED
  BY <1>2, <1>3, <1>4, <1>5

(* Only one node of a path leads to a given one.                           *)
LEMMA LeadsOnce ==
  ASSUME NEW F, NEW i, NEW x, NEW q, Leads(F, i, x, q),
         NEW y \in {x} \cup Nodes(q), NEW z \in {x} \cup Nodes(q), F[y][i] = F[z][i], F[y][i] \in Node
  PROVE  y = z
<1>1. q \in Seq(Node) /\ Once(q)
  BY DEF Leads
<1>2. PICK m \in Nat : m = Len(q)
  BY <1>1, NodesOf
<1>3. PICK j \in 0 .. m : y = At(x, q, j) /\ F[y][i] = At(x, q, j + 1)
  BY <1>2, LeadsAhead
<1>4. PICK k \in 0 .. m : z = At(x, q, k) /\ F[z][i] = At(x, q, k + 1)
  BY <1>2, LeadsAhead
<1>5. At(x, q, m + 1) \notin Node
  <2>1. m + 1 # 0 /\ m + 1 \notin 1 .. Len(q)
    BY <1>2
  <2> QED
    BY <2>1, SkipListAssumption DEF At
<1>6. j # m /\ k # m
  BY <1>3, <1>4, <1>5
<1>7. /\ j + 1 \in 1 .. Len(q) /\ k + 1 \in 1 .. Len(q) /\ j + 1 # 0 /\ k + 1 # 0
  BY <1>2, <1>6
<1>8. q[j + 1] = q[k + 1]
  BY <1>3, <1>4, <1>7 DEF At
<1>9. j + 1 = k + 1
  BY <1>1, <1>7, <1>8 DEF Once
<1> QED
  BY <1>3, <1>4, <1>9

LEMMA RisingOutOf ==
  ASSUME NEW q \in Seq(Node), NEW sc \in [Node -> Nat], Rising(sc, q), NEW j \in 1 .. Len(q)
  PROVE  Rising(sc, RemoveAt(q, j))
<1> DEFINE r == RemoveAt(q, j)
<1>1. PICK m \in Nat : m = Len(q)
  BY NodesOf
<1>2. Len(r) = m - 1 /\ \A k \in 1 .. m - 1 : r[k] = IF k < j THEN q[k] ELSE q[k + 1]
  BY <1>1, RemoveAtIs
<1> HIDE DEF r
<1>3. ASSUME NEW k \in 1 .. m - 1
      PROVE  \E l \in 1 .. m : r[k] = q[l] /\ l = IF k < j THEN k ELSE k + 1
  <2>1. PICK l \in 1 .. m : l = IF k < j THEN k ELSE k + 1
    BY <1>1
  <2> QED
    BY <2>1, <1>2
<1>4. ASSUME NEW a \in 1 .. m - 1, NEW b \in 1 .. m - 1, a < b
      PROVE  sc[r[a]] <= sc[r[b]]
  <2>1. PICK c \in 1 .. m : r[a] = q[c] /\ c = IF a < j THEN a ELSE a + 1
    BY <1>3
  <2>2. PICK d \in 1 .. m : r[b] = q[d] /\ d = IF b < j THEN b ELSE b + 1
    BY <1>3
  <2>3. c < d
    BY <2>1, <2>2, <1>1, <1>4
  <2> QED
    BY <2>1, <2>2, <2>3, <1>1 DEF Rising
<1> QED
  BY <1>2, <1>4 DEF Rising, r

(* x unlinked from every level, in pointers G.                             *)
Unlinked(F, G, x) ==
  \A y \in On(F), i \in Levels : G[y][i] = IF F[y][i] = x THEN F[x][i] ELSE F[y][i]

(* The path q from t on level i without x.                                 *)
PathOutOf(G, i, t, q, x) ==
  /\ Leads(G, i, t, Along(G, t, i))
  /\ Nodes(Along(G, t, i)) = Nodes(q) \ {x}
  /\ \A j \in 1 .. Len(q) : q[j] = x => Along(G, t, i) = RemoveAt(q, j)

LEMMA UnlinkedPath ==
  ASSUME NEW F, NEW sc, Tower(F, sc), NEW x \in Node, NEW G, Unlinked(F, G, x),
         NEW t \in On(F), NEW i \in Levels
  PROVE  PathOutOf(G, i, t, Along(F, t, i), x)
<1> DEFINE q == Along(F, t, i)
<1>1. Leads(F, i, t, q) /\ q \in Seq(Node) /\ Nodes(q) \subseteq On(F)
  BY PathIs, PathOn
<1>2. \A y \in {t} \cup Nodes(q) : G[y][i] = IF F[y][i] = x THEN F[x][i] ELSE F[y][i]
  BY <1>1 DEF Unlinked
<1> HIDE DEF q
<1>3. CASE x \in Nodes(q)
  <2>1. PICK j \in 1 .. Len(q) : q[j] = x
    BY <1>1, <1>3, NodesOf
  <2>2. Leads(G, i, t, RemoveAt(q, j)) /\ Nodes(RemoveAt(q, j)) = Nodes(q) \ {x}
    <3>1. x = q[j] /\ \A y \in {t} \cup (Nodes(q) \ {x}) : G[y][i] = IF F[y][i] = x THEN F[x][i] ELSE F[y][i]
      BY <2>1, <1>2
    <3> QED
      BY <3>1, <1>1, LeadsOutOf
  <2>3. Along(G, t, i) = RemoveAt(q, j)
    BY <2>2, AlongIs
  <2>4. \A k \in 1 .. Len(q) : q[k] = x => k = j
    BY <2>1, <1>1 DEF Leads, Once
  <2> QED
    BY <2>2, <2>3, <2>4 DEF PathOutOf, q
<1>4. CASE x \notin Nodes(q)
  <2>1. \A y \in {t} \cup Nodes(q) : G[y][i] = F[y][i]
    <3>1. \A y \in {t} \cup Nodes(q) : F[y][i] \in Nodes(q) \cup {NULL}
      BY <1>1, LeadsAhead
    <3>2. x # NULL
      BY SkipListAssumption
    <3> QED
      BY <3>1, <3>2, <1>2, <1>4
  <2>2. Leads(G, i, t, q)
    <3>1. t \notin Nodes(q) /\ G[t][i] = F[t][i] /\ \A z \in Nodes(q) : G[z][i] = F[z][i]
      BY <2>1, <1>1 DEF Leads
    <3> QED
      BY <3>1, <1>1, LeadsSame
  <2>3. Along(G, t, i) = q
    BY <2>2, AlongIs
  <2>4. \A k \in 1 .. Len(q) : q[k] # x
    BY <1>1, <1>4, NodesOf
  <2> QED
    BY <2>2, <2>3, <2>4, <1>4 DEF PathOutOf, q
<1> QED
  BY <1>3, <1>4

LEMMA UnlinkedTower ==
  ASSUME NEW F, NEW sc, Tower(F, sc), NEW G \in Pointers, NEW x \in Node, Unlinked(F, G, x),
         NEW j \in 1 .. Len(Along(F, Header, 0)), Along(F, Header, 0)[j] = x
  PROVE  /\ Along(G, Header, 0) = RemoveAt(Along(F, Header, 0), j)
         /\ On(G) = On(F) \ {x}
         /\ Tower(G, sc)
         /\ Whole(F) => Whole(G)
<1> DEFINE q == Along(F, Header, 0)
<1>0. sc \in [Node -> Nat] /\ Rising(sc, q)
  BY DEF Tower
<1>1. Header \in On(F) /\ 0 \in Levels /\ x # Header /\ x # NULL
  BY HeaderOn, LevelsAre, SkipListAssumption
<1>2. q \in Seq(Node) /\ On(F) = {Header} \cup Nodes(q)
  BY <1>1, PathIs DEF On
<1>3. ASSUME NEW t \in On(F), NEW i \in Levels
      PROVE  Leads(G, i, t, Along(G, t, i)) /\ Nodes(Along(G, t, i)) = Nodes(Along(F, t, i)) \ {x}
  BY UnlinkedPath DEF PathOutOf
<1>4. Along(G, Header, 0) = RemoveAt(q, j)
  <2>1. PathOutOf(G, 0, Header, q, x)
    BY <1>1, UnlinkedPath
  <2> QED
    BY <2>1 DEF PathOutOf
<1>5. On(G) = On(F) \ {x}
  BY <1>1, <1>2, <1>3 DEF On
<1>6. Rising(sc, Along(G, Header, 0))
  <2> HIDE DEF q
  <2>1. j \in 1 .. Len(q)
    BY DEF q
  <2> QED
    BY <2>1, <1>0, <1>2, <1>4, RisingOutOf
<1>7. ASSUME NEW t \in On(G) PROVE Ways(G, t)
  <2>1. t \in On(F)
    BY <1>5
  <2>2. \A h \in Levels : Leads(G, h, t, Along(G, t, h)) /\ Nodes(Along(G, t, h)) = Nodes(Along(F, t, h)) \ {x}
    BY <2>1, <1>3
  <2>3. Ways(F, t)
    BY <2>1 DEF Tower
  <2> QED
    BY <2>2, <2>3, <1>1, LevelsAre DEF Ways
<1>8. Tower(G, sc)
  BY <1>0, <1>6, <1>7 DEF Tower
<1>9. ASSUME Whole(F) PROVE Whole(G)
  <2> SUFFICES ASSUME NEW t \in On(G) \ {Header}, NEW i \in Levels,
                      t \notin Nodes(Along(G, Header, i))
               PROVE  G[t][i] = NULL
    BY DEF Whole
  <2>1. t \in On(F) \ {Header} /\ t # x
    BY <1>5
  <2>2. t \notin Nodes(Along(F, Header, i))
    BY <2>1, <1>1, <1>3
  <2>3. F[t][i] = NULL
    BY <2>1, <2>2, <1>9 DEF Whole
  <2> QED
    BY <2>1, <2>3, <1>1 DEF Unlinked
<1> QED
  BY <1>4, <1>5, <1>8, <1>9

(* On a list that was not shifted only one node leads to x, on any level.  *)
LEMMA OnlyOne ==
  ASSUME NEW F, NEW sc, Tower(F, sc), Whole(F), NEW i \in Levels, NEW x \in Node,
         NEW y \in On(F), F[y][i] = x
  PROVE  /\ y \in {Header} \cup Nodes(Along(F, Header, i)) /\ x \in Nodes(Along(F, Header, i))
         /\ \A z \in {Header} \cup Nodes(Along(F, Header, i)) : F[z][i] = x => z = y
<1> DEFINE q == Along(F, Header, i)
<1>1. Leads(F, i, Header, q) /\ x # NULL
  BY HeaderOn, PathIs, SkipListAssumption
<1>2. y \in {Header} \cup Nodes(q)
  BY <1>1 DEF Whole
<1> HIDE DEF q
<1>3. x \in Nodes(q)
  BY <1>1, <1>2, LeadsAhead
<1>4. ASSUME NEW z \in {Header} \cup Nodes(q), F[z][i] = x PROVE z = y
  BY <1>1, <1>2, <1>4, LeadsOnce
<1> QED
  BY <1>2, <1>3, <1>4 DEF q

LEMMA TailIs ==
  ASSUME NEW q \in Seq(Node), q # <<>>
  PROVE  After(q, 1) = Tail(q) /\ q = <<Head(q)>> \o Tail(q) /\ Head(q) = q[1]
<1>1. PICK m \in Nat : m = Len(q)
  BY NodesOf
<1>2. m # 0
  BY <1>1, EmptySeq
<1>3. /\ Tail(q) \in Seq(Node) /\ Len(Tail(q)) = m - 1 /\ \A k \in 1 .. m - 1 : Tail(q)[k] = q[k + 1]
      /\ Head(q) \in Node /\ Head(q) = q[1]
  BY <1>1, HeadTailProperties
<1>4. After(q, 1) = Tail(q)
  <2>1. Tail(q) = SubSeq(q, 2, Len(q))
    BY TailIsSubSeq
  <2>2. 1 + 1 = 2
    OBVIOUS
  <2> QED
    BY <2>1, <2>2 DEF After
<1>5. q = <<Head(q)>> \o Tail(q)
  <2> DEFINE t == Tail(q)  h == Head(q)
  <2>1. t \in Seq(Node) /\ Len(t) = m - 1 /\ (\A k \in 1 .. m - 1 : t[k] = q[k + 1]) /\ h \in Node /\ h = q[1]
    BY <1>3
  <2> HIDE DEF t, h
  <2>2. <<h>> \in Seq(Node) /\ Len(<<h>>) = 1 /\ <<h>>[1] = h
    BY <2>1
  <2>3. <<h>> \o t \in Seq(Node) /\ Len(<<h>> \o t) = Len(<<h>>) + Len(t)
        /\ \A k \in 1 .. Len(<<h>>) + Len(t) : (<<h>> \o t)[k] = IF k <= Len(<<h>>) THEN <<h>>[k] ELSE t[k - Len(<<h>>)]
    BY <2>1, <2>2, ConcatProperties
  <2> DEFINE c == <<h>> \o t
  <2>4. c \in Seq(Node) /\ Len(c) = m /\ \A k \in 1 .. m : c[k] = IF k <= 1 THEN h ELSE t[k - 1]
    BY <2>1, <2>2, <2>3, <1>2
  <2> HIDE DEF c
  <2>5. ASSUME NEW k \in 1 .. m PROVE c[k] = q[k]
    <3>1. CASE k = 1
      BY <3>1, <2>1, <2>4
    <3>2. CASE k # 1
      <4>1. PICK l \in 1 .. m - 1 : l = k - 1
        BY <3>2
      <4>2. c[k] = t[l] /\ t[l] = q[l + 1] /\ l + 1 = k
        BY <4>1, <3>2, <2>1, <2>4
      <4> QED
        BY <4>2
    <3> QED
      BY <3>1, <3>2
  <2>6. c = q
    BY <2>4, <2>5, <1>1, SeqEqual
  <2> QED
    BY <2>6 DEF c, h, t
<1> QED
  BY <1>3, <1>4, <1>5

-----------------------------------------------------------------------------
(* What the header is led past                                             *)

LEMMA RisingAfter ==
  ASSUME NEW q \in Seq(Node), NEW sc \in [Node -> Nat], Rising(sc, q), NEW j \in 0 .. Len(q)
  PROVE  Rising(sc, After(q, j))
<1> DEFINE r == After(q, j)
<1>1. PICK m \in Nat : m = Len(q)
  BY NodesOf
<1>2. Len(r) = m - j /\ \A k \in 1 .. m - j : r[k] = q[j + k]
  BY <1>1, AfterIs
<1> HIDE DEF r
<1>3. ASSUME NEW a \in 1 .. m - j, NEW b \in 1 .. m - j, a < b PROVE sc[r[a]] <= sc[r[b]]
  <2>1. r[a] = q[j + a] /\ r[b] = q[j + b] /\ j + a \in 1 .. Len(q) /\ j + b \in 1 .. Len(q) /\ j + a < j + b
    BY <1>1, <1>2, <1>3
  <2> QED
    BY <2>1 DEF Rising
<1> QED
  BY <1>2, <1>3 DEF Rising, r

(* The header leads past the first j nodes, in pointers G, which are those *)
(* of F for the others.                                                    *)
Past(F, G, j) ==
  LET K == Nodes(After(Along(F, Header, 0), j))
  IN  /\ Along(G, Header, 0) = After(Along(F, Header, 0), j)
      /\ Ways(G, Header)
      /\ \A y \in K, i \in Levels : G[y][i] = F[y][i]

LEMMA PastTower ==
  ASSUME NEW F, NEW sc, Tower(F, sc), NEW G \in Pointers,
         NEW j \in 0 .. Len(Along(F, Header, 0)), Past(F, G, j)
  PROVE  /\ On(G) = {Header} \cup Nodes(After(Along(F, Header, 0), j))
         /\ Tower(G, sc)
<1> DEFINE q == Along(F, Header, 0)  K == Nodes(After(q, j))
<1>1. sc \in [Node -> Nat] /\ Rising(sc, q)
  BY DEF Tower
<1>2. Header \in On(F) /\ 0 \in Levels /\ q \in Seq(Node) /\ Len(q) \in Nat /\ Nodes(q) \subseteq On(F)
  BY HeaderOn, LevelsAre, PathIs
<1>3. Along(G, Header, 0) = After(q, j) /\ Ways(G, Header) /\ \A y \in K, i \in Levels : G[y][i] = F[y][i]
  BY DEF Past
<1>4. j \in 0 .. Len(q) /\ K = {q[b] : b \in j + 1 .. Len(q)}
  BY <1>2, AfterNodes
<1>5. On(G) = {Header} \cup K
  BY <1>3 DEF On
<1>6. Rising(sc, Along(G, Header, 0))
  <2> HIDE DEF q
  <2> QED
    BY <1>1, <1>2, <1>3, <1>4, RisingAfter
<1>7. ASSUME NEW t \in K PROVE Ways(G, t)
  <2>1. PICK b \in j + 1 .. Len(q) : t = q[b]
    BY <1>4
  <2>2. b \in 1 .. Len(q)
    BY <2>1, <1>2
  <2>3. t \in Nodes(q) /\ t \in On(F)
    BY <2>1, <2>2, <1>2, NodesOf
  <2>4. PICK a \in 1 .. Len(q) : t = q[a] /\ Nodes(Along(F, t, 0)) = {q[c] : c \in a + 1 .. Len(q)}
    BY <1>2, <2>3, PathOf
  <2>5. Once(q)
    BY <1>2, PathIs DEF Leads
  <2>6. a = b
    BY <2>1, <2>2, <2>4, <2>5 DEF Once
  <2>7. Nodes(Along(F, t, 0)) \subseteq K
    <3>1. \A c \in a + 1 .. Len(q) : c \in j + 1 .. Len(q)
      BY <2>1, <2>2, <2>6, <1>2
    <3> QED
      BY <2>4, <3>1, <1>4
  <2>8. ASSUME NEW i \in Levels PROVE Leads(G, i, t, Along(F, t, i)) /\ Along(G, t, i) = Along(F, t, i)
    <3>1. Leads(F, i, t, Along(F, t, i)) /\ Nodes(Along(F, t, i)) \subseteq K /\ t \notin Nodes(Along(F, t, i))
      BY <2>3, <2>7, PathIs
    <3>2. G[t][i] = F[t][i] /\ \A z \in Nodes(Along(F, t, i)) : G[z][i] = F[z][i]
      BY <3>1, <1>3
    <3>3. Leads(G, i, t, Along(F, t, i))
      BY <3>1, <3>2, LeadsSame
    <3> QED
      BY <3>3, AlongIs
  <2>9. Ways(F, t)
    BY <2>3 DEF Tower
  <2> QED
    BY <2>8, <2>9, LevelsAre DEF Ways
<1> QED
  BY <1>1, <1>3, <1>5, <1>6, <1>7 DEF Tower

(* Cut off at p, where on every level the scores in S end.                 *)
Parted(F, G, p) ==
  \A i \in Levels :
    /\ G[Header][i] = F[p[i]][i]
    /\ \A y \in Node : G[y][i] = IF y = p[0] /\ i = 0 THEN NULL ELSE F[y][i]

LEMMA PartedTower ==
  ASSUME NEW F, NEW sc, Tower(F, sc), NEW S, Downset(sc, S), NEW p, NEW e, Ends(F, S, p, e),
         NEW G \in Pointers, Parted(F, G, p), e[0] # 0
  PROVE  /\ Along(G, Header, 0) = After(Along(F, Header, 0), e[0])
         /\ On(G) = On(F) \ (S \cap Node)
         /\ Tower(G, sc)
         /\ Whole(F) => Whole(G)
         /\ Leads(G, 0, Along(F, Header, 0)[1], SubSeq(Along(F, Header, 0), 2, e[0]))
<1> DEFINE q == Along(F, Header, 0)
<1>1. Header \in On(F) /\ 0 \in Levels
  BY HeaderOn, LevelsAre
<1>2. Leads(F, 0, Header, q) /\ q \in Seq(Node) /\ Len(q) \in Nat /\ On(F) = {Header} \cup Nodes(q)
  BY <1>1, PathIs DEF On
<1>3. e[0] \in 1 .. Len(q) /\ Stops(q, S, e[0]) /\ p[0] = q[e[0]] /\ e[0] \in 0 .. Len(q)
  <2>1. e[0] \in 0 .. Len(q) /\ Stops(q, S, e[0]) /\ p[0] = At(Header, q, e[0])
    BY <1>1 DEF Ends
  <2>2. e[0] \in 1 .. Len(q)
    BY <2>1, <1>2
  <2> QED
    BY <2>1, <2>2 DEF At
<1>4. p[0] \in S /\ p[0] \in Node
  <2> HIDE DEF q
  <2>1. e[0] \in 1 .. e[0]
    BY <1>2, <1>3
  <2> QED
    BY <2>1, <1>2, <1>3, NodesOf DEF Stops
<1>5. ASSUME NEW i \in Levels
      PROVE  /\ Leads(G, i, Header, After(Along(F, Header, i), e[i]))
             /\ Along(G, Header, i) = After(Along(F, Header, i), e[i])
             /\ Nodes(Along(G, Header, i)) = Nodes(Along(F, Header, i)) \ S
  <2> DEFINE h == Along(F, Header, i)  r == After(h, e[i])
  <2>1. Leads(F, i, Header, h) /\ h \in Seq(Node) /\ Nodes(h) \subseteq Node /\ Header \notin Nodes(h)
    BY <1>1, PathIs
  <2>2. e[i] \in 0 .. Len(h) /\ Stops(h, S, e[i]) /\ p[i] = At(Header, h, e[i])
    BY DEF Ends
  <2>3. Nodes(r) = Nodes(h) \ S
    <3>1. \A y, z \in Node : y \in S /\ sc[z] <= sc[y] => z \in S
      BY DEF Downset
    <3>2. ASSUME NEW a \in 0 .. Len(h), Stops(h, S, a)
          PROVE  /\ \A k \in 1 .. Len(Along(F, Header, i)) : Along(F, Header, i)[k] \in S <=> k <= a
                 /\ Nodes(After(Along(F, Header, i), a)) = Nodes(Along(F, Header, i)) \ S
      BY <3>1, <3>2, StopAbove
    <3> QED
      BY <2>2, <3>2
  <2>4. Leads(F, i, p[i], r)
    <3> HIDE DEF h
    <3>1. Leads(F, i, At(Header, h, e[i]), r)
      BY <2>1, <2>2, LeadsFrom
    <3> QED
      BY <3>1, <2>2
  <2>5. Header \notin Nodes(r) /\ G[Header][i] = F[p[i]][i] /\ \A z \in Nodes(r) : G[z][i] = F[z][i]
    BY <2>1, <2>3, <1>4 DEF Parted
  <2> HIDE DEF r
  <2>6. Leads(G, i, Header, r)
    BY <2>4, <2>5, LeadsSame
  <2>7. Along(G, Header, i) = r
    BY <2>6, AlongIs
  <2> QED
    BY <2>3, <2>6, <2>7 DEF r
<1>6. Past(F, G, e[0])
  <2>1. Ways(G, Header)
    <3>1. Ways(F, Header)
      BY <1>1 DEF Tower
    <3> QED
      BY <3>1, <1>1, <1>5, LevelsAre DEF Ways
  <2>2. Nodes(After(q, e[0])) = Nodes(q) \ S
    BY <1>1, <1>5
  <2>3. \A y \in Nodes(q) \ S, i \in Levels : G[y][i] = F[y][i]
    <3>1. Nodes(q) \subseteq Node
      BY <1>2, NodesOf
    <3> QED
      BY <3>1, <1>4 DEF Parted
  <2> QED
    BY <2>1, <2>2, <2>3, <1>1, <1>5 DEF Past
<1>7. On(G) = On(F) \ (S \cap Node) /\ Tower(G, sc)
  <2>1. On(G) = {Header} \cup Nodes(After(q, e[0])) /\ Tower(G, sc)
    BY <1>3, <1>6, PastTower
  <2>2. Nodes(q) \subseteq Node /\ Header \notin Node
    BY <1>2, NodesOf, SkipListAssumption
  <2> QED
    BY <2>1, <2>2, <1>1, <1>2, <1>5
<1>8. ASSUME Whole(F) PROVE Whole(G)
  <2> SUFFICES ASSUME NEW t \in On(G) \ {Header}, NEW i \in Levels,
                      t \notin Nodes(Along(G, Header, i))
               PROVE  G[t][i] = NULL
    BY DEF Whole
  <2>1. t \in On(F) \ {Header} /\ t \in Node /\ t \notin S
    <3>1. t \in Nodes(q)
      BY <1>2, <1>7
    <3> QED
      BY <3>1, <1>2, <1>7, NodesOf
  <2>2. t \notin Nodes(Along(F, Header, i))
    BY <2>1, <1>5
  <2>3. F[t][i] = NULL
    BY <2>1, <2>2, <1>8 DEF Whole
  <2> QED
    BY <2>1, <2>3 DEF Parted
<1>9. Leads(G, 0, q[1], SubSeq(q, 2, e[0]))
  <2>1. G[q[e[0]]][0] = NULL /\ \A y \in Nodes(q) : y # q[e[0]] => G[y][0] = F[y][0]
    <3>1. Nodes(q) \subseteq Node
      BY <1>2, NodesOf
    <3> QED
      BY <3>1, <1>1, <1>3, <1>4 DEF Parted
  <2> HIDE DEF q
  <2> QED
    BY <2>1, <1>2, <1>3, LeadsCut
<1> QED
  BY <1>1, <1>5, <1>7, <1>8, <1>9

(* The header takes over the pointers of its first node.                   *)
LEMMA ShiftedTower ==
  ASSUME NEW F, NEW sc, Tower(F, sc), NEW x, x = F[Header][0], x # NULL,
         NEW G \in Pointers, \A i \in Levels : G[Header][i] = F[x][i],
         \A y \in Node, i \in Levels : G[y][i] = F[y][i]
  PROVE  /\ Along(F, Header, 0) # <<>>
         /\ Along(G, Header, 0) = Tail(Along(F, Header, 0))
         /\ Tower(G, sc)
<1> DEFINE q == Along(F, Header, 0)
<1>1. Header \in On(F) /\ 0 \in Levels /\ Header \notin Node
  BY HeaderOn, LevelsAre, SkipListAssumption
<1>2. Leads(F, 0, Header, q) /\ q \in Seq(Node) /\ Nodes(q) \subseteq On(F)
  BY <1>1, HeaderOn, PathIs
<1>3. \A a \in 0 .. Len(q) : Along(F, At(Header, q, a), 0) = After(q, a)
  BY <1>1, PathFrom
<1> HIDE DEF q
<1>4. PICK m \in Nat : m = Len(q)
  BY <1>2, NodesOf
<1>5. 1 \in 0 .. Len(q) /\ x = At(Header, q, 1) /\ x \in Nodes(q)
  <2>1. 0 \in 0 .. Len(q) /\ 0 + 1 = 1
    BY <1>4
  <2>2. F[At(Header, q, 0)][0] = At(Header, q, 1)
    BY <2>1, <1>2 DEF Leads
  <2>3. x = At(Header, q, 1)
    BY <2>2 DEF At
  <2>4. 1 \in 1 .. Len(q)
    BY <2>3 DEF At
  <2> QED
    BY <2>3, <2>4, <1>2, <1>4, NodesOf DEF At
<1>6. x \in On(F) /\ x \in Node
  BY <1>2, <1>5, NodesOf
<1>7. ASSUME NEW i \in Levels
      PROVE  Leads(G, i, Header, Along(F, x, i)) /\ Along(G, Header, i) = Along(F, x, i)
  <2>1. Leads(F, i, x, Along(F, x, i)) /\ Nodes(Along(F, x, i)) \subseteq Node
    BY <1>6, PathIs
  <2>2. Header \notin Nodes(Along(F, x, i)) /\ G[Header][i] = F[x][i]
        /\ \A z \in Nodes(Along(F, x, i)) : G[z][i] = F[z][i]
    BY <2>1, <1>1
  <2>3. Leads(G, i, Header, Along(F, x, i))
    BY <2>1, <2>2, LeadsSame
  <2> QED
    BY <2>3, AlongIs
<1>8. Along(G, Header, 0) = After(q, 1)
  BY <1>1, <1>5, <1>7, <1>3
<1>9. Ways(G, Header)
  <2>1. Ways(F, x)
    BY <1>6 DEF Tower
  <2> QED
    BY <2>1, <1>1, <1>7, LevelsAre DEF Ways
<1>10. Past(F, G, 1)
  <2>1. Nodes(After(q, 1)) \subseteq Node
    BY <1>2, <1>5, AfterIs, NodesOf
  <2> QED
    BY <2>1, <1>8, <1>9 DEF Past, q
<1>11. Tower(G, sc)
  BY <1>5, <1>10, PastTower DEF q
<1>12. q # <<>> /\ After(q, 1) = Tail(q)
  <2>1. q # <<>>
    BY <1>4, <1>5, EmptySeq
  <2> QED
    BY <2>1, <1>2, TailIs
<1> QED
  BY <1>8, <1>11, <1>12 DEF q

(* The header leads nowhere.                                               *)
LEMMA ClearedTower ==
  ASSUME NEW G \in Pointers, NEW sc \in [Node -> Nat], \A i \in Levels : G[Header][i] = NULL
  PROVE  /\ Along(G, Header, 0) = <<>> /\ On(G) = {Header}
         /\ Tower(G, sc) /\ Whole(G)
<1>1. <<>> \in Seq(Node) /\ Len(<<>>) = 0 /\ Nodes(<<>>) = {}
  BY EmptySeq DEF Nodes
<1>2. ASSUME NEW i \in Levels PROVE Leads(G, i, Header, <<>>) /\ Along(G, Header, i) = <<>>
  <2>1. Leads(G, i, Header, <<>>)
    BY <1>1 DEF Leads, Once, At
  <2> QED
    BY <2>1, AlongIs
<1>3. Along(G, Header, 0) = <<>>
  BY <1>2, LevelsAre
<1>4. On(G) = {Header}
  BY <1>1, <1>3 DEF On
<1>5. Ways(G, Header)
  BY <1>1, <1>2, LevelsAre DEF Ways
<1>6. Rising(sc, Along(G, Header, 0))
  BY <1>1, <1>3 DEF Rising
<1> QED
  BY <1>3, <1>4, <1>5, <1>6 DEF Tower, Whole

-----------------------------------------------------------------------------
(* What the loop has yet to reach                                          *)

RestAt(F, y) == IF y = NULL THEN <<>> ELSE <<y>> \o Along(F, y, 0)

RestOk(F, y) == y # NULL => y \in Node /\ Leads(F, 0, y, Along(F, y, 0))

LEMMA RestIs == Rest = RestAt(forward, n)
  BY DEF Rest, RestAt, Path

LEMMA RestNodes ==
  ASSUME NEW F, NEW y, RestOk(F, y)
  PROVE  /\ RestAt(F, y) \in Seq(Node)
         /\ Nodes(RestAt(F, y)) = IF y = NULL THEN {} ELSE {y} \cup Nodes(Along(F, y, 0))
         /\ (RestAt(F, y) = <<>>) = (y = NULL)
         /\ y # NULL => Head(RestAt(F, y)) = y /\ Tail(RestAt(F, y)) = Along(F, y, 0)
<1>1. CASE y = NULL
  <2>1. RestAt(F, y) = <<>> /\ <<>> \in Seq(Node) /\ Nodes(<<>>) = {}
    BY <1>1, EmptySeq DEF RestAt, Nodes
  <2> QED
    BY <2>1, <1>1
<1>2. CASE y # NULL
  <2> DEFINE q == Along(F, y, 0)  r == <<y>> \o q
  <2>1. RestAt(F, y) = r /\ y \in Node /\ q \in Seq(Node)
    BY <1>2 DEF RestAt, RestOk, Leads
  <2> HIDE DEF q
  <2>2. PICK m \in Nat : m = Len(q)
    BY <2>1, NodesOf
  <2>3. <<y>> \in Seq(Node) /\ Len(<<y>>) = 1 /\ <<y>>[1] = y
    BY <2>1
  <2>4. r \in Seq(Node) /\ Len(r) = m + 1 /\ r[1] = y /\ \A k \in 1 .. m : r[k + 1] = q[k]
    <3>1. r \in Seq(Node) /\ Len(r) = Len(<<y>>) + Len(q)
          /\ \A k \in 1 .. Len(<<y>>) + Len(q) : r[k] = IF k <= Len(<<y>>) THEN <<y>>[k] ELSE q[k - Len(<<y>>)]
      BY <2>1, <2>3, ConcatProperties
    <3>2. r[1] = y
      BY <3>1, <2>2, <2>3
    <3>3. ASSUME NEW k \in 1 .. m PROVE r[k + 1] = q[k]
      <4>1. PICK l \in 2 .. m + 1 : l = k + 1
        OBVIOUS
      <4>2. r[l] = q[l - 1] /\ l - 1 = k
        BY <4>1, <3>1, <2>2, <2>3
      <4> QED
        BY <4>1, <4>2
    <3> QED
      BY <3>1, <3>2, <3>3, <2>2, <2>3
  <2>5. r # <<>> /\ Head(r) = y
    BY <2>4, EmptySeq
  <2>6. Tail(r) = q
    <3>1. Tail(r) \in Seq(Node) /\ Len(Tail(r)) = m /\ \A k \in 1 .. m : Tail(r)[k] = r[k + 1]
      BY <2>4, <2>5, HeadTailProperties
    <3> HIDE DEF r
    <3>2. ASSUME NEW k \in 1 .. m PROVE Tail(r)[k] = q[k]
      BY <3>1, <2>4
    <3> DEFINE t == Tail(r)
    <3>3. t \in Seq(Node) /\ Len(t) = Len(q) /\ \A k \in 1 .. Len(t) : t[k] = q[k]
      BY <3>1, <3>2, <2>2
    <3> HIDE DEF t
    <3>4. t = q
      BY <3>3, <2>1, SeqEqual
    <3> QED
      BY <3>4 DEF t
  <2>7. Nodes(r) = {y} \cup Nodes(q)
    <3> HIDE DEF r
    <3>1. ASSUME NEW z \in Nodes(r) PROVE z \in {y} \cup Nodes(q)
      <4>1. PICK k \in 1 .. m + 1 : r[k] = z
        BY <2>4, NodesOf
      <4>2. CASE k = 1
        BY <4>1, <4>2, <2>4
      <4>3. CASE k # 1
        <5>1. PICK l \in 1 .. m : k = l + 1
          <6>1. k - 1 \in 1 .. m /\ k = (k - 1) + 1
            BY <4>1, <4>3
          <6> QED
            BY <6>1
        <5>2. z = q[l] /\ l \in 1 .. Len(q)
          BY <4>1, <5>1, <2>2, <2>4
        <5> QED
          BY <5>2, <2>1, NodesOf
      <4> QED
        BY <4>2, <4>3
    <3>2. y \in Nodes(r)
      <4>1. 1 \in 1 .. Len(r)
        BY <2>4
      <4> QED
        BY <4>1, <2>4, NodesOf
    <3>3. ASSUME NEW z \in Nodes(q) PROVE z \in Nodes(r)
      <4>1. PICK k \in 1 .. m : q[k] = z
        BY <2>1, <2>2, NodesOf
      <4>2. PICK l \in 1 .. m + 1 : l = k + 1
        OBVIOUS
      <4>3. r[l] = z /\ l \in 1 .. Len(r)
        BY <4>1, <4>2, <2>4
      <4> QED
        BY <4>3, <2>4, NodesOf
    <3> QED
      BY <3>1, <3>2, <3>3
  <2> QED
    BY <2>1, <2>4, <2>5, <2>6, <2>7, <1>2 DEF q
<1> QED
  BY <1>1, <1>2

(* The rest behind a node whose path is known.                             *)
LEMMA RestNext ==
  ASSUME NEW F, NEW x, NEW r, Leads(F, 0, x, r), NEW y, y = F[x][0]
  PROVE  RestOk(F, y) /\ RestAt(F, y) = r
<1>1. r \in Seq(Node) /\ \A j \in 0 .. Len(r) : F[At(x, r, j)][0] = At(x, r, j + 1)
  BY DEF Leads
<1>2. PICK m \in Nat : m = Len(r)
  BY <1>1, NodesOf
<1>3. y = At(x, r, 1)
  <2>1. 0 \in 0 .. Len(r) /\ 0 + 1 = 1
    BY <1>2
  <2>2. F[At(x, r, 0)][0] = At(x, r, 1)
    BY <2>1, <1>1
  <2> QED
    BY <2>2 DEF At
<1>4. CASE m = 0
  <2>1. y = NULL /\ r = <<>>
    <3>1. 1 \notin 1 .. Len(r)
      BY <1>2, <1>4
    <3>2. y = NULL
      BY <3>1, <1>3 DEF At
    <3>3. r = <<>>
      BY <1>1, <1>2, <1>4, EmptySeq
    <3> QED
      BY <3>2, <3>3
  <2> QED
    BY <2>1 DEF RestOk, RestAt
<1>5. CASE m # 0
  <2>1. 1 \in 1 .. Len(r) /\ 1 \in 0 .. Len(r)
    BY <1>2, <1>5
  <2>2. y = r[1] /\ y \in Node /\ y # NULL
    BY <2>1, <1>1, <1>3, NodesOf, SkipListAssumption DEF At
  <2>3. Leads(F, 0, y, After(r, 1))
    <3>1. Leads(F, 0, At(x, r, 1), After(r, 1))
      BY <2>1, LeadsFrom
    <3> QED
      BY <3>1, <1>3
  <2>4. Along(F, y, 0) = After(r, 1)
    BY <2>3, AlongIs
  <2>5. r # <<>>
    BY <2>1, <1>2, EmptySeq
  <2>6. After(r, 1) = Tail(r) /\ r = <<Head(r)>> \o Tail(r) /\ Head(r) = r[1]
    BY <1>1, <2>5, TailIs
  <2> QED
    BY <2>2, <2>3, <2>4, <2>6 DEF RestOk, RestAt
<1> QED
  BY <1>4, <1>5

LEMMA RestSame ==
  ASSUME NEW F, NEW G, NEW y, RestOk(F, y), \A z \in Nodes(RestAt(F, y)) : G[z][0] = F[z][0]
  PROVE  RestOk(G, y) /\ RestAt(G, y) = RestAt(F, y)
<1>1. CASE y = NULL
  BY <1>1 DEF RestOk, RestAt
<1>2. CASE y # NULL
  <2>1. y \in Node /\ Leads(F, 0, y, Along(F, y, 0))
    BY <1>2 DEF RestOk
  <2>2. \A z \in {y} \cup Nodes(Along(F, y, 0)) : G[z][0] = F[z][0]
    BY <1>2, RestNodes
  <2>3. Leads(G, 0, y, Along(F, y, 0))
    <3>1. y \notin Nodes(Along(F, y, 0)) /\ G[y][0] = F[y][0] /\ \A z \in Nodes(Along(F, y, 0)) : G[z][0] = F[z][0]
      BY <2>1, <2>2 DEF Leads
    <3> QED
      BY <3>1, <2>1, LeadsSame
  <2>4. Along(G, y, 0) = Along(F, y, 0)
    BY <2>3, AlongIs
  <2> QED
    BY <2>1, <2>3, <2>4 DEF RestOk, RestAt
<1> QED
  BY <1>1, <1>2

-----------------------------------------------------------------------------
(* The invariant                                                           *)

IInv ==
  /\ TypeOK
  /\ Tower(forward, score)
  /\ shifted \/ Whole(forward)
  /\ RestOk(forward, n)
  /\ Nodes(RestAt(forward, n)) \cap On(forward) = {}
  /\ node = NULL => n = NULL

LEMMA OnPlace ==
  ASSUME NEW F, NEW sc, Tower(F, sc)
  PROVE  On(F) = {Header} \cup Nodes(Along(F, Header, 0)) /\ On(F) \subseteq Place
         /\ Along(F, Header, 0) \in Seq(Node) /\ Leads(F, 0, Header, Along(F, Header, 0))
<1>1. /\ Leads(F, 0, Header, Along(F, Header, 0)) /\ Along(F, Header, 0) \in Seq(Node)
      /\ Nodes(Along(F, Header, 0)) \subseteq Node
  BY HeaderOn, LevelsAre, PathIs
<1> QED
  BY <1>1 DEF On, Place

LEMMA FirstIs ==
  ASSUME NEW F, NEW i, NEW x, NEW q, Leads(F, i, x, q)
  PROVE  /\ F[x][i] = NULL => q = <<>>
         /\ q = <<>> => F[x][i] = NULL
         /\ q # <<>> => 1 \in 1 .. Len(q) /\ F[x][i] = q[1] /\ q[1] \in Node /\ q[1] # NULL
<1>1. q \in Seq(Node) /\ \A j \in 0 .. Len(q) : F[At(x, q, j)][i] = At(x, q, j + 1)
  BY DEF Leads
<1>2. PICK m \in Nat : m = Len(q)
  BY <1>1, NodesOf
<1>3. F[x][i] = At(x, q, 1)
  <2>1. 0 \in 0 .. Len(q) /\ 0 + 1 = 1
    BY <1>2
  <2>2. F[At(x, q, 0)][i] = At(x, q, 1)
    BY <2>1, <1>1
  <2> QED
    BY <2>2 DEF At
<1>4. m = 0 <=> q = <<>>
  BY <1>1, <1>2, EmptySeq
<1>5. CASE m = 0
  <2>1. 1 \notin 1 .. Len(q)
    BY <1>2, <1>5
  <2> QED
    BY <2>1, <1>3, <1>4, <1>5 DEF At
<1>6. CASE m # 0
  <2>1. 1 \in 1 .. Len(q)
    BY <1>2, <1>6
  <2>2. F[x][i] = q[1] /\ q[1] \in Node
    BY <2>1, <1>1, <1>3, NodesOf DEF At
  <2> QED
    BY <2>1, <2>2, <1>4, <1>6, SkipListAssumption
<1> QED
  BY <1>5, <1>6

LEMMA ScoresAre == Score \subseteq Nat /\ 0 \in Score
  BY SkipListAssumption

Due(k) == Lower(k) \cup Equal(k)

LEMMA DueIs ==
  ASSUME Tower(forward, score), NEW k \in Nat
  PROVE  /\ Downset(score, Due(k)) /\ UpTo(score, k, Due(k)) /\ Due(k) \subseteq Node
         /\ \E e : Ends(forward, Due(k), LastLte(k), e)
<1>1. score \in [Node -> Nat]
  BY DEF Tower
<1>2. Downset(score, Due(k))
  BY <1>1, LowScores DEF Downset, Due
<1>3. UpTo(score, k, Due(k)) /\ Due(k) \subseteq Node
  BY <1>1, LowScores DEF UpTo, Due
<1> DEFINE OK(i, j) == /\ Stops(Along(forward, Header, i), Due(k), j)
                       /\ LastLte(k)[i] = At(Header, Along(forward, Header, i), j)
           e == [i \in Levels |-> CHOOSE j \in 0 .. Len(Along(forward, Header, i)) : OK(i, j)]
<1>4. \A i \in Levels : \E j \in 0 .. Len(Along(forward, Header, i)) : OK(i, j)
  BY LastLteIs DEF Path, Due
<1>5. \A i \in Levels : e[i] \in 0 .. Len(Along(forward, Header, i)) /\ OK(i, e[i])
  <2> HIDE DEF OK
  <2> QED
    BY <1>4
<1>6. Ends(forward, Due(k), LastLte(k), e)
  <2> HIDE DEF e
  <2> QED
    BY <1>5 DEF Ends
<1> QED
  BY <1>2, <1>3, <1>6

LEMMA UptoIs ==
  ASSUME Tower(forward, score), NEW k \in Nat, NEW e \in 0 .. Len(Along(forward, Header, 0)),
         Stops(Along(forward, Header, 0), Due(k), e)
  PROVE  Ordered!Upto(k) = e
<1> DEFINE q == Along(forward, Header, 0)
<1>1. q \in Seq(Node) /\ Len(q) \in Nat /\ score \in [Node -> Nat] /\ e \in 0 .. Len(q) /\ Stops(q, Due(k), e)
  BY OnPlace, NodesOf DEF Tower
<1>2. UpTo(score, k, Due(k))
  BY DueIs
<1>3. Ordered!Upto(k) = CHOOSE p \in 0 .. Len(q) :
        /\ \A i \in 1 .. p : score[q[i]] <= k
        /\ p < Len(q) => score[q[p + 1]] > k
  BY DEF Ordered!Upto, Path
<1> HIDE DEF q
<1>4. ASSUME NEW p \in 0 .. Len(q)
      PROVE  Stops(q, Due(k), p) <=> /\ \A i \in 1 .. p : score[q[i]] <= k
                                     /\ p < Len(q) => score[q[p + 1]] > k
  <2>1. ASSUME NEW i \in 1 .. Len(q)
        PROVE  (q[i] \in Due(k) <=> score[q[i]] <= k) /\ (q[i] \notin Due(k) <=> score[q[i]] > k)
    <3>1. q[i] \in Node /\ score[q[i]] \in Nat
      BY <1>1, NodesOf
    <3> QED
      BY <3>1, <1>2 DEF UpTo
  <2>2. (\A i \in 1 .. p : q[i] \in Due(k)) <=> \A i \in 1 .. p : score[q[i]] <= k
    <3>1. \A i \in 1 .. p : i \in 1 .. Len(q)
      BY <1>1
    <3> QED
      BY <3>1, <2>1
  <2>3. (p < Len(q) => q[p + 1] \notin Due(k)) <=> (p < Len(q) => score[q[p + 1]] > k)
    <3>1. CASE p < Len(q)
      <4>1. p + 1 \in 1 .. Len(q)
        BY <3>1, <1>1
      <4> QED
        BY <4>1, <2>1
    <3> QED
      BY <3>1
  <2> QED
    BY <2>2, <2>3 DEF Stops
<1>5. \A p \in 0 .. Len(q) : Stops(q, Due(k), p) => p = e
  BY <1>1, StopOnce
<1> QED
  BY <1>1, <1>3, <1>4, <1>5

LEMMA InitInv == Init => IInv /\ Ordered!Init
<1> SUFFICES ASSUME Init PROVE IInv /\ Ordered!Init
  OBVIOUS
<1>1. forward \in Pointers /\ (\A i \in Levels : forward[Header][i] = NULL) /\ TypeOK
      /\ score \in [Node -> Nat]
  BY ScoresAre DEF Init, Pointers, TypeOK, Place
<1>2. Along(forward, Header, 0) = <<>> /\ On(forward) = {Header} /\ Tower(forward, score) /\ Whole(forward)
  BY <1>1, ClearedTower
<1>3. RestAt(forward, n) = <<>> /\ RestOk(forward, n) /\ Rest = <<>> /\ Nodes(<<>>) = {}
  BY EmptySeq DEF Init, RestAt, RestOk, Rest, Nodes
<1>4. IInv
  BY <1>1, <1>2, <1>3 DEF IInv, Init
<1>5. Ordered!Init
  BY <1>2, <1>3 DEF Init, Ordered!Init, Path
<1> QED
  BY <1>4, <1>5

LEMMA InsertStep ==
  ASSUME IInv, NEW x \in Node, NEW k \in Score, NEW l \in 1 .. Level, Insert(x, k, l)
  PROVE  IInv' /\ Ordered!Insert(x, k)
<1> DEFINE F == forward  G == forward'  q == Along(F, Header, 0)  S == Due(k)  p == LastLte(k)
<1>1. /\ TypeOK /\ Tower(F, score) /\ (shifted \/ Whole(F)) /\ RestOk(F, n)
      /\ Nodes(RestAt(F, n)) \cap On(F) = {} /\ (node = NULL => n = NULL)
  BY DEF IInv
<1>2. k \in Nat /\ l \in Nat /\ l > 0 /\ 0 \in Levels
  BY ScoresAre, LevelsAre, SkipListAssumption
<1>3. On(F) = {Header} \cup Nodes(q) /\ On(F) \subseteq Place /\ q \in Seq(Node)
  BY <1>1, OnPlace
<1>4. x \notin On(F) /\ x \notin Nodes(RestAt(F, n)) /\ x # Header
  BY <1>3, RestIs, SkipListAssumption DEF Insert, Listed, Path
<1>5. UpTo(score, k, S) /\ Downset(score, S)
  BY <1>1, <1>2, DueIs
<1>6. PICK e : Ends(F, S, p, e)
  BY <1>1, <1>2, DueIs
<1>7. \A i \in Levels : p[i] \in On(F)
  <2>1. ASSUME NEW i \in Levels PROVE p[i] \in On(F)
    <3>1. e[i] \in 0 .. Len(Along(F, Header, i)) /\ p[i] = At(Header, Along(F, Header, i), e[i])
      BY <1>6 DEF Ends
    <3>2. \A a \in 0 .. Len(Along(F, Header, i)) : At(Header, Along(F, Header, i), a) \in On(F)
      BY <1>1, HeaderOn, PathFrom
    <3> QED
      BY <3>1, <3>2
  <2> QED
    BY <2>1
<1>8. G = [y \in Place |-> [i \in Levels |->
            CASE y = x /\ i < l    -> F[p[i]][i]
              [] y = x /\ i >= l   -> NULL
              [] y = p[i] /\ i < l -> x
              [] OTHER             -> F[y][i]]]
      /\ score' = [score EXCEPT ![x] = k] /\ node' = node /\ n' = n /\ shifted' = shifted
  BY DEF Insert
<1>9. F \in [Place -> [Levels -> Node \cup {NULL}]] /\ x \in Place /\ \A i \in Levels : i \in Nat
  BY <1>1, LevelsAre DEF TypeOK, Place
<1> HIDE DEF F, G, p, S
<1>10. Linked(F, G, x, l, p)
  <2> SUFFICES ASSUME NEW i \in Levels
               PROVE  /\ G[x][i] = IF i < l THEN F[p[i]][i] ELSE NULL
                      /\ \A y \in Place \ {x} : G[y][i] = IF i < l /\ y = p[i] THEN x ELSE F[y][i]
    BY DEF Linked
  <2>1. i < l \/ i >= l
    BY <1>2, <1>9
  <2>2. G[x][i] = IF i < l THEN F[p[i]][i] ELSE NULL
    <3>1. G[x][i] = CASE x = x /\ i < l    -> F[p[i]][i]
                      [] x = x /\ i >= l   -> NULL
                      [] x = p[i] /\ i < l -> x
                      [] OTHER             -> F[x][i]
      BY <1>8, <1>9
    <3>2. CASE i < l
      <4>1. ~(i >= l) /\ x # p[i]
        BY <3>2, <1>2, <1>4, <1>7, <1>9
      <4> QED
        BY <3>1, <3>2, <4>1
    <3>3. CASE i >= l
      <4>1. ~(i < l) /\ x # p[i]
        BY <3>3, <1>2, <1>4, <1>7, <1>9
      <4> QED
        BY <3>1, <3>3, <4>1
    <3> QED
      BY <2>1, <3>2, <3>3
  <2>3. \A y \in Place \ {x} : G[y][i] = IF i < l /\ y = p[i] THEN x ELSE F[y][i]
    BY <2>1, <1>8, <1>9
  <2> QED
    BY <2>2, <2>3
<1>11. G \in Pointers
  <2>1. \A y \in Place, i \in Levels : G[y][i] \in Node \cup {NULL}
    <3>1. \A y \in Place, i \in Levels : F[y][i] \in Node \cup {NULL}
      BY <1>9
    <3> QED
      BY <3>1, <1>3, <1>7, <1>9, <1>10 DEF Linked
  <2>2. G = [y \in Place |-> [i \in Levels |-> G[y][i]]]
    BY <1>8
  <2> QED
    BY <2>1, <2>2 DEF Pointers
<1>12. /\ Along(G, Header, 0) = InsertAt(q, e[0] + 1, x)
       /\ On(G) = On(F) \cup {x}
       /\ Tower(G, [score EXCEPT ![x] = k])
       /\ Whole(F) => Whole(G)
  BY <1>1, <1>2, <1>4, <1>5, <1>6, <1>10, <1>11, LinkedTower
<1>13. RestOk(G, n) /\ RestAt(G, n) = RestAt(F, n)
  <2>1. \A z \in Nodes(RestAt(F, n)) : z \in Place \ {x} /\ z # p[0]
    <3>1. Nodes(RestAt(F, n)) \subseteq Node
      BY <1>1, RestNodes, NodesOf
    <3> QED
      BY <3>1, <1>1, <1>2, <1>4, <1>7 DEF Place
  <2>2. \A z \in Nodes(RestAt(F, n)) : G[z][0] = F[z][0]
    BY <2>1, <1>2, <1>10 DEF Linked
  <2> QED
    BY <2>2, <1>1, RestSame
<1>14. score' \in [Node -> Score]
  BY <1>1, <1>8 DEF TypeOK
<1>15. IInv'
  <2>1. TypeOK'
    BY <1>1, <1>8, <1>11, <1>14 DEF TypeOK, Pointers, G
  <2>2. Tower(G, score') /\ (shifted' \/ Whole(G)) /\ RestOk(G, n') /\ (node' = NULL => n' = NULL)
    BY <1>1, <1>8, <1>12, <1>13
  <2>3. Nodes(RestAt(G, n')) \cap On(G) = {}
    BY <1>1, <1>4, <1>8, <1>12, <1>13
  <2> QED
    BY <2>1, <2>2, <2>3 DEF IInv, G
<1>16. Ordered!Insert(x, k)
  <2>1. Ordered!Upto(k) = e[0]
    BY <1>1, <1>2, <1>6, UptoIs DEF Ends, F, S
  <2>2. Path(Header, 0) = q /\ Path(Header, 0)' = Along(G, Header, 0)
    BY DEF Path, F, G
  <2>3. Rest = RestAt(F, n) /\ Rest' = RestAt(G, n')
    BY DEF Rest, RestAt, Path, F, G
  <2>4. x \notin Ordered!Listed /\ x \notin Ordered!Extracted
    BY <2>2, <2>3, <1>3, <1>4 DEF Ordered!Listed, Ordered!Extracted, Nodes
  <2>5. Ordered!InsertAt(q, e[0] + 1, x) = InsertAt(q, e[0] + 1, x)
    BY DEF Ordered!InsertAt, InsertAt
  <2> QED
    BY <2>1, <2>2, <2>3, <2>4, <2>5, <1>8, <1>12, <1>13 DEF Ordered!Insert
<1> QED
  BY <1>15, <1>16

LEMMA DeleteStep ==
  ASSUME IInv, NEW x \in Node, Delete(x)
  PROVE  IInv' /\ Ordered!Delete(x)
<1> DEFINE F == forward  G == forward'  q == Along(F, Header, 0)  p == Before(x)
<1>1. /\ TypeOK /\ Tower(F, score) /\ Whole(F) /\ RestOk(F, n) /\ ~shifted
      /\ Nodes(RestAt(F, n)) \cap On(F) = {} /\ (node = NULL => n = NULL)
  BY DEF IInv, Delete
<1>2. /\ On(F) = {Header} \cup Nodes(q) /\ On(F) \subseteq Place /\ q \in Seq(Node) /\ Once(q)
      /\ 0 \in Levels
  BY <1>1, OnPlace, LevelsAre DEF Leads
<1>3. x \in Nodes(q) /\ x \in On(F) /\ x # NULL
  BY <1>2, SkipListAssumption DEF Delete, Listed, Path
<1>4. G = [y \in Place |-> [i \in Levels |->
             IF y = p[i].at /\ F[y][i] = x THEN F[x][i] ELSE F[y][i]]]
      /\ score' = score /\ node' = node /\ n' = n /\ shifted' = shifted
  BY DEF Delete
<1>5. ASSUME NEW i \in Levels
      PROVE  /\ p[i].at \in {Header} \cup Nodes(Along(F, Header, i))
             /\ x \in Nodes(Along(F, Header, i)) => F[p[i].at][i] = x
  BY <1>1, BeforeIs DEF Path
<1>6. F \in [Place -> [Levels -> Node \cup {NULL}]] /\ x \in Place
  BY <1>1 DEF TypeOK, Place
<1>7. \A i \in Levels : p[i].at \in On(F)
  <2>1. ASSUME NEW i \in Levels PROVE Nodes(Along(F, Header, i)) \subseteq On(F) /\ Header \in On(F)
    BY <1>1, HeaderOn, PathOn
  <2> QED
    BY <2>1, <1>5
<1> HIDE DEF F, G, p
<1>8. Unlinked(F, G, x)
  <2> SUFFICES ASSUME NEW y \in On(F), NEW i \in Levels
               PROVE  G[y][i] = IF F[y][i] = x THEN F[x][i] ELSE F[y][i]
    BY DEF Unlinked
  <2>1. G[y][i] = IF y = p[i].at /\ F[y][i] = x THEN F[x][i] ELSE F[y][i]
    BY <1>2, <1>4
  <2>2. ASSUME F[y][i] = x PROVE y = p[i].at
    <3>1. x \in Nodes(Along(F, Header, i))
          /\ \A z \in {Header} \cup Nodes(Along(F, Header, i)) : F[z][i] = x => z = y
      BY <2>2, <1>1, OnlyOne
    <3> QED
      BY <3>1, <1>5
  <2> QED
    BY <2>1, <2>2
<1>9. G \in Pointers
  <2>1. \A y \in Place, i \in Levels : F[y][i] \in Node \cup {NULL}
    BY <1>6
  <2>2. \A y \in Place, i \in Levels : G[y][i] \in Node \cup {NULL}
    BY <2>1, <1>4, <1>6
  <2>3. G = [y \in Place |-> [i \in Levels |-> G[y][i]]]
    BY <1>4
  <2> QED
    BY <2>2, <2>3 DEF Pointers
<1>10. PICK j \in 1 .. Len(q) : q[j] = x
  BY <1>2, <1>3, NodesOf
<1>11. /\ Along(G, Header, 0) = RemoveAt(q, j) /\ On(G) = On(F) \ {x}
       /\ Tower(G, score) /\ Whole(G)
  BY <1>1, <1>8, <1>9, <1>10, UnlinkedTower
<1>12. RestOk(G, n) /\ RestAt(G, n) = RestAt(F, n)
  <2>1. \A z \in Nodes(RestAt(F, n)) : z \in Place /\ z # p[0].at
    <3>1. Nodes(RestAt(F, n)) \subseteq Node
      BY <1>1, RestNodes, NodesOf
    <3> QED
      BY <3>1, <1>1, <1>2, <1>7 DEF Place
  <2>2. \A z \in Nodes(RestAt(F, n)) : G[z][0] = F[z][0]
    BY <2>1, <1>2, <1>4
  <2> QED
    BY <2>2, <1>1, RestSame
<1>13. IInv'
  <2>1. TypeOK'
    BY <1>1, <1>4, <1>9 DEF TypeOK, Pointers, G
  <2>2. Tower(G, score') /\ (shifted' \/ Whole(G)) /\ RestOk(G, n') /\ (node' = NULL => n' = NULL)
    BY <1>1, <1>4, <1>11, <1>12
  <2>3. Nodes(RestAt(G, n')) \cap On(G) = {}
    BY <1>1, <1>4, <1>11, <1>12
  <2> QED
    BY <2>1, <2>2, <2>3 DEF IInv, G
<1>14. Ordered!Delete(x)
  <2>1. Path(Header, 0) = q /\ Path(Header, 0)' = Along(G, Header, 0)
    BY DEF Path, F, G
  <2>2. Rest = RestAt(F, n) /\ Rest' = RestAt(G, n')
    BY DEF Rest, RestAt, Path, F, G
  <2>3. x \in Ordered!Listed
    BY <2>1, <1>3 DEF Ordered!Listed, Nodes
  <2>4. (CHOOSE i \in DOMAIN q : q[i] = x) = j
    <3> HIDE DEF q
    <3>1. DOMAIN q = 1 .. Len(q) /\ \A i \in 1 .. Len(q) : q[i] = x => i = j
      BY <1>2, <1>10, NodesOf DEF Once
    <3> QED
      BY <3>1, <1>10
  <2>5. Ordered!RemoveAt(q, j) = RemoveAt(q, j)
    BY DEF Ordered!RemoveAt, RemoveAt
  <2> QED
    BY <2>1, <2>2, <2>3, <2>4, <2>5, <1>4, <1>11, <1>12 DEF Ordered!Delete
<1> QED
  BY <1>13, <1>14

LEMMA ExtractStep ==
  ASSUME IInv, NEW k \in Score, ExtractLte(k)
  PROVE  IInv' /\ Ordered!ExtractLte(k)
<1> DEFINE F == forward  G == forward'  q == Along(F, Header, 0)  S == Due(k)
           p == LastLte(k)  first == forward[Header][0]
<1>1. /\ TypeOK /\ Tower(F, score) /\ Whole(F) /\ ~shifted /\ node = NULL /\ n = NULL
  BY DEF IInv, ExtractLte
<1>2. k \in Nat /\ 0 \in Levels /\ Header \notin Node
  BY ScoresAre, LevelsAre, SkipListAssumption
<1>3. /\ On(F) = {Header} \cup Nodes(q) /\ q \in Seq(Node) /\ Leads(F, 0, Header, q) /\ On(F) \subseteq Place
  BY <1>1, OnPlace
<1>4. Downset(score, S) /\ S \subseteq Node
  BY <1>1, <1>2, DueIs
<1>5. PICK e : Ends(F, S, p, e)
  BY <1>1, <1>2, DueIs
<1>6. e[0] \in 0 .. Len(q) /\ Stops(q, S, e[0]) /\ p[0] = At(Header, q, e[0])
  BY <1>2, <1>5 DEF Ends
<1>7. Ordered!Upto(k) = e[0]
  BY <1>1, <1>2, <1>6, UptoIs
<1>8. Rest = <<>> /\ RestAt(F, n) = <<>>
  BY <1>1 DEF Rest, RestAt
<1>9. Path(Header, 0) = q /\ Path(Header, 0)' = Along(G, Header, 0) /\ Rest' = RestAt(G, n')
  BY DEF Path, Rest, RestAt
<1>10. CASE first = NULL \/ p[0] = Header
  <2>1. e[0] = 0
    <3>1. CASE first = NULL
      <4>1. q = <<>>
        BY <1>3, <3>1, FirstIs
      <4> QED
        BY <4>1, <1>6, EmptySeq
    <3>2. CASE p[0] = Header
      <4> HIDE DEF q
      <4>1. 0 \in 0 .. Len(q) /\ At(Header, q, 0) = Header
        BY <1>3, NodesOf DEF At
      <4> QED
        BY <4>1, <3>2, <1>3, <1>6, AtOnce
    <3> QED
      BY <3>1, <3>2, <1>10
  <2>2. UNCHANGED vars
    BY <1>10 DEF ExtractLte
  <2>3. IInv'
    BY <2>2 DEF IInv, TypeOK, vars
  <2>4. Path(Header, 0)' = q /\ Rest' = <<>>
    BY <2>2, <1>8, <1>9 DEF vars, RestAt
  <2>5. SubSeq(q, 0 + 1, Len(q)) = q /\ SubSeq(q, 2, 0) = <<>>
    <3> HIDE DEF q
    <3>1. 0 + 1 = 1 /\ SubSeq(q, 1, Len(q)) = q
      BY <1>3, SubSeqFull
    <3>2. SubSeq(q, 2, 0) = <<>>
      BY <1>3, SubSeqEmpty
    <3> QED
      BY <3>1, <3>2
  <2> QED
    BY <2>1, <2>2, <2>3, <2>4, <2>5, <1>1, <1>7, <1>9 DEF Ordered!ExtractLte, vars
<1>11. CASE first # NULL /\ p[0] # Header
  <2> DEFINE r == SubSeq(q, 2, e[0])
  <2>1. forward' = Cut(LastLte(k)) /\ node' = first /\ n' = forward'[first][0]
        /\ score' = score /\ shifted' = shifted
    BY <1>11 DEF ExtractLte
  <2>2. e[0] # 0 /\ q # <<>>
    <3>1. e[0] # 0
      BY <1>6, <1>11 DEF At
    <3> QED
      BY <3>1, <1>3, <1>11, FirstIs
  <2>3. first = q[1] /\ first \in Node /\ first # NULL /\ 1 \in 1 .. Len(q)
    BY <1>3, <2>2, FirstIs
  <2>4. ASSUME NEW i \in Levels PROVE p[i] \in Place
    <3>1. e[i] \in 0 .. Len(Along(F, Header, i)) /\ p[i] = At(Header, Along(F, Header, i), e[i])
      BY <1>5 DEF Ends
    <3>2. \A a \in 0 .. Len(Along(F, Header, i)) : At(Header, Along(F, Header, i), a) \in On(F)
      BY <1>1, HeaderOn, PathFrom
    <3> QED
      BY <3>1, <3>2, <1>3
  <2>5. F \in [Place -> [Levels -> Node \cup {NULL}]]
    BY <1>1 DEF TypeOK
  <2>6. Parted(F, G, p)
    <3>1. ASSUME NEW i \in Levels
          PROVE  /\ G[Header][i] = F[p[i]][i]
                 /\ \A y \in Node : G[y][i] = IF y = p[0] /\ i = 0 THEN NULL ELSE F[y][i]
      <4>1. ASSUME NEW y \in Place
            PROVE  G[y][i] = CASE y = Header         -> F[p[i]][i]
                               [] y = p[0] /\ i = 0  -> NULL
                               [] OTHER              -> F[y][i]
        BY <2>1 DEF Cut
      <4>2. Header # p[0] /\ Header \in Place
        BY <1>11 DEF Place
      <4> HIDE DEF F, G, p
      <4>3. G[Header][i] = F[p[i]][i]
        BY <4>1, <4>2
      <4>4. \A y \in Node : G[y][i] = IF y = p[0] /\ i = 0 THEN NULL ELSE F[y][i]
        BY <4>1, <1>2 DEF Place
      <4> QED
        BY <4>3, <4>4
    <3> QED
      BY <3>1 DEF Parted
  <2>7. G \in Pointers
    <3>1. \A y \in Place, i \in Levels : F[y][i] \in Node \cup {NULL}
      BY <2>5
    <3>2. \A y \in Place, i \in Levels : G[y][i] \in Node \cup {NULL}
      <4> HIDE DEF F, G, p
      <4> QED
        BY <3>1, <2>4, <2>6 DEF Parted, Place
    <3>3. G = [y \in Place |-> [i \in Levels |-> G[y][i]]]
      BY <2>1 DEF Cut
    <3> QED
      BY <3>2, <3>3 DEF Pointers
  <2>8. /\ Along(G, Header, 0) = After(q, e[0])
        /\ On(G) = On(F) \ (S \cap Node)
        /\ Tower(G, score)
        /\ Whole(G)
        /\ Leads(G, 0, q[1], r)
    BY <1>1, <1>4, <1>5, <2>2, <2>6, <2>7, PartedTower
  <2>9. RestOk(G, n') /\ RestAt(G, n') = r
    <3>1. n' = G[q[1]][0]
      BY <2>1, <2>3
    <3> HIDE DEF G, q, r
    <3> QED
      BY <3>1, <2>8, RestNext
  <2>10. Nodes(r) \cap On(G) = {}
    <3> HIDE DEF q, S
    <3>1. PICK m \in Nat : m = Len(q)
      BY <1>3, NodesOf
    <3>2. /\ 2 \in 1 .. Len(q) + 1 /\ e[0] \in 0 .. Len(q) /\ 2 <= e[0] + 1
      BY <3>1, <1>6, <2>2, <2>3
    <3>3. r \in Seq(Node) /\ Len(r) = e[0] + 1 - 2 /\ \A a \in 1 .. e[0] + 1 - 2 : r[a] = q[2 + a - 1]
      BY <3>2, <1>3, PartIs
    <3>4. ASSUME NEW a \in 1 .. Len(r) PROVE r[a] \in S
      <4>1. PICK b \in 1 .. e[0] : b = a + 1
        BY <3>1, <3>2, <3>3, <3>4
      <4>2. r[a] = q[b]
        BY <4>1, <3>1, <3>2, <3>3, <3>4
      <4> QED
        BY <4>1, <4>2, <1>6 DEF Stops
    <3>5. Nodes(r) \subseteq S
      BY <3>3, <3>4, NodesOf
    <3> QED
      BY <3>5, <2>8, <1>4
  <2>11. IInv'
    <3>1. TypeOK'
      <4>1. n' \in Node \cup {NULL}
        BY <2>9 DEF RestOk
      <4> QED
        BY <4>1, <1>1, <2>1, <2>3, <2>7 DEF TypeOK, Pointers
    <3>2. Tower(G, score') /\ (shifted' \/ Whole(G)) /\ RestOk(G, n') /\ (node' = NULL => n' = NULL)
      BY <2>1, <2>3, <2>8, <2>9
    <3>3. Nodes(RestAt(G, n')) \cap On(G) = {}
      BY <2>9, <2>10
    <3> QED
      BY <3>1, <3>2, <3>3 DEF IInv
  <2>12. Ordered!ExtractLte(k)
    <3> HIDE DEF G, q, first
    <3> QED
      BY <1>1, <1>7, <1>9, <2>1, <2>2, <2>3, <2>8, <2>9 DEF Ordered!ExtractLte, After
  <2> QED
    BY <2>11, <2>12
<1> QED
  BY <1>10, <1>11

LEMMA NextStep ==
  ASSUME IInv, NextExtracted
  PROVE  IInv' /\ Ordered!NextExtracted
<1>1. /\ TypeOK /\ Tower(forward, score) /\ (shifted \/ Whole(forward)) /\ RestOk(forward, n)
      /\ Nodes(RestAt(forward, n)) \cap On(forward) = {} /\ (node = NULL => n = NULL)
  BY DEF IInv
<1>2. /\ node # NULL /\ node' = n /\ n' = IF n = NULL THEN NULL ELSE forward[n][0]
      /\ forward' = forward /\ score' = score /\ shifted' = shifted
  BY DEF NextExtracted
<1>3. /\ Rest = RestAt(forward, n) /\ Rest' = RestAt(forward, n')
      /\ Path(Header, 0)' = Path(Header, 0)
  BY <1>2 DEF Rest, RestAt, Path
<1>4. CASE n = NULL
  <2>1. n' = NULL /\ Rest = <<>> /\ Rest' = <<>> /\ RestAt(forward, n') = RestAt(forward, n)
    BY <1>2, <1>3, <1>4 DEF RestAt
  <2>2. IInv'
    BY <1>1, <1>2, <1>4, <2>1 DEF IInv, TypeOK, RestOk
  <2> QED
    BY <2>1, <2>2, <1>2, <1>3, <1>4 DEF Ordered!NextExtracted
<1>5. CASE n # NULL
  <2>1. n \in Node /\ Leads(forward, 0, n, Along(forward, n, 0)) /\ n' = forward[n][0]
    BY <1>1, <1>2, <1>5 DEF RestOk
  <2>2. RestOk(forward, n') /\ RestAt(forward, n') = Along(forward, n, 0)
    BY <2>1, RestNext
  <2>3. /\ Rest # <<>> /\ Head(Rest) = n /\ Tail(Rest) = Along(forward, n, 0)
        /\ Nodes(RestAt(forward, n)) = {n} \cup Nodes(Along(forward, n, 0))
    BY <1>1, <1>3, <1>5, RestNodes
  <2>4. IInv'
    <3>1. TypeOK'
      <4>1. n' \in Node \cup {NULL}
        BY <2>2 DEF RestOk
      <4> QED
        BY <4>1, <1>1, <1>2, <2>1 DEF TypeOK
    <3>2. Nodes(RestAt(forward, n')) \cap On(forward) = {}
      BY <1>1, <2>2, <2>3
    <3>3. node' # NULL
      BY <1>2, <1>5
    <3> QED
      BY <3>1, <3>2, <3>3, <1>1, <1>2, <2>2 DEF IInv
  <2> QED
    BY <2>2, <2>3, <2>4, <1>2, <1>3 DEF Ordered!NextExtracted
<1> QED
  BY <1>4, <1>5

LEMMA AbandonStep ==
  ASSUME IInv, Abandon
  PROVE  IInv' /\ Ordered!Abandon
<1>1. /\ node # NULL /\ node' = NULL /\ n' = NULL
      /\ forward' = forward /\ score' = score /\ shifted' = shifted
  BY DEF Abandon
<1>2. RestAt(forward, n') = <<>> /\ Rest' = <<>> /\ RestOk(forward, n') /\ Nodes(<<>>) = {}
      /\ Path(Header, 0)' = Path(Header, 0)
  BY <1>1, EmptySeq DEF RestAt, Rest, RestOk, Nodes, Path
<1>3. IInv'
  BY <1>1, <1>2 DEF IInv, TypeOK
<1> QED
  BY <1>1, <1>2, <1>3 DEF Ordered!Abandon

LEMMA ShiftStep ==
  ASSUME IInv, Shift
  PROVE  IInv' /\ Ordered!Shift
<1> DEFINE F == forward  G == forward'  x == forward[Header][0]
<1>1. /\ TypeOK /\ Tower(F, score) /\ node = NULL /\ n = NULL
  BY DEF IInv, Shift
<1>2. /\ x # NULL /\ forward' = [forward EXCEPT ![Header] = forward[x]]
      /\ shifted' = (forward'[Header][0] # NULL) /\ score' = score /\ node' = node /\ n' = n
  BY DEF Shift
<1>3. 0 \in Levels /\ Header \in Place /\ Header \notin Node /\ F \in [Place -> [Levels -> Node \cup {NULL}]]
  BY <1>1, LevelsAre, SkipListAssumption DEF TypeOK, Place
<1>4. x \in Place
  BY <1>2, <1>3 DEF Place
<1>5. G \in Pointers /\ (\A i \in Levels : G[Header][i] = F[x][i])
      /\ \A y \in Node, i \in Levels : G[y][i] = F[y][i]
  BY <1>2, <1>3, <1>4 DEF Pointers, Place
<1>6. /\ Along(F, Header, 0) # <<>>
      /\ Along(G, Header, 0) = Tail(Along(F, Header, 0))
      /\ Tower(G, score)
  <2> HIDE DEF G
  <2> QED
    BY <1>1, <1>2, <1>5, ShiftedTower
<1>7. shifted' \/ Whole(G)
  <2> SUFFICES ASSUME ~shifted' PROVE Whole(G)
    OBVIOUS
  <2>1. G[Header][0] = NULL
    BY <1>2
  <2>2. Leads(G, 0, Header, Along(G, Header, 0)) /\ On(G) = {Header} \cup Nodes(Along(G, Header, 0))
    BY <1>6, OnPlace
  <2>3. Along(G, Header, 0) = <<>>
    BY <2>1, <2>2, FirstIs
  <2>4. On(G) \ {Header} = {}
    BY <2>2, <2>3, EmptySeq DEF Nodes
  <2> QED
    BY <2>4 DEF Whole
<1>8. /\ RestAt(G, n') = <<>> /\ Rest' = <<>> /\ Rest = <<>> /\ RestOk(G, n') /\ Nodes(<<>>) = {}
  BY <1>1, <1>2, EmptySeq DEF RestAt, Rest, RestOk, Nodes
<1>9. IInv'
  <2>1. TypeOK'
    BY <1>1, <1>2, <1>5 DEF TypeOK, Pointers
  <2> QED
    BY <2>1, <1>1, <1>2, <1>6, <1>7, <1>8 DEF IInv
<1>10. Path(Header, 0) = Along(F, Header, 0) /\ Path(Header, 0)' = Along(G, Header, 0)
  BY DEF Path
<1> QED
  BY <1>1, <1>2, <1>6, <1>8, <1>9, <1>10 DEF Ordered!Shift

LEMMA ClearStep ==
  ASSUME IInv, Clear
  PROVE  IInv' /\ Ordered!Clear
<1> DEFINE G == forward'
<1>1. TypeOK /\ node = NULL /\ n = NULL /\ score \in [Node -> Nat]
  BY DEF IInv, Clear, Tower
<1>2. /\ G = [forward EXCEPT ![Header] = [i \in Levels |-> NULL]] /\ shifted' = FALSE
      /\ score' = score /\ node' = node /\ n' = n
  BY DEF Clear
<1>3. G \in Pointers /\ \A i \in Levels : G[Header][i] = NULL
  BY <1>1, <1>2 DEF TypeOK, Pointers, Place
<1>4. Along(G, Header, 0) = <<>> /\ On(G) = {Header} /\ Tower(G, score) /\ Whole(G)
  BY <1>1, <1>3, ClearedTower
<1>5. /\ RestAt(G, n') = <<>> /\ Rest' = <<>> /\ Rest = <<>> /\ RestOk(G, n') /\ Nodes(<<>>) = {}
  BY <1>1, <1>2, EmptySeq DEF RestAt, Rest, RestOk, Nodes
<1>6. IInv'
  <2>1. TypeOK'
    BY <1>1, <1>2, <1>3 DEF TypeOK, Pointers
  <2> QED
    BY <2>1, <1>1, <1>2, <1>4, <1>5 DEF IInv
<1>7. Path(Header, 0)' = Along(G, Header, 0)
  BY DEF Path
<1> QED
  BY <1>1, <1>2, <1>4, <1>5, <1>6, <1>7 DEF Ordered!Clear

LEMMA Step ==
  ASSUME IInv, [Next]_vars
  PROVE  IInv' /\ [Ordered!Next]_Ordered!vars
<1>1. ASSUME NEW x \in Node, NEW k \in Score, NEW l \in 1 .. Level, Insert(x, k, l)
      PROVE  IInv' /\ Ordered!Next
  BY <1>1, InsertStep DEF Ordered!Next
<1>2. ASSUME NEW x \in Node, Delete(x) PROVE IInv' /\ Ordered!Next
  BY <1>2, DeleteStep DEF Ordered!Next
<1>3. ASSUME NEW k \in Score, ExtractLte(k) PROVE IInv' /\ Ordered!Next
  BY <1>3, ExtractStep DEF Ordered!Next
<1>4. CASE NextExtracted
  BY <1>4, NextStep DEF Ordered!Next
<1>5. CASE Abandon
  BY <1>5, AbandonStep DEF Ordered!Next
<1>6. CASE Shift
  BY <1>6, ShiftStep DEF Ordered!Next
<1>7. CASE Clear
  BY <1>7, ClearStep DEF Ordered!Next
<1>8. CASE UNCHANGED vars
  <2>1. IInv'
    BY <1>8 DEF IInv, TypeOK, vars
  <2>2. UNCHANGED Ordered!vars
    BY <1>8 DEF Ordered!vars, vars, Path, Rest
  <2> QED
    BY <2>1, <2>2
<1> QED
  BY <1>1, <1>2, <1>3, <1>4, <1>5, <1>6, <1>7, <1>8 DEF Next

(***************************************************************************)
(* From every node on the list the levels lead on along nodes of the       *)
(* levels below, in order; what was extracted leads to nothing listed.     *)
(***************************************************************************)
THEOREM Invariance == Spec => []IInv
<1>1. Init => IInv
  BY InitInv
<1>2. IInv /\ [Next]_vars => IInv'
  BY Step
<1> QED
  BY <1>1, <1>2, PTL DEF Spec

-----------------------------------------------------------------------------
(* Theorems                                                                *)

(***************************************************************************)
(* Every pointer leads to a node or nowhere, and every node has one of the *)
(* scores it was given.                                                    *)
(***************************************************************************)
THEOREM TypesHold == Spec => []TypeOK
<1>1. IInv => TypeOK
  BY DEF IInv
<1> QED
  BY <1>1, Invariance, PTL

(***************************************************************************)
(* Every level is a shortcut through the one below it, in the same order,  *)
(* after any sequence of insert, delete, extract_lte, shift and clear, and *)
(* for any heights of the nodes.                                           *)
(***************************************************************************)
THEOREM Nested == Spec => []LevelsNested
<1>1. IInv => LevelsNested
  <2> SUFFICES ASSUME Tower(forward, score), NEW i \in Levels \ {0}
               PROVE  LET above == Path(Header, i)  below == Path(Header, i - 1)
                      IN  \E at \in [DOMAIN above -> DOMAIN below] :
                            /\ \A j \in DOMAIN above : above[j] = below[at[j]]
                            /\ \A j, k \in DOMAIN above : j < k => at[j] < at[k]
    BY DEF IInv, LevelsNested
  <2>1. PICK d \in Levels : d = i - 1
    BY LevelsAre
  <2> DEFINE a == Along(forward, Header, i)  b == Along(forward, Header, d)
  <2>2. /\ a \in Seq(Node) /\ DOMAIN a = 1 .. Len(a) /\ Len(a) \in Nat
        /\ b \in Seq(Node) /\ DOMAIN b = 1 .. Len(b) /\ Len(b) \in Nat /\ Once(b)
        /\ Nodes(a) \subseteq On(forward)
    BY HeaderOn, PathIs, PathOn, NodesOf DEF Leads
  <2>3. \A t \in On(forward) : Nodes(Along(forward, t, i)) \subseteq Nodes(Along(forward, t, d))
    BY <2>1 DEF Tower, Ways
  <2>4. ASSUME NEW j \in DOMAIN a, NEW k \in DOMAIN a, j < k
        PROVE  a[k] \in Nodes(Along(forward, a[j], i))
    <3>1. a[j] \in Nodes(a)
      BY <2>2, NodesOf
    <3>2. At(Header, a, j) = a[j] /\ j \in 0 .. Len(a)
      BY <2>2, <2>4 DEF At
    <3>3. Along(forward, a[j], i) = After(a, j)
      <4>1. \A c \in 0 .. Len(Along(forward, Header, i)) :
              Along(forward, At(Header, Along(forward, Header, i), c), i) = After(Along(forward, Header, i), c)
        BY HeaderOn, PathFrom
      <4> QED
        BY <3>2, <4>1
    <3>4. k \in j + 1 .. Len(a)
      BY <2>2, <2>4
    <3> HIDE DEF a
    <3> QED
      BY <3>2, <3>3, <3>4, <2>2, AfterNodes
  <2>5. ASSUME NEW j \in DOMAIN a
        PROVE  \E c \in DOMAIN b : /\ a[j] = b[c]
                                   /\ Nodes(Along(forward, a[j], d)) = {b[l] : l \in c + 1 .. Len(b)}
    <3>1. a[j] \in Nodes(a)
      BY <2>2, NodesOf
    <3>2. a[j] \in Nodes(b)
      BY <3>1, <2>3, HeaderOn
    <3>3. \A y \in Nodes(Along(forward, Header, d)) :
            \E c \in 1 .. Len(Along(forward, Header, d)) :
              /\ y = Along(forward, Header, d)[c]
              /\ Nodes(Along(forward, y, d)) = {Along(forward, Header, d)[l] : l \in c + 1 .. Len(Along(forward, Header, d))}
      BY HeaderOn, PathOf
    <3> QED
      BY <3>2, <3>3, <2>2
  <2> DEFINE at == [j \in DOMAIN a |-> CHOOSE c \in DOMAIN b : a[j] = b[c]]
  <2>6. \A j \in DOMAIN a : at[j] \in DOMAIN b /\ a[j] = b[at[j]]
    <3> HIDE DEF a, b
    <3> QED
      BY <2>5
  <2>7. at \in [DOMAIN a -> DOMAIN b]
    <3>1. at = [j \in DOMAIN a |-> at[j]]
      OBVIOUS
    <3> HIDE DEF a, b, at
    <3> QED
      BY <3>1, <2>6
  <2>8. ASSUME NEW j \in DOMAIN a, NEW k \in DOMAIN a, j < k PROVE at[j] < at[k]
    <3>1. a[k] \in Nodes(Along(forward, a[j], d))
      <4>1. a[j] \in On(forward)
        BY <2>2, NodesOf
      <4> QED
        BY <4>1, <2>3, <2>4, <2>8
    <3>2. PICK c \in DOMAIN b : /\ a[j] = b[c]
                                /\ Nodes(Along(forward, a[j], d)) = {b[l] : l \in c + 1 .. Len(b)}
      BY <2>5
    <3> HIDE DEF a, b, at
    <3>3. PICK l \in c + 1 .. Len(b) : a[k] = b[l]
      BY <3>1, <3>2
    <3>4. l \in 1 .. Len(b) /\ c \in 1 .. Len(b) /\ c < l
      BY <3>2, <3>3, <2>2
    <3>5. at[j] = c /\ at[k] = l
      BY <3>2, <3>3, <3>4, <2>2, <2>6 DEF Once
    <3> QED
      BY <3>4, <3>5
  <2> HIDE DEF at
  <2>9. Path(Header, i) = a /\ Path(Header, i - 1) = b
    BY <2>1 DEF Path
  <2> HIDE DEF a, b
  <2> QED
    BY <2>6, <2>7, <2>8, <2>9
<1> QED
  BY <1>1, Invariance, PTL

(***************************************************************************)
(* No level leads to a node that was extracted, deleted or never inserted, *)
(* whatever the loop over the extracted ones inserts and deletes.          *)
(***************************************************************************)
THEOREM Apart == Spec => []ExtractedApart
<1>1. IInv => ExtractedApart
  <2> SUFFICES ASSUME IInv, NEW i \in Levels
               PROVE  Nodes(Path(Header, i)) \subseteq Listed \ Nodes(Rest)
    BY DEF ExtractedApart
  <2>1. Nodes(Path(Header, i)) \subseteq Nodes(Path(Header, 0))
    BY HeaderOn, PathIs DEF IInv, Path
  <2>2. Nodes(Path(Header, 0)) \subseteq On(forward)
    BY DEF On, Path
  <2>3. Nodes(Rest) \cap On(forward) = {}
    BY RestIs DEF IInv
  <2> QED
    BY <2>1, <2>2, <2>3 DEF Listed
<1> QED
  BY <1>1, Invariance, PTL

(***************************************************************************)
(* The levels implement one ordered list: the client of insert, delete,    *)
(* extract_lte and shift never sees the levels, for any heights.           *)
(***************************************************************************)
THEOREM Refinement == Spec => ImplementsOrderedList
<1>1. Init => Ordered!Init
  BY InitInv
<1>2. IInv /\ [Next]_vars => [Ordered!Next]_Ordered!vars
  BY Step
<1> QED
  BY <1>1, <1>2, Invariance, PTL DEF Spec, ImplementsOrderedList, Ordered!Spec
=============================================================================
