------------------------------ MODULE SkipList ------------------------------
(***************************************************************************)
(* The skiplist of libep (src/src/skiplist.h) as the timers use it: the    *)
(* forward pointers of every level, with insert, delete, extract_lte, the  *)
(* loop of skiplist_shift_lte, shift and for_each_clear.  The number of    *)
(* levels a node gets is random in the code and arbitrary here.            *)
(*                                                                         *)
(* A shift that takes a low node off cuts the header off from the upper    *)
(* levels of the others, which keep their own pointers there.  A list that *)
(* is being shifted can only be inserted into and shifted further, until   *)
(* it is empty: that is the contract its client has to keep.               *)
(*                                                                         *)
(* The body of skiplist_shift_lte may insert and delete nodes, and may     *)
(* insert the very node it is at: that overwrites the pointer the loop     *)
(* would have followed, which is why the loop keeps n.                     *)
(***************************************************************************)
EXTENDS Naturals, Sequences, FiniteSets, SequencesExt

CONSTANTS
  Node,    \* the nodes
  Header,  \* the header inside the skiplist
  NULL,    \* the null pointer
  Level,   \* how many levels there are
  Score    \* the scores that nodes are given

(* There is no end to what the list can hold but that of the memory.       *)
ASSUME SkipListAssumption ==
  /\ IsFiniteSet(Node)
  /\ Header \notin Node
  /\ NULL \notin Node \cup {Header}
  /\ Level \in Nat \ {0}
  /\ Score \subseteq Nat /\ 0 \in Score

VARIABLES
  forward,  \* forward[x][i]: the successor of x on level i
  score,    \* score[x] of every node
  node,     \* the node the body of skiplist_shift_lte is at
  n,        \* the successor that loop has saved
  shifted   \* nodes were shifted off a list that is not empty since

vars == <<forward, score, node, n, shifted>>

Place == Node \cup {Header}
Levels == 0 .. Level - 1

(* The nodes behind x on level i of the pointers f.                        *)
Along(f, x, i) ==
  LET path[k \in Nat] ==
        IF k = 0 THEN <<>>
        ELSE LET s == path[k - 1]
                 y == f[IF s = <<>> THEN x ELSE Last(s)][i]
             IN  IF y = NULL THEN s ELSE Append(s, y)
  IN  path[Cardinality(Node)]

Path(x, i) == Along(forward, x, i)

(* From x along level i, for as long as the node ahead is one of S.        *)
Walk(x, i, S) ==
  LET s == <<x>> \o Path(x, i)
  IN  s[CHOOSE j \in DOMAIN s : /\ \A k \in 2 .. j : s[k] \in S
                                /\ j < Len(s) => s[j + 1] \notin S]

Lower(k) == {y \in Node : score[y] < k}
Equal(k) == {y \in Node : score[y] = k}

Nodes(s) == {s[j] : j \in DOMAIN s}

Listed == Nodes(Path(Header, 0))

(* What the loop of skiplist_shift_lte has yet to reach.                   *)
Rest == IF n = NULL THEN <<>> ELSE <<n>> \o Path(n, 0)

LastLt(k) ==  \* fault: in front of equal scores
  LET last[i \in 0 .. Level] ==
        IF i = Level THEN Header
        ELSE Walk(last[i + 1], i, Lower(k))
  IN  last

LastMixed(k) ==  \* fault: in front of equal scores on the upper levels
  LET last[i \in 0 .. Level] ==
        IF i = Level THEN Header
        ELSE Walk(last[i + 1], i, Lower(k) \cup IF i = 0 THEN Equal(k) ELSE {})
  IN  last

(***************************************************************************)
(* The descent shared by insert and extract_lte: on each level from the    *)
(* top down, where the nodes with scores up to k end.  A level goes on     *)
(* where the one above it stopped.                                         *)
(***************************************************************************)
LastLte(k) ==
  LET last[i \in 0 .. Level] ==
        IF i = Level THEN Header
        ELSE Walk(last[i + 1], i, Lower(k) \cup Equal(k))
  IN  last

-----------------------------------------------------------------------------
Init ==
  /\ forward = [x \in Place |-> [i \in Levels |-> NULL]]
  /\ score = [x \in Node |-> 0]
  /\ node = NULL
  /\ n = NULL
  /\ shifted = FALSE

(* node_init and insert, with l levels for the node.                       *)
Insert(x, k, l) ==
  /\ x \notin Listed \cup Nodes(Rest)
  /\ LET x_ == LastLte(k)
     IN  forward' = [y \in Place |-> [i \in Levels |->
           CASE y = x /\ i < l     -> forward[x_[i]][i]
             [] y = x /\ i >= l    -> NULL
             [] y = x_[i] /\ i < l -> x
             [] OTHER              -> forward[y][i]]]
  /\ score' = [score EXCEPT ![x] = k]
  /\ UNCHANGED <<node, n, shifted>>

(***************************************************************************)
(* delete: on each level past the lower scores, then through the equal     *)
(* ones up to the node itself.  A level on which the node was found goes   *)
(* on below from its predecessor, one on which it was not from where the   *)
(* equal scores begin.                                                     *)
(***************************************************************************)
Before(x) ==
  LET p[i \in 0 .. Level] ==
        IF i = Level THEN [from |-> Header, at |-> Header]
        ELSE LET lower == Walk(p[i + 1].from, i, Lower(score[x]))
                 y == Walk(lower, i, Equal(score[x]) \ {x})
             IN  [from |-> IF forward[y][i] = x THEN y ELSE lower, at |-> y]
  IN  p

Delete(x) ==
  /\ x \in Listed
  /\ ~shifted
  /\ LET p == Before(x)
     IN  forward' = [y \in Place |-> [i \in Levels |->
           IF y = p[i].at /\ forward[y][i] = x THEN forward[x][i] ELSE forward[y][i]]]
  /\ UNCHANGED <<score, node, n, shifted>>

(* Faults: the piece still leads to the list; the header to its last node. *)
CutNothing(last) == [forward EXCEPT ![Header] = [i \in Levels |-> forward[last[i]][i]]]
CutLast(last) == [forward EXCEPT ![Header] = [i \in Levels |-> last[i]]]

(* The header leads past the nodes up to last on every level, and the      *)
(* lowest level of the piece that is cut off ends there.                   *)
Cut(last) ==
  [y \in Place |-> [i \in Levels |->
     CASE y = Header           -> forward[last[i]][i]
       [] y = last[0] /\ i = 0 -> NULL
       [] OTHER                -> forward[y][i]]]

(* extract_lte, and the initialisation of the loop around it.              *)
ExtractLte(k) ==
  /\ node = NULL
  /\ ~shifted
  /\ LET last == LastLte(k)
         first == forward[Header][0]
     IN  IF first = NULL \/ last[0] = Header
         THEN UNCHANGED vars
         ELSE /\ forward' = Cut(last)
              /\ node' = first
              /\ n' = forward'[first][0]
              /\ UNCHANGED <<score, shifted>>

(* skiplist_shift_lte: node = n, n = node ? node->forward[0] : NULL.       *)
NextExtracted ==
  /\ node # NULL
  /\ node' = n
  /\ n' = IF n = NULL THEN NULL ELSE forward[n][0]
  /\ UNCHANGED <<forward, score, shifted>>

Abandon ==
  /\ node # NULL
  /\ node' = NULL
  /\ n' = NULL
  /\ UNCHANGED <<forward, score, shifted>>

(* shift: the header takes over the pointers of its first node.            *)
Shift ==
  /\ node = NULL
  /\ forward[Header][0] # NULL
  /\ forward' = [forward EXCEPT ![Header] = forward[@[0]]]
  /\ shifted' = (forward'[Header][0] # NULL)
  /\ UNCHANGED <<score, node, n>>

(* for_each_clear: the nodes go, the header is zeroed.                     *)
Clear ==
  /\ node = NULL
  /\ forward' = [forward EXCEPT ![Header] = [i \in Levels |-> NULL]]
  /\ shifted' = FALSE
  /\ UNCHANGED <<score, node, n>>

Next ==
  \/ \E x \in Node, k \in Score, l \in 1 .. Level : Insert(x, k, l)
  \/ \E x \in Node : Delete(x)
  \/ \E k \in Score : ExtractLte(k)
  \/ NextExtracted \/ Abandon \/ Shift \/ Clear

Spec == Init /\ [][Next]_vars

-----------------------------------------------------------------------------
(* Properties                                                              *)

TypeOK ==
  /\ forward \in [Place -> [Levels -> Node \cup {NULL}]]
  /\ score \in [Node -> Score]
  /\ {node, n} \subseteq Node \cup {NULL}
  /\ shifted \in BOOLEAN

(***************************************************************************)
(* Every level is a shortcut through the one below it, in the same order:  *)
(* what insert, delete and extract_lte rely on when they carry a position  *)
(* down from one level to the next.                                        *)
(***************************************************************************)
LevelsNested ==
  \A i \in Levels \ {0} :
    LET above == Path(Header, i)  below == Path(Header, i - 1)
    IN  \E at \in [DOMAIN above -> DOMAIN below] :
          /\ \A j \in DOMAIN above : above[j] = below[at[j]]
          /\ \A j, k \in DOMAIN above : j < k => at[j] < at[k]

(***************************************************************************)
(* No level leads to a node that was extracted, deleted or never inserted: *)
(* its memory may be gone.  Only the node the loop is at can be back.      *)
(***************************************************************************)
ExtractedApart ==
  \A i \in Levels : Nodes(Path(Header, i)) \subseteq Listed \ Nodes(Rest)

(***************************************************************************)
(* The levels implement one ordered list, first in first out among equal   *)
(* scores, and extract_lte returns exactly the nodes up to its score, in   *)
(* order, whatever is inserted and deleted while the loop walks them.      *)
(***************************************************************************)
Ordered == INSTANCE OrderedList WITH items <- Path(Header, 0), rest <- Rest

ImplementsOrderedList == Ordered!Spec
=============================================================================
