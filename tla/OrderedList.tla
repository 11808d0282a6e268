---------------------------- MODULE OrderedList ----------------------------
(***************************************************************************)
(* What the skiplist of libep promises to its callers: a list of nodes in  *)
(* the order of their scores, those with equal scores in the order of      *)
(* their insertion; extract_lte cuts the nodes up to a score off in one    *)
(* piece, which the loop of skiplist_shift_lte then walks.                 *)
(*                                                                         *)
(* SkipList implements this module; Timer is built on it.                  *)
(***************************************************************************)
EXTENDS Naturals, Sequences, SequencesExt

CONSTANTS
  Node,    \* the nodes
  NULL,    \* no node, not one of them
  Score    \* the scores that nodes are given, numbers

VARIABLES
  items,   \* the nodes on the list, the lowest score first
  score,   \* the score of every node
  node,    \* the node the body of skiplist_shift_lte is at
  rest     \* the nodes extracted with it that the loop has yet to reach

vars == <<items, score, node, rest>>

Listed == {items[i] : i \in DOMAIN items}
Extracted == {rest[i] : i \in DOMAIN rest}

(* The number of nodes in front of the first one with a score above k.     *)
Upto(k) ==
  CHOOSE p \in 0 .. Len(items) :
    /\ \A i \in 1 .. p : score[items[i]] <= k
    /\ p < Len(items) => score[items[p + 1]] > k

Init ==
  /\ items = <<>>
  /\ score = [x \in Node |-> 0]
  /\ node = NULL
  /\ rest = <<>>

Insert(x, k) ==
  /\ x \notin Listed \cup Extracted
  /\ items' = InsertAt(items, Upto(k) + 1, x)
  /\ score' = [score EXCEPT ![x] = k]
  /\ UNCHANGED <<node, rest>>

Delete(x) ==
  /\ x \in Listed
  /\ items' = RemoveAt(items, CHOOSE i \in DOMAIN items : items[i] = x)
  /\ UNCHANGED <<score, node, rest>>

ExtractLte(k) ==
  /\ node = NULL
  /\ LET p == Upto(k)
     IN  /\ items' = SubSeq(items, p + 1, Len(items))
         /\ node' = IF p = 0 THEN NULL ELSE items[1]
         /\ rest' = SubSeq(items, 2, p)
  /\ UNCHANGED score

NextExtracted ==
  /\ node # NULL
  /\ node' = IF rest = <<>> THEN NULL ELSE Head(rest)
  /\ rest' = IF rest = <<>> THEN <<>> ELSE Tail(rest)
  /\ UNCHANGED <<items, score>>

(* The body of the loop breaks out: nothing leads to the rest any more.    *)
Abandon ==
  /\ node # NULL
  /\ node' = NULL
  /\ rest' = <<>>
  /\ UNCHANGED <<items, score>>

Shift ==
  /\ node = NULL
  /\ items # <<>>
  /\ items' = Tail(items)
  /\ UNCHANGED <<score, node, rest>>

Clear ==
  /\ node = NULL
  /\ items' = <<>>
  /\ UNCHANGED <<score, node, rest>>

Next ==
  \/ \E x \in Node, k \in Score : Insert(x, k)
  \/ \E x \in Node : Delete(x)
  \/ \E k \in Score : ExtractLte(k)
  \/ NextExtracted \/ Abandon \/ Shift \/ Clear

Spec == Init /\ [][Next]_vars
=============================================================================
