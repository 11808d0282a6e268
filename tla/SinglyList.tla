----------------------------- MODULE SinglyList -----------------------------
(***************************************************************************)
(* The singly linked list of libep (src/src/singly_list.h).  A head has    *)
(* begin and end; end is the address of the pointer that the next push     *)
(* writes: begin of the head, or next of the last node.  cell[h] is        *)
(* head->begin, cell[x] is node->next, and end[h] the cell end points to.  *)
(***************************************************************************)
EXTENDS Naturals, Sequences, FiniteSets, SequencesExt

CONSTANTS
  ListHead,  \* the heads
  Entry,     \* the nodes
  NULL       \* the null pointer

VARIABLES
  cell,   \* begin of each head, next of each node
  end,    \* end of each head
  valid,  \* the heads whose end a client may rely on
  stale   \* the heads that share their nodes with another after a splice

vars == <<cell, end, valid, stale>>

Walk(h) ==
  LET path[k \in Nat] ==
        IF k = 0 THEN <<>>
        ELSE LET s == path[k - 1]
                 x == cell[IF s = <<>> THEN h ELSE Last(s)]
             IN  IF x = NULL THEN s ELSE Append(s, x)
  IN  path[Cardinality(Entry) + 1]

Live == ListHead \ stale
Linked == UNION {Range(Walk(h)) : h \in Live}

Init ==
  /\ cell = [x \in ListHead \cup Entry |-> NULL]
  /\ end = [h \in ListHead |-> h]
  /\ valid = ListHead
  /\ stale = {}

Reinit(h) ==  \* INIT_SINGLY_LIST_HEAD, on a head that has lost its nodes
  /\ cell[h] = NULL \/ h \in stale
  /\ cell' = [cell EXCEPT ![h] = NULL]
  /\ end' = [end EXCEPT ![h] = h]
  /\ valid' = valid \cup {h}
  /\ stale' = stale \ {h}

(***************************************************************************)
(* What shift and splice impose on a client: they leave end behind (shift  *)
(* at begin if nodes are left and in the removed node if not), so nothing  *)
(* may be pushed or spliced to that head until it is initialised again or  *)
(* a node is unshifted to it empty.                                        *)
(***************************************************************************)
MayAppend(h) == h \in valid \ stale

Push(x, h) ==
  /\ MayAppend(h) /\ x \notin Linked
  /\ cell' = [cell EXCEPT ![end[h]] = x, ![x] = NULL]
  /\ end' = [end EXCEPT ![h] = x]
  /\ UNCHANGED <<valid, stale>>

Unshift(x, h) ==
  /\ h \in Live /\ x \notin Linked
  /\ cell' = [cell EXCEPT ![x] = cell[h], ![h] = x]
  /\ end' = IF cell[h] = NULL THEN [end EXCEPT ![h] = x] ELSE end
  /\ valid' = IF cell[h] = NULL THEN valid \cup {h} ELSE valid
  /\ UNCHANGED stale

Shift(h) ==
  /\ h \in Live /\ cell[h] # NULL
  /\ cell' = [cell EXCEPT ![h] = cell[cell[h]]]
  /\ end' = IF cell'[h] # NULL THEN [end EXCEPT ![h] = h] ELSE end
  /\ valid' = valid \ {h}
  /\ UNCHANGED stale

SplicedToBegin(list, h) == [cell EXCEPT ![h] = cell[list]]  \* fault: not at the end
Spliced(list, h) == [cell EXCEPT ![end[h]] = cell[list]]

Splice(list, h) ==
  /\ list # h /\ list \in Live /\ cell[list] # NULL /\ MayAppend(h)
  /\ cell' = Spliced(list, h)
  /\ valid' = valid \ {h}
  /\ stale' = stale \cup {list}
  /\ UNCHANGED end

SpliceInit(list, h) ==
  /\ list # h /\ list \in Live /\ cell[list] # NULL /\ MayAppend(h)
  /\ cell' = [Spliced(list, h) EXCEPT ![list] = NULL]
  /\ end' = [end EXCEPT ![list] = list]
  /\ valid' = (valid \ {h}) \cup {list}
  /\ UNCHANGED stale

Next ==
  \/ \E x \in Entry, h \in ListHead : Push(x, h) \/ Unshift(x, h)
  \/ \E h \in ListHead : Shift(h) \/ Reinit(h)
  \/ \E list, h \in ListHead : Splice(list, h) \/ SpliceInit(list, h)

Spec == Init /\ [][Next]_vars

-----------------------------------------------------------------------------
(* Properties                                                              *)

(***************************************************************************)
(* The pointers implement sequences.                                       *)
(***************************************************************************)
Lists == INSTANCE Deques WITH
  items <- [h \in ListHead |-> IF h \in stale THEN <<>> ELSE Walk(h)]

ImplementsDeques == Lists!Spec
=============================================================================
