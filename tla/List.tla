-------------------------------- MODULE List --------------------------------
(***************************************************************************)
(* The intrusive doubly linked list of libep (src/src/list.h), with every  *)
(* operation on several lists.  Each one is a sequence of assignments to   *)
(* next and prev fields, and the nodes it names may be the same ones:      *)
(* neighbours, the only entry, the head.  EXCEPT keeps the order of the    *)
(* assignments.                                                            *)
(***************************************************************************)
EXTENDS Naturals, Sequences, FiniteSets, SequencesExt

CONSTANTS
  ListHead,   \* the list heads
  Entry,  \* the list_heads embedded in entries
  NULL    \* the null pointer

(* There is no end to what the lists can hold but that of the memory.      *)
ASSUME ListAssumption ==
  /\ NULL \notin ListHead \cup Entry /\ ListHead \cap Entry = {}
  /\ IsFiniteSet(ListHead \cup Entry)

VARIABLES
  mem,   \* mem.next and mem.prev, the fields of each list_head
  stale  \* the heads that list_splice has left pointing into another list

vars == <<mem, stale>>

Place == ListHead \cup Entry

(* INIT_LIST_HEAD, __list_add, __list_del, list_add and list_add_tail.     *)
Alone(m, x) == [m EXCEPT !.next[x] = x, !.prev[x] = x]
Between(m, x, prev, next) ==
  [m EXCEPT !.prev[next] = x, !.next[x] = next, !.prev[x] = prev, !.next[prev] = x]
Without(m, x) ==
  LET prev == m.prev[x] next == m.next[x]
  IN  [m EXCEPT !.prev[next] = prev, !.next[prev] = next]

After(m, x, p) == Between(m, x, p, m.next[p])
Before(m, x, p) == Between(m, x, m.prev[p], p)

(* Along the field f up to the head, in no more steps than there are nodes. *)
Walk(f, h) ==
  LET path[k \in Nat] ==
        IF k = 0 THEN <<>>
        ELSE LET s == path[k - 1]
                 x == f[IF s = <<>> THEN h ELSE Last(s)]
             IN  IF x \in {h, NULL} THEN s ELSE Append(s, x)
  IN  path[Cardinality(Place)]

Live == ListHead \ stale
Linked == UNION {Range(Walk(mem.next, h)) : h \in Live}
Empty(h) == mem.next[h] = h  \* list_empty

Init ==
  /\ mem = LET field == [x \in Place |-> IF x \in ListHead THEN x ELSE NULL]
           IN  [next |-> field, prev |-> field]
  /\ stale = {}

-----------------------------------------------------------------------------
(* A client names live heads and linked entries for places, adds what is   *)
(* not linked, deletes and moves what is or was initialised.               *)
Places == Live \cup Linked
Loose == {x \in Entry : mem.next[x] = x}

Add(x, p) ==  \* list_add, list_add_tail
  /\ x \notin Linked
  /\ mem' \in {After(mem, x, p), Before(mem, x, p)}
  /\ UNCHANGED stale

DelKeeping(x) ==  \* fault: the pointers of the entry stay
  /\ mem' = Without(mem, x)
  /\ UNCHANGED stale

Del(x) ==
  /\ mem' = [Without(mem, x) EXCEPT !.next[x] = NULL, !.prev[x] = NULL]
  /\ UNCHANGED stale

DelInit(x) ==
  /\ mem' = Alone(Without(mem, x), x)
  /\ UNCHANGED stale

Move(x, p) ==  \* list_move, list_move_tail
  /\ x # p
  /\ LET m == Without(mem, x) IN mem' \in {After(m, x, p), Before(m, x, p)}
  /\ UNCHANGED stale

SplicedOneWay(list, p) ==  \* fault: at->prev is forgotten
  [mem EXCEPT !.prev[mem.next[list]] = p, !.next[p] = mem.next[list],
              !.next[mem.prev[list]] = mem.next[p]]

(* __list_splice: all of list behind p.                                    *)
Spliced(list, p) ==
  LET first == mem.next[list] last == mem.prev[list] at == mem.next[p]
  IN  [mem EXCEPT !.prev[first] = p, !.next[p] = first, !.next[last] = at, !.prev[at] = last]

Splice(list, p) ==
  /\ ~Empty(list) /\ p \notin {list} \cup Range(Walk(mem.next, list))
  /\ mem' = Spliced(list, p)
  /\ stale' = stale \cup {list}

SpliceInit(list, p) ==
  /\ ~Empty(list) /\ p \notin {list} \cup Range(Walk(mem.next, list))
  /\ mem' = Alone(Spliced(list, p), list)
  /\ UNCHANGED stale

Reinit(h) ==
  /\ h \in stale
  /\ mem' = Alone(mem, h)
  /\ stale' = stale \ {h}

Next ==
  \/ \E x \in Entry, p \in Places : Add(x, p)
  \/ \E x \in Linked \cup Loose : Del(x) \/ DelInit(x)
  \/ \E x \in Linked \cup Loose, p \in Places : Move(x, p)
  \/ \E list \in Live, p \in Places : Splice(list, p) \/ SpliceInit(list, p)
  \/ \E h \in ListHead : Reinit(h)

Spec == Init /\ [][Next]_vars

-----------------------------------------------------------------------------
(* Properties                                                              *)

(***************************************************************************)
(* list_for_each_prev meets the entries of list_for_each, in reverse: the  *)
(* two fields agree after every operation.                                 *)
(***************************************************************************)
BothWays == \A h \in Live : Walk(mem.prev, h) = Reverse(Walk(mem.next, h))

(***************************************************************************)
(* An entry on no list does not lead back into one.                        *)
(***************************************************************************)
OffApart == \A x \in Entry \ Linked : {mem.next[x], mem.prev[x]} \in {{NULL}, {x}}

(***************************************************************************)
(* The pointers implement the sequences, whatever aliases whatever.        *)
(***************************************************************************)
Lists == INSTANCE Deques WITH
  items <- [h \in ListHead |-> IF h \in stale THEN <<>> ELSE Walk(mem.next, h)]

ImplementsDeques == Lists!Spec
=============================================================================
