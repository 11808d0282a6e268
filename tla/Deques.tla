------------------------------- MODULE Deques -------------------------------
(***************************************************************************)
(* What the list headers of libep promise: each head leads to a sequence   *)
(* of entries, no entry is on two of them, and entries are put in, taken   *)
(* out, moved and spliced anywhere.  List and SinglyList implement it.     *)
(***************************************************************************)
EXTENDS Naturals, Sequences

CONSTANTS ListHead, Entry

VARIABLE items  \* the entries of each head, in order

On(x) == \E h \in ListHead : \E i \in DOMAIN items[h] : items[h][i] = x

Put(f, h, i, s) ==  \* the sequence s behind the first i items of h
  [f EXCEPT ![h] = SubSeq(@, 1, i) \o s \o SubSeq(@, i + 1, Len(@))]
Take(f, h, i) == [f EXCEPT ![h] = SubSeq(@, 1, i - 1) \o SubSeq(@, i + 1, Len(@))]

Init == items = [h \in ListHead |-> <<>>]

Insert(h, i, x) ==
  /\ ~On(x)
  /\ items' = Put(items, h, i, <<x>>)

Delete(h, i) == items' = Take(items, h, i)

Move(h, i, g, j) == items' = Put(Take(items, h, i), g, j, <<items[h][i]>>)

Splice(h, g, i) ==
  /\ h # g
  /\ items' = [Put(items, g, i, items[h]) EXCEPT ![h] = <<>>]

Next ==
  \E h \in ListHead :
    \/ \E i \in 0 .. Len(items[h]), x \in Entry : Insert(h, i, x)
    \/ \E i \in DOMAIN items[h] :
         \/ Delete(h, i)
         \/ \E g \in ListHead : \E j \in 0 .. Len(Take(items, h, i)[g]) : Move(h, i, g, j)
    \/ \E g \in ListHead : \E i \in 0 .. Len(items[g]) : Splice(h, g, i)

Spec == Init /\ [][Next]_items
=============================================================================
