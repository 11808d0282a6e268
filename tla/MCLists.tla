------------------------------ MODULE MCLists ------------------------------
(***************************************************************************)
(* The two list headers for TLC: either one or the other.  List's own      *)
(* definitions are those of list.h; S has those of singly_list.h.          *)
(***************************************************************************)
EXTENDS List, TLC

VARIABLES cell, end, valid, left

S == INSTANCE SinglyList WITH stale <- left

singly == <<cell, end, valid, left>>

EitherInit == Init /\ S!Init

(* A behaviour stays with the list it uses first.                          *)
EitherNext ==
  \/ Next /\ S!Init /\ UNCHANGED singly
  \/ S!Next /\ Init /\ UNCHANGED vars

EitherSpec == EitherInit /\ [][EitherNext]_<<vars, singly>>

Entries == Permutations(Entry)

-----------------------------------------------------------------------------
(* Properties                                                              *)

(* singly_list.h: push, unshift, shift and splice do to the sequences what *)
(* they say, as those of list.h do (ImplementsDeques).                     *)
SinglyListIsDeques == S!ImplementsDeques
=============================================================================
