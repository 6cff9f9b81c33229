------------------------------ MODULE IonDeque ------------------------------
(***************************************************************************)
(* What ION_COLLECTION promises its callers: every collection is a         *)
(* sequence of entries that grows and shrinks at either end, loses an      *)
(* entry at any place, is emptied, and is overwritten entry by entry by a  *)
(* copy.  IonCollection implements this with linked nodes and a free list. *)
(***************************************************************************)
EXTENDS Naturals, Sequences, SequencesExt

CONSTANTS Colls,    \* the collections
          Vals      \* the values an entry can hold

VARIABLE list       \* list[c]: the entries of collection c, head first

Init == list = [c \in Colls |-> <<>>]

PushFirst(c)   == \E v \in Vals : list' = [list EXCEPT ![c] = <<v>> \o @]
PushLast(c)  == \E v \in Vals : list' = [list EXCEPT ![c] = Append(@, v)]

RemoveAny(c) == \E i \in 1..Len(list[c]) :
               list' = [list EXCEPT ![c] = RemoveAt(@, i)]

Clear(c) == list' = [list EXCEPT ![c] = <<>>]

Next == \E c \in Colls : PushFirst(c) \/ PushLast(c) \/ RemoveAny(c) \/ Clear(c)

Spec == Init /\ [][Next]_list
=============================================================================
