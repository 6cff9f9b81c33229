------------------------------ MODULE IonNames ------------------------------
(***************************************************************************)
(* A symbol table as a writer sees it: the names of the system table, then *)
(* the imported ones, then its own, numbered from 1.                       *)
(***************************************************************************)
EXTENDS Naturals, Sequences

CONSTANT SystemNames  \* the names of the system symbol table, in sid order

ASSUME NamesAssumption == SystemNames \in Seq(STRING)

NoTable == [open |-> FALSE, imports |-> <<>>, locals |-> <<>>]

NamesOf(t) == SystemNames \o t.imports \o t.locals

(* The lowest symbol id of a name, 0 when the table lacks it.              *)
SidOf(t, name) ==
  LET ids == { i \in 1..Len(NamesOf(t)) : NamesOf(t)[i] = name }
  IN  IF ids = {} THEN 0 ELSE CHOOSE i \in ids : \A j \in ids : i <= j
=============================================================================
