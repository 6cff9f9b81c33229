------------------------------ MODULE IonAsked ------------------------------
(***************************************************************************)
(* What the caller of a writer has asked for, as a tree: the history that  *)
(* the output of either writer is compared with.  It has the complete      *)
(* values since the last flush in batch, the batches flushed in sent, the  *)
(* containers and lobs that are open, outermost first, and the annotations *)
(* and field name that wait for the next value.  A value is [type, body,   *)
(* anns, field]; the body of a container is the sequence of its values.    *)
(***************************************************************************)
EXTENDS Naturals, SequencesExt

None == "none"

NothingAsked == [batch |-> <<>>, sent |-> <<>>, open |-> <<>>, anns |-> <<>>, field |-> None]

(* The containers among the open ones: all but a lob, in which nothing     *)
(* else is open.                                                           *)
AskedContainers(a) ==
  IF a.open # <<>> /\ Last(a.open).type \notin {"list", "sexp", "struct"}
    THEN Front(a.open) ELSE a.open

AskedInStruct(a) ==
  AskedContainers(a) # <<>> /\ Last(AskedContainers(a)).type = "struct"

(* The value that is asked for next. *)
Value(a, type, body) ==
  [type |-> type, body |-> body, anns |-> a.anns,
   field |-> IF AskedInStruct(a) THEN a.field ELSE None]

(* a, the annotations and the field name of v used up. *)
Used(a, v) == [a EXCEPT !.anns = <<>>, !.field = IF v.field = None THEN @ ELSE None]

Put(a, v) ==
  IF a.open = <<>> THEN [a EXCEPT !.batch = Append(@, v)]
  ELSE [a EXCEPT !.open[Len(a.open)].body = Append(@, v)]

PutOpen(a, v) == [a EXCEPT !.open = Append(@, v)]

PutClosed(a) == Put([a EXCEPT !.open = Front(@)], Last(a.open))

PutSent(a) == [a EXCEPT !.sent = Append(@, a.batch), !.batch = <<>>]
=============================================================================
