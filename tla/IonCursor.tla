----------------------------- MODULE IonCursor -----------------------------
(***************************************************************************)
(* What a pull parser promises: a cursor over a tree of values.  A         *)
(* document is a sequence of values and of symbol tables; the caller sees  *)
(* the values only, with names where the document has symbol ids.  The     *)
(* cursor is a record: rest holds, innermost level first, what is still to *)
(* come; now is the value it is on; left is what of it is still unread;    *)
(* sure tells whether the next call is specified.  Calls are operators     *)
(* from a cursor to [c, err, val]: C... of a cursor that a read moves off  *)
(* the value, as in binary, T... of one that stays on it, as in text.      *)
(***************************************************************************)
EXTENDS IonBinaryDocument

Eof == "eof"

Yes(c, val) == [c |-> c, err |-> "ok", val |-> val]
No(c)       == [c |-> c, err |-> "refused", val |-> Eof]

(* What there is to read of a value, as the caller gets it. *)
Content(v) ==
  CASE IsNull(v) \/ v.type \in Containers -> <<>>
    [] "bytes" \in DOMAIN v   -> v.bytes
    [] v.type = "string"       -> v.body[2]
    [] v.type = "symbol"       -> <<v.body>>
    [] v.type = "int"          -> <<v.body[1]>>
    [] v.type = "bool"         -> <<v.body>>
    [] OTHER                   -> [i \in 1..v.body |-> "byte"]

Unread(c) == c.on /\ ~c.spent

CNext(c) ==
  LET level == Head(c.rest)
  IN IF level = <<>>
       THEN Yes([c EXCEPT !.on = FALSE, !.atEnd = TRUE], Eof)
       ELSE Yes([c EXCEPT !.rest[1] = Tail(level), !.now = Head(level), !.on = TRUE, !.sure = TRUE,
                          !.spent = FALSE, !.left = Content(Head(level))],
                Head(level).type)

CStepIn(c) ==
  IF Unread(c) /\ c.now.type \in Containers
    THEN Yes([c EXCEPT !.rest = <<IF IsNull(c.now) THEN <<>> ELSE c.now.body>> \o @, !.on = FALSE], "in")
    ELSE No(c)

CStepOut(c) ==
  IF Len(c.rest) > 1
    THEN Yes([c EXCEPT !.rest = Tail(@), !.on = FALSE, !.atEnd = FALSE, !.sure = TRUE], "out")
    ELSE No(c)

Spent(c) == [c EXCEPT !.spent = TRUE, !.left = <<>>]

(* A whole scalar of the types. *)
CRead(c, types) ==
  IF Unread(c) /\ c.now.type \in types /\ ~IsNull(c.now) THEN Yes(Spent(c), c.left) ELSE No(c)

(* A call that finds the number too large for its type may have moved past *)
(* it: what is promised of the value ends here.                            *)
CReadInt(c, fits) ==
  IF Unread(c) /\ c.now.type = "int" /\ ~IsNull(c.now) /\ c.now.body[2] > fits
    THEN No([c EXCEPT !.sure = FALSE])
    ELSE CRead(c, {"int"})

CReadNull(c) ==
  IF Unread(c) /\ IsNull(c.now) THEN Yes(Spent(c), c.now.type) ELSE No(c)

CReadText(c) ==
  IF Unread(c) /\ IsNull(c.now) /\ c.now.type \in {"string", "symbol"}
    THEN Yes(Spent(c), <<>>) ELSE CRead(c, {"string", "symbol"})

(* At most n bytes of what is left. *)
Piece(c, n) ==
  IF Len(c.left) <= n THEN Yes(Spent(c), c.left)
  ELSE Yes([c EXCEPT !.left = SubSeq(@, n + 1, Len(@))], SubSeq(c.left, 1, n))

(* A null has no bytes, which a caller may be told again and again. *)
CReadStringPart(c, n) ==
  IF ~Unread(c) \/ c.now.type # "string" THEN No(c)
  ELSE IF IsNull(c.now) THEN Yes(c, <<>>)
  ELSE Piece(c, n)

(* A lob may be read until nothing comes any more, or in one go. *)
CReadLob(c, partial, n) ==
  IF ~c.on \/ c.now.type # "lob" THEN No(c)
  ELSE IF Len(c.left) = 0 THEN Yes(c, <<>>)
  ELSE IF Len(c.left) > n /\ ~partial THEN No(c)
  ELSE Piece(c, n)

CStringLength(c) == IF Unread(c) /\ c.now.type = "string" THEN Yes(c, Len(c.left)) ELSE No(c)

-----------------------------------------------------------------------------
(* A cursor that stays on the value. *)

IsOn(c, types) == c.on /\ c.now.type \in types /\ ~IsNull(c.now)

TStepIn(c) == IF IsOn(c, Containers) THEN CStepIn(c) ELSE No(c)

TRead(c, types) == IF IsOn(c, types) THEN Yes(c, c.left) ELSE No(c)

TReadInt(c, fits) ==
  IF IsOn(c, {"int"}) /\ c.now.body[2] > fits THEN No(c) ELSE TRead(c, {"int"})

TReadNull(c) == IF c.on /\ IsNull(c.now) THEN Yes(c, c.now.type) ELSE No(c)

(* When all pieces were read, nothing comes. *)
TPiece(c, n) ==
  Yes([c EXCEPT !.left = SubSeq(@, n + 1, Len(@))], SubSeq(c.left, 1, Min({n, Len(c.left)})))

TReadPart(c, n) == IF IsOn(c, {"string"}) THEN TPiece(c, n) ELSE No(c)

(* A lob that is not wanted in pieces and does not fit is lost. *)
TReadLob(c, partial, n) ==
  IF ~IsOn(c, {"lob"}) THEN No(c)
  ELSE IF Len(c.left) > n /\ ~partial THEN No([c EXCEPT !.sure = FALSE])
  ELSE TPiece(c, n)

(* How much is left, in text of strings and in both of lobs. *)
CLength(c, type) == IF IsOn(c, {type}) /\ ~c.spent THEN Yes(c, Len(c.left)) ELSE No(c)

-----------------------------------------------------------------------------
StartOf(values) ==
  [rest |-> <<values>>, on |-> FALSE, now |-> [type |-> Eof], left |-> <<>>,
   spent |-> FALSE, sure |-> TRUE, atEnd |-> FALSE]
=============================================================================
