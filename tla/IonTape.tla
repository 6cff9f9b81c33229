------------------------------ MODULE IonTape ------------------------------
(***************************************************************************)
(* What a stream of ion_stream.c promises: bytes and a position in them,   *)
(* where they are read or written; an output passes them on in order.      *)
(***************************************************************************)
EXTENDS Integers, Sequences

CONSTANTS EOF,          \* what a read at the end of the source returns
          Sizes,        \* the lengths callers read, skip and seek by
          NoMark        \* the mark when there is none

VARIABLES cells,        \* the bytes: of the source, or written so far
          pos,          \* the position of the next byte to read
          mark,         \* the position ion_stream_mark remembered
          res,          \* what the last call returned
          sent,         \* what was passed on
          sends,        \* is anything?
          room          \* how many bytes there can be

vars == <<cells, pos, mark, res, sent>>

Least(a, b) == IF a < b THEN a ELSE b
Greatest(a, b) == IF a < b THEN b ELSE a
len  == Len(cells)
Left == len - pos
Kept == UNCHANGED <<cells, sent>>

IsPrefixOf(a, b) == Len(a) <= Len(b) /\ \A i \in 1..Len(a) : a[i] = b[i]

Init == pos = 0 /\ mark = NoMark /\ res = <<"open">> /\ sent = <<>>

ReadByte ==
  /\ res' = <<"byte", IF pos < len THEN cells[pos + 1] ELSE EOF>>
  /\ pos' = Least(pos + 1, len)
  /\ Kept /\ UNCHANGED mark

Read(n) ==
  /\ res' = <<"bytes", [i \in 1..Least(n, Left) |-> cells[pos + i]]>>
  /\ pos' = pos + Least(n, Left)
  /\ Kept /\ UNCHANGED mark

Unread ==
  /\ pos' \in {pos, pos - 1}
  /\ pos' = pos => pos = len
  /\ pos' >= 0
  /\ res' = <<"ok">>
  /\ Kept /\ UNCHANGED mark

Skip(n) ==
  /\ pos' = pos + Least(n, Left)
  /\ res' = <<"skipped", Least(n, Left)>>
  /\ Kept /\ UNCHANGED mark

Seek(p) == pos' = p /\ res' = <<"ok">> /\ Kept /\ UNCHANGED mark

Mark(m) == mark' = m /\ res' = <<"ok">> /\ Kept /\ UNCHANGED pos

Rewind ==
  /\ mark # NoMark
  /\ pos' = mark
  /\ res' = <<"ok">> \/ (mark = len /\ res' = <<"eof">>)
  /\ Kept /\ UNCHANGED mark

(* n bytes are put at the position and nothing else changes; some of what   *)
(* was not passed on yet may be.                                            *)
Put(n) ==
  /\ Len(cells') = Greatest(len, pos + n)
  /\ \A i \in (1..len) \ ((pos + 1)..(pos + n)) : cells'[i] = cells[i]
  /\ pos' = pos + n
  /\ UNCHANGED mark
  /\ IF sends THEN IsPrefixOf(sent, sent') /\ IsPrefixOf(sent', cells') ELSE UNCHANGED sent

Write(n) == pos + n <= room /\ Put(n) /\ res' = <<"wrote", n>>

(* Where there is no room for all of it, what fits is there. *)
Fill(n) == pos + n > room /\ Put(room - pos) /\ res' = <<"eof">>

(* What is copied from another stream that ends too early. *)
Copy(n) == \E k \in 0..(n - 1) : Put(k) /\ res' = <<"read">>

Flush == sent' = (IF sends THEN cells ELSE sent) /\ res' = <<"ok">> /\ UNCHANGED <<cells, pos, mark>>

Close ==
  /\ sent' = IF sends THEN cells ELSE sent
  /\ res' = <<"closed">> /\ pos' = 0 /\ mark' = NoMark
  /\ UNCHANGED cells

Truncate ==
  /\ cells' = SubSeq(cells, 1, pos)
  /\ res' = <<"ok">>
  /\ UNCHANGED <<pos, mark, sent>>

Next ==
  \/ ReadByte \/ Unread \/ Rewind
  \/ \E n \in Sizes : Read(n) \/ Skip(n)
  \/ \E p \in 0..len : Seek(p)
  \/ Flush \/ Truncate \/ Close
  \/ \E n \in Sizes : Write(n) \/ Fill(n) \/ Copy(n)
  \/ \E m \in {mark, pos, NoMark} : Mark(m)

Spec == Init /\ [][Next]_vars
=============================================================================
