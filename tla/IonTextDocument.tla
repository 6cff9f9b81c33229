--------------------------- MODULE IonTextDocument ---------------------------
(***************************************************************************)
(* The reference rendering of a tree of values as Ion text, compact or     *)
(* pretty, computed from the outside in: a value's lead depends only on    *)
(* the container it is in and on its place there.                          *)
(* A value is [type, body, anns, field]; the body of a lob is its length:  *)
(* its bytes are numbered from 1.  The writer's text is compared with it.  *)
(***************************************************************************)
EXTENDS IonTextWriter

(* What comes before the k-th value in a container of the type at a depth.  *)
LeadText(type, k, depth, pretty) ==
  LET separates == type \in {"list", "struct"}
  IN  IF ~pretty THEN (IF k = 1 THEN <<>> ELSE <<IF separates THEN Comma ELSE Space>>)
      ELSE (IF k > 1 /\ separates THEN <<Comma>> ELSE <<>>)
             \o (IF k = 1 /\ depth = 0 THEN <<>> ELSE <<Eol>>)
             \o Indent(depth)

(* Bytes from to to, in groups of three: the last may be shorter. *)
Quads(from, to) ==
  [g \in 1..((to + 3 - from) \div 3) |->
     LET first == from + 3 * (g - 1) IN
     <<"quad", [b \in 1..(IF first + 2 <= to THEN 3 ELSE to + 1 - first) |-> first + b - 1]>>]

(* The text of a blob's first n bytes while more may follow: whole groups.  *)
LobText(type, n, open) ==
  IF type = "clob" THEN [i \in 1..n |-> <<"byte", i>>]
  ELSE Quads(1, IF open THEN 3 * (n \div 3) ELSE n)

(* A field name and annotations. *)
Prefix(v) ==
  (IF v.field = None THEN <<>> ELSE << <<"field", v.field>> >>)
    \o [i \in 1..Len(v.anns) |-> <<"ann", v.anns[i]>>]

RECURSIVE ValuesText(_, _, _, _)
ValueText(v, depth, pretty) ==
  Prefix(v) \o
  (IF v.type \notin Containers \cup Lobs THEN << <<"image", v.body>> >>
   ELSE << <<"open", v.type>> >>
          \o (IF v.type \in Lobs THEN LobText(v.type, v.body, FALSE)
              ELSE ValuesText(v.body, v.type, depth + 1, pretty))
          \o CloseText(v.type, depth, pretty))
ValuesText(vs, type, depth, pretty) ==
  FoldLeft(LAMBDA text, k : text \o LeadText(type, k, depth, pretty)
                                 \o ValueText(vs[k], depth, pretty),
           <<>>, [k \in 1..Len(vs) |-> k])

(* The text of all that was asked for, up to where the caller is. *)
AskedText(a, pretty) ==
  LET n == Len(a.open)
      type(i) == IF i = 0 THEN Top ELSE a.open[i].type
      body(i) == IF i = 0 THEN a.batch ELSE a.open[i].body
      inside(i) == IF type(i) \in Lobs THEN LobText(type(i), body(i), TRUE)
                   ELSE ValuesText(body(i), type(i), i, pretty)
  IN  FoldLeft(LAMBDA text, i :
                 text \o LeadText(type(i - 1), Len(body(i - 1)) + 1, i - 1, pretty)
                      \o Prefix(a.open[i]) \o << <<"open", type(i)>> >> \o inside(i),
               inside(0), [i \in 1..n |-> i])
-----------------------------------------------------------------------------
(* The text is the rendering of what was asked for, at every moment, open   *)
(* containers and lobs included: each separator, line, indent and base64    *)
(* group is the one its value's place in the whole tree calls for, though   *)
(* the writer decides them from a few flags.  With flush_every_value all of *)
(* it but an open lob has reached the stream; a close leaves nothing back.  *)
TextIsAsked ==
  /\ w.out = AskedText(asked, w.pretty) \o (IF w.closed /\ w.pretty THEN <<Eol>> ELSE <<>>)
  /\ w.closed \/ (w.flushEvery /\ ~InLob) => w.sent = Len(w.out)
=============================================================================
