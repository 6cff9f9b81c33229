-------------------------- MODULE IonBinaryDocument --------------------------
(***************************************************************************)
(* The reference encoding of a tree of values in binary Ion: every length  *)
(* is computed from the inside out, once the value is complete.  It        *)
(* follows the format that the reader and the writer share, not either of  *)
(* them.  A value is [type, field, anns, body]; the body of a container is *)
(* the sequence of its values, that of a symbol its name, of a string its  *)
(* text and bytes, of an int its value and length, of a bool its value, of *)
(* any other scalar or lob its length.  A typed null has a component null. *)
(***************************************************************************)
EXTENDS IonBinaryFormat

(* A whole value of the type: header and body. *)
Whole(type, body) == Header(type, WidthAll(body)) \o body

AnnotationSids(v, t) == [i \in 1..Len(v.anns) |-> SidOf(t, v.anns[i])]

(* Wrap a value in its annotations. *)
Annotated(v, value, t) ==
  LET sids == AnnotationSids(v, t)
  IN  IF v.anns = <<>> THEN value
      ELSE Whole("uta", << <<"var", LenAll(sids)>>, <<"sids", sids>> >> \o value)

Containers == {"list", "sexp", "struct"}
IsNull(v) == "null" \in DOMAIN v

RECURSIVE EncodeValues(_, _)
EncodePlain(v, t) ==
  CASE IsNull(v)            -> << <<"td", v.type, NullLen>> >>
    [] v.type = "bool"      -> << <<"td", "bool", v.body>> >>
    [] v.type \in Containers -> Whole(v.type, EncodeValues(v.body, t))
    [] v.type = "symbol"    -> LET sid == SidOf(t, v.body)
                               IN  Whole("symbol", << <<"sid", sid, LenSid(sid)>> >>)
    [] v.type = "string"    -> Whole("string", << <<"text">> \o v.body >>)
    [] v.type = "int"       -> Whole("int", << <<"int">> \o v.body >>)
    [] OTHER                -> Whole(v.type, << <<"bytes", v.body>> >>)
EncodeValue(v, t) ==
  (IF v.field = "none" THEN <<>> ELSE << <<"var", SidOf(t, v.field)>> >>)
    \o Annotated(v, EncodePlain(v, t), t)
EncodeValues(vs, t) ==
  FoldLeft(LAMBDA toks, v : toks \o EncodeValue(v, t), <<>>, vs)

(* The local symbol table that a batch starts with, if any. *)
TableIn(toks) ==
  IF Len(toks) > 1 /\ toks[2][1] = "symtab"
    THEN [open |-> TRUE, imports |-> toks[2][2], locals |-> toks[2][3]]
    ELSE NoTable

(* A batch: version marker, symbol table, values. *)
EncodeBatch(vs, t) ==
  << <<"ivm">> >> \o (IF t.open THEN << <<"symtab", t.imports, t.locals>> >> ELSE <<>>)
    \o EncodeValues(vs, t)

(* Does every name of the values have a symbol id? *)
RECURSIVE NamesIn(_)
NamesIn(vs) ==
  UNION { {vs[i].field} \cup {vs[i].anns[k] : k \in 1..Len(vs[i].anns)}
            \cup (IF vs[i].type \in Containers THEN NamesIn(vs[i].body)
                  ELSE IF vs[i].type = "symbol" THEN {vs[i].body} ELSE {})
          : i \in 1..Len(vs) } \ {"none"}
=============================================================================
