---------------------------- MODULE IonTextWriter ----------------------------
(***************************************************************************)
(* ion_writer_text.c, with the state ion_writer.c keeps for it.  Text goes *)
(* to the output stream as the calls come; what a value needs before it    *)
(* is known from three fields alone: is a separator pending, which one it  *)
(* is, and are we in a struct.  Containers and lobs save and restore them  *)
(* on a stack of types and flags.  Blobs keep up to two bytes back until   *)
(* there are three to encode.                                              *)
(*                                                                         *)
(* asked is what the caller asked for, as a tree: the history the output   *)
(* is compared with.                                                       *)
(*                                                                         *)
(* Text is a sequence of tokens:                                           *)
(*   <<"sep", c>>        a comma, a space or an end of line                *)
(*   <<"indent", n>>     white space for n open containers                 *)
(*   <<"field", name>>   a field name and its colon                        *)
(*   <<"ann", name>>     an annotation and its colons                      *)
(*   <<"image", i>>      the text of a scalar                              *)
(*   <<"open", type>>, <<"close", type>>   brackets, braces, parentheses   *)
(*   <<"byte", i>>       a character of a clob                             *)
(*   <<"quad", b>>       four base64 characters for the bytes b of a blob, *)
(*                       padded when there are fewer than three            *)
(***************************************************************************)
EXTENDS IonWriter

CONSTANTS
  Scalars,     \* the scalars callers write
  Pieces,      \* the lengths of the pieces callers append to lobs
  StackDepth,  \* DEFAULT_WRITER_STACK_DEPTH
  TypeSize,    \* sizeof(ION_TYPE), of an entry's type
  FlagSize     \* sizeof(BYTE), of its flags

ASSUME TextWriterAssumption ==
  /\ Pieces \subseteq Nat \ {0}
  /\ StackDepth \in Nat \ {0} /\ TypeSize \in Nat /\ FlagSize \in Nat
  /\ StackDepth * TypeSize + StackDepth * FlagSize < Room

vars == <<w, asked, res, calls>>

Comma == <<"sep", "comma">>
Eol   == <<"sep", "eol">>
Space == <<"sep", "space">>

Lobs       == {"blob", "clob"}
Containers == {"list", "sexp", "struct"}
Top        == "top"  \* where no container is open

Indent(depth) == IF depth = 0 THEN <<>> ELSE << <<"indent", depth>> >>

CloseText(type, depth, pretty) ==
  (IF pretty /\ type \in Containers THEN <<Eol>> \o Indent(depth) ELSE <<>>)
    \o << <<"close", type>> >>

Write(v, toks) == [v EXCEPT !.out = @ \o toks]

-----------------------------------------------------------------------------
(* The stack.  _in_struct is already that of a container that is pushed,   *)
(* and still that around a lob.                                            *)

SeparatorIn(type, pretty) ==
  CASE type = "sexp"             -> Space
    [] type \in {"list", "struct"} -> Comma
    [] OTHER                     -> IF pretty THEN Eol ELSE Space

(* Both arrays come from the temp buffer, one after the other. *)
AllocateStack(v, size) ==
  Then(Allocate(v, size * TypeSize), LAMBDA u : Allocate(u, size * FlagSize))

(* _ion_writer_text_grow_stack: the arrays are copied to ones of twice the *)
(* room; the temp buffer does not grow, and what it gave is not given back *)
(* when there is room for the types alone.                                 *)
GrowStack(v) ==
  LET r == AllocateStack(v, 2 * v.size) IN
  IF Len(v.stack) < v.size THEN Ok(v)
  ELSE IF r.err # "ok" THEN Fails(r.w, "stack")
  ELSE Ok([r.w EXCEPT !.size = 2 * @])

(* _ion_writer_text_push. *)
Push(v, type) ==
  Then(GrowStack(v), LAMBDA u :
    Ok([u EXCEPT !.stack = Append(@, [type |-> type, inStruct |-> u.inStruct,
                                      pending |-> u.pending]),
                 !.sep = SeparatorIn(type, u.pretty)]))

(* The flags of the top entry.  With no entry the macro reads the byte     *)
(* before the flags: the last byte of the types, which is zero.            *)
NoFlags == [inStruct |-> FALSE, pending |-> FALSE]
TopFlags(v) ==
  IF v.stack = <<>> THEN NoFlags
  ELSE [inStruct |-> Last(v.stack).inStruct, pending |-> Last(v.stack).pending]

TopType(v) == IF v.stack = <<>> THEN Top ELSE Last(v.stack).type

(* Mutant of Pop: the separator is that of the type popped. *)
PopKeepingSeparator(v) == [v EXCEPT !.stack = Front(@)]

(* _ion_writer_text_pop: the top level separates as an s-expression does.  *)
Pop(v) ==
  LET u == [v EXCEPT !.stack = Front(@)]
  IN  [u EXCEPT !.sep = SeparatorIn(IF u.stack = <<>> THEN "sexp" ELSE TopType(u), u.pretty)]

-----------------------------------------------------------------------------
(* Values. *)

(* What _ion_writer_text_start_value writes before a value. *)
Lead(v) ==
  IF ~v.pretty THEN (IF v.pending THEN <<v.sep>> ELSE <<>>)
  ELSE (IF v.pending /\ v.sep = Comma THEN <<v.sep>> ELSE <<>>)
         \o (IF v.fresh THEN <<>> ELSE <<Eol>>)
         \o Indent(Len(v.stack))

(* Its field name: INVALID_STATE or, once a name was used up, INVALID_ARG.  *)
WriteField(v) ==
  LET r == FieldAsString(v)
  IN  IF ~v.inStruct THEN Ok(v)
      ELSE IF r.err # "ok" \/ r.name = None THEN Fails(v, "no field")
      ELSE Ok(ClearFieldName(Write(v, << <<"field", r.name>> >>)))

(* Its annotations. *)
WriteAnnotations(v) ==
  LET names == AnnotationNames(v)
  IN  ClearAnnotations(Write(v, [i \in 1..Len(names) |-> <<"ann", names[i]>>]))

(* Mutant of StartValue: the lead is out before the test for blob bytes.   *)
StartValueLate(v) ==
  LET led == [Write(v, Lead(v)) EXCEPT !.fresh = FALSE]
  IN  IF v.blobBytes > 0 THEN Fails(led, "state")
      ELSE Then(WriteField(led), LAMBDA u : Ok(WriteAnnotations(u)))

(* _ion_writer_text_start_value: the lead is out before the field name is  *)
(* looked for.                                                             *)
StartValue(v) ==
  LET led == [Write(v, Lead(v)) EXCEPT !.fresh = FALSE]
  IN  IF v.blobBytes > 0 THEN Fails(v, "state")
      ELSE Then(WriteField(led), LAMBDA u : Ok(WriteAnnotations(u)))

FlushStream(v) == [v EXCEPT !.sent = Len(v.out)]

(* _ion_writer_text_close_value. *)
CloseValue(v) ==
  [IF v.flushEvery THEN FlushStream(v) ELSE v EXCEPT !.pending = TRUE]

(* The scalars: null, typed null, bool, int64, ION_INT, double, decimal,   *)
(* timestamp, symbol, string, differ in their image only.                  *)
WriteImage(v, image) ==
  Then(StartValue(v), LAMBDA u : Ok(CloseValue(Write(u, << <<"image", image>> >>))))

(* _ion_writer_text_write_decimal of no decimal at all: the value is       *)
(* started here, and then again as a typed null.                           *)
NullImage == "null.decimal"
WriteNullDecimal(v) == Then(StartValue(v), LAMBDA u : WriteImage(u, NullImage))

-----------------------------------------------------------------------------
(* Lobs.  bytes is a sequence of byte numbers; zeros stand for what is     *)
(* shifted in from a triple that was never stored.                         *)

LastOf(bytes, n) ==
  LET padded == <<0, 0, 0>> \o bytes
  IN  SubSeq(padded, Len(padded) + 1 - n, Len(padded))

Quad(bytes, n) == << <<"quad", LastOf(bytes, n)>> >>

(* Whole triples are written, the tail is remembered. *)
WriteTriples(v, bytes) ==
  LET n == 3 * (Len(bytes) \div 3)
      quads == [g \in 1..(n \div 3) |-> <<"quad", SubSeq(bytes, 3 * g - 2, 3 * g)>>]
      tail  == SubSeq(bytes, n + 1, Len(bytes))
  IN  [Write(v, quads) EXCEPT !.triple = tail, !.blobBytes = Len(tail)]

(* Mutant of AppendBlob: what is left after filling the triple is lost. *)
AppendBlobOnce(v, bytes) ==
  LET take   == IF Len(bytes) < 3 - v.blobBytes THEN Len(bytes) ELSE 3 - v.blobBytes
      triple == v.triple \o SubSeq(bytes, 1, take)
  IN  IF v.blobBytes = 0 THEN WriteTriples(v, bytes)
      ELSE IF v.blobBytes + take < 3 THEN [v EXCEPT !.blobBytes = @ + take]
      ELSE [Write(v, Quad(triple, 3)) EXCEPT !.blobBytes = 0]

(* _ion_writer_text_append_blob_contents.  When the bytes do not fill the  *)
(* pending triple they are counted, but the triple is not stored.          *)
AppendBlob(v, bytes) ==
  LET take   == IF Len(bytes) < 3 - v.blobBytes THEN Len(bytes) ELSE 3 - v.blobBytes
      triple == v.triple \o SubSeq(bytes, 1, take)
      rest   == SubSeq(bytes, take + 1, Len(bytes))
  IN  IF v.blobBytes = 0 THEN WriteTriples(v, bytes)
      ELSE IF v.blobBytes + take < 3 THEN [v EXCEPT !.blobBytes = @ + take]
      ELSE WriteTriples(Write(v, Quad(triple, 3)), rest)

(* _ion_writer_text_close_blob_contents. *)
CloseBlob(v) ==
  IF v.blobBytes = 0 THEN v
  ELSE [Write(v, Quad(v.triple, v.blobBytes)) EXCEPT !.blobBytes = 0]

(* _ion_writer_text_append_lob: clobs are written character by character.  *)
AppendBytes(v, type, bytes) ==
  IF type = "blob" THEN AppendBlob(v, bytes)
  ELSE Write(v, [i \in 1..Len(bytes) |-> <<"byte", bytes[i]>>])

CloseLob(v, type) ==
  CloseValue(Write(IF type = "blob" THEN CloseBlob(v) ELSE v, << <<"close", type>> >>))

(* _ion_writer_text_write_blob and _write_clob: all of it at once. *)
WriteLob(v, type, bytes) ==
  Then(StartValue(v), LAMBDA u :
    Ok(CloseLob(AppendBytes(Write(u, << <<"open", type>> >>), type, bytes), type)))

-----------------------------------------------------------------------------
(* Containers and lobs of several calls. *)

(* _ion_writer_text_start_lob. *)
StartedLob(v, type) ==
  Then(StartValue(v), LAMBDA u : Push(Write(u, << <<"open", type>> >>), type))

(* _ion_writer_text_finish_lob: popped before its type is looked at. *)
FinishedLob(v) ==
  IF v.stack = <<>> THEN Fails(v, "state")
  ELSE IF TopType(v) \notin Lobs THEN Fails(Pop(v), "wrong end")
  ELSE Ok(CloseLob(Pop(v), TopType(v)))

(* Its open bracket; nothing in it needs a separator yet. *)
Opened(v, type) ==
  LET u == [Write(v, << <<"open", type>> >>) EXCEPT !.pending = FALSE]
  IN  IF v.flushEvery THEN FlushStream(u) ELSE u

(* _ion_writer_text_start_container: the stack may fail to grow when we    *)
(* are already in the struct.                                              *)
StartedContainer(v, type) ==
  Then(StartValue(v), LAMBDA u :
    LET pushed == Push([u EXCEPT !.inStruct = type = "struct"], type)
    IN  IF pushed.err = "ok" THEN Ok(Opened(pushed.w, type)) ELSE pushed)

EndedContainer(v) ==
  CloseValue(Write(Pop(v), CloseText(TopType(v), Len(v.stack) - 1, v.pretty)))

(* Mutant of FinishedContainer: we stay in the struct that ended. *)
FinishedInStruct(v) ==
  LET restored == [v EXCEPT !.pending = TopFlags(v).pending]
  IN  IF v.stack = <<>> THEN Fails(restored, "wrong end")
      ELSE IF TopType(v) \in Lobs THEN Fails(Pop(restored), "wrong end")
      ELSE Ok(EndedContainer(restored))

(* _ion_writer_text_finish_container: the pending separator is restored    *)
(* before the stack is popped, and the type looked at after.               *)
FinishedContainer(v) ==
  LET restored == [v EXCEPT !.pending = TopFlags(v).pending]
      ended    == EndedContainer(restored)
  IN  IF v.stack = <<>> THEN Fails(restored, "wrong end")
      ELSE IF TopType(v) \in Lobs THEN Fails(Pop(restored), "wrong end")
      ELSE Ok([ended EXCEPT !.inStruct = TopFlags(ended).inStruct])

-----------------------------------------------------------------------------
(* The writer machine: one action per call.  Calls that leave the text     *)
(* other than it was asked for are explored only when Careless names them: *)
(* "no field" (a value of a struct without a field name: rejected when its *)
(* separator is out), "stack" (a container or lob deeper than the temp     *)
(* buffer has room for: rejected when all before its bracket is out),      *)
(* "wrong end" (an end of something that is not open), "in lob" (a value   *)
(* where a lob is open that owes no bytes), "dribble" (bytes appended to a *)
(* blob that do not fill its triple), "null decimal" (a null decimal that  *)
(* needs a separator, a field name or a line), "flush" (a flush when       *)
(* annotations wait, or there is a symbol table: both are freed with the   *)
(* pool), "table" (a new symbol table when ids wait).                      *)

InLob == TopType(w) \in Lobs

(* A call that starts a value.  A lob is no place for one, so that nothing *)
(* is asked for there.                                                     *)
Starts(r, a) ==
  /\ InLob /\ w.blobBytes = 0 => Allowed("in lob")
  /\ Ends(r, IF InLob THEN asked ELSE a)

Writes(r, type, body) ==
  LET v == Value(asked, type, body) IN Starts(r, Put(Used(asked, v), v))

Opens(r, type, body) ==
  LET v == Value(asked, type, body) IN Starts(r, PutOpen(Used(asked, v), v))

WriteScalar(image) == Writes(WriteImage(w, image), "scalar", image)

(* _ion_writer_text_write_symbol_id: the image is the name. *)
WriteSymbolId(sid) ==
  /\ sid \in 1..Len(NamesOf(w.table))
  /\ WriteScalar(NamesOf(w.table)[sid])

WriteDecimalNull ==
  /\ WriteNullDecimal(w) # WriteImage(w, NullImage) => Allowed("null decimal")
  /\ Writes(WriteNullDecimal(w), "scalar", NullImage)

BytesFrom(n, length) == [i \in 1..length |-> n + i]

WriteWholeLob(type, n) == Writes(WriteLob(w, type, BytesFrom(0, n)), type, n)

StartLob(type) == Opens(StartedLob(w, type), type, 0)

AppendLob(n) ==
  IF ~InLob THEN Ends(Fails(w, "state"), asked)
  ELSE /\ TopType(w) = "blob" /\ w.blobBytes \in 1..(2 - n) => Allowed("dribble")
       /\ Ends(Ok(AppendBytes(w, TopType(w), BytesFrom(Last(asked.open).body, n))),
               [asked EXCEPT !.open[Len(asked.open)].body = @ + n])

FinishLob == Ends(FinishedLob(w), PutClosed(asked))

StartContainer(type) == Opens(StartedContainer(w, type), type, <<>>)

FinishContainer == Ends(FinishedContainer(w), PutClosed(asked))

(* _ion_writer_flush_helper: "not really anything to do for the text       *)
(* writer", but the pool that holds the annotations' names and the symbol  *)
(* table is reset, and these may then be any.                              *)
Flush ==
  /\ w.anns # <<>> \/ w.table.open => Allowed("flush")
  /\ \E left \in [1..Len(w.anns) -> Names], imports \in Imports :
       LET freed == IF w.table.open THEN [w EXCEPT !.table.imports = imports] ELSE w
       IN  Ends(Ok(IF w.annsType = BySid THEN freed ELSE [freed EXCEPT !.anns = left]), asked)

(* _ion_writer_text_close. *)
Close ==
  LET v == IF w.pretty THEN Write(w, <<Eol>>) ELSE w
  IN  Ends(Ok([FlushStream(v) EXCEPT !.closed = TRUE]), asked)

TextPart ==
  [out |-> <<>>, sent |-> 0, fresh |-> TRUE, pending |-> FALSE, sep |-> Space,
   blobBytes |-> 0, triple |-> <<>>, stack |-> <<>>, size |-> StackDepth]

Init ==
  /\ \E imports \in Imports, pretty, flush \in BOOLEAN :
       w = [Both(Both(TextPart, [pretty |-> pretty, flushEvery |-> flush]),
                 FreshWith(imports)) EXCEPT !.used = StackDepth * TypeSize + StackDepth * FlagSize]
  /\ asked = NothingAsked
  /\ res = "ok"
  /\ calls = 0

(* Calls that write. *)
ValueCall ==
  \/ \E name \in Names : FieldName(name) \/ AddAnnotation(name)
  \/ \E image \in Scalars : WriteScalar(image)
  \/ WriteDecimalNull
  \/ \E type \in Lobs : StartLob(type) \/ \E n \in Pieces : WriteWholeLob(type, n)
  \/ \E n \in Pieces : AppendLob(n)
  \/ \E type \in Containers : StartContainer(type)
  \/ FinishLob \/ FinishContainer \/ Flush \/ Close

OtherCall ==
  \/ PendingCall
  \/ \E sid \in 1..Len(NamesOf(w.table)) : WriteSymbolId(sid)
  \/ \E imports \in Imports : SetSymbolTable(imports)

Next == ValueCall \/ OtherCall

Spec == Init /\ [][Next]_vars
-----------------------------------------------------------------------------
(* Properties. *)

(* The stack is the containers and lobs the caller has open, and the fields *)
(* that are saved there are those of the innermost one: push, pop, start    *)
(* and finish set them apart from each other, before and after a call can   *)
(* still fail.  Only an open blob owes bytes.                               *)
FramesMirrorCalls ==
  LET type(i) == asked.open[i].type
      place   == asked.open[Len(asked.open)]
  IN  /\ Len(w.stack) = Len(asked.open) /\ Len(w.stack) <= w.size /\ w.used <= w.room
      /\ \A i \in 1..Len(w.stack) : w.stack[i].type = type(i)
      /\ w.inStruct = AskedInStruct(asked)
      /\ w.sep = SeparatorIn(IF w.stack = <<>> THEN "sexp" ELSE TopType(w), w.pretty)
      /\ ~InLob => w.pending = ((IF w.stack = <<>> THEN asked.batch ELSE place.body) # <<>>)
      /\ w.blobBytes = IF TopType(w) = "blob" THEN place.body % 3 ELSE 0
      /\ w.fresh = (asked.batch = <<>> /\ asked.open = <<>>)

(* A call that is rejected leaves the writer as it was, but for the array   *)
(* that annotations are kept in: what follows is written as if it had not   *)
(* been made.                                                               *)
RejectedLeavesNoTrace ==
  [][res' # "ok" => w' = [w EXCEPT !.limit = w'.limit, !.used = w'.used]]_vars
=============================================================================
