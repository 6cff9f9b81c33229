--------------------------- MODULE IonTextReader ---------------------------
(***************************************************************************)
(* ion_reader_text.c: a pull parser over the tokens of the scanner.  The   *)
(* reader is a record: cont, type, sub and state say where it is and what  *)
(* it is on, stack the types of the containers around cont.                *)
(***************************************************************************)
EXTENDS IonScanner

CONSTANTS
  MaxAnnotations, \* _annotation_string_pool_length
  Markers         \* the symbols that look like version markers: is it ours?

(* The names of a symbol's or string's bytes. *)
NameOf(bytes) == FoldLeft(LAMBDA name, b : name \o b, "", bytes)

(* Read all of the value into a buffer of the reader, or fail. *)
ReadBuffered(s, sub, error) ==
  ThenVal(ReadAsString(s, sub, BufferLen), LAMBDA u, got :
    IF got.eos THEN Ok(u, got.bytes) ELSE Fails(u, error))

-----------------------------------------------------------------------------
(* What follows a value. *)

(* NUMERIC_STOP_CHARACTERS; a comment does not end a number. *)
NumericStops == {"{", "}", "[", "]", "(", ")", ",", "\"", "'", "ws", "nl", "eof"}

(* What begins the next value of the container. *)
Begin(s) == [s EXCEPT !.state = IF s.cont = "struct" THEN "before field" ELSE "before uta"]

PastComma(s, sub) == IF sub[1] = "," THEN ScannerNext(s) ELSE Ok(s, sub)

(* _ion_reader_text_check_follow_token: what is no end is unread. *)
CheckFollow(s) ==
  IF s.type \in {"int", "other"} /\ Char(s)[1] \notin NumericStops THEN Fails(s, "invalid syntax")
  ELSE ThenVal(ScannerNext(s), LAMBDA u, sub :
    IF ~MayFollow(sub, s.cont) THEN Fails(u, "invalid syntax")
    ELSE ThenVal(PastComma(u, sub), LAMBDA v, next :
      IF next[1] = (IF s.cont = "datagram" THEN "eof" ELSE Closers[s.cont])
        THEN Ok([v EXCEPT !.state = "eof"], "end")
      ELSE IF next[1] = "op" /\ s.cont # "sexp" THEN Fails(v, "invalid syntax")
      ELSE Ok(Begin(ScannerUnNext(v, next)), "more")))

-----------------------------------------------------------------------------
(* What leads a value. *)

(* Mutant of ResetTextValue: the annotations stay. *)
ResetTextValueBarely(s) == [ScannerResetValue(s) EXCEPT !.field = "none", !.type = "none", !.sub = <<"none">>]

(* _ion_reader_text_reset_value. *)
ResetTextValue(s) ==
  [ScannerResetValue(s) EXCEPT !.anns = <<>>, !.field = "none", !.type = "none", !.sub = <<"none">>]

(* _ion_reader_text_load_fieldname: the end of the struct comes instead.   *)
LoadFieldName(s) ==
  ThenVal(ScannerNext(s), LAMBDA u, sub :
    IF sub[1] = "}" THEN Ok(u, sub)
    ELSE IF sub[1] \notin {"symbol", "quoted", "string", "long string"} THEN Fails(u, "invalid fieldname")
    ELSE ThenVal(ReadBuffered(u, sub, "token too long"), LAMBDA v, bytes :
      ThenVal(ScannerNext(v), LAMBDA x, colon :
        IF colon[1] = ":" THEN Ok([x EXCEPT !.field = NameOf(bytes)], colon)
        ELSE Fails(x, "invalid fieldname"))))

(* The errors of a token in the place of a value. *)
Misplaced(sub, cont) ==
  \/ sub[1] = "op" /\ cont # "sexp"
  \/ sub[1] = "eof" /\ cont # "datagram"
  \/ sub[1] \in {"}", "]", ")"} /\ (cont = "datagram" \/ sub[1] # Closers[cont])

(* The inner loop of _ion_reader_text_load_utas: symbols with two colons   *)
(* behind them are annotations, one without is the value.  An annotation   *)
(* leaves the length of its text as that of the image.                     *)
RECURSIVE LoadAnnotations(_)
LoadAnnotations(s) ==
  ThenVal(ScannerNext(s), LAMBDA u, sub :
    IF Misplaced(sub, s.cont) THEN Fails(u, "invalid token")
    ELSE IF sub[1] \notin {"symbol", "quoted"} THEN Ok(u, sub)
    ELSE ThenVal(ReadBuffered(u, sub, "token too long"), LAMBDA v, bytes :
      ThenVal(PeekDoubleColon(v), LAMBDA x, colons :
        IF ~colons /\ bytes = <<>> THEN Fails(x, "invalid symbol")
        ELSE IF ~colons THEN Ok([x EXCEPT !.image = <<NameOf(bytes)>>, !.loc = "image"], sub)
        ELSE IF Len(x.anns) >= MaxAnnotations THEN Fails(x, "too many annotations")
        ELSE LoadAnnotations([x EXCEPT !.image = bytes, !.anns = Append(@, NameOf(bytes))]))))

-----------------------------------------------------------------------------
(* Containers. *)

(* _ion_reader_text_step_in: the value stays the container. *)
TextStepIn(s) ==
  IF s.state # "before container" THEN Fails(s, "invalid state")
  ELSE Ok([Begin([s EXCEPT !.cont = s.type]) EXCEPT !.stack = <<s.cont>> \o @, !.depth = @ + 1], "in")

(* _ion_reader_text_step_out: a container that the reader is on is skipped *)
(* first, then what is left of the one it is in.                           *)
TextStepOut(s) ==
  IF s.stack = <<>> THEN Fails(s, "stack underflow")
  ELSE Then(IF s.state # "after value" /\ s.sub[1] \in Containers
              THEN SkipValueContents(s, s.sub) ELSE Ok(s, "out"), LAMBDA u :
       Then(IF u.type # Eof THEN SkipValueContents(u, <<u.cont>>) ELSE Ok(u, "out"), LAMBDA v :
         Ok([v EXCEPT !.type = v.cont, !.sub = <<v.cont>>, !.state = "after value",
                      !.cont = Head(v.stack), !.stack = Tail(@), !.depth = @ - 1], "out")))

-----------------------------------------------------------------------------
(* Strings. *)

(* _ion_reader_text_load_string_in_value_buffer. *)
LoadString(s) ==
  IF s.loc # "stream" THEN Ok(s, s.image)
  ELSE ThenVal(ReadBuffered(s, s.sub, "buffer too small"), LAMBDA u, bytes :
         Ok([u EXCEPT !.image = bytes, !.loc = "image"], bytes))

TextHasNull(s) == s.sub[1] = "null"

(* The checks of the reads of a value of the types. *)
ReadOf(s, types, Op(_)) ==
  IF s.state = "error" \/ BaseType(s.sub) \notin types THEN Fails(s, "invalid state")
  ELSE IF TextHasNull(s) THEN Fails(s, "null value")
  ELSE Op(s)

(* A symbol unknown so far gets an id, in a table of the reader's own. *)
InternSymbol(s, name) ==
  LET t == IF s.table.locked
             THEN [T!CloneTable(s.table, "reader", T!System, Self) EXCEPT !.name = T!None, !.version = 0]
             ELSE s.table
  IN IF T!SidOfName(s.table, name) # T!Unknown THEN Ok(s, name)
     ELSE ThenTable(s, T!AddSymbol(t, name, Self), LAMBDA u, table : Ok([u EXCEPT !.table = table], name))

(* _ion_reader_text_read_string: there is no image of a string whose end   *)
(* was seen in a piece.                                                    *)
TextReadString(s) ==
  ReadOf(s, {"string", "symbol"}, LAMBDA t :
    ThenVal(LoadString(t), LAMBDA u, bytes :
      IF u.loc = "none" THEN Fails(u, "null value")
      ELSE IF BaseType(u.sub) = "string" THEN Ok(u, bytes)
      ELSE ThenVal(InternSymbol(u, bytes[1]), LAMBDA v, name : Ok(v, <<name>>))))

(* The first n bytes of an image: its length becomes that of the piece     *)
(* taken, not of the rest.                                                 *)
FromImage(s, n) ==
  LET rest == SubSeq(s.image, n + 1, Len(s.image))
      left == [i \in 1..n |-> IF i <= Len(rest) THEN rest[i] ELSE "stale"]
  IN IF n < Len(s.image) THEN Ok([s EXCEPT !.image = left], SubSeq(s.image, 1, n))
     ELSE Ok([s EXCEPT !.image = <<>>], s.image)

(* _ion_reader_text_read_string_bytes. *)
TextReadPart(s, n) ==
  ReadOf(s, {"string", "symbol"}, LAMBDA t :
    CASE t.loc = "image"  -> FromImage(t, n)
      [] t.loc = "stream" -> ThenVal(ReadAsString(t, t.sub, n), LAMBDA u, got : Ok(u, got.bytes))
      [] t.loc = "none"   -> Ok(t, <<>>))

(* _ion_reader_text_get_string_length. *)
TextStringLength(s) ==
  ReadOf(s, {"string", "symbol"}, LAMBDA t : ThenVal(LoadString(t), LAMBDA u, bytes : Ok(u, Len(bytes))))

(* Lobs are read from the stream as what they are. *)
ReadAsLob(s, room) ==
  IF s.sub[1] = "blob" THEN ReadAsBase64(s, room) ELSE ReadAsString(s, s.sub, room)

(* _ion_reader_text_get_lob_size: the size of any image. *)
TextLobSize(s) ==
  IF s.state = "error" THEN Fails(s, "invalid state")
  ELSE IF TextHasNull(s) THEN Fails(s, "null value")
  ELSE IF s.loc = "image" THEN Ok(s, Len(s.image))
  ELSE IF s.loc = "none" \/ BaseType(s.sub) # "lob" THEN Fails(s, "invalid state")
  ELSE ThenVal(ReadAsLob(s, BufferLen), LAMBDA u, got :
         IF got.eos THEN Ok([u EXCEPT !.image = got.bytes, !.loc = "image"], Len(got.bytes))
         ELSE Fails(u, "lookahead overflow"))

(* _ion_reader_text_read_lob_bytes. *)
TextReadLob(s, partial, n) ==
  ReadOf(s, {"lob"}, LAMBDA t :
    CASE t.loc = "image" ->
           IF Len(t.image) > n /\ ~partial THEN Fails(t, "buffer too small") ELSE FromImage(t, n)
      [] t.loc = "none"   -> Ok(t, <<>>)
      [] t.loc = "stream" ->
           ThenVal(ReadAsLob(t, n), LAMBDA u, got :
             IF ~got.eos /\ ~partial THEN Fails(u, "buffer too small") ELSE Ok(u, got.bytes)))

-----------------------------------------------------------------------------
(* Other values, whose images stay. *)

(* _ion_reader_text_read_null. *)
TextReadNull(s) ==
  IF s.state # "error" /\ TextHasNull(s) THEN Ok(s, s.type) ELSE Fails(s, "invalid state")

(* _ion_reader_text_read_bool. *)
TextReadBool(s) ==
  IF s.state # "error" /\ s.sub[1] = "bool" THEN Ok(s, <<s.sub[2]>>) ELSE Fails(s, "invalid state")

(* _ion_reader_text_read_int64 and _read_int32, of numbers that fit.       *)
TextReadInt(s, fits) ==
  ReadOf(s, {"int"}, LAMBDA t : IF t.sub[4] > fits THEN Fails(t, "numeric overflow") ELSE Ok(t, t.image))

(* _ion_reader_text_read_ion_int_helper. *)
TextReadIonInt(s) == ReadOf(s, {"int"}, LAMBDA t : Ok(t, t.image))

(* _ion_reader_text_read_double, _decimal and _timestamp. *)
TextReadOther(s) ==
  ReadOf(s, {"other"}, LAMBDA t : Ok(t, IF t.sub[1] = "nan" THEN <<"nan">> ELSE t.image))

(* _ion_reader_text_read_symbol_sid, as the name it stands for; a symbol   *)
(* without an id stands for itself.                                        *)
TextReadSymbolSid(s) ==
  ReadOf(s, {"symbol"}, LAMBDA t :
    ThenVal(LoadString(t), LAMBDA u, bytes :
      LET table == T!IndexIfLarge(u.table).t
          sid   == T!SidOfName(table, bytes[1])
      IN Ok([u EXCEPT !.table = table], IF sid = T!Unknown THEN bytes ELSE <<TextOfSid(table, sid)>>)))

(* What callers may ask of the value at any time.                          *)
Asked(s, val) == IF s.state = "error" THEN Fails(s, "invalid state") ELSE Ok(s, val)

(* _ion_reader_text_get_depth, _get_type, _is_null, _get_field_name,       *)
(* _has_any_annotations, _has_annotation, _get_annotation_count.           *)
TextGetDepth(s) == Asked(s, Len(s.stack))
TextGetType(s)  == Asked(s, s.type)
TextIsNull(s)   == Asked(s, TextHasNull(s))
TextGetFieldName(s) == Asked(s, s.field)
TextHasAnyAnnotations(s) == Asked(s, s.anns # <<>>)
TextHasAnnotation(s, name) == \E i \in DOMAIN s.anns : s.anns[i] = name
TextAnnotationCount(s) == Asked(s, Len(s.anns))

(* _ion_reader_text_get_an_annotation, _get_annotations. *)
TextAnAnnotation(s, i) == IF i > Len(s.anns) THEN Fails(s, "invalid arg") ELSE Asked(s, s.anns[i])
TextAnnotations(s, room) == IF Len(s.anns) > room THEN Fails(s, "buffer too small") ELSE Asked(s, s.anns)

(* _ion_reader_text_get_annotation_sids: ids of the current table.         *)
TextAnnotationSids(s, room) ==
  IF Len(s.anns) > room THEN Fails(s, "invalid arg")
  ELSE Ok(s, [i \in DOMAIN s.anns |-> T!SidOfName(T!IndexIfLarge(s.table).t, s.anns[i])])
-----------------------------------------------------------------------------
(* Values, and symbol tables in the text, read with the calls above.       *)

RECURSIVE TextNext(_)

FieldSid(s) ==
  IF s.field = "none" THEN T!Unknown ELSE T!SidOfName(T!IndexIfLarge(s.table).t, s.field)
IsField(s, name) == FieldSid(s) = SystemSid(name)

ImportFieldGiven(s, import) ==
  \/ IsField(s, "name") /\ import.name # T!None
  \/ IsField(s, "version") /\ import.version # 0
  \/ IsField(s, "max_id") /\ import.maxId # 0

(* A field of an import; a max_id that is null or negative is none.        *)
VisitImportField(s, import, type) ==
  CASE ImportFieldGiven(s, import) -> Fails(s, "invalid symbol table")
    [] ~ImportFieldGiven(s, import) /\ IsField(s, "name") /\ type = "string" ->
         ThenVal(TextReadString(s), LAMBDA u, bytes : Ok(u, [import EXCEPT !.name = NameOf(bytes)]))
    [] ~ImportFieldGiven(s, import) /\ IsField(s, "version") /\ type = "int" ->
         ThenVal(TextReadInt(s, Int32Len), LAMBDA u, n :
           IF n[1] < 1 THEN Fails(u, "invalid symbol table") ELSE Ok(u, [import EXCEPT !.version = n[1]]))
    [] ~ImportFieldGiven(s, import) /\ IsField(s, "max_id") /\ type = "int" /\ ~TextHasNull(s) ->
         ThenVal(TextReadInt(s, Int32Len), LAMBDA u, n :
           Ok(u, IF n[1] >= 0 THEN [import EXCEPT !.maxId = n[1]] ELSE import))
    [] OTHER -> Ok(s, import)

(* All values of a container: what is read into acc depends on the kind.   *)
RECURSIVE LoadEach(_, _, _)
LoadInside(s, kind, acc) ==
  Then(TextStepIn(s), LAMBDA u :
    ThenVal(LoadEach(u, kind, acc), LAMBDA v, new : Then(TextStepOut(v), LAMBDA x : Ok(x, new))))

(* _ion_symbol_table_local_load_import_list: the structs of the list.      *)
VisitImport(s, imports, type) ==
  IF type # "struct" THEN Ok(s, imports)
  ELSE ThenVal(LoadInside(s, "import", [name |-> T!None, version |-> 0, maxId |-> 0]), LAMBDA u, import :
         Ok(u, Append(imports, import)))

(* _ion_symbol_table_local_load_symbol_list and _struct: the strings.      *)
VisitSymbol(s, symbols, type, sid) ==
  IF type # "string" THEN Ok(s, symbols)
  ELSE ThenVal(TextReadString(s), LAMBDA u, bytes :
         Ok(u, Append(symbols, [value |-> NameOf(bytes), sid |-> sid, home |-> T!Nowhere])))

(* The fields of a local table that count. *)
VisitTableField(s, draft, type) ==
  CASE IsField(s, "imports") /\ type = "list" ->
         ThenVal(LoadInside(s, "imports", draft.imports), LAMBDA u, l : Ok(u, [draft EXCEPT !.imports = l]))
    [] IsField(s, "symbols") /\ type \in {"list", "struct"} ->
         ThenVal(LoadInside(s, type, draft.symbols), LAMBDA u, l : Ok(u, [draft EXCEPT !.symbols = l]))
    [] OTHER -> Ok(s, draft)

Visit(s, kind, acc, type) ==
  CASE kind = "table"   -> VisitTableField(s, acc, type)
    [] kind = "imports" -> VisitImport(s, acc, type)
    [] kind = "import"  -> VisitImportField(s, acc, type)
    [] kind = "list"    -> VisitSymbol(s, acc, type, T!Unknown)
    [] kind = "struct"  -> VisitSymbol(s, acc, type, FieldSid(s))

LoadEach(s, kind, acc) ==
  ThenVal(TextNext(s), LAMBDA u, type :
    IF type = Eof THEN Ok(u, acc)
    ELSE ThenVal(Visit(u, kind, acc, type), LAMBDA v, new : LoadEach(v, kind, new)))

(* The symbols without an id get the next ones. *)
NumberSymbols(t) ==
  LET new == {i \in DOMAIN t.symbols : t.symbols[i].sid = T!Unknown}
      Sid(i) == t.maxId + Cardinality({j \in new : j <= i})
  IN [t EXCEPT !.hasLocal = \E i \in DOMAIN t.symbols : t.symbols[i].home = T!Nowhere,
               !.maxId = @ + Cardinality(new),
               !.symbols = [i \in DOMAIN @ |->
                 [@[i] EXCEPT !.sid  = IF i \in new THEN Sid(i) ELSE @,
                              !.home = IF @ = T!Nowhere THEN Self ELSE @]]]

(* The symbols are in the list while the imports are added. *)
TableOf(draft) ==
  LET open == T!OpenTable("reader", Self)
      listed == [open EXCEPT !.imports = draft.imports, !.symbols = @ \o draft.symbols]
  IN T!Then(FoldLeft(LAMBDA x, import : T!Then(x, LAMBDA t : Imported(t, import)),
                     T!Ok(listed), draft.imports),
            LAMBDA t : T!InitIndices(IF draft.symbols = <<>> THEN t ELSE NumberSymbols(t)))

(* _ion_symbol_table_load_helper: the reader is made to be on a struct.    *)
LoadTextTable(s) ==
  ThenVal(LoadInside([s EXCEPT !.state = "before container", !.type = "struct"],
                     "table", [imports |-> <<>>, symbols |-> <<>>]), LAMBDA u, draft :
    ThenTable(u, TableOf(draft), LAMBDA v, t : Ok([v EXCEPT !.table = t], "loaded")))

(* _ion_reader_text_check_for_system_values_to_skip_or_process. *)
IsMarker(s, sub) == sub[1] = "symbol" /\ s.anns = <<>> /\ s.image[1] \in DOMAIN Markers
IsTextTable(s, sub) == sub[1] = "struct" /\ TextHasAnnotation(s, "$ion_symbol_table")

(* _ion_reader_text_load_utas. *)
RECURSIVE LoadUtas(_)
LoadUtas(s) ==
  ThenVal(LoadAnnotations(s), LAMBDA u, sub :
    IF s.cont = "datagram" /\ IsMarker(u, sub)
      THEN IF Markers[u.image[1]] THEN LoadUtas([u EXCEPT !.table = SystemTable])
           ELSE Fails(u, "invalid ion version")
    ELSE IF s.cont = "datagram" /\ IsTextTable(u, sub) THEN Then(LoadTextTable(u), LoadUtas)
    ELSE IF sub[1] = "{{" THEN DistinguishLob(u)
    ELSE Ok(u, sub))

LoadFieldAndUtas(s) ==
  ThenVal(LoadFieldName(s), LAMBDA u, sub : IF sub[1] = "}" THEN Ok(u, sub) ELSE LoadUtas(u))

(* What the caller left of the value. *)
PassTextValue(s) ==
  IF s.state \notin {"before scalar", "before container"} THEN Ok(s, "passed")
  ELSE Then(SkipValueContents(s, s.sub), LAMBDA u : Ok([u EXCEPT !.state = "after value"], "passed"))

FollowValue(s) == IF s.state = "after value" THEN CheckFollow(s) ELSE Ok(s, "passed")

LeadValue(s) ==
  CASE s.state = "eof"          -> Ok(s, EndOfText)
    [] s.state = "before field" -> LoadFieldAndUtas(s)
    [] s.state = "before uta"   -> LoadUtas(s)
    [] OTHER                    -> Fails([s EXCEPT !.state = "error"], "invalid state")

SetTextValue(s, sub) ==
  LET u == [s EXCEPT !.type = BaseType(sub), !.sub = sub, !.state = FollowState(sub)]
  IN IF u.state = "error" THEN Fails(u, "invalid syntax") ELSE Ok(u, u.type)

(* _ion_reader_text_next. *)
TextNext(s) ==
  Then(PassTextValue(s), LAMBDA t :
    Then(FollowValue(t), LAMBDA u :
      ThenVal(LeadValue(ResetTextValue(u)), SetTextValue)))

(* _ion_reader_text_open. *)
OpenText ==
  [pos |-> 0, state |-> "before uta", cont |-> "datagram", stack |-> <<>>, depth |-> 0,
   type |-> "none", sub |-> <<"none">>, field |-> "none", anns |-> <<>>, loc |-> "none",
   image |-> <<>>, pending |-> <<>>, got |-> <<>>, unread |-> <<>>, table |-> SystemTable]

(* _ion_reader_text_reset, and _ion_reader_text_close and _open: the symbol *)
(* table stays.                                                            *)
TextReset(s) == [OpenText EXCEPT !.table = s.table, !.depth = s.depth]
=============================================================================
