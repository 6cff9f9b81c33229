-------------------------- MODULE IonBinaryReader --------------------------
(***************************************************************************)
(* ion_reader_binary.c: a pull parser over the bytes of binary Ion.  A     *)
(* byte position holds a token or the middle of one; reading anything but  *)
(* the token that is there, as a reader that is lost would, ends with the  *)
(* error "lost".                                                           *)
(***************************************************************************)
EXTENDS IonReading

CONSTANT Endless   \* ION_STREAM_MAX_LENGTH

Absent == -1

-----------------------------------------------------------------------------
(* The stream. *)

(* Where each token begins, each annotation being one of its own. *)
Parts(tok) ==
  IF Width(tok) = 0 THEN <<>>
  ELSE IF tok[1] = "sids" THEN [k \in DOMAIN tok[2] |-> <<"var", tok[2][k]>>]
  ELSE <<tok>>

LayOut(toks) ==
  LET Bytes(n) == UNION { {i} \X (1..Width(toks[i])) : i \in 1..n }
      begin == [i \in DOMAIN toks |-> Cardinality(Bytes(i - 1))]
      placed == UNION { { <<begin[i] + WidthAll(SubSeq(Parts(toks[i]), 1, k - 1)), Parts(toks[i])[k]>>
                            : k \in DOMAIN Parts(toks[i]) } : i \in DOMAIN toks }
  IN [kind |-> "binary", size |-> Cardinality(Bytes(Len(toks))),
      at |-> [p \in { x[1] : x \in placed } |-> (CHOOSE x \in placed : x[1] = p)[2]]]

Toks == input.at
Size == input.size

Token(s) == IF s.pos \in DOMAIN Toks THEN Toks[s.pos] ELSE <<"middle">>

Take(s, kinds) ==
  LET tok == Token(s)
  IN IF s.pos >= Size THEN Fails(s, "unexpected eof")
     ELSE IF tok[1] \in kinds THEN Ok([s EXCEPT !.pos = @ + Width(tok)], tok)
     ELSE Fails(s, "lost")

ReadVarUint(s) == ThenVal(Take(s, {"var"}), LAMBDA u, tok : Ok(u, tok[2]))

(* ion_stream_skip, of all or nothing. *)
SkipOver(s, n) ==
  IF s.pos + n > Size THEN Fails([s EXCEPT !.pos = Size], "unexpected eof")
  ELSE Ok([s EXCEPT !.pos = @ + n], "skipped")

-----------------------------------------------------------------------------
(* Headers. *)

(* _ion_reader_binary_local_read_length. *)
ReadLength(s, td) ==
  IF td[2] \in {"null", "bool"} \/ td[3] = NullLen THEN Ok(s, 0)
  ELSE IF td[3] = VarLen \/ (td[2] = "struct" /\ td[3] = 1) THEN ReadVarUint(s)
  ELSE Ok(s, td[3])

(* at_eof. *)
AtEof(s) == Ok([s EXCEPT !.eof = TRUE, !.type = Eof], Eof)

(* The annotations up to end, pushed one by one on the head of the list.   *)
RECURSIVE ReadSids(_, _)
ReadSids(s, end) ==
  IF s.pos >= end THEN Ok(s, s.anns)
  ELSE ThenVal(ReadVarUint(s), LAMBDA u, sid : ReadSids([u EXCEPT !.anns = <<sid>> \o @], end))

SetValue(s, start, len) ==
  Ok([s EXCEPT !.state = "before contents", !.start = start, !.len = len, !.type = s.td[2]],
     s.td[2])

(* The value at the position, without annotations. *)
PlainHeader(s) ==
  ThenVal(Take([s EXCEPT !.annStart = Absent], {"td"}), LAMBDA u, td :
    ThenVal(ReadLength([u EXCEPT !.td = td], td), LAMBDA v, len : SetValue(v, s.pos, len)))

(* The wrapped value must end where the wrapper says. *)
WrappedValue(s, end) ==
  ThenVal(Take(s, {"td"}), LAMBDA u, td :
    IF td[2] = "uta" THEN Fails(u, "invalid binary")
    ELSE ThenVal(ReadLength([u EXCEPT !.td = td], td), LAMBDA v, len :
           IF v.pos + len # end THEN Fails(v, "invalid binary") ELSE SetValue(v, s.pos, len)))

AnnotatedHeader(s) ==
  ThenVal(Take([s EXCEPT !.annStart = s.pos], {"td"}), LAMBDA u, td :
    ThenVal(ReadLength(u, td), LAMBDA v, len :
      ThenVal(ReadVarUint(v), LAMBDA x, annLen :
        IF annLen < 1 THEN Fails(x, "invalid binary")
        ELSE ThenVal(ReadSids(x, x.pos + annLen), LAMBDA y, sids :
               WrappedValue(y, v.pos + len)))))

ReadHeader(s) ==
  IF Token(s)[1] = "td" /\ Token(s)[2] = "uta" THEN AnnotatedHeader(s) ELSE PlainHeader(s)

Reset(s) == [s EXCEPT !.anns = <<>>]

ReadField(s) ==
  IF s.inStruct
    THEN ThenVal(ReadVarUint(Reset(s)), LAMBDA u, sid : Ok([u EXCEPT !.field = sid], sid))
    ELSE Ok([Reset(s) EXCEPT !.field = Absent], Absent)

(* What the caller left of the value is skipped. *)
PassValue(s) ==
  IF s.state = "before contents" THEN SkipOver(s, s.len) ELSE Ok(s, "passed")

(* _ion_reader_binary_next inside a container. *)
NextInside(s) ==
  IF s.eof THEN AtEof(s)
  ELSE Then(PassValue(s), LAMBDA u :
         IF u.pos >= u.localEnd THEN AtEof(u) ELSE Then(ReadField(u), ReadHeader))

-----------------------------------------------------------------------------
(* Containers. *)

FitsContainer(s, len) == s.localEnd < 0 \/ s.pos + len <= s.localEnd

(* _ion_reader_binary_step_in. *)
EnterContainer(s) ==
  IF s.state # "before contents" \/ s.td[2] \notin Containers THEN Fails(s, "invalid state")
  ELSE IF ~FitsContainer(s, s.len) THEN Fails(s, "unexpected eof")
  ELSE Ok([s EXCEPT !.stack = <<[next |-> s.pos + s.len, parent |-> s.parent, localEnd |-> s.localEnd]>> \o @,
                    !.localEnd = s.pos + s.len,
                    !.state = "before tid",
                    !.parent = s.td[2],
                    !.inStruct = s.td[2] = "struct"], "in")

(* Mutant of BackIn: the end of the container stays in force.              *)
BackInOpen(s) ==
  LET p == Head(s.stack)
  IN [s EXCEPT !.parent = p.parent, !.inStruct = p.parent = "struct", !.stack = Tail(@)]

BackIn(s) ==
  LET p == Head(s.stack)
  IN [s EXCEPT !.parent = p.parent, !.localEnd = p.localEnd, !.inStruct = p.parent = "struct",
               !.stack = Tail(@)]

(* _ion_reader_binary_step_out: behind the end of the container only at    *)
(* the top level.                                                          *)
LeaveContainer(s) ==
  IF s.stack = <<>> THEN Fails(s, "stack underflow")
  ELSE LET gap == Head(s.stack).next - s.pos
       IN IF (gap < 0 /\ Len(s.stack) > 1) \/ (s.eof /\ gap > 0) THEN Fails(s, "assertion")
          ELSE Then(IF gap > 0 THEN SkipOver(BackIn(s), gap) ELSE Ok(BackIn(s), "out"),
                    LAMBDA u : Ok([u EXCEPT !.state = "before tid", !.eof = FALSE], "out"))

(* The calls of ion_reader.c keep a depth of their own. *)
StepInHelper(s)  == Then(EnterContainer(s), LAMBDA u : Ok([u EXCEPT !.depth = @ + 1], "in"))
StepOutHelper(s) == Then(LeaveContainer(s), LAMBDA u : Ok([u EXCEPT !.depth = @ - 1], "out"))

-----------------------------------------------------------------------------
(* Contents. *)

OnValue(s, types) == s.state = "before contents" /\ s.td[2] \in types
HasNull(s) == s.td[2] = "null" \/ s.td[3] = NullLen

(* A number without bytes is zero. *)
NoBytes(s) == IF s.td[2] \in {"int", "symbol"} THEN <<"int", 0, 0>> ELSE <<"bytes", 0>>

(* What all the reads of whole scalars do. *)
ReadWhole(s, kinds) ==
  IF ~FitsContainer(s, s.len) THEN Fails(s, "unexpected eof")
  ELSE ThenVal(IF s.len = 0 THEN Ok(s, NoBytes(s)) ELSE Take(s, kinds), LAMBDA u, tok :
         Ok([u EXCEPT !.state = "before tid"],
            IF tok[1] = "bytes" THEN [i \in 1..tok[2] |-> "byte"] ELSE <<tok[2]>>))

(* _ion_reader_binary_read_double, _decimal and _timestamp. *)
ReadOther(s) ==
  IF ~OnValue(s, {"other"}) THEN Fails(s, "invalid state")
  ELSE IF HasNull(s) THEN Fails(s, "null value")
  ELSE ReadWhole(s, {"bytes"})

(* _ion_reader_binary_read_int64. *)
ReadInt64(s) ==
  IF ~OnValue(s, {"int"}) THEN Fails(s, "invalid state")
  ELSE IF HasNull(s) THEN Fails(s, "null value")
  ELSE IF s.len > Int64Len THEN Fails(s, "numeric overflow")
  ELSE ReadWhole(s, {"int"})

(* _ion_reader_binary_read_int32: the value is passed when it does not fit. *)
ReadInt32(s) ==
  ThenVal(ReadInt64(s), LAMBDA u, val :
    IF s.len > Int32Len THEN Fails(u, "numeric overflow") ELSE Ok(u, val))

(* _ion_reader_binary_read_ion_int: a null reads as zero. *)
ReadIonInt(s) ==
  IF ~OnValue(s, {"int"}) THEN Fails(s, "invalid state") ELSE ReadWhole(s, {"int"})

(* _ion_reader_binary_read_bool. *)
ReadBool(s) ==
  IF ~OnValue(s, {"bool"}) THEN Fails(s, "invalid state")
  ELSE IF HasNull(s) THEN Fails(s, "null value")
  ELSE Ok([s EXCEPT !.state = "before tid"], <<s.td[3]>>)

(* _ion_reader_binary_read_null. *)
ReadNull(s) ==
  IF s.state # "before contents" THEN Fails(s, "invalid state")
  ELSE IF s.td[3] # NullLen THEN Fails(s, "invalid token")
  ELSE Ok([s EXCEPT !.state = "before tid"], s.type)

(* _ion_reader_binary_read_symbol_sid. *)
ReadSymbolSid(s) ==
  IF ~OnValue(s, {"symbol"}) THEN Fails(s, "invalid state")
  ELSE IF HasNull(s) THEN Fails(s, "null value")
  ELSE IF FitsContainer(s, s.len) /\ s.len > Int32Len THEN Fails(s, "numeric overflow")
  ELSE ReadWhole(s, {"sid"})

(* A byte announces how many more its character has; those say -1.         *)
(* Reading goes on with a character of which e bytes are to come.          *)
NextByte(e, b) == IF e < 0 THEN e ELSE IF e > 0 THEN (IF b = -1 THEN e - 1 ELSE -1) ELSE b

(* _ion_reader_binary_validate_utf8: expect bytes of a character were to   *)
(* come when the last piece ended; a piece that ends before they do counts *)
(* one of them too many.                                                   *)
Validate(s, piece) ==
  LET left == FoldLeft(NextByte, s.expect, piece)
      cut  == Len(piece) < s.expect
  IN IF left < 0 THEN Fails(s, "invalid utf8")
     ELSE Ok([s EXCEPT !.expect = IF cut THEN left - 1 ELSE left], piece)

(* n bytes from the position on, all of one string or lob.                 *)
TextAt(s) == CHOOSE p \in DOMAIN Toks :
               /\ p <= s.pos /\ s.pos < p + Width(Toks[p])
BytesAt(s, n) ==
  LET p == TextAt(s)  tok == Toks[p]
  IN IF n = 0 THEN <<>>
     ELSE IF tok[1] = "text" THEN SubSeq(tok[3], s.pos - p + 1, s.pos - p + n)
     ELSE [i \in 1..n |-> "byte"]

Consumed(s, n) ==
  IF n < s.len THEN [s EXCEPT !.len = @ - n] ELSE [s EXCEPT !.state = "before tid"]

(* _ion_reader_binary_read_string_bytes. *)
ReadStringBytes(s, partial, max) ==
  LET n == IF s.len <= max THEN s.len ELSE max
  IN IF ~OnValue(s, {"string"}) THEN Fails(s, "invalid state")
     ELSE IF HasNull(s) THEN Ok(s, <<>>)
     ELSE IF max < s.len /\ ~partial THEN Fails(s, "buffer too small")
     ELSE IF ~FitsContainer(s, n) THEN Fails(s, "unexpected eof")
     ELSE ThenVal(Validate([s EXCEPT !.pos = @ + n], BytesAt(s, n)),
                  LAMBDA u, piece : Ok(Consumed(u, n), piece))

(* _ion_reader_binary_read_string. *)
ReadString(s) ==
  IF ~OnValue(s, {"string", "symbol"}) THEN Fails(s, "invalid state")
  ELSE ThenVal(IF HasNull(s) THEN Ok(s, <<>>)
               ELSE IF s.td[2] = "string" THEN ReadStringBytes(s, FALSE, s.len)
               ELSE ThenVal(ReadSymbolSid(s), LAMBDA u, val :
                      IF val[1] <= T!Unknown THEN Fails(u, "invalid symbol")
                      ELSE ThenVal(NameOfSid(u, val[1]), LAMBDA v, name : Ok(v, <<name>>))),
               LAMBDA u, val : Ok([u EXCEPT !.state = "before tid"], val))

(* The text of a string as a name. *)
ReadName(s) ==
  ThenVal(ReadString(s), LAMBDA u, val : Ok(u, IF s.td[2] = "symbol" THEN val[1] ELSE Token(s)[2]))

(* _ion_reader_binary_read_lob_bytes: nothing is read of any value that    *)
(* has no bytes left.                                                      *)
ReadLobBytes(s, partial, max) ==
  LET n == IF s.len <= max THEN s.len ELSE max
  IN IF s.len = 0 THEN Ok(s, <<>>)
     ELSE IF ~OnValue(s, {"lob"}) THEN Fails(s, "invalid state")
     ELSE IF HasNull(s) THEN Fails(s, "null value")
     ELSE IF max < s.len /\ ~partial THEN Fails(s, "buffer too small")
     ELSE IF ~FitsContainer(s, n) THEN Fails(s, "unexpected eof")
     ELSE Ok([s EXCEPT !.pos = @ + n, !.len = @ - n,
                       !.state = IF s.len = n THEN "before tid" ELSE @], BytesAt(s, n))

-----------------------------------------------------------------------------
(* Symbol tables in the stream: read with the calls above.                 *)

(* _ion_reader_binary_get_local_symbol_table_helper. *)
LocalOr(local) == IF local = NoSymtab THEN T!OpenTable("reader", Self) ELSE local

(* The import as it was asked for is noted as well. *)
AddImport(local, import) == Imported([local EXCEPT !.imports = Append(@, import)], import)

(* The strings of the list of symbols, the others are passed over.         *)
RECURSIVE LoadSymbols(_, _, _, _)
LoadSymbols(s, local, manual, last) ==
  ThenVal(NextInside(s), LAMBDA u, type :
    IF type = Eof THEN Ok(u, local)
    ELSE IF type # "string" THEN LoadSymbols(u, local, manual, last)
    ELSE LET sid == IF manual THEN u.field ELSE last + 1
         IN ThenVal(ReadName(u), LAMBDA v, text :
              ThenTable(v, T!AddSymbolAndSid(local, text, sid, Self, Self),
                        LAMBDA x, t : LoadSymbols(x, t, manual, sid))))

(* The field of an import that the reader is on. *)
LoadImportField(s, import, type) ==
  CASE s.field = SystemSid("name") /\ type \in {"string", "symbol"} ->
         ThenVal(ReadName(s), LAMBDA u, name : Ok(u, [import EXCEPT !.name = name]))
    [] s.field = SystemSid("version") /\ type = "int" ->
         ThenVal(ReadInt32(s), LAMBDA u, n : Ok(u, [import EXCEPT !.version = n[1]]))
    [] s.field = SystemSid("max_id") /\ type = "int" /\ ~HasNull(s) ->
         ThenVal(ReadInt32(s), LAMBDA u, n :
           Ok(u, IF n[1] >= 0 THEN [import EXCEPT !.maxId = n[1]] ELSE import))
    [] OTHER -> Ok(s, import)

RECURSIVE LoadImportFields(_, _)
LoadImportFields(s, import) ==
  ThenVal(NextInside(s), LAMBDA u, type :
    IF type = Eof THEN Ok(u, import)
    ELSE ThenVal(LoadImportField(u, import, type), LoadImportFields))

(* _ion_reader_binary_local_load_symbol_table_import. *)
LoadImport(s, local) ==
  Then(StepInHelper(s), LAMBDA u :
    ThenVal(LoadImportFields(u, [name |-> T!None, version |-> -1, maxId |-> -1]), LAMBDA v, import :
      ThenTable(v, AddImport(local, import), LAMBDA x, t :
        Then(StepOutHelper(x), LAMBDA y : Ok(y, t)))))

(* _ion_reader_binary_local_load_symbol_table_import_list. *)
RECURSIVE LoadImports(_, _)
LoadImports(s, local) ==
  ThenVal(NextInside(s), LAMBDA u, type :
    IF type = Eof THEN Ok(u, local)
    ELSE IF type = "struct"
      THEN ThenVal(LoadImport(u, local), LAMBDA v, t : LoadImports(v, t))
    ELSE LoadImports(u, local))

(* Step into a list of the table, load it, and step out. *)
LoadList(s, Load(_)) ==
  Then(StepInHelper(s), LAMBDA u :
    ThenVal(Load(u), LAMBDA v, t : Then(StepOutHelper(v), LAMBDA x : Ok(x, t))))

(* The field the reader is on.  Symbols in a struct need a table that is   *)
(* there already.                                                          *)
LoadTableField(s, local, type) ==
  CASE s.field = SystemSid("max_id") ->
         ThenVal(ReadInt32(s), LAMBDA u, n : Ok(u, [LocalOr(local) EXCEPT !.maxId = n[1]]))
    [] s.field = SystemSid("name") ->
         ThenVal(ReadName(s), LAMBDA u, name : Ok(u, [LocalOr(local) EXCEPT !.name = name]))
    [] s.field = SystemSid("version") ->
         ThenVal(ReadInt32(s), LAMBDA u, n : Ok(u, [LocalOr(local) EXCEPT !.version = n[1]]))
    [] s.field = SystemSid("imports") ->
         LoadList(s, LAMBDA u : LoadImports(u, LocalOr(local)))
    [] s.field = SystemSid("symbols") /\ type = "list" ->
         LoadList(s, LAMBDA u : LoadSymbols(u, LocalOr(local), FALSE, Len(LocalOr(local).symbols)))
    [] s.field = SystemSid("symbols") /\ type = "struct" ->
         IF local = NoSymtab THEN Fails(s, "crash")
         ELSE LoadList(s, LAMBDA u : LoadSymbols(u, local, TRUE, local.maxId))
    [] OTHER -> Ok(s, local)

RECURSIVE LoadTableFields(_, _)
LoadTableFields(s, local) ==
  ThenVal(NextInside(s), LAMBDA u, type :
    IF type = Eof THEN Ok(u, local)
    ELSE ThenVal(LoadTableField(u, local, type), LAMBDA v, t : LoadTableFields(v, t)))

(* _ion_reader_binary_local_load_symbol_table, the type descriptor of the  *)
(* struct read: "a cheap step in" that the depth does not count.           *)
LoadTable(s, td) ==
  ThenVal(ReadLength(s, td), LAMBDA u, len :
    Then(EnterContainer([u EXCEPT !.state = "before contents", !.td = td, !.len = len]), LAMBDA v :
      IF v.localEnd >= s.localEnd THEN Fails(v, "invalid binary")
      ELSE ThenVal(LoadTableFields(v, NoSymtab), LAMBDA x, local :
        Then(LeaveContainer(x), LAMBDA y :
          Ok([y EXCEPT !.eof = y.pos >= y.localEnd, !.table = local], "loaded")))))

-----------------------------------------------------------------------------
(* _ion_reader_binary_next at the top level. *)

(* _ion_reader_binary_local_process_possible_magic_cookie. *)
VersionMarker(s) ==
  Ok([s EXCEPT !.pos = @ + 4, !.table = SystemTable, !.state = "before tid"], "marker")

(* The annotations of the wrapper at the position: are they a table's?     *)
WrapperAt(s) ==
  ThenVal(Take(s, {"td"}), LAMBDA u, td :
    ThenVal(ReadLength(u, td), LAMBDA v, len :
      ThenVal(ReadVarUint(v), LAMBDA x, annLen : ReadSids([x EXCEPT !.anns = <<>>], x.pos + annLen))))

IsTable(x) ==
  /\ \E i \in DOMAIN x.val : x.val[i] = SystemSid("$ion_symbol_table")
  /\ Token(x.r)[1] = "td" /\ Token(x.r)[2] = "struct"

(* _ion_reader_binary_local_process_possible_symbol_table: under a mark,   *)
(* to which the stream goes back when it is none.                          *)
RECURSIVE SkipSystem(_)
SkipSystem(s) ==
  LET tok == Token(s)
  IN IF s.pos >= Size THEN AtEof(s)
     ELSE IF tok[1] = "ivm" THEN Then(VersionMarker(s), SkipSystem)
     ELSE IF tok[1] = "td" /\ tok[2] = "uta" /\ WrapperAt(s).err = "ok" /\ IsTable(WrapperAt(s))
       THEN Then(LoadTable([WrapperAt(s).r EXCEPT !.pos = @ + 1, !.anns = s.anns], Token(WrapperAt(s).r)),
                 SkipSystem)
     ELSE ReadHeader(s)

NextValue(s) ==
  IF s.parent # "datagram" THEN NextInside(s)
  ELSE IF s.eof THEN AtEof(s)
  ELSE Then(PassValue(s), LAMBDA u :
         IF u.pos >= u.localEnd THEN AtEof(u) ELSE Then(ReadField(u), SkipSystem))

-----------------------------------------------------------------------------
(* What callers may ask of the value, without changing anything.           *)

(* _ion_reader_binary_get_field_name. *)
GetFieldName(s) ==
  IF ~s.inStruct THEN Ok(s, "none")
  ELSE IF s.field <= T!Unknown THEN Fails(s, "invalid symbol")
  ELSE IF s.table = NoSymtab THEN Fails(s, "invalid state")
  ELSE NameOfSid(s, s.field)

(* _ion_reader_binary_get_field_sid: what the caller has stays when there  *)
(* is none.                                                                *)
GetFieldSid(s) == Ok(s, IF s.field = Absent THEN T!Unknown ELSE s.field)

(* _ion_reader_binary_get_depth. *)
GetDepth(s) == Ok(s, Len(s.stack))

(* _ion_reader_binary_get_type: not of a value already read. *)
GetType(s) == IF ~s.eof /\ s.state = "before tid" THEN Fails(s, "invalid state") ELSE Ok(s, s.type)

(* _ion_reader_binary_is_null. *)
BinaryIsNull(s) == IF s.state # "before contents" THEN Fails(s, "invalid state") ELSE Ok(s, HasNull(s))

(* _ion_reader_binary_get_annotation_count. *)
GetAnnotationCount(s) == Ok(s, Len(s.anns))

(* _ion_reader_binary_get_an_annotation, and _ion_reader_binary_get_an_    *)
(* annotation_sid below it.                                                *)
GetAnAnnotation(s, i) ==
  IF i > Len(s.anns) THEN Fails(s, "invalid arg")
  ELSE IF s.anns[i] <= T!Unknown THEN Fails(s, "invalid symbol")
  ELSE NameOfSid(s, s.anns[i])

(* _ion_reader_binary_get_annotations, into room for that many. *)
GetAnnotations(s, room) ==
  IF Len(s.anns) > room THEN Fails(s, "buffer too small")
  ELSE IF \E i \in DOMAIN s.anns : s.anns[i] <= T!Unknown THEN Fails(s, "invalid symbol")
  ELSE Ok(s, [i \in DOMAIN s.anns |-> NameOfSid(s, s.anns[i]).val])

(* _ion_reader_binary_get_annotation_sids: every second slot is written,   *)
(* those behind the room of the caller too.                                *)
GetAnnotationSids(s, room) ==
  IF Len(s.anns) > room THEN Fails(s, "buffer too small")
  ELSE Ok(s, [slot \in { 2 * i - 1 : i \in DOMAIN s.anns } |-> s.anns[(slot + 1) \div 2]])

(* _ion_reader_binary_has_annotation. *)
HasAnnotation(s, name) ==
  LET sid == T!SidOfName(T!IndexIfLarge(s.table).t, name)
  IN  sid # T!Unknown /\ \E i \in DOMAIN s.anns : s.anns[i] = sid

HasAnyAnnotations(s) == s.annStart # -1

(* _ion_reader_binary_get_value_offset. *)
GetValueOffset(s) == IF s.eof THEN -1 ELSE IF s.annStart >= 0 THEN s.annStart ELSE s.start

(* Mutant of GetValueLength: the annotations are not part of the value.    *)
GetValueLengthPlain(s) == IF s.eof THEN -1 ELSE HeaderWidth(s.len) + s.len

(* _ion_reader_binary_get_value_length: the header is taken to be as short *)
(* as the length allows.                                                   *)
GetValueLength(s) ==
  IF s.eof THEN -1
  ELSE HeaderWidth(s.len) + s.len + (IF s.annStart >= 0 THEN s.start - s.annStart ELSE 0)

(* Lengths: of what is still to be read.  A null has no bytes to measure,  *)
(* or is an error.                                                         *)

(* _ion_reader_binary_get_string_length. *)
GetStringLength(s) ==
  IF ~OnValue(s, {"string"}) THEN Fails(s, "invalid state") ELSE Ok(s, IF HasNull(s) THEN 0 ELSE s.len)

(* _ion_reader_binary_get_lob_size. *)
GetLobSize(s) ==
  IF ~OnValue(s, {"lob"}) THEN Fails(s, "invalid state")
  ELSE IF HasNull(s) THEN Fails(s, "null value")
  ELSE Ok(s, s.len)

-----------------------------------------------------------------------------
(* Another stream for the reader: _ion_reader_binary_reset, and            *)
(* _ion_reader_binary_close and _open.  The depth, the rule for fields and *)
(* the symbol table stay.                                                  *)
BinaryReset(s, end) ==
  [s EXCEPT !.pos = 0, !.stack = <<>>, !.anns = <<>>, !.state = "before tid", !.parent = "datagram",
            !.localEnd = end, !.eof = FALSE]

(* _ion_reader_binary_open, with the fields of _ion_reader_initialize. *)
OpenBinary ==
  [pos |-> 0, state |-> "before tid", table |-> SystemTable, depth |-> 0, eof |-> FALSE,
   stack |-> <<>>, parent |-> "datagram", inStruct |-> FALSE, localEnd |-> Endless,
   td |-> <<"td", Eof, 0>>, type |-> Eof, len |-> 0, start |-> 0, annStart |-> 0,
   field |-> 0, anns |-> <<>>, expect |-> 0]
=============================================================================
