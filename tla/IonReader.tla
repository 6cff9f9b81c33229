------------------------------ MODULE IonReader ------------------------------
(***************************************************************************)
(* The calls of ion_reader.c, each of which goes to the binary or to the   *)
(* text reader, as the input calls for.                                    *)
(*                                                                         *)
(* cur is what the caller should see, the cursor of IonCursor: every call  *)
(* is made of the reader and of the cursor.                                *)
(***************************************************************************)
EXTENDS IonBinaryReader, IonTextReader

CONSTANTS
  Documents,     \* binary: a sequence of [toks, values, tableLast], tokens and what they
                 \* stand for, and whether a symbol table comes last
  Texts,         \* text: a sequence of [chars, values]
  Pieces,        \* how much callers read of a string or lob at once
  Careless       \* the misuses explored, below

Layouts == [i \in DOMAIN Documents |-> LayOut(Documents[i].toks)]

ASSUME ReaderAssumption ==
  /\ \A i \in DOMAIN Documents : Documents[i].toks[1] = <<"ivm">>
  /\ Endless \in Nat /\ Pieces \subseteq Nat \ {0}
  /\ \A i \in DOMAIN Documents : Layouts[i].size < Endless

VARIABLES
  r,             \* the reader
  cur,           \* the cursor
  res            \* how the last call ended, for the reader and the cursor

vars == <<input, r, cur, res>>

Outcome(x) == IF x.err = "ok" THEN <<"ok", x.val>> ELSE <<"refused">>

Does(x, c) ==
  /\ r' = x.r
  /\ cur' = c.c
  /\ res' = [reader |-> Outcome(x), cursor |-> Outcome(c), err |-> x.err, sure |-> cur.sure \/ c.c.sure]
  /\ UNCHANGED input

Binary == input.kind = "binary"
Text   == input.kind = "text"

-----------------------------------------------------------------------------
(* Careless callers of a binary reader                                     *)
(*   "eof"       go on reading the last value after the end was reported,  *)
(*   "null int"  read a null as a big integer,                             *)
(*   "no bytes"  ask for the bytes of what is no lob,                      *)
(*   "cut"       leave a string in the middle of a character,              *)
(*   "slow"      read less at a time than a character still has,           *)
(*   "no length" reset the stream without a length,                        *)
(*   "tight"     reset it with a length that ends with a symbol table,     *)
(* and of a text reader                                                    *)
(*   "again"     go on after the end of an empty container was reported,   *)
(*   "operator"  pass an operator without reading it,                      *)
(*   "out"       step out right after stepping in,                         *)
(*   "unread"    step out while a scalar is still in the stream,           *)
(*   "piece"     read in pieces what was read or measured as a whole,      *)
(*   "tail"      read pieces that end in or just behind a long character,  *)
(*   "exact"     offer as much room as a lob that is not read in pieces    *)
(*               needs,                                                    *)
(*   "ended"     ask for the rest of a string, or for the size of a string *)
(*               or lob, after its end was seen,                           *)
(*   "measure"   ask for the size of what is no lob,                       *)
(* and of either                                                           *)
(*   "inside"    reset the stream inside a container,                      *)
(*   "freed"     reset the stream while a local symbol table is in force,  *)
(*               which frees it and goes on using it.                      *)

Allowed(misuse, right) == misuse \notin Careless => right

Alive == Allowed("eof", Binary => ~cur.atEnd)

MayNext ==
  IF Binary THEN Allowed("cut", r.expect = 0)
  ELSE /\ Allowed("again", r.type # Eof \/ r.state = "eof")
       /\ Allowed("operator", r.sub[1] # "op" \/ r.loc # "stream")

MayStepOut ==
  IF Binary THEN Allowed("cut", r.expect = 0)
  ELSE /\ Allowed("out", r.stack = <<>> \/ r.state \notin {"before uta", "before field"})
       /\ Allowed("unread", r.loc # "stream")

MayReadIonInt == Binary => Allowed("null int", ~(OnValue(r, {"int"}) /\ HasNull(r)))

(* The pieces of an image, and those that a stale byte gets into. *)
NotOfImage(n)  == Allowed("piece", r.loc # "image" \/ n >= Len(r.image))
NoStaleByte(x) == Allowed("tail", x.err = "ok" => \A i \in DOMAIN x.val : x.val[i] # "stale")

MayReadPart(n) ==
  IF Binary THEN Allowed("slow", n >= r.expect)
  ELSE r.type = "string" /\ NotOfImage(n) /\ NoStaleByte(TextReadPart(r, n))

MayReadLob(partial, n) ==
  IF Binary THEN Allowed("no bytes", cur.on /\ cur.now.type = "lob")
  ELSE /\ NotOfImage(n) /\ NoStaleByte(TextReadLob(r, partial, n))
       /\ Allowed("exact", partial \/ n # Len(cur.left))

MayReset ==
  /\ Allowed("inside", r.stack = <<>>) /\ Allowed("freed", r.table = SystemTable)
  /\ Allowed("cut", Binary => r.expect = 0)

NotEnded == Allowed("ended", Text /\ IsOn(cur, {"string", "lob"}) => r.loc # "none")
MayMeasureLob == NotEnded /\ Allowed("measure", Text => cur.on /\ cur.now.type = "lob")

-----------------------------------------------------------------------------
(* ion_reader_next, ion_reader_step_in, ion_reader_step_out. *)
ReaderNext ==
  /\ MayNext
  /\ Does(IF Binary THEN NextValue(r) ELSE TextNext(r), CNext(cur))
ReaderStepIn ==
  /\ Alive
  /\ IF Binary THEN Does(StepInHelper(r), CStepIn(cur)) ELSE Does(TextStepIn(r), TStepIn(cur))
ReaderStepOut ==
  /\ MayStepOut
  /\ Does(IF Binary THEN StepOutHelper(r) ELSE TextStepOut(r), CStepOut(cur))

(* ion_reader_read_null, _bool, _int32, _int64, _ion_int, and _double,     *)
(* _decimal and _timestamp.                                                *)
ReaderReadNull ==
  /\ Alive
  /\ IF Binary THEN Does(ReadNull(r), CReadNull(cur)) ELSE Does(TextReadNull(r), TReadNull(cur))
ReaderReadBool ==
  /\ Alive
  /\ IF Binary THEN Does(ReadBool(r), CRead(cur, {"bool"})) ELSE Does(TextReadBool(r), TRead(cur, {"bool"}))
ReaderReadInt32 ==
  /\ Alive
  /\ IF Binary THEN Does(ReadInt32(r), CReadInt(cur, Int32Len))
     ELSE Does(TextReadInt(r, Int32Len), TReadInt(cur, Int32Len))
ReaderReadInt64 ==
  /\ Alive
  /\ IF Binary THEN Does(ReadInt64(r), CReadInt(cur, Int64Len))
     ELSE Does(TextReadInt(r, Int64Len), TReadInt(cur, Int64Len))
ReaderReadIonInt ==
  /\ Alive /\ MayReadIonInt
  /\ IF Binary THEN Does(ReadIonInt(r), CRead(cur, {"int"}))
     ELSE Does(TextReadIonInt(r), TRead(cur, {"int"}))
ReaderReadOther ==
  /\ Alive
  /\ IF Binary THEN Does(ReadOther(r), CRead(cur, {"other"}))
     ELSE Does(TextReadOther(r), TRead(cur, {"other"}))

(* ion_reader_read_symbol_sid, the id looked up as its caller would. *)
ReaderReadSymbolSid ==
  /\ Alive
  /\ IF Binary
       THEN Does(ThenVal(ReadSymbolSid(r), LAMBDA u, val : Ok(u, <<TextOfSid(u.table, val[1])>>)),
                 CRead(cur, {"symbol"}))
       ELSE Does(TextReadSymbolSid(r), TRead(cur, {"symbol"}))

(* ion_reader_read_string and ion_reader_read_partial_string. *)
ReaderReadString ==
  /\ Alive /\ NotEnded
  /\ IF Binary THEN Does(ReadString(r), CReadText(cur))
     ELSE Does(TextReadString(r), TRead(cur, {"string", "symbol"}))
ReaderReadPartialString(n) ==
  /\ Alive /\ MayReadPart(n)
  /\ IF Binary THEN Does(ReadStringBytes(r, TRUE, n), CReadStringPart(cur, n))
     ELSE Does(TextReadPart(r, n), TReadPart(cur, n))

(* ion_reader_read_lob_bytes and ion_reader_read_lob_partial_bytes. *)
ReaderReadLobBytes(partial, n) ==
  /\ Alive /\ MayReadLob(partial, n)
  /\ IF Binary THEN Does(ReadLobBytes(r, partial, n), CReadLob(cur, partial, n))
     ELSE Does(TextReadLob(r, partial, n), TReadLob(cur, partial, n))

(* ion_reader_get_string_length and ion_reader_get_lob_size. *)
ReaderGetStringLength ==
  /\ Alive /\ NotEnded
  /\ IF Binary THEN Does(GetStringLength(r), CStringLength(cur))
     ELSE r.type = "string" /\ Does(TextStringLength(r), CLength(cur, "string"))
ReaderGetLobSize ==
  /\ Alive /\ MayMeasureLob
  /\ Does(IF Binary THEN GetLobSize(r) ELSE TextLobSize(r), CLength(cur, "lob"))

(* ion_reader_get_depth, _get_type, _is_null, _get_field_name,             *)
(* _get_field_sid, and what there is to ask about annotations.             *)
ReaderGetDepth == IF Binary THEN GetDepth(r) ELSE TextGetDepth(r)
ReaderGetType  == IF Binary THEN GetType(r) ELSE TextGetType(r)
ReaderIsNull   == IF Binary THEN BinaryIsNull(r) ELSE TextIsNull(r)
ReaderGetFieldName == IF Binary THEN GetFieldName(r) ELSE TextGetFieldName(r)
ReaderGetFieldSid  == IF Binary THEN GetFieldSid(r) ELSE Asked(r, FieldSid(r))
ReaderHasAnyAnnotations ==
  IF Binary THEN Ok(r, HasAnyAnnotations(r)) ELSE TextHasAnyAnnotations(r)
ReaderHasAnnotation(name) ==
  IF Binary THEN Ok(r, HasAnnotation(r, name)) ELSE Asked(r, TextHasAnnotation(r, name))
ReaderGetAnnotationCount  == IF Binary THEN GetAnnotationCount(r) ELSE TextAnnotationCount(r)
ReaderGetAnAnnotation(i)  == IF Binary THEN GetAnAnnotation(r, i) ELSE TextAnAnnotation(r, i)
ReaderGetAnnotations(room) == IF Binary THEN GetAnnotations(r, room) ELSE TextAnnotations(r, room)
ReaderGetAnnotationSids(room) ==
  IF Binary THEN GetAnnotationSids(r, room) ELSE TextAnnotationSids(r, room)

-----------------------------------------------------------------------------
(* Other input for the reader. *)

BinaryInputs == 
  { Layouts[i] @@ [values |-> Documents[i].values, tableLast |-> Documents[i].tableLast] : i \in DOMAIN Documents }
TextInputs ==
  { [kind |-> "text", at |-> Texts[i].chars, size |-> Len(Texts[i].chars), values |-> Texts[i].values]
      : i \in DOMAIN Texts }

StartsAgain(u) ==
  /\ r' = u
  /\ cur' = StartOf(input'.values)
  /\ res' = [reader |-> <<"open">>, cursor |-> <<"open">>, err |-> "ok", sure |-> TRUE]

(* ion_reader_reset_stream: the stream must be of the reader's kind. *)
ReaderResetStream ==
  /\ MayReset
  /\ input' \in IF Binary THEN BinaryInputs ELSE TextInputs
  /\ StartsAgain(IF Binary THEN BinaryReset(r, Endless) ELSE TextReset(r))

(* ion_reader_reset_stream_with_length; without a length, a binary reader  *)
(* ends at -1.                                                             *)
ReaderResetStreamWithLength ==
  /\ MayReset
  /\ input' \in IF Binary THEN BinaryInputs ELSE TextInputs
  /\ \E length \in {input'.size, -1} :
       /\ Allowed("no length", length >= 0)
       /\ Allowed("tight", Binary => ~input'.tableLast)
       /\ StartsAgain(IF Binary THEN BinaryReset(r, length) ELSE TextReset(r))

(* ion_reader_seek to the beginning, of a text reader. *)
ReaderSeek ==
  /\ Text
  /\ UNCHANGED input
  /\ StartsAgain([TextReset(r) EXCEPT !.depth = 0])

(* ion_reader_open: which reader it is depends on the first bytes. *)
Init ==
  /\ input \in BinaryInputs \cup TextInputs
  /\ r = IF Binary THEN OpenBinary ELSE OpenText
  /\ cur = StartOf(input.values)
  /\ res = [reader |-> <<"open">>, cursor |-> <<"open">>, err |-> "ok", sure |-> TRUE]

Next ==
  \/ ReaderNext \/ ReaderStepIn \/ ReaderStepOut
  \/ ReaderReadNull \/ ReaderReadBool \/ ReaderReadOther
  \/ ReaderReadInt32 \/ ReaderReadInt64 \/ ReaderReadIonInt
  \/ ReaderReadSymbolSid \/ ReaderReadString \/ ReaderGetStringLength \/ ReaderGetLobSize
  \/ ReaderResetStream \/ ReaderResetStreamWithLength \/ ReaderSeek
  \/ \E n \in Pieces : ReaderReadPartialString(n)
  \/ \E n \in Pieces, partial \in BOOLEAN : ReaderReadLobBytes(partial, n)

Spec == Init /\ [][Next]_vars

-----------------------------------------------------------------------------
(* Properties. *)

(* However the caller skips, steps and reads, in part, in whole or not at  *)
(* all, each call of the reader ends as a cursor over the tree of values   *)
(* would end it, and returns what that returns.                            *)
ReadsAgree == res.sure => res.reader = res.cursor

(* What is asked about a value is asked of that value: its type, field     *)
(* name and annotations are its own, under the symbol table it was written *)
(* with, never those of a value, a symbol table, a container or a stream   *)
(* before it.  Binary has the annotations in reverse, and the ids of more  *)
(* than one of them in the wrong slots.                                    *)
Annotations == IF Binary THEN Reverse(cur.now.anns) ELSE cur.now.anns
Says(x, val) == Outcome(x) = <<"ok", val>>
Names(sid, name) ==
  sid # T!Unknown => \E i \in DOMAIN r.table.symbols : r.table.symbols[i].sid = sid /\ r.table.symbols[i].value = name

NamesAgree ==
  cur.on =>
    LET anns == Annotations  n == Len(Annotations)
    IN /\ Says(ReaderGetFieldName, cur.now.field)
       /\ Names(ReaderGetFieldSid.val, cur.now.field)
       /\ Says(ReaderHasAnyAnnotations, n # 0)
       /\ Says(ReaderGetAnnotationCount, n)
       /\ Says(ReaderGetAnnotations(n), anns) /\ ReaderGetAnnotations(n - 1).err # "ok"
       /\ \A i \in 1..n : Says(ReaderGetAnAnnotation(i), anns[i])
       /\ \A i \in DOMAIN r.table.symbols :
            LET name == r.table.symbols[i].value
            IN  Says(ReaderHasAnnotation(name), name \in ToSet(anns))
       /\ \A i \in 1..n :
            (Binary => n = 1) => Names(ReaderGetAnnotationSids(n).val[i], anns[i])
       /\ ~cur.spent /\ cur.sure =>
            Says(ReaderGetType, cur.now.type) /\ Says(ReaderIsNull, IsNull(cur.now))

(* The reader is as deep as its caller.  The ends of the open containers   *)
(* of binary Ion enclose each other and the position, so that stepping out *)
(* only moves forward; the rule for fields is that of the container it is  *)
(* in.  In text, no token that was read ahead is left for a later call.    *)
EndsEnclose ==
  /\ r.inStruct = (r.parent = "struct")
  /\ r.pos <= r.localEnd
  /\ r.stack # <<>> => r.localEnd = Head(r.stack).next
  /\ \A i \in 2..Len(r.stack) : r.stack[i - 1].localEnd = r.stack[i].next
  /\ \A i \in DOMAIN r.stack : r.stack[i].next <= r.stack[i].localEnd
EndsNest ==
  /\ Says(ReaderGetDepth, Len(cur.rest) - 1) /\ r.depth = Len(cur.rest) - 1
  /\ IF Binary THEN EndsEnclose ELSE r.unread = <<>>

(* Offset and length of a value not yet read, kept by a caller to seek to  *)
(* it later, cover it from its annotations to its last byte.  An ordered   *)
(* struct has a length field that its length does not call for.            *)
Untouched == cur.on /\ ~cur.spent /\ cur.left = Content(cur.now)
Ordered   == r.td[2] = "struct" /\ r.td[3] = 1
ExtentCovers ==
  Binary /\ Untouched /\ r.state = "before contents" /\ ~Ordered =>
    GetValueOffset(r) + GetValueLength(r) = r.pos + r.len

(* "It should leave the input stream at the same point simply consuming    *)
(* the value normally would": behind a container that was not looked at,   *)
(* the next value is the one that follows it.                              *)
SkipArrives ==
  [][ReaderNext /\ r.state = "before container" => res'.reader = res'.cursor]_vars
=============================================================================
