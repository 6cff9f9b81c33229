------------------------------ MODULE IonWriter ------------------------------
(***************************************************************************)
(* ion_writer.c: what a writer of either format keeps until the next value *)
(* needs it.  A field name is a name or a symbol id; so are annotations,   *)
(* all of one kind, in an array that is taken from the temp buffer when    *)
(* the first comes.  Ids are those of the symbol table, which opens when a *)
(* name first needs one and is thrown away with the batch.                 *)
(*                                                                         *)
(* w is the writer, a record.  The fields kept here are                    *)
(*   field, fieldSid, fieldType   the field name, and which of both it is  *)
(*   anns, annsType               the annotations, likewise                *)
(*   limit                        annotation_count, Unset with no array    *)
(*   used, room                   the temp buffer, in bytes                *)
(*   table, hasLocal              the symbol table, _has_local_symbols     *)
(*   inStruct, closed             _in_struct; the writer is no more        *)
(* asked is what the caller asked for, as a tree: the history the output   *)
(* is compared with.                                                       *)
(***************************************************************************)
EXTENDS IonNames, IonAsked

CONSTANTS
  Names,       \* the symbols, field names and annotations callers use
  Imports,     \* the names a shared table may bring
  MaxAnns,     \* DEFAULT_ANNOTATION_LIMIT
  Limits,      \* the limits callers set instead
  StringSize,  \* sizeof(ION_STRING): the room an annotation takes
  Room,        \* ION_WRITER_TEMP_BUFFER_DEFAULT
  TempSizes,   \* the sizes callers set instead
  Careless,    \* the misuses explored
  MaxCalls     \* the number of calls explored

ASSUME WriterAssumption ==
  /\ Imports \subseteq Seq(Names) /\ Limits \subseteq Nat /\ TempSizes \subseteq Nat
  /\ MaxAnns \in Nat \ {0} /\ StringSize \in Nat \ {0} /\ Room \in Nat /\ MaxCalls \in Nat

VARIABLES
  w,           \* the writer
  asked,       \* what the caller asked for
  res,         \* how the last call ended
  calls        \* how many calls were made

Ok(v)       == [w |-> v, err |-> "ok"]
Fails(v, e) == [w |-> v, err |-> e]

(* Run op on r's writer if r succeeded (IONCHECK). *)
Then(r, Op(_)) == IF r.err = "ok" THEN Op(r.w) ELSE r

Unset == -1

(* A writer as _ion_writer_open_helper leaves it to the format's own part. *)
Fresh ==
  [field |-> None, fieldSid |-> 0, fieldType |-> None, anns |-> <<>>, annsType |-> None,
   limit |-> Unset, used |-> 0, room |-> Room, table |-> NoTable, hasLocal |-> TRUE,
   inStruct |-> FALSE, closed |-> FALSE]

(* A record with the fields of two. *)
Both(a, b) == [f \in DOMAIN a \cup DOMAIN b |-> IF f \in DOMAIN a THEN a[f] ELSE b[f]]

(* With encoding_psymbol_table, a local table that imports it. *)
FreshWith(imports) ==
  [Fresh EXCEPT !.table = [NoTable EXCEPT !.open = imports # <<>>, !.imports = imports]]

-----------------------------------------------------------------------------
(* The temp buffer. *)

(* ion_temp_buffer_alloc: the last byte is never given out. *)
Allocate(v, n) ==
  IF v.used + n >= v.room THEN Fails(v, "memory") ELSE Ok([v EXCEPT !.used = @ + n])

(* _ion_writer_set_temp_size_helper: a fresh buffer, never a smaller one.  *)
Enlarged(v, n) == IF n < Room THEN v ELSE [v EXCEPT !.used = 0, !.room = n]

(* _ion_writer_set_max_annotation_count_helper. *)
WithLimit(v, n) ==
  Then(Allocate(v, n * StringSize), LAMBDA u : Ok([u EXCEPT !.limit = n, !.anns = <<>>]))

-----------------------------------------------------------------------------
(* Symbols. *)

(* Mutant of AddName: new symbols go to the front of the table. *)
AddNameFirst(t, name) ==
  IF SidOf(t, name) > 0 THEN [t EXCEPT !.open = TRUE]
  ELSE [t EXCEPT !.open = TRUE, !.locals = <<name>> \o @]

(* A local table is opened if there is none. *)
AddName(t, name) ==
  IF SidOf(t, name) > 0 THEN [t EXCEPT !.open = TRUE]
  ELSE [t EXCEPT !.open = TRUE, !.locals = Append(@, name)]

AddNames(t, names) ==
  LET after[n \in 0..Len(names)] ==
        IF n = 0 THEN t ELSE AddName(after[n - 1], names[n])
  IN  after[Len(names)]

(* _ion_writer_make_symbol_helper: did the table's max_id change?          *)
WithTable(v, t) ==
  [v EXCEPT !.table = t, !.hasLocal = @ \/ Len(t.locals) # Len(v.table.locals)]

AddSymbol(v, name) == WithTable(v, AddName(v.table, name))

-----------------------------------------------------------------------------
(* The field name. *)

ByName == "name"   \* tid_STRING
BySid  == "sid"    \* tid_INT

WithField(v, name) == [v EXCEPT !.field = name, !.fieldSid = 0, !.fieldType = ByName]
WithFieldSid(v, sid) == [v EXCEPT !.field = None, !.fieldSid = sid, !.fieldType = BySid]

(* _ion_writer_clear_field_name_helper leaves the type as it was. *)
ClearFieldName(v) == [v EXCEPT !.field = None, !.fieldSid = 0]

(* What _ion_writer_get_field_name_as_string_helper gives; a name that was *)
(* used up is the null string.                                             *)
FieldAsString(v) ==
  CASE v.fieldType = ByName -> [w |-> v, err |-> "ok", name |-> v.field]
    [] v.fieldType = BySid /\ v.fieldSid > 0 ->
         [w |-> v, err |-> "ok", name |-> NamesOf(v.table)[v.fieldSid]]
    [] OTHER -> Fails(v, IF v.fieldType = BySid THEN "symbol" ELSE "state")

(* _ion_writer_get_field_name_as_sid_helper: a name becomes a symbol, and  *)
(* the null string fails an ASSERT of the symbol table.                    *)
FieldAsSid(v) ==
  CASE v.fieldType = ByName /\ v.field # None ->
         LET u == AddSymbol(v, v.field)
         IN  [w |-> u, err |-> "ok", sid |-> SidOf(u.table, v.field)]
    [] v.fieldType = BySid -> [w |-> v, err |-> "ok", sid |-> v.fieldSid]
    [] OTHER -> Fails(v, IF v.fieldType = ByName THEN "null name" ELSE "state")

-----------------------------------------------------------------------------
(* Annotations. *)

Annotate(v, type, anns) == [v EXCEPT !.anns = @ \o anns, !.annsType = type]

(* Names and ids are not mixed on one value. *)
Mixes(v, type) == v.annsType # None /\ v.annsType # type

(* _ion_writer_add_annotation_helper, _ion_writer_add_annotation_sid_helper. *)
WithAnnotation(v, type, ann) ==
  IF Mixes(v, type) THEN Fails(v, "state")
  ELSE IF v.limit = Unset
    THEN Then(WithLimit(v, MaxAnns), LAMBDA u : Ok(Annotate(u, type, <<ann>>)))
  ELSE IF Len(v.anns) >= v.limit THEN Fails(v, "too many")
  ELSE Ok(Annotate(v, type, <<ann>>))

(* _ion_writer_write_annotations_helper, ..._annotation_sids_helper: all   *)
(* of them or none.  The array is there from then on in either case.       *)
WithAnnotations(v, type, anns) ==
  LET made == IF v.limit = Unset THEN WithLimit(v, MaxAnns) ELSE Ok(v)
      Fit(u) == IF Len(u.anns) + Len(anns) > u.limit THEN Fails(u, "too many")
                ELSE Ok(IF anns = <<>> THEN u ELSE Annotate(u, type, anns))
  IN  IF Mixes(v, type) THEN Fails(v, "state") ELSE Then(made, Fit)

(* _ion_writer_clear_annotations_helper. *)
ClearAnnotations(v) == [v EXCEPT !.anns = <<>>, !.annsType = None]

(* _ion_writer_get_annotation_as_string_helper, of each. *)
AnnotationNames(v) ==
  IF v.annsType = BySid THEN [i \in 1..Len(v.anns) |-> NamesOf(v.table)[v.anns[i]]]
  ELSE v.anns

(* _ion_writer_get_annotation_as_sid_helper of each makes their symbols.   *)
WithSymbols(v) == IF v.annsType = BySid THEN v ELSE WithTable(v, AddNames(v.table, v.anns))
SidsOfAnnotations(v) ==
  IF v.annsType = BySid THEN v.anns
  ELSE [i \in 1..Len(v.anns) |-> SidOf(v.table, v.anns[i])]

-----------------------------------------------------------------------------
(* The calls that no value is written by: one action per function.  Ids    *)
(* are those of the table in force.  An ASSERT ends the program, as does a *)
(* null dereference.                                                       *)

Allowed(what) == what \in Careless

Asserts == {"null name", "no table", "nothing open"}

Ends(r, a) ==
  /\ calls < MaxCalls /\ ~w.closed /\ res \notin Asserts
  /\ calls' = calls + 1
  /\ r.err \in {"ok", "state", "arg", "too many", "memory"} \cup Careless
  /\ res' = r.err
  /\ w' = r.w
  /\ asked' = IF r.err = "ok" THEN a ELSE asked

FieldName(name) == Ends(Ok(WithField(w, name)), [asked EXCEPT !.field = name])

FieldSid(sid) ==
  /\ sid \in 1..Len(NamesOf(w.table))
  /\ Ends(Ok(WithFieldSid(w, sid)), [asked EXCEPT !.field = NamesOf(w.table)[sid]])

ClearField == Ends(Ok(ClearFieldName(w)), [asked EXCEPT !.field = None])

AddAnnotation(name) ==
  Ends(WithAnnotation(w, ByName, name), [asked EXCEPT !.anns = Append(@, name)])

AddAnnotationSid(sid) ==
  /\ sid \in 1..Len(NamesOf(w.table))
  /\ Ends(WithAnnotation(w, BySid, sid),
          [asked EXCEPT !.anns = Append(@, NamesOf(w.table)[sid])])

AddAnnotations(names) ==
  Ends(WithAnnotations(w, ByName, names), [asked EXCEPT !.anns = @ \o names])

AddAnnotationSids(sids) ==
  /\ \A i \in 1..Len(sids) : sids[i] \in 1..Len(NamesOf(w.table))
  /\ Ends(WithAnnotations(w, BySid, sids),
          [asked EXCEPT !.anns = @ \o [i \in 1..Len(sids) |-> NamesOf(w.table)[sids[i]]]])

ClearAnns == Ends(Ok(ClearAnnotations(w)), [asked EXCEPT !.anns = <<>>])

SetMaxAnnotations(n) == Ends(IF w.limit # Unset THEN Fails(w, "state") ELSE WithLimit(w, n), asked)

SetTempSize(n) == Ends(Ok(Enlarged(w, n)), asked)

MakeSymbol(name) == Ends(Ok(AddSymbol(w, name)), asked)

(* ion_writer_get_field_name_as_sid, ion_writer_get_annotation_as_sid.     *)
GetFieldSid == Ends(FieldAsSid(w), asked)
GetAnnotationSid(i) ==
  Ends(IF i > Len(w.anns) THEN Fails(w, "arg")
       ELSE Ok(IF w.annsType = BySid THEN w ELSE AddSymbol(w, w.anns[i])), asked)

(* Ids that wait for a value are ids of the table they were given under.   *)
IdsWait == w.fieldSid > 0 \/ (w.annsType = BySid /\ w.anns # <<>>)

(* _ion_writer_set_symbol_table_helper: a new local table that imports the *)
(* shared one; no imports stands for a table that is not shared.  The old  *)
(* table, and what was written with it, is forgotten.                      *)
SetSymbolTable(imports) ==
  /\ IdsWait => Allowed("table")
  /\ Ends(IF imports = <<>> THEN Fails(w, "arg")
          ELSE Ok([w EXCEPT !.table = [open |-> TRUE, imports |-> imports, locals |-> <<>>]]),
          asked)

(* The calls with ids, lists, limits and symbols, but for SetSymbolTable.  *)
PendingCall ==
  \/ \E sid \in 1..Len(NamesOf(w.table)) :
       FieldSid(sid) \/ AddAnnotationSid(sid) \/ AddAnnotationSids(<<sid, sid>>)
  \/ \E name \in Names : AddAnnotations(<<name, name>>) \/ MakeSymbol(name)
  \/ \E n \in Limits : SetMaxAnnotations(n)
  \/ \E n \in TempSizes : SetTempSize(n)
  \/ \E i \in 1..2 : GetAnnotationSid(i)
  \/ ClearField \/ ClearAnns \/ GetFieldSid
=============================================================================
