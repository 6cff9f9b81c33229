--------------------------- MODULE IonBinaryWriter ---------------------------
(***************************************************************************)
(* ion_writer_binary.c, with the state ion_writer.c keeps for it.  Values  *)
(* go to a value stream without the headers of containers, lobs and        *)
(* annotations whose length is not known yet; each of these is a patch, an *)
(* offset and a length that grows while it is on the patch stack.  A flush *)
(* merges values and patches behind a version marker and the local symbol  *)
(* table.  Only the top patch is told of new bytes; a patch tells the one  *)
(* below when it is popped.                                                *)
(*                                                                         *)
(* asked is what the caller asked for, as a tree: the history the output   *)
(* is compared with.                                                       *)
(***************************************************************************)
EXTENDS IonBinaryFormat, IonWriter

CONSTANT Sizes  \* the body lengths callers write

ASSUME BinaryWriterAssumption == Sizes \subseteq Nat

VARIABLE out    \* what each flush sent to the output stream

vars == <<w, out, asked, res, calls>>

Unknown == -1        \* ION_BINARY_UNKNOWN_LENGTH

-----------------------------------------------------------------------------
(* The value stream and the patches. *)

Emit(v, tok) ==
  [v EXCEPT !.bytes = Append(@, [at |-> v.pos, tok |-> tok]), !.pos = @ + Width(tok)]

EmitAll(v, toks) ==
  LET at(i) == v.pos + WidthAll(SubSeq(toks, 1, i - 1))
  IN  [v EXCEPT !.bytes = @ \o [i \in 1..Len(toks) |-> [at |-> at(i), tok |-> toks[i]]],
                !.pos = @ + WidthAll(toks)]

Top(v) == v.patches[Head(v.stack)]


(* _ion_writer_binary_patch_lengths. *)
PatchLengths(v, n) ==
  IF v.stack = <<>> THEN v ELSE [v EXCEPT !.patches[Head(v.stack)].length = @ + n]

(* Mutant of Push: the new patch goes to the bottom of the stack. *)
PushBelow(v, type) ==
  [v EXCEPT !.patches = Append(@, [offset |-> v.pos, type |-> type, length |-> 0]),
            !.stack = Append(@, Len(v.patches) + 1)]

(* _ion_writer_binary_push_position. *)
Push(v, type) ==
  [v EXCEPT !.patches = Append(@, [offset |-> v.pos, type |-> type, length |-> 0]),
            !.stack = <<Len(v.patches) + 1>> \o @]

(* What a popped patch of length n adds to the one below: its content, and *)
(* the VarUInt of its own header.  The type descriptor is counted before.  *)
PatchDown(n) == IF n >= VarLen THEN n + LenVarUint(n) ELSE n

(* _ion_writer_binary_pop. *)
Pop(v) == PatchLengths([v EXCEPT !.stack = Tail(@)], PatchDown(Top(v).length))

(* Mutant of CloseValue: an annotation stays on the stack. *)
CloseValueBare(v) == v

(* _ion_writer_binary_close_value. *)
CloseValue(v) == IF v.stack # <<>> /\ Top(v).type = "uta" THEN Pop(v) ELSE v

-----------------------------------------------------------------------------
(* Values. *)

(* The field name of _ion_writer_binary_start_value. *)
WriteField(v) ==
  LET r == FieldAsSid(v)
  IN  IF ~v.inStruct THEN Ok(v)
      ELSE IF r.err # "ok" THEN Fails(v, r.err)
      ELSE IF r.sid < 1 THEN Fails(v, "state")
      ELSE Ok(ClearFieldName(Emit(r.w, <<"var", r.sid>>)))

(* Its annotations: a whole header when the value's length n is known, a   *)
(* patch when it is not.  start is where the value's bytes began.          *)
WriteAnnotations(v, n, start) ==
  LET u    == WithSymbols(v)
      sids == SidsOfAnnotations(u)
      len  == LenAll(sids)
      head == IF n = Unknown
                THEN Push(PatchLengths(u, (u.pos - start) + 1), "uta")
                ELSE EmitAll(u, Header("uta", LenVarUint(len) + len + n))
  IN  IF v.anns = <<>> THEN v
      ELSE ClearAnnotations(EmitAll(head, << <<"var", len>>, <<"sids", sids>> >>))

(* _ion_writer_binary_start_value: the bytes written are told to the patch *)
(* that is then on top.                                                    *)
StartValue(v, n) ==
  LET f == WriteField(v)
      u == WriteAnnotations(f.w, n, v.pos)
      from == IF v.anns # <<>> /\ n = Unknown THEN f.w.pos ELSE v.pos
  IN  IF v.lob # None THEN Fails(v, "state")
      ELSE IF f.err # "ok" THEN f
      ELSE Ok(PatchLengths(u, u.pos - from))

(* A scalar: toks of width n in all, and told is what the patch is told.   *)
WriteValue(v, toks, n, told) ==
  Then(StartValue(v, n), LAMBDA u : Ok(PatchLengths(EmitAll(u, toks), told)))

(* null, typed null, bool, int64, float: a short body.                     *)
WriteShort(v, n) == WriteValue(v, << <<"td", "scalar", n>>, <<"bytes", n>> >>, n + 1, n + 1)

(* decimal, timestamp, string, clob, blob: a body of any length. *)
WriteSized(v, n) ==
  WriteValue(v, Append(Header("scalar", n), <<"bytes", n>>), HeaderWidth(n) + n, HeaderWidth(n) + n)

(* _ion_writer_binary_write_ion_int: the patch is told of one byte of      *)
(* header, however long it was.                                            *)
WriteIonInt(v, n) ==
  WriteValue(v, Append(Header("scalar", n), <<"bytes", n>>), HeaderWidth(n) + n, 1 + n)

(* _ion_writer_binary_write_symbol_id: $ion_1_0 at the top level is the    *)
(* version marker.                                                         *)
Ivm == 2
IsIvm(v, sid) == sid = Ivm /\ v.stack = <<>>
WriteSid(v, sid) ==
  IF IsIvm(v, sid) THEN Ok([Emit(v, <<"ivm">>) EXCEPT !.ivm = TRUE])
  ELSE WriteValue(v, << <<"td", "symbol", LenSid(sid)>>, <<"sid", sid, LenSid(sid)>> >>,
                  LenSid(sid) + 1, LenSid(sid) + 1)

(* _ion_writer_binary_write_symbol: the symbol is made before the value.   *)
SidFor(v, name) == SidOf(AddSymbol(v, name).table, name)
WriteName(v, name) == WriteSid(AddSymbol(v, name), SidFor(v, name))

(* _ion_writer_binary_start_container and _start_lob, as far as they agree. *)
OpenPatch(v, type) ==
  Then(StartValue(v, Unknown), LAMBDA u : Ok(Push(PatchLengths(u, 1), type)))

(* Mutant of InStructAfter: a struct is forgotten when a value in it ends. *)
InStructForgotten(v) == FALSE

(* Is the patch on top a struct's? *)
InStructAfter(v) == v.stack # <<>> /\ Top(v).type = "struct"

-----------------------------------------------------------------------------
(* Flushing. *)

HeadersAt(ps, from, to) ==
  FoldLeft(LAMBDA toks, p : IF p.offset > from /\ p.offset <= to
                              THEN toks \o Header(p.type, p.length) ELSE toks, <<>>, ps)

(* Values and patches merged: before each token the headers of the patches *)
(* at its offset, in the order of the list, the rest at the end.           *)
Merged(v) ==
  LET before(k) == IF k = 1 THEN -1 ELSE v.bytes[k - 1].at
      n == Len(v.bytes)
  IN  FoldLeft(LAMBDA toks, k : (toks \o HeadersAt(v.patches, before(k), v.bytes[k].at))
                                  \o <<v.bytes[k].tok>>,
               <<>>, [k \in 1..n |-> k])
        \o HeadersAt(v.patches, before(n + 1), v.pos)

NeedsTable(v) == v.hasLocal \/ (v.table.open /\ v.table.imports # <<>>)

(* _ion_writer_binary_flush_to_output.  _has_local_symbols stays set.      *)
Flushed(v) ==
  (IF ~v.ivm \/ NeedsTable(v) THEN << <<"ivm">> >> ELSE <<>>)
    \o (IF NeedsTable(v) THEN << <<"symtab", v.table.imports, v.table.locals>> >> ELSE <<>>)
    \o Merged(v)

Recycled(v) ==
  [v EXCEPT !.table = NoTable, !.bytes = <<>>, !.pos = 0, !.patches = <<>>, !.ivm = FALSE]

(* Its ASSERT needs a symbol table when one is to be written. *)
FlushFails(v) == NeedsTable(v) /\ ~v.table.open

-----------------------------------------------------------------------------
(* The writer machine: one action per call.  Calls that stop the program,  *)
(* or that the writer gets wrong, are explored only when Careless names    *)
(* them: "null name", "no table", "nothing open" (the end of a container   *)
(* when none is open), "int" (an ION_INT of VarLen bytes or more in a      *)
(* container), "ivm" (a version marker written by the caller),             *)
(* "order" (containers and lobs closed in the wrong order), "open" (a      *)
(* flush or close inside a container, or with annotations pending),        *)
(* "table" (a new symbol table when values or ids are waiting), "ids" (the  *)
(* end of a value that is flushed while ids wait for the next).            *)

Writes(r, v) == Ends(r, Put(Used(asked, v), v)) /\ UNCHANGED out

(* null, typed null, bool, int64 and float; decimal, timestamp and string. *)
WriteShortScalar(n) == n < VarLen /\ Writes(WriteShort(w, n), Value(asked, "scalar", n))
WriteSizedScalar(n) == Writes(WriteSized(w, n), Value(asked, "scalar", n))

WriteInt(n) ==
  /\ n >= VarLen /\ w.stack # <<>> => Allowed("int")
  /\ Writes(WriteIonInt(w, n), Value(asked, "scalar", n))

WriteSymbol(name) ==
  /\ IsIvm(w, SidFor(w, name)) => Allowed("ivm")
  /\ Writes(WriteName(w, name), Value(asked, "symbol", name))

WriteSymbolId(sid) ==
  /\ IsIvm(w, sid) => Allowed("ivm")
  /\ Writes(WriteSid(w, sid), Value(asked, "symbol", SystemNames[sid]))

StartContainer(type) ==
  LET r == OpenPatch(w, type) IN
  /\ Ends(IF r.err = "ok" THEN Ok([r.w EXCEPT !.inStruct = type = "struct"]) ELSE r,
          LET v == Value(asked, type, <<>>) IN PutOpen(Used(asked, v), v))
  /\ UNCHANGED out

StartLob ==
  LET r == OpenPatch(w, "lob") IN
  /\ Ends(IF r.err = "ok" THEN Ok([r.w EXCEPT !.lob = "lob"]) ELSE r,
          LET v == Value(asked, "lob", 0) IN PutOpen(Used(asked, v), v))
  /\ UNCHANGED out

AppendLob(n) ==
  /\ n > 0
  /\ IF w.lob = None THEN Ends(Fails(w, "state"), asked)
     ELSE Ends(Ok(PatchLengths(Emit(w, <<"bytes", n>>), n)),
               [asked EXCEPT !.open[Len(asked.open)].body = @ + n])
  /\ UNCHANGED out

FinishLob ==
  /\ IF w.lob = None THEN Ends(Fails(w, "arg"), asked)
     ELSE Ends(Ok([CloseValue(Pop(w)) EXCEPT !.lob = None]), PutClosed(asked))
  /\ UNCHANGED out

(* _ion_writer_binary_finish_container, flush_every_value included.  The   *)
(* patch it ends is not looked for, but read.                              *)
FinishContainer ==
  /\ w.lob # None => Allowed("order")
  /\ w.flushEvery /\ IdsWait => Allowed("ids")
  /\ LET u     == CloseValue(Pop(w))
         v     == [u EXCEPT !.inStruct = InStructAfter(u)]
         flush == w.flushEvery /\ u.stack = <<>>
     IN  IF w.stack = <<>> THEN Ends(Fails(w, "nothing open"), asked) /\ UNCHANGED out
         ELSE IF ~flush THEN Ends(Ok(v), PutClosed(asked)) /\ UNCHANGED out
         ELSE IF FlushFails(v) THEN Ends(Fails(v, "no table"), asked) /\ UNCHANGED out
         ELSE /\ Ends(Ok(Recycled(v)), PutSent(PutClosed(asked)))
              /\ out' = Append(out, Flushed(v))

NothingOpen == w.stack = <<>> /\ w.anns = <<>> /\ ~IdsWait

Flush ==
  /\ NothingOpen \/ Allowed("open")
  /\ IF FlushFails(w) THEN Ends(Fails(w, "no table"), asked) /\ UNCHANGED out
     ELSE /\ Ends(Ok(Recycled(w)), PutSent(asked))
          /\ out' = Append(out, Flushed(w))

(* _ion_writer_binary_close: a flush, when there is anything to send.      *)
Close ==
  /\ NothingOpen \/ Allowed("open")
  /\ IF w.patches = <<>> /\ w.pos = 0
       THEN Ends(Ok([w EXCEPT !.closed = TRUE]), asked) /\ UNCHANGED out
     ELSE IF FlushFails(w) THEN Ends(Fails(w, "no table"), asked) /\ UNCHANGED out
     ELSE /\ Ends(Ok([Recycled(w) EXCEPT !.closed = TRUE]), PutSent(asked))
          /\ out' = Append(out, Flushed(w))

BinaryPart ==
  [bytes |-> <<>>, pos |-> 0, patches |-> <<>>, stack |-> <<>>, lob |-> None, ivm |-> FALSE]

Init ==
  /\ \E i \in Imports, flush \in BOOLEAN :
       w = [Both(Both(BinaryPart, [flushEvery |-> flush]), FreshWith(i)) EXCEPT !.hasLocal = FALSE]
  /\ out = <<>>
  /\ asked = NothingAsked
  /\ res = "ok"
  /\ calls = 0

(* Calls that write. *)
ValueCall ==
  \/ \E name \in Names : (FieldName(name) \/ AddAnnotation(name)) /\ UNCHANGED out
  \/ \E name \in Names : WriteSymbol(name)
  \/ \E n \in Sizes : WriteShortScalar(n) \/ WriteSizedScalar(n) \/ WriteInt(n) \/ AppendLob(n)
  \/ \E sid \in {Ivm, Len(SystemNames)} : WriteSymbolId(sid)
  \/ \E type \in {"list", "struct"} : StartContainer(type)
  \/ StartLob \/ FinishLob \/ FinishContainer \/ Flush

(* Not when values wait that were written with the old one. *)
SetTable(imports) ==
  /\ w.bytes # <<>> => Allowed("table")
  /\ SetSymbolTable(imports)

OtherCall == (PendingCall \/ \E i \in Imports : SetTable(i)) /\ UNCHANGED out

Next == ValueCall \/ OtherCall \/ Close

Spec == Init /\ [][Next]_vars
-----------------------------------------------------------------------------
(* Properties. *)

(* The patch stack holds, from its bottom, for each container and lob the   *)
(* caller has open the patch of its annotations, if it has any, and then    *)
(* its own, and nothing else; _in_struct says what the innermost container  *)
(* is and _lob_in_progress whether a lob is open in it.  (start_value,      *)
(* close_value, finish_container and finish_lob push, pop and set these     *)
(* separately.)                                                             *)
PatchesOf(open, i) == i + Cardinality({ j \in 1..i : open[j].anns # <<>> })
StackTypes(v) ==
  [k \in 1..Len(v.stack) |-> v.patches[v.stack[Len(v.stack) + 1 - k]].type]
StackHolds(types, open) ==
  /\ Len(types) = PatchesOf(open, Len(open))
  /\ \A i \in 1..Len(open) :
       /\ types[PatchesOf(open, i)] = open[i].type
       /\ open[i].anns # <<>> => types[PatchesOf(open, i) - 1] = "uta"
StackMirrorsCalls ==
  /\ StackHolds(StackTypes(w), asked.open)
  /\ w.inStruct = AskedInStruct(asked)
  /\ (w.lob # None) = (asked.open # <<>> /\ Last(asked.open).type = "lob")

(* While values wait for their flush, a name keeps the symbol id they were  *)
(* written with.                                                            *)
SidsKept ==
  [][w.bytes # <<>> /\ out' = out =>
       \A name \in Names : SidOf(w.table, name) > 0 =>
         SidOf(w'.table, name) = SidOf(w.table, name)]_vars

-----------------------------------------------------------------------------
(* What the code says of itself, and a run refutes. *)

(* ion_writer_binary.c, _ion_writer_binary_serialize_symbol_table:          *)
(* "ASSERT(psymtab != NULL)".                                               *)
FlushHasTable == res # "no table"
=============================================================================
