----------------------------- MODULE IonReading -----------------------------
(***************************************************************************)
(* What the two readers share: the input, results that carry a reader, an  *)
(* error and a value, and the symbol tables they build.  A reader is a     *)
(* record; the C functions that change it are operators from a reader to   *)
(* [r, err, val].                                                          *)
(***************************************************************************)
EXTENDS IonCursor, TLC

CONSTANTS
  Shared,        \* the catalog: a shared table for each name
  Int32Len, Int64Len, \* sizeof(int32_t), sizeof(int64_t)
  Threshold, DefaultSize \* of symbol tables

ASSUME ReadingAssumption ==
  Int32Len \in Nat /\ Int64Len \in Nat /\ Int32Len < Int64Len

VARIABLE input   \* the document: its kind, and its tokens or characters

T == INSTANCE IonSymbolTable WITH Text <- STRING, Numerals <- <<>>, BadNames <- {}

Self == 1           \* the address of the reader's own table
NoSymtab == [none |-> TRUE]

Ok(s, val)  == [r |-> s, err |-> "ok", val |-> val]
Fails(s, e) == [r |-> s, err |-> e, val |-> Eof]

(* IONCHECK: go on with the reader, or with the value as well. *)
Then(x, Op(_))     == IF x.err = "ok" THEN Op(x.r) ELSE x
ThenVal(x, Op(_,_)) == IF x.err = "ok" THEN Op(x.r, x.val) ELSE x

(* Go on with the reader and the table under construction. *)
ThenTable(s, t, Op(_,_)) == IF t.err = "ok" THEN Op(s, t.t) ELSE Fails(s, t.err)

SystemTable == T!SystemTable
SystemSid(name) == SelectInSeq(SystemNames, LAMBDA n : n = name)

(* _ion_symbol_table_find_by_sid_helper: $<int> when the table has none.   *)
(* Looking up may index the table, which the next lookup would do again.   *)
TextOfSid(table, sid) ==
  LET t == T!IndexIfLarge(table).t
      place == T!PlaceOfSid(t, sid)
  IN IF place = T!Null THEN <<"$", sid>> ELSE t.symbols[place].value

NameOfSid(s, sid) ==
  IF s.table = NoSymtab THEN Fails(s, "assertion") ELSE Ok(s, TextOfSid(s.table, sid))

(* _ion_symbol_table_add_import_helper takes the catalog's table, or a     *)
(* substitute without symbols.                                             *)
Imported(local, import) ==
  T!Incorporate(local,
                IF import.name \in DOMAIN Shared THEN Shared[import.name] ELSE T!Substitute(import),
                Self)

=============================================================================
