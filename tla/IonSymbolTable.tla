--------------------------- MODULE IonSymbolTable ---------------------------
(***************************************************************************)
(* ion_symbol_table.c: one symbol table, as a value that each operation    *)
(* maps to a new one.  A pointer to a symbol is its place in the list of   *)
(* symbols, which only grows.  byId and byName are the two indices, built  *)
(* when the table is locked, loaded, or has more than Threshold ids at a   *)
(* lookup, and kept next to the list from then on.                         *)
(***************************************************************************)
EXTENDS Integers, FiniteSets, Sequences, SequencesExt

CONSTANTS
  Text,          \* what a string can be
  SystemNames,   \* the system symbols, in the order of their ids
  Numerals,      \* names of the form $<int>, with the number
  BadNames,      \* names that are not UTF-8
  Threshold,     \* DEFAULT_INDEX_BUILD_THRESHOLD
  DefaultSize    \* DEFAULT_SYMBOL_TABLE_SIZE

ASSUME SymbolTableAssumption ==
  /\ Threshold \in Nat /\ DefaultSize \in Nat \ {0}
  /\ {"none", "$ion"} \subseteq Text
  /\ SystemNames \in Seq(Text) \ {<<>>}
  /\ Len(SystemNames) <= Threshold  \* opening a table builds no index
  /\ \A i, j \in DOMAIN SystemNames : SystemNames[i] = SystemNames[j] => i = j
  /\ \A i \in DOMAIN SystemNames : SystemNames[i] \notin BadNames \cup DOMAIN Numerals
  /\ \A name \in DOMAIN Numerals : Numerals[name] \in Nat

None == "none"
Unknown == 0     \* UNKNOWN_SID
Null == 0        \* no symbol: places start at 1
System == 0      \* home of a system symbol; others have the address of a table
Nowhere == -1    \* home of a symbol not yet finished

Ok(t)       == [t |-> t, err |-> "ok"]
Fails(t, e) == [t |-> t, err |-> e]

(* The structures; entry 0 of by_id, which stands for no symbol, is left    *)
(* out.                                                                    *)
Owners  == {None, "caller", "writer", "reader", "catalog"}
Imports == [name : Text, version : Nat, maxId : Nat]
Symbols == [value : Text, sid : Int, home : Int]
Tables  == [name : Text, version : Nat, maxId : Nat, locked : BOOLEAN, hasLocal : BOOLEAN,
            imports : Seq(Imports), symbols : Seq(Symbols),
            byIdMax : Nat, byId : Seq(Nat), byName : SUBSET Nat, owner : Owners]

(* Run op on r's table if r succeeded (IONCHECK). *)
Then(r, Op(_)) == IF r.err = "ok" THEN Op(r.t) ELSE r

Larger(a, b) == IF a >= b THEN a ELSE b
Lesser(a, b) == IF a <= b THEN a ELSE b

-----------------------------------------------------------------------------
(* The indices. *)

IndexActive(t) == t.byIdMax > 0

(* The places before the first symbol whose name was there already. *)
Unrepeated(symbols) ==
  {i \in DOMAIN symbols :
     \A j, k \in 1..i : symbols[j].value = symbols[k].value => j = k}

(* The symbol that repeats a name is still stored by its id. *)
Entered(t, fresh, size) ==
  [t |-> [t EXCEPT
     !.byIdMax = size - 1,
     !.byId    = [sid \in 1..(size - 1) |->
                    SelectLastInSubSeq(t.symbols, 1, Lesser(Cardinality(fresh) + 1, Len(t.symbols)),
                                       LAMBDA s : s.sid = sid)],
     !.byName  = fresh],
   err |-> IF fresh = DOMAIN t.symbols THEN "ok" ELSE "key already exists"]

(* _ion_symbol_table_initialize_indices_helper: the symbols are entered in *)
(* order, up to the first whose name is there already; with that error the *)
(* index stays active.  An id beyond the array is written outside of it,   *)
(* and is not found in it.                                                 *)
InitIndices(t) ==
  IF IndexActive(t) THEN Ok(t)
  ELSE Entered(t, Unrepeated(t.symbols), Larger(t.maxId + 1, DefaultSize))

(* The by-id array doubles, counting its entry 0. *)
GrownSize(t) == Larger(2 * (t.byIdMax + 1), DefaultSize)

GrowById(t, size) ==
  [t EXCEPT !.byIdMax = size - 1,
            !.byId = [sid \in 1..(size - 1) |-> IF sid \in DOMAIN @ THEN @[sid] ELSE Null]]

EnterLast(t) ==
  [t |-> [t EXCEPT !.byId[Last(t.symbols).sid] = Len(t.symbols),
                   !.byName = IF \E j \in @ : t.symbols[j].value = Last(t.symbols).value
                                THEN @ ELSE @ \cup {Len(t.symbols)}],
   err |-> IF \E j \in t.byName : t.symbols[j].value = Last(t.symbols).value
             THEN "key already exists" ELSE "ok"]

(* _ion_symbol_table_index_insert_helper, for the symbol just appended. *)
IndexInsert(t) ==
  EnterLast(IF Last(t.symbols).sid >= t.byIdMax THEN GrowById(t, GrownSize(t)) ELSE t)

(* What both lookups begin with. *)
IndexIfLarge(t) ==
  IF ~IndexActive(t) /\ t.maxId > Threshold THEN InitIndices(t) ELSE Ok(t)

PlaceOfSid(t, sid) ==
  IF ~IndexActive(t) THEN SelectInSeq(t.symbols, LAMBDA s : s.sid = sid)
  ELSE IF sid \in 1..t.byIdMax THEN t.byId[sid] ELSE Null

PlaceOfName(t, name) ==
  IF ~IndexActive(t) THEN SelectInSeq(t.symbols, LAMBDA s : s.value = name)
  ELSE LET hits == {i \in t.byName : t.symbols[i].value = name}
       IN IF hits = {} THEN Null ELSE CHOOSE i \in hits : TRUE

(* _ion_symbol_table_local_find_by_name: $<int> stands for that id when it *)
(* is not a symbol of its own.                                             *)
SidOfName(t, name) ==
  LET place == PlaceOfName(t, name)
  IN IF place # Null THEN t.symbols[place].sid
     ELSE IF name \in DOMAIN Numerals THEN Numerals[name]
     ELSE Unknown

-----------------------------------------------------------------------------
(* Symbols. *)

(* The list gets the symbol. *)
LocalAddUnindexed(t, name, sid, home, self) ==
  Ok([t EXCEPT !.symbols  = Append(@, [value |-> name, sid |-> sid, home |-> home]),
               !.maxId    = Larger(@, sid),
               !.hasLocal = @ \/ home = self])

(* _ion_symbol_table_local_add_symbol_helper: the node is in the list      *)
(* before the bytes of the name are looked at.                             *)
LocalAdd(t, name, sid, home, self) ==
  IF name \in BadNames
    THEN Fails([t EXCEPT !.symbols =
                  Append(@, [value |-> None, sid |-> Unknown, home |-> Nowhere])],
               "invalid utf8")
    ELSE Then(LocalAddUnindexed(t, name, sid, home, self),
              LAMBDA u : IF IndexActive(u) THEN IndexInsert(u) ELSE Ok(u))

NextSid(t) == t.maxId + 1

(* Mutant of AddUnlessFound: the lock is forgotten. *)
AddUnlessFoundUnlocked(t, found, name, self) ==
  IF found # Unknown THEN Ok(t) ELSE LocalAdd(t, name, NextSid(t), self, self)

AddUnlessFound(t, found, name, self) ==
  IF found # Unknown THEN Ok(t)
  ELSE IF t.locked THEN Fails(t, "immutable")
  ELSE LocalAdd(t, name, NextSid(t), self, self)

(* _ion_symbol_table_add_symbol_helper. *)
AddSymbol(t, name, self) ==
  Then(IndexIfLarge(t), LAMBDA u : AddUnlessFound(u, SidOfName(u, name), name, self))

AddUnlessDuplicate(t, found, name, sid, home, self) ==
  IF found = sid THEN Ok(t)
  ELSE IF found # Unknown THEN Fails(t, "duplicate")
  ELSE LocalAdd(t, name, sid, home, self)

(* _ion_symbol_table_add_symbol_and_sid_helper. *)
AddSymbolAndSid(t, name, sid, home, self) ==
  IF t.locked THEN Fails(t, "immutable")
  ELSE Then(IndexIfLarge(t), LAMBDA u :
         AddUnlessDuplicate(u, SidOfName(u, name), name, sid, home, self))

-----------------------------------------------------------------------------
(* Imports. *)

(* Mutant of ImportedSid: duplicates leave a gap. *)
ImportedSidGapped(sym, base, duplicates) == sym.sid + base

(* An imported id is offset by the number of symbols there were, less the  *)
(* symbols of the import that were there already.                          *)
ImportedSid(sym, base, duplicates) == sym.sid + base - duplicates

(* One more symbol of the import: r is how adding it ended. *)
Incorporated(acc, r) ==
  IF r.err = "duplicate"
    THEN [t |-> r.t, err |-> "ok", duplicates |-> acc.duplicates + 1]
    ELSE [t |-> r.t, err |-> r.err, duplicates |-> acc.duplicates]

IncorporateSymbol(acc, sym, maxId, base, self) ==
  IF acc.err # "ok" \/ sym.sid > maxId THEN acc
  ELSE Incorporated(acc, AddSymbolAndSid(acc.t, sym.value,
         ImportedSid(sym, base, acc.duplicates), sym.home, self))

(* _ion_symbol_table_local_incorporate_symbols: the max_id the import      *)
(* asked for is not used.                                                  *)
Incorporate(t, import, self) ==
  LET after[n \in 0..Len(import.symbols)] ==
        IF n = 0 THEN [t |-> t, err |-> "ok", duplicates |-> 0]
        ELSE IncorporateSymbol(after[n - 1], import.symbols[n], import.maxId,
                               Len(t.symbols), self)
  IN after[Len(import.symbols)]

EmptyTable ==
  [name |-> None, version |-> 0, maxId |-> 0, locked |-> FALSE, hasLocal |-> FALSE,
   imports |-> <<>>, symbols |-> <<>>, byIdMax |-> 0, byId |-> <<>>, byName |-> {},
   owner |-> None]

(* _ion_symbol_table_local_make_system_symbol_table_helper. *)
SystemTable ==
  LET filled == [EmptyTable EXCEPT
        !.name    = "$ion", !.version = 1, !.maxId = Len(SystemNames), !.hasLocal = TRUE,
        !.symbols = [i \in DOMAIN SystemNames |->
                       [value |-> SystemNames[i], sid |-> i, home |-> System]]]
  IN [InitIndices(filled).t EXCEPT !.locked = TRUE]

(* _ion_symbol_table_open_helper, as ion_symbol_table_open calls it. *)
OpenTable(owner, self) ==
  Incorporate([EmptyTable EXCEPT !.owner = owner], SystemTable, self).t

(* _ion_symbol_table_create_substitute: for an import no catalog has. *)
Substitute(import) ==
  [OpenTable(None, Nowhere) EXCEPT
     !.name = import.name, !.version = import.version, !.maxId = import.maxId]

ImportOf(t) == [name |-> t.name, version |-> t.version, maxId |-> t.maxId]

(* _ion_symbol_table_import_symbol_table_helper. *)
ImportSymbolTable(t, import, self) ==
  IF t.locked THEN Fails(t, "immutable")
  ELSE Incorporate([t EXCEPT !.imports = Append(@, ImportOf(import))], import, self)

-----------------------------------------------------------------------------
(* Whole tables. *)

(* _ion_symbol_table_lock_helper. *)
LockTable(t) ==
  IF t.locked THEN Ok(t)
  ELSE Then(IF t.maxId > 0 THEN InitIndices(t) ELSE Ok(t),
            LAMBDA u : Ok([u EXCEPT !.locked = TRUE]))

IsLocal(t) == t.name = None

(* Mutant of CloneTable: the copies still belong to the table copied. *)
CloneTableSharing(t, owner, from, to) ==
  [t EXCEPT !.locked = FALSE, !.hasLocal = FALSE, !.owner = owner,
            !.version = IF IsLocal(t) THEN 0 ELSE @,
            !.byIdMax = 0, !.byId = <<>>, !.byName = {}]

(* _ion_symbol_table_clone_with_owner_helper: neither the lock nor         *)
(* has_local_symbols is copied, and a local table's version is not either. *)
CloneTable(t, owner, from, to) ==
  [t EXCEPT !.locked = FALSE, !.hasLocal = FALSE, !.owner = owner,
            !.version = IF IsLocal(t) THEN 0 ELSE @,
            !.byIdMax = 0, !.byId = <<>>, !.byName = {},
            !.symbols = [i \in DOMAIN @ |->
               IF @[i].home = from THEN [@[i] EXCEPT !.home = to] ELSE @[i]]]

-----------------------------------------------------------------------------
(* What calls keep true of a table. *)

(* The places of a table's symbols. *)
Places(t) == 0..Len(t.symbols)

Distinct(symbols) ==
  \A i, j \in DOMAIN symbols : symbols[i].value = symbols[j].value => i = j

(* The ids are 1..max_id, in order, one per name. *)
Dense(t) ==
  /\ t.maxId = Len(t.symbols) /\ Distinct(t.symbols)
  /\ \A i \in DOMAIN t.symbols : t.symbols[i].sid = i

(* Both indices have all symbols, or there are none. *)
Indexed(t) ==
  IF IndexActive(t)
    THEN /\ Len(t.byId) = t.byIdMax /\ Len(t.symbols) <= t.byIdMax
         /\ \A sid \in 1..t.byIdMax : t.byId[sid] = IF sid <= Len(t.symbols) THEN sid ELSE Null
         /\ t.byName = DOMAIN t.symbols
    ELSE t.byId = <<>> /\ t.byName = {}
=============================================================================
