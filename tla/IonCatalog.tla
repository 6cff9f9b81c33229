----------------------------- MODULE IonCatalog -----------------------------
(***************************************************************************)
(* Symbol tables at work: the tables a program opens, names, fills, locks  *)
(* and clones, a catalog of shared tables (ion_catalog.c), and the way a   *)
(* local table takes through a document: a writer serializes its imports   *)
(* and its own symbols, a reader builds a table from them with the         *)
(* catalog it has.                                                         *)
(*                                                                         *)
(* tabs[h] is the table with address h.  doc is the last table written,    *)
(* with the names its ids had (ids), which the properties compare with.    *)
(***************************************************************************)
EXTENDS IonSymbolTable

CONSTANTS
  Handles,       \* addresses of tables
  Free,          \* no table
  Names,         \* the symbols callers add and look up
  TableNames,    \* the names of shared tables
  Versions,      \* the versions of shared tables
  MaxIds,        \* what callers pass to set_max_sid
  Prepared,      \* the programs: the tables they start with, and their catalogs
  Careless,      \* the misuses explored, below
  MaxCalls       \* the number of calls explored

ASSUME CatalogAssumption ==
  /\ Handles \subseteq Nat \ {0} /\ Versions \subseteq Nat \ {0}
  /\ MaxIds \subseteq Nat /\ MaxCalls \in Nat
  /\ Names \subseteq Text /\ TableNames \subseteq Text \ {None}
  /\ Free \notin Tables

VARIABLES
  tabs,          \* the table at each address, or Free
  cat,           \* table_list of the catalog: addresses
  doc,           \* the last local table written
  res,           \* what the last call returned
  calls          \* how many calls were made

vars == <<tabs, cat, doc, res, calls>>

Live == {h \in Handles : tabs[h] # Free}

(* New tables take the addresses in order. *)
Fresh(h) == tabs[h] = Free /\ \A g \in Handles : g < h => tabs[g] # Free

NoDoc == [imports |-> <<>>, locals |-> <<>>, byStruct |-> FALSE, maxId |-> 0, ids |-> <<>>]

-----------------------------------------------------------------------------
(* The catalog. *)

IsSystem(name, version) == name = SystemTable.name /\ version = SystemTable.version

(* Mutant of Better: candidates are compared with the wrong bound. *)
BetterOlder(candidate, best, version) ==
  IF version > 0 /\ candidate.version >= version
    THEN candidate.version <= best.version ELSE candidate.version < best.version

(* A later table of the name replaces the best so far. *)
Better(candidate, best, version) ==
  IF version > 0 /\ candidate.version >= version
    THEN candidate.version <= best.version ELSE candidate.version > best.version

(* _ion_catalog_find_best_match_helper: the loop ends at the version asked *)
(* for.  The table found, or Free.                                         *)
BestOf(best, candidate, name, version) ==
  IF candidate.name # name \/ (best # Free /\ best.version = version) THEN best
  ELSE IF best = Free \/ Better(candidate, best, version) THEN candidate
  ELSE best

BestMatch(tables, name, version) ==
  LET best[n \in 0..Len(tables)] ==
        IF n = 0 THEN Free ELSE BestOf(best[n - 1], tables[n], name, version)
  IN IF IsSystem(name, version) THEN SystemTable ELSE best[Len(tables)]

TablesOf(slots) == [i \in DOMAIN slots |-> tabs[slots[i]]]

(* _ion_symbol_table_add_import_helper, with the catalog's tables. *)
AddImport(t, import, tables, self) ==
  LET best == BestMatch(tables, import.name, import.version)
  IN Incorporate(t, IF best = Free THEN Substitute(import) ELSE best, self)

-----------------------------------------------------------------------------
(* Documents. *)

(* The ids that stand for a name in t. *)
IdsOf(t) ==
  [sid \in {s \in 1..t.maxId : PlaceOfSid(t, s) # Null} |-> t.symbols[PlaceOfSid(t, sid)].value]

(* The symbols of the table at self that are its own. *)
LocalsOf(t, self) ==
  LET own[n \in 0..Len(t.symbols)] ==
        IF n = 0 THEN <<>>
        ELSE IF t.symbols[n].home = self THEN Append(own[n - 1], t.symbols[n])
        ELSE own[n - 1]
  IN own[Len(t.symbols)]

(* _ion_writer_binary_serialize_symbol_table: a list, or a struct with the *)
(* ids as field names when the ids after the first local one have gaps.    *)
Serialized(t, self) ==
  LET first == SelectInSeq(t.symbols, LAMBDA s : s.home = self)
  IN [imports |-> t.imports, locals |-> LocalsOf(t, self), maxId |-> 0, ids |-> IdsOf(t),
      byStruct |-> first # Null /\ \E i \in (first + 1)..Len(t.symbols) :
                                     t.symbols[i].sid # t.symbols[i - 1].sid + 1]

(* _ion_symbol_table_unload_helper of a local table. *)
Unloaded(t, self) ==
  [imports |-> t.imports, locals |-> LocalsOf(t, self), maxId |-> t.maxId,
   ids |-> IdsOf(t), byStruct |-> FALSE]

(* The imports of a document, one after the other. *)
ImportAll(t, imports, tables, self) ==
  LET after[n \in 0..Len(imports)] ==
        IF n = 0 THEN Ok(t)
        ELSE Then(after[n - 1], LAMBDA u : AddImport(u, imports[n], tables, self))
  IN after[Len(imports)]

AddLocals(t, d, base, self) ==
  LET after[n \in 0..Len(d.locals)] ==
        IF n = 0 THEN Ok(t)
        ELSE Then(after[n - 1], LAMBDA u :
               AddSymbolAndSid(u, d.locals[n].value,
                 IF d.byStruct THEN d.locals[n].sid ELSE base + n, self, self))
  IN after[Len(d.locals)]

(* _ion_reader_binary_local_load_symbol_table: local symbols are numbered  *)
(* from the symbols there are; one that is there already is an error.      *)
ReadTable(d, tables, self) ==
  Then(ImportAll([OpenTable("reader", self) EXCEPT
                    !.maxId = IF d.maxId > 0 THEN d.maxId ELSE @, !.imports = d.imports],
                 d.imports, tables, self),
       LAMBDA t : AddLocals(t, d, Len(t.symbols), self))

(* The symbols still without an id get the next ones. *)
Number(symbols, from, self) ==
  [i \in DOMAIN symbols |->
     IF symbols[i].sid = Unknown
       THEN [value |-> symbols[i].value, sid |-> from + i, home |-> self] ELSE symbols[i]]

NumberLocals(t, count, self) ==
  [t EXCEPT !.hasLocal = TRUE, !.maxId = @ + count,
            !.symbols = Number(@, t.maxId - Len(SystemNames), self)]

(* Mutant of NumberAndIndex: the index is built too early. *)
IndexAndNumber(t, count, self) == Ok(NumberLocals(InitIndices(t).t, count, self))

NumberAndIndex(t, count, self) == InitIndices(NumberLocals(t, count, self))

(* _ion_symbol_table_load_helper of a local table: the document's symbols  *)
(* are in the list, without ids, while the imports are added.              *)
LoadTable(d, tables, self) ==
  Then(ImportAll([OpenTable("reader", self) EXCEPT
                    !.imports = d.imports,
                    !.symbols = @ \o [i \in DOMAIN d.locals |->
                      [value |-> d.locals[i].value, sid |-> Unknown, home |-> Nowhere]]],
                 d.imports, tables, self),
       LAMBDA t : NumberAndIndex(t, Len(d.locals), self))

-----------------------------------------------------------------------------
(* Calls. *)

Call(result) == calls' = calls + 1 /\ res' = result
Result(op, h, err) == [op |-> op, h |-> h, err |-> err]

(* h's table becomes that of r, whether the call failed or not. *)
Update(op, h, r) ==
  /\ tabs' = [tabs EXCEPT ![h] = r.t]
  /\ Call(Result(op, h, r.err))
  /\ UNCHANGED <<cat, doc>>

(* A shared table is not changed once it has its name: what was imported   *)
(* from it, and what is written of it, would no longer agree.              *)
Private(h) == IsLocal(tabs[h]) \/ "change shared" \in Careless

Open(h) ==
  /\ Fresh(h)
  /\ Update("open", h, Ok(OpenTable("caller", h)))

Add(h, name) ==
  /\ h \in Live /\ Private(h)
  /\ name \in BadNames => "bad utf8" \in Careless
  /\ Update("add", h, AddSymbol(tabs[h], name, h))

(* ion_symbol_table_set_version and ion_symbol_table_set_name; a name and  *)
(* a version belong to one table.                                          *)
SetVersion(h, version) ==
  /\ h \in Live /\ Private(h)
  /\ Update("set", h, IF tabs[h].locked THEN Fails(tabs[h], "immutable")
                      ELSE Ok([tabs[h] EXCEPT !.version = version]))

SetName(h, name) ==
  /\ h \in Live /\ Private(h)
  /\ tabs[h].version > 0
  /\ \A g \in Live : tabs[g].name = name => tabs[g].version # tabs[h].version
  /\ Update("set", h, IF tabs[h].locked THEN Fails(tabs[h], "immutable")
                      ELSE Ok([tabs[h] EXCEPT !.name = name]))

(* ion_symbol_table_set_max_sid takes any id; one that leaves no gap and   *)
(* hides no symbol is the one there is.                                    *)
SetMaxSid(h, maxId) ==
  /\ h \in Live /\ Private(h)
  /\ maxId = tabs[h].maxId \/ "set max_id" \in Careless
  /\ Update("set", h, IF tabs[h].locked THEN Fails(tabs[h], "immutable")
                      ELSE Ok([tabs[h] EXCEPT !.maxId = maxId]))

Lock(h) == h \in Live /\ Update("lock", h, LockTable(tabs[h]))

(* ion_symbol_table_find_by_name and _by_sid: a lookup may build the index. *)
Find(h) == h \in Live /\ Update("find", h, IndexIfLarge(tabs[h]))

(* ion_symbol_table_import_symbol_table; ASSERT(!has_local_symbols) ends   *)
(* the program, but a clone has forgotten its own.                         *)
Import(h, g) ==
  /\ h \in Live /\ g \in Live \ {h} /\ Private(h) /\ ~IsLocal(tabs[g])
  /\ ~tabs[h].hasLocal
  /\ LocalsOf(tabs[h], h) = <<>> \/ "import late" \in Careless
  /\ Update("import", h, ImportSymbolTable(tabs[h], tabs[g], h))

(* ion_writer_set_symbol_table with a shared table: its symbols, but not   *)
(* its import, go into a new local table.  (It refuses system tables, but  *)
(* takes only one named $ion_1_0 for such, which no table here is.)        *)
SetWriterTable(h, g) ==
  /\ Fresh(h) /\ g \in Live /\ ~IsLocal(tabs[g])
  /\ Update("set writer", h,
            AddImport(OpenTable("writer", h), ImportOf(tabs[g]), TablesOf(cat), h))

(* ion_symbol_table_clone. *)
Clone(h, g) ==
  /\ h \in Live /\ Fresh(g)
  /\ Update("clone", g, Ok(CloneTable(tabs[h], tabs[h].owner, h, g)))

(* ion_catalog_add_symbol_table.  _ion_catalog_find_symbol_table_helper    *)
(* reads a slot of the list as if it were a table: only the system table   *)
(* is ever found there already.                                            *)
AddTable(h, g) ==
  /\ h \in Live /\ ~IsLocal(tabs[h])
  /\ IF IsSystem(tabs[h].name, tabs[h].version)
       THEN g = h /\ UNCHANGED <<tabs, cat>>
       ELSE IF tabs[h].owner = "catalog"
       THEN g = h /\ cat' = Append(cat, h) /\ UNCHANGED tabs
       ELSE /\ Fresh(g)
            /\ tabs' = [tabs EXCEPT ![g] = CloneTable(tabs[h], "catalog", h, g)]
            /\ cat' = Append(cat, g)
  /\ Call(Result("catalog", h, "ok"))
  /\ UNCHANGED doc

(* ion_catalog_find_best_match. *)
FindBestMatch(name, version) ==
  /\ Call([op |-> "best", found |-> BestMatch(TablesOf(cat), name, version),
           name |-> name, version |-> version])
  /\ UNCHANGED <<tabs, cat, doc>>

(* A local table without name and version, as the writer asserts; what     *)
(* ion_writer_set_symbol_table imported is not said in the document.       *)
Write(h) ==
  /\ h \in Live /\ IsLocal(tabs[h]) /\ tabs[h].version = 0
  /\ tabs[h].owner # "writer" \/ "import unsaid" \in Careless
  /\ doc' \in {Serialized(tabs[h], h), Unloaded(tabs[h], h)}
  /\ Call(Result("write", h, "ok"))
  /\ UNCHANGED <<tabs, cat>>

(* The catalog gives each import of the document, as it was written. *)
Resolvable(d) ==
  \A import \in ToSet(d.imports) :
    LET best == BestMatch(TablesOf(cat), import.name, import.version)
    IN best # Free /\ ImportOf(best) = import

(* A document without imports and symbols leaves the reader no table. *)
Read(h) ==
  /\ Fresh(h)
  /\ doc.imports # <<>> \/ doc.locals # <<>>
  /\ Resolvable(doc) \/ "substitute" \in Careless
  /\ Update("read", h, ReadTable(doc, TablesOf(cat), h))

Load(h) ==
  /\ Fresh(h) /\ doc # NoDoc
  /\ doc.imports = <<>> \/ doc.locals = <<>> \/ "load both" \in Careless
  /\ Resolvable(doc) \/ "substitute" \in Careless
  /\ Update("read", h, LoadTable(doc, TablesOf(cat), h))

-----------------------------------------------------------------------------
(* A program starts with tables as the calls make them. *)

(* A table loaded from a shared one's document, or made by calls. *)
Begins(t) ==
  /\ t \in Tables /\ t.version > 0 /\ Dense(t)
  /\ Indexed(t)
  /\ \A i \in DOMAIN t.symbols :
       t.symbols[i].value \notin BadNames \cup DOMAIN Numerals

ASSUME PreparedAssumption ==
  \A p \in Prepared :
    /\ DOMAIN p.tables \subseteq Handles /\ p.cat \in Seq(DOMAIN p.tables)
    /\ \A i \in DOMAIN p.cat : ~IsLocal(p.tables[p.cat[i]])
    /\ \A h \in DOMAIN p.tables : LET t == p.tables[h] IN
         IF IsLocal(t) THEN t = OpenTable("caller", h)
         ELSE /\ Begins(t) /\ t.name # SystemTable.name
              /\ \A i \in DOMAIN t.symbols : t.symbols[i].home \in {System, h}
              /\ \A g \in DOMAIN p.tables :
                   p.tables[g].name = t.name /\ p.tables[g].version = t.version => g = h

Init ==
  /\ \E p \in Prepared :
       /\ tabs = [h \in Handles |-> IF h \in DOMAIN p.tables THEN p.tables[h] ELSE Free]
       /\ cat = p.cat
  /\ doc = NoDoc /\ res = Result("init", 0, "ok") /\ calls = 0

Next ==
  /\ calls < MaxCalls
  /\ \/ \E h \in Handles : Open(h)
     \/ \E h \in Handles, name \in Names : Add(h, name)
     \/ \E h \in Handles, version \in Versions : SetVersion(h, version)
     \/ \E h \in Handles, name \in TableNames : SetName(h, name)
     \/ \E h \in Handles, maxId \in MaxIds : SetMaxSid(h, maxId)
     \/ \E h \in Handles : Lock(h)
     \/ \E h \in Handles : Find(h)
     \/ \E h, g \in Handles : Import(h, g)
     \/ \E h, g \in Handles : SetWriterTable(h, g)
     \/ \E h, g \in Handles : Clone(h, g)
     \/ \E h, g \in Handles : AddTable(h, g)
     \/ \E name \in TableNames, version \in Versions \cup {0} : FindBestMatch(name, version)
     \/ \E h \in Handles : Write(h)
     \/ \E h \in Handles : Read(h)
     \/ \E h \in Handles : Load(h)

Spec == Init /\ [][Next]_vars

-----------------------------------------------------------------------------
(* Properties. *)

(* Imports take their ids from the number of symbols and new symbols from  *)
(* max_id: the two agree as long as the ids of every table are 1..max_id,  *)
(* in order, one per name.                                                 *)
SidsDense == \A h \in Live : Dense(tabs[h])

(* An active index answers as the list does, for every id and name of the  *)
(* table, and points nowhere else, through growth, locks, imports, lookups *)
(* in the middle and loads.                                                *)
IndexAgrees ==
  \A h \in Live : LET t == tabs[h] IN
    /\ DOMAIN t.byId = 1..t.byIdMax
    /\ IndexActive(t) =>
         /\ \A i \in DOMAIN t.symbols : /\ PlaceOfSid(t, t.symbols[i].sid) = i
                                       /\ PlaceOfName(t, t.symbols[i].value) = i
         /\ \A sid \in DOMAIN t.byId : t.byId[sid] \in Places(t)
         /\ t.byName \subseteq Places(t)

(* A reader of the document gives every id the name it had for the writer. *)
ReadBack ==
  res.op = "read" => /\ res.err = "ok"
                     /\ IdsOf(tabs[res.h]) = doc.ids

(* A version of 0 asks for the newest ("or newest version of a symtab pass *)
(* in version == 0", ion_catalog.h), wherever in the catalog it is.        *)
NewestFound ==
  res.op = "best" /\ res.version = 0 =>
    LET named == {h \in ToSet(cat) : tabs[h].name = res.name}
    IN IF named = {} THEN res.found = Free
       ELSE \A h \in named : res.found # Free /\ res.found.version >= tabs[h].version

(* A symbol, once in a table, keeps its name, id and place, whatever calls *)
(* on this and other tables follow; a locked table gets no more of them.   *)
SidsStable ==
  [][\A h \in Live :
       /\ tabs'[h] # Free
       /\ IsPrefix(tabs[h].symbols, tabs'[h].symbols)
       /\ tabs[h].locked => /\ tabs'[h].locked
                            /\ tabs'[h].symbols = tabs[h].symbols
                            /\ ImportOf(tabs'[h]) = ImportOf(tabs[h])]_vars
=============================================================================
