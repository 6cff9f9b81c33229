-------------------------- MODULE IonCatalogProofs --------------------------
(***************************************************************************)
(* What holds of the tables and the catalog of IonCatalog.                 *)
(***************************************************************************)
EXTENDS IonCatalog, IonSymbolTableProofs, SequenceTheorems

-----------------------------------------------------------------------------
(* The operations of IonCatalog on any tables. *)

LEMMA BestMatchUnfolds ==
  ASSUME NEW tables \in Seq(Tables), NEW name, NEW version
  PROVE  \E best : /\ best \in [0..Len(tables) -> Tables \cup {Free}]
                   /\ best[0] = Free
                   /\ \A n \in 1..Len(tables) :
                        best[n] = BestOf(best[n - 1], tables[n], name, version)
                   /\ BestMatch(tables, name, version) =
                        IF IsSystem(name, version) THEN SystemTable ELSE best[Len(tables)]
<1> DEFINE k == Len(tables)
           S == Tables \cup {Free}
           Step(b, n) == BestOf(b, tables[n], name, version)
           F == [p \in S \X (1..k) |-> Step(p[1], p[2])]
           best[n \in 0..k] == IF n = 0 THEN Free ELSE Step(best[n - 1], n)
<1>1. k \in Nat /\ \A n \in 1..k : tables[n] \in S
  OBVIOUS
<1>2. Free \in S
  OBVIOUS
<1> HIDE DEF S
<1>3. \A b \in S, n \in 1..k : Step(b, n) \in S
  BY <1>1 DEF BestOf
<1> HIDE DEF Step, k
<1>4. F \in [S \X (1..k) -> S]
  BY <1>3
<1>5. \A b \in S, n \in 1..k : F[<<b, n>>] = Step(b, n)
  OBVIOUS
<1>6. Steps(F, S, k)
  BY <1>4 DEF Steps
<1> HIDE DEF F
<1>7. PICK f : Iterates(f, S, k, Free, F)
  BY <1>1, <1>2, <1>6, RecursionExists
<1>8. /\ f \in [0..k -> S] /\ f[0] = Free
      /\ \A n \in 1..k : f[n] = F[<<f[n - 1], n>>]
  BY <1>7 DEF Iterates
<1>9. \A n \in 1..k : f[n] = Step(f[n - 1], n)
  <2>1. \A n \in 1..k : f[n - 1] \in S
    BY <1>1, <1>8
  <2> QED BY <1>5, <1>8, <2>1
<1>10. f = [n \in 0..k |-> IF n = 0 THEN Free ELSE Step(f[n - 1], n)]
  <2>1. \A n \in 0..k : n = 0 \/ n \in 1..k
    BY <1>1
  <2> QED BY <1>8, <1>9, <2>1
<1>11. best = [n \in 0..k |-> IF n = 0 THEN Free ELSE Step(best[n - 1], n)]
  BY <1>10
<1> HIDE DEF best
<1>12. best \in [0..k -> S]
  <2> DEFINE P == { n \in 0..k : best[n] \in S }
  <2>1. 0 \in P
    BY <1>1, <1>2, <1>11
  <2>2. ASSUME NEW n \in 1..k, n - 1 \in P
        PROVE  n \in P
    <3>1. n \in 0..k /\ n # 0
      OBVIOUS
    <3>2. best[n] = Step(best[n - 1], n)
      BY <1>11, <3>1
    <3> QED BY <1>3, <2>2, <3>1, <3>2
  <2>3. P \in SUBSET (0..k)
    OBVIOUS
  <2>4. P = 0..k
    <3> HIDE DEF P
    <3> QED BY <1>1, <2>1, <2>2, <2>3, UpTo
  <2>5. \A n \in 0..k : best[n] \in S
    BY <2>4
  <2> QED BY <1>11, <2>5
<1>13. best[0] = Free /\ \A n \in 1..k : best[n] = Step(best[n - 1], n)
  <2>1. \A n \in 1..k : n \in 0..k /\ n # 0
    OBVIOUS
  <2>2. 0 \in 0..k
    BY <1>1
  <2> QED BY <1>11, <2>1, <2>2
<1>14. BestMatch(tables, name, version) =
         IF IsSystem(name, version) THEN SystemTable ELSE best[k]
  BY DEF BestMatch, best, k, Step
<1> QED BY <1>12, <1>13, <1>14 DEF S, k, Step

LEMMA BestMatchIs ==
  ASSUME NEW tables \in Seq(Tables), NEW name, NEW version
  PROVE  BestMatch(tables, name, version) \in Tables \cup {Free}
<1>1. PICK best : /\ best \in [0..Len(tables) -> Tables \cup {Free}]
                  /\ BestMatch(tables, name, version) =
                       IF IsSystem(name, version) THEN SystemTable ELSE best[Len(tables)]
  BY BestMatchUnfolds
<1>2. Len(tables) \in 0..Len(tables)
  OBVIOUS
<1> QED BY <1>1, <1>2, SystemTableIs

LEMMA AddImportIs ==
  ASSUME NEW t \in Tables, NEW import \in Imports, NEW tables \in Seq(Tables), NEW self
  PROVE  LET r == AddImport(t, import, tables, self)
         IN r \in Progress /\ Grown(r.t, t)
<1> DEFINE best == BestMatch(tables, import.name, import.version)
           from == IF best = Free THEN Substitute(import) ELSE best
<1>1. best \in Tables \cup {Free}
  BY BestMatchIs
<1>2. AddImport(t, import, tables, self) = Incorporate(t, from, self)
  BY DEF AddImport
<1> HIDE DEF best
<1>3. from \in Tables
  BY <1>1, SubstituteIs
<1> HIDE DEF from
<1> QED BY <1>2, <1>3, IncorporateIs

LEMMA LocalsOfUnfolds ==
  ASSUME NEW t \in Tables, NEW self
  PROVE  \E own : /\ own \in [0..Len(t.symbols) -> Seq(Symbols)]
                  /\ own[0] = <<>>
                  /\ \A n \in 1..Len(t.symbols) :
                       own[n] = IF t.symbols[n].home = self
                                  THEN Append(own[n - 1], t.symbols[n]) ELSE own[n - 1]
                  /\ LocalsOf(t, self) = own[Len(t.symbols)]
<1> DEFINE k == Len(t.symbols)
           S == Seq(Symbols)
           Step(s, n) == IF t.symbols[n].home = self THEN Append(s, t.symbols[n]) ELSE s
           F == [p \in S \X (1..k) |-> Step(p[1], p[2])]
           own[n \in 0..k] == IF n = 0 THEN <<>>
                              ELSE IF t.symbols[n].home = self
                                THEN Append(own[n - 1], t.symbols[n])
                              ELSE own[n - 1]
<1>1. k \in Nat /\ \A n \in 1..k : t.symbols[n] \in Symbols
  BY DEF Tables
<1>2. <<>> \in S
  OBVIOUS
<1>3. \A s \in S, n \in 1..k : Step(s, n) \in S
  BY <1>1
<1> HIDE DEF S, k
<1>4. \A s \in S, n \in 1..k : F[<<s, n>>] = Step(s, n)
  OBVIOUS
<1>5. Steps(F, S, k)
  <2> HIDE DEF Step
  <2> QED BY <1>3 DEF Steps
<1> HIDE DEF F
<1>6. PICK f : Iterates(f, S, k, <<>>, F)
  BY <1>1, <1>2, <1>5, RecursionExists
<1>7. /\ f \in [0..k -> S] /\ f[0] = <<>>
      /\ \A n \in 1..k : f[n] = F[<<f[n - 1], n>>]
  BY <1>6 DEF Iterates
<1>8. \A n \in 1..k : f[n] = Step(f[n - 1], n)
  <2>1. \A n \in 1..k : f[n - 1] \in S
    BY <1>1, <1>7
  <2> QED BY <1>4, <1>7, <2>1
<1>9. f = [n \in 0..k |-> IF n = 0 THEN <<>>
                          ELSE IF t.symbols[n].home = self
                            THEN Append(f[n - 1], t.symbols[n])
                          ELSE f[n - 1]]
  <2>1. \A n \in 0..k : n = 0 \/ n \in 1..k
    BY <1>1
  <2>2. \A n \in 0..k : f[n] = IF n = 0 THEN <<>> ELSE Step(f[n - 1], n)
    BY <1>7, <1>8, <2>1
  <2> QED BY <1>7, <2>2
<1>10. own = [n \in 0..k |-> IF n = 0 THEN <<>>
                             ELSE IF t.symbols[n].home = self
                               THEN Append(own[n - 1], t.symbols[n])
                             ELSE own[n - 1]]
  BY <1>9
<1> HIDE DEF own
<1>11. own[0] = <<>> /\ \A n \in 1..k : own[n] = Step(own[n - 1], n)
  <2>1. \A n \in 1..k : n \in 0..k /\ n # 0
    OBVIOUS
  <2>2. 0 \in 0..k
    BY <1>1
  <2> QED BY <1>10, <2>1, <2>2
<1>12. own \in [0..k -> S]
  <2> HIDE DEF Step
  <2> DEFINE P == { n \in 0..k : own[n] \in S }
  <2>1. 0 \in P
    BY <1>1, <1>2, <1>11
  <2>2. ASSUME NEW n \in 1..k, n - 1 \in P
        PROVE  n \in P
    BY <1>3, <1>11, <2>2
  <2>3. P \in SUBSET (0..k)
    OBVIOUS
  <2>4. P = 0..k
    <3> HIDE DEF P
    <3> QED BY <1>1, <2>1, <2>2, <2>3, UpTo
  <2>5. \A n \in 0..k : own[n] \in S
    BY <2>4
  <2> QED BY <1>10, <2>5
<1>13. LocalsOf(t, self) = own[k]
  BY DEF LocalsOf, own, k
<1> QED BY <1>11, <1>12, <1>13 DEF S, k

LEMMA LocalsOfIs ==
  ASSUME NEW t \in Tables, NEW self
  PROVE  LocalsOf(t, self) \in Seq(Symbols)
<1>1. PICK own : /\ own \in [0..Len(t.symbols) -> Seq(Symbols)]
                 /\ LocalsOf(t, self) = own[Len(t.symbols)]
  BY LocalsOfUnfolds
<1>2. Len(t.symbols) \in 0..Len(t.symbols)
  BY DEF Tables
<1> QED BY <1>1, <1>2

(* What a call on a table returns: adding an import also counts the symbols *)
(* that were there.                                                         *)
Returns == Results \cup Progress

LEMMA ReturnsIs ==
  ASSUME NEW r \in Returns
  PROVE  r.t \in Tables /\ r.err \in Errors
BY DEF Returns, Results, Progress

ImportAfter(t, imports, tables, self, after) ==
  /\ after \in [0..Len(imports) -> Returns]
  /\ after[0] = Ok(t)
  /\ \A n \in 1..Len(imports) :
       after[n] = IF after[n - 1].err = "ok"
                    THEN AddImport(after[n - 1].t, imports[n], tables, self) ELSE after[n - 1]

LEMMA ImportAllUnfolds ==
  ASSUME NEW t \in Tables, NEW imports \in Seq(Imports), NEW tables \in Seq(Tables), NEW self
  PROVE  \E after : /\ ImportAfter(t, imports, tables, self, after)
                    /\ ImportAll(t, imports, tables, self) = after[Len(imports)]
<1> DEFINE k == Len(imports)
           S == Returns
           Step(r, n) == IF r.err = "ok" THEN AddImport(r.t, imports[n], tables, self) ELSE r
           F == [p \in S \X (1..k) |-> Step(p[1], p[2])]
           after[n \in 0..k] ==
             IF n = 0 THEN Ok(t)
             ELSE Then(after[n - 1], LAMBDA u : AddImport(u, imports[n], tables, self))
<1>1. k \in Nat /\ \A n \in 1..k : imports[n] \in Imports
  OBVIOUS
<1>2. Ok(t) \in S
  BY DEF Ok, Returns, Results, Errors
<1>3. \A r \in S, n \in 1..k : Step(r, n) \in S
  BY <1>1, ReturnsIs, AddImportIs DEF Returns
<1> HIDE DEF S, k
<1>4. \A r \in S, n \in 1..k : F[<<r, n>>] = Step(r, n)
  OBVIOUS
<1>5. Steps(F, S, k)
  <2> HIDE DEF Step
  <2> QED BY <1>3 DEF Steps
<1> HIDE DEF F
<1>6. PICK f : Iterates(f, S, k, Ok(t), F)
  BY <1>1, <1>2, <1>5, RecursionExists
<1>7. /\ f \in [0..k -> S] /\ f[0] = Ok(t)
      /\ \A n \in 1..k : f[n] = F[<<f[n - 1], n>>]
  BY <1>6 DEF Iterates
<1>8. \A n \in 1..k : f[n] = Step(f[n - 1], n)
  <2>1. \A n \in 1..k : f[n - 1] \in S
    BY <1>1, <1>7
  <2> QED BY <1>4, <1>7, <2>1
<1>9. f = [n \in 0..k |-> IF n = 0 THEN Ok(t)
             ELSE IF f[n - 1].err = "ok"
               THEN AddImport(f[n - 1].t, imports[n], tables, self) ELSE f[n - 1]]
  <2>1. \A n \in 0..k : n = 0 \/ n \in 1..k
    BY <1>1
  <2>2. \A n \in 0..k : f[n] = IF n = 0 THEN Ok(t) ELSE Step(f[n - 1], n)
    BY <1>7, <1>8, <2>1
  <2> QED BY <1>7, <2>2
<1>10. after = [n \in 0..k |-> IF n = 0 THEN Ok(t)
             ELSE IF after[n - 1].err = "ok"
               THEN AddImport(after[n - 1].t, imports[n], tables, self) ELSE after[n - 1]]
  BY <1>9 DEF Then
<1> HIDE DEF after
<1>11. after[0] = Ok(t) /\ \A n \in 1..k : after[n] = Step(after[n - 1], n)
  <2>1. \A n \in 1..k : n \in 0..k /\ n # 0
    OBVIOUS
  <2>2. 0 \in 0..k
    BY <1>1
  <2> QED BY <1>10, <2>1, <2>2
<1>12. after \in [0..k -> S]
  <2> HIDE DEF Step
  <2> DEFINE P == { n \in 0..k : after[n] \in S }
  <2>1. 0 \in P
    BY <1>1, <1>2, <1>11
  <2>2. ASSUME NEW n \in 1..k, n - 1 \in P
        PROVE  n \in P
    BY <1>3, <1>11, <2>2
  <2>3. P \in SUBSET (0..k)
    OBVIOUS
  <2>4. P = 0..k
    <3> HIDE DEF P
    <3> QED BY <1>1, <2>1, <2>2, <2>3, UpTo
  <2>5. \A n \in 0..k : after[n] \in S
    BY <2>4
  <2> QED BY <1>10, <2>5
<1>13. ImportAll(t, imports, tables, self) = after[k]
  BY DEF ImportAll, after, k
<1> QED BY <1>11, <1>12, <1>13 DEF S, k, ImportAfter

LEMMA ImportAllIs ==
  ASSUME NEW t \in Tables, NEW imports \in Seq(Imports), NEW tables \in Seq(Tables), NEW self
  PROVE  LET r == ImportAll(t, imports, tables, self)
         IN r \in Returns /\ Grown(r.t, t)
<1> DEFINE k == Len(imports)
<1>1. PICK after : ImportAfter(t, imports, tables, self, after) /\ ImportAll(t, imports, tables, self) = after[k]
  BY ImportAllUnfolds
<1>2. k \in Nat /\ \A n \in 1..k : imports[n] \in Imports
  OBVIOUS
<1> HIDE DEF k
<1>3. /\ after \in [0..k -> Returns] /\ after[0] = Ok(t)
      /\ \A n \in 1..k :
           after[n] = IF after[n - 1].err = "ok"
                        THEN AddImport(after[n - 1].t, imports[n], tables, self) ELSE after[n - 1]
  BY <1>1 DEF ImportAfter, k
<1> DEFINE P == { n \in 0..k : Grown(after[n].t, t) }
<1>4. 0 \in P
  BY <1>2, <1>3, SameReflexive DEF Ok
<1>5. ASSUME NEW n \in 1..k, n - 1 \in P
      PROVE  n \in P
  <2> DEFINE r == after[n - 1]
             v == AddImport(after[n - 1].t, imports[n], tables, self)
  <2>1. r \in Returns /\ Grown(r.t, t)
    BY <1>3, <1>5
  <2>2. after[n] = IF r.err = "ok" THEN v ELSE r
    BY <1>3
  <2>3. r.t \in Tables
    BY <2>1, ReturnsIs
  <2>4. Grown(v.t, r.t)
    BY <1>2, <2>3, AddImportIs
  <2> HIDE DEF r, v
  <2>5. Grown(v.t, t)
    BY <2>1, <2>3, <2>4, GrownTransitive
  <2>6. Grown(after[n].t, t)
    BY <2>1, <2>2, <2>5
  <2> QED BY <2>6
<1>6. P \in SUBSET (0..k)
  OBVIOUS
<1>7. k \in P
  <2> HIDE DEF P
  <2> QED BY <1>2, <1>4, <1>5, <1>6, UpTo
<1> QED BY <1>1, <1>2, <1>3, <1>7

(* Adding the n-th symbol of document d. *)
AddLocal(t, d, n, base, self) ==
  AddSymbolAndSid(t, d.locals[n].value,
                  IF d.byStruct THEN d.locals[n].sid ELSE base + n, self, self)

LEMMA AddLocalIs ==
  ASSUME NEW t \in Tables, NEW d, d.locals \in Seq(Symbols), NEW n \in 1..Len(d.locals),
         NEW base \in Int, NEW self \in Int
  PROVE  LET r == AddLocal(t, d, n, base, self)
         IN r \in Results /\ Grown(r.t, t)
<1> DEFINE sid == IF d.byStruct THEN d.locals[n].sid ELSE base + n
<1>1. d.locals[n] \in Symbols
  OBVIOUS
<1>2. d.locals[n].value \in Text /\ d.locals[n].sid \in Int /\ base + n \in Int
  BY <1>1 DEF Symbols
<1>3. sid \in Int
  BY <1>2
<1> HIDE DEF sid
<1>4. AddLocal(t, d, n, base, self) = AddSymbolAndSid(t, d.locals[n].value, sid, self, self)
  BY DEF AddLocal, sid
<1> QED BY <1>2, <1>3, <1>4, AddSymbolAndSidIs, AddSymbolAndSidEnds

LocalsAfter(t, d, base, self, after) ==
  /\ after \in [0..Len(d.locals) -> Returns]
  /\ after[0] = Ok(t)
  /\ \A n \in 1..Len(d.locals) :
       after[n] = IF after[n - 1].err = "ok"
                    THEN AddLocal(after[n - 1].t, d, n, base, self) ELSE after[n - 1]

LEMMA AddLocalsUnfolds ==
  ASSUME NEW t \in Tables, NEW d, d.locals \in Seq(Symbols), NEW base \in Int, NEW self \in Int
  PROVE  \E after : /\ LocalsAfter(t, d, base, self, after)
                    /\ AddLocals(t, d, base, self) = after[Len(d.locals)]
<1> DEFINE k == Len(d.locals)
           S == Returns
           Step(r, n) == IF r.err = "ok" THEN AddLocal(r.t, d, n, base, self) ELSE r
           F == [p \in S \X (1..k) |-> Step(p[1], p[2])]
           after[n \in 0..k] ==
             IF n = 0 THEN Ok(t)
             ELSE Then(after[n - 1], LAMBDA u : AddLocal(u, d, n, base, self))
<1>1. k \in Nat
  OBVIOUS
<1>2. Ok(t) \in S
  BY DEF Ok, Returns, Results, Errors
<1>3. \A r \in S, n \in 1..k : Step(r, n) \in S
  BY <1>1, ReturnsIs, AddLocalIs DEF Returns
<1> HIDE DEF S, k
<1>4. \A r \in S, n \in 1..k : F[<<r, n>>] = Step(r, n)
  OBVIOUS
<1>5. Steps(F, S, k)
  <2> HIDE DEF Step
  <2> QED BY <1>3 DEF Steps
<1> HIDE DEF F
<1>6. PICK f : Iterates(f, S, k, Ok(t), F)
  BY <1>1, <1>2, <1>5, RecursionExists
<1>7. /\ f \in [0..k -> S] /\ f[0] = Ok(t)
      /\ \A n \in 1..k : f[n] = F[<<f[n - 1], n>>]
  BY <1>6 DEF Iterates
<1>8. \A n \in 1..k : f[n] = Step(f[n - 1], n)
  <2>1. \A n \in 1..k : f[n - 1] \in S
    BY <1>1, <1>7
  <2> QED BY <1>4, <1>7, <2>1
<1>9. f = [n \in 0..k |-> IF n = 0 THEN Ok(t)
             ELSE IF f[n - 1].err = "ok"
               THEN AddLocal(f[n - 1].t, d, n, base, self) ELSE f[n - 1]]
  <2>1. \A n \in 0..k : n = 0 \/ n \in 1..k
    BY <1>1
  <2>2. \A n \in 0..k : f[n] = IF n = 0 THEN Ok(t) ELSE Step(f[n - 1], n)
    BY <1>7, <1>8, <2>1
  <2> QED BY <1>7, <2>2
<1>10. after = [n \in 0..k |-> IF n = 0 THEN Ok(t)
             ELSE IF after[n - 1].err = "ok"
               THEN AddLocal(after[n - 1].t, d, n, base, self) ELSE after[n - 1]]
  BY <1>9 DEF Then
<1> HIDE DEF after
<1>11. after[0] = Ok(t) /\ \A n \in 1..k : after[n] = Step(after[n - 1], n)
  <2>1. \A n \in 1..k : n \in 0..k /\ n # 0
    OBVIOUS
  <2>2. 0 \in 0..k
    BY <1>1
  <2> QED BY <1>10, <2>1, <2>2
<1>12. after \in [0..k -> S]
  <2> HIDE DEF Step
  <2> DEFINE P == { n \in 0..k : after[n] \in S }
  <2>1. 0 \in P
    BY <1>1, <1>2, <1>11
  <2>2. ASSUME NEW n \in 1..k, n - 1 \in P
        PROVE  n \in P
    BY <1>3, <1>11, <2>2
  <2>3. P \in SUBSET (0..k)
    OBVIOUS
  <2>4. P = 0..k
    <3> HIDE DEF P
    <3> QED BY <1>1, <2>1, <2>2, <2>3, UpTo
  <2>5. \A n \in 0..k : after[n] \in S
    BY <2>4
  <2> QED BY <1>10, <2>5
<1>13. AddLocals(t, d, base, self) = after[k]
  BY DEF AddLocals, AddLocal, after, k
<1> QED BY <1>11, <1>12, <1>13 DEF S, k, LocalsAfter

LEMMA AddLocalsIs ==
  ASSUME NEW t \in Tables, NEW d, d.locals \in Seq(Symbols), NEW base \in Int, NEW self \in Int
  PROVE  LET r == AddLocals(t, d, base, self)
         IN r \in Returns /\ Grown(r.t, t)
<1> DEFINE k == Len(d.locals)
<1>1. PICK after : LocalsAfter(t, d, base, self, after) /\ AddLocals(t, d, base, self) = after[k]
  BY AddLocalsUnfolds
<1>2. k \in Nat
  OBVIOUS
<1> HIDE DEF k
<1>3. /\ after \in [0..k -> Returns] /\ after[0] = Ok(t)
      /\ \A n \in 1..k :
           after[n] = IF after[n - 1].err = "ok"
                        THEN AddLocal(after[n - 1].t, d, n, base, self) ELSE after[n - 1]
  BY <1>1 DEF LocalsAfter, k
<1> DEFINE P == { n \in 0..k : Grown(after[n].t, t) }
<1>4. 0 \in P
  BY <1>2, <1>3, SameReflexive DEF Ok
<1>5. ASSUME NEW n \in 1..k, n - 1 \in P
      PROVE  n \in P
  <2> DEFINE r == after[n - 1]
             v == AddLocal(after[n - 1].t, d, n, base, self)
  <2>1. r \in Returns /\ Grown(r.t, t)
    BY <1>3, <1>5
  <2>2. after[n] = IF r.err = "ok" THEN v ELSE r
    BY <1>3
  <2>3. r.t \in Tables
    BY <2>1, ReturnsIs
  <2>4. Grown(v.t, r.t)
    BY <1>2, <2>3, AddLocalIs DEF k
  <2> HIDE DEF r, v
  <2>5. Grown(v.t, t)
    BY <2>1, <2>3, <2>4, GrownTransitive
  <2>6. Grown(after[n].t, t)
    BY <2>1, <2>2, <2>5
  <2> QED BY <2>6
<1>6. P \in SUBSET (0..k)
  OBVIOUS
<1>7. k \in P
  <2> HIDE DEF P
  <2> QED BY <1>2, <1>4, <1>5, <1>6, UpTo
<1> QED BY <1>1, <1>2, <1>3, <1>7

-----------------------------------------------------------------------------
(* Documents, and the tables read from them. *)

Document(d) ==
  /\ d.imports \in Seq(Imports) /\ d.locals \in Seq(Symbols) /\ d.maxId \in Nat

LEMMA ReadTableIs ==
  ASSUME NEW d, Document(d), NEW tables \in Seq(Tables), NEW self \in Int
  PROVE  LET r == ReadTable(d, tables, self)
         IN r.t \in Tables /\ IsLocal(r.t)
<1> DEFINE open == OpenTable("reader", self)
           t == [open EXCEPT !.maxId = IF d.maxId > 0 THEN d.maxId ELSE @, !.imports = d.imports]
           r == ImportAll(t, d.imports, tables, self)
<1>1. open \in Tables /\ IsLocal(open)
  BY OpenTableIs DEF Owners, IsLocal
<1> HIDE DEF open
<1>2. t \in Tables /\ IsLocal(t)
  BY <1>1 DEF Document, Tables, IsLocal
<1> HIDE DEF t
<1>3. r \in Returns /\ Grown(r.t, t)
  BY <1>2, ImportAllIs DEF Document
<1>4. ReadTable(d, tables, self) =
        IF r.err = "ok" THEN AddLocals(r.t, d, Len(r.t.symbols), self) ELSE r
  BY DEF ReadTable, Then, t, open
<1> HIDE DEF r
<1>5. r.t \in Tables /\ Len(r.t.symbols) \in Int
  BY <1>3, ReturnsIs DEF Tables
<1> DEFINE v == AddLocals(r.t, d, Len(r.t.symbols), self)
<1>6. v \in Returns /\ Grown(v.t, r.t)
  BY <1>5, AddLocalsIs DEF Document
<1> HIDE DEF v
<1>7. v.t \in Tables /\ IsLocal(v.t) /\ IsLocal(r.t)
  BY <1>2, <1>3, <1>6, ReturnsIs DEF Grown, IsLocal
<1> QED BY <1>4, <1>5, <1>7 DEF v

(* u is t with ids for its last symbols. *)
IsNumbered(u, t, count, self) ==
  /\ u \in Tables /\ u.name = t.name /\ u.version = t.version
  /\ u.imports = t.imports /\ u.owner = t.owner /\ u.maxId = t.maxId + count
  /\ u.byIdMax = t.byIdMax /\ u.byId = t.byId /\ u.byName = t.byName
  /\ Len(u.symbols) = Len(t.symbols)
  /\ \A i \in 1..Len(t.symbols) :
       u.symbols[i] = IF t.symbols[i].sid = Unknown
                        THEN [value |-> t.symbols[i].value,
                              sid |-> t.maxId - Len(SystemNames) + i, home |-> self]
                      ELSE t.symbols[i]

LEMMA NumberLocalsIs ==
  ASSUME NEW t \in Tables, NEW count \in Nat, NEW self \in Int
  PROVE  IsNumbered(NumberLocals(t, count, self), t, count, self)
<1> DEFINE from == t.maxId - Len(SystemNames)
           symbols == Number(t.symbols, from, self)
<1>1. from \in Int
  BY SymbolTableAssumption DEF Tables
<1>2. t.symbols \in Seq(Symbols) /\ Len(t.symbols) \in Nat /\ t.maxId + count \in Nat
  BY DEF Tables
<1> HIDE DEF from
<1>3. ASSUME NEW i \in 1..Len(t.symbols)
      PROVE  symbols[i] \in Symbols
  <2>1. t.symbols[i] \in Symbols
    BY <1>2
  <2>2. symbols[i] = IF t.symbols[i].sid = Unknown
                       THEN [value |-> t.symbols[i].value, sid |-> from + i, home |-> self]
                       ELSE t.symbols[i]
    BY <1>2 DEF Number
  <2>3. from + i \in Int
    BY <1>1
  <2> HIDE DEF symbols
  <2> QED BY <2>1, <2>2, <2>3 DEF Symbols
<1>4. symbols = [i \in 1..Len(t.symbols) |-> symbols[i]]
  BY <1>2 DEF Number
<1> HIDE DEF symbols
<1>5. symbols \in Seq(Symbols) /\ Len(symbols) = Len(t.symbols)
  BY <1>2, <1>3, <1>4, SequenceOf
<1> DEFINE u == [t EXCEPT !.hasLocal = TRUE, !.maxId = t.maxId + count, !.symbols = symbols]
<1>6. NumberLocals(t, count, self) = u
  BY DEF NumberLocals, symbols, from, Tables
<1>7. /\ u \in Tables /\ u.name = t.name /\ u.version = t.version
      /\ u.imports = t.imports /\ u.owner = t.owner /\ u.maxId = t.maxId + count
      /\ u.byIdMax = t.byIdMax /\ u.byId = t.byId /\ u.byName = t.byName
      /\ u.symbols = symbols
  BY <1>2, <1>5 DEF Tables
<1>8. \A i \in 1..Len(t.symbols) :
        symbols[i] = IF t.symbols[i].sid = Unknown
                       THEN [value |-> t.symbols[i].value,
                             sid |-> t.maxId - Len(SystemNames) + i, home |-> self]
                     ELSE t.symbols[i]
  BY <1>2 DEF symbols, Number, from
<1> HIDE DEF u
<1> QED BY <1>5, <1>6, <1>7, <1>8 DEF IsNumbered

LEMMA LoadTableIs ==
  ASSUME NEW d, Document(d), NEW tables \in Seq(Tables), NEW self \in Int
  PROVE  LET r == LoadTable(d, tables, self)
         IN r.t \in Tables /\ IsLocal(r.t)
<1> DEFINE open == OpenTable("reader", self)
           locals == [i \in DOMAIN d.locals |->
                        [value |-> d.locals[i].value, sid |-> Unknown, home |-> Nowhere]]
           t == [open EXCEPT !.imports = d.imports, !.symbols = @ \o locals]
           r == ImportAll(t, d.imports, tables, self)
           u == NumberLocals(r.t, Len(d.locals), self)
<1>1. open \in Tables /\ IsLocal(open)
  BY OpenTableIs DEF Owners, IsLocal
<1>2. locals \in Seq(Symbols)
  <2>1. \A i \in 1..Len(d.locals) : d.locals[i].value \in Text
    <3>1. \A i \in 1..Len(d.locals) : d.locals[i] \in Symbols
      BY DEF Document
    <3> QED BY <3>1 DEF Symbols
  <2>2. Unknown \in Int /\ Nowhere \in Int
    BY SMT DEF Unknown, Nowhere
  <2>3. DOMAIN d.locals = 1..Len(d.locals) /\ Len(d.locals) \in Nat
    BY DEF Document
  <2>4. \A i \in 1..Len(d.locals) : locals[i] \in Symbols
    BY <2>1, <2>2, <2>3 DEF Symbols
  <2>5. locals = [i \in 1..Len(d.locals) |-> locals[i]]
    BY <2>3
  <2> HIDE DEF locals
  <2> QED BY <2>3, <2>4, <2>5, SequenceOf
<1> HIDE DEF open, locals
<1>3. open.symbols \o locals \in Seq(Symbols)
  BY <1>1, <1>2 DEF Tables
<1>4. t \in Tables /\ IsLocal(t)
  BY <1>1, <1>3 DEF Document, Tables, IsLocal
<1> HIDE DEF t
<1>5. r \in Returns /\ Grown(r.t, t)
  BY <1>4, ImportAllIs DEF Document
<1>6. LoadTable(d, tables, self) = IF r.err = "ok" THEN InitIndices(u) ELSE r
  BY DEF LoadTable, NumberAndIndex, Then, t, open, locals
<1> HIDE DEF r
<1>7. r.t \in Tables /\ IsLocal(r.t)
  BY <1>4, <1>5 DEF Grown, IsLocal
<1>8. Len(d.locals) \in Nat
  BY DEF Document
<1>9. u \in Tables /\ IsLocal(u)
  BY <1>7, <1>8, NumberLocalsIs DEF IsLocal, IsNumbered
<1> HIDE DEF u
<1>10. InitIndices(u).t \in Tables /\ IsLocal(InitIndices(u).t)
  BY <1>9, InitIndicesIs DEF Same, IsLocal
<1> QED BY <1>6, <1>7, <1>10

-----------------------------------------------------------------------------
(* What every step does. *)

TypeOK ==
  /\ tabs \in [Handles -> Tables \cup {Free}]
  /\ cat \in Seq(Handles) /\ \A i \in 1..Len(cat) : tabs[cat[i]] # Free
  /\ Document(doc)

(* A shared table has a version, and a catalog has only shared tables. *)
Versioned ==
  /\ \A h \in Live : ~IsLocal(tabs[h]) => tabs[h].version > 0
  /\ \A i \in 1..Len(cat) : ~IsLocal(tabs[cat[i]])

(* u is a later state of table t. *)
Extends(u, t) ==
  /\ Len(u.symbols) >= Len(t.symbols)
  /\ \A i \in 1..Len(t.symbols) : u.symbols[i] = t.symbols[i]
  /\ IsLocal(u) => IsLocal(t)
  /\ t.locked => /\ u.locked /\ Len(u.symbols) = Len(t.symbols)
                 /\ ImportOf(u) = ImportOf(t)

(* The step that SidsStable allows. *)
Stable ==
  \A h \in Live :
       /\ tabs'[h] # Free
       /\ IsPrefix(tabs[h].symbols, tabs'[h].symbols)
       /\ tabs[h].locked => /\ tabs'[h].locked
                            /\ tabs'[h].symbols = tabs[h].symbols
                            /\ ImportOf(tabs'[h]) = ImportOf(tabs[h])

LEMMA LiveIs ==
  ASSUME TypeOK
  PROVE  /\ \A h \in Handles : h \in Live <=> tabs[h] # Free
         /\ \A h \in Live : h \in Handles /\ h \in Int /\ tabs[h] \in Tables
         /\ TablesOf(cat) \in Seq(Tables) /\ Len(TablesOf(cat)) = Len(cat)
         /\ \A i \in 1..Len(cat) : TablesOf(cat)[i] = tabs[cat[i]] /\ cat[i] \in Live
<1>1. /\ \A h \in Handles : h \in Live <=> tabs[h] # Free
      /\ \A h \in Live : h \in Handles /\ h \in Int /\ tabs[h] \in Tables
  BY CatalogAssumption DEF Live, TypeOK
<1>2. /\ Len(cat) \in Nat /\ DOMAIN cat = 1..Len(cat)
      /\ \A i \in 1..Len(cat) : cat[i] \in Handles /\ tabs[cat[i]] # Free
  BY DEF TypeOK
<1>3. \A i \in 1..Len(cat) : cat[i] \in Live
  BY <1>1, <1>2
<1> DEFINE s == TablesOf(cat)
<1>4. \A i \in 1..Len(cat) : s[i] = tabs[cat[i]]
  BY <1>2 DEF TablesOf
<1>5. s = [i \in 1..Len(cat) |-> s[i]]
  BY <1>2 DEF TablesOf
<1>6. \A i \in 1..Len(cat) : s[i] \in Tables
  BY <1>1, <1>3, <1>4
<1> HIDE DEF s
<1>7. s \in Seq(Tables) /\ Len(s) = Len(cat)
  BY <1>2, <1>5, <1>6, SequenceOf
<1> QED BY <1>1, <1>3, <1>4, <1>7 DEF s

LEMMA PrefixIs ==
  ASSUME NEW t \in Tables, NEW u \in Tables, Extends(u, t)
  PROVE  /\ IsPrefix(t.symbols, u.symbols)
         /\ Len(u.symbols) = Len(t.symbols) => u.symbols = t.symbols
<1> DEFINE S == t.symbols
           V == u.symbols
<1>1. S \in Seq(Symbols) /\ V \in Seq(Symbols)
  BY DEF Tables
<1>2. Len(V) >= Len(S) /\ \A i \in 1..Len(S) : V[i] = S[i]
  BY DEF Extends
<1> HIDE DEF S, V
<1>3. Len(S) <= Len(V) /\ Len(S) \in Nat /\ Len(V) \in Nat
  BY <1>1, <1>2
<1>4. SubSeq(S, 1, Len(S)) = SubSeq(V, 1, Len(S))
  <2>1. SubSeq(S, 1, Len(S)) = [i \in 1..Len(S) |-> S[i]]
    BY <1>1
  <2>2. SubSeq(V, 1, Len(S)) = [i \in 1..Len(S) |-> V[i]]
    BY <1>1, <1>3
  <2> QED BY <1>2, <2>1, <2>2
<1>5. Len(V) = Len(S) => V = S
  BY <1>1, <1>2
<1> QED BY <1>3, <1>4, <1>5 DEF S, V, IsPrefix

LEMMA UpdateIs ==
  ASSUME TypeOK, Versioned, NEW h \in Handles, NEW u \in Tables,
         tabs' = [tabs EXCEPT ![h] = u], UNCHANGED <<cat, doc>>,
         ~IsLocal(u) => u.version > 0,
         h \in Live => Extends(u, tabs[h])
  PROVE  TypeOK' /\ Versioned' /\ Stable
<1>1. u # Free
  BY CatalogAssumption
<1>2. tabs' \in [Handles -> Tables \cup {Free}] /\ tabs'[h] = u
      /\ \A g \in Handles \ {h} : tabs'[g] = tabs[g]
  BY DEF TypeOK
<1>3. /\ Len(cat) \in Nat /\ \A i \in 1..Len(cat) : cat[i] \in Handles /\ tabs[cat[i]] # Free
  BY DEF TypeOK
<1>4. \A i \in 1..Len(cat) : tabs'[cat[i]] # Free
  BY <1>1, <1>2, <1>3
<1>5. TypeOK'
  BY <1>2, <1>4 DEF TypeOK, Document
<1>6. Live' = Live \cup {h}
  BY <1>1, <1>2 DEF Live
<1>7. Versioned'
  <2>1. \A g \in Live' : ~IsLocal(tabs'[g]) => tabs'[g].version > 0
    <3>1. \A g \in Live : g \in Handles
      BY DEF Live
    <3> QED BY <1>2, <1>6, <3>1 DEF Versioned, IsLocal
  <2>2. ASSUME NEW i \in 1..Len(cat)
        PROVE  ~IsLocal(tabs'[cat[i]])
    <3>1. ~IsLocal(tabs[cat[i]]) /\ cat[i] \in Handles /\ cat[i] \in Live
      BY <1>3 DEF Versioned, Live
    <3>2. CASE cat[i] = h
      BY <1>2, <3>1, <3>2 DEF Extends
    <3>3. CASE cat[i] # h
      BY <1>2, <3>1, <3>3
    <3> QED BY <3>2, <3>3
  <2>3. cat' = cat
    OBVIOUS
  <2> QED BY <2>1, <2>2, <2>3 DEF Versioned, IsLocal
<1>8. Stable
  <2> SUFFICES ASSUME NEW g \in Live
               PROVE  /\ tabs'[g] # Free
                      /\ IsPrefix(tabs[g].symbols, tabs'[g].symbols)
                      /\ tabs[g].locked => /\ tabs'[g].locked
                                           /\ tabs'[g].symbols = tabs[g].symbols
                                           /\ ImportOf(tabs'[g]) = ImportOf(tabs[g])
    BY DEF Stable
  <2>1. g \in Handles /\ tabs[g] \in Tables
    BY LiveIs
  <2>2. Extends(tabs'[g], tabs[g]) /\ tabs'[g] \in Tables
    <3>1. CASE g = h
      BY <1>2, <3>1
    <3>2. CASE g # h
      <4>1. tabs'[g] = tabs[g]
        BY <1>2, <2>1, <3>2
      <4>2. Len(tabs[g].symbols) \in Nat
        BY <2>1 DEF Tables
      <4> QED BY <2>1, <4>1, <4>2 DEF Extends
    <3> QED BY <3>1, <3>2
  <2>3. IsPrefix(tabs[g].symbols, tabs'[g].symbols)
        /\ (Len(tabs'[g].symbols) = Len(tabs[g].symbols) => tabs'[g].symbols = tabs[g].symbols)
    BY <2>1, <2>2, PrefixIs
  <2> QED BY <2>2, <2>3, CatalogAssumption DEF Extends
<1> QED BY <1>5, <1>7, <1>8

LEMMA UnchangedIs ==
  ASSUME TypeOK, Versioned, UNCHANGED <<tabs, cat>>, Document(doc')
  PROVE  TypeOK' /\ Versioned' /\ Stable
<1>1. TypeOK' /\ Versioned'
  BY DEF TypeOK, Versioned, Live, Document, IsLocal
<1>2. Stable
  <2> SUFFICES ASSUME NEW g \in Live
               PROVE  tabs[g] # Free /\ IsPrefix(tabs[g].symbols, tabs[g].symbols)
    BY DEF Stable
  <2>1. tabs[g] \in Tables /\ tabs[g] # Free
    BY LiveIs DEF Live
  <2>2. Extends(tabs[g], tabs[g])
    <3>1. Len(tabs[g].symbols) \in Nat
      BY <2>1 DEF Tables
    <3> QED BY <3>1 DEF Extends
  <2> QED BY <2>1, <2>2, PrefixIs
<1> QED BY <1>1, <1>2

LEMMA GrownExtends ==
  ASSUME NEW t \in Tables, NEW u, Grown(u, t), ~t.locked \/ Same(u, t)
  PROVE  Extends(u, t)
<1>1. Len(t.symbols) \in Nat
  BY DEF Tables
<1> QED BY <1>1 DEF Grown, Same, Extends, IsLocal, ImportOf

LEMMA SameExtends ==
  ASSUME NEW t \in Tables, NEW u, Same(u, t)
  PROVE  Extends(u, t) /\ u \in Tables /\ IsLocal(u) = IsLocal(t) /\ u.version = t.version
BY SameGrown, GrownExtends DEF Same, IsLocal

LEMMA OpenStep ==
  ASSUME TypeOK, Versioned, NEW h \in Handles, Open(h)
  PROVE  TypeOK' /\ Versioned' /\ Stable /\ res'.op # "best"
<1> DEFINE u == OpenTable("caller", h)
<1>1. u \in Tables /\ IsLocal(u)
  BY OpenTableIs DEF Owners, IsLocal
<1>2. h \notin Live
  BY DEF Open, Fresh, Live
<1>3. tabs' = [tabs EXCEPT ![h] = u] /\ UNCHANGED <<cat, doc>>
  BY DEF Open, Update, Ok
<1>4. res'.op # "best"
  BY DEF Open, Update, Call, Result
<1> HIDE DEF u
<1> QED BY <1>1, <1>2, <1>3, <1>4, UpdateIs

LEMMA AddStep ==
  ASSUME TypeOK, Versioned, NEW h \in Handles, NEW name \in Names, Add(h, name)
  PROVE  TypeOK' /\ Versioned' /\ Stable /\ res'.op # "best"
<1> DEFINE t == tabs[h]
           u == AddSymbol(t, name, h).t
<1>1. t \in Tables /\ h \in Int /\ name \in Text /\ h \in Live
  BY LiveIs, CatalogAssumption DEF Add
<1>2. tabs' = [tabs EXCEPT ![h] = u] /\ UNCHANGED <<cat, doc>>
  BY DEF Add, Update
<1>3. res'.op # "best"
  BY DEF Add, Update, Call, Result
<1>4. Grown(u, t) /\ (t.locked => Same(u, t))
  BY <1>1, AddSymbolIs
<1> HIDE DEF u
<1>5. Extends(u, t) /\ u \in Tables /\ IsLocal(u) = IsLocal(t) /\ u.version = t.version
  BY <1>1, <1>4, GrownExtends DEF Grown, IsLocal
<1>6. ~IsLocal(u) => u.version > 0
  BY <1>1, <1>5 DEF Versioned
<1> QED BY <1>1, <1>2, <1>3, <1>5, <1>6, UpdateIs

(* What set_version, set_name and set_max_sid have in common. *)
LEMMA SetStep ==
  ASSUME TypeOK, Versioned, NEW h \in Live, NEW v \in Tables,
         Update("set", h, IF tabs[h].locked THEN Fails(tabs[h], "immutable") ELSE Ok(v)),
         v.symbols = tabs[h].symbols,
         IsLocal(v) => IsLocal(tabs[h]), ~IsLocal(v) => v.version > 0
  PROVE  TypeOK' /\ Versioned' /\ Stable /\ res'.op # "best"
<1> DEFINE t == tabs[h]
           u == IF t.locked THEN t ELSE v
<1>1. t \in Tables /\ h \in Handles
  BY LiveIs
<1>2. tabs' = [tabs EXCEPT ![h] = u] /\ UNCHANGED <<cat, doc>>
  BY DEF Update, Ok, Fails
<1>3. res'.op # "best"
  BY DEF Update, Call, Result
<1>4. u \in Tables /\ (~IsLocal(u) => u.version > 0)
  BY <1>1 DEF Versioned
<1>5. Extends(u, t)
  <2>1. Len(t.symbols) \in Nat
    BY <1>1 DEF Tables
  <2> QED BY <2>1 DEF Extends
<1> HIDE DEF u
<1> QED BY <1>1, <1>2, <1>3, <1>4, <1>5, UpdateIs

LEMMA SetVersionStep ==
  ASSUME TypeOK, Versioned, NEW h \in Handles, NEW version \in Versions, SetVersion(h, version)
  PROVE  TypeOK' /\ Versioned' /\ Stable /\ res'.op # "best"
<1> DEFINE v == [tabs[h] EXCEPT !.version = version]
<1>1. h \in Live /\ tabs[h] \in Tables /\ version \in Nat /\ version > 0
  BY LiveIs, CatalogAssumption DEF SetVersion
<1>2. v \in Tables /\ v.symbols = tabs[h].symbols /\ v.name = tabs[h].name
      /\ v.version = version
  BY <1>1 DEF Tables
<1>3. Update("set", h, IF tabs[h].locked THEN Fails(tabs[h], "immutable") ELSE Ok(v))
  BY DEF SetVersion
<1> HIDE DEF v
<1> QED BY <1>1, <1>2, <1>3, SetStep DEF IsLocal

LEMMA SetNameStep ==
  ASSUME TypeOK, Versioned, NEW h \in Handles, NEW name \in TableNames, SetName(h, name)
  PROVE  TypeOK' /\ Versioned' /\ Stable /\ res'.op # "best"
<1> DEFINE v == [tabs[h] EXCEPT !.name = name]
<1>1. h \in Live /\ tabs[h] \in Tables /\ name \in Text /\ name # None
  BY LiveIs, CatalogAssumption DEF SetName
<1>2. v \in Tables /\ v.symbols = tabs[h].symbols /\ v.name = name
      /\ v.version = tabs[h].version
  BY <1>1 DEF Tables
<1>3. Update("set", h, IF tabs[h].locked THEN Fails(tabs[h], "immutable") ELSE Ok(v))
      /\ tabs[h].version > 0
  BY DEF SetName
<1> HIDE DEF v
<1> QED BY <1>1, <1>2, <1>3, SetStep DEF IsLocal

LEMMA SetMaxSidStep ==
  ASSUME TypeOK, Versioned, NEW h \in Handles, NEW maxId \in MaxIds, SetMaxSid(h, maxId)
  PROVE  TypeOK' /\ Versioned' /\ Stable /\ res'.op # "best"
<1> DEFINE v == [tabs[h] EXCEPT !.maxId = maxId]
<1>1. h \in Live /\ tabs[h] \in Tables /\ maxId \in Nat
  BY LiveIs, CatalogAssumption DEF SetMaxSid
<1>2. v \in Tables /\ v.symbols = tabs[h].symbols /\ v.name = tabs[h].name
      /\ v.version = tabs[h].version
  BY <1>1 DEF Tables
<1>3. Update("set", h, IF tabs[h].locked THEN Fails(tabs[h], "immutable") ELSE Ok(v))
  BY DEF SetMaxSid
<1>4. ~IsLocal(tabs[h]) => tabs[h].version > 0
  BY <1>1 DEF Versioned
<1> HIDE DEF v
<1> QED BY <1>1, <1>2, <1>3, <1>4, SetStep DEF IsLocal

LEMMA LockStep ==
  ASSUME TypeOK, Versioned, NEW h \in Handles, Lock(h)
  PROVE  TypeOK' /\ Versioned' /\ Stable /\ res'.op # "best"
<1> DEFINE t == tabs[h]
           u == LockTable(t).t
<1>1. t \in Tables /\ h \in Live
  BY LiveIs DEF Lock
<1>2. tabs' = [tabs EXCEPT ![h] = u] /\ UNCHANGED <<cat, doc>>
  BY DEF Lock, Update
<1>3. res'.op # "best"
  BY DEF Lock, Update, Call, Result
<1>4. /\ u \in Tables
      /\ u.name = t.name /\ u.version = t.version /\ u.maxId = t.maxId
      /\ u.imports = t.imports /\ u.symbols = t.symbols
      /\ t.locked => u.locked
  BY <1>1, LockTableIs
<1> HIDE DEF u
<1>5. Extends(u, t) /\ (~IsLocal(u) => u.version > 0)
  <2>1. Len(t.symbols) \in Nat
    BY <1>1 DEF Tables
  <2>2. ~IsLocal(t) => t.version > 0
    BY <1>1 DEF Versioned
  <2> QED BY <1>4, <2>1, <2>2 DEF Extends, IsLocal, ImportOf
<1> QED BY <1>1, <1>2, <1>3, <1>4, <1>5, UpdateIs

LEMMA FindStep ==
  ASSUME TypeOK, Versioned, NEW h \in Handles, Find(h)
  PROVE  TypeOK' /\ Versioned' /\ Stable /\ res'.op # "best"
<1> DEFINE t == tabs[h]
           u == IndexIfLarge(t).t
<1>1. t \in Tables /\ h \in Live
  BY LiveIs DEF Find
<1>2. tabs' = [tabs EXCEPT ![h] = u] /\ UNCHANGED <<cat, doc>>
  BY DEF Find, Update
<1>3. res'.op # "best"
  BY DEF Find, Update, Call, Result
<1>4. Extends(u, t) /\ u \in Tables /\ IsLocal(u) = IsLocal(t) /\ u.version = t.version
  BY <1>1, IndexIfLargeIs, SameExtends
<1> HIDE DEF u
<1>5. ~IsLocal(u) => u.version > 0
  BY <1>1, <1>4 DEF Versioned
<1> QED BY <1>1, <1>2, <1>3, <1>4, <1>5, UpdateIs

LEMMA ImportStep ==
  ASSUME TypeOK, Versioned, NEW h \in Handles, NEW g \in Handles, Import(h, g)
  PROVE  TypeOK' /\ Versioned' /\ Stable /\ res'.op # "best"
<1> DEFINE t == tabs[h]
           u == ImportSymbolTable(t, tabs[g], h).t
<1>1. t \in Tables /\ h \in Live /\ tabs[g] \in Tables
  BY LiveIs DEF Import
<1>2. tabs' = [tabs EXCEPT ![h] = u] /\ UNCHANGED <<cat, doc>>
  BY DEF Import, Update
<1>3. res'.op # "best"
  BY DEF Import, Update, Call, Result
<1>4. /\ u \in Tables /\ u.name = t.name /\ u.version = t.version /\ u.locked = t.locked
      /\ Len(u.symbols) >= Len(t.symbols)
      /\ \A i \in 1..Len(t.symbols) : u.symbols[i] = t.symbols[i]
      /\ t.locked => u = t
  BY <1>1, ImportSymbolTableIs
<1> HIDE DEF u
<1>5. Extends(u, t) /\ (~IsLocal(u) => u.version > 0)
  <2>1. ~IsLocal(t) => t.version > 0
    BY <1>1 DEF Versioned
  <2> QED BY <1>4, <2>1 DEF Extends, IsLocal
<1> QED BY <1>1, <1>2, <1>3, <1>4, <1>5, UpdateIs

LEMMA SetWriterStep ==
  ASSUME TypeOK, Versioned, NEW h \in Handles, NEW g \in Handles, SetWriterTable(h, g)
  PROVE  TypeOK' /\ Versioned' /\ Stable /\ res'.op # "best"
<1> DEFINE open == OpenTable("writer", h)
           u == AddImport(open, ImportOf(tabs[g]), TablesOf(cat), h).t
<1>1. tabs[g] \in Tables /\ TablesOf(cat) \in Seq(Tables) /\ ImportOf(tabs[g]) \in Imports
  BY LiveIs, ImportOfIs DEF SetWriterTable
<1>2. h \notin Live
  BY DEF SetWriterTable, Fresh, Live
<1>3. tabs' = [tabs EXCEPT ![h] = u] /\ UNCHANGED <<cat, doc>>
  BY DEF SetWriterTable, Update
<1>4. res'.op # "best"
  BY DEF SetWriterTable, Update, Call, Result
<1>5. open \in Tables /\ IsLocal(open)
  BY OpenTableIs DEF Owners, IsLocal
<1> HIDE DEF open
<1>6. Grown(u, open)
  BY <1>1, <1>5, AddImportIs
<1> HIDE DEF u
<1>7. u \in Tables /\ IsLocal(u)
  BY <1>5, <1>6 DEF Grown, IsLocal
<1> QED BY <1>2, <1>3, <1>4, <1>7, UpdateIs

LEMMA CloneVersioned ==
  ASSUME NEW t \in Tables, ~IsLocal(t) => t.version > 0,
         NEW owner \in Owners, NEW from, NEW to \in Int
  PROVE  LET u == CloneTable(t, owner, from, to)
         IN u \in Tables /\ IsLocal(u) = IsLocal(t) /\ (~IsLocal(u) => u.version > 0)
<1> DEFINE u == CloneTable(t, owner, from, to)
<1>1. u \in Tables /\ u.name = t.name /\ u.version = (IF IsLocal(t) THEN 0 ELSE t.version)
  BY CloneTableIs
<1> HIDE DEF u
<1>2. u \in Tables /\ IsLocal(u) = IsLocal(t) /\ (~IsLocal(u) => u.version > 0)
  BY <1>1 DEF IsLocal
<1> QED BY <1>2 DEF u

LEMMA CloneStep ==
  ASSUME TypeOK, Versioned, NEW h \in Handles, NEW g \in Handles, Clone(h, g)
  PROVE  TypeOK' /\ Versioned' /\ Stable /\ res'.op # "best"
<1> DEFINE u == CloneTable(tabs[h], tabs[h].owner, h, g)
<1>1. tabs[h] \in Tables /\ g \in Int /\ tabs[h].owner \in Owners /\ h \in Live
  BY LiveIs, CatalogAssumption DEF Clone, Tables
<1>2. g \notin Live
  BY DEF Clone, Fresh, Live
<1>3. tabs' = [tabs EXCEPT ![g] = u] /\ UNCHANGED <<cat, doc>>
  BY DEF Clone, Update, Ok
<1>4. res'.op # "best"
  BY DEF Clone, Update, Call, Result
<1>5. ~IsLocal(tabs[h]) => tabs[h].version > 0
  BY <1>1 DEF Versioned
<1>6. u \in Tables /\ (~IsLocal(u) => u.version > 0)
  BY <1>1, <1>5, CloneVersioned
<1> HIDE DEF u
<1> QED BY <1>2, <1>3, <1>4, <1>6, UpdateIs

LEMMA ReadStep ==
  ASSUME TypeOK, Versioned, NEW h \in Handles, Read(h) \/ Load(h)
  PROVE  TypeOK' /\ Versioned' /\ Stable /\ res'.op # "best"
<1>1. Document(doc) /\ TablesOf(cat) \in Seq(Tables) /\ h \in Int
  BY LiveIs, CatalogAssumption DEF TypeOK
<1>2. h \notin Live
  BY DEF Read, Load, Fresh, Live
<1>3. PICK r : /\ r = ReadTable(doc, TablesOf(cat), h) \/ r = LoadTable(doc, TablesOf(cat), h)
               /\ Update("read", h, r)
  BY DEF Read, Load
<1>4. tabs' = [tabs EXCEPT ![h] = r.t] /\ UNCHANGED <<cat, doc>> /\ res'.op # "best"
  BY <1>3 DEF Update, Call, Result
<1>5. r.t \in Tables /\ IsLocal(r.t)
  BY <1>1, <1>3, ReadTableIs, LoadTableIs
<1> QED BY <1>2, <1>4, <1>5, UpdateIs

LEMMA AddTableStep ==
  ASSUME TypeOK, Versioned, NEW h \in Handles, NEW g \in Handles, AddTable(h, g)
  PROVE  TypeOK' /\ Versioned' /\ Stable /\ res'.op # "best"
<1>1. /\ tabs[h] \in Tables /\ tabs[h] # Free /\ ~IsLocal(tabs[h]) /\ h \in Live
      /\ cat \in Seq(Handles) /\ g \in Int
  BY LiveIs, CatalogAssumption DEF AddTable, TypeOK, Live
<1>2. UNCHANGED doc /\ res'.op # "best"
  BY DEF AddTable, Call, Result
<1>3. CASE UNCHANGED <<tabs, cat>>
  BY <1>2, <1>3, UnchangedIs DEF TypeOK
<1>4. CASE UNCHANGED tabs /\ cat' = Append(cat, h)
  <2>1. /\ cat' \in Seq(Handles) /\ Len(cat') = Len(cat) + 1 /\ cat'[Len(cat) + 1] = h
        /\ \A i \in 1..Len(cat) : cat'[i] = cat[i]
    BY <1>1, <1>4
  <2>2. \A i \in 1..Len(cat') : i \in 1..Len(cat) \/ i = Len(cat) + 1
    BY <1>1, <2>1
  <2>3. TypeOK'
    BY <1>1, <1>2, <1>4, <2>1, <2>2 DEF TypeOK, Document
  <2>4. Versioned'
    BY <1>1, <1>4, <2>1, <2>2 DEF Versioned, Live, IsLocal
  <2>5. Stable
    <3> SUFFICES ASSUME NEW k \in Live
                 PROVE  tabs[k] # Free /\ IsPrefix(tabs[k].symbols, tabs[k].symbols)
      BY <1>4 DEF Stable
    <3>1. tabs[k] \in Tables /\ tabs[k] # Free
      BY LiveIs DEF Live
    <3>2. Same(tabs[k], tabs[k])
      BY <3>1, SameReflexive
    <3> QED BY <3>1, <3>2, SameExtends, PrefixIs
  <2> QED BY <1>2, <2>3, <2>4, <2>5
<1>5. CASE /\ Fresh(g) /\ tabs' = [tabs EXCEPT ![g] = CloneTable(tabs[h], "catalog", h, g)]
           /\ cat' = Append(cat, g)
  <2> DEFINE u == CloneTable(tabs[h], "catalog", h, g)
  <2>1. tabs[h].version > 0
    BY <1>1 DEF Versioned
  <2>2. u \in Tables /\ ~IsLocal(u) /\ u.version > 0
    BY <1>1, <2>1, CloneVersioned DEF Owners
  <2> HIDE DEF u
  <2>3. /\ cat' \in Seq(Handles) /\ Len(cat') = Len(cat) + 1 /\ cat'[Len(cat) + 1] = g
        /\ \A i \in 1..Len(cat) : cat'[i] = cat[i]
    BY <1>1, <1>5
  <2>4. \A i \in 1..Len(cat') : i \in 1..Len(cat) \/ i = Len(cat) + 1
    BY <1>1, <2>3
  <2>5. /\ tabs' \in [Handles -> Tables \cup {Free}] /\ tabs'[g] = u
        /\ \A k \in Handles \ {g} : tabs'[k] = tabs[k]
    BY <1>5, <2>2 DEF TypeOK, u
  <2>6. tabs[g] = Free /\ u # Free
    BY <1>5, <2>2, CatalogAssumption DEF Fresh
  <2>7. \A i \in 1..Len(cat) : cat[i] \in Handles /\ cat[i] # g
    BY <2>6 DEF TypeOK
  <2>8. TypeOK'
    BY <1>2, <2>3, <2>4, <2>5, <2>6, <2>7 DEF TypeOK, Document
  <2>9. Live' = Live \cup {g}
    BY <2>5, <2>6 DEF Live
  <2>10. Versioned'
    <3>1. \A k \in Live : k \in Handles /\ k # g
      BY <2>6 DEF Live
    <3>2. \A k \in Live' : ~IsLocal(tabs'[k]) => tabs'[k].version > 0
      BY <2>2, <2>5, <2>9, <3>1 DEF Versioned, IsLocal
    <3>3. \A i \in 1..Len(cat') : ~IsLocal(tabs'[cat'[i]])
      BY <2>2, <2>3, <2>4, <2>5, <2>7 DEF Versioned
    <3> QED BY <3>2, <3>3 DEF Versioned, IsLocal
  <2>11. Stable
    <3> SUFFICES ASSUME NEW k \in Live
                 PROVE  tabs[k] # Free /\ IsPrefix(tabs[k].symbols, tabs[k].symbols)
                        /\ tabs'[k] = tabs[k]
      BY DEF Stable
    <3>1. tabs[k] \in Tables /\ tabs[k] # Free /\ k \in Handles
      BY LiveIs DEF Live
    <3>2. Same(tabs[k], tabs[k])
      BY <3>1, SameReflexive
    <3>3. tabs'[k] = tabs[k]
      BY <2>5, <2>6, <3>1
    <3> QED BY <3>1, <3>2, <3>3, SameExtends, PrefixIs
  <2> QED BY <1>2, <2>8, <2>10, <2>11
<1> QED BY <1>3, <1>4, <1>5 DEF AddTable

LEMMA WriteStep ==
  ASSUME TypeOK, Versioned, NEW h \in Handles, Write(h)
  PROVE  TypeOK' /\ Versioned' /\ Stable /\ res'.op # "best"
<1>1. tabs[h] \in Tables
  BY LiveIs DEF Write
<1>2. LocalsOf(tabs[h], h) \in Seq(Symbols)
  BY <1>1, LocalsOfIs
<1>3. /\ doc'.imports = tabs[h].imports /\ doc'.locals = LocalsOf(tabs[h], h)
      /\ doc'.maxId = 0 \/ doc'.maxId = tabs[h].maxId
  <2>1. doc' = Serialized(tabs[h], h) \/ doc' = Unloaded(tabs[h], h)
    BY DEF Write
  <2>2. /\ Serialized(tabs[h], h).imports = tabs[h].imports
        /\ Serialized(tabs[h], h).locals = LocalsOf(tabs[h], h)
        /\ Serialized(tabs[h], h).maxId = 0
    BY DEF Serialized, SelectInSeq
  <2>3. /\ Unloaded(tabs[h], h).imports = tabs[h].imports
        /\ Unloaded(tabs[h], h).locals = LocalsOf(tabs[h], h)
        /\ Unloaded(tabs[h], h).maxId = tabs[h].maxId
    BY DEF Unloaded
  <2> QED BY <2>1, <2>2, <2>3
<1>4. Document(doc')
  BY <1>1, <1>2, <1>3 DEF Document, Tables
<1>5. UNCHANGED <<tabs, cat>> /\ res'.op # "best"
  BY DEF Write, Call, Result
<1> QED BY <1>4, <1>5, UnchangedIs

LEMMA BestStep ==
  ASSUME TypeOK, Versioned, NEW name \in TableNames, NEW version, FindBestMatch(name, version)
  PROVE  TypeOK' /\ Versioned' /\ Stable
<1>1. UNCHANGED <<tabs, cat, doc>>
  BY DEF FindBestMatch
<1> QED BY <1>1, UnchangedIs DEF TypeOK

-----------------------------------------------------------------------------
(* The newest table of a name. *)

LEMMA NewestIs ==
  ASSUME NEW tables \in Seq(Tables), NEW name,
         \A i \in 1..Len(tables) : tables[i].version > 0
  PROVE  LET best == BestMatch(tables, name, 0)
         IN /\ (\A i \in 1..Len(tables) : tables[i].name # name) => best = Free
            /\ \A i \in 1..Len(tables) :
                 tables[i].name = name => best # Free /\ best.version >= tables[i].version
<1> DEFINE k == Len(tables)
<1>1. ~IsSystem(name, 0)
  BY SystemTableIs DEF IsSystem
<1>2. PICK best : /\ best \in [0..k -> Tables \cup {Free}] /\ best[0] = Free
                  /\ \A n \in 1..k : best[n] = BestOf(best[n - 1], tables[n], name, 0)
                  /\ BestMatch(tables, name, 0) = best[k]
  BY <1>1, BestMatchUnfolds
<1>3. k \in Nat /\ \A n \in 1..k : tables[n] \in Tables /\ tables[n].version \in Nat
                                   /\ tables[n].version > 0
  <2>1. k \in Nat /\ \A n \in 1..k : tables[n] \in Tables
    OBVIOUS
  <2> QED BY <2>1 DEF Tables
<1> HIDE DEF k
<1> DEFINE Unseen(n) == best[n] = Free /\ \A i \in 1..n : tables[i].name # name
           Seen(n) == /\ best[n] \in Tables /\ best[n].version \in Nat /\ best[n].version > 0
                      /\ \E i \in 1..n : tables[i].name = name
                      /\ \A i \in 1..n :
                           tables[i].name = name => best[n].version >= tables[i].version
           P == { n \in 0..k : Unseen(n) \/ Seen(n) }
<1>4. 0 \in P
  BY <1>2, <1>3
<1>5. ASSUME NEW n \in 1..k, n - 1 \in P
      PROVE  n \in P
  <2>1. best[n] = BestOf(best[n - 1], tables[n], name, 0)
    BY <1>2
  <2>2. n - 1 \in 0..k /\ \A i \in 1..n : i \in 1..k /\ (i \in 1..(n - 1) \/ i = n)
    BY <1>3
  <2>3. n \in 1..n /\ \A i \in 1..(n - 1) : i \in 1..n
    OBVIOUS
  <2>4. Free \notin Tables
    BY CatalogAssumption
  <2>5. CASE tables[n].name # name
    <3>1. best[n] = best[n - 1]
      BY <2>1, <2>5 DEF BestOf
    <3>2. CASE Unseen(n - 1)
      BY <2>2, <2>5, <3>1, <3>2
    <3>3. CASE Seen(n - 1)
      BY <2>2, <2>3, <2>5, <3>1, <3>3
    <3> QED BY <1>5, <3>2, <3>3
  <2>6. CASE tables[n].name = name
    <3>1. CASE Unseen(n - 1)
      <4>1. best[n] = tables[n]
        BY <2>1, <2>6, <3>1 DEF BestOf
      <4>2. Seen(n)
        BY <1>3, <2>2, <2>3, <2>6, <3>1, <4>1
      <4> QED BY <4>2
    <3>2. CASE Seen(n - 1)
      <4>1. best[n] = IF tables[n].version > best[n - 1].version
                        THEN tables[n] ELSE best[n - 1]
        BY <2>1, <2>4, <2>6, <3>2 DEF BestOf, Better
      <4>2. CASE tables[n].version > best[n - 1].version
        <5>1. best[n] = tables[n]
          BY <4>1, <4>2
        <5>2. ASSUME NEW i \in 1..n, tables[i].name = name
              PROVE  best[n].version >= tables[i].version
          <6>1. CASE i \in 1..(n - 1)
            <7>1. i \in 1..k
              BY <2>2
            <7> QED BY <1>3, <3>2, <4>2, <5>1, <5>2, <6>1, <7>1
          <6>2. CASE i = n
            BY <1>3, <5>1, <6>2
          <6> QED BY <2>2, <6>1, <6>2
        <5>3. Seen(n)
          BY <1>3, <2>3, <2>6, <5>1, <5>2
        <5> QED BY <5>3
      <4>3. CASE ~(tables[n].version > best[n - 1].version)
        <5>1. best[n] = best[n - 1]
          BY <4>1, <4>3
        <5>2. ASSUME NEW i \in 1..n, tables[i].name = name
              PROVE  best[n].version >= tables[i].version
          BY <1>3, <2>2, <3>2, <4>3, <5>1, <5>2
        <5>3. Seen(n)
          BY <2>3, <2>6, <3>2, <5>1, <5>2
        <5> QED BY <5>3
      <4> QED BY <4>2, <4>3
    <3> QED BY <1>5, <3>1, <3>2
  <2> QED BY <2>5, <2>6
<1>6. P \in SUBSET (0..k)
  OBVIOUS
<1>7. k \in P
  <2> HIDE DEF P
  <2> QED BY <1>3, <1>4, <1>5, <1>6, UpTo
<1>8. Unseen(k) \/ Seen(k)
  BY <1>7
<1>9. best[k] \in Tables => best[k] # Free
  BY CatalogAssumption
<1> QED BY <1>2, <1>8, <1>9 DEF k

LEMMA BestStepNewest ==
  ASSUME TypeOK, Versioned, NEW name, NEW version, FindBestMatch(name, version)
  PROVE  NewestFound'
<1> DEFINE tables == TablesOf(cat)
           named == {h \in ToSet(cat) : tabs[h].name = name}
           found == BestMatch(tables, name, version)
<1>1. res' = [op |-> "best", found |-> found, name |-> name, version |-> version]
      /\ cat' = cat /\ tabs' = tabs
  BY DEF FindBestMatch, Call
<1>2. /\ tables \in Seq(Tables) /\ Len(tables) = Len(cat)
      /\ \A i \in 1..Len(cat) : tables[i] = tabs[cat[i]] /\ cat[i] \in Live
  BY LiveIs
<1>3. DOMAIN cat = 1..Len(cat)
  BY DEF TypeOK
<1>4. \A h : h \in named <=> \E i \in 1..Len(cat) : cat[i] = h /\ tables[i].name = name
  BY <1>2, <1>3 DEF ToSet
<1>5. \A i \in 1..Len(cat) : tables[i].version > 0
  BY <1>2 DEF Versioned
<1> HIDE DEF tables
<1>6. version = 0 => /\ (\A i \in 1..Len(cat) : tables[i].name # name) => found = Free
                     /\ \A i \in 1..Len(cat) :
                          tables[i].name = name =>
                            found # Free /\ found.version >= tables[i].version
  BY <1>2, <1>5, NewestIs
<1> HIDE DEF found
<1>7. version = 0 => IF named = {} THEN found = Free
                     ELSE \A h \in named : found # Free /\ found.version >= tabs[h].version
  <2> HIDE DEF named
  <2>1. CASE version = 0 /\ named = {}
    <3>1. \A i \in 1..Len(cat) : tables[i].name # name
      BY <1>4, <2>1
    <3> QED BY <1>6, <2>1, <3>1
  <2>2. ASSUME version = 0, NEW h \in named
        PROVE  found # Free /\ found.version >= tabs[h].version
    <3>1. PICK i \in 1..Len(cat) : cat[i] = h /\ tables[i].name = name
      BY <1>4, <2>2
    <3>2. tables[i] = tabs[h]
      BY <1>2, <3>1
    <3>3. found # Free /\ found.version >= tables[i].version
      BY <1>6, <2>2, <3>1
    <3> QED BY <3>2, <3>3
  <2> QED BY <2>1, <2>2
<1> QED BY <1>1, <1>7 DEF NewestFound

-----------------------------------------------------------------------------
(* What the names of a table are, for any map T from addresses to tables. *)

Shared(T) == {h \in Handles : T[h] # Free /\ ~IsLocal(T[h])}

(* What importing that import adds: it is the system table's, or a shared  *)
(* table's.                                                                *)
Provides(T, import, names) ==
  \/ import = ImportOf(SystemTable) /\ names = SystemNames
  \/ \E h \in Shared(T) : import = ImportOf(T[h]) /\ names = ValuesOf(T[h])

(* f[k] are the names after k of the imports, the k-th of which gives b[k]. *)
Brings(T, imports, f, b) ==
  /\ f[0] = SystemNames
  /\ \A k \in 1..Len(imports) : /\ Provides(T, imports[k], b[k])
                               /\ Merged(f[k - 1], b[k], imports[k].maxId, f[k])

(* The names that the imports bring to a table. *)
Given(T, imports, names) ==
  \E f, b : Brings(T, imports, f, b) /\ f[Len(imports)] = names

First(t, n) == [i \in 1..n |-> t.symbols[i].value]

(* The symbols of the table at h are first those its imports bring, then   *)
(* its own.                                                                *)
Origin(T, h, t) ==
  \E n \in 0..Len(t.symbols) :
    /\ Given(T, t.imports, First(t, n))
    /\ \A i \in 1..Len(t.symbols) : t.symbols[i].home = h <=> i > n

(* A symbol is the system's, the table's own, or a shared table's.         *)
Homed(T, h, t) ==
  \A i \in 1..Len(t.symbols) : t.symbols[i].home \in {System, h} \cup Shared(T)

HasSystem(t) ==
  /\ Len(SystemNames) <= Len(t.symbols)
  /\ \A i \in 1..Len(SystemNames) : t.symbols[i].value = SystemNames[i]

(* What calls keep true of the table at h. *)
Fit(T, h, t) ==
  /\ Listed(t) /\ Dense(t) /\ Homed(T, h, t)
  /\ IsLocal(t) \/ t.name = "$ion" => HasSystem(t)
  /\ IsLocal(t) /\ t.owner # "writer" => Origin(T, h, t)

(* Tables of one name and version have the same symbols. *)
OneEach(T) ==
  \A g, h \in Shared(T) :
    T[g].name = T[h].name /\ T[g].version = T[h].version => ValuesOf(T[g]) = ValuesOf(T[h])

Healthy(T) == OneEach(T) /\ \A h \in Handles : T[h] # Free => Fit(T, h, T[h])

(* The ids of document d are the names its imports bring, then its own.    *)
Recalls(T, d, names) ==
  /\ names \in Seq(Text) /\ Given(T, d.imports, names)
  /\ d.ids \in Seq(Text) /\ Len(d.ids) = Len(names) + Len(d.locals)
  /\ \A i \in 1..Len(names) : d.ids[i] = names[i]
  /\ \A i \in 1..Len(d.locals) : d.ids[Len(names) + i] = d.locals[i].value
  /\ \A i \in 1..Len(d.ids) : Proper(d.ids[i])
  /\ \A i, j \in 1..Len(d.ids) : d.ids[i] = d.ids[j] => i = j
  /\ ~d.byStruct /\ d.maxId \in {0, Len(d.ids)}

Remembers(T, d) == d = NoDoc \/ \E names : Recalls(T, d, names)

(* The shared tables of T are in U, with their symbols. *)
Keeps(U, T) ==
  \A h \in Shared(T) :
    h \in Shared(U) /\ ImportOf(U[h]) = ImportOf(T[h]) /\ ValuesOf(U[h]) = ValuesOf(T[h])

LEMMA ProvidesPersists ==
  ASSUME NEW T, NEW U, Keeps(U, T), NEW import, NEW names, Provides(T, import, names)
  PROVE  Provides(U, import, names)
BY DEF Keeps, Provides

LEMMA GivenPersists ==
  ASSUME NEW T, NEW U, Keeps(U, T), NEW imports, NEW names, Given(T, imports, names)
  PROVE  Given(U, imports, names)
<1>1. PICK f, b : Brings(T, imports, f, b) /\ f[Len(imports)] = names
  BY DEF Given
<1>2. Brings(U, imports, f, b)
  BY <1>1, ProvidesPersists DEF Brings
<1> QED BY <1>1, <1>2 DEF Given

LEMMA FitPersists ==
  ASSUME NEW T, NEW U, Keeps(U, T), NEW h, NEW t, Fit(T, h, t)
  PROVE  Fit(U, h, t)
<1>1. Shared(T) \subseteq Shared(U)
  BY DEF Keeps
<1>2. Homed(U, h, t)
  BY <1>1 DEF Fit, Homed
<1>3. Origin(T, h, t) => Origin(U, h, t)
  BY GivenPersists DEF Origin
<1> QED BY <1>2, <1>3 DEF Fit

LEMMA RemembersPersists ==
  ASSUME NEW T, NEW U, Keeps(U, T), NEW d, Remembers(T, d)
  PROVE  Remembers(U, d)
<1>1. ASSUME NEW names, Recalls(T, d, names)
      PROVE  Recalls(U, d, names)
  BY <1>1, GivenPersists DEF Recalls
<1> QED BY <1>1 DEF Remembers

LEMMA HasSystemIs ==
  ASSUME NEW t \in Tables, HasSystem(t), Len(t.symbols) = Len(SystemNames)
  PROVE  ValuesOf(t) = SystemNames
<1>1. ValuesOf(t) = [i \in 1..Len(SystemNames) |-> SystemNames[i]]
  BY DEF ValuesOf, HasSystem
<1>2. SystemNames = [i \in 1..Len(SystemNames) |-> SystemNames[i]]
  BY SystemNamesAre, SequenceIs
<1> QED BY <1>1, <1>2

(* An import says which names it brings. *)
LEMMA ProvidedOnce ==
  ASSUME NEW T, Healthy(T), NEW import, NEW one, NEW two,
         Provides(T, import, one), Provides(T, import, two)
  PROVE  one = two
<1>1. ASSUME NEW h \in Shared(T), ImportOf(T[h]) = ImportOf(SystemTable)
      PROVE  ValuesOf(T[h]) = SystemNames
  <2>1. Fit(T, h, T[h])
    BY DEF Healthy, Shared
  <2>2. T[h].name = SystemTable.name /\ T[h].maxId = SystemTable.maxId
    BY <1>1 DEF ImportOf
  <2>3. T[h].name = "$ion" /\ T[h].maxId = Len(SystemNames)
    BY <2>2, SystemTableIs
  <2>4. T[h] \in Tables /\ HasSystem(T[h]) /\ Len(T[h].symbols) = Len(SystemNames)
    BY <2>1, <2>3 DEF Fit, Dense, Listed, Source
  <2> QED BY <2>4, HasSystemIs
<1>2. ASSUME NEW g \in Shared(T), NEW h \in Shared(T), ImportOf(T[g]) = ImportOf(T[h])
      PROVE  ValuesOf(T[g]) = ValuesOf(T[h])
  <2>1. T[g].name = T[h].name /\ T[g].version = T[h].version
    BY <1>2 DEF ImportOf
  <2> QED BY <2>1 DEF Healthy, OneEach
<1> QED BY <1>1, <1>2 DEF Provides

(* The best match is the system table or one of the tables. *)
LEMMA BestAmong ==
  ASSUME NEW tables \in Seq(Tables), NEW name, NEW version
  PROVE  LET found == BestMatch(tables, name, version)
         IN found = Free \/ found = SystemTable \/ \E i \in 1..Len(tables) : found = tables[i]
<1> DEFINE k == Len(tables)
           Among(t) == t = Free \/ \E i \in 1..Len(tables) : t = tables[i]
<1>1. CASE IsSystem(name, version)
  BY <1>1 DEF BestMatch
<1>2. CASE ~IsSystem(name, version)
  <2>1. PICK best : /\ best \in [0..k -> Tables \cup {Free}] /\ best[0] = Free
                    /\ \A n \in 1..k : best[n] = BestOf(best[n - 1], tables[n], name, version)
                    /\ BestMatch(tables, name, version) = best[k]
    BY <1>2, BestMatchUnfolds
  <2>2. k \in Nat
    OBVIOUS
  <2> DEFINE P == { n \in 0..k : Among(best[n]) }
  <2>3. 0 \in P
    BY <2>1, <2>2
  <2>4. ASSUME NEW n \in 1..k, n - 1 \in P
        PROVE  n \in P
    <3>1. n \in 0..k /\ Among(best[n - 1]) /\ Among(tables[n])
      BY <2>2, <2>4
    <3>2. best[n] = BestOf(best[n - 1], tables[n], name, version)
      BY <2>1
    <3>3. best[n] = best[n - 1] \/ best[n] = tables[n]
      BY <3>2 DEF BestOf
    <3> HIDE DEF Among, k
    <3> QED BY <3>1, <3>3
  <2>5. P \in SUBSET (0..k)
    OBVIOUS
  <2>6. k \in P
    <3> HIDE DEF P, k
    <3> QED BY <2>2, <2>3, <2>4, <2>5, UpTo
  <2>7. Among(best[k])
    <3> HIDE DEF Among
    <3> QED BY <2>6
  <2> QED BY <2>1, <2>7
<1> QED BY <1>1, <1>2

(* The tables of a catalog are shared tables. *)
Catalog(T, tables) ==
  tables \in Seq(Tables) /\ \A i \in 1..Len(tables) : \E h \in Shared(T) : tables[i] = T[h]

Foreign(T, t) == \A i \in 1..Len(t.symbols) : t.symbols[i].home \in {System} \cup Shared(T)

LEMMA SystemForeign ==
  ASSUME NEW T
  PROVE  Foreign(T, SystemTable)
BY SystemSource DEF Foreign

LEMMA SharedIs ==
  ASSUME NEW T, Healthy(T), NEW h \in Shared(T)
  PROVE  Source(T[h]) /\ Foreign(T, T[h]) /\ T[h].maxId = Len(T[h].symbols)
<1>1. Fit(T, h, T[h])
  BY DEF Healthy, Shared
<1>2. Foreign(T, T[h])
  BY <1>1 DEF Fit, Homed, Foreign
<1> QED BY <1>1, <1>2 DEF Fit, Listed, Dense

(* What a catalog finds, its import brings. *)
LEMMA FoundIs ==
  ASSUME NEW T, Healthy(T), NEW tables, Catalog(T, tables), NEW name, NEW version,
         BestMatch(tables, name, version) # Free
  PROVE  LET best == BestMatch(tables, name, version)
         IN Source(best) /\ Foreign(T, best) /\ Provides(T, ImportOf(best), ValuesOf(best))
<1> DEFINE best == BestMatch(tables, name, version)
<1>1. best = SystemTable \/ \E i \in 1..Len(tables) : best = tables[i]
  BY BestAmong DEF Catalog
<1>2. best = SystemTable \/ \E h \in Shared(T) : best = T[h]
  <2> HIDE DEF best
  <2> QED BY <1>1 DEF Catalog
<1> HIDE DEF best
<1>3. CASE best = SystemTable
  BY <1>3, SystemSource, SystemForeign DEF Provides, best
<1>4. CASE \E h \in Shared(T) : best = T[h]
  BY <1>4, SharedIs DEF Provides, best
<1> QED BY <1>2, <1>3, <1>4

(* u is t with symbols from elsewhere. *)
Takes(T, u, t) ==
  /\ Listed(u) /\ Grown(u, t) /\ u.maxId = Larger(t.maxId, Len(u.symbols))
  /\ \A i \in 1..Len(u.symbols) :
       i > Len(t.symbols) => u.symbols[i].home \in {System} \cup Shared(T)

LEMMA IncorporateTakes ==
  ASSUME NEW T, NEW t, Listed(t), ~t.locked, NEW import, Source(import), Foreign(T, import),
         NEW self
  PROVE  LET r == Incorporate(t, import, self)
         IN /\ r.err = "ok" /\ Takes(T, r.t, t)
            /\ Merged(ValuesOf(t), ValuesOf(import), import.maxId, ValuesOf(r.t))
<1> DEFINE r == Incorporate(t, import, self)
<1>1. /\ r.err = "ok" /\ Listed(r.t) /\ Grown(r.t, t)
      /\ r.t.maxId = Larger(t.maxId, Len(r.t.symbols))
      /\ Merged(ValuesOf(t), ValuesOf(import), import.maxId, ValuesOf(r.t))
      /\ \A i \in 1..Len(r.t.symbols) :
           i > Len(t.symbols) => \E j \in 1..Len(import.symbols) :
                                   r.t.symbols[i].home = import.symbols[j].home
  BY IncorporateListed
<1> HIDE DEF r
<1>2. Takes(T, r.t, t)
  BY <1>1 DEF Takes, Foreign
<1> QED BY <1>1, <1>2 DEF r

LEMMA TakesTransitive ==
  ASSUME NEW T, NEW t \in Tables, NEW u, NEW v, Takes(T, u, t), Takes(T, v, u)
  PROVE  Takes(T, v, t)
<1>1. Listed(v) /\ Grown(u, t) /\ Grown(v, u) /\ u \in Tables /\ v \in Tables
  BY DEF Takes, Grown
<1>2. Grown(v, t)
  BY <1>1, GrownTransitive
<1>3. /\ Len(t.symbols) \in Nat /\ Len(u.symbols) \in Nat /\ Len(v.symbols) \in Nat
      /\ t.maxId \in Nat /\ Len(v.symbols) >= Len(u.symbols)
      /\ \A i \in 1..Len(u.symbols) : v.symbols[i] = u.symbols[i]
  BY <1>1, CountsAre DEF Grown
<1>4. v.maxId = Larger(t.maxId, Len(v.symbols))
  <2> DEFINE l == Len(u.symbols)
             m == Len(v.symbols)
             n == t.maxId
  <2>1. u.maxId = Larger(n, l) /\ v.maxId = Larger(u.maxId, m)
    BY DEF Takes
  <2>2. l \in Nat /\ m \in Nat /\ n \in Nat /\ m >= l
    BY <1>3
  <2> HIDE DEF l, m, n
  <2>3. v.maxId = Larger(n, m)
    BY <2>1, <2>2 DEF Larger
  <2> QED BY <2>3 DEF n, m
<1>5. ASSUME NEW i \in 1..Len(v.symbols), i > Len(t.symbols)
      PROVE  v.symbols[i].home \in {System} \cup Shared(T)
  <2>1. CASE i > Len(u.symbols)
    BY <2>1 DEF Takes
  <2>2. CASE ~(i > Len(u.symbols))
    <3>1. i \in 1..Len(u.symbols)
      BY <1>3, <2>2
    <3> QED BY <1>3, <1>5, <3>1 DEF Takes
  <2> QED BY <2>1, <2>2
<1> QED BY <1>1, <1>2, <1>4, <1>5 DEF Takes

LEMMA TakesReflexive ==
  ASSUME NEW T, NEW t, Listed(t)
  PROVE  Takes(T, t, t)
<1>1. t \in Tables /\ t.maxId >= Len(t.symbols)
  BY DEF Listed, Source
<1>2. Grown(t, t) /\ Len(t.symbols) \in Nat /\ t.maxId \in Nat
  BY <1>1, SameReflexive, CountsAre
<1>3. Larger(t.maxId, Len(t.symbols)) = t.maxId
  BY <1>1, <1>2 DEF Larger
<1>4. \A i \in 1..Len(t.symbols) : ~(i > Len(t.symbols))
  BY <1>2
<1> QED BY <1>2, <1>3, <1>4 DEF Takes

(* An import that the catalog has brings the names it brought before. *)
LEMMA AddImportListed ==
  ASSUME NEW T, Healthy(T), NEW tables, Catalog(T, tables), NEW t, Listed(t), ~t.locked,
         NEW import \in Imports, NEW self, NEW names, Provides(T, import, names),
         BestMatch(tables, import.name, import.version) # Free,
         ImportOf(BestMatch(tables, import.name, import.version)) = import
  PROVE  LET r == AddImport(t, import, tables, self)
         IN /\ r.err = "ok" /\ Takes(T, r.t, t)
            /\ Merged(ValuesOf(t), names, import.maxId, ValuesOf(r.t))
<1> DEFINE best == BestMatch(tables, import.name, import.version)
<1>1. AddImport(t, import, tables, self) = Incorporate(t, best, self)
  BY DEF AddImport
<1>2. Source(best) /\ Foreign(T, best) /\ Provides(T, ImportOf(best), ValuesOf(best))
  BY FoundIs
<1>3. ValuesOf(best) = names
  BY <1>2, ProvidedOnce
<1>4. best.maxId = import.maxId
  BY DEF ImportOf
<1> HIDE DEF best
<1> QED BY <1>1, <1>2, <1>3, <1>4, IncorporateTakes

(* The catalog has each of the imports. *)
Resolves(tables, imports) ==
  \A k \in 1..Len(imports) :
    LET best == BestMatch(tables, imports[k].name, imports[k].version)
    IN best # Free /\ ImportOf(best) = imports[k]

LEMMA ImportAllListed ==
  ASSUME NEW T, Healthy(T), NEW tables, Catalog(T, tables), NEW t, Listed(t), ~t.locked,
         NEW imports \in Seq(Imports), Resolves(tables, imports), NEW self,
         NEW names, Given(T, imports, names), ValuesOf(t) = SystemNames
  PROVE  LET r == ImportAll(t, imports, tables, self)
         IN r.err = "ok" /\ Takes(T, r.t, t) /\ ValuesOf(r.t) = names
<1> DEFINE k == Len(imports)
           r == ImportAll(t, imports, tables, self)
<1>1. t \in Tables /\ tables \in Seq(Tables) /\ k \in Nat /\ \A n \in 1..k : imports[n] \in Imports
  BY DEF Listed, Source, Catalog
<1>2. PICK after : ImportAfter(t, imports, tables, self, after) /\ r = after[k]
  BY <1>1, ImportAllUnfolds
<1>3. /\ after[0] = Ok(t)
      /\ \A n \in 1..k :
           after[n] = IF after[n - 1].err = "ok"
                        THEN AddImport(after[n - 1].t, imports[n], tables, self) ELSE after[n - 1]
  BY <1>2 DEF ImportAfter
<1>4. PICK f, b : Brings(T, imports, f, b) /\ f[k] = names
  BY DEF Given
<1>5. /\ f[0] = SystemNames
      /\ \A n \in 1..k : /\ Provides(T, imports[n], b[n])
                        /\ Merged(f[n - 1], b[n], imports[n].maxId, f[n])
  BY <1>4 DEF Brings
<1>6. \A n \in 1..k : LET best == BestMatch(tables, imports[n].name, imports[n].version)
                      IN best # Free /\ ImportOf(best) = imports[n]
  BY DEF Resolves
<1> HIDE DEF k, r
<1> DEFINE Is(n) == after[n].err = "ok" /\ Takes(T, after[n].t, t) /\ ValuesOf(after[n].t) = f[n]
           P == { n \in 0..k : Is(n) }
<1>7. 0 \in P
  <2>1. after[0].err = "ok" /\ after[0].t = t
    BY <1>3 DEF Ok
  <2>2. Takes(T, t, t)
    BY TakesReflexive
  <2> QED BY <1>1, <1>5, <2>1, <2>2
<1>8. ASSUME NEW n \in 1..k, n - 1 \in P
      PROVE  n \in P
  <2> DEFINE u == after[n - 1].t
             import == imports[n]
             v == AddImport(u, import, tables, self)
  <2>1. Is(n - 1) /\ n \in 0..k
    BY <1>1, <1>8
  <2>2. after[n] = v
    BY <1>3, <2>1
  <2>3. Takes(T, u, t) /\ ValuesOf(u) = f[n - 1]
    BY <2>1
  <2>4. /\ import \in Imports /\ Provides(T, import, b[n])
        /\ Merged(f[n - 1], b[n], import.maxId, f[n])
        /\ BestMatch(tables, import.name, import.version) # Free
        /\ ImportOf(BestMatch(tables, import.name, import.version)) = import
    BY <1>1, <1>5, <1>6
  <2> HIDE DEF u, import, Is
  <2>5. Listed(u) /\ ~u.locked
    BY <2>3 DEF Takes, Grown
  <2>6. v.err = "ok" /\ Takes(T, v.t, u) /\ Merged(ValuesOf(u), b[n], import.maxId, ValuesOf(v.t))
    BY <2>4, <2>5, AddImportListed
  <2> HIDE DEF v
  <2>7. Takes(T, v.t, t)
    BY <1>1, <2>3, <2>6, TakesTransitive
  <2>8. ValuesOf(v.t) = f[n]
    <3>1. b[n] \in Seq(Text)
      <4>1. CASE b[n] = SystemNames
        BY <4>1, SystemNamesAre
      <4>2. ASSUME NEW h \in Shared(T), b[n] = ValuesOf(T[h])
            PROVE  b[n] \in Seq(Text)
        BY <4>2, SharedIs, ValuesAre DEF Source
      <4> QED BY <2>4, <4>1, <4>2 DEF Provides
    <3> QED BY <2>3, <2>4, <2>6, <3>1, MergedUnique
  <2>9. Is(n)
    BY <2>2, <2>6, <2>7, <2>8 DEF Is
  <2> QED BY <2>1, <2>9
<1>9. P \in SUBSET (0..k)
  OBVIOUS
<1>10. k \in P
  <2> HIDE DEF P
  <2> QED BY <1>1, <1>7, <1>8, <1>9, UpTo
<1>11. Is(k)
  BY <1>10
<1> QED BY <1>2, <1>4, <1>11 DEF r

(* The symbols of d are new to t. *)
Addable(t, d) ==
  /\ Listed(t) /\ ~t.locked /\ d.locals \in Seq(Symbols) /\ ~d.byStruct
  /\ \A i \in 1..Len(d.locals) : /\ Proper(d.locals[i].value)
                                  /\ Absent(d.locals[i].value, t)
  /\ \A i, j \in 1..Len(d.locals) : d.locals[i].value = d.locals[j].value => i = j

(* u is t with the symbols of d, at home in self. *)
HasAdded(u, t, d, self) ==
  /\ Listed(u) /\ Grown(u, t)
  /\ Len(u.symbols) = Len(t.symbols) + Len(d.locals)
  /\ u.maxId = Larger(t.maxId, Len(u.symbols))
  /\ \A i \in 1..Len(d.locals) : /\ u.symbols[Len(t.symbols) + i].value = d.locals[i].value
                                  /\ u.symbols[Len(t.symbols) + i].home = self

LEMMA AddLocalsListed ==
  ASSUME NEW t, NEW d, Addable(t, d), NEW self \in Int
  PROVE  LET r == AddLocals(t, d, Len(t.symbols), self)
         IN r.err = "ok" /\ HasAdded(r.t, t, d, self)
<1> DEFINE k == Len(d.locals)
           base == Len(t.symbols)
           r == AddLocals(t, d, base, self)
<1>1. /\ t \in Tables /\ base \in Nat /\ k \in Nat /\ t.maxId \in Nat /\ t.maxId >= base
      /\ \A i \in 1..k : d.locals[i].value \in Text
      /\ Listed(t) /\ ~t.locked /\ d.locals \in Seq(Symbols)
  <2>0. Listed(t) /\ ~t.locked /\ d.locals \in Seq(Symbols)
    BY DEF Addable
  <2>1. t \in Tables /\ t.maxId >= base
    BY <2>0 DEF Listed, Source
  <2>2. base \in Nat /\ t.maxId \in Nat
    BY <2>1, CountsAre
  <2>3. k \in Nat /\ \A i \in 1..k : d.locals[i] \in Symbols
    BY <2>0
  <2>4. \A i \in 1..k : d.locals[i].value \in Text
    BY <2>3 DEF Symbols
  <2> QED BY <2>0, <2>1, <2>2, <2>3, <2>4
<1>2. PICK after : LocalsAfter(t, d, base, self, after) /\ r = after[k]
  <2>1. base \in Int
    BY <1>1
  <2> QED BY <1>1, <2>1, AddLocalsUnfolds
<1>3. /\ after[0] = Ok(t)
      /\ \A n \in 1..k :
           after[n] = IF after[n - 1].err = "ok"
                        THEN AddLocal(after[n - 1].t, d, n, base, self) ELSE after[n - 1]
  BY <1>2 DEF LocalsAfter
<1>4. \A i \in 1..k : /\ Proper(d.locals[i].value)
                     /\ \A j \in 1..base : t.symbols[j].value # d.locals[i].value
  BY DEF Absent, Addable
<1>5. \A i, j \in 1..k : d.locals[i].value = d.locals[j].value => i = j
  BY DEF Addable
<1> HIDE DEF k, r, base
<1> DEFINE Is(n) ==
             LET u == after[n].t
             IN /\ after[n].err = "ok" /\ Listed(u) /\ Grown(u, t)
                /\ Len(u.symbols) = base + n
                /\ u.maxId = Larger(t.maxId, Len(u.symbols))
                /\ \A i \in 1..n : /\ u.symbols[base + i].value = d.locals[i].value
                                   /\ u.symbols[base + i].home = self
           P == { n \in 0..k : Is(n) }
<1>6. 0 \in P
  <2>1. after[0].err = "ok" /\ after[0].t = t
    BY <1>3 DEF Ok
  <2>2. Grown(t, t) /\ Larger(t.maxId, base) = t.maxId
    BY <1>1, SameReflexive DEF Larger
  <2>3. Len(t.symbols) = base + 0 /\ base = Len(t.symbols)
    BY <1>1 DEF base
  <2> QED BY <1>1, <2>1, <2>2, <2>3
<1>7. ASSUME NEW n \in 1..k, n - 1 \in P
      PROVE  n \in P
  <2> DEFINE u == after[n - 1].t
             name == d.locals[n].value
             v == AddSymbolAndSid(u, name, Len(u.symbols) + 1, self, self)
  <2>1. Is(n - 1) /\ n \in 0..k /\ n \in Nat
    BY <1>1, <1>7
  <2>2. /\ Listed(u) /\ Grown(u, t) /\ Len(u.symbols) = base + (n - 1)
        /\ u.maxId = Larger(t.maxId, Len(u.symbols))
        /\ \A i \in 1..(n - 1) : /\ u.symbols[base + i].value = d.locals[i].value
                                 /\ u.symbols[base + i].home = self
    BY <2>1
  <2>3. Len(u.symbols) + 1 = base + n
    BY <1>1, <2>1, <2>2
  <2>4. after[n] = v
    <3>1. ~d.byStruct
      BY DEF Addable
    <3> QED BY <1>3, <2>1, <2>3, <3>1 DEF AddLocal
  <2>5. name \in Text /\ Proper(name)
    BY <1>1, <1>4
  <2>6. Absent(name, u)
    <3> SUFFICES ASSUME NEW i \in 1..Len(u.symbols)
                 PROVE  u.symbols[i].value # name
      BY DEF Absent
    <3>1. CASE i <= base
      <4>1. i \in 1..base
        BY <1>1, <2>1, <2>2, <3>1
      <4>2. u.symbols[i] = t.symbols[i]
        BY <2>2, <4>1 DEF Grown, base
      <4> QED BY <1>4, <4>1, <4>2
    <3>2. CASE ~(i <= base)
      <4>1. i - base \in 1..(n - 1) /\ base + (i - base) = i /\ i - base \in 1..k
            /\ i - base # n
        BY <1>1, <2>1, <2>2, <3>2
      <4>2. u.symbols[i].value = d.locals[i - base].value
        BY <2>2, <4>1
      <4> QED BY <1>5, <4>1, <4>2
    <3> QED BY <3>1, <3>2
  <2>7. u \in Tables /\ ~u.locked
    BY <1>1, <2>2 DEF Grown
  <2> HIDE DEF u, name, Is
  <2>8. v.err = "ok" /\ Listed(v.t) /\ Gains(v.t, u, name, self)
    <3>1. /\ Listed(v.t)
          /\ IF Absent(name, u) THEN v.err = "ok" /\ Gains(v.t, u, name, self)
             ELSE v.err = "duplicate" /\ Same(v.t, u)
      BY <2>2, <2>5, <2>7, AddSymbolAndSidListed
    <3> QED BY <2>6, <3>1
  <2> HIDE DEF v
  <2>9. /\ v.t \in Tables /\ Len(v.t.symbols) = Len(u.symbols) + 1
        /\ v.t.symbols[Len(u.symbols) + 1].value = name
        /\ v.t.symbols[Len(u.symbols) + 1].home = self
        /\ \A i \in 1..Len(u.symbols) : v.t.symbols[i] = u.symbols[i]
        /\ v.t.maxId = Larger(u.maxId, Len(v.t.symbols))
    BY <2>7, <2>8, GainsIs, SMTT(30)
  <2>10. Grown(v.t, t)
    BY <1>1, <2>2, <2>8, GrownTransitive DEF Gains
  <2>11. v.t.maxId = Larger(t.maxId, Len(v.t.symbols))
    <3> DEFINE l == Len(u.symbols)
               m == Len(v.t.symbols)
               q == t.maxId
    <3>1. l \in Nat /\ m = l + 1 /\ q \in Nat
      BY <1>1, <2>7, <2>9, CountsAre
    <3>2. u.maxId = Larger(q, l) /\ v.t.maxId = Larger(u.maxId, m)
      BY <2>2, <2>9
    <3> HIDE DEF l, m, q
    <3>3. v.t.maxId = Larger(q, m)
      BY <3>1, <3>2 DEF Larger
    <3> QED BY <3>3 DEF q, m
  <2>12. ASSUME NEW i \in 1..n
         PROVE  v.t.symbols[base + i].value = d.locals[i].value /\ v.t.symbols[base + i].home = self
    <3>1. CASE i = n
      BY <2>3, <2>9, <3>1 DEF name
    <3>2. CASE i # n
      <4>1. i \in 1..(n - 1) /\ base + i \in 1..Len(u.symbols)
        BY <1>1, <2>1, <2>2, <3>2
      <4> QED BY <2>2, <2>9, <4>1
    <3> QED BY <3>1, <3>2
  <2>13. Is(n)
    BY <2>3, <2>4, <2>8, <2>9, <2>10, <2>11, <2>12 DEF Is
  <2> QED BY <2>1, <2>13
<1>8. P \in SUBSET (0..k)
  OBVIOUS
<1>9. k \in P
  <2>1. k \in Nat
    BY <1>1
  <2> HIDE DEF P
  <2> QED BY <1>6, <1>7, <1>8, <2>1, UpTo
<1>10. Is(k)
  BY <1>9
<1> QED BY <1>2, <1>10 DEF r, k, base, HasAdded

-----------------------------------------------------------------------------
(* What is read of a table. *)

(* The table's own symbols are those behind the first n. *)
LEMMA LocalsOfListed ==
  ASSUME NEW t \in Tables, NEW self, NEW n \in 0..Len(t.symbols),
         \A i \in 1..Len(t.symbols) : t.symbols[i].home = self <=> i > n
  PROVE  LET own == LocalsOf(t, self)
         IN /\ own \in Seq(Symbols) /\ Len(own) = Len(t.symbols) - n
            /\ \A j \in 1..Len(own) : own[j] = t.symbols[n + j]
<1> DEFINE k == Len(t.symbols)
<1>1. PICK own : /\ own \in [0..k -> Seq(Symbols)] /\ own[0] = <<>>
                 /\ \A m \in 1..k : own[m] = IF t.symbols[m].home = self
                                               THEN Append(own[m - 1], t.symbols[m])
                                             ELSE own[m - 1]
                 /\ LocalsOf(t, self) = own[k]
  BY LocalsOfUnfolds
<1>2. k \in Nat /\ n \in Nat /\ n <= k
  BY CountsAre
<1>3. \A i \in 1..k : t.symbols[i] \in Symbols
  BY DEF Tables
<1>4. \A i \in 1..k : t.symbols[i].home = self <=> i > n
  OBVIOUS
<1> HIDE DEF k
<1> DEFINE Is(m) ==
             /\ own[m] \in Seq(Symbols) /\ Len(own[m]) = IF m > n THEN m - n ELSE 0
             /\ \A j \in 1..Len(own[m]) : own[m][j] = t.symbols[n + j]
           P == { m \in 0..k : Is(m) }
<1>5. 0 \in P
  BY <1>1, <1>2
<1>6. ASSUME NEW m \in 1..k, m - 1 \in P
      PROVE  m \in P
  <2> DEFINE s == own[m - 1]
             x == t.symbols[m]
  <2>1. Is(m - 1) /\ m \in 0..k /\ m \in Nat
    BY <1>2, <1>6
  <2>2. s \in Seq(Symbols) /\ Len(s) = (IF m - 1 > n THEN m - 1 - n ELSE 0)
        /\ \A j \in 1..Len(s) : s[j] = t.symbols[n + j]
    BY <2>1
  <2>3. x \in Symbols
    BY <1>3
  <2>4. own[m] = IF m > n THEN Append(s, x) ELSE s
    BY <1>1, <1>4
  <2> HIDE DEF s
  <2>5. CASE m > n
    <3>1. Len(s) = m - 1 - n /\ n + (Len(s) + 1) = m /\ Len(s) \in Nat
      BY <1>2, <2>1, <2>2, <2>5
    <3>2. x = t.symbols[n + (Len(s) + 1)]
      BY <3>1
    <3> HIDE DEF x
    <3>3. /\ Append(s, x) \in Seq(Symbols) /\ Len(Append(s, x)) = Len(s) + 1
          /\ \A j \in 1..(Len(s) + 1) :
               Append(s, x)[j] = IF j <= Len(s) THEN s[j] ELSE x
      BY <2>2, <2>3
    <3>4. ASSUME NEW j \in 1..(Len(s) + 1)
          PROVE  Append(s, x)[j] = t.symbols[n + j]
      <4>1. CASE j <= Len(s)
        BY <2>2, <3>1, <3>3, <4>1
      <4>2. CASE ~(j <= Len(s))
        <5>1. j = Len(s) + 1
          BY <3>1, <4>2
        <5> QED BY <3>2, <3>3, <4>2, <5>1
      <4> QED BY <4>1, <4>2
    <3>5. Len(s) + 1 = m - n
      BY <1>2, <2>1, <3>1
    <3> QED BY <2>1, <2>4, <2>5, <3>3, <3>4, <3>5
  <2>6. CASE ~(m > n)
    <3>1. ~(m - 1 > n) /\ own[m] = s
      BY <1>2, <2>1, <2>4, <2>6
    <3> QED BY <2>1, <2>2, <2>6, <3>1
  <2> QED BY <2>5, <2>6
<1>7. P \in SUBSET (0..k)
  OBVIOUS
<1>8. k \in P
  <2> HIDE DEF P
  <2> QED BY <1>2, <1>5, <1>6, <1>7, UpTo
<1>9. Is(k) /\ (IF k > n THEN k - n ELSE 0) = k - n
  BY <1>2, <1>8
<1> QED BY <1>1, <1>9 DEF k

(* Every id of the table has its name. *)
LEMMA IdsOfIs ==
  ASSUME NEW t, Listed(t), Dense(t)
  PROVE  IdsOf(t) = ValuesOf(t)
<1>1. t \in Tables /\ Len(t.symbols) \in Nat /\ t.maxId = Len(t.symbols)
  BY CountsAre DEF Listed, Source, Dense
<1>2. \A sid \in 1..Len(t.symbols) : PlaceOfSid(t, sid) = sid /\ sid # Null
  BY PlaceOfSidIs DEF Null
<1>3. {s \in 1..t.maxId : PlaceOfSid(t, s) # Null} = 1..Len(t.symbols)
  BY <1>1, <1>2
<1>4. IdsOf(t) = [sid \in 1..Len(t.symbols) |-> t.symbols[PlaceOfSid(t, sid)].value]
  BY <1>3 DEF IdsOf
<1> QED BY <1>2, <1>4 DEF ValuesOf

LEMMA IndexedAgrees ==
  ASSUME NEW t, Listed(t)
  PROVE  /\ DOMAIN t.byId = 1..t.byIdMax
         /\ IndexActive(t) =>
              /\ \A i \in DOMAIN t.symbols : /\ PlaceOfSid(t, t.symbols[i].sid) = i
                                            /\ PlaceOfName(t, t.symbols[i].value) = i
              /\ \A sid \in DOMAIN t.byId : t.byId[sid] \in Places(t)
              /\ t.byName \subseteq Places(t)
<1>1. /\ t \in Tables /\ Len(t.symbols) \in Nat /\ DOMAIN t.symbols = 1..Len(t.symbols)
      /\ \A i \in 1..Len(t.symbols) : t.symbols[i].sid = i
  BY SourceIs DEF Listed
<1>2. t.byIdMax \in Nat /\ t.byId \in Seq(Nat)
  BY <1>1 DEF Tables
<1>3. DOMAIN t.byId = 1..Len(t.byId)
  BY <1>2
<1>4. \A i \in 1..Len(t.symbols) : PlaceOfSid(t, i) = i
  BY PlaceOfSidIs
<1>5. \A i \in 1..Len(t.symbols) : PlaceOfName(t, t.symbols[i].value) = i
  BY PlaceOfNameIs
<1>6. CASE IndexActive(t)
  <2>1. /\ Len(t.byId) = t.byIdMax
        /\ \A sid \in 1..t.byIdMax : t.byId[sid] = IF sid <= Len(t.symbols) THEN sid ELSE Null
        /\ t.byName = DOMAIN t.symbols
    BY <1>6 DEF Listed, Indexed
  <2>2. \A sid \in 1..t.byIdMax : t.byId[sid] \in Places(t)
    BY <1>1, <1>2, <2>1 DEF Places, Null
  <2>3. t.byName \subseteq Places(t)
    BY <1>1, <2>1 DEF Places
  <2> QED BY <1>1, <1>3, <1>4, <1>5, <2>1, <2>2, <2>3
<1>7. CASE ~IndexActive(t)
  <2>1. t.byId = <<>> /\ t.byIdMax = 0
    BY <1>2, <1>7 DEF Listed, Indexed, IndexActive
  <2> QED BY <1>3, <1>7, <2>1
<1> QED BY <1>6, <1>7

LEMMA HealthyTables ==
  ASSUME TypeOK, Healthy(tabs)
  PROVE  SidsDense /\ IndexAgrees
<1> SUFFICES ASSUME NEW h \in Live
             PROVE  Listed(tabs[h]) /\ Dense(tabs[h])
  BY IndexedAgrees DEF SidsDense, IndexAgrees
<1> QED BY DEF Healthy, Live, Fit

-----------------------------------------------------------------------------
(* What a reader makes of a document. *)

SystemFirst(names) ==
  /\ names \in Seq(Text) /\ Len(names) \in Nat /\ Len(SystemNames) <= Len(names)
  /\ \A i \in 1..Len(SystemNames) : names[i] = SystemNames[i]

(* The names that imports bring begin with the system's. *)
LEMMA GivenIs ==
  ASSUME NEW T, Healthy(T), NEW tables, Catalog(T, tables), NEW imports \in Seq(Imports),
         Resolves(tables, imports), NEW names, Given(T, imports, names)
  PROVE  SystemFirst(names)
<1> DEFINE t == OpenTable("reader", Nowhere)
           r == ImportAll(t, imports, tables, Nowhere)
<1>1. /\ Listed(t) /\ ~t.locked /\ ValuesOf(t) = SystemNames
      /\ Len(t.symbols) = Len(SystemNames)
  BY OpenTableListed DEF Owners
<1> HIDE DEF t
<1>2. Takes(T, r.t, t) /\ ValuesOf(r.t) = names
  BY <1>1, ImportAllListed
<1> HIDE DEF r
<1>3. /\ r.t \in Tables /\ t \in Tables /\ Len(r.t.symbols) >= Len(t.symbols)
      /\ \A i \in 1..Len(t.symbols) : r.t.symbols[i] = t.symbols[i]
  BY <1>1, <1>2 DEF Takes, Grown, Listed, Source
<1>4. /\ names \in Seq(Text) /\ Len(names) = Len(r.t.symbols) /\ Len(names) \in Nat
      /\ \A i \in 1..Len(names) : names[i] = r.t.symbols[i].value
  BY <1>2, <1>3, ValuesAre, CountsAre
<1>5. \A i \in 1..Len(SystemNames) : SystemNames[i] = t.symbols[i].value
  BY <1>1, <1>3, ValuesAre
<1>6. \A i \in 1..Len(SystemNames) : i \in 1..Len(names) /\ r.t.symbols[i] = t.symbols[i]
  BY <1>1, <1>3, <1>4, SystemNamesAre
<1> QED BY <1>1, <1>3, <1>4, <1>5, <1>6 DEF SystemFirst

(* t, at h, has d's imports and names; the first n are not its own. *)
Bears(T, h, t, d, n) ==
  /\ Listed(t) /\ t.maxId = Len(d.ids) /\ Len(t.symbols) = Len(d.ids)
  /\ t.imports = d.imports /\ t.name = None /\ t.version = 0
  /\ \A i \in 1..Len(d.ids) : t.symbols[i].value = d.ids[i]
  /\ \A i \in 1..Len(d.ids) : IF i > n THEN t.symbols[i].home = h
                              ELSE t.symbols[i].home \in {System} \cup Shared(T)

LEMMA ReaderFits ==
  ASSUME NEW T, NEW h \in Handles, h \notin Shared(T), NEW d, NEW names, Recalls(T, d, names),
         d.locals \in Seq(Symbols), SystemFirst(names), NEW t, Bears(T, h, t, d, Len(names))
  PROVE  Fit(T, h, t) /\ ValuesOf(t) = d.ids /\ IsLocal(t) /\ t.version = 0
<1>a. /\ Len(SystemNames) <= Len(names)
      /\ \A i \in 1..Len(SystemNames) : names[i] = SystemNames[i]
      /\ Listed(t) /\ t.maxId = Len(d.ids) /\ Len(t.symbols) = Len(d.ids)
      /\ t.imports = d.imports /\ t.name = None /\ t.version = 0
      /\ \A i \in 1..Len(d.ids) : t.symbols[i].value = d.ids[i]
      /\ \A i \in 1..Len(d.ids) : IF i > Len(names) THEN t.symbols[i].home = h
                                  ELSE t.symbols[i].home \in {System} \cup Shared(T)
  BY DEF SystemFirst, Bears
<1>1. /\ names \in Seq(Text) /\ Len(names) \in Nat /\ d.ids \in Seq(Text) /\ Len(d.ids) \in Nat
      /\ Len(names) <= Len(d.ids) /\ Given(T, d.imports, names)
      /\ \A i \in 1..Len(names) : d.ids[i] = names[i]
  <2>1. /\ names \in Seq(Text) /\ Len(names) \in Nat /\ d.ids \in Seq(Text) /\ Len(d.ids) \in Nat
        /\ Given(T, d.imports, names) /\ \A i \in 1..Len(names) : d.ids[i] = names[i]
    BY DEF Recalls
  <2>2. Len(d.locals) \in Nat /\ Len(d.ids) = Len(names) + Len(d.locals)
    BY DEF Recalls
  <2>3. Len(names) <= Len(d.ids)
    BY <2>1, <2>2
  <2> QED BY <2>1, <2>3
<1>2. h # System
  BY CatalogAssumption DEF System
<1>3. Dense(t)
  BY <1>a, DenseIs
<1>4. Homed(T, h, t)
  BY <1>a DEF Homed
<1>5. \A i \in 1..Len(SystemNames) : i \in 1..Len(names) /\ i \in 1..Len(d.ids)
  BY <1>a, <1>1, SystemNamesAre
<1>6. HasSystem(t)
  BY <1>a, <1>1, <1>5, SystemNamesAre DEF HasSystem
<1>7. First(t, Len(names)) = names
  <2>1. \A i \in 1..Len(names) : i \in 1..Len(d.ids)
    BY <1>1
  <2>2. First(t, Len(names)) = [i \in 1..Len(names) |-> names[i]]
    BY <1>a, <1>1, <2>1 DEF First
  <2> QED BY <1>1, <2>2, SequenceIs
<1>8. Origin(T, h, t)
  <2>1. \A i \in 1..Len(t.symbols) : t.symbols[i].home = h <=> i > Len(names)
    BY <1>a, <1>2
  <2>2. Len(names) \in 0..Len(t.symbols) /\ Given(T, t.imports, First(t, Len(names)))
    BY <1>a, <1>1, <1>7
  <2> QED BY <2>1, <2>2 DEF Origin
<1>9. ValuesOf(t) = d.ids
  <2>1. ValuesOf(t) = [i \in 1..Len(d.ids) |-> d.ids[i]]
    BY <1>a DEF ValuesOf
  <2> QED BY <1>1, <2>1, SequenceIs
<1> QED BY <1>a, <1>3, <1>4, <1>6, <1>8, <1>9 DEF Fit, IsLocal

LEMMA ReadTableListed ==
  ASSUME NEW T, Healthy(T), NEW tables, Catalog(T, tables), NEW d, Document(d),
         d # NoDoc, Remembers(T, d), Resolves(tables, d.imports),
         NEW h \in Handles, h \notin Shared(T)
  PROVE  LET r == ReadTable(d, tables, h)
         IN /\ r.err = "ok" /\ Fit(T, h, r.t) /\ ValuesOf(r.t) = d.ids
            /\ IsLocal(r.t) /\ r.t.version = 0
<1> DEFINE open == OpenTable("reader", h)
           t == [open EXCEPT !.maxId = IF d.maxId > 0 THEN d.maxId ELSE @, !.imports = d.imports]
           r == ImportAll(t, d.imports, tables, h)
           v == AddLocals(r.t, d, Len(r.t.symbols), h)
<1>1. PICK names : Recalls(T, d, names)
  BY DEF Remembers
<1>2. /\ names \in Seq(Text) /\ Given(T, d.imports, names)
      /\ d.ids \in Seq(Text) /\ Len(d.ids) = Len(names) + Len(d.locals)
      /\ \A i \in 1..Len(names) : d.ids[i] = names[i]
      /\ \A i \in 1..Len(d.locals) : d.ids[Len(names) + i] = d.locals[i].value
      /\ \A i \in 1..Len(d.ids) : Proper(d.ids[i])
      /\ \A i, j \in 1..Len(d.ids) : d.ids[i] = d.ids[j] => i = j
      /\ ~d.byStruct /\ d.maxId \in {0, Len(d.ids)}
  BY <1>1 DEF Recalls
<1>3. d.imports \in Seq(Imports) /\ d.locals \in Seq(Symbols) /\ d.maxId \in Nat /\ h \in Int
  BY CatalogAssumption DEF Document
<1>4. SystemFirst(names) /\ Len(names) \in Nat /\ Len(SystemNames) <= Len(names)
  BY <1>2, <1>3, GivenIs DEF SystemFirst
<1>5. Len(d.locals) \in Nat /\ Len(d.ids) \in Nat
  BY <1>2, <1>3
<1>6. /\ Listed(open) /\ ~open.locked /\ open.name = None /\ open.version = 0
      /\ Len(open.symbols) = Len(SystemNames) /\ open.maxId = Len(SystemNames)
      /\ ValuesOf(open) = SystemNames
      /\ \A i \in 1..Len(open.symbols) : open.symbols[i].home = System
  BY OpenTableListed DEF Owners
<1>7. open \in Tables
  BY <1>6 DEF Listed, Source
<1>8. Len(SystemNames) \in Nat
  BY SystemNamesAre
<1> HIDE DEF open
<1>9. /\ t \in Tables /\ t.symbols = open.symbols /\ t.byIdMax = open.byIdMax
      /\ t.byId = open.byId /\ t.byName = open.byName /\ t.locked = open.locked
      /\ t.name = None /\ t.version = 0 /\ t.imports = d.imports
      /\ t.maxId \in {Len(d.ids), Len(SystemNames)}
  <2> DEFINE maxId == IF d.maxId > 0 THEN d.maxId ELSE open.maxId
  <2>1. maxId \in Nat /\ maxId \in {Len(d.ids), Len(SystemNames)}
    BY <1>2, <1>3, <1>6, <1>8
  <2>2. t = [open EXCEPT !.maxId = maxId, !.imports = d.imports]
    BY <1>7 DEF Tables
  <2> HIDE DEF maxId, t
  <2> QED BY <1>3, <1>6, <1>7, <2>1, <2>2 DEF Tables
<1> HIDE DEF t
<1>10. Listed(t) /\ ~t.locked /\ ValuesOf(t) = SystemNames
  <2>1. Source(t)
    BY <1>6, <1>9 DEF Listed, Source, Numbered
  <2>2. Indexed(t)
    BY <1>6, <1>9 DEF Listed, Indexed, IndexActive
  <2>3. t.maxId >= Len(t.symbols)
    BY <1>2, <1>4, <1>5, <1>6, <1>8, <1>9
  <2>4. ValuesOf(t) = ValuesOf(open)
    BY <1>9 DEF ValuesOf
  <2> QED BY <1>6, <1>9, <2>1, <2>2, <2>3, <2>4 DEF Listed
<1>11. r.err = "ok" /\ Takes(T, r.t, t) /\ ValuesOf(r.t) = names
  BY <1>2, <1>3, <1>10, ImportAllListed
<1>12. ReadTable(d, tables, h) = v
  <2>1. r.err = "ok"
    BY <1>11
  <2> QED BY <2>1 DEF ReadTable, Then, t, open
<1> HIDE DEF r
<1>13. /\ Listed(r.t) /\ ~r.t.locked /\ r.t \in Tables /\ r.t.name = None /\ r.t.version = 0
       /\ r.t.imports = d.imports /\ Len(r.t.symbols) = Len(names)
       /\ r.t.maxId = Larger(t.maxId, Len(names))
       /\ \A i \in 1..Len(names) : r.t.symbols[i].value = names[i]
       /\ \A i \in 1..Len(names) : r.t.symbols[i].home \in {System} \cup Shared(T)
  <2>1. Listed(r.t) /\ Grown(r.t, t) /\ r.t \in Tables
    BY <1>11 DEF Takes, Grown
  <2>2. /\ Len(r.t.symbols) = Len(names)
        /\ \A i \in 1..Len(names) : r.t.symbols[i].value = names[i]
    BY <1>11, <2>1, ValuesAre
  <2>3. r.t.maxId = Larger(t.maxId, Len(names))
    BY <1>11, <2>2 DEF Takes
  <2>4. ASSUME NEW i \in 1..Len(names)
        PROVE  r.t.symbols[i].home \in {System} \cup Shared(T)
    <3>1. CASE i > Len(t.symbols)
      BY <1>11, <2>2, <3>1 DEF Takes
    <3>2. CASE ~(i > Len(t.symbols))
      <4>1. i \in 1..Len(t.symbols)
        BY <1>6, <1>8, <1>9, <3>2
      <4>2. r.t.symbols[i] = open.symbols[i]
        BY <1>9, <2>1, <4>1 DEF Grown
      <4> QED BY <1>6, <1>9, <4>1, <4>2
    <3> QED BY <3>1, <3>2
  <2> QED BY <1>9, <1>10, <2>1, <2>2, <2>3, <2>4 DEF Grown
<1>14. /\ v.err = "ok" /\ Listed(v.t) /\ Grown(v.t, r.t)
       /\ Len(v.t.symbols) = Len(names) + Len(d.locals)
       /\ v.t.maxId = Larger(r.t.maxId, Len(v.t.symbols))
       /\ \A i \in 1..Len(d.locals) :
            /\ v.t.symbols[Len(names) + i].value = d.locals[i].value
            /\ v.t.symbols[Len(names) + i].home = h
  <2>1. \A i \in 1..Len(d.locals) : Len(names) + i \in 1..Len(d.ids)
    BY <1>2, <1>4, <1>5
  <2>2. \A i \in 1..Len(d.locals) : Proper(d.locals[i].value)
    BY <1>2, <2>1
  <2>3. ASSUME NEW i \in 1..Len(d.locals)
        PROVE  Absent(d.locals[i].value, r.t)
    <3>1. \A j \in 1..Len(names) : j \in 1..Len(d.ids) /\ j # Len(names) + i
      BY <1>2, <1>4, <1>5
    <3>2. \A j \in 1..Len(names) : names[j] # d.locals[i].value
      BY <1>2, <2>1, <3>1
    <3> QED BY <1>13, <3>2 DEF Absent
  <2>4. ASSUME NEW i \in 1..Len(d.locals), NEW j \in 1..Len(d.locals),
               d.locals[i].value = d.locals[j].value
        PROVE  i = j
    <3>1. /\ Len(names) + i \in 1..Len(d.ids) /\ Len(names) + j \in 1..Len(d.ids)
          /\ d.ids[Len(names) + i] = d.ids[Len(names) + j]
      BY <1>2, <2>1, <2>4
    <3>2. \A a, b \in 1..Len(d.ids) : d.ids[a] = d.ids[b] => a = b
      BY <1>2
    <3>3. Len(names) + i = Len(names) + j
      BY <3>1, <3>2
    <3> QED BY <1>4, <3>3
  <2>5. \A i \in 1..Len(d.locals) : /\ Proper(d.locals[i].value)
                                    /\ Absent(d.locals[i].value, r.t)
    BY <2>2, <2>3
  <2>6. Addable(r.t, d)
    BY <1>2, <1>3, <1>13, <2>4, <2>5 DEF Addable
  <2>7. v.err = "ok" /\ HasAdded(v.t, r.t, d, h)
    BY <1>3, <2>6, AddLocalsListed
  <2> HIDE DEF v
  <2> QED BY <1>13, <2>7 DEF HasAdded
<1> HIDE DEF v
<1>15. v.t.maxId = Len(d.ids) /\ Len(v.t.symbols) = Len(d.ids)
  <2> DEFINE l == Len(names)
             m == Len(d.ids)
             s == Len(SystemNames)
  <2>1. /\ v.t.maxId = Larger(r.t.maxId, m) /\ r.t.maxId = Larger(t.maxId, l)
        /\ t.maxId \in {m, s}
    BY <1>2, <1>9, <1>13, <1>14
  <2>2. l \in Nat /\ m \in Nat /\ s \in Nat /\ s <= l /\ l <= m
    BY <1>2, <1>4, <1>5, <1>8
  <2> HIDE DEF l, m, s
  <2>3. v.t.maxId = m
    BY <2>1, <2>2 DEF Larger
  <2> QED BY <1>2, <1>14, <2>3 DEF m
<1>16. ASSUME NEW i \in 1..Len(d.ids)
       PROVE  /\ v.t.symbols[i].value = d.ids[i]
              /\ IF i > Len(names) THEN v.t.symbols[i].home = h
                 ELSE v.t.symbols[i].home \in {System} \cup Shared(T)
  <2>1. CASE i > Len(names)
    <3>1. i - Len(names) \in 1..Len(d.locals) /\ Len(names) + (i - Len(names)) = i
      BY <1>2, <1>4, <1>5, <2>1
    <3>2. /\ v.t.symbols[i].value = d.locals[i - Len(names)].value
          /\ v.t.symbols[i].home = h
      <4>1. \A j \in 1..Len(d.locals) : /\ v.t.symbols[Len(names) + j].value = d.locals[j].value
                                        /\ v.t.symbols[Len(names) + j].home = h
        BY <1>14
      <4> QED BY <3>1, <4>1
    <3>3. d.ids[i] = d.locals[i - Len(names)].value
      <4>1. \A j \in 1..Len(d.locals) : d.ids[Len(names) + j] = d.locals[j].value
        BY <1>2
      <4> QED BY <3>1, <4>1
    <3> QED BY <2>1, <3>2, <3>3
  <2>2. CASE ~(i > Len(names))
    <3>1. i \in 1..Len(names)
      BY <1>4, <1>5, <2>2
    <3>2. v.t.symbols[i] = r.t.symbols[i]
      BY <1>13, <1>14, <3>1 DEF Grown
    <3> QED BY <1>2, <1>13, <2>2, <3>1, <3>2
  <2> QED BY <2>1, <2>2
<1>17. v.t.imports = d.imports /\ v.t.name = None /\ v.t.version = 0
  BY <1>13, <1>14 DEF Grown
<1>18. Bears(T, h, v.t, d, Len(names))
  BY <1>14, <1>15, <1>16, <1>17 DEF Bears
<1> QED BY <1>1, <1>3, <1>4, <1>12, <1>14, <1>18, ReaderFits

(* The symbols of a document before they have ids. *)
Unnumbered(d) ==
  [i \in DOMAIN d.locals |-> [value |-> d.locals[i].value, sid |-> Unknown, home |-> Nowhere]]

(* A table to be loaded, as it is before the imports are added. *)
Loading(d, h) ==
  [OpenTable("reader", h) EXCEPT !.imports = d.imports, !.symbols = @ \o Unnumbered(d)]

(* The system's symbols have their ids, the document's do not. *)
IsLoading(t, d) ==
  /\ t \in Tables /\ ~IndexActive(t) /\ t.byId = <<>> /\ t.byName = {} /\ ~t.locked
  /\ t.name = None /\ t.version = 0 /\ t.imports = d.imports
  /\ t.maxId = Len(SystemNames)
  /\ Len(t.symbols) = Len(SystemNames) + Len(d.locals)
  /\ \A i \in 1..Len(SystemNames) :
       /\ t.symbols[i].value = SystemNames[i] /\ t.symbols[i].sid = i
       /\ t.symbols[i].home = System
  /\ \A i \in 1..Len(d.locals) :
       t.symbols[Len(SystemNames) + i] =
         [value |-> d.locals[i].value, sid |-> Unknown, home |-> Nowhere]

LEMMA LoadingIs ==
  ASSUME NEW d, d.locals \in Seq(Symbols), d.imports \in Seq(Imports), NEW h
  PROVE  IsLoading(Loading(d, h), d)
<1> DEFINE open == OpenTable("reader", h)
           locals == Unnumbered(d)
           symbols == open.symbols \o locals
           t == [open EXCEPT !.imports = d.imports, !.symbols = symbols]
<1>1. /\ Listed(open) /\ ~open.locked /\ ~IndexActive(open)
      /\ open.name = None /\ open.version = 0
      /\ Len(open.symbols) = Len(SystemNames) /\ open.maxId = Len(SystemNames)
      /\ ValuesOf(open) = SystemNames
      /\ \A i \in 1..Len(open.symbols) : open.symbols[i].home = System
  BY OpenTableListed DEF Owners
<1>2. open \in Tables /\ open.byId = <<>> /\ open.byName = {}
  BY <1>1 DEF Listed, Source, Indexed
<1> HIDE DEF open
<1>3. locals \in Seq(Symbols) /\ Len(locals) = Len(d.locals)
      /\ \A i \in 1..Len(d.locals) :
           locals[i] = [value |-> d.locals[i].value, sid |-> Unknown, home |-> Nowhere]
  <2>1. DOMAIN d.locals = 1..Len(d.locals) /\ Len(d.locals) \in Nat
    OBVIOUS
  <2>2. \A i \in 1..Len(d.locals) :
          locals[i] = [value |-> d.locals[i].value, sid |-> Unknown, home |-> Nowhere]
    BY <2>1 DEF Unnumbered
  <2>3. \A i \in 1..Len(d.locals) : d.locals[i].value \in Text
    <3>1. \A i \in 1..Len(d.locals) : d.locals[i] \in Symbols
      OBVIOUS
    <3> QED BY <3>1 DEF Symbols
  <2>4. Unknown \in Int /\ Nowhere \in Int
    BY SMT DEF Unknown, Nowhere
  <2>5. locals = [i \in 1..Len(d.locals) |-> locals[i]]
    BY <2>1 DEF Unnumbered
  <2> HIDE DEF locals
  <2>6. ASSUME NEW i \in 1..Len(d.locals)
        PROVE  locals[i] \in Symbols
    <3> DEFINE value == d.locals[i].value
    <3>1. value \in Text /\ locals[i] = [value |-> value, sid |-> Unknown, home |-> Nowhere]
      BY <2>2, <2>3
    <3> HIDE DEF value
    <3>2. [value |-> value, sid |-> Unknown, home |-> Nowhere] \in Symbols
      BY <2>4, <3>1 DEF Symbols
    <3> QED BY <3>1, <3>2
  <2> QED BY <2>1, <2>2, <2>5, <2>6, SequenceOf
<1> HIDE DEF locals
<1>4. open.symbols \in Seq(Symbols) /\ Len(SystemNames) \in Nat /\ Len(d.locals) \in Nat
  BY <1>2, SystemNamesAre DEF Tables
<1>5. /\ symbols \in Seq(Symbols) /\ Len(symbols) = Len(SystemNames) + Len(d.locals)
      /\ \A i \in 1..Len(SystemNames) : symbols[i] = open.symbols[i]
      /\ \A i \in 1..Len(d.locals) : symbols[Len(SystemNames) + i] = locals[i]
  <2> DEFINE s == open.symbols
             n == Len(SystemNames)
             k == Len(d.locals)
  <2>1. s \in Seq(Symbols) /\ locals \in Seq(Symbols) /\ Len(s) = n /\ Len(locals) = k
        /\ n \in Nat /\ k \in Nat
    BY <1>1, <1>3, <1>4
  <2> HIDE DEF s, n, k
  <2>2. s \o locals \in Seq(Symbols) /\ Len(s \o locals) = n + k
    BY <2>1, ConcatProperties
  <2>3. \A i \in 1..n : (s \o locals)[i] = s[i]
    BY <2>1
  <2>4. \A i \in 1..k : (s \o locals)[n + i] = locals[i]
    BY <2>1
  <2> QED BY <2>2, <2>3, <2>4 DEF s, n, k
<1> HIDE DEF symbols
<1>6. /\ t \in Tables /\ t.byIdMax = open.byIdMax /\ t.byId = <<>> /\ t.byName = {}
      /\ t.locked = open.locked /\ t.name = None /\ t.version = 0 /\ t.imports = d.imports
      /\ t.maxId = Len(SystemNames) /\ t.symbols = symbols
  BY <1>1, <1>2, <1>5 DEF Tables
<1>7. Loading(d, h) = t
  BY DEF Loading, t, symbols, open, locals
<1> HIDE DEF t
<1>8. \A i \in 1..Len(SystemNames) :
        /\ open.symbols[i].value = SystemNames[i] /\ open.symbols[i].sid = i
        /\ open.symbols[i].home = System
  BY <1>1, <1>2, SourceIs, ValuesAre DEF Listed
<1>9. \A i \in 1..Len(SystemNames) :
        /\ t.symbols[i].value = SystemNames[i] /\ t.symbols[i].sid = i
        /\ t.symbols[i].home = System
  BY <1>5, <1>6, <1>8
<1>10. \A i \in 1..Len(d.locals) :
         t.symbols[Len(SystemNames) + i] =
           [value |-> d.locals[i].value, sid |-> Unknown, home |-> Nowhere]
  BY <1>3, <1>5, <1>6
<1>11. ~IndexActive(t)
  BY <1>1, <1>6 DEF IndexActive
<1> QED BY <1>1, <1>5, <1>6, <1>7, <1>9, <1>10, <1>11 DEF IsLoading

(* What InitIndices makes of such a table. *)
LEMMA InitBears ==
  ASSUME NEW T, NEW h, NEW d, NEW n, NEW t, Bears(T, h, t, d, n)
  PROVE  LET r == InitIndices(t)
         IN r.err = "ok" /\ Bears(T, h, r.t, d, n)
<1> DEFINE r == InitIndices(t)
           u == r.t
<1>1. r.err = "ok" /\ Listed(u) /\ Same(u, t)
  BY InitIndicesListed DEF Bears
<1>2. /\ u.symbols = t.symbols /\ u.maxId = t.maxId /\ u.imports = t.imports
      /\ u.name = t.name /\ u.version = t.version
  BY <1>1 DEF Same
<1> HIDE DEF u
<1>3. Bears(T, h, u, d, n)
  BY <1>1, <1>2 DEF Bears
<1> QED BY <1>1, <1>3 DEF u

(* Without imports, the document's symbols get the ids after the system's. *)
LEMMA NumberedBears ==
  ASSUME NEW T, NEW d, d.locals \in Seq(Symbols), d.imports = <<>>, NEW h \in Handles,
         Recalls(T, d, SystemNames)
  PROVE  Bears(T, h, NumberLocals(Loading(d, h), Len(d.locals), h), d, Len(SystemNames))
<1> DEFINE t == Loading(d, h)
           u == NumberLocals(t, Len(d.locals), h)
           s == Len(SystemNames)
           k == Len(d.locals)
           l == Len(d.ids)
<1>1. k \in Nat /\ h \in Int /\ d.imports \in Seq(Imports) /\ s \in Nat /\ s > 0 /\ l = s + k
  BY CatalogAssumption, SystemNamesAre DEF Recalls
<1>b. /\ \A i \in 1..Len(SystemNames) : d.ids[i] = SystemNames[i]
      /\ \A i \in 1..Len(d.locals) : d.ids[Len(SystemNames) + i] = d.locals[i].value
      /\ \A i \in 1..Len(d.ids) : Proper(d.ids[i])
      /\ \A i, j \in 1..Len(d.ids) : d.ids[i] = d.ids[j] => i = j
  BY DEF Recalls
<1>c. IsLoading(t, d)
  BY <1>1, LoadingIs
<1> HIDE DEF t
<1>2. /\ t \in Tables /\ ~IndexActive(t) /\ t.byId = <<>> /\ t.byName = {} /\ ~t.locked
      /\ t.name = None /\ t.version = 0 /\ t.imports = d.imports
      /\ t.maxId = Len(SystemNames)
      /\ Len(t.symbols) = Len(SystemNames) + Len(d.locals)
      /\ \A i \in 1..Len(SystemNames) :
           /\ t.symbols[i].value = SystemNames[i] /\ t.symbols[i].sid = i
           /\ t.symbols[i].home = System
      /\ \A i \in 1..Len(d.locals) :
           t.symbols[Len(SystemNames) + i] =
             [value |-> d.locals[i].value, sid |-> Unknown, home |-> Nowhere]
  BY <1>c DEF IsLoading
<1>3. /\ u \in Tables /\ u.name = t.name /\ u.version = t.version
      /\ u.imports = t.imports /\ u.owner = t.owner /\ u.maxId = t.maxId + Len(d.locals)
      /\ u.byIdMax = t.byIdMax /\ u.byId = t.byId /\ u.byName = t.byName
      /\ Len(u.symbols) = Len(t.symbols)
      /\ \A i \in 1..Len(t.symbols) :
           u.symbols[i] =
             IF t.symbols[i].sid = Unknown
               THEN [value |-> t.symbols[i].value,
                     sid |-> t.maxId - Len(SystemNames) + i, home |-> h]
             ELSE t.symbols[i]
  <2>1. IsNumbered(u, t, k, h)
    BY <1>1, <1>2, NumberLocalsIs
  <2> HIDE DEF u
  <2> QED BY <2>1 DEF IsNumbered
<1> HIDE DEF u
<1>4. ASSUME NEW i \in 1..Len(d.ids)
      PROVE  /\ u.symbols[i].value = d.ids[i] /\ u.symbols[i].sid = i
             /\ u.symbols[i].home = IF i > Len(SystemNames) THEN h ELSE System
  <2>1. i \in 1..Len(t.symbols)
    BY <1>1, <1>2
  <2>2. CASE i > s
    <3>1. i - s \in 1..Len(d.locals) /\ s + (i - s) = i
      BY <1>1, <2>2
    <3>2. t.symbols[i] = [value |-> d.locals[i - s].value, sid |-> Unknown, home |-> Nowhere]
      BY <1>2, <3>1
    <3>3. t.maxId - Len(SystemNames) + i = i
      BY <1>1, <1>2
    <3>4. u.symbols[i] = [value |-> d.locals[i - s].value, sid |-> i, home |-> h]
      BY <1>3, <2>1, <3>2, <3>3
    <3>5. d.ids[i] = d.locals[i - s].value
      BY <1>b, <3>1
    <3> QED BY <2>2, <3>4, <3>5
  <2>3. CASE ~(i > s)
    <3>1. i \in 1..Len(SystemNames) /\ i # Unknown
      BY <1>1, <2>3 DEF Unknown
    <3>2. t.symbols[i].sid # Unknown
      BY <1>2, <3>1
    <3>3. u.symbols[i] = t.symbols[i]
      BY <1>3, <2>1, <3>2
    <3> QED BY <1>2, <1>b, <2>3, <3>1, <3>3
  <2> QED BY <2>2, <2>3
<1>5. Len(u.symbols) = Len(d.ids) /\ u.maxId = Len(d.ids) /\ Len(u.symbols) \in Nat
  BY <1>1, <1>2, <1>3
<1>6. DOMAIN u.symbols = 1..Len(u.symbols)
  BY <1>3 DEF Tables
<1>7. Source(u)
  <2>1. Numbered(u)
    BY <1>4, <1>5, <1>b DEF Numbered
  <2>2. Distinct(u.symbols)
    BY <1>4, <1>5, <1>6, <1>b DEF Distinct
  <2> QED BY <1>3, <2>1, <2>2 DEF Source
<1>8. Listed(u)
  <2>1. Indexed(u)
    BY <1>2, <1>3 DEF Indexed, IndexActive
  <2> QED BY <1>5, <1>7, <2>1 DEF Listed
<1>9. Bears(T, h, u, d, Len(SystemNames))
  BY <1>2, <1>3, <1>4, <1>5, <1>8 DEF Bears
<1> QED BY <1>9 DEF u, t

(* Without symbols, the ids are those of the imports. *)
LEMMA UnnumberedListed ==
  ASSUME NEW t, Listed(t), NEW h \in Handles
  PROVE  LET u == NumberLocals(t, 0, h)
         IN /\ Listed(u) /\ u.maxId = t.maxId /\ u.symbols = t.symbols
            /\ u.imports = t.imports /\ u.name = t.name /\ u.version = t.version
<1> DEFINE u == NumberLocals(t, 0, h)
<1>1. /\ t \in Tables /\ Len(t.symbols) \in Nat /\ t.maxId \in Nat /\ h \in Int /\ 0 \in Nat
      /\ \A i \in 1..Len(t.symbols) : t.symbols[i].sid = i /\ i # Unknown
  BY SourceIs, CountsAre, CatalogAssumption DEF Listed, Unknown
<1>2. /\ u \in Tables /\ u.name = t.name /\ u.version = t.version
      /\ u.imports = t.imports /\ u.owner = t.owner /\ u.maxId = t.maxId + 0
      /\ u.byIdMax = t.byIdMax /\ u.byId = t.byId /\ u.byName = t.byName
      /\ Len(u.symbols) = Len(t.symbols)
      /\ \A i \in 1..Len(t.symbols) :
           u.symbols[i] =
             IF t.symbols[i].sid = Unknown
               THEN [value |-> t.symbols[i].value,
                     sid |-> t.maxId - Len(SystemNames) + i, home |-> h]
             ELSE t.symbols[i]
  <2>1. IsNumbered(u, t, 0, h)
    BY <1>1, NumberLocalsIs
  <2> HIDE DEF u
  <2> QED BY <2>1 DEF IsNumbered
<1> HIDE DEF u
<1>3. \A i \in 1..Len(t.symbols) : u.symbols[i] = t.symbols[i]
  BY <1>1, <1>2
<1>4. u.symbols \in Seq(Symbols) /\ t.symbols \in Seq(Symbols)
  BY <1>1, <1>2 DEF Tables
<1>5. u.symbols = t.symbols
  BY <1>2, <1>3, <1>4
<1>6. u.maxId = t.maxId
  BY <1>1, <1>2
<1>7. Listed(u)
  <2>1. Source(u)
    BY <1>2, <1>5 DEF Listed, Source, Numbered
  <2>2. Indexed(u)
    BY <1>2, <1>5 DEF Listed, Indexed, IndexActive
  <2> QED BY <1>5, <1>6, <2>1, <2>2 DEF Listed
<1> QED BY <1>2, <1>5, <1>6, <1>7 DEF u

LEMMA LoadTableListed ==
  ASSUME NEW T, Healthy(T), NEW tables, Catalog(T, tables), NEW d, Document(d),
         d # NoDoc, Remembers(T, d), Resolves(tables, d.imports),
         d.imports = <<>> \/ d.locals = <<>>, NEW h \in Handles, h \notin Shared(T)
  PROVE  LET r == LoadTable(d, tables, h)
         IN /\ r.err = "ok" /\ Fit(T, h, r.t) /\ ValuesOf(r.t) = d.ids
            /\ IsLocal(r.t) /\ r.t.version = 0
<1> DEFINE t == Loading(d, h)
           r == ImportAll(t, d.imports, tables, h)
           u == NumberLocals(r.t, Len(d.locals), h)
           v == InitIndices(u)
<1>1. PICK names : Recalls(T, d, names)
  BY DEF Remembers
<1>2. /\ Given(T, d.imports, names) /\ Len(d.ids) = Len(names) + Len(d.locals)
      /\ \A i \in 1..Len(names) : d.ids[i] = names[i]
  BY <1>1 DEF Recalls
<1>3. d.imports \in Seq(Imports) /\ d.locals \in Seq(Symbols)
  BY DEF Document
<1>4. SystemFirst(names) /\ Len(names) \in Nat /\ Len(SystemNames) <= Len(names)
  BY <1>2, <1>3, GivenIs DEF SystemFirst
<1>5. LoadTable(d, tables, h) = IF r.err = "ok" THEN v ELSE r
  BY DEF LoadTable, NumberAndIndex, Then, Loading, Unnumbered
<1>6. IsLoading(t, d)
  BY <1>3, LoadingIs
<1> HIDE DEF t
<1>7. t \in Tables
  BY <1>6 DEF IsLoading
<1>8. r.err = "ok" /\ Bears(T, h, u, d, Len(names))
  <2>1. CASE d.imports = <<>>
    <3>1. names = SystemNames
      <4>1. PICK f, b : Brings(T, d.imports, f, b) /\ f[Len(d.imports)] = names
        BY <1>2 DEF Given
      <4> QED BY <2>1, <4>1 DEF Brings
    <3>2. r = Ok(t)
      <4>1. PICK after : ImportAfter(t, d.imports, tables, h, after) /\ r = after[Len(d.imports)]
        BY <1>3, <1>7, ImportAllUnfolds DEF Catalog
      <4> HIDE DEF r
      <4> QED BY <2>1, <4>1 DEF ImportAfter
    <3>3. r.err = "ok" /\ r.t = t
      BY <3>2 DEF Ok
    <3> QED BY <1>1, <1>3, <2>1, <3>1, <3>3, NumberedBears DEF t
  <2>2. CASE d.locals = <<>>
    <3>1. Len(d.locals) = 0 /\ Len(SystemNames) \in Nat
      BY <2>2, SystemNamesAre
    <3>2. /\ ~IndexActive(t) /\ t.byId = <<>> /\ t.byName = {} /\ ~t.locked
          /\ t.name = None /\ t.version = 0 /\ t.imports = d.imports
          /\ t.maxId = Len(SystemNames)
          /\ Len(t.symbols) = Len(SystemNames)
          /\ \A i \in 1..Len(SystemNames) :
               /\ t.symbols[i].value = SystemNames[i] /\ t.symbols[i].sid = i
               /\ t.symbols[i].home = System
      BY <1>6, <3>1 DEF IsLoading
    <3>3. Listed(t)
      <4>1. Source(t)
        <5>1. DOMAIN t.symbols = 1..Len(t.symbols)
          BY <1>7 DEF Tables
        <5>2. Numbered(t)
          BY <3>2, SystemNamesAre DEF Numbered
        <5>3. Distinct(t.symbols)
          BY <3>2, <5>1, SystemNamesAre DEF Distinct
        <5> QED BY <1>7, <5>2, <5>3 DEF Source
      <4>2. Indexed(t)
        BY <3>2 DEF Indexed
      <4> QED BY <3>1, <3>2, <4>1, <4>2 DEF Listed
    <3>4. ValuesOf(t) = SystemNames
      <4>1. ValuesOf(t) = [i \in 1..Len(SystemNames) |-> SystemNames[i]]
        BY <3>2 DEF ValuesOf
      <4> QED BY <4>1, SystemNamesAre, SequenceIs
    <3>5. r.err = "ok" /\ Takes(T, r.t, t) /\ ValuesOf(r.t) = names
      BY <1>2, <1>3, <3>2, <3>3, <3>4, ImportAllListed
    <3> HIDE DEF r
    <3>6. Listed(r.t) /\ Grown(r.t, t) /\ r.t.maxId = Larger(t.maxId, Len(r.t.symbols))
      BY <3>5 DEF Takes
    <3>7. /\ Len(r.t.symbols) = Len(names)
          /\ \A i \in 1..Len(names) : r.t.symbols[i].value = names[i]
      BY <3>5, <3>6, ValuesAre DEF Grown
    <3>8. Len(names) = Len(d.ids)
      BY <1>2, <1>4, <3>1
    <3>9. r.t.maxId = Len(d.ids)
      <4> DEFINE l == Len(names)
                 s == Len(SystemNames)
      <4>1. r.t.maxId = Larger(s, l) /\ l \in Nat /\ s \in Nat /\ s <= l
        BY <1>4, <3>1, <3>2, <3>6, <3>7
      <4> HIDE DEF l, s
      <4>2. r.t.maxId = l
        BY <4>1 DEF Larger
      <4> QED BY <3>8, <4>2 DEF l
    <3>10. ASSUME NEW i \in 1..Len(names)
           PROVE  r.t.symbols[i].home \in {System} \cup Shared(T) /\ ~(i > Len(names))
      <4>1. CASE i > Len(t.symbols)
        BY <1>4, <3>5, <3>7, <4>1 DEF Takes
      <4>2. CASE ~(i > Len(t.symbols))
        <5>1. i \in 1..Len(t.symbols) /\ i \in 1..Len(SystemNames)
          BY <3>1, <3>2, <4>2
        <5>2. r.t.symbols[i] = t.symbols[i]
          BY <3>6, <5>1 DEF Grown
        <5> QED BY <1>4, <3>2, <5>1, <5>2
      <4> QED BY <4>1, <4>2
    <3>11. /\ Listed(u) /\ u.maxId = r.t.maxId /\ u.symbols = r.t.symbols
           /\ u.imports = r.t.imports /\ u.name = r.t.name /\ u.version = r.t.version
      BY <3>1, <3>6, UnnumberedListed
    <3> HIDE DEF u
    <3>12. u.imports = d.imports /\ u.name = None /\ u.version = 0
      BY <3>2, <3>6, <3>11 DEF Grown
    <3>13. Bears(T, h, u, d, Len(names))
      BY <1>2, <3>7, <3>8, <3>9, <3>10, <3>11, <3>12 DEF Bears
    <3> QED BY <3>5, <3>13
  <2> QED BY <2>1, <2>2
<1> HIDE DEF r, u
<1>9. v.err = "ok" /\ Bears(T, h, v.t, d, Len(names))
  BY <1>8, InitBears
<1> HIDE DEF v
<1> QED BY <1>1, <1>3, <1>4, <1>5, <1>8, <1>9, ReaderFits

-----------------------------------------------------------------------------
(* What a writer makes of a table. *)

LEMMA NoGaps ==
  ASSUME NEW t, Listed(t), NEW h
  PROVE  ~Serialized(t, h).byStruct
<1> DEFINE I == {i \in 1..Len(t.symbols) : t.symbols[i].home = h}
           first == SelectInSeq(t.symbols, LAMBDA s : s.home = h)
           Gap == first # Null /\ \E i \in (first + 1)..Len(t.symbols) :
                                    t.symbols[i].sid # t.symbols[i - 1].sid + 1
<1>1. Len(t.symbols) \in Nat /\ \A i \in 1..Len(t.symbols) : t.symbols[i].sid = i
  BY SourceIs DEF Listed
<1>2. first = IF I # {} THEN Min(I) ELSE 0
  BY Zenon DEF SelectInSeq, Min
<1>3. I \in SUBSET Nat /\ I \in SUBSET (1..Len(t.symbols))
  BY <1>1
<1> HIDE DEF I
<1>4. I # {} => Min(I) \in I
  BY <1>3, MinIs
<1>5. first = 0 \/ first \in 1..Len(t.symbols)
  BY <1>2, <1>3, <1>4
<1> HIDE DEF first
<1>6. ~Gap
  <2> SUFFICES ASSUME first \in 1..Len(t.symbols), NEW i \in (first + 1)..Len(t.symbols)
               PROVE  t.symbols[i].sid = t.symbols[i - 1].sid + 1
    BY <1>5 DEF Null
  <2>1. i \in 1..Len(t.symbols) /\ i - 1 \in 1..Len(t.symbols) /\ (i - 1) + 1 = i
    BY <1>1
  <2> QED BY <1>1, <2>1
<1>7. Serialized(t, h).byStruct = Gap
  BY DEF Serialized, first
<1> HIDE DEF Gap
<1> QED BY <1>6, <1>7

LEMMA WritesRemember ==
  ASSUME NEW T, NEW h \in Handles, NEW t, Fit(T, h, t), IsLocal(t), t.owner # "writer",
         NEW d \in {Serialized(t, h), Unloaded(t, h)}
  PROVE  Remembers(T, d)
<1>1. Listed(t) /\ Dense(t) /\ Origin(T, h, t)
  BY DEF Fit
<1>2. /\ t \in Tables /\ Len(t.symbols) \in Nat
      /\ \A i \in 1..Len(t.symbols) : Proper(t.symbols[i].value) /\ t.symbols[i].value \in Text
      /\ \A i, j \in 1..Len(t.symbols) : t.symbols[i].value = t.symbols[j].value => i = j
  BY <1>1, SourceIs DEF Listed
<1>3. PICK n \in 0..Len(t.symbols) :
        /\ Given(T, t.imports, First(t, n))
        /\ \A i \in 1..Len(t.symbols) : t.symbols[i].home = h <=> i > n
  BY <1>1 DEF Origin
<1> DEFINE own == LocalsOf(t, h)
           names == First(t, n)
           k == Len(t.symbols)
<1>4. /\ own \in Seq(Symbols) /\ Len(own) = k - n
      /\ \A j \in 1..Len(own) : own[j] = t.symbols[n + j]
  BY <1>2, <1>3, LocalsOfListed
<1>5. d.imports = t.imports /\ d.locals = own /\ d.ids = IdsOf(t)
  <2>1. /\ Serialized(t, h).imports = t.imports /\ Serialized(t, h).locals = own
        /\ Serialized(t, h).ids = IdsOf(t)
    BY DEF Serialized, SelectInSeq
  <2>2. /\ Unloaded(t, h).imports = t.imports /\ Unloaded(t, h).locals = own
        /\ Unloaded(t, h).ids = IdsOf(t)
    BY DEF Unloaded
  <2> HIDE DEF own
  <2> QED BY <2>1, <2>2
<1> HIDE DEF own
<1>6. ~d.byStruct /\ (d.maxId = 0 \/ d.maxId = t.maxId)
  <2>1. Serialized(t, h).maxId = 0
    BY DEF Serialized, SelectInSeq
  <2>2. Unloaded(t, h).maxId = t.maxId /\ ~Unloaded(t, h).byStruct
    BY DEF Unloaded
  <2> QED BY <1>1, <2>1, <2>2, NoGaps
<1>7. IdsOf(t) = ValuesOf(t)
  BY <1>1, IdsOfIs
<1>8. /\ d.ids \in Seq(Text) /\ Len(d.ids) = k
      /\ \A i \in 1..k : d.ids[i] = t.symbols[i].value
  BY <1>2, <1>5, <1>7, ValuesAre
<1>9. t.maxId = k
  BY <1>1 DEF Dense
<1>10. k \in Nat /\ n \in Nat /\ n <= k
  BY <1>2
<1>11. names \in Seq(Text) /\ Len(names) = n /\ \A i \in 1..n : names[i] = t.symbols[i].value
  <2>1. \A i \in 1..n : i \in 1..k /\ names[i] = t.symbols[i].value
    BY <1>10 DEF First
  <2>2. names = [i \in 1..n |-> names[i]]
    BY DEF First
  <2> HIDE DEF names, k
  <2>3. \A i \in 1..n : names[i] \in Text
    BY <1>2, <2>1 DEF k
  <2> QED BY <1>10, <2>1, <2>2, <2>3, SequenceOf
<1> HIDE DEF names, k
<1>12. Given(T, d.imports, names)
  BY <1>3, <1>5 DEF names
<1>13. Len(d.ids) = Len(names) + Len(d.locals)
  BY <1>4, <1>5, <1>8, <1>10, <1>11
<1>14. \A i \in 1..Len(names) : d.ids[i] = names[i]
  BY <1>8, <1>10, <1>11
<1>15. ASSUME NEW i \in 1..Len(d.locals)
       PROVE  d.ids[Len(names) + i] = d.locals[i].value
  <2>1. n + i \in 1..k
    BY <1>4, <1>5, <1>10
  <2> QED BY <1>4, <1>5, <1>8, <1>11, <2>1
<1>16. /\ \A i \in 1..Len(d.ids) : Proper(d.ids[i])
       /\ \A i, j \in 1..Len(d.ids) : d.ids[i] = d.ids[j] => i = j
  BY <1>2, <1>8 DEF k
<1>17. ~d.byStruct /\ d.maxId \in {0, Len(d.ids)}
  BY <1>6, <1>8, <1>9
<1>18. Recalls(T, d, names)
  BY <1>8, <1>11, <1>12, <1>13, <1>14, <1>15, <1>16, <1>17 DEF Recalls
<1> QED BY <1>18 DEF Remembers

-----------------------------------------------------------------------------
(* What a step does to the other tables. *)

(* What the steps keep true when the table at h becomes u. *)
Replaces(h, u) ==
  /\ Fit(tabs, h, u)
  /\ h \in Shared(tabs) => /\ ~IsLocal(u) /\ ImportOf(u) = ImportOf(tabs[h])
                           /\ ValuesOf(u) = ValuesOf(tabs[h])
  /\ ~IsLocal(u) =>
       \A g \in Shared(tabs) :
         tabs[g].name = u.name /\ tabs[g].version = u.version => ValuesOf(tabs[g]) = ValuesOf(u)

Kept == Healthy(tabs) /\ Remembers(tabs, doc)

LEMMA ReplacedIs ==
  ASSUME TypeOK, Kept, NEW h \in Handles, NEW u, Replaces(h, u),
         tabs' = [tabs EXCEPT ![h] = u]
  PROVE  Healthy(tabs') /\ Remembers(tabs', doc)
<1> DEFINE U == tabs'
<1>1. /\ U[h] = u /\ \A g \in Handles \ {h} : U[g] = tabs[g]
      /\ u # Free
  <2>1. u \in Tables
    BY DEF Replaces, Fit, Listed, Source
  <2> QED BY <2>1, CatalogAssumption DEF TypeOK
<1> HIDE DEF U
<1>2. Keeps(U, tabs)
  <2> SUFFICES ASSUME NEW g \in Shared(tabs)
               PROVE  /\ g \in Shared(U) /\ ImportOf(U[g]) = ImportOf(tabs[g])
                      /\ ValuesOf(U[g]) = ValuesOf(tabs[g])
    BY DEF Keeps
  <2>1. CASE g = h
    BY <1>1, <2>1 DEF Replaces, Shared
  <2>2. CASE g # h
    BY <1>1, <2>2 DEF Shared
  <2> QED BY <2>1, <2>2
<1>3. ASSUME NEW g \in Handles, U[g] # Free
      PROVE  Fit(U, g, U[g])
  <2>1. CASE g = h
    BY <1>1, <1>2, <2>1, FitPersists DEF Replaces
  <2>2. CASE g # h
    <3>1. U[g] = tabs[g] /\ Fit(tabs, g, tabs[g])
      BY <1>1, <1>3, <2>2 DEF Kept, Healthy
    <3> QED BY <1>2, <3>1, FitPersists
  <2> QED BY <2>1, <2>2
<1>4. OneEach(U)
  <2> SUFFICES ASSUME NEW f \in Shared(U), NEW g \in Shared(U),
                      U[f].name = U[g].name, U[f].version = U[g].version
               PROVE  ValuesOf(U[f]) = ValuesOf(U[g])
    BY DEF OneEach
  <2>1. \A k \in Shared(U) : k = h \/ (k \in Shared(tabs) /\ U[k] = tabs[k])
    BY <1>1 DEF Shared
  <2>2. h \in Shared(U) => ~IsLocal(u)
    BY <1>1 DEF Shared
  <2>3. CASE f = h /\ g = h
    BY <2>3
  <2>4. CASE f = h /\ g # h
    BY <1>1, <2>1, <2>2, <2>4 DEF Replaces
  <2>5. CASE f # h /\ g = h
    BY <1>1, <2>1, <2>2, <2>5 DEF Replaces
  <2>6. CASE f # h /\ g # h
    BY <2>1, <2>6 DEF Kept, Healthy, OneEach
  <2> QED BY <2>3, <2>4, <2>5, <2>6
<1>5. Healthy(U) /\ Remembers(U, doc)
  BY <1>2, <1>3, <1>4, RemembersPersists DEF Kept, Healthy
<1> QED BY <1>5 DEF U

(* Steps that leave a table its symbols and imports. *)
LEMMA RetainedIs ==
  ASSUME TypeOK, Kept, NEW h \in Live, NEW u, Listed(u), Dense(u),
         u.symbols = tabs[h].symbols, u.imports = tabs[h].imports, u.owner = tabs[h].owner,
         ImportOf(u) = ImportOf(tabs[h]) \/ (IsLocal(u) /\ IsLocal(tabs[h]))
  PROVE  Replaces(h, u)
<1> DEFINE t == tabs[h]
<1>1. t # Free /\ h \in Handles /\ Fit(tabs, h, t)
  BY DEF Live, Kept, Healthy
<1>2. u.name = t.name /\ (~IsLocal(u) => u.version = t.version)
  BY DEF ImportOf, IsLocal
<1>3. IsLocal(u) <=> IsLocal(t)
  BY <1>2 DEF IsLocal
<1>4. ValuesOf(u) = ValuesOf(t) /\ \A n : First(u, n) = First(t, n)
  BY DEF ValuesOf, First
<1>5. Fit(tabs, h, u)
  <2>1. Homed(tabs, h, u)
    BY <1>1 DEF Fit, Homed
  <2>2. IsLocal(u) \/ u.name = "$ion" => HasSystem(u)
    BY <1>1, <1>2, <1>3 DEF Fit, HasSystem
  <2>3. IsLocal(u) /\ u.owner # "writer" => Origin(tabs, h, u)
    BY <1>1, <1>3, <1>4 DEF Fit, Origin
  <2> QED BY <2>1, <2>2, <2>3 DEF Fit
<1>6. h \in Shared(tabs) => /\ ~IsLocal(u) /\ ImportOf(u) = ImportOf(t)
                            /\ ValuesOf(u) = ValuesOf(t)
  BY <1>3, <1>4 DEF Shared
<1>7. ~IsLocal(u) =>
       \A g \in Shared(tabs) :
         tabs[g].name = u.name /\ tabs[g].version = u.version => ValuesOf(tabs[g]) = ValuesOf(u)
  <2>1. ~IsLocal(u) => h \in Shared(tabs)
    BY <1>1, <1>3 DEF Shared
  <2> QED BY <1>2, <1>4, <2>1 DEF Kept, Healthy, OneEach
<1> QED BY <1>5, <1>6, <1>7 DEF Replaces

-----------------------------------------------------------------------------
(* The steps of a careful program. *)

LEMMA KeptByUpdate ==
  ASSUME TypeOK, Kept, NEW h \in Handles, NEW u, Replaces(h, u),
         tabs' = [tabs EXCEPT ![h] = u], UNCHANGED doc
  PROVE  Kept'
BY ReplacedIs DEF Kept

LEMMA KeptByRest ==
  ASSUME Kept, UNCHANGED tabs, Remembers(tabs, doc')
  PROVE  Kept'
BY DEF Kept

LEMMA LiveFits ==
  ASSUME TypeOK, Kept, NEW h \in Live
  PROVE  /\ Fit(tabs, h, tabs[h]) /\ Listed(tabs[h]) /\ Dense(tabs[h]) /\ Homed(tabs, h, tabs[h])
         /\ h \in Handles /\ h \in Int /\ h # System /\ tabs[h] \in Tables /\ tabs[h] # Free
         /\ h \in Shared(tabs) <=> ~IsLocal(tabs[h])
<1>1. h \in Handles /\ h \in Int /\ tabs[h] \in Tables /\ tabs[h] # Free
  BY LiveIs DEF Live
<1>2. h # System
  BY <1>1, CatalogAssumption DEF System
<1>3. Fit(tabs, h, tabs[h])
  BY <1>1 DEF Kept, Healthy
<1> QED BY <1>1, <1>2, <1>3 DEF Fit, Shared

LEMMA FreshIs ==
  ASSUME NEW h \in Handles, Fresh(h)
  PROVE  h \notin Live /\ h \notin Shared(tabs) /\ h # System /\ h \in Int
BY CatalogAssumption DEF Fresh, Live, Shared, System

LEMMA FirstAll ==
  ASSUME NEW t \in Tables
  PROVE  First(t, Len(t.symbols)) = ValuesOf(t)
BY DEF First, ValuesOf

LEMMA SystemGiven ==
  ASSUME NEW T
  PROVE  Given(T, <<>>, SystemNames)
<1> DEFINE f == [i \in {0} |-> SystemNames]
<1>1. f[0] = SystemNames /\ Len(<<>>) = 0
  OBVIOUS
<1>2. Brings(T, <<>>, f, f)
  BY <1>1 DEF Brings
<1> QED BY <1>1, <1>2 DEF Given

(* A table just opened. *)
LEMMA OpenedFits ==
  ASSUME NEW T, NEW h \in Handles, NEW owner \in Owners
  PROVE  Fit(T, h, OpenTable(owner, h)) /\ IsLocal(OpenTable(owner, h))
<1> DEFINE t == OpenTable(owner, h)
<1>1. /\ Listed(t) /\ Dense(t)
      /\ t.name = None /\ t.imports = <<>>
      /\ Len(t.symbols) = Len(SystemNames)
      /\ ValuesOf(t) = SystemNames
      /\ \A i \in 1..Len(t.symbols) : t.symbols[i].home = System
  BY OpenTableListed
<1> HIDE DEF t
<1>2. h # System /\ t \in Tables /\ Len(t.symbols) \in Nat
  BY <1>1, CatalogAssumption, CountsAre DEF System, Listed, Source
<1>3. Homed(T, h, t)
  BY <1>1 DEF Homed
<1>4. HasSystem(t)
  BY <1>1, <1>2, ValuesAre, SystemNamesAre DEF HasSystem
<1>5. Origin(T, h, t)
  <2>1. Given(T, t.imports, First(t, Len(t.symbols)))
    BY <1>1, <1>2, FirstAll, SystemGiven
  <2>2. Len(t.symbols) \in 0..Len(t.symbols)
        /\ \A i \in 1..Len(t.symbols) : t.symbols[i].home = h <=> i > Len(t.symbols)
    BY <1>1, <1>2
  <2> QED BY <2>1, <2>2 DEF Origin
<1> QED BY <1>1, <1>3, <1>4, <1>5 DEF Fit, t, IsLocal

LEMMA OpenKeeps ==
  ASSUME TypeOK, Kept, NEW h \in Handles, Open(h)
  PROVE  Kept' /\ res'.op # "read"
<1> DEFINE u == OpenTable("caller", h)
<1>1. Fit(tabs, h, u) /\ IsLocal(u)
  BY OpenedFits DEF Owners
<1>2. tabs' = [tabs EXCEPT ![h] = u] /\ UNCHANGED doc /\ res'.op # "read"
  BY DEF Open, Update, Ok, Call, Result
<1> HIDE DEF u
<1>3. Replaces(h, u)
  BY <1>1, FreshIs DEF Open, Replaces
<1> QED BY <1>2, <1>3, KeptByUpdate

(* What set_version, lock and lookups have in common. *)
LEMMA RetainedKeeps ==
  ASSUME TypeOK, Kept, NEW h \in Live, NEW u, Listed(u), Dense(u),
         u.symbols = tabs[h].symbols, u.imports = tabs[h].imports, u.owner = tabs[h].owner,
         ImportOf(u) = ImportOf(tabs[h]) \/ (IsLocal(u) /\ IsLocal(tabs[h])),
         NEW op, op # "read", NEW err, Update(op, h, [t |-> u, err |-> err])
  PROVE  Kept' /\ res'.op # "read"
<1>1. Replaces(h, u) /\ h \in Handles
  BY RetainedIs, LiveFits
<1>2. tabs' = [tabs EXCEPT ![h] = u] /\ UNCHANGED doc /\ res'.op # "read"
  BY DEF Update, Call, Result
<1> QED BY <1>1, <1>2, KeptByUpdate

(* A local table gets a symbol of its own. *)
LEMMA GainsFits ==
  ASSUME NEW T, NEW h, NEW t, Fit(T, h, t), IsLocal(t), NEW u, Listed(u), Dense(u),
         NEW name, Gains(u, t, name, h)
  PROVE  Fit(T, h, u) /\ IsLocal(u)
<1>1. t \in Tables /\ Len(t.symbols) \in Nat
  BY CountsAre DEF Fit, Listed, Source
<1>2. /\ Len(u.symbols) = Len(t.symbols) + 1 /\ u.symbols[Len(t.symbols) + 1].home = h
      /\ \A i \in 1..Len(t.symbols) : u.symbols[i] = t.symbols[i]
  BY <1>1, GainsIs
<1>3. u.name = t.name /\ u.imports = t.imports /\ u.owner = t.owner
  BY DEF Gains, Grown
<1>4. \A i \in 1..Len(u.symbols) : i \in 1..Len(t.symbols) \/ i = Len(t.symbols) + 1
  BY <1>1, <1>2
<1>5. Homed(T, h, u)
  BY <1>2, <1>4 DEF Fit, Homed
<1>6. HasSystem(u)
  <2>1. Len(SystemNames) \in Nat /\ Len(SystemNames) <= Len(t.symbols)
        /\ \A i \in 1..Len(SystemNames) : t.symbols[i].value = SystemNames[i]
    BY SystemNamesAre DEF Fit, HasSystem
  <2>2. \A i \in 1..Len(SystemNames) : i \in 1..Len(t.symbols)
    BY <1>1, <2>1
  <2> QED BY <1>1, <1>2, <2>1, <2>2 DEF HasSystem
<1>7. ASSUME Origin(T, h, t)
      PROVE  Origin(T, h, u)
  <2>1. PICK n \in 0..Len(t.symbols) :
          /\ Given(T, t.imports, First(t, n))
          /\ \A i \in 1..Len(t.symbols) : t.symbols[i].home = h <=> i > n
    BY <1>7 DEF Origin
  <2>2. n \in 0..Len(u.symbols) /\ Len(t.symbols) + 1 > n
    BY <1>1, <1>2
  <2>3. First(u, n) = First(t, n)
    <3>1. \A i \in 1..n : i \in 1..Len(t.symbols)
      BY <1>1
    <3> QED BY <1>2, <3>1 DEF First
  <2>4. \A i \in 1..Len(u.symbols) : u.symbols[i].home = h <=> i > n
    BY <1>2, <1>4, <2>1, <2>2
  <2> QED BY <1>3, <2>1, <2>2, <2>3, <2>4 DEF Origin
<1> QED BY <1>3, <1>5, <1>6, <1>7 DEF Fit, IsLocal

LEMMA LocalReplaces ==
  ASSUME NEW h \in Live, IsLocal(tabs[h]), NEW u, Fit(tabs, h, u), IsLocal(u)
  PROVE  Replaces(h, u)
BY DEF Replaces, Shared

LEMMA AddKeeps ==
  ASSUME Careless = {}, TypeOK, Kept, NEW h \in Handles, NEW name \in Names, Add(h, name)
  PROVE  Kept' /\ res'.op # "read"
<1> DEFINE t == tabs[h]
           u == AddSymbol(t, name, h).t
<1>1. h \in Live /\ IsLocal(t) /\ name \in Text /\ name \notin BadNames
  BY CatalogAssumption DEF Add, Private
<1>2. Fit(tabs, h, t) /\ Listed(t) /\ Dense(t) /\ h \in Int /\ t \in Tables
  BY <1>1, LiveFits
<1>3. tabs' = [tabs EXCEPT ![h] = u] /\ UNCHANGED doc /\ res'.op # "read"
  BY DEF Add, Update, Call, Result
<1>4. /\ Listed(u) /\ Dense(u)
      /\ Same(u, t) \/ Gains(u, t, name, h)
  BY <1>1, <1>2, AddSymbolListed
<1> HIDE DEF u
<1>5. Replaces(h, u)
  <2>1. CASE Same(u, t)
    <3>1. /\ u.symbols = t.symbols /\ u.imports = t.imports /\ u.owner = t.owner
          /\ ImportOf(u) = ImportOf(t)
      BY <2>1 DEF Same, ImportOf
    <3> QED BY <1>1, <1>4, <3>1, RetainedIs
  <2>2. CASE Gains(u, t, name, h)
    BY <1>1, <1>2, <1>4, <2>2, GainsFits, LocalReplaces
  <2> QED BY <1>4, <2>1, <2>2
<1> QED BY <1>3, <1>5, KeptByUpdate

LEMMA LockedKeeps ==
  ASSUME TypeOK, Kept, NEW h \in Live, Update("set", h, Fails(tabs[h], "immutable"))
  PROVE  Kept' /\ res'.op # "read"
<1>1. Listed(tabs[h]) /\ Dense(tabs[h])
  BY LiveFits
<1>2. Update("set", h, [t |-> tabs[h], err |-> "immutable"])
  BY DEF Fails
<1> QED BY <1>1, <1>2, RetainedKeeps

LEMMA SetVersionKeeps ==
  ASSUME Careless = {}, TypeOK, Kept, NEW h \in Handles, NEW version \in Versions,
         SetVersion(h, version)
  PROVE  Kept' /\ res'.op # "read"
<1> DEFINE t == tabs[h]
           u == [t EXCEPT !.version = version]
<1>1. h \in Live /\ IsLocal(t) /\ version \in Nat
  BY CatalogAssumption DEF SetVersion, Private
<1>2. Listed(t) /\ Dense(t) /\ t \in Tables
  BY <1>1, LiveFits
<1>3. CASE t.locked
  BY <1>1, <1>3, LockedKeeps DEF SetVersion
<1>4. CASE ~t.locked
  <2>1. Update("set", h, [t |-> u, err |-> "ok"])
    BY <1>4 DEF SetVersion, Ok
  <2>2. /\ u \in Tables /\ u.symbols = t.symbols /\ u.maxId = t.maxId /\ u.byId = t.byId
        /\ u.byIdMax = t.byIdMax /\ u.byName = t.byName /\ u.name = t.name
        /\ u.imports = t.imports /\ u.owner = t.owner
    BY <1>1, <1>2 DEF Tables
  <2> HIDE DEF u
  <2>3. Listed(u) /\ Dense(u)
    BY <1>2, <2>2 DEF Listed, Source, Numbered, Indexed, IndexActive, Dense
  <2>4. IsLocal(u)
    BY <1>1, <2>2 DEF IsLocal
  <2> QED BY <1>1, <2>1, <2>2, <2>3, <2>4, RetainedKeeps
<1> QED BY <1>3, <1>4

LEMMA SetNameKeeps ==
  ASSUME Careless = {}, TypeOK, Kept, NEW h \in Handles, NEW name \in TableNames,
         SetName(h, name)
  PROVE  Kept' /\ res'.op # "read"
<1> DEFINE t == tabs[h]
           u == [t EXCEPT !.name = name]
<1>1. h \in Live /\ IsLocal(t) /\ name \in Text /\ name # None
      /\ \A g \in Live : tabs[g].name = name => tabs[g].version # t.version
  BY CatalogAssumption DEF SetName, Private
<1>2. Listed(t) /\ Dense(t) /\ t \in Tables /\ Fit(tabs, h, t)
  BY <1>1, LiveFits
<1>3. CASE t.locked
  BY <1>1, <1>3, LockedKeeps DEF SetName
<1>4. CASE ~t.locked
  <2>1. tabs' = [tabs EXCEPT ![h] = u] /\ UNCHANGED doc /\ res'.op # "read"
    BY <1>4 DEF SetName, Ok, Update, Call, Result
  <2>2. /\ u \in Tables /\ u.symbols = t.symbols /\ u.maxId = t.maxId /\ u.byId = t.byId
        /\ u.byIdMax = t.byIdMax /\ u.byName = t.byName /\ u.name = name
        /\ u.version = t.version
    BY <1>1, <1>2 DEF Tables
  <2> HIDE DEF u
  <2>3. Listed(u) /\ Dense(u)
    BY <1>2, <2>2 DEF Listed, Source, Numbered, Indexed, IndexActive, Dense
  <2>4. Homed(tabs, h, u) /\ HasSystem(u) /\ ~IsLocal(u)
    BY <1>1, <1>2, <2>2 DEF Fit, Homed, HasSystem, IsLocal
  <2>5. Fit(tabs, h, u)
    BY <2>3, <2>4 DEF Fit
  <2>6. h \notin Shared(tabs) /\ \A g \in Shared(tabs) : g \in Live
    BY <1>1 DEF Shared, Live
  <2>7. Replaces(h, u)
    BY <1>1, <2>2, <2>5, <2>6 DEF Replaces
  <2> QED BY <2>1, <2>7, KeptByUpdate
<1> QED BY <1>3, <1>4

LEMMA SetMaxSidKeeps ==
  ASSUME Careless = {}, TypeOK, Kept, NEW h \in Handles, NEW maxId \in MaxIds,
         SetMaxSid(h, maxId)
  PROVE  Kept' /\ res'.op # "read"
<1> DEFINE t == tabs[h]
<1>1. h \in Live /\ maxId = t.maxId
  BY DEF SetMaxSid
<1>2. Listed(t) /\ Dense(t) /\ t \in Tables
  BY <1>1, LiveFits
<1>3. CASE t.locked
  BY <1>1, <1>3, LockedKeeps DEF SetMaxSid
<1>4. CASE ~t.locked
  <2>1. [t EXCEPT !.maxId = maxId] = t
    BY <1>1, <1>2 DEF Tables
  <2>2. Update("set", h, [t |-> t, err |-> "ok"])
    BY <1>4, <2>1 DEF SetMaxSid, Ok
  <2> QED BY <1>1, <1>2, <2>2, RetainedKeeps
<1> QED BY <1>3, <1>4

LEMMA LockKeeps ==
  ASSUME TypeOK, Kept, NEW h \in Handles, Lock(h)
  PROVE  Kept' /\ res'.op # "read"
<1> DEFINE t == tabs[h]
           r == LockTable(t)
           u == r.t
<1>1. h \in Live
  BY DEF Lock
<1>2. Listed(t) /\ Dense(t)
  BY <1>1, LiveFits
<1>3. /\ Listed(u) /\ Dense(u)
      /\ u.name = t.name /\ u.version = t.version /\ u.maxId = t.maxId
      /\ u.imports = t.imports /\ u.symbols = t.symbols /\ u.owner = t.owner
  BY <1>2, LockTableListed
<1>4. tabs' = [tabs EXCEPT ![h] = u] /\ UNCHANGED doc /\ res'.op # "read"
  BY DEF Lock, Update, Call, Result
<1> HIDE DEF u
<1>5. ImportOf(u) = ImportOf(t)
  BY <1>3 DEF ImportOf
<1>6. Replaces(h, u)
  BY <1>1, <1>3, <1>5, RetainedIs
<1> QED BY <1>4, <1>6, KeptByUpdate

LEMMA FindKeeps ==
  ASSUME TypeOK, Kept, NEW h \in Handles, Find(h)
  PROVE  Kept' /\ res'.op # "read"
<1> DEFINE t == tabs[h]
           u == IndexIfLarge(t).t
<1>1. h \in Live
  BY DEF Find
<1>2. Listed(t) /\ Dense(t) /\ t \in Tables
  BY <1>1, LiveFits
<1>3. Listed(u) /\ Same(u, t)
  BY <1>2, IndexIfLargeListed
<1>4. tabs' = [tabs EXCEPT ![h] = u] /\ UNCHANGED doc /\ res'.op # "read"
  BY DEF Find, Update, Call, Result
<1> HIDE DEF u
<1>5. /\ u.symbols = t.symbols /\ u.imports = t.imports /\ u.owner = t.owner
      /\ ImportOf(u) = ImportOf(t) /\ u.maxId = t.maxId
  BY <1>3 DEF Same, ImportOf
<1>6. Dense(u)
  BY <1>2, <1>5 DEF Dense
<1>7. Replaces(h, u)
  BY <1>1, <1>3, <1>5, <1>6, RetainedIs
<1> QED BY <1>4, <1>7, KeptByUpdate

(* An import more brings the names that it merges in. *)
LEMMA GivenMore ==
  ASSUME NEW T, NEW imports \in Seq(Imports), NEW names, Given(T, imports, names),
         NEW import \in Imports, NEW others, Provides(T, import, others),
         NEW all, Merged(names, others, import.maxId, all)
  PROVE  Given(T, Append(imports, import), all)
<1> DEFINE k == Len(imports)
           more == Append(imports, import)
<1>1. k \in Nat /\ Len(more) = k + 1 /\ more[k + 1] = import
      /\ \A n \in 1..k : more[n] = imports[n]
  OBVIOUS
<1>2. PICK f, b : Brings(T, imports, f, b) /\ f[k] = names
  BY DEF Given
<1>3. /\ f[0] = SystemNames
      /\ \A n \in 1..k : /\ Provides(T, imports[n], b[n])
                        /\ Merged(f[n - 1], b[n], imports[n].maxId, f[n])
  BY <1>2 DEF Brings
<1> DEFINE F == [n \in 0..(k + 1) |-> IF n = k + 1 THEN all ELSE f[n]]
           B == [n \in 1..(k + 1) |-> IF n = k + 1 THEN others ELSE b[n]]
<1> HIDE DEF k, more
<1>4. /\ F[0] = SystemNames /\ F[k + 1] = all /\ B[k + 1] = others
      /\ \A n \in 0..k : F[n] = f[n]
      /\ \A n \in 1..k : B[n] = b[n]
  BY <1>1, <1>3
<1> HIDE DEF F, B
<1>5. ASSUME NEW n \in 1..(k + 1)
      PROVE  Provides(T, more[n], B[n]) /\ Merged(F[n - 1], B[n], more[n].maxId, F[n])
  <2>1. CASE n = k + 1
    <3>1. n - 1 = k /\ k \in 0..k
      BY <1>1, <2>1
    <3>2. F[n - 1] = names
      BY <1>2, <1>4, <3>1
    <3> QED BY <1>1, <1>4, <2>1, <3>2
  <2>2. CASE n # k + 1
    <3>1. n \in 1..k /\ n \in 0..k /\ n - 1 \in 0..k
      BY <1>1, <2>2
    <3> QED BY <1>1, <1>3, <1>4, <3>1
  <2> QED BY <2>1, <2>2
<1>6. Brings(T, more, F, B)
  BY <1>1, <1>4, <1>5 DEF Brings
<1> QED BY <1>1, <1>4, <1>6 DEF Given, more

LEMMA NoLocals ==
  ASSUME NEW t \in Tables, NEW h, NEW n \in 0..Len(t.symbols), LocalsOf(t, h) = <<>>,
         \A i \in 1..Len(t.symbols) : t.symbols[i].home = h <=> i > n
  PROVE  n = Len(t.symbols)
<1>1. Len(LocalsOf(t, h)) = Len(t.symbols) - n
  BY LocalsOfListed
<1>2. Len(t.symbols) \in Nat /\ Len(<<>>) = 0
  BY CountsAre
<1> QED BY <1>1, <1>2

LEMMA ImportKeeps ==
  ASSUME Careless = {}, TypeOK, Kept, NEW h \in Handles, NEW g \in Handles, Import(h, g)
  PROVE  Kept' /\ res'.op # "read"
<1> DEFINE t == tabs[h]
           other == tabs[g]
           u == ImportSymbolTable(t, other, h).t
<1>1. /\ h \in Live /\ g \in Live /\ IsLocal(t) /\ ~IsLocal(other)
      /\ LocalsOf(t, h) = <<>>
  BY DEF Import, Private
<1>2. /\ Fit(tabs, h, t) /\ Listed(t) /\ Dense(t) /\ h # System /\ t \in Tables
      /\ h \notin Shared(tabs) /\ g \in Shared(tabs) /\ other \in Tables
  BY <1>1, LiveFits
<1>3. tabs' = [tabs EXCEPT ![h] = u] /\ UNCHANGED doc /\ res'.op # "read"
  BY DEF Import, Update, Call, Result
<1>4. CASE t.locked
  <2>1. u = t
    BY <1>4 DEF ImportSymbolTable, Fails
  <2>2. Replaces(h, u)
    BY <1>1, <1>2, <2>1, LocalReplaces
  <2> QED BY <1>3, <2>2, KeptByUpdate
<1>5. CASE ~t.locked
  <2>1. Source(other) /\ Foreign(tabs, other)
    BY <1>2, SharedIs DEF Kept
  <2>2. /\ Listed(u) /\ Dense(u)
        /\ u.name = t.name /\ u.version = t.version /\ u.owner = t.owner
        /\ u.imports = Append(t.imports, ImportOf(other))
        /\ Len(u.symbols) >= Len(t.symbols)
        /\ \A i \in 1..Len(t.symbols) : u.symbols[i] = t.symbols[i]
        /\ Merged(ValuesOf(t), ValuesOf(other), other.maxId, ValuesOf(u))
        /\ \A i \in 1..Len(u.symbols) :
             i > Len(t.symbols) => \E j \in 1..Len(other.symbols) :
                                     u.symbols[i].home = other.symbols[j].home
    BY <1>2, <1>5, <2>1, ImportSymbolTableListed, SMTT(30)
  <2> HIDE DEF u
  <2>3. u \in Tables /\ Len(u.symbols) \in Nat /\ Len(t.symbols) \in Nat
    BY <1>2, <2>2, CountsAre DEF Listed, Source
  <2>4. ASSUME NEW i \in 1..Len(u.symbols)
        PROVE  \/ i \in 1..Len(t.symbols) /\ u.symbols[i] = t.symbols[i]
               \/ u.symbols[i].home \in {System} \cup Shared(tabs)
    <3>1. CASE i > Len(t.symbols)
      BY <2>1, <2>2, <3>1 DEF Foreign
    <3>2. CASE ~(i > Len(t.symbols))
      BY <2>2, <2>3, <3>2
    <3> QED BY <3>1, <3>2
  <2>5. Homed(tabs, h, u)
    BY <1>2, <2>4 DEF Fit, Homed
  <2>6. HasSystem(u)
    <3>1. Len(SystemNames) \in Nat /\ Len(SystemNames) <= Len(t.symbols)
          /\ \A i \in 1..Len(SystemNames) : t.symbols[i].value = SystemNames[i]
      BY <1>1, <1>2, SystemNamesAre DEF Fit, HasSystem
    <3>2. \A i \in 1..Len(SystemNames) : i \in 1..Len(t.symbols)
      BY <2>3, <3>1
    <3> QED BY <2>2, <2>3, <3>1, <3>2 DEF HasSystem
  <2>7. ASSUME Origin(tabs, h, t)
        PROVE  Origin(tabs, h, u)
    <3>1. PICK n \in 0..Len(t.symbols) :
            /\ Given(tabs, t.imports, First(t, n))
            /\ \A i \in 1..Len(t.symbols) : t.symbols[i].home = h <=> i > n
      BY <2>7 DEF Origin
    <3>2. n = Len(t.symbols)
      BY <1>1, <1>2, <3>1, NoLocals
    <3>3. Given(tabs, t.imports, ValuesOf(t))
      BY <1>2, <3>1, <3>2, FirstAll
    <3>4. t.imports \in Seq(Imports) /\ ImportOf(other) \in Imports
          /\ Provides(tabs, ImportOf(other), ValuesOf(other))
      BY <1>2, ImportOfIs DEF Tables, Provides
    <3>5. ImportOf(other).maxId = other.maxId
      BY DEF ImportOf
    <3>6. Given(tabs, Append(t.imports, ImportOf(other)), ValuesOf(u))
      BY <2>2, <3>3, <3>4, <3>5, GivenMore
    <3>7. Given(tabs, u.imports, First(u, Len(u.symbols)))
      BY <2>2, <2>3, <3>6, FirstAll
    <3>8. \A i \in 1..Len(u.symbols) : ~(u.symbols[i].home = h) /\ ~(i > Len(u.symbols))
      BY <1>2, <2>3, <2>4, <3>1, <3>2
    <3>9. Len(u.symbols) \in 0..Len(u.symbols)
      BY <2>3
    <3> QED BY <3>7, <3>8, <3>9 DEF Origin
  <2>8. IsLocal(u) /\ Fit(tabs, h, u)
    BY <1>1, <1>2, <2>2, <2>5, <2>6, <2>7 DEF Fit, IsLocal
  <2>9. Replaces(h, u)
    BY <1>1, <2>8, LocalReplaces
  <2> QED BY <1>3, <2>9, KeptByUpdate
<1> QED BY <1>4, <1>5

(* The catalog lists shared tables. *)
LEMMA CatalogIs ==
  ASSUME TypeOK, Versioned
  PROVE  Catalog(tabs, TablesOf(cat))
<1>1. /\ TablesOf(cat) \in Seq(Tables) /\ Len(TablesOf(cat)) = Len(cat)
      /\ \A i \in 1..Len(cat) : TablesOf(cat)[i] = tabs[cat[i]] /\ cat[i] \in Live
  BY LiveIs
<1>2. \A i \in 1..Len(cat) : cat[i] \in Shared(tabs)
  BY <1>1 DEF Versioned, Shared, Live
<1> QED BY <1>1, <1>2 DEF Catalog

LEMMA SetWriterKeeps ==
  ASSUME TypeOK, Versioned, Kept, NEW h \in Handles, NEW g \in Handles, SetWriterTable(h, g)
  PROVE  Kept' /\ res'.op # "read"
<1> DEFINE open == OpenTable("writer", h)
           import == ImportOf(tabs[g])
           best == BestMatch(TablesOf(cat), import.name, import.version)
           from == IF best = Free THEN Substitute(import) ELSE best
           u == AddImport(open, import, TablesOf(cat), h).t
<1>1. tabs' = [tabs EXCEPT ![h] = u] /\ UNCHANGED doc /\ res'.op # "read"
  BY DEF SetWriterTable, Update, Call, Result
<1>2. /\ h \notin Shared(tabs) /\ h # System /\ import \in Imports
  BY FreshIs, LiveIs, ImportOfIs DEF SetWriterTable
<1>3. /\ Listed(open) /\ Dense(open) /\ ~open.locked /\ open.name = None /\ open.owner = "writer"
      /\ Len(open.symbols) = Len(SystemNames) /\ open.maxId = Len(SystemNames)
      /\ ValuesOf(open) = SystemNames
      /\ \A i \in 1..Len(open.symbols) : open.symbols[i].home = System
  BY OpenTableListed DEF Owners
<1>4. u = Incorporate(open, from, h).t
  BY DEF AddImport
<1> HIDE DEF open
<1>5. Source(from) /\ Foreign(tabs, from)
  <2>1. CASE best = Free
    <3>1. /\ Source(Substitute(import))
          /\ \A i \in 1..Len(Substitute(import).symbols) :
               Substitute(import).symbols[i].home = System
      BY <1>2, SubstituteSource
    <3> QED BY <2>1, <3>1 DEF Foreign
  <2>2. CASE best # Free
    <3>1. Source(best) /\ Foreign(tabs, best)
      BY <2>2, CatalogIs, FoundIs DEF Kept
    <3> HIDE DEF best
    <3> QED BY <2>2, <3>1
  <2> QED BY <2>1, <2>2
<1> HIDE DEF from
<1>6. Takes(tabs, u, open)
  BY <1>3, <1>4, <1>5, IncorporateTakes
<1> HIDE DEF u
<1>7. /\ Listed(u) /\ u.name = None /\ u.owner = "writer" /\ u \in Tables /\ open \in Tables
      /\ Len(u.symbols) >= Len(open.symbols)
      /\ \A i \in 1..Len(open.symbols) : u.symbols[i] = open.symbols[i]
      /\ u.maxId = Larger(open.maxId, Len(u.symbols))
  BY <1>3, <1>6 DEF Takes, Grown, Listed, Source
<1>8. Len(u.symbols) \in Nat /\ Len(SystemNames) \in Nat
  BY <1>7, CountsAre, SystemNamesAre
<1>9. Dense(u)
  <2>1. u.maxId = Len(u.symbols)
    BY <1>3, <1>7, <1>8 DEF Larger
  <2> QED BY <1>7, <2>1, DenseIs
<1>10. Homed(tabs, h, u)
  <2> SUFFICES ASSUME NEW i \in 1..Len(u.symbols)
               PROVE  u.symbols[i].home \in {System} \cup Shared(tabs)
    BY DEF Homed
  <2>1. CASE i > Len(open.symbols)
    BY <1>6, <2>1 DEF Takes
  <2>2. CASE ~(i > Len(open.symbols))
    <3>1. i \in 1..Len(open.symbols)
      BY <1>3, <1>8, <2>2
    <3> QED BY <1>3, <1>7, <3>1
  <2> QED BY <2>1, <2>2
<1>11. HasSystem(u)
  <2>1. \A i \in 1..Len(SystemNames) : u.symbols[i].value = ValuesOf(open)[i]
    BY <1>3, <1>7, ValuesAre
  <2> QED BY <1>3, <1>7, <2>1 DEF HasSystem
<1>12. Fit(tabs, h, u) /\ IsLocal(u)
  BY <1>7, <1>9, <1>10, <1>11 DEF Fit, IsLocal
<1>13. Replaces(h, u)
  BY <1>2, <1>12 DEF Replaces
<1> QED BY <1>1, <1>13, KeptByUpdate

LEMMA CloneFits ==
  ASSUME TypeOK, Kept, NEW h \in Live, NEW g \in Handles, Fresh(g), NEW owner \in Owners,
         owner = tabs[h].owner \/ ~IsLocal(tabs[h])
  PROVE  Replaces(g, CloneTable(tabs[h], owner, h, g))
<1> DEFINE t == tabs[h]
           u == CloneTable(t, owner, h, g)
<1>1. /\ Fit(tabs, h, t) /\ Listed(t) /\ Dense(t) /\ Homed(tabs, h, t) /\ t \in Tables
      /\ h # System /\ h \in Shared(tabs) <=> ~IsLocal(t)
  BY LiveFits
<1>2. g \notin Shared(tabs) /\ g # System /\ g \in Int
  BY FreshIs
<1>3. Listed(u) /\ Dense(u) /\ ValuesOf(u) = ValuesOf(t)
  BY <1>1, <1>2, CloneTableListed
<1>4. /\ u.name = t.name /\ u.version = (IF IsLocal(t) THEN 0 ELSE t.version)
      /\ u.imports = t.imports /\ u.owner = owner
      /\ Len(u.symbols) = Len(t.symbols)
      /\ \A i \in 1..Len(t.symbols) :
           /\ u.symbols[i].value = t.symbols[i].value
           /\ u.symbols[i].home = IF t.symbols[i].home = h THEN g ELSE t.symbols[i].home
  BY <1>1, <1>2, CloneTableIs
<1> HIDE DEF u
<1>5. Homed(tabs, g, u)
  BY <1>1, <1>4 DEF Homed
<1>6. IsLocal(u) <=> IsLocal(t)
  BY <1>4 DEF IsLocal
<1>7. IsLocal(u) \/ u.name = "$ion" => HasSystem(u)
  <2> SUFFICES ASSUME HasSystem(t)
               PROVE  HasSystem(u)
    BY <1>1, <1>4, <1>6 DEF Fit
  <2>1. Len(SystemNames) \in Nat /\ Len(t.symbols) \in Nat /\ Len(SystemNames) <= Len(t.symbols)
    BY <1>1, SystemNamesAre, CountsAre DEF HasSystem
  <2>2. \A i \in 1..Len(SystemNames) : i \in 1..Len(t.symbols)
    BY <2>1
  <2> QED BY <1>4, <2>2 DEF HasSystem
<1>8. IsLocal(u) /\ u.owner # "writer" => Origin(tabs, g, u)
  <2> SUFFICES ASSUME IsLocal(t), t.owner # "writer"
               PROVE  Origin(tabs, g, u)
    BY <1>4, <1>6
  <2>1. PICK n \in 0..Len(t.symbols) :
          /\ Given(tabs, t.imports, First(t, n))
          /\ \A i \in 1..Len(t.symbols) : t.symbols[i].home = h <=> i > n
    BY <1>1 DEF Fit, Origin
  <2>2. Len(t.symbols) \in Nat
    BY <1>1, CountsAre
  <2>3. First(u, n) = First(t, n)
    <3>1. \A i \in 1..n : i \in 1..Len(t.symbols)
      BY <2>2
    <3> QED BY <1>4, <3>1 DEF First
  <2>4. ASSUME NEW i \in 1..Len(u.symbols)
        PROVE  u.symbols[i].home = g <=> i > n
    <3>1. i \in 1..Len(t.symbols)
      BY <1>4
    <3>2. CASE t.symbols[i].home = h
      BY <1>4, <2>1, <3>1, <3>2
    <3>3. CASE t.symbols[i].home # h
      <4>1. t.symbols[i].home \in {System} \cup Shared(tabs)
        BY <1>1, <3>1, <3>3 DEF Homed
      <4> QED BY <1>2, <1>4, <2>1, <3>1, <3>3, <4>1
    <3> QED BY <3>2, <3>3
  <2> QED BY <1>4, <2>1, <2>3, <2>4 DEF Origin
<1>9. Fit(tabs, g, u)
  BY <1>3, <1>5, <1>7, <1>8 DEF Fit
<1>10. ASSUME ~IsLocal(u), NEW f \in Shared(tabs),
              tabs[f].name = u.name, tabs[f].version = u.version
       PROVE  ValuesOf(tabs[f]) = ValuesOf(u)
  <2>1. h \in Shared(tabs) /\ tabs[f].name = t.name /\ tabs[f].version = t.version
    BY <1>1, <1>4, <1>6, <1>10
  <2> QED BY <1>3, <2>1 DEF Kept, Healthy, OneEach
<1>11. Replaces(g, u)
  BY <1>2, <1>9, <1>10 DEF Replaces
<1> QED BY <1>11 DEF u

LEMMA CloneKeeps ==
  ASSUME TypeOK, Kept, NEW h \in Handles, NEW g \in Handles, Clone(h, g)
  PROVE  Kept' /\ res'.op # "read"
<1> DEFINE u == CloneTable(tabs[h], tabs[h].owner, h, g)
<1>1. tabs' = [tabs EXCEPT ![g] = u] /\ UNCHANGED doc /\ res'.op # "read"
  BY DEF Clone, Update, Ok, Call, Result
<1>2. h \in Live /\ Fresh(g) /\ tabs[h].owner \in Owners
  BY LiveIs DEF Clone, Tables
<1>3. Replaces(g, u)
  BY <1>2, CloneFits
<1> HIDE DEF u
<1> QED BY <1>1, <1>3, KeptByUpdate

LEMMA AddTableKeeps ==
  ASSUME TypeOK, Kept, NEW h \in Handles, NEW g \in Handles, AddTable(h, g)
  PROVE  Kept' /\ res'.op # "read"
<1> DEFINE u == CloneTable(tabs[h], "catalog", h, g)
<1>1. h \in Live /\ ~IsLocal(tabs[h]) /\ UNCHANGED doc /\ res'.op # "read"
  BY DEF AddTable, Call, Result
<1>2. CASE UNCHANGED tabs
  BY <1>1, <1>2, KeptByRest DEF Kept
<1>3. CASE Fresh(g) /\ tabs' = [tabs EXCEPT ![g] = u]
  <2>1. Replaces(g, u)
    BY <1>1, <1>3, CloneFits DEF Owners
  <2> HIDE DEF u
  <2> QED BY <1>1, <1>3, <2>1, KeptByUpdate
<1> QED BY <1>1, <1>2, <1>3 DEF AddTable

LEMMA WriteKeeps ==
  ASSUME Careless = {}, TypeOK, Kept, NEW h \in Handles, Write(h)
  PROVE  Kept' /\ res'.op # "read"
<1>1. /\ h \in Live /\ IsLocal(tabs[h]) /\ tabs[h].owner # "writer" /\ UNCHANGED tabs
      /\ doc' \in {Serialized(tabs[h], h), Unloaded(tabs[h], h)} /\ res'.op # "read"
  BY DEF Write, Call, Result
<1>2. Fit(tabs, h, tabs[h])
  BY <1>1, LiveFits
<1>3. Remembers(tabs, doc')
  BY <1>1, <1>2, WritesRemember
<1> QED BY <1>1, <1>3, KeptByRest

LEMMA BestKeeps ==
  ASSUME Kept, NEW name, NEW version, FindBestMatch(name, version)
  PROVE  Kept' /\ res'.op # "read"
<1>1. UNCHANGED <<tabs, doc>> /\ res'.op # "read"
  BY DEF FindBestMatch, Call
<1> QED BY <1>1, KeptByRest DEF Kept

(* Every id of the document that is read has its name again. *)
LEMMA ReadKeeps ==
  ASSUME Careless = {}, TypeOK, Versioned, Kept, NEW h \in Handles, Read(h) \/ Load(h)
  PROVE  Kept' /\ ReadBack'
<1> DEFINE tables == TablesOf(cat)
<1>1. /\ Document(doc) /\ Catalog(tabs, tables) /\ h \notin Shared(tabs)
      /\ Healthy(tabs) /\ Remembers(tabs, doc)
  BY CatalogIs, FreshIs DEF TypeOK, Kept, Read, Load
<1>2. Resolves(tables, doc.imports)
  <2>1. Resolvable(doc)
    BY DEF Read, Load
  <2>2. DOMAIN doc.imports = 1..Len(doc.imports)
    BY <1>1 DEF Document
  <2>3. \A k \in 1..Len(doc.imports) : doc.imports[k] \in ToSet(doc.imports)
    BY <2>2 DEF ToSet
  <2> QED BY <2>1, <2>3 DEF Resolvable, Resolves
<1> HIDE DEF tables
<1>3. PICK r : /\ Update("read", h, r) /\ r.err = "ok" /\ Fit(tabs, h, r.t)
               /\ ValuesOf(r.t) = doc.ids /\ IsLocal(r.t)
  <2>1. CASE Read(h)
    <3>1. doc # NoDoc
      BY <2>1 DEF Read, NoDoc
    <3>2. Update("read", h, ReadTable(doc, tables, h))
      BY <2>1 DEF Read, tables
    <3>3. /\ ReadTable(doc, tables, h).err = "ok" /\ Fit(tabs, h, ReadTable(doc, tables, h).t)
          /\ ValuesOf(ReadTable(doc, tables, h).t) = doc.ids
          /\ IsLocal(ReadTable(doc, tables, h).t)
      BY <1>1, <1>2, <3>1, ReadTableListed
    <3> QED BY <3>2, <3>3
  <2>2. CASE Load(h)
    <3>1. doc # NoDoc /\ (doc.imports = <<>> \/ doc.locals = <<>>)
      BY <2>2 DEF Load
    <3>2. Update("read", h, LoadTable(doc, tables, h))
      BY <2>2 DEF Load, tables
    <3>3. /\ LoadTable(doc, tables, h).err = "ok" /\ Fit(tabs, h, LoadTable(doc, tables, h).t)
          /\ ValuesOf(LoadTable(doc, tables, h).t) = doc.ids
          /\ IsLocal(LoadTable(doc, tables, h).t)
      BY <1>1, <1>2, <3>1, LoadTableListed
    <3> QED BY <3>2, <3>3
  <2> QED BY <2>1, <2>2
<1>4. /\ tabs' = [tabs EXCEPT ![h] = r.t] /\ doc' = doc
      /\ res' = [op |-> "read", h |-> h, err |-> "ok"]
  BY <1>3 DEF Update, Call, Result
<1>5. Replaces(h, r.t)
  BY <1>1, <1>3 DEF Replaces
<1>6. Kept'
  BY <1>4, <1>5, KeptByUpdate
<1>7. tabs'[h] = r.t
  BY <1>4 DEF TypeOK
<1>8. IdsOf(r.t) = doc.ids
  BY <1>3, IdsOfIs DEF Fit
<1> QED BY <1>4, <1>6, <1>7, <1>8 DEF ReadBack

-----------------------------------------------------------------------------
(* A program that starts with prepared tables. *)

LEMMA PreparedFits ==
  ASSUME NEW T, NEW h \in Handles, NEW t, Begins(t), ~IsLocal(t), t.name # SystemTable.name,
         \A i \in DOMAIN t.symbols : t.symbols[i].home \in {System, h}
  PROVE  Fit(T, h, t)
<1>1. /\ t \in Tables /\ Dense(t) /\ Indexed(t)
      /\ \A i \in DOMAIN t.symbols : t.symbols[i].value \notin BadNames \cup DOMAIN Numerals
  BY DEF Begins
<1>2. DOMAIN t.symbols = 1..Len(t.symbols) /\ Len(t.symbols) \in Nat
  BY <1>1 DEF Tables
<1>3. Numbered(t)
  BY <1>1, <1>2 DEF Numbered, Dense, Proper
<1>4. Source(t)
  BY <1>1, <1>3 DEF Source, Dense
<1>5. t.maxId >= Len(t.symbols)
  BY <1>1, <1>2 DEF Dense
<1>6. Listed(t)
  BY <1>1, <1>4, <1>5 DEF Listed
<1>7. Homed(T, h, t)
  BY <1>2 DEF Homed
<1>8. t.name # "$ion"
  BY SystemTableIs
<1> QED BY <1>1, <1>6, <1>7, <1>8 DEF Fit

LEMMA InitKept == Init => Kept /\ ReadBack
<1> SUFFICES ASSUME Init
             PROVE  Kept /\ ReadBack
  OBVIOUS
<1>1. PICK p \in Prepared :
        tabs = [h \in Handles |-> IF h \in DOMAIN p.tables THEN p.tables[h] ELSE Free]
  BY DEF Init
<1> DEFINE P == p.tables
<1>2. /\ DOMAIN P \subseteq Handles
      /\ \A h \in DOMAIN P :
           IF IsLocal(P[h]) THEN P[h] = OpenTable("caller", h)
           ELSE /\ Begins(P[h]) /\ P[h].name # SystemTable.name
                /\ \A i \in DOMAIN P[h].symbols : P[h].symbols[i].home \in {System, h}
                /\ \A g \in DOMAIN P :
                     P[g].name = P[h].name /\ P[g].version = P[h].version => g = h
  BY PreparedAssumption, Zenon
<1>3. \A h \in Handles : tabs[h] = IF h \in DOMAIN P THEN P[h] ELSE Free
  BY <1>1
<1> HIDE DEF P
<1>4. ASSUME NEW h \in Handles, tabs[h] # Free
      PROVE  Fit(tabs, h, tabs[h])
  <2>1. h \in DOMAIN P /\ tabs[h] = P[h]
    BY <1>3, <1>4
  <2>2. CASE IsLocal(P[h])
    <3>1. P[h] = OpenTable("caller", h)
      BY <1>2, <2>1, <2>2
    <3> QED BY <2>1, <3>1, OpenedFits DEF Owners
  <2>3. CASE ~IsLocal(P[h])
    BY <1>2, <2>1, <2>3, PreparedFits
  <2> QED BY <2>2, <2>3
<1>5. OneEach(tabs)
  <2> SUFFICES ASSUME NEW g \in Shared(tabs), NEW h \in Shared(tabs),
                      tabs[g].name = tabs[h].name, tabs[g].version = tabs[h].version
               PROVE  ValuesOf(tabs[g]) = ValuesOf(tabs[h])
    BY DEF OneEach
  <2>1. /\ g \in DOMAIN P /\ h \in DOMAIN P /\ tabs[g] = P[g] /\ tabs[h] = P[h]
        /\ ~IsLocal(P[h])
    BY <1>3 DEF Shared
  <2>2. g = h
    BY <1>2, <2>1
  <2> QED BY <2>2
<1>6. doc = NoDoc /\ res.op # "read"
  BY DEF Init, Result
<1> QED BY <1>4, <1>5, <1>6 DEF Kept, Healthy, Remembers, ReadBack

-----------------------------------------------------------------------------
(* The theorems about all programs, careful or not. *)

LEMMA InitTypes == Init => TypeOK /\ Versioned /\ NewestFound
<1> SUFFICES ASSUME Init
             PROVE  TypeOK /\ Versioned /\ NewestFound
  OBVIOUS
<1>1. PICK p \in Prepared :
        /\ tabs = [h \in Handles |-> IF h \in DOMAIN p.tables THEN p.tables[h] ELSE Free]
        /\ cat = p.cat
  BY DEF Init
<1>2. /\ DOMAIN p.tables \subseteq Handles /\ p.cat \in Seq(DOMAIN p.tables)
      /\ \A i \in DOMAIN p.cat : ~IsLocal(p.tables[p.cat[i]])
      /\ \A h \in DOMAIN p.tables :
           IF IsLocal(p.tables[h]) THEN p.tables[h] = OpenTable("caller", h)
           ELSE Begins(p.tables[h])
  BY PreparedAssumption, Zenon
<1>3. ASSUME NEW h \in DOMAIN p.tables
      PROVE  /\ p.tables[h] \in Tables /\ (~IsLocal(p.tables[h]) => p.tables[h].version > 0)
             /\ tabs[h] = p.tables[h] /\ p.tables[h] # Free
  <2>1. OpenTable("caller", h) \in Tables
    BY OpenTableIs DEF Owners
  <2>2. tabs[h] = p.tables[h]
    BY <1>1, <1>2
  <2>3. p.tables[h] \in Tables /\ (~IsLocal(p.tables[h]) => p.tables[h].version > 0)
    BY <1>2, <2>1 DEF Begins
  <2> QED BY <2>2, <2>3, CatalogAssumption
<1>4. tabs \in [Handles -> Tables \cup {Free}]
  BY <1>1, <1>3
<1>5. /\ Len(cat) \in Nat /\ DOMAIN cat = 1..Len(cat)
      /\ \A i \in 1..Len(cat) : cat[i] \in DOMAIN p.tables
  BY <1>1, <1>2
<1>6. cat \in Seq(Handles)
  BY <1>1, <1>2
<1>7. \A i \in 1..Len(cat) : tabs[cat[i]] # Free /\ ~IsLocal(tabs[cat[i]])
  BY <1>1, <1>2, <1>3, <1>5
<1>8. Document(doc)
  <2>1. doc = NoDoc
    BY DEF Init
  <2>2. <<>> \in Seq(Imports) /\ <<>> \in Seq(Symbols)
    OBVIOUS
  <2> QED BY <2>1, <2>2 DEF NoDoc, Document
<1>9. \A h \in Live : h \in DOMAIN p.tables
  BY <1>1 DEF Live
<1>10. Versioned
  BY <1>3, <1>7, <1>9 DEF Versioned
<1>11. NewestFound
  BY DEF Init, NewestFound, Result
<1> QED BY <1>4, <1>6, <1>7, <1>8, <1>10, <1>11 DEF TypeOK

LEMMA NextStep ==
  ASSUME TypeOK, Versioned, Next
  PROVE  TypeOK' /\ Versioned' /\ Stable /\ NewestFound'
<1>1. ASSUME NEW name \in TableNames, NEW version \in Versions \cup {0},
             FindBestMatch(name, version)
      PROVE  TypeOK' /\ Versioned' /\ Stable /\ NewestFound'
  BY <1>1, BestStep, BestStepNewest
<1>2. CASE ~\E name \in TableNames, version \in Versions \cup {0} : FindBestMatch(name, version)
  <2>1. TypeOK' /\ Versioned' /\ Stable /\ res'.op # "best"
    <3>1. \/ \E h \in Handles : Open(h)
          \/ \E h \in Handles, name \in Names : Add(h, name)
          \/ \E h \in Handles, version \in Versions : SetVersion(h, version)
          \/ \E h \in Handles, name \in TableNames : SetName(h, name)
          \/ \E h \in Handles, maxId \in MaxIds : SetMaxSid(h, maxId)
          \/ \E h \in Handles : Lock(h)
          \/ \E h \in Handles : Find(h)
          \/ \E h, g \in Handles : Import(h, g)
          \/ \E h, g \in Handles : SetWriterTable(h, g)
          \/ \E h, g \in Handles : Clone(h, g)
          \/ \E h, g \in Handles : AddTable(h, g)
          \/ \E h \in Handles : Write(h)
          \/ \E h \in Handles : Read(h) \/ Load(h)
      BY <1>2 DEF Next
    <3> QED BY <3>1, OpenStep, AddStep, SetVersionStep, SetNameStep, SetMaxSidStep, LockStep,
               FindStep, ImportStep, SetWriterStep, CloneStep, AddTableStep, WriteStep, ReadStep
  <2> QED BY <2>1 DEF NewestFound
<1> QED BY <1>1, <1>2

LEMMA StutterStep ==
  ASSUME TypeOK, Versioned, UNCHANGED vars
  PROVE  TypeOK' /\ Versioned' /\ (NewestFound => NewestFound')
<1>1. UNCHANGED <<tabs, cat, doc, res>>
  BY DEF vars
<1> QED BY <1>1, UnchangedIs DEF TypeOK, NewestFound

(* Every table, the catalog and the last document have their types, and    *)
(* every shared table a version, whatever the program does: a name is only *)
(* given to a table that has a version.                                    *)
THEOREM Types == Spec => [](TypeOK /\ Versioned)
<1>1. TypeOK /\ Versioned /\ [Next]_vars => TypeOK' /\ Versioned'
  BY NextStep, StutterStep
<1> QED BY <1>1, InitTypes, PTL DEF Spec

(* A symbol keeps its name, id and place, and a locked table its symbols:  *)
(* every call only appends to the list of symbols it is given, and those   *)
(* that append look at the lock first.                                     *)
THEOREM SidsAreStable == Spec => SidsStable
<1>1. TypeOK /\ Versioned /\ [Next]_vars => TypeOK' /\ Versioned'
  BY NextStep, StutterStep
<1>2. TypeOK /\ Versioned /\ [Next]_vars =>
       [\A h \in Live :
          /\ tabs'[h] # Free
          /\ IsPrefix(tabs[h].symbols, tabs'[h].symbols)
          /\ tabs[h].locked => /\ tabs'[h].locked
                               /\ tabs'[h].symbols = tabs[h].symbols
                               /\ ImportOf(tabs'[h]) = ImportOf(tabs[h])]_vars
  BY NextStep DEF Stable
<1> QED BY <1>1, <1>2, InitTypes, PTL DEF Spec, SidsStable

(* find_best_match for version 0 returns the newest table of the name,     *)
(* wherever it is in the catalog: the loop keeps the newest so far, which  *)
(* is never of version 0 and so does not end it.                           *)
THEOREM NewestIsFound == Spec => []NewestFound
<1>1. TypeOK /\ Versioned /\ NewestFound /\ [Next]_vars
        => TypeOK' /\ Versioned' /\ NewestFound'
  BY NextStep, StutterStep
<1> QED BY <1>1, InitTypes, PTL DEF Spec

-----------------------------------------------------------------------------
(* The theorems about careful programs. *)

LEMMA CarefulStep ==
  ASSUME Careless = {}, TypeOK, Versioned, Kept, Next
  PROVE  Kept' /\ ReadBack'
<1>1. ASSUME NEW h \in Handles, Read(h) \/ Load(h)
      PROVE  Kept' /\ ReadBack'
  BY <1>1, ReadKeeps
<1>2. CASE ~\E h \in Handles : Read(h) \/ Load(h)
  <2>1. Kept' /\ res'.op # "read"
    <3>1. \/ \E h \in Handles : Open(h)
          \/ \E h \in Handles, name \in Names : Add(h, name)
          \/ \E h \in Handles, version \in Versions : SetVersion(h, version)
          \/ \E h \in Handles, name \in TableNames : SetName(h, name)
          \/ \E h \in Handles, maxId \in MaxIds : SetMaxSid(h, maxId)
          \/ \E h \in Handles : Lock(h)
          \/ \E h \in Handles : Find(h)
          \/ \E h, g \in Handles : Import(h, g)
          \/ \E h, g \in Handles : SetWriterTable(h, g)
          \/ \E h, g \in Handles : Clone(h, g)
          \/ \E h, g \in Handles : AddTable(h, g)
          \/ \E name \in TableNames, version \in Versions \cup {0} : FindBestMatch(name, version)
          \/ \E h \in Handles : Write(h)
      BY <1>2 DEF Next
    <3> QED BY <3>1, OpenKeeps, AddKeeps, SetVersionKeeps, SetNameKeeps, SetMaxSidKeeps,
               LockKeeps, FindKeeps, ImportKeeps, SetWriterKeeps, CloneKeeps, AddTableKeeps,
               BestKeeps, WriteKeeps
  <2> QED BY <2>1 DEF ReadBack
<1> QED BY <1>1, <1>2

LEMMA CarefulStutter ==
  ASSUME Kept, ReadBack, UNCHANGED vars
  PROVE  Kept' /\ ReadBack'
<1>1. UNCHANGED <<tabs, doc, res>>
  BY DEF vars
<1>2. Kept'
  BY <1>1, KeptByRest DEF Kept
<1> QED BY <1>1, <1>2 DEF ReadBack

(* What every careful program keeps true. *)
LEMMA CarefulKept ==
  ASSUME Careless = {}
  PROVE  Spec => [](TypeOK /\ Kept /\ ReadBack)
<1>1. Init => TypeOK /\ Versioned /\ Kept /\ ReadBack
  BY InitTypes, InitKept
<1>2. TypeOK /\ Versioned /\ Kept /\ ReadBack /\ [Next]_vars
        => TypeOK' /\ Versioned' /\ Kept' /\ ReadBack'
  BY NextStep, StutterStep, CarefulStep, CarefulStutter
<1> QED BY <1>1, <1>2, PTL DEF Spec

(* The ids of every table are 1, 2, ..., one per name, as long as nobody   *)
(* changes a shared table, sets max_id or adds a name that is not UTF-8:   *)
(* what the duplicates of an import take off its ids is what they do not   *)
(* add to the list.                                                        *)
THEOREM SidsAreDense ==
  ASSUME Careless = {}
  PROVE  Spec => []SidsDense
<1>1. TypeOK /\ Kept => SidsDense
  BY HealthyTables DEF Kept
<1> QED BY <1>1, CarefulKept, PTL

(* An active index of such a program answers as the list of symbols does:  *)
(* it is built of the whole list and gets each symbol that the list gets.  *)
THEOREM IndexIsRight ==
  ASSUME Careless = {}
  PROVE  Spec => []IndexAgrees
<1>1. TypeOK /\ Kept => IndexAgrees
  BY HealthyTables DEF Kept
<1> QED BY <1>1, CarefulKept, PTL

(* A table read from a document with a catalog that has its imports gives  *)
(* every id the name it had for the writer, both ways to write it and both *)
(* ways to read it: the imports bring the same names in the same order,    *)
(* whatever tables were made and changed in between.                       *)
THEOREM ReadsBack ==
  ASSUME Careless = {}
  PROVE  Spec => []ReadBack
BY CarefulKept, PTL
=============================================================================
