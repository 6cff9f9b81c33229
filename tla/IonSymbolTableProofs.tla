------------------------ MODULE IonSymbolTableProofs ------------------------
(***************************************************************************)
(* Lemmas about the operations of IonSymbolTable, in two parts: what they  *)
(* do to any table, and what they do to one whose ids are 1..n.            *)
(***************************************************************************)
EXTENDS IonSymbolTable, FiniteSetTheorems, NaturalsInduction, WellFoundedInduction, TLAPS

LEMMA LeastNumber ==
  ASSUME NEW S \in SUBSET Nat, S # {}
  PROVE  \E i \in S : \A j \in S : i <= j
<1>1. PICK i \in S : \A j \in S : <<j, i>> \notin OpToRel(<, Nat)
  BY NatLessThanWellFounded, WFMin
<1>2. \A j \in S : ~(j < i)
  BY <1>1 DEF OpToRel
<1> QED BY <1>2

LEMMA GreatestNumber ==
  ASSUME NEW n \in Nat, NEW S \in SUBSET (0..n), S # {}
  PROVE  \E i \in S : \A j \in S : i >= j
<1> DEFINE D == { n - i : i \in S }
<1>1. D \in SUBSET Nat /\ D # {}
  <2>1. \A i \in S : n - i \in Nat
    OBVIOUS
  <2>2. PICK i \in S : TRUE
    OBVIOUS
  <2>3. n - i \in D
    BY <2>2
  <2> QED BY <2>1, <2>3
<1>2. PICK d \in D : \A e \in D : d <= e
  BY <1>1, LeastNumber
<1>3. PICK i \in S : d = n - i
  BY <1>2
<1>4. \A j \in S : n - j \in D
  OBVIOUS
<1>5. \A j \in S : n - i <= n - j
  BY <1>2, <1>3, <1>4
<1> QED BY <1>5

LEMMA MinIs ==
  ASSUME NEW S \in SUBSET Nat, S # {}
  PROVE  Min(S) \in S /\ \A j \in S : Min(S) <= j
BY LeastNumber DEF Min

LEMMA MaxIs ==
  ASSUME NEW n \in Nat, NEW S \in SUBSET (0..n), S # {}
  PROVE  Max(S) \in S /\ \A j \in S : Max(S) >= j
BY GreatestNumber DEF Max

LEMMA SequenceOf ==
  ASSUME NEW S, NEW n \in Nat, NEW f, f = [i \in 1..n |-> f[i]],
         \A i \in 1..n : f[i] \in S
  PROVE  f \in Seq(S) /\ Len(f) = n
OBVIOUS

LEMMA EmptyIs ==
  ASSUME NEW S, NEW s \in Seq(S), DOMAIN s = {}
  PROVE  s = <<>>
<1>1. Len(s) = 0
  OBVIOUS
<1> QED BY <1>1

LEMMA SequenceExcept ==
  ASSUME NEW S, NEW s \in Seq(S), NEW i, NEW x \in S
  PROVE  [s EXCEPT ![i] = x] \in Seq(S) /\ Len([s EXCEPT ![i] = x]) = Len(s)
<1> DEFINE f == [s EXCEPT ![i] = x]
<1>1. DOMAIN f = 1..Len(s) /\ Len(s) \in Nat
  OBVIOUS
<1>2. \A j \in 1..Len(s) : f[j] \in S
  OBVIOUS
<1>3. f = [j \in 1..Len(s) |-> f[j]]
  OBVIOUS
<1> HIDE DEF f
<1>4. f \in Seq(S) /\ Len(f) = Len(s)
  BY <1>1, <1>2, <1>3, SequenceOf
<1> QED BY <1>4 DEF f

LEMMA SequenceIs ==
  ASSUME NEW S, NEW s \in Seq(S)
  PROVE  s = [i \in 1..Len(s) |-> s[i]]
OBVIOUS

LEMMA AppendIs ==
  ASSUME NEW S, NEW s \in Seq(S), NEW x \in S
  PROVE  Append(s, x) = [i \in 1..(Len(s) + 1) |-> IF i <= Len(s) THEN s[i] ELSE x]
<1> DEFINE a == Append(s, x)
<1>1. a \in Seq(S) /\ Len(a) = Len(s) + 1
  OBVIOUS
<1>2. \A i \in 1..(Len(s) + 1) : a[i] = IF i <= Len(s) THEN s[i] ELSE x
  OBVIOUS
<1> HIDE DEF a
<1>3. a = [i \in 1..(Len(s) + 1) |-> a[i]]
  BY <1>1
<1> QED BY <1>2, <1>3 DEF a

(* Induction up to k. *)
LEMMA UpTo ==
  ASSUME NEW k \in Nat, NEW P \in SUBSET (0..k), 0 \in P,
         \A n \in 1..k : n - 1 \in P => n \in P
  PROVE  P = 0..k
<1> DEFINE S == (0..k) \ P
<1>1. SUFFICES ASSUME S # {}
               PROVE  FALSE
  OBVIOUS
<1>2. S \in SUBSET Nat
  OBVIOUS
<1>3. PICK m \in S : \A j \in S : m <= j
  <2> HIDE DEF S
  <2> QED BY <1>1, <1>2, LeastNumber
<1>4. m \in 1..k /\ m - 1 \in 0..k /\ m - 1 \notin S
  BY <1>3
<1> QED BY <1>3, <1>4

(* F makes of each value in S, and each n up to k, the next value. *)
Steps(F, S, k) == F \in [S \X (1..k) -> S]

Iterates(f, S, k, init, F) ==
  /\ f \in [0..k -> S] /\ f[0] = init
  /\ \A n \in 1..k : f[n] = F[<<f[n - 1], n>>]

LEMMA RecursionExists ==
  ASSUME NEW S, NEW k \in Nat, NEW init \in S, NEW F, Steps(F, S, k)
  PROVE  \E f : Iterates(f, S, k, init, F)
<1> DEFINE Is(f, m) == f[0] = init /\ \A n \in 1..m : f[n] = F[<<f[n - 1], n>>]
           P == { m \in 0..k : \E f \in [0..m -> S] : Is(f, m) }
<1>0. F \in [S \X (1..k) -> S]
  BY DEF Steps
<1>1. 0 \in P
  <2> DEFINE f == [n \in 0..0 |-> init]
  <2>1. f \in [0..0 -> S] /\ Is(f, 0)
    OBVIOUS
  <2> HIDE DEF f, Is
  <2>2. \E h \in [0..0 -> S] : Is(h, 0)
    BY <2>1
  <2> QED BY <2>2
<1>2. ASSUME NEW m \in 1..k, m - 1 \in P
      PROVE  m \in P
  <2>1. PICK f \in [0..(m - 1) -> S] : Is(f, m - 1)
    BY <1>2
  <2> DEFINE g == [n \in 0..m |-> IF n = m THEN F[<<f[m - 1], m>>] ELSE f[n]]
  <2>2. F[<<f[m - 1], m>>] \in S
    <3>1. f[m - 1] \in S
      OBVIOUS
    <3> QED BY <1>0, <3>1
  <2>3. \A n \in 0..m : g[n] \in S
    <3>1. \A n \in 0..m : n = m \/ n \in 0..(m - 1)
      OBVIOUS
    <3> QED BY <2>2, <3>1
  <2>4. g \in [0..m -> S]
    <3>1. g = [n \in 0..m |-> g[n]]
      OBVIOUS
    <3> HIDE DEF g
    <3> QED BY <2>3, <3>1
  <2>5. \A n \in 0..(m - 1) : g[n] = f[n]
    OBVIOUS
  <2>6. g[0] = init
    BY <2>1, <2>5
  <2>7. ASSUME NEW n \in 1..m
        PROVE  g[n] = F[<<g[n - 1], n>>]
    <3>1. CASE n = m
      <4>1. g[n] = F[<<f[m - 1], m>>] /\ g[n - 1] = f[m - 1]
        BY <2>5, <3>1
      <4> QED BY <3>1, <4>1
    <3>2. CASE n # m
      <4>1. n \in 1..(m - 1) /\ n - 1 \in 0..(m - 1) /\ n \in 0..(m - 1)
        BY <3>2
      <4>2. g[n] = f[n] /\ g[n - 1] = f[n - 1]
        BY <2>5, <4>1
      <4> QED BY <2>1, <4>1, <4>2
    <3> QED BY <3>1, <3>2
  <2> HIDE DEF g
  <2>8. Is(g, m)
    BY <2>6, <2>7
  <2> QED BY <2>4, <2>8
<1> HIDE DEF Is
<1>3. P = 0..k
  <2>1. P \in SUBSET (0..k)
    OBVIOUS
  <2> HIDE DEF P
  <2> QED BY <1>1, <1>2, <2>1, UpTo
<1>4. k \in P
  BY <1>3
<1> QED BY <1>4 DEF Is, Iterates

-----------------------------------------------------------------------------
(* Any table. *)

(* u is t but for the indices. *)
Same(u, t) ==
  /\ u \in Tables
  /\ u.name = t.name /\ u.version = t.version /\ u.maxId = t.maxId
  /\ u.locked = t.locked /\ u.hasLocal = t.hasLocal /\ u.imports = t.imports
  /\ u.symbols = t.symbols /\ u.owner = t.owner

(* u is t with further symbols. *)
Grown(u, t) ==
  /\ u \in Tables
  /\ u.name = t.name /\ u.version = t.version /\ u.locked = t.locked
  /\ u.imports = t.imports /\ u.owner = t.owner /\ u.maxId >= t.maxId
  /\ Len(u.symbols) >= Len(t.symbols)
  /\ \A i \in 1..Len(t.symbols) : u.symbols[i] = t.symbols[i]

LEMMA SameGrown ==
  ASSUME NEW t \in Tables, NEW u, Same(u, t)
  PROVE  Grown(u, t)
BY DEF Same, Grown, Tables

LEMMA SameReflexive ==
  ASSUME NEW t \in Tables
  PROVE  Same(t, t) /\ Grown(t, t)
BY DEF Same, Grown, Tables

LEMMA GrownTransitive ==
  ASSUME NEW t \in Tables, NEW u, NEW v, Grown(u, t), Grown(v, u)
  PROVE  Grown(v, t)
<1>1. Len(t.symbols) \in Nat /\ Len(u.symbols) \in Nat /\ Len(v.symbols) \in Nat
  BY DEF Grown, Tables
<1>2. t.maxId \in Nat /\ u.maxId \in Nat /\ v.maxId \in Nat
  BY DEF Grown, Tables
<1>3. \A i \in 1..Len(t.symbols) : i \in 1..Len(u.symbols)
  BY <1>1 DEF Grown
<1> QED BY <1>1, <1>2, <1>3 DEF Grown

LEMMA LargerIs ==
  ASSUME NEW a \in Int, NEW b \in Int
  PROVE  /\ Larger(a, b) \in Int /\ Larger(a, b) >= a /\ Larger(a, b) >= b
         /\ Larger(a, b) \in {a, b}
BY DEF Larger

(* The indices. *)

(* The last place up to "to" where test holds, or 0: SelectLastInSubSeq. *)
LEMMA SelectLastIs ==
  ASSUME NEW to \in Nat, NEW I \in SUBSET (1..to)
  PROVE  (IF I # {} THEN Max(I) ELSE 0) \in Nat
<1>1. I \in SUBSET (0..to)
  OBVIOUS
<1>2. I # {} => Max(I) \in I
  BY <1>1, MaxIs
<1>3. \A i \in I : i \in Nat
  OBVIOUS
<1>4. I # {} => Max(I) \in Nat
  BY <1>2, <1>3
<1> QED BY <1>4

LEMMA InitIndicesIs ==
  ASSUME NEW t \in Tables
  PROVE  Same(InitIndices(t).t, t)
<1> DEFINE size == Larger(t.maxId + 1, DefaultSize)
           fresh == Unrepeated(t.symbols)
           to == Lesser(Cardinality(fresh) + 1, Len(t.symbols))
           byId == [sid \in 1..(size - 1) |->
                      SelectLastInSubSeq(t.symbols, 1, to, LAMBDA s : s.sid = sid)]
           u == [t EXCEPT !.byIdMax = size - 1, !.byId = byId, !.byName = fresh]
<1>1. CASE IndexActive(t)
  BY <1>1, SameReflexive DEF InitIndices, Ok
<1>2. CASE ~IndexActive(t)
  <2>1. InitIndices(t).t = u
    BY <1>2 DEF InitIndices, Entered
  <2>2. size - 1 \in Nat
    <3>1. t.maxId + 1 \in Int /\ t.maxId + 1 >= 1
      BY DEF Tables
    <3>2. DefaultSize \in Int
      BY SymbolTableAssumption
    <3>3. size \in Int /\ size >= t.maxId + 1
      BY <3>1, <3>2, LargerIs
    <3> HIDE DEF size
    <3> QED BY <3>1, <3>3
  <2>3. fresh \in SUBSET Nat
    BY DEF Unrepeated, Tables
  <2>4. to \in Nat
    <3>1. IsFiniteSet(fresh)
      <4>1. Len(t.symbols) \in Nat /\ DOMAIN t.symbols = 1..Len(t.symbols)
        BY DEF Tables
      <4>2. IsFiniteSet(1..Len(t.symbols))
        BY <4>1, FS_Interval
      <4>3. fresh \in SUBSET (1..Len(t.symbols))
        BY <4>1 DEF Unrepeated
      <4> QED BY <4>2, <4>3, FS_Subset
    <3>2. Cardinality(fresh) \in Nat
      BY <3>1, FS_CardinalityType
    <3> QED BY <3>2 DEF Lesser, Tables
  <2>5. byId \in Seq(Nat)
    <3>1. ASSUME NEW sid \in 1..(size - 1)
          PROVE  byId[sid] \in Nat
      <4> DEFINE I == { i \in 1..to : t.symbols[i].sid = sid }
      <4>1. byId[sid] = IF I # {} THEN Max(I) ELSE 0
        BY Zenon DEF SelectLastInSubSeq
      <4>2. I \in SUBSET (1..to)
        OBVIOUS
      <4> HIDE DEF I, byId, to
      <4> QED BY <2>4, <4>1, <4>2, SelectLastIs
    <3>2. byId = [sid \in 1..(size - 1) |-> byId[sid]]
      OBVIOUS
    <3> HIDE DEF byId, size
    <3> QED BY <2>2, <3>1, <3>2, SequenceOf
  <2> HIDE DEF size, fresh, byId
  <2>6. u \in Tables /\ Same(u, t)
    BY <2>2, <2>3, <2>5 DEF Tables, Same
  <2> QED BY <2>1, <2>6
<1> QED BY <1>1, <1>2

LEMMA IndexIfLargeIs ==
  ASSUME NEW t \in Tables
  PROVE  Same(IndexIfLarge(t).t, t)
BY InitIndicesIs, SameReflexive DEF IndexIfLarge, Ok

LEMMA SameTransitive ==
  ASSUME NEW t, NEW u, NEW v, Same(u, t), Same(v, u)
  PROVE  Same(v, t)
BY DEF Same

LEMMA GrowByIdIs ==
  ASSUME NEW t \in Tables, NEW size \in Nat \ {0}
  PROVE  Same(GrowById(t, size), t)
<1> DEFINE byId == [sid \in 1..(size - 1) |->
                      IF sid \in DOMAIN t.byId THEN t.byId[sid] ELSE Null]
           u == [t EXCEPT !.byIdMax = size - 1, !.byId = byId]
<1>1. GrowById(t, size) = u
  BY DEF GrowById, Tables
<1>2. byId \in Seq(Nat)
  <2>1. \A sid \in 1..(size - 1) : byId[sid] \in Nat
    BY DEF Tables, Null
  <2>2. byId = [sid \in 1..(size - 1) |-> byId[sid]]
    OBVIOUS
  <2>3. size - 1 \in Nat
    OBVIOUS
  <2> HIDE DEF byId
  <2> QED BY <2>1, <2>2, <2>3, SequenceOf
<1>3. size - 1 \in Nat
  OBVIOUS
<1> HIDE DEF byId
<1>4. u \in Tables /\ Same(u, t)
  BY <1>2, <1>3 DEF Tables, Same
<1> QED BY <1>1, <1>4

LEMMA GrownSizeIs ==
  ASSUME NEW t \in Tables
  PROVE  GrownSize(t) \in Nat \ {0} /\ GrownSize(t) >= 2 * (t.byIdMax + 1)
<1>1. 2 * (t.byIdMax + 1) \in Int /\ 2 * (t.byIdMax + 1) > 0
  BY DEF Tables
<1>2. DefaultSize \in Int
  BY SymbolTableAssumption
<1>3. GrownSize(t) \in Int /\ GrownSize(t) >= 2 * (t.byIdMax + 1)
  BY <1>1, <1>2, LargerIs DEF GrownSize
<1> QED BY <1>1, <1>3

LEMMA EnterLastIs ==
  ASSUME NEW t \in Tables
  PROVE  Same(EnterLast(t).t, t)
<1> DEFINE byId == [t.byId EXCEPT ![Last(t.symbols).sid] = Len(t.symbols)]
           byName == IF \E j \in t.byName : t.symbols[j].value = Last(t.symbols).value
                       THEN t.byName ELSE t.byName \cup {Len(t.symbols)}
           u == [t EXCEPT !.byId = byId, !.byName = byName]
<1>1. EnterLast(t).t = u
  BY DEF EnterLast, Tables
<1>2. byId \in Seq(Nat)
  <2>1. t.byId \in Seq(Nat) /\ Len(t.symbols) \in Nat
    BY DEF Tables
  <2> QED BY <2>1, SequenceExcept
<1>3. byName \in SUBSET Nat
  BY DEF Tables
<1> HIDE DEF byId, byName
<1>4. u \in Tables /\ Same(u, t)
  BY <1>2, <1>3 DEF Tables, Same
<1> QED BY <1>1, <1>4

LEMMA IndexInsertIs ==
  ASSUME NEW t \in Tables
  PROVE  Same(IndexInsert(t).t, t)
<1>1. Same(GrowById(t, GrownSize(t)), t)
  BY GrownSizeIs, GrowByIdIs
<1>2. GrowById(t, GrownSize(t)) \in Tables
  BY <1>1 DEF Same
<1>3. Same(EnterLast(GrowById(t, GrownSize(t))).t, t)
  BY <1>1, <1>2, EnterLastIs, SameTransitive
<1>4. Same(EnterLast(t).t, t)
  BY EnterLastIs
<1> QED BY <1>3, <1>4 DEF IndexInsert

-----------------------------------------------------------------------------
(* Symbols. *)

LEMMA LocalAddUnindexedIs ==
  ASSUME NEW t \in Tables, NEW name \in Text, NEW sid \in Int, NEW home \in Int, NEW self
  PROVE  LET u == LocalAddUnindexed(t, name, sid, home, self).t
         IN /\ Grown(u, t)
            /\ u.maxId = Larger(t.maxId, sid)
            /\ u.symbols = Append(t.symbols, [value |-> name, sid |-> sid, home |-> home])
            /\ u.byIdMax = t.byIdMax /\ u.byId = t.byId /\ u.byName = t.byName
<1> DEFINE sym == [value |-> name, sid |-> sid, home |-> home]
           symbols == Append(t.symbols, sym)
           maxId == Larger(t.maxId, sid)
           hasLocal == t.hasLocal \/ home = self
           u == [t EXCEPT !.symbols = symbols, !.maxId = maxId, !.hasLocal = hasLocal]
<1>1. LocalAddUnindexed(t, name, sid, home, self).t = u
  BY DEF LocalAddUnindexed, Ok, Tables
<1>2. sym \in Symbols
  BY DEF Symbols
<1>3. /\ symbols \in Seq(Symbols) /\ Len(symbols) = Len(t.symbols) + 1
      /\ \A i \in 1..Len(t.symbols) : symbols[i] = t.symbols[i]
  <2> HIDE DEF sym
  <2> QED BY <1>2 DEF Tables
<1>4. maxId \in Nat /\ maxId >= t.maxId
  <2>1. t.maxId \in Nat /\ t.maxId \in Int
    BY DEF Tables
  <2>2. maxId \in Int /\ maxId >= t.maxId
    BY <2>1, LargerIs
  <2> HIDE DEF maxId
  <2> QED BY <2>1, <2>2
<1>5. hasLocal \in BOOLEAN
  BY Zenon
<1> HIDE DEF symbols, maxId, hasLocal
<1>6. u \in Tables
  BY <1>3, <1>4, <1>5 DEF Tables
<1>7. /\ u.name = t.name /\ u.version = t.version /\ u.locked = t.locked
      /\ u.imports = t.imports /\ u.owner = t.owner /\ u.symbols = symbols
      /\ u.maxId = maxId /\ u.byIdMax = t.byIdMax /\ u.byId = t.byId
      /\ u.byName = t.byName
  BY DEF Tables
<1>8. Len(t.symbols) \in Nat
  BY DEF Tables
<1> QED BY <1>1, <1>3, <1>4, <1>6, <1>7, <1>8 DEF Grown, symbols, maxId

LEMMA LocalAddIs ==
  ASSUME NEW t \in Tables, NEW name \in Text, NEW sid \in Int, NEW home \in Int, NEW self
  PROVE  Grown(LocalAdd(t, name, sid, home, self).t, t)
<1>1. CASE name \in BadNames
  <2> DEFINE sym == [value |-> None, sid |-> Unknown, home |-> Nowhere]
             symbols == Append(t.symbols, sym)
             u == [t EXCEPT !.symbols = symbols]
  <2>1. LocalAdd(t, name, sid, home, self).t = u
    BY <1>1 DEF LocalAdd, Fails, Tables
  <2>2. sym \in Symbols
    <3>1. Nowhere \in Int /\ Unknown \in Int
      BY SMT DEF Unknown, Nowhere
    <3>2. None \in Text
      BY SymbolTableAssumption DEF None
    <3> QED BY <3>1, <3>2 DEF Symbols
  <2>3. /\ symbols \in Seq(Symbols) /\ Len(symbols) = Len(t.symbols) + 1
        /\ \A i \in 1..Len(t.symbols) : symbols[i] = t.symbols[i]
    <3> HIDE DEF sym
    <3> QED BY <2>2 DEF Tables
  <2> HIDE DEF symbols
  <2>4. u \in Tables
    BY <2>3 DEF Tables
  <2>5. /\ u.name = t.name /\ u.version = t.version /\ u.locked = t.locked
        /\ u.imports = t.imports /\ u.owner = t.owner /\ u.symbols = symbols
        /\ u.maxId = t.maxId
    BY DEF Tables
  <2>6. Len(t.symbols) \in Nat /\ t.maxId \in Nat
    BY DEF Tables
  <2>7. Grown(u, t)
    BY <2>3, <2>4, <2>5, <2>6 DEF Grown
  <2> QED BY <2>1, <2>7
<1>2. CASE name \notin BadNames
  <2> DEFINE r == LocalAddUnindexed(t, name, sid, home, self)
  <2>1. Grown(r.t, t) /\ r.err = "ok"
    <3>1. Grown(r.t, t)
      BY LocalAddUnindexedIs
    <3>2. r.err = "ok"
      BY DEF LocalAddUnindexed, Ok
    <3> QED BY <3>1, <3>2
  <2>2. LocalAdd(t, name, sid, home, self) =
          IF IndexActive(r.t) THEN IndexInsert(r.t) ELSE Ok(r.t)
    BY <1>2, <2>1 DEF LocalAdd, Then
  <2> HIDE DEF r
  <2>3. r.t \in Tables
    BY <2>1 DEF Grown
  <2>4. Same(IndexInsert(r.t).t, r.t) /\ Same(Ok(r.t).t, r.t)
    BY <2>3, IndexInsertIs, SameReflexive DEF Ok
  <2>5. Grown(IndexInsert(r.t).t, r.t) /\ Grown(Ok(r.t).t, r.t)
    BY <2>3, <2>4, SameGrown
  <2>6. Grown(IndexInsert(r.t).t, t) /\ Grown(Ok(r.t).t, t)
    BY <2>1, <2>3, <2>5, GrownTransitive
  <2> QED BY <2>2, <2>6
<1> QED BY <1>1, <1>2

LEMMA AddUnlessFoundIs ==
  ASSUME NEW t \in Tables, NEW found, NEW name \in Text, NEW self \in Int
  PROVE  LET u == AddUnlessFound(t, found, name, self).t
         IN Grown(u, t) /\ (t.locked => Same(u, t))
<1>1. NextSid(t) \in Int
  BY DEF NextSid, Tables
<1>2. Grown(LocalAdd(t, name, NextSid(t), self, self).t, t)
  BY <1>1, LocalAddIs
<1>3. Same(Ok(t).t, t) /\ Same(Fails(t, "immutable").t, t)
  BY SameReflexive DEF Ok, Fails
<1>4. Grown(Ok(t).t, t) /\ Grown(Fails(t, "immutable").t, t)
  BY SameReflexive DEF Ok, Fails
<1> QED BY <1>2, <1>3, <1>4 DEF AddUnlessFound

LEMMA AddSymbolIs ==
  ASSUME NEW t \in Tables, NEW name \in Text, NEW self \in Int
  PROVE  LET u == AddSymbol(t, name, self).t
         IN Grown(u, t) /\ (t.locked => Same(u, t))
<1> DEFINE r == IndexIfLarge(t)
           v == AddUnlessFound(r.t, SidOfName(r.t, name), name, self).t
<1>1. Same(r.t, t) /\ Grown(r.t, t)
  BY IndexIfLargeIs, SameGrown
<1>2. AddSymbol(t, name, self).t = IF r.err = "ok" THEN v ELSE r.t
  BY DEF AddSymbol, Then
<1> HIDE DEF r
<1>3. r.t \in Tables /\ r.t.locked = t.locked
  BY <1>1 DEF Same
<1>4. Grown(v, r.t) /\ (t.locked => Same(v, r.t))
  BY <1>3, AddUnlessFoundIs
<1> HIDE DEF v
<1>5. Grown(v, t) /\ (t.locked => Same(v, t))
  BY <1>1, <1>3, <1>4, GrownTransitive, SameTransitive
<1> QED BY <1>1, <1>2, <1>5

LEMMA AddUnlessDuplicateIs ==
  ASSUME NEW t \in Tables, NEW found, NEW name \in Text, NEW sid \in Int, NEW home \in Int,
         NEW self
  PROVE  Grown(AddUnlessDuplicate(t, found, name, sid, home, self).t, t)
<1>1. Grown(LocalAdd(t, name, sid, home, self).t, t)
  BY LocalAddIs
<1>2. Grown(Ok(t).t, t) /\ Grown(Fails(t, "duplicate").t, t)
  BY SameReflexive DEF Ok, Fails
<1> QED BY <1>1, <1>2 DEF AddUnlessDuplicate

LEMMA AddSymbolAndSidIs ==
  ASSUME NEW t \in Tables, NEW name \in Text, NEW sid \in Int, NEW home \in Int, NEW self
  PROVE  Grown(AddSymbolAndSid(t, name, sid, home, self).t, t)
<1> DEFINE r == IndexIfLarge(t)
           v == AddUnlessDuplicate(r.t, SidOfName(r.t, name), name, sid, home, self).t
<1>1. Same(r.t, t) /\ Grown(r.t, t)
  BY IndexIfLargeIs, SameGrown
<1>2. AddSymbolAndSid(t, name, sid, home, self).t =
        IF t.locked THEN t ELSE IF r.err = "ok" THEN v ELSE r.t
  BY DEF AddSymbolAndSid, Then, Fails
<1> HIDE DEF r
<1>3. r.t \in Tables
  BY <1>1 DEF Same
<1>4. Grown(v, r.t)
  BY <1>3, AddUnlessDuplicateIs
<1> HIDE DEF v
<1>5. Grown(v, t)
  BY <1>1, <1>3, <1>4, GrownTransitive
<1> QED BY <1>1, <1>2, <1>5, SameReflexive

-----------------------------------------------------------------------------
(* How the operations end. *)

Errors == {"ok", "key already exists", "invalid utf8", "immutable", "duplicate"}

Results == [t : Tables, err : Errors]

LEMMA ResultIs ==
  ASSUME NEW r, r.t \in Tables, r.err \in Errors, r = [t |-> r.t, err |-> r.err]
  PROVE  r \in Results
BY DEF Results

LEMMA InitIndicesEnds ==
  ASSUME NEW t \in Tables
  PROVE  InitIndices(t) \in Results
<1>1. /\ InitIndices(t).err \in Errors
      /\ InitIndices(t) = [t |-> InitIndices(t).t, err |-> InitIndices(t).err]
  BY Zenon DEF InitIndices, Ok, Entered, Errors
<1>2. InitIndices(t).t \in Tables
  BY InitIndicesIs DEF Same
<1> QED BY <1>1, <1>2, ResultIs

LEMMA IndexIfLargeEnds ==
  ASSUME NEW t \in Tables
  PROVE  IndexIfLarge(t) \in Results
<1>1. Ok(t) \in Results
  BY DEF Ok, Results, Errors
<1> QED BY <1>1, InitIndicesEnds DEF IndexIfLarge

LEMMA LocalAddEnds ==
  ASSUME NEW t \in Tables, NEW name \in Text, NEW sid \in Int, NEW home \in Int, NEW self
  PROVE  LocalAdd(t, name, sid, home, self) \in Results
<1> DEFINE r == LocalAdd(t, name, sid, home, self)
<1>1. r.t \in Tables
  BY LocalAddIs DEF Grown
<1>2. r.err \in Errors /\ r = [t |-> r.t, err |-> r.err]
  <2>1. CASE name \in BadNames
    BY <2>1, Zenon DEF LocalAdd, Fails, Errors
  <2>2. CASE name \notin BadNames
    <3> DEFINE u == LocalAddUnindexed(t, name, sid, home, self).t
    <3>1. LocalAddUnindexed(t, name, sid, home, self).err = "ok"
      BY DEF LocalAddUnindexed, Ok
    <3>2. r = IF IndexActive(u) THEN IndexInsert(u) ELSE Ok(u)
      BY <2>2, <3>1 DEF LocalAdd, Then
    <3> HIDE DEF u, r
    <3> QED BY <3>2, Zenon DEF IndexInsert, EnterLast, Ok, Errors
  <2> QED BY <2>1, <2>2
<1> HIDE DEF r
<1> QED BY <1>1, <1>2, ResultIs DEF r

LEMMA AddSymbolAndSidEnds ==
  ASSUME NEW t \in Tables, NEW name \in Text, NEW sid \in Int, NEW home \in Int, NEW self
  PROVE  AddSymbolAndSid(t, name, sid, home, self) \in Results
<1> DEFINE r == IndexIfLarge(t)
           found == SidOfName(r.t, name)
           v == AddUnlessDuplicate(r.t, found, name, sid, home, self)
<1>1. r \in Results /\ r.t \in Tables
  BY IndexIfLargeEnds DEF Results
<1>2. AddSymbolAndSid(t, name, sid, home, self) =
        IF t.locked THEN Fails(t, "immutable") ELSE IF r.err = "ok" THEN v ELSE r
  BY DEF AddSymbolAndSid, Then
<1> HIDE DEF r, found
<1>3. v \in Results
  <2>1. LocalAdd(r.t, name, sid, home, self) \in Results
    BY <1>1, LocalAddEnds
  <2>2. Ok(r.t) \in Results /\ Fails(r.t, "duplicate") \in Results
    BY <1>1 DEF Ok, Fails, Results, Errors
  <2> QED BY <2>1, <2>2 DEF AddUnlessDuplicate
<1>4. Fails(t, "immutable") \in Results
  BY DEF Fails, Results, Errors
<1> HIDE DEF v
<1> QED BY <1>1, <1>2, <1>3, <1>4

-----------------------------------------------------------------------------
(* Imports. *)


Progress == [t : Tables, err : Errors, duplicates : Nat]

LEMMA IncorporateSymbolIs ==
  ASSUME NEW acc \in Progress, NEW sym \in Symbols, NEW maxId, NEW base \in Nat, NEW self
  PROVE  LET next == IncorporateSymbol(acc, sym, maxId, base, self)
         IN next \in Progress /\ Grown(next.t, acc.t)
<1> DEFINE sid == ImportedSid(sym, base, acc.duplicates)
           r == AddSymbolAndSid(acc.t, sym.value, sid, sym.home, self)
<1>1. acc.t \in Tables /\ acc.err \in Errors /\ acc.duplicates \in Nat
  BY DEF Progress
<1>2. sid \in Int /\ sym.value \in Text /\ sym.home \in Int
  BY <1>1 DEF ImportedSid, Symbols
<1> HIDE DEF sid
<1>3. r \in Results /\ Grown(r.t, acc.t)
  BY <1>1, <1>2, AddSymbolAndSidIs, AddSymbolAndSidEnds
<1> HIDE DEF r
<1>4. r.t \in Tables /\ r.err \in Errors
  BY <1>3 DEF Results
<1>5. Incorporated(acc, r) \in Progress /\ Grown(Incorporated(acc, r).t, acc.t)
  <2>1. [t |-> r.t, err |-> "ok", duplicates |-> acc.duplicates + 1] \in Progress
    <3>1. "ok" \in Errors
      BY DEF Errors
    <3>2. acc.duplicates + 1 \in Nat
      BY <1>1
    <3> QED BY <1>4, <3>1, <3>2 DEF Progress
  <2>2. [t |-> r.t, err |-> r.err, duplicates |-> acc.duplicates] \in Progress
    BY <1>1, <1>4 DEF Progress
  <2>3. Incorporated(acc, r).t = r.t
    BY DEF Incorporated
  <2> QED BY <1>3, <2>1, <2>2, <2>3 DEF Incorporated
<1>6. IncorporateSymbol(acc, sym, maxId, base, self) = acc
      \/ IncorporateSymbol(acc, sym, maxId, base, self) = Incorporated(acc, r)
  BY DEF IncorporateSymbol, r, sid
<1>7. Grown(acc.t, acc.t)
  BY <1>1, SameReflexive
<1> QED BY <1>5, <1>6, <1>7

(* The recursive function of Incorporate. *)
IncorporateAfter(t, import, self, after) ==
  /\ after \in [0..Len(import.symbols) -> Progress]
  /\ after[0] = [t |-> t, err |-> "ok", duplicates |-> 0]
  /\ \A n \in 1..Len(import.symbols) :
       after[n] = IncorporateSymbol(after[n - 1], import.symbols[n], import.maxId,
                                    Len(t.symbols), self)

LEMMA IncorporateUnfolds ==
  ASSUME NEW t \in Tables, NEW import \in Tables, NEW self
  PROVE  \E after : /\ IncorporateAfter(t, import, self, after)
                    /\ Incorporate(t, import, self) = after[Len(import.symbols)]
<1> DEFINE k == Len(import.symbols)
           init == [t |-> t, err |-> "ok", duplicates |-> 0]
           Step(acc, n) ==
             IncorporateSymbol(acc, import.symbols[n], import.maxId, Len(t.symbols), self)
           F == [p \in Progress \X (1..k) |-> Step(p[1], p[2])]
           after[n \in 0..k] == IF n = 0 THEN init ELSE Step(after[n - 1], n)
<1>1. k \in Nat /\ Len(t.symbols) \in Nat /\ \A n \in 1..k : import.symbols[n] \in Symbols
  BY DEF Tables
<1>2. init \in Progress
  BY DEF Progress, Errors
<1> HIDE DEF init
<1>3. \A acc \in Progress, n \in 1..k : Step(acc, n) \in Progress
  BY <1>1, IncorporateSymbolIs
<1> HIDE DEF Step, k
<1>4. F \in [Progress \X (1..k) -> Progress]
  BY <1>3
<1>4a. Steps(F, Progress, k)
  BY <1>4 DEF Steps
<1>5. \A acc \in Progress, n \in 1..k : F[<<acc, n>>] = Step(acc, n)
  OBVIOUS
<1> HIDE DEF F
<1>6. PICK f : Iterates(f, Progress, k, init, F)
  BY <1>1, <1>2, <1>4a, RecursionExists
<1>6a. /\ f \in [0..k -> Progress] /\ f[0] = init
       /\ \A n \in 1..k : f[n] = F[<<f[n - 1], n>>]
  BY <1>6 DEF Iterates
<1>7. \A n \in 1..k : f[n] = Step(f[n - 1], n)
  <2>1. \A n \in 1..k : f[n - 1] \in Progress
    BY <1>1, <1>6a
  <2> QED BY <1>5, <1>6a, <2>1
<1>8. f = [n \in 0..k |-> IF n = 0 THEN init ELSE Step(f[n - 1], n)]
  <2>1. \A n \in 0..k : n = 0 \/ n \in 1..k
    BY <1>1
  <2> QED BY <1>6a, <1>7, <2>1
<1>9. after = [n \in 0..k |-> IF n = 0 THEN init ELSE Step(after[n - 1], n)]
  BY <1>8
<1> HIDE DEF after
<1>10. after = f
  <2> DEFINE P == { n \in 0..k : after[n] = f[n] }
  <2>1. P = 0..k
    <3>1. 0 \in P
      BY <1>1, <1>6a, <1>9
    <3>2. ASSUME NEW n \in 1..k, n - 1 \in P
          PROVE  n \in P
      <4>1. n \in 0..k /\ n # 0
        OBVIOUS
      <4>2. after[n] = Step(after[n - 1], n)
        BY <1>9, <4>1
      <4> QED BY <1>7, <3>2, <4>1, <4>2
    <3>3. P \in SUBSET (0..k)
      OBVIOUS
    <3> HIDE DEF P
    <3> QED BY <1>1, <3>1, <3>2, <3>3, UpTo
  <2>2. DOMAIN after = 0..k /\ \A n \in 0..k : after[n] = f[n]
    BY <1>9, <2>1
  <2> QED BY <1>6a, <1>9, <2>2
<1>11. Incorporate(t, import, self) = after[k]
  BY DEF Incorporate, after, k, Step, init
<1>12. IncorporateAfter(t, import, self, f)
  BY <1>6a, <1>7 DEF IncorporateAfter, k, Step, init
<1> QED BY <1>10, <1>11, <1>12 DEF k

LEMMA IncorporateIs ==
  ASSUME NEW t \in Tables, NEW import \in Tables, NEW self
  PROVE  LET r == Incorporate(t, import, self)
         IN r \in Progress /\ Grown(r.t, t)
<1> DEFINE k == Len(import.symbols)
<1>1. PICK after : /\ IncorporateAfter(t, import, self, after)
                   /\ Incorporate(t, import, self) = after[k]
  BY IncorporateUnfolds
<1>2. k \in Nat /\ Len(t.symbols) \in Nat /\ \A n \in 1..k : import.symbols[n] \in Symbols
  BY DEF Tables
<1> DEFINE P == { n \in 0..k : Grown(after[n].t, t) }
<1>3. 0 \in P
  BY <1>1, <1>2, SameReflexive DEF IncorporateAfter
<1>4. ASSUME NEW n \in 1..k, n - 1 \in P
      PROVE  n \in P
  <2>1. after[n - 1] \in Progress /\ Grown(after[n - 1].t, t)
    BY <1>1, <1>4 DEF IncorporateAfter
  <2>2. after[n] = IncorporateSymbol(after[n - 1], import.symbols[n], import.maxId,
                                     Len(t.symbols), self)
    BY <1>1 DEF IncorporateAfter
  <2>3. Grown(after[n].t, after[n - 1].t)
    BY <1>2, <2>1, <2>2, IncorporateSymbolIs
  <2>4. after[n - 1].t \in Tables
    BY <2>1 DEF Progress
  <2>5. Grown(after[n].t, t)
    BY <2>1, <2>3, <2>4, GrownTransitive
  <2> QED BY <2>5
<1>5. P \in SUBSET (0..k)
  OBVIOUS
<1>6. after[k] \in Progress
  BY <1>1, <1>2 DEF IncorporateAfter
<1> HIDE DEF k
<1>7. k \in P
  <2> HIDE DEF P
  <2> QED BY <1>2, <1>3, <1>4, <1>5, UpTo
<1> QED BY <1>1, <1>6, <1>7

-----------------------------------------------------------------------------
(* New tables, and tables as wholes. *)

LEMMA EmptyTableIs ==
  ASSUME NEW owner \in Owners
  PROVE  [EmptyTable EXCEPT !.owner = owner] \in Tables
<1>1. None \in Text
  BY SymbolTableAssumption DEF None
<1>2. <<>> \in Seq(Imports) /\ <<>> \in Seq(Symbols) /\ <<>> \in Seq(Nat)
  OBVIOUS
<1> QED BY <1>1, <1>2 DEF EmptyTable, Tables

(* The system table is what its definition says but for the indices. *)
LEMMA SystemTableIs ==
  /\ SystemTable \in Tables
  /\ SystemTable.name = "$ion" /\ SystemTable.version = 1 /\ SystemTable.locked
  /\ SystemTable.maxId = Len(SystemNames)
  /\ SystemTable.symbols = [i \in DOMAIN SystemNames |->
                              [value |-> SystemNames[i], sid |-> i, home |-> System]]
<1> DEFINE symbols == [i \in DOMAIN SystemNames |->
                         [value |-> SystemNames[i], sid |-> i, home |-> System]]
           filled == [EmptyTable EXCEPT
             !.name = "$ion", !.version = 1, !.maxId = Len(SystemNames), !.hasLocal = TRUE,
             !.symbols = symbols]
           u == InitIndices(filled).t
<1>1. SystemTable = [u EXCEPT !.locked = TRUE]
  BY DEF SystemTable
<1>2. symbols \in Seq(Symbols)
  <2>1. SystemNames \in Seq(Text)
    BY SymbolTableAssumption
  <2>2. /\ Len(SystemNames) \in Nat /\ DOMAIN SystemNames = 1..Len(SystemNames)
        /\ \A i \in 1..Len(SystemNames) : SystemNames[i] \in Text
    BY <2>1
  <2>3. System \in Int
    BY DEF System
  <2>4. \A i \in 1..Len(SystemNames) : symbols[i] \in Symbols
    BY <2>2, <2>3 DEF Symbols
  <2>5. symbols = [i \in 1..Len(SystemNames) |-> symbols[i]]
    BY <2>2
  <2> HIDE DEF symbols
  <2> QED BY <2>2, <2>4, <2>5, SequenceOf
<1>3. filled \in Tables
  <2>1. None \in Text /\ "$ion" \in Text
    BY SymbolTableAssumption DEF None
  <2>2. Len(SystemNames) \in Nat
    BY SymbolTableAssumption
  <2>3. <<>> \in Seq(Imports) /\ <<>> \in Seq(Nat)
    OBVIOUS
  <2>4. None \in Owners
    BY DEF Owners
  <2> HIDE DEF symbols
  <2> QED BY <1>2, <2>1, <2>2, <2>3, <2>4 DEF EmptyTable, Tables
<1>4. Same(u, filled)
  <2> HIDE DEF filled
  <2> QED BY <1>3, InitIndicesIs
<1>5. /\ filled.name = "$ion" /\ filled.version = 1 /\ filled.maxId = Len(SystemNames)
      /\ filled.symbols = symbols
  BY DEF EmptyTable
<1> HIDE DEF filled, symbols
<1>6. u \in Tables /\ u.name = "$ion" /\ u.version = 1 /\ u.maxId = Len(SystemNames)
      /\ u.symbols = symbols
  BY <1>4, <1>5 DEF Same
<1> HIDE DEF u
<1> QED BY <1>1, <1>6 DEF Tables, symbols

LEMMA OpenTableIs ==
  ASSUME NEW owner \in Owners, NEW self
  PROVE  LET t == OpenTable(owner, self)
         IN /\ t \in Tables
            /\ t.name = None /\ t.version = 0 /\ ~t.locked /\ t.imports = <<>>
            /\ t.owner = owner
<1> DEFINE empty == [EmptyTable EXCEPT !.owner = owner]
           r == Incorporate(empty, SystemTable, self)
<1>1. empty \in Tables
  BY EmptyTableIs
<1>2. /\ empty.name = None /\ empty.version = 0 /\ ~empty.locked /\ empty.imports = <<>>
      /\ empty.owner = owner
  BY DEF EmptyTable
<1>3. OpenTable(owner, self) = r.t
  BY DEF OpenTable
<1> HIDE DEF empty
<1>4. Grown(r.t, empty)
  BY <1>1, SystemTableIs, IncorporateIs
<1> QED BY <1>2, <1>3, <1>4 DEF Grown

LEMMA SubstituteIs ==
  ASSUME NEW import \in Imports
  PROVE  Substitute(import) \in Tables
<1> DEFINE t == OpenTable(None, Nowhere)
<1>1. t \in Tables
  BY OpenTableIs DEF Owners
<1>2. import.name \in Text /\ import.version \in Nat /\ import.maxId \in Nat
  BY DEF Imports
<1>3. Substitute(import) =
        [t EXCEPT !.name = import.name, !.version = import.version, !.maxId = import.maxId]
  BY DEF Substitute
<1> HIDE DEF t
<1> QED BY <1>1, <1>2, <1>3 DEF Tables

LEMMA ImportOfIs ==
  ASSUME NEW t \in Tables
  PROVE  ImportOf(t) \in Imports
BY DEF ImportOf, Imports, Tables

LEMMA ImportSymbolTableIs ==
  ASSUME NEW t \in Tables, NEW import \in Tables, NEW self
  PROVE  LET u == ImportSymbolTable(t, import, self).t
         IN /\ u \in Tables /\ u.name = t.name /\ u.version = t.version
            /\ u.locked = t.locked /\ u.owner = t.owner
            /\ Len(u.symbols) >= Len(t.symbols)
            /\ \A i \in 1..Len(t.symbols) : u.symbols[i] = t.symbols[i]
            /\ t.locked => u = t
<1>1. CASE t.locked
  <2>1. ImportSymbolTable(t, import, self).t = t
    BY <1>1 DEF ImportSymbolTable, Fails
  <2> QED BY <2>1 DEF Tables
<1>2. CASE ~t.locked
  <2> DEFINE v == [t EXCEPT !.imports = Append(@, ImportOf(import))]
  <2>1. Append(t.imports, ImportOf(import)) \in Seq(Imports)
    BY ImportOfIs DEF Tables
  <2>2. v \in Tables /\ v.name = t.name /\ v.version = t.version /\ v.locked = t.locked
        /\ v.owner = t.owner /\ v.symbols = t.symbols
    BY <2>1 DEF Tables
  <2>3. ImportSymbolTable(t, import, self).t = Incorporate(v, import, self).t
    BY <1>2 DEF ImportSymbolTable
  <2> HIDE DEF v
  <2>4. Grown(Incorporate(v, import, self).t, v)
    BY <2>2, IncorporateIs
  <2> QED BY <1>2, <2>2, <2>3, <2>4 DEF Grown
<1> QED BY <1>1, <1>2

LEMMA LockTableIs ==
  ASSUME NEW t \in Tables
  PROVE  LET u == LockTable(t).t
         IN /\ u \in Tables
            /\ u.name = t.name /\ u.version = t.version /\ u.maxId = t.maxId
            /\ u.imports = t.imports /\ u.symbols = t.symbols /\ u.owner = t.owner
            /\ u.hasLocal = t.hasLocal
            /\ t.locked => u.locked
<1>1. CASE t.locked
  BY <1>1 DEF LockTable, Ok
<1>2. CASE ~t.locked
  <2> DEFINE r == IF t.maxId > 0 THEN InitIndices(t) ELSE Ok(t)
             v == [r.t EXCEPT !.locked = TRUE]
  <2>1. Same(r.t, t)
    BY InitIndicesIs, SameReflexive DEF Ok
  <2>2. LockTable(t).t = IF r.err = "ok" THEN v ELSE r.t
    BY <1>2 DEF LockTable, Then, Ok
  <2> HIDE DEF r
  <2>3. r.t \in Tables
    BY <2>1 DEF Same
  <2>4. v \in Tables /\ v.name = r.t.name /\ v.version = r.t.version /\ v.maxId = r.t.maxId
        /\ v.imports = r.t.imports /\ v.symbols = r.t.symbols /\ v.owner = r.t.owner
        /\ v.hasLocal = r.t.hasLocal
    BY <2>3 DEF Tables
  <2> HIDE DEF v
  <2> QED BY <1>2, <2>1, <2>2, <2>4 DEF Same
<1> QED BY <1>1, <1>2

LEMMA CloneTableIs ==
  ASSUME NEW t \in Tables, NEW owner \in Owners, NEW from, NEW to \in Int
  PROVE  LET u == CloneTable(t, owner, from, to)
         IN /\ u \in Tables
            /\ u.name = t.name /\ u.version = (IF IsLocal(t) THEN 0 ELSE t.version)
            /\ u.maxId = t.maxId /\ ~u.locked /\ ~u.hasLocal /\ u.imports = t.imports
            /\ u.owner = owner /\ u.byIdMax = 0 /\ u.byId = <<>> /\ u.byName = {}
            /\ Len(u.symbols) = Len(t.symbols)
            /\ \A i \in 1..Len(t.symbols) :
                 /\ u.symbols[i].value = t.symbols[i].value
                 /\ u.symbols[i].sid = t.symbols[i].sid
                 /\ u.symbols[i].home = IF t.symbols[i].home = from THEN to
                                        ELSE t.symbols[i].home
<1> DEFINE symbols == [i \in DOMAIN t.symbols |->
                         IF t.symbols[i].home = from THEN [t.symbols[i] EXCEPT !.home = to]
                         ELSE t.symbols[i]]
           version == IF IsLocal(t) THEN 0 ELSE t.version
           byName == {}
           byId == <<>>
           u == [t EXCEPT !.locked = FALSE, !.hasLocal = FALSE, !.owner = owner,
                          !.version = version, !.byIdMax = 0, !.byId = byId, !.byName = byName,
                          !.symbols = symbols]
<1>1. CloneTable(t, owner, from, to) = u
  BY DEF CloneTable, Tables
<1>2. /\ Len(t.symbols) \in Nat /\ DOMAIN t.symbols = 1..Len(t.symbols)
      /\ \A i \in 1..Len(t.symbols) : t.symbols[i] \in Symbols
  BY DEF Tables
<1>3. ASSUME NEW i \in 1..Len(t.symbols)
      PROVE  /\ symbols[i] \in Symbols
             /\ symbols[i].value = t.symbols[i].value /\ symbols[i].sid = t.symbols[i].sid
             /\ symbols[i].home = IF t.symbols[i].home = from THEN to ELSE t.symbols[i].home
  <2>1. t.symbols[i] \in Symbols
    BY <1>2
  <2>2. symbols[i] = IF t.symbols[i].home = from THEN [t.symbols[i] EXCEPT !.home = to]
                     ELSE t.symbols[i]
    BY <1>2
  <2> HIDE DEF symbols
  <2> QED BY <2>1, <2>2 DEF Symbols
<1>4. symbols \in Seq(Symbols) /\ Len(symbols) = Len(t.symbols)
  <2>1. symbols = [i \in 1..Len(t.symbols) |-> symbols[i]]
    BY <1>2
  <2>2. \A i \in 1..Len(t.symbols) : symbols[i] \in Symbols
    BY <1>3
  <2> HIDE DEF symbols
  <2> QED BY <1>2, <2>1, <2>2, SequenceOf
<1>5. version \in Nat /\ byId \in Seq(Nat) /\ byName \in SUBSET Nat
  BY DEF Tables
<1>6. symbols = symbols /\ byId = <<>> /\ byName = {}
  OBVIOUS
<1> HIDE DEF symbols, byId, byName
<1>7. u \in Tables
  <2> HIDE DEF version
  <2> QED BY <1>4, <1>5 DEF Tables
<1>8. /\ u.name = t.name /\ u.version = version /\ u.maxId = t.maxId
      /\ ~u.locked /\ ~u.hasLocal /\ u.imports = t.imports
      /\ u.owner = owner /\ u.byIdMax = 0 /\ u.byId = byId /\ u.byName = byName
      /\ u.symbols = symbols
  BY DEF Tables
<1> HIDE DEF u
<1> QED BY <1>1, <1>3, <1>4, <1>6, <1>7, <1>8

-----------------------------------------------------------------------------
(* Tables whose ids are 1, 2, ... in order, one per name. *)

(* A name that can be a symbol: $<int> is found without being one. *)
Proper(name) ==
  name \notin BadNames /\ (name \in DOMAIN Numerals => Numerals[name] = Unknown)

Numbered(t) ==
  \A i \in 1..Len(t.symbols) : t.symbols[i].sid = i /\ Proper(t.symbols[i].value)

(* A table that symbols can be imported from. *)
Source(t) == t \in Tables /\ Numbered(t) /\ Distinct(t.symbols)

Listed(t) == Source(t) /\ t.maxId >= Len(t.symbols) /\ Indexed(t)

LEMMA SourceIs ==
  ASSUME NEW t, Source(t)
  PROVE  /\ t \in Tables /\ Len(t.symbols) \in Nat /\ DOMAIN t.symbols = 1..Len(t.symbols)
         /\ \A i \in 1..Len(t.symbols) :
              /\ t.symbols[i] \in Symbols
              /\ t.symbols[i].sid = i /\ Proper(t.symbols[i].value)
              /\ t.symbols[i].value \in Text /\ t.symbols[i].home \in Int
         /\ \A i, j \in 1..Len(t.symbols) :
              t.symbols[i].value = t.symbols[j].value => i = j
<1>1. t \in Tables /\ t.symbols \in Seq(Symbols)
  BY DEF Source, Tables
<1>2. Len(t.symbols) \in Nat /\ DOMAIN t.symbols = 1..Len(t.symbols)
      /\ \A i \in 1..Len(t.symbols) : t.symbols[i] \in Symbols
  BY <1>1
<1> QED BY <1>1, <1>2 DEF Source, Numbered, Distinct, Symbols

LEMMA SameSource ==
  ASSUME NEW t, Source(t), NEW u, Same(u, t)
  PROVE  Source(u)
BY DEF Source, Same, Numbered

LEMMA CountTo ==
  ASSUME NEW n \in Nat
  PROVE  Cardinality(1..n) = n
BY FS_Interval

LEMMA SinglePlace ==
  ASSUME NEW n \in Nat, NEW i \in 1..n
  PROVE  Min({i}) = i /\ Max({i}) = i
<1>1. {i} \in SUBSET Nat /\ {i} # {} /\ {i} \in SUBSET (0..n)
  OBVIOUS
<1> QED BY <1>1, MinIs, MaxIs

LEMMA InitIndicesListed ==
  ASSUME NEW t, Listed(t)
  PROVE  /\ InitIndices(t).err = "ok" /\ Listed(InitIndices(t).t)
         /\ Same(InitIndices(t).t, t)
         /\ t.maxId > 0 => IndexActive(InitIndices(t).t)
<1> DEFINE n == Len(t.symbols)
           size == Larger(t.maxId + 1, DefaultSize)
           r == InitIndices(t)
<1>1. /\ t \in Tables /\ n \in Nat /\ DOMAIN t.symbols = 1..n
      /\ \A i \in 1..n : t.symbols[i].sid = i
      /\ \A i, j \in 1..n : t.symbols[i].value = t.symbols[j].value => i = j
  BY SourceIs DEF Listed
<1>2. Same(r.t, t)
  BY <1>1, InitIndicesIs
<1>3. CASE IndexActive(t)
  <2>1. r = Ok(t)
    BY <1>3 DEF InitIndices
  <2> QED BY <1>1, <1>3, <2>1, SameReflexive DEF Ok
<1>4. CASE ~IndexActive(t)
  <2>1. Unrepeated(t.symbols) = 1..n
    <3>1. \A i \in 1..n : \A j \in 1..i : j \in 1..n
      BY <1>1
    <3> HIDE DEF n
    <3> QED BY <1>1, <3>1 DEF Unrepeated
  <2>2. Lesser(Cardinality(1..n) + 1, n) = n
    BY <1>1, CountTo DEF Lesser
  <2>3. r = Entered(t, 1..n, size)
    BY <1>4, <2>1 DEF InitIndices
  <2>4. r.err = "ok"
    BY <1>1, <2>3 DEF Entered
  <2>5. /\ r.t.byIdMax = size - 1 /\ r.t.byName = 1..n
        /\ r.t.byId = [sid \in 1..(size - 1) |->
             IF { i \in 1..n : t.symbols[i].sid = sid } # {}
               THEN Max({ i \in 1..n : t.symbols[i].sid = sid }) ELSE 0]
    <3> DEFINE ById(to) == [sid \in 1..(size - 1) |->
                              IF { i \in 1..to : t.symbols[i].sid = sid } # {}
                                THEN Max({ i \in 1..to : t.symbols[i].sid = sid }) ELSE 0]
               to == Lesser(Cardinality(1..n) + 1, n)
               byId == ById(to)
               byName == 1..n
    <3>1. r.t = [t EXCEPT !.byIdMax = size - 1, !.byId = byId, !.byName = byName]
      <4> HIDE DEF r, size
      <4> QED BY <2>3, Zenon DEF Entered, SelectLastInSubSeq
    <3>2. byId = ById(n)
      <4> HIDE DEF ById, n
      <4> QED BY <2>2
    <3> HIDE DEF r, size, byId, byName
    <3>3. r.t.byIdMax = size - 1 /\ r.t.byName = byName /\ r.t.byId = byId
      BY <1>1, <3>1 DEF Tables
    <3> QED BY <3>2, <3>3 DEF byName
  <2>6. size \in Nat /\ size - 1 \in Nat /\ size - 1 >= t.maxId
    <3>1. t.maxId \in Nat /\ t.maxId + 1 \in Int
      BY <1>1 DEF Tables
    <3>2. DefaultSize \in Int
      BY SymbolTableAssumption
    <3>3. size \in Int /\ size >= t.maxId + 1
      BY <3>1, <3>2, LargerIs
    <3> HIDE DEF size
    <3> QED BY <3>1, <3>3
  <2>7. n <= size - 1
    <3>1. t.maxId >= n /\ t.maxId \in Nat
      BY <1>1 DEF Listed, Tables
    <3> HIDE DEF n, size
    <3> QED BY <1>1, <2>6, <3>1
  <2> HIDE DEF n, size, r
  <2>8. ASSUME NEW sid \in 1..(size - 1)
        PROVE  r.t.byId[sid] = IF sid <= n THEN sid ELSE Null
    <3>1. CASE sid <= n
      <4>1. { i \in 1..n : t.symbols[i].sid = sid } = {sid}
        BY <1>1, <3>1
      <4>2. sid \in 1..n
        BY <1>1, <3>1, <2>6
      <4>3. Max({sid}) = sid
        BY <1>1, <4>2, SinglePlace
      <4> QED BY <2>5, <3>1, <4>1, <4>3
    <3>2. CASE ~(sid <= n)
      <4>1. { i \in 1..n : t.symbols[i].sid = sid } = {}
        BY <1>1, <2>6, <3>2
      <4> QED BY <2>5, <3>2, <4>1 DEF Null
    <3> QED BY <3>1, <3>2
  <2>9. Len(r.t.symbols) = n /\ DOMAIN r.t.symbols = 1..n /\ r.t.maxId = t.maxId
    BY <1>1, <1>2 DEF Same, n
  <2>10. Indexed(r.t)
    <3>1. CASE IndexActive(r.t)
      <4>1. Len(r.t.byId) = size - 1
        <5>1. r.t.byId \in Seq(Nat) /\ DOMAIN r.t.byId = 1..(size - 1)
          BY <1>2, <2>5 DEF Same, Tables
        <5> QED BY <2>6, <5>1
      <4> QED BY <2>5, <2>7, <2>8, <2>9, <3>1, <4>1 DEF Indexed
    <3>2. CASE ~IndexActive(r.t)
      <4>1. size - 1 = 0 /\ n = 0
        BY <1>1, <2>5, <2>6, <2>7, <3>2 DEF IndexActive
      <4>2. r.t.byName = {}
        BY <2>5, <4>1
      <4>3. r.t.byId = <<>>
        <5>1. r.t.byId \in Seq(Nat) /\ DOMAIN r.t.byId = {}
          BY <1>2, <2>5, <4>1 DEF Same, Tables
        <5> QED BY <5>1, EmptyIs
      <4> QED BY <3>2, <4>2, <4>3 DEF Indexed
    <3> QED BY <3>1, <3>2
  <2>11. Source(r.t)
    BY <1>2, SameSource DEF Listed
  <2>12. Listed(r.t)
    BY <2>9, <2>10, <2>11 DEF Listed, n
  <2>13. t.maxId > 0 => IndexActive(r.t)
    BY <1>1, <2>5, <2>6 DEF IndexActive, Tables
  <2> QED BY <1>2, <2>4, <2>12, <2>13 DEF r
<1> QED BY <1>3, <1>4

LEMMA IndexIfLargeListed ==
  ASSUME NEW t, Listed(t)
  PROVE  /\ IndexIfLarge(t).err = "ok" /\ Listed(IndexIfLarge(t).t)
         /\ Same(IndexIfLarge(t).t, t)
<1>1. t \in Tables
  BY DEF Listed, Source
<1>2. Ok(t).err = "ok" /\ Ok(t).t = t /\ Same(t, t)
  BY <1>1, SameReflexive DEF Ok
<1> QED BY <1>2, InitIndicesListed DEF IndexIfLarge

(* The place of a symbol, indexed or not. *)
LEMMA PlaceOfSidIs ==
  ASSUME NEW t, Listed(t), NEW sid \in Int
  PROVE  PlaceOfSid(t, sid) = IF sid \in 1..Len(t.symbols) THEN sid ELSE Null
<1> DEFINE n == Len(t.symbols)
<1>1. n \in Nat /\ \A i \in 1..n : t.symbols[i].sid = i
  BY SourceIs DEF Listed
<1>2. CASE IndexActive(t)
  <2>1. n <= t.byIdMax /\ t.byIdMax \in Nat
        /\ \A s \in 1..t.byIdMax : t.byId[s] = IF s <= n THEN s ELSE Null
    BY <1>2 DEF Listed, Source, Tables, Indexed
  <2>2. PlaceOfSid(t, sid) = IF sid \in 1..t.byIdMax THEN t.byId[sid] ELSE Null
    BY <1>2 DEF PlaceOfSid
  <2> HIDE DEF n
  <2>3. sid \in 1..n <=> sid \in 1..t.byIdMax /\ sid <= n
    BY <1>1, <2>1
  <2> QED BY <2>1, <2>2, <2>3 DEF n
<1>3. CASE ~IndexActive(t)
  <2> DEFINE I == { i \in 1..n : t.symbols[i].sid = sid }
  <2>1. PlaceOfSid(t, sid) = IF I # {} THEN Min(I) ELSE 0
    BY <1>3, Zenon DEF PlaceOfSid, SelectInSeq
  <2>2. I = IF sid \in 1..n THEN {sid} ELSE {}
    <3> HIDE DEF n
    <3> QED BY <1>1
  <2>3. sid \in 1..n => Min({sid}) = sid
    BY <1>1, SinglePlace
  <2> HIDE DEF I, n
  <2> QED BY <2>1, <2>2, <2>3 DEF Null, n
<1> QED BY <1>2, <1>3

LEMMA PlaceOfNameIs ==
  ASSUME NEW t, Listed(t), NEW name
  PROVE  /\ \A i \in 1..Len(t.symbols) :
              t.symbols[i].value = name => PlaceOfName(t, name) = i
         /\ (\A i \in 1..Len(t.symbols) : t.symbols[i].value # name)
              => PlaceOfName(t, name) = Null
<1> DEFINE n == Len(t.symbols)
           I == { i \in 1..n : t.symbols[i].value = name }
<1>1. /\ n \in Nat /\ DOMAIN t.symbols = 1..n
      /\ \A i, j \in 1..n : t.symbols[i].value = t.symbols[j].value => i = j
  BY SourceIs DEF Listed
<1>2. \A i \in 1..n : t.symbols[i].value = name => I = {i}
  <2> HIDE DEF n
  <2> QED BY <1>1
<1>3. (\A i \in 1..n : t.symbols[i].value # name) => I = {}
  OBVIOUS
<1>4. CASE IndexActive(t)
  <2>1. t.byName = 1..n
    BY <1>1, <1>4 DEF Listed, Indexed
  <2> DEFINE J == { i \in t.byName : t.symbols[i].value = name }
  <2>2. PlaceOfName(t, name) = IF J = {} THEN Null ELSE CHOOSE i \in J : TRUE
    BY <1>4, Zenon DEF PlaceOfName
  <2>3. J = I
    BY <2>1
  <2> HIDE DEF I, J, n
  <2>4. \A i : (CHOOSE j \in {i} : TRUE) = i
    OBVIOUS
  <2> QED BY <1>2, <1>3, <2>2, <2>3, <2>4 DEF n
<1>5. CASE ~IndexActive(t)
  <2>1. PlaceOfName(t, name) = IF I # {} THEN Min(I) ELSE 0
    BY <1>5, Zenon DEF PlaceOfName, SelectInSeq
  <2>2. \A i \in 1..n : Min({i}) = i
    BY <1>1, SinglePlace
  <2> HIDE DEF I, n
  <2> QED BY <1>2, <1>3, <2>1, <2>2 DEF Null, n
<1> QED BY <1>4, <1>5

LEMMA SidOfNameIs ==
  ASSUME NEW t, Listed(t), NEW name
  PROVE  /\ \A i \in 1..Len(t.symbols) : t.symbols[i].value = name => SidOfName(t, name) = i
         /\ (\A i \in 1..Len(t.symbols) : t.symbols[i].value # name)
              => SidOfName(t, name) =
                   IF name \in DOMAIN Numerals THEN Numerals[name] ELSE Unknown
<1>1. Len(t.symbols) \in Nat /\ \A i \in 1..Len(t.symbols) : t.symbols[i].sid = i /\ i # Null
  BY SourceIs DEF Listed, Null
<1>2. ASSUME NEW i \in 1..Len(t.symbols), t.symbols[i].value = name
      PROVE  SidOfName(t, name) = i
  <2>1. PlaceOfName(t, name) = i
    BY <1>2, PlaceOfNameIs
  <2> QED BY <1>1, <2>1 DEF SidOfName
<1>3. ASSUME \A i \in 1..Len(t.symbols) : t.symbols[i].value # name
      PROVE  SidOfName(t, name) = IF name \in DOMAIN Numerals THEN Numerals[name] ELSE Unknown
  <2>1. PlaceOfName(t, name) = Null
    BY <1>3, PlaceOfNameIs
  <2> QED BY <2>1 DEF SidOfName
<1> QED BY <1>2, <1>3

(* A symbol with the next id that is not there yet is entered everywhere. *)
LEMMA IndexInsertListed ==
  ASSUME NEW t \in Tables, NEW n \in Nat, Len(t.symbols) = n + 1, t.maxId >= n + 1,
         Source(t), IndexActive(t),
         Len(t.byId) = t.byIdMax, n <= t.byIdMax, t.byName = 1..n,
         \A sid \in 1..t.byIdMax : t.byId[sid] = IF sid <= n THEN sid ELSE Null
  PROVE  IndexInsert(t).err = "ok" /\ Listed(IndexInsert(t).t)
<1>1. t.byIdMax \in Nat /\ t.byIdMax > 0 /\ t.byId \in Seq(Nat)
  BY DEF Tables, IndexActive
<1>2. /\ Last(t.symbols) = t.symbols[n + 1] /\ t.symbols[n + 1].sid = n + 1
      /\ DOMAIN t.symbols = 1..(n + 1)
      /\ \A i, j \in 1..(n + 1) : t.symbols[i].value = t.symbols[j].value => i = j
  BY SourceIs DEF Last
<1> DEFINE u == IF n + 1 >= t.byIdMax THEN GrowById(t, GrownSize(t)) ELSE t
<1>3. IndexInsert(t) = EnterLast(u)
  BY <1>2 DEF IndexInsert
<1>4. /\ u \in Tables /\ u.symbols = t.symbols /\ u.byName = 1..n /\ u.maxId = t.maxId
      /\ u.byIdMax \in Nat /\ n + 1 <= u.byIdMax
      /\ u.byId \in Seq(Nat) /\ Len(u.byId) = u.byIdMax
      /\ \A sid \in 1..u.byIdMax : u.byId[sid] = IF sid <= n THEN sid ELSE Null
  <2>1. CASE n + 1 >= t.byIdMax
    <3> DEFINE size == GrownSize(t)
               byId == [sid \in 1..(size - 1) |->
                          IF sid \in DOMAIN t.byId THEN t.byId[sid] ELSE Null]
    <3>1. size \in Nat \ {0} /\ size >= 2 * (t.byIdMax + 1)
      BY GrownSizeIs
    <3>2. Same(GrowById(t, size), t)
      BY <3>1, GrowByIdIs
    <3>3. GrowById(t, size) = [t EXCEPT !.byIdMax = size - 1, !.byId = byId]
      <4> HIDE DEF size
      <4> QED BY DEF GrowById, Tables
    <3>4. u = GrowById(t, size)
      BY <2>1
    <3> HIDE DEF size, byId, u
    <3>5. u.byIdMax = size - 1 /\ u.byId = byId /\ u.byName = t.byName
      BY <3>3, <3>4 DEF Tables
    <3>6. u \in Tables /\ u.symbols = t.symbols /\ u.maxId = t.maxId
      BY <3>2, <3>4 DEF Same
    <3>7. size - 1 \in Nat /\ size - 1 >= n + 1 /\ t.byIdMax < size - 1
      BY <1>1, <3>1
    <3>8. DOMAIN t.byId = 1..t.byIdMax
      BY <1>1
    <3>9. ASSUME NEW sid \in 1..(size - 1)
          PROVE  byId[sid] = IF sid <= n THEN sid ELSE Null
      <4>1. byId[sid] = IF sid \in 1..t.byIdMax THEN t.byId[sid] ELSE Null
        BY <3>8 DEF byId
      <4>2. sid <= n => sid \in 1..t.byIdMax
        BY <1>1, <3>7
      <4> QED BY <4>1, <4>2
    <3>10. u.byId \in Seq(Nat) /\ Len(u.byId) = size - 1
      <4>1. u.byId \in Seq(Nat)
        BY <3>6 DEF Tables
      <4>2. DOMAIN u.byId = 1..(size - 1)
        BY <3>5 DEF byId
      <4> QED BY <3>7, <4>1, <4>2
    <3> QED BY <3>5, <3>6, <3>7, <3>9, <3>10
  <2>2. CASE ~(n + 1 >= t.byIdMax)
    <3>1. u = t /\ n + 1 <= t.byIdMax
      BY <1>1, <2>2
    <3> QED BY <1>1, <3>1
  <2> QED BY <2>1, <2>2
<1> HIDE DEF u
<1> DEFINE byId == [u.byId EXCEPT ![n + 1] = n + 1]
           byName == 1..(n + 1)
           v == [u EXCEPT !.byId = byId, !.byName = byName]
<1>5. \A j \in u.byName : u.symbols[j].value # Last(u.symbols).value
  BY <1>2, <1>4
<1>6. EnterLast(u) = [t |-> v, err |-> "ok"]
  <2>1. u.byName \cup {Len(u.symbols)} = byName
    BY <1>4
  <2>2. Len(u.symbols) = n + 1 /\ Last(u.symbols).sid = n + 1
    BY <1>2, <1>4
  <2>3. ~\E j \in u.byName : u.symbols[j].value = Last(u.symbols).value
    BY <1>5
  <2> HIDE DEF byName
  <2> QED BY <1>4, <2>1, <2>2, <2>3 DEF EnterLast, Tables
<1>7. Same(v, u)
  <2>1. EnterLast(u).t = v
    BY <1>6
  <2>2. Same(EnterLast(u).t, u)
    BY <1>4, EnterLastIs
  <2> HIDE DEF v
  <2> QED BY <2>1, <2>2
<1>8. v.byIdMax = u.byIdMax /\ v.byId = byId /\ v.byName = byName
  <2> HIDE DEF byId, byName
  <2> QED BY <1>4 DEF Tables
<1>9. /\ Len(byId) = u.byIdMax
      /\ \A sid \in 1..u.byIdMax : byId[sid] = IF sid <= n + 1 THEN sid ELSE Null
  <2>1. Len(byId) = u.byIdMax
    BY <1>4, SequenceExcept
  <2>2. ASSUME NEW sid \in 1..u.byIdMax
        PROVE  byId[sid] = IF sid <= n + 1 THEN sid ELSE Null
    <3>1. DOMAIN u.byId = 1..u.byIdMax
      BY <1>4
    <3>2. CASE sid = n + 1
      <4>1. byId[sid] = n + 1
        BY <3>1, <3>2
      <4>2. sid <= n + 1
        BY <3>2
      <4> HIDE DEF byId
      <4> QED BY <3>2, <4>1, <4>2
    <3>3. CASE sid # n + 1
      <4>1. byId[sid] = u.byId[sid]
        BY <3>1, <3>3
      <4>2. sid <= n + 1 <=> sid <= n
        BY <1>4, <3>3
      <4> QED BY <1>4, <4>1, <4>2
    <3> QED BY <3>2, <3>3
  <2> QED BY <2>1, <2>2
<1> HIDE DEF byId, v
<1>10. v.symbols = t.symbols /\ v.maxId = t.maxId /\ v \in Tables
  BY <1>4, <1>7 DEF Same
<1>11. Indexed(v)
  BY <1>1, <1>2, <1>4, <1>8, <1>9, <1>10 DEF Indexed, IndexActive
<1>12. Source(v)
  BY <1>10 DEF Source, Numbered
<1>13. Listed(v)
  BY <1>10, <1>11, <1>12 DEF Listed
<1> QED BY <1>3, <1>6, <1>13

-----------------------------------------------------------------------------
(* The next symbol. *)

Absent(name, t) == \A i \in 1..Len(t.symbols) : t.symbols[i].value # name

(* u is t with one more symbol. *)
Gains(u, t, name, home) ==
  /\ Grown(u, t)
  /\ u.symbols = Append(t.symbols, [value |-> name, sid |-> Len(t.symbols) + 1, home |-> home])
  /\ u.maxId = Larger(t.maxId, Len(t.symbols) + 1)

LEMMA LocalAddListed ==
  ASSUME NEW t, Listed(t), NEW name \in Text, Proper(name), Absent(name, t),
         NEW home \in Int, NEW self
  PROVE  LET r == LocalAdd(t, name, Len(t.symbols) + 1, home, self)
         IN r.err = "ok" /\ Listed(r.t) /\ Gains(r.t, t, name, home)
<1> DEFINE n == Len(t.symbols)
           sym == [value |-> name, sid |-> n + 1, home |-> home]
           u == LocalAddUnindexed(t, name, n + 1, home, self).t
           r == LocalAdd(t, name, n + 1, home, self)
<1>1. /\ t \in Tables /\ n \in Nat /\ t.symbols \in Seq(Symbols)
      /\ \A i \in 1..n : t.symbols[i].sid = i /\ Proper(t.symbols[i].value)
      /\ \A i, j \in 1..n : t.symbols[i].value = t.symbols[j].value => i = j
  BY SourceIs DEF Listed, Tables
<1>2. /\ Grown(u, t) /\ u.maxId = Larger(t.maxId, n + 1)
      /\ u.symbols = Append(t.symbols, sym)
      /\ u.byIdMax = t.byIdMax /\ u.byId = t.byId /\ u.byName = t.byName
  BY <1>1, LocalAddUnindexedIs
<1>3. r = IF IndexActive(u) THEN IndexInsert(u) ELSE Ok(u)
  <2>1. LocalAddUnindexed(t, name, n + 1, home, self).err = "ok"
    BY DEF LocalAddUnindexed, Ok
  <2>2. name \notin BadNames
    BY DEF Proper
  <2> HIDE DEF n
  <2> QED BY <2>1, <2>2 DEF LocalAdd, Then
<1> HIDE DEF u, r
<1>4. sym.value = name /\ sym.sid = n + 1
  OBVIOUS
<1> HIDE DEF sym
<1>5. /\ u \in Tables /\ Len(u.symbols) = n + 1 /\ DOMAIN u.symbols = 1..(n + 1)
      /\ u.symbols[n + 1] = sym /\ \A i \in 1..n : u.symbols[i] = t.symbols[i]
  <2>1. u \in Tables
    BY <1>2 DEF Grown
  <2> HIDE DEF n
  <2> QED BY <1>1, <1>2, <2>1 DEF n
<1>6. u.maxId >= n + 1
  <2>1. t.maxId \in Int /\ n + 1 \in Int
    BY <1>1 DEF Tables
  <2> QED BY <1>2, <2>1, LargerIs
<1>7. \A i \in 1..n : t.symbols[i].value # name
  BY DEF Absent
<1>8. Source(u)
  <2> HIDE DEF n
  <2>1. \A i \in 1..(n + 1) : i \in 1..n \/ i = n + 1
    BY <1>1
  <2>2. Numbered(u)
    BY <1>1, <1>4, <1>5, <2>1 DEF Numbered
  <2>3. Distinct(u.symbols)
    BY <1>1, <1>4, <1>5, <1>7, <2>1 DEF Distinct
  <2> QED BY <1>5, <2>2, <2>3 DEF Source
<1>9. r.err = "ok" /\ Listed(r.t) /\ Same(r.t, u)
  <2>1. CASE IndexActive(u)
    <3>1. IndexActive(t)
      BY <1>2, <2>1 DEF IndexActive
    <3>2. /\ Len(t.byId) = t.byIdMax /\ n <= t.byIdMax /\ t.byName = 1..n
          /\ \A sid \in 1..t.byIdMax : t.byId[sid] = IF sid <= n THEN sid ELSE Null
      BY <1>1, <3>1, SourceIs DEF Listed, Indexed
    <3>3. IndexInsert(u).err = "ok" /\ Listed(IndexInsert(u).t)
      <4> HIDE DEF n
      <4> QED BY <1>1, <1>2, <1>5, <1>6, <1>8, <2>1, <3>2, IndexInsertListed
    <3>4. Same(IndexInsert(u).t, u)
      BY <1>5, IndexInsertIs
    <3> QED BY <1>3, <2>1, <3>3, <3>4
  <2>2. CASE ~IndexActive(u)
    <3>1. r.err = "ok" /\ r.t = u
      BY <1>3, <2>2 DEF Ok
    <3>2. Indexed(u)
      BY <1>2, <2>2 DEF Listed, Indexed, IndexActive
    <3>3. Same(u, u)
      BY <1>5, SameReflexive
    <3> QED BY <1>5, <1>6, <1>8, <3>1, <3>2, <3>3 DEF Listed
  <2> QED BY <2>1, <2>2
<1>10. Grown(r.t, t)
  BY <1>1, <1>2, <1>5, <1>9, SameGrown, GrownTransitive
<1>11. r.t.symbols = u.symbols /\ r.t.maxId = u.maxId
  BY <1>9 DEF Same
<1> QED BY <1>2, <1>9, <1>10, <1>11 DEF Gains, r, sym, n

(* Adding a symbol to a table of ids 1..max_id. *)
LEMMA AddSymbolListed ==
  ASSUME NEW t, Listed(t), Dense(t), NEW name \in Text, name \notin BadNames, NEW self \in Int
  PROVE  LET u == AddSymbol(t, name, self).t
         IN /\ Listed(u) /\ Dense(u)
            /\ Same(u, t) \/ (~t.locked /\ Proper(name) /\ Absent(name, t)
                              /\ Gains(u, t, name, self))
<1> DEFINE v == IndexIfLarge(t).t
           found == SidOfName(v, name)
           n == Len(t.symbols)
<1>1. IndexIfLarge(t).err = "ok" /\ Listed(v) /\ Same(v, t)
  BY IndexIfLargeListed
<1>2. t \in Tables /\ n \in Nat /\ t.maxId = n
  BY DEF Listed, Source, Dense, Tables
<1>3. AddSymbol(t, name, self) = AddUnlessFound(v, found, name, self)
  BY <1>1 DEF AddSymbol, Then
<1> HIDE DEF v
<1>4. v.symbols = t.symbols /\ v.maxId = t.maxId /\ v.locked = t.locked /\ v \in Tables
  BY <1>1 DEF Same
<1>5. Dense(v)
  BY <1>4 DEF Dense
<1>6. CASE found # Unknown \/ t.locked
  <2>1. AddSymbol(t, name, self).t = v
    BY <1>3, <1>4, <1>6 DEF AddUnlessFound, Ok, Fails
  <2> QED BY <1>1, <1>5, <2>1
<1>7. CASE found = Unknown /\ ~t.locked
  <2>1. Absent(name, v)
    <3>1. \A i \in 1..n : i # Unknown
      BY <1>2 DEF Unknown
    <3> QED BY <1>1, <1>4, <1>7, <3>1, SidOfNameIs DEF Absent
  <2>2. Proper(name)
    <3>1. found = IF name \in DOMAIN Numerals THEN Numerals[name] ELSE Unknown
      BY <1>1, <2>1, SidOfNameIs DEF Absent
    <3> HIDE DEF found
    <3> QED BY <1>7, <3>1 DEF Proper
  <2> DEFINE r == LocalAdd(v, name, n + 1, self, self)
  <2>3. AddSymbol(t, name, self) = r
    BY <1>2, <1>3, <1>4, <1>7 DEF AddUnlessFound, NextSid
  <2>4. Listed(r.t) /\ Gains(r.t, v, name, self)
    BY <1>1, <1>4, <2>1, <2>2, LocalAddListed
  <2> HIDE DEF r
  <2>5. Gains(r.t, t, name, self)
    <3>1. Grown(v, t)
      BY <1>1, <1>2, SameGrown
    <3>2. Grown(r.t, t)
      BY <1>2, <1>4, <2>4, <3>1, GrownTransitive DEF Gains
    <3> QED BY <1>4, <2>4, <3>2 DEF Gains
  <2>6. Dense(r.t)
    <3>1. r.t.maxId = n + 1
      BY <1>2, <2>5 DEF Gains, Larger
    <3>2. Len(r.t.symbols) = n + 1
      <4>1. t.symbols \in Seq(Symbols)
        BY <1>2 DEF Tables
      <4> QED BY <2>5, <4>1 DEF Gains
    <3>3. DOMAIN r.t.symbols = 1..Len(r.t.symbols) /\ Distinct(r.t.symbols)
          /\ \A i \in 1..Len(r.t.symbols) : r.t.symbols[i].sid = i
      BY <2>4, SourceIs DEF Listed, Source
    <3> QED BY <3>1, <3>2, <3>3 DEF Dense
  <2>7. Absent(name, t)
    BY <1>4, <2>1 DEF Absent
  <2> QED BY <1>7, <2>2, <2>3, <2>4, <2>5, <2>6, <2>7
<1> QED BY <1>6, <1>7

(* Adding one with an id, which is the next. *)
LEMMA AddSymbolAndSidListed ==
  ASSUME NEW t, Listed(t), ~t.locked, NEW name \in Text, Proper(name), NEW home \in Int, NEW self
  PROVE  LET r == AddSymbolAndSid(t, name, Len(t.symbols) + 1, home, self)
         IN /\ Listed(r.t)
            /\ IF Absent(name, t) THEN r.err = "ok" /\ Gains(r.t, t, name, home)
               ELSE r.err = "duplicate" /\ Same(r.t, t)
<1> DEFINE v == IndexIfLarge(t).t
           found == SidOfName(v, name)
           n == Len(t.symbols)
           r == AddSymbolAndSid(t, name, n + 1, home, self)
<1>1. IndexIfLarge(t).err = "ok" /\ Listed(v) /\ Same(v, t)
  BY IndexIfLargeListed
<1>2. t \in Tables /\ n \in Nat
  BY DEF Listed, Source, Tables
<1>3. r = AddUnlessDuplicate(v, found, name, n + 1, home, self)
  BY <1>1 DEF AddSymbolAndSid, Then
<1> HIDE DEF v
<1>4. v.symbols = t.symbols /\ v.maxId = t.maxId /\ v.locked = t.locked /\ v \in Tables
  BY <1>1 DEF Same
<1>5. CASE ~Absent(name, t)
  <2>1. PICK i \in 1..n : t.symbols[i].value = name
    BY <1>5 DEF Absent
  <2>2. found = i
    BY <1>1, <1>4, <2>1, SidOfNameIs
  <2>3. found # n + 1 /\ found # Unknown
    BY <1>2, <2>2 DEF Unknown
  <2>4. r = Fails(v, "duplicate")
    BY <1>3, <2>3 DEF AddUnlessDuplicate
  <2> QED BY <1>1, <1>5, <2>4 DEF Fails
<1>6. CASE Absent(name, t)
  <2>1. found = IF name \in DOMAIN Numerals THEN Numerals[name] ELSE Unknown
    BY <1>1, <1>4, <1>6, SidOfNameIs DEF Absent
  <2>2. found = Unknown
    BY <2>1 DEF Proper
  <2>3. found # n + 1
    BY <1>2, <2>2 DEF Unknown
  <2>4. r = LocalAdd(v, name, n + 1, home, self)
    BY <1>3, <2>2, <2>3 DEF AddUnlessDuplicate
  <2>5. Absent(name, v)
    BY <1>4, <1>6 DEF Absent
  <2>6. r.err = "ok" /\ Listed(r.t) /\ Gains(r.t, v, name, home)
    <3> HIDE DEF r
    <3> QED BY <1>1, <1>4, <2>4, <2>5, LocalAddListed
  <2> HIDE DEF r
  <2>7. Gains(r.t, t, name, home)
    <3>1. Grown(v, t)
      BY <1>1, <1>2, SameGrown
    <3>2. Grown(r.t, t)
      BY <1>2, <1>4, <2>6, <3>1, GrownTransitive DEF Gains
    <3> QED BY <1>4, <2>6, <3>2 DEF Gains
  <2> QED BY <1>6, <2>6, <2>7 DEF r
<1> QED BY <1>5, <1>6

-----------------------------------------------------------------------------
(* The names of a table, and what an import adds to them. *)

ValuesOf(t) == [i \in 1..Len(t.symbols) |-> t.symbols[i].value]

WithName(names, name) ==
  IF \E i \in 1..Len(names) : names[i] = name THEN names ELSE Append(names, name)

(* names with the first maxId of others that are not there already. *)
Merged(names, others, maxId, all) ==
  \E f : /\ f[0] = names /\ f[Len(others)] = all
         /\ \A n \in 1..Len(others) :
              f[n] = IF n > maxId THEN f[n - 1] ELSE WithName(f[n - 1], others[n])

LEMMA ValuesAre ==
  ASSUME NEW t \in Tables
  PROVE  /\ ValuesOf(t) \in Seq(Text) /\ Len(ValuesOf(t)) = Len(t.symbols)
         /\ \A i \in 1..Len(t.symbols) : ValuesOf(t)[i] = t.symbols[i].value
<1>1. Len(t.symbols) \in Nat /\ \A i \in 1..Len(t.symbols) : t.symbols[i] \in Symbols
  BY DEF Tables
<1>2. \A i \in 1..Len(t.symbols) : ValuesOf(t)[i] = t.symbols[i].value
  BY DEF ValuesOf
<1>3. \A i \in 1..Len(t.symbols) : ValuesOf(t)[i] \in Text
  BY <1>1, <1>2 DEF Symbols
<1>4. ValuesOf(t) = [i \in 1..Len(t.symbols) |-> ValuesOf(t)[i]]
  BY DEF ValuesOf
<1> QED BY <1>1, <1>2, <1>3, <1>4, SequenceOf

LEMMA MergedUnique ==
  ASSUME NEW names, NEW others \in Seq(Text), NEW maxId, NEW one, NEW two,
         Merged(names, others, maxId, one), Merged(names, others, maxId, two)
  PROVE  one = two
<1> DEFINE k == Len(others)
           Is(h) == \A n \in 1..k :
                      h[n] = IF n > maxId THEN h[n - 1] ELSE WithName(h[n - 1], others[n])
<1>1. k \in Nat
  OBVIOUS
<1>2. PICK f : f[0] = names /\ f[k] = one /\ Is(f)
  BY DEF Merged
<1>3. PICK g : g[0] = names /\ g[k] = two /\ Is(g)
  BY DEF Merged
<1> HIDE DEF k
<1> DEFINE P == { n \in 0..k : f[n] = g[n] }
<1>4. 0 \in P
  BY <1>1, <1>2, <1>3
<1>5. ASSUME NEW n \in 1..k, n - 1 \in P
      PROVE  n \in P
  <2>1. f[n - 1] = g[n - 1] /\ n \in 0..k
    BY <1>1, <1>5
  <2>2. f[n] = IF n > maxId THEN f[n - 1] ELSE WithName(f[n - 1], others[n])
    BY <1>2
  <2>3. g[n] = IF n > maxId THEN g[n - 1] ELSE WithName(g[n - 1], others[n])
    BY <1>3
  <2> QED BY <2>1, <2>2, <2>3
<1>6. P \in SUBSET (0..k)
  OBVIOUS
<1>7. k \in P
  <2> HIDE DEF P
  <2> QED BY <1>1, <1>4, <1>5, <1>6, UpTo
<1> QED BY <1>2, <1>3, <1>7

LEMMA GainsIs ==
  ASSUME NEW t \in Tables, NEW u, NEW name, NEW home, Gains(u, t, name, home)
  PROVE  /\ u \in Tables /\ Len(u.symbols) = Len(t.symbols) + 1
         /\ u.symbols[Len(t.symbols) + 1].value = name
         /\ u.symbols[Len(t.symbols) + 1].home = home
         /\ \A i \in 1..Len(t.symbols) : u.symbols[i] = t.symbols[i]
         /\ ValuesOf(u) = Append(ValuesOf(t), name)
         /\ u.maxId = Larger(t.maxId, Len(u.symbols)) /\ u.locked = t.locked
<1> DEFINE n == Len(t.symbols)
           sym == [value |-> name, sid |-> n + 1, home |-> home]
<1>1. u \in Tables /\ u.symbols = Append(t.symbols, sym) /\ u.maxId = Larger(t.maxId, n + 1)
      /\ u.locked = t.locked
  BY DEF Gains, Grown
<1>2. n \in Nat /\ t.symbols \in Seq(Symbols)
  BY DEF Tables
<1>3. sym.value = name /\ sym.home = home
  OBVIOUS
<1> HIDE DEF sym
<1>4. /\ Len(u.symbols) = n + 1 /\ u.symbols[n + 1] = sym
      /\ \A i \in 1..n : u.symbols[i] = t.symbols[i]
  BY <1>1, <1>2
<1>5. ValuesOf(u) = Append(ValuesOf(t), name)
  <2>1. /\ ValuesOf(t) \in Seq(Text) /\ Len(ValuesOf(t)) = n
        /\ \A i \in 1..n : ValuesOf(t)[i] = t.symbols[i].value
    BY ValuesAre
  <2>2. /\ ValuesOf(u) \in Seq(Text) /\ Len(ValuesOf(u)) = n + 1
        /\ \A i \in 1..(n + 1) : ValuesOf(u)[i] = u.symbols[i].value
    BY <1>1, <1>4, ValuesAre
  <2> HIDE DEF n
  <2>3. \A i \in 1..(n + 1) : i \in 1..n \/ i = n + 1
    BY <1>2
  <2>4. \A i \in 1..(n + 1) : ValuesOf(u)[i] = IF i <= n THEN ValuesOf(t)[i] ELSE name
    BY <1>2, <1>3, <1>4, <2>1, <2>2, <2>3
  <2>5. ValuesOf(u) = [i \in 1..(n + 1) |-> ValuesOf(u)[i]]
    BY <2>2
  <2>6. Append(ValuesOf(t), name) = [i \in 1..(n + 1) |-> IF i <= n THEN ValuesOf(t)[i] ELSE name]
    <3>1. name \in Text
      <4>1. n + 1 \in 1..(n + 1)
        BY <1>2
      <4> QED BY <1>3, <1>4, <2>2, <4>1
    <3> QED BY <2>1, <3>1, AppendIs
  <2> QED BY <2>4, <2>5, <2>6
<1> QED BY <1>1, <1>3, <1>4, <1>5

LEMMA WithNameIs ==
  ASSUME NEW t \in Tables, NEW name
  PROVE  WithName(ValuesOf(t), name) =
           IF Absent(name, t) THEN Append(ValuesOf(t), name) ELSE ValuesOf(t)
BY ValuesAre DEF WithName, Absent

LEMMA SameValues ==
  ASSUME NEW t, NEW u, Same(u, t)
  PROVE  ValuesOf(u) = ValuesOf(t)
BY DEF Same, ValuesOf

LEMMA CountsAre ==
  ASSUME NEW t \in Tables
  PROVE  Len(t.symbols) \in Nat /\ t.maxId \in Nat
BY DEF Tables

(* acc is where adding the symbols of import to t is after n of them. *)
Adds(acc, t, import, n) ==
  /\ acc.err = "ok" /\ Listed(acc.t) /\ Grown(acc.t, t)
  /\ acc.t.maxId = Larger(t.maxId, Len(acc.t.symbols))
  /\ Len(acc.t.symbols) <= Len(t.symbols) + n
  /\ n <= import.maxId => Len(acc.t.symbols) + acc.duplicates = Len(t.symbols) + n
  /\ \A i \in 1..Len(acc.t.symbols) :
       i > Len(t.symbols) =>
         \E j \in 1..Len(import.symbols) : acc.t.symbols[i].home = import.symbols[j].home

(* The ids fall into place: what the duplicates take off is what they do   *)
(* not add.                                                                *)
LEMMA IncorporateSymbolListed ==
  ASSUME NEW t \in Tables, ~t.locked, NEW import, Source(import), NEW self,
         NEW n \in 1..Len(import.symbols), NEW acc \in Progress, Adds(acc, t, import, n - 1)
  PROVE  LET next == IncorporateSymbol(acc, import.symbols[n], import.maxId, Len(t.symbols), self)
         IN /\ Adds(next, t, import, n)
            /\ ValuesOf(next.t) =
                 IF n > import.maxId THEN ValuesOf(acc.t)
                 ELSE WithName(ValuesOf(acc.t), import.symbols[n].value)
<1> DEFINE sym == import.symbols[n]
           m == Len(acc.t.symbols)
           sid == ImportedSid(sym, Len(t.symbols), acc.duplicates)
           r == AddSymbolAndSid(acc.t, sym.value, sid, sym.home, self)
           next == IncorporateSymbol(acc, sym, import.maxId, Len(t.symbols), self)
<1>1. /\ import \in Tables /\ Len(import.symbols) \in Nat /\ sym.sid = n /\ Proper(sym.value)
      /\ sym.value \in Text /\ sym.home \in Int
  BY SourceIs
<1>2. /\ acc.t \in Tables /\ acc.duplicates \in Nat /\ m \in Nat /\ Len(t.symbols) \in Nat
      /\ import.maxId \in Nat /\ t.maxId \in Nat /\ n \in Nat
  <2>1. acc.t \in Tables /\ acc.duplicates \in Nat
    BY DEF Progress
  <2>2. n \in Nat
    BY <1>1
  <2> QED BY <1>1, <2>1, <2>2, CountsAre
<1>2a. Listed(acc.t) /\ ~acc.t.locked
  BY DEF Adds, Grown
<1> HIDE DEF sym
<1>3. CASE n > import.maxId
  <2>1. next = acc
    BY <1>1, <1>3 DEF IncorporateSymbol
  <2>2. Adds(acc, t, import, n)
    <3>1. ~(n <= import.maxId) /\ m <= Len(t.symbols) + n
      BY <1>2, <1>3 DEF Adds
    <3> QED BY <3>1 DEF Adds
  <2> QED BY <1>3, <2>1, <2>2 DEF sym
<1>4. CASE ~(n > import.maxId)
  <2>1. n - 1 <= import.maxId /\ n <= import.maxId
    BY <1>2, <1>4
  <2>2. m + acc.duplicates = Len(t.symbols) + n - 1
    BY <1>2, <2>1 DEF Adds
  <2>3. sid = m + 1
    <3> HIDE DEF m
    <3> QED BY <1>1, <1>2, <2>2 DEF ImportedSid
  <2> HIDE DEF sid
  <2>4. /\ Listed(r.t)
        /\ IF Absent(sym.value, acc.t) THEN r.err = "ok" /\ Gains(r.t, acc.t, sym.value, sym.home)
           ELSE r.err = "duplicate" /\ Same(r.t, acc.t)
    <3> DEFINE v == AddSymbolAndSid(acc.t, sym.value, m + 1, sym.home, self)
    <3>1. /\ Listed(v.t)
          /\ IF Absent(sym.value, acc.t)
               THEN v.err = "ok" /\ Gains(v.t, acc.t, sym.value, sym.home)
               ELSE v.err = "duplicate" /\ Same(v.t, acc.t)
      BY <1>1, <1>2a, AddSymbolAndSidListed
    <3>2. r = v
      BY <2>3
    <3> HIDE DEF r, v
    <3> QED BY <3>1, <3>2
  <2>5. next = Incorporated(acc, r)
    BY <1>1, <1>4 DEF IncorporateSymbol, Adds, sid
  <2> HIDE DEF r, next
  <2>6. CASE Absent(sym.value, acc.t)
    <3>1. r.err = "ok" /\ Gains(r.t, acc.t, sym.value, sym.home)
      BY <2>4, <2>6
    <3>2. next.err = "ok" /\ next.t = r.t /\ next.duplicates = acc.duplicates
      BY <2>5, <3>1 DEF Incorporated
    <3>3. /\ Len(r.t.symbols) = m + 1 /\ r.t.symbols[m + 1].home = sym.home
          /\ \A i \in 1..m : r.t.symbols[i] = acc.t.symbols[i]
          /\ ValuesOf(r.t) = Append(ValuesOf(acc.t), sym.value)
          /\ r.t.maxId = Larger(acc.t.maxId, m + 1)
      <4>1. Len(r.t.symbols) = m + 1 /\ r.t.maxId = Larger(acc.t.maxId, Len(r.t.symbols))
        BY <1>2, <3>1, GainsIs
      <4>2. /\ r.t.symbols[m + 1].home = sym.home
            /\ \A i \in 1..m : r.t.symbols[i] = acc.t.symbols[i]
        <5> DEFINE value == sym.value
                   home == sym.home
        <5>1. Gains(r.t, acc.t, value, home) /\ acc.t \in Tables
          BY <1>2, <3>1
        <5> HIDE DEF value, home
        <5>2. /\ r.t.symbols[m + 1].home = home
              /\ \A i \in 1..m : r.t.symbols[i] = acc.t.symbols[i]
          BY <5>1, GainsIs
        <5> QED BY <5>2 DEF home
      <4>3. ValuesOf(r.t) = Append(ValuesOf(acc.t), sym.value)
        BY <1>2, <3>1, GainsIs
      <4> HIDE DEF m
      <4> QED BY <4>1, <4>2, <4>3
    <3>4. Grown(r.t, t)
      <4>1. Grown(r.t, acc.t) /\ Grown(acc.t, t)
        BY <3>1 DEF Gains, Adds
      <4> QED BY <4>1, GrownTransitive
    <3>5. r.t.maxId = Larger(t.maxId, m + 1)
      <4>1. acc.t.maxId = Larger(t.maxId, m)
        BY DEF Adds
      <4> HIDE DEF m
      <4> QED BY <1>2, <3>3, <4>1 DEF Larger
    <3>6. ASSUME NEW i \in 1..(m + 1), i > Len(t.symbols)
          PROVE  \E j \in 1..Len(import.symbols) : r.t.symbols[i].home = import.symbols[j].home
      <4>1. CASE i \in 1..m
        BY <3>3, <3>6, <4>1 DEF Adds
      <4>2. CASE i = m + 1
        BY <3>3, <4>2 DEF sym
      <4> HIDE DEF m
      <4> QED BY <1>2, <4>1, <4>2
    <3>7. m + 1 <= Len(t.symbols) + n /\ m + 1 + acc.duplicates = Len(t.symbols) + n
      <4> HIDE DEF m
      <4> QED BY <1>2, <2>2, SMTT(30)
    <3>8. Adds(next, t, import, n)
      BY <2>4, <3>2, <3>3, <3>4, <3>5, <3>6, <3>7 DEF Adds
    <3>9. ValuesOf(next.t) = WithName(ValuesOf(acc.t), sym.value)
      BY <1>2, <2>6, <3>2, <3>3, WithNameIs
    <3> QED BY <1>4, <3>8, <3>9 DEF sym, next
  <2>7. CASE ~Absent(sym.value, acc.t)
    <3>1. r.err = "duplicate" /\ Same(r.t, acc.t)
      BY <2>4, <2>7
    <3>2. next.err = "ok" /\ next.t = r.t /\ next.duplicates = acc.duplicates + 1
      BY <2>5, <3>1 DEF Incorporated
    <3>3. r.t.symbols = acc.t.symbols /\ r.t.maxId = acc.t.maxId
      BY <3>1 DEF Same
    <3>4. Grown(r.t, t)
      <4>1. Grown(r.t, acc.t) /\ Grown(acc.t, t)
        BY <1>2, <3>1, SameGrown DEF Adds
      <4> QED BY <4>1, GrownTransitive
    <3>5. m <= Len(t.symbols) + n /\ m + (acc.duplicates + 1) = Len(t.symbols) + n
      <4> DEFINE d == acc.duplicates
                 l == Len(t.symbols)
      <4>1. m \in Nat /\ d \in Nat /\ l \in Nat /\ n \in Nat /\ m + d = l + n - 1
        BY <1>2, <2>2
      <4> HIDE DEF m, d, l
      <4>2. m <= l + n /\ m + (d + 1) = l + n
        BY <4>1
      <4> QED BY <4>2 DEF d, l
    <3>6. Adds(next, t, import, n)
      BY <2>4, <3>2, <3>3, <3>4, <3>5 DEF Adds
    <3>7. ValuesOf(next.t) = WithName(ValuesOf(acc.t), sym.value)
      BY <1>2, <2>7, <3>1, <3>2, SameValues, WithNameIs
    <3> QED BY <1>4, <3>6, <3>7 DEF sym, next
  <2> QED BY <2>6, <2>7
<1> QED BY <1>3, <1>4

LEMMA IncorporateAfterListed ==
  ASSUME NEW t, Listed(t), ~t.locked, NEW import, Source(import), NEW self, NEW after,
         IncorporateAfter(t, import, self, after)
  PROVE  \A n \in 0..Len(import.symbols) : after[n] \in Progress /\ Adds(after[n], t, import, n)
<1> DEFINE k == Len(import.symbols)
           P == { n \in 0..k : Adds(after[n], t, import, n) }
<1>1. t \in Tables /\ Len(t.symbols) \in Nat /\ t.maxId \in Nat /\ t.maxId >= Len(t.symbols)
  BY DEF Listed, Source, Tables
<1>2. k \in Nat
  BY SourceIs
<1>3. /\ after \in [0..k -> Progress] /\ after[0] = [t |-> t, err |-> "ok", duplicates |-> 0]
      /\ \A n \in 1..k : after[n] = IncorporateSymbol(after[n - 1], import.symbols[n],
                                                      import.maxId, Len(t.symbols), self)
  BY DEF IncorporateAfter
<1>4. 0 \in P
  <2>1. after[0].t = t /\ after[0].err = "ok" /\ after[0].duplicates = 0
    BY <1>3
  <2>2. Grown(t, t) /\ Larger(t.maxId, Len(t.symbols)) = t.maxId
    BY <1>1, SameReflexive DEF Larger
  <2>3. Len(t.symbols) <= Len(t.symbols) + 0 /\ Len(t.symbols) + 0 = Len(t.symbols)
        /\ \A i \in 1..Len(t.symbols) : ~(i > Len(t.symbols))
    BY <1>1
  <2>4. Adds(after[0], t, import, 0)
    BY <2>1, <2>2, <2>3 DEF Adds
  <2> QED BY <1>2, <2>4
<1>5. ASSUME NEW n \in 1..k, n - 1 \in P
      PROVE  n \in P
  <2>1. after[n - 1] \in Progress /\ Adds(after[n - 1], t, import, n - 1)
    BY <1>2, <1>3, <1>5
  <2>2. Adds(after[n], t, import, n)
    BY <1>1, <1>3, <2>1, IncorporateSymbolListed
  <2> QED BY <1>2, <2>2
<1>6. P \in SUBSET (0..k)
  OBVIOUS
<1>7. P = 0..k
  <2> HIDE DEF P, k
  <2> QED BY <1>2, <1>4, <1>5, <1>6, UpTo
<1> QED BY <1>3, <1>7

LEMMA IncorporateListed ==
  ASSUME NEW t, Listed(t), ~t.locked, NEW import, Source(import), NEW self
  PROVE  LET r == Incorporate(t, import, self)
         IN /\ r.err = "ok" /\ Listed(r.t) /\ Grown(r.t, t)
            /\ r.t.maxId = Larger(t.maxId, Len(r.t.symbols))
            /\ Merged(ValuesOf(t), ValuesOf(import), import.maxId, ValuesOf(r.t))
            /\ \A i \in 1..Len(r.t.symbols) :
                 i > Len(t.symbols) => \E j \in 1..Len(import.symbols) :
                                         r.t.symbols[i].home = import.symbols[j].home
<1> DEFINE k == Len(import.symbols)
           r == Incorporate(t, import, self)
<1>1. t \in Tables /\ import \in Tables /\ k \in Nat
  BY SourceIs DEF Listed, Source
<1>2. PICK after : IncorporateAfter(t, import, self, after) /\ r = after[k]
  BY <1>1, IncorporateUnfolds
<1>3. \A n \in 0..k : after[n] \in Progress /\ Adds(after[n], t, import, n)
  BY <1>2, IncorporateAfterListed
<1>4. Adds(r, t, import, k)
  BY <1>1, <1>2, <1>3
<1>5. Merged(ValuesOf(t), ValuesOf(import), import.maxId, ValuesOf(r.t))
  <2> DEFINE f == [n \in 0..k |-> ValuesOf(after[n].t)]
  <2>1. Len(ValuesOf(import)) = k /\ \A n \in 1..k : ValuesOf(import)[n] = import.symbols[n].value
    BY <1>1, ValuesAre
  <2>2. f[0] = ValuesOf(t) /\ f[k] = ValuesOf(r.t)
    BY <1>1, <1>2 DEF IncorporateAfter
  <2>3. ASSUME NEW n \in 1..k
        PROVE  f[n] = IF n > import.maxId THEN f[n - 1]
                      ELSE WithName(f[n - 1], ValuesOf(import)[n])
    <3>1. f[n] = ValuesOf(after[n].t) /\ f[n - 1] = ValuesOf(after[n - 1].t)
      BY <1>1
    <3>2. after[n - 1] \in Progress /\ Adds(after[n - 1], t, import, n - 1)
      BY <1>1, <1>3
    <3>3. after[n] = IncorporateSymbol(after[n - 1], import.symbols[n], import.maxId,
                                       Len(t.symbols), self)
      BY <1>2 DEF IncorporateAfter
    <3> DEFINE next == IncorporateSymbol(after[n - 1], import.symbols[n], import.maxId,
                                         Len(t.symbols), self)
    <3>4. ValuesOf(next.t) =
            IF n > import.maxId THEN ValuesOf(after[n - 1].t)
            ELSE WithName(ValuesOf(after[n - 1].t), import.symbols[n].value)
      BY <1>1, <3>2, IncorporateSymbolListed, ZenonT(60)
    <3>5. after[n] = next
      BY <3>3
    <3> HIDE DEF f, next
    <3> QED BY <2>1, <3>1, <3>4, <3>5
  <2> HIDE DEF f, k
  <2>4. \E g : /\ g[0] = ValuesOf(t) /\ g[k] = ValuesOf(r.t)
               /\ \A n \in 1..k : g[n] = IF n > import.maxId THEN g[n - 1]
                                         ELSE WithName(g[n - 1], ValuesOf(import)[n])
    BY <2>2, <2>3
  <2> QED BY <2>1, <2>4 DEF Merged
<1> QED BY <1>4, <1>5 DEF Adds

-----------------------------------------------------------------------------
(* New tables and whole tables with ids 1, 2, ... *)

LEMMA DenseIs ==
  ASSUME NEW t, Listed(t), t.maxId = Len(t.symbols)
  PROVE  Dense(t)
<1>1. DOMAIN t.symbols = 1..Len(t.symbols) /\ Source(t)
  BY SourceIs DEF Listed
<1> QED BY <1>1, SourceIs DEF Dense, Source

LEMMA SystemNamesAre ==
  /\ SystemNames \in Seq(Text) /\ Len(SystemNames) \in Nat /\ Len(SystemNames) > 0
  /\ Len(SystemNames) <= Threshold /\ DOMAIN SystemNames = 1..Len(SystemNames)
  /\ \A i \in 1..Len(SystemNames) : SystemNames[i] \in Text /\ Proper(SystemNames[i])
  /\ \A i, j \in 1..Len(SystemNames) : SystemNames[i] = SystemNames[j] => i = j
<1>1. /\ SystemNames \in Seq(Text) /\ SystemNames # <<>> /\ Len(SystemNames) <= Threshold
      /\ \A i, j \in DOMAIN SystemNames : SystemNames[i] = SystemNames[j] => i = j
      /\ \A i \in DOMAIN SystemNames : SystemNames[i] \notin BadNames \cup DOMAIN Numerals
  BY SymbolTableAssumption
<1>2. /\ Len(SystemNames) \in Nat /\ Len(SystemNames) > 0
      /\ DOMAIN SystemNames = 1..Len(SystemNames)
      /\ \A i \in 1..Len(SystemNames) : SystemNames[i] \in Text
  BY <1>1
<1> QED BY <1>1, <1>2 DEF Proper

LEMMA SystemSource ==
  /\ Source(SystemTable) /\ SystemTable.maxId = Len(SystemNames)
  /\ Len(SystemTable.symbols) = Len(SystemNames)
  /\ ValuesOf(SystemTable) = SystemNames
  /\ \A i \in 1..Len(SystemTable.symbols) : SystemTable.symbols[i].home = System
<1> DEFINE n == Len(SystemNames)
<1>1. /\ SystemTable \in Tables /\ SystemTable.maxId = n
      /\ SystemTable.symbols = [i \in 1..n |->
                                  [value |-> SystemNames[i], sid |-> i, home |-> System]]
  BY SystemTableIs, SystemNamesAre
<1>2. n \in Nat /\ SystemNames = [i \in 1..n |-> SystemNames[i]]
  BY SystemNamesAre
<1> HIDE DEF n
<1>3. Len(SystemTable.symbols) = n
  BY <1>1, <1>2
<1>4. DOMAIN SystemTable.symbols = 1..n
  BY <1>1
<1>5. \A i \in 1..n : /\ SystemTable.symbols[i].value = SystemNames[i]
                     /\ SystemTable.symbols[i].sid = i
                     /\ SystemTable.symbols[i].home = System
  BY <1>1
<1>6. Numbered(SystemTable) /\ Distinct(SystemTable.symbols)
  BY <1>3, <1>4, <1>5, SystemNamesAre DEF Numbered, Distinct, n
<1>7. ValuesOf(SystemTable) = SystemNames
  BY <1>2, <1>3, <1>5 DEF ValuesOf
<1> QED BY <1>1, <1>3, <1>5, <1>6, <1>7 DEF Source, n

(* Below the threshold no lookup builds an index. *)
LEMMA AddSymbolAndSidPlain ==
  ASSUME NEW t \in Tables, ~IndexActive(t), t.maxId <= Threshold,
         NEW name \in Text, NEW sid \in Int, NEW home \in Int, NEW self
  PROVE  ~IndexActive(AddSymbolAndSid(t, name, sid, home, self).t)
<1> DEFINE found == SidOfName(t, name)
           v == AddUnlessDuplicate(t, found, name, sid, home, self)
           u == LocalAddUnindexed(t, name, sid, home, self).t
<1>1. IndexIfLarge(t) = Ok(t)
  <2>1. t.maxId \in Nat /\ Threshold \in Nat
    BY SymbolTableAssumption DEF Tables
  <2>2. ~(t.maxId > Threshold)
    BY <2>1
  <2> QED BY <2>2 DEF IndexIfLarge
<1>2. AddSymbolAndSid(t, name, sid, home, self) = IF t.locked THEN Fails(t, "immutable") ELSE v
  BY <1>1 DEF AddSymbolAndSid, Then, Ok
<1>3. ~IndexActive(LocalAdd(t, name, sid, home, self).t)
  <2>1. CASE name \in BadNames
    <3> DEFINE w == [t EXCEPT !.symbols =
                       Append(@, [value |-> None, sid |-> Unknown, home |-> Nowhere])]
    <3>1. LocalAdd(t, name, sid, home, self).t = w
      BY <2>1 DEF LocalAdd, Fails
    <3>2. w.byIdMax = t.byIdMax
      BY DEF Tables
    <3> QED BY <3>1, <3>2 DEF IndexActive
  <2>2. CASE name \notin BadNames
    <3>1. u.byIdMax = t.byIdMax
      BY DEF LocalAddUnindexed, Ok, Tables
    <3>2. LocalAddUnindexed(t, name, sid, home, self).err = "ok"
      BY DEF LocalAddUnindexed, Ok
    <3>3. LocalAdd(t, name, sid, home, self) = IF IndexActive(u) THEN IndexInsert(u) ELSE Ok(u)
      BY <2>2, <3>2 DEF LocalAdd, Then
    <3> HIDE DEF u
    <3>4. ~IndexActive(u)
      BY <3>1 DEF IndexActive
    <3> QED BY <3>3, <3>4 DEF Ok
  <2> QED BY <2>1, <2>2
<1> HIDE DEF found
<1>4. ~IndexActive(v.t)
  BY <1>3 DEF AddUnlessDuplicate, Ok, Fails
<1>5. Fails(t, "immutable").t = t
  BY DEF Fails
<1> HIDE DEF v
<1> QED BY <1>2, <1>4, <1>5

LEMMA EmptyTableListed ==
  ASSUME NEW owner \in Owners
  PROVE  LET t == [EmptyTable EXCEPT !.owner = owner]
         IN /\ Listed(t) /\ ~t.locked /\ ~IndexActive(t) /\ t.maxId = 0
            /\ Len(t.symbols) = 0 /\ t.owner = owner /\ t.name = None /\ t.version = 0
            /\ t.imports = <<>>
<1> DEFINE t == [EmptyTable EXCEPT !.owner = owner]
<1>1. t \in Tables
  BY EmptyTableIs
<1>2. /\ t.symbols = <<>> /\ ~t.locked /\ t.maxId = 0 /\ t.byIdMax = 0 /\ t.byId = <<>>
      /\ t.byName = {} /\ t.owner = owner /\ t.name = None /\ t.version = 0
      /\ t.imports = <<>>
  BY DEF EmptyTable
<1> HIDE DEF t
<1>3. Len(t.symbols) = 0 /\ DOMAIN t.symbols = {}
  BY <1>2
<1>4. Numbered(t) /\ Distinct(t.symbols)
  BY <1>3 DEF Numbered, Distinct
<1>5. ~IndexActive(t)
  BY <1>2 DEF IndexActive
<1>6. Indexed(t)
  BY <1>2, <1>5 DEF Indexed
<1>7. Listed(t)
  BY <1>1, <1>2, <1>3, <1>4, <1>6 DEF Listed, Source
<1> QED BY <1>2, <1>3, <1>5, <1>7 DEF t

(* Names merged into none are all of them. *)
LEMMA MergedAll ==
  ASSUME NEW all, Merged(<<>>, SystemNames, Len(SystemNames), all)
  PROVE  all = SystemNames
<1> DEFINE k == Len(SystemNames)
           f == [n \in 0..k |-> [i \in 1..n |-> SystemNames[i]]]
<1>1. /\ k \in Nat /\ SystemNames \in Seq(Text) /\ SystemNames = [i \in 1..k |-> SystemNames[i]]
      /\ \A i \in 1..k : SystemNames[i] \in Text
      /\ \A i, j \in 1..k : SystemNames[i] = SystemNames[j] => i = j
  BY SystemNamesAre
<1> HIDE DEF k
<1>2. ASSUME NEW n \in 1..k
      PROVE  f[n] = WithName(f[n - 1], SystemNames[n])
  <2> DEFINE s == f[n - 1]
  <2>1. n \in Nat /\ n - 1 \in Nat /\ n - 1 \in 0..k /\ n \in 0..k
    BY <1>1
  <2>2. s = [i \in 1..(n - 1) |-> SystemNames[i]]
    BY <2>1
  <2>3. \A i \in 1..(n - 1) : i \in 1..k
    BY <1>1, <2>1
  <2>4. f[n] = [i \in 1..n |-> SystemNames[i]]
    BY <2>1
  <2> HIDE DEF s, f
  <2>5. s \in Seq(Text) /\ Len(s) = n - 1
    <3>1. \A i \in 1..(n - 1) : s[i] \in Text
      BY <1>1, <2>2, <2>3
    <3>2. s = [i \in 1..(n - 1) |-> s[i]]
      BY <2>2
    <3> QED BY <2>1, <3>1, <3>2, SequenceOf
  <2>6. \A i \in 1..Len(s) : s[i] # SystemNames[n]
    BY <1>1, <2>1, <2>2, <2>3, <2>5
  <2>7. WithName(s, SystemNames[n]) = Append(s, SystemNames[n])
    BY <2>6 DEF WithName
  <2>8. Append(s, SystemNames[n]) =
          [i \in 1..((n - 1) + 1) |-> IF i <= n - 1 THEN s[i] ELSE SystemNames[n]]
    BY <1>1, <2>5, AppendIs
  <2>9. \A i \in 1..n : (IF i <= n - 1 THEN s[i] ELSE SystemNames[n]) = SystemNames[i]
    <3>1. \A i \in 1..n : i \in 1..(n - 1) \/ i = n
      BY <2>1
    <3> QED BY <2>1, <2>2, <3>1
  <2>10. (n - 1) + 1 = n
    BY <2>1
  <2> QED BY <2>4, <2>7, <2>8, <2>9, <2>10 DEF s
<1>3. f[0] = <<>> /\ f[k] = SystemNames
  <2>1. f[0] = [i \in 1..0 |-> SystemNames[i]] /\ f[k] = [i \in 1..k |-> SystemNames[i]]
    BY <1>1
  <2>2. [i \in 1..0 |-> SystemNames[i]] = <<>>
    BY EmptyIs
  <2> QED BY <1>1, <2>1, <2>2
<1> HIDE DEF f
<1>4. \A n \in 1..k : ~(n > k)
  BY <1>1
<1>5. Merged(<<>>, SystemNames, k, SystemNames)
  <2>1. \A n \in 1..k : f[n] = IF n > k THEN f[n - 1] ELSE WithName(f[n - 1], SystemNames[n])
    BY <1>2, <1>4
  <2> QED BY <1>3, <2>1 DEF Merged, k
<1> QED BY <1>1, <1>5, MergedUnique DEF k

LEMMA OpenTablePlain ==
  ASSUME NEW owner \in Owners, NEW self
  PROVE  ~IndexActive(OpenTable(owner, self))
<1> DEFINE t == [EmptyTable EXCEPT !.owner = owner]
           k == Len(SystemTable.symbols)
<1>1. Listed(t) /\ ~t.locked /\ ~IndexActive(t) /\ t.maxId = 0 /\ Len(t.symbols) = 0
  BY EmptyTableListed
<1>2. OpenTable(owner, self) = Incorporate(t, SystemTable, self).t
  BY DEF OpenTable
<1> HIDE DEF t
<1>3. t \in Tables /\ Source(SystemTable) /\ SystemTable \in Tables /\ k = Len(SystemNames)
      /\ k \in Nat /\ k <= Threshold /\ Threshold \in Nat
  BY <1>1, SystemSource, SystemNamesAre, SymbolTableAssumption DEF Listed, Source
<1>4. PICK after : /\ IncorporateAfter(t, SystemTable, self, after)
                   /\ Incorporate(t, SystemTable, self) = after[k]
  BY <1>3, IncorporateUnfolds
<1>5. \A n \in 0..k : after[n] \in Progress /\ Adds(after[n], t, SystemTable, n)
  BY <1>1, <1>3, <1>4, IncorporateAfterListed
<1> DEFINE P == { n \in 0..k : ~IndexActive(after[n].t) }
<1>6. 0 \in P
  <2>1. after[0].t = t
    BY <1>4 DEF IncorporateAfter
  <2> QED BY <1>1, <1>3, <2>1
<1>7. ASSUME NEW n \in 1..k, n - 1 \in P
      PROVE  n \in P
  <2> DEFINE acc == after[n - 1]
             sym == SystemTable.symbols[n]
             sid == ImportedSid(sym, Len(t.symbols), acc.duplicates)
             r == AddSymbolAndSid(acc.t, sym.value, sid, sym.home, self)
  <2>1. acc \in Progress /\ Adds(acc, t, SystemTable, n - 1) /\ ~IndexActive(acc.t)
        /\ n \in 0..k /\ n \in Nat /\ n - 1 \in Nat
    BY <1>3, <1>5, <1>7
  <2>2. acc.t \in Tables /\ acc.duplicates \in Nat
    BY <2>1 DEF Progress
  <2>3. acc.t.maxId <= Threshold
    <3> DEFINE m == Len(acc.t.symbols)
    <3>1. acc.t.maxId = Larger(0, m) /\ m <= 0 + (n - 1)
      BY <1>1, <2>1 DEF Adds
    <3>2. m \in Nat
      BY <2>2, CountsAre
    <3> HIDE DEF m
    <3>3. Larger(0, m) <= Threshold
      BY <1>3, <2>1, <3>1, <3>2 DEF Larger
    <3> QED BY <3>1, <3>3
  <2>4. sym.value \in Text /\ sym.home \in Int /\ sym.sid = n
    BY <1>3, SourceIs
  <2>5. after[n] = IncorporateSymbol(acc, sym, SystemTable.maxId, Len(t.symbols), self)
    BY <1>4 DEF IncorporateAfter
  <2> HIDE DEF acc, sym
  <2>6. sid \in Int
    BY <1>1, <2>1, <2>2, <2>4 DEF ImportedSid
  <2> HIDE DEF sid
  <2>7. ~IndexActive(r.t)
    BY <2>1, <2>2, <2>3, <2>4, <2>6, AddSymbolAndSidPlain
  <2>8. after[n] = acc \/ after[n] = Incorporated(acc, r)
    BY <2>5 DEF IncorporateSymbol, sid
  <2> HIDE DEF r
  <2>9. Incorporated(acc, r).t = r.t
    BY DEF Incorporated
  <2> QED BY <2>1, <2>7, <2>8, <2>9
<1>8. P \in SUBSET (0..k)
  OBVIOUS
<1> HIDE DEF k
<1>9. k \in P
  <2> HIDE DEF P
  <2> QED BY <1>3, <1>6, <1>7, <1>8, UpTo
<1> QED BY <1>2, <1>4, <1>9

(* A new table has the system symbols. *)
LEMMA OpenTableListed ==
  ASSUME NEW owner \in Owners, NEW self
  PROVE  LET t == OpenTable(owner, self)
         IN /\ Listed(t) /\ Dense(t) /\ ~t.locked /\ ~IndexActive(t)
            /\ t.name = None /\ t.version = 0 /\ t.imports = <<>> /\ t.owner = owner
            /\ Len(t.symbols) = Len(SystemNames) /\ t.maxId = Len(SystemNames)
            /\ ValuesOf(t) = SystemNames
            /\ \A i \in 1..Len(t.symbols) : t.symbols[i].home = System
<1> DEFINE empty == [EmptyTable EXCEPT !.owner = owner]
           r == Incorporate(empty, SystemTable, self)
           t == OpenTable(owner, self)
<1>1. /\ Listed(empty) /\ ~empty.locked /\ empty.maxId = 0 /\ Len(empty.symbols) = 0
  BY EmptyTableListed
<1>2. t = r.t
  BY DEF OpenTable
<1>3. /\ t \in Tables
      /\ t.name = None /\ t.version = 0 /\ ~t.locked /\ t.imports = <<>>
      /\ t.owner = owner
  BY OpenTableIs
<1>4. ~IndexActive(t)
  BY OpenTablePlain
<1> HIDE DEF empty, t
<1>5. Source(SystemTable) /\ SystemTable.maxId = Len(SystemNames)
      /\ ValuesOf(SystemTable) = SystemNames
      /\ \A i \in 1..Len(SystemTable.symbols) : SystemTable.symbols[i].home = System
  BY SystemSource
<1>6. /\ Listed(r.t) /\ r.t.maxId = Larger(empty.maxId, Len(r.t.symbols))
      /\ Merged(ValuesOf(empty), ValuesOf(SystemTable), SystemTable.maxId, ValuesOf(r.t))
      /\ \A i \in 1..Len(r.t.symbols) :
           i > Len(empty.symbols) => \E j \in 1..Len(SystemTable.symbols) :
                                   r.t.symbols[i].home = SystemTable.symbols[j].home
  BY <1>1, <1>5, IncorporateListed
<1> HIDE DEF r
<1>7. ValuesOf(empty) = <<>>
  <2>1. ValuesOf(empty) \in Seq(Text) /\ Len(ValuesOf(empty)) = 0
    BY <1>1, ValuesAre DEF Listed, Source
  <2> QED BY <2>1, EmptyIs
<1>8. ValuesOf(t) = SystemNames
  BY <1>2, <1>5, <1>6, <1>7, MergedAll
<1>9. Len(t.symbols) = Len(SystemNames) /\ Len(t.symbols) \in Nat
  BY <1>3, <1>8, ValuesAre, CountsAre
<1>10. t.maxId = Len(SystemNames)
  BY <1>1, <1>2, <1>6, <1>9 DEF Larger
<1>11. Dense(t)
  BY <1>2, <1>6, <1>9, <1>10, DenseIs
<1>12. \A i \in 1..Len(t.symbols) : t.symbols[i].home = System
  <2>1. \A i \in 1..Len(t.symbols) : i > 0
    BY <1>9
  <2> QED BY <1>1, <1>2, <1>5, <1>6, <2>1
<1> QED BY <1>2, <1>3, <1>4, <1>6, <1>8, <1>9, <1>10, <1>11, <1>12 DEF t

LEMMA SubstituteSource ==
  ASSUME NEW import \in Imports
  PROVE  LET t == Substitute(import)
         IN /\ Source(t)
            /\ \A i \in 1..Len(t.symbols) : t.symbols[i].home = System
<1> DEFINE u == OpenTable(None, Nowhere)
           t == Substitute(import)
<1>1. Listed(u) /\ \A i \in 1..Len(u.symbols) : u.symbols[i].home = System
  BY OpenTableListed DEF Owners
<1>2. t = [u EXCEPT !.name = import.name, !.version = import.version, !.maxId = import.maxId]
  BY DEF Substitute
<1>3. t \in Tables
  BY SubstituteIs
<1> HIDE DEF u, t
<1>4. u \in Tables
  BY <1>1 DEF Listed, Source
<1>5. t.symbols = u.symbols
  BY <1>2, <1>4 DEF Tables
<1>6. Source(t)
  BY <1>1, <1>3, <1>5 DEF Listed, Source, Numbered
<1> QED BY <1>1, <1>5, <1>6 DEF t

(* What an import adds to a table. *)
LEMMA ImportSymbolTableListed ==
  ASSUME NEW t, Listed(t), Dense(t), ~t.locked, NEW import, Source(import), NEW self
  PROVE  LET u == ImportSymbolTable(t, import, self).t
         IN /\ Listed(u) /\ Dense(u)
            /\ u.name = t.name /\ u.version = t.version /\ u.owner = t.owner
            /\ u.imports = Append(t.imports, ImportOf(import))
            /\ Len(u.symbols) >= Len(t.symbols)
            /\ \A i \in 1..Len(t.symbols) : u.symbols[i] = t.symbols[i]
            /\ Merged(ValuesOf(t), ValuesOf(import), import.maxId, ValuesOf(u))
            /\ \A i \in 1..Len(u.symbols) :
                 i > Len(t.symbols) => \E j \in 1..Len(import.symbols) :
                                         u.symbols[i].home = import.symbols[j].home
<1> DEFINE imports == Append(t.imports, ImportOf(import))
           v == [t EXCEPT !.imports = imports]
           r == Incorporate(v, import, self)
           u == ImportSymbolTable(t, import, self).t
<1>1. t \in Tables /\ import \in Tables /\ t.maxId = Len(t.symbols) /\ t.imports \in Seq(Imports)
  BY DEF Listed, Source, Dense, Tables
<1>2. imports \in Seq(Imports)
  BY <1>1, ImportOfIs
<1>3. u = r.t
  <2>1. v = [t EXCEPT !.imports = Append(@, ImportOf(import))]
    BY <1>1 DEF Tables
  <2> QED BY <2>1 DEF ImportSymbolTable
<1> HIDE DEF imports, u
<1>4. /\ v \in Tables /\ v.name = t.name /\ v.version = t.version /\ v.locked = t.locked
      /\ v.owner = t.owner /\ v.symbols = t.symbols /\ v.imports = imports
      /\ v.maxId = t.maxId /\ v.byIdMax = t.byIdMax /\ v.byId = t.byId /\ v.byName = t.byName
  BY <1>1, <1>2 DEF Tables
<1> HIDE DEF v
<1>5. Listed(v) /\ ~v.locked
  BY <1>4 DEF Listed, Source, Numbered, Indexed, IndexActive
<1>6. ValuesOf(v) = ValuesOf(t)
  BY <1>4 DEF ValuesOf
<1>7. /\ Listed(r.t) /\ Grown(r.t, v)
      /\ r.t.maxId = Larger(v.maxId, Len(r.t.symbols))
      /\ Merged(ValuesOf(v), ValuesOf(import), import.maxId, ValuesOf(r.t))
      /\ \A i \in 1..Len(r.t.symbols) :
           i > Len(v.symbols) => \E j \in 1..Len(import.symbols) :
                                   r.t.symbols[i].home = import.symbols[j].home
  BY <1>5, IncorporateListed
<1> HIDE DEF r
<1>8. Len(u.symbols) \in Nat /\ Len(t.symbols) \in Nat /\ Len(u.symbols) >= Len(t.symbols)
  BY <1>1, <1>3, <1>4, <1>7, CountsAre DEF Grown
<1>9. u.maxId = Len(u.symbols)
  BY <1>1, <1>3, <1>4, <1>7, <1>8 DEF Larger
<1>10. Dense(u)
  BY <1>3, <1>7, <1>9, DenseIs
<1>11. /\ u.name = t.name /\ u.version = t.version /\ u.owner = t.owner /\ u.imports = imports
       /\ \A i \in 1..Len(t.symbols) : u.symbols[i] = t.symbols[i]
  BY <1>3, <1>4, <1>7 DEF Grown
<1> QED BY <1>3, <1>4, <1>6, <1>7, <1>8, <1>10, <1>11 DEF u, imports

LEMMA LockTableListed ==
  ASSUME NEW t, Listed(t), Dense(t)
  PROVE  LET u == LockTable(t).t
         IN /\ Listed(u) /\ Dense(u)
            /\ u.name = t.name /\ u.version = t.version /\ u.maxId = t.maxId
            /\ u.imports = t.imports /\ u.symbols = t.symbols /\ u.owner = t.owner
<1> DEFINE u == LockTable(t).t
<1>1. t \in Tables /\ Source(t) /\ t.maxId >= Len(t.symbols)
  BY DEF Listed, Source
<1>2. /\ u \in Tables
      /\ u.name = t.name /\ u.version = t.version /\ u.maxId = t.maxId
      /\ u.imports = t.imports /\ u.symbols = t.symbols /\ u.owner = t.owner
  BY <1>1, LockTableIs, Zenon
<1>3. Indexed(u)
  <2>1. CASE t.locked
    BY <2>1 DEF LockTable, Ok, Listed
  <2>2. CASE ~t.locked
    <3> DEFINE r == IF t.maxId > 0 THEN InitIndices(t) ELSE Ok(t)
               v == [r.t EXCEPT !.locked = TRUE]
    <3>1. r.err = "ok" /\ Listed(r.t)
      BY InitIndicesListed DEF Ok
    <3>2. u = IF r.err = "ok" THEN v ELSE r.t
      BY <2>2 DEF LockTable, Then, Ok
    <3> HIDE DEF r, u
    <3>3. r.t \in Tables
      BY <3>1 DEF Listed, Source
    <3>4. /\ v.byIdMax = r.t.byIdMax /\ v.byId = r.t.byId /\ v.byName = r.t.byName
          /\ v.symbols = r.t.symbols
      BY <3>3 DEF Tables
    <3> HIDE DEF v
    <3>5. Indexed(v)
      BY <3>1, <3>4 DEF Listed, Indexed, IndexActive
    <3> QED BY <3>1, <3>2, <3>5
  <2> QED BY <2>1, <2>2
<1> HIDE DEF u
<1>4. Listed(u)
  BY <1>1, <1>2, <1>3 DEF Listed, Source, Numbered
<1>5. Dense(u)
  BY <1>2, <1>4, DenseIs DEF Dense
<1> QED BY <1>2, <1>4, <1>5 DEF u

LEMMA CloneTableListed ==
  ASSUME NEW t, Listed(t), Dense(t), NEW owner \in Owners, NEW from, NEW to \in Int
  PROVE  LET u == CloneTable(t, owner, from, to)
         IN Listed(u) /\ Dense(u) /\ ValuesOf(u) = ValuesOf(t)
<1> DEFINE u == CloneTable(t, owner, from, to)
<1>1. t \in Tables /\ Source(t) /\ t.maxId = Len(t.symbols)
  BY DEF Listed, Source, Dense
<1>2. /\ u \in Tables /\ u.maxId = t.maxId /\ u.byIdMax = 0 /\ u.byId = <<>> /\ u.byName = {}
      /\ Len(u.symbols) = Len(t.symbols)
      /\ \A i \in 1..Len(t.symbols) : /\ u.symbols[i].value = t.symbols[i].value
                                     /\ u.symbols[i].sid = t.symbols[i].sid
  <2>1. /\ u \in Tables /\ u.maxId = t.maxId /\ u.byIdMax = 0 /\ u.byId = <<>> /\ u.byName = {}
        /\ Len(u.symbols) = Len(t.symbols)
    BY <1>1, CloneTableIs
  <2>2. \A i \in 1..Len(t.symbols) : u.symbols[i].value = t.symbols[i].value
    BY <1>1, CloneTableIs
  <2>3. \A i \in 1..Len(t.symbols) : u.symbols[i].sid = t.symbols[i].sid
    BY <1>1, CloneTableIs
  <2> QED BY <2>1, <2>2, <2>3
<1> HIDE DEF u
<1>3. DOMAIN u.symbols = 1..Len(t.symbols) /\ Len(t.symbols) \in Nat
  <2>1. u.symbols \in Seq(Symbols) /\ t.symbols \in Seq(Symbols)
    BY <1>1, <1>2 DEF Tables
  <2> QED BY <1>2, <2>1
<1>4. Numbered(u) /\ Distinct(u.symbols)
  BY <1>1, <1>2, <1>3, SourceIs DEF Numbered, Distinct
<1>5. Indexed(u)
  BY <1>2 DEF Indexed, IndexActive
<1>6. Listed(u)
  BY <1>1, <1>2, <1>3, <1>4, <1>5 DEF Listed, Source
<1>7. Dense(u)
  BY <1>1, <1>2, <1>6, DenseIs
<1>8. ValuesOf(u) = ValuesOf(t)
  BY <1>2 DEF ValuesOf
<1> QED BY <1>6, <1>7, <1>8 DEF u
=============================================================================
