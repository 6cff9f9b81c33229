----------------------- MODULE IonBinaryWriterProofs -----------------------
(***************************************************************************)
(* Theorems of IonBinaryWriter: the patch stack mirrors the calls, and     *)
(* symbol ids stay what they were written as.                              *)
(***************************************************************************)
EXTENDS IonBinaryWriter, IonWriterProofs, FiniteSetTheorems, WellFoundedInduction, TLAPS

-----------------------------------------------------------------------------
(* What the operators of the writer do to the patch stack. *)

WriterOK(v) ==
  /\ IsRecord(v, {"patches", "stack", "lob", "inStruct", "anns", "limit"})
  /\ IsSeq(v.patches) /\ IsSeq(v.anns)
  /\ v.stack \in Seq(1..Len(v.patches))
  /\ \A i \in 1..Len(v.patches) : IsRecord(v.patches[i], {"type", "length"})
  /\ v.limit = Unset => v.anns = <<>>

(* u has the patch stack and the flags of v; its pending annotations too.   *)
Mirrors(u, v) ==
  WriterOK(u) /\ StackTypes(u) = StackTypes(v) /\ u.lob = v.lob /\ u.inStruct = v.inStruct
Keeps(u, v) == Mirrors(u, v) /\ u.anns = v.anns /\ u.limit = v.limit

(* The fields that the stack depends on. *)
LEMMA SameFields ==
  ASSUME NEW u, NEW v, WriterOK(v),
         IsRecord(u, {"patches", "stack", "lob", "inStruct", "anns", "limit"}),
         u.patches = v.patches, u.stack = v.stack, u.lob = v.lob, u.inStruct = v.inStruct,
         u.anns = v.anns, u.limit = v.limit
  PROVE  Keeps(u, v)
<1>1. WriterOK(u)
  BY DEF WriterOK
<1>2. StackTypes(u) = StackTypes(v)
  BY DEF StackTypes
<1> QED BY <1>1, <1>2 DEF Keeps, Mirrors

LEMMA KeepsFields ==
  ASSUME NEW v, WriterOK(v)
  PROVE  /\ Keeps(v, v)
         /\ \A tok : Keeps(Emit(v, tok), v)
         /\ \A toks : Keeps(EmitAll(v, toks), v)
         /\ \A t : Keeps(WithTable(v, t), v)
         /\ \A name : Keeps(AddSymbol(v, name), v)
         /\ Keeps(WithSymbols(v), v)
         /\ Keeps(ClearFieldName(v), v)
<1> DEFINE F == {"patches", "stack", "lob", "inStruct", "anns", "limit"}
<1>1. IsRecord(v, F)
  BY DEF WriterOK
<1>2. Keeps(v, v)
  BY <1>1, SameFields
<1>3. ASSUME NEW tok
      PROVE  Keeps(Emit(v, tok), v)
  BY <1>1, SameFields DEF Emit, IsRecord
<1>4. ASSUME NEW toks
      PROVE  Keeps(EmitAll(v, toks), v)
  BY <1>1, SameFields DEF EmitAll, IsRecord
<1>5. ASSUME NEW t
      PROVE  Keeps(WithTable(v, t), v)
  BY <1>1, SameFields DEF WithTable, IsRecord
<1>6. \A name : Keeps(AddSymbol(v, name), v)
  BY <1>5 DEF AddSymbol
<1>7. Keeps(WithSymbols(v), v)
  BY <1>2, <1>5 DEF WithSymbols
<1>8. Keeps(ClearFieldName(v), v)
  BY <1>1, SameFields DEF ClearFieldName, IsRecord
<1> QED BY <1>2, <1>3, <1>4, <1>5, <1>6, <1>7, <1>8

LEMMA InStructSet ==
  ASSUME NEW v, WriterOK(v), NEW inStruct, NEW u, u = [v EXCEPT !.inStruct = inStruct]
  PROVE  /\ WriterOK(u) /\ StackTypes(u) = StackTypes(v) /\ u.inStruct = inStruct
         /\ u.lob = v.lob /\ u.anns = v.anns /\ u.limit = v.limit
<1>1. /\ IsRecord(u, {"patches", "stack", "lob", "inStruct", "anns", "limit"})
      /\ u.patches = v.patches /\ u.stack = v.stack /\ u.inStruct = inStruct
      /\ u.lob = v.lob /\ u.anns = v.anns /\ u.limit = v.limit
  BY DEF WriterOK, IsRecord
<1>2. WriterOK(u) /\ StackTypes(u) = StackTypes(v)
  BY <1>1 DEF WriterOK, StackTypes
<1> QED BY <1>1, <1>2

LEMMA LobSet ==
  ASSUME NEW v, WriterOK(v), NEW lob, NEW u, u = [v EXCEPT !.lob = lob]
  PROVE  /\ WriterOK(u) /\ StackTypes(u) = StackTypes(v) /\ u.lob = lob
         /\ u.inStruct = v.inStruct /\ u.anns = v.anns /\ u.limit = v.limit
<1>1. /\ IsRecord(u, {"patches", "stack", "lob", "inStruct", "anns", "limit"})
      /\ u.patches = v.patches /\ u.stack = v.stack /\ u.lob = lob
      /\ u.inStruct = v.inStruct /\ u.anns = v.anns /\ u.limit = v.limit
  BY DEF WriterOK, IsRecord
<1>2. WriterOK(u) /\ StackTypes(u) = StackTypes(v)
  BY <1>1 DEF WriterOK, StackTypes
<1> QED BY <1>1, <1>2

LEMMA PatchLengthsKeeps ==
  ASSUME NEW v, WriterOK(v), NEW n
  PROVE  Keeps(PatchLengths(v, n), v)
<1>1. CASE v.stack = <<>>
  BY <1>1, KeepsFields DEF PatchLengths
<1>2. CASE v.stack # <<>>
  <2> DEFINE p == Head(v.stack)
             u == PatchLengths(v, n)
  <2>1. v.stack \in Seq(1..Len(v.patches)) /\ Len(v.patches) \in Nat
    BY DEF WriterOK, IsSeq
  <2>2. p \in 1..Len(v.patches)
    BY <1>2, <2>1
  <2>3. u = [v EXCEPT !.patches[p].length = @ + n]
    BY <1>2 DEF PatchLengths
  <2>4. /\ IsRecord(u, {"patches", "stack", "lob", "inStruct", "anns", "limit"})
        /\ u.stack = v.stack /\ u.lob = v.lob /\ u.inStruct = v.inStruct
        /\ u.anns = v.anns /\ u.limit = v.limit
        /\ u.patches = [v.patches EXCEPT ![p].length = @ + n]
    BY <2>3 DEF WriterOK, IsRecord
  <2>5. /\ v.patches = [i \in 1..Len(v.patches) |-> v.patches[i]]
        /\ \A i \in 1..Len(v.patches) : IsRecord(v.patches[i], {"type", "length"})
    BY DEF WriterOK, IsSeq
  <2>6. u.patches = [i \in 1..Len(v.patches) |->
                       IF i = p THEN [v.patches[p] EXCEPT !.length = @ + n] ELSE v.patches[i]]
    BY <2>2, <2>4, <2>5
  <2>7. Len(u.patches) = Len(v.patches)
    BY <2>1, <2>6
  <2>8. ASSUME NEW i \in 1..Len(v.patches)
        PROVE  IsRecord(u.patches[i], {"type", "length"}) /\ u.patches[i].type = v.patches[i].type
    <3>1. CASE i = p
      <4>1. u.patches[i] = [v.patches[i] EXCEPT !.length = @ + n]
        BY <2>6, <2>8, <3>1
      <4> QED BY <2>5, <2>8, <4>1 DEF IsRecord
    <3>2. CASE i # p
      BY <2>5, <2>6, <2>8, <3>2
    <3> QED BY <3>1, <3>2
  <2>9. IsSeq(u.patches)
    BY <2>1, <2>6, <2>7 DEF IsSeq
  <2>10. WriterOK(u)
    BY <2>1, <2>4, <2>7, <2>8, <2>9 DEF WriterOK
  <2>11. StackTypes(u) = StackTypes(v)
    <3>1. ASSUME NEW k \in 1..Len(v.stack)
          PROVE  v.stack[Len(v.stack) + 1 - k] \in 1..Len(v.patches)
      BY <2>1
    <3> QED BY <2>4, <2>8, <3>1 DEF StackTypes
  <2> QED BY <2>4, <2>10, <2>11 DEF Keeps, Mirrors
<1> QED BY <1>1, <1>2

LEMMA KeepsTransitive ==
  ASSUME NEW u, NEW v, NEW x, Keeps(u, v), Keeps(v, x)
  PROVE  Keeps(u, x)
BY DEF Keeps, Mirrors

LEMMA ClearAnnotationsMirrors ==
  ASSUME NEW v, WriterOK(v)
  PROVE  Mirrors(ClearAnnotations(v), v) /\ ClearAnnotations(v).anns = <<>>
<1> DEFINE u == ClearAnnotations(v)
<1>1. /\ IsRecord(u, {"patches", "stack", "lob", "inStruct", "anns", "limit"})
      /\ u.patches = v.patches /\ u.stack = v.stack /\ u.lob = v.lob
      /\ u.inStruct = v.inStruct /\ u.anns = <<>> /\ u.limit = v.limit
  BY DEF WriterOK, IsRecord, ClearAnnotations
<1>2. IsSeq(u.anns)
  BY <1>1 DEF IsSeq
<1> HIDE DEF u
<1>3. WriterOK(u)
  BY <1>1, <1>2 DEF WriterOK
<1>4. StackTypes(u) = StackTypes(v)
  BY <1>1 DEF StackTypes
<1> QED BY <1>1, <1>3, <1>4 DEF Mirrors, u

(* The types on the stack, one more on top or the top one gone. *)
Raised(types, type) ==
  [k \in 1..(Len(types) + 1) |-> IF k = Len(types) + 1 THEN type ELSE types[k]]
Lowered(types) == [k \in 1..(Len(types) - 1) |-> types[k]]

LEMMA StackTypesLen ==
  ASSUME NEW v, WriterOK(v)
  PROVE  /\ Len(StackTypes(v)) = Len(v.stack) /\ Len(v.stack) \in Nat
         /\ IsSeq(StackTypes(v))
         /\ StackTypes(v) = [k \in 1..Len(v.stack) |->
                               v.patches[v.stack[Len(v.stack) + 1 - k]].type]
         /\ v.stack = <<>> <=> Len(v.stack) = 0
         /\ v.stack # <<>> => StackTypes(v)[Len(v.stack)] = Top(v).type
<1>1. v.stack \in Seq(1..Len(v.patches)) /\ Len(v.stack) \in Nat
  BY DEF WriterOK
<1>2. StackTypes(v) = [k \in 1..Len(v.stack) |->
                         v.patches[v.stack[Len(v.stack) + 1 - k]].type]
  BY DEF StackTypes
<1>3. Len(StackTypes(v)) = Len(v.stack)
  BY <1>1, <1>2
<1>4. v.stack = <<>> <=> Len(v.stack) = 0
  BY <1>1
<1>5. ASSUME v.stack # <<>>
      PROVE  StackTypes(v)[Len(v.stack)] = Top(v).type
  <2>1. Len(v.stack) \in 1..Len(v.stack) /\ Len(v.stack) + 1 - Len(v.stack) = 1
    BY <1>1, <1>4, <1>5
  <2>2. Head(v.stack) = v.stack[1]
    BY <1>1, <1>5
  <2> QED BY <1>2, <2>1, <2>2 DEF Top
<1>6. IsSeq(StackTypes(v))
  BY <1>1, <1>2, <1>3 DEF IsSeq
<1> QED BY <1>1, <1>2, <1>3, <1>4, <1>5, <1>6

LEMMA PushStack ==
  ASSUME NEW v, WriterOK(v), NEW type
  PROVE  /\ WriterOK(Push(v, type)) /\ StackTypes(Push(v, type)) = Raised(StackTypes(v), type)
         /\ Push(v, type).lob = v.lob /\ Push(v, type).inStruct = v.inStruct
         /\ Push(v, type).anns = v.anns /\ Push(v, type).limit = v.limit
<1> DEFINE u == Push(v, type)
           e == [offset |-> v.pos, type |-> type, length |-> 0]
           m == Len(v.patches)
           n == Len(v.stack)
<1>1. /\ IsSeq(v.patches) /\ m \in Nat /\ v.stack \in Seq(1..m) /\ n \in Nat
      /\ IsRecord(v, {"patches", "stack", "lob", "inStruct", "anns", "limit"})
  BY DEF WriterOK, IsSeq
<1>2. /\ IsRecord(u, {"patches", "stack", "lob", "inStruct", "anns", "limit"})
      /\ u.patches = Append(v.patches, e) /\ u.stack = <<m + 1>> \o v.stack
      /\ u.lob = v.lob /\ u.inStruct = v.inStruct /\ u.anns = v.anns /\ u.limit = v.limit
  BY <1>1 DEF Push, IsRecord
<1>3. IsRecord(e, {"type", "length"}) /\ e.type = type
  BY DEF IsRecord
<1> HIDE DEF u, e
<1>4. /\ IsSeq(u.patches) /\ Len(u.patches) = m + 1 /\ u.patches[m + 1] = e
      /\ \A i \in 1..m : u.patches[i] = v.patches[i]
  BY <1>1, <1>2, AppendIsSeq
<1>5. v.stack \in Seq(1..(m + 1)) /\ m + 1 \in 1..(m + 1)
  BY <1>1
<1>6. /\ <<m + 1>> \o v.stack \in Seq(1..(m + 1)) /\ Len(<<m + 1>> \o v.stack) = n + 1
      /\ (<<m + 1>> \o v.stack)[1] = m + 1
  BY <1>1, <1>5
<1>7. \A k \in 2..(n + 1) : (<<m + 1>> \o v.stack)[k] = v.stack[k - 1]
  BY <1>1, <1>5
<1>8. \A i \in 1..Len(u.patches) : IsRecord(u.patches[i], {"type", "length"})
  <2>1. ASSUME NEW i \in 1..(m + 1)
        PROVE  i = m + 1 \/ i \in 1..m
    BY <1>1
  <2> QED BY <1>3, <1>4, <2>1 DEF WriterOK
<1>9. WriterOK(u)
  BY <1>2, <1>4, <1>6, <1>8 DEF WriterOK
<1>10. StackTypes(u) = Raised(StackTypes(v), type)
  <2>1. /\ Len(StackTypes(v)) = n
        /\ StackTypes(v) = [k \in 1..n |-> v.patches[v.stack[n + 1 - k]].type]
    BY StackTypesLen
  <2>2. StackTypes(u) = [k \in 1..(n + 1) |-> u.patches[u.stack[n + 2 - k]].type]
    <3>1. Len(u.stack) = n + 1 /\ \A k \in 1..(n + 1) : Len(u.stack) + 1 - k = n + 2 - k
      BY <1>1, <1>2, <1>6
    <3> QED BY <3>1 DEF StackTypes
  <2>3. ASSUME NEW k \in 1..(n + 1)
        PROVE  u.patches[u.stack[n + 2 - k]].type
                 = IF k = n + 1 THEN type ELSE StackTypes(v)[k]
    <3>1. CASE k = n + 1
      <4>1. n + 2 - k = 1
        BY <1>1, <3>1
      <4> QED BY <1>2, <1>3, <1>4, <1>6, <3>1, <4>1
    <3>2. CASE k # n + 1
      <4>1. k \in 1..n /\ n + 2 - k \in 2..(n + 1) /\ (n + 2 - k) - 1 = n + 1 - k
            /\ n + 1 - k \in 1..n
        BY <1>1, <3>2
      <4>2. v.stack[n + 1 - k] \in 1..m
        <5>1. v.stack \in Seq(1..m) /\ n + 1 - k \in 1..Len(v.stack)
          BY <1>1, <4>1
        <5>2. ASSUME NEW S, NEW s \in Seq(S), NEW i \in 1..Len(s)
              PROVE  s[i] \in S
          OBVIOUS
        <5> QED BY <5>1, <5>2
      <4>3. u.stack[n + 2 - k] = v.stack[n + 1 - k]
        BY <1>2, <1>7, <4>1
      <4>4. PICK i \in 1..m : i = v.stack[n + 1 - k]
        BY <4>2
      <4>5. u.patches[i].type = v.patches[i].type
        BY <1>4
      <4>6. StackTypes(v)[k] = v.patches[i].type
        BY <2>1, <4>1, <4>4
      <4>7. u.stack[n + 2 - k] = i /\ k # n + 1
        BY <3>2, <4>3, <4>4
      <4> QED BY <4>5, <4>6, <4>7
    <3> QED BY <3>1, <3>2
  <2>4. \A k \in 1..(n + 1) :
          u.patches[u.stack[n + 2 - k]].type = IF k = n + 1 THEN type ELSE StackTypes(v)[k]
    BY <2>3
  <2> HIDE DEF n
  <2> QED BY <2>1, <2>2, <2>4 DEF Raised
<1> QED BY <1>2, <1>9, <1>10 DEF u

LEMMA PopStack ==
  ASSUME NEW v, WriterOK(v), v.stack # <<>>
  PROVE  /\ WriterOK(Pop(v)) /\ StackTypes(Pop(v)) = Lowered(StackTypes(v))
         /\ Pop(v).lob = v.lob /\ Pop(v).inStruct = v.inStruct
         /\ Pop(v).anns = v.anns /\ Pop(v).limit = v.limit
<1> DEFINE u == [v EXCEPT !.stack = Tail(@)]
           n == Len(v.stack)
<1>1. /\ v.stack \in Seq(1..Len(v.patches)) /\ n \in Nat /\ n > 0
      /\ IsRecord(v, {"patches", "stack", "lob", "inStruct", "anns", "limit"})
  BY StackTypesLen DEF WriterOK
<1>2. /\ IsRecord(u, {"patches", "stack", "lob", "inStruct", "anns", "limit"})
      /\ u.patches = v.patches /\ u.stack = Tail(v.stack)
      /\ u.lob = v.lob /\ u.inStruct = v.inStruct /\ u.anns = v.anns /\ u.limit = v.limit
  BY <1>1 DEF IsRecord
<1>3. Tail(v.stack) \in Seq(1..Len(v.patches)) /\ Len(Tail(v.stack)) = n - 1
  <2>1. ASSUME NEW S, NEW s \in Seq(S), s # <<>>
        PROVE  Tail(s) \in Seq(S) /\ Len(Tail(s)) = Len(s) - 1
    BY <2>1
  <2> QED BY <1>1, <2>1
<1>4. \A k \in 1..(n - 1) : Tail(v.stack)[k] = v.stack[k + 1]
  BY <1>1
<1>5. Pop(v) = PatchLengths(u, PatchDown(Top(v).length))
  BY DEF Pop
<1> HIDE DEF u
<1>6. WriterOK(u)
  BY <1>2, <1>3 DEF WriterOK
<1>7. StackTypes(u) = Lowered(StackTypes(v))
  <2>1. /\ Len(StackTypes(v)) = n
        /\ StackTypes(v) = [k \in 1..n |-> v.patches[v.stack[n + 1 - k]].type]
    BY StackTypesLen
  <2>2. StackTypes(u) = [k \in 1..(n - 1) |-> u.patches[u.stack[n - k]].type]
    <3>1. Len(u.stack) + 1 = n
      BY <1>1, <1>2, <1>3
    <3> QED BY <1>2, <1>3, <3>1 DEF StackTypes
  <2>3. ASSUME NEW k \in 1..(n - 1)
        PROVE  u.patches[u.stack[n - k]].type = StackTypes(v)[k]
    <3>1. n - k \in 1..(n - 1) /\ (n - k) + 1 = n + 1 - k /\ k \in 1..n
      BY <1>1
    <3> QED BY <1>2, <1>4, <2>1, <3>1
  <2> QED BY <2>1, <2>2, <2>3 DEF Lowered
<1>8. Keeps(Pop(v), u)
  BY <1>5, <1>6, PatchLengthsKeeps
<1> QED BY <1>2, <1>7, <1>8 DEF Keeps, Mirrors

LEMMA CloseValueStack ==
  ASSUME NEW v, WriterOK(v)
  PROVE  /\ WriterOK(CloseValue(v))
         /\ StackTypes(CloseValue(v)) =
              IF Len(StackTypes(v)) # 0 /\ StackTypes(v)[Len(StackTypes(v))] = "uta"
                THEN Lowered(StackTypes(v)) ELSE StackTypes(v)
         /\ CloseValue(v).lob = v.lob /\ CloseValue(v).inStruct = v.inStruct
         /\ CloseValue(v).anns = v.anns /\ CloseValue(v).limit = v.limit
<1>1. CASE v.stack # <<>> /\ Top(v).type = "uta"
  BY <1>1, PopStack, StackTypesLen DEF CloseValue
<1>2. CASE ~(v.stack # <<>> /\ Top(v).type = "uta")
  <2>1. CloseValue(v) = v
    BY <1>2 DEF CloseValue
  <2> QED BY <1>2, <2>1, StackTypesLen
<1> QED BY <1>1, <1>2

-----------------------------------------------------------------------------
(* Where the patches of the open values are on the stack. *)

LEMMA AnnotatedFinite ==
  ASSUME NEW open, NEW k \in Nat
  PROVE  /\ IsFiniteSet({ j \in 1..k : open[j].anns # <<>> })
         /\ Cardinality({ j \in 1..k : open[j].anns # <<>> }) \in Nat
<1> DEFINE A == { j \in 1..k : open[j].anns # <<>> }
<1>1. A \in SUBSET (1..k) /\ IsFiniteSet(1..k)
  BY FS_Interval
<1> HIDE DEF A
<1>2. IsFiniteSet(A)
  BY <1>1, FS_Subset
<1>3. Cardinality(A) \in Nat
  BY <1>2, FS_CardinalityType
<1> QED BY <1>2, <1>3 DEF A

LEMMA PatchesOfNext ==
  ASSUME NEW open, NEW i \in Nat
  PROVE  /\ PatchesOf(open, i) \in Nat /\ i <= PatchesOf(open, i)
         /\ PatchesOf(open, 0) = 0
         /\ PatchesOf(open, i + 1) =
              PatchesOf(open, i) + IF open[i + 1].anns # <<>> THEN 2 ELSE 1
<1> DEFINE A(k) == { j \in 1..k : open[j].anns # <<>> }
<1>1. IsFiniteSet(A(i)) /\ Cardinality(A(i)) \in Nat
  BY AnnotatedFinite
<1>2. A(0) = {}
  OBVIOUS
<1>3. Cardinality(A(0)) = 0
  BY <1>2, FS_EmptySet
<1>4. Cardinality(A(i + 1)) = Cardinality(A(i)) + IF open[i + 1].anns # <<>> THEN 1 ELSE 0
  <2>1. CASE open[i + 1].anns # <<>>
    <3>1. A(i + 1) = A(i) \cup {i + 1} /\ i + 1 \notin A(i)
      BY <2>1
    <3> HIDE DEF A
    <3>2. Cardinality(A(i) \cup {i + 1}) = Cardinality(A(i)) + 1
      BY <1>1, <3>1, FS_AddElement
    <3> QED BY <2>1, <3>1, <3>2
  <2>2. CASE open[i + 1].anns = <<>>
    <3>1. A(i + 1) = A(i)
      BY <2>2
    <3> HIDE DEF A
    <3> QED BY <1>1, <2>2, <3>1
  <2> QED BY <2>1, <2>2
<1>5. /\ PatchesOf(open, i) = i + Cardinality(A(i))
      /\ PatchesOf(open, i + 1) = (i + 1) + Cardinality(A(i + 1))
      /\ PatchesOf(open, 0) = 0 + Cardinality(A(0))
  BY DEF PatchesOf
<1> HIDE DEF A
<1> QED BY <1>1, <1>3, <1>4, <1>5

LEMMA PatchesOfMonotonic ==
  ASSUME NEW open, NEW i \in Nat, NEW n \in Nat, i <= n
  PROVE  PatchesOf(open, i) <= PatchesOf(open, n)
<1> DEFINE A(k) == { j \in 1..k : open[j].anns # <<>> }
<1>1. IsFiniteSet(A(n)) /\ Cardinality(A(n)) \in Nat /\ Cardinality(A(i)) \in Nat
  BY AnnotatedFinite
<1>2. A(i) \in SUBSET A(n)
  OBVIOUS
<1>4. PatchesOf(open, i) = i + Cardinality(A(i)) /\ PatchesOf(open, n) = n + Cardinality(A(n))
  BY DEF PatchesOf
<1> HIDE DEF A
<1>3. Cardinality(A(i)) <= Cardinality(A(n))
  BY <1>1, <1>2, FS_Subset
<1> QED BY <1>1, <1>3, <1>4

(* All that the proofs below need of it. *)
LEMMA PatchesOfFacts ==
  ASSUME NEW open, NEW n \in Nat
  PROVE  /\ PatchesOf(open, 0) = 0
         /\ \A i \in 0..n : PatchesOf(open, i) \in Nat /\ i <= PatchesOf(open, i)
                            /\ PatchesOf(open, i) <= PatchesOf(open, n)
         /\ \A i \in 1..n :
              /\ PatchesOf(open, i) =
                   PatchesOf(open, i - 1) + IF open[i].anns # <<>> THEN 2 ELSE 1
              /\ PatchesOf(open, i) \in 1..PatchesOf(open, n)
              /\ open[i].anns # <<>> => PatchesOf(open, i) - 1 \in 1..PatchesOf(open, n)
<1>1. PatchesOf(open, 0) = 0 /\ PatchesOf(open, n) \in Nat
  BY PatchesOfNext
<1>2. ASSUME NEW i \in 0..n
      PROVE  PatchesOf(open, i) \in Nat /\ i <= PatchesOf(open, i)
             /\ PatchesOf(open, i) <= PatchesOf(open, n)
  <2>1. i \in Nat /\ i <= n
    OBVIOUS
  <2>2. PatchesOf(open, i) \in Nat /\ i <= PatchesOf(open, i)
    BY <2>1, PatchesOfNext
  <2>3. PatchesOf(open, i) <= PatchesOf(open, n)
    BY <2>1, PatchesOfMonotonic
  <2> QED BY <2>2, <2>3
<1>3. ASSUME NEW i \in 1..n
      PROVE  PatchesOf(open, i) =
               PatchesOf(open, i - 1) + IF open[i].anns # <<>> THEN 2 ELSE 1
  <2>1. PICK k \in Nat : i = k + 1 /\ k = i - 1
    OBVIOUS
  <2>2. PatchesOf(open, k + 1) = PatchesOf(open, k) + IF open[k + 1].anns # <<>> THEN 2 ELSE 1
    BY PatchesOfNext
  <2> QED BY <2>1, <2>2
<1>4. ASSUME NEW i \in 1..n
      PROVE  /\ PatchesOf(open, i) \in 1..PatchesOf(open, n)
             /\ open[i].anns # <<>> => PatchesOf(open, i) - 1 \in 1..PatchesOf(open, n)
  <2>1. PICK k \in 0..n : k = i - 1
    OBVIOUS
  <2>2. PatchesOf(open, k) \in Nat
    BY <1>2
  <2>3. PatchesOf(open, i) = PatchesOf(open, k) + IF open[i].anns # <<>> THEN 2 ELSE 1
    BY <1>3, <2>1
  <2>4. PatchesOf(open, i) \in Nat /\ PatchesOf(open, i) <= PatchesOf(open, n)
    BY <1>2
  <2> QED BY <1>1, <2>2, <2>3, <2>4
<1> QED BY <1>1, <1>2, <1>3, <1>4

LEMMA PatchesOfSame ==
  ASSUME NEW open, NEW more, NEW n \in Nat, \A j \in 1..n : more[j].anns = open[j].anns
  PROVE  \A i \in 0..n : PatchesOf(more, i) = PatchesOf(open, i)
<1>1. ASSUME NEW i \in 0..n
      PROVE  { j \in 1..i : more[j].anns # <<>> } = { j \in 1..i : open[j].anns # <<>> }
  <2>1. \A j \in 1..i : j \in 1..n
    OBVIOUS
  <2> QED BY <2>1
<1> QED BY <1>1 DEF PatchesOf

(* more is open, but for the bodies of the values. *)
SameOpen(more, open) ==
  /\ Len(more) = Len(open)
  /\ \A i \in 1..Len(open) : more[i].type = open[i].type /\ more[i].anns = open[i].anns

LEMMA HoldsSame ==
  ASSUME NEW types, NEW open, NEW more, Len(open) \in Nat, SameOpen(more, open),
         StackHolds(types, open)
  PROVE  StackHolds(types, more)
<1>1. \A i \in 0..Len(open) : PatchesOf(more, i) = PatchesOf(open, i)
  BY PatchesOfSame DEF SameOpen
<1> QED BY <1>1 DEF StackHolds, SameOpen

LEMMA RaisedFacts ==
  ASSUME NEW s, Len(s) \in Nat, NEW type
  PROVE  /\ Len(Raised(s, type)) = Len(s) + 1 /\ Raised(s, type)[Len(s) + 1] = type
         /\ \A k \in 1..Len(s) : Raised(s, type)[k] = s[k]
<1>1. PICK m \in Nat : m = Len(s)
  OBVIOUS
<1>2. Raised(s, type) = [k \in 1..(m + 1) |-> IF k = m + 1 THEN type ELSE s[k]]
  BY <1>1 DEF Raised
<1>3. Len(Raised(s, type)) = m + 1 /\ Raised(s, type)[m + 1] = type
  BY <1>2
<1>4. \A k \in 1..m : Raised(s, type)[k] = s[k]
  BY <1>2
<1> QED BY <1>1, <1>3, <1>4

LEMMA LoweredFacts ==
  ASSUME NEW s, NEW m \in Nat, Len(s) = m + 1
  PROVE  /\ Len(Lowered(s)) = m /\ IsSeq(Lowered(s))
         /\ \A k \in 1..m : Lowered(s)[k] = s[k]
<1>1. Lowered(s) = [k \in 1..m |-> s[k]]
  BY DEF Lowered
<1>2. Len(Lowered(s)) = m
  BY <1>1
<1>3. \A k \in 1..m : Lowered(s)[k] = s[k]
  BY <1>1
<1>4. Lowered(s) = [k \in 1..m |-> Lowered(s)[k]]
  BY <1>1
<1> QED BY <1>2, <1>3, <1>4 DEF IsSeq

(* A value is opened: the patch of its annotations and its own are pushed.  *)
LEMMA HoldsRaised ==
  ASSUME NEW types, IsSeq(types), NEW open, NEW n \in Nat, Len(open) = n,
         StackHolds(types, open), NEW more, Len(more) = n + 1,
         \A i \in 1..n : more[i] = open[i]
  PROVE  LET v    == more[n + 1]
             over == IF v.anns # <<>> THEN Raised(types, "uta") ELSE types
         IN  StackHolds(Raised(over, v.type), more)
<1> DEFINE v == more[n + 1]
           over == IF v.anns # <<>> THEN Raised(types, "uta") ELSE types
           top  == Raised(over, v.type)
           d    == IF v.anns # <<>> THEN 2 ELSE 1
<1>1. \A i \in 0..n : PatchesOf(more, i) = PatchesOf(open, i)
  BY PatchesOfSame
<1>2. PICK m \in Nat : m = Len(types) /\ PatchesOf(open, n) = m
  BY DEF StackHolds, IsSeq
<1>3. PatchesOf(more, n + 1) = m + d
  <2>1. PatchesOf(more, n + 1) = PatchesOf(more, n) + IF v.anns # <<>> THEN 2 ELSE 1
    BY PatchesOfNext
  <2> QED BY <1>1, <1>2, <2>1
<1>5. /\ Len(top) = m + d /\ top[m + d] = v.type
      /\ v.anns # <<>> => top[m + d - 1] = "uta"
      /\ \A k \in 1..m : top[k] = types[k]
  <2>1. CASE v.anns # <<>>
    <3>1. /\ Len(over) = m + 1 /\ over[m + 1] = "uta" /\ \A k \in 1..m : over[k] = types[k]
      BY <1>2, <2>1, RaisedFacts
    <3>2. d = 2 /\ m + d - 1 = m + 1 /\ m + d = (m + 1) + 1
      BY <2>1
    <3> HIDE DEF over, d
    <3>3. /\ Len(top) = (m + 1) + 1 /\ top[(m + 1) + 1] = v.type
          /\ \A k \in 1..(m + 1) : top[k] = over[k]
      BY <3>1, RaisedFacts
    <3> QED BY <3>1, <3>2, <3>3
  <2>2. CASE v.anns = <<>>
    <3>1. over = types /\ d = 1
      BY <2>2
    <3> HIDE DEF over, d
    <3>3. Len(top) = m + 1 /\ top[m + 1] = v.type /\ \A k \in 1..m : top[k] = over[k]
      BY <1>2, <3>1, RaisedFacts
    <3> QED BY <2>2, <3>1, <3>3
  <2> QED BY <2>1, <2>2
<1>10. d \in Nat
  OBVIOUS
<1> HIDE DEF top, d
<1>6. ASSUME NEW i \in 1..n
      PROVE  /\ top[PatchesOf(more, i)] = more[i].type
             /\ more[i].anns # <<>> => top[PatchesOf(more, i) - 1] = "uta"
  <2>1. /\ types[PatchesOf(open, i)] = open[i].type
        /\ open[i].anns # <<>> => types[PatchesOf(open, i) - 1] = "uta"
    BY DEF StackHolds
  <2>2. /\ PatchesOf(open, i) \in 1..m
        /\ open[i].anns # <<>> => PatchesOf(open, i) - 1 \in 1..m
    BY <1>2, PatchesOfFacts
  <2>3. PatchesOf(more, i) = PatchesOf(open, i) /\ more[i] = open[i]
    BY <1>1
  <2> QED BY <1>5, <2>1, <2>2, <2>3
<1>7. /\ top[PatchesOf(more, n + 1)] = v.type
      /\ v.anns # <<>> => top[PatchesOf(more, n + 1) - 1] = "uta"
  <2> HIDE DEF v
  <2> QED BY <1>3, <1>5, <1>10
<1>8. \A i \in 1..(n + 1) : /\ top[PatchesOf(more, i)] = more[i].type
                            /\ more[i].anns # <<>> => top[PatchesOf(more, i) - 1] = "uta"
  <2>1. \A i \in 1..(n + 1) : i \in 1..n \/ i = n + 1
    OBVIOUS
  <2> QED BY <1>6, <1>7, <2>1
<1>9. StackHolds(top, more)
  BY <1>3, <1>5, <1>8 DEF StackHolds
<1> QED BY <1>9 DEF top

(* less is open without its innermost value. *)
Closes(open, less, n) ==
  /\ Len(open) = n + 1 /\ Len(less) = n
  /\ \A i \in 1..n : /\ less[i].type = open[i].type /\ less[i].anns = open[i].anns
                     /\ open[i].type # "uta"

(* The stack without the patch of annotations that may be on top.           *)
Bare(types) ==
  IF Len(types) # 0 /\ types[Len(types)] = "uta" THEN Lowered(types) ELSE types

(* The innermost value is closed: its own patch is popped, and the patch of *)
(* its annotations, if that is what is on top then.                         *)
LEMMA HoldsLowered ==
  ASSUME NEW types, IsSeq(types), NEW open, NEW less, NEW n \in Nat, Closes(open, less, n),
         StackHolds(types, open), NEW bare, bare = Bare(Lowered(types))
  PROVE  /\ Len(types) # 0 /\ StackHolds(bare, less) /\ Len(bare) \in Nat
         /\ n = 0 <=> Len(bare) = 0
         /\ n # 0 => bare[Len(bare)] = less[n].type
<1>b. PICK low : low = Lowered(types) /\ bare = Bare(low)
  OBVIOUS
<1>a. /\ Len(open) = n + 1 /\ Len(less) = n
       /\ \A i \in 1..n : /\ less[i].type = open[i].type /\ less[i].anns = open[i].anns
                          /\ open[i].type # "uta"
  BY DEF Closes
<1>1. PICK p \in Nat : p = PatchesOf(open, n) /\ n <= p
  BY PatchesOfNext
<1>2. \A i \in 0..n : PatchesOf(less, i) = PatchesOf(open, i)
  BY <1>a, PatchesOfSame
<1>3. Len(types) = p + IF open[n + 1].anns # <<>> THEN 2 ELSE 1
  <2>1. Len(types) = PatchesOf(open, n + 1)
    BY <1>a DEF StackHolds
  <2>2. PatchesOf(open, n + 1) = PatchesOf(open, n) + IF open[n + 1].anns # <<>> THEN 2 ELSE 1
    BY PatchesOfNext
  <2> QED BY <1>1, <2>1, <2>2
<1>4. n # 0 => p \in 1..p /\ types[p] = open[n].type /\ open[n].type # "uta"
  <2>1. ASSUME n # 0
        PROVE  p \in 1..p /\ types[p] = open[n].type /\ open[n].type # "uta"
    <3>1. n \in 1..n /\ n \in 1..(n + 1) /\ p \in 1..p
      BY <1>1, <2>1
    <3> QED BY <1>a, <1>1, <3>1 DEF StackHolds
  <2> QED BY <2>1
<1>5. n = 0 => p = 0
  BY <1>1, PatchesOfNext
<1>6. Len(bare) = p /\ \A k \in 1..p : bare[k] = types[k]
  <2>1. CASE open[n + 1].anns # <<>>
    <3>1. Len(types) = (p + 1) + 1 /\ p + 1 \in Nat
      BY <1>3, <2>1
    <3>2. Len(low) = p + 1 /\ \A k \in 1..(p + 1) : low[k] = types[k]
      <4>1. PICK q \in Nat : q = p + 1
        BY <3>1
      <4>2. Len(types) = q + 1
        BY <3>1, <4>1
      <4> QED BY <1>b, <4>1, <4>2, LoweredFacts
    <3>3. types[p + 1] = "uta"
      <4>1. types[PatchesOf(open, n + 1) - 1] = "uta" /\ PatchesOf(open, n + 1) = Len(types)
        BY <1>a, <2>1 DEF StackHolds
      <4> QED BY <3>1, <4>1
    <3>4. bare = Lowered(low)
      BY <1>b, <3>2, <3>3 DEF Bare
    <3>5. Len(Lowered(low)) = p /\ \A k \in 1..p : Lowered(low)[k] = low[k]
      BY <3>2, LoweredFacts
    <3> QED BY <3>2, <3>4, <3>5
  <2>2. CASE open[n + 1].anns = <<>>
    <3>1. Len(types) = p + 1
      BY <1>3, <2>2
    <3>2. Len(low) = p /\ \A k \in 1..p : low[k] = types[k]
      BY <1>b, <3>1, LoweredFacts
    <3>3. bare = low
      BY <1>b, <1>4, <1>5, <3>2 DEF Bare
    <3> QED BY <3>2, <3>3
  <2> QED BY <2>1, <2>2
<1>7. ASSUME NEW i \in 1..n
      PROVE  /\ bare[PatchesOf(less, i)] = less[i].type
             /\ less[i].anns # <<>> => bare[PatchesOf(less, i) - 1] = "uta"
  <2>1. /\ types[PatchesOf(open, i)] = open[i].type
        /\ open[i].anns # <<>> => types[PatchesOf(open, i) - 1] = "uta"
    BY <1>a DEF StackHolds
  <2>2. /\ PatchesOf(open, i) \in 1..p
        /\ open[i].anns # <<>> => PatchesOf(open, i) - 1 \in 1..p
    BY <1>1, PatchesOfFacts
  <2> QED BY <1>a, <1>2, <1>6, <2>1, <2>2
<1>8. StackHolds(bare, less)
  BY <1>a, <1>1, <1>2, <1>6, <1>7 DEF StackHolds
<1>9. n # 0 => bare[p] = less[n].type
  BY <1>a, <1>4, <1>6
<1>10. Len(types) # 0
  BY <1>3
<1> QED BY <1>1, <1>5, <1>6, <1>8, <1>9, <1>10

-----------------------------------------------------------------------------
(* What the operators of the writer do to what was asked for. *)

AskedOK(a) ==
  /\ IsRecord(a, {"open", "anns"}) /\ IsSeq(a.open) /\ IsSeq(a.anns)
  /\ \A i \in 1..Len(a.open) :
       /\ IsRecord(a.open[i], {"type", "anns"})
       /\ a.open[i].type \in {"list", "struct", "lob"}
       /\ a.open[i].type = "lob" => i = Len(a.open)

LobOf(open) == Len(open) # 0 /\ open[Len(open)].type = "lob"
InStructOf(open) ==
  IF LobOf(open) THEN Len(open) > 1 /\ open[Len(open) - 1].type = "struct"
  ELSE Len(open) # 0 /\ open[Len(open)].type = "struct"

LEMMA FlagsAsked ==
  ASSUME NEW a, AskedOK(a)
  PROVE  /\ AskedInStruct(a) = InStructOf(a.open)
         /\ (a.open # <<>> /\ Last(a.open).type = "lob") = LobOf(a.open)
<1> DEFINE n == Len(a.open)
<1>1. IsSeq(a.open) /\ n \in Nat /\ (a.open = <<>> <=> n = 0)
  BY DEF AskedOK, IsSeq
<1>2. LobOf(a.open) <=> (n # 0 /\ a.open[n].type \notin {"list", "sexp", "struct"})
  <2>1. n # 0 => n \in 1..n
    BY <1>1
  <2> QED BY <1>1, <2>1 DEF LobOf, AskedOK
<1>3. (a.open # <<>> /\ Last(a.open).type = "lob") = LobOf(a.open)
  BY <1>1 DEF LobOf, Last
<1>4. CASE LobOf(a.open)
  <2>1. AskedContainers(a) = Front(a.open) /\ a.open # <<>>
    BY <1>1, <1>2, <1>4 DEF AskedContainers, Last
  <2>2. IsSeq(Front(a.open)) /\ Len(Front(a.open)) = n - 1
        /\ \A i \in 1..(n - 1) : Front(a.open)[i] = a.open[i]
    BY <1>1, <2>1, FrontIsSeq
  <2>3. Front(a.open) = <<>> <=> n - 1 = 0
    BY <2>2, IsSeqEmpty
  <2>4. Front(a.open) # <<>> => Last(Front(a.open)) = a.open[n - 1]
    BY <1>1, <2>2, <2>3 DEF Last
  <2>5. n - 1 # 0 <=> n > 1
    <3>1. n # 0
      BY <1>4 DEF LobOf
    <3> HIDE DEF n
    <3> QED BY <1>1, <3>1
  <2> QED BY <1>3, <1>4, <2>1, <2>3, <2>4, <2>5 DEF AskedInStruct, InStructOf
<1>5. CASE ~LobOf(a.open)
  <2>1. AskedContainers(a) = a.open
    BY <1>1, <1>2, <1>5 DEF AskedContainers, Last
  <2> QED BY <1>1, <1>3, <1>5, <2>1 DEF AskedInStruct, InStructOf, Last
<1> QED BY <1>4, <1>5

LEMMA ValueIs ==
  ASSUME NEW a, NEW type, NEW body
  PROVE  /\ IsRecord(Value(a, type, body), {"type", "anns"})
         /\ Value(a, type, body).type = type /\ Value(a, type, body).anns = a.anns
BY DEF Value, IsRecord

LEMMA UsedKeeps ==
  ASSUME NEW a, AskedOK(a), NEW v
  PROVE  AskedOK(Used(a, v)) /\ Used(a, v).open = a.open /\ Len(Used(a, v).anns) = 0
<1> DEFINE b == Used(a, v)
<1>1. IsRecord(b, {"open", "anns"}) /\ b.open = a.open /\ b.anns = <<>>
  BY DEF AskedOK, IsRecord, Used
<1>2. IsSeq(<<>>) /\ Len(<<>>) = 0
  BY DEF IsSeq
<1> HIDE DEF b
<1>3. AskedOK(b)
  BY <1>1, <1>2 DEF AskedOK
<1> QED BY <1>1, <1>2, <1>3 DEF b

(* The same open values with another body each. *)
LEMMA SameOpenOK ==
  ASSUME NEW a, AskedOK(a), NEW b, IsRecord(b, {"open", "anns"}), IsSeq(b.anns),
         SameOpen(b.open, a.open), IsSeq(b.open),
         \A i \in 1..Len(a.open) : IsRecord(b.open[i], {"type", "anns"})
  PROVE  AskedOK(b)
BY DEF AskedOK, SameOpen

LEMMA BodyKeeps ==
  ASSUME NEW open, IsSeq(open), NEW k \in 1..Len(open), NEW body,
         \A i \in 1..Len(open) : IsRecord(open[i], {"type", "anns"})
  PROVE  LET new == [open EXCEPT ![k] = [@ EXCEPT !.body = body]]
         IN  /\ SameOpen(new, open) /\ IsSeq(new)
             /\ \A i \in 1..Len(open) : IsRecord(new[i], {"type", "anns"})
<1> DEFINE new == [open EXCEPT ![k] = [@ EXCEPT !.body = body]]
           e == [open[k] EXCEPT !.body = body]
<1>1. PICK n \in Nat : n = Len(open) /\ open = [i \in 1..n |-> open[i]]
  BY DEF IsSeq
<1>2. new = [i \in 1..n |-> IF i = k THEN e ELSE open[i]]
  BY <1>1
<1>3. IsRecord(e, {"type", "anns"}) /\ e.type = open[k].type /\ e.anns = open[k].anns
  BY DEF IsRecord
<1> HIDE DEF new, e
<1>4. Len(new) = n
  BY <1>1, <1>2
<1>5. IsSeq(new)
  BY <1>2, <1>4 DEF IsSeq
<1>6. \A i \in 1..n : /\ IsRecord(new[i], {"type", "anns"})
                      /\ new[i].type = open[i].type /\ new[i].anns = open[i].anns
  BY <1>1, <1>2, <1>3
<1> QED BY <1>1, <1>4, <1>5, <1>6 DEF SameOpen, new

LEMMA SameOpenRefl ==
  ASSUME NEW open
  PROVE  SameOpen(open, open)
BY DEF SameOpen

LEMMA PutKeeps ==
  ASSUME NEW a, AskedOK(a), NEW v
  PROVE  AskedOK(Put(a, v)) /\ SameOpen(Put(a, v).open, a.open) /\ Put(a, v).anns = a.anns
<1> DEFINE b == Put(a, v)
<1>1. CASE a.open = <<>>
  <2>1. b = [a EXCEPT !.batch = Append(@, v)]
    BY <1>1 DEF Put
  <2>2. IsRecord(b, {"open", "anns"}) /\ b.open = a.open /\ b.anns = a.anns
    BY <2>1 DEF AskedOK, IsRecord
  <2> HIDE DEF b
  <2>3. AskedOK(b)
    BY <2>2 DEF AskedOK
  <2> QED BY <2>2, <2>3, SameOpenRefl DEF b
<1>2. CASE a.open # <<>>
  <2> DEFINE k == Len(a.open)
             body == Append(a.open[k].body, v)
             new == [a.open EXCEPT ![k] = [@ EXCEPT !.body = body]]
  <2>1. b = [a EXCEPT !.open[k].body = Append(@, v)]
    BY <1>2 DEF Put
  <2>2. IsRecord(b, {"open", "anns"}) /\ b.open = new /\ b.anns = a.anns
    BY <2>1 DEF AskedOK, IsRecord
  <2>3. k \in 1..k
    BY <1>2 DEF AskedOK, IsSeq
  <2>4. /\ SameOpen(new, a.open) /\ IsSeq(new)
        /\ \A i \in 1..Len(a.open) : IsRecord(new[i], {"type", "anns"})
    BY <2>3, BodyKeeps DEF AskedOK
  <2> HIDE DEF new, b
  <2>5. AskedOK(b)
    BY <2>2, <2>4, SameOpenOK DEF AskedOK
  <2> QED BY <2>2, <2>4, <2>5 DEF b
<1> QED BY <1>1, <1>2

LEMMA PutOpenIs ==
  ASSUME NEW a, AskedOK(a), ~LobOf(a.open), NEW v, IsRecord(v, {"type", "anns"}),
         v.type \in {"list", "struct", "lob"}
  PROVE  LET b == PutOpen(a, v)
         IN  /\ AskedOK(b) /\ b.anns = a.anns /\ Len(a.open) \in Nat
             /\ Len(b.open) = Len(a.open) + 1 /\ b.open[Len(a.open) + 1] = v
             /\ \A i \in 1..Len(a.open) : b.open[i] = a.open[i]
<1> DEFINE b == PutOpen(a, v)
<1>1. IsRecord(b, {"open", "anns"}) /\ b.open = Append(a.open, v) /\ b.anns = a.anns
  BY DEF AskedOK, IsRecord, PutOpen
<1> HIDE DEF b
<1>2. PICK n \in Nat : n = Len(a.open)
  BY DEF AskedOK, IsSeq
<1>3. /\ IsSeq(b.open) /\ Len(b.open) = n + 1 /\ b.open[n + 1] = v
      /\ \A i \in 1..n : b.open[i] = a.open[i]
  BY <1>1, <1>2, AppendIsSeq DEF AskedOK
<1>4. ASSUME NEW i \in 1..(n + 1)
      PROVE  /\ IsRecord(b.open[i], {"type", "anns"})
             /\ b.open[i].type \in {"list", "struct", "lob"}
             /\ b.open[i].type = "lob" => i = n + 1
  <2>1. CASE i = n + 1
    BY <1>3, <2>1
  <2>2. CASE i # n + 1
    <3>1. i \in 1..n
      BY <2>2
    <3>2. a.open[i].type # "lob"
      BY <1>2, <3>1 DEF AskedOK, LobOf
    <3> QED BY <1>2, <1>3, <3>1, <3>2 DEF AskedOK
  <2> QED BY <2>1, <2>2
<1>5. AskedOK(b)
  BY <1>1, <1>3, <1>4 DEF AskedOK
<1> QED BY <1>1, <1>2, <1>3, <1>5 DEF b

LEMMA PutClosedIs ==
  ASSUME NEW a, AskedOK(a), a.open # <<>>
  PROVE  LET b == PutClosed(a)
         IN  /\ AskedOK(b) /\ b.anns = a.anns /\ Len(b.open) \in Nat
             /\ Len(a.open) = Len(b.open) + 1 /\ ~LobOf(b.open)
             /\ \A i \in 1..Len(b.open) : /\ b.open[i].type = a.open[i].type
                                          /\ b.open[i].anns = a.open[i].anns
                                          /\ b.open[i].type \in {"list", "struct"}
<1> DEFINE c == [a EXCEPT !.open = Front(@)]
           b == Put(c, Last(a.open))
<1>1. IsRecord(c, {"open", "anns"}) /\ c.open = Front(a.open) /\ c.anns = a.anns
  BY DEF AskedOK, IsRecord
<1>2. PICK n \in Nat : Len(a.open) = n + 1
  <2>1. Len(a.open) \in Nat \ {0}
    BY FrontIsSeq DEF AskedOK
  <2>2. Len(a.open) - 1 \in Nat /\ Len(a.open) = (Len(a.open) - 1) + 1
    BY <2>1
  <2> QED BY <2>2
<1>3. IsSeq(c.open) /\ Len(c.open) = n /\ \A i \in 1..n : c.open[i] = a.open[i]
  BY <1>1, <1>2, FrontIsSeq DEF AskedOK
<1> HIDE DEF c
<1>4. ASSUME NEW i \in 1..n
      PROVE  /\ IsRecord(c.open[i], {"type", "anns"})
             /\ c.open[i].type \in {"list", "struct"}
  BY <1>2, <1>3 DEF AskedOK
<1>5. AskedOK(c)
  BY <1>1, <1>3, <1>4 DEF AskedOK
<1>6. AskedOK(b) /\ SameOpen(b.open, c.open) /\ b.anns = c.anns
  BY <1>5, PutKeeps
<1>7. b = PutClosed(a)
  BY DEF PutClosed, c
<1> HIDE DEF b
<1>8. Len(b.open) = n /\ \A i \in 1..n : /\ b.open[i].type = a.open[i].type
                                         /\ b.open[i].anns = a.open[i].anns
                                         /\ b.open[i].type \in {"list", "struct"}
  BY <1>3, <1>4, <1>6 DEF SameOpen
<1>9. ~LobOf(b.open)
  <2>1. n # 0 => n \in 1..n
    OBVIOUS
  <2> QED BY <1>8, <2>1 DEF LobOf
<1> QED BY <1>1, <1>2, <1>6, <1>7, <1>8, <1>9

LEMMA PutSentKeeps ==
  ASSUME NEW a, AskedOK(a)
  PROVE  AskedOK(PutSent(a)) /\ PutSent(a).open = a.open /\ PutSent(a).anns = a.anns
<1> DEFINE b == PutSent(a)
<1>1. IsRecord(b, {"open", "anns"}) /\ b.open = a.open /\ b.anns = a.anns
  BY DEF AskedOK, IsRecord, PutSent
<1> HIDE DEF b
<1> QED BY <1>1 DEF AskedOK, b

-----------------------------------------------------------------------------
(* What a call does to both. *)

StackInv(v, a) ==
  /\ WriterOK(v) /\ AskedOK(a)
  /\ StackHolds(StackTypes(v), a.open)
  /\ v.inStruct = InStructOf(a.open)
  /\ (v.lob # None) = LobOf(a.open)
  /\ Len(v.anns) = Len(a.anns)

LEMMA InvMirrors ==
  StackInv(w, asked) => StackMirrorsCalls
BY FlagsAsked DEF StackInv, StackMirrorsCalls

(* A call that opens and closes nothing. *)
LEMMA InvSame ==
  ASSUME NEW v, NEW a, StackInv(v, a), NEW u, Mirrors(u, v), NEW b, AskedOK(b),
         SameOpen(b.open, a.open), Len(u.anns) = Len(b.anns)
  PROVE  StackInv(u, b)
<1>1. Len(a.open) \in Nat
  BY DEF StackInv, AskedOK, IsSeq
<1>2. StackHolds(StackTypes(u), b.open)
  BY <1>1, HoldsSame DEF StackInv, Mirrors
<1>3. PICK n \in Nat : n = Len(a.open) /\ n = Len(b.open)
  BY <1>1 DEF SameOpen
<1>4. LobOf(b.open) = LobOf(a.open) /\ InStructOf(b.open) = InStructOf(a.open)
  <2>1. \A i \in 1..n : b.open[i].type = a.open[i].type
    BY <1>3 DEF SameOpen
  <2>2. (n # 0 => n \in 1..n) /\ (n > 1 => n - 1 \in 1..n)
    OBVIOUS
  <2>3. LobOf(b.open) = LobOf(a.open)
    BY <1>3, <2>1, <2>2 DEF LobOf
  <2> QED BY <1>3, <2>1, <2>2, <2>3 DEF InStructOf
<1> QED BY <1>2, <1>4 DEF StackInv, Mirrors

LEMMA FieldAsSidKeeps ==
  ASSUME NEW v, WriterOK(v), NEW r, r = FieldAsSid(v)
  PROVE  Keeps(r.w, v)
<1>1. CASE v.fieldType = ByName /\ v.field # None
  <2>1. r.w = AddSymbol(v, v.field)
    BY <1>1 DEF FieldAsSid, ByName, BySid
  <2> QED BY <2>1, KeepsFields
<1>2. CASE ~(v.fieldType = ByName /\ v.field # None) /\ v.fieldType = BySid
  <2>1. r.w = v
    BY <1>2 DEF FieldAsSid, ByName, BySid
  <2> QED BY <2>1, KeepsFields
<1>3. CASE ~(v.fieldType = ByName /\ v.field # None) /\ v.fieldType # BySid
  <2>1. r.w = v
    BY <1>3 DEF FieldAsSid, Fails
  <2> QED BY <2>1, KeepsFields
<1> QED BY <1>1, <1>2, <1>3

LEMMA WriteFieldKeeps ==
  ASSUME NEW v, WriterOK(v)
  PROVE  /\ Keeps(WriteField(v).w, v)
         /\ WriteField(v).err # "ok" => WriteField(v).w = v
<1> DEFINE r == FieldAsSid(v)
<1>1. Keeps(r.w, v)
  BY FieldAsSidKeeps
<1> HIDE DEF r
<1>2. CASE ~v.inStruct
  BY <1>2, KeepsFields DEF WriteField, Ok
<1>3. CASE v.inStruct /\ r.err # "ok"
  BY <1>3, KeepsFields DEF WriteField, Fails, r
<1>4. CASE v.inStruct /\ r.err = "ok" /\ r.sid < 1
  BY <1>4, KeepsFields DEF WriteField, Fails, r
<1>5. CASE v.inStruct /\ r.err = "ok" /\ ~(r.sid < 1)
  <2> DEFINE e == Emit(r.w, <<"var", r.sid>>)
  <2>1. WriteField(v) = Ok(ClearFieldName(e))
    BY <1>5 DEF WriteField, r
  <2>2. WriterOK(r.w) /\ Keeps(r.w, v)
    BY <1>1, <1>5 DEF Keeps, Mirrors
  <2>3. Keeps(e, r.w)
    BY <2>2, KeepsFields
  <2> HIDE DEF e
  <2>4. Keeps(ClearFieldName(e), e)
    BY <2>3, KeepsFields DEF Keeps, Mirrors
  <2>5. Keeps(ClearFieldName(e), v)
    BY <2>2, <2>3, <2>4, KeepsTransitive
  <2> QED BY <2>1, <2>5 DEF Ok
<1> QED BY <1>2, <1>3, <1>4, <1>5

(* The bytes and patches before a value: its annotations are used up, and   *)
(* have a patch when the value's length is not known.                       *)
LEMMA StartValueStack ==
  ASSUME NEW v, WriterOK(v), NEW n
  PROVE  LET r == StartValue(v, n)
         IN  /\ r.err # "ok" => r.w = v
             /\ r.err = "ok" =>
                  /\ v.lob = None /\ WriterOK(r.w) /\ r.w.anns = <<>>
                  /\ r.w.lob = v.lob /\ r.w.inStruct = v.inStruct
                  /\ StackTypes(r.w) = IF v.anns # <<>> /\ n = Unknown
                                         THEN Raised(StackTypes(v), "uta") ELSE StackTypes(v)
<1> DEFINE f == WriteField(v)
           x == f.w
           u == WriteAnnotations(x, n, v.pos)
           from == IF v.anns # <<>> /\ n = Unknown THEN x.pos ELSE v.pos
           types == IF v.anns # <<>> /\ n = Unknown
                      THEN Raised(StackTypes(v), "uta") ELSE StackTypes(v)
<1>1. Keeps(x, v) /\ (f.err # "ok" => x = v)
  BY WriteFieldKeeps
<1>2. StartValue(v, n) = IF v.lob # None THEN Fails(v, "state")
                         ELSE IF f.err # "ok" THEN f ELSE Ok(PatchLengths(u, u.pos - from))
  BY DEF StartValue
<1> HIDE DEF f
<1>3. /\ WriterOK(u) /\ u.anns = <<>> /\ u.lob = v.lob /\ u.inStruct = v.inStruct
      /\ StackTypes(u) = types
  <2>1. WriterOK(x) /\ x.anns = v.anns /\ StackTypes(x) = StackTypes(v)
        /\ x.lob = v.lob /\ x.inStruct = v.inStruct
    BY <1>1 DEF Keeps, Mirrors
  <2> HIDE DEF x
  <2>2. CASE x.anns = <<>>
    <3>1. u = x
      BY <2>2 DEF WriteAnnotations
    <3> QED BY <2>1, <2>2, <3>1
  <2>3. CASE x.anns # <<>>
    <3> DEFINE y == WithSymbols(x)
               sids == SidsOfAnnotations(y)
               len == LenAll(sids)
               z == PatchLengths(y, (y.pos - v.pos) + 1)
               head == IF n = Unknown THEN Push(z, "uta")
                       ELSE EmitAll(y, Header("uta", LenVarUint(len) + len + n))
               toks == << <<"var", len>>, <<"sids", sids>> >>
    <3>1. u = ClearAnnotations(EmitAll(head, toks))
      BY <2>3 DEF WriteAnnotations
    <3>2. Keeps(y, x) /\ WriterOK(y)
      BY <2>1, KeepsFields DEF Keeps, Mirrors
    <3>3. Keeps(z, y) /\ WriterOK(z)
      BY <3>2, PatchLengthsKeeps DEF Keeps, Mirrors
    <3> HIDE DEF y, z, sids, len
    <3>4. /\ WriterOK(head) /\ StackTypes(head) = types
          /\ head.lob = v.lob /\ head.inStruct = v.inStruct
      <4>1. CASE n = Unknown
        <5>1. head = Push(z, "uta")
          BY <4>1
        <5>2. StackTypes(z) = StackTypes(v) /\ z.lob = v.lob /\ z.inStruct = v.inStruct
          BY <2>1, <3>2, <3>3 DEF Keeps, Mirrors
        <5> HIDE DEF head
        <5> QED BY <2>1, <2>3, <3>3, <4>1, <5>1, <5>2, PushStack
      <4>2. CASE n # Unknown
        <5>1. Keeps(head, y)
          BY <3>2, <4>2, KeepsFields
        <5> HIDE DEF head
        <5> QED BY <2>1, <3>2, <4>2, <5>1 DEF Keeps, Mirrors
      <4> QED BY <4>1, <4>2
    <3> HIDE DEF head, toks, types
    <3>5. Keeps(EmitAll(head, toks), head)
      BY <3>4, KeepsFields
    <3>6. Mirrors(u, EmitAll(head, toks)) /\ u.anns = <<>>
      BY <3>1, <3>5, ClearAnnotationsMirrors DEF Keeps, Mirrors
    <3> HIDE DEF u
    <3> QED BY <3>4, <3>5, <3>6 DEF Keeps, Mirrors
  <2> QED BY <2>2, <2>3
<1> HIDE DEF u, types
<1>4. Keeps(PatchLengths(u, u.pos - from), u)
  BY <1>3, PatchLengthsKeeps
<1>5. CASE v.lob # None
  BY <1>2, <1>5 DEF Fails
<1>6. CASE v.lob = None /\ f.err # "ok"
  BY <1>1, <1>2, <1>6
<1>7. CASE v.lob = None /\ f.err = "ok"
  <2>1. StartValue(v, n) = Ok(PatchLengths(u, u.pos - from))
    BY <1>2, <1>7
  <2>2. StartValue(v, n).err = "ok" /\ StartValue(v, n).w = PatchLengths(u, u.pos - from)
    BY <2>1 DEF Ok
  <2> QED BY <1>3, <1>4, <1>7, <2>2 DEF Keeps, Mirrors, types
<1> QED BY <1>5, <1>6, <1>7

LEMMA HeaderWidthPositive ==
  ASSUME NEW n
  PROVE  HeaderWidth(n) \in Nat \ {0}
<1>1. LenVarUint(n) \in Nat
  <2> DEFINE K == { k \in 1..9 : \A j \in 1..k : n >= Digit^j }
  <2>1. K \in SUBSET (1..9)
    OBVIOUS
  <2>3. \A k \in Nat : IsFiniteSet(1..k)
    BY FS_Interval
  <2>4. IsFiniteSet(1..9)
    BY <2>3
  <2> HIDE DEF K
  <2>2. Cardinality(K) \in Nat
    BY <2>1, <2>4, FS_Subset, FS_CardinalityType
  <2> QED BY <2>2 DEF LenVarUint, K
<1> QED BY <1>1 DEF HeaderWidth

(* A value of several calls opens a patch, after that of its annotations.   *)
LEMMA OpenPatchStack ==
  ASSUME NEW v, WriterOK(v), NEW type
  PROVE  LET r    == OpenPatch(v, type)
             over == IF v.anns # <<>> THEN Raised(StackTypes(v), "uta") ELSE StackTypes(v)
         IN  /\ r.err # "ok" => r.w = v
             /\ r.err = "ok" =>
                  /\ v.lob = None /\ WriterOK(r.w) /\ r.w.anns = <<>>
                  /\ r.w.lob = v.lob /\ r.w.inStruct = v.inStruct
                  /\ StackTypes(r.w) = Raised(over, type)
<1> DEFINE s == StartValue(v, Unknown)
           over == IF v.anns # <<>> THEN Raised(StackTypes(v), "uta") ELSE StackTypes(v)
           x == PatchLengths(s.w, 1)
<1>1. /\ s.err # "ok" => s.w = v
      /\ s.err = "ok" => /\ v.lob = None /\ WriterOK(s.w) /\ s.w.anns = <<>>
                         /\ s.w.lob = v.lob /\ s.w.inStruct = v.inStruct
                         /\ StackTypes(s.w) = over
  BY StartValueStack
<1>2. OpenPatch(v, type) = IF s.err = "ok" THEN Ok(Push(x, type)) ELSE s
  BY DEF OpenPatch, Then
<1> HIDE DEF s, over
<1>3. CASE s.err = "ok"
  <2>1. Keeps(x, s.w)
    BY <1>1, <1>3, PatchLengthsKeeps
  <2>2. /\ WriterOK(x) /\ x.anns = <<>> /\ x.lob = v.lob /\ x.inStruct = v.inStruct
        /\ StackTypes(x) = over
    BY <1>1, <1>3, <2>1 DEF Keeps, Mirrors
  <2> HIDE DEF x
  <2>3. OpenPatch(v, type).err = "ok" /\ OpenPatch(v, type).w = Push(x, type)
    BY <1>2, <1>3 DEF Ok
  <2> QED BY <1>1, <1>3, <2>2, <2>3, PushStack DEF over
<1>4. CASE s.err # "ok"
  BY <1>1, <1>2, <1>4
<1> QED BY <1>3, <1>4

(* A whole value leaves the stack as it was. *)
LEMMA WriteValueStack ==
  ASSUME NEW v, WriterOK(v), NEW toks, NEW n, n # Unknown, NEW told
  PROVE  LET r == WriteValue(v, toks, n, told)
         IN  /\ r.err # "ok" => r.w = v
             /\ r.err = "ok" => Mirrors(r.w, v) /\ r.w.anns = <<>>
<1> DEFINE s == StartValue(v, n)
           x == EmitAll(s.w, toks)
<1>1. /\ s.err # "ok" => s.w = v
      /\ s.err = "ok" => Mirrors(s.w, v) /\ s.w.anns = <<>>
  BY StartValueStack DEF Mirrors
<1>2. WriteValue(v, toks, n, told) = IF s.err = "ok" THEN Ok(PatchLengths(x, told)) ELSE s
  BY DEF WriteValue, Then
<1> HIDE DEF s
<1>3. CASE s.err = "ok"
  <2>1. Keeps(x, s.w)
    BY <1>1, <1>3, KeepsFields DEF Mirrors
  <2> HIDE DEF x
  <2>2. Keeps(PatchLengths(x, told), x)
    BY <2>1, PatchLengthsKeeps DEF Keeps, Mirrors
  <2>3. WriteValue(v, toks, n, told).err = "ok"
        /\ WriteValue(v, toks, n, told).w = PatchLengths(x, told)
    BY <1>2, <1>3 DEF Ok
  <2> QED BY <1>1, <1>3, <2>1, <2>2, <2>3 DEF Keeps, Mirrors
<1>4. CASE s.err # "ok"
  BY <1>1, <1>2, <1>4
<1> QED BY <1>3, <1>4

(* A value that is written, or rejected. *)
LEMMA WritesInv ==
  ASSUME StackInv(w, asked), NEW r, NEW type, NEW body,
         r.err # "ok" => Keeps(r.w, w),
         r.err = "ok" => Mirrors(r.w, w) /\ r.w.anns = <<>>,
         Writes(r, Value(asked, type, body))
  PROVE  StackInv(w', asked')
<1> DEFINE v == Value(asked, type, body)
           a == Put(Used(asked, v), v)
<1>1. w' = r.w /\ asked' = IF r.err = "ok" THEN a ELSE asked
  BY DEF Writes, Ends
<1>2. CASE r.err = "ok"
  <2>1. AskedOK(a) /\ SameOpen(a.open, asked.open) /\ Len(a.anns) = 0
    BY UsedKeeps, PutKeeps DEF StackInv
  <2> HIDE DEF a
  <2>2. Len(<<>>) = 0
    OBVIOUS
  <2> QED BY <1>1, <1>2, <2>1, <2>2, InvSame
<1>3. CASE r.err # "ok"
  BY <1>1, <1>3, InvSame, SameOpenRefl DEF Keeps, StackInv
<1> QED BY <1>2, <1>3

-----------------------------------------------------------------------------
(* The actions, one by one.  The misuses that leave the stack other than    *)
(* the caller sees it are not made: ending a container where a lob is open, *)
(* a flush or a close in a container, a version marker written as a value,  *)
(* and going on after a failed assertion.                                   *)

Careful == Careless \cap {"order", "open", "ivm", "no table"} = {}

LEMMA ScalarsInv ==
  ASSUME Careful, StackInv(w, asked),
         \/ \E n \in Sizes : WriteShortScalar(n) \/ WriteSizedScalar(n) \/ WriteInt(n)
         \/ \E name \in Names : WriteSymbol(name)
         \/ \E sid \in {Ivm, Len(SystemNames)} : WriteSymbolId(sid)
  PROVE  StackInv(w', asked')
<1>1. WriterOK(w)
  BY DEF StackInv
<1>2. ASSUME NEW toks, NEW n, n # Unknown, NEW told
      PROVE  /\ WriteValue(w, toks, n, told).err # "ok" => Keeps(WriteValue(w, toks, n, told).w, w)
             /\ WriteValue(w, toks, n, told).err = "ok" =>
                  /\ Mirrors(WriteValue(w, toks, n, told).w, w)
                  /\ WriteValue(w, toks, n, told).w.anns = <<>>
  BY <1>1, <1>2, WriteValueStack, KeepsFields
<1>3. \A n \in Sizes : n + 1 # Unknown /\ HeaderWidth(n) + n # Unknown
  BY BinaryWriterAssumption, HeaderWidthPositive DEF Unknown
<1>4. ASSUME NEW n \in Sizes, WriteShortScalar(n)
      PROVE  StackInv(w', asked')
  BY <1>2, <1>3, <1>4, WritesInv DEF WriteShortScalar, WriteShort
<1>5. ASSUME NEW n \in Sizes, WriteSizedScalar(n)
      PROVE  StackInv(w', asked')
  BY <1>2, <1>3, <1>5, WritesInv DEF WriteSizedScalar, WriteSized
<1>6. ASSUME NEW n \in Sizes, WriteInt(n)
      PROVE  StackInv(w', asked')
  BY <1>2, <1>3, <1>6, WritesInv DEF WriteInt, WriteIonInt
<1>7. ASSUME NEW sid \in {Ivm, Len(SystemNames)}, WriteSymbolId(sid)
      PROVE  StackInv(w', asked')
  <2>1. ~IsIvm(w, sid)
    BY <1>7 DEF Careful, Allowed, WriteSymbolId
  <2>2. LenSid(sid) + 1 # Unknown
    BY DEF LenSid, Unknown
  <2> QED BY <1>2, <1>7, <2>1, <2>2, WritesInv DEF WriteSymbolId, WriteSid
<1>8. ASSUME NEW name \in Names, WriteSymbol(name)
      PROVE  StackInv(w', asked')
  <2> DEFINE u == AddSymbol(w, name)
             sid == SidFor(w, name)
             toks == << <<"td", "symbol", LenSid(sid)>>, <<"sid", sid, LenSid(sid)>> >>
             r == WriteValue(u, toks, LenSid(sid) + 1, LenSid(sid) + 1)
  <2>1. Keeps(u, w)
    BY <1>1, KeepsFields
  <2>2. ~IsIvm(u, sid)
    <3>1. ~IsIvm(w, sid)
      BY <1>8 DEF Careful, Allowed, WriteSymbol
    <3>2. u.stack = <<>> => w.stack = <<>>
      BY <1>1, <2>1, StackTypesLen DEF Keeps, Mirrors
    <3> QED BY <3>1, <3>2 DEF IsIvm
  <2>3. LenSid(sid) + 1 # Unknown
    BY DEF LenSid, Unknown
  <2>4. WriteName(w, name) = r
    BY <2>2 DEF WriteName, WriteSid
  <2> HIDE DEF u, sid
  <2>5. /\ r.err # "ok" => r.w = u
        /\ r.err = "ok" => Mirrors(r.w, u) /\ r.w.anns = <<>>
    BY <2>1, <2>3, WriteValueStack DEF Keeps, Mirrors
  <2>6. Writes(r, Value(asked, "symbol", name))
    BY <1>8, <2>4 DEF WriteSymbol
  <2> HIDE DEF r
  <2>7. /\ r.err # "ok" => Keeps(r.w, w)
        /\ r.err = "ok" => Mirrors(r.w, w) /\ r.w.anns = <<>>
    BY <2>1, <2>5 DEF Keeps, Mirrors
  <2> QED BY <2>6, <2>7, WritesInv
<1> QED BY <1>4, <1>5, <1>6, <1>7, <1>8

(* A container or lob that is opened. *)
LEMMA OpenInv ==
  ASSUME StackInv(w, asked), NEW type \in {"list", "struct", "lob"}, NEW body,
         OpenPatch(w, type).err = "ok", NEW x, WriterOK(x),
         StackTypes(x) = StackTypes(OpenPatch(w, type).w), x.anns = <<>>,
         IF type = "lob" THEN x.lob # None /\ x.inStruct = w.inStruct
                         ELSE x.lob = w.lob /\ x.inStruct = (type = "struct")
  PROVE  LET v == Value(asked, type, body)
         IN  StackInv(x, PutOpen(Used(asked, v), v))
<1> DEFINE v == Value(asked, type, body)
           u == Used(asked, v)
           b == PutOpen(u, v)
           over == IF w.anns # <<>> THEN Raised(StackTypes(w), "uta") ELSE StackTypes(w)
           y == OpenPatch(w, type).w
<1>1. WriterOK(w) /\ w.lob = None /\ ~LobOf(asked.open)
  BY OpenPatchStack DEF StackInv
<1>2. WriterOK(y) /\ StackTypes(y) = Raised(over, type)
  BY <1>1, OpenPatchStack
<1>3. IsRecord(v, {"type", "anns"}) /\ v.type = type /\ v.anns = asked.anns
  BY ValueIs
<1>4. AskedOK(u) /\ u.open = asked.open /\ Len(u.anns) = 0
  BY UsedKeeps DEF StackInv
<1> HIDE DEF u, v
<1>5. PICK n \in Nat : n = Len(asked.open)
  BY DEF StackInv, AskedOK, IsSeq
<1>6. /\ AskedOK(b) /\ Len(b.anns) = 0 /\ Len(b.open) = n + 1 /\ b.open[n + 1] = v
      /\ \A i \in 1..n : b.open[i] = asked.open[i]
  BY <1>1, <1>3, <1>4, <1>5, PutOpenIs
<1> HIDE DEF b
<1>7. (w.anns # <<>>) = (v.anns # <<>>)
  BY <1>3, IsSeqEmpty DEF StackInv, WriterOK, AskedOK
<1>8. StackHolds(Raised(over, type), b.open)
  <2>1. IsSeq(StackTypes(w))
    BY <1>1, StackTypesLen
  <2>2. StackHolds(StackTypes(w), asked.open)
    BY DEF StackInv
  <2> HIDE DEF over
  <2>3. LET e    == b.open[n + 1]
            under == IF e.anns # <<>> THEN Raised(StackTypes(w), "uta") ELSE StackTypes(w)
        IN  StackHolds(Raised(under, e.type), b.open)
    <3>1. PICK types, open, more : types = StackTypes(w) /\ open = asked.open /\ more = b.open
      OBVIOUS
    <3>2. IsSeq(types) /\ Len(open) = n /\ StackHolds(types, open) /\ Len(more) = n + 1
          /\ \A i \in 1..n : more[i] = open[i]
      BY <1>5, <1>6, <2>1, <2>2, <3>1
    <3>3. LET e     == more[n + 1]
              under == IF e.anns # <<>> THEN Raised(types, "uta") ELSE types
          IN  StackHolds(Raised(under, e.type), more)
      BY <3>2, HoldsRaised
    <3> QED BY <3>1, <3>3
  <2> QED BY <1>3, <1>6, <1>7, <2>3 DEF over
<1>9. WriterOK(x) /\ StackTypes(x) = StackTypes(y)
  OBVIOUS
<1>10. LobOf(b.open) = (type = "lob")
  BY <1>3, <1>6 DEF LobOf
<1>11. InStructOf(b.open) = IF type = "lob" THEN InStructOf(asked.open) ELSE type = "struct"
  <2>1. (n # 0 => n \in 1..n) /\ n + 1 # 0 /\ (n + 1) - 1 = n /\ (n + 1 > 1 <=> n # 0)
    OBVIOUS
  <2>2. CASE type = "lob"
    <3>1. InStructOf(b.open) = (n # 0 /\ b.open[n].type = "struct")
      <4>1. Len(b.open) = n + 1 /\ LobOf(b.open)
        BY <1>6, <1>10, <2>2
      <4>2. InStructOf(b.open) = (n + 1 > 1 /\ b.open[(n + 1) - 1].type = "struct")
        BY <4>1 DEF InStructOf
      <4> QED BY <2>1, <4>2
    <3>2. InStructOf(asked.open) = (n # 0 /\ asked.open[n].type = "struct")
      BY <1>1, <1>5 DEF InStructOf
    <3>3. n # 0 => b.open[n] = asked.open[n]
      BY <1>6, <2>1
    <3> QED BY <2>2, <3>1, <3>2, <3>3
  <2>3. CASE type # "lob"
    BY <1>3, <1>6, <1>10, <2>1, <2>3 DEF InStructOf
  <2> QED BY <2>2, <2>3
<1>12. x.inStruct = InStructOf(b.open) /\ (x.lob # None) = LobOf(b.open)
  BY <1>1, <1>10, <1>11 DEF StackInv
<1>13. Len(x.anns) = Len(b.anns)
  <2>1. Len(<<>>) = 0
    OBVIOUS
  <2> QED BY <1>6, <2>1
<1> QED BY <1>2, <1>6, <1>8, <1>9, <1>12, <1>13 DEF StackInv, b, u, v

LEMMA StartContainerInv ==
  ASSUME StackInv(w, asked), NEW type \in {"list", "struct"}, StartContainer(type)
  PROVE  StackInv(w', asked')
<1> DEFINE r == OpenPatch(w, type)
           x == [r.w EXCEPT !.inStruct = (type = "struct")]
           v == Value(asked, type, <<>>)
           a == PutOpen(Used(asked, v), v)
<1>1. /\ r.err = "ok" => w' = x /\ asked' = a
      /\ r.err # "ok" => w' = r.w /\ asked' = asked
  BY DEF StartContainer, Ends, Ok
<1>2. WriterOK(w)
  BY DEF StackInv
<1>3. CASE r.err = "ok"
  <2>1. WriterOK(r.w) /\ r.w.anns = <<>> /\ r.w.lob = w.lob
    BY <1>2, <1>3, OpenPatchStack
  <2> HIDE DEF r
  <2>2. /\ WriterOK(x) /\ StackTypes(x) = StackTypes(r.w) /\ x.anns = <<>>
        /\ x.lob = w.lob /\ x.inStruct = (type = "struct")
    <3>1. PICK u, y, flag : u = r.w /\ flag = (type = "struct") /\ y = [u EXCEPT !.inStruct = flag]
      OBVIOUS
    <3>2. x = y
      BY <3>1
    <3> HIDE DEF x
    <3>3. WriterOK(u)
      BY <2>1, <3>1
    <3> QED BY <2>1, <3>1, <3>2, <3>3, InStructSet
  <2> HIDE DEF x
  <2>3. StackInv(x, a)
    BY <1>3, <2>2, OpenInv DEF r
  <2> QED BY <1>1, <1>3, <2>3
<1>4. CASE r.err # "ok"
  <2>1. r.w = w
    BY <1>2, <1>4, OpenPatchStack
  <2> HIDE DEF r
  <2> QED BY <1>1, <1>4, <2>1
<1> QED BY <1>3, <1>4

LEMMA StartLobInv ==
  ASSUME StackInv(w, asked), StartLob
  PROVE  StackInv(w', asked')
<1> DEFINE r == OpenPatch(w, "lob")
           x == [r.w EXCEPT !.lob = "lob"]
           v == Value(asked, "lob", 0)
           a == PutOpen(Used(asked, v), v)
<1>1. /\ r.err = "ok" => w' = x /\ asked' = a
      /\ r.err # "ok" => w' = r.w /\ asked' = asked
  BY DEF StartLob, Ends, Ok
<1>2. WriterOK(w)
  BY DEF StackInv
<1>3. CASE r.err = "ok"
  <2>1. WriterOK(r.w) /\ r.w.anns = <<>> /\ r.w.inStruct = w.inStruct
    BY <1>2, <1>3, OpenPatchStack
  <2> HIDE DEF r
  <2>2. /\ WriterOK(x) /\ StackTypes(x) = StackTypes(r.w) /\ x.anns = <<>>
        /\ x.lob = "lob" /\ x.inStruct = w.inStruct
    <3>1. PICK u, y, lob : u = r.w /\ lob = "lob" /\ y = [u EXCEPT !.lob = lob]
      OBVIOUS
    <3>2. x = y
      BY <3>1
    <3> HIDE DEF x
    <3>3. WriterOK(u)
      BY <2>1, <3>1
    <3>4. y = [u EXCEPT !.lob = lob]
      BY <3>1
    <3>5. WriterOK(y) /\ StackTypes(y) = StackTypes(u) /\ y.lob = lob
          /\ y.inStruct = u.inStruct /\ y.anns = u.anns
      BY <3>3, <3>4, LobSet
    <3> QED BY <2>1, <3>1, <3>2, <3>5
  <2> HIDE DEF x
  <2>3. StackInv(x, a)
    BY <1>3, <2>2, OpenInv DEF r, None
  <2> QED BY <1>1, <1>3, <2>3
<1>4. CASE r.err # "ok"
  <2>1. r.w = w
    BY <1>2, <1>4, OpenPatchStack
  <2> HIDE DEF r
  <2> QED BY <1>1, <1>4, <2>1
<1> QED BY <1>3, <1>4

LEMMA AppendLobInv ==
  ASSUME StackInv(w, asked), NEW n, AppendLob(n)
  PROVE  StackInv(w', asked')
<1>1. WriterOK(w) /\ AskedOK(asked)
  BY DEF StackInv
<1>2. CASE w.lob = None
  <2>1. w' = w /\ asked' = asked
    BY <1>2 DEF AppendLob, Ends, Fails
  <2> QED BY <2>1
<1>3. CASE w.lob # None
  <2> DEFINE k == Len(asked.open)
             e == Emit(w, <<"bytes", n>>)
             u == PatchLengths(e, n)
             body == asked.open[k].body + n
             new == [asked.open EXCEPT ![k] = [@ EXCEPT !.body = body]]
             b == [asked EXCEPT !.open[k].body = @ + n]
  <2>1. w' = u /\ asked' = b
    BY <1>3 DEF AppendLob, Ends, Ok
  <2>2. Keeps(e, w)
    BY <1>1, KeepsFields
  <2> HIDE DEF e
  <2>3. Keeps(u, e)
    BY <2>2, PatchLengthsKeeps DEF Keeps, Mirrors
  <2>4. k \in 1..k
    BY <1>1, <1>3 DEF StackInv, LobOf, AskedOK, IsSeq
  <2>5. IsRecord(b, {"open", "anns"}) /\ b.open = new /\ b.anns = asked.anns
    BY <1>1 DEF AskedOK, IsRecord
  <2>6. /\ SameOpen(new, asked.open) /\ IsSeq(new)
        /\ \A i \in 1..Len(asked.open) : IsRecord(new[i], {"type", "anns"})
    BY <1>1, <2>4, BodyKeeps DEF AskedOK
  <2> HIDE DEF u, b, new
  <2>7. AskedOK(b)
    BY <1>1, <2>5, <2>6, SameOpenOK DEF AskedOK
  <2>8. Keeps(u, w)
    BY <2>2, <2>3, KeepsTransitive
  <2>9. StackInv(u, b)
    BY <2>5, <2>6, <2>7, <2>8, InvSame DEF Keeps, StackInv
  <2> QED BY <2>1, <2>9
<1> QED BY <1>2, <1>3

(* The innermost value is closed. *)
LEMMA ClosedStack ==
  ASSUME NEW v, NEW a, StackInv(v, a), a.open # <<>>, NEW u, u = CloseValue(Pop(v)),
         NEW b, b = PutClosed(a)
  PROVE  /\ WriterOK(u) /\ u.lob = v.lob /\ u.inStruct = v.inStruct /\ u.anns = v.anns
         /\ AskedOK(b) /\ b.anns = a.anns /\ ~LobOf(b.open)
         /\ StackHolds(StackTypes(u), b.open)
         /\ InStructAfter(u) = InStructOf(b.open)
         /\ LobOf(a.open) => InStructOf(b.open) = InStructOf(a.open)
<1>1. WriterOK(v) /\ AskedOK(a)
  BY DEF StackInv
<1>2. /\ AskedOK(b) /\ b.anns = a.anns /\ Len(b.open) \in Nat /\ ~LobOf(b.open)
      /\ Len(a.open) = Len(b.open) + 1
      /\ \A i \in 1..Len(b.open) : /\ b.open[i].type = a.open[i].type
                                   /\ b.open[i].anns = a.open[i].anns
                                   /\ b.open[i].type \in {"list", "struct"}
  BY <1>1, PutClosedIs
<1>3. PICK n, types, low, bare :
         /\ n \in Nat /\ n = Len(b.open)
         /\ types = StackTypes(v) /\ low = Lowered(types) /\ bare = Bare(low)
  BY <1>2
<1>4. /\ Len(types) # 0 /\ StackHolds(bare, b.open) /\ Len(bare) \in Nat
      /\ n = 0 <=> Len(bare) = 0
      /\ n # 0 => bare[Len(bare)] = b.open[n].type
  <2>1. IsSeq(types) /\ StackHolds(types, a.open)
    BY <1>1, <1>3, StackTypesLen DEF StackInv
  <2>2. Closes(a.open, b.open, n)
    BY <1>2, <1>3 DEF Closes
  <2> QED BY <1>3, <2>1, <2>2, HoldsLowered
<1>5. v.stack # <<>>
  BY <1>1, <1>3, <1>4, StackTypesLen
<1>6. /\ WriterOK(Pop(v)) /\ StackTypes(Pop(v)) = low
      /\ Pop(v).lob = v.lob /\ Pop(v).inStruct = v.inStruct /\ Pop(v).anns = v.anns
  BY <1>1, <1>3, <1>5, PopStack
<1>7. /\ WriterOK(u) /\ StackTypes(u) = bare
      /\ u.lob = v.lob /\ u.inStruct = v.inStruct /\ u.anns = v.anns
  BY <1>3, <1>6, CloseValueStack DEF Bare
<1>8. InStructOf(b.open) = (n # 0 /\ b.open[n].type = "struct")
  BY <1>2, <1>3 DEF InStructOf
<1>9. InStructAfter(u) = (n # 0 /\ b.open[n].type = "struct")
  <2>1. Len(bare) = Len(u.stack) /\ (u.stack = <<>> <=> Len(u.stack) = 0)
        /\ (u.stack # <<>> => bare[Len(u.stack)] = Top(u).type)
    BY <1>7, StackTypesLen
  <2> QED BY <1>4, <2>1 DEF InStructAfter
<1>10. LobOf(a.open) => InStructOf(a.open) = (n # 0 /\ b.open[n].type = "struct")
  <2>1. (n + 1 > 1 <=> n # 0) /\ (n + 1) - 1 = n /\ (n # 0 => n \in 1..n)
    BY <1>3
  <2> QED BY <1>2, <1>3, <2>1 DEF InStructOf
<1> QED BY <1>2, <1>4, <1>7, <1>8, <1>9, <1>10

LEMMA FinishLobInv ==
  ASSUME StackInv(w, asked), FinishLob
  PROVE  StackInv(w', asked')
<1>1. CASE w.lob = None
  <2>1. w' = w /\ asked' = asked
    BY <1>1 DEF FinishLob, Ends, Fails
  <2> QED BY <2>1
<1>2. CASE w.lob # None
  <2>1. PICK u, b : u = CloseValue(Pop(w)) /\ b = PutClosed(asked)
    OBVIOUS
  <2>2. w' = [u EXCEPT !.lob = None] /\ asked' = b
    BY <1>2, <2>1 DEF FinishLob, Ends, Ok
  <2>3. LobOf(asked.open) /\ asked.open # <<>>
    BY <1>2, IsSeqEmpty DEF StackInv, AskedOK, LobOf
  <2>4. /\ WriterOK(u) /\ u.inStruct = w.inStruct /\ u.anns = w.anns
        /\ AskedOK(b) /\ b.anns = asked.anns /\ ~LobOf(b.open)
        /\ StackHolds(StackTypes(u), b.open)
        /\ InStructOf(b.open) = InStructOf(asked.open)
    BY <2>1, <2>3, ClosedStack
  <2>5. /\ WriterOK(w') /\ StackTypes(w') = StackTypes(u) /\ w'.lob = None
        /\ w'.inStruct = u.inStruct /\ w'.anns = u.anns
    BY <2>2, <2>4, LobSet
  <2>6. LobOf(b.open) = FALSE
    BY <2>4 DEF LobOf
  <2> QED BY <2>2, <2>4, <2>5, <2>6 DEF StackInv
<1> QED BY <1>1, <1>2

LEMMA RecycledKeeps ==
  ASSUME NEW v, WriterOK(v), v.stack = <<>>
  PROVE  Keeps(Recycled(v), v)
<1> DEFINE u == Recycled(v)
<1>1. /\ IsRecord(u, {"patches", "stack", "lob", "inStruct", "anns", "limit"})
      /\ u.patches = <<>> /\ u.stack = <<>> /\ u.lob = v.lob
      /\ u.inStruct = v.inStruct /\ u.anns = v.anns /\ u.limit = v.limit
  BY DEF WriterOK, IsRecord, Recycled
<1>2. IsSeq(<<>>) /\ Len(<<>>) = 0 /\ <<>> \in Seq(1..0)
  BY DEF IsSeq
<1> HIDE DEF u
<1>3. WriterOK(u)
  BY <1>1, <1>2 DEF WriterOK
<1>4. StackTypes(u) = StackTypes(v)
  BY <1>1, <1>2 DEF StackTypes
<1> QED BY <1>1, <1>3, <1>4 DEF Keeps, Mirrors, u

(* A failed assertion is not explored. *)
LEMMA NoTableRefused ==
  ASSUME Careful, NEW v, NEW a, Ends(Fails(v, "no table"), a)
  PROVE  FALSE
BY DEF Careful, Ends, Fails

LEMMA FinishContainerInv ==
  ASSUME Careful, StackInv(w, asked), FinishContainer
  PROVE  StackInv(w', asked')
<1>1. PICK u, b, x : u = CloseValue(Pop(w)) /\ b = PutClosed(asked)
                     /\ x = [u EXCEPT !.inStruct = InStructAfter(u)]
  OBVIOUS
<1>2. w.lob = None
  BY DEF FinishContainer, Careful, Allowed
<1>3. CASE w.stack = <<>>
  <2>1. w' = w /\ asked' = asked
    BY <1>3 DEF FinishContainer, Ends, Fails
  <2> QED BY <2>1
<1>4. ASSUME w.stack # <<>>
       PROVE  asked.open # <<>>
  <2>1. Len(StackTypes(w)) = Len(w.stack) /\ Len(w.stack) # 0
    BY <1>4, StackTypesLen DEF StackInv
  <2>2. Len(StackTypes(w)) = PatchesOf(asked.open, Len(asked.open))
    BY DEF StackInv, StackHolds
  <2>3. PatchesOf(asked.open, 0) = 0
    BY PatchesOfNext
  <2> QED BY <2>1, <2>2, <2>3
<1> SUFFICES ASSUME w.stack # <<>>
             PROVE  StackInv(w', asked')
  BY <1>3
<1>5. /\ WriterOK(u) /\ u.lob = w.lob /\ u.anns = w.anns
      /\ AskedOK(b) /\ b.anns = asked.anns /\ ~LobOf(b.open)
      /\ StackHolds(StackTypes(u), b.open) /\ InStructAfter(u) = InStructOf(b.open)
  BY <1>1, <1>2, <1>4, ClosedStack
<1>6. /\ WriterOK(x) /\ StackTypes(x) = StackTypes(u) /\ x.lob = u.lob
      /\ x.inStruct = InStructOf(b.open) /\ x.anns = u.anns
  <2>1. PICK flag : flag = InStructAfter(u)
    OBVIOUS
  <2>2. x = [u EXCEPT !.inStruct = flag]
    BY <1>1, <2>1
  <2> QED BY <1>5, <2>1, <2>2, InStructSet
<1>7. StackInv(x, b)
  <2>1. LobOf(b.open) = FALSE
    BY <1>5 DEF LobOf
  <2>2. Len(w.anns) = Len(asked.anns)
    BY DEF StackInv
  <2> QED BY <1>2, <1>5, <1>6, <2>1, <2>2 DEF StackInv
<1>8. \/ w' = x /\ asked' = b
      \/ w' = Recycled(x) /\ asked' = PutSent(b) /\ u.stack = <<>>
      \/ Ends(Fails(x, "no table"), asked)
  <2>1. \/ Ends(Ok(x), b)
        \/ u.stack = <<>> /\ Ends(Ok(Recycled(x)), PutSent(b))
        \/ Ends(Fails(x, "no table"), asked)
    BY <1>1 DEF FinishContainer
  <2> QED BY <2>1 DEF Ends, Ok
<1>9. CASE w' = x /\ asked' = b
  BY <1>7, <1>9
<1>10. CASE w' = Recycled(x) /\ asked' = PutSent(b) /\ u.stack = <<>>
  <2>1. x.stack = <<>>
    BY <1>5, <1>6, <1>10, StackTypesLen
  <2>2. Keeps(w', x)
    BY <1>6, <1>10, <2>1, RecycledKeeps
  <2>3. AskedOK(asked') /\ asked'.open = b.open /\ asked'.anns = b.anns
    BY <1>5, <1>10, PutSentKeeps
  <2> QED BY <1>7, <2>2, <2>3, InvSame, SameOpenRefl DEF Keeps, StackInv
<1> QED BY <1>8, <1>9, <1>10, NoTableRefused

LEMMA FlushInv ==
  ASSUME Careful, StackInv(w, asked), Flush
  PROVE  StackInv(w', asked')
<1>1. w.stack = <<>>
  BY DEF Flush, NothingOpen, Careful, Allowed
<1>2. w' = Recycled(w) /\ asked' = PutSent(asked)
  <2>1. ~Ends(Fails(w, "no table"), asked)
    BY NoTableRefused
  <2> QED BY <2>1 DEF Flush, Ends, Ok
<1>3. Keeps(w', w)
  BY <1>1, <1>2, RecycledKeeps DEF StackInv
<1>4. AskedOK(asked') /\ asked'.open = asked.open /\ asked'.anns = asked.anns
  BY <1>2, PutSentKeeps DEF StackInv
<1> QED BY <1>3, <1>4, InvSame, SameOpenRefl DEF Keeps, StackInv

LEMMA ClosedKeeps ==
  ASSUME NEW v, WriterOK(v)
  PROVE  Keeps([v EXCEPT !.closed = TRUE], v)
<1>1. PICK u : u = [v EXCEPT !.closed = TRUE]
  OBVIOUS
<1>2. IsRecord(v, {"patches", "stack", "lob", "inStruct", "anns", "limit"})
  BY DEF WriterOK
<1>3. /\ IsRecord(u, {"patches", "stack", "lob", "inStruct", "anns", "limit"})
      /\ u.patches = v.patches /\ u.stack = v.stack /\ u.lob = v.lob
      /\ u.inStruct = v.inStruct /\ u.anns = v.anns /\ u.limit = v.limit
  BY <1>1, <1>2 DEF IsRecord
<1>4. Keeps(u, v)
  BY <1>3, SameFields
<1> QED BY <1>1, <1>4

LEMMA CloseInv ==
  ASSUME Careful, StackInv(w, asked), Close
  PROVE  StackInv(w', asked')
<1>1. w.stack = <<>> /\ WriterOK(w)
  BY DEF Close, NothingOpen, Careful, Allowed, StackInv
<1>2. \/ w' = [w EXCEPT !.closed = TRUE] /\ asked' = asked
      \/ w' = [Recycled(w) EXCEPT !.closed = TRUE] /\ asked' = PutSent(asked)
  <2>1. ~Ends(Fails(w, "no table"), asked)
    BY NoTableRefused
  <2> QED BY <2>1 DEF Close, Ends, Ok
<1>3. Keeps(w', w)
  <2>1. PICK v : v = Recycled(w)
    OBVIOUS
  <2>2. Keeps(v, w)
    BY <1>1, <2>1, RecycledKeeps
  <2>3. Keeps([v EXCEPT !.closed = TRUE], v)
    BY <2>2, ClosedKeeps DEF Keeps, Mirrors
  <2>4. Keeps([v EXCEPT !.closed = TRUE], w)
    BY <2>2, <2>3, KeepsTransitive
  <2>5. Keeps([w EXCEPT !.closed = TRUE], w)
    BY <1>1, ClosedKeeps
  <2> QED BY <1>2, <2>1, <2>4, <2>5
<1>4. AskedOK(asked') /\ asked'.open = asked.open /\ asked'.anns = asked.anns
  BY <1>2, PutSentKeeps DEF StackInv
<1> QED BY <1>3, <1>4, InvSame, SameOpenRefl DEF Keeps, StackInv

-----------------------------------------------------------------------------
(* The calls that no value is written by. *)

(* A field that the stack does not depend on. *)
LEMMA FieldKeeps ==
  ASSUME NEW v, WriterOK(v)
  PROVE  /\ \A name : Keeps(WithField(v, name), v)
         /\ \A sid : Keeps(WithFieldSid(v, sid), v)
         /\ \A n : Keeps(Enlarged(v, n), v)
         /\ \A t : Keeps([v EXCEPT !.table = t], v)
         /\ \A n : Keeps([v EXCEPT !.used = n], v)
<1> DEFINE F == {"patches", "stack", "lob", "inStruct", "anns", "limit"}
<1>1. IsRecord(v, F)
  BY DEF WriterOK
<1>2. ASSUME NEW name
      PROVE  Keeps(WithField(v, name), v)
  BY <1>1, SameFields DEF WithField, IsRecord
<1>3. ASSUME NEW sid
      PROVE  Keeps(WithFieldSid(v, sid), v)
  BY <1>1, SameFields DEF WithFieldSid, IsRecord
<1>4. ASSUME NEW n
      PROVE  Keeps([v EXCEPT !.used = 0, !.room = n], v)
  BY <1>1, SameFields DEF IsRecord
<1>5. ASSUME NEW n
      PROVE  Keeps(Enlarged(v, n), v)
  BY <1>4, KeepsFields DEF Enlarged
<1>6. ASSUME NEW t
      PROVE  Keeps([v EXCEPT !.table = t], v)
  BY <1>1, SameFields DEF IsRecord
<1>7. ASSUME NEW n
      PROVE  Keeps([v EXCEPT !.used = n], v)
  BY <1>1, SameFields DEF IsRecord
<1> QED BY <1>2, <1>3, <1>5, <1>6, <1>7

LEMMA WithLimitStack ==
  ASSUME NEW v, WriterOK(v), NEW n, NEW r, r = WithLimit(v, n)
  PROVE  /\ r.err # "ok" => r.w = v
         /\ r.err = "ok" => Mirrors(r.w, v) /\ r.w.anns = <<>> /\ r.w.limit = n
<1> DEFINE m == n * StringSize
<1>1. r = Then(Allocate(v, m), LAMBDA u : Ok([u EXCEPT !.limit = n, !.anns = <<>>]))
  BY DEF WithLimit
<1> HIDE DEF m
<1>2. CASE v.used + m >= v.room
  BY <1>1, <1>2 DEF Allocate, Then, Fails
<1>3. CASE ~(v.used + m >= v.room)
  <2>1. PICK x, u : x = [v EXCEPT !.used = @ + m] /\ u = [x EXCEPT !.limit = n, !.anns = <<>>]
    OBVIOUS
  <2>2. r.err = "ok" /\ r.w = u
    BY <1>1, <1>3, <2>1 DEF Allocate, Then, Ok
  <2>3. x = [v EXCEPT !.used = v.used + m]
    BY <2>1
  <2>4. Keeps(x, v)
    BY <2>3, FieldKeeps
  <2>5. /\ IsRecord(u, {"patches", "stack", "lob", "inStruct", "anns", "limit"})
        /\ u.patches = x.patches /\ u.stack = x.stack /\ u.lob = x.lob
        /\ u.inStruct = x.inStruct /\ u.anns = <<>> /\ u.limit = n
    <3>1. IsRecord(x, {"patches", "stack", "lob", "inStruct", "anns", "limit"})
      BY <2>4 DEF Keeps, Mirrors, WriterOK
    <3> QED BY <2>1, <3>1 DEF IsRecord
  <2>6. IsSeq(<<>>)
    BY DEF IsSeq
  <2>7. WriterOK(u) /\ StackTypes(u) = StackTypes(x)
    BY <2>4, <2>5, <2>6 DEF Keeps, Mirrors, WriterOK, StackTypes
  <2> QED BY <2>2, <2>4, <2>5, <2>7 DEF Keeps, Mirrors
<1> QED BY <1>2, <1>3

LEMMA AnnotateStack ==
  ASSUME NEW v, WriterOK(v), v.limit # Unset, NEW type, NEW anns, IsSeq(anns), NEW u,
         u = Annotate(v, type, anns)
  PROVE  Mirrors(u, v) /\ Len(u.anns) = Len(v.anns) + Len(anns)
<1>1. /\ IsRecord(u, {"patches", "stack", "lob", "inStruct", "anns", "limit"})
      /\ u.patches = v.patches /\ u.stack = v.stack /\ u.lob = v.lob
      /\ u.inStruct = v.inStruct /\ u.anns = v.anns \o anns /\ u.limit = v.limit
  BY DEF WriterOK, IsRecord, Annotate
<1>2. IsSeq(u.anns) /\ Len(u.anns) = Len(v.anns) + Len(anns)
  BY <1>1, ConcatIsSeq DEF WriterOK
<1>3. WriterOK(u) /\ StackTypes(u) = StackTypes(v)
  BY <1>1, <1>2 DEF WriterOK, StackTypes
<1> QED BY <1>1, <1>2, <1>3 DEF Mirrors

LEMMA WithAnnotationStack ==
  ASSUME NEW v, WriterOK(v), NEW type, NEW ann, NEW r, r = WithAnnotation(v, type, ann)
  PROVE  /\ r.err # "ok" => r.w = v
         /\ r.err = "ok" => Mirrors(r.w, v) /\ Len(r.w.anns) = Len(v.anns) + 1
<1>1. PICK one : one = <<ann>>
  OBVIOUS
<1>2. IsSeq(one) /\ Len(one) = 1
  BY <1>1 DEF IsSeq
<1>3. CASE Mixes(v, type) \/ (v.limit # Unset /\ Len(v.anns) >= v.limit)
  BY <1>3 DEF WithAnnotation, Fails
<1>4. CASE ~Mixes(v, type) /\ v.limit = Unset
  <2>1. PICK m, y, u : m = WithLimit(v, MaxAnns) /\ y = m.w /\ u = Annotate(y, type, one)
    OBVIOUS
  <2>2. r = IF m.err = "ok" THEN Ok(u) ELSE m
    BY <1>1, <1>4, <2>1 DEF WithAnnotation, Then
  <2>3. /\ m.err # "ok" => y = v
        /\ m.err = "ok" => Mirrors(y, v) /\ y.anns = <<>> /\ y.limit = MaxAnns
    BY <2>1, WithLimitStack
  <2>4. v.anns = <<>>
    BY <1>4 DEF WriterOK
  <2>5. CASE m.err = "ok"
    <3>1. WriterOK(y) /\ y.limit # Unset
      BY <2>3, <2>5, MaxAnnsSet DEF Mirrors
    <3>2. Mirrors(u, y) /\ Len(u.anns) = Len(y.anns) + Len(one)
      <4>1. u = Annotate(y, type, one)
        BY <2>1
      <4> QED BY <1>2, <3>1, <4>1, AnnotateStack, ZenonT(60)
    <3>3. r.err = "ok" /\ r.w = u
      BY <2>2, <2>5 DEF Ok
    <3> QED BY <2>3, <2>4, <1>2, <2>5, <3>2, <3>3 DEF Mirrors
  <2>6. CASE m.err # "ok"
    BY <2>1, <2>2, <2>3, <2>6
  <2> QED BY <2>5, <2>6
<1>5. CASE ~Mixes(v, type) /\ v.limit # Unset /\ ~(Len(v.anns) >= v.limit)
  <2>1. PICK u : u = Annotate(v, type, one)
    OBVIOUS
  <2>2. r.err = "ok" /\ r.w = u
    BY <1>1, <1>5, <2>1 DEF WithAnnotation, Ok
  <2>3. Mirrors(u, v) /\ Len(u.anns) = Len(v.anns) + Len(one)
    <3>1. v.limit # Unset /\ u = Annotate(v, type, one)
      BY <1>5, <2>1
    <3> QED BY <1>2, <3>1, AnnotateStack, ZenonT(60)
  <2> QED BY <1>2, <2>2, <2>3
<1> QED BY <1>3, <1>4, <1>5

LEMMA WithAnnotationsStack ==
  ASSUME NEW v, WriterOK(v), NEW type, NEW anns, IsSeq(anns), NEW r,
         r = WithAnnotations(v, type, anns)
  PROVE  /\ Mirrors(r.w, v)
         /\ r.err # "ok" => Len(r.w.anns) = Len(v.anns)
         /\ r.err = "ok" => Len(r.w.anns) = Len(v.anns) + Len(anns)
<1>1. PICK made, u : made = (IF v.limit = Unset THEN WithLimit(v, MaxAnns) ELSE Ok(v))
                     /\ u = made.w
  OBVIOUS
<1>2. r = IF Mixes(v, type) THEN Fails(v, "state")
          ELSE IF made.err # "ok" THEN made
          ELSE IF Len(u.anns) + Len(anns) > u.limit THEN Fails(u, "too many")
          ELSE Ok(IF anns = <<>> THEN u ELSE Annotate(u, type, anns))
  BY <1>1 DEF WithAnnotations, Then
<1>3. /\ made.err # "ok" => u = v
      /\ made.err = "ok" => Mirrors(u, v) /\ Len(u.anns) = Len(v.anns) /\ u.limit # Unset
  <2>1. CASE v.limit = Unset
    <3>1. v.anns = <<>> /\ made = WithLimit(v, MaxAnns)
      BY <1>1, <2>1 DEF WriterOK
    <3> QED BY <1>1, <3>1, WithLimitStack, MaxAnnsSet
  <2>2. CASE v.limit # Unset
    BY <1>1, <2>2, KeepsFields DEF Ok, Keeps
  <2> QED BY <2>1, <2>2
<1>4. Mirrors(v, v)
  BY KeepsFields DEF Keeps
<1>5. CASE Mixes(v, type) \/ made.err # "ok"
  <2>1. CASE Mixes(v, type)
    <3>1. r.err = "state" /\ r.w = v
      BY <1>2, <2>1 DEF Fails
    <3> QED BY <1>4, <3>1
  <2>2. CASE ~Mixes(v, type) /\ made.err # "ok"
    <3>1. r.err # "ok" /\ r.w = v
      BY <1>1, <1>2, <1>3, <2>2
    <3> QED BY <1>4, <3>1
  <2> QED BY <1>5, <2>1, <2>2
<1>6. CASE ~Mixes(v, type) /\ made.err = "ok" /\ Len(u.anns) + Len(anns) > u.limit
  <2>1. r = Fails(u, "too many")
    BY <1>2, <1>6
  <2>2. r.err = "too many" /\ r.w = u
    BY <2>1, FailsIs
  <2> QED BY <1>3, <1>6, <2>2
<1>7. CASE ~Mixes(v, type) /\ made.err = "ok" /\ ~(Len(u.anns) + Len(anns) > u.limit)
  <2>1. PICK x : x = IF anns = <<>> THEN u ELSE Annotate(u, type, anns)
    OBVIOUS
  <2>2. r.err = "ok" /\ r.w = x
    BY <1>2, <1>7, <2>1 DEF Ok
  <2>3. Mirrors(x, u) /\ Len(x.anns) = Len(u.anns) + Len(anns)
    <3>1. CASE anns = <<>>
      <4>1. Len(anns) = 0 /\ Len(u.anns) \in Nat /\ x = u
        BY <1>3, <1>7, <2>1, <3>1 DEF Mirrors, WriterOK, IsSeq
      <4> QED BY <1>3, <1>7, <4>1 DEF Mirrors
    <3>2. CASE anns # <<>>
      BY <1>3, <1>7, <2>1, <3>2, AnnotateStack DEF Mirrors
    <3> QED BY <3>1, <3>2
  <2> QED BY <1>3, <1>7, <2>2, <2>3 DEF Mirrors
<1> QED BY <1>5, <1>6, <1>7

(* What the caller asks for then: a field name, or more annotations.        *)
LEMMA AskedField ==
  ASSUME NEW a, AskedOK(a), NEW field, NEW b, b = [a EXCEPT !.field = field]
  PROVE  AskedOK(b) /\ b.open = a.open /\ b.anns = a.anns
<1>1. IsRecord(b, {"open", "anns"}) /\ b.open = a.open /\ b.anns = a.anns
  BY DEF AskedOK, IsRecord
<1> QED BY <1>1 DEF AskedOK

LEMMA AskedAnns ==
  ASSUME NEW a, AskedOK(a), NEW anns, IsSeq(anns), NEW b, b = [a EXCEPT !.anns = anns]
  PROVE  AskedOK(b) /\ b.open = a.open /\ b.anns = anns
<1>1. IsRecord(b, {"open", "anns"}) /\ b.open = a.open /\ b.anns = anns
  BY DEF AskedOK, IsRecord
<1> QED BY <1>1 DEF AskedOK

(* A call that leaves the annotations as they were. *)
LEMMA PendingSame ==
  ASSUME StackInv(w, asked), NEW r, NEW a, Ends(r, a), Keeps(r.w, w),
         AskedOK(a), a.open = asked.open, a.anns = asked.anns
  PROVE  StackInv(w', asked')
<1>1. w' = r.w /\ (asked' = a \/ asked' = asked)
  BY DEF Ends
<1>2. AskedOK(asked') /\ asked'.open = asked.open /\ asked'.anns = asked.anns
  BY <1>1 DEF StackInv
<1>3. Keeps(w', w)
  BY <1>1
<1> QED BY <1>2, <1>3, InvSame, SameOpenRefl DEF Keeps, StackInv

(* One that adds to them, or is refused. *)
LEMMA PendingMore ==
  ASSUME StackInv(w, asked), NEW r, NEW anns, IsSeq(anns), NEW more, IsSeq(more),
         Len(more) = Len(asked.anns) + Len(anns),
         Mirrors(r.w, w),
         r.err # "ok" => Len(r.w.anns) = Len(w.anns),
         r.err = "ok" => Len(r.w.anns) = Len(w.anns) + Len(anns),
         Ends(r, [asked EXCEPT !.anns = more])
  PROVE  StackInv(w', asked')
<1>1. PICK a : a = [asked EXCEPT !.anns = more]
  OBVIOUS
<1>2. w' = r.w /\ asked' = IF r.err = "ok" THEN a ELSE asked
  BY <1>1 DEF Ends
<1>3. AskedOK(a) /\ a.open = asked.open /\ a.anns = more
  BY <1>1, AskedAnns DEF StackInv
<1>4. AskedOK(asked') /\ SameOpen(asked'.open, asked.open) /\ Len(w'.anns) = Len(asked'.anns)
  <2>1. CASE r.err = "ok"
    BY <1>2, <1>3, <2>1, SameOpenRefl DEF StackInv
  <2>2. CASE r.err # "ok"
    BY <1>2, <2>2, SameOpenRefl DEF StackInv
  <2> QED BY <2>1, <2>2
<1> QED BY <1>2, <1>4, InvSame

LEMMA FieldInv ==
  ASSUME StackInv(w, asked),
         \/ \E name \in Names : FieldName(name)
         \/ \E sid \in 1..Len(NamesOf(w.table)) : FieldSid(sid)
         \/ ClearField
         \/ \E n \in TempSizes : SetTempSize(n)
         \/ \E name \in Names : MakeSymbol(name)
         \/ GetFieldSid
         \/ \E i \in 1..2 : GetAnnotationSid(i)
         \/ \E i \in Imports : SetTable(i)
  PROVE  StackInv(w', asked')
<1>1. WriterOK(w) /\ AskedOK(asked)
  BY DEF StackInv
<1>2. Keeps(w, w)
  BY <1>1, KeepsFields
<1>3. ASSUME NEW v, Keeps(v, w), NEW field, Ends(Ok(v), [asked EXCEPT !.field = field])
      PROVE  StackInv(w', asked')
  <2>1. PICK a : a = [asked EXCEPT !.field = field]
    OBVIOUS
  <2>2. AskedOK(a) /\ a.open = asked.open /\ a.anns = asked.anns
    BY <1>1, <2>1, AskedField
  <2>3. PICK r : r = Ok(v) /\ Ends(r, a)
    BY <1>3, <2>1
  <2>4. Keeps(r.w, w)
    BY <1>3, <2>3 DEF Ok
  <2> QED BY <2>2, <2>3, <2>4, PendingSame
<1>4. ASSUME NEW r, Keeps(r.w, w), Ends(r, asked)
      PROVE  StackInv(w', asked')
  BY <1>1, <1>4, PendingSame
<1>5. ASSUME NEW v, Keeps(v, w), Ends(Ok(v), asked)
      PROVE  StackInv(w', asked')
  BY <1>4, <1>5 DEF Ok
<1>6. ASSUME NEW name, FieldName(name)
      PROVE  StackInv(w', asked')
  BY <1>1, <1>3, <1>6, FieldKeeps DEF FieldName
<1>7. ASSUME NEW sid, FieldSid(sid)
      PROVE  StackInv(w', asked')
  BY <1>1, <1>3, <1>7, FieldKeeps DEF FieldSid
<1>8. ASSUME ClearField
      PROVE  StackInv(w', asked')
  BY <1>1, <1>3, <1>8, KeepsFields DEF ClearField
<1>9. ASSUME NEW n, SetTempSize(n)
      PROVE  StackInv(w', asked')
  BY <1>1, <1>5, <1>9, FieldKeeps DEF SetTempSize
<1>10. ASSUME NEW name, MakeSymbol(name)
       PROVE  StackInv(w', asked')
  BY <1>1, <1>5, <1>10, KeepsFields DEF MakeSymbol
<1>11. ASSUME GetFieldSid
       PROVE  StackInv(w', asked')
  <2>1. Keeps(FieldAsSid(w).w, w)
    BY <1>1, FieldAsSidKeeps
  <2> QED BY <1>4, <1>11, <2>1 DEF GetFieldSid
<1>12. ASSUME NEW i, GetAnnotationSid(i)
       PROVE  StackInv(w', asked')
  <2>1. PICK r : r = (IF i > Len(w.anns) THEN Fails(w, "arg")
                      ELSE Ok(IF w.annsType = BySid THEN w ELSE AddSymbol(w, w.anns[i])))
                 /\ Ends(r, asked)
    BY <1>12 DEF GetAnnotationSid
  <2>2. r.w = w \/ r.w = AddSymbol(w, w.anns[i])
    BY <2>1 DEF Ok, Fails
  <2>3. Keeps(r.w, w)
    BY <1>1, <1>2, <2>2, KeepsFields
  <2> QED BY <1>4, <2>1, <2>3
<1>13. ASSUME NEW i, SetTable(i)
       PROVE  StackInv(w', asked')
  <2>1. PICK r, t : r = (IF i = <<>> THEN Fails(w, "arg") ELSE Ok([w EXCEPT !.table = t]))
                    /\ Ends(r, asked)
    BY <1>13 DEF SetTable, SetSymbolTable
  <2>2. r.w = w \/ r.w = [w EXCEPT !.table = t]
    BY <2>1 DEF Ok, Fails
  <2>3. Keeps(r.w, w)
    BY <1>1, <1>2, <2>2, FieldKeeps
  <2> QED BY <1>4, <2>1, <2>3
<1> QED BY <1>6, <1>7, <1>8, <1>9, <1>10, <1>11, <1>12, <1>13

LEMMA AnnotationInv ==
  ASSUME StackInv(w, asked),
         \/ \E name \in Names : AddAnnotation(name) \/ AddAnnotations(<<name, name>>)
         \/ \E sid \in 1..Len(NamesOf(w.table)) :
              AddAnnotationSid(sid) \/ AddAnnotationSids(<<sid, sid>>)
         \/ ClearAnns
         \/ \E n \in Limits : SetMaxAnnotations(n)
  PROVE  StackInv(w', asked')
<1>1. WriterOK(w) /\ AskedOK(asked) /\ IsSeq(asked.anns) /\ IsSeq(w.anns)
      /\ Len(w.anns) = Len(asked.anns)
  BY DEF StackInv, WriterOK, AskedOK
<1>2. ASSUME NEW type, NEW ann, NEW e,
             Ends(WithAnnotation(w, type, ann), [asked EXCEPT !.anns = Append(@, e)])
      PROVE  StackInv(w', asked')
  <2>1. PICK r, one, more : /\ r = WithAnnotation(w, type, ann) /\ one = <<ann>>
                            /\ more = Append(asked.anns, e)
    OBVIOUS
  <2>2. /\ r.err # "ok" => r.w = w
        /\ r.err = "ok" => Mirrors(r.w, w) /\ Len(r.w.anns) = Len(w.anns) + 1
    BY <1>1, <2>1, WithAnnotationStack
  <2>3. IsSeq(one) /\ Len(one) = 1
    BY <2>1 DEF IsSeq
  <2>4. IsSeq(more) /\ Len(more) = Len(asked.anns) + 1
    BY <1>1, <2>1, AppendIsSeq
  <2>5. Mirrors(r.w, w)
    BY <1>1, <2>2, KeepsFields DEF Keeps
  <2>6. Ends(r, [asked EXCEPT !.anns = more])
    BY <1>2, <2>1
  <2> QED BY <2>2, <2>3, <2>4, <2>5, <2>6, PendingMore
<1>3. ASSUME NEW type, NEW anns, IsSeq(anns), NEW names, IsSeq(names), Len(names) = Len(anns),
             Ends(WithAnnotations(w, type, anns), [asked EXCEPT !.anns = @ \o names])
      PROVE  StackInv(w', asked')
  <2>1. PICK r, more : r = WithAnnotations(w, type, anns) /\ more = asked.anns \o names
    OBVIOUS
  <2>2. /\ Mirrors(r.w, w)
        /\ r.err # "ok" => Len(r.w.anns) = Len(w.anns)
        /\ r.err = "ok" => Len(r.w.anns) = Len(w.anns) + Len(anns)
    <3>1. PICK v, u : v = w /\ u = r.w /\ WriterOK(v) /\ r = WithAnnotations(v, type, anns)
      BY <1>1, <2>1
    <3>2. /\ Mirrors(r.w, v)
          /\ r.err # "ok" => Len(r.w.anns) = Len(v.anns)
          /\ r.err = "ok" => Len(r.w.anns) = Len(v.anns) + Len(anns)
      BY <1>3, <3>1, WithAnnotationsStack
    <3> QED BY <3>1, <3>2
  <2>3. IsSeq(more) /\ Len(more) = Len(asked.anns) + Len(anns)
    BY <1>1, <1>3, <2>1, ConcatIsSeq
  <2>4. Ends(r, [asked EXCEPT !.anns = more])
    BY <1>3, <2>1
  <2> QED BY <1>3, <2>2, <2>3, <2>4, PendingMore
<1>4. ASSUME NEW name, AddAnnotation(name)
      PROVE  StackInv(w', asked')
  BY <1>2, <1>4 DEF AddAnnotation
<1>5. ASSUME NEW sid, AddAnnotationSid(sid)
      PROVE  StackInv(w', asked')
  BY <1>2, <1>5 DEF AddAnnotationSid
<1>6. ASSUME NEW e
      PROVE  IsSeq(<<e, e>>) /\ Len(<<e, e>>) = 2
  BY DEF IsSeq
<1>7. ASSUME NEW name, AddAnnotations(<<name, name>>)
      PROVE  StackInv(w', asked')
  BY <1>3, <1>6, <1>7 DEF AddAnnotations
<1>8. ASSUME NEW sid, AddAnnotationSids(<<sid, sid>>)
      PROVE  StackInv(w', asked')
  <2>1. PICK sids : sids = <<sid, sid>>
    OBVIOUS
  <2>2. PICK names : names = [i \in 1..Len(sids) |-> NamesOf(w.table)[sids[i]]]
    OBVIOUS
  <2>3. IsSeq(sids) /\ Len(sids) = 2
    BY <1>6, <2>1
  <2>4. IsSeq(names) /\ Len(names) = 2
    BY <2>2, <2>3 DEF IsSeq
  <2>5. Ends(WithAnnotations(w, BySid, sids), [asked EXCEPT !.anns = @ \o names])
    BY <1>8, <2>1, <2>2 DEF AddAnnotationSids
  <2> QED BY <1>3, <2>3, <2>4, <2>5
<1>9. ASSUME ClearAnns
      PROVE  StackInv(w', asked')
  <2>1. PICK empty : empty = <<>>
    OBVIOUS
  <2>2. IsSeq(empty) /\ Len(empty) = 0
    BY <2>1 DEF IsSeq
  <2>3. w' = ClearAnnotations(w) /\ asked' = [asked EXCEPT !.anns = empty]
    BY <1>9, <2>1 DEF ClearAnns, Ends, Ok
  <2>4. Mirrors(w', w) /\ w'.anns = empty
    BY <1>1, <2>1, <2>3, ClearAnnotationsMirrors
  <2>5. AskedOK(asked') /\ asked'.open = asked.open /\ asked'.anns = empty
    BY <1>1, <2>2, <2>3, AskedAnns
  <2> QED BY <2>4, <2>5, InvSame, SameOpenRefl
<1>10. ASSUME NEW n, SetMaxAnnotations(n)
       PROVE  StackInv(w', asked')
  <2>1. PICK r : r = (IF w.limit # Unset THEN Fails(w, "state") ELSE WithLimit(w, n))
                 /\ Ends(r, asked)
    BY <1>10 DEF SetMaxAnnotations
  <2>2. w' = r.w /\ asked' = asked
    BY <2>1 DEF Ends
  <2>3. Mirrors(w, w)
    BY <1>1, KeepsFields DEF Keeps
  <2>4. CASE w.limit # Unset
    BY <2>1, <2>2, <2>4, FailsIs
  <2>5. CASE w.limit = Unset
    <3>1. w.anns = <<>> /\ r = WithLimit(w, n)
      BY <1>1, <2>1, <2>5 DEF WriterOK
    <3>2. r.w = w \/ (Mirrors(r.w, w) /\ r.w.anns = <<>>)
      BY <1>1, <3>1, WithLimitStack
    <3>3. Mirrors(w', w) /\ Len(w'.anns) = Len(asked'.anns)
      BY <1>1, <2>2, <2>3, <3>1, <3>2
    <3> QED BY <1>1, <2>2, <3>3, InvSame, SameOpenRefl
  <2> QED BY <2>4, <2>5
<1> QED BY <1>4, <1>5, <1>7, <1>8, <1>9, <1>10

LEMMA InitInv ==
  Init => StackInv(w, asked)
<1>1. SUFFICES ASSUME Init
               PROVE  StackInv(w, asked)
  OBVIOUS
<1> DEFINE F == {"patches", "stack", "lob", "inStruct", "anns", "limit"}
<1>2. PICK i \in Imports, flush \in BOOLEAN :
        w = [Both(Both(BinaryPart, [flushEvery |-> flush]), FreshWith(i)) EXCEPT !.hasLocal = FALSE]
  BY <1>1 DEF Init
<1>3. PICK b, e : b = BinaryPart /\ e = [flushEvery |-> flush]
  OBVIOUS
<1>4. /\ DOMAIN b = {"bytes", "pos", "patches", "stack", "lob", "ivm"}
      /\ b.patches = <<>> /\ b.stack = <<>> /\ b.lob = None
  BY <1>3 DEF BinaryPart
<1>5. PICK f, t : f = FreshWith(i) /\ t = [NoTable EXCEPT !.open = i # <<>>, !.imports = i]
  OBVIOUS
<1>6. {"inStruct", "anns", "limit"} \subseteq DOMAIN f
      /\ f.inStruct = FALSE /\ f.anns = <<>> /\ f.limit = Unset
  <2>1. f = [Fresh EXCEPT !.table = t]
    BY <1>5 DEF FreshWith
  <2>2. IsRecord(Fresh, {"inStruct", "anns", "limit"})
        /\ Fresh.inStruct = FALSE /\ Fresh.anns = <<>> /\ Fresh.limit = Unset
    BY DEF Fresh, IsRecord
  <2> QED BY <2>1, <2>2 DEF IsRecord
<1>7. PICK g : g = Both(b, e)
  OBVIOUS
<1>8. /\ DOMAIN g = DOMAIN b \cup {"flushEvery"}
      /\ g.patches = <<>> /\ g.stack = <<>> /\ g.lob = None
  <2>1. DOMAIN e = {"flushEvery"}
    BY <1>3
  <2>2. g = [k \in DOMAIN b \cup {"flushEvery"} |-> IF k \in DOMAIN b THEN b[k] ELSE e[k]]
    BY <1>7, <2>1 DEF Both
  <2> QED BY <1>4, <2>2
<1>9. PICK h : h = Both(g, f)
  OBVIOUS
<1>10. /\ IsRecord(h, F)
      /\ h.patches = <<>> /\ h.stack = <<>> /\ h.lob = None
      /\ h.inStruct = FALSE /\ h.anns = <<>> /\ h.limit = Unset
  <2>1. h = [k \in DOMAIN g \cup DOMAIN f |-> IF k \in DOMAIN g THEN g[k] ELSE f[k]]
    BY <1>9 DEF Both
  <2>2. DOMAIN h = DOMAIN g \cup DOMAIN f /\ h = [k \in DOMAIN h |-> h[k]]
    BY <2>1
  <2>3. h.patches = <<>> /\ h.stack = <<>> /\ h.lob = None
    BY <1>4, <1>8, <2>1
  <2>4. {"inStruct", "anns", "limit"} \cap DOMAIN g = {}
    BY <1>4, <1>8
  <2>5. h.inStruct = FALSE /\ h.anns = <<>> /\ h.limit = Unset
    BY <1>6, <2>1, <2>4
  <2> QED BY <1>4, <1>6, <1>8, <2>2, <2>3, <2>5 DEF IsRecord
<1>11. w = [h EXCEPT !.hasLocal = FALSE]
  BY <1>2, <1>3, <1>5, <1>7, <1>9
<1>12. /\ IsRecord(w, F) /\ w.patches = <<>> /\ w.stack = <<>> /\ w.lob = None
      /\ w.inStruct = FALSE /\ w.anns = <<>>
  BY <1>10, <1>11 DEF IsRecord
<1>13. IsSeq(<<>>) /\ Len(<<>>) = 0 /\ <<>> \in Seq(1..0)
  BY DEF IsSeq
<1>14. WriterOK(w)
  BY <1>12, <1>13 DEF WriterOK
<1>15. IsRecord(asked, {"open", "anns"}) /\ asked.open = <<>> /\ asked.anns = <<>>
  BY <1>1 DEF Init, NothingAsked, IsRecord
<1>16. AskedOK(asked)
  BY <1>13, <1>15 DEF AskedOK
<1>17. ~LobOf(asked.open) /\ InStructOf(asked.open) = FALSE /\ LobOf(asked.open) = FALSE
  BY <1>13, <1>15 DEF LobOf, InStructOf
<1>18. StackHolds(StackTypes(w), asked.open)
  <2>1. Len(StackTypes(w)) = 0
    BY <1>12, <1>13, <1>14, StackTypesLen
  <2>2. PatchesOf(asked.open, Len(asked.open)) = 0
    BY <1>13, <1>15, PatchesOfNext
  <2> QED BY <1>13, <1>15, <2>1, <2>2 DEF StackHolds
<1> QED BY <1>12, <1>14, <1>15, <1>16, <1>17, <1>18 DEF StackInv

LEMMA NextInv ==
  ASSUME Careful, StackInv(w, asked), [Next]_vars
  PROVE  StackInv(w', asked')
<1>1. CASE ValueCall
  <2>1. ASSUME NEW name \in Names, FieldName(name) \/ AddAnnotation(name)
        PROVE  StackInv(w', asked')
    BY <2>1, FieldInv, AnnotationInv
  <2>2. ASSUME NEW n \in Sizes,
               WriteShortScalar(n) \/ WriteSizedScalar(n) \/ WriteInt(n) \/ AppendLob(n)
        PROVE  StackInv(w', asked')
    BY <2>2, ScalarsInv, AppendLobInv
  <2>3. ASSUME \/ \E name \in Names : WriteSymbol(name)
               \/ \E sid \in {Ivm, Len(SystemNames)} : WriteSymbolId(sid)
        PROVE  StackInv(w', asked')
    BY <2>3, ScalarsInv
  <2>4. ASSUME NEW type \in {"list", "struct"}, StartContainer(type)
        PROVE  StackInv(w', asked')
    BY <2>4, StartContainerInv
  <2> QED BY <1>1, <2>1, <2>2, <2>3, <2>4, StartLobInv, FinishLobInv, FinishContainerInv, FlushInv
          DEF ValueCall
<1>2. CASE OtherCall
  BY <1>2, FieldInv, AnnotationInv DEF OtherCall, PendingCall
<1>3. CASE Close
  BY <1>3, CloseInv
<1>4. CASE UNCHANGED vars
  BY <1>4 DEF vars
<1> QED BY <1>1, <1>2, <1>3, <1>4 DEF Next

(* What is on the patch stack, whether a struct is the innermost container  *)
(* and whether a lob is open are what the caller's own calls say, however   *)
(* start_value, close_value, finish_container and finish_lob take turns.    *)
THEOREM StackCorrect ==
  ASSUME Careful
  PROVE  Spec => []StackMirrorsCalls
<1>1. Init => StackInv(w, asked)
  BY InitInv
<1>2. StackInv(w, asked) /\ [Next]_vars => StackInv(w, asked)'
  BY NextInv
<1>3. StackInv(w, asked) => StackMirrorsCalls
  BY InvMirrors
<1> QED BY <1>1, <1>2, <1>3, PTL DEF Spec

-----------------------------------------------------------------------------
(* Symbol ids: tables only grow at their end, so that an id, once given,    *)
(* stays the lowest of its name.                                            *)

TableOK(t) ==
  {"imports", "locals"} \subseteq DOMAIN t /\ IsSeq(t.imports) /\ IsSeq(t.locals)

Grows(t, u) ==
  /\ TableOK(u) /\ u.imports = t.imports /\ Len(t.locals) <= Len(u.locals)
  /\ \A i \in 1..Len(t.locals) : u.locals[i] = t.locals[i]

LEMMA GrowsReflexive ==
  ASSUME NEW t, TableOK(t)
  PROVE  Grows(t, t)
BY DEF Grows, TableOK, IsSeq

LEMMA GrowsTransitive ==
  ASSUME NEW t, TableOK(t), NEW u, NEW v, Grows(t, u), Grows(u, v)
  PROVE  Grows(t, v)
<1>1. PICK k \in Nat, m \in Nat, n \in Nat :
        k = Len(t.locals) /\ m = Len(u.locals) /\ n = Len(v.locals)
  BY DEF TableOK, Grows, IsSeq
<1>2. k <= m /\ m <= n
  BY <1>1 DEF Grows
<1>3. \A i \in 1..k : i \in 1..m
  BY <1>2
<1>4. \A i \in 1..k : v.locals[i] = t.locals[i]
  BY <1>1, <1>3 DEF Grows
<1> QED BY <1>1, <1>2, <1>4 DEF Grows

LEMMA ConcatIs ==
  ASSUME NEW s, IsSeq(s), NEW t, IsSeq(t)
  PROVE  /\ \A i \in 1..Len(s) : (s \o t)[i] = s[i]
         /\ \A i \in 1..Len(t) : (s \o t)[Len(s) + i] = t[i]
<1> DEFINE S == { s[i] : i \in 1..Len(s) } \cup { t[i] : i \in 1..Len(t) }
<1>1. \A i \in 1..Len(s) : s[i] \in S
  OBVIOUS
<1>2. \A i \in 1..Len(t) : t[i] \in S
  OBVIOUS
<1> HIDE DEF S
<1>3. s \in Seq(S) /\ t \in Seq(S)
  BY <1>1, <1>2, IsSeqSeq
<1> QED BY <1>3

(* The names of a grown table begin with those of the table.                *)
LEMMA NamesGrow ==
  ASSUME NEW t, TableOK(t), NEW u, Grows(t, u)
  PROVE  /\ Len(NamesOf(t)) \in Nat /\ Len(NamesOf(u)) \in Nat
         /\ Len(NamesOf(t)) <= Len(NamesOf(u))
         /\ \A i \in 1..Len(NamesOf(t)) : NamesOf(u)[i] = NamesOf(t)[i]
<1>1. IsSeq(SystemNames) /\ IsSeq(t.imports) /\ IsSeq(t.locals) /\ IsSeq(u.locals)
  BY NamesAssumption, SeqIsSeq DEF TableOK, Grows
<1>2. PICK c : c = SystemNames \o t.imports
  OBVIOUS
<1>3. IsSeq(c)
  BY <1>1, <1>2, ConcatIsSeq
<1>4. PICK l, m : l = t.locals /\ m = u.locals
  OBVIOUS
<1>5. NamesOf(t) = c \o l /\ NamesOf(u) = c \o m
  BY <1>2, <1>4 DEF NamesOf, Grows
<1>6. /\ Len(c \o l) = Len(c) + Len(l) /\ Len(c \o m) = Len(c) + Len(m)
      /\ Len(c) \in Nat /\ Len(l) \in Nat /\ Len(m) \in Nat /\ Len(l) <= Len(m)
  BY <1>1, <1>3, <1>4, ConcatIsSeq DEF Grows, IsSeq
<1>7. ASSUME NEW i \in 1..(Len(c) + Len(l))
      PROVE  (c \o m)[i] = (c \o l)[i]
  <2>1. CASE i <= Len(c)
    <3>1. i \in 1..Len(c)
      BY <1>6, <2>1
    <3> QED BY <1>1, <1>3, <1>4, <3>1, ConcatIs
  <2>2. CASE ~(i <= Len(c))
    <3>1. PICK j \in 1..Len(l) : i = Len(c) + j
      <4>1. i - Len(c) \in 1..Len(l) /\ i = Len(c) + (i - Len(c))
        BY <1>6, <2>2
      <4> QED BY <4>1
    <3>2. j \in 1..Len(m) /\ m[j] = l[j]
      BY <1>4, <1>6, <3>1 DEF Grows
    <3>3. (c \o l)[Len(c) + j] = l[j] /\ (c \o m)[Len(c) + j] = m[j]
      BY <1>1, <1>3, <1>4, <3>1, <3>2, ConcatIs
    <3> QED BY <3>1, <3>2, <3>3
  <2> QED BY <2>1, <2>2
<1> QED BY <1>5, <1>6, <1>7

LEMMA LeastExists ==
  ASSUME NEW S \in SUBSET Nat, S # {}
  PROVE  \E i \in S : \A j \in S : i <= j
<1>1. PICK i \in S : \A j \in S : <<j, i>> \notin OpToRel(<, Nat)
  BY NatLessThanWellFounded, WFMin
<1>2. \A j \in S : ~(j < i)
  BY <1>1 DEF OpToRel
<1> QED BY <1>2

LEMMA GrowsKeepsSids ==
  ASSUME NEW t, TableOK(t), NEW u, Grows(t, u), NEW name, SidOf(t, name) > 0
  PROVE  SidOf(u, name) = SidOf(t, name)
<1> DEFINE ids(x) == { i \in 1..Len(NamesOf(x)) : NamesOf(x)[i] = name }
<1>1. /\ Len(NamesOf(t)) \in Nat /\ Len(NamesOf(u)) \in Nat
      /\ Len(NamesOf(t)) <= Len(NamesOf(u))
      /\ \A i \in 1..Len(NamesOf(t)) : NamesOf(u)[i] = NamesOf(t)[i]
  BY NamesGrow
<1>2. SidOf(t, name) = IF ids(t) = {} THEN 0 ELSE CHOOSE i \in ids(t) : \A j \in ids(t) : i <= j
  BY DEF SidOf
<1>3. SidOf(u, name) = IF ids(u) = {} THEN 0 ELSE CHOOSE i \in ids(u) : \A j \in ids(u) : i <= j
  BY DEF SidOf
<1>4. /\ ids(t) \in SUBSET Nat /\ ids(u) \in SUBSET Nat /\ ids(t) \subseteq ids(u)
      /\ \A i \in ids(u) : i \in ids(t) \/ i > Len(NamesOf(t))
      /\ \A i \in ids(t) : i <= Len(NamesOf(t))
  BY <1>1
<1> HIDE DEF ids
<1>5. ids(t) # {} /\ ids(u) # {}
  BY <1>2, <1>4
<1>6. PICK m \in ids(t) : SidOf(t, name) = m /\ \A j \in ids(t) : m <= j
  <2>1. \E i \in ids(t) : \A j \in ids(t) : i <= j
    BY <1>4, <1>5, LeastExists
  <2> QED BY <1>2, <1>5, <2>1
<1>7. PICK n \in ids(u) : SidOf(u, name) = n /\ \A j \in ids(u) : n <= j
  <2>1. \E i \in ids(u) : \A j \in ids(u) : i <= j
    BY <1>4, <1>5, LeastExists
  <2> QED BY <1>3, <1>5, <2>1
<1>8. n <= m /\ m <= n
  <2>1. n <= m
    BY <1>4, <1>6, <1>7
  <2>2. m <= n
    BY <1>1, <1>4, <1>6, <1>7
  <2> QED BY <2>1, <2>2
<1> QED BY <1>4, <1>6, <1>7, <1>8

LEMMA AddNameGrows ==
  ASSUME NEW t, TableOK(t), NEW name
  PROVE  Grows(t, AddName(t, name))
<1>1. CASE SidOf(t, name) > 0
  <2>1. PICK u : u = AddName(t, name) /\ u = [t EXCEPT !.open = TRUE]
    BY <1>1 DEF AddName
  <2>2. DOMAIN u = DOMAIN t /\ u.imports = t.imports /\ u.locals = t.locals
    BY <2>1 DEF TableOK
  <2>3. TableOK(u)
    BY <2>2 DEF TableOK
  <2> QED BY <2>1, <2>2, <2>3, GrowsReflexive DEF Grows
<1>2. CASE ~(SidOf(t, name) > 0)
  <2>1. PICK u, l : u = AddName(t, name) /\ l = Append(t.locals, name)
    OBVIOUS
  <2>2. u = [t EXCEPT !.open = TRUE, !.locals = l]
    BY <1>2, <2>1 DEF AddName
  <2>3. DOMAIN u = DOMAIN t /\ u.imports = t.imports /\ u.locals = l
    BY <2>2 DEF TableOK
  <2>4. IsSeq(t.locals) /\ Len(t.locals) \in Nat
    BY DEF TableOK, IsSeq
  <2>5. /\ IsSeq(l) /\ Len(l) = Len(t.locals) + 1
        /\ \A i \in 1..Len(t.locals) : l[i] = t.locals[i]
    BY <2>1, <2>4, AppendIsSeq
  <2>6. TableOK(u)
    BY <2>3, <2>5 DEF TableOK
  <2> QED BY <2>1, <2>3, <2>4, <2>5, <2>6 DEF Grows
<1> QED BY <1>1, <1>2

(* The recursive function of AddNames exists: by induction on its domain.   *)
LEMMA AddNamesExists ==
  ASSUME NEW t, NEW names, NEW k \in Nat
  PROVE  \E f : f = [n \in 0..k |-> IF n = 0 THEN t ELSE AddName(f[n - 1], names[n])]
<1> DEFINE P(m) == \E f : f = [n \in 0..m |-> IF n = 0 THEN t ELSE AddName(f[n - 1], names[n])]
           S == { m \in Nat : ~P(m) }
<1>1. P(0)
  <2>1. PICK f : f = [n \in 0..0 |-> t]
    OBVIOUS
  <2>2. \A n \in 0..0 : n = 0
    OBVIOUS
  <2>3. f = [n \in 0..0 |-> IF n = 0 THEN t ELSE AddName(f[n - 1], names[n])]
    BY <2>1, <2>2
  <2> QED BY <2>3
<1>2. ASSUME NEW m \in Nat, P(m)
      PROVE  P(m + 1)
  <2>1. PICK f : f = [n \in 0..m |-> IF n = 0 THEN t ELSE AddName(f[n - 1], names[n])]
    BY <1>2
  <2>2. PICK g : g = [n \in 0..(m + 1) |-> IF n = m + 1 THEN AddName(f[m], names[m + 1]) ELSE f[n]]
    OBVIOUS
  <2>3. \A n \in 0..m : g[n] = f[n]
    BY <2>2
  <2>4. \A n \in 0..m : f[n] = IF n = 0 THEN t ELSE AddName(f[n - 1], names[n])
    BY <2>1
  <2>5. ASSUME NEW n \in 0..(m + 1)
        PROVE  (IF n = m + 1 THEN AddName(f[m], names[m + 1]) ELSE f[n])
                 = (IF n = 0 THEN t ELSE AddName(g[n - 1], names[n]))
    <3>1. CASE n = m + 1
      <4>1. n - 1 = m /\ n # 0 /\ m \in 0..m
        BY <3>1
      <4> QED BY <2>3, <3>1, <4>1
    <3>2. CASE n # m + 1
      <4>1. n \in 0..m /\ (n # 0 => n - 1 \in 0..m)
        BY <3>2
      <4> QED BY <2>3, <2>4, <3>2, <4>1
    <3> QED BY <3>1, <3>2
  <2>6. g = [n \in 0..(m + 1) |-> IF n = 0 THEN t ELSE AddName(g[n - 1], names[n])]
    BY <2>2, <2>5
  <2> QED BY <2>6
<1> HIDE DEF P
<1>3. S = {}
  <2>1. SUFFICES ASSUME S # {}
                 PROVE  FALSE
    OBVIOUS
  <2>2. PICK m \in S : \A j \in S : m <= j
    BY <2>1, LeastExists
  <2>3. m \in Nat /\ ~P(m) /\ m # 0
    BY <1>1
  <2>4. m - 1 \in Nat /\ m - 1 \notin S /\ (m - 1) + 1 = m
    BY <2>2, <2>3
  <2> QED BY <1>2, <2>3, <2>4
<1>4. P(k)
  BY <1>3
<1> QED BY <1>4 DEF P

LEMMA AddNamesGrows ==
  ASSUME NEW t, TableOK(t), NEW names, Len(names) \in Nat
  PROVE  Grows(t, AddNames(t, names))
<1> DEFINE after[n \in 0..Len(names)] ==
             IF n = 0 THEN t ELSE AddName(after[n - 1], names[n])
<1>1. after = [n \in 0..Len(names) |-> IF n = 0 THEN t ELSE AddName(after[n - 1], names[n])]
  BY AddNamesExists
<1>2. AddNames(t, names) = after[Len(names)]
  BY DEF AddNames
<1> HIDE DEF after
<1>3. \A n \in 0..Len(names) : after[n] = IF n = 0 THEN t ELSE AddName(after[n - 1], names[n])
  BY <1>1
<1> DEFINE S == { n \in 0..Len(names) : ~(TableOK(after[n]) /\ Grows(t, after[n])) }
<1>4. S = {}
  <2>1. SUFFICES ASSUME S # {}
                 PROVE  FALSE
    OBVIOUS
  <2>2. PICK m \in S : \A j \in S : m <= j
    <3>1. S \in SUBSET Nat
      OBVIOUS
    <3> HIDE DEF S
    <3> QED BY <2>1, <3>1, LeastExists
  <2>3. m # 0
    <3>1. after[0] = t
      BY <1>3
    <3> QED BY <3>1, GrowsReflexive
  <2>4. PICK k \in 0..Len(names) : k = m - 1 /\ k \notin S
    BY <2>2, <2>3
  <2>5. TableOK(after[k]) /\ Grows(t, after[k])
    BY <2>4
  <2>6. after[m] = AddName(after[k], names[m])
    BY <1>3, <2>3, <2>4
  <2>7. Grows(after[k], after[m])
    BY <2>5, <2>6, AddNameGrows
  <2>8. TableOK(after[m]) /\ Grows(t, after[m])
    BY <2>5, <2>7, GrowsTransitive DEF Grows
  <2> QED BY <2>2, <2>8
<1>5. Len(names) \in 0..Len(names)
  OBVIOUS
<1> QED BY <1>2, <1>4, <1>5

-----------------------------------------------------------------------------
(* What the calls do to the symbol table. *)

HasTable(v) == "table" \in DOMAIN v /\ TableOK(v.table)

(* u is v with a table that may have grown. *)
TableKept(u, v) == HasTable(u) /\ Grows(v.table, u.table)

SameTable(u, v) == DOMAIN u = DOMAIN v /\ u.table = v.table

LEMMA SameKept ==
  ASSUME NEW u, NEW v, HasTable(v), SameTable(u, v)
  PROVE  TableKept(u, v)
BY GrowsReflexive DEF HasTable, SameTable, TableKept

LEMMA KeptReflexive ==
  ASSUME NEW v, HasTable(v)
  PROVE  TableKept(v, v)
BY SameKept DEF SameTable

LEMMA KeptTransitive ==
  ASSUME NEW u, NEW v, NEW x, HasTable(x), TableKept(u, v), TableKept(v, x)
  PROVE  TableKept(u, x)
BY GrowsTransitive DEF HasTable, TableKept

LEMMA SameTables ==
  ASSUME NEW v, HasTable(v)
  PROVE  /\ \A tok : SameTable(Emit(v, tok), v)
         /\ \A toks : SameTable(EmitAll(v, toks), v)
         /\ \A n : SameTable(PatchLengths(v, n), v)
         /\ \A type : SameTable(Push(v, type), v)
         /\ SameTable(CloseValue(Pop(v)), v)
         /\ SameTable(ClearFieldName(v), v)
         /\ SameTable(ClearAnnotations(v), v)
         /\ \A x : SameTable(WithField(v, x), v)
         /\ \A x : SameTable(WithFieldSid(v, x), v)
         /\ \A n : SameTable(Enlarged(v, n), v)
         /\ \A type, anns : SameTable(Annotate(v, type, anns), v)
         /\ \A flag : SameTable([v EXCEPT !.inStruct = flag], v)
         /\ \A flag : SameTable([v EXCEPT !.lob = flag], v)
         /\ \A flag : SameTable([v EXCEPT !.closed = flag], v)
         /\ \A flag : SameTable([v EXCEPT !.ivm = flag], v)
<1> USE DEF HasTable, SameTable
<1>1. \A tok : SameTable(Emit(v, tok), v)
  BY DEF Emit
<1>2. \A toks : SameTable(EmitAll(v, toks), v)
  BY DEF EmitAll
<1>3. ASSUME NEW x, "table" \in DOMAIN x, NEW n
      PROVE  SameTable(PatchLengths(x, n), x)
  <2>1. CASE x.stack = <<>>
    BY <2>1 DEF PatchLengths
  <2>2. CASE x.stack # <<>>
    <3>1. PICK p : p = Head(x.stack)
      OBVIOUS
    <3>2. PatchLengths(x, n) = [x EXCEPT !.patches[p].length = @ + n]
      BY <2>2, <3>1 DEF PatchLengths
    <3> QED BY <1>3, <3>2
  <2> QED BY <2>1, <2>2
<1>4. \A type : SameTable(Push(v, type), v)
  BY DEF Push
<1>5. ASSUME NEW x, "table" \in DOMAIN x
      PROVE  SameTable(Pop(x), x)
  <2>1. PICK y : y = [x EXCEPT !.stack = Tail(@)]
    OBVIOUS
  <2>2. SameTable(y, x) /\ "table" \in DOMAIN y
    BY <1>5, <2>1
  <2>3. Pop(x) = PatchLengths(y, PatchDown(Top(x).length))
    BY <2>1 DEF Pop
  <2> QED BY <1>3, <2>2, <2>3
<1>6. SameTable(CloseValue(Pop(v)), v)
  <2>1. PICK x : x = Pop(v)
    OBVIOUS
  <2>2. SameTable(x, v) /\ "table" \in DOMAIN x
    BY <1>5, <2>1
  <2>3. CloseValue(x) = x \/ CloseValue(x) = Pop(x)
    BY DEF CloseValue
  <2> QED BY <1>5, <2>1, <2>2, <2>3
<1>7. SameTable(ClearFieldName(v), v) /\ SameTable(ClearAnnotations(v), v)
  BY DEF ClearFieldName, ClearAnnotations
<1>8. \A x : SameTable(WithField(v, x), v) /\ SameTable(WithFieldSid(v, x), v)
  BY DEF WithField, WithFieldSid
<1>9. \A n : SameTable(Enlarged(v, n), v)
  BY DEF Enlarged
<1>10. \A type, anns : SameTable(Annotate(v, type, anns), v)
  BY DEF Annotate
<1>11. \A flag : /\ SameTable([v EXCEPT !.inStruct = flag], v)
                 /\ SameTable([v EXCEPT !.lob = flag], v)
                 /\ SameTable([v EXCEPT !.closed = flag], v)
                 /\ SameTable([v EXCEPT !.ivm = flag], v)
  OBVIOUS
<1> QED BY <1>1, <1>2, <1>3, <1>4, <1>6, <1>7, <1>8, <1>9, <1>10, <1>11

LEMMA WithTableKept ==
  ASSUME NEW v, HasTable(v), NEW t, Grows(v.table, t), NEW u, u = WithTable(v, t)
  PROVE  TableKept(u, v)
<1>1. DOMAIN u = DOMAIN v /\ u.table = t
  BY DEF WithTable, HasTable
<1> QED BY <1>1 DEF TableKept, HasTable, Grows

LEMMA AddSymbolKept ==
  ASSUME NEW v, HasTable(v), NEW name
  PROVE  TableKept(AddSymbol(v, name), v)
<1>1. PICK t, u : t = AddName(v.table, name) /\ u = WithTable(v, t)
  OBVIOUS
<1>2. Grows(v.table, t)
  BY <1>1, AddNameGrows DEF HasTable
<1> QED BY <1>1, <1>2, WithTableKept DEF AddSymbol

LEMMA FieldAsSidTable ==
  ASSUME NEW v, HasTable(v), NEW r, r = FieldAsSid(v)
  PROVE  TableKept(r.w, v)
<1>1. r.w = v \/ r.w = AddSymbol(v, v.field)
  <2>1. CASE v.fieldType = ByName /\ v.field # None
    BY <2>1 DEF FieldAsSid, ByName, BySid
  <2>2. CASE ~(v.fieldType = ByName /\ v.field # None) /\ v.fieldType = BySid
    BY <2>2 DEF FieldAsSid, ByName, BySid
  <2>3. CASE ~(v.fieldType = ByName /\ v.field # None) /\ v.fieldType # BySid
    BY <2>3 DEF FieldAsSid, Fails
  <2> QED BY <2>1, <2>2, <2>3
<1> QED BY <1>1, AddSymbolKept, KeptReflexive

LEMMA WithSymbolsKept ==
  ASSUME NEW v, HasTable(v), Len(v.anns) \in Nat, NEW u, u = WithSymbols(v)
  PROVE  TableKept(u, v)
<1>1. CASE v.annsType = BySid
  BY <1>1, KeptReflexive DEF WithSymbols
<1>2. CASE v.annsType # BySid
  <2>1. PICK t : t = AddNames(v.table, v.anns)
    OBVIOUS
  <2>2. Grows(v.table, t)
    BY <2>1, AddNamesGrows DEF HasTable
  <2> QED BY <1>2, <2>1, <2>2, WithTableKept DEF WithSymbols
<1> QED BY <1>1, <1>2

(* Steps that leave the table as it is, one after another. *)
LEMMA SameThenKept ==
  ASSUME NEW x, HasTable(x), NEW v, TableKept(v, x), NEW u, SameTable(u, v)
  PROVE  TableKept(u, x)
<1>1. HasTable(v)
  BY DEF TableKept
<1>2. TableKept(u, v)
  BY <1>1, SameKept
<1> QED BY <1>2, KeptTransitive

LEMMA WriteFieldKept ==
  ASSUME NEW v, HasTable(v), NEW r, r = WriteField(v)
  PROVE  TableKept(r.w, v)
<1>1. PICK f : f = FieldAsSid(v)
  OBVIOUS
<1>2. TableKept(f.w, v) /\ HasTable(f.w)
  BY <1>1, FieldAsSidTable DEF TableKept
<1>3. PICK e, c : e = Emit(f.w, <<"var", f.sid>>) /\ c = ClearFieldName(e)
  OBVIOUS
<1>4. TableKept(e, v) /\ HasTable(e)
  BY <1>2, <1>3, SameTables, SameThenKept DEF TableKept
<1>5. TableKept(c, v)
  BY <1>3, <1>4, SameTables, SameThenKept
<1>6. r = Ok(v) \/ (\E e1 : r = Fails(v, e1)) \/ r = Ok(c)
  BY <1>1, <1>3 DEF WriteField
<1>7. r.w = v \/ r.w = c
  BY <1>6 DEF Ok, Fails
<1> QED BY <1>5, <1>7, KeptReflexive

LEMMA WriteAnnotationsKept ==
  ASSUME NEW v, HasTable(v), Len(v.anns) \in Nat, NEW n, NEW start,
         NEW u, u = WriteAnnotations(v, n, start)
  PROVE  TableKept(u, v)
<1>1. CASE v.anns = <<>>
  BY <1>1, KeptReflexive DEF WriteAnnotations
<1>2. CASE v.anns # <<>>
  <2>1. PICK y, toks, body, e, k, head, all :
          /\ y = WithSymbols(v)
          /\ toks = << <<"var", LenAll(SidsOfAnnotations(y))>>, <<"sids", SidsOfAnnotations(y)>> >>
          /\ body = Header("uta", LenVarUint(LenAll(SidsOfAnnotations(y)))
                                    + LenAll(SidsOfAnnotations(y)) + n)
          /\ e = EmitAll(y, body)
          /\ k = PatchLengths(y, (y.pos - start) + 1)
          /\ head = (IF n = Unknown THEN Push(k, "uta") ELSE e)
          /\ all = EmitAll(head, toks)
    OBVIOUS
  <2>2. u = ClearAnnotations(all)
    BY <1>2, <2>1 DEF WriteAnnotations
  <2>3. TableKept(y, v) /\ HasTable(y)
    BY <2>1, WithSymbolsKept DEF TableKept
  <2>4. TableKept(e, v) /\ TableKept(k, v) /\ HasTable(k)
    BY <2>1, <2>3, SameTables, SameThenKept DEF TableKept
  <2>5. TableKept(Push(k, "uta"), v)
    BY <2>4, SameTables, SameThenKept
  <2>6. TableKept(head, v) /\ HasTable(head)
    BY <2>1, <2>4, <2>5 DEF TableKept
  <2>7. TableKept(all, v) /\ HasTable(all)
    BY <2>1, <2>6, SameTables, SameThenKept DEF TableKept
  <2> QED BY <2>2, <2>7, SameTables, SameThenKept
<1> QED BY <1>1, <1>2

LEMMA StartValueKept ==
  ASSUME NEW v, HasTable(v), WriterOK(v), NEW n, NEW r, r = StartValue(v, n)
  PROVE  TableKept(r.w, v)
<1>1. PICK f, x, u, p : /\ f = WriteField(v) /\ x = f.w /\ u = WriteAnnotations(x, n, v.pos)
                        /\ p = u.pos - (IF v.anns # <<>> /\ n = Unknown THEN x.pos ELSE v.pos)
  OBVIOUS
<1>2. r = Fails(v, "state") \/ r = f \/ r = Ok(PatchLengths(u, p))
  BY <1>1 DEF StartValue
<1>3. TableKept(x, v) /\ HasTable(x)
  BY <1>1, WriteFieldKept DEF TableKept
<1>4. Len(x.anns) \in Nat
  BY <1>1, WriteFieldKeeps DEF Keeps, Mirrors, WriterOK, IsSeq
<1>5. TableKept(u, x)
  BY <1>1, <1>3, <1>4, WriteAnnotationsKept
<1>6. TableKept(u, v) /\ HasTable(u)
  BY <1>3, <1>5, KeptTransitive DEF TableKept
<1>7. TableKept(PatchLengths(u, p), v)
  BY <1>6, SameTables, SameThenKept
<1>8. r.w = v \/ r.w = x \/ r.w = PatchLengths(u, p)
  BY <1>1, <1>2 DEF Ok, Fails
<1> QED BY <1>3, <1>7, <1>8, KeptReflexive

LEMMA WriteValueKept ==
  ASSUME NEW v, HasTable(v), WriterOK(v), NEW toks, NEW n, NEW told,
         NEW r, r = WriteValue(v, toks, n, told)
  PROVE  TableKept(r.w, v)
<1>1. PICK s, x, y : s = StartValue(v, n) /\ x = EmitAll(s.w, toks) /\ y = PatchLengths(x, told)
  OBVIOUS
<1>2. r = s \/ r = Ok(y)
  BY <1>1 DEF WriteValue, Then
<1>3. TableKept(s.w, v) /\ HasTable(s.w)
  BY <1>1, StartValueKept DEF TableKept
<1>4. TableKept(x, v) /\ HasTable(x)
  BY <1>1, <1>3, SameTables, SameThenKept DEF TableKept
<1>5. TableKept(y, v)
  BY <1>1, <1>4, SameTables, SameThenKept
<1> QED BY <1>2, <1>3, <1>5 DEF Ok

LEMMA OpenPatchKept ==
  ASSUME NEW v, HasTable(v), WriterOK(v), NEW type, NEW r, r = OpenPatch(v, type)
  PROVE  TableKept(r.w, v)
<1>1. PICK s, x, y : s = StartValue(v, Unknown) /\ x = PatchLengths(s.w, 1) /\ y = Push(x, type)
  OBVIOUS
<1>2. r = s \/ r = Ok(y)
  BY <1>1 DEF OpenPatch, Then
<1>3. TableKept(s.w, v) /\ HasTable(s.w)
  BY <1>1, StartValueKept DEF TableKept
<1>4. TableKept(x, v) /\ HasTable(x)
  BY <1>1, <1>3, SameTables, SameThenKept DEF TableKept
<1>5. TableKept(y, v)
  BY <1>1, <1>4, SameTables, SameThenKept
<1> QED BY <1>2, <1>3, <1>5 DEF Ok

LEMMA WriteSidKept ==
  ASSUME NEW v, HasTable(v), WriterOK(v), NEW sid, NEW r, r = WriteSid(v, sid)
  PROVE  TableKept(r.w, v)
<1>1. PICK e, toks : e = Emit(v, <<"ivm">>)
        /\ toks = << <<"td", "symbol", LenSid(sid)>>, <<"sid", sid, LenSid(sid)>> >>
  OBVIOUS
<1>2. r = Ok([e EXCEPT !.ivm = TRUE]) \/ r = WriteValue(v, toks, LenSid(sid) + 1, LenSid(sid) + 1)
  BY <1>1 DEF WriteSid
<1>3. TableKept(e, v) /\ HasTable(e)
  BY <1>1, SameTables, SameKept DEF TableKept
<1>4. TableKept([e EXCEPT !.ivm = TRUE], v)
  BY <1>3, SameTables, SameThenKept
<1>5. CASE r = Ok([e EXCEPT !.ivm = TRUE])
  BY <1>4, <1>5 DEF Ok
<1>6. CASE r = WriteValue(v, toks, LenSid(sid) + 1, LenSid(sid) + 1)
  BY <1>6, WriteValueKept
<1> QED BY <1>2, <1>5, <1>6

LEMMA WithLimitTable ==
  ASSUME NEW v, HasTable(v), NEW n, NEW r, r = WithLimit(v, n)
  PROVE  TableKept(r.w, v)
<1>1. PICK x, u : /\ x = [v EXCEPT !.used = @ + n * StringSize]
                  /\ u = [x EXCEPT !.limit = n, !.anns = <<>>]
  OBVIOUS
<1>2. r = Fails(v, "memory") \/ r = Ok(u)
  BY <1>1 DEF WithLimit, Allocate, Then, Ok, Fails
<1>3. SameTable(u, v)
  BY <1>1 DEF SameTable, HasTable
<1>4. r.w = v \/ r.w = u
  BY <1>2 DEF Ok, Fails
<1> QED BY <1>3, <1>4, SameKept, KeptReflexive

LEMMA WithAnnotationTable ==
  ASSUME NEW v, HasTable(v), NEW type, NEW ann, NEW r, r = WithAnnotation(v, type, ann)
  PROVE  TableKept(r.w, v)
<1>1. PICK m, x, y, one : /\ m = WithLimit(v, MaxAnns) /\ one = <<ann>>
                          /\ x = Annotate(m.w, type, one) /\ y = Annotate(v, type, one)
  OBVIOUS
<1>2. (\E e : r = Fails(v, e)) \/ r = m \/ r = Ok(x) \/ r = Ok(y)
  BY <1>1 DEF WithAnnotation, Then
<1>3. TableKept(m.w, v) /\ HasTable(m.w)
  BY <1>1, WithLimitTable DEF TableKept
<1>4. TableKept(x, v) /\ TableKept(y, v)
  BY <1>1, <1>3, SameTables, SameThenKept, SameKept
<1>5. r.w = v \/ r.w = m.w \/ r.w = x \/ r.w = y
  BY <1>2 DEF Ok, Fails
<1> QED BY <1>3, <1>4, <1>5, KeptReflexive

LEMMA WithAnnotationsTable ==
  ASSUME NEW v, HasTable(v), NEW type, NEW anns, NEW r, r = WithAnnotations(v, type, anns)
  PROVE  TableKept(r.w, v)
<1>1. PICK m, u, x : /\ m = (IF v.limit = Unset THEN WithLimit(v, MaxAnns) ELSE Ok(v))
                     /\ u = m.w /\ x = Annotate(u, type, anns)
  OBVIOUS
<1>2. r = Fails(v, "state") \/ r = m \/ r = Fails(u, "too many") \/ r = Ok(u) \/ r = Ok(x)
  BY <1>1 DEF WithAnnotations, Then
<1>3. TableKept(u, v) /\ HasTable(u)
  <2>1. CASE v.limit = Unset
    BY <1>1, <2>1, WithLimitTable DEF TableKept
  <2>2. CASE v.limit # Unset
    BY <1>1, <2>2, KeptReflexive DEF Ok
  <2> QED BY <2>1, <2>2
<1>4. TableKept(x, v)
  BY <1>1, <1>3, SameTables, SameThenKept
<1>5. r.w = v \/ r.w = u \/ r.w = x
  <2>1. r = m => r.w = u
    BY <1>1
  <2>2. r = Fails(v, "state") => r.w = v
    BY FailsIs
  <2>3. r = Fails(u, "too many") => r.w = u
    BY FailsIs
  <2>4. (r = Ok(u) => r.w = u) /\ (r = Ok(x) => r.w = x)
    BY DEF Ok
  <2> QED BY <1>2, <2>1, <2>2, <2>3, <2>4
<1> QED BY <1>3, <1>4, <1>5, KeptReflexive

(* Before and after a call. *)
SidsInv == HasTable(w) /\ IsSeq(out)

LEMMA InitSids ==
  Init => SidsInv
<1>1. SUFFICES ASSUME Init
               PROVE  HasTable(w) /\ out = <<>>
  BY DEF IsSeq, SidsInv
<1>2. out = <<>>
  BY <1>1 DEF Init
<1>3. PICK i \in Imports, flush \in BOOLEAN :
        w = [Both(Both(BinaryPart, [flushEvery |-> flush]), FreshWith(i)) EXCEPT !.hasLocal = FALSE]
  BY <1>1 DEF Init
<1>4. PICK b, f, t, g, h : /\ b = BinaryPart /\ t = [NoTable EXCEPT !.open = i # <<>>, !.imports = i]
                           /\ f = FreshWith(i) /\ g = Both(b, [flushEvery |-> flush])
                           /\ h = Both(g, f)
  OBVIOUS
<1>5. "table" \notin DOMAIN b
  BY <1>4 DEF BinaryPart
<1>6. "table" \notin DOMAIN g
  <2>1. DOMAIN g = DOMAIN b \cup {"flushEvery"}
    BY <1>4 DEF Both
  <2> QED BY <1>5, <2>1
<1>7. "table" \in DOMAIN f /\ f.table = t
  <2>1. f = [Fresh EXCEPT !.table = t]
    BY <1>4 DEF FreshWith
  <2>2. "table" \in DOMAIN Fresh
    BY DEF Fresh
  <2> QED BY <2>1, <2>2
<1>8. "table" \in DOMAIN h /\ h.table = t
  BY <1>4, <1>6, <1>7 DEF Both
<1>9. "table" \in DOMAIN w /\ w.table = t
  <2>1. w = [h EXCEPT !.hasLocal = FALSE]
    BY <1>3, <1>4
  <2> QED BY <1>8, <2>1
<1>10. TableOK(t)
  <2>1. i \in Seq(Names) /\ IsSeq(i) /\ IsSeq(<<>>)
    BY WriterAssumption, SeqIsSeq DEF IsSeq
  <2>2. {"imports", "locals"} \subseteq DOMAIN t /\ t.imports = i /\ t.locals = <<>>
    BY <1>4 DEF NoTable
  <2> QED BY <2>1, <2>2 DEF TableOK
<1> QED BY <1>2, <1>9, <1>10 DEF HasTable

LEMMA RecycledTable ==
  ASSUME NEW v, HasTable(v), NEW u, u = Recycled(v)
  PROVE  HasTable(u)
<1>1. "table" \in DOMAIN u /\ u.table = NoTable
  BY DEF Recycled, HasTable
<1>2. TableOK(NoTable)
  BY DEF TableOK, NoTable, IsSeq
<1> QED BY <1>1, <1>2 DEF HasTable

(* A batch that is sent makes out longer. *)
LEMMA SentOut ==
  ASSUME NEW s, IsSeq(s), NEW e
  PROVE  IsSeq(Append(s, e)) /\ Append(s, e) # s
<1>1. Len(s) \in Nat /\ IsSeq(Append(s, e)) /\ Len(Append(s, e)) = Len(s) + 1
  BY AppendIsSeq DEF IsSeq
<1> QED BY <1>1

(* What a step keeps. *)
StepKept ==
  /\ SidsInv'
  /\ TableKept(w', w) \/ out' # out \/ w.bytes = <<>>

LEMMA KeptStep ==
  ASSUME SidsInv, TableKept(w', w), out' = out
  PROVE  StepKept
BY DEF StepKept, SidsInv, TableKept

LEMMA EndsKept ==
  ASSUME SidsInv, NEW r, NEW a, Ends(r, a), TableKept(r.w, w), out' = out
  PROVE  StepKept
BY KeptStep DEF Ends

LEMMA ValuesKept ==
  ASSUME SidsInv, StackInv(w, asked),
         \/ \E n \in Sizes : WriteShortScalar(n) \/ WriteSizedScalar(n) \/ WriteInt(n) \/ AppendLob(n)
         \/ \E name \in Names : WriteSymbol(name)
         \/ \E sid \in {Ivm, Len(SystemNames)} : WriteSymbolId(sid)
         \/ \E type \in {"list", "struct"} : StartContainer(type)
         \/ StartLob
  PROVE  StepKept
<1>1. HasTable(w) /\ WriterOK(w)
  BY DEF SidsInv, StackInv
<1>2. ASSUME NEW toks, NEW n, NEW told, NEW v, Writes(WriteValue(w, toks, n, told), v)
      PROVE  StepKept
  <2>1. PICK r, a : r = WriteValue(w, toks, n, told) /\ Ends(r, a) /\ out' = out
    BY <1>2 DEF Writes
  <2> QED BY <1>1, <2>1, WriteValueKept, EndsKept
<1>3. ASSUME NEW n, WriteShortScalar(n) \/ WriteSizedScalar(n) \/ WriteInt(n)
      PROVE  StepKept
  BY <1>2, <1>3 DEF WriteShortScalar, WriteSizedScalar, WriteInt, WriteShort, WriteSized, WriteIonInt
<1>4. ASSUME NEW n, AppendLob(n)
      PROVE  StepKept
  <2>1. CASE w.lob = None
    <3>1. w' = w /\ out' = out
      BY <1>4, <2>1 DEF AppendLob, Ends, Fails
    <3> QED BY <1>1, <3>1, KeptReflexive, KeptStep
  <2>2. CASE w.lob # None
    <3>1. PICK e, u : e = Emit(w, <<"bytes", n>>) /\ u = PatchLengths(e, n)
      OBVIOUS
    <3>2. w' = u /\ out' = out
      BY <1>4, <2>2, <3>1 DEF AppendLob, Ends, Ok
    <3>3. TableKept(e, w) /\ HasTable(e)
      BY <1>1, <3>1, SameTables, SameKept DEF TableKept
    <3>4. TableKept(u, w)
      BY <1>1, <3>1, <3>3, SameTables, SameThenKept
    <3> QED BY <3>2, <3>4, KeptStep
  <2> QED BY <2>1, <2>2
<1>5. ASSUME NEW sid, WriteSymbolId(sid)
      PROVE  StepKept
  <2>1. PICK r, a : r = WriteSid(w, sid) /\ Ends(r, a) /\ out' = out
    BY <1>5 DEF WriteSymbolId, Writes
  <2> QED BY <1>1, <2>1, WriteSidKept, EndsKept
<1>6. ASSUME NEW name, WriteSymbol(name)
      PROVE  StepKept
  <2>1. PICK u, sid, r, a : /\ u = AddSymbol(w, name) /\ r = WriteSid(u, sid)
                            /\ Ends(r, a) /\ out' = out
    BY <1>6 DEF WriteSymbol, Writes, WriteName
  <2>2. TableKept(u, w) /\ HasTable(u)
    BY <1>1, <2>1, AddSymbolKept DEF TableKept
  <2>3. WriterOK(u)
    BY <1>1, <2>1, KeepsFields DEF Keeps, Mirrors
  <2>4. TableKept(r.w, w)
    BY <1>1, <2>1, <2>2, <2>3, WriteSidKept, KeptTransitive
  <2> QED BY <2>1, <2>4, EndsKept
<1>7. ASSUME NEW type, NEW flag, NEW lob, NEW v, NEW a,
             LET r == OpenPatch(w, type)
             IN  \/ Ends(IF r.err = "ok" THEN Ok([r.w EXCEPT !.inStruct = flag]) ELSE r, a)
                 \/ Ends(IF r.err = "ok" THEN Ok([r.w EXCEPT !.lob = lob]) ELSE r, a),
             out' = out
      PROVE  StepKept
  <2>1. PICK r, x, y, p : /\ r = OpenPatch(w, type) /\ Ends(p, a)
                          /\ x = [r.w EXCEPT !.inStruct = flag] /\ y = [r.w EXCEPT !.lob = lob]
                          /\ p = r \/ p = Ok(x) \/ p = Ok(y)
    BY <1>7
  <2>2. TableKept(r.w, w) /\ HasTable(r.w)
    BY <1>1, <2>1, OpenPatchKept DEF TableKept
  <2>3. TableKept(x, w) /\ TableKept(y, w)
    BY <1>1, <2>1, <2>2, SameTables, SameThenKept
  <2>4. TableKept(p.w, w)
    BY <2>1, <2>2, <2>3 DEF Ok
  <2> QED BY <1>7, <2>1, <2>4, EndsKept
<1>8. ASSUME NEW type, StartContainer(type)
      PROVE  StepKept
  BY <1>7, <1>8 DEF StartContainer
<1>9. ASSUME StartLob
      PROVE  StepKept
  BY <1>7, <1>9 DEF StartLob
<1> QED BY <1>3, <1>4, <1>5, <1>6, <1>8, <1>9

LEMMA FinishLobKept ==
  ASSUME SidsInv, FinishLob
  PROVE  StepKept
<1>1. HasTable(w) /\ out' = out
  BY DEF SidsInv, FinishLob
<1>2. PICK u, x : u = CloseValue(Pop(w)) /\ x = [u EXCEPT !.lob = None]
  OBVIOUS
<1>3. w' = w \/ w' = x
  BY <1>2 DEF FinishLob, Ends, Ok, Fails
<1>4. TableKept(u, w) /\ HasTable(u)
  BY <1>1, <1>2, SameTables, SameKept DEF TableKept
<1>5. TableKept(x, w)
  BY <1>1, <1>2, <1>4, SameTables, SameThenKept
<1> QED BY <1>1, <1>3, <1>5, KeptReflexive, KeptStep

(* What is sent is no longer waiting. *)
LEMMA SentStep ==
  ASSUME SidsInv, NEW batch, out' = Append(out, batch), HasTable(w')
  PROVE  StepKept
BY SentOut DEF SidsInv, StepKept

LEMMA FinishContainerKept ==
  ASSUME Careful, SidsInv, FinishContainer
  PROVE  StepKept
<1>1. HasTable(w)
  BY DEF SidsInv
<1>2. PICK u, x : u = CloseValue(Pop(w)) /\ x = [u EXCEPT !.inStruct = InStructAfter(u)]
  OBVIOUS
<1>3. TableKept(u, w) /\ HasTable(u)
  BY <1>1, <1>2, SameTables, SameKept DEF TableKept
<1>4. TableKept(x, w) /\ HasTable(x)
  BY <1>1, <1>2, <1>3, SameTables, SameThenKept DEF TableKept
<1>5. \/ (w' = x \/ w' = w) /\ out' = out
      \/ w' = Recycled(x) /\ out' = Append(out, Flushed(x))
      \/ Ends(Fails(x, "no table"), asked)
  <2>1. \/ (\E a : Ends(Ok(x), a)) /\ out' = out
        \/ Ends(Fails(w, "nothing open"), asked) /\ out' = out
        \/ (\E a : Ends(Ok(Recycled(x)), a)) /\ out' = Append(out, Flushed(x))
        \/ Ends(Fails(x, "no table"), asked)
    BY <1>2 DEF FinishContainer
  <2> QED BY <2>1 DEF Ends, Ok, Fails
<1>6. CASE (w' = x \/ w' = w) /\ out' = out
  BY <1>1, <1>4, <1>6, KeptStep, KeptReflexive
<1>7. CASE w' = Recycled(x) /\ out' = Append(out, Flushed(x))
  BY <1>4, <1>7, RecycledTable, SentStep
<1> QED BY <1>5, <1>6, <1>7, NoTableRefused

LEMMA FlushKept ==
  ASSUME Careful, SidsInv, Flush \/ Close
  PROVE  StepKept
<1>1. HasTable(w)
  BY DEF SidsInv
<1>2. PICK x, y, z : x = Recycled(w) /\ y = [x EXCEPT !.closed = TRUE]
                     /\ z = [w EXCEPT !.closed = TRUE]
  OBVIOUS
<1>3. HasTable(x)
  BY <1>1, <1>2, RecycledTable
<1>4. HasTable(y) /\ TableKept(z, w)
  BY <1>1, <1>2, <1>3, SameTables, SameKept DEF TableKept
<1>5. \/ (w' = x \/ w' = y) /\ out' = Append(out, Flushed(w))
      \/ w' = z /\ out' = out
  <2>1. ~Ends(Fails(w, "no table"), asked)
    BY NoTableRefused
  <2>2. CASE Flush
    BY <1>2, <2>1, <2>2 DEF Flush, Ends, Ok
  <2>3. CASE Close
    BY <1>2, <2>1, <2>3 DEF Close, Ends, Ok
  <2> QED BY <2>2, <2>3
<1> QED BY <1>3, <1>4, <1>5, SentStep, KeptStep

LEMMA PendingKept ==
  ASSUME "table" \notin Careless, SidsInv,
         OtherCall \/ (\E name \in Names : (FieldName(name) \/ AddAnnotation(name)) /\ UNCHANGED out)
  PROVE  StepKept
<1>1. HasTable(w) /\ out' = out
  BY DEF SidsInv, OtherCall
<1>2. ASSUME NEW r, NEW a, Ends(r, a), TableKept(r.w, w)
      PROVE  StepKept
  BY <1>1, <1>2, EndsKept
<1>3. ASSUME NEW v, NEW a, Ends(Ok(v), a), TableKept(v, w)
      PROVE  StepKept
  BY <1>2, <1>3 DEF Ok
<1>4. ASSUME NEW v, NEW a, Ends(Ok(v), a), SameTable(v, w)
      PROVE  StepKept
  BY <1>1, <1>3, <1>4, SameKept
<1>5. ASSUME NEW x, \/ FieldName(x) \/ FieldSid(x) \/ SetTempSize(x)
                    \/ ClearField \/ ClearAnns
      PROVE  StepKept
  BY <1>1, <1>4, <1>5, SameTables DEF FieldName, FieldSid, SetTempSize, ClearField, ClearAnns
<1>6. ASSUME NEW x, AddAnnotation(x) \/ AddAnnotationSid(x)
      PROVE  StepKept
  BY <1>1, <1>2, <1>6, WithAnnotationTable DEF AddAnnotation, AddAnnotationSid
<1>7. ASSUME NEW x, AddAnnotations(x) \/ AddAnnotationSids(x)
      PROVE  StepKept
  BY <1>1, <1>2, <1>7, WithAnnotationsTable DEF AddAnnotations, AddAnnotationSids
<1>8. ASSUME NEW name, MakeSymbol(name)
      PROVE  StepKept
  BY <1>1, <1>3, <1>8, AddSymbolKept DEF MakeSymbol
<1>9. ASSUME NEW n, SetMaxAnnotations(n)
      PROVE  StepKept
  <2>1. PICK r : r = (IF w.limit # Unset THEN Fails(w, "state") ELSE WithLimit(w, n))
                 /\ Ends(r, asked)
    BY <1>9 DEF SetMaxAnnotations
  <2>2. TableKept(r.w, w)
    <3>1. CASE w.limit # Unset
      BY <1>1, <2>1, <3>1, FailsIs, KeptReflexive
    <3>2. CASE w.limit = Unset
      BY <1>1, <2>1, <3>2, WithLimitTable
    <3> QED BY <3>1, <3>2
  <2> QED BY <1>2, <2>1, <2>2
<1>10. ASSUME GetFieldSid
       PROVE  StepKept
  BY <1>1, <1>2, <1>10, FieldAsSidTable DEF GetFieldSid
<1>11. ASSUME NEW i, GetAnnotationSid(i)
       PROVE  StepKept
  <2>1. PICK r : r = (IF i > Len(w.anns) THEN Fails(w, "arg")
                      ELSE Ok(IF w.annsType = BySid THEN w ELSE AddSymbol(w, w.anns[i])))
                 /\ Ends(r, asked)
    BY <1>11 DEF GetAnnotationSid
  <2>2. r.w = w \/ r.w = AddSymbol(w, w.anns[i])
    BY <2>1 DEF Ok, Fails
  <2>3. TableKept(r.w, w)
    BY <1>1, <2>2, KeptReflexive, AddSymbolKept
  <2> QED BY <1>2, <2>1, <2>3
<1>12. ASSUME NEW i \in Imports, SetTable(i)
       PROVE  StepKept
  <2>1. w.bytes = <<>>
    BY <1>12 DEF SetTable, Allowed
  <2>2. PICK t, v : t = [open |-> TRUE, imports |-> i, locals |-> <<>>] /\ v = [w EXCEPT !.table = t]
    OBVIOUS
  <2>3. w' = w \/ w' = v
    BY <1>12, <2>2 DEF SetTable, SetSymbolTable, Ends, Ok, Fails
  <2>4. TableOK(t)
    <3>1. IsSeq(i) /\ IsSeq(<<>>)
      BY WriterAssumption, SeqIsSeq DEF IsSeq
    <3> QED BY <2>2, <3>1 DEF TableOK
  <2>5. HasTable(v)
    BY <1>1, <2>2, <2>4 DEF HasTable
  <2> QED BY <1>1, <2>1, <2>3, <2>5 DEF StepKept, SidsInv
<1> QED BY <1>5, <1>6, <1>7, <1>8, <1>9, <1>10, <1>11, <1>12 DEF OtherCall, PendingCall

LEMMA NextKept ==
  ASSUME Careful, "table" \notin Careless, SidsInv, StackInv(w, asked), [Next]_vars
  PROVE  StepKept
<1>1. CASE ValueCall
  <2>1. CASE \E name \in Names : (FieldName(name) \/ AddAnnotation(name)) /\ UNCHANGED out
    BY <2>1, PendingKept
  <2>2. CASE FinishLob \/ FinishContainer \/ Flush
    BY <2>2, FinishLobKept, FinishContainerKept, FlushKept
  <2> QED BY <1>1, <2>1, <2>2, ValuesKept DEF ValueCall
<1>2. CASE OtherCall
  BY <1>2, PendingKept
<1>3. CASE Close
  BY <1>3, FlushKept
<1>4. CASE UNCHANGED vars
  BY <1>4, KeptReflexive, KeptStep DEF vars, SidsInv
<1> QED BY <1>1, <1>2, <1>3, <1>4 DEF Next

(* A name keeps the symbol id that waiting values were written with until   *)
(* they are sent: no call, whichever of its own annotations, field names    *)
(* and symbols it makes ids for, moves one that was given.                  *)
THEOREM SidsStay ==
  ASSUME Careful, "table" \notin Careless
  PROVE  Spec => SidsKept
<1> DEFINE I == StackInv(w, asked) /\ SidsInv
           A == w.bytes # <<>> /\ out' = out =>
                  \A name \in Names : SidOf(w.table, name) > 0 =>
                    SidOf(w'.table, name) = SidOf(w.table, name)
<1>1. Init => I
  BY InitInv, InitSids
<1>2. I /\ [Next]_vars => I'
  <2>1. SUFFICES ASSUME I, [Next]_vars
                 PROVE  StackInv(w', asked') /\ SidsInv'
    OBVIOUS
  <2> QED BY <2>1, NextInv, NextKept DEF StepKept
<1>3. I /\ [Next]_vars => [A]_vars
  <2>1. SUFFICES ASSUME I, [Next]_vars, w.bytes # <<>>, out' = out, NEW name,
                        SidOf(w.table, name) > 0
                 PROVE  SidOf(w'.table, name) = SidOf(w.table, name)
    OBVIOUS
  <2>2. TableKept(w', w)
    BY <2>1, NextKept DEF StepKept
  <2> QED BY <2>1, <2>2, GrowsKeepsSids DEF TableKept, SidsInv, HasTable
<1>4. SidsKept <=> [][A]_vars
  BY DEF SidsKept
<1> HIDE DEF I, A
<1> QED BY <1>1, <1>2, <1>3, <1>4, PTL DEF Spec
=============================================================================
