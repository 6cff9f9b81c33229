--------------------------- MODULE IonWriterProofs ---------------------------
(***************************************************************************)
(* What the proofs about either writer share: facts about sequences, and   *)
(* what the calls of IonWriter by which no value is written leave alone.   *)
(*                                                                         *)
(* The writer and what was asked of it are records most fields of which    *)
(* no theorem depends on; IsRecord and IsSeq say no more of them than that *)
(* they are records with the fields that matter, and sequences.            *)
(***************************************************************************)
EXTENDS IonWriter, TLAPS

IsSeq(s) == Len(s) \in Nat /\ s = [i \in 1..Len(s) |-> s[i]]

IsRecord(r, fields) == r = [f \in DOMAIN r |-> r[f]] /\ fields \subseteq DOMAIN r

(* Sequences of anything. *)

LEMMA SeqIsSeq ==
  ASSUME NEW S, NEW s \in Seq(S)
  PROVE  IsSeq(s)
BY DEF IsSeq

LEMMA IsSeqEmpty ==
  ASSUME NEW s, IsSeq(s)
  PROVE  s = <<>> <=> Len(s) = 0
BY DEF IsSeq

LEMMA IsSeqSeq ==
  ASSUME NEW s, IsSeq(s), NEW S, \A i \in 1..Len(s) : s[i] \in S
  PROVE  s \in Seq(S)
<1>1. Len(s) \in Nat /\ s = [i \in 1..Len(s) |-> s[i]]
  BY DEF IsSeq
<1>2. [i \in 1..Len(s) |-> s[i]] \in Seq(S)
  BY <1>1
<1> QED BY <1>1, <1>2

LEMMA AppendIsSeq ==
  ASSUME NEW s, IsSeq(s), NEW e
  PROVE  /\ IsSeq(Append(s, e)) /\ Len(Append(s, e)) = Len(s) + 1
         /\ \A i \in 1..Len(s) : Append(s, e)[i] = s[i]
         /\ Append(s, e)[Len(s) + 1] = e
<1> DEFINE S == { s[i] : i \in 1..Len(s) } \cup {e}
<1>1. \A i \in 1..Len(s) : s[i] \in S
  OBVIOUS
<1>2. e \in S
  OBVIOUS
<1> HIDE DEF S
<1>3. s \in Seq(S)
  BY <1>1, IsSeqSeq
<1>4. Append(s, e) \in Seq(S)
  BY <1>2, <1>3
<1>5. IsSeq(Append(s, e))
  BY <1>4, SeqIsSeq
<1>6. Len(Append(s, e)) = Len(s) + 1 /\ Append(s, e)[Len(s) + 1] = e
  BY <1>2, <1>3
<1>7. \A i \in 1..Len(s) : Append(s, e)[i] = s[i]
  BY <1>2, <1>3
<1> QED BY <1>5, <1>6, <1>7

LEMMA ConcatIsSeq ==
  ASSUME NEW s, IsSeq(s), NEW t, IsSeq(t)
  PROVE  IsSeq(s \o t) /\ Len(s \o t) = Len(s) + Len(t)
<1> DEFINE S == { s[i] : i \in 1..Len(s) } \cup { t[i] : i \in 1..Len(t) }
<1>1. \A i \in 1..Len(s) : s[i] \in S
  OBVIOUS
<1>2. \A i \in 1..Len(t) : t[i] \in S
  OBVIOUS
<1> HIDE DEF S
<1>3. s \in Seq(S) /\ t \in Seq(S)
  BY <1>1, <1>2, IsSeqSeq
<1>4. s \o t \in Seq(S) /\ Len(s \o t) = Len(s) + Len(t)
  BY <1>3
<1>5. IsSeq(s \o t)
  BY <1>4, SeqIsSeq
<1> QED BY <1>4, <1>5

LEMMA FrontIsSeq ==
  ASSUME NEW s, IsSeq(s), s # <<>>
  PROVE  /\ IsSeq(Front(s)) /\ Len(s) \in Nat \ {0} /\ Len(Front(s)) = Len(s) - 1
         /\ \A i \in 1..(Len(s) - 1) : Front(s)[i] = s[i]
<1> DEFINE S == { s[i] : i \in 1..Len(s) }
<1>1. \A i \in 1..Len(s) : s[i] \in S
  OBVIOUS
<1> HIDE DEF S
<1>2. s \in Seq(S) /\ Len(s) \in Nat \ {0}
  BY <1>1, IsSeqSeq
<1>3. PICK n \in Nat : n = Len(s) - 1
  BY <1>2
<1>4. Front(s) = SubSeq(s, 1, n)
  BY <1>3 DEF Front
<1>5. SubSeq(s, 1, n) \in Seq(S) /\ Len(SubSeq(s, 1, n)) = n
  BY <1>2, <1>3
<1>6. \A i \in 1..n : SubSeq(s, 1, n)[i] = s[i]
  BY <1>2, <1>3
<1>7. IsSeq(SubSeq(s, 1, n))
  BY <1>5, SeqIsSeq
<1> QED BY <1>2, <1>3, <1>4, <1>5, <1>6, <1>7

-----------------------------------------------------------------------------
(* Results. *)

LEMMA FailsIs ==
  ASSUME NEW v, NEW e, NEW r, r = Fails(v, e)
  PROVE  r.err = e /\ r.w = v
BY DEF Fails

LEMMA MaxAnnsSet == MaxAnns # Unset
BY WriterAssumption DEF Unset

-----------------------------------------------------------------------------
(* What a call leaves alone. *)

Agree(u, v, F) == IsRecord(u, F) /\ \A f \in F : u[f] = v[f]

(* The fields that the calls of IonWriter change, and what the temp buffer  *)
(* and the array of annotations in it are always like.                      *)
PendingFields ==
  {"field", "fieldSid", "fieldType", "anns", "annsType", "limit", "used", "room", "table",
   "hasLocal"}
BufferFields == {"anns", "limit", "used", "room"}

BufferOK(v) ==
  /\ IsRecord(v, BufferFields)
  /\ v.used \in Nat /\ v.room \in Nat /\ v.used <= v.room
  /\ v.limit = Unset => v.anns = <<>>

Kept(u, v, F) == Agree(u, v, F) /\ BufferOK(u)

(* A call that is refused may have made the array of annotations. *)
Untraced(u, v) == u = [v EXCEPT !.limit = u.limit, !.used = u.used]

LEMMA AgreeReflexive ==
  ASSUME NEW v, NEW F, IsRecord(v, F)
  PROVE  Agree(v, v, F)
BY DEF Agree

LEMMA KeptTransitively ==
  ASSUME NEW F, NEW x, NEW u, NEW v, Kept(x, u, F), Kept(u, v, F)
  PROVE  Kept(x, v, F)
BY DEF Kept, Agree

LEMMA UntracedReflexive ==
  ASSUME NEW v, BufferOK(v)
  PROVE  Untraced(v, v)
BY DEF Untraced, BufferOK, IsRecord, BufferFields

(* A field that the buffer does not depend on. *)
LEMMA FieldsKept ==
  ASSUME NEW F, F \cap PendingFields = {}, NEW v, IsRecord(v, F), BufferOK(v)
  PROVE  /\ Kept(v, v, F)
         /\ \A name : Kept(WithField(v, name), v, F)
         /\ \A sid : Kept(WithFieldSid(v, sid), v, F)
         /\ Kept(ClearFieldName(v), v, F)
         /\ \A t : Kept([v EXCEPT !.table = t], v, F)
         /\ \A t : Kept(WithTable(v, t), v, F)
         /\ \A name : Kept(AddSymbol(v, name), v, F)
<1>1. Kept(v, v, F)
  BY DEF Kept, Agree
<1>2. ASSUME NEW name
      PROVE  Kept(WithField(v, name), v, F)
  BY DEF WithField, Kept, Agree, BufferOK, IsRecord, PendingFields, BufferFields
<1>3. ASSUME NEW sid
      PROVE  Kept(WithFieldSid(v, sid), v, F)
  BY DEF WithFieldSid, Kept, Agree, BufferOK, IsRecord, PendingFields, BufferFields
<1>4. Kept(ClearFieldName(v), v, F)
  BY DEF ClearFieldName, Kept, Agree, BufferOK, IsRecord, PendingFields, BufferFields
<1>5. ASSUME NEW t
      PROVE  Kept([v EXCEPT !.table = t], v, F)
  BY DEF Kept, Agree, BufferOK, IsRecord, PendingFields, BufferFields
<1>6. ASSUME NEW t
      PROVE  Kept(WithTable(v, t), v, F)
  BY DEF WithTable, Kept, Agree, BufferOK, IsRecord, PendingFields, BufferFields
<1>7. \A name : Kept(AddSymbol(v, name), v, F)
  BY <1>6 DEF AddSymbol
<1> QED BY <1>1, <1>2, <1>3, <1>4, <1>5, <1>6, <1>7

LEMMA EnlargedKept ==
  ASSUME NEW F, F \cap PendingFields = {}, NEW v, IsRecord(v, F), BufferOK(v), NEW n \in Nat
  PROVE  Kept(Enlarged(v, n), v, F)
<1>1. PICK u : u = [v EXCEPT !.used = 0, !.room = n]
  OBVIOUS
<1>2. Agree(u, v, F)
  BY <1>1 DEF Agree, IsRecord, PendingFields
<1>3. IsRecord(u, BufferFields) /\ u.used = 0 /\ u.room = n
      /\ u.limit = v.limit /\ u.anns = v.anns
  BY <1>1 DEF BufferOK, IsRecord, BufferFields
<1>4. Kept(u, v, F)
  BY <1>2, <1>3 DEF Kept, BufferOK
<1> QED BY <1>1, <1>4, FieldsKept DEF Enlarged

LEMMA ClearAnnotationsKept ==
  ASSUME NEW F, F \cap PendingFields = {}, NEW v, IsRecord(v, F), BufferOK(v)
  PROVE  Kept(ClearAnnotations(v), v, F)
BY DEF ClearAnnotations, Kept, Agree, BufferOK, IsRecord, PendingFields, BufferFields

LEMMA AnnotateKept ==
  ASSUME NEW F, F \cap PendingFields = {}, NEW v, IsRecord(v, F), BufferOK(v),
         v.limit # Unset, NEW type, NEW anns
  PROVE  Kept(Annotate(v, type, anns), v, F)
BY DEF Annotate, Kept, Agree, BufferOK, IsRecord, PendingFields, BufferFields
LEMMA WithLimitKept ==
  ASSUME NEW F, F \cap PendingFields = {}, NEW v, IsRecord(v, F), BufferOK(v), NEW n \in Nat,
         NEW r, r = WithLimit(v, n)
  PROVE  /\ r.err # "ok" => r.w = v
         /\ r.err = "ok" => Kept(r.w, v, F) /\ r.w.limit # Unset
         /\ v.anns = <<>> => Untraced(r.w, v)
<1> DEFINE m == n * StringSize
<1>1. m \in Nat
  BY WriterAssumption
<1>2. r = Then(Allocate(v, m), LAMBDA u : Ok([u EXCEPT !.limit = n, !.anns = <<>>]))
  BY DEF WithLimit
<1> HIDE DEF m
<1>3. CASE v.used + m >= v.room
  <2>1. r.err = "memory" /\ r.w = v
    BY <1>2, <1>3 DEF Allocate, Then, Fails
  <2> QED BY <2>1, UntracedReflexive
<1>4. CASE ~(v.used + m >= v.room)
  <2>1. PICK x, u : x = [v EXCEPT !.used = @ + m] /\ u = [x EXCEPT !.limit = n, !.anns = <<>>]
    OBVIOUS
  <2>2. r.err = "ok" /\ r.w = u
    BY <1>2, <1>4, <2>1 DEF Allocate, Then, Ok
  <2>3. PICK k : k = v.used + m
    OBVIOUS
  <2>4. k \in Nat /\ k <= v.room
    BY <1>1, <1>4, <2>3 DEF BufferOK
  <2>5. u = [v EXCEPT !.used = k, !.limit = n, !.anns = <<>>]
    BY <2>1, <2>3
  <2>6. Agree(u, v, F)
    BY <2>5 DEF Agree, IsRecord, PendingFields
  <2>7. /\ IsRecord(u, BufferFields) /\ u.used = k /\ u.room = v.room
        /\ u.limit = n /\ u.anns = <<>>
    BY <2>5 DEF BufferOK, IsRecord, BufferFields
  <2>8. n # Unset
    BY DEF Unset
  <2>9. Kept(u, v, F)
    BY <2>4, <2>6, <2>7 DEF Kept, BufferOK
  <2>10. v.anns = <<>> => Untraced(u, v)
    BY <2>5, <2>7 DEF Untraced, BufferOK, IsRecord, BufferFields
  <2> QED BY <2>2, <2>7, <2>8, <2>9, <2>10
<1> QED BY <1>3, <1>4

LEMMA WithAnnotationKept ==
  ASSUME NEW F, F \cap PendingFields = {}, NEW v, IsRecord(v, F), BufferOK(v),
         NEW type, NEW ann, NEW r, r = WithAnnotation(v, type, ann)
  PROVE  Kept(r.w, v, F) /\ (r.err # "ok" => Untraced(r.w, v))
<1>1. PICK one : one = <<ann>>
  OBVIOUS
<1>2. Kept(v, v, F) /\ Untraced(v, v)
  BY FieldsKept, UntracedReflexive
<1>3. CASE Mixes(v, type) \/ (v.limit # Unset /\ Len(v.anns) >= v.limit)
  BY <1>2, <1>3 DEF WithAnnotation, Fails
<1>4. CASE ~Mixes(v, type) /\ v.limit = Unset
  <2>1. PICK m, y, u : m = WithLimit(v, MaxAnns) /\ y = m.w /\ u = Annotate(y, type, one)
    OBVIOUS
  <2>2. r = IF m.err = "ok" THEN Ok(u) ELSE m
    BY <1>1, <1>4, <2>1 DEF WithAnnotation, Then
  <2>3. MaxAnns \in Nat
    BY WriterAssumption
  <2>4. /\ m.err # "ok" => y = v
        /\ m.err = "ok" => Kept(y, v, F) /\ y.limit # Unset
    BY <2>1, <2>3, WithLimitKept
  <2>5. CASE m.err = "ok"
    <3>1. Kept(u, y, F)
      BY <2>1, <2>4, <2>5, AnnotateKept DEF Kept, Agree
    <3>2. r.err = "ok" /\ r.w = u
      BY <2>2, <2>5 DEF Ok
    <3> QED BY <2>4, <2>5, <3>1, <3>2, KeptTransitively
  <2>6. CASE m.err # "ok"
    BY <1>2, <2>1, <2>2, <2>4, <2>6
  <2> QED BY <2>5, <2>6
<1>5. CASE ~Mixes(v, type) /\ v.limit # Unset /\ ~(Len(v.anns) >= v.limit)
  <2>1. r.err = "ok" /\ r.w = Annotate(v, type, one)
    BY <1>1, <1>5 DEF WithAnnotation, Ok
  <2> QED BY <1>5, <2>1, AnnotateKept
<1> QED BY <1>3, <1>4, <1>5

LEMMA WithAnnotationsKept ==
  ASSUME NEW F, F \cap PendingFields = {}, NEW v, IsRecord(v, F), BufferOK(v),
         NEW type, NEW anns, NEW r, r = WithAnnotations(v, type, anns)
  PROVE  Kept(r.w, v, F) /\ (r.err # "ok" => Untraced(r.w, v))
<1>1. PICK made, u : made = (IF v.limit = Unset THEN WithLimit(v, MaxAnns) ELSE Ok(v))
                     /\ u = made.w
  OBVIOUS
<1>2. r = IF Mixes(v, type) THEN Fails(v, "state")
          ELSE IF made.err # "ok" THEN made
          ELSE IF Len(u.anns) + Len(anns) > u.limit THEN Fails(u, "too many")
          ELSE Ok(IF anns = <<>> THEN u ELSE Annotate(u, type, anns))
  BY <1>1 DEF WithAnnotations, Then
<1>3. Kept(v, v, F) /\ Untraced(v, v)
  BY FieldsKept, UntracedReflexive
<1>4. /\ Kept(u, v, F) /\ Untraced(u, v)
      /\ made.err = "ok" => u.limit # Unset
  <2>1. CASE v.limit = Unset
    <3>1. v.anns = <<>> /\ made = WithLimit(v, MaxAnns) /\ MaxAnns \in Nat
      BY <1>1, <2>1, WriterAssumption DEF BufferOK
    <3> QED BY <1>1, <1>3, <3>1, WithLimitKept
  <2>2. CASE v.limit # Unset
    BY <1>1, <1>3, <2>2 DEF Ok
  <2> QED BY <2>1, <2>2
<1>5. r.w \in {v, u} \/ (r.w = Annotate(u, type, anns) /\ made.err = "ok" /\ r.err = "ok")
  <2>1. CASE Mixes(v, type)
    BY <1>2, <2>1 DEF Fails
  <2>2. CASE ~Mixes(v, type) /\ made.err # "ok"
    BY <1>1, <1>2, <2>2
  <2>3. CASE ~Mixes(v, type) /\ made.err = "ok" /\ Len(u.anns) + Len(anns) > u.limit
    <3>1. r = Fails(u, "too many")
      BY <1>2, <2>3
    <3>2. r.w = u
      BY <3>1, FailsIs
    <3> QED BY <3>2
  <2>4. CASE ~Mixes(v, type) /\ made.err = "ok" /\ ~(Len(u.anns) + Len(anns) > u.limit)
    <3>1. r.err = "ok" /\ r.w = IF anns = <<>> THEN u ELSE Annotate(u, type, anns)
      BY <1>2, <2>4 DEF Ok
    <3> QED BY <2>4, <3>1
  <2> QED BY <2>1, <2>2, <2>3, <2>4
<1>6. Kept(r.w, v, F)
  <2>1. CASE r.w \in {v, u}
    BY <1>3, <1>4, <2>1
  <2>2. CASE r.w = Annotate(u, type, anns) /\ made.err = "ok"
    <3>1. Kept(Annotate(u, type, anns), u, F)
      BY <1>4, <2>2, AnnotateKept DEF Kept, Agree
    <3> QED BY <1>4, <2>2, <3>1, KeptTransitively
  <2> QED BY <1>5, <2>1, <2>2
<1> QED BY <1>3, <1>4, <1>5, <1>6
LEMMA FieldAsSidKept ==
  ASSUME NEW F, F \cap PendingFields = {}, NEW v, IsRecord(v, F), BufferOK(v),
         NEW r, r = FieldAsSid(v)
  PROVE  Kept(r.w, v, F) /\ (r.err # "ok" => Untraced(r.w, v))
<1>1. PICK u : u = AddSymbol(v, v.field)
  OBVIOUS
<1>2. Kept(v, v, F) /\ Kept(u, v, F) /\ Untraced(v, v)
  BY <1>1, FieldsKept, UntracedReflexive
<1>3. (r.w = u /\ r.err = "ok") \/ r.w = v
  <2>1. CASE v.fieldType = ByName /\ v.field # None
    <3>1. r = [w |-> u, err |-> "ok", sid |-> SidOf(u.table, v.field)]
      BY <1>1, <2>1 DEF FieldAsSid, ByName, BySid
    <3> QED BY <3>1
  <2>2. CASE ~(v.fieldType = ByName /\ v.field # None) /\ v.fieldType = BySid
    BY <2>2 DEF FieldAsSid
  <2>3. CASE ~(v.fieldType = ByName /\ v.field # None) /\ v.fieldType # BySid
    BY <2>3 DEF FieldAsSid, Fails
  <2> QED BY <2>1, <2>2, <2>3
<1> QED BY <1>2, <1>3

(* What a call by which no value is written does: the writer keeps all but  *)
(* what it has for the next value; so does what was asked for.              *)
AskedFields == {"batch", "sent", "open"}

OnlyPending(F) ==
  /\ Kept(w', w, F) /\ (res' # "ok" => Untraced(w', w))
  /\ Agree(asked', asked, AskedFields)

LEMMA EndsPending ==
  ASSUME NEW F, NEW r, NEW a, Kept(r.w, w, F), r.err # "ok" => Untraced(r.w, w),
         Agree(a, asked, AskedFields), IsRecord(asked, AskedFields), Ends(r, a)
  PROVE  OnlyPending(F)
BY DEF Ends, OnlyPending, Agree

LEMMA AskedPending ==
  ASSUME NEW a, IsRecord(a, AskedFields)
  PROVE  /\ Agree(a, a, AskedFields)
         /\ \A field : Agree([a EXCEPT !.field = field], a, AskedFields)
         /\ \A anns : Agree([a EXCEPT !.anns = anns], a, AskedFields)
BY DEF Agree, IsRecord, AskedFields

LEMMA PendingCallKept ==
  ASSUME NEW F, F \cap PendingFields = {}, IsRecord(w, F), BufferOK(w),
         IsRecord(asked, AskedFields),
         \/ PendingCall
         \/ \E name \in Names : FieldName(name) \/ AddAnnotation(name)
         \/ \E imports \in Imports : SetSymbolTable(imports)
  PROVE  OnlyPending(F)
<1>1. Kept(w, w, F) /\ Untraced(w, w) /\ Agree(asked, asked, AskedFields)
  BY FieldsKept, UntracedReflexive, AskedPending
<1>2. ASSUME NEW v, NEW a, Kept(v, w, F), Agree(a, asked, AskedFields), Ends(Ok(v), a)
      PROVE  OnlyPending(F)
  <2>1. PICK r : r = Ok(v) /\ Ends(r, a)
    BY <1>2
  <2>2. r.w = v /\ r.err = "ok"
    BY <2>1 DEF Ok
  <2> QED BY <1>2, <2>1, <2>2, EndsPending
<1>3. ASSUME NEW r, NEW a, r.w = w, Agree(a, asked, AskedFields), Ends(r, a)
      PROVE  OnlyPending(F)
  BY <1>1, <1>3, EndsPending
<1>4. ASSUME NEW type, NEW ann, NEW anns,
             Ends(WithAnnotation(w, type, ann), [asked EXCEPT !.anns = anns])
      PROVE  OnlyPending(F)
  <2>1. PICK r, a : /\ r = WithAnnotation(w, type, ann) /\ a = [asked EXCEPT !.anns = anns]
                    /\ Ends(r, a)
    BY <1>4
  <2>2. Kept(r.w, w, F) /\ (r.err # "ok" => Untraced(r.w, w))
    BY <2>1, WithAnnotationKept
  <2> QED BY <2>1, <2>2, AskedPending, EndsPending
<1>5. ASSUME NEW type, NEW more, NEW anns,
             Ends(WithAnnotations(w, type, more), [asked EXCEPT !.anns = anns])
      PROVE  OnlyPending(F)
  <2>1. PICK r, a : /\ r = WithAnnotations(w, type, more) /\ a = [asked EXCEPT !.anns = anns]
                    /\ Ends(r, a)
    BY <1>5
  <2>2. Kept(r.w, w, F) /\ (r.err # "ok" => Untraced(r.w, w))
    BY <2>1, WithAnnotationsKept
  <2> QED BY <2>1, <2>2, AskedPending, EndsPending
<1>6. ASSUME NEW name, FieldName(name)
      PROVE  OnlyPending(F)
  BY <1>2, <1>6, FieldsKept, AskedPending DEF FieldName
<1>7. ASSUME NEW sid, FieldSid(sid)
      PROVE  OnlyPending(F)
  BY <1>2, <1>7, FieldsKept, AskedPending DEF FieldSid
<1>8. ASSUME ClearField
      PROVE  OnlyPending(F)
  BY <1>2, <1>8, FieldsKept, AskedPending DEF ClearField
<1>9. ASSUME NEW name, AddAnnotation(name)
      PROVE  OnlyPending(F)
  BY <1>4, <1>9 DEF AddAnnotation
<1>10. ASSUME NEW sid, AddAnnotationSid(sid)
       PROVE  OnlyPending(F)
  BY <1>4, <1>10 DEF AddAnnotationSid
<1>11. ASSUME NEW names, AddAnnotations(names)
       PROVE  OnlyPending(F)
  BY <1>5, <1>11 DEF AddAnnotations
<1>12. ASSUME NEW sids, AddAnnotationSids(sids)
       PROVE  OnlyPending(F)
  BY <1>5, <1>12 DEF AddAnnotationSids
<1>13. ASSUME ClearAnns
       PROVE  OnlyPending(F)
  BY <1>2, <1>13, ClearAnnotationsKept, AskedPending DEF ClearAnns
<1>14. ASSUME NEW n \in Limits, SetMaxAnnotations(n)
       PROVE  OnlyPending(F)
  <2>1. PICK r : /\ r = (IF w.limit # Unset THEN Fails(w, "state") ELSE WithLimit(w, n))
                 /\ Ends(r, asked)
    BY <1>14 DEF SetMaxAnnotations
  <2>2. CASE w.limit # Unset
    <3>1. r.w = w
      BY <2>1, <2>2 DEF Fails
    <3> QED BY <1>1, <1>3, <2>1, <3>1
  <2>3. CASE w.limit = Unset
    <3>1. w.anns = <<>> /\ n \in Nat /\ r = WithLimit(w, n)
      BY <2>1, <2>3, WriterAssumption DEF BufferOK
    <3>2. Kept(r.w, w, F) /\ Untraced(r.w, w)
      BY <1>1, <3>1, WithLimitKept
    <3> QED BY <1>1, <2>1, <3>2, EndsPending
  <2> QED BY <2>2, <2>3
<1>15. ASSUME NEW n \in TempSizes, SetTempSize(n)
       PROVE  OnlyPending(F)
  <2>1. n \in Nat
    BY WriterAssumption
  <2> QED BY <1>1, <1>2, <1>15, <2>1, EnlargedKept DEF SetTempSize
<1>16. ASSUME NEW name, MakeSymbol(name)
       PROVE  OnlyPending(F)
  BY <1>1, <1>2, <1>16, FieldsKept DEF MakeSymbol
<1>17. ASSUME GetFieldSid
       PROVE  OnlyPending(F)
  <2>1. PICK r : r = FieldAsSid(w) /\ Ends(r, asked)
    BY <1>17 DEF GetFieldSid
  <2> QED BY <1>1, <2>1, FieldAsSidKept, EndsPending
<1>18. ASSUME NEW i, GetAnnotationSid(i)
       PROVE  OnlyPending(F)
  <2>1. PICK u : u = IF w.annsType = BySid THEN w ELSE AddSymbol(w, w.anns[i])
    OBVIOUS
  <2>2. Kept(u, w, F)
    BY <1>1, <2>1, FieldsKept
  <2>3. CASE i > Len(w.anns)
    <3>1. PICK r : r = Fails(w, "arg") /\ Ends(r, asked)
      BY <1>18, <2>3 DEF GetAnnotationSid
    <3>2. r.w = w
      BY <3>1, FailsIs
    <3> QED BY <1>1, <1>3, <3>1, <3>2
  <2>4. CASE ~(i > Len(w.anns))
    BY <1>1, <1>2, <1>18, <2>1, <2>2, <2>4 DEF GetAnnotationSid
  <2> QED BY <2>3, <2>4
<1>19. ASSUME NEW imports, SetSymbolTable(imports)
       PROVE  OnlyPending(F)
  <2>1. PICK t : t = [open |-> TRUE, imports |-> imports, locals |-> <<>>]
    OBVIOUS
  <2>2. CASE imports = <<>>
    <3>1. PICK r : r = Fails(w, "arg") /\ Ends(r, asked)
      BY <1>19, <2>2 DEF SetSymbolTable
    <3>2. r.w = w
      BY <3>1, FailsIs
    <3> QED BY <1>1, <1>3, <3>1, <3>2
  <2>3. CASE imports # <<>>
    <3>1. PICK u : u = [w EXCEPT !.table = t]
      OBVIOUS
    <3>2. Ends(Ok(u), asked)
      BY <1>19, <2>1, <2>3, <3>1 DEF SetSymbolTable
    <3>3. Kept(u, w, F)
      BY <3>1, FieldsKept
    <3> QED BY <1>1, <1>2, <3>2, <3>3
  <2> QED BY <2>2, <2>3
<1> QED BY <1>6, <1>7, <1>8, <1>9, <1>10, <1>11, <1>12, <1>13, <1>14, <1>15, <1>16, <1>17,
           <1>18, <1>19 DEF PendingCall
=============================================================================
