------------------------- MODULE IonTextWriterProofs -------------------------
(***************************************************************************)
(* Theorems of IonTextWriter: the stack and the fields saved on it mirror  *)
(* the calls, and a rejected call leaves no trace.                         *)
(***************************************************************************)
EXTENDS IonTextWriter, IonWriterProofs

(* The misuses that leave the frames other than the caller sees them are    *)
(* not made: a push that the temp buffer has no room for, an end of what is *)
(* not open, a value where a lob is open.                                   *)
Careful == Careless \cap {"stack", "wrong end", "in lob"} = {}

-----------------------------------------------------------------------------
(* What the operators of the writer do to the fields of the frames. *)

FrameFields ==
  {"stack", "size", "inStruct", "sep", "pending", "blobBytes", "fresh", "pretty"}

(* u is v but for some fields of the frames, and what they do not matter to. *)
But(u, v, fields) == Kept(u, v, FrameFields \ fields) /\ IsRecord(u, FrameFields)

WriterOK(v) == IsRecord(v, FrameFields) /\ BufferOK(v)

LEMMA ButTransitive ==
  ASSUME NEW S, NEW T, NEW x, NEW u, NEW v, But(x, u, S), But(u, v, T)
  PROVE  But(x, v, S \cup T)
BY DEF But, Kept, Agree, IsRecord

LEMMA ButMore ==
  ASSUME NEW S, NEW T, S \subseteq T, NEW u, NEW v, But(u, v, S)
  PROVE  But(u, v, T)
BY DEF But, Kept, Agree, IsRecord

LEMMA ButOK ==
  ASSUME NEW S, NEW u, NEW v, But(u, v, S)
  PROVE  WriterOK(u)
BY DEF But, Kept, WriterOK

(* What no frame depends on. *)
LEMMA OutBut ==
  ASSUME NEW v, WriterOK(v)
  PROVE  /\ But(v, v, {})
         /\ \A toks : But(Write(v, toks), v, {})
         /\ But(FlushStream(v), v, {})
         /\ \A triple : But([v EXCEPT !.triple = triple], v, {})
         /\ But([v EXCEPT !.closed = TRUE], v, {})
<1> USE DEF But, Kept, Agree, WriterOK, BufferOK, IsRecord, FrameFields, BufferFields
<1>1. But(v, v, {})
  OBVIOUS
<1>2. ASSUME NEW toks
      PROVE  But(Write(v, toks), v, {})
  BY DEF Write
<1>3. But(FlushStream(v), v, {})
  BY DEF FlushStream
<1>4. ASSUME NEW triple
      PROVE  But([v EXCEPT !.triple = triple], v, {})
  OBVIOUS
<1>5. But([v EXCEPT !.closed = TRUE], v, {})
  OBVIOUS
<1> QED BY <1>1, <1>2, <1>3, <1>4, <1>5

LEMMA FieldsBut ==
  ASSUME NEW v, WriterOK(v)
  PROVE  But(ClearFieldName(v), v, {}) /\ But(ClearAnnotations(v), v, {})
<1>1. FrameFields \cap PendingFields = {} /\ FrameFields \ {} = FrameFields
  BY DEF FrameFields, PendingFields
<1> QED BY <1>1, FieldsKept, ClearAnnotationsKept DEF But, Kept, Agree, WriterOK

LEMMA FramesBut ==
  ASSUME NEW v, WriterOK(v), NEW x, NEW u
  PROVE  /\ u = [v EXCEPT !.fresh = x] => But(u, v, {"fresh"}) /\ u.fresh = x
         /\ u = [v EXCEPT !.pending = x] => But(u, v, {"pending"}) /\ u.pending = x
         /\ u = [v EXCEPT !.inStruct = x] => But(u, v, {"inStruct"}) /\ u.inStruct = x
         /\ u = [v EXCEPT !.blobBytes = x] => But(u, v, {"blobBytes"}) /\ u.blobBytes = x
         /\ u = [v EXCEPT !.stack = x] => But(u, v, {"stack"}) /\ u.stack = x
         /\ u = [v EXCEPT !.sep = x] => But(u, v, {"sep"}) /\ u.sep = x
         /\ u = [v EXCEPT !.size = x] => But(u, v, {"size"}) /\ u.size = x
BY DEF But, Kept, Agree, WriterOK, BufferOK, IsRecord, FrameFields, BufferFields

LEMMA StackBut ==
  ASSUME NEW v, WriterOK(v), NEW x, NEW u, u = [v EXCEPT !.stack = x]
  PROVE  But(u, v, {"stack"}) /\ u.stack = x
BY FramesBut

LEMMA InStructBut ==
  ASSUME NEW v, WriterOK(v), NEW x, NEW u, u = [v EXCEPT !.inStruct = x]
  PROVE  But(u, v, {"inStruct"}) /\ u.inStruct = x
BY FramesBut

LEMMA SepBut ==
  ASSUME NEW v, WriterOK(v), NEW x, NEW u, u = [v EXCEPT !.sep = x]
  PROVE  But(u, v, {"sep"}) /\ u.sep = x
BY FramesBut

LEMMA SizeBut ==
  ASSUME NEW v, WriterOK(v), NEW x, NEW u, u = [v EXCEPT !.size = x]
  PROVE  But(u, v, {"size"}) /\ u.size = x
BY FramesBut

LEMMA StartValueBut ==
  ASSUME NEW v, WriterOK(v), v.blobBytes \in Nat, v.inStruct \in BOOLEAN,
         NEW r, r = StartValue(v)
  PROVE  /\ r.err = "ok" => /\ v.blobBytes = 0 /\ But(r.w, v, {"fresh"})
                            /\ r.w.fresh = FALSE
         /\ r.err # "ok" => \/ r.w = v /\ r.err = "state" /\ v.blobBytes > 0
                            \/ /\ But(r.w, v, {"fresh"}) /\ r.w.fresh = FALSE
                               /\ v.inStruct = TRUE /\ r.err = "no field"
<1>1. CASE v.blobBytes > 0
  <2>1. PICK s : s = Fails(v, "state") /\ r = s
    BY <1>1 DEF StartValue
  <2>2. r.w = v /\ r.err = "state"
    BY <2>1, FailsIs
  <2> QED BY <1>1, <2>2
<1>2. CASE ~(v.blobBytes > 0)
  <2>1. PICK x, led, f, y, z : /\ x = Write(v, Lead(v)) /\ led = [x EXCEPT !.fresh = FALSE]
                               /\ f = WriteField(led) /\ y = f.w /\ z = WriteAnnotations(y)
    OBVIOUS
  <2>2. r = IF f.err = "ok" THEN Ok(z) ELSE f
    BY <1>2, <2>1 DEF StartValue, Then
  <2>3. v.blobBytes = 0
    BY <1>2
  <2>4. But(led, v, {"fresh"}) /\ led.fresh = FALSE
    <3>1. But(x, v, {})
      BY <2>1, OutBut
    <3>2. WriterOK(x) /\ led = [x EXCEPT !.fresh = FALSE]
      BY <2>1, <3>1, ButOK
    <3>3. But(led, x, {"fresh"}) /\ led.fresh = FALSE
      BY <3>2, FramesBut
    <3> QED BY <3>1, <3>3, ButTransitive
  <2>5. WriterOK(led) /\ led.inStruct = v.inStruct /\ led.inStruct \in BOOLEAN
    BY <2>4, ButOK DEF But, Kept, Agree, FrameFields
  <2>6. \/ f.err = "ok" /\ But(y, led, {})
        \/ f.err = "no field" /\ y = led /\ led.inStruct = TRUE
    <3>1. PICK name, toks, q, u : /\ name = FieldAsString(led).name
                                  /\ toks = << <<"field", name>> >>
                                  /\ q = Write(led, toks) /\ u = ClearFieldName(q)
      OBVIOUS
    <3>2. \/ f = Ok(led)
          \/ f = Fails(led, "no field") /\ led.inStruct = TRUE
          \/ f = Ok(u)
      BY <2>1, <2>5, <3>1 DEF WriteField
    <3>3. But(led, led, {}) /\ But(q, led, {})
      BY <2>5, <3>1, OutBut
    <3>4. But(u, q, {})
      BY <3>1, <3>3, ButOK, FieldsBut
    <3>5. But(u, led, {})
      BY <3>3, <3>4, ButTransitive
    <3>6. CASE f = Ok(led)
      <4>1. f.err = "ok" /\ f.w = led
        BY <3>6 DEF Ok
      <4> QED BY <2>1, <3>3, <4>1
    <3>7. CASE f = Fails(led, "no field") /\ led.inStruct = TRUE
      <4>1. f = Fails(led, "no field")
        BY <3>7
      <4>2. f.err = "no field" /\ f.w = led
        BY <4>1 DEF Fails
      <4> QED BY <2>1, <3>7, <4>2
    <3>8. CASE f = Ok(u)
      <4>1. f.err = "ok" /\ f.w = u
        BY <3>8 DEF Ok
      <4> QED BY <2>1, <3>5, <4>1
    <3> QED BY <3>2, <3>6, <3>7, <3>8
  <2>7. CASE f.err = "ok"
    <3>1. r.err = "ok" /\ r.w = z
      BY <2>2, <2>7 DEF Ok
    <3>2. But(y, led, {})
      BY <2>6, <2>7
    <3>3. PICK toks, q : q = Write(y, toks) /\ z = ClearAnnotations(q)
      BY <2>1 DEF WriteAnnotations
    <3>4. But(q, y, {}) /\ But(z, q, {})
      BY <3>2, <3>3, ButOK, OutBut, FieldsBut
    <3>5. But(z, led, {})
      BY <3>2, <3>4, ButTransitive
    <3>6. But(z, v, {"fresh"})
      BY <2>4, <3>5, ButTransitive
    <3>7. z.fresh = FALSE
      BY <2>4, <3>5 DEF But, Kept, Agree, FrameFields
    <3> QED BY <2>3, <3>1, <3>6, <3>7
  <2>8. CASE f.err # "ok"
    <3>1. r = f
      BY <2>2, <2>8
    <3> QED BY <2>1, <2>4, <2>5, <2>6, <2>8, <3>1
  <2> QED BY <2>7, <2>8
<1> QED BY <1>1, <1>2

LEMMA CloseValueBut ==
  ASSUME NEW v, WriterOK(v)
  PROVE  But(CloseValue(v), v, {"pending"}) /\ CloseValue(v).pending = TRUE
<1>1. PICK u : u = IF v.flushEvery THEN FlushStream(v) ELSE v
  OBVIOUS
<1>2. But(u, v, {})
  BY <1>1, OutBut
<1>3. CloseValue(v) = [u EXCEPT !.pending = TRUE]
  BY <1>1 DEF CloseValue
<1>4. But(CloseValue(v), u, {"pending"}) /\ CloseValue(v).pending = TRUE
  <2>1. WriterOK(u)
    BY <1>2, ButOK
  <2> QED BY <1>3, <2>1, FramesBut
<1> QED BY <1>2, <1>4, ButTransitive

(* What a call that writes a whole value gives. *)
Wrote(u, v) == But(u, v, {"fresh", "pending"}) /\ u.fresh = FALSE /\ u.pending = TRUE

Writing(r, v) ==
  /\ r.err = "ok" => v.blobBytes = 0 /\ Wrote(r.w, v)
  /\ r.err # "ok" => \/ r.w = v /\ r.err = "state" /\ v.blobBytes > 0
                     \/ /\ But(r.w, v, {"fresh"}) /\ r.w.fresh = FALSE
                        /\ v.inStruct = TRUE /\ r.err = "no field"

LEMMA ClosedWrote ==
  ASSUME NEW v, NEW u, But(u, v, {"fresh"}), u.fresh = FALSE
  PROVE  Wrote(CloseValue(u), v)
<1>1. But(CloseValue(u), u, {"pending"}) /\ CloseValue(u).pending = TRUE
  BY ButOK, CloseValueBut
<1>2. CloseValue(u).fresh = FALSE
  BY <1>1 DEF But, Kept, Agree, FrameFields
<1>3. {"pending"} \cup {"fresh"} = {"fresh", "pending"}
  OBVIOUS
<1>4. But(CloseValue(u), v, {"fresh", "pending"})
  BY <1>1, <1>3, ButTransitive
<1> QED BY <1>1, <1>2, <1>4 DEF Wrote

LEMMA WriteImageBut ==
  ASSUME NEW v, WriterOK(v), v.blobBytes \in Nat, v.inStruct \in BOOLEAN, NEW image
  PROVE  Writing(WriteImage(v, image), v)
<1>1. PICK s, toks, x, u, r : /\ s = StartValue(v) /\ toks = << <<"image", image>> >>
                              /\ x = Write(s.w, toks) /\ u = CloseValue(x)
                              /\ r = WriteImage(v, image)
  OBVIOUS
<1>2. r = IF s.err = "ok" THEN Ok(u) ELSE s
  BY <1>1 DEF WriteImage, Then
<1>3. CASE s.err = "ok"
  <2>1. v.blobBytes = 0 /\ But(s.w, v, {"fresh"}) /\ s.w.fresh = FALSE
    BY <1>1, <1>3, StartValueBut
  <2>2. But(x, s.w, {})
    BY <1>1, <2>1, ButOK, OutBut
  <2>3. But(x, v, {"fresh"})
    BY <2>1, <2>2, ButTransitive
  <2>4. x.fresh = FALSE
    BY <2>1, <2>2 DEF But, Kept, Agree, FrameFields
  <2>5. Wrote(u, v)
    BY <1>1, <2>3, <2>4, ClosedWrote
  <2>6. r.err = "ok" /\ r.w = u
    BY <1>2, <1>3 DEF Ok
  <2> QED BY <1>1, <2>1, <2>5, <2>6 DEF Writing
<1>4. CASE s.err # "ok"
  BY <1>1, <1>2, <1>4, StartValueBut DEF Writing
<1> QED BY <1>3, <1>4

(* A decimal that is null starts its value twice. *)
LEMMA WriteNullDecimalBut ==
  ASSUME NEW v, WriterOK(v), v.blobBytes \in Nat, v.inStruct \in BOOLEAN
  PROVE  Writing(WriteNullDecimal(v), v)
<1>1. PICK s, u, t, r : /\ s = StartValue(v) /\ u = s.w /\ t = WriteImage(u, NullImage)
                        /\ r = WriteNullDecimal(v)
  OBVIOUS
<1>2. r = IF s.err = "ok" THEN t ELSE s
  BY <1>1 DEF WriteNullDecimal, Then
<1>3. CASE s.err = "ok"
  <2>1. v.blobBytes = 0 /\ But(u, v, {"fresh"}) /\ u.fresh = FALSE
    BY <1>1, <1>3, StartValueBut
  <2>2. WriterOK(u) /\ u.blobBytes = 0 /\ u.inStruct = v.inStruct
    BY <2>1, ButOK DEF But, Kept, Agree, FrameFields
  <2>3. Writing(t, u)
    BY <1>1, <2>2, WriteImageBut
  <2>4. CASE t.err = "ok"
    <3>1. But(t.w, u, {"fresh", "pending"}) /\ t.w.fresh = FALSE /\ t.w.pending = TRUE
      BY <2>3, <2>4 DEF Writing, Wrote
    <3>2. {"fresh", "pending"} \cup {"fresh"} = {"fresh", "pending"}
      OBVIOUS
    <3>3. But(t.w, v, {"fresh", "pending"})
      BY <2>1, <3>1, <3>2, ButTransitive
    <3> QED BY <1>1, <1>2, <1>3, <2>1, <2>4, <3>1, <3>3 DEF Writing, Wrote
  <2>5. CASE t.err # "ok"
    <3>1. But(t.w, u, {"fresh"}) /\ t.w.fresh = FALSE /\ u.inStruct = TRUE /\ t.err = "no field"
      <4>1. ~(u.blobBytes > 0)
        BY <2>2
      <4> QED BY <2>3, <2>5, <4>1 DEF Writing
    <3>2. {"fresh"} \cup {"fresh"} = {"fresh"}
      OBVIOUS
    <3>3. But(t.w, v, {"fresh"})
      BY <2>1, <3>1, <3>2, ButTransitive
    <3> QED BY <1>1, <1>2, <1>3, <2>2, <2>5, <3>1, <3>3 DEF Writing
  <2> QED BY <2>4, <2>5
<1>4. CASE s.err # "ok"
  BY <1>1, <1>2, <1>4, StartValueBut DEF Writing
<1> QED BY <1>3, <1>4
-----------------------------------------------------------------------------
(* Lobs and the stack. *)

LEMMA TailIsSeq ==
  ASSUME NEW s, IsSeq(s), NEW k \in 0..Len(s), NEW t, t = SubSeq(s, k + 1, Len(s))
  PROVE  IsSeq(t) /\ Len(t) = Len(s) - k
<1> DEFINE S == { s[i] : i \in 1..Len(s) }
<1>1. \A i \in 1..Len(s) : s[i] \in S
  OBVIOUS
<1> HIDE DEF S
<1>2. s \in Seq(S) /\ Len(s) \in Nat
  BY <1>1, IsSeqSeq DEF IsSeq
<1>3. t \in Seq(S) /\ Len(t) = Len(s) - k
  BY <1>2
<1> QED BY <1>3, SeqIsSeq

LEMMA Thirds ==
  ASSUME NEW n \in Nat
  PROVE  3 * (n \div 3) \in 0..n /\ n - 3 * (n \div 3) = n % 3
OBVIOUS

(* What is left over from whole triples. *)
LEMMA WriteTriplesBut ==
  ASSUME NEW x, WriterOK(x), NEW b, IsSeq(b), NEW u, u = WriteTriples(x, b)
  PROVE  But(u, x, {"blobBytes"}) /\ u.blobBytes = Len(b) % 3
<1>1. PICK k, y, quads, tail :
        /\ k = 3 * (Len(b) \div 3) /\ y = Write(x, quads) /\ tail = SubSeq(b, k + 1, Len(b))
        /\ u = [y EXCEPT !.triple = tail, !.blobBytes = Len(tail)]
  BY DEF WriteTriples
<1>2. But(y, x, {})
  BY <1>1, OutBut
<1>3. PICK z : z = [y EXCEPT !.triple = tail]
  OBVIOUS
<1>4. But(z, y, {})
  BY <1>2, <1>3, ButOK, OutBut
<1>5. WriterOK(z) /\ u = [z EXCEPT !.blobBytes = Len(tail)]
  BY <1>1, <1>3, <1>4, ButOK
<1>6. But(u, z, {"blobBytes"}) /\ u.blobBytes = Len(tail)
  BY <1>5, FramesBut, SMTT(30)
<1>7. Len(tail) = Len(b) % 3
  <2>1. Len(b) \in Nat
    BY DEF IsSeq
  <2>2. k \in 0..Len(b) /\ Len(b) - k = Len(b) % 3
    BY <1>1, <2>1, Thirds
  <2> QED BY <1>1, <2>2, TailIsSeq
<1> QED BY <1>2, <1>4, <1>6, <1>7, ButTransitive

LEMMA AppendBlobBut ==
  ASSUME NEW v, WriterOK(v), v.blobBytes \in 0..2, NEW bytes, IsSeq(bytes),
         NEW u, u = AppendBlob(v, bytes)
  PROVE  But(u, v, {"blobBytes"}) /\ u.blobBytes = (v.blobBytes + Len(bytes)) % 3
<1>1. PICK n \in Nat, b \in 0..2 : n = Len(bytes) /\ b = v.blobBytes
  BY DEF IsSeq
<1>2. CASE b = 0
  <2>1. u = WriteTriples(v, bytes)
    BY <1>1, <1>2 DEF AppendBlob
  <2> QED BY <1>1, <1>2, <2>1, WriteTriplesBut
<1>3. CASE b # 0 /\ b + n < 3
  <2>1. u = [v EXCEPT !.blobBytes = b + n]
    BY <1>1, <1>3 DEF AppendBlob
  <2>2. But(u, v, {"blobBytes"}) /\ u.blobBytes = b + n
    BY <2>1, FramesBut
  <2> QED BY <1>1, <1>3, <2>2
<1>4. CASE b # 0 /\ b + n >= 3
  <2>1. PICK k, y, toks, rest : /\ k = 3 - b /\ y = Write(v, toks)
                                /\ rest = SubSeq(bytes, k + 1, Len(bytes))
                                /\ u = WriteTriples(y, rest)
    <3>1. (IF Len(bytes) < 3 - v.blobBytes THEN Len(bytes) ELSE 3 - v.blobBytes) = 3 - b
      BY <1>1, <1>4
    <3>2. v.blobBytes # 0 /\ ~(v.blobBytes + (3 - b) < 3)
      BY <1>1, <1>4
    <3> QED BY <3>1, <3>2 DEF AppendBlob
  <2>2. k \in 0..n
    <3>1. k = 3 - b /\ b \in 1..2
      BY <1>4, <2>1
    <3> QED BY <1>4, <3>1
  <2>3. IsSeq(rest) /\ Len(rest) = n - k
    BY <1>1, <2>1, <2>2, TailIsSeq
  <2>4. But(y, v, {})
    BY <2>1, OutBut
  <2>5. But(u, y, {"blobBytes"}) /\ u.blobBytes = Len(rest) % 3
    BY <2>1, <2>3, <2>4, ButOK, WriteTriplesBut
  <2>6. (n - k) % 3 = (b + n) % 3
    BY <1>1, <2>1, <2>2
  <2>7. But(u, v, {"blobBytes"})
    BY <2>4, <2>5, ButTransitive
  <2> QED BY <1>1, <2>3, <2>5, <2>6, <2>7
<1> QED BY <1>1, <1>2, <1>3, <1>4

LEMMA AppendBytesBut ==
  ASSUME NEW v, WriterOK(v), v.blobBytes \in 0..2, NEW type, NEW bytes, IsSeq(bytes),
         NEW u, u = AppendBytes(v, type, bytes)
  PROVE  /\ But(u, v, {"blobBytes"})
         /\ u.blobBytes = IF type = "blob" THEN (v.blobBytes + Len(bytes)) % 3 ELSE v.blobBytes
<1>1. CASE type = "blob"
  BY <1>1, AppendBlobBut DEF AppendBytes
<1>2. CASE type # "blob"
  <2>1. PICK toks : u = Write(v, toks)
    BY <1>2 DEF AppendBytes
  <2>2. But(u, v, {})
    BY <2>1, OutBut
  <2>3. u.blobBytes = v.blobBytes
    BY <2>2 DEF But, Kept, Agree, FrameFields
  <2> QED BY <1>2, <2>2, <2>3, ButMore
<1> QED BY <1>1, <1>2

LEMMA CloseLobBut ==
  ASSUME NEW v, WriterOK(v), NEW type, NEW u, u = CloseLob(v, type)
  PROVE  /\ But(u, v, {"blobBytes", "pending"}) /\ u.pending = TRUE
         /\ u.blobBytes = IF type = "blob" THEN 0 ELSE v.blobBytes
<1>1. PICK x, toks, y : /\ x = (IF type = "blob" THEN CloseBlob(v) ELSE v)
                        /\ y = Write(x, toks) /\ u = CloseValue(y)
  BY DEF CloseLob
<1>2. But(x, v, {"blobBytes"}) /\ x.blobBytes = IF type = "blob" THEN 0 ELSE v.blobBytes
  <2>1. But(v, v, {"blobBytes"})
    BY OutBut, ButMore
  <2>2. CASE type = "blob" /\ v.blobBytes # 0
    <3>1. PICK quad, z : z = Write(v, quad) /\ x = [z EXCEPT !.blobBytes = 0]
      BY <1>1, <2>2 DEF CloseBlob
    <3>2. But(z, v, {})
      BY <3>1, OutBut
    <3>3. WriterOK(z)
      BY <3>2, ButOK
    <3>4. But(x, z, {"blobBytes"}) /\ x.blobBytes = 0
      BY <3>1, <3>3, FramesBut
    <3>5. But(x, v, {"blobBytes"})
      BY <3>2, <3>4, ButTransitive
    <3> QED BY <2>2, <3>4, <3>5
  <2>3. CASE type = "blob" /\ v.blobBytes = 0
    BY <1>1, <2>1, <2>3 DEF CloseBlob
  <2>4. CASE type # "blob"
    BY <1>1, <2>1, <2>4
  <2> QED BY <2>2, <2>3, <2>4
<1>3. But(y, x, {})
  BY <1>1, <1>2, ButOK, OutBut
<1>4. But(u, y, {"pending"}) /\ u.pending = TRUE
  BY <1>1, <1>3, ButOK, CloseValueBut
<1>5. But(u, x, {"pending"})
  BY <1>3, <1>4, ButTransitive
<1>6. {"pending"} \cup {"blobBytes"} = {"blobBytes", "pending"}
  OBVIOUS
<1>7. But(u, v, {"blobBytes", "pending"})
  BY <1>2, <1>5, <1>6, ButTransitive
<1>8. u.blobBytes = x.blobBytes
  BY <1>5 DEF But, Kept, Agree, FrameFields
<1> QED BY <1>2, <1>4, <1>7, <1>8

LEMMA WriteLobBut ==
  ASSUME NEW v, WriterOK(v), v.blobBytes \in Nat, v.inStruct \in BOOLEAN,
         NEW type, NEW bytes, IsSeq(bytes)
  PROVE  Writing(WriteLob(v, type, bytes), v)
<1>1. PICK s, toks, x, y, u, r : /\ s = StartValue(v) /\ toks = << <<"open", type>> >>
                                 /\ x = Write(s.w, toks) /\ y = AppendBytes(x, type, bytes)
                                 /\ u = CloseLob(y, type) /\ r = WriteLob(v, type, bytes)
  OBVIOUS
<1>2. r = IF s.err = "ok" THEN Ok(u) ELSE s
  BY <1>1 DEF WriteLob, Then
<1>3. CASE s.err = "ok"
  <2>1. v.blobBytes = 0 /\ But(s.w, v, {"fresh"}) /\ s.w.fresh = FALSE
    BY <1>1, <1>3, StartValueBut
  <2>2. But(x, s.w, {})
    BY <1>1, <2>1, ButOK, OutBut
  <2>3. But(x, v, {"fresh"})
    BY <2>1, <2>2, ButTransitive
  <2>4. x.fresh = FALSE /\ x.blobBytes = 0
    BY <2>1, <2>2 DEF But, Kept, Agree, FrameFields
  <2>5. But(y, x, {"blobBytes"}) /\ (type # "blob" => y.blobBytes = 0)
    BY <1>1, <2>3, <2>4, ButOK, AppendBytesBut
  <2>6. /\ But(u, y, {"blobBytes", "pending"}) /\ u.pending = TRUE
        /\ u.blobBytes = IF type = "blob" THEN 0 ELSE y.blobBytes
    <3>1. WriterOK(y) /\ u = CloseLob(y, type)
      BY <1>1, <2>5, ButOK
    <3> QED BY <3>1, CloseLobBut
  <2>7. u.blobBytes = 0
    BY <2>5, <2>6
  <2>8. u.fresh = FALSE
    BY <2>4, <2>5, <2>6 DEF But, Kept, Agree, FrameFields
  <2>9. But(u, v, {"blobBytes", "fresh", "pending"})
    <3>1. {"blobBytes", "pending"} \cup {"blobBytes"} = {"blobBytes", "pending"}
      OBVIOUS
    <3>2. But(u, x, {"blobBytes", "pending"})
      BY <2>5, <2>6, <3>1, ButTransitive
    <3>3. {"blobBytes", "pending"} \cup {"fresh"} = {"blobBytes", "fresh", "pending"}
      OBVIOUS
    <3> QED BY <2>3, <3>2, <3>3, ButTransitive
  <2>10. But(u, v, {"fresh", "pending"})
    BY <2>1, <2>7, <2>9 DEF But, Kept, Agree, IsRecord, FrameFields
  <2>11. r.err = "ok" /\ r.w = u
    BY <1>2, <1>3 DEF Ok
  <2> QED BY <1>1, <2>1, <2>6, <2>8, <2>10, <2>11 DEF Writing, Wrote
<1>4. CASE s.err # "ok"
  BY <1>1, <1>2, <1>4, StartValueBut DEF Writing
<1> QED BY <1>3, <1>4

LEMMA AllocateBut ==
  ASSUME NEW v, WriterOK(v), NEW n \in Nat, NEW r, r = Allocate(v, n), r.err = "ok"
  PROVE  But(r.w, v, {})
<1>1. CASE v.used + n >= v.room
  <2>1. r = Fails(v, "memory")
    BY <1>1 DEF Allocate
  <2> QED BY <2>1, FailsIs
<1>2. CASE ~(v.used + n >= v.room)
  <2>1. PICK k, x : k = v.used + n /\ x = [v EXCEPT !.used = k]
    OBVIOUS
  <2>2. k \in Nat /\ k <= v.room
    BY <1>2, <2>1 DEF WriterOK, BufferOK
  <2>3. r.w = x
    BY <1>2, <2>1 DEF Allocate, Ok
  <2>4. Agree(x, v, FrameFields)
    BY <2>1 DEF Agree, WriterOK, IsRecord, FrameFields
  <2>5. /\ IsRecord(x, BufferFields) /\ x.used = k /\ x.room = v.room
        /\ x.limit = v.limit /\ x.anns = v.anns
    BY <2>1 DEF WriterOK, BufferOK, IsRecord, BufferFields
  <2>6. BufferOK(x)
    BY <2>2, <2>5 DEF WriterOK, BufferOK
  <2>7. FrameFields \ {} = FrameFields
    OBVIOUS
  <2> QED BY <2>3, <2>4, <2>6, <2>7 DEF But, Kept, Agree
<1> QED BY <1>1, <1>2

LEMMA AllocateStackBut ==
  ASSUME NEW v, WriterOK(v), NEW n \in Nat, NEW r, r = AllocateStack(v, n), r.err = "ok"
  PROVE  But(r.w, v, {})
<1>1. PICK types, flags : types = n * TypeSize /\ flags = n * FlagSize
  OBVIOUS
<1>2. types \in Nat /\ flags \in Nat
  BY <1>1, TextWriterAssumption
<1>3. PICK t, f : t = Allocate(v, types) /\ f = Allocate(t.w, flags)
  OBVIOUS
<1>4. t.err = "ok" /\ r = f
  BY <1>1, <1>3 DEF AllocateStack, Then
<1>5. But(t.w, v, {})
  BY <1>2, <1>3, <1>4, AllocateBut
<1>6. But(f.w, t.w, {})
  BY <1>2, <1>3, <1>4, <1>5, AllocateBut, ButOK
<1> QED BY <1>4, <1>5, <1>6, ButTransitive

LEMMA GrowStackBut ==
  ASSUME NEW v, WriterOK(v), v.size \in Nat \ {0}, IsSeq(v.stack), Len(v.stack) <= v.size,
         NEW r, r = GrowStack(v)
  PROVE  /\ r.err # "ok" => r.err = "stack"
         /\ r.err = "ok" => /\ But(r.w, v, {"size"}) /\ r.w.size \in Nat \ {0}
                            /\ Len(v.stack) < r.w.size
<1>1. Len(v.stack) \in Nat
  BY DEF IsSeq
<1>2. CASE Len(v.stack) < v.size
  <2>1. r.err = "ok" /\ r.w = v
    BY <1>2 DEF GrowStack, Ok
  <2> QED BY <1>2, <2>1, OutBut, ButMore
<1>3. CASE ~(Len(v.stack) < v.size)
  <2>1. PICK n, b : n = 2 * v.size /\ b = AllocateStack(v, n)
    OBVIOUS
  <2>2. n \in Nat \ {0} /\ Len(v.stack) < n
    BY <1>1, <1>3, <2>1
  <2>3. CASE b.err # "ok"
    <3>1. r = Fails(b.w, "stack")
      BY <1>3, <2>1, <2>3 DEF GrowStack
    <3> QED BY <3>1, FailsIs
  <2>4. CASE b.err = "ok"
    <3>1. PICK x, u : x = b.w /\ u = [x EXCEPT !.size = n]
      OBVIOUS
    <3>2. But(x, v, {})
      BY <2>1, <2>2, <2>4, <3>1, AllocateStackBut
    <3>3. x.size = v.size
      BY <3>2 DEF But, Kept, Agree, FrameFields
    <3>4. r = Ok([x EXCEPT !.size = 2 * @])
      BY <1>3, <2>1, <2>4, <3>1 DEF GrowStack
    <3>5. [x EXCEPT !.size = 2 * @] = u
      BY <2>1, <3>1, <3>3
    <3>6. r.err = "ok" /\ r.w = u
      BY <3>4, <3>5 DEF Ok
    <3>7. But(u, x, {"size"}) /\ u.size = n
      <4>1. WriterOK(x) /\ u = [x EXCEPT !.size = n]
        BY <3>1, <3>2, ButOK
      <4> QED BY <4>1, SizeBut
    <3>8. But(u, v, {"size"})
      BY <3>2, <3>7, ButTransitive
    <3> QED BY <2>2, <3>6, <3>7, <3>8
  <2> QED BY <2>3, <2>4
<1> QED BY <1>2, <1>3

Pushed(r, v, type) ==
  /\ r.err # "ok" => r.err = "stack"
  /\ r.err = "ok" =>
       /\ But(r.w, v, {"sep", "size", "stack"})
       /\ r.w.stack = Append(v.stack, [type |-> type, inStruct |-> v.inStruct,
                                       pending |-> v.pending])
       /\ r.w.size \in Nat \ {0} /\ Len(v.stack) < r.w.size
       /\ r.w.sep = SeparatorIn(type, v.pretty)

LEMMA PushBut ==
  ASSUME NEW v, WriterOK(v), v.size \in Nat \ {0}, IsSeq(v.stack), Len(v.stack) <= v.size,
         NEW type, NEW r, r = Push(v, type)
  PROVE  Pushed(r, v, type)
<1>1. PICK g, u, x, y : /\ g = GrowStack(v) /\ u = g.w
                        /\ x = [u EXCEPT !.stack = Append(@, [type |-> type,
                                           inStruct |-> u.inStruct, pending |-> u.pending])]
                        /\ y = [x EXCEPT !.sep = SeparatorIn(type, u.pretty)]
  OBVIOUS
<1>2. r = IF g.err = "ok" THEN Ok(y) ELSE g
  BY <1>1 DEF Push, Then
<1>3. CASE g.err = "ok"
  <2>1. But(u, v, {"size"}) /\ u.size \in Nat \ {0} /\ Len(v.stack) < u.size
    BY <1>1, <1>3, GrowStackBut
  <2>2. /\ u.stack = v.stack /\ u.inStruct = v.inStruct /\ u.pending = v.pending
        /\ u.pretty = v.pretty
    BY <2>1 DEF But, Kept, Agree, FrameFields
  <2>3. PICK s : /\ s = Append(v.stack, [type |-> type, inStruct |-> v.inStruct,
                                          pending |-> v.pending])
                 /\ x = [u EXCEPT !.stack = s]
    BY <1>1, <2>2
  <2>4. But(x, u, {"stack"}) /\ x.stack = s
    <3>1. WriterOK(u) /\ x = [u EXCEPT !.stack = s]
      BY <2>1, <2>3, ButOK
    <3> QED BY <3>1, StackBut
  <2>5. But(y, x, {"sep"}) /\ y.sep = SeparatorIn(type, u.pretty)
    <3>1. PICK sep : sep = SeparatorIn(type, u.pretty)
      OBVIOUS
    <3>2. WriterOK(x) /\ y = [x EXCEPT !.sep = sep]
      BY <1>1, <2>4, <3>1, ButOK
    <3>3. But(y, x, {"sep"}) /\ y.sep = sep
      BY <3>2, SepBut
    <3> QED BY <3>1, <3>3
  <2>6. But(y, v, {"sep", "size", "stack"})
    <3>1. {"sep"} \cup {"stack"} = {"sep", "stack"}
          /\ {"sep", "stack"} \cup {"size"} = {"sep", "size", "stack"}
      OBVIOUS
    <3>2. But(y, u, {"sep", "stack"})
      BY <2>4, <2>5, <3>1, ButTransitive
    <3> QED BY <2>1, <3>1, <3>2, ButTransitive
  <2>7. y.stack = s /\ y.size = u.size
    BY <2>4, <2>5 DEF But, Kept, Agree, FrameFields
  <2>8. r.err = "ok" /\ r.w = y
    BY <1>2, <1>3 DEF Ok
  <2> QED BY <2>1, <2>2, <2>3, <2>5, <2>6, <2>7, <2>8 DEF Pushed
<1>4. CASE g.err # "ok"
  BY <1>1, <1>2, <1>4, GrowStackBut DEF Pushed
<1> QED BY <1>3, <1>4

LEMMA PopBut ==
  ASSUME NEW v, WriterOK(v), NEW u, u = Pop(v)
  PROVE  /\ But(u, v, {"sep", "stack"}) /\ u.stack = Front(v.stack)
         /\ u.sep = SeparatorIn(IF u.stack = <<>> THEN "sexp" ELSE TopType(u), u.pretty)
<1>1. PICK x, sep : /\ x = [v EXCEPT !.stack = Front(@)]
                    /\ sep = SeparatorIn(IF x.stack = <<>> THEN "sexp" ELSE TopType(x), x.pretty)
  OBVIOUS
<1>2. u = [x EXCEPT !.sep = sep]
  BY <1>1 DEF Pop
<1>3. PICK s : s = Front(v.stack) /\ x = [v EXCEPT !.stack = s]
  BY <1>1
<1>4. But(x, v, {"stack"}) /\ x.stack = s
  BY <1>3, FramesBut
<1>5. But(u, x, {"sep"}) /\ u.sep = sep
  BY <1>2, <1>4, ButOK, FramesBut
<1>6. {"sep"} \cup {"stack"} = {"sep", "stack"}
  OBVIOUS
<1>7. But(u, v, {"sep", "stack"})
  BY <1>4, <1>5, <1>6, ButTransitive
<1>8. u.stack = x.stack /\ u.pretty = x.pretty
  BY <1>5 DEF But, Kept, Agree, FrameFields
<1>9. TopType(u) = TopType(x)
  BY <1>8 DEF TopType
<1> QED BY <1>1, <1>3, <1>4, <1>5, <1>7, <1>8, <1>9

-----------------------------------------------------------------------------
(* What was asked for. *)

PlaceOK(open, i) ==
  /\ IsRecord(open[i], {"type", "body"})
  /\ IF open[i].type \in Lobs THEN i = Len(open) /\ open[i].body \in Nat
     ELSE open[i].type \in Containers /\ IsSeq(open[i].body)

PlacesOK(open) == IsSeq(open) /\ \A i \in 1..Len(open) : PlaceOK(open, i)

AskedOK(a) == IsRecord(a, AskedFields) /\ PlacesOK(a.open) /\ IsSeq(a.batch)

(* A lob is open; the innermost container is a struct; the type by which    *)
(* values are separated; the bytes of a blob that no triple has.            *)
LobOf(open) == Len(open) # 0 /\ open[Len(open)].type \in Lobs
InStructOf(open) ==
  IF LobOf(open) THEN Len(open) > 1 /\ open[Len(open) - 1].type = "struct"
  ELSE Len(open) # 0 /\ open[Len(open)].type = "struct"
SepTypeOf(open) == IF Len(open) = 0 THEN "sexp" ELSE open[Len(open)].type
LeftOf(open) ==
  IF Len(open) # 0 /\ open[Len(open)].type = "blob" THEN open[Len(open)].body % 3 ELSE 0

(* There is a value before the next one; there is none at all. *)
Begun(a) == (IF Len(a.open) = 0 THEN a.batch ELSE a.open[Len(a.open)].body) # <<>>
Untouched(a) == a.batch = <<>> /\ Len(a.open) = 0

SameTypes(new, open) ==
  /\ IsSeq(new) /\ Len(new) = Len(open)
  /\ \A i \in 1..Len(open) : new[i].type = open[i].type

LEMMA LobTypes == Lobs \cap Containers = {} /\ "blob" \in Lobs /\ "struct" \in Containers
BY DEF Lobs, Containers

LEMMA AskedIs ==
  ASSUME NEW a, AskedOK(a)
  PROVE  /\ AskedInStruct(a) = InStructOf(a.open)
         /\ (a.open = <<>> <=> Len(a.open) = 0) /\ Len(a.open) \in Nat
<1>1. PICK n \in Nat : IsSeq(a.open) /\ n = Len(a.open) /\ (a.open = <<>> <=> n = 0)
  BY IsSeqEmpty DEF AskedOK, PlacesOK, IsSeq
<1>2. LobOf(a.open) <=> (n # 0 /\ a.open[n].type \notin {"list", "sexp", "struct"})
  <2>1. n # 0 => n \in 1..n
    OBVIOUS
  <2>2. n # 0 => (a.open[n].type \in Lobs <=> a.open[n].type \notin Containers)
    BY <1>1, <2>1, LobTypes DEF AskedOK, PlacesOK, PlaceOK
  <2> QED BY <1>1, <2>2 DEF LobOf, Containers
<1>3. CASE LobOf(a.open)
  <2>1. AskedContainers(a) = Front(a.open) /\ a.open # <<>> /\ n # 0
    BY <1>1, <1>2, <1>3 DEF AskedContainers, Last
  <2>2. IsSeq(Front(a.open)) /\ Len(Front(a.open)) = n - 1
        /\ \A i \in 1..(n - 1) : Front(a.open)[i] = a.open[i]
    BY <1>1, <2>1, FrontIsSeq
  <2>3. Front(a.open) = <<>> <=> n - 1 = 0
    BY <2>2, IsSeqEmpty
  <2>4. Front(a.open) # <<>> => Last(Front(a.open)) = a.open[n - 1]
    BY <1>1, <2>2, <2>3 DEF Last
  <2>5. n - 1 # 0 <=> n > 1
    BY <2>1
  <2> QED BY <1>1, <1>3, <2>1, <2>3, <2>4, <2>5 DEF AskedInStruct, InStructOf
<1>4. CASE ~LobOf(a.open)
  <2>1. AskedContainers(a) = a.open
    BY <1>1, <1>2, <1>4 DEF AskedContainers, Last
  <2> QED BY <1>1, <1>4, <2>1 DEF AskedInStruct, InStructOf, Last
<1> QED BY <1>1, <1>3, <1>4

LEMMA UsedKeeps ==
  ASSUME NEW a, AskedOK(a), NEW v
  PROVE  AskedOK(Used(a, v)) /\ Used(a, v).open = a.open /\ Used(a, v).batch = a.batch
<1>1. PICK b : b = Used(a, v)
  OBVIOUS
<1>2. IsRecord(b, AskedFields) /\ b.open = a.open /\ b.batch = a.batch
  BY <1>1 DEF AskedOK, IsRecord, Used, AskedFields
<1>3. AskedOK(b)
  BY <1>2 DEF AskedOK
<1> QED BY <1>1, <1>2, <1>3

(* Another body for the value that is open at k. *)
WithBody(open, k, body) == [open EXCEPT ![k] = [@ EXCEPT !.body = body]]

Rebodied(new, open, k, body) ==
  /\ SameTypes(new, open) /\ IsRecord(new[k], {"type", "body"})
  /\ new[k].body = body
  /\ \A i \in 1..Len(open) : i # k => new[i] = open[i]

LEMMA BodyIs ==
  ASSUME NEW open, PlacesOK(open), NEW k \in 1..Len(open), NEW body
  PROVE  Rebodied(WithBody(open, k, body), open, k, body)
<1> DEFINE new == WithBody(open, k, body)
           e   == [open[k] EXCEPT !.body = body]
<1>1. PICK n \in Nat : n = Len(open) /\ open = [i \in 1..n |-> open[i]]
  BY DEF PlacesOK, IsSeq
<1>2. IsRecord(open[k], {"type", "body"})
  BY DEF PlacesOK, PlaceOK
<1>3. IsRecord(e, {"type", "body"}) /\ e.type = open[k].type /\ e.body = body
  BY <1>2 DEF IsRecord
<1>4. new = [i \in 1..n |-> IF i = k THEN e ELSE open[i]]
  BY <1>1 DEF WithBody
<1> HIDE DEF new, e
<1>5. Len(new) = n
  BY <1>1, <1>4
<1>6. IsSeq(new)
  BY <1>4, <1>5 DEF IsSeq
<1>7. /\ \A i \in 1..n : new[i].type = open[i].type
      /\ \A i \in 1..n : i # k => new[i] = open[i]
      /\ new[k] = e
  BY <1>1, <1>3, <1>4
<1> QED BY <1>1, <1>3, <1>5, <1>6, <1>7 DEF SameTypes, Rebodied, new

LEMMA SameTypesOK ==
  ASSUME NEW a, AskedOK(a), NEW b, IsRecord(b, AskedFields), IsSeq(b.batch),
         NEW k \in 1..Len(a.open), SameTypes(b.open, a.open),
         \A i \in 1..Len(a.open) : i # k => b.open[i] = a.open[i],
         IsRecord(b.open[k], {"type", "body"}),
         IF a.open[k].type \in Lobs THEN b.open[k].body \in Nat ELSE IsSeq(b.open[k].body)
  PROVE  AskedOK(b)
<1>1. PICK n \in Nat : n = Len(a.open) /\ n = Len(b.open)
  BY DEF AskedOK, PlacesOK, IsSeq, SameTypes
<1>2. ASSUME NEW i \in 1..n
      PROVE  PlaceOK(b.open, i)
  <2>1. b.open[i].type = a.open[i].type /\ PlaceOK(a.open, i)
    BY <1>1 DEF SameTypes, AskedOK, PlacesOK
  <2>2. CASE i = k
    BY <1>1, <2>1, <2>2 DEF PlaceOK
  <2>3. CASE i # k
    <3>1. b.open[i] = a.open[i]
      BY <1>1, <2>3
    <3> QED BY <1>1, <2>1, <3>1 DEF PlaceOK
  <2> QED BY <2>2, <2>3
<1> QED BY <1>1, <1>2 DEF AskedOK, PlacesOK, SameTypes

LEMMA AppendNotEmpty ==
  ASSUME NEW s, IsSeq(s), NEW e, NEW t, t = Append(s, e)
  PROVE  IsSeq(t) /\ t # <<>>
<1>1. PICK n \in Nat : n = Len(s)
  BY DEF IsSeq
<1>2. IsSeq(t) /\ Len(t) = n + 1
  BY <1>1, AppendIsSeq
<1>3. n + 1 # 0
  OBVIOUS
<1> QED BY <1>2, <1>3, IsSeqEmpty

LEMMA PutIs ==
  ASSUME NEW a, AskedOK(a), ~LobOf(a.open), NEW v, NEW b, b = Put(a, v)
  PROVE  /\ AskedOK(b) /\ SameTypes(b.open, a.open)
         /\ Begun(b) = TRUE /\ Untouched(b) = FALSE
<1>1. PICK k \in Nat : k = Len(a.open) /\ (a.open = <<>> <=> k = 0)
  BY AskedIs
<1>2. CASE a.open = <<>>
  <2>1. PICK batch : batch = Append(a.batch, v)
    OBVIOUS
  <2>2. IsSeq(batch) /\ batch # <<>>
    BY <2>1, AppendNotEmpty DEF AskedOK
  <2>3. b = [a EXCEPT !.batch = batch]
    BY <1>2, <2>1 DEF Put
  <2>4. IsRecord(b, AskedFields) /\ b.open = a.open /\ b.batch = batch
    BY <2>3 DEF AskedOK, IsRecord, AskedFields
  <2>5. AskedOK(b)
    BY <2>2, <2>4 DEF AskedOK
  <2>6. SameTypes(b.open, a.open)
    BY <2>4 DEF SameTypes, AskedOK, PlacesOK
  <2> QED BY <1>1, <1>2, <2>2, <2>4, <2>5, <2>6 DEF Begun, Untouched
<1>3. CASE a.open # <<>>
  <2>1. k # 0 /\ k \in 1..k
    BY <1>1, <1>3
  <2>2. a.open[k].type \notin Lobs /\ IsSeq(a.open[k].body)
    BY <1>1, <2>1 DEF LobOf, AskedOK, PlacesOK, PlaceOK
  <2>3. PICK body : body = Append(a.open[k].body, v)
    OBVIOUS
  <2>4. IsSeq(body) /\ body # <<>>
    BY <2>2, <2>3, AppendNotEmpty
  <2>5. PICK open, new : open = a.open /\ new = WithBody(open, k, body)
    OBVIOUS
  <2>6. b = [a EXCEPT !.open[k].body = Append(@, v)]
    BY <1>1, <1>3 DEF Put
  <2>7. IsRecord(b, AskedFields) /\ b.open = new /\ b.batch = a.batch
    BY <2>3, <2>5, <2>6 DEF WithBody, AskedOK, IsRecord, AskedFields
  <2>8. /\ SameTypes(new, a.open) /\ IsRecord(new[k], {"type", "body"})
        /\ new[k].body = body
        /\ \A i \in 1..Len(a.open) : i # k => new[i] = a.open[i]
    <3>1. PlacesOK(open) /\ k \in 1..Len(open)
      BY <1>1, <2>1, <2>5 DEF AskedOK
    <3>2. /\ SameTypes(new, open) /\ IsRecord(new[k], {"type", "body"})
          /\ new[k].body = body
          /\ \A i \in 1..Len(open) : i # k => new[i] = open[i]
      BY <2>5, <3>1, BodyIs DEF Rebodied
    <3> QED BY <2>5, <3>2
  <2>9. AskedOK(b)
    <3>1. IsSeq(b.batch)
      BY <2>7 DEF AskedOK
    <3>2. SameTypes(b.open, a.open) /\ b.open[k].body = body
      BY <2>7, <2>8
    <3> QED BY <1>1, <2>1, <2>2, <2>4, <2>7, <2>8, <3>1, <3>2, SameTypesOK
  <2>10. Len(b.open) = k
    BY <1>1, <2>7, <2>8 DEF SameTypes
  <2> QED BY <2>1, <2>4, <2>7, <2>8, <2>9, <2>10 DEF Begun, Untouched
<1> QED BY <1>2, <1>3

(* A value that may be open, and b, which is open but for it as a is. *)
ValueOK(v) ==
  /\ IsRecord(v, {"type", "body"})
  /\ IF v.type \in Lobs THEN v.body \in Nat ELSE v.type \in Containers /\ IsSeq(v.body)

OneMore(b, open, v) ==
  /\ AskedOK(b) /\ Len(b.open) = Len(open) + 1 /\ b.open[Len(open) + 1] = v
  /\ \A i \in 1..Len(open) : b.open[i] = open[i] /\ b.open[i].type \in Containers

LEMMA PutOpenIs ==
  ASSUME NEW a, AskedOK(a), ~LobOf(a.open), NEW v, ValueOK(v), NEW b, b = PutOpen(a, v)
  PROVE  OneMore(b, a.open, v)
<1>1. PICK n \in Nat : n = Len(a.open)
  BY AskedIs
<1>2. IsRecord(b, AskedFields) /\ b.open = Append(a.open, v) /\ b.batch = a.batch
  BY DEF AskedOK, IsRecord, PutOpen, AskedFields
<1>3. /\ IsSeq(b.open) /\ Len(b.open) = n + 1 /\ b.open[n + 1] = v
      /\ \A i \in 1..n : b.open[i] = a.open[i]
  BY <1>1, <1>2, AppendIsSeq DEF AskedOK, PlacesOK
<1>4. ASSUME NEW i \in 1..n
      PROVE  /\ IsRecord(b.open[i], {"type", "body"})
             /\ b.open[i].type \notin Lobs /\ b.open[i].type \in Containers
             /\ IsSeq(b.open[i].body)
  <2>1. PlaceOK(a.open, i) /\ b.open[i] = a.open[i]
    BY <1>1, <1>3, <1>4 DEF AskedOK, PlacesOK
  <2>2. a.open[i].type \notin Lobs
    BY <1>1, <1>4, <2>1 DEF LobOf, PlaceOK
  <2> QED BY <2>1, <2>2 DEF PlaceOK
<1>5. ASSUME NEW i \in 1..(n + 1)
      PROVE  PlaceOK(b.open, i)
  <2>1. CASE i = n + 1
    BY <1>3, <2>1 DEF PlaceOK, ValueOK
  <2>2. CASE i # n + 1
    <3>1. i \in 1..n
      BY <2>2
    <3> QED BY <1>4, <3>1 DEF PlaceOK
  <2> QED BY <2>1, <2>2
<1>6. AskedOK(b)
  BY <1>2, <1>3, <1>5 DEF AskedOK, PlacesOK
<1> QED BY <1>1, <1>3, <1>4, <1>6 DEF OneMore

LEMMA PutClosedIs ==
  ASSUME NEW a, AskedOK(a), Len(a.open) # 0, NEW b, b = PutClosed(a)
  PROVE  /\ AskedOK(b) /\ Len(b.open) \in Nat /\ Len(a.open) = Len(b.open) + 1
         /\ \A i \in 1..Len(b.open) : /\ b.open[i].type = a.open[i].type
                                      /\ b.open[i].type \in Containers
         /\ Begun(b) = TRUE /\ Untouched(b) = FALSE
<1>1. PICK n \in Nat : Len(a.open) = n + 1
  <2>1. Len(a.open) - 1 \in Nat /\ Len(a.open) = (Len(a.open) - 1) + 1
    BY AskedIs
  <2> QED BY <2>1
<1>2. PICK c, v : c = [a EXCEPT !.open = Front(@)] /\ v = Last(a.open)
  OBVIOUS
<1>3. b = Put(c, v)
  BY <1>2 DEF PutClosed
<1>4. IsRecord(c, AskedFields) /\ c.open = Front(a.open) /\ c.batch = a.batch
  BY <1>2 DEF AskedOK, IsRecord, AskedFields
<1>5. IsSeq(c.open) /\ Len(c.open) = n /\ \A i \in 1..n : c.open[i] = a.open[i]
  <2>1. IsSeq(a.open) /\ a.open # <<>>
    BY AskedIs DEF AskedOK, PlacesOK
  <2>2. /\ IsSeq(Front(a.open)) /\ Len(Front(a.open)) = Len(a.open) - 1
        /\ \A i \in 1..(Len(a.open) - 1) : Front(a.open)[i] = a.open[i]
    BY <2>1, FrontIsSeq
  <2> QED BY <1>1, <1>4, <2>2
<1>6. ASSUME NEW i \in 1..n
      PROVE  PlaceOK(c.open, i) /\ c.open[i].type \in Containers /\ c.open[i].type \notin Lobs
  <2>1. PlaceOK(a.open, i) /\ c.open[i] = a.open[i] /\ i # n + 1
    BY <1>1, <1>5 DEF AskedOK, PlacesOK
  <2> QED BY <1>1, <2>1 DEF PlaceOK
<1>7. AskedOK(c)
  BY <1>4, <1>5, <1>6 DEF AskedOK, PlacesOK
<1>8. ~LobOf(c.open)
  <2>1. n # 0 => n \in 1..n
    OBVIOUS
  <2> QED BY <1>5, <1>6, <2>1 DEF LobOf
<1>9. /\ AskedOK(b) /\ SameTypes(b.open, c.open)
      /\ Begun(b) = TRUE /\ Untouched(b) = FALSE
  BY <1>3, <1>7, <1>8, PutIs
<1> QED BY <1>1, <1>5, <1>6, <1>9 DEF SameTypes

(* More of a lob. *)
More(a, n) == [a EXCEPT !.open[Len(a.open)].body = @ + n]

LEMMA AppendedIs ==
  ASSUME NEW a, AskedOK(a), LobOf(a.open), NEW n \in Nat, NEW b, b = More(a, n)
  PROVE  /\ AskedOK(b) /\ SameTypes(b.open, a.open) /\ b.batch = a.batch
         /\ a.open[Len(a.open)].body \in Nat
         /\ b.open[Len(a.open)].body = a.open[Len(a.open)].body + n
<1>1. PICK k \in Nat : k = Len(a.open) /\ k # 0
  BY AskedIs DEF LobOf
<1>2. k \in 1..k
  BY <1>1
<1>3. a.open[k].type \in Lobs /\ a.open[k].body \in Nat
  BY <1>1, <1>2 DEF LobOf, AskedOK, PlacesOK, PlaceOK
<1>4. PICK body \in Nat : body = a.open[k].body + n
  BY <1>3
<1>5. PICK open, new : open = a.open /\ new = WithBody(open, k, body)
  OBVIOUS
<1>6. IsRecord(b, AskedFields) /\ b.open = new /\ b.batch = a.batch
  BY <1>1, <1>4, <1>5 DEF More, WithBody, AskedOK, IsRecord, AskedFields
<1>7. /\ SameTypes(new, a.open) /\ IsRecord(new[k], {"type", "body"})
      /\ new[k].body = body
      /\ \A i \in 1..Len(a.open) : i # k => new[i] = a.open[i]
  <2>1. PlacesOK(open) /\ k \in 1..Len(open)
    BY <1>1, <1>2, <1>5 DEF AskedOK
  <2>2. /\ SameTypes(new, open) /\ IsRecord(new[k], {"type", "body"})
        /\ new[k].body = body
        /\ \A i \in 1..Len(open) : i # k => new[i] = open[i]
    BY <1>5, <2>1, BodyIs DEF Rebodied
  <2> QED BY <1>5, <2>2
<1>8. AskedOK(b)
  <2>1. IsSeq(b.batch)
    BY <1>6 DEF AskedOK
  <2>2. SameTypes(b.open, a.open) /\ b.open[k].body \in Nat
    BY <1>6, <1>7
  <2> QED BY <1>1, <1>2, <1>3, <1>6, <1>7, <2>1, <2>2, SameTypesOK
<1> QED BY <1>1, <1>3, <1>4, <1>6, <1>7, <1>8

-----------------------------------------------------------------------------
(* The inductive invariant: the writer's frames are those of what was asked *)
(* for.  The flags that are saved on the stack are those of the container   *)
(* they are saved with.                                                     *)

StackHolds(stack, open) ==
  /\ IsSeq(stack) /\ Len(stack) = Len(open)
  /\ \A i \in 1..Len(open) :
       /\ stack[i].type = open[i].type
       /\ open[i].type \in Containers => stack[i].inStruct = (open[i].type = "struct")

FramesInv(v, a) ==
  /\ WriterOK(v) /\ AskedOK(a)
  /\ StackHolds(v.stack, a.open) /\ v.size \in Nat \ {0} /\ Len(v.stack) <= v.size
  /\ v.inStruct = InStructOf(a.open)
  /\ v.sep = SeparatorIn(SepTypeOf(a.open), v.pretty)
  /\ ~LobOf(a.open) => v.pending = Begun(a)
  /\ v.blobBytes = LeftOf(a.open)
  /\ v.fresh = Untouched(a)

LEMMA SameTypesIs ==
  ASSUME NEW open, Len(open) \in Nat, NEW new, SameTypes(new, open)
  PROVE  /\ LobOf(new) = LobOf(open) /\ InStructOf(new) = InStructOf(open)
         /\ SepTypeOf(new) = SepTypeOf(open) /\ (Len(new) = 0) = (Len(open) = 0)
<1>1. PICK n \in Nat : n = Len(open) /\ n = Len(new)
  BY DEF SameTypes
<1>2. \A i \in 1..n : new[i].type = open[i].type
  BY <1>1 DEF SameTypes
<1>3. (n # 0 => n \in 1..n) /\ (n > 1 => n - 1 \in 1..n)
  OBVIOUS
<1>4. LobOf(new) = LobOf(open) /\ SepTypeOf(new) = SepTypeOf(open)
  BY <1>1, <1>2, <1>3 DEF LobOf, SepTypeOf
<1> QED BY <1>1, <1>2, <1>3, <1>4 DEF InStructOf

LEMMA StackHoldsSame ==
  ASSUME NEW open, Len(open) \in Nat, NEW new, SameTypes(new, open),
         NEW stack, StackHolds(stack, open)
  PROVE  StackHolds(stack, new)
BY DEF StackHolds, SameTypes

LEMMA TopIs ==
  ASSUME NEW v, NEW a, FramesInv(v, a)
  PROVE  /\ (v.stack = <<>>) = (Len(a.open) = 0)
         /\ TopType(v) = IF Len(a.open) = 0 THEN Top ELSE a.open[Len(a.open)].type
         /\ (TopType(v) \in Lobs) = LobOf(a.open)
         /\ (v.blobBytes \in 0..2) /\ (v.inStruct \in BOOLEAN)
<1>1. PICK n \in Nat : /\ n = Len(a.open) /\ n = Len(v.stack) /\ IsSeq(v.stack)
                       /\ (n # 0 => n \in 1..n)
  BY AskedIs DEF FramesInv, StackHolds
<1>2. v.stack = <<>> <=> n = 0
  BY <1>1, IsSeqEmpty
<1>3. \A i \in 1..n : v.stack[i].type = a.open[i].type
  BY <1>1 DEF FramesInv, StackHolds
<1>4. TopType(v) = IF n = 0 THEN Top ELSE a.open[n].type
  BY <1>1, <1>2, <1>3 DEF TopType, Last
<1>5. Top \notin Lobs
  BY DEF Top, Lobs
<1>6. LeftOf(a.open) \in 0..2
  <2>1. CASE n # 0 /\ a.open[n].type = "blob"
    <3>1. a.open[n].body \in Nat
      BY <1>1, <2>1, LobTypes DEF FramesInv, AskedOK, PlacesOK, PlaceOK
    <3>2. LeftOf(a.open) = a.open[n].body % 3
      BY <1>1, <2>1 DEF LeftOf
    <3> QED BY <3>1, <3>2
  <2>2. CASE ~(n # 0 /\ a.open[n].type = "blob")
    BY <1>1, <2>2 DEF LeftOf
  <2> QED BY <2>1, <2>2
<1>7. InStructOf(a.open) \in BOOLEAN
  BY DEF InStructOf
<1> QED BY <1>1, <1>2, <1>4, <1>5, <1>6, <1>7 DEF LobOf, FramesInv

LEMMA InvMirrors ==
  FramesInv(w, asked) => FramesMirrorCalls
<1>1. SUFFICES ASSUME FramesInv(w, asked)
               PROVE  FramesMirrorCalls
  OBVIOUS
<1>2. PICK n \in Nat : n = Len(asked.open) /\ n = Len(w.stack)
  BY <1>1, AskedIs DEF FramesInv, StackHolds
<1>3. /\ (w.stack = <<>>) = (n = 0) /\ InLob = LobOf(asked.open)
      /\ TopType(w) = IF n = 0 THEN Top ELSE asked.open[n].type
  BY <1>1, <1>2, TopIs DEF InLob
<1>4. w.used <= w.room /\ Len(w.stack) <= w.size
  BY <1>1 DEF FramesInv, WriterOK, BufferOK
<1>5. \A i \in 1..Len(w.stack) : w.stack[i].type = asked.open[i].type
  BY <1>1, <1>2 DEF FramesInv, StackHolds
<1>6. w.inStruct = AskedInStruct(asked) /\ (asked.open = <<>> <=> n = 0)
  BY <1>1, <1>2, AskedIs DEF FramesInv
<1>7. w.sep = SeparatorIn(IF w.stack = <<>> THEN "sexp" ELSE TopType(w), w.pretty)
  BY <1>1, <1>2, <1>3 DEF FramesInv, SepTypeOf
<1>8. ~InLob => w.pending = ((IF w.stack = <<>> THEN asked.batch ELSE asked.open[n].body) # <<>>)
  BY <1>1, <1>2, <1>3 DEF FramesInv, Begun
<1>9. w.blobBytes = IF TopType(w) = "blob" THEN asked.open[n].body % 3 ELSE 0
  <2>1. Top # "blob"
    BY DEF Top
  <2> QED BY <1>1, <1>2, <1>3, <2>1 DEF FramesInv, LeftOf
<1>10. w.fresh = (asked.batch = <<>> /\ asked.open = <<>>)
  BY <1>1, <1>2, <1>6 DEF FramesInv, Untouched
<1> QED BY <1>2, <1>4, <1>5, <1>6, <1>7, <1>8, <1>9, <1>10 DEF FramesMirrorCalls

(* A call that opens and closes nothing. *)
LEMMA InvSame ==
  ASSUME NEW v, NEW a, FramesInv(v, a), NEW u, But(u, v, {"blobBytes", "fresh", "pending"}),
         NEW b, AskedOK(b), SameTypes(b.open, a.open),
         ~LobOf(b.open) => u.pending = Begun(b),
         u.blobBytes = LeftOf(b.open), u.fresh = Untouched(b)
  PROVE  FramesInv(u, b)
<1>1. Len(a.open) \in Nat
  BY AskedIs DEF FramesInv
<1>2. /\ LobOf(b.open) = LobOf(a.open) /\ InStructOf(b.open) = InStructOf(a.open)
      /\ SepTypeOf(b.open) = SepTypeOf(a.open)
  BY <1>1, SameTypesIs
<1>3. StackHolds(v.stack, b.open)
  BY <1>1, StackHoldsSame DEF FramesInv
<1>4. /\ u.stack = v.stack /\ u.size = v.size /\ u.inStruct = v.inStruct
      /\ u.sep = v.sep /\ u.pretty = v.pretty
  BY DEF But, Kept, Agree, FrameFields
<1>5. WriterOK(u)
  BY ButOK
<1> QED BY <1>2, <1>3, <1>4, <1>5 DEF FramesInv

(* A call by which nothing is written. *)
LEMMA InvKept ==
  ASSUME NEW v, NEW a, FramesInv(v, a), NEW u, But(u, v, {}),
         NEW b, AskedOK(b), b.open = a.open, b.batch = a.batch
  PROVE  FramesInv(u, b)
<1>1. But(u, v, {"blobBytes", "fresh", "pending"})
  BY ButMore
<1>2. u.blobBytes = v.blobBytes /\ u.pending = v.pending /\ u.fresh = v.fresh
  BY DEF But, Kept, Agree, FrameFields
<1>3. SameTypes(b.open, a.open)
  BY DEF SameTypes, FramesInv, AskedOK, PlacesOK
<1>4. Begun(b) = Begun(a) /\ Untouched(b) = Untouched(a)
  BY DEF Begun, Untouched
<1> QED BY <1>1, <1>2, <1>3, <1>4, InvSame DEF FramesInv

-----------------------------------------------------------------------------
(* The actions, one by one. *)

(* The invariant after a call, and the writer after one that is rejected.   *)
StepOK ==
  /\ FramesInv(w', asked')
  /\ "no field" \notin Careless /\ res' # "ok" => Untraced(w', w)

Ended(r, a) ==
  /\ w' = r.w /\ res' = r.err /\ asked' = IF r.err = "ok" THEN a ELSE asked
  /\ r.err \notin {"stack", "wrong end"}
  /\ r.err = "no field" => "no field" \in Careless

LEMMA EndsIs ==
  ASSUME Careful, NEW r, NEW a, Ends(r, a)
  PROVE  Ended(r, a)
BY DEF Ends, Ended, Careful

LEMMA StartsIs ==
  ASSUME Careful, FramesInv(w, asked), NEW r, NEW a, Starts(r, a)
  PROVE  /\ Ended(r, IF LobOf(asked.open) THEN asked ELSE a)
         /\ LobOf(asked.open) <=> w.blobBytes # 0
<1>1. InLob = LobOf(asked.open) /\ w.blobBytes \in 0..2
  BY TopIs DEF InLob
<1>2. PICK b : b = (IF InLob THEN asked ELSE a) /\ Ends(r, b)
  BY DEF Starts
<1>3. InLob => w.blobBytes # 0
  BY DEF Starts, Allowed, Careful
<1>4. ~LobOf(asked.open) => w.blobBytes = 0
  <2>1. LeftOf(asked.open) = w.blobBytes
    BY DEF FramesInv
  <2> QED BY <2>1, LobTypes DEF LeftOf, LobOf
<1>5. Ended(r, b)
  BY <1>2, EndsIs
<1> QED BY <1>1, <1>2, <1>3, <1>4, <1>5

(* A call that changed nothing. *)
LEMMA NothingStep ==
  ASSUME FramesInv(w, asked), w' = w, asked' = asked
  PROVE  StepOK
<1>1. Untraced(w, w)
  BY UntracedReflexive DEF FramesInv, WriterOK
<1> QED BY <1>1 DEF StepOK

(* A value that is refused when its separator is out, in a struct: the      *)
(* struct is there, so that the text was not untouched before.              *)
LEMMA NoFieldStep ==
  ASSUME FramesInv(w, asked), But(w', w, {"fresh"}), w'.fresh = FALSE,
         w.inStruct = TRUE, asked' = asked, "no field" \in Careless
  PROVE  StepOK
<1>1. Len(asked.open) # 0
  BY DEF FramesInv, InStructOf, LobOf
<1>2. w.fresh = FALSE
  BY <1>1 DEF FramesInv, Untouched
<1>3. But(w', w, {"blobBytes", "fresh", "pending"})
  BY ButMore
<1>4. w'.blobBytes = w.blobBytes /\ w'.pending = w.pending
  BY DEF But, Kept, Agree, FrameFields
<1>5. SameTypes(asked.open, asked.open)
  BY DEF SameTypes, FramesInv, AskedOK, PlacesOK
<1>6. FramesInv(w', asked)
  BY <1>2, <1>3, <1>4, <1>5, InvSame DEF FramesInv
<1> QED BY <1>6 DEF StepOK

LEMMA WritesStep ==
  ASSUME Careful, FramesInv(w, asked), NEW r, NEW type, NEW body, Writing(r, w),
         Writes(r, type, body)
  PROVE  StepOK
<1>1. PICK v, x, a : /\ v = Value(asked, type, body) /\ x = Used(asked, v) /\ a = Put(x, v)
                     /\ Starts(r, a)
  BY DEF Writes
<1>2. PICK b : /\ b = (IF LobOf(asked.open) THEN asked ELSE a) /\ Ended(r, b)
               /\ LobOf(asked.open) <=> w.blobBytes # 0
  BY <1>1, StartsIs
<1>3. CASE r.err = "ok"
  <2>1. w.blobBytes = 0 /\ Wrote(r.w, w)
    BY <1>3 DEF Writing
  <2>2. ~LobOf(asked.open)
    BY <1>2, <2>1
  <2>3. AskedOK(x) /\ x.open = asked.open
    BY <1>1, UsedKeeps DEF FramesInv
  <2>4. /\ AskedOK(a) /\ SameTypes(a.open, asked.open)
        /\ Begun(a) = TRUE /\ Untouched(a) = FALSE
    BY <1>1, <2>2, <2>3, PutIs
  <2>5. w' = r.w /\ asked' = a /\ res' = "ok"
    BY <1>2, <1>3, <2>2 DEF Ended
  <2>6. But(w', w, {"fresh", "pending"}) /\ w'.fresh = FALSE /\ w'.pending = TRUE
    BY <2>1, <2>5 DEF Wrote
  <2>7. w'.blobBytes = 0 /\ But(w', w, {"blobBytes", "fresh", "pending"})
    <3>1. w'.blobBytes = w.blobBytes
      BY <2>6 DEF But, Kept, Agree, FrameFields
    <3> QED BY <2>1, <2>6, <3>1, ButMore
  <2>8. ~LobOf(a.open)
    BY <2>2, <2>4, SameTypesIs, AskedIs DEF FramesInv
  <2>9. LeftOf(a.open) = 0
    BY <2>8, LobTypes DEF LeftOf, LobOf
  <2>10. FramesInv(w', a)
    BY <2>4, <2>6, <2>7, <2>9, InvSame
  <2> QED BY <2>5, <2>10 DEF StepOK
<1>4. CASE r.err # "ok"
  <2>1. \/ w' = w
        \/ /\ But(w', w, {"fresh"}) /\ w'.fresh = FALSE /\ w.inStruct = TRUE
           /\ "no field" \in Careless
    BY <1>2, <1>4 DEF Writing, Ended
  <2>2. asked' = asked
    BY <1>2, <1>4 DEF Ended
  <2> QED BY <2>1, <2>2, NothingStep, NoFieldStep
<1> QED BY <1>3, <1>4

LEMMA WholeStep ==
  ASSUME Careful, FramesInv(w, asked),
         \/ \E image : WriteScalar(image)
         \/ WriteDecimalNull
         \/ \E type : \E n \in Nat : WriteWholeLob(type, n)
  PROVE  StepOK
<1>1. WriterOK(w) /\ w.blobBytes \in Nat /\ w.inStruct \in BOOLEAN
  BY TopIs DEF FramesInv
<1>2. ASSUME NEW image, WriteScalar(image)
      PROVE  StepOK
  BY <1>1, <1>2, WriteImageBut, WritesStep DEF WriteScalar
<1>3. ASSUME WriteDecimalNull
      PROVE  StepOK
  BY <1>1, <1>3, WriteNullDecimalBut, WritesStep DEF WriteDecimalNull
<1>4. ASSUME NEW type, NEW n \in Nat, WriteWholeLob(type, n)
      PROVE  StepOK
  <2>1. PICK bytes : bytes = BytesFrom(0, n)
    OBVIOUS
  <2>2. IsSeq(bytes)
    BY <2>1 DEF BytesFrom, IsSeq
  <2> QED BY <1>1, <1>4, <2>1, <2>2, WriteLobBut, WritesStep DEF WriteWholeLob
<1> QED BY <1>2, <1>3, <1>4

-----------------------------------------------------------------------------
(* What opens a container or a lob. *)

OpenFields == {"fresh", "inStruct", "pending", "sep", "size", "stack"}

OpenedOn(u, v, type) ==
  /\ But(u, v, OpenFields) /\ u.fresh = FALSE
  /\ u.size \in Nat \ {0} /\ Len(v.stack) < u.size
  /\ u.sep = SeparatorIn(type, u.pretty)
  /\ \E e : e.type = type /\ e.inStruct = u.inStruct /\ u.stack = Append(v.stack, e)

Opening(r, v, type) ==
  /\ r.err = "ok" => v.blobBytes = 0 /\ OpenedOn(r.w, v, type)
  /\ r.err # "ok" => \/ r.err = "stack"
                     \/ r.w = v
                     \/ /\ But(r.w, v, {"fresh"}) /\ r.w.fresh = FALSE
                        /\ v.inStruct = TRUE /\ r.err = "no field"

LEMMA StartedLobBut ==
  ASSUME NEW v, NEW a, FramesInv(v, a), NEW type
  PROVE  /\ Opening(StartedLob(v, type), v, type)
         /\ StartedLob(v, type).err = "ok" => StartedLob(v, type).w.inStruct = v.inStruct
<1>1. PICK s, toks, x, p, r : /\ s = StartValue(v) /\ toks = << <<"open", type>> >>
                              /\ x = Write(s.w, toks) /\ p = Push(x, type)
                              /\ r = StartedLob(v, type)
  OBVIOUS
<1>2. r = IF s.err = "ok" THEN p ELSE s
  BY <1>1 DEF StartedLob, Then
<1>3. /\ WriterOK(v) /\ v.blobBytes \in Nat /\ v.inStruct \in BOOLEAN
      /\ v.size \in Nat \ {0} /\ IsSeq(v.stack) /\ Len(v.stack) <= v.size
  BY TopIs DEF FramesInv, StackHolds
<1>4. CASE s.err # "ok"
  <2>1. r.err # "ok" => \/ r.w = v
                        \/ /\ But(r.w, v, {"fresh"}) /\ r.w.fresh = FALSE
                           /\ v.inStruct = TRUE /\ r.err = "no field"
    BY <1>1, <1>2, <1>3, <1>4, StartValueBut
  <2> QED BY <1>1, <1>2, <1>4, <2>1 DEF Opening
<1>5. CASE s.err = "ok"
  <2>1. v.blobBytes = 0 /\ But(s.w, v, {"fresh"}) /\ s.w.fresh = FALSE
    BY <1>1, <1>3, <1>5, StartValueBut
  <2>2. But(x, s.w, {})
    BY <1>1, <2>1, ButOK, OutBut
  <2>3. But(x, v, {"fresh"})
    BY <2>1, <2>2, ButTransitive
  <2>4. x.fresh = FALSE /\ x.stack = v.stack /\ x.size = v.size /\ x.inStruct = v.inStruct
    BY <2>1, <2>2 DEF But, Kept, Agree, FrameFields
  <2>5. /\ WriterOK(x) /\ x.size \in Nat \ {0} /\ IsSeq(x.stack) /\ Len(x.stack) <= x.size
    BY <1>3, <2>3, <2>4, ButOK
  <2>6. Pushed(p, x, type)
    BY <1>1, <2>5, PushBut
  <2>7. CASE p.err = "ok"
    <3>1. PICK e : /\ e = [type |-> type, inStruct |-> x.inStruct, pending |-> x.pending]
                   /\ p.w.stack = Append(x.stack, e)
      BY <2>6, <2>7 DEF Pushed
    <3>2. But(p.w, x, {"sep", "size", "stack"})
      BY <2>6, <2>7 DEF Pushed
    <3>3. p.w.inStruct = x.inStruct /\ p.w.pretty = x.pretty /\ p.w.fresh = FALSE
      BY <2>4, <3>2 DEF But, Kept, Agree, FrameFields
    <3>4. But(p.w, v, OpenFields)
      <4>1. But(p.w, v, {"sep", "size", "stack"} \cup {"fresh"})
        BY <2>3, <3>2, ButTransitive
      <4>2. {"sep", "size", "stack"} \cup {"fresh"} \subseteq OpenFields
        BY DEF OpenFields
      <4> QED BY <4>1, <4>2, ButMore
    <3>5. e.type = type /\ e.inStruct = p.w.inStruct /\ p.w.stack = Append(v.stack, e)
      BY <2>4, <3>1, <3>3
    <3>6. /\ p.w.size \in Nat \ {0} /\ Len(v.stack) < p.w.size
          /\ p.w.sep = SeparatorIn(type, p.w.pretty)
      BY <2>4, <2>6, <2>7, <3>3 DEF Pushed
    <3>7. OpenedOn(p.w, v, type)
      BY <3>3, <3>4, <3>5, <3>6 DEF OpenedOn
    <3> QED BY <1>1, <1>2, <1>5, <2>1, <2>4, <2>7, <3>3, <3>7 DEF Opening
  <2>8. CASE p.err # "ok"
    BY <1>1, <1>2, <1>5, <2>6, <2>8 DEF Opening, Pushed
  <2> QED BY <2>7, <2>8
<1> QED BY <1>4, <1>5

LEMMA StartedContainerBut ==
  ASSUME NEW v, NEW a, FramesInv(v, a), NEW type
  PROVE  /\ Opening(StartedContainer(v, type), v, type)
         /\ StartedContainer(v, type).err = "ok" =>
              /\ StartedContainer(v, type).w.inStruct = (type = "struct")
              /\ StartedContainer(v, type).w.pending = FALSE
<1>1. PICK s, in, x, p, u, r :
        /\ s = StartValue(v) /\ in = (type = "struct") /\ x = [s.w EXCEPT !.inStruct = in]
        /\ p = Push(x, type) /\ u = Opened(p.w, type) /\ r = StartedContainer(v, type)
  OBVIOUS
<1>2. r = IF s.err = "ok" THEN (IF p.err = "ok" THEN Ok(u) ELSE p) ELSE s
  BY <1>1 DEF StartedContainer, Then
<1>3. /\ WriterOK(v) /\ v.blobBytes \in Nat /\ v.inStruct \in BOOLEAN
      /\ v.size \in Nat \ {0} /\ IsSeq(v.stack) /\ Len(v.stack) <= v.size
  BY TopIs DEF FramesInv, StackHolds
<1>4. CASE s.err # "ok"
  <2>1. r.err # "ok" => \/ r.w = v
                        \/ /\ But(r.w, v, {"fresh"}) /\ r.w.fresh = FALSE
                           /\ v.inStruct = TRUE /\ r.err = "no field"
    BY <1>1, <1>2, <1>3, <1>4, StartValueBut
  <2> QED BY <1>1, <1>2, <1>4, <2>1 DEF Opening
<1>5. CASE s.err = "ok"
  <2>1. v.blobBytes = 0 /\ But(s.w, v, {"fresh"}) /\ s.w.fresh = FALSE
    BY <1>1, <1>3, <1>5, StartValueBut
  <2>2. But(x, s.w, {"inStruct"}) /\ x.inStruct = in
    <3>1. WriterOK(s.w)
      BY <2>1, ButOK
    <3> QED BY <1>1, <3>1, FramesBut
  <2>3. But(x, v, {"inStruct"} \cup {"fresh"})
    BY <2>1, <2>2, ButTransitive
  <2>4. x.fresh = FALSE /\ x.stack = v.stack /\ x.size = v.size
    BY <2>1, <2>2 DEF But, Kept, Agree, FrameFields
  <2>5. /\ WriterOK(x) /\ x.size \in Nat \ {0} /\ IsSeq(x.stack) /\ Len(x.stack) <= x.size
    BY <1>3, <2>3, <2>4, ButOK
  <2>6. Pushed(p, x, type)
    BY <1>1, <2>5, PushBut
  <2>7. CASE p.err = "ok"
    <3>1. PICK e : /\ e = [type |-> type, inStruct |-> x.inStruct, pending |-> x.pending]
                   /\ p.w.stack = Append(x.stack, e)
      BY <2>6, <2>7 DEF Pushed
    <3>2. But(p.w, x, {"sep", "size", "stack"})
      BY <2>6, <2>7 DEF Pushed
    <3>3. PICK toks, y, z : /\ toks = << <<"open", type>> >> /\ y = Write(p.w, toks)
                            /\ z = [y EXCEPT !.pending = FALSE]
      OBVIOUS
    <3>4. u = IF p.w.flushEvery THEN FlushStream(z) ELSE z
      BY <1>1, <3>3 DEF Opened
    <3>5. But(y, p.w, {})
      BY <3>2, <3>3, ButOK, OutBut
    <3>6. But(z, y, {"pending"}) /\ z.pending = FALSE
      BY <3>3, <3>5, ButOK, FramesBut
    <3>7. But(u, z, {})
      BY <3>4, <3>6, ButOK, OutBut
    <3>8. /\ u.inStruct = in /\ u.pretty = x.pretty /\ u.fresh = FALSE /\ u.pending = FALSE
          /\ u.stack = p.w.stack /\ u.size = p.w.size /\ u.sep = p.w.sep
      BY <2>2, <2>4, <3>2, <3>5, <3>6, <3>7 DEF But, Kept, Agree, FrameFields
    <3>9. But(u, v, OpenFields)
      <4>1. But(u, y, {} \cup {"pending"})
        BY <3>6, <3>7, ButTransitive
      <4>2. But(u, p.w, {} \cup {"pending"} \cup {})
        BY <3>5, <4>1, ButTransitive
      <4>3. But(u, x, {} \cup {"pending"} \cup {} \cup {"sep", "size", "stack"})
        BY <3>2, <4>2, ButTransitive
      <4>4. But(u, v, {} \cup {"pending"} \cup {} \cup {"sep", "size", "stack"}
                        \cup ({"inStruct"} \cup {"fresh"}))
        BY <2>3, <4>3, ButTransitive
      <4>5. {} \cup {"pending"} \cup {} \cup {"sep", "size", "stack"}
              \cup ({"inStruct"} \cup {"fresh"}) \subseteq OpenFields
        BY DEF OpenFields
      <4> QED BY <4>4, <4>5, ButMore
    <3>10. e.type = type /\ e.inStruct = u.inStruct /\ u.stack = Append(v.stack, e)
      BY <2>2, <2>4, <3>1, <3>8
    <3>11. /\ u.size \in Nat \ {0} /\ Len(v.stack) < u.size
           /\ u.sep = SeparatorIn(type, u.pretty)
      BY <2>4, <2>6, <2>7, <3>8 DEF Pushed
    <3>12. OpenedOn(u, v, type)
      BY <3>8, <3>9, <3>10, <3>11 DEF OpenedOn
    <3>13. r.err = "ok" /\ r.w = u
      BY <1>2, <1>5, <2>7 DEF Ok
    <3> QED BY <1>1, <2>1, <3>8, <3>12, <3>13 DEF Opening
  <2>8. CASE p.err # "ok"
    BY <1>1, <1>2, <1>5, <2>6, <2>8 DEF Opening, Pushed
  <2> QED BY <2>7, <2>8
<1> QED BY <1>4, <1>5

(* The frame that is pushed is that of the value that is asked for. *)
FrameOf(u, v, o) ==
  \/ o.type \in Lobs /\ o.body = 0 /\ u.inStruct = v.inStruct
  \/ /\ o.type \in Containers /\ o.body = <<>>
     /\ u.inStruct = (o.type = "struct") /\ u.pending = FALSE

LEMMA OpenedInv ==
  ASSUME NEW v, NEW a, FramesInv(v, a), ~LobOf(a.open), v.blobBytes = 0,
         NEW type, NEW u, OpenedOn(u, v, type),
         NEW o, IsRecord(o, {"type", "body"}), o.type = type, FrameOf(u, v, o),
         NEW c, AskedOK(c), c.open = a.open, NEW b, b = PutOpen(c, o)
  PROVE  FramesInv(u, b)
<1>1. PICK n \in Nat : n = Len(a.open) /\ n = Len(v.stack) /\ IsSeq(v.stack)
  BY AskedIs DEF FramesInv, StackHolds
<1>2. ValueOK(o)
  BY LobTypes DEF FrameOf, ValueOK, IsSeq
<1>3. /\ AskedOK(b) /\ Len(b.open) = n + 1 /\ b.open[n + 1] = o
      /\ \A i \in 1..n : b.open[i] = a.open[i]
  <2>1. OneMore(b, a.open, o)
    BY <1>2, PutOpenIs
  <2> QED BY <1>1, <2>1 DEF OneMore
<1>4. PICK e : e.type = type /\ e.inStruct = u.inStruct /\ u.stack = Append(v.stack, e)
  BY DEF OpenedOn
<1>5. /\ IsSeq(u.stack) /\ Len(u.stack) = n + 1 /\ u.stack[n + 1] = e
      /\ \A i \in 1..n : u.stack[i] = v.stack[i]
  BY <1>1, <1>4, AppendIsSeq
<1>6. StackHolds(u.stack, b.open)
  <2>1. ASSUME NEW i \in 1..(n + 1)
        PROVE  /\ u.stack[i].type = b.open[i].type
               /\ b.open[i].type \in Containers =>
                    u.stack[i].inStruct = (b.open[i].type = "struct")
    <3>1. CASE i = n + 1
      BY <1>3, <1>4, <1>5, <3>1, LobTypes DEF FrameOf
    <3>2. CASE i # n + 1
      <4>1. i \in 1..n
        BY <3>2
      <4>2. /\ v.stack[i].type = a.open[i].type
            /\ a.open[i].type \in Containers =>
                 v.stack[i].inStruct = (a.open[i].type = "struct")
        BY <1>1, <4>1 DEF FramesInv, StackHolds
      <4> QED BY <1>3, <1>5, <4>1, <4>2
    <3> QED BY <3>1, <3>2
  <2> QED BY <1>3, <1>5, <2>1 DEF StackHolds
<1>7. /\ WriterOK(u) /\ u.fresh = FALSE /\ u.size \in Nat \ {0} /\ n < u.size
      /\ u.sep = SeparatorIn(type, u.pretty)
  BY <1>1, ButOK DEF OpenedOn
<1>8. Len(u.stack) <= u.size
  BY <1>5, <1>7
<1>9. u.blobBytes = 0
  BY DEF OpenedOn, OpenFields, But, Kept, Agree, FrameFields
<1>10. /\ n + 1 # 0 /\ SepTypeOf(b.open) = type /\ (LobOf(b.open) <=> type \in Lobs)
       /\ Untouched(b) = FALSE /\ Begun(b) = (o.body # <<>>)
  <2>1. n + 1 # 0
    OBVIOUS
  <2> QED BY <1>3, <2>1 DEF SepTypeOf, LobOf, Untouched, Begun
<1>11. LeftOf(b.open) = 0
  <2>1. CASE type \in Lobs
    <3>1. o.body = 0 /\ 0 % 3 = 0
      BY <2>1, LobTypes DEF FrameOf
    <3> QED BY <1>3, <3>1 DEF LeftOf
  <2>2. CASE type \notin Lobs
    BY <1>3, <2>2, LobTypes DEF LeftOf
  <2> QED BY <2>1, <2>2
<1>12. u.inStruct = InStructOf(b.open)
  <2>1. CASE type \in Lobs
    <3>1. u.inStruct = v.inStruct
      BY <2>1, LobTypes DEF FrameOf
    <3>2. InStructOf(b.open) = (n + 1 > 1 /\ b.open[n].type = "struct")
      <4>1. Len(b.open) - 1 = n
        BY <1>3
      <4>2. LobOf(b.open)
        BY <1>10, <2>1
      <4> QED BY <1>3, <4>1, <4>2 DEF InStructOf
    <3>3. InStructOf(a.open) = (n # 0 /\ a.open[n].type = "struct")
      BY <1>1 DEF InStructOf
    <3>4. n # 0 => n \in 1..n
      OBVIOUS
    <3>5. n + 1 > 1 <=> n # 0
      OBVIOUS
    <3>6. v.inStruct = InStructOf(a.open)
      BY DEF FramesInv
    <3> QED BY <1>3, <3>1, <3>2, <3>3, <3>4, <3>5, <3>6
  <2>2. CASE type \notin Lobs
    <3>1. InStructOf(b.open) = (type = "struct")
      BY <1>3, <1>10, <2>2 DEF InStructOf
    <3> QED BY <2>2, <3>1 DEF FrameOf
  <2> QED BY <2>1, <2>2
<1>13. ~LobOf(b.open) => u.pending = Begun(b)
  BY <1>10 DEF FrameOf
<1> QED BY <1>3, <1>6, <1>7, <1>8, <1>9, <1>10, <1>11, <1>12, <1>13 DEF FramesInv

LEMMA OpensStep ==
  ASSUME Careful, FramesInv(w, asked), NEW r, NEW type, NEW body, Opening(r, w, type),
         \/ type \in Lobs /\ body = 0 /\ (r.err = "ok" => r.w.inStruct = w.inStruct)
         \/ /\ type \in Containers /\ body = <<>>
            /\ r.err = "ok" => r.w.inStruct = (type = "struct") /\ r.w.pending = FALSE,
         Opens(r, type, body)
  PROVE  StepOK
<1>1. PICK v, x, a : /\ v = Value(asked, type, body) /\ x = Used(asked, v)
                     /\ a = PutOpen(x, v) /\ Starts(r, a)
  BY DEF Opens
<1>2. PICK b : /\ b = (IF LobOf(asked.open) THEN asked ELSE a) /\ Ended(r, b)
               /\ LobOf(asked.open) <=> w.blobBytes # 0
  BY <1>1, StartsIs
<1>3. CASE r.err = "ok"
  <2>1. w.blobBytes = 0 /\ OpenedOn(r.w, w, type)
    BY <1>3 DEF Opening
  <2>2. ~LobOf(asked.open)
    BY <1>2, <2>1
  <2>3. w' = r.w /\ asked' = a /\ res' = "ok"
    BY <1>2, <1>3, <2>2 DEF Ended
  <2>4. IsRecord(v, {"type", "body"}) /\ v.type = type /\ v.body = body
    BY <1>1 DEF Value, IsRecord
  <2>5. AskedOK(x) /\ x.open = asked.open
    BY <1>1, UsedKeeps DEF FramesInv
  <2>6. FrameOf(r.w, w, v)
    BY <1>3, <2>4 DEF FrameOf
  <2>7. FramesInv(r.w, a)
    BY <1>1, <2>1, <2>2, <2>4, <2>5, <2>6, OpenedInv
  <2> QED BY <2>3, <2>7 DEF StepOK
<1>4. CASE r.err # "ok"
  <2>1. \/ w' = w
        \/ /\ But(w', w, {"fresh"}) /\ w'.fresh = FALSE /\ w.inStruct = TRUE
           /\ "no field" \in Careless
    BY <1>2, <1>4 DEF Opening, Ended
  <2>2. asked' = asked
    BY <1>2, <1>4 DEF Ended
  <2> QED BY <2>1, <2>2, NothingStep, NoFieldStep
<1> QED BY <1>3, <1>4

LEMMA OpenStep ==
  ASSUME Careful, FramesInv(w, asked), NEW type,
         \/ type \in Lobs /\ StartLob(type)
         \/ type \in Containers /\ StartContainer(type)
  PROVE  StepOK
<1>1. CASE type \in Lobs /\ StartLob(type)
  <2>1. PICK r : r = StartedLob(w, type) /\ Opens(r, type, 0)
    BY <1>1 DEF StartLob
  <2>2. Opening(r, w, type) /\ (r.err = "ok" => r.w.inStruct = w.inStruct)
    BY <2>1, StartedLobBut
  <2> QED BY <1>1, <2>1, <2>2, OpensStep
<1>2. CASE type \in Containers /\ StartContainer(type)
  <2>1. PICK r, none : r = StartedContainer(w, type) /\ none = <<>> /\ Opens(r, type, none)
    BY <1>2 DEF StartContainer
  <2>2. /\ Opening(r, w, type)
        /\ r.err = "ok" => r.w.inStruct = (type = "struct") /\ r.w.pending = FALSE
    BY <2>1, StartedContainerBut, ZenonT(60)
  <2> QED BY <1>2, <2>1, <2>2, OpensStep
<1> QED BY <1>1, <1>2

-----------------------------------------------------------------------------
(* What goes on in a container or a lob that is open, and ends it. *)

LEMMA AppendStep ==
  ASSUME Careful, FramesInv(w, asked), NEW n \in Nat, AppendLob(n)
  PROVE  StepOK
<1>1. InLob = LobOf(asked.open) /\ w.blobBytes \in 0..2 /\ WriterOK(w)
  BY TopIs DEF InLob, FramesInv
<1>2. CASE ~InLob
  <2>1. PICK r : r = Fails(w, "state") /\ Ends(r, asked)
    BY <1>2 DEF AppendLob
  <2>2. r.w = w /\ Ended(r, asked)
    BY <2>1, EndsIs, FailsIs
  <2> QED BY <2>2, NothingStep DEF Ended
<1>3. CASE InLob
  <2>1. PICK k, type, bytes, u, r, b :
          /\ k = Len(asked.open) /\ type = TopType(w)
          /\ bytes = BytesFrom(Last(asked.open).body, n)
          /\ u = AppendBytes(w, type, bytes) /\ r = Ok(u)
          /\ b = More(asked, n) /\ Ends(r, b)
    BY <1>3 DEF AppendLob, More
  <2>2. w' = u /\ asked' = b /\ res' = "ok"
    <3>1. Ended(r, b)
      BY <2>1, EndsIs
    <3> QED BY <2>1, <3>1 DEF Ended, Ok
  <2>3. LobOf(asked.open)
    BY <1>1, <1>3
  <2>4. k # 0 /\ type = asked.open[k].type
    BY <2>1, <2>3, TopIs DEF LobOf
  <2>5. IsSeq(bytes) /\ Len(bytes) = n
    BY <2>1 DEF BytesFrom, IsSeq
  <2>6. /\ But(u, w, {"blobBytes"})
        /\ u.blobBytes = IF type = "blob" THEN (w.blobBytes + n) % 3 ELSE w.blobBytes
    BY <1>1, <2>1, <2>5, AppendBytesBut
  <2>7. /\ AskedOK(b) /\ SameTypes(b.open, asked.open) /\ b.batch = asked.batch
        /\ asked.open[k].body \in Nat /\ b.open[k].body = asked.open[k].body + n
    <3>1. AskedOK(asked)
      BY DEF FramesInv
    <3> QED BY <2>1, <2>3, <3>1, AppendedIs
  <2>8. Len(b.open) = k /\ b.open[k].type = type
    <3>1. k \in 1..k
      BY <2>1, <2>4, AskedIs DEF FramesInv
    <3> QED BY <2>1, <2>4, <2>7, <3>1 DEF SameTypes
  <2>9. u.blobBytes = LeftOf(b.open)
    <3>1. w.blobBytes = LeftOf(asked.open)
      BY DEF FramesInv
    <3>2. CASE type = "blob"
      <4>1. w.blobBytes = asked.open[k].body % 3
        BY <2>1, <2>4, <3>1, <3>2 DEF LeftOf
      <4>2. LeftOf(b.open) = (asked.open[k].body + n) % 3
        BY <2>4, <2>7, <2>8, <3>2 DEF LeftOf
      <4>3. \A m \in Nat : ((m % 3) + n) % 3 = (m + n) % 3
        OBVIOUS
      <4> QED BY <2>6, <2>7, <3>2, <4>1, <4>2, <4>3
    <3>3. CASE type # "blob"
      BY <2>1, <2>4, <2>6, <2>8, <3>1, <3>3 DEF LeftOf
    <3> QED BY <3>2, <3>3
  <2>10. u.fresh = Untouched(b)
    <3>1. u.fresh = w.fresh
      BY <2>6 DEF But, Kept, Agree, FrameFields
    <3>2. w.fresh = FALSE
      BY <2>1, <2>4 DEF FramesInv, Untouched
    <3> QED BY <2>4, <2>8, <3>1, <3>2 DEF Untouched
  <2>11. LobOf(b.open)
    BY <2>3, <2>7, SameTypesIs, AskedIs DEF FramesInv
  <2>12. But(u, w, {"blobBytes", "fresh", "pending"})
    BY <2>6, ButMore
  <2>13. FramesInv(u, b)
    BY <2>7, <2>9, <2>10, <2>11, <2>12, InvSame
  <2> QED BY <2>2, <2>13 DEF StepOK
<1> QED BY <1>2, <1>3

LEMMA ClosedInv ==
  ASSUME NEW v, NEW a, FramesInv(v, a), Len(a.open) # 0, NEW b, b = PutClosed(a),
         NEW u, But(u, v, {"blobBytes", "inStruct", "pending", "sep", "stack"}),
         u.stack = Front(v.stack),
         u.sep = SeparatorIn(IF u.stack = <<>> THEN "sexp" ELSE TopType(u), u.pretty),
         u.pending = TRUE, u.blobBytes = 0,
         u.inStruct = IF LobOf(a.open) THEN v.inStruct ELSE TopFlags(u).inStruct
  PROVE  FramesInv(u, b)
<1>1. PICK n \in Nat : n = Len(b.open) /\ Len(a.open) = n + 1
  BY PutClosedIs DEF FramesInv
<1>2. /\ AskedOK(b) /\ Begun(b) = TRUE /\ Untouched(b) = FALSE
      /\ \A i \in 1..n : b.open[i].type = a.open[i].type /\ b.open[i].type \in Containers
  <2>1. AskedOK(a)
    BY DEF FramesInv
  <2>2. /\ AskedOK(b) /\ Begun(b) = TRUE /\ Untouched(b) = FALSE
        /\ \A i \in 1..Len(b.open) :
             b.open[i].type = a.open[i].type /\ b.open[i].type \in Containers
    BY ONLY <2>1, Len(a.open) # 0, b = PutClosed(a), PutClosedIs
  <2> QED BY ONLY <1>1, <2>2
<1>3. IsSeq(v.stack) /\ Len(v.stack) = n + 1
  BY <1>1 DEF FramesInv, StackHolds
<1>4. v.stack # <<>>
  BY <1>1, <1>3, IsSeqEmpty
<1>5. /\ IsSeq(u.stack) /\ Len(u.stack) = n
      /\ \A i \in 1..n : u.stack[i] = v.stack[i]
  <2>1. /\ IsSeq(Front(v.stack)) /\ Len(Front(v.stack)) = Len(v.stack) - 1
        /\ \A i \in 1..(Len(v.stack) - 1) : Front(v.stack)[i] = v.stack[i]
    BY <1>3, <1>4, FrontIsSeq
  <2> QED BY <1>3, <2>1
<1>6. StackHolds(u.stack, b.open)
  <2>1. ASSUME NEW i \in 1..n
        PROVE  /\ u.stack[i].type = b.open[i].type
               /\ b.open[i].type \in Containers =>
                    u.stack[i].inStruct = (b.open[i].type = "struct")
    <3>1. i \in 1..Len(a.open)
      BY <1>1
    <3>2. /\ v.stack[i].type = a.open[i].type
          /\ a.open[i].type \in Containers =>
               v.stack[i].inStruct = (a.open[i].type = "struct")
      BY <3>1 DEF FramesInv, StackHolds
    <3> QED BY <1>2, <1>5, <3>2
  <2> QED BY <1>1, <1>5, <2>1 DEF StackHolds
<1>7. (n # 0 => n \in 1..n) /\ (u.stack = <<>> <=> n = 0)
  BY <1>5, IsSeqEmpty
<1>8. ~LobOf(b.open)
  BY <1>1, <1>2, <1>7, LobTypes DEF LobOf
<1>9. LeftOf(b.open) = 0
  BY <1>8, LobTypes DEF LeftOf, LobOf
<1>10. u.size = v.size /\ u.fresh = v.fresh /\ WriterOK(u)
  BY ButOK DEF But, Kept, Agree, FrameFields
<1>11. u.size \in Nat \ {0} /\ Len(u.stack) <= u.size
  BY <1>3, <1>5, <1>10 DEF FramesInv
<1>12. u.fresh = FALSE
  BY <1>1, <1>10 DEF FramesInv, Untouched
<1>13. u.sep = SeparatorIn(SepTypeOf(b.open), u.pretty)
  <2>1. n # 0 => TopType(u) = b.open[n].type
    BY <1>1, <1>5, <1>6, <1>7 DEF TopType, Last, StackHolds
  <2> QED BY <1>1, <1>7, <2>1 DEF SepTypeOf
<1>14. u.inStruct = InStructOf(b.open)
  <2>1. InStructOf(b.open) = (n # 0 /\ b.open[n].type = "struct")
    BY <1>1, <1>8 DEF InStructOf
  <2>2. CASE LobOf(a.open)
    <3>1. v.inStruct = InStructOf(a.open) /\ u.inStruct = v.inStruct
      BY <2>2 DEF FramesInv
    <3>2. Len(a.open) - 1 = n /\ (Len(a.open) > 1 <=> n # 0)
      BY <1>1
    <3>3. InStructOf(a.open) = (n # 0 /\ a.open[n].type = "struct")
      BY <2>2, <3>2 DEF InStructOf
    <3> QED BY <1>2, <1>7, <2>1, <3>1, <3>3
  <2>3. CASE ~LobOf(a.open)
    <3>1. u.inStruct = TopFlags(u).inStruct
      BY <2>3
    <3>2. CASE n = 0
      BY <1>7, <2>1, <3>1, <3>2 DEF TopFlags, NoFlags
    <3>3. CASE n # 0
      <4>1. TopFlags(u).inStruct = u.stack[n].inStruct
        BY <1>5, <1>7, <3>3 DEF TopFlags, Last
      <4>2. u.stack[n].inStruct = (b.open[n].type = "struct")
        BY <1>1, <1>2, <1>6, <1>7, <3>3 DEF StackHolds
      <4> QED BY <2>1, <3>1, <3>3, <4>1, <4>2
    <3> QED BY <3>2, <3>3
  <2> QED BY <2>2, <2>3
<1> QED BY <1>2, <1>6, <1>8, <1>9, <1>10, <1>11, <1>12, <1>13, <1>14 DEF FramesInv

LEMMA FinishLobStep ==
  ASSUME Careful, FramesInv(w, asked), FinishLob
  PROVE  StepOK
<1>1. PICK r, b : r = FinishedLob(w) /\ b = PutClosed(asked) /\ Ends(r, b)
  BY DEF FinishLob
<1>2. Ended(r, b)
  BY <1>1, EndsIs
<1>3. /\ WriterOK(w) /\ (w.stack = <<>>) = (Len(asked.open) = 0)
      /\ (TopType(w) \in Lobs) = LobOf(asked.open)
  BY TopIs DEF FramesInv
<1>4. CASE w.stack = <<>>
  <2>1. r = Fails(w, "state")
    BY <1>1, <1>4 DEF FinishedLob
  <2>2. r.err = "state" /\ r.w = w
    BY <2>1, FailsIs
  <2> QED BY <1>2, <2>2, NothingStep DEF Ended
<1>5. CASE w.stack # <<>> /\ TopType(w) \notin Lobs
  <2>1. r = Fails(Pop(w), "wrong end")
    BY <1>1, <1>5 DEF FinishedLob
  <2>2. r.err = "wrong end"
    BY <2>1 DEF Fails
  <2> QED BY <1>2, <2>2 DEF Ended
<1>6. CASE w.stack # <<>> /\ TopType(w) \in Lobs
  <2>1. PICK type, x, u : /\ type = TopType(w) /\ x = Pop(w) /\ u = CloseLob(x, type)
                          /\ r = Ok(u)
    BY <1>1, <1>6 DEF FinishedLob
  <2>2. w' = u /\ asked' = b /\ res' = "ok"
    BY <1>2, <2>1 DEF Ended, Ok
  <2>3. Len(asked.open) # 0 /\ LobOf(asked.open) /\ type = asked.open[Len(asked.open)].type
    BY <1>3, <1>6, <2>1, TopIs
  <2>4. /\ But(x, w, {"sep", "stack"}) /\ x.stack = Front(w.stack)
        /\ x.sep = SeparatorIn(IF x.stack = <<>> THEN "sexp" ELSE TopType(x), x.pretty)
    BY <1>3, <2>1, PopBut
  <2>5. /\ But(u, x, {"blobBytes", "pending"}) /\ u.pending = TRUE
        /\ u.blobBytes = IF type = "blob" THEN 0 ELSE x.blobBytes
    <3>1. WriterOK(x) /\ u = CloseLob(x, type)
      BY <2>1, <2>4, ButOK
    <3> QED BY <3>1, CloseLobBut
  <2>6. /\ u.stack = x.stack /\ u.sep = x.sep /\ u.pretty = x.pretty
        /\ u.inStruct = w.inStruct /\ x.blobBytes = w.blobBytes
    BY <2>4, <2>5 DEF But, Kept, Agree, FrameFields
  <2>7. u.blobBytes = 0
    <3>1. w.blobBytes = LeftOf(asked.open)
      BY DEF FramesInv
    <3>2. type # "blob" => LeftOf(asked.open) = 0
      BY <2>3 DEF LeftOf
    <3> QED BY <2>5, <2>6, <3>1, <3>2
  <2>8. But(u, w, {"blobBytes", "inStruct", "pending", "sep", "stack"})
    <3>1. But(u, w, {"blobBytes", "pending"} \cup {"sep", "stack"})
      BY <2>4, <2>5, ButTransitive
    <3>2. {"blobBytes", "pending"} \cup {"sep", "stack"}
            \subseteq {"blobBytes", "inStruct", "pending", "sep", "stack"}
      OBVIOUS
    <3> QED BY <3>1, <3>2, ButMore
  <2>9. u.sep = SeparatorIn(IF u.stack = <<>> THEN "sexp" ELSE TopType(u), u.pretty)
    BY <2>4, <2>6 DEF TopType
  <2>10. u.inStruct = IF LobOf(asked.open) THEN w.inStruct ELSE TopFlags(u).inStruct
    BY <2>3, <2>6
  <2>11. u.stack = Front(w.stack) /\ u.pending = TRUE
    BY <2>4, <2>5, <2>6
  <2>12. FramesInv(u, b)
    BY <1>1, <2>3, <2>7, <2>8, <2>9, <2>10, <2>11, ClosedInv
  <2> QED BY <2>2, <2>12 DEF StepOK
<1> QED BY <1>4, <1>5, <1>6

LEMMA FinishContainerStep ==
  ASSUME Careful, FramesInv(w, asked), FinishContainer
  PROVE  StepOK
<1>1. PICK r, b : r = FinishedContainer(w) /\ b = PutClosed(asked) /\ Ends(r, b)
  BY DEF FinishContainer
<1>2. Ended(r, b)
  BY <1>1, EndsIs
<1>3. /\ WriterOK(w) /\ (w.stack = <<>>) = (Len(asked.open) = 0)
      /\ (TopType(w) \in Lobs) = LobOf(asked.open)
  BY TopIs DEF FramesInv
<1>4. PICK p, v : p = TopFlags(w).pending /\ v = [w EXCEPT !.pending = p]
  OBVIOUS
<1>5. But(v, w, {"pending"})
  BY <1>3, <1>4, FramesBut
<1>6. CASE w.stack = <<>>
  <2>1. r = Fails(v, "wrong end")
    BY <1>1, <1>4, <1>6 DEF FinishedContainer
  <2>2. r.err = "wrong end"
    BY <2>1 DEF Fails
  <2> QED BY <1>2, <2>2 DEF Ended
<1>7. CASE w.stack # <<>> /\ TopType(w) \in Lobs
  <2>1. r = Fails(Pop(v), "wrong end")
    BY <1>1, <1>4, <1>7 DEF FinishedContainer
  <2>2. r.err = "wrong end"
    BY <2>1 DEF Fails
  <2> QED BY <1>2, <2>2 DEF Ended
<1>8. CASE w.stack # <<>> /\ TopType(w) \notin Lobs
  <2>1. PICK x, toks, y, ended, in, u :
          /\ x = Pop(v) /\ toks = CloseText(TopType(v), Len(v.stack) - 1, v.pretty)
          /\ y = Write(x, toks) /\ ended = CloseValue(y)
          /\ in = TopFlags(ended).inStruct /\ u = [ended EXCEPT !.inStruct = in]
    OBVIOUS
  <2>2. r = Ok(u)
    BY <1>1, <1>4, <1>8, <2>1 DEF FinishedContainer, EndedContainer
  <2>3. w' = u /\ asked' = b /\ res' = "ok"
    BY <1>2, <2>2 DEF Ended, Ok
  <2>4. Len(asked.open) # 0 /\ ~LobOf(asked.open)
    BY <1>3, <1>8
  <2>5. /\ But(x, v, {"sep", "stack"}) /\ x.stack = Front(v.stack)
        /\ x.sep = SeparatorIn(IF x.stack = <<>> THEN "sexp" ELSE TopType(x), x.pretty)
    BY <1>5, <2>1, ButOK, PopBut
  <2>6. But(y, x, {})
    BY <2>1, <2>5, ButOK, OutBut
  <2>7. But(ended, y, {"pending"}) /\ ended.pending = TRUE
    BY <2>1, <2>6, ButOK, CloseValueBut
  <2>8. But(u, ended, {"inStruct"}) /\ u.inStruct = in
    <3>1. WriterOK(ended) /\ u = [ended EXCEPT !.inStruct = in]
      BY <2>1, <2>7, ButOK
    <3> QED BY <3>1, InStructBut
  <2>9. /\ u.stack = x.stack /\ u.sep = x.sep /\ u.pretty = x.pretty
        /\ u.pending = TRUE /\ u.blobBytes = w.blobBytes /\ v.stack = w.stack
        /\ ended.stack = u.stack
    BY <1>5, <2>5, <2>6, <2>7, <2>8 DEF But, Kept, Agree, FrameFields
  <2>10. u.blobBytes = 0
    <3>1. w.blobBytes = LeftOf(asked.open)
      BY DEF FramesInv
    <3> QED BY <2>4, <2>9, <3>1, LobTypes DEF LeftOf, LobOf
  <2>11. But(u, w, {"blobBytes", "inStruct", "pending", "sep", "stack"})
    <3> DEFINE All == {"blobBytes", "inStruct", "pending", "sep", "stack"}
    <3>1. /\ {"pending"} \subseteq All /\ {"sep", "stack"} \subseteq All
          /\ {} \subseteq All /\ {"inStruct"} \subseteq All /\ All \cup All = All
      OBVIOUS
    <3> HIDE DEF All
    <3>2. But(v, w, All) /\ But(x, v, All) /\ But(y, x, All) /\ But(ended, y, All)
          /\ But(u, ended, All)
      BY <1>5, <2>5, <2>6, <2>7, <2>8, <3>1, ButMore
    <3>3. But(u, w, All)
      BY <3>1, <3>2, ButTransitive
    <3> QED BY <3>3 DEF All
  <2>12. u.sep = SeparatorIn(IF u.stack = <<>> THEN "sexp" ELSE TopType(u), u.pretty)
    BY <2>5, <2>9 DEF TopType
  <2>13. u.inStruct = IF LobOf(asked.open) THEN w.inStruct ELSE TopFlags(u).inStruct
    <3>1. TopFlags(ended) = TopFlags(u)
      BY <2>9 DEF TopFlags
    <3> QED BY <2>1, <2>4, <2>8, <3>1
  <2>14. u.stack = Front(w.stack)
    BY <2>5, <2>9
  <2>15. FramesInv(u, b)
    BY <1>1, <2>4, <2>9, <2>10, <2>11, <2>12, <2>13, <2>14, ClosedInv
  <2> QED BY <2>3, <2>15 DEF StepOK
<1> QED BY <1>6, <1>7, <1>8

-----------------------------------------------------------------------------
(* The calls that write nothing, and close. *)

LEMMA SameStep ==
  ASSUME FramesInv(w, asked), NEW v, But(v, w, {}), NEW r, r = Ok(v), Careful, Ends(r, asked)
  PROVE  StepOK
<1>1. w' = v /\ asked' = asked /\ res' = "ok"
  <2>1. Ended(r, asked)
    BY EndsIs
  <2> QED BY <2>1 DEF Ended, Ok
<1>2. FramesInv(v, asked)
  BY InvKept DEF FramesInv
<1> QED BY <1>1, <1>2 DEF StepOK

(* What a flush frees is no part of the frames.  Without an array there are *)
(* no annotations to free.                                                  *)
LEMMA FlushStep ==
  ASSUME Careful, FramesInv(w, asked), Flush
  PROVE  StepOK
<1>1. PICK left, imports, t, freed, v :
        /\ left \in [1..Len(w.anns) -> Names]
        /\ t = [w.table EXCEPT !.imports = imports]
        /\ freed = (IF w.table.open THEN [w EXCEPT !.table = t] ELSE w)
        /\ v = (IF w.annsType = BySid THEN freed ELSE [freed EXCEPT !.anns = left])
        /\ Ends(Ok(v), asked)
  BY DEF Flush
<1>2. WriterOK(w)
  BY DEF FramesInv
<1>3. But(freed, w, {}) /\ freed.limit = w.limit /\ freed.anns = w.anns
  BY <1>1, <1>2 DEF But, Kept, Agree, WriterOK, BufferOK, IsRecord, FrameFields, BufferFields
<1>4. w.limit = Unset => left = <<>>
  <2>1. SUFFICES ASSUME w.limit = Unset
                 PROVE  left = <<>>
    OBVIOUS
  <2>2. w.anns = <<>>
    BY <1>2, <2>1 DEF WriterOK, BufferOK
  <2>3. left \in [1..0 -> Names]
    BY <1>1, <2>2
  <2>4. 1..0 = {}
    OBVIOUS
  <2> QED BY <2>3, <2>4
<1>5. But(v, freed, {})
  <2>1. WriterOK(freed)
    BY <1>3, ButOK
  <2>2. CASE w.annsType = BySid
    BY <1>1, <2>1, <2>2, OutBut
  <2>3. CASE w.annsType # BySid
    <3>1. v = [freed EXCEPT !.anns = left]
      BY <1>1, <2>3
    <3>2. Agree(v, freed, FrameFields)
      BY <2>1, <3>1 DEF Agree, WriterOK, IsRecord, FrameFields
    <3>3. /\ IsRecord(v, BufferFields) /\ v.anns = left /\ v.limit = freed.limit
          /\ v.used = freed.used /\ v.room = freed.room
      BY <2>1, <3>1 DEF WriterOK, BufferOK, IsRecord, BufferFields
    <3>4. BufferOK(v)
      BY <1>3, <1>4, <2>1, <3>3 DEF WriterOK, BufferOK
    <3>5. FrameFields \ {} = FrameFields
      OBVIOUS
    <3> QED BY <3>2, <3>4, <3>5 DEF But, Kept, Agree
  <2> QED BY <2>2, <2>3
<1>6. But(v, w, {})
  BY <1>3, <1>5, ButTransitive
<1> QED BY <1>1, <1>6, SameStep

LEMMA CloseStep ==
  ASSUME Careful, FramesInv(w, asked), Close
  PROVE  StepOK
<1>1. PICK toks, v, x, u :
        /\ toks = <<Eol>> /\ v = (IF w.pretty THEN Write(w, toks) ELSE w)
        /\ x = FlushStream(v) /\ u = [x EXCEPT !.closed = TRUE] /\ Ends(Ok(u), asked)
  BY DEF Close
<1>2. But(v, w, {})
  BY <1>1, OutBut DEF FramesInv
<1>3. But(x, v, {})
  BY <1>1, <1>2, ButOK, OutBut
<1>4. But(u, x, {})
  BY <1>1, <1>3, ButOK, OutBut
<1>5. But(u, w, {})
  BY <1>2, <1>3, <1>4, ButTransitive
<1> QED BY <1>1, <1>5, SameStep

LEMMA PendingStep ==
  ASSUME FramesInv(w, asked),
         \/ PendingCall
         \/ \E name \in Names : FieldName(name) \/ AddAnnotation(name)
         \/ \E imports \in Imports : SetSymbolTable(imports)
  PROVE  StepOK
<1>1. /\ FrameFields \cap PendingFields = {} /\ IsRecord(w, FrameFields) /\ BufferOK(w)
      /\ IsRecord(asked, AskedFields)
  BY DEF FrameFields, PendingFields, FramesInv, WriterOK, AskedOK
<1>2. OnlyPending(FrameFields)
  BY <1>1, PendingCallKept
<1>3. But(w', w, {}) /\ (res' # "ok" => Untraced(w', w))
  <2>1. FrameFields \ {} = FrameFields
    OBVIOUS
  <2> QED BY <1>2, <2>1 DEF OnlyPending, But, Kept, Agree
<1>4. AskedOK(asked') /\ asked'.open = asked.open /\ asked'.batch = asked.batch
  BY <1>2 DEF OnlyPending, Agree, AskedOK, AskedFields, FramesInv
<1> QED BY <1>3, <1>4, InvKept DEF StepOK

-----------------------------------------------------------------------------
(* The theorems. *)

LEMMA InitInv ==
  Init => FramesInv(w, asked)
<1>1. SUFFICES ASSUME Init
               PROVE  FramesInv(w, asked)
  OBVIOUS
<1> DEFINE TextFields == {"stack", "size", "sep", "pending", "blobBytes", "fresh"}
           KeptFields == {"inStruct", "anns", "limit", "used", "room"}
<1>2. PICK i \in Imports, pretty \in BOOLEAN, flush \in BOOLEAN :
        w = [Both(Both(TextPart, [pretty |-> pretty, flushEvery |-> flush]), FreshWith(i))
               EXCEPT !.used = StackDepth * TypeSize + StackDepth * FlagSize]
  BY <1>1 DEF Init
<1>3. PICK b, e : b = TextPart /\ e = [pretty |-> pretty, flushEvery |-> flush]
  OBVIOUS
<1>4. /\ DOMAIN b = TextFields \cup {"out", "sent", "triple"}
      /\ b.stack = <<>> /\ b.size = StackDepth /\ b.sep = Space /\ b.pending = FALSE
      /\ b.blobBytes = 0 /\ b.fresh = TRUE
  BY <1>3 DEF TextPart
<1>5. PICK f, t : f = FreshWith(i) /\ t = [NoTable EXCEPT !.open = i # <<>>, !.imports = i]
  OBVIOUS
<1>6. /\ KeptFields \subseteq DOMAIN f
      /\ f.inStruct = FALSE /\ f.anns = <<>> /\ f.limit = Unset /\ f.room = Room
  <2>1. f = [Fresh EXCEPT !.table = t]
    BY <1>5 DEF FreshWith
  <2>2. /\ IsRecord(Fresh, KeptFields) /\ Fresh.inStruct = FALSE /\ Fresh.anns = <<>>
        /\ Fresh.limit = Unset /\ Fresh.room = Room
    BY DEF Fresh, IsRecord
  <2> QED BY <2>1, <2>2 DEF IsRecord
<1>7. PICK g : g = Both(b, e)
  OBVIOUS
<1>8. /\ DOMAIN g = DOMAIN b \cup {"pretty", "flushEvery"}
      /\ \A k \in DOMAIN b : g[k] = b[k]
  <2>1. DOMAIN e = {"pretty", "flushEvery"}
    BY <1>3
  <2>2. g = [k \in DOMAIN b \cup DOMAIN e |-> IF k \in DOMAIN b THEN b[k] ELSE e[k]]
    BY <1>7 DEF Both
  <2> QED BY <2>1, <2>2
<1>9. PICK h : h = Both(g, f)
  OBVIOUS
<1>10. /\ h = [k \in DOMAIN h |-> h[k]] /\ DOMAIN h = DOMAIN g \cup DOMAIN f
       /\ \A k \in DOMAIN g : h[k] = g[k]
       /\ \A k \in DOMAIN f \ DOMAIN g : h[k] = f[k]
  <2>1. h = [k \in DOMAIN g \cup DOMAIN f |-> IF k \in DOMAIN g THEN g[k] ELSE f[k]]
    BY <1>9 DEF Both
  <2> QED BY <2>1
<1>11. /\ h.stack = <<>> /\ h.size = StackDepth /\ h.sep = Space /\ h.pending = FALSE
       /\ h.blobBytes = 0 /\ h.fresh = TRUE
  <2>1. \A k \in TextFields : h[k] = b[k]
    BY <1>4, <1>8, <1>10
  <2> QED BY <1>4, <2>1
<1>12. h.inStruct = FALSE /\ h.anns = <<>> /\ h.limit = Unset /\ h.room = Room
  <2>1. KeptFields \cap DOMAIN g = {}
    BY <1>4, <1>8
  <2>2. \A k \in KeptFields : h[k] = f[k]
    BY <1>6, <1>10, <2>1
  <2> QED BY <1>6, <2>2
<1>13. FrameFields \cup BufferFields \subseteq DOMAIN h
  BY <1>4, <1>6, <1>8, <1>10 DEF FrameFields, BufferFields
<1>14. PICK used : used = StackDepth * TypeSize + StackDepth * FlagSize
  OBVIOUS
<1>15. w = [h EXCEPT !.used = used]
  BY <1>2, <1>3, <1>5, <1>7, <1>9, <1>14
<1>16. /\ IsRecord(w, FrameFields) /\ IsRecord(w, BufferFields)
       /\ w.stack = <<>> /\ w.size = StackDepth /\ w.sep = Space /\ w.pending = FALSE
       /\ w.blobBytes = 0 /\ w.fresh = TRUE
       /\ w.inStruct = FALSE /\ w.anns = <<>> /\ w.limit = Unset /\ w.room = Room
       /\ w.used = used
  BY <1>10, <1>11, <1>12, <1>13, <1>15 DEF IsRecord, FrameFields, BufferFields
<1>17. /\ StackDepth \in Nat \ {0} /\ used \in Nat /\ used < Room /\ Room \in Nat
  BY <1>14, TextWriterAssumption, WriterAssumption
<1>18. WriterOK(w)
  BY <1>16, <1>17 DEF WriterOK, BufferOK
<1>19. IsSeq(<<>>) /\ Len(<<>>) = 0
  BY DEF IsSeq
<1>20. IsRecord(asked, AskedFields) /\ asked.open = <<>> /\ asked.batch = <<>>
  BY <1>1 DEF Init, NothingAsked, IsRecord, AskedFields
<1>21. AskedOK(asked)
  BY <1>19, <1>20 DEF AskedOK, PlacesOK
<1>22. StackHolds(w.stack, asked.open) /\ Len(w.stack) <= w.size
  BY <1>16, <1>17, <1>19, <1>20 DEF StackHolds
<1>23. w.inStruct = InStructOf(asked.open) /\ w.blobBytes = LeftOf(asked.open)
  BY <1>16, <1>19, <1>20 DEF InStructOf, LobOf, LeftOf
<1>24. w.sep = SeparatorIn(SepTypeOf(asked.open), w.pretty)
  BY <1>16, <1>19, <1>20 DEF SepTypeOf, SeparatorIn
<1>25. w.pending = Begun(asked) /\ w.fresh = Untouched(asked)
  BY <1>16, <1>19, <1>20 DEF Begun, Untouched
<1> QED BY <1>16, <1>17, <1>18, <1>21, <1>22, <1>23, <1>24, <1>25 DEF FramesInv

LEMMA NextStep ==
  ASSUME Careful, FramesInv(w, asked), Next
  PROVE  StepOK
<1>1. Pieces \subseteq Nat
  BY TextWriterAssumption
<1>2. CASE ValueCall
  <2>1. ASSUME \E name \in Names : FieldName(name) \/ AddAnnotation(name)
        PROVE  StepOK
    BY <2>1, PendingStep
  <2>2. ASSUME \/ \E image \in Scalars : WriteScalar(image)
               \/ WriteDecimalNull
               \/ \E type \in Lobs : \E n \in Pieces : WriteWholeLob(type, n)
        PROVE  StepOK
    BY <1>1, <2>2, WholeStep
  <2>3. ASSUME \/ \E type \in Lobs : StartLob(type)
               \/ \E type \in Containers : StartContainer(type)
        PROVE  StepOK
    BY <2>3, OpenStep
  <2>4. ASSUME NEW n \in Pieces, AppendLob(n)
        PROVE  StepOK
    BY <1>1, <2>4, AppendStep
  <2> QED BY <1>2, <2>1, <2>2, <2>3, <2>4, FinishLobStep, FinishContainerStep, FlushStep,
             CloseStep DEF ValueCall
<1>3. CASE OtherCall
  <2>1. CASE PendingCall \/ \E imports \in Imports : SetSymbolTable(imports)
    BY <2>1, PendingStep
  <2>2. ASSUME NEW sid, WriteSymbolId(sid)
        PROVE  StepOK
    BY <2>2, WholeStep DEF WriteSymbolId
  <2> QED BY <1>3, <2>1, <2>2 DEF OtherCall
<1> QED BY <1>2, <1>3 DEF Next

LEMMA FramesHold ==
  ASSUME Careful
  PROVE  Spec => []FramesInv(w, asked)
<1>1. Init => FramesInv(w, asked)
  BY InitInv
<1>2. FramesInv(w, asked) /\ [Next]_vars => FramesInv(w, asked)'
  <2>1. CASE Next
    BY <2>1, NextStep DEF StepOK
  <2>2. CASE UNCHANGED vars
    BY <2>2 DEF vars
  <2> QED BY <2>1, <2>2
<1> QED BY <1>1, <1>2, PTL DEF Spec

(* The stack, the separator, whether one is pending, whether we are in a    *)
(* struct, and the bytes a blob owes are those of the containers and lobs   *)
(* that the caller has open, whichever way push, pop, start_value,          *)
(* close_value, the appends and the refused calls take turns.               *)
THEOREM FramesCorrect ==
  ASSUME Careful
  PROVE  Spec => []FramesMirrorCalls
<1>1. FramesInv(w, asked) => FramesMirrorCalls
  BY InvMirrors
<1> QED BY <1>1, FramesHold, PTL

(* A call that is refused leaves the writer as it was, but for the array of *)
(* annotations: start_value, start_lob, append_lob and the helpers of       *)
(* ion_writer.c all test before they write, as long as a value of a struct  *)
(* has its field name.                                                      *)
THEOREM RejectionsClean ==
  ASSUME Careful, "no field" \notin Careless
  PROVE  Spec => RejectedLeavesNoTrace
<1>1. FramesInv(w, asked) /\ [Next]_vars =>
        [res' # "ok" => w' = [w EXCEPT !.limit = w'.limit, !.used = w'.used]]_vars
  <2>1. CASE Next
    BY <2>1, NextStep DEF StepOK, Untraced
  <2>2. CASE UNCHANGED vars
    BY <2>2
  <2> QED BY <2>1, <2>2
<1> QED BY <1>1, FramesHold, PTL DEF Spec, RejectedLeavesNoTrace
=============================================================================
