------------------------------ MODULE IonScalars ------------------------------
(***************************************************************************)
(* Numbers on their way through the library: a caller that fills one       *)
(* ION_INT again and again, from texts, bytes, longs, decimals and binary  *)
(* input, and writes it and other numbers to a stream that is then read.   *)
(*                                                                         *)
(* val is what int should hold; sent the fields written and not yet read,  *)
(* each with the length that a header would give for it.                   *)
(***************************************************************************)
EXTENDS IonInt, IonNumerals

CONSTANTS
  Piece,       \* LOCAL_STACK_BUFFER_SIZE: bytes of an integer written at once
  MaxFields,   \* fields on the wire at a time
  Careless     \* the misuses explored

VARIABLES
  int,     \* the caller's ION_INT
  val,     \* [known, n]: the number it was given last
  wire,    \* bytes written and not yet read
  sent,    \* their fields: [form, val, len]
  cut,     \* the last byte was lost
  res      \* the last read: [err, form, want, got, narrow, cut]; a text has the
           \* form "text", "long text" if an int64_t is wanted, or "no int"

vars == <<int, val, wire, sent, cut, res>>

Allowed(what) == what \in Careless
Known(n) == [known |-> TRUE, n |-> n]
Unknown == [known |-> FALSE, n |-> 0]
NoRead == [err |-> "none"]

Init ==
  /\ int = NullInt /\ val = Unknown
  /\ wire = << >> /\ sent = << >> /\ cut = FALSE /\ res = NoRead

-----------------------------------------------------------------------------
(* Into the ION_INT. *)

(* A conversion that fails without a trace keeps the number; one that      *)
(* fails on the way leaves no number that anybody asked for.               *)
Filled(r, n) ==
  /\ int' = r.int
  /\ val' = IF r.err = "ok" THEN Known(n) ELSE IF r.int = int THEN val ELSE Unknown
  /\ res' = NoRead
  /\ UNCHANGED <<wire, sent, cut>>

Spells(t, base) == SignOf(t.sign = "-") * Number(t.digits, base)

ParseDecimal(t) == Filled(FromChars(int, t), Spells(t, 10))
ParseHex(t) == Filled(FromHexChars(int, t), Spells(t, 16))
LoadBytes(b) ==
  Filled(FromBytes(int, b), Number(b, Byte) - IF b[1] >= Group THEN Byte^Len(b) ELSE 0)
LoadAbsBytes(b, neg) == Filled(FromAbsBytes(int, b, neg), SignOf(neg) * Number(b, Byte))
LoadLong(v) ==
  /\ v # -HighBit \/ Allowed("least")
  /\ Filled(FromLong(int, v), v)
LoadDecimal(d) == Filled(FromDecimal(int, d), SignOf(d.neg) * d.coef)

-----------------------------------------------------------------------------
(* Onto the wire. *)

(* _ion_writer_binary_write_ion_int: the bytes, piece by piece. *)
IntLength(i) == IF i.signum = 0 THEN 0 ELSE AbsByteLength(i)
IntImage(i) ==
  LET from[offset \in 0..IntLength(i)] ==
        LET b == ToAbsBytes(i, offset, Piece)
        IN  IF offset >= IntLength(i) THEN << >> ELSE b \o from[offset + Len(b)]
  IN  from[0]

Sends(form, v, len, bytes) ==
  /\ Len(sent) < MaxFields /\ ~cut
  /\ wire' = wire \o bytes
  /\ sent' = Append(sent, [form |-> form, val |-> v, len |-> len])
  /\ res' = NoRead
  /\ UNCHANGED <<int, val, cut>>

(* If the length is a multiple of Shift bytes the first digit is lost.     *)
WriteIonInt ==
  /\ val.known /\ (AbsByteLength(int) % Shift # 0 \/ Allowed("whole digits"))
  /\ Sends("big int", val.n, IntLength(int), IntImage(int))

(* ion_binary_write_int32_with_field_sid, ..int64..: a field id, a type    *)
(* descriptor, whose halves stand beside each other here, and the number.  *)
FieldOf(sid, v) ==
  WriteVarUInt(sid) \o <<IF v < 0 THEN 3 ELSE 2, LenUInt(AbsLong(v))>> \o WriteUInt(AbsLong(v))

(* A double whose only bit is the sign loses it; the least int64_t has no  *)
(* length as a VarInt; zero as a field takes a byte that its header denies; *)
(* a decimal's digits are cut to 64 bits when they are written, and to 32  *)
(* when they are read.                                                     *)
WriteField(form, v) ==
  CASE form = "var uint" -> Sends(form, v, LenVarUInt(v), WriteVarUInt(v))
    [] form = "var int" -> /\ v # -HighBit \/ Allowed("least")
                           /\ Sends(form, v, LenVarInt(v), WriteVarInt(v))
    [] form = "uint" -> v # 0 /\ Sends(form, v, LenUInt(v), WriteUInt(v))
    [] form = "int" -> /\ v # 0 /\ (AbsLong(v) < 2^WordBits \/ Allowed("wide"))
                       /\ Sends(form, v, LenInt(v), WriteInt(v, FALSE))
    [] form = "float" -> /\ v # HighBit \/ Allowed("minus zero")
                         /\ Sends(form, v, LenFloat(v),
                                  IF LenFloat(v) = 0 THEN << >> ELSE WriteFloat(v))
    [] form = "decimal" -> /\ v.coef < 2^WordBits \/ Allowed("wide")
                           /\ Sends(form, v, LenDecimal(v), WriteDecimal(v))
    [] form = "field" -> /\ v # 0 \/ Allowed("zero field")
                         /\ Sends(form, v, 2 + LenVarUInt(4) + LenUInt(AbsLong(v)), FieldOf(4, v))

(* The input ends where it should not. *)
Cut ==
  /\ wire # << >> /\ ~cut
  /\ wire' = Front(wire) /\ cut' = TRUE /\ res' = NoRead
  /\ UNCHANGED <<int, val, sent>>

-----------------------------------------------------------------------------
(* Off the wire. *)

(* After an error there is nothing more to read. *)
Reads(r, narrow) ==
  /\ res' = [err |-> r.err, form |-> Head(sent).form, want |-> Head(sent).val,
             got |-> r.val, narrow |-> narrow, cut |-> cut]
  /\ IF r.err = "ok" THEN /\ sent' = Tail(sent)
                          /\ wire' = SubSeq(wire, r.used + 1, Len(wire))
                          /\ cut' = (cut /\ Len(sent) > 1)
     ELSE wire' = << >> /\ sent' = << >> /\ cut' = FALSE

ReadFieldOf(s) ==
  LET sid == ReadVarUInt(s)
      len == At(s, sid.used + 2)
      n == ReadUInt(SubSeq(s, sid.used + 3, Len(s)), len)
  IN  IF sid.err # "ok" THEN sid
      ELSE IF len = EOF THEN Got("eof", 0, Len(s))
      ELSE IF n.err # "ok" THEN n
      ELSE [CastToLong(n.val, s[sid.used + 1] = 3) EXCEPT !.used = sid.used + 2 + n.used]

(* One byte at the end of the input is not missed by a signed integer.     *)
ReadField(narrow) ==
  LET f == Head(sent)
      r == CASE f.form = "var uint" -> IF narrow THEN ReadVarUInt32(wire) ELSE ReadVarUInt(wire)
             [] f.form = "var int" -> IF narrow THEN ReadVarInt32(wire) ELSE ReadVarInt(wire)
             [] f.form = "uint" -> IF narrow THEN ReadUInt32(wire, f.len) ELSE ReadUInt(wire, f.len)
             [] f.form = "int" -> IF narrow THEN ReadInt32(wire, f.len) ELSE ReadInt(wire, f.len)
             [] f.form = "float" -> ReadFloat(wire, f.len)
             [] f.form = "decimal" -> ReadDecimal(wire, f.len)
             [] f.form = "field" -> ReadFieldOf(wire)
  IN  /\ f.form # "big int"
      /\ (f.form = "int" /\ f.len = 1 /\ wire = << >>) => Allowed("end")
      /\ (f.form = "decimal" /\ f.len = Len(wire) + 1 /\ cut) => Allowed("end")
      /\ Reads(r, narrow)
      /\ UNCHANGED <<int, val>>

(* _ion_binary_read_mixed_int_helper: what surely fits is read as a long.  *)
ReadMixedInt ==
  LET f == Head(sent)
      neg == f.val < 0
      n == ReadUInt(wire, f.len)
      big == ReadIonInt(wire, f.len, neg, int)
  IN  /\ f.form = "big int"
      /\ IF f.len * ByteBits <= LongBits - 2
         THEN /\ Reads(IF n.err # "ok" THEN n
                       ELSE [CastToLong(n.val, neg) EXCEPT !.used = n.used], FALSE)
              /\ UNCHANGED <<int, val>>
         ELSE /\ int' = big.int
              /\ val' = IF big.err = "ok" THEN Known(f.val) ELSE Unknown
              /\ Reads([err |-> big.err, val |-> f.val, used |-> big.used], FALSE)

Read ==
  /\ sent # << >>
  /\ \/ \E narrow \in BOOLEAN : ReadField(narrow)
     \/ ReadMixedInt

-----------------------------------------------------------------------------
(* Integers of a text document. *)

(* The parts of an integer that the scanner found; lead is the digit in    *)
(* front of an x.                                                          *)
NumeralOf(text, scan) ==
  LET last == text[scan.used]
      base == IF scan.type = "hex" THEN 16 ELSE 10
      neg == Is(text, 1, "-")
  IN  [neg |-> neg, base |-> base, lead |-> text[IF neg THEN 2 ELSE 1][3],
       digits |-> IF last = <<"x">> THEN << >> ELSE Padded(Places(last[3], base), last[2])]

(* _ion_reader_text_read_int64, which passes over the x and one character  *)
(* in front of it, and _ion_reader_text_read_int32.                        *)
TextLong(n) == CastToLong(Number(n.digits, n.base), n.neg)
TextInt(n) == LET g == TextLong(n) IN Narrow(g, Word(g.val))

(* _ion_reader_text_read_ion_int_helper, into i. *)
TextIonInt(n, i) ==
  LET t == [sign |-> IF n.neg THEN "-" ELSE "", digits |-> n.digits, junk |-> FALSE]
  IN  CASE n.base = 10 -> FromChars(i, t)
        [] n.base = 16 /\ n.lead = 0 -> FromHexChars(i, t)
        [] OTHER -> Into("syntax", i)

(* What surely fits is read as a long.  Hexadecimal digits are taken for   *)
(* half of what they are ("it's ok to guess large").                       *)
GuessedBig(n) ==
  IF n.base = 10 THEN Len(n.digits) >= Len(Places(HighBit - 1, 10))
  ELSE Len(n.digits) \div 2 >= LongBits \div 4

Value(i) == i.signum * Number(i.digits, Base)

(* into says what is wanted: an "int32", an "int64", an ION_INT ("big") or *)
(* what _ion_reader_text_read_mixed_int_helper chooses ("mixed").          *)
ReadNumber(n, into, i) ==
  LET big == TextIonInt(n, i)
      long == IF into = "int32" THEN TextInt(n) ELSE TextLong(n)
  IN  IF into = "big" \/ (into = "mixed" /\ GuessedBig(n))
      THEN [err |-> big.err, val |-> Value(big.int), int |-> big.int]
      ELSE [err |-> long.err, val |-> long.val, int |-> i]

(* A token that is no integer, or none at all, is refused. *)
ReadNumeral(text, into, i) ==
  LET scan == ScanNumber(text)
  IN  IF scan.type \in {"int", "hex"} THEN ReadNumber(NumeralOf(text, scan), into, i)
      ELSE [err |-> "refused", val |-> 0, int |-> i]

TextRead(form, want, r, into) ==
  res' = [err |-> IF r.err \in {"ok", "overflow"} THEN r.err ELSE "refused", form |-> form, want |-> want,
          got |-> r.val, narrow |-> into \in {"int32", "int64"}, cut |-> FALSE]

FormOf(into) == IF into = "int64" THEN "long text" ELSE "text"

(* A text that spells want.  One digit that is not 0, or none, makes no    *)
(* hexadecimal number; mixed reads find some too wide that are not.        *)
ReadTextInt(text, want, into) ==
  LET r == ReadNumeral(text, into, int)
      wide == into = "mixed" /\ Is(text, IF want < 0 THEN 3 ELSE 2, "x") /\ want # Long(want)
  IN  /\ ~wide \/ Len(Places(AbsLong(want), 16)) \div 2 >= LongBits \div 4 \/ Allowed("wide hex")
      /\ TextRead(FormOf(into), want, r, into)
      /\ int' = r.int
      /\ val' = IF r.int = int THEN val ELSE IF r.err = "ok" THEN Known(want) ELSE Unknown
      /\ UNCHANGED <<wire, sent, cut>>

(* A text that spells no integer. *)
ReadTextOther(text, into) ==
  LET r == ReadNumeral(text, into, int)
      hex == \E k \in 1..Len(text) : text[k] = <<"x">>
  IN  /\ ~hex \/ into = "big" \/ Allowed("odd hex")
      /\ TextRead("no int", 0, r, into)
      /\ int' = r.int /\ val' = IF r.int = int THEN val ELSE Unknown
      /\ UNCHANGED <<wire, sent, cut>>

(* _ion_writer_text_write_ion_int and _ion_writer_text_write_int64. *)
IntText(i) ==
  LET t == ToString10(i, CharLength(i) + 1)
  IN  (IF t.sign = "-" THEN <<<<"-">>>> ELSE << >>) \o <<Digits(Len(t.digits), Number(t.digits, 10))>>
LongText(v) ==
  (IF v < 0 THEN <<<<"-">>>> ELSE << >>) \o <<Digits(Len(Places(AbsLong(v), 10)), AbsLong(v))>>

(* A long on its way through a text. *)
LongThroughText(v, into) ==
  /\ TextRead(FormOf(into), v, ReadNumeral(LongText(v), into, NullInt), into)
  /\ UNCHANGED <<int, val, wire, sent, cut>>

(* _ion_writer_write_mixed_int_helper: what was read is copied to a text,  *)
(* and its digits are taken apart for that; the text is read once more.    *)
IntThroughText ==
  /\ val.known
  /\ TextRead("text", val.n, ReadNumeral(IntText(int), "mixed", NullInt), "mixed")
  /\ int' = [int EXCEPT !.digits = [k \in DOMAIN @ |-> 0]]
  /\ val' = IF Allowed("write twice") THEN val ELSE Unknown
  /\ UNCHANGED <<wire, sent, cut>>

-----------------------------------------------------------------------------
(* What is read is what was written; a read only fails if the input was    *)
(* cut, the number is too wide for the result (ion_binary_read_..,         *)
(* _ion_reader_text_read_..) or the text is no integer, and then it does.  *)
FieldsArrive ==
  res.err # "none" =>
    /\ res.err = "ok" => res.got = res.want
    /\ res.err = "overflow" => /\ res.narrow
                               /\ CASE res.form \in {"var uint", "uint"} -> res.want >= 2^WordBits
                                    [] res.form = "long text" -> res.want # Long(res.want)
                                    [] OTHER -> res.want # Word(res.want)
    /\ res.err = "eof" => res.cut
    /\ res.err = "refused" <=> res.form = "no int"
    /\ res.err \in {"ok", "overflow", "eof", "refused"}

(* The bytes on the wire are as many as the lengths said beforehand, which *)
(* is what the headers in front of them rely on (ion_binary_len_...).        *)
LengthsHold ==
  Len(wire) + (IF cut THEN 1 ELSE 0) = FoldLeft(LAMBDA n, f : n + f.len, 0, sent)

(* The integer holds the number it was given, whatever was in its digits   *)
(* before (_ion_int_extend_digits reuses them), failed conversions too.    *)
ValueKept ==
  val.known => /\ int.signum * Number(int.digits, Base) = val.n
               /\ int.signum = 0 <=> val.n = 0

(* Every way out of an ION_INT gives the number back, or says that it does *)
(* not fit (ion_int_to_..., ion_int_..._length).                               *)
ConvertsBack ==
  LET n == val.n
      chars == CharLength(int)
      text == ToString10(int, chars + 1)
      exact == AbsByteLength(int) % Shift # 0 \/ Allowed("whole digits")
      bytes == ToBytes(int, 0, 64)
      long == ToLong(int)
  IN  val.known =>
        /\ Spells(text, 10) = n /\ text.nul <= chars + 1
        /\ exact => /\ Number(IntImage(int), Byte) = AbsLong(n)
                    /\ Len(IntImage(int)) = IntLength(int)
        /\ (exact /\ (n >= 0 \/ Allowed("negative"))) =>
             /\ Len(bytes) = ByteLength(int)
             /\ Number(bytes, Byte) - (IF bytes[1] >= Group THEN Byte^Len(bytes) ELSE 0) = n
        /\ (AbsLong(n) < 2^LongBits \/ Allowed("shifted out")) =>
             IF AbsLong(n) < HighBit THEN long = [err |-> "ok", val |-> n]
                                     ELSE long.err = "overflow"
        /\ ToDecimal(int) = Decimal(n < 0, AbsLong(n), 0)
        /\ IsZeroInt(int) <=> n = 0
        /\ IsNullCall(int, TRUE) = FALSE
=============================================================================
