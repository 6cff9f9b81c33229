------------------------------ MODULE IonNumbers ------------------------------
(***************************************************************************)
(* The numbers of binary Ion, as ion_binary.c reads and writes them.       *)
(*                                                                         *)
(* A stream is a sequence of bytes.  A write operator is the bytes that    *)
(* the function puts; a read operator takes the bytes that are left and    *)
(* returns [err, val, used], used being the number of bytes it consumed.   *)
(* Widths are parameters: with small ones every boundary of an encoding    *)
(* is a small number.                                                      *)
(***************************************************************************)
EXTENDS Integers, FiniteSetsExt, SequencesExt
LOCAL INSTANCE Bitwise

CONSTANTS
  ByteBits,    \* bits of a byte: 8
  WordBits,    \* bits of an int32_t
  LongBits     \* bits of an int64_t

NumbersAssumption ==
  /\ {ByteBits, WordBits, LongBits} \subseteq Nat \ {0, 1, 2}
  /\ WordBits % ByteBits = 0 /\ LongBits % ByteBits = 0 /\ WordBits < LongBits

Byte == 2^ByteBits            \* 0x100
Group == 2^(ByteBits - 1)     \* 0x80: what a byte of a VarUInt counts to, its
                              \* stop bit, and the sign bit of an Int
Half == 2^(ByteBits - 2)      \* 0x40: the sign bit of a VarInt
HighBit == 2^(LongBits - 1)   \* HIGH_BIT_INT64
LongBytes == LongBits \div ByteBits
EOF == -1                     \* what ION_GET gives behind the end

AbsLong(v) == IF v < 0 THEN -v ELSE v       \* as a uint64_t
ULong(v) == v % 2^LongBits
Long(v) == ((v + HighBit) % 2^LongBits) - HighBit
Word(v) == ((v + 2^(WordBits - 1)) % 2^WordBits) - 2^(WordBits - 1)

-----------------------------------------------------------------------------
(* Positional notation. *)

(* The digits of v to the base b, the most significant first; 0 has one.   *)
Places(v, b) ==
  LET n == CHOOSE n \in 1..64 : v < b^n /\ \A k \in 1..(n - 1) : v >= b^k
  IN  [i \in 1..n |-> (v \div b^(n - i)) % b]

(* The number that digits spell. *)
Number(digits, b) == FoldLeft(LAMBDA n, d : n * b + d, 0, digits)

Padded(s, n) == [i \in 1..(n - Len(s)) |-> 0] \o s

-----------------------------------------------------------------------------
(* Lengths, which a header says before the bytes are written.              *)

LenUInt(v) == IF v = 0 THEN 0 ELSE Len(Places(v, Byte))

(* Mutant of LenInt: no byte for the sign when its bit is taken. *)
LenIntBare(v) == LenUInt(AbsLong(v))

LenInt(v) ==
  IF v = 0 THEN 0
  ELSE LET p == Places(AbsLong(v), Byte)
       IN  Len(p) + IF p[1] >= Group THEN 1 ELSE 0

LenVarUInt(v) == Len(Places(v, Group))

LenVarInt(v) ==
  LET p == Places(AbsLong(v), Group)
  IN  Len(p) + IF p[1] >= Half THEN 1 ELSE 0

(* Doubles are their 64 bits; both zeros take no bytes. *)
LenFloat(bits) == IF bits \in {0, HighBit} THEN 0 ELSE LongBytes

-----------------------------------------------------------------------------
(* Writing. *)

Stopped(groups) == Front(groups) \o <<Last(groups) + Group>>

WriteUInt(v) == Places(v, Byte)
WriteVarUInt(v) == Stopped(Places(v, Group))

(* If the sign's bit is taken, the sign has a byte to itself. *)
Signed(p, sign, neg) ==
  LET room == IF p[1] >= sign THEN <<0>> \o p ELSE p
  IN  <<room[1] + IF neg THEN sign ELSE 0>> \o Tail(room)

WriteVarInt(v) == Stopped(Signed(Places(AbsLong(v), Group), Half, v < 0))

WriteInt(v, isNegativeZero) ==
  Signed(Places(AbsLong(v), Byte), Group, v < 0 \/ (v = 0 /\ isNegativeZero))

WriteFloat(bits) == Padded(Places(bits, Byte), LongBytes)

-----------------------------------------------------------------------------
(* Reading. *)

Got(err, val, used) == [err |-> err, val |-> val, used |-> used]
At(s, i) == IF i <= Len(s) THEN s[i] ELSE EOF
Stops(b) == b = EOF \/ b >= Group

CastToLong(v, neg) ==
  IF neg THEN IF v <= HighBit THEN Got("ok", -v, 0) ELSE Got("overflow", 0, 0)
         ELSE IF v < HighBit THEN Got("ok", v, 0) ELSE Got("overflow", 0, 0)

(* The loop both VarInts share: it goes on from the first byte, whose value *)
(* is first, until a byte says stop or the top bit is taken.               *)
ReadGroups(s, first) ==
  LET value[i \in 1..(Len(s) + 1)] ==
        IF i = 1 THEN first ELSE ULong(value[i - 1] * Group + (At(s, i) % Group))
      last == CHOOSE i \in 1..(Len(s) + 1) :
                /\ Stops(At(s, i)) \/ (i > 1 /\ value[i] >= HighBit)
                /\ \A k \in 1..(i - 1) : ~Stops(s[k]) /\ (k > 1 => value[k] < HighBit)
      err == CASE ~Stops(At(s, last)) -> "overflow"
               [] At(s, last) = EOF -> "eof"
               [] OTHER -> "ok"
  IN  Got(err, value[last], Min({last, Len(s)}))

ReadVarUInt(s) == ReadGroups(s, At(s, 1) % Group)

(* Mutant of ReadVarInt: the sign's bit counts with the others of the first byte. *)
ReadVarIntSigned(s) ==
  LET g == ReadGroups(s, At(s, 1) % Group)
  IN  IF g.err # "ok" THEN g
      ELSE [CastToLong(g.val, (At(s, 1) \div Half) % 2 = 1) EXCEPT !.used = g.used]

ReadVarInt(s) ==
  LET b == At(s, 1)
      g == ReadGroups(s, b % Half)
  IN  IF g.err # "ok" THEN g
      ELSE [CastToLong(g.val, (b \div Half) % 2 = 1) EXCEPT !.used = g.used]

(* A result that the caller wants in an int32_t or a uint32_t. *)
Narrow(g, narrowed) ==
  IF g.err = "ok" /\ g.val # narrowed THEN [g EXCEPT !.err = "overflow"] ELSE g

ReadVarInt32(s) == LET g == ReadVarInt(s) IN Narrow(g, Word(g.val))
ReadVarUInt32(s) == LET g == ReadVarUInt(s) IN Narrow(g, g.val % 2^WordBits)

ReadUInt(s, len) ==
  IF len > LongBytes THEN Got("overflow", 0, 0)
  ELSE IF len > Len(s) THEN Got("eof", 0, Len(s))
  ELSE Got("ok", Number(SubSeq(s, 1, len), Byte), len)

ReadUInt32(s, len) == LET g == ReadUInt(s, len) IN Narrow(g, g.val % 2^WordBits)

(* The first byte is moved in front of the others as an int: from the      *)
(* fifth byte on (WordBits) the shift is undefined, and what is here is    *)
(* what a processor does that takes a distance modulo the width.  At the   *)
(* end of the stream a single byte is not tested.                          *)
ReadInt(s, len) ==
  LET b == At(s, 1)
      rest == ReadUInt(SubSeq(s, 2, Len(s)), len - 1)
      top == Word((b % Group) * 2^(((len - 1) * ByteBits) % WordBits))
      v == IF len = 1 THEN b % Group ELSE rest.val | ULong(top)
      neg == Stops(b)
  IN  IF len = 0 THEN [err |-> "ok", val |-> 0, used |-> 0, negZero |-> FALSE]
      ELSE IF len > 1 /\ (s = <<>> \/ rest.err # "ok")
           THEN [err |-> IF s = <<>> THEN "eof" ELSE rest.err, val |-> 0,
                 used |-> IF s = <<>> THEN 0 ELSE rest.used + 1, negZero |-> FALSE]
      ELSE LET c == CastToLong(v, neg)
           IN  [err |-> c.err, val |-> c.val, used |-> Min({len, Len(s)}),
                negZero |-> neg /\ v = 0]

ReadInt32(s, len) == LET g == ReadInt(s, len) IN Narrow(g, Word(g.val))

ReadFloat(s, len) ==
  CASE len = 0 -> Got("ok", 0, 0)
    [] len # 0 /\ len # LongBytes -> Got("invalid", 0, 0)
    [] OTHER -> ReadUInt(s, len)

-----------------------------------------------------------------------------
(* Decimals, as decQuadHelpers.c takes them apart: a sign, a coefficient   *)
(* and an exponent.  The coefficient goes through an int64_t, nine digits  *)
(* at a time and without a test of its size.                               *)

Decimal(neg, coef, exp) == [neg |-> neg, coef |-> coef, exp |-> exp]
DecimalZero == Decimal(FALSE, 0, 0)

(* ion_quad_get_digits_and_exponent_from_quad. *)
Mantissa(d) == Long(IF d.neg THEN -Long(d.coef) ELSE Long(d.coef))

(* ion_quad_get_quad_from_digits_and_exponent. *)
FromMantissa(v, exp, isNegativeZero) ==
  Decimal(v < 0 \/ (v = 0 /\ isNegativeZero), AbsLong(v), exp)

LenDecimal(d) ==
  IF d.coef # 0 THEN LenVarInt(d.exp) + LenInt(Mantissa(d))
  ELSE IF d.neg THEN LenVarInt(d.exp) + 1
  ELSE IF d.exp # 0 THEN LenVarInt(d.exp) ELSE 0

WriteDecimal(d) ==
  IF d.coef # 0 THEN WriteVarInt(d.exp) \o WriteInt(Mantissa(d), FALSE)
  ELSE IF d.neg THEN WriteVarInt(d.exp) \o WriteInt(0, TRUE)
  ELSE IF d.exp # 0 THEN WriteVarInt(d.exp) ELSE << >>

DigitsBehind(e, m) == Got(m.err, FromMantissa(m.val, e.val, m.negZero), e.used + m.used)

ReadDigits(e, s, len) ==
  IF e.err # "ok" THEN Got(e.err, DecimalZero, e.used)
  ELSE IF len < e.used THEN Got("invalid", DecimalZero, e.used)
  ELSE DigitsBehind(e, ReadInt(SubSeq(s, e.used + 1, Len(s)), len - e.used))

ReadDecimal(s, len) ==
  IF len = 0 THEN Got("ok", DecimalZero, 0) ELSE ReadDigits(ReadVarInt32(s), s, len)

=============================================================================
