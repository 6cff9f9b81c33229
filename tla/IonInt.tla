-------------------------------- MODULE IonInt --------------------------------
(***************************************************************************)
(* ion_int.c: integers of any size, as a sign and an array of digits, the  *)
(* most significant first.  The array is kept from value to value: a new   *)
(* one is only allocated when it is too short, so what a conversion leaves *)
(* in it depends on the values before.                                     *)
(*                                                                         *)
(* An ION_INT is [signum, digits]; no digits (a null pointer) is null.     *)
(* A conversion into one returns [err, int]; one that fails after it began *)
(* leaves what it had done.                                                *)
(***************************************************************************)
EXTENDS IonNumbers

CONSTANTS
  Shift,       \* II_SHIFT: bits of a digit, 31
  Slack        \* digits allocated beyond those needed, 100

IntAssumption == Shift \in Nat \ {0} /\ Slack \in Nat

Base == 2^Shift                              \* II_BASE
NullInt == [signum |-> 0, digits |-> << >>]  \* _ion_int_init
IsNull(i) == i.digits = << >>                \* _ion_int_is_null_helper
Into(err, i) == [err |-> err, int |-> i]
SignOf(neg) == IF neg THEN -1 ELSE 1

-----------------------------------------------------------------------------
(* Arithmetic on an array of digits; what does not fit in it is lost.      *)

(* _ion_int_multiply_and_add. *)
MultiplyAndAdd(d, mult, add) ==
  LET carry[k \in 1..(Len(d) + 1)] ==      \* into digit k - 1
        IF k > Len(d) THEN add ELSE (d[k] * mult + carry[k + 1]) \div Base
  IN  [k \in 1..Len(d) |-> (d[k] * mult + carry[k + 1]) % Base]

(* _ion_int_add_digit: stops where nothing is left to carry. *)
AddDigit(d, v) == MultiplyAndAdd(d, 1, v)

(* _ion_int_sub_digit: the difference is unsigned, so it is never found to *)
(* be negative, and nothing is borrowed from the digit above.              *)
SubDigit(d, v) == Front(d) \o <<(Last(d) - v) % Base>>

(* _ion_int_divide_by_digit: the quotient and the remainder. *)
DivideByDigit(d, v) ==
  LET left[k \in 0..Len(d)] == IF k = 0 THEN 0 ELSE (left[k - 1] * Base + d[k]) % v
  IN  [digits |-> [k \in 1..Len(d) |-> (left[k - 1] * Base + d[k]) \div v],
       remainder |-> left[Len(d)]]

IsZeroDigits(d) == \A k \in 1..Len(d) : d[k] = 0

(* The bits of the array, and how many are in use. *)
Bits(d) ==
  [n \in 1..(Len(d) * Shift) |->
     (d[((n - 1) \div Shift) + 1] \div 2^((Shift - 1) - ((n - 1) % Shift))) % 2]

(* _ion_int_highest_bit_set_helper. *)
HighestBit(i) ==
  LET b == Bits(i.digits)
      set == {n \in 1..Len(b) : b[n] = 1}
  IN  IF set = {} THEN 0 ELSE (Len(b) - Min(set)) + 1

-----------------------------------------------------------------------------
(* Into an ION_INT. *)

(* _ion_int_extend_digits, which every caller asks to fill with zeros.     *)
Extend(i, needed) ==
  [i EXCEPT !.digits = [k \in 1..Max({Len(@), needed + Slack}) |-> 0]]

(* Mutant of Zero: the sign of the value before is kept. *)
ZeroSigned(i) == Extend(i, 1)
Zero(i) == [Extend(i, 1) EXCEPT !.signum = 0]

DigitCount(bits) == IF bits = 0 THEN 1 ELSE ((bits - 1) \div Shift) + 1

(* The low digits of v put into the array that i has. *)
Holding(i, v) ==
  [i EXCEPT !.digits = [k \in 1..Len(@) |->
                          IF Len(@) - k < 5 THEN (v \div Base^(Len(@) - k)) % Base ELSE 0]]

WithSign(i, neg) == [i EXCEPT !.signum = IF IsZeroDigits(i.digits) THEN 0 ELSE SignOf(neg)]

(* The loop over characters that decimal and hexadecimal share. *)
Spelled(i, digits, base) ==
  [i EXCEPT !.digits = FoldLeft(LAMBDA d, c : MultiplyAndAdd(d, base, c), @, digits)]

(* A text is [sign, digits, junk]: junk says that something other than a   *)
(* digit follows them.  A leading zero adds no bits, a second is refused.  *)
(* White space in front is skipped, and left out here.  The two            *)
(* comparisons with a null never both hold: a null is junk like any other. *)
FromChars(i, t) ==
  LET chars == Len(t.digits) + IF t.junk THEN 1 ELSE 0
      count == chars - IF t.digits # << >> /\ t.digits[1] = 0 THEN 1 ELSE 0
      room == Extend(i, ((((335 * count) \div 100) + 1 - 1) \div Shift) + 1)
      done == Spelled(room, t.digits, 10)
  IN  IF \/ chars = 0
         \/ t.digits = << >> /\ t.sign = ""
         \/ Len(t.digits) > 1 /\ t.digits[1] = 0 /\ t.digits[2] = 0
      THEN Into("syntax", i)
      ELSE IF t.junk THEN Into("syntax", done)
      ELSE Into("ok", WithSign(done, t.sign = "-"))

(* The digits are behind "0x", and the zeros in front of them are skipped. *)
FromHexChars(i, t) ==
  LET chars == Len(t.digits) + IF t.junk THEN 1 ELSE 0
      zeros == CHOOSE n \in 0..Len(t.digits) :
                 /\ \A k \in 1..n : t.digits[k] = 0
                 /\ n < Len(t.digits) => t.digits[n + 1] # 0
      room == Extend(i, ((4 * (chars - zeros)) \div Shift) + 1)
      done == Spelled(room, SubSeq(t.digits, zeros + 1, Len(t.digits)), 16)
  IN  IF chars = 0 \/ t.sign = "+" THEN Into("syntax", i)
      ELSE IF t.junk THEN Into("syntax", done)
      ELSE Into("ok", WithSign(done, t.sign = "-"))

(* Bytes in two's complement: leading bytes that only repeat the sign are  *)
(* passed, the others inverted if negative, and 1 added at the end.        *)
FromBytes(i, b) ==
  LET neg == b[1] >= Group
      mayOverflow == b[1] >= Byte - 2
      skipped == CHOOSE n \in 0..Len(b) :
                   /\ \A k \in 1..n : b[k] = IF neg THEN Byte - 1 ELSE 0
                   /\ IF neg THEN n = Len(b) - 1 \/ (n < Len(b) /\ b[n + 1] # Byte - 1)
                             ELSE n = Len(b) \/ b[n + 1] # 0
      count == Len(b) - skipped
      bits == (ByteBits - 1) + (count - 1) * ByteBits
              + (IF skipped > 0 THEN 1 ELSE 0) + (IF mayOverflow THEN 1 ELSE 0)
      raw == [k \in 1..count |->
                LET c == IF neg THEN (Byte - 1) - b[skipped + k] ELSE b[skipped + k]
                IN  IF k = 1 /\ skipped = 0 THEN c % Group ELSE c]
      put == Holding(Extend(i, DigitCount(bits)), Number(raw, Byte))
  IN  IF count = 0 THEN Into("ok", Zero(i))
      ELSE IF neg THEN Into("ok", [put EXCEPT !.digits = AddDigit(@, 1), !.signum = -1])
      ELSE Into("ok", WithSign(put, FALSE))

FromAbsBytes(i, b, neg) ==
  LET zeros == CHOOSE n \in 0..Len(b) :
                 (\A k \in 1..n : b[k] = 0) /\ (n < Len(b) => b[n + 1] # 0)
      bits == (Len(b) - zeros) * ByteBits
  IN  Into("ok", IF bits = 0 THEN Zero(i)
                 ELSE WithSign(Holding(Extend(i, DigitCount(bits)), Number(b, Byte)), neg))

(* The least int64_t is its own negation, and never shifted to zero.       *)
FromLong(i, v) ==
  IF v = 0 THEN Into("ok", Zero(i))
  ELSE IF v = -HighBit THEN Into("hang", i)
  ELSE Into("ok", WithSign(Holding(Extend(i, Len(Places(AbsLong(v), Base))), AbsLong(v)), v < 0))

(* Only decimals whose exponent is zero count as integers. *)
FromDecimal(i, d) ==
  LET digits == Len(Places(d.coef, 10))
      room == Extend(i, (((335 * digits) \div 100) \div Shift) + 1)
  IN  IF d.exp # 0 THEN Into("arg", i)
      ELSE Into("ok", IF d.coef = 0 THEN Zero(i) ELSE WithSign(Holding(room, d.coef), d.neg))

(* ion_binary_read_ion_int, with the bytes it consumed. *)
ReadIonInt(s, len, neg, i) ==
  LET room == Extend(i, DigitCount(len * ByteBits))
      done == Spelled(room, SubSeq(s, 1, Min({len, Len(s)})), Byte)
  IN  IF len < 1 THEN [err |-> "ok", int |-> Zero(i), used |-> 0]
      ELSE IF Len(s) < len THEN [err |-> "eof", int |-> done, used |-> Len(s)]
      ELSE [err |-> "ok", int |-> WithSign(done, neg), used |-> len]

-----------------------------------------------------------------------------
(* Out of an ION_INT. *)

(* ion_int_is_null asks the result's old value whether to set it. *)
IsNullCall(i, before) == IF before THEN IsNull(i) ELSE before

IsZeroInt(i) == i.signum = 0 \/ IsZeroDigits(i.digits)

(* Mutant of CharLength: the bound is rounded down. *)
CharLengthShort(i) ==
  LET bits == HighestBit(i)
  IN  (IF bits = 0 THEN 1 ELSE (bits * 100000) \div 332191)
      + IF i.signum < 0 THEN 1 ELSE 0

(* _ion_int_get_char_len_helper: an upper bound by the bits in use.        *)
CharLength(i) ==
  LET bits == HighestBit(i)
  IN  (IF bits = 0 THEN 1 ELSE ((bits * 100000) \div 332191) + 1)
      + IF i.signum < 0 THEN 1 ELSE 0

(* _ion_int_to_string_helper: what is written into room for so many        *)
(* characters, and where the NUL behind it goes.                           *)
ToString10(i, room) ==
  LET rest[n \in 0..room] == IF n = 0 THEN i.digits ELSE DivideByDigit(rest[n - 1], 10).digits
      count == CHOOSE n \in 0..room :
                 /\ IsZeroDigits(rest[n]) \/ n = room
                 /\ \A k \in 0..(n - 1) : ~IsZeroDigits(rest[k])
      digits == [k \in 1..count |-> DivideByDigit(rest[count - k], 10).remainder]
      sign == IF i.signum < 0 THEN 1 ELSE 0
  IN  [sign |-> IF sign = 1 THEN "-" ELSE "",
       digits |-> IF count = 0 THEN <<0>> ELSE digits,
       nul |-> Max({count, 1}) + sign + 1]

ToChars(i, room) ==
  IF CharLength(i) > room THEN [err |-> "small"]
  ELSE [err |-> "ok"] @@ ToString10(i, room)

(* _ion_int_abs_bytes_length_helper, _ion_int_bytes_length_helper. *)
AbsByteLength(i) ==
  LET bits == HighestBit(i) IN IF bits = 0 THEN 1 ELSE ((bits - 1) \div ByteBits) + 1
ByteLength(i) ==
  AbsByteLength(i) + IF HighestBit(i) # 0 /\ HighestBit(i) % ByteBits = 0 THEN 1 ELSE 0

(* _ion_int_is_high_bytes_high_bit_set_helper. *)
HighBitSet(i, bytes) ==
  LET b == Bits(i.digits)
  IN  bytes * ByteBits < Len(b) /\ b[Len(b) - bytes * ByteBits + 1] = 1

(* _ion_int_to_bytes_helper: whole bytes from the low bits of the array.   *)
(* The digit that it starts in has (bits wanted) % Shift bits to copy; if  *)
(* that is 0 the whole digit is passed over.                               *)
Copied(i, bytes, offset, neg, room) ==
  LET want == (bytes - offset) * ByteBits
      have == IF want % Shift = 0 THEN want - Shift ELSE want
      all == Bits(i.digits)
      low == IF have > Len(all) THEN Padded(all, have)
             ELSE SubSeq(all, Len(all) - have + 1, Len(all))
  IN  IF offset >= bytes THEN << >>
      ELSE [k \in 1..Min({room, have \div ByteBits}) |->
              LET c == Number(SubSeq(low, (k - 1) * ByteBits + 1, k * ByteBits), 2)
              IN  IF neg THEN (Byte - 1) - c ELSE c]

ToAbsBytes(i, offset, room) ==
  IF i.signum = 0
  THEN IF offset = 0 /\ room > 0 THEN <<0>> ELSE << >>
  ELSE Copied(i, AbsByteLength(i), offset, FALSE, room)

(* Two's complement.  The copy made of a negative value has Slack digits   *)
(* more than the value, and the value is put in front of them.             *)
ToBytes(i, offset, room) ==
  LET used == DigitCount(HighestBit(i))
      top == SubSeq(i.digits, Len(i.digits) - used + 1, Len(i.digits))
      less == [signum |-> 0, digits |-> SubDigit(top \o [k \in 1..Slack |-> 0], 1)]
      from == IF i.signum < 0 THEN less ELSE i
      bytes == AbsByteLength(from)
      own == HighBitSet(from, bytes)
      sign == IF i.signum < 0 THEN Byte - 1 ELSE 0
      start == IF own /\ offset > 0 THEN offset - 1 ELSE offset
      body == Copied(from, bytes, start, i.signum < 0, room)
  IN  IF i.signum = 0 THEN IF offset = 0 /\ room > 0 THEN <<0>> ELSE << >>
      ELSE IF own /\ offset = 0 THEN <<sign>> \o body ELSE body

(* _ion_int_to_int64_helper: an overflow shows in the sign after a digit,  *)
(* unless the bits were shifted past it.                                   *)
ToLong(i) ==
  LET n == Len(i.digits)
      v[k \in 0..n] == IF k = 0 THEN 0 ELSE Long(ULong(v[k - 1] * Base) + i.digits[k])
  IN  IF \E k \in 1..n : v[k] < 0 THEN [err |-> "overflow", val |-> 0]
      ELSE [err |-> "ok", val |-> i.signum * v[n]]

ToInt(i) == LET g == ToLong(i) IN Narrow(g, Word(g.val))

ToDecimal(i) ==
  Decimal(i.signum < 0, FoldLeft(LAMBDA v, d : v * Base + d, 0, i.digits), 0)

=============================================================================
