----------------------------- MODULE IonTimestamp -----------------------------
(***************************************************************************)
(* ion_timestamp.c: a caller's ION_TIMESTAMP, set field by field, from a   *)
(* time_t or from text, given and robbed of a local offset, and sent       *)
(* through either encoding.                                                *)
(*                                                                         *)
(* prec counts the precision flags that are on, which always come in this  *)
(* order; tz is ION_TT_BIT_TZ.  Texts are those of IonNumerals.            *)
(***************************************************************************)
EXTENDS IonNumerals

CONSTANT Careless  \* the calls explored that do not come back as they went

VARIABLES
  ts,      \* the ION_TIMESTAMP
  asked    \* history: [known, sound, date]: the date the caller asked for

vars == <<ts, asked>>

Allowed(what) == what \in Careless

(* The precisions, by how many of the flags are on. *)
Year == 1
Month == 2
Day == 3
Minute == 4
Second == 5
Fraction == 6

(* Fields that a precision reaches through, the fraction not counted. *)
Reaches(prec) == IF prec = 0 THEN 0 ELSE <<1, 2, 3, 5, 6, 6>>[prec]

(* _ion_timestamp_initialize: this is also null.timestamp. *)
Zeroed ==
  [year |-> 0, month |-> 0, day |-> 0, hours |-> 0, minutes |-> 0, seconds |-> 0,
   fraction |-> DecimalZero, prec |-> 0, tz |-> FALSE, offset |-> 0]

Into(err, t) == [err |-> err, ts |-> t]

-----------------------------------------------------------------------------
(* The calendar. *)

(* Mutant of IsLeapYear: centuries are years like others. *)
IsLeapYearJulian(y) == y % 4 = 0

IsLeapYear(y) == y % 4 = 0 /\ (y % 100 = 0 => y % 400 = 0)

MonthDays(leap) == <<31, IF leap THEN 29 ELSE 28, 31, 30, 31, 30, 31, 31, 30, 31, 30, 31>>

IsValidDay(y, m, d) == m \in 1..12 /\ d \in 1..MonthDays(IsLeapYear(y))[m]

-----------------------------------------------------------------------------
(* Field by field.  Each call begins with the coarser one, whose fields are *)
(* what is left if it then finds a field of its own to be out of range.    *)

ForYear(t, y) ==
  IF y \notin 1..9999 THEN Into("arg", t)
  ELSE Into("ok", [Zeroed EXCEPT !.year = y, !.prec = Year])

Refine(r, sound, fields) ==
  IF r.err # "ok" \/ ~sound THEN Into("arg", r.ts) ELSE Into("ok", fields @@ r.ts)

ForMonth(t, y, m) == Refine(ForYear(t, y), m \in 1..12, [month |-> m, prec |-> Month])

ForDay(t, y, m, d) == Refine(ForMonth(t, y, m), IsValidDay(y, m, d), [day |-> d, prec |-> Day])

ForMinute(t, y, m, d, h, mi) ==
  Refine(ForDay(t, y, m, d), h \in 0..24 /\ mi \in 0..59,
         [hours |-> h, minutes |-> mi, prec |-> Minute])

ForSecond(t, y, m, d, h, mi, s) ==
  Refine(ForMinute(t, y, m, d, h, mi), s \in 0..59, [seconds |-> s, prec |-> Second])

NoFraction == Decimal(FALSE, -1, 0)            \* a NULL decQuad

BelowOne(f) == f.coef = 0 \/ Len(Places(f.coef, 10)) <= -f.exp

ForFraction(t, y, m, d, h, mi, s, f) ==
  IF f = NoFraction THEN ForSecond(t, y, m, d, h, mi, s)
  ELSE Refine(ForSecond(t, y, m, d, h, mi, s), ~f.neg /\ BelowOne(f) /\ LenDecimal(f) # 0,
              [fraction |-> f, prec |-> Fraction])

SetLocalOffset(t, minutes) ==
  IF minutes \notin (1 - 24 * 60)..(24 * 60 - 1) THEN Into("arg", t)
  ELSE Into("ok", [t EXCEPT !.tz = TRUE, !.offset = minutes])

UnsetLocalOffset(t) == Into("ok", [t EXCEPT !.tz = FALSE, !.offset = 0])

-----------------------------------------------------------------------------
(* time_t, as a day and a second of it. *)

Time(day, sec) == [day |-> day + sec \div 86400, sec |-> sec % 86400]
MinusOne == Time(0, -1)

(* timegm, which takes fields out of range for what they add up to.  There *)
(* were 477 leap days up to 1969.                                          *)
DaysBefore(y) == 365 * (y - 1970) + (y - 1) \div 4 - (y - 1) \div 100 + (y - 1) \div 400 - 477

DaysInto(y, m) == FoldLeft(LAMBDA n, k : n + k, 0, SubSeq(MonthDays(IsLeapYear(y)), 1, m - 1))

(* A month before the first is the last of the year before. *)
TimeGM(y, m, d, h, mi, s) ==
  Time((IF m = 0 THEN DaysBefore(y) - 31 ELSE DaysBefore(y) + DaysInto(y, m)) + d - 1,
       (h * 60 + mi) * 60 + s)

(* ion_timestamp_for_time_t, of a time whose gmtime is these fields. *)
ForTime(y, m, d, h, mi, s) ==
  Into("ok", [Zeroed EXCEPT !.year = y, !.month = m, !.day = d, !.hours = h,
                            !.minutes = mi, !.seconds = s, !.prec = Second])

(* The time of what a timestamp has in its fields, whatever its precision; *)
(* the offset is added to it.                                              *)
ToTime(t) ==
  TimeGM(t.year, t.month, t.day, t.hours, t.minutes + IF t.tz THEN t.offset ELSE 0, t.seconds)

SameNumber(f, g) ==
  LET low == Min({f.exp, g.exp}) IN f.coef * 10^(f.exp - low) = g.coef * 10^(g.exp - low)

(* ion_timestamp_equals: [err, val]. *)
Compare(precisions, times, fractions) ==
  [err |-> IF precisions /\ MinusOne \in ToSet(times) THEN "invalid" ELSE "ok",
   val |-> precisions /\ MinusOne \notin ToSet(times) /\ times[1] = times[2] /\ fractions]

Equals(t, u) ==
  Compare(t.prec = u.prec, <<ToTime(t), ToTime(u)>>,
          t.prec = Fraction => SameNumber(t.fraction, u.fraction))

-----------------------------------------------------------------------------
(* Text. *)

(* decQuadToString writes a fraction as .ddd if it is below 1, has digits  *)
(* behind the point and not too many zeros in front of them.               *)
IsPlain(f) == f.exp < 0 /\ BelowOne(f) /\ f.exp + Len(Places(f.coef, 10)) > -6

(* Mutant of Zone: an unknown offset is taken for none. *)
ZoneZulu(t) ==
  IF t.offset = 0 THEN IF t.tz \/ t.prec >= Minute THEN <<<<"Z">>>> ELSE << >>
  ELSE <<<<IF t.offset > 0 THEN "+" ELSE "-">>, Digits(2, AbsLong(t.offset) \div 60),
         <<":">>, Digits(2, AbsLong(t.offset) % 60)>>

Zone(t) ==
  IF ~t.tz THEN IF t.prec >= Minute THEN <<<<"-">>, Digits(2, 0), <<":">>, Digits(2, 0)>> ELSE << >>
  ELSE IF t.offset = 0 THEN <<<<"Z">>>>
  ELSE <<<<IF t.offset > 0 THEN "+" ELSE "-">>, Digits(2, AbsLong(t.offset) \div 60),
         <<":">>, Digits(2, AbsLong(t.offset) % 60)>>

(* The fields up to the precision, and the T behind a year or a month. *)
ToText(t) ==
  LET all == <<Digits(4, t.year), <<"-">>, Digits(2, t.month), <<"-">>, Digits(2, t.day),
               <<"T">>, Digits(2, t.hours), <<":">>, Digits(2, t.minutes),
               <<":">>, Digits(2, t.seconds), <<".">>, Digits(-t.fraction.exp, t.fraction.coef)>>
      ends == IF t.prec <= Month THEN <<<<"T">>>> ELSE << >>
      last == IF t.prec = 0 THEN 1 ELSE <<1, 3, 5, 9, 11, 13>>[t.prec]
  IN  IF t.prec = Fraction /\ ~IsPlain(t.fraction) THEN [err |-> "invalid", text |-> << >>]
      ELSE [err |-> "ok", text |-> SubSeq(all, 1, last) \o ends \o Zone(t)]

NotGiven == 31073          \* what is left of -99999 in an int16_t

(* How far the separators go. *)
PrecisionOf(text) ==
  LET goesOn == <<Is(text, 2, "-"), Is(text, 4, "-"), Is(text, 6, "T") /\ ~Is(text, 7, "end"),
                  Is(text, 10, ":"), Is(text, 12, ".")>>
  IN  Max({prec \in 1..6 : \A k \in 1..(prec - 1) : goesOn[k]})

(* A day for a month or a year that has none, no hours for a day. *)
ValuesOf(text, prec) ==
  [k \in 1..6 |-> IF k <= Reaches(prec) THEN Token(text, 2 * k - 1)[3] ELSE IF k <= 3 THEN 1 ELSE 0]

InPlace(text, prec) ==
  /\ \A k \in 1..Reaches(prec) : IsInt(text, 2 * k - 1, IF k = 1 THEN 4 ELSE 2)
  /\ Token(text, 1)[3] # 0
  /\ prec <= Month => Is(text, 2 * prec, "T")
  /\ prec >= Minute => Is(text, 8, ":")
  /\ prec = Fraction => IsDigits(text, 13)

Offset(ok, tz, minutes, used) == [ok |-> ok, tz |-> tz, minutes |-> minutes, used |-> used]

(* A sign and hh:mm, or hh: at the end of the buffer; -00:00 is none. *)
ParseOffset(text, at, sign) ==
  LET short == Is(text, at + 3, "end")
      hours == Token(text, at + 1)[3]
      minutes == IF short THEN hours * 60 ELSE hours * 60 + Token(text, at + 3)[3]
      digits == IsInt(text, at + 1, 2) /\ Is(text, at + 2, ":") /\ (short \/ IsInt(text, at + 3, 2))
  IN  IF digits /\ hours < 24 /\ minutes - hours * 60 < 60
      THEN Offset(TRUE, sign = 1 \/ minutes # 0, sign * minutes, IF short THEN 3 ELSE 4)
      ELSE Offset(FALSE, FALSE, 0, 0)

(* Of a day or a time; a time needs one at the end of the buffer, a day    *)
(* must have none.                                                         *)
ParseZone(text, at, timed) ==
  CASE Is(text, at, "end") -> Offset(~timed, FALSE, 0, 0)
    [] Is(text, at, "Z") -> Offset(timed, TRUE, 0, 1)
    [] Is(text, at, "+") /\ timed -> ParseOffset(text, at, 1)
    [] Is(text, at, "-") /\ timed -> ParseOffset(text, at, -1)
    [] Is(text, at, "+") \/ Is(text, at, "-") -> Offset(timed, FALSE, 0, 0)
    [] OTHER -> Offset(TRUE, FALSE, NotGiven, 0)

(* The number of fields that are stored before one is out of range. *)
InRange(v, prec) ==
  CASE v[2] \notin 1..12 -> 1
    [] v[2] \in 1..12 /\ prec >= Day /\ ~IsValidDay(v[1], v[2], v[3]) -> 2
    [] OTHER -> IF v[4] > 23 \/ v[5] > 59 THEN 3 ELSE IF v[6] > 59 THEN 5 ELSE 6

Store(v, good, fraction, prec, zone) ==
  LET f == [k \in 1..6 |-> IF k <= good THEN v[k] ELSE 0]
  IN  Into(IF good = 6 THEN "ok" ELSE "invalid",
           [year |-> f[1], month |-> f[2], day |-> f[3], hours |-> f[4], minutes |-> f[5],
            seconds |-> f[6], fraction |-> IF good = 6 THEN fraction ELSE DecimalZero,
            prec |-> prec, tz |-> zone.tz, offset |-> zone.minutes])

ParseDate(text, prec, v, at, zone) ==
  IF InPlace(text, prec) /\ zone.ok /\ (Is(text, at + zone.used, "end") \/ Is(text, at + zone.used, ";"))
  THEN Store(v, InRange(v, prec),
             IF prec = Fraction THEN Decimal(FALSE, Token(text, 13)[3], -Token(text, 13)[2])
             ELSE DecimalZero,
             prec, zone)
  ELSE Into("invalid", Zeroed)

(* ion_timestamp_parse.  A text without a character leaves the value as it *)
(* was.  Anything else out of place is found when only zeros were stored;  *)
(* a field out of range when those in front of it are there already.       *)
Parse(text, t) ==
  LET prec == PrecisionOf(text)
      at == CASE prec <= Month -> 2 * prec + 1
              [] prec = Day -> IF Is(text, 6, "T") THEN 7 ELSE 6
              [] OTHER -> IF prec = Fraction THEN 14 ELSE 2 * Reaches(prec)
      zone == IF prec <= Month THEN Offset(TRUE, FALSE, NotGiven, 0)
              ELSE ParseZone(text, at, prec >= Minute)
  IN  IF text = <<>> THEN Into("arg", t)
      ELSE IF Is(text, 1, "null") THEN Into(IF Is(text, 2, ";") THEN "ok" ELSE "invalid", Zeroed)
      ELSE ParseDate(text, prec, ValuesOf(text, prec), at, zone)

(* _ion_reader_text_read_timestamp: a value of a document, of which parse  *)
(* sees what the scanner took for one.                                     *)
ReadTimestamp(text, t) ==
  LET scan == IF IsDigits(text, 1) THEN ScanNumber(text) ELSE NoScan("other")
  IN  IF scan.type # "timestamp" THEN Into("invalid", t) ELSE Parse(SubSeq(text, 1, scan.used), t)

-----------------------------------------------------------------------------
(* Bytes: the offset, -0 for none, the fields up to the precision, and the *)
(* fraction as a decimal.  Month to seconds have a byte each.              *)

(* Mutant of BinaryLen: no room for the sign of the offset. *)
BinaryLenUnsigned(t) ==
  (IF t.tz THEN LenVarUInt(AbsLong(t.offset)) ELSE 1)
  + LenVarUInt(t.year)
  + (IF t.prec = 0 THEN 0 ELSE <<0, 1, 2, 4, 5, 5>>[t.prec])
  + IF t.prec = Fraction THEN LenDecimal(t.fraction) ELSE 0

BinaryLen(t) ==
  (IF t.tz THEN LenVarInt(t.offset) ELSE 1)
  + LenVarUInt(t.year)
  + (IF t.prec = 0 THEN 0 ELSE <<0, 1, 2, 4, 5, 5>>[t.prec])
  + IF t.prec = Fraction THEN LenDecimal(t.fraction) ELSE 0

BinaryWrite(t) ==
  LET fields == <<t.year, t.month, t.day, t.hours, t.minutes, t.seconds>>
  IN  (IF t.tz THEN WriteVarInt(t.offset) ELSE <<Group + Half>>)
      \o FlattenSeq([k \in 1..Reaches(t.prec) |-> WriteVarUInt(fields[k])])
      \o IF t.prec = Fraction THEN WriteDecimal(t.fraction) ELSE << >>

(* Behind the offset o, [used, minutes, negative], and the year y, [used,  *)
(* val].  Only the day is looked at, and the hours may be alone: they are  *)
(* stored, but do not count.                                               *)
ReadFields(s, o, y, left, at) ==
  LET f == [k \in 1..5 |-> IF k <= left THEN At(s, at + k) % Group ELSE 0]
  IN  IF Len(s) < at + Min({left, 5}) \/ (left >= 2 /\ ~IsValidDay(y.val, f[1], f[2]))
      THEN Into("invalid", Zeroed)
      ELSE Into("ok",
             [year |-> y.val, month |-> f[1], day |-> f[2], hours |-> f[3], minutes |-> f[4],
              seconds |-> f[5], fraction |-> DecimalZero,
              prec |-> <<Year, Month, Day, Day, Minute, Second, Second>>[Min({left, 6}) + 1],
              tz |-> ~(o.negative /\ o.minutes = 0),
              offset |-> IF o.negative THEN -o.minutes ELSE o.minutes])

(* What is left is the fraction. *)
WithFraction(r, d) ==
  IF r.err # "ok" THEN r
  ELSE Into(d.err, [r.ts EXCEPT !.fraction = d.val, !.prec = Fraction])

(* One byte or two, the second of which must say that it is the last; the  *)
(* first one counts up to top.                                             *)
OneOrTwo(s, top) ==
  LET first == At(s, 1) % top
  IN  IF Stops(At(s, 1)) THEN Got(IF s = << >> THEN "invalid" ELSE "ok", first, 1)
      ELSE Got(IF At(s, 2) < Group THEN "invalid" ELSE "ok", first * Group + (At(s, 2) % Group), 2)

(* ion_timestamp_binary_read.  The reader has a variable of its own for it, *)
(* of which its caller sees nothing if it fails.                           *)
ReadDate(s, len, o, y) ==
  LET left == len - o.used - y.used
      at == o.used + y.used
      fields == ReadFields(s, [used |-> o.used, minutes |-> o.val,
                               negative |-> (At(s, 1) \div Half) % 2 = 1], y, left, at)
  IN  IF o.err # "ok" \/ y.err # "ok" \/ left < 0 THEN Into("invalid", Zeroed)
      ELSE IF left < 6 THEN fields
      ELSE WithFraction(fields, ReadDecimal(SubSeq(s, at + 6, Len(s)), left - 5))

BinaryRead(s, len) ==
  LET offsetBytes == IF Stops(At(s, 1)) THEN 1 ELSE 2
  IN  IF len = 0 THEN Into("ok", Zeroed)
      ELSE ReadDate(s, len, OneOrTwo(s, Half), OneOrTwo(SubSeq(s, offsetBytes + 1, Len(s)), Group))

-----------------------------------------------------------------------------
(* What a caller sees of it, and what a caller may ask for. *)

Date(prec, fields, fraction, zoned, offset) ==
  [prec |-> prec, fields |-> fields, fraction |-> fraction, zoned |-> zoned, offset |-> offset]

Fields(t) == <<t.year, t.month, t.day, t.hours, t.minutes, t.seconds>>

(* ion_timestamp_has_local_offset, .._get_local_offset. *)
LocalOffset(t) == IF t.tz THEN t.offset ELSE 0

(* ion_timestamp_get_precision, .._get_thru_.. . *)
Getters(t) ==
  Date(t.prec, SubSeq(Fields(t), 1, Reaches(t.prec)),
       IF t.prec = Fraction THEN t.fraction ELSE DecimalZero, t.tz, LocalOffset(t))

(* The calendar, once more and from the month's name. *)
DaysOf(y, m) ==
  CASE m = 2 -> IF y % 400 = 0 \/ (y % 4 = 0 /\ y % 100 # 0) THEN 29 ELSE 28
    [] m \in {4, 6, 9, 11} -> 30
    [] OTHER -> 31

IsDate(d) ==
  LET f(k) == d.fields[k]
  IN  /\ d.prec >= Year => f(1) \in 1..9999
      /\ d.prec >= Month => f(2) \in 1..12
      /\ d.prec >= Day => f(3) \in 1..DaysOf(f(1), f(2))
      /\ d.prec >= Minute => f(4) \in 0..23 /\ f(5) \in 0..59
      /\ d.prec >= Second => f(6) \in 0..59
      /\ d.prec = Fraction => ~d.fraction.neg /\ BelowOne(d.fraction) /\ d.fraction # DecimalZero
      /\ d.offset \in -1439..1439

-----------------------------------------------------------------------------
(* The caller's operations. *)

Nothing == [known |-> FALSE, sound |-> TRUE, date |-> Getters(Zeroed)]

Init == ts = Zeroed /\ asked = Nothing

(* A call that fails may leave the value as it was or half changed; if what *)
(* was asked for is a date it must not fail.                               *)
Becomes(r, date, sound) ==
  /\ ts' = r.ts
  /\ asked' = IF r.err = "ok" THEN [known |-> TRUE, sound |-> sound, date |-> date]
              ELSE IF sound THEN [Nothing EXCEPT !.sound = FALSE]
              ELSE IF r.ts = ts THEN asked
              ELSE Nothing

(* for_minute takes the hour 24, as the end of a day; text does not.       *)
Build(r, prec, fields, f) ==
  LET date == Date(prec, fields, f, FALSE, 0)
  IN  Becomes(r, date, IsDate(date))

BuildYear(y) == Build(ForYear(ts, y), Year, <<y>>, DecimalZero)
BuildMonth(y, m) == Build(ForMonth(ts, y, m), Month, <<y, m>>, DecimalZero)
BuildDay(y, m, d) == Build(ForDay(ts, y, m, d), Day, <<y, m, d>>, DecimalZero)
BuildMinute(y, m, d, h, mi) ==
  /\ h # 24 \/ Allowed("midnight")
  /\ Build(ForMinute(ts, y, m, d, h, mi), Minute, <<y, m, d, h, mi>>, DecimalZero)
BuildSecond(y, m, d, h, mi, s) ==
  Build(ForSecond(ts, y, m, d, h, mi, s), Second, <<y, m, d, h, mi, s>>, DecimalZero)
BuildFraction(y, m, d, h, mi, s, f) ==
  LET given == f # NoFraction
  IN  Build(ForFraction(ts, y, m, d, h, mi, s, f), IF given THEN Fraction ELSE Second,
            <<y, m, d, h, mi, s>>, IF given THEN f ELSE DecimalZero)
BuildTime(y, m, d, h, mi, s) ==
  Build(ForTime(y, m, d, h, mi, s), Second, <<y, m, d, h, mi, s>>, DecimalZero)

SetOffset(minutes) ==
  /\ asked.known
  /\ Becomes(SetLocalOffset(ts, minutes), [asked.date EXCEPT !.zoned = TRUE, !.offset = minutes],
             minutes \in -1439..1439)

UnsetOffset ==
  /\ asked.known
  /\ Becomes(UnsetLocalOffset(ts), [asked.date EXCEPT !.zoned = FALSE, !.offset = 0], TRUE)

(* A text that spells a date, or that must be refused. *)
ReadText(text, date, sound) == Becomes(Parse(text, ts), date, sound)
ReadValue(text, date, sound) == Becomes(ReadTimestamp(text, ts), date, sound)

(* What can be written: not null, whose year is written 0000 and is only   *)
(* counted in bytes; nor an offset without a time, nor a fraction that is  *)
(* printed with an exponent, as text.                                      *)
HasBytes(t) == t.prec # 0 \/ Allowed("null")
HasText(t) ==
  /\ t.prec # 0 \/ Allowed("null")
  /\ ~t.tz \/ t.prec >= Minute \/ Allowed("dated offset")
  /\ t.prec = Fraction => IsPlain(t.fraction) \/ Allowed("exponent")

(* Out and in again, into the same variable: _ion_writer_text_write_       *)
(* timestamp and _ion_reader_text_read_timestamp, and the binary ones.     *)
ThroughText ==
  /\ asked.known /\ HasText(ts)
  /\ Becomes(ReadTimestamp(Append(ToText(ts).text, <<";">>), ts), asked.date, TRUE)

ThroughBytes ==
  /\ asked.known /\ HasBytes(ts)
  /\ Becomes(BinaryRead(BinaryWrite(ts), BinaryLen(ts)), asked.date, TRUE)

-----------------------------------------------------------------------------
(* A timestamp is the date it was asked to be, field by field, by a text   *)
(* or by a stream, whatever was in it before; a call is refused when it    *)
(* asks for none and only then.                                            *)
HoldsAsked == asked.sound /\ (asked.known => IsDate(asked.date) /\ Getters(ts) = asked.date)

(* ion_timestamp_equals says of a copy what the getters say.  Parsed years *)
(* and months have a first day in them that built ones have not; a time    *)
(* one second before 1970 is taken for a failure.                          *)
SaysEqual(t, u) ==
  \/ Equals(t, u) = [err |-> "ok", val |-> TRUE]
  \/ t.prec < Day /\ ~Allowed("coarse")
  \/ ToTime(t) = MinusOne /\ ~Allowed("minus one")

IsCopy(back) == back.err = "ok" /\ Getters(back.ts) = Getters(ts) /\ SaysEqual(ts, back.ts)

(* The text of a timestamp is parsed to the same one, its offset or the    *)
(* lack of one included, by itself or as a value of a document.            *)
TextTells ==
  asked.known /\ HasText(ts) =>
    LET text == ToText(ts).text
    IN  IsCopy(Parse(text, Zeroed)) /\ IsCopy(ReadTimestamp(Append(text, <<";">>), Zeroed))

(* The bytes are as many as the header says, are read to the same          *)
(* timestamp, and without their last one to none; a coefficient of one     *)
(* byte is not missed.                                                     *)
BytesTell ==
  asked.known /\ HasBytes(ts) =>
    /\ Len(BinaryWrite(ts)) = BinaryLen(ts)
    /\ IsCopy(BinaryRead(BinaryWrite(ts), BinaryLen(ts)))
    /\ \/ BinaryRead(Front(BinaryWrite(ts)), BinaryLen(ts)).err # "ok"
       \/ ts.prec = Fraction /\ LenInt(Mantissa(ts.fraction)) = 1 /\ ~Allowed("end")

=============================================================================
