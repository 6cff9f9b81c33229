---------------------------- MODULE MCIonTimestamp ----------------------------
(* Dates at every end of the calendar, of the clock and of the encodings.   *)
EXTENDS IonTimestamp

Years == {0, 1, 127, 128, 1900, 1969, 2000, 2004, 2023, 9999, 10000}
Months == {0, 1, 2, 4, 12, 13}
Days == {0, 1, 28, 29, 30, 31, 32}
Calendar == {1900, 2000, 2004, 2023, 9999} \X {1, 2, 4} \X Days
Dates == {<<1, 1, 1>>, <<2000, 2, 29>>, <<1969, 12, 31>>, <<1970, 1, 1>>, <<2023, 2, 29>>}
Clock == {<<0, 0>>, <<23, 59>>, <<24, 0>>, <<25, 0>>, <<12, 60>>, <<-1, 0>>, <<0, -1>>}
Times == {<<0, 0, 0>>, <<23, 59, 59>>, <<23, 59, 60>>, <<12, 30, -1>>}
Offsets == {0, 59, 60, 63, 64, 1439, 1440}
Fractions ==
  {NoFraction, DecimalZero, Decimal(TRUE, 5, -1)}
  \cup {Decimal(FALSE, c[1], c[2]) : c \in {<<0, -1>>, <<0, 3>>, <<5, -1>>, <<25, -2>>, <<50, -2>>,
                                            <<10, -1>>, <<1, -7>>, <<127, -3>>, <<128, -3>>,
                                            <<255, -64>>, <<9, -6>>}}

(* A date as text: the fields, what is behind them, the zone and the end.   *)
Separators == <<"-", "-", "T", ":", ":">>
Written(fields, f) ==
  FlattenSeq([k \in 1..Len(fields) |->
                (IF k = 1 THEN << >> ELSE <<<<Separators[k - 1]>>>>)
                \o <<Digits(IF k = 1 THEN 4 ELSE 2, fields[k])>>])
  \o IF f = NoFraction THEN << >> ELSE <<<<".">>, Digits(-f.exp, f.coef)>>

Zones ==
  {[text |-> <<<<"Z">>>>, zoned |-> TRUE, offset |-> 0],
   [text |-> <<<<"-">>, Digits(2, 0), <<":">>, Digits(2, 0)>>, zoned |-> FALSE, offset |-> 0],
   [text |-> <<<<"+">>, Digits(2, 0), <<":">>, Digits(2, 0)>>, zoned |-> TRUE, offset |-> 0],
   [text |-> <<<<"+">>, Digits(2, 5), <<":">>>>, zoned |-> TRUE, offset |-> 300],
   [text |-> <<<<"+">>, Digits(2, 23), <<":">>, Digits(2, 59)>>, zoned |-> TRUE, offset |-> 1439],
   [text |-> <<<<"-">>, Digits(2, 0), <<":">>, Digits(2, 1)>>, zoned |-> TRUE, offset |-> -1],
   [text |-> <<<<"-">>, Digits(2, 24), <<":">>, Digits(2, 0)>>, zoned |-> TRUE, offset |-> -1440],
   [text |-> <<<<"+">>, Digits(2, 0), <<":">>, Digits(2, 60)>>, zoned |-> TRUE, offset |-> 9999]}
Unzoned == [text |-> << >>, zoned |-> FALSE, offset |-> 0]

(* Its precision; only a time has a zone, and it must.  A zone that stops   *)
(* at hh: is one for the parser alone.                                      *)
PrecOf(fields, f) == IF f # NoFraction THEN Fraction ELSE <<1, 2, 3, 0, 4, 5>>[Len(fields)]
Spells(fields, f, zone) ==
  LET prec == PrecOf(fields, f)
      date == Date(prec, fields, IF f = NoFraction THEN DecimalZero ELSE f, zone.zoned, zone.offset)
  IN  [date |-> date, sound |-> IsDate(date) /\ (prec >= Minute <=> zone.text # << >>),
       text |-> Written(fields, f) \o (IF prec <= Month THEN <<<<"T">>>> ELSE << >>) \o zone.text]

ReadSpelled(fields, f, zone, tail) ==
  LET s == Spells(fields, f, zone) IN ReadText(s.text \o tail, s.date, s.sound)
ValueSpelled(fields, f, zone) ==
  LET s == Spells(fields, f, zone)
  IN  ReadValue(Append(s.text, <<";">>), s.date, s.sound /\ Len(zone.text) # 3)

Spelled ==
  Calendar \cup {<<y>> : y \in {0, 1, 1969, 9999}} \cup {<<2000, m>> : m \in Months}
  \cup {d \o c : d \in Dates, c \in {<<0, 0>>, <<23, 59>>, <<24, 0>>, <<12, 60>>}}
  \cup {d \o c : d \in Dates, c \in {<<0, 0, 0>>, <<23, 59, 59>>, <<23, 59, 60>>}}

(* Texts that are no date at all. *)
NoDate == Date(0, << >>, DecimalZero, FALSE, 0)
Odd ==
  LET day == Written(<<2000, 2, 29>>, NoFraction)
      time == Written(<<2000, 2, 29, 23, 59>>, NoFraction)
  IN  {<< >>, <<<<";">>>>, <<Digits(4, 2000)>>, <<Digits(3, 200), <<"T">>>>,
       <<Digits(4, 2000), <<"-">>, Digits(2, 1)>>, day \o <<<<"-">>>>,
       day \o <<<<"T">>, Digits(2, 23)>>, time, time \o <<<<"Z">>, <<"Z">>>>,
       time \o <<<<":">>>>, time \o <<<<":">>, Digits(2, 1), <<".">>, <<"Z">>>>,
       time \o <<<<"+">>, Digits(2, 5)>>, time \o <<<<"+">>, Digits(2, 5), <<":">>, Digits(1, 0)>>,
       <<Digits(4, 2000), <<"T">>, Digits(2, 23), <<":">>, Digits(2, 59), <<"Z">>>>,
       <<Digits(5, 20000), <<"T">>>>, <<<<"-">>, Digits(4, 2000), <<"T">>>>, <<Digits(4, 2000), <<"-">>>>,
       day \o <<<<"Z">>>>, day \o <<<<"T">>, <<"x">>>>, time \o <<<<".">>, Digits(1, 5), <<"Z">>>>,
       <<<<"null">>>>}

(* A full timestamp, whose fields must not shine through what comes next.   *)
Full == asked.known /\ ts.prec = Fraction /\ ts.tz /\ ts.offset = 1439 /\ ts.year = 2000
Fresh == ts = Zeroed \/ Full

MCNext ==
  \/ Fresh /\ \E y \in Years : BuildYear(y)
  \/ Fresh /\ \E y \in {0, 2000}, m \in Months : BuildMonth(y, m)
  \/ Fresh /\ \E d \in Calendar : BuildDay(d[1], d[2], d[3])
  \/ Fresh /\ \E d \in Dates, c \in Clock : BuildMinute(d[1], d[2], d[3], c[1], c[2])
  \/ Fresh /\ \E d \in Dates, c \in Times : BuildSecond(d[1], d[2], d[3], c[1], c[2], c[3])
  \/ Fresh /\ \E d \in Dates, f \in Fractions : BuildFraction(d[1], d[2], d[3], 23, 59, 59, f)
  \/ Fresh /\ \E d \in Dates \ {<<2023, 2, 29>>} : BuildTime(d[1], d[2], d[3], 23, 59, 59)
  \/ Fresh /\ \E s \in Spelled, zone \in Zones \cup {Unzoned} : ReadSpelled(s, NoFraction, zone, << >>)
  \/ Fresh /\ \E s \in Spelled : ReadSpelled(s, NoFraction,
                                   IF Len(s) > 3 THEN CHOOSE z \in Zones : z.offset = 1439 ELSE Unzoned,
                                   <<<<";">>>>)
  \/ Fresh /\ \E d \in Dates, f \in {Decimal(FALSE, 0, -1), Decimal(FALSE, 25, -2)}, zone \in Zones :
       ReadSpelled(d \o <<23, 59, 59>>, f, zone, << >>)
  \/ Fresh /\ \E s \in Spelled, zone \in Zones \cup {Unzoned} : ValueSpelled(s, NoFraction, zone)
  \/ Fresh /\ \E d \in Dates, zone \in Zones : ValueSpelled(d \o <<23, 59, 59>>, Decimal(FALSE, 25, -2), zone)
  \/ Fresh /\ \E text \in Odd : ReadText(text, NoDate, FALSE) \/ ReadValue(text, NoDate, FALSE)
  \/ Fresh /\ ReadText(<<<<"null">>, <<";">>>>, NoDate, TRUE)
  \/ \E n \in Offsets : SetOffset(n) \/ SetOffset(-n)
  \/ UnsetOffset
  \/ ThroughText
  \/ ThroughBytes
=============================================================================
