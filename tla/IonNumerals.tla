----------------------------- MODULE IonNumerals -----------------------------
(***************************************************************************)
(* Numbers and dates as text, up to where ion_scanner.c finds their end.   *)
(*                                                                         *)
(* A text is a sequence of tokens: <<"n", width, value>> for decimal       *)
(* digits, <<"h", width, value>> for hexadecimal ones, <<";">> for a       *)
(* character that may end a timestamp, and one of its own for each of      *)
(* - + . : T Z x d e  and "null".  The buffer for a value is long enough.  *)
(***************************************************************************)
EXTENDS IonNumbers

Digits(width, value) == <<"n", width, value>>

Token(text, i) == IF i <= Len(text) THEN text[i] ELSE <<"end">>
Is(text, i, c) == Token(text, i) = <<c>>
IsDigits(text, i) == Token(text, i)[1] = "n"
IsInt(text, i, width) == IsDigits(text, i) /\ Token(text, i)[2] = width
IsSign(text, i) == Is(text, i, "-") \/ Is(text, i, "+")
Ends(text, i) == Is(text, i, "end") \/ Is(text, i, ";")

(* The tokens that are the value's image, or why there is none. *)
Scan(err, type, used) == [err |-> err, type |-> type, used |-> used]
NoScan(err) == Scan(err, "none", 0)

-----------------------------------------------------------------------------
(* Timestamps.  The scanner wants digits in pairs and a zone behind a time, *)
(* but takes a time behind a year, a zone behind a date, an offset without *)
(* its minutes and a point without a fraction.                             *)

PastDigits(text, i) == IF IsDigits(text, i) THEN i + 1 ELSE i

PastDate(text) == IF ~Is(text, 2, "-") THEN 2 ELSE IF ~Is(text, 4, "-") THEN 4 ELSE 6
DateInPlace(text) == \A i \in {3, 5} : i < PastDate(text) => IsInt(text, i, 2)

PastTime(text, i) ==
  CASE ~Is(text, i + 3, ":") -> i + 3
    [] Is(text, i + 3, ":") /\ ~Is(text, i + 5, ".") -> i + 5
    [] OTHER -> PastDigits(text, i + 6)
TimeInPlace(text, i) ==
  /\ IsInt(text, i, 2) /\ Is(text, i + 1, ":") /\ IsInt(text, i + 2, 2)
  /\ Is(text, i + 3, ":") => IsInt(text, i + 4, 2)

PastZone(text, i) ==
  CASE Is(text, i, "Z") -> i + 1
    [] IsSign(text, i) -> IF Is(text, i + 2, ":") THEN i + 4 ELSE i + 2
    [] OTHER -> i
ZoneInPlace(text, i, timed) ==
  IF IsSign(text, i) THEN IsInt(text, i + 1, 2) /\ (Is(text, i + 2, ":") => IsInt(text, i + 3, 2))
  ELSE timed => Is(text, i, "Z")

(* Behind a T there may be nothing. *)
ScanTimestamp(text) ==
  LET hours == PastDate(text) + 1
      bare == Is(text, hours - 1, "T") /\ ~IsDigits(text, hours)
      timed == Is(text, hours - 1, "T") /\ ~bare
      zone == IF timed THEN PastTime(text, hours) ELSE hours - 1
      end == IF bare THEN hours ELSE PastZone(text, zone)
  IN  IF /\ DateInPlace(text)
         /\ timed => TimeInPlace(text, hours)
         /\ bare \/ ZoneInPlace(text, zone, timed)
         /\ Ends(text, end)
      THEN Scan("ok", "timestamp", end - 1)
      ELSE NoScan("invalid timestamp")

-----------------------------------------------------------------------------
(* Numbers: whatever begins with a digit, behind a sign or not. *)

(* _ion_scanner_read_exponent, which may find none. *)
PastExponent(text, i) == PastDigits(text, IF IsSign(text, i) THEN i + 1 ELSE i)

(* Digits that are not a year's; i is behind them. *)
ScanReal(text, i) ==
  LET point == IF Is(text, i, ".") THEN PastDigits(text, i + 1) ELSE i
  IN  CASE Is(text, point, "d") -> Scan("ok", "decimal", PastExponent(text, point + 1) - 1)
        [] Is(text, point, "e") -> Scan("ok", "float", PastExponent(text, point + 1) - 1)
        [] OTHER -> Scan("ok", IF point = i THEN "int" ELSE "decimal", point - 1)

(* _ion_scanner_read_possible_number.  Any one digit may be in front of x, *)
(* and none behind it.                                                     *)
ScanNumber(text) ==
  LET neg == Is(text, 1, "-")
      at == IF neg THEN 2 ELSE 1
      width == text[at][2]
      zero == text[at][3] < 10^(width - 1) /\ width > 1
  IN  CASE width = 1 /\ Is(text, at + 1, "x") ->
             Scan("ok", "hex", IF Token(text, at + 2)[1] = "h" THEN at + 2 ELSE at + 1)
        [] Is(text, at + 1, "-") \/ Is(text, at + 1, "T") ->
             IF neg \/ width # 4 THEN NoScan("invalid timestamp") ELSE ScanTimestamp(text)
        [] OTHER -> IF zero THEN NoScan("leading zeros") ELSE ScanReal(text, at + 1)
=============================================================================
