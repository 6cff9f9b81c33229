----------------------------- MODULE MCIonNumbers -----------------------------
(* Numbers at every boundary of bytes, groups, digits and widths.           *)
EXTENDS IonScalars

Edges == {2^k : k \in {0, 3, 4, 7, 8, 14, 15, 16, 24}}
Naturals == {0, 9, 10, 99} \cup UNION {{e - 1, e, e + 1} : e \in Edges}
Integer == Naturals \cup {-n : n \in Naturals}
Longs == {n \in Integer : -HighBit <= n /\ n < HighBit}
ULongs == {n \in Naturals : n < 2^LongBits}

Text(sign, digits, junk) == [sign |-> sign, digits |-> digits, junk |-> junk]
Spelling(n, b) == Text(IF n < 0 THEN "-" ELSE "", Places(AbsLong(n), b), FALSE)
Odd == {Text("", << >>, FALSE), Text("-", << >>, FALSE), Text("+", << >>, TRUE),
        Text("+", <<7>>, FALSE), Text("", <<0, 0, 3>>, FALSE), Text("-", <<0, 9, 8>>, FALSE),
        Text("", <<3, 4, 5>>, TRUE), Text("", << >>, TRUE)}
ByteStrings ==
  {WriteInt(n, FALSE) : n \in Longs} \cup {<<0, 0, 8>>, <<15, 15, 7>>, <<15, 15, 15>>, <<0, 0>>}
Decimals ==
  {Decimal(neg, c, e) : neg \in BOOLEAN, c \in {0, 1, 8, 127, 255, 4095, 40000},
                        e \in {0, 4, -32, 127}}

(* Numbers as tokens: in few digits or, hexadecimal, in many.               *)
Sign(n) == IF n < 0 THEN <<<<"-">>>> ELSE << >>
DecimalText(n) == Sign(n) \o <<Digits(Len(Places(AbsLong(n), 10)), AbsLong(n))>>
HexText(n, width) ==
  Sign(n) \o <<Digits(1, 0), <<"x">>, <<"h", Max({width, Len(Places(AbsLong(n), 16))}), AbsLong(n)>>>>
Spellings(n) == {DecimalText(n), HexText(n, 1), HexText(n, 8)}
NoInts ==
  {<<Digits(3, 7)>>, <<<<"-">>, Digits(2, 0)>>, <<Digits(1, 1), <<".">>, Digits(1, 5)>>,
   <<Digits(2, 12), <<"d">>, <<"-">>, Digits(1, 3)>>, <<Digits(1, 1), <<"e">>, Digits(1, 3)>>,
   <<Digits(1, 0), <<".">>, <<"e">>>>, <<Digits(4, 2000), <<"T">>>>, <<Digits(2, 20), <<"T">>>>,
   <<Digits(1, 5), <<"x">>, <<"h", 2, 31>>>>, <<Digits(1, 0), <<"x">>>>, <<<<"-">>, Digits(1, 0), <<"x">>>>}
Wanted == {"int32", "int64", "mixed", "big"}

Fields(form) ==
  CASE form = "decimal" -> Decimals
    [] form \in {"var uint", "uint", "float"} -> ULongs
    [] OTHER -> Longs

(* While something waits on the wire, or was just read, the ION_INT takes   *)
(* only these.                                                              *)
Between == {0, -99, 2^23}
Quiet == sent = << >> /\ res = NoRead

(* The numbers that do not go through an ION_INT are written while it is    *)
(* null, and one of them may have one more behind it.                       *)
MCNext ==
  \/ Quiet /\ \E n \in Integer : ParseDecimal(Spelling(n, 10)) \/ ParseHex(Spelling(n, 16))
  \/ \E n \in Between : ParseDecimal(Spelling(n, 10))
  \/ Quiet /\ \E t \in Odd : ParseDecimal(t) \/ ParseHex(t)
  \/ Quiet /\ \E b \in ByteStrings : LoadBytes(b) \/ \E neg \in BOOLEAN : LoadAbsBytes(b, neg)
  \/ Quiet /\ \E v \in Longs : LoadLong(v)
  \/ Quiet /\ \E d \in Decimals : LoadDecimal(d)
  \/ Quiet /\ \E n \in IF int = NullInt THEN Integer ELSE Between, into \in Wanted :
       \E text \in Spellings(n) : ReadTextInt(text, n, into)
  \/ Quiet /\ int = NullInt /\ \E into \in Wanted :
       ReadTextInt(<<Digits(2, 12), <<"x">>>>, 12, into) \/ \E text \in NoInts : ReadTextOther(text, into)
  \/ Quiet /\ int = NullInt /\ \E v \in Longs, into \in Wanted : LongThroughText(v, into)
  \/ Quiet /\ IntThroughText
  \/ WriteIonInt
  \/ Quiet /\ int = NullInt /\ \E form \in {"var uint", "var int", "uint", "int", "float", "decimal", "field"} :
       \E v \in Fields(form) : WriteField(form, v)
  \/ int = NullInt /\ WriteField("var uint", 9)
  \/ Cut
  \/ Read
=============================================================================
