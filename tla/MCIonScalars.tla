----------------------------- MODULE MCIonScalars -----------------------------
(* Numbers, whose widths are scaled down, and dates, whose bytes have eight *)
(* bits.  The two share nothing: a caller starts with one or the other.     *)
EXTENDS Naturals

CONSTANTS ByteBits, WordBits, LongBits, Shift, Slack, Piece, MaxFields, Careless
VARIABLES int, val, wire, sent, cut, res, ts, asked

Numbers == INSTANCE MCIonNumbers
Dates == INSTANCE MCIonTimestamp WITH ByteBits <- 8, WordBits <- 16, LongBits <- 24

ASSUME Numbers!NumbersAssumption /\ Numbers!IntAssumption /\ Dates!NumbersAssumption

MCInit == Numbers!Init /\ Dates!Init
MCNext ==
  \/ Dates!Init /\ Numbers!MCNext /\ UNCHANGED <<ts, asked>>
  \/ Numbers!Init /\ Dates!MCNext /\ UNCHANGED <<int, val, wire, sent, cut, res>>

MCSpec == MCInit /\ [][MCNext]_<<int, val, wire, sent, cut, res, ts, asked>>

FieldsArrive == Numbers!FieldsArrive
LengthsHold == Numbers!LengthsHold
ValueKept == Numbers!ValueKept
ConvertsBack == Numbers!ConvertsBack
HoldsAsked == Dates!HoldsAsked
TextTells == Dates!TextTells
BytesTell == Dates!BytesTell
=============================================================================
