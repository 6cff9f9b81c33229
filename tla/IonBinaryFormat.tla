--------------------------- MODULE IonBinaryFormat ---------------------------
(***************************************************************************)
(* The bytes of binary Ion, as far as lengths can tell them apart: a       *)
(* sequence of tokens, each with a width in bytes.                         *)
(*   <<"td", type, n>>       a type descriptor with its low nibble         *)
(*   <<"var", n>>            a VarUInt: a length, a field's symbol id      *)
(*   <<"sids", s>>           the VarUInts of an annotation list            *)
(*   <<"bytes", n>>          n bytes of a scalar or of a lob               *)
(*   <<"int", i, n>>         an integer in its n bytes                     *)
(*   <<"text", name, c>>     a string, whose bytes are c                   *)
(*   <<"sid", i, n>>         a symbol's id in its n bytes                  *)
(*   <<"ivm">>               the version marker                            *)
(*   <<"symtab", i, l>>      a local symbol table: imported, local names   *)
(* VarLen and Digit are 14 and 128 in the code; small values make every    *)
(* boundary of the lengths cheap to reach.                                 *)
(***************************************************************************)
EXTENDS Integers, SequencesExt, IonNames

CONSTANTS
  VarLen,      \* ION_lnIsVarLen: lengths from here on have their own VarUInt
  Digit        \* what one byte of a VarUInt counts to

ASSUME FormatAssumption ==
  VarLen \in Nat \ {0} /\ Digit \in Nat /\ Digit > 1

(* ion_binary_len_var_uint_64: one digit, and another for each that n       *)
(* overflows; ten of them hold 64 bits.                                    *)
LenVarUint(n) == 1 + Cardinality({ k \in 1..9 : \A j \in 1..k : n >= Digit^j })

(* The width of a list of VarUInts. *)
LenAll(sids) == FoldLeft(LAMBDA n, sid : n + LenVarUint(sid), 0, sids)

(* A symbol id written as a plain integer takes one byte up to 255.        *)
LenSid(sid) == 1

Width(tok) ==
  CASE tok[1] = "td"    -> 1
    [] tok[1] = "var"   -> LenVarUint(tok[2])
    [] tok[1] = "sids"  -> LenAll(tok[2])
    [] tok[1] = "bytes" -> tok[2]
    [] tok[1] = "sid"   -> tok[3]
    [] tok[1] = "int"   -> tok[3]
    [] tok[1] = "text"  -> Len(tok[3])
    [] tok[1] = "ivm"   -> 4

WidthAll(toks) == FoldLeft(LAMBDA n, tok : n + Width(tok), 0, toks)

NullLen == VarLen + 1  \* ION_lnIsNull

(* ion_binary_write_type_desc_with_length. *)
Header(type, n) ==
  IF n < VarLen THEN << <<"td", type, n>> >>
                ELSE << <<"td", type, VarLen>>, <<"var", n>> >>

HeaderWidth(n) == IF n < VarLen THEN 1 ELSE 1 + LenVarUint(n)

=============================================================================
