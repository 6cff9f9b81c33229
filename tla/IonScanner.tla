----------------------------- MODULE IonScanner -----------------------------
(***************************************************************************)
(* ion_scanner.c: the tokens of Ion text.  A document is a sequence of     *)
(* characters, words and numbers being one each:                           *)
(*   <<"ws">>, <<"nl">>, <<"//">>, <<"/*">>, <<"*/">>   blanks, comments   *)
(*   <<c>> for c in { } [ ] ( ) , : ' " \               themselves         *)
(*   <<"word", name>>        a keyword or the characters of a symbol       *)
(*   <<"led", name>>         a symbol that begins with a whole keyword     *)
(*   <<"null", type>>, <<"bool", b>>, <<"nan">>         keywords           *)
(*   <<"num", type, i, n>>   a number: the value i, for which n bytes do   *)
(*   <<"op", name>>          an operator                                   *)
(*   <<"ch", b>>             a byte of a string or clob                    *)
(*   <<"u", bytes>>          behind \, what the escape stands for          *)
(*   <<"quad", bytes>>       four characters of base64                     *)
(* pos counts what was read.  Sub types are tuples as well.                *)
(***************************************************************************)
EXTENDS IonReading

CONSTANTS
  BufferLen,     \* _value_buffer_length
  Utf8MaxLength  \* ION_utf8_max_length

ASSUME ScannerAssumption == BufferLen \in Nat /\ Utf8MaxLength \in Nat

EndOfText == <<"eof">>

Char(s) == IF s.pos < input.size THEN input.at[s.pos + 1] ELSE EndOfText
Is(s, c) == Char(s)[1] = c
ReadChar(s) == [s EXCEPT !.pos = IF @ < input.size THEN @ + 1 ELSE @]
Ahead(s, n) == Char([s EXCEPT !.pos = @ + n])[1]

-----------------------------------------------------------------------------
(* Blanks. *)

(* The position of the next character of the kinds, or the end. *)
PosOf(s, kinds) ==
  LET found == {p \in s.pos..(input.size - 1) : input.at[p + 1][1] \in kinds}
  IN  IF found = {} THEN input.size ELSE Min(found)

Blank == {"ws", "nl"}

PastLobWhitespace(s) ==
  LET solid == {p \in s.pos..(input.size - 1) : input.at[p + 1][1] \notin Blank}
  IN  [s EXCEPT !.pos = IF solid = {} THEN input.size ELSE Min(solid)]

(* A comment counts as white space. *)
RECURSIVE PastWhitespace(_)
PastWhitespace(s) ==
  LET u == PastLobWhitespace(s)
      closed == PosOf(u, {"*/"})
  IN IF Is(u, "//") THEN PastWhitespace(ReadChar([u EXCEPT !.pos = PosOf(u, {"nl"})]))
     ELSE IF ~Is(u, "/*") THEN Ok(u, Char(u))
     ELSE IF closed = input.size THEN Fails(u, "unexpected eof")
     ELSE PastWhitespace([u EXCEPT !.pos = closed + 1])

-----------------------------------------------------------------------------
(* Sub types: what follows them, and where. *)

Closers == ("list" :> "]") @@ ("sexp" :> ")") @@ ("struct" :> "}")

BaseType(sub) ==
  CASE sub[1] \in {"eof", "}", "]", ")"} -> Eof
    [] sub[1] \in {"none", ":", ",", "{{"} -> "none"
    [] sub[1] \in {"null", "num"} -> sub[2]
    [] sub[1] \in {"quoted", "op"} -> "symbol"
    [] sub[1] \in {"string", "long string"} -> "string"
    [] sub[1] \in {"clob", "long clob", "blob"} -> "lob"
    [] sub[1] = "nan" -> "other"
    [] OTHER -> sub[1]

IsScalar(sub) == sub[1] \in {"string", "long string", "clob", "long clob", "blob", "op", "nan"}

(* IST_FOLLOW_STATE. *)
FollowState(sub) ==
  CASE sub[1] \in {"none", ":", ","} -> "error"
    [] sub[1] = "eof"                -> "eof"
    [] sub[1] \in Containers         -> "before container"
    [] IsScalar(sub)                 -> "before scalar"
    [] OTHER                         -> "after value"

(* FCF_DATAGRAM, FCF_SEXP, FCF_LIST and FCF_STRUCT. *)
MayFollow(sub, cont) ==
  LET begins == sub[1] = "{{" \/ BaseType(sub) \notin {"none", Eof}
  IN CASE cont = "datagram" -> (begins /\ sub[1] # "op") \/ sub[1] = "eof"
       [] cont = "sexp"     -> begins \/ sub[1] = ")"
       [] OTHER             -> sub[1] \in {",", Closers[cont]}

-----------------------------------------------------------------------------
(* Tokens. *)

(* _ion_scanner_reset_value. *)
ScannerResetValue(s) == [s EXCEPT !.image = <<>>, !.loc = "none", !.pending = <<>>]

At(s, loc, sub) == Ok([s EXCEPT !.loc = loc], sub)

TwoSingleQuotes(s) == Is(s, "'") /\ Ahead(s, 1) = "'"

(* _ion_scanner_next_actual.  The first character of words and operators   *)
(* is left unread.                                                         *)
NextActual(s) ==
  ThenVal(PastWhitespace(s), LAMBDA u, c :
    LET v == ReadChar(u)
    IN CASE c[1] \in {"eof", ":", "}", "[", "]", "(", ")", ","} ->
              At(v, "none", CASE c[1] = "[" -> <<"list">> [] c[1] = "(" -> <<"sexp">> [] OTHER -> c)
         [] c[1] = "{" ->
              IF Is(v, "{") THEN At(ReadChar(v), "none", <<"{{">>) ELSE At(v, "none", <<"struct">>)
         [] c[1] = "'" ->
              IF TwoSingleQuotes(v) THEN At(ReadChar(ReadChar(v)), "stream", <<"long string">>)
              ELSE At(v, "stream", <<"quoted">>)
         [] c[1] = "\"" -> At(v, "stream", <<"string">>)
         [] c[1] = "word" -> At(u, "stream", <<"symbol">>)
         [] c[1] = "op" -> At(u, "stream", <<"op">>)
         [] c[1] \in {"null", "bool", "nan"} -> At(v, "none", c)
         [] c[1] = "num" -> At([v EXCEPT !.image = <<c[3]>>], "image", c)
         \* peek_keyword unreads the end of the keyword's name as well
         [] c[1] = "led" -> Fails(v, "invalid arg")
         [] OTHER -> Fails(v, "invalid token"))

(* Mutant of ScannerUnNext: a number comes back without its image. *)
ScannerUnNextBare(s, sub) == [s EXCEPT !.unread = <<[sub |-> sub, loc |-> s.loc, image |-> <<>>]>>]

(* _ion_scanner_un_next: the token and where its value is. *)
ScannerUnNext(s, sub) ==
  [s EXCEPT !.unread = <<[sub |-> sub, loc |-> s.loc, image |-> s.image]>>]

(* _ion_scanner_next. *)
ScannerNext(s) ==
  IF s.unread = <<>> THEN NextActual(s)
  ELSE LET back == s.unread[1]
       IN Ok([s EXCEPT !.unread = <<>>, !.loc = back.loc,
                       !.image = IF back.loc = "image" THEN back.image ELSE @], back.sub)

(* _ion_scanner_next_distinguish_lob: behind the second brace. *)
DistinguishLob(s) ==
  LET u == PastLobWhitespace(s)
      v == ReadChar(u)
  IN CASE Is(u, "\"") -> At(v, "stream", <<"clob">>)
       [] Is(u, "'") /\ TwoSingleQuotes(v) -> At(ReadChar(ReadChar(v)), "stream", <<"long clob">>)
       [] Is(u, "quad") \/ (Is(u, "}") /\ Is(v, "}")) -> At(u, "stream", <<"blob">>)
       [] OTHER -> Fails(v, "bad base64")

(* _ion_scanner_peek_double_colon: a single colon is gone. *)
PeekDoubleColon(s) ==
  ThenVal(PastWhitespace(s), LAMBDA u, c :
    IF c[1] # ":" THEN Ok(u, FALSE)
    ELSE IF Ahead(u, 1) = ":" THEN Ok(ReadChar(ReadChar(u)), TRUE)
    ELSE Ok(ReadChar(u), FALSE))

-----------------------------------------------------------------------------
(* Reading the contents of strings, symbols and lobs into room bytes: the  *)
(* bytes, and whether the end was seen.                                    *)

IsLong(sub) == sub[1] \in {"long string", "long clob"}
IsClob(sub) == sub[1] \in {"clob", "long clob"}
Quote(sub)  == IF IsLong(sub) \/ sub[1] = "quoted" THEN "'" ELSE "\""

(* The byte of a character, a word or an operator. *)
ByteOf(c) == IF c[1] \in {"ch", "word", "led", "op"} THEN c[2] ELSE c[1]

(* _ion_scanner_encode_utf8_char: near the end of the buffer all of the    *)
(* room is filled, from bytes that are those of the character or, behind   *)
(* it, of one before; what did not fit is kept for the next call.          *)
Encode(s, bytes, room) ==
  IF room >= Utf8MaxLength THEN [s EXCEPT !.got = @ \o bytes]
  ELSE [s EXCEPT !.got = @ \o [i \in 1..room |-> IF i <= Len(bytes) THEN bytes[i] ELSE "stale"],
                 !.pending = SubSeq(bytes, room + 1, Len(bytes))]

(* The character behind a backslash. *)
Escaped(s, room) ==
  LET c == Char(s)  u == ReadChar(s)
  IN IF c[1] # "u" THEN [u EXCEPT !.got = Append(@, c[1])]
     ELSE IF Len(c[2]) < 2 THEN [u EXCEPT !.got = @ \o c[2]]
     ELSE Encode(u, c[2], room)

(* _ion_scanner_read_as_string_to_quote, of what got has room for. *)
RECURSIVE ReadToQuote(_, _, _)
ReadToQuote(s, sub, max) ==
  LET c == Char(s)
      u == ReadChar(s)
      room == max - Len(s.got)
  IN IF room = 0 THEN Ok(s, FALSE)
     ELSE CASE c = EndOfText -> Fails(u, "unexpected eof")
       [] c[1] = Quote(sub) /\ ~IsLong(sub) -> Ok(u, TRUE)
       [] c[1] = "'" /\ IsLong(sub) /\ TwoSingleQuotes(u) -> Ok(ReadChar(ReadChar(u)), TRUE)
       [] c[1] = "nl" /\ ~IsLong(sub) -> Fails(u, "new line in string")
       [] c[1] = "nl" /\ IsLong(sub) -> ReadToQuote(Encode(u, <<"nl">>, room), sub, max)
       [] c[1] = "\\" -> ReadToQuote(Escaped(u, room), sub, max)
       [] OTHER -> ReadToQuote([u EXCEPT !.got = Append(@, ByteOf(c))], sub, max)

(* _ion_scanner_read_cached_bytes. *)
ReadCached(s, room) ==
  LET n == Min({room, Len(s.pending)})
  IN [s EXCEPT !.got = @ \o SubSeq(s.pending, 1, n), !.pending = SubSeq(@, n + 1, Len(@))]

(* _ion_scanner_peek_for_next_triple_quote, comments not being blanks; of  *)
(* two quotes without a third, one is gone.                                *)
NextTripleQuote(s) ==
  LET u == PastLobWhitespace(s)
  IN IF Is(u, "'") /\ Ahead(u, 1) = "'"
       THEN IF Ahead(u, 2) = "'" THEN Ok([u EXCEPT !.pos = @ + 3], TRUE) ELSE Ok(ReadChar(u), FALSE)
       ELSE Ok(u, FALSE)

RECURSIVE ReadSegments(_, _, _)
ReadSegments(s, sub, max) ==
  ThenVal(ReadToQuote(ReadCached(s, max - Len(s.got)), sub, max), LAMBDA u, eos :
    IF ~eos \/ ~IsLong(sub) THEN Ok(u, eos)
    ELSE ThenVal(NextTripleQuote(u), LAMBDA v, more :
           IF more THEN ReadSegments(v, sub, max) ELSE Ok(v, TRUE)))

(* _ion_scanner_read_lob_closing_braces. *)
LobClosingBraces(s) ==
  LET u == PastLobWhitespace(s)
  IN IF Is(u, "}") /\ Ahead(u, 1) = "}" THEN Ok([u EXCEPT !.pos = @ + 2], TRUE)
     ELSE Fails(u, "invalid lob terminator")

(* At the end the value is no longer in the stream. *)
Finish(s, eos) ==
  Ok([s EXCEPT !.loc = IF eos THEN "none" ELSE @, !.got = <<>>], [bytes |-> s.got, eos |-> eos])

(* _ion_scanner_read_as_string. *)
ReadAsString(s, sub, room) ==
  LET u == [s EXCEPT !.got = <<>>]
  IN IF sub[1] \in {"symbol", "op"}
       THEN Finish([ReadChar(u) EXCEPT !.got = <<ByteOf(Char(u))>>], TRUE)
       ELSE ThenVal(ReadSegments(u, sub, room), LAMBDA v, eos :
              IF eos /\ IsClob(sub) THEN ThenVal(LobClosingBraces(v), Finish) ELSE Finish(v, eos))

(* _ion_scanner_read_as_base64.  A group of two bytes too many keeps one   *)
(* and loses one; of one too many, it takes the room below zero, so that   *)
(* all that follows is written as well.                                    *)
RECURSIVE ReadBlocks(_, _)
ReadBlocks(s, max) ==
  LET u == PastLobWhitespace(s)
      group == Char(u)[2]
      room  == max - Len(s.got)
      short == Len(group) - room
      v == [ReadChar(u) EXCEPT !.got = @ \o SubSeq(group, 1, Min({room, Len(group)}))]
  IN IF room = 0 THEN Finish(s, FALSE)
     ELSE IF Is(u, "}") THEN ThenVal(LobClosingBraces(u), Finish)
     ELSE IF ~Is(u, "quad") THEN Fails(u, "bad base64")
     ELSE IF short <= 0 THEN ReadBlocks(v, max)
     ELSE IF short = 1
       THEN ThenVal(LobClosingBraces([v EXCEPT !.pos = PosOf(v, {"}"}), !.got = Append(@, "stale")]), Finish)
     ELSE Finish([v EXCEPT !.got = Append(@, "stale"), !.pending = <<group[room + 1]>>], FALSE)

ReadAsBase64(s, room) == ReadBlocks(ReadCached([s EXCEPT !.got = <<>>], room), room)

-----------------------------------------------------------------------------
(* Skipping: "It should leave the input stream at the same point simply    *)
(* consuming the value normally would."                                    *)

(* _ion_scanner_skip_plain_string and _ion_scanner_skip_single_quoted_     *)
(* string.                                                                 *)
RECURSIVE SkipToQuote(_, _)
SkipToQuote(s, quote) ==
  LET u == ReadChar(s)
  IN CASE Char(s) = EndOfText -> Fails(s, "unexpected eof")
       [] Is(s, quote) -> Ok(u, "skipped")
       [] Is(s, "\\") -> SkipToQuote(ReadChar(u), quote)
       [] OTHER -> SkipToQuote(u, quote)

(* _ion_scanner_skip_one_long_string: what is behind one or two quotes is  *)
(* passed without looking whether it is a backslash.                       *)
RECURSIVE SkipOneLong(_)
SkipOneLong(s) ==
  LET u == ReadChar(s)
  IN CASE Char(s) = EndOfText -> Fails(s, "unexpected eof")
       [] Is(s, "'") /\ TwoSingleQuotes(u) -> Ok(ReadChar(ReadChar(u)), "skipped")
       [] Is(s, "'") /\ ~TwoSingleQuotes(u) ->
            SkipOneLong(IF Is(u, "'") THEN ReadChar(ReadChar(u)) ELSE ReadChar(u))
       [] Is(s, "\\") -> SkipOneLong(ReadChar(u))
       [] OTHER -> SkipOneLong(u)

(* _ion_scanner_skip_long_string: comments are blanks here. *)
RECURSIVE SkipLong(_)
SkipLong(s) ==
  Then(SkipOneLong(s), LAMBDA u :
    ThenVal(PastWhitespace(u), LAMBDA v, c :
      IF c[1] = "'" /\ TwoSingleQuotes(ReadChar(v)) THEN SkipLong([v EXCEPT !.pos = @ + 3])
      ELSE Ok(v, "skipped")))

(* _ion_scanner_skip_plain_clob, _ion_scanner_skip_long_clob. *)
SkipPlainClob(s) == Then(SkipToQuote(s, "\""), LobClosingBraces)
SkipLongClob(s)  == Then(SkipLong(s), LobClosingBraces)

(* _ion_scanner_skip_blob. *)
RECURSIVE SkipBlob(_)
SkipBlob(s) ==
  LET u == [s EXCEPT !.pos = PosOf(s, {"}"})]
  IN IF Char(u) = EndOfText THEN Fails(u, "unexpected eof")
     ELSE IF Ahead(u, 1) = "}" THEN Ok([u EXCEPT !.pos = @ + 2], "skipped")
     ELSE SkipBlob(ReadChar(ReadChar(u)))

(* _ion_scanner_skip_unknown_lob: goes on to the next braces behind a clob *)
(* whose braces are gone.                                                  *)
RECURSIVE SkipUnknownLob(_)
SkipUnknownLob(s) ==
  LET u == PastLobWhitespace(s)
      v == ReadChar(u)
  IN CASE Char(u) = EndOfText -> Fails(u, "unexpected eof")
       [] Is(u, "'") -> Then(SkipToQuote(v, "'"), SkipUnknownLob)
       [] Is(u, "\"") -> Then(SkipPlainClob(v), SkipUnknownLob)
       [] Is(u, "}") -> IF Is(v, "}") THEN Ok(ReadChar(v), "skipped") ELSE SkipUnknownLob(ReadChar(v))
       [] OTHER -> SkipUnknownLob(v)

(* _ion_scanner_skip_container: the character behind an opening brace is   *)
(* passed, whatever it begins; so is the one behind a single quote.        *)
RECURSIVE SkipContainer(_, _)
SkipContainer(s, close) ==
  LET Again(u) == SkipContainer(u, close)
  IN ThenVal(PastWhitespace(s), LAMBDA u, c :
       LET v == ReadChar(u)
       IN CASE c = EndOfText -> Fails(u, "unexpected eof")
            [] c[1] = close -> Ok(v, "skipped")
            [] c[1] = "\"" -> Then(SkipToQuote(v, "\""), Again)
            [] c[1] = "'" /\ TwoSingleQuotes(v) -> Then(SkipOneLong(ReadChar(ReadChar(v))), Again)
            [] c[1] = "'" /\ ~Is(v, "'") -> Then(SkipToQuote(ReadChar(v), "'"), Again)
            [] c[1] = "'" /\ Is(v, "'") /\ Ahead(v, 1) # "'" -> Again(ReadChar(v))
            [] c[1] = "{" /\ Is(v, "{") -> Then(SkipUnknownLob(ReadChar(v)), Again)
            [] c[1] = "{" /\ Is(v, "}") -> Again(ReadChar(v))
            [] c[1] = "{" /\ Char(v)[1] \notin {"{", "}"} -> Then(SkipContainer(ReadChar(v), "}"), Again)
            [] c[1] = "[" -> Then(SkipContainer(v, "]"), Again)
            [] c[1] = "(" -> Then(SkipContainer(v, ")"), Again)
            [] OTHER -> Again(v))

(* _ion_scanner_skip_value_contents: of what is still in the stream. *)
SkipValueContents(s, sub) ==
  LET skipped ==
        CASE sub[1] = "string"      -> SkipToQuote(s, "\"")
          [] sub[1] = "long string" -> SkipLong(s)
          [] sub[1] = "clob"        -> SkipPlainClob(s)
          [] sub[1] = "long clob"   -> SkipLongClob(s)
          [] sub[1] = "blob"        -> SkipBlob(s)
          [] sub[1] \in Containers  -> SkipContainer(s, Closers[sub[1]])
          [] sub[1] = "eof"         -> Ok(s, "skipped")
          [] OTHER                  -> Fails(s, "parser internal")
  IN IF s.loc # "stream" /\ sub[1] \notin Containers THEN Ok(s, "skipped")
     ELSE Then(skipped, LAMBDA u : Ok([u EXCEPT !.loc = "none"], "skipped"))

=============================================================================
