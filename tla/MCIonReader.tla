---------------------------- MODULE MCIonReader ----------------------------
EXTENDS IonReader

MCSystemNames == << "$ion", "$ion_1_0", "$ion_symbol_table", "name", "version", "imports",
                    "symbols", "max_id", "$ion_shared_symbol_table" >>

(* Values. *)
Val(type, field, anns, body) == [type |-> type, field |-> field, anns |-> anns, body |-> body]
Nul(type, field, anns) == [type |-> type, field |-> field, anns |-> anns, null |-> TRUE]
Str(field, name, bytes) == Val("string", field, <<>>, <<name, bytes>>)
Num(field, i, n) == Val("int", field, <<>>, <<i, n>>)

(* Characters of one, two and three bytes. *)
C1 == <<0>>
C2 == <<1, -1>>
C3 == <<2, -1, -1>>

(* A local symbol table as a value of the document, under the system's.    *)
Strings(names) == [i \in DOMAIN names |-> Str("none", names[i], C1)]
ImportStruct(i) ==
  Val("struct", "none", <<>>, << Str("name", i.name, C1), Num("version", 1, 1), Num("max_id", i.maxId, 1) >>)
TableValue(anns, imports, names) ==
  Val("struct", "none", anns,
      << Val("list", "imports", <<>>, [i \in DOMAIN imports |-> ImportStruct(imports[i])]),
         Num("max_id", 11, 1),
         Val("list", "symbols", <<"name">>, <<Num("none", 1, 1)>> \o Strings(names)) >>)
Under(imports, locals) == [open |-> TRUE, imports |-> imports, locals |-> locals]
TableToks(anns, imports, names) == EncodeValues(<<TableValue(anns, imports, names)>>, NoTable)
Alone == <<"$ion_symbol_table">>
Among == <<"name", "$ion_symbol_table", "version">>

Ivm == << <<"ivm">> >>
Doc(toks, values) == [toks |-> toks, values |-> values, tableLast |-> FALSE]
EndingInTable(doc) == [doc EXCEPT !.tableLast = TRUE]

(* Containers in containers, annotated, with and without contents. *)
Nested ==
  << Val("struct", "none", <<"a", "b">>,
         << Val("list", "b", <<"a">>, << Str("none", "text", C1 \o C3 \o C2), Nul("list", "none", <<>>) >>),
            Val("sexp", "a", <<>>, <<>>),
            Val("symbol", "c", <<"c">>, "a") >>),
     Val("symbol", "none", <<>>, "c") >>

(* The same names under other numbers, after a second table. *)
Renumbered == << Val("symbol", "none", <<"a">>, "c"), Nul("struct", "none", <<"b">>) >>

Scalars ==
  << Num("none", 1, 1), Num("none", 2, 2), Num("none", 3, 3), Num("none", 0, 0),
     Nul("int", "none", <<>>), Nul("string", "none", <<"name">>), Nul("null", "none", <<>>),
     Val("bool", "none", <<"name">>, 1), Nul("bool", "none", <<>>), Val("other", "none", <<>>, 7),
     Val("lob", "none", <<"version">>, 3), Nul("lob", "none", <<>>), Val("lob", "none", <<>>, 0),
     Str("none", "empty", <<>>), Nul("symbol", "none", <<>>), Val("list", "none", <<"$ion_symbol_table">>, <<>>) >>

(* Four levels, with lengths that take a VarUInt of one and of two bytes.  *)
Deep ==
  << Val("list", "none", <<"name">>,
         << Val("struct", "none", <<>>,
                << Str("name", "long", C1 \o C2 \o C3 \o C3 \o C1 \o C2),
                   Val("list", "version", <<"version", "name">>,
                       << Val("sexp", "none", <<>>, << Val("lob", "none", <<"name">>, 5) >>),
                          Num("none", 1, 1) >>) >>),
            Val("bool", "none", <<>>, 0) >>),
     Val("struct", "none", <<>>, <<>>) >>

(* A struct whose length has a VarUInt although it is short. *)
OrderedStruct == << <<"td", "struct", 1>>, <<"var", 3>>, <<"var", 4>>, <<"td", "int", 1>>, <<"int", 5, 1>> >>
OrderedValue == Val("struct", "none", <<>>, << Num("name", 5, 1) >>)

MCDocuments ==
  << EndingInTable(Doc(Ivm \o TableToks(Alone, <<>>, <<"a", "b", "c">>) \o EncodeValues(Nested, Under(<<>>, <<"a", "b", "c">>))
           \o TableToks(Alone, <<>>, <<"c", "b", "a">>) \o EncodeValues(Renumbered, Under(<<>>, <<"c", "b", "a">>))
           \o Ivm \o EncodeValues(<<Val("symbol", "none", <<>>, "name")>>, NoTable)
           \o TableToks(Alone, <<>>, <<"b">>),
         Nested \o Renumbered \o <<Val("symbol", "none", <<>>, "name")>>)),
     Doc(Ivm \o TableToks(Among, <<[name |-> "s", maxId |-> 2]>>, <<"c">>)
           \o EncodeValues(Nested, Under(<<"a", "b">>, <<"c">>)) \o OrderedStruct,
         Nested \o <<OrderedValue>>),
     Doc(Ivm \o EncodeValues(Scalars, NoTable), Scalars),
     Doc(Ivm \o EncodeValues(Deep, NoTable) \o Ivm, Deep) >>

MCShared == "s" :> [T!EmptyTable EXCEPT !.name = "s", !.version = 1, !.maxId = 2,
                      !.symbols = << [value |-> "a", sid |-> 1, home |-> 2],
                                     [value |-> "b", sid |-> 2, home |-> 2] >>]

-----------------------------------------------------------------------------
(* Text. *)

WS == <<"ws">>
NL == <<"nl">>
Word(name) == <<"word", name>>
TInt(i, n)  == <<"num", "int", i, n>>
Chars(names) == [i \in DOMAIN names |-> <<"ch", names[i]>>]
Quoted(chars) == << <<"\"">> >> \o chars \o << <<"\"">> >>
Single(chars) == << <<"'">> >> \o chars \o << <<"'">> >>
Long(chars) == Single(Single(Single(chars)))
Lob(chars) == << <<"{">>, <<"{">> >> \o chars \o << <<"}">>, <<"}">> >>
ListOf(chars) == << <<"[">> >> \o chars \o << <<"]">> >>
SexpOf(chars) == << <<"(">> >> \o chars \o << <<")">> >>
StructOf(chars) == << <<"{">>, WS >> \o chars \o << <<"}">> >>
Anns(names) == FlattenSeq([i \in DOMAIN names |-> << Word(names[i]), <<":">>, <<":">> >>])
Field(name) == << Word(name), <<":">>, WS >>
Comma == << <<",">>, NL >>
Comment == << <<"/*">>, <<"]">>, <<"'">>, <<"*/">> >>
LineComment == << <<"//">>, <<"}">>, <<"\"">>, NL >>
Escape(bytes) == << <<"\\">>, <<"u", bytes>> >>

TText(field, anns, bytes) == Val("string", field, anns, <<"text", bytes>>)
TBytes(type, field, anns, bytes) == Val(type, field, anns, 0) @@ [bytes |-> bytes]
TDoc(chars, values) == [chars |-> chars, values |-> values]

TextMarker == << Word("$ion_1_0"), NL >>
TextTable(imports, names) ==
  Anns(<<"$ion_symbol_table">>)
    \o StructOf(Field("imports")
        \o ListOf(FlattenSeq([i \in DOMAIN imports |->
             StructOf(Field("name") \o Quoted(Chars(<<imports[i].name>>)) \o Comma
               \o Field("version") \o <<TInt(1, 1)>> \o Comma \o Field("max_id") \o <<TInt(imports[i].maxId, 1)>>)]))
        \o Comma \o Field("symbols")
        \o ListOf(FlattenSeq([i \in DOMAIN names |-> Quoted(Chars(<<names[i]>>)) \o Comma])))
    \o <<NL>>

(* Containers in containers, with fields, annotations and brackets where   *)
(* they are none.                                                          *)
TextNested ==
  TDoc(TextMarker \o TextTable(<<[name |-> "s", maxId |-> 2]>>, <<"c">>)
         \o Anns(<<"a", "b">>)
         \o StructOf(Field("b") \o Anns(<<"a">>)
               \o ListOf(Quoted(Chars(<<"x">>) \o << <<"]">> >> \o Escape(<<"e1", "e2">>)) \o Comment \o Comma
                          \o << <<"null", "list">> >>) \o Comma
               \o Quoted(Chars(<<"a">>)) \o << <<":">> >> \o SexpOf(<<>>) \o Comma
               \o Field("c") \o Anns(<<"c">>) \o Single(Chars(<<"a">>)) \o <<WS>>)
         \o <<WS>> \o TextTable(<<>>, <<"c", "b">>) \o LineComment \o <<Word("c")>>,
       << Val("struct", "none", <<"a", "b">>,
              << Val("list", "b", <<"a">>,
                     << TText("none", <<>>, <<"x", "]", "e1", "e2">>), Nul("list", "none", <<>>) >>),
                 Val("sexp", "a", <<>>, <<>>),
                 Val("symbol", "c", <<"c">>, "a") >>),
          Val("symbol", "none", <<>>, "c") >>)

(* Scalars, and their nulls. *)
TextScalars ==
  TDoc(<<TInt(1, 1), WS, TInt(2, 2), NL, TInt(3, 3), WS, <<"null", "string">>, WS, <<"null", "null">>, WS,
         <<"bool", 1>>, WS, <<"num", "other", 7, 8>>, WS, <<"nan">>, WS>>
         \o Anns(<<"name">>) \o Quoted(<<>>) \o <<WS>>
         \o Quoted(Chars(<<"x">>) \o Escape(<<"e1", "e2", "e3">>) \o << <<"\\">>, <<"\"">> >> \o Escape(<<"n">>))
         \o <<NL>> \o Long(Chars(<<"x">>) \o << NL, <<"'">> >> \o Chars(<<"y">>)) \o <<NL>> \o Long(Chars(<<"z">>))
         \o Comment \o Single(Chars(<<"q", "r">>)) \o <<WS, <<"null", "lob">> >>,
       << Num("none", 1, 1), Num("none", 2, 2), Num("none", 3, 3), Nul("string", "none", <<>>),
          Nul("null", "none", <<>>), Val("bool", "none", <<>>, 1),
          TBytes("other", "none", <<>>, <<7>>), TBytes("other", "none", <<>>, <<"nan">>),
          TText("none", <<"name">>, <<>>), TText("none", <<>>, <<"x", "e1", "e2", "e3", "\"", "n">>),
          TText("none", <<>>, <<"x", "nl", "'", "y", "z">>),
          Val("symbol", "none", <<>>, "qr"), Nul("lob", "none", <<>>) >>)

(* Lobs, operators and containers that begin and end next to each other.   *)
TextLobs ==
  TDoc(Lob(<<WS>> \o Quoted(Chars(<<"x">>) \o << <<"}">> >>) \o <<NL>>)
         \o Lob(Long(Chars(<<"x", "y">>)) \o Long(Chars(<<"z">>))) \o Lob(<<>>)
         \o SexpOf(Lob(<< <<"quad", <<"p", "q", "r">> >>, NL, <<"quad", <<"s">> >> >>)
               \o << <<"op", "+">>, Word("name") >> \o ListOf(ListOf(<<>>))
               \o StructOf(Field("name") \o StructOf(<<>>) \o Comma \o Field("name") \o Long(Chars(<<")">>))))
         \o <<TInt(1, 1)>>,
       << TBytes("lob", "none", <<>>, <<"x", "}">>), TBytes("lob", "none", <<>>, <<"x", "y", "z">>),
          TBytes("lob", "none", <<>>, <<>>),
          Val("sexp", "none", <<>>,
              << TBytes("lob", "none", <<>>, <<"p", "q", "r", "s">>), Val("symbol", "none", <<>>, "+"),
                 Val("symbol", "none", <<>>, "name"), Val("list", "none", <<>>, << Val("list", "none", <<>>, <<>>) >>),
                 Val("struct", "none", <<>>,
                     << Val("struct", "name", <<>>, <<>>), TText("name", <<>>, <<")">>) >>) >>),
          Num("none", 1, 1) >>)

MCTexts == <<TextNested, TextScalars, TextLobs>>

(* What JSON looks like: a name in quotes right behind the brace. *)
Object == << <<"{">> >> \o Quoted(Chars(<<"a">>)) \o << <<":">>, TInt(1, 1), <<"}">> >>
TextJson ==
  TDoc(ListOf(Object \o << <<",">> >> \o Object) \o <<WS, TInt(2, 1)>>,
       << Val("list", "none", <<>>,
              << Val("struct", "none", <<>>, <<Num("a", 1, 1)>>), Val("struct", "none", <<>>, <<Num("a", 1, 1)>>) >>),
          Num("none", 2, 1) >>)
MCJson == <<TextJson>>
MCNoDocuments == <<>>

MCMarkers == "$ion_1_0" :> TRUE @@ "$ion_2_0" :> FALSE
=============================================================================
