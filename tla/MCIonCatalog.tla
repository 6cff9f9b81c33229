---------------------------- MODULE MCIonCatalog ----------------------------
EXTENDS IonCatalog, TLC

MCText == STRING
MCSystemNames == <<"$ion", "name">>
MCNumerals == "$3" :> 3

(* A shared table as the API makes one: opened, filled, named and locked;  *)
(* from a document it would have no system symbols.                        *)
Named(t, name, version) == LockTable([t EXCEPT !.name = name, !.version = version]).t
Filled(t, names, h) == FoldLeft(LAMBDA u, name : AddSymbol(u, name, h).t, t, names)
Made(h, name, version, names) ==
  Named(Filled(OpenTable("catalog", h), names, h), name, version)
Loaded(h, name, version, names) ==
  Named(Filled([EmptyTable EXCEPT !.owner = "catalog"], names, h), name, version)

Program(tables, list) == [tables |-> tables, cat |-> list]

MCPrepared ==
  { Program(<<>>, <<>>),
    Program(<<Made(1, "s", 1, <<"a">>)>>, <<1>>),
    Program(<<Loaded(1, "s", 2, <<"a", "b">>), Loaded(2, "s", 1, <<"a">>)>>, <<1, 2>>),
    Program(<<Loaded(1, "s", 1, <<"b">>), Made(2, "r", 1, <<"a", "b", "d">>),
              OpenTable("caller", 3)>>, <<1, 2>>),
    Program(<<[Made(1, "s", 1, <<"a">>) EXCEPT !.owner = "caller"], OpenTable("caller", 2)>>,
            <<>>) }
=============================================================================
