--------------------------- MODULE MCIonTextWriter ---------------------------
EXTENDS IonTextDocument

MCSystemNames == <<"$ion", "name">>
MCImports == {<<>>, <<"a">>}

(* Every sequence of ShortCalls calls; and longer ones, without annotations *)
(* or clobs, that open, fill and end containers and blobs in one another.   *)
ShortCalls == 4
MaxOthers == 2

VARIABLE others  \* how many calls had to do with ids, limits and symbols

RECURSIVE Plain(_)
Plain(vs) ==
  \A i \in 1..Len(vs) :
    /\ vs[i].anns = <<>> /\ vs[i].type # "clob"
    /\ vs[i].type \in Containers => Plain(vs[i].body)

OnlyDeep == ~w.table.open /\ w.anns = <<>> /\ Plain(asked.batch \o asked.open)

ValueMayStart == ~InLob /\ (w.inStruct <=> w.field # None)
DeepCalls ==
  \/ w.inStruct /\ w.field = None /\ \E name \in Names : FieldName(name)
  \/ ValueMayStart /\ \/ \E image \in Scalars : WriteScalar(image)
                      \/ \E type \in Containers : StartContainer(type)
                      \/ StartLob("blob")
  \/ InLob /\ (FinishLob \/ \E n \in Pieces : AppendLob(n))
  \/ w.field = None /\ ~InLob /\ FinishContainer

MCInit == Init /\ others = 0
MCNext ==
  \/ calls < ShortCalls /\ ValueCall /\ UNCHANGED others
  \/ others < MaxOthers /\ calls < ShortCalls - 1 /\ OtherCall /\ others' = others + 1
  \/ others = 0 /\ OnlyDeep /\ DeepCalls /\ UNCHANGED others
MCSpec == MCInit /\ [][MCNext]_<<vars, others>>
=============================================================================
