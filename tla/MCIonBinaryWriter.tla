------------------------- MODULE MCIonBinaryWriter -------------------------
EXTENDS IonBinaryWriter, IonBinaryDocument

MCSystemNames == <<"$ion", "$ion_1_0", "name">>
MCNames == {"a", "b"}
MCImports == {<<>>, <<"a">>}
MCNoImports == {<<>>}

(* Lobs are written in pieces: the reference has their bytes in one. *)
Joined(toks) ==
  FoldLeft(LAMBDA s, tok : IF tok[1] = "bytes" /\ s # <<>> /\ Last(s)[1] = "bytes"
                             THEN [s EXCEPT ![Len(s)] = <<"bytes", @[2] + tok[2]>>]
                             ELSE Append(s, tok), <<>>, toks)
NonEmpty(toks) == SelectSeq(toks, LAMBDA tok : tok # <<"bytes", 0>>)

Same(a, b) == Joined(NonEmpty(a)) = Joined(NonEmpty(b))


(* Every sequence of ShortCalls calls, one less for each call in it that    *)
(* writes nothing; and longer ones that nest values, deeper than all calls  *)
(* together can be explored, as long as only values of one length and a     *)
(* name of the system table have been asked for and nothing is complete     *)
(* yet.                                                                     *)
VARIABLE others  \* how many calls wrote nothing

ShortCalls == 5
MaxOthers == 2
DeepName == "name"
DeepSize == 3
OnlyDeep ==
  /\ w.flushEvery /\ w.lob = None /\ out = <<>> /\ asked.batch = <<>>
  /\ w.table.imports = <<>> /\ w.table.locals = <<>>
  /\ \A i \in 1..Len(w.bytes) :
       /\ w.bytes[i].tok[1] # "sid"
       /\ w.bytes[i].tok[1] = "bytes" => w.bytes[i].tok[2] = DeepSize
ValueMayStart == w.inStruct => w.field # None
DeepCalls ==
  \/ w.field = None /\ FieldName(DeepName) /\ UNCHANGED out
  \/ Len(w.anns) < MaxAnns /\ AddAnnotation(DeepName) /\ UNCHANGED out
  \/ ValueMayStart /\ WriteSizedScalar(DeepSize)
  \/ \E type \in {"list", "struct"} : ValueMayStart /\ StartContainer(type)
  \/ FinishContainer
MCInit == Init /\ others = 0
MCNext ==
  \/ calls + others < ShortCalls /\ (ValueCall \/ Close) /\ UNCHANGED others
  \/ others < MaxOthers /\ calls + others < ShortCalls - 1 /\ OtherCall /\ others' = others + 1
  \/ others = 0 /\ OnlyDeep /\ DeepCalls /\ UNCHANGED others
MCSpec == MCInit /\ [][MCNext]_<<vars, others>>

(* Every sequence of MaxCalls calls. *)
AllSpec == MCInit /\ [][Next /\ UNCHANGED others]_<<vars, others>>
============================================================================
