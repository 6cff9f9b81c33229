------------------------------- MODULE IonMap -------------------------------
(***************************************************************************)
(* What an index promises its callers: a map from keys to data, and calls  *)
(* that may fail for lack of memory but then leave the map as it was.      *)
(***************************************************************************)
CONSTANTS Keys, Data, NoData

VARIABLES map, res

Init == map = <<>> /\ res = [op |-> "none"]

Result(op, err, data) == res' = [op |-> op, err |-> err, data |-> data]

Find(k) ==
  /\ Result("find", "ok", IF k \in DOMAIN map THEN map[k] ELSE NoData)
  /\ UNCHANGED map

With(k, d) == [key \in DOMAIN map \cup {k} |-> IF key = k THEN d ELSE map[key]]

Insert(k, d) ==
  IF k \in DOMAIN map
    THEN Result("insert", "exists", NoData) /\ UNCHANGED map
    ELSE Result("insert", "ok", NoData) /\ map' = With(k, d)

Upsert(k, d) == Result("upsert", "ok", NoData) /\ map' = With(k, d)

Delete(k) ==
  /\ Result("delete", "ok", IF k \in DOMAIN map THEN map[k] ELSE NoData)
  /\ map' = [key \in DOMAIN map \ {k} |-> map[key]]

Reset == Result("reset", "ok", NoData) /\ map' = <<>>

Fail == \E op \in {"insert", "upsert"} : Result(op, "no memory", NoData) /\ UNCHANGED map

Next ==
  \/ \E k \in Keys : Find(k) \/ Delete(k)
  \/ \E k \in Keys, d \in Data : Insert(k, d) \/ Upsert(k, d)
  \/ Reset \/ Fail

Spec == Init /\ [][Next]_<<map, res>>
=============================================================================
