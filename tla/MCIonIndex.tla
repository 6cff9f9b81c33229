----------------------------- MODULE MCIonIndex -----------------------------
(* Five keys: a and b collide in every table here, as do c and d; a and c   *)
(* part when there are four buckets.                                       *)
EXTENDS IonIndex, TLC

MCHash == "a" :> 0 @@ "b" :> 4 @@ "c" :> 2 @@ "d" :> 6 @@ "e" :> 1
=============================================================================
