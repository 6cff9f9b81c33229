------------------------------ MODULE IonArena ------------------------------
(***************************************************************************)
(* What the allocator promises: memory that is given to an owner stays his *)
(* alone until the owner is freed, all at once.  What a call returned,     *)
(* res', tells whom it served, and with which memory.                      *)
(***************************************************************************)
EXTENDS Integers

VARIABLES held, res   \* held: the cells given to each owner there is

Cells(block, from, len) == {<<block, x>> : x \in from..(from + len - 1)}
Taken == UNION {held[o] : o \in DOMAIN held}

Init == held = <<>> /\ res = [op |-> "none", err |-> "ok"]

Given(r) == Cells(r.block, r.from, r.len)

AllocOwner(r) ==
  /\ r.op = "alloc_owner" /\ r.owner \notin DOMAIN held
  /\ Given(r) \cap Taken = {}
  /\ held' = [o \in DOMAIN held \cup {r.owner} |-> IF o = r.owner THEN Given(r) ELSE held[o]]

Alloc(r) ==
  /\ r.op = "alloc" /\ r.owner \in DOMAIN held
  /\ Given(r) \cap Taken = {}
  /\ held' = [held EXCEPT ![r.owner] = @ \cup Given(r)]

FreeOwner(r) ==
  /\ r.op = "free_owner" /\ r.owner \in DOMAIN held
  /\ held' = [o \in DOMAIN held \ {r.owner} |-> held[o]]

Next ==
  \/ res'.err = "ok" /\ (AllocOwner(res') \/ Alloc(res') \/ FreeOwner(res'))
  \/ UNCHANGED held

Spec == Init /\ [][Next]_<<held, res>>
=============================================================================
