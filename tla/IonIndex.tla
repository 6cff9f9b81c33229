------------------------------ MODULE IonIndex ------------------------------
(***************************************************************************)
(* ion_index.c: a hash table of chains.  An insertion that would fill the  *)
(* table first makes room: a larger table is allocated and every node of   *)
(* the old one is moved to the head of its new chain, one step a node.     *)
(* A chain is the sequence of its nodes; that nodes are linked, recycled   *)
(* and never moved is ion_collection.c's part.                             *)
(***************************************************************************)
EXTENDS Integers, Sequences, FiniteSets

CONSTANTS
  Keys, Data, NoData,
  Hash,          \* [Keys -> Nat]: the caller's hash function
  Percent,       \* _density_target_percent of the options, 0 for the default
  DefaultDensity,\* II_DEFAULT_128X_PERCENT
  Minimum,       \* II_DEFAULT_MINIMUM
  Multiplier,    \* g_ion_index_multiplier_x128 / 128
  InitialSizes   \* what callers may pass as _initial_size

(* _ion_index_set_options_helper: the product is cut to a byte before it   *)
(* is divided, so that a percent leaves 0 or 1.                            *)
Density == IF Percent = 0 THEN DefaultDensity ELSE ((Percent * 100) % 256) \div 128

ASSUME IndexAssumption ==
  /\ NoData \notin Data
  /\ Hash \in [Keys -> Nat]
  /\ Minimum \in Nat \ {0} /\ Multiplier \in Nat \ {0, 1}
  /\ InitialSizes \subseteq Nat
  /\ Density \in Nat \ {0}   \* make_room divides by it

VARIABLES
  table,         \* _bucket_table: the chain of each bucket
  size,          \* _bucket_count
  keyCount,      \* _key_count
  inUse,         \* _bucket_in_use_count
  growAt,        \* _grow_at
  old,           \* the chains still to be moved while room is made
  split,         \* the loop that moves them: ii, old_bucket_count, in_use
  call,          \* the insertion that waits for it
  res            \* what the last call returned

vars == <<table, size, keyCount, inUse, growAt, old, split, call, res>>

Entry == [key : Keys, data : Data]

NotSplitting == [bucket |-> 0, count |-> 0, inUse |-> 0]
NoCall == [op |-> "none", key |-> NoData, data |-> NoData]
Idle == call = NoCall

(* _ion_index_hash_to_bucket_index. *)
Bucket(key, count) == Hash[key] % count

(* _ion_index_scan_bucket_helper: where key is found in a chain. *)
FoundAt(chain, key, i) ==
  /\ i \in 1..Len(chain) /\ chain[i].key = key
  /\ \A j \in 1..(i - 1) : chain[j].key # key

(* Mutant of Absent: the scan ends at the first other key. *)
AbsentAtHead(chain, key) == \A i \in 1..Len(chain) : i = 1 => chain[i].key # key

Absent(chain, key) == \A i \in 1..Len(chain) : chain[i].key # key

Chain(key) == IF size = 0 THEN <<>> ELSE table[Bucket(key, size)]

Without(chain, i) == SubSeq(chain, 1, i - 1) \o SubSeq(chain, i + 1, Len(chain))

Push(entry, chain) == <<entry>> \o chain

Result(op, err, data) == res' = [op |-> op, err |-> err, data |-> data]

-----------------------------------------------------------------------------
(* Making room. *)

Larger(a, b) == IF a >= b THEN a ELSE b

Needed(keys) == (keys * 128) \div Density

(* The least size, from the current threshold on and by the multiplier,    *)
(* that holds the keys at the density.                                     *)
Grown(threshold, keys) ==
  LET from[n \in Nat] == IF n >= Needed(keys) THEN n ELSE from[Multiplier * n]
  IN from[Larger(threshold, Minimum)]

EmptyTable(count) == [b \in 0..(count - 1) |-> <<>>]

(* _ion_index_make_room up to its loop, for the insertion c.  That the     *)
(* size is not 0 is asserted.                                              *)
BeginSplit(expected, c) ==
  LET count == Grown(growAt, keyCount + expected)
  IN /\ count \in Nat \ {0}
     /\ old' = table
     /\ table' = EmptyTable(count)
     /\ size' = count
     /\ split' = [NotSplitting EXCEPT !.count = size]
     /\ call' = c
     /\ UNCHANGED <<keyCount, inUse, growAt, res>>

(* Mutant of NewBucket: the bucket of the old table is kept. *)
OldBucket(entry) == split.bucket

NewBucket(entry) == Bucket(entry.key, size)

(* Mutant of NextBucket: the loop starts over. *)
NextBucketWraps(b) == (b + 1) % split.count

NextBucket(b) == b + 1

(* One node of the old table's chains goes to the head of its new chain. *)
MoveNode ==
  /\ ~Idle /\ split.bucket < split.count /\ old[split.bucket] # <<>>
  /\ LET entry == Head(old[split.bucket])
         b == NewBucket(entry)
     IN /\ table' = [table EXCEPT ![b] = Push(entry, @)]
        /\ split' = [split EXCEPT !.inUse = IF table[b] = <<>> THEN @ + 1 ELSE @]
        /\ old' = [old EXCEPT ![split.bucket] = Tail(@)]
  /\ UNCHANGED <<size, keyCount, inUse, growAt, call, res>>

NextOldBucket ==
  /\ ~Idle /\ split.bucket < split.count /\ old[split.bucket] = <<>>
  /\ split' = [split EXCEPT !.bucket = NextBucket(@)]
  /\ UNCHANGED <<table, size, keyCount, inUse, growAt, old, call, res>>

-----------------------------------------------------------------------------
(* Insertion. *)

(* _ion_index_insert_helper, for a key that is not there; used counts the  *)
(* chains there were.                                                      *)
EnterNew(op, key, data, used) ==
  LET b == Bucket(key, size)
  IN /\ table' = [table EXCEPT ![b] = Push([key |-> key, data |-> data], @)]
     /\ inUse' = IF table[b] = <<>> THEN used + 1 ELSE used
     /\ keyCount' = keyCount + 1
     /\ Result(op, "ok", NoData)

(* _ion_index_upsert of a key that is there, as _ion_index_insert of one   *)
(* leaves everything as it is.                                             *)
EnterAgain(op, key, data, used) ==
  /\ inUse' = used
  /\ IF op = "upsert"
       THEN \E i \in 1..Len(Chain(key)) :
              /\ FoundAt(Chain(key), key, i)
              /\ table' = [table EXCEPT ![Bucket(key, size)][i].data = data]
              /\ Result(op, "ok", NoData)
       ELSE Result(op, "exists", NoData) /\ UNCHANGED table
  /\ UNCHANGED keyCount

(* The node of a new key may not be had. *)
EnterFails(op, used) ==
  /\ inUse' = used
  /\ Result(op, "no memory", NoData)
  /\ UNCHANGED <<table, keyCount>>

Enter(op, key, data, used) ==
  IF Absent(Chain(key), key)
    THEN EnterNew(op, key, data, used) \/ EnterFails(op, used)
    ELSE EnterAgain(op, key, data, used)

IsFull == keyCount + 1 >= growAt

Insert(op, key, data) ==
  /\ Idle
  /\ IF IsFull
       THEN \/ BeginSplit(IF size = 0 THEN Minimum ELSE 1,
                          [op |-> op, key |-> key, data |-> data])
            \/ /\ Result(op, "no memory", NoData)  \* _ion_index_grow_array
               /\ UNCHANGED <<table, size, keyCount, inUse, growAt, old, split, call>>
       ELSE /\ Enter(op, key, data, inUse)
            /\ UNCHANGED <<size, growAt, old, split, call>>

(* The rest of _ion_index_make_room and of the insertion that needed it. *)
FinishSplit ==
  /\ ~Idle /\ split.bucket >= split.count
  /\ growAt' = Multiplier * size
  /\ Enter(call.op, call.key, call.data, split.inUse)
  /\ old' = <<>> /\ split' = NotSplitting /\ call' = NoCall
  /\ UNCHANGED size

-----------------------------------------------------------------------------
(* The other calls. *)

(* _ion_index_find and _ion_index_exists. *)
Find(key) ==
  /\ Idle
  /\ \/ /\ Absent(Chain(key), key)
        /\ Result("find", "ok", NoData)
     \/ \E i \in 1..Len(Chain(key)) :
          FoundAt(Chain(key), key, i) /\ Result("find", "ok", Chain(key)[i].data)
  /\ UNCHANGED <<table, size, keyCount, inUse, growAt, old, split, call>>

(* Mutant of Unused: a chain of two is given up, too. *)
UnusedShort(chain, i) == i = 1

(* Whether removing node i leaves the bucket unused. *)
Unused(chain, i) == i = 1 /\ Len(chain) = 1

(* _ion_index_delete.  An index without keys leaves the caller's pointer   *)
(* as it was; callers pass one that is NULL.                               *)
Delete(key) ==
  /\ Idle
  /\ \/ /\ keyCount < 1 \/ Absent(Chain(key), key)
        /\ Result("delete", "ok", NoData)
        /\ UNCHANGED <<table, keyCount, inUse>>
     \/ /\ keyCount >= 1
        /\ \E i \in 1..Len(Chain(key)) :
             /\ FoundAt(Chain(key), key, i)
             /\ Result("delete", "ok", Chain(key)[i].data)
             /\ table' = [table EXCEPT ![Bucket(key, size)] = Without(@, i)]
             /\ inUse' = IF Unused(Chain(key), i) THEN inUse - 1 ELSE inUse
        /\ keyCount' = keyCount - 1
  /\ UNCHANGED <<size, growAt, old, split, call>>

(* Mutant of Cleared: the table is given up, but not its size. *)
ClearedAway == <<>>

Cleared == EmptyTable(size)

(* _ion_index_reset: the table keeps its size. *)
Reset ==
  /\ Idle
  /\ table' = IF keyCount < 1 THEN table ELSE Cleared
  /\ keyCount' = IF keyCount < 1 THEN keyCount ELSE 0
  /\ inUse' = IF keyCount < 1 THEN inUse ELSE 0
  /\ Result("reset", "ok", NoData)
  /\ UNCHANGED <<size, growAt, old, split, call>>

-----------------------------------------------------------------------------

(* _ion_index_initialize, with room for an initial size if there is one. *)
Init ==
  /\ keyCount = 0 /\ inUse = 0 /\ old = <<>>
  /\ \E initial \in InitialSizes :
       IF initial = 0
         THEN size = 0 /\ table = <<>> /\ growAt = 0
         ELSE /\ size = Grown(0, initial) /\ size \in Nat \ {0}
              /\ table = EmptyTable(size) /\ growAt = Multiplier * size
  /\ split = NotSplitting /\ call = NoCall
  /\ res = [op |-> "none"]

Next ==
  \/ \E op \in {"insert", "upsert"}, key \in Keys, data \in Data : Insert(op, key, data)
  \/ MoveNode \/ NextOldBucket \/ FinishSplit
  \/ \E key \in Keys : Find(key) \/ Delete(key)
  \/ Reset

(* The loop of a call runs to its end; callers may stop calling. *)
Spec == Init /\ [][Next]_vars /\ WF_vars(MoveNode \/ NextOldBucket \/ FinishSplit)

-----------------------------------------------------------------------------
(* Properties. *)

Nodes(chains) == UNION {{chains[b][i] : i \in 1..Len(chains[b])} : b \in DOMAIN chains}
KeysOf(nodes) == {node.key : node \in nodes}
UsedIn(chains) == {b \in DOMAIN chains : chains[b] # <<>>}

All == Nodes(table) \cup Nodes(old)
Present == KeysOf(All)

(* Tables, counts and the call in progress keep their shapes. *)
TypeOK ==
  /\ size \in Nat /\ keyCount \in Nat /\ inUse \in Nat /\ growAt \in Nat
  /\ table \in [0..(size - 1) -> Seq(Entry)]
  /\ old \in [0..(split.count - 1) -> Seq(Entry)]
  /\ split \in [bucket : Nat, count : Nat, inUse : Nat]
  /\ call \in {NoCall} \cup [op : {"insert", "upsert"}, key : Keys, data : Data]
  /\ Idle => old = <<>> /\ split = NotSplitting
  /\ ~Idle => size # 0

Placed(chains, count) ==
  \A b \in DOMAIN chains : \A i \in 1..Len(chains[b]) : b = Bucket(chains[b][i].key, count)

(* A node is where a look-up of its key looks, also after any number of    *)
(* splits and while one is going on.                                       *)
NodesPlaced == Placed(table, size)

Once(chains) ==
  \A b, c \in DOMAIN chains : \A i \in 1..Len(chains[b]), j \in 1..Len(chains[c]) :
    chains[b][i].key = chains[c][j].key => b = c /\ i = j

(* No key has two nodes, in one chain, in two, or in both tables.          *)
KeysOnce == Once(table) /\ Once(old) /\ KeysOf(Nodes(table)) \cap KeysOf(Nodes(old)) = {}

(* The counts, on which growth, deletion and reset depend, are those of    *)
(* the nodes and of the chains there are.                                  *)
CountsAgree ==
  /\ keyCount = Cardinality(Present)
  /\ (IF Idle THEN inUse ELSE split.inUse) = Cardinality(UsedIn(table))

(* The map an index stands for; while nodes are moved, both tables hold it. *)
MapOf(nodes) == [key \in KeysOf(nodes) |-> (CHOOSE node \in nodes : node.key = key).data]
Contents == MapOf(All)

Map == INSTANCE IonMap WITH map <- Contents

(* Every call does to the map what IonMap says, however much is moved      *)
(* around for it.                                                          *)
ImplementsMap == Map!Spec

(* A call that makes room returns. *)
CallsReturn == ~Idle ~> Idle
=============================================================================
