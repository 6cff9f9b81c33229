--------------------------- MODULE IonCollection ---------------------------
(***************************************************************************)
(* ion_collection.c: the doubly linked lists that hold the symbols,        *)
(* imports, streams' free pages and index nodes of the library.  A node    *)
(* comes from the collection's own free list or, when that is empty, from  *)
(* the collection's allocation owner, and goes back to the free list when  *)
(* the entry is removed.  An entry's address is the address of its node's  *)
(* data, so the callers' pointers are nodes here.                          *)
(*                                                                         *)
(* live[c] and free[c] are history variables: the nodes of collection c in *)
(* list order and in free-list order, as the calls define them.  The       *)
(* pointers are what the code keeps; Linked and FreeChain below say that   *)
(* the pointers spell out exactly these sequences.                         *)
(***************************************************************************)
EXTENDS Naturals, Sequences, FiniteSets

CONSTANTS Colls,    \* the collections, all with one _node_size
          Nodes,    \* the node addresses the allocator can hand out
          Vals,     \* what a caller stores in an entry
          NULL      \* the null pointer, and "no collection"

ASSUME NullAssumption == NULL \notin Nodes /\ NULL \notin Colls

VARIABLES
  head, tail,       \* _head, _tail of each collection
  count,            \* _count of each collection
  freelist,         \* _freelist of each collection
  next, prev,       \* _next, _prev of each node
  data,             \* _data of each node
  owner,            \* the collection that allocated the node, or NULL
  copying,          \* the local variables of the _ion_collection_copy in progress
  live, free        \* history: the nodes in list order and in free-list order

ptrs == <<head, tail, count, freelist, next, prev>>
vars == <<ptrs, data, owner, copying, live, free>>

Idle    == [pc |-> "idle",  dst |-> NULL, src |-> NULL, srcnode |-> NULL]
Crashed == [pc |-> "crash", dst |-> NULL, src |-> NULL, srcnode |-> NULL]

Init ==
  /\ head = [c \in Colls |-> NULL]
  /\ tail = [c \in Colls |-> NULL]
  /\ count = [c \in Colls |-> 0]
  /\ freelist = [c \in Colls |-> NULL]
  /\ next = [n \in Nodes |-> NULL]
  /\ prev = [n \in Nodes |-> NULL]
  /\ data = [n \in Nodes |-> NULL]
  /\ owner = [n \in Nodes |-> NULL]
  /\ copying = Idle
  /\ live = [c \in Colls |-> <<>>]
  /\ free = [c \in Colls |-> <<>>]

-----------------------------------------------------------------------------
(* Sequences of nodes. *)

First(s) == IF s = <<>> THEN NULL ELSE s[1]
Final(s) == IF s = <<>> THEN NULL ELSE s[Len(s)]

Prepend(n, s) == [i \in 1..(Len(s) + 1) |-> IF i = 1 THEN n ELSE s[i - 1]]
Extend(s, n)  == [i \in 1..(Len(s) + 1) |-> IF i = Len(s) + 1 THEN n ELSE s[i]]
Join(s, t)    == [i \in 1..(Len(s) + Len(t)) |->
                    IF i <= Len(s) THEN s[i] ELSE t[i - Len(s)]]
Without(s, k) == [i \in 1..(Len(s) - 1) |-> IF i < k THEN s[i] ELSE s[i + 1]]
Rest(s)       == IF s = <<>> THEN <<>> ELSE Without(s, 1)

-----------------------------------------------------------------------------
(* _ion_collection_alloc_node_helper: n is the node it returns.  The free  *)
(* list has priority over the owner; CanAlloc is false when malloc fails.  *)

(* Mutant of Allocates: a node another collection owns is handed out.       *)
AllocatesShared(c, n) ==
  IF freelist[c] # NULL THEN n = freelist[c] ELSE owner[n] # c

Allocates(c, n) ==
  IF freelist[c] # NULL THEN n = freelist[c] ELSE owner[n] = NULL

(* Mutant of TakeNode: the node taken stays at the front of the free list.  *)
TakeNodeLeft(c, n) ==
  /\ UNCHANGED freelist
  /\ free' = [free EXCEPT ![c] = Rest(@)]
  /\ owner' = [owner EXCEPT ![n] = c]

TakeNode(c, n) ==
  /\ freelist' = IF freelist[c] # NULL
                   THEN [freelist EXCEPT ![c] = next[freelist[c]]]
                   ELSE freelist
  /\ free' = [free EXCEPT ![c] = Rest(@)]
  /\ owner' = [owner EXCEPT ![n] = c]

(* _ion_collection_push_node_helper: link n before the head. *)
PushNode(c, n, v) ==
  /\ TakeNode(c, n)
  /\ next' = [next EXCEPT ![n] = head[c]]
  /\ prev' = [m \in Nodes |-> IF m = n THEN NULL
                             ELSE IF m = head[c] THEN n ELSE prev[m]]
  /\ head' = [head EXCEPT ![c] = n]
  /\ tail' = IF head[c] # NULL THEN tail ELSE [tail EXCEPT ![c] = n]
  /\ count' = [count EXCEPT ![c] = @ + 1]
  /\ data' = [data EXCEPT ![n] = v]
  /\ live' = [live EXCEPT ![c] = Prepend(n, @)]

(* _ion_collection_append_node_helper: link n after the tail. *)
AppendNode(c, n, v) ==
  /\ TakeNode(c, n)
  /\ next' = [m \in Nodes |-> IF m = n THEN NULL
                             ELSE IF m = tail[c] THEN n ELSE next[m]]
  /\ prev' = [prev EXCEPT ![n] = tail[c]]
  /\ tail' = [tail EXCEPT ![c] = n]
  /\ head' = IF tail[c] # NULL THEN head ELSE [head EXCEPT ![c] = n]
  /\ count' = [count EXCEPT ![c] = @ + 1]
  /\ data' = [data EXCEPT ![n] = v]
  /\ live' = [live EXCEPT ![c] = Extend(@, n)]

(* Mutant of Uncount: the entry is uncounted by the remove and by the free. *)
UncountTwice(c) == count' = [count EXCEPT ![c] = @ - 2]

Uncount(c) == count' = [count EXCEPT ![c] = @ - 1]

(* Mutant of UnlinkBack: the successor keeps pointing at the removed node.  *)
UnlinkBackForgotten(n) == UNCHANGED prev

UnlinkBack(n) ==
  prev' = [m \in Nodes |-> IF m = next[n] THEN prev[n] ELSE prev[m]]

(* _ion_collection_free_node_helper, but for n's _next, which RemoveNode    *)
(* sets: the node's data stays as it is.                                    *)

(* Mutant of FreeNode: the memset that MEM_DEBUG builds have.               *)
FreeNodeCleared(c, n) ==
  /\ freelist' = [freelist EXCEPT ![c] = n]
  /\ free' = [free EXCEPT ![c] = Prepend(n, @)]
  /\ data' = [data EXCEPT ![n] = NULL]

FreeNode(c, n) ==
  /\ freelist' = [freelist EXCEPT ![c] = n]
  /\ free' = [free EXCEPT ![c] = Prepend(n, @)]
  /\ UNCHANGED data

(* _ion_collection_remove_node_helper for n, the k-th node of the list.     *)
RemoveNode(c, n, k) ==
  /\ UnlinkBack(n)
  /\ tail' = IF next[n] # NULL THEN tail ELSE [tail EXCEPT ![c] = prev[n]]
  /\ next' = [m \in Nodes |-> IF m = n THEN freelist[c]
                             ELSE IF m = prev[n] THEN next[n] ELSE next[m]]
  /\ head' = IF prev[n] # NULL THEN head ELSE [head EXCEPT ![c] = next[n]]
  /\ FreeNode(c, n)
  /\ Uncount(c)
  /\ live' = [live EXCEPT ![c] = Without(@, k)]
  /\ UNCHANGED owner

(* _ion_collection_reset: the whole list becomes the front of the free     *)
(* list.  The old free list is joined to it from its SECOND node on.       *)
ResetList(c) ==
  IF head[c] = NULL
    THEN UNCHANGED <<ptrs, data, owner, live, free>>
    ELSE /\ next' = [next EXCEPT ![tail[c]] =
                       IF freelist[c] # NULL THEN next[freelist[c]] ELSE NULL]
         /\ freelist' = [freelist EXCEPT ![c] = head[c]]
         /\ head' = [head EXCEPT ![c] = NULL]
         /\ tail' = [tail EXCEPT ![c] = NULL]
         /\ count' = [count EXCEPT ![c] = 0]
         /\ live' = [live EXCEPT ![c] = <<>>]
         /\ free' = [free EXCEPT ![c] = Join(live[c], Rest(@))]
         /\ UNCHANGED <<prev, data, owner>>

-----------------------------------------------------------------------------
(* The calls.  push and append return NULL when malloc fails, and change   *)
(* nothing: a stuttering step.                                             *)

NotCopying == copying.pc = "idle"

Push(c) ==
  /\ NotCopying
  /\ \E n \in Nodes, v \in Vals : Allocates(c, n) /\ PushNode(c, n, v)
  /\ UNCHANGED copying

AppendEntry(c) ==
  /\ NotCopying
  /\ \E n \in Nodes, v \in Vals : Allocates(c, n) /\ AppendNode(c, n, v)
  /\ UNCHANGED copying

PopHead(c) ==
  /\ NotCopying
  /\ head[c] # NULL
  /\ RemoveNode(c, head[c], 1)
  /\ UNCHANGED copying

PopTail(c) ==
  /\ NotCopying
  /\ head[c] # NULL
  /\ RemoveNode(c, tail[c], Len(live[c]))
  /\ UNCHANGED copying

(* _ion_collection_remove: the caller passes the address of an entry of c. *)
Remove(c) ==
  /\ NotCopying
  /\ \E k \in 1..Len(live[c]) : RemoveNode(c, live[c][k], k)
  /\ UNCHANGED copying

Reset(c) ==
  /\ NotCopying
  /\ ResetList(c)
  /\ UNCHANGED copying

(* _ion_collection_copy: the destination is reset, then the loop appends   *)
(* one entry per source node.  A copy_contents_fn that fails ends the copy *)
(* with the entry appended and whatever the callback left in its data;     *)
(* append's NULL (malloc failed) is dereferenced.                          *)

(* Mutant of CopyBegin: the destination keeps the entries it had.           *)
CopyBeginAppends(dst, src) ==
  /\ NotCopying
  /\ dst # src
  /\ UNCHANGED <<ptrs, data, owner, live, free>>
  /\ copying' = [pc |-> "copy", dst |-> dst, src |-> src, srcnode |-> head[src]]

CopyBegin(dst, src) ==
  /\ NotCopying
  /\ dst # src
  /\ ResetList(dst)
  /\ copying' = [pc |-> "copy", dst |-> dst, src |-> src, srcnode |-> head[src]]

CopyStep ==
  /\ copying.pc = "copy"
  /\ copying.srcnode # NULL
  /\ \E n \in Nodes :
       /\ Allocates(copying.dst, n)
       /\ AppendNode(copying.dst, n, data[copying.srcnode])
  /\ copying' = [copying EXCEPT !.srcnode = next[@]]

CopyFails ==
  /\ copying.pc = "copy"
  /\ copying.srcnode # NULL
  /\ \E n \in Nodes, v \in Vals \cup {NULL} :
       /\ Allocates(copying.dst, n)
       /\ AppendNode(copying.dst, n, v)
  /\ copying' = Idle

CopyOutOfMemory ==
  /\ copying.pc = "copy"
  /\ copying.srcnode # NULL
  /\ freelist[copying.dst] = NULL
  /\ copying' = Crashed
  /\ UNCHANGED <<ptrs, data, owner, live, free>>

CopyEnd ==
  /\ copying.pc = "copy"
  /\ copying.srcnode = NULL
  /\ copying' = Idle
  /\ UNCHANGED <<ptrs, data, owner, live, free>>

Next ==
  \/ \E c \in Colls :
       Push(c) \/ AppendEntry(c) \/ PopHead(c) \/ PopTail(c) \/ Remove(c) \/ Reset(c)
  \/ \E dst, src \in Colls : CopyBegin(dst, src)
  \/ CopyStep \/ CopyFails \/ CopyOutOfMemory \/ CopyEnd

Spec == Init /\ [][Next]_vars

-----------------------------------------------------------------------------
(* Properties. *)

Items(s) == { s[i] : i \in 1..Len(s) }
NodeOrNull == Nodes \cup {NULL}

ListTypes ==
  /\ head \in [Colls -> NodeOrNull]
  /\ tail \in [Colls -> NodeOrNull]
  /\ count \in [Colls -> Nat]
  /\ freelist \in [Colls -> NodeOrNull]
  /\ next \in [Nodes -> NodeOrNull]
  /\ prev \in [Nodes -> NodeOrNull]
  /\ data \in [Nodes -> Vals \cup {NULL}]
  /\ owner \in [Nodes -> Colls \cup {NULL}]
  /\ live \in [Colls -> Seq(Nodes)]
  /\ free \in [Colls -> Seq(Nodes)]

CopyTypes ==
  \/ copying \in {Idle, Crashed}
  \/ copying \in [pc : {"copy"}, dst : Colls, src : Colls, srcnode : NodeOrNull]

(* Every variable has its type: pointers are nodes or null, counts never go *)
(* below zero (the ASSERT of _ion_collection_remove_node_helper), and the   *)
(* copy's locals are collections and a node.                                *)
TypeOK == ListTypes /\ CopyTypes

Chain(nx, s) == \A i \in 1..Len(s) :
                  nx[s[i]] = IF i = Len(s) THEN NULL ELSE s[i + 1]
BackChain(pv, s) == \A i \in 1..Len(s) :
                      pv[s[i]] = IF i = 1 THEN NULL ELSE s[i - 1]
Distinct(s) == \A i, j \in 1..Len(s) : s[i] = s[j] => i = j

(* head, tail, _next, _prev and _count of a collection all describe the     *)
(* same list, forwards and backwards.                                       *)
LinkedList(c) ==
  /\ head[c] = First(live[c])
  /\ tail[c] = Final(live[c])
  /\ count[c] = Len(live[c])
  /\ Chain(next, live[c])
  /\ BackChain(prev, live[c])

Linked == \A c \in Colls : LinkedList(c)

(* The free list is a null-terminated chain of nodes.                       *)
FreeChain(c) ==
  /\ freelist[c] = First(free[c])
  /\ Chain(next, free[c])

(* No node is in two places, in one collection or in two of them, and every *)
(* node in a place belongs to that collection.                              *)
Placed(c) ==
  /\ Distinct(live[c])
  /\ Distinct(free[c])
  /\ Items(live[c]) \cap Items(free[c]) = {}
  /\ \A n \in Items(live[c]) \cup Items(free[c]) : owner[n] = c

(* The free list holds distinct nodes, none of them in use, and ends: what  *)
(* _ion_collection_alloc_node_helper hands out is never an entry a caller   *)
(* still has in a list.                                                     *)
FreeListSound == \A c \in Colls : FreeChain(c) /\ Placed(c)

(* The header comment of ion_collection.c: the data of a released node "is  *)
(* still allocated and is, therefore, good UNTIL ANOTHER push or append or  *)
(* copy is executed against the containing collection"; the data of a node  *)
(* in the list never moves and never changes under its holder.              *)
DataStays ==
  \A n \in Nodes :
    data'[n] # data[n] =>
      \E c \in Colls : /\ Len(live'[c]) = Len(live[c]) + 1
                       /\ n \in Items(live'[c]) \ Items(live[c])
EntriesStable == [][DataStays]_vars

(* A copy that runs to its end leaves in the destination what the source    *)
(* held, entry by entry, and the source as it was (the ASSERT at the end of *)
(* _ion_collection_copy says only that the counts agree).                   *)
Contents(c) == [i \in 1..Len(live[c]) |-> data[live[c][i]]]
CopyComplete ==
  [][ copying.pc = "copy" /\ copying.srcnode = NULL /\ copying'.pc = "idle"
        => Contents(copying.dst) = Contents(copying.src) ]_vars

(* The linked nodes and the free list implement the abstract deque: what a  *)
(* caller stores at an end is what it finds there, whatever was removed,    *)
(* recycled, reset or copied in between.                                    *)
Deque == INSTANCE IonDeque WITH
           list <- [c \in Colls |-> Contents(c)],
           Vals <- Vals \cup {NULL}
ImplementsDeque == Deque!Spec
=============================================================================
