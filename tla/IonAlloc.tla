------------------------------ MODULE IonAlloc ------------------------------
(***************************************************************************)
(* ion_allocation.c: readers, writers, catalogs, tables and streams are    *)
(* owners: each is the first thing in a block of its own, all it needs is  *)
(* allocated in that block or in a chain of further ones, and freeing the  *)
(* owner gives every block back, to a pool of pages that all owners share  *)
(* or to the system.                                                       *)
(*                                                                         *)
(* A block's size field and the bytes the system gave for it are kept      *)
(* apart: a page from the pool gets the size pages have at that time.      *)
(* chunks is a history variable: what callers were given and still hold.   *)
(***************************************************************************)
EXTENDS Integers, Sequences

CONSTANTS
  Blocks,        \* addresses the system may return
  Header,        \* sizeof(ION_ALLOCATION_CHAIN)
  Alignment,     \* ALLOC_ALIGNMENT
  DefaultPage, DefaultLimit, MinPage,
  OwnerSizes,    \* the structures that are owners
  Sizes,         \* what callers ask of an owner
  PageSizes, Limits, \* what ion_initialize_page_pool is called with, or no limit
  Careless       \* "release" \in Careless: the pool may be released at any time

NoPool == -1     \* ION_ALLOC_PAGE_POOL_PAGE_SIZE_NONE
NoLimit == -1    \* ION_ALLOC_PAGE_POOL_NO_LIMIT

(* ALIGN_SIZE *)
Aligned(len) == ((len + Alignment - 1) \div Alignment) * Alignment

ASSUME AllocAssumption ==
  /\ Header \in Nat \ {0} /\ Alignment \in Nat \ {0}
  /\ DefaultPage \in Nat /\ MinPage \in Nat /\ DefaultLimit \in Nat
  /\ MinPage >= Header /\ DefaultPage >= MinPage
  /\ OwnerSizes \subseteq Nat /\ Sizes \subseteq Nat
  /\ \A len \in OwnerSizes : Aligned(len) = len  \* sizes of structures
  /\ PageSizes \subseteq Nat /\ Limits \subseteq Nat

VARIABLES
  pageSize, limit, \* page_size and free_page_limit of g_ion_alloc_page_list
  pool,            \* its pages, the head first; page_count is its length
  heap,            \* the bytes the system gave for a block, 0 for none
  size, used,      \* size of a block; position, counted from the user bytes
  chain,           \* of each owner's block: the chain at its head
  freeing,         \* what _ion_free_owner still has to free
  chunks,          \* history: the memory callers hold
  res              \* what the last call returned

vars == <<pageSize, limit, pool, heap, size, used, chain, freeing, chunks, res>>

Owners == DOMAIN chain
Idle == freeing = <<>> /\ res.err # "crash"

-----------------------------------------------------------------------------
(* Blocks. *)

Fits(b, len) == used[b] + len <= size[b] - Header

FromSystem(b, bytes) == heap[b] = 0 /\ heap' = [heap EXCEPT ![b] = bytes] /\ UNCHANGED pool

(* _ion_alloc_page *)
AllocPage(page, b) ==
  IF pool # <<>> THEN b = Head(pool) /\ pool' = Tail(pool) /\ UNCHANGED heap
                 ELSE FromSystem(b, page)

IsOversize(page, needed) == needed + Header > page

(* _ion_alloc_block *)
AllocBlock(page, needed, b) ==
  IF IsOversize(page, needed)
    THEN FromSystem(b, needed + Header) /\ size' = [size EXCEPT ![b] = needed + Header]
    ELSE AllocPage(page, b) /\ size' = [size EXCEPT ![b] = page]

(* The system has nothing: an oversize block is written to all the same,   *)
(* before it is looked at.                                                 *)
AllocBlockFails(page, needed, op) ==
  /\ IsOversize(page, needed) \/ pool = <<>>
  /\ res' = [op |-> op, err |-> IF IsOversize(page, needed) THEN "crash" ELSE "no memory"]
  /\ UNCHANGED <<pool, heap, size, used, chain, chunks>>

(* Mutant of Place: the position is not moved. *)
PlaceAgain(op, o, b, from, len) ==
  /\ used' = [used EXCEPT ![b] = from]
  /\ chunks' = chunks \cup {[owner |-> o, block |-> b, from |-> from, len |-> len]}
  /\ res' = [op |-> op, err |-> "ok", owner |-> o, block |-> b, from |-> from, len |-> len]

(* The caller gets len bytes at the position of b. *)
Place(op, o, b, from, len) ==
  /\ used' = [used EXCEPT ![b] = from + len]
  /\ chunks' = chunks \cup {[owner |-> o, block |-> b, from |-> from, len |-> len]}
  /\ res' = [op |-> op, err |-> "ok", owner |-> o, block |-> b, from |-> from, len |-> len]

-----------------------------------------------------------------------------
(* The calls. *)

InitialPage == IF pageSize = NoPool THEN DefaultPage ELSE pageSize

(* _ion_alloc_owner: the block was made for the owner, so he fits. *)
AllocOwner(len) ==
  /\ Idle
  /\ pageSize' = InitialPage
  /\ limit' = IF pageSize = NoPool THEN DefaultLimit ELSE limit
  /\ \/ \E b \in Blocks :
          /\ AllocBlock(InitialPage, len, b)
          /\ Place("alloc_owner", b, b, 0, len)
          /\ chain' = [o \in Owners \cup {b} |-> IF o = b THEN <<>> ELSE chain[o]]
     \/ AllocBlockFails(InitialPage, len, "alloc_owner")
  /\ UNCHANGED freeing

(* Mutant of Linked: what is behind the front block is lost. *)
LinkedShort(c, b) ==
  IF size'[b] > pageSize /\ c # <<>> THEN <<Head(c), b>> ELSE <<b>> \o c

(* An oversize block is full: it goes behind the block in use. *)
Linked(c, b) ==
  IF size'[b] > pageSize /\ c # <<>> THEN <<Head(c), b>> \o Tail(c) ELSE <<b>> \o c

(* _ion_alloc_with_owner: in the owner's block, in the first of its chain, *)
(* or in a new one.                                                        *)
AllocInBlock(o, len, b) ==
  /\ Fits(b, len)
  /\ b # o => ~Fits(o, len) /\ chain[o] # <<>> /\ b = Head(chain[o])
  /\ Place("alloc", o, b, used[b], len)
  /\ UNCHANGED <<pool, heap, size, chain>>

AllocNewBlock(o, len) ==
  /\ ~Fits(o, len)
  /\ chain[o] # <<>> => ~Fits(Head(chain[o]), len)
  /\ \/ \E b \in Blocks :
          /\ AllocBlock(pageSize, len, b)
          /\ Place("alloc", o, b, 0, len)
          /\ chain' = [chain EXCEPT ![o] = Linked(@, b)]
     \/ AllocBlockFails(pageSize, len, "alloc")

AllocWithOwner(o, request) ==
  /\ Idle
  /\ \/ \E b \in Blocks : AllocInBlock(o, Aligned(request), b)
     \/ AllocNewBlock(o, Aligned(request))
  /\ UNCHANGED <<pageSize, limit, freeing>>

(* _ion_free_owner: the chain first, the owner's own block last. *)
FreeOwner(o) ==
  /\ Idle
  /\ freeing' = Append(chain[o], o)
  /\ chain' = [p \in Owners \ {o} |-> chain[p]]
  /\ chunks' = {c \in chunks : c.owner # o}
  /\ res' = [op |-> "free_owner", err |-> "ok", owner |-> o]
  /\ UNCHANGED <<pageSize, limit, pool, heap, size, used>>

(* _ion_release_page *)
PoolFull == limit # NoLimit /\ Len(pool) >= limit

(* Mutant of Rest: pnext is read after the block went to the pool. *)
RestOfPool(s) == IF pool = <<>> THEN Tail(s) ELSE pool

Rest(s) == Tail(s)

(* _ion_free_block *)
FreeBlock ==
  /\ freeing # <<>>
  /\ LET b == Head(freeing) IN
       IF size[b] > pageSize \/ PoolFull
         THEN heap' = [heap EXCEPT ![b] = 0] /\ UNCHANGED pool
         ELSE pool' = <<b>> \o pool /\ UNCHANGED heap
  /\ freeing' = Rest(freeing)
  /\ UNCHANGED <<pageSize, limit, size, used, chain, chunks, res>>

-----------------------------------------------------------------------------
(* The pool. *)

(* Mutant of Settled: the page size may be changed at any time. *)
NeverSettled == FALSE

(* "Once the page list is in use, you can't change your mind." *)
Settled == pageSize # NoPool

InitializePool(page, lim) ==
  /\ Idle /\ ~Settled
  /\ pageSize' = IF page < MinPage THEN MinPage ELSE page
  /\ limit' = lim
  /\ res' = [op |-> "initialize_pool", err |-> "ok"]
  /\ UNCHANGED <<pool, heap, size, used, chain, freeing, chunks>>

ReleasePool ==
  /\ Idle
  /\ "release" \in Careless \/ Owners = {}
  /\ heap' = [b \in Blocks |-> IF \E i \in 1..Len(pool) : pool[i] = b THEN 0 ELSE heap[b]]
  /\ pool' = <<>>
  /\ pageSize' = NoPool
  /\ res' = [op |-> "release_pool", err |-> "ok"]
  /\ UNCHANGED <<limit, size, used, chain, freeing, chunks>>

Init ==
  /\ pageSize = NoPool /\ limit = 0 /\ pool = <<>>
  /\ heap = [b \in Blocks |-> 0] /\ size = [b \in Blocks |-> 0] /\ used = [b \in Blocks |-> 0]
  /\ chain = <<>> /\ freeing = <<>> /\ chunks = {}
  /\ res = [op |-> "none", err |-> "ok"]

Next ==
  \/ \E len \in OwnerSizes : AllocOwner(len)
  \/ \E o \in Owners, len \in Sizes : AllocWithOwner(o, len)
  \/ \E o \in Owners : FreeOwner(o)
  \/ FreeBlock
  \/ \E page \in PageSizes, lim \in Limits \cup {NoLimit} : InitializePool(page, lim)
  \/ ReleasePool

(* A call in progress runs to its end. *)
Spec == Init /\ [][Next]_vars /\ WF_vars(FreeBlock)

-----------------------------------------------------------------------------
(* Properties. *)

(* Every place a block may be found at, by the list that holds it: the     *)
(* pool, what is being freed, an owner's block, or an owner's chain.       *)
Homes(b) ==
  {<<"pool", i>> : i \in {j \in 1..Len(pool) : pool[j] = b}}
  \cup {<<"freeing", i>> : i \in {j \in 1..Len(freeing) : freeing[j] = b}}
  \cup {<<"owner", o>> : o \in Owners \cap {b}}
  \cup UNION {{<<o, i>> : i \in {j \in 1..Len(chain[o]) : chain[o][j] = b}} : o \in Owners}

(* A block of the system is in one list, once, and what is in a list is of *)
(* the system: nothing is lost, freed twice or handed to two owners.       *)
OneHome ==
  \A b \in Blocks :
    /\ heap[b] # 0 <=> Homes(b) # {}
    /\ \A h, k \in Homes(b) : h = k

(* Memory is as long as its holders take it to be.  A page in the pool, set *)
(* up as long as there are owners, is as long as pages are, or the next to *)
(* take it would write past its end, and there are no more than the limit  *)
(* says; callers hold memory the system gave, below the position of its    *)
(* block.                                                                  *)
MemoryFits ==
  /\ Owners # {} /\ Careless = {} => pageSize # NoPool
  /\ \A i \in 1..Len(pool) : heap[pool[i]] >= pageSize
  /\ limit # NoLimit => Len(pool) <= limit
  /\ \A c \in chunks : /\ c.owner \in Owners
                       /\ c.from + c.len <= used[c.block]
                       /\ used[c.block] + Header <= heap[c.block]

(* The cells of memory that each owner's callers have. *)
Cells(c) == {<<c.block, x>> : x \in c.from..(c.from + c.len - 1)}
CellsOf(o) == UNION {Cells(c) : c \in {d \in chunks : d.owner = o}}
CellsHeld == [o \in Owners |-> CellsOf(o)]

Arena == INSTANCE IonArena WITH held <- CellsHeld

(* No two callers ever hold the same memory, whatever is freed and taken   *)
(* again in between.                                                       *)
ImplementsArena == Arena!Spec

(* Freeing an owner ends. *)
FreeReturns == freeing # <<>> ~> freeing = <<>>
=============================================================================
