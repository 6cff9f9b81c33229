--------------------------- MODULE IonAllocProofs ---------------------------
(***************************************************************************)
(* Theorems about IonAlloc for every set of blocks, every size of pages,   *)
(* headers and requests, and every limit of the pool.                      *)
(***************************************************************************)
EXTENDS IonAlloc, TLAPS

Members(s) == {s[i] : i \in 1..Len(s)}
Apart(s) == \A i, j \in 1..Len(s) : s[i] = s[j] => i = j

(* All that an owner holds, and what was his and is being freed. *)
Chained(b) == \E o \in Owners : b \in Members(chain[o])
Held(b) == b \in Owners \/ Chained(b) \/ b \in Members(freeing)

(* Values keep their types, and a page has room for a header. *)
TypeOK ==
  /\ pageSize \in Nat \cup {NoPool} /\ (pageSize # NoPool => pageSize >= MinPage)
  /\ limit \in Nat \cup {NoLimit}
  /\ pool \in Seq(Blocks) /\ freeing \in Seq(Blocks)
  /\ heap \in [Blocks -> Nat] /\ size \in [Blocks -> Nat] /\ used \in [Blocks -> Nat]
  /\ Owners \subseteq Blocks /\ chain \in [Owners -> Seq(Blocks)]
  /\ chunks \subseteq [owner : Blocks, block : Blocks, from : Nat, len : Nat]

(* No block is twice in a list, or in two. *)
ListsApart ==
  /\ Apart(pool) /\ Apart(freeing) /\ \A o \in Owners : Apart(chain[o])
  /\ \A b \in Members(pool) : ~Held(b)
  /\ \A b \in Members(freeing) : b \notin Owners /\ ~Chained(b)
  /\ \A b \in Owners : ~Chained(b)
  /\ \A o, p \in Owners : o # p => Members(chain[o]) \cap Members(chain[p]) = {}

(* The system has given what is in a list and nothing else. *)
HeapListed == \A b \in Blocks : heap[b] # 0 <=> b \in Members(pool) \/ Held(b)

(* What callers hold is in a block of their owner, below its position. *)
ChunksPlaced ==
  \A c \in chunks :
    /\ c.owner \in Owners
    /\ c.block = c.owner \/ c.block \in Members(chain[c.owner])
    /\ c.from + c.len <= used[c.block]

Sound == TypeOK /\ ListsApart /\ HeapListed /\ ChunksPlaced

(* As long as the pool is not released under its owners, blocks are as long *)
(* as their size says and no shorter than pages are.                        *)
PagesLong ==
  /\ pageSize = NoPool => pool = <<>> /\ \A b \in Blocks : ~Held(b)
  /\ \A b \in Blocks : Held(b) => size[b] <= heap[b] /\ pageSize <= size[b]
  /\ \A b \in Members(pool) : pageSize <= heap[b]
  /\ limit # NoLimit => Len(pool) <= limit
  /\ \A c \in chunks : used[c.block] + Header <= size[c.block]

-----------------------------------------------------------------------------
(* Lists. *)

(* s is a list with b and what t has. *)
Adds(s, t, b) ==
  /\ \A i \in 1..Len(s) : s[i] = b \/ \E j \in 1..Len(t) : s[i] = t[j]
  /\ \A j \in 1..Len(t) : \E i \in 1..Len(s) : s[i] = t[j]
  /\ \E i \in 1..Len(s) : s[i] = b

LEMMA OneMore ==
  ASSUME NEW s, NEW t, NEW b, Adds(s, t, b)
  PROVE  Members(s) = Members(t) \cup {b}
<1>1. ASSUME NEW x \in Members(s) PROVE x \in Members(t) \cup {b}
  <2>1. PICK i \in 1..Len(s) : s[i] = x
    BY DEF Members
  <2>a. s[i] = b \/ \E j \in 1..Len(t) : s[i] = t[j]
    BY DEF Adds
  <2>2. CASE s[i] = b
    BY <2>1, <2>2
  <2>3. CASE \E j \in 1..Len(t) : s[i] = t[j]
    BY <2>1, <2>3 DEF Members
  <2> QED BY <2>a, <2>2, <2>3
<1>2. ASSUME NEW x \in Members(t) PROVE x \in Members(s)
  <2>1. PICK j \in 1..Len(t) : t[j] = x
    BY DEF Members
  <2>2. \E i \in 1..Len(s) : s[i] = t[j]
    BY DEF Adds
  <2> QED BY <2>1, <2>2 DEF Members
<1>3. b \in Members(s)
  <2>1. \E i \in 1..Len(s) : s[i] = b
    BY DEF Adds
  <2> QED BY <2>1 DEF Members
<1> QED BY <1>1, <1>2, <1>3

(* The first of a list is in it, and its tail is the list without it. *)
LEMMA TailList ==
  ASSUME NEW s \in Seq(Blocks), s # <<>>
  PROVE  /\ Tail(s) \in Seq(Blocks) /\ Len(Tail(s)) = Len(s) - 1 /\ Len(s) \in Nat
         /\ Head(s) \in Members(s) /\ Head(s) \in Blocks
         /\ Members(s) = Members(Tail(s)) \cup {Head(s)}
         /\ Apart(s) => Apart(Tail(s)) /\ Head(s) \notin Members(Tail(s))
<1> DEFINE t == Tail(s)
<1>1. Len(s) \in Nat \ {0} /\ 1 \in 1..Len(s) /\ Head(s) = s[1] /\ s[1] \in Blocks
  OBVIOUS
<1>2. /\ t \in Seq(Blocks) /\ Len(t) = Len(s) - 1
      /\ \A i \in 1..(Len(s) - 1) : t[i] = s[i + 1]
  BY <1>1
<1> HIDE DEF t
<1>3. \A i \in 1..Len(t) : i + 1 \in 1..Len(s) /\ i + 1 # 1 /\ t[i] = s[i + 1]
  BY <1>1, <1>2
<1>4. \A i \in 1..Len(s) : i = 1 \/ (i - 1 \in 1..Len(t) /\ t[i - 1] = s[i])
  BY <1>1, <1>2
<1>5. Members(s) = Members(t) \cup {s[1]}
  <2>1. Adds(s, t, s[1])
    BY <1>1, <1>3, <1>4 DEF Adds
  <2> QED BY <2>1, OneMore
<1>6. ASSUME Apart(s)
      PROVE  Apart(t) /\ s[1] \notin Members(t)
  <2>1. Apart(t)
    <3> SUFFICES ASSUME NEW i \in 1..Len(t), NEW j \in 1..Len(t), t[i] = t[j] PROVE i = j
      BY DEF Apart
    <3>1. i + 1 = j + 1
      BY <1>3, <1>6 DEF Apart
    <3> QED BY <1>2, <3>1
  <2>2. \A i \in 1..Len(t) : t[i] # s[1]
    BY <1>1, <1>3, <1>6 DEF Apart
  <2> QED BY <2>1, <2>2 DEF Members
<1>7. s[1] \in Members(s)
  BY <1>1 DEF Members
<1> QED BY <1>1, <1>2, <1>5, <1>6, <1>7 DEF t

(* A block put in front of a list. *)
LEMMA FrontList ==
  ASSUME NEW s \in Seq(Blocks), NEW b \in Blocks
  PROVE  /\ <<b>> \o s \in Seq(Blocks) /\ Len(<<b>> \o s) = Len(s) + 1
         /\ Members(<<b>> \o s) = Members(s) \cup {b}
         /\ Apart(s) /\ b \notin Members(s) => Apart(<<b>> \o s)
<1> DEFINE t == <<b>> \o s
<1>1. Len(s) \in Nat /\ t \in Seq(Blocks) /\ Len(t) = Len(s) + 1
  OBVIOUS
<1>2. \A i \in 1..(Len(s) + 1) : t[i] = IF i = 1 THEN b ELSE s[i - 1]
  OBVIOUS
<1> HIDE DEF t
<1>3. 1 \in 1..Len(t) /\ t[1] = b
  BY <1>1, <1>2
<1>4. \A i \in 1..Len(t) : i = 1 \/ (i - 1 \in 1..Len(s) /\ t[i] = s[i - 1])
  BY <1>1, <1>2
<1>5. \A i \in 1..Len(s) : i + 1 \in 1..Len(t) /\ t[i + 1] = s[i]
  BY <1>1, <1>2
<1>6. Members(t) = Members(s) \cup {b}
  <2>1. Adds(t, s, b)
    BY <1>3, <1>4, <1>5 DEF Adds
  <2> QED BY <2>1, OneMore
<1>7. ASSUME Apart(s), b \notin Members(s)
      PROVE  Apart(t)
  <2> SUFFICES ASSUME NEW i \in 1..Len(t), NEW j \in 1..Len(t), t[i] = t[j] PROVE i = j
    BY DEF Apart
  <2>1. \A k \in 1..Len(s) : s[k] # b
    BY <1>7 DEF Members
  <2>2. CASE i = 1 \/ j = 1
    BY <1>3, <1>4, <2>1, <2>2
  <2>3. CASE i # 1 /\ j # 1
    <3>1. i - 1 = j - 1
      BY <1>4, <1>7, <2>3 DEF Apart
    <3> QED BY <1>1, <3>1
  <2> QED BY <2>2, <2>3
<1> QED BY <1>1, <1>6, <1>7 DEF t

(* A block put at the end of a list. *)
LEMMA BackList ==
  ASSUME NEW s \in Seq(Blocks), NEW b \in Blocks
  PROVE  /\ Append(s, b) \in Seq(Blocks)
         /\ Members(Append(s, b)) = Members(s) \cup {b}
         /\ Apart(s) /\ b \notin Members(s) => Apart(Append(s, b))
<1> DEFINE t == Append(s, b)
<1>1. Len(s) \in Nat /\ t \in Seq(Blocks) /\ Len(t) = Len(s) + 1
  OBVIOUS
<1>2. \A i \in 1..(Len(s) + 1) : t[i] = IF i = Len(s) + 1 THEN b ELSE s[i]
  OBVIOUS
<1> HIDE DEF t
<1>3. Len(t) \in 1..Len(t) /\ t[Len(t)] = b
  BY <1>1, <1>2
<1>4. \A i \in 1..Len(t) : i = Len(t) \/ (i \in 1..Len(s) /\ t[i] = s[i])
  BY <1>1, <1>2
<1>5. \A i \in 1..Len(s) : i \in 1..Len(t) /\ i # Len(t) /\ t[i] = s[i]
  BY <1>1, <1>2
<1>6. Members(t) = Members(s) \cup {b}
  <2>1. Adds(t, s, b)
    BY <1>3, <1>4, <1>5 DEF Adds
  <2> QED BY <2>1, OneMore
<1>7. ASSUME Apart(s), b \notin Members(s)
      PROVE  Apart(t)
  <2> SUFFICES ASSUME NEW i \in 1..Len(t), NEW j \in 1..Len(t), t[i] = t[j] PROVE i = j
    BY DEF Apart
  <2>1. \A k \in 1..Len(s) : s[k] # b
    BY <1>7 DEF Members
  <2>2. CASE i = Len(t) \/ j = Len(t)
    BY <1>3, <1>4, <2>1, <2>2
  <2>3. CASE i # Len(t) /\ j # Len(t)
    BY <1>4, <1>7, <2>3 DEF Apart
  <2> QED BY <2>2, <2>3
<1> QED BY <1>1, <1>6, <1>7 DEF t

(* An empty list has nothing in it. *)
LEMMA NoList == <<>> \in Seq(Blocks) /\ Members(<<>>) = {} /\ Apart(<<>>) /\ Len(<<>>) = 0
  BY DEF Members, Apart

(* A block linked into an owner's chain, in front or second. *)
LEMMA LinkedList ==
  ASSUME NEW c \in Seq(Blocks), NEW b \in Blocks
  PROVE  /\ Linked(c, b) \in Seq(Blocks)
         /\ Members(Linked(c, b)) = Members(c) \cup {b}
         /\ Apart(c) /\ b \notin Members(c) => Apart(Linked(c, b))
<1>1. CASE Linked(c, b) = <<b>> \o c
  BY <1>1, FrontList
<1>2. CASE Linked(c, b) = <<Head(c), b>> \o Tail(c) /\ c # <<>>
  <2> DEFINE h == Head(c)
             t == Tail(c)
             u == <<b>> \o t
  <2>1. /\ t \in Seq(Blocks) /\ h \in Blocks /\ Members(c) = Members(t) \cup {h}
        /\ Apart(c) => Apart(t) /\ h \notin Members(t)
    BY <1>2, TailList
  <2>2. <<h, b>> \o t = <<h>> \o u
    BY <2>1
  <2> HIDE DEF h, t
  <2>3. /\ u \in Seq(Blocks) /\ Members(u) = Members(t) \cup {b}
        /\ Apart(t) /\ b \notin Members(t) => Apart(u)
    BY <2>1, FrontList
  <2> HIDE DEF u
  <2>4. /\ <<h>> \o u \in Seq(Blocks) /\ Members(<<h>> \o u) = Members(u) \cup {h}
        /\ Apart(u) /\ h \notin Members(u) => Apart(<<h>> \o u)
    BY <2>1, <2>3, FrontList
  <2>5. Linked(c, b) = <<h>> \o u
    BY <1>2, <2>2 DEF h, t
  <2> QED BY <2>1, <2>3, <2>4, <2>5
<1> QED BY <1>1, <1>2 DEF Linked

-----------------------------------------------------------------------------
(* Blocks. *)

LEMMA AlignedNat ==
  ASSUME NEW len \in Nat
  PROVE  Aligned(len) \in Nat
<1>1. Alignment \in Nat /\ Alignment > 0
  BY AllocAssumption
<1> DEFINE q == (len + Alignment - 1) \div Alignment
<1>2. len + Alignment - 1 \in Nat
  BY <1>1
<1>3. q \in Nat
  BY <1>1, <1>2
<1> HIDE DEF q
<1>4. q * Alignment \in Nat
  BY <1>1, <1>3
<1> QED BY <1>4 DEF Aligned, q

(* b was in the pool or nowhere, and has room for what was asked for. *)
Taken(b, page, needed) ==
  /\ ~Held(b)
  /\ pool' \in Seq(Blocks) /\ Apart(pool') /\ Members(pool') = Members(pool) \ {b}
  /\ Len(pool') <= Len(pool)
  /\ heap' \in [Blocks -> Nat] /\ heap'[b] # 0
  /\ \A c \in Blocks : c # b => heap'[c] = heap[c]
  /\ size' \in [Blocks -> Nat] /\ size'[b] >= needed + Header /\ size'[b] >= page
  /\ \A c \in Blocks : c # b => size'[c] = size[c]
  /\ (\A c \in Members(pool) : page <= heap[c]) => size'[b] <= heap'[b]

LEMMA TakeFromSystem ==
  ASSUME Sound, NEW page \in Nat \cup {NoPool}, NEW needed \in Nat, NEW b \in Blocks,
         NEW bytes \in Nat, bytes >= needed + Header, bytes >= page,
         FromSystem(b, bytes), size' = [size EXCEPT ![b] = bytes]
  PROVE  Taken(b, page, needed)
<1>1. /\ pool \in Seq(Blocks) /\ Apart(pool) /\ Len(pool) \in Nat
      /\ heap \in [Blocks -> Nat] /\ size \in [Blocks -> Nat]
      /\ Header \in Nat /\ Header > 0 /\ NoPool = -1
  BY AllocAssumption DEF Sound, TypeOK, ListsApart, NoPool
<1>2. heap[b] = 0 /\ heap' = [heap EXCEPT ![b] = bytes] /\ pool' = pool
  BY DEF FromSystem
<1>3. ~Held(b) /\ b \notin Members(pool)
  BY <1>2 DEF Sound, HeapListed
<1>4. bytes # 0
  BY <1>1
<1> QED BY <1>1, <1>2, <1>3, <1>4 DEF Taken

LEMMA TakeFromPool ==
  ASSUME Sound, NEW page \in Nat \cup {NoPool}, NEW needed \in Nat, NEW b \in Blocks,
         page >= needed + Header, pool # <<>>, b = Head(pool), pool' = Tail(pool),
         UNCHANGED heap, size' = [size EXCEPT ![b] = page]
  PROVE  Taken(b, page, needed)
<1>1. /\ pool \in Seq(Blocks) /\ Apart(pool)
      /\ heap \in [Blocks -> Nat] /\ size \in [Blocks -> Nat]
      /\ Header \in Nat /\ Header > 0 /\ NoPool = -1
  BY AllocAssumption DEF Sound, TypeOK, ListsApart, NoPool
<1>2. /\ pool' \in Seq(Blocks) /\ Len(pool') = Len(pool) - 1 /\ Len(pool) \in Nat
      /\ b \in Members(pool) /\ Members(pool) = Members(pool') \cup {b}
      /\ Apart(pool') /\ b \notin Members(pool')
  BY <1>1, TailList
<1>3. ~Held(b) /\ heap[b] # 0
  BY <1>2 DEF Sound, ListsApart, HeapListed
<1>4. page \in Nat
  BY <1>1
<1> QED BY <1>1, <1>2, <1>3, <1>4 DEF Taken

(* _ion_alloc_block, which takes either. *)
LEMMA TakeBlock ==
  ASSUME Sound, NEW page \in Nat \cup {NoPool}, NEW needed \in Nat, NEW b \in Blocks,
         AllocBlock(page, needed, b)
  PROVE  Taken(b, page, needed)
<1>1. Header \in Nat /\ Header > 0 /\ NoPool = -1
  BY AllocAssumption DEF NoPool
<1>2. CASE needed + Header > page
  <2> DEFINE bytes == needed + Header
  <2>1. FromSystem(b, bytes) /\ size' = [size EXCEPT ![b] = bytes]
    BY <1>2 DEF AllocBlock, IsOversize
  <2>2. bytes \in Nat /\ bytes >= needed + Header /\ bytes >= page
    BY <1>1, <1>2
  <2> HIDE DEF bytes
  <2> QED BY <2>1, <2>2, TakeFromSystem
<1>3. CASE ~(needed + Header > page)
  <2>1. AllocPage(page, b) /\ size' = [size EXCEPT ![b] = page]
    BY <1>3 DEF AllocBlock, IsOversize
  <2>2. page \in Nat /\ page >= needed + Header /\ page >= page
    BY <1>1, <1>3
  <2>3. CASE pool = <<>>
    <3>1. FromSystem(b, page)
      BY <2>1, <2>3 DEF AllocPage
    <3> QED BY <2>1, <2>2, <3>1, TakeFromSystem
  <2>4. CASE pool # <<>>
    <3>1. b = Head(pool) /\ pool' = Tail(pool) /\ UNCHANGED heap
      BY <2>1, <2>4 DEF AllocPage
    <3> QED BY <2>1, <2>2, <2>4, <3>1, TakeFromPool
  <2> QED BY <2>3, <2>4
<1> QED BY <1>2, <1>3

-----------------------------------------------------------------------------
(* Chunks. *)

(* A chunk in a block of its owner, where nothing else is, is as good as    *)
(* the others, which stay where they are.                                   *)
LEMMA PlaceKeeps ==
  ASSUME Sound, NEW op, NEW o \in Blocks, NEW b \in Blocks, NEW from \in Nat, NEW len \in Nat,
         Place(op, o, b, from, len),
         \A c \in chunks : c.block = b => used[b] <= from,
         o \in Owners', b = o \/ b \in Members(chain'[o]), Owners \subseteq Owners',
         \A p \in Owners : Members(chain[p]) \subseteq Members(chain'[p])
  PROVE  /\ used' \in [Blocks -> Nat]
         /\ chunks' \subseteq [owner : Blocks, block : Blocks, from : Nat, len : Nat]
         /\ ChunksPlaced'
<1>1. /\ used' = [used EXCEPT ![b] = from + len]
      /\ chunks' = chunks \cup {[owner |-> o, block |-> b, from |-> from, len |-> len]}
  BY DEF Place
<1>2. /\ used \in [Blocks -> Nat]
      /\ chunks \subseteq [owner : Blocks, block : Blocks, from : Nat, len : Nat]
  BY DEF Sound, TypeOK
<1>3. used'[b] = from + len /\ used' \in [Blocks -> Nat]
  BY <1>1, <1>2
<1>4. ASSUME NEW c \in chunks
      PROVE  /\ c.owner \in Owners'
             /\ c.block = c.owner \/ c.block \in Members(chain'[c.owner])
             /\ c.from + c.len <= used'[c.block]
  <2>1. /\ c.owner \in Owners
        /\ c.block = c.owner \/ c.block \in Members(chain[c.owner])
        /\ c.from + c.len <= used[c.block] /\ c.block \in Blocks
        /\ c.from \in Nat /\ c.len \in Nat
    BY <1>2 DEF Sound, ChunksPlaced
  <2>2. c.owner \in Owners' /\ Members(chain[c.owner]) \subseteq Members(chain'[c.owner])
    BY <2>1
  <2>3. c.from + c.len <= used'[c.block]
    <3>1. CASE c.block = b
      <4>1. used[b] <= from /\ used[b] \in Nat
        BY <1>2, <3>1
      <4> QED BY <1>3, <2>1, <3>1, <4>1
    <3>2. CASE c.block # b
      BY <1>1, <1>2, <2>1, <3>2
    <3> QED BY <3>1, <3>2
  <2> QED BY <2>1, <2>2, <2>3
<1>5. ASSUME NEW c, c = [owner |-> o, block |-> b, from |-> from, len |-> len]
      PROVE  /\ c.owner \in Owners'
             /\ c.block = c.owner \/ c.block \in Members(chain'[c.owner])
             /\ c.from + c.len <= used'[c.block]
  BY <1>3, <1>5
<1> QED BY <1>1, <1>2, <1>3, <1>4, <1>5 DEF ChunksPlaced

(* Callers hold nothing in a block that no owner has. *)
LEMMA FreeOfChunks ==
  ASSUME Sound, NEW b, ~Held(b), NEW c \in chunks
  PROVE  c.block # b
  BY DEF Sound, ChunksPlaced, Held, Chained

-----------------------------------------------------------------------------
(* The steps. *)

(* A block that was in the pool or nowhere is now held, and nothing else    *)
(* has moved.                                                               *)
Rehoused(b) ==
  /\ \A c \in Blocks : Held(c)' <=> Held(c) \/ c = b
  /\ Members(pool') = Members(pool) \ {b}

LEMMA RehousedListed ==
  ASSUME Sound, NEW page, NEW needed, NEW b \in Blocks, Taken(b, page, needed), Rehoused(b)
  PROVE  HeapListed'
<1> SUFFICES ASSUME NEW c \in Blocks
             PROVE  heap'[c] # 0 <=> c \in Members(pool') \/ Held(c)'
  BY DEF HeapListed
<1>1. heap[c] # 0 <=> c \in Members(pool) \/ Held(c)
  BY DEF Sound, HeapListed
<1>2. /\ Held(c)' <=> Held(c) \/ c = b
      /\ c \in Members(pool') <=> c \in Members(pool) /\ c # b
  BY DEF Rehoused
<1>3. (c = b => heap'[c] # 0) /\ (c # b => heap'[c] = heap[c])
  BY DEF Taken
<1> QED BY <1>1, <1>2, <1>3

(* _ion_alloc_owner, when there is memory. *)
LEMMA OwnerKeeps ==
  ASSUME Sound, NEW len \in Nat, NEW b \in Blocks, NEW page \in Nat, page >= MinPage,
         AllocBlock(page, len, b), Place("alloc_owner", b, b, 0, len),
         pageSize' = page, limit' \in Nat \cup {NoLimit}, UNCHANGED freeing,
         chain' = [o \in Owners \cup {b} |-> IF o = b THEN <<>> ELSE chain[o]]
  PROVE  Sound' /\ Taken(b, page, len) /\ Rehoused(b) /\ Owners' = Owners \cup {b} /\ b \notin Owners
<1>1. Taken(b, page, len)
  BY TakeBlock
<1>2. /\ ~Held(b) /\ b \notin Owners /\ ~Chained(b) /\ b \notin Members(freeing)
      /\ pool' \in Seq(Blocks) /\ Apart(pool') /\ Members(pool') = Members(pool) \ {b}
      /\ heap' \in [Blocks -> Nat] /\ size' \in [Blocks -> Nat]
  BY <1>1 DEF Taken, Held
<1>3. /\ Owners' = Owners \cup {b} /\ chain'[b] = <<>> /\ \A o \in Owners : chain'[o] = chain[o]
  BY <1>2 DEF Owners
<1>4. Owners \subseteq Blocks /\ chain \in [Owners -> Seq(Blocks)]
  BY DEF Sound, TypeOK
<1>5. Owners' \subseteq Blocks /\ chain' \in [Owners' -> Seq(Blocks)]
  BY <1>3, <1>4, NoList
<1>6. \A c : Chained(c)' <=> Chained(c)
  BY <1>3, NoList DEF Chained
<1>7. \A c : Held(c)' <=> Held(c) \/ c = b
  BY <1>3, <1>6 DEF Held
<1>8. Rehoused(b)
  BY <1>2, <1>7 DEF Rehoused
<1>9. ListsApart'
  <2>1. Apart(pool') /\ Apart(freeing') /\ \A o \in Owners' : Apart(chain'[o])
    BY <1>2, <1>3, NoList DEF Sound, ListsApart
  <2>2. \A c \in Members(pool') : ~Held(c)'
    BY <1>2, <1>7 DEF Sound, ListsApart
  <2>3. \A c \in Members(freeing') : c \notin Owners' /\ ~Chained(c)'
    BY <1>2, <1>3, <1>6 DEF Sound, ListsApart
  <2>4. \A c \in Owners' : ~Chained(c)'
    BY <1>2, <1>3, <1>6 DEF Sound, ListsApart
  <2>5. \A o, p \in Owners' : o # p => Members(chain'[o]) \cap Members(chain'[p]) = {}
    BY <1>3, NoList DEF Sound, ListsApart
  <2> QED BY <2>1, <2>2, <2>3, <2>4, <2>5 DEF ListsApart
<1>10. HeapListed'
  BY <1>1, <1>8, RehousedListed
<1>11. /\ used' \in [Blocks -> Nat] /\ ChunksPlaced'
       /\ chunks' \subseteq [owner : Blocks, block : Blocks, from : Nat, len : Nat]
  <2>1. \A c \in chunks : c.block # b
    BY <1>2, FreeOfChunks
  <2>2. \A o \in Owners : Members(chain[o]) \subseteq Members(chain'[o])
    BY <1>3
  <2>3. 0 \in Nat /\ b \in Owners' /\ Owners \subseteq Owners'
    BY <1>3
  <2> QED BY <2>1, <2>2, <2>3, PlaceKeeps
<1>12. TypeOK'
  BY <1>2, <1>5, <1>11 DEF Sound, TypeOK
<1> QED BY <1>1, <1>2, <1>3, <1>8, <1>9, <1>10, <1>11, <1>12 DEF Sound

(* _ion_alloc_with_owner, when a new block is needed and there is one. *)
LEMMA NewBlockKeeps ==
  ASSUME Sound, NEW o \in Owners, NEW len \in Nat, NEW b \in Blocks,
         AllocBlock(pageSize, len, b), Place("alloc", o, b, 0, len),
         UNCHANGED <<pageSize, limit, freeing>>,
         chain' = [chain EXCEPT ![o] = Linked(@, b)]
  PROVE  Sound' /\ Taken(b, pageSize, len) /\ Rehoused(b) /\ Owners' = Owners
<1>1. Taken(b, pageSize, len)
  BY TakeBlock DEF Sound, TypeOK
<1>2. /\ ~Held(b) /\ b \notin Owners /\ ~Chained(b) /\ b \notin Members(freeing)
      /\ pool' \in Seq(Blocks) /\ Apart(pool') /\ Members(pool') = Members(pool) \ {b}
      /\ heap' \in [Blocks -> Nat] /\ size' \in [Blocks -> Nat]
  BY <1>1 DEF Taken, Held
<1>3. Owners \subseteq Blocks /\ chain \in [Owners -> Seq(Blocks)] /\ b \notin Members(chain[o])
  BY <1>2 DEF Sound, TypeOK, Chained
<1>4. /\ Owners' = Owners /\ \A p \in Owners : p # o => chain'[p] = chain[p]
      /\ chain'[o] = Linked(chain[o], b)
  BY <1>3 DEF Owners
<1>5. /\ chain'[o] \in Seq(Blocks) /\ Members(chain'[o]) = Members(chain[o]) \cup {b}
      /\ Apart(chain'[o])
  <2>1. chain[o] \in Seq(Blocks) /\ Apart(chain[o])
    BY <1>3 DEF Sound, ListsApart
  <2> DEFINE c == chain[o]
  <2>2. chain'[o] = Linked(c, b) /\ c \in Seq(Blocks) /\ Apart(c) /\ b \notin Members(c)
    BY <1>3, <1>4, <2>1
  <2> HIDE DEF c
  <2>3. /\ Linked(c, b) \in Seq(Blocks) /\ Members(Linked(c, b)) = Members(c) \cup {b}
        /\ Apart(Linked(c, b))
    BY <2>2, LinkedList
  <2> QED BY <2>2, <2>3 DEF c
<1>6. Owners' \subseteq Blocks /\ chain' \in [Owners' -> Seq(Blocks)]
  BY <1>3, <1>4, <1>5 DEF Owners
<1>7. \A c : Chained(c)' <=> Chained(c) \/ c = b
  BY <1>4, <1>5 DEF Chained
<1>8. \A c : Held(c)' <=> Held(c) \/ c = b
  BY <1>4, <1>7 DEF Held
<1>9. Rehoused(b)
  BY <1>2, <1>8 DEF Rehoused
<1>10. ListsApart'
  <2>1. Apart(pool') /\ Apart(freeing') /\ \A p \in Owners' : Apart(chain'[p])
    BY <1>2, <1>4, <1>5 DEF Sound, ListsApart
  <2>2. \A c \in Members(pool') : ~Held(c)'
    BY <1>2, <1>8 DEF Sound, ListsApart
  <2>3. \A c \in Members(freeing') : c \notin Owners' /\ ~Chained(c)'
    BY <1>2, <1>4, <1>7 DEF Sound, ListsApart
  <2>4. \A c \in Owners' : ~Chained(c)'
    BY <1>2, <1>4, <1>7 DEF Sound, ListsApart
  <2>5. \A p, q \in Owners' : p # q => Members(chain'[p]) \cap Members(chain'[q]) = {}
    <3> SUFFICES ASSUME NEW p \in Owners, NEW q \in Owners, p # q
                 PROVE  Members(chain'[p]) \cap Members(chain'[q]) = {}
      BY <1>4
    <3>1. b \notin Members(chain[p]) /\ b \notin Members(chain[q])
      BY <1>2 DEF Chained
    <3>2. Members(chain[p]) \cap Members(chain[q]) = {}
      BY DEF Sound, ListsApart
    <3>3. /\ Members(chain'[p]) = Members(chain[p]) \/ (p = o /\ Members(chain'[p]) = Members(chain[p]) \cup {b})
          /\ Members(chain'[q]) = Members(chain[q]) \/ (q = o /\ Members(chain'[q]) = Members(chain[q]) \cup {b})
      BY <1>4, <1>5
    <3> QED BY <3>1, <3>2, <3>3
  <2> QED BY <2>1, <2>2, <2>3, <2>4, <2>5 DEF ListsApart
<1>11. HeapListed'
  BY <1>1, <1>9, RehousedListed
<1>12. /\ used' \in [Blocks -> Nat] /\ ChunksPlaced'
       /\ chunks' \subseteq [owner : Blocks, block : Blocks, from : Nat, len : Nat]
  <2>1. \A c \in chunks : c.block # b
    BY <1>2, FreeOfChunks
  <2>2. \A p \in Owners : Members(chain[p]) \subseteq Members(chain'[p])
    BY <1>4, <1>5
  <2>3. 0 \in Nat /\ o \in Blocks /\ o \in Owners' /\ b \in Members(chain'[o]) /\ Owners \subseteq Owners'
    BY <1>3, <1>4, <1>5
  <2> QED BY <2>1, <2>2, <2>3, PlaceKeeps
<1>13. TypeOK'
  BY <1>2, <1>6, <1>12 DEF Sound, TypeOK
<1> QED BY <1>1, <1>4, <1>9, <1>10, <1>11, <1>12, <1>13 DEF Sound

(* _ion_alloc_with_owner, when a block of the owner's has room. *)
LEMMA InBlockKeeps ==
  ASSUME Sound, NEW o \in Owners, NEW len \in Nat, NEW b \in Blocks,
         AllocInBlock(o, len, b), UNCHANGED <<pageSize, limit, freeing>>
  PROVE  Sound' /\ Place("alloc", o, b, used[b], len)
<1>1. /\ UNCHANGED <<pageSize, limit, pool, heap, size, chain, freeing>>
      /\ Place("alloc", o, b, used[b], len)
      /\ b # o => chain[o] # <<>> /\ b = Head(chain[o])
  BY DEF AllocInBlock
<1>2. chain \in [Owners -> Seq(Blocks)] /\ o \in Blocks /\ used[b] \in Nat
  BY DEF Sound, TypeOK
<1>3. Owners' = Owners
  BY <1>1 DEF Owners
<1>4. b = o \/ b \in Members(chain'[o])
  <2>1. chain[o] \in Seq(Blocks)
    BY <1>2
  <2> QED BY <1>1, <2>1, TailList
<1>5. /\ used' \in [Blocks -> Nat] /\ ChunksPlaced'
      /\ chunks' \subseteq [owner : Blocks, block : Blocks, from : Nat, len : Nat]
  <2> DEFINE from == used[b]
  <2>1. \A c \in chunks : c.block = b => used[b] <= from
    BY <1>2
  <2>2. \A p \in Owners : Members(chain[p]) \subseteq Members(chain'[p])
    BY <1>1
  <2>3. from \in Nat /\ Place("alloc", o, b, from, len) /\ o \in Owners' /\ Owners \subseteq Owners'
    BY <1>1, <1>2, <1>3
  <2> HIDE DEF from
  <2> QED BY <1>2, <1>4, <2>1, <2>2, <2>3, PlaceKeeps
<1>6. TypeOK'
  BY <1>1, <1>3, <1>5 DEF Sound, TypeOK
<1>7. ListsApart' /\ HeapListed'
  <2>1. \A c : (Held(c)' <=> Held(c)) /\ (Chained(c)' <=> Chained(c))
    BY <1>1, <1>3 DEF Held, Chained
  <2> QED BY <1>1, <1>3, <2>1 DEF Sound, ListsApart, HeapListed
<1> QED BY <1>1, <1>5, <1>6, <1>7 DEF Sound

(* _ion_free_owner: his blocks are moved to what is being freed, all of     *)
(* them and with nothing among them that was not his.                       *)
LEMMA FreeOwnerKeeps ==
  ASSUME Sound, NEW o \in Owners, FreeOwner(o)
  PROVE  Sound' /\ Owners' = Owners \ {o} /\ \A c : Held(c)' <=> Held(c)
<1>1. /\ freeing = <<>> /\ freeing' = Append(chain[o], o)
      /\ chain' = [p \in Owners \ {o} |-> chain[p]]
      /\ chunks' = {c \in chunks : c.owner # o}
      /\ UNCHANGED <<pageSize, limit, pool, heap, size, used>>
  BY DEF FreeOwner, Idle
<1>2. Owners \subseteq Blocks /\ chain \in [Owners -> Seq(Blocks)] /\ o \in Blocks
  BY DEF Sound, TypeOK
<1>3. Owners' = Owners \ {o} /\ \A p \in Owners' : chain'[p] = chain[p]
  BY <1>1 DEF Owners
<1>4. chain[o] \in Seq(Blocks) /\ Apart(chain[o]) /\ o \notin Members(chain[o])
  BY <1>2 DEF Sound, ListsApart, Chained
<1>5. /\ freeing' \in Seq(Blocks) /\ Apart(freeing')
      /\ Members(freeing') = Members(chain[o]) \cup {o}
  <2> DEFINE s == chain[o]
  <2>1. s \in Seq(Blocks) /\ Apart(s) /\ o \notin Members(s) /\ freeing' = Append(s, o)
    BY <1>1, <1>4
  <2> HIDE DEF s
  <2>2. /\ freeing' \in Seq(Blocks) /\ Apart(freeing')
        /\ Members(freeing') = Members(s) \cup {o}
    BY <1>2, <2>1, BackList
  <2> QED BY <2>2 DEF s
<1>6. Members(freeing) = {}
  BY <1>1, NoList
<1>7. \A c : Chained(c) <=> Chained(c)' \/ c \in Members(chain[o])
  BY <1>3 DEF Chained
<1>8. \A c : Held(c)' <=> Held(c)
  BY <1>3, <1>5, <1>6, <1>7 DEF Held
<1>9. TypeOK'
  <2>1. Owners' \subseteq Blocks /\ chain' \in [Owners' -> Seq(Blocks)]
    BY <1>1, <1>2, <1>3
  <2> QED BY <1>1, <1>5, <2>1 DEF Sound, TypeOK
<1>10. ListsApart'
  <2>1. Apart(pool') /\ Apart(freeing') /\ \A p \in Owners' : Apart(chain'[p])
    BY <1>1, <1>3, <1>5 DEF Sound, ListsApart
  <2>2. \A c \in Members(pool') : ~Held(c)'
    BY <1>1, <1>8 DEF Sound, ListsApart
  <2>3. ASSUME NEW c \in Members(freeing')
        PROVE  c \notin Owners' /\ ~Chained(c)'
    <3>1. CASE c = o
      BY <1>3, <1>7, <3>1 DEF Sound, ListsApart
    <3>2. CASE c \in Members(chain[o])
      <4>1. Chained(c)
        BY <1>7, <3>2
      <4>2. c \notin Owners
        BY <4>1 DEF Sound, ListsApart
      <4>3. \A p \in Owners' : c \notin Members(chain'[p])
        BY <1>3, <3>2 DEF Sound, ListsApart
      <4> QED BY <1>3, <4>2, <4>3 DEF Chained
    <3> QED BY <1>5, <3>1, <3>2
  <2>4. \A c \in Owners' : ~Chained(c)'
    BY <1>3, <1>7 DEF Sound, ListsApart
  <2>5. \A p, q \in Owners' : p # q => Members(chain'[p]) \cap Members(chain'[q]) = {}
    BY <1>3 DEF Sound, ListsApart
  <2> QED BY <2>1, <2>2, <2>3, <2>4, <2>5 DEF ListsApart
<1>11. HeapListed'
  BY <1>1, <1>8 DEF Sound, HeapListed
<1>12. ChunksPlaced'
  BY <1>1, <1>3 DEF Sound, ChunksPlaced
<1> QED BY <1>3, <1>8, <1>9, <1>10, <1>11, <1>12 DEF Sound

(* _ion_free_block: the block goes to the system or to the pool. *)
LEMMA FreeBlockKeeps ==
  ASSUME Sound, FreeBlock
  PROVE  Sound' /\ Owners' = Owners /\ \A c : Held(c)' <=> Held(c) /\ c # Head(freeing)
<1> DEFINE b == Head(freeing)
<1>1. /\ freeing # <<>> /\ freeing' = Tail(freeing)
      /\ UNCHANGED <<pageSize, limit, size, used, chain, chunks>>
      /\ \/ heap' = [heap EXCEPT ![b] = 0] /\ pool' = pool
         \/ pool' = <<b>> \o pool /\ heap' = heap
  BY DEF FreeBlock, Rest
<1>2. /\ freeing' \in Seq(Blocks) /\ b \in Members(freeing) /\ b \in Blocks
      /\ Members(freeing) = Members(freeing') \cup {b}
      /\ Apart(freeing') /\ b \notin Members(freeing')
  BY <1>1, TailList DEF Sound, TypeOK, ListsApart
<1> HIDE DEF b
<1>3. Owners' = Owners /\ \A c : Chained(c)' <=> Chained(c)
  BY <1>1 DEF Owners, Chained
<1>4. Held(b) /\ b \notin Owners /\ ~Chained(b) /\ b \notin Members(pool)
  BY <1>2 DEF Sound, ListsApart, Held
<1>5. \A c : Held(c)' <=> Held(c) /\ c # b
  BY <1>2, <1>3, <1>4 DEF Held
<1>6. /\ pool' \in Seq(Blocks) /\ Apart(pool') /\ heap' \in [Blocks -> Nat]
      /\ \A c \in Blocks : c # b => heap'[c] = heap[c]
      /\ \/ heap'[b] = 0 /\ Members(pool') = Members(pool)
         \/ heap'[b] = heap[b] /\ Members(pool') = Members(pool) \cup {b}
  <2>1. pool \in Seq(Blocks) /\ Apart(pool) /\ heap \in [Blocks -> Nat]
    BY DEF Sound, TypeOK, ListsApart
  <2>2. CASE heap' = [heap EXCEPT ![b] = 0] /\ pool' = pool
    BY <1>2, <2>1, <2>2
  <2>3. CASE pool' = <<b>> \o pool /\ heap' = heap
    BY <1>2, <1>4, <2>1, <2>3, FrontList
  <2> QED BY <1>1, <2>2, <2>3
<1>7. TypeOK'
  BY <1>1, <1>2, <1>3, <1>6 DEF Sound, TypeOK
<1>8. ListsApart'
  <2>1. Apart(pool') /\ Apart(freeing') /\ \A o \in Owners' : Apart(chain'[o])
    BY <1>1, <1>2, <1>3, <1>6 DEF Sound, ListsApart
  <2>2. \A c \in Members(pool') : ~Held(c)'
    BY <1>5, <1>6 DEF Sound, ListsApart
  <2>3. \A c \in Members(freeing') : c \notin Owners' /\ ~Chained(c)'
    BY <1>2, <1>3 DEF Sound, ListsApart
  <2>4. \A c \in Owners' : ~Chained(c)'
    BY <1>3 DEF Sound, ListsApart
  <2>5. \A o, p \in Owners' : o # p => Members(chain'[o]) \cap Members(chain'[p]) = {}
    BY <1>1, <1>3 DEF Sound, ListsApart
  <2> QED BY <2>1, <2>2, <2>3, <2>4, <2>5 DEF ListsApart
<1>9. HeapListed'
  <2> SUFFICES ASSUME NEW c \in Blocks
               PROVE  heap'[c] # 0 <=> c \in Members(pool') \/ Held(c)'
    BY DEF HeapListed
  <2>1. heap[c] # 0 <=> c \in Members(pool) \/ Held(c)
    BY DEF Sound, HeapListed
  <2>2. CASE c = b
    BY <1>4, <1>5, <1>6, <2>1, <2>2
  <2>3. CASE c # b
    BY <1>5, <1>6, <2>1, <2>3
  <2> QED BY <2>2, <2>3
<1>10. ChunksPlaced'
  BY <1>1, <1>3 DEF Sound, ChunksPlaced
<1> QED BY <1>3, <1>5, <1>7, <1>8, <1>9, <1>10 DEF Sound, b

(* ion_initialize_page_pool. *)
LEMMA InitializeKeeps ==
  ASSUME Sound, NEW page \in PageSizes, NEW lim \in Limits \cup {NoLimit},
         InitializePool(page, lim)
  PROVE  Sound' /\ Owners' = Owners /\ \A c : Held(c)' <=> Held(c)
<1>1. /\ pageSize' = (IF page < MinPage THEN MinPage ELSE page) /\ limit' = lim
      /\ UNCHANGED <<pool, heap, size, used, chain, freeing, chunks>>
  BY DEF InitializePool
<1>2. /\ pageSize' \in Nat \cup {NoPool} /\ pageSize' >= MinPage
      /\ limit' \in Nat \cup {NoLimit}
  BY <1>1, AllocAssumption
<1>3. Owners' = Owners /\ \A c : (Chained(c)' <=> Chained(c)) /\ (Held(c)' <=> Held(c))
  BY <1>1 DEF Owners, Chained, Held
<1>4. TypeOK'
  BY <1>1, <1>2, <1>3 DEF Sound, TypeOK
<1>5. ListsApart' /\ HeapListed' /\ ChunksPlaced'
  BY <1>1, <1>3 DEF Sound, ListsApart, HeapListed, ChunksPlaced
<1> QED BY <1>3, <1>4, <1>5 DEF Sound

(* ion_release_page_pool: every page of the pool goes to the system. *)
LEMMA ReleaseKeeps ==
  ASSUME Sound, ReleasePool
  PROVE  Sound' /\ Owners' = Owners /\ \A c : Held(c)' <=> Held(c)
<1>1. /\ heap' = [b \in Blocks |-> IF b \in Members(pool) THEN 0 ELSE heap[b]]
      /\ pool' = <<>> /\ pageSize' = NoPool
      /\ UNCHANGED <<limit, size, used, chain, freeing, chunks>>
  <2>1. heap' = [b \in Blocks |-> IF \E i \in 1..Len(pool) : pool[i] = b THEN 0 ELSE heap[b]]
    BY DEF ReleasePool
  <2>2. \A b : b \in Members(pool) <=> \E i \in 1..Len(pool) : pool[i] = b
    BY DEF Members
  <2> QED BY <2>1, <2>2 DEF ReleasePool
<1>2. Owners' = Owners /\ \A c : (Chained(c)' <=> Chained(c)) /\ (Held(c)' <=> Held(c))
  BY <1>1 DEF Owners, Chained, Held
<1>3. heap' \in [Blocks -> Nat] /\ pool' \in Seq(Blocks) /\ Members(pool') = {} /\ Apart(pool')
  BY <1>1, NoList DEF Sound, TypeOK
<1>4. TypeOK'
  BY <1>1, <1>2, <1>3 DEF Sound, TypeOK
<1>5. ListsApart' /\ ChunksPlaced'
  BY <1>1, <1>2, <1>3 DEF Sound, ListsApart, ChunksPlaced
<1>6. HeapListed'
  BY <1>1, <1>2, <1>3 DEF Sound, HeapListed, ListsApart
<1> QED BY <1>2, <1>4, <1>5, <1>6 DEF Sound

(* A call that gets no memory leaves everything but the pool's first        *)
(* settings as it was.                                                      *)
LEMMA FailKeeps ==
  ASSUME Sound, NEW page, NEW needed, NEW op, AllocBlockFails(page, needed, op), UNCHANGED freeing,
         pageSize' \in Nat \cup {NoPool}, pageSize' # NoPool => pageSize' >= MinPage,
         limit' \in Nat \cup {NoLimit}
  PROVE  Sound' /\ Owners' = Owners /\ \A c : Held(c)' <=> Held(c)
<1>1. UNCHANGED <<pool, heap, size, used, chain, chunks, freeing>>
  BY DEF AllocBlockFails
<1>2. Owners' = Owners /\ \A c : (Chained(c)' <=> Chained(c)) /\ (Held(c)' <=> Held(c))
  BY <1>1 DEF Owners, Chained, Held
<1>3. TypeOK'
  BY <1>1, <1>2 DEF Sound, TypeOK
<1>4. ListsApart' /\ HeapListed' /\ ChunksPlaced'
  BY <1>1, <1>2 DEF Sound, ListsApart, HeapListed, ChunksPlaced
<1> QED BY <1>2, <1>3, <1>4 DEF Sound

-----------------------------------------------------------------------------
(* What the arena sees of the steps. *)

ArenaStep == [Arena!Next]_<<CellsHeld, res>>

LEMMA CellsIn ==
  ASSUME NEW o, NEW y
  PROVE  y \in CellsOf(o) <=> \E c \in chunks : c.owner = o /\ y \in Cells(c)
  BY DEF CellsOf

(* Where no chunk of a block ends behind a position, no chunk has a cell    *)
(* from there on.                                                           *)
LEMMA CellsBelow ==
  ASSUME Sound, NEW b \in Blocks, NEW from \in Nat, NEW len \in Nat,
         \A c \in chunks : c.block = b => used[b] <= from
  PROVE  Arena!Cells(b, from, len) \cap Arena!Taken = {}
<1> SUFFICES ASSUME NEW y \in Arena!Cells(b, from, len), y \in Arena!Taken PROVE FALSE
  OBVIOUS
<1>1. PICK o \in Owners : y \in CellsOf(o)
  BY DEF Arena!Taken, CellsHeld
<1>2. PICK c \in chunks : y \in Cells(c)
  BY <1>1, CellsIn
<1>3. PICK x \in from..(from + len - 1) : y = <<b, x>>
  BY DEF Arena!Cells
<1>4. PICK z \in c.from..(c.from + c.len - 1) : y = <<c.block, z>>
  BY <1>2 DEF Cells
<1>5. c.block = b /\ z = x
  BY <1>3, <1>4
<1>6. /\ c.from \in Nat /\ c.len \in Nat /\ used[b] \in Nat
      /\ c.from + c.len <= used[b] /\ used[b] <= from
  BY <1>5 DEF Sound, TypeOK, ChunksPlaced
<1> QED BY <1>3, <1>4, <1>5, <1>6

(* A chunk is more for its owner and nothing for the others. *)
LEMMA PlaceGives ==
  ASSUME NEW op, NEW o, NEW b, NEW from, NEW len, Place(op, o, b, from, len)
  PROVE  /\ CellsOf(o)' = CellsOf(o) \cup Arena!Cells(b, from, len)
         /\ \A p : p # o => CellsOf(p)' = CellsOf(p)
         /\ res' = [op |-> op, err |-> "ok", owner |-> o, block |-> b, from |-> from, len |-> len]
<1> DEFINE new == [owner |-> o, block |-> b, from |-> from, len |-> len]
<1>1. /\ chunks' = chunks \cup {new}
      /\ res' = [op |-> op, err |-> "ok", owner |-> o, block |-> b, from |-> from, len |-> len]
  BY DEF Place
<1>2. Cells(new) = Arena!Cells(b, from, len) /\ new.owner = o
  BY DEF Cells, Arena!Cells
<1> HIDE DEF new
<1>3. \A p, y : y \in CellsOf(p)' <=> \E c \in chunks' : c.owner = p /\ y \in Cells(c)
  BY DEF CellsOf
<1>4. \A p, y : y \in CellsOf(p) <=> \E c \in chunks : c.owner = p /\ y \in Cells(c)
  BY DEF CellsOf
<1>5. \A p, y : y \in CellsOf(p)' <=> y \in CellsOf(p) \/ (p = o /\ y \in Cells(new))
  BY <1>1, <1>2, <1>3, <1>4
<1> QED BY <1>1, <1>2, <1>5

(* Nothing is held anew or given up. *)
LEMMA SameHeld ==
  ASSUME UNCHANGED chunks, Owners' = Owners
  PROVE  ArenaStep
<1>1. CellsHeld' = CellsHeld
  BY DEF CellsHeld, CellsOf
<1> QED BY <1>1 DEF ArenaStep, Arena!Next

LEMMA AllocOwnerStep ==
  ASSUME Sound, NEW len \in OwnerSizes, AllocOwner(len)
  PROVE  Sound' /\ ArenaStep
<1>1. /\ len \in Nat /\ InitialPage \in Nat /\ InitialPage >= MinPage /\ pageSize' = InitialPage
      /\ limit' \in Nat \cup {NoLimit} /\ UNCHANGED freeing /\ pageSize' # NoPool
  BY AllocAssumption DEF AllocOwner, InitialPage, Sound, TypeOK, NoPool
<1>2. ASSUME NEW b \in Blocks, AllocBlock(InitialPage, len, b), Place("alloc_owner", b, b, 0, len),
             chain' = [o \in Owners \cup {b} |-> IF o = b THEN <<>> ELSE chain[o]]
      PROVE  Sound' /\ ArenaStep
  <2>1. Sound' /\ Taken(b, InitialPage, len) /\ Owners' = Owners \cup {b} /\ b \notin Owners
    BY <1>1, <1>2, OwnerKeeps
  <2>2. \A c \in chunks : c.block # b
    BY <2>1, FreeOfChunks DEF Taken
  <2>3. Arena!Cells(b, 0, len) \cap Arena!Taken = {}
    BY <1>1, <2>2, CellsBelow
  <2>4. /\ CellsOf(b)' = CellsOf(b) \cup Arena!Cells(b, 0, len)
        /\ \A p : p # b => CellsOf(p)' = CellsOf(p)
        /\ res' = [op |-> "alloc_owner", err |-> "ok", owner |-> b, block |-> b, from |-> 0, len |-> len]
    BY <1>2, PlaceGives
  <2>5. CellsOf(b) = {}
    BY <2>1, CellsIn DEF Sound, ChunksPlaced
  <2>6. /\ res'.op = "alloc_owner" /\ res'.err = "ok" /\ res'.owner = b
        /\ Arena!Given(res') = Arena!Cells(b, 0, len)
    BY <2>4 DEF Arena!Given
  <2>7. DOMAIN CellsHeld = Owners
    BY DEF CellsHeld
  <2>8. CellsHeld' = [o \in Owners \cup {b} |->
                       IF o = b THEN Arena!Cells(b, 0, len) ELSE CellsHeld[o]]
    BY <2>1, <2>4, <2>5 DEF CellsHeld
  <2>9. Arena!AllocOwner(res')
    BY <2>1, <2>3, <2>6, <2>7, <2>8 DEF Arena!AllocOwner
  <2> QED BY <2>1, <2>6, <2>9 DEF ArenaStep, Arena!Next
<1>3. CASE AllocBlockFails(InitialPage, len, "alloc_owner")
  <2>1. UNCHANGED chunks /\ Sound' /\ Owners' = Owners
    BY <1>1, <1>3, FailKeeps DEF AllocBlockFails
  <2> QED BY <2>1, SameHeld
<1> QED BY <1>2, <1>3 DEF AllocOwner

(* A chunk for an owner there is already. *)
LEMMA GiveMore ==
  ASSUME Sound, NEW o \in Owners, NEW b \in Blocks, NEW from \in Nat, NEW len \in Nat,
         Place("alloc", o, b, from, len), Owners' = Owners,
         \A c \in chunks : c.block = b => used[b] <= from
  PROVE  ArenaStep
<1>1. Arena!Cells(b, from, len) \cap Arena!Taken = {}
  BY CellsBelow
<1>2. /\ CellsOf(o)' = CellsOf(o) \cup Arena!Cells(b, from, len)
      /\ \A p : p # o => CellsOf(p)' = CellsOf(p)
      /\ res' = [op |-> "alloc", err |-> "ok", owner |-> o, block |-> b, from |-> from, len |-> len]
  BY PlaceGives
<1>3. /\ res'.op = "alloc" /\ res'.err = "ok" /\ res'.owner = o
      /\ Arena!Given(res') = Arena!Cells(b, from, len)
  BY <1>2 DEF Arena!Given
<1>4. DOMAIN CellsHeld = Owners /\ \A p \in Owners : CellsHeld[p] = CellsOf(p)
  BY DEF CellsHeld
<1>5. CellsHeld' = [CellsHeld EXCEPT ![o] = @ \cup Arena!Cells(b, from, len)]
  BY <1>2 DEF CellsHeld
<1>6. Arena!Alloc(res')
  BY <1>1, <1>3, <1>4, <1>5 DEF Arena!Alloc
<1> QED BY <1>3, <1>6 DEF ArenaStep, Arena!Next

LEMMA AllocWithOwnerStep ==
  ASSUME Sound, NEW o \in Owners, NEW request \in Sizes, AllocWithOwner(o, request)
  PROVE  Sound' /\ ArenaStep
<1> DEFINE len == Aligned(request)
<1>1. len \in Nat
  BY AllocAssumption, AlignedNat
<1>2. /\ UNCHANGED <<pageSize, limit, freeing>>
      /\ (\E b \in Blocks : AllocInBlock(o, len, b)) \/ AllocNewBlock(o, len)
  BY DEF AllocWithOwner
<1> HIDE DEF len
<1>3. ASSUME NEW b \in Blocks, AllocInBlock(o, len, b)
      PROVE  Sound' /\ ArenaStep
  <2> DEFINE from == used[b]
  <2>1. Sound' /\ Place("alloc", o, b, from, len)
    BY <1>1, <1>2, <1>3, InBlockKeeps
  <2>2. from \in Nat /\ Owners' = Owners
    BY <1>3 DEF Sound, TypeOK, AllocInBlock, Owners
  <2>3. \A c \in chunks : c.block = b => used[b] <= from
    BY <2>2
  <2> HIDE DEF from
  <2> QED BY <1>1, <2>1, <2>2, <2>3, GiveMore
<1>4. ASSUME NEW b \in Blocks, AllocBlock(pageSize, len, b), Place("alloc", o, b, 0, len),
             chain' = [chain EXCEPT ![o] = Linked(@, b)]
      PROVE  Sound' /\ ArenaStep
  <2>1. Sound' /\ Taken(b, pageSize, len) /\ Owners' = Owners
    BY <1>1, <1>2, <1>4, NewBlockKeeps
  <2>2. \A c \in chunks : c.block # b
    BY <2>1, FreeOfChunks DEF Taken
  <2>3. 0 \in Nat
    OBVIOUS
  <2> QED BY <1>1, <1>4, <2>1, <2>2, <2>3, GiveMore
<1>5. CASE AllocBlockFails(pageSize, len, "alloc")
  <2>1. /\ pageSize' \in Nat \cup {NoPool} /\ (pageSize' # NoPool => pageSize' >= MinPage)
        /\ limit' \in Nat \cup {NoLimit} /\ UNCHANGED freeing
    BY <1>2 DEF Sound, TypeOK
  <2>2. UNCHANGED chunks /\ Sound' /\ Owners' = Owners
    BY <1>5, <2>1, FailKeeps DEF AllocBlockFails
  <2> QED BY <2>2, SameHeld
<1> QED BY <1>2, <1>3, <1>4, <1>5 DEF AllocNewBlock

LEMMA FreeOwnerStep ==
  ASSUME Sound, NEW o \in Owners, FreeOwner(o)
  PROVE  Sound' /\ ArenaStep
<1>1. Sound' /\ Owners' = Owners \ {o}
  BY FreeOwnerKeeps
<1>2. /\ chunks' = {c \in chunks : c.owner # o}
      /\ res' = [op |-> "free_owner", err |-> "ok", owner |-> o]
  BY DEF FreeOwner
<1>3. \A p : p # o => CellsOf(p)' = CellsOf(p)
  BY <1>2 DEF CellsOf
<1>4. DOMAIN CellsHeld = Owners
  BY DEF CellsHeld
<1>5. CellsHeld' = [p \in Owners \ {o} |-> CellsHeld[p]]
  BY <1>1, <1>3 DEF CellsHeld
<1>6. Arena!FreeOwner(res')
  BY <1>2, <1>4, <1>5 DEF Arena!FreeOwner
<1> QED BY <1>1, <1>2, <1>6 DEF ArenaStep, Arena!Next

LEMMA InitSound == Init => Sound /\ Arena!Init
<1> SUFFICES ASSUME Init PROVE Sound /\ Arena!Init
  OBVIOUS
<1>1. /\ pool = <<>> /\ freeing = <<>> /\ chunks = {} /\ Owners = {} /\ chain = <<>>
      /\ \A b \in Blocks : heap[b] = 0
      /\ res = [op |-> "none", err |-> "ok"]
  BY DEF Init, Owners
<1>2. \A b : ~Held(b) /\ b \notin Members(pool)
  BY <1>1, NoList DEF Held, Chained
<1>3. TypeOK
  <2>1. /\ heap \in [Blocks -> Nat] /\ size \in [Blocks -> Nat] /\ used \in [Blocks -> Nat]
        /\ pageSize = NoPool /\ limit \in Nat
    BY DEF Init
  <2>2. chain \in [Owners -> Seq(Blocks)]
    BY <1>1
  <2> QED BY <1>1, <2>1, <2>2, NoList DEF TypeOK
<1>4. ListsApart /\ HeapListed /\ ChunksPlaced
  BY <1>1, <1>2, NoList DEF ListsApart, HeapListed, ChunksPlaced, Held
<1>5. CellsHeld = <<>>
  BY <1>1 DEF CellsHeld
<1> QED BY <1>1, <1>3, <1>4, <1>5 DEF Sound, Arena!Init

LEMMA StepSound == Sound /\ [Next]_vars => Sound' /\ ArenaStep
<1> SUFFICES ASSUME Sound, [Next]_vars PROVE Sound' /\ ArenaStep
  OBVIOUS
<1>1. CASE UNCHANGED vars
  <2>1. /\ UNCHANGED <<pageSize, limit, pool, heap, size, used, chain, freeing, chunks, res>>
        /\ Owners' = Owners
    BY <1>1 DEF vars, Owners
  <2>2. Sound'
    BY <2>1 DEF Sound, TypeOK, ListsApart, HeapListed, ChunksPlaced, Held, Chained
  <2> QED BY <2>1, <2>2, SameHeld
<1>2. ASSUME NEW len \in OwnerSizes, AllocOwner(len) PROVE Sound' /\ ArenaStep
  BY <1>2, AllocOwnerStep
<1>3. ASSUME NEW o \in Owners, NEW len \in Sizes, AllocWithOwner(o, len) PROVE Sound' /\ ArenaStep
  BY <1>3, AllocWithOwnerStep
<1>4. ASSUME NEW o \in Owners, FreeOwner(o) PROVE Sound' /\ ArenaStep
  BY <1>4, FreeOwnerStep
<1>5. CASE FreeBlock
  BY <1>5, FreeBlockKeeps, SameHeld DEF FreeBlock
<1>6. ASSUME NEW page \in PageSizes, NEW lim \in Limits \cup {NoLimit},
             InitializePool(page, lim)
      PROVE  Sound' /\ ArenaStep
  BY <1>6, InitializeKeeps, SameHeld DEF InitializePool
<1>7. CASE ReleasePool
  BY <1>7, ReleaseKeeps, SameHeld DEF ReleasePool
<1> QED BY <1>1, <1>2, <1>3, <1>4, <1>5, <1>6, <1>7 DEF Next

LEMMA AlwaysSound == Spec => []Sound
<1>1. Init => Sound
  BY InitSound
<1>2. Sound /\ [Next]_vars => Sound'
  BY StepSound
<1> QED BY <1>1, <1>2, PTL DEF Spec

-----------------------------------------------------------------------------
(* The length of blocks, as long as the pool is not released too early.     *)

LEMMA InitLong == Init => PagesLong
<1> SUFFICES ASSUME Init PROVE PagesLong
  OBVIOUS
<1>1. pool = <<>> /\ freeing = <<>> /\ chunks = {} /\ Owners = {} /\ limit = 0
  BY DEF Init, Owners
<1>2. \A b : ~Held(b) /\ b \notin Members(pool)
  BY <1>1, NoList DEF Held, Chained
<1> QED BY <1>1, <1>2, NoList DEF PagesLong

(* A new block is no shorter than its size says, which is no less than that *)
(* of a page and than what is put in it.                                    *)
LEMMA TakenLong ==
  ASSUME Sound, PagesLong, NEW b \in Blocks, NEW page \in Nat, NEW len \in Nat,
         Taken(b, page, len), Rehoused(b), pageSize' = page, page # NoPool,
         pageSize # NoPool => page = pageSize /\ limit' = limit,
         limit' \in Nat \cup {NoLimit},
         NEW op, NEW o, Place(op, o, b, 0, len)
  PROVE  PagesLong'
<1>1. /\ pageSize \in Nat \cup {NoPool} /\ pool \in Seq(Blocks) /\ Header \in Nat
      /\ heap \in [Blocks -> Nat] /\ size \in [Blocks -> Nat] /\ used \in [Blocks -> Nat]
      /\ chunks \subseteq [owner : Blocks, block : Blocks, from : Nat, len : Nat]
  BY AllocAssumption DEF Sound, TypeOK
<1>2. /\ \A c \in Members(pool) : c \in Blocks /\ page <= heap[c]
      /\ \A c \in Blocks : Held(c) => page <= size[c] /\ size[c] <= heap[c]
  <2>1. \A c \in Members(pool) : c \in Blocks
    BY <1>1 DEF Members
  <2>2. CASE pageSize = NoPool
    <3>1. Members(pool) = {} /\ \A c \in Blocks : ~Held(c)
      BY <2>2, NoList DEF PagesLong
    <3> QED BY <3>1
  <2>3. CASE pageSize # NoPool
    BY <2>1, <2>3 DEF PagesLong
  <2> QED BY <2>2, <2>3
<1>3. /\ size' \in [Blocks -> Nat] /\ heap' \in [Blocks -> Nat]
      /\ size'[b] <= heap'[b] /\ page <= size'[b] /\ len + Header <= size'[b]
      /\ \A c \in Blocks : c # b => size'[c] = size[c] /\ heap'[c] = heap[c]
      /\ Len(pool') <= Len(pool) /\ Len(pool') \in Nat /\ Len(pool) \in Nat
  BY <1>1, <1>2 DEF Taken
<1>4. \A c \in Blocks : Held(c)' => size'[c] <= heap'[c] /\ pageSize' <= size'[c]
  BY <1>2, <1>3 DEF Rehoused
<1>5. \A c \in Members(pool') : pageSize' <= heap'[c]
  BY <1>2, <1>3 DEF Rehoused
<1>6. limit' # NoLimit => Len(pool') <= limit'
  <2>1. CASE pageSize = NoPool
    <3>1. Len(pool) = 0
      BY <2>1, NoList DEF PagesLong
    <3> QED BY <1>3, <3>1
  <2>2. CASE pageSize # NoPool
    <3>1. limit' # NoLimit => Len(pool) <= limit'
      BY <2>2 DEF PagesLong
    <3> QED BY <1>3, <3>1
  <2> QED BY <2>1, <2>2
<1>7. \A c \in chunks' : used'[c.block] + Header <= size'[c.block]
  <2>1. /\ used' = [used EXCEPT ![b] = 0 + len]
        /\ chunks' = chunks \cup {[owner |-> o, block |-> b, from |-> 0, len |-> len]}
    BY DEF Place
  <2>2. used'[b] = len /\ \A c \in Blocks : c # b => used'[c] = used[c]
    BY <1>1, <2>1
  <2>3. ASSUME NEW c \in chunks PROVE used'[c.block] + Header <= size'[c.block]
    <3>1. c.block # b /\ c.block \in Blocks
      BY <1>1, FreeOfChunks DEF Taken
    <3>2. used[c.block] + Header <= size[c.block]
      BY DEF PagesLong
    <3> QED BY <1>3, <2>2, <3>1, <3>2
  <2>4. ASSUME NEW c, c = [owner |-> o, block |-> b, from |-> 0, len |-> len]
        PROVE  used'[c.block] + Header <= size'[c.block]
    BY <1>3, <2>2, <2>4
  <2> QED BY <2>1, <2>3, <2>4
<1> QED BY <1>4, <1>5, <1>6, <1>7 DEF PagesLong

LEMMA AllocOwnerLong ==
  ASSUME Sound, PagesLong, NEW len \in OwnerSizes, AllocOwner(len)
  PROVE  PagesLong'
<1> DEFINE page == InitialPage
<1>1. /\ len \in Nat /\ page \in Nat /\ page >= MinPage /\ pageSize' = page /\ page # NoPool
      /\ limit' \in Nat \cup {NoLimit} /\ UNCHANGED freeing
      /\ pageSize # NoPool => page = pageSize /\ limit' = limit
  BY AllocAssumption DEF AllocOwner, InitialPage, Sound, TypeOK, NoPool
<1>2. \/ \E b \in Blocks :
            /\ AllocBlock(page, len, b)
            /\ Place("alloc_owner", b, b, 0, len)
            /\ chain' = [o \in Owners \cup {b} |-> IF o = b THEN <<>> ELSE chain[o]]
      \/ AllocBlockFails(page, len, "alloc_owner")
  BY DEF AllocOwner
<1> HIDE DEF page
<1>3. ASSUME NEW b \in Blocks, AllocBlock(page, len, b), Place("alloc_owner", b, b, 0, len),
             chain' = [o \in Owners \cup {b} |-> IF o = b THEN <<>> ELSE chain[o]]
      PROVE  PagesLong'
  <2>1. Taken(b, page, len) /\ Rehoused(b)
    BY <1>1, <1>3, OwnerKeeps
  <2> QED BY <1>1, <1>3, <2>1, TakenLong
<1>4. CASE AllocBlockFails(page, len, "alloc_owner")
  <2>1. UNCHANGED <<pool, heap, size, used, chain, chunks>> /\ \A c : Held(c)' <=> Held(c)
    BY <1>1, <1>4, FailKeeps DEF AllocBlockFails
  <2>2. CASE pageSize = NoPool
    <3>1. /\ Members(pool) = {} /\ Len(pool) = 0 /\ \A c \in Blocks : ~Held(c)
      BY <2>2, NoList DEF PagesLong
    <3> QED BY <1>1, <2>1, <3>1 DEF PagesLong
  <2>3. CASE pageSize # NoPool
    BY <1>1, <2>1, <2>3 DEF PagesLong
  <2> QED BY <2>2, <2>3
<1> QED BY <1>2, <1>3, <1>4

LEMMA AllocWithOwnerLong ==
  ASSUME Sound, PagesLong, NEW o \in Owners, NEW request \in Sizes, AllocWithOwner(o, request)
  PROVE  PagesLong'
<1> DEFINE len == Aligned(request)
           page == pageSize
<1>1. len \in Nat
  BY AllocAssumption, AlignedNat
<1>2. /\ UNCHANGED <<pageSize, limit, freeing>>
      /\ (\E b \in Blocks : AllocInBlock(o, len, b)) \/ AllocNewBlock(o, len)
  BY DEF AllocWithOwner
<1>3. o \in Blocks /\ pageSize # NoPool /\ pageSize \in Nat /\ limit \in Nat \cup {NoLimit}
  BY DEF Sound, TypeOK, PagesLong, Held
<1> HIDE DEF len, page
<1>4. ASSUME NEW b \in Blocks, AllocInBlock(o, len, b)
      PROVE  PagesLong'
  <2>1. /\ UNCHANGED <<pool, heap, size, chain>> /\ Fits(b, len)
        /\ Place("alloc", o, b, used[b], len)
    BY <1>4 DEF AllocInBlock
  <2>2. /\ used' = [used EXCEPT ![b] = used[b] + len]
        /\ chunks' = chunks \cup {[owner |-> o, block |-> b, from |-> used[b], len |-> len]}
    BY <2>1 DEF Place
  <2>3. /\ used \in [Blocks -> Nat] /\ size \in [Blocks -> Nat] /\ Header \in Nat
        /\ \A c \in chunks : c.block \in Blocks
    BY AllocAssumption DEF Sound, TypeOK
  <2>4. used'[b] + Header <= size'[b] /\ \A c \in Blocks : c # b => used'[c] = used[c]
    BY <1>1, <2>1, <2>2, <2>3 DEF Fits
  <2>5. \A c \in chunks' : used'[c.block] + Header <= size'[c.block]
    <3>1. \A c \in chunks : used[c.block] + Header <= size[c.block]
      BY DEF PagesLong
    <3>2. \A c \in chunks' : c.block = b \/ (c \in chunks /\ c.block # b /\ c.block \in Blocks)
      BY <2>2, <2>3
    <3> QED BY <2>1, <2>4, <3>1, <3>2
  <2>6. \A c : Held(c)' <=> Held(c)
    BY <1>2, <2>1 DEF Held, Chained, Owners
  <2> QED BY <1>2, <2>1, <2>5, <2>6 DEF PagesLong
<1>5. ASSUME NEW b \in Blocks, AllocBlock(pageSize, len, b), Place("alloc", o, b, 0, len),
             chain' = [chain EXCEPT ![o] = Linked(@, b)]
      PROVE  PagesLong'
  <2>1. Taken(b, page, len) /\ Rehoused(b)
    BY <1>1, <1>2, <1>5, NewBlockKeeps DEF page
  <2>2. /\ page \in Nat /\ page # NoPool /\ pageSize' = page
        /\ pageSize # NoPool => page = pageSize /\ limit' = limit
        /\ limit' \in Nat \cup {NoLimit}
    BY <1>2, <1>3 DEF page
  <2> QED BY <1>1, <1>5, <2>1, <2>2, TakenLong
<1>6. CASE AllocBlockFails(pageSize, len, "alloc")
  <2>1. UNCHANGED <<pool, heap, size, used, chain, chunks>>
    BY <1>6 DEF AllocBlockFails
  <2>2. \A c : Held(c)' <=> Held(c)
    BY <1>2, <2>1 DEF Held, Chained, Owners
  <2> QED BY <1>2, <2>1, <2>2 DEF PagesLong
<1> QED BY <1>2, <1>4, <1>5, <1>6 DEF AllocNewBlock

LEMMA FreeOwnerLong ==
  ASSUME Sound, PagesLong, NEW o \in Owners, FreeOwner(o)
  PROVE  PagesLong'
<1>1. /\ UNCHANGED <<pageSize, limit, pool, heap, size, used>> /\ chunks' \subseteq chunks
      /\ \A c : Held(c)' <=> Held(c)
  BY FreeOwnerKeeps DEF FreeOwner
<1> QED BY <1>1 DEF PagesLong

(* A block goes to the pool only if it is no longer than pages, and so it   *)
(* is a page.                                                               *)
LEMMA FreeBlockLong ==
  ASSUME Sound, PagesLong, FreeBlock
  PROVE  PagesLong'
<1> DEFINE b == Head(freeing)
<1>1. /\ UNCHANGED <<pageSize, limit, size, used, chain, chunks>> /\ freeing # <<>>
      /\ \/ heap' = [heap EXCEPT ![b] = 0] /\ pool' = pool
         \/ /\ ~(size[b] > pageSize) /\ ~PoolFull
            /\ pool' = <<b>> \o pool /\ heap' = heap
  BY DEF FreeBlock
<1>2. b \in Members(freeing) /\ b \in Blocks
  BY <1>1, TailList DEF Sound, TypeOK
<1>3. \A c : Held(c)' <=> Held(c) /\ c # b
  BY FreeBlockKeeps
<1> HIDE DEF b
<1>4. Held(b) /\ b \notin Members(pool)
  BY <1>2 DEF Sound, ListsApart, Held
<1>5. /\ pageSize # NoPool /\ pageSize \in Nat /\ limit \in Nat \cup {NoLimit}
      /\ pool \in Seq(Blocks) /\ heap \in [Blocks -> Nat] /\ size \in [Blocks -> Nat]
      /\ size[b] <= heap[b] /\ pageSize <= size[b]
      /\ \A c \in Members(pool) : c \in Blocks /\ pageSize <= heap[c]
  <2>1. /\ pageSize \in Nat \cup {NoPool} /\ limit \in Nat \cup {NoLimit}
        /\ pool \in Seq(Blocks) /\ heap \in [Blocks -> Nat] /\ size \in [Blocks -> Nat]
    BY DEF Sound, TypeOK
  <2>2. \A c \in Members(pool) : c \in Blocks
    BY <2>1 DEF Members
  <2>3. pageSize # NoPool /\ size[b] <= heap[b] /\ pageSize <= size[b]
    BY <1>2, <1>4 DEF PagesLong
  <2> QED BY <2>1, <2>2, <2>3 DEF PagesLong
<1>6. \A c \in Blocks : c # b => heap'[c] = heap[c]
  BY <1>1, <1>5
<1>7. /\ \A c \in Members(pool') : pageSize <= heap'[c]
      /\ limit # NoLimit => Len(pool') <= limit
  <2>1. CASE pool' = pool
    <3>1. \A c \in Members(pool) : c # b
      BY <1>4
    <3> QED BY <1>5, <1>6, <2>1, <3>1 DEF PagesLong
  <2>2. CASE ~(size[b] > pageSize) /\ ~PoolFull /\ pool' = <<b>> \o pool /\ heap' = heap
    <3>1. Members(pool') = Members(pool) \cup {b} /\ Len(pool') = Len(pool) + 1
      BY <1>2, <1>5, <2>2, FrontList
    <3>2. limit # NoLimit => Len(pool) < limit
      BY <1>5, <2>2 DEF PoolFull
    <3>3. pageSize <= heap[b]
      BY <1>2, <1>5
    <3>4. Len(pool) \in Nat
      BY <1>5
    <3> QED BY <1>5, <2>2, <3>1, <3>2, <3>3, <3>4
  <2> QED BY <1>1, <2>1, <2>2
<1> QED BY <1>1, <1>3, <1>5, <1>6, <1>7 DEF PagesLong

LEMMA InitializeLong ==
  ASSUME Sound, PagesLong, NEW page \in PageSizes, NEW lim \in Limits \cup {NoLimit},
         InitializePool(page, lim)
  PROVE  PagesLong'
<1>1. /\ pageSize = NoPool /\ pageSize' # NoPool /\ limit' \in Nat \cup {NoLimit}
      /\ UNCHANGED <<pool, heap, size, used, chain, freeing, chunks>>
  BY AllocAssumption DEF InitializePool, Settled, NoPool
<1>2. \A c : Held(c)' <=> Held(c)
  BY InitializeKeeps
<1>3. Members(pool) = {} /\ Len(pool) = 0 /\ \A c \in Blocks : ~Held(c)
  BY <1>1, NoList DEF PagesLong
<1> QED BY <1>1, <1>2, <1>3 DEF PagesLong

LEMMA ReleaseLong ==
  ASSUME Sound, PagesLong, ReleasePool, Careless = {}
  PROVE  PagesLong'
<1>1. /\ Owners = {} /\ freeing = <<>> /\ pool' = <<>>
      /\ UNCHANGED <<limit, size, used, chain, freeing, chunks>>
  BY DEF ReleasePool, Idle
<1>2. chunks = {} /\ \A c : ~Held(c)
  BY <1>1, NoList DEF Sound, ChunksPlaced, Held, Chained
<1>3. \A c : ~Held(c)'
  BY <1>2, ReleaseKeeps
<1>4. limit \in Nat \cup {NoLimit}
  BY DEF Sound, TypeOK
<1> QED BY <1>1, <1>2, <1>3, <1>4, NoList DEF PagesLong

LEMMA StepLong == ASSUME Careless = {} PROVE Sound /\ PagesLong /\ [Next]_vars => PagesLong'
<1> SUFFICES ASSUME Sound, PagesLong, [Next]_vars PROVE PagesLong'
  OBVIOUS
<1>1. CASE UNCHANGED vars
  BY <1>1 DEF vars, PagesLong, Held, Chained, Owners
<1>2. ASSUME NEW len \in OwnerSizes, AllocOwner(len) PROVE PagesLong'
  BY <1>2, AllocOwnerLong
<1>3. ASSUME NEW o \in Owners, NEW len \in Sizes, AllocWithOwner(o, len) PROVE PagesLong'
  BY <1>3, AllocWithOwnerLong
<1>4. ASSUME NEW o \in Owners, FreeOwner(o) PROVE PagesLong'
  BY <1>4, FreeOwnerLong
<1>5. CASE FreeBlock
  BY <1>5, FreeBlockLong
<1>6. ASSUME NEW page \in PageSizes, NEW lim \in Limits \cup {NoLimit},
             InitializePool(page, lim) PROVE PagesLong'
  BY <1>6, InitializeLong
<1>7. CASE ReleasePool
  BY <1>7, ReleaseLong
<1> QED BY <1>1, <1>2, <1>3, <1>4, <1>5, <1>6, <1>7 DEF Next

-----------------------------------------------------------------------------
(* The theorems. *)

(* Sizes, positions and lists keep their types.                             *)
THEOREM TypeCorrect == Spec => []TypeOK
<1>1. Sound => TypeOK
  BY DEF Sound
<1> QED BY <1>1, AlwaysSound, PTL

LEMMA SoundHomes == Sound => OneHome
<1> SUFFICES ASSUME Sound, NEW b \in Blocks
             PROVE  /\ heap[b] # 0 <=> Homes(b) # {}
                    /\ \A h, k \in Homes(b) : h = k
  BY DEF OneHome
<1>1. \A h : h \in Homes(b) <=>
        \/ \E i \in 1..Len(pool) : pool[i] = b /\ h = <<"pool", i>>
        \/ \E i \in 1..Len(freeing) : freeing[i] = b /\ h = <<"freeing", i>>
        \/ b \in Owners /\ h = <<"owner", b>>
        \/ \E o \in Owners : \E i \in 1..Len(chain[o]) : chain[o][i] = b /\ h = <<o, i>>
  <2> SUFFICES ASSUME NEW h
               PROVE  h \in Homes(b) <=>
                        \/ \E i \in 1..Len(pool) : pool[i] = b /\ h = <<"pool", i>>
                        \/ \E i \in 1..Len(freeing) : freeing[i] = b /\ h = <<"freeing", i>>
                        \/ b \in Owners /\ h = <<"owner", b>>
                        \/ \E o \in Owners : \E i \in 1..Len(chain[o]) : chain[o][i] = b /\ h = <<o, i>>
    OBVIOUS
  <2> DEFINE At(tag, s) == {<<tag, i>> : i \in {j \in 1..Len(s) : s[j] = b}}
             own == {<<"owner", o>> : o \in Owners \cap {b}}
  <2>1. Homes(b) = At("pool", pool) \cup At("freeing", freeing) \cup own
                   \cup UNION {At(o, chain[o]) : o \in Owners}
    BY DEF Homes
  <2>2. ASSUME NEW tag, NEW s
        PROVE  h \in At(tag, s) <=> \E i \in 1..Len(s) : s[i] = b /\ h = <<tag, i>>
    OBVIOUS
  <2>3. h \in own <=> b \in Owners /\ h = <<"owner", b>>
    OBVIOUS
  <2> HIDE DEF At, own
  <2>4. h \in UNION {At(o, chain[o]) : o \in Owners} <=>
          \E o \in Owners : \E i \in 1..Len(chain[o]) : chain[o][i] = b /\ h = <<o, i>>
    <3>1. h \in UNION {At(o, chain[o]) : o \in Owners} <=> \E o \in Owners : h \in At(o, chain[o])
      OBVIOUS
    <3>2. \A o \in Owners : h \in At(o, chain[o]) <=>
                             \E i \in 1..Len(chain[o]) : chain[o][i] = b /\ h = <<o, i>>
      BY <2>2
    <3> QED BY <3>1, <3>2
  <2>5. h \in Homes(b) <=> \/ h \in At("pool", pool) \/ h \in At("freeing", freeing)
                            \/ h \in own \/ h \in UNION {At(o, chain[o]) : o \in Owners}
    BY <2>1
  <2> QED BY <2>2, <2>3, <2>4, <2>5
<1>2. heap[b] # 0 <=> Homes(b) # {}
  <2>1. Homes(b) # {} <=> b \in Members(pool) \/ Held(b)
    <3>1. Homes(b) # {} <=> \E h : h \in Homes(b)
      OBVIOUS
    <3>2. (\E h : h \in Homes(b)) <=>
            \/ \E i \in 1..Len(pool) : pool[i] = b
            \/ \E i \in 1..Len(freeing) : freeing[i] = b
            \/ b \in Owners
            \/ \E o \in Owners : \E i \in 1..Len(chain[o]) : chain[o][i] = b
      BY <1>1
    <3> QED BY <3>1, <3>2 DEF Held, Chained, Members
  <2> QED BY <2>1 DEF Sound, HeapListed
<1>3. ASSUME NEW h \in Homes(b), NEW k \in Homes(b)
      PROVE  h = k
  <2>1. CASE b \in Members(pool)
    <3>1. ~Held(b) /\ \A i, j \in 1..Len(pool) : pool[i] = b /\ pool[j] = b => i = j
      BY <2>1 DEF Sound, ListsApart, Apart
    <3>2. /\ \E i \in 1..Len(pool) : pool[i] = b /\ h = <<"pool", i>>
          /\ \E i \in 1..Len(pool) : pool[i] = b /\ k = <<"pool", i>>
      BY <1>1, <3>1 DEF Held, Chained, Members
    <3> QED BY <3>1, <3>2
  <2>2. CASE b \in Members(freeing)
    <3>1. /\ b \notin Members(pool) /\ b \notin Owners /\ ~Chained(b)
          /\ \A i, j \in 1..Len(freeing) : freeing[i] = b /\ freeing[j] = b => i = j
      BY <2>2 DEF Sound, ListsApart, Apart, Held
    <3>2. /\ \E i \in 1..Len(freeing) : freeing[i] = b /\ h = <<"freeing", i>>
          /\ \E i \in 1..Len(freeing) : freeing[i] = b /\ k = <<"freeing", i>>
      BY <1>1, <3>1 DEF Chained, Members
    <3> QED BY <3>1, <3>2
  <2>3. CASE b \in Owners
    <3>1. b \notin Members(pool) /\ b \notin Members(freeing) /\ ~Chained(b)
      BY <2>3 DEF Sound, ListsApart, Held
    <3> QED BY <1>1, <3>1 DEF Chained, Members
  <2>4. CASE b \notin Members(pool) /\ b \notin Members(freeing) /\ b \notin Owners
    <3>1. PICK o \in Owners : \E i \in 1..Len(chain[o]) : chain[o][i] = b /\ h = <<o, i>>
      BY <1>1, <2>4 DEF Members
    <3>2. PICK p \in Owners : \E i \in 1..Len(chain[p]) : chain[p][i] = b /\ k = <<p, i>>
      BY <1>1, <2>4 DEF Members
    <3>3. o = p
      BY <3>1, <3>2 DEF Sound, ListsApart, Members
    <3>4. \A i, j \in 1..Len(chain[o]) : chain[o][i] = b /\ chain[o][j] = b => i = j
      BY DEF Sound, ListsApart, Apart
    <3> QED BY <3>1, <3>2, <3>3, <3>4
  <2> QED BY <2>1, <2>2, <2>3, <2>4
<1> QED BY <1>2, <1>3

(* No block is lost, freed twice or handed to two owners, not in the middle *)
(* of _ion_free_owner nor when the pool is released too early.              *)
THEOREM HomesCorrect == Spec => []OneHome
<1> QED BY SoundHomes, AlwaysSound, PTL

LEMMA LongFits == Sound /\ PagesLong => MemoryFits
<1> SUFFICES ASSUME Sound, PagesLong PROVE MemoryFits
  OBVIOUS
<1>1. \A o \in Owners : o \in Blocks /\ Held(o)
  BY DEF Sound, TypeOK, Held
<1>2. Owners # {} => pageSize # NoPool
  BY <1>1 DEF PagesLong
<1>3. \A i \in 1..Len(pool) : heap[pool[i]] >= pageSize
  <2>1. \A i \in 1..Len(pool) : pool[i] \in Members(pool) /\ pool[i] \in Blocks
    BY DEF Sound, TypeOK, Members
  <2>2. pageSize \in Int /\ heap \in [Blocks -> Nat]
    BY DEF Sound, TypeOK, NoPool
  <2> QED BY <2>1, <2>2 DEF PagesLong
<1>4. ASSUME NEW c \in chunks
      PROVE  /\ c.owner \in Owners
             /\ c.from + c.len <= used[c.block]
             /\ used[c.block] + Header <= heap[c.block]
  <2>1. /\ c.owner \in Owners /\ c.from + c.len <= used[c.block]
        /\ c.block \in Blocks /\ Held(c.block)
    BY DEF Sound, TypeOK, ChunksPlaced, Held, Chained
  <2>2. size[c.block] <= heap[c.block] /\ used[c.block] + Header <= size[c.block]
    BY <2>1 DEF PagesLong
  <2>3. /\ size[c.block] \in Nat /\ heap[c.block] \in Nat /\ used[c.block] \in Nat
        /\ Header \in Nat
    BY <2>1, AllocAssumption DEF Sound, TypeOK
  <2> QED BY <2>1, <2>2, <2>3
<1> QED BY <1>2, <1>3, <1>4 DEF MemoryFits, PagesLong

(* Memory handed out lies in its block, as long as the system made it, and  *)
(* pages of the pool are as long as pages are taken to be, if the pool is   *)
(* never released under its owners.                                         *)
THEOREM MemoryCorrect == ASSUME Careless = {} PROVE Spec => []MemoryFits
<1>1. Init => PagesLong
  BY InitLong
<1>2. Sound /\ PagesLong /\ [Next]_vars => PagesLong'
  BY StepLong
<1>3. Sound /\ PagesLong => MemoryFits
  BY LongFits
<1> QED BY <1>1, <1>2, <1>3, AlwaysSound, PTL DEF Spec

(* No two callers ever hold the same memory: owners implement IonArena,     *)
(* for which freeing, linking and recycling blocks is invisible.            *)
THEOREM AllocIsArena == Spec => ImplementsArena
<1>1. Init => Arena!Init
  BY InitSound
<1>2. Sound /\ [Next]_vars => [Arena!Next]_<<CellsHeld, res>>
  BY StepSound DEF ArenaStep
<1> QED BY <1>1, <1>2, AlwaysSound, PTL DEF Spec, ImplementsArena, Arena!Spec
=============================================================================
