--------------------------- MODULE IonIndexProofs ---------------------------
(***************************************************************************)
(* Theorems about IonIndex for every set of keys and data, every hash      *)
(* function, density, minimum and multiplier.                              *)
(***************************************************************************)
EXTENDS IonIndex, FiniteSetTheorems, SequenceTheorems, TLAPS

-----------------------------------------------------------------------------
(* Chains. *)

(* A node pushed on a chain is its first; the others move up by one. *)
LEMMA PushChain ==
  ASSUME NEW e \in Entry, NEW c \in Seq(Entry)
  PROVE  /\ Push(e, c) \in Seq(Entry) /\ Push(e, c) # <<>>
         /\ Len(Push(e, c)) = Len(c) + 1
         /\ Push(e, c)[1] = e
         /\ \A i \in 1..Len(c) : Push(e, c)[i + 1] = c[i]
         /\ \A i \in 1..(Len(c) + 1) : i # 1 => i - 1 \in 1..Len(c) /\ Push(e, c)[i] = c[i - 1]
  BY DEF Push

(* Taking node i out of a chain leaves the others in their order. *)
LEMMA WithoutChain ==
  ASSUME NEW c \in Seq(Entry), NEW i \in 1..Len(c)
  PROVE  /\ Without(c, i) \in Seq(Entry)
         /\ Len(Without(c, i)) = Len(c) - 1
         /\ \A j \in 1..(Len(c) - 1) : Without(c, i)[j] = IF j < i THEN c[j] ELSE c[j + 1]
         /\ Without(c, i) = <<>> <=> Len(c) = 1
<1> DEFINE a == SubSeq(c, 1, i - 1)
           z == SubSeq(c, i + 1, Len(c))
<1>1. Len(c) \in Nat /\ i \in Nat
  OBVIOUS
<1>2. /\ a \in Seq(Entry) /\ Len(a) = i - 1
      /\ \A j \in 1..(i - 1) : a[j] = c[j]
  BY <1>1
<1>3. /\ z \in Seq(Entry) /\ Len(z) = Len(c) - i
      /\ \A j \in 1..(Len(c) - i) : z[j] = c[i + j]
  BY <1>1
<1> HIDE DEF a, z
<1>4. a \o z \in Seq(Entry) /\ Len(a \o z) = Len(c) - 1
  BY <1>1, <1>2, <1>3
<1>5. \A j \in 1..(Len(c) - 1) : (a \o z)[j] = IF j < i THEN c[j] ELSE c[j + 1]
  <2> SUFFICES ASSUME NEW j \in 1..(Len(c) - 1)
               PROVE  (a \o z)[j] = IF j < i THEN c[j] ELSE c[j + 1]
    OBVIOUS
  <2>0. (a \o z)[j] = IF j <= Len(a) THEN a[j] ELSE z[j - Len(a)]
    BY <1>1, <1>2, <1>3
  <2>1. CASE j < i
    <3>1. j \in 1..(i - 1)
      BY <1>1, <2>1
    <3> QED BY <1>1, <1>2, <2>0, <2>1, <3>1
  <2>2. CASE ~(j < i)
    <3>1. j - Len(a) \in 1..(Len(c) - i) /\ i + (j - Len(a)) = j + 1 /\ ~(j <= Len(a))
      BY <1>1, <1>2, <2>2
    <3>2. z[j - Len(a)] = c[j + 1]
      BY <1>3, <3>1
    <3> QED BY <2>0, <2>2, <3>1, <3>2
  <2> QED BY <2>1, <2>2
<1>6. Without(c, i) = a \o z
  BY DEF Without, a, z
<1>7. a \o z = <<>> <=> Len(a \o z) = 0
  BY <1>4
<1> QED BY <1>1, <1>4, <1>5, <1>6, <1>7

(* Taking the first node out is taking the tail. *)
LEMMA TailChain ==
  ASSUME NEW c \in Seq(Entry), c # <<>>
  PROVE  /\ 1 \in 1..Len(c) /\ Head(c) = c[1] /\ Head(c) \in Entry
         /\ Tail(c) = Without(c, 1)
<1>1. Len(c) \in Nat \ {0} /\ 1 \in 1..Len(c)
  OBVIOUS
<1>2. /\ Tail(c) \in Seq(Entry) /\ Len(Tail(c)) = Len(c) - 1
      /\ \A j \in 1..(Len(c) - 1) : Tail(c)[j] = c[j + 1]
  BY <1>1
<1>3. /\ Without(c, 1) \in Seq(Entry) /\ Len(Without(c, 1)) = Len(c) - 1
      /\ \A j \in 1..(Len(c) - 1) : Without(c, 1)[j] = c[j + 1]
  <2>1. \A j \in 1..(Len(c) - 1) : ~(j < 1)
    BY <1>1
  <2> QED BY <1>1, <2>1, WithoutChain
<1>4. Tail(c) = Without(c, 1)
  <2>1. Len(Tail(c)) = Len(Without(c, 1))
    BY <1>2, <1>3
  <2>2. \A j \in 1..Len(Tail(c)) : Tail(c)[j] = Without(c, 1)[j]
    BY <1>2, <1>3
  <2> QED BY <1>2, <1>3, <2>1, <2>2, SeqEqual
<1> QED BY <1>1, <1>4

-----------------------------------------------------------------------------
(* Tables. *)

Tables(n) == [0..(n - 1) -> Seq(Entry)]

(* A node of a table is at some place of some chain. *)
LEMMA NodesAt ==
  ASSUME NEW n \in Nat, NEW t \in Tables(n), NEW e
  PROVE  /\ e \in Nodes(t) <=> \E b \in 0..(n - 1) : \E i \in 1..Len(t[b]) : t[b][i] = e
         /\ e \in Nodes(t) => e \in Entry
<1>1. DOMAIN t = 0..(n - 1) /\ \A b \in 0..(n - 1) : t[b] \in Seq(Entry)
  BY DEF Tables
<1>2. \A b \in 0..(n - 1) : \A i \in 1..Len(t[b]) : t[b][i] \in Entry
  BY <1>1
<1>3. e \in Nodes(t) <=> \E b \in DOMAIN t : \E i \in 1..Len(t[b]) : t[b][i] = e
  <2>1. e \in Nodes(t) <=> \E b \in DOMAIN t : e \in {t[b][i] : i \in 1..Len(t[b])}
    BY Zenon DEF Nodes
  <2> QED BY <2>1
<1> QED BY <1>1, <1>2, <1>3

(* u is t with e at the head of chain b: every place but the new one was a *)
(* place of t.                                                             *)
Pushed(n, t, u, b, e) ==
  /\ u \in Tables(n)
  /\ 1 \in 1..Len(u[b]) /\ u[b][1] = e
  /\ \A c \in 0..(n - 1) : \A i \in 1..Len(u[c]) :
       ~(c = b /\ i = 1) =>
         \E k \in 1..Len(t[c]) : i = (IF c = b THEN k + 1 ELSE k) /\ u[c][i] = t[c][k]
  /\ \A c \in 0..(n - 1) : \A k \in 1..Len(t[c]) :
       \E i \in 1..Len(u[c]) : i = (IF c = b THEN k + 1 ELSE k) /\ u[c][i] = t[c][k]
  /\ UsedIn(u) = UsedIn(t) \cup {b}

LEMMA PushPlaces ==
  ASSUME NEW n \in Nat, NEW t \in Tables(n), NEW b \in 0..(n - 1), NEW e \in Entry
  PROVE  Pushed(n, t, [t EXCEPT ![b] = Push(e, @)], b, e)
<1> DEFINE u == [t EXCEPT ![b] = Push(e, @)]
<1>1. /\ u \in Tables(n) /\ u[b] = Push(e, t[b]) /\ t[b] \in Seq(Entry)
      /\ \A c \in 0..(n - 1) : c # b => u[c] = t[c]
  BY PushChain DEF Tables
<1> HIDE DEF u
<1>2. /\ u[b] # <<>> /\ u[b][1] = e /\ 1 \in 1..Len(u[b])
      /\ Len(u[b]) = Len(t[b]) + 1 /\ Len(t[b]) \in Nat
      /\ \A i \in 1..Len(t[b]) : u[b][i + 1] = t[b][i]
      /\ \A i \in 1..Len(u[b]) : i # 1 => i - 1 \in 1..Len(t[b]) /\ u[b][i] = t[b][i - 1]
  <2>1. u[b] = Push(e, t[b]) /\ t[b] \in Seq(Entry)
    BY <1>1
  <2> DEFINE q == t[b]
  <2>2. Len(q) \in Nat
    BY <2>1
  <2> HIDE DEF q
  <2>3. /\ Push(e, q) # <<>> /\ Push(e, q)[1] = e /\ Len(Push(e, q)) = Len(q) + 1
        /\ \A i \in 1..Len(q) : Push(e, q)[i + 1] = q[i]
        /\ \A i \in 1..(Len(q) + 1) : i # 1 => i - 1 \in 1..Len(q) /\ Push(e, q)[i] = q[i - 1]
    BY <2>1, PushChain DEF q
  <2>4. 1 \in 1..(Len(q) + 1)
    BY <2>2
  <2>5. u[b] = Push(e, q)
    BY <2>1 DEF q
  <2> QED BY <2>2, <2>3, <2>4, <2>5 DEF q
<1>3. ASSUME NEW c \in 0..(n - 1), NEW i \in 1..Len(u[c]), ~(c = b /\ i = 1)
      PROVE  \E k \in 1..Len(t[c]) : i = (IF c = b THEN k + 1 ELSE k) /\ u[c][i] = t[c][k]
  <2>1. CASE c = b
    <3>1. i - 1 \in 1..Len(t[c]) /\ u[c][i] = t[c][i - 1] /\ i = (i - 1) + 1
      BY <1>2, <1>3, <2>1
    <3> QED BY <2>1, <3>1
  <2>2. CASE c # b
    BY <1>1, <2>2
  <2> QED BY <2>1, <2>2
<1>4. ASSUME NEW c \in 0..(n - 1), NEW k \in 1..Len(t[c])
      PROVE  \E i \in 1..Len(u[c]) : i = (IF c = b THEN k + 1 ELSE k) /\ u[c][i] = t[c][k]
  <2>1. CASE c = b
    <3>1. k + 1 \in 1..Len(u[c]) /\ u[c][k + 1] = t[c][k]
      BY <1>2, <2>1
    <3> QED BY <2>1, <3>1
  <2>2. CASE c # b
    BY <1>1, <2>2
  <2> QED BY <2>1, <2>2
<1>5. UsedIn(u) = UsedIn(t) \cup {b}
  BY <1>1, <1>2 DEF UsedIn, Tables
<1>6. Pushed(n, t, u, b, e)
  BY <1>1, <1>2, <1>3, <1>4, <1>5 DEF Pushed
<1> QED BY <1>6 DEF u

(* A node pushed on a chain of a table is one more node, and nothing else. *)
LEMMA PushNodes ==
  ASSUME NEW n \in Nat, NEW t \in Tables(n), NEW u, NEW b \in 0..(n - 1), NEW e \in Entry,
         Pushed(n, t, u, b, e)
  PROVE  Nodes(u) = Nodes(t) \cup {e}
<1>0. /\ u \in Tables(n)
      /\ 1 \in 1..Len(u[b]) /\ u[b][1] = e
  BY DEF Pushed
<1>a. \A c \in 0..(n - 1) : \A i \in 1..Len(u[c]) :
        ~(c = b /\ i = 1) =>
          \E k \in 1..Len(t[c]) : i = (IF c = b THEN k + 1 ELSE k) /\ u[c][i] = t[c][k]
  BY DEF Pushed
<1>b. \A c \in 0..(n - 1) : \A k \in 1..Len(t[c]) : \E i \in 1..Len(u[c]) : u[c][i] = t[c][k]
  BY DEF Pushed
<1>1. ASSUME NEW x \in Nodes(u)
      PROVE  x \in Nodes(t) \cup {e}
  <2>1. PICK c \in 0..(n - 1) : \E i \in 1..Len(u[c]) : u[c][i] = x
    BY <1>0, NodesAt
  <2>2. PICK i \in 1..Len(u[c]) : u[c][i] = x
    BY <2>1
  <2>3. CASE c = b /\ i = 1
    BY <1>0, <2>2, <2>3
  <2>4. CASE ~(c = b /\ i = 1)
    <3>1. \E k \in 1..Len(t[c]) : t[c][k] = x
      BY <1>a, <2>2, <2>4
    <3> QED BY <3>1, NodesAt
  <2> QED BY <2>3, <2>4
<1>2. ASSUME NEW x \in Nodes(t)
      PROVE  x \in Nodes(u)
  <2>1. PICK c \in 0..(n - 1) : \E k \in 1..Len(t[c]) : t[c][k] = x
    BY NodesAt
  <2>2. \E i \in 1..Len(u[c]) : u[c][i] = x
    BY <1>b, <2>1
  <2> QED BY <1>0, <2>2, NodesAt
<1>3. e \in Nodes(u)
  BY <1>0, NodesAt
<1> QED BY <1>1, <1>2, <1>3

(* It keeps the nodes in their buckets if it goes to its own, and the keys *)
(* apart if its key is a new one.                                          *)
LEMMA PushKeeps ==
  ASSUME NEW n \in Nat, NEW t \in Tables(n), NEW u, NEW b \in 0..(n - 1), NEW e \in Entry,
         Pushed(n, t, u, b, e)
  PROVE  /\ \A k : Placed(t, k) /\ b = Bucket(e.key, k) => Placed(u, k)
         /\ Once(t) /\ e.key \notin KeysOf(Nodes(t)) => Once(u)
<1>0. /\ u \in Tables(n)
      /\ 1 \in 1..Len(u[b]) /\ u[b][1] = e
  BY DEF Pushed
<1>a. \A c \in 0..(n - 1) : \A i \in 1..Len(u[c]) :
        ~(c = b /\ i = 1) =>
          \E k \in 1..Len(t[c]) : i = (IF c = b THEN k + 1 ELSE k) /\ u[c][i] = t[c][k]
  BY DEF Pushed
<1>d. DOMAIN u = 0..(n - 1) /\ DOMAIN t = 0..(n - 1)
  BY <1>0 DEF Tables
<1>1. ASSUME NEW k0, Placed(t, k0), b = Bucket(e.key, k0)
      PROVE  Placed(u, k0)
  <2> SUFFICES ASSUME NEW c \in 0..(n - 1), NEW i \in 1..Len(u[c])
               PROVE  c = Bucket(u[c][i].key, k0)
    BY <1>d DEF Placed
  <2>1. CASE c = b /\ i = 1
    BY <1>0, <1>1, <2>1
  <2>2. CASE ~(c = b /\ i = 1)
    <3>1. PICK k \in 1..Len(t[c]) : u[c][i] = t[c][k]
      BY <1>a, <2>2
    <3>2. c = Bucket(t[c][k].key, k0)
      BY <1>d, <1>1 DEF Placed
    <3> QED BY <3>1, <3>2
  <2> QED BY <2>1, <2>2
<1>2. ASSUME Once(t), e.key \notin KeysOf(Nodes(t))
      PROVE  Once(u)
  <2> SUFFICES ASSUME NEW c \in 0..(n - 1), NEW d \in 0..(n - 1),
                      NEW i \in 1..Len(u[c]), NEW j \in 1..Len(u[d]),
                      u[c][i].key = u[d][j].key
               PROVE  c = d /\ i = j
    BY <1>d DEF Once
  <2>1. ASSUME NEW a \in 0..(n - 1), NEW l \in 1..Len(t[a])
        PROVE  t[a][l].key # e.key
    <3>1. t[a][l] \in Nodes(t)
      BY NodesAt
    <3> QED BY <1>2, <3>1 DEF KeysOf
  <2>2. CASE c = b /\ i = 1
    <3>1. u[d][j].key = e.key
      BY <1>0, <2>2
    <3>2. d = b /\ j = 1
      <4> SUFFICES ASSUME ~(d = b /\ j = 1) PROVE FALSE
        OBVIOUS
      <4>1. PICK l \in 1..Len(t[d]) : u[d][j] = t[d][l]
        BY <1>a
      <4> QED BY <2>1, <3>1, <4>1
    <3> QED BY <2>2, <3>2
  <2>3. CASE d = b /\ j = 1
    <3>1. u[c][i].key = e.key
      BY <1>0, <2>3
    <3>2. c = b /\ i = 1
      <4> SUFFICES ASSUME ~(c = b /\ i = 1) PROVE FALSE
        OBVIOUS
      <4>1. PICK k \in 1..Len(t[c]) : u[c][i] = t[c][k]
        BY <1>a
      <4> QED BY <2>1, <3>1, <4>1
    <3> QED BY <2>3, <3>2
  <2>4. CASE ~(c = b /\ i = 1) /\ ~(d = b /\ j = 1)
    <3>1. PICK k \in 1..Len(t[c]) : i = (IF c = b THEN k + 1 ELSE k) /\ u[c][i] = t[c][k]
      BY <1>a, <2>4
    <3>2. PICK l \in 1..Len(t[d]) : j = (IF d = b THEN l + 1 ELSE l) /\ u[d][j] = t[d][l]
      BY <1>a, <2>4
    <3>3. c = d /\ k = l
      <4>1. t[c][k].key = t[d][l].key
        BY <3>1, <3>2
      <4>2. \A a, z \in 0..(n - 1) : \A x \in 1..Len(t[a]), y \in 1..Len(t[z]) :
              t[a][x].key = t[z][y].key => a = z /\ x = y
        BY <1>d, <1>2 DEF Once
      <4> QED BY <4>1, <4>2
    <3> QED BY <3>1, <3>2, <3>3
  <2> QED BY <2>2, <2>3, <2>4
<1> QED BY <1>1, <1>2

-----------------------------------------------------------------------------
(* u is t without node m of chain b. *)
Removed(n, t, u, b, m) ==
  /\ u \in Tables(n)
  /\ \A c \in 0..(n - 1) : \A i \in 1..Len(u[c]) :
       \E k \in 1..Len(t[c]) :
         /\ k = (IF c = b /\ i >= m THEN i + 1 ELSE i)
         /\ u[c][i] = t[c][k] /\ ~(c = b /\ k = m)
  /\ \A c \in 0..(n - 1) : \A k \in 1..Len(t[c]) :
       ~(c = b /\ k = m) => \E i \in 1..Len(u[c]) : u[c][i] = t[c][k]
  /\ UsedIn(u) = IF Len(t[b]) = 1 THEN UsedIn(t) \ {b} ELSE UsedIn(t)

LEMMA RemovePlaces ==
  ASSUME NEW n \in Nat, NEW t \in Tables(n), NEW b \in 0..(n - 1), NEW m \in 1..Len(t[b])
  PROVE  Removed(n, t, [t EXCEPT ![b] = Without(@, m)], b, m)
<1> DEFINE u == [t EXCEPT ![b] = Without(@, m)]
<1>0. t[b] \in Seq(Entry) /\ Len(t[b]) \in Nat \ {0} /\ t[b] # <<>>
  BY DEF Tables
<1>1. /\ u \in Tables(n) /\ u[b] = Without(t[b], m)
      /\ \A c \in 0..(n - 1) : c # b => u[c] = t[c]
  BY <1>0, WithoutChain DEF Tables
<1> DEFINE q == t[b]
<1>2. /\ Len(Without(q, m)) = Len(q) - 1
      /\ \A j \in 1..(Len(q) - 1) : Without(q, m)[j] = IF j < m THEN q[j] ELSE q[j + 1]
      /\ Without(q, m) = <<>> <=> Len(q) = 1
  BY <1>0, WithoutChain
<1>3. q = t[b] /\ u[b] = Without(q, m) /\ Len(q) \in Nat \ {0} /\ q # <<>> /\ m \in 1..Len(q)
  BY <1>0, <1>1
<1> HIDE DEF u, q
<1>4. ASSUME NEW c \in 0..(n - 1), NEW i \in 1..Len(u[c])
      PROVE  \E k \in 1..Len(t[c]) :
               /\ k = (IF c = b /\ i >= m THEN i + 1 ELSE i)
               /\ u[c][i] = t[c][k] /\ ~(c = b /\ k = m)
  <2>1. CASE c = b /\ i >= m
    <3>1. i \in 1..(Len(q) - 1) /\ ~(i < m)
      BY <1>2, <1>3, <2>1
    <3>2. i + 1 \in 1..Len(q) /\ u[c][i] = q[i + 1] /\ i + 1 # m
      BY <1>2, <1>3, <2>1, <3>1
    <3> QED BY <1>3, <2>1, <3>2
  <2>2. CASE c = b /\ ~(i >= m)
    <3>1. i \in 1..(Len(q) - 1) /\ i < m
      BY <1>2, <1>3, <2>2
    <3>2. i \in 1..Len(q) /\ u[c][i] = q[i] /\ i # m
      BY <1>2, <1>3, <2>2, <3>1
    <3> QED BY <1>3, <2>2, <3>2
  <2>3. CASE c # b
    BY <1>1, <2>3
  <2> QED BY <2>1, <2>2, <2>3
<1>5. ASSUME NEW c \in 0..(n - 1), NEW k \in 1..Len(t[c]), ~(c = b /\ k = m)
      PROVE  \E i \in 1..Len(u[c]) : u[c][i] = t[c][k]
  <2>1. CASE c = b /\ k < m
    <3>1. k \in 1..(Len(q) - 1) /\ k \in 1..Len(u[c])
      BY <1>2, <1>3, <2>1
    <3>2. u[c][k] = q[k]
      BY <1>2, <1>3, <2>1, <3>1
    <3> QED BY <1>3, <2>1, <3>1, <3>2
  <2>2. CASE c = b /\ ~(k < m)
    <3>1. k - 1 \in 1..(Len(q) - 1) /\ k - 1 \in 1..Len(u[c]) /\ ~(k - 1 < m) /\ (k - 1) + 1 = k
      BY <1>2, <1>3, <1>5, <2>2
    <3>2. u[c][k - 1] = q[k]
      BY <1>2, <1>3, <2>2, <3>1
    <3> QED BY <1>3, <2>2, <3>1, <3>2
  <2>3. CASE c # b
    BY <1>1, <2>3
  <2> QED BY <2>1, <2>2, <2>3
<1>6. UsedIn(u) = IF Len(t[b]) = 1 THEN UsedIn(t) \ {b} ELSE UsedIn(t)
  <2>1. DOMAIN u = 0..(n - 1) /\ DOMAIN t = 0..(n - 1)
    BY <1>1 DEF Tables
  <2>2. u[b] = <<>> <=> Len(t[b]) = 1
    BY <1>2, <1>3
  <2>3. t[b] # <<>>
    BY <1>3
  <2> QED BY <1>1, <2>1, <2>2, <2>3 DEF UsedIn
<1>7. Removed(n, t, u, b, m)
  BY <1>1, <1>4, <1>5, <1>6 DEF Removed
<1> QED BY <1>7 DEF u

(* Removing a node removes that node and no other when keys are apart, and *)
(* keeps them apart and in their buckets.                                  *)
LEMMA RemoveKeeps ==
  ASSUME NEW n \in Nat, NEW t \in Tables(n), NEW u, NEW b \in 0..(n - 1),
         NEW m \in 1..Len(t[b]), Removed(n, t, u, b, m), Once(t)
  PROVE  /\ Nodes(u) = Nodes(t) \ {t[b][m]}
         /\ KeysOf(Nodes(u)) = KeysOf(Nodes(t)) \ {t[b][m].key}
         /\ Once(u)
         /\ \A k0 : Placed(t, k0) => Placed(u, k0)
<1>0. u \in Tables(n)
  BY DEF Removed
<1>a. \A c \in 0..(n - 1) : \A i \in 1..Len(u[c]) :
        \E k \in 1..Len(t[c]) :
          /\ k = (IF c = b /\ i >= m THEN i + 1 ELSE i)
          /\ u[c][i] = t[c][k] /\ ~(c = b /\ k = m)
  BY DEF Removed
<1>b. \A c \in 0..(n - 1) : \A k \in 1..Len(t[c]) :
        ~(c = b /\ k = m) => \E i \in 1..Len(u[c]) : u[c][i] = t[c][k]
  BY DEF Removed
<1>d. DOMAIN u = 0..(n - 1) /\ DOMAIN t = 0..(n - 1)
  BY <1>0 DEF Tables
<1>e. \A a, z \in 0..(n - 1) : \A x \in 1..Len(t[a]), y \in 1..Len(t[z]) :
        t[a][x].key = t[z][y].key => a = z /\ x = y
  BY <1>d DEF Once
<1>1. ASSUME NEW x \in Nodes(u)
      PROVE  x \in Nodes(t) /\ x.key # t[b][m].key
  <2>1. PICK c \in 0..(n - 1) : \E i \in 1..Len(u[c]) : u[c][i] = x
    BY <1>0, NodesAt
  <2>i. PICK i \in 1..Len(u[c]) : u[c][i] = x
    BY <2>1
  <2>2. PICK k \in 1..Len(t[c]) : t[c][k] = x /\ ~(c = b /\ k = m)
    BY <1>a, <2>i
  <2>3. x \in Nodes(t)
    BY <2>2, NodesAt
  <2>4. t[c][k].key # t[b][m].key
    BY <1>e, <2>2
  <2> QED BY <2>2, <2>3, <2>4
<1>2. ASSUME NEW x \in Nodes(t), x # t[b][m]
      PROVE  x \in Nodes(u)
  <2>1. PICK c \in 0..(n - 1) : \E k \in 1..Len(t[c]) : t[c][k] = x
    BY NodesAt
  <2>2. PICK k \in 1..Len(t[c]) : t[c][k] = x
    BY <2>1
  <2>3. \E i \in 1..Len(u[c]) : u[c][i] = x
    BY <1>2, <1>b, <2>2
  <2> QED BY <1>0, <2>3, NodesAt
<1>3. Nodes(u) = Nodes(t) \ {t[b][m]}
  BY <1>1, <1>2
<1>4. KeysOf(Nodes(u)) = KeysOf(Nodes(t)) \ {t[b][m].key}
  BY <1>1, <1>2 DEF KeysOf
<1>5. Once(u)
  <2> SUFFICES ASSUME NEW c \in 0..(n - 1), NEW d \in 0..(n - 1),
                      NEW i \in 1..Len(u[c]), NEW j \in 1..Len(u[d]),
                      u[c][i].key = u[d][j].key
               PROVE  c = d /\ i = j
    BY <1>d DEF Once
  <2>1. PICK k \in 1..Len(t[c]) :
               /\ k = (IF c = b /\ i >= m THEN i + 1 ELSE i)
               /\ u[c][i] = t[c][k] /\ ~(c = b /\ k = m)
    BY <1>a, Zenon
  <2>2. PICK l \in 1..Len(t[d]) :
               /\ l = (IF d = b /\ j >= m THEN j + 1 ELSE j)
               /\ u[d][j] = t[d][l] /\ ~(d = b /\ l = m)
    BY <1>a, Zenon
  <2>3. t[c][k].key = t[d][l].key
    BY <2>1, <2>2
  <2>4. c = d /\ k = l
    <3>1. k \in 1..Len(t[c]) /\ l \in 1..Len(t[d])
      BY <2>1, <2>2
    <3> QED BY <1>e, <2>3, <3>1
  <2>5. i \in Nat /\ j \in Nat /\ m \in Nat
    OBVIOUS
  <2> QED BY <2>1, <2>2, <2>4, <2>5
<1>6. ASSUME NEW k0, Placed(t, k0)
      PROVE  Placed(u, k0)
  <2> SUFFICES ASSUME NEW c \in 0..(n - 1), NEW i \in 1..Len(u[c])
               PROVE  c = Bucket(u[c][i].key, k0)
    BY <1>d DEF Placed
  <2>1. PICK k \in 1..Len(t[c]) : u[c][i] = t[c][k]
    BY <1>a
  <2>2. c = Bucket(t[c][k].key, k0)
    BY <1>d, <1>6 DEF Placed
  <2> QED BY <2>1, <2>2
<1> QED BY <1>3, <1>4, <1>5, <1>6

-----------------------------------------------------------------------------
(* u is t with other data in node m of chain b. *)
Updated(n, t, u, b, m, d) ==
  /\ u \in Tables(n)
  /\ \A c \in 0..(n - 1) : Len(u[c]) = Len(t[c])
  /\ \A c \in 0..(n - 1) : \A i \in 1..Len(t[c]) :
       u[c][i] = IF c = b /\ i = m THEN [key |-> t[c][i].key, data |-> d] ELSE t[c][i]

LEMMA UpdatePlaces ==
  ASSUME NEW n \in Nat, NEW t \in Tables(n), NEW b \in 0..(n - 1), NEW m \in 1..Len(t[b]),
         NEW d \in Data
  PROVE  Updated(n, t, [t EXCEPT ![b][m].data = d], b, m, d)
<1> DEFINE e == [t[b][m] EXCEPT !.data = d]
           c == [t[b] EXCEPT ![m] = e]
           u == [t EXCEPT ![b] = c]
<1>1. t[b] \in Seq(Entry) /\ t[b][m] \in Entry /\ DOMAIN t = 0..(n - 1)
  BY DEF Tables
<1>2. e = [key |-> t[b][m].key, data |-> d] /\ e \in Entry
  BY <1>1 DEF Entry
<1> HIDE DEF e
<1>3. c \in Seq(Entry) /\ Len(c) = Len(t[b]) /\ c[m] = e
      /\ \A i \in 1..Len(t[b]) : i # m => c[i] = t[b][i]
  BY <1>1, <1>2
<1> HIDE DEF c
<1>4. u \in Tables(n) /\ u[b] = c /\ \A a \in 0..(n - 1) : a # b => u[a] = t[a]
  BY <1>1, <1>3 DEF Tables
<1>5. u = [t EXCEPT ![b][m].data = d]
  BY <1>1 DEF u, c, e
<1> HIDE DEF u
<1>6. Updated(n, t, u, b, m, d)
  BY <1>2, <1>3, <1>4 DEF Updated
<1> QED BY <1>5, <1>6

(* Such a table has the same keys at the same places, and one other node. *)
LEMMA UpdateKeeps ==
  ASSUME NEW n \in Nat, NEW t \in Tables(n), NEW u, NEW b \in 0..(n - 1),
         NEW m \in 1..Len(t[b]), NEW d \in Data, Updated(n, t, u, b, m, d), Once(t)
  PROVE  /\ Nodes(u) = (Nodes(t) \ {t[b][m]}) \cup {[key |-> t[b][m].key, data |-> d]}
         /\ KeysOf(Nodes(u)) = KeysOf(Nodes(t))
         /\ UsedIn(u) = UsedIn(t)
         /\ Once(u)
         /\ \A k0 : Placed(t, k0) => Placed(u, k0)
<1> DEFINE e == [key |-> t[b][m].key, data |-> d]
<1>0. u \in Tables(n) /\ DOMAIN u = 0..(n - 1) /\ DOMAIN t = 0..(n - 1)
  BY DEF Updated, Tables
<1>a. \A c \in 0..(n - 1) : Len(u[c]) = Len(t[c])
  BY DEF Updated
<1>b. \A c \in 0..(n - 1) : \A i \in 1..Len(t[c]) :
        u[c][i] = IF c = b /\ i = m THEN e ELSE t[c][i]
  BY DEF Updated
<1>c. e.key = t[b][m].key
  OBVIOUS
<1> HIDE DEF e
<1>d. \A c \in 0..(n - 1) : \A i \in 1..Len(t[c]) : u[c][i].key = t[c][i].key
  BY <1>b, <1>c
<1>e. \A a, z \in 0..(n - 1) : \A x \in 1..Len(t[a]), y \in 1..Len(t[z]) :
        t[a][x].key = t[z][y].key => a = z /\ x = y
  BY <1>0 DEF Once
<1>1. ASSUME NEW x \in Nodes(u)
      PROVE  x = e \/ (x \in Nodes(t) /\ x # t[b][m])
  <2>1. PICK c \in 0..(n - 1) : \E i \in 1..Len(u[c]) : u[c][i] = x
    BY <1>0, NodesAt
  <2>2. PICK i \in 1..Len(t[c]) : u[c][i] = x
    BY <1>a, <2>1
  <2>3. CASE c = b /\ i = m
    BY <1>b, <2>2, <2>3
  <2>4. CASE ~(c = b /\ i = m)
    <3>1. x = t[c][i]
      BY <1>b, <2>2, <2>4
    <3>2. x.key # t[b][m].key
      BY <1>e, <2>2, <2>4, <3>1
    <3>3. x \in Nodes(t)
      BY <2>2, <3>1, NodesAt
    <3> QED BY <3>2, <3>3
  <2> QED BY <2>3, <2>4
<1>2. ASSUME NEW x \in Nodes(t), x # t[b][m]
      PROVE  x \in Nodes(u)
  <2>1. PICK c \in 0..(n - 1) : \E i \in 1..Len(t[c]) : t[c][i] = x
    BY NodesAt
  <2>2. PICK i \in 1..Len(t[c]) : t[c][i] = x
    BY <2>1
  <2>3. u[c][i] = x /\ i \in 1..Len(u[c])
    BY <1>2, <1>a, <1>b, <2>2
  <2> QED BY <1>0, <2>3, NodesAt
<1>3. e \in Nodes(u) /\ t[b][m] \in Nodes(t)
  <2>1. u[b][m] = e /\ m \in 1..Len(u[b])
    BY <1>a, <1>b
  <2> QED BY <1>0, <2>1, NodesAt
<1>4. Nodes(u) = (Nodes(t) \ {t[b][m]}) \cup {e}
  BY <1>1, <1>2, <1>3
<1>5. KeysOf(Nodes(u)) = KeysOf(Nodes(t))
  BY <1>1, <1>2, <1>3, <1>c DEF KeysOf
<1>6. UsedIn(u) = UsedIn(t)
  <2>1. \A c \in 0..(n - 1) : u[c] \in Seq(Entry) /\ t[c] \in Seq(Entry)
    BY <1>0 DEF Tables
  <2>2. \A c \in 0..(n - 1) : u[c] = <<>> <=> t[c] = <<>>
    BY <1>a, <2>1
  <2> QED BY <1>0, <2>2 DEF UsedIn
<1>7. Once(u)
  BY <1>0, <1>a, <1>d, <1>e DEF Once
<1>8. ASSUME NEW k0, Placed(t, k0)
      PROVE  Placed(u, k0)
  <2> SUFFICES ASSUME NEW c \in 0..(n - 1), NEW i \in 1..Len(u[c])
               PROVE  c = Bucket(u[c][i].key, k0)
    BY <1>0 DEF Placed
  <2>1. i \in 1..Len(t[c]) /\ u[c][i].key = t[c][i].key
    BY <1>a, <1>d
  <2>2. c = Bucket(t[c][i].key, k0)
    BY <1>0, <1>8, <2>1 DEF Placed
  <2> QED BY <2>1, <2>2
<1> QED BY <1>4, <1>5, <1>6, <1>7, <1>8 DEF e

(* A new table holds nothing. *)
LEMMA EmptyHolds ==
  ASSUME NEW n \in Nat
  PROVE  /\ EmptyTable(n) \in Tables(n)
         /\ Nodes(EmptyTable(n)) = {} /\ UsedIn(EmptyTable(n)) = {}
         /\ Once(EmptyTable(n)) /\ \A k : Placed(EmptyTable(n), k)
<1> DEFINE t == EmptyTable(n)
<1>1. t \in Tables(n) /\ \A b \in 0..(n - 1) : t[b] = <<>>
  BY DEF EmptyTable, Tables
<1> HIDE DEF t
<1>2. Nodes(t) = {}
  <2>1. \A b \in 0..(n - 1) : \A i \in 1..Len(t[b]) : FALSE
    BY <1>1
  <2> QED BY <1>1, <2>1, NodesAt
<1>3. UsedIn(t) = {} /\ Once(t) /\ \A k : Placed(t, k)
  BY <1>1 DEF UsedIn, Once, Placed, Tables
<1> QED BY <1>1, <1>2, <1>3 DEF t

-----------------------------------------------------------------------------
(* Look-ups. *)

(* A bucket number lies in the table. *)
LEMMA BucketIn ==
  ASSUME NEW key \in Keys, NEW n \in Nat \ {0}
  PROVE  Bucket(key, n) \in 0..(n - 1)
<1>1. Hash[key] \in Nat
  BY IndexAssumption
<1>2. \A x \in Nat : x % n \in 0..(n - 1)
  OBVIOUS
<1> QED BY <1>1, <1>2 DEF Bucket

(* When nodes are in their buckets, the scan of one chain tells whether     *)
(* the table has the key.                                                  *)
LEMMA ScanFinds ==
  ASSUME NEW n \in Nat \ {0}, NEW t \in Tables(n), Placed(t, n), NEW key \in Keys
  PROVE  Absent(t[Bucket(key, n)], key) <=> key \notin KeysOf(Nodes(t))
<1>1. Bucket(key, n) \in 0..(n - 1)
  BY BucketIn
<1>2. ASSUME key \in KeysOf(Nodes(t))
      PROVE  ~Absent(t[Bucket(key, n)], key)
  <2>1. PICK x \in Nodes(t) : x.key = key
    BY <1>2 DEF KeysOf
  <2>2. PICK b \in 0..(n - 1) : \E i \in 1..Len(t[b]) : t[b][i] = x
    BY <2>1, NodesAt
  <2>3. b = Bucket(key, n)
    BY <2>1, <2>2 DEF Placed, Tables
  <2> QED BY <2>1, <2>2, <2>3 DEF Absent
<1>3. ASSUME ~Absent(t[Bucket(key, n)], key)
      PROVE  key \in KeysOf(Nodes(t))
  <2>1. PICK i \in 1..Len(t[Bucket(key, n)]) : t[Bucket(key, n)][i].key = key
    BY <1>3 DEF Absent
  <2>2. t[Bucket(key, n)][i] \in Nodes(t)
    BY <1>1, <2>1, NodesAt
  <2> QED BY <2>1, <2>2 DEF KeysOf
<1> QED BY <1>2, <1>3

-----------------------------------------------------------------------------
(* The map that a set of nodes stands for. *)

(* A map with a pair more, or another for its key; and one without a key.  *)
Plus(m, k, d) == [key \in DOMAIN m \cup {k} |-> IF key = k THEN d ELSE m[key]]
Minus(m, k) == [key \in DOMAIN m \ {k} |-> m[key]]

Unique(nodes) == \A x, y \in nodes : x.key = y.key => x = y

LEMMA MapAt ==
  ASSUME NEW S, Unique(S)
  PROVE  /\ DOMAIN MapOf(S) = KeysOf(S)
         /\ \A x \in S : x.key \in KeysOf(S) /\ MapOf(S)[x.key] = x.data
<1>1. DOMAIN MapOf(S) = KeysOf(S)
  BY DEF MapOf
<1>2. ASSUME NEW x \in S
      PROVE  x.key \in KeysOf(S) /\ MapOf(S)[x.key] = x.data
  <2>1. x.key \in KeysOf(S)
    BY DEF KeysOf
  <2>2. (CHOOSE node \in S : node.key = x.key) = x
    <3>1. \E node \in S : node.key = x.key
      OBVIOUS
    <3> QED BY <3>1 DEF Unique
  <2> QED BY <2>1, <2>2 DEF MapOf
<1> QED BY <1>1, <1>2

(* A node with a new key adds a pair. *)
LEMMA MapAdd ==
  ASSUME NEW S, Unique(S), NEW e, e.key \notin KeysOf(S)
  PROVE  /\ Unique(S \cup {e}) /\ KeysOf(S \cup {e}) = KeysOf(S) \cup {e.key}
         /\ MapOf(S \cup {e}) = Plus(MapOf(S), e.key, e.data)
<1> DEFINE T == S \cup {e}
<1>1. Unique(T) /\ KeysOf(T) = KeysOf(S) \cup {e.key}
  BY DEF Unique, KeysOf
<1>2. \A key \in KeysOf(T) : MapOf(T)[key] = IF key = e.key THEN e.data ELSE MapOf(S)[key]
  <2>1. ASSUME NEW key \in KeysOf(T)
        PROVE  MapOf(T)[key] = IF key = e.key THEN e.data ELSE MapOf(S)[key]
    <3>1. PICK x \in T : x.key = key
      BY DEF KeysOf
    <3>2. MapOf(T)[key] = x.data
      BY <1>1, <3>1, MapAt
    <3>3. CASE x = e
      BY <3>1, <3>2, <3>3
    <3>4. CASE x # e
      <4>1. x \in S
        BY <3>4
      <4>2. key # e.key
        BY <3>1, <4>1 DEF KeysOf
      <4>3. MapOf(S)[key] = x.data
        BY <3>1, <4>1, MapAt
      <4> QED BY <3>2, <4>2, <4>3
    <3> QED BY <3>3, <3>4
  <2> QED BY <2>1
<1>3. MapOf(T) = [key \in KeysOf(T) |-> MapOf(T)[key]] /\ DOMAIN MapOf(S) = KeysOf(S)
  BY DEF MapOf
<1> QED BY <1>1, <1>2, <1>3 DEF Plus

(* Other data in a node changes the pair of its key. *)
LEMMA MapChange ==
  ASSUME NEW S, Unique(S), NEW x \in S, NEW k, x.key = k, NEW d,
         NEW T, T = (S \ {x}) \cup {[key |-> k, data |-> d]}
  PROVE  /\ Unique(T) /\ KeysOf(T) = KeysOf(S)
         /\ MapOf(T) = Plus(MapOf(S), k, d)
<1> DEFINE e == [key |-> k, data |-> d]
           R == S \ {x}
<1>1. e.key = x.key /\ e.data = d /\ k = x.key
  OBVIOUS
<1> HIDE DEF e
<1>2. Unique(R) /\ KeysOf(R) = KeysOf(S) \ {x.key} /\ x.key \in KeysOf(S)
  BY DEF Unique, KeysOf
<1>3. \A key \in KeysOf(R) : MapOf(R)[key] = MapOf(S)[key]
  <2>1. ASSUME NEW y \in R PROVE MapOf(R)[y.key] = MapOf(S)[y.key]
    BY <1>2, MapAt
  <2> QED BY <2>1 DEF KeysOf
<1> HIDE DEF R
<1>4. /\ Unique(R \cup {e}) /\ KeysOf(R \cup {e}) = KeysOf(R) \cup {e.key}
      /\ MapOf(R \cup {e}) = Plus(MapOf(R), e.key, e.data)
  BY <1>1, <1>2, MapAdd
<1>5. KeysOf(R) \cup {e.key} = KeysOf(S) /\ KeysOf(S) \cup {k} = KeysOf(S)
  BY <1>1, <1>2
<1>6. DOMAIN MapOf(R) = KeysOf(R) /\ DOMAIN MapOf(S) = KeysOf(S)
  BY DEF MapOf
<1>7. Plus(MapOf(R), e.key, e.data) = Plus(MapOf(S), k, d)
  BY <1>1, <1>2, <1>3, <1>5, <1>6 DEF Plus
<1> QED BY <1>1, <1>4, <1>5, <1>7 DEF e, R

(* A node less takes its pair away. *)
LEMMA MapLess ==
  ASSUME NEW S, Unique(S), NEW x \in S
  PROVE  /\ Unique(S \ {x}) /\ KeysOf(S \ {x}) = KeysOf(S) \ {x.key}
         /\ MapOf(S \ {x}) = Minus(MapOf(S), x.key)
<1> DEFINE R == S \ {x}
<1>1. Unique(R) /\ KeysOf(R) = KeysOf(S) \ {x.key} /\ x.key \in KeysOf(S)
  BY DEF Unique, KeysOf
<1>2. \A key \in KeysOf(R) : MapOf(R)[key] = MapOf(S)[key]
  <2>1. ASSUME NEW y \in R PROVE MapOf(R)[y.key] = MapOf(S)[y.key]
    BY <1>1, MapAt
  <2> QED BY <2>1 DEF KeysOf
<1>3. MapOf(R) = [key \in KeysOf(R) |-> MapOf(R)[key]] /\ DOMAIN MapOf(S) = KeysOf(S)
  BY DEF MapOf
<1> QED BY <1>1, <1>2, <1>3 DEF Minus

(* No nodes are the empty map. *)
LEMMA MapNone == MapOf({}) = <<>> /\ KeysOf({}) = {} /\ Unique({})
  BY DEF MapOf, KeysOf, Unique

(* Keys that are apart tell nodes apart. *)
LEMMA OnceUnique ==
  ASSUME NEW n \in Nat, NEW t \in Tables(n), Once(t)
  PROVE  Unique(Nodes(t))
<1> SUFFICES ASSUME NEW x \in Nodes(t), NEW y \in Nodes(t), x.key = y.key
             PROVE  x = y
  BY DEF Unique
<1>1. PICK b \in 0..(n - 1) : \E i \in 1..Len(t[b]) : t[b][i] = x
  BY NodesAt
<1>2. PICK c \in 0..(n - 1) : \E j \in 1..Len(t[c]) : t[c][j] = y
  BY NodesAt
<1>3. PICK i \in 1..Len(t[b]) : t[b][i] = x
  BY <1>1
<1>4. PICK j \in 1..Len(t[c]) : t[c][j] = y
  BY <1>2
<1>5. \A a, z \in 0..(n - 1) : \A k \in 1..Len(t[a]), l \in 1..Len(t[z]) :
        t[a][k].key = t[z][l].key => a = z /\ k = l
  BY DEF Once, Tables
<1>6. b = c /\ i = j
  <2>1. i \in 1..Len(t[b]) /\ j \in 1..Len(t[c]) /\ t[b][i].key = t[c][j].key
    BY <1>3, <1>4
  <2> QED BY <1>5, <2>1
<1> QED BY <1>3, <1>4, <1>6

LEMMA UsedFinite ==
  ASSUME NEW n \in Nat, NEW t \in Tables(n)
  PROVE  IsFiniteSet(UsedIn(t))
<1>1. UsedIn(t) \subseteq 0..(n - 1)
  BY DEF UsedIn, Tables
<1>2. IsFiniteSet(0..(n - 1))
  BY FS_Interval
<1> QED BY <1>1, <1>2, FS_Subset

-----------------------------------------------------------------------------
(* The insertion proper, which ends both ways of inserting. *)

Held == MapOf(Nodes(table))

(* A table whose nodes are in their buckets, one a key, and counted. *)
TableSound ==
  /\ size \in Nat /\ keyCount \in Nat
  /\ table \in Tables(size)
  /\ Placed(table, size)
  /\ Once(table)
  /\ IsFiniteSet(KeysOf(Nodes(table)))
  /\ keyCount = Cardinality(KeysOf(Nodes(table)))

LEMMA EnterNewKeeps ==
  ASSUME TableSound, size # 0, size' = size,
         NEW op, NEW key \in Keys, NEW data \in Data, NEW used,
         used = Cardinality(UsedIn(table)),
         key \notin KeysOf(Nodes(table)),
         EnterNew(op, key, data, used)
  PROVE  /\ TableSound'
         /\ inUse' = Cardinality(UsedIn(table'))
         /\ Held' = Plus(Held, key, data)
<1> DEFINE b == Bucket(key, size)
           e == [key |-> key, data |-> data]
<1>1. /\ size \in Nat \ {0} /\ b \in 0..(size - 1) /\ e \in Entry /\ e.key = key /\ e.data = data
      /\ table \in Tables(size)
  BY BucketIn DEF TableSound, Entry
<1>2. table' = [table EXCEPT ![b] = Push(e, @)]
  BY DEF EnterNew
<1>3. /\ keyCount' = keyCount + 1
      /\ inUse' = IF table[b] = <<>> THEN used + 1 ELSE used
  BY DEF EnterNew
<1> HIDE DEF e
<1>4. b = Bucket(e.key, size)
  BY <1>1
<1> HIDE DEF b
<1>5. Pushed(size, table, table', b, e)
  BY <1>1, <1>2, PushPlaces
<1>6. /\ Nodes(table') = Nodes(table) \cup {e}
      /\ table' \in Tables(size)
      /\ UsedIn(table') = UsedIn(table) \cup {b}
      /\ Placed(table', size) /\ Once(table')
  <2>1. Nodes(table') = Nodes(table) \cup {e}
    BY <1>1, <1>5, PushNodes
  <2>2. table' \in Tables(size) /\ UsedIn(table') = UsedIn(table) \cup {b}
    BY <1>5 DEF Pushed
  <2>3. Placed(table, size) /\ Once(table)
    BY DEF TableSound
  <2>4. e.key \notin KeysOf(Nodes(table))
    BY <1>1
  <2>5. Placed(table', size) /\ Once(table')
    BY <1>1, <1>4, <1>5, <2>3, <2>4, PushKeeps
  <2> QED BY <2>1, <2>2, <2>5
<1>7. Unique(Nodes(table))
  BY <1>1, OnceUnique DEF TableSound
<1>8. /\ KeysOf(Nodes(table')) = KeysOf(Nodes(table)) \cup {key}
      /\ MapOf(Nodes(table')) = Plus(MapOf(Nodes(table)), key, data)
  BY <1>1, <1>6, <1>7, MapAdd
<1>9. DOMAIN Held = KeysOf(Nodes(table))
  BY <1>7, MapAt DEF Held
<1>10. /\ IsFiniteSet(KeysOf(Nodes(table')))
       /\ keyCount' = Cardinality(KeysOf(Nodes(table'))) /\ keyCount' \in Nat
  BY <1>3, <1>8, FS_AddElement DEF TableSound
<1>11. inUse' = Cardinality(UsedIn(table'))
  <2>1. IsFiniteSet(UsedIn(table))
    BY <1>1, UsedFinite
  <2>2. b \in UsedIn(table) <=> table[b] # <<>>
    BY <1>1 DEF UsedIn, Tables
  <2> QED BY <1>3, <1>6, <2>1, <2>2, FS_AddElement
<1>12. TableSound'
  BY <1>1, <1>6, <1>10 DEF TableSound
<1> QED BY <1>8, <1>9, <1>11, <1>12 DEF Held

LEMMA EnterKeeps ==
  ASSUME TableSound, size # 0, size' = size, Contents = Held, Contents' = Held',
         NEW op \in {"insert", "upsert"}, NEW key \in Keys, NEW data \in Data, NEW used,
         used = Cardinality(UsedIn(table)),
         Enter(op, key, data, used)
  PROVE  /\ TableSound'
         /\ inUse' = Cardinality(UsedIn(table'))
         /\ Map!Next
<1> DEFINE b == Bucket(key, size)
<1>1. size \in Nat \ {0} /\ b \in 0..(size - 1) /\ table \in Tables(size)
  BY BucketIn DEF TableSound
<1>2. Chain(key) = table[b]
  BY DEF Chain
<1>3. Absent(Chain(key), key) <=> key \notin KeysOf(Nodes(table))
  BY <1>1, <1>2, ScanFinds DEF TableSound
<1>4. Unique(Nodes(table)) /\ DOMAIN Held = KeysOf(Nodes(table))
  BY <1>1, OnceUnique, MapAt DEF TableSound, Held
<1>5. CASE EnterNew(op, key, data, used) /\ Absent(Chain(key), key)
  <2>1. /\ TableSound' /\ inUse' = Cardinality(UsedIn(table'))
        /\ Held' = Plus(Held, key, data)
    <3>1. key \notin KeysOf(Nodes(table)) /\ EnterNew(op, key, data, used)
      BY <1>3, <1>5
    <3> QED BY <3>1, EnterNewKeeps
  <2>2. Result(op, "ok", NoData) /\ key \notin DOMAIN Held
    BY <1>3, <1>4, <1>5 DEF EnterNew
  <2>3. Map!Insert(key, data) \/ Map!Upsert(key, data)
    BY <2>1, <2>2 DEF Plus, Map!Insert, Map!Upsert, Map!With, Map!Result, Result
  <2> QED BY <2>1, <2>3 DEF Map!Next
<1>6. CASE EnterFails(op, used) /\ Absent(Chain(key), key)
  <2>1. table' = table /\ keyCount' = keyCount /\ inUse' = used /\ Result(op, "no memory", NoData)
    BY <1>6 DEF EnterFails
  <2>2. TableSound' /\ inUse' = Cardinality(UsedIn(table')) /\ Held' = Held
    BY <2>1 DEF TableSound, Held
  <2>3. Map!Fail
    BY <2>1, <2>2 DEF Map!Fail, Map!Result, Result
  <2> QED BY <2>2, <2>3 DEF Map!Next
<1>7. CASE EnterAgain(op, key, data, used) /\ ~Absent(Chain(key), key) /\ op # "upsert"
  <2>1. table' = table /\ keyCount' = keyCount /\ inUse' = used /\ Result(op, "exists", NoData)
    BY <1>7 DEF EnterAgain
  <2>2. TableSound' /\ inUse' = Cardinality(UsedIn(table')) /\ Held' = Held
    BY <2>1 DEF TableSound, Held
  <2>3. op = "insert" /\ key \in DOMAIN Held
    BY <1>3, <1>4, <1>7
  <2>4. Map!Insert(key, data)
    BY <2>1, <2>2, <2>3 DEF Map!Insert, Map!Result, Result
  <2> QED BY <2>2, <2>4 DEF Map!Next
<1>8. CASE EnterAgain(op, key, data, used) /\ ~Absent(Chain(key), key) /\ op = "upsert"
  <2>1. PICK i \in 1..Len(table[b]) :
               /\ FoundAt(table[b], key, i)
               /\ table' = [table EXCEPT ![b][i].data = data]
    BY <1>2, <1>8 DEF EnterAgain
  <2>2. keyCount' = keyCount /\ inUse' = used /\ Result("upsert", "ok", NoData)
    BY <1>8 DEF EnterAgain
  <2>3. Updated(size, table, table', b, i, data)
    BY <1>1, <2>1, UpdatePlaces
  <2>4. table[b][i].key = key /\ table[b][i] \in Nodes(table)
    BY <1>1, <2>1, NodesAt DEF FoundAt
  <2>5. /\ Nodes(table') = (Nodes(table) \ {table[b][i]}) \cup {[key |-> key, data |-> data]}
        /\ KeysOf(Nodes(table')) = KeysOf(Nodes(table))
        /\ UsedIn(table') = UsedIn(table)
        /\ Once(table') /\ Placed(table', size)
    BY <1>1, <2>1, <2>3, <2>4, UpdateKeeps DEF TableSound
  <2>6. TableSound' /\ inUse' = Cardinality(UsedIn(table'))
    BY <2>2, <2>3, <2>5 DEF TableSound, Updated
  <2>7. Held' = Plus(Held, key, data)
    <3> DEFINE S == Nodes(table)
               T == Nodes(table')
               x == table[b][i]
    <3>1. Unique(S) /\ x \in S /\ x.key = key /\ T = (S \ {x}) \cup {[key |-> key, data |-> data]}
      BY <1>4, <2>4, <2>5
    <3> HIDE DEF S, T, x
    <3>2. MapOf(T) = Plus(MapOf(S), key, data)
      BY <3>1, MapChange
    <3> QED BY <1>4, <3>2 DEF Held, S, T
  <2>8. Map!Upsert(key, data)
    BY <2>2, <2>7 DEF Plus, Map!Upsert, Map!With, Map!Result, Result
  <2> QED BY <2>6, <2>8 DEF Map!Next
<1> QED BY <1>5, <1>6, <1>7, <1>8 DEF Enter

-----------------------------------------------------------------------------
(* The inductive invariant: besides what the runs check, the chains the     *)
(* loop has passed are empty, and an index without buckets must grow first. *)
Sound ==
  /\ TypeOK
  /\ NodesPlaced
  /\ KeysOnce
  /\ CountsAgree
  /\ IsFiniteSet(Present)
  /\ \A b \in DOMAIN old : b < split.bucket => old[b] = <<>>
  /\ size = 0 => growAt = 0

(* What a step may do to the map. *)
MapStep == Map!Next \/ UNCHANGED <<Contents, res>>

LEMMA NoChains ==
  /\ <<>> \in Tables(0) /\ Nodes(<<>>) = {} /\ UsedIn(<<>>) = {} /\ Once(<<>>)
  /\ \A k : Placed(<<>>, k)
<1>1. EmptyTable(0) = <<>>
  BY DEF EmptyTable
<1> QED BY <1>1, EmptyHolds

(* Outside the loop, and when it has nothing left to move, the new table is *)
(* all there is.                                                           *)
LEMMA NothingLeft ==
  ASSUME Sound, Idle \/ split.bucket >= split.count
  PROVE  /\ Nodes(old) = {} /\ All = Nodes(table) /\ Contents = Held
         /\ TableSound
<1>1. old \in Tables(split.count) /\ split.count \in Nat /\ split.bucket \in Nat
  BY DEF Sound, TypeOK, Tables
<1>2. Nodes(old) = {}
  <2>1. CASE Idle
    <3>1. old = <<>>
      BY <2>1 DEF Sound, TypeOK
    <3> QED BY <3>1, NoChains
  <2>2. CASE split.bucket >= split.count
    <3>1. \A b \in 0..(split.count - 1) : b < split.bucket
      BY <1>1, <2>2
    <3>2. \A b \in 0..(split.count - 1) : old[b] = <<>>
      BY <1>1, <3>1 DEF Sound, Tables
    <3>3. \A b \in 0..(split.count - 1) : \A i \in 1..Len(old[b]) : FALSE
      BY <3>2
    <3> QED BY <1>1, <3>3, NodesAt
  <2> QED BY <2>1, <2>2
<1>3. All = Nodes(table) /\ Present = KeysOf(Nodes(table)) /\ Contents = Held
  BY <1>2 DEF All, Present, Contents, Held
<1>4. TableSound
  BY <1>3 DEF Sound, TypeOK, NodesPlaced, KeysOnce, CountsAgree, TableSound, Tables
<1> QED BY <1>2, <1>3, <1>4

(* A call that runs to its end at once need only keep the table sound. *)
LEMMA CallKeeps ==
  ASSUME Sound, Idle, UNCHANGED <<size, growAt, old, split, call>>
  PROVE  /\ Contents' = Held'
         /\ TableSound' /\ inUse' = Cardinality(UsedIn(table')) => Sound'
<1>1. /\ old' = <<>> /\ split' = NotSplitting /\ call' = NoCall
      /\ size' = size /\ growAt' = growAt
  BY DEF Sound, TypeOK, Idle
<1>2. All' = Nodes(table') /\ Present' = KeysOf(Nodes(table')) /\ Contents' = Held'
  BY <1>1, NoChains DEF All, Present, Contents, Held
<1>3. ASSUME TableSound', inUse' = Cardinality(UsedIn(table'))
      PROVE  Sound'
  <2>1. inUse' \in Nat
    <3>1. IsFiniteSet(UsedIn(table'))
      BY <1>3, UsedFinite DEF TableSound
    <3> QED BY <1>3, <3>1, FS_CardinalityType
  <2>2. TypeOK'
    BY <1>1, <1>3, <2>1, NoChains DEF Sound, TypeOK, TableSound, Tables, NotSplitting, Idle
  <2>3. NodesPlaced' /\ KeysOnce'
    <3>1. Once(table') /\ Once(old') /\ Nodes(old') = {}
      BY <1>1, <1>3, NoChains DEF TableSound
    <3>2. KeysOf(Nodes(old')) = {}
      BY <3>1 DEF KeysOf
    <3> QED BY <1>1, <1>3, <3>1, <3>2 DEF TableSound, NodesPlaced, KeysOnce
  <2>4. CountsAgree' /\ IsFiniteSet(Present')
    BY <1>1, <1>2, <1>3 DEF TableSound, CountsAgree, Idle
  <2>5. (\A b \in DOMAIN old : b < split.bucket => old[b] = <<>>)'
    BY <1>1
  <2>6. (size = 0 => growAt = 0)'
    BY <1>1 DEF Sound
  <2> QED BY <2>2, <2>3, <2>4, <2>5, <2>6 DEF Sound
<1> QED BY <1>2, <1>3

-----------------------------------------------------------------------------
(* Each action. *)

LEMMA FindKeeps ==
  ASSUME Sound, NEW key \in Keys, Find(key)
  PROVE  Sound' /\ MapStep
<1>0. Idle /\ UNCHANGED <<table, size, keyCount, inUse, growAt, old, split, call>>
  BY DEF Find
<1>1. TableSound /\ Contents = Held /\ inUse = Cardinality(UsedIn(table))
  BY <1>0, NothingLeft DEF Sound, CountsAgree
<1>2. TableSound' /\ inUse' = Cardinality(UsedIn(table')) /\ Held' = Held
  BY <1>0, <1>1 DEF TableSound, Held
<1>3. Sound' /\ Contents' = Contents
  BY <1>0, <1>1, <1>2, CallKeeps
<1>4. Unique(Nodes(table)) /\ DOMAIN Held = KeysOf(Nodes(table))
  BY <1>1, OnceUnique, MapAt DEF TableSound, Held
<1> DEFINE b == Bucket(key, size)
<1>5. CASE Absent(Chain(key), key) /\ Result("find", "ok", NoData)
  <2>1. key \notin KeysOf(Nodes(table))
    <3>1. CASE size = 0
      <4>1. \A c \in 0..(size - 1) : \A i \in 1..Len(table[c]) : FALSE
        BY <1>1, <3>1 DEF TableSound
      <4> QED BY <1>1, <4>1, NodesAt DEF TableSound, KeysOf
    <3>2. CASE size # 0
      BY <1>1, <1>5, <3>2, ScanFinds DEF TableSound, Chain
    <3> QED BY <3>1, <3>2
  <2>2. Map!Find(key)
    BY <1>1, <1>3, <1>4, <1>5, <2>1 DEF Map!Find, Map!Result, Result
  <2> QED BY <1>3, <2>2 DEF Map!Next, MapStep
<1>6. ASSUME NEW i \in 1..Len(Chain(key)), FoundAt(Chain(key), key, i),
             Result("find", "ok", Chain(key)[i].data)
      PROVE  Sound' /\ MapStep
  <2>1. size \in Nat \ {0} /\ Chain(key) = table[b] /\ b \in 0..(size - 1)
    BY <1>1, <1>6, BucketIn DEF Chain, TableSound
  <2>2. table[b][i] \in Nodes(table) /\ table[b][i].key = key
    BY <1>1, <1>6, <2>1, NodesAt DEF TableSound, FoundAt
  <2>3. key \in DOMAIN Held /\ Held[key] = table[b][i].data
    BY <1>4, <2>2, MapAt DEF Held
  <2>4. Map!Find(key)
    BY <1>1, <1>3, <1>6, <2>1, <2>3 DEF Map!Find, Map!Result, Result
  <2> QED BY <1>3, <2>4 DEF Map!Next, MapStep
<1> QED BY <1>5, <1>6 DEF Find

LEMMA DeleteKeeps ==
  ASSUME Sound, NEW key \in Keys, Delete(key)
  PROVE  Sound' /\ MapStep
<1>0. Idle /\ UNCHANGED <<size, growAt, old, split, call>>
  BY DEF Delete
<1>1. /\ TableSound /\ Contents = Held /\ inUse = Cardinality(UsedIn(table))
      /\ Contents' = Held'
      /\ TableSound' /\ inUse' = Cardinality(UsedIn(table')) => Sound'
  BY <1>0, NothingLeft, CallKeeps DEF Sound, CountsAgree
<1>2. Unique(Nodes(table)) /\ DOMAIN Held = KeysOf(Nodes(table))
  BY <1>1, OnceUnique, MapAt DEF TableSound, Held
<1> DEFINE b == Bucket(key, size)
<1>3. CASE /\ keyCount < 1 \/ Absent(Chain(key), key)
           /\ Result("delete", "ok", NoData)
           /\ UNCHANGED <<table, keyCount, inUse>>
  <2>1. key \notin KeysOf(Nodes(table))
    <3>1. CASE keyCount < 1
      <4>1. Cardinality(KeysOf(Nodes(table))) = 0
        BY <1>1, <3>1 DEF TableSound
      <4> QED BY <1>1, <4>1, FS_EmptySet DEF TableSound
    <3>2. CASE size = 0
      <4>1. \A c \in 0..(size - 1) : \A i \in 1..Len(table[c]) : FALSE
        BY <1>1, <3>2 DEF TableSound
      <4> QED BY <1>1, <4>1, NodesAt DEF TableSound, KeysOf
    <3>3. CASE size # 0 /\ Absent(Chain(key), key)
      BY <1>1, <3>3, ScanFinds DEF TableSound, Chain
    <3> QED BY <1>3, <3>1, <3>2, <3>3
  <2>2. TableSound' /\ inUse' = Cardinality(UsedIn(table')) /\ Held' = Held
    BY <1>0, <1>1, <1>3 DEF TableSound, Held
  <2>3. Held = [k \in DOMAIN Held \ {key} |-> Held[k]]
    BY <1>2, <2>1 DEF Held, MapOf
  <2>4. Map!Delete(key)
    BY <1>1, <1>2, <1>3, <2>1, <2>2, <2>3 DEF Map!Delete, Map!Result, Result
  <2> QED BY <1>1, <2>2, <2>4 DEF Map!Next, MapStep
<1>4. ASSUME keyCount >= 1, keyCount' = keyCount - 1,
             NEW i \in 1..Len(Chain(key)), FoundAt(Chain(key), key, i),
             Result("delete", "ok", Chain(key)[i].data),
             table' = [table EXCEPT ![Bucket(key, size)] = Without(@, i)],
             inUse' = IF Unused(Chain(key), i) THEN inUse - 1 ELSE inUse
      PROVE  Sound' /\ MapStep
  <2>1. /\ size \in Nat \ {0} /\ Chain(key) = table[b] /\ b \in 0..(size - 1)
        /\ table \in Tables(size) /\ Once(table) /\ Placed(table, size)
    BY <1>1, <1>4, BucketIn DEF Chain, TableSound
  <2>e. table' = [table EXCEPT ![b] = Without(@, i)]
    BY <1>4
  <2> HIDE DEF b
  <2>2. i \in 1..Len(table[b]) /\ table[b] \in Seq(Entry)
    BY <1>4, <2>1 DEF Tables
  <2>q. Len(table[b]) \in Nat
    BY <2>2
  <2>3. table[b][i] \in Nodes(table) /\ table[b][i].key = key
    BY <1>4, <2>1, <2>2, NodesAt DEF FoundAt
  <2>4. Removed(size, table, table', b, i)
    BY <2>1, <2>2, <2>e, RemovePlaces
  <2>5. /\ Nodes(table') = Nodes(table) \ {table[b][i]}
        /\ KeysOf(Nodes(table')) = KeysOf(Nodes(table)) \ {key}
        /\ Once(table') /\ Placed(table', size)
    <3>1. /\ Nodes(table') = Nodes(table) \ {table[b][i]}
          /\ KeysOf(Nodes(table')) = KeysOf(Nodes(table)) \ {table[b][i].key}
          /\ Once(table')
          /\ \A k0 : Placed(table, k0) => Placed(table', k0)
      <4>1. size \in Nat
        BY <2>1
      <4> QED BY <2>1, <2>2, <2>4, <4>1, RemoveKeeps
    <3> QED BY <2>1, <2>3, <3>1
  <2>6. key \in KeysOf(Nodes(table))
    BY <2>3 DEF KeysOf
  <2>7. TableSound'
    <3>1. /\ IsFiniteSet(KeysOf(Nodes(table')))
          /\ Cardinality(KeysOf(Nodes(table'))) = keyCount - 1
      <4> DEFINE S == KeysOf(Nodes(table))
      <4>1. IsFiniteSet(S) /\ key \in S /\ Cardinality(S) = keyCount
        BY <1>1, <2>6 DEF TableSound
      <4> HIDE DEF S
      <4>2. IsFiniteSet(S \ {key}) /\ Cardinality(S \ {key}) = keyCount - 1
        BY <4>1, FS_RemoveElement
      <4> QED BY <2>5, <4>2 DEF S
    <3> QED BY <1>0, <1>1, <1>4, <2>4, <2>5, <3>1 DEF TableSound, Removed
  <2>8. inUse' = Cardinality(UsedIn(table'))
    <3>1. UsedIn(table') = IF Len(table[b]) = 1 THEN UsedIn(table) \ {b} ELSE UsedIn(table)
      BY <2>4 DEF Removed
    <3>2. IsFiniteSet(UsedIn(table)) /\ b \in UsedIn(table)
      <4>1. table[b] # <<>> /\ DOMAIN table = 0..(size - 1)
        BY <2>1, <2>2 DEF Tables
      <4>2. b \in UsedIn(table)
        BY <2>1, <4>1 DEF UsedIn
      <4>3. IsFiniteSet(UsedIn(table))
        BY <2>1, UsedFinite
      <4> QED BY <4>2, <4>3
    <3>3. Unused(Chain(key), i) <=> Len(table[b]) = 1
      <4>1. Len(table[b]) = 1 => i = 1
        BY <2>2, <2>q
      <4> QED BY <2>1, <4>1 DEF Unused
    <3> QED BY <1>1, <1>4, <3>1, <3>2, <3>3, FS_RemoveElement
  <2>9. Held' = Minus(Held, key)
    <3> DEFINE S == Nodes(table)
               x == table[b][i]
    <3>1. Unique(S) /\ x \in S /\ x.key = key /\ Nodes(table') = S \ {x}
      BY <1>2, <2>3, <2>5
    <3> HIDE DEF S, x
    <3>2. MapOf(S \ {x}) = Minus(MapOf(S), key)
      BY <3>1, MapLess
    <3> QED BY <3>1, <3>2 DEF Held, S
  <2>10. key \in DOMAIN Held /\ Held[key] = Chain(key)[i].data
    BY <1>2, <2>1, <2>3, MapAt DEF Held
  <2>11. Map!Delete(key)
    BY <1>1, <1>4, <2>9, <2>10 DEF Minus, Map!Delete, Map!Result, Result
  <2> QED BY <1>1, <2>7, <2>8, <2>11 DEF Map!Next, MapStep
<1> QED BY <1>3, <1>4 DEF Delete

LEMMA ResetKeeps ==
  ASSUME Sound, Reset
  PROVE  Sound' /\ MapStep
<1>0. Idle /\ UNCHANGED <<size, growAt, old, split, call>> /\ Result("reset", "ok", NoData)
  BY DEF Reset
<1>1. /\ TableSound /\ Contents = Held /\ inUse = Cardinality(UsedIn(table))
      /\ Contents' = Held'
      /\ TableSound' /\ inUse' = Cardinality(UsedIn(table')) => Sound'
  BY <1>0, NothingLeft, CallKeeps DEF Sound, CountsAgree
<1>2. CASE keyCount < 1
  <2>1. table' = table /\ keyCount' = keyCount /\ inUse' = inUse
    BY <1>2 DEF Reset
  <2>2. TableSound' /\ inUse' = Cardinality(UsedIn(table')) /\ Held' = Held
    BY <1>0, <1>1, <2>1 DEF TableSound, Held
  <2>3. KeysOf(Nodes(table)) = {}
    <3>1. Cardinality(KeysOf(Nodes(table))) = 0
      BY <1>1, <1>2 DEF TableSound
    <3> QED BY <1>1, <3>1, FS_EmptySet DEF TableSound
  <2>4. Held = <<>>
    <3>1. Nodes(table) = {}
      BY <2>3 DEF KeysOf
    <3> QED BY <3>1, MapNone DEF Held
  <2>5. Map!Reset
    BY <1>0, <1>1, <2>2, <2>4 DEF Map!Reset, Map!Result, Result
  <2> QED BY <1>1, <2>2, <2>5 DEF Map!Next, MapStep
<1>3. CASE ~(keyCount < 1)
  <2>1. table' = EmptyTable(size) /\ keyCount' = 0 /\ inUse' = 0
    BY <1>3 DEF Reset, Cleared
  <2>2. size \in Nat /\ size' = size
    BY <1>0, <1>1 DEF TableSound
  <2>3. /\ table' \in Tables(size) /\ Nodes(table') = {} /\ UsedIn(table') = {}
        /\ Once(table') /\ Placed(table', size)
    BY <2>1, <2>2, EmptyHolds
  <2>4. TableSound' /\ inUse' = Cardinality(UsedIn(table'))
    BY <2>1, <2>2, <2>3, MapNone, FS_EmptySet DEF TableSound
  <2>5. Held' = <<>>
    BY <2>3, MapNone DEF Held
  <2>6. Map!Reset
    BY <1>0, <1>1, <2>5 DEF Map!Reset, Map!Result, Result
  <2> QED BY <1>1, <2>4, <2>6 DEF Map!Next, MapStep
<1> QED BY <1>2, <1>3

(* Making room begins: everything there is becomes the old table. *)
LEMMA BeginKeeps ==
  ASSUME Sound, Idle, NEW expected, NEW op \in {"insert", "upsert"},
         NEW key \in Keys, NEW data \in Data,
         BeginSplit(expected, [op |-> op, key |-> key, data |-> data])
  PROVE  Sound' /\ MapStep
<1> DEFINE c == [op |-> op, key |-> key, data |-> data]
<1>1. PICK count \in Nat \ {0} :
             /\ old' = table /\ table' = EmptyTable(count) /\ size' = count
             /\ split' = [NotSplitting EXCEPT !.count = size] /\ call' = c
  BY DEF BeginSplit
<1>2. UNCHANGED <<keyCount, inUse, growAt, res>>
  BY DEF BeginSplit
<1>3. TableSound /\ Contents = Held /\ All = Nodes(table)
  BY NothingLeft
<1>4. /\ table' \in Tables(count) /\ Nodes(table') = {} /\ UsedIn(table') = {}
      /\ Once(table') /\ Placed(table', count)
  BY <1>1, EmptyHolds
<1>5. All' = All /\ Present' = Present /\ Contents' = Contents
  BY <1>1, <1>3, <1>4 DEF All, Present, Contents
<1>6. split' = [bucket |-> 0, count |-> size, inUse |-> 0]
  BY <1>1 DEF NotSplitting
<1>7. call' # NoCall
  BY <1>1 DEF NoCall
<1>8. TypeOK'
  BY <1>1, <1>2, <1>3, <1>4, <1>6, <1>7 DEF Sound, TypeOK, TableSound, Tables, Idle
<1>9. NodesPlaced' /\ KeysOnce'
  <2>1. KeysOf(Nodes(table')) = {}
    BY <1>4 DEF KeysOf
  <2> QED BY <1>1, <1>3, <1>4, <2>1 DEF TableSound, NodesPlaced, KeysOnce
<1>10. CountsAgree' /\ IsFiniteSet(Present')
  BY <1>2, <1>4, <1>5, <1>6, <1>7, FS_EmptySet DEF Sound, CountsAgree, Idle
<1>11. (\A b \in DOMAIN old : b < split.bucket => old[b] = <<>>)'
  <2>1. \A b \in 0..(size - 1) : ~(b < 0)
    BY <1>3 DEF TableSound
  <2>2. DOMAIN table = 0..(size - 1)
    BY <1>3 DEF TableSound, Tables
  <2> QED BY <1>1, <1>6, <2>1, <2>2
<1>12. (size = 0 => growAt = 0)'
  BY <1>1
<1> QED BY <1>2, <1>5, <1>8, <1>9, <1>10, <1>11, <1>12 DEF Sound, MapStep

LEMMA InsertKeeps ==
  ASSUME Sound, NEW op \in {"insert", "upsert"}, NEW key \in Keys, NEW data \in Data,
         Insert(op, key, data)
  PROVE  Sound' /\ MapStep
<1>0. Idle
  BY DEF Insert
<1>1. TableSound /\ Contents = Held /\ inUse = Cardinality(UsedIn(table))
  BY <1>0, NothingLeft DEF Sound, CountsAgree
<1>2. CASE IsFull /\ BeginSplit(IF size = 0 THEN Minimum ELSE 1,
                                [op |-> op, key |-> key, data |-> data])
  BY <1>0, <1>2, BeginKeeps
<1>3. CASE /\ Result(op, "no memory", NoData)
           /\ UNCHANGED <<table, size, keyCount, inUse, growAt, old, split, call>>
  <2>1. TableSound' /\ inUse' = Cardinality(UsedIn(table')) /\ Held' = Held
    BY <1>1, <1>3 DEF TableSound, Held
  <2>2. Sound' /\ Contents' = Contents
    BY <1>0, <1>1, <1>3, <2>1, CallKeeps
  <2>3. Map!Fail
    BY <1>3, <2>2 DEF Map!Fail, Map!Result, Result
  <2> QED BY <2>2, <2>3 DEF Map!Next, MapStep
<1>4. CASE /\ ~IsFull /\ Enter(op, key, data, inUse)
           /\ UNCHANGED <<size, growAt, old, split, call>>
  <2>1. size # 0
    <3>1. keyCount \in Nat /\ (size = 0 => growAt = 0)
      BY <1>1 DEF TableSound, Sound
    <3> QED BY <1>4, <3>1 DEF IsFull
  <2>2. Contents' = Held' /\ (TableSound' /\ inUse' = Cardinality(UsedIn(table')) => Sound')
    BY <1>0, <1>4, CallKeeps
  <2>3. size' = size /\ Enter(op, key, data, inUse)
    BY <1>4
  <2>4. TableSound' /\ inUse' = Cardinality(UsedIn(table')) /\ Map!Next
    BY <1>1, <2>1, <2>2, <2>3, EnterKeeps
  <2> QED BY <2>2, <2>4 DEF MapStep
<1> QED BY <1>2, <1>3, <1>4 DEF Insert

LEMMA FinishKeeps ==
  ASSUME Sound, FinishSplit
  PROVE  Sound' /\ MapStep
<1>1. /\ ~Idle /\ split.bucket >= split.count
      /\ growAt' = Multiplier * size
      /\ Enter(call.op, call.key, call.data, split.inUse)
      /\ old' = <<>> /\ split' = NotSplitting /\ call' = NoCall /\ size' = size
  BY DEF FinishSplit
<1>2. TableSound /\ Contents = Held /\ split.inUse = Cardinality(UsedIn(table))
  BY <1>1, NothingLeft DEF Sound, CountsAgree
<1>3. call.op \in {"insert", "upsert"} /\ call.key \in Keys /\ call.data \in Data /\ size # 0
  BY <1>1 DEF Sound, TypeOK, Idle
<1>4. All' = Nodes(table') /\ Present' = KeysOf(Nodes(table')) /\ Contents' = Held'
  BY <1>1, NoChains DEF All, Present, Contents, Held
<1>5. size' = size /\ Enter(call.op, call.key, call.data, split.inUse)
  BY <1>1
<1>6. TableSound' /\ inUse' = Cardinality(UsedIn(table')) /\ Map!Next
  BY <1>2, <1>3, <1>4, <1>5, EnterKeeps
<1>7. inUse' \in Nat
  <2>1. IsFiniteSet(UsedIn(table'))
    BY <1>6, UsedFinite DEF TableSound
  <2> QED BY <1>6, <2>1, FS_CardinalityType
<1>8. growAt' \in Nat
  <2>1. Multiplier \in Nat /\ size \in Nat
    BY <1>2, IndexAssumption DEF TableSound
  <2> QED BY <1>1, <2>1
<1>9. TypeOK'
  BY <1>1, <1>6, <1>7, <1>8, NoChains DEF TypeOK, TableSound, Tables, NotSplitting, Idle
<1>10. NodesPlaced' /\ KeysOnce'
  <2>1. KeysOf(Nodes(old')) = {} /\ Once(old')
    BY <1>1, NoChains DEF KeysOf
  <2> QED BY <1>6, <2>1 DEF TableSound, NodesPlaced, KeysOnce
<1>11. CountsAgree' /\ IsFiniteSet(Present')
  BY <1>1, <1>4, <1>6 DEF TableSound, CountsAgree, Idle
<1>12. (\A b \in DOMAIN old : b < split.bucket => old[b] = <<>>)'
  BY <1>1
<1>13. (size = 0 => growAt = 0)'
  BY <1>1, <1>3
<1> QED BY <1>6, <1>9, <1>10, <1>11, <1>12, <1>13 DEF Sound, MapStep

LEMMA NextOldKeeps ==
  ASSUME Sound, NextOldBucket
  PROVE  Sound' /\ MapStep
<1>1. /\ ~Idle /\ split.bucket < split.count /\ old[split.bucket] = <<>>
      /\ split' = [split EXCEPT !.bucket = split.bucket + 1]
      /\ UNCHANGED <<table, size, keyCount, inUse, growAt, old, call, res>>
  BY DEF NextOldBucket, NextBucket
<1>2. /\ split.bucket \in Nat /\ split.count \in Nat
      /\ split \in [bucket : Nat, count : Nat, inUse : Nat]
      /\ old \in Tables(split.count)
  BY DEF Sound, TypeOK, Tables
<1>3. /\ split'.bucket = split.bucket + 1 /\ split'.count = split.count
      /\ split'.inUse = split.inUse /\ split' \in [bucket : Nat, count : Nat, inUse : Nat]
  BY <1>1, <1>2
<1>4. ~Idle'
  BY <1>1 DEF Idle
<1>5. All' = All /\ Present' = Present /\ Contents' = Contents
  BY <1>1 DEF All, Present, Contents
<1>6. TypeOK' /\ NodesPlaced' /\ KeysOnce' /\ CountsAgree'
  BY <1>1, <1>3, <1>4, <1>5
     DEF Sound, TypeOK, NodesPlaced, KeysOnce, CountsAgree, Idle
<1>7. (\A b \in DOMAIN old : b < split.bucket => old[b] = <<>>)'
  <2>1. \A b \in 0..(split.count - 1) :
          b < split.bucket + 1 => b < split.bucket \/ b = split.bucket
    BY <1>2
  <2>2. DOMAIN old = 0..(split.count - 1)
    BY <1>2 DEF Tables
  <2>3. \A b \in 0..(split.count - 1) : b < split.bucket => old[b] = <<>>
    BY <2>2 DEF Sound
  <2> QED BY <1>1, <1>3, <2>1, <2>2, <2>3
<1> QED BY <1>1, <1>5, <1>6, <1>7 DEF Sound, MapStep

(* A moved node leaves one table as it enters the other. *)
LEMMA MoveKeeps ==
  ASSUME Sound, MoveNode
  PROVE  Sound' /\ MapStep
<1> DEFINE o == split.bucket
           q == old[o]
           e == Head(q)
           b == Bucket(e.key, size)
<1>1. /\ ~Idle /\ o < split.count /\ q # <<>>
      /\ UNCHANGED <<size, keyCount, inUse, growAt, call, res>>
      /\ split' = [split EXCEPT !.inUse = IF table[b] = <<>> THEN @ + 1 ELSE @]
  BY DEF MoveNode, NewBucket
<1>2. table' = [table EXCEPT ![b] = Push(e, @)]
  BY DEF MoveNode, NewBucket
<1>3. old' = [old EXCEPT ![o] = Tail(@)]
  BY DEF MoveNode
<1>4. /\ size \in Nat \ {0} /\ table \in Tables(size) /\ old \in Tables(split.count)
      /\ split \in [bucket : Nat, count : Nat, inUse : Nat]
      /\ o \in 0..(split.count - 1)
  BY <1>1 DEF Sound, TypeOK, Tables
<1>5. /\ Placed(table, size) /\ Once(table) /\ Once(old)
      /\ KeysOf(Nodes(table)) \cap KeysOf(Nodes(old)) = {}
      /\ split.inUse = Cardinality(UsedIn(table))
  BY <1>1 DEF Sound, NodesPlaced, KeysOnce, CountsAgree
<1>6. /\ q \in Seq(Entry) /\ 1 \in 1..Len(q) /\ e = q[1] /\ e \in Entry
      /\ Tail(q) = Without(q, 1)
  <2>1. q \in Seq(Entry)
    BY <1>4 DEF Tables
  <2> HIDE DEF q
  <2> QED BY <1>1, <2>1, TailChain
<1>7. b \in 0..(size - 1)
  <2>1. e.key \in Keys
    BY <1>6 DEF Entry
  <2> QED BY <1>4, <2>1, BucketIn
<1>8. e \in Nodes(old) /\ e.key \in KeysOf(Nodes(old)) /\ e.key \notin KeysOf(Nodes(table))
  <2>1. e \in Nodes(old)
    BY <1>4, <1>6, NodesAt
  <2> QED BY <1>5, <2>1 DEF KeysOf
<1>9. b = Bucket(e.key, size)
  OBVIOUS
<1>10. old' = [old EXCEPT ![o] = Without(@, 1)]
  BY <1>3, <1>6
<1>11. old[o] = q
  OBVIOUS
<1>12. o = split.bucket
  OBVIOUS
<1> HIDE DEF o, q, e, b
<1>13. Pushed(size, table, table', b, e)
  BY <1>2, <1>4, <1>6, <1>7, PushPlaces
<1>14. Removed(split.count, old, old', o, 1)
  <2>1. 1 \in 1..Len(old[o]) /\ split.count \in Nat
    BY <1>4, <1>6, <1>11
  <2> QED BY <1>4, <1>10, <2>1, RemovePlaces
<1>15. Nodes(table') = Nodes(table) \cup {e}
  BY <1>4, <1>6, <1>7, <1>13, PushNodes
<1>16. Placed(table', size) /\ Once(table')
  BY <1>4, <1>5, <1>6, <1>7, <1>8, <1>9, <1>13, PushKeeps
<1>17. /\ Nodes(old') = Nodes(old) \ {e}
       /\ KeysOf(Nodes(old')) = KeysOf(Nodes(old)) \ {e.key}
       /\ Once(old')
  <2>1. 1 \in 1..Len(old[o]) /\ split.count \in Nat /\ old[o][1] = e
    BY <1>4, <1>6, <1>11
  <2> DEFINE n == split.count
             m == 1
  <2>2. /\ n \in Nat /\ old \in Tables(n) /\ o \in 0..(n - 1) /\ Once(old)
        /\ m \in 1..Len(old[o]) /\ Removed(n, old, old', o, m)
    BY <1>4, <1>5, <1>14, <2>1
  <2>e. old[o][m] = e
    BY <2>1
  <2> HIDE DEF n, m
  <2>3. /\ Nodes(old') = Nodes(old) \ {old[o][m]}
        /\ KeysOf(Nodes(old')) = KeysOf(Nodes(old)) \ {old[o][m].key}
        /\ Once(old')
        /\ \A k0 : Placed(old, k0) => Placed(old', k0)
    BY <2>2, RemoveKeeps
  <2> QED BY <2>e, <2>3
<1>18. KeysOf(Nodes(table')) = KeysOf(Nodes(table)) \cup {e.key}
  BY <1>15 DEF KeysOf
<1>19. All' = All /\ Present' = Present /\ Contents' = Contents
  BY <1>8, <1>15, <1>17 DEF All, Present, Contents
<1>20. split'.inUse = Cardinality(UsedIn(table')) /\ split'.inUse \in Nat
  <2>1. UsedIn(table') = UsedIn(table) \cup {b}
    BY <1>13 DEF Pushed
  <2>2. IsFiniteSet(UsedIn(table))
    BY <1>4, UsedFinite
  <2>3. b \in UsedIn(table) <=> table[b] # <<>>
    BY <1>4, <1>7 DEF UsedIn, Tables
  <2>4. split'.inUse = IF table[b] = <<>> THEN split.inUse + 1 ELSE split.inUse
    BY <1>1, <1>4
  <2>5. split.inUse \in Nat
    BY <1>4
  <2>6. Cardinality(UsedIn(table) \cup {b}) =
          IF b \in UsedIn(table) THEN Cardinality(UsedIn(table)) ELSE Cardinality(UsedIn(table)) + 1
    BY <2>2, FS_AddElement
  <2> QED BY <1>5, <2>1, <2>3, <2>4, <2>5, <2>6
<1>21. split'.bucket = o /\ split'.count = split.count
       /\ split' \in [bucket : Nat, count : Nat, inUse : Nat]
  BY <1>1, <1>4, <1>12
<1>22. ~Idle'
  BY <1>1 DEF Idle
<1>23. TypeOK'
  <2>1. table' \in Tables(size) /\ old' \in Tables(split.count)
    BY <1>13, <1>14 DEF Pushed, Removed
  <2> QED BY <1>1, <1>21, <1>22, <2>1 DEF Sound, TypeOK, Tables, Idle
<1>24. NodesPlaced' /\ KeysOnce'
  BY <1>1, <1>5, <1>8, <1>16, <1>17, <1>18 DEF NodesPlaced, KeysOnce
<1>25. CountsAgree' /\ IsFiniteSet(Present')
  BY <1>1, <1>19, <1>20, <1>22 DEF Sound, CountsAgree
<1>26. (\A c \in DOMAIN old : c < split.bucket => old[c] = <<>>)'
  <2>1. DOMAIN old' = DOMAIN old /\ \A c \in DOMAIN old : c # o => old'[c] = old[c]
    BY <1>3
  <2>2. \A c \in DOMAIN old : c < o => c # o /\ old[c] = <<>>
    BY <1>4, <1>12 DEF Sound, Tables
  <2> QED BY <1>21, <2>1, <2>2
<1>27. (size = 0 => growAt = 0)'
  BY <1>1, <1>4
<1> QED BY <1>1, <1>19, <1>23, <1>24, <1>25, <1>26, <1>27 DEF Sound, MapStep

-----------------------------------------------------------------------------
(* The theorems. *)

LEMMA InitSound == Init => Sound /\ Map!Init
<1> SUFFICES ASSUME Init PROVE Sound /\ Map!Init
  OBVIOUS
<1>1. /\ keyCount = 0 /\ inUse = 0 /\ old = <<>>
      /\ split = NotSplitting /\ call = NoCall /\ res = [op |-> "none"]
  BY DEF Init
<1>2. /\ size \in Nat /\ growAt \in Nat /\ (size = 0 => growAt = 0)
      /\ table = EmptyTable(size)
  <2>1. CASE size = 0 /\ table = <<>> /\ growAt = 0
    <3>1. EmptyTable(0) = <<>>
      BY DEF EmptyTable
    <3> QED BY <2>1, <3>1
  <2>2. CASE size \in Nat \ {0} /\ table = EmptyTable(size) /\ growAt = Multiplier * size
    <3>1. Multiplier \in Nat
      BY IndexAssumption
    <3> QED BY <2>2, <3>1
  <2> QED BY <2>1, <2>2 DEF Init
<1>3. /\ table \in Tables(size) /\ Nodes(table) = {} /\ UsedIn(table) = {}
      /\ Once(table) /\ Placed(table, size)
  BY <1>2, EmptyHolds
<1>4. All = {} /\ Present = {} /\ Contents = <<>>
  BY <1>1, <1>3, NoChains, MapNone DEF All, Present, Contents
<1>5. TypeOK
  BY <1>1, <1>2, <1>3, NoChains DEF TypeOK, Tables, NotSplitting, Idle
<1>6. NodesPlaced /\ KeysOnce /\ CountsAgree /\ IsFiniteSet(Present)
  BY <1>1, <1>3, <1>4, NoChains, MapNone, FS_EmptySet DEF NodesPlaced, KeysOnce, CountsAgree, Idle
<1> QED BY <1>1, <1>2, <1>4, <1>5, <1>6 DEF Sound, Map!Init

LEMMA StepSound == Sound /\ [Next]_vars => Sound' /\ MapStep
<1> SUFFICES ASSUME Sound, [Next]_vars PROVE Sound' /\ MapStep
  OBVIOUS
<1>1. CASE UNCHANGED vars
  <2>1. /\ UNCHANGED <<table, size, keyCount, inUse, growAt, old, split, call, res>>
        /\ Contents' = Contents /\ Present' = Present /\ Idle' = Idle
    BY <1>1 DEF vars, Contents, Present, All, Idle
  <2> QED BY <2>1 DEF Sound, TypeOK, NodesPlaced, KeysOnce, CountsAgree, MapStep
<1>2. ASSUME NEW op \in {"insert", "upsert"}, NEW key \in Keys, NEW data \in Data,
             Insert(op, key, data)
      PROVE  Sound' /\ MapStep
  BY <1>2, InsertKeeps
<1>3. CASE MoveNode
  BY <1>3, MoveKeeps
<1>4. CASE NextOldBucket
  BY <1>4, NextOldKeeps
<1>5. CASE FinishSplit
  BY <1>5, FinishKeeps
<1>6. ASSUME NEW key \in Keys, Find(key) PROVE Sound' /\ MapStep
  BY <1>6, FindKeeps
<1>7. ASSUME NEW key \in Keys, Delete(key) PROVE Sound' /\ MapStep
  BY <1>7, DeleteKeeps
<1>8. CASE Reset
  BY <1>8, ResetKeeps
<1> QED BY <1>1, <1>2, <1>3, <1>4, <1>5, <1>6, <1>7, <1>8 DEF Next

LEMMA AlwaysSound == Spec => []Sound
<1>1. Init => Sound
  BY InitSound
<1>2. Sound /\ [Next]_vars => Sound'
  BY StepSound
<1> QED BY <1>1, <1>2, PTL DEF Spec

(* Tables and counts keep their types through growth: nothing is written    *)
(* outside the table that _ion_index_make_room or _ion_index_reset left.    *)
THEOREM TypeCorrect == Spec => []TypeOK
<1>1. Sound => TypeOK
  BY DEF Sound
<1> QED BY <1>1, AlwaysSound, PTL

(* Every node is in the bucket its hash names under the present size, at    *)
(* every step of the loop of _ion_index_make_room, too.                     *)
THEOREM PlacedCorrect == Spec => []NodesPlaced
<1>1. Sound => NodesPlaced
  BY DEF Sound
<1> QED BY <1>1, AlwaysSound, PTL

(* No sequence of insertions, growths and deletions gives a key two nodes.  *)
THEOREM KeysOnceCorrect == Spec => []KeysOnce
<1>1. Sound => KeysOnce
  BY DEF Sound
<1> QED BY <1>1, AlwaysSound, PTL

(* _key_count and _bucket_in_use_count are never off, whatever fails.       *)
THEOREM CountsCorrect == Spec => []CountsAgree
<1>1. Sound => CountsAgree
  BY DEF Sound
<1> QED BY <1>1, AlwaysSound, PTL

(* The hash table is a map: each call does to the pairs and returns what    *)
(* IonMap says, and the steps that move nodes are invisible.                *)
THEOREM IndexIsMap == Spec => ImplementsMap
<1>1. Init => Map!Init
  BY InitSound
<1>2. Sound /\ [Next]_vars => [Map!Next]_<<Contents, res>>
  BY StepSound DEF MapStep
<1> QED BY <1>1, <1>2, AlwaysSound, PTL DEF Spec, ImplementsMap, Map!Spec
=============================================================================
