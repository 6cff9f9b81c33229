------------------------ MODULE IonCollectionProofs ------------------------
(***************************************************************************)
(* Theorems about IonCollection for every set of collections, nodes and    *)
(* values.                                                                 *)
(***************************************************************************)
EXTENDS IonCollection, TLAPS

-----------------------------------------------------------------------------
(* The sequence operators of IonCollection. *)

(* First and Final are null exactly for the empty sequence. *)
LEMMA EndsOfSeq ==
  ASSUME NEW s \in Seq(Nodes)
  PROVE  /\ Len(s) \in Nat
         /\ s = <<>> <=> Len(s) = 0
         /\ First(s) = IF Len(s) = 0 THEN NULL ELSE s[1]
         /\ Final(s) = IF Len(s) = 0 THEN NULL ELSE s[Len(s)]
         /\ First(s) \in NodeOrNull /\ Final(s) \in NodeOrNull
         /\ First(s) = NULL <=> Len(s) = 0
         /\ Final(s) = NULL <=> Len(s) = 0
<1>1. s = <<>> <=> Len(s) = 0
  OBVIOUS
<1>2. Len(s) # 0 => s[1] \in Nodes /\ s[Len(s)] \in Nodes
  OBVIOUS
<1> QED BY <1>1, <1>2, NullAssumption DEF First, Final, NodeOrNull

(* Prepend adds one element at the front and shifts the others. *)
LEMMA PrependFacts ==
  ASSUME NEW S, NEW s \in Seq(S), NEW n \in S
  PROVE  /\ Prepend(n, s) \in Seq(S)
         /\ Len(Prepend(n, s)) = Len(s) + 1
         /\ \A i \in 1..(Len(s) + 1) :
              Prepend(n, s)[i] = IF i = 1 THEN n ELSE s[i - 1]
<1>1. \A i \in 1..(Len(s) + 1) : i # 1 => i - 1 \in 1..Len(s)
  OBVIOUS
<1>2. Len(s) \in Nat
  OBVIOUS
<1> QED BY <1>1, <1>2 DEF Prepend

(* The elements of a Prepend are those of the sequence and the new one.     *)
LEMMA PrependItems ==
  ASSUME NEW s \in Seq(Nodes), NEW n \in Nodes
  PROVE  /\ Items(Prepend(n, s)) = Items(s) \cup {n}
         /\ Distinct(s) /\ n \notin Items(s) => Distinct(Prepend(n, s))
<1> DEFINE p == Prepend(n, s)
<1>0. Len(s) \in Nat
  OBVIOUS
<1>1. /\ Len(s) \in Nat /\ Len(p) = Len(s) + 1
      /\ \A i \in 1..(Len(s) + 1) : p[i] = IF i = 1 THEN n ELSE s[i - 1]
  BY <1>0, PrependFacts
<1> HIDE DEF p
<1>2. \A i \in 1..Len(s) : i + 1 \in 1..Len(p) /\ p[i + 1] = s[i]
  BY <1>1
<1>3. \A i \in 1..Len(p) : (i = 1 /\ p[i] = n) \/ (i - 1 \in 1..Len(s) /\ p[i] = s[i - 1])
  BY <1>1
<1>4. 1 \in 1..Len(p) /\ p[1] = n
  BY <1>1
<1>5. Items(p) = Items(s) \cup {n}
  BY <1>2, <1>3, <1>4 DEF Items
<1>6. ASSUME Distinct(s), n \notin Items(s)
      PROVE  Distinct(p)
  <2> SUFFICES ASSUME NEW i \in 1..Len(p), NEW j \in 1..Len(p), p[i] = p[j]
               PROVE  i = j
    BY DEF Distinct
  <2>1. \A k \in 1..Len(s) : s[k] # n
    BY <1>6 DEF Items
  <2> QED BY <1>1, <1>3, <1>6, <2>1 DEF Distinct
<1> QED BY <1>5, <1>6 DEF p

(* Linking a new node before the first keeps the chain. *)
LEMMA PrependChain ==
  ASSUME NEW s \in Seq(Nodes), NEW n \in Nodes, NEW nx, NEW ny,
         Chain(nx, s), ny[n] = First(s),
         \A i \in 1..Len(s) : ny[s[i]] = nx[s[i]]
  PROVE  Chain(ny, Prepend(n, s))
<1> DEFINE p == Prepend(n, s)
<1>0. Len(s) \in Nat
  OBVIOUS
<1>1. /\ Len(s) \in Nat /\ Len(p) = Len(s) + 1
      /\ \A i \in 1..(Len(s) + 1) : p[i] = IF i = 1 THEN n ELSE s[i - 1]
  BY <1>0, PrependFacts
<1>2. First(s) = IF Len(s) = 0 THEN NULL ELSE s[1]
  BY EndsOfSeq
<1> HIDE DEF p
<1> SUFFICES ASSUME NEW i \in 1..Len(p)
             PROVE  ny[p[i]] = IF i = Len(p) THEN NULL ELSE p[i + 1]
  BY DEF Chain, p
<1>3. CASE i = 1
  BY <1>1, <1>2, <1>3
<1>4. CASE i # 1
  <2>1. i - 1 \in 1..Len(s) /\ p[i] = s[i - 1] /\ (i # Len(p) => p[i + 1] = s[i])
    BY <1>1, <1>4
  <2>2. ny[s[i - 1]] = IF i - 1 = Len(s) THEN NULL ELSE s[i]
    BY <2>1 DEF Chain
  <2> QED BY <1>1, <2>1, <2>2
<1> QED BY <1>3, <1>4

(* And the links back, when the old first node points at the new one. *)
LEMMA PrependBackChain ==
  ASSUME NEW s \in Seq(Nodes), NEW n \in Nodes, NEW pv, NEW pw,
         BackChain(pv, s), pw[n] = NULL,
         \A i \in 1..Len(s) : pw[s[i]] = IF i = 1 THEN n ELSE pv[s[i]]
  PROVE  BackChain(pw, Prepend(n, s))
<1> DEFINE p == Prepend(n, s)
<1>0. Len(s) \in Nat
  OBVIOUS
<1>1. /\ Len(s) \in Nat /\ Len(p) = Len(s) + 1
      /\ \A i \in 1..(Len(s) + 1) : p[i] = IF i = 1 THEN n ELSE s[i - 1]
  BY <1>0, PrependFacts
<1> HIDE DEF p
<1> SUFFICES ASSUME NEW i \in 1..Len(p)
             PROVE  pw[p[i]] = IF i = 1 THEN NULL ELSE p[i - 1]
  BY DEF BackChain, p
<1>2. CASE i = 1
  BY <1>1, <1>2
<1>3. CASE i = 2
  BY <1>1, <1>3
<1>4. CASE i # 1 /\ i # 2
  <2>1. i - 1 \in 1..Len(s) /\ p[i] = s[i - 1] /\ p[i - 1] = s[i - 2]
    BY <1>1, <1>4
  <2>2. pw[s[i - 1]] = s[i - 2]
    BY <2>1, <1>4, <1>1 DEF BackChain
  <2> QED BY <1>4, <2>1, <2>2
<1> QED BY <1>2, <1>3, <1>4

(* Extend adds one element at the end. *)
LEMMA ExtendFacts ==
  ASSUME NEW S, NEW s \in Seq(S), NEW n \in S
  PROVE  /\ Extend(s, n) \in Seq(S)
         /\ Len(Extend(s, n)) = Len(s) + 1
         /\ \A i \in 1..(Len(s) + 1) :
              Extend(s, n)[i] = IF i = Len(s) + 1 THEN n ELSE s[i]
<1>1. Len(s) \in Nat
  OBVIOUS
<1>2. \A i \in 1..(Len(s) + 1) : i # Len(s) + 1 => i \in 1..Len(s)
  BY <1>1
<1> QED BY <1>1, <1>2 DEF Extend

(* The elements of an Extend are those of the sequence and the new one. *)
LEMMA ExtendItems ==
  ASSUME NEW s \in Seq(Nodes), NEW n \in Nodes
  PROVE  /\ Items(Extend(s, n)) = Items(s) \cup {n}
         /\ Distinct(s) /\ n \notin Items(s) => Distinct(Extend(s, n))
<1> DEFINE p == Extend(s, n)
<1>0. Len(s) \in Nat
  OBVIOUS
<1>1. /\ Len(s) \in Nat /\ Len(p) = Len(s) + 1
      /\ \A i \in 1..(Len(s) + 1) : p[i] = IF i = Len(s) + 1 THEN n ELSE s[i]
  BY <1>0, ExtendFacts
<1> HIDE DEF p
<1>2. \A i \in 1..Len(s) : i \in 1..Len(p) /\ p[i] = s[i]
  BY <1>1
<1>3. \A i \in 1..Len(p) : (i = Len(s) + 1 /\ p[i] = n) \/ (i \in 1..Len(s) /\ p[i] = s[i])
  BY <1>1
<1>4. Len(s) + 1 \in 1..Len(p) /\ p[Len(s) + 1] = n
  BY <1>1
<1>5. Items(p) = Items(s) \cup {n}
  BY <1>2, <1>3, <1>4 DEF Items
<1>6. ASSUME Distinct(s), n \notin Items(s)
      PROVE  Distinct(p)
  <2> SUFFICES ASSUME NEW i \in 1..Len(p), NEW j \in 1..Len(p), p[i] = p[j]
               PROVE  i = j
    BY DEF Distinct
  <2>1. \A k \in 1..Len(s) : s[k] # n
    BY <1>6 DEF Items
  <2> QED BY <1>1, <1>3, <1>6, <2>1 DEF Distinct
<1> QED BY <1>5, <1>6 DEF p

(* Linking a new node after the last keeps the chain. *)
LEMMA ExtendChain ==
  ASSUME NEW s \in Seq(Nodes), NEW n \in Nodes, NEW nx, NEW ny,
         Chain(nx, s), ny[n] = NULL,
         \A i \in 1..Len(s) : ny[s[i]] = IF i = Len(s) THEN n ELSE nx[s[i]]
  PROVE  Chain(ny, Extend(s, n))
<1> DEFINE p == Extend(s, n)
<1>0. Len(s) \in Nat
  OBVIOUS
<1>1. /\ Len(s) \in Nat /\ Len(p) = Len(s) + 1
      /\ \A i \in 1..(Len(s) + 1) : p[i] = IF i = Len(s) + 1 THEN n ELSE s[i]
  BY <1>0, ExtendFacts
<1> HIDE DEF p
<1> SUFFICES ASSUME NEW i \in 1..Len(p)
             PROVE  ny[p[i]] = IF i = Len(p) THEN NULL ELSE p[i + 1]
  BY DEF Chain, p
<1>2. CASE i = Len(s) + 1
  BY <1>1, <1>2
<1>3. CASE i = Len(s)
  BY <1>1, <1>3
<1>4. CASE i # Len(s) + 1 /\ i # Len(s)
  <2>1. i \in 1..Len(s) /\ p[i] = s[i] /\ p[i + 1] = s[i + 1]
    BY <1>1, <1>4
  <2>2. ny[s[i]] = s[i + 1]
    BY <2>1, <1>4 DEF Chain
  <2> QED BY <1>1, <1>4, <2>1, <2>2
<1> QED BY <1>2, <1>3, <1>4

(* And the links back, when the new node points at the old last one. *)
LEMMA ExtendBackChain ==
  ASSUME NEW s \in Seq(Nodes), NEW n \in Nodes, NEW pv, NEW pw,
         BackChain(pv, s), pw[n] = Final(s),
         \A i \in 1..Len(s) : pw[s[i]] = pv[s[i]]
  PROVE  BackChain(pw, Extend(s, n))
<1> DEFINE p == Extend(s, n)
<1>0. Len(s) \in Nat
  OBVIOUS
<1>1. /\ Len(s) \in Nat /\ Len(p) = Len(s) + 1
      /\ \A i \in 1..(Len(s) + 1) : p[i] = IF i = Len(s) + 1 THEN n ELSE s[i]
  BY <1>0, ExtendFacts
<1>2. Final(s) = IF Len(s) = 0 THEN NULL ELSE s[Len(s)]
  BY EndsOfSeq
<1> HIDE DEF p
<1> SUFFICES ASSUME NEW i \in 1..Len(p)
             PROVE  pw[p[i]] = IF i = 1 THEN NULL ELSE p[i - 1]
  BY DEF BackChain, p
<1>3. CASE i = Len(s) + 1
  BY <1>1, <1>2, <1>3
<1>4. CASE i # Len(s) + 1
  <2>1. i \in 1..Len(s) /\ p[i] = s[i] /\ (i # 1 => p[i - 1] = s[i - 1])
    BY <1>1, <1>4
  <2> QED BY <2>1 DEF BackChain
<1> QED BY <1>3, <1>4

(* Without drops the k-th element. *)
LEMMA WithoutFacts ==
  ASSUME NEW S, NEW s \in Seq(S), NEW k \in 1..Len(s)
  PROVE  /\ Without(s, k) \in Seq(S)
         /\ Len(Without(s, k)) = Len(s) - 1
         /\ \A i \in 1..(Len(s) - 1) :
              Without(s, k)[i] = IF i < k THEN s[i] ELSE s[i + 1]
<1>1. Len(s) \in Nat /\ Len(s) - 1 \in Nat
  OBVIOUS
<1>2. \A i \in 1..(Len(s) - 1) : i \in 1..Len(s) /\ i + 1 \in 1..Len(s)
  BY <1>1
<1> QED BY <1>1, <1>2 DEF Without

(* Without(s, k) holds the elements of s but for s[k]. *)
LEMMA WithoutItems ==
  ASSUME NEW s \in Seq(Nodes), NEW k \in 1..Len(s), Distinct(s)
  PROVE  /\ Items(Without(s, k)) = Items(s) \ {s[k]}
         /\ Distinct(Without(s, k))
<1> DEFINE p == Without(s, k)
<1>0. Len(s) \in Nat
  OBVIOUS
<1>1. /\ Len(p) = Len(s) - 1
      /\ \A i \in 1..(Len(s) - 1) : p[i] = IF i < k THEN s[i] ELSE s[i + 1]
  BY <1>0, WithoutFacts
<1> HIDE DEF p
<1>2. \A i \in 1..Len(p) :
        (i < k /\ i \in 1..Len(s) /\ p[i] = s[i]) \/
        (i >= k /\ i + 1 \in 1..Len(s) /\ p[i] = s[i + 1])
  BY <1>0, <1>1
<1>3. \A i \in 1..Len(s) :
        i = k \/ (i < k /\ i \in 1..Len(p) /\ p[i] = s[i])
              \/ (i > k /\ i - 1 \in 1..Len(p) /\ p[i - 1] = s[i])
  BY <1>0, <1>1
<1>4. \A i \in 1..Len(p) : p[i] # s[k]
  BY <1>0, <1>2 DEF Distinct
<1>5. Items(p) \subseteq Items(s) \ {s[k]}
  BY <1>2, <1>4 DEF Items
<1>6. Items(s) \ {s[k]} \subseteq Items(p)
  BY <1>3 DEF Items
<1>7. Distinct(p)
  <2> SUFFICES ASSUME NEW i \in 1..Len(p), NEW j \in 1..Len(p), p[i] = p[j]
               PROVE  i = j
    BY DEF Distinct
  <2> QED BY <1>0, <1>2 DEF Distinct
<1> QED BY <1>5, <1>6, <1>7 DEF p

(* Linking the neighbours of the k-th node to each other keeps the chain. *)
LEMMA WithoutChain ==
  ASSUME NEW s \in Seq(Nodes), NEW k \in 1..Len(s), NEW nx, NEW ny,
         Chain(nx, s),
         \A i \in 1..Len(s) : i # k =>
           ny[s[i]] = IF i = k - 1 THEN nx[s[k]] ELSE nx[s[i]]
  PROVE  Chain(ny, Without(s, k))
<1> DEFINE p == Without(s, k)
<1>0. Len(s) \in Nat
  OBVIOUS
<1>1. /\ Len(p) = Len(s) - 1
      /\ \A i \in 1..(Len(s) - 1) : p[i] = IF i < k THEN s[i] ELSE s[i + 1]
  BY <1>0, WithoutFacts
<1> HIDE DEF p
<1> SUFFICES ASSUME NEW i \in 1..Len(p)
             PROVE  ny[p[i]] = IF i = Len(p) THEN NULL ELSE p[i + 1]
  BY DEF Chain, p
<1>2. CASE i < k - 1
  <2>1. p[i] = s[i] /\ p[i + 1] = s[i + 1] /\ i \in 1..Len(s) /\ i + 1 \in 1..Len(s)
    BY <1>0, <1>1, <1>2
  <2>2. ny[s[i]] = s[i + 1] /\ i # Len(p)
    BY <2>1, <1>0, <1>1, <1>2 DEF Chain
  <2> QED BY <2>1, <2>2
<1>3. CASE i = k - 1
  <2>1. p[i] = s[i] /\ (i # Len(p) => p[i + 1] = s[k + 1]) /\ i \in 1..Len(s)
    BY <1>0, <1>1, <1>3
  <2>2. nx[s[k]] = IF k = Len(s) THEN NULL ELSE s[k + 1]
    BY DEF Chain
  <2>3. ny[s[i]] = nx[s[k]]
    BY <2>1, <1>3, <1>0
  <2> QED BY <2>1, <2>2, <2>3, <1>0, <1>1, <1>3
<1>4. CASE i >= k
  <2>1. p[i] = s[i + 1] /\ (i # Len(p) => p[i + 1] = s[i + 2]) /\ i + 1 \in 1..Len(s)
    BY <1>0, <1>1, <1>4
  <2>2. ny[s[i + 1]] = nx[s[i + 1]]
    BY <2>1, <1>4, <1>0
  <2>3. nx[s[i + 1]] = IF i + 1 = Len(s) THEN NULL ELSE s[i + 2]
    BY <2>1, <1>0 DEF Chain
  <2> QED BY <2>1, <2>2, <2>3, <1>0, <1>1
<1> QED BY <1>0, <1>1, <1>2, <1>3, <1>4

(* The same for the links back. *)
LEMMA WithoutBackChain ==
  ASSUME NEW s \in Seq(Nodes), NEW k \in 1..Len(s), NEW pv, NEW pw,
         BackChain(pv, s),
         \A i \in 1..Len(s) : i # k =>
           pw[s[i]] = IF i = k + 1 THEN pv[s[k]] ELSE pv[s[i]]
  PROVE  BackChain(pw, Without(s, k))
<1> DEFINE p == Without(s, k)
<1>0. Len(s) \in Nat
  OBVIOUS
<1>1. /\ Len(p) = Len(s) - 1
      /\ \A i \in 1..(Len(s) - 1) : p[i] = IF i < k THEN s[i] ELSE s[i + 1]
  BY <1>0, WithoutFacts
<1> HIDE DEF p
<1> SUFFICES ASSUME NEW i \in 1..Len(p)
             PROVE  pw[p[i]] = IF i = 1 THEN NULL ELSE p[i - 1]
  BY DEF BackChain, p
<1>2. CASE i < k
  <2>1. p[i] = s[i] /\ (i # 1 => p[i - 1] = s[i - 1]) /\ i \in 1..Len(s)
    BY <1>0, <1>1, <1>2
  <2>2. pw[s[i]] = pv[s[i]]
    BY <2>1, <1>0, <1>2
  <2> QED BY <2>1, <2>2 DEF BackChain
<1>3. CASE i = k
  <2>1. p[i] = s[k + 1] /\ (i # 1 => p[i - 1] = s[k - 1]) /\ k + 1 \in 1..Len(s)
    BY <1>0, <1>1, <1>3
  <2>2. pw[s[k + 1]] = pv[s[k]]
    BY <2>1, <1>0
  <2>3. pv[s[k]] = IF k = 1 THEN NULL ELSE s[k - 1]
    BY DEF BackChain
  <2> QED BY <2>1, <2>2, <2>3, <1>3
<1>4. CASE i > k
  <2>1. p[i] = s[i + 1] /\ p[i - 1] = s[i] /\ i + 1 \in 1..Len(s)
    BY <1>0, <1>1, <1>4
  <2>2. pw[s[i + 1]] = pv[s[i + 1]]
    BY <2>1, <1>0, <1>4
  <2>3. pv[s[i + 1]] = s[i]
    BY <2>1, <1>0 DEF BackChain
  <2> QED BY <2>1, <2>2, <2>3, <1>4, <1>0
<1> QED BY <1>0, <1>2, <1>3, <1>4

(* Rest drops the first element, if there is one: what the free list is     *)
(* after a node has been taken from it.                                     *)
LEMMA RestFacts ==
  ASSUME NEW s \in Seq(Nodes), NEW nx, Chain(nx, s), Distinct(s)
  PROVE  /\ Rest(s) \in Seq(Nodes)
         /\ Chain(nx, Rest(s))
         /\ Distinct(Rest(s))
         /\ Items(Rest(s)) = Items(s) \ {First(s)}
         /\ s # <<>> => nx[First(s)] = First(Rest(s))
<1>0. Len(s) \in Nat /\ (s = <<>> <=> Len(s) = 0)
      /\ First(s) = IF Len(s) = 0 THEN NULL ELSE s[1]
  BY EndsOfSeq
<1>1. CASE s = <<>>
  BY <1>0, <1>1, NullAssumption DEF Rest, Items
<1>2. CASE s # <<>>
  <2>1. 1 \in 1..Len(s) /\ Rest(s) = Without(s, 1) /\ First(s) = s[1]
    BY <1>0, <1>2 DEF Rest
  <2>2. Without(s, 1) \in Seq(Nodes) /\ Len(Without(s, 1)) = Len(s) - 1
        /\ \A i \in 1..(Len(s) - 1) :
             Without(s, 1)[i] = IF i < 1 THEN s[i] ELSE s[i + 1]
    BY <2>1, WithoutFacts
  <2>3. Items(Without(s, 1)) = Items(s) \ {s[1]} /\ Distinct(Without(s, 1))
    BY <2>1, WithoutItems
  <2>4. Chain(nx, Without(s, 1))
    <3>1. \A i \in 1..Len(s) : i # 1 =>
            nx[s[i]] = IF i = 1 - 1 THEN nx[s[1]] ELSE nx[s[i]]
      BY <1>0
    <3> QED BY <2>1, <3>1, WithoutChain
  <2>5. First(Without(s, 1)) = IF Len(s) - 1 = 0 THEN NULL ELSE s[2]
    BY <2>2, <1>0, EndsOfSeq
  <2>6. nx[s[1]] = IF Len(s) = 1 THEN NULL ELSE s[2]
    <3>1. nx[s[1]] = IF 1 = Len(s) THEN NULL ELSE s[1 + 1]
      BY <2>1 DEF Chain
    <3> QED BY <3>1
  <2> QED BY <2>1, <2>2, <2>3, <2>4, <2>5, <2>6, <1>0
<1> QED BY <1>1, <1>2

(* Join puts one sequence after another. *)
LEMMA JoinFacts ==
  ASSUME NEW S, NEW s \in Seq(S), NEW t \in Seq(S)
  PROVE  /\ Join(s, t) \in Seq(S)
         /\ Len(Join(s, t)) = Len(s) + Len(t)
         /\ \A i \in 1..(Len(s) + Len(t)) :
              Join(s, t)[i] = IF i <= Len(s) THEN s[i] ELSE t[i - Len(s)]
<1>1. Len(s) \in Nat /\ Len(t) \in Nat
  OBVIOUS
<1>2. \A i \in 1..(Len(s) + Len(t)) :
        IF i <= Len(s) THEN i \in 1..Len(s) ELSE i - Len(s) \in 1..Len(t)
  BY <1>1
<1> QED BY <1>1, <1>2 DEF Join

(* The elements of a Join are those of its two parts. *)
LEMMA JoinItems ==
  ASSUME NEW s \in Seq(Nodes), NEW t \in Seq(Nodes), Len(s) # 0,
         Distinct(s), Distinct(t), Items(s) \cap Items(t) = {}
  PROVE  /\ Distinct(Join(s, t))
         /\ Items(Join(s, t)) = Items(s) \cup Items(t)
         /\ First(Join(s, t)) = s[1]
<1> DEFINE p == Join(s, t)
<1>0. Len(s) \in Nat /\ Len(t) \in Nat
  OBVIOUS
<1>1. /\ Len(p) = Len(s) + Len(t)
      /\ \A i \in 1..(Len(s) + Len(t)) :
           p[i] = IF i <= Len(s) THEN s[i] ELSE t[i - Len(s)]
  BY <1>0, JoinFacts
<1>3. p \in Seq(Nodes)
  BY <1>0, JoinFacts
<1>f. First(p) = p[1]
  BY <1>3, <1>1, <1>0, EndsOfSeq
<1> HIDE DEF p
<1>4. \A i \in 1..Len(p) :
        (i \in 1..Len(s) /\ p[i] = s[i]) \/
        (i > Len(s) /\ i - Len(s) \in 1..Len(t) /\ p[i] = t[i - Len(s)])
  BY <1>0, <1>1
<1>6. Distinct(p)
  <2> SUFFICES ASSUME NEW i \in 1..Len(p), NEW j \in 1..Len(p), p[i] = p[j]
               PROVE  i = j
    BY DEF Distinct
  <2>1. \A k \in 1..Len(s), m \in 1..Len(t) : s[k] # t[m]
    BY DEF Items
  <2>2. CASE i \in 1..Len(s) /\ p[i] = s[i] /\ j \in 1..Len(s) /\ p[j] = s[j]
    BY <2>2 DEF Distinct
  <2>3. CASE /\ i > Len(s) /\ i - Len(s) \in 1..Len(t) /\ p[i] = t[i - Len(s)]
             /\ j > Len(s) /\ j - Len(s) \in 1..Len(t) /\ p[j] = t[j - Len(s)]
    <3>1. i - Len(s) = j - Len(s)
      BY <2>3 DEF Distinct
    <3>2. i \in Nat /\ j \in Nat
      BY <1>0, <1>1
    <3> QED BY <3>1, <3>2, <1>0
  <2>4. CASE i \in 1..Len(s) /\ p[i] = s[i] /\ j - Len(s) \in 1..Len(t) /\ p[j] = t[j - Len(s)]
    BY <2>1, <2>4
  <2>5. CASE j \in 1..Len(s) /\ p[j] = s[j] /\ i - Len(s) \in 1..Len(t) /\ p[i] = t[i - Len(s)]
    BY <2>1, <2>5
  <2> QED BY <1>4, <2>2, <2>3, <2>4, <2>5
<1>7. Items(p) = Items(s) \cup Items(t)
  <2>1. Items(p) \subseteq Items(s) \cup Items(t)
    BY <1>4 DEF Items
  <2>2. \A i \in 1..Len(s) : i \in 1..Len(p) /\ p[i] = s[i]
    BY <1>0, <1>1
  <2>3. \A i \in 1..Len(t) : i + Len(s) \in 1..Len(p) /\ p[i + Len(s)] = t[i]
    BY <1>0, <1>1
  <2>4. Items(s) \subseteq Items(p)
    BY <2>2 DEF Items
  <2>5. Items(t) \subseteq Items(p)
    BY <2>3 DEF Items
  <2> QED BY <2>1, <2>4, <2>5
<1>8. p[1] = s[1]
  BY <1>0, <1>1
<1> QED BY <1>6, <1>7, <1>8, <1>f DEF p

(* Linking the last node of one chain to the first of another gives one      *)
(* chain: what a reset does to the list and the free list.                  *)
LEMMA JoinChain ==
  ASSUME NEW s \in Seq(Nodes), NEW t \in Seq(Nodes), NEW nx, NEW ny,
         Len(s) # 0, Chain(nx, s), Chain(nx, t),
         \A i \in 1..Len(s) : ny[s[i]] = IF i = Len(s) THEN First(t) ELSE nx[s[i]],
         \A i \in 1..Len(t) : ny[t[i]] = nx[t[i]]
  PROVE  Chain(ny, Join(s, t))
<1> DEFINE p == Join(s, t)
<1>0. Len(s) \in Nat /\ Len(t) \in Nat
  OBVIOUS
<1>1. /\ Len(p) = Len(s) + Len(t)
      /\ \A i \in 1..(Len(s) + Len(t)) :
           p[i] = IF i <= Len(s) THEN s[i] ELSE t[i - Len(s)]
  BY <1>0, JoinFacts
<1>2. First(t) = IF Len(t) = 0 THEN NULL ELSE t[1]
  BY EndsOfSeq
<1> HIDE DEF p
<1>5. Chain(ny, p)
  <2> SUFFICES ASSUME NEW i \in 1..Len(p)
               PROVE  ny[p[i]] = IF i = Len(p) THEN NULL ELSE p[i + 1]
    BY DEF Chain
  <2>1. CASE i < Len(s)
    <3>1. p[i] = s[i] /\ p[i + 1] = s[i + 1] /\ i # Len(p) /\ i \in 1..Len(s)
      BY <2>1, <1>0, <1>1
    <3> QED BY <2>1, <3>1, <1>0 DEF Chain
  <2>2. CASE i = Len(s)
    <3>1. p[i] = s[i] /\ (i # Len(p) => Len(t) # 0 /\ p[i + 1] = t[1])
      BY <2>2, <1>0, <1>1
    <3> QED BY <2>2, <3>1, <1>0, <1>1, <1>2
  <2>3. CASE i > Len(s)
    <3>0. i \in Nat /\ i - Len(s) \in 1..Len(t) /\ (i = Len(p) <=> i - Len(s) = Len(t))
      BY <2>3, <1>0, <1>1
    <3>a. p[i] = t[i - Len(s)]
      BY <2>3, <3>0, <1>0, <1>1
    <3>b. ASSUME i # Len(p)
          PROVE  p[i + 1] = t[i + 1 - Len(s)]
      <4>0. Len(p) \in Nat /\ Len(p) = Len(s) + Len(t) /\ i \in 1..Len(p)
        BY <1>0, <1>1
      <4>1. i + 1 \in 1..(Len(s) + Len(t)) /\ ~(i + 1 <= Len(s))
        BY <4>0, <2>3, <3>b, <3>0, <1>0
      <4> QED BY <4>1, <1>1
    <3>1. /\ i - Len(s) \in 1..Len(t) /\ p[i] = t[i - Len(s)]
          /\ i # Len(p) => p[i + 1] = t[i + 1 - Len(s)]
          /\ i = Len(p) <=> i - Len(s) = Len(t)
      BY <3>0, <3>a, <3>b
    <3>2. (i - Len(s)) + 1 = i + 1 - Len(s)
      BY <1>0
    <3>3. nx[t[i - Len(s)]] = IF i - Len(s) = Len(t) THEN NULL ELSE t[i + 1 - Len(s)]
      BY <3>1, <3>2 DEF Chain
    <3> QED BY <3>1, <3>3
  <2> QED BY <2>1, <2>2, <2>3, <1>0, <1>1
<1> QED BY <1>5 DEF p

(* A chain is undisturbed by changes to the links of other nodes. *)
LEMMA SameChain ==
  ASSUME NEW s, NEW nx, NEW ny, \A i \in 1..Len(s) : ny[s[i]] = nx[s[i]]
  PROVE  /\ Chain(nx, s) => Chain(ny, s)
         /\ BackChain(nx, s) => BackChain(ny, s)
BY DEF Chain, BackChain
-----------------------------------------------------------------------------
(* The inductive invariant: the pointers of every collection spell out its *)
(* two sequences, and no node is in two places.                            *)

Shape == ListTypes /\ Linked /\ FreeListSound
IInv  == Shape /\ CopyTypes

(* What Shape says of one collection. *)
LEMMA ShapeOf ==
  ASSUME Shape, NEW c \in Colls
  PROVE  /\ live[c] \in Seq(Nodes) /\ free[c] \in Seq(Nodes)
         /\ head[c] = First(live[c]) /\ tail[c] = Final(live[c])
         /\ freelist[c] = First(free[c]) /\ count[c] = Len(live[c])
         /\ Chain(next, live[c]) /\ BackChain(prev, live[c]) /\ Chain(next, free[c])
         /\ Distinct(live[c]) /\ Distinct(free[c])
         /\ Items(live[c]) \cap Items(free[c]) = {}
         /\ \A n \in Items(live[c]) \cup Items(free[c]) : n \in Nodes /\ owner[n] = c
<1>1. live[c] \in Seq(Nodes) /\ free[c] \in Seq(Nodes)
  BY DEF Shape, ListTypes
<1>2. LinkedList(c) /\ FreeChain(c) /\ Placed(c)
  BY DEF Shape, Linked, FreeListSound
<1>3. Items(live[c]) \cup Items(free[c]) \subseteq Nodes
  BY <1>1 DEF Items
<1> QED BY <1>1, <1>2, <1>3 DEF LinkedList, FreeChain, Placed

(* No node has a place in two collections. *)
LEMMA Elsewhere ==
  ASSUME Shape, NEW c \in Colls, NEW d \in Colls, c # d,
         NEW n \in Items(live[c]) \cup Items(free[c])
  PROVE  n \notin Items(live[d]) /\ n \notin Items(free[d])
<1>1. owner[n] = c
  BY ShapeOf
<1>2. n \in Items(live[d]) \cup Items(free[d]) => owner[n] = d
  BY ShapeOf
<1> QED BY <1>1, <1>2

(* A step that leaves collection d's variables alone, and the links and the *)
(* owner of the nodes in it, leaves d well formed.                          *)
LEMMA Undisturbed ==
  ASSUME Shape, NEW d \in Colls,
         live'[d] = live[d], free'[d] = free[d],
         head'[d] = head[d], tail'[d] = tail[d],
         count'[d] = count[d], freelist'[d] = freelist[d],
         \A n \in Items(live[d]) \cup Items(free[d]) :
           next'[n] = next[n] /\ prev'[n] = prev[n] /\ owner'[n] = owner[n]
  PROVE  LinkedList(d)' /\ FreeChain(d)' /\ Placed(d)'
<1>1. LinkedList(d) /\ FreeChain(d) /\ Placed(d)
  BY DEF Shape, Linked, FreeListSound
<1>2. \A i \in 1..Len(live[d]) : /\ next'[live[d][i]] = next[live[d][i]]
                                 /\ prev'[live[d][i]] = prev[live[d][i]]
  BY DEF Items
<1>3. \A i \in 1..Len(free[d]) : next'[free[d][i]] = next[free[d][i]]
  BY DEF Items
<1>4. Chain(next', live[d]) /\ BackChain(prev', live[d]) /\ Chain(next', free[d])
  BY <1>1, <1>2, <1>3, SameChain DEF LinkedList, FreeChain
<1> QED BY <1>1, <1>4 DEF LinkedList, FreeChain, Placed

(* The node the allocation helper returns is in no list, and on no free    *)
(* list but as the first of its own; taking it leaves the rest chained.    *)
LEMMA AllocatedNode ==
  ASSUME Shape, NEW c \in Colls, NEW n \in Nodes, Allocates(c, n), TakeNode(c, n)
  PROVE  /\ \A d \in Colls : n \notin Items(live[d])
         /\ \A d \in Colls : d # c => n \notin Items(free[d])
         /\ n \notin Items(Rest(free[c]))
         /\ Items(Rest(free[c])) \subseteq Items(free[c])
         /\ Rest(free[c]) \in Seq(Nodes)
         /\ Chain(next, Rest(free[c])) /\ Distinct(Rest(free[c]))
         /\ freelist' = [freelist EXCEPT ![c] = First(Rest(free[c]))]
         /\ free' = [free EXCEPT ![c] = Rest(free[c])]
         /\ owner' = [owner EXCEPT ![n] = c]
         /\ freelist' \in [Colls -> NodeOrNull]
         /\ free' \in [Colls -> Seq(Nodes)]
         /\ owner' \in [Nodes -> Colls \cup {NULL}]
<1> DEFINE f == free[c]
<1>s. /\ f \in Seq(Nodes) /\ freelist[c] = First(f) /\ Chain(next, f) /\ Distinct(f)
      /\ Items(live[c]) \cap Items(f) = {}
      /\ \A m \in Items(f) : owner[m] = c
  BY ShapeOf
<1>t. ListTypes
  BY DEF Shape
<1>r. /\ Rest(f) \in Seq(Nodes) /\ Chain(next, Rest(f)) /\ Distinct(Rest(f))
      /\ Items(Rest(f)) = Items(f) \ {First(f)}
      /\ f # <<>> => next[First(f)] = First(Rest(f))
  BY <1>s, RestFacts
<1>e. /\ First(f) = NULL <=> f = <<>>
      /\ f # <<>> => First(f) \in Items(f)
      /\ f = <<>> => First(Rest(f)) = NULL
      /\ First(Rest(f)) \in NodeOrNull
  <2>1. f # <<>> => 1 \in 1..Len(f) /\ First(f) = f[1]
    BY <1>s, EndsOfSeq
  <2>2. f = <<>> => Rest(f) = <<>>
    BY DEF Rest
  <2>3. <<>> \in Seq(Nodes) /\ First(<<>>) = NULL
    BY DEF First
  <2> QED BY <1>s, <1>r, <2>1, <2>2, <2>3, EndsOfSeq DEF Items
<1>1. (f # <<>> /\ n = First(f) /\ owner[n] = c) \/ (f = <<>> /\ owner[n] = NULL)
  BY <1>e, <1>s DEF Allocates
<1>2. \A d \in Colls : n \notin Items(live[d])
  <2> SUFFICES ASSUME NEW d \in Colls, n \in Items(live[d])
               PROVE  FALSE
    OBVIOUS
  <2>1. owner[n] = d /\ d # NULL
    BY ShapeOf, NullAssumption
  <2> QED BY <2>1, <1>1, <1>s, <1>e
<1>3. \A d \in Colls : d # c => n \notin Items(free[d])
  <2> SUFFICES ASSUME NEW d \in Colls, d # c, n \in Items(free[d])
               PROVE  FALSE
    OBVIOUS
  <2>1. owner[n] = d /\ d # NULL
    BY ShapeOf, NullAssumption
  <2> QED BY <2>1, <1>1
<1>4. n \notin Items(Rest(f))
  <2>1. f = <<>> => Items(Rest(f)) = {}
    BY <1>r DEF Items
  <2> QED BY <2>1, <1>1, <1>r
<1>5. /\ free' = [free EXCEPT ![c] = Rest(f)] /\ owner' = [owner EXCEPT ![n] = c]
      /\ free' \in [Colls -> Seq(Nodes)] /\ owner' \in [Nodes -> Colls \cup {NULL}]
  BY <1>r, <1>t DEF TakeNode, ListTypes
<1>6. freelist' = [freelist EXCEPT ![c] = First(Rest(f))]
  BY <1>s, <1>e, <1>r, <1>t DEF TakeNode, ListTypes
<1>7. freelist' \in [Colls -> NodeOrNull]
  BY <1>6, <1>e, <1>t DEF ListTypes
<1> QED BY <1>2, <1>3, <1>4, <1>5, <1>6, <1>7, <1>r

(* Pushing the allocated node keeps every collection well formed.             *)
LEMMA PushNodeShape ==
  ASSUME Shape, NEW c \in Colls, NEW n \in Nodes, NEW v \in Vals \cup {NULL},
         Allocates(c, n), PushNode(c, n, v)
  PROVE  Shape'
<1> DEFINE s == live[c]
           g == Rest(free[c])
           p == Prepend(n, s)
<1>t. TakeNode(c, n)
  BY DEF PushNode
<1>a. /\ \A d \in Colls : n \notin Items(live[d])
      /\ \A d \in Colls : d # c => n \notin Items(free[d])
      /\ n \notin Items(g) /\ Items(g) \subseteq Items(free[c])
      /\ g \in Seq(Nodes) /\ Chain(next, g) /\ Distinct(g)
      /\ freelist' = [freelist EXCEPT ![c] = First(g)]
      /\ free' = [free EXCEPT ![c] = g]
      /\ owner' = [owner EXCEPT ![n] = c]
      /\ freelist' \in [Colls -> NodeOrNull]
      /\ free' \in [Colls -> Seq(Nodes)]
      /\ owner' \in [Nodes -> Colls \cup {NULL}]
  BY <1>t, AllocatedNode
<1>b. /\ s \in Seq(Nodes) /\ Len(s) \in Nat
      /\ head[c] = First(s) /\ tail[c] = Final(s) /\ count[c] = Len(s)
      /\ Chain(next, s) /\ BackChain(prev, s) /\ Distinct(s)
      /\ Items(s) \cap Items(free[c]) = {}
      /\ \A m \in Items(s) \cup Items(free[c]) : m \in Nodes /\ owner[m] = c
  BY ShapeOf, EndsOfSeq
<1>l. ListTypes
  BY DEF Shape
<1>e. /\ First(s) = IF Len(s) = 0 THEN NULL ELSE s[1]
      /\ Final(s) = IF Len(s) = 0 THEN NULL ELSE s[Len(s)]
      /\ First(s) = NULL <=> Len(s) = 0
      /\ Final(s) = NULL <=> Len(s) = 0
  BY <1>b, EndsOfSeq
<1> HIDE DEF s, g
<1>n. n \notin Items(s)
  BY <1>a DEF s
<1>p. /\ p \in Seq(Nodes) /\ Len(p) = Len(s) + 1
      /\ \A i \in 1..(Len(s) + 1) : p[i] = IF i = 1 THEN n ELSE s[i - 1]
      /\ Items(p) = Items(s) \cup {n} /\ Distinct(p)
  <2>1. p \in Seq(Nodes) /\ Len(p) = Len(s) + 1
    BY <1>b, PrependFacts
  <2>2. \A i \in 1..(Len(s) + 1) : p[i] = IF i = 1 THEN n ELSE s[i - 1]
    BY <1>b, PrependFacts
  <2>3. Items(p) = Items(s) \cup {n} /\ Distinct(p)
    BY <1>b, <1>n, PrependItems
  <2> QED BY <2>1, <2>2, <2>3
<1>1. ListTypes'
  <2>1. head' \in [Colls -> NodeOrNull] /\ tail' \in [Colls -> NodeOrNull]
    BY <1>l DEF PushNode, ListTypes, NodeOrNull
  <2>2. next' \in [Nodes -> NodeOrNull] /\ prev' \in [Nodes -> NodeOrNull]
    BY <1>l DEF PushNode, ListTypes, NodeOrNull
  <2>3. count' \in [Colls -> Nat] /\ data' \in [Nodes -> Vals \cup {NULL}]
    BY <1>l DEF PushNode, ListTypes
  <2>4. live' \in [Colls -> Seq(Nodes)]
    BY <1>l, <1>p DEF PushNode, ListTypes, s
  <2> QED BY <1>a, <2>1, <2>2, <2>3, <2>4 DEF ListTypes
<1>u. /\ live' = [live EXCEPT ![c] = p] /\ count' = [count EXCEPT ![c] = Len(s) + 1]
  BY <1>b, <1>l DEF PushNode, ListTypes, s
<1>v. \A m \in Nodes : m # n =>
        /\ next'[m] = next[m]
        /\ prev'[m] = IF m = head[c] THEN n ELSE prev[m]
  BY <1>l DEF PushNode, ListTypes
<1>w. next'[n] = First(s) /\ prev'[n] = NULL
  BY <1>l, <1>b DEF PushNode, ListTypes
<1>x. \A i \in 1..Len(s) : /\ s[i] \in Nodes /\ s[i] # n /\ s[i] \in Items(s)
                           /\ s[i] = head[c] <=> i = 1
  <2>1. \A i \in 1..Len(s) : s[i] \in Nodes /\ s[i] # n /\ s[i] \in Items(s)
    BY <1>n, <1>b DEF Items
  <2>2. ASSUME NEW i \in 1..Len(s)
        PROVE  s[i] = head[c] <=> i = 1
    BY <1>b, <1>e DEF Distinct
  <2> QED BY <2>1, <2>2
<1>y. \A i \in 1..Len(g) : g[i] \in Nodes /\ g[i] # n
  BY <1>a, <1>b DEF Items
<1>h. /\ head' = [head EXCEPT ![c] = n]
      /\ tail' = IF Len(s) # 0 THEN tail ELSE [tail EXCEPT ![c] = n]
  BY <1>b, <1>e DEF PushNode
<1> HIDE DEF p
<1>c. /\ live'[c] = p /\ free'[c] = g /\ count'[c] = Len(s) + 1
      /\ head'[c] = n /\ tail'[c] = IF Len(s) = 0 THEN n ELSE tail[c]
      /\ freelist'[c] = First(g)
  BY <1>a, <1>u, <1>h, <1>l DEF ListTypes
<1>2. LinkedList(c)'
  <2>1. Chain(next', p)
    BY <1>b, <1>v, <1>w, <1>x, PrependChain DEF p
  <2>2. \A i \in 1..Len(s) : prev'[s[i]] = IF i = 1 THEN n ELSE prev[s[i]]
    BY <1>v, <1>x
  <2>3. BackChain(prev', p)
    BY <1>b, <1>w, <2>2, PrependBackChain DEF p
  <2>4. First(p) = n /\ Final(p) = IF Len(s) = 0 THEN n ELSE s[Len(s)]
    BY <1>p, <1>b, EndsOfSeq
  <2> QED BY <1>c, <1>p, <1>e, <1>b, <2>1, <2>3, <2>4 DEF LinkedList
<1>3. FreeChain(c)'
  <2>1. \A i \in 1..Len(g) : next'[g[i]] = next[g[i]]
    BY <1>v, <1>y
  <2>2. Chain(next', g)
    BY <1>a, <2>1, SameChain
  <2> QED BY <1>c, <2>2 DEF FreeChain
<1>4. Placed(c)'
  <2>1. \A m \in Items(p) \cup Items(g) : owner'[m] = c
    BY <1>p, <1>a, <1>b, <1>l DEF ListTypes
  <2>2. Items(p) \cap Items(g) = {}
    BY <1>p, <1>a, <1>b
  <2> QED BY <1>c, <1>p, <1>a, <2>1, <2>2 DEF Placed
<1>5. ASSUME NEW d \in Colls, d # c
      PROVE  LinkedList(d)' /\ FreeChain(d)' /\ Placed(d)'
  <2>1. /\ live'[d] = live[d] /\ free'[d] = free[d]
        /\ head'[d] = head[d] /\ tail'[d] = tail[d]
        /\ count'[d] = count[d] /\ freelist'[d] = freelist[d]
    BY <1>5, <1>a, <1>u, <1>h, <1>l DEF ListTypes
  <2>2. ASSUME NEW m \in Items(live[d]) \cup Items(free[d])
        PROVE  next'[m] = next[m] /\ prev'[m] = prev[m] /\ owner'[m] = owner[m]
    <3>1. m \in Nodes /\ m # n
      BY <1>a, <1>5, ShapeOf
    <3>2. m \notin Items(s)
      BY <1>5, Elsewhere DEF s
    <3>3. m # head[c]
      BY <3>1, <3>2, <1>b, <1>e, NullAssumption DEF Items
    <3> QED BY <3>1, <3>3, <1>v, <1>a, <1>l DEF ListTypes
  <2> QED BY <2>1, <2>2, Undisturbed
<1> QED BY <1>1, <1>2, <1>3, <1>4, <1>5 DEF Shape, Linked, FreeListSound

(* Appending the allocated node keeps every collection well formed.           *)
LEMMA AppendNodeShape ==
  ASSUME Shape, NEW c \in Colls, NEW n \in Nodes, NEW v \in Vals \cup {NULL},
         Allocates(c, n), AppendNode(c, n, v)
  PROVE  Shape'
<1> DEFINE s == live[c]
           g == Rest(free[c])
           p == Extend(s, n)
<1>t. TakeNode(c, n)
  BY DEF AppendNode
<1>a. /\ \A d \in Colls : n \notin Items(live[d])
      /\ \A d \in Colls : d # c => n \notin Items(free[d])
      /\ n \notin Items(g) /\ Items(g) \subseteq Items(free[c])
      /\ g \in Seq(Nodes) /\ Chain(next, g) /\ Distinct(g)
      /\ freelist' = [freelist EXCEPT ![c] = First(g)]
      /\ free' = [free EXCEPT ![c] = g]
      /\ owner' = [owner EXCEPT ![n] = c]
      /\ freelist' \in [Colls -> NodeOrNull]
      /\ free' \in [Colls -> Seq(Nodes)]
      /\ owner' \in [Nodes -> Colls \cup {NULL}]
  BY <1>t, AllocatedNode
<1>b. /\ s \in Seq(Nodes) /\ Len(s) \in Nat
      /\ head[c] = First(s) /\ tail[c] = Final(s) /\ count[c] = Len(s)
      /\ Chain(next, s) /\ BackChain(prev, s) /\ Distinct(s)
      /\ Items(s) \cap Items(free[c]) = {}
      /\ \A m \in Items(s) \cup Items(free[c]) : m \in Nodes /\ owner[m] = c
  BY ShapeOf, EndsOfSeq
<1>l. ListTypes
  BY DEF Shape
<1>e. /\ First(s) = IF Len(s) = 0 THEN NULL ELSE s[1]
      /\ Final(s) = IF Len(s) = 0 THEN NULL ELSE s[Len(s)]
      /\ First(s) = NULL <=> Len(s) = 0
      /\ Final(s) = NULL <=> Len(s) = 0
  BY <1>b, EndsOfSeq
<1> HIDE DEF s, g
<1>n. n \notin Items(s)
  BY <1>a DEF s
<1>p. /\ p \in Seq(Nodes) /\ Len(p) = Len(s) + 1
      /\ \A i \in 1..(Len(s) + 1) : p[i] = IF i = Len(s) + 1 THEN n ELSE s[i]
      /\ Items(p) = Items(s) \cup {n} /\ Distinct(p)
  <2>1. p \in Seq(Nodes) /\ Len(p) = Len(s) + 1
    BY <1>b, ExtendFacts
  <2>2. \A i \in 1..(Len(s) + 1) : p[i] = IF i = Len(s) + 1 THEN n ELSE s[i]
    BY <1>b, ExtendFacts
  <2>3. Items(p) = Items(s) \cup {n} /\ Distinct(p)
    BY <1>b, <1>n, ExtendItems
  <2> QED BY <2>1, <2>2, <2>3
<1>1. ListTypes'
  <2>1. head' \in [Colls -> NodeOrNull] /\ tail' \in [Colls -> NodeOrNull]
    BY <1>l DEF AppendNode, ListTypes, NodeOrNull
  <2>2. next' \in [Nodes -> NodeOrNull] /\ prev' \in [Nodes -> NodeOrNull]
    BY <1>l DEF AppendNode, ListTypes, NodeOrNull
  <2>3. count' \in [Colls -> Nat] /\ data' \in [Nodes -> Vals \cup {NULL}]
    BY <1>l DEF AppendNode, ListTypes
  <2>4. live' \in [Colls -> Seq(Nodes)]
    BY <1>l, <1>p DEF AppendNode, ListTypes, s
  <2> QED BY <1>a, <2>1, <2>2, <2>3, <2>4 DEF ListTypes
<1>u. /\ live' = [live EXCEPT ![c] = p] /\ count' = [count EXCEPT ![c] = Len(s) + 1]
  BY <1>b, <1>l DEF AppendNode, ListTypes, s
<1>v. \A m \in Nodes : m # n =>
        /\ next'[m] = IF m = tail[c] THEN n ELSE next[m]
        /\ prev'[m] = prev[m]
  BY <1>l DEF AppendNode, ListTypes
<1>w. next'[n] = NULL /\ prev'[n] = Final(s)
  BY <1>l, <1>b DEF AppendNode, ListTypes
<1>x. \A i \in 1..Len(s) : /\ s[i] \in Nodes /\ s[i] # n /\ s[i] \in Items(s)
                           /\ s[i] = tail[c] <=> i = Len(s)
  <2>1. \A i \in 1..Len(s) : s[i] \in Nodes /\ s[i] # n /\ s[i] \in Items(s)
    BY <1>n, <1>b DEF Items
  <2>2. ASSUME NEW i \in 1..Len(s)
        PROVE  s[i] = tail[c] <=> i = Len(s)
    BY <1>b, <1>e DEF Distinct
  <2> QED BY <2>1, <2>2
<1>y. \A i \in 1..Len(g) : g[i] \in Nodes /\ g[i] # n
  BY <1>a, <1>b DEF Items
<1>z. \A i \in 1..Len(g) : g[i] # tail[c]
  <2> SUFFICES ASSUME NEW i \in 1..Len(g), g[i] = tail[c]
               PROVE  FALSE
    OBVIOUS
  <2>1. Len(s) # 0 /\ tail[c] = s[Len(s)]
    BY <1>b, <1>e, <1>y, NullAssumption
  <2>2. tail[c] \in Items(s)
    <3>1. Len(s) \in 1..Len(s)
      BY <2>1, <1>b
    <3> QED BY <2>1, <3>1 DEF Items
  <2>3. tail[c] \in Items(free[c])
    BY <1>a DEF Items
  <2> QED BY <2>2, <2>3, <1>b
<1>h. /\ tail' = [tail EXCEPT ![c] = n]
      /\ head' = IF Len(s) # 0 THEN head ELSE [head EXCEPT ![c] = n]
  BY <1>b, <1>e DEF AppendNode
<1> HIDE DEF p
<1>c. /\ live'[c] = p /\ free'[c] = g /\ count'[c] = Len(s) + 1
      /\ tail'[c] = n /\ head'[c] = IF Len(s) = 0 THEN n ELSE head[c]
      /\ freelist'[c] = First(g)
  BY <1>a, <1>u, <1>h, <1>l DEF ListTypes
<1>2. LinkedList(c)'
  <2>1. \A i \in 1..Len(s) : next'[s[i]] = IF i = Len(s) THEN n ELSE next[s[i]]
    BY <1>v, <1>x
  <2>2. Chain(next', p)
    BY <1>b, <1>w, <2>1, ExtendChain DEF p
  <2>3. BackChain(prev', p)
    BY <1>b, <1>v, <1>w, <1>x, ExtendBackChain DEF p
  <2>4. Final(p) = n /\ First(p) = IF Len(s) = 0 THEN n ELSE s[1]
    BY <1>p, <1>b, EndsOfSeq
  <2> QED BY <1>c, <1>p, <1>e, <1>b, <2>2, <2>3, <2>4 DEF LinkedList
<1>3. FreeChain(c)'
  <2>1. \A i \in 1..Len(g) : next'[g[i]] = next[g[i]]
    BY <1>v, <1>y, <1>z
  <2>2. Chain(next', g)
    BY <1>a, <2>1, SameChain
  <2> QED BY <1>c, <2>2 DEF FreeChain
<1>4. Placed(c)'
  <2>1. \A m \in Items(p) \cup Items(g) : owner'[m] = c
    BY <1>p, <1>a, <1>b, <1>l DEF ListTypes
  <2>2. Items(p) \cap Items(g) = {}
    BY <1>p, <1>a, <1>b
  <2> QED BY <1>c, <1>p, <1>a, <2>1, <2>2 DEF Placed
<1>5. ASSUME NEW d \in Colls, d # c
      PROVE  LinkedList(d)' /\ FreeChain(d)' /\ Placed(d)'
  <2>1. /\ live'[d] = live[d] /\ free'[d] = free[d]
        /\ head'[d] = head[d] /\ tail'[d] = tail[d]
        /\ count'[d] = count[d] /\ freelist'[d] = freelist[d]
    BY <1>5, <1>a, <1>u, <1>h, <1>l DEF ListTypes
  <2>2. ASSUME NEW m \in Items(live[d]) \cup Items(free[d])
        PROVE  next'[m] = next[m] /\ prev'[m] = prev[m] /\ owner'[m] = owner[m]
    <3>1. m \in Nodes /\ m # n
      BY <1>a, <1>5, ShapeOf
    <3>2. m \notin Items(s)
      BY <1>5, Elsewhere DEF s
    <3>3. m # tail[c]
      BY <3>1, <3>2, <1>b, <1>e, NullAssumption DEF Items
    <3> QED BY <3>1, <3>3, <1>v, <1>a, <1>l DEF ListTypes
  <2> QED BY <2>1, <2>2, Undisturbed
<1> QED BY <1>1, <1>2, <1>3, <1>4, <1>5 DEF Shape, Linked, FreeListSound
(* Removing the k-th node keeps every collection well formed. *)
LEMMA RemoveNodeShape ==
  ASSUME Shape, NEW c \in Colls, NEW k \in 1..Len(live[c]),
         RemoveNode(c, live[c][k], k)
  PROVE  Shape'
<1> DEFINE s == live[c]
           f == free[c]
           n == s[k]
           p == Without(s, k)
           q == Prepend(n, f)
<1>b. /\ s \in Seq(Nodes) /\ Len(s) \in Nat /\ f \in Seq(Nodes)
      /\ head[c] = First(s) /\ tail[c] = Final(s) /\ count[c] = Len(s)
      /\ freelist[c] = First(f)
      /\ Chain(next, s) /\ BackChain(prev, s) /\ Distinct(s)
      /\ Chain(next, f) /\ Distinct(f)
      /\ Items(s) \cap Items(f) = {}
      /\ \A m \in Items(s) \cup Items(f) : m \in Nodes /\ owner[m] = c
      /\ First(f) \in NodeOrNull
  BY ShapeOf, EndsOfSeq
<1>l. ListTypes
  BY DEF Shape
<1>r. /\ prev' = [m \in Nodes |-> IF m = next[n] THEN prev[n] ELSE prev[m]]
      /\ tail' = IF next[n] # NULL THEN tail ELSE [tail EXCEPT ![c] = prev[n]]
      /\ next' = [m \in Nodes |-> IF m = n THEN freelist[c]
                                  ELSE IF m = prev[n] THEN next[n] ELSE next[m]]
      /\ head' = IF prev[n] # NULL THEN head ELSE [head EXCEPT ![c] = next[n]]
      /\ freelist' = [freelist EXCEPT ![c] = n]
      /\ count' = [count EXCEPT ![c] = @ - 1]
      /\ live' = [live EXCEPT ![c] = p] /\ free' = [free EXCEPT ![c] = q]
      /\ UNCHANGED <<data, owner>>
  BY DEF RemoveNode, UnlinkBack, FreeNode, Uncount
<1>k. k \in 1..Len(s)
  OBVIOUS
<1>d. n \in Items(s)
  BY DEF Items
<1> HIDE DEF s, f
<1>e. n \in Nodes /\ n \notin Items(f)
  BY <1>b, <1>d
<1>f. /\ next[n] = IF k = Len(s) THEN NULL ELSE s[k + 1]
      /\ prev[n] = IF k = 1 THEN NULL ELSE s[k - 1]
  BY <1>b, <1>k DEF Chain, BackChain
<1>g. /\ k # Len(s) => k + 1 \in 1..Len(s)
      /\ k # 1 => k - 1 \in 1..Len(s)
  BY <1>b, <1>k
<1>m. \A i \in 1..Len(s) : s[i] \in Items(s) /\ s[i] \in Nodes
  BY <1>b DEF Items
<1>n. /\ next[n] = NULL <=> k = Len(s)
      /\ prev[n] = NULL <=> k = 1
      /\ next[n] \in Items(s) \cup {NULL} /\ prev[n] \in Items(s) \cup {NULL}
  BY <1>f, <1>g, <1>m, NullAssumption
<1>p. /\ p \in Seq(Nodes) /\ Len(p) = Len(s) - 1
      /\ \A i \in 1..(Len(s) - 1) : p[i] = IF i < k THEN s[i] ELSE s[i + 1]
      /\ Items(p) = Items(s) \ {n} /\ Distinct(p)
  <2>1. p \in Seq(Nodes) /\ Len(p) = Len(s) - 1
    BY <1>b, <1>k, WithoutFacts
  <2>2. \A i \in 1..(Len(s) - 1) : p[i] = IF i < k THEN s[i] ELSE s[i + 1]
    BY <1>b, <1>k, WithoutFacts
  <2>3. Items(p) = Items(s) \ {n} /\ Distinct(p)
    BY <1>b, <1>k, WithoutItems
  <2> QED BY <2>1, <2>2, <2>3
<1>q. /\ q \in Seq(Nodes) /\ Items(q) = Items(f) \cup {n} /\ Distinct(q)
      /\ First(q) = n
  <2> HIDE DEF n
  <2>1. q \in Seq(Nodes) /\ Len(q) = Len(f) + 1
    BY <1>b, <1>e, PrependFacts
  <2>2. \A i \in 1..(Len(f) + 1) : q[i] = IF i = 1 THEN n ELSE f[i - 1]
    BY <1>b, <1>e, PrependFacts
  <2>3. Len(f) \in Nat /\ 1 \in 1..(Len(f) + 1)
    BY <1>b
  <2>4. q[1] = n /\ Len(q) # 0
    BY <2>1, <2>2, <2>3
  <2>5. First(q) = n
    BY <2>1, <2>4, EndsOfSeq
  <2> QED BY <2>1, <2>5, <1>b, <1>e, PrependItems
<1>1. ListTypes'
  <2>1. head' \in [Colls -> NodeOrNull] /\ tail' \in [Colls -> NodeOrNull]
    BY <1>l, <1>r, <1>n, <1>b DEF ListTypes, NodeOrNull
  <2>2. next' \in [Nodes -> NodeOrNull] /\ prev' \in [Nodes -> NodeOrNull]
    BY <1>l, <1>r, <1>n, <1>b DEF ListTypes, NodeOrNull
  <2>3. count' = [count EXCEPT ![c] = Len(s) - 1] /\ Len(s) - 1 \in Nat
    BY <1>l, <1>r, <1>b, <1>k DEF ListTypes
  <2>4. live' \in [Colls -> Seq(Nodes)] /\ free' \in [Colls -> Seq(Nodes)]
    BY <1>l, <1>r, <1>p, <1>q DEF ListTypes
  <2>5. freelist' \in [Colls -> NodeOrNull]
    BY <1>l, <1>r, <1>e DEF ListTypes, NodeOrNull
  <2> QED BY <1>l, <1>r, <2>1, <2>2, <2>3, <2>4, <2>5 DEF ListTypes
<1>c. /\ live'[c] = p /\ free'[c] = q /\ count'[c] = Len(s) - 1
      /\ freelist'[c] = n
      /\ head'[c] = IF k = 1 THEN next[n] ELSE head[c]
      /\ tail'[c] = IF k = Len(s) THEN prev[n] ELSE tail[c]
  BY <1>r, <1>b, <1>n, <1>l DEF ListTypes
<1>x. \A i \in 1..Len(s) : i # k =>
        /\ next'[s[i]] = IF i = k - 1 THEN next[s[k]] ELSE next[s[i]]
        /\ prev'[s[i]] = IF i = k + 1 THEN prev[s[k]] ELSE prev[s[i]]
  <2> SUFFICES ASSUME NEW i \in 1..Len(s), i # k
               PROVE  /\ next'[s[i]] = IF i = k - 1 THEN next[s[k]] ELSE next[s[i]]
                      /\ prev'[s[i]] = IF i = k + 1 THEN prev[s[k]] ELSE prev[s[i]]
    OBVIOUS
  <2>1. s[i] \in Nodes /\ s[i] # n
    BY <1>m, <1>b, <1>k DEF Distinct
  <2>2. s[i] = prev[n] <=> i = k - 1
    BY <1>f, <1>g, <1>b, <2>1, NullAssumption DEF Distinct
  <2>3. s[i] = next[n] <=> i = k + 1
    BY <1>f, <1>g, <1>b, <2>1, NullAssumption DEF Distinct
  <2>4. next'[s[i]] = IF s[i] = prev[n] THEN next[n] ELSE next[s[i]]
    BY <1>r, <2>1
  <2>5. prev'[s[i]] = IF s[i] = next[n] THEN prev[n] ELSE prev[s[i]]
    BY <1>r, <2>1
  <2> QED BY <2>2, <2>3, <2>4, <2>5
<1>y. \A i \in 1..Len(f) : next'[f[i]] = next[f[i]]
  <2> SUFFICES ASSUME NEW i \in 1..Len(f)
               PROVE  next'[f[i]] = next[f[i]]
    OBVIOUS
  <2>1. f[i] \in Items(f) /\ f[i] \in Nodes
    BY <1>b DEF Items
  <2>2. f[i] # n /\ f[i] # prev[n]
    BY <2>1, <1>e, <1>n, <1>b, NullAssumption
  <2> QED BY <2>1, <2>2, <1>r
<1>z. next'[n] = First(f)
  BY <1>r, <1>e, <1>b
<1> HIDE DEF n, p, q
<1>2. LinkedList(c)'
  <2>1. Chain(next', p) /\ BackChain(prev', p)
    BY <1>b, <1>k, <1>x, WithoutChain, WithoutBackChain DEF p
  <2>2. /\ First(p) = IF Len(p) = 0 THEN NULL ELSE p[1]
        /\ Final(p) = IF Len(p) = 0 THEN NULL ELSE p[Len(p)]
        /\ First(s) = s[1] /\ Final(s) = s[Len(s)]
    BY <1>p, <1>b, <1>k, EndsOfSeq
  <2>3. First(p) = IF k = 1 THEN next[n] ELSE head[c]
    <3>1. CASE k = 1
      BY <3>1, <2>2, <1>p, <1>b, <1>k, <1>f
    <3>2. CASE k # 1
      BY <3>2, <2>2, <1>p, <1>b, <1>k
    <3> QED BY <3>1, <3>2
  <2>4. Final(p) = IF k = Len(s) THEN prev[n] ELSE tail[c]
    <3>1. CASE k = Len(s)
      BY <3>1, <2>2, <1>p, <1>b, <1>k, <1>f
    <3>2. CASE k # Len(s)
      <4>1. Len(p) # 0 /\ Len(p) \in 1..(Len(s) - 1) /\ ~(Len(p) < k) /\ Len(p) + 1 = Len(s)
        BY <3>2, <1>p, <1>b, <1>k
      <4>2. p[Len(p)] = s[Len(p) + 1]
        BY <4>1, <1>p
      <4> QED BY <3>2, <4>1, <4>2, <2>2, <1>b
    <3> QED BY <3>1, <3>2
  <2> QED BY <1>c, <1>p, <2>1, <2>3, <2>4 DEF LinkedList
<1>3. FreeChain(c)'
  <2>1. Chain(next', q)
    BY <1>b, <1>e, <1>y, <1>z, PrependChain DEF q
  <2> QED BY <2>1, <1>c, <1>q DEF FreeChain
<1>4. Placed(c)'
  <2>1. owner' = owner /\ Items(p) \cap Items(q) = {}
    BY <1>r, <1>p, <1>q, <1>b
  <2>2. \A m \in Items(p) \cup Items(q) : owner'[m] = c
    BY <2>1, <1>p, <1>q, <1>b, <1>d
  <2> QED BY <1>c, <1>p, <1>q, <2>1, <2>2 DEF Placed
<1>5. ASSUME NEW d \in Colls, d # c
      PROVE  LinkedList(d)' /\ FreeChain(d)' /\ Placed(d)'
  <2>1. /\ live'[d] = live[d] /\ free'[d] = free[d]
        /\ head'[d] = head[d] /\ tail'[d] = tail[d]
        /\ count'[d] = count[d] /\ freelist'[d] = freelist[d]
    BY <1>5, <1>r, <1>l DEF ListTypes
  <2>2. ASSUME NEW m \in Items(live[d]) \cup Items(free[d])
        PROVE  next'[m] = next[m] /\ prev'[m] = prev[m] /\ owner'[m] = owner[m]
    <3>1. m \in Nodes
      BY ShapeOf
    <3>2. m \notin Items(s)
      BY <1>5, Elsewhere DEF s
    <3>3. m # n /\ m # prev[n] /\ m # next[n]
      BY <3>1, <3>2, <1>n, <1>d, NullAssumption DEF n
    <3> QED BY <3>1, <3>3, <1>r
  <2> QED BY <2>1, <2>2, Undisturbed
<1> QED BY <1>1, <1>2, <1>3, <1>4, <1>5 DEF Shape, Linked, FreeListSound

(* Resetting a list keeps every collection well formed: the nodes of the    *)
(* list go in front of what the reset keeps of the free list.               *)
LEMMA ResetListShape ==
  ASSUME Shape, NEW c \in Colls, ResetList(c)
  PROVE  Shape'
<1> DEFINE s == live[c]
           g == Rest(free[c])
           q == Join(s, g)
<1>l. ListTypes
  BY DEF Shape
<1>1. CASE head[c] = NULL
  <2>1. UNCHANGED <<ptrs, data, owner, live, free>>
    BY <1>1 DEF ResetList
  <2>2. /\ UNCHANGED head /\ UNCHANGED tail /\ UNCHANGED count /\ UNCHANGED freelist
        /\ UNCHANGED next /\ UNCHANGED prev /\ UNCHANGED data /\ UNCHANGED owner
        /\ UNCHANGED live /\ UNCHANGED free
    BY <2>1 DEF ptrs
  <2>3. ListTypes'
    BY <2>2, <1>l DEF ListTypes
  <2>4. \A d \in Colls : LinkedList(d)' /\ FreeChain(d)' /\ Placed(d)'
    BY <2>2, Undisturbed
  <2> QED BY <2>3, <2>4 DEF Shape, Linked, FreeListSound
<1>2. CASE head[c] # NULL
  <2>b. /\ s \in Seq(Nodes) /\ Len(s) \in Nat /\ free[c] \in Seq(Nodes)
        /\ head[c] = First(s) /\ tail[c] = Final(s)
        /\ freelist[c] = First(free[c])
        /\ Chain(next, s) /\ Distinct(s)
        /\ Chain(next, free[c]) /\ Distinct(free[c])
        /\ Items(s) \cap Items(free[c]) = {}
        /\ \A m \in Items(s) \cup Items(free[c]) : m \in Nodes /\ owner[m] = c
    BY ShapeOf, EndsOfSeq
  <2>g. /\ g \in Seq(Nodes) /\ Chain(next, g) /\ Distinct(g)
        /\ Items(g) = Items(free[c]) \ {First(free[c])}
        /\ free[c] # <<>> => next[First(free[c])] = First(g)
        /\ free[c] = <<>> => First(g) = NULL
    BY <2>b, RestFacts DEF Rest, First
  <2>f. freelist[c] # NULL <=> free[c] # <<>>
    BY <2>b, EndsOfSeq
  <2>r. /\ next' = [next EXCEPT ![tail[c]] = First(g)]
        /\ freelist' = [freelist EXCEPT ![c] = head[c]]
        /\ head' = [head EXCEPT ![c] = NULL]
        /\ tail' = [tail EXCEPT ![c] = NULL]
        /\ count' = [count EXCEPT ![c] = 0]
        /\ live' = [live EXCEPT ![c] = <<>>]
        /\ free' = [free EXCEPT ![c] = q]
        /\ UNCHANGED <<prev, data, owner>>
    BY <1>2, <2>b, <2>g, <2>f DEF ResetList
  <2>s. live[c] = s
    OBVIOUS
  <2> HIDE DEF s, g
  <2>e. Len(s) # 0 /\ head[c] = s[1] /\ tail[c] = s[Len(s)]
    BY <1>2, <2>b, EndsOfSeq
  <2>n. /\ \A i \in 1..Len(s) : s[i] \in Nodes /\ (s[i] = tail[c] <=> i = Len(s))
        /\ tail[c] \in Items(s) /\ tail[c] \in Nodes
    <3>1. Len(s) \in 1..Len(s)
      BY <2>e, <2>b
    <3>2. \A i \in 1..Len(s) : s[i] = tail[c] <=> i = Len(s)
      BY <3>1, <2>e, <2>b DEF Distinct
    <3> QED BY <3>1, <3>2, <2>e, <2>b DEF Items
  <2>y. \A i \in 1..Len(g) : next'[g[i]] = next[g[i]]
    <3> SUFFICES ASSUME NEW i \in 1..Len(g)
                 PROVE  next'[g[i]] = next[g[i]]
      OBVIOUS
    <3>1. g[i] \in Items(free[c])
      BY <2>g DEF Items
    <3> QED BY <3>1, <2>n, <2>b, <2>r, <1>l DEF ListTypes
  <2>x. \A i \in 1..Len(s) : next'[s[i]] = IF i = Len(s) THEN First(g) ELSE next[s[i]]
    BY <2>n, <2>r, <1>l DEF ListTypes
  <2>i. Items(s) \cap Items(g) = {}
    BY <2>b, <2>g
  <2>q. /\ q \in Seq(Nodes) /\ Chain(next', q) /\ Distinct(q)
        /\ Items(q) = Items(s) \cup Items(g) /\ First(q) = head[c]
    <3>1. q \in Seq(Nodes)
      BY <2>b, <2>g, JoinFacts
    <3>2. /\ Chain(next', q) /\ Distinct(q)
          /\ Items(q) = Items(s) \cup Items(g) /\ First(q) = s[1]
      <4> DEFINE nx == next
                 ny == next'
      <4>1. s \in Seq(Nodes) /\ g \in Seq(Nodes) /\ Len(s) # 0
        BY <2>b, <2>g, <2>e
      <4>2. Chain(nx, s) /\ Chain(nx, g)
        BY <2>b, <2>g
      <4>3. /\ \A i \in 1..Len(s) : ny[s[i]] = IF i = Len(s) THEN First(g) ELSE nx[s[i]]
            /\ \A i \in 1..Len(g) : ny[g[i]] = nx[g[i]]
        BY <2>x, <2>y
      <4> HIDE DEF nx, ny
      <4>4. Chain(ny, q)
        BY <4>1, <4>2, <4>3, JoinChain
      <4>5. Distinct(q) /\ Items(q) = Items(s) \cup Items(g) /\ First(q) = s[1]
        BY <4>1, <2>b, <2>g, <2>i, JoinItems
      <4> QED BY <4>4, <4>5 DEF ny
    <3> QED BY <3>1, <3>2, <2>e
  <2>1. ListTypes'
    <3>1. First(g) \in NodeOrNull
      BY <2>g, EndsOfSeq
    <3>2. <<>> \in Seq(Nodes)
      OBVIOUS
    <3> HIDE DEF q
    <3>3. next' \in [Nodes -> NodeOrNull] /\ head' \in [Colls -> NodeOrNull]
          /\ tail' \in [Colls -> NodeOrNull] /\ count' \in [Colls -> Nat]
          /\ freelist' \in [Colls -> NodeOrNull]
      BY <2>r, <1>l, <3>1 DEF ListTypes, NodeOrNull
    <3>4. live' \in [Colls -> Seq(Nodes)] /\ free' \in [Colls -> Seq(Nodes)]
      BY <2>r, <1>l, <2>q, <3>2 DEF ListTypes
    <3> QED BY <2>r, <1>l, <3>3, <3>4 DEF ListTypes
  <2>c. /\ live'[c] = <<>> /\ free'[c] = q /\ count'[c] = 0
        /\ head'[c] = NULL /\ tail'[c] = NULL /\ freelist'[c] = head[c]
    BY <2>r, <1>l DEF ListTypes
  <2>2. LinkedList(c)'
    BY <2>c DEF LinkedList, First, Final, Chain, BackChain
  <2>3. FreeChain(c)'
    BY <2>c, <2>q DEF FreeChain
  <2>4. Placed(c)'
    <3>1. owner' = owner /\ Items(<<>>) = {} /\ Distinct(<<>>)
      BY <2>r DEF Items, Distinct
    <3>2. \A m \in Items(q) : owner'[m] = c
      BY <3>1, <2>q, <2>b, <2>g
    <3> HIDE DEF q
    <3> QED BY <2>c, <2>q, <3>1, <3>2 DEF Placed
  <2>5. ASSUME NEW d \in Colls, d # c
        PROVE  LinkedList(d)' /\ FreeChain(d)' /\ Placed(d)'
    <3> HIDE DEF q
    <3>1. /\ live'[d] = live[d] /\ free'[d] = free[d]
          /\ head'[d] = head[d] /\ tail'[d] = tail[d]
          /\ count'[d] = count[d] /\ freelist'[d] = freelist[d]
      BY <2>5, <2>r, <1>l DEF ListTypes
    <3>2. ASSUME NEW m \in Items(live[d]) \cup Items(free[d])
          PROVE  next'[m] = next[m] /\ prev'[m] = prev[m] /\ owner'[m] = owner[m]
      <4>1. m \in Nodes
        BY ShapeOf
      <4>2. m \notin Items(s)
        BY <2>5, Elsewhere DEF s
      <4> QED BY <4>1, <4>2, <2>n, <2>r, <1>l DEF ListTypes
    <3> QED BY <3>1, <3>2, Undisturbed
  <2> QED BY <2>1, <2>2, <2>3, <2>4, <2>5 DEF Shape, Linked, FreeListSound
<1> QED BY <1>1, <1>2
-----------------------------------------------------------------------------
(* The invariant holds at the start, and every call keeps it. *)

LEMMA InitInvariant == Init => IInv
<1> SUFFICES ASSUME Init PROVE IInv
  OBVIOUS
<1>1. <<>> \in Seq(Nodes) /\ First(<<>>) = NULL /\ Final(<<>>) = NULL /\ Len(<<>>) = 0
  BY DEF First, Final
<1>2. ListTypes
  BY <1>1 DEF Init, ListTypes, NodeOrNull
<1>3. Linked
  BY <1>1 DEF Init, Linked, LinkedList, Chain, BackChain
<1>4. FreeListSound
  BY <1>1 DEF Init, FreeListSound, FreeChain, Placed, Chain, Distinct, Items
<1> QED BY <1>2, <1>3, <1>4 DEF Init, IInv, Shape, CopyTypes

LEMMA NextInvariant == IInv /\ [Next]_vars => IInv'
<1> SUFFICES ASSUME IInv, [Next]_vars PROVE IInv'
  OBVIOUS
<1>0. Shape /\ CopyTypes
  BY DEF IInv
<1>1. ASSUME NEW c \in Colls, Push(c)
      PROVE  IInv'
  <2>1. PICK n \in Nodes, v \in Vals : Allocates(c, n) /\ PushNode(c, n, v)
    BY <1>1 DEF Push
  <2>2. Shape'
    BY <1>0, <2>1, PushNodeShape
  <2> QED BY <1>0, <1>1, <2>2 DEF IInv, Push, CopyTypes
<1>2. ASSUME NEW c \in Colls, AppendEntry(c)
      PROVE  IInv'
  <2>1. PICK n \in Nodes, v \in Vals : Allocates(c, n) /\ AppendNode(c, n, v)
    BY <1>2 DEF AppendEntry
  <2>2. Shape'
    BY <1>0, <2>1, AppendNodeShape
  <2> QED BY <1>0, <1>2, <2>2 DEF IInv, AppendEntry, CopyTypes
<1>e. ASSUME NEW c \in Colls, head[c] # NULL
      PROVE  /\ 1 \in 1..Len(live[c]) /\ Len(live[c]) \in 1..Len(live[c])
             /\ head[c] = live[c][1] /\ tail[c] = live[c][Len(live[c])]
  <2>1. live[c] \in Seq(Nodes) /\ head[c] = First(live[c]) /\ tail[c] = Final(live[c])
    BY <1>0, ShapeOf
  <2>2. Len(live[c]) \in Nat /\ Len(live[c]) # 0
    BY <1>e, <2>1, EndsOfSeq
  <2> QED BY <2>1, <2>2, EndsOfSeq
<1>3. ASSUME NEW c \in Colls, PopHead(c)
      PROVE  IInv'
  <2>1. 1 \in 1..Len(live[c]) /\ RemoveNode(c, live[c][1], 1)
    BY <1>3, <1>e DEF PopHead
  <2>2. Shape'
    BY <1>0, <2>1, RemoveNodeShape
  <2> QED BY <1>0, <1>3, <2>2 DEF IInv, PopHead, CopyTypes
<1>4. ASSUME NEW c \in Colls, PopTail(c)
      PROVE  IInv'
  <2>1. /\ Len(live[c]) \in 1..Len(live[c])
        /\ RemoveNode(c, live[c][Len(live[c])], Len(live[c]))
    BY <1>4, <1>e DEF PopTail
  <2>2. Shape'
    BY <1>0, <2>1, RemoveNodeShape
  <2> QED BY <1>0, <1>4, <2>2 DEF IInv, PopTail, CopyTypes
<1>5. ASSUME NEW c \in Colls, Remove(c)
      PROVE  IInv'
  <2>1. PICK k \in 1..Len(live[c]) : RemoveNode(c, live[c][k], k)
    BY <1>5 DEF Remove
  <2>2. Shape'
    BY <1>0, <2>1, RemoveNodeShape
  <2> QED BY <1>0, <1>5, <2>2 DEF IInv, Remove, CopyTypes
<1>6. ASSUME NEW c \in Colls, Reset(c)
      PROVE  IInv'
  <2>1. Shape'
    BY <1>0, <1>6, ResetListShape DEF Reset
  <2> QED BY <1>0, <1>6, <2>1 DEF IInv, Reset, CopyTypes
<1>7. ASSUME NEW dst \in Colls, NEW src \in Colls, CopyBegin(dst, src)
      PROVE  IInv'
  <2>1. Shape'
    BY <1>0, <1>7, ResetListShape DEF CopyBegin
  <2>2. head[src] \in NodeOrNull
    BY <1>0 DEF Shape, ListTypes
  <2> QED BY <1>7, <2>1, <2>2 DEF IInv, CopyBegin, CopyTypes
<1>c. ASSUME copying.pc = "copy"
      PROVE  /\ copying \in [pc : {"copy"}, dst : Colls, src : Colls, srcnode : NodeOrNull]
             /\ copying.dst \in Colls
             /\ copying.srcnode # NULL => copying.srcnode \in Nodes
  BY <1>0, <1>c DEF CopyTypes, Idle, Crashed, NodeOrNull
<1>8. ASSUME CopyStep
      PROVE  IInv'
  <2>1. PICK n \in Nodes : /\ Allocates(copying.dst, n)
                           /\ AppendNode(copying.dst, n, data[copying.srcnode])
    BY <1>8 DEF CopyStep
  <2>2. copying.srcnode \in Nodes
    BY <1>8, <1>c DEF CopyStep
  <2>3. data[copying.srcnode] \in Vals \cup {NULL} /\ next[copying.srcnode] \in NodeOrNull
    BY <1>0, <2>2 DEF Shape, ListTypes
  <2>4. Shape'
    BY <1>0, <1>8, <1>c, <2>1, <2>3, AppendNodeShape DEF CopyStep
  <2>5. CopyTypes'
    BY <1>8, <1>c, <2>3 DEF CopyStep, CopyTypes
  <2> QED BY <2>4, <2>5 DEF IInv
<1>9. ASSUME CopyFails
      PROVE  IInv'
  <2>1. PICK n \in Nodes, v \in Vals \cup {NULL} :
          Allocates(copying.dst, n) /\ AppendNode(copying.dst, n, v)
    BY <1>9 DEF CopyFails
  <2>2. Shape'
    BY <1>0, <1>9, <1>c, <2>1, AppendNodeShape DEF CopyFails
  <2> QED BY <1>9, <2>2 DEF IInv, CopyFails, CopyTypes
<1>u. ASSUME UNCHANGED <<ptrs, data, owner, live, free>>
      PROVE  Shape'
  <2>1. /\ UNCHANGED head /\ UNCHANGED tail /\ UNCHANGED count /\ UNCHANGED freelist
        /\ UNCHANGED next /\ UNCHANGED prev /\ UNCHANGED data /\ UNCHANGED owner
        /\ UNCHANGED live /\ UNCHANGED free
    BY <1>u DEF ptrs
  <2>2. ListTypes'
    BY <1>0, <2>1 DEF Shape, ListTypes
  <2>3. \A d \in Colls : LinkedList(d)' /\ FreeChain(d)' /\ Placed(d)'
    BY <1>0, <2>1, Undisturbed
  <2> QED BY <2>2, <2>3 DEF Shape, Linked, FreeListSound
<1>10. ASSUME CopyOutOfMemory \/ CopyEnd
       PROVE  IInv'
  <2>1. Shape'
    BY <1>10, <1>u DEF CopyOutOfMemory, CopyEnd
  <2> QED BY <1>10, <2>1 DEF IInv, CopyOutOfMemory, CopyEnd, CopyTypes
<1>11. ASSUME UNCHANGED vars
       PROVE  IInv'
  <2>1. UNCHANGED <<ptrs, data, owner, live, free>> /\ UNCHANGED copying
    BY <1>11 DEF vars
  <2>2. Shape'
    BY <1>u, <2>1
  <2> QED BY <1>0, <2>1, <2>2 DEF IInv, CopyTypes
<1> QED BY <1>1, <1>2, <1>3, <1>4, <1>5, <1>6, <1>7, <1>8, <1>9, <1>10, <1>11 DEF Next

(* Every reachable state satisfies the inductive invariant. *)
THEOREM Invariant == Spec => []IInv
BY InitInvariant, NextInvariant, PTL DEF Spec

(* Every variable keeps its type; no count goes below zero, which is what   *)
(* the ASSERT of _ion_collection_remove_node_helper tests.                  *)
THEOREM TypeCorrect == Spec => []TypeOK
<1>1. IInv => TypeOK
  BY DEF IInv, Shape, TypeOK
<1> QED BY <1>1, Invariant, PTL

(* The forward links, the backward links, the two ends and the count of     *)
(* every collection always describe one and the same list.                  *)
THEOREM LinkedCorrect == Spec => []Linked
<1>1. IInv => Linked
  BY DEF IInv, Shape
<1> QED BY <1>1, Invariant, PTL

(* The allocation helper never hands out a node that is still in a list.    *)
THEOREM FreeListCorrect == Spec => []FreeListSound
<1>1. IInv => FreeListSound
  BY DEF IInv, Shape
<1> QED BY <1>1, Invariant, PTL

-----------------------------------------------------------------------------
(* What the lists hold.                                                    *)

(* No call but the append that is being made moves or changes an entry: the *)
(* entries of a list that a step leaves alone are what they were.           *)
LEMMA ContentsStay ==
  ASSUME NEW d \in Colls, live'[d] = live[d],
         \A n \in Items(live[d]) : data'[n] = data[n]
  PROVE  Contents(d)' = Contents(d)
<1>1. \A i \in 1..Len(live[d]) : data'[live[d][i]] = data[live[d][i]]
  BY DEF Items
<1> QED BY <1>1 DEF Contents

(* The node that is put in a list was in none, and the one that is taken   *)
(* out keeps its data.                                                     *)
LEMMA PushNodeData ==
  ASSUME Shape, NEW c \in Colls, NEW n \in Nodes, NEW v \in Vals \cup {NULL},
         Allocates(c, n), PushNode(c, n, v)
  PROVE  /\ \A d \in Colls : n \notin Items(live[d])
         /\ live' = [live EXCEPT ![c] = Prepend(n, @)]
         /\ data' = [data EXCEPT ![n] = v]
<1>1. TakeNode(c, n)
  BY DEF PushNode
<1> QED BY <1>1, AllocatedNode DEF PushNode

LEMMA AppendNodeData ==
  ASSUME Shape, NEW c \in Colls, NEW n \in Nodes, NEW v \in Vals \cup {NULL},
         Allocates(c, n), AppendNode(c, n, v)
  PROVE  /\ \A d \in Colls : n \notin Items(live[d])
         /\ live' = [live EXCEPT ![c] = Extend(@, n)]
         /\ data' = [data EXCEPT ![n] = v]
<1>1. TakeNode(c, n)
  BY DEF AppendNode
<1> QED BY <1>1, AllocatedNode DEF AppendNode

(* The lists, as the deques they implement. *)
Lists == [c \in Colls |-> Contents(c)]

(* Pushing an entry puts its value before the others. *)
LEMMA PushNodeList ==
  ASSUME Shape, NEW c \in Colls, NEW n \in Nodes, NEW v \in Vals \cup {NULL},
         Allocates(c, n), PushNode(c, n, v)
  PROVE  Lists' = [Lists EXCEPT ![c] = <<v>> \o @]
<1>0. /\ \A d \in Colls : n \notin Items(live[d])
      /\ live' = [live EXCEPT ![c] = Prepend(n, @)]
      /\ data' = [data EXCEPT ![n] = v]
  BY PushNodeData
<1>1. ListTypes
  BY DEF Shape
<1>2. \A d \in Colls : d # c => Contents(d)' = Contents(d)
  <2> SUFFICES ASSUME NEW d \in Colls, d # c PROVE Contents(d)' = Contents(d)
    OBVIOUS
  <2>1. live'[d] = live[d]
    BY <1>0, <1>1 DEF ListTypes
  <2>2. \A m \in Items(live[d]) : data'[m] = data[m]
    <3>1. Items(live[d]) \subseteq Nodes
      BY ShapeOf
    <3> QED BY <3>1, <1>0, <1>1 DEF ListTypes
  <2> QED BY <2>1, <2>2, ContentsStay
<1>3. Contents(c)' = <<v>> \o Contents(c)
  <2> DEFINE s == live[c]
  <2>1. s \in Seq(Nodes) /\ Len(s) \in Nat
    BY <1>1 DEF ListTypes
  <2>2. live'[c] = Prepend(n, s)
    BY <1>0, <1>1 DEF ListTypes
  <2> HIDE DEF s
  <2>p. /\ Len(Prepend(n, s)) = Len(s) + 1
        /\ \A i \in 1..(Len(s) + 1) : Prepend(n, s)[i] = IF i = 1 THEN n ELSE s[i - 1]
    <3>1. Len(Prepend(n, s)) = Len(s) + 1
      BY <2>1, PrependFacts
    <3>2. \A i \in 1..(Len(s) + 1) : Prepend(n, s)[i] = IF i = 1 THEN n ELSE s[i - 1]
      BY <2>1, PrependFacts, ZenonT(60)
    <3> QED BY <3>1, <3>2
  <2>3. /\ Len(live'[c]) = Len(s) + 1
        /\ \A i \in 1..(Len(s) + 1) : live'[c][i] = IF i = 1 THEN n ELSE s[i - 1]
    BY <2>2, <2>p
  <2>4. \A i \in 1..Len(s) : s[i] \in Nodes /\ s[i] # n
    BY <2>1, <1>0 DEF Items, s
  <2>5. data'[n] = v /\ \A m \in Nodes : m # n => data'[m] = data[m]
    BY <1>0, <1>1 DEF ListTypes
  <2>6. \A i \in 1..(Len(s) + 1) : i # 1 => i - 1 \in 1..Len(s)
    BY <2>1
  <2>7. \A i \in 1..(Len(s) + 1) :
          data'[live'[c][i]] = IF i = 1 THEN v ELSE data[s[i - 1]]
    BY <2>3, <2>4, <2>5, <2>6
  <2>8. Contents(c)' = [i \in 1..(Len(s) + 1) |-> data'[live'[c][i]]]
    BY <2>3 DEF Contents
  <2>9. <<v>> \o Contents(c) = [i \in 1..(Len(s) + 1) |-> IF i = 1 THEN v ELSE data[s[i - 1]]]
    BY <2>1 DEF Contents, s
  <2> QED BY <2>7, <2>8, <2>9
<1> QED BY <1>2, <1>3 DEF Lists

(* Appending one puts its value behind the others. *)
LEMMA AppendNodeList ==
  ASSUME Shape, NEW c \in Colls, NEW n \in Nodes, NEW v \in Vals \cup {NULL},
         Allocates(c, n), AppendNode(c, n, v)
  PROVE  Lists' = [Lists EXCEPT ![c] = Append(@, v)]
<1>0. /\ \A d \in Colls : n \notin Items(live[d])
      /\ live' = [live EXCEPT ![c] = Extend(@, n)]
      /\ data' = [data EXCEPT ![n] = v]
  BY AppendNodeData
<1>1. ListTypes
  BY DEF Shape
<1>2. \A d \in Colls : d # c => Contents(d)' = Contents(d)
  <2> SUFFICES ASSUME NEW d \in Colls, d # c PROVE Contents(d)' = Contents(d)
    OBVIOUS
  <2>1. live'[d] = live[d]
    BY <1>0, <1>1 DEF ListTypes
  <2>2. \A m \in Items(live[d]) : data'[m] = data[m]
    <3>1. Items(live[d]) \subseteq Nodes
      BY ShapeOf
    <3> QED BY <3>1, <1>0, <1>1 DEF ListTypes
  <2> QED BY <2>1, <2>2, ContentsStay
<1>3. Contents(c)' = Append(Contents(c), v)
  <2> DEFINE s == live[c]
  <2>1. s \in Seq(Nodes) /\ Len(s) \in Nat
    BY <1>1 DEF ListTypes
  <2>2. live'[c] = Extend(s, n)
    BY <1>0, <1>1 DEF ListTypes
  <2> HIDE DEF s
  <2>p. /\ Len(Extend(s, n)) = Len(s) + 1
        /\ \A i \in 1..(Len(s) + 1) : Extend(s, n)[i] = IF i = Len(s) + 1 THEN n ELSE s[i]
    <3>1. Len(Extend(s, n)) = Len(s) + 1
      BY <2>1, ExtendFacts
    <3>2. \A i \in 1..(Len(s) + 1) : Extend(s, n)[i] = IF i = Len(s) + 1 THEN n ELSE s[i]
      BY <2>1, ExtendFacts, ZenonT(60)
    <3> QED BY <3>1, <3>2
  <2>3. /\ Len(live'[c]) = Len(s) + 1
        /\ \A i \in 1..(Len(s) + 1) : live'[c][i] = IF i = Len(s) + 1 THEN n ELSE s[i]
    BY <2>2, <2>p
  <2>4. \A i \in 1..Len(s) : s[i] \in Nodes /\ s[i] # n
    BY <2>1, <1>0 DEF Items, s
  <2>5. data'[n] = v /\ \A m \in Nodes : m # n => data'[m] = data[m]
    BY <1>0, <1>1 DEF ListTypes
  <2>6. \A i \in 1..(Len(s) + 1) : i # Len(s) + 1 => i \in 1..Len(s)
    BY <2>1
  <2>7. \A i \in 1..(Len(s) + 1) :
          data'[live'[c][i]] = IF i = Len(s) + 1 THEN v ELSE data[s[i]]
    BY <2>3, <2>4, <2>5, <2>6
  <2>8. Contents(c)' = [i \in 1..(Len(s) + 1) |-> data'[live'[c][i]]]
    BY <2>3 DEF Contents
  <2>9. Append(Contents(c), v) =
          [i \in 1..(Len(s) + 1) |-> IF i = Len(s) + 1 THEN v ELSE data[s[i]]]
    BY <2>1 DEF Contents, s
  <2> QED BY <2>7, <2>8, <2>9
<1> QED BY <1>2, <1>3 DEF Lists

(* RemoveAt of the sequences module drops the k-th element, as Without does. *)
LEMMA RemoveAtIsWithout ==
  ASSUME NEW S, NEW t \in Seq(S), NEW k \in 1..Len(t)
  PROVE  Deque!RemoveAt(t, k) = Without(t, k)
<1> DEFINE a == SubSeq(t, 1, k - 1)
           b == SubSeq(t, k + 1, Len(t))
           n == Len(t)
<1>0. n \in Nat /\ k \in 1..n /\ n - k \in Nat /\ k - 1 \in Nat
  OBVIOUS
<1>1. a \in Seq(S) /\ Len(a) = k - 1 /\ \A i \in 1..(k - 1) : a[i] = t[i]
  BY <1>0
<1>2. b \in Seq(S) /\ Len(b) = n - k /\ \A i \in 1..(n - k) : b[i] = t[k + i]
  BY <1>0
<1>3. Deque!RemoveAt(t, k) = a \o b
  BY DEF Deque!RemoveAt
<1> HIDE DEF a, b, n
<1>4. a \o b = [i \in 1..(Len(a) + Len(b)) |-> IF i <= Len(a) THEN a[i] ELSE b[i - Len(a)]]
  <2>1. a \in Seq(S) /\ b \in Seq(S)
    BY <1>1, <1>2
  <2>2. /\ a \o b \in Seq(S) /\ Len(a \o b) = Len(a) + Len(b)
        /\ \A i \in 1..(Len(a) + Len(b)) :
             (a \o b)[i] = IF i <= Len(a) THEN a[i] ELSE b[i - Len(a)]
    BY <2>1
  <2> DEFINE q == a \o b
  <2> HIDE DEF q
  <2>3. q \in Seq(S) => q = [i \in 1..Len(q) |-> q[i]]
    OBVIOUS
  <2> QED BY <2>2, <2>3 DEF q
<1>5. Len(a) + Len(b) = n - 1
  BY <1>0, <1>1, <1>2
<1>6. \A i \in 1..(n - 1) : (IF i <= Len(a) THEN a[i] ELSE b[i - Len(a)])
                             = IF i < k THEN t[i] ELSE t[i + 1]
  <2> SUFFICES ASSUME NEW i \in 1..(n - 1)
               PROVE  (IF i <= Len(a) THEN a[i] ELSE b[i - Len(a)])
                      = IF i < k THEN t[i] ELSE t[i + 1]
    OBVIOUS
  <2>1. CASE i < k
    <3>1. i \in 1..(k - 1) /\ i <= Len(a)
      BY <1>0, <1>1, <2>1
    <3> QED BY <1>1, <2>1, <3>1
  <2>2. CASE ~(i < k)
    <3>1. i - (k - 1) \in 1..(n - k) /\ ~(i <= Len(a)) /\ k + (i - (k - 1)) = i + 1
      BY <1>0, <1>1, <2>2
    <3> QED BY <1>1, <1>2, <2>2, <3>1
  <2> QED BY <2>1, <2>2
<1>7. Without(t, k) = [i \in 1..(n - 1) |-> IF i < k THEN t[i] ELSE t[i + 1]]
  BY DEF Without, n
<1> QED BY <1>3, <1>4, <1>5, <1>6, <1>7

(* Removing the k-th removes the k-th value. *)
LEMMA RemoveNodeList ==
  ASSUME Shape, NEW c \in Colls, NEW k \in 1..Len(live[c]),
         RemoveNode(c, live[c][k], k)
  PROVE  Lists' = [Lists EXCEPT ![c] = Deque!RemoveAt(@, k)]
<1>1. ListTypes
  BY DEF Shape
<1>0. live' = [live EXCEPT ![c] = Without(@, k)] /\ data' = data
  BY DEF RemoveNode, FreeNode
<1>2. \A d \in Colls : d # c => Contents(d)' = Contents(d)
  <2> SUFFICES ASSUME NEW d \in Colls, d # c PROVE Contents(d)' = Contents(d)
    OBVIOUS
  <2>1. live'[d] = live[d]
    BY <1>0, <1>1 DEF ListTypes
  <2> QED BY <2>1, <1>0, ContentsStay
<1>3. Contents(c)' = Deque!RemoveAt(Contents(c), k)
  <2> DEFINE s == live[c]
             t == Contents(c)
  <2>1. s \in Seq(Nodes) /\ Len(s) \in Nat /\ k \in 1..Len(s)
    BY <1>1 DEF ListTypes
  <2>2. live'[c] = Without(s, k)
    BY <1>0, <1>1 DEF ListTypes
  <2>p. /\ Len(Without(s, k)) = Len(s) - 1
        /\ \A i \in 1..(Len(s) - 1) : Without(s, k)[i] = IF i < k THEN s[i] ELSE s[i + 1]
    BY <2>1, WithoutFacts
  <2>3. Contents(c)' = [i \in 1..(Len(s) - 1) |-> IF i < k THEN data[s[i]] ELSE data[s[i + 1]]]
    BY <2>2, <2>p, <1>0 DEF Contents
  <2>4. data \in [Nodes -> Vals \cup {NULL}] /\ \A i \in 1..Len(s) : s[i] \in Nodes
    BY <1>1, <2>1 DEF ListTypes
  <2>5. t \in Seq(Vals \cup {NULL}) /\ Len(t) = Len(s) /\ \A i \in 1..Len(s) : t[i] = data[s[i]]
    BY <2>1, <2>4 DEF Contents
  <2>6. Deque!RemoveAt(t, k) = Without(t, k)
    <3> HIDE DEF t
    <3> QED BY <2>1, <2>5, RemoveAtIsWithout
  <2>7. \A i \in 1..(Len(s) - 1) : i \in 1..Len(s) /\ i + 1 \in 1..Len(s)
    BY <2>1
  <2>8. Without(t, k) = [i \in 1..(Len(s) - 1) |-> IF i < k THEN data[s[i]] ELSE data[s[i + 1]]]
    <3> HIDE DEF t
    <3> QED BY <2>5, <2>7 DEF Without
  <2> QED BY <2>3, <2>6, <2>8
<1> QED BY <1>2, <1>3 DEF Lists

(* Resetting a list empties it, also when it was empty. *)
LEMMA ResetListList ==
  ASSUME Shape, NEW c \in Colls, ResetList(c)
  PROVE  Lists' = [Lists EXCEPT ![c] = <<>>]
<1>1. ListTypes
  BY DEF Shape
<1>2. live' = [live EXCEPT ![c] = <<>>] /\ data' = data
  <2>1. CASE head[c] = NULL
    <3>1. live[c] = <<>>
      BY <2>1, ShapeOf, EndsOfSeq
    <3> QED BY <2>1, <3>1, <1>1 DEF ResetList, ListTypes
  <2>2. CASE head[c] # NULL
    BY <2>2 DEF ResetList
  <2> QED BY <2>1, <2>2
<1>3. \A d \in Colls : d # c => Contents(d)' = Contents(d)
  <2> SUFFICES ASSUME NEW d \in Colls, d # c PROVE Contents(d)' = Contents(d)
    OBVIOUS
  <2>1. live'[d] = live[d]
    BY <1>2, <1>1 DEF ListTypes
  <2> QED BY <2>1, <1>2, ContentsStay
<1>4. Contents(c)' = <<>>
  <2>1. live'[c] = <<>>
    BY <1>1, <1>2 DEF ListTypes
  <2> QED BY <2>1 DEF Contents
<1> QED BY <1>3, <1>4 DEF Lists

(* What a step does to the lists: an entry is put at an end of one, taken   *)
(* out of one, all of one are, or nothing happens.                          *)
Puts(c) ==
  \E n \in Nodes, v \in Vals \cup {NULL} :
    Allocates(c, n) /\ (PushNode(c, n, v) \/ AppendNode(c, n, v))
Takes(c) == \E k \in 1..Len(live[c]) : RemoveNode(c, live[c][k], k)
Rests == live' = live /\ data' = data

LEMMA StepKinds ==
  ASSUME IInv, [Next]_vars
  PROVE  Rests \/ \E c \in Colls : Puts(c) \/ Takes(c) \/ ResetList(c)
<1> DEFINE Kinds(c) == Puts(c) \/ Takes(c) \/ ResetList(c)
<1>0. Shape /\ CopyTypes /\ ListTypes
  BY DEF IInv, Shape
<1>1. ASSUME NEW c \in Colls, Push(c) \/ AppendEntry(c) PROVE Kinds(c)
  BY <1>1 DEF Push, AppendEntry, Puts
<1>2. ASSUME NEW c \in Colls, PopHead(c) \/ PopTail(c) \/ Remove(c) PROVE Kinds(c)
  <2>1. CASE Remove(c)
    BY <2>1 DEF Remove, Takes
  <2>2. ASSUME head[c] # NULL
        PROVE  /\ 1 \in 1..Len(live[c]) /\ Len(live[c]) \in 1..Len(live[c])
               /\ head[c] = live[c][1] /\ tail[c] = live[c][Len(live[c])]
    <3>1. live[c] \in Seq(Nodes) /\ head[c] = First(live[c]) /\ tail[c] = Final(live[c])
      BY <1>0, ShapeOf
    <3>2. Len(live[c]) \in Nat /\ Len(live[c]) # 0
      BY <2>2, <3>1, EndsOfSeq
    <3> QED BY <3>1, <3>2, EndsOfSeq
  <2>3. CASE PopHead(c) \/ PopTail(c)
    BY <2>2, <2>3 DEF PopHead, PopTail, Takes
  <2> QED BY <1>2, <2>1, <2>3
<1>3. ASSUME NEW c \in Colls, Reset(c) PROVE Kinds(c)
  BY <1>3 DEF Reset
<1>4. ASSUME NEW dst \in Colls, NEW src \in Colls, CopyBegin(dst, src) PROVE Kinds(dst)
  BY <1>4 DEF CopyBegin
<1>5. ASSUME CopyStep \/ CopyFails PROVE copying.dst \in Colls /\ Kinds(copying.dst)
  <2>1. copying.pc = "copy" /\ copying.srcnode # NULL
    BY <1>5 DEF CopyStep, CopyFails
  <2>2. copying \in [pc : {"copy"}, dst : Colls, src : Colls, srcnode : NodeOrNull]
    BY <1>0, <2>1 DEF CopyTypes, Idle, Crashed
  <2>3. copying.dst \in Colls /\ copying.srcnode \in Nodes
    BY <2>1, <2>2 DEF NodeOrNull
  <2>4. data[copying.srcnode] \in Vals \cup {NULL}
    BY <1>0, <2>3 DEF ListTypes
  <2> QED BY <1>5, <2>3, <2>4 DEF CopyStep, CopyFails, Puts
<1>6. ASSUME CopyOutOfMemory \/ CopyEnd \/ UNCHANGED vars PROVE Rests
  BY <1>6 DEF CopyOutOfMemory, CopyEnd, vars, Rests
<1> QED BY <1>1, <1>2, <1>3, <1>4, <1>5, <1>6 DEF Next

(* Of each of these the deque has a step. *)
LEMMA ListsStep ==
  ASSUME IInv, [Next]_vars
  PROVE  [Deque!Next]_Lists
<1>0. Shape /\ ListTypes
  BY DEF IInv, Shape
<1>1. ASSUME NEW c \in Colls, Puts(c)
      PROVE  Deque!PushFirst(c) \/ Deque!PushLast(c)
  <2>1. PICK n \in Nodes, v \in Vals \cup {NULL} :
          Allocates(c, n) /\ (PushNode(c, n, v) \/ AppendNode(c, n, v))
    BY <1>1 DEF Puts
  <2>2. CASE PushNode(c, n, v)
    <3>1. Lists' = [Lists EXCEPT ![c] = <<v>> \o @]
      BY <1>0, <2>1, <2>2, PushNodeList
    <3> QED BY <3>1 DEF Deque!PushFirst, Lists
  <2>3. CASE AppendNode(c, n, v)
    <3>1. Lists' = [Lists EXCEPT ![c] = Append(@, v)]
      BY <1>0, <2>1, <2>3, AppendNodeList
    <3> QED BY <3>1 DEF Deque!PushLast, Lists
  <2> QED BY <2>1, <2>2, <2>3
<1>2. ASSUME NEW c \in Colls, Takes(c)
      PROVE  Deque!RemoveAny(c)
  <2>1. PICK k \in 1..Len(live[c]) : RemoveNode(c, live[c][k], k)
    BY <1>2 DEF Takes
  <2>2. Lists' = [Lists EXCEPT ![c] = Deque!RemoveAt(@, k)]
    BY <1>0, <2>1, RemoveNodeList
  <2>3. live[c] \in Seq(Nodes) /\ Len(live[c]) \in Nat
    BY <1>0 DEF ListTypes
  <2>4. Len(Lists[c]) = Len(live[c])
    BY <2>3 DEF Lists, Contents
  <2> QED BY <2>2, <2>4 DEF Deque!RemoveAny, Lists
<1>3. ASSUME NEW c \in Colls, ResetList(c)
      PROVE  Deque!Clear(c)
  <2>1. Lists' = [Lists EXCEPT ![c] = <<>>]
    BY <1>0, <1>3, ResetListList
  <2> QED BY <2>1 DEF Deque!Clear, Lists
<1>4. ASSUME Rests PROVE Lists' = Lists
  BY <1>4 DEF Rests, Lists, Contents
<1> QED BY <1>1, <1>2, <1>3, <1>4, StepKinds DEF Deque!Next

(* The linked nodes implement the deque, whatever was removed, recycled,    *)
(* reset or copied in between.                                              *)
THEOREM CollectionIsDeque == Spec => ImplementsDeque
<1>1. Init => Deque!Init
  BY DEF Init, Deque!Init, Contents
<1>2. IInv /\ [Next]_vars => [Deque!Next]_Lists
  BY ListsStep
<1>3. IInv /\ [Next]_vars => [Deque!Next]_[c \in Colls |-> Contents(c)]
  BY <1>2 DEF Lists
<1> QED BY <1>1, <1>3, Invariant, PTL DEF Spec, ImplementsDeque, Deque!Spec

(* Data changes only in the node that is put in a list: a released entry    *)
(* keeps its data until then, and a list's entries keep theirs.             *)
THEOREM EntriesKept == Spec => EntriesStable
<1>1. ASSUME IInv, [Next]_vars PROVE DataStays
  <2>0. Shape /\ ListTypes
    BY <1>1 DEF IInv, Shape
  <2>1. ASSUME NEW c \in Colls, NEW n \in Nodes, NEW v \in Vals \cup {NULL},
               Allocates(c, n), PushNode(c, n, v)
        PROVE  DataStays
    <3>1. /\ n \notin Items(live[c]) /\ live' = [live EXCEPT ![c] = Prepend(n, @)]
          /\ data' = [data EXCEPT ![n] = v]
      BY <2>0, <2>1, PushNodeData
    <3> DEFINE s == live[c]
    <3>2. s \in Seq(Nodes) /\ live'[c] = Prepend(n, s)
      BY <2>0, <3>1 DEF ListTypes
    <3>3. Len(Prepend(n, s)) = Len(s) + 1 /\ n \in Items(Prepend(n, s))
      <4> HIDE DEF s
      <4>1. Len(Prepend(n, s)) = Len(s) + 1
        BY <3>2, PrependFacts
      <4>2. Items(Prepend(n, s)) = Items(s) \cup {n}
        BY <3>2, PrependItems
      <4> QED BY <4>1, <4>2
    <3>4. \A m \in Nodes : m # n => data'[m] = data[m]
      BY <2>0, <3>1 DEF ListTypes
    <3> QED BY <3>1, <3>2, <3>3, <3>4 DEF DataStays
  <2>2. ASSUME NEW c \in Colls, NEW n \in Nodes, NEW v \in Vals \cup {NULL},
               Allocates(c, n), AppendNode(c, n, v)
        PROVE  DataStays
    <3>1. /\ n \notin Items(live[c]) /\ live' = [live EXCEPT ![c] = Extend(@, n)]
          /\ data' = [data EXCEPT ![n] = v]
      BY <2>0, <2>2, AppendNodeData
    <3> DEFINE s == live[c]
    <3>2. s \in Seq(Nodes) /\ live'[c] = Extend(s, n)
      BY <2>0, <3>1 DEF ListTypes
    <3>3. Len(Extend(s, n)) = Len(s) + 1 /\ n \in Items(Extend(s, n))
      <4> HIDE DEF s
      <4>1. Len(Extend(s, n)) = Len(s) + 1
        BY <3>2, ExtendFacts
      <4>2. Items(Extend(s, n)) = Items(s) \cup {n}
        BY <3>2, ExtendItems
      <4> QED BY <4>1, <4>2
    <3>4. \A m \in Nodes : m # n => data'[m] = data[m]
      BY <2>0, <3>1 DEF ListTypes
    <3> QED BY <3>1, <3>2, <3>3, <3>4 DEF DataStays
  <2>3. ASSUME data' = data PROVE DataStays
    BY <2>3 DEF DataStays
  <2>4. ASSUME NEW c \in Colls, Takes(c) \/ ResetList(c) PROVE data' = data
    BY <2>4 DEF Takes, RemoveNode, FreeNode, ResetList
  <2> QED BY <1>1, <2>1, <2>2, <2>3, <2>4, StepKinds DEF Puts, Rests
<1>2. IInv /\ [Next]_vars => [DataStays]_vars
  BY <1>1
<1> QED BY <1>2, Invariant, PTL DEF Spec, EntriesStable

(* A copy in progress: the destination has the values of the source up to   *)
(* the source's node, which is the next to be copied.                       *)
CopyAt(nodes, values, d, r, node) ==
  /\ d # r /\ Len(nodes[d]) <= Len(nodes[r])
  /\ \A i \in 1..Len(nodes[d]) : values[d][i] = values[r][i]
  /\ node = IF Len(nodes[d]) = Len(nodes[r]) THEN NULL ELSE nodes[r][Len(nodes[d]) + 1]

CopyInv ==
  copying.pc = "copy" =>
    CopyAt(live, Lists, copying.dst, copying.src, copying.srcnode)

LEMMA CopyStepInv ==
  ASSUME IInv, CopyInv, CopyStep
  PROVE  CopyInv'
<1> DEFINE d == copying.dst
           r == copying.src
           n == Len(live[d])
           m == Len(live[r])
           v == data[copying.srcnode]
<1>0. Shape /\ CopyTypes /\ ListTypes /\ copying.pc = "copy" /\ copying.srcnode # NULL
  BY DEF IInv, Shape, CopyStep
<1>1. copying \in [pc : {"copy"}, dst : Colls, src : Colls, srcnode : NodeOrNull]
  BY <1>0 DEF CopyTypes, Idle, Crashed
<1>2. /\ d \in Colls /\ r \in Colls /\ copying.srcnode \in Nodes
      /\ copying' = [copying EXCEPT !.srcnode = next[@]]
  BY <1>0, <1>1 DEF NodeOrNull, CopyStep
<1>3. CopyAt(live, Lists, d, r, copying.srcnode)
  BY <1>0 DEF CopyInv
<1>4. /\ live[d] \in Seq(Nodes) /\ live[r] \in Seq(Nodes) /\ n \in Nat /\ m \in Nat
      /\ Chain(next, live[r]) /\ v \in Vals \cup {NULL}
  BY <1>0, <1>2, ShapeOf DEF ListTypes
<1>5. /\ d # r /\ n < m /\ n + 1 \in 1..m /\ copying.srcnode = live[r][n + 1]
      /\ \A i \in 1..n : Lists[d][i] = Lists[r][i]
  BY <1>0, <1>3, <1>4 DEF CopyAt
<1>6. next[copying.srcnode] = IF n + 1 = m THEN NULL ELSE live[r][n + 2]
  BY <1>4, <1>5, SMTT(30) DEF Chain
<1>7. PICK k \in Nodes : Allocates(d, k) /\ AppendNode(d, k, v)
  BY DEF CopyStep
<1>8. live' = [live EXCEPT ![d] = Extend(@, k)] /\ Lists' = [Lists EXCEPT ![d] = Append(@, v)]
  BY <1>0, <1>2, <1>4, <1>7, AppendNodeData, AppendNodeList
<1>9. live'[r] = live[r] /\ Len(live'[d]) = n + 1
  <2>1. live'[r] = live[r] /\ live'[d] = Extend(live[d], k)
    BY <1>0, <1>2, <1>5, <1>8 DEF ListTypes
  <2> QED BY <1>4, <2>1 DEF Extend
<1>10. /\ Lists[d] \in Seq(Vals \cup {NULL}) /\ Len(Lists[d]) = n
       /\ Lists'[r] = Lists[r] /\ Lists'[d] = Append(Lists[d], v)
       /\ Lists[r][n + 1] = v
  <2>1. /\ Lists[d] = [i \in 1..n |-> data[live[d][i]]]
        /\ Lists[r] = [i \in 1..m |-> data[live[r][i]]]
    BY <1>2 DEF Lists, Contents
  <2>2. \A i \in 1..n : data[live[d][i]] \in Vals \cup {NULL}
    BY <1>0, <1>4 DEF ListTypes
  <2>3. Lists[d] \in Seq(Vals \cup {NULL}) /\ Len(Lists[d]) = n
    BY <1>4, <2>1, <2>2
  <2>4. Lists[r][n + 1] = v
    BY <1>5, <2>1
  <2>5. Lists'[r] = Lists[r] /\ Lists'[d] = Append(Lists[d], v)
    BY <1>2, <1>5, <1>8 DEF Lists
  <2> QED BY <2>3, <2>4, <2>5
<1>11. \A i \in 1..(n + 1) : Lists'[d][i] = Lists'[r][i]
  <2>1. \A i \in 1..(n + 1) : Append(Lists[d], v)[i] = IF i = n + 1 THEN v ELSE Lists[d][i]
    BY <1>10, <1>4
  <2>2. \A i \in 1..(n + 1) : i # n + 1 => i \in 1..n
    BY <1>4
  <2> QED BY <1>5, <1>10, <2>1, <2>2
<1>12. copying'.dst = d /\ copying'.src = r /\ copying'.srcnode = next[copying.srcnode]
  BY <1>1, <1>2
<1>13. Len(live'[r]) = m /\ n + 1 <= m /\ (n + 1) + 1 = n + 2
  BY <1>4, <1>5, <1>9
<1> HIDE DEF n, m, d, r, v
<1>14. CopyAt(live', Lists', d, r, next[copying.srcnode])
  BY <1>4, <1>5, <1>6, <1>9, <1>11, <1>13 DEF CopyAt
<1> QED BY <1>12, <1>14 DEF CopyInv, d, r

LEMMA CopyNextInv ==
  ASSUME IInv, CopyInv, [Next]_vars
  PROVE  CopyInv'
<1>0. Shape /\ CopyTypes /\ ListTypes
  BY DEF IInv, Shape
<1>1. CASE CopyStep
  BY <1>1, CopyStepInv
<1>2. ASSUME NEW dst \in Colls, NEW src \in Colls, CopyBegin(dst, src)
      PROVE  CopyInv'
  <2>1. /\ dst # src /\ ResetList(dst)
        /\ copying' = [pc |-> "copy", dst |-> dst, src |-> src, srcnode |-> head[src]]
    BY <1>2 DEF CopyBegin
  <2>2. live' = [live EXCEPT ![dst] = <<>>]
    <3>1. CASE head[dst] = NULL
      <4>1. live[dst] = <<>>
        BY <1>0, <3>1, ShapeOf, EndsOfSeq
      <4> QED BY <1>0, <2>1, <3>1, <4>1 DEF ResetList, ListTypes
    <3>2. CASE head[dst] # NULL
      BY <2>1, <3>2 DEF ResetList
    <3> QED BY <3>1, <3>2
  <2>3. live'[dst] = <<>> /\ live'[src] = live[src]
    BY <1>0, <2>1, <2>2 DEF ListTypes
  <2>4. live[src] \in Seq(Nodes) /\ Len(live[src]) \in Nat /\ head[src] = First(live[src])
    BY <1>0, ShapeOf DEF ListTypes
  <2>5. head[src] = IF Len(live[src]) = 0 THEN NULL ELSE live[src][1]
    BY <2>4, EndsOfSeq
  <2>6. CopyAt(live', Lists', dst, src, head[src])
    <3>1. head[src] = IF 0 = Len(live'[src]) THEN NULL ELSE live'[src][0 + 1]
      BY <2>3, <2>5
    <3> QED BY <2>1, <2>3, <2>4, <3>1 DEF CopyAt
  <2> QED BY <2>1, <2>6 DEF CopyInv
<1>3. CASE UNCHANGED vars
  <2>1. live' = live /\ copying' = copying /\ Lists' = Lists
    BY <1>3 DEF vars, Lists, Contents
  <2> QED BY <2>1 DEF CopyInv
<1>4. ASSUME NEW c \in Colls,
             Push(c) \/ AppendEntry(c) \/ PopHead(c) \/ PopTail(c) \/ Remove(c) \/ Reset(c)
      PROVE  CopyInv'
  <2>1. copying' = copying /\ copying.pc = "idle"
    BY <1>4 DEF Push, AppendEntry, PopHead, PopTail, Remove, Reset, NotCopying
  <2> QED BY <2>1 DEF CopyInv
<1>5. CASE CopyFails \/ CopyOutOfMemory \/ CopyEnd
  BY <1>5 DEF CopyFails, CopyOutOfMemory, CopyEnd, CopyInv, Idle, Crashed
<1> QED BY <1>1, <1>2, <1>3, <1>4, <1>5 DEF Next

(* A copy that runs to its end leaves the destination with the values of    *)
(* the source, whatever nodes its free list had and wherever they come from.*)
THEOREM CopyCorrect == Spec => CopyComplete
<1> DEFINE Ended == copying.pc = "copy" /\ copying.srcnode = NULL /\ copying'.pc = "idle"
                      => Contents(copying.dst) = Contents(copying.src)
<1>1. Init => CopyInv
  BY DEF Init, CopyInv, Idle
<1>2. IInv /\ CopyInv /\ [Next]_vars => CopyInv'
  BY CopyNextInv
<1>3. ASSUME IInv, CopyInv, copying.pc = "copy", copying.srcnode = NULL
      PROVE  Contents(copying.dst) = Contents(copying.src)
  <2> DEFINE d == copying.dst
             r == copying.src
  <2>1. d \in Colls /\ r \in Colls /\ Shape
    BY <1>3 DEF IInv, CopyTypes, Idle, Crashed
  <2>2. CopyAt(live, Lists, d, r, NULL)
    BY <1>3 DEF CopyInv
  <2>3. /\ live[r] \in Seq(Nodes) /\ Len(live[r]) \in Nat
        /\ live[d] \in Seq(Nodes) /\ Len(live[d]) \in Nat
    BY <2>1 DEF Shape, ListTypes
  <2>4. Len(live[d]) = Len(live[r])
    <3>1. ASSUME Len(live[d]) # Len(live[r])
          PROVE  FALSE
      <4>1. Len(live[d]) + 1 \in 1..Len(live[r]) /\ live[r][Len(live[d]) + 1] = NULL
        BY <2>2, <2>3, <3>1 DEF CopyAt
      <4> QED BY <2>3, <4>1, NullAssumption
    <3> QED BY <3>1
  <2>5. \A i \in 1..Len(live[d]) : data[live[d][i]] = data[live[r][i]]
    <3>1. \A i \in 1..Len(live[d]) : Lists[d][i] = Lists[r][i]
      BY <2>2 DEF CopyAt
    <3> QED BY <2>1, <2>4, <3>1 DEF Lists, Contents
  <2> QED BY <2>4, <2>5 DEF Contents
<1>4. IInv /\ CopyInv /\ [Next]_vars => [Ended]_vars
  BY <1>3
<1> QED BY <1>1, <1>2, <1>4, Invariant, PTL DEF Spec, CopyComplete
=============================================================================
