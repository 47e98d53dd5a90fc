--------------------------- MODULE Restriction_proofs ---------------------------
(***************************************************************************)
(* Lemmas on positions of a sequence, cited for the dictionaries of        *)
(* AttemptLimiter and ThumbnailCache: counting them, initial segments, and *)
(* what Restricted is.                                                     *)
(***************************************************************************)
EXTENDS Restriction, FiniteSetTheorems, TLAPS

(* As many as they are.                                                    *)
LEMMA SizeUpTo ==
  ASSUME NEW m \in Nat
  PROVE  IsFiniteSet(1..m) /\ Cardinality(1..m) = m
BY FS_Interval

(* A set of positions that holds, with a position, all those before it is  *)
(* the first positions, as many as it has members.                         *)
LEMMA InitialSegment ==
  ASSUME NEW n \in Nat, NEW P \in SUBSET (1..n),
         \A i \in P : \A j \in 1..i : j \in P
  PROVE  Cardinality(P) \in 0..n /\ P = 1..Cardinality(P)
<1> DEFINE k == Cardinality(P)
<1>1. IsFiniteSet(P) /\ k \in Nat /\ k <= n
  <2>1. IsFiniteSet(1..n) /\ Cardinality(1..n) = n
    BY SizeUpTo
  <2>2. IsFiniteSet(P) /\ Cardinality(P) <= n
    BY <2>1, FS_Subset
  <2> QED
    BY <2>2, FS_CardinalityType
<1>2. \A i \in P : i <= k
  <2> TAKE i \in P
  <2>1. IsFiniteSet(1..i) /\ Cardinality(1..i) = i
    BY SizeUpTo
  <2>2. 1..i \in SUBSET P
    OBVIOUS
  <2> QED
    BY <1>1, <2>1, <2>2, FS_Subset
<1>3. \A i \in 1..k : i \in P
  <2> SUFFICES ASSUME NEW i \in 1..k, i \notin P
               PROVE  FALSE
    OBVIOUS
  <2>1. P \in SUBSET (1..(i - 1))
    <3> SUFFICES ASSUME NEW j \in P
                 PROVE  j \in 1..(i - 1)
      OBVIOUS
    <3>1. j \in 1..n /\ ~(i <= j)
      BY <1>1
    <3> QED
      BY <1>1, <3>1
  <2>2. IsFiniteSet(1..(i - 1)) /\ Cardinality(1..(i - 1)) = i - 1
    <3>1. i - 1 \in Nat
      BY <1>1
    <3> QED
      BY <3>1, SizeUpTo
  <2>3. Cardinality(P) <= Cardinality(1..(i - 1))
    BY <2>1, <2>2, FS_Subset, Zenon
  <2>4. k <= i - 1
    BY <2>2, <2>3
  <2> HIDE DEF k
  <2> QED
    BY <1>1, <2>4
<1> HIDE DEF k
<1>4. P = 1..k
  <2>1. \A i \in P : i \in 1..k
    BY <1>1, <1>2
  <2> QED
    BY <2>1, <1>3
<1> QED
  BY <1>1, <1>4 DEF k

(* The place of position i among those of P.                               *)
Place(P, i) == Cardinality({j \in P : j <= i})

(* Places number the positions of P in their order.                        *)
LEMMA Places ==
  ASSUME NEW n \in Nat, NEW P \in SUBSET (1..n)
  PROVE  /\ IsFiniteSet(P) /\ Cardinality(P) \in 0..n
         /\ \A i \in P : Place(P, i) \in 1..Cardinality(P)
         /\ \A i, j \in P : i < j => Place(P, i) < Place(P, j)
         /\ \A i, j \in P : Place(P, i) = Place(P, j) => i = j
         /\ \A k \in 1..Cardinality(P) : \E i \in P : Place(P, i) = k
<1> DEFINE m == Cardinality(P)
           Upto(i) == {j \in P : j <= i}
           At(i) == Place(P, i)
<1>1. \A i : At(i) = Cardinality(Upto(i))
  BY DEF Place
<1>2. IsFiniteSet(P) /\ m \in 0..n
  <2>1. IsFiniteSet(1..n) /\ Cardinality(1..n) = n
    BY SizeUpTo
  <2>2. IsFiniteSet(P) /\ Cardinality(P) <= Cardinality(1..n)
    BY <2>1, FS_Subset, Zenon
  <2>3. Cardinality(P) \in Nat
    BY <2>2, FS_CardinalityType
  <2> QED
    BY <2>1, <2>2, <2>3
<1> HIDE DEF At
<1>3. \A i \in P : IsFiniteSet(Upto(i)) /\ At(i) \in 1..m
  <2> TAKE i \in P
  <2>1. Upto(i) \in SUBSET P /\ i \in Upto(i)
    OBVIOUS
  <2> HIDE DEF Upto
  <2>2. IsFiniteSet(Upto(i)) /\ Cardinality(Upto(i)) <= Cardinality(P)
    BY <1>2, <2>1, FS_Subset, Zenon
  <2>3. Cardinality(Upto(i)) \in Nat /\ Cardinality(Upto(i)) # 0
    BY <2>1, <2>2, FS_CardinalityType, FS_EmptySet
  <2> QED
    BY <1>1, <1>2, <2>2, <2>3
<1>4. \A i, j \in P : i < j => At(i) < At(j)
  <2> SUFFICES ASSUME NEW i \in P, NEW j \in P, i < j
               PROVE  At(i) < At(j)
    OBVIOUS
  <2>1. Upto(i) \cup {j} \in SUBSET Upto(j) /\ j \notin Upto(i)
    <3>1. i \in Nat /\ j \in Nat /\ \A x \in P : x \in Nat
      OBVIOUS
    <3>2. \A x \in P : x <= i => x <= j
      BY <3>1
    <3>3. j <= j /\ ~(j <= i)
      BY <3>1
    <3> QED
      BY <3>2, <3>3
  <2> HIDE DEF Upto
  <2>2. Cardinality(Upto(i) \cup {j}) = At(i) + 1
    BY <1>1, <1>3, <2>1, FS_AddElement
  <2>3. Cardinality(Upto(i) \cup {j}) <= Cardinality(Upto(j))
    BY <1>3, <2>1, FS_Subset, Zenon
  <2>4. At(i) \in 1..m /\ At(j) \in 1..m /\ At(j) = Cardinality(Upto(j))
    BY <1>1, <1>3, Zenon
  <2> HIDE DEF m
  <2> QED
    BY <1>2, <2>2, <2>3, <2>4
<1>5. \A i, j \in P : At(i) = At(j) => i = j
  <2> SUFFICES ASSUME NEW i \in P, NEW j \in P, At(i) = At(j), i # j
               PROVE  FALSE
    OBVIOUS
  <2>1. i \in Nat /\ j \in Nat /\ (i < j \/ j < i)
    OBVIOUS
  <2>2. At(i) \in Nat /\ At(j) \in Nat
    <3>1. At(i) \in 1..m /\ At(j) \in 1..m
      BY <1>3, Zenon
    <3> HIDE DEF m
    <3> QED
      BY <1>2, <3>1
  <2> QED
    BY <1>4, <2>1, <2>2
<1>6. \A k \in 1..m : \E i \in P : At(i) = k
  <2> DEFINE g == [i \in P |-> At(i)]
  <2>1. g \in Injection(P, 1..m)
    <3>1. g \in [P -> 1..m]
      BY <1>3, Zenon
    <3>2. IsInjective(g)
      BY <1>5, Zenon DEF IsInjective
    <3> HIDE DEF g
    <3> QED
      BY <3>1, <3>2, Zenon DEF Injection
  <2>2. IsFiniteSet(1..m) /\ Cardinality(1..m) = Cardinality(P)
    BY <1>2, SizeUpTo
  <2>3. g \in Surjection(P, 1..m)
    <3> HIDE DEF g, m
    <3> QED
      BY <1>2, <2>1, <2>2, FS_Injection
  <2> QED
    BY <2>3, Zenon DEF Surjection
<1> QED
  BY <1>2, <1>3, <1>4, <1>5, <1>6 DEF At

(* The first m positions of P, or all of them.                             *)
LEMMA FirstFew ==
  ASSUME NEW n \in Nat, NEW P \in SUBSET (1..n), NEW m \in Nat
  PROVE  LET F == {i \in P : Place(P, i) <= m} IN
         /\ IsFiniteSet(F)
         /\ Cardinality(F) = IF m <= Cardinality(P) THEN m ELSE Cardinality(P)
<1> DEFINE F == {i \in P : Place(P, i) <= m}
           all == Cardinality(P)
           l == IF m <= all THEN m ELSE all
           g == [i \in F |-> Place(P, i)]
<1>1. IsFiniteSet(P) /\ all \in Nat
  BY Places
<1>2. F \in SUBSET P /\ IsFiniteSet(F)
  <2>1. F \in SUBSET P
    OBVIOUS
  <2> HIDE DEF F
  <2> QED
    BY <1>1, <2>1, FS_Subset, Zenon
<1>3. /\ \A i \in P : Place(P, i) \in 1..all
      /\ \A i, j \in P : Place(P, i) = Place(P, j) => i = j
      /\ \A k \in 1..all : \E i \in P : Place(P, i) = k
  BY Places, Zenon
<1> HIDE DEF all
<1>4. l \in Nat /\ l <= m /\ l <= all
  BY <1>1
<1>5. \A k \in 1..all : k <= m <=> k \in 1..l
  BY <1>1
<1> HIDE DEF l
<1>6. g \in [F -> 1..l]
  BY <1>3, <1>5, Zenon
<1>7. IsInjective(g)
  BY <1>2, <1>3, Zenon DEF IsInjective
<1>8. \A k \in 1..l : \E i \in F : g[i] = k
  <2> TAKE k \in 1..l
  <2>1. k \in 1..all
    BY <1>1, <1>4
  <2>2. PICK i \in P : Place(P, i) = k
    BY <1>3, <2>1
  <2>3. i \in F
    BY <1>5, <2>1, <2>2
  <2> QED
    BY <2>2, <2>3, Zenon
<1> HIDE DEF F, g
<1>9. g \in Injection(F, 1..l) /\ g \in Surjection(F, 1..l)
  BY <1>6, <1>7, <1>8, Zenon DEF Injection, Surjection
<1>10. Cardinality(F) = Cardinality(1..l) /\ Cardinality(1..l) = l
  BY <1>2, <1>4, <1>9, SizeUpTo, FS_Surjection
<1> QED
  BY <1>2, <1>10 DEF F, l, all

(* The positions that Restricted keeps, and how it goes through them.      *)
Chosen(s, S) == {i \in DOMAIN s : s[i] \in S}
Enumerates(e, m, P) ==
  /\ e \in [1..m -> P]
  /\ \A k, l \in 1..m : k < l => e[k] < e[l]
  /\ \A i \in P : \E k \in 1..m : e[k] = i

(* Restricted keeps the members of S, each once and in their order: it is  *)
(* read off an increasing enumeration of their positions.                  *)
LEMMA RestrictedFacts ==
  ASSUME NEW s, NEW n \in Nat, DOMAIN s = 1..n, NEW S
  PROVE  /\ IsFiniteSet(Chosen(s, S))
         /\ Cardinality(Chosen(s, S)) \in 0..n
         /\ \E e : /\ Enumerates(e, Cardinality(Chosen(s, S)), Chosen(s, S))
                   /\ Restricted(s, S) =
                        [k \in 1..Cardinality(Chosen(s, S)) |-> s[e[k]]]
<1> DEFINE P == Chosen(s, S)
           m == Cardinality(P)
           f == Restricted(s, S)
           At(k) == CHOOSE i \in P : Place(P, i) = k
           e == [k \in 1..m |-> At(k)]
<1>1. P \in SUBSET (1..n)
  BY DEF Chosen
<1>2. f = [k \in 1..m |-> s[At(k)]]
  BY Zenon DEF Restricted, Chosen, Place
<1> HIDE DEF P, f
<1>3. /\ IsFiniteSet(P) /\ m \in 0..n
      /\ \A i, j \in P : i < j => Place(P, i) < Place(P, j)
      /\ \A i \in P : Place(P, i) \in 1..m
      /\ \A i, j \in P : Place(P, i) = Place(P, j) => i = j
      /\ \A k \in 1..m : \E i \in P : Place(P, i) = k
  BY <1>1, Places, Zenon
<1>8. \A k \in 1..m : At(k) \in P /\ Place(P, At(k)) = k
  BY <1>3, Zenon
<1> HIDE DEF At
<1>9. e \in [1..m -> P]
  BY <1>8, Zenon
<1> DEFINE ee == e
<1>10. ee = e
  OBVIOUS
<1> HIDE DEF ee
<1>11. Enumerates(ee, m, P)
  <2>1. \A k, l \in 1..m : k < l => ee[k] < ee[l]
    <3> SUFFICES ASSUME NEW k \in 1..m, NEW l \in 1..m, k < l
                 PROVE  ee[k] < ee[l]
      OBVIOUS
    <3>1. ee[k] \in P /\ Place(P, ee[k]) = k /\ ee[l] \in P /\ Place(P, ee[l]) = l
      BY <1>8, <1>10, Zenon
    <3>2. ee[k] \in Nat /\ ee[l] \in Nat /\ k \in Nat /\ l \in Nat
      <4> HIDE DEF m
      <4>1. \A x \in P : x \in Nat
        BY <1>1
      <4>2. m \in Nat
        BY <1>3
      <4> QED
        BY <3>1, <4>1, <4>2
    <3>3. ~(ee[k] = ee[l])
      BY <3>1, <3>2
    <3>4. ~(ee[l] < ee[k])
      BY <1>3, <3>1, <3>2
    <3> QED
      BY <3>2, <3>3, <3>4
  <2>2. \A i \in P : \E k \in 1..m : ee[k] = i
    <3> TAKE i \in P
    <3>1. Place(P, i) \in 1..m
      BY <1>3
    <3>2. ee[Place(P, i)] \in P /\ Place(P, ee[Place(P, i)]) = Place(P, i)
      BY <1>8, <1>10, <3>1, Zenon
    <3> QED
      BY <1>3, <3>1, <3>2, Zenon
  <2> QED
    BY <1>9, <1>10, <2>1, <2>2, Zenon DEF Enumerates
<1>12. f = [k \in 1..m |-> s[ee[k]]]
  <2>1. \A k \in 1..m : ee[k] = At(k)
    BY <1>10, Zenon
  <2> QED
    BY <1>2, <2>1, Zenon
<1> QED
  BY <1>3, <1>11, <1>12, Zenon DEF P, f
=============================================================================
