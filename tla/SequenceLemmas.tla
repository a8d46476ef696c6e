--------------------------- MODULE SequenceLemmas ---------------------------
(***************************************************************************)
(* What the proofs about the data keep needing: the least of a set of      *)
(* naturals, the order that sort() puts numbers in, concatenation, and     *)
(* reading bytes where they lie.                                           *)
(***************************************************************************)
EXTENDS HelloWire, StableSort, FiniteSetTheorems, SequenceTheorems, WellFoundedInduction,
        TLAPS

(***************************************************************************)
(* A non-empty set of naturals has the minimum that Min chooses.           *)
(***************************************************************************)
LEMMA MinOfNats ==
  ASSUME NEW S \in SUBSET Nat, S # {}
  PROVE  Min(S) \in S /\ \A y \in S : Min(S) <= y
<1> DEFINE Less == {ss \in Nat \X Nat : ss[1] < ss[2]}
<1>1. OpToRel(<, Nat) = Less
  BY Zenon DEF OpToRel
<1>2. IsWellFoundedOn(Less, Nat)
  BY <1>1, NatLessThanWellFounded, Zenon
<1>3. PICK x \in S : \A y \in S : ~(<<y, x>> \in Less)
  BY <1>2, WFMin, Zenon
<1>4. ASSUME NEW y \in S PROVE x <= y
  <2>1. x \in Nat /\ y \in Nat
    OBVIOUS
  <2>2. y < x => <<y, x>> \in Less
    BY <2>1
  <2> QED
    BY <1>3, <2>1, <2>2
<1> QED
  BY <1>4 DEF Min

(***************************************************************************)
(* What sort() makes of n numeric keys: no place is left out, none is      *)
(* taken twice, and the keys ascend.                                       *)
(***************************************************************************)
Sorts(order, key, n) ==
    /\ order \in [1 .. n -> 1 .. n]
    /\ \A k \in 1 .. n : \E i \in 1 .. n : order[i] = k
    /\ \A i, j \in 1 .. n : order[i] = order[j] => i = j
    /\ \A i, j \in 1 .. n : i <= j => key[order[i]] <= key[order[j]]

LEMMA SortingOrderSorts ==
  ASSUME NEW n \in Nat, NEW key \in [1 .. n -> Int],
         NEW order, order = SortingOrder(key)
  PROVE  Sorts(order, key, n)
<1> DEFINE B(k) == {j \in 1 .. n : NotBehind(key, j, k)}
           place == [k \in 1 .. n |-> PlaceOf(key, k)]
<1>1. IsFiniteSet(1 .. n) /\ Cardinality(1 .. n) = n
  BY FS_Interval
<1>2. ASSUME NEW k \in 1 .. n
      PROVE  /\ B(k) \in SUBSET (1 .. n) /\ IsFiniteSet(B(k)) /\ Cardinality(B(k)) \in Nat
             /\ place[k] \in 1 .. n /\ place[k] = Cardinality(B(k))
  <2>1. B(k) \in SUBSET (1 .. n) /\ {k} \in SUBSET B(k)
    BY DEF NotBehind
  <2>2. place[k] = Cardinality(B(k))
    BY DEF PlaceOf
  <2> HIDE DEF B, place
  <2>3. IsFiniteSet(B(k)) /\ Cardinality(B(k)) <= n
    BY <1>1, <2>1, FS_Subset
  <2>4. Cardinality(B(k)) \in Nat
    BY <2>3, FS_CardinalityType
  <2>5. 1 <= Cardinality(B(k))
    <3>1. Cardinality({k}) = 1
      BY FS_Singleton
    <3>2. Cardinality({k}) <= Cardinality(B(k))
      BY <2>1, <2>3, FS_Subset
    <3> QED
      BY <2>4, <3>1, <3>2
  <2> QED
    BY <2>1, <2>2, <2>3, <2>4, <2>5
<1>3. ASSUME NEW j \in 1 .. n, NEW k \in 1 .. n, NotBehind(key, j, k), j # k
      PROVE  place[j] < place[k]
  <2>1. B(j) \in SUBSET B(k) /\ k \in B(k) /\ k \notin B(j)
    BY <1>3 DEF NotBehind
  <2> HIDE DEF B, place
  <2>2. Cardinality(B(j)) <= Cardinality(B(k)) /\ Cardinality(B(j)) # Cardinality(B(k))
    BY <1>2, <2>1, FS_Subset
  <2>3. place[j] = Cardinality(B(j)) /\ place[k] = Cardinality(B(k))
        /\ place[j] \in 1 .. n /\ place[k] \in 1 .. n
    BY <1>2
  <2> QED
    BY <2>2, <2>3
<1>4. \A j, k \in 1 .. n : NotBehind(key, j, k) \/ NotBehind(key, k, j)
  BY DEF NotBehind
<1>5. place \in [1 .. n -> 1 .. n]
  BY <1>2
<1>6. \A i \in 1 .. n : order[i] = CHOOSE k \in 1 .. n : place[k] = i
  <2>1. DOMAIN key = 1 .. n
    OBVIOUS
  <2>2. \A i \in 1 .. n : order[i] = CHOOSE k \in 1 .. n : PlaceOf(key, k) = i
    BY <2>1 DEF SortingOrder
  <2>3. \A k \in 1 .. n : place[k] = PlaceOf(key, k)
    OBVIOUS
  <2> HIDE DEF place
  <2> QED
    BY <2>2, <2>3
<1>7. DOMAIN order = 1 .. n /\ order = [i \in 1 .. n |-> order[i]]
  BY DEF SortingOrder
<1> HIDE DEF place, B
<1>8. \A j, k \in 1 .. n : place[j] = place[k] => j = k
  <2> SUFFICES ASSUME NEW j \in 1 .. n, NEW k \in 1 .. n, j # k PROVE place[j] # place[k]
    OBVIOUS
  <2>1. place[j] \in 1 .. n /\ place[k] \in 1 .. n
    BY <1>5
  <2>2. place[j] < place[k] \/ place[k] < place[j]
    BY <1>3, <1>4
  <2> QED
    BY <2>1, <2>2
<1>9. \A i \in 1 .. n : \E k \in 1 .. n : place[k] = i
  <2>1. place \in Injection(1 .. n, 1 .. n)
    BY <1>5, <1>8, Zenon DEF Injection, IsInjective
  <2>2. place \in Surjection(1 .. n, 1 .. n)
    BY <1>1, <2>1, FS_Injection
  <2> QED
    BY <2>2 DEF Surjection
<1>10. ASSUME NEW i \in 1 .. n PROVE order[i] \in 1 .. n /\ place[order[i]] = i
  <2>1. \E k \in 1 .. n : place[k] = i
    BY <1>9
  <2>2. order[i] = CHOOSE k \in 1 .. n : place[k] = i
    BY <1>6
  <2> QED
    BY <2>1, <2>2, Zenon
<1>11. ASSUME NEW k \in 1 .. n PROVE \E i \in 1 .. n : order[i] = k
  <2>1. place[k] \in 1 .. n
    BY <1>5
  <2>2. order[place[k]] \in 1 .. n /\ place[order[place[k]]] = place[k]
    BY <1>10, <2>1
  <2>3. order[place[k]] = k
    BY <1>8, <2>2
  <2> QED
    BY <2>1, <2>3
<1>12. ASSUME NEW i \in 1 .. n, NEW j \in 1 .. n, i <= j
       PROVE  key[order[i]] <= key[order[j]]
  <2>1. order[i] \in 1 .. n /\ order[j] \in 1 .. n
    BY <1>10
  <2>2. NotBehind(key, order[i], order[j])
    <3> SUFFICES ASSUME ~NotBehind(key, order[i], order[j]) PROVE FALSE
      OBVIOUS
    <3>1. NotBehind(key, order[j], order[i]) /\ order[i] # order[j]
      BY <1>4, <2>1 DEF NotBehind
    <3>2. place[order[j]] < place[order[i]]
      BY <1>3, <2>1, <3>1
    <3> QED
      BY <1>10, <1>12, <3>2
  <2> QED
    BY <2>1, <2>2 DEF NotBehind
<1>13. order \in [1 .. n -> 1 .. n]
  BY <1>7, <1>10
<1>14. \A i, j \in 1 .. n : order[i] = order[j] => i = j
  BY <1>10, Zenon
<1> QED
  BY <1>11, <1>12, <1>13, <1>14 DEF Sorts

-----------------------------------------------------------------------------
(***************************************************************************)
(* Induction over the naturals, the property being a set.                  *)
(***************************************************************************)
LEMMA SetInduction ==
  ASSUME NEW A, 0 \in A, \A n \in Nat : n \in A => n + 1 \in A
  PROVE  \A n \in Nat : n \in A
<1> SUFFICES ASSUME Nat \ A # {} PROVE FALSE
  OBVIOUS
<1>1. Min(Nat \ A) \in Nat \ A /\ \A y \in Nat \ A : Min(Nat \ A) <= y
  BY MinOfNats
<1>2. PICK m : m = Min(Nat \ A)
  OBVIOUS
<1>3. m \in Nat /\ m \notin A /\ \A y \in Nat \ A : m <= y
  BY <1>1, <1>2
<1>4. m # 0 /\ m - 1 \in Nat
  BY <1>3
<1>5. m - 1 \in A
  BY <1>3, <1>4
<1> QED
  BY <1>3, <1>4, <1>5

(***************************************************************************)
(* Joining sequences is associative; named, so that it can be cited.       *)
(***************************************************************************)
ThreeJoin(x, y, z) == (x \o y) \o z = x \o (y \o z)

LEMMA JoiningThree ==
  ASSUME NEW S, NEW x \in Seq(S), NEW y \in Seq(S), NEW z \in Seq(S)
  PROVE  ThreeJoin(x, y, z)
BY ConcatAssociative DEF ThreeJoin

(***************************************************************************)
(* FlattenSeq() by its partial results: joined[i] holds the first i        *)
(* sequences.  There is one such function, and it is typed.                *)
(***************************************************************************)
Joins(joined, s, n) ==
    joined = [i \in 1 .. n |-> IF i = 1 THEN s[i] ELSE joined[i - 1] \o s[i]]

Agree(f, g, n) == \A i \in 1 .. n : f[i] = g[i]

LEMMA JoinsExist ==
  ASSUME NEW S, NEW s \in Seq(Seq(S))
  PROVE  \E joined \in [1 .. Len(s) -> Seq(S)] : Joins(joined, s, Len(s))
<1> DEFINE A == {n \in Nat : n <= Len(s) =>
                     \E joined \in [1 .. n -> Seq(S)] : Joins(joined, s, n)}
<1>1. 0 \in A
  <2> DEFINE g == [i \in 1 .. 0 |-> <<>>]
  <2>1. g \in [1 .. 0 -> Seq(S)] /\ Joins(g, s, 0)
    BY DEF Joins
  <2> QED
    BY <2>1
<1>2. ASSUME NEW n \in Nat, n \in A PROVE n + 1 \in A
  <2> SUFFICES ASSUME n + 1 <= Len(s)
               PROVE  \E joined \in [1 .. n + 1 -> Seq(S)] : Joins(joined, s, n + 1)
    OBVIOUS
  <2>1. PICK g \in [1 .. n -> Seq(S)] : Joins(g, s, n)
    BY <1>2
  <2> DEFINE f == [i \in 1 .. n + 1 |->
                     IF i <= n THEN g[i] ELSE IF n = 0 THEN s[1] ELSE g[n] \o s[n + 1]]
  <2>2. \A i \in 1 .. n + 1 : s[i] \in Seq(S)
    OBVIOUS
  <2>3. \A i \in 1 .. n : f[i] = g[i]
    OBVIOUS
  <2>4. f[n + 1] = IF n = 0 THEN s[1] ELSE g[n] \o s[n + 1]
    OBVIOUS
  <2>5. f[n + 1] \in Seq(S)
    <3>1. CASE n = 0
      BY <2>2, <2>4, <3>1
    <3>2. CASE n # 0
      <4>1. g[n] \in Seq(S) /\ s[n + 1] \in Seq(S)
        BY <2>2, <3>2
      <4>2. g[n] \o s[n + 1] \in Seq(S)
        BY <4>1, ConcatProperties
      <4> QED
        BY <2>4, <3>2, <4>2
    <3> QED
      BY <3>1, <3>2
  <2>6. DOMAIN f = 1 .. n + 1 /\ f = [i \in 1 .. n + 1 |-> f[i]]
    OBVIOUS
  <2> HIDE DEF f
  <2>7. f \in [1 .. n + 1 -> Seq(S)]
    <3>1. \A i \in 1 .. n : g[i] \in Seq(S)
      OBVIOUS
    <3>2. \A i \in 1 .. n + 1 : i \in 1 .. n \/ i = n + 1
      OBVIOUS
    <3>3. \A i \in 1 .. n + 1 : f[i] \in Seq(S)
      BY <2>3, <2>5, <3>1, <3>2, Zenon
    <3> QED
      BY <2>6, <3>3, Zenon
  <2>8. \A i \in 1 .. n + 1 : f[i] = IF i = 1 THEN s[i] ELSE f[i - 1] \o s[i]
    <3>1. ASSUME NEW i \in 1 .. n
          PROVE  f[i] = IF i = 1 THEN s[i] ELSE f[i - 1] \o s[i]
      <4>1. g[i] = IF i = 1 THEN s[i] ELSE g[i - 1] \o s[i]
        BY <2>1 DEF Joins
      <4>2. i # 1 => i - 1 \in 1 .. n
        OBVIOUS
      <4> QED
        BY <2>3, <4>1, <4>2
    <3>2. f[n + 1] = IF n + 1 = 1 THEN s[n + 1] ELSE f[(n + 1) - 1] \o s[n + 1]
      <4>1. CASE n = 0
        BY <2>4, <4>1
      <4>2. CASE n # 0
        <5>1. f[n] = g[n] /\ (n + 1) - 1 = n /\ n + 1 # 1
          BY <2>3, <4>2
        <5> QED
          BY <2>4, <4>2, <5>1
      <4> QED
        BY <4>1, <4>2
    <3>3. \A i \in 1 .. n + 1 : i \in 1 .. n \/ i = n + 1
      OBVIOUS
    <3> QED
      BY <3>1, <3>2, <3>3
  <2>9. Joins(f, s, n + 1)
    BY <2>6, <2>8, Zenon DEF Joins
  <2> QED
    BY <2>7, <2>9
<1>3. Len(s) \in A
  <2>1. Len(s) \in Nat
    OBVIOUS
  <2> HIDE DEF A
  <2> QED
    BY <1>1, <1>2, <2>1, SetInduction
<1> QED
  BY <1>3

LEMMA JoinsAgree ==
  ASSUME NEW f, NEW s, NEW n \in Nat, Joins(f, s, n),
         NEW g, NEW t, NEW m \in Nat, Joins(g, t, m),
         n <= m, Agree(s, t, n)
  PROVE  Agree(f, g, n)
<1> DEFINE A == {i \in Nat : i \in 1 .. n => f[i] = g[i]}
<1>1. 0 \in A
  OBVIOUS
<1>2. ASSUME NEW i \in Nat, i \in A PROVE i + 1 \in A
  <2> SUFFICES ASSUME i + 1 \in 1 .. n PROVE f[i + 1] = g[i + 1]
    OBVIOUS
  <2>1. /\ f[i + 1] = IF i + 1 = 1 THEN s[i + 1] ELSE f[(i + 1) - 1] \o s[i + 1]
        /\ g[i + 1] = IF i + 1 = 1 THEN t[i + 1] ELSE g[(i + 1) - 1] \o t[i + 1]
    <3>1. i + 1 \in 1 .. m
      OBVIOUS
    <3>2. f[i + 1] = IF i + 1 = 1 THEN s[i + 1] ELSE f[(i + 1) - 1] \o s[i + 1]
      BY DEF Joins
    <3>3. g[i + 1] = IF i + 1 = 1 THEN t[i + 1] ELSE g[(i + 1) - 1] \o t[i + 1]
      BY <3>1 DEF Joins
    <3> QED
      BY <3>2, <3>3
  <2>2. s[i + 1] = t[i + 1] /\ (i + 1) - 1 = i
    BY DEF Agree
  <2>3. i + 1 # 1 => f[i] = g[i]
    BY <1>2
  <2> QED
    BY <2>1, <2>2, <2>3
<1>3. \A i \in Nat : i \in A
  <2> HIDE DEF A
  <2> QED
    BY <1>1, <1>2, SetInduction
<1> QED
  BY <1>3 DEF Agree

LEMMA FlattenJoins ==
  ASSUME NEW S, NEW s \in Seq(Seq(S)), Len(s) # 0
  PROVE  \E joined \in [1 .. Len(s) -> Seq(S)] :
             Joins(joined, s, Len(s)) /\ FlattenSeq(s) = joined[Len(s)]
<1>1. PICK f \in [1 .. Len(s) -> Seq(S)] : Joins(f, s, Len(s))
  BY JoinsExist
<1>2. PICK g : g = CHOOSE h : Joins(h, s, Len(s))
  OBVIOUS
<1>3. Joins(g, s, Len(s))
  BY <1>1, <1>2, Zenon
<1>4. FlattenSeq(s) = g[Len(s)]
  <2>1. FlattenSeq(s) = (CHOOSE h : Joins(h, s, Len(s)))[Len(s)]
    BY Zenon DEF FlattenSeq, Joins
  <2> QED
    BY <1>2, <2>1, Zenon
<1>5. Len(s) \in Nat /\ Len(s) \in 1 .. Len(s)
  OBVIOUS
<1>6. f[Len(s)] = g[Len(s)]
  <2>1. Len(s) <= Len(s) /\ Agree(s, s, Len(s))
    BY <1>5 DEF Agree
  <2>2. Agree(f, g, Len(s))
    BY <1>1, <1>3, <1>5, <2>1, JoinsAgree, Zenon
  <2> QED
    BY <1>5, <2>2 DEF Agree
<1> QED
  BY <1>1, <1>4, <1>6

(***************************************************************************)
(* Flattening one sequence more puts it behind the others.                 *)
(***************************************************************************)
LEMMA FlattenEmpty == FlattenSeq(<<>>) = <<>>
BY DEF FlattenSeq

LEMMA FlattenIsSeq ==
  ASSUME NEW S, NEW s \in Seq(Seq(S))
  PROVE  FlattenSeq(s) \in Seq(S)
<1>1. CASE Len(s) = 0
  <2>1. FlattenSeq(s) = s /\ s = <<>>
    BY <1>1 DEF FlattenSeq
  <2> QED
    BY <2>1
<1>2. CASE Len(s) # 0
  <2>1. Len(s) \in 1 .. Len(s)
    BY <1>2
  <2>2. PICK f \in [1 .. Len(s) -> Seq(S)] : FlattenSeq(s) = f[Len(s)]
    BY <1>2, FlattenJoins, Zenon
  <2>3. f[Len(s)] \in Seq(S)
    BY <2>1, Zenon
  <2> QED
    BY <2>2, <2>3
<1> QED
  BY <1>1, <1>2

LEMMA AppendIsEqual ==
  ASSUME NEW S, NEW s \in Seq(S), NEW x \in S, NEW t \in Seq(S),
         Len(t) = Len(s) + 1, t[Len(s) + 1] = x, \A k \in 1 .. Len(s) : t[k] = s[k]
  PROVE  t = Append(s, x)
<1>1. PICK n \in Nat : n = Len(s)
  BY LenProperties
<1>2. PICK a : a = Append(s, x)
  OBVIOUS
<1>3. /\ a \in Seq(S) /\ Len(a) = n + 1 /\ a[n + 1] = x
      /\ \A k \in 1 .. n : a[k] = s[k]
  BY <1>1, <1>2, AppendProperties
<1>4. \A k \in 1 .. n + 1 : t[k] = a[k]
  <2> SUFFICES ASSUME NEW k \in 1 .. n + 1 PROVE t[k] = a[k]
    OBVIOUS
  <2>1. k = n + 1 \/ k \in 1 .. n
    BY <1>1
  <2> QED
    BY <1>1, <1>3, <2>1
<1>5. t = a
  BY <1>1, <1>3, <1>4, SeqEqual
<1> QED
  BY <1>2, <1>5

LEMMA FlattenAppend ==
  ASSUME NEW S, NEW s \in Seq(Seq(S)), NEW x \in Seq(S)
  PROVE  FlattenSeq(Append(s, x)) = FlattenSeq(s) \o x
<1>1. PICK t : t = Append(s, x)
  OBVIOUS
<1>2. PICK n \in Nat : n = Len(s)
  OBVIOUS
<1>3. /\ t \in Seq(Seq(S)) /\ Len(t) = n + 1
      /\ t[n + 1] = x /\ \A i \in 1 .. n : s[i] = t[i]
  BY <1>1, <1>2, AppendProperties
<1>4. PICK g \in [1 .. n + 1 -> Seq(S)] :
         Joins(g, t, n + 1) /\ FlattenSeq(t) = g[n + 1]
  <2>1. Len(t) # 0
    BY <1>3
  <2>2. \E h \in [1 .. Len(t) -> Seq(S)] :
          Joins(h, t, Len(t)) /\ FlattenSeq(t) = h[Len(t)]
    BY <1>3, <2>1, FlattenJoins, Zenon
  <2> QED
    BY <1>3, <2>2, Zenon
<1>5. g[n + 1] = IF n + 1 = 1 THEN t[n + 1] ELSE g[(n + 1) - 1] \o t[n + 1]
  <2>1. n + 1 \in 1 .. n + 1
    OBVIOUS
  <2> QED
    BY <1>4, <2>1 DEF Joins
<1>6. CASE n = 0
  <2>1. FlattenSeq(t) = x
    BY <1>3, <1>4, <1>5, <1>6
  <2>2. FlattenSeq(s) = <<>>
    <3>1. s = <<>>
      BY <1>2, <1>6, EmptySeq
    <3> QED
      BY <3>1, FlattenEmpty
  <2> QED
    BY <1>1, <2>1, <2>2, ConcatEmptySeq
<1>7. CASE n # 0
  <2>1. PICK f \in [1 .. n -> Seq(S)] : Joins(f, s, n) /\ FlattenSeq(s) = f[n]
    BY <1>2, <1>7, FlattenJoins, Zenon
  <2>2. n <= n + 1 /\ n + 1 \in Nat /\ n \in 1 .. n /\ (n + 1) - 1 = n /\ n + 1 # 1
    BY <1>7
  <2>3. Agree(f, g, n)
    <3>1. Agree(s, t, n)
      BY <1>3, Zenon DEF Agree
    <3> QED
      BY <1>4, <2>1, <2>2, <3>1, JoinsAgree, Zenon
  <2>4. f[n] = g[n]
    BY <2>2, <2>3, Zenon DEF Agree
  <2> QED
    BY <1>1, <1>3, <1>4, <1>5, <2>1, <2>2, <2>4
<1> QED
  BY <1>6, <1>7

-----------------------------------------------------------------------------
(***************************************************************************)
(* What the readers of HelloWire return, at any offset of any buffer.      *)
(***************************************************************************)
LEMMA ByteIsNat ==
    ASSUME NEW b \in Seq(Nat), NEW i \in Nat
    PROVE  Byte(b, i) \in Nat
BY DEF Byte

LEMMA U16IsNat ==
    ASSUME NEW b \in Seq(Nat), NEW i \in Nat
    PROVE  U16(b, i) \in Nat
<1>1. i + 1 \in Nat
  OBVIOUS
<1>2. Byte(b, i) \in Nat /\ Byte(b, i + 1) \in Nat
  BY <1>1, ByteIsNat
<1>3. \A x, y \in Nat : (256 * x) + y \in Nat
  OBVIOUS
<1>. QED
  BY <1>2, <1>3 DEF U16

LEMMA SliceIsSeq ==
    ASSUME NEW b \in Seq(Nat), NEW from \in Nat, NEW to \in Nat
    PROVE  Slice(b, from, to) \in Seq(Nat)
BY DEF Slice

(***************************************************************************)
(* The bytes from offset i up to offset j, which are all there.            *)
(***************************************************************************)
Between(b, i, j) == SubSeq(b, i + 1, j)

IsPart(part, S, b, i, j) ==
    /\ part \in Seq(S)
    /\ Len(part) = j - i
    /\ \A k \in 1 .. j - i : part[k] = b[i + k]

LEMMA BetweenBytes ==
    ASSUME NEW S, NEW b \in Seq(S), NEW i \in Nat, NEW j \in Nat, i <= j, j <= Len(b)
    PROVE  IsPart(Between(b, i, j), S, b, i, j)
<1>1. \A k \in i + 1 .. j : b[k] \in S
  OBVIOUS
<1>2. i + 1 \in Int /\ j \in Int /\ j - (i + 1) + 1 = j - i
  OBVIOUS
<1>3. /\ Between(b, i, j) \in Seq(S)
      /\ Len(Between(b, i, j)) = IF i + 1 <= j THEN j - (i + 1) + 1 ELSE 0
      /\ \A k \in 1 .. j - (i + 1) + 1 : Between(b, i, j)[k] = b[(i + 1) + k - 1]
  BY <1>1, <1>2, SubSeqProperties DEF Between
<1>4. \A k \in 1 .. j - i : (i + 1) + k - 1 = i + k
  OBVIOUS
<1> QED
  BY <1>2, <1>3, <1>4 DEF IsPart

LEMMA BetweenJoins ==
    ASSUME NEW S, NEW b \in Seq(S), NEW i \in Nat, NEW j \in Nat, NEW k \in Nat,
           i <= j, j <= k, k <= Len(b)
    PROVE  Between(b, i, j) \o Between(b, j, k) = Between(b, i, k)
<1>1. i + 1 \in 1 .. Len(b) + 1 /\ j \in (i + 1) - 1 .. Len(b) /\ k \in j .. Len(b)
  OBVIOUS
<1> QED
  BY <1>1, ConcatAdjacentSubSeq DEF Between

LEMMA BetweenBetween ==
    ASSUME NEW S, NEW b \in Seq(S), NEW s \in Nat, NEW e \in Nat, s <= e, e <= Len(b),
           NEW i \in Nat, NEW j \in Nat, i <= j, s + j <= e
    PROVE  Between(Between(b, s, e), i, j) = Between(b, s + i, s + j)
<1> DEFINE inside == Between(b, s, e)
           left == Between(inside, i, j)
           right == Between(b, s + i, s + j)
<1>1. IsPart(inside, S, b, s, e)
  BY BetweenBytes, Zenon
<1>2. IsPart(right, S, b, s + i, s + j)
  <2>1. PICK x \in Nat, y \in Nat : x = s + i /\ y = s + j
    OBVIOUS
  <2>2. x <= y /\ y <= Len(b)
    BY <2>1
  <2> QED
    BY <2>1, <2>2, BetweenBytes, Zenon
<1> HIDE DEF inside, right
<1>3. IsPart(left, S, inside, i, j)
  <2>1. inside \in Seq(S) /\ j <= Len(inside)
    BY <1>1 DEF IsPart
  <2> QED
    BY <2>1, BetweenBytes, Zenon
<1> HIDE DEF left
<1>4. \A k \in 1 .. j - i : left[k] = right[k]
  <2> SUFFICES ASSUME NEW k \in 1 .. j - i PROVE left[k] = right[k]
    OBVIOUS
  <2>1. i + k \in 1 .. e - s /\ s + (i + k) = (s + i) + k
    OBVIOUS
  <2>2. left[k] = inside[i + k]
    BY <1>3 DEF IsPart
  <2>3. inside[i + k] = b[s + (i + k)]
    BY <1>1, <2>1 DEF IsPart
  <2>4. k \in 1 .. (s + j) - (s + i)
    OBVIOUS
  <2>5. right[k] = b[(s + i) + k]
    BY <1>2, <2>4 DEF IsPart
  <2> QED
    BY <2>1, <2>2, <2>3, <2>5
<1>5. left = right
  <2>1. left \in Seq(S) /\ right \in Seq(S) /\ Len(left) = j - i /\ Len(right) = j - i
    BY <1>2, <1>3 DEF IsPart
  <2> QED
    BY <1>4, <2>1, SeqEqual
<1> QED
  BY <1>5 DEF left, right, inside

LEMMA SliceIsBetween ==
    ASSUME NEW b, NEW i, NEW j, j <= Len(b)
    PROVE  Slice(b, i, j) = Between(b, i, j)
BY DEF Slice, Between

(***************************************************************************)
(* Bytes of a known number, and taking them apart again.                   *)
(***************************************************************************)
Run(s, n) == s \in Seq(Int) /\ Len(s) = n

LEMMA RunBytes16 ==
    ASSUME NEW x \in Nat
    PROVE  Run(Bytes16(x), 2)
BY DEF Bytes16, Run

LEMMA RunConcat ==
    ASSUME NEW s, NEW n \in Nat, Run(s, n), NEW t, NEW m \in Nat, Run(t, m)
    PROVE  Run(s \o t, n + m)
BY ConcatProperties DEF Run

LieAt(b, i, j, x, n, y, m) ==
    /\ j = i + n + m
    /\ Between(b, i, i + n) = x
    /\ Between(b, i + n, j) = y

LEMMA RunSplits ==
    ASSUME NEW b \in Seq(Int), NEW i \in Nat, NEW j \in Nat, i <= j, j <= Len(b),
           NEW x, NEW n \in Nat, Run(x, n), NEW y, NEW m \in Nat, Run(y, m),
           Between(b, i, j) = x \o y
    PROVE  LieAt(b, i, j, x, n, y, m)
<1>1. IsPart(x \o y, Int, b, i, j)
  BY BetweenBytes, Zenon
<1>2. /\ x \in Seq(Int) /\ Len(x) = n /\ y \in Seq(Int) /\ Len(y) = m
      /\ Len(x \o y) = n + m
      /\ \A k \in 1 .. n + m : (x \o y)[k] = IF k <= n THEN x[k] ELSE y[k - n]
  BY ConcatProperties DEF Run
<1>3. Len(x \o y) = j - i /\ \A k \in 1 .. j - i : (x \o y)[k] = b[i + k]
  BY <1>1 DEF IsPart
<1>4. j = i + n + m /\ j - i = n + m
  BY <1>2, <1>3
<1>5. Between(b, i, i + n) = x
  <2>1. PICK e \in Nat : e = i + n
    OBVIOUS
  <2>2. i <= e /\ e <= Len(b) /\ e - i = n
    BY <1>4, <2>1
  <2>3. IsPart(Between(b, i, e), Int, b, i, e)
    BY <2>2, BetweenBytes, Zenon
  <2>4. PICK w : w = Between(b, i, e)
    OBVIOUS
  <2>5. w \in Seq(Int) /\ Len(w) = n /\ \A k \in 1 .. n : w[k] = b[i + k]
    BY <2>2, <2>3, <2>4 DEF IsPart
  <2>6. ASSUME NEW k \in 1 .. n PROVE w[k] = x[k]
    <3>1. k \in 1 .. n + m /\ k <= n
      OBVIOUS
    <3>2. (x \o y)[k] = x[k] /\ (x \o y)[k] = b[i + k]
      BY <1>2, <1>3, <1>4, <3>1
    <3> QED
      BY <2>5, <3>2
  <2>7. w = x
    BY <1>2, <2>5, <2>6, SeqEqual
  <2> QED
    BY <2>1, <2>4, <2>7
<1>6. Between(b, i + n, j) = y
  <2>1. PICK e \in Nat : e = i + n
    OBVIOUS
  <2>2. e <= j /\ j - e = m
    BY <1>4, <2>1
  <2>3. IsPart(Between(b, e, j), Int, b, e, j)
    BY <2>2, BetweenBytes, Zenon
  <2>4. PICK w : w = Between(b, e, j)
    OBVIOUS
  <2>5. w \in Seq(Int) /\ Len(w) = m /\ \A k \in 1 .. m : w[k] = b[e + k]
    BY <2>2, <2>3, <2>4 DEF IsPart
  <2>6. ASSUME NEW k \in 1 .. m PROVE w[k] = y[k]
    <3>1. n + k \in 1 .. n + m /\ ~(n + k <= n) /\ (n + k) - n = k /\ i + (n + k) = e + k
      BY <2>1
    <3>2. (x \o y)[n + k] = y[k] /\ (x \o y)[n + k] = b[e + k]
      BY <1>2, <1>3, <1>4, <3>1
    <3> QED
      BY <2>5, <3>2
  <2>7. w = y
    BY <1>2, <2>5, <2>6, SeqEqual
  <2> QED
    BY <2>1, <2>4, <2>7
<1> QED
  BY <1>4, <1>5, <1>6 DEF LieAt

(***************************************************************************)
(* What is read where a byte or a code lies.                               *)
(***************************************************************************)
LEMMA ByteAt ==
    ASSUME NEW b \in Seq(Int), NEW i \in Nat, i + 1 <= Len(b), NEW x,
           Between(b, i, i + 1) = <<x>>
    PROVE  Byte(b, i) = x
<1>1. IsPart(<<x>>, Int, b, i, i + 1)
  <2>1. i + 1 \in Nat /\ i <= i + 1
    OBVIOUS
  <2> QED
    BY <2>1, BetweenBytes, Zenon
<1>2. 1 \in 1 .. (i + 1) - i
  OBVIOUS
<1>3. <<x>>[1] = b[i + 1]
  BY <1>1, <1>2, Zenon DEF IsPart
<1> QED
  BY <1>3 DEF Byte

LEMMA U16At ==
    ASSUME NEW b \in Seq(Int), NEW i \in Nat, i + 2 <= Len(b), NEW x \in Nat,
           Between(b, i, i + 2) = Bytes16(x)
    PROVE  U16(b, i) = x
<1>1. Bytes16(x) = <<x \div 256>> \o <<x % 256>>
  BY DEF Bytes16
<1>2. Run(<<x \div 256>>, 1) /\ Run(<<x % 256>>, 1)
  BY DEF Run
<1>3. PICK j \in Nat : j = i + 2 /\ i <= j /\ j <= Len(b)
  OBVIOUS
<1>4. Between(b, i, j) = <<x \div 256>> \o <<x % 256>>
  BY <1>1, <1>3
<1>5. Between(b, i, i + 1) = <<x \div 256>> /\ Between(b, i + 1, j) = <<x % 256>>
  <2>1. LieAt(b, i, j, <<x \div 256>>, 1, <<x % 256>>, 1)
    <3>1. 1 \in Nat
      OBVIOUS
    <3> QED
      BY <1>2, <1>3, <1>4, <3>1, RunSplits, Zenon
  <2> QED
    BY <2>1 DEF LieAt
<1>6. Byte(b, i) = x \div 256
  BY <1>3, <1>5, ByteAt
<1>7. Byte(b, i + 1) = x % 256
  <2>1. i + 1 \in Nat /\ (i + 1) + 1 = j /\ (i + 1) + 1 <= Len(b)
    BY <1>3
  <2> QED
    BY <1>5, <2>1, ByteAt
<1>8. (256 * (x \div 256)) + (x % 256) = x
  OBVIOUS
<1> QED
  BY <1>6, <1>7, <1>8 DEF U16

=============================================================================
