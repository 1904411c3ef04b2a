---------------------------- MODULE ListTheorems ----------------------------
(***************************************************************************)
(* What Lists does for any sets, sequences and orders: a sort holds each   *)
(* element of its set once and in order, a filter holds what passes, in    *)
(* the order of the sequence.                                              *)
(***************************************************************************)
EXTENDS Lists, SequencesExt, FiniteSetTheorems, SequenceTheorems, WellFoundedInduction, TLAPS

(* A set of naturals that is not empty has a least element.                *)
LEMMA LeastNat ==
    ASSUME NEW T, T \subseteq Nat, T # {}
    PROVE  \E n \in T: \A m \in T: n <= m
  <1> DEFINE R == OpToRel(<, Nat)
  <1>1. IsWellFoundedOn(R, Nat)
    BY NatLessThanWellFounded
  <1>2. \A m, n \in Nat : m < n => <<m, n>> \in R
    BY DEF R, OpToRel
  <1> HIDE DEF R
  <1>3. PICK n \in T: \A m \in T: <<m, n>> \notin R
    BY <1>1, WFMin
  <1>4. ASSUME NEW m \in T PROVE n <= m
    <2>1. m \in Nat /\ n \in Nat
      OBVIOUS
    <2>2. ~(m < n)
      BY <1>2, <1>3, <2>1
    <2>3. QED BY <2>1, <2>2
  <1>5. QED BY <1>4

(* Induction for a set of naturals, in place of a predicate.               *)
LEMMA Induct ==
    ASSUME NEW T, 0 \in T, \A n \in Nat: n \in T => n + 1 \in T
    PROVE  Nat \subseteq T
  <1> DEFINE Out == Nat \ T
  <1>1. SUFFICES ASSUME Out # {} PROVE FALSE
    OBVIOUS
  <1>2. PICK n \in Out: \A m \in Out: n <= m
    <2>1. Out \subseteq Nat
      OBVIOUS
    <2> HIDE DEF Out
    <2>2. QED BY <1>1, <2>1, LeastNat
  <1>3. n # 0 /\ n - 1 \in Nat
    BY <1>2
  <1>4. n - 1 \in T
    BY <1>2, <1>3
  <1>5. n \in T
    BY <1>3, <1>4
  <1>6. QED BY <1>2, <1>5

(* Induction for sets of indexes: each is reached from the empty one by    *)
(* adding the next greater index.                                          *)
LEMMA InductIndexes ==
    ASSUME NEW n \in Nat, NEW J \in SUBSET (1 .. n), NEW T, {} \in T,
           \A K \in SUBSET J, j \in J: K \in T /\ (\A i \in K: i < j) => K \cup {j} \in T
    PROVE  J \in T
  <1> DEFINE upto == [k \in Nat |-> {i \in J: i <= k}]
             U == {k \in Nat: upto[k] \in T}
  <1>1. \A i \in J: i \in Nat /\ 1 <= i /\ i <= n
    OBVIOUS
  <1>2. upto[0] = {} /\ upto[n] = J
    <2>1. \A i \in J: ~(i <= 0)
      BY <1>1
    <2>2. upto[0] = {i \in J: i <= 0} /\ upto[n] = {i \in J: i <= n}
      OBVIOUS
    <2> HIDE DEF upto
    <2>3. QED BY <1>1, <2>1, <2>2
  <1>3. ASSUME NEW k \in Nat
        PROVE  /\ upto[k] \in SUBSET J /\ \A i \in upto[k]: i < k + 1
               /\ upto[k + 1] = upto[k] \cup (J \cap {k + 1})
    <2>1. \A i \in J: i <= k + 1 <=> i <= k \/ i = k + 1
      BY <1>1
    <2>2. upto[k] = {i \in J: i <= k} /\ upto[k + 1] = {i \in J: i <= k + 1}
      OBVIOUS
    <2>3. \A i \in J: i <= k => i < k + 1
      BY <1>1
    <2> HIDE DEF upto
    <2>4. QED BY <2>1, <2>2, <2>3
  <1> HIDE DEF upto
  <1>4. ASSUME NEW k \in Nat, k \in U PROVE k + 1 \in U
    <2>1. CASE k + 1 \in J
      <3>1. upto[k + 1] = upto[k] \cup {k + 1}
        BY <1>3, <2>1
      <3>2. upto[k] \cup {k + 1} \in T
        <4>1. upto[k] \in T
          BY <1>4
        <4>2. upto[k] \in SUBSET J /\ \A i \in upto[k]: i < k + 1
          BY <1>3
        <4>3. QED BY <2>1, <4>1, <4>2
      <3>3. QED BY <3>1, <3>2, k + 1 \in Nat
    <2>2. CASE k + 1 \notin J
      <3>1. upto[k + 1] = upto[k]
        <4>1. J \cap {k + 1} = {}
          BY <2>2
        <4>2. QED BY <1>3, <4>1
      <3>2. QED BY <1>4, <3>1
    <2>3. QED BY <2>1, <2>2
  <1>5. n \in U
    <2>1. 0 \in U
      BY <1>2
    <2> HIDE DEF U
    <2>2. QED BY <1>4, <2>1, Induct
  <1>6. QED BY <1>2, <1>5

-----------------------------------------------------------------------------
(* below is a strict order of all elements of the set.                     *)
Orders(below, set) ==
    /\ below \in [set -> SUBSET set]
    /\ \A x \in set: x \notin below[x]
    /\ \A x, y \in set: x # y => x \in below[y] \/ y \in below[x]
    /\ \A x, y \in set: x \in below[y] => below[x] \subseteq below[y]

(* A finite set has a list of its size, in whatever order.                 *)
LEMMA RankedLength ==
    ASSUME NEW set, NEW below, IsFiniteSet(set)
    PROVE  /\ Cardinality(set) \in Nat
           /\ DOMAIN Ranked(set, below) = 1 .. Cardinality(set)
           /\ Len(Ranked(set, below)) = Cardinality(set)
           /\ Ranked(set, below) = [i \in 1 .. Cardinality(set) |-> Ranked(set, below)[i]]
  <1>1. Cardinality(set) \in Nat
    BY FS_CardinalityType
  <1>2. QED BY <1>1 DEF Ranked

LEMMA RankedSeq ==
    ASSUME NEW set, NEW below, IsFiniteSet(set), Orders(below, set)
    PROVE  /\ Ranked(set, below) \in Seq(set)
           /\ Len(Ranked(set, below)) = Cardinality(set)
           /\ ToSet(Ranked(set, below)) = set
           /\ \A i, j \in DOMAIN Ranked(set, below):
                 i < j => Ranked(set, below)[i] \in below[Ranked(set, below)[j]]
  <1> DEFINE n == Cardinality(set)
             rank == [x \in set |-> Cardinality(below[x])]
             s == Ranked(set, below)
  <1>1. n \in Nat
    BY FS_CardinalityType
  <1>2. ASSUME NEW x \in set PROVE IsFiniteSet(below[x]) /\ rank[x] \in 0 .. n - 1
    <2>1. below[x] \in SUBSET set /\ below[x] # set
      BY <1>2 DEF Orders
    <2>2. IsFiniteSet(below[x]) /\ Cardinality(below[x]) <= n /\ Cardinality(below[x]) # n
      BY <2>1, FS_Subset
    <2>3. Cardinality(below[x]) \in Nat
      BY <2>2, FS_CardinalityType
    <2>4. QED BY <1>1, <2>2, <2>3
  <1>3. ASSUME NEW x \in set, NEW y \in set, x \in below[y] PROVE rank[x] < rank[y]
    <2>1. below[x] \in SUBSET below[y] /\ below[x] # below[y]
      BY <1>3 DEF Orders
    <2>2. Cardinality(below[x]) <= Cardinality(below[y]) /\ Cardinality(below[x]) # Cardinality(below[y])
      BY <1>2, <2>1, FS_Subset
    <2>3. rank[x] \in Nat /\ rank[y] \in Nat
      BY <1>1, <1>2
    <2>4. QED BY <2>2, <2>3
  <1>4. \A x, y \in set: rank[x] = rank[y] => x = y
    <2>1. SUFFICES ASSUME NEW x \in set, NEW y \in set, rank[x] = rank[y], x # y PROVE FALSE
      OBVIOUS
    <2>2. rank[x] < rank[y] \/ rank[y] < rank[x]
      BY <1>3, <2>1 DEF Orders
    <2>3. rank[x] \in Nat /\ rank[y] \in Nat
      BY <1>1, <1>2
    <2> HIDE DEF rank
    <2>4. QED BY <2>1, <2>2, <2>3
  <1>5. \A r \in 0 .. n - 1: \E x \in set: rank[x] = r
    <2>1. IsFiniteSet(0 .. n - 1) /\ Cardinality(0 .. n - 1) = n
      <3>1. 0 \in Int /\ n - 1 \in Int
        BY <1>1
      <3>2. QED BY <1>1, <3>1, FS_Interval
    <2>2. rank \in [set -> 0 .. n - 1]
      BY <1>2
    <2> HIDE DEF rank
    <2>3. rank \in Injection(set, 0 .. n - 1)
      BY <1>4, <2>2 DEF Injection, IsInjective
    <2>4. rank \in Surjection(set, 0 .. n - 1)
      BY <2>1, <2>3, FS_Injection
    <2>5. QED BY <2>4 DEF Surjection
  <1>6. \A i \in 1 .. n: s[i] \in set /\ rank[s[i]] = i - 1
    <2>1. SUFFICES ASSUME NEW i \in 1 .. n PROVE s[i] \in set /\ rank[s[i]] = i - 1
      OBVIOUS
    <2>2. i - 1 \in 0 .. n - 1
      BY <1>1
    <2>3. s[i] = CHOOSE x \in set: Cardinality(below[x]) = i - 1
      BY DEF Ranked
    <2>4. \E x \in set: Cardinality(below[x]) = i - 1
      BY <1>5, <2>2
    <2>5. s[i] \in set /\ Cardinality(below[s[i]]) = i - 1
      BY <2>3, <2>4
    <2>6. QED BY <2>5
  <1>7. DOMAIN s = 1 .. n /\ Len(s) = n /\ s = [i \in 1 .. n |-> s[i]]
    BY RankedLength
  <1>8. s \in Seq(set)
    <2> HIDE DEF s, n
    <2>1. s \in [1 .. n -> set]
      BY <1>6, <1>7
    <2>2. QED BY <1>1, <2>1
  <1>9. ToSet(s) = set
    <2>1. ASSUME NEW x \in set PROVE x \in ToSet(s)
      <3>1. rank[x] + 1 \in 1 .. n /\ (rank[x] + 1) - 1 = rank[x]
        BY <1>1, <1>2
      <3>2. rank[s[rank[x] + 1]] = rank[x] /\ s[rank[x] + 1] \in set
        BY <1>6, <3>1
      <3> HIDE DEF rank, s
      <3>3. s[rank[x] + 1] = x
        BY <1>4, <3>2
      <3>4. QED BY <1>7, <3>1, <3>3 DEF ToSet
    <2> HIDE DEF rank, s
    <2>2. QED BY <1>6, <1>7, <2>1 DEF ToSet
  <1>10. ASSUME NEW i \in DOMAIN s, NEW j \in DOMAIN s, i < j PROVE s[i] \in below[s[j]]
    <2>1. i \in 1 .. n /\ j \in 1 .. n
      BY <1>7
    <2>2. s[i] \in set /\ s[j] \in set /\ rank[s[i]] = i - 1 /\ rank[s[j]] = j - 1
      BY <1>6, <2>1
    <2>3. s[i] # s[j] /\ ~(rank[s[j]] < rank[s[i]])
      BY <1>1, <1>10, <2>1, <2>2
    <2>4. QED BY <1>3, <2>2, <2>3 DEF Orders
  <1>11. QED BY <1>7, <1>8, <1>9, <1>10

(* The indexes below each of some indexes, which a filter is sorted by.    *)
Earlier(ixs) == [i \in ixs |-> {j \in ixs: j < i}]

LEMMA PickedSeq ==
    ASSUME NEW S, NEW seq \in Seq(S), NEW ixs \in SUBSET DOMAIN seq
    PROVE  /\ Picked(seq, ixs) \in Seq(S)
           /\ ToSet(Picked(seq, ixs)) = {seq[i]: i \in ixs}
           /\ \E order \in Seq(ixs):
                 /\ Len(order) = Len(Picked(seq, ixs)) /\ ToSet(order) = ixs
                 /\ \A k \in DOMAIN order: Picked(seq, ixs)[k] = seq[order[k]]
                 /\ \A k, l \in DOMAIN order: k < l => order[k] < order[l]
  <1> DEFINE order == Ranked(ixs, Earlier(ixs))
             p == Picked(seq, ixs)
  <1>1. Len(seq) \in Nat /\ DOMAIN seq = 1 .. Len(seq) /\ \A i \in DOMAIN seq: seq[i] \in S
    OBVIOUS
  <1>2. IsFiniteSet(ixs) /\ ixs \subseteq Nat
    <2>1. IsFiniteSet(1 .. Len(seq))
      BY <1>1, FS_Interval
    <2>2. QED BY <1>1, <2>1, FS_Subset
  <1>3. Orders(Earlier(ixs), ixs)
    BY <1>2 DEF Orders, Earlier
  <1>4. /\ order \in Seq(ixs) /\ ToSet(order) = ixs
        /\ \A k, l \in DOMAIN order: k < l => order[k] \in Earlier(ixs)[order[l]]
    BY <1>2, <1>3, RankedSeq
  <1>5. p = [k \in DOMAIN order |-> seq[order[k]]]
    BY DEF Picked, Earlier
  <1> HIDE DEF order, p
  <1>6. Len(order) \in Nat /\ DOMAIN order = 1 .. Len(order) /\ \A k \in DOMAIN order: order[k] \in ixs
    BY <1>4
  <1>7. \A k, l \in DOMAIN order: k < l => order[k] < order[l]
    BY <1>4, <1>6 DEF Earlier
  <1>8. p \in Seq(S) /\ Len(p) = Len(order)
    <2>1. p \in [1 .. Len(order) -> S]
      BY <1>1, <1>5, <1>6
    <2>2. QED BY <1>6, <2>1
  <1>9. ToSet(p) = {seq[i]: i \in ixs}
    <2>1. \A i \in ixs: \E k \in DOMAIN order: order[k] = i
      BY <1>4 DEF ToSet
    <2>2. QED BY <1>5, <1>6, <2>1 DEF ToSet
  <1>10. \A k \in DOMAIN order: p[k] = seq[order[k]]
    BY <1>5
  <1>11. QED BY <1>4, <1>7, <1>8, <1>9, <1>10 DEF p

(* Parts of a list.                                                        *)
LEMMA PartOf ==
    ASSUME NEW S, NEW s \in Seq(S), NEW m \in 1 .. Len(s) + 1, NEW n \in (m - 1) .. Len(s)
    PROVE  /\ SubSeq(s, m, n) \in Seq(S)
           /\ Len(SubSeq(s, m, n)) = n - m + 1
           /\ \A k \in 1 .. (n - m + 1): SubSeq(s, m, n)[k] = s[m + k - 1]
  <1>1. m \in Int /\ n \in Int /\ \A k \in m .. n: s[k] \in S
    OBVIOUS
  <1>2. m <= n \/ n - m + 1 = 0
    BY <1>1
  <1>3. Len(SubSeq(s, m, n)) = IF m <= n THEN n - m + 1 ELSE 0
    BY <1>1, SubSeqProperties
  <1>4. QED BY <1>1, <1>2, <1>3, SubSeqProperties

(* The end of a list, from an index on.                                    *)
LEMMA EndOf ==
    ASSUME NEW S, NEW s \in Seq(S), NEW m \in 1 .. Len(s) + 1
    PROVE  /\ SubSeq(s, m, Len(s)) \in Seq(S)
           /\ Len(SubSeq(s, m, Len(s))) = Len(s) - m + 1
           /\ \A k \in 1 .. Len(s) - m + 1: SubSeq(s, m, Len(s))[k] = s[k + (m - 1)]
  <1>1. Len(s) \in (m - 1) .. Len(s) /\ m \in Int /\ Len(s) \in Nat
    OBVIOUS
  <1>2. \A k \in 1 .. Len(s) - m + 1: m + k - 1 = k + (m - 1)
    BY <1>1
  <1>3. QED BY <1>1, <1>2, PartOf

(* The elements of a list with one more, and of two lists in a row.        *)
LEMMA ToSetAppend ==
    ASSUME NEW S, NEW s \in Seq(S), NEW e \in S
    PROVE  ToSet(Append(s, e)) = ToSet(s) \cup {e}
  <1> DEFINE t == Append(s, e)
  <1>1. Len(s) \in Nat /\ DOMAIN s = 1 .. Len(s) /\ DOMAIN t = 1 .. (Len(s) + 1)
    OBVIOUS
  <1>2. t[Len(s) + 1] = e /\ \A i \in 1 .. Len(s): t[i] = s[i]
    OBVIOUS
  <1> HIDE DEF t
  <1>3. \A x \in ToSet(t): x \in ToSet(s) \/ x = e
    <2>1. \A i \in DOMAIN t: i \in DOMAIN s \/ i = Len(s) + 1
      BY <1>1
    <2>2. QED BY <1>1, <1>2, <2>1 DEF ToSet
  <1>4. \A x \in ToSet(s) \cup {e}: x \in ToSet(t)
    <2>1. Len(s) + 1 \in DOMAIN t /\ \A i \in DOMAIN s: i \in DOMAIN t
      BY <1>1
    <2>2. QED BY <1>1, <1>2, <2>1 DEF ToSet
  <1>5. ToSet(t) = ToSet(s) \cup {e}
    BY <1>3, <1>4
  <1>6. QED BY <1>5 DEF t

LEMMA ToSetConcat ==
    ASSUME NEW S, NEW s \in Seq(S), NEW t \in Seq(S)
    PROVE  s \o t \in Seq(S) /\ ToSet(s \o t) = ToSet(s) \cup ToSet(t)
  <1> DEFINE c == s \o t
  <1>1. /\ Len(s) \in Nat /\ Len(t) \in Nat /\ DOMAIN s = 1 .. Len(s) /\ DOMAIN t = 1 .. Len(t)
        /\ c \in Seq(S) /\ Len(c) = Len(s) + Len(t) /\ DOMAIN c = 1 .. (Len(s) + Len(t))
    BY ConcatProperties
  <1>2. \A i \in 1 .. Len(s) + Len(t): c[i] = IF i <= Len(s) THEN s[i] ELSE t[i - Len(s)]
    BY ConcatProperties
  <1> HIDE DEF c
  <1>3. ASSUME NEW i \in DOMAIN c PROVE c[i] \in ToSet(s) \cup ToSet(t)
    <2>1. CASE i <= Len(s)
      <3>1. i \in DOMAIN s /\ c[i] = s[i]
        BY <1>1, <1>2, <2>1
      <3>2. QED BY <3>1 DEF ToSet
    <2>2. CASE ~(i <= Len(s))
      <3>1. i - Len(s) \in DOMAIN t /\ c[i] = t[i - Len(s)]
        BY <1>1, <1>2, <2>2
      <3>2. QED BY <3>1 DEF ToSet
    <2>3. QED BY <2>1, <2>2
  <1>4. ASSUME NEW i \in DOMAIN s PROVE s[i] \in ToSet(c)
    <2>1. i \in DOMAIN c /\ c[i] = s[i]
      BY <1>1, <1>2
    <2>2. QED BY <2>1 DEF ToSet
  <1>5. ASSUME NEW i \in DOMAIN t PROVE t[i] \in ToSet(c)
    <2>1. i + Len(s) \in DOMAIN c /\ ~(i + Len(s) <= Len(s)) /\ (i + Len(s)) - Len(s) = i
      BY <1>1
    <2>2. c[i + Len(s)] = t[i]
      BY <1>1, <1>2, <2>1
    <2>3. QED BY <2>1, <2>2 DEF ToSet
  <1>6. ToSet(c) = ToSet(s) \cup ToSet(t)
    BY <1>3, <1>4, <1>5 DEF ToSet
  <1>7. QED BY <1>1, <1>6 DEF c


(* Finite sets: the image of one, and the elements of a list.              *)
LEMMA ImageFinite ==
    ASSUME NEW f, IsFiniteSet(DOMAIN f)
    PROVE  IsFiniteSet({f[x]: x \in DOMAIN f})
  <1> DEFINE g == [x \in DOMAIN f |-> f[x]]
  <1>1. g \in Surjection(DOMAIN f, {f[x]: x \in DOMAIN f})
    BY DEF Surjection
  <1>2. QED BY <1>1, FS_Surjection

LEMMA ToSetFinite == ASSUME NEW S, NEW s \in Seq(S) PROVE IsFiniteSet(ToSet(s))
  <1>1. DOMAIN s = 1 .. Len(s) /\ Len(s) \in Nat
    OBVIOUS
  <1>2. IsFiniteSet(DOMAIN s)
    BY <1>1, FS_Interval
  <1>3. QED BY <1>2, ImageFinite DEF ToSet

(* The place of an element in a list.                                      *)
LEMMA PlaceFound ==
    ASSUME NEW S, NEW s \in Seq(S), NEW x \in ToSet(s)
    PROVE  LET i == SelectInSeq(s, LAMBDA y: y = x) IN i \in DOMAIN s /\ i \in Nat /\ s[i] = x
  <1> DEFINE ixs == {i \in 1 .. Len(s): s[i] = x}
  <1>1. DOMAIN s = 1 .. Len(s) /\ Len(s) \in Nat
    OBVIOUS
  <1>2. ixs # {} /\ ixs \subseteq Nat
    BY <1>1 DEF ToSet
  <1>3. PICK n \in ixs: \A m \in ixs: n <= m
    BY <1>2, LeastNat
  <1>4. Min(ixs) \in ixs
    BY <1>3 DEF Min
  <1>5. SelectInSeq(s, LAMBDA y: y = x) = Min(ixs)
    BY <1>2 DEF SelectInSeq
  <1>6. QED BY <1>1, <1>4, <1>5

-----------------------------------------------------------------------------
(* Filters of one list and of another.                                     *)

Increasing(order) == \A k, l \in DOMAIN order: k < l => order[k] < order[l]

(* A set of indexes is ranked by the list that holds them in their order.  *)
LEMMA RankedBy ==
    ASSUME NEW order \in Seq(Nat), Increasing(order)
    PROVE  Ranked(ToSet(order), Earlier(ToSet(order))) = order
  <1> DEFINE ixs == ToSet(order)
             n == Len(order)
  <1>1. n \in Nat /\ DOMAIN order = 1 .. n /\ \A k \in 1 .. n: order[k] \in Nat
    OBVIOUS
  <1>2. \A k, l \in 1 .. n: order[l] < order[k] <=> l < k
    <2>1. \A k, l \in 1 .. n: l < k => order[l] < order[k]
      BY <1>1 DEF Increasing
    <2>2. \A k, l \in 1 .. n: l < k \/ l = k \/ k < l
      BY <1>1
    <2> HIDE DEF n
    <2>3. QED BY <1>1, <2>1, <2>2
  <1>3. ASSUME NEW k \in 1 .. n PROVE Cardinality(Earlier(ixs)[order[k]]) = k - 1
    <2> DEFINE f == [l \in 1 .. k - 1 |-> order[l]]
               before == {j \in ixs: j < order[k]}
    <2>1. order[k] \in ixs
      BY <1>1 DEF ToSet
    <2>2. Earlier(ixs)[order[k]] = before
      BY <2>1 DEF Earlier
    <2>3. \A l \in 1 .. k - 1: l \in 1 .. n /\ l < k
      BY <1>1
    <2>4. \A l \in 1 .. k - 1: order[l] \in before
      BY <1>1, <1>2, <2>3 DEF ToSet
    <2>5. \A x \in before: \E l \in 1 .. k - 1: order[l] = x
      <3>1. SUFFICES ASSUME NEW x \in before PROVE \E l \in 1 .. k - 1: order[l] = x
        OBVIOUS
      <3>2. PICK l \in 1 .. n: order[l] = x
        BY <1>1 DEF ToSet
      <3>3. l < k
        BY <1>2, <3>2
      <3>4. l \in 1 .. k - 1
        BY <1>1, <3>3
      <3>5. QED BY <3>2, <3>4
    <2>6. \A l, m \in 1 .. k - 1: order[l] = order[m] => l = m
      <3>1. \A l, m \in 1 .. n: order[l] = order[m] => l = m
        BY <1>1, <1>2
      <3>2. QED BY <2>3, <3>1
    <2>7. f \in Bijection(1 .. k - 1, before)
      <3> HIDE DEF before
      <3>1. f \in [1 .. k - 1 -> before]
        BY <2>4
      <3>2. QED BY <2>5, <2>6, <3>1 DEF Bijection, Injection, IsInjective, Surjection
    <2>8. IsFiniteSet(1 .. k - 1) /\ Cardinality(1 .. k - 1) = k - 1
      <3>1. 1 \in Int /\ k - 1 \in Int /\ k - 1 >= 0
        BY <1>1
      <3>2. QED BY <3>1, FS_Interval
    <2> HIDE DEF f, before
    <2>9. Cardinality(before) = k - 1
      BY <2>7, <2>8, FS_Bijection DEF ExistsBijection
    <2>10. QED BY <2>2, <2>9
  <1>4. Cardinality(ixs) = n
    <2>1. IsFiniteSet(1 .. n) /\ Cardinality(1 .. n) = n
      BY <1>1, FS_Interval
    <2>2. \A l, m \in 1 .. n: order[l] = order[m] => l = m
      BY <1>1, <1>2
    <2>3. order \in [1 .. n -> ixs] /\ \A x \in ixs: \E l \in 1 .. n: order[l] = x
      BY <1>1 DEF ToSet
    <2> HIDE DEF ixs, n
    <2>4. order \in Bijection(1 .. n, ixs)
      BY <2>2, <2>3 DEF Bijection, Injection, IsInjective, Surjection
    <2>5. QED BY <2>1, <2>4, FS_Bijection DEF ExistsBijection
  <1>5. ASSUME NEW k \in 1 .. n
        PROVE  (CHOOSE x \in ixs: Cardinality(Earlier(ixs)[x]) = k - 1) = order[k]
    <2>1. order[k] \in ixs /\ Cardinality(Earlier(ixs)[order[k]]) = k - 1
      BY <1>1, <1>3 DEF ToSet
    <2>2. ASSUME NEW x \in ixs, Cardinality(Earlier(ixs)[x]) = k - 1 PROVE x = order[k]
      <3>1. PICK l \in 1 .. n: order[l] = x
        BY <1>1 DEF ToSet
      <3>2. l - 1 = k - 1
        BY <1>3, <2>2, <3>1
      <3>3. l = k
        BY <1>1, <3>2
      <3>4. QED BY <3>1, <3>3
    <2> HIDE DEF ixs
    <2>3. QED BY <2>1, <2>2
  <1>6. Ranked(ixs, Earlier(ixs)) = [k \in 1 .. n |-> CHOOSE x \in ixs: Cardinality(Earlier(ixs)[x]) = k - 1]
    BY <1>4 DEF Ranked
  <1> HIDE DEF ixs, n
  <1>7. Ranked(ixs, Earlier(ixs)) = [k \in 1 .. n |-> order[k]]
    BY <1>5, <1>6
  <1>8. order = [k \in 1 .. n |-> order[k]]
    BY <1>1
  <1>9. QED BY <1>7, <1>8 DEF ixs

LEMMA PickedBy ==
    ASSUME NEW order \in Seq(Nat), Increasing(order), NEW seq
    PROVE  Picked(seq, ToSet(order)) = [k \in DOMAIN order |-> seq[order[k]]]
  BY RankedBy DEF Picked, Earlier

(* Every set of indexes has such a list.                                   *)
LEMMA IndexesInOrder ==
    ASSUME NEW S, NEW seq \in Seq(S), NEW ixs \in SUBSET DOMAIN seq
    PROVE  \E order \in Seq(Nat): /\ Increasing(order) /\ ToSet(order) = ixs
                                  /\ Picked(seq, ixs) = [k \in DOMAIN order |-> seq[order[k]]]
  <1>1. PICK order \in Seq(ixs): ToSet(order) = ixs /\ \A k, l \in DOMAIN order: k < l => order[k] < order[l]
    BY PickedSeq
  <1>2. ixs \subseteq Nat
    BY DOMAIN seq = 1 .. Len(seq)
  <1>3. order \in Seq(Nat) /\ Increasing(order)
    BY <1>1, <1>2 DEF Increasing
  <1>4. QED BY <1>1, <1>3, PickedBy

(* No index, no element.                                                   *)
LEMMA PickedNone == ASSUME NEW seq PROVE Picked(seq, {}) = <<>>
  <1>1. <<>> \in Seq(Nat) /\ ToSet(<<>>) = {} /\ DOMAIN <<>> = {}
    BY DEF ToSet
  <1>2. Increasing(<<>>)
    BY <1>1 DEF Increasing
  <1>3. Picked(seq, ToSet(<<>>)) = [k \in DOMAIN <<>> |-> seq[<<>>[k]]]
    BY <1>1, <1>2, PickedBy
  <1> DEFINE p == [k \in DOMAIN <<>> |-> seq[<<>>[k]]]
  <1>4. p = <<>>
    <2>1. p \in [1 .. 0 -> {}]
      BY <1>1
    <2> HIDE DEF p
    <2>2. p \in Seq({}) /\ Len(p) = 0
      BY <2>1
    <2>3. QED BY <2>2
  <1>5. QED BY <1>1, <1>3, <1>4

(* An index behind the others picks one element more.                      *)
LEMMA PickedMore ==
    ASSUME NEW S, NEW seq \in Seq(S), NEW ixs \in SUBSET DOMAIN seq, NEW j \in DOMAIN seq, \A i \in ixs: i < j
    PROVE  Picked(seq, ixs \cup {j}) = Append(Picked(seq, ixs), seq[j])
  <1>1. PICK order \in Seq(Nat): /\ Increasing(order) /\ ToSet(order) = ixs
                                 /\ Picked(seq, ixs) = [k \in DOMAIN order |-> seq[order[k]]]
    BY IndexesInOrder
  <1> DEFINE n == Len(order)
             more == Append(order, j)
             p == [k \in DOMAIN order |-> seq[order[k]]]
  <1>2. /\ n \in Nat /\ DOMAIN order = 1 .. n /\ j \in Nat
        /\ more \in Seq(Nat) /\ Len(more) = n + 1 /\ DOMAIN more = 1 .. n + 1
        /\ more[n + 1] = j /\ \A k \in 1 .. n: more[k] = order[k]
    BY DOMAIN seq = 1 .. Len(seq)
  <1>3. ToSet(more) = ixs \cup {j}
    BY <1>1, <1>2, ToSetAppend
  <1> HIDE DEF more
  <1>4. Increasing(more)
    <2>1. SUFFICES ASSUME NEW k \in 1 .. n + 1, NEW l \in 1 .. n + 1, k < l PROVE more[k] < more[l]
      BY <1>2 DEF Increasing
    <2>2. k \in 1 .. n
      BY <1>2, <2>1
    <2>3. CASE l \in 1 .. n
      BY <1>1, <1>2, <2>1, <2>2, <2>3 DEF Increasing
    <2>4. CASE l = n + 1
      BY <1>1, <1>2, <2>2, <2>4 DEF ToSet
    <2>5. QED BY <1>2, <2>3, <2>4
  <1>5. Picked(seq, ToSet(more)) = [k \in DOMAIN more |-> seq[more[k]]]
    BY <1>2, <1>4, PickedBy
  <1>6. [k \in DOMAIN more |-> seq[more[k]]] = Append(p, seq[j])
    <2>1. p \in Seq(S) /\ Len(p) = n
      <3>1. p \in Seq(S)
        <4>1. Picked(seq, ixs) \in Seq(S)
          BY PickedSeq
        <4>2. Picked(seq, ixs) = p
          BY <1>1
        <4>3. QED BY <4>1, <4>2
      <3>2. DOMAIN p = 1 .. n
        BY <1>2
      <3> HIDE DEF p, n
      <3>3. QED BY <1>2, <3>1, <3>2
    <2>2. seq[j] \in S
      OBVIOUS
    <2>3. /\ Append(p, seq[j]) \in Seq(S) /\ DOMAIN Append(p, seq[j]) = 1 .. n + 1
          /\ Append(p, seq[j])[n + 1] = seq[j] /\ \A k \in 1 .. n: Append(p, seq[j])[k] = p[k]
      <3> HIDE DEF p
      <3> QED BY <1>2, <2>1, <2>2
    <2>4. Append(p, seq[j]) = [k \in 1 .. n + 1 |-> Append(p, seq[j])[k]]
      <3> DEFINE q == Append(p, seq[j])
      <3>1. q \in Seq(S) /\ DOMAIN q = 1 .. n + 1
        BY <2>3
      <3> HIDE DEF p, q
      <3>2. q = [k \in DOMAIN q |-> q[k]]
        BY <3>1
      <3>3. QED BY <3>1, <3>2 DEF q
    <2>5. \A k \in 1 .. n + 1: seq[more[k]] = Append(p, seq[j])[k]
      BY <1>2, <2>3
    <2> HIDE DEF p
    <2>6. QED BY <1>2, <2>4, <2>5
  <1>7. QED BY <1>1, <1>3, <1>5, <1>6

(* Lists that agree at the indexes.                                        *)
LEMMA PickedSame ==
    ASSUME NEW S, NEW seq \in Seq(S), NEW t, NEW ixs \in SUBSET DOMAIN seq, \A i \in ixs: t[i] = seq[i]
    PROVE  Picked(t, ixs) = Picked(seq, ixs)
  <1>1. PICK order \in Seq(Nat): /\ Increasing(order) /\ ToSet(order) = ixs
                                 /\ Picked(seq, ixs) = [k \in DOMAIN order |-> seq[order[k]]]
    BY IndexesInOrder
  <1>2. Picked(t, ixs) = [k \in DOMAIN order |-> t[order[k]]]
    BY <1>1, PickedBy
  <1>3. \A k \in DOMAIN order: order[k] \in ixs
    BY <1>1 DEF ToSet
  <1>4. QED BY <1>1, <1>2, <1>3

(* What is picked from the end of a list.                                  *)
LEMMA PickedEnd ==
    ASSUME NEW S, NEW seq \in Seq(S), NEW m \in 1 .. Len(seq) + 1,
           NEW ixs \in SUBSET (1 .. Len(seq) - m + 1)
    PROVE  Picked(SubSeq(seq, m, Len(seq)), ixs) = Picked(seq, {i + (m - 1): i \in ixs})
  <1> DEFINE e == SubSeq(seq, m, Len(seq))
             there == {i + (m - 1): i \in ixs}
  <1>1. /\ e \in Seq(S) /\ Len(e) = Len(seq) - m + 1
        /\ \A k \in 1 .. Len(seq) - m + 1: e[k] = seq[k + (m - 1)]
    BY EndOf
  <1> HIDE DEF e
  <1>2. DOMAIN e = 1 .. Len(seq) - m + 1
    BY <1>1
  <1>3. PICK order \in Seq(Nat): /\ Increasing(order) /\ ToSet(order) = ixs
                                 /\ Picked(e, ixs) = [k \in DOMAIN order |-> e[order[k]]]
    <2>1. ixs \in SUBSET DOMAIN e
      BY <1>2
    <2> HIDE DEF there
    <2>2. e \in Seq(S)
      BY <1>1
    <2>3. QED BY <2>1, <2>2, IndexesInOrder, Zenon
  <1> DEFINE moved == [k \in DOMAIN order |-> order[k] + (m - 1)]
  <1>4. m - 1 \in Nat /\ DOMAIN order = 1 .. Len(order) /\ Len(order) \in Nat /\ \A k \in DOMAIN order: order[k] \in Nat
    OBVIOUS
  <1>5. moved \in Seq(Nat) /\ DOMAIN moved = DOMAIN order /\ \A k \in DOMAIN order: moved[k] = order[k] + (m - 1)
    <2>1. \A k \in DOMAIN order: order[k] + (m - 1) \in Nat
      BY <1>4
    <2>2. moved \in [1 .. Len(order) -> Nat]
      BY <1>4, <2>1
    <2>3. QED BY <1>4, <2>2
  <1> HIDE DEF moved
  <1>6. Increasing(moved)
    BY <1>3, <1>4, <1>5 DEF Increasing
  <1>7. ToSet(moved) = there
    <2>1. ToSet(moved) = {moved[k]: k \in DOMAIN order}
      BY <1>5, Zenon DEF ToSet
    <2>2. {moved[k]: k \in DOMAIN order} = {order[k] + (m - 1): k \in DOMAIN order}
      BY <1>5
    <2>3. ixs = {order[k]: k \in DOMAIN order}
      BY <1>3, Zenon DEF ToSet
    <2>4. QED BY <2>1, <2>2, <2>3
  <1> HIDE DEF there
  <1>8. Picked(seq, there) = [k \in DOMAIN moved |-> seq[moved[k]]]
    BY <1>5, <1>6, <1>7, PickedBy
  <1>9. \A k \in DOMAIN order: e[order[k]] = seq[moved[k]]
    <2>1. \A k \in DOMAIN order: order[k] \in ixs
      BY <1>3 DEF ToSet
    <2>2. QED BY <1>1, <1>5, <2>1
  <1>10. QED BY <1>3, <1>5, <1>8, <1>9 DEF e, there

(* A filter of a filter.                                                   *)
LEMMA PickedTwice ==
    ASSUME NEW S, NEW seq \in Seq(S), NEW ixs \in SUBSET DOMAIN seq, NEW some \in SUBSET ixs
    PROVE  \E ks \in SUBSET DOMAIN Picked(seq, ixs):
              /\ Picked(Picked(seq, ixs), ks) = Picked(seq, some)
              /\ \A passes:
                    some = {i \in ixs: seq[i] \in passes}
                        => ks = {k \in DOMAIN Picked(seq, ixs): Picked(seq, ixs)[k] \in passes}
  <1>1. PICK order \in Seq(Nat): /\ Increasing(order) /\ ToSet(order) = ixs
                                 /\ Picked(seq, ixs) = [k \in DOMAIN order |-> seq[order[k]]]
    BY IndexesInOrder
  <1> DEFINE p == Picked(seq, ixs)
             ks == {k \in DOMAIN order: order[k] \in some}
  <1>2. p \in Seq(S) /\ DOMAIN p = DOMAIN order /\ \A k \in DOMAIN order: p[k] = seq[order[k]]
    BY <1>1, PickedSeq
  <1> HIDE DEF p
  <1>3. PICK inner \in Seq(Nat): /\ Increasing(inner) /\ ToSet(inner) = ks
                                 /\ Picked(p, ks) = [k \in DOMAIN inner |-> p[inner[k]]]
    <2>1. ks \in SUBSET DOMAIN p
      BY <1>2
    <2> HIDE DEF ks
    <2>2. p \in Seq(S)
      BY <1>2
    <2>3. QED BY <2>1, <2>2, IndexesInOrder, Zenon
  <1> DEFINE both == [k \in DOMAIN inner |-> order[inner[k]]]
  <1>4. \A k \in DOMAIN inner: inner[k] \in DOMAIN order /\ order[inner[k]] \in some /\ order[inner[k]] \in Nat
    BY <1>3 DEF ToSet
  <1>5. both \in Seq(Nat) /\ DOMAIN both = DOMAIN inner /\ \A k \in DOMAIN inner: both[k] = order[inner[k]]
    <2>1. DOMAIN inner = 1 .. Len(inner) /\ Len(inner) \in Nat
      OBVIOUS
    <2>2. both \in [1 .. Len(inner) -> Nat]
      BY <1>4, <2>1
    <2>3. QED BY <2>1, <2>2
  <1> HIDE DEF both
  <1>6. Increasing(both)
    BY <1>1, <1>3, <1>4, <1>5 DEF Increasing
  <1>7. ToSet(both) = some
    <2>1. \A i \in some: \E k \in DOMAIN order: order[k] = i
      BY <1>1 DEF ToSet
    <2>2. \A i \in some: \E k \in ks: order[k] = i
      BY <2>1
    <2>3. \A k \in ks: \E l \in DOMAIN inner: inner[l] = k
      BY <1>3 DEF ToSet
    <2>4. \A i \in some: \E l \in DOMAIN inner: both[l] = i
      BY <1>5, <2>2, <2>3
    <2>5. \A l \in DOMAIN inner: both[l] \in some
      BY <1>4, <1>5
    <2>6. QED BY <1>5, <2>4, <2>5 DEF ToSet
  <1>8. Picked(seq, some) = [k \in DOMAIN both |-> seq[both[k]]]
    BY <1>5, <1>6, <1>7, PickedBy
  <1>9. Picked(p, ks) = Picked(seq, some)
    BY <1>2, <1>3, <1>4, <1>5, <1>8
  <1>10. ASSUME NEW passes, some = {i \in ixs: seq[i] \in passes} PROVE ks = {k \in DOMAIN p: p[k] \in passes}
    <2>1. \A k \in DOMAIN order: order[k] \in ixs
      BY <1>1 DEF ToSet
    <2>2. QED BY <1>2, <1>10, <2>1
  <1>11. ks \in SUBSET DOMAIN p
    BY <1>2
  <1> HIDE DEF ks
  <1>12. QED BY <1>9, <1>10, <1>11 DEF p

(* A filter of a filter is one of both tests.                              *)
Passing(seq, ixs, passes) == {i \in ixs: seq[i] \in passes}

LEMMA PickedIn ==
    ASSUME NEW S, NEW seq \in Seq(S), NEW ixs \in SUBSET DOMAIN seq, NEW passes
    PROVE  Picked(Picked(seq, ixs), Passing(Picked(seq, ixs), DOMAIN Picked(seq, ixs), passes))
              = Picked(seq, Passing(seq, ixs, passes))
  <1> DEFINE some == {i \in ixs: seq[i] \in passes}
             p == Picked(seq, ixs)
  <1>1. some \in SUBSET ixs
    OBVIOUS
  <1>2. PICK ks \in SUBSET DOMAIN p:
           /\ Picked(p, ks) = Picked(seq, some)
           /\ \A q: some = {i \in ixs: seq[i] \in q} => ks = {k \in DOMAIN p: p[k] \in q}
    <2> HIDE DEF some
    <2>1. QED BY <1>1, PickedTwice
  <1>3. ks = {k \in DOMAIN p: p[k] \in passes}
    BY <1>2
  <1>4. QED BY <1>2, <1>3 DEF Passing

-----------------------------------------------------------------------------
(* The end of a list when the list changes at its own end.                 *)

LEMMA EndOfEnd ==
    ASSUME NEW S, NEW s \in Seq(S), NEW m \in 1 .. Len(s) + 1, NEW j \in 1 .. Len(s) - m + 2
    PROVE  SubSeq(SubSeq(s, m, Len(s)), j, Len(SubSeq(s, m, Len(s)))) = SubSeq(s, m + j - 1, Len(s))
  <1> DEFINE n == Len(s)
             e == SubSeq(s, m, n)
             l == m + j - 1
             a == SubSeq(e, j, Len(e))
             b == SubSeq(s, l, n)
  <1>1. /\ n \in Nat /\ m \in 1 .. n + 1 /\ j \in 1 .. n - m + 2
        /\ l \in 1 .. n + 1 /\ n - l + 1 = (n - m + 1) - j + 1
    OBVIOUS
  <1>2. e \in Seq(S) /\ Len(e) = n - m + 1 /\ \A k \in 1 .. n - m + 1: e[k] = s[k + (m - 1)]
    BY EndOf
  <1> HIDE DEF e, l
  <1>3. b \in Seq(S) /\ Len(b) = n - l + 1 /\ \A k \in 1 .. n - l + 1: b[k] = s[k + (l - 1)]
    BY <1>1, EndOf
  <1>4. j \in 1 .. Len(e) + 1
    BY <1>1, <1>2
  <1>5. a \in Seq(S) /\ Len(a) = Len(e) - j + 1 /\ \A k \in 1 .. Len(e) - j + 1: a[k] = e[k + (j - 1)]
    BY <1>2, <1>4, EndOf
  <1>6. Len(a) = Len(b)
    BY <1>1, <1>2, <1>3, <1>5
  <1>7. ASSUME NEW k \in 1 .. Len(a) PROVE a[k] = b[k]
    <2>1. k + (j - 1) \in 1 .. n - m + 1 /\ (k + (j - 1)) + (m - 1) = k + (l - 1)
      BY <1>1, <1>2, <1>5 DEF l
    <2>2. a[k] = e[k + (j - 1)] /\ e[k + (j - 1)] = s[(k + (j - 1)) + (m - 1)]
      BY <1>2, <1>5, <2>1
    <2>3. b[k] = s[k + (l - 1)]
      BY <1>3, <1>6
    <2>4. QED BY <2>1, <2>2, <2>3
  <1> HIDE DEF a, b
  <1>8. a = b
    BY <1>3, <1>5, <1>6, <1>7, SeqEqual
  <1>9. QED BY <1>8 DEF a, b, e, l

LEMMA EndAppend ==
    ASSUME NEW S, NEW s \in Seq(S), NEW m \in 1 .. Len(s) + 1, NEW x \in S
    PROVE  Append(SubSeq(s, m, Len(s)), x) = SubSeq(Append(s, x), m, Len(Append(s, x)))
  <1> DEFINE n == Len(s)
             e == SubSeq(s, m, n)
             more == Append(s, x)
             a == Append(e, x)
             b == SubSeq(more, m, Len(more))
  <1>1. /\ n \in Nat /\ m \in 1 .. n + 1
        /\ more \in Seq(S) /\ Len(more) = n + 1 /\ more[n + 1] = x /\ \A k \in 1 .. n: more[k] = s[k]
    OBVIOUS
  <1>2. e \in Seq(S) /\ Len(e) = n - m + 1 /\ \A k \in 1 .. n - m + 1: e[k] = s[k + (m - 1)]
    BY EndOf
  <1> HIDE DEF e, more
  <1>3. m \in 1 .. Len(more) + 1
    BY <1>1
  <1>4. b \in Seq(S) /\ Len(b) = Len(more) - m + 1 /\ \A k \in 1 .. Len(more) - m + 1: b[k] = more[k + (m - 1)]
    BY <1>1, <1>3, EndOf
  <1>5. a \in Seq(S) /\ Len(a) = Len(e) + 1 /\ a[Len(e) + 1] = x /\ \A k \in 1 .. Len(e): a[k] = e[k]
    BY <1>2
  <1> HIDE DEF a, b
  <1>6. Len(a) = Len(b)
    BY <1>1, <1>2, <1>4, <1>5
  <1>7. ASSUME NEW k \in 1 .. Len(a) PROVE a[k] = b[k]
    <2>1. b[k] = more[k + (m - 1)]
      BY <1>4, <1>6
    <2>2. CASE k = Len(e) + 1
      <3>1. k + (m - 1) = n + 1
        BY <1>1, <1>2, <2>2
      <3>2. QED BY <1>1, <1>5, <2>1, <2>2, <3>1
    <2>3. CASE k # Len(e) + 1
      <3>1. k \in 1 .. Len(e) /\ k \in 1 .. n - m + 1 /\ k + (m - 1) \in 1 .. n
        BY <1>1, <1>2, <1>5, <2>3
      <3>2. QED BY <1>1, <1>2, <1>5, <2>1, <3>1
    <2>4. QED BY <2>2, <2>3
  <1>8. a = b
    BY <1>4, <1>5, <1>6, <1>7, SeqEqual
  <1>9. QED BY <1>8 DEF a, b, e, more

LastSet(s, x) == [s EXCEPT ![Len(s)] = x]

LEMMA EndLastSet ==
    ASSUME NEW S, NEW s \in Seq(S), NEW m \in 1 .. Len(s), NEW x \in S
    PROVE  LastSet(SubSeq(s, m, Len(s)), x) = SubSeq(LastSet(s, x), m, Len(s))
  <1> DEFINE n == Len(s)
             e == SubSeq(s, m, n)
             t == [s EXCEPT ![n] = x]
             a == [e EXCEPT ![Len(e)] = x]
             b == SubSeq(t, m, n)
  <1>1. /\ n \in Nat /\ m \in 1 .. n /\ m \in 1 .. n + 1
        /\ t \in Seq(S) /\ Len(t) = n /\ t[n] = x /\ \A k \in 1 .. n: k # n => t[k] = s[k]
    OBVIOUS
  <1>2. e \in Seq(S) /\ Len(e) = n - m + 1 /\ \A k \in 1 .. n - m + 1: e[k] = s[k + (m - 1)]
    BY <1>1, EndOf
  <1> HIDE DEF e, t
  <1>3. b \in Seq(S) /\ Len(b) = n - m + 1 /\ \A k \in 1 .. n - m + 1: b[k] = t[k + (m - 1)]
    BY <1>1, EndOf
  <1>4. Len(e) \in 1 .. Len(e)
    BY <1>1, <1>2
  <1>5. a \in Seq(S) /\ Len(a) = Len(e) /\ a[Len(e)] = x /\ \A k \in 1 .. Len(e): k # Len(e) => a[k] = e[k]
    BY <1>2, <1>4
  <1> HIDE DEF a, b
  <1>6. ASSUME NEW k \in 1 .. Len(a) PROVE a[k] = b[k]
    <2>1. b[k] = t[k + (m - 1)]
      BY <1>2, <1>3, <1>5
    <2>2. CASE k = Len(e)
      <3>1. k + (m - 1) = n
        BY <1>1, <1>2, <2>2
      <3>2. QED BY <1>1, <1>5, <2>1, <2>2, <3>1
    <2>3. CASE k # Len(e)
      <3>1. k \in 1 .. n - m + 1 /\ k + (m - 1) \in 1 .. n /\ k + (m - 1) # n
        BY <1>1, <1>2, <1>5, <2>3
      <3>2. QED BY <1>1, <1>2, <1>5, <2>1, <2>3, <3>1
    <2>4. QED BY <2>2, <2>3
  <1>7. a = b
    BY <1>2, <1>3, <1>5, <1>6, SeqEqual
  <1>8. QED BY <1>7 DEF a, b, e, t, LastSet

-----------------------------------------------------------------------------
(* The greatest of a list, and orders by several keys.                     *)

(* Of the indexes with the greatest value, the greatest: the last of them. *)
Tops(v, n) == {i \in 1 .. n: \A j \in 1 .. n: v[j] <= v[i]}

LEMMA TopsExist ==
    ASSUME NEW n \in Nat \ {0}, NEW v \in [1 .. n -> Nat]
    PROVE  Tops(v, n) # {}
  <1> DEFINE T == {k \in Nat: k < n => \E i \in 1 .. k + 1: \A j \in 1 .. k + 1: v[j] <= v[i]}
  <1>1. 0 \in T
    OBVIOUS
  <1>2. ASSUME NEW k \in Nat, k \in T PROVE k + 1 \in T
    <2>1. SUFFICES ASSUME k + 1 < n
                   PROVE  \E i \in 1 .. (k + 1) + 1: \A j \in 1 .. (k + 1) + 1: v[j] <= v[i]
      OBVIOUS
    <2>2. PICK i \in 1 .. k + 1: \A j \in 1 .. k + 1: v[j] <= v[i]
      BY <1>2, <2>1
    <2>3. (k + 1) + 1 \in 1 .. n /\ \A j \in 1 .. (k + 1) + 1: j \in 1 .. n /\ v[j] \in Nat
      BY <2>1
    <2>4. \A j \in 1 .. (k + 1) + 1: j \in 1 .. k + 1 \/ j = (k + 1) + 1
      OBVIOUS
    <2>5. CASE v[(k + 1) + 1] <= v[i]
      BY <2>2, <2>3, <2>4, <2>5
    <2>6. CASE ~(v[(k + 1) + 1] <= v[i])
      <3>1. \A j \in 1 .. (k + 1) + 1: v[j] <= v[(k + 1) + 1]
        BY <2>2, <2>3, <2>4, <2>6
      <3>2. (k + 1) + 1 \in 1 .. (k + 1) + 1
        OBVIOUS
      <3>3. QED BY <3>1, <3>2
    <2>7. QED BY <2>5, <2>6
  <1>3. n - 1 \in Nat /\ n - 1 < n /\ (n - 1) + 1 = n
    OBVIOUS
  <1>4. n - 1 \in T
    <2> HIDE DEF T
    <2>1. QED BY <1>1, <1>2, <1>3, Induct
  <1>5. QED BY <1>3, <1>4 DEF Tops

LEMMA LastTop ==
    ASSUME NEW n \in Nat \ {0}, NEW v \in [1 .. n -> Nat]
    PROVE  /\ Max(Tops(v, n)) \in 1 .. n
           /\ \A j \in 1 .. n: v[j] <= v[Max(Tops(v, n))] /\ (j > Max(Tops(v, n)) => v[j] < v[Max(Tops(v, n))])
  <1> DEFINE J == Tops(v, n)
             D == {n - i: i \in J}
  <1>1. J # {} /\ J \subseteq 1 .. n
    BY TopsExist DEF Tops
  <1> HIDE DEF J
  <1>2. D # {} /\ D \subseteq Nat
    <2>1. \A i \in J: n - i \in Nat
      BY <1>1
    <2>2. QED BY <1>1, <2>1
  <1>3. PICK d \in D: \A e \in D: d <= e
    <2> HIDE DEF D
    <2>1. QED BY <1>2, LeastNat
  <1>4. PICK m \in J: \A i \in J: m >= i
    <2>1. PICK m \in J: d = n - m
      OBVIOUS
    <2>2. \A i \in J: n - m <= n - i
      BY <1>3, <2>1
    <2>3. \A i \in J: i \in Nat /\ n \in Nat
      BY <1>1
    <2>4. QED BY <2>2, <2>3
  <1> DEFINE t == Max(J)
  <1>5. t \in J /\ \A i \in J: t >= i
    BY <1>4 DEF Max
  <1> HIDE DEF t
  <1>6. t \in 1 .. n /\ \A j \in 1 .. n: v[j] <= v[t]
    BY <1>5 DEF J, Tops
  <1>7. ASSUME NEW j \in 1 .. n, j > t PROVE v[j] < v[t]
    <2>1. SUFFICES ASSUME v[j] >= v[t] PROVE FALSE
      BY <1>6
    <2>2. \A k \in 1 .. n: v[k] \in Nat
      OBVIOUS
    <2>3. j \in J
      BY <1>6, <2>1, <2>2 DEF J, Tops
    <2>4. QED BY <1>5, <1>6, <1>7, <2>3
  <1>8. QED BY <1>6, <1>7 DEF t, J

(* The greatest of zero and the values of a list.                          *)
LEMMA MaxOrZero ==
    ASSUME NEW n \in Nat, NEW v \in [1 .. n -> Nat], NEW set, set = {v[i]: i \in 1 .. n}
    PROVE  /\ Max({0} \cup set) \in {0} \cup set /\ Max({0} \cup set) \in Nat
           /\ \A x \in set: x <= Max({0} \cup set)
  <1>1. \E m \in {0} \cup set: \A x \in {0} \cup set: m >= x
    <2>1. \A x \in set: x \in Nat
      OBVIOUS
    <2>2. CASE n = 0
      BY <2>2
    <2>3. CASE n # 0
      <3>1. PICK i \in 1 .. n: \A j \in 1 .. n: v[j] <= v[i]
        BY <2>3, TopsExist DEF Tops
      <3>2. v[i] \in set /\ \A x \in set: x <= v[i]
        BY <3>1
      <3>3. v[i] \in {0} \cup set /\ \A x \in {0} \cup set: v[i] >= x
        BY <2>1, <3>2
      <3>4. QED BY <3>3
    <2>4. QED BY <2>2, <2>3
  <1> DEFINE m == Max({0} \cup set)
  <1>2. m \in {0} \cup set /\ \A x \in {0} \cup set: m >= x
    BY <1>1 DEF Max
  <1>3. {0} \cup set \subseteq Nat
    OBVIOUS
  <1> HIDE DEF m
  <1>4. m \in Nat /\ \A x \in set: x \in Nat /\ m >= x
    BY <1>2, <1>3
  <1>5. \A x \in set: x <= m
    BY <1>4
  <1>6. QED BY <1>2, <1>4, <1>5 DEF m

(* The order by three keys, the first before the others.                   *)
KeysLess(a, b, c, y, x) ==
    \/ a[y] < a[x]
    \/ a[y] = a[x] /\ b[y] < b[x]
    \/ a[y] = a[x] /\ b[y] = b[x] /\ c[y] < c[x]

LEMMA KeysOrder ==
    ASSUME NEW set, NEW a \in [set -> Int], NEW b \in [set -> Int], NEW c \in [set -> Int],
           \A x, y \in set: a[x] = a[y] /\ b[x] = b[y] /\ c[x] = c[y] => x = y,
           NEW below, below = [x \in set |-> {y \in set: KeysLess(a, b, c, y, x)}]
    PROVE  Orders(below, set)
  <1>1. below \in [set -> SUBSET set]
    OBVIOUS
  <1>2. \A x, y \in set: y \in below[x] <=> KeysLess(a, b, c, y, x)
    OBVIOUS
  <1>3. \A x \in set: a[x] \in Int /\ b[x] \in Int /\ c[x] \in Int
    OBVIOUS
  <1>4. ASSUME NEW x \in set PROVE x \notin below[x]
    BY <1>2, <1>3 DEF KeysLess
  <1>5. ASSUME NEW x \in set, NEW y \in set, x # y PROVE x \in below[y] \/ y \in below[x]
    BY <1>2, <1>3, <1>5 DEF KeysLess
  <1>6. ASSUME NEW x \in set, NEW y \in set, NEW z \in set, KeysLess(a, b, c, x, y), KeysLess(a, b, c, z, x)
        PROVE  KeysLess(a, b, c, z, y)
    BY <1>3, <1>6 DEF KeysLess
  <1>7. \A x, y \in set: x \in below[y] => below[x] \subseteq below[y]
    BY <1>1, <1>2, <1>6
  <1>8. QED BY <1>1, <1>4, <1>5, <1>7 DEF Orders

(* Of a sorted list every element is before those behind it, and none is   *)
(* there twice.                                                            *)
LEMMA FirstRanked ==
    ASSUME NEW set, NEW below, IsFiniteSet(set), Orders(below, set), NEW n \in Nat
    PROVE  LET r == Ranked(set, below)
               k == IF n < Len(r) THEN n ELSE Len(r)
               f == SubSeq(r, 1, k)
           IN /\ f \in Seq(set) /\ Len(f) = k
              /\ \A x \in set \ ToSet(f): Cardinality(ToSet(f)) = n /\ \A y \in ToSet(f): y \in below[x]
  <1> DEFINE r == Ranked(set, below)
             k == IF n < Len(r) THEN n ELSE Len(r)
             f == SubSeq(r, 1, k)
  <1>1. /\ r \in Seq(set) /\ ToSet(r) = set
        /\ \A i, j \in DOMAIN r: i < j => r[i] \in below[r[j]]
    BY RankedSeq
  <1> HIDE DEF r
  <1>2. Len(r) \in Nat /\ k \in Nat /\ k <= Len(r) /\ (k < Len(r) => k = n)
    BY <1>1
  <1>0. DOMAIN r = 1 .. Len(r)
    BY <1>1
  <1> HIDE DEF k
  <1>3. /\ f \in Seq(set) /\ Len(f) = k /\ \A i \in 1 .. k: f[i] = r[i]
    <2>1. 1 \in 1 .. Len(r) + 1 /\ k \in (1 - 1) .. Len(r) /\ k - 1 + 1 = k
      BY <1>2
    <2>2. f \in Seq(set) /\ Len(f) = k - 1 + 1 /\ \A i \in 1 .. (k - 1 + 1): f[i] = r[1 + i - 1]
      BY <1>1, <2>1, PartOf
    <2>3. \A i \in 1 .. k: 1 + i - 1 = i
      BY <1>2
    <2>4. QED BY <2>1, <2>2, <2>3
  <1> HIDE DEF f
  <1>4. ToSet(f) = {r[i]: i \in 1 .. k}
    <2>1. DOMAIN f = 1 .. k
      BY <1>3
    <2>2. QED BY <1>3, <2>1 DEF ToSet
  <1>5. ASSUME NEW x \in set, x \notin ToSet(f)
        PROVE  Cardinality(ToSet(f)) = n /\ \A y \in ToSet(f): y \in below[x]
    <2>1. PICK j \in 1 .. Len(r): r[j] = x
      BY <1>0, <1>1 DEF ToSet
    <2>2. j > k
      BY <1>2, <1>4, <1>5, <2>1
    <2>3. k = n
      BY <1>2, <2>1, <2>2
    <2>4. \A i \in 1 .. k: i \in 1 .. Len(r) /\ i < j
      BY <1>2, <2>1, <2>2
    <2>10. \A i \in 1 .. k: r[i] \in below[x]
      BY <1>0, <1>1, <2>1, <2>4
    <2>5. ASSUME NEW i \in 1 .. k, NEW l \in 1 .. k, i < l PROVE r[i] # r[l]
      <3>1. i \in DOMAIN r /\ l \in DOMAIN r /\ r[l] \in set
        BY <1>0, <1>1, <2>4
      <3>2. r[i] \in below[r[l]]
        BY <1>1, <2>5, <3>1
      <3>3. QED BY <3>1, <3>2 DEF Orders
    <2>6. \A i, l \in 1 .. k: i < l \/ l < i \/ i = l
      BY <1>2
    <2>7. \A i, l \in 1 .. k: r[i] = r[l] => i = l
      BY <2>5, <2>6
    <2> DEFINE g == [i \in 1 .. k |-> r[i]]
    <2>8. Cardinality(ToSet(f)) = k
      <3>1. g \in Bijection(1 .. k, ToSet(f))
        <4>1. g \in [1 .. k -> ToSet(f)] /\ \A z \in ToSet(f): \E i \in 1 .. k: g[i] = z
          BY <1>4
        <4>2. \A i, l \in 1 .. k: g[i] = g[l] => i = l
          BY <2>7
        <4> HIDE DEF g
        <4>3. QED BY <4>1, <4>2 DEF Bijection, Injection, Surjection, IsInjective
      <3>2. IsFiniteSet(1 .. k) /\ Cardinality(1 .. k) = k
        <4>1. k >= 1 \/ k = 0
          BY <1>2
        <4>2. k - 1 + 1 = k
          BY <1>2
        <4>3. QED BY <1>2, <4>1, <4>2, FS_Interval
      <3> HIDE DEF g
      <3>3. QED BY <3>1, <3>2, FS_Bijection DEF ExistsBijection
    <2>9. QED BY <1>4, <2>3, <2>8, <2>10
  <1>6. QED BY <1>3, <1>5 DEF f, k, r

-----------------------------------------------------------------------------
(* FlattenSeq of the community modules: list after list.                   *)

Flattens(seqs, f) ==
    f = [i \in 1 .. Len(seqs) |-> IF i = 1 THEN seqs[i] ELSE f[i - 1] \o seqs[i]]

LEMMA FlattensValue ==
    ASSUME NEW seqs, NEW f, Flattens(seqs, f)
    PROVE  \A i \in 1 .. Len(seqs): f[i] = IF i = 1 THEN seqs[i] ELSE f[i - 1] \o seqs[i]
  <1> DEFINE g == [i \in 1 .. Len(seqs) |-> IF i = 1 THEN seqs[i] ELSE f[i - 1] \o seqs[i]]
  <1>1. f = g
    BY Zenon DEF Flattens
  <1>2. \A i \in 1 .. Len(seqs): g[i] = IF i = 1 THEN seqs[i] ELSE f[i - 1] \o seqs[i]
    BY Zenon
  <1> HIDE DEF g
  <1>3. QED BY <1>1, <1>2, Zenon

LEMMA FlattensExist ==
    ASSUME NEW seqs, NEW k \in Nat
    PROVE  \E f: f = [i \in 1 .. k |-> IF i = 1 THEN seqs[i] ELSE f[i - 1] \o seqs[i]]
  <1> DEFINE Good(f, n) == f = [i \in 1 .. n |-> IF i = 1 THEN seqs[i] ELSE f[i - 1] \o seqs[i]]
             T == {n \in Nat: \E f: Good(f, n)}
  <1>1. 0 \in T
    <2> DEFINE f == [i \in 1 .. 0 |-> seqs[i]]
    <2>1. Good(f, 0)
      OBVIOUS
    <2>2. QED BY <2>1
  <1>2. ASSUME NEW n \in Nat, n \in T PROVE n + 1 \in T
    <2>1. PICK old: Good(old, n)
      BY <1>2
    <2>2. \A i \in 1 .. n: old[i] = IF i = 1 THEN seqs[i] ELSE old[i - 1] \o seqs[i]
      <3> DEFINE g == [i \in 1 .. n |-> IF i = 1 THEN seqs[i] ELSE old[i - 1] \o seqs[i]]
      <3>1. \A i \in 1 .. n: g[i] = IF i = 1 THEN seqs[i] ELSE old[i - 1] \o seqs[i]
        BY Zenon
      <3>2. old = g
        BY <2>1, Zenon
      <3> HIDE DEF g
      <3>3. QED BY <3>1, <3>2, Zenon
    <2> DEFINE new == [i \in 1 .. (n + 1) |->
                          IF i <= n THEN old[i] ELSE IF i = 1 THEN seqs[i] ELSE old[i - 1] \o seqs[i]]
    <2>3. ASSUME NEW i \in 1 .. (n + 1) PROVE new[i] = IF i = 1 THEN seqs[i] ELSE new[i - 1] \o seqs[i]
      <3>1. i # 1 => i - 1 \in 1 .. n /\ new[i - 1] = old[i - 1]
        OBVIOUS
      <3>2. CASE i <= n
        BY <2>2, <3>1, <3>2
      <3>3. CASE i > n
        BY <3>1, <3>3
      <3>4. QED BY <3>2, <3>3
    <2>4. new = [i \in 1 .. (n + 1) |-> new[i]]
      OBVIOUS
    <2> HIDE DEF new
    <2>5. Good(new, n + 1)
      BY <2>3, <2>4, Zenon
    <2> HIDE DEF Good
    <2>6. QED BY <2>5
  <1> HIDE DEF T
  <1>3. k \in T
    BY <1>1, <1>2, Induct
  <1>4. QED BY <1>3 DEF T

(* The lists so far, from none to all.                                     *)
LEMMA Flatten ==
    ASSUME NEW S, NEW seqs \in Seq(Seq(S))
    PROVE  \E acc: /\ acc[0] = <<>>
                   /\ \A n \in 1 .. Len(seqs): acc[n] = acc[n - 1] \o seqs[n]
                   /\ acc[Len(seqs)] = FlattenSeq(seqs)
                   /\ \A n \in 0 .. Len(seqs): acc[n] \in Seq(S)
  <1>0. Len(seqs) \in Nat /\ \A i \in 1 .. Len(seqs): seqs[i] \in Seq(S)
    OBVIOUS
  <1> DEFINE f == CHOOSE g: Flattens(seqs, g)
             acc == [n \in 0 .. Len(seqs) |-> IF n = 0 THEN <<>> ELSE f[n]]
  <1>1. \E g: Flattens(seqs, g)
    BY <1>0, FlattensExist DEF Flattens
  <1>2. Flattens(seqs, f)
    BY <1>1
  <1>3. FlattenSeq(seqs) = IF Len(seqs) = 0 THEN seqs ELSE f[Len(seqs)]
    BY DEF FlattenSeq, Flattens
  <1>4. \A i \in 1 .. Len(seqs): f[i] = IF i = 1 THEN seqs[i] ELSE f[i - 1] \o seqs[i]
    BY <1>2, FlattensValue
  <1> HIDE DEF f
  <1>5. acc[0] = <<>>
    BY <1>0
  <1>6. ASSUME NEW n \in 1 .. Len(seqs) PROVE acc[n] = acc[n - 1] \o seqs[n]
    <2>1. acc[n] = f[n] /\ n - 1 \in 0 .. Len(seqs) /\ seqs[n] \in Seq(S)
      BY <1>0
    <2>2. CASE n = 1
      <3>1. acc[n - 1] = <<>> /\ acc[n] = seqs[n]
        BY <1>0, <1>4, <2>1, <2>2
      <3>2. <<>> \o seqs[n] = seqs[n]
        BY <2>1
      <3> HIDE DEF acc
      <3>3. QED BY <3>1, <3>2
    <2>3. CASE n # 1
      <3>1. n - 1 \in 0 .. Len(seqs) /\ n - 1 # 0
        BY <1>0, <2>3
      <3>2. acc[n - 1] = f[n - 1]
        BY <3>1
      <3>3. f[n] = f[n - 1] \o seqs[n]
        BY <1>4, <2>3
      <3> HIDE DEF acc
      <3>4. QED BY <2>1, <3>2, <3>3
    <2>4. QED BY <2>2, <2>3
  <1>7. acc[Len(seqs)] = FlattenSeq(seqs)
    <2>1. Len(seqs) = 0 => seqs = <<>>
      OBVIOUS
    <2>2. QED BY <1>0, <1>3, <2>1
  <1> HIDE DEF acc
  <1>8. \A n \in 0 .. Len(seqs): acc[n] \in Seq(S)
    <2> DEFINE T == {n \in Nat: n <= Len(seqs) => acc[n] \in Seq(S)}
    <2>1. 0 \in T
      <3>1. acc[0] \in Seq(S)
        BY <1>5
      <3>2. QED BY <3>1
    <2>2. ASSUME NEW n \in Nat, n \in T PROVE n + 1 \in T
      <3>1. SUFFICES ASSUME n + 1 <= Len(seqs) PROVE acc[n + 1] \in Seq(S)
        OBVIOUS
      <3>2. n + 1 \in 1 .. Len(seqs) /\ (n + 1) - 1 = n /\ acc[n] \in Seq(S)
        BY <1>0, <2>2, <3>1
      <3>3. acc[n + 1] = acc[n] \o seqs[n + 1] /\ seqs[n + 1] \in Seq(S)
        BY <1>0, <1>6, <3>2
      <3>4. QED BY <3>2, <3>3
    <2> HIDE DEF T
    <2>3. Nat \subseteq T
      BY <2>1, <2>2, Induct
    <2>4. QED BY <1>0, <2>3 DEF T
  <1>9. QED BY <1>5, <1>6, <1>7, <1>8

(* Lists of rows are lists of paths, mapped.                               *)
MapBy(row, s) == [k \in DOMAIN s |-> row[s[k]]]

MapsConcat(row, s, t) == MapBy(row, s \o t) = MapBy(row, s) \o MapBy(row, t)

LEMMA MapConcat == ASSUME NEW S, NEW row, NEW s \in Seq(S), NEW t \in Seq(S) PROVE MapsConcat(row, s, t)
  <1> DEFINE R == {row[x]: x \in S}
             m == MapBy(row, s)
             n == MapBy(row, t)
             c == s \o t
             d == MapBy(row, c)
             e == m \o n
  <1>1. /\ Len(s) \in Nat /\ Len(t) \in Nat /\ DOMAIN s = 1 .. Len(s) /\ DOMAIN t = 1 .. Len(t)
        /\ \A i \in 1 .. Len(s): s[i] \in S
        /\ \A i \in 1 .. Len(t): t[i] \in S
    OBVIOUS
  <1>2. /\ m \in Seq(R) /\ Len(m) = Len(s) /\ n \in Seq(R) /\ Len(n) = Len(t)
        /\ \A k \in 1 .. Len(s): m[k] = row[s[k]]
        /\ \A k \in 1 .. Len(t): n[k] = row[t[k]]
    BY <1>1 DEF MapBy
  <1>3. c \in Seq(S) /\ Len(c) = Len(s) + Len(t)
    BY ConcatProperties
  <1>4. \A k \in 1 .. Len(s) + Len(t): c[k] = IF k <= Len(s) THEN s[k] ELSE t[k - Len(s)]
    BY ConcatProperties
  <1> HIDE DEF m, n, R
  <1>15. m \in Seq(R) /\ n \in Seq(R)
    BY <1>2
  <1>16. Len(m) = Len(s) /\ Len(n) = Len(t)
    BY <1>2
  <1>17. e \in Seq(R) /\ Len(e) = Len(m) + Len(n)
    BY <1>15, ConcatProperties
  <1>5. Len(e) = Len(s) + Len(t)
    BY <1>16, <1>17
  <1>6. \A k \in 1 .. Len(s) + Len(t): e[k] = IF k <= Len(s) THEN m[k] ELSE n[k - Len(s)]
    BY <1>15, <1>16, ConcatProperties
  <1> HIDE DEF c, e
  <1>7. DOMAIN c = 1 .. Len(s) + Len(t)
    BY <1>1, <1>3
  <1>8. DOMAIN d = 1 .. Len(s) + Len(t) /\ \A k \in 1 .. Len(s) + Len(t): d[k] = row[c[k]]
    BY <1>7 DEF MapBy
  <1>9. d = [k \in 1 .. Len(s) + Len(t) |-> d[k]]
    BY <1>8 DEF MapBy
  <1>10. DOMAIN e = 1 .. Len(s) + Len(t)
    BY <1>1, <1>5, <1>17
  <1>11. e = [k \in 1 .. Len(s) + Len(t) |-> e[k]]
    BY <1>10, <1>17
  <1> HIDE DEF d
  <1>12. ASSUME NEW k \in 1 .. Len(s) + Len(t) PROVE d[k] = e[k]
    <2>1. CASE k <= Len(s)
      BY <1>1, <1>2, <1>4, <1>6, <1>8, <2>1
    <2>2. CASE k > Len(s)
      <3>1. k - Len(s) \in 1 .. Len(t)
        BY <1>1, <2>2
      <3>2. ~(k <= Len(s)) /\ d[k] = row[c[k]]
        BY <1>1, <1>8, <2>2
      <3>3. c[k] = t[k - Len(s)] /\ e[k] = n[k - Len(s)]
        BY <1>4, <1>6, <3>2
      <3>4. n[k - Len(s)] = row[t[k - Len(s)]]
        BY <1>2, <3>1
      <3>5. QED BY <3>2, <3>3, <3>4
    <2>3. QED BY <1>1, <2>1, <2>2
  <1>13. d = e
    BY <1>9, <1>11, <1>12, Zenon
  <1>14. QED BY <1>13 DEF MapsConcat, c, d, e, m, n

MapsFlat(row, seqs, rows) == FlattenSeq(rows) = MapBy(row, FlattenSeq(seqs))

LEMMA MapFlatten ==
    ASSUME NEW S, NEW row, NEW seqs \in Seq(Seq(S)),
           NEW rows, rows = [i \in DOMAIN seqs |-> MapBy(row, seqs[i])]
    PROVE  MapsFlat(row, seqs, rows) /\ FlattenSeq(seqs) \in Seq(S)
  <1> DEFINE n == Len(seqs)
             R == {row[x]: x \in S}
  <1>1. n \in Nat /\ DOMAIN seqs = 1 .. n /\ \A i \in 1 .. n: seqs[i] \in Seq(S)
    OBVIOUS
  <1>2. \A i \in 1 .. n: rows[i] = MapBy(row, seqs[i]) /\ rows[i] \in Seq(R)
    <2>1. ASSUME NEW i \in 1 .. n PROVE MapBy(row, seqs[i]) \in Seq(R)
      <3>1. Len(seqs[i]) \in Nat /\ DOMAIN seqs[i] = 1 .. Len(seqs[i]) /\ \A k \in 1 .. Len(seqs[i]): seqs[i][k] \in S
        BY <1>1
      <3>2. \A k \in 1 .. Len(seqs[i]): row[seqs[i][k]] \in R
        BY <3>1
      <3> HIDE DEF R
      <3>3. QED BY <3>1, <3>2 DEF MapBy
    <2>2. QED BY <1>1, <2>1
  <1> HIDE DEF R
  <1>3. rows \in Seq(Seq(R)) /\ Len(rows) = n
    BY <1>1, <1>2
  <1>4. PICK a: /\ a[0] = <<>>
                /\ \A i \in 1 .. n: a[i] = a[i - 1] \o seqs[i]
                /\ a[n] = FlattenSeq(seqs)
                /\ \A i \in 0 .. n: a[i] \in Seq(S)
    BY Flatten
  <1>5. PICK b: /\ b[0] = <<>>
                /\ \A i \in 1 .. n: b[i] = b[i - 1] \o rows[i]
                /\ b[n] = FlattenSeq(rows)
    BY <1>3, Flatten
  <1> HIDE DEF n
  <1> DEFINE T == {i \in Nat: i <= n => b[i] = MapBy(row, a[i])}
  <1>6. 0 \in T
    <2>1. MapBy(row, <<>>) = <<>>
      BY DEF MapBy
    <2>2. b[0] = MapBy(row, a[0])
      BY <1>4, <1>5, <2>1
    <2> HIDE DEF n
    <2>3. QED BY <2>2
  <1>7. ASSUME NEW i \in Nat, i \in T PROVE i + 1 \in T
    <2>1. SUFFICES ASSUME i + 1 <= n PROVE b[i + 1] = MapBy(row, a[i + 1])
      OBVIOUS
    <2>2. i + 1 \in 1 .. n /\ (i + 1) - 1 = i /\ i \in 0 .. n /\ b[i] = MapBy(row, a[i])
      BY <1>1, <1>7, <2>1
    <2>3. a[i + 1] = a[i] \o seqs[i + 1] /\ a[i] \in Seq(S) /\ seqs[i + 1] \in Seq(S)
      BY <1>1, <1>4, <2>2
    <2>4. b[i + 1] = b[i] \o MapBy(row, seqs[i + 1])
      BY <1>2, <1>5, <2>2
    <2>5. MapsConcat(row, a[i], seqs[i + 1])
      BY <2>3, MapConcat
    <2>6. QED BY <2>2, <2>3, <2>4, <2>5 DEF MapsConcat
  <1> HIDE DEF T
  <1>8. n \in T
    BY <1>1, <1>6, <1>7, Induct
  <1>9. b[n] = MapBy(row, a[n]) /\ a[n] \in Seq(S)
    BY <1>1, <1>4, <1>8 DEF T
  <1>10. QED BY <1>4, <1>5, <1>9 DEF n, MapsFlat

(* The paths in the order of the rows: each followed by what is below it.  *)
Blocks(paths, below) == [i \in DOMAIN paths |-> <<paths[i]>> \o below[paths[i]]]
Walk(paths, below) == FlattenSeq(Blocks(paths, below))

LEMMA BlockSeqs ==
    ASSUME NEW D, NEW paths \in Seq(D), NEW below \in [D -> Seq(D)]
    PROVE  /\ Blocks(paths, below) \in Seq(Seq(D)) /\ Len(Blocks(paths, below)) = Len(paths)
           /\ \A i \in DOMAIN paths: Blocks(paths, below)[i] = <<paths[i]>> \o below[paths[i]]
  <1>1. Len(paths) \in Nat /\ DOMAIN paths = 1 .. Len(paths)
    OBVIOUS
  <1>2. ASSUME NEW i \in DOMAIN paths PROVE <<paths[i]>> \o below[paths[i]] \in Seq(D)
    <2>1. paths[i] \in D /\ below[paths[i]] \in Seq(D)
      BY <1>1
    <2> DEFINE b == below[paths[i]]
               o == <<paths[i]>>
    <2>2. o \in Seq(D) /\ b \in Seq(D)
      BY <2>1
    <2> HIDE DEF b, o
    <2>3. o \o b \in Seq(D)
      BY <2>2
    <2>4. QED BY <2>3 DEF b, o
  <1>3. QED BY <1>1, <1>2 DEF Blocks

RowBlocks(row, paths, below) == [i \in DOMAIN paths |-> <<row[paths[i]]>> \o MapBy(row, below[paths[i]])]
RowsWalked(row, paths, below) == FlattenSeq(RowBlocks(row, paths, below)) = MapBy(row, Walk(paths, below))

LEMMA RowsWalk ==
    ASSUME NEW D, NEW row, NEW paths \in Seq(D), NEW below \in [D -> Seq(D)]
    PROVE  /\ Walk(paths, below) \in Seq(D)
           /\ RowsWalked(row, paths, below)
  <1> DEFINE blocks == Blocks(paths, below)
             rows == RowBlocks(row, paths, below)
  <1>0. \A i \in DOMAIN paths: rows[i] = <<row[paths[i]]>> \o MapBy(row, below[paths[i]])
    BY DEF RowBlocks
  <1>1. blocks \in Seq(Seq(D)) /\ DOMAIN blocks = DOMAIN paths
    BY BlockSeqs DEF Blocks
  <1>2. \A i \in DOMAIN paths: blocks[i] = <<paths[i]>> \o below[paths[i]]
    BY BlockSeqs
  <1> HIDE DEF blocks
  <1>3. ASSUME NEW i \in DOMAIN paths PROVE rows[i] = MapBy(row, blocks[i])
    <2>1. paths[i] \in D /\ below[paths[i]] \in Seq(D) /\ <<paths[i]>> \in Seq(D)
      OBVIOUS
    <2>2. MapsConcat(row, <<paths[i]>>, below[paths[i]])
      BY <2>1, MapConcat
    <2>3. MapBy(row, <<paths[i]>>) = <<row[paths[i]]>>
      BY DEF MapBy
    <2>4. QED BY <1>0, <1>2, <2>2, <2>3 DEF MapsConcat
  <1>4. rows = [i \in DOMAIN blocks |-> MapBy(row, blocks[i])]
    BY <1>1, <1>3 DEF RowBlocks
  <1> HIDE DEF rows
  <1>5. FlattenSeq(blocks) \in Seq(D) /\ MapsFlat(row, blocks, rows)
    BY <1>1, <1>4, MapFlatten
  <1>6. QED BY <1>5 DEF RowsWalked, Walk, MapsFlat, blocks, rows
=============================================================================
