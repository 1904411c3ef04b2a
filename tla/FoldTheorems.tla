---------------------------- MODULE FoldTheorems ----------------------------
(***************************************************************************)
(* The folds of the community modules as a pass over a sequence, for every *)
(* step of two arguments.  The module is instantiated with the step of a   *)
(* fold, which is then reasoned about element by element: Fold gives the   *)
(* values before and after each element.  It extends no more than it       *)
(* needs, since each of its instances holds all that it extends, and so    *)
(* has its own copy of the induction over naturals of ListTheorems.        *)
(***************************************************************************)
EXTENDS Integers, Sequences, Folds, WellFoundedInduction, TLAPS

CONSTANT Step(_, _) \* of the fold: the value so far and the next element

(* The greatest of a set, which is Max of FiniteSetsExt.                   *)
Greatest(s) == CHOOSE x \in s: \A y \in s: x >= y

(* The fold over the indexes that FoldLeft of SequencesExt is, under a     *)
(* name for the provers to find it by.                                     *)
Folded(base, seq) == MapThenFoldSet(LAMBDA x, y: Step(y, x), base,
                                    LAMBDA i: seq[i], LAMBDA s: Greatest(s), DOMAIN seq)

(* A set of naturals that is not empty has a least element.                *)
LEMMA LeastNat ==
    ASSUME NEW T, T \subseteq Nat, T # {}
    PROVE  \E n \in T: \A m \in T: n <= m
  <1> DEFINE R == OpToRel(<, Nat)
  <1>1. IsWellFoundedOn(R, Nat)
    BY NatLessThanWellFounded
  <1>2. \A m, n \in Nat : m < n => <<m, n>> \in R
    BY DEF R, OpToRel
  <1> HIDE DEF R
  <1>3. PICK n \in T: \A m \in T: <<m, n>> \notin R
    BY <1>1, WFMin
  <1>4. ASSUME NEW m \in T PROVE n <= m
    <2>1. m \in Nat /\ n \in Nat
      OBVIOUS
    <2>2. ~(m < n)
      BY <1>2, <1>3, <2>1
    <2>3. QED BY <2>1, <2>2
  <1>5. QED BY <1>4

(* Induction for a set of naturals, in place of a predicate.               *)
LEMMA Induct ==
    ASSUME NEW T, 0 \in T, \A n \in Nat: n \in T => n + 1 \in T
    PROVE  Nat \subseteq T
  <1> DEFINE Out == Nat \ T
  <1>1. SUFFICES ASSUME Out # {} PROVE FALSE
    OBVIOUS
  <1>2. PICK n \in Out: \A m \in Out: n <= m
    <2>1. Out \subseteq Nat
      OBVIOUS
    <2> HIDE DEF Out
    <2>2. QED BY <1>1, <2>1, LeastNat
  <1>3. n # 0 /\ n - 1 \in Nat
    BY <1>2
  <1>4. n - 1 \in T
    BY <1>2, <1>3
  <1>5. n \in T
    BY <1>3, <1>4
  <1>6. QED BY <1>2, <1>5
(* The greatest index of a set of indexes that holds the last one.         *)
LEMMA GreatestOfRange ==
    ASSUME NEW n \in Nat, NEW s \in SUBSET (1 .. n), n \in s
    PROVE  Greatest(s) = n
  <1>1. \A y \in s: n >= y
    OBVIOUS
  <1>2. \A x \in s: (\A y \in s: x >= y) => x = n
    OBVIOUS
  <1>3. QED BY <1>1, <1>2, Zenon DEF Greatest

(* MapThenFoldSet chooses a function from the sets of indexes to the value *)
(* of the fold over them: Passes says that iter is one.                    *)
Value(base, seq, iter, s) == IF s = {} THEN base ELSE Step(iter[s \ {Greatest(s)}], seq[Greatest(s)])

Passes(base, seq, iter, D) == iter = [s \in SUBSET D |-> Value(base, seq, iter, s)]

(* Such a function at each set.                                            *)
LEMMA PassesValue ==
    ASSUME NEW base, NEW seq, NEW iter, NEW D, Passes(base, seq, iter, D)
    PROVE  \A s \in SUBSET D: iter[s] = Value(base, seq, iter, s)
  <1> DEFINE f == [s \in SUBSET D |-> Value(base, seq, iter, s)]
  <1>1. iter = f
    BY Zenon DEF Passes
  <1>2. \A s \in SUBSET D: f[s] = Value(base, seq, iter, s)
    BY Zenon
  <1> HIDE DEF f
  <1>3. QED BY <1>1, <1>2, Zenon

(* The fold is the chosen function at all indexes.                         *)
LEMMA FoldPasses ==
    ASSUME NEW base, NEW seq
    PROVE  Folded(base, seq) = (CHOOSE iter: Passes(base, seq, iter, DOMAIN seq))[DOMAIN seq]
  BY DEF Folded, MapThenFoldSet, Passes, Value

(* There is one to choose, for every length.                               *)
LEMMA PassesExist ==
    ASSUME NEW base, NEW seq, NEW k \in Nat
    PROVE  \E iter: Passes(base, seq, iter, 1 .. k)
  <1> DEFINE T == {n \in Nat: \E iter: Passes(base, seq, iter, 1 .. n)}
  <1>1. 0 \in T
    <2> DEFINE iter == [s \in SUBSET (1 .. 0) |-> base]
    <2>1. \A s \in SUBSET (1 .. 0): s = {}
      OBVIOUS
    <2>2. Passes(base, seq, iter, 1 .. 0)
      BY <2>1 DEF Passes, Value
    <2>3. QED BY <2>2
  <1>2. ASSUME NEW n \in Nat, n \in T PROVE n + 1 \in T
    <2>1. PICK old: Passes(base, seq, old, 1 .. n)
      BY <1>2
    <2>2. \A s \in SUBSET (1 .. n): old[s] = Value(base, seq, old, s)
      BY <2>1, PassesValue
    <2> DEFINE new == [s \in SUBSET (1 .. (n + 1)) |->
                          IF n + 1 \in s THEN Step(old[s \ {n + 1}], seq[n + 1]) ELSE old[s]]
    <2>3. ASSUME NEW s \in SUBSET (1 .. (n + 1)) PROVE new[s] = Value(base, seq, new, s)
      <3>1. CASE n + 1 \in s
        <4>1. Greatest(s) = n + 1
          BY <3>1, GreatestOfRange
        <4>2. s \ {n + 1} \in SUBSET (1 .. n) /\ n + 1 \notin s \ {n + 1}
          OBVIOUS
        <4>3. new[s \ {n + 1}] = old[s \ {n + 1}]
          BY <4>2
        <4>4. new[s] = Step(old[s \ {n + 1}], seq[n + 1])
          BY <3>1
        <4>5. QED BY <3>1, <4>1, <4>3, <4>4 DEF Value
      <3>2. CASE n + 1 \notin s /\ s # {}
        <4>1. s \in SUBSET (1 .. n)
          BY <3>2
        <4>3. old[s] = Step(old[s \ {Greatest(s)}], seq[Greatest(s)])
          BY <2>2, <3>2, <4>1, Zenon DEF Value
        <4>4. s \ {Greatest(s)} \in SUBSET (1 .. (n + 1)) /\ n + 1 \notin s \ {Greatest(s)}
          BY <3>2
        <4>5. new[s \ {Greatest(s)}] = old[s \ {Greatest(s)}]
          BY <4>4
        <4>6. QED BY <3>2, <4>3, <4>5 DEF Value
      <3>3. CASE s = {}
        BY <2>2, <3>3 DEF Value
      <3>4. QED BY <3>1, <3>2, <3>3
    <2>4. new = [s \in SUBSET (1 .. (n + 1)) |-> new[s]]
      OBVIOUS
    <2>5. Passes(base, seq, new, 1 .. (n + 1))
      <3> HIDE DEF new
      <3>1. new = [s \in SUBSET (1 .. (n + 1)) |-> Value(base, seq, new, s)]
        BY <2>3, <2>4, Zenon
      <3>2. QED BY <3>1, Zenon DEF Passes
    <2> HIDE DEF new
    <2>6. QED BY <2>5
  <1> HIDE DEF T
  <1>3. k \in T
    BY <1>1, <1>2, Induct
  <1>4. QED BY <1>3 DEF T

(* A fold passes over its sequence from the first element to the last: the *)
(* values between the elements begin with the base, each is one step after *)
(* the value before it, and the last is the fold.                          *)
THEOREM Fold ==
    ASSUME NEW S, NEW seq \in Seq(S), NEW base
    PROVE  \E acc: /\ acc[0] = base
                   /\ \A n \in 1 .. Len(seq): acc[n] = Step(acc[n - 1], seq[n])
                   /\ acc[Len(seq)] = Folded(base, seq)
  <1>0. Len(seq) \in Nat /\ DOMAIN seq = 1 .. Len(seq)
    OBVIOUS
  <1> DEFINE iter == CHOOSE i: Passes(base, seq, i, 1 .. Len(seq))
             acc == [n \in 0 .. Len(seq) |-> iter[1 .. n]]
  <1>1. Passes(base, seq, iter, 1 .. Len(seq))
    BY <1>0, PassesExist
  <1>2. Folded(base, seq) = iter[1 .. Len(seq)]
    BY <1>0, FoldPasses
  <1>3. \A s \in SUBSET (1 .. Len(seq)): iter[s] = Value(base, seq, iter, s)
    BY <1>1, PassesValue, Zenon
  <1> HIDE DEF iter
  <1>4. acc[0] = base
    <2>1. 1 .. 0 = {} /\ {} \in SUBSET (1 .. Len(seq)) /\ 0 \in 0 .. Len(seq)
      BY <1>0
    <2>2. iter[{}] = base
      BY <1>3, <2>1, Zenon DEF Value
    <2>3. QED BY <2>1, <2>2
  <1>5. ASSUME NEW n \in 1 .. Len(seq) PROVE acc[n] = Step(acc[n - 1], seq[n])
    <2> DEFINE s == 1 .. n
    <2>1. n \in Nat /\ n \in s /\ s \ {n} = 1 .. (n - 1)
      BY <1>0
    <2>2. s \in SUBSET (1 .. Len(seq))
      BY <1>0
    <2>3. n \in 0 .. Len(seq) /\ n - 1 \in 0 .. Len(seq)
      BY <1>0
    <2>4. acc[n] = iter[s] /\ acc[n - 1] = iter[1 .. (n - 1)]
      BY <2>3
    <2> HIDE DEF s, acc
    <2>5. s \in SUBSET (1 .. n)
      BY DEF s
    <2>6. Greatest(s) = n
      BY <2>1, <2>5, GreatestOfRange
    <2>7. iter[s] = Step(iter[s \ {Greatest(s)}], seq[Greatest(s)])
      BY <1>3, <2>1, <2>2, Zenon DEF Value
    <2>8. QED BY <2>1, <2>4, <2>6, <2>7
  <1>6. acc[Len(seq)] = Folded(base, seq)
    BY <1>0, <1>2
  <1> HIDE DEF acc
  <1>7. QED BY <1>4, <1>5, <1>6

(* What holds of the base and survives each step holds of the fold.        *)
LEMMA FoldTyped ==
    ASSUME NEW S, NEW seq \in Seq(S), NEW T, NEW base \in T, \A x \in T, e \in S: Step(x, e) \in T
    PROVE  Folded(base, seq) \in T
  <1>1. PICK acc: /\ acc[0] = base
                  /\ \A n \in 1 .. Len(seq): acc[n] = Step(acc[n - 1], seq[n])
                  /\ acc[Len(seq)] = Folded(base, seq)
    BY Fold
  <1> DEFINE U == {n \in Nat: n <= Len(seq) => acc[n] \in T}
  <1>2. 0 \in U
    BY <1>1
  <1>3. ASSUME NEW n \in Nat, n \in U PROVE n + 1 \in U
    <2>1. SUFFICES ASSUME n + 1 <= Len(seq) PROVE acc[n + 1] \in T
      OBVIOUS
    <2>2. n + 1 \in 1 .. Len(seq) /\ (n + 1) - 1 = n /\ n <= Len(seq)
      BY <2>1
    <2>3. acc[n] \in T /\ seq[n + 1] \in S
      BY <1>3, <2>2
    <2>4. acc[n + 1] = Step(acc[n], seq[n + 1])
      BY <1>1, <2>2
    <2>5. QED BY <2>3, <2>4
  <1>4. Len(seq) \in U
    <2>1. Len(seq) \in Nat
      OBVIOUS
    <2> HIDE DEF U
    <2>2. QED BY <1>2, <1>3, <2>1, Induct
  <1>5. QED BY <1>1, <1>4

(* Nothing to pass over.                                                   *)
LEMMA FoldNone == ASSUME NEW base PROVE Folded(base, <<>>) = base
  <1>1. <<>> \in Seq({}) /\ Len(<<>>) = 0
    OBVIOUS
  <1>2. PICK acc: acc[0] = base /\ acc[Len(<<>>)] = Folded(base, <<>>)
    BY <1>1, Fold
  <1>3. QED BY <1>1, <1>2

(* One element more is one step more.                                      *)
LEMMA FoldMore ==
    ASSUME NEW S, NEW seq \in Seq(S), NEW e \in S, NEW base
    PROVE  Folded(base, Append(seq, e)) = Step(Folded(base, seq), e)
  <1> DEFINE more == Append(seq, e)
             n == Len(seq)
  <1>1. /\ n \in Nat /\ more \in Seq(S) /\ Len(more) = n + 1 /\ more[n + 1] = e
        /\ \A i \in 1 .. n: more[i] = seq[i]
    OBVIOUS
  <1> HIDE DEF more
  <1>2. PICK acc: /\ acc[0] = base
                  /\ \A i \in 1 .. n: acc[i] = Step(acc[i - 1], seq[i])
                  /\ acc[n] = Folded(base, seq)
    BY Fold
  <1>3. PICK bcc: /\ bcc[0] = base
                  /\ \A i \in 1 .. n + 1: bcc[i] = Step(bcc[i - 1], more[i])
                  /\ bcc[n + 1] = Folded(base, more)
    BY <1>1, Fold
  <1> DEFINE T == {i \in Nat: i <= n => acc[i] = bcc[i]}
  <1> HIDE DEF n
  <1>4. 0 \in T
    BY <1>2, <1>3
  <1>5. ASSUME NEW i \in Nat, i \in T PROVE i + 1 \in T
    <2>1. SUFFICES ASSUME i + 1 <= n PROVE acc[i + 1] = bcc[i + 1]
      OBVIOUS
    <2>2. i + 1 \in 1 .. n /\ i + 1 \in 1 .. n + 1 /\ (i + 1) - 1 = i /\ i <= n
      BY <1>1, <2>1
    <2>3. acc[i] = bcc[i]
      BY <1>5, <2>2
    <2>4. acc[i + 1] = Step(acc[i], seq[i + 1])
      BY <1>2, <2>2
    <2>5. bcc[i + 1] = Step(bcc[i], more[i + 1])
      BY <1>3, <2>2
    <2>6. QED BY <1>1, <2>2, <2>3, <2>4, <2>5
  <1>6. n \in T
    <2> HIDE DEF T
    <2>1. QED BY <1>1, <1>4, <1>5, Induct
  <1>7. acc[n] = bcc[n]
    BY <1>1, <1>6
  <1>8. n + 1 \in 1 .. n + 1 /\ (n + 1) - 1 = n
    BY <1>1
  <1>9. bcc[n + 1] = Step(bcc[n], e)
    BY <1>1, <1>3, <1>8
  <1>10. QED BY <1>2, <1>3, <1>7, <1>9 DEF more
=============================================================================
