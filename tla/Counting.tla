-------------------------------- MODULE Counting --------------------------------
(* Facts about sets of numbers and about the number of places of a sequence    *)
(* that the proofs about the modules share.  Induction over the numbers is     *)
(* taken through sets: a nonempty set of numbers has a least one.              *)
EXTENDS Integers, Sequences, SequencesExt, FiniteSetsExt, WellFoundedInduction, SequenceTheorems,
        FiniteSetTheorems, TLAPS

(* A set of numbers has a least one; with it a bounded set has a greatest, and  *)
(* Max picks it. *)
LEMMA LeastOfNat ==
  ASSUME NEW T \in SUBSET Nat, T # {} PROVE \E x \in T : \A y \in T : x <= y
<1>1. PICK x \in T : \A y \in T : ~ (<<y, x>> \in OpToRel(<, Nat))
  BY NatLessThanWellFounded, WFMin
<1>2. ASSUME NEW y \in T PROVE x <= y
  <2>1. x \in Nat /\ y \in Nat
    OBVIOUS
  <2>2. y < x => <<y, x>> \in OpToRel(<, Nat)
    BY <2>1 DEF OpToRel
  <2>3. ~ (y < x)
    BY <1>1, <2>2, Zenon
  <2> QED BY <2>1, <2>3
<1> QED BY <1>2

(* The greatest number of a bounded set. *)
LEMMA MaxBelow ==
  ASSUME NEW n \in Nat, NEW S \in SUBSET (0 .. n), S # {}
  PROVE  Max(S) \in S /\ \A x \in S : x <= Max(S)
<1> DEFINE T == {d \in 0 .. n : n - d \in S}
<1>0. PICK a \in S : TRUE
  OBVIOUS
<1>1. n - a \in T
  BY <1>0
<1>2. T \in SUBSET Nat /\ T # {}
  BY <1>1
<1>3. PICK d \in T : \A e \in T : d <= e
  BY <1>2, LeastOfNat
<1>4. ASSUME NEW x \in S PROVE x <= n - d
  <2>1. n - x \in T /\ x \in Nat
    OBVIOUS
  <2> QED BY SMTT(60), <1>3, <2>1
<1>5. PICK m \in S : \A x \in S : m >= x
  BY <1>3, <1>4
<1> QED BY <1>5 DEF Max

(* What is left of a sequence without its first k elements. *)
LEMMA DropFront ==
  ASSUME NEW S, NEW s \in Seq(S), NEW k \in 0 .. Len(s)
  PROVE  LET rest == SubSeq(s, k + 1, Len(s)) IN
         /\ rest \in Seq(S) /\ Len(rest) = Len(s) - k /\ DOMAIN rest = 1 .. Len(s) - k
         /\ \A i \in 1 .. Len(s) - k : rest[i] = s[k + i] /\ k + i \in 1 .. Len(s)
<1> DEFINE rest == SubSeq(s, k + 1, Len(s))
<1>1. Len(s) \in Nat /\ k \in Nat /\ k <= Len(s)
  OBVIOUS
<1>2. \A i \in k + 1 .. Len(s) : s[i] \in S
  BY <1>1
<1>3. k + 1 \in Int /\ Len(s) \in Int
  BY <1>1
<1>4. /\ rest \in Seq(S)
      /\ Len(rest) = IF k + 1 <= Len(s) THEN Len(s) - (k + 1) + 1 ELSE 0
      /\ \A i \in 1 .. Len(s) - (k + 1) + 1 : rest[i] = s[(k + 1) + i - 1]
  BY <1>2, <1>3, SubSeqProperties
<1> HIDE DEF rest
<1>5. Len(rest) = Len(s) - k
  BY <1>1, <1>4
<1>6. \A i \in 1 .. Len(s) - k : (k + 1) + i - 1 = k + i /\ k + i \in 1 .. Len(s)
  BY <1>1
<1>7. \A i \in 1 .. Len(s) - k : i \in 1 .. Len(s) - (k + 1) + 1
  BY <1>1
<1> QED BY <1>4, <1>5, <1>6, <1>7 DEF rest

(* The smaller of two numbers. *)
LEMMA MinOfTwo ==
  ASSUME NEW a \in Nat, NEW b \in Nat
  PROVE  Min({a, b}) = IF a <= b THEN a ELSE b
<1>1. \E x \in {a, b} : \A y \in {a, b} : x <= y
  OBVIOUS
<1>2. Min({a, b}) \in {a, b} /\ \A y \in {a, b} : Min({a, b}) <= y
  BY <1>1 DEF Min
<1> QED BY <1>2

-----------------------------------------------------------------------------
(* The places of a sequence that hold a member of K. *)
Places(s, K) == {i \in DOMAIN s : s[i] \in K}
CountIn(s, K) == Cardinality(Places(s, K))

(* There are finitely many, no more than the sequence is long, and none        *)
(* exactly when no element is in K.                                            *)
LEMMA CountIsNat ==
  ASSUME NEW S, NEW s \in Seq(S), NEW K
  PROVE  /\ IsFiniteSet(Places(s, K)) /\ CountIn(s, K) \in 0 .. Len(s)
         /\ CountIn(s, K) = 0 <=> \A i \in DOMAIN s : s[i] \notin K
<1>0. Len(s) \in Nat /\ Len(s) \in Int /\ 1 \in Int
  OBVIOUS
<1>1. IsFiniteSet(1 .. Len(s)) /\ Cardinality(1 .. Len(s)) = Len(s) /\ Len(s) \in Nat
  <2>1. /\ IsFiniteSet(1 .. Len(s))
        /\ Cardinality(1 .. Len(s)) = IF 1 > Len(s) THEN 0 ELSE Len(s) - 1 + 1
    BY <1>0, FS_Interval
  <2> QED BY <1>0, <2>1
<1>2. Places(s, K) \in SUBSET (1 .. Len(s))
  BY DEF Places
<1>3. IsFiniteSet(Places(s, K)) /\ Cardinality(Places(s, K)) <= Len(s)
  BY <1>1, <1>2, FS_Subset
<1>4. Cardinality(Places(s, K)) \in Nat
  BY <1>3, FS_CardinalityType
<1>5. Cardinality(Places(s, K)) = 0 <=> Places(s, K) = {}
  BY <1>3, FS_EmptySet
<1>6. Places(s, K) = {} <=> \A i \in DOMAIN s : s[i] \notin K
  BY DEF Places
<1> QED BY <1>1, <1>3, <1>4, <1>5, <1>6 DEF CountIn

(* Nothing is counted in the empty sequence. *)
LEMMA CountEmpty ==
  ASSUME NEW K PROVE CountIn(<<>>, K) = 0
<1>1. Places(<<>>, K) = {}
  BY DEF Places
<1> QED BY <1>1, FS_EmptySet DEF CountIn

(* One more element. *)
LEMMA CountAppend ==
  ASSUME NEW S, NEW s \in Seq(S), NEW e \in S, NEW K
  PROVE  CountIn(Append(s, e), K) = CountIn(s, K) + (IF e \in K THEN 1 ELSE 0)
<1> DEFINE t == Append(s, e)
           n == Len(s) + 1
<1>1. /\ t \in Seq(S) /\ Len(t) = n /\ t[n] = e /\ Len(s) \in Nat
      /\ \A i \in 1 .. Len(s) : t[i] = s[i]
  BY AppendProperties
<1>2. DOMAIN t = 1 .. n /\ DOMAIN s = 1 .. Len(s) /\ n \notin 1 .. Len(s)
  BY <1>1
<1>3. IsFiniteSet(Places(s, K)) /\ CountIn(s, K) \in Nat
  BY CountIsNat
<1> HIDE DEF t
<1>4. n \notin Places(s, K)
  BY <1>2 DEF Places
<1>5. CASE e \in K
  <2>1. Places(t, K) = Places(s, K) \cup {n}
    BY <1>1, <1>2, <1>5 DEF Places
  <2>2. Cardinality(Places(t, K)) = Cardinality(Places(s, K)) + 1
    BY <2>1, <1>3, <1>4, FS_AddElement
  <2> QED BY <1>5, <2>2 DEF CountIn, t
<1>6. CASE e \notin K
  <2>1. Places(t, K) = Places(s, K)
    BY <1>1, <1>2, <1>6 DEF Places
  <2> QED BY <1>3, <1>6, <2>1 DEF CountIn, t
<1> QED BY <1>5, <1>6

(* The sequence without its first element. *)
LEMMA CountTail ==
  ASSUME NEW S, NEW s \in Seq(S), s # <<>>, NEW K
  PROVE  CountIn(Tail(s), K) = CountIn(s, K) - (IF Head(s) \in K THEN 1 ELSE 0)
<1> DEFINE t == Tail(s)
           later == Places(s, K) \ {1}
           shift == [i \in Places(t, K) |-> i + 1]
<1>1. /\ t \in Seq(S) /\ Len(t) = Len(s) - 1 /\ Len(s) \in Nat /\ Len(s) >= 1
      /\ \A i \in 1 .. Len(t) : t[i] = s[i + 1]
  BY HeadTailProperties, EmptySeq
<1>2. DOMAIN t = 1 .. Len(s) - 1 /\ DOMAIN s = 1 .. Len(s) /\ Head(s) = s[1]
  BY <1>1
<1> HIDE DEF t
<1>3. IsFiniteSet(Places(t, K)) /\ IsFiniteSet(Places(s, K)) /\ CountIn(s, K) \in Nat
      /\ CountIn(t, K) \in Nat
  <2>1. IsFiniteSet(Places(t, K)) /\ CountIn(t, K) \in 0 .. Len(t)
    BY <1>1, CountIsNat
  <2>2. IsFiniteSet(Places(s, K)) /\ CountIn(s, K) \in 0 .. Len(s)
    BY CountIsNat
  <2> QED BY <1>1, <2>1, <2>2
<1>4. shift \in Bijection(Places(t, K), later)
  <2>1. \A i \in Places(t, K) : shift[i] = i + 1 /\ shift[i] \in later /\ i \in Int
    BY <1>1, <1>2 DEF Places
  <2>2. \A j \in later : j - 1 \in Places(t, K) /\ shift[j - 1] = j
    BY <1>1, <1>2 DEF Places
  <2>3. \A a, b \in Places(t, K) : shift[a] = shift[b] => a = b
    BY <2>1
  <2>4. shift \in [Places(t, K) -> later]
    BY <2>1
  <2> QED BY <2>2, <2>3, <2>4 DEF Bijection, Injection, Surjection, IsInjective
<1>5. Cardinality(later) = Cardinality(Places(t, K))
  BY <1>3, <1>4, FS_Bijection DEF ExistsBijection
<1>6. Cardinality(later) = IF 1 \in Places(s, K) THEN Cardinality(Places(s, K)) - 1
                                               ELSE Cardinality(Places(s, K))
  BY <1>3, FS_RemoveElement
<1>7. 1 \in Places(s, K) <=> Head(s) \in K
  BY <1>1, <1>2 DEF Places
<1> QED BY <1>3, <1>5, <1>6, <1>7 DEF CountIn, t

(* No more than the places it can be at. *)
LEMMA CountWithin ==
  ASSUME NEW S, NEW s \in Seq(S), NEW K, NEW a \in Int, NEW b \in Int,
         Places(s, K) \subseteq a .. b
  PROVE  CountIn(s, K) <= IF a > b THEN 0 ELSE b - a + 1
<1>1. IsFiniteSet(a .. b) /\ Cardinality(a .. b) = IF a > b THEN 0 ELSE b - a + 1
  BY FS_Interval
<1>2. Cardinality(Places(s, K)) <= Cardinality(a .. b)
  BY <1>1, FS_Subset
<1> QED BY <1>1, <1>2 DEF CountIn

(* Without its first elements. *)
LEMMA CountDrop ==
  ASSUME NEW S, NEW s \in Seq(S), NEW k \in 0 .. Len(s), NEW K
  PROVE  CountIn(SubSeq(s, k + 1, Len(s)), K) <= CountIn(s, K)
<1> DEFINE t == SubSeq(s, k + 1, Len(s))
           shift == [i \in Places(t, K) |-> k + i]
<1>1. /\ t \in Seq(S) /\ DOMAIN t = 1 .. Len(s) - k
      /\ \A i \in 1 .. Len(s) - k : t[i] = s[k + i] /\ k + i \in 1 .. Len(s)
  BY DropFront
<1> HIDE DEF t
<1>2. IsFiniteSet(Places(s, K))
  BY CountIsNat
<1>3. shift \in Injection(Places(t, K), Places(s, K))
  <2>1. \A i \in Places(t, K) : shift[i] = k + i /\ shift[i] \in Places(s, K) /\ i \in Int
    BY <1>1 DEF Places
  <2>2. \A a, b \in Places(t, K) : shift[a] = shift[b] => a = b
    BY <2>1
  <2>3. shift \in [Places(t, K) -> Places(s, K)]
    BY <2>1
  <2> QED BY <2>2, <2>3 DEF Injection, IsInjective
<1> HIDE DEF shift
<1> QED BY <1>2, <1>3, FS_Injection DEF CountIn, t

(* Without the element at one place. *)
LEMMA RemovedIs ==
  ASSUME NEW S, NEW s \in Seq(S), NEW p \in 1 .. Len(s)
  PROVE  LET t == RemoveAt(s, p) IN
         /\ t \in Seq(S) /\ Len(t) = Len(s) - 1 /\ DOMAIN t = 1 .. Len(s) - 1
         /\ \A i \in 1 .. Len(s) - 1 : t[i] = IF i < p THEN s[i] ELSE s[i + 1]
<1> DEFINE a == SubSeq(s, 1, p - 1)
           b == SubSeq(s, p + 1, Len(s))
           t == RemoveAt(s, p)
<1>0. Len(s) \in Nat /\ p \in Int /\ 1 <= p /\ p <= Len(s) /\ p \in 0 .. Len(s)
  OBVIOUS
<1>1. /\ b \in Seq(S) /\ Len(b) = Len(s) - p
      /\ \A i \in 1 .. Len(s) - p : b[i] = s[p + i]
  BY <1>0, DropFront
<1>2. a \in Seq(S) /\ Len(a) = p - 1 /\ \A i \in 1 .. p - 1 : a[i] = s[i]
  <2>1. \A i \in 1 .. p - 1 : s[i] \in S /\ 1 + i - 1 = i
    BY <1>0
  <2>2. 1 \in Int /\ p - 1 \in Int
    BY <1>0
  <2>3. /\ a \in Seq(S) /\ Len(a) = IF 1 <= p - 1 THEN (p - 1) - 1 + 1 ELSE 0
        /\ \A i \in 1 .. (p - 1) - 1 + 1 : a[i] = s[1 + i - 1]
    BY <2>1, <2>2, SubSeqProperties
  <2> HIDE DEF a
  <2>4. (p - 1) - 1 + 1 = p - 1
    BY <1>0
  <2> QED BY <1>0, <2>1, <2>3, <2>4
<1>3. t = a \o b
  BY DEF RemoveAt
<1> HIDE DEF a, b, t
<1>4. /\ t \in Seq(S) /\ Len(t) = Len(a) + Len(b)
      /\ \A i \in 1 .. Len(a) + Len(b) : t[i] = IF i <= Len(a) THEN a[i] ELSE b[i - Len(a)]
  BY <1>1, <1>2, <1>3, ConcatProperties
<1>5. Len(t) = Len(s) - 1 /\ DOMAIN t = 1 .. Len(s) - 1
  BY <1>0, <1>1, <1>2, <1>4
<1>6. ASSUME NEW i \in 1 .. Len(s) - 1 PROVE t[i] = IF i < p THEN s[i] ELSE s[i + 1]
  <2>1. i \in 1 .. Len(a) + Len(b)
    BY <1>0, <1>1, <1>2
  <2>2. CASE i < p
    <3>1. i <= Len(a) /\ i \in 1 .. p - 1
      BY <1>0, <1>2, <2>2
    <3> QED BY <1>2, <1>4, <2>1, <2>2, <3>1
  <2>3. CASE ~(i < p)
    <3>1. ~(i <= Len(a)) /\ i - Len(a) \in 1 .. Len(s) - p /\ p + (i - Len(a)) = i + 1
      BY <1>0, <1>2, <2>3
    <3>2. b[i - Len(a)] = s[p + (i - Len(a))]
      BY <1>1, <3>1
    <3> QED BY <1>4, <2>1, <2>3, <3>1, <3>2
  <2> QED BY <2>2, <2>3
<1> QED BY <1>4, <1>5, <1>6 DEF t

(* One less is counted where the element was. *)
LEMMA CountRemoved ==
  ASSUME NEW S, NEW s \in Seq(S), NEW p \in 1 .. Len(s), NEW K
  PROVE  CountIn(RemoveAt(s, p), K) = CountIn(s, K) - (IF s[p] \in K THEN 1 ELSE 0)
<1> DEFINE t == RemoveAt(s, p)
           others == Places(s, K) \ {p}
           shift == [i \in Places(t, K) |-> IF i < p THEN i ELSE i + 1]
<1>0. Len(s) \in Nat /\ p \in Int /\ DOMAIN s = 1 .. Len(s)
  OBVIOUS
<1>1. /\ t \in Seq(S) /\ DOMAIN t = 1 .. Len(s) - 1 /\ Len(t) = Len(s) - 1
      /\ \A i \in 1 .. Len(s) - 1 : t[i] = IF i < p THEN s[i] ELSE s[i + 1]
  BY RemovedIs
<1> HIDE DEF t
<1>2. IsFiniteSet(Places(s, K)) /\ CountIn(s, K) \in Nat
  <2>1. IsFiniteSet(Places(s, K)) /\ CountIn(s, K) \in 0 .. Len(s)
    BY CountIsNat
  <2> QED BY <1>0, <2>1
<1>3. IsFiniteSet(Places(t, K)) /\ CountIn(t, K) \in Nat
  <2>1. IsFiniteSet(Places(t, K)) /\ CountIn(t, K) \in 0 .. Len(t)
    BY <1>1, CountIsNat
  <2> QED BY <1>0, <1>1, <2>1
<1>4. shift \in Bijection(Places(t, K), others)
  <2>1. ASSUME NEW i \in Places(t, K)
        PROVE  /\ shift[i] = IF i < p THEN i ELSE i + 1
               /\ shift[i] \in others /\ i \in Int
    <3>1. i \in 1 .. Len(s) - 1 /\ t[i] \in K
      BY <1>1 DEF Places
    <3>2. i \in 1 .. Len(s) /\ i + 1 \in 1 .. Len(s)
      BY <1>0, <3>1
    <3>3. CASE i < p
      BY <1>0, <1>1, <3>1, <3>2, <3>3 DEF Places
    <3>4. CASE ~(i < p)
      BY <1>0, <1>1, <3>1, <3>2, <3>4 DEF Places
    <3> QED BY <3>3, <3>4
  <2>2. ASSUME NEW j \in others PROVE \E i \in Places(t, K) : shift[i] = j
    <3>1. j \in 1 .. Len(s) /\ s[j] \in K /\ j # p
      BY <1>0 DEF Places
    <3>2. CASE j < p
      <4>1. j \in 1 .. Len(s) - 1 /\ t[j] = s[j]
        BY <1>0, <1>1, <3>1, <3>2
      <4>2. j \in Places(t, K)
        BY <1>1, <3>1, <4>1 DEF Places
      <4> QED BY <3>2, <4>2
    <3>3. CASE j > p
      <4>1. j - 1 \in 1 .. Len(s) - 1 /\ ~(j - 1 < p) /\ (j - 1) + 1 = j
        BY <1>0, <3>1, <3>3
      <4>2. t[j - 1] = s[j]
        BY <1>1, <4>1
      <4>3. j - 1 \in Places(t, K)
        BY <1>1, <3>1, <4>1, <4>2 DEF Places
      <4> QED BY <4>1, <4>3
    <3> QED BY <1>0, <3>1, <3>2, <3>3
  <2>3. \A a, b \in Places(t, K) : shift[a] = shift[b] => a = b
    <3> HIDE DEF shift
    <3> QED BY <1>0, <2>1
  <2>4. shift \in [Places(t, K) -> others]
    BY <2>1
  <2> QED BY <2>2, <2>3, <2>4 DEF Bijection, Injection, Surjection, IsInjective
<1>5. Cardinality(others) = Cardinality(Places(t, K))
  BY <1>3, <1>4, FS_Bijection DEF ExistsBijection
<1>6. Cardinality(others) = IF p \in Places(s, K) THEN Cardinality(Places(s, K)) - 1
                                                ELSE Cardinality(Places(s, K))
  BY <1>2, FS_RemoveElement
<1>7. p \in Places(s, K) <=> s[p] \in K
  BY <1>0 DEF Places
<1> QED BY <1>2, <1>3, <1>5, <1>6, <1>7 DEF CountIn, t

(* Two kinds of elements make up the sequence. *)
LEMMA CountSplit ==
  ASSUME NEW S, NEW s \in Seq(S), NEW K, NEW M, S \subseteq K \union M, K \cap M = {}
  PROVE  CountIn(s, K) + CountIn(s, M) = Len(s)
<1>1. /\ IsFiniteSet(Places(s, K)) /\ CountIn(s, K) \in 0 .. Len(s)
  BY CountIsNat
<1>2. /\ IsFiniteSet(Places(s, M)) /\ CountIn(s, M) \in 0 .. Len(s)
  BY CountIsNat
<1>3. Places(s, K) \cup Places(s, M) = 1 .. Len(s) /\ Places(s, K) \cap Places(s, M) = {}
  BY DEF Places
<1>4. Cardinality(Places(s, K) \cup Places(s, M))
        = Cardinality(Places(s, K)) + Cardinality(Places(s, M))
            - Cardinality(Places(s, K) \cap Places(s, M))
  BY <1>1, <1>2, FS_Union
<1>5. Cardinality(Places(s, K) \cap Places(s, M)) = 0
  BY <1>3, FS_EmptySet
<1>6. Len(s) \in Int /\ 1 \in Int /\ Len(s) >= 0
  OBVIOUS
<1>7. Cardinality(1 .. Len(s)) = IF 1 > Len(s) THEN 0 ELSE Len(s) - 1 + 1
  BY <1>6, FS_Interval
<1>8. Cardinality(1 .. Len(s)) = Len(s)
  BY <1>6, <1>7
<1>9. Len(s) = CountIn(s, K) + CountIn(s, M) - 0
  BY <1>3, <1>4, <1>5, <1>8 DEF CountIn
<1>10. CountIn(s, K) \in Int /\ CountIn(s, M) \in Int
  BY <1>1, <1>2, <1>6
<1> QED BY <1>9, <1>10
=============================================================================
